------------------------------ MODULE Channels ------------------------------
(* A sequence read through a goroutine or shared by several: irt's Pipe,    *)
(* AsChannel, WithBuffer, AsGenerator and the WithMutex family, and stw's   *)
(* channel wrappers when they do not block. The source gives its items,     *)
(* 1 .. items, and then ends or panics.                                     *)
EXTENDS Integers, Sequences, FiniteSets, Functions

CONSTANTS Consumers,   \* numbers, one of them 1
          MaxItems, MaxSize

VARIABLES how, items, panics,     \* which of them, and what the source does
          size,         \* of the buffer
          next,         \* the last item the source gave
          producer,     \* its program counter
          ch, chClosed,
          failure,      \* the source has panicked
          prodDone,     \* AsChannel's done is closed
          stopped,      \* its context is canceled, or a pull is stopped
          begun,        \* the consumer whose context the producer has, or 0
          pc, ctx, got, told,     \* of each consumer
          quits,        \* the consumers that broke off
          reported      \* AsGenerator has re-raised the panic

given == <<how, items, panics, size>>
production == <<next, producer, ch, chClosed, failure, prodDone>>
consumption == <<pc, ctx, got, told, quits, reported>>
vars == <<given, production, stopped, begun, consumption>>

Hows == {"pipe", "asChannel", "withBuffer", "generator", "mutex", "nonblocking"}
Active == IF how \in {"generator", "mutex"} THEN Consumers ELSE {1}
Pipe == how = "pipe"
AsChannel == how = "asChannel"
WithBuffer == how = "withBuffer"
AsGenerator == how = "generator"
WithMutex == how = "mutex"
ChanNonBlocking == how = "nonblocking"

Init ==
  /\ how \in Hows /\ items \in 0..MaxItems
  /\ panics \in (IF how \in {"pipe", "mutex", "nonblocking"} THEN {FALSE} ELSE BOOLEAN)
  /\ size \in (IF how \in {"withBuffer", "nonblocking"} THEN 0..MaxSize ELSE {0})
  /\ next = 0 /\ producer = (IF how \in {"generator", "mutex"} THEN "idle" ELSE "pull")
  /\ ch = <<>> /\ chClosed = FALSE /\ failure = FALSE /\ prodDone = FALSE /\ stopped = FALSE
  /\ begun = (IF how = "generator" THEN 0 ELSE 1)
  /\ pc = [c \in Consumers |-> IF c \in Active THEN "top" ELSE "done"]
  /\ ctx = [c \in Consumers |-> "live"] /\ got = [c \in Consumers |-> <<>>]
  /\ told = [c \in Consumers |-> FALSE] /\ quits = {} /\ reported = FALSE

Live == ~stopped /\ begun /= 0 /\ ctx[begun] = "live"

----------------------------------------------------------------------------
(* The producer pulls from the source and sends, unless its context ends;   *)
(* a panic is kept, and the channel is closed last                          *)
SourceNext ==
  /\ producer = "pull"
  /\ \/ next < items /\ next' = next + 1 /\ producer' = "send" /\ UNCHANGED failure
     \/ next = items /\ producer' = "over" /\ failure' = panics /\ UNCHANGED next
  /\ UNCHANGED <<given, ch, chClosed, prodDone, stopped, begun, consumption>>
Room == Len(ch) < size
sendTo ==
  /\ producer = "send" /\ ~ChanNonBlocking
  /\ \/ Room /\ ch' = Append(ch, next) /\ producer' = "pull"
     \/ ~Live /\ producer' = "over" /\ UNCHANGED ch
  /\ UNCHANGED <<given, next, chClosed, failure, prodDone, stopped, begun, consumption>>
(* stw: a send that finds no room is skipped *)
Write ==
  /\ producer = "send" /\ ChanNonBlocking
  /\ \/ Live /\ ch' = (IF Room THEN Append(ch, next) ELSE ch) /\ producer' = "pull"
     \/ ~Live /\ producer' = "over" /\ UNCHANGED ch
  /\ UNCHANGED <<given, next, chClosed, failure, prodDone, stopped, begun, consumption>>
(* AsChannel's goroutine cancels its context and closes done before the channel *)
ProducerDone ==
  /\ producer = "over" /\ producer' = "closing"
  /\ prodDone' = TRUE /\ stopped' = (how \in {"asChannel", "generator"} \/ stopped)
  /\ UNCHANGED <<given, next, ch, chClosed, failure, begun, consumption>>
CloseChannel ==
  /\ producer = "closing" /\ producer' = "done" /\ chClosed' = TRUE
  /\ UNCHANGED <<given, next, ch, failure, prodDone, stopped, begun, consumption>>

----------------------------------------------------------------------------
Goto(c, l) == pc' = [pc EXCEPT ![c] = l]

(* The first call of a generator with a live context starts the producer,   *)
(* and Channel's loop looks at its context before it receives               *)
Call(c) ==
  /\ pc[c] = "top" /\ ~WithMutex
  /\ LET checks == how \in {"withBuffer", "generator"}
         ended == ctx[c] = "canceled"
     IN \/ checks /\ ended /\ Goto(c, IF WithBuffer THEN "check" ELSE "done") /\ UNCHANGED <<begun, producer>>
        \/ ~(checks /\ ended) /\ Goto(c, "recv")
           /\ IF begun = 0 THEN begun' = c /\ producer' = "pull" ELSE UNCHANGED <<begun, producer>>
  /\ UNCHANGED <<given, next, ch, chClosed, failure, prodDone, stopped, ctx, got, told, quits, reported>>
Take(c) ==
  \/ ch /= <<>> /\ got' = [got EXCEPT ![c] = Append(@, Head(ch))] /\ ch' = Tail(ch) /\ UNCHANGED producer
  \/ ~ChanNonBlocking /\ ch = <<>> /\ producer = "send" /\ got' = [got EXCEPT ![c] = Append(@, next)] /\ producer' = "pull" /\ UNCHANGED ch
recieveFrom(c) ==
  /\ pc[c] = "recv"
  /\ \/ Take(c) /\ Goto(c, "top")
     \/ ch = <<>> /\ chClosed /\ UNCHANGED <<got, ch, producer>>
        /\ Goto(c, CASE WithBuffer -> "check" [] AsGenerator -> "closed" [] AsChannel -> "stop" [] OTHER -> "done")
     \/ how \in {"withBuffer", "generator", "nonblocking"} /\ ctx[c] = "canceled" /\ UNCHANGED <<got, ch, producer>>
        /\ Goto(c, IF WithBuffer THEN "check" ELSE "done")
  /\ UNCHANGED <<given, next, chClosed, failure, prodDone, stopped, begun, ctx, told, quits, reported>>
(* stw's Iterator, not blocking: nothing to receive is skipped, and it reads again *)
Polled(c) == pc[c] = "recv" /\ ChanNonBlocking /\ ch = <<>> /\ ~chClosed
Poll(c) == Polled(c) /\ Goto(c, "top")
           /\ UNCHANGED <<given, production, stopped, begun, ctx, got, told, quits, reported>>

(* The consumer wants no more: it calls AsChannel's stop, which cancels the *)
(* producer and waits for it, or breaks out of WithBuffer's loop, or of a   *)
(* shared one. One that reads a Pipe or a generator must cancel instead.    *)
Break(c) ==
  /\ pc[c] = "top" /\ quits' = quits \union {c} /\ got[c] /= <<>>
  /\ \/ AsChannel /\ Goto(c, "stop")
     \/ WithBuffer /\ Goto(c, "check")
     \/ WithMutex /\ Goto(c, "unpull")
  /\ UNCHANGED <<given, production, stopped, begun, ctx, got, told, reported>>
Stop(c) ==
  /\ pc[c] = "stop" /\ Goto(c, "stopping") /\ stopped' = TRUE
  /\ UNCHANGED <<given, production, begun, ctx, got, told, quits, reported>>
Stopped(c) ==
  /\ pc[c] = "stopping" /\ prodDone /\ Goto(c, "done") /\ told' = [told EXCEPT ![c] = failure]
  /\ UNCHANGED <<given, production, stopped, begun, ctx, got, quits, reported>>
(* WithBuffer re-raises the panic it finds, and cancels *)
Check(c) ==
  /\ pc[c] = "check" /\ Goto(c, "done") /\ told' = [told EXCEPT ![c] = failure] /\ stopped' = TRUE
  /\ UNCHANGED <<given, production, begun, ctx, got, quits, reported>>
(* and a generator one that no caller has been told of *)
Closed(c) ==
  /\ pc[c] = "closed" /\ Goto(c, "done")
  /\ \/ ctx[c] = "live" /\ prodDone /\ told' = [told EXCEPT ![c] = failure /\ ~reported] /\ reported' = (reported \/ failure)
     \/ ctx[c] = "canceled" /\ UNCHANGED <<told, reported>>
  /\ UNCHANGED <<given, production, stopped, begun, ctx, got, quits>>

(* WithMutex: consumers take from one pull, under a mutex; the first to end stops it *)
mtxdo2(c) ==
  /\ pc[c] = "top" /\ WithMutex
  /\ \/ ~stopped /\ next < items /\ next' = next + 1 /\ got' = [got EXCEPT ![c] = Append(@, next + 1)] /\ UNCHANGED pc
     \/ (stopped \/ next = items) /\ Goto(c, "unpull") /\ UNCHANGED <<next, got>>
  /\ UNCHANGED <<given, producer, ch, chClosed, failure, prodDone, stopped, begun, ctx, told, quits, reported>>
unpull(c) ==
  /\ pc[c] = "unpull" /\ Goto(c, "done") /\ stopped' = TRUE
  /\ UNCHANGED <<given, production, begun, ctx, got, told, quits, reported>>

Cancel(c) ==
  /\ ctx[c] = "live" /\ c \in Active /\ ~WithMutex /\ ctx' = [ctx EXCEPT ![c] = "canceled"]
  /\ UNCHANGED <<given, production, stopped, begun, pc, got, told, quits, reported>>

Produce == SourceNext \/ sendTo \/ Write \/ ProducerDone \/ CloseChannel
Consume(c) ==
  \/ Call(c) \/ recieveFrom(c) \/ Poll(c) \/ Stop(c) \/ Stopped(c) \/ Check(c) \/ Closed(c) \/ mtxdo2(c) \/ unpull(c)
Next == Produce \/ \E c \in Consumers : Consume(c) \/ Break(c) \/ Cancel(c)
Spec == Init /\ [][Next]_vars
(* The goroutines run; nobody need break off or cancel *)
FairSpec == Spec /\ WF_vars(Produce) /\ \A c \in Consumers : WF_vars(Consume(c))

----------------------------------------------------------------------------
Got == UNION { Range(got[c]) : c \in Consumers }
Undisturbed == quits = {} /\ \A c \in Consumers : ctx[c] = "live"

(* Consumers get the items in order and none twice, and none missing unless *)
(* somebody stopped or canceled, or a send did not block; stop has waited   *)
(* for the producer, and a panic of the source is told: to every stop, to   *)
(* the consumer of a buffer, and to one caller of a generator               *)
ChannelsDeliver ==
  LET over == \A c \in Consumers : pc[c] = "done"
      tellers == { c \in Consumers : told[c] }
  IN /\ \A c \in Consumers : \A i, j \in 1..Len(got[c]) : i < j => got[c][i] < got[c][j]
     /\ \A c, d \in Consumers : c /= d => Range(got[c]) \intersect Range(got[d]) = {}
     /\ Cardinality(tellers) <= 1 /\ (tellers /= {} => failure)
     /\ AsChannel /\ pc[1] = "done" => prodDone /\ told[1] = failure
     /\ Undisturbed /\ ~ChanNonBlocking => 1..(next - 1) \subseteq Got \union Range(ch)
     /\ over /\ Undisturbed => (~ChanNonBlocking => Got = 1..items) /\ (panics <=> tellers /= {})

(* Whatever the consumers do, the producer ends, and so do they *)
ChannelsEnd == <>[](producer \in {"idle", "done"} /\ \A c \in Consumers : pc[c] = "done")

(* stw: an iteration that does not block ends when there is nothing to receive *)
EmptyEnds == [][\A c \in Consumers : Polled(c) /\ pc'[c] /= pc[c] => pc'[c] = "done"]_vars

============================================================================
