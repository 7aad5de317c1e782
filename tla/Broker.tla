------------------------------- MODULE Broker -------------------------------
(***************************************************************************)
(* pubsub.Broker (src/pubsub/broker.go): publishers hand messages to a     *)
(* sink, dispatch workers take them from the source and send each to every *)
(* subscription, and a control loop adds and removes subscriptions while   *)
(* they do.                                                                *)
(*                                                                         *)
(* The queue between Send and the workers is abstract here (Queue and      *)
(* Deque model it): an unbuffered channel, a FIFO or a LIFO.  A subscriber *)
(* subscribes once; s names its process, its channel and its subscription. *)
(* A step is one select, one operation on the subscriptions, or one whole  *)
(* request handled by the control loop.                                    *)
(***************************************************************************)
EXTENDS Integers, Sequences, FiniteSets, Functions

CONSTANTS Subscribers, Publishers, Workers,
          Options,     \* the configurations of a broker to check
          Nobody       \* no request

ASSUME BrokerAssumption ==
  /\ Subscribers \cap Publishers = {}
  /\ \A o \in Options : /\ o.BufferSize \in Nat /\ o.ParallelDispatch \in BOOLEAN
                        /\ o.NonBlockingPush \in BOOLEAN
                        /\ o.source \in {"channel", "fifo", "lifo"}
                        /\ o.Capacity \in Nat \ {0}  \* of the queue between Send and the workers
                        \* bounds: calls of Send and of Stats, events of the environment
                        /\ o.Sends \in Nat /\ o.Asks \in Nat /\ o.Events \in Nat
                        /\ o.Members \subseteq Subscribers  \* bound: who subscribes

VARIABLES opts,     \* the options of this broker
          ctlCh,    \* the buffered requests
          hand,     \* the request the control loop has received
          loop,     \* whether the control loop runs
          subs,     \* the registered subscriptions
          done,     \* the subscriptions whose done channel is closed
          queue,    \* what the sink accepted and no worker has taken
          shut,     \* whether the queue's owner has closed it
          closed,   \* whether the broker's context has ended
          worker,   \* where each dispatch worker is
          senders,  \* the sends in progress
          mbox,     \* the subscription channels
          got,      \* history: what was sent to each subscription
          pc,       \* where each caller is
          ended,    \* the callers whose context has ended
          count,    \* calls of Send that reached the sink
          msg,      \* the message each publisher is sending
          owed,     \* history: who had subscribed when each message was sent
          accepted, \* history: the messages, in the order the sink accepted them
          asked, answer  \* calls of Stats made, and the last answer of each caller

control == <<ctlCh, hand, loop, subs, done>>
source  == <<queue, shut>>
flow    == <<worker, senders, mbox, got>>
sending == <<count, msg, owed, accepted>>
asking  == <<asked, answer>>
vars == <<opts, control, source, closed, flow, pc, ended, sending, asking>>

Registered == {"live", "ask", "asked", "left"}
CallerAt   == Registered \cup
  {"idle", "offer", "acking", "retract", "failed", "unsub", "out", "sink", "ok", "full", "refused", "ctx"}
NoStats    == [State |-> "unknown", Subscriptions |-> 0, BufferDepth |-> 0, MessageCount |-> 0]
Closed     == [NoStats EXCEPT !.State = "closed"]

Init ==
  /\ opts \in Options
  /\ ctlCh = <<>> /\ hand = Nobody /\ loop = TRUE /\ subs = {} /\ done = {}
  /\ queue = <<>> /\ shut = FALSE /\ closed = FALSE
  /\ worker = [w \in Workers |-> [at |-> "source", msg |-> 0, seen |-> {}, must |-> {}]]
  /\ senders = {} /\ mbox = [s \in Subscribers |-> <<>>] /\ got = [s \in Subscribers |-> <<>>]
  /\ pc = [c \in Subscribers \cup Publishers |-> "idle"] /\ ended = {}
  /\ count = 0 /\ msg = [p \in Publishers |-> 0] /\ owed = <<>> /\ accepted = <<>>
  /\ asked = 0 /\ answer = [s \in Subscribers |-> NoStats]

At(c, s) == pc' = [pc EXCEPT ![c] = s]

----------------------------------------------------------------------------
\* The control channel and its loop.

\* A request enters the buffer, or passes straight into the hand of a loop that waits.
Request(r) ==
  \/ /\ Len(ctlCh) < opts.BufferSize
     /\ ctlCh' = Append(ctlCh, r) /\ UNCHANGED hand
  \/ /\ opts.BufferSize = 0 /\ loop /\ hand = Nobody
     /\ hand' = r /\ UNCHANGED ctlCh

LoopTakes ==
  /\ loop /\ hand = Nobody /\ ctlCh # <<>>
  /\ hand' = Head(ctlCh) /\ ctlCh' = Tail(ctlCh)
  /\ UNCHANGED <<opts, loop, subs, done, source, closed, flow, pc, ended, sending, asking>>

\* A new subscription is stored and acknowledged, a known one acknowledged again.
Register(s) == /\ hand.kind = "sub" /\ subs' = subs \cup {s} /\ UNCHANGED <<done, answer>>

\* Mutant: the subscription is deleted and its done channel stays open.
DeregisterOnly(s) == hand.kind = "unsub" /\ subs' = subs \ {s} /\ UNCHANGED <<done, answer>>

Deregister(s) ==
  /\ hand.kind = "unsub"
  /\ subs' = subs \ {s} /\ done' = IF s \in subs THEN done \cup {s} ELSE done
  /\ UNCHANGED answer

Measure(s) ==
  /\ hand.kind = "stats"
  /\ answer' = [answer EXCEPT ![s] =
       [State |-> IF Cardinality(subs) > 0 \/ Len(queue) > 0 THEN "active" ELSE "empty",
        Subscriptions |-> Cardinality(subs), BufferDepth |-> Len(queue), MessageCount |-> count]]
  /\ UNCHANGED <<subs, done>>

\* Mutant: requests wait for the sends in progress.
LoopHandlesBetween ==
  /\ hand # Nobody /\ senders = {}
  /\ Register(hand.s) \/ Deregister(hand.s) \/ Measure(hand.s)
  /\ hand' = Nobody
  /\ UNCHANGED <<opts, ctlCh, loop, source, closed, flow, pc, ended, sending, asked>>

LoopHandles ==
  /\ hand # Nobody
  /\ Register(hand.s) \/ Deregister(hand.s) \/ Measure(hand.s)
  /\ hand' = Nobody
  /\ UNCHANGED <<opts, ctlCh, loop, source, closed, flow, pc, ended, sending, asked>>

LoopEnds ==
  /\ closed /\ loop /\ hand = Nobody /\ loop' = FALSE
  /\ UNCHANGED <<opts, ctlCh, hand, subs, done, source, closed, flow, pc, ended, sending, asking>>

----------------------------------------------------------------------------
\* Subscribe, Unsubscribe and Stats.

\* Mutant: Subscribe does not wait for its registration.
AcknowledgedEarly(s) == TRUE

Acknowledged(s) == s \in subs \cup done

SubscribeStart(s) ==
  /\ pc[s] = "idle" /\ s \in opts.Members
  /\ At(s, IF s \in ended THEN "ctx" ELSE IF closed THEN "refused" ELSE "offer")
  /\ UNCHANGED <<opts, control, source, closed, flow, ended, sending, asking>>

SubscribeOffer(s) ==
  /\ pc[s] = "offer"
  /\ \/ Request([kind |-> "sub", s |-> s]) /\ At(s, "acking")
     \/ s \in ended /\ At(s, "ctx") /\ UNCHANGED <<ctlCh, hand>>
     \/ closed /\ At(s, "refused") /\ UNCHANGED <<ctlCh, hand>>
  /\ UNCHANGED <<opts, loop, subs, done, source, closed, flow, ended, sending, asking>>

SubscribeAck(s) ==
  /\ pc[s] = "acking"
  /\ \/ Acknowledged(s) /\ At(s, "live")
     \/ s \in ended /\ At(s, "retract")
     \/ closed /\ At(s, "refused")
  /\ UNCHANGED <<opts, control, source, closed, flow, ended, sending, asking>>

\* Unsubscribe, with the context of the caller or, to undo a Subscribe, with none.  A
\* caller whose context ended first is left with its subscription.
UnsubscribeStart(s) ==
  /\ pc[s] = "live" /\ At(s, IF closed THEN "out" ELSE "unsub")
  /\ UNCHANGED <<opts, control, source, closed, flow, ended, sending, asking>>

\* Mutant: the removal that undoes a Subscribe is sent with the caller's context.
UnsubscribeWithCaller(s) ==
  /\ pc[s] \in {"retract", "unsub"}
  /\ LET end == IF pc[s] = "retract" THEN "failed" ELSE "out"
     IN  \/ Request([kind |-> "unsub", s |-> s]) /\ At(s, end)
         \/ closed /\ At(s, "refused") /\ UNCHANGED <<ctlCh, hand>>
         \/ s \in ended /\ At(s, end) /\ UNCHANGED <<ctlCh, hand>>
  /\ UNCHANGED <<opts, loop, subs, done, source, closed, flow, ended, sending, asking>>

Unsubscribe(s) ==
  /\ pc[s] \in {"retract", "unsub"}
  /\ LET end == IF pc[s] = "retract" THEN "failed" ELSE "out"
     IN  \/ Request([kind |-> "unsub", s |-> s]) /\ At(s, end)
         \/ closed /\ At(s, "refused") /\ UNCHANGED <<ctlCh, hand>>
         \/ s \in ended /\ pc[s] = "unsub" /\ At(s, "left") /\ UNCHANGED <<ctlCh, hand>>
  /\ UNCHANGED <<opts, loop, subs, done, source, closed, flow, ended, sending, asking>>

StatsReturns(s, stats) == At(s, "live") /\ answer' = [answer EXCEPT ![s] = stats]

StatsStart(s) ==
  /\ pc[s] = "live" /\ asked < opts.Asks /\ asked' = asked + 1
  /\ IF closed THEN StatsReturns(s, Closed)
     ELSE At(s, "ask") /\ answer' = [answer EXCEPT ![s] = NoStats]
  /\ UNCHANGED <<opts, control, source, closed, flow, ended, sending>>

Stats(s) ==
  /\ \/ pc[s] = "ask" /\ Request([kind |-> "stats", s |-> s]) /\ At(s, "asked") /\ UNCHANGED answer
     \/ pc[s] = "asked" /\ answer[s] # NoStats /\ At(s, "live") /\ UNCHANGED <<ctlCh, hand, answer>>
     \/ pc[s] \in {"ask", "asked"} /\ s \in ended /\ StatsReturns(s, NoStats) /\ UNCHANGED <<ctlCh, hand>>
     \/ pc[s] \in {"ask", "asked"} /\ closed /\ StatsReturns(s, Closed) /\ UNCHANGED <<ctlCh, hand>>
  /\ UNCHANGED <<opts, loop, subs, done, source, closed, flow, ended, sending, asked>>

Receive(s) ==
  /\ pc[s] = "live" /\ mbox[s] # <<>> /\ mbox' = [mbox EXCEPT ![s] = Tail(mbox[s])]
  /\ UNCHANGED <<opts, control, source, closed, worker, senders, got, pc, ended, sending, asking>>

----------------------------------------------------------------------------
\* Send.

SendStart(p) ==
  /\ pc[p] \in {"idle", "ok", "full"} /\ count < opts.Sends
  /\ IF p \in ended \/ closed
     THEN At(p, IF p \in ended THEN "ctx" ELSE "refused") /\ UNCHANGED sending
     ELSE /\ At(p, "sink") /\ count' = count + 1 /\ msg' = [msg EXCEPT ![p] = count + 1]
          /\ owed' = Append(owed, {s \in Subscribers : pc[s] \in Registered})
          /\ UNCHANGED accepted
  /\ UNCHANGED <<opts, control, source, closed, flow, ended, asking>>

\* Subscriptions are walked live: must is what was there when the walk began.
Dispatching(m) == [at |-> "sending", msg |-> m, seen |-> {}, must |-> subs]

\* The unbuffered channel of NewBroker: a worker takes the message as it is written.
SinkHandsOver(p, w) ==
  /\ pc[p] = "sink" /\ opts.source = "channel" /\ worker[w].at = "source"
  /\ worker' = [worker EXCEPT ![w] = Dispatching(msg[p])]
  /\ accepted' = Append(accepted, msg[p]) /\ At(p, "ok")
  /\ UNCHANGED <<opts, control, source, closed, senders, mbox, got, ended, count, msg, owed, asking>>

SinkAccepts(p) ==
  /\ pc[p] = "sink" /\ opts.source # "channel" /\ ~shut /\ Len(queue) < opts.Capacity
  /\ queue' = Append(queue, msg[p]) /\ accepted' = Append(accepted, msg[p]) /\ At(p, "ok")
  /\ UNCHANGED <<opts, control, shut, closed, flow, ended, count, msg, owed, asking>>

\* With NonBlockingPush a full queue sheds (other brokers ignore the option); otherwise
\* the sink waits until its context, which ends with the caller's and with the broker's,
\* has ended.
Sheds == opts.NonBlockingPush /\ opts.source = "fifo"

SinkFails(p) ==
  /\ pc[p] = "sink" /\ ~shut
  /\ \/ Sheds /\ Len(queue) = opts.Capacity /\ At(p, "full")
     \/ ~Sheds /\ p \in ended /\ At(p, "ctx")
     \/ ~Sheds /\ p \notin ended /\ closed /\ At(p, "refused")
  /\ UNCHANGED <<opts, control, source, closed, flow, ended, sending, asking>>

\* A closed queue stops the broker.
SinkClosed(p) ==
  /\ pc[p] = "sink" /\ shut /\ closed' = TRUE /\ At(p, "refused")
  /\ UNCHANGED <<opts, control, source, flow, ended, sending, asking>>

----------------------------------------------------------------------------
\* The dispatch workers.

\* Mutant: a queue is read from the end it is written at.
TakenNewest == Len(queue)

\* The oldest message of a FIFO, the newest of a LIFO.
Taken == IF opts.source = "lifo" THEN Len(queue) ELSE 1

Take(w) ==
  /\ worker[w].at = "source" /\ queue # <<>> /\ ~shut
  /\ worker' = [worker EXCEPT ![w] = Dispatching(queue[Taken])]
  /\ queue' = SubSeq(queue, 1, Taken - 1) \o SubSeq(queue, Taken + 1, Len(queue))
  /\ UNCHANGED <<opts, control, shut, closed, senders, mbox, got, pc, ended, sending, asking>>

SourceEnds(w) ==
  /\ worker[w].at = "source" /\ (closed \/ shut)
  /\ worker' = [worker EXCEPT ![w].at = "ended"]
  /\ UNCHANGED <<opts, control, source, closed, senders, mbox, got, pc, ended, sending, asking>>

Sends(w) == {x \in senders : x.w = w /\ x.m = worker[w].msg}

\* dispatchMessage reaches the next subscription: with ParallelDispatch at once,
\* otherwise when the send to the one before has ended.
Visit(w, s) ==
  /\ worker[w].at = "sending" /\ s \in subs \ worker[w].seen
  /\ opts.ParallelDispatch \/ Sends(w) = {}
  /\ worker' = [worker EXCEPT ![w].seen = @ \cup {s}]
  /\ senders' = senders \cup {[w |-> w, m |-> worker[w].msg, s |-> s]}
  /\ UNCHANGED <<opts, control, source, closed, mbox, got, pc, ended, sending, asking>>

\* Mutant: a send does not notice that the broker has stopped.
sendMsgDeaf(x) ==
  /\ \/ /\ opts.BufferSize = 0 /\ pc[x.s] = "live" /\ UNCHANGED mbox
        /\ got' = [got EXCEPT ![x.s] = Append(@, x.m)]
     \/ /\ Len(mbox[x.s]) < opts.BufferSize /\ mbox' = [mbox EXCEPT ![x.s] = Append(@, x.m)]
        /\ got' = [got EXCEPT ![x.s] = Append(@, x.m)]
     \/ x.s \in done /\ UNCHANGED <<mbox, got>>
  /\ senders' = senders \ {x}
  /\ UNCHANGED <<opts, control, source, closed, worker, pc, ended, sending, asking>>

\* The three ways out of sendMsg's select.  Without a buffer the subscriber must be
\* receiving.
sendMsg(x) ==
  /\ \/ /\ opts.BufferSize = 0 /\ pc[x.s] = "live" /\ UNCHANGED mbox
        /\ got' = [got EXCEPT ![x.s] = Append(@, x.m)]
     \/ /\ Len(mbox[x.s]) < opts.BufferSize /\ mbox' = [mbox EXCEPT ![x.s] = Append(@, x.m)]
        /\ got' = [got EXCEPT ![x.s] = Append(@, x.m)]
     \/ (closed \/ x.s \in done) /\ UNCHANGED <<mbox, got>>
  /\ senders' = senders \ {x}
  /\ UNCHANGED <<opts, control, source, closed, worker, pc, ended, sending, asking>>

\* The walk is over when what it began with has been visited or removed; the parallel
\* sends are waited for with the broker's context.  A queue's iterator then looks at
\* that context first.
Sent(w) == Sends(w) = {} \/ (opts.ParallelDispatch /\ closed)

DispatchEnds(w) ==
  /\ worker[w].at = "sending" /\ worker[w].must \cap subs \subseteq worker[w].seen /\ Sent(w)
  /\ worker' = [worker EXCEPT ![w].at = IF closed /\ opts.source # "channel" THEN "ended" ELSE "source",
                              ![w].seen = {}, ![w].must = {}]
  /\ UNCHANGED <<opts, control, source, closed, senders, mbox, got, pc, ended, sending, asking>>

----------------------------------------------------------------------------
\* The environment: Stop or the end of the context given to the constructor, a queue
\* closed by its owner, and contexts of callers that end.

Events == Cardinality(ended) + (IF closed THEN 1 ELSE 0) + (IF shut THEN 1 ELSE 0)
Happens == Events < opts.Events

Stop ==
  /\ Happens /\ ~closed /\ closed' = TRUE
  /\ UNCHANGED <<opts, control, source, flow, pc, ended, sending, asking>>

CloseQueue ==
  /\ opts.source # "channel" /\ ~shut /\ Happens /\ shut' = TRUE
  /\ UNCHANGED <<opts, control, queue, closed, flow, pc, ended, sending, asking>>

\* Only where the code can still notice.
ContextEnds(c) ==
  /\ c \in (opts.Members \cup Publishers) \ ended
  /\ pc[c] \in {"idle", "offer", "acking", "unsub", "ask", "asked", "sink"} /\ Happens /\ ended' = ended \cup {c}
  /\ UNCHANGED <<opts, control, source, closed, flow, pc, sending, asking>>

Loop == LoopTakes \/ LoopHandles \/ LoopEnds
Caller(s) == SubscribeStart(s) \/ SubscribeOffer(s) \/ SubscribeAck(s) \/ UnsubscribeStart(s)
               \/ Unsubscribe(s) \/ StatsStart(s) \/ Stats(s) \/ Receive(s)
Publisher(p) == SendStart(p) \/ SinkAccepts(p) \/ SinkFails(p) \/ SinkClosed(p)
                  \/ \E w \in Workers : SinkHandsOver(p, w)
Worker(w) == Take(w) \/ SourceEnds(w) \/ DispatchEnds(w) \/ \E s \in Subscribers : Visit(w, s)
Environment == Stop \/ CloseQueue \/ \E c \in Subscribers \cup Publishers : ContextEnds(c)

Next == \/ Loop
        \/ \E s \in Subscribers : Caller(s)
        \/ \E p \in Publishers : Publisher(p)
        \/ \E w \in Workers : Worker(w)
        \/ \E x \in senders : sendMsg(x)
        \/ Environment

\* Goroutines that can go on do.  Nothing makes a subscriber receive, unsubscribe or
\* call anything, nor a message be sent.  The calls are bounded, so a channel that a
\* caller waits for is at last free for good: weak fairness is enough.
Sending(s) == \E x \in senders : x.s = s /\ sendMsg(x)
Fairness ==
  /\ WF_vars(LoopTakes) /\ WF_vars(LoopHandles) /\ WF_vars(LoopEnds)
  /\ \A s \in Subscribers : /\ WF_vars(SubscribeOffer(s)) /\ WF_vars(SubscribeAck(s))
                            /\ WF_vars(Unsubscribe(s)) /\ WF_vars(Stats(s))
                            /\ WF_vars(Sending(s))
  /\ \A p \in Publishers : WF_vars(SinkAccepts(p) \/ SinkFails(p) \/ SinkClosed(p))
  /\ \A w \in Workers : WF_vars(Worker(w))

Spec == Init /\ [][Next]_vars /\ Fairness

----------------------------------------------------------------------------
\* Properties.

\* A message is sent to a subscription at most once, and with one worker that does not
\* read a LIFO in the order in which the sink accepted the messages (dispatchMessage
\* walks a live set, and the workers share the source).  Parallel sends of a message
\* are not waited for once the broker is stopped, and a worker that reads a channel may
\* still take a message then: those two may be sent in either order.
Ordered ==
  /\ \A v, w \in Workers : v = w
  /\ opts.source # "lifo" /\ (opts.ParallelDispatch /\ opts.source = "channel" => ~closed)
place(m) == CHOOSE i \in DOMAIN accepted : accepted[i] = m
OnceInOrder ==
  \A s \in Subscribers :
    /\ Range(got[s]) \subseteq Range(accepted)
    /\ \A i, j \in DOMAIN got[s] : i < j =>
         IF Ordered THEN place(got[s][i]) < place(got[s][j]) ELSE got[s][i] # got[s][j]

\* When the dispatch of a message ends and the broker has not been stopped, whoever had
\* subscribed before it was sent, and still is subscribed, has been sent it.
Delivered ==
  [][\A w \in Workers :
       worker[w].at = "sending" /\ worker'[w].at # "sending" /\ ~closed =>
         \A s \in owed[worker[w].msg] :
           pc[s] \in Registered /\ s \notin done => worker[w].msg \in Range(got[s])]_vars

\* The calls are bounded, so what each must come to is what holds from some time on.

\* A Subscribe that gives up once its request is queued leaves no subscription behind:
\* the removal it queues (with a context that cannot end) is handled, or the broker stops.
NoLeakedSubscription ==
  <>[](\A s \in Subscribers : pc[s] \in {"failed", "out"} => s \notin subs \/ closed)

\* Subscribe, Unsubscribe and Stats return though no subscriber ever receives: a send
\* that blocks a worker never blocks the control loop.
ControlAnswers ==
  <>[](\A s \in Subscribers : pc[s] \notin {"offer", "acking", "retract", "unsub", "ask", "asked"})

\* A subscription that has been removed holds no worker: no send to it goes on for ever.
UnsubscribeReleases == <>[](\A x \in senders : x.s \in subs)

\* Once the broker is stopped its loop, its workers and their sends end, so Wait returns,
\* and a Send that waits returns.
StopEnds ==
  <>[](closed => /\ ~loop /\ senders = {} /\ \A w \in Workers : worker[w].at = "ended"
                 /\ \A p \in Publishers : pc[p] # "sink")
=============================================================================
