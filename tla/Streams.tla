------------------------------ MODULE Streams ------------------------------
(* Streams that read others in the background: pubsub's Split, Buffer,      *)
(* BufferParallel, MergeStreams and the parallel Convert, on stw's blocking *)
(* channels. The first Read of an output starts the workers, which Read the *)
(* sources and send what they get on a channel the outputs receive from.    *)
(* Readers Read an output until it errs, or until they Close it instead;    *)
(* each has a context, which may be canceled.                               *)
EXTENDS Integers, Sequences, FiniteSets, Functions

CONSTANTS Scripts,     \* Scripts[h]: what a source of h may answer before it ends, for h
                       \* among "split", "buffer", "parallel", "merge" and "convert";
                       \* the answer "bad" is an item that cannot be converted
          Readers,     \* each is a number
          MaxWorkers

VARIABLES how, conf,   \* conf: whether a conversion may fail (ContinueOnError)
          size,        \* the number of workers, and of items the channel holds
          script,      \* of each source: what it answers, before it ends
          taken,       \* how many of those it has given
          srcClosed, srcErrs,   \* of each source: closed, and the errors it collected
          srcStart,    \* its WithCancel: "new", "live", or "never" if canceled first
          lock,        \* the worker that is reading the source
          opened,      \* how many sources MergeStreams has started to read
          worker, item,         \* the workers' program counters, and what each sends
          ch, chClosed, \* the channel
          pump,        \* the output whose Read started the workers
          poolErrs,    \* errors collected by the workers' configuration
          closed, closing, start, canceled, outErrs,  \* of each output
          pc, ctx, why, got, told       \* of each reader

sources == <<script, taken, srcClosed, srcErrs, srcStart, lock>>
pool == <<opened, worker, item, ch, chClosed, pump, poolErrs>>
outputs == <<closed, closing, start, canceled, outErrs>>
readers == <<pc, ctx, why, got, told>>
fixed == <<how, conf, size>>
vars == <<fixed, sources, pool, outputs, readers>>

Sources == DOMAIN script
Outs == IF how = "split" THEN Readers ELSE {1}
Output(t) == IF how = "split" THEN t ELSE 1
(* Mutant: closing an output does not cancel its context *)
LiveUntilCanceled(o) == start[o] \in Readers /\ ctx[start[o]] = "live"
(* MakeStream: the context of an output's operation comes from the Read     *)
(* that started it, and is canceled when the output closes                  *)
Live(o) == start[o] \in Readers /\ ctx[start[o]] = "live" /\ ~canceled[o]
PumpLive == pump /= 0 /\ Live(pump)

(* SliceStream: each answer is given once *)
SourceOf(w) == IF how = "merge" THEN w ELSE 1
Workers == 1..MaxWorkers
Split(n) == [workers |-> 1, cap |-> 0]
Buffer(n) == [workers |-> 1, cap |-> n]
BufferParallel(n) == [workers |-> n, cap |-> n]
MergeStreams(n) == [workers |-> n, cap |-> 0]     \* one for each source
Parallel(n) == [workers |-> n, cap |-> 0]         \* of a converter
Shape == CASE how = "split" -> Split(size) [] how = "buffer" -> Buffer(size)
           [] how = "parallel" -> BufferParallel(size) [] how = "merge" -> MergeStreams(size)
           [] OTHER -> Parallel(size)

Init ==
  /\ how \in DOMAIN Scripts /\ size \in Workers /\ conf \in (IF how = "convert" THEN BOOLEAN ELSE {FALSE})
  /\ script \in [1..(IF how = "merge" THEN size ELSE 1) -> Scripts[how]]
  /\ taken = [s \in Sources |-> 0] /\ srcClosed = [s \in Sources |-> FALSE] /\ srcErrs = [s \in Sources |-> {}]
  /\ srcStart = [s \in Sources |-> "new"] /\ lock = [s \in Sources |-> 0]
  /\ opened = 0 /\ worker = [w \in Workers |-> "idle"] /\ item = [w \in Workers |-> <<>>]
  /\ ch = <<>> /\ chClosed = FALSE /\ pump = 0 /\ poolErrs = {}
  /\ closed = [o \in Outs |-> FALSE] /\ closing = [o \in Outs |-> "no"] /\ start = [o \in Outs |-> 0]
  /\ canceled = [o \in Outs |-> FALSE] /\ outErrs = [o \in Outs |-> {}]
  /\ pc = [r \in Readers |-> "top"]
  /\ ctx = [r \in Readers |-> "live"] /\ why = [r \in Readers |-> ""]
  /\ got = [r \in Readers |-> <<>>] /\ told = [r \in Readers |-> {}]

----------------------------------------------------------------------------
(* Reading an output *)
Goto(t, l) == pc' = [pc EXCEPT ![t] = l]
Fail(r, e) == Goto(r, "close") /\ why' = [why EXCEPT ![r] = e]

(* Read returns at once if the context or the stream has ended *)
ReadCheck(r) ==
  /\ pc[r] = "top"
  /\ \/ ctx[r] = "canceled" /\ Fail(r, "ctx")
     \/ ctx[r] = "live" /\ closed[Output(r)] /\ Fail(r, "eof")
     \/ ctx[r] = "live" /\ ~closed[Output(r)] /\ Goto(r, "op") /\ UNCHANGED why
  /\ UNCHANGED <<fixed, sources, pool, outputs, ctx, got, told>>

(* and otherwise calls the operation. Its first call makes its context,     *)
(* unless it was canceled before: that is an invariant violation, a panic.  *)
(* The first call of any output starts the workers, with that context.      *)
StartPump(o) ==
  IF pump /= 0 THEN UNCHANGED <<pump, worker>>
  ELSE pump' = o /\ worker' = [w \in Workers |-> IF w <= Shape.workers /\ how /= "merge" THEN "pull" ELSE "idle"]
ReadOp(r) ==
  LET o == Output(r) IN
  /\ pc[r] = "op"
  /\ \/ start[o] = -1 /\ Goto(r, "panicked") /\ UNCHANGED <<start, pump, worker>>
     \/ start[o] /= -1 /\ Goto(r, "recv") /\ StartPump(o)
        /\ start' = [start EXCEPT ![o] = IF @ = 0 THEN r ELSE @]
  /\ UNCHANGED <<fixed, sources, opened, item, ch, chClosed, poolErrs, closed, closing, canceled, outErrs, ctx, why, got, told>>

(* ChanReceive.Read takes what is in the channel, or from a sender that waits *)
Take(r) ==
  \/ ch /= <<>> /\ got' = [got EXCEPT ![r] = Append(@, Head(ch))] /\ ch' = Tail(ch) /\ UNCHANGED worker
  \/ ch = <<>> /\ \E w \in Workers : worker[w] = "send"
       /\ got' = [got EXCEPT ![r] = Append(@, item[w])] /\ worker' = [worker EXCEPT ![w] = "pull"] /\ UNCHANGED ch
Receive(r) ==
  /\ pc[r] = "recv"
  /\ \/ ~Live(Output(r)) /\ Fail(r, "ctx") /\ UNCHANGED <<got, ch, worker>>
     \/ Take(r) /\ Goto(r, "top") /\ UNCHANGED why
     \/ chClosed /\ ch = <<>> /\ Fail(r, "eof") /\ UNCHANGED <<got, ch, worker>>
  /\ UNCHANGED <<fixed, sources, opened, item, chClosed, pump, poolErrs, outputs, ctx, told>>

(* A Read that failed closes the stream, as Close does: the first to come   *)
(* marks it closed, cancels its context and then runs the hooks; the others *)
(* wait for it                                                              *)
CloseBegin(t) ==
  LET o == Output(t) IN
  /\ pc[t] = "close"
  /\ \/ closing[o] = "no" /\ closing' = [closing EXCEPT ![o] = "hooks"] /\ closed' = [closed EXCEPT ![o] = TRUE]
        /\ canceled' = [canceled EXCEPT ![o] = TRUE] /\ start' = [start EXCEPT ![o] = IF @ = 0 THEN -1 ELSE @]
        /\ Goto(t, "hooks")
     \/ closing[o] /= "no" /\ Goto(t, "closed") /\ UNCHANGED <<closing, closed, canceled, start>>
  /\ UNCHANGED <<fixed, sources, pool, outErrs, ctx, why, got, told>>

CloseSource(s) ==
  /\ srcClosed' = [srcClosed EXCEPT ![s] = TRUE]
  /\ srcStart' = [srcStart EXCEPT ![s] = IF @ = "new" THEN "never" ELSE @]

(* The hook of MergeStreams waits for all it started, and the others' close *)
(* their source; a converter's adds the errors of its workers               *)
Waited == pump = 0 \/ (opened = -1 /\ \A w \in Workers : worker[w] \in {"idle", "done"})
CloseHook(t) ==
  LET o == Output(t) IN
  /\ pc[t] = "hooks" /\ Goto(t, "closed") /\ closing' = [closing EXCEPT ![o] = "done"]
  /\ \/ how = "merge" /\ Waited /\ outErrs' = [outErrs EXCEPT ![o] = @ \union poolErrs] /\ UNCHANGED sources
     \/ how /= "merge" /\ CloseSource(1) /\ outErrs' = [outErrs EXCEPT ![o] = @ \union srcErrs[1] \union poolErrs]
        /\ UNCHANGED <<script, taken, srcErrs, lock>>
  /\ UNCHANGED <<fixed, pool, closed, start, canceled, ctx, why, got, told>>
(* Mutant: the loser of the closing does not wait for the hooks *)
readWithoutHooks(t) ==
  /\ pc[t] = "closed" /\ Goto(t, "done") /\ told' = [told EXCEPT ![t] = outErrs[Output(t)]]
  /\ UNCHANGED <<fixed, sources, pool, outputs, ctx, why, got>>
readOneHandleError(t) ==
  /\ pc[t] = "closed" /\ closing[Output(t)] = "done" /\ Goto(t, "done")
  /\ told' = [told EXCEPT ![t] = outErrs[Output(t)]]
  /\ UNCHANGED <<fixed, sources, pool, outputs, ctx, why, got>>
Close(r) ==
  /\ pc[r] = "top" /\ Fail(r, "quit")
  /\ UNCHANGED <<fixed, sources, pool, outputs, ctx, got, told>>
Cancel(r) ==
  /\ ctx[r] = "live" /\ pc[r] \notin {"done", "panicked"} /\ ctx' = [ctx EXCEPT ![r] = "canceled"]
  /\ UNCHANGED <<fixed, sources, pool, outputs, pc, why, got, told>>

----------------------------------------------------------------------------
(* The workers: wpa.RunWithPool over the source's Iterator, strict. An end  *)
(* of the source, or of the context, ends the worker.                       *)
To(w, l) == worker' = [worker EXCEPT ![w] = l]

(* MergeStreams reads the sequence of its sources, starting one at a time *)
OpenSource ==
  /\ how = "merge" /\ pump /= 0 /\ opened >= 0
  /\ \/ PumpLive /\ opened < size /\ opened' = opened + 1 /\ To(opened + 1, "pull")
     \/ (~PumpLive \/ opened = size) /\ opened' = -1 /\ UNCHANGED worker
  /\ UNCHANGED <<fixed, sources, item, ch, chClosed, pump, poolErrs, outputs, readers>>

Pull(w) ==
  LET s == SourceOf(w) IN
  /\ worker[w] = "pull" /\ lock[s] = 0
  /\ \/ ~PumpLive /\ To(w, "end") /\ UNCHANGED <<lock, srcClosed, srcStart>>
     \/ ~PumpLive /\ To(w, "end") /\ CloseSource(s) /\ UNCHANGED lock       \* seen by the source's Read
     \/ PumpLive /\ srcClosed[s] /\ To(w, "end") /\ UNCHANGED <<lock, srcClosed, srcStart>>
     \/ PumpLive /\ ~srcClosed[s] /\ To(w, "read") /\ lock' = [lock EXCEPT ![s] = w] /\ UNCHANGED <<srcClosed, srcStart>>
  /\ UNCHANGED <<fixed, script, taken, srcErrs, opened, item, ch, chClosed, pump, poolErrs, outputs, readers>>

(* A conversion that fails is dropped, or ends the worker *)
mapPullProcess(w) ==
  /\ poolErrs' = poolErrs \union {"bad"} /\ To(w, IF conf THEN "pull" ELSE "end") /\ UNCHANGED item
Read(w) ==
  LET s == SourceOf(w)
      n == taken[s] + 1
      done == n > Len(script[s])
      next == IF done THEN "eof" ELSE script[s][n]
      unlocked == lock' = [lock EXCEPT ![s] = 0]
      begun == srcStart' = [srcStart EXCEPT ![s] = "live"]
      took == taken' = [taken EXCEPT ![s] = n]
  IN /\ worker[w] = "read"
     /\ \/ srcStart[s] = "never" /\ To(w, "end") /\ unlocked        \* it panics, and is recovered
           /\ UNCHANGED <<taken, srcClosed, srcErrs, srcStart, item, poolErrs>>
        \/ srcStart[s] /= "never" /\ next = "skip" /\ took /\ begun
           /\ UNCHANGED <<srcClosed, srcErrs, lock, worker, item, poolErrs>>
        \/ srcStart[s] /= "never" /\ next = "item" /\ took /\ begun /\ unlocked
           /\ To(w, "send") /\ item' = [item EXCEPT ![w] = <<s, n>>] /\ UNCHANGED <<srcClosed, srcErrs, poolErrs>>
        \/ srcStart[s] /= "never" /\ next = "bad" /\ took /\ begun /\ unlocked
           /\ mapPullProcess(w) /\ UNCHANGED <<srcClosed, srcErrs>>
        \/ srcStart[s] /= "never" /\ next \in {"err", "eof"} /\ To(w, "end") /\ unlocked
           /\ taken' = [taken EXCEPT ![s] = IF done THEN @ ELSE n]
           /\ srcClosed' = [srcClosed EXCEPT ![s] = TRUE] /\ begun
           /\ srcErrs' = [srcErrs EXCEPT ![s] = IF done THEN @ ELSE @ \union {<<s, n>>}] /\ UNCHANGED <<item, poolErrs>>
     /\ UNCHANGED <<fixed, script, opened, ch, chClosed, pump, outputs, readers>>

(* ChanSend.Write waits for room, or for a receiver *)
Send(w) ==
  /\ worker[w] = "send"
  /\ \/ Len(ch) < Shape.cap /\ ch' = Append(ch, item[w]) /\ To(w, "pull")
     \/ ~PumpLive /\ To(w, "end") /\ UNCHANGED ch
  /\ UNCHANGED <<fixed, sources, opened, item, chClosed, pump, poolErrs, outputs, readers>>

(* A source merged is closed after it, and its errors kept *)
WorkerEnd(w) ==
  /\ worker[w] = "end" /\ To(w, "done")
  /\ \/ how = "merge" /\ CloseSource(w) /\ poolErrs' = poolErrs \union srcErrs[w]
     \/ how /= "merge" /\ UNCHANGED <<srcClosed, srcStart, poolErrs>>
  /\ UNCHANGED <<fixed, script, taken, srcErrs, lock, opened, item, ch, chClosed, pump, outputs, readers>>

(* The channel is closed after the last of them *)
CloseChannel ==
  /\ pump /= 0 /\ ~chClosed /\ (how = "merge" => opened = -1)
  /\ \A w \in Workers : worker[w] \in {"idle", "done"}
  /\ chClosed' = TRUE
  /\ UNCHANGED <<fixed, sources, opened, worker, item, ch, pump, poolErrs, outputs, readers>>

Reading(r) == ReadCheck(r) \/ ReadOp(r) \/ Receive(r)
CloseStep(t) == CloseBegin(t) \/ CloseHook(t) \/ readOneHandleError(t)
Working(w) == Pull(w) \/ Read(w) \/ Send(w) \/ WorkerEnd(w)
Next ==
  \/ \E r \in Readers : Reading(r) \/ CloseStep(r) \/ Close(r) \/ Cancel(r)
  \/ \E w \in Workers : Working(w)
  \/ OpenSource \/ CloseChannel
Spec == Init /\ [][Next]_vars
(* Readers read on, workers run, and a close that has begun goes on; nobody *)
(* need close or cancel                                                     *)
Fairness ==
  /\ \A r \in Readers : WF_vars(Reading(r)) /\ WF_vars(CloseStep(r))
  /\ \A w \in Workers : WF_vars(Working(w))
  /\ WF_vars(OpenSource) /\ WF_vars(CloseChannel)
FairSpec == Spec /\ Fairness

----------------------------------------------------------------------------
Answered(a) == UNION { { <<s, n>> : n \in { k \in DOMAIN script[s] : script[s][k] = a } } : s \in Sources }
Items == Answered("item")
Failures == Answered("err")
Hidden(x) == \E f \in Failures : f[1] = x[1] /\ f[2] < x[2]
Got == UNION { Range(got[r]) : r \in Readers }
Settled(r) == pc[r] \in {"done", "panicked"}
Undisturbed == \A r \in Readers : ctx[r] = "live" /\ why[r] /= "quit"
(* A conversion failed where none may, and its worker has ended *)
Dropped == ~conf /\ "bad" \in poolErrs

(* Items reach the readers once each, in the order of the source if one     *)
(* worker reads it; and if nobody cancels or closes, all of them before an  *)
(* error do, and the error is told to a reader (stream.go, SliceStream,     *)
(* Split, Buffer, MergeStreams; stream_convert.go)                          *)
StreamsDeliver ==
  /\ \A r \in Readers : \A i, j \in 1..Len(got[r]) :
       i < j => /\ got[r][i] /= got[r][j]
                /\ Shape.workers = 1 => got[r][i][2] < got[r][j][2]
  /\ \A r, q \in Readers : r /= q => Range(got[r]) \intersect Range(got[q]) = {}
  /\ Got \subseteq Items
  /\ Undisturbed /\ (\A r \in Readers : Settled(r)) =>
       /\ \A o \in Outs : \E r \in Readers : Output(r) = o /\ why[r] = "eof"
       /\ \A x \in Items : Hidden(x) \/ x \in Got \/ Dropped
       /\ \A f \in Failures : Hidden(f) \/ (\E r \in Readers : f \in told[r]) \/ Dropped
       /\ how = "convert" => \A r \in Readers : poolErrs \subseteq told[r]

(* The readers and the workers all come to an end, and the channel is closed *)
StreamsEnd ==
  <>[]( /\ \A r \in Readers : Settled(r)
        /\ pump /= 0 => chClosed /\ \A w \in Workers : worker[w] \in {"idle", "done"} )

(* A Read of a stream that other goroutines Read does not panic *)
ReadsDoNotPanic == \A r \in Readers : pc[r] /= "panicked"

============================================================================
