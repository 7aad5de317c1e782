---------------------------- MODULE SharedCalls ----------------------------
(* The wrappers of fnx (and the internal LimitExec and TTLExec) whose state *)
(* is shared by the callers of the wrapped function: Once, Limit, TTL, Lock,*)
(* WithCancel, StartGroup, Launch and the Signal of the constructors. The   *)
(* function is run by a caller, or in a goroutine of its own; runs are      *)
(* numbered as they begin, a run's answer is its number, and one run may    *)
(* end in a panic.                                                          *)
EXTENDS Integers, Sequences, FiniteSets

CONSTANTS Callers,     \* numbered from 1
          Limit,       \* of Limit, and the number of copies StartGroup starts
          Dur,         \* of TTL
          MaxNow,      \* bound on the clock
          MaxCalls     \* bound on the calls of a caller

Free == 0
Expiry == -1          \* the answer of a call whose context expired
Panic == -2           \* and of one that panicked

(* The constructors: what runs the function, whether there is an answer to  *)
(* return, whether a panic is made an answer, and whether a context that    *)
(* was never made is noticed.                                               *)
Wrapper(exec, returns, recovers, guards) == [exec |-> exec, returns |-> returns, recovers |-> recovers, guards |-> guards]
Plain(exec) == Wrapper(exec, TRUE, FALSE, TRUE)
Silent(exec) == Wrapper(exec, FALSE, FALSE, FALSE)
WorkerOnce == Plain("once")
OperationOnce == Silent("once")
HandlerOnce == Plain("once")
FutureOnce == Wrapper("once", TRUE, TRUE, TRUE)
WorkerLimit == Plain("limit")
HandlerLimit == Plain("limit")
FutureLimit == Plain("limit")
OperationLimit == Silent("operation limit")
WorkerTTL == Plain("ttl")
OperationTTL == Silent("ttl")
HandlerTTL == Plain("ttl")
FutureTTL == Plain("ttl")
WorkerLock == Plain("lock")
OperationLock == Silent("lock")
HandlerLock == Plain("lock")
FutureLock == Plain("lock")
ConverterLock == Plain("lock")
WorkerCancel == Plain("cancel")
OperationCancel == Silent("cancel")
HandlerCancel == Plain("cancel")
FutureCancel == Plain("cancel")
WorkerGroup == Plain("group")
OperationGroup == Silent("group")
WorkerLaunch == Plain("launch")
OperationLaunch == Silent("operation launch")
MakeSignal == Plain("signal")
Kinds == { WorkerOnce, OperationOnce, HandlerOnce, FutureOnce, WorkerLimit, HandlerLimit, FutureLimit, OperationLimit,
           WorkerTTL, OperationTTL, HandlerTTL, FutureTTL, WorkerLock, OperationLock, HandlerLock, FutureLock, ConverterLock,
           WorkerCancel, OperationCancel, HandlerCancel, FutureCancel, WorkerGroup, OperationGroup,
           WorkerLaunch, OperationLaunch, MakeSignal }

VARIABLES kind,        \* the wrapper
          pc,          \* of each caller
          calls,       \* the calls each has made
          seen,        \* what a caller read and uses in its next step
          answer,      \* of a caller's last call: a run's number, 0 for none, Expiry or Panic
          at,          \* the run a caller is in
          ended,       \* the runs that have ended: at what time
          begun,       \* the time each run began at
          panicked,    \* the runs that ended in a panic
          mtx, output, counter, once,
          now, lastAt,
          ctx,         \* of WithCancel, of Launch's goroutine: "none", "live" or "canceled"
          tasks,       \* goroutines: copies of a group, the one of Launch
          gone         \* the callers whose own context has expired

vars == <<kind, pc, calls, seen, answer, at, ended, begun, panicked, mtx, output, counter, once, now, lastAt, ctx, tasks, gone>>
runs == <<ended, begun, panicked>>
shared == <<mtx, output, counter, once, lastAt, ctx, tasks>>
exec == kind.exec

Runs == Len(begun)
Running == { p \in Callers : pc[p] = "run" }

Init ==
  /\ kind \in Kinds
  /\ pc = [p \in Callers |-> "idle"] /\ calls = [p \in Callers |-> 0]
  /\ seen = [p \in Callers |-> 0] /\ answer = [p \in Callers |-> 0] /\ at = [p \in Callers |-> 0]
  /\ ended = <<>> /\ begun = <<>> /\ panicked = {}
  /\ mtx = Free /\ output = 0 /\ counter = 0 /\ once = "new"
  /\ now = 1 /\ lastAt = 0 /\ ctx = "none" /\ tasks = <<>> /\ gone = {}

----------------------------------------------------------------------------
Goto(p, l) == pc' = [pc EXCEPT ![p] = l]
Call(p) ==
  /\ pc[p] = "idle" /\ calls[p] < MaxCalls
  /\ calls' = [calls EXCEPT ![p] = @ + 1]
  /\ Goto(p, "called")
  /\ UNCHANGED <<kind, seen, answer, at, runs, shared, now, gone>>
Answers(p, a) == Goto(p, "idle") /\ answer' = [answer EXCEPT ![p] = IF a > 0 /\ ~kind.returns THEN 0 ELSE a]
Begins(p) ==
  /\ begun' = Append(begun, now) /\ ended' = Append(ended, 0)
  /\ at' = [at EXCEPT ![p] = Runs + 1]
  /\ Goto(p, "run")
(* A run ends well or, at most one of them, with a panic *)
Ends(p, fails) ==
  /\ fails => panicked = {}
  /\ ended' = [ended EXCEPT ![at[p]] = now]
  /\ panicked' = (IF fails THEN {at[p]} ELSE panicked)
Expired(p) == p \in gone
Rest == <<kind, calls, now, gone>>

(* sync.Once: the first caller runs the function, the others wait for it; a *)
(* panic leaves it done, with no output                                     *)
OnceCall(p) ==
  /\ exec = "once" /\ pc[p] = "called"
  /\ \/ once = "new" /\ once' = "running" /\ Begins(p) /\ UNCHANGED answer
     \/ once = "done" /\ Answers(p, output) /\ UNCHANGED <<once, begun, ended, at>>
  /\ UNCHANGED <<Rest, seen, panicked, mtx, output, counter, lastAt, ctx, tasks>>
OnceEnd(p) ==
  /\ exec = "once" /\ pc[p] = "run"
  /\ \E fails \in BOOLEAN :
       LET lost == fails /\ ~kind.recovers
       IN Ends(p, fails) /\ output' = (IF lost THEN 0 ELSE at[p]) /\ Answers(p, IF lost THEN Panic ELSE at[p])
  /\ once' = "done"
  /\ UNCHANGED <<Rest, seen, at, begun, mtx, counter, lastAt, ctx, tasks>>

(* LimitExec: the output is read without the mutex once the counter is at   *)
(* the limit; the counter moves after the output is stored, and neither     *)
(* does when the function panics.                                           *)
LimitFast(p) ==
  /\ exec = "limit" /\ pc[p] = "called"
  /\ Goto(p, IF counter = Limit THEN "read" ELSE "lock")
  /\ UNCHANGED <<Rest, seen, answer, at, runs, shared>>
LimitRead(p) ==
  /\ exec = "limit" /\ pc[p] = "read"
  /\ Answers(p, output)
  /\ UNCHANGED <<Rest, seen, at, runs, shared>>
LimitLocked(p) ==
  /\ exec = "limit" /\ pc[p] = "lock" /\ mtx = Free
  /\ \/ counter < Limit /\ mtx' = p /\ Begins(p) /\ UNCHANGED answer
     \/ counter = Limit /\ Answers(p, output) /\ UNCHANGED <<mtx, begun, ended, at>>
  /\ UNCHANGED <<Rest, seen, panicked, output, counter, once, lastAt, ctx, tasks>>
LimitEndHolds(p) ==                                \* mutant: a panic leaves the mutex locked
  /\ exec = "limit" /\ pc[p] = "run"
  /\ \/ Ends(p, FALSE) /\ output' = at[p] /\ Goto(p, "count") /\ UNCHANGED answer
     \/ Ends(p, TRUE) /\ Answers(p, Panic) /\ UNCHANGED output
  /\ UNCHANGED <<Rest, seen, at, begun, mtx, counter, once, lastAt, ctx, tasks>>
LimitEnd(p) ==
  /\ exec = "limit" /\ pc[p] = "run"
  /\ \/ Ends(p, FALSE) /\ output' = at[p] /\ Goto(p, "count") /\ UNCHANGED <<answer, mtx>>
     \/ Ends(p, TRUE) /\ mtx' = Free /\ Answers(p, Panic) /\ UNCHANGED output
  /\ UNCHANGED <<Rest, seen, at, begun, counter, once, lastAt, ctx, tasks>>
LimitCount(p) ==
  /\ exec = "limit" /\ pc[p] = "count"
  /\ counter' = (IF counter + 1 < Limit THEN counter + 1 ELSE Limit)
  /\ mtx' = Free /\ Answers(p, output)
  /\ UNCHANGED <<Rest, seen, at, runs, output, once, lastAt, ctx, tasks>>

(* Operation.Limit: the counter is loaded, and moved by a compare-and-swap; *)
(* the runs may overlap                                                     *)
Swaps(p) == counter = seen[p]
OpLimitLoad(p) ==
  /\ exec = "operation limit" /\ pc[p] = "called"
  /\ \/ counter >= Limit /\ Answers(p, 0) /\ UNCHANGED seen
     \/ counter < Limit /\ seen' = [seen EXCEPT ![p] = counter] /\ Goto(p, "swap") /\ UNCHANGED answer
  /\ UNCHANGED <<Rest, at, runs, shared>>
OpLimitSwap(p) ==
  /\ exec = "operation limit" /\ pc[p] = "swap"
  /\ \/ Swaps(p) /\ counter' = seen[p] + 1 /\ Begins(p)
     \/ ~Swaps(p) /\ Goto(p, "called") /\ UNCHANGED <<counter, begun, ended, at>>
  /\ UNCHANGED <<Rest, seen, answer, panicked, mtx, output, once, lastAt, ctx, tasks>>
(* The end of a run that nothing is kept of *)
FreeEnd(p) ==
  /\ exec \in {"operation limit", "cancel"} /\ pc[p] = "run"
  /\ \E fails \in BOOLEAN : Ends(p, fails) /\ Answers(p, IF fails THEN Panic ELSE at[p])
  /\ UNCHANGED <<Rest, seen, at, begun, shared>>

(* TTLExec: the output is fresh for Dur from the end of its run; looked at  *)
(* under the read lock, and again under the write lock                      *)
FreshToo == lastAt /= 0 /\ now - lastAt <= Dur      \* mutant: an output is kept for one unit more
Fresh == lastAt /= 0 /\ now - lastAt < Dur
TTLRead(p) ==
  /\ exec = "ttl" /\ pc[p] = "called" /\ mtx = Free
  /\ IF Fresh THEN Answers(p, output) ELSE Goto(p, "lock") /\ UNCHANGED answer
  /\ UNCHANGED <<Rest, seen, at, runs, shared>>
TTLLocked(p) ==
  /\ exec = "ttl" /\ pc[p] = "lock" /\ mtx = Free
  /\ \/ ~Fresh /\ mtx' = p /\ Begins(p) /\ UNCHANGED answer
     \/ Fresh /\ Answers(p, output) /\ UNCHANGED <<mtx, begun, ended, at>>
  /\ UNCHANGED <<Rest, seen, panicked, output, counter, once, lastAt, ctx, tasks>>
TTLEnd(p) ==
  /\ exec = "ttl" /\ pc[p] = "run" /\ mtx' = Free
  /\ \/ Ends(p, FALSE) /\ output' = at[p] /\ lastAt' = now /\ Answers(p, at[p])
     \/ Ends(p, TRUE) /\ Answers(p, Panic) /\ UNCHANGED <<output, lastAt>>
  /\ UNCHANGED <<Rest, seen, at, begun, counter, once, ctx, tasks>>

WithLock(p) ==
  /\ exec = "lock" /\ pc[p] = "called" /\ mtx = Free
  /\ mtx' = p /\ Begins(p)
  /\ UNCHANGED <<Rest, seen, answer, panicked, output, counter, once, lastAt, ctx, tasks>>
LockEnd(p) ==
  /\ exec = "lock" /\ pc[p] = "run" /\ mtx' = Free
  /\ \E fails \in BOOLEAN : Ends(p, fails) /\ Answers(p, IF fails THEN Panic ELSE at[p])
  /\ UNCHANGED <<Rest, seen, at, begun, output, counter, once, lastAt, ctx, tasks>>

(* WithCancel: the first call makes the context; a cancel before it leaves  *)
(* none to be made: the call then panics, and an operation is run with nil. *)
CancelCall(p) ==
  /\ exec = "cancel" /\ pc[p] = "called"
  /\ once' = "done" /\ ctx' = (IF once = "new" THEN "live" ELSE ctx)
  /\ IF ctx' = "none" /\ kind.guards THEN Answers(p, Panic) /\ UNCHANGED <<begun, ended, at>>
     ELSE Begins(p) /\ UNCHANGED answer
  /\ UNCHANGED <<Rest, seen, panicked, mtx, output, counter, lastAt, tasks>>
Cancel ==
  /\ exec = "cancel" /\ counter = 0
  /\ once' = "done" /\ ctx' = (IF ctx = "live" THEN "canceled" ELSE ctx)
  /\ counter' = 1                                  \* the cancel function has returned
  /\ UNCHANGED <<Rest, pc, seen, answer, at, runs, mtx, output, lastAt, tasks>>

(* StartGroup starts Limit copies, each of which pushes its error to the    *)
(* collector and leaves the wait group; the answer is the number of errors  *)
(* there are once the wait group is empty or the context has expired        *)
StartGroup ==
  /\ exec = "group" /\ once = "new" /\ once' = "done"
  /\ tasks' = [i \in 1..Limit |-> "run"]
  /\ UNCHANGED <<Rest, pc, seen, answer, at, runs, mtx, output, counter, lastAt, ctx>>
Pushed(i) ==
  /\ exec = "group" /\ i \in DOMAIN tasks /\ tasks[i] = "run"
  /\ output' = output + 1 /\ tasks' = [tasks EXCEPT ![i] = "pushed"]
  /\ UNCHANGED <<Rest, pc, seen, answer, at, runs, mtx, counter, once, lastAt, ctx>>
Left(i) ==
  /\ exec = "group" /\ i \in DOMAIN tasks /\ tasks[i] = "pushed"
  /\ tasks' = [tasks EXCEPT ![i] = "left"]
  /\ UNCHANGED <<Rest, pc, seen, answer, at, runs, mtx, output, counter, once, lastAt, ctx>>
GroupWait(p) ==
  /\ exec = "group" /\ pc[p] = "called" /\ once = "done"
  /\ Expired(p) \/ \A i \in DOMAIN tasks : tasks[i] = "left"
  /\ Answers(p, output)
  /\ UNCHANGED <<Rest, seen, at, runs, shared>>

(* Launch: the goroutine of Signal runs the function. A worker's then sends *)
(* the answer or, if its context is canceled, drops it, and closes the      *)
(* channel; a waiter that returns cancels that context. An operation's only *)
(* closes the channel, and its waiter makes an operation that would wait    *)
(* for that, but does not run it.                                           *)
Launch ==
  /\ exec \in {"launch", "operation launch"} /\ once = "new" /\ once' = "done"
  /\ tasks' = <<"run">> /\ ctx' = "live"
  /\ UNCHANGED <<Rest, pc, seen, answer, at, runs, mtx, output, counter, lastAt>>
SignalRan ==
  /\ exec = "launch" /\ tasks = <<"run">> /\ tasks' = <<"send">>
  /\ UNCHANGED <<Rest, pc, seen, answer, at, runs, mtx, output, counter, once, lastAt, ctx>>
SignalDropped ==
  /\ exec = "launch" /\ tasks = <<"send">> /\ ctx = "canceled" /\ tasks' = <<"closed">>
  /\ UNCHANGED <<Rest, pc, seen, answer, at, runs, mtx, output, counter, once, lastAt, ctx>>
OperationSignal ==
  /\ exec = "operation launch" /\ tasks = <<"run">> /\ tasks' = <<"closed">>
  /\ UNCHANGED <<Rest, pc, seen, answer, at, runs, mtx, output, counter, once, lastAt, ctx>>
LaunchWait(p) ==
  /\ exec = "launch" /\ pc[p] = "called" /\ once = "done"
  /\ \/ Expired(p) /\ Answers(p, Expiry) /\ UNCHANGED <<tasks, output>>
     \/ tasks = <<"send">> /\ tasks' = <<"closed">> /\ output' = 1 /\ Answers(p, 1)
     \/ tasks = <<"closed">> /\ Answers(p, 0) /\ UNCHANGED <<tasks, output>>
  /\ ctx' = "canceled"
  /\ UNCHANGED <<Rest, seen, at, runs, mtx, counter, once, lastAt>>
OperationWait(p) ==
  /\ exec = "operation launch" /\ pc[p] = "called" /\ once = "done"
  /\ Answers(p, 0)
  /\ UNCHANGED <<Rest, seen, at, runs, shared>>

(* The constructors' Signal: the worker that waits is wrapped with Once, so *)
(* that every caller but the first waits for the first one to return        *)
SignalClose ==
  /\ exec = "signal" /\ ctx' = "canceled" /\ ctx = "none"
  /\ UNCHANGED <<Rest, pc, seen, answer, at, runs, mtx, output, counter, once, lastAt, tasks>>
SignalWait(p) ==
  /\ exec = "signal"
  /\ \/ pc[p] = "called" /\ once = "new" /\ once' = "running" /\ Goto(p, "wait") /\ UNCHANGED <<answer, output>>
     \/ /\ pc[p] = "wait" /\ (Expired(p) \/ ctx = "canceled")
        /\ output' = (IF Expired(p) THEN Expiry ELSE 0) /\ Answers(p, output') /\ once' = "done"
     \/ pc[p] = "called" /\ once = "done" /\ Answers(p, output) /\ UNCHANGED <<output, once>>
  /\ UNCHANGED <<Rest, seen, at, runs, mtx, counter, lastAt, ctx, tasks>>

----------------------------------------------------------------------------
Tick ==
  /\ exec = "ttl" /\ now < MaxNow /\ now' = now + 1
  /\ UNCHANGED <<kind, pc, calls, seen, answer, at, runs, shared, gone>>
Expire(p) ==
  /\ exec \in {"group", "launch", "signal"} /\ p \notin gone /\ gone' = gone \union {p}
  /\ UNCHANGED <<kind, pc, calls, seen, answer, at, runs, shared, now>>

Step(p) ==
  \/ OnceCall(p) \/ OnceEnd(p) \/ LimitFast(p) \/ LimitRead(p) \/ LimitLocked(p) \/ LimitEnd(p) \/ LimitCount(p)
  \/ OpLimitLoad(p) \/ OpLimitSwap(p) \/ FreeEnd(p) \/ TTLRead(p) \/ TTLLocked(p) \/ TTLEnd(p)
  \/ WithLock(p) \/ LockEnd(p) \/ CancelCall(p) \/ GroupWait(p) \/ LaunchWait(p) \/ OperationWait(p) \/ SignalWait(p)
Task == StartGroup \/ (\E i \in 1..Limit : Pushed(i) \/ Left(i)) \/ Launch \/ SignalRan \/ SignalDropped \/ OperationSignal \/ SignalClose
Next == (\E p \in Callers : Call(p) \/ Step(p) \/ Expire(p)) \/ Task \/ Cancel \/ Tick

Spec == Init /\ [][Next]_vars
(* Functions return, and goroutines and callers run when they can *)
Fairness == WF_vars(Task) /\ \A p \in Callers : WF_vars(Step(p))
FairSpec == Spec /\ Fairness

----------------------------------------------------------------------------
(* The function is run as often as its wrapper allows, and no more than one *)
(* run at a time where it promises that: Once once, Limit as often as the   *)
(* limit (a run that panicked is not counted, but for an operation), TTL    *)
(* again only when the last run that returned is Dur old.                   *)
RunsAsAllowed ==
  /\ exec = "once" => Runs <= 1
  /\ exec = "limit" => Cardinality((1..Runs) \ panicked) <= Limit
  /\ exec = "operation limit" => Runs <= Limit
  /\ exec \in {"once", "limit", "ttl", "lock"} => Cardinality(Running) <= 1
  /\ exec = "ttl" => \A i, j \in 1..Runs : i < j /\ i \notin panicked => ended[i] /= 0 /\ begun[j] - ended[i] >= Dur
  /\ exec = "cancel" /\ counter = 1 => ctx /= "live"

(* The answer of a call is that of the last run to return, which of a TTL   *)
(* is less than Dur ago, and only its own run's panic reaches a caller; a   *)
(* group's callers whose context has not expired get the errors of every    *)
(* copy; and a launched worker's answer is missed only once another caller  *)
(* is back.                                                                 *)
LastGood == LET good == { i \in 1..Runs : ended[i] /= 0 /\ (i \notin panicked \/ kind.recovers) }
            IN IF good = {} THEN 0 ELSE CHOOSE i \in good : \A j \in good : j <= i
AnswerIsOfRun(p) ==
  LET a == answer'[p] IN
  /\ exec \in {"once", "limit", "ttl"} /\ kind.returns => a = Panic \/ a = LastGood'
  /\ exec \in {"limit", "ttl"} /\ kind.returns => a /= 0
  /\ exec = "ttl" /\ a > 0 => now - ended'[a] < Dur
  /\ exec \in {"once", "limit", "ttl", "lock"} /\ a = Panic => at[p] \in panicked' /\ ~kind.recovers
  /\ exec = "group" /\ kind.returns /\ p \notin gone => a = Limit
  /\ exec = "launch" /\ a = 0 => ctx = "canceled"
  /\ exec = "cancel" /\ a = Panic => at[p] \in panicked' \/ (Runs' = 0 /\ counter = 1)
AnswersAreOfRuns == [][\A p \in Callers : pc[p] /= "idle" /\ pc'[p] = "idle" => AnswerIsOfRun(p)]_vars

(* Every call returns, if the functions do: none is left waiting for a      *)
(* lock, a once, a wait group or a channel, whoever panics or gives up.     *)
CallsReturn == <>[](\A p \in Callers : pc[p] = "idle")

(* "returns an operation which blocks until it's context is canceled or the *)
(* underlying operation returns" (fnx/operation.go:97)                      *)
LaunchBlocks ==
  [][\A p \in Callers : exec = "operation launch" /\ pc[p] = "called" /\ pc'[p] = "idle" =>
       Expired(p) \/ tasks = <<"closed">>]_vars

============================================================================
