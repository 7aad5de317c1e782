------------------------------ MODULE Commands ------------------------------
(* exc.Command: Start launches the process, and the worker it returns waits *)
(* for it, for any number of callers with contexts of their own. The        *)
(* command's own fields are passed on to os/exec when it is resolved; of    *)
(* them the two streams are kept, which Exec sets and the setters change.   *)
EXTENDS Integers, FiniteSets

CONSTANT Callers

VARIABLES output, error,      \* where the command's streams go: "nil", "given" or "exec"
          streams,      \* and those of the process that was started
          proc,         \* "none", "running", "exited", "killed" or "failed" to start
          waited,       \* os/exec's Wait was called
          startCtx,     \* the context given to Start
          ctx, pc, told,          \* of each caller of the worker; what it returned
          waiter        \* of each caller: its goroutine in Wait

fields == <<output, error>>
process == <<streams, proc, waited, startCtx>>
callers == <<ctx, pc, told, waiter>>
vars == <<fields, process, callers>>

Init ==
  /\ output = "nil" /\ error = "nil" /\ streams = <<"nil", "nil">>
  /\ proc = "none" /\ waited = FALSE /\ startCtx = "live"
  /\ ctx = [c \in Callers |-> "live"] /\ pc = [c \in Callers |-> "new"]
  /\ told = [c \in Callers |-> "none"] /\ waiter = [c \in Callers |-> "none"]

----------------------------------------------------------------------------
(* The setters; ResetStdError clears the other stream, and Exec leaves its own buffers behind *)
WithStdOutput == output' = "given" /\ UNCHANGED error
WithStdError == error' = "given" /\ UNCHANGED output
ResetStdOutput == output' = "nil" /\ UNCHANGED error
ResetStdError == output' = "nil" /\ UNCHANGED error
ResetIO == output' = "nil" /\ error' = "nil"
Exec == output' = "exec" /\ error' = "exec"
Configure ==
  /\ proc = "none" /\ (WithStdOutput \/ WithStdError \/ ResetStdOutput \/ ResetStdError \/ ResetIO \/ Exec)
  /\ UNCHANGED <<process, callers>>

Resolve == streams' = <<output, error>>
Start ==
  /\ proc = "none" /\ Resolve
  /\ \/ startCtx = "live" /\ proc' = "running"
     \/ proc' = "failed"
  /\ UNCHANGED <<fields, waited, startCtx, callers>>
(* os/exec: the process exits, or is killed for the context it was started with *)
Exit ==
  /\ proc = "running" /\ proc' = "exited"
  /\ UNCHANGED <<fields, streams, waited, startCtx, callers>>
KilledByStart ==
  /\ proc = "running" /\ startCtx = "canceled" /\ proc' = "killed"
  /\ UNCHANGED <<fields, streams, waited, startCtx, callers>>
Cancel ==
  /\ \/ startCtx = "live" /\ startCtx' = "canceled" /\ UNCHANGED ctx
     \/ \E c \in Callers : ctx[c] = "live" /\ ctx' = [ctx EXCEPT ![c] = "canceled"] /\ UNCHANGED startCtx
  /\ UNCHANGED <<fields, streams, proc, waited, pc, told, waiter>>

----------------------------------------------------------------------------
(* The worker: a goroutine waits, once for the process and then for nothing *)
Goto(c, l) == pc' = [pc EXCEPT ![c] = l]
Worker(c) ==
  /\ proc /= "none" /\ pc[c] = "new"
  /\ \/ proc = "failed" /\ Goto(c, "done") /\ told' = [told EXCEPT ![c] = "start"] /\ UNCHANGED waiter
     \/ proc /= "failed" /\ Goto(c, "select") /\ waiter' = [waiter EXCEPT ![c] = "calls"] /\ UNCHANGED told
  /\ UNCHANGED <<fields, process, ctx>>
Wait(c) == waiter' = [waiter EXCEPT ![c] = IF waited THEN "again" ELSE "waits"] /\ waited' = TRUE
WaitBegins(c) ==
  /\ waiter[c] = "calls" /\ Wait(c)
  /\ UNCHANGED <<fields, streams, proc, startCtx, ctx, pc, told>>
WaitEnds(c) ==
  /\ waiter[c] = "waits" /\ proc \in {"exited", "killed"} /\ waiter' = [waiter EXCEPT ![c] = proc]
  /\ UNCHANGED <<fields, process, ctx, pc, told>>
(* it returns what Wait said, unless Signal drops that since the context    *)
(* has ended, or kills the process when its context ends                    *)
Return(c) ==
  /\ pc[c] = "select" /\ Goto(c, "done")
  /\ \/ waiter[c] \in {"again", "exited", "killed"} /\ UNCHANGED proc
        /\ \/ told' = [told EXCEPT ![c] = waiter[c]]
           \/ ctx[c] = "canceled" /\ told' = [told EXCEPT ![c] = "nil"]
     \/ ctx[c] = "canceled" /\ told' = [told EXCEPT ![c] = "canceled"]
        /\ proc' = (IF proc = "running" THEN "killed" ELSE proc)
  /\ UNCHANGED <<fields, streams, waited, startCtx, ctx, waiter>>

Going(c) == Worker(c) \/ WaitBegins(c) \/ WaitEnds(c) \/ Return(c)
Next == Configure \/ Start \/ Exit \/ KilledByStart \/ Cancel \/ \E c \in Callers : Going(c)
Spec == Init /\ [][Next]_vars
FairSpec == Spec /\ WF_vars(KilledByStart) /\ \A c \in Callers : WF_vars(Going(c))

----------------------------------------------------------------------------
(* One caller at most learns how the process ended, and truly; the others   *)
(* are told that somebody waits already, and none waits for ever            *)
OneWaits ==
  /\ Cardinality({ c \in Callers : waiter[c] \in {"waits", "exited", "killed"} }) <= 1
  /\ \A c \in Callers : told[c] \in {"exited", "killed"} => proc = told[c]
  /\ \A c \in Callers : told[c] = "again" => \E d \in Callers \ {c} : waiter[d] \in {"waits", "exited", "killed"}

(* Callers return once the process has ended *)
WorkersReturn == [](proc \in {"exited", "killed", "failed"} => <>(\A c \in Callers : pc[c] = "done"))

(* A caller whose context ends leaves the process running *)
LeavesProcess == [][proc = "running" /\ proc' = "killed" => startCtx = "canceled"]_vars

=============================================================================
