------------------------------ MODULE Service ------------------------------
(***************************************************************************)
(* srv.Service (src/srv/service.go): three atomic flags, a sync.Once, a    *)
(* WaitGroup, and the three goroutines Start launches: one runs Run and    *)
(* then Cleanup, one waits to run Shutdown, one calls the ErrorHandler.    *)
(*                                                                         *)
(* Nothing but the flags orders Start, Close and Wait, so a step is one    *)
(* atomic load, store or swap, one assignment of a shared field, or one    *)
(* operation on a channel or on the WaitGroup.  A hook that returns an     *)
(* error and one that panics are the same here: each deferred ec.Recover   *)
(* stands where the error would have been pushed.  Every hook is set; one  *)
(* that is not behaves as one that succeeds.  All calls of Start and of    *)
(* Worker are given one context.                                           *)
(***************************************************************************)
EXTENDS Integers, FiniteSets

CONSTANTS Callers,   \* the goroutines that use the service
          MaxCalls,  \* bound: the calls made
          MayFail,   \* bound: the hooks that may fail
          HasSignal  \* whether Service.Signal is set

ASSUME ServiceAssumption == /\ MaxCalls \in Nat
                             /\ MayFail \subseteq {"run", "shutdown", "cleanup", "handler"}
                             /\ HasSignal \in BOOLEAN

Calls == {"Start", "Close", "Wait", "Worker"}
Hooks == {"run", "shutdown", "cleanup"}  \* what ErrorHandler and Wait report on

VARIABLES isRunning, isFinished, isStarted,  \* the atomic flags
          doStart,    \* the sync.Once: "new", "busy" or "done"
          cancel,     \* whether s.cancel has been assigned
          parentDone, \* the context given to Start has ended
          ctxDone,    \* the context given to Run has ended
          wg,         \* the count of s.wg
          main, down, handler,  \* where the three goroutines are
          failed,     \* history: the hooks that have failed
          ec,         \* the failures collected in s.ec
          told,       \* history: what ErrorHandler was called with
          call, pc,   \* the call each caller is in, and where in it
          made,       \* calls made so far
          out         \* history: what the last Wait or Worker reported

flags      == <<isRunning, isFinished, isStarted>>
goroutines == <<main, down, handler>>
errors     == <<failed, ec, told>>
callers    == <<call, pc, made, out>>
vars == <<flags, doStart, cancel, parentDone, ctxDone, wg, goroutines, errors, callers>>

MainAt    == {"none", "running", "returned", "cleanup", "cleaned", "finished", "stopped", "done"}
DownAt    == {"none", "waiting", "shutdown", "signalled", "done"}
HandlerAt == {"none", "waiting", "called", "done"}
CallerAt  == {"idle", "open", "swap", "cas", "won", "handler", "cancel", "down", "main", "started",
              "running", "close", "cancelling", "wait", "asked", "waiting"}
NotStarted == "ErrServiceNotStarted"

Init ==
  /\ isRunning = FALSE /\ isFinished = FALSE /\ isStarted = FALSE
  /\ doStart = "new" /\ cancel = FALSE /\ parentDone = FALSE /\ ctxDone = FALSE /\ wg = 0
  /\ main = "none" /\ down = "none" /\ handler = "none"
  /\ failed = {} /\ ec = {} /\ told = {}
  /\ call = [p \in Callers |-> "none"] /\ pc = [p \in Callers |-> "idle"]
  /\ made = 0 /\ out = [err |-> "none", errors |-> {}]

----------------------------------------------------------------------------
\* Start.

Goes(p, s) == pc' = [pc EXCEPT ![p] = s] /\ UNCHANGED <<call, made, out>>

Idles(p)   == pc' = [pc EXCEPT ![p] = "idle"] /\ call' = [call EXCEPT ![p] = "none"]
Returns(p) == Idles(p) /\ UNCHANGED <<made, out>>

\* Start returns; Worker goes on to wait, whatever it returned.
StartReturns(p) == IF call[p] = "Worker" THEN Goes(p, "wait") ELSE Returns(p)

Begin(p) ==
  /\ pc[p] = "idle" /\ made < MaxCalls /\ made' = made + 1
  /\ \E c \in Calls :
       /\ call' = [call EXCEPT ![p] = c]
       /\ pc' = [pc EXCEPT ![p] = CASE c = "Close" -> "close" [] c = "Wait" -> "wait"
                                    [] OTHER -> "open"]
  /\ UNCHANGED <<flags, doStart, cancel, parentDone, ctxDone, wg, goroutines, errors, out>>

\* isFinished.Load, then isStarted.Load, then the swap of isRunning.
StartOpen(p) ==
  /\ pc[p] = "open"
  /\ \/ isFinished /\ StartReturns(p)
     \/ ~isFinished /\ Goes(p, "swap")
  /\ UNCHANGED <<flags, doStart, cancel, parentDone, ctxDone, wg, goroutines, errors>>

StartSwap(p) ==
  /\ pc[p] = "swap"
  /\ \/ isStarted /\ StartReturns(p)
     \/ ~isStarted /\ Goes(p, "cas")
  /\ UNCHANGED <<flags, doStart, cancel, parentDone, ctxDone, wg, goroutines, errors>>

StartCAS(p) ==
  /\ pc[p] = "cas"
  /\ \/ isRunning /\ StartReturns(p) /\ UNCHANGED isRunning
     \/ ~isRunning /\ isRunning' = TRUE /\ Goes(p, "won")
  /\ UNCHANGED <<isFinished, isStarted, doStart, cancel, parentDone, ctxDone, wg, goroutines,
                 errors>>

\* Mutant: the sync.Once is left out, the swap being thought enough.
StartOnceAlways(p) ==
  /\ pc[p] = "won"
  /\ doStart' = "busy" /\ Goes(p, "handler")
  /\ UNCHANGED <<flags, cancel, parentDone, ctxDone, wg, goroutines, errors>>

\* doStart.Do: the first caller runs the body, others wait for it to have ended.
StartOnce(p) ==
  /\ pc[p] = "won"
  /\ \/ doStart = "new" /\ doStart' = "busy" /\ Goes(p, "handler")
     \/ doStart = "done" /\ StartReturns(p) /\ UNCHANGED doStart
  /\ UNCHANGED <<flags, cancel, parentDone, ctxDone, wg, goroutines, errors>>

\* Mutant: the context given to Run does not see that Start's has ended.
StartDetached(p) ==
  \/ /\ pc[p] \in {"handler", "down", "main"}
     /\ wg' = wg + 1 /\ UNCHANGED <<cancel, ctxDone>>
     /\ \/ pc[p] = "handler" /\ Goes(p, "cancel") /\ handler' = "waiting" /\ UNCHANGED <<main, down>>
        \/ pc[p] = "down" /\ Goes(p, "main") /\ down' = "waiting" /\ UNCHANGED <<main, handler>>
        \/ pc[p] = "main" /\ Goes(p, "started") /\ main' = "running" /\ UNCHANGED <<down, handler>>
     /\ UNCHANGED <<flags, doStart, parentDone, errors>>
  \/ /\ pc[p] = "cancel" /\ Goes(p, "down")
     /\ cancel' = TRUE /\ UNCHANGED <<flags, doStart, parentDone, ctxDone, wg, goroutines, errors>>

\* The body launches the handler, assigns s.cancel, and launches the other two.
StartBody(p) ==
  \/ /\ pc[p] = "handler" /\ Goes(p, "cancel")
     /\ wg' = wg + 1 /\ handler' = "waiting"
     /\ UNCHANGED <<flags, doStart, cancel, parentDone, ctxDone, main, down, errors>>
  \/ /\ pc[p] = "cancel" /\ Goes(p, "down")
     /\ cancel' = TRUE /\ ctxDone' = parentDone
     /\ UNCHANGED <<flags, doStart, parentDone, wg, goroutines, errors>>
  \/ /\ pc[p] = "down" /\ Goes(p, "main")
     /\ wg' = wg + 1 /\ down' = "waiting"
     /\ UNCHANGED <<flags, doStart, cancel, parentDone, ctxDone, main, handler, errors>>
  \/ /\ pc[p] = "main" /\ Goes(p, "started")
     /\ wg' = wg + 1 /\ main' = "running"
     /\ UNCHANGED <<flags, doStart, cancel, parentDone, ctxDone, down, handler, errors>>

\* The deferred stores: isStarted, then isRunning once more.
StartEnds(p) ==
  \/ /\ pc[p] = "started" /\ Goes(p, "running") /\ isStarted' = TRUE
     /\ UNCHANGED <<isRunning, isFinished, doStart, cancel, parentDone, ctxDone, wg, goroutines,
                    errors>>
  \/ /\ pc[p] = "running" /\ StartReturns(p) /\ isRunning' = TRUE /\ doStart' = "done"
     /\ UNCHANGED <<isFinished, isStarted, cancel, parentDone, ctxDone, wg, goroutines, errors>>

----------------------------------------------------------------------------
\* Close, and the end of the caller's context.

\* Mutant: Close asks whether Start has returned, in the wrong sense.
CloseUnstarted(p) ==
  \/ /\ pc[p] = "close" /\ (IF isStarted THEN Returns(p) ELSE Goes(p, "cancelling"))
     /\ UNCHANGED <<flags, doStart, cancel, parentDone, ctxDone, wg, goroutines, errors>>
  \/ /\ pc[p] = "cancelling" /\ Returns(p)
     /\ ctxDone' = (ctxDone \/ cancel)
     /\ UNCHANGED <<flags, doStart, cancel, parentDone, wg, goroutines, errors>>

\* isRunning.Load, and then s.cancel, if it has been assigned by now.  Until Start
\* stores isRunning again nothing orders the assignment before this read, a data
\* race that can miss it.
Close(p) ==
  \/ /\ pc[p] = "close" /\ (IF isRunning THEN Goes(p, "cancelling") ELSE Returns(p))
     /\ UNCHANGED <<flags, doStart, cancel, parentDone, ctxDone, wg, goroutines, errors>>
  \/ /\ pc[p] = "cancelling" /\ Returns(p)
     /\ \/ ctxDone' = (ctxDone \/ cancel)
        \/ doStart # "done" /\ UNCHANGED ctxDone
     /\ UNCHANGED <<flags, doStart, cancel, parentDone, wg, goroutines, errors>>

ParentEnds == /\ ~parentDone /\ parentDone' = TRUE /\ ctxDone' = (ctxDone \/ cancel)
              /\ UNCHANGED <<flags, doStart, cancel, wg, goroutines, errors, callers>>

----------------------------------------------------------------------------
\* Wait and Worker.

Answer(p, e, errs) == Idles(p) /\ out' = [err |-> e, errors |-> errs] /\ UNCHANGED made

\* waitFor: isFinished.Load, then isStarted.Load, then wg.Wait, which for Worker
\* may end with the context.  Worker reports the end of its context first.
waitFor(p) ==
  /\ \/ /\ pc[p] = "wait" /\ ~isFinished /\ Goes(p, "asked")
     \/ /\ pc[p] = "wait" /\ isFinished
        /\ IF call[p] = "Worker" /\ parentDone THEN Answer(p, "ctx", {}) ELSE Answer(p, "nil", ec)
     \/ /\ pc[p] = "asked" /\ isStarted /\ Goes(p, "waiting")
     \/ /\ pc[p] = "asked" /\ ~isStarted
        /\ IF call[p] = "Worker" /\ parentDone THEN Answer(p, "ctx", {})
                                               ELSE Answer(p, NotStarted, {})
     \/ /\ pc[p] = "waiting" /\ wg = 0
        /\ IF call[p] = "Worker" /\ parentDone THEN Answer(p, "ctx", {}) ELSE Answer(p, "nil", ec)
     \/ /\ pc[p] = "waiting" /\ wg # 0 /\ call[p] = "Worker" /\ parentDone
        /\ Answer(p, "ctx", {})
  /\ UNCHANGED <<flags, doStart, cancel, parentDone, ctxDone, wg, goroutines, errors>>

----------------------------------------------------------------------------
\* The goroutines.

\* A hook ends, with or without a failure for the collector.
Hook(h) == \/ h \in MayFail /\ failed' = failed \cup {h} /\ ec' = ec \cup {h}
           \/ UNCHANGED <<failed, ec>>

\* Run returns, on its own or because its context ended, and s.cancel() is called.
Run == /\ main = "running" /\ main' = "returned"
       /\ Hook("run") /\ ctxDone' = TRUE
       /\ UNCHANGED <<flags, doStart, cancel, parentDone, wg, down, handler, told, callers>>

\* The shutdown goroutine's select.
DownSelect == /\ down = "waiting"
              /\ ctxDone \/ parentDone \/ HasSignal
              /\ down' = "shutdown"
              /\ UNCHANGED <<flags, doStart, cancel, parentDone, ctxDone, wg, main, handler, errors,
                             callers>>

\* Shutdown returns and shutdownSignal is closed; then the WaitGroup is told.
\* A Signal that fails is counted with Shutdown.
Shutdown ==
  /\ \/ /\ down = "shutdown" /\ down' = "signalled"
        /\ Hook("shutdown") /\ UNCHANGED wg
     \/ /\ down = "signalled" /\ down' = "done"
        /\ wg' = wg - 1 /\ UNCHANGED <<failed, ec>>
  /\ UNCHANGED <<flags, doStart, cancel, parentDone, ctxDone, main, handler, told, callers>>

\* <-shutdownSignal, after which ehSignal is closed and Cleanup starts.
CleanupStarts ==
  /\ main = "returned" /\ down \in {"signalled", "done"} /\ main' = "cleanup"
  /\ UNCHANGED <<flags, doStart, cancel, parentDone, ctxDone, wg, down, handler, errors, callers>>

Cleanup == /\ main = "cleanup" /\ main' = "cleaned"
           /\ Hook("cleanup")
           /\ UNCHANGED <<flags, doStart, cancel, parentDone, ctxDone, wg, down, handler, told,
                          callers>>

\* Mutant: isFinished is stored before Cleanup has run.
FinishFirst ==
  /\ \/ /\ main = "cleanup" /\ ~isFinished /\ isFinished' = TRUE
        /\ UNCHANGED <<main, isRunning, wg>>
     \/ /\ main = "cleaned" /\ main' = "stopped" /\ isRunning' = FALSE
        /\ UNCHANGED <<isFinished, wg>>
     \/ /\ main = "stopped" /\ main' = "done" /\ wg' = wg - 1
        /\ UNCHANGED <<isRunning, isFinished>>
  /\ UNCHANGED <<isStarted, doStart, cancel, parentDone, ctxDone, down, handler, errors, callers>>

\* The remaining deferred calls; "stopped" is after close(mainSignal) too.
Finish ==
  /\ \/ /\ main = "cleaned" /\ main' = "finished" /\ isFinished' = TRUE
        /\ UNCHANGED <<isRunning, wg>>
     \/ /\ main = "finished" /\ main' = "stopped" /\ isRunning' = FALSE
        /\ UNCHANGED <<isFinished, wg>>
     \/ /\ main = "stopped" /\ main' = "done" /\ wg' = wg - 1
        /\ UNCHANGED <<isRunning, isFinished>>
  /\ UNCHANGED <<isStarted, doStart, cancel, parentDone, ctxDone, down, handler, errors, callers>>

\* Mutant: the handler waits for ehSignal only.
HandleEarly ==
  /\ \/ /\ handler = "waiting" /\ main \notin {"none", "running", "returned"}
        /\ told' = ec /\ handler' = (IF ec = {} THEN "done" ELSE "called")
        /\ wg' = (IF ec = {} THEN wg - 1 ELSE wg) /\ UNCHANGED <<failed, ec>>
     \/ /\ handler = "called" /\ handler' = "done" /\ wg' = wg - 1
        /\ Hook("handler") /\ UNCHANGED told
  /\ UNCHANGED <<flags, doStart, cancel, parentDone, ctxDone, main, down, callers>>

\* mainSignal and ehSignal are closed: the handler is called if there are errors.
Handle ==
  /\ \/ /\ handler = "waiting" /\ main \in {"stopped", "done"}
        /\ told' = ec /\ handler' = (IF ec = {} THEN "done" ELSE "called")
        /\ wg' = (IF ec = {} THEN wg - 1 ELSE wg) /\ UNCHANGED <<failed, ec>>
     \/ /\ handler = "called" /\ handler' = "done" /\ wg' = wg - 1
        /\ Hook("handler") /\ UNCHANGED told
  /\ UNCHANGED <<flags, doStart, cancel, parentDone, ctxDone, main, down, callers>>

StartStep(p) == StartOpen(p) \/ StartSwap(p) \/ StartCAS(p) \/ StartOnce(p) \/ StartBody(p)
                  \/ StartEnds(p)

Next == \/ \E p \in Callers : Begin(p) \/ StartStep(p) \/ Close(p) \/ waitFor(p)
        \/ ParentEnds \/ Run \/ DownSelect \/ Shutdown
        \/ CleanupStarts \/ Cleanup \/ Finish \/ Handle

Spec == Init /\ [][Next]_vars

\* Every goroutine goes on.  Run returns once its context has ended, as its
\* comment requires, and the other hooks return; Run need not return by itself,
\* and no wait need end early because its context has ended.
Fairness ==
  /\ \A p \in Callers : /\ WF_vars(StartStep(p)) /\ WF_vars(Close(p))
                        /\ WF_vars((pc[p] = "waiting" => wg = 0) /\ waitFor(p))
  /\ WF_vars(ctxDone /\ Run)
  /\ WF_vars(ctxDone /\ DownSelect) /\ WF_vars(Shutdown)
  /\ WF_vars(CleanupStarts) /\ WF_vars(Cleanup) /\ WF_vars(Finish) /\ WF_vars(Handle)

FairSpec == Spec /\ Fairness

----------------------------------------------------------------------------
\* Properties.

\* Types; wg counts the goroutines launched that have not told it they are done.
Live(g) == IF g \in {"none", "done"} THEN 0 ELSE 1
TypeOK ==
  /\ isRunning \in BOOLEAN /\ isFinished \in BOOLEAN /\ isStarted \in BOOLEAN
  /\ doStart \in {"new", "busy", "done"}
  /\ cancel \in BOOLEAN /\ parentDone \in BOOLEAN /\ ctxDone \in BOOLEAN
  /\ main \in MainAt /\ down \in DownAt /\ handler \in HandlerAt
  /\ wg = Live(main) + Live(down) + Live(handler)
  /\ failed \subseteq MayFail /\ ec \subseteq failed /\ told \subseteq ec
  /\ call \in [Callers -> Calls \cup {"none"}] /\ pc \in [Callers -> CallerAt]
  /\ made \in 0..MaxCalls
  /\ out.err \in {"none", "nil", "ctx", NotStarted} /\ out.errors \subseteq failed

\* A Wait (or Worker) that reports on the service, rather than that it was never
\* started or that its context ended, holds every failure of Run, Shutdown and
\* Cleanup: none of the three can still fail afterwards. (The types come with it.)
WaitSeesAll == TypeOK /\ (out.err = "nil" => failed \cap Hooks \subseteq out.errors)

\* ErrorHandler is called with every failure of the three hooks, "identical to
\* the output of Wait()".
HandlerSeesAll == handler \in {"called", "done"} => failed \cap Hooks = told

\* "The service can only be run once": whatever Starts and Workers race with the
\* end of the service, its goroutines are launched once.
RunOnce == [][/\ main' = "running" => main \in {"none", "running"}
              /\ down' = "waiting" => down \in {"none", "waiting"}]_vars

\* Once the context of a launched service has ended, by whatever way, its hooks
\* run and every goroutine ends.
CancelStops == (parentDone /\ main # "none") ~> (wg = 0)

\* A Close called once Start has returned ends the service.
CloseStops == \A p \in Callers : (pc[p] = "close" /\ doStart = "done") ~> (wg = 0)

\* What the comment on Running says: once the service has ended and no call is
\* under way, it is not running.
RunningClears == (main = "done" /\ \A p \in Callers : pc[p] = "idle") => ~isRunning
=============================================================================
