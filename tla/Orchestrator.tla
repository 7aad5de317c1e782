---------------------------- MODULE Orchestrator ----------------------------
(* srv.Orchestrator: a service that takes others from a queue, starts those *)
(* that have not been, and waits for them all. Of the services only what it *)
(* looks at is kept: the flags, and whether the wait group has been waited  *)
(* out (Service models the rest). Users add services, at any time, and may  *)
(* start one themselves, with a context of their own.                       *)
EXTENDS Integers, Sequences, FiniteSets
SX == INSTANCE SequencesExt

CONSTANT Services

VARIABLES input,      \* the queue
          added,      \* the services given to Add, in turn
          late,       \* those that Add took after the end
          orc,        \* "new", "pop", "waitPop", "look", "lookAgain", "wait" or "returned"
          cur,        \* the service it is looking at
          octx, uctx, \* the orchestrator's context, and the users'
          isRunning, isStarted, isFinished, over,    \* of each service
          owner,      \* who started it: "none", "orc" or "user"
          starting,   \* its Start has begun, and not ended
          fails,      \* it ended with an error
          guard,      \* the goroutine the orchestrator has for each
          order,      \* the services the orchestrator started, in turn
          errs        \* what it collected: a service and what was said of it

queue == <<input, added, late>>
flags == <<isRunning, isStarted, isFinished, over, owner, starting, fails>>
vars == <<queue, orc, cur, octx, uctx, flags, guard, order, errs>>
None == 0

Init ==
  /\ input = <<>> /\ added = <<>> /\ late = {} /\ orc = "new" /\ cur = None
  /\ octx = "live" /\ uctx = "live"
  /\ isRunning = [s \in Services |-> FALSE] /\ isStarted = [s \in Services |-> FALSE]
  /\ isFinished = [s \in Services |-> FALSE] /\ over = [s \in Services |-> FALSE]
  /\ owner = [s \in Services |-> "none"] /\ starting = [s \in Services |-> FALSE]
  /\ fails = [s \in Services |-> FALSE] /\ guard = [s \in Services |-> "none"]
  /\ order = <<>> /\ errs = {}

----------------------------------------------------------------------------
(* Add queues the service, whatever has become of the orchestrator *)
Add(s) ==
  /\ ~SX!Contains(added, s) /\ added' = Append(added, s) /\ input' = Append(input, s)
  /\ late' = (IF orc = "returned" THEN late \union {s} ELSE late)
  /\ UNCHANGED <<orc, cur, octx, uctx, flags, guard, order, errs>>
(* SetOrchestrator starts its service unless it runs *)
SetOrchestrator ==
  /\ orc = "new" /\ orc' = "pop"
  /\ UNCHANGED <<queue, cur, octx, uctx, flags, guard, order, errs>>
Cancel ==
  /\ \/ octx = "live" /\ orc /= "returned" /\ octx' = "canceled" /\ UNCHANGED uctx
     \/ uctx = "live" /\ uctx' = "canceled" /\ UNCHANGED octx
  /\ UNCHANGED <<queue, orc, cur, flags, guard, order, errs>>

(* Service.Start: whoever sets isRunning starts it; isStarted follows when  *)
(* its goroutines have been launched, so it may have ended by then          *)
Startable(s) == ~isFinished[s] /\ ~isStarted[s] /\ ~isRunning[s]
Claim(s, by) ==
  /\ isRunning' = [isRunning EXCEPT ![s] = TRUE] /\ owner' = [owner EXCEPT ![s] = by]
  /\ starting' = [starting EXCEPT ![s] = TRUE]
Started(s) ==
  /\ starting[s] /\ starting' = [starting EXCEPT ![s] = FALSE]
  /\ isStarted' = [isStarted EXCEPT ![s] = TRUE] /\ isRunning' = [isRunning EXCEPT ![s] = TRUE]
  /\ UNCHANGED <<queue, orc, cur, octx, uctx, isFinished, over, owner, fails, guard, order, errs>>
UserStart(s) ==
  /\ Startable(s) /\ Claim(s, "user")
  /\ UNCHANGED <<queue, orc, cur, octx, uctx, isStarted, isFinished, over, fails, guard, order, errs>>
RunEnd(s) ==
  /\ owner[s] /= "none" /\ ~isFinished[s]
  /\ isFinished' = [isFinished EXCEPT ![s] = TRUE] /\ isRunning' = [isRunning EXCEPT ![s] = FALSE]
  /\ \E f \in BOOLEAN : fails' = [fails EXCEPT ![s] = f]
  /\ UNCHANGED <<queue, orc, cur, octx, uctx, isStarted, over, owner, starting, guard, order, errs>>
Over(s) ==
  /\ isFinished[s] /\ ~over[s] /\ over' = [over EXCEPT ![s] = TRUE]
  /\ UNCHANGED <<queue, orc, cur, octx, uctx, isRunning, isStarted, isFinished, owner, starting, fails, guard, order, errs>>

(* The orchestrator's Run *)
Go(s, l) == guard' = [guard EXCEPT ![s] = l]
Resolve(s) == IF fails[s] THEN {<<s, "failed">>} ELSE {}
Take == input /= <<>> /\ cur' = Head(input) /\ input' = Tail(input) /\ orc' = "look"
Pop ==
  /\ orc = "pop"
  /\ \/ Take
     \/ input = <<>> /\ orc' = "waitPop" /\ UNCHANGED <<cur, input>>
  /\ UNCHANGED <<added, late, octx, uctx, flags, guard, order, errs>>
(* Queue.WaitPop looks at the context before it looks for an item *)
WaitPop ==
  /\ orc = "waitPop"
  /\ \/ octx = "live" /\ Take
     \/ octx = "canceled" /\ orc' = "wait" /\ UNCHANGED <<cur, input>>
  /\ UNCHANGED <<added, late, octx, uctx, flags, guard, order, errs>>
LookRunning ==
  /\ orc = "look"
  /\ \/ isRunning[cur] /\ Go(cur, "waitFor") /\ orc' = "pop" /\ cur' = None
     \/ ~isRunning[cur] /\ orc' = "lookAgain" /\ UNCHANGED <<guard, cur>>
  /\ UNCHANGED <<queue, octx, uctx, flags, order, errs>>
LookFinished ==
  /\ orc = "lookAgain" /\ orc' = "pop" /\ cur' = None
  /\ \/ isFinished[cur] /\ errs' = errs \union Resolve(cur) /\ Go(cur, "done")
     \/ ~isFinished[cur] /\ Go(cur, "start") /\ UNCHANGED errs
  /\ UNCHANGED <<queue, octx, uctx, flags, order>>
Service ==
  /\ orc = "wait" /\ (\A s \in Services : guard[s] \in {"none", "done"}) /\ orc' = "returned"
  /\ UNCHANGED <<queue, cur, octx, uctx, flags, guard, order, errs>>

(* Its goroutine for a service that was not running: Start, and Wait *)
Start(s) ==
  /\ guard[s] = "start"
  /\ \/ Startable(s) /\ Claim(s, "orc") /\ order' = Append(order, s) /\ Go(s, "starting") /\ UNCHANGED errs
     \/ ~Startable(s) /\ errs' = errs \union {<<s, "start">>} /\ Go(s, "waitAll") /\ UNCHANGED <<isRunning, owner, starting, order>>
  /\ UNCHANGED <<queue, orc, cur, octx, uctx, isStarted, isFinished, over, fails>>
StartEnd(s) ==
  /\ guard[s] = "starting" /\ ~starting[s] /\ Go(s, "waitAll")
  /\ UNCHANGED <<queue, orc, cur, octx, uctx, flags, order, errs>>
(* Service.waitFor: with the orchestrator's context for one that was        *)
(* running, and without for one it meant to start                           *)
waitFor(s) ==
  /\ guard[s] \in {"waitFor", "waitAll"}
  /\ \/ isFinished[s] /\ errs' = errs \union Resolve(s) /\ Go(s, "done")
     \/ ~isFinished[s] /\ ~isStarted[s] /\ errs' = errs \union {<<s, "notStarted">>} /\ Go(s, "done")
     \/ ~isFinished[s] /\ isStarted[s] /\ UNCHANGED errs /\ Go(s, IF guard[s] = "waitFor" THEN "blockedFor" ELSE "blockedAll")
  /\ UNCHANGED <<queue, orc, cur, octx, uctx, flags, order>>
Wait(s) ==
  /\ \/ guard[s] \in {"blockedFor", "blockedAll"} /\ over[s]
     \/ guard[s] = "blockedFor" /\ octx = "canceled"
  /\ errs' = errs \union Resolve(s) /\ Go(s, "done")
  /\ UNCHANGED <<queue, orc, cur, octx, uctx, flags, order>>

Guard(s) == Start(s) \/ StartEnd(s) \/ waitFor(s) \/ Wait(s)
Orchestrate == Pop \/ WaitPop \/ LookRunning \/ LookFinished \/ Service
Ending(s) == (IF owner[s] = "orc" THEN octx = "canceled" ELSE uctx = "canceled") /\ RunEnd(s)
Next ==
  \/ \E s \in Services : Add(s) \/ UserStart(s) \/ Started(s) \/ RunEnd(s) \/ Over(s) \/ Guard(s)
  \/ Orchestrate \/ SetOrchestrator \/ Cancel
Spec == Init /\ [][Next]_vars
(* Goroutines run, and services end once their context does *)
FairSpec ==
  /\ Spec /\ WF_vars(Orchestrate)
  /\ \A s \in Services : WF_vars(Guard(s)) /\ WF_vars(Started(s)) /\ WF_vars(Over(s)) /\ WF_vars(Ending(s))

----------------------------------------------------------------------------
(* When the orchestrator returns, each service it started has ended, and    *)
(* its error is among the orchestrator's own; of one that no user started   *)
(* it says nothing else; and each service that was added has been waited    *)
(* for or is still in the queue                                             *)
OrchestratorReports ==
  orc = "returned" =>
    /\ \A s \in Services : owner[s] = "orc" => isFinished[s] /\ (fails[s] => <<s, "failed">> \in errs)
    /\ \A e \in errs : owner[e[1]] /= "user" => (e[2] = "failed" /\ fails[e[1]])
    /\ \A s \in Services : SX!Contains(added, s) => (guard[s] = "done" \/ SX!Contains(input, s))

(* Once its context and the users' are canceled, the orchestrator returns *)
OrchestratorReturns == [](octx = "canceled" /\ uctx = "canceled" /\ orc /= "new" => <>(orc = "returned"))

(* Services are started in the order they were added *)
StartsInOrder == SX!IsPrefix(SelectSeq(order, LAMBDA s : TRUE), SelectSeq(added, LAMBDA s : owner[s] /= "user"))

(* Add fails once the orchestrator has returned *)
LateAddsFail == late = {}

============================================================================
