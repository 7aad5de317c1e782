---------------------------- MODULE ServiceKinds ----------------------------
(* The services srv makes: Group, Wait, Cleanup, WorkerPool (and Handler),  *)
(* HTTP and Broker ("server"), Cmd and Daemon. Each runs in the frame that  *)
(* Service.Start makes: Run, Shutdown once the context is canceled, and     *)
(* Cleanup after both. One of them is chosen by the initial state.          *)
EXTENDS Integers, Sequences, FiniteSets

CONSTANTS Items,        \* services of a group, operations, or jobs: 1 .. n
          Workers, Interval, MaxNow, MaxStarts

VARIABLES kind,
          ctx,          \* the context of Run
          asked,        \* the service was closed, or its own context canceled
          run,          \* "start", "spawned", "pause", "returned", "joining", "cleanup", "drain", "finished"
          stop,         \* the calls of Shutdown: the service's, and Cmd's goroutine's
          given,        \* how many items the sequence gave
          item,         \* the goroutine, or the job, of each
          life,         \* of a service of the group, or an operation
          failed,       \* the items that ended with an error or a panic
          told,         \* what the collector holds
          reported,     \* what it held when Cleanup read it
          pipe,         \* the queue: "open", "draining" or "closed"
          drainer, expired,       \* its Shutdown, and its time is up
          proc, signals,          \* the process or server, and what it was sent
          now, starts   \* of a daemon's runs: when, and the context then

frame == <<kind, ctx, asked, run, stop>>
work == <<given, item, life, failed, told, reported>>
queue == <<pipe, drainer, expired>>
process == <<proc, signals>>
clock == <<now, starts>>
vars == <<frame, work, queue, process, clock>>

Kinds == {"group", "wait", "cleanup", "pool", "server", "cmd", "daemon"}
Group == kind = "group"
Wait == kind = "wait"
Cleanup == kind = "cleanup"
WorkerPool == kind = "pool"
Server == kind = "server"
Cmd == kind = "cmd"
Daemon == kind = "daemon"

Init ==
  /\ kind \in Kinds /\ ctx = "live" /\ asked = FALSE /\ run = "start"
  /\ stop = [x \in {"service", "watch"} |-> "wait"]
  /\ given = 0 /\ item = [i \in Items |-> "new"] /\ life = [i \in Items |-> "idle"]
  /\ failed = {} /\ told = {} /\ reported = {}
  /\ pipe = "open" /\ drainer = "none" /\ expired = FALSE
  /\ proc = (IF Server THEN "running" ELSE "none") /\ signals = {} /\ now = 0 /\ starts = <<>>

----------------------------------------------------------------------------
(* The frame, of Service.Start *)
Close ==
  /\ ctx = "live" /\ ctx' = "canceled" /\ asked' = TRUE
  /\ UNCHANGED <<kind, run, stop, work, queue, process, clock>>
Return == run' = "returned"
Canceled ==
  /\ run = "returned" /\ run' = "joining" /\ ctx' = "canceled"
  /\ UNCHANGED <<kind, asked, stop, work, queue, process, clock>>
Halt(x, l) == stop' = [stop EXCEPT ![x] = l]
ShutdownBegins ==
  /\ ctx = "canceled" /\ stop["service"] = "wait" /\ Halt("service", "in")
  /\ UNCHANGED <<kind, ctx, asked, run, work, queue, process, clock>>
CleanupBegins ==
  /\ run = "joining" /\ stop["service"] = "done" /\ run' = "cleanup"
  /\ UNCHANGED <<kind, ctx, asked, stop, work, queue, process, clock>>
(* Shutdown of a kind that has none or only fires a signal or closes a channel *)
ShutdownSignals ==
  /\ stop["service"] = "in" /\ ~WorkerPool /\ ~Cmd /\ Halt("service", "done")
  /\ proc' = (IF Server THEN "exited" ELSE proc)
  /\ UNCHANGED <<kind, ctx, asked, run, work, queue, signals, clock>>
(* Cleanup of a kind that has none, or waits for a goroutine that has ended *)
NoCleanup ==
  /\ run = "cleanup" /\ (Server \/ Cmd \/ Daemon \/ WorkerPool) /\ run' = "finished" /\ reported' = told
  /\ UNCHANGED <<kind, ctx, asked, stop, given, item, life, failed, told, queue, process, clock>>

----------------------------------------------------------------------------
(* Group starts each service in a goroutine, with Run's context, and queues *)
(* its Wait; Wait runs each operation in one. Run of a Group waits for the  *)
(* goroutines, or its context, and closes the queue.                        *)
In(set) == \E i \in Items : item[i] \in set
ForEach ==
  /\ (Group \/ Wait) /\ run = "start"
  /\ \/ given < Cardinality(Items) /\ given' = given + 1 /\ item' = [item EXCEPT ![given + 1] = "going"] /\ UNCHANGED run
     \/ (Wait \/ given = Cardinality(Items)) /\ run' = "spawned" /\ UNCHANGED <<given, item>>
  /\ UNCHANGED <<kind, ctx, asked, stop, life, failed, told, reported, queue, process, clock>>
Step(i, l) == item' = [item EXCEPT ![i] = l]
Begin(i) ==
  /\ (Group \/ Wait) /\ item[i] = "going" /\ Step(i, "begun") /\ life' = [life EXCEPT ![i] = "running"]
  /\ UNCHANGED <<frame, given, failed, told, reported, queue, process, clock>>
Ends(i) ==
  /\ life[i] = "running" /\ life' = [life EXCEPT ![i] = "ended"]
  /\ \E f \in BOOLEAN : failed' = (IF f THEN failed \union {i} ELSE failed)
  /\ UNCHANGED <<frame, given, item, told, reported, queue, process, clock>>
(* The goroutine's deferred calls: the group's push, which panics once the  *)
(* queue is closed; wg.Done; and Recover, that collects a panic             *)
Deferred(i) ==
  /\ item[i] = "begun"
  /\ \/ Group /\ Step(i, IF pipe = "closed" THEN "recovering" ELSE "waiting")
     \/ Wait /\ life[i] = "ended" /\ Step(i, IF i \in failed THEN "recovering" ELSE "done")
  /\ UNCHANGED <<frame, given, life, failed, told, reported, queue, process, clock>>
Recover(i) ==
  /\ item[i] = "recovering" /\ Step(i, IF Group THEN "lost" ELSE "done") /\ told' = told \union {i}
  /\ UNCHANGED <<frame, given, life, failed, reported, queue, process, clock>>
SpawnsDone == (Group /\ ctx = "canceled") \/ ~In({"going", "begun"})
RunSpawned ==
  /\ (Group \/ Wait) /\ run = "spawned" /\ SpawnsDone /\ Return /\ pipe' = (IF Group THEN "closed" ELSE pipe)
  /\ UNCHANGED <<kind, ctx, asked, stop, work, drainer, expired, process, clock>>
(* Cleanup of a Group waits for each service in the queue *)
Uncollected(i) == {}                                   \* mutant: what a wait returns is dropped
Collected(i) == IF i \in failed THEN {i} ELSE {}
GroupWait(i) ==
  /\ Group /\ run = "cleanup" /\ item[i] = "waiting" /\ life[i] = "ended"
  /\ Step(i, "done") /\ told' = told \union Collected(i)
  /\ UNCHANGED <<frame, given, life, failed, reported, queue, process, clock>>
CleanupJoins ==
  /\ (Group \/ Wait) /\ run = "cleanup" /\ ~In({"going", "begun", "waiting"})
  /\ run' = "finished" /\ reported' = told
  /\ UNCHANGED <<kind, ctx, asked, stop, given, item, life, failed, told, queue, process, clock>>

----------------------------------------------------------------------------
(* The queue of a Cleanup or a WorkerPool: items are added until it drains  *)
AddCleanup(i) ==
  /\ (Cleanup \/ WorkerPool) /\ item[i] = "new" /\ Step(i, IF pipe = "open" THEN "queued" ELSE "refused")
  /\ UNCHANGED <<frame, given, life, failed, told, reported, queue, process, clock>>
Working == (WorkerPool /\ run = "start") \/ (Cleanup /\ run = "cleanup")
PoolContext == IF WorkerPool THEN ctx ELSE IF expired THEN "canceled" ELSE "live"
Pop(i) ==
  /\ Working /\ PoolContext = "live" /\ pipe /= "closed" /\ item[i] = "queued"
  /\ Cardinality({ j \in Items : item[j] = "begun" }) < Workers /\ Step(i, "begun")
  /\ UNCHANGED <<frame, given, life, failed, told, reported, queue, process, clock>>
Job(i) ==
  /\ Working /\ item[i] = "begun" /\ Step(i, "done")
  /\ \/ failed' = failed \union {i} /\ told' = told \union {i}
     \/ UNCHANGED <<failed, told>>
  /\ UNCHANGED <<frame, given, life, reported, queue, process, clock>>
PoolEnds ==
  /\ Working /\ ~In({"begun"}) /\ (PoolContext = "canceled" \/ pipe = "closed")
  /\ run' = (IF WorkerPool THEN "returned" ELSE "drain")
  /\ UNCHANGED <<kind, ctx, asked, stop, work, queue, process, clock>>
(* Queue.Shutdown: called by Cleanup's goroutine, or a pool's Shutdown *)
DrainOver == expired \/ run = "drain"
DrainBegins ==
  /\ drainer = "none"
  /\ \/ WorkerPool /\ stop["service"] = "in"
     \/ Cleanup /\ run \in {"cleanup", "drain"}
  /\ IF pipe = "open" /\ ~DrainOver THEN pipe' = "draining" /\ drainer' = "draining" ELSE drainer' = "done" /\ UNCHANGED pipe
  /\ UNCHANGED <<frame, work, expired, process, clock>>
DrainEnds ==
  /\ drainer = "draining" /\ drainer' = "done"
  /\ \/ ~In({"queued"}) /\ pipe' = "closed"
     \/ DrainOver /\ pipe' = "open"
  /\ UNCHANGED <<frame, work, expired, process, clock>>
Timeout ==
  /\ ~expired /\ expired' = TRUE /\ (IF WorkerPool THEN drainer = "draining" ELSE Cleanup /\ run = "cleanup")
  /\ UNCHANGED <<frame, work, pipe, drainer, process, clock>>
PoolShutdown ==
  /\ WorkerPool /\ stop["service"] = "in" /\ drainer = "done" /\ Halt("service", "done")
  /\ UNCHANGED <<kind, ctx, asked, run, work, queue, process, clock>>
(* Run of a Cleanup waits for the signal, and its Cleanup closes the queue  *)
RunSignal ==
  /\ Cleanup /\ run = "start" /\ ctx = "canceled" /\ Return
  /\ UNCHANGED <<kind, ctx, asked, stop, work, queue, process, clock>>
CleanupCloses ==
  /\ run = "drain" /\ drainer = "done" /\ pipe' = "closed" /\ run' = "finished" /\ reported' = told
  /\ UNCHANGED <<kind, ctx, asked, stop, given, item, life, failed, told, drainer, expired, process, clock>>

----------------------------------------------------------------------------
(* A server runs until it fails or is shut down; a command until it exits   *)
RunServer ==
  /\ Server /\ run = "start" /\ proc = "exited" /\ Return
  /\ UNCHANGED <<kind, ctx, asked, stop, work, queue, process, clock>>
RunCmd ==
  /\ Cmd /\ run = "start"
  /\ \/ proc' = "running" /\ run' = "spawned" /\ UNCHANGED told
     \/ proc' = "failed" /\ run' = "failing" /\ told' = told \union {"start"}
  /\ UNCHANGED <<kind, ctx, asked, stop, given, item, life, failed, reported, queue, signals, clock>>
CmdWait ==
  /\ Cmd /\ (run = "failing" \/ (run = "spawned" /\ proc = "exited")) /\ Return
  /\ UNCHANGED <<kind, ctx, asked, stop, work, queue, process, clock>>
Exit ==
  /\ proc = "running" /\ proc' = "exited"
  /\ UNCHANGED <<frame, work, queue, signals, clock>>
IsDone == run \in {"returned", "joining", "cleanup", "finished"}
(* Cmd's Shutdown waits until the command has been started, asks it to end, *)
(* and kills it when the time is up; one that could not be started has no   *)
(* process to signal, and the panic is collected. Run's own goroutine calls *)
(* it too.                                                                  *)
WatchBegins ==
  /\ Cmd /\ ctx = "canceled" /\ proc \in {"running", "exited"} /\ stop["watch"] = "wait" /\ Halt("watch", "in")
  /\ UNCHANGED <<kind, ctx, asked, run, work, queue, process, clock>>
Terminate(x) ==
  /\ Cmd /\ stop[x] = "in" /\ proc /= "none"
  /\ \/ IsDone /\ Halt(x, "done") /\ UNCHANGED <<signals, told>>
     \/ ~IsDone /\ proc = "failed" /\ Halt(x, "done") /\ told' = told \union {"panic"} /\ UNCHANGED signals
     \/ ~IsDone /\ proc = "exited" /\ Halt(x, "done") /\ UNCHANGED <<signals, told>>
     \/ ~IsDone /\ proc = "running" /\ Halt(x, "sleep") /\ signals' = signals \union {"term"} /\ UNCHANGED told
  /\ UNCHANGED <<kind, ctx, asked, run, given, item, life, failed, reported, queue, proc, clock>>
Kill(x) ==
  /\ stop[x] = "sleep" /\ Halt(x, "done")
  /\ signals' = (IF ~IsDone /\ proc = "running" THEN signals \union {"kill"} ELSE signals)
  /\ UNCHANGED <<kind, ctx, asked, run, work, queue, proc, clock>>

----------------------------------------------------------------------------
(* A Daemon runs the base service's Run again and again, Interval apart     *)
RunBase ==
  /\ Daemon /\ run = "start" /\ (Len(starts) < MaxStarts \/ ctx = "canceled")
  /\ starts' = Append(starts, [at |-> now, ctx |-> ctx]) /\ run' = "spawned"
  /\ UNCHANGED <<kind, ctx, asked, stop, work, queue, process, now>>
BaseEnds ==
  /\ Daemon /\ run = "spawned"
  /\ \E expires, fails \in BOOLEAN :
       \/ (expires \/ ctx = "canceled") /\ Return /\ UNCHANGED told
       \/ ~expires /\ ctx = "live" /\ run' = "pause" /\ told' = (IF fails THEN told \union {Len(starts)} ELSE told)
  /\ UNCHANGED <<kind, ctx, asked, stop, given, item, life, failed, reported, queue, process, clock>>
Due == now >= starts[Len(starts)].at + Interval
Pause ==
  /\ run = "pause"
  /\ \/ (stop["service"] = "done" \/ ctx = "canceled") /\ Return
     \/ Due /\ run' = "start"
  /\ UNCHANGED <<kind, ctx, asked, stop, work, queue, process, clock>>
Tick ==
  /\ Daemon /\ run /= "finished" /\ now < MaxNow /\ now' = now + 1
  /\ UNCHANGED <<frame, work, queue, process, starts>>

----------------------------------------------------------------------------
Frame == Canceled \/ ShutdownBegins \/ CleanupBegins \/ ShutdownSignals \/ NoCleanup
Goroutine(i) == Begin(i) \/ Deferred(i) \/ Recover(i) \/ GroupWait(i) \/ Pop(i) \/ Job(i)
Spawned == ForEach \/ RunSpawned \/ CleanupJoins
Pooled == PoolEnds \/ DrainBegins \/ DrainEnds \/ PoolShutdown \/ RunSignal \/ CleanupCloses
Commanded(x) == Terminate(x) \/ Kill(x)
Run == RunServer \/ RunCmd \/ CmdWait \/ RunBase \/ BaseEnds \/ Pause
Goroutines == Frame \/ Spawned \/ Pooled \/ Run \/ WatchBegins
Obeys(i) == ctx = "canceled" /\ Ends(i)
Killed == "kill" \in signals /\ Exit
PoolTimesOut == WorkerPool /\ Timeout
Next ==
  \/ Goroutines \/ Close \/ Timeout \/ Exit \/ Tick
  \/ \E i \in Items : Goroutine(i) \/ Ends(i) \/ AddCleanup(i)
  \/ \E x \in {"service", "watch"} : Commanded(x)
Spec == Init /\ [][Next]_vars
(* Goroutines run; services and operations end with their context, killed   *)
(* processes die, and the time-outs that are always set end                 *)
FairSpec ==
  /\ Spec /\ WF_vars(Goroutines) /\ WF_vars(Killed) /\ WF_vars(PoolTimesOut)
  /\ \A i \in Items : WF_vars(Goroutine(i)) /\ WF_vars(Obeys(i))
  /\ \A x \in {"service", "watch"} : WF_vars(Commanded(x))

----------------------------------------------------------------------------
(* A finished service leaves nothing behind that it knows of: each service  *)
(* a group waits for has ended and its error is reported, no operation of a *)
(* wait runs (its errors are WaitReportsPanics), each cleanup that was      *)
(* accepted has run once unless the time was up, no job and no process      *)
(* runs, and a process was asked to end before it was killed                *)
KindsFinish ==
  run = "finished" =>
    /\ (Group => \A i \in Items : item[i] = "done" => (life[i] = "ended" /\ (i \in failed => i \in reported)))
    /\ (Wait => \A i \in Items : life[i] /= "running")
    /\ (Cleanup /\ ~expired => ~In({"queued"}))
    /\ (Cleanup \/ WorkerPool => ~In({"begun"}) /\ failed \subseteq reported)
    /\ proc /= "running" /\ ("kill" \in signals => "term" \in signals)

(* A daemon's runs begin at least the interval apart, at most one of them   *)
(* after its context was canceled                                           *)
DaemonPaced ==
  /\ \A i \in 2..Len(starts) : starts[i].at >= starts[i - 1].at + Interval
  /\ Cardinality({ i \in 1..Len(starts) : starts[i].ctx = "canceled" }) <= 1

(* Every kind of service ends once it was asked to, or its Run returned *)
KindsEnd == [](ctx = "canceled" => <>(run = "finished"))

(* The services of a group run until they end or the group is asked to end  *)
GroupRunsOn == Group /\ ctx = "canceled" => (asked \/ \A i \in Items : life[i] = "ended")

(* A Wait service reports every panic of its operations *)
WaitReportsPanics == Wait /\ run = "finished" => failed \subseteq reported

(* The pool's Shutdown waits for all jobs in the queue *)
PoolDrains == WorkerPool /\ run = "finished" => ~In({"queued"})

=============================================================================
