------------------------------- MODULE Shared -------------------------------
\* What several goroutines call: the function wrappers of fnx, adt.Once, the sharded
\* map, a command of exc, and the services of srv. Which of them a behaviour is of is
\* chosen at the start; the variables of the others hold Unused.
EXTENDS Integers, FiniteSets, Sequences

CONSTANTS Callers,      \* of a wrapped function, of the map and of a command
          OnceCallers, Ctors,      \* of an adt.Once, and the constructors they bring
          Limit, Dur,   \* of the Limit and the TTL wrappers
          Keys,         \* of the map
          Services,     \* an orchestrator's
          Items, Workers, Interval,      \* of the services that srv makes
          MaxNow, MaxCalls,     \* bounds on the wrappers' clock, and on the calls of each caller
          MaxWrites, MaxFetches,      \* on the map's writes and fetches
          MaxTime, MaxStarts    \* on a daemon's clock and runs

\* A caller holds a mutex by its number, and 0 is nobody's; 0 is the nil constructor too,
\* and the others are numbered. Limits are greater than zero, and a time to live of
\* zero is no wrapper (internal/exec.go). A map that is used has keys. A daemon's interval
\* is any time.Duration.
ASSUME SharedAssumption ==
  /\ 0 \notin Callers
  /\ Ctors \subseteq Nat \ {0}
  /\ Limit \in Nat \ {0} /\ Dur \in Nat \ {0}
  /\ Keys /= {}
  /\ Interval \in Int

Unused == "unused"

VARIABLES which, kind, pc, seen, answer, once, output, ctx, now, proc, told,
          calls, at, ended, begun, panicked, mtx, counter, lastAt, tasks, gone,
          ctor, called, defined, comp, ran, arg,
          clock, shClock, entry, value, version, wrote, writes, fetches, key, mine, obj, result,
          error, streams, waited, startCtx, waiter,
          input, added, late, orc, cur, octx, uctx, isRunning, isStarted, isFinished, over, owner,
          starting, fails, guard, order, errs,
          asked, run, stop, given, item, life, failed, reported, pipe, drainer, expired, signals, starts

several == <<kind, pc, seen, answer, once, output, ctx, now, proc, told>>
ofCalls == <<calls, at, ended, begun, panicked, mtx, counter, lastAt, tasks, gone>>
ofOnce == <<ctor, called, defined, comp, ran, arg>>
ofMap == <<clock, shClock, entry, value, version, wrote, writes, fetches, key, mine, obj, result>>
ofCommand == <<error, streams, waited, startCtx, waiter>>
ofOrchestrator == <<input, added, late, orc, cur, octx, uctx, isRunning, isStarted, isFinished, over,
                    owner, starting, fails, guard, order, errs>>
ofKinds == <<asked, run, stop, given, item, life, failed, reported, pipe, drainer, expired, signals, starts>>
vars == <<which, several, ofCalls, ofOnce, ofMap, ofCommand, ofOrchestrator, ofKinds>>

SC == INSTANCE SharedCalls
ON == INSTANCE OnceValue WITH Callers <- OnceCallers
SM == INSTANCE ShardedMap
CM == INSTANCE Commands
OR == INSTANCE Orchestrator
SK == INSTANCE ServiceKinds WITH MaxNow <- MaxTime

NoCalls ==
  /\ calls = Unused /\ at = Unused /\ ended = Unused /\ begun = Unused /\ panicked = Unused
  /\ mtx = Unused /\ counter = Unused /\ lastAt = Unused /\ tasks = Unused /\ gone = Unused
NoOnce ==
  /\ ctor = Unused /\ called = Unused /\ defined = Unused /\ comp = Unused /\ ran = Unused
  /\ arg = Unused
NoMap ==
  /\ clock = Unused /\ shClock = Unused /\ entry = Unused /\ value = Unused /\ version = Unused
  /\ wrote = Unused /\ writes = Unused /\ fetches = Unused /\ key = Unused /\ mine = Unused
  /\ obj = Unused /\ result = Unused
NoCommand ==
  /\ error = Unused /\ streams = Unused /\ waited = Unused /\ startCtx = Unused /\ waiter = Unused
NoOrchestrator ==
  /\ input = Unused /\ added = Unused /\ late = Unused /\ orc = Unused /\ cur = Unused
  /\ octx = Unused /\ uctx = Unused /\ isRunning = Unused /\ isStarted = Unused
  /\ isFinished = Unused /\ over = Unused /\ owner = Unused /\ starting = Unused
  /\ fails = Unused /\ guard = Unused /\ order = Unused /\ errs = Unused
NoKinds ==
  /\ asked = Unused /\ run = Unused /\ stop = Unused /\ given = Unused /\ item = Unused
  /\ life = Unused /\ failed = Unused /\ reported = Unused /\ pipe = Unused
  /\ drainer = Unused /\ expired = Unused /\ signals = Unused /\ starts = Unused

Init ==
  \/ /\ which = "calls" /\ SC!Init /\ proc = Unused /\ told = Unused
     /\ NoOnce /\ NoMap /\ NoCommand /\ NoOrchestrator /\ NoKinds
  \/ /\ which = "once" /\ ON!Init /\ kind = Unused /\ seen = Unused /\ output = Unused
     /\ ctx = Unused /\ now = Unused /\ proc = Unused /\ told = Unused
     /\ NoCalls /\ NoMap /\ NoCommand /\ NoOrchestrator /\ NoKinds
  \/ /\ which = "map" /\ SM!Init /\ kind = Unused /\ answer = Unused /\ once = Unused
     /\ output = Unused /\ ctx = Unused /\ now = Unused /\ proc = Unused /\ told = Unused
     /\ NoCalls /\ NoOnce /\ NoCommand /\ NoOrchestrator /\ NoKinds
  \/ /\ which = "command" /\ CM!Init /\ kind = Unused /\ seen = Unused /\ answer = Unused
     /\ once = Unused /\ now = Unused
     /\ NoCalls /\ NoOnce /\ NoMap /\ NoOrchestrator /\ NoKinds
  \/ /\ which = "orchestrator" /\ OR!Init /\ kind = Unused /\ pc = Unused /\ seen = Unused
     /\ answer = Unused /\ once = Unused /\ output = Unused /\ ctx = Unused /\ now = Unused
     /\ proc = Unused /\ told = Unused
     /\ NoCalls /\ NoOnce /\ NoMap /\ NoCommand /\ NoKinds
  \/ /\ which = "kinds" /\ SK!Init /\ pc = Unused /\ seen = Unused /\ answer = Unused
     /\ once = Unused /\ output = Unused
     /\ NoCalls /\ NoOnce /\ NoMap /\ NoCommand /\ NoOrchestrator

OfCalls(A) == which = "calls" /\ A /\ UNCHANGED <<which, proc, told, ofOnce, ofMap, ofCommand, ofOrchestrator, ofKinds>>
OfOnce(A) ==
  /\ which = "once" /\ A
  /\ UNCHANGED <<which, kind, seen, output, ctx, now, proc, told, ofCalls, ofMap, ofCommand, ofOrchestrator, ofKinds>>
OfMap(A) ==
  /\ which = "map" /\ A
  /\ UNCHANGED <<which, kind, answer, once, output, ctx, now, proc, told, ofCalls, ofOnce, ofCommand, ofOrchestrator, ofKinds>>
OfCommand(A) ==
  /\ which = "command" /\ A
  /\ UNCHANGED <<which, kind, seen, answer, once, now, ofCalls, ofOnce, ofMap, ofOrchestrator, ofKinds>>
OfOrchestrator(A) ==
  which = "orchestrator" /\ A /\ UNCHANGED <<which, several, ofCalls, ofOnce, ofMap, ofCommand, ofKinds>>
OfKinds(A) ==
  /\ which = "kinds" /\ A
  /\ UNCHANGED <<which, pc, seen, answer, once, output, ofCalls, ofOnce, ofMap, ofCommand, ofOrchestrator>>

Next ==
  OfCalls(SC!Next) \/ OfOnce(ON!Next) \/ OfMap(SM!Next) \/ OfCommand(CM!Next)
    \/ OfOrchestrator(OR!Next) \/ OfKinds(SK!Next)

Spec == Init /\ [][Next]_vars

----------------------------------------------------------------------------
\* A wrapped function runs as often as its wrapper allows (fnx, internal/exec.go), one
\* constructor of a value runs (adt/once.go), a value is no newer than its version
\* (adt/shard), and one caller waits for a process and tells the others (exc/exc.go).
CallersAgree ==
  /\ which = "calls" => SC!RunsAsAllowed
  /\ which = "once" => ON!OneValue
  /\ which = "map" => SM!NeverAhead
  /\ which = "command" => CM!OneWaits

\* The answer of a call is that of a run, and of the last to return.
AnswersAreOfRuns ==
  [][which = "calls" => \A p \in Callers : pc[p] /= "idle" /\ pc'[p] = "idle" => SC!AnswerIsOfRun(p)]_vars

\* An orchestrator that has returned has told the errors of the services it started, and
\* none of them runs; a service of any kind that has ended leaves no operation, job or
\* process that it waits for running. A Group, a Cleanup and a WorkerPool have then told
\* the errors of those they waited for; of a Wait that is not stated, as its Run can return
\* before the last panic is collected (srv/orchestrator.go, srv/implementations.go).
ServicesReport ==
  /\ which = "orchestrator" => OR!OrchestratorReports
  /\ which = "kinds" => SK!KindsFinish /\ SK!DaemonPaced
=============================================================================
