------------------------------ MODULE MCShared ------------------------------
\* Shared for TLC: two callers, or three where two that race leave a third to be told; a
\* limit, a time to live and an interval of two; one key that is written twice.
EXTENDS Shared

\* Some goroutine that can go on does, whichever: less than the fairness of each, which
\* a scheduler gives, and enough, as none can go on for ever.
Works ==
  \/ OfCalls(SC!Task \/ \E p \in Callers : SC!Step(p))
  \/ OfOnce(\E c \in OnceCallers : ON!Going(c))
  \/ OfMap(\E c \in Callers : SM!Going(c))
  \/ OfCommand(CM!KilledByStart \/ \E c \in Callers : CM!Going(c))
  \/ OfOrchestrator(OR!Orchestrate \/ \E s \in Services : OR!Started(s) \/ OR!Over(s) \/ OR!Guard(s) \/ OR!Ending(s))
  \/ OfKinds(\/ SK!Goroutines \/ SK!Killed \/ SK!PoolTimesOut
             \/ \E i \in Items : SK!Goroutine(i) \/ SK!Obeys(i)
             \/ \E x \in {"service", "watch"} : SK!Commanded(x))
FairSpec == Spec /\ WF_vars(Works)

\* Every call, and every service that was asked to end, comes to its end.
CallsEnd ==
  <>[](/\ which \in {"calls", "map"} => \A p \in Callers : pc[p] = "idle"
       /\ which = "once" => \A c \in OnceCallers : pc[c] \in {"new", "done", "set"}
       /\ which = "command" /\ proc \in {"exited", "killed", "failed"} => \A c \in Callers : pc[c] = "done"
       /\ which = "orchestrator" /\ octx = "canceled" /\ uctx = "canceled" /\ orc /= "new" => orc = "returned"
       /\ which = "kinds" /\ ctx = "canceled" => run = "finished")
=============================================================================
