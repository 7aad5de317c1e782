------------------------------- MODULE MCWaits -------------------------------
\* The waiting calls of Queue and Deque under their fairness: which of the two the
\* behaviour is of is chosen at the start, and the other's variables stay as they are.
EXTENDS Integers, FiniteSets, Sequences

CONSTANTS p1, p2, p3, Unused

VARIABLES which, tracker, drainers, closed, link, popped, added, back, list, op, at, cancelled,
          cursor, wakes, ret

Procs == {p1, p2, p3}

\* A pusher, a consumer that closes, and a waiter of every other kind.
QueueProgram ==
  [p \in Procs |-> CASE p = p1 -> {"WaitPush", "IteratorWait"}
                     [] p = p2 -> {"WaitPop", "IteratorWaitPop", "Close"}
                     [] p = p3 -> {"Drain", "Shutdown"}]

\* A waiter of every kind, with the pops at the end opposite to the pushes, and the two walks
\* from the front.
At(side, names) == {[name |-> n, side |-> side] : n \in names}
DequeProgram ==
  [p \in Procs |->
     CASE p = p1 -> At("front", {"WaitPush", "Iterator"})
       [] p = p2 -> At("back", {"WaitPop"}) \cup At("front", {"Close", "IteratorWait"})
       [] p = p3 -> At("front", {"Drain", "Shutdown"})]

\* One slot; no soft quota is given, so it is the hard limit.
QueueOneSlot == {[HardLimit |-> 1, SoftQuota |-> 0, BurstCredit |-> 0]}
DequeOneSlot == {[Unlimited |-> FALSE, Capacity |-> 1, QueueOptions |-> {}]}

Q == INSTANCE Queue WITH Program <- QueueProgram, Options <- QueueOneSlot, Unlimited <- TRUE,
                         CreditUnit <- 1, MaxInt <- 1000, MaxPushes <- 2, MaxWakes <- 1
D == INSTANCE Deque WITH Nil <- Unused, Program <- DequeProgram, Options <- DequeOneSlot,
                         CreditUnit <- 1, MaxInt <- 1000, MaxPushes <- 2, MaxWakes <- 1

ofQueue == <<link, popped, added, back>>
vars == <<which, tracker, drainers, closed, ofQueue, list, op, at, cancelled, cursor, wakes, ret>>

Init ==
  \/ which = "queue" /\ Q!Init /\ list = Unused
  \/ which = "deque" /\ D!Init /\ link = Unused /\ popped = Unused /\ added = Unused /\ back = Unused
OfQueue(A) == which = "queue" /\ A /\ UNCHANGED <<which, list>>
OfDeque(A) == which = "deque" /\ A /\ UNCHANGED <<which, ofQueue>>
Next == OfQueue(Q!Next) \/ OfDeque(D!Next)
GoesOn(p) == OfQueue(Q!GoesOn(p)) \/ OfDeque(D!GoesOn(p))
WakeOnCancel(c) ==
  \/ c \in Q!Conds /\ OfQueue(Q!WakeOnCancel(c))
  \/ c \in D!Conds /\ OfDeque(D!WakeOnCancel(c))
Spec ==
  /\ Init /\ [][Next]_vars
  /\ \A p \in Procs : WF_vars(GoesOn(p))
  /\ \A c \in Q!Conds \cup D!Conds : WF_vars(WakeOnCancel(c))

(***************************************************************************)
(* Every waiting call of a Queue or a Deque, at either end, returns once   *)
(* its context has ended or the queue is closed, and a drain once it is    *)
(* empty (queue.go:191, 217, 270; deque.go:187, 346).                      *)
(***************************************************************************)
Due(p) == (which = "queue" /\ Q!ReturnIsDue(p)) \/ (which = "deque" /\ D!ReturnIsDue(p))
WaitsEnd == \A p \in Procs : Due(p) ~> (at[p] = "idle")
=============================================================================
