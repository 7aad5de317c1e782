------------------------------ MODULE MCDeque ------------------------------
\* Instances of Deque for TLC.
EXTENDS Deque

CONSTANTS p1, p2, p3

At(side, names) == {[name |-> n, side |-> side] : n \in names}

\* Forced pushes at both ends and a push that is refused; a consumer that pops at both and
\* walks from the front; a drain, a close, and at the back a push and a walk that wait.
BothEnds ==
  [p \in Procs |->
     CASE p = p1 -> At("front", {"ForcePush"}) \cup At("back", {"Push", "ForcePush"})
       [] p = p2 -> At("back", {"WaitPop"}) \cup At("front", {"Pop", "Iterator"})
       [] p = p3 -> At("front", {"Drain", "Close"}) \cup At("back", {"WaitPush", "IteratorWait"})]

\* A quota below the hard limit with the credit to pass it once, so that a forced push may
\* meet a full deque of two, and two combinations that are refused.
SmallOptions ==
  LET o == [HardLimit |-> 3, SoftQuota |-> 1, BurstCredit |-> 6]
  IN  {[Unlimited |-> FALSE, Capacity |-> 0, QueueOptions |-> {o}],
       [Unlimited |-> FALSE, Capacity |-> 2, QueueOptions |-> {o}],
       [Unlimited |-> TRUE, Capacity |-> 1, QueueOptions |-> {}]}
=============================================================================
