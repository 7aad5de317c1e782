------------------------------ MODULE MCQueue ------------------------------
\* Instances of Queue for TLC.
EXTENDS Queue

CONSTANTS p1, p2, p3, p4

\* A producer, a consumer that waits and iterates, a controller that also pops, and an
\* observer.
MixedProgram ==
  [p \in Procs |-> CASE p = p1 -> {"Push", "WaitPush"}
                     [] p = p2 -> {"WaitPop", "IteratorWaitPop", "Iterator"}
                     [] p = p3 -> {"Drain", "Shutdown", "Close", "Pop"}
                     [] p = p4 -> {"IteratorWait"}]

\* For liveness: a pusher, a consumer that closes, and a waiter of every other kind.
WaitersProgram ==
  [p \in Procs |-> CASE p = p1 -> {"WaitPush", "IteratorWait"}
                     [] p = p2 -> {"WaitPop", "IteratorWaitPop", "Close"}
                     [] p = p3 -> {"Drain", "Shutdown"}]

\* A quota below the hard limit without the credit to pass it at first, and options
\* that are refused.
SmallOptions ==
  {[HardLimit |-> 2, SoftQuota |-> 1, BurstCredit |-> 1],
   [HardLimit |-> 1, SoftQuota |-> 2, BurstCredit |-> 1]}

\* No soft quota is given: it is the hard limit.
OneSlot == {[HardLimit |-> 1, SoftQuota |-> 0, BurstCredit |-> 0]}
=============================================================================
