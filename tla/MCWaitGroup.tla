---------------------------- MODULE MCWaitGroup ----------------------------
\* Instances of WaitGroup for TLC: two callers, one of which launches twice.
EXTENDS WaitGroup

CONSTANTS p1, p2, t1, t2, t3

Owners == [t \in Tokens |-> IF t = t3 THEN p2 ELSE p1]
=============================================================================
