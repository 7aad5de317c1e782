-------------------------- MODULE WaitGroupProofs --------------------------
(***************************************************************************)
(* The safety of WaitGroup for every set of goroutines and every number of *)
(* operations.  One invariant is enough: the counter is the number of      *)
(* tokens that are out, and nobody sleeps while it is zero.                *)
(***************************************************************************)
EXTENDS WaitGroup, FiniteSetTheorems, TLAPS

IInv == TypeOK /\ Counted /\ NoLostZero

LEMMA PendingFinite == ASSUME TypeOK PROVE IsFiniteSet(pending) /\ Cardinality(pending) \in Nat
  BY WaitGroupAssumption, FS_Subset, FS_CardinalityType DEF TypeOK

LEMMA InitIInv == ASSUME Init PROVE IInv
  BY WaitGroupAssumption, FS_EmptySet DEF Init, IInv, TypeOK, Counted, NoLostZero

\* The steps that change the counter.
LEMMA AddKeeps ==
  ASSUME IInv, Free, NEW n \in Int, Add(n), UNCHANGED <<cancelled, signals, waits>>,
         pending' \subseteq Tokens, fresh' \subseteq Tokens \ pending',
         counter' = Cardinality(pending')
  PROVE  IInv'
<1>1. counter' \in Nat
  BY WaitGroupAssumption, FS_Subset, FS_CardinalityType
<1>2. at' = at \/ (counter' = 0 /\ at' = Woken)
  BY DEF Add
<1>3. counter' = 0 => at' = Woken \/ counter = 0
  BY DEF Add
<1>4. TypeOK'
  BY <1>1, <1>2 DEF IInv, TypeOK, Woken, Free
<1>5. NoLostZero'
  BY <1>2, <1>3 DEF IInv, NoLostZero, Woken, Free, TypeOK
<1> QED
  BY <1>4, <1>5 DEF IInv, Counted

\* The steps that do not.
LEMMA MoveKeeps ==
  ASSUME IInv, UNCHANGED <<counter, pending, fresh>>,
         signals' \in Nat, waits' \in 0..MaxWaits,
         cancelled' \subseteq {p \in Procs : at'[p] # "idle"},
         at' \in [Procs -> {"idle", "checked", "asleep", "woken"}],
         \A p, q \in Procs : at'[p] = "checked" /\ at'[q] = "checked" => p = q,
         \A p \in Procs : at'[p] \in {"checked", "asleep"} => at[p] \in {"checked", "asleep"}
                                                               \/ counter # 0
  PROVE  IInv'
  BY DEF IInv, TypeOK, Counted, NoLostZero

LEMMA NextKeeps == ASSUME IInv, [Next]_vars PROVE IInv'
<1>0. /\ TypeOK /\ counter = Cardinality(pending) /\ IsFiniteSet(pending)
      /\ Cardinality(pending) \in Nat
  BY PendingFinite DEF IInv, Counted
<1>1. CASE UNCHANGED vars
  BY <1>1 DEF vars, IInv, TypeOK, Counted, NoLostZero
<1>2. ASSUME NEW p \in Procs, Inc(p) PROVE IInv'
  <2>1. PICK t \in fresh : Free /\ Add(1) /\ pending' = pending \cup {t} /\ fresh' = fresh \ {t}
                           /\ UNCHANGED <<cancelled, signals, waits>>
    BY <1>2 DEF Inc
  <2>2. t \notin pending /\ pending' \subseteq Tokens /\ fresh' \subseteq Tokens \ pending'
    BY <1>0, <2>1 DEF TypeOK
  <2>3. Cardinality(pending') = counter + 1
    BY <1>0, <2>1, <2>2, FS_AddElement
  <2>4. counter' = counter + 1
    BY <1>0, <2>1 DEF Add
  <2> QED
    BY <2>1, <2>2, <2>3, <2>4, AddKeeps
<1>3. CASE Done
  <2>1. PICK t \in pending : Free /\ Add(-1) /\ pending' = pending \ {t} /\ fresh' = fresh
                             /\ UNCHANGED <<cancelled, signals, waits>>
    BY <1>3 DEF Done
  <2>2. Cardinality(pending') = counter - 1
    BY <1>0, <2>1, FS_RemoveElement
  <2>5. pending' \subseteq Tokens /\ fresh' \subseteq Tokens \ pending' /\ -1 \in Int
    BY <1>0, <2>1 DEF TypeOK
  <2>3. counter # 0
    BY <1>0, <2>1, FS_EmptySet
  <2>4. counter' = counter - 1
    BY <1>0, <2>1, <2>3 DEF Add
  <2> QED
    BY <2>1, <2>2, <2>4, <2>5, AddKeeps
<1>4. CASE Overdraw
  <2>1. counter' = counter /\ at' = at
    BY <1>0, <1>4 DEF Overdraw, Add
  <2> QED
    BY <1>4, <2>1, MoveKeeps DEF Overdraw, IInv, TypeOK
<1>5. CASE Broadcast
  BY <1>5, MoveKeeps DEF Broadcast, Woken, IInv, TypeOK
<1>6. ASSUME NEW p \in Procs, Wait(p) PROVE IInv'
  <2>1. waits' \in 0..MaxWaits
    BY <1>0, <1>6, WaitGroupAssumption DEF Wait, TypeOK
  <2> QED
    BY <1>6, <2>1, MoveKeeps DEF Wait, Goes, Free, IInv, TypeOK
<1>7. ASSUME NEW p \in Procs, Block(p) PROVE IInv'
  BY <1>7, MoveKeeps DEF Block, Goes, IInv, TypeOK
<1>8. ASSUME NEW p \in Procs, Relock(p) PROVE IInv'
  BY <1>8, MoveKeeps DEF Relock, Return, Proceed, Goes, Free, IInv, TypeOK
<1>9. ASSUME NEW p \in Procs, Cancel(p) PROVE IInv'
  BY <1>9, MoveKeeps DEF Cancel, IInv, TypeOK
<1> QED
  BY <1>1, <1>2, <1>3, <1>4, <1>5, <1>6, <1>7, <1>8, <1>9 DEF Next

\* In every reachable state the counter is the number of tokens, and no goroutine waits
\* on a counter that has reached zero.
THEOREM Invariant == Spec => []IInv
  BY InitIInv, NextKeeps, PTL DEF Spec

\* The counter is the number of operations outstanding, whatever panics.
THEOREM CountedInvariant == Spec => []Counted
<1>1. IInv => Counted
  BY DEF IInv
<1> QED
  BY <1>1, Invariant, PTL

\* No Wait sleeps through the counter's reaching zero, though other goroutines
\* broadcast at any moment without the mutex.
THEOREM ZeroInvariant == Spec => []NoLostZero
<1>1. IInv => NoLostZero
  BY DEF IInv
<1> QED
  BY <1>1, Invariant, PTL

\* A Wait that was not cancelled returns only when its caller's operations are done.
THEOREM OwnOperations == Spec => OwnOperationsDone
<1> DEFINE Safe(p) == at[p] # "idle" /\ at'[p] = "idle" /\ p \notin cancelled
                        => \A t \in pending : Owner[t] # p
<1>1. IInv /\ [Next]_vars => [\A p \in Procs : Safe(p)]_vars
  <2> SUFFICES ASSUME IInv, Next, NEW p \in Procs,
                      at[p] # "idle", at'[p] = "idle", p \notin cancelled
               PROVE  pending = {}
    OBVIOUS
  <2>1. IsFiniteSet(pending) /\ at \in [Procs -> {"idle", "checked", "asleep", "woken"}]
    BY PendingFinite DEF IInv, TypeOK
  <2>2. Relock(p) /\ counter = 0
    BY <2>1 DEF Next, Inc, Done, Overdraw, Broadcast, Add, Woken, Wait, Block, Relock, Return,
                Proceed, Cancel, Goes
  <2> QED
    BY <2>1, <2>2, FS_EmptySet DEF IInv, Counted
<1> QED
  BY <1>1, Invariant, PTL DEF Spec, OwnOperationsDone
=============================================================================
