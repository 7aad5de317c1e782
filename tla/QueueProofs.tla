---------------------------- MODULE QueueProofs ----------------------------
(***************************************************************************)
(* Proofs about the module Queue, for every set of goroutines, every       *)
(* program, every set of options and every bound: its inductive invariant, *)
(* what follows from it, and that the linked list under its mutex          *)
(* implements the plain sequence of the module FIFO.                       *)
(***************************************************************************)
EXTENDS Queue, QueueLimitsProofs, FiniteSetTheorems, Sequences, SequenceTheorems

----------------------------------------------------------------------------
\* The list.  A step leaves it alone, adds an entry or takes one.

NoListStep == UNCHANGED <<tracker, link, popped, added, back>>
AddStep    == AddOutcome = "nil" /\ Enqueue
PopStep    == Poppable /\ Dequeue

LEMMA ListEffects == ASSUME [Next]_vars PROVE NoListStep \/ AddStep \/ PopStep
<1>1. CASE UNCHANGED vars
  BY <1>1 DEF vars, NoListStep
<1>2. ASSUME NEW p \in Procs, Push(p) PROVE NoListStep \/ AddStep
  BY <1>2 DEF Push, doAdd, shared, NoListStep, AddStep
<1>3. ASSUME NEW p \in Procs, WaitPush(p) PROVE NoListStep \/ AddStep
  BY <1>3 DEF WaitPush, doAdd, shared, NoListStep, AddStep
<1>4. ASSUME NEW p \in Procs, Pop(p) PROVE NoListStep \/ PopStep
  BY <1>4 DEF Pop, PopNow, popFront, shared, NoListStep, PopStep
<1>5. ASSUME NEW p \in Procs, NEW o, NEW c, WaitPopTurn(p, o, c) PROVE NoListStep \/ PopStep
  BY <1>5 DEF WaitPopTurn, popFront, Poppable, shared, NoListStep, PopStep
<1>6. ASSUME NEW p \in Procs, WaitPop(p) PROVE NoListStep \/ PopStep
  BY <1>5, <1>6 DEF WaitPop
<1>7. ASSUME NEW p \in Procs, IteratorCheck(p) PROVE NoListStep
  BY <1>7 DEF IteratorCheck, shared, NoListStep
<1>8. ASSUME NEW p \in Procs, IteratorPop(p) PROVE NoListStep \/ PopStep
  BY <1>8 DEF IteratorPop, PopNow, popFront, shared, NoListStep, PopStep
<1>9. ASSUME NEW p \in Procs, IteratorWaitPop(p) PROVE NoListStep \/ PopStep
  BY <1>5, <1>9 DEF IteratorWaitPop
<1>10. ASSUME NEW p \in Procs, DrainEnter(p) PROVE NoListStep
  BY <1>10 DEF DrainEnter, Drained, shared, list, NoListStep
<1>11. ASSUME NEW p \in Procs, DrainResume(p) PROVE NoListStep
  BY <1>11 DEF DrainResume, Drained, shared, list, NoListStep
<1>12. ASSUME NEW p \in Procs, Close(p) PROVE NoListStep
  BY <1>12 DEF Close, list, NoListStep
<1>13. ASSUME NEW p \in Procs, IteratorWait(p) \/ Iterator(p) \/ Cancel(p) PROVE NoListStep
  BY <1>13 DEF IteratorWait, Iterator, Cancel, shared, NoListStep
<1>14. ASSUME NEW c \in Conds, WakeOnCancel(c) PROVE NoListStep
  BY <1>14 DEF WakeOnCancel, shared, NoListStep
<1> QED
  BY <1>1, <1>2, <1>3, <1>4, <1>6, <1>7, <1>8, <1>9, <1>10, <1>11, <1>12, <1>13, <1>14
     DEF Next, Step

ListInv == ListTyped /\ LimitsKept /\ ListIntact

LEMMA ListInit == ASSUME Init PROVE ListInv
<1>1. tracker \in Tracker /\ WithinLimits(tracker) /\ tracker.length = 0
  <2>1. CASE \E o \in Options : Acceptable(o) /\ tracker = SoftTracker(Defaults(o))
    BY <2>1, NewTracker, QueueAssumption
  <2>2. CASE tracker = NoLimitTracker
    BY <2>2 DEF NoLimitTracker, Tracker, Kinds, WithinLimits
  <2> QED
    BY <2>1, <2>2 DEF Init, Trackers
<1>2. Live = {}
  BY DEF Init, Live
<1> QED
  BY <1>1, <1>2 DEF Init, ListInv, ListTyped, LimitsKept, ListIntact, First, Front, Nil

\* The three shapes of the list, which the proofs below are about.
LEMMA ListShape ==
  ASSUME ListInv
  PROVE  /\ added \in Nat /\ tracker.length \in Nat
         /\ First \in {Nil} \cup 1..added
         /\ tracker.length > 0 <=> First # Nil
  BY DEF ListInv, ListTyped, ListIntact, First, Front, Nil, Tracker

LEMMA EnqueueKeepsList ==
  ASSUME ListInv, AddStep
  PROVE  /\ ListInv' /\ Live' = Live \cup {added + 1}
         /\ tracker'.length = tracker.length + 1
         /\ First' = IF First = Nil THEN added + 1 ELSE First
<1>0. ListTyped /\ ListIntact /\ added' = added + 1 /\ back' = added + 1
  BY DEF ListInv, AddStep, Enqueue
<1>1. tracker' \in Tracker /\ WithinLimits(tracker') /\ tracker'.length = tracker.length + 1
  BY AddedTracker DEF AddOutcome, ListTyped, LimitsKept, ListInv, AddStep, Enqueue
<1>2. /\ link'[added + 1] = Nil /\ link'[back] = added + 1 /\ popped' = popped
      /\ \A e \in 0..added : e # back => link'[e] = link[e]
  BY <1>0 DEF AddStep, Enqueue, ListTyped
<1>3. ListTyped'
  BY <1>0, <1>1 DEF ListTyped, Nil, AddStep, Enqueue
<1>4. Live' = Live \cup {added + 1}
  BY <1>0, <1>2 DEF Live, ListTyped
<1>6. CASE First = Nil
  <2>1. back = Front /\ Live = {} /\ tracker.length = 0
    BY <1>0, <1>6 DEF ListIntact
  <2>2. First' = added + 1
    BY <1>2, <2>1 DEF First
  <2>3. Live' = First'..added'
    BY <1>0, <1>4, <2>1, <2>2 DEF ListTyped
  <2>4. \A e \in 1..added' : link'[e] = IF e \in Live' /\ e < added' THEN e + 1 ELSE Nil
    <3>1. \A e \in 1..added : link'[e] = Nil
      BY <1>0, <1>2, <2>1 DEF ListIntact, ListTyped, Front
    <3> QED
      BY <1>0, <1>2, <1>4, <2>1, <3>1 DEF ListTyped
  <2>5. back' = added' /\ tracker'.length = added' - First' + 1 /\ First' # Nil
    BY <1>0, <1>1, <2>1, <2>2 DEF ListTyped, Nil
  <2> QED
    BY <1>1, <1>3, <1>4, <1>6, <2>2, <2>3, <2>4, <2>5 DEF ListInv, ListIntact, LimitsKept
<1>7. CASE First # Nil
  <2>1. First \in 1..added /\ back = added /\ back # Front /\ Live = First..added
    BY <1>0, <1>7 DEF ListIntact, ListTyped, First, Front
  <2>2. First' = First
    BY <1>0, <1>2, <2>1 DEF First, Front, ListTyped
  <2>3. Live' = First'..added'
    BY <1>0, <1>4, <2>1, <2>2 DEF ListTyped
  <2>4. \A e \in 1..added' : link'[e] = IF e \in Live' /\ e < added' THEN e + 1 ELSE Nil
    <3>1. \A e \in 1..added : e # added => link'[e] = IF e \in Live THEN e + 1 ELSE Nil
      BY <1>0, <1>2, <2>1 DEF ListIntact, ListTyped
    <3>2. link'[added] = added + 1 /\ added \in Live
      BY <1>0, <1>2, <2>1 DEF ListTyped
    <3> QED
      BY <1>0, <1>2, <1>4, <3>1, <3>2 DEF ListTyped
  <2>5. back' = added' /\ tracker'.length = added' - First' + 1 /\ First' # Nil
    BY <1>0, <1>1, <1>7, <2>1, <2>2 DEF ListTyped, ListIntact, Nil
  <2> QED
    BY <1>1, <1>3, <1>4, <1>7, <2>2, <2>3, <2>4, <2>5 DEF ListInv, ListIntact, LimitsKept
<1> QED
  BY <1>6, <1>7

LEMMA DequeueKeepsList ==
  ASSUME ListInv, PopStep
  PROVE  /\ ListInv' /\ First \in Live
         /\ Live' = Live \ {First} /\ tracker'.length = tracker.length - 1
         /\ First' = IF First < added THEN First + 1 ELSE Nil
<1>0. ListTyped /\ ListIntact /\ added' = added /\ back' = IF First = back THEN Front ELSE back
  BY DEF ListInv, PopStep, Dequeue
<1>1. tracker' \in Tracker /\ WithinLimits(tracker') /\ tracker'.length = tracker.length - 1
  BY RemovedTracker DEF Poppable, ListTyped, LimitsKept, ListInv, PopStep, Dequeue
<1>2. /\ First \in 1..added /\ back = added /\ Live = First..added
      /\ tracker.length = added - First + 1
  BY <1>0 DEF ListIntact, ListTyped, First, Front, Poppable, PopStep
<1>3. /\ popped' = popped \cup {First} /\ link'[Front] = link[First] /\ link'[First] = Nil
      /\ \A e \in 1..added : e # First => link'[e] = link[e]
  BY <1>0, <1>2 DEF ListTyped, Front, PopStep, Dequeue
<1>4. ListTyped'
  BY <1>0, <1>1, <1>2 DEF ListTyped, Nil, Front, PopStep, Dequeue
<1>5. Live' = Live \ {First}
  BY <1>0, <1>2, <1>3 DEF Live, ListTyped
<1>6. First' = IF First < added THEN First + 1 ELSE Nil
  <2>1. link[First] = IF First < added THEN First + 1 ELSE Nil
    BY <1>0, <1>2 DEF ListIntact
  <2> QED
    BY <1>3, <2>1 DEF First
<1>7. \A e \in 1..added' : link'[e] = IF e \in Live' /\ e < added' THEN e + 1 ELSE Nil
  BY <1>0, <1>2, <1>3, <1>5 DEF ListIntact, ListTyped
<1>8. CASE First < added
  <2>1. Live' = First'..added' /\ back' = added' /\ First' # Nil
    BY <1>0, <1>2, <1>5, <1>6, <1>8 DEF ListTyped, Nil
  <2>2. tracker'.length = added' - First' + 1
    BY <1>0, <1>1, <1>2, <1>6, <1>8 DEF ListTyped
  <2> QED
    BY <1>1, <1>2, <1>4, <1>5, <1>6, <1>7, <2>1, <2>2 DEF ListInv, ListIntact, LimitsKept
<1>9. CASE First = added
  <2>1. Live' = {} /\ back' = Front /\ First' = Nil /\ tracker'.length = 0
    BY <1>0, <1>1, <1>2, <1>5, <1>6, <1>9 DEF ListTyped
  <2>2. ListIntact'
    BY <1>7, <2>1 DEF ListIntact
  <2>3. First \in Live
    BY <1>0, <1>2 DEF ListTyped
  <2> QED
    BY <1>1, <1>4, <1>5, <1>6, <2>2, <2>3 DEF ListInv, LimitsKept
<1> QED
  BY <1>0, <1>2, <1>8, <1>9 DEF ListTyped

LEMMA ListPreserved == ASSUME ListInv, [Next]_vars PROVE ListInv'
<1>1. CASE NoListStep
  BY <1>1 DEF NoListStep, ListInv, ListTyped, LimitsKept, ListIntact, Live, First
<1> QED
  BY <1>1, ListEffects, EnqueueKeepsList, DequeueKeepsList

\* In every reachable state the tracker and the list are of their types, the tracker is
\* within its limits and the list is in order and counted by the tracker.
THEOREM ListInvariant == Spec => []ListInv
  BY ListInit, ListPreserved, PTL DEF Spec

\* The queue never passes its quota, nor the quota the hard limit, whatever
\* options it was built with and however adds and removals mix.
THEOREM LimitsInvariant == Spec => []LimitsKept
  BY ListInvariant, PTL DEF ListInv

\* Following the links from the sentinel visits the queued entries, oldest first.
THEOREM ListIntactInvariant == Spec => []ListIntact
  BY ListInvariant, PTL DEF ListInv

----------------------------------------------------------------------------
\* The calls.  A goroutine's place in its call goes with the call it is in.

WaitingOps == {"WaitPush", "WaitPop", "Drain", "Shutdown", "IteratorWait", "IteratorWaitPop"}

Placed(p) ==
  /\ op[p] \in WaitingOps \cup {"none"}
  /\ op[p] = "none" <=> at[p] = "idle"
  /\ at[p] \in {"checked", "empty"} => op[p] = "IteratorWaitPop"
  /\ op[p] = "IteratorWait" => cursor[p] # Nil

CallTypes ==
  /\ op \in [Procs -> Op \cup {"none"}] /\ at \in [Procs -> Where]
  /\ cancelled \subseteq Procs
  /\ ret \in [op : Op \cup {"none"}, err : Errors, item : Nat]

CallInv == CallTypes /\ \A p \in Procs : Placed(p)

Asleep == {q \in Procs : at[q] = "asleep"}

LEMMA ReturnKeeps ==
  ASSUME CallInv, NEW p \in Procs, NEW o \in Op, NEW e \in Errors, NEW i \in Nat,
         NEW W, W \subseteq Asleep, Return(p, o, e, i, W),
         \A q \in Procs \ {p} : cursor'[q] = cursor[q]
  PROVE  CallInv'
<1>1. /\ op' = [op EXCEPT ![p] = "none"]
      /\ at' = [q \in Procs |-> IF q = p THEN "idle" ELSE IF q \in W THEN "woken" ELSE at[q]]
  BY DEF Return, Goes
<1>2. CallTypes'
  BY <1>1 DEF Return, CallInv, CallTypes, Where
<1>3. Placed(p)'
  BY <1>1 DEF CallInv, CallTypes, Placed
<1>4. ASSUME NEW q \in Procs \ {p} PROVE Placed(q)'
  <2>1. op'[q] = op[q] /\ cursor'[q] = cursor[q] /\ Placed(q)
    BY <1>1 DEF CallInv, CallTypes
  <2>2. at'[q] = at[q] \/ (at[q] = "asleep" /\ at'[q] = "woken")
    BY <1>1 DEF Asleep
  <2> QED
    BY <2>1, <2>2 DEF Placed
<1> QED
  BY <1>2, <1>3, <1>4 DEF CallInv

LEMMA SleepKeeps ==
  ASSUME CallInv, NEW p \in Procs, NEW o \in WaitingOps, NEW W, W \subseteq Asleep,
         Sleep(p, o, W), \A q \in Procs \ {p} : cursor'[q] = cursor[q],
         o = "IteratorWait" => cursor'[p] # Nil
  PROVE  CallInv'
<1>1. /\ op' = [op EXCEPT ![p] = o] /\ ret' = ret
      /\ at' = [q \in Procs |-> IF q = p THEN "asleep" ELSE IF q \in W THEN "woken" ELSE at[q]]
      /\ cancelled' \subseteq cancelled \cup {p}
  BY DEF Sleep, Stay, Goes
<1>2. CallTypes'
  BY <1>1 DEF CallInv, CallTypes, Where, WaitingOps, Op
<1>3. Placed(p)'
  BY <1>1 DEF CallInv, CallTypes, Placed, WaitingOps
<1>4. ASSUME NEW q \in Procs \ {p} PROVE Placed(q)'
  <2>1. op'[q] = op[q] /\ cursor'[q] = cursor[q] /\ Placed(q)
    BY <1>1 DEF CallInv, CallTypes
  <2>2. at'[q] = at[q] \/ (at[q] = "asleep" /\ at'[q] = "woken")
    BY <1>1 DEF Asleep
  <2> QED
    BY <2>1, <2>2 DEF Placed
<1> QED
  BY <1>2, <1>3, <1>4 DEF CallInv

LEMMA MoveKeeps ==
  ASSUME CallInv, NEW p \in Procs, NEW o, o = "IteratorWaitPop", NEW s \in {"checked", "empty"},
         NEW c, Stay(p, o, c, s, {}), UNCHANGED cursor
  PROVE  CallInv'
<1>1. /\ op' = [op EXCEPT ![p] = o] /\ ret' = ret
      /\ at' = [q \in Procs |-> IF q = p THEN s ELSE at[q]]
      /\ cancelled' \subseteq cancelled \cup {p}
  BY DEF Stay, Goes
<1>2. CallTypes'
  BY <1>1 DEF CallInv, CallTypes, Where, Op
<1>3. Placed(p)'
  BY <1>1 DEF CallInv, CallTypes, Placed, WaitingOps
<1>4. ASSUME NEW q \in Procs \ {p} PROVE Placed(q)'
  BY <1>1 DEF CallInv, CallTypes, Placed
<1> QED
  BY <1>2, <1>3, <1>4 DEF CallInv

\* What a step may wake is asleep.
LEMMA WakesAsleep ==
  /\ \A c : Sleepers(c) \subseteq Asleep
  /\ PopWakes \subseteq Asleep
  /\ \A W \in PopSignals : W \subseteq Asleep
<1>1. \A c : Sleepers(c) \subseteq Asleep
  BY DEF Sleepers, Asleep
<1>2. PopWakes \subseteq Asleep
  BY <1>1 DEF PopWakes
<1>3. \A S, T : S \subseteq Asleep /\ T \in Signal(S) => T \subseteq Asleep
  BY DEF Signal
<1>4. \A W \in PopSignals : W \subseteq Asleep
  <2> DEFINE S == Sleepers(IF tracker.length = 1 THEN "nempty" ELSE "nupdates") \ PopWakes
  <2>1. S \subseteq Asleep
    BY <1>1
  <2>2. PopSignals = IF drainers > 0 THEN {S} ELSE Signal(S)
    BY DEF PopSignals
  <2> QED
    BY <1>3, <2>1, <2>2
<1> QED
  BY <1>1, <1>2, <1>4

Turn == ListInv /\ CallInv /\ cursor \in [Procs -> {Nil} \cup 0..added]

LEMMA AddKeepsCalls ==
  ASSUME Turn, NEW p \in Procs, NEW o \in Op, doAdd(p, o), UNCHANGED cursor
  PROVE  CallInv'
<1>1. CASE AddOutcome # "nil" /\ Return(p, o, AddOutcome, 0, {})
  <2>1. AddOutcome \in Errors
    BY <1>1 DEF AddOutcome, AddError, Errors
  <2> QED
    BY <1>1, <2>1, ReturnKeeps DEF Turn
<1>2. CASE Return(p, o, "nil", added + 1, Sleepers("nempty") \cup Sleepers("nupdates"))
  <2>1. added + 1 \in Nat /\ "nil" \in Errors
    BY DEF Turn, ListInv, ListTyped, Errors
  <2>2. Sleepers("nempty") \cup Sleepers("nupdates") \subseteq Asleep
    BY WakesAsleep
  <2> QED
    BY <1>2, <2>1, <2>2, ReturnKeeps DEF Turn
<1> QED
  BY <1>1, <1>2 DEF doAdd

LEMMA PopKeepsCalls ==
  ASSUME Turn, NEW p \in Procs, NEW o \in Op, NEW W, W \subseteq Asleep, Poppable,
         popFront(p, o, W), UNCHANGED cursor
  PROVE  CallInv'
<1>1. First \in Nat /\ "nil" \in Errors
  BY ListShape DEF Turn, Poppable, Errors, Nil
<1>2. PopWakes \cup W \subseteq Asleep
  BY WakesAsleep
<1> QED
  BY <1>1, <1>2, ReturnKeeps DEF popFront, Turn

LEMMA WaitPopKeepsCalls ==
  ASSUME Turn, NEW p \in Procs, NEW o \in {"WaitPop", "IteratorWaitPop"}, NEW c \in BOOLEAN,
         WaitPopTurn(p, o, c), UNCHANGED cursor
  PROVE  CallInv'
<1>1. CASE closed /\ Return(p, o, "ErrQueueClosed", 0, {})
  BY <1>1, ReturnKeeps DEF Turn, Op, Errors
<1>2. CASE Return(p, o, "ctx", 0, {})
  BY <1>2, ReturnKeeps DEF Turn, Op, Errors
<1>3. CASE ~closed /\ tracker.length > 0 /\ popFront(p, o, {})
  BY <1>3, PopKeepsCalls DEF Op, Poppable
<1>4. CASE Sleep(p, o, {})
  BY <1>4, SleepKeeps DEF Turn, WaitingOps
<1> QED
  BY <1>1, <1>2, <1>3, <1>4 DEF WaitPopTurn

LEMMA DrainedKeepsCalls ==
  ASSUME Turn, NEW p \in Procs, NEW o \in DrainOps, NEW e \in Errors, NEW n, NEW c,
         NEW W, W \subseteq Asleep, Drained(p, o, e, n, c, W)
  PROVE  CallInv'
<1> DEFINE V == W \cup (IF o = "Shutdown" /\ e = "nil"
                        THEN Sleepers("nempty") \cup Sleepers("nupdates") ELSE {})
<1>1. V \subseteq Asleep
  BY WakesAsleep
<1>2. Return(p, o, e, 0, V) /\ UNCHANGED cursor
  BY DEF Drained
<1> HIDE DEF V
<1> QED
  BY <1>1, <1>2, ReturnKeeps DEF Turn, DrainOps, Op

LEMMA StepKeepsCalls == ASSUME Turn, NEW p \in Procs, Step(p) PROVE CallInv'
<1> USE DEF Turn
<1>e. {"nil", "ErrQueueClosed", "ErrQueueDraining", "ctx", "end"} \subseteq Errors
  BY DEF Errors
<1>1. CASE Push(p)
  BY <1>1, AddKeepsCalls DEF Push, Op
<1>2. CASE WaitPush(p)
  <2>1. "WaitPush" \in Op /\ "WaitPush" \in WaitingOps
    BY DEF Op, WaitingOps
  <2>2. UNCHANGED cursor /\ (\/ \E e \in Errors : Return(p, "WaitPush", e, 0, {})
                            \/ doAdd(p, "WaitPush") \/ Sleep(p, "WaitPush", {}))
    BY <1>2, <1>e DEF WaitPush
  <2> QED
    BY <2>1, <2>2, AddKeepsCalls, ReturnKeeps, SleepKeeps
<1>3. CASE Pop(p)
  <2>1. CASE \E W \in PopSignals : Poppable /\ popFront(p, "Pop", W)
    BY <1>3, <2>1, PopKeepsCalls, WakesAsleep DEF Pop, Op
  <2>2. CASE Return(p, "Pop", "end", 0, {})
    BY <1>3, <2>2, <1>e, ReturnKeeps DEF Pop, Op
  <2> QED
    BY <1>3, <2>1, <2>2 DEF Pop, PopNow
<1>4. CASE WaitPop(p)
  BY <1>4, WaitPopKeepsCalls DEF WaitPop
<1>5. CASE IteratorCheck(p)
  <2>1. "IteratorWaitPop" \in Op /\ "IteratorWaitPop" \in WaitingOps
    BY DEF Op, WaitingOps
  <2>2. CASE Return(p, "IteratorWaitPop", "ctx", 0, {})
    BY <1>5, <2>1, <2>2, <1>e, ReturnKeeps DEF IteratorCheck
  <2>3. CASE Stay(p, "IteratorWaitPop", FALSE, "checked", {})
    <3>1. UNCHANGED cursor
      BY <1>5 DEF IteratorCheck
    <3> QED
      BY <2>3, <3>1, MoveKeeps
  <2> QED
    BY <1>5, <2>2, <2>3 DEF IteratorCheck
<1>6. CASE IteratorPop(p)
  <2>1. op[p] = "IteratorWaitPop" /\ op[p] \in Op /\ op[p] \in WaitingOps
    BY <1>6 DEF IteratorPop, CallInv, Placed, Op, WaitingOps
  <2>2. CASE \E W \in PopSignals : Poppable /\ popFront(p, op[p], W)
    BY <1>6, <2>1, <2>2, PopKeepsCalls, WakesAsleep DEF IteratorPop
  <2>3. CASE Stay(p, op[p], p \in cancelled, "empty", {})
    <3>1. UNCHANGED cursor
      BY <1>6 DEF IteratorPop
    <3> QED
      BY <2>1, <2>3, <3>1, MoveKeeps
  <2> QED
    BY <1>6, <2>2, <2>3 DEF IteratorPop, PopNow
<1>7. CASE IteratorWaitPop(p)
  <2>1. CASE at[p] = "empty" /\ WaitPopTurn(p, op[p], p \in cancelled) /\ UNCHANGED cursor
    <3>1. op[p] = "IteratorWaitPop" /\ (p \in cancelled) \in BOOLEAN
      BY <2>1 DEF CallInv, Placed
    <3> QED
      BY <2>1, <3>1, WaitPopKeepsCalls
  <2>2. CASE \E c \in BOOLEAN : WaitPopTurn(p, "IteratorWaitPop", c) /\ UNCHANGED cursor
    BY <2>2, WaitPopKeepsCalls
  <2> QED
    BY <1>7, <2>1, <2>2 DEF IteratorWaitPop
<1>8. CASE DrainEnter(p) \/ DrainResume(p)
  <2>1. DrainOps \subseteq Op /\ DrainOps \subseteq WaitingOps /\ "IteratorWait" \notin DrainOps
    BY DEF DrainOps, Op, WaitingOps
  <2>2. {} \subseteq Asleep /\ Sleepers("nupdates") \subseteq Asleep
    BY WakesAsleep
  <2>3. ASSUME NEW o \in DrainOps, NEW e \in Errors, UNCHANGED cursor, Return(p, o, e, 0, {})
        PROVE  CallInv'
    BY <2>1, <2>2, <2>3, ReturnKeeps
  <2>4. ASSUME NEW o \in DrainOps, NEW W \in {{}, Sleepers("nupdates")}, UNCHANGED cursor,
               Sleep(p, o, W)
        PROVE  CallInv'
    BY <2>1, <2>2, <2>4, SleepKeeps
  <2>5. ASSUME NEW o \in DrainOps, NEW e \in Errors, NEW n, NEW c,
               NEW W \in {{}, Sleepers("nupdates")}, Drained(p, o, e, n, c, W)
        PROVE  CallInv'
    BY <2>2, <2>5, DrainedKeepsCalls
  <2>6. CASE DrainEnter(p)
    BY <2>3, <2>4, <2>5, <2>6, <1>e DEF DrainEnter
  <2>7. CASE DrainResume(p)
    BY <2>3, <2>4, <2>5, <2>7, <1>e DEF DrainResume
  <2> QED
    BY <1>8, <2>6, <2>7
<1>9. CASE Close(p)
  <2>1. Sleepers("nempty") \cup Sleepers("nupdates") \subseteq Asleep
    BY WakesAsleep
  <2> QED
    BY <1>9, <2>1, <1>e, ReturnKeeps DEF Close, Op
<1>10. CASE IteratorWait(p)
  <2>1. Place(p) # Nil /\ (after(Place(p)) # Nil => after(Place(p)) \in Nat)
    BY ListShape DEF Place, after, Front, Nil, ListInv, ListTyped
  <2>2. \/ /\ after(Place(p)) # Nil
           /\ cursor' = [cursor EXCEPT ![p] = after(Place(p))]
           /\ Return(p, "IteratorWait", "nil", after(Place(p)), {})
        \/ /\ cursor' = [cursor EXCEPT ![p] = Place(p)]
           /\ \/ Return(p, "IteratorWait", "end", 0, {})
              \/ Sleep(p, "IteratorWait", {})
    BY <1>10 DEF IteratorWait, Yield
  <2>3. cursor'[p] # Nil /\ \A q \in Procs \ {p} : cursor'[q] = cursor[q]
    BY <2>1, <2>2
  <2>4. "IteratorWait" \in Op /\ "IteratorWait" \in WaitingOps
    BY DEF Op, WaitingOps
  <2> QED
    BY <2>1, <2>2, <2>3, <2>4, <1>e, ReturnKeeps, SleepKeeps
<1>11. CASE Iterator(p)
  <2>1. after(Place(p)) # Nil => after(Place(p)) \in Nat
    BY ListShape DEF Place, after, Front, Nil, ListInv, ListTyped
  <2>2. /\ \A q \in Procs \ {p} : cursor'[q] = cursor[q]
        /\ \/ after(Place(p)) # Nil /\ Return(p, "Iterator", "nil", after(Place(p)), {})
           \/ Return(p, "Iterator", "end", 0, {})
    BY <1>11 DEF Iterator, Yield
  <2> QED
    BY <2>1, <2>2, <1>e, ReturnKeeps DEF Op
<1>12. CASE Cancel(p)
  BY <1>12 DEF Cancel, CallInv, CallTypes, Placed
<1> QED
  BY <1>1, <1>2, <1>3, <1>4, <1>5, <1>6, <1>7, <1>8, <1>9, <1>10, <1>11, <1>12 DEF Step

LEMMA CallsPreserved == ASSUME Turn, [Next]_vars PROVE CallInv'
<1>1. CASE UNCHANGED vars
  BY <1>1 DEF vars, Turn, CallInv, CallTypes, Placed
<1>2. ASSUME NEW c \in Conds, WakeOnCancel(c) PROVE CallInv'
  <2>1. /\ at' = [q \in Procs |-> IF q \in Sleepers(c) THEN "woken" ELSE at[q]]
        /\ UNCHANGED op /\ UNCHANGED cancelled /\ UNCHANGED ret /\ UNCHANGED cursor
    BY <1>2 DEF WakeOnCancel
  <2> QED
    BY <2>1 DEF Sleepers, Turn, CallInv, CallTypes, Placed, Where
<1> QED
  BY <1>1, <1>2, StepKeepsCalls DEF Next

\* Cursors stay inside the list, and the other counters stay numbers.

LEMMA AfterTyped == ASSUME ListInv, NEW c \in 0..added PROVE after(c) \in {Nil} \cup 1..added
  BY ListShape DEF after, ListInv, ListTyped

LEMMA CursorPreserved ==
  ASSUME Turn, [Next]_vars PROVE cursor' \in [Procs -> {Nil} \cup 0..added']
<1>1. CASE cursor' = cursor
  <2>1. added' \in {added, added + 1} /\ added \in Nat
    BY ListEffects, ListShape DEF Turn, NoListStep, AddStep, Enqueue, PopStep, Dequeue
  <2> QED
    BY <1>1, <2>1 DEF Turn
<1>2. ASSUME NEW p \in Procs, IteratorWait(p) \/ Iterator(p)
      PROVE  cursor' \in [Procs -> {Nil} \cup 0..added']
  <2>1. added \in Nat /\ Place(p) \in 0..added /\ after(Place(p)) \in {Nil} \cup 1..added
    BY AfterTyped, ListShape DEF Turn, Place, Front, Nil
  <2>2. added' = added
    BY <1>2 DEF IteratorWait, Iterator, shared
  <2>3. \E x \in {Nil, Place(p), after(Place(p))} : cursor' = [cursor EXCEPT ![p] = x]
    BY <1>2 DEF IteratorWait, Iterator, Yield
  <2> QED
    BY <2>1, <2>2, <2>3 DEF Turn
<1>3. ASSUME NEW p \in Procs, Step(p), ~(IteratorWait(p) \/ Iterator(p)) PROVE cursor' = cursor
  BY <1>3 DEF Step, Push, WaitPush, Pop, WaitPop, IteratorCheck, IteratorPop, IteratorWaitPop,
              DrainEnter, DrainResume, Drained, Close, Cancel
<1>4. ASSUME NEW c \in Conds, WakeOnCancel(c) PROVE cursor' = cursor
  BY <1>4 DEF WakeOnCancel
<1>5. UNCHANGED vars => cursor' = cursor
  BY DEF vars
<1> QED
  BY <1>1, <1>2, <1>3, <1>4, <1>5 DEF Next

WakesTyped == wakes \in [Conds -> Nat]

LEMMA SpawnedTyped ==
  ASSUME WakesTyped, NEW c \in Conds
  PROVE  Spawned(c) \in [Conds -> Nat] /\ Spawned(c)[c] > 0
         /\ \A d \in Conds : Spawned(c)[d] >= wakes[d]
  BY DEF WakesTyped, Spawned

\* A step starts at most one cancel goroutine, and only WakeOnCancel ends one.
LEMMA WakesEffects ==
  ASSUME NEW p \in Procs, Step(p) PROVE wakes' = wakes \/ \E c \in Conds : wakes' = Spawned(c)
<1>1. \A o : CondOf(o) \in Conds
  BY DEF CondOf, Conds
<1>2. "nempty" \in Conds
  BY DEF Conds
<1>3. CASE Push(p) \/ Pop(p) \/ IteratorCheck(p) \/ IteratorPop(p) \/ Close(p) \/ Iterator(p)
  BY <1>3 DEF Push, Pop, IteratorCheck, IteratorPop, Close, Iterator
<1>4. CASE WaitPush(p) \/ WaitPop(p) \/ IteratorWait(p)
  BY <1>1, <1>4 DEF WaitPush, WaitPop, IteratorWait, Enters, Resumes
<1>5. CASE IteratorWaitPop(p)
  BY <1>2, <1>5 DEF IteratorWaitPop, Resumes
<1>6. CASE DrainEnter(p) \/ DrainResume(p)
  BY <1>2, <1>6 DEF DrainEnter, DrainResume, Drained
<1>7. CASE Cancel(p)
  BY <1>1, <1>7 DEF Cancel
<1> QED
  BY <1>3, <1>4, <1>5, <1>6, <1>7 DEF Step

LEMMA WakesPreserved == ASSUME WakesTyped, [Next]_vars PROVE WakesTyped'
<1>1. ASSUME NEW c \in Conds, WakeOnCancel(c) PROVE WakesTyped'
  BY <1>1 DEF WakeOnCancel, WakesTyped
<1>2. UNCHANGED vars => WakesTyped'
  BY DEF vars, WakesTyped
<1> QED
  BY <1>1, <1>2, WakesEffects, SpawnedTyped DEF Next, WakesTyped

LEMMA ClosedPreserved == ASSUME closed \in BOOLEAN, [Next]_vars PROVE closed' \in BOOLEAN
<1>1. ASSUME NEW p \in Procs, Step(p), ~DrainEnter(p), ~DrainResume(p), ~Close(p)
      PROVE  closed' = closed
  BY <1>1 DEF Step, Push, WaitPush, doAdd, Pop, PopNow, popFront, WaitPop, WaitPopTurn,
              IteratorCheck, IteratorPop, IteratorWaitPop, IteratorWait, Iterator, Cancel, shared
<1>2. ASSUME NEW p \in Procs, DrainEnter(p) \/ DrainResume(p) \/ Close(p)
      PROVE  closed' \in BOOLEAN
  BY <1>2 DEF DrainEnter, DrainResume, Drained, Close, shared
<1>3. ASSUME NEW c \in Conds, WakeOnCancel(c) PROVE closed' = closed
  BY <1>3 DEF WakeOnCancel, shared
<1>4. UNCHANGED vars => closed' = closed
  BY DEF vars
<1> QED
  BY <1>1, <1>2, <1>3, <1>4 DEF Next

----------------------------------------------------------------------------
\* The drainers.

\* Every step that is not a drain's leaves q.drainers alone, and whoever takes
\* it is not in a drain, before or after.
LEMMA NotADrain ==
  ASSUME Turn, NEW p \in Procs, Step(p), ~DrainEnter(p), ~DrainResume(p)
  PROVE  /\ drainers' = drainers
         /\ \/ op' = op
            \/ op[p] \notin DrainOps /\ \E o : o \notin DrainOps /\ op' = [op EXCEPT ![p] = o]
<1> USE DEF Return, Sleep, Stay
<1>1. "none" \notin DrainOps /\ "WaitPush" \notin DrainOps /\ "WaitPop" \notin DrainOps
      /\ "IteratorWait" \notin DrainOps /\ "IteratorWaitPop" \notin DrainOps
  BY DEF DrainOps
<1>2. Placed(p)
  BY DEF Turn, CallInv
<1>3. at[p] = "idle" => op[p] \notin DrainOps
  BY <1>1, <1>2 DEF Placed
<1>4. CASE Push(p)
  BY <1>1, <1>3, <1>4 DEF Push, Calls, doAdd, shared
<1>5. CASE WaitPush(p)
  BY <1>1, <1>3, <1>5 DEF WaitPush, Enters, Resumes, Calls, doAdd, shared
<1>6. CASE Pop(p)
  BY <1>1, <1>3, <1>6 DEF Pop, PopNow, popFront, Calls, shared
<1>7. ASSUME NEW o, o \notin DrainOps, NEW c, WaitPopTurn(p, o, c)
      PROVE  drainers' = drainers /\ \E x : x \notin DrainOps /\ op' = [op EXCEPT ![p] = x]
  BY <1>1, <1>7 DEF WaitPopTurn, popFront, shared
<1>8. CASE WaitPop(p)
  BY <1>1, <1>3, <1>7, <1>8 DEF WaitPop, Enters, Resumes, Calls
<1>9. CASE IteratorCheck(p)
  BY <1>1, <1>3, <1>9 DEF IteratorCheck, Calls, shared
<1>10. CASE IteratorPop(p)
  BY <1>1, <1>2, <1>10 DEF IteratorPop, PopNow, popFront, Placed, shared
<1>11. CASE IteratorWaitPop(p)
  BY <1>1, <1>2, <1>7, <1>11 DEF IteratorWaitPop, Resumes, Placed
<1>12. CASE Close(p)
  BY <1>1, <1>3, <1>12 DEF Close, Calls
<1>13. CASE IteratorWait(p)
  BY <1>1, <1>3, <1>13 DEF IteratorWait, Enters, Resumes, Calls, Yield, shared
<1>14. CASE Iterator(p)
  BY <1>1, <1>3, <1>14 DEF Iterator, Calls, Yield, shared
<1>15. CASE Cancel(p)
  BY <1>15 DEF Cancel, shared
<1> QED
  BY <1>4, <1>5, <1>6, <1>8, <1>9, <1>10, <1>11, <1>12, <1>13, <1>14, <1>15 DEF Step

\* A drain that starts to wait joins the drainers; one that waits on stays; one
\* that returns leaves.
LEMMA DrainSteps ==
  ASSUME Turn, NEW p \in Procs, DrainEnter(p) \/ DrainResume(p)
  PROVE  \/ p \notin Draining /\ Draining' = Draining /\ drainers' = drainers
         \/ p \notin Draining /\ Draining' = Draining \cup {p} /\ drainers' = drainers + 1
         \/ p \in Draining /\ Draining' = Draining /\ drainers' = drainers
         \/ p \in Draining /\ Draining' = Draining \ {p} /\ drainers' = drainers - 1
<1>0. op \in [Procs -> Op \cup {"none"}] /\ "none" \notin DrainOps /\ Placed(p)
  BY DEF Turn, CallInv, CallTypes, DrainOps
<1>1. ASSUME NEW o, op' = [op EXCEPT ![p] = o]
      PROVE  Draining' = IF o \in DrainOps THEN Draining \cup {p} ELSE Draining \ {p}
  BY <1>0, <1>1 DEF Draining
<1>2. CASE DrainEnter(p)
  <2>1. p \notin Draining
    BY <1>0, <1>2 DEF DrainEnter, Calls, Placed, Draining
  <2>2. \/ op' = [op EXCEPT ![p] = "none"] /\ drainers' = drainers
        \/ drainers' = drainers + 1 /\ \E o \in DrainOps : op' = [op EXCEPT ![p] = o]
    BY <1>2 DEF DrainEnter, Drained, Return, Sleep, Stay, shared
  <2> QED
    BY <1>0, <1>1, <2>1, <2>2
<1>3. CASE DrainResume(p)
  <2>1. p \in Draining
    BY <1>3 DEF DrainResume, Draining
  <2>2. \/ op' = [op EXCEPT ![p] = "none"] /\ drainers' = drainers - 1
        \/ drainers' = drainers /\ \E o \in DrainOps : op' = [op EXCEPT ![p] = o]
    BY <1>3 DEF DrainResume, Drained, Return, Sleep, Stay, shared
  <2> QED
    BY <1>0, <1>1, <2>1, <2>2
<1> QED
  BY <1>2, <1>3

LEMMA DrainersPreserved ==
  ASSUME Turn, DrainersCounted, [Next]_vars
  PROVE  DrainersCounted'
<1>0. IsFiniteSet(Draining)
  BY QueueAssumption, FS_Subset DEF Draining
<1>1. CASE Draining' = Draining /\ drainers' = drainers
  BY <1>1 DEF DrainersCounted
<1>2. ASSUME NEW p \in Procs, DrainEnter(p) \/ DrainResume(p) PROVE DrainersCounted'
  <2>1. CASE p \notin Draining /\ Draining' = Draining \cup {p} /\ drainers' = drainers + 1
    BY <1>0, <2>1, FS_AddElement DEF DrainersCounted
  <2>2. CASE p \in Draining /\ Draining' = Draining \ {p} /\ drainers' = drainers - 1
    BY <1>0, <2>2, FS_RemoveElement DEF DrainersCounted
  <2> QED
    BY <1>1, <1>2, <2>1, <2>2, DrainSteps
<1>3. ASSUME NEW p \in Procs, Step(p), ~DrainEnter(p), ~DrainResume(p) PROVE DrainersCounted'
  <2>1. op \in [Procs -> Op \cup {"none"}]
    BY DEF Turn, CallInv, CallTypes
  <2>2. Draining' = Draining /\ drainers' = drainers
    BY <1>3, <2>1, NotADrain DEF Draining
  <2> QED
    BY <1>1, <2>2
<1>4. (UNCHANGED vars \/ \E c \in Conds : WakeOnCancel(c))
        => Draining' = Draining /\ drainers' = drainers
  BY DEF vars, WakeOnCancel, shared, Draining
<1> QED
  BY <1>1, <1>2, <1>3, <1>4 DEF Next

----------------------------------------------------------------------------
\* The inductive invariant.

IInv == Turn /\ WakesTyped /\ closed \in BOOLEAN /\ DrainersCounted

LEMMA IInvInit == ASSUME Init PROVE IInv
<1>1. CallInv
  BY DEF Init, CallInv, CallTypes, Placed, Where, WaitingOps, Errors
<1>2. Draining = {}
  BY DEF Init, Draining, DrainOps
<1>3. DrainersCounted
  BY <1>2, FS_EmptySet DEF DrainersCounted, Init
<1> QED
  BY <1>1, <1>3, ListInit DEF Init, IInv, Turn, WakesTyped, Nil

LEMMA IInvPreserved == ASSUME IInv, [Next]_vars PROVE IInv'
  BY ListPreserved, CallsPreserved, CursorPreserved, WakesPreserved, ClosedPreserved,
     DrainersPreserved DEF IInv, Turn

\* The inductive invariant: list and tracker agree, and the counters with the goroutines.
THEOREM Invariant == Spec => []IInv
  BY IInvInit, IInvPreserved, PTL DEF Spec

\* Every variable of the queue keeps its type.
THEOREM TypeInvariant == Spec => []TypeOK
<1>1. IInv => TypeOK
  <2>1. ASSUME IInv PROVE drainers \in Nat
    <3>1. IsFiniteSet(Draining)
      BY QueueAssumption, FS_Subset DEF Draining
    <3> QED
      BY <2>1, <3>1, FS_CardinalityType DEF IInv, DrainersCounted
  <2> QED
    BY <2>1 DEF IInv, Turn, ListInv, CallInv, CallTypes, WakesTyped, TypeOK, CallsTyped
<1> QED
  BY <1>1, Invariant, PTL

\* q.drainers is the number of Drain and Shutdown calls that wait, for any
\* number of goroutines and whatever makes each call return.
THEOREM DrainersInvariant == Spec => []DrainersCounted
<1>1. IInv => DrainersCounted
  BY DEF IInv
<1> QED
  BY <1>1, Invariant, PTL

----------------------------------------------------------------------------
(***************************************************************************)
(* The queue loses no wakeup: whoever is asleep on a condition variable    *)
(* has nothing to do yet, or is about to be woken because its context has  *)
(* ended.                                                                  *)
(***************************************************************************)
Wakeful == IInv /\ NoLostWakeup

----------------------------------------------------------------------------
\* What ends a wait, condition by condition.

LEMMA WaitsOnUpdates ==
  ASSUME NEW q \in Procs, Placed(q), CondOf(op[q]) = "nupdates"
  PROVE  op[q] \in {"WaitPush", "IteratorWait"}
  BY DEF CondOf

LEMMA WaitsOnEmpty ==
  ASSUME NEW q \in Procs, Placed(q), at[q] = "asleep", CondOf(op[q]) # "nupdates"
  PROVE  op[q] \in {"WaitPop", "IteratorWaitPop", "Drain", "Shutdown"} /\ CondOf(op[q]) = "nempty"
  BY DEF CondOf, Placed, WaitingOps

LEMMA StillWaits ==
  ASSUME NEW q \in Procs, Placed(q), at[q] = "asleep", ~WaitOver(q),
         op'[q] = op[q], cursor'[q] = cursor[q], NoListStep, closed' = closed,
         drainers' = drainers \/ CondOf(op[q]) # "nupdates" \/ drainers > 0
  PROVE  ~WaitOver(q)'
<1>1. CASE op[q] = "WaitPush"
  BY <1>1 DEF WaitOver, NoListStep, CondOf
<1>2. CASE op[q] = "IteratorWait"
  BY <1>2 DEF WaitOver, NoListStep, after, First
<1>3. CASE op[q] \in {"WaitPop", "IteratorWaitPop", "Drain", "Shutdown"}
  BY <1>3 DEF WaitOver, NoListStep, DrainOps
<1> QED
  BY <1>1, <1>2, <1>3 DEF Placed, WaitingOps

LEMMA StillWaitsAfterPop ==
  ASSUME ListInv, NEW q \in Procs, Placed(q), at[q] = "asleep", ~WaitOver(q),
         op'[q] = op[q], PopStep, closed' = closed,
         q \notin PopWakes
  PROVE  ~WaitOver(q)'
<1>1. CondOf(op[q]) # "nupdates"
  BY DEF PopWakes, Sleepers
<1>2. op[q] \in {"WaitPop", "IteratorWaitPop", "Drain", "Shutdown"} /\ CondOf(op[q]) = "nempty"
  BY <1>1, WaitsOnEmpty
<1>3. tracker'.length # 0
  BY <1>2 DEF PopWakes, Sleepers, PopStep, Dequeue
<1>4. op[q] \in DrainOps
  BY <1>2 DEF WaitOver, PopStep, Poppable, DrainOps
<1> QED
  BY <1>3, <1>4 DEF WaitOver, DrainOps

----------------------------------------------------------------------------
\* Goroutines other than the one that takes the step.

\* p takes the step and the goroutines in W wake; nobody else's call changes.
Others(p, W) ==
  \A q \in Procs \ {p} :
    /\ op'[q] = op[q] /\ cursor'[q] = cursor[q] /\ (q \in cancelled' => q \in cancelled)
    /\ at'[q] = "asleep" => at[q] = "asleep" /\ q \notin W

NoWakeTaken == \A d \in Conds : wakes'[d] >= wakes[d]

LEMMA ReturnOthers ==
  ASSUME IInv, NEW p \in Procs, NEW o, NEW e, NEW i, NEW W, Return(p, o, e, i, W),
         \A q \in Procs \ {p} : cursor'[q] = cursor[q]
  PROVE  Others(p, W) /\ at'[p] # "asleep"
  BY DEF Return, Goes, Others, IInv, Turn, CallInv, CallTypes

LEMMA StayOthers ==
  ASSUME IInv, NEW p \in Procs, NEW o, NEW c, NEW s, NEW W, Stay(p, o, c, s, W),
         \A q \in Procs \ {p} : cursor'[q] = cursor[q]
  PROVE  Others(p, W) /\ at'[p] = s /\ op'[p] = o
  BY DEF Stay, Goes, Others, IInv, Turn, CallInv, CallTypes

LEMMA SleepOthers ==
  ASSUME IInv, NEW p \in Procs, NEW o, NEW W, Sleep(p, o, W),
         \A q \in Procs \ {p} : cursor'[q] = cursor[q]
  PROVE  Others(p, W) /\ op'[p] = o /\ p \notin cancelled'
  BY DEF Sleep, Stay, Goes, Others, IInv, Turn, CallInv, CallTypes

\* Everybody else who is still asleep may stay so: if nothing it waits for
\* happened, if all of its kind were woken, or after a pop that left items.
LEMMA OthersWait ==
  ASSUME Wakeful, [Next]_vars, NEW p \in Procs, NEW W, Others(p, W), NoWakeTaken,
         \/ Sleepers("nempty") \cup Sleepers("nupdates") \subseteq W
         \/ NoListStep /\ closed' = closed
            /\ (drainers' = drainers \/ drainers > 0 \/ Sleepers("nupdates") \subseteq W)
         \/ PopStep /\ closed' = closed /\ PopWakes \subseteq W
  PROVE  \A q \in Procs \ {p} : at'[q] = "asleep" => Waits(q)'
<1> SUFFICES ASSUME NEW q \in Procs \ {p}, at'[q] = "asleep" PROVE Waits(q)'
  OBVIOUS
<1>1. /\ at[q] = "asleep" /\ q \notin W /\ op'[q] = op[q] /\ cursor'[q] = cursor[q]
      /\ (q \in cancelled' => q \in cancelled) /\ Placed(q) /\ Waits(q)
  BY DEF Others, Wakeful, NoLostWakeup, IInv, Turn, CallInv
<1>2. q \in Sleepers("nempty") \cup Sleepers("nupdates")
  BY <1>1, WaitsOnEmpty DEF Sleepers
<1>3. CondOf(op[q]) \in Conds /\ (CondOf(op[q]) = "nupdates" => q \in Sleepers("nupdates"))
  BY <1>1 DEF CondOf, Conds, Sleepers
<1>4. ~WaitOver(q)'
  <2>1. CASE NoListStep /\ closed' = closed
              /\ (drainers' = drainers \/ drainers > 0 \/ Sleepers("nupdates") \subseteq W)
    BY <1>1, <1>3, <2>1, StillWaits DEF Waits
  <2>2. CASE PopStep /\ closed' = closed /\ PopWakes \subseteq W
    BY <1>1, <2>2, StillWaitsAfterPop DEF Waits, Wakeful, IInv, Turn
  <2> QED
    BY <1>1, <1>2, <2>1, <2>2
<1>5. q \in cancelled' => wakes'[CondOf(op'[q])] > 0
  <2> DEFINE d == CondOf(op[q])
  <2>1. CondOf(op'[q]) = d
    BY <1>1
  <2>2. q \in cancelled => wakes[d] > 0
    BY <1>1 DEF Waits
  <2>3. wakes'[d] >= wakes[d] /\ wakes[d] \in Nat /\ wakes'[d] \in Nat
    BY <1>3, WakesPreserved DEF NoWakeTaken, Wakeful, IInv, WakesTyped
  <2> HIDE DEF d
  <2> QED
    BY <1>1, <2>1, <2>2, <2>3
<1> QED
  BY <1>4, <1>5 DEF Waits

\* A step in which p ends up awake keeps the invariant if it lets the others wait.
LEMMA AwakeStep ==
  ASSUME Wakeful, [Next]_vars, NEW p \in Procs, NEW W, Others(p, W), NoWakeTaken, at'[p] # "asleep",
         \/ Sleepers("nempty") \cup Sleepers("nupdates") \subseteq W
         \/ NoListStep /\ closed' = closed
            /\ (drainers' = drainers \/ drainers > 0 \/ Sleepers("nupdates") \subseteq W)
         \/ PopStep /\ closed' = closed /\ PopWakes \subseteq W
  PROVE  NoLostWakeup'
  BY OthersWait DEF NoLostWakeup

LEMMA AsleepStep ==
  ASSUME Wakeful, [Next]_vars, NEW p \in Procs, NEW o, NEW W, Sleep(p, o, W), NoWakeTaken,
         \A q \in Procs \ {p} : cursor'[q] = cursor[q],
         NoListStep, closed' = closed,
         drainers' = drainers \/ Sleepers("nupdates") \subseteq W,
         ~WaitOver(p)'
  PROVE  NoLostWakeup'
<1>1. Others(p, W) /\ p \notin cancelled'
  BY SleepOthers DEF Wakeful
<1>2. \A q \in Procs \ {p} : at'[q] = "asleep" => Waits(q)'
  BY <1>1, OthersWait
<1>3. Waits(p)'
  BY <1>1 DEF Waits
<1> QED
  BY <1>2, <1>3 DEF NoLostWakeup

LEMMA WakesKept ==
  ASSUME WakesTyped, wakes' = wakes \/ \E c \in Conds : wakes' = Spawned(c) PROVE NoWakeTaken
  BY SpawnedTyped DEF NoWakeTaken, WakesTyped

----------------------------------------------------------------------------
\* Each kind of step.

LEMMA AddWakes ==
  ASSUME Wakeful, [Next]_vars, NEW p \in Procs, NEW o, doAdd(p, o), UNCHANGED cursor, NoWakeTaken
  PROVE  NoLostWakeup'
<1>1. CASE Return(p, o, AddOutcome, 0, {}) /\ UNCHANGED shared
  <2>1. NoListStep /\ closed' = closed /\ drainers' = drainers
    BY <1>1 DEF shared, NoListStep
  <2> QED
    BY <1>1, <2>1, ReturnOthers, AwakeStep DEF Wakeful
<1>2. CASE Return(p, o, "nil", added + 1, Sleepers("nempty") \cup Sleepers("nupdates"))
  BY <1>2, ReturnOthers, AwakeStep DEF Wakeful
<1> QED
  BY <1>1, <1>2 DEF doAdd

LEMMA PopWakesAll ==
  ASSUME Wakeful, [Next]_vars, NEW p \in Procs, NEW o, NEW W, Poppable, popFront(p, o, W),
         UNCHANGED cursor, NoWakeTaken
  PROVE  NoLostWakeup'
<1>1. PopStep /\ closed' = closed /\ PopWakes \subseteq PopWakes \cup W
  BY DEF popFront, PopStep
<1>2. Return(p, o, "nil", First, PopWakes \cup W)
  BY DEF popFront
<1> QED
  BY <1>1, <1>2, ReturnOthers, AwakeStep DEF Wakeful

LEMMA PlainReturn ==
  ASSUME Wakeful, [Next]_vars, NEW p \in Procs, NEW o, NEW e, NEW i, Return(p, o, e, i, {}),
         UNCHANGED shared, \A q \in Procs \ {p} : cursor'[q] = cursor[q], NoWakeTaken
  PROVE  NoLostWakeup'
<1>1. NoListStep /\ closed' = closed /\ drainers' = drainers
  BY DEF shared, NoListStep
<1> QED
  BY <1>1, ReturnOthers, AwakeStep DEF Wakeful

LEMMA PlainSleep ==
  ASSUME Wakeful, [Next]_vars, NEW p \in Procs, NEW o, Sleep(p, o, {}), UNCHANGED shared,
         \A q \in Procs \ {p} : cursor'[q] = cursor[q], NoWakeTaken, ~WaitOver(p)'
  PROVE  NoLostWakeup'
<1>1. NoListStep /\ closed' = closed /\ drainers' = drainers
  BY DEF shared, NoListStep
<1> QED
  BY <1>1, AsleepStep

LEMMA WaitPopWakes ==
  ASSUME Wakeful, [Next]_vars, NEW p \in Procs, NEW o \in {"WaitPop", "IteratorWaitPop"}, NEW c,
         WaitPopTurn(p, o, c), UNCHANGED cursor, NoWakeTaken
  PROVE  NoLostWakeup'
<1>1. CASE UNCHANGED shared /\ \E e \in Errors : Return(p, o, e, 0, {})
  BY <1>1, PlainReturn
<1>2. CASE ~closed /\ tracker.length > 0 /\ popFront(p, o, {})
  BY <1>2, PopWakesAll DEF Poppable
<1>3. CASE ~closed /\ tracker.length <= 0 /\ Sleep(p, o, {}) /\ UNCHANGED shared
  <2>1. op'[p] = o /\ closed' = closed /\ tracker' = tracker
    BY <1>3, SleepOthers DEF Wakeful, shared
  <2>2. tracker.length \in Nat
    BY ListShape DEF Wakeful, IInv, Turn
  <2>3. ~WaitOver(p)'
    BY <1>3, <2>1, <2>2 DEF WaitOver, DrainOps
  <2> QED
    BY <1>3, <2>3, PlainSleep
<1> QED
  BY <1>1, <1>2, <1>3 DEF WaitPopTurn, Errors

LEMMA DrainedWakes ==
  ASSUME Wakeful, [Next]_vars, NEW p \in Procs, NEW o, NEW e, NEW n, NEW c, NEW W,
         Drained(p, o, e, n, c, W), n = drainers \/ drainers > 0
  PROVE  NoLostWakeup'
<1> DEFINE V == W \cup (IF o = "Shutdown" /\ e = "nil"
                        THEN Sleepers("nempty") \cup Sleepers("nupdates") ELSE {})
<1>1. Return(p, o, e, 0, V) /\ UNCHANGED cursor /\ drainers' = n /\ NoListStep
  BY DEF Drained, NoListStep, list
<1>2. NoWakeTaken
  <2>1. "nempty" \in Conds
    BY DEF Conds
  <2>2. wakes' = wakes \/ wakes' = Spawned("nempty")
    BY DEF Drained
  <2> QED
    BY <2>1, <2>2, WakesKept DEF Wakeful, IInv
<1>3. closed' = closed \/ Sleepers("nempty") \cup Sleepers("nupdates") \subseteq V
  BY DEF Drained, Wakeful, IInv
<1> HIDE DEF V
<1> QED
  BY <1>1, <1>2, <1>3, ReturnOthers, AwakeStep DEF Wakeful

LEMMA StepKeepsWakeups ==
  ASSUME Wakeful, [Next]_vars, NEW p \in Procs, Step(p) PROVE NoLostWakeup'
<1>0. NoWakeTaken
  BY WakesEffects, WakesKept DEF Wakeful, IInv
<1>1. CASE Push(p)
  BY <1>0, <1>1, AddWakes DEF Push
<1>2. CASE WaitPush(p)
  <2>1. CASE UNCHANGED shared /\ \E e \in Errors : Return(p, "WaitPush", e, 0, {})
    BY <1>0, <1>2, <2>1, PlainReturn DEF WaitPush
  <2>2. CASE doAdd(p, "WaitPush")
    BY <1>0, <1>2, <2>2, AddWakes DEF WaitPush
  <2>3. CASE /\ drainers = 0 /\ ~closed /\ Capacity(tracker) <= tracker.length
             /\ Sleep(p, "WaitPush", {}) /\ UNCHANGED shared
    <3>1. op'[p] = "WaitPush" /\ closed' = closed /\ tracker' = tracker /\ drainers' = drainers
          /\ cursor' = cursor
      BY <1>2, <2>3, SleepOthers DEF Wakeful, shared, WaitPush
    <3>2. ~(Capacity(tracker) > tracker.length)
      <4>1. tracker.length \in Nat /\ Capacity(tracker) \in Nat
        BY LimitsAssumption DEF Wakeful, IInv, Turn, ListInv, ListTyped, Tracker, Kinds, Capacity
      <4> QED
        BY <2>3, <4>1
    <3>3. ~WaitOver(p)'
      BY <2>3, <3>1, <3>2 DEF WaitOver, DrainOps
    <3> QED
      BY <1>0, <2>3, <3>1, <3>3, PlainSleep
  <2> QED
    BY <1>2, <2>1, <2>2, <2>3 DEF WaitPush, Errors
<1>3. CASE Pop(p)
  <2>1. CASE Return(p, "Pop", "end", 0, {}) /\ UNCHANGED shared
    BY <1>0, <1>3, <2>1, PlainReturn DEF Pop
  <2> QED
    BY <1>0, <1>3, <2>1, PopWakesAll DEF Pop, PopNow
<1>4. CASE WaitPop(p)
  BY <1>0, <1>4, WaitPopWakes DEF WaitPop
<1>5. ASSUME NEW o, NEW c, NEW s \in {"checked", "empty"}, Stay(p, o, c, s, {}),
             UNCHANGED shared, UNCHANGED cursor
      PROVE  NoLostWakeup'
  <2>1. NoListStep /\ closed' = closed /\ drainers' = drainers
    BY <1>5 DEF shared, NoListStep
  <2> QED
    BY <1>0, <1>5, <2>1, StayOthers, AwakeStep DEF Wakeful
<1>6. CASE IteratorCheck(p)
  <2>1. CASE Return(p, "IteratorWaitPop", "ctx", 0, {})
    BY <1>0, <1>6, <2>1, PlainReturn DEF IteratorCheck
  <2> QED
    BY <1>5, <1>6, <2>1 DEF IteratorCheck
<1>7. CASE IteratorPop(p)
  <2>1. CASE PopNow(p, op[p])
    BY <1>0, <1>7, <2>1, PopWakesAll DEF IteratorPop, PopNow
  <2> QED
    BY <1>5, <1>7, <2>1 DEF IteratorPop
<1>8. CASE IteratorWaitPop(p)
  <2>1. CASE at[p] = "empty" /\ WaitPopTurn(p, op[p], p \in cancelled) /\ UNCHANGED cursor
    <3>1. op[p] = "IteratorWaitPop"
      BY <2>1 DEF Wakeful, IInv, Turn, CallInv, Placed
    <3> QED
      BY <1>0, <2>1, <3>1, WaitPopWakes
  <2> QED
    BY <1>0, <1>8, <2>1, WaitPopWakes DEF IteratorWaitPop
<1>9. CASE DrainEnter(p)
  <2>1. CASE UNCHANGED <<shared, cursor, wakes>> /\ \E o, e : Return(p, o, e, 0, {})
    BY <1>0, <2>1, PlainReturn
  <2>2. CASE \E o : Drained(p, o, "nil", drainers, FALSE, Sleepers("nupdates"))
    BY <2>2, DrainedWakes
  <2>3. CASE \E o \in DrainOps :
               /\ ~closed /\ tracker.length > 0 /\ Sleep(p, o, Sleepers("nupdates"))
               /\ UNCHANGED <<tracker, closed, list, cursor, wakes>>
    <3>1. PICK o \in DrainOps :
             /\ ~closed /\ tracker.length > 0 /\ Sleep(p, o, Sleepers("nupdates"))
             /\ UNCHANGED <<tracker, closed, list, cursor, wakes>>
      BY <2>3
    <3>2. NoListStep /\ closed' = closed /\ tracker' = tracker /\ op'[p] = o /\ cursor' = cursor
      BY <3>1, SleepOthers DEF NoListStep, list, Wakeful
    <3>3. ~WaitOver(p)'
      <4>1. tracker.length # 0
        BY <3>1
      <4> QED
        BY <3>1, <3>2, <4>1 DEF WaitOver, DrainOps
    <3> QED
      BY <1>0, <3>1, <3>2, <3>3, AsleepStep
  <2> QED
    BY <1>9, <2>1, <2>2, <2>3 DEF DrainEnter
<1>10. CASE DrainResume(p)
  <2>1. drainers > 0
    <3>1. p \in Draining /\ IsFiniteSet(Draining)
      BY <1>10, QueueAssumption, FS_Subset DEF DrainResume, Draining
    <3>2. Cardinality(Draining) # 0 /\ Cardinality(Draining) \in Nat
      BY <3>1, FS_EmptySet, FS_CardinalityType
    <3> QED
      BY <3>2 DEF Wakeful, IInv, DrainersCounted
  <2>2. CASE \E o, e, c : Drained(p, o, e, drainers - 1, c, {})
    BY <2>1, <2>2, DrainedWakes
  <2>3. CASE \E o \in DrainOps : /\ tracker.length > 0 /\ ~closed /\ Sleep(p, o, {})
                               /\ UNCHANGED <<shared, cursor, wakes>>
    <3>1. PICK o \in DrainOps : /\ tracker.length > 0 /\ ~closed /\ Sleep(p, o, {})
                               /\ UNCHANGED <<shared, cursor, wakes>>
      BY <2>3
    <3>2. closed' = closed /\ tracker' = tracker /\ op'[p] = o /\ cursor' = cursor
      BY <3>1, SleepOthers DEF shared, Wakeful
    <3>3. ~WaitOver(p)'
      <4>1. tracker.length # 0
        BY <3>1
      <4> QED
        BY <3>1, <3>2, <4>1 DEF WaitOver, DrainOps
    <3> QED
      BY <1>0, <3>1, <3>2, <3>3, PlainSleep
  <2> QED
    BY <1>10, <2>2, <2>3 DEF DrainResume
<1>11. CASE Close(p)
  BY <1>0, <1>11, ReturnOthers, AwakeStep DEF Close, Wakeful
<1>12. CASE IteratorWait(p)
  <2>1. \A q \in Procs \ {p} : cursor'[q] = cursor[q]
    BY <1>12 DEF IteratorWait, Yield, Wakeful, IInv, Turn
  <2>2. CASE UNCHANGED shared /\ \E e, i : Return(p, "IteratorWait", e, i, {})
    BY <1>0, <2>1, <2>2, PlainReturn
  <2>3. CASE /\ ~closed /\ after(Place(p)) = Nil /\ cursor' = [cursor EXCEPT ![p] = Place(p)]
             /\ Sleep(p, "IteratorWait", {}) /\ UNCHANGED shared
    <3>1. /\ op'[p] = "IteratorWait" /\ cursor'[p] = Place(p) /\ closed' = closed
          /\ link' = link /\ popped' = popped
      BY <2>1, <2>3, SleepOthers DEF Wakeful, IInv, Turn, shared
    <3>2. ~WaitOver(p)'
      BY <2>3, <3>1 DEF WaitOver, DrainOps, after, First
    <3> QED
      BY <1>0, <2>1, <2>3, <3>2, PlainSleep
  <2> QED
    BY <1>12, <2>2, <2>3 DEF IteratorWait, Yield
<1>13. CASE Iterator(p)
  <2>1. \A q \in Procs \ {p} : cursor'[q] = cursor[q]
    BY <1>13 DEF Iterator, Yield, Wakeful, IInv, Turn
  <2> QED
    BY <1>0, <1>13, <2>1, PlainReturn DEF Iterator, Yield
<1>14. CASE Cancel(p)
  <2>1. NoListStep /\ closed' = closed /\ drainers' = drainers /\ op' = op /\ at' = at
        /\ cursor' = cursor /\ cancelled' = cancelled \cup {p}
    BY <1>14 DEF Cancel, shared, NoListStep
  <2>2. \A q \in Procs \ {p} : at'[q] = "asleep" => Waits(q)'
    BY <1>0, <2>1, OthersWait DEF Others
  <2>3. ASSUME at[p] = "asleep" PROVE Waits(p)'
    <3>1. ~WaitOver(p) /\ Placed(p) /\ CondOf(op[p]) \in Conds
      BY <2>3 DEF Wakeful, NoLostWakeup, Waits, IInv, Turn, CallInv, CondOf, Conds
    <3>2. ~WaitOver(p)'
      BY <2>1, <2>3, <3>1, StillWaits
    <3>3. wakes'[CondOf(op[p])] > 0
      BY <1>14, <2>3, <3>1, SpawnedTyped DEF Cancel, Wakeful, IInv
    <3> QED
      BY <2>1, <3>2, <3>3 DEF Waits
  <2> QED
    BY <2>1, <2>2, <2>3 DEF NoLostWakeup
<1> QED
  BY <1>1, <1>2, <1>3, <1>4, <1>6, <1>7, <1>8, <1>9, <1>10, <1>11, <1>12, <1>13, <1>14 DEF Step

LEMMA WakeupsPreserved == ASSUME Wakeful, [Next]_vars PROVE NoLostWakeup'
<1>1. CASE UNCHANGED vars
  <2>1. \A p \in Procs : at'[p] = at[p] /\ Waits(p)' = Waits(p)
    BY <1>1 DEF vars, Waits, WaitOver, after, First
  <2> QED
    BY <2>1 DEF Wakeful, NoLostWakeup
<1>2. ASSUME NEW c \in Conds, WakeOnCancel(c) PROVE NoLostWakeup'
  <2> SUFFICES ASSUME NEW q \in Procs, at'[q] = "asleep" PROVE Waits(q)'
    BY DEF NoLostWakeup
  <2>1. /\ NoListStep /\ closed' = closed /\ drainers' = drainers /\ op' = op /\ cursor' = cursor
        /\ cancelled' = cancelled /\ wakes' = [wakes EXCEPT ![c] = @ - 1]
    BY <1>2 DEF WakeOnCancel, shared, NoListStep
  <2>2. at[q] = "asleep" /\ q \notin Sleepers(c)
    BY <1>2 DEF WakeOnCancel
  <2>3. Waits(q) /\ Placed(q) /\ CondOf(op[q]) # c
    BY <2>2 DEF Wakeful, NoLostWakeup, IInv, Turn, CallInv, Sleepers
  <2>4. ~WaitOver(q)'
    BY <2>1, <2>2, <2>3, StillWaits DEF Waits
  <2>5. wakes'[CondOf(op[q])] = wakes[CondOf(op[q])]
    BY <2>1, <2>3 DEF CondOf, Conds, Wakeful, IInv, WakesTyped
  <2> QED
    BY <2>1, <2>3, <2>4, <2>5 DEF Waits
<1> QED
  BY <1>1, <1>2, StepKeepsWakeups DEF Next

\* No wakeup is lost: in every reachable state a goroutine asleep on nempty or
\* nupdates has nothing to do, or its context has ended and the goroutine that
\* will broadcast is on its way.
THEOREM NoLostWakeupInvariant == Spec => []NoLostWakeup
<1>1. Init => Wakeful
  <2>1. Init => NoLostWakeup
    BY DEF Init, NoLostWakeup
  <2> QED
    BY <2>1, IInvInit DEF Wakeful
<1>2. Wakeful /\ [Next]_vars => Wakeful'
  BY IInvPreserved, WakeupsPreserved DEF Wakeful
<1>3. Wakeful => NoLostWakeup
  BY DEF Wakeful
<1> QED
  BY <1>1, <1>2, <1>3, PTL DEF Spec

----------------------------------------------------------------------------
\* Nothing gets in while a drain is in progress, for any number of drains.
THEOREM NoAddDuringDrain == Spec => NoAddWhileDraining
<1>1. IInv /\ [Next]_vars => [drainers > 0 => tracker'.length <= tracker.length]_vars
  <2> SUFFICES ASSUME IInv, [Next]_vars, drainers > 0 PROVE tracker'.length <= tracker.length
    OBVIOUS
  <2>1. tracker.length \in Nat
    BY ListShape DEF IInv, Turn
  <2>2. CASE NoListStep
    BY <2>1, <2>2 DEF NoListStep
  <2>3. CASE AddStep
    BY <2>3 DEF AddStep, AddOutcome
  <2>4. CASE PopStep
    BY <2>1, <2>4, DequeueKeepsList DEF IInv, Turn
  <2> QED
    BY <2>2, <2>3, <2>4, ListEffects
<1> QED
  BY <1>1, Invariant, PTL DEF Spec, NoAddWhileDraining

----------------------------------------------------------------------------
\* The iterators.

LEMMA AfterIsNext ==
  ASSUME ListInv, NEW c \in 0..added, after(c) # Nil
  PROVE  after(c) \in Live /\ c < after(c) /\ \A e \in Live : c < e => after(c) <= e
<1>0. /\ added \in Nat /\ First \in {Nil} \cup 1..added /\ popped \subseteq 1..added
      /\ link \in [0..added -> {Nil} \cup 1..added]
      /\ First = Nil => Live = {}
      /\ First # Nil => Live = First..added
      /\ \A e \in 1..added : link[e] = IF e \in Live /\ e < added THEN e + 1 ELSE Nil
  BY ListShape DEF ListInv, ListIntact, ListTyped
<1>1. CASE c = Front \/ c \in popped
  <2>1. after(c) = First /\ First # Nil /\ c \notin Live
    BY <1>0, <1>1 DEF after, First, Live, Front
  <2> QED
    BY <1>0, <2>1
<1>2. CASE c # Front /\ c \notin popped
  <2>1. c \in Live /\ after(c) = link[c]
    BY <1>0, <1>2 DEF after, Live, Front
  <2>2. c < added /\ after(c) = c + 1
    BY <1>0, <1>2, <2>1 DEF Front
  <2> QED
    BY <1>0, <1>2, <2>1, <2>2 DEF Front, Nil
<1> QED
  BY <1>1, <1>2

\* An iterator never repeats an entry, never goes back and never skips an entry
\* that is still queued, whoever pops entries under it.
THEOREM IteratorOrder == Spec => IteratorsInOrder
<1> DEFINE Moves(p) == cursor'[p] # cursor[p] =>
                         cursor'[p] \in {Nil, Front} \/ Follows(cursor[p], cursor'[p])
<1>1. IInv /\ [Next]_vars => [\A p \in Procs : Moves(p)]_vars
  <2> SUFFICES ASSUME IInv, [Next]_vars PROVE \A p \in Procs : Moves(p)
    OBVIOUS
  <2>0. ListInv /\ cursor \in [Procs -> {Nil} \cup 0..added] /\ added \in Nat
    BY ListShape DEF IInv, Turn
  <2>1. ASSUME NEW q \in Procs, IteratorWait(q) \/ Iterator(q) PROVE \A p \in Procs : Moves(p)
    <3>1. Place(q) \in 0..added /\ (cursor[q] = Nil => Place(q) = Front)
          /\ (cursor[q] # Nil => Place(q) = cursor[q])
      BY <2>0 DEF Place, Front, Nil
    <3>2. Live' = Live /\ added' = added
      BY <2>1 DEF IteratorWait, Iterator, shared, Live
    <3>3. \A p \in Procs \ {q} : cursor'[p] = cursor[p]
      BY <2>0, <2>1 DEF IteratorWait, Iterator, Yield
    <3>4. CASE cursor'[q] \in {Nil, Place(q)}
      BY <3>1, <3>3, <3>4
    <3>5. CASE after(Place(q)) # Nil /\ cursor'[q] = after(Place(q))
      <4>1. /\ after(Place(q)) \in Live' /\ Place(q) < after(Place(q))
            /\ \A e \in Live' : Place(q) < e => after(Place(q)) <= e
        BY <2>0, <3>1, <3>2, <3>5, AfterIsNext
      <4>2. cursor[q] <= Place(q) /\ \A e \in Live' : cursor[q] < e => Place(q) < e
        BY <2>0, <3>1, <3>2 DEF Nil, Front, Live
      <4>3. Follows(cursor[q], cursor'[q])
        BY <2>0, <3>1, <3>2, <3>5, <4>1, <4>2 DEF Follows, Nil, Live
      <4> QED
        BY <3>3, <4>3
    <3> QED
      BY <2>0, <2>1, <3>4, <3>5 DEF IteratorWait, Iterator, Yield
  <2>2. ASSUME NEW q \in Procs, Step(q), ~IteratorWait(q), ~Iterator(q) PROVE cursor' = cursor
    BY <2>2 DEF Step, Push, WaitPush, Pop, WaitPop, IteratorCheck, IteratorPop, IteratorWaitPop,
                DrainEnter, DrainResume, Drained, Close, Cancel
  <2>3. (UNCHANGED vars \/ \E c \in Conds : WakeOnCancel(c)) => cursor' = cursor
    BY DEF vars, WakeOnCancel
  <2> QED
    BY <2>1, <2>2, <2>3 DEF Next
<1> QED
  BY <1>1, Invariant, PTL DEF Spec, IteratorsInOrder

----------------------------------------------------------------------------
\* WaitPush and capacity.

LEMMA OtherReturns ==
  ASSUME NEW p \in Procs, Step(p), ~WaitPush(p), IInv
  PROVE  ret' = ret \/ ret'.op # "WaitPush"
<1> USE DEF Return, Sleep, Stay
<1>1. CASE Push(p)
  BY <1>1 DEF Push, doAdd
<1>2. CASE Pop(p)
  <2>1. CASE PopNow(p, "Pop")
    BY <2>1 DEF PopNow, popFront
  <2>2. CASE Return(p, "Pop", "end", 0, {})
    BY <2>2
  <2> QED
    BY <1>2, <2>1, <2>2 DEF Pop
<1>11. CASE Close(p)
  BY <1>11 DEF Close
<1>9. CASE IteratorWait(p) \/ Iterator(p)
  BY <1>9 DEF IteratorWait, Iterator, Yield
<1>10. CASE IteratorCheck(p) \/ Cancel(p)
  BY <1>10 DEF IteratorCheck, Cancel
<1>3. ASSUME NEW o, o # "WaitPush", NEW c, WaitPopTurn(p, o, c)
      PROVE  ret' = ret \/ ret'.op # "WaitPush"
  BY <1>3 DEF WaitPopTurn, popFront
<1>4. CASE WaitPop(p)
  BY <1>3, <1>4 DEF WaitPop
<1>5. at[p] \in {"checked", "empty"} => op[p] # "WaitPush"
  BY DEF IInv, Turn, CallInv, Placed
<1>6. CASE IteratorPop(p)
  <2>1. CASE PopNow(p, op[p])
    BY <1>5, <1>6, <2>1 DEF IteratorPop, PopNow, popFront
  <2>2. CASE Stay(p, op[p], p \in cancelled, "empty", {})
    BY <2>2
  <2> QED
    BY <1>6, <2>1, <2>2 DEF IteratorPop
<1>7. CASE IteratorWaitPop(p)
  BY <1>3, <1>5, <1>7 DEF IteratorWaitPop
<1>8. CASE DrainEnter(p) \/ DrainResume(p)
  BY <1>8 DEF DrainEnter, DrainResume, Drained, DrainOps
<1> QED
  BY <1>1, <1>2, <1>4, <1>6, <1>7, <1>8, <1>9, <1>10, <1>11 DEF Step

\* WaitPush never reports a lack of capacity: room under the soft quota, which
\* is what it waits for, is room for the add.
THEOREM WaitPushCapacity == Spec => []WaitPushNeverFull
<1>1. Init => WaitPushNeverFull
  BY DEF Init, WaitPushNeverFull
<1>2. IInv /\ WaitPushNeverFull /\ [Next]_vars => WaitPushNeverFull'
  <2> SUFFICES ASSUME IInv, WaitPushNeverFull, [Next]_vars PROVE WaitPushNeverFull'
    OBVIOUS
  <2>1. ASSUME NEW p \in Procs, WaitPush(p) PROVE WaitPushNeverFull'
    <3>1. CASE ret' = ret
      BY <3>1 DEF WaitPushNeverFull
    <3>2. ASSUME NEW e, NEW i, NEW W, Return(p, "WaitPush", e, i, W),
                 e \notin {"ErrQueueFull", "ErrQueueNoCredit"}
          PROVE  WaitPushNeverFull'
      BY <3>2 DEF WaitPushNeverFull, Return
    <3>3. CASE /\ drainers = 0 /\ ~closed /\ Capacity(tracker) > tracker.length
               /\ doAdd(p, "WaitPush")
      <4>1. AddOutcome = "nil"
        BY <3>3, RoomMeansAdd DEF AddOutcome, IInv, Turn, ListInv, ListTyped
      <4> QED
        BY <3>2, <3>3, <4>1 DEF doAdd
    <3>4. Sleep(p, "WaitPush", {}) => ret' = ret
      BY DEF Sleep, Stay
    <3> QED
      BY <2>1, <3>1, <3>2, <3>3, <3>4 DEF WaitPush
  <2>2. (UNCHANGED vars \/ \E c \in Conds : WakeOnCancel(c)) => ret' = ret
    BY DEF vars, WakeOnCancel
  <2> QED
    BY <2>1, <2>2, OtherReturns DEF Next, WaitPushNeverFull
<1> QED
  BY <1>1, <1>2, Invariant, PTL DEF Spec

----------------------------------------------------------------------------
\* The sequence the list stands for: a run of consecutive numbers.

Run(f, n) == [i \in 1..n |-> f + i - 1]

LEMMA RunSeq ==
  ASSUME NEW f \in Nat, NEW n \in Nat
  PROVE  /\ Run(f, n) \in Seq(Nat) /\ Len(Run(f, n)) = n
         /\ \A i \in 1..n : Run(f, n)[i] = f + i - 1
  BY DEF Run

LEMMA RunEmpty == ASSUME NEW f PROVE Run(f, 0) = <<>>
  BY DEF Run

LEMMA RunAppend ==
  ASSUME NEW f \in Nat, NEW n \in Nat PROVE Append(Run(f, n), f + n) = Run(f, n + 1)
<1> DEFINE s == Run(f, n)
           t == Append(s, f + n)
           u == Run(f, n + 1)
<1>1. s \in Seq(Nat) /\ Len(s) = n /\ (\A i \in 1..n : s[i] = f + i - 1) /\ f + n \in Nat
  BY RunSeq
<1>2. u \in Seq(Nat) /\ Len(u) = n + 1 /\ \A i \in 1..(n + 1) : u[i] = f + i - 1
  BY RunSeq
<1> HIDE DEF s, u
<1>3. /\ t \in Seq(Nat) /\ Len(t) = n + 1
      /\ \A i \in 1..(n + 1) : t[i] = IF i <= n THEN s[i] ELSE f + n
  BY <1>1, AppendProperties
<1>4. \A i \in 1..(n + 1) : t[i] = u[i]
  BY <1>1, <1>2, <1>3
<1> HIDE DEF t
<1>5. t = u
  BY <1>2, <1>3, <1>4, SeqEqual
<1> QED
  BY <1>5 DEF t, s, u

LEMMA RunTail ==
  ASSUME NEW f \in Nat, NEW n \in Nat, n > 0
  PROVE  Run(f, n) # <<>> /\ Head(Run(f, n)) = f /\ Tail(Run(f, n)) = Run(f + 1, n - 1)
<1> DEFINE s == Run(f, n)
           t == Tail(s)
           u == Run(f + 1, n - 1)
<1>1. s \in Seq(Nat) /\ Len(s) = n /\ \A i \in 1..n : s[i] = f + i - 1
  BY RunSeq
<1>2. u \in Seq(Nat) /\ Len(u) = n - 1 /\ \A i \in 1..(n - 1) : u[i] = f + i
  BY RunSeq
<1> HIDE DEF s, u
<1>3. s # <<>> /\ Head(s) = f
  BY <1>1
<1>4. t \in Seq(Nat) /\ Len(t) = n - 1 /\ \A i \in 1..(n - 1) : t[i] = s[i + 1]
  BY <1>1, <1>3, HeadTailProperties
<1>5. \A i \in 1..(n - 1) : t[i] = u[i]
  BY <1>1, <1>2, <1>4
<1> HIDE DEF t
<1>6. t = u
  BY <1>2, <1>4, <1>5, SeqEqual
<1> QED
  BY <1>3, <1>6 DEF t, s, u

LEMMA ContentsRun == Contents = Run(First, tracker.length)
  BY DEF Contents, Run

LEMMA ContentsRunNext == Contents' = Run(First', tracker'.length)
  BY DEF Contents, Run

LEMMA ContentsPut == ASSUME ListInv, AddStep PROVE Contents' = Append(Contents, added + 1)
<1>1. /\ tracker'.length = tracker.length + 1
      /\ First' = IF First = Nil THEN added + 1 ELSE First
  BY EnqueueKeepsList
<1>2. /\ added \in Nat /\ tracker.length \in Nat /\ First \in {Nil} \cup 1..added
      /\ First = Nil => tracker.length = 0
      /\ First # Nil => tracker.length = added - First + 1
  BY ListShape DEF ListInv, ListIntact
<1>3. Contents = Run(First', tracker.length)
  BY <1>1, <1>2, ContentsRun, RunEmpty
<1>4. First' \in Nat /\ First' + tracker.length = added + 1
  BY <1>1, <1>2
<1> QED
  BY <1>1, <1>2, <1>3, <1>4, ContentsRunNext, RunAppend

LEMMA ContentsTake ==
  ASSUME ListInv, PopStep
  PROVE  Contents # <<>> /\ Head(Contents) = First /\ Contents' = Tail(Contents)
<1>1. /\ tracker'.length = tracker.length - 1
      /\ First' = IF First < added THEN First + 1 ELSE Nil
  BY DequeueKeepsList
<1>2. /\ added \in Nat /\ First \in 1..added /\ tracker.length \in Nat
      /\ tracker.length = added - First + 1 /\ tracker.length > 0
  BY ListShape DEF ListInv, ListIntact, PopStep, Poppable
<1>3. Contents' = Run(First + 1, tracker.length - 1)
  <2>1. CASE First < added
    BY <1>1, <2>1, ContentsRunNext
  <2>2. CASE First = added
    <3>1. tracker.length - 1 = 0
      BY <1>2, <2>2
    <3> QED
      BY <1>1, <3>1, ContentsRunNext, RunEmpty
  <2> QED
    BY <1>2, <2>1, <2>2
<1>4. First \in Nat
  BY <1>2
<1>5. /\ Run(First, tracker.length) # <<>> /\ Head(Run(First, tracker.length)) = First
      /\ Tail(Run(First, tracker.length)) = Run(First + 1, tracker.length - 1)
  BY <1>2, <1>4, RunTail
<1> QED
  BY <1>3, <1>5, ContentsRun

\* A live entry is a position in the sequence.
LEMMA LiveIsPlace ==
  ASSUME ListInv, NEW e \in Live
  PROVE  e - First + 1 \in 1..Len(Contents) /\ Contents[e - First + 1] = e
<1>1. /\ added \in Nat /\ First \in 1..added /\ Live = First..added
      /\ tracker.length = added - First + 1
  BY ListShape DEF ListInv, ListIntact
<1>2. tracker.length \in Nat /\ First \in Nat
  BY <1>1
<1>3. Len(Contents) = tracker.length /\ \A i \in 1..tracker.length : Contents[i] = First + i - 1
  BY <1>2, ContentsRun, RunSeq
<1>4. e - First + 1 \in 1..tracker.length /\ First + (e - First + 1) - 1 = e
  BY <1>1
<1> QED
  BY <1>3, <1>4

----------------------------------------------------------------------------
\* Every step of the queue is a step of FIFO or leaves FIFO's variables alone.

FIFOStep == Abstract!FIFONext \/ UNCHANGED Abstract!fifoVars

LEMMA ContentsKept == ASSUME NoListStep PROVE Contents' = Contents /\ added' = added
  BY DEF NoListStep, Contents, First

LEMMA StutterStep ==
  ASSUME NoListStep, closed' = closed, ret' = ret PROVE FIFOStep
  BY ContentsKept DEF FIFOStep, Abstract!fifoVars

LEMMA RefuseStep ==
  ASSUME NoListStep, closed' = closed, NEW p, NEW o \in Op,
         NEW e \in Errors \ {"nil"}, e = "ErrQueueClosed" => closed,
         NEW W, Return(p, o, e, 0, W)
  PROVE  FIFOStep
<1>1. ret' = [op |-> o, err |-> e, item |-> 0]
  BY DEF Return
<1>2. Abstract!Refuse
  BY <1>1, ContentsKept DEF Abstract!Refuse, Errors
<1> QED
  BY <1>2 DEF FIFOStep, Abstract!FIFONext

LEMMA PutStep ==
  ASSUME ListInv, NEW p, NEW o \in {"Push", "WaitPush"}, doAdd(p, o)
  PROVE  FIFOStep
<1>1. CASE AddOutcome # "nil" /\ Return(p, o, AddOutcome, 0, {}) /\ UNCHANGED shared
  <2>1. /\ AddOutcome \in Errors \ {"nil"} /\ o \in Op
        /\ AddOutcome = "ErrQueueClosed" => closed
    BY <1>1 DEF AddOutcome, AddError, Errors, Op
  <2>2. NoListStep /\ closed' = closed
    BY <1>1 DEF shared, NoListStep
  <2> QED
    BY <1>1, <2>1, <2>2, RefuseStep
<1>2. CASE /\ AddOutcome = "nil" /\ Enqueue /\ UNCHANGED closed
           /\ Return(p, o, "nil", added + 1, Sleepers("nempty") \cup Sleepers("nupdates"))
  <2>1. ~closed /\ closed' = closed /\ added' = added + 1
    BY <1>2 DEF AddOutcome, Enqueue
  <2>2. Contents' = Append(Contents, added + 1)
    BY <1>2, ContentsPut DEF AddStep
  <2>3. ret' = [op |-> o, err |-> "nil", item |-> added + 1]
    BY <1>2 DEF Return
  <2>4. Abstract!Put
    BY <2>1, <2>2, <2>3 DEF Abstract!Put
  <2> QED
    BY <2>4 DEF FIFOStep, Abstract!FIFONext
<1> QED
  BY <1>1, <1>2 DEF doAdd

LEMMA TakeStep ==
  ASSUME ListInv, NEW p, NEW o \in {"Pop", "WaitPop", "IteratorWaitPop"}, Poppable,
         NEW W, popFront(p, o, W)
  PROVE  FIFOStep
<1>1. Contents # <<>> /\ Head(Contents) = First /\ Contents' = Tail(Contents)
  BY ContentsTake DEF PopStep, popFront
<1>2. /\ ~closed /\ closed' = closed /\ added' = added
      /\ ret' = [op |-> o, err |-> "nil", item |-> First]
  BY DEF popFront, Dequeue, Return, Poppable
<1>3. Abstract!Take
  BY <1>1, <1>2 DEF Abstract!Take
<1> QED
  BY <1>3 DEF FIFOStep, Abstract!FIFONext

LEMMA WaitPopStep ==
  ASSUME ListInv, NEW p, NEW o \in {"WaitPop", "IteratorWaitPop"}, NEW c, WaitPopTurn(p, o, c)
  PROVE  FIFOStep
<1>0. o \in Op /\ "ErrQueueClosed" \in Errors \ {"nil"} /\ "ctx" \in Errors \ {"nil"}
  BY DEF Op, Errors
<1>1. CASE closed /\ Return(p, o, "ErrQueueClosed", 0, {}) /\ UNCHANGED shared
  <2>1. NoListStep /\ closed' = closed
    BY <1>1 DEF shared, NoListStep
  <2> QED
    BY <1>0, <1>1, <2>1, RefuseStep
<1>2. CASE Return(p, o, "ctx", 0, {}) /\ UNCHANGED shared
  <2>1. NoListStep /\ closed' = closed
    BY <1>2 DEF shared, NoListStep
  <2> QED
    BY <1>0, <1>2, <2>1, RefuseStep
<1>3. CASE ~closed /\ tracker.length > 0 /\ popFront(p, o, {})
  BY <1>3, TakeStep DEF Poppable
<1>4. CASE Sleep(p, o, {}) /\ UNCHANGED shared
  BY <1>4, StutterStep DEF Sleep, Stay, shared, NoListStep
<1> QED
  BY <1>1, <1>2, <1>3, <1>4 DEF WaitPopTurn

LEMMA DrainedStep ==
  ASSUME ListInv, closed \in BOOLEAN, NEW p, NEW o \in DrainOps, NEW e \in {"nil", "ErrQueueClosed", "ctx"},
         e = "nil" => tracker.length = 0, e = "ErrQueueClosed" => closed,
         NEW n, NEW c, NEW W, Drained(p, o, e, n, c, W)
  PROVE  FIFOStep
<1>1. NoListStep /\ closed' = (closed \/ (o = "Shutdown" /\ e = "nil"))
      /\ ret' = [op |-> o, err |-> e, item |-> 0]
  BY DEF Drained, list, NoListStep, Return
<1>2. CASE e = "nil"
  <2>1. Contents = <<>>
    BY <1>2, ContentsRun, RunEmpty
  <2>2. closed' = (closed \/ o = "Shutdown")
    BY <1>1, <1>2
  <2>3. Abstract!Drained
    BY <1>1, <1>2, <2>1, <2>2, ContentsKept DEF Abstract!Drained, DrainOps
  <2> QED
    BY <2>3 DEF FIFOStep, Abstract!FIFONext
<1>3. CASE e # "nil"
  <2>1. closed' = closed /\ o \in Op /\ e \in Errors \ {"nil"}
    BY <1>1, <1>3 DEF DrainOps, Op, Errors
  <2>2. PICK V : Return(p, o, e, 0, V)
    BY DEF Drained
  <2> QED
    BY <1>1, <2>1, <2>2, RefuseStep
<1> QED
  BY <1>2, <1>3

LEMMA YieldStep ==
  ASSUME Turn, NEW p \in Procs, NEW o \in {"IteratorWait", "Iterator"}, Yield(p, o),
         UNCHANGED shared
  PROVE  FIFOStep
<1>1. Place(p) \in 0..added
  BY ListShape DEF Turn, Place, Front
<1>2. after(Place(p)) \in Live
  BY <1>1, AfterIsNext DEF Yield, Turn
<1>3. PICK i \in 1..Len(Contents) : Contents[i] = after(Place(p))
  BY <1>2, LiveIsPlace DEF Turn
<1>4. NoListStep /\ closed' = closed /\ ret' = [op |-> o, err |-> "nil", item |-> Contents[i]]
  BY <1>3 DEF Yield, Return, shared, NoListStep
<1>5. Abstract!Yield
  BY <1>4, ContentsKept DEF Abstract!Yield
<1> QED
  BY <1>5 DEF FIFOStep, Abstract!FIFONext

LEMMA StepIsFIFO == ASSUME IInv, NEW p \in Procs, Step(p) PROVE FIFOStep
<1>0. Turn /\ ListInv /\ closed \in BOOLEAN
  BY DEF IInv, Turn
<1>1. CASE Push(p)
  BY <1>0, <1>1, PutStep DEF Push
<1>2. CASE WaitPush(p)
  <2>1. ASSUME NEW e \in {"ErrQueueDraining", "ErrQueueClosed", "ctx"},
               e = "ErrQueueClosed" => closed,
               Return(p, "WaitPush", e, 0, {}), UNCHANGED shared
        PROVE  FIFOStep
    <3>1. NoListStep /\ closed' = closed /\ "WaitPush" \in Op /\ e \in Errors \ {"nil"}
      BY <2>1 DEF shared, NoListStep, Op, Errors
    <3> QED
      BY <2>1, <3>1, RefuseStep
  <2>2. CASE doAdd(p, "WaitPush")
    BY <1>0, <2>2, PutStep
  <2>3. CASE Sleep(p, "WaitPush", {}) /\ UNCHANGED shared
    BY <2>3, StutterStep DEF Sleep, Stay, shared, NoListStep
  <2> QED
    BY <1>2, <2>1, <2>2, <2>3 DEF WaitPush
<1>3. CASE Pop(p)
  <2>1. CASE PopNow(p, "Pop")
    BY <1>0, <2>1, TakeStep DEF PopNow
  <2>2. CASE Return(p, "Pop", "end", 0, {}) /\ UNCHANGED shared
    <3>1. NoListStep /\ closed' = closed /\ "Pop" \in Op /\ "end" \in Errors \ {"nil"}
      BY <2>2 DEF shared, NoListStep, Op, Errors
    <3> QED
      BY <2>2, <3>1, RefuseStep
  <2> QED
    BY <1>3, <2>1, <2>2 DEF Pop
<1>4. CASE WaitPop(p)
  BY <1>0, <1>4, WaitPopStep DEF WaitPop
<1>5. CASE IteratorCheck(p)
  <2>1. NoListStep /\ closed' = closed /\ "IteratorWaitPop" \in Op /\ "ctx" \in Errors \ {"nil"}
    BY <1>5 DEF IteratorCheck, shared, NoListStep, Op, Errors
  <2>2. CASE Return(p, "IteratorWaitPop", "ctx", 0, {})
    BY <2>1, <2>2, RefuseStep
  <2>3. CASE Stay(p, "IteratorWaitPop", FALSE, "checked", {})
    BY <2>1, <2>3, StutterStep DEF Stay
  <2> QED
    BY <1>5, <2>2, <2>3 DEF IteratorCheck
<1>6. at[p] \in {"checked", "empty"} => op[p] = "IteratorWaitPop"
  BY <1>0 DEF Turn, CallInv, Placed
<1>7. CASE IteratorPop(p)
  <2>1. CASE PopNow(p, op[p])
    <3>1. PopNow(p, "IteratorWaitPop")
      BY <1>6, <1>7, <2>1 DEF IteratorPop
    <3> QED
      BY <1>0, <3>1, TakeStep DEF PopNow
  <2>2. CASE Stay(p, op[p], p \in cancelled, "empty", {}) /\ UNCHANGED shared
    BY <2>2, StutterStep DEF Stay, shared, NoListStep
  <2> QED
    BY <1>7, <2>1, <2>2 DEF IteratorPop
<1>8. CASE IteratorWaitPop(p)
  <2>1. \E c : WaitPopTurn(p, "IteratorWaitPop", c)
    BY <1>6, <1>8 DEF IteratorWaitPop
  <2> QED
    BY <1>0, <2>1, WaitPopStep
<1>9. CASE DrainEnter(p)
  <2>1. PICK o \in DrainOps, c \in BOOLEAN :
          \/ closed /\ Return(p, o, "ErrQueueClosed", 0, {}) /\ UNCHANGED shared
          \/ Return(p, o, "ctx", 0, {}) /\ UNCHANGED shared
          \/ /\ tracker.length = 0
             /\ Drained(p, o, "nil", drainers, FALSE, Sleepers("nupdates"))
          \/ Sleep(p, o, Sleepers("nupdates")) /\ UNCHANGED <<tracker, closed, list>>
    BY <1>9 DEF DrainEnter
  <2>2. o \in Op /\ "ErrQueueClosed" \in Errors \ {"nil"} /\ "ctx" \in Errors \ {"nil"}
    BY DEF DrainOps, Op, Errors
  <2>3. UNCHANGED shared => NoListStep /\ closed' = closed
    BY DEF shared, NoListStep
  <2>4. CASE closed /\ Return(p, o, "ErrQueueClosed", 0, {}) /\ UNCHANGED shared
    BY <2>2, <2>3, <2>4, RefuseStep
  <2>5. CASE Return(p, o, "ctx", 0, {}) /\ UNCHANGED shared
    BY <2>2, <2>3, <2>5, RefuseStep
  <2>6. CASE tracker.length = 0 /\ Drained(p, o, "nil", drainers, FALSE, Sleepers("nupdates"))
    BY <1>0, <2>6, DrainedStep
  <2>7. CASE Sleep(p, o, Sleepers("nupdates")) /\ UNCHANGED <<tracker, closed, list>>
    BY <2>7, StutterStep DEF Sleep, Stay, list, NoListStep
  <2> QED
    BY <2>1, <2>4, <2>5, <2>6, <2>7
<1>10. CASE DrainResume(p)
  <2>1. PICK o \in DrainOps :
          \/ tracker.length = 0 /\ Drained(p, o, "nil", drainers - 1, p \in cancelled, {})
          \/ closed /\ Drained(p, o, "ErrQueueClosed", drainers - 1, p \in cancelled, {})
          \/ Drained(p, o, "ctx", drainers - 1, TRUE, {})
          \/ Sleep(p, o, {}) /\ UNCHANGED shared
    BY <1>10 DEF DrainResume
  <2>2. CASE tracker.length = 0 /\ Drained(p, o, "nil", drainers - 1, p \in cancelled, {})
    BY <1>0, <2>2, DrainedStep
  <2>3. CASE closed /\ Drained(p, o, "ErrQueueClosed", drainers - 1, p \in cancelled, {})
    BY <1>0, <2>3, DrainedStep
  <2>4. CASE Drained(p, o, "ctx", drainers - 1, TRUE, {})
    BY <1>0, <2>4, DrainedStep
  <2>5. CASE Sleep(p, o, {}) /\ UNCHANGED shared
    BY <2>5, StutterStep DEF Sleep, Stay, shared, NoListStep
  <2> QED
    BY <2>1, <2>2, <2>3, <2>4, <2>5
<1>11. CASE Close(p)
  <2>1. /\ NoListStep /\ closed' = TRUE
        /\ ret' = [op |-> "Close", err |-> "nil", item |-> 0]
    BY <1>11 DEF Close, list, NoListStep, Return
  <2>2. Abstract!CloseNow
    BY <2>1, ContentsKept DEF Abstract!CloseNow
  <2> QED
    BY <2>2 DEF FIFOStep, Abstract!FIFONext
<1>12. ASSUME NEW o \in {"IteratorWait", "Iterator"}, Return(p, o, "end", 0, {}), UNCHANGED shared
       PROVE  FIFOStep
  <2>1. NoListStep /\ closed' = closed /\ o \in Op /\ "end" \in Errors \ {"nil"}
    BY <1>12 DEF shared, NoListStep, Op, Errors
  <2> QED
    BY <1>12, <2>1, RefuseStep
<1>13. CASE IteratorWait(p)
  <2>1. CASE Yield(p, "IteratorWait") /\ UNCHANGED shared
    BY <1>0, <2>1, YieldStep
  <2>2. CASE Return(p, "IteratorWait", "end", 0, {}) /\ UNCHANGED shared
    BY <1>12, <2>2
  <2>3. CASE Sleep(p, "IteratorWait", {}) /\ UNCHANGED shared
    BY <2>3, StutterStep DEF Sleep, Stay, shared, NoListStep
  <2> QED
    BY <1>13, <2>1, <2>2, <2>3 DEF IteratorWait
<1>14. CASE Iterator(p)
  <2>1. CASE Yield(p, "Iterator") /\ UNCHANGED shared
    BY <1>0, <2>1, YieldStep
  <2>2. CASE Return(p, "Iterator", "end", 0, {}) /\ UNCHANGED shared
    BY <1>12, <2>2
  <2> QED
    BY <1>14, <2>1, <2>2 DEF Iterator, shared
<1>15. CASE Cancel(p)
  BY <1>15, StutterStep DEF Cancel, shared, NoListStep
<1> QED
  BY <1>1, <1>2, <1>3, <1>4, <1>5, <1>7, <1>8, <1>9, <1>10, <1>11, <1>13, <1>14, <1>15 DEF Step

\* The linked list behind its mutex implements the plain sequence of FIFO: every
\* push, pop, drain and iterator step takes effect at one instant.
THEOREM Refinement == Spec => ImplementsFIFO
<1>1. Init => Abstract!FIFOInit
  <2> SUFFICES ASSUME Init PROVE Abstract!FIFOInit
    OBVIOUS
  <2>1. tracker.length = 0
    BY ListInit DEF ListInv, ListIntact, Init, First, Front, Nil
  <2>2. Contents = <<>>
    BY <2>1, ContentsRun, RunEmpty
  <2> QED
    BY <2>2 DEF Init, Abstract!FIFOInit
<1>2. IInv /\ [Next]_vars => [Abstract!FIFONext]_(Abstract!fifoVars)
  <2> SUFFICES ASSUME IInv, [Next]_vars PROVE FIFOStep
    BY DEF FIFOStep
  <2>1. CASE UNCHANGED vars
    BY <2>1, StutterStep DEF vars, NoListStep
  <2>2. ASSUME NEW c \in Conds, WakeOnCancel(c) PROVE FIFOStep
    BY <2>2, StutterStep DEF WakeOnCancel, shared, NoListStep
  <2> QED
    BY <2>1, <2>2, StepIsFIFO DEF Next
<1> QED
  BY <1>1, <1>2, Invariant, PTL DEF Spec, ImplementsFIFO, Abstract!FIFOSpec
=============================================================================
