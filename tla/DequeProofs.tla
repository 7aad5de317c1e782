---------------------------- MODULE DequeProofs ----------------------------
(***************************************************************************)
(* Proofs about the module Deque, for every set of goroutines, every       *)
(* program, every set of options and every bound: its invariants, and that *)
(* it implements DoubleEnded.                                              *)
(***************************************************************************)
EXTENDS Deque, QueueLimitsProofs, FiniteSetTheorems, SequenceTheorems, WellFoundedInduction

----------------------------------------------------------------------------
\* Extreme elements of bounded sets of integers.

LEMMA LessWellFounded == IsWellFoundedOn({ss \in Nat \X Nat : ss[1] < ss[2]}, Nat)
  BY NatLessThanWellFounded DEF OpToRel

LEMMA Minimum == ASSUME NEW T \in SUBSET Nat, T # {} PROVE \E m \in T : \A k \in T : m <= k
<1> DEFINE R == {ss \in Nat \X Nat : ss[1] < ss[2]}
<1>1. PICK m \in T : \A k \in T : ~(<<k, m>> \in R)
  <2> HIDE DEF R
  <2>1. IsWellFoundedOn(R, Nat)
    BY LessWellFounded DEF R
  <2> QED
    BY <2>1, WFMin
<1>2. ASSUME NEW k \in T PROVE m <= k
  <2>1. ~(<<k, m>> \in R)
    BY <1>1
  <2> QED
    BY <2>1
<1> QED
  BY <1>2

\* The nearest element of a set in a direction exists and is unique.
LEMMA FirstExists ==
  ASSUME NEW a \in Int, NEW b \in Int, NEW S \in SUBSET (a..b), S # {}, NEW side \in Sides
  PROVE  /\ FirstOf(S, side) \in S
         /\ \A d \in S : IF side = "front" THEN FirstOf(S, side) <= d ELSE FirstOf(S, side) >= d
<1>1. CASE side = "front"
  <2>1. {s - a : s \in S} \in SUBSET Nat /\ {s - a : s \in S} # {}
    <3>1. \A s \in S : s - a \in Nat
      OBVIOUS
    <3> QED
      BY <3>1
  <2>2. PICK m \in {s - a : s \in S} : \A k \in {s - a : s \in S} : m <= k
    BY <2>1, Minimum
  <2>3. m + a \in S /\ \A d \in S : m + a <= d
    BY <2>2
  <2> QED
    BY <1>1, <2>3 DEF FirstOf
<1>2. CASE side # "front"
  <2>1. {b - s : s \in S} \in SUBSET Nat /\ {b - s : s \in S} # {}
    <3>1. \A s \in S : b - s \in Nat
      OBVIOUS
    <3> QED
      BY <3>1
  <2>2. PICK m \in {b - s : s \in S} : \A k \in {b - s : s \in S} : m <= k
    BY <2>1, Minimum
  <2>3. b - m \in S /\ \A d \in S : b - m >= d
    BY <2>2
  <2> QED
    BY <1>2, <2>3 DEF FirstOf
<1> QED
  BY <1>1, <1>2

LEMMA FirstUnique ==
  ASSUME NEW S \in SUBSET Int, NEW side \in Sides, NEW m \in S,
         \A d \in S : IF side = "front" THEN m <= d ELSE m >= d
  PROVE  FirstOf(S, side) = m
<1>1. CASE side = "front"
  <2>1. \A n \in S : (\A d \in S : n <= d) => n = m
    BY <1>1
  <2> QED
    BY <1>1, <2>1 DEF FirstOf
<1>2. CASE side # "front"
  <2>1. \A n \in S : (\A d \in S : n >= d) => n = m
    BY <1>2
  <2> QED
    BY <1>2, <2>1 DEF FirstOf
<1> QED
  BY <1>1, <1>2

----------------------------------------------------------------------------
\* The list: its fields, and links that skip only what has been removed.

LiveIn(l) == {e \in l.lo..l.hi : e # Root /\ e \notin l.removed}

Ahead(l, e)  == {d \in LiveIn(l) : e = Root \/ d > e}
Behind(l, e) == {d \in LiveIn(l) : e = Root \/ d < e}

Lowest(n, S)  == IF S = {} THEN n = Root ELSE n \in S /\ \A d \in S : n <= d
Highest(n, S) == IF S = {} THEN n = Root ELSE n \in S /\ \A d \in S : n >= d

IsList(l) ==
  /\ DOMAIN l = {"next", "prev", "removed", "lo", "hi"}
  /\ l.lo \in Int /\ l.hi \in Nat /\ l.lo <= 0
  /\ l.removed \subseteq (l.lo..l.hi) \ {Root}
  /\ l.next \in [l.lo..l.hi -> {Nil} \cup l.lo..l.hi]
  /\ l.prev \in [l.lo..l.hi -> {Nil} \cup l.lo..l.hi]

Chained(l) == \A e \in LiveIn(l) \cup {Root} : /\ Lowest(l.next[e], Ahead(l, e))
                                               /\ Highest(l.prev[e], Behind(l, e))

IsTracker(t) == t \in Tracker /\ WithinLimits(t) /\ (t.kind = "hard" => t.hardLimit > 0)

\* A list and the tracker that counts it.
Shape(l, t) == /\ IsList(l) /\ Chained(l) /\ IsTracker(t)
               /\ t.length = Cardinality(LiveIn(l))

LEMMA ShapeFacts ==
  ASSUME NEW l, NEW t, Shape(l, t)
  PROVE  /\ IsFiniteSet(LiveIn(l)) /\ LiveIn(l) \subseteq (l.lo..l.hi) \ {Root} /\ Root \in l.lo..l.hi
         /\ t.length \in Nat /\ (t.length = 0 <=> LiveIn(l) = {})
         /\ \A e \in LiveIn(l) \cup {Root} : /\ l.next[e] \in LiveIn(l) \cup {Root}
                                             /\ l.prev[e] \in LiveIn(l) \cup {Root}
<1>1. l.lo \in Int /\ l.hi \in Int /\ LiveIn(l) \in SUBSET (l.lo..l.hi)
  BY DEF Shape, IsList, LiveIn
<1>2. IsFiniteSet(LiveIn(l))
  BY <1>1, FS_Interval, FS_Subset
<1>3. t.length \in Nat /\ t.length = Cardinality(LiveIn(l))
  BY DEF Shape, IsTracker, Tracker
<1>4. Root \in l.lo..l.hi
  BY DEF Shape, IsList, Root
<1>5. \A e \in LiveIn(l) \cup {Root} : /\ Ahead(l, e) \subseteq LiveIn(l) /\ Behind(l, e) \subseteq LiveIn(l)
                                       /\ l.next[e] \in Ahead(l, e) \cup {Root}
                                       /\ l.prev[e] \in Behind(l, e) \cup {Root}
  BY DEF Shape, Chained, Lowest, Highest, Ahead, Behind
<1> QED
  BY <1>1, <1>2, <1>3, <1>4, <1>5, FS_EmptySet DEF LiveIn

\* What a push at the back does to the fields, and what a push at the front does.
LEMMA LinkedBack ==
  ASSUME NEW l, IsList(l), l.prev[Root] \in l.lo..l.hi, l.next[l.prev[Root]] = Root
  PROVE  LET n == Linked(l, "back")
             e == l.hi + 1
         IN  /\ DOMAIN n = {"next", "prev", "removed", "lo", "hi"}
             /\ n.lo = l.lo /\ n.hi = e /\ n.removed = l.removed
             /\ n.next = [x \in l.lo..e |-> IF x = e THEN Root
                                            ELSE IF x = l.prev[Root] THEN e ELSE l.next[x]]
             /\ n.prev = [x \in l.lo..e |-> IF x = e THEN l.prev[Root]
                                            ELSE IF x = Root THEN e ELSE l.prev[x]]
<1>1. ~(l.hi + 1 < l.lo) /\ l.hi + 1 > l.hi
  BY DEF IsList
<1> QED
  BY <1>1 DEF Linked, IsList

LEMMA LinkedFront ==
  ASSUME NEW l, IsList(l)
  PROVE  LET n == Linked(l, "front")
             e == l.lo - 1
         IN  /\ DOMAIN n = {"next", "prev", "removed", "lo", "hi"}
             /\ n.lo = e /\ n.hi = l.hi /\ n.removed = l.removed
             /\ n.next = [x \in e..l.hi |-> IF x = e THEN l.next[Root]
                                            ELSE IF x = Root THEN e ELSE l.next[x]]
             /\ n.prev = [x \in e..l.hi |-> IF x = e THEN Root
                                            ELSE IF x = l.next[Root] THEN e ELSE l.prev[x]]
<1>1. l.lo - 1 < l.lo /\ ~(l.lo - 1 > l.hi)
  BY DEF IsList
<1> QED
  BY <1>1 DEF Linked, IsList

New(l, side) == IF side = "back" THEN l.hi + 1 ELSE l.lo - 1

Grows(l, n) == n.lo <= l.lo /\ l.hi <= n.hi /\ n.lo \in Int /\ n.hi \in Int

LEMMA UpdateTyped ==
  ASSUME NEW D, NEW R, NEW f \in [D -> R], NEW x, NEW y \in R
  PROVE  [f EXCEPT ![x] = y] \in [D -> R]
  OBVIOUS

LEMMA LinkedKeeps ==
  ASSUME NEW l, NEW t, Shape(l, t), AddError(t) = "nil", NEW side \in Sides
  PROVE  /\ Shape(Linked(l, side), Added(t))
         /\ LiveIn(Linked(l, side)) = LiveIn(l) \cup {New(l, side)}
         /\ New(l, side) \notin l.lo..l.hi
         /\ New(l, side) \in Linked(l, side).lo..Linked(l, side).hi
         /\ Linked(l, side).removed = l.removed /\ Grows(l, Linked(l, side))
<1> DEFINE n == Linked(l, side)
           e == New(l, side)
           L == LiveIn(l)
<1>0. /\ IsFiniteSet(L) /\ L \subseteq (l.lo..l.hi) \ {Root} /\ Root \in l.lo..l.hi
      /\ \A x \in L \cup {Root} : l.next[x] \in L \cup {Root} /\ l.prev[x] \in L \cup {Root}
  BY ShapeFacts
<1>1. IsList(l) /\ Chained(l) /\ l.lo \in Int /\ l.hi \in Int /\ l.lo <= 0 /\ l.hi \in Nat
  BY DEF Shape, IsList
<1>2. e \notin l.lo..l.hi /\ e # Root
  BY <1>1 DEF New, Root
<1>3. l.prev[Root] \in L \cup {Root} /\ l.next[l.prev[Root]] = Root
  <2>1. CASE L = {}
    BY <1>0, <1>1, <2>1 DEF Chained, Lowest, Highest, Ahead, Behind
  <2>2. CASE L # {}
    <3>1. Behind(l, Root) = L /\ l.prev[Root] \in L /\ \A d \in L : l.prev[Root] >= d
      BY <1>0, <1>1, <2>2 DEF Chained, Highest, Behind
    <3>2. Ahead(l, l.prev[Root]) = {}
      BY <1>0, <1>1, <3>1 DEF Ahead
    <3> QED
      BY <1>1, <3>1, <3>2 DEF Chained, Lowest
  <2> QED
    BY <2>1, <2>2
<1>20. ASSUME side = "back"
       PROVE /\ DOMAIN n = {"next", "prev", "removed", "lo", "hi"}
            /\ n.lo = l.lo /\ n.hi = e /\ n.removed = l.removed /\ e = l.hi + 1
            /\ n.next = [x \in l.lo..e |-> IF x = e THEN Root
                                           ELSE IF x = l.prev[Root] THEN e ELSE l.next[x]]
            /\ n.prev = [x \in l.lo..e |-> IF x = e THEN l.prev[Root]
                                           ELSE IF x = Root THEN e ELSE l.prev[x]]
  <2>1. l.prev[Root] \in l.lo..l.hi
    BY <1>0, <1>3
  <2>2. e = l.hi + 1 /\ n = Linked(l, "back")
    BY <1>20 DEF New
  <2> HIDE DEF n, e
  <2> QED
    BY <1>1, <1>3, <2>1, <2>2, LinkedBack
<1>21. ASSUME side # "back"
       PROVE /\ DOMAIN n = {"next", "prev", "removed", "lo", "hi"}
            /\ n.lo = e /\ n.hi = l.hi /\ n.removed = l.removed /\ e = l.lo - 1
            /\ n.next = [x \in e..l.hi |-> IF x = e THEN l.next[Root]
                                           ELSE IF x = Root THEN e ELSE l.next[x]]
            /\ n.prev = [x \in e..l.hi |-> IF x = e THEN Root
                                           ELSE IF x = l.next[Root] THEN e ELSE l.prev[x]]
  <2>2. e = l.lo - 1 /\ n = Linked(l, "front")
    BY <1>21 DEF New, Sides
  <2> HIDE DEF n, e
  <2> QED
    BY <1>1, <2>2, LinkedFront
<1>4. /\ DOMAIN n = {"next", "prev", "removed", "lo", "hi"}
      /\ n.lo \in Int /\ n.hi \in Nat /\ n.lo <= 0 /\ n.removed = l.removed
      /\ n.lo <= l.lo /\ l.hi <= n.hi /\ n.lo..n.hi = (l.lo..l.hi) \cup {e}
  <2> HIDE DEF n, e, L
  <2>1. CASE side = "back"
    BY <1>1, <1>20, <2>1
  <2>2. CASE side # "back"
    BY <1>1, <1>21, <2>2
  <2> QED
    BY <2>1, <2>2
<1>5. /\ n.next \in [n.lo..n.hi -> {Nil} \cup n.lo..n.hi]
      /\ n.prev \in [n.lo..n.hi -> {Nil} \cup n.lo..n.hi]
  <2> DEFINE D == n.lo..n.hi
             R == {Nil} \cup n.lo..n.hi
  <2>1. /\ e \in R /\ Root \in R /\ l.next[Root] \in R /\ l.prev[Root] \in R
        /\ \A x \in D : x # e => x \in l.lo..l.hi
    <3> HIDE DEF n, e, L
    <3> QED
      BY <1>0, <1>1, <1>4
  <2>2. \A x \in l.lo..l.hi : l.next[x] \in R /\ l.prev[x] \in R
    <3>1. /\ l.next \in [l.lo..l.hi -> {Nil} \cup l.lo..l.hi]
          /\ l.prev \in [l.lo..l.hi -> {Nil} \cup l.lo..l.hi]
      BY <1>1 DEF IsList
    <3>2. l.lo..l.hi \subseteq n.lo..n.hi
      <4> HIDE DEF n, e, L
      <4> QED
        BY <1>4
    <3> HIDE DEF n, e, L
    <3> QED
      BY <3>1, <3>2
  <2>3. CASE side = "back"
    <3>1. /\ n.next = [x \in D |-> IF x = e THEN Root ELSE IF x = l.prev[Root] THEN e ELSE l.next[x]]
          /\ n.prev = [x \in D |-> IF x = e THEN l.prev[Root] ELSE IF x = Root THEN e ELSE l.prev[x]]
      <4> HIDE DEF n, e, L
      <4> QED
        BY <1>20, <2>3
    <3> HIDE DEF n, e, L, D, R
    <3>2. n.next \in [D -> R] /\ n.prev \in [D -> R]
      BY <2>1, <2>2, <3>1
    <3> QED
      BY <3>2 DEF D, R
  <2>4. CASE side # "back"
    <3>1. /\ n.next = [x \in D |-> IF x = e THEN l.next[Root] ELSE IF x = Root THEN e ELSE l.next[x]]
          /\ n.prev = [x \in D |-> IF x = e THEN Root ELSE IF x = l.next[Root] THEN e ELSE l.prev[x]]
      <4> HIDE DEF n, e, L
      <4> QED
        BY <1>21, <2>4
    <3> HIDE DEF n, e, L, D, R
    <3>2. n.next \in [D -> R] /\ n.prev \in [D -> R]
      BY <2>1, <2>2, <3>1
    <3> QED
      BY <3>2 DEF D, R
  <2> QED
    BY <2>3, <2>4
<1>6. LiveIn(n) = L \cup {e}
  <2>1. e \notin l.removed
    BY <1>1, <1>2 DEF IsList
  <2> HIDE DEF n, e
  <2> QED
    BY <1>2, <1>4, <2>1 DEF LiveIn
<1>7. Chained(n)
  <2>1. CASE side = "back"
    <3>1. /\ e > l.hi /\ e \in Int
          /\ \A x \in L \cup {Root} : n.next[x] = IF x = l.prev[Root] THEN e ELSE l.next[x]
          /\ \A x \in L \cup {Root} : n.prev[x] = IF x = Root THEN e ELSE l.prev[x]
          /\ n.next[e] = Root /\ n.prev[e] = l.prev[Root]
      <4> HIDE DEF n, e, L
      <4>1. e > l.hi /\ e \in Int /\ e \in l.lo..e /\ e # Root /\ L \cup {Root} \subseteq l.lo..e
            /\ \A x \in L \cup {Root} : x # e
        BY <1>0, <1>1, <1>2, <1>20, <2>1
      <4>2. /\ \A x \in L \cup {Root} : n.next[x] = IF x = l.prev[Root] THEN e ELSE l.next[x]
            /\ n.next[e] = Root
        BY <1>20, <2>1, <4>1
      <4>3. /\ \A x \in L \cup {Root} : n.prev[x] = IF x = Root THEN e ELSE l.prev[x]
            /\ n.prev[e] = l.prev[Root]
        BY <1>20, <2>1, <4>1
      <4> QED
        BY <4>1, <4>2, <4>3
    <3>2. \A d \in L : d \in Int /\ d < e
      BY <1>0, <1>1, <3>1
    <3> HIDE DEF n, e, L
    <3>3. Lowest(n.next[e], Ahead(n, e)) /\ Highest(n.prev[e], Behind(n, e))
      <4>1. Ahead(n, e) = {} /\ Behind(n, e) = Behind(l, Root)
        BY <1>2, <1>6, <3>1, <3>2 DEF Ahead, Behind, L
      <4>2. Highest(l.prev[Root], Behind(l, Root))
        BY <1>1 DEF Chained
      <4> QED
        BY <3>1, <4>1, <4>2 DEF Lowest
    <3>4. ASSUME NEW x \in L \cup {Root} PROVE Lowest(n.next[x], Ahead(n, x))
      <4>1. Ahead(n, x) = Ahead(l, x) \cup {e} /\ Lowest(l.next[x], Ahead(l, x))
        BY <1>1, <1>6, <3>1, <3>2 DEF Ahead, L, Chained, Root
      <4>2. CASE x = l.prev[Root]
        <5>1. Ahead(l, x) = {}
          BY <1>1, <1>3, <4>1, <4>2, <1>0 DEF Lowest, Ahead, L
        <5> QED
          BY <3>1, <4>1, <4>2, <5>1 DEF Lowest
      <4>3. CASE x # l.prev[Root]
        <5>1. Ahead(l, x) # {}
          <6>1. Highest(l.prev[Root], L)
            BY <1>1 DEF Chained, Behind, L
          <6>2. CASE x = Root
            BY <4>3, <6>1, <6>2 DEF Highest, Ahead, L
          <6>3. CASE x # Root
            BY <3>2, <4>3, <6>1, <6>3 DEF Highest, Ahead, L
          <6> QED
            BY <6>2, <6>3
        <5>2. n.next[x] \in Ahead(l, x) /\ \A d \in Ahead(l, x) : n.next[x] <= d
          BY <3>1, <4>1, <4>3, <5>1 DEF Lowest
        <5> QED
          BY <3>1, <3>2, <4>1, <5>2 DEF Lowest, Ahead, L
      <4> QED
        BY <4>2, <4>3
    <3>5. ASSUME NEW x \in L PROVE Highest(n.prev[x], Behind(n, x))
      <4>1. x # Root /\ ~(e < x)
        BY <1>0, <3>1, <3>2
      <4>2. Behind(n, x) = Behind(l, x)
        BY <1>6, <4>1 DEF Behind, L
      <4>3. Highest(l.prev[x], Behind(l, x))
        BY <1>1 DEF Chained, L
      <4> QED
        BY <3>1, <4>1, <4>2, <4>3
    <3>6. Highest(n.prev[Root], Behind(n, Root))
      <4>1. Behind(n, Root) = L \cup {e}
        BY <1>6 DEF Behind
      <4> QED
        BY <3>1, <3>2, <4>1 DEF Highest
    <3> QED
      BY <1>6, <3>3, <3>4, <3>5, <3>6 DEF Chained
  <2>2. CASE side # "back"
    <3>1. /\ e < l.lo /\ e \in Int
          /\ \A x \in L \cup {Root} : n.next[x] = IF x = Root THEN e ELSE l.next[x]
          /\ \A x \in L \cup {Root} : n.prev[x] = IF x = l.next[Root] THEN e ELSE l.prev[x]
          /\ n.next[e] = l.next[Root] /\ n.prev[e] = Root
      <4> HIDE DEF n, e, L
      <4> QED
        BY SMTT(30), <1>0, <1>1, <1>2, <1>21, <2>2
    <3>2. \A d \in L : d \in Int /\ d > e
      BY <1>0, <1>1, <3>1
    <3> HIDE DEF n, e, L
    <3>3. Lowest(n.next[e], Ahead(n, e)) /\ Highest(n.prev[e], Behind(n, e))
      <4>1. Behind(n, e) = {} /\ Ahead(n, e) = Ahead(l, Root)
        BY <1>2, <1>6, <3>1, <3>2 DEF Ahead, Behind, L
      <4>2. Lowest(l.next[Root], Ahead(l, Root))
        BY <1>1 DEF Chained
      <4> QED
        BY <3>1, <4>1, <4>2 DEF Highest
    <3>4. ASSUME NEW x \in L \cup {Root} PROVE Highest(n.prev[x], Behind(n, x))
      <4>1. Behind(n, x) = Behind(l, x) \cup {e} /\ Highest(l.prev[x], Behind(l, x))
        BY <1>1, <1>6, <3>1, <3>2 DEF Behind, L, Chained, Root
      <4>0. Lowest(l.next[Root], L)
        BY <1>1 DEF Chained, Ahead, L
      <4>2. CASE x = l.next[Root]
        <5>1. Behind(l, x) = {}
          BY <1>0, <3>2, <4>0, <4>2 DEF Lowest, Behind, L
        <5> QED
          BY <1>0, <3>1, <4>1, <4>2, <5>1 DEF Highest
      <4>3. CASE x # l.next[Root]
        <5>1. Behind(l, x) # {}
          <6>2. CASE x = Root
            BY <4>3, <4>0, <6>2 DEF Lowest, Behind, L
          <6>3. CASE x # Root
            BY <3>2, <4>3, <4>0, <6>3 DEF Lowest, Behind, L
          <6> QED
            BY <6>2, <6>3
        <5>2. n.prev[x] \in Behind(l, x) /\ \A d \in Behind(l, x) : n.prev[x] >= d
          BY <3>1, <4>1, <4>3, <5>1 DEF Highest
        <5> QED
          BY <3>1, <3>2, <4>1, <5>2 DEF Highest, Behind, L
      <4> QED
        BY <4>2, <4>3
    <3>5. ASSUME NEW x \in L PROVE Lowest(n.next[x], Ahead(n, x))
      <4>1. x # Root /\ ~(e > x)
        BY <1>0, <3>1, <3>2
      <4>2. Ahead(n, x) = Ahead(l, x)
        BY <1>6, <4>1 DEF Ahead, L
      <4>3. Lowest(l.next[x], Ahead(l, x))
        BY <1>1 DEF Chained, L
      <4> QED
        BY <3>1, <4>1, <4>2, <4>3
    <3>6. Lowest(n.next[Root], Ahead(n, Root))
      <4>1. Ahead(n, Root) = L \cup {e}
        BY <1>6 DEF Ahead
      <4> QED
        BY <3>1, <3>2, <4>1 DEF Lowest
    <3> QED
      BY <1>6, <3>3, <3>4, <3>5, <3>6 DEF Chained
  <2> QED
    BY <2>1, <2>2
<1>8. IsTracker(Added(t)) /\ Added(t).length = Cardinality(LiveIn(n))
  <2>1. Added(t) \in Tracker /\ WithinLimits(Added(t)) /\ Added(t).length = t.length + 1
    BY AddedTracker DEF Shape, IsTracker
  <2>2. Added(t).kind = t.kind /\ Added(t).hardLimit = t.hardLimit
    BY DEF Added, Shape, IsTracker, Tracker
  <2>3. e \notin L
    BY <1>0, <1>2
  <2>4. Cardinality(L \cup {e}) = t.length + 1
    BY <1>0, <2>3, FS_AddElement DEF Shape
  <2> QED
    BY <1>6, <2>1, <2>2, <2>4 DEF IsTracker, Shape
<1>9. IsList(n)
  <2>1. l.removed \subseteq (n.lo..n.hi) \ {Root}
    BY <1>1, <1>4 DEF IsList
  <2> HIDE DEF n
  <2> QED
    BY <1>4, <1>5, <2>1 DEF IsList
<1>10. Grows(l, n) /\ e \in n.lo..n.hi
  BY <1>4 DEF Grows
<1> HIDE DEF n, e, L
<1>11. Shape(n, Added(t))
  BY <1>7, <1>8, <1>9 DEF Shape
<1> QED
  BY <1>2, <1>4, <1>6, <1>10, <1>11 DEF n, e, L

LEMMA UnlinkedKeeps ==
  ASSUME NEW l, NEW t, Shape(l, t), NEW e \in LiveIn(l)
  PROVE  /\ Shape(Unlinked(l, e), Removed(t))
         /\ LiveIn(Unlinked(l, e)) = LiveIn(l) \ {e}
         /\ Unlinked(l, e).lo = l.lo /\ Unlinked(l, e).hi = l.hi
         /\ Unlinked(l, e).removed = l.removed \cup {e} /\ Grows(l, Unlinked(l, e))
<1> DEFINE n == Unlinked(l, e)
           L == LiveIn(l)
           a == l.prev[e]
           b == l.next[e]
<1>0. /\ IsFiniteSet(L) /\ L \subseteq (l.lo..l.hi) \ {Root} /\ Root \in l.lo..l.hi
      /\ \A x \in L \cup {Root} : l.next[x] \in L \cup {Root} /\ l.prev[x] \in L \cup {Root}
  BY ShapeFacts
<1>1. IsList(l) /\ Chained(l) /\ l.lo \in Int /\ l.hi \in Int /\ e \in l.lo..l.hi /\ e # Root
      /\ a \in L \cup {Root} /\ b \in L \cup {Root}
  BY <1>0 DEF Shape, IsList
<1>2. Lowest(b, Ahead(l, e)) /\ Highest(a, Behind(l, e)) /\ a # e /\ b # e
  <2>1. Lowest(b, Ahead(l, e)) /\ Highest(a, Behind(l, e))
    BY <1>1 DEF Chained
  <2>2. e \notin Ahead(l, e) /\ e \notin Behind(l, e)
    BY <1>1 DEF Ahead, Behind
  <2> QED
    BY <1>1, <2>1, <2>2 DEF Lowest, Highest
<1>3. /\ DOMAIN n = {"next", "prev", "removed", "lo", "hi"}
      /\ n.lo = l.lo /\ n.hi = l.hi /\ n.removed = l.removed \cup {e}
      /\ n.next = [[l.next EXCEPT ![a] = b] EXCEPT ![e] = Nil]
      /\ n.prev = [[l.prev EXCEPT ![b] = a] EXCEPT ![e] = Nil]
  BY <1>1 DEF Unlinked, IsList
<1>4. LiveIn(n) = L \ {e}
  BY <1>1, <1>3 DEF LiveIn
<1>5. IsList(n)
  <2>1. a \in l.lo..l.hi /\ b \in l.lo..l.hi
    BY <1>0, <1>1
  <2> HIDE DEF n, a, b
  <2>2. /\ n.next \in [l.lo..l.hi -> {Nil} \cup l.lo..l.hi]
        /\ n.prev \in [l.lo..l.hi -> {Nil} \cup l.lo..l.hi]
    <3>1. /\ l.next \in [l.lo..l.hi -> {Nil} \cup l.lo..l.hi]
          /\ l.prev \in [l.lo..l.hi -> {Nil} \cup l.lo..l.hi]
      BY <1>1 DEF IsList
    <3>2. /\ [l.next EXCEPT ![a] = b] \in [l.lo..l.hi -> {Nil} \cup l.lo..l.hi]
          /\ [l.prev EXCEPT ![b] = a] \in [l.lo..l.hi -> {Nil} \cup l.lo..l.hi]
      BY <2>1, <3>1, UpdateTyped
    <3>3. /\ [[l.next EXCEPT ![a] = b] EXCEPT ![e] = Nil] \in [l.lo..l.hi -> {Nil} \cup l.lo..l.hi]
          /\ [[l.prev EXCEPT ![b] = a] EXCEPT ![e] = Nil] \in [l.lo..l.hi -> {Nil} \cup l.lo..l.hi]
      BY <3>2, UpdateTyped
    <3> QED
      BY <1>3, <3>3
  <2>3. n.removed \subseteq (l.lo..l.hi) \ {Root}
    BY <1>1, <1>3 DEF IsList
  <2> QED
    BY <1>1, <1>3, <2>2, <2>3 DEF IsList
<1>6. \A x \in (L \ {e}) \cup {Root} : /\ n.next[x] = IF x = a THEN b ELSE l.next[x]
                                       /\ n.prev[x] = IF x = b THEN a ELSE l.prev[x]
  <2> HIDE DEF n, a, b
  <2>1. DOMAIN l.next = l.lo..l.hi /\ DOMAIN l.prev = l.lo..l.hi
    BY <1>1 DEF IsList
  <2> QED
    BY <1>0, <1>1, <1>2, <1>3, <2>1
<1>7. Chained(n)
  <2> HIDE DEF n, a, b, L
  <2>0. /\ \A d \in L : d \in Int /\ d # Root
        /\ \A x \in L \cup {Root} : Lowest(l.next[x], Ahead(l, x)) /\ Highest(l.prev[x], Behind(l, x))
        /\ e \in L
    BY <1>0, <1>1 DEF Chained, L
  <2>1. ASSUME NEW x \in (L \ {e}) \cup {Root} PROVE Lowest(n.next[x], Ahead(n, x))
    <3>0. Ahead(n, x) = Ahead(l, x) \ {e} /\ Lowest(l.next[x], Ahead(l, x))
      BY <1>4, <2>0 DEF Ahead, L
    <3>1. CASE x = a
      <4>1. Ahead(l, x) \ {e} = Ahead(l, e)
        <5>1. \A d \in L : d < e => x # Root /\ d <= x
          BY <1>2, <2>0, <3>1 DEF Highest, Behind, L
        <5>2. x # Root => x < e
          BY <1>1, <1>2, <2>0, <3>1 DEF Highest, Behind, L
        <5>3. \A d \in L : (d # e /\ (x = Root \/ d > x)) <=> d > e
          BY <1>1, <2>0, <5>1, <5>2
        <5> QED
          BY <1>1, <5>3 DEF Ahead, L
      <4> QED
        BY <1>2, <1>6, <3>0, <3>1, <4>1
    <3>2. CASE x # a
      <4>1. l.next[x] # e
        <5>1. SUFFICES ASSUME l.next[x] = e PROVE FALSE
          OBVIOUS
        <5>2. e \in Ahead(l, x) /\ \A d \in Ahead(l, x) : e <= d
          BY <1>1, <3>0, <5>1 DEF Lowest
        <5>3. CASE x = Root
          <6>0. \A d \in L : ~(d < e)
            BY <1>1, <2>0, <5>2, <5>3 DEF Ahead, L
          <6>1. Behind(l, e) = {}
            BY <1>1, <6>0 DEF Behind, L
          <6> QED
            BY <1>2, <3>2, <5>3, <6>1 DEF Highest
        <5>4. CASE x # Root
          <6>1. x \in Behind(l, e)
            BY <1>1, <2>0, <5>2, <5>4 DEF Ahead, Behind, L
          <6>2. a \in Behind(l, e) /\ a >= x /\ a \in L
            BY <1>2, <6>1 DEF Highest, Behind, L
          <6>3. a \in Ahead(l, x) /\ a < e
            BY <1>1, <2>0, <3>2, <5>4, <6>2 DEF Ahead, Behind, L
          <6> QED
            BY <1>1, <2>0, <5>2, <6>2, <6>3
        <5> QED
          BY <5>3, <5>4
      <4> QED
        BY <1>6, <3>0, <3>2, <4>1 DEF Lowest
    <3> QED
      BY <3>1, <3>2
  <2>2. ASSUME NEW x \in (L \ {e}) \cup {Root} PROVE Highest(n.prev[x], Behind(n, x))
    <3>0. Behind(n, x) = Behind(l, x) \ {e} /\ Highest(l.prev[x], Behind(l, x))
      BY <1>4, <2>0 DEF Behind, L
    <3>1. CASE x = b
      <4>1. Behind(l, x) \ {e} = Behind(l, e)
        <5>1. \A d \in L : d > e => x # Root /\ d >= x
          BY <1>2, <2>0, <3>1 DEF Lowest, Ahead, L
        <5>2. x # Root => x > e
          BY <1>1, <1>2, <2>0, <3>1 DEF Lowest, Ahead, L
        <5>3. \A d \in L : (d # e /\ (x = Root \/ d < x)) <=> d < e
          BY <1>1, <2>0, <5>1, <5>2
        <5> QED
          BY <1>1, <5>3 DEF Behind, L
      <4> QED
        BY <1>2, <1>6, <3>0, <3>1, <4>1
    <3>2. CASE x # b
      <4>1. l.prev[x] # e
        <5>1. SUFFICES ASSUME l.prev[x] = e PROVE FALSE
          OBVIOUS
        <5>2. e \in Behind(l, x) /\ \A d \in Behind(l, x) : e >= d
          BY <1>1, <3>0, <5>1 DEF Highest
        <5>3. CASE x = Root
          <6>0. \A d \in L : ~(d > e)
            BY <1>1, <2>0, <5>2, <5>3 DEF Behind, L
          <6>1. Ahead(l, e) = {}
            BY <1>1, <6>0 DEF Ahead, L
          <6> QED
            BY <1>2, <3>2, <5>3, <6>1 DEF Lowest
        <5>4. CASE x # Root
          <6>1. x \in Ahead(l, e)
            BY <1>1, <2>0, <5>2, <5>4 DEF Ahead, Behind, L
          <6>2. b \in Ahead(l, e) /\ b <= x /\ b \in L
            BY <1>2, <6>1 DEF Lowest, Ahead, L
          <6>3. b \in Behind(l, x) /\ b > e
            BY <1>1, <2>0, <3>2, <5>4, <6>2 DEF Ahead, Behind, L
          <6> QED
            BY <1>1, <2>0, <5>2, <6>2, <6>3
        <5> QED
          BY <5>3, <5>4
      <4> QED
        BY <1>6, <3>0, <3>2, <4>1 DEF Highest
    <3> QED
      BY <3>1, <3>2
  <2> QED
    BY <1>4, <2>1, <2>2 DEF Chained, L
<1>8. IsTracker(Removed(t)) /\ Removed(t).length = Cardinality(LiveIn(n))
  <2>1. t.length > 0 /\ t.length = Cardinality(L)
    BY ShapeFacts DEF Shape
  <2>2. Removed(t) \in Tracker /\ WithinLimits(Removed(t)) /\ Removed(t).length = t.length - 1
    BY <2>1, RemovedTracker DEF Shape, IsTracker
  <2>3. Removed(t).kind = t.kind /\ Removed(t).hardLimit = t.hardLimit
    BY <2>1 DEF Removed, SoftRemoved, Shape, IsTracker, Tracker
  <2>4. Cardinality(L \ {e}) = t.length - 1
    BY <1>0, <2>1, FS_RemoveElement
  <2> QED
    BY <1>4, <2>2, <2>3, <2>4 DEF IsTracker, Shape
<1> HIDE DEF n, L
<1>9. Shape(n, Removed(t)) /\ Grows(l, n)
  BY <1>1, <1>3, <1>5, <1>7, <1>8 DEF Shape, Grows
<1> QED
  BY <1>3, <1>4, <1>9 DEF n, L

\* The two ends of the list.
LEMMA Ends ==
  ASSUME NEW l, NEW t, Shape(l, t)
  PROVE  IF LiveIn(l) = {} THEN l.next[Root] = Root /\ l.prev[Root] = Root
         ELSE /\ l.next[Root] \in LiveIn(l) /\ \A d \in LiveIn(l) : l.next[Root] <= d
              /\ l.prev[Root] \in LiveIn(l) /\ \A d \in LiveIn(l) : l.prev[Root] >= d
  BY DEF Shape, Chained, Lowest, Highest, Ahead, Behind

----------------------------------------------------------------------------
\* The inductive invariant.

Waiting == {"WaitPush", "WaitPop", "IteratorWait"} \cup DrainNames

\* The call a goroutine is in, and the place its iterator waits at.
CallsKept ==
  \A p \in Procs : IF at[p] = "idle" THEN op[p] = Idle /\ p \notin cancelled
                   ELSE /\ op[p] \in Program[p] /\ op[p].name \in Waiting
                        /\ op[p].name = "IteratorWait" => cursor[p] # Nil

Draining == {p \in Procs : at[p] # "idle" /\ op[p].name \in DrainNames}

IInv == /\ TypeOK /\ Shape(list, tracker) /\ CallsKept
        /\ drainers = Cardinality(Draining)
        /\ NoLostWakeup /\ ForcePushFits

LEMMA ConstantFacts ==
  /\ IsFiniteSet(Procs) /\ Nil \notin Int
  /\ \A p \in Procs : \A c \in Program[p] : c \in Call /\ c.side \in Sides /\ c # Idle
  /\ \A c : CondOf(c) \in Conds
<1>1. \A p \in Procs : Program[p] \subseteq Call
  BY DequeAssumption
<1>2. \A c \in Call : c.side \in Sides /\ c.name \in Names
  BY DEF Call
<1>3. Idle.name \notin Names
  BY DEF Idle, Names
<1>4. \A c : CondOf(c) \in Conds
  BY DEF CondOf, Conds
<1> QED
  BY <1>1, <1>2, <1>3, <1>4, DequeAssumption

Asleep == {q \in Procs : at[q] = "asleep"}

LEMMA NotifyWakesAll == notify = Asleep /\ \A c \in Conds : Sleepers(c) \subseteq Asleep
  BY ConstantFacts DEF notify, Sleepers, Asleep, Conds

----------------------------------------------------------------------------
\* What every step of a goroutine does, its cancellation apart: W are the
\* goroutines it wakes.

Scheduled(p, W) ==
  /\ at' \in [Procs -> {"idle", "asleep", "woken"}] /\ op' \in [Procs -> Call \cup {Idle}]
  /\ cancelled' \subseteq Procs
  /\ \A q \in Procs \ {p} : /\ op'[q] = op[q] /\ (q \in cancelled' <=> q \in cancelled)
                            /\ at'[q] = IF q \in W THEN "woken" ELSE at[q]
  /\ \/ at'[p] = "idle" /\ op'[p] = Idle /\ p \notin cancelled'
     \/ at'[p] = "asleep" /\ op'[p] \in Program[p] /\ op'[p].name \in Waiting

Drains(s, c) == IF s # "idle" /\ c.name \in DrainNames THEN 1 ELSE 0

Reports == \/ ret' = ret
           \/ /\ ret'.call \in Call \cup {Idle} /\ ret'.item \in list'.lo..list'.hi
              /\ ForcePushFits'

WakesGrow == wakes' \in [Conds -> Nat] /\ \A c \in Conds : wakes[c] <= wakes'[c]

Effect(p, W) ==
  /\ at[p] # "asleep" /\ W \subseteq Asleep /\ Scheduled(p, W)
  /\ Shape(list', tracker') /\ Grows(list, list') /\ closed' \in BOOLEAN
  /\ UNCHANGED <<tracker, closed, list>> \/ Asleep \subseteq W
  /\ drainers' = drainers + Drains(at'[p], op'[p]) - Drains(at[p], op[p])
  /\ drainers' > drainers => Sleepers("updates") \subseteq W
  /\ WakesGrow
  /\ at'[p] = "asleep" => ~WaitOver(p)' /\ p \notin cancelled'
  /\ cursor' \in [Procs -> {Nil} \cup list'.lo..list'.hi]
  /\ \A q \in Procs \ {p} : cursor'[q] = cursor[q]
  /\ op'[p].name = "IteratorWait" => cursor'[p] # Nil
  /\ Reports

LEMMA Returning ==
  ASSUME TypeOK, NEW p \in Procs, NEW c, NEW e, NEW item, NEW W, Return(p, c, e, item, W)
  PROVE  /\ Scheduled(p, W) /\ at'[p] = "idle" /\ op'[p] = Idle
         /\ ret' = [call |-> c, err |-> e, item |-> item]
         /\ Drains(at'[p], op'[p]) = 0 /\ op'[p].name # "IteratorWait"
<1>1. Idle.name = "none"
  BY DEF Idle
<1> QED
  BY <1>1 DEF TypeOK, Return, Goes, Scheduled, Drains

LEMMA Sleeping ==
  ASSUME TypeOK, NEW p \in Procs, NEW c \in Program[p], c.name \in Waiting, NEW W, Sleep(p, c, W)
  PROVE  /\ Scheduled(p, W) /\ at'[p] = "asleep" /\ op'[p] = c /\ cancelled' = cancelled
         /\ ret' = ret
<1>1. c \in Call
  BY ConstantFacts
<1> QED
  BY <1>1 DEF TypeOK, Sleep, Goes, Scheduled

LEMMA BoundsKept ==
  ASSUME TypeOK, Grows(list, list')
  PROVE  /\ \A i \in list.lo..list.hi : i \in list'.lo..list'.hi
         /\ UNCHANGED cursor => cursor' \in [Procs -> {Nil} \cup list'.lo..list'.hi]
  BY DEF TypeOK, Grows

LEMMA Stays == ASSUME TypeOK, UNCHANGED list PROVE Grows(list, list')
  BY DEF TypeOK, Grows

\* A call that returns with an error and changes nothing.
LEMMA RefusedEffect ==
  ASSUME IInv, NEW p \in Procs, NEW c \in Program[p], NEW e, NEW W \in SUBSET Asleep,
         Refused(p, c, e, W), at[p] # "asleep", Drains(at[p], op[p]) = 0,
         UNCHANGED cursor, WakesGrow,
         c.name = "ForcePush" => e \in {"ErrQueueDraining", "ErrQueueClosed"}
  PROVE  Effect(p, W)
<1>1. /\ Scheduled(p, W) /\ at'[p] = "idle" /\ op'[p].name # "IteratorWait"
      /\ ret' = [call |-> c, err |-> e, item |-> 0] /\ Drains(at'[p], op'[p]) = 0
  BY Returning DEF Refused, IInv
<1>2. UNCHANGED <<tracker, drainers, closed, list>>
  BY DEF Refused, shared
<1>3. Grows(list, list') /\ cursor' \in [Procs -> {Nil} \cup list'.lo..list'.hi]
  BY <1>2, Stays, BoundsKept DEF IInv
<1>4. Reports
  <2>1. c \in Call /\ 0 \in list'.lo..list'.hi
    BY <1>2, ConstantFacts DEF IInv, TypeOK
  <2> QED
    BY <1>1, <2>1 DEF Reports, ForcePushFits
<1> QED
  BY <1>1, <1>2, <1>3, <1>4 DEF Effect, IInv, TypeOK

\* add: refused, or of one more element to a list that nobody else will see half done.
LEMMA AddEffect ==
  ASSUME IInv, NEW p \in Procs, NEW c \in Program[p], NEW l, NEW t, NEW W \in SUBSET Asleep,
         add(p, c, l, t, W), Shape(l, t), Grows(list, l),
         (l = list /\ t = tracker) \/ Asleep \subseteq W,
         c.name = "ForcePush" => AddError(t) = "nil",
         at[p] # "asleep", Drains(at[p], op[p]) = 0, UNCHANGED cursor, WakesGrow
  PROVE  \E V \in SUBSET Asleep : Effect(p, V)
<1>0. c.side \in Sides /\ c \in Call
  BY ConstantFacts
<1>1. CASE checkOpen # "nil"
  BY <1>1, RefusedEffect DEF add, checkOpen
<1>2. ASSUME checkOpen = "nil", AddError(t) # "nil" PROVE Effect(p, W \cup Sleepers("updates"))
  <2>1. /\ list' = l /\ tracker' = t /\ UNCHANGED <<drainers, closed>>
        /\ Return(p, c, AddError(t), 0, W \cup Sleepers("updates"))
    BY <1>2 DEF add
  <2>2. /\ Scheduled(p, W \cup Sleepers("updates")) /\ at'[p] = "idle" /\ op'[p].name # "IteratorWait"
        /\ ret' = [call |-> c, err |-> AddError(t), item |-> 0] /\ Drains(at'[p], op'[p]) = 0
    BY <2>1, Returning DEF IInv
  <2>3. cursor' \in [Procs -> {Nil} \cup list'.lo..list'.hi] /\ 0 \in list'.lo..list'.hi
    BY <2>1, BoundsKept DEF IInv, TypeOK
  <2>4. Reports
    BY <1>0, <1>2, <2>2, <2>3 DEF Reports, ForcePushFits
  <2>5. W \cup Sleepers("updates") \subseteq Asleep
    BY NotifyWakesAll DEF Conds
  <2> QED
    BY <2>1, <2>2, <2>3, <2>4, <2>5 DEF Effect, IInv, TypeOK
<1>3. ASSUME checkOpen = "nil", AddError(t) = "nil" PROVE Effect(p, W \cup notify)
  <2>1. /\ list' = Linked(l, c.side) /\ tracker' = Added(t) /\ UNCHANGED <<drainers, closed>>
        /\ Return(p, c, "nil", New(l, c.side), W \cup notify)
    BY <1>3 DEF add, New
  <2>2. /\ Scheduled(p, W \cup notify) /\ at'[p] = "idle" /\ op'[p].name # "IteratorWait"
        /\ ret' = [call |-> c, err |-> "nil", item |-> New(l, c.side)] /\ Drains(at'[p], op'[p]) = 0
    BY <2>1, Returning DEF IInv
  <2>3. Shape(list', tracker') /\ New(l, c.side) \in list'.lo..list'.hi /\ Grows(l, list')
    BY <1>0, <1>3, <2>1, LinkedKeeps
  <2>4. Grows(list, list')
    BY <2>3 DEF Grows, IInv, TypeOK
  <2>5. cursor' \in [Procs -> {Nil} \cup list'.lo..list'.hi]
    BY <2>4, BoundsKept DEF IInv
  <2>6. Reports
    BY <1>0, <2>2, <2>3 DEF Reports, ForcePushFits
  <2>7. W \cup notify = Asleep
    BY NotifyWakesAll
  <2> QED
    BY <2>1, <2>2, <2>3, <2>4, <2>5, <2>6, <2>7 DEF Effect, IInv, TypeOK
<1> QED
  BY <1>1, <1>2, <1>3, NotifyWakesAll DEF add, Conds

LEMMA EndLive ==
  ASSUME Shape(list, tracker), NEW side \in Sides, End(side) # Root
  PROVE  End(side) \in Live
  BY ShapeFacts DEF End, Live, LiveIn

LEMMA PopEffect ==
  ASSUME IInv, NEW p \in Procs, NEW c \in Program[p], c.name # "ForcePush", pop(p, c), End(c.side) # Root,
         at[p] # "asleep", Drains(at[p], op[p]) = 0, UNCHANGED cursor, WakesGrow
  PROVE  Effect(p, Asleep)
<1>0. c \in Call /\ c.side \in Sides /\ notify = Asleep
  BY ConstantFacts, NotifyWakesAll
<1>1. End(c.side) \in LiveIn(list)
  BY <1>0, EndLive DEF IInv, Live, LiveIn
<1>2. /\ list' = Unlinked(list, End(c.side)) /\ tracker' = Removed(tracker)
      /\ Return(p, c, "nil", End(c.side), Asleep) /\ UNCHANGED <<drainers, closed>>
  BY <1>0 DEF pop
<1>3. /\ Scheduled(p, Asleep) /\ at'[p] = "idle" /\ op'[p].name # "IteratorWait"
      /\ ret' = [call |-> c, err |-> "nil", item |-> End(c.side)] /\ Drains(at'[p], op'[p]) = 0
  BY <1>2, Returning DEF IInv
<1>4. Shape(list', tracker') /\ Grows(list, list')
  BY <1>1, <1>2, UnlinkedKeeps DEF IInv
<1>5. End(c.side) \in list'.lo..list'.hi /\ cursor' \in [Procs -> {Nil} \cup list'.lo..list'.hi]
  BY <1>1, <1>4, BoundsKept DEF IInv, LiveIn
<1>6. Reports
  BY <1>0, <1>3, <1>5 DEF Reports, ForcePushFits
<1> QED
  BY <1>2, <1>3, <1>4, <1>5, <1>6 DEF Effect, IInv, TypeOK

\* A wait that goes on: nothing changes but the goroutine's place, and perhaps
\* its iterator's.
LEMMA SleepEffect ==
  ASSUME IInv, NEW p \in Procs, NEW c \in Program[p], c.name \in Waiting, Sleep(p, c, {}),
         UNCHANGED <<tracker, closed, list>>,
         drainers' = drainers + Drains("asleep", c) - Drains(at[p], op[p]), drainers' <= drainers,
         at[p] # "asleep", p \notin cancelled, WakesGrow, ~WaitOver(p)',
         cursor' \in [Procs -> {Nil} \cup list.lo..list.hi],
         \A q \in Procs \ {p} : cursor'[q] = cursor[q],
         c.name = "IteratorWait" => cursor'[p] # Nil
  PROVE  Effect(p, {})
<1>1. /\ Scheduled(p, {}) /\ at'[p] = "asleep" /\ op'[p] = c /\ cancelled' = cancelled /\ ret' = ret
  BY Sleeping DEF IInv
<1>2. Grows(list, list')
  BY Stays DEF IInv
<1>3. drainers \in Nat /\ drainers' \in Int /\ closed \in BOOLEAN
  BY DEF IInv, TypeOK, Drains
<1>4. ~(drainers' > drainers)
  BY <1>3
<1> QED
  BY <1>1, <1>2, <1>3, <1>4 DEF Effect, IInv, Reports

\* The guards of the waiting calls.
LEMMA TurnFacts ==
  ASSUME IInv, NEW p \in Procs, NEW c, NEW x \in BOOLEAN, NEW name \in Waiting \ DrainNames,
         Turn(p, name, c, x)
  PROVE  /\ at[p] # "asleep" /\ c \in Program[p] /\ c.name = name /\ Drains(at[p], op[p]) = 0
         /\ WakesGrow /\ (~x => p \notin cancelled)
<1>1. CondOf(c) \in Conds /\ wakes \in [Conds -> Nat]
  BY ConstantFacts DEF IInv, TypeOK
<1>2. CASE at[p] = "idle"
  <2>1. p \notin cancelled /\ Starts(p, name, c) /\ wakes' = IF x THEN Spawned(CondOf(c)) ELSE wakes
    BY <1>2 DEF IInv, CallsKept, Turn
  <2> QED
    BY <1>1, <1>2, <2>1 DEF Starts, Drains, WakesGrow, Spawned
<1>3. CASE at[p] # "idle"
  BY <1>1, <1>3 DEF IInv, CallsKept, Turn, Starts, Drains, WakesGrow
<1> QED
  BY <1>2, <1>3

LEMMA StartFacts ==
  ASSUME IInv, NEW p \in Procs, at[p] = "idle"
  PROVE  at[p] # "asleep" /\ Drains(at[p], op[p]) = 0 /\ p \notin cancelled
  BY DEF IInv, CallsKept, Drains

----------------------------------------------------------------------------
\* The iterators' neighbours.

LEMMA LiveBounded ==
  ASSUME IsList(list) PROVE Live \in SUBSET (list.lo..list.hi) /\ Live = LiveIn(list) /\ Root \notin Live
                            /\ list.lo \in Int /\ list.hi \in Int /\ Live \in SUBSET Int
  BY DEF Live, LiveIn, IsList

LEMMA NearestIs ==
  ASSUME IsList(list), NEW e \in Int, NEW side \in Sides
  PROVE  LET S == IF e = Root THEN Live ELSE Beyond(Live, e, side)
             n == Nearest(e, side)
         IN  IF S = {} THEN n = Root
             ELSE n \in S /\ \A d \in S : IF side = "front" THEN n <= d ELSE n >= d
<1> DEFINE S == IF e = Root THEN Live ELSE Beyond(Live, e, side)
<1>1. S \in SUBSET (list.lo..list.hi) /\ list.lo \in Int /\ list.hi \in Int
  BY LiveBounded DEF Beyond
<1>2. S # {} => /\ FirstOf(S, side) \in S
                /\ \A d \in S : IF side = "front" THEN FirstOf(S, side) <= d ELSE FirstOf(S, side) >= d
  BY <1>1, FirstExists
<1>3. Nearest(e, side) = IF S = {} THEN Root ELSE FirstOf(S, side)
  BY DEF Nearest
<1> HIDE DEF S
<1>4. IF S = {} THEN Nearest(e, side) = Root
      ELSE /\ Nearest(e, side) \in S
           /\ \A d \in S : IF side = "front" THEN Nearest(e, side) <= d ELSE Nearest(e, side) >= d
  BY <1>2, <1>3
<1> QED
  BY <1>4 DEF S

\* The links agree with the order of the sequence numbers.
LEMMA LinksAreNearest ==
  ASSUME IsList(list), Chained(list), NEW e \in Live \cup {Root}
  PROVE  list.next[e] = Nearest(e, "front") /\ list.prev[e] = Nearest(e, "back")
<1>0. /\ Live \in SUBSET Int /\ Live = LiveIn(list) /\ Root \notin Live /\ Root \in Int
      /\ "front" \in Sides /\ "back" \in Sides
  BY LiveBounded DEF Root, Sides
<1>1. /\ Lowest(list.next[e], Ahead(list, e)) /\ Highest(list.prev[e], Behind(list, e))
      /\ Ahead(list, e) \in SUBSET Int /\ Behind(list, e) \in SUBSET Int
  BY <1>0 DEF Chained, Ahead, Behind
<1>2. /\ Ahead(list, e) = IF e = Root THEN Live ELSE Beyond(Live, e, "front")
      /\ Behind(list, e) = IF e = Root THEN Live ELSE Beyond(Live, e, "back")
  BY <1>0 DEF Ahead, Behind, Beyond
<1>3. Nearest(e, "front") = IF Ahead(list, e) = {} THEN Root ELSE FirstOf(Ahead(list, e), "front")
  BY <1>2 DEF Nearest
<1>4. Nearest(e, "back") = IF Behind(list, e) = {} THEN Root ELSE FirstOf(Behind(list, e), "back")
  BY <1>2 DEF Nearest
<1>5. list.next[e] = IF Ahead(list, e) = {} THEN Root ELSE FirstOf(Ahead(list, e), "front")
  BY <1>0, <1>1, FirstUnique DEF Lowest
<1>6. list.prev[e] = IF Behind(list, e) = {} THEN Root ELSE FirstOf(Behind(list, e), "back")
  BY <1>0, <1>1, FirstUnique DEF Highest
<1> QED
  BY <1>3, <1>4, <1>5, <1>6

\* So an iterator goes to the nearest live element, whether its own is live or not.
LEMMA NeighborIsNearest ==
  ASSUME IsList(list), Chained(list), NEW e \in list.lo..list.hi, NEW side \in Sides
  PROVE  neighbor(e, side) = Nearest(e, side) /\ neighbor(e, side) \in Live \cup {Root}
         /\ neighbor(e, side) \in list.lo..list.hi
<1>0. e \in Int /\ Root \notin list.removed /\ Root \in list.lo..list.hi
  BY DEF IsList, Root
<1>1. ASSUME e \in list.removed PROVE neighbor(e, side) = Nearest(e, side)
  BY <1>0, <1>1 DEF neighbor, Nearest
<1>2. ASSUME e \notin list.removed PROVE neighbor(e, side) = Nearest(e, side)
  <2>1. e \in Live \cup {Root}
    BY <1>2 DEF Live
  <2>2. list.next[e] = Nearest(e, "front") /\ list.prev[e] = Nearest(e, "back")
    BY <2>1, LinksAreNearest
  <2> QED
    BY <1>2, <2>2 DEF neighbor, Sides
<1>3. Nearest(e, side) \in Live \cup {Root}
  <2>1. Beyond(Live, e, side) \subseteq Live
    BY DEF Beyond
  <2> QED
    BY <1>0, <2>1, NearestIs
<1>4. Live \subseteq list.lo..list.hi
  BY LiveBounded
<1> QED
  BY <1>0, <1>1, <1>2, <1>3, <1>4

\* Nothing a sleeper waits for has happened if the deque has not changed.
LEMMA WaitOverSame ==
  ASSUME TypeOK, TypeOK', NEW p \in Procs, UNCHANGED <<tracker, closed, list>>,
         op'[p] = op[p], cursor'[p] = cursor[p],
         op[p].name = "WaitPush" => drainers' <= drainers, WaitOver(p)'
  PROVE  WaitOver(p)
<1>1. Live' = Live
  BY DEF Live
<1>2. neighbor(cursor[p], op[p].side)' = neighbor(cursor[p], op[p].side)
  BY <1>1 DEF neighbor, End
<1>3. checkOpen' # "nil" /\ drainers' <= drainers => checkOpen # "nil"
  BY DEF checkOpen, TypeOK
<1> QED
  BY <1>2, <1>3 DEF WaitOver, End

----------------------------------------------------------------------------
\* Every action has an Effect.

LEMMA PushEffect == ASSUME IInv, NEW p \in Procs, Push(p) PROVE \E W \in SUBSET Asleep : Effect(p, W)
<1>1. PICK c \in Program[p] : Starts(p, "Push", c) /\ add(p, c, list, tracker, {})
                              /\ UNCHANGED <<cursor, wakes>>
  BY DEF Push
<1>2. Grows(list, list) /\ WakesGrow
  BY <1>1 DEF Grows, IInv, TypeOK, WakesGrow
<1> QED
  BY <1>1, <1>2, StartFacts, AddEffect DEF Starts, IInv

\* A forced push that finds room adds; one that does not pops first, and then fits.
LEMMA RoomToAdd == ASSUME NEW t, IsTracker(t), Capacity(t) # t.length PROVE AddError(t) = "nil"
  BY LimitsAssumption DEF Capacity, AddError, IsTracker, WithinLimits, Tracker, Kinds

LEMMA RoomAfterRemoval ==
  ASSUME NEW t, IsTracker(t), Capacity(t) = t.length
  PROVE  t.length > 0 /\ AddError(Removed(t)) = "nil"
<1>1. t.length > 0
  BY LimitsAssumption DEF Capacity, IsTracker, WithinLimits, Tracker, Kinds
<1>2. CASE t.kind = "soft"
  <2> DEFINE q == t.softQuota
  <2>1. q \in Nat /\ q >= 1 /\ t.length = q /\ ~(q > 1 /\ q - 1 < q \div 2)
    BY <1>2 DEF Capacity, IsTracker, WithinLimits, Tracker
  <2>2. Removed(t).kind = "soft" /\ Removed(t).length = q - 1 /\ Removed(t).softQuota = q
    BY <1>2, <2>1 DEF Removed, SoftRemoved, IsTracker, Tracker
  <2> QED
    BY <1>1, <2>1, <2>2 DEF AddError
<1>3. CASE t.kind # "soft"
  <2>1. Removed(t).kind = t.kind /\ Removed(t).length = t.length - 1
        /\ Removed(t).hardLimit = t.hardLimit
    BY <1>1, <1>3 DEF Removed, IsTracker, Tracker
  <2> QED
    BY <1>1, <1>3, <2>1 DEF AddError, IsTracker, WithinLimits, Tracker, Kinds
<1> QED
  BY <1>1, <1>2, <1>3

LEMMA OtherSide == ASSUME NEW side \in Sides PROVE Other(side) \in Sides
  BY DEF Other, Sides

LEMMA ForcedRoom ==
  ASSUME Shape(list, tracker), Capacity(tracker) = tracker.length, NEW side \in Sides
  PROVE  /\ End(side) \in Live /\ Shape(Unlinked(list, End(side)), Removed(tracker))
         /\ Grows(list, Unlinked(list, End(side))) /\ AddError(Removed(tracker)) = "nil"
<1>1. tracker.length > 0 /\ AddError(Removed(tracker)) = "nil" /\ tracker.length # 0
  BY RoomAfterRemoval DEF Shape
<1>2. LiveIn(list) # {} /\ Root \notin LiveIn(list)
  BY <1>1, ShapeFacts DEF LiveIn
<1>3. End(side) # Root
  BY <1>2, Ends DEF End
<1>4. End(side) \in LiveIn(list) /\ End(side) \in Live
  BY <1>3, EndLive DEF Live, LiveIn
<1> QED
  BY <1>1, <1>4, UnlinkedKeeps

LEMMA ForcePushEffect ==
  ASSUME IInv, NEW p \in Procs, ForcePush(p) PROVE \E W \in SUBSET Asleep : Effect(p, W)
<1>1. PICK c \in Program[p] :
        /\ Starts(p, "ForcePush", c) /\ UNCHANGED <<cursor, wakes>>
        /\ \/ checkOpen # "nil" /\ Refused(p, c, checkOpen, {})
           \/ /\ checkOpen = "nil" /\ Capacity(tracker) # tracker.length
              /\ add(p, c, list, tracker, {})
           \/ /\ checkOpen = "nil" /\ Capacity(tracker) = tracker.length
              /\ add(p, c, Unlinked(list, End(Other(c.side))), Removed(tracker), notify)
  BY DEF ForcePush
<1>2. /\ Grows(list, list) /\ WakesGrow /\ Shape(list, tracker) /\ Other(c.side) \in Sides
      /\ at[p] # "asleep" /\ Drains(at[p], op[p]) = 0
  BY <1>1, StartFacts, ConstantFacts, OtherSide DEF Starts, Grows, IInv, TypeOK, WakesGrow
<1>3. CASE checkOpen # "nil"
  BY <1>1, <1>2, <1>3, RefusedEffect DEF checkOpen
<1>4. CASE checkOpen = "nil" /\ Capacity(tracker) # tracker.length
  <2>1. AddError(tracker) = "nil"
    BY <1>2, <1>4, RoomToAdd DEF Shape
  <2> QED
    BY <1>1, <1>2, <1>4, <2>1, AddEffect
<1>5. CASE checkOpen = "nil" /\ Capacity(tracker) = tracker.length
  <2>1. /\ Shape(Unlinked(list, End(Other(c.side))), Removed(tracker))
        /\ Grows(list, Unlinked(list, End(Other(c.side)))) /\ AddError(Removed(tracker)) = "nil"
    BY <1>2, <1>5, ForcedRoom
  <2>2. add(p, c, Unlinked(list, End(Other(c.side))), Removed(tracker), Asleep)
    BY <1>1, <1>5, NotifyWakesAll
  <2> QED
    BY <1>1, <1>2, <2>1, <2>2, AddEffect
<1> QED
  BY <1>3, <1>4, <1>5

LEMMA WaitPushEffect ==
  ASSUME IInv, NEW p \in Procs, WaitPush(p) PROVE \E W \in SUBSET Asleep : Effect(p, W)
<1>1. PICK c \in Program[p], x \in BOOLEAN :
        /\ Turn(p, "WaitPush", c, x) /\ UNCHANGED cursor
        /\ \/ checkOpen # "nil" /\ Refused(p, c, checkOpen, {})
           \/ checkOpen = "nil" /\ x /\ Refused(p, c, "ctx", {})
           \/ checkOpen = "nil" /\ ~x /\ Capacity(tracker) > tracker.length
              /\ add(p, c, list, tracker, {})
           \/ checkOpen = "nil" /\ ~x /\ Capacity(tracker) <= tracker.length
              /\ Sleep(p, c, {}) /\ UNCHANGED shared
  BY DEF WaitPush
<1>2. /\ at[p] # "asleep" /\ c.name = "WaitPush" /\ Drains(at[p], op[p]) = 0
      /\ WakesGrow /\ (~x => p \notin cancelled) /\ c.name \in Waiting
  BY <1>1, TurnFacts DEF Waiting, DrainNames
<1>3. ASSUME NEW e, Refused(p, c, e, {}) PROVE Effect(p, {})
  BY <1>1, <1>2, <1>3, RefusedEffect
<1>4. CASE add(p, c, list, tracker, {})
  <2>1. Grows(list, list) /\ Shape(list, tracker)
    BY DEF Grows, IInv, TypeOK
  <2> QED
    BY <1>1, <1>2, <1>4, <2>1, AddEffect
<1>5. ASSUME checkOpen = "nil", ~x, Capacity(tracker) <= tracker.length, Sleep(p, c, {}), UNCHANGED shared
      PROVE  Effect(p, {})
  <2>1. /\ UNCHANGED <<tracker, drainers, closed, list>> /\ op'[p] = c /\ Drains("asleep", c) = 0
    BY <1>2, <1>5, Sleeping DEF shared, Drains, DrainNames, IInv
  <2>2. ~WaitOver(p)'
    <3>1. checkOpen' = "nil"
      BY <1>5, <2>1 DEF checkOpen
    <3>2. Capacity(tracker) \in Int /\ tracker.length \in Int
      BY LimitsAssumption DEF IInv, TypeOK, Tracker, Kinds, Capacity
    <3> QED
      BY <1>2, <1>5, <2>1, <3>1, <3>2 DEF WaitOver, DrainNames
  <2>3. cursor' \in [Procs -> {Nil} \cup list.lo..list.hi] /\ drainers \in Nat
    BY <1>1 DEF IInv, TypeOK
  <2> QED
    BY <1>1, <1>2, <1>5, <2>1, <2>2, <2>3, SleepEffect
<1> QED
  BY <1>1, <1>3, <1>4, <1>5

LEMMA TakeEffect ==
  ASSUME IInv, NEW p \in Procs, Pop(p) \/ WaitPop(p) PROVE \E W \in SUBSET Asleep : Effect(p, W)
<1>1. CASE Pop(p)
  <2>1. PICK c \in Program[p] :
          /\ Starts(p, "Pop", c) /\ UNCHANGED <<cursor, wakes>>
          /\ Refused(p, c, "end", {}) \/ (End(c.side) # Root /\ pop(p, c))
    BY <1>1 DEF Pop
  <2>2. WakesGrow /\ at[p] # "asleep" /\ Drains(at[p], op[p]) = 0 /\ c.name = "Pop"
    BY <2>1, StartFacts DEF Starts, WakesGrow, IInv, TypeOK
  <2>3. CASE Refused(p, c, "end", {})
    BY <2>1, <2>2, <2>3, RefusedEffect
  <2>4. CASE End(c.side) # Root /\ pop(p, c)
    BY <2>1, <2>2, <2>4, PopEffect
  <2> QED
    BY <2>1, <2>3, <2>4
<1>2. CASE WaitPop(p)
  <2>1. PICK c \in Program[p], x \in BOOLEAN :
          /\ Turn(p, "WaitPop", c, x) /\ UNCHANGED cursor
          /\ \/ \E e \in {"ErrQueueClosed", "ctx"} : Refused(p, c, e, {})
             \/ End(c.side) # Root /\ pop(p, c)
             \/ ~closed /\ ~x /\ End(c.side) = Root /\ Sleep(p, c, {}) /\ UNCHANGED shared
    BY <1>2 DEF WaitPop
  <2>2. /\ at[p] # "asleep" /\ c.name = "WaitPop" /\ Drains(at[p], op[p]) = 0
        /\ WakesGrow /\ (~x => p \notin cancelled) /\ c.name \in Waiting
    BY <2>1, TurnFacts DEF Waiting, DrainNames
  <2>3. ASSUME NEW e, Refused(p, c, e, {}) PROVE Effect(p, {})
    BY <2>1, <2>2, <2>3, RefusedEffect
  <2>4. CASE End(c.side) # Root /\ pop(p, c)
    BY <2>1, <2>2, <2>4, PopEffect
  <2>5. ASSUME ~closed, ~x, End(c.side) = Root, Sleep(p, c, {}), UNCHANGED shared
        PROVE  Effect(p, {})
    <3>1. /\ UNCHANGED <<tracker, drainers, closed, list>> /\ op'[p] = c /\ Drains("asleep", c) = 0
      BY <2>2, <2>5, Sleeping DEF shared, Drains, DrainNames, IInv
    <3>2. ~WaitOver(p)'
      BY <2>2, <2>5, <3>1 DEF WaitOver, End, DrainNames
    <3>3. cursor' \in [Procs -> {Nil} \cup list.lo..list.hi] /\ drainers \in Nat
      BY <2>1 DEF IInv, TypeOK
    <3> QED
      BY <2>1, <2>2, <2>5, <3>1, <3>2, <3>3, SleepEffect
  <2> QED
    BY <2>1, <2>3, <2>4, <2>5
<1> QED
  BY <1>1, <1>2

\* The drains.
LEMMA DrainedEffect ==
  ASSUME IInv, NEW p \in Procs, NEW c \in Program[p], NEW e, NEW x \in BOOLEAN, NEW W \in SUBSET Asleep,
         c.name \in DrainNames, at[p] # "asleep",
         Drained(p, c, e, drainers - Drains(at[p], op[p]), x, W)
  PROVE  \E V \in SUBSET Asleep : Effect(p, V)
<1> DEFINE closes == c.name = "Shutdown" /\ e = "nil"
           V == W \cup (IF closes THEN notify ELSE {})
<1>1. /\ Return(p, c, e, 0, V) /\ UNCHANGED <<tracker, list, cursor>>
      /\ drainers' = drainers - Drains(at[p], op[p]) /\ closed' = (closed \/ closes)
      /\ wakes' = IF x THEN wakes ELSE Spawned("updates")
  BY DEF Drained
<1>2. V \subseteq Asleep /\ (closes => V = Asleep)
  BY NotifyWakesAll
<1> HIDE DEF V
<1>3. /\ Scheduled(p, V) /\ at'[p] = "idle" /\ op'[p].name # "IteratorWait"
      /\ ret' = [call |-> c, err |-> e, item |-> 0] /\ Drains(at'[p], op'[p]) = 0
  BY <1>1, Returning DEF IInv
<1>4. Grows(list, list') /\ cursor' \in [Procs -> {Nil} \cup list'.lo..list'.hi]
  BY <1>1, Stays, BoundsKept DEF IInv
<1>5. Reports
  <2>1. c \in Call /\ 0 \in list'.lo..list'.hi /\ c.name # "ForcePush"
    BY <1>1, ConstantFacts DEF IInv, TypeOK, DrainNames
  <2> QED
    BY <1>3, <2>1 DEF Reports, ForcePushFits
<1>6. WakesGrow
  BY <1>1 DEF WakesGrow, Spawned, IInv, TypeOK, Conds
<1>7. closed' \in BOOLEAN /\ (UNCHANGED <<tracker, closed, list>> \/ Asleep \subseteq V)
  BY <1>1, <1>2 DEF IInv, TypeOK
<1>8. ~(drainers' > drainers) /\ drainers' = drainers + 0 - Drains(at[p], op[p])
  BY <1>1 DEF IInv, TypeOK, Drains
<1>9. Shape(list', tracker')
  BY <1>1 DEF IInv
<1>10. Effect(p, V)
  BY <1>1, <1>2, <1>3, <1>4, <1>5, <1>6, <1>7, <1>8, <1>9 DEF Effect
<1> QED
  BY <1>2, <1>10

LEMMA DrainEnterEffect ==
  ASSUME IInv, NEW p \in Procs, DrainEnter(p) PROVE \E W \in SUBSET Asleep : Effect(p, W)
<1>1. PICK c \in Program[p] :
        /\ \E name \in DrainNames : Starts(p, name, c)
        /\ \/ (\E e \in {"ErrQueueClosed", "ctx"} : Refused(p, c, e, {})) /\ UNCHANGED <<cursor, wakes>>
           \/ Drained(p, c, "nil", drainers, FALSE, Sleepers("updates"))
           \/ /\ ~closed /\ tracker.length > 0
              /\ drainers' = drainers + 1
              /\ Sleep(p, c, Sleepers("updates"))
              /\ UNCHANGED <<tracker, closed, list, cursor, wakes>>
  BY DEF DrainEnter
<1>2. /\ at[p] # "asleep" /\ Drains(at[p], op[p]) = 0 /\ p \notin cancelled
      /\ c.name \in DrainNames /\ c.name \in Waiting /\ c.name # "ForcePush" /\ drainers \in Nat
      /\ Sleepers("updates") \in SUBSET Asleep
  BY <1>1, StartFacts, NotifyWakesAll DEF Starts, DrainNames, Waiting, Conds, IInv, TypeOK
<1>3. ASSUME NEW e, Refused(p, c, e, {}), UNCHANGED <<cursor, wakes>> PROVE Effect(p, {})
  <2>1. WakesGrow
    BY <1>3 DEF WakesGrow, IInv, TypeOK
  <2> QED
    BY <1>2, <1>3, <2>1, RefusedEffect
<1>4. CASE Drained(p, c, "nil", drainers, FALSE, Sleepers("updates"))
  <2>0. drainers - Drains(at[p], op[p]) = drainers
    BY <1>2
  <2>1. Drained(p, c, "nil", drainers - Drains(at[p], op[p]), FALSE, Sleepers("updates"))
    BY <1>4, <2>0
  <2> QED
    BY <1>2, <2>1, DrainedEffect
<1>5. ASSUME ~closed, tracker.length > 0, drainers' = drainers + 1, Sleep(p, c, Sleepers("updates")),
             UNCHANGED <<tracker, closed, list, cursor, wakes>>
      PROVE  Effect(p, Sleepers("updates"))
  <2>1. /\ Scheduled(p, Sleepers("updates")) /\ at'[p] = "asleep" /\ op'[p] = c
        /\ cancelled' = cancelled /\ ret' = ret
    BY <1>2, <1>5, Sleeping DEF IInv
  <2>2. Drains(at'[p], op'[p]) = 1 /\ op'[p].name # "IteratorWait"
    BY <1>2, <2>1 DEF Drains, DrainNames
  <2>3. ~WaitOver(p)'
    <3>1. tracker.length # 0
      BY <1>5
    <3> QED
      BY <1>2, <1>5, <2>1, <3>1 DEF WaitOver, DrainNames
  <2>4. Grows(list, list') /\ cursor' \in [Procs -> {Nil} \cup list'.lo..list'.hi] /\ WakesGrow
    BY <1>5, Stays, BoundsKept DEF IInv, WakesGrow, TypeOK
  <2>5. drainers' = drainers + 1 - 0
    BY <1>2, <1>5
  <2> QED
    BY <1>2, <1>5, <2>1, <2>2, <2>3, <2>4, <2>5 DEF Effect, Reports, IInv, TypeOK
<1> QED
  BY <1>1, <1>2, <1>3, <1>4, <1>5

LEMMA DrainResumeEffect ==
  ASSUME IInv, NEW p \in Procs, DrainResume(p) PROVE \E W \in SUBSET Asleep : Effect(p, W)
<1>1. /\ at[p] = "woken" /\ op[p].name \in DrainNames
      /\ \/ \E e : Drained(p, op[p], e, drainers - 1, p \in cancelled, {})
         \/ \E e : Drained(p, op[p], e, drainers - 1, TRUE, {})
         \/ /\ tracker.length > 0 /\ ~closed /\ p \notin cancelled
            /\ Sleep(p, op[p], {}) /\ UNCHANGED <<shared, cursor, wakes>>
  BY Zenon DEF DrainResume
<1>2. /\ op[p] \in Program[p] /\ op[p].name \in Waiting /\ Drains(at[p], op[p]) = 1
      /\ Drains("asleep", op[p]) = 1 /\ drainers \in Nat
  BY <1>1 DEF IInv, CallsKept, Drains, TypeOK
<1>3. ASSUME NEW e, NEW x \in BOOLEAN, Drained(p, op[p], e, drainers - 1, x, {})
      PROVE  \E W \in SUBSET Asleep : Effect(p, W)
  <2>1. drainers - 1 = drainers - Drains(at[p], op[p])
    BY <1>2
  <2>2. Drained(p, op[p], e, drainers - Drains(at[p], op[p]), x, {})
    BY <1>3, <2>1
  <2>3. at[p] # "asleep" /\ {} \in SUBSET Asleep
    BY <1>1
  <2> QED
    BY <1>1, <1>2, <2>2, <2>3, DrainedEffect
<1>4. ASSUME tracker.length > 0, ~closed, p \notin cancelled, Sleep(p, op[p], {}),
             UNCHANGED <<shared, cursor, wakes>>
      PROVE  Effect(p, {})
  <2>1. UNCHANGED <<tracker, drainers, closed, list>> /\ op'[p] = op[p] /\ tracker.length # 0
    BY <1>2, <1>4, Sleeping DEF shared, IInv
  <2>2. ~WaitOver(p)'
    BY <1>1, <1>4, <2>1 DEF WaitOver, DrainNames
  <2>3. cursor' \in [Procs -> {Nil} \cup list.lo..list.hi] /\ WakesGrow
        /\ op[p].name # "IteratorWait" /\ drainers' = drainers + 1 - 1
    BY <1>1, <1>2, <1>4, <2>1 DEF IInv, TypeOK, WakesGrow, DrainNames
  <2> QED
    BY <1>1, <1>2, <1>4, <2>1, <2>2, <2>3, SleepEffect
<1>5. (p \in cancelled) \in BOOLEAN /\ {} \in SUBSET Asleep
  OBVIOUS
<1> QED
  BY <1>1, <1>3, <1>4, <1>5

LEMMA CloseEffect ==
  ASSUME IInv, NEW p \in Procs, Close(p) PROVE \E W \in SUBSET Asleep : Effect(p, W)
<1>1. PICK c \in Program[p] : /\ Starts(p, "Close", c) /\ closed' = TRUE
                              /\ Return(p, c, "nil", 0, Asleep)
                              /\ UNCHANGED <<tracker, drainers, list, cursor, wakes>>
  BY NotifyWakesAll DEF Close
<1>2. at[p] # "asleep" /\ Drains(at[p], op[p]) = 0 /\ c.name # "ForcePush" /\ c \in Call
  BY <1>1, StartFacts, ConstantFacts DEF Starts
<1>3. /\ Scheduled(p, Asleep) /\ at'[p] = "idle" /\ op'[p].name # "IteratorWait"
      /\ ret' = [call |-> c, err |-> "nil", item |-> 0] /\ Drains(at'[p], op'[p]) = 0
  BY <1>1, Returning DEF IInv
<1>4. /\ Grows(list, list') /\ cursor' \in [Procs -> {Nil} \cup list'.lo..list'.hi] /\ WakesGrow
      /\ 0 \in list'.lo..list'.hi
  BY <1>1, Stays, BoundsKept DEF IInv, WakesGrow, TypeOK
<1>5. Reports
  BY <1>2, <1>3, <1>4 DEF Reports, ForcePushFits
<1>6. Effect(p, Asleep)
  BY <1>1, <1>2, <1>3, <1>4, <1>5 DEF Effect, IInv, TypeOK
<1> QED
  BY <1>6

\* The iterators.
LEMMA PlaceBounded ==
  ASSUME IInv, NEW p \in Procs
  PROVE  Place(p) \in list.lo..list.hi /\ Place(p) # Nil
  BY ConstantFacts DEF Place, IInv, TypeOK, Root

LEMMA ReturnAtPlace ==
  ASSUME IInv, NEW p \in Procs, NEW c \in Program[p], NEW e, NEW item \in list.lo..list.hi,
         NEW n \in list.lo..list.hi, Moves(p, n), Return(p, c, e, item, {}),
         UNCHANGED shared, at[p] # "asleep", Drains(at[p], op[p]) = 0, WakesGrow, c.name # "ForcePush"
  PROVE  Effect(p, {})
<1>1. /\ Scheduled(p, {}) /\ at'[p] = "idle" /\ op'[p].name # "IteratorWait"
      /\ ret' = [call |-> c, err |-> e, item |-> item] /\ Drains(at'[p], op'[p]) = 0 /\ c \in Call
  BY Returning, ConstantFacts DEF IInv
<1>2. UNCHANGED <<tracker, drainers, closed, list>> /\ Grows(list, list')
  BY Stays DEF shared, IInv
<1>3. cursor' \in [Procs -> {Nil} \cup list'.lo..list'.hi] /\ \A q \in Procs \ {p} : cursor'[q] = cursor[q]
  BY <1>2 DEF Moves, IInv, TypeOK
<1>4. Reports
  BY <1>1, <1>2 DEF Reports, ForcePushFits
<1> QED
  BY <1>1, <1>2, <1>3, <1>4 DEF Effect, IInv, TypeOK

LEMMA IteratorEffect ==
  ASSUME IInv, NEW p \in Procs, Iterator(p) PROVE \E W \in SUBSET Asleep : Effect(p, W)
<1>1. PICK c \in Program[p] :
        /\ Starts(p, "Iterator", c) /\ UNCHANGED <<shared, wakes>>
        /\ \/ Yield(p, c, neighbor(Place(p), c.side))
           \/ /\ neighbor(Place(p), c.side) = Root /\ Moves(p, Place(p))
              /\ Return(p, c, "end", 0, {})
  BY DEF Iterator
<1>2. at[p] # "asleep" /\ Drains(at[p], op[p]) = 0 /\ WakesGrow /\ c.name # "ForcePush" /\ c.side \in Sides
  BY <1>1, StartFacts, ConstantFacts DEF Starts, WakesGrow, IInv, TypeOK
<1>3. neighbor(Place(p), c.side) \in list.lo..list.hi /\ Place(p) \in list.lo..list.hi /\ 0 \in list.lo..list.hi
  BY <1>2, PlaceBounded, NeighborIsNearest DEF IInv, Shape, TypeOK
<1> QED
  BY <1>1, <1>2, <1>3, ReturnAtPlace DEF Yield

LEMMA IteratorWaitEffect ==
  ASSUME IInv, NEW p \in Procs, IteratorWait(p) PROVE \E W \in SUBSET Asleep : Effect(p, W)
<1>1. PICK c \in Program[p], x \in BOOLEAN :
        /\ Turn(p, "IteratorWait", c, x) /\ UNCHANGED shared
        /\ \/ Yield(p, c, neighbor(Place(p), c.side))
           \/ Moves(p, Place(p)) /\ Return(p, c, "end", 0, {})
           \/ /\ ~closed /\ ~x /\ neighbor(Place(p), c.side) = Root
              /\ Moves(p, Place(p)) /\ Sleep(p, c, {})
  BY DEF IteratorWait
<1>2. /\ at[p] # "asleep" /\ c.name = "IteratorWait" /\ Drains(at[p], op[p]) = 0
      /\ WakesGrow /\ (~x => p \notin cancelled) /\ c.name \in Waiting /\ c.side \in Sides
  BY <1>1, TurnFacts, ConstantFacts DEF Waiting, DrainNames
<1>3. neighbor(Place(p), c.side) \in list.lo..list.hi /\ Place(p) \in list.lo..list.hi /\ 0 \in list.lo..list.hi
  BY <1>2, PlaceBounded, NeighborIsNearest DEF IInv, Shape, TypeOK
<1>4. CASE Yield(p, c, neighbor(Place(p), c.side)) \/ (Moves(p, Place(p)) /\ Return(p, c, "end", 0, {}))
  BY <1>1, <1>2, <1>3, <1>4, ReturnAtPlace DEF Yield
<1>5. ASSUME ~closed, ~x, neighbor(Place(p), c.side) = Root, Moves(p, Place(p)), Sleep(p, c, {})
      PROVE  Effect(p, {})
  <2>1. /\ UNCHANGED <<tracker, drainers, closed, list>> /\ op'[p] = c /\ Drains("asleep", c) = 0
        /\ drainers \in Nat
    BY <1>1, <1>2, <1>5, Sleeping DEF shared, Drains, DrainNames, IInv, TypeOK
  <2>2. /\ cursor' \in [Procs -> {Nil} \cup list.lo..list.hi] /\ cursor'[p] = Place(p)
        /\ \A q \in Procs \ {p} : cursor'[q] = cursor[q]
    BY <1>3, <1>5 DEF Moves, IInv, TypeOK
  <2>3. ~WaitOver(p)'
    <3>1. Live' = Live
      BY <2>1 DEF Live
    <3>2. neighbor(cursor[p], op[p].side)' = neighbor(Place(p), c.side)
      BY <2>1, <2>2, <3>1 DEF neighbor, End
    <3> QED
      BY <1>2, <1>5, <2>1, <3>2 DEF WaitOver, DrainNames
  <2> QED
    BY <1>1, <1>2, <1>5, <2>1, <2>2, <2>3, PlaceBounded, SleepEffect
<1> QED
  BY <1>1, <1>4, <1>5

LEMMA StepEffect ==
  ASSUME IInv, NEW p \in Procs, Step(p), ~Cancel(p) PROVE \E W \in SUBSET Asleep : Effect(p, W)
  BY PushEffect, ForcePushEffect, WaitPushEffect, TakeEffect, DrainEnterEffect, DrainResumeEffect,
     CloseEffect, IteratorEffect, IteratorWaitEffect DEF Step

----------------------------------------------------------------------------
\* The invariant.

LEMMA EffectKeeps == ASSUME IInv, NEW p \in Procs, NEW W \in SUBSET Asleep, Effect(p, W) PROVE IInv'
<1> USE DEF Effect
<1>1. /\ \A q \in Procs \ {p} : /\ op'[q] = op[q] /\ cursor'[q] = cursor[q]
                                /\ (q \in cancelled' <=> q \in cancelled)
                                /\ at'[q] = IF q \in W THEN "woken" ELSE at[q]
      /\ \/ at'[p] = "idle" /\ op'[p] = Idle /\ p \notin cancelled'
         \/ at'[p] = "asleep" /\ op'[p] \in Program[p] /\ op'[p].name \in Waiting
      /\ \A q \in W : at[q] = "asleep"
  BY DEF Scheduled, Asleep
<1>2. drainers' = Cardinality(Draining') /\ drainers' \in Nat
  <2>1. IsFiniteSet(Draining) /\ drainers = Cardinality(Draining) /\ drainers \in Nat
    BY FS_Subset, ConstantFacts DEF Draining, IInv, TypeOK
  <2>2. \A q \in Procs \ {p} : q \in Draining' <=> q \in Draining
    BY <1>1 DEF Draining
  <2>3. p \in Draining <=> Drains(at[p], op[p]) = 1
    BY DEF Draining, Drains
  <2>4. p \in Draining' <=> Drains(at'[p], op'[p]) = 1
    BY DEF Draining, Drains
  <2>5. /\ Drains(at[p], op[p]) \in {0, 1} /\ Drains(at'[p], op'[p]) \in {0, 1}
        /\ Draining \subseteq Procs /\ Draining' \subseteq Procs
    BY DEF Drains, Draining
  <2>6. CASE p \in Draining' /\ p \notin Draining
    <3>1. Draining' = Draining \cup {p}
      BY <2>2, <2>5, <2>6
    <3>2. drainers' = drainers + 1
      BY <2>1, <2>3, <2>4, <2>5, <2>6
    <3> HIDE DEF Effect
    <3> QED
      BY <2>1, <2>6, <3>1, <3>2, FS_AddElement
  <2>7. CASE p \notin Draining' /\ p \in Draining
    <3>1. Draining' = Draining \ {p}
      BY <2>2, <2>5, <2>7
    <3>2. drainers' = drainers - 1
      BY <2>1, <2>3, <2>4, <2>5, <2>7
    <3> HIDE DEF Effect
    <3>3. IsFiniteSet(Draining') /\ Cardinality(Draining') = drainers - 1
      BY <2>1, <2>7, <3>1, FS_RemoveElement
    <3>4. Cardinality(Draining') \in Nat
      BY <3>3, FS_CardinalityType
    <3> QED
      BY <3>2, <3>3, <3>4
  <2>8. CASE p \in Draining' <=> p \in Draining
    <3>1. \A q \in Procs : q \in Draining' <=> q \in Draining
      BY <2>2, <2>8
    <3>2. Draining' = Draining
      BY <2>5, <3>1
    <3>3. drainers' = drainers
      BY <2>1, <2>3, <2>4, <2>5, <2>8
    <3> QED
      BY <2>1, <3>2, <3>3
  <2> QED
    BY <2>6, <2>7, <2>8
<1>3. TypeOK'
  <2>1. ret'.call \in Call \cup {Idle} /\ ret'.item \in list'.lo..list'.hi
    BY BoundsKept DEF Reports, IInv, TypeOK
  <2> QED
    BY <1>2, <2>1 DEF TypeOK, Shape, IsList, IsTracker, Scheduled, WakesGrow
<1>4. CallsKept'
  <2>1. ASSUME NEW q \in Procs \ {p}
        PROVE  IF at'[q] = "idle" THEN op'[q] = Idle /\ q \notin cancelled'
               ELSE /\ op'[q] \in Program[q] /\ op'[q].name \in Waiting
                    /\ op'[q].name = "IteratorWait" => cursor'[q] # Nil
    BY <1>1 DEF IInv, CallsKept
  <2> QED
    BY <1>1, <2>1 DEF CallsKept
<1>5. NoLostWakeup'
  <2>1. ASSUME NEW q \in Procs, at'[q] = "asleep"
        PROVE  ~WaitOver(q)' /\ (q \in cancelled' => wakes'[CondOf(op'[q])] > 0)
    <3>1. CASE q = p
      BY <2>1, <3>1
    <3>2. CASE q # p
      <4>1. /\ q \notin W /\ at[q] = "asleep" /\ op'[q] = op[q] /\ cursor'[q] = cursor[q]
            /\ (q \in cancelled' <=> q \in cancelled)
        BY <1>1, <2>1, <3>2
      <4>2. UNCHANGED <<tracker, closed, list>>
        BY <4>1 DEF Asleep
      <4>3. op[q].name = "WaitPush" => drainers' <= drainers
        <5>1. CondOf(op[q]) = "updates" \/ op[q].name # "WaitPush"
          BY DEF CondOf
        <5> QED
          BY <1>2, <4>1, <5>1 DEF Sleepers, IInv, TypeOK
      <4>4. ~WaitOver(q)'
        BY <1>3, <4>1, <4>2, <4>3, WaitOverSame DEF IInv, NoLostWakeup
      <4>5. q \in cancelled' => wakes'[CondOf(op'[q])] > 0
        <5>1. CondOf(op[q]) \in Conds
          BY ConstantFacts
        <5>2. q \in cancelled => wakes[CondOf(op[q])] > 0
          BY <4>1 DEF IInv, NoLostWakeup
        <5> QED
          BY <4>1, <5>1, <5>2 DEF WakesGrow, IInv, TypeOK
      <4> QED
        BY <4>4, <4>5
    <3> QED
      BY <3>1, <3>2
  <2> QED
    BY <2>1 DEF NoLostWakeup
<1>6. ForcePushFits'
  BY DEF Reports, IInv, ForcePushFits
<1> QED
  BY <1>2, <1>3, <1>4, <1>5, <1>6 DEF IInv

LEMMA CancelKeeps == ASSUME IInv, NEW p \in Procs, Cancel(p) PROVE IInv'
<1>1. /\ at[p] # "idle" /\ cancelled' = cancelled \cup {p} /\ wakes' = Spawned(CondOf(op[p]))
      /\ UNCHANGED <<tracker, drainers, closed, list, op, at, cursor, ret>>
  BY DEF Cancel, shared
<1>2. /\ wakes' \in [Conds -> Nat] /\ \A c \in Conds : wakes[c] <= wakes'[c]
      /\ wakes'[CondOf(op[p])] > 0
  BY <1>1, ConstantFacts DEF Spawned, IInv, TypeOK
<1>3. TypeOK'
  BY <1>1, <1>2 DEF IInv, TypeOK
<1>4. Shape(list', tracker') /\ CallsKept' /\ drainers' = Cardinality(Draining') /\ ForcePushFits'
  BY <1>1 DEF IInv, CallsKept, Draining, ForcePushFits
<1>5. NoLostWakeup'
  <2>1. ASSUME NEW q \in Procs, at'[q] = "asleep"
        PROVE  ~WaitOver(q)' /\ (q \in cancelled' => wakes'[CondOf(op'[q])] > 0)
    <3>1. ~WaitOver(q)'
      BY <1>1, <1>3, <2>1, WaitOverSame DEF IInv, NoLostWakeup, TypeOK
    <3>2. q \in cancelled => wakes[CondOf(op[q])] > 0 /\ CondOf(op[q]) \in Conds
      BY <1>1, <2>1, ConstantFacts DEF IInv, NoLostWakeup
    <3> QED
      BY <1>1, <1>2, <3>1, <3>2 DEF IInv, TypeOK
  <2> QED
    BY <2>1 DEF NoLostWakeup
<1> QED
  BY <1>3, <1>4, <1>5 DEF IInv

LEMMA WakeKeeps == ASSUME IInv, NEW c \in Conds, WakeOnCancel(c) PROVE IInv'
<1>1. /\ wakes[c] > 0 /\ wakes' = [wakes EXCEPT ![c] = @ - 1]
      /\ at' = [q \in Procs |-> IF q \in Sleepers(c) THEN "woken" ELSE at[q]]
      /\ UNCHANGED <<tracker, drainers, closed, list, op, cancelled, cursor, ret>>
  BY DEF WakeOnCancel, shared
<1>2. \A q \in Procs : /\ at'[q] = "asleep" => at[q] = "asleep" /\ CondOf(op[q]) # c
                       /\ at'[q] = "idle" <=> at[q] = "idle"
  BY <1>1 DEF Sleepers, IInv, TypeOK
<1>3. TypeOK'
  <2>1. at' \in [Procs -> {"idle", "asleep", "woken"}] /\ wakes' \in [Conds -> Nat]
    BY <1>1 DEF IInv, TypeOK
  <2> QED
    BY <1>1, <2>1 DEF IInv, TypeOK
<1>4. Shape(list', tracker') /\ CallsKept' /\ drainers' = Cardinality(Draining') /\ ForcePushFits'
  BY <1>1, <1>2 DEF IInv, CallsKept, Draining, ForcePushFits
<1>5. NoLostWakeup'
  <2>1. ASSUME NEW q \in Procs, at'[q] = "asleep"
        PROVE  ~WaitOver(q)' /\ (q \in cancelled' => wakes'[CondOf(op'[q])] > 0)
    <3>1. ~WaitOver(q)'
      BY <1>1, <1>2, <1>3, <2>1, WaitOverSame DEF IInv, NoLostWakeup, TypeOK
    <3>2. q \in cancelled => wakes[CondOf(op[q])] > 0 /\ CondOf(op[q]) \in Conds
      BY <1>1, <1>2, <2>1, ConstantFacts DEF IInv, NoLostWakeup
    <3> QED
      BY <1>1, <1>2, <2>1, <3>1, <3>2 DEF IInv, TypeOK
  <2> QED
    BY <2>1 DEF NoLostWakeup
<1> QED
  BY <1>3, <1>4, <1>5 DEF IInv

LEMMA InitIInv == ASSUME Init PROVE IInv
<1>1. IsTracker(tracker) /\ tracker.length = 0
  <2>1. PICK o \in Options : Valid(o) /\ tracker \in NewTrackers(o)
    BY DEF Init
  <2>2. o \in DequeOptions
    BY DequeAssumption
  <2>3. CASE o.QueueOptions # {}
    <3>1. PICK q \in o.QueueOptions : tracker = SoftTracker(Defaults(q)) /\ Acceptable(q)
      BY <2>1, <2>3 DEF NewTrackers, Valid
    <3>2. q \in [HardLimit : Int, SoftQuota : Int, BurstCredit : Int]
      BY <2>2 DEF DequeOptions
    <3>3. tracker.kind = "soft"
      BY <3>1 DEF SoftTracker
    <3> QED
      BY <3>1, <3>2, <3>3, NewTracker DEF IsTracker
  <2>4. CASE o.QueueOptions = {} /\ o.Capacity > 0
    <3>1. tracker = HardTracker(o.Capacity) /\ o.Capacity \in Nat
      BY <2>1, <2>2, <2>4 DEF NewTrackers, DequeOptions
    <3> QED
      BY <2>4, <3>1 DEF HardTracker, IsTracker, Tracker, Kinds, WithinLimits
  <2>5. CASE o.QueueOptions = {} /\ ~(o.Capacity > 0)
    BY <2>1, <2>5 DEF NewTrackers, NoLimitTracker, IsTracker, Tracker, Kinds, WithinLimits
  <2> QED
    BY <2>3, <2>4, <2>5
<1>2. list = [next |-> [e \in {Root} |-> Root], prev |-> [e \in {Root} |-> Root],
              removed |-> {}, lo |-> 0, hi |-> 0]
  BY DEF Init
<1>3. IsList(list) /\ LiveIn(list) = {}
  BY <1>2 DEF IsList, LiveIn, Root
<1>4. Chained(list)
  BY <1>2, <1>3 DEF Chained, Lowest, Highest, Ahead, Behind, Root
<1>5. Shape(list, tracker)
  BY <1>1, <1>3, <1>4, FS_EmptySet DEF Shape
<1>6. Draining = {}
  BY DEF Init, Draining
<1>7. TypeOK
  <2>1. tracker \in Tracker /\ drainers \in Nat /\ closed \in BOOLEAN
    BY <1>1 DEF Init, IsTracker
  <2>2. /\ DOMAIN list = {"next", "prev", "removed", "lo", "hi"} /\ list.lo = 0 /\ list.hi = 0
        /\ list.removed \subseteq (list.lo..list.hi) \ {Root}
        /\ list.next \in [list.lo..list.hi -> {Nil} \cup list.lo..list.hi]
        /\ list.prev \in [list.lo..list.hi -> {Nil} \cup list.lo..list.hi]
    BY <1>2, <1>3 DEF IsList
  <2>3. /\ op \in [Procs -> Call \cup {Idle}] /\ at \in [Procs -> {"idle", "asleep", "woken"}]
        /\ cancelled \subseteq Procs /\ cursor \in [Procs -> {Nil} \cup list.lo..list.hi]
        /\ wakes \in [Conds -> Nat]
    BY DEF Init
  <2>4. ret.call = Idle /\ ret.item = 0
    BY DEF Init
  <2> QED
    BY <2>1, <2>2, <2>3, <2>4 DEF TypeOK
<1>8. CallsKept /\ NoLostWakeup /\ ForcePushFits
  BY DEF Init, CallsKept, NoLostWakeup, ForcePushFits, Idle
<1> QED
  BY <1>5, <1>6, <1>7, <1>8, FS_EmptySet DEF IInv, Init

LEMMA NextKeeps == ASSUME IInv, [Next]_vars PROVE IInv'
<1>1. CASE UNCHANGED vars
  <2>1. TypeOK' /\ CallsKept' /\ Draining' = Draining /\ ForcePushFits'
    BY <1>1 DEF vars, IInv, TypeOK, CallsKept, Draining, ForcePushFits
  <2>2. \A p \in Procs : WaitOver(p)' => WaitOver(p)
    BY <1>1, <2>1, WaitOverSame DEF vars, IInv, TypeOK
  <2> QED
    BY <1>1, <2>1, <2>2 DEF vars, IInv, NoLostWakeup
<1>2. ASSUME NEW p \in Procs, Step(p) PROVE IInv'
  BY <1>2, StepEffect, EffectKeeps, CancelKeeps
<1>3. ASSUME NEW c \in Conds, WakeOnCancel(c) PROVE IInv'
  BY <1>3, WakeKeeps
<1> QED
  BY <1>1, <1>2, <1>3 DEF Next

\* The inductive invariant: the tracker counts the elements that the two chains of links
\* run through, and whoever sleeps has nothing to do.
THEOREM Invariant == Spec => []IInv
  BY InitIInv, NextKeeps, PTL DEF Spec

\* The deque's two chains of links (linkAfter, unlink and the root element) run through
\* exactly the live elements in the order of their sequence numbers, the tracker counts
\* them within its limits, and every field has its type.
THEOREM LinksSortedInvariant == Spec => []LinksSorted
<1>1. IInv => LinksSorted
  <2>1. SUFFICES ASSUME IInv PROVE LinksSorted
    OBVIOUS
  <2>2. IsList(list) /\ Chained(list) /\ Live = LiveIn(list)
    BY <2>1, LiveBounded DEF IInv, Shape
  <2>3. \A e \in Live \cup {Root} : /\ list.next[e] = Nearest(e, "front")
                                    /\ list.prev[e] = Nearest(e, "back")
    BY <2>2, LinksAreNearest
  <2> QED
    BY <2>1, <2>2, <2>3 DEF LinksSorted, IInv, Shape, IsTracker
<1> QED
  BY <1>1, Invariant, PTL

\* A goroutine that sleeps on nfront, nback or updates really has to wait, or the
\* goroutine that broadcasts when its context ends has started.
THEOREM NoLostWakeupInvariant == Spec => []NoLostWakeup
<1>1. IInv => NoLostWakeup
  BY DEF IInv
<1> QED
  BY <1>1, Invariant, PTL

\* ForcePushFront and ForcePushBack on an open deque that is not draining make room by
\* removing one item and never fail, whatever tracker they have.
THEOREM ForcePushFitsInvariant == Spec => []ForcePushFits
<1>1. IInv => ForcePushFits
  BY DEF IInv
<1> QED
  BY <1>1, Invariant, PTL

\* Only a goroutine's own iterator call moves its cursor, and to the neighbour.
LEMMA CursorMoves ==
  ASSUME IInv, NEW p \in Procs, [Next]_vars, cursor'[p] \notin {cursor[p], Root}
  PROVE  \E c \in Program[p] : /\ c.name \in {"IteratorWait", "Iterator"} /\ UNCHANGED list
                               /\ cursor'[p] = neighbor(Place(p), c.side)
<1>1. PICK q \in Procs : Step(q)
  BY DEF Next, WakeOnCancel, vars
<1>2. ~Cancel(q)
  BY DEF Cancel
<1>3. q = p
  BY <1>1, <1>2, StepEffect DEF Effect
<1>4. Iterator(p) \/ IteratorWait(p)
  <2>1. ~Push(p) /\ ~ForcePush(p) /\ ~WaitPush(p) /\ ~Pop(p) /\ ~WaitPop(p) /\ ~Close(p)
    BY DEF Push, ForcePush, WaitPush, Pop, WaitPop, Close
  <2>2. ~DrainEnter(p) /\ ~DrainResume(p)
    BY DEF DrainEnter, DrainResume, Drained
  <2> QED
    BY <1>1, <1>2, <1>3, <2>1, <2>2 DEF Step
<1>5. cursor \in [Procs -> {Nil} \cup list.lo..list.hi] /\ (cursor[p] = Nil => Place(p) = Root)
      /\ (cursor[p] # Nil => Place(p) = cursor[p])
  BY DEF IInv, TypeOK, Place
<1>6. ~Moves(p, Place(p))
  BY <1>5 DEF Moves
<1>7. CASE Iterator(p)
  <2>1. PICK c \in Program[p] : /\ Starts(p, "Iterator", c) /\ UNCHANGED <<shared, wakes>>
                                /\ Yield(p, c, neighbor(Place(p), c.side))
    BY <1>6, <1>7 DEF Iterator
  <2> QED
    BY <1>5, <2>1 DEF Starts, Yield, Moves, shared
<1>8. CASE IteratorWait(p)
  <2>1. PICK c \in Program[p], x \in BOOLEAN : /\ Turn(p, "IteratorWait", c, x) /\ UNCHANGED shared
                                               /\ Yield(p, c, neighbor(Place(p), c.side))
    BY <1>6, <1>8 DEF IteratorWait
  <2>2. c.name = "IteratorWait"
    BY <2>1 DEF Turn, Starts
  <2> QED
    BY <1>5, <2>1, <2>2 DEF Yield, Moves, shared
<1> QED
  BY <1>4, <1>7, <1>8

\* An iterator that moves goes to the nearest element of its direction that is still in
\* the deque, beyond its own place: nothing is repeated or skipped, whatever was popped,
\* its own element included, and pushed since its last step.
THEOREM IteratorOrder == Spec => IteratorsInOrder
<1>1. ASSUME IInv, [Next]_vars, NEW p \in Procs, cursor'[p] \notin {cursor[p], Root}
      PROVE  LET S == IF Place(p) = Root THEN Live' ELSE Beyond(Live', cursor[p], IteratorSide(p))
             IN  cursor'[p] \in S /\ cursor'[p] = FirstOf(S, IteratorSide(p))
  <2>1. PICK c \in Program[p] : /\ c.name \in {"IteratorWait", "Iterator"} /\ UNCHANGED list
                                /\ cursor'[p] = neighbor(Place(p), c.side)
    BY <1>1, CursorMoves
  <2>2. IteratorSide(p) = c.side
    <3>1. \A d \in Program[p] : d.name \in {"IteratorWait", "Iterator"} => d = c
      BY <2>1, DequeAssumption
    <3> QED
      BY <2>1, <3>1 DEF IteratorSide
  <2>3. Place(p) \in list.lo..list.hi /\ c.side \in Sides /\ IsList(list) /\ Chained(list)
    BY <1>1, <2>1, PlaceBounded, ConstantFacts DEF IInv, Shape
  <2>4. cursor'[p] = Nearest(Place(p), c.side) /\ Live' = Live
    BY <2>1, <2>3, NeighborIsNearest DEF Live
  <2>5. Place(p) # Root => Place(p) = cursor[p]
    BY DEF Place
  <2> DEFINE S == IF Place(p) = Root THEN Live ELSE Beyond(Live, Place(p), c.side)
  <2>6. cursor'[p] = FirstOf(S, c.side) /\ S # {}
    BY <1>1, <2>4 DEF Nearest
  <2>7. cursor'[p] \in S
    <3>1. Place(p) \in Int
      BY <2>3 DEF IsList
    <3> QED
      BY <2>3, <2>4, <2>6, <3>1, NearestIs
  <2> QED
    BY <2>2, <2>4, <2>5, <2>6, <2>7
<1>2. ASSUME IInv, [Next]_vars
      PROVE  [\A p \in Procs : cursor'[p] \notin {cursor[p], Root} =>
                LET S == IF Place(p) = Root THEN Live' ELSE Beyond(Live', cursor[p], IteratorSide(p))
                IN  cursor'[p] \in S /\ cursor'[p] = FirstOf(S, IteratorSide(p))]_vars
  BY <1>1, <1>2
<1> QED
  BY <1>2, Invariant, PTL DEF Spec, IteratorsInOrder

----------------------------------------------------------------------------
(* The circular list implements the plain sequence of DoubleEnded.         *)
(* Following the links from the root enumerates the live elements by rank, *)
(* so the sequence is known by its set of elements, and what a push or a   *)
(* pop does to it follows from what it does to the set.                    *)

\* Finite sets of integers, enumerated by rank.

Upto(S, e) == {d \in S : d <= e}
Rank(S, e) == Cardinality(Upto(S, e))

\* s holds the elements of S in ascending order.
Ranked(s, S) ==
  /\ S \in SUBSET Int /\ IsFiniteSet(S) /\ s \in Seq(S) /\ Len(s) = Cardinality(S)
  /\ \A i \in 1..Len(s) : Rank(S, s[i]) = i

LEMMA RankInjective ==
  ASSUME NEW S \in SUBSET Int, IsFiniteSet(S), NEW a \in S, NEW b \in S, Rank(S, a) = Rank(S, b)
  PROVE  a = b
<1>1. ASSUME NEW x \in S, NEW y \in S, Rank(S, x) = Rank(S, y), x <= y PROVE x = y
  <2>0. \A d \in S : d \in Int
    OBVIOUS
  <2>1. Upto(S, x) \in SUBSET Upto(S, y) /\ Upto(S, y) \in SUBSET S
    <3>1. ASSUME NEW d \in S, d <= x PROVE d <= y
      BY <1>1, <2>0, <3>1
    <3> QED
      BY <3>1 DEF Upto
  <2>2. IsFiniteSet(Upto(S, y))
    BY <2>1, FS_Subset
  <2>3. Upto(S, x) = Upto(S, y)
    BY <1>1, <2>1, <2>2, FS_Subset DEF Rank
  <2>4. y \in Upto(S, x)
    BY <2>3 DEF Upto
  <2> QED
    BY <1>1, <2>4 DEF Upto
<1> QED
  BY <1>1

LEMMA RankBounds ==
  ASSUME NEW S \in SUBSET Int, IsFiniteSet(S), NEW e \in S
  PROVE  Cardinality(S) \in Nat /\ Rank(S, e) \in 1..Cardinality(S)
<1>1. Upto(S, e) \in SUBSET S /\ e \in Upto(S, e)
  BY DEF Upto
<1>2. IsFiniteSet(Upto(S, e)) /\ Cardinality(Upto(S, e)) <= Cardinality(S)
  BY <1>1, FS_Subset
<1>3. Cardinality(Upto(S, e)) \in Nat /\ Cardinality(Upto(S, e)) # 0 /\ Cardinality(S) \in Nat
  BY <1>1, <1>2, FS_CardinalityType, FS_EmptySet
<1> QED
  BY <1>2, <1>3 DEF Rank

\* Every element has its place, at its rank.
LEMMA RankedHas ==
  ASSUME NEW S, NEW s, Ranked(s, S), NEW e \in S
  PROVE  Rank(S, e) \in 1..Len(s) /\ s[Rank(S, e)] = e
<1>1. S \in SUBSET Int /\ IsFiniteSet(S) /\ s \in Seq(S) /\ Len(s) = Cardinality(S)
  BY DEF Ranked
<1>2. Rank(S, e) \in 1..Len(s)
  BY <1>1, RankBounds
<1>3. PICK k \in 1..Len(s) : k = Rank(S, e)
  BY <1>2
<1>4. PICK a \in S : a = s[k]
  BY <1>1, ElementOfSeq
<1>5. Rank(S, a) = Rank(S, e)
  BY <1>3, <1>4 DEF Ranked
<1>6. a = e
  BY <1>1, <1>5, RankInjective
<1> QED
  BY <1>3, <1>4, <1>6

LEMMA RankedUnique ==
  ASSUME NEW S, NEW s, NEW t, Ranked(s, S), Ranked(t, S) PROVE s = t
<1>1. /\ S \in SUBSET Int /\ IsFiniteSet(S) /\ s \in Seq(S) /\ t \in Seq(S) /\ Len(s) = Len(t)
  BY DEF Ranked
<1>2. ASSUME NEW i \in 1..Len(s) PROVE s[i] = t[i]
  <2>1. PICK a \in S : a = s[i]
    BY <1>1, ElementOfSeq
  <2>2. PICK b \in S : b = t[i]
    BY <1>1, ElementOfSeq
  <2>3. Rank(S, a) = Rank(S, b)
    BY <1>1, <2>1, <2>2 DEF Ranked
  <2>4. a = b
    BY <1>1, <2>3, RankInjective
  <2> QED
    BY <2>1, <2>2, <2>4
<1> QED
  BY <1>1, <1>2, SeqEqual

\* The first and the last place.
LEMMA RankedEnds ==
  ASSUME NEW S, NEW s, Ranked(s, S), NEW e \in S
  PROVE  /\ Len(s) > 0 /\ s # <<>>
         /\ (\A d \in S : e <= d) => Head(s) = e
         /\ (\A d \in S : e >= d) => s[Len(s)] = e
<1>1. /\ S \in SUBSET Int /\ IsFiniteSet(S) /\ s \in Seq(S) /\ Len(s) = Cardinality(S)
      /\ Rank(S, e) \in 1..Len(s) /\ s[Rank(S, e)] = e
  BY RankedHas DEF Ranked
<1>2. Len(s) > 0 /\ s # <<>>
  BY <1>1
<1>3. ASSUME \A d \in S : e <= d PROVE Head(s) = e
  <2>1. Upto(S, e) = {e}
    <3>1. ASSUME NEW d \in S PROVE d <= e <=> d = e
      <4>1. d \in Int /\ e \in Int /\ e <= d
        BY <1>1, <1>3
      <4> QED
        BY <4>1
    <3> QED
      BY <3>1 DEF Upto
  <2>2. Rank(S, e) = 1
    BY <2>1, FS_Singleton DEF Rank
  <2> QED
    BY <1>1, <1>2, <2>2
<1>4. ASSUME \A d \in S : e >= d PROVE s[Len(s)] = e
  <2>1. Upto(S, e) = S
    BY <1>1, <1>4 DEF Upto
  <2> QED
    BY <1>1, <2>1 DEF Rank
<1> QED
  BY <1>2, <1>3, <1>4

----------------------------------------------------------------------------
\* One more element at an end, and one fewer.

LEMMA RankedAppend ==
  ASSUME NEW S, NEW s, Ranked(s, S), NEW e \in Int, \A d \in S : d < e
  PROVE  Ranked(Append(s, e), S \cup {e})
<1> DEFINE T == S \cup {e}
           t == Append(s, e)
<1>1. PICK n \in Nat : n = Len(s)
  BY DEF Ranked
<1>2. /\ S \in SUBSET Int /\ IsFiniteSet(S) /\ s \in Seq(S) /\ n = Cardinality(S) /\ e \notin S
  BY <1>1 DEF Ranked
<1>3. T \in SUBSET Int /\ IsFiniteSet(T) /\ Cardinality(T) = n + 1
  BY <1>2, FS_AddElement
<1>4. /\ t \in Seq(T) /\ Len(t) = n + 1 /\ t[n + 1] = e
      /\ \A i \in 1..n : t[i] = s[i] /\ s[i] \in S
  <2>0. \A i \in 1..n : s[i] \in S
    BY <1>1, <1>2, ElementOfSeq
  <2>1. s \in Seq(T) /\ e \in T /\ \A i \in 1..n : s[i] \in S
    BY <1>1, <1>2, <2>0
  <2>2. /\ t \in Seq(T) /\ Len(t) = n + 1
        /\ \A i \in 1..(n + 1) : t[i] = IF i <= n THEN s[i] ELSE e
    BY <1>1, <2>1, AppendProperties
  <2> HIDE DEF t
  <2> QED
    BY <2>1, <2>2
<1> HIDE DEF t
<1>5. ASSUME NEW i \in 1..n PROVE Rank(T, t[i]) = i
  <2>1. Upto(T, s[i]) = Upto(S, s[i])
    <3>1. s[i] \in Int /\ s[i] < e
      BY <1>2, <1>4
    <3>2. ~(e <= s[i])
      BY <3>1
    <3> QED
      BY <3>2 DEF Upto
  <2>2. Rank(S, s[i]) = i
    BY <1>1 DEF Ranked
  <2> QED
    BY <1>4, <2>1, <2>2 DEF Rank
<1>6. Rank(T, t[n + 1]) = n + 1
  <2>1. Upto(T, e) = T
    <3>1. ASSUME NEW d \in T PROVE d <= e
      BY <1>2
    <3> QED
      BY <3>1 DEF Upto
  <2> QED
    BY <1>3, <1>4, <2>1 DEF Rank
<1> HIDE DEF T
<1>7. \A i \in 1..Len(t) : Rank(T, t[i]) = i
  BY <1>4, <1>5, <1>6
<1>8. Ranked(t, T)
  BY <1>3, <1>4, <1>7 DEF Ranked
<1> QED
  BY <1>8 DEF t, T

LEMMA RankedPrepend ==
  ASSUME NEW S, NEW s, Ranked(s, S), NEW e \in Int, \A d \in S : d > e
  PROVE  Ranked(<<e>> \o s, S \cup {e})
<1> DEFINE T == S \cup {e}
           t == <<e>> \o s
<1>1. PICK n \in Nat : n = Len(s)
  BY DEF Ranked
<1>2. /\ S \in SUBSET Int /\ IsFiniteSet(S) /\ s \in Seq(S) /\ n = Cardinality(S) /\ e \notin S
  BY <1>1 DEF Ranked
<1>3. T \in SUBSET Int /\ IsFiniteSet(T) /\ Cardinality(T) = n + 1
  BY <1>2, FS_AddElement
<1>4. /\ t \in Seq(T) /\ Len(t) = n + 1 /\ t[1] = e
      /\ \A i \in 2..(n + 1) : t[i] = s[i - 1]
  <2>1. s \in Seq(T) /\ <<e>> \in Seq(T) /\ Len(<<e>>) = 1 /\ <<e>>[1] = e
    BY <1>2
  <2>2. /\ t \in Seq(T) /\ Len(t) = 1 + n
        /\ \A i \in 1..(1 + n) : t[i] = IF i <= 1 THEN <<e>>[i] ELSE s[i - 1]
    BY <1>1, <2>1, ConcatProperties
  <2> HIDE DEF t
  <2> QED
    BY <2>1, <2>2
<1> HIDE DEF t
<1>5. ASSUME NEW i \in 2..(n + 1) PROVE Rank(T, t[i]) = i
  <2>1. i - 1 \in 1..n /\ s[i - 1] \in S /\ Rank(S, s[i - 1]) = i - 1
    BY <1>1, <1>2 DEF Ranked
  <2>2. Upto(T, s[i - 1]) = Upto(S, s[i - 1]) \cup {e} /\ e \notin Upto(S, s[i - 1])
        /\ Upto(S, s[i - 1]) \in SUBSET S
    <3>1. s[i - 1] \in Int /\ e < s[i - 1]
      BY <1>2, <2>1
    <3>2. e <= s[i - 1]
      BY <3>1
    <3> QED
      BY <1>2, <3>2 DEF Upto
  <2>3. IsFiniteSet(Upto(S, s[i - 1]))
    BY <1>2, <2>2, FS_Subset
  <2>4. Cardinality(Upto(T, s[i - 1])) = (i - 1) + 1
    <3> DEFINE U == Upto(S, s[i - 1])
    <3>1. IsFiniteSet(U) /\ e \notin U /\ Cardinality(U) = i - 1
      BY <2>1, <2>2, <2>3 DEF Rank
    <3> HIDE DEF U
    <3>2. Cardinality(U \cup {e}) = (i - 1) + 1
      BY <3>1, FS_AddElement
    <3> QED
      BY <2>2, <3>2 DEF U
  <2> QED
    BY <1>4, <2>4 DEF Rank
<1>6. Rank(T, t[1]) = 1
  <2>1. Upto(T, e) = {e}
    <3>1. ASSUME NEW d \in S PROVE ~(d <= e)
      BY <1>2
    <3> QED
      BY <3>1 DEF Upto
  <2> QED
    BY <1>4, <2>1, FS_Singleton DEF Rank
<1> HIDE DEF T
<1>7. \A i \in 1..Len(t) : Rank(T, t[i]) = i
  BY <1>4, <1>5, <1>6
<1>8. Ranked(t, T)
  BY <1>3, <1>4, <1>7 DEF Ranked
<1> QED
  BY <1>8 DEF t, T

LEMMA RankedTail ==
  ASSUME NEW S, NEW s, Ranked(s, S), NEW e \in S, \A d \in S : e <= d
  PROVE  Ranked(Tail(s), S \ {e})
<1> DEFINE T == S \ {e}
           t == Tail(s)
<1>1. PICK n \in Nat : n = Len(s)
  BY DEF Ranked
<1>2. /\ S \in SUBSET Int /\ IsFiniteSet(S) /\ s \in Seq(S) /\ n = Cardinality(S)
      /\ n > 0 /\ s # <<>> /\ e \in Int
  BY <1>1, RankedEnds DEF Ranked
<1>3. T \in SUBSET Int /\ IsFiniteSet(T) /\ Cardinality(T) = n - 1
  BY <1>2, FS_RemoveElement
<1>4. t \in Seq(S) /\ Len(t) = n - 1 /\ \A i \in 1..(n - 1) : t[i] = s[i + 1]
  BY <1>1, <1>2, HeadTailProperties
<1> HIDE DEF t, T
<1>5. ASSUME NEW i \in 1..(n - 1) PROVE t[i] \in T /\ Rank(T, t[i]) = i
  <2>1. i + 1 \in 1..n /\ Rank(S, s[i + 1]) = i + 1 /\ t[i] = s[i + 1]
    BY <1>1, <1>4 DEF Ranked
  <2>2. PICK a \in S : a = s[i + 1]
    BY <1>1, <1>2, <2>1, ElementOfSeq
  <2>3. Upto(S, e) = {e}
    <3>1. ASSUME NEW d \in S PROVE d <= e <=> d = e
      <4>1. d \in Int /\ e \in Int /\ e <= d
        BY <1>2
      <4> QED
        BY <4>1
    <3> QED
      BY <3>1 DEF Upto
  <2>4. Rank(S, e) = 1
    BY <2>3, FS_Singleton DEF Rank
  <2>5. a # e
    BY <2>1, <2>2, <2>4
  <2>6. Upto(T, a) = Upto(S, a) \ {e} /\ e \in Upto(S, a) /\ Upto(S, a) \in SUBSET S
    BY DEF Upto, T
  <2>7. IsFiniteSet(Upto(S, a))
    BY <1>2, <2>6, FS_Subset
  <2>8. Rank(T, a) = (i + 1) - 1
    <3> DEFINE U == Upto(S, a)
    <3>1. IsFiniteSet(U) /\ e \in U /\ Cardinality(U) = i + 1
      BY <2>1, <2>2, <2>6, <2>7 DEF Rank
    <3> HIDE DEF U
    <3>2. Cardinality(U \ {e}) = (i + 1) - 1
      BY <3>1, FS_RemoveElement
    <3> QED
      BY <2>6, <3>2 DEF U, Rank
  <2> QED
    BY <2>1, <2>2, <2>5, <2>8 DEF T
<1>6. t \in Seq(T)
  <2>1. \A i \in 1..Len(t) : t[i] \in T
    BY <1>4, <1>5
  <2>2. DOMAIN t = 1..Len(t) /\ t = [i \in 1..Len(t) |-> t[i]] /\ Len(t) \in Nat
    BY <1>4
  <2> QED
    BY <2>1, <2>2
<1>7. Ranked(t, T)
  BY <1>3, <1>4, <1>5, <1>6 DEF Ranked
<1> QED
  BY <1>7 DEF t, T

LEMMA RankedFront ==
  ASSUME NEW S, NEW s, Ranked(s, S), NEW e \in S, \A d \in S : e >= d
  PROVE  Ranked(SubSeq(s, 1, Len(s) - 1), S \ {e})
<1>1. PICK n \in Nat : n = Len(s)
  BY DEF Ranked
<1> DEFINE T == S \ {e}
           t == SubSeq(s, 1, n - 1)
<1>2. /\ S \in SUBSET Int /\ IsFiniteSet(S) /\ s \in Seq(S) /\ n = Cardinality(S)
      /\ n > 0 /\ s[n] = e /\ e \in Int
  BY <1>1, RankedEnds DEF Ranked
<1>3. T \in SUBSET Int /\ IsFiniteSet(T) /\ Cardinality(T) = n - 1
  BY <1>2, FS_RemoveElement
<1>4. t \in Seq(S) /\ Len(t) = n - 1 /\ \A i \in 1..(n - 1) : t[i] = s[i]
  <2>0. \A i \in 1..(n - 1) : i \in 1..Len(s)
    BY <1>1
  <2>1. \A i \in 1..(n - 1) : s[i] \in S
    BY <1>2, <2>0, ElementOfSeq
  <2>2. /\ t \in Seq(S) /\ Len(t) = IF 1 <= n - 1 THEN (n - 1) - 1 + 1 ELSE 0
        /\ \A i \in 1..((n - 1) - 1 + 1) : t[i] = s[1 + i - 1]
    BY <1>2, <2>1, SubSeqProperties
  <2> HIDE DEF t
  <2> QED
    BY <1>2, <2>2
<1> HIDE DEF t, T
<1>5. ASSUME NEW i \in 1..(n - 1) PROVE t[i] \in T /\ Rank(T, t[i]) = i
  <2>1. i \in 1..n /\ Rank(S, s[i]) = i /\ t[i] = s[i]
    BY <1>1, <1>4 DEF Ranked
  <2>2. PICK a \in S : a = s[i]
    BY <1>1, <1>2, <2>1, ElementOfSeq
  <2>3. Rank(S, e) = n
    BY <1>1, <1>2 DEF Ranked
  <2>4. a # e
    BY <2>1, <2>2, <2>3
  <2>5. a \in Int /\ ~(e <= a)
    BY <1>2, <2>4
  <2>6. Upto(T, a) = Upto(S, a)
    BY <2>5 DEF Upto, T
  <2> QED
    BY <2>1, <2>2, <2>4, <2>6 DEF Rank, T
<1>6. t \in Seq(T)
  <2>1. \A i \in 1..Len(t) : t[i] \in T
    BY <1>4, <1>5
  <2>2. DOMAIN t = 1..Len(t) /\ t = [i \in 1..Len(t) |-> t[i]] /\ Len(t) \in Nat
    BY <1>4
  <2> QED
    BY <2>1, <2>2
<1>7. Ranked(t, T)
  BY <1>3, <1>4, <1>5, <1>6 DEF Ranked
<1> QED
  BY <1>1, <1>7 DEF t, T

----------------------------------------------------------------------------
\* The walk along the links, which is a recursive function.

Follows(f, h, D) == h = [i \in D |-> IF i = 0 THEN Root ELSE f[h[i - 1]]]

\* Two walks agree as far as both go.
LEMMA WalksAgree ==
  ASSUME NEW f, NEW m \in Nat, NEW n \in Nat, m <= n, NEW g, NEW h,
         Follows(f, g, 0..m), Follows(f, h, 0..n)
  PROVE  \A i \in 0..m : g[i] = h[i]
<1> DEFINE T == {i \in 0..m : g[i] # h[i]}
<1> SUFFICES ASSUME T # {} PROVE FALSE
  OBVIOUS
<1>1. T \in SUBSET Nat
  OBVIOUS
<1>2. PICK i \in T : \A k \in T : i <= k
  BY <1>1, Minimum
<1>3. i \in 0..m /\ i \in 0..n /\ g[i] # h[i]
  OBVIOUS
<1>4. /\ g[i] = IF i = 0 THEN Root ELSE f[g[i - 1]]
      /\ h[i] = IF i = 0 THEN Root ELSE f[h[i - 1]]
  BY <1>3 DEF Follows
<1>5. i # 0
  BY <1>3, <1>4
<1>6. i - 1 \in 0..m /\ i - 1 \notin T
  BY <1>2, <1>3, <1>5
<1> QED
  BY <1>3, <1>4, <1>5, <1>6

LEMMA WalkTo == ASSUME NEW f, NEW n \in Nat PROVE \E h : Follows(f, h, 0..n)
<1> DEFINE T == {m \in Nat : ~\E h : Follows(f, h, 0..m)}
<1> SUFFICES ASSUME T # {} PROVE FALSE
  OBVIOUS
<1>1. PICK m \in T : \A k \in T : m <= k
  BY Minimum
<1>2. CASE m = 0
  <2>1. Follows(f, [i \in 0..0 |-> Root], 0..0)
    BY DEF Follows
  <2> QED
    BY <1>2, <2>1
<1>3. CASE m # 0
  <2>1. m - 1 \in Nat /\ m - 1 \notin T
    BY <1>1, <1>3
  <2>2. PICK h : Follows(f, h, 0..(m - 1))
    BY <2>1
  <2> DEFINE g == [i \in 0..m |-> IF i = m THEN f[h[m - 1]] ELSE h[i]]
  <2>3. ASSUME NEW i \in 0..m PROVE g[i] = IF i = 0 THEN Root ELSE f[g[i - 1]]
    <3>1. CASE i = m
      <4>1. m - 1 \in 0..m /\ m - 1 # m
        BY <1>3
      <4> QED
        BY <1>3, <3>1, <4>1
    <3>2. CASE i # m
      <4>1. i \in 0..(m - 1) /\ (i # 0 => i - 1 \in 0..m /\ i - 1 # m)
        BY <3>2
      <4>2. h[i] = IF i = 0 THEN Root ELSE f[h[i - 1]]
        BY <2>2, <4>1 DEF Follows
      <4> QED
        BY <3>2, <4>1, <4>2
    <3> QED
      BY <3>1, <3>2
  <2>4. Follows(f, g, 0..m)
    <3>1. g = [i \in 0..m |-> g[i]]
      OBVIOUS
    <3> HIDE DEF g
    <3> QED
      BY <2>3, <3>1 DEF Follows
  <2> QED
    BY <2>4
<1> QED
  BY <1>2, <1>3

LEMMA WalkExists == ASSUME NEW f PROVE \E h : Follows(f, h, Nat)
<1> DEFINE w(n) == CHOOSE h : Follows(f, h, 0..n)
           g == [n \in Nat |-> w(n)[n]]
<1>1. \A n \in Nat : Follows(f, w(n), 0..n)
  BY WalkTo
<1> HIDE DEF w
<1>2. ASSUME NEW n \in Nat PROVE g[n] = IF n = 0 THEN Root ELSE f[g[n - 1]]
  <2>1. w(n)[n] = IF n = 0 THEN Root ELSE f[w(n)[n - 1]]
    BY <1>1 DEF Follows
  <2>2. ASSUME n # 0 PROVE w(n)[n - 1] = w(n - 1)[n - 1]
    <3>1. n - 1 \in Nat /\ n - 1 <= n /\ n - 1 \in 0..(n - 1)
      BY <2>2
    <3>2. Follows(f, w(n - 1), 0..(n - 1)) /\ Follows(f, w(n), 0..n)
      BY <1>1, <3>1
    <3> QED
      BY <3>1, <3>2, WalksAgree
  <2>3. n # 0 => n - 1 \in Nat
    OBVIOUS
  <2> QED
    BY <2>1, <2>2, <2>3
<1>3. Follows(f, g, Nat)
  <2>1. g = [n \in Nat |-> g[n]]
    OBVIOUS
  <2> HIDE DEF g
  <2> QED
    BY <1>2, <2>1 DEF Follows
<1> QED
  BY <1>3

LEMMA WalkFollows == Follows(list.next, Walk, Nat)
<1>1. \E h : h = [i \in Nat |-> IF i = 0 THEN Root ELSE list.next[h[i - 1]]]
  BY WalkExists DEF Follows
<1>2. Walk = [i \in Nat |-> IF i = 0 THEN Root ELSE list.next[Walk[i - 1]]]
  BY <1>1 DEF Walk
<1> QED
  BY <1>2 DEF Follows

LEMMA WalkFollowsNext == Follows(list'.next, Walk', Nat)
<1>1. \E h : h = [i \in Nat |-> IF i = 0 THEN Root ELSE list'.next[h[i - 1]]]
  BY WalkExists DEF Follows
<1>2. Walk' = [i \in Nat |-> IF i = 0 THEN Root ELSE list'.next[Walk'[i - 1]]]
  BY <1>1 DEF Walk
<1> QED
  BY <1>2 DEF Follows

LEMMA LiveFacts ==
  ASSUME NEW l, NEW t, Shape(l, t)
  PROVE  /\ IsFiniteSet(LiveIn(l)) /\ LiveIn(l) \in SUBSET Int /\ Root \notin LiveIn(l)
         /\ t.length = Cardinality(LiveIn(l)) /\ t.length \in Nat
<1>1. l.lo \in Int /\ l.hi \in Int
  BY DEF Shape, IsList
<1>2. LiveIn(l) \in SUBSET Int /\ Root \notin LiveIn(l)
  BY <1>1 DEF LiveIn
<1> QED
  BY <1>2, ShapeFacts DEF Shape

\* The walk visits the live elements one by one, in ascending order.
LEMMA WalkVisits ==
  ASSUME NEW l, NEW t, Shape(l, t), NEW w, Follows(l.next, w, Nat), NEW j \in 1..t.length
  PROVE  w[j] \in LiveIn(l) /\ Rank(LiveIn(l), w[j]) = j
<1> DEFINE L == LiveIn(l)
           T == {i \in 1..t.length : ~(w[i] \in L /\ Rank(L, w[i]) = i)}
<1> SUFFICES ASSUME T # {} PROVE FALSE
  OBVIOUS
<1>1. /\ IsFiniteSet(L) /\ L \in SUBSET Int /\ Root \notin L /\ t.length = Cardinality(L)
      /\ t.length \in Nat
  BY LiveFacts
<1>2. PICK i \in T : \A k \in T : i <= k
  <2>1. T \in SUBSET Nat
    OBVIOUS
  <2> HIDE DEF T
  <2> QED
    BY <2>1, Minimum
<1>3. i \in 1..t.length /\ ~(w[i] \in L /\ Rank(L, w[i]) = i)
  OBVIOUS
<1>4. w[i] = l.next[w[i - 1]] /\ w[0] = Root
  BY <1>3 DEF Follows
<1>5. \A e \in L \cup {Root} : Lowest(l.next[e], Ahead(l, e))
  BY DEF Shape, Chained
<1>6. i # 1 => w[i - 1] \in L /\ Rank(L, w[i - 1]) = i - 1
  <2>1. SUFFICES ASSUME i # 1 PROVE w[i - 1] \in L /\ Rank(L, w[i - 1]) = i - 1
    OBVIOUS
  <2>2. i - 1 \in 1..t.length /\ ~(i <= i - 1)
    BY <1>1, <1>3, <2>1
  <2>3. i - 1 \notin T
    BY <1>2, <2>2
  <2> QED
    BY <2>2, <2>3
<1>7. CASE i = 1
  <2>1. Lowest(w[1], L)
    <3>1. Ahead(l, Root) = L
      BY DEF Ahead
    <3> HIDE DEF L
    <3> QED
      BY <1>4, <1>5, <1>7, <3>1
  <2>2. L # {}
    BY <1>1, <1>3, FS_EmptySet
  <2> HIDE DEF L
  <2>3. w[1] \in L /\ \A d \in L : w[1] <= d
    BY <2>1, <2>2 DEF Lowest
  <2>4. Upto(L, w[1]) = {w[1]}
    <3>1. ASSUME NEW d \in L PROVE d <= w[1] <=> d = w[1]
      <4>1. d \in Int /\ w[1] \in Int /\ w[1] <= d
        BY <1>1, <2>3
      <4> QED
        BY <4>1
    <3> QED
      BY <2>3, <3>1 DEF Upto
  <2>5. Rank(L, w[1]) = 1
    BY <2>4, FS_Singleton DEF Rank
  <2> QED
    BY <1>3, <1>7, <2>3, <2>5
<1>8. CASE i # 1
  <2>1. PICK e \in L : e = w[i - 1]
    BY <1>6, <1>8
  <2>2. /\ Lowest(w[i], Ahead(l, e)) /\ Rank(L, e) = i - 1 /\ e \in Int
        /\ Ahead(l, e) = {d \in L : d > e}
    <3>1. Ahead(l, e) = {d \in L : d > e}
      BY <1>1, <2>1 DEF Ahead
    <3> HIDE DEF L
    <3> QED
      BY <1>1, <1>4, <1>5, <1>6, <1>8, <2>1, <3>1
  <2> HIDE DEF L
  <2>3. Ahead(l, e) # {}
    <3>1. SUFFICES ASSUME Ahead(l, e) = {} PROVE FALSE
      OBVIOUS
    <3>2. ASSUME NEW d \in L PROVE d <= e
      <4>1. d \in Int /\ ~(d > e)
        BY <1>1, <2>2, <3>1
      <4> QED
        BY <2>2, <4>1
    <3>3. Upto(L, e) = L
      BY <3>2 DEF Upto
    <3>4. t.length = i - 1
      BY <1>1, <2>2, <3>3 DEF Rank
    <3> QED
      BY <1>1, <1>3, <3>4
  <2>4. PICK a \in L : a = w[i] /\ a > e /\ \A d \in L : d > e => a <= d
    BY <2>2, <2>3 DEF Lowest
  <2>5. Upto(L, a) = Upto(L, e) \cup {a} /\ a \notin Upto(L, e) /\ Upto(L, e) \in SUBSET L
    <3>1. ASSUME NEW d \in L PROVE d <= a <=> d <= e \/ d = a
      <4>1. d \in Int /\ a \in Int /\ e \in Int /\ a > e /\ (d > e => a <= d)
        BY <1>1, <2>2, <2>4
      <4> QED
        BY <4>1
    <3>2. ~(a <= e)
      BY <1>1, <2>2, <2>4
    <3> QED
      BY <3>1, <3>2 DEF Upto
  <2>6. IsFiniteSet(Upto(L, e))
    BY <1>1, <2>5, FS_Subset
  <2>7. Cardinality(Upto(L, e) \cup {a}) = Cardinality(Upto(L, e)) + 1
    BY <2>5, <2>6, FS_AddElement
  <2>8. Rank(L, a) = i
    BY <1>3, <2>2, <2>5, <2>7 DEF Rank
  <2> QED
    BY <1>3, <2>4, <2>8
<1> QED
  BY <1>7, <1>8

LEMMA WalkRanked ==
  ASSUME NEW l, NEW t, Shape(l, t), NEW w, Follows(l.next, w, Nat)
  PROVE  Ranked([i \in 1..t.length |-> w[i]], LiveIn(l))
<1> DEFINE L == LiveIn(l)
           s == [i \in 1..t.length |-> w[i]]
<1>1. IsFiniteSet(L) /\ L \in SUBSET Int /\ t.length = Cardinality(L) /\ t.length \in Nat
  BY LiveFacts
<1>2. \A i \in 1..t.length : w[i] \in L /\ Rank(L, w[i]) = i
  BY WalkVisits
<1> HIDE DEF L
<1>3. s \in Seq(L) /\ Len(s) = t.length /\ \A i \in 1..t.length : s[i] = w[i]
  BY <1>1, <1>2
<1> HIDE DEF s
<1>4. Ranked(s, L)
  BY <1>1, <1>2, <1>3 DEF Ranked
<1> QED
  BY <1>4 DEF s, L

\* The sequence holds the live elements in order, before a step and after it.
LEMMA ContentsRanked == ASSUME Shape(list, tracker) PROVE Ranked(Contents, LiveIn(list))
  BY WalkFollows, WalkRanked DEF Contents

LEMMA ContentsRankedNext == ASSUME Shape(list', tracker') PROVE Ranked(Contents', LiveIn(list'))
<1>1. Contents' = [i \in 1..tracker'.length |-> Walk'[i]]
  BY DEF Contents
<1> QED
  BY <1>1, WalkFollowsNext, WalkRanked

----------------------------------------------------------------------------
\* What the steps do to the sequence.

LEMMA JoinedRanked ==
  ASSUME NEW l, NEW t, Shape(l, t), NEW s, Ranked(s, LiveIn(l)), NEW side \in Sides
  PROVE  Ranked(Abstract!Joined(side, s, New(l, side)), LiveIn(l) \cup {New(l, side)})
<1>1. l.lo \in Int /\ l.hi \in Int /\ \A d \in LiveIn(l) : l.lo <= d /\ d <= l.hi /\ d \in Int
  BY DEF Shape, IsList, LiveIn
<1>2. CASE side = "back"
  <2>1. l.hi + 1 \in Int /\ \A d \in LiveIn(l) : d < l.hi + 1
    BY <1>1
  <2> QED
    BY <1>2, <2>1, RankedAppend DEF Abstract!Joined, New
<1>3. CASE side = "front"
  <2>1. l.lo - 1 \in Int /\ \A d \in LiveIn(l) : d > l.lo - 1
    BY <1>1
  <2> QED
    BY <1>3, <2>1, RankedPrepend DEF Abstract!Joined, New
<1> QED
  BY <1>2, <1>3 DEF Sides

LEMMA RestRanked ==
  ASSUME Shape(list, tracker), NEW s, Ranked(s, LiveIn(list)), NEW side \in Sides, End(side) \in LiveIn(list)
  PROVE  /\ s # <<>> /\ Abstract!EndItem(side, s) = End(side)
         /\ Ranked(Abstract!Rest(side, s), LiveIn(list) \ {End(side)})
<1>1. \A d \in LiveIn(list) : IF side = "front" THEN End(side) <= d ELSE End(side) >= d
  BY Ends DEF End
<1>2. CASE side = "front"
  BY <1>1, <1>2, RankedEnds, RankedTail DEF Abstract!EndItem, Abstract!Rest
<1>3. CASE side = "back"
  BY <1>1, <1>3, RankedEnds, RankedFront DEF Abstract!EndItem, Abstract!Rest
<1> QED
  BY <1>2, <1>3 DEF Sides

LEMMA ItemsAreLive == ASSUME Shape(list, tracker) PROVE Abstract!Items = LiveIn(list)
<1>1. Ranked(Contents, LiveIn(list))
  BY ContentsRanked
<1>2. Contents \in Seq(LiveIn(list)) /\ DOMAIN Contents = 1..Len(Contents)
  BY <1>1 DEF Ranked
<1>3. \A i \in DOMAIN Contents : Contents[i] \in LiveIn(list)
  BY <1>2, ElementOfSeq
<1>4. ASSUME NEW e \in LiveIn(list) PROVE \E i \in DOMAIN Contents : Contents[i] = e
  BY <1>1, <1>2, RankedHas
<1> QED
  BY <1>3, <1>4 DEF Abstract!Items

LEMMA ContentsKept == ASSUME Shape(list, tracker), UNCHANGED <<list, tracker>> PROVE Contents' = Contents
<1>1. Ranked(Contents, LiveIn(list)) /\ Ranked(Contents', LiveIn(list))
  BY ContentsRanked, ContentsRankedNext
<1> QED
  BY <1>1, RankedUnique

LEMMA ContentsAdded ==
  ASSUME NEW l, NEW t, Shape(l, t), AddError(t) = "nil", NEW s, Ranked(s, LiveIn(l)), NEW side \in Sides,
         list' = Linked(l, side), tracker' = Added(t)
  PROVE  Contents' = Abstract!Joined(side, s, New(l, side))
<1>1. Shape(list', tracker') /\ LiveIn(list') = LiveIn(l) \cup {New(l, side)}
  BY LinkedKeeps
<1>2. Ranked(Contents', LiveIn(l) \cup {New(l, side)})
  BY <1>1, ContentsRankedNext
<1> QED
  BY <1>2, JoinedRanked, RankedUnique

LEMMA ContentsTaken ==
  ASSUME Shape(list, tracker), NEW side \in Sides, End(side) \in LiveIn(list),
         list' = Unlinked(list, End(side)), tracker' = Removed(tracker)
  PROVE  /\ Contents # <<>> /\ Abstract!EndItem(side, Contents) = End(side)
         /\ Contents' = Abstract!Rest(side, Contents)
<1>1. Ranked(Contents, LiveIn(list))
  BY ContentsRanked
<1>2. Shape(list', tracker') /\ LiveIn(list') = LiveIn(list) \ {End(side)}
  BY UnlinkedKeeps
<1>3. Ranked(Contents', LiveIn(list) \ {End(side)})
  BY <1>2, ContentsRankedNext
<1> QED
  BY <1>1, <1>3, RestRanked, RankedUnique

----------------------------------------------------------------------------
\* Every step of the deque is a step of DoubleEnded or leaves its variables alone.

DEStep == Abstract!DENext \/ UNCHANGED Abstract!deVars

Refusals == {"ErrQueueClosed", "ErrQueueDraining", "ErrQueueFull", "ErrQueueNoCredit", "ctx", "end"}

LEMMA StutterStep ==
  ASSUME Shape(list, tracker), UNCHANGED <<list, tracker, closed, ret>> PROVE DEStep
  BY ContentsKept DEF DEStep, Abstract!deVars

LEMMA RefuseStep ==
  ASSUME Shape(list, tracker), UNCHANGED <<list, tracker, closed>>, NEW p, NEW c \in Call,
         NEW e \in Refusals, e = "ErrQueueClosed" => closed, NEW W, Return(p, c, e, 0, W)
  PROVE  DEStep
<1>1. ret' = [call |-> c, err |-> e, item |-> 0]
  BY DEF Return
<1>2. Contents' = Contents
  BY ContentsKept
<1>3. Abstract!Refuse
  BY <1>1, <1>2 DEF Abstract!Refuse, Abstract!Told, Refusals
<1> QED
  BY <1>3 DEF DEStep, Abstract!DENext

LEMMA AddStep ==
  ASSUME Shape(list, tracker), NEW p, NEW c \in Call, c.name \in {"Push", "WaitPush", "ForcePush"},
         add(p, c, list, tracker, {})
  PROVE  DEStep
<1>0. c.side \in Sides
  BY DEF Call
<1>1. CASE checkOpen # "nil"
  <2>1. UNCHANGED <<list, tracker, closed>> /\ Return(p, c, checkOpen, 0, {})
    BY <1>1 DEF add, Refused, shared
  <2>2. checkOpen \in Refusals /\ (checkOpen = "ErrQueueClosed" => closed)
    BY <1>1 DEF checkOpen, Refusals
  <2> QED
    BY <2>1, <2>2, RefuseStep
<1>2. CASE checkOpen = "nil" /\ AddError(tracker) # "nil"
  <2>1. PICK V : UNCHANGED <<list, tracker, closed>> /\ Return(p, c, AddError(tracker), 0, V)
    BY <1>2 DEF add
  <2>2. AddError(tracker) \in Refusals /\ AddError(tracker) # "ErrQueueClosed"
    BY <1>2 DEF AddError, Refusals
  <2> QED
    BY <2>1, <2>2, RefuseStep
<1>3. CASE checkOpen = "nil" /\ AddError(tracker) = "nil"
  <2> DEFINE x == New(list, c.side)
  <2>1. /\ list' = Linked(list, c.side) /\ tracker' = Added(tracker) /\ closed' = closed /\ ~closed
        /\ ret' = [call |-> c, err |-> "nil", item |-> x]
    BY <1>3 DEF add, Return, New, checkOpen
  <2>2. Contents' = Abstract!Joined(c.side, Contents, x)
    BY <1>0, <1>3, <2>1, ContentsRanked, ContentsAdded
  <2>3. x \notin Abstract!Items
    <3>1. x \notin list.lo..list.hi
      BY <1>0, <1>3, LinkedKeeps
    <3> HIDE DEF x
    <3> QED
      BY <3>1, ItemsAreLive DEF LiveIn
  <2> HIDE DEF x
  <2>4. Abstract!Put
    BY <2>1, <2>2, <2>3 DEF Abstract!Put, Abstract!Told
  <2> QED
    BY <2>4 DEF DEStep, Abstract!DENext
<1> QED
  BY <1>1, <1>2, <1>3

LEMMA TakeStep ==
  ASSUME Shape(list, tracker), NEW p, NEW c \in Call, c.name \in {"Pop", "WaitPop"}, ~closed,
         End(c.side) # Root, pop(p, c)
  PROVE  DEStep
<1>1. c.side \in Sides /\ End(c.side) \in LiveIn(list)
  BY EndLive DEF Call, Live, LiveIn
<1>2. /\ list' = Unlinked(list, End(c.side)) /\ tracker' = Removed(tracker) /\ closed' = closed
      /\ ret' = [call |-> c, err |-> "nil", item |-> End(c.side)]
  BY DEF pop, Return
<1>3. /\ Contents # <<>> /\ Abstract!EndItem(c.side, Contents) = End(c.side)
      /\ Contents' = Abstract!Rest(c.side, Contents)
  BY <1>1, <1>2, ContentsTaken
<1>4. Abstract!Take
  BY <1>2, <1>3 DEF Abstract!Take, Abstract!Told
<1> QED
  BY <1>4 DEF DEStep, Abstract!DENext

\* A forced push that finds no room: one item goes and the new one comes in one step.
LEMMA ReplaceStep ==
  ASSUME Shape(list, tracker), NEW p, NEW c \in Call, c.name = "ForcePush", checkOpen = "nil",
         Capacity(tracker) = tracker.length, NEW W,
         add(p, c, Unlinked(list, End(Other(c.side))), Removed(tracker), W)
  PROVE  DEStep
<1> DEFINE o == Other(c.side)
           l == Unlinked(list, End(o))
           t == Removed(tracker)
           x == New(l, c.side)
<1>0. c.side \in Sides /\ o \in Sides /\ o = Abstract!Other(c.side)
  BY OtherSide DEF Call, Other, Abstract!Other
<1>1. End(o) \in LiveIn(list) /\ Shape(l, t) /\ AddError(t) = "nil"
  BY <1>0, ForcedRoom DEF Live, LiveIn
<1>2. LiveIn(l) = LiveIn(list) \ {End(o)} /\ l.lo = list.lo /\ l.hi = list.hi
  BY <1>1, UnlinkedKeeps
<1>3. /\ list' = Linked(l, c.side) /\ tracker' = Added(t) /\ closed' = closed /\ ~closed
      /\ ret' = [call |-> c, err |-> "nil", item |-> x]
  BY <1>1 DEF add, Return, New, checkOpen
<1> HIDE DEF l, t
<1>4. Contents # <<>> /\ Ranked(Abstract!Rest(o, Contents), LiveIn(l))
  BY <1>0, <1>1, <1>2, ContentsRanked, RestRanked
<1>5. Contents' = Abstract!Joined(c.side, Abstract!Rest(o, Contents), x)
  BY <1>0, <1>1, <1>3, <1>4, ContentsAdded
<1>6. x \notin Abstract!Items
  <2>1. x \notin l.lo..l.hi
    BY <1>0, <1>1, LinkedKeeps
  <2> HIDE DEF x
  <2> QED
    BY <1>2, <2>1, ItemsAreLive DEF LiveIn
<1> HIDE DEF x
<1>7. Abstract!Replace
  BY <1>0, <1>3, <1>4, <1>5, <1>6 DEF Abstract!Replace, Abstract!Told
<1> QED
  BY <1>7 DEF DEStep, Abstract!DENext

LEMMA DrainedStep ==
  ASSUME Shape(list, tracker), closed \in BOOLEAN, NEW p, NEW c \in Call, c.name \in DrainNames,
         NEW e \in {"nil", "ErrQueueClosed", "ctx"},
         e = "nil" => tracker.length = 0, e = "ErrQueueClosed" => closed,
         NEW n, NEW x, NEW W, Drained(p, c, e, n, x, W)
  PROVE  DEStep
<1>1. PICK V : UNCHANGED <<list, tracker>> /\ Return(p, c, e, 0, V)
               /\ closed' = (closed \/ (c.name = "Shutdown" /\ e = "nil"))
  BY DEF Drained
<1>2. CASE e = "nil"
  <2>1. Contents = <<>>
    BY <1>2 DEF Contents
  <2>2. ret' = [call |-> c, err |-> "nil", item |-> 0] /\ closed' = (closed \/ c.name = "Shutdown")
    BY <1>1, <1>2 DEF Return
  <2>3. Abstract!Drained
    BY <1>1, <2>1, <2>2, ContentsKept DEF Abstract!Drained, Abstract!Told, DrainNames
  <2> QED
    BY <2>3 DEF DEStep, Abstract!DENext
<1>3. CASE e # "nil"
  <2>1. closed' = closed /\ e \in Refusals
    BY <1>1, <1>3 DEF Refusals
  <2> QED
    BY <1>1, <2>1, RefuseStep
<1> QED
  BY <1>2, <1>3

LEMMA YieldStep ==
  ASSUME IInv, NEW p \in Procs, NEW c \in Program[p], c.name \in {"IteratorWait", "Iterator"},
         Yield(p, c, neighbor(Place(p), c.side)), UNCHANGED shared
  PROVE  DEStep
<1>1. c \in Call /\ c.side \in Sides /\ Place(p) \in list.lo..list.hi /\ Shape(list, tracker)
  BY ConstantFacts, PlaceBounded DEF IInv
<1>2. PICK n : n = neighbor(Place(p), c.side)
  OBVIOUS
<1>3. n \in Live \cup {Root}
  BY <1>1, <1>2, NeighborIsNearest DEF Shape
<1>4. n \in LiveIn(list) /\ ret' = [call |-> c, err |-> "nil", item |-> n]
  BY <1>2, <1>3 DEF Yield, Return, Live, LiveIn
<1>5. n \in Abstract!Items /\ Contents' = Contents /\ closed' = closed
  BY <1>1, <1>4, ItemsAreLive, ContentsKept DEF shared
<1>6. Abstract!Yield
  BY <1>1, <1>4, <1>5 DEF Abstract!Yield, Abstract!Told
<1> QED
  BY <1>6 DEF DEStep, Abstract!DENext

\* A call in a critical section that refuses, or that goes to sleep.
LEMMA RefusedStep ==
  ASSUME IInv, NEW p \in Procs, NEW c \in Program[p], NEW e \in Refusals,
         e = "ErrQueueClosed" => closed, Refused(p, c, e, {})
  PROVE  DEStep
<1>1. c \in Call /\ Shape(list, tracker)
  BY ConstantFacts DEF IInv
<1>2. UNCHANGED <<list, tracker, closed>> /\ Return(p, c, e, 0, {})
  BY DEF Refused, shared
<1> QED
  BY <1>1, <1>2, RefuseStep

LEMMA SleepStep ==
  ASSUME IInv, NEW p, NEW c, NEW W, Sleep(p, c, W), UNCHANGED <<tracker, closed, list>> PROVE DEStep
  BY StutterStep DEF Sleep, IInv

LEMMA WaitPushStep == ASSUME IInv, NEW p \in Procs, WaitPush(p) PROVE DEStep
<1>1. PICK c \in Program[p], x \in BOOLEAN :
        /\ Turn(p, "WaitPush", c, x)
        /\ \/ checkOpen # "nil" /\ Refused(p, c, checkOpen, {})
           \/ Refused(p, c, "ctx", {})
           \/ add(p, c, list, tracker, {})
           \/ Sleep(p, c, {}) /\ UNCHANGED shared
  BY DEF WaitPush
<1>2. c.name = "WaitPush" /\ c \in Call /\ Shape(list, tracker) /\ "ctx" \in Refusals
  BY <1>1, ConstantFacts DEF Turn, Starts, IInv, Refusals
<1>3. CASE checkOpen # "nil" /\ Refused(p, c, checkOpen, {})
  BY <1>3, RefusedStep DEF checkOpen, Refusals
<1>4. CASE Refused(p, c, "ctx", {})
  BY <1>2, <1>4, RefusedStep
<1>5. CASE add(p, c, list, tracker, {})
  BY <1>2, <1>5, AddStep
<1>6. CASE Sleep(p, c, {}) /\ UNCHANGED shared
  BY <1>6, SleepStep DEF shared
<1> QED
  BY <1>1, <1>3, <1>4, <1>5, <1>6

LEMMA PushStep == ASSUME IInv, NEW p \in Procs, Push(p) \/ ForcePush(p) PROVE DEStep
<1>1. CASE Push(p)
  <2>1. PICK c \in Program[p] : c.name = "Push" /\ add(p, c, list, tracker, {})
    BY <1>1 DEF Push, Starts
  <2> QED
    BY <2>1, ConstantFacts, AddStep DEF IInv
<1>2. CASE ForcePush(p)
  <2>1. PICK c \in Program[p] :
          /\ c.name = "ForcePush"
          /\ \/ checkOpen # "nil" /\ Refused(p, c, checkOpen, {})
             \/ add(p, c, list, tracker, {})
             \/ /\ checkOpen = "nil" /\ Capacity(tracker) = tracker.length
                /\ add(p, c, Unlinked(list, End(Other(c.side))), Removed(tracker), notify)
    BY <1>2 DEF ForcePush, Starts
  <2>2. c \in Call /\ Shape(list, tracker)
    BY ConstantFacts DEF IInv
  <2>3. CASE checkOpen # "nil" /\ Refused(p, c, checkOpen, {})
    BY <2>3, RefusedStep DEF checkOpen, Refusals
  <2>4. CASE add(p, c, list, tracker, {})
    BY <2>1, <2>2, <2>4, AddStep
  <2>5. CASE /\ checkOpen = "nil" /\ Capacity(tracker) = tracker.length
             /\ add(p, c, Unlinked(list, End(Other(c.side))), Removed(tracker), notify)
    BY <2>1, <2>2, <2>5, ReplaceStep
  <2> QED
    BY <2>1, <2>3, <2>4, <2>5
<1> QED
  BY <1>1, <1>2

LEMMA PopStep == ASSUME IInv, NEW p \in Procs, Pop(p) \/ WaitPop(p) PROVE DEStep
<1>1. PICK c \in Program[p] :
        /\ c.name \in {"Pop", "WaitPop"}
        /\ \/ Refused(p, c, "end", {})
           \/ closed /\ Refused(p, c, "ErrQueueClosed", {})
           \/ Refused(p, c, "ctx", {})
           \/ ~closed /\ End(c.side) # Root /\ pop(p, c)
           \/ Sleep(p, c, {}) /\ UNCHANGED shared
  BY DEF Pop, WaitPop, Starts, Turn
<1>2. c \in Call /\ Shape(list, tracker) /\ {"end", "ErrQueueClosed", "ctx"} \subseteq Refusals
  BY ConstantFacts DEF IInv, Refusals
<1>3. CASE \/ Refused(p, c, "end", {})
           \/ closed /\ Refused(p, c, "ErrQueueClosed", {})
           \/ Refused(p, c, "ctx", {})
  BY <1>2, <1>3, RefusedStep
<1>4. CASE ~closed /\ End(c.side) # Root /\ pop(p, c)
  BY <1>1, <1>2, <1>4, TakeStep
<1>5. CASE Sleep(p, c, {}) /\ UNCHANGED shared
  BY <1>5, SleepStep DEF shared
<1> QED
  BY <1>1, <1>3, <1>4, <1>5

LEMMA DrainStep == ASSUME IInv, NEW p \in Procs, DrainEnter(p) \/ DrainResume(p) PROVE DEStep
<1>0. Shape(list, tracker) /\ closed \in BOOLEAN /\ {"ErrQueueClosed", "ctx"} \subseteq Refusals
  BY DEF IInv, TypeOK, Refusals
<1>1. CASE DrainEnter(p)
  <2>1. PICK c \in Program[p] :
          /\ c.name \in DrainNames
          /\ \/ closed /\ Refused(p, c, "ErrQueueClosed", {})
             \/ Refused(p, c, "ctx", {})
             \/ tracker.length = 0 /\ Drained(p, c, "nil", drainers, FALSE, Sleepers("updates"))
             \/ Sleep(p, c, Sleepers("updates")) /\ UNCHANGED <<tracker, closed, list>>
    BY <1>1 DEF DrainEnter, Starts
  <2>2. c \in Call
    BY ConstantFacts
  <2>3. CASE (closed /\ Refused(p, c, "ErrQueueClosed", {})) \/ Refused(p, c, "ctx", {})
    BY <1>0, <2>3, RefusedStep
  <2>4. CASE tracker.length = 0 /\ Drained(p, c, "nil", drainers, FALSE, Sleepers("updates"))
    BY <1>0, <2>1, <2>2, <2>4, DrainedStep
  <2>5. CASE Sleep(p, c, Sleepers("updates")) /\ UNCHANGED <<tracker, closed, list>>
    BY <2>5, SleepStep
  <2> QED
    BY <2>1, <2>3, <2>4, <2>5
<1>2. CASE DrainResume(p)
  <2>1. /\ op[p].name \in DrainNames
        /\ \/ tracker.length = 0 /\ Drained(p, op[p], "nil", drainers - 1, p \in cancelled, {})
           \/ closed /\ Drained(p, op[p], "ErrQueueClosed", drainers - 1, p \in cancelled, {})
           \/ Drained(p, op[p], "ctx", drainers - 1, TRUE, {})
           \/ Sleep(p, op[p], {}) /\ UNCHANGED shared
    BY <1>2, Zenon DEF DrainResume
  <2>2. op[p] \in Call
    BY <2>1 DEF IInv, TypeOK, Idle, DrainNames
  <2>3. CASE tracker.length = 0 /\ Drained(p, op[p], "nil", drainers - 1, p \in cancelled, {})
    BY <1>0, <2>1, <2>2, <2>3, DrainedStep
  <2>4. CASE closed /\ Drained(p, op[p], "ErrQueueClosed", drainers - 1, p \in cancelled, {})
    BY <1>0, <2>1, <2>2, <2>4, DrainedStep
  <2>5. CASE Drained(p, op[p], "ctx", drainers - 1, TRUE, {})
    BY <1>0, <2>1, <2>2, <2>5, DrainedStep
  <2>6. CASE Sleep(p, op[p], {}) /\ UNCHANGED shared
    BY <2>6, SleepStep DEF shared
  <2> QED
    BY <2>1, <2>3, <2>4, <2>5, <2>6
<1> QED
  BY <1>1, <1>2

LEMMA CloseStep == ASSUME IInv, NEW p \in Procs, Close(p) PROVE DEStep
<1>1. PICK c \in Program[p] : c.name = "Close" /\ closed' = TRUE /\ UNCHANGED <<tracker, list>>
                              /\ ret' = [call |-> c, err |-> "nil", item |-> 0]
  BY DEF Close, Starts, Return
<1>2. c \in Call /\ Contents' = Contents
  BY <1>1, ConstantFacts, ContentsKept DEF IInv
<1>3. Abstract!CloseNow
  BY <1>1, <1>2 DEF Abstract!CloseNow, Abstract!Told
<1> QED
  BY <1>3 DEF DEStep, Abstract!DENext

LEMMA IteratorStep == ASSUME IInv, NEW p \in Procs, IteratorWait(p) \/ Iterator(p) PROVE DEStep
<1>1. PICK c \in Program[p] :
        /\ c.name \in {"IteratorWait", "Iterator"} /\ UNCHANGED shared
        /\ \/ Yield(p, c, neighbor(Place(p), c.side))
           \/ Return(p, c, "end", 0, {})
           \/ Sleep(p, c, {})
  BY DEF IteratorWait, Iterator, Starts, Turn, shared
<1>2. c \in Call /\ Shape(list, tracker) /\ "end" \in Refusals /\ UNCHANGED <<list, tracker, closed>>
  BY <1>1, ConstantFacts DEF IInv, Refusals, shared
<1>3. CASE Yield(p, c, neighbor(Place(p), c.side))
  BY <1>1, <1>3, YieldStep
<1>4. CASE Return(p, c, "end", 0, {})
  BY <1>2, <1>4, RefuseStep
<1>5. CASE Sleep(p, c, {})
  BY <1>2, <1>5, SleepStep
<1> QED
  BY <1>1, <1>3, <1>4, <1>5

\* The doubly linked list behind its mutex implements the plain sequence of DoubleEnded:
\* every push, pop and iterator step at either end takes effect at one instant, and a
\* forced push takes an item out and puts one in within the same instant.
THEOREM Refinement == Spec => ImplementsDoubleEnded
<1>1. Init => Abstract!DEInit
  <2> SUFFICES ASSUME Init PROVE Abstract!DEInit
    OBVIOUS
  <2>1. Shape(list, tracker) /\ LiveIn(list) = {}
    <3>1. list.lo = 0 /\ list.hi = 0
      BY DEF Init
    <3>2. LiveIn(list) = {}
      BY <3>1 DEF LiveIn, Root
    <3> QED
      BY <3>2, InitIInv DEF IInv
  <2>2. tracker.length = 0
    BY <2>1, ShapeFacts
  <2>3. Contents = <<>>
    BY <2>2 DEF Contents
  <2> QED
    BY <2>3 DEF Init, Idle, Abstract!DEInit
<1>2. IInv /\ [Next]_vars => [Abstract!DENext]_(Abstract!deVars)
  <2> SUFFICES ASSUME IInv, [Next]_vars PROVE DEStep
    BY DEF DEStep
  <2>1. CASE UNCHANGED vars
    BY <2>1, StutterStep DEF vars, IInv
  <2>2. ASSUME NEW c \in Conds, WakeOnCancel(c) PROVE DEStep
    BY <2>2, StutterStep DEF WakeOnCancel, shared, IInv
  <2>3. ASSUME NEW p \in Procs, Cancel(p) PROVE DEStep
    BY <2>3, StutterStep DEF Cancel, shared, IInv
  <2> QED
    BY <2>1, <2>2, <2>3, PushStep, WaitPushStep, PopStep, DrainStep, CloseStep, IteratorStep
       DEF Next, Step
<1> QED
  BY <1>1, <1>2, Invariant, PTL DEF Spec, ImplementsDoubleEnded, Abstract!DESpec
=============================================================================
