------------------------------- MODULE Heaps -------------------------------
(* dt.Heap, a priority queue kept as a sorted list, and dt.BinHeap, one     *)
(* kept as an array in heap order, given the same items. An item is its key *)
(* and the number of its push; the compare function looks at the key alone  *)
(* and is set (both types panic without one).                               *)
EXTENDS Integers, Sequences, FiniteSets

CONSTANTS Keys,        \* a set of integers
          MaxPush      \* bound on the number of pushes

LOCAL INSTANCE Functions
LOCAL INSTANCE FiniteSetsExt
SX == INSTANCE SequencesExt

VARIABLES list,        \* of the Heap
          data,        \* of the BinHeap, from position 0
          pushed,      \* the number of pushes
          inList, inData   \* the items each must hold

vars == <<list, data, pushed, inList, inData>>

Before(a, b) == a[1] < b[1]                        \* CF(a, b) < 0

Init == list = <<>> /\ data = <<>> /\ pushed = 0 /\ inList = {} /\ inData = {}

----------------------------------------------------------------------------
(* Heap: the list is scanned from its end to the first item that does not   *)
(* come after the new one, which is put behind it.                          *)
Inserted(s, t) ==
  SX!InsertAt(s, 1 + Max({0} \union { i \in DOMAIN s : ~Before(t, s[i]) }), t)
(* BinHeap: container/heap moves an item up or down the array *)
Swapped(a, i, j) == [a EXCEPT ![i] = a[j], ![j] = a[i]]
RECURSIVE up(_, _)
up(a, j) ==
  LET i == j \div 2
  IN IF i = 0 \/ ~Before(a[j], a[i]) THEN a ELSE up(Swapped(a, i, j), i)
RECURSIVE down(_, _, _)
down(a, i, n) ==
  LET left == 2 * i
      j == IF left + 1 <= n /\ Before(a[left + 1], a[left]) THEN left + 1 ELSE left
  IN IF left > n \/ ~Before(a[j], a[i]) THEN a ELSE down(Swapped(a, i, j), j, n)
BinPushed(a, t) == up(Append(a, t), Len(a) + 1)
BinPopped(a) == LET n == Len(a) - 1 IN SubSeq(down(Swapped(a, 1, n + 1), 1, n), 1, n)

Push(k) ==
  LET t == <<k, pushed + 1>> IN
  /\ pushed < MaxPush
  /\ pushed' = pushed + 1
  /\ list' = Inserted(list, t) /\ inList' = inList \union {t}
  /\ data' = BinPushed(data, t) /\ inData' = inData \union {t}

Pop ==
  /\ list /= <<>>
  /\ list' = Tail(list) /\ inList' = inList \ {list[1]}
  /\ UNCHANGED <<data, pushed, inData>>

BinPop ==
  /\ data /= <<>>
  /\ data' = BinPopped(data) /\ inData' = inData \ {data[1]}
  /\ UNCHANGED <<list, pushed, inList>>

Next == (\E k \in Keys : Push(k)) \/ Pop \/ BinPop
Spec == Init /\ [][Next]_vars

----------------------------------------------------------------------------
RECURSIVE PopAll(_)
PopAll(a) == IF a = <<>> THEN <<>> ELSE <<a[1]>> \o PopAll(BinPopped(a))

(* Both heaps hold what was pushed and not popped. The Heap iterates and    *)
(* pops it in the order of the keys, and items of one key in the order they *)
(* were pushed; the BinHeap pops it in the order of the keys.               *)
HeapsInOrder ==
  /\ Range(list) = inList /\ Len(list) = Cardinality(inList)
  /\ \A i \in 1..(Len(list) - 1) :
       list[i][1] < list[i + 1][1] \/ (list[i][1] = list[i + 1][1] /\ list[i][2] < list[i + 1][2])
  /\ LET s == PopAll(data)
     IN /\ Range(s) = inData /\ Len(s) = Cardinality(inData)
        /\ \A i \in 1..(Len(s) - 1) : ~Before(s[i + 1], s[i])

============================================================================
