---------------------------- MODULE LinkedLists ----------------------------
(* dt.List and dt.Element: doubly linked lists that share a pool of         *)
(* elements. The pointers are modelled one by one; "seq" is what the        *)
(* documentation promises, a sequence of elements for each list. An element *)
(* stands for its value too, and values are compared as numbers.            *)
EXTENDS Integers, Sequences, FiniteSets

CONSTANTS Lists,       \* the lists: 1..n
          Elems        \* the elements: 1..m

LOCAL INSTANCE Functions
SX == INSTANCE SequencesExt

None    == 0
Root(l) == -l
Copy    == -100        \* the node on the stack of Swap
Nodes   == Elems \union { Root(l) : l \in Lists } \union {Copy}

VARIABLES h,        \* the heap: next, prev and own[er] of each node, and len of each list
          ok,       \* the elements whose ok is set
          seq       \* the sequence each list promises to be

vars == <<h, ok, seq>>

----------------------------------------------------------------------------
(* The pointer operations, on a heap *)
AppendHalf(g, e, val) ==                           \* mutant: the back pointer is forgotten
  [g EXCEPT !.len[g.own[e]] = @ + 1, !.own[val] = g.own[e],
            !.prev[val] = e, !.next[val] = g.next[e], !.next[e] = val]
uncheckedAppend(g, e, val) ==
  [g EXCEPT !.len[g.own[e]] = @ + 1, !.own[val] = g.own[e],
            !.prev[val] = e, !.next[val] = g.next[e],
            !.next[e] = val, !.prev[g.next[e]] = val]
uncheckedRemove(g, e) ==
  [g EXCEPT !.len[g.own[e]] = @ - 1, !.own[e] = None,
            !.next[g.prev[e]] = g.next[e], !.prev[g.next[e]] = g.prev[e]]

isRoot(e)     == \E l \in Lists : e = Root(l)
inList(g, e)  == g.own[e] /= None
removable(g, e) == inList(g, e) /\ ~isRoot(e) /\ g.len[g.own[e]] > 0
appendable(g, e, val) == val \in ok /\ inList(g, e) /\ g.own[val] = None
swappable(g, e, w) == e /= w /\ inList(g, e) /\ g.own[e] = g.own[w]

(* Swap copies the node before "with" (the heap's "copy"), moves "with"     *)
(* before e, removes e and appends it to the copy.                          *)
Swapped(g, e, with) ==
  LET c  == Copy
      g0 == [g EXCEPT !.next[c] = g.next[g.prev[with]], !.prev[c] = g.prev[g.prev[with]],
                      !.own[c] = g.own[with]]
      g1 == uncheckedRemove(g0, with)
      g2 == uncheckedAppend(g1, g1.prev[e], with)
      g3 == uncheckedRemove(g2, e)
  IN uncheckedAppend(g3, c, e)

(* Walks: the elements in the order of Next or of Previous, cut after more  *)
(* steps than there are elements (a broken list may have no end).           *)
RECURSIVE Walk(_, _, _)
Walk(dir, at, n) ==
  IF n = 0 \/ at \notin Elems THEN <<>> ELSE <<at>> \o Walk(dir, dir[at], n - 1)
Forward(l)  == Walk(h.next, h.next[Root(l)], Cardinality(Elems) + 1)
Backward(l) == Walk(h.prev, h.prev[Root(l)], Cardinality(Elems) + 1)

----------------------------------------------------------------------------
Init ==
  /\ h = [next |-> [n \in Nodes |-> n], prev |-> [n \in Nodes |-> n],
          own |-> [n \in Nodes |-> IF n \in { Root(l) : l \in Lists } THEN -n ELSE None],
          len |-> [l \in Lists |-> 0]]
  /\ ok = Elems
  /\ seq = [l \in Lists |-> <<>>]

Without(s, e) == SelectSeq(s, LAMBDA x : x /= e)
Placed(s, e, v) ==                                 \* v after e; at the front if e is the root
  LET i == IF e \in Range(s) THEN CHOOSE j \in DOMAIN s : s[j] = e ELSE 0
  IN SubSeq(s, 1, i) \o <<v>> \o SubSeq(s, i + 1, Len(s))

(* Element.Append on a member or the root of l; it answers e and does       *)
(* nothing when val is not ok or is attached, or when e is detached.        *)
AppendTo(e, v) ==
  /\ appendable(h, e, v)
  /\ h' = uncheckedAppend(h, e, v)
  /\ seq' = [seq EXCEPT ![h.own[e]] = Placed(@, e, v)]
  /\ UNCHANGED ok

PushFront(l, v) == AppendTo(Root(l), v)
PushBack(l, v)  == AppendTo(h.prev[Root(l)], v)
InsertAfter(e, v) == e /= v /\ AppendTo(e, v)

(* Element.Remove; List.pop also refuses an element of another list *)
Remove(e) ==
  /\ removable(h, e)
  /\ h' = uncheckedRemove(h, e)
  /\ seq' = [seq EXCEPT ![h.own[e]] = Without(@, e)]
Removed(e) == Remove(e) /\ UNCHANGED ok
Drop(e) == Remove(e) /\ ok' = ok \ {e}
Set(e)  == e \notin ok /\ ok' = ok \union {e} /\ UNCHANGED <<h, seq>>

pop(l, it) ==
  /\ it \in Elems /\ removable(h, it) /\ h.own[it] = l
  /\ h' = uncheckedRemove(h, it)
  /\ UNCHANGED ok
PopFront(l) == pop(l, h.next[Root(l)]) /\ seq' = [seq EXCEPT ![l] = Tail(@)]
PopBack(l)  == pop(l, h.prev[Root(l)]) /\ seq' = [seq EXCEPT ![l] = SubSeq(@, 1, Len(@) - 1)]

(* Reset pops everything from the front; so does SortQuick, which appends   *)
(* the elements again in their order (its sort is stable).                  *)
Emptied(g, l) == SX!FoldLeft(LAMBDA k, e : uncheckedRemove(k, e), g, Forward(l))
Reset(l) ==
  /\ h' = Emptied(h, l) /\ seq' = [seq EXCEPT ![l] = <<>>] /\ UNCHANGED ok
Ascending(s) == SX!SetToSortSeq(Range(s), <)
SortQuick(l) ==
  /\ h' = SX!FoldLeft(LAMBDA k, e : uncheckedAppend(k, k.prev[Root(l)], e), Emptied(h, l), Ascending(Forward(l)))
  /\ seq' = [seq EXCEPT ![l] = Ascending(@)]
  /\ UNCHANGED ok

(* Exchanged: what Swap's documentation says, for two members of l *)
Exchanged(s, a, b) == [i \in DOMAIN s |-> IF s[i] = a THEN b ELSE IF s[i] = b THEN a ELSE s[i]]
Swap(a, b) ==
  /\ swappable(h, a, b) /\ h.own[Copy] = None
  /\ h' = Swapped(h, a, b)
  /\ seq' = [seq EXCEPT ![h.own[a]] = Exchanged(@, a, b)]
  /\ UNCHANGED ok

Next ==
  \/ \E l \in Lists, v \in Elems : PushFront(l, v) \/ PushBack(l, v)
  \/ \E l \in Lists : PopFront(l) \/ PopBack(l) \/ Reset(l) \/ SortQuick(l)
  \/ \E e, v \in Elems : InsertAfter(e, v)
  \/ \E e \in Elems : Removed(e) \/ Drop(e) \/ Set(e)

Spec == Init /\ [][Next]_vars
(* Swap is left out of Next: it breaks the list (see SwapExchanges) *)
NextWithSwap == Next \/ \E a, b \in Elems : Swap(a, b)
SpecWithSwap == Init /\ [][NextWithSwap]_vars

----------------------------------------------------------------------------
(* The pointers of every list are the sequence it promises to be: the walk  *)
(* forward, the walk backward, the length it reports and the owner of its   *)
(* elements agree with it; an element in no list has no owner.              *)
ListsAreSequences ==
  /\ \A l \in Lists :
       /\ Forward(l) = seq[l]
       /\ Backward(l) = SX!Reverse(seq[l])
       /\ h.len[l] = Len(seq[l])
  /\ \A e \in Elems : h.own[e] = None \/ e \in Range(seq[h.own[e]])

(* What Swap is documented to do: exchange the location of two elements in  *)
(* a list (list.go:330); after it the list still yields each element.       *)
SwapExchanges == \A l \in Lists : Forward(l) = seq[l]

----------------------------------------------------------------------------
(* The sorts and IsSorted, on the values of a list: numbers with repeats *)
split(s) == LET half == Len(s) \div 2 IN <<SubSeq(s, Len(s) - half + 1, Len(s)), SubSeq(s, 1, Len(s) - half)>>
RECURSIVE merge(_, _)
merge(a, b) ==
  IF a = <<>> \/ b = <<>> THEN a \o b
  ELSE IF Head(a) < Head(b) THEN <<Head(a)>> \o merge(Tail(a), b) ELSE <<Head(b)>> \o merge(a, Tail(b))
RECURSIVE mergeSort(_)
mergeSort(s) == IF Len(s) < 2 THEN s ELSE LET t == split(s) IN merge(mergeSort(t[1]), mergeSort(t[2]))
(* IsSorted compares each element but the last with the one before it, the  *)
(* first with the root, whose value is zero                                 *)
IsSorted(s) == Len(s) <= 1 \/ \A i \in 1..(Len(s) - 1) : ~(s[i] < (IF i = 1 THEN 0 ELSE s[i - 1]))

(* A merge sort keeps every value as often as it came and puts them in      *)
(* ascending order.                                                         *)
SortsTheValues(s) ==
  LET t == mergeSort(s)
      Times(q, v) == Cardinality({ i \in DOMAIN q : q[i] = v })
  IN /\ \A v \in Range(s) \union Range(t) : Times(s, v) = Times(t, v)
     /\ \A i \in 1..(Len(t) - 1) : t[i] <= t[i + 1]

(* What IsSorted's comment says, and it does not do: it reports whether the *)
(* list is sorted from low to high (list.go:413).                           *)
IsSortedTells(s) == IsSorted(s) = \A i \in 2..Len(s) : s[i - 1] <= s[i]

============================================================================
