---------------------------- MODULE OrderedMaps ----------------------------
(* dt.OrderedMap, adt.OrderedMap, dt.OrderedSet and adt.OrderedSet: a hash  *)
(* from keys to the elements of a linked list, and an iterator that is      *)
(* pulled from between changes. Each operation, and each pull, is one step: *)
(* it holds the mutex (dt.OrderedSet has one user and no mutex, and its     *)
(* loop's body makes the changes). Elements are numbered as they are made;  *)
(* 0 is the root. The adt list marks an element it removed, so that an      *)
(* iterator that comes to it ends; the dt list does not.                    *)
EXTENDS Integers, Sequences, FiniteSets

CONSTANTS Keys,        \* a set of integers
          MaxElems     \* bound on the number of elements ever made

LOCAL INSTANCE Functions
SX == INSTANCE SequencesExt

Kinds == {"dt map", "dt set", "adt map", "adt set"}
Root  == 0

VARIABLES kind,        \* which of the four it is
          filtered,    \* the iterator of a map (not that of its keys) asks the hash about each key
          lst,         \* the list: next and prev of each element, and the set "in" of those in it
          key, val,    \* of each element
          used,        \* the number of elements made
          hash,        \* the element of each key, 0 for none
          it,          \* the iterator: the element it is at, and its state
          yielded,     \* the elements it yielded
          through,     \* the keys that were there from its start on
          strayed,     \* the element it was at has been removed
          sorted       \* the list has been sorted since it started

vars == <<kind, filtered, lst, key, val, used, hash, it, yielded, through, strayed, sorted>>
iteration == <<it, yielded, through, strayed, sorted>>
config == <<kind, filtered>>

Elems  == 1..MaxElems
isAdt  == kind \in {"adt map", "adt set"}
isMap  == kind \in {"dt map", "adt map"}

Init ==
  /\ kind \in Kinds /\ filtered \in (IF isMap THEN BOOLEAN ELSE {FALSE})
  /\ lst = [next |-> [e \in {Root} \union Elems |-> Root], prev |-> [e \in {Root} \union Elems |-> Root], in |-> {}]
  /\ key = <<>> /\ val = <<>> /\ used = 0
  /\ hash = [k \in Keys |-> Root]
  /\ it = [at |-> Root, state |-> "none"] /\ yielded = <<>> /\ through = {} /\ strayed = FALSE /\ sorted = FALSE

----------------------------------------------------------------------------
PushedBack(l, e) ==
  [next |-> [l.next EXCEPT ![e] = Root, ![l.prev[Root]] = e],
   prev |-> [l.prev EXCEPT ![e] = l.prev[Root], ![Root] = e],
   in   |-> l.in \union {e}]
Popped(l, e) ==
  [next |-> [l.next EXCEPT ![l.prev[e]] = l.next[e]],
   prev |-> [l.prev EXCEPT ![l.next[e]] = l.prev[e]],
   in   |-> l.in \ {e}]
RECURSIVE Walk(_, _, _)
Walk(dir, at, n) == IF n = 0 \/ at = Root THEN <<>> ELSE <<at>> \o Walk(dir, dir[at], n - 1)
Forward(l) == Walk(l.next, l.next[Root], MaxElems + 1)
Relinked(l, s) == SX!FoldLeft(PushedBack, SX!FoldLeft(Popped, l, Forward(l)), s)

Appended(k, v) ==
  /\ used < MaxElems
  /\ used' = used + 1
  /\ lst' = PushedBack(lst, used + 1)
  /\ key' = Append(key, k) /\ val' = Append(val, v)
  /\ hash' = [hash EXCEPT ![k] = used + 1]
  /\ UNCHANGED <<config, iteration>>

(* Set, and Store, of a key that is there changes its value in place *)
innerSet(k, v) ==
  \/ hash[k] = Root /\ Appended(k, v)
  \/ /\ hash[k] /= Root
     /\ val' = [val EXCEPT ![hash[k]] = v]
     /\ UNCHANGED <<config, lst, key, used, hash, iteration>>
Set(k)    == isMap /\ innerSet(k, 1)
Ensure(k) == isMap /\ hash[k] = Root /\ innerSet(k, 0)
Add(k)    == ~isMap /\ hash[k] = Root /\ Appended(k, 0)

Removed(l, e) == Popped(l, e)
Delete(k) ==
  /\ hash[k] /= Root
  /\ lst' = Removed(lst, hash[k])
  /\ hash' = [hash EXCEPT ![k] = Root]
  /\ through' = through \ {k}
  /\ strayed' = (strayed \/ it.at = hash[k])
  /\ UNCHANGED <<config, key, val, used, it, yielded, sorted>>
DeleteKey(k)  == isMap /\ Delete(k)
DeleteItem(k) == ~isMap /\ Delete(k)

(* SortQuick takes every element out of the list and puts it back *)
Ascending(s) == SX!SetToSortSeq(Range(s), LAMBDA a, b : key[a] < key[b])
SortQuick ==
  /\ ~isMap
  /\ lst' = Relinked(lst, Ascending(Forward(lst)))
  /\ sorted' = TRUE
  /\ UNCHANGED <<config, key, val, used, hash, it, yielded, through, strayed>>

----------------------------------------------------------------------------
(* The iterator. The adt list looks for its front when the iterator is made *)
(* and the dt list at the first pull.                                       *)
Iterator ==
  /\ it.state = "none"
  /\ it' = [at |-> IF isAdt THEN lst.next[Root] ELSE Root, state |-> "made"]
  /\ through' = { k \in Keys : hash[k] /= Root }
  /\ sorted' = FALSE /\ strayed' = FALSE /\ yielded' = <<>>
  /\ UNCHANGED <<config, lst, key, val, used, hash>>

checkForElem(e) == filtered => hash[key[e]] /= Root

(* From e on: the first element to yield, or the root when there is none *)
RECURSIVE NextFrom(_)
NextFrom(e) == IF e = Root \/ (isAdt /\ e \notin lst.in) THEN Root
               ELSE IF checkForElem(e) THEN e ELSE NextFrom(lst.next[e])
Pull ==
  LET e == NextFrom(IF it.state = "made" /\ isAdt THEN it.at ELSE lst.next[it.at]) IN
  /\ it.state \in {"made", "going"}
  /\ it' = [at |-> e, state |-> IF e = Root THEN "done" ELSE "going"]
  /\ yielded' = IF e = Root THEN yielded ELSE Append(yielded, e)
  /\ UNCHANGED <<config, lst, key, val, used, hash, through, strayed, sorted>>
Stop ==                                            \* the consumer stops, or has come to the end
  /\ it.state = "going" \/ it.state = "done"
  /\ it' = [at |-> Root, state |-> "none"]
  /\ yielded' = <<>> /\ through' = {} /\ strayed' = FALSE /\ sorted' = FALSE
  /\ UNCHANGED <<config, lst, key, val, used, hash>>

Next ==
  \/ \E k \in Keys : Set(k) \/ Ensure(k) \/ Add(k) \/ DeleteKey(k) \/ DeleteItem(k)
  \/ SortQuick \/ Iterator \/ Pull \/ Stop
Spec == Init /\ [][Next]_vars

----------------------------------------------------------------------------
(* dt.OrderedSet.SortMerge: merge takes elements from the front of both     *)
(* lists while neither is empty, and then adds the values of the rest: they *)
(* get new elements (here <<key, TRUE>>), which the hash does not know. It  *)
(* is left out of Next: see SetIteratesItsItems.                            *)
RECURSIVE merge(_, _)
merge(a, b) ==
  IF a = <<>> \/ b = <<>> THEN [i \in 1..(Len(a) + Len(b)) |-> << (a \o b)[i][1], TRUE >>]
  ELSE IF a[1][1] < b[1][1] THEN <<a[1]>> \o merge(Tail(a), b) ELSE <<b[1]>> \o merge(a, Tail(b))
RECURSIVE mergeSort(_)
mergeSort(s) ==
  LET half == Len(s) \div 2
  IN IF Len(s) < 2 THEN s
     ELSE merge(mergeSort(SubSeq(s, Len(s) - half + 1, Len(s))), mergeSort(SubSeq(s, 1, Len(s) - half)))
SortMerge ==
  LET was == Forward(lst)
      now == mergeSort([i \in DOMAIN was |-> <<key[was[i]], FALSE>>])
      fresh == SelectSeq(now, LAMBDA p : p[2])
      elem == [i \in DOMAIN now |->
                 IF now[i][2] THEN used + Cardinality({ j \in 1..i : now[j][2] }) ELSE hash[now[i][1]]]
  IN /\ kind = "dt set" /\ used + Len(fresh) <= MaxElems /\ it.state = "none"
     /\ used' = used + Len(fresh)
     /\ key' = key \o [i \in DOMAIN fresh |-> fresh[i][1]]
     /\ val' = val \o [i \in DOMAIN fresh |-> 0]
     /\ lst' = SX!FoldLeft(PushedBack, SX!FoldLeft(Popped, lst, was), elem)
     /\ UNCHANGED <<config, hash, iteration>>
(* An element of the hash that is in no list any more is left alone *)
DeleteSorted(k) ==
  /\ hash[k] /= Root /\ hash[k] \notin lst.in
  /\ hash' = [hash EXCEPT ![k] = Root]
  /\ UNCHANGED <<config, lst, key, val, used, iteration>>
NextWithSort ==
  \/ SortMerge
  \/ \E k \in Keys : Add(k) \/ (DeleteItem(k) /\ hash[k] \in lst.in) \/ DeleteSorted(k)
SpecWithSort == Init /\ [][NextWithSort]_vars

(* A set has been asked to delete an item: it is not iterated any more      *)
(* (ordered_set.go, "Delete removes the item from the set").                *)
SetIteratesItsItems == { key[e] : e \in Range(Forward(lst)) } = { k \in Keys : hash[k] /= Root }

----------------------------------------------------------------------------
(* The hash and the list tell the same: the list has one element for each   *)
(* key, and links them both ways.                                           *)
HashAgreesWithList ==
  LET f == Forward(lst)
  IN /\ Range(f) = lst.in /\ Len(f) = Cardinality({ k \in Keys : hash[k] /= Root })
     /\ \A i \in DOMAIN f : hash[key[f[i]]] = f[i]
     /\ Walk(lst.prev, lst.prev[Root], MaxElems + 1) = SX!Reverse(f)

(* An iteration yields its elements in the order they were added, none of   *)
(* them twice, whatever is added and deleted on its way; one that reached   *)
(* its end has yielded every key that was there all along. For the adt      *)
(* types that holds only if the element the iterator stood on was not       *)
(* deleted; and a sort voids it (a set may have been sorted before).        *)
IterationSurvivesChanges ==
  ~sorted =>
    /\ \A i \in 1..(Len(yielded) - 1) : yielded[i] < yielded[i + 1] \/ ~isMap
    /\ Cardinality(Range(yielded)) = Len(yielded)
    /\ it.state = "done" =>
         through \subseteq { key[e] : e \in Range(yielded) } \/ (isAdt /\ strayed)

============================================================================
