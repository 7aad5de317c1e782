---------------------------- MODULE LinkedStacks ---------------------------
(* dt.Stack and dt.Item: singly linked stacks that share a pool of items,   *)
(* pointer by pointer. A stack's chain ends at its root, the only node of   *)
(* the chain that is not ok. "seq" is what the documentation promises: the  *)
(* items of each stack from the top down.                                   *)
EXTENDS Integers, Sequences, FiniteSets

CONSTANTS Stacks,      \* the stacks: 1..n
          Items        \* the items: 1..m

SX == INSTANCE SequencesExt

None    == 0
Root(s) == -s
isOk(n) == n \in Items

VARIABLES next,     \* the pointer of each item
          own,      \* the stack each item points at
          head,     \* of each stack: its top, its root when it is empty
          length,
          seq

vars == <<next, own, head, length, seq>>

RECURSIVE Chain(_, _, _)
Chain(nx, at, n) == IF n = 0 \/ ~isOk(at) THEN <<>> ELSE <<at>> \o Chain(nx, nx[at], n - 1)
Iterator(s) == Chain(next, head[s], Cardinality(Items) + 1)

Init ==
  /\ next = [i \in Items |-> None] /\ own = [i \in Items |-> None]
  /\ head = [s \in Stacks |-> Root(s)] /\ length = [s \in Stacks |-> 0]
  /\ seq = [s \in Stacks |-> <<>>]

----------------------------------------------------------------------------
(* Item.Append puts the new item on top of the stack of "it", wherever "it" *)
(* is in that stack; it refuses an item that points at a stack.             *)
AppendTo(s, n) ==
  /\ own[n] = None
  /\ next' = [next EXCEPT ![n] = head[s]]
  /\ own' = [own EXCEPT ![n] = s]
  /\ head' = [head EXCEPT ![s] = n]
  /\ length' = [length EXCEPT ![s] = @ + 1]
  /\ seq' = [seq EXCEPT ![s] = <<n>> \o @]
Push(s, n) == AppendTo(s, n)
AppendToItem(it, n) == own[it] /= None /\ AppendTo(own[it], n)

(* Pop answers the root, and detaches nothing, when the stack is empty *)
Pop(s) ==
  /\ length[s] > 0
  /\ length' = [length EXCEPT ![s] = @ - 1]
  /\ own' = [own EXCEPT ![head[s]] = None]
  /\ head' = [head EXCEPT ![s] = next[head[s]]]
  /\ seq' = [seq EXCEPT ![s] = Tail(@)]
  /\ UNCHANGED next

(* Attach pops every item of "from" and appends it to the stack of the item *)
(* "it"; if "it" is in no stack each popped item is dropped, and it answers *)
(* true all the same.                                                       *)
Attach(it, from) ==
  LET to    == own[it]
      moved == Iterator(from)
      onto(nx, i) == [nx EXCEPT ![moved[i]] = IF i = 1 THEN head[to] ELSE moved[i - 1]]
  IN /\ length[from] > 0 /\ from /= to
     /\ head' = IF to = None THEN [head EXCEPT ![from] = Root(from)]
                ELSE [head EXCEPT ![from] = Root(from), ![to] = moved[Len(moved)]]
     /\ length' = IF to = None THEN [length EXCEPT ![from] = 0]
                  ELSE [length EXCEPT ![from] = 0, ![to] = @ + Len(moved)]
     /\ own' = [i \in Items |-> IF own[i] = from THEN to ELSE own[i]]
     /\ next' = IF to = None THEN next ELSE SX!FoldLeft(onto, next, [i \in DOMAIN moved |-> i])
     /\ seq' = IF to = None THEN [seq EXCEPT ![from] = <<>>]
               ELSE [seq EXCEPT ![from] = <<>>, ![to] = SX!Reverse(seq[from]) \o @]

(* Reverse turns every pointer round, the first one to the root *)
TurnedRound(nx, s, chain) ==
  [i \in Items |-> IF \E j \in DOMAIN chain : chain[j] = i
                   THEN LET j == CHOOSE x \in DOMAIN chain : chain[x] = i
                        IN IF j = 1 THEN Root(s) ELSE chain[j - 1]
                   ELSE nx[i]]
Reverse(s) ==
  /\ length[s] > 1
  /\ next' = TurnedRound(next, s, Iterator(s))
  /\ head' = [head EXCEPT ![s] = Iterator(s)[Len(Iterator(s))]]
  /\ seq' = [seq EXCEPT ![s] = SX!Reverse(@)]
  /\ UNCHANGED <<own, length>>

Next ==
  \/ \E s \in Stacks, n \in Items : Push(s, n)
  \/ \E it, n \in Items : AppendToItem(it, n)
  \/ \E s \in Stacks : Pop(s) \/ Reverse(s)
  \/ \E it \in Items, s \in Stacks : Attach(it, s)

Spec == Init /\ [][Next]_vars

(* The pointers of every stack are the items it promises to hold, and the   *)
(* length it reports is their number; an item of no stack has no owner.     *)
StacksAreSequences ==
  /\ \A s \in Stacks : Iterator(s) = seq[s] /\ length[s] = Len(seq[s])
  /\ \A i \in Items : own[i] = None \/ \E j \in DOMAIN seq[own[i]] : seq[own[i]][j] = i

----------------------------------------------------------------------------
(* Remove and Detach are left out of Next: they break the stack (see below) *)

(* Item.Remove finds the item, counts it out and detaches it, and leaves    *)
(* the chain as it was ("next.next = it.next" of the item itself).          *)
Remove(it) ==
  /\ own[it] /= None /\ it \in { Iterator(own[it])[i] : i \in DOMAIN Iterator(own[it]) }
  /\ length' = [length EXCEPT ![own[it]] = @ - 1]
  /\ own' = [own EXCEPT ![it] = None]
  /\ seq' = [seq EXCEPT ![own[it]] = SelectSeq(@, LAMBDA x : x /= it)]
  /\ UNCHANGED <<next, head>>

(* Item.Detach gives "it" a stack t of its own: alone if it was in none,    *)
(* and otherwise with what is below it. It cuts the chain above it, and     *)
(* takes the length of t from the one it has just changed, which leaves 0.  *)
(* The items below go on pointing at their old stack. The Detach of a head, *)
(* a root or an item that its stack does not hold changes no stack.         *)
Detach(it, t) ==
  LET s == own[it]
  IN /\ head[t] = Root(t) /\ \A i \in Items : own[i] /= t
     /\ head' = [head EXCEPT ![t] = it] /\ own' = [own EXCEPT ![it] = t]
     /\ \/ /\ s = None /\ UNCHANGED next
           /\ length' = [length EXCEPT ![t] = 1] /\ seq' = [seq EXCEPT ![t] = <<it>>]
        \/ /\ s /= None
           /\ \E k \in 2..Len(Iterator(s)) :
                /\ Iterator(s)[k] = it
                /\ next' = [next EXCEPT ![Iterator(s)[k - 1]] = Root(s)]
                /\ length' = [length EXCEPT ![s] = k - 1, ![t] = 0]
                /\ seq' = [seq EXCEPT ![s] = SubSeq(@, 1, k - 1), ![t] = SubSeq(seq[s], k, Len(seq[s]))]

SpecWithRemove == Init /\ [][Next \/ \E it \in Items : Remove(it)]_vars
SpecWithDetach == Init /\ [][Next \/ \E it \in Items, t \in Stacks : Detach(it, t)]_vars

(* A stack holds the items it promises to: one that was removed is gone     *)
(* (stack.go:221); but it is still there, and a stack made of an item that  *)
(* was popped (stack.go:256) goes on with all that was below it.            *)
HoldsItsItems == \A s \in Stacks : Iterator(s) = seq[s]

(* The length of a stack is that of what it holds, also of one split off    *)
(* (stack.go:39, 245); after Detach it is 0.                                *)
CountsItsItems == \A s \in Stacks : length[s] = Len(Iterator(s))

============================================================================
