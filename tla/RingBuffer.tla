----------------------------- MODULE RingBuffer ----------------------------
(* dt.Ring: a ring of "size" positions that overwrites its oldest element,  *)
(* and from which the oldest can be popped. Elements are numbered as they   *)
(* are pushed (0 is the zero value); "held" is what the ring promises: the  *)
(* last pushed elements that were neither overwritten nor popped.           *)
EXTENDS Integers, Sequences, FiniteSets

CONSTANTS MaxSize,     \* the sizes Setup may be given: 0..MaxSize (0 asks for the default)
          DefaultSize, \* 1024 in the code
          MaxTotal     \* bound on the number of pushes

VARIABLES size, count, pos, total,
          ring,        \* the element at each position
          nils,        \* the positions that hold one
          held

vars == <<size, count, pos, total, ring, nils, held>>

hasWrapped == total > size
Abs(i) == IF i < 0 THEN -i ELSE i
offset(idx, by) == size * (IF Abs(idx) < 1 THEN 1 ELSE Abs(idx)) + idx + by
after(idx)  == offset(idx, 1) % size
before(idx) == offset(idx, -1) % size
oldest == IF hasWrapped THEN pos ELSE 0
Init ==
  /\ size \in { IF s = 0 THEN DefaultSize ELSE s : s \in (0..MaxSize) \ {1} }
  /\ count = 0 /\ pos = 0 /\ total = 0
  /\ ring = [i \in 0..(size - 1) |-> 0] /\ nils = {} /\ held = <<>>

Push ==
  /\ total < MaxTotal
  /\ total' = total + 1
  /\ count' = IF count < size THEN count + 1 ELSE count
  /\ ring' = [ring EXCEPT ![pos] = total + 1]
  /\ nils' = nils \union {pos}
  /\ pos' = after(pos)
  /\ held' = Append(IF Len(held) = size THEN Tail(held) ELSE held, total + 1)
  /\ UNCHANGED size

(* The first position that holds an element, going round from "from" *)
RECURSIVE FirstHeld(_, _)
FirstHeld(from, n) == IF from \in nils \/ n = 0 THEN from ELSE FirstHeld(after(from), n - 1)

Pop ==
  LET idx == FirstHeld(oldest, size) IN
  /\ count > 0
  /\ ring' = [ring EXCEPT ![idx] = 0]
  /\ nils' = nils \ {idx}
  /\ count' = count - 1
  /\ held' = SelectSeq(held, LAMBDA e : e /= ring[idx])
  /\ UNCHANGED <<size, pos, total>>

Next == Push \/ Pop
Spec == Init /\ [][Next]_vars

(* What the iterators yield: they go round once from "from" and pass over   *)
(* the positions that hold nothing.                                         *)
RECURSIVE Round(_, _, _)
Round(idx, advance, n) ==
  IF n = 0 THEN <<>>
  ELSE (IF idx \in nils THEN <<ring[idx]>> ELSE <<>>) \o Round(advance[idx], advance, n - 1)
FIFO == IF count = 0 THEN <<>> ELSE Round(oldest, [i \in 0..(size - 1) |-> after(i)], size)
LIFO == IF count = 0 THEN <<>> ELSE Round(before(pos), [i \in 0..(size - 1) |-> before(i)], size)
RECURSIVE PopFIFO(_, _)
PopFIFO(has, from) ==                              \* what repeated Pops answer
  IF has = {} THEN <<>>
  ELSE LET hold[i \in 0..size] == IF i = 0 THEN from ELSE IF hold[i - 1] \in has THEN hold[i - 1] ELSE after(hold[i - 1])
           idx == hold[size]
       IN <<ring[idx]>> \o PopFIFO(has \ {idx}, from)

TailOf == ring[before(pos)]
HeadOf == ring[oldest]

(* However pushes that wrap and pops alternate, the ring is the sequence it *)
(* promises to be: it iterates and pops from the oldest to the newest, both *)
(* ways, and Len is the number of elements. (Head is not: it looks at one   *)
(* position, which a pop may have emptied.)                                 *)
RingIsSequence ==
  /\ FIFO = held
  /\ LIFO = [i \in DOMAIN held |-> held[Len(held) + 1 - i]]
  /\ PopFIFO(nils, oldest) = held
  /\ count = Len(held)
  /\ held /= <<>> => TailOf = held[Len(held)] /\ HeadOf \in {0, held[1]}

(* What Head's comment says, and it does not do: it returns the oldest      *)
(* element in the buffer (ring.go:91).                                      *)
HeadIsOldest == held /= <<>> => HeadOf = held[1]

============================================================================
