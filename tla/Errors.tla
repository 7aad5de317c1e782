------------------------------- MODULE Errors -------------------------------
(* erc.Collector and the list under it, erc.Filter, the panics of erc, its  *)
(* iterators, and the helpers of ers. An error is a leaf, a collector (by   *)
(* name, as a pointer to what it will hold), an element of a collector's    *)
(* list (what its Iterator and its Unwrap give), or many errors behind an   *)
(* Unwrap. A state "st" is the list of each collector and its filter.       *)
(* Texts are left out: an error is what it wraps.                           *)
EXTENDS Integers, Sequences, FiniteSets
SX == INSTANCE SequencesExt

CONSTANT Collectors

Nil       == [t |-> "nil", id |-> 0, i |-> 0, of |-> <<>>]
Leaf(k)   == [Nil EXCEPT !.t = "leaf", !.id = k]
Coll(c)   == [Nil EXCEPT !.t = "collector", !.id = c]
Elem(c, i) == [Nil EXCEPT !.t = "element", !.id = c, !.i = i]
Many(es)  == [Nil EXCEPT !.t = "many", !.of = es]

(* Sentinels: leaves no input has *)
ErrRecoveredPanic == Leaf(-1)
ErrInvariantViolation == Leaf(-2)
Exclusion == -3                                    \* what a collector's filter removes

----------------------------------------------------------------------------
(* The leaves an error is, in the sense of errors.Is *)
RECURSIVE Reach(_, _)
Reach(st, e) ==
  CASE e.t = "leaf"      -> {e.id}
    [] e.t = "collector" -> UNION { Reach(st, x) : x \in SX!ToSet(st[e.id].list) }
    [] e.t = "element"   -> Reach(st, st[e.id].list[e.i])
    [] e.t = "many"      -> UNION { Reach(st, x) : x \in SX!ToSet(e.of) }
    [] OTHER             -> {}
Is(st, e, targets) == Reach(st, e) \intersect targets /= {}

(* ers.IsOk asks an Ok method: a collector's answers that it is empty, and  *)
(* an element's that it holds an error                                      *)
IsOk(st, e) ==
  \/ e.t = "nil"
  \/ e.t = "collector" /\ st[e.id].list = <<>>
  \/ e.t = "element"

If(cond, e) == IF cond THEN e ELSE Nil
Wrap(st, e) == If(~IsOk(st, e), Many(<<e>>))
WithTime(e) == If(e /= Nil, Many(<<e>>))

(* Filters *)
Apply(st, filters, e) ==                           \* Filter.Join: a filter removes what it excludes
  IF e = Nil \/ filters = <<>> THEN e
  ELSE IF IsOk(st, e) \/ \E f \in SX!ToSet(filters) : Is(st, e, f) THEN Nil ELSE e
Without(filters, exclusions) == IF exclusions = {} THEN filters ELSE Append(filters, exclusions)
Only(leaves, filters, inclusions) == IF inclusions = {} THEN filters ELSE Append(filters, leaves \ inclusions)

----------------------------------------------------------------------------
(* The list *)
PushBack(st, c, e) == [st EXCEPT ![c].list = Append(@, e)]
(* An element of another list brings those after it, one of this list is    *)
(* passed by, and a collector is not put in itself                          *)
RECURSIVE ListPush(_, _, _)
ListPush(st, c, err) ==
  LET e == Apply(st, st[c].filters, err)
  IN CASE e.t = "nil" -> st
       [] e.t = "collector" -> IF e.id = c THEN st ELSE PushBack(st, c, e)
       [] e.t = "element" ->
            IF e.id = c THEN st
            ELSE [st EXCEPT ![c].list = @ \o SubSeq(st[e.id].list, e.i, Len(st[e.id].list))]
       [] e.t = "many" -> SX!FoldLeft(LAMBDA s, x : ListPush(s, c, x), st, e.of)
       [] OTHER -> PushBack(st, c, e)
From(st, c, es) == SX!FoldLeft(LAMBDA s, x : ListPush(s, c, x), st, es)
Elements(st, c) == [i \in 1..Len(st[c].list) |-> Elem(c, i)]

(* The collector *)
PushAny(st, c, e) == IF e = Nil THEN st ELSE ListPush(st, c, e)    \* mutant: a Push that asks no Ok method
Push(st, c, e) == IF IsOk(st, e) THEN st ELSE ListPush(st, c, e)
Join(st, c, es) ==
  CASE Len(es) = 0 -> st
    [] Len(es) = 1 -> Push(st, c, es[1])
    [] OTHER       -> From(st, c, es)
PushSeq(st, c, es) == From(st, c, SelectSeq(es, LAMBDA e : e /= Nil))
SetFilter(st, c, filters) == [st EXCEPT ![c].filters = filters]
Err(st, c) ==
  CASE Len(st[c].list) = 0 -> Nil
    [] Len(st[c].list) = 1 -> st[c].list[1]
    [] OTHER               -> Coll(c)
Unwrap(st, c) == Elements(st, c)
Iterator(st, c) == Elements(st, c)

Empty == [c \in Collectors |-> [list |-> <<>>, filters |-> <<>>]]
(* The errors joined by a function that uses a collector of its own: as     *)
(* many errors, in the order a reader of the collector gets them            *)
Joined(es) == LET some == SelectSeq(es, LAMBDA e : e /= Nil) IN CASE some = <<>> -> Nil [] Len(some) = 1 -> some[1] [] OTHER -> Many(some)
AsCollector(e) == IF e.t = "many" THEN Joined(e.of) ELSE e

----------------------------------------------------------------------------
(* Panics: a value that is an error, or one that is made a text *)
ParsePanic(r) == If(r /= Nil, Joined(<<r, ErrRecoveredPanic>>))
NewInvariantError(args) == Joined(<<ErrInvariantViolation>> \o args)
Invariant(st, e, args) == If(~IsOk(st, e), Joined(<<e, ErrInvariantViolation>> \o args))   \* panics with it, but for Nil
Must(st, value, e) == IF IsOk(st, e) THEN [value |-> value, panic |-> Nil] ELSE [value |-> 0, panic |-> Invariant(st, e, <<>>)]
Errorf(text, es) == Joined(text \o es)
Errorln(es, text) == Joined(text \o es)

(* Iterators over pairs of a value and an error (Nil for none); the         *)
(* consumer wants n values. An answer is what it got, and what the handler  *)
(* was told.                                                                *)
Gave(v, e) == [values |-> v, errs |-> e]
RECURSIVE Handle(_, _)
Handle(ps, n) ==
  IF ps = <<>> THEN Gave(<<>>, <<>>)
  ELSE LET p == Head(ps)
           Rest(m) == Handle(Tail(ps), m)
       IN IF p.err /= Nil THEN Gave(Rest(n).values, <<p.err>> \o Rest(n).errs)
          ELSE IF n = 1 THEN Gave(<<p.value>>, <<>>)
          ELSE Gave(<<p.value>> \o Rest(n - 1).values, Rest(n - 1).errs)
RECURSIVE HandleUntil(_, _)
HandleUntil(ps, n) ==
  IF ps = <<>> THEN Gave(<<>>, <<>>)
  ELSE LET p == Head(ps)
       IN IF p.err /= Nil THEN Gave(<<>>, <<p.err>>)
          ELSE IF n = 1 THEN Gave(<<p.value>>, <<>>)
          ELSE LET r == HandleUntil(Tail(ps), n - 1) IN Gave(<<p.value>> \o r.values, r.errs)
HandleAll(ps, n) ==
  LET some == SubSeq(ps, 1, IF n < Len(ps) THEN n ELSE Len(ps))
  IN Gave([i \in 1..Len(some) |-> some[i].value], SelectSeq([i \in 1..Len(some) |-> some[i].err], LAMBDA e : e /= Nil))
Whole(ps) == Len(ps) + 1
FromIterator(ps)      == LET r == Handle(ps, Whole(ps)) IN <<r.values, Joined(r.errs)>>
FromIteratorUntil(ps) == LET r == HandleUntil(ps, Whole(ps)) IN <<r.values, Joined(r.errs)>>
FromIteratorAll(ps)   == LET r == HandleAll(ps, Whole(ps)) IN <<r.values, Joined(r.errs)>>

----------------------------------------------------------------------------
(* What is done to two collectors, 1 and 2, step by step; 2 collects from 1.*)
(* The leaf of the i-th step is i.                                          *)
Ops == { "leaf 1", "leaf 2", "pair", "excluded", "itself", "nest", "resolve", "unwrap", "iterate", "own" }
Did(st, o, i) ==
  CASE o = "leaf 1"   -> Push(st, 1, Leaf(i))
    [] o = "leaf 2"   -> Push(st, 2, Leaf(i))
    [] o = "pair"     -> Push(st, 2, Many(<<Leaf(i), Nil, Leaf(i + 100)>>))
    [] o = "excluded" -> Push(SetFilter(st, 2, Without(<<>>, {Exclusion})), 2, Many(<<Leaf(i), Leaf(Exclusion)>>))
    [] o = "itself"   -> Push(Push(st, 2, Coll(2)), 1, Coll(1))
    [] o = "nest"     -> Push(st, 2, Coll(1))
    [] o = "resolve"  -> Push(st, 2, Err(st, 1))
    [] o = "unwrap"   -> Join(st, 2, Unwrap(st, 1))
    [] o = "iterate"  -> PushSeq(st, 2, Iterator(st, 1))
    [] OTHER          -> PushSeq(st, 1, Iterator(st, 1))
RECURSIVE Done(_, _)
Done(ops, i) == IF i = 0 THEN Empty ELSE Did(Done(ops, i - 1), ops[i], i)

(* Every error a collector was told of is found in it: what was pushed (but *)
(* for what its filter removes), what another collector held when its       *)
(* errors were passed on, and what it came to hold when it was passed       *)
(* itself. Nothing else is. The exceptions are one unwrapped error alone,   *)
(* which Push takes for no error, and an empty collector, which has none    *)
(* yet and is not nested; and a filter lets no element through, nor any of  *)
(* many errors with an excluded one among them.                             *)
ErrorsKept(ops) ==
  LET n == Len(ops)
      st == Done(ops, n)
      Pos(o) == { i \in 1..n : ops[i] = o }
      Held(i) == { j \in Pos("leaf 1") : j < i }
      filtered(i) == \E j \in Pos("excluded") : j < i
      live == { i \in Pos("nest") \union Pos("resolve") : Len(Done(ops, i - 1)[1].list) >= (IF ops[i] = "nest" THEN 1 ELSE 2) }
      passed == UNION { Held(i) : i \in Pos("resolve")
                                 \union { j \in Pos("unwrap") : Cardinality(Held(j)) > 1 /\ ~filtered(j) }
                                 \union { j \in Pos("iterate") : ~filtered(j) } }
      pairs == Pos("pair")
  IN /\ Reach(st, Coll(1)) = Pos("leaf 1")
     /\ Reach(st, Coll(2)) = Pos("leaf 2") \union passed \union pairs \union { i + 100 : i \in pairs }
                             \union (IF live /= {} THEN Pos("leaf 1") ELSE {})
     /\ (Err(st, 2) = Nil) = (Reach(st, Coll(2)) = {})
     /\ Reach(st, Err(st, 2)) = Reach(st, Coll(2))
     /\ UNION { Reach(st, e) : e \in SX!ToSet(Unwrap(st, 2)) } = Reach(st, Coll(2))

(* "Push collects an error if that error is non-nil." (erc/errors.go:274)   *)
PushCollects(ops) ==
  LET st == Done(ops, Len(ops))
  IN \A e \in SX!ToSet(Iterator(st, 1)) : Is(Push(st, 2, e), Coll(2), Reach(st, e))

(* A panic is always told as one, together with what it was; an invariant   *)
(* that fails panics with the violation and all that explains it.           *)
PanicsTold(es) ==
  \A e \in SX!ToSet(es) :
    /\ e /= Nil => Reach(Empty, ParsePanic(e)) = Reach(Empty, e) \union Reach(Empty, ErrRecoveredPanic)
    /\ Reach(Empty, NewInvariantError(es)) = Reach(Empty, Many(es)) \union {-2}
    /\ (Invariant(Empty, e, es) = Nil) = (e = Nil)
    /\ e /= Nil => Reach(Empty, Must(Empty, 1, e).panic) = Reach(Empty, e) \union {-2}

(* No error met before the consumer stopped is missed, no value that came   *)
(* with one is mistaken for a good one, and none after the last wanted.     *)
PairsTold(ps, n) ==
  LET Good(s) == SelectSeq(s, LAMBDA p : p.err = Nil)
      Bads(s) == SelectSeq(s, LAMBDA p : p.err /= Nil)
      h == Handle(ps, n)  u == HandleUntil(ps, n)  a == HandleAll(ps, n)
  IN /\ \E k \in 0..Len(ps) :
          LET seen == SubSeq(ps, 1, k)
          IN /\ h.values = [i \in 1..Len(Good(seen)) |-> Good(seen)[i].value]
             /\ h.errs = [i \in 1..Len(Bads(seen)) |-> Bads(seen)[i].err]
             /\ k = Len(ps) \/ Len(h.values) = n
     /\ SX!IsPrefix(u.values, h.values) /\ Len(u.errs) <= 1
     /\ u.errs /= <<>> => SX!IsPrefix(u.errs, Handle(ps, Whole(ps)).errs) /\ Len(u.values) < n
     /\ Len(a.values) = (IF n < Len(ps) THEN n ELSE Len(ps))
     /\ Len(FromIterator(ps)[1]) + Cardinality({ i \in 1..Len(ps) : ps[i].err /= Nil }) = Len(FromIteratorAll(ps)[1])
     /\ FromIterator(ps)[2] = FromIteratorAll(ps)[2]
     /\ (FromIteratorUntil(ps)[2] = Nil) = (FromIterator(ps)[2] = Nil)

============================================================================
