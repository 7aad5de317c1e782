----------------------------- MODULE Iterators -----------------------------
(* The iterator tools of irt. An iter.Seq is a function that calls "yield"  *)
(* for each element until yield answers false; it is modelled by what it    *)
(* does when it is run over a source s for a consumer that refuses its k-th *)
(* element:                                                                 *)
(*    out    the elements yielded, the refused one included                 *)
(*    taken  how many elements it made the source produce                   *)
(*    st     what its captured variables hold at the end                    *)
(*    on     whether the loop would have gone on                            *)
(* An iter.Seq2 is a sequence of pairs, so the operators on pairs are the   *)
(* same definitions. Sources and functions are finite sequences and finite  *)
(* functions.                                                               *)
EXTENDS Integers, Sequences, FiniteSets

SX == INSTANCE SequencesExt
LOCAL INSTANCE FiniteSetsExt
LOCAL INSTANCE Functions

Nil    == -1          \* a nil pointer or error, among numbers
NilOp  == << >>       \* a nil function; a nil sequence is the empty one
Absent == -2          \* no value: ok is false
Prefix(s, n) == SubSeq(s, 1, IF n < Len(s) THEN n ELSE Len(s))

(* One loop body's outcome: the captured state, what it yields, and whether *)
(* it takes another turn if every yield is accepted.                        *)
Body(st, ys, on) == [st |-> st, ys |-> ys, on |-> on]
Yields(st, v)    == Body(st, <<v>>, TRUE)
Skips(st)        == Body(st, <<>>, TRUE)
Returns(st)      == Body(st, <<>>, FALSE)

(* for value := range seq { body }, for a consumer that refuses item k *)
For(s, k, st0, body(_, _)) ==
  LET turn[i \in 0..Len(s)] ==
        IF i = 0 THEN [st |-> st0, out |-> <<>>, taken |-> 0, on |-> TRUE]
        ELSE IF ~turn[i - 1].on THEN turn[i - 1]
        ELSE LET was == turn[i - 1]
                 b   == body(was.st, s[i])
                 out == Prefix(was.out \o b.ys, k)
             IN [st |-> b.st, out |-> out, taken |-> i, on |-> b.on /\ Len(out) < k]
  IN turn[Len(s)]

Ran(s, st)  == [st |-> st, out |-> s, taken |-> Len(s), on |-> TRUE]
NothingRun  == [st |-> 0, out |-> <<>>, taken |-> 0, on |-> FALSE]
Never == 1000               \* a consumer that never refuses

----------------------------------------------------------------------------
(* Element by element *)
Flush(s, k) == For(s, k, 0, LAMBDA st, v : Yields(st, v))
Convert(s, k, op) == For(s, k, 0, LAMBDA st, v : Yields(st, op[v]))
Modify(s, k, op) == IF op = NilOp THEN Flush(s, k) ELSE Convert(s, k, op)
ModifyAll(s, k, ops) ==
  LET operations == SelectSeq(ops, LAMBDA op : op /= NilOp)
      Through(v) == SX!FoldLeft(LAMBDA x, op : op[x], v, operations)
  IN IF operations = <<>> THEN Flush(s, k)
     ELSE For(s, k, 0, LAMBDA st, v : Yields(st, Through(v)))
Merge(s, k, op) == For(s, k, 0, LAMBDA st, p : Yields(st, op[p]))
First(s, k)  == Merge(s, k, [p \in Range(s) |-> p[1]])
Second(s, k) == Merge(s, k, [p \in Range(s) |-> p[2]])
Flip(s, k)   == Merge(s, k, [p \in Range(s) |-> <<p[2], p[1]>>])
With(s, k, op)   == For(s, k, 0, LAMBDA st, v : Yields(st, <<v, op[v]>>))
WithEach(s, k, vs) == For(s, k, 1, LAMBDA n, v : Yields(n + 1, <<v, vs[n]>>))  \* vs: op's answers
Index(s, k)  == For(s, k, 0, LAMBDA idx, v : Yields(idx + 1, <<idx, v>>))
ForEach(s, k) == For(s, k, <<>>, LAMBDA seen, v : Yields(Append(seen, v), v))
ForEachWhile(s, k, P) ==
  For(s, k, <<>>, LAMBDA seen, v : IF v \in P THEN Yields(Append(seen, v), v)
                                   ELSE Returns(Append(seen, v)))
Resolve(s, k, op) ==
  For(s, k, 0, LAMBDA st, f : Yields(st, op[f]))
Mutable(s, k, op) ==                    \* the loop body writes through the pointers
  For(s, k, <<>>, LAMBDA sl, v : Yields(Append(sl, op[v]), v))

(* Generators: vs is what successive calls answer, Absent for ok = false *)
Generate(vs, k) == Flush(vs, k)
GenerateN(vs, k, num) == IF num = 0 THEN NothingRun ELSE Flush(Prefix(vs, num), k)
GenerateOk(vs, k) ==
  For(vs, k, 0, LAMBDA st, v : IF v = Absent THEN Returns(st) ELSE Yields(st, v))
(* Counting wraps at the width of the type: the ints are MinInt..MaxInt *)
Counting(start, min, max) ==
  [i \in 1..(2 * (max - min + 1)) |-> min + ((start - min + i - 1) % (max - min + 1))]
IntRange(start, end, k, min, max) ==
  For(Counting(start, min, max), k, 0,
      LAMBDA st, v : IF v > end THEN Returns(st) ELSE Body(st, <<v>>, v /= end))
MonotonicFrom(start, k, min, max) == Flush(Counting(start, min, max), k)

(* Selection: a predicate is the set of values it answers true for *)
LimitLate(s, k, n) ==                              \* mutant: asks for the count first
  IF n = 0 THEN NothingRun
  ELSE For(s, k, 0, LAMBDA inc, v : IF inc >= n THEN Returns(inc) ELSE Yields(inc + 1, v))
Limit(s, k, n) ==
  IF n = 0 THEN NothingRun
  ELSE For(s, k, 0, LAMBDA inc, v : Body(inc + 1, <<v>>, inc + 1 < n))
While(s, k, P) == For(s, k, 0, LAMBDA st, v : IF v \in P THEN Yields(st, v) ELSE Returns(st))
Keep(s, k, P)  == For(s, k, 0, LAMBDA st, v : IF v \in P THEN Yields(st, v) ELSE Skips(st))
Until(s, k, P)  == While(s, k, Range(s) \ P)
Remove(s, k, P) == Keep(s, k, Range(s) \ P)
RemoveZeros(s, k) == Remove(s, k, {0})
KeepOk(s, k)  == For(s, k, 0, LAMBDA st, p : IF p[2] THEN Yields(st, p[1]) ELSE Skips(st))
WhileOk(s, k) == For(s, k, 0, LAMBDA st, p : IF p[2] THEN Yields(st, p[1]) ELSE Returns(st))
UntilNil(s, k) == While(s, k, Range(s) \ {Nil})
Deref(s, k)    == Remove(s, k, {Nil})
DerefWithZeros(s, k) == For(s, k, 0, LAMBDA st, v : Yields(st, IF v = Nil THEN 0 ELSE v))
Cast(s, k, U) == For(s, k, 0, LAMBDA st, v : IF v \in U THEN Yields(st, v) ELSE Returns(st))

(* Unique and UniqueBy remove what a set that starts empty has seen *)
UniqueBy(s, k, kfn) ==
  For(s, k, {}, LAMBDA seen, v : Body(seen \union {kfn[v]},
                                      IF kfn[v] \in seen THEN <<>> ELSE <<v>>, TRUE))
Unique(s, k) == UniqueBy(s, k, [v \in Range(s) |-> v])

(* Flattening: ss is a sequence of sequences *)
Chain(ss, k) == For(ss, k, 0, LAMBDA st, inner : Body(st, inner, TRUE))
Flatten(ps, k) ==
  For(ps, k, 0, LAMBDA st, p : Body(st, [i \in DOMAIN p[2] |-> <<p[1], p[2][i]>>], TRUE))
ReverseMapping(ps, k) ==
  For(ps, k, 0, LAMBDA st, p : Body(st, [i \in DOMAIN p[2] |-> <<p[2][i], p[1]>>], TRUE))
Join(s, t, k) == Chain(<<s, t>>, k)
Reversed(s, k) == Flush(SX!Reverse(s), k)

----------------------------------------------------------------------------
(* Consumers: they run the sequence themselves and answer a value *)
CollectFirstN(s, n) ==
  IF n = 0 THEN NothingRun ELSE For(s, Never, 1, LAMBDA idx, v : Body(idx + 1, <<v>>, idx < n))
(* Collect's second argument: make panics for a negative capacity only when *)
(* exactly one argument was given; more than one non-zero argument panics.  *)
CollectPanics(args, neg) ==
  CASE Len(args) = 0 -> FALSE
    [] Len(args) = 1 -> args[1] \in neg
    [] OTHER -> Len(SelectSeq(args, LAMBDA a : a /= 0)) > 1
JoinStringsWith(s, with) ==
  For(s, Never, [len |-> 0, last |-> 0],
      LAMBDA b, str : LET gap == IF b.len > b.last THEN with ELSE <<>>
                      IN Body([last |-> b.len + Len(gap), len |-> b.len + Len(gap) + Len(str)],
                              gap \o str, TRUE))
JoinStrings(s) == Chain(s, Never).out
Initial(s) == IF s = <<>> THEN Absent ELSE For(s, 1, Absent, LAMBDA st, v : Returns(v)).st
Final(s) == For(s, Never, Absent, LAMBDA out, v : Skips(v)).st
Apply(s) == For(s, Never, 0, LAMBDA count, v : Skips(count + 1))
ApplyWhile(s, P) ==
  For(s, Never, 0, LAMBDA count, v : IF v \in P THEN Skips(count + 1) ELSE Returns(count + 1))
ApplyUnless(s, P) == ApplyWhile(s, Range(s) \ P)
ApplyUntil(s, err) ==
  For(s, Never, Nil, LAMBDA e, v : IF err[v] /= Nil THEN Returns(err[v]) ELSE Skips(e))
ApplyAll(s, err) == Remove(Convert(s, Never, err).out, Never, {Nil}).out
Count(s) == Apply(s).st
Reduce(s, zero, rfn) == For(s, Never, zero, LAMBDA out, v : Skips(rfn[<<out, v>>])).st
Contains(s, x) == For(s, Never, FALSE, LAMBDA ok, v : IF v = x THEN Returns(TRUE) ELSE Skips(ok))
HasValues(s) == For(s, Never, FALSE, LAMBDA ok, v : Returns(TRUE)).st

(* Zip and Equal pull both sides; st counts what the second one gave *)
Zip(a, b, k) ==
  For(a, k, 0, LAMBDA n, v : IF n = Len(b) THEN Returns(n) ELSE Yields(n + 1, <<v, b[n + 1]>>))
Equal(a, b) ==
  LET r == For(a, Never, 0,
               LAMBDA n, v : IF n = Len(b) THEN Returns(-1)
                             ELSE IF b[n + 1] = v THEN Skips(n + 1) ELSE Returns(-1))
  IN r.st = Len(b)

(* Chunk: it peeks one element, hands out an inner sequence that counts     *)
(* down from num, and drains what the consumer left of it (it takes "use"   *)
(* elements of each), so that the next chunk begins at the boundary.        *)
Drained(s, pos, num, used) ==
  LET given == Min({pos + used, Len(s)}) IN Min({given + num - used, Len(s)})
AfterChunk(s, pos, num, used) == Drained(s, pos, num, used)
Chunk(s, num, use) ==
  LET used == Min({use, num})
      at[c \in 0..Len(s)] ==                             \* elements pulled after c chunks
        IF c = 0 THEN 0 ELSE AfterChunk(s, at[c - 1], num, used)
      begun == { c \in 0..(Len(s) - 1) : at[c] < Len(s) }
  IN IF num = 0 THEN <<>>
     ELSE [c \in 1..Cardinality(begun) |->
             SubSeq(s, at[c - 1] + 1, Min({at[c - 1] + used, Len(s)}))]

(* GroupBy consumes s into a table and the order in which keys first came;  *)
(* its iterator pops the table, so a key popped before answers no values.   *)
Grouping(s, kfn) ==
  For(s, Never, [order |-> <<>>, table |-> << >>],
      LAMBDA og, v :
        LET key == kfn[v]
            fresh == key \notin DOMAIN og.table
        IN Skips([order |-> IF fresh THEN Append(og.order, key) ELSE og.order,
                  table |-> [x \in DOMAIN og.table \union {key} |->
                               (IF x \in DOMAIN og.table THEN og.table[x] ELSE <<>>)
                               \o (IF x = key THEN <<v>> ELSE <<>>)]])).st
GroupBy(s, kfn, popped, k) ==
  LET og == Grouping(s, kfn)
  IN For(og.order, k, popped,
         LAMBDA gone, key : Yields(gone \union {key}, <<key, IF key \in gone THEN <<>> ELSE og.table[key]>>))

(* orf and andf stop at the first condition that decides *)
Orf(conds)  == ApplyUnless(conds, {TRUE})
Andf(conds) == ApplyWhile(conds, {TRUE})
IdxOk(s, i) == IF i \in 0..(Len(s) - 1) THEN s[i + 1] ELSE Absent

----------------------------------------------------------------------------
(* What the tools promise, for one source s of numbers in 0..2 *)
Sub(s, P) == SelectSeq(s, LAMBDA v : v \in P)
Size(s, n) == Min({Len(s), n})
FirstOut(s, P) ==                                  \* where the first value outside P stands
  IF Range(s) \subseteq P THEN Len(s) + 1 ELSE Min({ i \in DOMAIN s : s[i] \notin P })

ElementByElement(s, k) ==
  LET next == [v \in 0..2 |-> (v + 1) % 3]
  IN << Flush(s, k), Convert(s, k, next), ModifyAll(s, k, <<next, NilOp, next>>), Modify(s, k, NilOp),
       With(s, k, next), WithEach(s, k, s), Index(s, k), ForEach(s, k), Resolve(s, k, next),
       Mutable(s, k, next), DerefWithZeros(s, k), First(Index(s, Never).out, k),
       Second(With(s, Never, next).out, k), Flip(With(s, Never, next).out, k), Reversed(s, k) >>

(* A limited sequence never takes an element beyond its limit, one that a   *)
(* predicate ends takes exactly the element that ended it, a filter takes   *)
(* no more than gave its consumer the k-th element, and Zip is at most one  *)
(* element ahead on its first side.                                         *)
TakesNoMoreThanNeeded(s) ==
  \A k \in 1..(Len(s) + 1) :
    /\ \A r \in 1..15 : LET e == ElementByElement(s, k)[r] IN e.taken = Min({k, Len(s)}) /\ Len(e.out) = e.taken
    /\ \A n \in 0..(Len(s) + 1) :
         LET l == Limit(s, k, n)
             f == CollectFirstN(s, n)
             z == Zip(s, Prefix(s, n), k)
         IN /\ l.out = Prefix(s, Min({n, k})) /\ l.taken = Len(l.out)
            /\ f.out = Prefix(s, n) /\ f.taken = Len(f.out)
            /\ Len(z.out) = Min({Len(s), n, k}) /\ z.st = Len(z.out)
            /\ z.taken = IF Len(z.out) = Min({k, Len(s)}) THEN Len(z.out) ELSE Len(z.out) + 1
    /\ \A P \in SUBSET (0..2) :
         LET w == While(s, k, P)
             u == Keep(s, k, P)
         IN /\ w.out = Prefix(s, Min({FirstOut(s, P) - 1, k}))
            /\ w.taken = Min({FirstOut(s, P), k, Len(s)})
            /\ ForEachWhile(s, k, P).st = Prefix(s, w.taken)
            /\ ApplyWhile(s, P).st = Size(s, FirstOut(s, P))
            /\ u.out = Prefix(Sub(s, P), k)
            /\ u.taken > 0 => Len(Sub(Prefix(s, u.taken - 1), P)) < k
            /\ Remove(s, k, P).out = Prefix(Sub(s, (0..2) \ P), k)
            /\ LET ok == [i \in DOMAIN s |-> <<s[i], s[i] \in P>>] IN
                 WhileOk(ok, k) = w /\ KeepOk(ok, k) = u

(* Nothing is lost or made up: filters and the chunks partition the source  *)
(* and keep its order, whatever part of each chunk a consumer reads; groups *)
(* are listed by first appearance and hold their values in order; Unique    *)
(* keeps the first of each key.                                             *)
PartitionsTheSource(s) ==
  /\ \A num \in 1..3, use \in 0..3 :
       LET cs == Chunk(s, num, use) IN
       /\ Len(cs) = (Len(s) + num - 1) \div num
       /\ \A c \in DOMAIN cs : cs[c] = SubSeq(s, (c - 1) * num + 1, Size(s, (c - 1) * num + Min({use, num})))
  /\ \A kfn \in [0..2 -> 0..1] :
       LET gs == GroupBy(s, kfn, {}, Never).out
           ks == [i \in DOMAIN gs |-> gs[i][1]]
       IN /\ ks = Unique([i \in DOMAIN s |-> kfn[s[i]]], Never).out
          /\ \A i \in DOMAIN gs : gs[i][2] = SelectSeq(s, LAMBDA v : kfn[v] = ks[i]) /\ gs[i][2] /= <<>>
          /\ LET u == UniqueBy(s, Never, kfn).out IN
               /\ Len(u) = Len(ks)
               /\ \A i \in DOMAIN u : u[i] = gs[i][2][1]
          /\ LET pairs == Flatten(gs, Never).out IN
               /\ Len(pairs) = Len(s)
               /\ ReverseMapping(gs, Never).out = Flip(pairs, Never).out
               /\ First(pairs, Never).out = Chain([i \in DOMAIN ks |->
                    [j \in DOMAIN gs[i][2] |-> ks[i]]], Never).out
  /\ \A t \in {<<>>, s, SX!Reverse(s)} :
       /\ Equal(s, t) = (s = t)
       /\ Join(s, t, Never).out = s \o t
       /\ Chain(<<s, NilOp, t>>, Never).out = s \o t

(* A separator joins two strings that both exist: none comes first, and no  *)
(* two are adjacent however many empty strings there are. Here a number n   *)
(* of s stands for a string of n characters 1 and the separator is <<9>>.   *)
JoinedOnce(s) ==
  LET strs == [i \in DOMAIN s |-> [j \in 1..s[i] |-> 1]]
      all  == JoinStringsWith(strs, <<9>>).out
  IN /\ Sub(all, {1}) = JoinStrings(strs)
     /\ all /= <<>> => all[1] = 1
     /\ \A i \in 1..(Len(all) - 1) : all[i] = 1 \/ all[i + 1] = 1

(* Counting ends at the last element even where that is the last int of the *)
(* type (the ints are -2..1 here).                                          *)
CountsToTheLastInt ==
  \A start \in -2..1, end \in -2..1, k \in 1..9 :
    IntRange(start, end, k, -2, 1).out
      = Prefix([i \in 1..Max({0, end - start + 1}) |-> start + i - 1], k)

============================================================================
