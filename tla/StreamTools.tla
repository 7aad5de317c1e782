---------------------------- MODULE StreamTools ----------------------------
(* What pubsub's streams do on the goroutine that reads them: Read, ReadAll,*)
(* Slice, Count, Filter, Reduce, Join and Convert, and RateLimit on an      *)
(* iterator. A stream is the answers its operation gives: numbers above 0   *)
(* are items, and the others are the ends and the errors named below; after *)
(* the last answer it is at its end. An error that is told is a member of a *)
(* sequence, so that what is told twice shows.                              *)
EXTENDS Integers, Sequences
SX == INSTANCE SequencesExt

Skip == 0
Failed == -1           \* an error
Eof == -2              \* a terminating error
Expired == -3          \* a context expiration
IsItem(x) == x > 0
IsEnd(x) == x < 0
Told(x) == IF x = Failed THEN <<x>> ELSE <<>>     \* what the stream collects of it

(* Read passes over what is skipped. At an end it closes the stream, and    *)
(* returns the errors collected, with its own if they do not hold it.       *)
EndAt(ops) == LET s == { i \in 1..Len(ops) : IsEnd(ops[i]) } IN IF s = {} THEN Len(ops) + 1 ELSE CHOOSE i \in s : \A j \in s : i <= j
Reads(ops) == SelectSeq(SubSeq(ops, 1, EndAt(ops) - 1), IsItem)
End(ops) == IF EndAt(ops) > Len(ops) THEN Eof ELSE ops[EndAt(ops)]
Collected(ops) == Told(End(ops))
readOneHandleError(e, collected) == IF SX!Contains(collected, e) THEN collected ELSE <<e>> \o collected
LastRead(ops, closing) == readOneHandleError(End(ops), Told(End(ops)) \o closing)

(* ReadAll calls the handler, which answers for each item as an operation   *)
(* does, an item standing for success; the stream's errors are told besides *)
(* its own                                                                  *)
AtHandler(ops, h) == SX!SelectInSeq(Reads(ops), LAMBDA v : IsEnd(h[v]))
ReadAll(ops, h) ==
  LET vs == Reads(ops)
      at == AtHandler(ops, h)
      e == IF at > 0 THEN h[vs[at]] ELSE End(ops)
      inner == IF at > 0 THEN <<>> ELSE Collected(ops)
  IN [seen |-> IF at > 0 THEN SubSeq(vs, 1, at) ELSE vs,
      errs |-> (IF e = Eof THEN <<>> ELSE <<e>>) \o inner]
AllWell == [v \in {1, 2} |-> v]
Slice(ops) == ReadAll(ops, AllWell).seen
Count(ops) == Len(Slice(ops))

(* Filter works below Read: the stream filtered gathers no errors of its own *)
Filter(ops, keep) == [i \in 1..Len(ops) |-> IF IsItem(ops[i]) /\ ops[i] \notin keep THEN Skip ELSE ops[i]]
(* Join reads the second stream when the first has ended, but not after an error *)
Join(a, b) == Reads(a) \o (IF End(a) = Eof THEN Reads(b) \o <<End(b)>> ELSE <<End(a)>>)
(* Convert answers for each item as f does; the hook adds the errors of the *)
(* stream converted unless Read returned them                               *)
Convert(ops, f) ==
  LET vs == Reads(ops) \o <<End(ops)>>
  IN [i \in 1..Len(vs) |-> IF IsItem(vs[i]) THEN f[vs[i]] ELSE vs[i]]
Surfaced(ops, f) == EndAt(Convert(ops, f)) = Len(Reads(ops)) + 1 /\ End(ops) = Failed
ConvertTold(ops, f) ==
  LET reached == EndAt(Convert(ops, f)) = Len(Reads(ops)) + 1       \* the source was read to its end
  IN LastRead(Convert(ops, f), IF reached /\ ~Surfaced(ops, f) THEN Collected(ops) ELSE <<>>)
(* Reduce answers once: what the reducer made of the items before an end or *)
(* its error                                                                *)
RECURSIVE ReduceFrom(_, _, _)
ReduceFrom(vs, r, value) ==
  IF vs = <<>> THEN <<value>>
  ELSE CASE r[Head(vs)] = Skip  -> ReduceFrom(Tail(vs), r, value)
         [] IsEnd(r[Head(vs)])  -> <<r[Head(vs)]>>
         [] OTHER               -> ReduceFrom(Tail(vs), r, value + r[Head(vs)])
Reduce(ops, r) == ReduceFrom(Reads(ops), r, 0)

(* RateLimit: the times at which items are sent, given the time each takes  *)
(* to arrive. It waits until fewer than num were sent within the window.    *)
Larger(a, b) == IF a >= b THEN a ELSE b
Old(now, t, window) == now - t > window
Recent(sent, now, window) == SelectSeq(sent, LAMBDA t : ~Old(now, t, window))
RECURSIVE SendAt(_, _, _, _)
SendAt(now, sent, num, window) ==
  LET s == Recent(sent, now, window)
  IN IF Len(s) < num THEN now ELSE SendAt(now + Larger(1, Head(s) + window - now), s, num, window)
RECURSIVE RateFrom(_, _, _, _, _)
RateFrom(delays, now, sent, num, window) ==
  IF delays = <<>> THEN sent
  ELSE RateFrom(Tail(delays), SendAt(now + Head(delays), sent, num, window),
                Append(sent, SendAt(now + Head(delays), sent, num, window)), num, window)
RateLimit(delays, num, window) == RateFrom(delays, 0, <<>>, num, window)

----------------------------------------------------------------------------
(* However its items are read, a stream gives those before its first end,   *)
(* in order: through Slice, a filter, a converter or a reducer, and in a    *)
(* join those of the next one after a clean end only. An error it met is    *)
(* told exactly once by the Read that ends it, through Filter and Convert   *)
(* too, and at least once by ReadAll.                                       *)
ToolsAgree(ops) ==
  LET bad == [v \in {1, 2} |-> IF v = 2 THEN Failed ELSE v]
      drop == [v \in {1, 2} |-> IF v = 2 THEN Skip ELSE v]
      times(told) == Len(SelectSeq(told, LAMBDA x : x = Failed))
      hasError == End(ops) = Failed
  IN /\ Slice(ops) = Reads(ops) /\ Count(ops) = Len(Reads(ops))
     /\ Reads(Filter(ops, {1})) = SelectSeq(Reads(ops), LAMBDA v : v = 1)
     /\ Reads(Filter(ops, {1})) = Reads(Convert(ops, drop))
     /\ Reads(Convert(ops, AllWell)) = Reads(ops) /\ End(Convert(ops, AllWell)) = End(ops)
     /\ \A f \in {AllWell, drop, bad} : times(ConvertTold(ops, f)) = (IF End(Convert(ops, f)) = Failed THEN 1 ELSE 0)
     /\ times(LastRead(Filter(ops, {1}), <<>>)) = (IF hasError THEN 1 ELSE 0)
     /\ (times(ReadAll(ops, AllWell).errs) > 0) = hasError
     /\ ReadAll(ops, bad).seen = SubSeq(Reads(ops), 1, Len(ReadAll(ops, bad).seen))
     /\ \A k \in 0..Len(ops) : LET a == SubSeq(ops, 1, k) b == SubSeq(ops, k + 1, Len(ops))
                               IN Reads(Join(a, b)) = (IF End(a) = Eof THEN Reads(a) \o Reads(b) ELSE Reads(a))
     /\ Len(Reduce(ops, bad)) = 1 /\ (Reduce(ops, bad) = <<Failed>>) = (AtHandler(ops, bad) > 0)
     /\ Reduce(ops, drop) = <<Count(Filter(ops, {1}))>>

(* No window holds more than num of the items RateLimit lets through, and   *)
(* they leave in turn, none before it came and the first of all at once     *)
RateKept(delays, num, window) ==
  LET t == RateLimit(delays, num, window)
  IN /\ Len(t) = Len(delays)
     /\ \A i \in 1..(Len(t) - 1) : t[i + 1] >= t[i] + delays[i + 1]
     /\ \A i \in 1..(Len(t) - num) : t[i + num] - t[i] > window
     /\ \A i \in 1..Len(t) : i <= num => t[i] = SX!FoldLeft(LAMBDA a, d : a + d, 0, SubSeq(delays, 1, i))

============================================================================
