----------------------------- MODULE Histogram -----------------------------
(* dt/hdrhist: a histogram that counts values in buckets whose width grows  *)
(* with the value, and a window of such histograms. "recorded" is what was  *)
(* recorded in each section of the window, in ascending order; what the     *)
(* histogram reports must be within one bucket of it.                       *)
EXTENDS Integers, Sequences, FiniteSets

CONSTANTS Shapes,      \* what New may be given: <<minValue, maxValue, sigfigs>>
          Values,      \* the values recorded
          Interval,    \* the expected interval of RecordCorrectedValue
          Sections,    \* the number of histograms in the window
          MaxRecorded, \* bound on the values recorded in a section
          MaxRotations \* bound on the number of rotations

LOCAL INSTANCE FiniteSetsExt
SX == INSTANCE SequencesExt

VARIABLES shape,       \* the parameters and the sizes New computes from them
          idx,         \* the section that is current, counted on at each rotation
          counts,      \* of each section
          recorded

vars == <<shape, idx, counts, recorded>>

----------------------------------------------------------------------------
bitLen(x) == IF x <= 0 THEN 0 ELSE CHOOSE n \in 1..31 : 2^(n - 1) <= x /\ x \div 2 < 2^(n - 1)
CeilLog2(x) == CHOOSE n \in 0..30 : 2^n >= x /\ (n = 0 \/ 2^(n - 1) < x)

New(min, max, figs) ==
  LET half  == Max({CeilLog2(2 * 10^figs), 1}) - 1
      unit  == Max({bitLen(min) - 1, 0})
      count == 2^(half + 1)
      buckets == CHOOSE b \in 1..30 : /\ count * 2^(unit + b - 1) >= max
                                      /\ b = 1 \/ count * 2^(unit + b - 2) < max
  IN [unit |-> unit, half |-> half, figs |-> figs, count |-> count, buckets |-> buckets,
      len |-> (buckets + 1) * (count \div 2)]

(* Shift by a negative amount is a shift by all the bits of the word *)
Shr(v, n) == IF n < 0 THEN (IF v < 0 THEN -1 ELSE 0) ELSE v \div 2^n
getBucketIndex(v) ==                               \* of v, or'ed with the mask of the sub-buckets
  (IF v < 0 THEN 0 ELSE Max({bitLen(v), shape.unit + shape.half + 1})) - shape.unit - (shape.half + 1)
getSubBucketIdx(v, b) == Shr(v, b + shape.unit)
countsIndex(b, s) == (IF b + 1 < 0 THEN -(-(b + 1) * 2^shape.half) ELSE (b + 1) * 2^shape.half)
                     + (s - shape.count \div 2)
countsIndexFor(v) == countsIndex(getBucketIndex(v), getSubBucketIdx(v, getBucketIndex(v)))

valueFromIndex(b, s) == s * 2^(b + shape.unit)
sizeOfEquivalentValueRange(v) == 2^(shape.unit + getBucketIndex(v))
lowestEquivalentValue(v) == valueFromIndex(getBucketIndex(v), getSubBucketIdx(v, getBucketIndex(v)))
highestEquivalentValue(v) == lowestEquivalentValue(v) + sizeOfEquivalentValueRange(v) - 1
medianEquivalentValue(v) == lowestEquivalentValue(v) + sizeOfEquivalentValueRange(v) \div 2

(* The iterator goes through all the sub-buckets of bucket 0 and the upper  *)
(* half of those of every other bucket: step k (from 0) is at position k of *)
(* the counts, and stops once it has seen the total.                        *)
HalfCount == shape.count \div 2
StepValue(k) == IF k < shape.count THEN valueFromIndex(0, k)
                ELSE valueFromIndex(k \div HalfCount - 1, HalfCount + (k % HalfCount))
Empty == <<>>
(* The counts are kept at the positions where they are not zero; the last   *)
(* of these is the step at which the total is reached.                      *)
At(c, k) == IF k \in DOMAIN c THEN c[k] ELSE 0
CountTo(c, k) == MapThenSumSet(LAMBDA i : c[i], { i \in DOMAIN c : i <= k })
Total(c) == CountTo(c, shape.len)
Steps(c) == IF c = Empty THEN {} ELSE 0..Max(DOMAIN c)
Counted(c) == DOMAIN c

MaxOf(c) == LET k == Counted(c)
            IN highestEquivalentValue(IF k = {} THEN 0 ELSE highestEquivalentValue(StepValue(Max(k))))
MinOf(c) == LET k == Counted(c)
            IN lowestEquivalentValue(IF k = {} THEN 0 ELSE highestEquivalentValue(StepValue(Min(k))))
(* The mean, as the sum the code divides by the total *)
MeanSum(c) == SX!FoldLeft(LAMBDA s, k : s + c[k] * medianEquivalentValue(StepValue(k)),
                          0, SX!SetToSeq(Counted(c)))
(* The deviations StdDev squares, each a multiple of 1/Total *)
DevSum(c) == SX!FoldLeft(LAMBDA s, k : s + c[k] * (Total(c) * medianEquivalentValue(StepValue(k)) - MeanSum(c))^2,
                         0, SX!SetToSeq(Counted(c)))
ValueAtQuantile(c, q) ==
  LET want == (2 * Min({q, 100}) * Total(c) + 100) \div 200
      at   == { k \in Steps(c) : CountTo(c, k) >= want }
  IN IF at = {} THEN 0 ELSE highestEquivalentValue(StepValue(Min(at)))
Distribution(c) ==
  [k \in Steps(c) |-> [count |-> At(c, k), from |-> lowestEquivalentValue(StepValue(k)),
                       to |-> highestEquivalentValue(StepValue(k))]]
(* The brackets of the cumulative distribution, the i-th asking for the     *)
(* share 1 - 1/2^i of the total. A call goes on from the step it is at;     *)
(* while that is the first one it moves on, so that position 0 answers for  *)
(* the first share only. The last bracket is 100%.                          *)
RECURSIVE Brackets(_, _, _)
Brackets(c, i, at) ==
  IF Total(c) = 0 \/ (at >= 0 /\ CountTo(c, at) >= Total(c))
  THEN << [share |-> 100, count |-> IF at < 0 THEN 0 ELSE CountTo(c, at), at |-> at] >>
  ELSE LET from == IF at <= 0 THEN at + 1 ELSE at
           stop == Min({ k \in Counted(c) : k >= from /\ (2^i - 1) * Total(c) <= CountTo(c, k) * 2^i })
       IN << [share |-> 100 - 100 \div 2^i, count |-> CountTo(c, stop), at |-> stop] >>
          \o Brackets(c, i + 1, stop)
CumulativeDistribution(c) == Brackets(c, 0, -1)

----------------------------------------------------------------------------
Recordable(v) == countsIndexFor(v) \in 0..(shape.len - 1)
RecordValues(c, v, n) ==
  LET at == countsIndexFor(v)
  IN [k \in DOMAIN c \union {at} |-> At(c, k) + (IF k = at THEN n ELSE 0)]
Merged(c, from) == SX!FoldLeft(LAMBDA a, k : RecordValues(a, StepValue(k), from[k]), c, SX!SetToSeq(Counted(from)))
current == idx % Sections

Init ==
  /\ shape \in { New(s[1], s[2], s[3]) : s \in Shapes }
  /\ idx = 0
  /\ counts = [i \in 0..(Sections - 1) |-> Empty]
  /\ recorded = [i \in 0..(Sections - 1) |-> <<>>]

Filed(s, v) == SelectSeq(s, LAMBDA x : x <= v) \o <<v>> \o SelectSeq(s, LAMBDA x : x > v)
Recorded(vs) ==
  /\ Len(recorded[current]) + Len(vs) <= MaxRecorded
  /\ counts' = [counts EXCEPT ![current] = SX!FoldLeft(LAMBDA c, v : RecordValues(c, v, 1), @, vs)]
  /\ recorded' = [recorded EXCEPT ![current] = SX!FoldLeft(Filed, @, vs)]
  /\ UNCHANGED <<shape, idx>>

(* A value out of range is refused with an error and changes nothing *)
Record(v) == Recordable(v) /\ Recorded(<<v>>)

(* A value above the expected interval is followed by the ones the stall    *)
(* kept from being recorded                                                 *)
RecordCorrectedValue(v) ==
  /\ Recordable(v) /\ Interval > 0 /\ v > Interval
  /\ Recorded([i \in 1..(v \div Interval) |-> v - (i - 1) * Interval])

Rotate ==
  /\ idx < MaxRotations
  /\ idx' = idx + 1
  /\ counts' = [counts EXCEPT ![idx' % Sections] = Empty]
  /\ recorded' = [recorded EXCEPT ![idx' % Sections] = <<>>]
  /\ UNCHANGED shape

Next == (\E v \in Values : Record(v) \/ RecordCorrectedValue(v)) \/ Rotate
Spec == Init /\ [][Next]_vars

(* WindowedHistogram.Merge *)
Window == SX!FoldLeft(LAMBDA c, i : Merged(c, counts[i]), Empty, [i \in 1..Sections |-> i - 1])

----------------------------------------------------------------------------
Within(v, w) == lowestEquivalentValue(w) <= v /\ v <= highestEquivalentValue(w)
Reports(c, vs) ==
  LET n == Len(vs)
      cd == CumulativeDistribution(c)
      bars == Distribution(c)
  IN /\ Total(c) = n /\ cd[Len(cd)].count = n
     /\ \A i \in 1..(Len(cd) - 1) : cd[i].count <= cd[i + 1].count
     /\ n > 0 =>
          /\ Within(MaxOf(c), vs[n]) /\ Within(MinOf(c), vs[1])
          /\ \A q \in {50, 90, 100} :
               LET rank == (2 * q * n + 100) \div 200 IN Within(ValueAtQuantile(c, q), vs[rank])
          /\ MeanSum(c) >= n * lowestEquivalentValue(vs[1]) /\ MeanSum(c) <= n * highestEquivalentValue(vs[n])
          /\ (DevSum(c) = 0) = Within(vs[1], vs[n])
     /\ \A k \in DOMAIN bars :
          bars[k].count = Cardinality({ i \in 1..n : vs[i] >= bars[k].from /\ vs[i] <= bars[k].to })

(* However values are recorded, corrected and rotated out, each section and *)
(* the merge of the window count every value once, in a bucket that holds   *)
(* it and is as narrow as the precision asked for; maximum, minimum,        *)
(* quantiles and distribution are those of the values up to the width of a  *)
(* bucket.                                                                  *)
HistogramReportsValues ==
  /\ \A i \in DOMAIN counts : Reports(counts[i], recorded[i])
  /\ Reports(Window, SX!FoldLeft(LAMBDA s, i : SX!FoldLeft(Filed, s, recorded[i]), <<>>, [i \in 1..Sections |-> i - 1]))
  /\ \A v \in Values : Recordable(v) =>
       /\ Within(v, v)
       /\ \/ sizeOfEquivalentValueRange(v) = 2^shape.unit
          \/ sizeOfEquivalentValueRange(v) * 10^shape.figs <= v

============================================================================
