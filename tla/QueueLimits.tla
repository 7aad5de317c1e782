---------------------------- MODULE QueueLimits ----------------------------
(***************************************************************************)
(* The capacity trackers of src/pubsub/tracker.go, which decide whether a  *)
(* Queue or a Deque accepts one more item, and the options they are built  *)
(* from.  A tracker is a value: every operator maps the tracker before a   *)
(* call to the error the call returns or to the tracker after it.          *)
(*                                                                         *)
(* Burst credit is a float64 that only ever holds sums of fractions        *)
(* (softQuota - length) / softQuota.  It is counted in units of            *)
(* 1 / CreditUnit, where CreditUnit is a common multiple of every soft     *)
(* quota that can occur, so the arithmetic below is exact; the rounding of *)
(* float64 is not modelled.                                                *)
(***************************************************************************)
EXTENDS Integers

CONSTANTS CreditUnit,  \* the denominator burst credit is counted in
          MaxInt       \* math.MaxInt, the capacity of an unlimited queue

ASSUME LimitsAssumption == CreditUnit \in Nat \ {0} /\ MaxInt \in Nat \ {0}

Kinds == {"none", "hard", "soft"}

\* One record for the three implementations of queueLimitTracker: "none" uses
\* length alone, "hard" length and hardLimit (its capacity field), "soft" all.
Tracker == [kind : Kinds, softQuota : Nat, hardLimit : Nat, length : Nat, credit : Nat]

----------------------------------------------------------------------------
\* QueueOptions.Validate: what it refuses and the defaults it fills in.

Acceptable(o) == o.HardLimit > 0 /\ o.HardLimit >= o.SoftQuota /\ o.BurstCredit >= 0

Defaults(o) ==
  LET soft == IF o.SoftQuota <= 0 THEN o.HardLimit ELSE o.SoftQuota
  IN  [HardLimit   |-> o.HardLimit,
       SoftQuota   |-> soft,
       BurstCredit |-> IF o.BurstCredit = 0 THEN soft * CreditUnit ELSE o.BurstCredit]

\* newQueueLimitTracker, and the trackers of the other two constructors.
SoftTracker(o) == [kind |-> "soft", softQuota |-> o.SoftQuota, hardLimit |-> o.HardLimit,
                   length |-> 0, credit |-> o.BurstCredit]

HardTracker(capacity) == [kind |-> "hard", softQuota |-> 0, hardLimit |-> capacity,
                          length |-> 0, credit |-> 0]

NoLimitTracker == [kind |-> "none", softQuota |-> 0, hardLimit |-> 0,
                   length |-> 0, credit |-> 0]

----------------------------------------------------------------------------
\* Mutant: the capacity of a soft tracker is its hard limit.
CapacityHard(t) == CASE t.kind \in {"soft", "hard"} -> t.hardLimit
                     [] t.kind = "none" -> MaxInt

Capacity(t) == CASE t.kind = "soft" -> t.softQuota
                 [] t.kind = "hard" -> t.hardLimit
                 [] t.kind = "none" -> MaxInt

AddError(t) ==
  CASE t.kind = "hard" /\ t.length >= t.hardLimit -> "ErrQueueFull"
    [] t.kind = "soft" /\ t.length >= t.softQuota /\ t.length = t.hardLimit -> "ErrQueueFull"
    [] t.kind = "soft" /\ t.length >= t.softQuota /\ t.length # t.hardLimit
         /\ t.credit < CreditUnit -> "ErrQueueNoCredit"
    [] OTHER -> "nil"

\* Mutant: a burst is paid for but the quota stays where it was.
AddedOverQuota(t) ==
  IF t.kind = "soft" /\ t.length >= t.softQuota
  THEN [t EXCEPT !.credit = @ - CreditUnit, !.length = @ + 1]
  ELSE [t EXCEPT !.length = @ + 1]

\* add, when it returns no error: going over the soft quota is paid for with
\* one unit of credit and raises the quota to the new length.
Added(t) ==
  IF t.kind = "soft" /\ t.length >= t.softQuota
  THEN [t EXCEPT !.credit = @ - CreditUnit, !.softQuota = t.length + 1, !.length = @ + 1]
  ELSE [t EXCEPT !.length = @ + 1]

\* The credit earned by a removal that leaves n of s quota slots free.
Earned(n, s) == (n * CreditUnit) \div s

AtMost(a, b) == IF a > b THEN b ELSE a

\* The soft tracker's remove, with n items left afterwards.
SoftRemoved(t, n) ==
  LET s == IF t.softQuota > 1 /\ n < t.softQuota \div 2 THEN t.softQuota - 1 ELSE t.softQuota
  IN  IF n < t.softQuota
      THEN [t EXCEPT !.length = n, !.softQuota = s,
                     !.credit = AtMost(@ + Earned(s - n, s), (t.hardLimit - s) * CreditUnit)]
      ELSE [t EXCEPT !.length = n]

Removed(t) ==
  CASE t.kind = "soft"                    -> SoftRemoved(t, t.length - 1)
    [] t.kind # "soft" /\ t.length = 0    -> t
    [] t.kind # "soft" /\ t.length # 0    -> [t EXCEPT !.length = @ - 1]

----------------------------------------------------------------------------
\* What a tracker keeps true of its numbers: a soft quota never passes the hard
\* limit, and the length never passes the quota that applies to it.
WithinLimits(t) ==
  /\ t.kind = "soft" => 1 <= t.softQuota /\ t.softQuota <= t.hardLimit /\ t.length <= t.softQuota
  /\ t.kind = "hard" => t.length <= t.hardLimit
=============================================================================
