------------------------- MODULE QueueLimitsProofs -------------------------
(***************************************************************************)
(* What the operators of QueueLimits return: a tracker stays a tracker,    *)
(* within its limits, and its length counts the adds and the removals.     *)
(***************************************************************************)
EXTENDS QueueLimits, TLAPS

\* Arithmetic the SMT solver is told once.
LEMMA ProductNat == ASSUME NEW a \in Nat, NEW b \in Nat PROVE a * b \in Nat
  OBVIOUS

LEMMA QuotientNat ==
  ASSUME NEW a \in Nat, NEW b \in Nat, b > 0 PROVE a \div b \in Nat
  OBVIOUS

\* Accepted options build a tracker within its limits (QueueOptions.Validate).
LEMMA NewTracker ==
  ASSUME NEW o \in [HardLimit : Int, SoftQuota : Int, BurstCredit : Int], Acceptable(o)
  PROVE  /\ SoftTracker(Defaults(o)) \in Tracker
         /\ WithinLimits(SoftTracker(Defaults(o)))
         /\ SoftTracker(Defaults(o)).length = 0
<1> DEFINE soft == IF o.SoftQuota <= 0 THEN o.HardLimit ELSE o.SoftQuota
<1>1. soft \in Nat /\ 1 <= soft /\ soft <= o.HardLimit
  BY DEF Acceptable
<1>2. soft * CreditUnit \in Nat
  BY <1>1, ProductNat, LimitsAssumption
<1>3. Defaults(o) = [HardLimit |-> o.HardLimit, SoftQuota |-> soft,
                     BurstCredit |-> IF o.BurstCredit = 0 THEN soft * CreditUnit
                                     ELSE o.BurstCredit]
  BY DEF Defaults
<1> QED
  BY <1>1, <1>2, <1>3 DEF Acceptable, SoftTracker, Tracker, Kinds, WithinLimits

\* An accepted add counts one more item and stays within the limits.
LEMMA AddedTracker ==
  ASSUME NEW t \in Tracker, WithinLimits(t), AddError(t) = "nil"
  PROVE  Added(t) \in Tracker /\ WithinLimits(Added(t)) /\ Added(t).length = t.length + 1
<1>1. CASE t.kind = "soft" /\ t.length >= t.softQuota
  <2>1. t.length = t.softQuota /\ t.length < t.hardLimit /\ t.credit >= CreditUnit
    BY <1>1, LimitsAssumption DEF WithinLimits, AddError, Tracker
  <2>2. t.credit - CreditUnit \in Nat
    BY <2>1, LimitsAssumption DEF Tracker
  <2>3. Added(t) = [t EXCEPT !.credit = t.credit - CreditUnit, !.softQuota = t.length + 1,
                             !.length = t.length + 1]
    BY <1>1 DEF Added
  <2>4. t.length + 1 \in Nat
    BY DEF Tracker
  <2>5. /\ Added(t).kind = "soft" /\ Added(t).hardLimit = t.hardLimit
        /\ Added(t).length = t.length + 1 /\ Added(t).softQuota = t.length + 1
        /\ Added(t) \in Tracker
    BY <1>1, <2>2, <2>3, <2>4 DEF Tracker
  <2> QED
    BY <2>1, <2>5 DEF WithinLimits, Tracker
<1>2. CASE ~(t.kind = "soft" /\ t.length >= t.softQuota)
  BY <1>2 DEF Added, WithinLimits, AddError, Tracker, Kinds
<1> QED
  BY <1>1, <1>2

\* A removal from a tracker that counts something counts one item less.
LEMMA RemovedTracker ==
  ASSUME NEW t \in Tracker, WithinLimits(t), t.length > 0
  PROVE  Removed(t) \in Tracker /\ WithinLimits(Removed(t)) /\ Removed(t).length = t.length - 1
<1>1. CASE t.kind = "soft"
  <2> DEFINE n == t.length - 1
             s == IF t.softQuota > 1 /\ n < t.softQuota \div 2 THEN t.softQuota - 1 ELSE t.softQuota
             c == AtMost(t.credit + Earned(s - n, s), (t.hardLimit - s) * CreditUnit)
  <2>1. n \in Nat /\ n < t.softQuota /\ t.softQuota \in Nat /\ t.hardLimit \in Nat
    BY <1>1 DEF Tracker, WithinLimits
  <2>2. s \in Nat /\ 1 <= s /\ n <= s /\ s <= t.softQuota /\ s <= t.hardLimit
    BY <1>1, <2>1 DEF WithinLimits
  <2>3. Earned(s - n, s) \in Nat
    <3>1. (s - n) * CreditUnit \in Nat
      BY <2>1, <2>2, ProductNat, LimitsAssumption
    <3> QED
      BY <2>2, <3>1, QuotientNat DEF Earned
  <2>4. (t.hardLimit - s) * CreditUnit \in Nat
    <3>1. t.hardLimit - s \in Nat
      BY <2>1, <2>2
    <3> QED
      BY <3>1, ProductNat, LimitsAssumption
  <2>5. c \in Nat
    BY <2>3, <2>4 DEF AtMost, Tracker
  <2>6. Removed(t) = [t EXCEPT !.length = n, !.softQuota = s, !.credit = c]
    BY <1>1, <2>1 DEF Removed, SoftRemoved
  <2> HIDE DEF s, c, n
  <2>7. /\ Removed(t).kind = t.kind /\ Removed(t).hardLimit = t.hardLimit
        /\ Removed(t).length = n /\ Removed(t).softQuota = s
        /\ Removed(t) \in Tracker
    BY <2>1, <2>2, <2>5, <2>6 DEF Tracker
  <2> QED
    BY <1>1, <2>2, <2>7 DEF WithinLimits, n
<1>2. CASE t.kind # "soft"
  BY <1>2 DEF Removed, WithinLimits, Tracker
<1> QED
  BY <1>1, <1>2

\* What WaitPush tests before it adds is enough for the add to succeed.
LEMMA RoomMeansAdd ==
  ASSUME NEW t \in Tracker, Capacity(t) > t.length
  PROVE  AddError(t) = "nil"
  BY LimitsAssumption DEF Capacity, AddError, Tracker, Kinds
=============================================================================
