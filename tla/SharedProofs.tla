---------------------------- MODULE SharedProofs ----------------------------
(***************************************************************************)
(* The safety of what several goroutines call, part by part, for any       *)
(* callers and any bounds.                                                 *)
(***************************************************************************)
EXTENDS Shared, FiniteSetTheorems, SequenceTheorems, TLAPS

LEMMA AtMostOne == ASSUME NEW S, NEW x, S \subseteq {x} PROVE IsFiniteSet(S) /\ Cardinality(S) <= 1
<1>1. S = {} \/ S = {x}
  OBVIOUS
<1>2. CASE S = {}
  BY <1>2, FS_EmptySet
<1>3. CASE S = {x}
  <2>1. IsFiniteSet({x}) /\ Cardinality({x}) = 1
    BY FS_Singleton
  <2> QED
    BY <1>3, <2>1
<1> QED
  BY <1>1, <1>2, <1>3

\* The parts count with the Cardinality of their own instance of FiniteSets.
LEMMA SameCount ==
  ASSUME NEW S
  PROVE  /\ ON!Cardinality(S) = Cardinality(S) /\ SC!Cardinality(S) = Cardinality(S)
         /\ CM!Cardinality(S) = Cardinality(S) /\ SK!Cardinality(S) = Cardinality(S)
  BY DEF ON!Cardinality, SC!Cardinality, CM!Cardinality, SK!Cardinality, Cardinality

LEMMA UpdateTyped ==
  ASSUME NEW D, NEW R, NEW f \in [D -> R], NEW x, NEW y \in R
  PROVE  [f EXCEPT ![x] = y] \in [D -> R]
  OBVIOUS

\* A sequence with one element replaced.
LEMMA Replaced ==
  ASSUME NEW q \in Seq(Nat), NEW n, n = Len(q), NEW i \in 1..n, NEW e \in Nat
  PROVE  /\ [q EXCEPT ![i] = e] \in Seq(Nat) /\ Len([q EXCEPT ![i] = e]) = n
         /\ [q EXCEPT ![i] = e][i] = e
         /\ \A j \in 1..n : j # i => [q EXCEPT ![i] = e][j] = q[j]
  BY ExceptSeq

\* A sequence with one element more.
LEMMA Longer ==
  ASSUME NEW q \in Seq(Nat), NEW n, n = Len(q), NEW e \in Nat
  PROVE  /\ Append(q, e) \in Seq(Nat) /\ Len(Append(q, e)) = n + 1
         /\ Append(q, e)[n + 1] = e
         /\ \A j \in 1..n : Append(q, e)[j] = q[j]
  BY AppendProperties

----------------------------------------------------------------------------
(* adt.Once                                                                *)

Inside == {"populate", "get", "clear", "return", "panic"}

OnceTyped ==
  /\ ctor \in Ctors \cup {0} /\ comp \in Ctors \cup {0}
  /\ arg \in [OnceCallers -> Ctors \cup {0}]
  /\ answer \in [OnceCallers -> Ctors \cup {0, -1}]
  /\ pc \in [OnceCallers -> Inside \cup {"new", "wait", "done", "define", "set"}]

\* One caller at most is inside, while the inner sync.Once runs, and before it leaves its
\* populate nothing has run.
OneInside ==
  /\ \A c, d \in OnceCallers : pc[c] \in Inside /\ pc[d] \in Inside => c = d
  /\ \A c \in OnceCallers : pc[c] \in Inside => once = "running"
  /\ \A c \in OnceCallers : pc[c] \in {"populate", "get"} => ran = {}
  /\ \A c \in OnceCallers : pc[c] = "panic" => comp = 0
  /\ once = "new" => ran = {}

\* What ran, if anything did, made the value, unless it panicked.
MadeBy == \/ comp = 0 /\ \E x : ran \subseteq {x}
          \/ comp # 0 /\ ran = {comp}

OnceInv ==
  /\ OnceTyped /\ OneInside /\ MadeBy
  /\ \A c \in OnceCallers : answer[c] > 0 => once = "done" /\ answer[c] = comp

LEMMA OnceInit == ASSUME ON!Init PROVE OnceInv
  BY SharedAssumption DEF ON!Init, OnceInv, OnceTyped, OneInside, MadeBy, Inside

LEMMA OnceNext == ASSUME OnceInv, ON!Next PROVE OnceInv'
<1> USE SharedAssumption DEF OnceInv, OnceTyped, OneInside, MadeBy, Inside, ON!Goto, ON!fields
<1>1. ASSUME NEW c \in OnceCallers, ON!Do(c) PROVE OnceInv'
  BY <1>1 DEF ON!Do
<1>2. ASSUME NEW c \in OnceCallers, ON!Set(c) PROVE OnceInv'
  BY <1>2 DEF ON!Set
<1>3. ASSUME NEW c \in OnceCallers, ON!Waited(c) PROVE OnceInv'
  BY <1>3 DEF ON!Waited
<1>4. ASSUME NEW c \in OnceCallers, ON!populate(c) PROVE OnceInv'
  BY <1>4 DEF ON!populate
<1>5. ASSUME NEW c \in OnceCallers, ON!Construct(c) PROVE OnceInv'
  BY <1>5 DEF ON!Construct
<1>6. ASSUME NEW c \in OnceCallers, ON!Clear(c) PROVE OnceInv'
  BY <1>6 DEF ON!Clear
<1>7. ASSUME NEW c \in OnceCallers, ON!Return(c) PROVE OnceInv'
  BY <1>7 DEF ON!Return
<1>8. ASSUME NEW c \in OnceCallers, ON!SetEnds(c) PROVE OnceInv'
  BY <1>8 DEF ON!SetEnds, ON!Define
<1> QED
  BY <1>1, <1>2, <1>3, <1>4, <1>5, <1>6, <1>7, <1>8 DEF ON!Next, ON!Going

LEMMA OnceStutter == ASSUME OnceInv, UNCHANGED ON!vars PROVE OnceInv'
  BY DEF OnceInv, OnceTyped, OneInside, MadeBy, ON!vars, ON!fields

LEMMA OnceValueOne == ASSUME OnceInv PROVE ON!OneValue
<1>1. Cardinality(ran) <= 1
  <2>1. PICK x : ran \subseteq {x}
    BY DEF OnceInv, MadeBy
  <2> QED
    BY <2>1, AtMostOne
<1>2. comp \in Nat /\ \A c \in OnceCallers : answer[c] \in Int
  <2>1. Ctors \cup {0} \subseteq Nat /\ Ctors \cup {0, -1} \subseteq Int
    BY SharedAssumption
  <2> QED
    BY <2>1 DEF OnceInv, OnceTyped
<1>3. \A c \in OnceCallers : answer[c] > 0 => answer[c] = comp /\ comp # 0
  BY <1>2 DEF OnceInv
<1>4. \A c \in OnceCallers : answer[c] > 0 => answer[c] \in ran
  BY <1>3 DEF OnceInv, MadeBy
<1>5. comp = 0 => \A c \in OnceCallers : answer[c] <= 0
  BY <1>2, <1>3
<1> QED
  BY <1>1, <1>3, <1>4, <1>5, SameCount DEF ON!OneValue

----------------------------------------------------------------------------
(* exc.Command                                                             *)

Heard == {"waits", "exited", "killed"}

CommandTyped ==
  /\ waited \in BOOLEAN
  /\ pc \in [Callers -> {"new", "select", "done"}]
  /\ told \in [Callers -> {"none", "start", "again", "exited", "killed", "nil", "canceled"}]
  /\ waiter \in [Callers -> Heard \cup {"none", "calls", "again"}]

\* One goroutine is in os/exec's Wait or has come from it, from the first call on, and
\* what it says is how the process ended.
OneHears ==
  /\ \A c, d \in Callers : waiter[c] \in Heard /\ waiter[d] \in Heard => c = d
  /\ \A c \in Callers : waiter[c] \in Heard \cup {"again"} => waited
  /\ waited => \E c \in Callers : waiter[c] \in Heard
  /\ \A c \in Callers : waiter[c] \in {"exited", "killed"} => proc = waiter[c]

\* A caller that has not begun has no goroutine, and one told an end has heard it.
ToldWasHeard ==
  /\ \A c \in Callers : pc[c] = "new" => waiter[c] = "none"
  /\ \A c \in Callers : told[c] # "none" => pc[c] = "done"
  /\ \A c \in Callers : told[c] \in {"again", "exited", "killed"} => told[c] = waiter[c]

CommandInv == CommandTyped /\ OneHears /\ ToldWasHeard

LEMMA CommandInit == ASSUME CM!Init PROVE CommandInv
  BY DEF CM!Init, CommandInv, CommandTyped, OneHears, ToldWasHeard, Heard

LEMMA CommandNext == ASSUME CommandInv, CM!Next PROVE CommandInv'
<1> USE DEF CommandInv, CommandTyped, OneHears, ToldWasHeard, Heard, CM!Goto,
            CM!fields, CM!process, CM!callers
<1>1. CASE CM!Configure \/ CM!Start \/ CM!Exit \/ CM!KilledByStart \/ CM!Cancel
  BY <1>1 DEF CM!Configure, CM!Start, CM!Exit, CM!KilledByStart, CM!Cancel
<1>2. ASSUME NEW c \in Callers, CM!Worker(c) PROVE CommandInv'
  BY <1>2 DEF CM!Worker
<1>3. ASSUME NEW c \in Callers, CM!WaitBegins(c) PROVE CommandInv'
  BY <1>3 DEF CM!WaitBegins, CM!Wait
<1>4. ASSUME NEW c \in Callers, CM!WaitEnds(c) PROVE CommandInv'
  BY <1>4 DEF CM!WaitEnds
<1>5. ASSUME NEW c \in Callers, CM!Return(c) PROVE CommandInv'
  BY <1>5 DEF CM!Return
<1> QED
  BY <1>1, <1>2, <1>3, <1>4, <1>5 DEF CM!Next, CM!Going

LEMMA CommandStutter == ASSUME CommandInv, UNCHANGED CM!vars PROVE CommandInv'
  BY DEF CommandInv, CommandTyped, OneHears, ToldWasHeard, CM!vars, CM!process, CM!callers

LEMMA CommandOneWaits == ASSUME CommandInv PROVE CM!OneWaits
<1> DEFINE H == { c \in Callers : waiter[c] \in {"waits", "exited", "killed"} }
<1>1. Cardinality(H) <= 1
  <2>1. CASE H = {}
    BY <2>1, FS_EmptySet
  <2>2. ASSUME NEW c \in H PROVE H \subseteq {c}
    BY DEF CommandInv, OneHears, Heard
  <2> QED
    BY <2>1, <2>2, AtMostOne
<1>2. \A c \in Callers : told[c] = "again" => \E d \in Callers \ {c} : waiter[d] \in {"waits", "exited", "killed"}
  BY DEF CommandInv, OneHears, ToldWasHeard, Heard
<1>3. \A c \in Callers : told[c] \in {"exited", "killed"} => proc = told[c]
  BY DEF CommandInv, OneHears, ToldWasHeard
<1> QED
  BY <1>1, <1>2, <1>3, SameCount DEF CM!OneWaits

----------------------------------------------------------------------------
(* adt/shard.Map                                                           *)

Objects == 1..Len(value)
Numbers == 1..writes
Reading == [g : Nat, s : Nat, was : Nat, ver : Nat, val : 0..writes]
\* Where a caller is: a write that has not moved its object's clock; a call with an
\* object; a Fetch that has read the object's version, its value, and is about to end.
Unbumped == {"write set", "load", "new", "bump"}
HasObject == {"bump", "put", "back", "was", "same shard", "inner", "value", "same version"}
Versioned == {"value", "same version"}
Valued == {"same version"}
Fetched == {"same global"}
Places == Unbumped \cup HasObject \cup
          {"idle", "write delete", "delete", "global", "shard", "find", "missing", "same global"}

MapTyped ==
  /\ clock \in Nat /\ shClock \in Nat /\ writes \in Nat /\ fetches \in Nat
  /\ value \in Seq(Nat) /\ version \in Seq(Nat) /\ wrote \in Seq(Nat)
  /\ Len(version) = Len(value) /\ Len(wrote) = writes
  /\ entry \in [Keys -> 0..Len(value)]
  /\ key \in [Callers -> Keys]
  /\ mine \in [Callers -> 0..writes]
  /\ obj \in [Callers -> 0..Len(value)]
  /\ seen \in [Callers -> Reading] /\ result \in [Callers -> Reading]
  /\ pc \in [Callers -> Places]

\* A write that has not moved its object's clock has no version yet, and is of one caller.
OwnWrites ==
  /\ \A c \in Callers : pc[c] \in Unbumped => mine[c] \in Numbers /\ wrote[mine[c]] = 0
  /\ \A c, d \in Callers : pc[c] \in Unbumped /\ pc[d] \in Unbumped /\ mine[c] = mine[d] => c = d

\* The value v has a version, which the object o has reached; the reading r has a version
\* no older than its value's.
Reached(v, o) == v # 0 => v \in Numbers /\ wrote[v] \in 1..version[o]
Sound(r) == r.val # 0 => r.val \in Numbers /\ wrote[r.val] \in 1..r.ver

\* An object's clock moves before its value, and a Fetch reads it before that value.
ClockFirst ==
  /\ \A o \in Objects : Reached(value[o], o)
  /\ \A c \in Callers : pc[c] \in HasObject => obj[c] \in Objects
  /\ \A c \in Callers : pc[c] = "put" => Reached(mine[c], obj[c])
  /\ \A c \in Callers : pc[c] \in Versioned => seen[c].ver <= version[obj[c]]
  /\ \A c \in Callers : pc[c] \in Valued => Reached(seen[c].val, obj[c])
  /\ \A c \in Callers : pc[c] \in Fetched => Sound(seen[c])
  /\ \A c \in Callers : Sound(result[c])

MapInv == MapTyped /\ OwnWrites /\ ClockFirst

LEMMA MapInit == ASSUME SM!Init PROVE MapInv
<1> USE DEF SM!Init
<1>1. MapTyped
  <2>1. SM!Nothing \in Reading
    BY DEF SM!Nothing, Reading
  <2>2. (CHOOSE k \in Keys : TRUE) \in Keys
    BY SharedAssumption DEF SharedAssumption
  <2>3. value = <<>> /\ Len(value) = 0 /\ version = <<>> /\ Len(version) = 0 /\ wrote = <<>> /\ Len(wrote) = 0
    OBVIOUS
  <2>4. "idle" \in Places
    BY DEF Places
  <2> QED
    BY <2>1, <2>2, <2>3, <2>4 DEF MapTyped
<1>2. OwnWrites
  BY DEF OwnWrites, Unbumped
<1>3. ClockFirst
  <2>1. Objects = {}
    BY DEF Objects
  <2>2. Sound(SM!Nothing)
    BY DEF Sound, SM!Nothing
  <2> QED
    BY <2>1, <2>2 DEF ClockFirst, HasObject, Versioned, Valued, Fetched
<1> QED
  BY <1>1, <1>2, <1>3 DEF MapInv

LEMMA MapSizes ==
  ASSUME MapTyped
  PROVE  /\ Len(value) \in Nat
         /\ \A o \in Objects : o \in Nat /\ value[o] \in Nat /\ version[o] \in Nat
         /\ \A n \in Numbers : n \in Nat /\ wrote[n] \in Nat
<1>1. value \in Seq(Nat) /\ version \in Seq(Nat) /\ wrote \in Seq(Nat) /\ Len(version) = Len(value)
      /\ Len(wrote) = writes
  BY DEF MapTyped
<1>2. Len(value) \in Nat
  BY <1>1, LenProperties
<1>3. \A o \in Objects : value[o] \in Nat /\ version[o] \in Nat
  BY <1>1, ElementOfSeq DEF Objects
<1>4. \A n \in Numbers : wrote[n] \in Nat
  BY <1>1, ElementOfSeq DEF Numbers
<1>5. (\A o \in Objects : o \in Nat) /\ (\A n \in Numbers : n \in Nat)
  BY DEF Objects, Numbers
<1> QED
  BY <1>2, <1>3, <1>4, <1>5

\* A step after which c is at l with the object ob, the reading rd and the result rs, and
\* that changes no object and no write.
Quiet(c, l, ob, rd, rs) ==
  /\ UNCHANGED <<value, version, wrote, writes, mine>>
  /\ pc' = [pc EXCEPT ![c] = l] /\ obj' = [obj EXCEPT ![c] = ob]
  /\ seen' = [seen EXCEPT ![c] = rd] /\ result' = [result EXCEPT ![c] = rs]
QuietTyped(l, ob, rd, rs) ==
  /\ clock' \in Nat /\ shClock' \in Nat /\ fetches' \in Nat
  /\ entry' \in [Keys -> 0..Len(value)] /\ key' \in [Callers -> Keys]
  /\ l \in Places /\ ob \in 0..Len(value) /\ rd \in Reading /\ rs \in Reading
QuietAllowed(c, l, ob, rd, rs) ==
  /\ l \in Unbumped => pc[c] \in Unbumped
  /\ l \in HasObject => ob \in Objects
  /\ l = "put" => FALSE
  /\ l \in Versioned => rd.ver <= version[ob]
  /\ l \in Valued => Reached(rd.val, ob)
  /\ l \in Fetched => Sound(rd)
  /\ Sound(rs)

LEMMA QuietKeeps ==
  ASSUME MapInv, NEW c \in Callers, NEW l, NEW ob, NEW rd, NEW rs,
         Quiet(c, l, ob, rd, rs), QuietTyped(l, ob, rd, rs), QuietAllowed(c, l, ob, rd, rs)
  PROVE  MapInv'
<1>1. MapTyped /\ MapTyped'
  <2>1. Reading' = Reading
    BY DEF Quiet, Reading
  <2>2. MapTyped
    BY DEF MapInv
  <2>3. /\ pc' \in [Callers -> Places] /\ obj' \in [Callers -> 0..Len(value)]
        /\ seen' \in [Callers -> Reading] /\ result' \in [Callers -> Reading]
    BY <2>2 DEF MapTyped, Quiet, QuietTyped
  <2> QED
    BY <2>1, <2>2, <2>3 DEF MapTyped, Quiet, QuietTyped
<1>2. OwnWrites'
  <2>1. \A d \in Callers : pc'[d] \in Unbumped => pc[d] \in Unbumped
    BY <1>1 DEF MapTyped, Quiet, QuietAllowed
  <2> QED
    BY <2>1 DEF MapInv, OwnWrites, Quiet, Numbers
<1>3. ClockFirst'
  <2>1. Objects' = Objects /\ UNCHANGED <<value, version, wrote, writes, mine>>
    BY DEF Quiet, Objects
  <2>2. /\ \A d \in Callers : d # c => pc'[d] = pc[d] /\ obj'[d] = obj[d] /\ seen'[d] = seen[d]
                                       /\ result'[d] = result[d]
        /\ pc'[c] = l /\ obj'[c] = ob /\ seen'[c] = rd /\ result'[c] = rs
    BY <1>1 DEF MapTyped, Quiet
  <2>3. (\A o \in Objects : Reached(value[o], o))'
    BY <2>1 DEF MapInv, ClockFirst, Reached, Numbers
  <2>4. (\A d \in Callers : pc[d] = "put" => Reached(mine[d], obj[d]))'
    BY <2>1, <2>2 DEF MapInv, ClockFirst, QuietAllowed, Reached, Numbers
  <2>5. /\ (\A d \in Callers : pc[d] \in HasObject => obj[d] \in Objects)'
        /\ (\A d \in Callers : pc[d] \in Versioned => seen[d].ver <= version[obj[d]])'
    BY <2>1, <2>2 DEF MapInv, ClockFirst, QuietAllowed
  <2>6. (\A d \in Callers : pc[d] \in Valued => Reached(seen[d].val, obj[d]))'
    BY <2>1, <2>2 DEF MapInv, ClockFirst, QuietAllowed, Reached, Numbers
  <2>7. /\ (\A d \in Callers : pc[d] \in Fetched => Sound(seen[d]))'
        /\ (\A d \in Callers : Sound(result[d]))'
    BY <2>1, <2>2 DEF MapInv, ClockFirst, QuietAllowed, Sound, Numbers
  <2> QED
    BY <2>3, <2>4, <2>5, <2>6, <2>7 DEF ClockFirst
<1> QED
  BY <1>1, <1>2, <1>3 DEF MapInv

\* Objects and writes are added, an object's clock does not go back, and a write that has
\* a version keeps it.
Grown ==
  /\ Len(value) <= Len(value') /\ writes <= writes'
  /\ \A o \in Objects : version[o] <= version'[o]
  /\ \A n \in Numbers : wrote[n] # 0 => wrote'[n] = wrote[n]

LEMMA ReachedStays ==
  ASSUME MapTyped, MapTyped', Grown, NEW o \in Objects, NEW v, Reached(v, o)
  PROVE  v # 0 => v \in 1..writes' /\ wrote'[v] \in 1..version'[o]
<1>1. writes \in Nat /\ writes' \in Nat /\ Len(value) \in Nat /\ Len(value') \in Nat
  BY LenProperties DEF MapTyped
<1>2. version[o] \in Nat
  BY MapSizes
<1>3. o \in 1..Len(value')
  BY <1>1 DEF Objects, Grown
<1>4. version'[o] \in Nat
  <2>1. version' \in Seq(Nat) /\ Len(version') = Len(value')
    BY DEF MapTyped
  <2> QED
    BY <1>3, <2>1, ElementOfSeq
<1>5. SUFFICES ASSUME v # 0 PROVE v \in 1..writes' /\ wrote'[v] \in 1..version'[o]
  OBVIOUS
<1>6. v \in 1..writes /\ wrote[v] \in 1..version[o]
  BY <1>5 DEF Reached, Numbers
<1>7. wrote'[v] = wrote[v]
  BY <1>6 DEF Grown, Numbers
<1>8. version[o] <= version'[o] /\ writes <= writes'
  BY DEF Grown
<1> QED
  BY <1>1, <1>2, <1>4, <1>6, <1>7, <1>8

LEMMA SoundStays ==
  ASSUME MapTyped, MapTyped', Grown, NEW r, Sound(r)
  PROVE  r.val # 0 => r.val \in 1..writes' /\ wrote'[r.val] \in 1..r.ver
<1>1. writes \in Nat /\ writes' \in Nat /\ writes <= writes'
  BY DEF MapTyped, Grown
<1>2. SUFFICES ASSUME r.val # 0 PROVE r.val \in 1..writes' /\ wrote'[r.val] \in 1..r.ver
  OBVIOUS
<1>3. r.val \in 1..writes /\ wrote[r.val] \in 1..r.ver
  BY <1>2 DEF Sound, Numbers
<1>4. wrote'[r.val] = wrote[r.val]
  BY <1>3 DEF Grown, Numbers
<1> QED
  BY <1>1, <1>3, <1>4

\* A step that takes c, with the object and the readings it has, to l, and that changes
\* objects or writes.
Loud(c, l) ==
  /\ UNCHANGED <<obj, seen, result>> /\ pc' = [pc EXCEPT ![c] = l]
  /\ \A d \in Callers \ {c} : mine'[d] = mine[d]
LoudAllowed(c, l) ==
  /\ Grown
  /\ l \in Unbumped => /\ mine'[c] \in 1..writes' /\ wrote'[mine'[c]] = 0
                       /\ \A d \in Callers \ {c} : pc[d] \in Unbumped => mine[d] # mine'[c]
  /\ \A d \in Callers \ {c} : pc[d] \in Unbumped => wrote'[mine[d]] = 0
  /\ \A o \in 1..Len(value') :
       value'[o] # 0 => value'[o] \in 1..writes' /\ wrote'[value'[o]] \in 1..version'[o]
  /\ l \in HasObject => obj[c] \in Objects
  /\ l = "put" /\ mine'[c] # 0 => mine'[c] \in 1..writes' /\ wrote'[mine'[c]] \in 1..version'[obj[c]]
  /\ l \notin Versioned /\ l \notin Valued /\ l \notin Fetched

LEMMA LoudKeeps ==
  ASSUME MapInv, MapTyped', NEW c \in Callers, NEW l, Loud(c, l), LoudAllowed(c, l)
  PROVE  MapInv'
<1>1. MapTyped /\ pc \in [Callers -> Places] /\ Grown
  BY DEF MapInv, MapTyped, LoudAllowed
<1>2. /\ \A d \in Callers : d # c => pc'[d] = pc[d] /\ mine'[d] = mine[d]
      /\ pc'[c] = l /\ UNCHANGED <<obj, seen, result>>
  BY <1>1 DEF Loud
<1>3. writes \in Nat /\ writes' \in Nat /\ Len(value) \in Nat /\ Len(value') \in Nat
  BY <1>1, LenProperties DEF MapTyped
<1>4. writes <= writes' /\ Len(value) <= Len(value') /\ \A o \in Objects : version[o] <= version'[o]
  BY <1>1 DEF Grown
<1>5. OwnWrites'
  <2>1. \A d \in Callers : pc[d] \in Unbumped => mine[d] \in 1..writes
    BY DEF MapInv, OwnWrites, Numbers
  <2>2. \A d \in Callers : pc'[d] \in Unbumped => mine'[d] \in 1..writes' /\ wrote'[mine'[d]] = 0
    <3>1. ASSUME NEW d \in Callers, d # c, pc'[d] \in Unbumped
          PROVE  mine'[d] \in 1..writes' /\ wrote'[mine'[d]] = 0
      <4>1. pc[d] \in Unbumped /\ mine'[d] = mine[d]
        BY <1>2, <3>1
      <4>2. mine[d] \in 1..writes'
        BY <1>3, <1>4, <2>1, <4>1
      <4> QED
        BY <3>1, <4>1, <4>2 DEF LoudAllowed
    <3>2. pc'[c] \in Unbumped => mine'[c] \in 1..writes' /\ wrote'[mine'[c]] = 0
      BY <1>2 DEF LoudAllowed
    <3> QED
      BY <3>1, <3>2
  <2>3. \A d, e \in Callers : pc'[d] \in Unbumped /\ pc'[e] \in Unbumped /\ mine'[d] = mine'[e] => d = e
    BY <1>2 DEF MapInv, OwnWrites, LoudAllowed
  <2> QED
    BY <2>2, <2>3 DEF OwnWrites, Numbers
<1>6. ClockFirst'
  <2>1. (\A o \in Objects : Reached(value[o], o))'
    BY DEF LoudAllowed, Objects, Reached, Numbers
  <2>2. (\A d \in Callers : pc[d] \in HasObject => obj[d] \in Objects)'
    <3>1. \A d \in Callers : pc'[d] \in HasObject => obj[d] \in Objects
      BY <1>2 DEF MapInv, ClockFirst, LoudAllowed
    <3>2. \A o \in Objects : o \in 1..Len(value')
      BY <1>3, <1>4 DEF Objects
    <3> QED
      BY <1>2, <3>1, <3>2 DEF Objects
  <2>3. (\A d \in Callers : pc[d] = "put" => Reached(mine[d], obj[d]))'
    <3>1. ASSUME NEW d \in Callers, pc'[d] = "put", mine'[d] # 0
          PROVE  mine'[d] \in 1..writes' /\ wrote'[mine'[d]] \in 1..version'[obj[d]]
      <4>1. CASE d = c
        BY <1>2, <3>1, <4>1 DEF LoudAllowed
      <4>2. CASE d # c
        <5>1. pc[d] = "put" /\ mine'[d] = mine[d]
          BY <1>2, <3>1, <4>2
        <5>2. "put" \in HasObject
          BY DEF HasObject
        <5>3. obj[d] \in Objects /\ Reached(mine[d], obj[d])
          BY <5>1, <5>2 DEF MapInv, ClockFirst
        <5> QED
          BY <1>1, <3>1, <5>1, <5>3, ReachedStays
      <4> QED
        BY <4>1, <4>2
    <3> QED
      BY <1>2, <3>1 DEF Reached, Numbers
  <2>4. (\A d \in Callers : pc[d] \in Versioned => seen[d].ver <= version[obj[d]])'
    <3>1. ASSUME NEW d \in Callers, pc'[d] \in Versioned PROVE seen'[d].ver <= version'[obj'[d]]
      <4>1. d # c /\ pc[d] \in Versioned
        BY <1>2, <3>1 DEF LoudAllowed
      <4>2. pc[d] \in HasObject
        BY <4>1 DEF Versioned, HasObject
      <4>3. obj[d] \in Objects /\ seen[d].ver <= version[obj[d]]
        BY <4>1, <4>2 DEF MapInv, ClockFirst
      <4>4. obj'[d] = obj[d] /\ seen'[d] = seen[d]
        BY <1>2
      <4>5. version[obj[d]] \in Nat /\ version[obj[d]] <= version'[obj[d]]
        BY <1>1, <1>4, <4>3, MapSizes
      <4>6. seen[d].ver \in Nat
        BY <1>1 DEF MapTyped, Reading
      <4>7. version'[obj[d]] \in Nat
        <5>1. version' \in Seq(Nat) /\ Len(version') = Len(value')
          BY DEF MapTyped
        <5>2. obj[d] \in 1..Len(value')
          BY <1>3, <1>4, <4>3 DEF Objects
        <5> QED
          BY <5>1, <5>2, ElementOfSeq
      <4> QED
        BY <4>3, <4>4, <4>5, <4>6, <4>7
    <3> QED
      BY <3>1
  <2>5. (\A d \in Callers : pc[d] \in Valued => Reached(seen[d].val, obj[d]))'
    <3>1. ASSUME NEW d \in Callers, pc'[d] \in Valued, seen[d].val # 0
          PROVE  seen[d].val \in 1..writes' /\ wrote'[seen[d].val] \in 1..version'[obj[d]]
      <4>1. d # c /\ pc[d] \in Valued
        BY <1>2, <3>1 DEF LoudAllowed
      <4>2. pc[d] \in HasObject
        BY <4>1 DEF Valued, HasObject
      <4>3. obj[d] \in Objects /\ Reached(seen[d].val, obj[d])
        BY <4>1, <4>2 DEF MapInv, ClockFirst
      <4> QED
        BY <1>1, <3>1, <4>3, ReachedStays
    <3> QED
      BY <1>2, <3>1 DEF Reached, Numbers
  <2>6. (\A d \in Callers : pc[d] \in Fetched => Sound(seen[d]))'
    <3>1. ASSUME NEW d \in Callers, pc'[d] \in Fetched, seen[d].val # 0
          PROVE  seen[d].val \in 1..writes' /\ wrote'[seen[d].val] \in 1..seen[d].ver
      <4>1. d # c /\ pc[d] \in Fetched
        BY <1>2, <3>1 DEF LoudAllowed
      <4>2. Sound(seen[d])
        BY <4>1 DEF MapInv, ClockFirst
      <4> QED
        BY <1>1, <3>1, <4>2, SoundStays
    <3> QED
      BY <1>2, <3>1 DEF Sound, Numbers
  <2>7. (\A d \in Callers : Sound(result[d]))'
    <3>1. ASSUME NEW d \in Callers, result[d].val # 0
          PROVE  result[d].val \in 1..writes' /\ wrote'[result[d].val] \in 1..result[d].ver
      <4>1. Sound(result[d])
        BY DEF MapInv, ClockFirst
      <4> QED
        BY <1>1, <3>1, <4>1, SoundStays
    <3> QED
      BY <1>2, <3>1 DEF Sound, Numbers
  <2> QED
    BY <2>1, <2>2, <2>3, <2>4, <2>5, <2>6, <2>7 DEF ClockFirst
<1> QED
  BY <1>5, <1>6 DEF MapInv

LEMMA MapNext == ASSUME MapInv, NEW c \in Callers, SM!inc(c) \/ SM!Fetch(c) \/ SM!Going(c) PROVE MapInv'
<1>1. /\ MapTyped
      /\ pc = [pc EXCEPT ![c] = pc[c]] /\ obj = [obj EXCEPT ![c] = obj[c]]
      /\ seen = [seen EXCEPT ![c] = seen[c]] /\ result = [result EXCEPT ![c] = result[c]]
      /\ obj[c] \in 0..Len(value) /\ seen[c] \in Reading /\ result[c] \in Reading
      /\ key[c] \in Keys /\ mine[c] \in 0..writes /\ Len(value) \in Nat
  BY MapSizes DEF MapInv, MapTyped
<1>2. Sound(result[c])
  BY DEF MapInv, ClockFirst
<1>3. \A k \in Keys : [key EXCEPT ![c] = k] \in [Callers -> Keys]
  BY UpdateTyped DEF MapInv, MapTyped
<1>4. /\ clock \in Nat /\ shClock \in Nat /\ fetches \in Nat /\ writes \in Nat
      /\ clock + 1 \in Nat /\ shClock + 1 \in Nat /\ fetches + 1 \in Nat /\ writes + 1 \in Nat
  BY <1>1 DEF MapTyped
<1>5. \A n \in 0..Len(value) : \A k \in Keys : [entry EXCEPT ![k] = n] \in [Keys -> 0..Len(value)]
  BY <1>1, UpdateTyped DEF MapTyped
<1>6. entry \in [Keys -> 0..Len(value)] /\ key \in [Callers -> Keys] /\ entry[key[c]] \in 0..Len(value)
  BY <1>1 DEF MapTyped
<1>7. \A o \in 0..Len(value) : o # 0 => o \in Objects
  BY <1>1 DEF Objects
<1>8. SM!write(c) => MapInv'
  <2>1. SUFFICES ASSUME SM!write(c) PROVE MapInv'
    OBVIOUS
  <2>2. CASE pc[c] = "write set"
    <3>1. Quiet(c, "load", obj[c], seen[c], result[c])
      BY <1>1, <2>1, <2>2 DEF SM!write, SM!Goto, SM!counts, SM!Local, Quiet
    <3>2. QuietTyped("load", obj[c], seen[c], result[c])
      BY <1>1, <1>4, <1>6, <2>1 DEF SM!write, SM!counts, SM!Local, QuietTyped, Places, Unbumped
    <3>3. QuietAllowed(c, "load", obj[c], seen[c], result[c])
      BY <1>2, <2>2 DEF QuietAllowed, Unbumped, HasObject, Versioned, Valued, Fetched
    <3> QED
      BY <3>1, <3>2, <3>3, QuietKeeps
  <2>3. CASE pc[c] = "write delete"
    <3>1. Quiet(c, "delete", obj[c], seen[c], result[c])
      BY <1>1, <2>1, <2>3 DEF SM!write, SM!Goto, SM!counts, SM!Local, Quiet
    <3>2. QuietTyped("delete", obj[c], seen[c], result[c])
      BY <1>1, <1>4, <1>6, <2>1 DEF SM!write, SM!counts, SM!Local, QuietTyped, Places
    <3>3. QuietAllowed(c, "delete", obj[c], seen[c], result[c])
      BY <1>2 DEF QuietAllowed, Unbumped, HasObject, Versioned, Valued, Fetched
    <3> QED
      BY <3>1, <3>2, <3>3, QuietKeeps
  <2> QED
    BY <2>1, <2>2, <2>3 DEF SM!write
<1>9. SM!Delete(c) => MapInv'
  <2>1. SUFFICES ASSUME SM!Delete(c) PROVE MapInv'
    OBVIOUS
  <2>2. Quiet(c, "idle", obj[c], seen[c], result[c])
    BY <1>1, <2>1 DEF SM!Delete, SM!Goto, SM!counts, SM!Local, Quiet
  <2>3. QuietTyped("idle", obj[c], seen[c], result[c])
    <3>1. entry' \in [Keys -> 0..Len(value)]
      BY <1>1, <1>5, <2>1 DEF SM!Delete
    <3> QED
      BY <1>1, <1>4, <1>6, <2>1, <3>1 DEF SM!Delete, SM!counts, SM!Local, QuietTyped, Places
  <2>4. QuietAllowed(c, "idle", obj[c], seen[c], result[c])
    BY <1>2 DEF QuietAllowed, Unbumped, HasObject, Versioned, Valued, Fetched
  <2> QED
    BY <2>2, <2>3, <2>4, QuietKeeps
<1>10. SM!set(c) => MapInv'
  <2>1. SUFFICES ASSUME SM!set(c) PROVE MapInv'
    OBVIOUS
  <2> DEFINE o == entry[key[c]]
  <2>2. CASE o = 0
    <3>1. Quiet(c, "new", o, seen[c], result[c])
      BY <1>1, <2>1, <2>2 DEF SM!set, SM!Goto, SM!memory, SM!counts, Quiet
    <3>2. QuietTyped("new", o, seen[c], result[c])
      BY <1>1, <1>4, <1>6, <2>1 DEF SM!set, SM!memory, SM!counts, QuietTyped, Places, Unbumped
    <3>3. QuietAllowed(c, "new", o, seen[c], result[c])
      BY <1>2, <2>1 DEF SM!set, QuietAllowed, Unbumped, HasObject, Versioned, Valued, Fetched
    <3> QED
      BY <3>1, <3>2, <3>3, QuietKeeps
  <2>3. CASE o # 0
    <3>1. Quiet(c, "bump", o, seen[c], result[c])
      BY <1>1, <2>1, <2>3 DEF SM!set, SM!Goto, SM!memory, SM!counts, Quiet
    <3>2. QuietTyped("bump", o, seen[c], result[c])
      BY <1>1, <1>4, <1>6, <2>1 DEF SM!set, SM!memory, SM!counts, QuietTyped, Places, Unbumped
    <3>3. o \in Objects
      BY <1>6, <1>7, <2>3
    <3>4. QuietAllowed(c, "bump", o, seen[c], result[c])
      BY <1>2, <2>1, <3>3 DEF SM!set, QuietAllowed, Unbumped, HasObject, Versioned, Valued, Fetched
    <3> QED
      BY <3>1, <3>2, <3>4, QuietKeeps
  <2> QED
    BY <2>2, <2>3
<1>11. SM!SetBack(c) => MapInv'
  <2>1. SUFFICES ASSUME SM!SetBack(c) PROVE MapInv'
    OBVIOUS
  <2>2. Quiet(c, "idle", obj[c], seen[c], result[c])
    BY <1>1, <2>1 DEF SM!SetBack, SM!After, SM!Goto, SM!counts, SM!Local, Quiet
  <2>3. QuietTyped("idle", obj[c], seen[c], result[c])
    <3>1. entry' \in [Keys -> 0..Len(value)]
      BY <1>1, <1>5, <2>1 DEF SM!SetBack
    <3> QED
      BY <1>1, <1>4, <1>6, <2>1, <3>1 DEF SM!SetBack, SM!counts, SM!Local, QuietTyped, Places
  <2>4. QuietAllowed(c, "idle", obj[c], seen[c], result[c])
    BY <1>2 DEF QuietAllowed, Unbumped, HasObject, Versioned, Valued, Fetched
  <2> QED
    BY <2>2, <2>3, <2>4, QuietKeeps
<1>12. SM!Fetch(c) => MapInv'
  <2>1. SUFFICES ASSUME SM!Fetch(c) PROVE MapInv'
    OBVIOUS
  <2> DEFINE rd == [seen[c] EXCEPT !.g = clock]
  <2>2. Quiet(c, "shard", obj[c], rd, result[c])
    BY <1>1, <2>1 DEF SM!Fetch, SM!Note, SM!memory, SM!Goto, Quiet
  <2>3. QuietTyped("shard", obj[c], rd, result[c])
    <3>1. key' \in [Callers -> Keys] /\ fetches' \in Nat
      BY <1>3, <1>4, <1>6, <2>1 DEF SM!Fetch
    <3>2. rd \in Reading
      BY <1>1, <1>4 DEF Reading
    <3> QED
      BY <1>1, <1>4, <1>6, <2>1, <3>1, <3>2 DEF SM!Fetch, SM!memory, QuietTyped, Places
  <2>4. QuietAllowed(c, "shard", obj[c], rd, result[c])
    BY <1>2 DEF QuietAllowed, Unbumped, HasObject, Versioned, Valued, Fetched
  <2> QED
    BY <2>2, <2>3, <2>4, QuietKeeps
\* Of a caller with an object.
<1>13. pc[c] \in HasObject => obj[c] \in Objects /\ version[obj[c]] \in Nat /\ value[obj[c]] \in Nat
  BY <1>1, MapSizes DEF MapInv, ClockFirst
<1>14. \A l \in Places, rd \in Reading, rs \in Reading, ob \in 0..Len(value) :
         UNCHANGED <<clock, shClock, fetches, entry, key>> => QuietTyped(l, ob, rd, rs)
  BY <1>4, <1>6 DEF QuietTyped
<1>15. SM!fetch(c) => MapInv'
  <2>1. SUFFICES ASSUME SM!fetch(c) PROVE MapInv'
    OBVIOUS
  <2>2. UNCHANGED <<clock, shClock, fetches, entry, key>> /\ UNCHANGED <<value, version, wrote, writes, mine>>
        /\ UNCHANGED result
    BY <2>1 DEF SM!fetch, SM!ReadOnly, SM!memory, SM!counts
  <2>3. CASE pc[c] = "shard" /\ SM!Note(c, "s", shClock) /\ SM!Goto(c, "find") /\ UNCHANGED obj
    <3> DEFINE rd == [seen[c] EXCEPT !.s = shClock]
    <3>1. Quiet(c, "find", obj[c], rd, result[c])
      BY <1>1, <2>2, <2>3 DEF SM!Note, SM!Goto, Quiet
    <3>2. rd \in Reading /\ "find" \in Places
      BY <1>1, <1>4 DEF Reading, Places
    <3>3. QuietTyped("find", obj[c], rd, result[c])
      BY <1>1, <1>14, <2>2, <3>2
    <3>4. QuietAllowed(c, "find", obj[c], rd, result[c])
      BY <1>2 DEF QuietAllowed, Unbumped, HasObject, Versioned, Valued, Fetched
    <3> QED
      BY <3>1, <3>3, <3>4, QuietKeeps
  <2>4. CASE /\ pc[c] = "find" /\ obj' = [obj EXCEPT ![c] = entry[key[c]]] /\ UNCHANGED seen
             /\ SM!Goto(c, IF entry[key[c]] = 0 THEN "missing" ELSE "was")
    <3> DEFINE o == entry[key[c]]
    <3>1. CASE o = 0
      <4>1. Quiet(c, "missing", o, seen[c], result[c])
        BY <1>1, <2>2, <2>4, <3>1 DEF SM!Goto, Quiet
      <4>2. QuietTyped("missing", o, seen[c], result[c])
        BY <1>1, <1>6, <1>14, <2>2 DEF Places
      <4>3. QuietAllowed(c, "missing", o, seen[c], result[c])
        BY <1>2 DEF QuietAllowed, Unbumped, HasObject, Versioned, Valued, Fetched
      <4> QED
        BY <4>1, <4>2, <4>3, QuietKeeps
    <3>2. CASE o # 0
      <4>1. Quiet(c, "was", o, seen[c], result[c])
        BY <1>1, <2>2, <2>4, <3>2 DEF SM!Goto, Quiet
      <4>2. QuietTyped("was", o, seen[c], result[c])
        BY <1>1, <1>6, <1>14, <2>2 DEF Places, HasObject
      <4>3. o \in Objects
        BY <1>6, <1>7, <3>2
      <4>4. QuietAllowed(c, "was", o, seen[c], result[c])
        BY <1>2, <4>3 DEF QuietAllowed, Unbumped, HasObject, Versioned, Valued, Fetched
      <4> QED
        BY <4>1, <4>2, <4>4, QuietKeeps
    <3> QED
      BY <3>1, <3>2
  <2>5. CASE pc[c] = "was" /\ SM!Note(c, "was", version[obj[c]]) /\ SM!Goto(c, "same shard") /\ UNCHANGED obj
    <3> DEFINE rd == [seen[c] EXCEPT !.was = version[obj[c]]]
    <3>1. Quiet(c, "same shard", obj[c], rd, result[c])
      BY <1>1, <2>2, <2>5 DEF SM!Note, SM!Goto, Quiet
    <3>2. pc[c] \in HasObject
      BY <2>5 DEF HasObject
    <3>3. rd \in Reading
      BY <1>1, <1>13, <3>2 DEF Reading
    <3>4. "same shard" \in Places
      BY DEF Places, HasObject
    <3>5. QuietTyped("same shard", obj[c], rd, result[c])
      BY <1>1, <1>14, <2>2, <3>3, <3>4
    <3>6. QuietAllowed(c, "same shard", obj[c], rd, result[c])
      BY <1>2, <1>13, <3>2 DEF QuietAllowed, Unbumped, HasObject, Versioned, Valued, Fetched
    <3> QED
      BY <3>1, <3>5, <3>6, QuietKeeps
  <2>6. CASE /\ pc[c] = "same shard" /\ SM!Goto(c, IF seen[c].s = shClock THEN "inner" ELSE "shard")
             /\ UNCHANGED <<obj, seen>>
    <3>1. pc[c] \in HasObject
      BY <2>6 DEF HasObject
    <3>2. CASE seen[c].s = shClock
      <4>1. Quiet(c, "inner", obj[c], seen[c], result[c])
        BY <1>1, <2>2, <2>6, <3>2 DEF SM!Goto, Quiet
      <4>2. QuietTyped("inner", obj[c], seen[c], result[c])
        BY <1>1, <1>14, <2>2 DEF Places, HasObject
      <4>3. QuietAllowed(c, "inner", obj[c], seen[c], result[c])
        BY <1>2, <1>13, <3>1 DEF QuietAllowed, Unbumped, HasObject, Versioned, Valued, Fetched
      <4> QED
        BY <4>1, <4>2, <4>3, QuietKeeps
    <3>3. CASE seen[c].s # shClock
      <4>1. Quiet(c, "shard", obj[c], seen[c], result[c])
        BY <1>1, <2>2, <2>6, <3>3 DEF SM!Goto, Quiet
      <4>2. QuietTyped("shard", obj[c], seen[c], result[c])
        BY <1>1, <1>14, <2>2 DEF Places
      <4>3. QuietAllowed(c, "shard", obj[c], seen[c], result[c])
        BY <1>2 DEF QuietAllowed, Unbumped, HasObject, Versioned, Valued, Fetched
      <4> QED
        BY <4>1, <4>2, <4>3, QuietKeeps
    <3> QED
      BY <3>2, <3>3
  <2> QED
    BY <2>1, <2>3, <2>4, <2>5, <2>6 DEF SM!fetch
<1>16. SM!Missing(c) => MapInv'
  <2>1. SUFFICES ASSUME SM!Missing(c) PROVE MapInv'
    OBVIOUS
  <2> DEFINE rd == [SM!Nothing EXCEPT !.g = seen[c].g]
  <2>2. Quiet(c, "same global", obj[c], rd, result[c])
    BY <1>1, <2>1 DEF SM!Missing, SM!ReadOnly, SM!memory, SM!counts, SM!Goto, Quiet
  <2>3. rd \in Reading /\ rd.val = 0
    <3>1. seen[c].g \in Nat /\ 0 \in Nat /\ 0 \in 0..writes
      BY <1>1, <1>4 DEF Reading
    <3>2. rd = [g |-> seen[c].g, s |-> 0, was |-> 0, ver |-> 0, val |-> 0]
      BY DEF SM!Nothing
    <3> HIDE DEF rd
    <3> QED
      BY <3>1, <3>2 DEF Reading
  <2>4. "same global" \in Places
    BY DEF Places
  <2>5. UNCHANGED <<clock, shClock, fetches, entry, key>>
    BY <2>1 DEF SM!Missing, SM!ReadOnly, SM!memory, SM!counts
  <2>6. QuietTyped("same global", obj[c], rd, result[c])
    BY <1>1, <1>14, <2>3, <2>4, <2>5
  <2>7. Sound(rd)
    BY <2>3 DEF Sound
  <2>8. QuietAllowed(c, "same global", obj[c], rd, result[c])
    BY <1>2, <2>7 DEF QuietAllowed, Unbumped, HasObject, Versioned, Valued
  <2> QED
    BY <2>2, <2>6, <2>8, QuietKeeps
<1>17. SM!VersionedFetch(c) => MapInv'
  <2>1. SUFFICES ASSUME SM!VersionedFetch(c) PROVE MapInv'
    OBVIOUS
  <2>2. UNCHANGED <<clock, shClock, fetches, entry, key>> /\ UNCHANGED <<value, version, wrote, writes, mine>>
        /\ UNCHANGED <<obj, result>>
    BY <2>1 DEF SM!VersionedFetch, SM!ReadOnly, SM!memory, SM!counts
  <2>3. CASE pc[c] = "inner" /\ SM!Note(c, "ver", version[obj[c]]) /\ SM!Goto(c, "value")
    <3> DEFINE rd == [seen[c] EXCEPT !.ver = version[obj[c]]]
    <3>1. Quiet(c, "value", obj[c], rd, result[c])
      BY <1>1, <2>2, <2>3 DEF SM!Note, SM!Goto, Quiet
    <3>2. pc[c] \in HasObject
      BY <2>3 DEF HasObject
    <3>3. rd \in Reading /\ rd.ver = version[obj[c]]
      BY <1>1, <1>13, <3>2 DEF Reading
    <3>4. "value" \in Places
      BY DEF Places, HasObject
    <3>5. QuietTyped("value", obj[c], rd, result[c])
      BY <1>1, <1>14, <2>2, <3>3, <3>4
    <3>6. rd.ver <= version[obj[c]]
      BY <1>13, <3>2, <3>3
    <3>7. QuietAllowed(c, "value", obj[c], rd, result[c])
      BY <1>2, <1>13, <3>2, <3>6 DEF QuietAllowed, Unbumped, HasObject, Valued, Fetched
    <3> QED
      BY <3>1, <3>5, <3>7, QuietKeeps
  <2>4. CASE pc[c] = "value" /\ SM!Note(c, "val", value[obj[c]]) /\ SM!Goto(c, "same version")
    <3> DEFINE rd == [seen[c] EXCEPT !.val = value[obj[c]]]
    <3>1. Quiet(c, "same version", obj[c], rd, result[c])
      BY <1>1, <2>2, <2>4 DEF SM!Note, SM!Goto, Quiet
    <3>2. pc[c] \in HasObject /\ pc[c] \in Versioned
      BY <2>4 DEF HasObject, Versioned
    <3>3. Reached(value[obj[c]], obj[c]) /\ seen[c].ver <= version[obj[c]]
      BY <1>13, <3>2 DEF MapInv, ClockFirst
    <3>4. value[obj[c]] \in 0..writes
      BY <1>4, <3>3 DEF Reached, Numbers
    <3>5. rd \in Reading /\ rd.ver = seen[c].ver /\ rd.val = value[obj[c]]
      BY <1>1, <3>4 DEF Reading
    <3>6. "same version" \in Places
      BY DEF Places, HasObject
    <3>7. QuietTyped("same version", obj[c], rd, result[c])
      BY <1>1, <1>14, <2>2, <3>5, <3>6
    <3>8. rd.ver <= version[obj[c]] /\ Reached(rd.val, obj[c])
      BY <3>3, <3>5
    <3>9. QuietAllowed(c, "same version", obj[c], rd, result[c])
      BY <1>2, <1>13, <3>2, <3>8 DEF QuietAllowed, Unbumped, HasObject, Fetched
    <3> QED
      BY <3>1, <3>7, <3>9, QuietKeeps
  <2>5. ASSUME pc[c] = "same version", UNCHANGED seen,
               SM!Goto(c, IF ~SM!Same(c) THEN "inner"
                          ELSE IF seen[c].was = seen[c].ver THEN "same global" ELSE "shard")
        PROVE  MapInv'
    <3>1. pc[c] \in HasObject /\ pc[c] \in Valued
      BY <2>5 DEF HasObject, Valued
    <3>2. CASE ~SM!Same(c)
      <4>1. Quiet(c, "inner", obj[c], seen[c], result[c])
        BY <1>1, <2>2, <2>5, <3>2 DEF SM!Goto, Quiet
      <4>2. QuietTyped("inner", obj[c], seen[c], result[c])
        BY <1>1, <1>14, <2>2 DEF Places, HasObject
      <4>3. QuietAllowed(c, "inner", obj[c], seen[c], result[c])
        BY <1>2, <1>13, <3>1 DEF QuietAllowed, Unbumped, HasObject, Versioned, Valued, Fetched
      <4> QED
        BY <4>1, <4>2, <4>3, QuietKeeps
    <3>3. CASE SM!Same(c) /\ seen[c].was = seen[c].ver
      <4>1. Quiet(c, "same global", obj[c], seen[c], result[c])
        BY <1>1, <2>2, <2>5, <3>3 DEF SM!Goto, Quiet
      <4>2. QuietTyped("same global", obj[c], seen[c], result[c])
        BY <1>1, <1>14, <2>2 DEF Places
      <4>3. Reached(seen[c].val, obj[c]) /\ version[obj[c]] = seen[c].ver
        BY <3>1, <3>3 DEF MapInv, ClockFirst, SM!Same
      <4>4. Sound(seen[c])
        BY <4>3 DEF Sound, Reached
      <4>5. QuietAllowed(c, "same global", obj[c], seen[c], result[c])
        BY <1>2, <4>4 DEF QuietAllowed, Unbumped, HasObject, Versioned, Valued
      <4> QED
        BY <4>1, <4>2, <4>5, QuietKeeps
    <3>4. CASE SM!Same(c) /\ seen[c].was # seen[c].ver
      <4>1. Quiet(c, "shard", obj[c], seen[c], result[c])
        BY <1>1, <2>2, <2>5, <3>4 DEF SM!Goto, Quiet
      <4>2. QuietTyped("shard", obj[c], seen[c], result[c])
        BY <1>1, <1>14, <2>2 DEF Places
      <4>3. QuietAllowed(c, "shard", obj[c], seen[c], result[c])
        BY <1>2 DEF QuietAllowed, Unbumped, HasObject, Versioned, Valued, Fetched
      <4> QED
        BY <4>1, <4>2, <4>3, QuietKeeps
    <3> QED
      BY <3>2, <3>3, <3>4
  <2> QED
    BY <2>1, <2>3, <2>4, <2>5 DEF SM!VersionedFetch
<1>18. SM!FetchEnds(c) => MapInv'
  <2>1. SUFFICES ASSUME SM!FetchEnds(c) PROVE MapInv'
    OBVIOUS
  <2>2. UNCHANGED <<clock, shClock, fetches, entry, key>> /\ UNCHANGED <<value, version, wrote, writes, mine>>
        /\ UNCHANGED <<obj, seen>> /\ pc[c] \in Fetched
    BY <2>1 DEF SM!FetchEnds, SM!ReadOnly, SM!memory, SM!counts, Fetched
  <2>3. CASE SM!Goto(c, "idle") /\ result' = [result EXCEPT ![c] = seen[c]]
    <3>1. Quiet(c, "idle", obj[c], seen[c], seen[c])
      BY <1>1, <2>2, <2>3 DEF SM!Goto, Quiet
    <3>2. QuietTyped("idle", obj[c], seen[c], seen[c])
      BY <1>1, <1>14, <2>2 DEF Places
    <3>3. Sound(seen[c])
      BY <2>2 DEF MapInv, ClockFirst
    <3>4. QuietAllowed(c, "idle", obj[c], seen[c], seen[c])
      BY <3>3 DEF QuietAllowed, Unbumped, HasObject, Versioned, Valued, Fetched
    <3> QED
      BY <3>1, <3>2, <3>4, QuietKeeps
  <2>4. CASE SM!Goto(c, "global") /\ UNCHANGED result
    <3>1. Quiet(c, "global", obj[c], seen[c], result[c])
      BY <1>1, <2>2, <2>4 DEF SM!Goto, Quiet
    <3>2. QuietTyped("global", obj[c], seen[c], result[c])
      BY <1>1, <1>14, <2>2 DEF Places
    <3>3. QuietAllowed(c, "global", obj[c], seen[c], result[c])
      BY <1>2 DEF QuietAllowed, Unbumped, HasObject, Versioned, Valued, Fetched
    <3> QED
      BY <3>1, <3>2, <3>3, QuietKeeps
  <2> QED
    BY <2>1, <2>3, <2>4 DEF SM!FetchEnds
\* The steps that add a write or change an object.
<1>19. /\ value \in Seq(Nat) /\ version \in Seq(Nat) /\ wrote \in Seq(Nat)
       /\ Len(version) = Len(value) /\ Len(wrote) = writes
       /\ pc \in [Callers -> Places] /\ mine \in [Callers -> 0..writes]
       /\ seen \in [Callers -> Reading] /\ result \in [Callers -> Reading]
       /\ obj \in [Callers -> 0..Len(value)]
  BY <1>1 DEF MapTyped
<1>20. \A d \in Callers : pc[d] \in Unbumped => mine[d] \in 1..writes /\ wrote[mine[d]] = 0
  BY DEF MapInv, OwnWrites, Numbers
<1>21. pc[c] \in Unbumped => \A d \in Callers \ {c} : pc[d] \in Unbumped => mine[d] # mine[c]
  BY DEF MapInv, OwnWrites
<1>22. \A o \in 1..Len(value) : Reached(value[o], o) /\ o \in Objects
  BY DEF MapInv, ClockFirst, Objects
<1>23. SM!inc(c) => MapInv'
  <2>1. SUFFICES ASSUME SM!inc(c) PROVE MapInv'
    OBVIOUS
  <2>2. /\ writes' = writes + 1 /\ clock' = clock + 1 /\ wrote' = Append(wrote, 0)
        /\ UNCHANGED <<shClock, entry, value, version, fetches, obj, seen, result>>
    BY <2>1 DEF SM!inc
  <2> DEFINE Begins(m, l) == (m = 0 /\ l = "write delete") \/ (m = writes + 1 /\ l = "write set")
  <2>3. PICK m, l : mine' = [mine EXCEPT ![c] = m] /\ pc' = [pc EXCEPT ![c] = l] /\ Begins(m, l)
    <3>1. PICK deletes \in BOOLEAN : /\ mine' = [mine EXCEPT ![c] = IF deletes THEN 0 ELSE writes + 1]
                                    /\ pc' = [pc EXCEPT ![c] = IF deletes THEN "write delete" ELSE "write set"]
      BY <2>1 DEF SM!inc, SM!Goto
    <3>2. CASE deletes
      BY <3>1, <3>2
    <3>3. CASE ~deletes
      BY <3>1, <3>3
    <3> QED
      BY <3>2, <3>3
  <2>4. /\ wrote' \in Seq(Nat) /\ Len(wrote') = writes + 1 /\ wrote'[writes + 1] = 0
        /\ \A j \in 1..writes : wrote'[j] = wrote[j]
    BY <1>19, <2>2, Longer
  <2>5. MapTyped'
    <3>1. key' \in [Callers -> Keys]
      BY <1>3, <2>1 DEF SM!inc
    <3>2. 0..writes \subseteq 0..writes' /\ m \in 0..writes'
      <4>1. m = 0 \/ m = writes + 1
        BY <2>3
      <4> QED
        BY <1>4, <2>2, <4>1
    <3>3. mine' \in [Callers -> 0..writes']
      BY <1>19, <2>3, <3>2
    <3>4. l \in Places
      BY <2>3 DEF Places, Unbumped
    <3>5. pc' \in [Callers -> Places]
      BY <1>19, <2>3, <3>4
    <3>6. Reading \subseteq Reading'
      BY <3>2 DEF Reading
    <3>7. seen' \in [Callers -> Reading'] /\ result' \in [Callers -> Reading']
      BY <1>19, <2>2, <3>6
    <3> QED
      BY <1>1, <1>4, <2>2, <2>4, <3>1, <3>3, <3>5, <3>7 DEF MapTyped
  <2>6. Loud(c, l)
    BY <2>2, <2>3, <1>19 DEF Loud
  <2>7. Grown
    <3>1. \A o \in Objects : version[o] <= version'[o]
      BY <1>1, <2>2, MapSizes
    <3> QED
      BY <1>1, <1>4, <2>2, <2>4, <3>1 DEF Grown, Numbers
  <2>8. LoudAllowed(c, l)
    <3>1. mine'[c] = m
      BY <1>19, <2>3
    <3>2. l \in Unbumped => m = writes + 1
      BY <2>3 DEF Unbumped
    <3>3. l \in Unbumped => mine'[c] \in 1..writes' /\ wrote'[mine'[c]] = 0
      BY <1>4, <2>2, <2>4, <3>1, <3>2
    <3>4. l \in Unbumped => \A d \in Callers \ {c} : pc[d] \in Unbumped => mine[d] # mine'[c]
      BY <1>4, <1>20, <3>1, <3>2
    <3>5. \A d \in Callers \ {c} : pc[d] \in Unbumped => wrote'[mine[d]] = 0
      BY <1>20, <2>4
    <3>6. \A o \in 1..Len(value') :
            value'[o] # 0 => value'[o] \in 1..writes' /\ wrote'[value'[o]] \in 1..version'[o]
      BY <1>1, <1>22, <2>2, <2>5, <2>7, ReachedStays
    <3>7. l \notin HasObject /\ l # "put" /\ l \notin Versioned /\ l \notin Valued /\ l \notin Fetched
      BY <2>3 DEF HasObject, Versioned, Valued, Fetched
    <3> QED
      BY <2>7, <3>3, <3>4, <3>5, <3>6, <3>7 DEF LoudAllowed
  <2> QED
    BY <2>5, <2>6, <2>8, LoudKeeps
<1>24. SM!Version(c) => MapInv'
  <2>1. SUFFICES ASSUME SM!Version(c) PROVE MapInv'
    OBVIOUS
  <2>2. PICK m, n : m = mine[c] /\ n = Len(value)
    OBVIOUS
  <2>3. /\ value' = Append(value, m) /\ version' = Append(version, 1) /\ wrote' = [wrote EXCEPT ![m] = 1]
        /\ entry' = [entry EXCEPT ![key[c]] = n + 1] /\ pc' = [pc EXCEPT ![c] = "idle"]
        /\ UNCHANGED <<clock, shClock, writes, fetches, key, mine, obj, seen, result>>
    BY <2>1, <2>2 DEF SM!Version, SM!Goto, SM!counts, SM!Local
  <2>4. pc[c] \in Unbumped
    BY <2>1 DEF SM!Version, Unbumped
  <2>5. m \in 1..writes /\ m \in Nat /\ wrote[m] = 0 /\ n \in Nat
    BY <1>1, <1>4, <1>20, <2>2, <2>4
  <2>6. /\ value' \in Seq(Nat) /\ Len(value') = n + 1 /\ value'[n + 1] = m
        /\ \A j \in 1..n : value'[j] = value[j]
    BY <1>19, <2>2, <2>3, <2>5, Longer
  <2>7. /\ version' \in Seq(Nat) /\ Len(version') = n + 1 /\ version'[n + 1] = 1
        /\ \A j \in 1..n : version'[j] = version[j]
    BY <1>19, <2>2, <2>3, Longer
  <2>8. /\ wrote' \in Seq(Nat) /\ Len(wrote') = writes /\ wrote'[m] = 1
        /\ \A j \in 1..writes : j # m => wrote'[j] = wrote[j]
    BY <1>19, <2>3, <2>5, Replaced
  <2>9. MapTyped'
    <3>1. 0..n \subseteq 0..Len(value') /\ n + 1 \in 0..Len(value')
      BY <2>5, <2>6
    <3>2. entry' \in [Keys -> 0..Len(value')]
      BY <1>1, <1>6, <2>2, <2>3, <3>1
    <3>3. obj' \in [Callers -> 0..Len(value')]
      BY <1>19, <2>2, <2>3, <3>1
    <3>4. pc' \in [Callers -> Places]
      BY <1>19, <2>3 DEF Places
    <3>5. Reading' = Reading
      BY <2>3 DEF Reading
    <3> QED
      BY <1>1, <2>3, <2>6, <2>7, <2>8, <3>2, <3>3, <3>4, <3>5 DEF MapTyped
  <2>10. Loud(c, "idle")
    BY <2>3 DEF Loud
  <2>11. Grown
    <3>1. \A o \in Objects : version[o] <= version'[o]
      BY <1>1, <2>2, <2>7, MapSizes DEF Objects
    <3>2. \A j \in Numbers : wrote[j] # 0 => wrote'[j] = wrote[j]
      BY <2>5, <2>8 DEF Numbers
    <3>3. Len(value) <= Len(value') /\ writes <= writes'
      BY <1>4, <2>2, <2>3, <2>5, <2>6
    <3> QED
      BY <3>1, <3>2, <3>3 DEF Grown
  <2>12. LoudAllowed(c, "idle")
    <3>1. \A d \in Callers \ {c} : pc[d] \in Unbumped => wrote'[mine[d]] = 0
      BY <1>20, <1>21, <2>2, <2>4, <2>8
    <3>2. ASSUME NEW o \in 1..Len(value'), value'[o] # 0
          PROVE  value'[o] \in 1..writes' /\ wrote'[value'[o]] \in 1..version'[o]
      <4>1. CASE o = n + 1
        BY <2>3, <2>5, <2>6, <2>7, <2>8, <4>1
      <4>2. CASE o # n + 1
        <5>1. o \in 1..n
          BY <2>5, <2>6, <4>2
        <5>2. o \in Objects /\ Reached(value[o], o) /\ value'[o] = value[o]
          BY <1>22, <2>2, <2>6, <5>1
        <5> QED
          BY <1>1, <2>9, <2>11, <3>2, <5>2, ReachedStays
      <4> QED
        BY <4>1, <4>2
    <3> QED
      BY <2>11, <3>1, <3>2 DEF LoudAllowed, Unbumped, HasObject, Versioned, Valued, Fetched
  <2> QED
    BY <2>9, <2>10, <2>12, LoudKeeps
<1>25. SM!Bump(c) => MapInv'
  <2>1. SUFFICES ASSUME SM!Bump(c) PROVE MapInv'
    OBVIOUS
  <2>2. PICK m, o, v : m = mine[c] /\ o = obj[c] /\ v = version[o] + 1
    OBVIOUS
  <2>3. /\ version' = [version EXCEPT ![o] = v] /\ wrote' = [wrote EXCEPT ![m] = v]
        /\ pc' = [pc EXCEPT ![c] = "put"]
        /\ UNCHANGED <<clock, shClock, entry, value, writes, fetches, key, mine, obj, seen, result>>
    BY <2>1, <2>2 DEF SM!Bump, SM!At, SM!After, SM!Goto, SM!counts, SM!Local
  <2>4. pc[c] \in Unbumped /\ pc[c] \in HasObject
    BY <2>1 DEF SM!Bump, SM!At, Unbumped, HasObject
  <2>5. m \in 1..writes /\ wrote[m] = 0
    BY <1>20, <2>2, <2>4
  <2>6. o \in Objects /\ o \in 1..Len(value) /\ version[o] \in Nat /\ v \in Nat
    BY <1>13, <2>2, <2>4 DEF Objects
  <2>7. /\ version' \in Seq(Nat) /\ Len(version') = Len(value) /\ version'[o] = v
        /\ \A j \in 1..Len(value) : j # o => version'[j] = version[j]
    BY <1>19, <2>3, <2>6, Replaced
  <2>8. /\ wrote' \in Seq(Nat) /\ Len(wrote') = writes /\ wrote'[m] = v
        /\ \A j \in 1..writes : j # m => wrote'[j] = wrote[j]
    BY <1>19, <2>3, <2>5, <2>6, Replaced
  <2>9. MapTyped'
    <3>1. pc' \in [Callers -> Places]
      BY <1>19, <2>3 DEF Places, HasObject
    <3>2. Reading' = Reading
      BY <2>3 DEF Reading
    <3> QED
      BY <1>1, <2>3, <2>7, <2>8, <3>1, <3>2 DEF MapTyped
  <2>10. Loud(c, "put")
    BY <2>3 DEF Loud
  <2>11. Grown
    <3>1. ASSUME NEW i \in Objects PROVE version[i] <= version'[i]
      <4>1. i \in 1..Len(value) /\ version[i] \in Nat
        BY <1>1, MapSizes DEF Objects
      <4>2. CASE i = o
        <5>1. v = version[o] + 1
          BY <2>2
        <5>2. version'[i] = v
          BY <2>7, <4>2
        <5> QED
          BY <4>1, <4>2, <5>1, <5>2
      <4>3. CASE i # o
        <5>1. version'[i] = version[i]
          BY <2>7, <4>1, <4>3
        <5> QED
          BY <4>1, <5>1
      <4> QED
        BY <4>2, <4>3
    <3>2. Len(value) <= Len(value') /\ writes <= writes'
      BY <1>1, <1>4, <2>3
    <3>3. \A n \in Numbers : wrote[n] # 0 => wrote'[n] = wrote[n]
      BY <2>5, <2>8 DEF Numbers
    <3> QED
      BY <3>1, <3>2, <3>3 DEF Grown
  <2>12. LoudAllowed(c, "put")
    <3>1. \A d \in Callers \ {c} : pc[d] \in Unbumped => wrote'[mine[d]] = 0
      BY <1>20, <1>21, <2>2, <2>4, <2>8
    <3>2. \A i \in 1..Len(value') :
            value'[i] # 0 => value'[i] \in 1..writes' /\ wrote'[value'[i]] \in 1..version'[i]
      BY <1>1, <1>22, <2>3, <2>9, <2>11, ReachedStays
    <3>3. mine'[c] \in 1..writes' /\ wrote'[mine'[c]] \in 1..version'[obj[c]]
      BY <2>2, <2>3, <2>5, <2>6, <2>7, <2>8
    <3>4. obj[c] \in Objects
      BY <2>2, <2>6
    <3> QED
      BY <2>11, <3>1, <3>2, <3>3, <3>4 DEF LoudAllowed, Unbumped, HasObject, Versioned, Valued, Fetched
  <2> QED
    BY <2>9, <2>10, <2>12, LoudKeeps
<1>26. SM!Put(c) => MapInv'
  <2>1. SUFFICES ASSUME SM!Put(c) PROVE MapInv'
    OBVIOUS
  <2>2. PICK m, o : m = mine[c] /\ o = obj[c]
    OBVIOUS
  <2>3. /\ value' = [value EXCEPT ![o] = m] /\ pc' = [pc EXCEPT ![c] = "back"]
        /\ UNCHANGED <<clock, shClock, entry, version, wrote, writes, fetches, key, mine, obj, seen, result>>
    BY <2>1, <2>2 DEF SM!Put, SM!At, SM!After, SM!Goto, SM!counts, SM!Local
  <2>4. pc[c] = "put" /\ pc[c] \in HasObject
    BY <2>1 DEF SM!Put, SM!At, HasObject
  <2>5. o \in Objects /\ o \in 1..Len(value) /\ m \in Nat /\ Reached(m, o)
    BY <1>1, <1>13, <2>2, <2>4 DEF Objects, MapInv, ClockFirst
  <2>6. /\ value' \in Seq(Nat) /\ Len(value') = Len(value) /\ value'[o] = m
        /\ \A j \in 1..Len(value) : j # o => value'[j] = value[j]
    BY <1>19, <2>3, <2>5, Replaced
  <2>7. MapTyped'
    <3>1. pc' \in [Callers -> Places]
      BY <1>19, <2>3 DEF Places, HasObject
    <3>2. Reading' = Reading
      BY <2>3 DEF Reading
    <3> QED
      BY <1>1, <2>3, <2>6, <3>1, <3>2 DEF MapTyped
  <2>8. Loud(c, "back")
    BY <2>3 DEF Loud
  <2>9. Grown
    <3>1. \A i \in Objects : version[i] <= version'[i]
      <4>1. \A i \in Objects : version[i] \in Nat
        BY <1>1, MapSizes
      <4>2. version' = version
        BY <2>3
      <4> QED
        BY <4>1, <4>2
    <3>2. writes' = writes /\ wrote' = wrote /\ writes <= writes' /\ Len(value) <= Len(value')
      BY <1>1, <1>4, <2>3, <2>6
    <3> QED
      BY <3>1, <3>2 DEF Grown
  <2>10. LoudAllowed(c, "back")
    <3>1. \A i \in 1..Len(value) : Reached(value'[i], i) /\ i \in Objects
      BY <1>22, <2>5, <2>6
    <3>2. \A i \in 1..Len(value') :
            value'[i] # 0 => value'[i] \in 1..writes' /\ wrote'[value'[i]] \in 1..version'[i]
      BY <1>1, <2>6, <2>7, <2>9, <3>1, ReachedStays
    <3>3. \A d \in Callers \ {c} : pc[d] \in Unbumped => wrote'[mine[d]] = 0
      BY <1>20, <2>3
    <3> QED
      BY <2>2, <2>5, <2>9, <3>2, <3>3 DEF LoudAllowed, Unbumped, HasObject, Versioned, Valued, Fetched
  <2> QED
    BY <2>7, <2>8, <2>10, LoudKeeps
<1> QED
  BY <1>8, <1>9, <1>10, <1>11, <1>12, <1>15, <1>16, <1>17, <1>18, <1>23, <1>24, <1>25, <1>26 DEF SM!Going

LEMMA MapStutter == ASSUME MapInv, UNCHANGED SM!vars PROVE MapInv'
<1>1. /\ UNCHANGED <<clock, shClock, entry, value, version, wrote, writes, fetches>>
      /\ UNCHANGED <<pc, key, mine, obj, seen, result>>
  BY DEF SM!vars, SM!memory, SM!counts
<1>2. MapTyped'
  BY <1>1 DEF MapInv, MapTyped, Reading
<1>3. OwnWrites'
  BY <1>1 DEF MapInv, OwnWrites, Numbers
<1>4. ClockFirst'
  BY <1>1 DEF MapInv, ClockFirst, Objects, Reached, Sound, Numbers
<1> QED
  BY <1>2, <1>3, <1>4 DEF MapInv

LEMMA MapNeverAhead == ASSUME MapInv PROVE SM!NeverAhead
<1>1. ASSUME NEW c \in Callers, result[c].val # 0 PROVE wrote[result[c].val] <= result[c].ver
  <2>1. Sound(result[c]) /\ result[c] \in Reading
    BY DEF MapInv, ClockFirst, MapTyped
  <2>2. result[c].ver \in Nat
    BY <2>1 DEF Reading
  <2>3. wrote[result[c].val] \in 1..result[c].ver
    BY <1>1, <2>1 DEF Sound
  <2> QED
    BY <2>2, <2>3
<1> QED
  BY <1>1 DEF SM!NeverAhead

----------------------------------------------------------------------------
(* The wrappers of fnx                                                     *)

LimitedOperation == kind.exec = "operation limit"
LaunchedOperation == kind.exec = "operation launch"
Named == kind.exec \in {"once", "limit", "ttl", "lock", "cancel", "group", "launch", "signal"}

\* Only a once makes an answer of a panic, and every launch wrapper has an answer.
KindAllowed(k) == k.returns \in BOOLEAN /\ (k.recovers => k.exec = "once") /\ (k.exec = "launch" => k.returns)

LEMMA KindsAllowed == ASSUME NEW k \in SC!Kinds PROVE KindAllowed(k)
<1>1. \A e : KindAllowed(SC!Plain(e))
  BY DEF KindAllowed, SC!Plain, SC!Wrapper
<1>2. \A e : e # "launch" => KindAllowed(SC!Silent(e))
  BY DEF KindAllowed, SC!Silent, SC!Wrapper
<1>3. KindAllowed(SC!FutureOnce)
  BY DEF KindAllowed, SC!FutureOnce, SC!Wrapper
<1>4. "once" # "launch" /\ "operation limit" # "launch" /\ "ttl" # "launch" /\ "lock" # "launch"
      /\ "cancel" # "launch" /\ "group" # "launch" /\ "operation launch" # "launch"
  OBVIOUS
<1> QED
  BY <1>1, <1>2, <1>3, <1>4
  DEF SC!Kinds, SC!WorkerOnce, SC!OperationOnce, SC!HandlerOnce, SC!WorkerLimit, SC!HandlerLimit,
      SC!FutureLimit, SC!OperationLimit, SC!WorkerTTL, SC!OperationTTL, SC!HandlerTTL, SC!FutureTTL,
      SC!WorkerLock, SC!OperationLock, SC!HandlerLock, SC!FutureLock, SC!ConverterLock,
      SC!WorkerCancel, SC!OperationCancel, SC!HandlerCancel, SC!FutureCancel, SC!WorkerGroup,
      SC!OperationGroup, SC!WorkerLaunch, SC!OperationLaunch, SC!MakeSignal

LEMMA KindsDiffer == /\ LimitedOperation => ~Named /\ ~LaunchedOperation
                     /\ LaunchedOperation => ~Named
  BY DEF LimitedOperation, LaunchedOperation, Named

\* A kind's steps are those of its own actions.
LEMMA NextByKind ==
  ASSUME SC!Next
  PROVE  /\ kind.exec = "once" => \E p \in Callers : SC!Call(p) \/ SC!OnceCall(p) \/ SC!OnceEnd(p)
         /\ kind.exec = "limit" =>
              \E p \in Callers : \/ SC!Call(p) \/ SC!LimitFast(p) \/ SC!LimitRead(p) \/ SC!LimitLocked(p)
                                 \/ SC!LimitEnd(p) \/ SC!LimitCount(p)
         /\ LimitedOperation =>
              \E p \in Callers : SC!Call(p) \/ SC!OpLimitLoad(p) \/ SC!OpLimitSwap(p) \/ SC!FreeEnd(p)
         /\ kind.exec = "ttl" =>
              SC!Tick \/ \E p \in Callers : SC!Call(p) \/ SC!TTLRead(p) \/ SC!TTLLocked(p) \/ SC!TTLEnd(p)
         /\ kind.exec = "lock" => \E p \in Callers : SC!Call(p) \/ SC!WithLock(p) \/ SC!LockEnd(p)
         /\ kind.exec = "cancel" =>
              SC!Cancel \/ \E p \in Callers : SC!Call(p) \/ SC!CancelCall(p) \/ SC!FreeEnd(p)
         /\ kind.exec = "group" =>
              \/ SC!StartGroup \/ \E i \in 1..Limit : SC!Pushed(i) \/ SC!Left(i)
              \/ \E p \in Callers : SC!Call(p) \/ SC!Expire(p) \/ SC!GroupWait(p)
         /\ kind.exec = "launch" =>
              \/ SC!Launch \/ SC!SignalRan \/ SC!SignalDropped
              \/ \E p \in Callers : SC!Call(p) \/ SC!Expire(p) \/ SC!LaunchWait(p)
         /\ LaunchedOperation =>
              SC!Launch \/ SC!OperationSignal \/ \E p \in Callers : SC!Call(p) \/ SC!OperationWait(p)
         /\ kind.exec = "signal" =>
              SC!SignalClose \/ \E p \in Callers : SC!Call(p) \/ SC!Expire(p) \/ SC!SignalWait(p)
<1> DEFINE e == kind.exec
<1>1. \A p \in Callers :
        /\ SC!OnceCall(p) \/ SC!OnceEnd(p) => e = "once"
        /\ SC!LimitFast(p) \/ SC!LimitRead(p) \/ SC!LimitLocked(p) \/ SC!LimitEnd(p) \/ SC!LimitCount(p) => e = "limit"
        /\ SC!TTLRead(p) \/ SC!TTLLocked(p) \/ SC!TTLEnd(p) => e = "ttl"
        /\ SC!WithLock(p) \/ SC!LockEnd(p) => e = "lock"
        /\ SC!CancelCall(p) => e = "cancel"
        /\ SC!GroupWait(p) => e = "group"
        /\ SC!LaunchWait(p) => e = "launch"
        /\ SC!SignalWait(p) => e = "signal"
        /\ SC!Expire(p) => e \in {"group", "launch", "signal"}
  BY DEF SC!exec, SC!OnceCall, SC!OnceEnd, SC!LimitFast, SC!LimitRead, SC!LimitLocked, SC!LimitEnd,
         SC!LimitCount, SC!TTLRead, SC!TTLLocked, SC!TTLEnd, SC!WithLock, SC!LockEnd, SC!CancelCall,
         SC!GroupWait, SC!LaunchWait, SC!SignalWait, SC!Expire
<1>2. \A p \in Callers :
        /\ SC!OpLimitLoad(p) \/ SC!OpLimitSwap(p) => LimitedOperation
        /\ SC!FreeEnd(p) => LimitedOperation \/ e = "cancel"
        /\ SC!OperationWait(p) => LaunchedOperation
  BY DEF SC!exec, SC!OpLimitLoad, SC!OpLimitSwap, SC!FreeEnd, SC!OperationWait, LimitedOperation, LaunchedOperation
<1>3. /\ SC!StartGroup => e = "group"
      /\ \A i \in 1..Limit : SC!Pushed(i) \/ SC!Left(i) => e = "group"
      /\ SC!SignalRan \/ SC!SignalDropped => e = "launch"
      /\ SC!SignalClose => e = "signal"
      /\ SC!Tick => e = "ttl"
      /\ SC!Cancel => e = "cancel"
  BY DEF SC!exec, SC!StartGroup, SC!Pushed, SC!Left, SC!SignalRan, SC!SignalDropped, SC!SignalClose, SC!Tick, SC!Cancel
<1>4. /\ SC!Launch => e = "launch" \/ LaunchedOperation
      /\ SC!OperationSignal => LaunchedOperation
  BY DEF SC!exec, SC!Launch, SC!OperationSignal, LaunchedOperation
<1>5. \/ e = "once" /\ ~LimitedOperation /\ ~LaunchedOperation
      \/ e = "limit" /\ ~LimitedOperation /\ ~LaunchedOperation
      \/ e = "ttl" /\ ~LimitedOperation /\ ~LaunchedOperation
      \/ e = "lock" /\ ~LimitedOperation /\ ~LaunchedOperation
      \/ e = "cancel" /\ ~LimitedOperation /\ ~LaunchedOperation
      \/ e = "group" /\ ~LimitedOperation /\ ~LaunchedOperation
      \/ e = "launch" /\ ~LimitedOperation /\ ~LaunchedOperation
      \/ e = "signal" /\ ~LimitedOperation /\ ~LaunchedOperation
      \/ ~Named
  BY KindsDiffer DEF Named
<1>6. ~Named => /\ e # "once" /\ e # "limit" /\ e # "ttl" /\ e # "lock" /\ e # "cancel" /\ e # "group"
                /\ e # "launch" /\ e # "signal" /\ e \notin {"group", "launch", "signal"}
  BY DEF Named
<1>7. \/ SC!StartGroup \/ (\E i \in 1..Limit : SC!Pushed(i) \/ SC!Left(i)) \/ SC!Launch \/ SC!SignalRan
      \/ SC!SignalDropped \/ SC!OperationSignal \/ SC!SignalClose \/ SC!Cancel \/ SC!Tick
      \/ \E p \in Callers :
           \/ SC!Call(p) \/ SC!Expire(p)
           \/ SC!OnceCall(p) \/ SC!OnceEnd(p)
           \/ SC!LimitFast(p) \/ SC!LimitRead(p) \/ SC!LimitLocked(p) \/ SC!LimitEnd(p) \/ SC!LimitCount(p)
           \/ SC!OpLimitLoad(p) \/ SC!OpLimitSwap(p) \/ SC!FreeEnd(p)
           \/ SC!TTLRead(p) \/ SC!TTLLocked(p) \/ SC!TTLEnd(p)
           \/ SC!WithLock(p) \/ SC!LockEnd(p) \/ SC!CancelCall(p) \/ SC!GroupWait(p)
           \/ SC!LaunchWait(p) \/ SC!OperationWait(p) \/ SC!SignalWait(p)
  BY DEF SC!Next, SC!Task, SC!Step
<1> HIDE DEF e
<1> QED
  BY <1>1, <1>2, <1>3, <1>4, <1>5, <1>6, <1>7, KindsDiffer DEF e

Waits == {"idle", "called", "read", "lock", "count", "swap", "wait"}
Placed == pc \in [Callers -> Waits \cup {"run"}]

\* A step begins a run, ends a run, or does neither.
NoneBegins ==
  /\ UNCHANGED <<at, begun, ended, panicked>>
  /\ pc' = pc \/ \E p \in Callers, l \in Waits : pc[p] # "run" /\ pc' = [pc EXCEPT ![p] = l]
OneBegins(p) ==
  /\ pc[p] # "run" /\ pc' = [pc EXCEPT ![p] = "run"] /\ at' = [at EXCEPT ![p] = Len(begun) + 1]
  /\ begun' = Append(begun, now) /\ ended' = Append(ended, 0) /\ panicked' = panicked
OneEnds(p) ==
  /\ pc[p] = "run" /\ \E l \in Waits : pc' = [pc EXCEPT ![p] = l]
  /\ ended' = [ended EXCEPT ![at[p]] = now] /\ UNCHANGED <<at, begun>>
  /\ panicked' = panicked \/ (panicked = {} /\ panicked' = {at[p]})
Shape == kind' = kind /\ (NoneBegins \/ \E p \in Callers : OneBegins(p) \/ OneEnds(p))

LEMMA StepShape == ASSUME SC!Next PROVE Shape
<1> USE DEF Shape, Waits, SC!Goto, SC!Answers, SC!Begins, SC!Runs, SC!Rest, SC!runs, SC!shared
<1>1. ASSUME NEW p \in Callers, SC!Call(p) \/ SC!Expire(p) PROVE Shape
  BY <1>1 DEF SC!Call, SC!Expire, NoneBegins
<1>2. ASSUME NEW p \in Callers, SC!OnceCall(p) \/ SC!LimitLocked(p) PROVE Shape
  BY <1>2 DEF SC!OnceCall, SC!LimitLocked, NoneBegins, OneBegins
<1>3. ASSUME NEW p \in Callers, SC!TTLLocked(p) \/ SC!OpLimitSwap(p) \/ SC!WithLock(p) PROVE Shape
  BY <1>3 DEF SC!TTLLocked, SC!OpLimitSwap, SC!WithLock, NoneBegins, OneBegins
<1>4. ASSUME NEW p \in Callers, SC!CancelCall(p) PROVE Shape
  BY <1>4 DEF SC!CancelCall, NoneBegins, OneBegins
<1>5. ASSUME NEW p \in Callers, SC!LimitFast(p) \/ SC!LimitRead(p) \/ SC!LimitCount(p) \/ SC!OpLimitLoad(p) PROVE Shape
  BY <1>5 DEF SC!LimitFast, SC!LimitRead, SC!LimitCount, SC!OpLimitLoad, NoneBegins
<1>6. ASSUME NEW p \in Callers, SC!TTLRead(p) \/ SC!GroupWait(p) \/ SC!LaunchWait(p) \/ SC!OperationWait(p) PROVE Shape
  BY <1>6 DEF SC!TTLRead, SC!GroupWait, SC!LaunchWait, SC!OperationWait, NoneBegins
<1>7. ASSUME NEW p \in Callers, SC!SignalWait(p) PROVE Shape
  BY <1>7 DEF SC!SignalWait, NoneBegins
<1>8. ASSUME NEW p \in Callers, NEW f \in BOOLEAN, NEW l \in Waits,
             pc[p] = "run", SC!Ends(p, f), SC!Goto(p, l), UNCHANGED <<kind, at, begun>>
      PROVE  Shape
  <2>1. panicked' = panicked \/ (panicked = {} /\ panicked' = {at[p]})
    BY <1>8 DEF SC!Ends
  <2>2. OneEnds(p)
    BY <1>8, <2>1 DEF SC!Ends, OneEnds
  <2> QED
    BY <1>8, <2>2
<1>9. "idle" \in Waits /\ "count" \in Waits /\ TRUE \in BOOLEAN /\ FALSE \in BOOLEAN
  OBVIOUS
<1>10. ASSUME NEW p \in Callers, SC!OnceEnd(p) \/ SC!FreeEnd(p) \/ SC!LockEnd(p) PROVE Shape
  <2>1. /\ pc[p] = "run" /\ UNCHANGED <<kind, at, begun>>
        /\ \E f \in BOOLEAN : SC!Ends(p, f) /\ SC!Goto(p, "idle")
    BY <1>10 DEF SC!OnceEnd, SC!FreeEnd, SC!LockEnd
  <2> QED
    BY <1>8, <1>9, <2>1
<1>11. ASSUME NEW p \in Callers, SC!LimitEnd(p) \/ SC!TTLEnd(p) PROVE Shape
  <2>1. /\ pc[p] = "run" /\ UNCHANGED <<kind, at, begun>>
        /\ \E f \in BOOLEAN : SC!Ends(p, f) /\ \E l \in {"idle", "count"} : SC!Goto(p, l)
    BY <1>11 DEF SC!LimitEnd, SC!TTLEnd
  <2> QED
    BY <1>8, <1>9, <2>1
<1>12. CASE SC!StartGroup \/ SC!Launch \/ SC!SignalRan \/ SC!SignalDropped \/ SC!OperationSignal
  BY <1>12 DEF SC!StartGroup, SC!Launch, SC!SignalRan, SC!SignalDropped, SC!OperationSignal, NoneBegins
<1>13. CASE SC!SignalClose \/ SC!Tick \/ SC!Cancel
  BY <1>13 DEF SC!SignalClose, SC!Tick, SC!Cancel, NoneBegins
<1>14. ASSUME NEW i \in 1..Limit, SC!Pushed(i) \/ SC!Left(i) PROVE Shape
  BY <1>14 DEF SC!Pushed, SC!Left, NoneBegins
<1> QED
  BY <1>1, <1>2, <1>3, <1>4, <1>5, <1>6, <1>7, <1>8, <1>9, <1>10, <1>11, <1>12, <1>13, <1>14
  DEF SC!Next, SC!Task, SC!Step

RunsTyped ==
  /\ at \in [Callers -> Nat] /\ begun \in Seq(Nat) /\ ended \in Seq(Nat) /\ Len(ended) = Len(begun)
  /\ panicked \subseteq 1..Len(begun)
  /\ \A p \in Callers : pc[p] = "run" => at[p] \in 1..Len(begun)
RestTyped ==
  /\ kind \in SC!Kinds /\ seen \in [Callers -> Nat] /\ answer \in [Callers -> Int]
  /\ mtx \in Callers \cup {0} /\ counter \in Nat /\ lastAt \in Nat
  /\ now \in Nat \ {0}
  /\ output \in Nat \cup {-1} /\ (output = -1 => kind.exec = "signal")
CallsTyped == Placed /\ RunsTyped /\ RestTyped

LEMMA CallsTypedInit == ASSUME SC!Init PROVE CallsTyped
<1>1. Placed
  BY DEF SC!Init, Placed, Waits
<1>2. RunsTyped
  <2>1. Len(begun) = 0 /\ Len(ended) = 0
    BY DEF SC!Init
  <2> QED
    BY <2>1 DEF SC!Init, RunsTyped
<1>3. RestTyped
  BY DEF SC!Init, SC!Free, RestTyped
<1> QED
  BY <1>1, <1>2, <1>3 DEF CallsTyped

\* The number of runs, and the runs after one has begun or ended.
LEMMA RunsCount == ASSUME RunsTyped PROVE Len(begun) \in Nat
  BY LenProperties DEF RunsTyped

LEMMA RunsBegin ==
  ASSUME RunsTyped, Placed, now \in Nat, NEW p \in Callers, OneBegins(p)
  PROVE  /\ Len(begun') = Len(begun) + 1 /\ Len(ended') = Len(begun) + 1
         /\ begun' \in Seq(Nat) /\ ended' \in Seq(Nat)
         /\ begun'[Len(begun) + 1] = now /\ ended'[Len(begun) + 1] = 0
         /\ \A i \in 1..Len(begun) : begun'[i] = begun[i] /\ ended'[i] = ended[i]
         /\ at' \in [Callers -> Nat] /\ at'[p] = Len(begun) + 1 /\ pc'[p] = "run"
         /\ \A q \in Callers : q # p => at'[q] = at[q] /\ pc'[q] = pc[q]
<1>1. PICK n : n = Len(begun)
  OBVIOUS
<1>2. begun \in Seq(Nat) /\ ended \in Seq(Nat) /\ Len(ended) = n /\ n \in Nat /\ 0 \in Nat
  BY <1>1, RunsCount DEF RunsTyped
<1>3. /\ Append(begun, now) \in Seq(Nat) /\ Len(Append(begun, now)) = n + 1
      /\ Append(begun, now)[n + 1] = now /\ \A i \in 1..n : Append(begun, now)[i] = begun[i]
  BY <1>1, <1>2, Longer
<1>4. /\ Append(ended, 0) \in Seq(Nat) /\ Len(Append(ended, 0)) = n + 1
      /\ Append(ended, 0)[n + 1] = 0 /\ \A i \in 1..n : Append(ended, 0)[i] = ended[i]
  BY <1>2, Longer
<1>5. begun' = Append(begun, now) /\ ended' = Append(ended, 0) /\ at' = [at EXCEPT ![p] = n + 1]
      /\ pc' = [pc EXCEPT ![p] = "run"]
  BY <1>1 DEF OneBegins
<1>6. at' \in [Callers -> Nat] /\ at'[p] = n + 1 /\ \A q \in Callers : q # p => at'[q] = at[q]
  BY <1>2, <1>5 DEF RunsTyped
<1>7. pc'[p] = "run" /\ \A q \in Callers : q # p => pc'[q] = pc[q]
  BY <1>5 DEF Placed
<1> QED
  BY <1>1, <1>3, <1>4, <1>5, <1>6, <1>7

LEMMA RunsEnd ==
  ASSUME RunsTyped, Placed, now \in Nat, NEW p \in Callers, OneEnds(p)
  PROVE  /\ ended' \in Seq(Nat) /\ Len(ended') = Len(begun) /\ ended'[at[p]] = now
         /\ \A i \in 1..Len(begun) : i # at[p] => ended'[i] = ended[i]
         /\ at[p] \in 1..Len(begun) /\ panicked' \subseteq panicked \cup {at[p]}
         /\ pc'[p] \in Waits /\ pc'[p] # "run"
         /\ \A q \in Callers : q # p => pc'[q] = pc[q]
<1>1. PICK n, i : n = Len(begun) /\ i = at[p]
  OBVIOUS
<1>2. ended \in Seq(Nat) /\ Len(ended) = n /\ n \in Nat /\ i \in 1..n
  BY <1>1, RunsCount DEF RunsTyped, OneEnds
<1>3. /\ [ended EXCEPT ![i] = now] \in Seq(Nat) /\ Len([ended EXCEPT ![i] = now]) = n
      /\ [ended EXCEPT ![i] = now][i] = now
      /\ \A j \in 1..n : j # i => [ended EXCEPT ![i] = now][j] = ended[j]
  BY <1>2, Replaced
<1>4. ended' = [ended EXCEPT ![i] = now]
  BY <1>1 DEF OneEnds
<1>5. panicked' \subseteq panicked \cup {i}
  BY <1>1 DEF OneEnds
<1>6. pc'[p] \in Waits /\ \A q \in Callers : q # p => pc'[q] = pc[q]
  BY DEF OneEnds, Placed
<1>7. pc'[p] # "run"
  BY <1>6 DEF Waits
<1> QED
  BY <1>1, <1>2, <1>3, <1>4, <1>5, <1>6, <1>7

LEMMA PlacedNext == ASSUME Placed, RunsTyped, now \in Nat, Shape PROVE Placed' /\ RunsTyped'
<1>1. Placed'
  BY DEF Placed, Shape, NoneBegins, OneBegins, OneEnds
<1>2. CASE NoneBegins
  <2>1. \A p \in Callers : pc'[p] = "run" => pc[p] = "run"
    BY <1>2 DEF NoneBegins, Placed, Waits
  <2> QED
    BY <1>1, <1>2, <2>1 DEF NoneBegins, RunsTyped
<1>3. ASSUME NEW p \in Callers, OneBegins(p) PROVE RunsTyped'
  <2>1. PICK n : n = Len(begun)
    OBVIOUS
  <2>2. /\ Len(begun') = n + 1 /\ Len(ended') = n + 1 /\ begun' \in Seq(Nat) /\ ended' \in Seq(Nat)
        /\ at' \in [Callers -> Nat] /\ at'[p] = n + 1
        /\ \A q \in Callers : q # p => at'[q] = at[q] /\ pc'[q] = pc[q]
    BY <1>3, <2>1, RunsBegin
  <2>3. n \in Nat
    BY <2>1, RunsCount
  <2>4. panicked' = panicked /\ panicked \subseteq 1..n /\ \A q \in Callers : pc[q] = "run" => at[q] \in 1..n
    BY <1>3, <2>1 DEF OneBegins, RunsTyped
  <2>5. 1..n \subseteq 1..(n + 1) /\ n + 1 \in 1..(n + 1)
    BY <2>3
  <2>6. \A q \in Callers : pc'[q] = "run" => at'[q] \in 1..(n + 1)
    BY <2>2, <2>4, <2>5
  <2>7. panicked' \subseteq 1..(n + 1)
    BY <2>4, <2>5
  <2> QED
    BY <2>2, <2>6, <2>7 DEF RunsTyped
<1>4. ASSUME NEW p \in Callers, OneEnds(p) PROVE RunsTyped'
  <2>1. /\ ended' \in Seq(Nat) /\ Len(ended') = Len(begun)
        /\ at[p] \in 1..Len(begun) /\ panicked' \subseteq panicked \cup {at[p]}
        /\ pc'[p] # "run" /\ \A q \in Callers : q # p => pc'[q] = pc[q]
    BY <1>4, RunsEnd
  <2>2. UNCHANGED <<at, begun>>
    BY <1>4 DEF OneEnds
  <2>3. panicked' \subseteq 1..Len(begun)
    BY <2>1 DEF RunsTyped
  <2>4. \A q \in Callers : pc'[q] = "run" => at[q] \in 1..Len(begun)
    BY <2>1 DEF RunsTyped
  <2> QED
    BY <2>1, <2>2, <2>3, <2>4 DEF RunsTyped
<1> QED
  BY <1>1, <1>2, <1>3, <1>4 DEF Shape

\* What a step may do to what the runs leave alone.
Moves ==
  /\ mtx' \in Callers \cup {mtx, 0} /\ now' \in {now, now + 1} /\ lastAt' \in {lastAt, now}
  /\ counter' \in Nat
  /\ output' \in Nat \cup {-1} /\ (output' = -1 => kind.exec = "signal")
  /\ seen' = seen \/ \E p \in Callers : seen' = [seen EXCEPT ![p] = counter]
  /\ answer' = answer \/ \E p \in Callers : \E a \in Int : answer' = [answer EXCEPT ![p] = a]

LEMMA MovesTyped == ASSUME RestTyped, kind' = kind, Moves PROVE RestTyped'
<1>1. seen' \in [Callers -> Nat]
  BY DEF RestTyped, Moves
<1>2. answer' \in [Callers -> Int]
  BY DEF RestTyped, Moves
<1>3. mtx' \in Callers \cup {0} /\ lastAt' \in Nat /\ now' \in Nat \ {0}
  BY DEF RestTyped, Moves
<1>4. kind' \in SC!Kinds /\ counter' \in Nat /\ output' \in Nat \cup {-1} /\ (output' = -1 => kind'.exec = "signal")
  BY DEF RestTyped, Moves
<1> QED
  BY <1>1, <1>2, <1>3, <1>4 DEF RestTyped

LEMMA CallsMove == ASSUME CallsTyped, SC!Next PROVE Moves
<1>1. /\ counter \in Nat /\ output \in Nat \cup {-1} /\ (output = -1 => kind.exec = "signal") /\ Limit \in Nat
      /\ counter + 1 \in Nat /\ now \in Nat /\ lastAt \in Nat
  BY SharedAssumption DEF CallsTyped, RestTyped
<1>2. \A p \in Callers : pc[p] = "run" => at[p] \in Nat /\ at[p] # -1
  BY DEF CallsTyped, RunsTyped
<1>3. \A p \in Callers : seen[p] \in Nat /\ seen[p] + 1 \in Nat
  BY DEF CallsTyped, RestTyped
\* An answer is typed.
<1>4. ASSUME NEW p \in Callers, NEW a \in Int, SC!Answers(p, a)
      PROVE  \E q \in Callers : \E b \in Int : answer' = [answer EXCEPT ![q] = b]
  <2>1. PICK b : b = IF a > 0 /\ ~kind.returns THEN 0 ELSE a
    OBVIOUS
  <2>2. b \in Int
    BY <2>1
  <2> QED
    BY <1>4, <2>1, <2>2 DEF SC!Answers
<1>5. output \in Int /\ SC!Panic \in Int /\ SC!Expiry \in Int /\ 0 \in Int /\ 1 \in Int
  BY <1>1 DEF SC!Panic, SC!Expiry
<1>6. \A p \in Callers : pc[p] = "run" =>
        at[p] \in Int /\ \A f \in BOOLEAN : (IF f THEN SC!Panic ELSE at[p]) \in Int
  BY <1>2 DEF SC!Panic
<1> USE DEF SC!Rest, SC!runs, SC!shared, SC!Free, SC!exec
<1>7. ASSUME NEW p \in Callers, SC!Call(p) \/ SC!Expire(p) PROVE Moves
  BY <1>1, <1>7 DEF SC!Call, SC!Expire, Moves
<1>8. ASSUME NEW p \in Callers, SC!OnceCall(p) PROVE Moves
  <2>1. answer' = answer \/ SC!Answers(p, output)
    BY <1>8 DEF SC!OnceCall
  <2> QED
    BY <1>1, <1>4, <1>5, <1>8, <2>1 DEF SC!OnceCall, Moves
<1>9. ASSUME NEW p \in Callers, SC!OnceEnd(p) PROVE Moves
  <2>1. PICK lost \in BOOLEAN : output' = (IF lost THEN 0 ELSE at[p]) /\ SC!Answers(p, IF lost THEN SC!Panic ELSE at[p])
    <3>1. PICK f \in BOOLEAN : /\ output' = (IF f /\ ~kind.recovers THEN 0 ELSE at[p])
                               /\ SC!Answers(p, IF f /\ ~kind.recovers THEN SC!Panic ELSE at[p])
      BY <1>9 DEF SC!OnceEnd
    <3>2. (f /\ ~kind.recovers) \in BOOLEAN
      OBVIOUS
    <3> QED
      BY <3>1, <3>2
  <2>2. pc[p] = "run"
    BY <1>9 DEF SC!OnceEnd
  <2>3. output' \in Nat
    <3>1. CASE lost
      BY <2>1, <3>1
    <3>2. CASE ~lost
      BY <1>2, <2>1, <2>2, <3>2
    <3> QED
      BY <3>1, <3>2
  <2>4. output' # -1
    BY <2>3
  <2>5. \E q \in Callers : \E b \in Int : answer' = [answer EXCEPT ![q] = b]
    BY <1>4, <1>6, <2>1, <2>2
  <2> QED
    BY <1>1, <1>9, <2>3, <2>4, <2>5 DEF SC!OnceEnd, Moves
<1>10. ASSUME NEW p \in Callers, SC!LimitFast(p) \/ SC!LimitRead(p) \/ SC!LimitLocked(p) PROVE Moves
  <2>1. answer' = answer \/ SC!Answers(p, output)
    BY <1>10 DEF SC!LimitFast, SC!LimitRead, SC!LimitLocked
  <2> QED
    BY <1>1, <1>4, <1>5, <1>10, <2>1 DEF SC!LimitFast, SC!LimitRead, SC!LimitLocked, Moves
<1>11. ASSUME NEW p \in Callers, SC!LimitEnd(p) PROVE Moves
  <2>1. answer' = answer \/ SC!Answers(p, SC!Panic)
    BY <1>11 DEF SC!LimitEnd
  <2>2. output' \in {output, at[p]} /\ pc[p] = "run"
    BY <1>11 DEF SC!LimitEnd
  <2> QED
    BY <1>1, <1>2, <1>4, <1>5, <1>11, <2>1, <2>2 DEF SC!LimitEnd, Moves
<1>12. ASSUME NEW p \in Callers, SC!LimitCount(p) PROVE Moves
  <2>1. SC!Answers(p, output)
    BY <1>12 DEF SC!LimitCount
  <2> QED
    BY <1>1, <1>4, <1>5, <1>12, <2>1 DEF SC!LimitCount, Moves
<1>13. ASSUME NEW p \in Callers, SC!OpLimitLoad(p) PROVE Moves
  <2>1. answer' = answer \/ SC!Answers(p, 0)
    BY <1>13 DEF SC!OpLimitLoad
  <2>2. seen' = seen \/ \E q \in Callers : seen' = [seen EXCEPT ![q] = counter]
    BY <1>13 DEF SC!OpLimitLoad
  <2>3. UNCHANGED <<mtx, now, lastAt, counter, output>>
    BY <1>13 DEF SC!OpLimitLoad
  <2> QED
    BY <1>1, <1>4, <1>5, <2>1, <2>2, <2>3 DEF Moves
<1>14. ASSUME NEW p \in Callers, SC!OpLimitSwap(p) PROVE Moves
  <2>1. counter' \in {counter, seen[p] + 1} /\ UNCHANGED <<seen, answer, mtx, output, lastAt, now>>
    BY <1>14 DEF SC!OpLimitSwap
  <2> QED
    BY <1>1, <1>3, <2>1 DEF Moves
<1>15. ASSUME NEW p \in Callers, SC!FreeEnd(p) \/ SC!LockEnd(p) PROVE Moves
  <2>1. /\ pc[p] = "run" /\ mtx' \in {mtx, 0} /\ UNCHANGED <<seen, counter, output, lastAt, now>>
        /\ \E f \in BOOLEAN : SC!Answers(p, IF f THEN SC!Panic ELSE at[p])
    BY <1>15 DEF SC!FreeEnd, SC!LockEnd
  <2> QED
    BY <1>1, <1>4, <1>6, <2>1 DEF Moves
<1>16. ASSUME NEW p \in Callers, SC!TTLRead(p) \/ SC!TTLLocked(p) \/ SC!WithLock(p) PROVE Moves
  <2>1. answer' = answer \/ SC!Answers(p, output)
    BY <1>16 DEF SC!TTLRead, SC!TTLLocked, SC!WithLock
  <2> QED
    BY <1>1, <1>4, <1>5, <1>16, <2>1 DEF SC!TTLRead, SC!TTLLocked, SC!WithLock, Moves
<1>17. ASSUME NEW p \in Callers, SC!TTLEnd(p) PROVE Moves
  <2>1. /\ pc[p] = "run" /\ output' \in {output, at[p]} /\ (SC!Answers(p, at[p]) \/ SC!Answers(p, SC!Panic))
    BY <1>17 DEF SC!TTLEnd
  <2> QED
    BY <1>1, <1>2, <1>4, <1>5, <1>6, <1>17, <2>1 DEF SC!TTLEnd, Moves
<1>18. ASSUME NEW p \in Callers, SC!CancelCall(p) PROVE Moves
  <2>1. answer' = answer \/ SC!Answers(p, SC!Panic)
    BY <1>18 DEF SC!CancelCall
  <2> QED
    BY <1>1, <1>4, <1>5, <1>18, <2>1 DEF SC!CancelCall, Moves
<1>19. ASSUME NEW p \in Callers, SC!GroupWait(p) \/ SC!OperationWait(p) PROVE Moves
  <2>1. SC!Answers(p, output) \/ SC!Answers(p, 0)
    BY <1>19 DEF SC!GroupWait, SC!OperationWait
  <2>2. UNCHANGED <<seen, mtx, output, counter, lastAt, now>>
    BY <1>19 DEF SC!GroupWait, SC!OperationWait
  <2> QED
    BY <1>1, <1>4, <1>5, <2>1, <2>2 DEF Moves
<1>20. ASSUME NEW p \in Callers, SC!LaunchWait(p) PROVE Moves
  <2>1. SC!Answers(p, SC!Expiry) \/ SC!Answers(p, 1) \/ SC!Answers(p, 0)
    BY <1>20 DEF SC!LaunchWait
  <2>2. output' \in {output, 1} /\ UNCHANGED <<seen, mtx, counter, lastAt, now>>
    BY <1>20 DEF SC!LaunchWait
  <2> QED
    BY <1>1, <1>4, <1>5, <2>1, <2>2 DEF Moves
<1>21. ASSUME NEW p \in Callers, SC!SignalWait(p) PROVE Moves
  <2>1. output' \in {output, -1, 0}
    BY <1>21 DEF SC!SignalWait, SC!Expiry
  <2>2. answer' = answer \/ SC!Answers(p, output) \/ SC!Answers(p, output')
    BY <1>21 DEF SC!SignalWait
  <2>3. kind.exec = "signal" /\ UNCHANGED <<seen, mtx, counter, lastAt, now>>
    BY <1>21 DEF SC!SignalWait
  <2>4. output' \in Int
    BY <1>5, <2>1
  <2> QED
    BY <1>1, <1>4, <1>5, <2>1, <2>2, <2>3, <2>4 DEF Moves
<1>22. CASE SC!StartGroup \/ SC!Launch \/ SC!SignalRan \/ SC!SignalDropped \/ SC!OperationSignal
  <2>1. UNCHANGED <<seen, answer, mtx, output, counter, lastAt, now>>
    BY <1>22 DEF SC!StartGroup, SC!Launch, SC!SignalRan, SC!SignalDropped, SC!OperationSignal
  <2> QED
    BY <1>1, <2>1 DEF Moves
<1>23. CASE SC!SignalClose \/ SC!Tick \/ SC!Cancel
  BY <1>1, <1>23 DEF SC!SignalClose, SC!Tick, SC!Cancel, Moves
<1>24. ASSUME NEW i \in 1..Limit, SC!Pushed(i) \/ SC!Left(i) PROVE Moves
  <2>1. output' \in {output, output + 1} /\ kind.exec = "group" /\ UNCHANGED <<seen, answer, mtx, counter, lastAt, now>>
    BY <1>24 DEF SC!Pushed, SC!Left
  <2> QED
    BY <1>1, <2>1 DEF Moves
<1> QED
  BY <1>7, <1>8, <1>9, <1>10, <1>11, <1>12, <1>13, <1>14, <1>15, <1>16, <1>17, <1>18, <1>19, <1>20,
     <1>21, <1>22, <1>23, <1>24
  DEF SC!Next, SC!Task, SC!Step

LEMMA CallsTypedNext == ASSUME CallsTyped, SC!Next PROVE CallsTyped' /\ kind' = kind
<1>1. Shape
  BY StepShape
<1>2. Placed' /\ RunsTyped'
  BY <1>1, PlacedNext DEF CallsTyped, RestTyped
<1>3. kind' = kind
  BY <1>1 DEF Shape
<1>4. RestTyped'
  BY <1>3, CallsMove, MovesTyped DEF CallsTyped
<1> QED
  BY <1>2, <1>3, <1>4 DEF CallsTyped

\* The runs that have an answer, of n, with the ends e, of which pn panicked; and the last.
Good(n, e, pn, recovers) == {i \in 1..n : e[i] # 0 /\ (i \notin pn \/ recovers)}
IsLatest(x, S) == (x = 0 /\ S = {}) \/ (x \in S /\ \A j \in S : j <= x)
Answered == Good(Len(begun), ended, panicked, kind.recovers)

LEMMA LatestIs ==
  ASSUME RunsTyped', NEW x, IsLatest(x, Answered')
  PROVE  x = SC!LastGood' /\ x \in Nat
<1> DEFINE A == Answered'
<1>1. A \subseteq Nat /\ 0 \notin A
  <2>1. Len(begun') \in Nat
    BY LenProperties DEF RunsTyped
  <2> QED
    BY <2>1 DEF Answered, Good
<1>2. SC!LastGood' = IF A = {} THEN 0 ELSE CHOOSE i \in A : \A j \in A : j <= i
  BY DEF SC!LastGood, SC!Runs, Answered, Good
<1>3. IsLatest(x, A)
  OBVIOUS
<1> HIDE DEF A
<1>4. CASE A = {}
  BY <1>2, <1>3, <1>4 DEF IsLatest
<1>5. CASE A # {}
  <2>1. x \in A /\ \A j \in A : j <= x
    BY <1>1, <1>3, <1>5 DEF IsLatest
  <2>2. \A i \in A : (\A j \in A : j <= i) => i = x
    BY <1>1, <2>1
  <2>3. (CHOOSE i \in A : \A j \in A : j <= i) = x
    BY <2>1, <2>2
  <2> QED
    BY <1>1, <1>2, <1>5, <2>1, <2>3
<1> QED
  BY <1>4, <1>5

\* The answer a call has, and that it is a panic's only if it was given one.
LEMMA AnswerIs ==
  ASSUME CallsTyped, NEW p \in Callers, NEW a \in Int, SC!Answers(p, a)
  PROVE  /\ kind.returns \/ a <= 0 => answer'[p] = a
         /\ answer'[p] = -2 => a = -2
<1>1. answer'[p] = IF a > 0 /\ ~kind.returns THEN 0 ELSE a
  BY DEF CallsTyped, RestTyped, SC!Answers
<1> QED
  BY <1>1

\* A run that begins has no answer yet, one that ends well is the last to have one, and
\* one that panics, unless that is recovered, changes nothing.
LEMMA GoodBegins ==
  ASSUME CallsTyped, NEW p \in Callers, OneBegins(p), kind' = kind
  PROVE  Answered' = Answered
<1>1. PICK n : n = Len(begun)
  OBVIOUS
<1>2. n \in Nat
  BY <1>1, RunsCount DEF CallsTyped
<1>3. /\ Len(begun') = n + 1 /\ ended'[n + 1] = 0 /\ \A i \in 1..n : ended'[i] = ended[i]
  BY <1>1, RunsBegin DEF CallsTyped, RestTyped
<1>4. panicked' = panicked
  BY DEF OneBegins
<1>5. \A i : i \in 1..(n + 1) <=> (i \in 1..n \/ i = n + 1)
  BY <1>2
<1>6. n + 1 \notin 1..n
  BY <1>2
<1>7. \A i : i \in Answered' <=> i \in Answered
  BY <1>1, <1>3, <1>4, <1>5, <1>6 DEF Answered, Good
<1> QED
  BY <1>7 DEF Answered, Good

LEMMA GoodEnds ==
  ASSUME CallsTyped, NEW p \in Callers, OneEnds(p), kind' = kind
  PROVE  /\ at[p] \notin panicked' \/ kind.recovers => Answered' = Answered \cup {at[p]}
         /\ at[p] \in panicked' /\ ~kind.recovers /\ ended[at[p]] = 0 => Answered' = Answered
<1>1. PICK n, m : n = Len(begun) /\ m = at[p]
  OBVIOUS
<1>2. n \in Nat /\ m \in 1..n /\ now # 0
  BY <1>1, RunsCount, RunsEnd DEF CallsTyped, RestTyped
<1>3. Len(begun') = n /\ ended'[m] = now /\ \A i \in 1..n : i # m => ended'[i] = ended[i]
  BY <1>1, RunsEnd DEF CallsTyped, RestTyped, OneEnds
<1>4. \A i \in 1..n : i # m => (i \in panicked' <=> i \in panicked)
  BY <1>1 DEF OneEnds
<1>5. ASSUME m \notin panicked' \/ kind.recovers PROVE Answered' = Answered \cup {m}
  <2>1. \A i : i \in Answered' <=> i \in Answered \/ i = m
    BY <1>1, <1>2, <1>3, <1>4, <1>5 DEF Answered, Good
  <2> QED
    BY <2>1
<1>6. ASSUME m \in panicked', ~kind.recovers, ended[m] = 0 PROVE Answered' = Answered
  <2>1. \A i : i \in Answered' <=> i \in Answered
    BY <1>1, <1>2, <1>3, <1>4, <1>6 DEF Answered, Good
  <2> QED
    BY <2>1 DEF Answered, Good
<1> QED
  BY <1>1, <1>5, <1>6

LEMMA GoodStays ==
  ASSUME UNCHANGED <<kind, begun, ended, panicked>> PROVE Answered' = Answered
  BY DEF Answered

\* Who runs the function, or counts its run, holds the mutex, and runs the last run.
Holding == {"run", "count"}
Holder ==
  /\ \A p \in Callers : pc[p] \in Holding <=> mtx = p
  /\ \A p \in Callers : pc[p] = "run" => at[p] = Len(begun) /\ ended[at[p]] = 0 /\ at[p] \notin panicked

LEMMA HolderWaits ==
  ASSUME CallsTyped, Holder, NEW p \in Callers, NEW l, l \notin Holding, pc[p] \notin Holding,
         pc' = [pc EXCEPT ![p] = l], UNCHANGED <<mtx, at, begun, ended, panicked>>
  PROVE  Holder'
<1>1. pc'[p] = l /\ \A q \in Callers : q # p => pc'[q] = pc[q]
  BY DEF CallsTyped, Placed
<1>2. "run" \in Holding
  BY DEF Holding
<1> QED
  BY <1>1, <1>2 DEF Holder

LEMMA HolderBegins ==
  ASSUME CallsTyped, Holder, NEW p \in Callers, mtx = 0, mtx' = p, OneBegins(p)
  PROVE  Holder'
<1>1. PICK n : n = Len(begun)
  OBVIOUS
<1>2. n \in Nat /\ panicked \subseteq 1..n
  BY <1>1, RunsCount DEF CallsTyped, RunsTyped
<1>3. /\ Len(begun') = n + 1 /\ ended'[n + 1] = 0 /\ at'[p] = n + 1 /\ pc'[p] = "run"
      /\ \A q \in Callers : q # p => at'[q] = at[q] /\ pc'[q] = pc[q]
  BY <1>1, RunsBegin DEF CallsTyped, RestTyped
<1>4. panicked' = panicked /\ n + 1 \notin panicked
  BY <1>2 DEF OneBegins
<1>5. \A q \in Callers : pc[q] \notin Holding
  BY SharedAssumption DEF Holder
<1>6. "run" \in Holding
  BY DEF Holding
<1>7. \A q \in Callers : pc'[q] \in Holding <=> mtx' = q
  BY <1>3, <1>5, <1>6
<1>8. \A q \in Callers : pc'[q] = "run" => q = p
  BY <1>3, <1>5, <1>6
<1> QED
  BY <1>3, <1>4, <1>7, <1>8 DEF Holder

LEMMA HolderEnds ==
  ASSUME CallsTyped, Holder, NEW p \in Callers, OneEnds(p),
         (pc'[p] = "count" /\ mtx' = mtx) \/ (pc'[p] = "idle" /\ mtx' = 0)
  PROVE  Holder'
<1>1. pc'[p] # "run" /\ \A q \in Callers : q # p => pc'[q] = pc[q]
  BY RunsEnd DEF CallsTyped, RestTyped
<1>2. pc[p] \in Holding /\ mtx = p
  BY DEF OneEnds, Holding, Holder
<1>3. \A q \in Callers : q # p => pc[q] \notin Holding
  BY <1>2 DEF Holder
<1>4. "run" \in Holding /\ "count" \in Holding /\ "idle" \notin Holding
  BY DEF Holding
<1>5. \A q \in Callers : pc'[q] # "run"
  BY <1>1, <1>3, <1>4
<1>6. \A q \in Callers : pc'[q] \in Holding <=> mtx' = q
  BY <1>1, <1>2, <1>3, <1>4, SharedAssumption
<1> QED
  BY <1>5, <1>6 DEF Holder

LEMMA HolderCounts ==
  ASSUME CallsTyped, Holder, NEW p \in Callers, pc[p] = "count", pc' = [pc EXCEPT ![p] = "idle"], mtx' = 0
  PROVE  Holder'
<1>1. pc'[p] = "idle" /\ \A q \in Callers : q # p => pc'[q] = pc[q]
  BY DEF CallsTyped, Placed
<1>2. "run" \in Holding /\ "count" \in Holding /\ "idle" \notin Holding
  BY DEF Holding
<1>3. \A q \in Callers : q # p => pc[q] \notin Holding
  BY <1>2 DEF Holder
<1>4. \A q \in Callers : pc'[q] \notin Holding
  BY <1>1, <1>2, <1>3
<1> QED
  BY <1>2, <1>4, SharedAssumption DEF Holder

LEMMA HolderOnly == ASSUME Holder PROVE Cardinality(SC!Running) <= 1
<1>1. \A p \in SC!Running : p \in Callers /\ mtx = p
  BY DEF SC!Running, Holder, Holding
<1>2. SC!Running \subseteq {mtx}
  BY <1>1
<1> QED
  BY <1>2, AtMostOne

----------------------------------------------------------------------------
(* Once                                                                    *)

OnceCalls ==
  /\ once \in {"new", "running", "done"}
  /\ Len(begun) <= 1 /\ (once = "new" => Len(begun) = 0)
  /\ once # "done" => panicked = {}
  /\ \A p \in Callers : pc[p] = "run" => once = "running" /\ at[p] = 1 /\ ended[1] = 0
  /\ \A p, q \in Callers : pc[p] = "run" /\ pc[q] = "run" => p = q
  /\ once = "done" => IsLatest(output, Answered)

LEMMA OnceCallBegins ==
  ASSUME CallsTyped, OnceCalls, kind.exec = "once", NEW p \in Callers, SC!OnceCall(p), once = "new"
  PROVE  OneBegins(p) /\ once' = "running" /\ kind' = kind
  BY DEF SC!OnceCall, SC!Begins, SC!Goto, SC!Runs, SC!Rest, OneBegins

LEMMA OnceRunEnds ==
  ASSUME CallsTyped, OnceCalls, kind.exec = "once", NEW p \in Callers, SC!OnceEnd(p)
  PROVE  /\ OneEnds(p) /\ kind' = kind /\ once' = "done" /\ at[p] = 1 /\ Answered = {}
         /\ \/ /\ at[p] \in panicked' /\ ~kind.recovers /\ Answered' = Answered
               /\ output' = 0 /\ SC!Answers(p, SC!Panic)
            \/ /\ Answered' = {at[p]} /\ output' = at[p] /\ SC!Answers(p, at[p])
<1>1. PICK f \in BOOLEAN : /\ SC!Ends(p, f) /\ output' = (IF f /\ ~kind.recovers THEN 0 ELSE at[p])
                           /\ SC!Answers(p, IF f /\ ~kind.recovers THEN SC!Panic ELSE at[p])
  BY DEF SC!OnceEnd
<1>2. pc[p] = "run" /\ once' = "done" /\ UNCHANGED <<kind, at, begun>>
  BY DEF SC!OnceEnd, SC!Rest
<1>3. panicked = {} /\ at[p] = 1 /\ ended[1] = 0 /\ Len(begun) <= 1
  BY <1>2 DEF OnceCalls
<1>4. panicked' = IF f THEN {at[p]} ELSE {}
  BY <1>1, <1>3 DEF SC!Ends
<1>5. panicked' = panicked \/ (panicked = {} /\ panicked' = {at[p]})
  BY <1>3, <1>4
<1>6. "idle" \in Waits
  BY DEF Waits
<1>7. OneEnds(p)
  BY <1>1, <1>2, <1>5, <1>6 DEF SC!Ends, SC!Answers, SC!Goto, OneEnds
<1>8. Answered = {}
  <2>1. \A i \in 1..Len(begun) : i = 1
    BY <1>3, RunsCount DEF CallsTyped
  <2> QED
    BY <1>3, <2>1 DEF Answered, Good
<1>9. CASE f /\ ~kind.recovers
  <2>1. at[p] \in panicked' /\ Answered' = Answered
    BY <1>2, <1>3, <1>4, <1>7, <1>9, GoodEnds
  <2> QED
    BY <1>1, <1>2, <1>3, <1>7, <1>8, <1>9, <2>1
<1>10. CASE ~(f /\ ~kind.recovers)
  <2>1. at[p] \notin panicked' \/ kind.recovers
    BY <1>4, <1>10
  <2>2. Answered' = {at[p]}
    BY <1>2, <1>7, <1>8, <2>1, GoodEnds
  <2> QED
    BY <1>1, <1>2, <1>3, <1>7, <1>8, <1>10, <2>2
<1> QED
  BY <1>9, <1>10

LEMMA OnceCallsNext == ASSUME CallsTyped, OnceCalls, kind.exec = "once", SC!Next PROVE OnceCalls'
<1>1. PICK p \in Callers : SC!Call(p) \/ SC!OnceCall(p) \/ SC!OnceEnd(p)
  BY NextByKind
<1>2. CASE SC!Call(p) \/ (SC!OnceCall(p) /\ once # "new")
  <2>1. \E l \in Waits : pc' = [pc EXCEPT ![p] = l]
    BY <1>2 DEF SC!Call, SC!OnceCall, SC!Answers, SC!Goto, Waits
  <2>2. \A q \in Callers : pc'[q] = "run" => pc[q] = "run"
    BY <2>1 DEF CallsTyped, Placed, Waits
  <2>3. UNCHANGED <<kind, begun, ended, panicked, at, once, output>>
    BY <1>2 DEF SC!Call, SC!OnceCall, SC!Rest, SC!runs, SC!shared
  <2>4. Answered' = Answered
    BY <2>3, GoodStays
  <2> QED
    BY <2>2, <2>3, <2>4 DEF OnceCalls
<1>3. CASE SC!OnceCall(p) /\ once = "new"
  <2>1. OneBegins(p) /\ once' = "running"
    BY <1>3, OnceCallBegins
  <2>2. Len(begun) = 0 /\ panicked' = {} /\ \A q \in Callers : pc[q] # "run"
    BY <1>3, <2>1 DEF OnceCalls, OneBegins
  <2>3. /\ Len(begun') = 1 /\ ended'[1] = 0 /\ at'[p] = 1 /\ pc'[p] = "run"
        /\ \A q \in Callers : q # p => pc'[q] = pc[q]
    <3>1. now \in Nat /\ 0 + 1 = 1
      BY DEF CallsTyped, RestTyped
    <3> QED
      BY <2>1, <2>2, <3>1, RunsBegin DEF CallsTyped
  <2> QED
    BY <2>1, <2>2, <2>3 DEF OnceCalls
<1>4. CASE SC!OnceEnd(p)
  <2>1. /\ OneEnds(p) /\ once' = "done" /\ at[p] = 1
        /\ (output' = 0 /\ Answered' = {}) \/ (output' = at[p] /\ Answered' = {at[p]})
    BY <1>4, OnceRunEnds
  <2>2. pc[p] = "run" /\ Len(begun') = Len(begun)
    BY <2>1 DEF OneEnds
  <2>3. \A q \in Callers : pc'[q] # "run"
    <3>1. pc'[p] # "run" /\ \A q \in Callers : q # p => pc'[q] = pc[q]
      BY <2>1, RunsEnd DEF CallsTyped, RestTyped
    <3> QED
      BY <2>2, <3>1 DEF OnceCalls
  <2>4. IsLatest(output', Answered')
    BY <2>1 DEF IsLatest
  <2>5. Len(begun') <= 1
    BY <2>2 DEF OnceCalls
  <2> QED
    BY <2>1, <2>3, <2>4, <2>5 DEF OnceCalls
<1> QED
  BY <1>1, <1>2, <1>3, <1>4

LEMMA OnceAnswers ==
  ASSUME CallsTyped, CallsTyped', OnceCalls, kind.exec = "once", NEW p \in Callers,
         SC!OnceCall(p) \/ SC!OnceEnd(p), pc'[p] = "idle"
  PROVE  SC!AnswerIsOfRun(p)
<1>1. SC!Panic = -2
  BY DEF SC!Panic
<1>2. SUFFICES /\ kind.returns => answer'[p] = -2 \/ answer'[p] = SC!LastGood'
               /\ answer'[p] = -2 => at[p] \in panicked' /\ ~kind.recovers
  BY <1>1 DEF SC!AnswerIsOfRun, SC!exec
<1>3. CASE SC!OnceCall(p)
  <2>1. CASE once = "new"
    <3>1. pc'[p] = "run"
      BY <1>3, <2>1, OnceCallBegins DEF OneBegins, CallsTyped, Placed
    <3> QED
      BY <3>1
  <2>2. CASE once # "new"
    <3>1. SC!Answers(p, output) /\ once = "done" /\ UNCHANGED <<kind, begun, ended, panicked, output>>
      BY <1>3, <2>2 DEF SC!OnceCall, SC!Rest
    <3>2. IsLatest(output, Answered')
      BY <3>1, GoodStays DEF OnceCalls
    <3>3. output = SC!LastGood' /\ output \in Nat
      BY <3>2, LatestIs DEF CallsTyped
    <3>4. output \in Int /\ output # -2
      BY <3>3
    <3> QED
      BY <3>1, <3>3, <3>4, AnswerIs
  <2> QED
    BY <2>1, <2>2
<1>4. CASE SC!OnceEnd(p)
  <2>1. /\ at[p] = 1 /\ Answered = {}
        /\ \/ at[p] \in panicked' /\ ~kind.recovers /\ SC!Answers(p, SC!Panic)
           \/ Answered' = {at[p]} /\ SC!Answers(p, at[p])
    BY <1>4, OnceRunEnds
  <2>2. CASE at[p] \in panicked' /\ ~kind.recovers /\ SC!Answers(p, SC!Panic)
    <3>1. -2 \in Int /\ -2 <= 0
      OBVIOUS
    <3> QED
      BY <1>1, <2>2, <3>1, AnswerIs
  <2>3. CASE Answered' = {at[p]} /\ SC!Answers(p, at[p])
    <3>1. IsLatest(1, Answered')
      BY <2>1, <2>3 DEF IsLatest
    <3>2. SC!LastGood' = 1
      BY <3>1, LatestIs DEF CallsTyped
    <3>3. 1 \in Int /\ 1 # -2
      OBVIOUS
    <3> QED
      BY <2>1, <2>3, <3>2, <3>3, AnswerIs
  <2> QED
    BY <2>1, <2>2, <2>3
<1> QED
  BY <1>3, <1>4

----------------------------------------------------------------------------
(* Limit                                                                   *)

Counted == (1..Len(begun)) \ panicked
LimitCalls ==
  /\ Holder
  /\ Cardinality(Counted) = counter + (IF mtx = 0 THEN 0 ELSE 1)
  /\ counter <= Limit /\ (mtx # 0 => counter < Limit)
  /\ IsLatest(output, Answered)
  /\ counter > 0 => output # 0
  /\ \A p \in Callers : pc[p] = "read" => counter = Limit
  /\ \A p \in Callers : pc[p] = "count" => output # 0

\* The runs to count, when a run begins and when it panics.
LEMMA CountBegins ==
  ASSUME CallsTyped, NEW p \in Callers, OneBegins(p)
  PROVE  Cardinality(Counted') = Cardinality(Counted) + 1
<1>1. PICK n : n = Len(begun)
  OBVIOUS
<1>2. n \in Nat /\ panicked \subseteq 1..n
  BY <1>1, RunsCount DEF CallsTyped, RunsTyped
<1>3. Len(begun') = n + 1 /\ panicked' = panicked
  BY <1>1, RunsBegin DEF CallsTyped, RestTyped, OneBegins
<1>4. n + 1 \notin 1..n /\ 1..(n + 1) = (1..n) \cup {n + 1}
  BY <1>2
<1>5. Counted' = Counted \cup {n + 1} /\ n + 1 \notin Counted
  BY <1>1, <1>2, <1>3, <1>4 DEF Counted
<1>6. IsFiniteSet(Counted)
  <2>1. n \in Int /\ 1 \in Int
    BY <1>2
  <2>2. IsFiniteSet(1..n)
    BY <2>1, FS_Interval
  <2>3. Counted \subseteq 1..n
    BY <1>1 DEF Counted
  <2> QED
    BY <2>2, <2>3, FS_Subset
<1> QED
  BY <1>5, <1>6, FS_AddElement

LEMMA CountPanics ==
  ASSUME CallsTyped, NEW p \in Callers, OneEnds(p), panicked = {}, panicked' = {at[p]}
  PROVE  Cardinality(Counted') = Cardinality(Counted) - 1
<1>1. Counted = 1..Len(begun) /\ at[p] \in Counted /\ Counted' = Counted \ {at[p]}
  BY RunsEnd DEF CallsTyped, RestTyped, Counted, OneEnds
<1>2. IsFiniteSet(Counted)
  <2>1. Len(begun) \in Int /\ 1 \in Int
    BY RunsCount DEF CallsTyped
  <2>2. IsFiniteSet(1..Len(begun))
    BY <2>1, FS_Interval
  <2> QED
    BY <1>1, <2>2
<1> QED
  BY <1>1, <1>2, FS_RemoveElement

LEMMA CountStays == ASSUME UNCHANGED <<begun, panicked>> PROVE Counted' = Counted
  BY DEF Counted

\* The steps of Limit: a caller that waits, a run that begins, ends well or panics, and the
\* counter that moves.
LEMMA LimitSteps ==
  ASSUME CallsTyped, LimitCalls, kind.exec = "limit", NEW p \in Callers,
         \/ SC!Call(p) \/ SC!LimitFast(p) \/ SC!LimitRead(p) \/ SC!LimitLocked(p)
         \/ SC!LimitEnd(p) \/ SC!LimitCount(p)
  PROVE  /\ kind' = kind
         /\ \/ /\ UNCHANGED <<mtx, at, begun, ended, panicked, counter, output>>
               /\ pc[p] \notin Holding
               /\ \E l : /\ l \notin Holding /\ pc' = [pc EXCEPT ![p] = l]
                         /\ l = "read" => counter = Limit
                         /\ l = "idle" => counter = Limit /\ SC!Answers(p, output)
            \/ /\ OneBegins(p) /\ mtx = 0 /\ mtx' = p /\ counter < Limit /\ UNCHANGED <<counter, output>>
            \/ /\ OneEnds(p) /\ panicked' = panicked /\ mtx' = mtx /\ counter' = counter
               /\ pc' = [pc EXCEPT ![p] = "count"] /\ output' = at[p]
            \/ /\ OneEnds(p) /\ panicked = {} /\ panicked' = {at[p]} /\ mtx' = 0
               /\ UNCHANGED <<counter, output>> /\ pc' = [pc EXCEPT ![p] = "idle"] /\ SC!Answers(p, SC!Panic)
            \/ /\ pc[p] = "count" /\ pc' = [pc EXCEPT ![p] = "idle"] /\ mtx' = 0 /\ counter' = counter + 1
               /\ UNCHANGED <<at, begun, ended, panicked, output>> /\ SC!Answers(p, output)
<1> USE DEF SC!Rest, SC!runs, SC!shared, SC!Free, SC!Goto
<1>1. counter \in Nat /\ Limit \in Nat /\ counter <= Limit
  BY SharedAssumption DEF CallsTyped, RestTyped, LimitCalls
<1>2. CASE SC!Call(p)
  <2>1. "called" \notin Holding /\ "idle" \notin Holding /\ "called" # "read" /\ "called" # "idle"
    BY DEF Holding
  <2>2. pc[p] = "idle" /\ pc' = [pc EXCEPT ![p] = "called"] /\ kind' = kind
        /\ UNCHANGED <<mtx, at, begun, ended, panicked, counter, output>>
    BY <1>2 DEF SC!Call
  <2> QED
    BY <2>1, <2>2
<1>3. CASE SC!LimitFast(p)
  <2>1. PICK l : l = IF counter = Limit THEN "read" ELSE "lock"
    OBVIOUS
  <2>2. l \notin Holding /\ (l = "read" => counter = Limit) /\ l # "idle" /\ "called" \notin Holding
    BY <2>1 DEF Holding
  <2>3. pc[p] = "called" /\ pc' = [pc EXCEPT ![p] = l] /\ kind' = kind
        /\ UNCHANGED <<mtx, at, begun, ended, panicked, counter, output>>
    BY <1>3, <2>1 DEF SC!LimitFast
  <2>4. pc[p] \notin Holding
    BY <2>2, <2>3
  <2>5. \E m : /\ m \notin Holding /\ pc' = [pc EXCEPT ![p] = m]
               /\ m = "read" => counter = Limit
               /\ m = "idle" => counter = Limit /\ SC!Answers(p, output)
    BY <2>2, <2>3
  <2> QED
    BY <2>3, <2>4, <2>5
<1>4. CASE SC!LimitRead(p)
  <2>1. "idle" \notin Holding /\ "read" \notin Holding /\ "idle" # "read"
    BY DEF Holding
  <2>2. pc[p] = "read" /\ pc' = [pc EXCEPT ![p] = "idle"] /\ SC!Answers(p, output) /\ kind' = kind
        /\ UNCHANGED <<mtx, at, begun, ended, panicked, counter, output>>
    BY <1>4 DEF SC!LimitRead, SC!Answers
  <2>3. counter = Limit
    BY <2>2 DEF LimitCalls
  <2> QED
    BY <2>1, <2>2, <2>3
<1>5. CASE SC!LimitLocked(p)
  BY <1>5 DEF SC!LimitLocked, Holding, SC!Begins, OneBegins, SC!Runs, SC!Answers
<1>6. CASE SC!LimitEnd(p)
  <2>1. CASE SC!Ends(p, FALSE) /\ output' = at[p] /\ SC!Goto(p, "count") /\ UNCHANGED <<answer, mtx>>
    BY <1>6, <2>1 DEF SC!LimitEnd, SC!Ends, OneEnds, Waits
  <2>2. CASE SC!Ends(p, TRUE) /\ mtx' = 0 /\ SC!Answers(p, SC!Panic) /\ UNCHANGED output
    BY <1>6, <2>2 DEF SC!LimitEnd, SC!Ends, SC!Answers, OneEnds, Waits
  <2> QED
    BY <1>6, <2>1, <2>2 DEF SC!LimitEnd
<1>7. CASE SC!LimitCount(p)
  <2>1. pc[p] \in Holding /\ mtx = p
    BY <1>7 DEF SC!LimitCount, Holding, LimitCalls, Holder
  <2>2. counter < Limit
    BY <2>1, SharedAssumption DEF LimitCalls
  <2>3. counter' = counter + 1
    BY <1>1, <1>7, <2>2 DEF SC!LimitCount
  <2> QED
    BY <1>7, <2>3 DEF SC!LimitCount, SC!Answers
<1> QED
  BY <1>2, <1>3, <1>4, <1>5, <1>6, <1>7

LEMMA LimitCallsNext == ASSUME CallsTyped, LimitCalls, kind.exec = "limit", SC!Next PROVE LimitCalls'
<1>1. PICK p \in Callers : \/ SC!Call(p) \/ SC!LimitFast(p) \/ SC!LimitRead(p) \/ SC!LimitLocked(p)
                           \/ SC!LimitEnd(p) \/ SC!LimitCount(p)
  BY NextByKind
<1>2. kind' = kind /\ ~kind.recovers
  BY <1>1, LimitSteps, KindsAllowed DEF CallsTyped, RestTyped, KindAllowed
<1>3. /\ Holder /\ counter \in Nat /\ Limit \in Nat /\ output \in Nat /\ 0 \notin Callers
      /\ IsLatest(output, Answered) /\ Cardinality(Counted) = counter + (IF mtx = 0 THEN 0 ELSE 1)
      /\ counter <= Limit /\ (counter > 0 => output # 0) /\ (mtx # 0 => counter < Limit)
  BY SharedAssumption DEF CallsTyped, RestTyped, LimitCalls
<1>4. pc \in [Callers -> Waits \cup {"run"}]
  BY DEF CallsTyped, Placed
<1>5. ASSUME UNCHANGED <<mtx, at, begun, ended, panicked, counter, output>>, pc[p] \notin Holding,
             NEW l, l \notin Holding, pc' = [pc EXCEPT ![p] = l], l = "read" => counter = Limit
      PROVE  LimitCalls'
  <2>1. Holder'
    BY <1>3, <1>5, HolderWaits
  <2>2. Answered' = Answered /\ Counted' = Counted
    BY <1>2, <1>5, GoodStays, CountStays
  <2>3. pc'[p] = l /\ \A q \in Callers : q # p => pc'[q] = pc[q]
    BY <1>4, <1>5
  <2>4. \A q \in Callers : pc'[q] = "read" => counter = Limit
    BY <1>5, <2>3 DEF LimitCalls
  <2>5. \A q \in Callers : pc'[q] = "count" => output # 0
    BY <1>5, <2>3 DEF LimitCalls, Holding
  <2> QED
    BY <1>3, <1>5, <2>1, <2>2, <2>4, <2>5 DEF LimitCalls
<1>6. ASSUME OneBegins(p), mtx = 0, mtx' = p, counter < Limit, UNCHANGED <<counter, output>>
      PROVE  LimitCalls'
  <2>1. Holder' /\ Answered' = Answered /\ Cardinality(Counted') = Cardinality(Counted) + 1
    BY <1>2, <1>3, <1>6, HolderBegins, GoodBegins, CountBegins
  <2>2. pc'[p] = "run" /\ \A q \in Callers : q # p => pc'[q] = pc[q]
    BY <1>4, <1>6 DEF OneBegins
  <2>3. p # 0
    BY <1>3
  <2>4. \A q \in Callers : (pc'[q] = "read" => counter = Limit) /\ (pc'[q] = "count" => output # 0)
    BY <2>2 DEF LimitCalls
  <2> QED
    BY <1>3, <1>6, <2>1, <2>3, <2>4 DEF LimitCalls
<1>7. ASSUME OneEnds(p) PROVE /\ at[p] = Len(begun) /\ ended[at[p]] = 0 /\ at[p] \notin panicked /\ mtx = p
                              /\ at[p] # 0 /\ \A j \in Answered : j <= at[p]
  <2>1. at[p] = Len(begun) /\ ended[at[p]] = 0 /\ at[p] \notin panicked /\ mtx = p
    BY <1>3, <1>7 DEF OneEnds, Holder, Holding
  <2>2. at[p] \in 1..Len(begun) /\ Len(begun) \in Nat
    BY <1>7, RunsEnd, RunsCount DEF CallsTyped, RestTyped
  <2> QED
    BY <2>1, <2>2 DEF Answered, Good
<1>8. ASSUME OneEnds(p), panicked' = panicked, mtx' = mtx, counter' = counter,
             pc' = [pc EXCEPT ![p] = "count"], output' = at[p]
      PROVE  LimitCalls'
  <2>1. pc'[p] = "count" /\ \A q \in Callers : q # p => pc'[q] = pc[q]
    BY <1>4, <1>8
  <2>2. Holder'
    BY <1>3, <1>8, <2>1, HolderEnds
  <2>3. Answered' = Answered \cup {at[p]}
    BY <1>2, <1>7, <1>8, GoodEnds
  <2>4. at[p] \in Nat
    BY <1>8, RunsEnd DEF CallsTyped, RestTyped, RunsTyped
  <2>5. IsLatest(output', Answered')
    BY <1>7, <1>8, <2>3, <2>4 DEF IsLatest
  <2>6. Counted' = Counted
    BY <1>8, CountStays DEF OneEnds
  <2>7. \A q \in Callers : (pc'[q] = "read" => counter = Limit) /\ (pc'[q] = "count" => output' # 0)
    BY <1>7, <1>8, <2>1 DEF LimitCalls
  <2> QED
    BY <1>3, <1>7, <1>8, <2>2, <2>5, <2>6, <2>7 DEF LimitCalls
<1>9. ASSUME OneEnds(p), panicked = {}, panicked' = {at[p]}, mtx' = 0, UNCHANGED <<counter, output>>,
             pc' = [pc EXCEPT ![p] = "idle"]
      PROVE  LimitCalls'
  <2>1. pc'[p] = "idle" /\ \A q \in Callers : q # p => pc'[q] = pc[q]
    BY <1>4, <1>9
  <2>2. Holder'
    BY <1>3, <1>9, <2>1, HolderEnds
  <2>3. Answered' = Answered
    BY <1>2, <1>7, <1>9, GoodEnds
  <2>4. Cardinality(Counted') = Cardinality(Counted) - 1
    BY <1>9, CountPanics
  <2>5. Cardinality(Counted') = counter
    BY <1>3, <1>7, <1>9, <2>4
  <2>6. \A q \in Callers : (pc'[q] = "read" => counter = Limit) /\ (pc'[q] = "count" => output # 0)
    BY <2>1 DEF LimitCalls
  <2> QED
    BY <1>3, <1>9, <2>2, <2>3, <2>5, <2>6 DEF LimitCalls
<1>10. ASSUME pc[p] = "count", pc' = [pc EXCEPT ![p] = "idle"], mtx' = 0, counter' = counter + 1,
              UNCHANGED <<at, begun, ended, panicked, output>>
       PROVE  LimitCalls'
  <2>1. pc'[p] = "idle" /\ \A q \in Callers : q # p => pc'[q] = pc[q]
    BY <1>4, <1>10
  <2>2. Holder'
    BY <1>3, <1>10, HolderCounts
  <2>3. mtx = p /\ mtx # 0 /\ output # 0
    BY <1>3, <1>10 DEF LimitCalls, Holder, Holding
  <2>4. Answered' = Answered /\ Counted' = Counted
    BY <1>2, <1>10, GoodStays, CountStays
  <2>5. \A q \in Callers : pc'[q] # "count"
    BY <1>3, <2>1, <2>3 DEF Holder, Holding
  <2>6. \A q \in Callers : pc'[q] # "read"
    BY <1>3, <2>1, <2>3 DEF LimitCalls
  <2>7. counter + 1 <= Limit /\ Cardinality(Counted) = counter + 1
    BY <1>3, <2>3
  <2> QED
    BY <1>3, <1>10, <2>2, <2>3, <2>4, <2>5, <2>6, <2>7 DEF LimitCalls
<1> QED
  BY <1>1, <1>5, <1>6, <1>8, <1>9, <1>10, LimitSteps

LEMMA LimitAnswers ==
  ASSUME CallsTyped, CallsTyped', LimitCalls, kind.exec = "limit", NEW p \in Callers,
         \/ SC!Call(p) \/ SC!LimitFast(p) \/ SC!LimitRead(p) \/ SC!LimitLocked(p)
         \/ SC!LimitEnd(p) \/ SC!LimitCount(p),
         pc'[p] = "idle"
  PROVE  SC!AnswerIsOfRun(p)
<1>1. SUFFICES /\ kind.returns => (answer'[p] = -2 \/ answer'[p] = SC!LastGood') /\ answer'[p] # 0
               /\ answer'[p] = -2 => at[p] \in panicked' /\ ~kind.recovers
  BY DEF SC!AnswerIsOfRun, SC!exec, SC!Panic
<1>2. kind' = kind /\ ~kind.recovers
  BY LimitSteps, KindsAllowed DEF CallsTyped, RestTyped, KindAllowed
<1>3. counter \in Nat /\ Limit \in Nat \ {0} /\ output \in Nat /\ (counter > 0 => output # 0)
  BY SharedAssumption DEF CallsTyped, RestTyped, LimitCalls
<1>4. ASSUME output # 0, SC!Answers(p, output), UNCHANGED <<begun, ended, panicked>>
      PROVE  /\ kind.returns => (answer'[p] = -2 \/ answer'[p] = SC!LastGood') /\ answer'[p] # 0
             /\ answer'[p] = -2 => at[p] \in panicked' /\ ~kind.recovers
  <2>1. IsLatest(output, Answered')
    BY <1>2, <1>4, GoodStays DEF LimitCalls
  <2>2. output = SC!LastGood'
    BY <2>1, LatestIs DEF CallsTyped
  <2>3. output \in Int /\ output # -2
    BY <1>3
  <2> QED
    BY <1>4, <2>2, <2>3, AnswerIs
<1>5. ASSUME NEW l, pc' = [pc EXCEPT ![p] = l] PROVE l = "idle"
  BY <1>5 DEF CallsTyped, Placed
<1>6. ~OneBegins(p)
  BY DEF OneBegins, CallsTyped, Placed
<1>7. "count" # "idle"
  OBVIOUS
<1>8. \/ UNCHANGED <<begun, ended, panicked>> /\ counter = Limit /\ SC!Answers(p, output)
      \/ OneEnds(p) /\ panicked' = {at[p]} /\ SC!Answers(p, SC!Panic)
      \/ UNCHANGED <<begun, ended, panicked>> /\ pc[p] = "count" /\ SC!Answers(p, output)
  BY <1>5, <1>6, <1>7, LimitSteps
<1>9. CASE UNCHANGED <<begun, ended, panicked>> /\ counter = Limit /\ SC!Answers(p, output)
  BY <1>3, <1>4, <1>9
<1>10. CASE OneEnds(p) /\ panicked' = {at[p]} /\ SC!Answers(p, SC!Panic)
  <2>1. -2 \in Int /\ -2 <= 0 /\ -2 # 0
    OBVIOUS
  <2>2. answer'[p] = -2
    BY <1>10, <2>1, AnswerIs DEF SC!Panic
  <2> QED
    BY <1>2, <1>10, <2>1, <2>2
<1>11. CASE UNCHANGED <<begun, ended, panicked>> /\ pc[p] = "count" /\ SC!Answers(p, output)
  BY <1>4, <1>11 DEF LimitCalls
<1> QED
  BY <1>8, <1>9, <1>10, <1>11

----------------------------------------------------------------------------
(* TTL                                                                     *)

\* A run ends before the next one begins, and one that returned left the cache no older
\* than its end; two runs, of which the first returned, are Dur apart.
Settled == \A i \in 1..Len(begun) : /\ ended[i] = 0 => i = Len(begun) /\ mtx # 0
                                    /\ i \notin panicked => ended[i] <= lastAt
Spaced == \A i, j \in 1..Len(begun) : i < j /\ i \notin panicked => ended[i] # 0 /\ begun[j] - ended[i] >= Dur
TTLCalls ==
  /\ Holder /\ \A p \in Callers : pc[p] # "count"
  /\ lastAt <= now
  /\ IsLatest(output, Answered)
  /\ lastAt # 0 => output # 0 /\ ended[output] = lastAt
  /\ Settled /\ Spaced

LEMMA TTLSteps ==
  ASSUME CallsTyped, TTLCalls, kind.exec = "ttl", NEW p \in Callers,
         SC!Call(p) \/ SC!TTLRead(p) \/ SC!TTLLocked(p) \/ SC!TTLEnd(p)
  PROVE  /\ UNCHANGED <<kind, now>>
         /\ \/ /\ UNCHANGED <<mtx, at, begun, ended, panicked, lastAt, output>> /\ pc[p] \notin Holding
               /\ \E l : /\ l \notin Holding /\ pc' = [pc EXCEPT ![p] = l]
                         /\ l = "idle" => SC!Fresh /\ SC!Answers(p, output)
            \/ OneBegins(p) /\ mtx = 0 /\ mtx' = p /\ ~SC!Fresh /\ UNCHANGED <<lastAt, output>>
            \/ /\ OneEnds(p) /\ panicked' = panicked /\ mtx' = 0 /\ pc' = [pc EXCEPT ![p] = "idle"]
               /\ output' = at[p] /\ lastAt' = now /\ SC!Answers(p, at[p])
            \/ /\ OneEnds(p) /\ panicked = {} /\ panicked' = {at[p]} /\ mtx' = 0
               /\ UNCHANGED <<lastAt, output>> /\ pc' = [pc EXCEPT ![p] = "idle"] /\ SC!Answers(p, SC!Panic)
<1> USE DEF SC!Rest, SC!runs, SC!shared, SC!Free, SC!Goto
<1>1. /\ "called" \notin Holding /\ "idle" \notin Holding /\ "lock" \notin Holding
      /\ "called" # "idle" /\ "lock" # "idle"
  BY DEF Holding
<1>2. CASE SC!Call(p)
  <2>1. /\ UNCHANGED <<kind, now, mtx, at, begun, ended, panicked, lastAt, output>>
        /\ pc[p] = "idle" /\ pc' = [pc EXCEPT ![p] = "called"]
    BY <1>2 DEF SC!Call
  <2> QED
    BY <1>1, <2>1
<1>3. CASE SC!TTLRead(p) /\ SC!Fresh
  <2>1. /\ UNCHANGED <<kind, now, mtx, at, begun, ended, panicked, lastAt, output>>
        /\ pc[p] = "called" /\ pc' = [pc EXCEPT ![p] = "idle"] /\ SC!Answers(p, output)
    BY <1>3 DEF SC!TTLRead, SC!Answers
  <2> QED
    BY <1>1, <1>3, <2>1
<1>4. CASE SC!TTLRead(p) /\ ~SC!Fresh
  <2>1. /\ UNCHANGED <<kind, now, mtx, at, begun, ended, panicked, lastAt, output>>
        /\ pc[p] = "called" /\ pc' = [pc EXCEPT ![p] = "lock"]
    BY <1>4 DEF SC!TTLRead
  <2> QED
    BY <1>1, <2>1
<1>5. CASE SC!TTLLocked(p) /\ SC!Fresh
  <2>1. /\ UNCHANGED <<kind, now, mtx, at, begun, ended, panicked, lastAt, output>>
        /\ pc[p] = "lock" /\ pc' = [pc EXCEPT ![p] = "idle"] /\ SC!Answers(p, output)
    BY <1>5 DEF SC!TTLLocked, SC!Answers
  <2> QED
    BY <1>1, <1>5, <2>1
<1>6. CASE SC!TTLLocked(p) /\ ~SC!Fresh
  <2>1. OneBegins(p) /\ UNCHANGED <<kind, now, lastAt, output>> /\ mtx = 0 /\ mtx' = p
    BY <1>6 DEF SC!TTLLocked, SC!Begins, SC!Runs, OneBegins
  <2> QED
    BY <1>6, <2>1
<1>7. CASE SC!TTLEnd(p)
  <2>1. mtx' = 0 /\ UNCHANGED <<kind, now, at, begun>> /\ pc[p] = "run" /\ "idle" \in Waits
    BY <1>7 DEF SC!TTLEnd, Waits
  <2>2. CASE SC!Ends(p, FALSE) /\ output' = at[p] /\ lastAt' = now /\ SC!Answers(p, at[p])
    BY <2>1, <2>2 DEF SC!Ends, SC!Answers, OneEnds
  <2>3. CASE SC!Ends(p, TRUE) /\ SC!Answers(p, SC!Panic) /\ UNCHANGED <<output, lastAt>>
    BY <2>1, <2>3 DEF SC!Ends, SC!Answers, OneEnds
  <2> QED
    BY <1>7, <2>2, <2>3 DEF SC!TTLEnd
<1> QED
  BY <1>2, <1>3, <1>4, <1>5, <1>6, <1>7

LEMMA TTLBegins ==
  ASSUME CallsTyped, TTLCalls, NEW p \in Callers, OneBegins(p), mtx = 0, mtx' = p, ~SC!Fresh, lastAt' = lastAt
  PROVE  Settled' /\ Spaced'
<1>1. PICK n : n = Len(begun)
  OBVIOUS
<1>2. n \in Nat /\ lastAt \in Nat /\ now \in Nat /\ Dur \in Nat /\ p # 0
  BY <1>1, RunsCount, SharedAssumption DEF CallsTyped, RestTyped
<1>3. /\ Len(begun') = n + 1 /\ begun'[n + 1] = now /\ ended'[n + 1] = 0
      /\ \A i \in 1..n : begun'[i] = begun[i] /\ ended'[i] = ended[i]
  BY <1>1, <1>2, RunsBegin DEF CallsTyped
<1>4. panicked' = panicked
  BY DEF OneBegins
<1>5. \A i \in 1..n : ended[i] \in Nat /\ begun[i] \in Nat
  BY <1>1, ElementOfSeq DEF CallsTyped, RunsTyped
<1>6. \A i \in 1..n : ended[i] # 0 /\ (i \notin panicked => ended[i] <= lastAt)
  BY <1>1 DEF TTLCalls, Settled
<1>7. \A i \in 1..(n + 1) : i \in 1..n \/ i = n + 1
  BY <1>2
<1>8. Settled'
  <2>1. \A i \in 1..(n + 1) : (ended'[i] = 0 => i = n + 1) /\ (i \notin panicked => ended'[i] <= lastAt)
    BY <1>2, <1>3, <1>6, <1>7
  <2> QED
    BY <1>2, <1>3, <1>4, <2>1 DEF Settled
<1>9. Spaced'
  <2>1. ASSUME NEW i \in 1..(n + 1), NEW j \in 1..(n + 1), i < j, i \notin panicked
        PROVE  ended'[i] # 0 /\ begun'[j] - ended'[i] >= Dur
    <3>1. i \in 1..n
      BY <1>2, <2>1
    <3>2. ended'[i] = ended[i] /\ ended[i] # 0 /\ ended[i] <= lastAt /\ ended[i] \in Nat
      BY <1>3, <1>5, <1>6, <2>1, <3>1
    <3>3. CASE j = n + 1
      <4>1. lastAt # 0
        BY <1>2, <3>2
      <4>2. ~(now - lastAt < Dur)
        BY <4>1 DEF SC!Fresh
      <4> QED
        BY <1>2, <1>3, <3>2, <3>3, <4>2
    <3>4. CASE j \in 1..n
      <4>1. begun[j] - ended[i] >= Dur
        BY <1>1, <2>1, <3>1, <3>4 DEF TTLCalls, Spaced
      <4> QED
        BY <1>3, <3>2, <3>4, <4>1
    <3> QED
      BY <1>7, <3>3, <3>4
  <2>2. \A i, j \in 1..(n + 1) : i < j /\ i \notin panicked => ended'[i] # 0 /\ begun'[j] - ended'[i] >= Dur
    BY <2>1
  <2>3. Len(begun)' = n + 1
    BY <1>3
  <2> QED
    BY <1>4, <2>2, <2>3 DEF Spaced
<1> QED
  BY <1>8, <1>9

LEMMA TTLEnds ==
  ASSUME CallsTyped, TTLCalls, NEW p \in Callers, OneEnds(p), mtx' = 0,
         (panicked' = panicked /\ lastAt' = now) \/ (panicked' = {at[p]} /\ lastAt' = lastAt)
  PROVE  Settled' /\ Spaced'
<1>1. PICK n : n = Len(begun)
  OBVIOUS
<1>2. n \in Nat /\ lastAt \in Nat /\ now \in Nat \ {0} /\ lastAt <= now
  BY <1>1, RunsCount DEF CallsTyped, RestTyped, TTLCalls
<1>3. at[p] = n /\ n \in 1..n
  <2>1. pc[p] = "run"
    BY DEF OneEnds
  <2>2. at[p] = n
    BY <1>1, <2>1 DEF TTLCalls, Holder
  <2>3. at[p] \in 1..Len(begun)
    BY <1>2, RunsEnd DEF CallsTyped
  <2> QED
    BY <1>1, <2>2, <2>3
<1>4. begun' = begun /\ ended'[n] = now /\ \A i \in 1..n : i # n => ended'[i] = ended[i]
  BY <1>1, <1>2, <1>3, RunsEnd DEF CallsTyped, OneEnds
<1>5. \A i \in 1..n : ended[i] \in Nat /\ begun[i] \in Nat
  BY <1>1, ElementOfSeq DEF CallsTyped, RunsTyped
<1>6. \A i \in 1..n : i \notin panicked' => i \notin panicked
  BY DEF OneEnds
<1>7. \A i \in 1..n : (ended[i] = 0 => i = n) /\ (i \notin panicked => ended[i] <= lastAt)
  BY <1>1 DEF TTLCalls, Settled
<1>8. lastAt' \in Nat /\ lastAt <= lastAt' /\ (n \notin panicked' => lastAt' = now)
  BY <1>2, <1>3
<1>9. Settled'
  <2>1. ASSUME NEW i \in 1..n PROVE ended'[i] # 0 /\ (i \notin panicked' => ended'[i] <= lastAt')
    <3>1. CASE i = n
      BY <1>2, <1>4, <1>8, <3>1
    <3>2. CASE i # n
      BY <1>2, <1>4, <1>5, <1>6, <1>7, <1>8, <3>2
    <3> QED
      BY <3>1, <3>2
  <2> QED
    BY <1>1, <1>4, <2>1 DEF Settled
<1>10. Spaced'
  <2>1. ASSUME NEW i \in 1..n, NEW j \in 1..n, i < j, i \notin panicked'
        PROVE  ended'[i] # 0 /\ begun[j] - ended'[i] >= Dur
    <3>1. i # n
      BY <1>2, <2>1
    <3> QED
      BY <1>1, <1>4, <1>6, <2>1, <3>1 DEF TTLCalls, Spaced
  <2> QED
    BY <1>1, <1>4, <2>1 DEF Spaced
<1> QED
  BY <1>9, <1>10

LEMMA TTLCallsNext == ASSUME CallsTyped, TTLCalls, kind.exec = "ttl", SC!Next PROVE TTLCalls'
<1>1. /\ Holder /\ lastAt \in Nat /\ now \in Nat \ {0} /\ output \in Nat /\ lastAt <= now
      /\ IsLatest(output, Answered) /\ (lastAt # 0 => output # 0 /\ ended[output] = lastAt)
      /\ pc \in [Callers -> Waits \cup {"run"}] /\ (\A q \in Callers : pc[q] # "count")
  BY DEF CallsTyped, RestTyped, TTLCalls, Placed
<1>2. lastAt # 0 => output \in 1..Len(begun)
  BY <1>1 DEF IsLatest, Answered, Good
<1>3. CASE SC!Tick
  <2>1. /\ now' = now + 1 /\ UNCHANGED <<pc, at, mtx, lastAt, output>>
        /\ UNCHANGED <<kind, begun, ended, panicked>>
    BY <1>3 DEF SC!Tick, SC!runs, SC!shared
  <2>2. Holder' /\ Settled' /\ Spaced'
    BY <2>1 DEF TTLCalls, Holder, Settled, Spaced
  <2>3. Answered' = Answered
    BY <2>1, GoodStays
  <2>4. lastAt <= now + 1
    BY <1>1
  <2> QED
    BY <1>1, <2>1, <2>2, <2>3, <2>4 DEF TTLCalls
<1>4. ASSUME NEW p \in Callers, SC!Call(p) \/ SC!TTLRead(p) \/ SC!TTLLocked(p) \/ SC!TTLEnd(p)
      PROVE  TTLCalls'
  <2>1. kind' = kind /\ now' = now /\ ~kind.recovers
    BY <1>4, TTLSteps, KindsAllowed DEF CallsTyped, RestTyped, KindAllowed
  <2>2. ASSUME UNCHANGED <<mtx, at, begun, ended, panicked, lastAt, output>>, pc[p] \notin Holding,
               NEW l, l \notin Holding, pc' = [pc EXCEPT ![p] = l]
        PROVE  TTLCalls'
    <3>1. Holder'
      BY <1>1, <2>2, HolderWaits
    <3>2. Answered' = Answered
      BY <2>1, <2>2, GoodStays
    <3>3. Settled' /\ Spaced'
      BY <2>2 DEF TTLCalls, Settled, Spaced
    <3>4. \A q \in Callers : pc'[q] # "count"
      BY <1>1, <2>2 DEF Holding
    <3> QED
      BY <1>1, <2>1, <2>2, <3>1, <3>2, <3>3, <3>4 DEF TTLCalls
  <2>3. ASSUME OneBegins(p), mtx = 0, mtx' = p, ~SC!Fresh, UNCHANGED <<lastAt, output>>
        PROVE  TTLCalls'
    <3>1. Holder' /\ Settled' /\ Spaced' /\ Answered' = Answered
      BY <1>1, <2>1, <2>3, HolderBegins, TTLBegins, GoodBegins
    <3>2. \A i \in 1..Len(begun) : ended'[i] = ended[i]
      BY <1>1, <2>3, RunsBegin DEF CallsTyped
    <3>3. \A q \in Callers : pc'[q] # "count"
      BY <1>1, <2>3 DEF OneBegins
    <3> QED
      BY <1>1, <1>2, <2>1, <2>3, <3>1, <3>2, <3>3 DEF TTLCalls
  <2>4. ASSUME OneEnds(p), pc' = [pc EXCEPT ![p] = "idle"], mtx' = 0
        PROVE  /\ Holder' /\ (\A q \in Callers : pc'[q] # "count")
               /\ ended[at[p]] = 0 /\ ended'[at[p]] = now /\ at[p] \in Nat /\ at[p] # 0
               /\ \A j \in Answered : j <= at[p]
               /\ \A i \in 1..Len(begun) : i # at[p] => ended'[i] = ended[i]
    <3>1. pc'[p] = "idle" /\ \A q \in Callers : q # p => pc'[q] = pc[q]
      BY <1>1, <2>4
    <3>2. Holder'
      BY <1>1, <2>4, <3>1, HolderEnds
    <3>3. at[p] = Len(begun) /\ ended[at[p]] = 0
      BY <1>1, <2>4 DEF Holder, OneEnds
    <3>4. at[p] \in 1..Len(begun) /\ ended'[at[p]] = now
          /\ \A i \in 1..Len(begun) : i # at[p] => ended'[i] = ended[i]
      BY <1>1, <2>4, RunsEnd DEF CallsTyped
    <3>5. Len(begun) \in Nat
      BY RunsCount DEF CallsTyped
    <3>6. at[p] \in Nat /\ at[p] # 0 /\ \A j \in Answered : j <= at[p]
      BY <3>3, <3>4, <3>5 DEF Answered, Good
    <3> QED
      BY <1>1, <3>1, <3>2, <3>3, <3>4, <3>6
  <2>5. ASSUME OneEnds(p), panicked' = panicked, mtx' = 0, pc' = [pc EXCEPT ![p] = "idle"],
               output' = at[p], lastAt' = now
        PROVE  TTLCalls'
    <3>1. at[p] \notin panicked
      BY <1>1, <2>5 DEF Holder, OneEnds
    <3>2. Answered' = Answered \cup {at[p]}
      BY <2>1, <2>5, <3>1, GoodEnds
    <3>3. IsLatest(output', Answered')
      BY <2>4, <2>5, <3>2 DEF IsLatest
    <3>4. Settled' /\ Spaced'
      BY <2>5, TTLEnds
    <3> QED
      BY <1>1, <2>1, <2>4, <2>5, <3>3, <3>4 DEF TTLCalls
  <2>6. ASSUME OneEnds(p), panicked' = {at[p]}, mtx' = 0, UNCHANGED <<lastAt, output>>,
               pc' = [pc EXCEPT ![p] = "idle"]
        PROVE  TTLCalls'
    <3>1. Answered' = Answered
      BY <2>1, <2>4, <2>6, GoodEnds
    <3>2. Settled' /\ Spaced'
      BY <2>6, TTLEnds
    <3>3. lastAt # 0 => output # at[p]
      BY <1>1, <2>4, <2>6
    <3>4. lastAt # 0 => output # 0 /\ ended'[output] = lastAt
      BY <1>1, <1>2, <2>4, <2>6, <3>3
    <3> QED
      BY <1>1, <2>1, <2>4, <2>6, <3>1, <3>2, <3>4 DEF TTLCalls
  <2> QED
    BY <1>4, <2>2, <2>3, <2>5, <2>6, TTLSteps
<1> QED
  BY <1>3, <1>4, NextByKind

LEMMA TTLAnswers ==
  ASSUME CallsTyped, CallsTyped', TTLCalls, kind.exec = "ttl", NEW p \in Callers,
         SC!Call(p) \/ SC!TTLRead(p) \/ SC!TTLLocked(p) \/ SC!TTLEnd(p), pc'[p] = "idle"
  PROVE  SC!AnswerIsOfRun(p)
<1> DEFINE Told == /\ kind.returns => (answer'[p] = -2 \/ answer'[p] = SC!LastGood') /\ answer'[p] # 0
                   /\ answer'[p] > 0 => now - ended'[answer'[p]] < Dur
                   /\ answer'[p] = -2 => at[p] \in panicked' /\ ~kind.recovers
<1>1. SUFFICES Told
  BY DEF SC!AnswerIsOfRun, SC!exec, SC!Panic
<1>2. kind' = kind /\ ~kind.recovers
  BY TTLSteps, KindsAllowed DEF CallsTyped, RestTyped, KindAllowed
<1>3. /\ lastAt \in Nat /\ now \in Nat \ {0} /\ output \in Nat /\ Dur \in Nat \ {0}
      /\ (lastAt # 0 => output # 0 /\ ended[output] = lastAt)
  BY SharedAssumption DEF CallsTyped, RestTyped, TTLCalls
<1>4. ASSUME NEW a \in Nat \ {0}, SC!Answers(p, a), IsLatest(a, Answered'), now - ended'[a] < Dur
      PROVE  Told
  <2>1. a = SC!LastGood'
    BY <1>4, LatestIs DEF CallsTyped
  <2>2. a \in Int /\ a # -2 /\ a # 0
    BY <1>4
  <2>3. answer'[p] = IF a > 0 /\ ~kind.returns THEN 0 ELSE a
    BY <1>4 DEF CallsTyped, RestTyped, SC!Answers
  <2>4. CASE answer'[p] = a /\ (a > 0 /\ ~kind.returns => a = 0)
    BY <1>4, <2>1, <2>2, <2>4
  <2>5. CASE answer'[p] = 0 /\ ~kind.returns
    <3>1. ~(0 > 0) /\ 0 # -2
      OBVIOUS
    <3> QED
      BY <2>5, <3>1
  <2> QED
    BY <1>4, <2>3, <2>4, <2>5
<1>5. ASSUME NEW l, pc' = [pc EXCEPT ![p] = l] PROVE l = "idle"
  BY <1>5 DEF CallsTyped, Placed
<1>6. ~OneBegins(p)
  BY DEF OneBegins, CallsTyped, Placed
<1>7. \/ UNCHANGED <<begun, ended, panicked>> /\ SC!Fresh /\ SC!Answers(p, output)
      \/ OneEnds(p) /\ panicked' = panicked /\ SC!Answers(p, at[p])
      \/ OneEnds(p) /\ panicked' = {at[p]} /\ SC!Answers(p, SC!Panic)
  BY <1>5, <1>6, TTLSteps
<1>8. CASE UNCHANGED <<begun, ended, panicked>> /\ SC!Fresh /\ SC!Answers(p, output)
  <2>1. lastAt # 0 /\ now - lastAt < Dur
    BY <1>8 DEF SC!Fresh
  <2>2. IsLatest(output, Answered')
    BY <1>2, <1>8, GoodStays DEF TTLCalls
  <2>3. output \in Nat \ {0} /\ now - ended'[output] < Dur
    BY <1>3, <1>8, <2>1
  <2> QED
    BY <1>4, <1>8, <2>2, <2>3
<1>9. CASE OneEnds(p) /\ panicked' = panicked /\ SC!Answers(p, at[p])
  <2>1. at[p] \notin panicked /\ at[p] = Len(begun)
    BY <1>9 DEF TTLCalls, Holder, OneEnds
  <2>2. Answered' = Answered \cup {at[p]}
    BY <1>2, <1>9, <2>1, GoodEnds
  <2>3. at[p] \in 1..Len(begun) /\ ended'[at[p]] = now /\ Len(begun) \in Nat
    BY <1>3, <1>9, RunsEnd, RunsCount DEF CallsTyped
  <2>4. at[p] \in Nat \ {0} /\ \A j \in Answered : j <= at[p]
    BY <2>1, <2>3 DEF Answered, Good
  <2>5. IsLatest(at[p], Answered')
    BY <2>2, <2>4 DEF IsLatest
  <2>6. now - ended'[at[p]] < Dur
    BY <1>3, <2>3
  <2> QED
    BY <1>4, <1>9, <2>4, <2>5, <2>6
<1>10. CASE OneEnds(p) /\ panicked' = {at[p]} /\ SC!Answers(p, SC!Panic)
  <2>1. -2 \in Int /\ -2 <= 0 /\ -2 # 0 /\ ~(-2 > 0)
    OBVIOUS
  <2>2. answer'[p] = -2
    BY <1>10, <2>1, AnswerIs DEF SC!Panic
  <2> QED
    BY <1>2, <1>10, <2>1, <2>2
<1> QED
  BY <1>7, <1>8, <1>9, <1>10

----------------------------------------------------------------------------
(* Lock                                                                    *)

LEMMA LockCallsNext == ASSUME CallsTyped, Holder, kind.exec = "lock", SC!Next PROVE Holder'
<1>1. PICK p \in Callers : SC!Call(p) \/ SC!WithLock(p) \/ SC!LockEnd(p)
  BY NextByKind
<1> USE DEF SC!Rest, SC!runs, SC!shared, SC!Free, SC!Goto
<1>2. CASE SC!Call(p)
  <2>1. /\ UNCHANGED <<mtx, at, begun, ended, panicked>>
        /\ pc[p] \notin Holding /\ "called" \notin Holding /\ pc' = [pc EXCEPT ![p] = "called"]
    BY <1>2 DEF SC!Call, Holding
  <2> QED
    BY <2>1, HolderWaits
<1>3. CASE SC!WithLock(p)
  <2>1. mtx = 0 /\ mtx' = p /\ OneBegins(p)
    BY <1>3 DEF SC!WithLock, SC!Begins, SC!Runs, OneBegins
  <2> QED
    BY <2>1, HolderBegins
<1>4. CASE SC!LockEnd(p)
  <2>1. PICK f \in BOOLEAN : SC!Ends(p, f) /\ SC!Goto(p, "idle")
    BY <1>4 DEF SC!LockEnd, SC!Answers
  <2>2. pc[p] = "run" /\ mtx' = 0 /\ UNCHANGED <<at, begun>> /\ "idle" \in Waits
    BY <1>4 DEF SC!LockEnd, Waits
  <2>3. panicked' = panicked \/ (panicked = {} /\ panicked' = {at[p]})
    BY <2>1 DEF SC!Ends
  <2>4. OneEnds(p)
    BY <2>1, <2>2, <2>3 DEF SC!Ends, OneEnds
  <2>5. pc'[p] = "idle"
    BY <2>1 DEF CallsTyped, Placed
  <2> QED
    BY <2>2, <2>4, <2>5, HolderEnds
<1> QED
  BY <1>1, <1>2, <1>3, <1>4

\* A run that nothing is kept of: its panic is its caller's.
LEMMA FreeAnswers ==
  ASSUME CallsTyped, NEW p \in Callers, pc[p] = "run",
         NEW f \in BOOLEAN, SC!Ends(p, f), SC!Answers(p, IF f THEN SC!Panic ELSE at[p]), answer'[p] = -2
  PROVE  at[p] \in panicked'
<1>1. at[p] \in Nat
  BY DEF CallsTyped, RunsTyped
<1>2. f
  <2>1. ASSUME ~f PROVE FALSE
    <3>1. SC!Answers(p, at[p]) /\ at[p] \in Int /\ at[p] # -2
      BY <1>1, <2>1
    <3> QED
      BY <3>1, AnswerIs
  <2> QED
    BY <2>1
<1> QED
  BY <1>2 DEF SC!Ends

LEMMA LockAnswers ==
  ASSUME CallsTyped, kind.exec = "lock", NEW p \in Callers,
         SC!Call(p) \/ SC!WithLock(p) \/ SC!LockEnd(p), pc'[p] = "idle"
  PROVE  SC!AnswerIsOfRun(p)
<1>1. SUFFICES answer'[p] = -2 => at[p] \in panicked' /\ ~kind.recovers
  BY DEF SC!AnswerIsOfRun, SC!exec, SC!Panic
<1>2. ~kind.recovers
  BY KindsAllowed DEF CallsTyped, RestTyped, KindAllowed
<1>3. ~SC!Call(p) /\ ~SC!WithLock(p)
  BY DEF CallsTyped, Placed, SC!Call, SC!WithLock, SC!Begins, SC!Goto
<1>4. PICK f \in BOOLEAN : SC!Ends(p, f) /\ SC!Answers(p, IF f THEN SC!Panic ELSE at[p])
  BY <1>3 DEF SC!LockEnd
<1>5. pc[p] = "run"
  BY <1>3 DEF SC!LockEnd
<1> QED
  BY <1>2, <1>4, <1>5, FreeAnswers

----------------------------------------------------------------------------
(* Operation.Limit                                                         *)

OpLimitCalls == /\ Len(begun) = counter /\ counter <= Limit
                /\ \A p \in Callers : pc[p] = "swap" => seen[p] < Limit

LEMMA OpLimitCallsNext == ASSUME CallsTyped, OpLimitCalls, LimitedOperation, SC!Next PROVE OpLimitCalls'
<1>1. PICK p \in Callers : SC!Call(p) \/ SC!OpLimitLoad(p) \/ SC!OpLimitSwap(p) \/ SC!FreeEnd(p)
  BY NextByKind
<1>2. counter \in Nat /\ Limit \in Nat /\ counter <= Limit /\ Len(begun) = counter
  BY SharedAssumption DEF CallsTyped, RestTyped, OpLimitCalls
<1>3. pc \in [Callers -> Waits \cup {"run"}] /\ seen \in [Callers -> Nat]
  BY DEF CallsTyped, Placed, RestTyped
<1> USE DEF SC!Rest, SC!runs, SC!shared
<1>4. ASSUME UNCHANGED <<begun, counter, seen>>, NEW l, l # "swap", pc' = [pc EXCEPT ![p] = l]
      PROVE  OpLimitCalls'
  BY <1>3, <1>4 DEF OpLimitCalls
<1>5. CASE SC!Call(p)
  BY <1>4, <1>5 DEF SC!Call, SC!Goto
<1>6. CASE SC!OpLimitLoad(p)
  <2>1. UNCHANGED <<begun, counter>>
    BY <1>6 DEF SC!OpLimitLoad
  <2>2. CASE SC!Answers(p, 0) /\ UNCHANGED seen
    BY <1>4, <2>1, <2>2 DEF SC!Answers, SC!Goto
  <2>3. CASE counter < Limit /\ seen' = [seen EXCEPT ![p] = counter] /\ SC!Goto(p, "swap")
    <3>1. \A q \in Callers : pc'[q] = "swap" => seen'[q] < Limit
      BY <1>3, <2>3 DEF OpLimitCalls, SC!Goto
    <3> QED
      BY <1>2, <2>1, <3>1 DEF OpLimitCalls
  <2> QED
    BY <1>6, <2>2, <2>3 DEF SC!OpLimitLoad
<1>7. CASE SC!OpLimitSwap(p)
  <2>1. CASE SC!Swaps(p) /\ counter' = seen[p] + 1 /\ SC!Begins(p)
    <3>1. OneBegins(p) /\ seen' = seen /\ pc[p] = "swap"
      BY <1>7, <2>1 DEF SC!OpLimitSwap, SC!Begins, SC!Goto, SC!Runs, OneBegins
    <3>2. counter' = counter + 1 /\ counter < Limit
      BY <2>1, <3>1 DEF SC!Swaps, OpLimitCalls
    <3>3. Len(begun') = counter + 1 /\ pc'[p] = "run" /\ \A q \in Callers : q # p => pc'[q] = pc[q]
      BY <1>2, <3>1, RunsBegin DEF CallsTyped, RestTyped
    <3>4. \A q \in Callers : pc'[q] = "swap" => seen'[q] < Limit
      BY <3>1, <3>3 DEF OpLimitCalls
    <3>5. counter + 1 <= Limit
      BY <1>2, <3>2
    <3> QED
      BY <3>2, <3>3, <3>4, <3>5 DEF OpLimitCalls
  <2>2. CASE ~SC!Swaps(p) /\ SC!Goto(p, "called") /\ UNCHANGED <<counter, begun, ended, at>>
    <3>1. UNCHANGED seen
      BY <1>7 DEF SC!OpLimitSwap
    <3> QED
      BY <1>4, <2>2, <3>1 DEF SC!Goto
  <2> QED
    BY <1>7, <2>1, <2>2 DEF SC!OpLimitSwap
<1>8. CASE SC!FreeEnd(p)
  <2>1. UNCHANGED <<begun, counter, seen>> /\ pc' = [pc EXCEPT ![p] = "idle"]
    BY <1>8 DEF SC!FreeEnd, SC!Answers, SC!Goto
  <2> QED
    BY <1>4, <2>1
<1> QED
  BY <1>1, <1>5, <1>6, <1>7, <1>8

----------------------------------------------------------------------------
(* WithCancel                                                              *)

CancelCalls ==
  /\ once \in {"new", "done"} /\ counter \in {0, 1}
  /\ once = "new" => ctx = "none" /\ counter = 0 /\ Len(begun) = 0
  /\ counter = 1 => ctx # "live"
  /\ once = "done" /\ ctx = "none" => counter = 1 /\ (kind.guards => Len(begun) = 0)

LEMMA CancelCallsNext == ASSUME CallsTyped, CancelCalls, kind.exec = "cancel", SC!Next PROVE CancelCalls'
<1>1. SC!Cancel \/ \E p \in Callers : SC!Call(p) \/ SC!CancelCall(p) \/ SC!FreeEnd(p)
  BY NextByKind
<1>2. kind' = kind
  BY CallsTypedNext
<1> USE DEF SC!Rest, SC!runs, SC!shared
<1>3. CASE SC!Cancel
  <2>1. /\ counter = 0 /\ counter' = 1 /\ once' = "done" /\ UNCHANGED begun
        /\ ctx' = IF ctx = "live" THEN "canceled" ELSE ctx
    BY <1>3 DEF SC!Cancel
  <2>2. ctx' # "live" /\ (ctx' = "none" => ctx = "none")
    BY <2>1
  <2>3. ctx = "none" /\ kind.guards => Len(begun) = 0
    BY DEF CancelCalls
  <2> QED
    BY <1>2, <2>1, <2>2, <2>3 DEF CancelCalls
<1>4. ASSUME NEW p \in Callers, SC!Call(p) \/ SC!FreeEnd(p) PROVE CancelCalls'
  <2>1. UNCHANGED <<begun, counter, once, ctx>>
    BY <1>4 DEF SC!Call, SC!FreeEnd
  <2> QED
    BY <1>2, <2>1 DEF CancelCalls
<1>5. ASSUME NEW p \in Callers, SC!CancelCall(p) PROVE CancelCalls'
  <2>1. /\ once' = "done" /\ counter' = counter /\ ctx' = (IF once = "new" THEN "live" ELSE ctx)
        /\ ctx' = "none" /\ kind.guards => begun' = begun
    BY <1>5 DEF SC!CancelCall
  <2>2. CASE once = "new"
    BY <1>2, <2>1, <2>2 DEF CancelCalls
  <2>3. CASE once # "new"
    BY <1>2, <2>1, <2>3 DEF CancelCalls
  <2> QED
    BY <2>2, <2>3
<1> QED
  BY <1>1, <1>3, <1>4, <1>5

LEMMA CancelAnswers ==
  ASSUME CallsTyped, CancelCalls, kind.exec = "cancel", NEW p \in Callers,
         SC!Call(p) \/ SC!CancelCall(p) \/ SC!FreeEnd(p), pc'[p] = "idle"
  PROVE  SC!AnswerIsOfRun(p)
<1>1. SUFFICES ASSUME answer'[p] = -2 PROVE at[p] \in panicked' \/ (Len(begun') = 0 /\ counter = 1)
  BY DEF SC!AnswerIsOfRun, SC!exec, SC!Panic, SC!Runs
<1>2. ~SC!Call(p)
  BY DEF CallsTyped, Placed, SC!Call, SC!Goto
<1>3. CASE SC!CancelCall(p)
  <2>1. /\ ctx' = (IF once = "new" THEN "live" ELSE ctx)
        /\ \/ ctx' = "none" /\ kind.guards /\ begun' = begun
           \/ SC!Begins(p)
    BY <1>3 DEF SC!CancelCall
  <2>2. ~SC!Begins(p)
    BY DEF CallsTyped, Placed, SC!Begins, SC!Goto
  <2> QED
    BY <2>1, <2>2 DEF CancelCalls
<1>4. CASE SC!FreeEnd(p)
  <2>1. PICK f \in BOOLEAN : SC!Ends(p, f) /\ SC!Answers(p, IF f THEN SC!Panic ELSE at[p])
    BY <1>4 DEF SC!FreeEnd
  <2>2. pc[p] = "run"
    BY <1>4 DEF SC!FreeEnd
  <2> QED
    BY <1>1, <2>1, <2>2, FreeAnswers
<1> QED
  BY <1>2, <1>3, <1>4

----------------------------------------------------------------------------
(* StartGroup                                                              *)

Pushes(t) == {i \in 1..Limit : t[i] # "run"}
GroupCalls ==
  /\ once # "done" => output = 0 /\ tasks = <<>>
  /\ once = "done" => tasks \in [1..Limit -> {"run", "pushed", "left"}] /\ output = Cardinality(Pushes(tasks))

LEMMA PushesFinite == ASSUME NEW t PROVE IsFiniteSet(Pushes(t))
<1>1. 1 \in Int /\ Limit \in Int
  BY SharedAssumption
<1>2. IsFiniteSet(1..Limit)
  BY <1>1, FS_Interval
<1> QED
  BY <1>2, FS_Subset DEF Pushes

LEMMA GroupCallsNext == ASSUME CallsTyped, GroupCalls, kind.exec = "group", SC!Next PROVE GroupCalls'
<1>1. \/ SC!StartGroup \/ (\E i \in 1..Limit : SC!Pushed(i) \/ SC!Left(i))
      \/ \E p \in Callers : SC!Call(p) \/ SC!Expire(p) \/ SC!GroupWait(p)
  BY NextByKind
<1> USE DEF SC!Rest, SC!runs, SC!shared
<1>2. CASE SC!StartGroup
  <2>1. once = "new" /\ once' = "done" /\ tasks' = [i \in 1..Limit |-> "run"] /\ output' = output
    BY <1>2 DEF SC!StartGroup
  <2>2. Pushes(tasks') = {}
    BY <2>1 DEF Pushes
  <2>3. output' = 0 /\ Cardinality(Pushes(tasks')) = 0
    BY <2>1, <2>2, FS_EmptySet DEF GroupCalls
  <2>4. tasks' \in [1..Limit -> {"run", "pushed", "left"}]
    BY <2>1
  <2> QED
    BY <2>1, <2>3, <2>4 DEF GroupCalls
<1>3. ASSUME NEW i \in 1..Limit, SC!Pushed(i) \/ SC!Left(i) PROVE GroupCalls'
  <2>1. /\ i \in DOMAIN tasks /\ once' = once /\ output \in Nat
        /\ \/ tasks[i] = "run" /\ output' = output + 1 /\ tasks' = [tasks EXCEPT ![i] = "pushed"]
           \/ tasks[i] = "pushed" /\ output' = output /\ tasks' = [tasks EXCEPT ![i] = "left"]
    BY <1>3 DEF SC!Pushed, SC!Left, CallsTyped, RestTyped
  <2>2. once = "done"
    <3>1. DOMAIN <<>> = {}
      OBVIOUS
    <3> QED
      BY <2>1, <3>1 DEF GroupCalls
  <2>3. tasks \in [1..Limit -> {"run", "pushed", "left"}] /\ output = Cardinality(Pushes(tasks))
    BY <2>2 DEF GroupCalls
  <2>4. tasks' \in [1..Limit -> {"run", "pushed", "left"}]
    BY <2>1, <2>3
  <2>5. output' = Cardinality(Pushes(tasks'))
    <3>1. CASE tasks[i] = "run" /\ output' = output + 1 /\ tasks' = [tasks EXCEPT ![i] = "pushed"]
      <4>1. Pushes(tasks') = Pushes(tasks) \cup {i} /\ i \notin Pushes(tasks)
        BY <2>3, <3>1 DEF Pushes
      <4> QED
        BY <2>3, <3>1, <4>1, PushesFinite, FS_AddElement
    <3>2. CASE tasks[i] = "pushed" /\ output' = output /\ tasks' = [tasks EXCEPT ![i] = "left"]
      <4>1. Pushes(tasks') = Pushes(tasks)
        BY <2>3, <3>2 DEF Pushes
      <4> QED
        BY <2>3, <3>2, <4>1
    <3> QED
      BY <2>1, <3>1, <3>2
  <2> QED
    BY <2>1, <2>2, <2>4, <2>5 DEF GroupCalls
<1>4. ASSUME NEW p \in Callers, SC!Call(p) \/ SC!Expire(p) \/ SC!GroupWait(p) PROVE GroupCalls'
  <2>1. UNCHANGED <<once, tasks, output>>
    BY <1>4 DEF SC!Call, SC!Expire, SC!GroupWait
  <2> QED
    BY <2>1 DEF GroupCalls, Pushes
<1> QED
  BY <1>1, <1>2, <1>3, <1>4

LEMMA GroupAnswers ==
  ASSUME CallsTyped, GroupCalls, kind.exec = "group", NEW p \in Callers, SC!GroupWait(p)
  PROVE  SC!AnswerIsOfRun(p)
<1>1. SUFFICES ASSUME kind.returns, p \notin gone PROVE answer'[p] = Limit
  BY DEF SC!AnswerIsOfRun, SC!exec
<1>2. once = "done" /\ (\A i \in DOMAIN tasks : tasks[i] = "left") /\ SC!Answers(p, output)
  BY <1>1 DEF SC!GroupWait, SC!Expired
<1>3. tasks \in [1..Limit -> {"run", "pushed", "left"}] /\ output = Cardinality(Pushes(tasks))
  BY <1>2 DEF GroupCalls
<1>4. Pushes(tasks) = 1..Limit
  BY <1>2, <1>3 DEF Pushes
<1>5. 1 \in Int /\ Limit \in Int /\ Limit > 0
  BY SharedAssumption
<1>6. Cardinality(1..Limit) = Limit
  <2>1. Cardinality(1..Limit) = (Limit - 1) + 1
    BY <1>5, FS_Interval
  <2>2. (Limit - 1) + 1 = Limit
    BY <1>5
  <2> QED
    BY <2>1, <2>2
<1>7. output = Limit /\ output \in Int
  BY <1>3, <1>4, <1>5, <1>6
<1> QED
  BY <1>1, <1>2, <1>7, AnswerIs

----------------------------------------------------------------------------
(* Launch                                                                  *)

LaunchCalls == tasks = <<"closed">> => ctx = "canceled"

LEMMA LaunchCallsNext == ASSUME LaunchCalls, kind.exec = "launch", SC!Next PROVE LaunchCalls'
<1>1. \/ SC!Launch \/ SC!SignalRan \/ SC!SignalDropped
      \/ \E p \in Callers : SC!Call(p) \/ SC!Expire(p) \/ SC!LaunchWait(p)
  BY NextByKind
<1>2. "run" # "closed" /\ "send" # "closed"
  OBVIOUS
<1>3. <<"run">> # <<"closed">> /\ <<"send">> # <<"closed">>
  <2>1. \A a, b : <<a>> = <<b>> => a = b
    OBVIOUS
  <2> QED
    BY <1>2, <2>1
<1>4. CASE SC!Launch
  <2>1. tasks' = <<"run">>
    BY <1>4 DEF SC!Launch
  <2> QED
    BY <1>3, <2>1 DEF LaunchCalls
<1>5. CASE SC!SignalRan
  BY <1>3, <1>5 DEF SC!SignalRan, LaunchCalls
<1>6. CASE SC!SignalDropped
  BY <1>6 DEF SC!SignalDropped, LaunchCalls
<1>7. ASSUME NEW p \in Callers, SC!Call(p) \/ SC!Expire(p) \/ SC!LaunchWait(p) PROVE LaunchCalls'
  BY <1>7 DEF SC!Call, SC!Expire, SC!LaunchWait, SC!shared, LaunchCalls
<1> QED
  BY <1>1, <1>4, <1>5, <1>6, <1>7

LEMMA LaunchAnswers ==
  ASSUME CallsTyped, LaunchCalls, kind.exec = "launch", NEW p \in Callers, SC!LaunchWait(p)
  PROVE  SC!AnswerIsOfRun(p)
<1>1. SUFFICES ASSUME answer'[p] = 0 PROVE ctx = "canceled"
  BY DEF SC!AnswerIsOfRun, SC!exec
<1>2. kind.returns
  BY KindsAllowed DEF CallsTyped, RestTyped, KindAllowed
<1>3. SC!Answers(p, -1) \/ SC!Answers(p, 1) \/ (tasks = <<"closed">> /\ SC!Answers(p, 0))
  BY DEF SC!LaunchWait, SC!Expiry
<1>4. -1 \in Int /\ 1 \in Int /\ -1 # 0 /\ 1 # 0
  OBVIOUS
<1>5. ~SC!Answers(p, -1) /\ ~SC!Answers(p, 1)
  BY <1>1, <1>2, <1>4, AnswerIs
<1> QED
  BY <1>3, <1>5 DEF LaunchCalls

----------------------------------------------------------------------------
(* All the wrappers                                                        *)

CallsInv ==
  /\ CallsTyped
  /\ kind.exec = "once" => OnceCalls
  /\ kind.exec = "limit" => LimitCalls
  /\ LimitedOperation => OpLimitCalls
  /\ kind.exec = "ttl" => TTLCalls
  /\ kind.exec = "lock" => Holder
  /\ kind.exec = "cancel" => CancelCalls
  /\ kind.exec = "group" => GroupCalls
  /\ kind.exec = "launch" => LaunchCalls

LEMMA CallsInit == ASSUME SC!Init PROVE CallsInv
<1>1. /\ pc = [p \in Callers |-> "idle"] /\ begun = <<>> /\ ended = <<>> /\ panicked = {}
      /\ mtx = 0 /\ output = 0 /\ counter = 0 /\ once = "new" /\ now = 1 /\ lastAt = 0 /\ ctx = "none"
      /\ tasks = <<>>
  BY DEF SC!Init, SC!Free
<1>2. Len(begun) = 0 /\ 0 \notin Callers /\ Limit \in Nat \ {0} /\ (1..0) = {}
  BY <1>1, SharedAssumption
<1>3. Answered = {}
  BY <1>1, <1>2 DEF Answered, Good
<1>4. IsLatest(output, Answered)
  BY <1>1, <1>3 DEF IsLatest
<1>5. Holder
  BY <1>1, <1>2 DEF Holder, Holding
<1>6. OnceCalls
  BY <1>1, <1>2 DEF OnceCalls
<1>7. LimitCalls
  <2>1. Counted = {}
    BY <1>1, <1>2 DEF Counted
  <2>2. Cardinality(Counted) = 0
    BY <2>1, FS_EmptySet
  <2> QED
    BY <1>1, <1>2, <1>4, <1>5, <2>2 DEF LimitCalls
<1>8. OpLimitCalls
  BY <1>1, <1>2 DEF OpLimitCalls
<1>9. TTLCalls
  BY <1>1, <1>2, <1>4, <1>5 DEF TTLCalls, Settled, Spaced
<1>10. CancelCalls
  BY <1>1, <1>2 DEF CancelCalls
<1>11. GroupCalls
  BY <1>1 DEF GroupCalls
<1>12. LaunchCalls
  <2>1. <<>> # <<"closed">>
    OBVIOUS
  <2> QED
    BY <1>1, <2>1 DEF LaunchCalls
<1> QED
  BY <1>5, <1>6, <1>7, <1>8, <1>9, <1>10, <1>11, <1>12, CallsTypedInit DEF CallsInv

LEMMA CallsNext == ASSUME CallsInv, SC!Next PROVE CallsInv'
<1>1. CallsTyped' /\ kind' = kind
  BY CallsTypedNext DEF CallsInv
<1>2. LimitedOperation' = LimitedOperation
  BY <1>1 DEF LimitedOperation
<1>3. kind.exec = "once" => OnceCalls'
  BY OnceCallsNext DEF CallsInv
<1>4. kind.exec = "limit" => LimitCalls'
  BY LimitCallsNext DEF CallsInv
<1>5. LimitedOperation => OpLimitCalls'
  BY OpLimitCallsNext DEF CallsInv
<1>6. kind.exec = "ttl" => TTLCalls'
  BY TTLCallsNext DEF CallsInv
<1>7. kind.exec = "lock" => Holder'
  BY LockCallsNext DEF CallsInv
<1>8. kind.exec = "cancel" => CancelCalls'
  BY CancelCallsNext DEF CallsInv
<1>9. kind.exec = "group" => GroupCalls'
  BY GroupCallsNext DEF CallsInv
<1>10. kind.exec = "launch" => LaunchCalls'
  BY LaunchCallsNext DEF CallsInv
<1> QED
  BY <1>1, <1>2, <1>3, <1>4, <1>5, <1>6, <1>7, <1>8, <1>9, <1>10 DEF CallsInv

LEMMA CallsStutter == ASSUME CallsInv, UNCHANGED SC!vars PROVE CallsInv'
<1>1. /\ UNCHANGED <<kind, pc, seen, answer, at, ended, begun, panicked, mtx, output, counter>>
      /\ UNCHANGED <<once, now, lastAt, ctx, tasks>>
  BY DEF SC!vars
<1>2. CallsTyped' = CallsTyped
  BY <1>1 DEF CallsTyped, Placed, RunsTyped, RestTyped
<1>3. Holder' = Holder /\ Answered' = Answered /\ Counted' = Counted
  BY <1>1 DEF Holder, Answered, Counted
<1>4. OnceCalls' = OnceCalls /\ CancelCalls' = CancelCalls
  BY <1>1, <1>3 DEF OnceCalls, CancelCalls
<1>5. LimitCalls' = LimitCalls /\ OpLimitCalls' = OpLimitCalls
  BY <1>1, <1>3 DEF LimitCalls, OpLimitCalls
<1>6. TTLCalls' = TTLCalls
  BY <1>1, <1>3 DEF TTLCalls, Settled, Spaced
<1>7. GroupCalls' = GroupCalls /\ LaunchCalls' = LaunchCalls
  BY <1>1 DEF GroupCalls, LaunchCalls, Pushes
<1>8. LimitedOperation' = LimitedOperation /\ kind' = kind
  BY <1>1 DEF LimitedOperation
<1> QED
  BY <1>2, <1>3, <1>4, <1>5, <1>6, <1>7, <1>8 DEF CallsInv

LEMMA CallsAllowed == ASSUME CallsInv PROVE SC!RunsAsAllowed
<1>1. kind.exec = "once" => Len(begun) <= 1
  BY DEF CallsInv, OnceCalls
<1>2. kind.exec = "limit" => SC!Cardinality((1..Len(begun)) \ panicked) <= Limit
  <2>1. SUFFICES ASSUME LimitCalls PROVE Cardinality(Counted) <= Limit
    BY SameCount DEF CallsInv, Counted
  <2>2. counter \in Nat /\ Limit \in Nat /\ counter <= Limit
    BY <2>1, SharedAssumption DEF CallsInv, CallsTyped, RestTyped, LimitCalls
  <2>3. CASE mtx = 0
    BY <2>1, <2>2, <2>3 DEF LimitCalls
  <2>4. CASE mtx # 0
    BY <2>1, <2>2, <2>4 DEF LimitCalls
  <2> QED
    BY <2>3, <2>4
<1>3. LimitedOperation => Len(begun) <= Limit
  BY DEF CallsInv, OpLimitCalls
<1>4. kind.exec \in {"once", "limit", "ttl", "lock"} => SC!Cardinality(SC!Running) <= 1
  <2>1. CASE kind.exec = "once"
    <3>1. \A p, q \in SC!Running : p = q
      BY <2>1 DEF CallsInv, OnceCalls, SC!Running
    <3>2. \E x : SC!Running \subseteq {x}
      BY <3>1
    <3> QED
      BY <3>2, AtMostOne, SameCount
  <2>2. CASE kind.exec \in {"limit", "ttl", "lock"}
    <3>1. Holder
      BY <2>2 DEF CallsInv, LimitCalls, TTLCalls
    <3> QED
      BY <3>1, HolderOnly, SameCount
  <2> QED
    BY <2>1, <2>2
<1>5. kind.exec = "ttl" =>
        \A i, j \in 1..Len(begun) : i < j /\ i \notin panicked => ended[i] # 0 /\ begun[j] - ended[i] >= Dur
  BY DEF CallsInv, TTLCalls, Spaced
<1>6. kind.exec = "cancel" /\ counter = 1 => ctx # "live"
  BY DEF CallsInv, CancelCalls
<1> QED
  BY <1>1, <1>2, <1>3, <1>4, <1>5, <1>6 DEF SC!RunsAsAllowed, SC!exec, SC!Runs, LimitedOperation

\* A caller's step changes where no other caller is.
LEMMA OwnPlace ==
  ASSUME Placed, NEW q \in Callers,
         \/ SC!Call(q) \/ SC!Expire(q) \/ SC!OnceCall(q) \/ SC!OnceEnd(q)
         \/ SC!LimitFast(q) \/ SC!LimitRead(q) \/ SC!LimitLocked(q) \/ SC!LimitEnd(q) \/ SC!LimitCount(q)
         \/ SC!TTLRead(q) \/ SC!TTLLocked(q) \/ SC!TTLEnd(q) \/ SC!WithLock(q) \/ SC!LockEnd(q)
         \/ SC!CancelCall(q) \/ SC!FreeEnd(q) \/ SC!GroupWait(q) \/ SC!LaunchWait(q)
  PROVE  \A r \in Callers : r # q => pc'[r] = pc[r]
<1> USE DEF SC!Goto, SC!Answers, SC!Begins, Placed
<1>1. ASSUME NEW l, pc' = [pc EXCEPT ![q] = l] PROVE \A r \in Callers : r # q => pc'[r] = pc[r]
  BY <1>1
<1>2. CASE SC!Call(q) \/ SC!Expire(q) \/ SC!OnceCall(q) \/ SC!OnceEnd(q)
  BY <1>2 DEF SC!Call, SC!Expire, SC!OnceCall, SC!OnceEnd
<1>3. CASE SC!LimitFast(q) \/ SC!LimitRead(q) \/ SC!LimitLocked(q) \/ SC!LimitEnd(q) \/ SC!LimitCount(q)
  BY <1>3 DEF SC!LimitFast, SC!LimitRead, SC!LimitLocked, SC!LimitEnd, SC!LimitCount
<1>4. CASE SC!TTLRead(q) \/ SC!TTLLocked(q) \/ SC!TTLEnd(q) \/ SC!WithLock(q) \/ SC!LockEnd(q)
  BY <1>4 DEF SC!TTLRead, SC!TTLLocked, SC!TTLEnd, SC!WithLock, SC!LockEnd
<1>5. CASE SC!CancelCall(q) \/ SC!GroupWait(q) \/ SC!LaunchWait(q)
  BY <1>5 DEF SC!CancelCall, SC!GroupWait, SC!LaunchWait
<1>6. CASE SC!FreeEnd(q)
  <2>1. pc' = [pc EXCEPT ![q] = "idle"]
    BY <1>6 DEF SC!FreeEnd
  <2> QED
    BY <1>1, <2>1
<1> QED
  BY <1>2, <1>3, <1>4, <1>5, <1>6

LEMMA CallsAnswer ==
  ASSUME CallsInv, SC!Next, NEW p \in Callers, pc[p] # "idle", pc'[p] = "idle"
  PROVE  SC!AnswerIsOfRun(p)
<1>1. CallsTyped /\ CallsTyped' /\ Placed
  BY CallsTypedNext DEF CallsInv, CallsTyped
<1>2. ASSUME NEW q \in Callers, \A r \in Callers : r # q => pc'[r] = pc[r] PROVE q = p
  BY <1>2
<1>3. ASSUME UNCHANGED pc PROVE FALSE
  BY <1>3
<1>4. ~SC!Call(p) /\ ~SC!Expire(p)
  BY <1>1, <1>3 DEF SC!Call, SC!Expire, SC!Goto, Placed
<1>5. CASE kind.exec = "once"
  <2>1. SC!OnceCall(p) \/ SC!OnceEnd(p)
    BY <1>1, <1>2, <1>4, <1>5, NextByKind, OwnPlace
  <2> QED
    BY <1>1, <1>5, <2>1, OnceAnswers DEF CallsInv
<1>6. CASE kind.exec = "limit"
  <2>1. \/ SC!LimitFast(p) \/ SC!LimitRead(p) \/ SC!LimitLocked(p) \/ SC!LimitEnd(p) \/ SC!LimitCount(p)
    BY <1>1, <1>2, <1>4, <1>6, NextByKind, OwnPlace
  <2> QED
    BY <1>1, <1>6, <2>1, LimitAnswers DEF CallsInv
<1>7. CASE kind.exec = "ttl"
  <2>1. ~SC!Tick
    BY <1>3 DEF SC!Tick
  <2>2. SC!TTLRead(p) \/ SC!TTLLocked(p) \/ SC!TTLEnd(p)
    BY <1>1, <1>2, <1>4, <1>7, <2>1, NextByKind, OwnPlace
  <2> QED
    BY <1>1, <1>7, <2>2, TTLAnswers DEF CallsInv
<1>8. CASE kind.exec = "lock"
  <2>1. SC!WithLock(p) \/ SC!LockEnd(p)
    BY <1>1, <1>2, <1>4, <1>8, NextByKind, OwnPlace
  <2> QED
    BY <1>1, <1>8, <2>1, LockAnswers
<1>9. CASE kind.exec = "cancel"
  <2>1. ~SC!Cancel
    BY <1>3 DEF SC!Cancel
  <2>2. SC!CancelCall(p) \/ SC!FreeEnd(p)
    BY <1>1, <1>2, <1>4, <1>9, <2>1, NextByKind, OwnPlace
  <2> QED
    BY <1>1, <1>9, <2>2, CancelAnswers DEF CallsInv
<1>10. CASE kind.exec = "group"
  <2>1. ~SC!StartGroup /\ \A i \in 1..Limit : ~SC!Pushed(i) /\ ~SC!Left(i)
    BY <1>3 DEF SC!StartGroup, SC!Pushed, SC!Left
  <2>2. SC!GroupWait(p)
    BY <1>1, <1>2, <1>4, <1>10, <2>1, NextByKind, OwnPlace
  <2> QED
    BY <1>1, <1>10, <2>2, GroupAnswers DEF CallsInv
<1>11. CASE kind.exec = "launch"
  <2>1. ~SC!Launch /\ ~SC!SignalRan /\ ~SC!SignalDropped
    BY <1>3 DEF SC!Launch, SC!SignalRan, SC!SignalDropped
  <2>2. SC!LaunchWait(p)
    BY <1>1, <1>2, <1>4, <1>11, <2>1, NextByKind, OwnPlace
  <2> QED
    BY <1>1, <1>11, <2>2, LaunchAnswers DEF CallsInv
<1>12. CASE kind.exec \notin {"once", "limit", "ttl", "lock", "cancel", "group", "launch"}
  BY <1>12 DEF SC!AnswerIsOfRun, SC!exec
<1> QED
  BY <1>5, <1>6, <1>7, <1>8, <1>9, <1>10, <1>11, <1>12

----------------------------------------------------------------------------
(* srv.Orchestrator                                                        *)

Looking == orc \in {"look", "lookAgain"}
Queued(s) == \E i \in 1..Len(input) : input[i] = s

OrcTyped ==
  /\ input \in Seq(Services) /\ added \in Seq(Services)
  /\ isRunning \in [Services -> BOOLEAN] /\ isStarted \in [Services -> BOOLEAN]
  /\ isFinished \in [Services -> BOOLEAN] /\ over \in [Services -> BOOLEAN]
  /\ starting \in [Services -> BOOLEAN] /\ fails \in [Services -> BOOLEAN]
  /\ owner \in [Services -> {"none", "orc", "user"}]
  /\ guard \in [Services -> {"none", "start", "starting", "waitFor", "waitAll", "blockedFor", "blockedAll", "done"}]
  /\ Looking => cur \in Services
  /\ errs \subseteq Services \X {"failed", "start", "notStarted"}

\* What the flags of a service say of who started it.
Flags ==
  \A s \in Services :
    /\ owner[s] = "none" => /\ ~isRunning[s] /\ ~isStarted[s] /\ ~isFinished[s]
                            /\ ~starting[s] /\ ~over[s] /\ ~fails[s]
    /\ owner[s] # "none" => /\ starting[s] \/ isStarted[s]
                            /\ isRunning[s] \/ isFinished[s] \/ isStarted[s]
    /\ over[s] \/ fails[s] => isFinished[s]

\* Each service that was added has one place: the queue, the orchestrator's hands, or a
\* goroutine.
OnePlace ==
  /\ \A i, j \in 1..Len(input) : input[i] = input[j] => i = j
  /\ \A s \in Services : Queued(s) => guard[s] = "none" /\ ~(Looking /\ cur = s)
  /\ Looking => guard[cur] = "none"
  /\ \A s \in Services : OR!SX!Contains(added, s) <=> Queued(s) \/ (Looking /\ cur = s) \/ guard[s] # "none"

\* The goroutine for a service the orchestrator started sees it end, and only of one that a
\* user started are other errors told.
Guarded ==
  \A s \in Services :
    /\ owner[s] = "orc" => guard[s] \in {"starting", "waitAll", "blockedAll", "done"}
    /\ owner[s] = "orc" /\ guard[s] # "starting" => isStarted[s]
    /\ owner[s] = "orc" /\ guard[s] = "done" => isFinished[s] /\ (fails[s] => <<s, "failed">> \in errs)
    /\ guard[s] \in {"starting", "waitFor", "waitAll", "blockedFor", "blockedAll"} => owner[s] # "none"
Honest == \A e \in errs : owner[e[1]] # "user" => e[2] = "failed" /\ fails[e[1]]
AllDone == orc = "returned" => \A s \in Services : guard[s] \in {"none", "done"}

OrcInv == OrcTyped /\ Flags /\ OnePlace /\ Guarded /\ Honest /\ AllDone

\* The first element of a sequence, and what is behind it.
LEMMA FirstTaken ==
  ASSUME NEW S, NEW q \in Seq(S), q # <<>>
  PROVE  /\ Head(q) = q[1] /\ 1 \in 1..Len(q) /\ Head(q) \in S
         /\ Tail(q) \in Seq(S)
         /\ \A j \in 1..Len(Tail(q)) : j + 1 \in 1..Len(q) /\ Tail(q)[j] = q[j + 1]
         /\ \A i \in 1..Len(q) : i = 1 \/ (i - 1 \in 1..Len(Tail(q)) /\ Tail(q)[i - 1] = q[i])
<1>1. PICK n : n = Len(q)
  OBVIOUS
<1>2. PICK t : t = Tail(q)
  OBVIOUS
<1>3. n \in Nat /\ n # 0
  BY <1>1, EmptySeq, LenProperties
<1>4. Head(q) = q[1] /\ t \in Seq(S) /\ Len(t) = n - 1 /\ \A j \in 1..Len(t) : t[j] = q[j + 1]
  BY <1>1, <1>2, HeadTailProperties
<1>5. 1 \in 1..n /\ q[1] \in S
  BY <1>1, <1>3, ElementOfSeq
<1>6. \A j \in 1..(n - 1) : j + 1 \in 1..n
  BY <1>3
<1>7. \A i \in 1..n : i = 1 \/ (i - 1 \in 1..(n - 1) /\ (i - 1) + 1 = i)
  BY <1>3
<1> QED
  BY <1>1, <1>2, <1>4, <1>5, <1>6, <1>7

LEMMA OrcInit == ASSUME OR!Init PROVE OrcInv
<1>1. input = <<>> /\ added = <<>> /\ Len(input) = 0 /\ Len(added) = 0 /\ input \in Seq(Services) /\ added \in Seq(Services)
  BY EmptySeq DEF OR!Init
<1>2. OrcTyped
  BY <1>1 DEF OR!Init, OrcTyped, Looking
<1>3. \A s \in Services : ~Queued(s) /\ ~OR!SX!Contains(added, s)
  BY <1>1 DEF Queued, OR!SX!Contains
<1>4. OnePlace
  BY <1>1, <1>3 DEF OR!Init, OnePlace, Looking
<1> QED
  BY <1>2, <1>4 DEF OR!Init, OrcInv, Flags, Guarded, Honest, AllDone

\* A step of the services alone: their flags and owners move as they may, and nothing else.
LEMMA FlagsMove ==
  ASSUME OrcInv, NEW s \in Services, OR!UserStart(s) \/ OR!Started(s) \/ OR!RunEnd(s) \/ OR!Over(s)
  PROVE  OrcInv'
<1>1. UNCHANGED <<input, added, orc, cur, guard, errs>>
  BY DEF OR!UserStart, OR!Started, OR!RunEnd, OR!Over, OR!queue
<1>2. OnePlace' /\ AllDone'
  BY <1>1 DEF OrcInv, OnePlace, AllDone, Queued, Looking, OR!SX!Contains
<1>3. CASE OR!UserStart(s)
  BY <1>1, <1>2, <1>3 DEF OR!UserStart, OR!Startable, OR!Claim, OrcInv, OrcTyped, Flags, Guarded, Honest, Looking
<1>4. CASE OR!Started(s)
  BY <1>1, <1>2, <1>4 DEF OR!Started, OrcInv, OrcTyped, Flags, Guarded, Honest, Looking
<1>5. CASE OR!RunEnd(s)
  BY <1>1, <1>2, <1>5 DEF OR!RunEnd, OrcInv, OrcTyped, Flags, Guarded, Honest, Looking
<1>6. CASE OR!Over(s)
  BY <1>1, <1>2, <1>6 DEF OR!Over, OrcInv, OrcTyped, Flags, Guarded, Honest, Looking
<1> QED
  BY <1>3, <1>4, <1>5, <1>6

\* A step of a goroutine: a service that had one keeps one.
LEMMA GuardMoves == ASSUME OrcInv, NEW s \in Services, OR!Guard(s) PROVE OrcInv'
<1>1. UNCHANGED <<input, added, orc, cur, isStarted, isFinished, over, fails>>
  BY DEF OR!Guard, OR!Start, OR!StartEnd, OR!waitFor, OR!Wait, OR!queue, OR!flags
<1>2. PICK l : guard' = [guard EXCEPT ![s] = l] /\ guard[s] # "none" /\ l # "none" /\ guard[s] # "done"
  BY DEF OR!Guard, OR!Start, OR!StartEnd, OR!waitFor, OR!Wait, OR!Go
<1>3. \A t \in Services : guard'[t] = "none" <=> guard[t] = "none"
  BY <1>2 DEF OrcInv, OrcTyped
<1>4. OnePlace' /\ AllDone'
  <2>1. \A t \in Services : Queued(t)' <=> Queued(t)
    BY <1>1 DEF Queued
  <2>2. \A t \in Services : OR!SX!Contains(added, t)' <=> OR!SX!Contains(added, t)
    BY <1>1 DEF OR!SX!Contains
  <2>3. Looking' <=> Looking
    BY <1>1 DEF Looking
  <2>4. OnePlace'
    BY <1>1, <1>3, <2>1, <2>2, <2>3 DEF OrcInv, OnePlace, OrcTyped
  <2>5. AllDone'
    BY <1>1, <1>2 DEF OrcInv, AllDone, OrcTyped
  <2> QED
    BY <2>4, <2>5
<1>5. CASE OR!Start(s)
  <2>1. guard[s] = "start"
    BY <1>5 DEF OR!Start
  <2>2. CASE OR!Startable(s) /\ OR!Claim(s, "orc") /\ OR!Go(s, "starting") /\ UNCHANGED errs
    <3>1. owner[s] = "none"
      BY <2>2 DEF OR!Startable, OrcInv, Flags
    <3> QED
      BY <1>1, <1>4, <2>2, <3>1 DEF OR!Claim, OR!Go, OrcInv, OrcTyped, Flags, Guarded, Honest, Looking
  <2>3. CASE ~OR!Startable(s) /\ errs' = errs \union {<<s, "start">>} /\ OR!Go(s, "waitAll")
             /\ UNCHANGED <<isRunning, owner, starting>>
    <3>1. owner[s] = "user"
      BY <2>1, <2>3 DEF OR!Startable, OrcInv, OrcTyped, Flags, Guarded
    <3>2. errs' \subseteq Services \X {"failed", "start", "notStarted"}
      BY <2>3 DEF OrcInv, OrcTyped
    <3>3. Honest'
      BY <1>1, <2>3, <3>1 DEF OrcInv, Honest
    <3>4. OrcTyped' /\ Flags' /\ Guarded'
      BY <1>1, <2>3, <3>1, <3>2 DEF OR!Go, OrcInv, OrcTyped, Flags, Guarded, Looking
    <3> QED
      BY <1>4, <3>3, <3>4 DEF OrcInv
  <2> QED
    BY <1>5, <2>2, <2>3 DEF OR!Start
<1>6. CASE OR!StartEnd(s)
  BY <1>1, <1>4, <1>6 DEF OR!StartEnd, OR!Go, OR!flags, OrcInv, OrcTyped, Flags, Guarded, Honest, Looking
<1>7. ASSUME isFinished[s] \/ owner[s] # "orc", guard[s] \notin {"start", "starting"},
             errs' = errs \union OR!Resolve(s), OR!Go(s, "done"), UNCHANGED <<isRunning, owner, starting>>
      PROVE  OrcInv'
  <2>1. errs' \subseteq Services \X {"failed", "start", "notStarted"}
    BY <1>7 DEF OrcInv, OrcTyped, OR!Resolve
  <2>2. OrcTyped' /\ Flags'
    BY <1>1, <1>7, <2>1 DEF OR!Go, OrcInv, OrcTyped, Flags, Looking
  <2>3. guard'[s] = "done" /\ \A t \in Services : t # s => guard'[t] = guard[t]
    BY <1>7 DEF OR!Go, OrcInv, OrcTyped
  <2>4. (fails[s] => <<s, "failed">> \in errs') /\ (owner[s] = "orc" => guard[s] # "none") /\ errs \subseteq errs'
    BY <1>2, <1>7 DEF OR!Resolve
  <2>5. owner[s] = "orc" /\ guard[s] # "starting" => isStarted[s]
    BY DEF OrcInv, Guarded
  <2>6. Honest'
    BY <1>1, <1>7 DEF OrcInv, Honest, OR!Resolve
  <2>7. Guarded'
    BY <1>1, <1>7, <2>3, <2>4, <2>5 DEF OrcInv, Guarded
  <2> QED
    BY <1>4, <2>2, <2>6, <2>7 DEF OrcInv
<1>8. CASE OR!waitFor(s)
  <2>1. guard[s] \in {"waitFor", "waitAll"} /\ UNCHANGED <<isRunning, owner, starting>>
    BY <1>8 DEF OR!waitFor, OR!flags
  <2>2. CASE isFinished[s] /\ errs' = errs \union OR!Resolve(s) /\ OR!Go(s, "done")
    BY <1>7, <2>1, <2>2
  <2>3. CASE ~isFinished[s] /\ ~isStarted[s] /\ errs' = errs \union {<<s, "notStarted">>} /\ OR!Go(s, "done")
    <3>1. owner[s] = "user"
      BY <2>1, <2>3 DEF OrcInv, OrcTyped, Guarded
    <3>2. errs' \subseteq Services \X {"failed", "start", "notStarted"}
      BY <2>3 DEF OrcInv, OrcTyped
    <3>3. Honest'
      BY <1>1, <2>1, <2>3, <3>1 DEF OrcInv, Honest
    <3>4. OrcTyped' /\ Flags' /\ Guarded'
      BY <1>1, <2>1, <2>3, <3>1, <3>2 DEF OR!Go, OrcInv, OrcTyped, Flags, Guarded, Looking
    <3> QED
      BY <1>4, <3>3, <3>4 DEF OrcInv
  <2>4. CASE ~isFinished[s] /\ isStarted[s] /\ UNCHANGED errs
             /\ OR!Go(s, IF guard[s] = "waitFor" THEN "blockedFor" ELSE "blockedAll")
    BY <1>1, <1>4, <2>1, <2>4 DEF OR!Go, OrcInv, OrcTyped, Flags, Guarded, Honest, Looking
  <2> QED
    BY <1>8, <2>2, <2>3, <2>4 DEF OR!waitFor
<1>9. CASE OR!Wait(s)
  <2>1. /\ guard[s] \in {"blockedFor", "blockedAll"} /\ UNCHANGED <<isRunning, owner, starting>>
        /\ errs' = errs \union OR!Resolve(s) /\ OR!Go(s, "done")
        /\ over[s] \/ guard[s] = "blockedFor"
    BY <1>9 DEF OR!Wait, OR!flags
  <2>2. isFinished[s] \/ owner[s] # "orc"
    BY <2>1 DEF OrcInv, Flags, Guarded
  <2> QED
    BY <1>7, <2>1, <2>2
<1> QED
  BY <1>5, <1>6, <1>8, <1>9 DEF OR!Guard

\* Add queues a service that has no place.
LEMMA AddQueues == ASSUME OrcInv, NEW s \in Services, OR!Add(s) PROVE OrcInv'
<1>1. /\ ~OR!SX!Contains(added, s) /\ added' = Append(added, s) /\ input' = Append(input, s)
      /\ UNCHANGED <<orc, cur, isRunning, isStarted, isFinished, over, owner, starting, fails, guard, errs>>
  BY DEF OR!Add, OR!flags
<1>2. PICK n, m : n = Len(input) /\ m = Len(added)
  OBVIOUS
<1>3. n \in Nat /\ m \in Nat
  BY <1>2, LenProperties DEF OrcInv, OrcTyped
<1>4. /\ input' \in Seq(Services) /\ Len(input') = n + 1 /\ input'[n + 1] = s /\ \A i \in 1..n : input'[i] = input[i]
      /\ added' \in Seq(Services) /\ Len(added') = m + 1 /\ added'[m + 1] = s /\ \A i \in 1..m : added'[i] = added[i]
  BY <1>1, <1>2, AppendProperties DEF OrcInv, OrcTyped
<1>5. (\A i \in 1..(n + 1) : i \in 1..n \/ i = n + 1) /\ (\A i \in 1..n : i \in 1..(n + 1)) /\ n + 1 \in 1..(n + 1)
  BY <1>3
<1>6. (\A i \in 1..(m + 1) : i \in 1..m \/ i = m + 1) /\ (\A i \in 1..m : i \in 1..(m + 1)) /\ m + 1 \in 1..(m + 1)
  BY <1>3
<1>7. \A t \in Services : Queued(t)' <=> Queued(t) \/ t = s
  BY <1>2, <1>4, <1>5 DEF Queued
<1>8. \A t \in Services : OR!SX!Contains(added, t)' <=> OR!SX!Contains(added, t) \/ t = s
  BY <1>2, <1>4, <1>6 DEF OR!SX!Contains
<1>9. ~Queued(s) /\ ~(Looking /\ cur = s) /\ guard[s] = "none"
  BY <1>1 DEF OrcInv, OnePlace
<1>10. Looking' <=> Looking
  BY <1>1 DEF Looking
<1>11. \A i, j \in 1..Len(input') : input'[i] = input'[j] => i = j
  <2>1. \A i, j \in 1..n : input[i] = input[j] => i = j
    BY <1>2 DEF OrcInv, OnePlace
  <2>2. \A i \in 1..n : input[i] # s
    BY <1>2, <1>9 DEF Queued
  <2> QED
    BY <1>4, <1>5, <2>1, <2>2
<1>12. OnePlace'
  BY <1>1, <1>7, <1>8, <1>9, <1>10, <1>11 DEF OrcInv, OnePlace
<1>13. OrcTyped'
  BY <1>1, <1>4, <1>10 DEF OrcInv, OrcTyped
<1> QED
  BY <1>1, <1>12, <1>13 DEF OrcInv, Flags, Guarded, Honest, AllDone

\* The orchestrator takes the first service in its queue.
LEMMA TakeHolds ==
  ASSUME OrcInv, OR!Take, ~Looking,
         UNCHANGED <<added, isRunning, isStarted, isFinished, over, owner, starting, fails, guard, errs>>
  PROVE  OrcInv'
<1>1. input # <<>> /\ cur' = Head(input) /\ input' = Tail(input) /\ orc' = "look"
  BY DEF OR!Take
<1>2. /\ cur' = input[1] /\ 1 \in 1..Len(input) /\ cur' \in Services /\ input' \in Seq(Services)
      /\ \A j \in 1..Len(input') : j + 1 \in 1..Len(input) /\ input'[j] = input[j + 1]
      /\ \A i \in 1..Len(input) : i = 1 \/ (i - 1 \in 1..Len(input') /\ input'[i - 1] = input[i])
  BY <1>1, FirstTaken DEF OrcInv, OrcTyped
<1>3. Looking'
  BY <1>1 DEF Looking
<1>4. \A t \in Services : Queued(t) <=> Queued(t)' \/ t = cur'
  BY <1>2 DEF Queued
<1>10. PICK c : c = cur'
  OBVIOUS
<1>5. \A j \in 1..Len(input') : j \in Int /\ j + 1 # 1 /\ (\A i \in 1..Len(input') : i + 1 = j + 1 => i = j)
  OBVIOUS
<1>6. (\A i, j \in 1..Len(input') : input'[i] = input'[j] => i = j) /\ \A i \in 1..Len(input') : input'[i] # cur'
  <2>1. \A i, j \in 1..Len(input) : input[i] = input[j] => i = j
    BY DEF OrcInv, OnePlace
  <2> QED
    BY <1>2, <1>5, <2>1
<1>7. OnePlace'
  <2>1. \A t \in Services : OR!SX!Contains(added, t)' <=> OR!SX!Contains(added, t)
    BY DEF OR!SX!Contains
  <2>2. c \in Services /\ Queued(c) /\ guard[c] = "none"
    BY <1>2, <1>4, <1>10 DEF OrcInv, OnePlace
  <2>3. ~Queued(c)'
    BY <1>6, <1>10 DEF Queued
  <2>4. \A t \in Services : Queued(t)' => guard[t] = "none" /\ ~(Looking' /\ cur' = t)
    BY <1>4, <1>10, <2>3 DEF OrcInv, OnePlace
  <2>5. \A t \in Services : OR!SX!Contains(added, t)' <=> Queued(t)' \/ (Looking' /\ cur' = t) \/ guard'[t] # "none"
    BY <1>3, <1>4, <1>10, <2>1, <2>2 DEF OrcInv, OnePlace
  <2> QED
    BY <1>6, <1>10, <2>2, <2>4, <2>5 DEF OnePlace
<1>8. OrcTyped'
  BY <1>2 DEF OrcInv, OrcTyped
<1>9. AllDone'
  BY <1>1 DEF AllDone
<1> QED
  BY <1>7, <1>8, <1>9 DEF OrcInv, Flags, Guarded, Honest

\* A step of the orchestrator that takes nothing up.
LEMMA Idles ==
  ASSUME OrcInv, ~Looking, ~Looking',
         UNCHANGED <<input, added, isRunning, isStarted, isFinished, over, owner, starting, fails, guard, errs>>,
         orc' = "returned" => \A s \in Services : guard[s] \in {"none", "done"}
  PROVE  OrcInv'
<1>1. \A t \in Services : Queued(t)' <=> Queued(t)
  BY DEF Queued
<1>2. \A t \in Services : OR!SX!Contains(added, t)' <=> OR!SX!Contains(added, t)
  BY DEF OR!SX!Contains
<1>3. OnePlace'
  BY <1>1, <1>2 DEF OrcInv, OnePlace
<1>4. OrcTyped'
  BY DEF OrcInv, OrcTyped
<1> QED
  BY <1>3, <1>4 DEF OrcInv, Flags, Guarded, Honest, AllDone

\* The orchestrator hands the service it looks at to a goroutine.
LEMMA HandsOver ==
  ASSUME OrcInv, Looking, ~Looking', orc' # "returned", NEW l \in {"start", "waitFor", "done"}, OR!Go(cur, l),
         UNCHANGED <<input, added, isRunning, isStarted, isFinished, over, owner, starting, fails>>
  PROVE  OnePlace' /\ AllDone' /\ Looking' = FALSE
<1>1. guard' = [guard EXCEPT ![cur] = l] /\ cur \in Services /\ guard[cur] = "none" /\ l # "none"
  BY DEF OR!Go, OrcInv, OrcTyped, OnePlace
<1>2. guard'[cur] = l /\ \A t \in Services : t # cur => guard'[t] = guard[t]
  BY <1>1 DEF OrcInv, OrcTyped
<1>3. \A t \in Services : Queued(t)' <=> Queued(t)
  BY DEF Queued
<1>4. \A t \in Services : OR!SX!Contains(added, t)' <=> OR!SX!Contains(added, t)
  BY DEF OR!SX!Contains
<1>5. OnePlace'
  BY <1>1, <1>2, <1>3, <1>4 DEF OrcInv, OnePlace
<1> QED
  BY <1>5 DEF AllDone

LEMMA Orchestrates == ASSUME OrcInv, OR!Orchestrate \/ OR!SetOrchestrator \/ OR!Cancel PROVE OrcInv'
<1>1. CASE OR!Pop
  <2>1. orc = "pop" /\ UNCHANGED <<added, isRunning, isStarted, isFinished, over, owner, starting, fails, guard, errs>>
        /\ (OR!Take \/ (orc' = "waitPop" /\ UNCHANGED input))
    BY <1>1 DEF OR!Pop, OR!flags
  <2> QED
    BY <2>1, TakeHolds, Idles DEF Looking
<1>2. CASE OR!WaitPop
  <2>1. orc = "waitPop" /\ UNCHANGED <<added, isRunning, isStarted, isFinished, over, owner, starting, fails, guard, errs>>
        /\ (OR!Take \/ (orc' = "wait" /\ UNCHANGED input))
    BY <1>2 DEF OR!WaitPop, OR!flags
  <2> QED
    BY <2>1, TakeHolds, Idles DEF Looking
<1>3. CASE OR!LookRunning /\ orc' = "lookAgain"
  <2>1. /\ Looking /\ Looking' /\ orc' # "returned"
        /\ UNCHANGED <<input, added, cur, isRunning, isStarted, isFinished, over, owner, starting, fails, guard, errs>>
    BY <1>3 DEF OR!LookRunning, OR!queue, OR!flags, Looking
  <2>2. OnePlace' /\ AllDone'
    BY <2>1 DEF OrcInv, OnePlace, AllDone, Queued, OR!SX!Contains
  <2> QED
    BY <2>1, <2>2 DEF OrcInv, OrcTyped, Flags, Guarded, Honest
<1>4. CASE OR!LookRunning /\ orc' = "pop"
  <2>1. /\ Looking /\ ~Looking' /\ orc' # "returned" /\ OR!Go(cur, "waitFor") /\ isRunning[cur]
        /\ UNCHANGED <<input, added, isRunning, isStarted, isFinished, over, owner, starting, fails, errs>>
    BY <1>4 DEF OR!LookRunning, OR!queue, OR!flags, Looking
  <2>2. OnePlace' /\ AllDone'
    BY <2>1, HandsOver
  <2> QED
    BY <2>1, <2>2 DEF OR!Go, OrcInv, OrcTyped, OnePlace, Flags, Guarded, Honest
<1>5. CASE OR!LookFinished
  <2>1. /\ Looking /\ ~Looking' /\ orc' # "returned"
        /\ UNCHANGED <<input, added, isRunning, isStarted, isFinished, over, owner, starting, fails>>
        /\ \/ isFinished[cur] /\ errs' = errs \union OR!Resolve(cur) /\ OR!Go(cur, "done")
           \/ OR!Go(cur, "start") /\ UNCHANGED errs
    BY <1>5 DEF OR!LookFinished, OR!queue, OR!flags, Looking
  <2>2. OnePlace' /\ AllDone'
    BY <2>1, HandsOver
  <2>3. cur \in Services /\ guard[cur] = "none" /\ owner[cur] # "orc"
    BY <2>1 DEF OrcInv, OrcTyped, OnePlace, Guarded
  <2>4. errs' \subseteq Services \X {"failed", "start", "notStarted"} /\ errs \subseteq errs'
    BY <2>1, <2>3 DEF OR!Resolve, OrcInv, OrcTyped
  <2>5. Honest'
    BY <2>1 DEF OR!Resolve, OrcInv, Honest
  <2>6. OrcTyped' /\ Flags'
    BY <2>1, <2>3, <2>4 DEF OR!Go, OrcInv, OrcTyped, Flags
  <2>7. guard'[cur] \in {"start", "done"} /\ \A s \in Services : s # cur => guard'[s] = guard[s]
    BY <2>1, <2>3 DEF OR!Go, OrcInv, OrcTyped
  <2>8. Guarded'
    BY <2>1, <2>3, <2>4, <2>7 DEF OrcInv, Guarded
  <2> QED
    BY <2>2, <2>5, <2>6, <2>8 DEF OrcInv
<1>6. CASE OR!Service \/ OR!SetOrchestrator
  <2>1. /\ ~Looking /\ ~Looking' /\ (orc' = "returned" => \A s \in Services : guard[s] \in {"none", "done"})
        /\ UNCHANGED <<input, added, isRunning, isStarted, isFinished, over, owner, starting, fails, guard, errs>>
    BY <1>6 DEF OR!Service, OR!SetOrchestrator, OR!queue, OR!flags, Looking
  <2> QED
    BY <2>1, Idles
<1>7. CASE OR!Cancel
  <2>1. UNCHANGED <<orc, cur, input, added, isRunning, isStarted, isFinished, over, owner, starting, fails, guard, errs>>
    BY <1>7 DEF OR!Cancel, OR!queue, OR!flags
  <2>2. OnePlace'
    BY <2>1 DEF OrcInv, OnePlace, Looking, Queued, OR!SX!Contains
  <2> QED
    BY <2>1, <2>2 DEF OrcInv, OrcTyped, Flags, Guarded, Honest, AllDone, Looking
<1> QED
  BY <1>1, <1>2, <1>3, <1>4, <1>5, <1>6, <1>7 DEF OR!Orchestrate, OR!LookRunning

LEMMA OrcNext == ASSUME OrcInv, OR!Next PROVE OrcInv'
  BY FlagsMove, GuardMoves, AddQueues, Orchestrates DEF OR!Next

LEMMA OrcStutter == ASSUME OrcInv, UNCHANGED OR!vars PROVE OrcInv'
<1>1. UNCHANGED <<input, added, orc, cur, isRunning, isStarted, isFinished, over, owner, starting, fails, guard, errs>>
  BY DEF OR!vars, OR!queue, OR!flags
<1>2. OnePlace'
  BY <1>1 DEF OrcInv, OnePlace, Looking, Queued, OR!SX!Contains
<1> QED
  BY <1>1, <1>2 DEF OrcInv, OrcTyped, Flags, Guarded, Honest, AllDone, Looking

LEMMA OrcReports == ASSUME OrcInv PROVE OR!OrchestratorReports
<1>1. \A s \in Services : OR!SX!Contains(input, s) <=> Queued(s)
  BY DEF OR!SX!Contains, Queued
<1>2. ASSUME orc = "returned" PROVE ~Looking
  BY <1>2 DEF Looking
<1> QED
  BY <1>1, <1>2 DEF OrcInv, OrcTyped, OnePlace, Guarded, Honest, AllDone, OR!OrchestratorReports

----------------------------------------------------------------------------
(* The services that srv makes                                             *)

Left == {"returned", "joining", "cleanup", "drain", "finished"}

KindsTyped ==
  /\ kind \in SK!Kinds /\ ctx \in {"live", "canceled"} /\ given \in Nat
  /\ run \in {"start", "spawned", "pause", "failing"} \cup Left
  /\ stop \in [{"service", "watch"} -> {"wait", "in", "sleep", "done"}]
  /\ item \in [Items -> {"new", "going", "begun", "waiting", "recovering", "lost", "done", "queued", "refused"}]
  /\ life \in [Items -> {"idle", "running", "ended"}]
  /\ pipe \in {"open", "draining", "closed"} /\ drainer \in {"none", "draining", "done"}
  /\ expired \in BOOLEAN /\ proc \in {"none", "running", "exited", "failed"}
  /\ run = "drain" => SK!Cleanup
  /\ run = "pause" => SK!Daemon

\* A group's goroutine is done once it has told the error of its service.
GroupTells ==
  SK!Group => \A i \in Items :
    item[i] = "done" => /\ life[i] = "ended"
                        /\ i \in failed => i \in told /\ (run = "finished" => i \in reported)
\* An operation runs in a goroutine that Run or Cleanup waits for.
WaitJoins ==
  SK!Wait => /\ \A i \in Items : i \in Nat /\ i > given => item[i] = "new"
             /\ \A i \in Items : life[i] = "running" => item[i] = "begun"
             /\ run = "finished" => \A i \in Items : item[i] \notin {"going", "begun"}
\* A job runs while the pool does, and tells its error as it ends.
PoolTells ==
  SK!Cleanup \/ SK!WorkerPool =>
    /\ \A i \in Items : life[i] = "idle" /\ item[i] \notin {"going", "waiting", "recovering"}
    /\ \A i \in Items : item[i] = "begun" => run = (IF SK!WorkerPool THEN "start" ELSE "cleanup")
    /\ failed \subseteq told
    /\ run = "finished" => failed \subseteq reported
\* Unless its time is up, a cleanup's queue is closed by the drain, when it is empty.
CleanupEmpties ==
  SK!Cleanup => /\ drainer = "draining" => pipe = "draining"
                /\ pipe = "closed" /\ ~expired => \A i \in Items : item[i] # "queued"
                /\ run \in {"drain", "finished"} /\ ~expired => pipe = "closed"
\* A service with a process returns when the process has ended.
ProcessEnds ==
  /\ SK!Server => proc \in {"running", "exited"} /\ (run # "start" => proc = "exited")
  /\ SK!Cmd => /\ run = "start" => proc = "none"
               /\ run = "failing" => proc = "failed"
               /\ run \in Left => proc \in {"exited", "failed"}
  /\ ~SK!Server /\ ~SK!Cmd => proc = "none"
  /\ \A x \in {"service", "watch"} : stop[x] = "sleep" => "term" \in signals
  /\ "kill" \in signals => "term" \in signals
\* A daemon starts when it is due, and not after a run that began when it was canceled.
Paced ==
  /\ now \in Nat /\ starts \in Seq([at : Nat, ctx : {"live", "canceled"}])
  /\ ~SK!Daemon => starts = <<>>
  /\ SK!Daemon /\ run = "start" /\ starts # <<>> => now >= starts[Len(starts)].at + Interval
  /\ SK!Daemon /\ run \in {"spawned", "pause"} => starts # <<>>
  /\ \A i \in 2..Len(starts) : starts[i].at >= starts[i - 1].at + Interval
  /\ \A i \in 1..Len(starts) :
       starts[i].ctx = "canceled" => i = Len(starts) /\ ctx = "canceled" /\ run \notin {"start", "pause"}

\* All but the clock, and all.
Reporting == KindsTyped /\ GroupTells /\ WaitJoins /\ PoolTells /\ CleanupEmpties /\ ProcessEnds
KindsInv == Reporting /\ Paced

LEMMA KindsInit == ASSUME SK!Init PROVE KindsInv
<1>1. starts = <<>> /\ Len(starts) = 0 /\ starts \in Seq([at : Nat, ctx : {"live", "canceled"}])
  BY EmptySeq DEF SK!Init
<1>2. Paced
  BY <1>1 DEF SK!Init, Paced
<1> HIDE DEF Paced
<1> QED
  BY <1>2 DEF SK!Init, SK!Kinds, KindsInv, Reporting, KindsTyped, GroupTells, WaitJoins, PoolTells, CleanupEmpties, ProcessEnds, Left,
  SK!Group, SK!Wait, SK!Cleanup, SK!WorkerPool, SK!Server, SK!Cmd, SK!Daemon

LEMMA ReportingNext == ASSUME Reporting, SK!Next PROVE Reporting'
<1> USE DEF Reporting, KindsTyped, GroupTells, WaitJoins, PoolTells, CleanupEmpties, ProcessEnds, Left,
  SK!Group, SK!Wait, SK!Cleanup, SK!WorkerPool, SK!Server, SK!Cmd, SK!Daemon, SK!Kinds, SK!frame, SK!work, SK!queue, SK!process, SK!clock
<1>1. CASE SK!Close
  BY <1>1 DEF SK!Close
<1>2. CASE SK!Canceled
  BY <1>2 DEF SK!Canceled
<1>3. CASE SK!ShutdownBegins
  BY <1>3 DEF SK!ShutdownBegins, SK!Halt
<1>4. CASE SK!CleanupBegins
  BY <1>4 DEF SK!CleanupBegins
<1>5. CASE SK!ShutdownSignals
  BY <1>5 DEF SK!ShutdownSignals, SK!Halt
<1>6. CASE SK!NoCleanup
  BY <1>6 DEF SK!NoCleanup
<1>7. CASE SK!ForEach
  <2>1. CASE given' = given + 1 /\ item' = [item EXCEPT ![given + 1] = "going"] /\ UNCHANGED run
    <3>1. PICK j : j = given + 1
      OBVIOUS
    <3>2. item' = [item EXCEPT ![j] = "going"] /\ UNCHANGED run /\ run = "start"
      BY <1>7, <2>1, <3>1 DEF SK!ForEach
    <3>3. \A i \in Items : item'[i] = item[i] \/ item'[i] = "going"
      BY <3>2
    <3>4. UNCHANGED <<kind, ctx, asked, stop, life, failed, told, reported, SK!queue, SK!process>> /\ (SK!Group \/ SK!Wait)
      BY <1>7 DEF SK!ForEach
    <3>5. given' = j /\ j \in Nat
      BY <1>7, <2>1, <3>1 DEF SK!ForEach
    <3>6. KindsTyped'
      BY <3>2, <3>4, <3>5
    <3>7. GroupTells'
      BY <3>2, <3>3, <3>4
    <3>8. WaitJoins'
      <4>1. \A i \in Items : i \in Nat /\ i > j => i > given /\ i # j
        BY <3>1
      <4>2. j \in Items => j \in Nat /\ j > given
        BY <3>1
      <4> QED
        BY <3>2, <3>3, <3>4, <3>5, <4>1, <4>2
    <3>9. PoolTells' /\ CleanupEmpties' /\ ProcessEnds'
      BY <3>2, <3>4
    <3> QED
      BY <3>6, <3>7, <3>8, <3>9 DEF Reporting
  <2>2. CASE run' = "spawned" /\ UNCHANGED <<given, item>>
    BY <1>7, <2>2 DEF SK!ForEach
  <2> QED
    BY <1>7, <2>1, <2>2 DEF SK!ForEach
<1>8. CASE SK!RunSpawned
  BY <1>8 DEF SK!RunSpawned, SK!Return, SK!SpawnsDone, SK!In
<1>9. CASE SK!CleanupJoins
  BY <1>9 DEF SK!CleanupJoins, SK!In
<1>10. CASE SK!PoolEnds
  BY <1>10 DEF SK!PoolEnds, SK!Working, SK!In, SK!PoolContext
<1>11. CASE SK!DrainBegins
  BY <1>11 DEF SK!DrainBegins, SK!DrainOver
<1>12. CASE SK!DrainEnds
  BY <1>12 DEF SK!DrainEnds, SK!In, SK!DrainOver
<1>13. CASE SK!Timeout
  BY <1>13 DEF SK!Timeout
<1>14. CASE SK!PoolShutdown
  BY <1>14 DEF SK!PoolShutdown, SK!Halt
<1>15. CASE SK!RunSignal
  BY <1>15 DEF SK!RunSignal, SK!Return
<1>16. CASE SK!CleanupCloses
  BY <1>16 DEF SK!CleanupCloses
<1>17. CASE SK!RunServer
  BY <1>17 DEF SK!RunServer, SK!Return
<1>18. CASE SK!RunCmd
  BY <1>18 DEF SK!RunCmd
<1>19. CASE SK!CmdWait
  BY <1>19 DEF SK!CmdWait, SK!Return
<1>20. CASE SK!Exit
  BY <1>20 DEF SK!Exit
<1>21. CASE SK!WatchBegins
  BY <1>21 DEF SK!WatchBegins, SK!Halt
<1>22. CASE SK!RunBase
  BY <1>22 DEF SK!RunBase
<1>23. CASE SK!BaseEnds
  BY <1>23 DEF SK!BaseEnds, SK!Return
<1>24. CASE SK!Pause
  BY <1>24 DEF SK!Pause, SK!Return, SK!Due
<1>25. CASE SK!Tick
  BY <1>25 DEF SK!Tick
<1>26. ASSUME NEW i \in Items, SK!Begin(i) PROVE Reporting'
  BY <1>26 DEF SK!Begin, SK!Step
<1>27. ASSUME NEW i \in Items, SK!Ends(i) PROVE Reporting'
  BY <1>27 DEF SK!Ends
<1>28. ASSUME NEW i \in Items, SK!Deferred(i) PROVE Reporting'
  BY <1>28 DEF SK!Deferred, SK!Step
<1>29. ASSUME NEW i \in Items, SK!Recover(i) PROVE Reporting'
  BY <1>29 DEF SK!Recover, SK!Step
<1>30. ASSUME NEW i \in Items, SK!GroupWait(i) PROVE Reporting'
  BY <1>30 DEF SK!GroupWait, SK!Step, SK!Collected
<1>31. ASSUME NEW i \in Items, SK!AddCleanup(i) PROVE Reporting'
  BY <1>31 DEF SK!AddCleanup, SK!Step
<1>32. ASSUME NEW i \in Items, SK!Pop(i) PROVE Reporting'
  BY <1>32 DEF SK!Pop, SK!Step, SK!Working, SK!PoolContext
<1>33. ASSUME NEW i \in Items, SK!Job(i) PROVE Reporting'
  BY <1>33 DEF SK!Job, SK!Step, SK!Working
<1>34. ASSUME NEW x \in {"service", "watch"}, SK!Terminate(x) PROVE Reporting'
  BY <1>34 DEF SK!Terminate, SK!Halt, SK!IsDone
<1>35. ASSUME NEW x \in {"service", "watch"}, SK!Kill(x) PROVE Reporting'
  BY <1>35 DEF SK!Kill, SK!Halt, SK!IsDone
<1> QED
  BY <1>1, <1>2, <1>3, <1>4, <1>5, <1>6, <1>7, <1>8, <1>9, <1>10, <1>11, <1>12, <1>13, <1>14, <1>15, <1>16, <1>17, <1>18, <1>19, <1>20, <1>21, <1>22, <1>23, <1>24, <1>25, <1>26, <1>27, <1>28, <1>29, <1>30, <1>31, <1>32, <1>33, <1>34, <1>35 DEF SK!Next, SK!Goroutines, SK!Frame, SK!Spawned, SK!Pooled, SK!Run, SK!Goroutine, SK!Commanded
\* A step that leaves the starts alone, and takes no daemon to its next run.
LEMMA PacedStays ==
  ASSUME Paced, UNCHANGED <<kind, starts>>, now' = now \/ now' = now + 1, ctx' = ctx \/ ctx' = "canceled",
         SK!Daemon => run' = run \/ run' \in Left
  PROVE  Paced'
<1>1. CASE ~SK!Daemon
  <2>1. starts' = <<>> /\ Len(starts') = 0 /\ starts' \in Seq([at : Nat, ctx : {"live", "canceled"}])
    BY <1>1, EmptySeq DEF Paced
  <2>2. now' \in Nat /\ ~SK!Daemon'
    BY <1>1 DEF Paced, SK!Daemon
  <2> QED
    BY <2>1, <2>2 DEF Paced
<1>2. CASE SK!Daemon
  <2>1. SK!Daemon' /\ now' \in Nat /\ now' >= now /\ now \in Nat
    BY <1>2 DEF Paced, SK!Daemon
  <2>2. ASSUME run' = "start", starts # <<>>
        PROVE  now' >= starts[Len(starts)].at + Interval
    <3>1. starts[Len(starts)].at \in Nat
      <4>1. starts \in Seq([at : Nat, ctx : {"live", "canceled"}]) /\ Len(starts) \in 1..Len(starts)
        BY <2>2, EmptySeq, LenProperties DEF Paced
      <4>2. starts[Len(starts)] \in [at : Nat, ctx : {"live", "canceled"}]
        BY <4>1, ElementOfSeq
      <4> QED
        BY <4>2
    <3>2. run = "start"
      BY <1>2, <2>2 DEF Left
    <3>3. now >= starts[Len(starts)].at + Interval
      BY <1>2, <2>2, <3>2 DEF Paced
    <3> QED
      BY <2>1, <3>1, <3>3, SharedAssumption
  <2>3. run' \in {"spawned", "pause"} => starts # <<>>
    BY <1>2 DEF Paced, Left
  <2>4. ASSUME NEW i \in 1..Len(starts), starts[i].ctx = "canceled"
        PROVE  i = Len(starts) /\ ctx' = "canceled" /\ run' \notin {"start", "pause"}
    BY <1>2, <2>4 DEF Paced, Left
  <2> QED
    BY <1>2, <2>1, <2>2, <2>3, <2>4 DEF Paced
<1> QED
  BY <1>1, <1>2

LEMMA PacedNext == ASSUME KindsTyped, Paced, SK!Next PROVE Paced'
<1> DEFINE Same == UNCHANGED <<kind, starts, now>>
           Kept == (ctx' = ctx \/ ctx' = "canceled") /\ (SK!Daemon => run' = run \/ run' \in Left)
<1>1. CASE SK!RunBase
  <2>1. PICK n : n = Len(starts)
    OBVIOUS
  <2>2. PICK e : e = [at |-> now, ctx |-> ctx]
    OBVIOUS
  <2>3. /\ SK!Daemon /\ run = "start" /\ run' = "spawned" /\ starts' = Append(starts, e)
        /\ UNCHANGED <<kind, ctx, now>>
    BY <1>1, <2>2 DEF SK!RunBase
  <2>4. n \in Nat /\ starts \in Seq([at : Nat, ctx : {"live", "canceled"}]) /\ now \in Nat
    BY <2>1, LenProperties DEF Paced
  <2>5. e \in [at : Nat, ctx : {"live", "canceled"}] /\ e.at = now /\ e.ctx = ctx
    BY <2>2, <2>4 DEF KindsTyped
  <2>6. /\ starts' \in Seq([at : Nat, ctx : {"live", "canceled"}]) /\ Len(starts') = n + 1
        /\ starts'[n + 1] = e /\ \A i \in 1..n : starts'[i] = starts[i]
    BY <2>1, <2>3, <2>4, <2>5, AppendProperties
  <2>7. ASSUME NEW i \in 2..Len(starts')
        PROVE  starts'[i].at >= starts'[i - 1].at + Interval
    <3>1. CASE i \in 2..n
      <4>1. i \in 1..n /\ i - 1 \in 1..n
        BY <2>4, <3>1
      <4> QED
        BY <2>1, <2>6, <3>1, <4>1 DEF Paced
    <3>2. CASE i = n + 1
      <4>1. n \in 1..n /\ i - 1 = n /\ starts # <<>>
        BY <2>1, <2>4, <2>6, <3>2, EmptySeq
      <4>2. now >= starts[n].at + Interval
        BY <2>1, <2>3, <4>1 DEF Paced
      <4> QED
        BY <2>5, <2>6, <3>2, <4>1, <4>2
    <3> QED
      BY <2>4, <2>6, <3>1, <3>2
  <2>8. ASSUME NEW i \in 1..Len(starts'), starts'[i].ctx = "canceled"
        PROVE  i = Len(starts') /\ ctx' = "canceled" /\ run' \notin {"start", "pause"}
    <3>1. CASE i \in 1..n
      BY <2>1, <2>3, <2>6, <2>8, <3>1 DEF Paced
    <3>2. CASE i = n + 1
      BY <2>3, <2>5, <2>6, <2>8, <3>2
    <3> QED
      BY <2>4, <2>6, <3>1, <3>2
  <2>9. starts' # <<>>
    BY <2>4, <2>6, EmptySeq
  <2>10. SK!Daemon' /\ now' \in Nat
    BY <2>3, <2>4 DEF SK!Daemon
  <2> QED
    BY <2>3, <2>6, <2>7, <2>8, <2>9, <2>10 DEF Paced
<1>2. CASE SK!BaseEnds
  <2>1. /\ SK!Daemon /\ run = "spawned" /\ Same /\ ctx' = ctx
        /\ run' = "returned" \/ (run' = "pause" /\ ctx = "live")
    BY <1>2 DEF SK!BaseEnds, SK!Return, SK!clock
  <2>2. SK!Daemon'
    BY <2>1 DEF SK!Daemon
  <2>3. starts # <<>> /\ ~(ctx' = "canceled" /\ run' = "pause")
    BY <2>1 DEF Paced
  <2>4. \A i \in 1..Len(starts) : starts[i].ctx = "canceled" => i = Len(starts) /\ ctx = "canceled"
    BY DEF Paced
  <2> QED
    BY <2>1, <2>2, <2>3, <2>4 DEF Paced
<1>3. CASE SK!Pause
  <2>1. Same /\ ctx' = ctx /\ run = "pause" /\ (run' = "returned" \/ (run' = "start" /\ SK!Due)) /\ SK!Daemon
    BY <1>3 DEF SK!Pause, SK!Return, SK!clock, KindsTyped
  <2>2. SK!Daemon'
    BY <2>1 DEF SK!Daemon
  <2>3. run' = "start" => now' >= starts'[Len(starts')].at + Interval
    BY <2>1 DEF SK!Due
  <2>4. \A i \in 1..Len(starts) : starts[i].ctx # "canceled"
    BY <2>1 DEF Paced
  <2> QED
    BY <2>1, <2>2, <2>3, <2>4 DEF Paced
<1>4. CASE SK!Tick
  <2>1. UNCHANGED <<kind, starts, ctx, run>> /\ now' = now + 1
    BY <1>4 DEF SK!Tick, SK!frame
  <2> QED
    BY <2>1, PacedStays
<1>5. CASE Same /\ Kept
  BY <1>5, PacedStays
<1>6. CASE SK!Close \/ SK!Canceled \/ SK!ShutdownBegins \/ SK!CleanupBegins \/ SK!ShutdownSignals \/ SK!NoCleanup
  <2>1. Same /\ Kept
    BY <1>6 DEF SK!Close, SK!Canceled, SK!ShutdownBegins, SK!CleanupBegins, SK!ShutdownSignals, SK!NoCleanup,
       SK!clock, Left
  <2> QED
    BY <1>5, <2>1
<1>7. CASE SK!ForEach \/ SK!RunSpawned \/ SK!CleanupJoins \/ SK!PoolEnds \/ SK!RunSignal \/ SK!CleanupCloses
  <2>1. Same /\ Kept
    BY <1>7 DEF SK!ForEach, SK!RunSpawned, SK!CleanupJoins, SK!PoolEnds, SK!RunSignal, SK!CleanupCloses, SK!Working,
       SK!Return, SK!clock, Left, SK!Daemon, SK!Group, SK!Wait, SK!Cleanup, SK!WorkerPool
  <2> QED
    BY <1>5, <2>1
<1>8. CASE SK!DrainBegins \/ SK!DrainEnds \/ SK!Timeout \/ SK!PoolShutdown \/ SK!Exit \/ SK!WatchBegins
  <2>1. Same /\ Kept
    BY <1>8 DEF SK!DrainBegins, SK!DrainEnds, SK!Timeout, SK!PoolShutdown, SK!Exit, SK!WatchBegins, SK!clock, SK!frame
  <2> QED
    BY <1>5, <2>1
<1>9. CASE SK!RunServer \/ SK!RunCmd \/ SK!CmdWait
  <2>1. Same /\ Kept
    BY <1>9 DEF SK!RunServer, SK!RunCmd, SK!CmdWait, SK!Return, SK!clock, Left, SK!Daemon, SK!Server, SK!Cmd
  <2> QED
    BY <1>5, <2>1
<1>10. ASSUME NEW i \in Items, SK!Goroutine(i) \/ SK!Ends(i) \/ SK!AddCleanup(i) PROVE Paced'
  <2>1. Same /\ Kept
    BY <1>10 DEF SK!Goroutine, SK!Begin, SK!Deferred, SK!Recover, SK!GroupWait, SK!Pop, SK!Job, SK!Ends,
       SK!AddCleanup, SK!clock, SK!frame
  <2> QED
    BY <1>5, <2>1
<1>11. ASSUME NEW x \in {"service", "watch"}, SK!Commanded(x) PROVE Paced'
  <2>1. Same /\ Kept
    BY <1>11 DEF SK!Commanded, SK!Terminate, SK!Kill, SK!clock
  <2> QED
    BY <1>5, <2>1
<1> QED
  BY <1>1, <1>2, <1>3, <1>4, <1>6, <1>7, <1>8, <1>9, <1>10, <1>11
  DEF SK!Next, SK!Goroutines, SK!Frame, SK!Spawned, SK!Pooled, SK!Run

LEMMA KindsNext == ASSUME KindsInv, SK!Next PROVE KindsInv'
  BY ReportingNext, PacedNext DEF KindsInv, Reporting

LEMMA KindsStutter == ASSUME KindsInv, UNCHANGED SK!vars PROVE KindsInv'
  BY DEF SK!vars, SK!frame, SK!work, SK!queue, SK!process, SK!clock, KindsInv, Reporting, KindsTyped, GroupTells,
     WaitJoins, PoolTells, CleanupEmpties, ProcessEnds, Paced, SK!Group, SK!Wait, SK!Cleanup, SK!WorkerPool,
     SK!Server, SK!Cmd, SK!Daemon

LEMMA KindsReport == ASSUME KindsInv PROVE SK!KindsFinish /\ SK!DaemonPaced
<1>1. SK!KindsFinish
  BY DEF KindsInv, Reporting, KindsTyped, GroupTells, WaitJoins, PoolTells, CleanupEmpties, ProcessEnds, Left, SK!KindsFinish,
     SK!In, SK!Group, SK!Wait, SK!Cleanup, SK!WorkerPool, SK!Server, SK!Cmd, SK!Kinds
<1>2. SK!DaemonPaced
  <2>1. PICK last : last = {i \in 1..Len(starts) : starts[i].ctx = "canceled"}
    OBVIOUS
  <2>2. last \subseteq {Len(starts)}
    BY <2>1 DEF KindsInv, Paced
  <2>3. SK!Cardinality(last) <= 1
    BY <2>2, AtMostOne, SameCount
  <2> QED
    BY <2>1, <2>3 DEF SK!DaemonPaced, KindsInv, Paced
<1> QED
  BY <1>1, <1>2

----------------------------------------------------------------------------
(* The composition: whichever part a behaviour is of keeps its invariant.  *)

Inv ==
  /\ which = "calls" => CallsInv
  /\ which = "once" => OnceInv
  /\ which = "map" => MapInv
  /\ which = "command" => CommandInv
  /\ which = "orchestrator" => OrcInv
  /\ which = "kinds" => KindsInv

LEMMA InvInit == ASSUME Init PROVE Inv
<1>1. \/ which = "calls" /\ SC!Init
      \/ which = "once" /\ ON!Init
      \/ which = "map" /\ SM!Init
      \/ which = "command" /\ CM!Init
      \/ which = "orchestrator" /\ OR!Init
      \/ which = "kinds" /\ SK!Init
  BY DEF Init
<1> QED
  BY <1>1, CallsInit, OnceInit, MapInit, CommandInit, OrcInit, KindsInit DEF Inv

LEMMA InvNext == ASSUME Inv, [Next]_vars PROVE Inv'
<1>1. CASE OfCalls(SC!Next)
  BY <1>1, CallsNext DEF OfCalls, Inv
<1>2. CASE OfOnce(ON!Next)
  BY <1>2, OnceNext DEF OfOnce, Inv
<1>3. CASE OfMap(SM!Next)
  <2>1. which = "map" /\ which' = which /\ SM!Next
    BY <1>3 DEF OfMap
  <2>2. PICK c \in Callers : SM!inc(c) \/ SM!Fetch(c) \/ SM!Going(c)
    BY <2>1 DEF SM!Next
  <2>3. MapInv'
    BY <2>1, <2>2, MapNext DEF Inv
  <2> QED
    BY <2>1, <2>3 DEF Inv
<1>4. CASE OfCommand(CM!Next)
  BY <1>4, CommandNext DEF OfCommand, Inv
<1>5. CASE OfOrchestrator(OR!Next)
  BY <1>5, OrcNext DEF OfOrchestrator, Inv
<1>6. CASE OfKinds(SK!Next)
  BY <1>6, KindsNext DEF OfKinds, Inv
<1>7. CASE UNCHANGED vars
  <2>1. which' = which /\ UNCHANGED several
    BY <1>7 DEF vars
  <2>2. UNCHANGED SC!vars
    BY <1>7, <2>1 DEF vars, several, ofCalls, SC!vars
  <2>3. UNCHANGED ON!vars
    BY <1>7, <2>1 DEF vars, several, ofOnce, ON!vars, ON!fields
  <2>4. UNCHANGED SM!vars
    BY <1>7, <2>1 DEF vars, several, ofMap, SM!vars, SM!memory, SM!counts
  <2>5. UNCHANGED CM!vars
    BY <1>7, <2>1 DEF vars, several, ofCommand, CM!vars, CM!fields, CM!process, CM!callers
  <2>6. UNCHANGED OR!vars
    BY <1>7, <2>1 DEF vars, several, ofOrchestrator, OR!vars, OR!queue, OR!flags
  <2>7. UNCHANGED SK!vars
    BY <1>7, <2>1 DEF vars, several, ofKinds, SK!vars, SK!frame, SK!work, SK!queue, SK!process, SK!clock
  <2> QED
    BY <2>1, <2>2, <2>3, <2>4, <2>5, <2>6, <2>7, CallsStutter, OnceStutter, MapStutter, CommandStutter,
       OrcStutter, KindsStutter DEF Inv
<1> QED
  BY <1>1, <1>2, <1>3, <1>4, <1>5, <1>6, <1>7 DEF Next

\* The invariants of the parts hold in every state.
LEMMA InvAlways == Spec => []Inv
<1>1. Init => Inv
  BY InvInit
<1>2. Inv /\ [Next]_vars => Inv'
  BY InvNext
<1> QED
  BY <1>1, <1>2, PTL DEF Spec

\* For any callers, limits, keys and clocks: a wrapped function runs as often as its
\* wrapper allows (fnx, internal/exec.go), one constructor of an adt.Once makes its value
\* (adt/once.go), what a Fetch of the sharded map finds is no newer than the version it
\* reports (adt/shard), and one caller waits for a command's process, and tells the others
\* how it ended (exc/exc.go).
THEOREM AgreementHolds == Spec => []CallersAgree
<1>1. Inv => CallersAgree
  BY CallsAllowed, OnceValueOne, MapNeverAhead, CommandOneWaits DEF Inv, CallersAgree
<1> QED
  BY <1>1, InvAlways, PTL

\* What a call returns is the answer of the last run to return, which of a TTL is no older
\* than it may be; a panic is that of the caller's own run; a group's answer counts every
\* copy; and a launched worker's answer is missed only after another caller was back
\* (fnx/worker.go, fnx/operation.go, internal/exec.go).
THEOREM AnswersHold == Spec => AnswersAreOfRuns
<1> DEFINE Answers == which = "calls" =>
                        \A p \in Callers : pc[p] # "idle" /\ pc'[p] = "idle" => SC!AnswerIsOfRun(p)
<1>1. Inv /\ [Next]_vars => [Answers]_vars
  <2>1. SUFFICES ASSUME Inv, Next, which = "calls" PROVE Answers
    BY DEF vars
  <2>2. CallsInv /\ SC!Next
    BY <2>1 DEF Inv, Next, OfCalls, OfOnce, OfMap, OfCommand, OfOrchestrator, OfKinds
  <2> QED
    BY <2>2, CallsAnswer
<1> QED
  BY <1>1, InvAlways, PTL DEF Spec, AnswersAreOfRuns

\* When an orchestrator has returned, each service it took has been waited for and its error
\* is told, and nothing else of one that no user started (srv/orchestrator.go). Whatever
\* panics, fails or runs out of time, each kind of service leaves no goroutine, job or
\* process behind that it waits for and has told their errors, and a daemon's runs begin
\* the interval apart (srv/implementations.go).
THEOREM ReportsHold == Spec => []ServicesReport
<1>1. Inv => ServicesReport
  BY OrcReports, KindsReport DEF Inv, ServicesReport
<1> QED
  BY <1>1, InvAlways, PTL
=============================================================================
