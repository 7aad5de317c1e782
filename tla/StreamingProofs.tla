-------------------------- MODULE StreamingProofs --------------------------
(***************************************************************************)
(* Proofs about the worker pools, the channels and the streams that        *)
(* Streaming composes, for any workers, jobs, scripts, readers, consumers  *)
(* and items. Each part has an invariant of its own, PoolInv, ChanInv and  *)
(* StreamInv, and the composition has that of the part it is in.           *)
(***************************************************************************)
EXTENDS Streaming, FiniteSetTheorems, WellFoundedInduction, TLAPS

----------------------------------------------------------------------------
(* Sequences                                                               *)

In(s, x) == \E i \in 1..Len(s) : s[i] = x
Distinct(s) == \A i, k \in 1..Len(s) : s[i] = s[k] => i = k

\* What a sequence holds once something was appended.
LEMMA Appended ==
  ASSUME NEW D, NEW s \in Seq(D), NEW x \in D
  PROVE  /\ Append(s, x) \in Seq(D)
         /\ \A y : In(Append(s, x), y) <=> In(s, y) \/ y = x
         /\ Distinct(s) /\ ~In(s, x) => Distinct(Append(s, x))
<1>1. /\ Len(Append(s, x)) = Len(s) + 1 /\ Len(s) \in Nat
      /\ \A i \in 1..Len(s) : Append(s, x)[i] = s[i]
      /\ Append(s, x)[Len(s) + 1] = x
  OBVIOUS
<1>2. \A i : i \in 1..(Len(s) + 1) <=> i \in 1..Len(s) \/ i = Len(s) + 1
  BY <1>1
<1>3. \A y : In(Append(s, x), y) <=> In(s, y) \/ y = x
  BY <1>1, <1>2 DEF In
<1>4. ASSUME Distinct(s), ~In(s, x) PROVE Distinct(Append(s, x))
  BY <1>1, <1>2, <1>4 DEF In, Distinct
<1> QED
  BY <1>3, <1>4

\* The two ways to say that a sequence holds something.
LEMMA InToSet ==
  ASSUME NEW s, NEW D, s \in Seq(D)
  PROVE  /\ \A x : x \in P!Range(s) <=> In(s, x)
         /\ \A x : In(s, x) => x \in D
  BY DEF P!Range, In

\* A sequence that repeats nothing holds as many as it is long.
LEMMA DistinctCount ==
  ASSUME NEW D, NEW s \in Seq(D), Distinct(s)
  PROVE  Cardinality(P!Range(s)) = Len(s)
<1> DEFINE f == [i \in 1..Len(s) |-> s[i]]
<1>1. Len(s) \in Nat /\ DOMAIN s = 1..Len(s)
  OBVIOUS
<1>2. f \in Bijection(1..Len(s), P!Range(s))
  <2>1. f \in [1..Len(s) -> P!Range(s)]
    BY <1>1 DEF P!Range
  <2>2. \A i, k \in 1..Len(s) : f[i] = f[k] => i = k
    BY DEF Distinct
  <2>3. \A x \in P!Range(s) : \E i \in 1..Len(s) : f[i] = x
    BY <1>1 DEF P!Range
  <2> QED
    BY <2>1, <2>2, <2>3 DEF Bijection, Injection, Surjection, IsInjective
<1> QED
  BY <1>1, <1>2, FS_CountingElements DEF ExistsBijection

\* The order of the naturals, and the least of a set of them.
LEMMA LessWellFounded == IsWellFoundedOn({ss \in Nat \X Nat : ss[1] < ss[2]}, Nat)
  BY NatLessThanWellFounded DEF OpToRel

\* A non-empty set of naturals has a least element.
LEMMA Minimum == ASSUME NEW T \in SUBSET Nat, T # {} PROVE \E m \in T : \A k \in T : m <= k
<1> DEFINE R == {ss \in Nat \X Nat : ss[1] < ss[2]}
<1>1. PICK m \in T : \A k \in T : ~(<<k, m>> \in R)
  <2> HIDE DEF R
  <2>1. IsWellFoundedOn(R, Nat)
    BY LessWellFounded DEF R
  <2> QED
    BY <2>1, WFMin
<1>2. ASSUME NEW k \in T PROVE m <= k
  <2>1. ~(<<k, m>> \in R)
    BY <1>1
  <2> QED
    BY <2>1
<1> QED
  BY <1>2

----------------------------------------------------------------------------
(* The worker pools                                                        *)

Places == {"top", "pull", "shard", "job", "done"} \cup P!Results
PoolState(n) ==
  /\ how \in {"run", "pull", "resolve"} /\ conf \in P!Confs /\ size \in 1..MaxWorkers
  /\ jobs \in Seq(P!TaskJob) /\ pulled \in 0..n /\ shards \in 0..size
  /\ pc \in [P!Workers -> Places] /\ job \in [P!Workers -> 0..n]
  /\ ran \in [1..n -> 0..1] /\ told \in Seq(1..n)
  /\ remain \in Int /\ aborted \in Nat /\ ctx \in {"live", "canceled"}
  /\ released \in BOOLEAN /\ sinkDone \in BOOLEAN /\ failure \in BOOLEAN
  /\ poolOver \in BOOLEAN /\ returned \in BOOLEAN
PoolTyped == PoolState(P!N)

\* A worker at "job" has one that has not run, and one with an answer a job that has; no
\* two have the same, and what was pulled has run or is with a worker.
Answering(w) == pc[w] \in P!Results
Has(w) == pc[w] = "job" \/ Answering(w)
JobsHeld ==
  /\ \A w \in P!Workers : Has(w) => job[w] \in 1..pulled
  /\ \A w, v \in P!Workers : Has(w) /\ Has(v) /\ job[w] = job[v] => w = v
  /\ \A w \in P!Workers : pc[w] = "job" => ran[job[w]] = 0
  /\ \A w \in P!Workers : Answering(w) => ran[job[w]] = 1 /\ how # "run"
  /\ \A w \in P!Workers : pc[w] = "shard" => how = "run"
  /\ \A j \in 1..P!N : ran[j] = 1 => j <= pulled
  /\ \A j \in 1..pulled : ran[j] = 1 \/ \E w \in P!Workers : pc[w] = "job" /\ job[w] = j

Heard(j) == In(told, j)
ToldOnce ==
  /\ Distinct(told)
  /\ \A j \in 1..P!N : Heard(j) => ran[j] = 1
  /\ \A w \in P!Workers : Answering(w) => ~Heard(job[w])

\* What is told while the context lives.
Answered(j) == Heard(j) \/ \E w \in P!Workers : Answering(w) /\ job[w] = j
RightlyTold ==
  ctx = "live" =>
    /\ \A w \in P!Workers : Answering(w) => pc[w] = jobs[job[w]]
    /\ how = "run" => \A j \in 1..P!N : Heard(j) <=> ran[j] = 1 /\ P!Collects(conf, jobs[j])
    /\ how = "pull" => \A j \in 1..P!N : Heard(j) => jobs[j] # "ok"
    /\ how = "pull" /\ ~sinkDone => \A j \in 1..P!N : ran[j] = 1 /\ jobs[j] # "ok" => Answered(j)
    /\ how = "resolve" /\ ~sinkDone => \A j \in 1..P!N : ran[j] = 1 => Answered(j)

\* When workers stop. The shards that are not finished are those not handed out and those
\* with a worker, and one that finishes early has met an error.
Sharded == {w \in P!Workers : pc[w] \in {"shard", "job"}}
WorkersStop ==
  /\ \A w \in P!Workers : pc[w] = "done" /\ w <= size => ctx = "canceled" \/ poolOver
  /\ \A w \in P!Workers : w > size => pc[w] = "done"
  /\ returned => \A w \in P!Workers : pc[w] = "done"
  /\ failure => sinkDone
  /\ how # "run" => ~released /\ aborted = 0 /\ (poolOver /\ ~sinkDone => pulled = P!N)
ShardsFinish ==
  how = "run" =>
    /\ poolOver => shards = size
    /\ remain = size - shards + Cardinality(Sharded)
    /\ aborted + remain <= size
    /\ remain = 0 \/ ctx = "canceled" => released
    /\ ctx = "live" => (released => remain = 0) /\ (pulled = P!N \/ aborted + remain = size)

\* One strict worker stops at the first error.
Strict == ctx = "live" /\ how = "run" /\ size = 1 /\ ~conf.onError /\ ~conf.onPanic
Halting(j) == jobs[j] \notin {"ok", "skip"}
StopsFirst ==
  Strict =>
    /\ \A w \in P!Workers : pc[w] = "job" => job[w] = pulled
    /\ \A j \in 1..P!N : ran[j] = 1 /\ Halting(j) => aborted = 1 /\ j = pulled
    /\ aborted = 1 => pulled > 0 /\ ran[pulled] = 1 /\ Halting(pulled)

PoolInv == PoolTyped /\ JobsHeld /\ ToldOnce /\ RightlyTold /\ WorkersStop /\ ShardsFinish /\ StopsFirst

\* Each instance of a module counts with a Cardinality of its own.
LEMMA SameCount ==
  ASSUME NEW T
  PROVE  P!Cardinality(T) = Cardinality(T) /\ C!Cardinality(T) = Cardinality(T)
  BY DEF P!Cardinality, C!Cardinality, Cardinality

\* The number of jobs is a natural.
LEMMA PoolSize == ASSUME PoolTyped PROVE P!N \in Nat
  BY DEF PoolTyped, P!N

\* A function that is updated keeps its range.
LEMMA UpdateTyped ==
  ASSUME NEW D, NEW R, NEW f \in [D -> R], NEW x, NEW y \in R
  PROVE  [f EXCEPT ![x] = y] \in [D -> R]
  OBVIOUS

\* The types are kept, action by action.
LEMMA PoolTypedNext == ASSUME PoolInv, P!Next PROVE PoolTyped'
<1>1. PICK n : n = P!N /\ n \in Nat
  BY PoolSize DEF PoolInv
<1>2. P!N' = n /\ UNCHANGED <<how, conf, size, jobs>>
  BY <1>1 DEF P!Next, P!Work, P!Top, P!PullShard, P!ShardNext, P!ShardJob, P!PullJob, P!PoolJob, P!Sink,
     P!Cancel, P!Return, P!given, P!N
<1>3. PoolState(n)
  BY <1>1 DEF PoolInv, PoolTyped
<1>4. ASSUME PoolState(n)' PROVE PoolTyped'
  BY <1>2, <1>4 DEF PoolTyped
<1> USE DEF PoolState
<1>5. \A l \in Places : \A w : P!Goto(w, l) => pc' \in [P!Workers -> Places]
  BY <1>3, UpdateTyped DEF P!Goto
<1>6. /\ "top" \in Places /\ "pull" \in Places /\ "shard" \in Places /\ "job" \in Places /\ "done" \in Places
      /\ P!Results \subseteq Places
  BY DEF Places
<1>7. \A w \in P!Workers : (pc[w] = "job" => job[w] \in 1..n /\ ran[job[w]] = 0) /\ (pc[w] \in P!Results => job[w] \in 1..n)
  BY <1>3 DEF PoolInv, JobsHeld, Has, Answering
<1>8. ASSUME NEW w \in P!Workers, P!Top(w) \/ P!PullShard(w) PROVE PoolState(n)'
  <2>1. pc' \in [P!Workers -> Places]
    BY <1>5, <1>6, <1>8 DEF P!Top, P!PullShard
  <2>2. shards' \in 0..size
    BY <1>3, <1>8 DEF P!Top, P!PullShard
  <2>3. poolOver' \in BOOLEAN
    BY <1>3, <1>8 DEF P!Top, P!PullShard
  <2> QED
    BY <1>2, <1>3, <1>8, <2>1, <2>2, <2>3 DEF P!Top, P!PullShard
<1>9. ASSUME NEW w \in P!Workers, P!ShardNext(w) PROVE PoolState(n)'
  <2>1. pc' \in [P!Workers -> Places]
    BY <1>5, <1>6, <1>9 DEF P!ShardNext, P!Finish
  <2>2. pulled' \in 0..n /\ job' \in [P!Workers -> 0..n]
    <3>1. CASE pulled < n /\ pulled' = pulled + 1 /\ job' = [job EXCEPT ![w] = pulled + 1]
      <4>1. pulled + 1 \in 0..n
        BY <1>1, <1>3, <3>1
      <4> QED
        BY <1>3, <3>1, <4>1, UpdateTyped
    <3>2. CASE UNCHANGED <<pulled, job>>
      BY <1>3, <3>2
    <3> QED
      BY <1>1, <1>9, <3>1, <3>2 DEF P!ShardNext
  <2>3. remain' \in Int
    BY <1>3, <1>9 DEF P!ShardNext, P!Finish
  <2>4. released' \in BOOLEAN
    BY <1>3, <1>9 DEF P!ShardNext, P!Finish
  <2> QED
    BY <1>2, <1>3, <1>9, <2>1, <2>2, <2>3, <2>4 DEF P!ShardNext
<1>10. ASSUME NEW w \in P!Workers, pc[w] = "job", P!Ran(w) PROVE ran' \in [1..n -> 0..1]
  BY <1>3, <1>7, <1>10, UpdateTyped DEF P!Ran
<1>11. \A j \in 1..n : Append(told, j) \in Seq(1..n)
  BY <1>3
<1>12. ASSUME NEW w \in P!Workers, P!ShardJob(w) PROVE PoolState(n)'
  <2>1. told' \in Seq(1..n)
    BY <1>3, <1>7, <1>11, <1>12 DEF P!ShardJob
  <2>2. ran' \in [1..n -> 0..1]
    BY <1>10, <1>12 DEF P!ShardJob
  <2>3. pc' \in [P!Workers -> Places]
    BY <1>5, <1>6, <1>12 DEF P!ShardJob, P!Finish
  <2>4. released' \in BOOLEAN
    BY <1>3, <1>12 DEF P!ShardJob, P!Finish
  <2>5. remain' \in Int
    BY <1>3, <1>12 DEF P!ShardJob, P!Finish
  <2>6. aborted' \in Nat
    BY <1>3, <1>12 DEF P!ShardJob, P!Finish
  <2> QED
    BY <1>2, <1>3, <1>12, <2>1, <2>2, <2>3, <2>4, <2>5, <2>6 DEF P!ShardJob
<1>13. ASSUME NEW w \in P!Workers, P!PullJob(w) PROVE PoolState(n)'
  <2>1. pc' \in [P!Workers -> Places]
    BY <1>5, <1>6, <1>13 DEF P!PullJob
  <2>2. pulled' \in 0..n /\ job' \in [P!Workers -> 0..n]
    <3>1. CASE pulled < n /\ pulled' = pulled + 1 /\ job' = [job EXCEPT ![w] = pulled + 1]
      <4>1. pulled + 1 \in 0..n
        BY <1>1, <1>3, <3>1
      <4> QED
        BY <1>3, <3>1, <4>1, UpdateTyped
    <3>2. CASE UNCHANGED <<pulled, job>>
      BY <1>3, <3>2
    <3> QED
      BY <1>1, <1>13, <3>1, <3>2 DEF P!PullJob
  <2>3. poolOver' \in BOOLEAN
    BY <1>3, <1>13 DEF P!PullJob
  <2> QED
    BY <1>2, <1>3, <1>13, <2>1, <2>2, <2>3 DEF P!PullJob
<1>14. ASSUME NEW w \in P!Workers, P!PoolJob(w) PROVE PoolState(n)'
  <2>1. ran' \in [1..n -> 0..1]
    BY <1>10, <1>14 DEF P!PoolJob, P!given
  <2>2. PICK o \in P!Outcome(w) : P!Goto(w, P!filterPreserving(conf, o))
    BY <1>14 DEF P!PoolJob, P!given
  <2>3. o \in P!Results
    BY <1>1, <1>3, <1>7, <1>14, <2>2 DEF P!Outcome, P!PoolJob, P!TaskJob, P!Fallible, P!Results, P!N
  <2>4. P!filterPreserving(conf, o) = o
    BY DEF P!filterPreserving, P!Filter
  <2> QED
    BY <1>2, <1>3, <1>5, <1>6, <1>14, <2>1, <2>2, <2>3, <2>4 DEF P!PoolJob, P!given
<1>15. ASSUME NEW w \in P!Workers, P!Sink(w) PROVE PoolState(n)'
  <2>1. told' \in Seq(1..n)
    BY <1>3, <1>7, <1>11, <1>15 DEF P!Sink
  <2>2. pc' \in [P!Workers -> Places]
    BY <1>5, <1>6, <1>15 DEF P!Sink
  <2>3. sinkDone' \in BOOLEAN /\ failure' \in BOOLEAN /\ poolOver' \in BOOLEAN
    BY <1>3, <1>15 DEF P!Sink
  <2>4. UNCHANGED <<pulled, released, job, shards, remain, aborted, ran, ctx, returned>>
    BY <1>15 DEF P!Sink
  <2> QED
    BY <1>2, <1>3, <2>1, <2>2, <2>3, <2>4
<1>16. ASSUME P!Cancel \/ P!Return PROVE PoolState(n)'
  <2>1. released' \in BOOLEAN
    BY <1>3, <1>16 DEF P!Cancel, P!Return
  <2>2. returned' \in BOOLEAN
    BY <1>3, <1>16 DEF P!Cancel, P!Return
  <2>4. ctx' \in {"live", "canceled"}
    BY <1>3, <1>16 DEF P!Cancel, P!Return
  <2>3. UNCHANGED <<pulled, pc, job, shards, remain, aborted, ran, told, sinkDone, failure, poolOver>>
    BY <1>16 DEF P!Cancel, P!Return
  <2> QED
    BY <1>2, <1>3, <2>1, <2>2, <2>3, <2>4
<1> QED
  BY <1>4, <1>8, <1>9, <1>12, <1>13, <1>14, <1>15, <1>16 DEF P!Next, P!Work

(* What a step does to the jobs, and to what is told *)
Kept == <<how, conf, size, jobs>>
Idles(w, l) ==
  /\ ~Has(w) /\ P!Goto(w, l) /\ l \in {"top", "pull", "done", "shard"} /\ (l = "shard" => how = "run")
  /\ UNCHANGED <<Kept, job, ran, pulled, told, sinkDone, ctx, aborted>>
Takes(w) ==
  /\ ~Has(w) /\ P!Goto(w, "job") /\ (how = "run" => pc[w] = "shard")
  /\ pulled < P!N /\ pulled' = pulled + 1
  /\ job' = [job EXCEPT ![w] = pulled + 1]
  /\ UNCHANGED <<Kept, ran, told, sinkDone, ctx, aborted>>
Runs(w, o, l) ==
  /\ pc[w] = "job" /\ P!Ran(w) /\ o \in P!Outcome(w) /\ P!Goto(w, l)
  /\ \/ /\ how = "run" /\ l \in {"shard", "top"}
        /\ aborted' = IF P!Filter(conf, o) \in {"ok", "skip"} THEN aborted ELSE aborted + 1
        /\ told' = IF P!Collects(conf, o) THEN Append(told, job[w]) ELSE told
     \/ how # "run" /\ l = o /\ UNCHANGED <<told, aborted>>
  /\ UNCHANGED <<Kept, job, pulled, sinkDone, ctx>>
Wanted(w) == how = "resolve" \/ pc[w] # "ok"
Answers(w) ==
  /\ Answering(w) /\ P!Goto(w, "top")
  /\ \/ (sinkDone \/ ~Wanted(w)) /\ UNCHANGED <<told, sinkDone>>
     \/ ~sinkDone /\ Wanted(w) /\ told' = Append(told, job[w])
  /\ UNCHANGED <<Kept, job, ran, pulled, ctx, aborted>>
Stands ==
  /\ ctx' \in {ctx, "canceled"}
  /\ UNCHANGED <<Kept, pc, job, ran, pulled, told, sinkDone, aborted>>

\* Every step of a pool is of one of these kinds.
LEMMA PoolMoves ==
  ASSUME PoolInv, P!Next
  PROVE  \/ \E w \in P!Workers, l \in Places : Idles(w, l)
         \/ \E w \in P!Workers : Takes(w)
         \/ \E w \in P!Workers, o \in P!Results, l \in Places : Runs(w, o, l)
         \/ \E w \in P!Workers : Answers(w)
         \/ Stands
<1> DEFINE Goal == \/ \E w \in P!Workers, l \in Places : Idles(w, l)
                   \/ \E w \in P!Workers : Takes(w)
                   \/ \E w \in P!Workers, o \in P!Results, l \in Places : Runs(w, o, l)
                   \/ \E w \in P!Workers : Answers(w)
                   \/ Stands
<1> SUFFICES Goal
  OBVIOUS
<1>1. PoolTyped /\ JobsHeld
  BY DEF PoolInv
<1>2. /\ "top" \in Places /\ "pull" \in Places /\ "shard" \in Places /\ "job" \in Places /\ "done" \in Places
      /\ P!Results \subseteq Places
  BY DEF Places
<1>3. \A w \in P!Workers : pc[w] \in {"top", "pull", "shard"} => ~Has(w)
  BY DEF Has, Answering, P!Results
<1>4. ASSUME NEW w \in P!Workers, P!Top(w) \/ P!PullShard(w) PROVE Goal
  <2>1. PICK l \in {"pull", "done", "shard", "top"} : P!Goto(w, l) /\ (l = "shard" => how = "run")
    BY <1>4 DEF P!Top, P!PullShard
  <2>2. Idles(w, l)
    BY <1>3, <1>4, <2>1 DEF Idles, P!Top, P!PullShard, P!given, Kept
  <2> QED
    BY <1>2, <2>1, <2>2
<1>5. ASSUME NEW w \in P!Workers, P!ShardNext(w) PROVE Goal
  <2>1. CASE Takes(w)
    BY <2>1
  <2>2. CASE ~Takes(w)
    <3>1. P!Goto(w, "top") /\ UNCHANGED <<pulled, job>>
      BY <1>3, <1>5, <2>2 DEF P!ShardNext, P!Finish, Takes, P!given, Kept
    <3>2. Idles(w, "top")
      BY <1>3, <1>5, <3>1 DEF P!ShardNext, Idles, P!given, Kept
    <3> QED
      BY <1>2, <3>2
  <2> QED
    BY <2>1, <2>2
<1>6. ASSUME NEW w \in P!Workers, P!PullJob(w) PROVE Goal
  <2>1. CASE Takes(w)
    BY <2>1
  <2>2. CASE ~Takes(w)
    <3>1. P!Goto(w, "top") /\ UNCHANGED <<pulled, job>>
      BY <1>3, <1>6, <2>2 DEF P!PullJob, Takes, P!given, Kept
    <3>2. Idles(w, "top")
      BY <1>3, <1>6, <3>1 DEF P!PullJob, Idles, P!given, Kept
    <3> QED
      BY <1>2, <3>2
  <2> QED
    BY <2>1, <2>2
<1>7. \A w \in P!Workers : pc[w] = "job" => P!Outcome(w) \subseteq P!Results
  <2>1. SUFFICES ASSUME NEW w \in P!Workers, pc[w] = "job" PROVE jobs[job[w]] \in P!Results
    BY <2>1 DEF P!Outcome, P!Results
  <2>2. job[w] \in 1..P!N
    BY <1>1, <2>1, PoolSize DEF JobsHeld, Has, PoolTyped, PoolState
  <2> QED
    BY <1>1, <2>2 DEF PoolTyped, PoolState, P!N, P!TaskJob, P!Fallible, P!Results
<1>8. ASSUME NEW w \in P!Workers, P!ShardJob(w) PROVE Goal
  <2>1. PICK o \in P!Outcome(w) :
          /\ told' = (IF P!Collects(conf, o) THEN Append(told, job[w]) ELSE told)
          /\ P!Goto(w, "shard") \/ P!Goto(w, "top")
          /\ aborted' = IF P!Filter(conf, o) \in {"ok", "skip"} THEN aborted ELSE aborted + 1
    BY <1>8 DEF P!ShardJob, P!Finish
  <2>2. PICK l \in {"shard", "top"} : P!Goto(w, l)
    BY <2>1
  <2>3. Runs(w, o, l)
    BY <1>8, <2>1, <2>2 DEF P!ShardJob, Runs, P!given, Kept
  <2> QED
    BY <1>2, <1>7, <1>8, <2>1, <2>2, <2>3 DEF P!ShardJob
<1>9. ASSUME NEW w \in P!Workers, P!PoolJob(w) PROVE Goal
  <2>1. PICK o \in P!Outcome(w) : P!Goto(w, P!filterPreserving(conf, o))
    BY <1>9 DEF P!PoolJob
  <2>2. P!filterPreserving(conf, o) = o
    BY DEF P!filterPreserving, P!Filter
  <2>3. Runs(w, o, o)
    BY <1>9, <2>1, <2>2 DEF P!PoolJob, Runs, P!given, Kept
  <2> QED
    BY <1>2, <1>7, <1>9, <2>1, <2>3 DEF P!PoolJob
<1>10. ASSUME NEW w \in P!Workers, P!Sink(w) PROVE Goal
  <2>1. how # "run"
    BY <1>1, <1>10 DEF P!Sink, JobsHeld, Answering
  <2>2. (IF how = "pull" THEN P!PullWithPool(pc[w]) ELSE P!ResolveFuturesWithPool(pc[w])) <=> Wanted(w)
    BY <1>1, <1>10, <2>1 DEF P!Sink, P!PullWithPool, P!ResolveFuturesWithPool, Wanted, PoolTyped, PoolState
  <2>3. \/ (sinkDone \/ ~Wanted(w)) /\ UNCHANGED <<told, sinkDone>>
        \/ ~sinkDone /\ Wanted(w) /\ told' = Append(told, job[w])
    BY <1>10, <2>2 DEF P!Sink
  <2>4. Answers(w)
    BY <1>10, <2>3 DEF P!Sink, Answers, Answering, P!given, Kept
  <2> QED
    BY <2>4
<1>11. ASSUME P!Cancel \/ P!Return PROVE Goal
  BY <1>11 DEF P!Cancel, P!Return, Stands, P!given, Kept
<1> QED
  BY <1>4, <1>5, <1>6, <1>8, <1>9, <1>10, <1>11 DEF P!Next, P!Work

\* No job is lost and none is held twice.
LEMMA JobsHeldNext == ASSUME PoolInv, P!Next PROVE JobsHeld'
<1>1. PoolTyped /\ JobsHeld /\ P!N \in Nat
  BY PoolSize DEF PoolInv
<1>2. pc \in [P!Workers -> Places] /\ job \in [P!Workers -> 0..P!N] /\ ran \in [1..P!N -> 0..1] /\ pulled \in 0..P!N
  BY <1>1 DEF PoolTyped, PoolState
<1>3. \A l, w : P!Goto(w, l) => \A v \in P!Workers : pc'[v] = IF v = w THEN l ELSE pc[v]
  BY <1>2 DEF P!Goto
<1>4. /\ "top" \notin P!Results /\ "pull" \notin P!Results /\ "shard" \notin P!Results /\ "job" \notin P!Results
      /\ "done" \notin P!Results
  BY DEF P!Results
<1> USE DEF JobsHeld, Has, Answering
<1>5. ASSUME NEW w \in P!Workers, NEW l \in Places, Idles(w, l) PROVE JobsHeld'
  <2>1. \A v \in P!Workers : pc'[v] = IF v = w THEN l ELSE pc[v]
    BY <1>3, <1>5 DEF Idles
  <2> QED
    BY <1>1, <1>2, <1>4, <1>5, <2>1 DEF Idles, Kept, P!N
<1>6. ASSUME NEW w \in P!Workers, Takes(w) PROVE JobsHeld'
  <2>1. \A v \in P!Workers : pc'[v] = IF v = w THEN "job" ELSE pc[v]
    BY <1>3, <1>6 DEF Takes
  <2>2. \A v \in P!Workers : job'[v] = IF v = w THEN pulled + 1 ELSE job[v]
    BY <1>2, <1>6 DEF Takes
  <2>3. ran[pulled + 1] = 0
    BY <1>1, <1>2, <1>6 DEF Takes
  <2>4. ~Has(w) /\ pulled' = pulled + 1 /\ pulled < P!N /\ UNCHANGED <<ran, how>> /\ P!N' = P!N
    BY <1>6 DEF Takes, Kept, P!N
  <2>5. /\ \A v \in P!Workers : Answering(v)' => Answering(v) /\ v # w
        /\ \A v \in P!Workers : Has(v)' <=> Has(v) \/ v = w
    BY <1>4, <2>1, <2>4
  <2>6. pulled \in Nat /\ \A v \in P!Workers : Has(v) => job[v] \in 1..pulled /\ v # w
    BY <1>1, <1>2, <2>4
  <2>7. \A v \in P!Workers : Has(v)' => job'[v] \in 1..pulled'
    BY <2>2, <2>4, <2>5, <2>6
  <2>8. \A u, v \in P!Workers : Has(u)' /\ Has(v)' /\ job'[u] = job'[v] => u = v
    BY <1>1, <2>2, <2>5, <2>6
  <2>9. \A v \in P!Workers : pc'[v] = "job" => ran'[job'[v]] = 0
    BY <1>1, <2>1, <2>2, <2>3, <2>4
  <2>10. \A v \in P!Workers : Answering(v)' => ran'[job'[v]] = 1 /\ how' # "run"
    BY <1>1, <2>2, <2>4, <2>5
  <2>11. \A v \in P!Workers : pc'[v] = "shard" => how' = "run"
    BY <1>1, <2>1, <2>4
  <2>12. \A j \in 1..P!N' : ran'[j] = 1 => j <= pulled'
    BY <1>1, <2>4, <2>6
  <2>13. \A j \in 1..pulled' : ran'[j] = 1 \/ \E v \in P!Workers : pc'[v] = "job" /\ job'[v] = j
    <3>1. \A j \in 1..pulled' : j \in 1..pulled \/ j = pulled + 1
      BY <2>4, <2>6
    <3>2. \A v \in P!Workers : pc[v] = "job" => pc'[v] = "job" /\ job'[v] = job[v]
      BY <2>1, <2>2, <2>6
    <3>3. pc'[w] = "job" /\ job'[w] = pulled + 1
      BY <2>1, <2>2
    <3> QED
      BY <1>1, <2>4, <3>1, <3>2, <3>3
  <2> QED
    BY <2>7, <2>8, <2>9, <2>10, <2>11, <2>12, <2>13
<1>7. ASSUME NEW w \in P!Workers, NEW o \in P!Results, NEW l \in Places, Runs(w, o, l) PROVE JobsHeld'
  <2>1. \A v \in P!Workers : pc'[v] = IF v = w THEN l ELSE pc[v]
    BY <1>3, <1>7 DEF Runs
  <2>2. \A j \in 1..P!N : ran'[j] = IF j = job[w] THEN 1 ELSE ran[j]
    BY <1>1, <1>2, <1>7 DEF Runs, P!Ran
  <2>3. l # "job" /\ (l = "shard" => how = "run") /\ (l \in P!Results => how # "run")
    BY <1>4, <1>7 DEF Runs
  <2>4. UNCHANGED <<job, pulled, how>> /\ P!N' = P!N /\ pc[w] = "job"
    BY <1>7 DEF Runs, Kept, P!N
  <2>5. \A v \in P!Workers : Has(v)' => Has(v)
    BY <2>1, <2>4
  <2>6. \A v \in P!Workers : Has(v)' => job'[v] \in 1..pulled'
    BY <1>1, <2>4, <2>5
  <2>7. \A u, v \in P!Workers : Has(u)' /\ Has(v)' /\ job'[u] = job'[v] => u = v
    BY <1>1, <2>4, <2>5
  <2>8. \A v \in P!Workers : pc'[v] = "job" => ran'[job'[v]] = 0
    <3>1. \A v \in P!Workers : pc'[v] = "job" => v # w /\ pc[v] = "job"
      BY <2>1, <2>3
    <3>2. \A v \in P!Workers : pc'[v] = "job" => job[v] # job[w]
      BY <1>1, <2>4, <3>1
    <3> QED
      BY <1>1, <1>2, <2>2, <2>4, <3>1, <3>2
  <2>9. \A v \in P!Workers : Answering(v)' => ran'[job'[v]] = 1 /\ how' # "run"
    BY <1>1, <1>2, <2>1, <2>2, <2>3, <2>4
  <2>10. \A v \in P!Workers : pc'[v] = "shard" => how' = "run"
    BY <1>1, <2>1, <2>3, <2>4
  <2>11. \A j \in 1..P!N : ran'[j] = 1 => j <= pulled'
    BY <1>1, <1>2, <2>2, <2>4
  <2>12. \A j \in 1..pulled : ran'[j] = 1 \/ \E v \in P!Workers : pc'[v] = "job" /\ job'[v] = j
    <3>1. \A v \in P!Workers : pc[v] = "job" /\ job[v] # job[w] => pc'[v] = "job"
      BY <2>1
    <3> QED
      BY <1>1, <1>2, <2>2, <2>4, <3>1
  <2> QED
    BY <2>4, <2>6, <2>7, <2>8, <2>9, <2>10, <2>11, <2>12
<1>8. ASSUME NEW w \in P!Workers, Answers(w) PROVE JobsHeld'
  <2>1. \A v \in P!Workers : pc'[v] = IF v = w THEN "top" ELSE pc[v]
    BY <1>3, <1>8 DEF Answers
  <2> QED
    BY <1>1, <1>2, <1>4, <1>8, <2>1 DEF Answers, Kept, P!N
<1>9. ASSUME Stands PROVE JobsHeld'
  BY <1>1, <1>9 DEF Stands, Kept, P!N
<1> QED
  BY <1>5, <1>6, <1>7, <1>8, <1>9, PoolMoves

\* What the later lemmas use of the invariant.
LEMMA PoolFacts ==
  ASSUME PoolInv
  PROVE  /\ PoolTyped /\ JobsHeld /\ ToldOnce /\ RightlyTold /\ P!N \in Nat
         /\ pc \in [P!Workers -> Places] /\ job \in [P!Workers -> 0..P!N]
         /\ ran \in [1..P!N -> 0..1] /\ pulled \in 0..P!N /\ told \in Seq(1..P!N)
         /\ \A l, w : P!Goto(w, l) => \A v \in P!Workers : pc'[v] = IF v = w THEN l ELSE pc[v]
         /\ \A l \in {"top", "pull", "shard", "job", "done"} : l \notin P!Results
         /\ \A w \in P!Workers : Has(w) => job[w] \in 1..P!N
         /\ \A j \in 1..P!N : told' = Append(told, j) =>
              (\A y : Heard(y)' <=> Heard(y) \/ y = j) /\ (Distinct(told) /\ ~Heard(j) => Distinct(told'))
         /\ UNCHANGED told => (\A y : Heard(y)' <=> Heard(y)) /\ (Distinct(told) => Distinct(told'))
<1>1. PoolTyped /\ JobsHeld /\ ToldOnce /\ RightlyTold /\ P!N \in Nat
  BY PoolSize DEF PoolInv
<1>2. /\ pc \in [P!Workers -> Places] /\ job \in [P!Workers -> 0..P!N] /\ ran \in [1..P!N -> 0..1] /\ pulled \in 0..P!N
      /\ told \in Seq(1..P!N)
  BY <1>1 DEF PoolTyped, PoolState
<1>3. \A l, w : P!Goto(w, l) => \A v \in P!Workers : pc'[v] = IF v = w THEN l ELSE pc[v]
  BY <1>2 DEF P!Goto
<1>4. \A l \in {"top", "pull", "shard", "job", "done"} : l \notin P!Results
  BY DEF P!Results
<1>5. \A w \in P!Workers : Has(w) => job[w] \in 1..P!N
  BY <1>1, <1>2 DEF JobsHeld
<1>6. \A j \in 1..P!N : told' = Append(told, j) =>
        (\A y : Heard(y)' <=> Heard(y) \/ y = j) /\ (Distinct(told) /\ ~Heard(j) => Distinct(told'))
  <2>1. PICK D : D = 1..P!N
    OBVIOUS
  <2>2. PICK s : s = told /\ s \in Seq(D)
    BY <1>2, <2>1
  <2>3. ASSUME NEW j \in D
        PROVE  /\ \A y : In(Append(s, j), y) <=> In(s, y) \/ y = j
               /\ Distinct(s) /\ ~In(s, j) => Distinct(Append(s, j))
    BY <2>2, <2>3, Appended
  <2> QED
    BY <2>1, <2>2, <2>3 DEF Heard
<1>7. UNCHANGED told => (\A y : Heard(y)' <=> Heard(y)) /\ (Distinct(told) => Distinct(told'))
  BY DEF Heard
<1> QED
  BY <1>1, <1>2, <1>3, <1>4, <1>5, <1>6, <1>7

\* No error is told twice.
LEMMA ToldOnceNext == ASSUME PoolInv, P!Next PROVE ToldOnce'
<1> USE DEF ToldOnce, Answering
<1>1. ASSUME NEW w \in P!Workers, NEW l \in Places, Idles(w, l) \/ (l = "job" /\ Takes(w)) PROVE ToldOnce'
  <2>1. \A v \in P!Workers : pc'[v] = IF v = w THEN l ELSE pc[v]
    BY PoolFacts, <1>1 DEF Idles, Takes
  <2>2. l \notin P!Results /\ UNCHANGED <<told, ran>> /\ P!N' = P!N
    BY PoolFacts, <1>1 DEF Idles, Takes, Kept, P!N
  <2>3. \A v \in P!Workers : Answering(v)' => Answering(v) /\ job'[v] = job[v]
    BY PoolFacts, <1>1, <2>1, <2>2 DEF Idles, Takes
  <2> QED
    BY PoolFacts, <2>2, <2>3
<1>2. ASSUME NEW w \in P!Workers, NEW o \in P!Results, NEW l \in Places, Runs(w, o, l) PROVE ToldOnce'
  <2>1. \A v \in P!Workers : pc'[v] = IF v = w THEN l ELSE pc[v]
    BY PoolFacts, <1>2 DEF Runs
  <2>2. pc[w] = "job" /\ job[w] \in 1..P!N /\ ran[job[w]] = 0 /\ ~Heard(job[w])
    BY PoolFacts, <1>2 DEF Runs, JobsHeld, Has
  <2>3. \A j \in 1..P!N : ran'[j] = IF j = job[w] THEN 1 ELSE ran[j]
    BY PoolFacts, <1>2, <2>2 DEF Runs, P!Ran
  <2>4. UNCHANGED job /\ P!N' = P!N
    BY <1>2 DEF Runs, Kept, P!N
  <2>5. CASE UNCHANGED told
    BY PoolFacts, <2>1, <2>2, <2>3, <2>4, <2>5
  <2>6. CASE told' = Append(told, job[w]) /\ l \notin P!Results
    <3>1. Distinct(told') /\ \A y : Heard(y)' <=> Heard(y) \/ y = job[w]
      BY PoolFacts, <2>2, <2>6
    <3>2. \A v \in P!Workers : Answering(v)' => Answering(v) /\ job[v] # job[w]
      BY PoolFacts, <2>1, <2>2, <2>6 DEF JobsHeld, Has
    <3> QED
      BY PoolFacts, <2>2, <2>3, <2>4, <3>1, <3>2
  <2> QED
    BY PoolFacts, <1>2, <2>5, <2>6 DEF Runs
<1>3. ASSUME NEW w \in P!Workers, Answers(w) PROVE ToldOnce'
  <2>1. \A v \in P!Workers : pc'[v] = IF v = w THEN "top" ELSE pc[v]
    BY PoolFacts, <1>3 DEF Answers
  <2>2. \A v \in P!Workers : Answering(v)' => v # w /\ Answering(v)
    BY PoolFacts, <2>1
  <2>3. job[w] \in 1..P!N /\ ~Heard(job[w]) /\ ran[job[w]] = 1
    BY PoolFacts, <1>3 DEF Answers, JobsHeld, Has
  <2>4. \A v \in P!Workers : Answering(v)' => job[v] # job[w]
    BY PoolFacts, <1>3, <2>2 DEF Answers, JobsHeld, Has
  <2>5. UNCHANGED <<job, ran>> /\ P!N' = P!N
    BY <1>3 DEF Answers, Kept, P!N
  <2>6. CASE UNCHANGED told
    BY PoolFacts, <2>2, <2>5, <2>6
  <2>7. CASE told' = Append(told, job[w])
    <3>1. Distinct(told') /\ \A y : Heard(y)' <=> Heard(y) \/ y = job[w]
      BY PoolFacts, <2>3, <2>7
    <3> QED
      BY PoolFacts, <2>2, <2>3, <2>4, <2>5, <3>1
  <2> QED
    BY <1>3, <2>6, <2>7 DEF Answers
<1>4. ASSUME Stands PROVE ToldOnce'
  BY PoolFacts, <1>4 DEF Stands, Kept, P!N
<1> QED
  BY <1>1, <1>2, <1>3, <1>4, PoolMoves DEF Places

\* What is told is what the options ask for.
LEMMA RightlyToldNext == ASSUME PoolInv, P!Next PROVE RightlyTold'
<1>1. PoolTyped /\ JobsHeld /\ RightlyTold
  BY PoolFacts
<1> SUFFICES ASSUME ctx = "live", ctx' = "live" PROVE RightlyTold'
  <2>1. ctx' = "live" => ctx = "live"
    BY <1>1, PoolMoves DEF Idles, Takes, Runs, Answers, Stands, PoolTyped, PoolState
  <2> QED
    BY <2>1 DEF RightlyTold
<1> USE DEF RightlyTold, Answering, Answered
<1>2. ASSUME NEW w \in P!Workers, NEW l \in Places, Idles(w, l) \/ (l = "job" /\ Takes(w)) PROVE RightlyTold'
  <2>1. \A v \in P!Workers : pc'[v] = IF v = w THEN l ELSE pc[v]
    BY PoolFacts, <1>2 DEF Idles, Takes
  <2>2. l \notin P!Results /\ ~Has(w) /\ UNCHANGED <<Kept, told, ran, sinkDone>> /\ P!N' = P!N
    BY PoolFacts, <1>2 DEF Idles, Takes, Kept, P!N
  <2>3. \A v \in P!Workers : Answering(v) \/ Answering(v)' =>
          Answering(v) /\ Answering(v)' /\ job'[v] = job[v] /\ pc'[v] = pc[v]
    BY PoolFacts, <1>2, <2>1, <2>2 DEF Idles, Takes, Has
  <2>4. \A j \in 1..P!N : Answered(j)' <=> Answered(j)
    BY PoolFacts, <2>2, <2>3
  <2> QED
    BY PoolFacts, <2>2, <2>3, <2>4 DEF Kept
<1>3. ASSUME NEW w \in P!Workers, NEW o \in P!Results, NEW l \in Places, Runs(w, o, l) PROVE RightlyTold'
  <2>1. \A v \in P!Workers : pc'[v] = IF v = w THEN l ELSE pc[v]
    BY PoolFacts, <1>3 DEF Runs
  <2>2. pc[w] = "job" /\ job[w] \in 1..P!N /\ ran[job[w]] = 0 /\ ~Heard(job[w])
    BY PoolFacts, <1>3 DEF Runs, JobsHeld, Has, ToldOnce
  <2>3. \A j \in 1..P!N : ran'[j] = IF j = job[w] THEN 1 ELSE ran[j]
    BY PoolFacts, <1>3, <2>2 DEF Runs, P!Ran
  <2>4. UNCHANGED <<Kept, job, sinkDone>> /\ P!N' = P!N /\ o = jobs[job[w]]
    BY <1>3 DEF Runs, Kept, P!N, P!Outcome
  <2>5. CASE how = "run"
    <3>1. \A j \in 1..P!N : Heard(j)' <=> Heard(j) \/ (j = job[w] /\ P!Collects(conf, o))
      BY PoolFacts, <1>3, <2>2, <2>5 DEF Runs
    <3>2. \A v \in P!Workers : ~Answering(v)'
      <4>1. \A v \in P!Workers : pc[v] \notin P!Results
        BY PoolFacts, <2>5 DEF JobsHeld, Answering
      <4>2. l \notin P!Results
        BY PoolFacts, <1>3, <2>5 DEF Runs
      <4> QED
        BY <2>1, <4>1, <4>2 DEF Answering
    <3> QED
      BY PoolFacts, <2>2, <2>3, <2>4, <2>5, <3>1, <3>2 DEF Kept
  <2>6. CASE how # "run"
    <3>1. l = o /\ \A j : Heard(j)' <=> Heard(j)
      BY PoolFacts, <1>3, <2>6 DEF Runs
    <3>2. \A v \in P!Workers : Answering(v)' => pc'[v] = jobs[job[v]]
      BY PoolFacts, <2>1, <2>4, <3>1
    <3>3. \A j \in 1..P!N : ran'[j] = 1 => j = job[w] \/ ran[j] = 1
      BY <2>3
    <3>4. \A j \in 1..P!N : Answered(j) \/ j = job[w] => Answered(j)'
      <4>1. \A v \in P!Workers : Answering(v) \/ v = w => Answering(v)'
        BY PoolFacts, <2>1, <2>2, <3>1
      <4> QED
        BY <1>3, <2>4, <3>1, <4>1
    <3> QED
      BY PoolFacts, <2>4, <2>6, <3>1, <3>2, <3>3, <3>4 DEF Kept
  <2> QED
    BY <2>5, <2>6
<1>4. ASSUME NEW w \in P!Workers, Answers(w) PROVE RightlyTold'
  <2>1. \A v \in P!Workers : pc'[v] = IF v = w THEN "top" ELSE pc[v]
    BY PoolFacts, <1>4 DEF Answers
  <2>2. how # "run" /\ job[w] \in 1..P!N /\ pc[w] = jobs[job[w]] /\ Answering(w)
    BY PoolFacts, <1>4 DEF Answers, JobsHeld, Has
  <2>3. UNCHANGED <<Kept, job, ran>> /\ P!N' = P!N
    BY <1>4 DEF Answers, Kept, P!N
  <2>4. \A v \in P!Workers : Answering(v)' => pc'[v] = jobs[job[v]]
    BY PoolFacts, <2>1
  <2>5. \A v \in P!Workers : Answering(v) /\ v # w => Answering(v)'
    BY <2>1
  <2>6. CASE (sinkDone \/ ~Wanted(w)) /\ UNCHANGED <<told, sinkDone>>
    <3>1. \A j : Heard(j)' <=> Heard(j)
      BY PoolFacts, <2>6
    <3>2. ~sinkDone => how = "pull" /\ jobs[job[w]] = "ok"
      BY PoolFacts, <2>2, <2>6 DEF Wanted, PoolTyped, PoolState
    <3>3. \A j \in 1..P!N : Answered(j) /\ j # job[w] => Answered(j)'
      BY <2>3, <2>5, <3>1
    <3> QED
      BY PoolFacts, <2>2, <2>3, <2>4, <2>6, <3>1, <3>2, <3>3 DEF Kept
  <2>7. CASE ~sinkDone /\ Wanted(w) /\ told' = Append(told, job[w])
    <3>1. \A j : Heard(j)' <=> Heard(j) \/ j = job[w]
      BY PoolFacts, <2>2, <2>7
    <3>2. how = "pull" => jobs[job[w]] # "ok"
      BY <2>2, <2>7 DEF Wanted
    <3>3. \A j \in 1..P!N : Answered(j) => Answered(j)'
      BY <2>3, <2>5, <3>1
    <3> QED
      BY PoolFacts, <2>2, <2>3, <2>4, <2>7, <3>1, <3>2, <3>3 DEF Kept
  <2> QED
    BY <1>4, <2>6, <2>7 DEF Answers
<1>5. ASSUME Stands PROVE RightlyTold'
  BY PoolFacts, <1>5 DEF Stands, Kept, P!N
<1> QED
  BY <1>2, <1>3, <1>4, <1>5, PoolMoves DEF Places

\* Workers stop when the source is over or the context has ended.
LEMMA WorkersStopNext == ASSUME PoolInv, P!Next PROVE WorkersStop'
<1>1. PoolTyped /\ JobsHeld /\ WorkersStop
  BY DEF PoolInv
<1>2. pc \in [P!Workers -> Places] /\ size \in 1..MaxWorkers
  BY <1>1 DEF PoolTyped, PoolState
<1>3. \A l, w : P!Goto(w, l) => \A v \in P!Workers : pc'[v] = IF v = w THEN l ELSE pc[v]
  BY <1>2 DEF P!Goto
<1>4. "done" \notin P!Results
  BY DEF P!Results
<1> USE DEF WorkersStop
<1>5. ASSUME NEW w \in P!Workers, P!Work(w) PROVE WorkersStop'
  <2>1. pc[w] # "done" /\ ~returned /\ ~(w > size)
    BY <1>1, <1>4, <1>5 DEF P!Work, P!Top, P!PullShard, P!ShardNext, P!ShardJob, P!PullJob, P!PoolJob, P!Sink
  <2>2. UNCHANGED <<Kept, ctx, returned>>
    BY <1>5 DEF P!Work, P!Top, P!PullShard, P!ShardNext, P!ShardJob, P!PullJob, P!PoolJob, P!Sink, P!given, Kept
  <2>3. PICK l : P!Goto(w, l) /\ (l = "done" => ctx = "canceled" \/ poolOver)
    <3>1. CASE P!Top(w)
      BY <1>1, <3>1 DEF P!Top, P!poolLive, PoolTyped, PoolState
    <3>2. CASE P!PoolJob(w)
      <4>1. PICK o \in P!Outcome(w) : P!Goto(w, P!filterPreserving(conf, o))
        BY <3>2 DEF P!PoolJob
      <4>2. P!filterPreserving(conf, o) = o
        BY DEF P!filterPreserving, P!Filter
      <4>3. o # "done"
        <5>1. job[w] \in 1..P!N /\ P!N \in Nat
          BY PoolFacts, <3>2 DEF P!PoolJob, Has
        <5>2. jobs[job[w]] \in P!TaskJob
          BY <1>1, <5>1 DEF PoolTyped, PoolState, P!N
        <5> QED
          BY <4>1, <5>2 DEF P!Outcome, P!TaskJob, P!Fallible
      <4> QED
        BY <4>1, <4>2, <4>3
    <3>3. CASE ~P!Top(w) /\ ~P!PoolJob(w)
      BY <1>5, <3>3 DEF P!Work, P!PullShard, P!ShardNext, P!ShardJob, P!PullJob, P!Sink, P!Finish
    <3> QED
      BY <3>1, <3>2, <3>3
  <2>4. poolOver => poolOver'
    BY <1>5 DEF P!Work, P!Top, P!PullShard, P!ShardNext, P!ShardJob, P!PullJob, P!PoolJob, P!Sink
  <2>5. \A v \in P!Workers : pc'[v] = "done" /\ v <= size' => ctx' = "canceled" \/ poolOver'
    BY <1>1, <1>3, <2>2, <2>3, <2>4 DEF Kept
  <2>6. \A v \in P!Workers : v > size' => pc'[v] = "done"
    BY <1>1, <1>3, <2>1, <2>2, <2>3 DEF Kept
  <2>7. failure' => sinkDone'
    BY <1>1, <1>5 DEF P!Work, P!Top, P!PullShard, P!ShardNext, P!ShardJob, P!PullJob, P!PoolJob, P!Sink
  <2>8. how # "run" => ~released' /\ aborted' = 0
    BY <1>1, <1>5 DEF P!Work, P!Top, P!PullShard, P!ShardNext, P!ShardJob, P!PullJob, P!PoolJob, P!Sink, JobsHeld
  <2>9. how # "run" => (poolOver' /\ ~sinkDone' => pulled' = P!N)
    <3>1. SUFFICES ASSUME how # "run", poolOver', ~sinkDone' PROVE pulled' = P!N
      OBVIOUS
    <3>5. poolOver /\ ~sinkDone => pulled = P!N
      BY <1>1, <3>1
    <3>2. CASE P!PullJob(w)
      <4>1. pulled' = P!N \/ (UNCHANGED <<poolOver, sinkDone>> /\ pulled # P!N)
        BY <1>1, <3>2 DEF P!PullJob, PoolTyped, PoolState
      <4> QED
        BY <3>1, <3>5, <4>1
    <3>3. CASE P!Sink(w)
      <4>1. UNCHANGED pulled
        BY <3>3 DEF P!Sink
      <4>2. sinkDone' = TRUE \/ (sinkDone /\ UNCHANGED sinkDone) \/ (~sinkDone /\ UNCHANGED poolOver)
        BY <3>3 DEF P!Sink
      <4> QED
        BY <3>1, <3>5, <4>1, <4>2
    <3>4. CASE P!Top(w) \/ P!PoolJob(w)
      BY <1>1, <3>1, <3>4 DEF P!Top, P!PoolJob
    <3> QED
      BY <1>1, <1>5, <3>1, <3>2, <3>3, <3>4 DEF P!Work, P!PullShard, P!ShardNext, P!ShardJob, JobsHeld
  <2>10. P!N' = P!N
    BY <2>2 DEF Kept, P!N
  <2> QED
    BY <2>1, <2>2, <2>5, <2>6, <2>7, <2>8, <2>9, <2>10 DEF Kept
<1>6. ASSUME P!Cancel PROVE WorkersStop'
  BY <1>1, <1>6 DEF P!Cancel, P!given, P!N
<1>7. ASSUME P!Return PROVE WorkersStop'
  BY <1>1, <1>7 DEF P!Return, P!given, P!N
<1> QED
  BY <1>5, <1>6, <1>7 DEF P!Next

\* The number of workers with a shard, when one gets or leaves its own.
LEMMA ShardedCount ==
  /\ Cardinality(Sharded) \in Nat
  /\ \A w \in Sharded : Cardinality(Sharded) >= 1 /\ Cardinality(Sharded \ {w}) = Cardinality(Sharded) - 1
  /\ \A w : w \notin Sharded => Cardinality(Sharded \cup {w}) = Cardinality(Sharded) + 1
  /\ Sharded = {} => Cardinality(Sharded) = 0
<1>1. IsFiniteSet(P!Workers)
  BY FS_Interval, StreamingAssumption DEF P!Workers
<1>2. IsFiniteSet(Sharded)
  BY <1>1, FS_Subset DEF Sharded
<1>3. Cardinality(Sharded) \in Nat
  BY <1>2, FS_CardinalityType
<1>4. ASSUME NEW w \in Sharded PROVE Cardinality(Sharded) >= 1 /\ Cardinality(Sharded \ {w}) = Cardinality(Sharded) - 1
  <2>1. Cardinality(Sharded \ {w}) = Cardinality(Sharded) - 1
    BY <1>2, <1>4, FS_RemoveElement
  <2>2. Cardinality(Sharded \ {w}) \in Nat
    BY <1>2, FS_Subset, FS_CardinalityType
  <2> QED
    BY <1>3, <2>1, <2>2
<1>5. ASSUME NEW w, w \notin Sharded PROVE Cardinality(Sharded \cup {w}) = Cardinality(Sharded) + 1
  BY <1>2, <1>5, FS_AddElement
<1> QED
  BY <1>3, <1>4, <1>5, FS_EmptySet

\* "remain" counts the shards that have not been finished.
LEMMA ShardsFinishNext == ASSUME PoolInv, P!Next, how = "run" PROVE ShardsFinish'
<1>1. PoolTyped /\ JobsHeld /\ ShardsFinish
  BY DEF PoolInv
<1>2. /\ pc \in [P!Workers -> Places] /\ size \in 1..MaxWorkers /\ shards \in 0..size /\ remain \in Int
      /\ aborted \in Nat /\ ctx \in {"live", "canceled"} /\ pulled \in 0..P!N /\ P!N \in Nat
  BY <1>1, PoolSize DEF PoolTyped, PoolState
<1>3. \A l, w : P!Goto(w, l) => \A v \in P!Workers : pc'[v] = IF v = w THEN l ELSE pc[v]
  BY <1>2 DEF P!Goto
<1>4. /\ poolOver => shards = size
      /\ remain = size - shards + Cardinality(Sharded)
      /\ aborted + remain <= size
      /\ remain = 0 \/ ctx = "canceled" => released
      /\ ctx = "live" => (released => remain = 0) /\ (pulled = P!N \/ aborted + remain = size)
  BY <1>1 DEF ShardsFinish
<1>5. P!N' = P!N /\ UNCHANGED <<how, size, conf, jobs>>
  BY PoolMoves DEF Idles, Takes, Runs, Answers, Stands, Kept, P!N
<1>6. SUFFICES /\ poolOver' => shards' = size
               /\ remain' = size - shards' + Cardinality(Sharded')
               /\ aborted' + remain' <= size
               /\ remain' = 0 \/ ctx' = "canceled" => released'
               /\ ctx' = "live" => (released' => remain' = 0) /\ (pulled' = P!N \/ aborted' + remain' = size)
  BY <1>5, <1>6 DEF ShardsFinish
<1> DEFINE Goal == /\ poolOver' => shards' = size
                   /\ remain' = size - shards' + Cardinality(Sharded')
                   /\ aborted' + remain' <= size
                   /\ remain' = 0 \/ ctx' = "canceled" => released'
                   /\ ctx' = "live" => (released' => remain' = 0) /\ (pulled' = P!N \/ aborted' + remain' = size)
<1>7. ASSUME NEW w \in P!Workers, P!Top(w) PROVE Goal
  <2>1. Sharded' = Sharded
    BY <1>3, <1>7 DEF P!Top, Sharded
  <2> QED
    BY <1>4, <1>7, <2>1 DEF P!Top
<1>8. ASSUME NEW w \in P!Workers, P!PullShard(w) PROVE Goal
  <2>1. CASE shards < size /\ shards' = shards + 1 /\ P!Goto(w, "shard") /\ UNCHANGED poolOver
    <3>1. w \notin Sharded /\ Sharded' = Sharded \cup {w}
      BY <1>3, <1>8, <2>1 DEF P!PullShard, Sharded
    <3>2. Cardinality(Sharded') = Cardinality(Sharded) + 1
      BY <3>1, ShardedCount
    <3>3. UNCHANGED <<remain, aborted, released, ctx, pulled>>
      BY <1>8 DEF P!PullShard
    <3>4. ~poolOver'
      BY <1>4, <2>1, <1>2
    <3> QED
      BY <1>2, <1>4, <2>1, <3>2, <3>3, <3>4, ShardedCount
  <2>2. CASE shards = size /\ poolOver' = TRUE /\ P!Goto(w, "top") /\ UNCHANGED shards
    <3>1. Sharded' = Sharded
      BY <1>3, <1>8, <2>2 DEF P!PullShard, Sharded
    <3> QED
      BY <1>4, <1>8, <2>2, <3>1 DEF P!PullShard
  <2> QED
    BY <1>8, <2>1, <2>2 DEF P!PullShard
<1>9. ASSUME NEW w \in P!Workers, w \in Sharded, P!Finish(w), aborted' \in {aborted, aborted + 1},
             ctx = "live" => pulled = P!N \/ aborted' = aborted + 1, UNCHANGED <<pulled, shards, poolOver, ctx>>
      PROVE  Goal
  <2>1. Sharded' = Sharded \ {w}
    BY <1>3, <1>9 DEF P!Finish, Sharded
  <2>2. Cardinality(Sharded') = Cardinality(Sharded) - 1 /\ Cardinality(Sharded) >= 1 /\ Cardinality(Sharded) \in Nat
    BY <1>9, <2>1, ShardedCount
  <2>3. remain' = remain - 1 /\ remain >= 1
    BY <1>2, <1>4, <1>9, <2>2 DEF P!Finish
  <2>4. released' <=> released \/ remain' = 0
    <3>1. remain = 1 <=> remain' = 0
      BY <1>2, <2>3
    <3>2. released' = (released \/ remain = 1)
      BY <1>9 DEF P!Finish
    <3> QED
      BY <3>1, <3>2
  <2>5. ctx = "live" => ~released
    BY <1>4, <2>3
  <2>6. aborted' + remain' <= size /\ remain' = size - shards' + Cardinality(Sharded')
    BY <1>2, <1>4, <1>9, <2>2, <2>3
  <2>7. ctx' = "live" => pulled' = P!N \/ aborted' + remain' = size
    BY <1>2, <1>4, <1>9, <2>3
  <2>8. remain' = 0 \/ ctx' = "canceled" => released'
    BY <1>4, <1>9, <2>4
  <2>9. ctx' = "live" => (released' => remain' = 0)
    BY <1>9, <2>4, <2>5
  <2>10. poolOver' => shards' = size
    BY <1>4, <1>9
  <2> QED
    BY <2>6, <2>7, <2>8, <2>9, <2>10
<1>10. ASSUME NEW w \in P!Workers, P!ShardNext(w) PROVE Goal
  <2>1. w \in Sharded
    BY <1>10 DEF P!ShardNext, Sharded
  <2>2. CASE ctx = "live" /\ ~released /\ pulled < P!N /\ pulled' = pulled + 1 /\ P!Goto(w, "job") /\ UNCHANGED <<remain, released>>
    <3>1. Sharded' = Sharded
      BY <1>3, <2>1, <2>2 DEF Sharded
    <3>2. UNCHANGED <<shards, aborted, poolOver, ctx>>
      BY <1>10 DEF P!ShardNext
    <3> QED
      BY <1>2, <1>4, <2>2, <3>1, <3>2
  <2>3. CASE (ctx = "canceled" \/ released \/ pulled = P!N) /\ P!Finish(w) /\ UNCHANGED <<pulled, job>>
    <3>1. UNCHANGED <<shards, aborted, poolOver, ctx>>
      BY <1>10 DEF P!ShardNext
    <3>2. remain >= 1
      <4>1. Cardinality(Sharded) >= 1 /\ Cardinality(Sharded) \in Nat
        BY <2>1, ShardedCount
      <4> QED
        BY <1>2, <1>4, <4>1
    <3>3. ctx = "live" => pulled = P!N
      BY <1>4, <2>3, <3>2
    <3> QED
      BY <1>9, <2>1, <2>3, <3>1, <3>3
  <2> QED
    BY <1>10, <2>2, <2>3 DEF P!ShardNext
<1>11. ASSUME NEW w \in P!Workers, P!ShardJob(w) PROVE Goal
  <2>1. w \in Sharded /\ UNCHANGED <<pulled, shards, poolOver, ctx>>
    BY <1>11 DEF P!ShardJob, Sharded
  <2>2. CASE P!Goto(w, "shard") /\ UNCHANGED <<remain, released, aborted>>
    <3>1. Sharded' = Sharded
      BY <1>3, <2>1, <2>2 DEF Sharded
    <3> QED
      BY <1>4, <2>1, <2>2, <3>1
  <2>3. CASE P!Finish(w) /\ aborted' = aborted + 1
    BY <1>9, <2>1, <2>3
  <2> QED
    BY <1>11, <2>2, <2>3 DEF P!ShardJob
<1>12. ASSUME P!Cancel \/ P!Return PROVE Goal
  <2>1. Sharded' = Sharded /\ UNCHANGED <<pulled, shards, poolOver, remain, aborted>>
    BY <1>12 DEF P!Cancel, P!Return, Sharded
  <2>2. CASE P!Cancel
    <3>1. released' /\ ctx' = "canceled"
      BY <2>2 DEF P!Cancel
    <3> QED
      BY <1>2, <1>4, <2>1, <3>1
  <2>3. CASE P!Return
    BY <1>2, <1>4, <2>1, <2>3 DEF P!Return
  <2> QED
    BY <1>12, <2>2, <2>3
<1>13. ASSUME NEW w \in P!Workers, P!Sink(w) PROVE FALSE
  BY <1>1, <1>13 DEF P!Sink, JobsHeld, Answering
<1> QED
  BY <1>7, <1>8, <1>10, <1>11, <1>12, <1>13 DEF P!Next, P!Work, P!PullJob, P!PoolJob

\* A single strict worker leaves the jobs behind the first error alone.
LEMMA StopsFirstNext == ASSUME PoolInv, P!Next PROVE StopsFirst'
<1>1. PoolTyped /\ JobsHeld /\ WorkersStop /\ ShardsFinish /\ StopsFirst
  BY DEF PoolInv
<1>2. ctx' = "live" => ctx = "live" 
  BY <1>1, PoolMoves DEF Idles, Takes, Runs, Answers, Stands, PoolTyped, PoolState
<1>3. UNCHANGED Kept /\ P!N' = P!N
  BY PoolMoves DEF Idles, Takes, Runs, Answers, Stands, Kept, P!N
<1>4. SUFFICES ASSUME Strict, Strict' PROVE StopsFirst'
  BY <1>2, <1>3, <1>4 DEF StopsFirst, Strict, Kept
<1>5. how = "run" /\ ctx = "live" /\ size = 1 /\ ~conf.onError /\ ~conf.onPanic
  BY <1>4 DEF Strict
<1>6. \A w \in P!Workers : pc[w] # "done" => \A v \in P!Workers : v # w => pc[v] = "done"
  BY <1>1, <1>5 DEF WorkersStop, P!Workers
<1>7. aborted <= 1 /\ \A w \in P!Workers : pc[w] = "shard" => aborted = 0
  <2>1. remain = 1 - shards + Cardinality(Sharded) /\ aborted + remain <= 1
    BY <1>1, <1>5 DEF ShardsFinish
  <2>2. shards \in 0..1 /\ aborted \in Nat /\ remain \in Int
    BY <1>1, <1>5 DEF PoolTyped, PoolState
  <2>3. \A w \in P!Workers : pc[w] = "shard" => Cardinality(Sharded) >= 1
    BY ShardedCount DEF Sharded
  <2>4. Cardinality(Sharded) \in Nat
    BY ShardedCount
  <2> QED
    BY <2>1, <2>2, <2>3, <2>4
<1>8. /\ \A w \in P!Workers : pc[w] = "job" => job[w] = pulled
      /\ \A j \in 1..P!N : ran[j] = 1 /\ Halting(j) => aborted = 1 /\ j = pulled
      /\ aborted = 1 => pulled > 0 /\ ran[pulled] = 1 /\ Halting(pulled)
  BY <1>1, <1>4 DEF StopsFirst
<1> USE DEF StopsFirst, Halting
<1>9. ASSUME NEW w \in P!Workers, NEW l \in Places, Idles(w, l) PROVE StopsFirst'
  <2>1. \A v \in P!Workers : pc'[v] = IF v = w THEN l ELSE pc[v]
    BY PoolFacts, <1>9 DEF Idles
  <2> QED
    BY <1>3, <1>8, <1>9, <2>1 DEF Idles, Kept
<1>10. ASSUME NEW w \in P!Workers, Takes(w) PROVE StopsFirst'
  <2>1. \A v \in P!Workers : pc'[v] = "job" => v = w
    <3>1. \A v \in P!Workers : v # w => pc'[v] = pc[v]
      BY PoolFacts, <1>10 DEF Takes
    <3>2. pc[w] = "shard"
      BY <1>5, <1>10 DEF Takes
    <3> QED
      BY <1>6, <3>1, <3>2
  <2>2. job'[w] = pulled'
    BY PoolFacts, <1>10 DEF Takes
  <2>3. aborted' = 0 /\ UNCHANGED ran
    BY <1>5, <1>7, <1>10 DEF Takes
  <2> QED
    BY <1>3, <1>8, <1>10, <2>1, <2>2, <2>3 DEF Takes, Kept
<1>11. ASSUME NEW w \in P!Workers, NEW o \in P!Results, NEW l \in Places, Runs(w, o, l) PROVE StopsFirst'
  <2>1. pc[w] = "job" /\ job[w] = pulled /\ ran[pulled] = 0 /\ pulled \in 1..P!N /\ UNCHANGED pulled
    BY PoolFacts, <1>8, <1>11 DEF Runs, JobsHeld, Has
  <2>2. aborted = 0
    BY <1>1, <1>7, <1>8, <2>1 DEF PoolTyped, PoolState
  <2>3. \A j \in 1..P!N : ran'[j] = IF j = pulled THEN 1 ELSE ran[j]
    BY PoolFacts, <1>11, <2>1 DEF Runs, P!Ran
  <2>4. o = jobs[pulled] 
    BY <1>5, <1>11, <2>1 DEF Runs, P!Outcome
  <2>5. P!Filter(conf, o) \in {"ok", "skip"} <=> ~Halting(pulled)
    BY <1>5, <2>4 DEF P!Filter, P!CanContinueOnError, P!Results
  <2>6. aborted' = IF Halting(pulled) THEN 1 ELSE 0
    BY <1>5, <1>11, <2>2, <2>5 DEF Runs
  <2>7. \A v \in P!Workers : pc'[v] # "job"
    BY PoolFacts, <1>5, <1>6, <1>11, <2>1 DEF Runs
  <2> QED
    BY <1>3, <1>8, <2>1, <2>2, <2>3, <2>6, <2>7 DEF Kept
<1>12. ASSUME NEW w \in P!Workers, Answers(w) PROVE FALSE
  BY <1>1, <1>5, <1>12 DEF Answers, JobsHeld
<1>13. ASSUME Stands PROVE StopsFirst'
  BY <1>3, <1>8, <1>13 DEF Stands, Kept
<1> QED
  BY <1>9, <1>10, <1>11, <1>12, <1>13, PoolMoves

\* The invariant of the pools holds at the start.
LEMMA PoolInit == ASSUME P!Init PROVE PoolInv
<1>1. jobs \in Seq(P!TaskJob)
  <2>1. PICK answers \in P!JobKinds : \E n \in 0..MaxJobs : jobs \in [1..n -> Outcomes \cap answers]
    BY DEF P!Init
  <2>2. answers \subseteq P!TaskJob
    BY <2>1 DEF P!JobKinds, P!TaskJob, P!ThunkJob, P!ProducerJob, P!ResultJob, P!HandlerJob, P!ReaderJob, P!Fallible
  <2>3. PICK m \in 0..MaxJobs : jobs \in [1..m -> Outcomes \cap answers]
    BY <2>1
  <2>4. m \in Nat
    BY <2>3, StreamingAssumption
  <2> QED
    BY <2>2, <2>3, <2>4
<1>2. P!N \in Nat
  BY <1>1 DEF P!N
<1>3. size \in 1..MaxWorkers
  <2>1. PICK n \in 0..MaxWorkers : size = P!Validate(n)
    BY DEF P!Init
  <2>2. CASE n < 1
    BY <2>1, <2>2, StreamingAssumption DEF P!Validate
  <2>3. CASE ~(n < 1)
    BY <2>1, <2>3, StreamingAssumption DEF P!Validate
  <2> QED
    BY <2>2, <2>3
<1>4. \A w \in P!Workers : pc[w] = IF w <= size THEN "top" ELSE "done"
  BY DEF P!Init
<1>5. told = <<>> /\ Len(told) = 0 /\ \A j : ~Heard(j)
  BY DEF P!Init, Heard, In
<1>6. \A w \in P!Workers : ~Has(w) /\ ~Answering(w) /\ pc[w] \notin {"job", "shard"}
  BY <1>4 DEF Has, Answering, P!Results
<1>7. PoolTyped
  <2>1. pc \in [P!Workers -> Places] /\ job \in [P!Workers -> 0..P!N] /\ ran \in [1..P!N -> 0..1]
    BY <1>2 DEF P!Init, Places
  <2>2. told \in Seq(1..P!N)
    BY <1>5
  <2>3. how \in {"run", "pull", "resolve"} /\ conf \in P!Confs /\ ctx \in {"live", "canceled"}
    BY DEF P!Init
  <2>4. pulled \in 0..P!N /\ shards \in 0..size /\ remain \in Int /\ aborted \in Nat
    BY <1>2, <1>3 DEF P!Init
  <2>5. released \in BOOLEAN /\ sinkDone \in BOOLEAN /\ failure \in BOOLEAN /\ poolOver \in BOOLEAN /\ returned \in BOOLEAN
    BY DEF P!Init
  <2> QED
    BY <1>1, <1>3, <2>1, <2>2, <2>3, <2>4, <2>5 DEF PoolTyped, PoolState
<1>8. JobsHeld
  BY <1>2, <1>6 DEF P!Init, JobsHeld
<1>9. ToldOnce
  BY <1>5, <1>6 DEF ToldOnce, Distinct
<1>10. RightlyTold
  BY <1>5, <1>6 DEF P!Init, RightlyTold
<1>11. WorkersStop
  BY <1>3, <1>4 DEF P!Init, WorkersStop
<1>12. ShardsFinish
  <2>1. Sharded = {}
    BY <1>6 DEF Sharded
  <2>2. Cardinality(Sharded) = 0
    BY <2>1, FS_EmptySet
  <2> QED
    BY <1>3, <2>2 DEF P!Init, ShardsFinish
<1>13. StopsFirst
  BY <1>6 DEF P!Init, StopsFirst
<1> QED
  BY <1>7, <1>8, <1>9, <1>10, <1>11, <1>12, <1>13 DEF PoolInv

\* The invariant of the pools is inductive.
LEMMA PoolStep == ASSUME PoolInv, P!Next \/ UNCHANGED P!vars PROVE PoolInv'
<1>1. CASE P!Next
  <2>1. ShardsFinish'
    <3>1. CASE how = "run"
      BY <1>1, <3>1, ShardsFinishNext
    <3>2. CASE how # "run"
      BY <1>1, <3>2, PoolMoves DEF Idles, Takes, Runs, Answers, Stands, Kept, ShardsFinish
    <3> QED
      BY <3>1, <3>2
  <2> QED
    BY <1>1, <2>1, PoolTypedNext, JobsHeldNext, ToldOnceNext, RightlyToldNext, WorkersStopNext, StopsFirstNext
    DEF PoolInv
<1>2. CASE UNCHANGED P!vars
  BY <1>2 DEF PoolInv, P!vars, PoolTyped, PoolState, JobsHeld, Has, Answering, ToldOnce, Heard, RightlyTold, Answered,
     WorkersStop, ShardsFinish, Sharded, StopsFirst, Strict, Halting, P!N
<1> QED
  BY <1>1, <1>2

(* What the invariant says of the errors told, and of the jobs that have run, at the end *)
LEMMA RunSequence ==
  ASSUME PoolTyped
  PROVE  /\ P!Run(jobs).ran <= P!RunAll(jobs).ran
         /\ P!Run(jobs).errs \subseteq P!ResolveFutures(jobs).errs
         /\ P!PullAll(jobs).errs = {j \in 1..P!N : jobs[j] # "ok"}
         /\ P!ResolveFuturesAll(jobs).errs = 1..P!N
<1>1. /\ jobs \in Seq(P!TaskJob) /\ P!N = Len(jobs) /\ P!N \in Nat
      /\ P!TaskJob \subseteq P!Results
  BY PoolSize DEF PoolTyped, PoolState, P!N, P!TaskJob, P!Fallible, P!Results
<1>2. \A j \in 1..P!N : jobs[j] \in P!Results
  BY <1>1
<1> DEFINE at == P!Stops(jobs, 1, P!Halts)
<1>3. at \in SUBSET (1..P!N)
  BY <1>1 DEF P!Stops
<1>4. at # {} => P!First(at) \in at
  <2>1. at \in SUBSET Nat
    BY <1>1, <1>3
  <2> HIDE DEF at
  <2>2. at # {} => \E m \in at : \A k \in at : m <= k
    BY <2>1, Minimum
  <2> QED
    BY <2>2 DEF P!First
<1>5. P!Run(jobs).ran = (IF at = {} THEN P!N ELSE P!First(at))
  BY <1>1 DEF P!Run, P!Pull, P!Done
<1>6. P!RunAll(jobs).ran = P!N
  BY <1>1 DEF P!RunAll, P!PullAll, P!Done
<1>7. P!Run(jobs).ran <= P!RunAll(jobs).ran
  BY <1>1, <1>3, <1>4, <1>5, <1>6
<1>8. P!Run(jobs).errs \subseteq P!ResolveFutures(jobs).errs
  BY DEF P!Run, P!ResolveFutures, P!Pull, P!Done
<1>9. P!PullAll(jobs).errs = {j \in 1..P!N : jobs[j] # "ok"}
  BY <1>1, <1>2 DEF P!PullAll, P!Done, P!Told
<1>10. P!ResolveFuturesAll(jobs).errs = 1..P!N
  BY <1>1 DEF P!ResolveFuturesAll, P!Done
<1> QED
  BY <1>7, <1>8, <1>9, <1>10

\* The invariant of the pools is what PoolAccounts needs.
LEMMA PoolAccountsFollows == ASSUME PoolInv PROVE P!PoolAccounts
<1> DEFINE did == {j \in 1..P!N : ran[j] > 0}
           errs == {j \in did : P!Collects(conf, jobs[j])}
           values == {j \in did : how = "resolve" /\ jobs[j] = "ok"}
<1>1. PoolTyped /\ JobsHeld /\ ToldOnce /\ RightlyTold /\ WorkersStop /\ ShardsFinish /\ StopsFirst
  BY DEF PoolInv
<1>2. /\ P!N \in Nat /\ ran \in [1..P!N -> 0..1] /\ told \in Seq(1..P!N) /\ size \in 1..MaxWorkers /\ aborted \in Nat
      /\ pulled \in 0..P!N /\ shards \in 0..size /\ how \in {"run", "pull", "resolve"} /\ ctx \in {"live", "canceled"}
  BY <1>1, PoolSize DEF PoolTyped, PoolState
<1>3. \A j \in 1..P!N : ran[j] <= 1 /\ (ran[j] > 0 <=> ran[j] = 1)
  BY <1>2
<1>4. Len(told) = P!Cardinality(P!Range(told))
  <2>1. PICK D : D = 1..P!N
    OBVIOUS
  <2>2. told \in Seq(D) /\ Distinct(told)
    BY <1>1, <1>2, <2>1 DEF ToldOnce
  <2>3. Cardinality(P!Range(told)) = Len(told)
    BY <2>2, DistinctCount
  <2> QED
    BY <2>3, SameCount
<1>5. \A j : j \in P!Range(told) <=> Heard(j) /\ j \in 1..P!N
  <2>1. PICK D : D = 1..P!N
    OBVIOUS
  <2>2. told \in Seq(D)
    BY <1>2, <2>1
  <2> QED
    BY <2>1, <2>2, InToSet DEF Heard
<1>6. \A j : Heard(j) => j \in did
  <2>1. \A j : Heard(j) => j \in 1..P!N
    BY <1>2 DEF Heard, In
  <2> QED
    BY <1>1, <1>3, <2>1 DEF ToldOnce
<1>7. aborted <= size
  <2>1. CASE how = "run"
    <3>1. remain = size - shards + Cardinality(Sharded) /\ aborted + remain <= size
      BY <1>1, <2>1 DEF ShardsFinish
    <3> QED
      BY <1>2, <3>1, ShardedCount
  <2>2. CASE how # "run"
    BY <1>1, <1>2, <2>2 DEF WorkersStop
  <2> QED
    BY <2>1, <2>2
<1>8. ASSUME returned
      PROVE  /\ ctx = "live" => poolOver
             /\ \A w \in P!Workers : ~Answering(w) /\ pc[w] # "job"
             /\ did = 1..pulled
             /\ how = "run" => released /\ (ctx = "live" => pulled = P!N \/ aborted = size)
             /\ how # "run" => ~released /\ (ctx = "live" /\ ~sinkDone => pulled = P!N)
  <2>1. \A w \in P!Workers : pc[w] = "done"
    BY <1>1, <1>8 DEF WorkersStop
  <2>2. ctx = "live" => poolOver
    <3>1. 1 \in P!Workers /\ 1 <= size
      BY <1>2, StreamingAssumption DEF P!Workers
    <3> QED
      BY <1>1, <2>1, <3>1 DEF WorkersStop
  <2>3. \A w \in P!Workers : ~Answering(w) /\ pc[w] # "job"
    BY <2>1 DEF Answering, P!Results
  <2>4. did = 1..pulled
    <3>1. \A j \in 1..pulled : ran[j] = 1 /\ j \in 1..P!N
      BY <1>1, <1>2, <2>3 DEF JobsHeld
    <3>2. \A j \in 1..P!N : ran[j] = 1 => j \in 1..pulled
      BY <1>1, <1>2 DEF JobsHeld
    <3> QED
      BY <1>3, <3>1, <3>2
  <2>5. ASSUME how = "run" PROVE released /\ (ctx = "live" => pulled = P!N \/ aborted = size)
    <3>1. Sharded = {}
      BY <2>1 DEF Sharded
    <3>2. /\ poolOver => shards = size
          /\ remain = size - shards + Cardinality(Sharded)
          /\ remain = 0 \/ ctx = "canceled" => released
          /\ ctx = "live" => pulled = P!N \/ aborted + remain = size
      BY <1>1, <2>5 DEF ShardsFinish
    <3>3. ctx = "live" => remain = 0
      BY <1>2, <2>2, <3>1, <3>2, ShardedCount
    <3> QED
      BY <1>2, <3>2, <3>3
  <2>6. ASSUME how # "run" PROVE ~released /\ (ctx = "live" /\ ~sinkDone => pulled = P!N)
    BY <1>1, <2>2, <2>6 DEF WorkersStop
  <2> QED
    BY <2>2, <2>3, <2>4, <2>5, <2>6
<1>9. ASSUME returned, ctx = "live", ~sinkDone PROVE did = 1..P!N \/ (how = "run" /\ aborted = size)
  BY <1>8, <1>9
<1>10. ASSUME ctx = "live", how = "run" PROVE P!Range(told) = errs
  BY <1>1, <1>3, <1>5, <1>10 DEF RightlyTold
<1>11. ASSUME ctx = "live", how = "pull" PROVE P!Range(told) \subseteq {j \in did : jobs[j] # "ok"}
  BY <1>1, <1>5, <1>6, <1>11 DEF RightlyTold
<1>12. ASSUME returned, ctx = "live", how = "pull", ~sinkDone PROVE P!Range(told) = P!PullAll(jobs).errs
  <2>1. \A j \in 1..P!N : ran[j] = 1
    BY <1>2, <1>3, <1>8, <1>12
  <2>2. \A j \in 1..P!N : Heard(j) <=> jobs[j] # "ok"
    BY <1>1, <1>8, <1>12, <2>1 DEF RightlyTold, Answered
  <2> QED
    BY <1>1, <1>5, <2>2, RunSequence
<1>13. ASSUME returned, ctx = "live", how = "resolve", ~sinkDone PROVE P!Range(told) = P!ResolveFuturesAll(jobs).errs
  <2>1. \A j \in 1..P!N : ran[j] = 1
    BY <1>2, <1>3, <1>8, <1>13
  <2>2. \A j \in 1..P!N : Heard(j)
    BY <1>1, <1>8, <1>13, <2>1 DEF RightlyTold, Answered
  <2> QED
    BY <1>1, <1>5, <2>2, RunSequence
<1>14. ASSUME returned, Strict PROVE P!Cardinality(did) = P!Run(jobs).ran /\ P!Range(told) = P!Run(jobs).errs
  <2>1. ctx = "live" /\ how = "run" /\ size = 1
    BY <1>14 DEF Strict
  <2>2. did = 1..pulled /\ (pulled = P!N \/ aborted = 1)
    BY <1>8, <1>14, <2>1
  <2>3. P!Cardinality(did) = pulled
    <3>1. pulled \in Int /\ pulled >= 0
      BY <1>2
    <3>2. Cardinality(1..pulled) = pulled
      BY <3>1, FS_Interval
    <3> QED
      BY <2>2, <3>2, SameCount
  <2>4. /\ \A j \in 1..P!N : ran[j] = 1 /\ Halting(j) => aborted = 1 /\ j = pulled
        /\ aborted = 1 => pulled > 0 /\ ran[pulled] = 1 /\ Halting(pulled)
    BY <1>1, <1>14 DEF StopsFirst
  <2> DEFINE at == P!Stops(jobs, 1, P!Halts)
  <2>5. P!N = Len(jobs) /\ \A j \in 1..P!N : jobs[j] \in P!TaskJob
    BY <1>1 DEF PoolTyped, PoolState, P!N
  <2>6. \A j \in 1..P!N : P!Halts[jobs[j]] <=> Halting(j)
    BY <2>5 DEF P!Halts, Halting, P!TaskJob, P!Fallible, P!Results
  <2>7. at = {j \in 1..P!N : Halting(j)}
    <3>1. CASE P!N = 0
      BY <2>5, <3>1 DEF P!Stops
    <3>2. CASE P!N # 0
      BY <1>2, <2>5, <2>6, <3>2 DEF P!Stops
    <3> QED
      BY <3>1, <3>2
  <2>8. \A j \in at : j >= pulled
    BY <1>2, <1>3, <2>2, <2>4, <2>7
  <2>9. (IF at = {} THEN P!N ELSE P!First(at)) = pulled
    <3>1. CASE aborted = 1
      <4>1. pulled \in at
        BY <1>2, <2>4, <2>7, <3>1
      <4>2. \A k \in at : (\A m \in at : k <= m) <=> k = pulled
        BY <1>2, <2>7, <2>8, <4>1
      <4> HIDE DEF at
      <4>3. P!First(at) = pulled
        BY <4>1, <4>2 DEF P!First
      <4> QED
        BY <4>1, <4>3
    <3>2. CASE aborted # 1
      BY <1>2, <1>3, <2>2, <2>4, <2>7, <3>2
    <3> QED
      BY <3>1, <3>2
  <2>10. P!Run(jobs) = P!Done(pulled, P!Told(jobs, pulled, P!Results \ {"ok", "skip", "eof"}))
    BY <2>5, <2>9 DEF P!Run, P!Pull
  <2>11. P!Run(jobs).ran = pulled /\ P!Run(jobs).errs = {j \in 1..pulled : jobs[j] \in P!Results \ {"ok", "skip", "eof"}}
    BY <2>10 DEF P!Done, P!Told
  <2>12. \A j \in 1..P!N : P!Collects(conf, jobs[j]) <=> jobs[j] \in P!Results \ {"ok", "skip", "eof"}
    BY <2>5 DEF P!Collects, P!TaskJob, P!Fallible, P!Results
  <2>13. P!Range(told) = errs
    BY <1>10, <2>1
  <2> QED
    BY <1>2, <2>2, <2>3, <2>11, <2>12, <2>13
<1>15. ASSUME returned PROVE released = (how = "run")
  BY <1>1, <1>8, <1>15 DEF PoolTyped, PoolState
<1>16. failure => sinkDone
  BY <1>1 DEF WorkersStop
<1>18. ASSUME returned, ctx = "live", ~sinkDone PROVE errs \cup values \subseteq P!Range(told)
  <2>1. \A j \in 1..P!N : Answered(j) <=> Heard(j)
    BY <1>8, <1>18 DEF Answered
  <2>2. CASE how = "run"
    <3>1. values = {}
      BY <2>2
    <3> QED
      BY <1>10, <1>18, <2>2, <3>1
  <2>3. ASSUME how = "pull", NEW j \in errs PROVE j \in P!Range(told)
    <3>1. j \in 1..P!N /\ ran[j] = 1 /\ jobs[j] # "ok"
      BY <1>3, <2>3 DEF P!Collects
    <3> QED
      BY <1>1, <1>5, <1>18, <2>1, <2>3, <3>1 DEF RightlyTold
  <2>4. ASSUME how = "resolve", NEW j \in errs \cup values PROVE j \in P!Range(told)
    <3>1. j \in 1..P!N /\ ran[j] = 1
      BY <1>3, <2>4
    <3> QED
      BY <1>1, <1>5, <1>18, <2>1, <2>4, <3>1 DEF RightlyTold
  <2>5. how = "pull" => values = {}
    OBVIOUS
  <2> QED
    BY <1>2, <2>2, <2>3, <2>4, <2>5
<1> HIDE DEF did
<1>17. did = {j \in 1..P!N : ran[j] > 0}
  BY DEF did
<1> QED
  BY <1>1, <1>3, <1>4, <1>7, <1>9, <1>10, <1>11, <1>12, <1>13, <1>14, <1>15, <1>16, <1>17, <1>18, RunSequence
  DEF P!PoolAccounts, Strict

Increasing(s) == \A i, j \in 1..Len(s) : i < j => s[i] < s[j]

\* An increasing sequence stays so when something greater is appended.
LEMMA InLast ==
  ASSUME NEW s \in Seq(Nat), NEW x \in Nat, Increasing(s), \A y : In(s, y) => y < x
  PROVE  Increasing(Append(s, x))
<1>1. /\ Len(Append(s, x)) = Len(s) + 1 /\ Len(s) \in Nat
      /\ \A i \in 1..Len(s) : Append(s, x)[i] = s[i]
      /\ Append(s, x)[Len(s) + 1] = x
  OBVIOUS
<1>2. \A i : i \in 1..(Len(s) + 1) <=> i \in 1..Len(s) \/ i = Len(s) + 1
  BY <1>1
<1>3. \A i \in 1..Len(s) : s[i] < x
  BY DEF In
<1> QED
  BY <1>1, <1>2, <1>3 DEF Increasing

\* What a sequence holds besides its head.
LEMMA HeadAndTail ==
  ASSUME NEW D, NEW s \in Seq(D), s # <<>>
  PROVE  /\ Head(s) \in D /\ Tail(s) \in Seq(D)
         /\ \A y : In(s, y) <=> y = Head(s) \/ In(Tail(s), y)
         /\ Distinct(s) => Distinct(Tail(s)) /\ ~In(Tail(s), Head(s))
         /\ Increasing(s) => Increasing(Tail(s)) /\ \A y : In(Tail(s), y) => Head(s) < y
<1>1. /\ Len(s) \in Nat /\ Len(s) > 0 /\ Len(Tail(s)) = Len(s) - 1 /\ Head(s) = s[1]
      /\ \A i \in 1..Len(Tail(s)) : Tail(s)[i] = s[i + 1]
      /\ Head(s) \in D /\ Tail(s) \in Seq(D)
  OBVIOUS
<1>2. \A i \in 1..Len(s) : i = 1 \/ (i - 1 \in 1..Len(Tail(s)) /\ (i - 1) + 1 = i)
  BY <1>1
<1>3. \A i \in 1..Len(Tail(s)) : i + 1 \in 1..Len(s) /\ i + 1 # 1 /\ 1 \in 1..Len(s)
  BY <1>1
<1>4. \A y : In(s, y) <=> y = Head(s) \/ In(Tail(s), y)
  <2>1. ASSUME NEW y, In(s, y) PROVE y = Head(s) \/ In(Tail(s), y)
    BY <1>1, <1>2, <2>1 DEF In
  <2>2. ASSUME NEW y, y = Head(s) \/ In(Tail(s), y) PROVE In(s, y)
    BY <1>1, <1>3, <2>2 DEF In
  <2> QED
    BY <2>1, <2>2
<1>5. ASSUME Distinct(s) PROVE Distinct(Tail(s)) /\ ~In(Tail(s), Head(s))
  BY <1>1, <1>3, <1>5 DEF Distinct, In
<1>6. ASSUME Increasing(s) PROVE Increasing(Tail(s)) /\ \A y : In(Tail(s), y) => Head(s) < y
  BY <1>1, <1>3, <1>6 DEF Increasing, In
<1> QED
  BY <1>1, <1>4, <1>5, <1>6

----------------------------------------------------------------------------
(* The channels                                                            *)

ChanTyped ==
  /\ how \in C!Hows /\ items \in Nat /\ panics \in BOOLEAN /\ size \in Nat /\ next \in 0..items
  /\ producer \in {"idle", "pull", "send", "over", "closing", "done"}
  /\ (producer = "send" => next > 0)
  /\ ch \in Seq(Nat) /\ got \in [Consumers -> Seq(Nat)]
  /\ pc \in [Consumers -> {"top", "recv", "stop", "stopping", "check", "closed", "unpull", "done"}]
  /\ ctx \in [Consumers -> {"live", "canceled"}] /\ told \in [Consumers -> BOOLEAN]
  /\ quits \subseteq Consumers /\ begun \in Consumers \cup {0}
  /\ chClosed \in BOOLEAN /\ failure \in BOOLEAN /\ prodDone \in BOOLEAN
  /\ stopped \in BOOLEAN /\ reported \in BOOLEAN

\* Items leave the source in order, and the channel in that order.
Sent == IF producer = "send" THEN next - 1 ELSE next
Gotten(c, x) == In(got[c], x)
ItemsInTurn ==
  /\ \A c \in Consumers : Increasing(got[c])
  /\ \A c, d \in Consumers : c # d => \A x : ~(Gotten(c, x) /\ Gotten(d, x))
  /\ Increasing(ch)
  /\ \A c \in Consumers : \A x, y : Gotten(c, x) /\ In(ch, y) => x < y
  /\ \A c \in Consumers : \A x : Gotten(c, x) => x \in 1..Sent
  /\ \A x : In(ch, x) => x \in 1..Sent

NoneMissing ==
  C!Undisturbed /\ how # "nonblocking" =>
    \A x \in 1..Sent : In(ch, x) \/ \E c \in Consumers : Gotten(c, x)

ProducerEnds ==
  /\ producer = "idle" => ch = <<>> /\ (how = "mutex" \/ (how = "generator" /\ ~stopped))
  /\ how = "mutex" => producer = "idle"
  /\ producer # "idle" => begun # 0
  /\ failure => panics /\ producer \in {"over", "closing", "done"}
  /\ panics => how \in {"asChannel", "withBuffer", "generator"}
  /\ prodDone <=> producer \in {"closing", "done"}
  /\ chClosed <=> producer = "done"
  /\ C!Undisturbed /\ producer \in {"pull", "send"} => ~stopped
  /\ C!Undisturbed /\ producer \in {"over", "closing", "done"} => failure = panics /\ next = items

Placed(c) ==
  CASE pc[c] \in {"stop", "stopping"} -> how = "asChannel"
    [] pc[c] = "check" -> how = "withBuffer"
    [] pc[c] = "closed" -> how = "generator"
    [] pc[c] = "unpull" -> how = "mutex"
    [] pc[c] = "recv" -> how # "mutex"
    [] OTHER -> TRUE
ConsumersEnd ==
  /\ \A c \in Consumers : Placed(c)
  /\ \A c \in Consumers : c \notin C!Active => pc[c] = "done"
  /\ C!Undisturbed /\ how # "mutex" =>
       \A c \in C!Active : pc[c] \notin {"top", "recv"} => chClosed /\ ch = <<>>
  /\ C!Undisturbed /\ how = "mutex" /\ (stopped \/ \E c \in Consumers : pc[c] \in {"unpull", "done"}) =>
       next = items

PanicTold ==
  /\ \A c \in Consumers : told[c] => failure /\ c \in C!Active /\ pc[c] = "done"
  /\ \A c, d \in Consumers : told[c] /\ told[d] => c = d
  /\ how = "asChannel" /\ pc[1] = "done" => prodDone /\ told[1] = failure
  /\ how = "withBuffer" /\ C!Undisturbed /\ pc[1] = "done" => told[1] = failure
  /\ how = "generator" =>
       /\ reported <=> \E c \in Consumers : told[c]
       /\ C!Undisturbed /\ failure => \A c \in Consumers : pc[c] = "done" => reported

ChanInv == ChanTyped /\ ItemsInTurn /\ NoneMissing /\ ProducerEnds /\ ConsumersEnd /\ PanicTold

\* The types are kept.
LEMMA ChanTypedNext == ASSUME ChanInv, C!Next PROVE ChanTyped'
<1>1. ChanTyped
  BY DEF ChanInv
<1> USE DEF ChanTyped
<1>2. UNCHANGED <<how, items, panics, size>>
  BY DEF C!Next, C!Produce, C!Consume, C!SourceNext, C!sendTo, C!Write, C!ProducerDone, C!CloseChannel, C!Call,
     C!recieveFrom, C!Poll, C!Stop, C!Stopped, C!Check, C!Closed, C!mtxdo2, C!unpull, C!Break, C!Cancel, C!given
<1>3. \A s \in Seq(Nat) : s # <<>> => Head(s) \in Nat /\ Tail(s) \in Seq(Nat)
  OBVIOUS
<1>4. \A s \in Seq(Nat), x \in Nat : Append(s, x) \in Seq(Nat)
  OBVIOUS
<1>5. items \in Nat /\ next \in Nat /\ next + 1 \in Nat
  BY <1>1
<1> DEFINE Pcs == {"top", "recv", "stop", "stopping", "check", "closed", "unpull", "done"}
<1>6. ASSUME C!SourceNext PROVE ChanTyped'
  BY <1>1, <1>2, <1>6 DEF C!SourceNext, C!consumption
<1>7. ASSUME C!sendTo \/ C!Write PROVE ChanTyped'
  BY <1>1, <1>2, <1>4, <1>5, <1>7 DEF C!sendTo, C!Write, C!consumption
<1>8. ASSUME C!ProducerDone \/ C!CloseChannel PROVE ChanTyped'
  BY <1>1, <1>2, <1>8 DEF C!ProducerDone, C!CloseChannel, C!consumption
<1>9. \A c : \A l \in Pcs : C!Goto(c, l) => pc' \in [Consumers -> Pcs]
  BY <1>1, UpdateTyped DEF C!Goto
<1>10. ASSUME NEW c \in Consumers, C!Call(c) PROVE ChanTyped'
  BY <1>1, <1>2, <1>9, <1>10 DEF C!Call
<1>11. ASSUME NEW c \in Consumers, C!recieveFrom(c) PROVE ChanTyped'
  <2>1. pc' \in [Consumers -> Pcs]
    BY <1>9, <1>11 DEF C!recieveFrom
  <2>2. got' \in [Consumers -> Seq(Nat)] /\ ch' \in Seq(Nat) /\ producer' \in {producer, "pull"}
    <3>1. \A s \in Seq(Nat) : [got EXCEPT ![c] = s] \in [Consumers -> Seq(Nat)]
      BY <1>1
    <3>2. got[c] \in Seq(Nat)
      BY <1>1
    <3>3. CASE C!Take(c)
      <4>1. CASE ch # <<>> /\ got' = [got EXCEPT ![c] = Append(@, Head(ch))] /\ ch' = Tail(ch) /\ UNCHANGED producer
        BY <1>1, <1>3, <1>4, <3>1, <3>2, <4>1
      <4>2. CASE got' = [got EXCEPT ![c] = Append(@, next)] /\ producer' = "pull" /\ UNCHANGED ch
        BY <1>1, <1>4, <1>5, <3>1, <3>2, <4>2
      <4> QED
        BY <3>3, <4>1, <4>2 DEF C!Take
    <3>4. CASE UNCHANGED <<got, ch, producer>>
      BY <1>1, <3>4
    <3> QED
      BY <1>11, <3>3, <3>4 DEF C!recieveFrom
  <2>3. UNCHANGED <<next, chClosed, failure, prodDone, stopped, begun, ctx, told, quits, reported>>
    BY <1>11 DEF C!recieveFrom
  <2> QED
    BY <1>1, <1>2, <2>1, <2>2, <2>3
<1>12. ASSUME NEW c \in Consumers, C!Poll(c) \/ C!Stop(c) \/ C!unpull(c) \/ C!Break(c) PROVE ChanTyped'
  <2>1. pc' \in [Consumers -> Pcs]
    BY <1>9, <1>12 DEF C!Poll, C!Stop, C!unpull, C!Break
  <2>2. quits' \subseteq Consumers /\ stopped' \in BOOLEAN
    BY <1>1, <1>12 DEF C!Poll, C!Stop, C!unpull, C!Break
  <2>3. UNCHANGED <<next, producer, ch, chClosed, failure, prodDone, begun, ctx, got, told, reported>>
    BY <1>12 DEF C!Poll, C!Stop, C!unpull, C!Break, C!production
  <2> QED
    BY <1>1, <1>2, <2>1, <2>2, <2>3
<1>13. ASSUME NEW c \in Consumers, C!Stopped(c) \/ C!Check(c) \/ C!Closed(c) PROVE ChanTyped'
  <2>1. pc' \in [Consumers -> Pcs]
    BY <1>9, <1>13 DEF C!Stopped, C!Check, C!Closed
  <2>2. told' \in [Consumers -> BOOLEAN]
    <3>1. \A v \in BOOLEAN : [told EXCEPT ![c] = v] \in [Consumers -> BOOLEAN]
      BY <1>1
    <3>2. failure \in BOOLEAN /\ (failure /\ ~reported) \in BOOLEAN
      BY <1>1
    <3> QED
      BY <1>1, <1>13, <3>1, <3>2 DEF C!Stopped, C!Check, C!Closed
  <2>3. stopped' \in BOOLEAN /\ reported' \in BOOLEAN
    BY <1>1, <1>13 DEF C!Stopped, C!Check, C!Closed
  <2>4. UNCHANGED <<next, producer, ch, chClosed, failure, prodDone, begun, ctx, got, quits>>
    BY <1>13 DEF C!Stopped, C!Check, C!Closed, C!production
  <2> QED
    BY <1>1, <1>2, <2>1, <2>2, <2>3, <2>4
<1>14. ASSUME NEW c \in Consumers, C!mtxdo2(c) PROVE ChanTyped'
  <2>1. pc' \in [Consumers -> Pcs]
    BY <1>1, <1>9, <1>14 DEF C!mtxdo2
  <2>2. next' \in 0..items /\ next' >= next
    BY <1>1, <1>5, <1>14 DEF C!mtxdo2
  <2>3. got' \in [Consumers -> Seq(Nat)]
    <3>1. [got EXCEPT ![c] = Append(@, next + 1)] \in [Consumers -> Seq(Nat)]
      BY <1>1, <1>4, <1>5
    <3> QED
      BY <1>1, <1>14, <3>1 DEF C!mtxdo2
  <2>4. UNCHANGED <<producer, ch, chClosed, failure, prodDone, stopped, begun, ctx, told, quits, reported>>
    BY <1>14 DEF C!mtxdo2
  <2> QED
    BY <1>1, <1>2, <1>5, <2>1, <2>2, <2>3, <2>4
<1>15. ASSUME NEW c \in Consumers, C!Cancel(c) PROVE ChanTyped'
  BY <1>1, <1>2, <1>15, UpdateTyped DEF C!Cancel, C!production
<1> QED
  BY <1>6, <1>7, <1>8, <1>10, <1>11, <1>12, <1>13, <1>14, <1>15 DEF C!Next, C!Produce, C!Consume

(* What a step does to the items *)
Rests ==
  /\ UNCHANGED <<got, ch>>
  /\ Sent' = Sent \/ (Sent' = Sent + 1 /\ ~(C!Undisturbed /\ how # "nonblocking"))
Puts == UNCHANGED got /\ Sent' = Sent + 1 /\ ch' = Append(ch, Sent + 1)
Gets(c) == Sent' = Sent /\ ch # <<>> /\ got' = [got EXCEPT ![c] = Append(@, Head(ch))] /\ ch' = Tail(ch)
Gives(c) == Sent' = Sent + 1 /\ ch = <<>> /\ ch' = <<>> /\ got' = [got EXCEPT ![c] = Append(@, Sent + 1)]

\* The tool and its source stay, and what was disturbed stays so.
LEMMA ChanGiven ==
  ASSUME C!Next
  PROVE  UNCHANGED <<how, items, panics, size>> /\ (C!Undisturbed' => C!Undisturbed)
<1> USE DEF C!consumption, C!production, C!given
<1>1. UNCHANGED <<how, items, panics, size>>
  BY DEF C!Next, C!Produce, C!Consume, C!SourceNext, C!sendTo, C!Write, C!ProducerDone, C!CloseChannel, C!Call,
     C!recieveFrom, C!Poll, C!Stop, C!Stopped, C!Check, C!Closed, C!mtxdo2, C!unpull, C!Break, C!Cancel
<1>2. CASE UNCHANGED <<quits, ctx>>
  BY <1>1, <1>2 DEF C!Undisturbed
<1>3. ASSUME NEW c \in Consumers, C!Break(c) PROVE C!Undisturbed' => C!Undisturbed
  BY <1>3 DEF C!Break, C!Undisturbed
<1>4. ASSUME NEW c \in Consumers, C!Cancel(c) PROVE C!Undisturbed' => C!Undisturbed
  <2>1. UNCHANGED quits /\ ctx' = [ctx EXCEPT ![c] = "canceled"]
    BY <1>4 DEF C!Cancel
  <2> QED
    BY <1>4, <2>1 DEF C!Cancel, C!Undisturbed
<1> QED
  BY <1>1, <1>2, <1>3, <1>4 DEF C!Next, C!Produce, C!Consume, C!SourceNext, C!sendTo, C!Write, C!ProducerDone,
     C!CloseChannel, C!Call, C!recieveFrom, C!Poll, C!Stop, C!Stopped, C!Check, C!Closed, C!mtxdo2, C!unpull

\* Every step of a channel is of one of these kinds.
LEMMA ChanMoves ==
  ASSUME ChanInv, C!Next
  PROVE  Rests \/ Puts \/ \E c \in Consumers : Gets(c) \/ Gives(c)
<1> DEFINE Goal == Rests \/ Puts \/ \E c \in Consumers : Gets(c) \/ Gives(c)
<1>1. ChanTyped /\ ProducerEnds
  BY DEF ChanInv
<1>2. next \in Nat /\ (producer = "send" => next > 0) /\ next - 1 + 1 = next
  BY <1>1 DEF ChanTyped
<1> USE DEF Sent
<1>3. ASSUME C!SourceNext PROVE Goal
  BY <1>2, <1>3 DEF C!SourceNext, C!consumption, Rests
<1>4. ASSUME producer = "send", ~C!Live PROVE ~C!Undisturbed
  BY <1>1, <1>4 DEF C!Live, C!Undisturbed, ProducerEnds, ChanTyped
<1>5. ASSUME C!sendTo PROVE Goal
  <2>1. CASE ch' = Append(ch, next) /\ producer' = "pull"
    BY <1>2, <1>5, <2>1 DEF C!sendTo, C!consumption, Puts
  <2>2. CASE ~C!Live /\ producer' = "over" /\ UNCHANGED ch
    BY <1>2, <1>4, <1>5, <2>2 DEF C!sendTo, C!consumption, Rests
  <2> QED
    BY <1>5, <2>1, <2>2 DEF C!sendTo
<1>6. ASSUME C!Write PROVE Goal
  <2>1. how = "nonblocking" /\ UNCHANGED <<got, next>> /\ producer = "send" /\ producer' # "send"
    BY <1>6 DEF C!Write, C!ChanNonBlocking, C!consumption
  <2>2. Sent' = next /\ Sent + 1 = next /\ Sent' = Sent + 1
    BY <1>2, <2>1
  <2>3. ch' = Append(ch, next) \/ UNCHANGED ch
    BY <1>6 DEF C!Write
  <2> HIDE DEF Sent
  <2> QED
    BY <2>1, <2>2, <2>3 DEF Puts, Rests
<1>7. ASSUME C!ProducerDone \/ C!CloseChannel PROVE Goal
  BY <1>2, <1>7 DEF C!ProducerDone, C!CloseChannel, C!consumption, Rests
<1>8. ASSUME NEW c \in Consumers, C!Call(c) PROVE Goal
  <2>1. begun = 0 => producer = "idle"
    BY <1>1 DEF ProducerEnds
  <2> QED
    BY <1>2, <1>8, <2>1 DEF C!Call, Rests
<1>9. ASSUME NEW c \in Consumers, C!recieveFrom(c) PROVE Goal
  <2>1. CASE ch # <<>> /\ got' = [got EXCEPT ![c] = Append(@, Head(ch))] /\ ch' = Tail(ch) /\ UNCHANGED producer
    BY <1>9, <2>1 DEF C!recieveFrom, Gets
  <2>2. CASE ch = <<>> /\ producer = "send" /\ got' = [got EXCEPT ![c] = Append(@, next)] /\ producer' = "pull" /\ UNCHANGED ch
    BY <1>2, <1>9, <2>2 DEF C!recieveFrom, Gives
  <2>3. CASE UNCHANGED <<got, ch, producer>>
    BY <1>9, <2>3 DEF C!recieveFrom, Rests
  <2> QED
    BY <1>9, <2>1, <2>2, <2>3 DEF C!recieveFrom, C!Take
<1>10. ASSUME NEW c \in Consumers, C!Poll(c) \/ C!Stop(c) \/ C!unpull(c) \/ C!Break(c) \/ C!Cancel(c) PROVE Goal
  BY <1>10 DEF C!Poll, C!Stop, C!unpull, C!Break, C!Cancel, C!production, Rests
<1>11. ASSUME NEW c \in Consumers, C!Stopped(c) \/ C!Check(c) \/ C!Closed(c) PROVE Goal
  BY <1>11 DEF C!Stopped, C!Check, C!Closed, C!production, Rests
<1>12. ASSUME NEW c \in Consumers, C!mtxdo2(c) PROVE Goal
  <2>1. producer = "idle" /\ ch = <<>> /\ UNCHANGED <<producer, ch>>
    BY <1>1, <1>12 DEF C!mtxdo2, C!WithMutex, ProducerEnds
  <2> QED
    BY <1>2, <1>12, <2>1 DEF C!mtxdo2, Rests, Gives
<1> QED
  BY <1>3, <1>5, <1>6, <1>7, <1>8, <1>9, <1>10, <1>11, <1>12 DEF C!Next, C!Produce, C!Consume

\* Items keep their turn and none goes missing.
LEMMA ItemsNext == ASSUME ChanInv, C!Next PROVE ItemsInTurn' /\ NoneMissing'
<1>1. ChanTyped /\ ItemsInTurn /\ NoneMissing
  BY DEF ChanInv
<1>2. Sent \in Nat /\ \A x : x \in 1..Sent => x \in Nat
  BY <1>1 DEF ChanTyped, Sent
<1>3. ch \in Seq(Nat) /\ got \in [Consumers -> Seq(Nat)]
  BY <1>1 DEF ChanTyped
<1>4. UNCHANGED how /\ (C!Undisturbed' => C!Undisturbed)
  BY ChanGiven
<1>5. \A x : x \in 1..(Sent + 1) <=> x \in 1..Sent \/ x = Sent + 1
  BY <1>2
<1>6. CASE Rests
  <2>1. \A c, x : Gotten(c, x)' <=> Gotten(c, x)
    BY <1>6 DEF Rests, Gotten
  <2>2. UNCHANGED <<got, ch>>
    BY <1>6 DEF Rests
  <2>3. ItemsInTurn'
    BY <1>1, <1>5, <1>6, <2>1, <2>2 DEF ItemsInTurn, Rests
  <2>4. NoneMissing'
    BY <1>1, <1>4, <1>6, <2>1, <2>2 DEF NoneMissing, Rests
  <2> QED
    BY <2>3, <2>4
<1>7. CASE Puts
  <2>1. UNCHANGED got /\ \A c, x : Gotten(c, x)' <=> Gotten(c, x)
    BY <1>7 DEF Puts, Gotten
  <2>2. PICK s, x : s = ch /\ x = Sent + 1
    OBVIOUS
  <2>3. s \in Seq(Nat) /\ x \in Nat /\ Increasing(s) /\ \A y : In(s, y) => y \in 1..Sent /\ y < x
    BY <1>1, <1>2, <1>3, <2>2 DEF ItemsInTurn
  <2>4. Increasing(ch') /\ \A y : In(ch', y) <=> In(ch, y) \/ y = x
    BY <1>7, <2>2, <2>3, Appended, InLast DEF Puts
  <2>5. Sent' = x /\ \A y : y \in 1..x <=> y \in 1..Sent \/ y = x
    BY <1>5, <1>7, <2>2 DEF Puts
  <2>6. \A c \in Consumers : \A y : Gotten(c, y) => y < x /\ y \in 1..Sent
    BY <1>1, <1>2, <2>2 DEF ItemsInTurn
  <2>7. ItemsInTurn'
    BY <1>1, <2>1, <2>2, <2>3, <2>4, <2>5, <2>6 DEF ItemsInTurn
  <2>8. NoneMissing'
    BY <1>1, <1>4, <2>1, <2>2, <2>4, <2>5 DEF NoneMissing
  <2> QED
    BY <2>7, <2>8
<1>8. ASSUME NEW c \in Consumers, NEW x \in Nat, got' = [got EXCEPT ![c] = Append(@, x)],
             \A y : Gotten(c, y) => y < x
      PROVE  /\ \A d \in Consumers : Increasing(got'[d])
             /\ \A d \in Consumers : \A y : Gotten(d, y)' <=> Gotten(d, y) \/ (d = c /\ y = x)
  <2>1. got[c] \in Seq(Nat) /\ Increasing(got[c]) /\ \A d \in Consumers : d # c => got'[d] = got[d]
    BY <1>1, <1>3, <1>8 DEF ItemsInTurn
  <2>2. got'[c] = Append(got[c], x)
    BY <1>3, <1>8
  <2>3. PICK s : s = got[c]
    OBVIOUS
  <2>4. Increasing(Append(s, x)) /\ \A y : In(Append(s, x), y) <=> In(s, y) \/ y = x
    BY <1>8, <2>1, <2>3, Appended, InLast DEF Gotten
  <2> QED
    BY <1>1, <2>1, <2>2, <2>3, <2>4 DEF ItemsInTurn, Gotten
<1>9. ASSUME NEW c \in Consumers, Gets(c) PROVE ItemsInTurn' /\ NoneMissing'
  <2>1. PICK s : s = ch
    OBVIOUS
  <2>2. s \in Seq(Nat) /\ s # <<>> /\ Increasing(s)
    BY <1>1, <1>3, <1>9, <2>1 DEF Gets, ItemsInTurn
  <2>3. PICK x : x = Head(s)
    OBVIOUS
  <2>4. /\ x \in Nat /\ Tail(s) \in Seq(Nat) /\ Increasing(Tail(s))
        /\ \A y : In(s, y) <=> y = x \/ In(Tail(s), y)
        /\ \A y : In(Tail(s), y) => x < y
    BY <2>2, <2>3, HeadAndTail
  <2>5. ch' = Tail(s) /\ got' = [got EXCEPT ![c] = Append(@, x)] /\ Sent' = Sent
    BY <1>9, <2>1, <2>3 DEF Gets
  <2>6. \A d \in Consumers : \A y : Gotten(d, y) => y < x
    BY <1>1, <2>1, <2>4 DEF ItemsInTurn
  <2>7. /\ \A d \in Consumers : Increasing(got'[d])
        /\ \A d \in Consumers : \A y : Gotten(d, y)' <=> Gotten(d, y) \/ (d = c /\ y = x)
    BY <1>8, <2>4, <2>5, <2>6
  <2>8. ItemsInTurn'
    BY <1>1, <2>1, <2>4, <2>5, <2>6, <2>7 DEF ItemsInTurn
  <2>9. NoneMissing'
    BY <1>1, <1>4, <2>1, <2>4, <2>5, <2>7 DEF NoneMissing
  <2> QED
    BY <2>8, <2>9
<1>10. ASSUME NEW c \in Consumers, Gives(c) PROVE ItemsInTurn' /\ NoneMissing'
  <2>1. PICK x : x = Sent + 1
    OBVIOUS
  <2>2. x \in Nat /\ Sent' = x /\ ch' = <<>> /\ ch = <<>> /\ got' = [got EXCEPT ![c] = Append(@, x)]
    BY <1>2, <1>10, <2>1 DEF Gives
  <2>3. \A d \in Consumers : \A y : Gotten(d, y) => y < x /\ y \in 1..Sent
    BY <1>1, <1>2, <2>1 DEF ItemsInTurn
  <2>4. /\ \A d \in Consumers : Increasing(got'[d])
        /\ \A d \in Consumers : \A y : Gotten(d, y)' <=> Gotten(d, y) \/ (d = c /\ y = x)
    BY <1>8, <2>2, <2>3
  <2>5. Increasing(ch') /\ \A y : ~In(ch, y) /\ ~In(ch', y)
    BY <2>2 DEF Increasing, In
  <2>6. \A y : y \in 1..x <=> y \in 1..Sent \/ y = x
    BY <1>5, <2>1
  <2>7. ItemsInTurn'
    BY <1>1, <2>2, <2>3, <2>4, <2>5, <2>6 DEF ItemsInTurn
  <2>8. NoneMissing'
    BY <1>1, <1>4, <2>2, <2>4, <2>5, <2>6 DEF NoneMissing
  <2> QED
    BY <2>7, <2>8
<1> QED
  BY <1>6, <1>7, <1>9, <1>10, ChanMoves

\* The producer ends with the source, and closes what it should.
LEMMA ProducerEndsNext == ASSUME ChanInv, C!Next PROVE ProducerEnds'
<1>1. ChanTyped /\ ProducerEnds /\ ConsumersEnd /\ PanicTold
  BY DEF ChanInv
<1>2. UNCHANGED <<how, items, panics, size>> /\ (C!Undisturbed' => C!Undisturbed)
  BY ChanGiven
<1>3. Consumers \subseteq Nat \ {0} /\ 1 \in Consumers
  BY StreamingAssumption
<1> USE DEF ProducerEnds, ChanTyped, C!AsChannel, C!WithBuffer, C!AsGenerator, C!WithMutex, C!ChanNonBlocking, C!Active, C!production, C!consumption, C!Goto
<1>4. ASSUME C!SourceNext PROVE ProducerEnds'
  BY <1>1, <1>2, <1>3, <1>4 DEF C!SourceNext
<1>5. ASSUME C!sendTo PROVE ProducerEnds'
  BY <1>1, <1>2, <1>3, <1>5 DEF C!sendTo, C!Live, C!Undisturbed
<1>6. ASSUME C!Write PROVE ProducerEnds'
  BY <1>1, <1>2, <1>3, <1>6 DEF C!Write, C!Live, C!Undisturbed
<1>7. ASSUME C!ProducerDone PROVE ProducerEnds'
  BY <1>1, <1>2, <1>3, <1>7 DEF C!ProducerDone
<1>8. ASSUME C!CloseChannel PROVE ProducerEnds'
  BY <1>1, <1>2, <1>3, <1>8 DEF C!CloseChannel
<1>9. ASSUME NEW c \in Consumers, C!Call(c) PROVE ProducerEnds'
  BY <1>1, <1>2, <1>3, <1>9 DEF C!Call
<1>10. ASSUME NEW c \in Consumers, C!recieveFrom(c) PROVE ProducerEnds'
  BY <1>1, <1>2, <1>3, <1>10 DEF C!recieveFrom, C!Take
<1>11. ASSUME NEW c \in Consumers, C!Poll(c) PROVE ProducerEnds'
  BY <1>1, <1>2, <1>3, <1>11 DEF C!Poll
<1>12. ASSUME NEW c \in Consumers, C!Stop(c) PROVE ProducerEnds'
  BY <1>1, <1>2, <1>3, <1>12 DEF C!Stop, ConsumersEnd, Placed
<1>13. ASSUME NEW c \in Consumers, C!Stopped(c) PROVE ProducerEnds'
  BY <1>1, <1>2, <1>3, <1>13 DEF C!Stopped
<1>14. ASSUME NEW c \in Consumers, C!Check(c) PROVE ProducerEnds'
  BY <1>1, <1>2, <1>3, <1>14 DEF C!Check, ConsumersEnd, Placed
<1>15. ASSUME NEW c \in Consumers, C!Closed(c) PROVE ProducerEnds'
  BY <1>1, <1>2, <1>3, <1>15 DEF C!Closed
<1>16. ASSUME NEW c \in Consumers, C!mtxdo2(c) PROVE ProducerEnds'
  BY <1>1, <1>2, <1>3, <1>16 DEF C!mtxdo2
<1>17. ASSUME NEW c \in Consumers, C!unpull(c) PROVE ProducerEnds'
  BY <1>1, <1>2, <1>3, <1>17 DEF C!unpull, ConsumersEnd, Placed
<1>18. ASSUME NEW c \in Consumers, C!Break(c) PROVE ProducerEnds'
  BY <1>1, <1>2, <1>3, <1>18 DEF C!Break
<1>19. ASSUME NEW c \in Consumers, C!Cancel(c) PROVE ProducerEnds'
  BY <1>1, <1>2, <1>3, <1>19 DEF C!Cancel
<1> QED
  BY <1>4, <1>5, <1>6, <1>7, <1>8, <1>9, <1>10, <1>11, <1>12, <1>13, <1>14, <1>15, <1>16, <1>17, <1>18, <1>19 DEF C!Next, C!Produce, C!Consume

\* Consumers end when the channel is closed and empty.
LEMMA ConsumersEndNext == ASSUME ChanInv, C!Next PROVE ConsumersEnd'
<1>1. ChanTyped /\ ProducerEnds /\ ConsumersEnd /\ PanicTold
  BY DEF ChanInv
<1>2. UNCHANGED <<how, items, panics, size>> /\ (C!Undisturbed' => C!Undisturbed)
  BY ChanGiven
<1>3. Consumers \subseteq Nat \ {0} /\ 1 \in Consumers
  BY StreamingAssumption
<1> USE DEF ConsumersEnd, Placed, ChanTyped, C!AsChannel, C!WithBuffer, C!AsGenerator, C!WithMutex, C!ChanNonBlocking, C!Active, C!production, C!consumption, C!Goto
<1>4. ASSUME C!SourceNext PROVE ConsumersEnd'
  BY <1>1, <1>2, <1>3, <1>4 DEF C!SourceNext
<1>5. ASSUME C!sendTo PROVE ConsumersEnd'
  BY <1>1, <1>2, <1>3, <1>5 DEF C!sendTo, ProducerEnds, C!Live
<1>6. ASSUME C!Write PROVE ConsumersEnd'
  BY <1>1, <1>2, <1>3, <1>6 DEF C!Write, ProducerEnds
<1>7. ASSUME C!ProducerDone PROVE ConsumersEnd'
  BY <1>1, <1>2, <1>3, <1>7 DEF C!ProducerDone
<1>8. ASSUME C!CloseChannel PROVE ConsumersEnd'
  BY <1>1, <1>2, <1>3, <1>8 DEF C!CloseChannel
<1>9. ASSUME NEW c \in Consumers, C!Call(c) PROVE ConsumersEnd'
  <2>1. \A l : C!Goto(c, l) => \A d \in Consumers : pc'[d] = IF d = c THEN l ELSE pc[d]
    BY <1>1
  <2>2. pc[c] = "top" /\ how # "mutex" /\ c \in C!Active /\ UNCHANGED <<ch, chClosed, stopped, ctx, quits, next>>
    BY <1>1, <1>9 DEF C!Call
  <2>3. CASE how \in {"withBuffer", "generator"} /\ ctx[c] = "canceled"
    <3>1. ~C!Undisturbed'
      BY <1>2, <2>2, <2>3 DEF C!Undisturbed
    <3>2. pc'[c] = IF how = "withBuffer" THEN "check" ELSE "done"
      BY <1>1, <1>9, <2>3 DEF C!Call
    <3>3. \A d \in Consumers : d # c => pc'[d] = pc[d]
      BY <1>1, <1>9, <2>3 DEF C!Call
    <3> QED
      BY <1>1, <1>2, <2>2, <2>3, <3>1, <3>2, <3>3
  <2>4. CASE ~(how \in {"withBuffer", "generator"} /\ ctx[c] = "canceled")
    <3>1. C!Goto(c, "recv")
      BY <1>9, <2>4 DEF C!Call
    <3> QED
      BY <1>1, <1>2, <2>1, <2>2, <3>1
  <2> QED
    BY <2>3, <2>4
<1>10. ASSUME NEW c \in Consumers, C!recieveFrom(c) PROVE ConsumersEnd'
  <2>1. \A l : C!Goto(c, l) => \A d \in Consumers : pc'[d] = IF d = c THEN l ELSE pc[d]
    BY <1>1
  <2>2. pc[c] = "recv" /\ how # "mutex" /\ c \in C!Active /\ UNCHANGED <<chClosed, stopped, ctx, quits, next>>
    BY <1>1, <1>10 DEF C!recieveFrom
  <2>3. CASE C!Take(c) /\ C!Goto(c, "top")
    <3>1. ~(chClosed /\ ch = <<>>)
      BY <1>1, <2>3 DEF C!Take, ProducerEnds
    <3>2. \A d \in Consumers : pc'[d] = IF d = c THEN "top" ELSE pc[d]
      BY <2>1, <2>3
    <3> QED
      BY <1>1, <1>2, <2>2, <3>1, <3>2
  <2>4. CASE /\ ch = <<>> /\ chClosed /\ UNCHANGED <<got, ch, producer>>
             /\ C!Goto(c, CASE how = "withBuffer" -> "check" [] how = "generator" -> "closed" [] how = "asChannel" -> "stop" [] OTHER -> "done")
    <3>1. pc'[c] = CASE how = "withBuffer" -> "check" [] how = "generator" -> "closed" [] how = "asChannel" -> "stop" [] OTHER -> "done"
      BY <1>1, <2>4
    <3>2. \A d \in Consumers : d # c => pc'[d] = pc[d]
      BY <1>1, <2>4
    <3>3. Placed(c)' /\ \A d \in Consumers : d # c => Placed(d)'
      BY <1>1, <1>2, <3>1, <3>2
    <3> QED
      BY <1>1, <1>2, <2>2, <2>4, <3>2, <3>3
  <2>5. CASE /\ how \in {"withBuffer", "generator", "nonblocking"} /\ ctx[c] = "canceled" /\ UNCHANGED <<got, ch, producer>>
             /\ C!Goto(c, IF how = "withBuffer" THEN "check" ELSE "done")
    <3>1. ~C!Undisturbed'
      BY <1>2, <2>2, <2>5 DEF C!Undisturbed
    <3>2. pc'[c] = IF how = "withBuffer" THEN "check" ELSE "done"
      BY <1>1, <2>5
    <3>3. \A d \in Consumers : d # c => pc'[d] = pc[d]
      BY <1>1, <2>5
    <3> QED
      BY <1>1, <1>2, <2>2, <2>5, <3>1, <3>2, <3>3
  <2> QED
    BY <1>10, <2>3, <2>4, <2>5 DEF C!recieveFrom
<1>11. ASSUME NEW c \in Consumers, C!Poll(c) PROVE ConsumersEnd'
  BY <1>1, <1>2, <1>3, <1>11 DEF C!Poll, C!Polled
<1>12. ASSUME NEW c \in Consumers, C!Stop(c) PROVE ConsumersEnd'
  BY <1>1, <1>2, <1>3, <1>12 DEF C!Stop
<1>13. ASSUME NEW c \in Consumers, C!Stopped(c) PROVE ConsumersEnd'
  BY <1>1, <1>2, <1>3, <1>13 DEF C!Stopped
<1>14. ASSUME NEW c \in Consumers, C!Check(c) PROVE ConsumersEnd'
  BY <1>1, <1>2, <1>3, <1>14 DEF C!Check
<1>15. ASSUME NEW c \in Consumers, C!Closed(c) PROVE ConsumersEnd'
  BY <1>1, <1>2, <1>3, <1>15 DEF C!Closed
<1>16. ASSUME NEW c \in Consumers, C!mtxdo2(c) PROVE ConsumersEnd'
  <2>1. \A l : C!Goto(c, l) => \A d \in Consumers : pc'[d] = IF d = c THEN l ELSE pc[d]
    BY <1>1
  <2>2. pc[c] = "top" /\ how = "mutex" /\ UNCHANGED <<ch, chClosed, stopped, ctx, quits>>
    BY <1>1, <1>16 DEF C!mtxdo2
  <2>3. CASE ~stopped /\ next < items /\ next' = next + 1 /\ UNCHANGED pc
    BY <1>1, <1>2, <2>2, <2>3
  <2>4. CASE (stopped \/ next = items) /\ C!Goto(c, "unpull") /\ UNCHANGED next
    <3>1. \A d \in Consumers : pc'[d] = IF d = c THEN "unpull" ELSE pc[d]
      BY <2>1, <2>4
    <3>2. C!Undisturbed' => next = items
      BY <1>1, <1>2, <2>2, <2>4
    <3> QED
      BY <1>1, <1>2, <2>2, <2>4, <3>1, <3>2
  <2> QED
    BY <1>16, <2>3, <2>4 DEF C!mtxdo2
<1>17. ASSUME NEW c \in Consumers, C!unpull(c) PROVE ConsumersEnd'
  BY <1>1, <1>2, <1>3, <1>17 DEF C!unpull
<1>18. ASSUME NEW c \in Consumers, C!Break(c) PROVE ConsumersEnd'
  <2>1. \A l : C!Goto(c, l) => \A d \in Consumers : pc'[d] = IF d = c THEN l ELSE pc[d]
    BY <1>1
  <2>2. PICK l : /\ C!Goto(c, l) /\ pc[c] = "top"
                 /\ \/ how = "asChannel" /\ l = "stop"
                    \/ how = "withBuffer" /\ l = "check"
                    \/ how = "mutex" /\ l = "unpull"
    BY <1>18 DEF C!Break
  <2>3. ~C!Undisturbed'
    BY <1>18 DEF C!Break, C!Undisturbed
  <2>4. \A d \in Consumers : pc'[d] = IF d = c THEN l ELSE pc[d]
    BY <2>1, <2>2
  <2> QED
    BY <1>1, <1>2, <2>2, <2>3, <2>4
<1>19. ASSUME NEW c \in Consumers, C!Cancel(c) PROVE ConsumersEnd'
  BY <1>1, <1>2, <1>3, <1>19 DEF C!Cancel
<1> QED
  BY <1>4, <1>5, <1>6, <1>7, <1>8, <1>9, <1>10, <1>11, <1>12, <1>13, <1>14, <1>15, <1>16, <1>17, <1>18, <1>19 DEF C!Next, C!Produce, C!Consume

\* A panic of the source is told, and once.
LEMMA PanicToldNext == ASSUME ChanInv, C!Next PROVE PanicTold'
<1>1. ChanTyped /\ ProducerEnds /\ ConsumersEnd /\ PanicTold
  BY DEF ChanInv
<1>2. UNCHANGED <<how, items, panics, size>> /\ (C!Undisturbed' => C!Undisturbed)
  BY ChanGiven
<1>3. Consumers \subseteq Nat \ {0} /\ 1 \in Consumers
  BY StreamingAssumption
<1> USE DEF PanicTold, ChanTyped, C!AsChannel, C!WithBuffer, C!AsGenerator, C!WithMutex, C!ChanNonBlocking, C!Active, C!production, C!consumption, C!Goto
<1>4. ASSUME C!SourceNext PROVE PanicTold'
  BY <1>1, <1>2, <1>3, <1>4 DEF C!SourceNext, ProducerEnds, ConsumersEnd, Placed, C!Undisturbed
<1>5. ASSUME C!sendTo PROVE PanicTold'
  BY <1>1, <1>2, <1>3, <1>5 DEF C!sendTo, ProducerEnds, ConsumersEnd, Placed, C!Undisturbed
<1>6. ASSUME C!Write PROVE PanicTold'
  BY <1>1, <1>2, <1>3, <1>6 DEF C!Write, ProducerEnds, ConsumersEnd, Placed, C!Undisturbed
<1>7. ASSUME C!ProducerDone PROVE PanicTold'
  BY <1>1, <1>2, <1>3, <1>7 DEF C!ProducerDone, ProducerEnds, ConsumersEnd, Placed, C!Undisturbed
<1>8. ASSUME C!CloseChannel PROVE PanicTold'
  BY <1>1, <1>2, <1>3, <1>8 DEF C!CloseChannel, ProducerEnds, ConsumersEnd, Placed, C!Undisturbed
<1>9. ASSUME NEW c \in Consumers, C!Call(c) PROVE PanicTold'
  BY <1>1, <1>2, <1>3, <1>9 DEF C!Call, ProducerEnds, ConsumersEnd, Placed, C!Undisturbed
<1>10. ASSUME NEW c \in Consumers, C!recieveFrom(c) PROVE PanicTold'
  BY <1>1, <1>2, <1>3, <1>10 DEF C!recieveFrom, ProducerEnds, ConsumersEnd, Placed, C!Undisturbed
<1>11. ASSUME NEW c \in Consumers, C!Poll(c) PROVE PanicTold'
  BY <1>1, <1>2, <1>3, <1>11 DEF C!Poll, C!Polled, ConsumersEnd, Placed
<1>12. ASSUME NEW c \in Consumers, C!Stop(c) PROVE PanicTold'
  BY <1>1, <1>2, <1>3, <1>12 DEF C!Stop, ProducerEnds, ConsumersEnd, Placed, C!Undisturbed
<1>13. ASSUME NEW c \in Consumers, C!Stopped(c) PROVE PanicTold'
  BY <1>1, <1>2, <1>3, <1>13 DEF C!Stopped, ProducerEnds, ConsumersEnd, Placed, C!Undisturbed
<1>14. ASSUME NEW c \in Consumers, C!Check(c) PROVE PanicTold'
  BY <1>1, <1>2, <1>3, <1>14 DEF C!Check, ProducerEnds, ConsumersEnd, Placed, C!Undisturbed
<1>15. ASSUME NEW c \in Consumers, C!Closed(c) PROVE PanicTold'
  <2>1. how = "generator" /\ pc[c] = "closed" /\ UNCHANGED <<failure, prodDone, ctx, quits>> /\ C!Active = Consumers
    BY <1>1, <1>15 DEF C!Closed, ConsumersEnd, Placed
  <2>2. \A d \in Consumers : pc'[d] = IF d = c THEN "done" ELSE pc[d]
    BY <1>1, <1>15 DEF C!Closed
  <2>3. CASE ctx[c] = "canceled" /\ UNCHANGED <<told, reported>>
    <3>1. ~C!Undisturbed'
      BY <2>1, <2>3 DEF C!Undisturbed
    <3> QED
      BY <1>1, <1>2, <2>1, <2>2, <2>3, <3>1
  <2>4. CASE told' = [told EXCEPT ![c] = failure /\ ~reported] /\ reported' = (reported \/ failure)
    <3>1. \A d \in Consumers : told'[d] <=> IF d = c THEN failure /\ ~reported ELSE told[d]
      BY <1>1, <2>4
    <3>2. ~told[c] /\ (reported <=> \E d \in Consumers : told[d]) /\ (reported => failure)
      BY <1>1, <2>1
    <3>3. reported' <=> reported \/ failure
      BY <2>4
    <3>4. \A d \in Consumers : told'[d] => failure /\ pc'[d] = "done"
      BY <1>1, <2>2, <3>1
    <3>5. \A d, e \in Consumers : told'[d] /\ told'[e] => d = e
      BY <1>1, <3>1, <3>2
    <3>6. reported' <=> \E d \in Consumers : told'[d]
      BY <3>1, <3>2, <3>3
    <3>7. failure => reported'
      BY <3>3
    <3> QED
      BY <1>2, <2>1, <3>4, <3>5, <3>6, <3>7
  <2> QED
    BY <1>15, <2>3, <2>4 DEF C!Closed
<1>16. ASSUME NEW c \in Consumers, C!mtxdo2(c) PROVE PanicTold'
  BY <1>1, <1>2, <1>3, <1>16 DEF C!mtxdo2, ProducerEnds, ConsumersEnd, Placed, C!Undisturbed
<1>17. ASSUME NEW c \in Consumers, C!unpull(c) PROVE PanicTold'
  BY <1>1, <1>2, <1>3, <1>17 DEF C!unpull, ProducerEnds, ConsumersEnd, Placed, C!Undisturbed
<1>18. ASSUME NEW c \in Consumers, C!Break(c) PROVE PanicTold'
  BY <1>1, <1>2, <1>3, <1>18 DEF C!Break, ProducerEnds, ConsumersEnd, Placed, C!Undisturbed
<1>19. ASSUME NEW c \in Consumers, C!Cancel(c) PROVE PanicTold'
  BY <1>1, <1>2, <1>3, <1>19 DEF C!Cancel, ProducerEnds, ConsumersEnd, Placed, C!Undisturbed
<1> QED
  BY <1>4, <1>5, <1>6, <1>7, <1>8, <1>9, <1>10, <1>11, <1>12, <1>13, <1>14, <1>15, <1>16, <1>17, <1>18, <1>19 DEF C!Next, C!Produce, C!Consume

\* The invariant of the channels holds at the start.
LEMMA ChanInit == ASSUME C!Init PROVE ChanInv
<1>1. Consumers \subseteq Nat \ {0} /\ 1 \in Consumers /\ MaxItems \in Nat /\ MaxSize \in Nat
  BY StreamingAssumption
<1>2. /\ got = [c \in Consumers |-> <<>>] /\ ch = <<>> /\ next = 0 /\ told = [c \in Consumers |-> FALSE]
      /\ pc = [c \in Consumers |-> IF c \in C!Active THEN "top" ELSE "done"] /\ ctx = [c \in Consumers |-> "live"]
      /\ producer = IF how \in {"generator", "mutex"} THEN "idle" ELSE "pull"
  BY DEF C!Init
<1>3. ChanTyped
  <2>1. how \in C!Hows /\ items \in Nat /\ panics \in BOOLEAN /\ size \in Nat /\ next \in 0..items
    <3>1. how \in C!Hows /\ items \in 0..MaxItems /\ next = 0
      BY DEF C!Init
    <3>2. panics \in BOOLEAN
      BY DEF C!Init
    <3>3. size \in 0..MaxSize \/ size \in {0}
      BY DEF C!Init
    <3> QED
      BY <1>1, <3>1, <3>2, <3>3
  <2>2. /\ producer \in {"idle", "pull", "send", "over", "closing", "done"} /\ producer # "send"
        /\ begun \in Consumers \cup {0} /\ quits \subseteq Consumers
    BY <1>1, <1>2 DEF C!Init
  <2>3. /\ ch \in Seq(Nat) /\ got \in [Consumers -> Seq(Nat)] /\ ctx \in [Consumers -> {"live", "canceled"}]
        /\ told \in [Consumers -> BOOLEAN]
    BY <1>2
  <2>4. pc \in [Consumers -> {"top", "recv", "stop", "stopping", "check", "closed", "unpull", "done"}]
    BY <1>2
  <2>5. chClosed \in BOOLEAN /\ failure \in BOOLEAN /\ prodDone \in BOOLEAN /\ stopped \in BOOLEAN /\ reported \in BOOLEAN
    BY DEF C!Init
  <2> QED
    BY <2>1, <2>2, <2>3, <2>4, <2>5 DEF ChanTyped
<1>4. \A c \in Consumers : got[c] = <<>> /\ \A x : ~Gotten(c, x) /\ ~In(ch, x)
  BY <1>2 DEF Gotten, In
<1>5. ItemsInTurn
  <2>1. Increasing(<<>>)
    BY DEF Increasing
  <2> QED
    BY <1>1, <1>2, <1>4, <2>1 DEF ItemsInTurn
<1>6. NoneMissing
  BY <1>2 DEF NoneMissing, Sent
<1>7. ProducerEnds
  BY <1>1, <1>2 DEF C!Init, ProducerEnds, C!Hows
<1>8. ConsumersEnd
  <2>1. \A c \in Consumers : pc[c] \in {"top", "done"} /\ (c \in C!Active <=> pc[c] = "top")
    BY <1>2
  <2>2. \A c \in Consumers : Placed(c)
    BY <2>1 DEF Placed
  <2>3. how = "mutex" => C!Active = Consumers /\ ~stopped
    BY DEF C!Init, C!Active
  <2> QED
    BY <1>1, <2>1, <2>2, <2>3 DEF ConsumersEnd, C!Active
<1>9. PanicTold
  <2>1. \A c \in Consumers : ~told[c]
    BY <1>2
  <2>2. pc[1] = "top"
    BY <1>1, <1>2 DEF C!Active
  <2> QED
    BY <2>1, <2>2 DEF C!Init, PanicTold
<1> QED
  BY <1>3, <1>5, <1>6, <1>7, <1>8, <1>9 DEF ChanInv

\* The invariant of the channels is inductive.
LEMMA ChanStep == ASSUME ChanInv, C!Next \/ UNCHANGED C!vars PROVE ChanInv'
<1>1. CASE C!Next
  BY <1>1, ChanTypedNext, ItemsNext, ProducerEndsNext, ConsumersEndNext, PanicToldNext DEF ChanInv
<1>2. CASE UNCHANGED C!vars
  BY <1>2 DEF ChanInv, C!vars, C!given, C!production, C!consumption, ChanTyped, ItemsInTurn, Gotten, Sent, NoneMissing,
     C!Undisturbed, ProducerEnds, ConsumersEnd, Placed, C!Active, PanicTold
<1> QED
  BY <1>1, <1>2

\* The invariant of the channels is what ChannelsDeliver needs.
LEMMA ChannelsDeliverFollows == ASSUME ChanInv PROVE C!ChannelsDeliver
<1> DEFINE over == \A c \in Consumers : pc[c] = "done"
           tellers == {c \in Consumers : told[c]}
<1>1. ChanTyped /\ ItemsInTurn /\ NoneMissing /\ ProducerEnds /\ ConsumersEnd /\ PanicTold
  BY DEF ChanInv
<1>2. got \in [Consumers -> Seq(Nat)] /\ ch \in Seq(Nat) /\ items \in Nat /\ next \in 0..items /\ how \in C!Hows
      /\ (producer = "send" => next > 0)
  BY <1>1 DEF ChanTyped
<1>3. 1 \in Consumers /\ 1 \in C!Active /\ C!Active \subseteq Consumers
  BY StreamingAssumption DEF C!Active
<1>4. \A c \in Consumers : \A x : x \in C!Range(got[c]) <=> Gotten(c, x)
  <2>1. SUFFICES ASSUME NEW c \in Consumers PROVE \A x : x \in C!Range(got[c]) <=> Gotten(c, x)
    OBVIOUS
  <2>2. DOMAIN got[c] = 1..Len(got[c])
    BY <1>2
  <2> QED
    BY <2>2 DEF C!Range, Gotten, In
<1>5. \A x : x \in C!Range(ch) <=> In(ch, x)
  <2>1. DOMAIN ch = 1..Len(ch)
    BY <1>2
  <2> QED
    BY <2>1 DEF C!Range, In
<1>6. \A x : x \in C!Got <=> \E c \in Consumers : Gotten(c, x)
  <2>1. \A x : x \in C!Got <=> \E c \in Consumers : x \in C!Range(got[c])
    BY DEF C!Got
  <2> QED
    BY <1>4, <2>1
<1>7. \A c \in Consumers : \A i, j \in 1..Len(got[c]) : i < j => got[c][i] < got[c][j]
  BY <1>1 DEF ItemsInTurn, Increasing
<1>8. \A c, d \in Consumers : c # d => C!Range(got[c]) \cap C!Range(got[d]) = {}
  BY <1>1, <1>4 DEF ItemsInTurn
<1>9. C!Cardinality(tellers) <= 1 /\ (tellers # {} => failure)
  <2>1. tellers = {} \/ \E c : tellers = {c}
    <3>1. ASSUME NEW c \in tellers PROVE tellers = {c}
      BY <1>1, <3>1 DEF PanicTold
    <3> HIDE DEF tellers
    <3> QED
      BY <3>1
  <2>2. Cardinality(tellers) <= 1
    <3> HIDE DEF tellers
    <3>1. CASE tellers = {}
      <4>1. Cardinality(tellers) = 0
        BY <3>1, FS_EmptySet
      <4> QED
        BY <4>1
    <3>2. ASSUME NEW c, tellers = {c} PROVE Cardinality(tellers) <= 1
      <4>1. Cardinality(tellers) = 1
        BY <3>2, FS_Singleton
      <4> QED
        BY <4>1
    <3> QED
      BY <2>1, <3>1, <3>2
  <2>3. tellers # {} => failure
    BY <1>1 DEF PanicTold
  <2> QED
    BY <2>2, <2>3, SameCount
<1>10. C!AsChannel /\ pc[1] = "done" => prodDone /\ told[1] = failure
  BY <1>1 DEF PanicTold, C!AsChannel
<1>11. C!Undisturbed /\ ~C!ChanNonBlocking => 1..(next - 1) \subseteq C!Got \cup C!Range(ch)
  <2>1. 1..(next - 1) \subseteq 1..Sent
    BY <1>2 DEF Sent
  <2> QED
    BY <1>1, <1>5, <1>6, <2>1 DEF NoneMissing, C!ChanNonBlocking
<1>12. ASSUME over, C!Undisturbed
       PROVE  (~C!ChanNonBlocking => C!Got = 1..items) /\ (panics <=> tellers # {})
  <2>1. CASE how = "mutex"
    <3>1. next = items /\ producer = "idle" /\ ch = <<>> /\ ~panics
      BY <1>1, <1>3, <1>12, <2>1 DEF ProducerEnds, ConsumersEnd
    <3>2. Sent = items /\ \A x : ~In(ch, x)
      BY <3>1 DEF Sent, In
    <3>3. C!Got = 1..items
      BY <1>1, <1>6, <1>12, <2>1, <3>2 DEF ItemsInTurn, NoneMissing
    <3>4. tellers = {}
      BY <1>1, <3>1 DEF PanicTold, ProducerEnds
    <3> QED
      BY <3>1, <3>3, <3>4
  <2>2. CASE how # "mutex"
    <3>1. chClosed /\ ch = <<>>
      BY <1>1, <1>3, <1>12, <2>2 DEF ConsumersEnd
    <3>2. producer = "done" /\ next = items /\ failure = panics
      BY <1>1, <1>12, <3>1 DEF ProducerEnds
    <3>3. Sent = items /\ \A x : ~In(ch, x)
      BY <3>1, <3>2 DEF Sent, In
    <3>4. ~C!ChanNonBlocking => C!Got = 1..items
      BY <1>1, <1>6, <1>12, <3>3 DEF ItemsInTurn, NoneMissing, C!ChanNonBlocking
    <3>5. tellers # {} => panics
      BY <1>9, <3>2
    <3>6. ASSUME panics PROVE tellers # {}
      <4>1. how \in {"asChannel", "withBuffer", "generator"} /\ failure
        BY <1>1, <3>2, <3>6 DEF ProducerEnds
      <4>2. how # "generator" => told[1] = failure
        BY <1>1, <1>3, <1>12, <4>1 DEF PanicTold
      <4>3. how = "generator" => reported /\ \E c \in Consumers : told[c]
        BY <1>1, <1>3, <1>12, <4>1 DEF PanicTold
      <4>4. how # "generator" => told[1]
        BY <4>1, <4>2
      <4> QED
        BY <1>3, <4>3, <4>4
    <3> QED
      BY <3>4, <3>5, <3>6
  <2> QED
    BY <2>1, <2>2
<1> QED
  BY <1>7, <1>8, <1>9, <1>10, <1>11, <1>12 DEF C!ChannelsDeliver

----------------------------------------------------------------------------
(* The streams                                                             *)

Pairs == Nat \X Nat
Replies == {"item", "skip", "err", "bad"}
SourcesTyped ==
  /\ DOMAIN script = 1..(IF how = "merge" THEN size ELSE 1)
  /\ \A s \in S!Sources : script[s] \in Seq(Replies) /\ taken[s] \in 0..Len(script[s])
  /\ taken \in [S!Sources -> Nat]
  /\ srcClosed \in [S!Sources -> BOOLEAN] /\ DOMAIN srcErrs = S!Sources
  /\ srcStart \in [S!Sources -> {"new", "live", "never"}] /\ DOMAIN lock = S!Sources
WorkersTyped ==
  /\ opened \in -1..size /\ (how # "merge" => opened = 0)
  /\ worker \in [S!Workers -> {"idle", "pull", "read", "send", "end", "done"}]
  /\ DOMAIN item = S!Workers
  /\ \A w \in S!Workers : worker[w] = "send" => item[w] \in Pairs
  /\ ch \in Seq(Pairs) /\ chClosed \in BOOLEAN /\ pump \in S!Outs \cup {0}
OutputsTyped ==
  /\ closed \in [S!Outs -> BOOLEAN] /\ closing \in [S!Outs -> {"no", "hooks", "done"}]
  /\ start \in [S!Outs -> Readers \cup {0, -1}] /\ canceled \in [S!Outs -> BOOLEAN]
  /\ DOMAIN outErrs = S!Outs
ReadersTyped ==
  /\ pc \in [Readers -> {"top", "op", "recv", "close", "hooks", "closed", "done", "panicked"}]
  /\ ctx \in [Readers -> {"live", "canceled"}] /\ why \in [Readers -> {"", "ctx", "eof", "quit"}]
  /\ got \in [Readers -> Seq(Pairs)] /\ DOMAIN told = Readers
StreamTyped ==
  /\ how \in DOMAIN Scripts /\ conf \in BOOLEAN /\ size \in 1..MaxWorkers
  /\ SourcesTyped /\ WorkersTyped /\ OutputsTyped /\ ReadersTyped

\* Each item that was taken is in one place.
Known(x) == x[1] \in S!Sources /\ x[2] \in 1..taken[x[1]] /\ script[x[1]][x[2]] = "item"
Sends(w) == worker[w] = "send"
Read(r, x) == In(got[r], x)
Apart ==
  /\ \A r \in Readers : Distinct(got[r])
  /\ \A r, q \in Readers : r # q => \A x : ~(Read(r, x) /\ Read(q, x))
  /\ Distinct(ch)
  /\ \A r \in Readers : \A x : ~(Read(r, x) /\ In(ch, x))
  /\ \A w \in S!Workers : Sends(w) =>
       /\ \A r \in Readers : ~Read(r, item[w])
       /\ ~In(ch, item[w])
       /\ \A v \in S!Workers : Sends(v) /\ item[v] = item[w] => v = w
       /\ Known(item[w])
  /\ \A r \in Readers : \A x : Read(r, x) => Known(x)
  /\ \A x : In(ch, x) => Known(x)

\* One worker reads in order, and so does what it sends reach the readers.
Rising(s) == \A i, j \in 1..Len(s) : i < j => s[i][2] < s[j][2]
InOrder ==
  S!Shape.workers = 1 =>
    /\ \A r \in Readers : Rising(got[r])
    /\ Rising(ch)
    /\ \A r \in Readers : \A x, y : Read(r, x) /\ In(ch, y) => x[2] < y[2]
    /\ \A w \in S!Workers : Sends(w) =>
         /\ \A r \in Readers : \A x : Read(r, x) => x[2] < item[w][2]
         /\ \A y : In(ch, y) => y[2] < item[w][2]

WorkersStart ==
  /\ \A w \in S!Workers : w > S!Shape.workers => worker[w] = "idle"
  /\ pump = 0 => (\A w \in S!Workers : worker[w] = "idle") /\ opened = 0
  /\ chClosed => /\ pump # 0 /\ (how = "merge" => opened = -1)
                 /\ \A w \in S!Workers : worker[w] \in {"idle", "done"}
  /\ pump # 0 => start[pump] \in Readers
  /\ pump # 0 /\ how # "merge" => \A w \in S!Workers : w <= S!Shape.workers => worker[w] # "idle"
  /\ how = "merge" /\ opened >= 0 => \A w \in S!Workers : worker[w] # "idle" <=> w <= opened

ReadersPlaced ==
  /\ \A r \in Readers : why[r] # "" <=> pc[r] \in {"close", "hooks", "closed", "done"}
  /\ \A r \in Readers : pc[r] = "recv" => start[S!Output(r)] \in Readers /\ pump # 0
  /\ \A r \in Readers : pc[r] = "hooks" => closing[S!Output(r)] = "hooks"
  /\ \A r, q \in Readers : pc[r] = "hooks" /\ pc[q] = "hooks" /\ S!Output(r) = S!Output(q) => r = q
  /\ \A r \in Readers : pc[r] = "closed" => closing[S!Output(r)] # "no"
  /\ \A r \in Readers : pc[r] = "done" => closing[S!Output(r)] = "done" /\ told[r] = outErrs[S!Output(r)]
  /\ \A r \in Readers : pc[r] = "panicked" => start[S!Output(r)] = -1
  /\ \A o \in S!Outs : closing[o] # "no" <=> closed[o]
  /\ \A o \in S!Outs : closing[o] # "no" <=> canceled[o]
  /\ \A o \in S!Outs : closed[o] => \E r \in Readers : S!Output(r) = o /\ why[r] # ""

\* The errors of a source are kept, and told.
ErrorsKept ==
  /\ \A s \in S!Sources : \A n \in 1..taken[s] : script[s][n] = "err" => <<s, n>> \in srcErrs[s] /\ srcClosed[s]
  /\ how = "merge" => \A w \in S!Workers : worker[w] = "done" => srcErrs[w] \subseteq poolErrs
  /\ \A w \in S!Workers : worker[w] = "read" => lock[S!SourceOf(w)] = w

\* While nobody closes or cancels, a reader stops when there is no more to receive.
Finished(s) == taken[s] = Len(script[s]) \/ (taken[s] > 0 /\ script[s][taken[s]] = "err")
Quiet ==
  S!Undisturbed =>
    /\ \A r \in Readers : why[r] # "" =>
         /\ chClosed /\ ch = <<>> /\ start[S!Output(r)] \in Readers
         /\ \E q \in Readers : S!Output(q) = S!Output(r) /\ why[q] = "eof"
    /\ \A o \in S!Outs : start[o] # -1
    /\ \A s \in S!Sources : srcClosed[s] => Finished(s) \/ S!Dropped
    /\ \A w \in S!Workers : worker[w] \in {"end", "done"} => Finished(S!SourceOf(w)) \/ S!Dropped
    /\ \A w \in S!Workers : worker[w] = "read" => ~srcClosed[S!SourceOf(w)]
    /\ \A s \in S!Sources : srcStart[s] = "never" => chClosed \/ (how = "merge" /\ worker[s] = "done")
    /\ \A o \in S!Outs : closing[o] = "done" =>
         poolErrs \subseteq outErrs[o] /\ (how # "merge" => srcErrs[1] \subseteq outErrs[o])
    /\ how = "merge" /\ opened = -1 => \A w \in S!Workers : w <= size => worker[w] # "idle"

NoneLost ==
  S!Undisturbed =>
    \A s \in S!Sources : \A n \in 1..taken[s] : script[s][n] = "item" =>
      \/ \E r \in Readers : Read(r, <<s, n>>)
      \/ In(ch, <<s, n>>)
      \/ \E w \in S!Workers : Sends(w) /\ item[w] = <<s, n>>

StreamInv ==
  /\ StreamTyped /\ Apart /\ InOrder /\ WorkersStart /\ ReadersPlaced /\ ErrorsKept
  /\ Quiet /\ NoneLost

----------------------------------------------------------------------------

\* The tool, its sources and its outputs stay.
LEMMA StreamFixed ==
  ASSUME S!Next
  PROVE  /\ UNCHANGED <<how, conf, size, script>>
         /\ S!Sources' = S!Sources /\ S!Outs' = S!Outs /\ S!Shape' = S!Shape
         /\ \A t : S!Output(t)' = S!Output(t)
         /\ \A w : S!SourceOf(w)' = S!SourceOf(w)
<1>1. UNCHANGED <<how, conf, size, script>>
  BY DEF S!Next, S!Reading, S!CloseStep, S!Working, S!ReadCheck, S!ReadOp, S!Receive, S!CloseBegin, S!CloseHook,
     S!readOneHandleError, S!Close, S!Cancel, S!Pull, S!Read, S!Send, S!WorkerEnd, S!OpenSource, S!CloseChannel,
     S!fixed, S!sources
<1> QED
  BY <1>1 DEF S!Sources, S!Outs, S!Shape, S!Output, S!SourceOf, S!Split, S!Buffer, S!BufferParallel, S!MergeStreams, S!Parallel

\* How many workers, sources and outputs each tool has.
LEMMA StreamShape ==
  ASSUME StreamTyped
  PROVE  /\ S!Shape.workers \in 1..MaxWorkers /\ S!Shape.cap \in Nat
         /\ how = "merge" => S!Shape.workers = size
         /\ S!Shape.workers = 1 => S!Sources = {1}
         /\ \A w \in S!Workers : w <= S!Shape.workers => S!SourceOf(w) \in S!Sources
         /\ how # "merge" => S!Sources = {1}
         /\ \A r \in Readers : S!Output(r) \in S!Outs
         /\ \A o \in S!Outs : \E r \in Readers : S!Output(r) = o
         /\ S!Outs \subseteq Nat \ {0} /\ Readers \subseteq Nat \ {0}
         /\ MaxWorkers \in Nat
<1>1. MaxWorkers \in Nat \ {0} /\ Readers \subseteq Nat \ {0} /\ Readers # {}
  BY StreamingAssumption
<1>2. size \in 1..MaxWorkers /\ S!Sources = 1..(IF how = "merge" THEN size ELSE 1)
  BY DEF StreamTyped, SourcesTyped, S!Sources
<1>3. S!Shape.workers \in 1..MaxWorkers /\ S!Shape.cap \in Nat /\ (how = "merge" => S!Shape.workers = size)
  BY <1>1, <1>2 DEF S!Shape, S!Split, S!Buffer, S!BufferParallel, S!MergeStreams, S!Parallel
<1>4. S!Shape.workers = 1 => S!Sources = {1}
  BY <1>2, <1>3
<1>5. \A w \in S!Workers : w <= S!Shape.workers => S!SourceOf(w) \in S!Sources
  BY <1>1, <1>2, <1>3 DEF S!Workers, S!SourceOf
<1>6. how # "merge" => S!Sources = {1}
  BY <1>2
<1>7. /\ \A r \in Readers : S!Output(r) \in S!Outs
      /\ \A o \in S!Outs : \E r \in Readers : S!Output(r) = o
      /\ S!Outs \subseteq Nat \ {0}
  <2>1. CASE how = "split"
    <3>1. S!Outs = Readers /\ \A r : S!Output(r) = r
      BY <2>1 DEF S!Output, S!Outs
    <3> QED
      BY <1>1, <3>1
  <2>2. CASE how # "split"
    <3>1. S!Outs = {1} /\ \A r \in Readers : S!Output(r) = 1
      BY <2>2 DEF S!Output, S!Outs
    <3>2. PICK q \in Readers : TRUE
      BY <1>1
    <3>3. S!Outs \subseteq Nat \ {0}
      BY <3>1
    <3>4. \A o \in S!Outs : S!Output(q) = o
      BY <3>1, <3>2
    <3> QED
      BY <3>1, <3>2, <3>3, <3>4
  <2> QED
    BY <2>1, <2>2
<1> QED
  BY <1>1, <1>3, <1>4, <1>5, <1>6, <1>7

\* The types are kept, group by group.
LEMMA StreamTypedNext == ASSUME StreamInv, S!Next PROVE StreamTyped'
<1>1. StreamTyped
  BY DEF StreamInv
<1>2. /\ UNCHANGED <<how, conf, size, script>> /\ S!Sources' = S!Sources /\ S!Outs' = S!Outs /\ S!Shape' = S!Shape
  BY StreamFixed
<1>3. /\ S!Shape.workers \in 1..MaxWorkers /\ S!Workers' = S!Workers /\ MaxWorkers \in Nat
      /\ (how = "merge" => S!Shape.workers = size)
      /\ \A r \in Readers : S!Output(r) \in S!Outs
      /\ S!Outs \subseteq Nat \ {0} /\ Readers \subseteq Nat \ {0}
      /\ \A w \in S!Workers : w <= S!Shape.workers => S!SourceOf(w) \in S!Sources
  BY <1>1, StreamShape DEF S!Workers
<1> DEFINE Pcs == {"top", "op", "recv", "close", "hooks", "closed", "done", "panicked"}
           Whys == {"", "ctx", "eof", "quit"}
           Works == {"idle", "pull", "read", "send", "end", "done"}
           Starts == {"new", "live", "never"}
           WorkersMove == /\ worker' \in [S!Workers -> Works]
                          /\ \A v \in S!Workers : worker'[v] = "send" => worker[v] = "send"
<1>4. \A w \in S!Workers : worker[w] # "idle" => w <= S!Shape.workers /\ S!SourceOf(w) \in S!Sources
  BY <1>1, <1>3 DEF StreamInv, WorkersStart, StreamTyped, WorkersTyped, S!Workers
\* The parts of the state
<1>5. ASSUME UNCHANGED S!sources PROVE SourcesTyped'
  BY <1>1, <1>2, <1>5 DEF StreamTyped, SourcesTyped, S!sources
<1>6. ASSUME UNCHANGED S!pool PROVE WorkersTyped'
  BY <1>1, <1>2, <1>3, <1>6 DEF StreamTyped, WorkersTyped, S!pool
<1>7. ASSUME UNCHANGED S!outputs PROVE OutputsTyped'
  BY <1>1, <1>2, <1>7 DEF StreamTyped, OutputsTyped, S!outputs
<1>8. ASSUME UNCHANGED S!readers PROVE ReadersTyped'
  BY <1>1, <1>8 DEF StreamTyped, ReadersTyped, S!readers
<1>9. ASSUME UNCHANGED <<how, conf, size>>, SourcesTyped', WorkersTyped', OutputsTyped', ReadersTyped'
      PROVE  StreamTyped'
  BY <1>1, <1>9 DEF StreamTyped
<1>10. \A r : \A l \in Pcs : S!Goto(r, l) => pc' \in [Readers -> Pcs]
  BY <1>1, UpdateTyped DEF StreamTyped, ReadersTyped, S!Goto
<1>11. \A r : \A e \in Whys : S!Fail(r, e) => pc' \in [Readers -> Pcs] /\ why' \in [Readers -> Whys]
  BY <1>1, <1>10, UpdateTyped DEF StreamTyped, ReadersTyped, S!Fail
<1>12. \A w : \A l \in Works : S!To(w, l) => worker' \in [S!Workers -> Works]
  BY <1>1, UpdateTyped DEF StreamTyped, WorkersTyped, S!To
<1>13. \A w \in S!Workers : \A l : S!To(w, l) => worker' = [worker EXCEPT ![w] = l]
  BY DEF S!To
\* The readers
<1>20. ASSUME NEW r \in Readers, S!ReadCheck(r) \/ S!Close(r) PROVE StreamTyped'
  <2>1. pc' \in [Readers -> Pcs] /\ why' \in [Readers -> Whys]
    BY <1>1, <1>10, <1>11, <1>20 DEF S!ReadCheck, S!Close, StreamTyped, ReadersTyped
  <2>2. UNCHANGED <<S!sources, S!pool, S!outputs, ctx, got, told>>
    BY <1>20 DEF S!ReadCheck, S!Close
  <2>3. ReadersTyped'
    BY <1>1, <2>1, <2>2 DEF StreamTyped, ReadersTyped
  <2> QED
    BY <1>2, <1>5, <1>6, <1>7, <1>9, <2>2, <2>3
<1>21. ASSUME NEW r \in Readers, S!ReadOp(r) PROVE StreamTyped'
  <2>1. pc' \in [Readers -> Pcs]
    BY <1>10, <1>21 DEF S!ReadOp
  <2>2. UNCHANGED <<S!sources, opened, item, ch, chClosed, poolErrs, closed, closing, canceled, outErrs, ctx, why, got, told>>
    BY <1>21 DEF S!ReadOp
  <2>3. start' \in [S!Outs -> Readers \cup {0, -1}]
    BY <1>1, <1>21 DEF S!ReadOp, StreamTyped, OutputsTyped
  <2>4. pump' \in S!Outs \cup {0} /\ worker' \in [S!Workers -> Works]
        /\ \A w \in S!Workers : worker'[w] = "send" => worker[w] = "send"
    <3>1. CASE UNCHANGED <<pump, worker>>
      BY <1>1, <3>1 DEF StreamTyped, WorkersTyped
    <3>2. CASE pump' = S!Output(r) /\ worker' = [w \in S!Workers |-> IF w <= S!Shape.workers /\ how # "merge" THEN "pull" ELSE "idle"]
      BY <1>3, <3>2
    <3> QED
      BY <1>21, <3>1, <3>2 DEF S!ReadOp, S!StartPump
  <2>5. WorkersTyped'
    BY <1>1, <1>2, <1>3, <2>2, <2>4 DEF StreamTyped, WorkersTyped
  <2>6. OutputsTyped'
    BY <1>1, <1>2, <2>2, <2>3 DEF StreamTyped, OutputsTyped
  <2>7. ReadersTyped'
    BY <1>1, <2>1, <2>2 DEF StreamTyped, ReadersTyped
  <2> QED
    BY <1>2, <1>5, <1>9, <2>2, <2>5, <2>6, <2>7
<1>22. ASSUME NEW r \in Readers, S!Receive(r) PROVE StreamTyped'
  <2>1. pc' \in [Readers -> Pcs] /\ why' \in [Readers -> Whys]
    BY <1>1, <1>10, <1>11, <1>22 DEF S!Receive, StreamTyped, ReadersTyped
  <2>2. UNCHANGED <<S!sources, opened, item, chClosed, pump, poolErrs, S!outputs, ctx, told>>
    BY <1>22 DEF S!Receive
  <2>3. /\ got' \in [Readers -> Seq(Pairs)] /\ ch' \in Seq(Pairs) /\ worker' \in [S!Workers -> Works]
        /\ \A w \in S!Workers : worker'[w] = "send" => worker[w] = "send"
    <3>1. got \in [Readers -> Seq(Pairs)] /\ ch \in Seq(Pairs) /\ worker \in [S!Workers -> Works]
          /\ \A w \in S!Workers : worker[w] = "send" => item[w] \in Pairs
      BY <1>1 DEF StreamTyped, ReadersTyped, WorkersTyped
    <3>2. \A x \in Pairs : [got EXCEPT ![r] = Append(got[r], x)] \in [Readers -> Seq(Pairs)]
      <4>1. \A s \in Seq(Pairs), x \in Pairs : Append(s, x) \in Seq(Pairs)
        OBVIOUS
      <4> QED
        BY <3>1, <4>1, UpdateTyped
    <3>3. CASE ch # <<>> /\ got' = [got EXCEPT ![r] = Append(@, Head(ch))] /\ ch' = Tail(ch) /\ UNCHANGED worker
      <4>1. Head(ch) \in Pairs /\ Tail(ch) \in Seq(Pairs)
        BY <3>1, <3>3, HeadAndTail
      <4> QED
        BY <3>1, <3>2, <3>3, <4>1
    <3>4. ASSUME NEW w \in S!Workers, worker[w] = "send", got' = [got EXCEPT ![r] = Append(@, item[w])],
                 worker' = [worker EXCEPT ![w] = "pull"], UNCHANGED ch
          PROVE  /\ got' \in [Readers -> Seq(Pairs)] /\ ch' \in Seq(Pairs) /\ WorkersMove
      BY <3>1, <3>2, <3>4
    <3>5. CASE UNCHANGED <<got, ch, worker>>
      BY <3>1, <3>5
    <3> QED
      BY <1>22, <3>3, <3>4, <3>5 DEF S!Receive, S!Take
  <2>5. WorkersTyped'
    BY <1>1, <1>2, <1>3, <2>2, <2>3 DEF StreamTyped, WorkersTyped
  <2>7. ReadersTyped'
    BY <1>1, <2>1, <2>2, <2>3 DEF StreamTyped, ReadersTyped
  <2> QED
    BY <1>2, <1>5, <1>7, <1>9, <2>2, <2>5, <2>7
<1>23. ASSUME NEW r \in Readers, S!CloseBegin(r) PROVE StreamTyped'
  <2>1. pc' \in [Readers -> Pcs]
    BY <1>10, <1>23 DEF S!CloseBegin
  <2>2. UNCHANGED <<S!sources, S!pool, outErrs, ctx, why, got, told>>
    BY <1>23 DEF S!CloseBegin
  <2>3. OutputsTyped'
    BY <1>1, <1>2, <1>23 DEF S!CloseBegin, StreamTyped, OutputsTyped
  <2>4. ReadersTyped'
    BY <1>1, <2>1, <2>2 DEF StreamTyped, ReadersTyped
  <2> QED
    BY <1>2, <1>5, <1>6, <1>9, <2>2, <2>3, <2>4
<1>24. \A s : S!CloseSource(s) => srcClosed' \in [S!Sources -> BOOLEAN] /\ srcStart' \in [S!Sources -> Starts]
  BY <1>1 DEF S!CloseSource, StreamTyped, SourcesTyped
<1>25. ASSUME NEW r \in Readers, S!CloseHook(r) PROVE StreamTyped'
  <2>1. pc' \in [Readers -> Pcs]
    BY <1>10, <1>25 DEF S!CloseHook
  <2>2. UNCHANGED <<S!pool, closed, start, canceled, ctx, why, got, told, script, taken, srcErrs, lock>>
    BY <1>25 DEF S!CloseHook, S!sources
  <2>3. closing' \in [S!Outs -> {"no", "hooks", "done"}] /\ DOMAIN outErrs' = S!Outs
    BY <1>1, <1>25 DEF S!CloseHook, StreamTyped, OutputsTyped
  <2>4. OutputsTyped'
    BY <1>1, <1>2, <2>2, <2>3 DEF StreamTyped, OutputsTyped
  <2>5. srcClosed' \in [S!Sources -> BOOLEAN] /\ srcStart' \in [S!Sources -> Starts]
    BY <1>1, <1>24, <1>25 DEF S!CloseHook, S!sources, StreamTyped, SourcesTyped
  <2>6. SourcesTyped'
    BY <1>1, <1>2, <2>2, <2>5 DEF StreamTyped, SourcesTyped
  <2>7. ReadersTyped'
    BY <1>1, <2>1, <2>2 DEF StreamTyped, ReadersTyped
  <2> QED
    BY <1>2, <1>6, <1>9, <2>2, <2>4, <2>6, <2>7
<1>26. ASSUME NEW r \in Readers, S!readOneHandleError(r) PROVE StreamTyped'
  <2>1. pc' \in [Readers -> Pcs]
    BY <1>10, <1>26 DEF S!readOneHandleError
  <2>2. UNCHANGED <<S!sources, S!pool, S!outputs, ctx, why, got>> /\ DOMAIN told' = DOMAIN told
    BY <1>26 DEF S!readOneHandleError
  <2>3. ReadersTyped'
    BY <1>1, <2>1, <2>2 DEF StreamTyped, ReadersTyped
  <2> QED
    BY <1>2, <1>5, <1>6, <1>7, <1>9, <2>2, <2>3
<1>27. ASSUME NEW r \in Readers, S!Cancel(r) PROVE StreamTyped'
  <2>1. UNCHANGED <<S!sources, S!pool, S!outputs, pc, why, got, told>> /\ ctx' = [ctx EXCEPT ![r] = "canceled"]
    BY <1>27 DEF S!Cancel
  <2>2. ctx' \in [Readers -> {"live", "canceled"}]
    BY <1>1, <2>1 DEF StreamTyped, ReadersTyped
  <2>3. ReadersTyped'
    BY <1>1, <2>1, <2>2 DEF StreamTyped, ReadersTyped
  <2> QED
    BY <1>2, <1>5, <1>6, <1>7, <1>9, <2>1, <2>3
\* The workers
<1>30. ASSUME S!OpenSource PROVE StreamTyped'
  <2>1. UNCHANGED <<S!sources, item, ch, chClosed, pump, poolErrs, S!outputs, S!readers>>
    BY <1>30 DEF S!OpenSource
  <2>2. opened' \in -1..size /\ how = "merge"
    BY <1>1, <1>30 DEF S!OpenSource, StreamTyped, WorkersTyped
  <2>3. /\ worker' \in [S!Workers -> Works]
        /\ \A w \in S!Workers : worker'[w] = "send" => worker[w] = "send"
    <3>1. CASE UNCHANGED worker
      BY <1>1, <3>1 DEF StreamTyped, WorkersTyped
    <3>2. CASE S!To(opened + 1, "pull")
      BY <1>1, <1>12, <3>2 DEF S!To, StreamTyped, WorkersTyped
    <3> QED
      BY <1>30, <3>1, <3>2 DEF S!OpenSource
  <2>4. WorkersTyped'
    BY <1>1, <1>2, <1>3, <2>1, <2>2, <2>3 DEF StreamTyped, WorkersTyped
  <2> QED
    BY <1>2, <1>5, <1>7, <1>8, <1>9, <2>1, <2>4
<1>31. ASSUME S!CloseChannel PROVE StreamTyped'
  <2>1. UNCHANGED <<S!sources, opened, worker, item, ch, pump, poolErrs, S!outputs, S!readers>> /\ chClosed' = TRUE
    BY <1>31 DEF S!CloseChannel
  <2>2. WorkersTyped'
    BY <1>1, <1>2, <1>3, <2>1 DEF StreamTyped, WorkersTyped
  <2> QED
    BY <1>2, <1>5, <1>7, <1>8, <1>9, <2>1, <2>2
<1>32. ASSUME NEW w \in S!Workers, S!Pull(w) PROVE StreamTyped'
  <2>1. UNCHANGED <<script, taken, srcErrs, opened, item, ch, chClosed, pump, poolErrs, S!outputs, S!readers>>
    BY <1>32 DEF S!Pull
  <2>2. /\ worker' \in [S!Workers -> Works]
        /\ \A v \in S!Workers : worker'[v] = "send" => worker[v] = "send"
    <3>1. \A l \in {"end", "read"} : S!To(w, l) => WorkersMove
      BY <1>1, <1>12 DEF S!To, StreamTyped, WorkersTyped
    <3> QED
      BY <1>32, <3>1 DEF S!Pull
  <2>3. srcClosed' \in [S!Sources -> BOOLEAN] /\ srcStart' \in [S!Sources -> Starts] /\ DOMAIN lock' = S!Sources
    <3>1. CASE UNCHANGED <<lock, srcClosed, srcStart>>
      BY <1>1, <3>1 DEF StreamTyped, SourcesTyped
    <3>2. CASE S!CloseSource(S!SourceOf(w)) /\ UNCHANGED lock
      BY <1>1, <1>24, <3>2 DEF StreamTyped, SourcesTyped
    <3>3. CASE lock' = [lock EXCEPT ![S!SourceOf(w)] = w] /\ UNCHANGED <<srcClosed, srcStart>>
      BY <1>1, <3>3 DEF StreamTyped, SourcesTyped
    <3> QED
      BY <1>32, <3>1, <3>2, <3>3 DEF S!Pull
  <2>4. SourcesTyped'
    BY <1>1, <1>2, <2>1, <2>3 DEF StreamTyped, SourcesTyped
  <2>5. WorkersTyped'
    BY <1>1, <1>2, <1>3, <2>1, <2>2 DEF StreamTyped, WorkersTyped
  <2> QED
    BY <1>2, <1>7, <1>8, <1>9, <2>1, <2>4, <2>5
<1>33. ASSUME NEW w \in S!Workers, S!Send(w) PROVE StreamTyped'
  <2>1. UNCHANGED <<S!sources, opened, item, chClosed, pump, poolErrs, S!outputs, S!readers>>
    BY <1>33 DEF S!Send
  <2>2. /\ worker' \in [S!Workers -> Works]
        /\ \A v \in S!Workers : worker'[v] = "send" => worker[v] = "send"
    <3>1. \A l \in {"end", "pull"} : S!To(w, l) => WorkersMove
      BY <1>1, <1>12 DEF S!To, StreamTyped, WorkersTyped
    <3> QED
      BY <1>33, <3>1 DEF S!Send
  <2>3. ch' \in Seq(Pairs)
    <3>1. ch \in Seq(Pairs) /\ item[w] \in Pairs
      BY <1>1, <1>33 DEF StreamTyped, WorkersTyped, S!Send
    <3> QED
      BY <1>33, <3>1 DEF S!Send
  <2>4. WorkersTyped'
    BY <1>1, <1>2, <1>3, <2>1, <2>2, <2>3 DEF StreamTyped, WorkersTyped
  <2> QED
    BY <1>2, <1>5, <1>7, <1>8, <1>9, <2>1, <2>4
<1>34. ASSUME NEW w \in S!Workers, S!WorkerEnd(w) PROVE StreamTyped'
  <2>1. UNCHANGED <<script, taken, srcErrs, lock, opened, item, ch, chClosed, pump, S!outputs, S!readers>>
    BY <1>34 DEF S!WorkerEnd
  <2>2. /\ worker' \in [S!Workers -> Works]
        /\ \A v \in S!Workers : worker'[v] = "send" => worker[v] = "send"
    BY <1>1, <1>12, <1>34 DEF S!WorkerEnd, S!To, StreamTyped, WorkersTyped
  <2>3. srcClosed' \in [S!Sources -> BOOLEAN] /\ srcStart' \in [S!Sources -> Starts]
    BY <1>1, <1>24, <1>34 DEF S!WorkerEnd, StreamTyped, SourcesTyped
  <2>4. SourcesTyped'
    BY <1>1, <1>2, <2>1, <2>3 DEF StreamTyped, SourcesTyped
  <2>5. WorkersTyped'
    BY <1>1, <1>2, <1>3, <2>1, <2>2 DEF StreamTyped, WorkersTyped
  <2> QED
    BY <1>2, <1>7, <1>8, <1>9, <2>1, <2>4, <2>5
<1>35. ASSUME NEW w \in S!Workers, S!Read(w) PROVE StreamTyped'
  <2>1. UNCHANGED <<script, opened, ch, chClosed, pump, S!outputs, S!readers>>
    BY <1>35 DEF S!Read
  <2>2. PICK s : s = S!SourceOf(w) /\ s \in S!Sources
    BY <1>4, <1>35 DEF S!Read
  <2>3. PICK n : n = taken[s] + 1 /\ taken[s] \in 0..Len(script[s]) /\ n \in Nat \ {0} /\ s \in Nat
    BY <1>1, <2>2 DEF StreamTyped, SourcesTyped, S!Sources
  <2>4. srcClosed' \in [S!Sources -> BOOLEAN] /\ srcStart' \in [S!Sources -> Starts]
        /\ DOMAIN lock' = S!Sources /\ DOMAIN srcErrs' = S!Sources
    BY <1>1, <1>35, <2>2 DEF S!Read, StreamTyped, SourcesTyped
  <2>5. \/ UNCHANGED taken
        \/ n <= Len(script[s]) /\ taken' = [taken EXCEPT ![s] = n]
    <3>1. n > Len(script[s]) \/ n <= Len(script[s])
      BY <1>1, <2>2, <2>3 DEF StreamTyped, SourcesTyped
    <3>2. [taken EXCEPT ![s] = taken[s]] = taken
      BY <1>1 DEF StreamTyped, SourcesTyped
    <3> QED
      BY <1>35, <2>2, <2>3, <3>1, <3>2 DEF S!Read
  <2>6. taken' \in [S!Sources -> Nat] /\ \A u \in S!Sources : taken'[u] \in 0..Len(script[u])
    <3>1. /\ taken \in [S!Sources -> Nat]
          /\ \A u \in S!Sources : taken[u] \in 0..Len(script[u]) /\ Len(script[u]) \in Nat
      BY <1>1 DEF StreamTyped, SourcesTyped
    <3>2. CASE UNCHANGED taken
      BY <3>1, <3>2
    <3>3. CASE n <= Len(script[s]) /\ taken' = [taken EXCEPT ![s] = n]
      <4>1. n \in 0..Len(script[s]) /\ n \in Nat
        BY <2>2, <2>3, <3>1, <3>3
      <4>2. \A u \in S!Sources : taken'[u] = IF u = s THEN n ELSE taken[u]
        BY <3>1, <3>3
      <4>3. taken' \in [S!Sources -> Nat]
        BY <3>1, <3>3, <4>1
      <4> QED
        BY <3>1, <4>1, <4>2, <4>3
    <3> QED
      BY <2>5, <3>2, <3>3
  <2>7. SourcesTyped'
    BY <1>1, <1>2, <2>1, <2>4, <2>6 DEF StreamTyped, SourcesTyped
  <2>8. worker' \in [S!Workers -> Works]
    BY <1>1, <1>12, <1>35 DEF S!Read, S!To, S!mapPullProcess, StreamTyped, WorkersTyped
  <2>9. /\ DOMAIN item' = S!Workers
        /\ \A v \in S!Workers : worker'[v] = "send" => item'[v] \in Pairs
    <3>1. CASE UNCHANGED item /\ \A v \in S!Workers : worker'[v] = "send" => worker[v] = "send"
      BY <1>1, <3>1 DEF StreamTyped, WorkersTyped
    <3>2. CASE item' = [item EXCEPT ![w] = <<s, n>>] /\ S!To(w, "send")
      BY <1>1, <2>2, <2>3, <3>2 DEF StreamTyped, WorkersTyped, S!To, Pairs
    <3>3. \A l \in {"pull", "end"} : S!To(w, l) => \A v \in S!Workers : worker'[v] = "send" => worker[v] = "send"
      BY <1>1 DEF S!To, StreamTyped, WorkersTyped
    <3> QED
      BY <1>35, <2>2, <2>3, <3>1, <3>2, <3>3 DEF S!Read, S!mapPullProcess
  <2>10. WorkersTyped'
    BY <1>1, <1>2, <1>3, <2>1, <2>8, <2>9 DEF StreamTyped, WorkersTyped
  <2> QED
    BY <1>2, <1>7, <1>8, <1>9, <2>1, <2>7, <2>10
<1> QED
  BY <1>20, <1>21, <1>22, <1>23, <1>25, <1>26, <1>27, <1>30, <1>31, <1>32, <1>33, <1>34, <1>35
     DEF S!Next, S!Reading, S!CloseStep, S!Working

\* Nobody takes back what ended, and the channel's context is live while it is used.
LEMMA StreamCalm ==
  ASSUME StreamInv, S!Next
  PROVE  /\ S!Undisturbed' => S!Undisturbed
         /\ \A r \in Readers : why[r] # "" => why'[r] = why[r]
<1>1. StreamTyped /\ ReadersPlaced
  BY DEF StreamInv
<1>2. \A r \in Readers : pc[r] \in {"top", "recv"} => why[r] = ""
  BY <1>1 DEF ReadersPlaced
<1>3. /\ UNCHANGED why \/ \E r \in Readers : \E e : pc[r] \in {"top", "recv"} /\ why' = [why EXCEPT ![r] = e]
      /\ UNCHANGED ctx \/ \E r \in Readers : ctx' = [ctx EXCEPT ![r] = "canceled"]
  <2>1. CASE UNCHANGED <<why, ctx>>
    BY <2>1
  <2>2. ASSUME NEW r \in Readers, S!ReadCheck(r) \/ S!Receive(r) \/ S!Close(r) PROVE <1>3
    <3>1. UNCHANGED ctx
      BY <2>2 DEF S!ReadCheck, S!Receive, S!Close
    <3>2. UNCHANGED why \/ \E e : why' = [why EXCEPT ![r] = e]
      BY <2>2 DEF S!ReadCheck, S!Receive, S!Close, S!Fail
    <3>3. pc[r] \in {"top", "recv"}
      BY <2>2 DEF S!ReadCheck, S!Receive, S!Close
    <3> QED
      BY <3>1, <3>2, <3>3
  <2>3. ASSUME NEW r \in Readers, S!Cancel(r) PROVE <1>3
    BY <2>3 DEF S!Cancel
  <2> QED
    BY <2>1, <2>2, <2>3 DEF S!Next, S!Reading, S!CloseStep, S!Working, S!ReadOp, S!CloseBegin, S!CloseHook,
       S!readOneHandleError, S!Pull, S!Read, S!Send, S!WorkerEnd, S!OpenSource, S!CloseChannel, S!readers
<1>4. \A r \in Readers : why[r] # "" => why'[r] = why[r]
  BY <1>1, <1>2, <1>3 DEF StreamTyped, ReadersTyped
<1>5. \A r \in Readers : ctx[r] # "live" => ctx'[r] # "live"
  BY <1>1, <1>3 DEF StreamTyped, ReadersTyped
<1> QED
  BY <1>4, <1>5 DEF S!Undisturbed

\* While a worker runs undisturbed, so does the pump it works for.
LEMMA PumpRuns ==
  ASSUME StreamInv, S!Undisturbed
  PROVE  /\ (pump # 0 /\ ~chClosed) => S!PumpLive
         /\ \A w \in S!Workers : worker[w] \notin {"idle", "done"} => S!PumpLive
<1>1. StreamTyped /\ WorkersStart /\ ReadersPlaced /\ Quiet
  BY DEF StreamInv
<1>2. ASSUME pump # 0, ~chClosed PROVE S!PumpLive
  <2>1. pump \in S!Outs /\ start[pump] \in Readers
    BY <1>1, <1>2 DEF StreamTyped, WorkersTyped, WorkersStart
  <2>2. ctx[start[pump]] = "live"
    BY <2>1 DEF S!Undisturbed
  <2>3. \A r \in Readers : why[r] = ""
    BY <1>1, <1>2 DEF Quiet
  <2>4. ~canceled[pump]
    BY <1>1, <2>1, <2>3 DEF ReadersPlaced
  <2> QED
    BY <1>2, <2>1, <2>2, <2>4 DEF S!PumpLive, S!Live
<1>3. ASSUME NEW w \in S!Workers, worker[w] \notin {"idle", "done"} PROVE pump # 0 /\ ~chClosed
  BY <1>1, <1>3 DEF WorkersStart
<1> QED
  BY <1>2, <1>3

(* What a step does to the items *)
Stays ==
  /\ UNCHANGED <<got, ch, item>>
  /\ \A w \in S!Workers : Sends(w)' => Sends(w)
  /\ S!Undisturbed => \A w \in S!Workers : Sends(w) => Sends(w)'
  /\ \/ UNCHANGED taken
     \/ \E s \in S!Sources : script[s][taken[s] + 1] # "item" /\ taken' = [taken EXCEPT ![s] = taken[s] + 1]
Begins(w, s, n) ==
  /\ UNCHANGED <<got, ch>>
  /\ worker[w] = "read" /\ worker' = [worker EXCEPT ![w] = "send"] /\ item' = [item EXCEPT ![w] = <<s, n>>]
  /\ s \in S!Sources /\ n = taken[s] + 1 /\ script[s][n] = "item" /\ taken' = [taken EXCEPT ![s] = n]
Handed(w) == Sends(w) /\ worker' = [worker EXCEPT ![w] = "pull"] /\ UNCHANGED <<taken, item>>
Offers(w) == Handed(w) /\ UNCHANGED got /\ ch' = Append(ch, item[w])
Collects(r) ==
  /\ UNCHANGED <<taken, item, worker>> /\ ch # <<>>
  /\ got' = [got EXCEPT ![r] = Append(@, Head(ch))] /\ ch' = Tail(ch)
Hands(r, w) == Handed(w) /\ ch = <<>> /\ UNCHANGED ch /\ got' = [got EXCEPT ![r] = Append(@, item[w])]

\* Every step of a stream is of one of these kinds.
LEMMA StreamMoves ==
  ASSUME StreamInv, S!Next
  PROVE  \/ Stays
         \/ \E w \in S!Workers : Offers(w) \/ (\E s, n : Begins(w, s, n)) \/ \E r \in Readers : Hands(r, w)
         \/ \E r \in Readers : Collects(r)
<1> DEFINE Goal == \/ Stays
                   \/ \E w \in S!Workers : Offers(w) \/ (\E s, n : Begins(w, s, n)) \/ \E r \in Readers : Hands(r, w)
                   \/ \E r \in Readers : Collects(r)
<1>1. StreamTyped /\ WorkersStart
  BY DEF StreamInv
<1>2. CASE UNCHANGED <<got, ch, item, worker, taken>>
  BY <1>2 DEF Stays, Sends
<1>3. ASSUME NEW r \in Readers, S!ReadOp(r) PROVE Goal
  <2>1. UNCHANGED <<got, ch, item, taken>>
    BY <1>3 DEF S!ReadOp, S!sources
  <2>2. CASE UNCHANGED worker
    BY <1>2, <2>1, <2>2
  <2>3. CASE pump = 0 /\ worker' = [w \in S!Workers |-> IF w <= S!Shape.workers /\ how # "merge" THEN "pull" ELSE "idle"]
    <3>1. \A w \in S!Workers : ~Sends(w) /\ ~Sends(w)'
      BY <1>1, <2>3 DEF WorkersStart, Sends
    <3> QED
      BY <2>1, <3>1 DEF Stays
  <2> QED
    BY <1>3, <2>2, <2>3 DEF S!ReadOp, S!StartPump
<1>4. ASSUME NEW r \in Readers, S!Receive(r) PROVE Goal
  <2>1. UNCHANGED <<item, taken>>
    BY <1>4 DEF S!Receive, S!sources
  <2>2. CASE UNCHANGED <<got, ch, worker>>
    BY <1>2, <2>1, <2>2
  <2>3. CASE S!Take(r)
    BY <2>1, <2>3 DEF S!Take, Collects, Hands, Handed, Sends
  <2> QED
    BY <1>4, <2>2, <2>3 DEF S!Receive
<1>5. ASSUME NEW v \in S!Workers, NEW l, S!To(v, l), l # "send", ~Sends(v), UNCHANGED <<got, ch, item, taken>>
      PROVE  Stays
  BY <1>1, <1>5 DEF S!To, Sends, Stays, StreamTyped, WorkersTyped
<1>6. ASSUME S!OpenSource PROVE Goal
  <2>1. UNCHANGED <<got, ch, item, taken>>
    BY <1>6 DEF S!OpenSource, S!sources, S!readers
  <2>2. CASE UNCHANGED worker
    BY <1>2, <2>1, <2>2
  <2>3. CASE how = "merge" /\ opened >= 0 /\ opened < size /\ S!To(opened + 1, "pull")
    <3>1. opened + 1 \in S!Workers /\ worker[opened + 1] = "idle"
      BY <1>1, <2>3, StreamingAssumption DEF WorkersStart, StreamTyped, WorkersTyped, S!Workers
    <3> QED
      BY <1>5, <2>1, <2>3, <3>1 DEF Sends
  <2> QED
    BY <1>6, <2>2, <2>3 DEF S!OpenSource
<1>7. ASSUME NEW w \in S!Workers, S!Pull(w) \/ S!WorkerEnd(w) PROVE Goal
  <2>1. UNCHANGED <<got, ch, item, taken>> /\ ~Sends(w)
    BY <1>7 DEF S!Pull, S!WorkerEnd, S!readers, Sends
  <2>2. \E l : S!To(w, l) /\ l # "send"
    <3>1. CASE S!Pull(w)
      <4>1. S!To(w, "end") \/ S!To(w, "read")
        BY <3>1 DEF S!Pull
      <4> QED
        BY <4>1
    <3>2. CASE S!WorkerEnd(w)
      <4>1. S!To(w, "done")
        BY <3>2 DEF S!WorkerEnd
      <4> QED
        BY <4>1
    <3> QED
      BY <1>7, <3>1, <3>2
  <2> QED
    BY <1>5, <2>1, <2>2
<1>8. ASSUME NEW w \in S!Workers, S!Send(w) PROVE Goal
  <2>1. UNCHANGED <<got, item, taken>> /\ Sends(w)
    BY <1>8 DEF S!Send, S!sources, S!readers, Sends
  <2>2. CASE ch' = Append(ch, item[w]) /\ S!To(w, "pull")
    BY <2>1, <2>2 DEF Offers, Handed, S!To
  <2>3. CASE ~S!PumpLive /\ S!To(w, "end") /\ UNCHANGED ch
    <3>1. ~S!Undisturbed
      BY <1>8, <2>3, PumpRuns DEF S!Send
    <3>2. \A v \in S!Workers : Sends(v)' => Sends(v)
      BY <1>1, <2>3 DEF S!To, Sends, StreamTyped, WorkersTyped
    <3> QED
      BY <2>1, <2>3, <3>1, <3>2 DEF Stays
  <2> QED
    BY <1>8, <2>2, <2>3 DEF S!Send
<1>9. ASSUME NEW w \in S!Workers, S!Read(w) PROVE Goal
  <2>1. UNCHANGED <<got, ch>> /\ worker[w] = "read" /\ ~Sends(w)
    BY <1>9 DEF S!Read, S!readers, Sends
  <2>2. PICK s : s = S!SourceOf(w)
    OBVIOUS
  <2>3. s \in S!Sources
    BY <1>1, <2>1, <2>2, StreamShape DEF WorkersStart, S!Workers
  <2>4. taken \in [S!Sources -> Nat] /\ script[s] \in Seq(Replies)
    BY <1>1, <2>3 DEF StreamTyped, SourcesTyped
  <2>5. PICK n : n = taken[s] + 1
    OBVIOUS
  <2>6. taken = [taken EXCEPT ![s] = taken[s]]
    BY <2>4
  <2>7. CASE S!To(w, "send") /\ item' = [item EXCEPT ![w] = <<s, n>>] /\ script[s][n] = "item" /\ taken' = [taken EXCEPT ![s] = n]
    BY <2>1, <2>3, <2>5, <2>7 DEF Begins, S!To
  <2>8. CASE UNCHANGED item /\ (UNCHANGED worker \/ S!To(w, "pull") \/ S!To(w, "end"))
             /\ (UNCHANGED taken \/ (taken' = [taken EXCEPT ![s] = n] /\ script[s][n] # "item"))
    <3>1. \A v \in S!Workers : Sends(v)' <=> Sends(v)
      BY <1>1, <2>1, <2>8 DEF S!To, Sends, StreamTyped, WorkersTyped
    <3> QED
      BY <2>1, <2>3, <2>5, <2>8, <3>1 DEF Stays
  <2>9. \/ S!To(w, "send") /\ item' = [item EXCEPT ![w] = <<s, n>>] /\ script[s][n] = "item" /\ taken' = [taken EXCEPT ![s] = n]
        \/ /\ UNCHANGED item /\ (UNCHANGED worker \/ S!To(w, "pull") \/ S!To(w, "end"))
           /\ (UNCHANGED taken \/ (taken' = [taken EXCEPT ![s] = n] /\ script[s][n] # "item"))
    BY <1>9, <2>2, <2>5, <2>6 DEF S!Read, S!mapPullProcess
  <2> QED
    BY <2>7, <2>8, <2>9
<1>10. ASSUME NEW r \in Readers, S!ReadCheck(r) \/ S!CloseStep(r) \/ S!Close(r) \/ S!Cancel(r) PROVE Goal
  <2>1. UNCHANGED <<got, ch, item, worker, taken>>
    BY <1>10 DEF S!ReadCheck, S!CloseStep, S!CloseBegin, S!CloseHook, S!readOneHandleError, S!Close, S!Cancel, S!sources, S!pool
  <2> QED
    BY <1>2, <2>1
<1>11. ASSUME S!CloseChannel PROVE Goal
  BY <1>2, <1>11 DEF S!CloseChannel, S!sources, S!readers
<1> QED
  BY <1>3, <1>4, <1>6, <1>7, <1>8, <1>9, <1>10, <1>11 DEF S!Next, S!Reading, S!Working

\* A rising sequence of pairs, and what is taken from it or appended to it.
LEMMA RisingEnds ==
  ASSUME NEW s \in Seq(Pairs), Rising(s)
  PROVE  /\ s # <<>> => Rising(Tail(s)) /\ \A y : In(Tail(s), y) => Head(s)[2] < y[2]
         /\ \A x \in Pairs : (\A y : In(s, y) => y[2] < x[2]) => Rising(Append(s, x))
<1>1. Len(s) \in Nat
  OBVIOUS
<1>2. ASSUME s # <<>> PROVE Rising(Tail(s)) /\ \A y : In(Tail(s), y) => Head(s)[2] < y[2]
  <2>1. /\ Len(s) > 0 /\ Len(Tail(s)) = Len(s) - 1 /\ Head(s) = s[1]
        /\ \A i \in 1..Len(Tail(s)) : Tail(s)[i] = s[i + 1]
    BY <1>2
  <2>2. \A i \in 1..Len(Tail(s)) : i + 1 \in 1..Len(s) /\ 1 < i + 1 /\ 1 \in 1..Len(s)
    BY <1>1, <2>1
  <2>3. \A i, j \in 1..Len(Tail(s)) : i < j => i + 1 < j + 1
    BY <1>1, <2>1
  <2>4. Rising(Tail(s))
    BY <2>1, <2>2, <2>3 DEF Rising
  <2>5. \A y : In(Tail(s), y) => Head(s)[2] < y[2]
    BY <2>1, <2>2 DEF Rising, In
  <2> QED
    BY <2>4, <2>5
<1>3. ASSUME NEW x \in Pairs, \A y : In(s, y) => y[2] < x[2] PROVE Rising(Append(s, x))
  <2>1. /\ Len(Append(s, x)) = Len(s) + 1
        /\ \A i \in 1..Len(s) : Append(s, x)[i] = s[i]
        /\ Append(s, x)[Len(s) + 1] = x
    OBVIOUS
  <2>2. \A i : i \in 1..(Len(s) + 1) <=> i \in 1..Len(s) \/ i = Len(s) + 1
    BY <1>1
  <2>3. \A i \in 1..Len(s) : s[i][2] < x[2]
    BY <1>3 DEF In
  <2>4. \A i \in 1..Len(s) : i < Len(s) + 1 /\ ~(Len(s) + 1 < i)
    BY <1>1
  <2> QED
    BY <1>1, <2>1, <2>2, <2>3, <2>4 DEF Rising
<1> QED
  BY <1>2, <1>3

\* Items stay apart and in order, and none is lost.
LEMMA ItemsMove == ASSUME StreamInv, S!Next PROVE Apart' /\ InOrder' /\ NoneLost'
<1> DEFINE Goal == Apart' /\ InOrder' /\ NoneLost'
<1>1. StreamTyped /\ Apart /\ InOrder /\ WorkersStart /\ NoneLost
  BY DEF StreamInv
<1>2. /\ UNCHANGED <<how, size, script>> /\ S!Sources' = S!Sources /\ S!Shape' = S!Shape /\ S!Workers' = S!Workers
      /\ S!Undisturbed' => S!Undisturbed
  BY StreamFixed, StreamCalm DEF S!Workers
<1>3. /\ ch \in Seq(Pairs) /\ got \in [Readers -> Seq(Pairs)]
      /\ \A w \in S!Workers : Sends(w) => item[w] \in Pairs
      /\ worker \in [S!Workers -> {"idle", "pull", "read", "send", "end", "done"}] /\ DOMAIN item = S!Workers
      /\ taken \in [S!Sources -> Nat]
      /\ \A s \in S!Sources : taken[s] \in 0..Len(script[s]) /\ s \in Nat
  <2>1. /\ ch \in Seq(Pairs) /\ got \in [Readers -> Seq(Pairs)]
        /\ \A w \in S!Workers : Sends(w) => item[w] \in Pairs
        /\ worker \in [S!Workers -> {"idle", "pull", "read", "send", "end", "done"}] /\ DOMAIN item = S!Workers
    BY <1>1 DEF StreamTyped, WorkersTyped, ReadersTyped, Sends
  <2>2. /\ taken \in [S!Sources -> Nat]
        /\ \A s \in S!Sources : taken[s] \in 0..Len(script[s])
        /\ S!Sources = 1..(IF how = "merge" THEN size ELSE 1) /\ size \in Nat
    BY <1>1, StreamShape DEF StreamTyped, SourcesTyped, S!Sources
  <2>3. \A s \in S!Sources : s \in Nat
    BY <2>2
  <2> QED
    BY <2>1, <2>2, <2>3
<1>4. \A w, v \in S!Workers : S!Shape.workers = 1 /\ worker[w] # "idle" /\ worker[v] # "idle" => w = v
  BY <1>1 DEF WorkersStart, S!Workers
<1>5. S!Shape.workers = 1 => S!Sources = {1}
  BY <1>1, StreamShape
\* What is taken is known from then on.
<1>6. ASSUME \A s \in S!Sources : taken'[s] \in Nat /\ taken[s] <= taken'[s] PROVE \A x : Known(x) => Known(x)'
  BY <1>2, <1>3, <1>6 DEF Known
<1>7. UNCHANGED taken => \A x : Known(x)' <=> Known(x)
  BY <1>2 DEF Known
<1>8. CASE Stays
  <2>1. UNCHANGED <<got, ch, item>>
    BY <1>8 DEF Stays
  <2>2. \A r, x : Read(r, x)' <=> Read(r, x)
    BY <2>1 DEF Read
  <2>3. \A x : In(ch', x) <=> In(ch, x)
    BY <2>1
  <2>4. \A x : Known(x) => Known(x)'
    BY <1>3, <1>6, <1>8 DEF Stays
  <2>5. \A w \in S!Workers : Sends(w)' => Sends(w)
    BY <1>8 DEF Stays
  <2>6. Apart'
    BY <1>1, <1>2, <2>1, <2>2, <2>4, <2>5 DEF Apart
  <2>7. InOrder'
    BY <1>1, <1>2, <2>1, <2>2, <2>5 DEF InOrder
  <2>8. NoneLost'
    <3> SUFFICES ASSUME S!Undisturbed', NEW s \in S!Sources, NEW n \in 1..taken'[s], script[s][n] = "item"
                 PROVE  \/ \E r \in Readers : Read(r, <<s, n>>)
                        \/ In(ch, <<s, n>>)
                        \/ \E w \in S!Workers : Sends(w)' /\ item[w] = <<s, n>>
      BY <1>2, <2>1, <2>2 DEF NoneLost
    <3>1. n \in 1..taken[s]
      BY <1>3, <1>8 DEF Stays
    <3>2. \A w \in S!Workers : Sends(w) => Sends(w)'
      BY <1>2, <1>8 DEF Stays
    <3> QED
      BY <1>1, <1>2, <3>1, <3>2 DEF NoneLost
  <2> QED
    BY <2>6, <2>7, <2>8
<1>9. ASSUME NEW w \in S!Workers, NEW s, NEW n, Begins(w, s, n) PROVE Goal
  <2>1. UNCHANGED <<got, ch>> /\ s \in S!Sources /\ n = taken[s] + 1 /\ script[s][n] = "item" /\ ~Sends(w)
        /\ taken' = [taken EXCEPT ![s] = n]
    BY <1>9 DEF Begins, Sends
  <2>2. \A r, x : Read(r, x)' <=> Read(r, x)
    BY <2>1 DEF Read
  <2>3. \A v \in S!Workers : item'[v] = IF v = w THEN <<s, n>> ELSE item[v]
    BY <1>3, <1>9 DEF Begins
  <2>4. \A v \in S!Workers : Sends(v)' <=> Sends(v) \/ v = w
    BY <1>3, <1>9 DEF Begins, Sends
  <2>5. taken'[s] = n /\ \A u \in S!Sources : taken'[u] = IF u = s THEN n ELSE taken[u]
    BY <1>3, <2>1
  <2>6. n \in Nat /\ taken[s] \in Nat /\ n = taken[s] + 1 /\ n \notin 1..taken[s] /\ n \in 1..n
    BY <1>3, <2>1
  <2>7. \A x : Known(x) => Known(x)'
    BY <1>3, <1>6, <2>5, <2>6
  <2>8. Known(<<s, n>>)' /\ ~Known(<<s, n>>)
    BY <1>2, <2>1, <2>5, <2>6 DEF Known
  <2>9. Apart'
    <3>1. \A r \in Readers : Distinct(got'[r])
      BY <1>1, <2>1 DEF Apart
    <3>2. \A r, q \in Readers : r # q => \A x : ~(Read(r, x)' /\ Read(q, x)')
      BY <1>1, <2>2 DEF Apart
    <3>3. Distinct(ch') /\ \A r \in Readers : \A x : ~(Read(r, x)' /\ In(ch', x))
      BY <1>1, <2>1, <2>2 DEF Apart
    <3>4. /\ \A r \in Readers : ~Read(r, <<s, n>>)
          /\ ~In(ch, <<s, n>>)
          /\ \A v \in S!Workers : Sends(v) => item[v] # <<s, n>> /\ v # w
      BY <1>1, <2>1, <2>8 DEF Apart
    <3>7. ASSUME NEW v \in S!Workers, Sends(v)'
          PROVE  /\ \A r \in Readers : ~In(got[r], item'[v])
                 /\ ~In(ch, item'[v])
                 /\ \A u \in S!Workers : Sends(u)' /\ item'[u] = item'[v] => u = v
                 /\ Known(item[v])'
      <4>1. CASE v = w
        <5>1. item'[v] = <<s, n>>
          BY <2>3, <4>1
        <5>2. \A u \in S!Workers : Sends(u)' /\ u # w => item'[u] = item[u] /\ item[u] # <<s, n>>
          BY <2>3, <2>4, <3>4
        <5>3. Known(item[v])'
          BY <2>8, <5>1 DEF Known
        <5> QED
          BY <3>4, <4>1, <5>1, <5>2, <5>3 DEF Read
      <4>2. CASE v # w
        <5>1. item'[v] = item[v] /\ Sends(v)
          BY <2>3, <2>4, <3>7, <4>2
        <5>2. /\ \A r \in Readers : ~In(got[r], item[v])
              /\ ~In(ch, item[v])
              /\ \A u \in S!Workers : Sends(u) /\ item[u] = item[v] => u = v
              /\ Known(item[v])
          BY <1>1, <5>1 DEF Apart, Read
        <5>3. Known(item[v])'
          BY <2>7, <5>1, <5>2 DEF Known
        <5>4. \A u \in S!Workers : Sends(u)' /\ item'[u] = item'[v] => u = v
          BY <2>3, <2>4, <3>4, <5>1, <5>2
        <5> QED
          BY <5>1, <5>2, <5>3, <5>4
      <4> QED
        BY <4>1, <4>2
    <3>5. \A r \in Readers : \A x : Read(r, x)' => Known(x)'
      BY <1>1, <2>2, <2>7 DEF Apart
    <3>6. \A x : In(ch', x) => Known(x)'
      BY <1>1, <2>1, <2>7 DEF Apart
    <3> QED
      BY <1>2, <2>1, <3>1, <3>2, <3>3, <3>5, <3>6, <3>7 DEF Apart, Read
  <2>10. ASSUME S!Shape.workers = 1 PROVE \A x : Known(x) => x[2] < n
    <3>1. S!Sources = {1}
      BY <1>5, <2>10
    <3>2. ASSUME NEW x, Known(x) PROVE x[2] < n
      <4>1. x[2] \in 1..taken[s]
        BY <2>1, <3>1, <3>2 DEF Known
      <4> QED
        BY <2>6, <4>1
    <3> QED
      BY <3>2
  <2>11. InOrder'
    <3> SUFFICES ASSUME S!Shape.workers = 1
                 PROVE  /\ \A r \in Readers : Rising(got'[r])
                        /\ Rising(ch')
                        /\ \A r \in Readers : \A x, y : Read(r, x)' /\ In(ch', y) => x[2] < y[2]
                        /\ \A v \in S!Workers : Sends(v)' =>
                             /\ \A r \in Readers : \A x : Read(r, x)' => x[2] < item'[v][2]
                             /\ \A y : In(ch', y) => y[2] < item'[v][2]
      BY <1>2 DEF InOrder
    <3>1. \A v \in S!Workers : Sends(v)' => v = w
      BY <1>4, <1>9, <2>4 DEF Begins, Sends
    <3>2. item'[w][2] = n
      BY <2>3
    <3> QED
      BY <1>1, <2>1, <2>2, <2>10, <3>1, <3>2 DEF InOrder, Apart
  <2>12. NoneLost'
    <3> SUFFICES ASSUME S!Undisturbed', NEW u \in S!Sources, NEW k \in 1..taken'[u], script[u][k] = "item"
                 PROVE  \/ \E r \in Readers : Read(r, <<u, k>>)
                        \/ In(ch, <<u, k>>)
                        \/ \E v \in S!Workers : Sends(v)' /\ item'[v] = <<u, k>>
      BY <1>2, <2>1, <2>2 DEF NoneLost
    <3>1. CASE u = s /\ k = n
      BY <2>3, <2>4, <3>1
    <3>2. CASE ~(u = s /\ k = n)
      <4>1. k \in 1..taken[u]
        BY <2>5, <2>6, <3>2
      <4> QED
        BY <1>1, <1>2, <2>1, <2>3, <2>4, <4>1 DEF NoneLost
    <3> QED
      BY <3>1, <3>2
  <2> QED
    BY <2>9, <2>11, <2>12
\* A worker hands its item on.
<1>10. ASSUME NEW w \in S!Workers, Handed(w)
       PROVE  /\ \A v \in S!Workers : Sends(v)' <=> Sends(v) /\ v # w
              /\ item[w] \in Pairs /\ Known(item[w])
              /\ \A r \in Readers : ~Read(r, item[w])
              /\ ~In(ch, item[w])
              /\ S!Shape.workers = 1 => \A v \in S!Workers : ~Sends(v)'
  BY <1>1, <1>3, <1>4, <1>10 DEF Handed, Sends, Apart
<1>11. ASSUME NEW r \in Readers, NEW x \in Pairs, got' = [got EXCEPT ![r] = Append(@, x)], ~Read(r, x),
             S!Shape.workers = 1 => \A y : Read(r, y) => y[2] < x[2]
       PROVE  /\ \A q \in Readers : Distinct(got'[q])
              /\ \A q \in Readers : \A y : Read(q, y)' <=> Read(q, y) \/ (q = r /\ y = x)
              /\ S!Shape.workers = 1 => \A q \in Readers : Rising(got'[q])
  <2>1. got[r] \in Seq(Pairs) /\ Distinct(got[r]) /\ \A q \in Readers : q # r => got'[q] = got[q]
    BY <1>1, <1>3, <1>11 DEF Apart
  <2>2. got'[r] = Append(got[r], x)
    BY <1>3, <1>11
  <2>3. PICK s : s = got[r]
    OBVIOUS
  <2>4. Distinct(Append(s, x)) /\ \A y : In(Append(s, x), y) <=> In(s, y) \/ y = x
    BY <1>11, <2>1, <2>3, Appended DEF Read
  <2>5. ASSUME S!Shape.workers = 1 PROVE Rising(Append(s, x))
    BY <1>1, <1>11, <2>1, <2>3, <2>5, RisingEnds DEF InOrder, Read
  <2>6. \A q \in Readers : Distinct(got'[q])
    BY <1>1, <2>1, <2>2, <2>3, <2>4 DEF Apart
  <2>7. \A q \in Readers : \A y : Read(q, y)' <=> Read(q, y) \/ (q = r /\ y = x)
    BY <2>1, <2>2, <2>3, <2>4 DEF Read
  <2> QED
    BY <1>1, <2>1, <2>2, <2>3, <2>5, <2>6, <2>7 DEF InOrder
<1>12. ASSUME NEW w \in S!Workers, Offers(w) PROVE Goal
  <2>1. PICK s, x : s = ch /\ x = item[w]
    OBVIOUS
  <2>2. Handed(w) /\ UNCHANGED <<got, taken, item>> /\ ch' = Append(s, x)
    BY <1>12, <2>1 DEF Offers, Handed
  <2>3. /\ \A v \in S!Workers : Sends(v)' <=> Sends(v) /\ v # w
        /\ x \in Pairs /\ Known(x) /\ ~In(s, x)
        /\ \A r \in Readers : ~Read(r, x)
        /\ S!Shape.workers = 1 => \A v \in S!Workers : ~Sends(v)'
    BY <1>10, <2>1, <2>2
  <2>4. s \in Seq(Pairs) /\ Distinct(s)
    BY <1>1, <1>3, <2>1 DEF Apart
  <2>5. Distinct(ch') /\ \A y : In(ch', y) <=> In(ch, y) \/ y = x
    BY <2>1, <2>2, <2>3, <2>4, Appended
  <2>6. \A r, y : Read(r, y)' <=> Read(r, y)
    BY <2>2 DEF Read
  <2>7. \A y : Known(y)' <=> Known(y)
    BY <1>7, <2>2
  <2>8. Apart'
    BY <1>1, <1>2, <2>1, <2>2, <2>3, <2>5, <2>6, <2>7 DEF Apart, Handed
  <2>9. InOrder'
    <3> SUFFICES ASSUME S!Shape.workers = 1
                 PROVE  /\ \A r \in Readers : Rising(got'[r])
                        /\ Rising(ch')
                        /\ \A r \in Readers : \A y, z : Read(r, y)' /\ In(ch', z) => y[2] < z[2]
      BY <1>2, <2>3 DEF InOrder
    <3>1. /\ \A y : In(s, y) => y[2] < x[2]
          /\ \A r \in Readers : \A y : Read(r, y) => y[2] < x[2]
          /\ Rising(s)
      BY <1>1, <2>1, <2>2 DEF InOrder, Handed
    <3>2. Rising(ch')
      BY <2>2, <2>3, <2>4, <3>1, RisingEnds
    <3> QED
      BY <1>1, <2>2, <2>5, <2>6, <3>1, <3>2 DEF InOrder
  <2>10. NoneLost'
    <3> SUFFICES ASSUME S!Undisturbed', NEW z \in S!Sources, NEW n \in 1..taken[z], script[z][n] = "item"
                 PROVE  \/ \E r \in Readers : Read(r, <<z, n>>)'
                        \/ In(ch', <<z, n>>)
                        \/ \E v \in S!Workers : Sends(v)' /\ item'[v] = <<z, n>>
      BY <1>2, <2>2 DEF NoneLost
    <3>1. \/ \E r \in Readers : Read(r, <<z, n>>)
          \/ In(ch, <<z, n>>)
          \/ \E v \in S!Workers : Sends(v) /\ item[v] = <<z, n>>
      BY <1>1, <1>2 DEF NoneLost
    <3>2. CASE \E r \in Readers : Read(r, <<z, n>>)
      BY <2>6, <3>2
    <3>3. CASE In(ch, <<z, n>>)
      BY <2>5, <3>3
    <3>4. ASSUME NEW v \in S!Workers, Sends(v), item[v] = <<z, n>>, v # w
          PROVE  Sends(v)' /\ item'[v] = <<z, n>>
      BY <2>2, <2>3, <3>4
    <3>5. item[w] = <<z, n>> => In(ch', <<z, n>>)
      BY <2>1, <2>5
    <3> QED
      BY <3>1, <3>2, <3>3, <3>4, <3>5
  <2> QED
    BY <2>8, <2>9, <2>10
<1>13. ASSUME NEW w \in S!Workers, NEW r \in Readers, Hands(r, w) PROVE Goal
  <2>1. PICK x : x = item[w]
    OBVIOUS
  <2>2. Handed(w) /\ UNCHANGED <<ch, taken, item>> /\ ch = <<>> /\ got' = [got EXCEPT ![r] = Append(@, x)]
    BY <1>13, <2>1 DEF Hands, Handed
  <2>3. /\ \A v \in S!Workers : Sends(v)' <=> Sends(v) /\ v # w
        /\ x \in Pairs /\ Known(x)
        /\ \A q \in Readers : ~Read(q, x)
        /\ S!Shape.workers = 1 => \A v \in S!Workers : ~Sends(v)'
    BY <1>10, <2>1, <2>2
  <2>4. Sends(w) /\ \A y : ~In(ch, y)
    BY <2>2 DEF In, Handed
  <2>5. S!Shape.workers = 1 => \A q \in Readers : \A y : Read(q, y) => y[2] < x[2]
    BY <1>1, <2>1, <2>4 DEF InOrder
  <2>6. /\ \A q \in Readers : Distinct(got'[q])
        /\ \A q \in Readers : \A y : Read(q, y)' <=> Read(q, y) \/ (q = r /\ y = x)
        /\ S!Shape.workers = 1 => \A q \in Readers : Rising(got'[q])
    BY <1>11, <2>2, <2>3, <2>5
  <2>7. \A y : Known(y)' <=> Known(y)
    BY <1>7, <2>2
  <2>8. Apart'
    BY <1>1, <1>2, <2>1, <2>2, <2>3, <2>4, <2>6, <2>7 DEF Apart
  <2>9. InOrder'
    BY <1>1, <1>2, <2>2, <2>3, <2>4, <2>6 DEF InOrder
  <2>10. NoneLost'
    <3> SUFFICES ASSUME S!Undisturbed', NEW s \in S!Sources, NEW n \in 1..taken[s], script[s][n] = "item"
                 PROVE  \/ \E q \in Readers : Read(q, <<s, n>>)'
                        \/ \E v \in S!Workers : Sends(v)' /\ item'[v] = <<s, n>>
      BY <1>2, <2>2 DEF NoneLost, Handed
    <3>1. (\E q \in Readers : Read(q, <<s, n>>)) \/ \E v \in S!Workers : Sends(v) /\ item[v] = <<s, n>>
      BY <1>1, <1>2, <2>4 DEF NoneLost
    <3>2. CASE \E q \in Readers : Read(q, <<s, n>>)
      BY <2>6, <3>2
    <3>3. ASSUME NEW v \in S!Workers, Sends(v), item[v] = <<s, n>>, v # w
          PROVE  Sends(v)' /\ item'[v] = <<s, n>>
      BY <2>2, <2>3, <3>3 DEF Handed
    <3>4. item[w] = <<s, n>> => Read(r, <<s, n>>)'
      BY <2>1, <2>6
    <3> QED
      BY <3>1, <3>2, <3>3, <3>4
  <2> QED
    BY <2>8, <2>9, <2>10
<1>14. ASSUME NEW r \in Readers, Collects(r) PROVE Goal
  <2>1. PICK s : s = ch
    OBVIOUS
  <2>2. s \in Seq(Pairs) /\ s # <<>> /\ Distinct(s)
    BY <1>1, <1>3, <1>14, <2>1 DEF Collects, Apart
  <2>3. PICK x : x = Head(s)
    OBVIOUS
  <2>4. /\ x \in Pairs /\ Distinct(Tail(s)) /\ ~In(Tail(s), x)
        /\ \A y : In(s, y) <=> y = x \/ In(Tail(s), y)
    BY <2>2, <2>3, HeadAndTail
  <2>5. ch' = Tail(s) /\ got' = [got EXCEPT ![r] = Append(@, x)] /\ UNCHANGED <<taken, item, worker>>
    BY <1>14, <2>1, <2>3 DEF Collects
  <2>6. Known(x) /\ \A q \in Readers : ~Read(q, x)
    BY <1>1, <2>1, <2>4 DEF Apart
  <2>7. S!Shape.workers = 1 => \A q \in Readers : \A y : Read(q, y) => y[2] < x[2]
    BY <1>1, <2>1, <2>4 DEF InOrder
  <2>8. /\ \A q \in Readers : Distinct(got'[q])
        /\ \A q \in Readers : \A y : Read(q, y)' <=> Read(q, y) \/ (q = r /\ y = x)
        /\ S!Shape.workers = 1 => \A q \in Readers : Rising(got'[q])
    BY <1>11, <2>4, <2>5, <2>6, <2>7
  <2>9. \A y : Known(y)' <=> Known(y)
    BY <1>7, <2>5
  <2>10. \A v \in S!Workers : Sends(v)' <=> Sends(v)
    BY <2>5 DEF Sends
  <2>11. Apart'
    BY <1>1, <1>2, <2>1, <2>4, <2>5, <2>6, <2>8, <2>9, <2>10 DEF Apart
  <2>12. S!Shape.workers = 1 => Rising(Tail(s)) /\ \A y : In(Tail(s), y) => x[2] < y[2]
    BY <1>1, <2>1, <2>2, <2>3, RisingEnds DEF InOrder
  <2>13. InOrder'
    BY <1>1, <1>2, <2>1, <2>4, <2>5, <2>8, <2>10, <2>12 DEF InOrder
  <2>14. NoneLost'
    BY <1>1, <1>2, <2>1, <2>4, <2>5, <2>8, <2>10 DEF NoneLost
  <2> QED
    BY <2>11, <2>13, <2>14
<1> QED
  BY <1>8, <1>9, <1>12, <1>13, <1>14, StreamMoves

\* Workers are started once, and the channel closed after the last of them.
LEMMA WorkersStartNext == ASSUME StreamInv, S!Next PROVE WorkersStart'
<1>1. StreamTyped /\ WorkersStart
  BY DEF StreamInv
<1>2. UNCHANGED <<how, size>> /\ S!Outs' = S!Outs /\ S!Shape' = S!Shape /\ S!Workers' = S!Workers
  BY StreamFixed DEF S!Workers
<1>3. /\ S!Shape.workers \in 1..MaxWorkers /\ S!Workers \subseteq Nat /\ MaxWorkers \in Nat
      /\ (how = "merge" => S!Shape.workers = size) /\ size \in 1..MaxWorkers
      /\ \A r \in Readers : S!Output(r) \in S!Outs
      /\ 0 \notin S!Outs /\ Readers \subseteq Nat \ {0}
  BY <1>1, StreamShape DEF S!Workers, StreamTyped
<1>4. /\ worker \in [S!Workers -> {"idle", "pull", "read", "send", "end", "done"}] /\ opened \in -1..size
      /\ how # "merge" => opened = 0
      /\ start \in [S!Outs -> Readers \cup {0, -1}] /\ pump \in S!Outs \cup {0} /\ chClosed \in BOOLEAN
  BY <1>1 DEF StreamTyped, WorkersTyped, OutputsTyped
<1>5. ASSUME UNCHANGED <<worker, pump, opened, chClosed>>, \A o \in S!Outs : start[o] \in Readers => start'[o] \in Readers
      PROVE  WorkersStart'
  BY <1>1, <1>2, <1>4, <1>5 DEF WorkersStart
<1>6. ASSUME NEW w \in S!Workers, NEW l, worker[w] \notin {"idle", "done"}, l # "idle",
             worker' = [worker EXCEPT ![w] = l], UNCHANGED <<pump, opened, chClosed, start>>
      PROVE  WorkersStart'
  <2>1. \A v \in S!Workers : worker'[v] # "idle" <=> worker[v] # "idle"
    BY <1>4, <1>6
  <2>2. ~chClosed /\ pump # 0
    BY <1>1, <1>6 DEF WorkersStart
  <2> QED
    BY <1>1, <1>2, <1>6, <2>1, <2>2 DEF WorkersStart
<1>7. ASSUME NEW r \in Readers, S!ReadOp(r) PROVE WorkersStart'
  <2>1. UNCHANGED <<opened, chClosed>>
    BY <1>7 DEF S!ReadOp
  <2>2. PICK o \in S!Outs : o = S!Output(r)
    BY <1>3
  <2>3. /\ UNCHANGED start \/ (start[o] # -1 /\ start' = [start EXCEPT ![o] = IF @ = 0 THEN r ELSE @])
        /\ UNCHANGED <<pump, worker>> \/ (start[o] # -1 /\ start' = [start EXCEPT ![o] = IF @ = 0 THEN r ELSE @] /\ S!StartPump(o))
    BY <1>7, <2>2 DEF S!ReadOp
  <2>4. \A u \in S!Outs : start[u] \in Readers => start'[u] \in Readers
    BY <1>3, <1>4, <2>3
  <2>5. CASE UNCHANGED <<pump, worker>>
    BY <1>5, <2>1, <2>4, <2>5
  <2>6. CASE /\ pump = 0 /\ pump' = o /\ start[o] # -1 /\ start' = [start EXCEPT ![o] = IF @ = 0 THEN r ELSE @]
             /\ worker' = [w \in S!Workers |-> IF w <= S!Shape.workers /\ how # "merge" THEN "pull" ELSE "idle"]
    <3>1. start'[o] \in Readers /\ o # 0
      BY <1>3, <1>4, <2>6
    <3>2. opened = 0 /\ ~chClosed
      BY <1>1, <2>6 DEF WorkersStart
    <3>3. \A w \in S!Workers : worker'[w] = IF w <= S!Shape.workers /\ how # "merge" THEN "pull" ELSE "idle"
      BY <2>6
    <3>4. \A w \in S!Workers : w \in Nat /\ ~(w <= 0) /\ (w > S!Shape.workers => ~(w <= S!Shape.workers))
      BY <1>3 DEF S!Workers
    <3> QED
      BY <1>2, <2>1, <2>6, <3>1, <3>2, <3>3, <3>4 DEF WorkersStart
  <2> QED
    BY <2>3, <2>5, <2>6 DEF S!StartPump
<1>8. ASSUME NEW r \in Readers, S!Receive(r) PROVE WorkersStart'
  <2>1. UNCHANGED <<pump, opened, chClosed, start>>
    BY <1>8 DEF S!Receive, S!outputs
  <2>2. CASE UNCHANGED worker
    BY <1>5, <2>1, <2>2
  <2>3. CASE \E w \in S!Workers : worker[w] = "send" /\ worker' = [worker EXCEPT ![w] = "pull"]
    BY <1>6, <2>1, <2>3
  <2> QED
    BY <1>8, <2>2, <2>3 DEF S!Receive, S!Take
<1>9. ASSUME NEW r \in Readers, S!ReadCheck(r) \/ S!CloseStep(r) \/ S!Close(r) \/ S!Cancel(r) PROVE WorkersStart'
  <2>1. UNCHANGED <<worker, pump, opened, chClosed>>
    BY <1>9 DEF S!ReadCheck, S!CloseStep, S!CloseBegin, S!CloseHook, S!readOneHandleError, S!Close, S!Cancel, S!pool
  <2>2. UNCHANGED start \/ \E o : start' = [start EXCEPT ![o] = IF @ = 0 THEN -1 ELSE @]
    BY <1>9 DEF S!ReadCheck, S!CloseStep, S!CloseBegin, S!CloseHook, S!readOneHandleError, S!Close, S!Cancel, S!outputs
  <2>3. \A o \in S!Outs : start[o] \in Readers => start'[o] \in Readers
    BY <1>3, <1>4, <2>2
  <2> QED
    BY <1>5, <2>1, <2>3
<1>10. ASSUME NEW w \in S!Workers, S!Working(w) PROVE WorkersStart'
  <2>1. UNCHANGED <<pump, opened, chClosed, start>>
    BY <1>10 DEF S!Working, S!Pull, S!Read, S!Send, S!WorkerEnd, S!outputs
  <2>2. worker[w] \notin {"idle", "done"}
    BY <1>10 DEF S!Working, S!Pull, S!Read, S!Send, S!WorkerEnd
  <2>3. UNCHANGED worker \/ \E l \in {"pull", "read", "send", "end", "done"} : S!To(w, l)
    <3>1. CASE S!Pull(w)
      BY <3>1 DEF S!Pull
    <3>2. CASE S!Read(w)
      BY <3>2 DEF S!Read, S!mapPullProcess
    <3>3. CASE S!Send(w) \/ S!WorkerEnd(w)
      BY <3>3 DEF S!Send, S!WorkerEnd
    <3> QED
      BY <1>10, <3>1, <3>2, <3>3 DEF S!Working
  <2> QED
    BY <1>5, <1>6, <2>1, <2>2, <2>3 DEF S!To
<1>11. ASSUME S!OpenSource PROVE WorkersStart'
  <2>1. UNCHANGED <<pump, chClosed, start>> /\ how = "merge" /\ pump # 0 /\ opened >= 0 /\ ~chClosed
    BY <1>1, <1>4, <1>11 DEF S!OpenSource, S!outputs, WorkersStart
  <2>2. CASE opened' = -1 /\ UNCHANGED worker
    BY <1>1, <1>2, <1>4, <2>1, <2>2 DEF WorkersStart
  <2>3. CASE opened < size /\ opened' = opened + 1 /\ S!To(opened + 1, "pull")
    <3>1. opened + 1 \in S!Workers /\ opened + 1 <= S!Shape.workers /\ opened \in Nat
      BY <1>3, <1>4, <2>1, <2>3 DEF S!Workers
    <3>2. \A v \in S!Workers : worker'[v] = IF v = opened + 1 THEN "pull" ELSE worker[v]
      BY <1>4, <2>3, <3>1 DEF S!To
    <3>3. \A v \in S!Workers : v \in Nat /\ (v <= opened + 1 <=> v <= opened \/ v = opened + 1)
      BY <1>3, <3>1
    <3>4. \A v \in S!Workers : worker'[v] # "idle" <=> v <= opened'
      BY <1>1, <2>1, <2>3, <3>2, <3>3 DEF WorkersStart
    <3>5. \A v \in S!Workers : v > S!Shape.workers => worker'[v] = "idle"
      BY <1>1, <1>3, <3>1, <3>2 DEF WorkersStart
    <3> QED
      BY <1>1, <1>2, <2>1, <3>4, <3>5 DEF WorkersStart
  <2> QED
    BY <1>11, <2>2, <2>3 DEF S!OpenSource
<1>12. ASSUME S!CloseChannel PROVE WorkersStart'
  <2>1. UNCHANGED <<pump, opened, worker, start>> /\ chClosed'
    BY <1>12 DEF S!CloseChannel, S!outputs
  <2> QED
    BY <1>1, <1>2, <1>12, <2>1 DEF S!CloseChannel, WorkersStart
<1> QED
  BY <1>7, <1>8, <1>9, <1>10, <1>11, <1>12 DEF S!Next, S!Reading

\* What a worker reads: a panic, an item, what is dropped, an error, or the end.
Answer(w, s, n) ==
  /\ UNCHANGED <<script, opened, ch, chClosed, pump, S!outputs, S!readers>> /\ worker[w] = "read"
  /\ \/ /\ srcStart[s] = "never" /\ S!To(w, "end") /\ UNCHANGED <<taken, srcClosed, srcErrs, srcStart, poolErrs>>
        /\ lock' = [lock EXCEPT ![s] = 0]
     \/ /\ script[s][n] \in {"item", "skip", "bad"} /\ n <= Len(script[s]) /\ taken' = [taken EXCEPT ![s] = n]
        /\ UNCHANGED <<srcClosed, srcErrs>> /\ srcStart' = [srcStart EXCEPT ![s] = "live"]
        /\ \/ script[s][n] = "item" /\ S!To(w, "send") /\ lock' = [lock EXCEPT ![s] = 0] /\ UNCHANGED poolErrs
           \/ script[s][n] = "skip" /\ UNCHANGED <<worker, lock, poolErrs>>
           \/ script[s][n] = "bad" /\ S!To(w, IF conf THEN "pull" ELSE "end") /\ lock' = [lock EXCEPT ![s] = 0]
              /\ poolErrs' = poolErrs \cup {"bad"}
     \/ /\ S!To(w, "end") /\ lock' = [lock EXCEPT ![s] = 0] /\ UNCHANGED poolErrs
        /\ srcStart' = [srcStart EXCEPT ![s] = "live"] /\ srcClosed' = [srcClosed EXCEPT ![s] = TRUE]
        /\ \/ script[s][n] = "err" /\ n <= Len(script[s]) /\ taken' = [taken EXCEPT ![s] = n]
              /\ srcErrs' = [srcErrs EXCEPT ![s] = srcErrs[s] \cup {<<s, n>>}]
           \/ taken[s] = Len(script[s]) /\ UNCHANGED taken /\ srcErrs' = [srcErrs EXCEPT ![s] = srcErrs[s]]

\* What a worker reads is one of these answers.
LEMMA ReadAnswers ==
  ASSUME StreamInv, NEW w \in S!Workers, S!Read(w)
  PROVE  \E s \in S!Sources, n \in Nat \ {0} : s = S!SourceOf(w) /\ n = taken[s] + 1 /\ Answer(w, s, n)
<1>1. StreamTyped /\ WorkersStart
  BY DEF StreamInv
<1>2. PICK s \in S!Sources : s = S!SourceOf(w)
  BY <1>1, StreamShape DEF WorkersStart, S!Workers, S!Read
<1>3. PICK n, len : n = taken[s] + 1 /\ len = Len(script[s])
  OBVIOUS
<1>4. taken[s] \in Nat /\ len \in Nat /\ taken[s] <= len /\ n \in Nat \ {0}
  BY <1>1, <1>2, <1>3 DEF StreamTyped, SourcesTyped
<1>5. [taken EXCEPT ![s] = taken[s]] = taken
  BY <1>1, <1>2 DEF StreamTyped, SourcesTyped
<1>6. UNCHANGED <<script, opened, ch, chClosed, pump, S!outputs, S!readers>> /\ worker[w] = "read"
  BY DEF S!Read
<1>7. CASE n > len
  <2>1. taken[s] = len
    BY <1>3, <1>4, <1>7
  <2>2. /\ S!To(w, "end") /\ lock' = [lock EXCEPT ![s] = 0] /\ UNCHANGED poolErrs
        /\ \/ srcStart[s] = "never" /\ UNCHANGED <<taken, srcClosed, srcErrs, srcStart>>
           \/ /\ srcStart' = [srcStart EXCEPT ![s] = "live"] /\ srcClosed' = [srcClosed EXCEPT ![s] = TRUE]
              /\ UNCHANGED taken /\ srcErrs' = [srcErrs EXCEPT ![s] = srcErrs[s]]
    BY <1>2, <1>3, <1>5, <1>7 DEF S!Read
  <2> QED
    BY <1>2, <1>3, <1>4, <1>6, <2>1, <2>2 DEF Answer
<1>8. CASE ~(n > len)
  <2>1. n <= Len(script[s]) /\ script[s][n] \in Replies
    BY <1>1, <1>2, <1>3, <1>4, <1>8 DEF StreamTyped, SourcesTyped
  <2>2. \/ /\ srcStart[s] = "never" /\ S!To(w, "end") /\ UNCHANGED <<taken, srcClosed, srcErrs, srcStart, poolErrs>>
           /\ lock' = [lock EXCEPT ![s] = 0]
        \/ /\ taken' = [taken EXCEPT ![s] = n] /\ srcStart' = [srcStart EXCEPT ![s] = "live"]
           /\ \/ script[s][n] = "item" /\ S!To(w, "send") /\ lock' = [lock EXCEPT ![s] = 0] /\ UNCHANGED <<srcClosed, srcErrs, poolErrs>>
              \/ script[s][n] = "skip" /\ UNCHANGED <<worker, lock, srcClosed, srcErrs, poolErrs>>
              \/ script[s][n] = "bad" /\ S!To(w, IF conf THEN "pull" ELSE "end") /\ lock' = [lock EXCEPT ![s] = 0]
                 /\ poolErrs' = poolErrs \cup {"bad"} /\ UNCHANGED <<srcClosed, srcErrs>>
              \/ script[s][n] = "err" /\ S!To(w, "end") /\ lock' = [lock EXCEPT ![s] = 0] /\ UNCHANGED poolErrs
                 /\ srcClosed' = [srcClosed EXCEPT ![s] = TRUE] /\ srcErrs' = [srcErrs EXCEPT ![s] = srcErrs[s] \cup {<<s, n>>}]
    BY <1>2, <1>3, <1>8, <2>1 DEF S!Read, S!mapPullProcess, Replies
  <2> QED
    BY <1>2, <1>3, <1>4, <1>6, <2>1, <2>2 DEF Answer
<1> QED
  BY <1>7, <1>8

\* The errors a source has given are kept.
LEMMA ErrorsKeptNext == ASSUME StreamInv, S!Next PROVE ErrorsKept'
<1>1. StreamTyped /\ WorkersStart /\ ErrorsKept
  BY DEF StreamInv
<1>2. /\ UNCHANGED <<how, size, script>> /\ S!Sources' = S!Sources /\ S!Workers' = S!Workers
      /\ \A w : S!SourceOf(w)' = S!SourceOf(w)
  BY StreamFixed DEF S!Workers
<1>3. /\ \A w \in S!Workers : worker[w] # "idle" => S!SourceOf(w) \in S!Sources
      /\ how # "merge" => S!Sources = {1}
      /\ how = "merge" => \A w : S!SourceOf(w) = w
      /\ 0 \notin S!Workers
  BY <1>1, StreamShape DEF WorkersStart, S!Workers, S!SourceOf
<1>4. /\ worker \in [S!Workers -> {"idle", "pull", "read", "send", "end", "done"}]
      /\ taken \in [S!Sources -> Nat] /\ srcClosed \in [S!Sources -> BOOLEAN] /\ DOMAIN srcErrs = S!Sources
      /\ DOMAIN lock = S!Sources
  BY <1>1 DEF StreamTyped, WorkersTyped, SourcesTyped
<1>5. ASSUME UNCHANGED <<taken, srcErrs>>, \A s \in S!Sources : srcClosed[s] => srcClosed'[s]
      PROVE  \A s \in S!Sources : \A n \in 1..taken'[s] : script[s][n] = "err" => <<s, n>> \in srcErrs'[s] /\ srcClosed'[s]
  BY <1>1, <1>5 DEF ErrorsKept
<1>6. \A s : S!CloseSource(s) => \A u \in S!Sources : srcClosed[u] => srcClosed'[u]
  BY <1>4 DEF S!CloseSource
<1>7. ASSUME UNCHANGED <<taken, srcErrs, lock>>, \A s \in S!Sources : srcClosed[s] => srcClosed'[s],
             \A w \in S!Workers : worker'[w] \in {"done", "read"} => worker'[w] = worker[w],
             poolErrs \subseteq poolErrs'
      PROVE  ErrorsKept'
  <2>1. how = "merge" => \A w \in S!Workers : worker'[w] = "done" => srcErrs'[w] \subseteq poolErrs'
    BY <1>1, <1>7 DEF ErrorsKept
  <2>2. \A w \in S!Workers : worker'[w] = "read" => lock'[S!SourceOf(w)] = w
    BY <1>1, <1>7 DEF ErrorsKept
  <2> QED
    BY <1>2, <1>5, <1>7, <2>1, <2>2 DEF ErrorsKept
<1>8. ASSUME NEW r \in Readers, S!Reading(r) \/ S!CloseStep(r) \/ S!Close(r) \/ S!Cancel(r) PROVE ErrorsKept'
  <2>1. UNCHANGED <<taken, srcErrs, lock, poolErrs>>
    BY <1>8 DEF S!Reading, S!ReadCheck, S!ReadOp, S!Receive, S!CloseStep, S!CloseBegin, S!CloseHook,
       S!readOneHandleError, S!Close, S!Cancel, S!pool, S!sources
  <2>2. UNCHANGED srcClosed \/ S!CloseSource(1)
    BY <1>8 DEF S!Reading, S!ReadCheck, S!ReadOp, S!Receive, S!CloseStep, S!CloseBegin, S!CloseHook,
       S!readOneHandleError, S!Close, S!Cancel, S!sources
  <2>3. \A s \in S!Sources : srcClosed[s] => srcClosed'[s]
    BY <1>6, <2>2
  <2>4. \/ UNCHANGED worker
        \/ \E w \in S!Workers : worker' = [worker EXCEPT ![w] = "pull"]
        \/ worker' = [w \in S!Workers |-> IF w <= S!Shape.workers /\ how # "merge" THEN "pull" ELSE "idle"]
    <3>1. CASE S!ReadOp(r)
      BY <3>1 DEF S!ReadOp, S!StartPump
    <3>2. CASE S!Receive(r)
      BY <3>2 DEF S!Receive, S!Take
    <3> QED
      BY <1>8, <3>1, <3>2 DEF S!Reading, S!ReadCheck, S!CloseStep, S!CloseBegin, S!CloseHook,
         S!readOneHandleError, S!Close, S!Cancel, S!pool
  <2>5. \A w \in S!Workers : worker'[w] \in {"done", "read"} => worker'[w] = worker[w]
    BY <1>4, <2>4
  <2> QED
    BY <1>7, <2>1, <2>3, <2>5
<1>9. ASSUME S!OpenSource \/ S!CloseChannel PROVE ErrorsKept'
  <2>1. UNCHANGED <<taken, srcErrs, lock, poolErrs, srcClosed>> /\ (UNCHANGED worker \/ S!To(opened + 1, "pull"))
    BY <1>9 DEF S!OpenSource, S!CloseChannel, S!sources
  <2>2. \A w \in S!Workers : worker'[w] \in {"done", "read"} => worker'[w] = worker[w]
    BY <1>4, <2>1 DEF S!To
  <2> QED
    BY <1>7, <2>1, <2>2
<1>10. ASSUME NEW w \in S!Workers, S!Send(w) PROVE ErrorsKept'
  <2>1. UNCHANGED <<taken, srcErrs, lock, poolErrs, srcClosed>> /\ (S!To(w, "end") \/ S!To(w, "pull"))
    BY <1>10 DEF S!Send, S!sources
  <2>2. \A v \in S!Workers : worker'[v] \in {"done", "read"} => worker'[v] = worker[v]
    BY <1>4, <2>1 DEF S!To
  <2> QED
    BY <1>7, <2>1, <2>2
<1>11. ASSUME NEW w \in S!Workers, S!WorkerEnd(w) PROVE ErrorsKept'
  <2>1. UNCHANGED <<taken, srcErrs, lock>> /\ S!To(w, "done") /\ poolErrs \subseteq poolErrs'
        /\ (how = "merge" => srcErrs[w] \subseteq poolErrs')
    BY <1>11 DEF S!WorkerEnd
  <2>2. \A s \in S!Sources : srcClosed[s] => srcClosed'[s]
    BY <1>6, <1>11 DEF S!WorkerEnd
  <2>3. \A v \in S!Workers : worker'[v] = IF v = w THEN "done" ELSE worker[v]
    BY <1>4, <2>1 DEF S!To
  <2>4. how = "merge" => \A v \in S!Workers : worker'[v] = "done" => srcErrs'[v] \subseteq poolErrs'
    BY <1>1, <2>1, <2>3 DEF ErrorsKept
  <2>5. \A v \in S!Workers : worker'[v] = "read" => lock'[S!SourceOf(v)] = v
    BY <1>1, <2>1, <2>3 DEF ErrorsKept
  <2> QED
    BY <1>2, <1>5, <2>1, <2>2, <2>4, <2>5 DEF ErrorsKept
<1>12. ASSUME NEW w \in S!Workers, S!Pull(w) PROVE ErrorsKept'
  <2>1. UNCHANGED <<taken, srcErrs, poolErrs>>
    BY <1>12 DEF S!Pull
  <2>2. CASE S!To(w, "end") /\ UNCHANGED lock /\ (UNCHANGED srcClosed \/ S!CloseSource(S!SourceOf(w)))
    <3>1. \A s \in S!Sources : srcClosed[s] => srcClosed'[s]
      BY <1>6, <2>2
    <3>2. \A v \in S!Workers : worker'[v] \in {"done", "read"} => worker'[v] = worker[v]
      BY <1>4, <2>2 DEF S!To
    <3> QED
      BY <1>7, <2>1, <2>2, <3>1, <3>2
  <2>3. CASE S!To(w, "read") /\ lock' = [lock EXCEPT ![S!SourceOf(w)] = w] /\ UNCHANGED srcClosed
    <3>1. \A v \in S!Workers : worker'[v] = IF v = w THEN "read" ELSE worker[v]
      BY <1>4, <2>3 DEF S!To
    <3>2. S!SourceOf(w) \in S!Sources /\ lock[S!SourceOf(w)] = 0
      BY <1>3, <1>12 DEF S!Pull
    <3>3. \A v \in S!Workers : worker'[v] = "read" => lock'[S!SourceOf(v)] = v
      BY <1>1, <1>3, <1>4, <2>3, <3>1, <3>2 DEF ErrorsKept
    <3>4. how = "merge" => \A v \in S!Workers : worker'[v] = "done" => srcErrs'[v] \subseteq poolErrs'
      BY <1>1, <2>1, <3>1 DEF ErrorsKept
    <3> QED
      BY <1>2, <1>5, <2>1, <2>3, <3>3, <3>4 DEF ErrorsKept
  <2> QED
    BY <1>12, <2>2, <2>3 DEF S!Pull
<1>13. ASSUME NEW w \in S!Workers, S!Read(w) PROVE ErrorsKept'
  <2>1. PICK s : s = S!SourceOf(w) /\ s \in S!Sources
    BY <1>3, <1>13 DEF S!Read
  <2>2. PICK n : n = taken[s] + 1 /\ n \in Nat /\ taken[s] \in Nat
    BY <1>4, <2>1
  <2>3. poolErrs \subseteq poolErrs' /\ worker[w] = "read" /\ lock[s] = w
    BY <1>1, <1>13, <2>1 DEF S!Read, S!mapPullProcess, ErrorsKept
  <2>4. script[s] \in Seq(Replies) /\ Len(script[s]) \in Nat
    BY <1>1, <2>1 DEF StreamTyped, SourcesTyped
  <2>5. \A u \in S!Sources : u # s => taken'[u] = taken[u] /\ srcErrs'[u] = srcErrs[u] /\ srcClosed'[u] = srcClosed[u]
    BY <1>4, <1>13, <2>1 DEF S!Read
  <2>6. \/ taken'[s] = taken[s] /\ srcErrs'[s] = srcErrs[s] /\ (srcClosed[s] => srcClosed'[s])
        \/ /\ taken'[s] = n /\ srcErrs[s] \subseteq srcErrs'[s] /\ (srcClosed[s] => srcClosed'[s])
           /\ script[s][n] = "err" => <<s, n>> \in srcErrs'[s] /\ srcClosed'[s]
    <3>1. \A e : [taken EXCEPT ![s] = e][s] = e /\ [srcErrs EXCEPT ![s] = e][s] = e /\ [srcClosed EXCEPT ![s] = TRUE][s]
      BY <1>4, <2>1
    <3>2. Answer(w, s, n)
      BY <1>13, <2>1, <2>2, ReadAnswers
    <3>3. CASE script[s][n] = "err" /\ taken' = [taken EXCEPT ![s] = n]
               /\ srcErrs' = [srcErrs EXCEPT ![s] = srcErrs[s] \cup {<<s, n>>}] /\ srcClosed' = [srcClosed EXCEPT ![s] = TRUE]
      BY <3>1, <3>3
    <3>4. CASE script[s][n] # "err" /\ taken' = [taken EXCEPT ![s] = n] /\ UNCHANGED <<srcErrs, srcClosed>>
      BY <3>1, <3>4
    <3>5. CASE UNCHANGED taken /\ srcErrs'[s] = srcErrs[s] /\ (srcClosed[s] => srcClosed'[s])
      BY <3>5
    <3> QED
      BY <3>1, <3>2, <3>3, <3>4, <3>5 DEF Answer
  <2>7. \A u \in S!Sources : \A k \in 1..taken'[u] : script[u][k] = "err" => <<u, k>> \in srcErrs'[u] /\ srcClosed'[u]
    <3> SUFFICES ASSUME NEW u \in S!Sources, NEW k \in 1..taken'[u], script[u][k] = "err"
                 PROVE  <<u, k>> \in srcErrs'[u] /\ srcClosed'[u]
      OBVIOUS
    <3>1. CASE u # s
      BY <1>1, <2>5, <3>1 DEF ErrorsKept
    <3>2. CASE u = s /\ taken'[s] = n /\ k = n
      BY <2>2, <2>6, <3>2
    <3>3. CASE u = s /\ ~(taken'[s] = n /\ k = n)
      <4>1. k \in 1..taken[s]
        BY <2>2, <2>6, <3>3
      <4> QED
        BY <1>1, <2>1, <2>6, <3>3, <4>1 DEF ErrorsKept
    <3> QED
      BY <3>1, <3>2, <3>3
  <2>8. /\ \A v \in S!Workers : v # w => worker'[v] = worker[v]
        /\ worker'[w] \in {"read", "send", "pull", "end"}
        /\ worker'[w] = "read" => UNCHANGED lock
        /\ \A u \in S!Sources : u # s => lock'[u] = lock[u]
    BY <1>4, <1>13, <2>1, <2>3 DEF S!Read, S!To, S!mapPullProcess
  <2>9. \A v \in S!Workers : worker'[v] = "read" => lock'[S!SourceOf(v)] = v
    <3> SUFFICES ASSUME NEW v \in S!Workers, worker'[v] = "read" PROVE lock'[S!SourceOf(v)] = v
      OBVIOUS
    <3>1. worker[v] = "read" /\ S!SourceOf(v) \in S!Sources /\ lock[S!SourceOf(v)] = v
      BY <1>1, <1>3, <2>3, <2>8 DEF ErrorsKept
    <3>2. CASE v = w
      BY <2>8, <3>1, <3>2
    <3>3. CASE v # w
      BY <2>1, <2>3, <2>8, <3>1, <3>3
    <3> QED
      BY <3>2, <3>3
  <2>10. how = "merge" => \A v \in S!Workers : worker'[v] = "done" => srcErrs'[v] \subseteq poolErrs'
    <3> SUFFICES ASSUME how = "merge", NEW v \in S!Workers, worker'[v] = "done" PROVE srcErrs'[v] \subseteq poolErrs'
      OBVIOUS
    <3>1. v # w /\ worker[v] = "done" /\ v # s
      BY <1>3, <2>1, <2>8
    <3>2. S!SourceOf(v) = v /\ v \in S!Sources
      BY <1>3, <3>1
    <3> QED
      BY <1>1, <2>3, <2>5, <3>1, <3>2 DEF ErrorsKept
  <2> QED
    BY <1>2, <2>7, <2>9, <2>10 DEF ErrorsKept
<1> QED
  BY <1>8, <1>9, <1>10, <1>11, <1>12, <1>13 DEF S!Next, S!Working

\* Where a reader is says how far the close of its output has come.
LEMMA ReadersPlacedNext == ASSUME StreamInv, S!Next PROVE ReadersPlaced'
<1>1. StreamTyped /\ WorkersStart /\ ReadersPlaced
  BY DEF StreamInv
<1>2. S!Outs' = S!Outs /\ \A t : S!Output(t)' = S!Output(t)
  BY StreamFixed
<1>3. \A r \in Readers : S!Output(r) \in S!Outs
  BY <1>1, StreamShape
<1>4. /\ pc \in [Readers -> {"top", "op", "recv", "close", "hooks", "closed", "done", "panicked"}]
      /\ why \in [Readers -> {"", "ctx", "eof", "quit"}] /\ DOMAIN told = Readers
      /\ closed \in [S!Outs -> BOOLEAN] /\ closing \in [S!Outs -> {"no", "hooks", "done"}]
      /\ start \in [S!Outs -> Readers \cup {0, -1}] /\ canceled \in [S!Outs -> BOOLEAN]
      /\ DOMAIN outErrs = S!Outs /\ pump \in S!Outs \cup {0}
      /\ 0 \notin S!Outs /\ Readers \subseteq Nat \ {0}
  BY <1>1, StreamShape DEF StreamTyped, WorkersTyped, OutputsTyped, ReadersTyped
\* What ReadersPlaced says, part by part
<1> DEFINE Ended == {"close", "hooks", "closed", "done"}
<1>20. \A q \in Readers : why[q] # "" <=> pc[q] \in Ended
  BY <1>1 DEF ReadersPlaced
<1>21. \A q \in Readers : pc[q] = "recv" => start[S!Output(q)] \in Readers /\ pump # 0
  BY <1>1 DEF ReadersPlaced
<1>22. \A q \in Readers : pc[q] = "hooks" => closing[S!Output(q)] = "hooks"
  BY <1>1 DEF ReadersPlaced
<1>23. \A q, p \in Readers : pc[q] = "hooks" /\ pc[p] = "hooks" /\ S!Output(q) = S!Output(p) => q = p
  BY <1>1 DEF ReadersPlaced
<1>24. \A q \in Readers : pc[q] = "closed" => closing[S!Output(q)] # "no"
  BY <1>1 DEF ReadersPlaced
<1>25. \A q \in Readers : pc[q] = "done" => closing[S!Output(q)] = "done" /\ told[q] = outErrs[S!Output(q)]
  BY <1>1 DEF ReadersPlaced
<1>26. \A q \in Readers : pc[q] = "panicked" => start[S!Output(q)] = -1
  BY <1>1 DEF ReadersPlaced
<1>27. \A o \in S!Outs : (closing[o] # "no" <=> closed[o]) /\ (closing[o] # "no" <=> canceled[o])
  BY <1>1 DEF ReadersPlaced
<1>28. \A o \in S!Outs : closed[o] => \E q \in Readers : S!Output(q) = o /\ why[q] # ""
  BY <1>1 DEF ReadersPlaced
<1>29. ASSUME \A q \in Readers : why'[q] # "" <=> pc'[q] \in Ended,
              \A q \in Readers : pc'[q] = "recv" => start'[S!Output(q)] \in Readers /\ pump' # 0,
              \A q \in Readers : pc'[q] = "hooks" => closing'[S!Output(q)] = "hooks",
              \A q, p \in Readers : pc'[q] = "hooks" /\ pc'[p] = "hooks" /\ S!Output(q) = S!Output(p) => q = p,
              \A q \in Readers : pc'[q] = "closed" => closing'[S!Output(q)] # "no",
              \A q \in Readers : pc'[q] = "done" => closing'[S!Output(q)] = "done" /\ told'[q] = outErrs'[S!Output(q)],
              \A q \in Readers : pc'[q] = "panicked" => start'[S!Output(q)] = -1,
              \A o \in S!Outs : (closing'[o] # "no" <=> closed'[o]) /\ (closing'[o] # "no" <=> canceled'[o]),
              \A o \in S!Outs : closed'[o] => \E q \in Readers : S!Output(q) = o /\ why'[q] # ""
       PROVE  ReadersPlaced'
  BY <1>2, <1>29 DEF ReadersPlaced
<1>5. CASE UNCHANGED <<S!outputs, pump, pc, why, told>>
  BY <1>1, <1>2, <1>5 DEF S!outputs, ReadersPlaced
\* A reader that goes on with the outputs as they are.
<1>6. ASSUME NEW r \in Readers, NEW l, pc' = [pc EXCEPT ![r] = l], UNCHANGED <<S!outputs, pump, told>>,
             l \in {"op", "top", "close"}, pc[r] \in {"top", "recv", "op"},
             IF l = "close" THEN \E e \in {"ctx", "eof", "quit"} : why' = [why EXCEPT ![r] = e] ELSE UNCHANGED why
      PROVE  ReadersPlaced'
  <2>1. UNCHANGED <<closed, closing, start, canceled, outErrs, pump, told>>
    BY <1>6 DEF S!outputs
  <2>2. \A q \in Readers : pc'[q] = IF q = r THEN l ELSE pc[q]
    BY <1>4, <1>6
  <2>3. \A q \in Readers : /\ q # r => why'[q] = why[q]
                           /\ l = "close" => why'[r] # ""
                           /\ l # "close" => why'[r] = why[r]
    BY <1>4, <1>6
  <2>4. why[r] = ""
    BY <1>6, <1>20
  <2>40. \A q \in Readers : why'[q] # "" <=> pc'[q] \in Ended
    BY <1>4, <1>6, <1>20, <2>2, <2>3, <2>4
  <2>41. \A q \in Readers : pc'[q] = "recv" => start'[S!Output(q)] \in Readers /\ pump' # 0
    BY <1>6, <1>21, <2>1, <2>2
  <2>42. \A q \in Readers : pc'[q] = "hooks" => closing'[S!Output(q)] = "hooks"
    BY <1>6, <1>22, <2>1, <2>2
  <2>43. \A q, p \in Readers : pc'[q] = "hooks" /\ pc'[p] = "hooks" /\ S!Output(q) = S!Output(p) => q = p
    BY <1>6, <1>23, <2>2
  <2>44. \A q \in Readers : pc'[q] = "closed" => closing'[S!Output(q)] # "no"
    BY <1>6, <1>24, <2>1, <2>2
  <2>45. \A q \in Readers : pc'[q] = "done" => closing'[S!Output(q)] = "done" /\ told'[q] = outErrs'[S!Output(q)]
    BY <1>6, <1>25, <2>1, <2>2
  <2>46. \A q \in Readers : pc'[q] = "panicked" => start'[S!Output(q)] = -1
    BY <1>6, <1>26, <2>1, <2>2
  <2>47. \A u \in S!Outs : (closing'[u] # "no" <=> closed'[u]) /\ (closing'[u] # "no" <=> canceled'[u])
    BY <1>27, <2>1
  <2>48. \A u \in S!Outs : closed'[u] => \E q \in Readers : S!Output(q) = u /\ why'[q] # ""
    BY <1>28, <2>1, <2>3, <2>4
  <2> QED
    BY <1>29, <2>40, <2>41, <2>42, <2>43, <2>44, <2>45, <2>46, <2>47, <2>48
<1>7. ASSUME NEW r \in Readers, S!ReadCheck(r) \/ S!Close(r) PROVE ReadersPlaced'
  <2>1. UNCHANGED <<S!outputs, pump, told>>
    BY <1>7 DEF S!ReadCheck, S!Close, S!pool
  <2>2. \E l \in {"op", "close"} : /\ pc' = [pc EXCEPT ![r] = l] /\ pc[r] = "top"
          /\ IF l = "close" THEN \E e \in {"ctx", "eof", "quit"} : why' = [why EXCEPT ![r] = e] ELSE UNCHANGED why
    BY <1>7 DEF S!ReadCheck, S!Close, S!Fail, S!Goto
  <2> QED
    BY <1>6, <2>1, <2>2
<1>8. ASSUME NEW r \in Readers, S!Receive(r) PROVE ReadersPlaced'
  <2>1. UNCHANGED <<S!outputs, pump, told>>
    BY <1>8 DEF S!Receive
  <2>2. \E l \in {"top", "close"} : /\ pc' = [pc EXCEPT ![r] = l] /\ pc[r] = "recv"
          /\ IF l = "close" THEN \E e \in {"ctx", "eof", "quit"} : why' = [why EXCEPT ![r] = e] ELSE UNCHANGED why
    BY <1>8 DEF S!Receive, S!Fail, S!Goto
  <2> QED
    BY <1>6, <2>1, <2>2
<1>9. ASSUME NEW r \in Readers, S!ReadOp(r) PROVE ReadersPlaced'
  <2>1. PICK o \in S!Outs : o = S!Output(r)
    BY <1>3
  <2>2. UNCHANGED <<closed, closing, canceled, outErrs, why, told>> /\ pc[r] = "op"
    BY <1>9 DEF S!ReadOp
  <2>3. CASE start[o] = -1 /\ S!Goto(r, "panicked") /\ UNCHANGED <<start, pump>>
    <3>1. \A q \in Readers : pc'[q] = IF q = r THEN "panicked" ELSE pc[q]
      BY <1>4, <2>3 DEF S!Goto
    <3>40. \A q \in Readers : why'[q] # "" <=> pc'[q] \in Ended
      BY <1>20, <2>2, <3>1
    <3>41. \A q \in Readers : pc'[q] = "recv" => start'[S!Output(q)] \in Readers /\ pump' # 0
      BY <1>21, <2>3, <3>1
    <3>42. \A q \in Readers : pc'[q] = "hooks" => closing'[S!Output(q)] = "hooks"
      BY <1>22, <2>2, <3>1
    <3>43. \A q, p \in Readers : pc'[q] = "hooks" /\ pc'[p] = "hooks" /\ S!Output(q) = S!Output(p) => q = p
      BY <1>23, <3>1
    <3>44. \A q \in Readers : pc'[q] = "closed" => closing'[S!Output(q)] # "no"
      BY <1>24, <2>2, <3>1
    <3>45. \A q \in Readers : pc'[q] = "done" => closing'[S!Output(q)] = "done" /\ told'[q] = outErrs'[S!Output(q)]
      BY <1>25, <2>2, <3>1
    <3>46. \A q \in Readers : pc'[q] = "panicked" => start'[S!Output(q)] = -1
      BY <1>26, <2>1, <2>3, <3>1
    <3>47. \A u \in S!Outs : (closing'[u] # "no" <=> closed'[u]) /\ (closing'[u] # "no" <=> canceled'[u])
      BY <1>27, <2>2
    <3>48. \A u \in S!Outs : closed'[u] => \E q \in Readers : S!Output(q) = u /\ why'[q] # ""
      BY <1>28, <2>2
    <3> QED
      BY <1>29, <3>40, <3>41, <3>42, <3>43, <3>44, <3>45, <3>46, <3>47, <3>48
  <2>4. CASE start[o] # -1 /\ S!Goto(r, "recv") /\ start' = [start EXCEPT ![o] = IF @ = 0 THEN r ELSE @]
             /\ ((pump # 0 /\ UNCHANGED pump) \/ pump' = o)
    <3>1. \A q \in Readers : pc'[q] = IF q = r THEN "recv" ELSE pc[q]
      BY <1>4, <2>4 DEF S!Goto
    <3>2. start'[o] \in Readers /\ pump' # 0 /\ \A u \in S!Outs : (start[u] \in Readers \cup {-1}) => start'[u] = start[u]
      BY <1>4, <2>4
    <3>40. \A q \in Readers : why'[q] # "" <=> pc'[q] \in Ended
      BY <1>20, <2>2, <3>1
    <3>41. \A q \in Readers : pc'[q] = "recv" => start'[S!Output(q)] \in Readers /\ pump' # 0
      BY <1>3, <1>21, <2>1, <3>1, <3>2
    <3>42. \A q \in Readers : pc'[q] = "hooks" => closing'[S!Output(q)] = "hooks"
      BY <1>22, <2>2, <3>1
    <3>43. \A q, p \in Readers : pc'[q] = "hooks" /\ pc'[p] = "hooks" /\ S!Output(q) = S!Output(p) => q = p
      BY <1>23, <3>1
    <3>44. \A q \in Readers : pc'[q] = "closed" => closing'[S!Output(q)] # "no"
      BY <1>24, <2>2, <3>1
    <3>45. \A q \in Readers : pc'[q] = "done" => closing'[S!Output(q)] = "done" /\ told'[q] = outErrs'[S!Output(q)]
      BY <1>25, <2>2, <3>1
    <3>46. \A q \in Readers : pc'[q] = "panicked" => start'[S!Output(q)] = -1
      BY <1>3, <1>26, <3>1, <3>2
    <3>47. \A u \in S!Outs : (closing'[u] # "no" <=> closed'[u]) /\ (closing'[u] # "no" <=> canceled'[u])
      BY <1>27, <2>2
    <3>48. \A u \in S!Outs : closed'[u] => \E q \in Readers : S!Output(q) = u /\ why'[q] # ""
      BY <1>28, <2>2
    <3> QED
      BY <1>29, <3>40, <3>41, <3>42, <3>43, <3>44, <3>45, <3>46, <3>47, <3>48
  <2> QED
    BY <1>9, <2>1, <2>3, <2>4 DEF S!ReadOp, S!StartPump
<1>10. ASSUME NEW r \in Readers, S!CloseBegin(r) PROVE ReadersPlaced'
  <2>1. PICK o \in S!Outs : o = S!Output(r)
    BY <1>3
  <2>2. UNCHANGED <<outErrs, why, told, pump>> /\ pc[r] = "close"
    BY <1>10 DEF S!CloseBegin, S!pool
  <2>3. CASE closing[o] # "no" /\ S!Goto(r, "closed") /\ UNCHANGED <<closing, closed, canceled, start>>
    <3>1. \A q \in Readers : pc'[q] = IF q = r THEN "closed" ELSE pc[q]
      BY <1>4, <2>3 DEF S!Goto
    <3>40. \A q \in Readers : why'[q] # "" <=> pc'[q] \in Ended
      BY <1>20, <2>2, <3>1
    <3>41. \A q \in Readers : pc'[q] = "recv" => start'[S!Output(q)] \in Readers /\ pump' # 0
      BY <1>21, <2>2, <2>3, <3>1
    <3>42. \A q \in Readers : pc'[q] = "hooks" => closing'[S!Output(q)] = "hooks"
      BY <1>22, <2>3, <3>1
    <3>43. \A q, p \in Readers : pc'[q] = "hooks" /\ pc'[p] = "hooks" /\ S!Output(q) = S!Output(p) => q = p
      BY <1>23, <3>1
    <3>44. \A q \in Readers : pc'[q] = "closed" => closing'[S!Output(q)] # "no"
      BY <1>24, <2>1, <2>3, <3>1
    <3>45. \A q \in Readers : pc'[q] = "done" => closing'[S!Output(q)] = "done" /\ told'[q] = outErrs'[S!Output(q)]
      BY <1>25, <2>2, <2>3, <3>1
    <3>46. \A q \in Readers : pc'[q] = "panicked" => start'[S!Output(q)] = -1
      BY <1>26, <2>3, <3>1
    <3>47. \A u \in S!Outs : (closing'[u] # "no" <=> closed'[u]) /\ (closing'[u] # "no" <=> canceled'[u])
      BY <1>27, <2>3
    <3>48. \A u \in S!Outs : closed'[u] => \E q \in Readers : S!Output(q) = u /\ why'[q] # ""
      BY <1>28, <2>2, <2>3
    <3> QED
      BY <1>29, <3>40, <3>41, <3>42, <3>43, <3>44, <3>45, <3>46, <3>47, <3>48
  <2>4. CASE /\ closing[o] = "no" /\ closing' = [closing EXCEPT ![o] = "hooks"] /\ closed' = [closed EXCEPT ![o] = TRUE]
             /\ canceled' = [canceled EXCEPT ![o] = TRUE] /\ start' = [start EXCEPT ![o] = IF @ = 0 THEN -1 ELSE @]
             /\ S!Goto(r, "hooks")
    <3>1. \A q \in Readers : pc'[q] = IF q = r THEN "hooks" ELSE pc[q]
      BY <1>4, <2>4 DEF S!Goto
    <3>2. \A u \in S!Outs : /\ closing'[u] = IF u = o THEN "hooks" ELSE closing[u]
                            /\ closed'[u] = (u = o \/ closed[u])
                            /\ canceled'[u] = (u = o \/ canceled[u])
                            /\ start[u] \in Readers \cup {-1} => start'[u] = start[u]
      BY <1>4, <2>4
    <3>40. \A q \in Readers : why'[q] # "" <=> pc'[q] \in Ended
      BY <1>20, <2>2, <3>1
    <3>41. \A q \in Readers : pc'[q] = "recv" => start'[S!Output(q)] \in Readers /\ pump' # 0
      BY <1>3, <1>21, <2>2, <3>1, <3>2
    <3>42. \A q \in Readers : pc'[q] = "hooks" => closing'[S!Output(q)] = "hooks"
      BY <1>3, <1>22, <2>1, <3>1, <3>2
    <3>43. \A q, p \in Readers : pc'[q] = "hooks" /\ pc'[p] = "hooks" /\ S!Output(q) = S!Output(p) => q = p
      BY <1>22, <1>23, <2>1, <2>4, <3>1
    <3>44. \A q \in Readers : pc'[q] = "closed" => closing'[S!Output(q)] # "no"
      BY <1>3, <1>24, <3>1, <3>2
    <3>45. \A q \in Readers : pc'[q] = "done" => closing'[S!Output(q)] = "done" /\ told'[q] = outErrs'[S!Output(q)]
      BY <1>3, <1>25, <2>1, <2>2, <2>4, <3>1, <3>2
    <3>46. \A q \in Readers : pc'[q] = "panicked" => start'[S!Output(q)] = -1
      BY <1>3, <1>26, <3>1, <3>2
    <3>47. \A u \in S!Outs : (closing'[u] # "no" <=> closed'[u]) /\ (closing'[u] # "no" <=> canceled'[u])
      BY <1>27, <3>2
    <3>48. \A u \in S!Outs : closed'[u] => \E q \in Readers : S!Output(q) = u /\ why'[q] # ""
      BY <1>20, <1>28, <2>1, <2>2, <3>2
    <3> QED
      BY <1>29, <3>40, <3>41, <3>42, <3>43, <3>44, <3>45, <3>46, <3>47, <3>48
  <2> QED
    BY <1>10, <2>1, <2>3, <2>4 DEF S!CloseBegin
<1>11. ASSUME NEW r \in Readers, S!CloseHook(r) PROVE ReadersPlaced'
  <2>1. PICK o \in S!Outs : o = S!Output(r)
    BY <1>3
  <2>2. UNCHANGED <<closed, start, canceled, why, told, pump>> /\ pc[r] = "hooks"
    BY <1>11 DEF S!CloseHook, S!pool
  <2>3. \A q \in Readers : pc'[q] = IF q = r THEN "closed" ELSE pc[q]
    BY <1>4, <1>11 DEF S!CloseHook, S!Goto
  <2>4. \A u \in S!Outs : /\ closing'[u] = IF u = o THEN "done" ELSE closing[u]
                          /\ u # o => outErrs'[u] = outErrs[u]
    BY <1>4, <1>11, <2>1 DEF S!CloseHook
  <2>5. closing[o] = "hooks"
    BY <1>22, <2>1, <2>2
  <2>40. \A q \in Readers : why'[q] # "" <=> pc'[q] \in Ended
    BY <1>20, <2>2, <2>3
  <2>41. \A q \in Readers : pc'[q] = "recv" => start'[S!Output(q)] \in Readers /\ pump' # 0
    BY <1>21, <2>2, <2>3
  <2>42. \A q \in Readers : pc'[q] = "hooks" => closing'[S!Output(q)] = "hooks"
    BY <1>3, <1>22, <1>23, <2>1, <2>2, <2>3, <2>4
  <2>43. \A q, p \in Readers : pc'[q] = "hooks" /\ pc'[p] = "hooks" /\ S!Output(q) = S!Output(p) => q = p
    BY <1>23, <2>3
  <2>44. \A q \in Readers : pc'[q] = "closed" => closing'[S!Output(q)] # "no"
    BY <1>3, <1>24, <2>1, <2>3, <2>4
  <2>45. \A q \in Readers : pc'[q] = "done" => closing'[S!Output(q)] = "done" /\ told'[q] = outErrs'[S!Output(q)]
    BY <1>3, <1>25, <2>1, <2>2, <2>3, <2>4, <2>5
  <2>46. \A q \in Readers : pc'[q] = "panicked" => start'[S!Output(q)] = -1
    BY <1>26, <2>2, <2>3
  <2>47. \A u \in S!Outs : (closing'[u] # "no" <=> closed'[u]) /\ (closing'[u] # "no" <=> canceled'[u])
    BY <1>27, <2>2, <2>4, <2>5
  <2>48. \A u \in S!Outs : closed'[u] => \E q \in Readers : S!Output(q) = u /\ why'[q] # ""
    BY <1>28, <2>2
  <2> QED
    BY <1>29, <2>40, <2>41, <2>42, <2>43, <2>44, <2>45, <2>46, <2>47, <2>48
<1>12. ASSUME NEW r \in Readers, S!readOneHandleError(r) PROVE ReadersPlaced'
  <2>1. UNCHANGED <<S!outputs, why, pump>> /\ pc[r] = "closed" /\ closing[S!Output(r)] = "done"
    BY <1>12 DEF S!readOneHandleError, S!pool
  <2>2. \A q \in Readers : /\ pc'[q] = IF q = r THEN "done" ELSE pc[q]
                           /\ told'[q] = IF q = r THEN outErrs[S!Output(r)] ELSE told[q]
    BY <1>4, <1>12 DEF S!readOneHandleError, S!Goto
  <2>3. UNCHANGED <<closed, closing, start, canceled, outErrs>>
    BY <2>1 DEF S!outputs
  <2>40. \A q \in Readers : why'[q] # "" <=> pc'[q] \in Ended
    BY <1>20, <2>1, <2>2
  <2>41. \A q \in Readers : pc'[q] = "recv" => start'[S!Output(q)] \in Readers /\ pump' # 0
    BY <1>21, <2>1, <2>2, <2>3
  <2>42. \A q \in Readers : pc'[q] = "hooks" => closing'[S!Output(q)] = "hooks"
    BY <1>22, <2>2, <2>3
  <2>43. \A q, p \in Readers : pc'[q] = "hooks" /\ pc'[p] = "hooks" /\ S!Output(q) = S!Output(p) => q = p
    BY <1>23, <2>2
  <2>44. \A q \in Readers : pc'[q] = "closed" => closing'[S!Output(q)] # "no"
    BY <1>24, <2>2, <2>3
  <2>45. \A q \in Readers : pc'[q] = "done" => closing'[S!Output(q)] = "done" /\ told'[q] = outErrs'[S!Output(q)]
    BY <1>25, <2>1, <2>2, <2>3
  <2>46. \A q \in Readers : pc'[q] = "panicked" => start'[S!Output(q)] = -1
    BY <1>26, <2>2, <2>3
  <2>47. \A u \in S!Outs : (closing'[u] # "no" <=> closed'[u]) /\ (closing'[u] # "no" <=> canceled'[u])
    BY <1>27, <2>3
  <2>48. \A u \in S!Outs : closed'[u] => \E q \in Readers : S!Output(q) = u /\ why'[q] # ""
    BY <1>28, <2>1, <2>3
  <2> QED
    BY <1>29, <2>40, <2>41, <2>42, <2>43, <2>44, <2>45, <2>46, <2>47, <2>48
<1>13. ASSUME NEW r \in Readers, S!Cancel(r) PROVE ReadersPlaced'
  BY <1>5, <1>13 DEF S!Cancel, S!pool
<1>14. ASSUME S!OpenSource \/ S!CloseChannel \/ \E w \in S!Workers : S!Working(w) PROVE ReadersPlaced'
  BY <1>5, <1>14 DEF S!OpenSource, S!CloseChannel, S!Working, S!Pull, S!Read, S!Send, S!WorkerEnd, S!readers
<1> QED
  BY <1>7, <1>8, <1>9, <1>10, <1>11, <1>12, <1>13, <1>14 DEF S!Next, S!Reading, S!CloseStep

\* Undisturbed readers stop for want of items only.
LEMMA QuietNext == ASSUME StreamInv, S!Next PROVE Quiet'
<1> SUFFICES ASSUME S!Undisturbed' PROVE Quiet'
  BY DEF Quiet
<1>1. StreamTyped /\ WorkersStart /\ ReadersPlaced /\ ErrorsKept /\ Quiet /\ S!Undisturbed
  BY StreamCalm DEF StreamInv
<1>2. /\ UNCHANGED <<how, conf, size, script>> /\ S!Sources' = S!Sources /\ S!Workers' = S!Workers /\ S!Outs' = S!Outs
      /\ \A w : S!SourceOf(w)' = S!SourceOf(w)
      /\ \A t : S!Output(t)' = S!Output(t)
  BY StreamFixed DEF S!Workers
<1>3. /\ \A w \in S!Workers : worker[w] # "idle" => S!SourceOf(w) \in S!Sources
      /\ how # "merge" => S!Sources = {1} /\ 1 \in S!Workers /\ 1 <= S!Shape.workers /\ \A w : S!SourceOf(w) = 1
      /\ how = "merge" => \A w : S!SourceOf(w) = w
      /\ 0 \notin S!Workers /\ S!Workers \subseteq Nat
      /\ \A r \in Readers : S!Output(r) \in S!Outs
      /\ Readers \subseteq Nat \ {0} /\ 0 \notin Readers /\ -1 \notin Readers
      /\ how = "merge" => S!Sources \subseteq S!Workers
  <2>1. /\ \A w \in S!Workers : worker[w] # "idle" => S!SourceOf(w) \in S!Sources
        /\ how # "merge" => S!Sources = {1} /\ 1 \in S!Workers /\ 1 <= S!Shape.workers /\ \A w : S!SourceOf(w) = 1
        /\ how = "merge" => \A w : S!SourceOf(w) = w
        /\ 0 \notin S!Workers /\ S!Workers \subseteq Nat
        /\ \A r \in Readers : S!Output(r) \in S!Outs
    BY <1>1, StreamShape, StreamingAssumption DEF WorkersStart, S!Workers, S!SourceOf
  <2>2. Readers \subseteq Nat \ {0} /\ 0 \notin Readers /\ -1 \notin Readers
    BY StreamingAssumption
  <2>3. how = "merge" => S!Sources \subseteq S!Workers
    BY <1>1, StreamShape DEF StreamTyped, SourcesTyped, S!Sources, S!Workers
  <2> QED
    BY <2>1, <2>2, <2>3
<1>4. /\ worker \in [S!Workers -> {"idle", "pull", "read", "send", "end", "done"}]
      /\ taken \in [S!Sources -> Nat] /\ srcClosed \in [S!Sources -> BOOLEAN] /\ DOMAIN srcErrs = S!Sources
      /\ srcStart \in [S!Sources -> {"new", "live", "never"}] /\ DOMAIN lock = S!Sources
      /\ opened \in -1..size /\ size \in Nat
      /\ start \in [S!Outs -> Readers \cup {0, -1}] /\ why \in [Readers -> {"", "ctx", "eof", "quit"}]
      /\ closing \in [S!Outs -> {"no", "hooks", "done"}] /\ DOMAIN outErrs = S!Outs
  <2>1. size \in 1..MaxWorkers /\ MaxWorkers \in Nat
    BY <1>1, StreamShape DEF StreamTyped
  <2>2. /\ worker \in [S!Workers -> {"idle", "pull", "read", "send", "end", "done"}]
        /\ opened \in -1..size /\ size \in Nat
    BY <1>1, <2>1 DEF StreamTyped, WorkersTyped
  <2>3. /\ taken \in [S!Sources -> Nat] /\ srcClosed \in [S!Sources -> BOOLEAN] /\ DOMAIN srcErrs = S!Sources
        /\ srcStart \in [S!Sources -> {"new", "live", "never"}] /\ DOMAIN lock = S!Sources
    BY <1>1 DEF StreamTyped, SourcesTyped
  <2>4. /\ start \in [S!Outs -> Readers \cup {0, -1}] /\ why \in [Readers -> {"", "ctx", "eof", "quit"}]
        /\ closing \in [S!Outs -> {"no", "hooks", "done"}] /\ DOMAIN outErrs = S!Outs
    BY <1>1 DEF StreamTyped, OutputsTyped, ReadersTyped
  <2> QED
    BY <2>2, <2>3, <2>4
<1>5. \A r \in Readers : ctx[r] = "live" /\ ctx'[r] = "live" /\ why'[r] # "quit" /\ (why[r] # "" => why'[r] = why[r])
  BY <1>1, StreamCalm DEF S!Undisturbed
\* What Quiet says, part by part
<1>11. \A r \in Readers : why[r] # "" =>
         /\ chClosed /\ ch = <<>> /\ start[S!Output(r)] \in Readers
         /\ \E q \in Readers : S!Output(q) = S!Output(r) /\ why[q] = "eof"
  BY <1>1 DEF Quiet
<1>12. \A o \in S!Outs : start[o] # -1
  BY <1>1 DEF Quiet
<1>13. \A s \in S!Sources : srcClosed[s] => Finished(s) \/ S!Dropped
  BY <1>1 DEF Quiet
<1>14. \A w \in S!Workers : worker[w] \in {"end", "done"} => Finished(S!SourceOf(w)) \/ S!Dropped
  BY <1>1 DEF Quiet
<1>15. \A w \in S!Workers : worker[w] = "read" => ~srcClosed[S!SourceOf(w)]
  BY <1>1 DEF Quiet
<1>16. \A s \in S!Sources : srcStart[s] = "never" => chClosed \/ (how = "merge" /\ worker[s] = "done")
  BY <1>1 DEF Quiet
<1>17. \A o \in S!Outs : closing[o] = "done" =>
         poolErrs \subseteq outErrs[o] /\ (how # "merge" => srcErrs[1] \subseteq outErrs[o])
  BY <1>1 DEF Quiet
<1>18. how = "merge" /\ opened = -1 => \A w \in S!Workers : w <= size => worker[w] # "idle"
  BY <1>1 DEF Quiet
\* What ReadersPlaced says of the readers that stopped
<1>19. /\ \A r \in Readers : why[r] # "" <=> pc[r] \in {"close", "hooks", "closed", "done"}
       /\ \A o \in S!Outs : closed[o] \/ canceled[o] \/ closing[o] # "no" => \E r \in Readers : S!Output(r) = o /\ why[r] # ""
       /\ \A r \in Readers : pc[r] = "recv" => start[S!Output(r)] \in Readers
  BY <1>1 DEF ReadersPlaced
\* and what must be shown of the step
<1> DEFINE Finished1(s) == taken'[s] = Len(script[s]) \/ (taken'[s] > 0 /\ script[s][taken'[s]] = "err")
           Readers1 == \A r \in Readers : why'[r] # "" =>
                         /\ chClosed' /\ ch' = <<>> /\ start'[S!Output(r)] \in Readers
                         /\ \E q \in Readers : S!Output(q) = S!Output(r) /\ why'[q] = "eof"
           Outputs1 == /\ \A o \in S!Outs : start'[o] # -1
                       /\ \A o \in S!Outs : closing'[o] = "done" =>
                            poolErrs' \subseteq outErrs'[o] /\ (how # "merge" => srcErrs'[1] \subseteq outErrs'[o])
           Sources1 == /\ \A s \in S!Sources : srcClosed'[s] => Finished1(s) \/ S!Dropped'
                       /\ \A s \in S!Sources : srcStart'[s] = "never" => chClosed' \/ (how = "merge" /\ worker'[s] = "done")
           Workers1 == /\ \A w \in S!Workers : worker'[w] \in {"end", "done"} => Finished1(S!SourceOf(w)) \/ S!Dropped'
                       /\ \A w \in S!Workers : worker'[w] = "read" => ~srcClosed'[S!SourceOf(w)]
                       /\ how = "merge" /\ opened' = -1 => \A w \in S!Workers : w <= size => worker'[w] # "idle"
<1>20. ASSUME Readers1, Outputs1, Sources1, Workers1 PROVE Quiet'
  BY <1>2, <1>20 DEF Quiet, Finished
<1>22. (UNCHANGED taken => \A s : Finished1(s) <=> Finished(s)) /\ (UNCHANGED poolErrs => (S!Dropped' <=> S!Dropped))
  BY <1>2 DEF Finished, S!Dropped
<1> HIDE DEF Finished1, Readers1, Outputs1, Sources1, Workers1
\* A worker runs before any of the readers has stopped, and any of the outputs closed.
<1>21. ASSUME NEW w \in S!Workers, worker[w] \notin {"idle", "done"}
       PROVE  /\ S!PumpLive /\ ~chClosed /\ pump # 0
              /\ \A r \in Readers : why[r] = ""
              /\ \A o \in S!Outs : closing[o] = "no"
  <2>1. S!PumpLive /\ ~chClosed /\ pump # 0
    BY <1>1, <1>21, PumpRuns DEF WorkersStart
  <2>2. \A r \in Readers : why[r] = ""
    BY <1>11, <2>1
  <2>3. \A o \in S!Outs : closing[o] = "no"
    BY <1>19, <2>2
  <2> QED
    BY <2>1, <2>2, <2>3
<1>23. poolErrs \subseteq poolErrs' => (S!Dropped => S!Dropped')
  BY <1>2 DEF S!Dropped
\* The sources and the workers, when only the readers act, and the readers, when only the workers do
<1>24. ASSUME UNCHANGED <<taken, srcClosed, srcStart, poolErrs, worker, opened, chClosed>> PROVE Sources1 /\ Workers1
  BY <1>13, <1>14, <1>15, <1>16, <1>18, <1>22, <1>24 DEF Sources1, Workers1
<1>25. ASSUME UNCHANGED <<why, start>>, chClosed => chClosed' /\ UNCHANGED ch PROVE Readers1
  BY <1>11, <1>25 DEF Readers1
<1>26. ASSUME UNCHANGED <<start, closing, outErrs, poolErrs, srcErrs>> PROVE Outputs1
  BY <1>12, <1>17, <1>26 DEF Outputs1
<1>27. ASSUME UNCHANGED <<start, closing, outErrs>>, \A o \in S!Outs : closing[o] = "no" PROVE Outputs1
  BY <1>12, <1>27 DEF Outputs1
\* The readers
<1>30. ASSUME NEW r \in Readers, S!ReadCheck(r) PROVE Quiet'
  <2>1. /\ UNCHANGED <<taken, srcClosed, srcStart, poolErrs, worker, opened, chClosed, ch, srcErrs>>
        /\ UNCHANGED <<start, closing, outErrs>>
    BY <1>30 DEF S!ReadCheck, S!sources, S!pool, S!outputs
  <2>2. \A q \in Readers : q # r => why'[q] = why[q]
    BY <1>4, <1>30 DEF S!ReadCheck, S!Fail
  <2>3. why'[r] # "" => why'[r] = "eof" /\ \E q \in Readers : S!Output(q) = S!Output(r) /\ why[q] # ""
    <3>1. CASE closed[S!Output(r)] /\ S!Fail(r, "eof")
      BY <1>3, <1>4, <1>19, <3>1 DEF S!Fail
    <3>2. CASE UNCHANGED why /\ pc[r] = "top"
      BY <1>19, <3>2
    <3> QED
      BY <1>5, <1>30, <3>1, <3>2 DEF S!ReadCheck
  <2>4. Readers1
    <3>1. ASSUME NEW q \in Readers, why[q] # ""
          PROVE  \E p \in Readers : S!Output(p) = S!Output(q) /\ why'[p] = "eof"
      <4>1. PICK p \in Readers : S!Output(p) = S!Output(q) /\ why[p] = "eof"
        BY <1>11, <3>1
      <4>2. why'[p] = "eof"
        BY <1>5, <4>1
      <4> QED
        BY <4>1, <4>2
    <3>2. ASSUME NEW q \in Readers, why'[q] # "" PROVE \E p \in Readers : S!Output(p) = S!Output(q) /\ why[p] # ""
      BY <2>2, <2>3, <3>2
    <3>3. ASSUME NEW q \in Readers, why'[q] # ""
          PROVE  /\ chClosed' /\ ch' = <<>> /\ start'[S!Output(q)] \in Readers
                 /\ \E p \in Readers : S!Output(p) = S!Output(q) /\ why'[p] = "eof"
      <4>1. PICK p \in Readers : S!Output(p) = S!Output(q) /\ why[p] # ""
        BY <3>2, <3>3
      <4>2. chClosed /\ ch = <<>> /\ start[S!Output(p)] \in Readers
        BY <1>11, <4>1
      <4>3. PICK t \in Readers : S!Output(t) = S!Output(p) /\ why'[t] = "eof"
        BY <3>1, <4>1
      <4> QED
        BY <2>1, <4>1, <4>2, <4>3
    <3> QED
      BY <3>3 DEF Readers1
  <2> QED
    BY <1>20, <1>24, <1>26, <2>1, <2>4
<1>31. ASSUME NEW r \in Readers, S!ReadOp(r) PROVE Quiet'
  <2>1. UNCHANGED <<taken, srcClosed, srcStart, poolErrs, opened, chClosed, ch, srcErrs, closing, outErrs, why>> /\ pc[r] = "op"
    BY <1>31 DEF S!ReadOp, S!sources
  <2>2. PICK o \in S!Outs : o = S!Output(r)
    BY <1>3
  <2>3. UNCHANGED start \/ start' = [start EXCEPT ![o] = IF @ = 0 THEN r ELSE @]
    BY <1>31, <2>2 DEF S!ReadOp
  <2>4. \A u \in S!Outs : start'[u] # -1 /\ (start[u] \in Readers => start'[u] = start[u])
    BY <1>3, <1>4, <1>12, <2>3
  <2>5. Readers1
    BY <1>3, <1>11, <2>1, <2>4 DEF Readers1
  <2>6. Outputs1
    BY <1>17, <2>1, <2>4 DEF Outputs1
  <2>7. CASE UNCHANGED worker
    BY <1>20, <1>24, <2>1, <2>5, <2>6, <2>7
  <2>8. CASE pump = 0 /\ worker' = [w \in S!Workers |-> IF w <= S!Shape.workers /\ how # "merge" THEN "pull" ELSE "idle"]
    <3>1. opened = 0 /\ ~chClosed /\ \A w \in S!Workers : worker[w] = "idle"
      BY <1>1, <2>8 DEF WorkersStart
    <3>2. \A w \in S!Workers : worker'[w] \in {"pull", "idle"}
      BY <2>8
    <3>3. Workers1
      BY <2>1, <3>1, <3>2 DEF Workers1
    <3>4. \A s \in S!Sources : how = "merge" => worker[s] # "done"
      BY <1>3, <3>1
    <3>5. Sources1
      BY <1>13, <1>16, <1>22, <2>1, <3>1, <3>4 DEF Sources1
    <3> QED
      BY <1>20, <2>5, <2>6, <3>3, <3>5
  <2> QED
    BY <1>31, <2>7, <2>8 DEF S!ReadOp, S!StartPump
<1>32. ASSUME NEW r \in Readers, S!Receive(r) PROVE Quiet'
  <2>1. /\ UNCHANGED <<taken, srcClosed, srcStart, poolErrs, opened, chClosed, srcErrs>>
        /\ UNCHANGED <<start, closing, outErrs>> /\ pc[r] = "recv"
    BY <1>32 DEF S!Receive, S!sources, S!outputs
  <2>2. PICK o \in S!Outs : o = S!Output(r)
    BY <1>3
  <2>3. start[o] \in Readers
    BY <1>19, <2>1, <2>2
  <2>4. ASSUME S!Fail(r, "ctx") \/ S!Fail(r, "eof"), UNCHANGED <<ch, worker>>,
               \/ why'[r] = "eof" /\ chClosed /\ ch = <<>>
               \/ \E q \in Readers : S!Output(q) = o /\ why[q] # ""
        PROVE  Quiet'
    <3>1. \A q \in Readers : q # r => why'[q] = why[q]
      BY <1>4, <2>4 DEF S!Fail
    <3>3. ASSUME NEW q \in Readers, why[q] # ""
          PROVE  \E p \in Readers : S!Output(p) = S!Output(q) /\ why'[p] = "eof"
      <4>1. PICK p \in Readers : S!Output(p) = S!Output(q) /\ why[p] = "eof"
        BY <1>11, <3>3
      <4>2. why'[p] = "eof"
        BY <1>5, <4>1
      <4> QED
        BY <4>1, <4>2
    <3>4. ASSUME NEW q \in Readers, why'[q] # ""
          PROVE  /\ chClosed' /\ ch' = <<>> /\ start'[S!Output(q)] \in Readers
                 /\ \E p \in Readers : S!Output(p) = S!Output(q) /\ why'[p] = "eof"
      <4>1. CASE q # r
        BY <1>11, <2>1, <2>4, <3>1, <3>3, <3>4, <4>1
      <4>2. CASE q = r
        <5>1. CASE why'[r] = "eof" /\ chClosed /\ ch = <<>>
          BY <2>1, <2>2, <2>3, <2>4, <4>2, <5>1
        <5>2. CASE \E p \in Readers : S!Output(p) = o /\ why[p] # ""
          BY <1>11, <2>1, <2>2, <2>4, <3>3, <4>2, <5>2
        <5> QED
          BY <2>4, <5>1, <5>2
      <4> QED
        BY <4>1, <4>2
    <3>2. Readers1
      BY <3>4 DEF Readers1
    <3> QED
      BY <1>20, <1>24, <1>26, <2>1, <2>4, <3>2
  <2>5. CASE ~S!Live(o) /\ S!Fail(r, "ctx") /\ UNCHANGED <<ch, worker>>
    <3>1. canceled[o]
      BY <1>5, <2>3, <2>5 DEF S!Live
    <3>2. \E q \in Readers : S!Output(q) = o /\ why[q] # ""
      BY <1>19, <3>1
    <3> QED
      BY <2>4, <2>5, <3>2
  <2>6. CASE chClosed /\ ch = <<>> /\ S!Fail(r, "eof") /\ UNCHANGED <<ch, worker>>
    <3>1. why'[r] = "eof"
      BY <1>4, <2>6 DEF S!Fail
    <3> QED
      BY <2>4, <2>6, <3>1
  <2>7. CASE ch # <<>> /\ UNCHANGED <<why, worker>>
    <3>1. \A q \in Readers : why[q] = ""
      BY <1>11, <2>7
    <3>2. Readers1
      BY <2>7, <3>1 DEF Readers1
    <3> QED
      BY <1>20, <1>24, <1>26, <2>1, <2>7, <3>2
  <2>8. ASSUME UNCHANGED why, NEW w \in S!Workers, worker[w] = "send", worker' = [worker EXCEPT ![w] = "pull"]
        PROVE  Quiet'
    <3>1. (\A q \in Readers : why[q] = "") /\ ~chClosed
      BY <1>21, <2>8
    <3>2. Readers1
      BY <2>8, <3>1 DEF Readers1
    <3>3. \A v \in S!Workers : worker'[v] = IF v = w THEN "pull" ELSE worker[v]
      BY <1>4, <2>8
    <3>4. Workers1
      BY <1>14, <1>15, <1>18, <1>22, <2>1, <2>8, <3>3 DEF Workers1
    <3>5. Sources1
      <4>1. \A s \in S!Sources : how = "merge" /\ worker[s] = "done" => worker'[s] = "done"
        BY <1>3, <1>4, <2>8
      <4> QED
        BY <1>13, <1>16, <1>22, <2>1, <4>1 DEF Sources1
    <3> QED
      BY <1>20, <1>26, <2>1, <3>2, <3>4, <3>5
  <2> QED
    BY <1>32, <2>2, <2>5, <2>6, <2>7, <2>8 DEF S!Receive, S!Take
<1>33. ASSUME NEW r \in Readers, S!CloseBegin(r) PROVE Quiet'
  <2>1. UNCHANGED <<taken, srcClosed, srcStart, poolErrs, worker, opened, chClosed, ch, srcErrs, outErrs, why>> /\ pc[r] = "close"
    BY <1>33 DEF S!CloseBegin, S!sources, S!pool
  <2>2. PICK o \in S!Outs : o = S!Output(r)
    BY <1>3
  <2>3. start[o] \in Readers
    BY <1>11, <1>19, <2>1, <2>2
  <2>4. UNCHANGED start
    <3>1. 0 \notin Readers
      BY <1>3
    <3>2. [start EXCEPT ![o] = IF @ = 0 THEN -1 ELSE @] = start
      BY <1>4, <2>3, <3>1
    <3> QED
      BY <1>33, <2>2, <3>2 DEF S!CloseBegin
  <2>5. \A u \in S!Outs : closing'[u] = "done" => closing[u] = "done"
    BY <1>4, <1>33 DEF S!CloseBegin
  <2>6. Outputs1
    BY <1>12, <1>17, <2>1, <2>4, <2>5 DEF Outputs1
  <2> QED
    BY <1>20, <1>24, <1>25, <2>1, <2>4, <2>6
<1>34. ASSUME NEW r \in Readers, S!CloseHook(r) PROVE Quiet'
  <2>1. UNCHANGED <<taken, poolErrs, worker, opened, chClosed, ch, srcErrs, why, start, pump>> /\ pc[r] = "hooks"
    BY <1>34 DEF S!CloseHook, S!sources, S!pool
  <2>2. PICK o \in S!Outs : o = S!Output(r)
    BY <1>3
  <2>3. chClosed
    BY <1>11, <1>19, <2>1
  <2>4. \A w \in S!Workers : worker[w] \in {"idle", "done"}
    BY <1>1, <2>3 DEF WorkersStart
  <2>5. \A u \in S!Outs : closing'[u] = "done" =>
          poolErrs \subseteq outErrs'[u] /\ (how # "merge" => srcErrs[1] \subseteq outErrs'[u])
    <3>1. \A u \in S!Outs : u # o => closing'[u] = closing[u] /\ outErrs'[u] = outErrs[u]
      BY <1>4, <1>34, <2>2 DEF S!CloseHook
    <3>2. poolErrs \subseteq outErrs'[o] /\ (how # "merge" => srcErrs[1] \subseteq outErrs'[o])
      BY <1>4, <1>34, <2>2 DEF S!CloseHook
    <3> QED
      BY <1>17, <3>1, <3>2
  <2>6. Outputs1
    BY <1>12, <2>1, <2>5 DEF Outputs1
  <2>7. CASE UNCHANGED <<srcClosed, srcStart>>
    BY <1>20, <1>24, <1>25, <2>1, <2>6, <2>7
  <2>8. CASE how # "merge" /\ S!CloseSource(1)
    <3>1. worker[1] = "done"
      BY <1>1, <1>3, <2>3, <2>4, <2>8 DEF WorkersStart
    <3>2. Finished(1) \/ S!Dropped
      BY <1>3, <1>14, <2>8, <3>1
    <3>3. Sources1
      BY <1>3, <1>22, <2>1, <2>3, <2>8, <3>2 DEF Sources1
    <3>4. Workers1
      BY <1>14, <1>22, <2>1, <2>4, <2>8 DEF Workers1
    <3> QED
      BY <1>20, <1>25, <2>1, <2>6, <3>3, <3>4
  <2> QED
    BY <1>34, <2>7, <2>8 DEF S!CloseHook, S!sources
<1>35. ASSUME NEW r \in Readers, S!readOneHandleError(r) \/ S!Cancel(r) PROVE Quiet'
  BY <1>20, <1>24, <1>25, <1>26, <1>35 DEF S!readOneHandleError, S!Cancel, S!sources, S!pool, S!outputs
<1>36. ASSUME NEW r \in Readers, S!Close(r) PROVE Quiet'
  BY <1>4, <1>5, <1>36 DEF S!Close, S!Fail
\* The workers
<1>40. ASSUME S!OpenSource PROVE Quiet'
  <2>1. /\ UNCHANGED <<taken, srcClosed, srcStart, srcErrs, chClosed, ch, poolErrs>>
        /\ UNCHANGED <<start, closing, outErrs, why>> /\ how = "merge" /\ pump # 0 /\ opened >= 0
    BY <1>40 DEF S!OpenSource, S!sources, S!outputs, S!readers
  <2>2. ~chClosed /\ S!PumpLive
    <3>1. ~chClosed
      BY <1>1, <2>1 DEF WorkersStart
    <3> QED
      BY <1>1, <2>1, <3>1, PumpRuns
  <2>3. \A s \in S!Sources : s \in S!Workers
    BY <1>1, <2>1, StreamShape DEF StreamTyped, SourcesTyped, S!Sources, S!Workers
  <2>4. CASE opened = size /\ opened' = -1 /\ UNCHANGED worker
    <3>1. Workers1
      BY <1>1, <1>14, <1>15, <1>22, <2>1, <2>4 DEF Workers1, WorkersStart
    <3>2. Sources1
      BY <1>13, <1>16, <1>22, <2>1, <2>4 DEF Sources1
    <3> QED
      BY <1>20, <1>25, <1>26, <2>1, <3>1, <3>2
  <2>5. CASE opened < size /\ opened' = opened + 1 /\ S!To(opened + 1, "pull")
    <3>1. opened + 1 \in S!Workers /\ worker[opened + 1] = "idle" /\ opened' # -1
      <4>4. opened \in -1..size /\ size \in 1..MaxWorkers /\ MaxWorkers \in Nat
        BY <1>1, <1>4, StreamShape DEF StreamTyped
      <4>1. opened \in Nat /\ size \in Nat /\ opened + 1 <= size /\ size <= MaxWorkers /\ MaxWorkers \in Nat
        BY <2>1, <2>5, <4>4
      <4>2. opened + 1 \in S!Workers /\ ~(opened + 1 <= opened) /\ opened + 1 # -1
        BY <4>1 DEF S!Workers
      <4>3. worker[opened + 1] = "idle"
        BY <1>1, <2>1, <4>2 DEF WorkersStart
      <4> QED
        BY <2>5, <4>2, <4>3
    <3>2. \A v \in S!Workers : worker'[v] = IF v = opened + 1 THEN "pull" ELSE worker[v]
      BY <1>4, <2>5, <3>1 DEF S!To
    <3>3. Workers1
      BY <1>14, <1>15, <1>22, <2>1, <3>1, <3>2 DEF Workers1
    <3>4. Sources1
      BY <1>13, <1>16, <1>22, <2>1, <2>3, <3>1, <3>2 DEF Sources1
    <3> QED
      BY <1>20, <1>25, <1>26, <2>1, <3>3, <3>4
  <2> QED
    BY <1>40, <2>2, <2>4, <2>5 DEF S!OpenSource
<1>41. ASSUME S!CloseChannel PROVE Quiet'
  <2>1. /\ UNCHANGED <<taken, srcClosed, srcStart, srcErrs, ch, poolErrs, worker, opened>>
        /\ UNCHANGED <<start, closing, outErrs, why>> /\ chClosed' = TRUE
    BY <1>41 DEF S!CloseChannel, S!sources, S!outputs, S!readers
  <2>2. Sources1
    BY <1>13, <1>22, <2>1 DEF Sources1
  <2>3. Workers1
    BY <1>14, <1>15, <1>18, <1>22, <2>1 DEF Workers1
  <2> QED
    BY <1>20, <1>25, <1>26, <2>1, <2>2, <2>3
<1>42. ASSUME NEW w \in S!Workers, S!Working(w)
       PROVE  /\ worker[w] \notin {"idle", "done"} /\ UNCHANGED <<opened, chClosed, start, closing, outErrs, why>>
              /\ Readers1 /\ Outputs1
  <2>1. worker[w] \notin {"idle", "done"}
    BY <1>42 DEF S!Working, S!Pull, S!Read, S!Send, S!WorkerEnd
  <2>2. UNCHANGED <<opened, chClosed, start, closing, outErrs, why>>
    BY <1>42 DEF S!Working, S!Pull, S!Read, S!Send, S!WorkerEnd, S!outputs, S!readers
  <2>3. ~chClosed /\ \A o \in S!Outs : closing[o] = "no"
    BY <1>21, <2>1
  <2> QED
    BY <1>25, <1>27, <2>1, <2>2, <2>3
<1>43. ASSUME NEW w \in S!Workers, S!Pull(w) PROVE Quiet'
  <2>1. worker[w] = "pull" /\ S!PumpLive
    BY <1>21, <1>43 DEF S!Pull
  <2>2. UNCHANGED <<taken, poolErrs, opened, chClosed, srcClosed, srcStart>> /\ Readers1 /\ Outputs1
    BY <1>42, <1>43, <2>1 DEF S!Pull, S!Working
  <2>3. \E l \in {"end", "read"} : S!To(w, l) /\ (l = "end" <=> srcClosed[S!SourceOf(w)])
    BY <1>43, <2>1 DEF S!Pull
  <2>4. PICK l \in {"end", "read"} : /\ \A v \in S!Workers : worker'[v] = IF v = w THEN l ELSE worker[v]
                                     /\ l = "end" <=> srcClosed[S!SourceOf(w)]
    BY <1>4, <2>3 DEF S!To
  <2>5. S!SourceOf(w) \in S!Sources
    BY <1>3, <2>1
  <2>9. S!Dropped' <=> S!Dropped
    BY <1>22, <2>2
  <2>10. \A v \in S!Workers : worker'[v] \in {"end", "done"} => Finished1(S!SourceOf(v)) \/ S!Dropped'
    BY <1>13, <1>14, <1>22, <2>2, <2>4, <2>5, <2>9
  <2>11. \A v \in S!Workers : worker'[v] = "read" => ~srcClosed'[S!SourceOf(v)]
    BY <1>15, <2>2, <2>4
  <2>12. how = "merge" /\ opened' = -1 => \A v \in S!Workers : v <= size => worker'[v] # "idle"
    BY <1>18, <2>2, <2>4
  <2>6. Workers1
    BY <2>10, <2>11, <2>12 DEF Workers1
  <2>7. \A s \in S!Sources : how = "merge" /\ worker[s] = "done" => worker'[s] = "done"
    BY <1>3, <2>1, <2>4
  <2>8. Sources1
    BY <1>13, <1>16, <1>22, <2>2, <2>7 DEF Sources1
  <2> QED
    BY <1>20, <2>2, <2>6, <2>8
<1>44. ASSUME NEW w \in S!Workers, S!Send(w) PROVE Quiet'
  <2>1. worker[w] = "send" /\ S!PumpLive
    BY <1>21, <1>44 DEF S!Send
  <2>2. UNCHANGED <<taken, poolErrs, opened, chClosed, srcClosed, srcStart>> /\ Readers1 /\ Outputs1
    BY <1>42, <1>44 DEF S!Send, S!sources, S!Working
  <2>3. S!To(w, "pull")
    BY <1>44, <2>1 DEF S!Send
  <2>4. \A v \in S!Workers : worker'[v] = IF v = w THEN "pull" ELSE worker[v]
    BY <1>4, <2>3 DEF S!To
  <2>5. Workers1
    BY <1>14, <1>15, <1>18, <1>22, <2>2, <2>4 DEF Workers1
  <2>6. \A s \in S!Sources : how = "merge" /\ worker[s] = "done" => worker'[s] = "done"
    BY <1>3, <2>1, <2>4
  <2>7. Sources1
    BY <1>13, <1>16, <1>22, <2>2, <2>6 DEF Sources1
  <2> QED
    BY <1>20, <2>2, <2>5, <2>7
<1>45. ASSUME NEW w \in S!Workers, S!WorkerEnd(w) PROVE Quiet'
  <2>1. worker[w] = "end" /\ S!To(w, "done") /\ UNCHANGED <<taken, opened, chClosed>> /\ poolErrs \subseteq poolErrs'
    BY <1>45 DEF S!WorkerEnd
  <2>2. Readers1 /\ Outputs1
    BY <1>42, <1>45 DEF S!Working
  <2>3. \A v \in S!Workers : worker'[v] = IF v = w THEN "done" ELSE worker[v]
    BY <1>4, <2>1 DEF S!To
  <2>4. \A s \in S!Sources : how = "merge" /\ worker[s] = "done" => worker'[s] = "done"
    BY <1>3, <2>1, <2>3
  <2>5. (\A s : Finished1(s) <=> Finished(s)) /\ (S!Dropped => S!Dropped')
    BY <1>22, <1>23, <2>1
  <2>6. CASE how # "merge" /\ UNCHANGED <<srcClosed, srcStart>>
    <3>1. Workers1
      BY <1>14, <1>15, <2>1, <2>3, <2>5, <2>6 DEF Workers1
    <3>2. Sources1
      BY <1>13, <1>16, <2>1, <2>5, <2>6 DEF Sources1
    <3> QED
      BY <1>20, <2>2, <3>1, <3>2
  <2>7. CASE how = "merge" /\ S!CloseSource(w)
    <3>1. w \in S!Sources /\ S!SourceOf(w) = w /\ (Finished(w) \/ S!Dropped)
      BY <1>3, <1>14, <2>1, <2>7
    <3>2. \A s \in S!Sources : /\ srcClosed'[s] = (s = w \/ srcClosed[s])
                               /\ s # w => srcStart'[s] = srcStart[s]
      BY <1>4, <2>7 DEF S!CloseSource
    <3>3. worker'[w] = "done"
      BY <2>3
    <3>4. Workers1
      BY <1>3, <1>14, <1>15, <1>18, <2>1, <2>3, <2>5, <2>7, <3>1, <3>2 DEF Workers1
    <3>5. Sources1
      BY <1>13, <1>16, <2>1, <2>4, <2>5, <2>7, <3>1, <3>2, <3>3 DEF Sources1
    <3> QED
      BY <1>20, <2>2, <3>4, <3>5
  <2> QED
    BY <1>45, <2>6, <2>7 DEF S!WorkerEnd
<1>46. ASSUME NEW w \in S!Workers, S!Read(w) PROVE Quiet'
  <2>1. PICK s \in S!Sources, n \in Nat \ {0} : s = S!SourceOf(w) /\ n = taken[s] + 1 /\ Answer(w, s, n)
    BY <1>46, ReadAnswers
  <2>2. worker[w] = "read" /\ ~chClosed /\ ~srcClosed[s] /\ lock[s] = w
    BY <1>1, <1>15, <1>21, <2>1 DEF Answer, ErrorsKept
  <2>3. UNCHANGED <<opened, chClosed>> /\ Readers1 /\ Outputs1
    BY <1>42, <1>46 DEF S!Working
  <2>4. srcStart[s] # "never"
    BY <1>3, <1>16, <2>1, <2>2
  <2>5. poolErrs \subseteq poolErrs' /\ (S!Dropped => S!Dropped')
    BY <1>23, <2>1 DEF Answer
  <2>6. \A u \in S!Sources : u # s => srcClosed'[u] = srcClosed[u] /\ taken'[u] = taken[u] /\ srcStart'[u] = srcStart[u]
    <3>1. /\ UNCHANGED srcClosed \/ srcClosed' = [srcClosed EXCEPT ![s] = TRUE]
          /\ UNCHANGED taken \/ taken' = [taken EXCEPT ![s] = n]
          /\ srcStart' = [srcStart EXCEPT ![s] = "live"]
      BY <2>1, <2>4 DEF Answer
    <3> QED
      BY <1>4, <3>1
  <2>7. srcStart'[s] = "live"
    BY <1>4, <2>1, <2>4 DEF Answer
  <2>8. script[s] \in Seq(Replies) /\ Len(script[s]) \in Nat /\ taken[s] \in Nat /\ taken[s] <= Len(script[s])
    BY <1>1, <2>1 DEF StreamTyped, SourcesTyped
  <2>9. ~(taken[s] > 0 /\ script[s][taken[s]] = "err")
    <3>1. taken[s] > 0 => taken[s] \in 1..taken[s]
      BY <2>8
    <3>2. \A k \in 1..taken[s] : script[s][k] = "err" => srcClosed[s]
      BY <1>1, <2>1 DEF ErrorsKept
    <3> QED
      BY <2>2, <3>1, <3>2
  <2>10. \A u \in S!Sources : Finished(u) => Finished1(u)
    <3>1. \A u \in S!Sources : u # s => (Finished1(u) <=> Finished(u))
      BY <1>2, <2>6 DEF Finished, Finished1
    <3>2. ASSUME Finished(s) PROVE Finished1(s)
      <4>1. taken[s] = Len(script[s])
        BY <2>9, <3>2 DEF Finished, Finished1
      <4>2. ~(n <= Len(script[s]))
        BY <2>1, <2>8, <4>1
      <4>3. UNCHANGED taken
        BY <2>1, <4>2 DEF Answer
      <4> QED
        BY <1>22, <3>2, <4>3
    <3> QED
      BY <3>1, <3>2
  <2>11. \A v \in S!Workers : v # w => worker'[v] = worker[v]
    <3>1. UNCHANGED worker \/ \E l : worker' = [worker EXCEPT ![w] = l]
      BY <2>1 DEF Answer, S!To
    <3> QED
      BY <1>4, <3>1
  <2>12. \A v \in S!Workers : v # w /\ worker[v] = "read" => S!SourceOf(v) # s
    BY <1>1, <2>2 DEF ErrorsKept
  <2>13. worker'[w] \in {"read", "pull", "send", "end"}
    <3>1. UNCHANGED worker \/ \E l \in {"pull", "send", "end"} : S!To(w, l)
      BY <2>1 DEF Answer
    <3> QED
      BY <1>4, <2>2, <3>1 DEF S!To
  <2>14. (worker'[w] = "end" \/ srcClosed'[s]) => Finished1(s) \/ S!Dropped'
    <3>1. CASE script[s][n] \in {"item", "skip", "bad"} /\ UNCHANGED srcClosed
               /\ (worker'[w] = "end" => ~conf /\ "bad" \in poolErrs')
      BY <1>2, <2>2, <3>1 DEF S!Dropped
    <3>2. CASE script[s][n] = "err" /\ taken' = [taken EXCEPT ![s] = n]
      <4>1. taken'[s] = n
        BY <1>4, <3>2
      <4>2. n > 0 /\ script[s][taken'[s]] = "err"
        BY <1>2, <3>2, <4>1
      <4> QED
        BY <4>1, <4>2 DEF Finished1
    <3>3. CASE taken[s] = Len(script[s]) /\ UNCHANGED taken
      BY <1>22, <3>3 DEF Finished, Finished1
    <3>4. \A l : S!To(w, l) => worker'[w] = l
      BY <1>4 DEF S!To
    <3>5. \/ <3>1!1
          \/ script[s][n] = "err" /\ taken' = [taken EXCEPT ![s] = n]
          \/ taken[s] = Len(script[s]) /\ UNCHANGED taken
      BY <2>1, <2>2, <2>4, <3>4 DEF Answer
    <3> QED
      BY <3>1, <3>2, <3>3, <3>5
  <2>15. worker'[w] = "read" => UNCHANGED srcClosed
    <3>1. \A l : S!To(w, l) => worker'[w] = l
      BY <1>4 DEF S!To
    <3> QED
      BY <2>1, <2>4, <3>1 DEF Answer
  <2>16. Workers1
    <3>1. ASSUME NEW v \in S!Workers, worker'[v] \in {"end", "done"} PROVE Finished1(S!SourceOf(v)) \/ S!Dropped'
      <4>1. CASE v = w
        BY <2>1, <2>13, <2>14, <3>1, <4>1
      <4>2. CASE v # w
        <5>1. Finished(S!SourceOf(v)) \/ S!Dropped
          BY <1>14, <2>11, <3>1, <4>2
        <5>2. S!SourceOf(v) \in S!Sources
          BY <1>3, <2>11, <3>1, <4>2
        <5> QED
          BY <2>5, <2>10, <5>1, <5>2
      <4> QED
        BY <4>1, <4>2
    <3>2. ASSUME NEW v \in S!Workers, worker'[v] = "read" PROVE ~srcClosed'[S!SourceOf(v)]
      <4>1. CASE v = w
        BY <2>1, <2>2, <2>15, <3>2, <4>1
      <4>2. CASE v # w
        <5>1. worker[v] = "read" /\ S!SourceOf(v) # s
          BY <2>11, <2>12, <3>2, <4>2
        <5>2. S!SourceOf(v) \in S!Sources /\ ~srcClosed[S!SourceOf(v)]
          BY <1>3, <1>15, <5>1
        <5> QED
          BY <2>6, <5>1, <5>2
      <4> QED
        BY <4>1, <4>2
    <3>3. how = "merge" /\ opened' = -1 => \A v \in S!Workers : v <= size => worker'[v] # "idle"
      BY <1>18, <2>3, <2>11, <2>13
    <3> QED
      BY <3>1, <3>2, <3>3 DEF Workers1
  <2>17. Sources1
    <3>1. ASSUME NEW u \in S!Sources, srcClosed'[u] PROVE Finished1(u) \/ S!Dropped'
      <4>1. CASE u = s
        BY <2>14, <3>1, <4>1
      <4>2. CASE u # s
        BY <1>13, <2>5, <2>6, <2>10, <3>1, <4>2
      <4> QED
        BY <4>1, <4>2
    <3>2. ASSUME NEW u \in S!Sources, srcStart'[u] = "never" PROVE chClosed' \/ (how = "merge" /\ worker'[u] = "done")
      <4>1. u # s /\ srcStart[u] = "never"
        BY <2>6, <2>7, <3>2
      <4>2. how = "merge" /\ worker[u] = "done"
        BY <1>16, <2>2, <4>1
      <4>3. worker'[u] = worker[u]
        BY <1>3, <2>2, <2>11, <4>2
      <4> QED
        BY <4>2, <4>3
    <3> QED
      BY <3>1, <3>2 DEF Sources1
  <2> QED
    BY <1>20, <2>3, <2>16, <2>17
<1> QED
  BY <1>30, <1>31, <1>32, <1>33, <1>34, <1>35, <1>36, <1>40, <1>41, <1>43, <1>44, <1>45, <1>46
     DEF S!Next, S!Reading, S!CloseStep, S!Working

\* The invariant of the streams holds at the start.
LEMMA StreamInit == ASSUME S!Init PROVE StreamInv
<1>1. MaxWorkers \in Nat \ {0} /\ Readers \subseteq Nat \ {0} /\ Readers # {}
  BY StreamingAssumption
<1>2. how \in DOMAIN Scripts /\ size \in 1..MaxWorkers /\ conf \in BOOLEAN
  BY DEF S!Init, S!Workers
<1>3. Scripts[how] \subseteq Seq(Replies)
  <2>1. Scripts[how] \subseteq Seq({"item", "skip", "err"} \cup (IF how = "convert" THEN {"bad"} ELSE {}))
    BY <1>2, StreamingAssumption
  <2>2. PICK K : K = {"item", "skip", "err"} \cup (IF how = "convert" THEN {"bad"} ELSE {})
    OBVIOUS
  <2>3. K \subseteq Replies
    BY <2>2 DEF Replies
  <2>4. Seq(K) \subseteq Seq(Replies)
    BY <2>3
  <2> QED
    BY <2>1, <2>2, <2>4
<1>4. PICK n \in 1..MaxWorkers : n = IF how = "merge" THEN size ELSE 1
  BY <1>1, <1>2
<1>5. script \in [1..n -> Seq(Replies)] /\ S!Sources = 1..n
  <2>1. script \in [1..n -> Scripts[how]]
    BY <1>4 DEF S!Init
  <2> QED
    BY <1>3, <2>1 DEF S!Sources
<1>6. /\ taken = [s \in S!Sources |-> 0] /\ srcClosed = [s \in S!Sources |-> FALSE] /\ srcErrs = [s \in S!Sources |-> {}]
      /\ srcStart = [s \in S!Sources |-> "new"] /\ lock = [s \in S!Sources |-> 0]
      /\ opened = 0 /\ worker = [w \in S!Workers |-> "idle"] /\ item = [w \in S!Workers |-> <<>>]
      /\ ch = <<>> /\ chClosed = FALSE /\ pump = 0 /\ poolErrs = {}
  BY DEF S!Init
<1>7. /\ closed = [o \in S!Outs |-> FALSE] /\ closing = [o \in S!Outs |-> "no"] /\ start = [o \in S!Outs |-> 0]
      /\ canceled = [o \in S!Outs |-> FALSE] /\ outErrs = [o \in S!Outs |-> {}]
      /\ pc = [r \in Readers |-> "top"] /\ ctx = [r \in Readers |-> "live"] /\ why = [r \in Readers |-> ""]
      /\ got = [r \in Readers |-> <<>>] /\ told = [r \in Readers |-> {}]
  BY DEF S!Init
<1>8. SourcesTyped
  <2>1. DOMAIN script = 1..n /\ \A s \in S!Sources : script[s] \in Seq(Replies) /\ Len(script[s]) \in Nat
    BY <1>5
  <2>2. \A s \in S!Sources : taken[s] \in 0..Len(script[s])
    BY <1>6, <2>1
  <2>3. taken \in [S!Sources -> Nat] /\ srcClosed \in [S!Sources -> BOOLEAN] /\ DOMAIN srcErrs = S!Sources
        /\ srcStart \in [S!Sources -> {"new", "live", "never"}] /\ DOMAIN lock = S!Sources
    BY <1>6
  <2> QED
    BY <1>4, <2>1, <2>2, <2>3 DEF SourcesTyped
<1>9. WorkersTyped
  <2>1. opened \in -1..size /\ opened = 0
    BY <1>1, <1>2, <1>6
  <2>2. /\ worker \in [S!Workers -> {"idle", "pull", "read", "send", "end", "done"}] /\ DOMAIN item = S!Workers
        /\ \A w \in S!Workers : worker[w] # "send"
    BY <1>6
  <2>3. ch \in Seq(Pairs) /\ chClosed \in BOOLEAN /\ pump \in S!Outs \cup {0}
    <3>1. <<>> \in Seq(Pairs)
      OBVIOUS
    <3> QED
      BY <1>6, <3>1
  <2> QED
    BY <2>1, <2>2, <2>3 DEF WorkersTyped
<1>10. OutputsTyped
  BY <1>7 DEF OutputsTyped
<1>11. ReadersTyped
  <2>1. \A r \in Readers : <<>> \in Seq(Pairs)
    OBVIOUS
  <2>2. got \in [Readers -> Seq(Pairs)] /\ DOMAIN told = Readers
    BY <1>7, <2>1
  <2>3. pc \in [Readers -> {"top", "op", "recv", "close", "hooks", "closed", "done", "panicked"}]
    BY <1>7
  <2>4. ctx \in [Readers -> {"live", "canceled"}]
    BY <1>7
  <2>5. why \in [Readers -> {"", "ctx", "eof", "quit"}]
    BY <1>7
  <2> QED
    BY <2>2, <2>3, <2>4, <2>5 DEF ReadersTyped
<1>12. \A r \in Readers : got[r] = <<>> /\ \A x : ~Read(r, x) /\ ~In(ch, x)
  <2>1. \A x : ~In(<<>>, x)
    BY DEF In
  <2>2. \A r \in Readers : got[r] = <<>>
    BY <1>7
  <2> QED
    BY <1>6, <2>1, <2>2 DEF Read
<1>13. \A w \in S!Workers : worker[w] = "idle" /\ ~Sends(w)
  BY <1>6 DEF Sends
<1>14. Apart
  <2>1. Distinct(<<>>)
    BY DEF Distinct
  <2> QED
    BY <1>1, <1>6, <1>12, <1>13, <2>1 DEF Apart
<1>15. InOrder
  <2>1. Rising(<<>>)
    BY DEF Rising
  <2> QED
    BY <1>1, <1>6, <1>12, <1>13, <2>1 DEF InOrder
<1>16. WorkersStart
  <2>1. \A w \in S!Workers : ~(w <= 0)
    BY <1>1 DEF S!Workers
  <2> QED
    BY <1>6, <1>13, <2>1 DEF WorkersStart
<1>17. ReadersPlaced
  BY <1>7 DEF ReadersPlaced
<1>18. ErrorsKept
  <2>1. \A s \in S!Sources : 1..taken[s] = {}
    BY <1>6
  <2> QED
    BY <1>13, <2>1 DEF ErrorsKept
<1>19. Quiet
  <2>0. \A r \in Readers : why[r] = ""
    BY <1>7
  <2>1. \A o \in S!Outs : start[o] # -1 /\ closing[o] # "done"
    <3>1. \A o \in S!Outs : start[o] = 0
      BY <1>7
    <3>2. \A o \in S!Outs : closing[o] = "no"
      BY <1>7
    <3> QED
      BY <3>1, <3>2
  <2>2. \A s \in S!Sources : ~srcClosed[s] /\ srcStart[s] # "never"
    BY <1>6
  <2>3. \A w \in S!Workers : worker[w] \notin {"read", "end", "done"}
    BY <1>13
  <2>4. opened # -1
    BY <1>6
  <2> QED
    BY <2>0, <2>1, <2>2, <2>3, <2>4 DEF Quiet
<1>20. NoneLost
  <2>1. \A s \in S!Sources : 1..taken[s] = {}
    BY <1>6
  <2> QED
    BY <2>1 DEF NoneLost
<1> QED
  BY <1>2, <1>8, <1>9, <1>10, <1>11, <1>14, <1>15, <1>16, <1>17, <1>18, <1>19, <1>20 DEF StreamInv, StreamTyped

\* The invariant of the streams is inductive.
LEMMA StreamStep == ASSUME StreamInv, S!Next \/ UNCHANGED S!vars PROVE StreamInv'
<1>1. CASE S!Next
  BY <1>1, StreamTypedNext, ItemsMove, WorkersStartNext, ReadersPlacedNext, ErrorsKeptNext, QuietNext DEF StreamInv
<1>2. CASE UNCHANGED S!vars
  <2>1. /\ UNCHANGED <<how, conf, size, script, taken, srcClosed, srcErrs, srcStart, lock>>
        /\ UNCHANGED <<opened, worker, item, ch, chClosed, pump, poolErrs>>
        /\ UNCHANGED <<closed, closing, start, canceled, outErrs, pc, ctx, why, got, told>>
    BY <1>2 DEF S!vars, S!fixed, S!sources, S!pool, S!outputs, S!readers
  <2>2. StreamTyped'
    BY <2>1 DEF StreamInv, StreamTyped, SourcesTyped, WorkersTyped, OutputsTyped, ReadersTyped, S!Sources, S!Outs, S!Workers
  <2>3. S!Shape' = S!Shape /\ S!Sources' = S!Sources /\ S!Outs' = S!Outs /\ S!Undisturbed' = S!Undisturbed
    BY <2>1 DEF S!Shape, S!Split, S!Buffer, S!BufferParallel, S!MergeStreams, S!Parallel, S!Sources, S!Outs, S!Undisturbed
  <2>4. Apart'
    BY <2>1, <2>3 DEF StreamInv, Apart, Read, Sends, Known, In, Distinct
  <2>5. InOrder'
    BY <2>1, <2>3 DEF StreamInv, InOrder, Read, Sends, In, Rising
  <2>6. NoneLost'
    <3>1. /\ \A w : Sends(w)' <=> Sends(w)
          /\ \A x : In(ch, x)' <=> In(ch, x)
          /\ \A r, x : Read(r, x)' <=> Read(r, x)
      BY <2>1 DEF Sends, Read, In
    <3>2. NoneLost
      BY DEF StreamInv
    <3> QED
      BY <2>1, <2>3, <3>1, <3>2 DEF NoneLost
  <2>7. WorkersStart'
    BY <2>1, <2>3 DEF StreamInv, WorkersStart
  <2>8. ReadersPlaced'
    BY <2>1, <2>3 DEF StreamInv, ReadersPlaced, S!Output
  <2>9. ErrorsKept'
    BY <2>1, <2>3 DEF StreamInv, ErrorsKept, S!SourceOf
  <2>10. Quiet'
    BY <2>1, <2>3 DEF StreamInv, Quiet, Finished, S!Dropped, S!Output, S!SourceOf
  <2> QED
    BY <2>2, <2>4, <2>5, <2>6, <2>7, <2>8, <2>9, <2>10 DEF StreamInv
<1> QED
  BY <1>1, <1>2

\* The invariant of the streams is what StreamsDeliver needs.
LEMMA StreamsDeliverFollows == ASSUME StreamInv PROVE S!StreamsDeliver
<1>1. StreamTyped /\ Apart /\ InOrder /\ WorkersStart /\ ReadersPlaced /\ ErrorsKept /\ Quiet /\ NoneLost
  BY DEF StreamInv
<1>2. /\ got \in [Readers -> Seq(Pairs)] /\ Readers # {}
      /\ \A s \in S!Sources : /\ taken[s] \in Nat /\ taken[s] <= Len(script[s]) /\ Len(script[s]) \in Nat
                              /\ DOMAIN script[s] = 1..Len(script[s])
  <2>1. \A s \in S!Sources : script[s] \in Seq(Replies) /\ taken[s] \in 0..Len(script[s])
    BY <1>1 DEF StreamTyped, SourcesTyped
  <2>2. got \in [Readers -> Seq(Pairs)]
    BY <1>1 DEF StreamTyped, ReadersTyped
  <2> QED
    BY <2>1, <2>2, StreamingAssumption
<1>3. \A r \in Readers : \A x : x \in S!Range(got[r]) <=> Read(r, x)
  <2>1. SUFFICES ASSUME NEW r \in Readers PROVE \A x : x \in S!Range(got[r]) <=> Read(r, x)
    OBVIOUS
  <2>2. DOMAIN got[r] = 1..Len(got[r])
    BY <1>2
  <2> QED
    BY <2>2 DEF S!Range, Read, In
<1>4. \A a, x : x \in S!Answered(a) <=> \E s \in S!Sources : \E n \in DOMAIN script[s] : script[s][n] = a /\ x = <<s, n>>
  BY DEF S!Answered
<1>5. \A r \in Readers : \A i, j \in 1..Len(got[r]) :
        i < j => /\ got[r][i] # got[r][j]
                 /\ S!Shape.workers = 1 => got[r][i][2] < got[r][j][2]
  BY <1>1 DEF Apart, Distinct, InOrder, Rising
<1>6. \A r, q \in Readers : r # q => S!Range(got[r]) \cap S!Range(got[q]) = {}
  <2>1. ASSUME NEW r \in Readers, NEW q \in Readers, r # q, NEW x, Read(r, x), Read(q, x) PROVE FALSE
    BY <1>1, <2>1 DEF Apart
  <2> QED
    BY <1>3, <2>1
<1>7. S!Got \subseteq S!Items
  <2> SUFFICES ASSUME NEW x \in S!Got PROVE x \in S!Items
    OBVIOUS
  <2>1. PICK r \in Readers : Read(r, x)
    BY <1>3 DEF S!Got
  <2>2. x \in Pairs
    BY <1>2, <2>1 DEF Read, In
  <2>3. Known(x)
    BY <1>1, <2>1 DEF Apart
  <2>4. PICK s \in S!Sources : \E n \in 1..taken[s] : x = <<s, n>> /\ script[s][n] = "item"
    BY <2>2, <2>3 DEF Known, Pairs
  <2>5. PICK n \in 1..taken[s] : x = <<s, n>> /\ script[s][n] = "item"
    BY <2>4
  <2>6. n \in DOMAIN script[s]
    BY <1>2, <2>5
  <2> QED
    BY <1>4, <2>5, <2>6 DEF S!Items
<1>8. ASSUME S!Undisturbed, \A r \in Readers : S!Settled(r)
      PROVE  /\ \A o \in S!Outs : \E r \in Readers : S!Output(r) = o /\ why[r] = "eof"
             /\ \A x \in S!Items : S!Hidden(x) \/ x \in S!Got \/ S!Dropped
             /\ \A f \in S!Failures : S!Hidden(f) \/ (\E r \in Readers : f \in told[r]) \/ S!Dropped
             /\ how = "convert" => \A r \in Readers : poolErrs \subseteq told[r]
  <2>1. /\ \A r \in Readers : why[r] # "" =>
             /\ chClosed /\ ch = <<>> /\ start[S!Output(r)] \in Readers
             /\ \E q \in Readers : S!Output(q) = S!Output(r) /\ why[q] = "eof"
        /\ \A o \in S!Outs : start[o] # -1
        /\ \A w \in S!Workers : worker[w] \in {"end", "done"} => Finished(S!SourceOf(w)) \/ S!Dropped
        /\ \A o \in S!Outs : closing[o] = "done" =>
             poolErrs \subseteq outErrs[o] /\ (how # "merge" => srcErrs[1] \subseteq outErrs[o])
        /\ how = "merge" /\ opened = -1 => \A w \in S!Workers : w <= size => worker[w] # "idle"
    BY <1>1, <1>8 DEF Quiet
  <2>2. /\ \A r \in Readers : S!Output(r) \in S!Outs
        /\ \A o \in S!Outs : \E r \in Readers : S!Output(r) = o
        /\ how # "merge" => S!Sources = {1}
    BY <1>1, StreamShape
  <2>3. \A r \in Readers : /\ why[r] # "" /\ closing[S!Output(r)] = "done"
                           /\ told[r] = outErrs[S!Output(r)]
    <3>1. \A r \in Readers : pc[r] # "panicked"
      BY <1>1, <2>1, <2>2 DEF ReadersPlaced
    <3>2. \A r \in Readers : pc[r] = "done"
      BY <1>8, <3>1 DEF S!Settled
    <3> QED
      BY <1>1, <3>2 DEF ReadersPlaced
  <2>4. PICK t \in Readers : TRUE
    BY <1>2
  <2>5. chClosed /\ ch = <<>>
    BY <2>1, <2>3, <2>4
  <2>6. pump # 0 /\ (how = "merge" => opened = -1) /\ \A w \in S!Workers : worker[w] \in {"idle", "done"}
    BY <1>1, <2>5 DEF WorkersStart
  <2>7. \A s \in S!Sources : /\ Finished(s) \/ S!Dropped
                             /\ how = "merge" => s \in S!Workers /\ worker[s] = "done"
    <3>1. CASE how = "merge"
      <4>1. \A s \in S!Sources : s \in S!Workers /\ s <= size /\ S!SourceOf(s) = s
        BY <1>1, <3>1, StreamShape DEF StreamTyped, SourcesTyped, S!Sources, S!Workers, S!SourceOf
      <4>2. \A s \in S!Sources : worker[s] = "done"
        BY <2>1, <2>6, <3>1, <4>1
      <4> QED
        BY <2>1, <4>1, <4>2
    <3>2. CASE how # "merge"
      <4>1. 1 \in S!Workers /\ 1 <= S!Shape.workers /\ S!SourceOf(1) = 1
        BY <1>1, <3>2, StreamShape DEF S!Workers, S!SourceOf
      <4>2. worker[1] = "done"
        BY <1>1, <2>6, <3>2, <4>1 DEF WorkersStart
      <4> QED
        BY <2>1, <2>2, <3>2, <4>1, <4>2
    <3> QED
      BY <3>1, <3>2
  \* what a source has not given is after an error
  <2>8. ASSUME NEW s \in S!Sources, NEW n \in DOMAIN script[s], n \notin 1..taken[s], ~S!Dropped
        PROVE  S!Hidden(<<s, n>>)
    <3>1. taken[s] > 0 /\ script[s][taken[s]] = "err" /\ n > taken[s]
      BY <1>2, <2>7, <2>8 DEF Finished
    <3>2. taken[s] \in DOMAIN script[s]
      BY <1>2, <3>1
    <3>3. <<s, taken[s]>> \in S!Failures
      BY <1>4, <3>1, <3>2 DEF S!Failures
    <3>4. \A f \in S!Failures : f[1] = s /\ f[2] < n => S!Hidden(<<s, n>>)
      BY DEF S!Hidden
    <3>5. taken[s] < n
      BY <1>2, <2>8, <3>1
    <3> QED
      BY <3>3, <3>4, <3>5
  <2>9. \A o \in S!Outs : \E r \in Readers : S!Output(r) = o /\ why[r] = "eof"
    <3>1. SUFFICES ASSUME NEW o \in S!Outs PROVE \E r \in Readers : S!Output(r) = o /\ why[r] = "eof"
      OBVIOUS
    <3>2. PICK r \in Readers : S!Output(r) = o
      BY <2>2
    <3>3. why[r] # ""
      BY <2>3
    <3> QED
      BY <2>1, <3>2, <3>3
  <2>10. ASSUME NEW x \in S!Items, ~S!Dropped PROVE S!Hidden(x) \/ x \in S!Got
    <3>0. PICK s \in S!Sources : \E n \in DOMAIN script[s] : script[s][n] = "item" /\ x = <<s, n>>
      BY <1>4 DEF S!Items
    <3>1. PICK n \in DOMAIN script[s] : script[s][n] = "item" /\ x = <<s, n>>
      BY <3>0
    <3>2. CASE n \in 1..taken[s]
      <4>1. \/ \E r \in Readers : Read(r, x)
            \/ In(ch, x)
            \/ \E w \in S!Workers : Sends(w) /\ item[w] = x
        BY <1>1, <1>8, <3>1, <3>2 DEF NoneLost
      <4>2. ~In(ch, x)
        BY <2>5 DEF In
      <4>3. PICK r \in Readers : Read(r, x)
        BY <2>6, <4>1, <4>2 DEF Sends
      <4> QED
        BY <1>3, <4>3 DEF S!Got
    <3>3. CASE n \notin 1..taken[s]
      BY <2>8, <2>10, <3>1, <3>3
    <3> QED
      BY <3>2, <3>3
  <2>11. \A r \in Readers : poolErrs \subseteq told[r] /\ (how # "merge" => srcErrs[1] \subseteq told[r])
    BY <2>1, <2>2, <2>3
  <2>12. ASSUME NEW f \in S!Failures, ~S!Dropped PROVE S!Hidden(f) \/ \E r \in Readers : f \in told[r]
    <3>0. PICK s \in S!Sources : \E n \in DOMAIN script[s] : script[s][n] = "err" /\ f = <<s, n>>
      BY <1>4 DEF S!Failures
    <3>1. PICK n \in DOMAIN script[s] : script[s][n] = "err" /\ f = <<s, n>>
      BY <3>0
    <3>2. CASE n \in 1..taken[s]
      <4>1. f \in srcErrs[s]
        BY <1>1, <3>1, <3>2 DEF ErrorsKept
      <4>2. CASE how = "merge"
        <5>1. srcErrs[s] \subseteq poolErrs
          BY <1>1, <2>7, <4>2 DEF ErrorsKept
        <5> QED
          BY <2>4, <2>11, <4>1, <5>1
      <4>3. CASE how # "merge"
        BY <2>2, <2>4, <2>11, <4>1, <4>3
      <4> QED
        BY <4>2, <4>3
    <3>3. CASE n \notin 1..taken[s]
      BY <2>8, <2>12, <3>1, <3>3
    <3> QED
      BY <3>2, <3>3
  <2> QED
    BY <2>9, <2>10, <2>11, <2>12
<1> QED
  BY <1>5, <1>6, <1>7, <1>8 DEF S!StreamsDeliver

----------------------------------------------------------------------------
(* The composition: one tool is used, and its invariant holds              *)

StreamingInv ==
  /\ Pool => PoolInv
  /\ Stream => StreamInv
  /\ Channel => ChanInv

\* The tool is the same from the start to the end.
LEMMA SameTool == (P!Next => how' = how) /\ (S!Next => how' = how) /\ (C!Next => how' = how)
<1>1. P!Next => how' = how
  BY DEF P!Next, P!Work, P!Top, P!PullShard, P!ShardNext, P!ShardJob, P!PullJob, P!PoolJob, P!Sink, P!Cancel, P!Return, P!given
<1> QED
  BY <1>1, StreamFixed, ChanGiven

\* The invariant of the tool that was chosen holds at the start,
LEMMA StreamingInit == Init => StreamingInv
<1>1. ASSUME P!Init PROVE Pool /\ ~Stream /\ ~Channel /\ PoolInv
  BY <1>1, PoolInit DEF P!Init, Pool, Stream, Channel, C!Hows
<1>2. ASSUME S!Init PROVE Stream /\ ~Pool /\ ~Channel /\ StreamInv
  BY <1>2, StreamInit, StreamingAssumption DEF S!Init, Pool, Stream, Channel, C!Hows
<1>3. ASSUME C!Init PROVE ~Stream /\ ~Pool /\ ChanInv
  BY <1>3, ChanInit DEF C!Init, Pool, Stream, Channel, C!Hows
<1> QED
  BY <1>1, <1>2, <1>3 DEF Init, StreamingInv

\* and is kept by every step, as the tool stays the same.
LEMMA StreamingStep == StreamingInv /\ [Next]_vars => StreamingInv'
<1> SUFFICES ASSUME StreamingInv, [Next]_vars PROVE StreamingInv'
  OBVIOUS
<1>1. ASSUME Pool, P!Next \/ (UNCHANGED P!vars /\ how' = how) PROVE StreamingInv'
  <2>1. PoolInv'
    BY <1>1, PoolStep DEF StreamingInv
  <2>2. how' = how
    BY <1>1, SameTool
  <2> QED
    BY <1>1, <2>1, <2>2 DEF StreamingInv, Pool, Stream, Channel, C!Hows
<1>2. ASSUME Stream, S!Next \/ (UNCHANGED S!vars /\ how' = how) PROVE StreamingInv'
  <2>1. StreamInv'
    BY <1>2, StreamStep DEF StreamingInv
  <2>2. how' = how
    BY <1>2, SameTool
  <2> QED
    BY <1>2, <2>1, <2>2 DEF StreamingInv, Pool, Stream, Channel, C!Hows
<1>3. ASSUME Channel, C!Next \/ (UNCHANGED C!vars /\ how' = how) PROVE StreamingInv'
  <2>1. ChanInv'
    BY <1>3, ChanStep DEF StreamingInv
  <2>2. how' = how
    BY <1>3, SameTool
  <2> QED
    BY <1>3, <2>1, <2>2 DEF StreamingInv, Pool, Stream, Channel, C!Hows
<1>4. CASE UNCHANGED vars
  <2>1. how' = how /\ UNCHANGED P!vars
    BY <1>4 DEF vars, ofPools, P!vars
  <2>2. UNCHANGED S!vars
    BY <1>4 DEF vars, ofStreams, S!vars, S!fixed, S!sources, S!pool, S!outputs, S!readers
  <2>3. UNCHANGED C!vars
    BY <1>4 DEF vars, ofChannels, C!vars, C!given, C!production, C!consumption
  <2>4. CASE ~(Pool \/ Stream \/ Channel)
    BY <2>1, <2>4 DEF StreamingInv, Pool, Stream, Channel, C!Hows
  <2> QED
    BY <1>1, <1>2, <1>3, <2>1, <2>2, <2>3, <2>4
<1>5. CASE OfPool(P!Next)
  <2>1. Pool /\ P!Next
    BY <1>5 DEF OfPool
  <2> QED
    BY <1>1, <2>1
<1>6. CASE OfStream(S!Next)
  <2>1. Stream /\ S!Next
    BY <1>6 DEF OfStream
  <2> QED
    BY <1>2, <2>1
<1>7. CASE OfChannel(C!Next)
  <2>1. Channel /\ C!Next
    BY <1>7 DEF OfChannel
  <2> QED
    BY <1>3, <2>1
<1> QED
  BY <1>4, <1>5, <1>6, <1>7 DEF Next

\* Jobs run once each and their errors are told once each, by the options of the pool, for
\* any number of workers and jobs (wpa/pools.go).
THEOREM PoolsAccountInvariant == Spec => []PoolsAccount
<1>1. StreamingInv => PoolsAccount
  BY PoolAccountsFollows DEF StreamingInv, PoolsAccount
<1> QED
  BY <1>1, StreamingInit, StreamingStep, PTL DEF Spec

\* Items reach their readers once each and in order, none is missing unless somebody stopped
\* or canceled, and errors and panics are told, for any sources, readers, consumers and
\* workers (pubsub/stream.go, irt/irt.go, stw/chan.go).
THEOREM ItemsDeliveredInvariant == Spec => []ItemsDelivered
<1>1. StreamingInv => ItemsDelivered
  BY StreamsDeliverFollows, ChannelsDeliverFollows DEF StreamingInv, ItemsDelivered
<1> QED
  BY <1>1, StreamingInit, StreamingStep, PTL DEF Spec
=============================================================================
