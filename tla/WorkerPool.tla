----------------------------- MODULE WorkerPool -----------------------------
(* The worker pools of wpa (RunWithPool, PullWithPool and, for futures,     *)
(* ResolveFuturesWithPool) on irt.Pool and irt.Shard, and what runs the     *)
(* same jobs in sequence: Run, RunAll, Pull, PullAll, ResolveFutures. A job *)
(* is its outcome: "ok", "err", "panic", "eof" (a terminating error), "skip"*)
(* or, once the context has been canceled, "ctx".                           *)
EXTENDS Integers, Sequences, FiniteSets, Functions

CONSTANTS MaxWorkers, MaxJobs, Outcomes

Workers == 1..MaxWorkers

VARIABLES how,         \* "run", "pull" or "resolve": with a pool
          conf,        \* the options that matter to an error
          size,        \* NumWorkers, after Validate
          jobs,        \* the outcome of each job
          pulled,      \* how many jobs have been taken from the source
          released,    \* the source has been stopped
          pc,          \* of each worker
          job,         \* the job each is at
          shards,      \* how many shards have been handed out
          remain,      \* how many have not finished
          aborted,     \* and how many of those stopped at an error
          ran,         \* how often each job has run
          told,        \* the jobs whose errors were collected, or given to the consumer
          sinkDone,    \* the consumer wants no more
          failure,     \* it panicked
          poolOver,    \* the pool's own context is canceled
          ctx,         \* "live" or "canceled"
          returned

vars == <<how, conf, size, jobs, pulled, released, pc, job, shards, remain, aborted, ran, told, sinkDone, failure, poolOver, ctx, returned>>
given == <<how, conf, size, jobs>>

N == Len(jobs)
(* What the kinds of job answer: each recovers its panics. A Task, a Reader *)
(* or a Result has an error, a Thunk or a Producer has none, and a Worker,  *)
(* an Operation or a Future is also given the context.                      *)
Fallible == {"ok", "err", "eof", "skip"}
TaskJob == Fallible \union {"panic"}
ThunkJob == {"ok", "panic"}
ProducerJob == {"ok", "panic"}
ResultJob == Fallible \union {"panic"}
ReaderJob == Fallible \union {"panic"}
HandlerJob == ReaderJob
JobKinds == {TaskJob, ThunkJob, ProducerJob, ResultJob, HandlerJob}
Validate(n) == IF n < 1 THEN 1 ELSE n
(* WorkerGroupConfNumWorkers, ContinueOnError, ContinueOnPanic,             *)
(* IncludeContextErrors, DisableErrorCollector                              *)
Confs == [onError : BOOLEAN, onPanic : BOOLEAN, includeCtx : BOOLEAN]

Init ==
  /\ how \in {"run", "pull", "resolve"} /\ conf \in Confs
  /\ \E n \in 0..MaxWorkers : size = Validate(n)
  /\ \E answers \in JobKinds, n \in 0..MaxJobs : jobs \in [1..n -> Outcomes \intersect answers]
  /\ pulled = 0 /\ released = FALSE
  /\ pc = [w \in Workers |-> IF w <= size THEN "top" ELSE "done"] /\ job = [w \in Workers |-> 0]
  /\ shards = 0 /\ remain = size /\ aborted = 0
  /\ ran = [j \in 1..N |-> 0] /\ told = <<>> /\ sinkDone = FALSE /\ failure = FALSE
  /\ poolOver = FALSE /\ ctx = "live" /\ returned = FALSE

----------------------------------------------------------------------------
(* What is done with an outcome *)
ContinuesAlways(c, o) == o /= "eof"                \* mutant: only a terminating error stops a worker
CanContinueOnError(c, o) ==
  CASE o \in {"ok", "skip"} -> TRUE
    [] o \in {"eof", "ctx"} -> FALSE
    [] o = "panic"          -> c.onPanic
    [] OTHER                -> c.onError
Collects(c, o) == o \in {"panic", "err"} \/ (o = "ctx" /\ c.includeCtx)
Filter(c, o) == CASE o = "ok" -> "ok" [] CanContinueOnError(c, o) -> "skip" [] OTHER -> o
filterPreserving(c, o) == IF Filter(c, o) = "skip" THEN o ELSE Filter(c, o)

Goto(w, l) == pc' = [pc EXCEPT ![w] = l]
poolLive == ctx = "live" /\ ~poolOver

(* The loop of a worker of irt.Pool *)
Top(w) ==
  /\ pc[w] = "top"
  /\ Goto(w, IF poolLive THEN "pull" ELSE "done")
  /\ UNCHANGED <<given, pulled, released, job, shards, remain, aborted, ran, told, sinkDone, failure, poolOver, ctx, returned>>

(* RunWithPool's workers are handed shards, and take jobs from them *)
PullShard(w) ==
  /\ how = "run" /\ pc[w] = "pull"
  /\ \/ shards < size /\ shards' = shards + 1 /\ Goto(w, "shard") /\ UNCHANGED poolOver
     \/ shards = size /\ poolOver' = TRUE /\ Goto(w, "top") /\ UNCHANGED shards
  /\ UNCHANGED <<given, pulled, released, job, remain, aborted, ran, told, sinkDone, failure, ctx, returned>>
Finish(w) ==
  /\ remain' = remain - 1
  /\ released' = (released \/ remain = 1)
  /\ Goto(w, "top")
ShardNext(w) ==
  /\ pc[w] = "shard"
  /\ \/ ctx = "live" /\ ~released /\ pulled < N
        /\ pulled' = pulled + 1 /\ job' = [job EXCEPT ![w] = pulled + 1] /\ Goto(w, "job")
        /\ UNCHANGED <<remain, released>>
     \/ (ctx = "canceled" \/ released \/ pulled = N) /\ Finish(w) /\ UNCHANGED <<pulled, job>>
  /\ UNCHANGED <<given, shards, aborted, ran, told, sinkDone, failure, poolOver, ctx, returned>>
Outcome(w) == { jobs[job[w]] } \union (IF ctx = "canceled" THEN {"ctx"} ELSE {})
Ran(w) == ran' = [ran EXCEPT ![job[w]] = @ + 1]
ShardJob(w) ==
  /\ how = "run" /\ pc[w] = "job" /\ Ran(w)
  /\ \E o \in Outcome(w) :
       /\ told' = (IF Collects(conf, o) THEN Append(told, job[w]) ELSE told)
       /\ IF Filter(conf, o) \in {"ok", "skip"}
          THEN Goto(w, "shard") /\ UNCHANGED <<remain, released, aborted>>
          ELSE Finish(w) /\ aborted' = aborted + 1
  /\ UNCHANGED <<given, pulled, job, shards, sinkDone, failure, poolOver, ctx, returned>>

(* The workers of the others take jobs, and push their answers through the  *)
(* sink to the consumer, which may stop, or panic                           *)
PullJob(w) ==
  /\ how /= "run" /\ pc[w] = "pull"
  /\ \/ pulled < N /\ pulled' = pulled + 1 /\ job' = [job EXCEPT ![w] = pulled + 1] /\ Goto(w, "job") /\ UNCHANGED poolOver
     \/ pulled = N /\ poolOver' = TRUE /\ Goto(w, "top") /\ UNCHANGED <<pulled, job>>
  /\ UNCHANGED <<given, released, shards, remain, aborted, ran, told, sinkDone, failure, ctx, returned>>
PoolJob(w) ==
  /\ how /= "run" /\ pc[w] = "job" /\ Ran(w)
  /\ \E o \in Outcome(w) : Goto(w, filterPreserving(conf, o))
  /\ UNCHANGED <<given, pulled, released, job, shards, remain, aborted, told, sinkDone, failure, poolOver, ctx, returned>>
Results == {"ok", "err", "panic", "eof", "skip", "ctx"}
PullWithPool(o) == o /= "ok"                       \* it yields errors
ResolveFuturesWithPool(o) == o \in Results         \* it yields pairs
Sink(w) ==
  /\ pc[w] \in Results /\ Goto(w, "top")
  /\ LET wanted == IF how = "pull" THEN PullWithPool(pc[w]) ELSE ResolveFuturesWithPool(pc[w])
     IN \/ sinkDone /\ poolOver' = TRUE /\ UNCHANGED <<told, sinkDone, failure>>
        \/ ~sinkDone /\ ~wanted /\ UNCHANGED <<told, sinkDone, failure, poolOver>>
        \/ ~sinkDone /\ wanted /\ told' = Append(told, job[w])
           /\ \/ UNCHANGED <<sinkDone, failure, poolOver>>
              \/ sinkDone' = TRUE /\ poolOver' = TRUE /\ failure' \in BOOLEAN
  /\ UNCHANGED <<given, pulled, released, job, shards, remain, aborted, ran, ctx, returned>>

Cancel ==
  /\ ctx = "live" /\ ~returned /\ ctx' = "canceled"
  /\ released' = (how = "run" \/ released)         \* the shards' AfterFunc
  /\ UNCHANGED <<given, pulled, pc, job, shards, remain, aborted, ran, told, sinkDone, failure, poolOver, returned>>
Return ==
  /\ ~returned /\ (\A w \in Workers : pc[w] = "done") /\ returned' = TRUE
  /\ UNCHANGED <<given, pulled, released, pc, job, shards, remain, aborted, ran, told, sinkDone, failure, poolOver, ctx>>

Work(w) == Top(w) \/ PullShard(w) \/ ShardNext(w) \/ ShardJob(w) \/ PullJob(w) \/ PoolJob(w) \/ Sink(w)
Next == (\E w \in Workers : Work(w)) \/ Cancel \/ Return
Spec == Init /\ [][Next]_vars
(* Workers run, and jobs return *)
Fairness == WF_vars(Return) /\ \A w \in Workers : WF_vars(Work(w))
FairSpec == Spec /\ Fairness

----------------------------------------------------------------------------
(* The same jobs in sequence: how many run, and which errors are told       *)
Done(n, errs) == [ran |-> n, errs |-> errs]
Stops(js, i, stop) == IF i > Len(js) THEN {} ELSE { k \in i..Len(js) : stop[js[k]] }
First(s) == CHOOSE k \in s : \A m \in s : k <= m
Told(js, n, errs) == { i \in 1..n : js[i] \in errs }
Halts == [o \in Results |-> o \notin {"ok", "skip"}]
Pull(js) ==
  LET at == Stops(js, 1, Halts)
      n == IF at = {} THEN Len(js) ELSE First(at)
  IN Done(n, Told(js, n, Results \ {"ok", "skip", "eof"}))
PullAll(js) == Done(Len(js), Told(js, Len(js), Results \ {"ok"}))
Run(js) == Pull(js)
RunAll(js) == PullAll(js)
ResolveFutures(js) == [Pull(js) EXCEPT !.errs = @ \union Told(js, Pull(js).ran, {"ok"})]
ResolveFuturesAll(js) == Done(Len(js), 1..Len(js))

(* No job runs twice. When the call has returned, its context live and its  *)
(* consumer willing, every job has run, unless a job met an error that the  *)
(* options stop at (in RunWithPool: every shard did). The errors that the   *)
(* options collect, and the values, are told, once each; RunWithPool tells  *)
(* nothing else, and one strict worker of it runs as Run does. Where no job *)
(* is skipped or ends, and the options pass every error, the other two tell *)
(* what PullAll and ResolveFuturesAll do. Whether they may run more jobs    *)
(* after an error that the options stop at, and tell what those leave out,  *)
(* is left open here: see the definitions that follow.                      *)
PoolAccounts ==
  LET did    == { j \in 1..N : ran[j] > 0 }
      errs   == { j \in did : Collects(conf, jobs[j]) }
      values == { j \in did : how = "resolve" /\ jobs[j] = "ok" }
      goesOn == ctx = "live" /\ ~sinkDone
      passed == \A j \in 1..N : jobs[j] /= "skip" /\ CanContinueOnError(conf, jobs[j])
  IN /\ \A j \in 1..N : ran[j] <= 1
     /\ Len(told) = Cardinality(Range(told))
     /\ returned =>
          /\ goesOn => \/ did = 1..N
                       \/ how = "run" /\ aborted = size
                       \/ how /= "run" /\ \E j \in did : ~CanContinueOnError(conf, jobs[j])
          /\ goesOn => errs \union values \subseteq Range(told)
          /\ ctx = "live" /\ how = "run" => Range(told) = errs
          /\ ctx = "live" /\ how = "pull" => Range(told) \subseteq { j \in did : jobs[j] /= "ok" }
          /\ goesOn /\ passed /\ how = "pull" => Range(told) = PullAll(jobs).errs
          /\ goesOn /\ passed /\ how = "resolve" => Range(told) = ResolveFuturesAll(jobs).errs
          /\ aborted <= size /\ failure => sinkDone
          /\ ctx = "live" /\ how = "run" /\ size = 1 /\ ~conf.onError /\ ~conf.onPanic =>
               Cardinality(did) = Run(jobs).ran /\ Range(told) = Run(jobs).errs
          /\ released = (how = "run")
     /\ Run(jobs).ran <= RunAll(jobs).ran /\ Run(jobs).errs \subseteq ResolveFutures(jobs).errs

(* What the comments of the options say of PullWithPool and of              *)
(* ResolveFuturesWithPool, and they do not do. An error that the options do *)
(* not pass aborts (conf.go:30, 165): a worker meets at most one.           *)
OptionsStopPools ==
  returned /\ ctx = "live" /\ how /= "run" =>
    Cardinality({ j \in 1..N : ran[j] > 0 /\ ~CanContinueOnError(conf, jobs[j]) }) <= size
(* Neither io.EOF nor ErrCurrentOpSkip is observed (conf.go:43, 77) *)
EndsUntold ==
  ctx = "live" /\ how /= "run" => \A j \in Range(told) : jobs[j] \notin {"eof", "skip"}
(* The end of the context is not told unless configured (conf.go:34, 78): a *)
(* job that is "ok" has only that to tell                                   *)
ContextEndsUntold ==
  how = "pull" /\ ~conf.includeCtx => \A j \in Range(told) : jobs[j] /= "ok"

(* A pool always returns, whichever jobs fail and whenever it is canceled *)
PoolReturns == <>[]returned

============================================================================
