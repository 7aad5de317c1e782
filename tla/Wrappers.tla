------------------------------ MODULE Wrappers -----------------------------
(* The methods of fnx.Worker, Operation, Handler and Future that wrap a     *)
(* function for one caller. The function is its script: the outcome of its  *)
(* i-th run, "ok", "panic" or an error. "err" is an error like any other,   *)
(* "eof" is io.EOF, "abort" another terminating error, "ctx" an expired     *)
(* context and "skip" is ErrCurrentOpSkip. An answer is the errors joined   *)
(* in the error returned (run numbers; 0 for the caller's context and -1    *)
(* for a hook), whether it panics instead, the number of runs, and the run  *)
(* whose value is returned (0: the zero value).                             *)
EXTENDS Integers, Sequences, FiniteSets

Answer(e, p, r, v) == [errs |-> e, panics |-> p, runs |-> r, value |-> v]
isTerminating(o) == o \in {"eof", "abort"}
Bad(a) == a.errs /= {} \/ a.panics

Run(s, i) == Answer(IF s[i] \in {"ok", "panic"} THEN {} ELSE {i}, s[i] = "panic", i, IF s[i] = "ok" THEN i ELSE 0)
NotRun == Answer({}, FALSE, 0, 0)

----------------------------------------------------------------------------
(* What is done with one answer *)
WithRecover(a) == [a EXCEPT !.errs = IF a.panics THEN @ \union {a.runs} ELSE @, !.panics = FALSE]
Job(a) == WithRecover(a)
FutureJob(a) == [WithRecover(a) EXCEPT !.value = IF a.panics THEN 0 ELSE @]
Check(a)  == a.errs = {}
FutureCheck(a) == <<a.value, Check(a)>>
Must(a)   == [a EXCEPT !.panics = @ \/ a.errs /= {}, !.errs = {}]
HandlerMust(a) == Must(a)
FutureMust(a) == [Must(a) EXCEPT !.value = IF a.errs /= {} THEN 0 ELSE @]
Ignore(a) == [a EXCEPT !.errs = {}]
HandlerIgnore(a) == Ignore(a)
(* Force waits, and ignores the error it says it panics with *)
Force(a) == Ignore(a)
WithoutErrors(s, a, drop) == [a EXCEPT !.errs = { i \in @ : s[i] \notin drop }]
If(cond, s)   == IF cond THEN Run(s, 1) ELSE NotRun
FutureIf(cond, s) == If(cond, s)
HandlerIf(cond, s) == If(cond, s)
CheckedFuture(value, more) == IF more THEN Answer({}, FALSE, 1, value) ELSE Answer({1}, FALSE, 1, 0)
PtrFuture(pointed) == CheckedFuture(pointed, pointed /= 0)
MakeConverterOk(value, ok) == Answer(IF ok THEN {} ELSE {1}, FALSE, 1, value)
FutureFilter(s, keep) == IF s[1] = "ok" /\ ~keep THEN [Run(s, 1) EXCEPT !.errs = {1}, !.value = 0] ELSE Run(s, 1)
HandlerFilter(s, keep) == IF keep THEN Run(s, 1) ELSE Answer({0}, FALSE, 0, 0)
(* The check fails before or after the future *)
WithErrorCheck(s, before, after) ==
  IF before THEN Answer({-1}, FALSE, 0, 0)
  ELSE LET a == Run(s, 1)
       IN IF a.panics THEN a
          ELSE [a EXCEPT !.errs = @ \union (IF after THEN {-1} ELSE {}), !.value = IF after THEN 0 ELSE @]
(* The wait ends for the context or for the timer, and for either when both *)
(* are over: the answers it may give                                        *)
doDelay(s, expired, elapsed) ==
  (IF expired THEN {Answer({0}, FALSE, 0, 0)} ELSE {}) \union (IF elapsed THEN {Run(s, 1)} ELSE {})
FutureDelay(s, expired, elapsed) == doDelay(s, expired, elapsed)
HandlerDelay(s, expired, elapsed) == doDelay(s, expired, elapsed)
OperationDelay(s, expired, elapsed) == { Ignore(a) : a \in doDelay(s, expired, elapsed) }
ErrorChannelWorker(isNil, expired, closed, s) ==
  IF isNil THEN {NotRun}
  ELSE (IF expired THEN {Answer({0}, FALSE, 0, 0)} ELSE {})
       \union (IF closed THEN {NotRun} ELSE IF s = <<>> THEN {} ELSE {Run(s, 1)})
ContextChannelWorker(expired) == IF expired THEN {Answer({0}, FALSE, 0, 0)} ELSE {}
(* The context made for a call is canceled when the function is back: the   *)
(* answer, and whether the context is then canceled                         *)
WithContextCall(s) == <<Ignore(Run(s, 1)), TRUE>>
WithContextDo(s) == <<Run(s, 1), TRUE>>

----------------------------------------------------------------------------
(* Hooks: the hook h and the function o are "ok" or end otherwise. "hooked" *)
(* is whether the hook ran.                                                 *)
Hook(h) == IF h = "panic" THEN {-1} ELSE {}
Hooked(e, p, r, hooked) == [errs |-> e, panics |-> p, runs |-> r, hooked |-> hooked]
Errs(o) == IF o \in {"ok", "panic"} THEN {} ELSE {1}
Caught(o) == IF o = "ok" THEN {} ELSE {1}
WorkerPreHook(h, o)     == Hooked(IF o = "panic" THEN {} ELSE Hook(h) \union Errs(o), o = "panic", 1, TRUE)
WorkerPostHook(h, o)    == Hooked(Hook(h) \union Caught(o), FALSE, 1, TRUE)
OperationPreHook(h, o)  == IF h = "panic" THEN Hooked({}, TRUE, 0, TRUE) ELSE Hooked({}, o = "panic", 1, TRUE)
OperationPostHook(h, o) == Hooked({}, h = "panic" \/ o = "panic", 1, TRUE)
(* Recover collects the panic, but the zero error is what is returned *)
HandlerPreHook(h, o)    == Hooked(IF o = "panic" THEN {} ELSE Hook(h) \union Errs(o), FALSE, 1, TRUE)
HandlerPostHook(h, o)   == Hooked(Hook(h) \union Caught(o), FALSE, 1, TRUE)
FuturePreHook(h, o)     == Hooked(IF o = "panic" THEN {} ELSE Hook(h) \union Errs(o), o = "panic", 1, TRUE)
FuturePostHook(h, o)    == IF o = "panic" THEN Hooked({}, TRUE, 1, FALSE)
                           ELSE Hooked(Hook(h) \union Errs(o), FALSE, 1, TRUE)

----------------------------------------------------------------------------
(* Many runs. The caller's context expires in run x. *)
RECURSIVE RetryFrom(_, _, _, _)
RetryFrom(s, n, i, errs) ==
  IF i > n THEN Answer(errs, FALSE, n, 0)
  ELSE CASE s[i] = "ok"            -> Answer({}, FALSE, i, i)
         [] s[i] = "panic"         -> Answer({}, TRUE, i, 0)
         [] s[i] = "skip"          -> RetryFrom(s, n, i + 1, errs)
         [] s[i] = "ctx"           -> Answer(errs \union {i}, FALSE, i, 0)
         [] isTerminating(s[i])    -> Answer({}, FALSE, i, 0)
         [] OTHER                  -> RetryFrom(s, n, i + 1, errs \union {i})
Retry(s, n) == RetryFrom(s, n, 1, {})

(* A future's skipped attempt is not counted ("left" counts down) *)
RECURSIVE FutureRetryFrom(_, _, _, _)
FutureRetryFrom(s, left, i, errs) ==
  IF left = 0 THEN Answer(errs, FALSE, i - 1, 0)
  ELSE CASE s[i] = "ok"            -> Answer({}, FALSE, i, i)
         [] s[i] = "panic"         -> Answer({}, TRUE, i, 0)
         [] s[i] = "skip"          -> FutureRetryFrom(s, left, i + 1, errs)
         [] s[i] = "ctx" \/ isTerminating(s[i]) -> Answer(errs \union {i}, FALSE, i, 0)
         [] OTHER                  -> FutureRetryFrom(s, left - 1, i + 1, errs \union {i})
FutureRetry(s, n) == FutureRetryFrom(s, n, 1, {})

RECURSIVE WhileFrom(_, _, _)
WhileFrom(s, x, i) ==
  LET a == Run(s, i)
  IN IF a.panics THEN a
     ELSE IF a.errs /= {} \/ i >= x THEN [a EXCEPT !.errs = @ \union (IF i >= x THEN {0} ELSE {})]
     ELSE WhileFrom(s, x, i + 1)
While(s, x) == WhileFrom(s, x, 1)
(* An operation has no error to stop it *)
OperationScript(s) == [i \in DOMAIN s |-> IF s[i] = "panic" THEN "panic" ELSE "ok"]
OperationWhile(s, x) == Ignore(While(OperationScript(s), x))

(* Between two runs there is a wait, which an expired context ends *)
RECURSIVE IntervalFrom(_, _, _)
IntervalFrom(s, x, i) ==
  IF x < i THEN Answer({0}, FALSE, i - 1, 0)
  ELSE IF Bad(Run(s, i)) THEN Run(s, i) ELSE IntervalFrom(s, x, i + 1)
Interval(s, x) == IntervalFrom(s, x, 1)
OperationInterval(s, x) == Ignore(Interval(OperationScript(s), x))

(* Join: the script is one run of each worker. Once the context has expired *)
(* the next worker is not run, and the answer is nil.                       *)
RECURSIVE JoinFrom(_, _, _)
JoinFrom(s, x, i) ==
  LET a == Run(s, i)
  IN IF Bad(a) \/ i = Len(s) \/ i >= x THEN a ELSE JoinFrom(s, x, i + 1)
Join(s, x) == JoinFrom(s, x, 1)
HandlerJoin(s, x) == Join(s, x)
OperationJoin(s, x) == Ignore(Join(OperationScript(s), x))
JoinHandlers(s, x) == LET some == SelectSeq(s, LAMBDA o : o /= "nil") IN IF some = <<>> THEN NotRun ELSE Join(some, x)

(* Future.Join: one call, from the state the calls before it left. The      *)
(* first future has the script s and the second the script t.               *)
Begun == [stage |-> "first", first |-> 0, second |-> 0, err |-> <<>>, out |-> <<>>]
RECURSIVE CallSecond(_, _)
CallSecond(st, t) ==
  LET i == st.second + 1
      n == [st EXCEPT !.second = i]
  IN CASE t[i] = "ok"   -> [n EXCEPT !.out = <<"value", 2, i>>]
       [] t[i] = "skip" -> CallSecond(n, t)
       [] t[i] = "eof"  -> [n EXCEPT !.stage = "eof", !.out = <<"error", 2, i>>]
       [] t[i] = "panic" -> [n EXCEPT !.out = <<"panic", 2, i>>]
       [] OTHER         -> [n EXCEPT !.stage = "second errored", !.err = <<"error", 2, i>>, !.out = <<"error", 2, i>>]
RECURSIVE CallFirst(_, _, _)
CallFirst(st, s, t) ==
  LET i == st.first + 1
      n == [st EXCEPT !.first = i]
  IN CASE s[i] = "ok"   -> [n EXCEPT !.out = <<"value", 1, i>>]
       [] s[i] = "skip" -> CallFirst(n, s, t)
       [] s[i] = "panic" -> [n EXCEPT !.out = <<"panic", 1, i>>]
       [] isTerminating(s[i]) -> CallSecond([n EXCEPT !.stage = "second"], t)
       [] OTHER         -> [n EXCEPT !.stage = "first errored", !.err = <<"error", 1, i>>, !.out = <<"error", 1, i>>]
JoinCall(st, s, t) ==
  CASE st.stage = "first"  -> CallFirst(st, s, t)
    [] st.stage = "second" -> CallSecond(st, t)
    [] st.stage = "eof"    -> [st EXCEPT !.out = <<"end", 0, 0>>]
    [] OTHER               -> [st EXCEPT !.out = st.err]
RECURSIVE FutureJoin(_, _, _, _)
FutureJoin(st, s, t, n) ==
  IF n = 0 THEN <<>> ELSE LET now == JoinCall(st, s, t) IN <<now.out>> \o FutureJoin(now, s, t, n - 1)

----------------------------------------------------------------------------
(* A retry makes no attempt after one that ended it, nor more than it was   *)
(* allowed (for a future, skipped ones aside). It answers nil when an       *)
(* attempt ended well; when it gave up, or the context ended, every failure *)
(* on the way. A worker answers nil when it was told to stop. What a future *)
(* then tells of the stop, besides the failures, is left open: see          *)
(* FutureRetryStops and FutureRetrySkips.                                   *)
Through(s, i) == { j \in 1..i : s[j] = "err" }
RetryTellsAll(s, n) ==
  LET a == Retry(s, n) f == FutureRetry(s, n)
      skips == { j \in 1..f.runs : s[j] = "skip" }
      ends(i) == s[i] \notin {"err", "skip"}
      failures(i) == Through(s, i) \union (IF s[i] = "ctx" THEN {i} ELSE {})
  IN /\ a.runs <= n /\ f.runs <= n + Cardinality(skips)
     /\ \A i \in 1..(a.runs - 1) : ~ends(i)
     /\ \A i \in 1..(f.runs - 1) : ~ends(i)
     /\ ~a.panics => a.errs = IF s[a.runs] = "ok" \/ isTerminating(s[a.runs]) THEN {} ELSE failures(a.runs)
     /\ f.value > 0 => s[f.runs] = "ok" /\ f.errs = {}
     /\ f.value = 0 /\ ~f.panics =>
          f.errs \ (IF isTerminating(s[f.runs]) THEN {f.runs} ELSE {}) = failures(f.runs)

(* What Future.Retry's comment says, and it does not do: a terminating      *)
(* error is not returned (future.go:346), and skips alone are, in the end,  *)
(* no error and no value (future.go:353).                                   *)
FutureRetryStops(s, n) ==
  LET f == FutureRetry(s, n) IN isTerminating(s[f.runs]) => f.runs \notin f.errs
FutureRetrySkips(s, n) ==
  (\A i \in 1..n : s[i] = "skip") => FutureRetry(s, n) = Answer({}, FALSE, n, 0)

(* What Future.Force's comment says: it panics in the case of an error      *)
(* (future.go:178)                                                          *)
ForcePanics(s) == Run(s, 1).errs /= {} => Force(Run(s, 1)).panics

(* While, Interval and Join make no run after one that failed, nor after    *)
(* the one in which the context expired; an operation's stop for a panic or *)
(* for the context alone.                                                   *)
StopsInTime(s, x) ==
  LET Stopped(a, q) == a.runs <= x /\ \A i \in 1..(a.runs - 1) : q[i] = "ok"
      o == OperationScript(s)
  IN /\ Stopped(Join(s, x), s) /\ Stopped(HandlerJoin(s, x), s) /\ Stopped(OperationJoin(s, x), o)
     /\ x <= Len(s) => /\ \A a \in { While(s, x), Interval(s, x) } : Stopped(a, s) /\ Bad(a)
                       /\ \A a \in { OperationWhile(s, x), OperationInterval(s, x) } :
                            Stopped(a, o) /\ (a.panics \/ a.runs = x)

(* What cannot fail does not, and what must not be answered after a failure *)
(* is not: a panic never passes a Job or an error a Check, a value never    *)
(* comes with an error, an expired wait runs nothing.                       *)
OneRunTold(s, expired, elapsed) ==
  LET a == Run(s, 1)
  IN /\ \A b \in { Job(a), FutureJob(a) } : ~b.panics /\ (b.errs = {}) = (s[1] = "ok")
     /\ \A b \in { Must(a), HandlerMust(a), FutureMust(a) } : b.panics = (s[1] /= "ok")
     /\ \A b \in { FutureJob(a), FutureMust(a), FutureFilter(s, TRUE), FutureFilter(s, FALSE),
                    WithErrorCheck(s, expired, elapsed), PtrFuture(0), PtrFuture(1) } : Bad(b) => b.value = 0
     /\ FutureCheck(Job(a))[2] = (s[1] = "ok")
     /\ \A b \in doDelay(s, expired, elapsed) \union HandlerDelay(s, expired, elapsed) \union FutureDelay(s, expired, elapsed) :
          (b.runs = 0) = (b.errs = {0})
     /\ \A b \in { If(expired, s), FutureIf(expired, s), HandlerIf(expired, s) } : b.runs = (IF expired THEN 1 ELSE 0)
     /\ (expired \/ elapsed) = (OperationDelay(s, expired, elapsed) /= {})
     /\ (expired \/ elapsed) = (ErrorChannelWorker(FALSE, expired, elapsed, <<>>) /= {})

(* A joined future answers the values of its first part, each once and in   *)
(* order, and then those of the second, and no value after an error.        *)
JoinsInTurn(s, t, n) ==
  LET outs == FutureJoin(Begun, s, t, n)
      is(i, k) == outs[i][1] = k
  IN \A i, j \in 1..n : i < j =>
       /\ is(i, "value") /\ is(j, "value") =>
            outs[i][2] < outs[j][2] \/ (outs[i][2] = outs[j][2] /\ outs[i][3] < outs[j][3])
       /\ is(i, "error") => ~is(j, "value")
       /\ is(i, "end") => is(j, "end")

(* What Future.Join's comment says, and it does not do: once the second     *)
(* future has ended, with any error, there is only io.EOF (future.go:91).   *)
JoinEnds(s, t, n) ==
  LET outs == FutureJoin(Begun, s, t, n)
  IN \A i, j \in 1..n : i < j /\ outs[i][1] = "error" /\ outs[i][2] = 2 => outs[j][1] = "end"

(* A hook that comes after the function runs when the function has ended,   *)
(* and when it has panicked too, but for a future's (the panic passes it    *)
(* by) and a handler's, of which nothing is said here. No failure is lost:  *)
(* what panicked or failed is told; the exception is Handler.PreHook, which *)
(* drops the handler's panic.                                               *)
HooksRun(h, o) ==
  /\ WorkerPostHook(h, o).hooked /\ OperationPostHook(h, o).hooked
  /\ o /= "panic" => HandlerPostHook(h, o).hooked /\ FuturePostHook(h, o).hooked
  /\ \A a \in { WorkerPreHook(h, o), WorkerPostHook(h, o), HandlerPostHook(h, o),
                FuturePreHook(h, o), FuturePostHook(h, o) } :
       ~a.panics => (a.hooked /\ h = "panic" => -1 \in a.errs) /\ (o /= "ok" => 1 \in a.errs)
  /\ \A a \in { OperationPreHook(h, o), OperationPostHook(h, o) } : "panic" \in {h, o} => a.panics

(* What Handler.PostHook's comment says, and it does not do: its hook does  *)
(* not run after a panic of the handler (handler.go:278)                    *)
HandlerPanicSkipsHook(h, o) == o = "panic" => ~HandlerPostHook(h, o).hooked

============================================================================
