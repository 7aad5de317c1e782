--------------------------- MODULE ServiceProofs ---------------------------
(***************************************************************************)
(* The safety of Service for every set of callers, every number of calls   *)
(* and every choice of the hooks that may fail.  One inductive invariant   *)
(* links the flags to the places of the goroutines they stand for.         *)
(***************************************************************************)
EXTENDS Service, TLAPS

\* Where the caller that runs the body of doStart.Do can be.
Body == {"handler", "cancel", "down", "main", "started", "running"}

Launched == main # "none" /\ down # "none" /\ handler # "none"

\* One caller at most is in the body, and while it is the Once is busy.
OneStarts == /\ \A p \in Callers : pc[p] \in Body => doStart = "busy"
             /\ \A p, q \in Callers : pc[p] \in Body /\ pc[q] \in Body => p = q

\* What has been launched, by the place in the body, and what the Once and
\* isStarted then promise.
LaunchOrder ==
  /\ doStart = "new" => main = "none" /\ down = "none" /\ handler = "none"
  /\ doStart = "done" \/ isStarted => Launched
  /\ \A p \in Callers :
       /\ pc[p] = "handler" => main = "none" /\ down = "none" /\ handler = "none"
       /\ pc[p] \in {"cancel", "down"} => main = "none" /\ down = "none"
       /\ pc[p] = "main" => main = "none" /\ down # "none"
       /\ pc[p] \in Body \ {"handler"} => handler # "none"
       /\ pc[p] \in {"started", "running"} => Launched
       /\ pc[p] = "waiting" => isStarted

\* Who can still add a failure: each goroutine waits for those before it.
EndOrder ==
  /\ isFinished <=> main \in {"finished", "stopped", "done"}
  /\ main \in MainAt \ {"none", "running", "returned"} => down \in {"signalled", "done"}
  /\ handler \in {"called", "done"} => main \in {"stopped", "done"} /\ told = failed \cap Hooks
  /\ handler \in {"none", "waiting"} => failed \subseteq Hooks
  /\ ec = failed

\* What a Wait that reported on the service holds.
Reported == out.err = "nil" => isFinished /\ failed \cap Hooks \subseteq out.errors

IInv == TypeOK /\ OneStarts /\ LaunchOrder /\ EndOrder /\ Reported

LEMMA InitIInv == ASSUME Init PROVE IInv
<1>0. /\ wg = Live(main) + Live(down) + Live(handler)
      /\ main \in MainAt /\ down \in DownAt /\ handler \in HandlerAt
  BY DEF Init, Live, MainAt, DownAt, HandlerAt
<1>4. out.err \in {"none", "nil", "ctx", NotStarted} /\ out.errors \subseteq failed
  BY DEF Init
<1>5. /\ call \in [Callers -> Calls \cup {"none"}] /\ pc \in [Callers -> CallerAt]
      /\ made \in 0..MaxCalls /\ failed \subseteq MayFail /\ ec \subseteq failed /\ told \subseteq ec
  BY ServiceAssumption DEF Init, CallerAt
<1>1. TypeOK
  BY <1>0, <1>4, <1>5 DEF Init, TypeOK
<1>2. OneStarts /\ LaunchOrder
  BY DEF Init, OneStarts, LaunchOrder, Body, Launched
<1>3. EndOrder /\ Reported
  BY DEF Init, EndOrder, Reported
<1> QED
  BY <1>1, <1>2, <1>3 DEF IInv

----------------------------------------------------------------------------
\* The steps of the callers.

\* A step that changes one caller's place, outside the body, and no goroutine.
LEMMA CallerKeeps ==
  ASSUME IInv, NEW p \in Callers, NEW s \in CallerAt \ Body,
         pc' = [pc EXCEPT ![p] = s], s = "waiting" => isStarted,
         isRunning' \in BOOLEAN, ctxDone' \in BOOLEAN,
         call' \in [Callers -> Calls \cup {"none"}], made' \in 0..MaxCalls,
         \/ out' = out
         \/ /\ out'.err \in {"nil", "ctx", NotStarted} /\ out'.errors \subseteq ec
            /\ out'.err = "nil" => isFinished /\ out'.errors = ec,
         UNCHANGED <<isFinished, isStarted, doStart, cancel, parentDone, wg, goroutines, errors>>
  PROVE  IInv'
<1>1. TypeOK'
  BY DEF IInv, TypeOK, EndOrder, goroutines, errors, Body
<1>2. \A q \in Callers : pc'[q] = IF q = p THEN s ELSE pc[q]
  BY DEF IInv, TypeOK
<1>3. OneStarts' /\ LaunchOrder'
  BY <1>2 DEF IInv, OneStarts, LaunchOrder, Launched, goroutines, Body
<1>4. EndOrder' /\ Reported'
  BY DEF IInv, EndOrder, Reported, goroutines, errors, NotStarted
<1> QED
  BY <1>1, <1>3, <1>4 DEF IInv

LEMMA ReturnKeeps ==
  ASSUME IInv, NEW p \in Callers, Goes(p, "wait") \/ Returns(p) \/ StartReturns(p),
         isRunning' \in BOOLEAN, ctxDone' \in BOOLEAN,
         UNCHANGED <<isFinished, isStarted, doStart, cancel, parentDone, wg, goroutines, errors>>
  PROVE  IInv'
<1>1. \E s \in {"wait", "idle"} : pc' = [pc EXCEPT ![p] = s]
  BY DEF Goes, Returns, Idles, StartReturns
<1>2. call' \in [Callers -> Calls \cup {"none"}] /\ made' = made /\ out' = out
  BY DEF Goes, Returns, Idles, StartReturns, IInv, TypeOK
<1> QED
  BY <1>1, <1>2, CallerKeeps DEF CallerAt, Body, IInv, TypeOK

LEMMA GoesKeeps ==
  ASSUME IInv, NEW p \in Callers, NEW s \in CallerAt \ Body, Goes(p, s),
         s = "waiting" => isStarted, isRunning' \in BOOLEAN, ctxDone' \in BOOLEAN,
         UNCHANGED <<isFinished, isStarted, doStart, cancel, parentDone, wg, goroutines, errors>>
  PROVE  IInv'
  BY CallerKeeps DEF Goes, IInv, TypeOK

LEMMA BeginKeeps == ASSUME IInv, NEW p \in Callers, Begin(p) PROVE IInv'
<1>1. PICK s \in {"close", "wait", "open"} : pc' = [pc EXCEPT ![p] = s]
  BY DEF Begin
<1>2. call' \in [Callers -> Calls \cup {"none"}] /\ made' \in 0..MaxCalls
  BY ServiceAssumption DEF Begin, IInv, TypeOK
<1> QED
  BY <1>1, <1>2, CallerKeeps DEF Begin, CallerAt, Body, flags, IInv, TypeOK

\* The body of doStart.Do, step by step.
LEMMA BodyKeeps ==
  ASSUME IInv, NEW p \in Callers, StartOnce(p) \/ StartBody(p) \/ StartEnds(p)
  PROVE  IInv'
<1> USE DEF IInv, flags, goroutines, errors, callers
<1>1. CASE StartOnce(p) /\ doStart = "done"
  BY <1>1, ReturnKeeps DEF StartOnce, TypeOK
<1>2. CASE StartOnce(p) /\ doStart # "done"
  <2>1. /\ doStart = "new" /\ doStart' = "busy" /\ Goes(p, "handler")
        /\ UNCHANGED <<flags, cancel, parentDone, ctxDone, wg, goroutines, errors>>
    BY <1>2 DEF StartOnce
  <2>2. TypeOK'
    BY <2>1 DEF TypeOK, Goes, CallerAt
  <2>3. OneStarts' /\ LaunchOrder'
    BY <2>1 DEF TypeOK, Goes, OneStarts, LaunchOrder, Launched, Body
  <2> QED
    BY <2>1, <2>2, <2>3 DEF EndOrder, Reported, Goes
<1>3. CASE StartBody(p)
  <2>0. PICK s \in Body : Goes(p, s)
    BY <1>3 DEF StartBody, Body
  <2>5. /\ main' \in MainAt /\ down' \in DownAt /\ handler' \in HandlerAt
        /\ wg' = Live(main') + Live(down') + Live(handler')
        /\ cancel' \in BOOLEAN /\ ctxDone' \in BOOLEAN
        /\ UNCHANGED <<flags, doStart, parentDone, errors>>
    <3>1. CASE pc[p] = "handler"
      BY <1>3, <3>1 DEF TypeOK, StartBody, LaunchOrder, Live, HandlerAt
    <3>2. CASE pc[p] = "cancel"
      BY <1>3, <3>2 DEF TypeOK, StartBody
    <3>3. CASE pc[p] = "down"
      BY <1>3, <3>3 DEF TypeOK, StartBody, LaunchOrder, Live, DownAt
    <3>4. CASE pc[p] = "main"
      BY <1>3, <3>4 DEF TypeOK, StartBody, LaunchOrder, Live, MainAt
    <3> QED
      BY <1>3, <3>1, <3>2, <3>3, <3>4 DEF StartBody
  <2>1. TypeOK'
    BY <2>0, <2>5 DEF TypeOK, Goes, CallerAt, Body
  <2>2. OneStarts'
    BY <1>3 DEF TypeOK, StartBody, Goes, OneStarts, Body
  <2>3. LaunchOrder'
    BY <1>3 DEF TypeOK, StartBody, Goes, OneStarts, LaunchOrder, Launched, Body
  <2>4. EndOrder' /\ Reported'
    BY <1>3 DEF TypeOK, StartBody, Goes, LaunchOrder, EndOrder, Reported, MainAt, Body
  <2> QED
    BY <2>1, <2>2, <2>3, <2>4
<1>4. CASE StartEnds(p) /\ pc[p] = "started"
  <2>1. TypeOK'
    BY <1>4 DEF TypeOK, StartEnds, Goes, CallerAt
  <2>2. OneStarts' /\ LaunchOrder'
    BY <1>4 DEF TypeOK, StartEnds, Goes, OneStarts, LaunchOrder, Launched, Body
  <2> QED
    BY <1>4, <2>1, <2>2 DEF EndOrder, Reported, StartEnds, Goes
<1>5. CASE StartEnds(p) /\ pc[p] = "running"
  <2>1. PICK s \in {"wait", "idle"} : pc' = [pc EXCEPT ![p] = s]
    BY <1>5 DEF StartEnds, StartReturns, Goes, Returns, Idles
  <2>2. /\ call' \in [Callers -> Calls \cup {"none"}] /\ made' = made /\ out' = out
        /\ isRunning' = TRUE /\ doStart' = "done"
        /\ UNCHANGED <<isFinished, isStarted, cancel, parentDone, ctxDone, wg, goroutines, errors>>
    BY <1>5 DEF StartEnds, StartReturns, Goes, Returns, Idles, TypeOK
  <2>3. TypeOK'
    BY <2>1, <2>2 DEF TypeOK, CallerAt
  <2>4. OneStarts' /\ LaunchOrder'
    BY <1>5, <2>1, <2>2 DEF TypeOK, OneStarts, LaunchOrder, Launched, Body
  <2> QED
    BY <2>2, <2>3, <2>4 DEF EndOrder, Reported
<1> QED
  BY <1>1, <1>2, <1>3, <1>4, <1>5 DEF StartEnds

\* A caller whose wg.Wait returns has seen the goroutines launched, so a count of
\* zero means that they have ended.
LEMMA AllDone == ASSUME IInv, isStarted, wg = 0
                 PROVE  main = "done" /\ down = "done" /\ handler = "done"
  BY DEF IInv, TypeOK, LaunchOrder, Launched, Live

LEMMA WaitForKeeps == ASSUME IInv, NEW p \in Callers, waitFor(p) PROVE IInv'
<1>1. \A e \in {"nil", "ctx", NotStarted}, errs \in SUBSET ec :
        /\ Answer(p, e, errs) /\ (e = "nil" => isFinished /\ errs = ec)
        /\ UNCHANGED <<flags, doStart, cancel, parentDone, ctxDone, wg, goroutines, errors>>
        => IInv'
  <2> SUFFICES ASSUME NEW e \in {"nil", "ctx", NotStarted}, NEW errs \in SUBSET ec,
                      Answer(p, e, errs), e = "nil" => isFinished /\ errs = ec,
                      UNCHANGED <<flags, doStart, cancel, parentDone, ctxDone, wg, goroutines, errors>>
               PROVE  IInv'
    OBVIOUS
  <2>1. call' \in [Callers -> Calls \cup {"none"}] /\ made' \in 0..MaxCalls
    BY DEF Answer, Idles, IInv, TypeOK
  <2>2. out'.err = e /\ out'.errors = errs /\ pc' = [pc EXCEPT ![p] = "idle"]
    BY DEF Answer, Idles
  <2>3. /\ isRunning' \in BOOLEAN /\ ctxDone' \in BOOLEAN
        /\ UNCHANGED <<isFinished, isStarted, doStart, cancel, parentDone, wg, goroutines, errors>>
        /\ "idle" \in CallerAt \ Body /\ "idle" # "waiting"
    BY DEF flags, IInv, TypeOK, CallerAt, Body
  <2> QED
    BY <2>1, <2>2, <2>3, CallerKeeps
<1>2. CASE pc[p] = "wait" /\ ~isFinished
  BY <1>2, GoesKeeps DEF waitFor, CallerAt, Body, flags, IInv, TypeOK
<1>3. CASE pc[p] = "asked" /\ isStarted
  BY <1>3, GoesKeeps DEF waitFor, CallerAt, Body, flags, IInv, TypeOK
<1>0. {} \in SUBSET ec /\ ec \in SUBSET ec /\ "nil" # "ctx" /\ "nil" # NotStarted
  BY DEF NotStarted
<1>4. CASE pc[p] = "wait" /\ isFinished
  BY <1>0, <1>1, <1>4 DEF waitFor
<1>5. CASE pc[p] = "asked" /\ ~isStarted
  BY <1>0, <1>1, <1>5 DEF waitFor
<1>6. CASE pc[p] = "waiting" /\ wg = 0
  <2>1. isFinished
    BY <1>6, AllDone DEF IInv, LaunchOrder, EndOrder
  <2> QED
    BY <1>0, <1>1, <1>6, <2>1 DEF waitFor
<1>7. CASE pc[p] = "waiting" /\ wg # 0
  BY <1>0, <1>1, <1>7 DEF waitFor
<1> QED
  BY <1>2, <1>3, <1>4, <1>5, <1>6, <1>7 DEF waitFor

LEMMA StartOpenKeeps ==
  ASSUME IInv, NEW p \in Callers, StartOpen(p) \/ StartSwap(p) \/ StartCAS(p)
  PROVE  IInv'
<1>1. /\ UNCHANGED <<isFinished, isStarted, doStart, cancel, parentDone, ctxDone, wg, goroutines,
                     errors>>
      /\ isRunning' \in BOOLEAN /\ ctxDone' \in BOOLEAN
  BY DEF StartOpen, StartSwap, StartCAS, flags, IInv, TypeOK
<1>2. StartReturns(p) \/ \E s \in {"swap", "cas", "won"} : Goes(p, s)
  BY DEF StartOpen, StartSwap, StartCAS
<1> QED
  BY <1>1, <1>2, ReturnKeeps, GoesKeeps DEF CallerAt, Body

LEMMA CloseKeeps == ASSUME IInv, NEW p \in Callers, Close(p) PROVE IInv'
<1>1. /\ UNCHANGED <<isFinished, isStarted, doStart, cancel, parentDone, wg, goroutines, errors>>
      /\ isRunning' \in BOOLEAN /\ ctxDone' \in BOOLEAN
  BY DEF Close, flags, IInv, TypeOK
<1>2. Returns(p) \/ Goes(p, "cancelling")
  BY DEF Close
<1> QED
  BY <1>1, <1>2, ReturnKeeps, GoesKeeps DEF CallerAt, Body

----------------------------------------------------------------------------
\* The steps of the goroutines.

\* The hooks of Start's three goroutines fail only while no error handler has been
\* called and nobody has been told that the service finished.
LEMMA HookKeeps ==
  ASSUME IInv, NEW h \in Hooks, Hook(h), ~isFinished, UNCHANGED told
  PROVE  /\ failed' = ec' /\ failed' \subseteq MayFail /\ told' \subseteq ec'
         /\ failed \subseteq failed' /\ (handler \in {"none", "waiting"} => failed' \subseteq Hooks)
  BY DEF Hook, IInv, TypeOK, EndOrder

\* A step of a goroutine in which a hook may fail while the service goes on.
LEMMA HookStepKeeps ==
  ASSUME IInv, NEW h \in Hooks, Hook(h), main \notin {"finished", "stopped", "done"},
         main' \in MainAt, down' \in DownAt, Live(main') = Live(main), Live(down') = Live(down),
         main' \notin {"finished", "stopped", "done"},
         main' \in MainAt \ {"none", "running", "returned"} => down' \in {"signalled", "done"},
         main' = "none" <=> main = "none", down' = "none" <=> down = "none",
         ctxDone' \in BOOLEAN, UNCHANGED <<flags, doStart, cancel, parentDone, wg, handler, told, callers>>
  PROVE  IInv'
<1> USE DEF flags, callers
<1>0. ~isFinished /\ handler \notin {"called", "done"}
  BY DEF IInv, EndOrder
<1>1. /\ failed' = ec' /\ failed' \subseteq MayFail /\ told' \subseteq ec'
      /\ failed \subseteq failed' /\ (handler \in {"none", "waiting"} => failed' \subseteq Hooks)
  BY <1>0, HookKeeps
<1>2. TypeOK'
  BY <1>1 DEF IInv, TypeOK
<1>3. OneStarts' /\ LaunchOrder'
  BY DEF IInv, OneStarts, LaunchOrder, Launched
<1>4. EndOrder' /\ Reported'
  BY <1>0, <1>1 DEF IInv, TypeOK, EndOrder, Reported, HandlerAt
<1> QED
  BY <1>2, <1>3, <1>4 DEF IInv

LEMMA RunKeeps == ASSUME IInv, Run PROVE IInv'
  BY HookStepKeeps DEF Run, Hooks, Live, MainAt, DownAt, IInv, TypeOK

LEMMA CleanupKeeps == ASSUME IInv, Cleanup PROVE IInv'
  BY HookStepKeeps DEF Cleanup, Hooks, Live, MainAt, DownAt, IInv, TypeOK, EndOrder

LEMMA ShutdownKeeps == ASSUME IInv, Shutdown PROVE IInv'
<1>1. CASE down = "shutdown"
  BY <1>1, HookStepKeeps DEF Shutdown, Hooks, Live, MainAt, DownAt, IInv, TypeOK, EndOrder
<1>2. CASE down = "signalled"
  <2> USE DEF flags, callers, IInv, Shutdown
  <2>1. TypeOK'
    BY <1>2 DEF TypeOK, Live, DownAt, MainAt, HandlerAt
  <2>2. OneStarts' /\ LaunchOrder'
    BY <1>2 DEF OneStarts, LaunchOrder, Launched
  <2>3. EndOrder' /\ Reported'
    BY <1>2 DEF EndOrder, Reported
  <2> QED
    BY <2>1, <2>2, <2>3
<1> QED
  BY <1>1, <1>2 DEF Shutdown

LEMMA SelectKeeps == ASSUME IInv, DownSelect \/ CleanupStarts PROVE IInv'
<1> USE DEF flags, goroutines, errors, callers, IInv, DownSelect, CleanupStarts
<1>1. TypeOK'
  BY DEF TypeOK, Live, DownAt, MainAt
<1>2. OneStarts' /\ LaunchOrder'
  BY DEF OneStarts, LaunchOrder, Launched
<1>3. EndOrder' /\ Reported'
  BY DEF EndOrder, Reported, MainAt
<1> QED
  BY <1>1, <1>2, <1>3

LEMMA FinishKeeps == ASSUME IInv, Finish PROVE IInv'
<1> USE DEF flags, goroutines, errors, callers, IInv, Finish
<1>0. main' \in MainAt /\ wg' = Live(main') + Live(down') + Live(handler')
  BY DEF TypeOK, Live, DownAt, MainAt, HandlerAt
<1>1. TypeOK'
  BY <1>0 DEF TypeOK
<1>2. OneStarts' /\ LaunchOrder'
  BY DEF OneStarts, LaunchOrder, Launched
<1>3. EndOrder' /\ Reported'
  BY DEF EndOrder, Reported, MainAt
<1> QED
  BY <1>1, <1>2, <1>3

LEMMA HandleKeeps == ASSUME IInv, Handle PROVE IInv'
<1> USE DEF flags, callers, IInv
<1>5. /\ handler' \in HandlerAt /\ wg' = Live(main') + Live(down') + Live(handler')
      /\ UNCHANGED <<flags, doStart, cancel, parentDone, ctxDone, main, down, callers>>
  BY DEF Handle, TypeOK, Live, HandlerAt, MainAt, DownAt
<1>6. failed' \subseteq MayFail /\ ec' \subseteq failed' /\ told' \subseteq ec' /\ failed \subseteq failed'
  BY DEF Handle, TypeOK, Hook
<1>1. TypeOK'
  <2>1. out'.errors \subseteq failed'
    BY <1>5, <1>6 DEF TypeOK
  <2> QED
    BY <1>5, <1>6, <2>1 DEF TypeOK
<1>2. OneStarts' /\ LaunchOrder'
  BY DEF Handle, OneStarts, LaunchOrder, Launched
<1>3. failed' \cap Hooks = failed \cap Hooks /\ ec' = failed'
  BY DEF Handle, Hook, Hooks, EndOrder
<1>4. EndOrder' /\ Reported'
  BY <1>3 DEF Handle, EndOrder, Reported
<1> QED
  BY <1>1, <1>2, <1>4

LEMMA ParentKeeps == ASSUME IInv, ParentEnds PROVE IInv'
<1> USE DEF flags, goroutines, errors, callers, IInv, ParentEnds
<1>1. TypeOK'
  BY DEF TypeOK
<1> QED
  BY <1>1 DEF OneStarts, LaunchOrder, Launched, EndOrder, Reported

----------------------------------------------------------------------------
LEMMA NextKeeps == ASSUME IInv, [Next]_vars PROVE IInv'
<1>1. CASE UNCHANGED vars
  <2>1. TypeOK'
    BY <1>1 DEF vars, flags, goroutines, errors, callers, IInv, TypeOK
  <2> QED
    BY <1>1, <2>1 DEF vars, flags, goroutines, errors, callers, IInv, OneStarts, LaunchOrder, Launched,
       EndOrder, Reported
<1>2. ASSUME NEW p \in Callers, Begin(p) \/ StartStep(p) \/ Close(p) \/ waitFor(p) PROVE IInv'
  BY <1>2, BeginKeeps, StartOpenKeeps, BodyKeeps, CloseKeeps, WaitForKeeps DEF StartStep
<1>3. CASE ParentEnds
  BY <1>3, ParentKeeps
<1>4. CASE Run \/ DownSelect \/ Shutdown
  BY <1>4, RunKeeps, SelectKeeps, ShutdownKeeps
<1>5. CASE CleanupStarts \/ Cleanup \/ Finish \/ Handle
  BY <1>5, SelectKeeps, CleanupKeeps, FinishKeeps, HandleKeeps
<1> QED
  BY <1>1, <1>2, <1>3, <1>4, <1>5 DEF Next

\* The inductive invariant: what the flags of the service say of its goroutines.
THEOREM Invariant == Spec => []IInv
  BY InitIInv, NextKeeps, PTL DEF Spec

\* A Wait or a Worker that reports on the service reports every failure of Run,
\* Shutdown and Cleanup: none of them can fail any more, however many callers
\* started, closed and waited meanwhile. The types come with it.
THEOREM WaitSeesAllInvariant == Spec => []WaitSeesAll
<1>1. IInv => WaitSeesAll
  BY DEF IInv, WaitSeesAll, Reported
<1> QED
  BY <1>1, Invariant, PTL

\* ErrorHandler is called with exactly the failures of the three hooks.
THEOREM HandlerSeesAllInvariant == Spec => []HandlerSeesAll
<1>1. IInv => HandlerSeesAll
  BY DEF IInv, HandlerSeesAll, EndOrder
<1> QED
  BY <1>1, Invariant, PTL

\* No race of Starts, Workers, Closes and the end of the service launches its
\* goroutines twice.
THEOREM LaunchedOnce == Spec => RunOnce
<1>1. ASSUME IInv, [Next]_vars
      PROVE  [/\ main' = "running" => main \in {"none", "running"}
              /\ down' = "waiting" => down \in {"none", "waiting"}]_vars
  <2>1. ASSUME NEW p \in Callers, StartBody(p)
        PROVE  (main' = main \/ main = "none") /\ (down' = down \/ down = "none")
    BY <1>1, <2>1 DEF StartBody, goroutines, IInv, LaunchOrder
  <2>2. CASE UNCHANGED vars
    BY <2>2
  <2>3. ASSUME NEW p \in Callers, Begin(p) \/ Close(p) \/ waitFor(p) PROVE UNCHANGED goroutines
    BY <2>3 DEF Begin, Close, waitFor
  <2>4. ASSUME NEW p \in Callers, StartOpen(p) \/ StartSwap(p) \/ StartCAS(p) \/ StartOnce(p) \/ StartEnds(p)
        PROVE  UNCHANGED goroutines
    BY <2>4 DEF StartOpen, StartSwap, StartCAS, StartOnce, StartEnds
  <2>5. CASE Run \/ DownSelect \/ Shutdown \/ CleanupStarts \/ Cleanup \/ Finish
    BY <2>5 DEF Run, DownSelect, Shutdown, CleanupStarts, Cleanup, Finish
  <2>6. CASE Handle \/ ParentEnds
    BY <2>6 DEF Handle, ParentEnds, goroutines
  <2> QED
    BY <1>1, <2>1, <2>2, <2>3, <2>4, <2>5, <2>6 DEF Next, StartStep, goroutines
<1> QED
  BY <1>1, Invariant, PTL DEF Spec, RunOnce
=============================================================================
