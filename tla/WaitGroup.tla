----------------------------- MODULE WaitGroup -----------------------------
(***************************************************************************)
(* fnx.WaitGroup (src/fnx/sync.go): a counter behind a mutex, a condition  *)
(* variable, and a Wait that takes a context.                              *)
(*                                                                         *)
(* What the counter counts is a set of tokens, one for every goroutine     *)
(* that Launch has started and every Inc that a caller owes a Done for.    *)
(*                                                                         *)
(* The goroutine that Wait starts to notice the end of its context calls   *)
(* Broadcast WITHOUT the mutex.  So Wait is cut between its test of the    *)
(* context and Cond.Wait as well: a goroutine at "checked" holds the mutex *)
(* and is not yet on the condition's list.                                 *)
(***************************************************************************)
EXTENDS Integers, FiniteSets

CONSTANTS Procs,     \* the goroutines that use the WaitGroup
          Tokens,    \* bound: the tokens, each used once
          MaxWaits,  \* bound: Wait calls that get as far as starting a goroutine
          Owner      \* Owner[t]: the goroutine that takes token t out

ASSUME WaitGroupAssumption ==
  /\ IsFiniteSet(Procs) /\ IsFiniteSet(Tokens) /\ Owner \in [Tokens -> Procs]
  /\ MaxWaits \in Nat

VARIABLES counter,    \* wg.counter
          pending,    \* the tokens taken out and not yet given back
          fresh,      \* the tokens never taken out
          at,         \* where in Wait each goroutine is
          cancelled,  \* the goroutines in a Wait whose context has ended
          signals,    \* the goroutines about to call Broadcast
          waits       \* how many Wait calls have started a goroutine

vars == <<counter, pending, fresh, at, cancelled, signals, waits>>

Init == /\ counter = 0 /\ pending = {} /\ fresh = Tokens
        /\ at = [p \in Procs |-> "idle"] /\ cancelled = {}
        /\ signals = 0 /\ waits = 0

\* Nobody is between the test of the context and Cond.Wait, mutex in hand.
Free == \A p \in Procs : at[p] # "checked"

Goes(p, s) == at' = [at EXCEPT ![p] = s]

Woken == [p \in Procs |-> IF at[p] = "asleep" THEN "woken" ELSE at[p]]

\* Mutant: the counter is changed and then checked.
AddUnchecked(n) == counter' = counter + n /\ at' = IF counter' = 0 THEN Woken ELSE at

\* Mutant: the last Done wakes nobody.
AddQuietly(n) == counter' = (IF counter + n >= 0 THEN counter + n ELSE counter) /\ at' = at

\* Add(n): it panics, and leaves the counter alone, rather than go below zero.
Add(n) ==
  \/ counter + n < 0 /\ UNCHANGED <<counter, at>>
  \/ /\ counter + n >= 0
     /\ counter' = counter + n
     /\ at' = IF counter' = 0 THEN Woken ELSE at

\* Inc, and Launch, which starts a goroutine that ends with Done.  Add of more
\* than one is as many of these.
Inc(p) == \E t \in fresh :
            /\ Free /\ at[p] = "idle" /\ Owner[t] = p
            /\ Add(1)
            /\ pending' = pending \cup {t} /\ fresh' = fresh \ {t}
            /\ UNCHANGED <<cancelled, signals, waits>>

\* A launched goroutine ends, or a caller calls the Done it owes.
Done == \E t \in pending :
          /\ Free
          /\ Add(-1)
          /\ pending' = pending \ {t}
          /\ UNCHANGED <<fresh, cancelled, signals, waits>>

\* More is given back than was taken out.
Overdraw == /\ Free
            /\ Add(-(counter + 1))
            /\ UNCHANGED <<pending, fresh, cancelled, signals, waits>>

----------------------------------------------------------------------------
\* Wait.

\* Wait returns: the deferred cancel() ends the derived context, so the goroutine
\* it started will broadcast, unless the caller's context has let it go before.
Return(p) == /\ Goes(p, "idle")
             /\ cancelled' = cancelled \ {p}
             /\ signals' = IF p \in cancelled THEN signals ELSE signals + 1
             /\ UNCHANGED <<counter, pending, fresh, waits>>

Proceed(p) == Goes(p, "checked") /\ UNCHANGED <<counter, pending, fresh, cancelled, signals, waits>>

\* The first look: a Wait that returns at once changes nothing and is no step.
\* The context may end before the goroutine's first turn of the loop.
Wait(p) == /\ Free /\ at[p] = "idle" /\ counter # 0 /\ waits < MaxWaits
           /\ waits' = waits + 1
           /\ \/ Goes(p, "checked") /\ UNCHANGED signals
              \/ signals' = signals + 1 /\ UNCHANGED at
           /\ UNCHANGED <<counter, pending, fresh, cancelled>>

\* Cond.Wait: onto the list, and out of the mutex.
Block(p) == /\ at[p] = "checked" /\ Goes(p, "asleep")
            /\ UNCHANGED <<counter, pending, fresh, cancelled, signals, waits>>

\* Mutant: whoever wakes Wait, it returns.
RelockAndReturn(p) == at[p] = "woken" /\ Free /\ Return(p)

\* Cond.Wait returns with the mutex: the counter, then the context, then again.
Relock(p) == /\ at[p] = "woken" /\ Free
             /\ \/ (counter = 0 \/ p \in cancelled) /\ Return(p)
                \/ counter # 0 /\ p \notin cancelled /\ Proceed(p)

\* The caller's context ends: the goroutine that Wait started will broadcast.
Cancel(p) == /\ at[p] # "idle" /\ p \notin cancelled
             /\ cancelled' = cancelled \cup {p}
             /\ signals' = signals + 1
             /\ UNCHANGED <<counter, pending, fresh, at, waits>>

Broadcast == /\ signals > 0
             /\ signals' = signals - 1
             /\ at' = Woken
             /\ UNCHANGED <<counter, pending, fresh, cancelled, waits>>

Next == \/ Done \/ Overdraw \/ Broadcast
        \/ \E p \in Procs : Inc(p) \/ Wait(p) \/ Block(p) \/ Relock(p) \/ Cancel(p)

Spec == Init /\ [][Next]_vars

\* What has started goes on.  The mutex is handed on in turn (Go's mutex starves
\* nobody), so a woken goroutine gets it though others take it in between.
Fairness == /\ WF_vars(Broadcast)
            /\ \A p \in Procs : WF_vars(Block(p)) /\ SF_vars(Relock(p))

FairSpec == Spec /\ Fairness

----------------------------------------------------------------------------
\* TypeOK, the type invariant: one goroutine at most holds the mutex.
TypeOK ==
  /\ counter \in Nat /\ signals \in Nat /\ waits \in 0..MaxWaits
  /\ pending \subseteq Tokens /\ fresh \subseteq Tokens \ pending
  /\ cancelled \subseteq {p \in Procs : at[p] # "idle"}
  /\ at \in [Procs -> {"idle", "checked", "asleep", "woken"}]
  /\ \A p, q \in Procs : at[p] = "checked" /\ at[q] = "checked" => p = q

\* The counter is the number of tokens that are out, though calls that would have
\* taken it below zero have panicked.
Counted == counter = Cardinality(pending)

\* Nobody sleeps through the counter's reaching zero: whenever it is zero, every
\* Wait is on its way out, whatever Broadcast without the mutex did before.
NoLostZero == \A p \in Procs : at[p] \in {"checked", "asleep"} => counter # 0

(***************************************************************************)
(* Group waits for its own operations: a Wait whose context has not ended  *)
(* returns only when nothing its caller launched is running, whichever     *)
(* other callers share the WaitGroup and however often it was woken.       *)
(***************************************************************************)
OwnOperationsDone ==
  [][\A p \in Procs : at[p] # "idle" /\ at'[p] = "idle" /\ p \notin cancelled
                       => \A t \in pending : Owner[t] # p]_vars

\* Once the counter stays at zero every Wait returns.
ZeroReturns == \A p \in Procs : <>[](counter = 0) => (at[p] # "idle" ~> at[p] = "idle")

(***************************************************************************)
(* What the comment on Wait says: it blocks until the context is cancelled *)
(* or all items have completed.  So once its context has ended it returns. *)
(***************************************************************************)
CancelReturns == \A p \in Procs : p \in cancelled ~> at[p] = "idle"
=============================================================================
