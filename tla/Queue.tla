------------------------------- MODULE Queue -------------------------------
(***************************************************************************)
(* pubsub.Queue (src/pubsub/queue.go) under concurrent callers: a singly   *)
(* linked list behind one mutex, two condition variables, a count of the   *)
(* drains in progress and a closed flag.                                   *)
(*                                                                         *)
(* A step is one critical section.  An operation that waits is cut where   *)
(* Cond.Wait gives the mutex up: the goroutine is "asleep" until somebody  *)
(* signals its condition, then "woken" until it takes the mutex again and  *)
(* goes once more round its loop.  A context may end at any time after the *)
(* call has started; wakeOnCancel (src/pubsub/deque_element.go) then       *)
(* starts a goroutine which takes the mutex and broadcasts, a separate     *)
(* later step that nothing can take back once it has started.              *)
(*                                                                         *)
(* List entries are numbered as they are allocated, and an item is known   *)
(* by the number of the entry that carried it first.                       *)
(***************************************************************************)
EXTENDS QueueLimits, FiniteSets

CONSTANTS Procs,      \* the calling goroutines
          Program,    \* Program[p]: the operations goroutine p calls, on one
                      \* sequence at most
          Options,    \* the QueueOptions NewQueue may be given
          Unlimited,  \* whether NewUnlimitedQueue is tried as well
          MaxPushes,  \* bound: entries ever allocated
          MaxWakes    \* bound: a call with a context starts only while fewer
                      \* cancel goroutines than this are pending

Op == {"Push", "WaitPush", "Pop", "WaitPop", "Drain", "Shutdown", "Close",
       "IteratorWait", "IteratorWaitPop", "Iterator"}

ASSUME QueueAssumption ==
  /\ IsFiniteSet(Procs) /\ Program \in [Procs -> SUBSET Op]
  /\ \A p \in Procs : ~({"IteratorWait", "Iterator"} \subseteq Program[p])
  /\ Options \subseteq [HardLimit : Int, SoftQuota : Int, BurstCredit : Int]
  /\ Unlimited \in BOOLEAN /\ MaxPushes \in Nat /\ MaxWakes \in Nat

\* The exact arithmetic of QueueLimits: CreditUnit is divisible by every quota.
ASSUME CreditAssumption ==
  \A o \in Options : \A s \in 1..o.HardLimit : CreditUnit % s = 0

Nil   == -1   \* the nil *entry
Front == 0    \* the sentinel; q.front never changes

VARIABLES tracker,    \* q.tracker
          drainers,   \* q.drainers
          closed,     \* q.closed
          link,       \* link[e]: the link of entry e, the sentinel included
          popped,     \* the entries that are marked popped
          added,      \* the number of the newest entry allocated
          back,       \* q.back
          op,         \* op[p]: the call p is in, or "none"
          at,         \* at[p]: where in that call p is
          cancelled,  \* the goroutines in a call whose context has ended
          cursor,     \* cursor[p]: the entry p's iterator last yielded
          wakes,      \* wakes[c]: started cancel goroutines that will broadcast on c
          ret         \* history: what the last call to return reported

list     == <<link, popped, added, back>>
shared   == <<tracker, drainers, closed, link, popped, added, back>>
vars     == <<tracker, drainers, closed, link, popped, added, back,
              op, at, cancelled, cursor, wakes, ret>>

Conds  == {"nempty", "nupdates"}
Where  == {"idle", "asleep", "woken", "checked", "empty"}
Errors == {"nil", "ErrQueueClosed", "ErrQueueDraining", "ErrQueueFull",
           "ErrQueueNoCredit", "ctx", "end"}

\* The condition variable an operation waits on.
CondOf(o) == IF o \in {"WaitPush", "IteratorWait"} THEN "nupdates" ELSE "nempty"

Trackers == {SoftTracker(Defaults(o)) : o \in {x \in Options : Acceptable(x)}}
              \cup (IF Unlimited THEN {NoLimitTracker} ELSE {})

Init ==
  /\ tracker \in Trackers
  /\ drainers = 0 /\ closed = FALSE
  /\ link = [e \in {Front} |-> Nil] /\ popped = {}
  /\ added = 0 /\ back = Front
  /\ op = [p \in Procs |-> "none"] /\ at = [p \in Procs |-> "idle"]
  /\ cancelled = {} /\ cursor = [p \in Procs |-> Nil]
  /\ wakes = [c \in Conds |-> 0]
  /\ ret = [op |-> "none", err |-> "nil", item |-> 0]

----------------------------------------------------------------------------
\* Goroutines, condition variables and contexts.

Sleepers(c) == {q \in Procs : at[q] = "asleep" /\ CondOf(op[q]) = c}

\* The sets of goroutines one Signal may wake, out of those asleep in S.
Signal(S) == IF S = {} THEN {{}} ELSE {{q} : q \in S}

\* p goes to s and the goroutines in W wake.
Goes(p, s, W) == at' = [q \in Procs |-> IF q = p THEN s
                                        ELSE IF q \in W THEN "woken" ELSE at[q]]

Return(p, o, e, item, W) ==
  /\ Goes(p, "idle", W)
  /\ op' = [op EXCEPT ![p] = "none"]
  /\ cancelled' = cancelled \ {p}
  /\ ret' = [op |-> o, err |-> e, item |-> item]

\* p stays in call o with a context that has (c) or has not ended.
Stay(p, o, c, s, W) ==
  /\ Goes(p, s, W)
  /\ op' = [op EXCEPT ![p] = o]
  /\ cancelled' = IF c THEN cancelled \cup {p} ELSE cancelled \ {p}
  /\ UNCHANGED ret

Sleep(p, o, W) == Stay(p, o, FALSE, "asleep", W)

\* A cancel goroutine for condition c starts.
Spawned(c) == [wakes EXCEPT ![c] = @ + 1]

Calls(p, o) == at[p] = "idle" /\ o \in Program[p]

\* The first critical section of a call whose context has (c) or has not ended:
\* wakeOnCancel on a context that has ended starts its goroutine at once.
Enters(p, o, c) ==
  /\ Calls(p, o) /\ wakes[CondOf(o)] < MaxWakes
  /\ wakes' = IF c THEN Spawned(CondOf(o)) ELSE wakes

Resumes(p, o, c) == at[p] = "woken" /\ op[p] = o /\ c = (p \in cancelled) /\ UNCHANGED wakes

----------------------------------------------------------------------------
\* Push and WaitPush.

\* Mutant: the test for drains in progress is missing.
AddOutcomeUndrained == IF closed THEN "ErrQueueClosed" ELSE AddError(tracker)

AddOutcome == IF drainers > 0 THEN "ErrQueueDraining"
              ELSE IF closed THEN "ErrQueueClosed"
              ELSE AddError(tracker)

\* Mutant: q.back is not moved to the new entry.
EnqueueStaleBack ==
  /\ tracker' = Added(tracker)
  /\ added' = added + 1
  /\ link' = [e \in 0..(added + 1) |-> IF e = added + 1 THEN Nil
                                      ELSE IF e = back THEN added + 1 ELSE link[e]]
  /\ UNCHANGED <<back, popped>>

\* A new entry goes to the back of the list.
Enqueue ==
  /\ tracker' = Added(tracker)
  /\ added' = added + 1
  /\ link' = [e \in 0..(added + 1) |-> IF e = added + 1 THEN Nil
                                      ELSE IF e = back THEN added + 1 ELSE link[e]]
  /\ back' = added + 1
  /\ UNCHANGED popped

doAdd(p, o) ==
  \/ /\ AddOutcome # "nil"
     /\ Return(p, o, AddOutcome, 0, {})
     /\ UNCHANGED shared
  \/ /\ AddOutcome = "nil"
     /\ Enqueue
     /\ Return(p, o, "nil", added + 1, Sleepers("nempty") \cup Sleepers("nupdates"))
     /\ UNCHANGED <<drainers, closed>>

\* Bound: a push is started only if an entry is left for it.
EntryLeft == added + Cardinality({q \in Procs : op[q] = "WaitPush"}) < MaxPushes

Push(p) == /\ Calls(p, "Push") /\ EntryLeft
           /\ doAdd(p, "Push")
           /\ UNCHANGED <<cursor, wakes>>

WaitPush(p) ==
  \E c \in BOOLEAN :
    /\ (EntryLeft /\ Enters(p, "WaitPush", c)) \/ Resumes(p, "WaitPush", c)
    /\ \/ drainers > 0 /\ Return(p, "WaitPush", "ErrQueueDraining", 0, {}) /\ UNCHANGED shared
       \/ drainers = 0 /\ closed /\ Return(p, "WaitPush", "ErrQueueClosed", 0, {}) /\ UNCHANGED shared
       \/ drainers = 0 /\ ~closed /\ c /\ Return(p, "WaitPush", "ctx", 0, {}) /\ UNCHANGED shared
       \/ drainers = 0 /\ ~closed /\ ~c /\ Capacity(tracker) > tracker.length /\ doAdd(p, "WaitPush")
       \/ /\ drainers = 0 /\ ~closed /\ ~c /\ Capacity(tracker) <= tracker.length
          /\ Sleep(p, "WaitPush", {}) /\ UNCHANGED shared
    /\ UNCHANGED cursor

----------------------------------------------------------------------------
\* Pop, WaitPop and IteratorWaitPop.

\* Mutant: popFront does not tell the drains that the queue is empty.
PopWakesUpdates == Sleepers("nupdates")

\* What popFront itself wakes.
PopWakes == Sleepers("nupdates")
              \cup (IF Removed(tracker).length = 0 THEN Sleepers("nempty") ELSE {})

First == link[Front]

\* Mutant: q.back keeps pointing at the entry that has just left.
DequeueKeepsBack ==
  /\ link' = [link EXCEPT ![Front] = link[First], ![First] = Nil]
  /\ popped' = popped \cup {First}
  /\ tracker' = Removed(tracker)
  /\ UNCHANGED <<added, back>>

\* The oldest entry leaves the list and loses its link.
Dequeue ==
  /\ link' = [link EXCEPT ![Front] = link[First], ![First] = Nil]
  /\ popped' = popped \cup {First}
  /\ back' = IF First = back THEN Front ELSE back
  /\ tracker' = Removed(tracker)
  /\ UNCHANGED added

\* popFront, for a caller that wakes the goroutines in `more` on top of it.
popFront(p, o, more) ==
  /\ Dequeue
  /\ Return(p, o, "nil", First, PopWakes \cup more)
  /\ UNCHANGED <<drainers, closed>>

\* What Pop wakes after popFront: everybody on one condition while a drain is
\* in progress, one goroutine otherwise.
PopSignals ==
  LET c == IF tracker.length = 1 THEN "nempty" ELSE "nupdates"
      S == Sleepers(c) \ PopWakes
  IN  IF drainers > 0 THEN {S} ELSE Signal(S)

Poppable == ~closed /\ tracker.length > 0

PopNow(p, o) == Poppable /\ \E W \in PopSignals : popFront(p, o, W)

Pop(p) == /\ Calls(p, "Pop")
          /\ \/ PopNow(p, "Pop")
             \/ ~Poppable /\ Return(p, "Pop", "end", 0, {}) /\ UNCHANGED shared
          /\ UNCHANGED <<cursor, wakes>>

\* One turn of WaitPop's loop.
WaitPopTurn(p, o, c) ==
  \/ closed /\ Return(p, o, "ErrQueueClosed", 0, {}) /\ UNCHANGED shared
  \/ ~closed /\ c /\ Return(p, o, "ctx", 0, {}) /\ UNCHANGED shared
  \/ ~closed /\ ~c /\ tracker.length > 0 /\ popFront(p, o, {})
  \/ ~closed /\ ~c /\ tracker.length <= 0 /\ Sleep(p, o, {}) /\ UNCHANGED shared

WaitPop(p) ==
  \E c \in BOOLEAN : /\ Enters(p, "WaitPop", c) \/ Resumes(p, "WaitPop", c)
                     /\ WaitPopTurn(p, "WaitPop", c)
                     /\ UNCHANGED cursor

\* One step of the consuming iterator: the context is read without the mutex,
\* then Pop, and then WaitPop if Pop had nothing, each on its own.
IteratorCheck(p) ==
  /\ Calls(p, "IteratorWaitPop") /\ wakes["nempty"] < MaxWakes
  /\ \E c \in BOOLEAN : IF c THEN Return(p, "IteratorWaitPop", "ctx", 0, {})
                             ELSE Stay(p, "IteratorWaitPop", FALSE, "checked", {})
  /\ UNCHANGED <<shared, cursor, wakes>>

IteratorPop(p) ==
  /\ at[p] = "checked"
  /\ \/ PopNow(p, op[p])
     \/ /\ ~Poppable /\ Stay(p, op[p], p \in cancelled, "empty", {})
        /\ UNCHANGED shared
  /\ UNCHANGED <<cursor, wakes>>

IteratorWaitPop(p) ==
  \/ /\ at[p] = "empty"
     /\ wakes' = IF p \in cancelled THEN Spawned("nempty") ELSE wakes
     /\ WaitPopTurn(p, op[p], p \in cancelled)
     /\ UNCHANGED cursor
  \/ \E c \in BOOLEAN : /\ Resumes(p, "IteratorWaitPop", c)
                        /\ WaitPopTurn(p, "IteratorWaitPop", c)
                        /\ UNCHANGED cursor

----------------------------------------------------------------------------
\* Drain, Shutdown and Close.

DrainOps == {"Drain", "Shutdown"}

\* Mutant: an error path, or the success path, leaves the drain counted.
DrainedStillCounted(p, o, e, n, c, W) ==
  /\ wakes' = IF c THEN wakes ELSE Spawned("nempty")
  /\ closed' = (closed \/ (o = "Shutdown" /\ e = "nil"))
  /\ Return(p, o, e, 0, W \cup Sleepers("nempty") \cup Sleepers("nupdates"))
  /\ UNCHANGED <<tracker, drainers, list, cursor>>

\* Mutant: the drain that never had to wait is taken off the count as well.
DrainedTwice(p, o, e, n, c, W) ==
  /\ drainers' = n - 1
  /\ wakes' = IF c THEN wakes ELSE Spawned("nempty")
  /\ closed' = (closed \/ (o = "Shutdown" /\ e = "nil"))
  /\ Return(p, o, e, 0, W \cup Sleepers("nempty") \cup Sleepers("nupdates"))
  /\ UNCHANGED <<tracker, list, cursor>>

\* waitForDrain returns with n drainers left, its own context c ended or not.
\* Its deferred cancel() ends the derived context, so the cancel goroutine
\* starts now unless the caller's context started it before.  Shutdown goes on
\* to close the queue if there was no error.
Drained(p, o, e, n, c, W) ==
  LET closes == o = "Shutdown" /\ e = "nil"
  IN  /\ drainers' = n
      /\ wakes' = IF c THEN wakes ELSE Spawned("nempty")
      /\ closed' = (closed \/ closes)
      /\ Return(p, o, e, 0, W \cup (IF closes THEN Sleepers("nempty") \cup Sleepers("nupdates")
                                              ELSE {}))
      /\ UNCHANGED <<tracker, list, cursor>>

DrainEnter(p) ==
  \E o \in DrainOps, c \in BOOLEAN :
    /\ Calls(p, o) /\ wakes["nempty"] < MaxWakes
    /\ \/ /\ closed /\ Return(p, o, "ErrQueueClosed", 0, {})
          /\ UNCHANGED <<shared, cursor, wakes>>
       \/ /\ ~closed /\ c /\ Return(p, o, "ctx", 0, {})
          /\ UNCHANGED <<shared, cursor, wakes>>
       \/ /\ ~closed /\ ~c /\ tracker.length = 0
          /\ Drained(p, o, "nil", drainers, FALSE, Sleepers("nupdates"))
       \/ /\ ~closed /\ ~c /\ tracker.length > 0
          /\ drainers' = drainers + 1
          /\ Sleep(p, o, Sleepers("nupdates"))
          /\ UNCHANGED <<tracker, closed, list, cursor, wakes>>

DrainResume(p) ==
  \E o \in DrainOps :
    /\ at[p] = "woken" /\ op[p] = o
    /\ \/ tracker.length = 0 /\ Drained(p, o, "nil", drainers - 1, p \in cancelled, {})
       \/ /\ tracker.length > 0 /\ closed
          /\ Drained(p, o, "ErrQueueClosed", drainers - 1, p \in cancelled, {})
       \/ /\ tracker.length > 0 /\ ~closed /\ p \in cancelled
          /\ Drained(p, o, "ctx", drainers - 1, TRUE, {})
       \/ /\ tracker.length > 0 /\ ~closed /\ p \notin cancelled
          /\ Sleep(p, o, {}) /\ UNCHANGED <<shared, cursor, wakes>>

Close(p) == /\ Calls(p, "Close")
            /\ closed' = TRUE
            /\ Return(p, "Close", "nil", 0, Sleepers("nempty") \cup Sleepers("nupdates"))
            /\ UNCHANGED <<tracker, drainers, list, cursor, wakes>>

----------------------------------------------------------------------------
\* The iterators that leave the items in the queue.

\* Mutant: from a popped entry, the sentinel's successor is taken as passed.
afterSkips(c) == IF c \notin popped THEN link[c] ELSE IF First = Nil THEN Nil ELSE link[First]

\* The entry that follows c: a popped entry has lost its link, and everything
\* still queued is newer than it.
after(c) == IF c \in popped THEN First ELSE link[c]

Place(p) == IF cursor[p] = Nil THEN Front ELSE cursor[p]

Yield(p, o) == /\ after(Place(p)) # Nil
               /\ cursor' = [cursor EXCEPT ![p] = after(Place(p))]
               /\ Return(p, o, "nil", after(Place(p)), {})

\* One step of IteratorWait.  The sequence keeps its cursor for good.
IteratorWait(p) ==
  \E c \in BOOLEAN :
    /\ Enters(p, "IteratorWait", c) \/ Resumes(p, "IteratorWait", c)
    /\ \/ (closed \/ ~c) /\ Yield(p, "IteratorWait")
       \/ /\ \/ closed /\ after(Place(p)) = Nil
             \/ ~closed /\ c
          /\ cursor' = [cursor EXCEPT ![p] = Place(p)]
          /\ Return(p, "IteratorWait", "end", 0, {})
       \/ /\ ~closed /\ ~c /\ after(Place(p)) = Nil
          /\ cursor' = [cursor EXCEPT ![p] = Place(p)]
          /\ Sleep(p, "IteratorWait", {})
    /\ UNCHANGED shared

\* One step of a range over Iterator: it never waits, and a range that ends
\* leaves no cursor behind.
Iterator(p) ==
  /\ Calls(p, "Iterator")
  /\ \/ ~closed /\ Yield(p, "Iterator")
     \/ /\ closed \/ after(Place(p)) = Nil
        /\ cursor' = [cursor EXCEPT ![p] = Nil]
        /\ Return(p, "Iterator", "end", 0, {})
  /\ UNCHANGED <<shared, wakes>>

----------------------------------------------------------------------------
\* The context of p's call ends.  wakeOnCancel is in force from the first
\* critical section that may wait, so not between IteratorWaitPop's two halves.
Cancel(p) == /\ at[p] # "idle" /\ p \notin cancelled
             /\ cancelled' = cancelled \cup {p}
             /\ wakes' = IF at[p] \in {"asleep", "woken"} THEN Spawned(CondOf(op[p])) ELSE wakes
             /\ UNCHANGED <<shared, op, at, cursor, ret>>

\* A cancel goroutine takes the mutex and broadcasts.
WakeOnCancel(c) == /\ wakes[c] > 0
                   /\ wakes' = [wakes EXCEPT ![c] = @ - 1]
                   /\ at' = [q \in Procs |-> IF q \in Sleepers(c) THEN "woken" ELSE at[q]]
                   /\ UNCHANGED <<shared, op, cancelled, cursor, ret>>

Step(p) == \/ Push(p) \/ WaitPush(p) \/ Pop(p) \/ WaitPop(p)
           \/ IteratorCheck(p) \/ IteratorPop(p) \/ IteratorWaitPop(p)
           \/ DrainEnter(p) \/ DrainResume(p) \/ Close(p)
           \/ IteratorWait(p) \/ Iterator(p) \/ Cancel(p)

Next == (\E p \in Procs : Step(p)) \/ (\E c \in Conds : WakeOnCancel(c))

Spec == Init /\ [][Next]_vars

\* A goroutine that can go on does: Go's mutex does not starve a waiter, and a
\* started goroutine runs.  Nothing makes a caller start another call, and
\* nothing makes a context end.
GoesOn(p) == /\ at[p] # "idle"
             /\ \/ WaitPush(p) \/ WaitPop(p) \/ IteratorPop(p) \/ IteratorWaitPop(p)
                \/ DrainResume(p) \/ IteratorWait(p)

Fairness == /\ \A p \in Procs : WF_vars(GoesOn(p))
            /\ \A c \in Conds : WF_vars(WakeOnCancel(c))

FairSpec == Spec /\ Fairness

----------------------------------------------------------------------------
(***************************************************************************)
(* TypeOK, the type invariant: the types of the fields in queue.go and of  *)
(* each goroutine's place in its call.                                     *)
(***************************************************************************)
ListTyped ==
  /\ tracker \in Tracker /\ added \in Nat /\ back \in 0..added
  /\ link \in [0..added -> {Nil} \cup 1..added] /\ popped \subseteq 1..added

CallsTyped ==
  /\ op \in [Procs -> Op \cup {"none"}] /\ at \in [Procs -> Where]
  /\ cancelled \subseteq Procs /\ cursor \in [Procs -> {Nil} \cup 0..added]
  /\ wakes \in [Conds -> Nat]
  /\ ret \in [op : Op \cup {"none"}, err : Errors, item : Nat]

TypeOK == ListTyped /\ CallsTyped /\ drainers \in Nat /\ closed \in BOOLEAN

\* The queue never holds more than its soft quota, nor the quota more than the
\* hard limit, however adds, bursts and removals mix (type comment of Queue).
LimitsKept == WithinLimits(tracker)

\* The entries in the list, by number.
Live == (1..added) \ popped

(***************************************************************************)
(* The linked list, followed from the sentinel, visits exactly the entries *)
(* that have been added and not popped, oldest first, and ends at back;    *)
(* the tracker's length is their number; a popped entry keeps no link.     *)
(* doAdd and popFront maintain front.link, back and the length apart.      *)
(***************************************************************************)
ListIntact ==
  /\ First = Nil => Live = {} /\ back = Front /\ tracker.length = 0
  /\ First # Nil => /\ Live = First..added /\ back = added
                    /\ tracker.length = added - First + 1
  /\ \A e \in 1..added : link[e] = IF e \in Live /\ e < added THEN e + 1 ELSE Nil

(***************************************************************************)
(* q.drainers counts the Drain and Shutdown calls that are waiting: no     *)
(* error path leaves it up (every later push would be refused for ever) or *)
(* down (a push could get in while a drain is in progress).                *)
(***************************************************************************)
Draining == {p \in Procs : op[p] \in DrainOps}
DrainersCounted == drainers = Cardinality(Draining)

\* Whether p's loop would end, its context apart, if it ran now.
WaitOver(p) ==
  \/ op[p] = "WaitPush" /\ (drainers > 0 \/ closed \/ Capacity(tracker) > tracker.length)
  \/ op[p] \in {"WaitPop", "IteratorWaitPop"} /\ (closed \/ tracker.length > 0)
  \/ op[p] \in DrainOps /\ (closed \/ tracker.length = 0)
  \/ op[p] = "IteratorWait" /\ (closed \/ after(cursor[p]) # Nil)

(***************************************************************************)
(* No wakeup is lost: a goroutine asleep on a condition has nothing to do, *)
(* or its context has ended and the goroutine that will wake it is on its  *)
(* way.  nempty is shared by WaitPop and Drain, nupdates by WaitPush and   *)
(* the iterators, so a missing broadcast strands one kind of waiter.       *)
(***************************************************************************)
Waits(p) == ~WaitOver(p) /\ (p \in cancelled => wakes[CondOf(op[p])] > 0)
NoLostWakeup == \A p \in Procs : at[p] = "asleep" => Waits(p)

\* Every call behaves as if it took effect at one instant on a plain sequence:
\* the queue implements FIFO, the list being the numbers from front.link on.
Contents == [i \in 1..tracker.length |-> First + i - 1]
Abstract == INSTANCE FIFO WITH contents <- Contents, newest <- added
ImplementsFIFO == Abstract!FIFOSpec

(***************************************************************************)
(* An iterator moves to the oldest entry newer than its cursor that is     *)
(* still queued, or starts over: whatever is popped under it, it never     *)
(* repeats an entry, goes back, or skips one that is there.                *)
(***************************************************************************)
Follows(c, d) == d \in Live' /\ c < d /\ \A e \in Live' : c < e => d <= e
IteratorsInOrder ==
  [][\A p \in Procs : cursor'[p] # cursor[p] =>
       cursor'[p] \in {Nil, Front} \/ Follows(cursor[p], cursor'[p])]_vars

\* While a drain is in progress nothing gets in: the length only goes down
\* (Drain "marks the queue as draining so that new items cannot be added").
NoAddWhileDraining == [][drainers > 0 => tracker'.length <= tracker.length]_vars

(***************************************************************************)
(* WaitPush reports that the queue is closed or draining or that the       *)
(* context has ended, and never a lack of capacity: its test of cap()      *)
(* against len() is enough for the add that follows to succeed.            *)
(***************************************************************************)
WaitPushNeverFull == ret.op = "WaitPush" => ret.err \notin {"ErrQueueFull", "ErrQueueNoCredit"}

(***************************************************************************)
(* The rule of the type's comment: once the queue is closed Drain and      *)
(* Shutdown report that, whether or not items remain.                      *)
(***************************************************************************)
DrainReportsClosed ==
  [][\A p \in Procs : closed /\ op[p] \in DrainOps /\ op'[p] = "none"
                       => ret'.err = "ErrQueueClosed"]_vars

----------------------------------------------------------------------------
(***************************************************************************)
(* When a call is bound to return: its context has ended, the queue is     *)
(* closed, or it is a drain and the queue is empty.  Nothing can be added  *)
(* while it is counted as a drainer, and it is woken by whoever took the   *)
(* last item, Pop, WaitPop or a consuming iterator.                        *)
(***************************************************************************)
ReturnIsDue(p) ==
  at[p] # "idle" /\ (closed \/ p \in cancelled \/ (op[p] \in DrainOps /\ tracker.length = 0))
=============================================================================
