------------------------------- MODULE Deque -------------------------------
(***************************************************************************)
(* pubsub.Deque (src/pubsub/deque.go) under concurrent callers: a circular *)
(* doubly linked list with a root element, behind one mutex and three      *)
(* condition variables.  As in the module Queue a step is one critical     *)
(* section, a call that waits is cut where Cond.Wait gives the mutex up,   *)
(* and a context that ends starts a goroutine that broadcasts later.       *)
(*                                                                         *)
(* An element is known by its sequence number: back pushes count up from   *)
(* 1, front pushes count down from -1, and 0 is the root.  Side "front" is *)
(* dqNext in the code, and "back" dqPrev.                                  *)
(***************************************************************************)
EXTENDS QueueLimits, FiniteSets, Sequences

CONSTANTS Procs,      \* the calling goroutines
          Program,    \* Program[p]: the calls goroutine p makes
          Options,    \* the DequeOptions NewDeque may be given
          Nil,        \* the nil *element
          MaxPushes,  \* bound: elements ever allocated
          MaxWakes    \* bound: a call with a context starts only while fewer
                      \* cancel goroutines than this are pending

Sides == {"front", "back"}
Names == {"Push", "ForcePush", "WaitPush", "Pop", "WaitPop", "Drain", "Shutdown", "Close",
          "IteratorWait", "Iterator"}
Call  == [name : Names, side : Sides]
Idle  == [name |-> "none", side |-> "front"]
Conds == {"nfront", "nback", "updates"}

\* A DequeOptions.  QueueOptions is a pointer: the empty set for nil.
DequeOptions ==
  [Unlimited : BOOLEAN, Capacity : Int,
   QueueOptions : SUBSET [HardLimit : Int, SoftQuota : Int, BurstCredit : Int]]

\* A goroutine that iterates has one sequence.
ASSUME DequeAssumption ==
  /\ IsFiniteSet(Procs) /\ Program \in [Procs -> SUBSET Call] /\ Nil \notin Int
  /\ \A p \in Procs : \A c, d \in Program[p] :
       {c.name, d.name} \subseteq {"IteratorWait", "Iterator"} => c = d
  /\ Options \subseteq DequeOptions
  /\ \A o \in Options : /\ Cardinality(o.QueueOptions) < 2
                        /\ \A q \in o.QueueOptions : \A s \in 1..q.HardLimit : CreditUnit % s = 0
  /\ MaxPushes \in Nat /\ MaxWakes \in Nat

VARIABLES tracker,    \* dq.tracker
          drainers,   \* dq.drainers
          closed,     \* dq.closed
          list,       \* the elements' next and prev links, which of them have
                      \* been removed, and dq.lo and dq.hi
          op, at,     \* the call each goroutine is in, and where in that call
          cancelled,  \* the goroutines in a call whose context has ended
          cursor,     \* cursor[p]: the element p's iterator last yielded
          wakes,      \* wakes[c]: started cancel goroutines that will broadcast on c
          ret         \* history: what the last call to return reported

shared == <<tracker, drainers, closed, list>>
vars   == <<tracker, drainers, closed, list, op, at, cancelled, cursor, wakes, ret>>

Root == 0

\* DequeOptions.Validate and the choice NewDeque makes.
Valid(o) == /\ o.Unlimited => o.Capacity = 0 /\ o.QueueOptions = {}
            /\ o.QueueOptions # {} => o.Capacity = 0
            /\ \A q \in o.QueueOptions : Acceptable(q)
            /\ o.Capacity >= 0

NewTrackers(o) == IF o.QueueOptions # {} THEN {SoftTracker(Defaults(q)) : q \in o.QueueOptions}
                  ELSE IF o.Capacity > 0 THEN {HardTracker(o.Capacity)}
                  ELSE {NoLimitTracker}

Init ==
  /\ \E o \in {x \in Options : Valid(x)} : tracker \in NewTrackers(o)
  /\ drainers = 0 /\ closed = FALSE
  /\ list = [next |-> [e \in {Root} |-> Root], prev |-> [e \in {Root} |-> Root],
             removed |-> {}, lo |-> 0, hi |-> 0]
  /\ op = [p \in Procs |-> Idle] /\ at = [p \in Procs |-> "idle"]
  /\ cancelled = {} /\ cursor = [p \in Procs |-> Nil]
  /\ wakes = [c \in Conds |-> 0]
  /\ ret = [call |-> Idle, err |-> "nil", item |-> 0]

----------------------------------------------------------------------------
\* Goroutines, condition variables and contexts.

CondOf(c) == IF c.name \notin {"WaitPop", "IteratorWait"} THEN "updates"
             ELSE IF c.side = "front" THEN "nfront" ELSE "nback"

Sleepers(c) == {q \in Procs : at[q] = "asleep" /\ CondOf(op[q]) = c}

Goes(p, s, W) == at' = [q \in Procs |-> IF q = p THEN s
                                        ELSE IF q \in W THEN "woken" ELSE at[q]]

Return(p, c, e, item, W) ==
  /\ Goes(p, "idle", W)
  /\ op' = [op EXCEPT ![p] = Idle]
  /\ cancelled' = cancelled \ {p}
  /\ ret' = [call |-> c, err |-> e, item |-> item]

Refused(p, c, e, W) == Return(p, c, e, 0, W) /\ UNCHANGED shared

Sleep(p, c, W) == /\ Goes(p, "asleep", W)
                  /\ op' = [op EXCEPT ![p] = c]
                  /\ UNCHANGED <<cancelled, ret>>

Spawned(c) == [wakes EXCEPT ![c] = @ + 1]

Starts(p, name, c) == at[p] = "idle" /\ c \in Program[p] /\ c.name = name

\* A turn of a waiting call whose context has (x) or has not ended: its first, or
\* one after it was woken.
Turn(p, name, c, x) ==
  \/ /\ Starts(p, name, c) /\ wakes[CondOf(c)] < MaxWakes
     /\ wakes' = IF x THEN Spawned(CondOf(c)) ELSE wakes
  \/ /\ at[p] = "woken" /\ op[p] = c /\ c.name = name /\ x = (p \in cancelled)
     /\ UNCHANGED wakes

\* Mutant: notify leaves out the goroutines at the back.
notifyNotBack == Sleepers("nfront") \cup Sleepers("updates")

notify == Sleepers("nfront") \cup Sleepers("nback") \cup Sleepers("updates")

----------------------------------------------------------------------------
\* The list.

checkOpen == IF drainers > 0 THEN "ErrQueueDraining"
             ELSE IF closed THEN "ErrQueueClosed" ELSE "nil"

\* Mutant: the element after the new one keeps pointing back past it.
LinkedOneWay(l, side) ==
  LET e     == IF side = "back" THEN l.hi + 1 ELSE l.lo - 1
      after == IF side = "back" THEN l.prev[Root] ELSE Root
      known == (IF e < l.lo THEN e ELSE l.lo)..(IF e > l.hi THEN e ELSE l.hi)
  IN  [l EXCEPT !.lo = IF e < @ THEN e ELSE @, !.hi = IF e > @ THEN e ELSE @,
                !.next = [x \in known |-> IF x = e THEN l.next[after]
                                          ELSE IF x = after THEN e ELSE l.next[x]],
                !.prev = [x \in known |-> IF x = e THEN after ELSE l.prev[x]]]

\* The list with a new element at one side.
Linked(l, side) ==
  LET e      == IF side = "back" THEN l.hi + 1 ELSE l.lo - 1
      after  == IF side = "back" THEN l.prev[Root] ELSE Root
      before == l.next[after]
      known  == (IF e < l.lo THEN e ELSE l.lo)..(IF e > l.hi THEN e ELSE l.hi)
  IN  [l EXCEPT !.lo = IF e < @ THEN e ELSE @, !.hi = IF e > @ THEN e ELSE @,
                !.next = [x \in known |-> IF x = e THEN before
                                          ELSE IF x = after THEN e ELSE l.next[x]],
                !.prev = [x \in known |-> IF x = e THEN after
                                          ELSE IF x = before THEN e ELSE l.prev[x]]]

\* The list without e, which is released: its links are cleared.
Unlinked(l, e) ==
  [l EXCEPT !.next = [@ EXCEPT ![l.prev[e]] = l.next[e], ![e] = Nil],
            !.prev = [@ EXCEPT ![l.next[e]] = l.prev[e], ![e] = Nil],
            !.removed = @ \cup {e}]

End(side) == IF side = "front" THEN list.next[Root] ELSE list.prev[Root]

Other(side) == IF side = "front" THEN "back" ELSE "front"

\* add, to list l with tracker t: both as they are, or after the pop of a forced
\* push, which has notified everybody (W).
add(p, c, l, t, W) ==
  \/ checkOpen # "nil" /\ Refused(p, c, checkOpen, W)
  \/ /\ checkOpen = "nil" /\ AddError(t) # "nil"
     /\ list' = l /\ tracker' = t
     /\ Return(p, c, AddError(t), 0, W \cup Sleepers("updates"))
     /\ UNCHANGED <<drainers, closed>>
  \/ /\ checkOpen = "nil" /\ AddError(t) = "nil"
     /\ list' = Linked(l, c.side) /\ tracker' = Added(t)
     /\ Return(p, c, "nil", IF c.side = "back" THEN l.hi + 1 ELSE l.lo - 1, W \cup notify)
     /\ UNCHANGED <<drainers, closed>>

\* pop of the element at one end of an open deque that is not empty.
pop(p, c) ==
  /\ tracker' = Removed(tracker)
  /\ list' = Unlinked(list, End(c.side))
  /\ Return(p, c, "nil", End(c.side), notify)
  /\ UNCHANGED <<drainers, closed>>

----------------------------------------------------------------------------
\* The operations.

\* Bound: a push starts only if it has an element left, whatever the others do.
ElementLeft ==
  list.hi - list.lo + Cardinality({q \in Procs : op[q].name = "WaitPush"}) < MaxPushes

Push(p) ==
  \E c \in Program[p] : /\ Starts(p, "Push", c) /\ ElementLeft
                  /\ add(p, c, list, tracker, {})
                  /\ UNCHANGED <<cursor, wakes>>

\* Mutant: room is made at the end the new item goes to.
ForcePushSameEnd(p) ==
  \E c \in Program[p] :
    /\ Starts(p, "ForcePush", c) /\ ElementLeft
    /\ \/ checkOpen # "nil" /\ Refused(p, c, checkOpen, {})
       \/ /\ checkOpen = "nil" /\ Capacity(tracker) # tracker.length
          /\ add(p, c, list, tracker, {})
       \/ /\ checkOpen = "nil" /\ Capacity(tracker) = tracker.length
          /\ add(p, c, Unlinked(list, End(c.side)), Removed(tracker), notify)
    /\ UNCHANGED <<cursor, wakes>>

\* Mutant: room is only made once the hard limit is reached.
ForcePushAtLimit(p) ==
  \E c \in Program[p] :
    /\ Starts(p, "ForcePush", c) /\ ElementLeft
    /\ \/ checkOpen # "nil" /\ Refused(p, c, checkOpen, {})
       \/ /\ checkOpen = "nil" /\ tracker.hardLimit # tracker.length
          /\ add(p, c, list, tracker, {})
       \/ /\ checkOpen = "nil" /\ tracker.hardLimit = tracker.length
          /\ add(p, c, Unlinked(list, End(Other(c.side))), Removed(tracker), notify)
    /\ UNCHANGED <<cursor, wakes>>

ForcePush(p) ==
  \E c \in Program[p] :
    /\ Starts(p, "ForcePush", c) /\ ElementLeft
    /\ \/ checkOpen # "nil" /\ Refused(p, c, checkOpen, {})
       \/ /\ checkOpen = "nil" /\ Capacity(tracker) # tracker.length
          /\ add(p, c, list, tracker, {})
       \/ /\ checkOpen = "nil" /\ Capacity(tracker) = tracker.length
          /\ add(p, c, Unlinked(list, End(Other(c.side))), Removed(tracker), notify)
    /\ UNCHANGED <<cursor, wakes>>

WaitPush(p) ==
  \E c \in Program[p], x \in BOOLEAN :
    /\ Turn(p, "WaitPush", c, x) /\ (at[p] = "idle" => ElementLeft)
    /\ \/ checkOpen # "nil" /\ Refused(p, c, checkOpen, {})
       \/ checkOpen = "nil" /\ x /\ Refused(p, c, "ctx", {})
       \/ checkOpen = "nil" /\ ~x /\ Capacity(tracker) > tracker.length
          /\ add(p, c, list, tracker, {})
       \/ checkOpen = "nil" /\ ~x /\ Capacity(tracker) <= tracker.length
          /\ Sleep(p, c, {}) /\ UNCHANGED shared
    /\ UNCHANGED cursor

Pop(p) ==
  \E c \in Program[p] :
    /\ Starts(p, "Pop", c)
    /\ \/ (closed \/ End(c.side) = Root) /\ Refused(p, c, "end", {})
       \/ ~closed /\ End(c.side) # Root /\ pop(p, c)
    /\ UNCHANGED <<cursor, wakes>>

\* WaitPopFront and WaitPopBack; a step of IteratorWaitPopFront or -Back is one too.
WaitPop(p) ==
  \E c \in Program[p], x \in BOOLEAN :
    /\ Turn(p, "WaitPop", c, x)
    /\ \/ closed /\ Refused(p, c, "ErrQueueClosed", {})
       \/ ~closed /\ x /\ Refused(p, c, "ctx", {})
       \/ ~closed /\ ~x /\ End(c.side) # Root /\ pop(p, c)
       \/ ~closed /\ ~x /\ End(c.side) = Root /\ Sleep(p, c, {}) /\ UNCHANGED shared
    /\ UNCHANGED cursor

DrainNames == {"Drain", "Shutdown"}

\* waitForDrain returns with n drainers left; see Drained in the module Queue.
Drained(p, c, e, n, x, W) ==
  LET closes == c.name = "Shutdown" /\ e = "nil"
  IN  /\ drainers' = n
      /\ wakes' = IF x THEN wakes ELSE Spawned("updates")
      /\ closed' = (closed \/ closes)
      /\ Return(p, c, e, 0, W \cup (IF closes THEN notify ELSE {}))
      /\ UNCHANGED <<tracker, list, cursor>>

DrainEnter(p) ==
  \E c \in Program[p], x \in BOOLEAN :
    /\ \E name \in DrainNames : Starts(p, name, c)
    /\ wakes["updates"] < MaxWakes
    /\ \/ closed /\ Refused(p, c, "ErrQueueClosed", {}) /\ UNCHANGED <<cursor, wakes>>
       \/ ~closed /\ x /\ Refused(p, c, "ctx", {}) /\ UNCHANGED <<cursor, wakes>>
       \/ /\ ~closed /\ ~x /\ tracker.length = 0
          /\ Drained(p, c, "nil", drainers, FALSE, Sleepers("updates"))
       \/ /\ ~closed /\ ~x /\ tracker.length > 0
          /\ drainers' = drainers + 1
          /\ Sleep(p, c, Sleepers("updates"))
          /\ UNCHANGED <<tracker, closed, list, cursor, wakes>>

DrainResume(p) ==
  LET c == op[p]
  IN  /\ at[p] = "woken" /\ c.name \in DrainNames
      /\ \/ tracker.length = 0 /\ Drained(p, c, "nil", drainers - 1, p \in cancelled, {})
         \/ /\ tracker.length > 0 /\ closed
            /\ Drained(p, c, "ErrQueueClosed", drainers - 1, p \in cancelled, {})
         \/ /\ tracker.length > 0 /\ ~closed /\ p \in cancelled
            /\ Drained(p, c, "ctx", drainers - 1, TRUE, {})
         \/ /\ tracker.length > 0 /\ ~closed /\ p \notin cancelled
            /\ Sleep(p, c, {}) /\ UNCHANGED <<shared, cursor, wakes>>

Close(p) ==
  \E c \in Program[p] : /\ Starts(p, "Close", c)
                  /\ closed' = TRUE
                  /\ Return(p, c, "nil", 0, notify)
                  /\ UNCHANGED <<tracker, drainers, list, cursor, wakes>>

----------------------------------------------------------------------------
\* The iterators that leave the items in the deque.

Live == {e \in list.lo..list.hi : e # Root /\ e \notin list.removed}

\* The element e of S that everything else in S is beyond, for a walk from side.
FirstOf(S, side) == CHOOSE e \in S : \A d \in S : IF side = "front" THEN e <= d ELSE e >= d

Beyond(S, e, side) == {d \in S : IF side = "front" THEN d > e ELSE d < e}

\* Mutant: a removed element's place is taken to be the end it was removed from.
neighborRestarts(e, side) ==
  IF e \notin list.removed THEN (IF side = "front" THEN list.next[e] ELSE list.prev[e])
  ELSE End(side)

\* The scan from the end by sequence number stands for the search of the links.
neighbor(e, side) ==
  IF e \notin list.removed THEN (IF side = "front" THEN list.next[e] ELSE list.prev[e])
  ELSE IF Beyond(Live, e, side) = {} THEN Root ELSE FirstOf(Beyond(Live, e, side), side)

Place(p) == IF cursor[p] = Nil THEN Root ELSE cursor[p]

Moves(p, e) == cursor' = [cursor EXCEPT ![p] = e]

Yield(p, c, n) == /\ n # Root /\ Moves(p, n)
                  /\ Return(p, c, "nil", n, {})

\* A step of IteratorWaitFront or IteratorWaitBack: await, then the neighbour.
IteratorWait(p) ==
  \E c \in Program[p], x \in BOOLEAN :
    LET n == neighbor(Place(p), c.side)
    IN  /\ Turn(p, "IteratorWait", c, x)
        /\ \/ (closed \/ ~x) /\ Yield(p, c, n)
           \/ /\ (closed /\ n = Root) \/ (~closed /\ x)
              /\ Moves(p, Place(p)) /\ Return(p, c, "end", 0, {})
           \/ ~closed /\ ~x /\ n = Root /\ Moves(p, Place(p)) /\ Sleep(p, c, {})
        /\ UNCHANGED shared

\* A step of IteratorFront or IteratorBack: closed and the context are not read.
Iterator(p) ==
  \E c \in Program[p] :
    LET n == neighbor(Place(p), c.side)
    IN  /\ Starts(p, "Iterator", c)
        /\ \/ Yield(p, c, n)
           \/ n = Root /\ Moves(p, Place(p)) /\ Return(p, c, "end", 0, {})
        /\ UNCHANGED <<shared, wakes>>

----------------------------------------------------------------------------
\* The context of a sleeping or woken goroutine's call ends.
Cancel(p) == /\ at[p] # "idle" /\ p \notin cancelled
             /\ cancelled' = cancelled \cup {p}
             /\ wakes' = Spawned(CondOf(op[p]))
             /\ UNCHANGED <<shared, op, at, cursor, ret>>

\* A cancel goroutine takes the mutex and broadcasts.
WakeOnCancel(c) == /\ wakes[c] > 0
                   /\ wakes' = [wakes EXCEPT ![c] = @ - 1]
                   /\ at' = [q \in Procs |-> IF q \in Sleepers(c) THEN "woken" ELSE at[q]]
                   /\ UNCHANGED <<shared, op, cancelled, cursor, ret>>

Step(p) == \/ Push(p) \/ ForcePush(p) \/ WaitPush(p) \/ Pop(p) \/ WaitPop(p)
           \/ DrainEnter(p) \/ DrainResume(p) \/ Close(p)
           \/ IteratorWait(p) \/ Iterator(p) \/ Cancel(p)

Next == (\E p \in Procs : Step(p)) \/ (\E c \in Conds : WakeOnCancel(c))

Spec == Init /\ [][Next]_vars

\* As in Queue: what has started goes on, and nothing else has to happen.
GoesOn(p) == /\ at[p] # "idle"
             /\ WaitPush(p) \/ WaitPop(p) \/ DrainResume(p) \/ IteratorWait(p)

Fairness == /\ \A p \in Procs : WF_vars(GoesOn(p))
            /\ \A c \in Conds : WF_vars(WakeOnCancel(c))

FairSpec == Spec /\ Fairness

----------------------------------------------------------------------------
\* TypeOK, the type invariant, for the fields of Deque and the calls.
TypeOK ==
  /\ tracker \in Tracker /\ drainers \in Nat /\ closed \in BOOLEAN
  /\ DOMAIN list = {"next", "prev", "removed", "lo", "hi"}
  /\ list.lo \in Int /\ list.hi \in Nat /\ list.lo <= 0
  /\ list.removed \subseteq (list.lo..list.hi) \ {Root}
  /\ list.next \in [list.lo..list.hi -> {Nil} \cup list.lo..list.hi]
  /\ list.prev \in [list.lo..list.hi -> {Nil} \cup list.lo..list.hi]
  /\ op \in [Procs -> Call \cup {Idle}] /\ at \in [Procs -> {"idle", "asleep", "woken"}]
  /\ cancelled \subseteq Procs /\ cursor \in [Procs -> {Nil} \cup list.lo..list.hi]
  /\ wakes \in [Conds -> Nat]
  /\ ret.call \in Call \cup {Idle} /\ ret.item \in list.lo..list.hi

(***************************************************************************)
(* Both chains of links run through exactly the live elements, in the      *)
(* order of their sequence numbers, which is what lets an iterator find    *)
(* its place again from the number of an element that is gone; the tracker *)
(* counts them, and within its limits; and every field has its type.       *)
(***************************************************************************)
Nearest(e, side) ==
  LET S == IF e = Root THEN Live ELSE Beyond(Live, e, side)
  IN  IF S = {} THEN Root ELSE FirstOf(S, side)

LinksSorted ==
  /\ TypeOK
  /\ \A e \in Live \cup {Root} : /\ list.next[e] = Nearest(e, "front")
                                 /\ list.prev[e] = Nearest(e, "back")
  /\ tracker.length = Cardinality(Live) /\ WithinLimits(tracker)

\* Whether p's wait would end, its context apart, if it ran now.
WaitOver(p) ==
  LET c == op[p]
  IN  \/ c.name = "WaitPush" /\ (checkOpen # "nil" \/ Capacity(tracker) > tracker.length)
      \/ c.name = "WaitPop" /\ (closed \/ End(c.side) # Root)
      \/ c.name \in DrainNames /\ (closed \/ tracker.length = 0)
      \/ c.name = "IteratorWait" /\ (closed \/ neighbor(cursor[p], c.side) # Root)

(***************************************************************************)
(* No wakeup is lost on any of the three conditions, by any mix of pushes, *)
(* forced pushes and pops at either end ("Waiters never re-signal one      *)
(* another, so idle waiters sleep"): a goroutine that is asleep has to     *)
(* wait, or the goroutine that will wake it has started.                   *)
(***************************************************************************)
NoLostWakeup ==
  \A p \in Procs : at[p] = "asleep" =>
    ~WaitOver(p) /\ (p \in cancelled => wakes[CondOf(op[p])] > 0)

(***************************************************************************)
(* A forced push to an open deque with no drain in progress never fails:   *)
(* the one item it removes is always enough, for a tracker with credit too.*)
(***************************************************************************)
ForcePushFits ==
  ret.call.name = "ForcePush" => ret.err \in {"nil", "ErrQueueDraining", "ErrQueueClosed"}

\* The deque implements DoubleEnded; its sequence is the list followed from the root.
Walk[i \in Nat] == IF i = 0 THEN Root ELSE list.next[Walk[i - 1]]
Contents == [i \in 1..tracker.length |-> Walk[i]]
Abstract == INSTANCE DoubleEnded WITH contents <- Contents
ImplementsDoubleEnded == Abstract!DESpec

(***************************************************************************)
(* An iterator moves to the nearest element in its direction that is still *)
(* there: it never repeats, goes back or skips one, though its own element *)
(* was popped, at either end, and the rest of the deque changed since.     *)
(***************************************************************************)
IteratorSide(p) == (CHOOSE c \in Program[p] : c.name \in {"IteratorWait", "Iterator"}).side
IteratorsInOrder ==
  [][\A p \in Procs : cursor'[p] \notin {cursor[p], Root} =>
       LET S == IF Place(p) = Root THEN Live' ELSE Beyond(Live', cursor[p], IteratorSide(p))
       IN  cursor'[p] \in S /\ cursor'[p] = FirstOf(S, IteratorSide(p))]_vars

\* When a call is bound to return: its context has ended, the deque is closed, or it
\* is a drain and the deque is empty.
ReturnIsDue(p) ==
  at[p] # "idle" /\ (closed \/ p \in cancelled \/ (op[p].name \in DrainNames /\ tracker.length = 0))
=============================================================================
