-------------------------------- MODULE FIFO --------------------------------
(***************************************************************************)
(* What a pubsub.Queue promises its callers: every call that returns takes *)
(* effect at one instant, between its start and its return, on a plain     *)
(* first-in first-out sequence.  Nothing is said of locks, conditions,     *)
(* waiters, capacity or contexts; the module Queue is shown to implement   *)
(* this specification.  Items are numbered in the order they are accepted. *)
(***************************************************************************)
EXTENDS Naturals, Sequences

CONSTANT Op   \* the names of the queue's operations

VARIABLES contents,  \* the accepted items nobody has taken yet, oldest first
          newest,    \* the number of items accepted so far
          closed,    \* whether the queue has been closed
          ret        \* what the last call to return reported: op, err, item

fifoVars == <<contents, newest, closed, ret>>

FIFOInit == contents = <<>> /\ newest = 0 /\ closed = FALSE
            /\ ret = [op |-> "none", err |-> "nil", item |-> 0]

Put == \E o \in {"Push", "WaitPush"} :
         /\ ~closed
         /\ newest' = newest + 1
         /\ contents' = Append(contents, newest + 1)
         /\ ret' = [op |-> o, err |-> "nil", item |-> newest + 1]
         /\ UNCHANGED closed

Take == \E o \in {"Pop", "WaitPop", "IteratorWaitPop"} :
          /\ ~closed /\ contents # <<>>
          /\ contents' = Tail(contents)
          /\ ret' = [op |-> o, err |-> "nil", item |-> Head(contents)]
          /\ UNCHANGED <<newest, closed>>

\* An iterator yields something that is in the queue and leaves it there.
Yield == \E o \in {"IteratorWait", "Iterator"} : \E i \in 1..Len(contents) :
           /\ ret' = [op |-> o, err |-> "nil", item |-> contents[i]]
           /\ UNCHANGED <<contents, newest, closed>>

\* A drain succeeds only on an empty queue, and Shutdown closes it in the same instant.
Drained == \E o \in {"Drain", "Shutdown"} :
             /\ contents = <<>>
             /\ closed' = (closed \/ o = "Shutdown")
             /\ ret' = [op |-> o, err |-> "nil", item |-> 0]
             /\ UNCHANGED <<contents, newest>>

CloseNow == /\ closed' = TRUE
            /\ ret' = [op |-> "Close", err |-> "nil", item |-> 0]
            /\ UNCHANGED <<contents, newest>>

\* A call that reports an error, or that there is nothing, changes nothing, and
\* reports that the queue is closed only if it is.
Refuse == \E o \in Op, e \in {"ErrQueueClosed", "ErrQueueDraining", "ErrQueueFull",
                              "ErrQueueNoCredit", "ctx", "end"} :
            /\ e = "ErrQueueClosed" => closed
            /\ ret' = [op |-> o, err |-> e, item |-> 0]
            /\ UNCHANGED <<contents, newest, closed>>

FIFONext == Put \/ Take \/ Yield \/ Drained \/ CloseNow \/ Refuse

FIFOSpec == FIFOInit /\ [][FIFONext]_fifoVars
=============================================================================
