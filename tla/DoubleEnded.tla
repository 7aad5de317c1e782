---------------------------- MODULE DoubleEnded ----------------------------
(***************************************************************************)
(* What a pubsub.Deque promises its callers: every call takes effect at    *)
(* one instant on a plain sequence with two ends.  A forced push that      *)
(* finds no room takes one item from the other end in that same instant.   *)
(***************************************************************************)
EXTENDS Integers, Sequences

CONSTANT Call   \* the queue's calls: records of a name and a side

VARIABLES contents,  \* the items in the deque, front first
          closed,    \* whether it has been closed
          ret        \* what the last call to return reported: call, err, item

deVars == <<contents, closed, ret>>

DEInit == contents = <<>> /\ closed = FALSE
          /\ ret = [call |-> [name |-> "none", side |-> "front"], err |-> "nil", item |-> 0]

Joined(side, s, x) == IF side = "front" THEN <<x>> \o s ELSE Append(s, x)
Rest(side, s)      == IF side = "front" THEN Tail(s) ELSE SubSeq(s, 1, Len(s) - 1)
EndItem(side, s)   == IF side = "front" THEN Head(s) ELSE s[Len(s)]
Other(side)        == IF side = "front" THEN "back" ELSE "front"

Items == {contents[i] : i \in DOMAIN contents}

\* The call that returns, as the history tells it.
Told == {ret'.call} \cap Call

\* A new item is one that is not in the deque.
Put == \E c \in Told, x \in {ret'.item} \ Items :
         /\ c.name \in {"Push", "WaitPush", "ForcePush"} /\ ~closed
         /\ contents' = Joined(c.side, contents, x)
         /\ ret' = [call |-> c, err |-> "nil", item |-> x]
         /\ UNCHANGED closed

Replace == \E c \in Told, x \in {ret'.item} \ Items :
             /\ c.name = "ForcePush" /\ ~closed /\ contents # <<>>
             /\ contents' = Joined(c.side, Rest(Other(c.side), contents), x)
             /\ ret' = [call |-> c, err |-> "nil", item |-> x]
             /\ UNCHANGED closed

Take == \E c \in Told :
          /\ c.name \in {"Pop", "WaitPop"} /\ ~closed /\ contents # <<>>
          /\ contents' = Rest(c.side, contents)
          /\ ret' = [call |-> c, err |-> "nil", item |-> EndItem(c.side, contents)]
          /\ UNCHANGED closed

\* An iterator yields something that is in the deque and leaves it there.
Yield == \E c \in Told, x \in Items :
           /\ c.name \in {"IteratorWait", "Iterator"}
           /\ ret' = [call |-> c, err |-> "nil", item |-> x]
           /\ UNCHANGED <<contents, closed>>

Drained == \E c \in Told :
             /\ c.name \in {"Drain", "Shutdown"} /\ contents = <<>>
             /\ closed' = (closed \/ c.name = "Shutdown")
             /\ ret' = [call |-> c, err |-> "nil", item |-> 0]
             /\ UNCHANGED contents

CloseNow == \E c \in Told :
              /\ c.name = "Close" /\ closed'
              /\ ret' = [call |-> c, err |-> "nil", item |-> 0]
              /\ UNCHANGED contents

\* A call that reports an error changes nothing.
Refuse == \E c \in Told, e \in {"ErrQueueClosed", "ErrQueueDraining", "ErrQueueFull",
                                "ErrQueueNoCredit", "ctx", "end"} :
            /\ e = "ErrQueueClosed" => closed
            /\ ret' = [call |-> c, err |-> e, item |-> 0]
            /\ UNCHANGED <<contents, closed>>

DENext == Put \/ Replace \/ Take \/ Yield \/ Drained \/ CloseNow \/ Refuse

DESpec == DEInit /\ [][DENext]_deVars
=============================================================================
