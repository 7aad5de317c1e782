----------------------------- MODULE OnceValue -----------------------------
(* adt.Once: a constructor that callers may set until it has been called,   *)
(* and a value that is computed once. Constructors are numbers, and each    *)
(* makes itself, or panics.                                                 *)
EXTENDS Integers, FiniteSets

CONSTANTS Callers, Ctors

VARIABLES ctor, called, defined, comp,    \* the fields; 0 is nil, and the zero value
          once,         \* the inner sync.Once: "new", "running" or "done"
          ran,          \* the constructors that ran
          pc, arg,      \* of each caller, and the constructor it brought
          answer        \* what its Do or Resolve returned, or -1 for a panic

fields == <<ctor, called, defined, comp>>
vars == <<fields, once, ran, pc, arg, answer>>

Init ==
  /\ ctor \in {0} \union Ctors /\ defined = (ctor /= 0) /\ called = FALSE /\ comp = 0
  /\ once = "new" /\ ran = {} /\ pc = [c \in Callers |-> "new"]
  /\ arg \in [Callers -> {0} \union Ctors] /\ answer = [c \in Callers |-> 0]

Goto(c, l) == pc' = [pc EXCEPT ![c] = l]

(* Do and Resolve: the first runs, and the others wait for it *)
Do(c) ==
  /\ pc[c] = "new"
  /\ \/ once = "new" /\ arg[c] /= 0 /\ once' = "running" /\ Goto(c, "populate") /\ ctor' = arg[c]
     \/ once = "new" /\ once' = "running" /\ Goto(c, "populate") /\ UNCHANGED ctor
     \/ once /= "new" /\ Goto(c, "wait") /\ UNCHANGED <<once, ctor>>
  /\ UNCHANGED <<called, defined, comp, ran, arg, answer>>
Waited(c) ==
  /\ pc[c] = "wait" /\ once = "done" /\ Goto(c, "done") /\ answer' = [answer EXCEPT ![c] = comp]
  /\ UNCHANGED <<fields, once, ran, arg>>
populate(c) ==
  /\ pc[c] = "populate" /\ Goto(c, IF called THEN "return" ELSE "get") /\ called' = TRUE
  /\ UNCHANGED <<ctor, defined, comp, once, ran, arg, answer>>
(* The constructor is got, and runs; one that panics leaves sync.Once done *)
Construct(c) ==
  /\ pc[c] = "get"
  /\ \/ ctor = 0 /\ Goto(c, "clear") /\ UNCHANGED <<comp, ran>>
     \/ ctor /= 0 /\ comp' = ctor /\ ran' = ran \union {ctor} /\ Goto(c, "clear")
     \/ ctor /= 0 /\ ran' = ran \union {ctor} /\ Goto(c, "panic") /\ UNCHANGED comp
  /\ UNCHANGED <<ctor, called, defined, once, arg, answer>>
Clear(c) ==
  /\ pc[c] = "clear" /\ Goto(c, "return") /\ ctor' = 0
  /\ UNCHANGED <<called, defined, comp, once, ran, arg, answer>>
Return(c) ==
  /\ pc[c] \in {"return", "panic"} /\ once' = "done" /\ Goto(c, "done")
  /\ answer' = [answer EXCEPT ![c] = IF pc[c] = "panic" THEN -1 ELSE comp]
  /\ UNCHANGED <<fields, ran, arg>>

(* Set looks whether it was called, and stores after that look *)
Set(c) ==
  /\ pc[c] = "new" /\ arg[c] /= 0 /\ Goto(c, IF called THEN "done" ELSE "define")
  /\ UNCHANGED <<fields, once, ran, arg, answer>>
Define(c) == pc[c] = "define" /\ defined' = TRUE /\ ctor' = arg[c] /\ UNCHANGED <<once, called>>
SetEnds(c) ==
  /\ Define(c) /\ Goto(c, "set")
  /\ UNCHANGED <<comp, ran, arg, answer>>

Going(c) == Waited(c) \/ populate(c) \/ Construct(c) \/ Clear(c) \/ Return(c) \/ SetEnds(c)
Next == \E c \in Callers : Do(c) \/ Set(c) \/ Going(c)
Spec == Init /\ [][Next]_vars
FairSpec == Spec /\ \A c \in Callers : WF_vars(Going(c))

----------------------------------------------------------------------------
(* At most one constructor runs, whoever set it and whenever; all callers   *)
(* are given what it made, but the one it panicked in                       *)
OneValue ==
  /\ Cardinality(ran) <= 1
  /\ \A c \in Callers : pc[c] = "done" /\ answer[c] > 0 => answer[c] \in ran /\ answer[c] = comp
  /\ \A c, d \in Callers : answer[c] > 0 /\ answer[d] > 0 => answer[c] = answer[d]
  /\ once = "done" /\ comp = 0 => \A c \in Callers : answer[c] <= 0

(* Each call returns once the constructor has *)
AnswersReturn == [](\A c \in Callers : pc[c] \notin {"new", "done", "set"} => <>(pc[c] \in {"done", "set"}))

=============================================================================
