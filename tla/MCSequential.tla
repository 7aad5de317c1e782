---------------------------- MODULE MCSequential ----------------------------
\* What one goroutine does alone, for TLC: the containers of dt and hdrhist, operation by
\* operation; the iterator tools of irt and pubsub, over every short source; the error
\* tools of erc with the wrappers of fnx, over every short script of outcomes; and confl,
\* over every short command line and every short list of enum entries. Which of them a
\* behaviour is of is chosen at the start; the variables of the others hold Unused.
EXTENDS Integers, FiniteSets, Sequences

Unused == "unused"

VARIABLES which, input,
          h, ok, seq, next, own, head, length,
          size, count, pos, total, ring, nils, held,
          list, data, pushed, inList, inData,
          shape, idx, counts, recorded,
          kind, filtered, lst, key, val, used, hash, it, yielded, through, strayed, sorted

ofLists  == <<h, ok>>
ofStacks == <<next, own, head, length>>
ofRing   == <<size, count, pos, total, ring, nils, held>>
ofHeaps  == <<list, data, pushed, inList, inData>>
ofHdr    == <<shape, idx, counts, recorded>>
ofMaps   == <<kind, filtered, lst, key, val, used, hash, it, yielded, through, strayed, sorted>>
vars == <<which, input, seq, ofLists, ofStacks, ofRing, ofHeaps, ofHdr, ofMaps>>

\* Two lists of three elements, so that an element can be offered to the wrong list; rings
\* that wrap twice; three heap keys with repeats; a histogram of two widths of bucket with
\* values at their edges; three keys, of which one can stand between two.
LL == INSTANCE LinkedLists WITH Lists <- 1..2, Elems <- 1..3
LS == INSTANCE LinkedStacks WITH Stacks <- 1..2, Items <- 1..3
RB == INSTANCE RingBuffer WITH MaxSize <- 4, DefaultSize <- 5, MaxTotal <- 11
HP == INSTANCE Heaps WITH Keys <- 1..3, MaxPush <- 5
HG == INSTANCE Histogram WITH Shapes <- {<<1, 100, 1>>, <<3, 500, 1>>}, Values <- {-1, 0, 31, 33, 64, 130},
                              Interval <- 32, Sections <- 2, MaxRotations <- 2, MaxRecorded <- 2
OM == INSTANCE OrderedMaps WITH Keys <- 1..3, MaxElems <- 3
IR == INSTANCE Iterators
ST == INSTANCE StreamTools
WR == INSTANCE Wrappers
ER == INSTANCE Errors WITH Collectors <- {1, 2}
CL == INSTANCE CommandLine

NoLists  == h = Unused /\ ok = Unused
NoStacks == next = Unused /\ own = Unused /\ head = Unused /\ length = Unused
NoRing   == /\ size = Unused /\ count = Unused /\ pos = Unused /\ total = Unused
            /\ ring = Unused /\ nils = Unused /\ held = Unused
NoHeaps  == list = Unused /\ data = Unused /\ pushed = Unused /\ inList = Unused /\ inData = Unused
NoHdr    == shape = Unused /\ idx = Unused /\ counts = Unused /\ recorded = Unused
NoMaps   == /\ kind = Unused /\ filtered = Unused /\ lst = Unused /\ key = Unused /\ val = Unused
            /\ used = Unused /\ hash = Unused /\ it = Unused /\ yielded = Unused
            /\ through = Unused /\ strayed = Unused /\ sorted = Unused

Tools == {"irt", "pubsub", "fnx", "erc", "confl", "enums"}
Init ==
  \/ /\ which = "lists" /\ LL!Init /\ input = Unused
     /\ NoStacks /\ NoRing /\ NoHeaps /\ NoHdr /\ NoMaps
  \/ /\ which = "stacks" /\ LS!Init /\ input = Unused
     /\ NoLists /\ NoRing /\ NoHeaps /\ NoHdr /\ NoMaps
  \/ /\ which = "ring" /\ RB!Init /\ input = Unused /\ seq = Unused
     /\ NoLists /\ NoStacks /\ NoHeaps /\ NoHdr /\ NoMaps
  \/ /\ which = "heaps" /\ HP!Init /\ input = Unused /\ seq = Unused
     /\ NoLists /\ NoStacks /\ NoRing /\ NoHdr /\ NoMaps
  \/ /\ which = "histogram" /\ HG!Init /\ input = Unused /\ seq = Unused
     /\ NoLists /\ NoStacks /\ NoRing /\ NoHeaps /\ NoMaps
  \/ /\ which = "maps" /\ OM!Init /\ input = Unused /\ seq = Unused
     /\ NoLists /\ NoStacks /\ NoRing /\ NoHeaps /\ NoHdr
  \/ /\ which \in Tools /\ input = <<>> /\ seq = Unused
     /\ NoLists /\ NoStacks /\ NoRing /\ NoHeaps /\ NoHdr /\ NoMaps

OfLists  == which = "lists" /\ LL!Next /\ UNCHANGED <<which, input, ofStacks, ofRing, ofHeaps, ofHdr, ofMaps>>
OfStacks == which = "stacks" /\ LS!Next /\ UNCHANGED <<which, input, ofLists, ofRing, ofHeaps, ofHdr, ofMaps>>
OfRing   == which = "ring" /\ RB!Next /\ UNCHANGED <<which, input, seq, ofLists, ofStacks, ofHeaps, ofHdr, ofMaps>>
OfHeaps  == which = "heaps" /\ HP!Next /\ UNCHANGED <<which, input, seq, ofLists, ofStacks, ofRing, ofHdr, ofMaps>>
OfHdr    == which = "histogram" /\ HG!Next /\ UNCHANGED <<which, input, seq, ofLists, ofStacks, ofRing, ofHeaps, ofMaps>>
OfMaps   == which = "maps" /\ OM!Next /\ UNCHANGED <<which, input, seq, ofLists, ofStacks, ofRing, ofHeaps, ofHdr>>

\* The input of a tool grows to every sequence of at most these lengths.
Longest == [irt |-> 4, pubsub |-> 5, fnx |-> 4, erc |-> 4, confl |-> 3, enums |-> 3]
Inputs  == [irt |-> 0..2, pubsub |-> -3..2, erc |-> ER!Ops,
            confl |-> CL!Tokens, enums |-> CL!Entries,
            fnx |-> {"ok", "err", "skip", "eof", "abort", "ctx", "panic"}]
Longer ==
  /\ which \in Tools /\ Len(input) < Longest[which]
  /\ \E x \in Inputs[which] : input' = Append(input, x)
  /\ UNCHANGED <<which, seq, ofLists, ofStacks, ofRing, ofHeaps, ofHdr, ofMaps>>

Next == OfLists \/ OfStacks \/ OfRing \/ OfHeaps \/ OfHdr \/ OfMaps \/ Longer
Spec == Init /\ [][Next]_vars

----------------------------------------------------------------------------
\* A container is what it promises to be through every short program of the operations of
\* its module's Next: a sequence, a queue in the order of its keys, a histogram of what was
\* recorded, or a map whose hash, list and open iterator agree (dt, dt/hdrhist,
\* adt/ordered_map.go). Four operations of dt break their container and are not in a Next:
\* Element.Swap, Item.Remove, Item.Detach and OrderedSet.SortMerge (see SpecWithSwap,
\* SpecWithRemove, SpecWithDetach and SpecWithSort); of List.SortMerge only the values are
\* looked at (SortsTheValues).
ContainersAgree ==
  /\ which = "lists" => LL!ListsAreSequences
  /\ which = "stacks" => LS!StacksAreSequences
  /\ which = "ring" => RB!RingIsSequence
  /\ which = "heaps" => HP!HeapsInOrder
  /\ which = "histogram" => HG!HistogramReportsValues
  /\ which = "maps" => OM!HashAgreesWithList /\ OM!IterationSurvivesChanges

\* The iterator tools lose, repeat and make up nothing, and take from their source no
\* more than they were asked for (irt, pubsub/stream.go, dt/list.go for the merge sort);
\* confl reads every word of a command line once, from the source that comes first
\* (confl/parse.go, register.go, subcommand.go, validate.go, enum.go).
InputsRead ==
  /\ which = "irt" =>
       /\ IR!TakesNoMoreThanNeeded(input) /\ IR!PartitionsTheSource(input) /\ IR!JoinedOnce(input)
       /\ input = <<>> => IR!CountsToTheLastInt
       /\ LL!SortsTheValues(input)
  /\ which = "pubsub" =>
       /\ ST!ToolsAgree(input)
       /\ \A n \in 1..3, w \in {1, 3, 4} : ST!RateKept([i \in DOMAIN input |-> input[i] + 3], n, w)
  /\ which = "confl" => CL!CommandLinesRead(input) /\ (input = <<>> => CL!ValidatedBinds)
  /\ which = "enums" => CL!EnumsRead(input)

\* A script goes on with ends, so that a wrapper that tries again always finds an outcome.
Pad(s) == s \o [i \in 1..6 |-> "eof"]
\* What a step of erc's stands for where the error it told is looked at alone.
ErrorOf(o, i) ==
  CASE o = "leaf 1" -> ER!Leaf(i)
    [] o = "pair"   -> ER!Many(<<ER!Leaf(i), ER!Leaf(i + 100)>>)
    [] OTHER        -> ER!Nil

\* Every failure is told, once and as what it was: by the wrappers of fnx that retry, stop,
\* join and hook a function, by a collector of erc whatever is collected through what, and
\* by its panics and iterators (fnx, erc/list.go, erc/errors.go, erc/iterators.go). Where
\* the code of fnx and its comments differ nothing is stated: whether Future.Retry tells
\* that it was stopped, and whether the hook of Handler.PostHook runs after a panic.
ErrorLaws ==
  /\ which = "fnx" =>
       /\ \A n \in 1..3 : WR!RetryTellsAll(Pad(input), n)
       /\ input /= <<>> => \A x \in 1..5 : WR!StopsInTime(input, x)
       /\ \A k \in 0..Len(input) :
            WR!JoinsInTurn(Pad(SubSeq(input, 1, k)), Pad(SubSeq(input, k + 1, Len(input))), 5)
       /\ Len(input) = 1 => \A expired, elapsed \in BOOLEAN : WR!OneRunTold(input, expired, elapsed)
       /\ Len(input) = 2 => WR!HooksRun(input[1], input[2])
  /\ which = "erc" =>
       /\ ER!ErrorsKept(input)
       /\ (\A i \in DOMAIN input : input[i] \in {"leaf 1", "pair", "nest"}) =>
            LET es == [i \in DOMAIN input |-> ErrorOf(input[i], i)]
            IN /\ ER!PanicsTold(es)
               /\ \A n \in 1..4 : ER!PairsTold([i \in DOMAIN es |-> [value |-> i, err |-> es[i]]], n)
=============================================================================
