---------------------------- MODULE CommandLine ----------------------------
\* confl: a configuration struct is bound to a flag set, the command line is parsed, and
\* the environment fills in what it left out; subcommands are structs inside it. A struct
\* is a sequence of fields, a value the sequence of its elements (one for a scalar, none
\* for a nil pointer), a name the sequence of the strings it is concatenated from, and a
\* token its text with the flag it names. The messages, time.Time, flag.Value and the
\* widths of numbers are left out.
EXTENDS Integers, Sequences, FiniteSets

SX == INSTANCE SequencesExt
LOCAL INSTANCE Functions

None == "none"
Unset == "unset"
Word(s)    == [text |-> s, name |-> <<>>, eq |-> None]
Flag(s, n) == [text |-> s, name |-> n, eq |-> None]
FlagIs(s, n, v) == [text |-> s, name |-> n, eq |-> v]     \* -name=value
Text(tok)  == IF tok.eq = None THEN tok.text ELSE tok.text \o "=" \o tok.eq
Dashes     == [text |-> "--", name |-> <<>>, eq |-> None]

\* Fields: a leaf, a struct that may be a namespace, a subcommand. sep is Unset without
\* its tag and None where the tag is empty; env is <<>> without its tag.
Leaf == [t |-> "leaf", id |-> "", name |-> <<>>, short |-> <<>>, shape |-> "scalar", elem |-> "string",
         default |-> "", sep |-> Unset, narg |-> "", required |-> FALSE, exported |-> TRUE,
         env |-> <<>>, opts |-> {}, enum |-> <<>>]
Struct(ns, fields) == [t |-> "struct", ns |-> ns, fields |-> fields]
Cmd(name, runs, fields) == [t |-> "cmd", name |-> name, runs |-> runs, fields |-> fields]

\* The walk every pass takes: a named struct extends the prefix, an embedded one does not,
\* and a subcommand is left to the dispatch.
RECURSIVE Leaves(_, _)
Leaves(fields, prefix) ==
  IF fields = <<>> THEN <<>>
  ELSE LET f == Head(fields) IN
       (CASE f.t = "leaf" -> <<[f EXCEPT !.name = IF f.name = <<>> THEN <<>> ELSE prefix \o f.name]>>
          [] f.t = "struct" -> Leaves(f.fields, IF f.ns = <<>> THEN prefix ELSE prefix \o f.ns \o <<".">>)
          [] OTHER -> <<>>) \o Leaves(Tail(fields), prefix)
Cmds(fields) == SelectSeq(fields, LAMBDA f : f.t = "cmd")
RECURSIVE AllLeaves(_)
AllLeaves(fields) ==
  Leaves(fields, <<>>) \o SX!FlattenSeq([i \in DOMAIN Cmds(fields) |-> AllLeaves(Cmds(fields)[i].fields)])
Ids(fields) == { f.id : f \in Range(AllLeaves(fields)) }
Zero(f) == IF f.shape \in {"slice", "pointer"} THEN <<>>
           ELSE CASE f.elem = "bool" -> <<"false">> [] f.elem = "int" -> <<"0">> [] OTHER -> <<"">>

\* Conversions. Bad is what does not parse; an enum answers the spelling of its tag.
Bad == "unparsable"
TrueTexts  == {"true", "t", "1"}
FalseTexts == {"false", "f", "0"}
Parts(s)  == IF s = "a:b" THEN <<"a", "b">> ELSE <<s>>
Folded(s) == IF s = "WARN" THEN "warn" ELSE s
ParseText(f, s) ==
  CASE f.elem = "int"  -> IF s \in {"0", "1", "2", "-1"} THEN s ELSE Bad
    [] f.elem = "bool" -> IF s \in TrueTexts THEN "true" ELSE IF s \in FalseTexts THEN "false" ELSE Bad
    [] f.elem = "enum" -> IF \E e \in Range(f.enum) : Folded(e) = Folded(s)
                          THEN CHOOSE e \in Range(f.enum) : Folded(e) = Folded(s) ELSE Bad
    [] OTHER -> s

----------------------------------------------------------------------------
\* Binding. st holds the values of every field and a flag set: what is registered (which
\* field, whether it negates), the fields whose default the first flag discards, the
\* flags given so far, the words left over, and the error that stopped everything.
Fresh == [reg |-> << >>, pending |-> {}, given |-> <<>>, rest |-> <<>>]
Start(fields) ==
  LET ls == AllLeaves(fields)
  IN [val |-> [i \in Ids(fields) |-> Zero(CHOOSE f \in Range(ls) : f.id = i)], fs |-> Fresh, err |-> ""]
Failed(st, e) == [st EXCEPT !.err = e]

checkNargTags(f) ==
  f.narg /= "" => /\ f.narg \in {"rest", "until"} /\ f.exported /\ f.shape = "slice"
                  /\ (f.narg = "rest") = (f.name = <<>>)
checkSepTag(f) == f.sep /= Unset => f.shape = "slice"
checkExportedFlag(f) == f.name /= <<>> => f.exported

Truthy(s) == s \in TrueTexts \union {"yes", "y"}
Falsy(s)  == s \in FalseTexts \union {"no", "n", "", "-1"}
Inverted(f) == f.elem = "bool" /\ f.shape /= "pointer" /\ Truthy(f.default)
IsBoolFlag(f) == f.elem = "bool" /\ (f.shape = "slice" => Inverted(f))
Negated(n) == <<"no-">> \o n
Names(f) ==
  LET all == <<f.name>> \o (IF f.short = <<>> THEN <<>> ELSE <<f.short>>)
  IN IF Inverted(f) THEN [i \in DOMAIN all |-> Negated(all[i])] ELSE all

\* What the default: of a field stands for, element by element.
DefaultOf(f) ==
  LET bool(s) == IF f.elem = "bool" /\ f.shape /= "pointer"
                 THEN IF Truthy(s) THEN "true" ELSE IF Falsy(s) THEN "false" ELSE s ELSE s
      texts == IF f.default = "" THEN <<>>
               ELSE IF f.shape = "slice" /\ f.sep /= None THEN Parts(bool(f.default)) ELSE <<bool(f.default)>>
  IN [i \in DOMAIN texts |-> ParseText(f, texts[i])]
DefaultFault(f) ==
  \/ f.shape = "slice" /\ f.default /= "" /\ f.sep = Unset
  \/ Bad \in Range(DefaultOf(f))
  \/ f.enum /= <<>> /\ Cardinality({ Folded(e) : e \in Range(f.enum) }) /= Len(f.enum)

\* A string and a bool are set to their default or to zero, the others only to a default;
\* the defaults of a slice come after the elements it holds.
Defaulted(f, old) ==
  IF f.shape = "slice" THEN old \o DefaultOf(f)
  ELSE IF f.default /= "" THEN DefaultOf(f)
  ELSE IF f.shape = "scalar" /\ f.elem \in {"string", "bool"} THEN Zero(f) ELSE old

registerFlag(st, f) ==
  IF f.name \in DOMAIN st.fs.reg \/ f.short \in DOMAIN st.fs.reg THEN Failed(st, "spec")
  ELSE IF DefaultFault(f) THEN Failed(st, "spec")
  ELSE IF \E n \in Range(Names(f)) : n \in DOMAIN st.fs.reg THEN Failed(st, "panic")
  ELSE [st EXCEPT !.val[f.id] = Defaulted(f, @),
                  !.fs.reg = [n \in DOMAIN @ \union Range(Names(f)) |-> IF n \in DOMAIN @ THEN @[n] ELSE f],
                  !.fs.pending = IF f.shape = "slice" /\ f.default /= "" THEN @ \union {f.id} ELSE @]

bindFlags(st, fields) ==
  SX!FoldLeft(LAMBDA b, f :
    IF b.err /= "" THEN b
    ELSE IF ~(checkNargTags(f) /\ (f.narg /= "rest" => checkSepTag(f) /\ checkExportedFlag(f))) THEN Failed(b, "spec")
    ELSE IF f.narg = "rest" \/ f.name = <<>> THEN b
    ELSE registerFlag(b, f), st, Leaves(fields, <<>>))

----------------------------------------------------------------------------
\* Setting a flag. A slice drops its pending default before it parses the first value and
\* keeps the elements before one that does not parse; an enum parses all of them first.
SetFlag(st, f, s) ==
  LET texts == IF f.shape = "slice" /\ f.sep \notin {Unset, None} THEN Parts(s) ELSE <<s>>
      neg(v) == CASE ~Inverted(f) \/ v = Bad -> v [] v = "true" -> "false" [] OTHER -> "true"
      vs == [i \in DOMAIN texts |-> neg(ParseText(f, texts[i]))]
      bad == SX!SelectInSeq(vs, LAMBDA v : v = Bad)
      good == IF bad = 0 THEN vs ELSE SubSeq(vs, 1, bad - 1)
      kept == IF f.id \in st.fs.pending THEN <<>> ELSE st.val[f.id]
      set == [st EXCEPT !.val[f.id] = IF f.shape = "slice" THEN kept \o good ELSE vs,
                        !.fs.pending = @ \ {f.id}]
  IN IF bad = 0 THEN set
     ELSE Failed(IF f.shape = "slice" /\ f.elem /= "enum" THEN set ELSE st, "input")

\* The flag package: it stops at the first word or after "--", takes the next token for
\* the value of any flag but a bool, whatever it looks like, and answers -help with exit.
RECURSIVE flagParse(_, _)
flagParse(st, args) ==
  IF st.err /= "" THEN st
  ELSE IF args = <<>> THEN [st EXCEPT !.fs.rest = <<>>]
  ELSE LET tok == Head(args) IN
       IF tok = Dashes THEN [st EXCEPT !.fs.rest = Tail(args)]
       ELSE IF tok.name = <<>> THEN [st EXCEPT !.fs.rest = args]
       ELSE IF tok.name \notin DOMAIN st.fs.reg THEN
         Failed(st, IF tok.name \in {<<"help">>, <<"h">>} THEN "exit" ELSE "input")
       ELSE LET f == st.fs.reg[tok.name]
                alone == tok.eq /= None \/ IsBoolFlag(f)
                s == IF tok.eq /= None THEN tok.eq ELSE IF IsBoolFlag(f) THEN "true"
                     ELSE IF Len(args) > 1 THEN Text(args[2]) ELSE Bad
            IN IF s = Bad THEN Failed(st, "input")
               ELSE flagParse([SetFlag(st, f, s) EXCEPT !.fs.given = Append(@, <<tok.name, s>>)],
                              IF alone THEN Tail(args) ELSE SubSeq(args, 3, Len(args)))

IsFlag(tok) == tok = Dashes \/ tok.name /= <<>>
collectUntilFlags(fields) ==
  UNION { {f.name} \union (IF f.short = <<>> THEN {} ELSE {f.short}) :
          f \in { l \in Range(Leaves(fields, <<>>)) : l.narg = "until" /\ l.name /= <<>> } }
WordsFrom(args, i) ==                                   \* the words that follow without a flag between them
  LET stop == { j \in i..Len(args) : IsFlag(args[j]) }
  IN SubSeq(args, i, IF stop = {} THEN Len(args) ELSE (CHOOSE j \in stop : \A k \in stop : j <= k) - 1)
RECURSIVE expandUntilArgs(_, _)
expandUntilArgs(args, until) ==
  IF args = <<>> THEN <<>>
  ELSE LET tok == Head(args) IN
       IF tok.name \notin until THEN <<tok>> \o expandUntilArgs(Tail(args), until)
       ELSE LET ws == WordsFrom(args, 2)
                first == IF tok.eq = None /\ ws /= <<>> THEN <<tok, ws[1]>> ELSE <<tok>>
                more == SubSeq(ws, Len(first), Len(ws))
                again == SX!FlattenSeq([i \in DOMAIN more |-> <<[tok EXCEPT !.eq = None], more[i]>>])
            IN first \o again \o expandUntilArgs(SubSeq(args, 2 + Len(ws), Len(args)), until)

----------------------------------------------------------------------------
\* Finishing a struct: the words left over, the environment, what is required.
populateRestField(st, fields) ==
  LET rests == SelectSeq(fields, LAMBDA f : f.t = "leaf" /\ f.narg = "rest")
      f == rests[1]
      vs == [i \in DOMAIN st.fs.rest |-> ParseText(f, Text(st.fs.rest[i]))]
  IN IF st.err /= "" \/ rests = <<>> THEN st
     ELSE IF Len(rests) > 1 \/ Cmds(fields) /= <<>> THEN Failed(st, "spec")
     ELSE IF Bad \in Range(vs) THEN Failed(st, "input")
     ELSE [st EXCEPT !.val[f.id] = @ \o vs]

GivenNames(st) == { g[1] : g \in Range(st.fs.given) }
CliWasSet(st, f) == f.name \in GivenNames(st) \/ (f.short /= <<>> /\ f.short \in GivenNames(st))
resolveEnvVars(f, env) ==
  LET found == SelectSeq(f.env, LAMBDA v : env[v] /= Unset /\ ("nonempty" \in f.opts => env[v] /= ""))
  IN IF found = <<>> THEN None ELSE env[IF "last" \in f.opts THEN found[Len(found)] ELSE found[1]]
applyEnvVar(st, f, env) ==
  LET s == resolveEnvVars(f, env) IN
  IF st.err /= "" \/ f.name = <<>> \/ f.env = <<>> THEN st
  ELSE IF "exclusive" \in f.opts /\ CliWasSet(st, f) THEN Failed(st, "input")
  ELSE IF s = None THEN st
  ELSE IF "orcli" \in f.opts /\ CliWasSet(st, f) THEN Failed(st, "input")
  ELSE IF CliWasSet(st, f) /\ "priority" \notin f.opts THEN st
  ELSE IF f.name \notin DOMAIN st.fs.reg THEN st           \* an inverted bool is registered as no-name
  ELSE SetFlag(st, st.fs.reg[f.name], s)
applyEnvVars(st, fields, env) ==
  SX!FoldLeft(LAMBDA b, f : applyEnvVar(b, f, env), st, Leaves(fields, <<>>))

Missing(st, f) ==
  f.required /\ (f.name /= <<>> \/ f.narg = "rest") /\ st.val[f.id] = Zero(f)
checkRequired(st, fields) ==
  IF st.err = "" /\ \E f \in Range(Leaves(fields, <<>>)) : Missing(st, f) THEN Failed(st, "input") ELSE st

parseAndFinalize(st, structs, args, env) ==
  LET until == UNION { collectUntilFlags(s) : s \in Range(structs) }
      parsed == flagParse(st, IF until = {} THEN args ELSE expandUntilArgs(args, until))
  IN SX!FoldLeft(LAMBDA b, s : checkRequired(applyEnvVars(populateRestField(b, s), s, env), s), parsed, structs)

\* Registry: every struct is bound first, then the command line is parsed once.
ParseAll(structs, args, env) ==
  parseAndFinalize(SX!FoldLeft(bindFlags, Start(SX!FlattenSeq(structs)), structs), structs, args, env)
Parse(fields, args, env) == ParseAll(<<fields>>, args, env)

----------------------------------------------------------------------------
\* Subcommands: a flag set of its own for each, bound when it is collected; the first word
\* left over names one, and what follows is read by it.
collectSubcommands(st, fields) ==
  LET cmds == Cmds(fields)
      bound[i \in 0..Len(cmds)] ==
        IF i = 0 THEN [st |-> IF cmds /= <<>> /\ \E f \in Range(fields) : f.t = "leaf" /\ f.narg = "rest"
                              THEN Failed(st, "spec") ELSE st, sub |-> << >>]
        ELSE LET b == bound[i - 1]
                 after == bindFlags([b.st EXCEPT !.fs = Fresh], cmds[i].fields)
             IN [st |-> [after EXCEPT !.fs = st.fs],
                 sub |-> [n \in DOMAIN b.sub \union {cmds[i].name} |->
                            IF n = cmds[i].name THEN after.fs ELSE b.sub[n]]]
  IN bound[Len(cmds)]

\* Every one must be a Commander; what is inside it is collected to look at it.
RECURSIVE validateCommanders(_, _)
validateCommanders(st, cmds) ==
  IF st.err /= "" \/ cmds = <<>> THEN st
  ELSE IF ~Head(cmds).runs THEN Failed(st, "spec")
  ELSE LET inner == Head(cmds).fields
       IN validateCommanders(validateCommanders(collectSubcommands(st, inner).st, Cmds(inner)), Tail(cmds))

finishSubcommand(st, fields, args) ==
  LET until == collectUntilFlags(fields)
      parsed == flagParse(st, IF until = {} THEN args ELSE expandUntilArgs(args, until))
  IN checkRequired(populateRestField(parsed, fields), fields)

\* The result is the path of names chosen; <<>> is ErrNotFound. Without a subcommand of
\* that name "help" is one that takes any words and no flag.
RECURSIVE selectSubcommand(_, _, _)
selectSubcommand(st, sub, cmds) ==
  IF st.err /= "" \/ cmds = <<>> \/ st.fs.rest = <<>> THEN [st |-> st, chosen |-> <<>>]
  ELSE LET word == Text(st.fs.rest[1])
           matched == SelectSeq(cmds, LAMBDA c : c.name = word)
       IN IF matched = <<>> THEN
            [st |-> IF word = "help" THEN flagParse([st EXCEPT !.fs = Fresh], Tail(st.fs.rest)) ELSE Failed(st, "input"),
             chosen |-> IF word = "help" THEN <<"help">> ELSE <<>>]
          ELSE LET fields == matched[1].fields
                   done == finishSubcommand([st EXCEPT !.fs = sub[word]], fields, Tail(st.fs.rest))
                   into == collectSubcommands(done, fields)
               IN [selectSubcommand(into.st, into.sub, Cmds(fields)) EXCEPT !.chosen = <<word>> \o @]

dispatch(st, fields, args, env) ==
  LET into == collectSubcommands(st, fields)
      parsed == parseAndFinalize(bindFlags(into.st, fields), <<fields>>, args, env)
      answer(result) == IF result.st.err = "" /\ result.chosen = <<>>
                        THEN [result EXCEPT !.st = Failed(@, "no selection")] ELSE result
  IN answer(selectSubcommand(parsed, into.sub, Cmds(fields)))
Dispatch(fields, args, env) == dispatch(Start(fields), fields, args, env)

\* ParseCommand collects the subcommands to validate them, and dispatch collects them again.
ParseCommand(fields, rootRuns, args, env) ==
  LET checked == validateCommanders(collectSubcommands(Start(fields), fields).st, Cmds(fields))
      go(st) == IF st.err /= "" THEN [st |-> st, chosen |-> <<>>] ELSE dispatch(st, fields, args, env)
      orRoot(result) == IF rootRuns /\ result.st.err = "no selection" THEN [result EXCEPT !.st.err = ""] ELSE result
  IN orRoot(go(checked))

----------------------------------------------------------------------------
\* Validate looks at every tag without arguments. It tries each default on the field itself.
Known == {"nonempty", "priority", "orcli", "exclusive", "last"}
validateLeaf(st, f) ==
  IF st.err /= "" THEN st
  ELSE IF ~checkNargTags(f) \/ (f.name = <<>> /\ f.env /= <<>>) THEN Failed(st, "spec")
  ELSE IF f.narg = "rest" \/ f.name = <<>> THEN st
  ELSE IF \/ ~checkExportedFlag(f) \/ ~checkSepTag(f) \/ DefaultFault(f)
          \/ f.opts /= {} /\ (f.env = <<>> \/ ~(f.opts \subseteq Known))
          \/ f.name \in DOMAIN st.fs.reg \/ f.short \in DOMAIN st.fs.reg THEN Failed(st, "spec")
  ELSE LET names == {f.name} \union (IF f.short = <<>> THEN {} ELSE {f.short})
       IN [st EXCEPT !.val[f.id] = IF f.default = "" THEN @ ELSE Defaulted(f, @),
                     !.fs.reg = [n \in DOMAIN @ \union names |-> IF n \in DOMAIN @ THEN @[n] ELSE f]]
RECURSIVE LevelsValid(_)
LevelsValid(fields) ==
  LET rests == SelectSeq(fields, LAMBDA f : f.t = "leaf" /\ f.narg = "rest")
  IN /\ Len(rests) < 2 /\ (rests /= <<>> => Cmds(fields) = <<>>)
     /\ \A f \in Range(fields) : f.t /= "leaf" => LevelsValid(f.fields)
RECURSIVE validateStruct(_, _)
validateStruct(st, fields) ==
  LET here == SX!FoldLeft(validateLeaf, st, Leaves(fields, <<>>))
      inside == SX!FoldLeft(LAMBDA b, c : validateStruct([b EXCEPT !.fs = Fresh], c.fields), here, Cmds(fields))
  IN IF LevelsValid(fields) THEN inside ELSE Failed(inside, "spec")
Validate(fields) == validateStruct(Start(fields), fields)

----------------------------------------------------------------------------
\* The table of an integer enum: entries count up from the last, as iota does, in a
\* counter of Width bits that wraps, for a type of bits of them.
Width == 3
Pow(n) == 2 ^ n
Least(signed, bits)    == IF signed THEN -Pow(bits - 1) ELSE 0
Greatest(signed, bits) == IF signed THEN Pow(bits - 1) - 1 ELSE Pow(bits) - 1
AsType(signed, n) == IF signed /\ n >= Pow(Width - 1) THEN n - Pow(Width) ELSE n

assign(c, e, signed, bits) ==
  LET n == IF e.has THEN e.val % Pow(Width) ELSE c.next
      v == AsType(signed, n)
  IN IF \/ c.fault
        \/ e.has /\ e.val \notin Least(signed, Width)..Greatest(signed, Width)
        \/ ~e.has /\ c.wrapped
        \/ v \notin Least(signed, bits)..Greatest(signed, bits)
        \/ \E x \in Range(c.entries) : Folded(x.name) = Folded(e.name) \/ x.val = v
     THEN [c EXCEPT !.fault = TRUE]
     ELSE [next |-> (n + 1) % Pow(Width), wrapped |-> v = Greatest(signed, Width), fault |-> FALSE,
           entries |-> Append(c.entries, [name |-> e.name, val |-> v])]
parseEnumTag(raw, signed, bits) ==
  SX!FoldLeft(LAMBDA c, e : assign(c, e, signed, bits),
              [next |-> 0, wrapped |-> FALSE, fault |-> FALSE, entries |-> <<>>], raw)

----------------------------------------------------------------------------
\* What confl promises. Two structs that share a command line, and one with subcommands.
N(opts) == [Leaf EXCEPT !.id = "n", !.name = <<"n">>, !.elem = "int", !.default = "1", !.required = TRUE,
                        !.env = <<"A", "B">>, !.opts = opts]
T == [Leaf EXCEPT !.id = "t", !.name = <<"t">>, !.short = <<"s">>, !.shape = "slice", !.sep = ":", !.default = "a:b"]
C == [Leaf EXCEPT !.id = "c", !.name = <<"c">>, !.elem = "bool", !.default = "yes"]
L == [Leaf EXCEPT !.id = "l", !.name = <<"l">>, !.elem = "enum", !.enum = <<"info", "warn">>, !.shape = "pointer",
                  !.env = <<"E">>]
U == [Leaf EXCEPT !.id = "u", !.name = <<"u">>, !.shape = "slice", !.narg = "until"]
V == [Leaf EXCEPT !.id = "v", !.name = <<"v">>, !.short = <<"s">>, !.elem = "bool"]
R == [Leaf EXCEPT !.id = "r", !.narg = "rest", !.shape = "slice"]
First(opts)  == <<N(opts), Struct(<<"x">>, <<C, L>>)>>
Second == <<U, T>>
InnerN == [N({}) EXCEPT !.id = "in", !.default = "", !.env = <<>>]
Outer == <<V, Cmd("up", TRUE, <<[T EXCEPT !.id = "ut"], [U EXCEPT !.id = "uu"],
                               Cmd("2", TRUE, <<[T EXCEPT !.id = "it"], [R EXCEPT !.id = "ir"]>>)>>),
                Cmd("1", TRUE, <<InnerN>>)>>
NoEnv == [v \in {"A", "B", "E"} |-> Unset]
Envs == {NoEnv, [A |-> "", B |-> "2", E |-> "WARN"], [A |-> "2", B |-> "0", E |-> Unset]}
OptSets == { {o} : o \in Known } \union {{}, {"priority", "nonempty"}, {"orcli", "nonempty", "last"}}
Tokens == {Flag("-n", <<"n">>), FlagIs("-n", <<"n">>, "2"), Flag("-s", <<"s">>), Flag("-u", <<"u">>),
           FlagIs("-u", <<"u">>, "1"), Flag("-no-x.c", <<"no-", "x", ".", "c">>), Word("1"), Word("2"), Word("a:b"), Word("up"), Word("help"), Dashes}

Given(st, f) ==                                     \* what the command line gave f, in order
  LET own == SelectSeq(st.fs.given, LAMBDA g : g[1] \in Range(Names(f)))
  IN [i \in DOMAIN own |-> own[i][2]]
Last(s) == s[Len(s)]
FromEnv(f, env) ==                                  \* and what the environment has for it
  LET found == { i \in DOMAIN f.env : env[f.env[i]] /= Unset /\ ("nonempty" \in f.opts => env[f.env[i]] /= "") }
      pick == CHOOSE i \in found : \A j \in found : IF "last" \in f.opts THEN i >= j ELSE i <= j
  IN IF found = {} THEN None ELSE env[f.env[pick]]

\* A value is the last of the command line, else of the environment, else the default (the
\* environment first where it takes priority); a slice holds all that were given, and
\* its default only if none was. What must not be given together was not.
SourcesInOrder(fields, st, env) ==
  st.err = "" => \A f \in Range(Leaves(fields, <<>>)) :
    LET cli == Given(st, f)
        var == FromEnv(f, env)
        byEnv == var /= None /\ (cli = <<>> \/ "priority" \in f.opts)
    IN /\ f.narg = "rest" => st.val[f.id] = [i \in DOMAIN st.fs.rest |-> Text(st.fs.rest[i])]
       /\ f.name /= <<>> =>
            st.val[f.id] = IF f.shape = "slice"
                           THEN IF cli = <<>> THEN DefaultOf(f)
                                ELSE IF f.sep = Unset THEN cli ELSE SX!FlattenSeq([i \in DOMAIN cli |-> Parts(cli[i])])
                           ELSE IF byEnv THEN <<ParseText(f, var)>>
                           ELSE IF cli = <<>> THEN Defaulted(f, Zero(f))
                           ELSE IF Inverted(f) THEN <<"false">> ELSE <<ParseText(f, Last(cli))>>
       /\ f.required => st.val[f.id] /= Zero(f)
       /\ "exclusive" \in f.opts => cli = <<>>
       /\ "orcli" \in f.opts => cli = <<>> \/ var = None

\* Expanding the until-flags loses, adds and moves no word and no other flag, leaves every
\* word to the flag it stood after, and gives an until-flag one value at a time.
Owner(args, i) == LET before == { j \in 1..i : IsFlag(args[j]) }
                  IN IF before = {} THEN <<>> ELSE args[CHOOSE j \in before : \A k \in before : j >= k].name
Owned(args) == LET words == SelectSeq([i \in DOMAIN args |-> <<i, args[i]>>], LAMBDA w : ~IsFlag(w[2]))
               IN [i \in DOMAIN words |-> <<Owner(args, words[i][1]), words[i][2]>>]
ExpandsInPlace(args, until) ==
  LET ex == expandUntilArgs(args, until)
      others(s) == SelectSeq(s, LAMBDA tok : IsFlag(tok) /\ tok.name \notin until)
  IN /\ Owned(ex) = Owned(args) /\ others(ex) = others(args)
     /\ \A i \in 1..(Len(ex) - 2) : ex[i].name \in until => IsFlag(ex[i + 1]) \/ IsFlag(ex[i + 2])
     /\ \A i \in 1..(Len(ex) - 1) : ex[i].name \in until /\ ex[i].eq /= None => IsFlag(ex[i + 1])
     /\ expandUntilArgs(ex, until) = ex

\* What is left over is the end of the line, from the first word that is no flag's value or
\* from after the "--" that stopped the reading.
LeavesTheEnd(st, ex) ==
  LET at == Len(ex) - Len(st.fs.rest)
  IN st.err = "" => /\ st.fs.rest = SubSeq(ex, at + 1, Len(ex))
                    /\ st.fs.rest /= <<>> /\ IsFlag(st.fs.rest[1]) => at > 0 /\ ex[at] = Dashes

\* Structs that share a Registry read what one struct of both would.
RegistryAsOne(p, q, args, env) ==
  LET same(shared, one) == (shared.err = "") = (one.err = "") /\ (one.err = "" => shared.val = one.val)
  IN same(ParseAll(<<p, q>>, args, env), Parse(<<Struct(<<>>, p), Struct(<<>>, q)>>, args, env))

\* Dispatch chooses the deepest subcommand named, and each on the way reads its part of
\* the line as if it were alone; ParseCommand chooses as Dispatch does and differs at most
\* in the defaults of slices, which it collects more than once.
NoCmds(fields) == SelectSeq(fields, LAMBDA f : f.t /= "cmd")
RECURSIVE Alone(_, _)
Alone(fields, st) ==
  LET named == SelectSeq(Cmds(fields), LAMBDA c : st.fs.rest /= <<>> /\ c.name = Text(st.fs.rest[1]))
      inner == Alone(named[1].fields, Parse(NoCmds(named[1].fields), Tail(st.fs.rest), NoEnv))
  IN IF st.err /= "" \/ Cmds(fields) = <<>> \/ st.fs.rest = <<>> THEN
       [ok |-> st.err = "", path |-> <<>>, val |-> st.val]
     ELSE IF named = <<>> THEN                        \* "help" takes words, and its flags are none
       [ok |-> /\ Text(st.fs.rest[1]) = "help"
               /\ Len(st.fs.rest) > 1 => st.fs.rest[2] = Dashes \/ ~IsFlag(st.fs.rest[2]),
        path |-> <<"help">>, val |-> st.val]
     ELSE [ok |-> inner.ok, path |-> <<named[1].name>> \o inner.path,
           val |-> [i \in DOMAIN st.val \union DOMAIN inner.val |->
                      IF i \in DOMAIN st.val THEN st.val[i] ELSE inner.val[i]]]
DispatchesDeepest(fields, d, p, alone) ==
  LET slices == { f.id : f \in { l \in Range(AllLeaves(fields)) : l.shape = "slice" /\ l.default /= "" } }
  IN /\ (d.st.err = "") = (alone.ok /\ alone.path /= <<>>)
     /\ (p.st.err = "") = alone.ok
     /\ alone.ok => /\ d.chosen = alone.path /\ p.chosen = alone.path
                    /\ \A i \in DOMAIN alone.val : d.st.val[i] = alone.val[i]
                    /\ \A i \in DOMAIN alone.val \ slices : p.st.val[i] = alone.val[i]

\* What Validate accepts can be bound and parsed without arguments, unless a negated name
\* is another field's, and what it refuses is refused there or about tags only it looks at.
NoC == [V EXCEPT !.id = "d", !.name = <<"no-", "c">>, !.short = <<>>]
Variants == {N({}), N({"orcli"}), N({"unknown"}), T, C, U, V, R, [R EXCEPT !.id = "r2"],
             [U EXCEPT !.id = "w", !.name = <<"n">>], [V EXCEPT !.shape = "slice", !.default = "a:b", !.sep = Unset],
             [V EXCEPT !.sep = ":"], [R EXCEPT !.name = <<"r">>], [L EXCEPT !.enum = <<"warn", "WARN">>],
             NoC, [N({}) EXCEPT !.default = "a"],
             Cmd("up", TRUE, <<V, V>>), Cmd("up", TRUE, <<T>>), Struct(<<>>, <<V>>), Struct(<<"n">>, <<V>>)}
ValidatedBinds ==
  \A f, g \in Variants :
    LET st == Dispatch(<<f, g>>, <<>>, NoEnv).st
        accepted == Validate(<<f, g>>).err = ""
        bound == st.err \in {"no selection", "input"}
        tagsRead(x) == x.t = "leaf" /\ x.opts \subseteq Known
    IN (f.t = "leaf" /\ g.t = "leaf" => f.id /= g.id) =>
         /\ accepted => bound \/ {f, g} = {C, NoC}
         /\ bound /\ tagsRead(f) /\ tagsRead(g) => accepted

\* An enum's names get the values of iota, and an entry whose value the type cannot hold,
\* or another entry has, is refused; so is the entry after the greatest of all.
Entries == [name : {"info", "warn", "WARN"}, has : {FALSE}, val : {0}] \union
           [name : {"info", "warn", "a"}, has : {TRUE}, val : {-4, -1, 2, 3, 7}]
EnumsCount(raw, signed, bits) ==
  LET v[i \in 0..Len(raw)] == IF i = 0 THEN -1 ELSE IF raw[i].has THEN raw[i].val ELSE v[i - 1] + 1
      sound == /\ \A i \in DOMAIN raw : v[i] \in Least(signed, bits)..Greatest(signed, bits)
               /\ \A i, j \in DOMAIN raw : i < j => v[i] /= v[j] /\ Folded(raw[i].name) /= Folded(raw[j].name)
      counted(table) == table.fault = ~sound /\ (sound => table.entries = [i \in DOMAIN raw |-> [name |-> raw[i].name, val |-> v[i]]])
  IN counted(parseEnumTag(raw, signed, bits))

CommandLinesRead(args) ==
  LET all(opts) == First(opts) \o Second \o <<R>>
      until == collectUntilFlags(Second)
  IN /\ \A opts \in OptSets, env \in Envs : SourcesInOrder(all(opts), Parse(all(opts), args, env), env)
     /\ \A env \in Envs : RegistryAsOne(First({}), Second, args, env)
     /\ ExpandsInPlace(args, until) /\ LeavesTheEnd(Parse(Second, args, NoEnv), expandUntilArgs(args, until))
     /\ DispatchesDeepest(Outer, Dispatch(Outer, args, NoEnv), ParseCommand(Outer, TRUE, args, NoEnv),
                          Alone(Outer, Parse(NoCmds(Outer), args, NoEnv)))
EnumsRead(raw) == \A signed \in BOOLEAN, bits \in {2, 3} : EnumsCount(raw, signed, bits)
=============================================================================
