----------------------------- MODULE ShardedMap -----------------------------
(* adt/shard.Map: a map of versioned values under two clocks, the map's and *)
(* the shard's, and nothing that spans them: a call is a sequence of atomic *)
(* steps. The keys here are of one shard. A write is told apart by its      *)
(* number, and stores that as its value; the Versioned objects by theirs.   *)
EXTENDS Integers, Sequences, FiniteSets

CONSTANTS Callers, Keys, MaxWrites, MaxFetches

VARIABLES clock, shClock,     \* of the map, and of its shard
          entry,        \* the object a key has in the backing map, or 0
          value, version,       \* of each object
          wrote,        \* the version each write gave its object
          writes,       \* how many modifications have begun
          fetches,      \* how many reads
          pc, key, mine, obj, seen,     \* of each caller: its call, and what it has read
          result        \* of its last Fetch

memory == <<clock, shClock, entry, value, version, wrote>>
counts == <<writes, fetches>>
vars == <<memory, counts, pc, key, mine, obj, seen, result>>
Nothing == [g |-> 0, s |-> 0, was |-> 0, ver |-> 0, val |-> 0]

Init ==
  /\ clock = 0 /\ shClock = 0 /\ entry = [k \in Keys |-> 0]
  /\ value = <<>> /\ version = <<>> /\ wrote = <<>> /\ writes = 0 /\ fetches = 0
  /\ pc = [c \in Callers |-> "idle"] /\ key = [c \in Callers |-> CHOOSE k \in Keys : TRUE]
  /\ mine = [c \in Callers |-> 0] /\ obj = [c \in Callers |-> 0]
  /\ seen = [c \in Callers |-> Nothing] /\ result = [c \in Callers |-> Nothing]

Goto(c, l) == pc' = [pc EXCEPT ![c] = l]
Local == <<key, mine, obj, seen, result>>

----------------------------------------------------------------------------
(* Store, Set and Delete first move both clocks: inc, and write *)
inc(c) ==
  /\ pc[c] = "idle" /\ writes < MaxWrites /\ writes' = writes + 1 /\ clock' = clock + 1
  /\ \E k \in Keys : key' = [key EXCEPT ![c] = k]
  /\ \E deletes \in BOOLEAN :
       /\ mine' = [mine EXCEPT ![c] = IF deletes THEN 0 ELSE writes + 1]
       /\ Goto(c, IF deletes THEN "write delete" ELSE "write set")
  /\ wrote' = Append(wrote, 0)
  /\ UNCHANGED <<shClock, entry, value, version, fetches, obj, seen, result>>
write(c) ==
  /\ pc[c] \in {"write delete", "write set"} /\ shClock' = shClock + 1
  /\ Goto(c, IF pc[c] = "write set" THEN "load" ELSE "delete")
  /\ UNCHANGED <<clock, entry, value, version, wrote, counts, Local>>
Delete(c) ==
  /\ pc[c] = "delete" /\ Goto(c, "idle") /\ entry' = [entry EXCEPT ![key[c]] = 0]
  /\ UNCHANGED <<clock, shClock, value, version, wrote, counts, Local>>
(* set loads the key's object, and makes one if there was none then *)
set(c) ==
  /\ pc[c] = "load" /\ obj' = [obj EXCEPT ![c] = entry[key[c]]]
  /\ Goto(c, IF entry[key[c]] = 0 THEN "new" ELSE "bump")
  /\ UNCHANGED <<memory, counts, key, mine, seen, result>>
Version(c) ==
  /\ pc[c] = "new" /\ Goto(c, "idle")
  /\ value' = Append(value, mine[c]) /\ version' = Append(version, 1) /\ wrote' = [wrote EXCEPT ![mine[c]] = 1]
  /\ entry' = [entry EXCEPT ![key[c]] = Len(value) + 1]
  /\ UNCHANGED <<clock, shClock, counts, Local>>
(* Versioned.Set moves the object's clock, and then stores *)
\* Mutant: the value is stored before the clock has moved.
StoreFirst(c, l) == IF l = "bump" THEN pc[c] = "put" ELSE IF l = "put" THEN pc[c] = "bump" ELSE pc[c] = l
At(c, l) == pc[c] = l
After(c) == Goto(c, CASE pc[c] = "bump" -> "put" [] pc[c] = "put" -> "back" [] OTHER -> "idle")
Bump(c) ==
  /\ At(c, "bump") /\ After(c) /\ version' = [version EXCEPT ![obj[c]] = @ + 1]
  /\ wrote' = [wrote EXCEPT ![mine[c]] = version[obj[c]] + 1]
  /\ UNCHANGED <<clock, shClock, entry, value, counts, Local>>
Put(c) ==
  /\ At(c, "put") /\ After(c) /\ value' = [value EXCEPT ![obj[c]] = mine[c]]
  /\ UNCHANGED <<clock, shClock, entry, version, wrote, counts, Local>>
(* and set puts the object back, whatever the map has by then *)
SetBack(c) ==
  /\ pc[c] = "back" /\ After(c) /\ entry' = [entry EXCEPT ![key[c]] = obj[c]]
  /\ UNCHANGED <<clock, shClock, value, version, wrote, counts, Local>>

----------------------------------------------------------------------------
(* Map.Fetch, the shard's fetch, and Versioned.Fetch: three loops, each     *)
(* of which starts over when the clock it read has moved. (Load and Get     *)
(* read the object and then its value, as the innermost does.)              *)
Note(c, f, x) == seen' = [seen EXCEPT ![c][f] = x]
ReadOnly == UNCHANGED <<memory, key, mine>>
Fetch(c) ==
  /\ \/ pc[c] = "idle" /\ fetches < MaxFetches /\ fetches' = fetches + 1 /\ (\E k \in Keys : key' = [key EXCEPT ![c] = k])
     \/ pc[c] = "global" /\ UNCHANGED <<fetches, key>>
  /\ Note(c, "g", clock) /\ Goto(c, "shard")
  /\ UNCHANGED <<memory, writes, mine, obj, result>>
fetch(c) ==
  /\ \/ pc[c] = "shard" /\ Note(c, "s", shClock) /\ Goto(c, "find") /\ UNCHANGED obj
     \/ pc[c] = "find" /\ obj' = [obj EXCEPT ![c] = entry[key[c]]] /\ UNCHANGED seen
        /\ Goto(c, IF entry[key[c]] = 0 THEN "missing" ELSE "was")
     \/ pc[c] = "was" /\ Note(c, "was", version[obj[c]]) /\ Goto(c, "same shard") /\ UNCHANGED obj
     \/ pc[c] = "same shard" /\ Goto(c, IF seen[c].s = shClock THEN "inner" ELSE "shard") /\ UNCHANGED <<obj, seen>>
  /\ ReadOnly /\ UNCHANGED <<counts, result>>
Missing(c) ==
  /\ pc[c] = "missing" /\ seen' = [seen EXCEPT ![c] = [Nothing EXCEPT !.g = seen[c].g]] /\ Goto(c, "same global")
  /\ ReadOnly /\ UNCHANGED <<counts, obj, result>>
Same(c) == version[obj[c]] = seen[c].ver
VersionedFetch(c) ==
  /\ \/ pc[c] = "inner" /\ Note(c, "ver", version[obj[c]]) /\ Goto(c, "value")
     \/ pc[c] = "value" /\ Note(c, "val", value[obj[c]]) /\ Goto(c, "same version")
     \/ pc[c] = "same version" /\ UNCHANGED seen
        /\ Goto(c, IF ~Same(c) THEN "inner" ELSE IF seen[c].was = seen[c].ver THEN "same global" ELSE "shard")
  /\ ReadOnly /\ UNCHANGED <<counts, obj, result>>
FetchEnds(c) ==
  /\ pc[c] = "same global"
  /\ \/ seen[c].g = clock /\ Goto(c, "idle") /\ result' = [result EXCEPT ![c] = seen[c]]
     \/ seen[c].g /= clock /\ Goto(c, "global") /\ UNCHANGED result
  /\ ReadOnly /\ UNCHANGED <<counts, obj, seen>>

Going(c) ==
  \/ write(c) \/ Delete(c) \/ set(c) \/ Version(c) \/ Bump(c) \/ Put(c) \/ SetBack(c)
  \/ (pc[c] = "global" /\ Fetch(c)) \/ fetch(c) \/ Missing(c) \/ VersionedFetch(c) \/ FetchEnds(c)
Next == \E c \in Callers : inc(c) \/ Fetch(c) \/ Going(c)
Spec == Init /\ [][Next]_vars
FairSpec == Spec /\ \A c \in Callers : WF_vars(Going(c))

----------------------------------------------------------------------------
(* A value is never newer than the version Fetch reports with it: whoever   *)
(* finds a later version knows that there may be a later value              *)
NeverAhead == \A c \in Callers : result[c].val /= 0 => wrote[result[c].val] <= result[c].ver

(* Every call ends: Fetch cannot start over for ever once writing stops *)
FetchesEnd == <>[](\A c \in Callers : pc[c] = "idle")

(* Fetch does not report stale data: the value is the version's *)
NeverBehind == \A c \in Callers : result[c].val /= 0 => wrote[result[c].val] >= result[c].ver

(* Versions are strictly increasing (map.go:38): while a key is not deleted *)
(* its version does not go back. But two first sets each make an object,    *)
(* and the later takes the place of one that has been written since.        *)
VersionsGrow ==
  [][\A k \in Keys : entry[k] /= 0 /\ entry'[k] /= 0 => version'[entry'[k]] >= version[entry[k]]]_vars

=============================================================================
