------------------------------ MODULE Streaming ------------------------------
\* The goroutines that hand items on: the worker pools of wpa, the streams of pubsub and
\* the channels of irt and stw. The tool is chosen at the start, in the variable "how"
\* they all have; the variables of the other two hold Unused.
EXTENDS Integers, FiniteSets, Sequences

CONSTANTS MaxWorkers,   \* of a pool or a stream
          MaxJobs, Outcomes,      \* of a pool
          Scripts, Readers,       \* of a stream: what its source may answer, and who reads
          Consumers, MaxItems, MaxSize      \* of a channel

\* A stream whose items are not converted has none that cannot be. Goroutines are numbered,
\* and 0 is nobody; a channel that is not shared is read by the first consumer.
ASSUME StreamingAssumption ==
  /\ MaxWorkers \in Nat \ {0} /\ MaxJobs \in Nat
  /\ DOMAIN Scripts \subseteq {"split", "buffer", "parallel", "merge", "convert"}
  /\ \A h \in DOMAIN Scripts :
       Scripts[h] \subseteq Seq({"item", "skip", "err"} \cup (IF h = "convert" THEN {"bad"} ELSE {}))
  /\ Readers \subseteq Nat \ {0} /\ Readers /= {}
  /\ Consumers \subseteq Nat \ {0} /\ 1 \in Consumers
  /\ MaxItems \in Nat /\ MaxSize \in Nat

Unused == "unused"

VARIABLES how, conf, size, pc, ctx, told, got, ch, chClosed, failure,
          jobs, pulled, released, job, shards, remain, aborted, ran, sinkDone, poolOver, returned,
          script, taken, srcClosed, srcErrs, srcStart, lock, opened, worker, item, pump, poolErrs,
          closed, closing, start, canceled, outErrs, why,
          items, panics, next, producer, prodDone, stopped, begun, quits, reported

ofPools == <<jobs, pulled, released, job, shards, remain, aborted, ran, sinkDone, poolOver, returned>>
ofStreams == <<script, taken, srcClosed, srcErrs, srcStart, lock, opened, worker, item, pump, poolErrs,
               closed, closing, start, canceled, outErrs, why>>
ofChannels == <<items, panics, next, producer, prodDone, stopped, begun, quits, reported>>
vars == <<how, conf, size, pc, ctx, told, got, ch, chClosed, failure, ofPools, ofStreams, ofChannels>>

P == INSTANCE WorkerPool
S == INSTANCE Streams
C == INSTANCE Channels

PoolsUnused ==
  /\ jobs = Unused /\ pulled = Unused /\ released = Unused /\ job = Unused /\ shards = Unused
  /\ remain = Unused /\ aborted = Unused /\ ran = Unused /\ sinkDone = Unused
  /\ poolOver = Unused /\ returned = Unused
StreamsUnused ==
  /\ script = Unused /\ taken = Unused /\ srcClosed = Unused /\ srcErrs = Unused
  /\ srcStart = Unused /\ lock = Unused /\ opened = Unused /\ worker = Unused /\ item = Unused
  /\ pump = Unused /\ poolErrs = Unused /\ closed = Unused /\ closing = Unused
  /\ start = Unused /\ canceled = Unused /\ outErrs = Unused /\ why = Unused
ChannelsUnused ==
  /\ items = Unused /\ panics = Unused /\ next = Unused /\ producer = Unused
  /\ prodDone = Unused /\ stopped = Unused /\ begun = Unused /\ quits = Unused /\ reported = Unused

Init ==
  \/ /\ P!Init /\ StreamsUnused /\ ChannelsUnused
     /\ got = Unused /\ ch = Unused /\ chClosed = Unused
  \/ S!Init /\ PoolsUnused /\ ChannelsUnused /\ failure = Unused
  \/ C!Init /\ PoolsUnused /\ StreamsUnused /\ conf = Unused

Pool == how \in {"run", "pull", "resolve"}
Stream == how \in {"split", "buffer", "parallel", "merge", "convert"}
Channel == how \in C!Hows
OfPool(A) == Pool /\ A /\ UNCHANGED <<got, ch, chClosed, ofStreams, ofChannels>>
OfStream(A) == Stream /\ A /\ UNCHANGED <<failure, ofPools, ofChannels>>
OfChannel(A) == Channel /\ A /\ UNCHANGED <<conf, ofPools, ofStreams>>
Next == OfPool(P!Next) \/ OfStream(S!Next) \/ OfChannel(C!Next)

Spec == Init /\ [][Next]_vars

----------------------------------------------------------------------------
\* Jobs run once each and their errors are told once each (wpa/pools.go).
PoolsAccount == Pool => P!PoolAccounts

\* Items reach their readers once each and in order, none is missing unless somebody
\* stopped or canceled, and the errors and panics of a source are told (pubsub/stream.go,
\* irt/irt.go, stw/chan.go).
ItemsDelivered ==
  /\ Stream => S!StreamsDeliver
  /\ Channel => C!ChannelsDeliver
=============================================================================
