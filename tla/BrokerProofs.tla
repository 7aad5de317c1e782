---------------------------- MODULE BrokerProofs ----------------------------
(***************************************************************************)
(* Proofs about the module Broker, for every set of subscribers,           *)
(* publishers, workers and configurations: no message is sent twice to a   *)
(* subscription or, where the workers keep it, out of order, and none that *)
(* is owed to a subscription is left out.                                  *)
(***************************************************************************)
EXTENDS Broker, SequenceTheorems, TLAPS

----------------------------------------------------------------------------
\* The inductive invariant.

Requests == [kind : {"sub", "unsub", "stats"}, s : Subscribers]

TypeOK ==
  /\ opts \in Options /\ {loop, shut, closed} \subseteq BOOLEAN
  /\ ctlCh \in Seq(Requests) /\ hand \in Requests \cup {Nobody}
  /\ subs \subseteq Subscribers /\ done \subseteq Subscribers
  /\ queue \in Seq(Nat) /\ accepted \in Seq(Nat)
  /\ worker \in [Workers -> [at : {"source", "sending", "ended"}, msg : Nat,
                             seen : SUBSET Subscribers, must : SUBSET Subscribers]]
  /\ senders \subseteq [w : Workers, m : Nat, s : Subscribers]
  /\ mbox \in [Subscribers -> Seq(Nat)] /\ got \in [Subscribers -> Seq(Nat)]
  /\ pc \in [Subscribers \cup Publishers -> CallerAt]
  /\ count \in Nat /\ msg \in [Publishers -> Nat]
  /\ owed \in Seq(SUBSET Subscribers) /\ Len(owed) = count

Gone == Range(accepted) \ Range(queue)

\* How many messages have been taken: with a FIFO, the place of the last one.
last == Len(accepted) - Len(queue)

Dispatches(w, m) == worker[w].at = "sending" /\ worker[w].msg = m

\* A message that a publisher still has is known to nobody else.
Unsent ==
  \A p \in Publishers : pc[p] = "sink" =>
    /\ msg[p] \in 1..count /\ msg[p] \notin Range(accepted)
    /\ \A q \in Publishers : pc[q] = "sink" /\ msg[q] = msg[p] => q = p

\* What waits in the queue are messages nobody has taken, each once.
Queued ==
  /\ IsInjective(accepted) /\ Range(accepted) \subseteq 1..count
  /\ IsInjective(queue) /\ Range(queue) \subseteq Range(accepted)
  /\ opts.source = "channel" => queue = <<>>
  /\ opts.source # "lifo" => /\ last >= 0
                             /\ \A i \in DOMAIN queue : queue[i] = accepted[last + i]

\* A message has one worker, which has one send of it to each subscription it has seen.
OneTaker ==
  /\ \A w \in Workers : worker[w].at = "sending" =>
       /\ worker[w].msg \in Gone
       /\ \A v \in Workers : Dispatches(v, worker[w].msg) => v = w
  /\ \A x \in senders :
       /\ x.m \in Gone /\ x.m \notin Range(got[x.s])
       /\ \A w \in Workers : Dispatches(w, x.m) => w = x.w /\ x.s \in worker[w].seen
       /\ \A y \in senders : y.m = x.m /\ y.s = x.s => y = x
  /\ \A s \in Subscribers : \A m \in Range(got[s]) :
       /\ m \in Gone
       /\ \A w \in Workers : Dispatches(w, m) => s \in worker[w].seen

\* With one worker that keeps the order, whatever is being sent is the last message taken.
LastTaken ==
  Ordered => /\ \A w \in Workers : worker[w].at = "sending" =>
                  last > 0 /\ worker[w].msg = accepted[last]
             /\ \A x \in senders : last > 0 /\ x.m = accepted[last]
             /\ \A w \in Workers : worker[w].at = "source" => senders = {}

\* Who has subscribed stays in the set the workers walk until its done channel is closed.
Reachable ==
  /\ \A s \in Subscribers : pc[s] \in Registered \cup {"unsub"} => s \in subs \cup done
  /\ \A m \in 1..count : owed[m] \subseteq subs \cup done

Visited ==
  \A w \in Workers : worker[w].at = "sending" =>
    /\ owed[worker[w].msg] \subseteq worker[w].must \cup done
    /\ \A s \in worker[w].seen \ done :
         closed \/ worker[w].msg \in Range(got[s]) \/ \E x \in Sends(w) : x.s = s

IInv == /\ TypeOK /\ Unsent /\ Queued /\ OneTaker /\ OnceInOrder /\ LastTaken
        /\ Reachable /\ Visited

----------------------------------------------------------------------------
\* Sequences.

LEMMA Appended ==
  ASSUME NEW q \in Seq(Nat), NEW m \in Nat
  PROVE  /\ Append(q, m) \in Seq(Nat) /\ Len(Append(q, m)) = Len(q) + 1
         /\ DOMAIN q = 1..Len(q) /\ DOMAIN Append(q, m) = 1..(Len(q) + 1) /\ Len(q) \in Nat
         /\ \A i \in 1..Len(q) : Append(q, m)[i] = q[i]
         /\ Append(q, m)[Len(q) + 1] = m
         /\ Range(Append(q, m)) = Range(q) \cup {m}
         /\ IsInjective(q) /\ m \notin Range(q) => IsInjective(Append(q, m))
<1> DEFINE n == Append(q, m)
<1>1. /\ n \in Seq(Nat) /\ Len(n) = Len(q) + 1 /\ DOMAIN q = 1..Len(q) /\ DOMAIN n = 1..(Len(q) + 1)
      /\ Len(q) \in Nat /\ (\A i \in 1..Len(q) : n[i] = q[i]) /\ n[Len(q) + 1] = m
  OBVIOUS
<1> HIDE DEF n
<1>4. \A i : i \in 1..(Len(q) + 1) <=> i \in 1..Len(q) \/ i = Len(q) + 1
  BY <1>1
<1>5. \A x : x \in Range(q) <=> \E i \in 1..Len(q) : x = q[i]
  BY <1>1 DEF Range
<1>6. \A x : x \in Range(n) <=> \E i \in 1..(Len(q) + 1) : x = n[i]
  BY <1>1 DEF Range
<1>2. Range(n) = Range(q) \cup {m}
  <2>1. \A x : x \in Range(n) <=> x \in Range(q) \/ x = m
    BY <1>1, <1>4, <1>5, <1>6
  <2> QED
    BY <2>1
<1>3. ASSUME IsInjective(q), m \notin Range(q) PROVE IsInjective(n)
  <2>1. \A i, j \in 1..Len(q) : q[i] = q[j] => i = j
    BY <1>1, <1>3 DEF IsInjective
  <2>2. \A i \in 1..Len(q) : q[i] # m
    BY <1>3, <1>5
  <2>3. \A i, j \in 1..(Len(q) + 1) : n[i] = n[j] => i = j
    BY <1>1, <1>4, <2>1, <2>2
  <2> QED
    BY <1>1, <2>3 DEF IsInjective
<1> QED
  BY <1>1, <1>2, <1>3 DEF n

\* A sequence without its t-th element.
Without(q, t) == SubSeq(q, 1, t - 1) \o SubSeq(q, t + 1, Len(q))

LEMMA WithoutOne ==
  ASSUME NEW q \in Seq(Nat), NEW t \in 1..Len(q)
  PROVE  /\ Without(q, t) \in Seq(Nat) /\ Len(Without(q, t)) = Len(q) - 1
         /\ \A i \in 1..(Len(q) - 1) : Without(q, t)[i] = q[IF i < t THEN i ELSE i + 1]
         /\ IsInjective(q) => /\ IsInjective(Without(q, t))
                              /\ Range(Without(q, t)) = Range(q) \ {q[t]}
<1>1. PICK n \in Nat : n = Len(q)
  OBVIOUS
<1>2. DOMAIN q = 1..n /\ t \in Nat /\ t > 0 /\ t <= n /\ \A i \in 1..n : q[i] \in Nat
  BY <1>1
<1> DEFINE a == SubSeq(q, 1, t - 1)
           b == SubSeq(q, t + 1, n)
           r == a \o b
<1>3. a \in Seq(Nat) /\ Len(a) = t - 1 /\ \A i \in 1..(t - 1) : a[i] = q[i]
  BY <1>2, SubSeqProperties
<1>4. b \in Seq(Nat) /\ Len(b) = n - t /\ \A i \in 1..(n - t) : b[i] = q[t + i]
  <2>1. t + 1 \in Int /\ n \in Int /\ \A i \in (t + 1)..n : q[i] \in Nat
    BY <1>2
  <2>2. /\ b \in Seq(Nat) /\ Len(b) = IF t + 1 <= n THEN n - (t + 1) + 1 ELSE 0
        /\ \A i \in 1..(n - (t + 1) + 1) : b[i] = q[t + 1 + i - 1]
    BY <2>1, SubSeqProperties
  <2> HIDE DEF b
  <2> QED
    BY <1>2, <2>2
<1> HIDE DEF a, b
<1>5. /\ r \in Seq(Nat) /\ Len(r) = Len(a) + Len(b)
      /\ \A i \in 1..Len(a) + Len(b) : r[i] = IF i <= Len(a) THEN a[i] ELSE b[i - Len(a)]
  BY <1>3, <1>4, ConcatProperties
<1> HIDE DEF r
<1>6. /\ r \in Seq(Nat) /\ Len(r) = n - 1
      /\ \A i \in 1..(n - 1) : r[i] = q[IF i < t THEN i ELSE i + 1]
  <2>1. r \in Seq(Nat) /\ Len(r) = n - 1
    BY <1>2, <1>3, <1>4, <1>5
  <2>2. ASSUME NEW i \in 1..(n - 1), i < t PROVE r[i] = q[i]
    BY <1>2, <1>3, <1>4, <1>5, <2>2
  <2>3. ASSUME NEW i \in 1..(n - 1), ~(i < t) PROVE r[i] = q[i + 1]
    <3>1. i - Len(a) \in 1..(n - t) /\ ~(i <= Len(a)) /\ i \in 1..Len(a) + Len(b) /\ t + (i - Len(a)) = i + 1
      BY <1>2, <1>3, <1>4, <2>3
    <3>2. b[i - Len(a)] = q[i + 1]
      BY <1>4, <3>1
    <3> QED
      BY <1>5, <3>1, <3>2
  <2> QED
    BY <2>1, <2>2, <2>3
<1>7. DOMAIN r = 1..(n - 1)
  BY <1>2, <1>6
<1>8. ASSUME IsInjective(q) PROVE IsInjective(r)
  <2>1. SUFFICES ASSUME NEW i \in 1..(n - 1), NEW j \in 1..(n - 1), r[i] = r[j] PROVE i = j
    BY <1>7 DEF IsInjective
  <2>2. \A x, y \in 1..n : q[x] = q[y] => x = y
    BY <1>2, <1>8 DEF IsInjective
  <2>3. /\ i < t => i \in 1..n /\ r[i] = q[i]
        /\ ~(i < t) => i + 1 \in 1..n /\ r[i] = q[i + 1]
        /\ j < t => j \in 1..n /\ r[j] = q[j]
        /\ ~(j < t) => j + 1 \in 1..n /\ r[j] = q[j + 1]
    BY <1>2, <1>6
  <2> QED
    BY <1>2, <2>1, <2>2, <2>3
<1>9. ASSUME IsInjective(q) PROVE Range(r) = Range(q) \ {q[t]}
  <2>1. ASSUME NEW i \in 1..(n - 1) PROVE r[i] \in Range(q) \ {q[t]}
    <3>1. \E k \in 1..n : k # t /\ r[i] = q[k]
      BY SMTT(30), <1>2, <1>6
    <3> QED
      BY SMTT(30), <1>2, <1>9, <3>1 DEF IsInjective, Range
  <2>2. ASSUME NEW k \in 1..n, k # t PROVE \E i \in 1..(n - 1) : r[i] = q[k]
    <3>1. CASE k < t
      <4>1. k \in 1..(n - 1) /\ r[k] = q[k]
        BY <1>2, <1>6, <3>1
      <4> QED
        BY <4>1
    <3>2. CASE k > t
      <4>1. PICK i \in 1..(n - 1) : i + 1 = k /\ ~(i < t)
        <5>1. k - 1 \in 1..(n - 1) /\ (k - 1) + 1 = k /\ ~(k - 1 < t)
          BY <1>2, <3>2
        <5> QED
          BY <5>1
      <4>2. r[i] = q[k]
        BY <1>6, <4>1
      <4> QED
        BY <4>2
    <3> QED
      BY <1>2, <2>2, <3>1, <3>2
  <2>3. Range(r) \subseteq Range(q) \ {q[t]}
    BY <1>7, <2>1 DEF Range
  <2>4. ASSUME NEW m \in Range(q) \ {q[t]} PROVE m \in Range(r)
    <3>1. PICK k \in 1..n : k # t /\ m = q[k]
      BY <1>2 DEF Range
    <3> QED
      BY <1>7, <2>2, <3>1 DEF Range
  <2> QED
    BY <2>3, <2>4
<1>10. Without(q, t) = r
  BY <1>1 DEF Without, r, a, b
<1> QED
  BY <1>1, <1>6, <1>8, <1>9, <1>10

\* A message's place in the order of acceptance.
LEMMA PlaceOf ==
  ASSUME NEW i \in DOMAIN accepted, IsInjective(accepted) PROVE place(accepted[i]) = i
  BY DEF place, IsInjective

----------------------------------------------------------------------------
\* The messages and the workers.

LEMMA GoneFacts ==
  ASSUME IInv
  PROVE  /\ accepted \in Seq(Nat) /\ queue \in Seq(Nat) /\ DOMAIN accepted = 1..Len(accepted)
         /\ DOMAIN queue = 1..Len(queue) /\ Len(accepted) \in Nat /\ Len(queue) \in Nat
         /\ Gone \subseteq Range(accepted) /\ Range(accepted) \subseteq 1..count /\ count \in Nat
         /\ \A m \in Range(accepted) : \E i \in 1..Len(accepted) : m = accepted[i] /\ place(m) = i
<1>1. ASSUME NEW m \in Range(accepted) PROVE \E i \in DOMAIN accepted : m = accepted[i] /\ place(m) = i
  <2>1. PICK i \in DOMAIN accepted : m = accepted[i]
    BY DEF Range
  <2> QED
    BY <2>1, PlaceOf DEF IInv, Queued
<1> QED
  BY <1>1 DEF IInv, TypeOK, Queued, Gone

\* With a FIFO the messages taken are the first ones accepted.
LEMMA GoneFirst ==
  ASSUME IInv, opts.source # "lifo", NEW m \in Gone PROVE place(m) <= last
<1>1. PICK i \in 1..Len(accepted) : m = accepted[i] /\ place(m) = i
  BY GoneFacts
<1>2. SUFFICES ASSUME i > last PROVE FALSE
  BY <1>1, GoneFacts DEF last
<1>3. i - last \in DOMAIN queue /\ last + (i - last) = i
  BY <1>1, <1>2, GoneFacts DEF last, IInv, Queued
<1>4. queue[i - last] = m
  BY <1>1, <1>3 DEF IInv, Queued
<1> QED
  BY <1>3, <1>4 DEF Gone, Range

LEMMA GotOnce == ASSUME IInv, NEW s \in Subscribers PROVE IsInjective(got[s])
<1>1. ASSUME NEW i \in DOMAIN got[s], NEW j \in DOMAIN got[s], i < j PROVE got[s][i] # got[s][j]
  <2>1. got[s][i] \in Range(accepted)
    BY DEF IInv, OnceInOrder, Range
  <2>2. place(got[s][i]) \in Nat
    BY <2>1, GoneFacts
  <2> QED
    BY <1>1, <2>2 DEF IInv, OnceInOrder
<1>2. DOMAIN got[s] \subseteq Int
  BY DEF IInv, TypeOK
<1> QED
  BY <1>1, <1>2 DEF IsInjective

\* A step that sends nothing and leaves the accepted messages in their places.
LEMMA OrderKept ==
  ASSUME IInv, UNCHANGED got, Ordered' => Ordered,
         \A m \in Range(accepted) : m \in Range(accepted') /\ place(m)' = place(m)
  PROVE  OnceInOrder'
<1>1. ASSUME NEW s \in Subscribers
      PROVE  (/\ Range(got[s]) \subseteq Range(accepted)
              /\ \A i, j \in DOMAIN got[s] : i < j =>
                   IF Ordered THEN place(got[s][i]) < place(got[s][j]) ELSE got[s][i] # got[s][j])'
  <2>1. Range(got[s]) \subseteq Range(accepted)
    BY DEF IInv, OnceInOrder
  <2>2. ASSUME NEW i \in DOMAIN got[s], NEW j \in DOMAIN got[s], i < j
        PROVE  IF Ordered' THEN place(got[s][i])' < place(got[s][j])' ELSE got[s][i] # got[s][j]
    <3>1. got[s][i] \in Range(accepted) /\ got[s][j] \in Range(accepted)
      BY <2>1 DEF Range
    <3>2. CASE Ordered'
      BY <2>2, <3>1, <3>2 DEF IInv, OnceInOrder
    <3>3. CASE ~Ordered'
      <4>1. i # j
        BY <2>2 DEF IInv, TypeOK
      <4> QED
        BY <3>3, <4>1, GotOnce DEF IsInjective
    <3> QED
      BY <3>2, <3>3
  <2> QED
    BY <2>1, <2>2
<1> QED
  BY <1>1 DEF OnceInOrder

LEMMA PlacesKept ==
  ASSUME IInv, NEW m \in Nat \ Range(accepted), accepted' = Append(accepted, m)
  PROVE  /\ \A x \in Range(accepted) : x \in Range(accepted') /\ place(x)' = place(x)
         /\ IsInjective(accepted') /\ Range(accepted') = Range(accepted) \cup {m}
         /\ accepted' \in Seq(Nat) /\ Len(accepted') = Len(accepted) + 1
         /\ \A i \in 1..Len(accepted) : accepted'[i] = accepted[i]
         /\ accepted'[Len(accepted) + 1] = m
<1>1. /\ IsInjective(accepted') /\ Range(accepted') = Range(accepted) \cup {m}
      /\ accepted' \in Seq(Nat) /\ Len(accepted') = Len(accepted) + 1
      /\ DOMAIN accepted' = 1..(Len(accepted) + 1)
      /\ \A i \in 1..Len(accepted) : accepted'[i] = accepted[i]
      /\ accepted'[Len(accepted) + 1] = m
  BY GoneFacts, Appended DEF IInv, Queued
<1>2. ASSUME NEW x \in Range(accepted) PROVE place(x)' = place(x)
  <2>1. PICK i \in 1..Len(accepted) : x = accepted[i] /\ place(x) = i
    BY GoneFacts
  <2>2. i \in DOMAIN accepted' /\ accepted'[i] = x
    BY <1>1, <2>1, GoneFacts
  <2>3. \A j \in DOMAIN accepted' : accepted'[j] = x => j = i
    BY <1>1, <2>2 DEF IsInjective
  <2> QED
    BY <2>1, <2>2, <2>3 DEF place
<1> QED
  BY <1>1, <1>2

\* A step that does not concern the messages.
LEMMA StillFlowing ==
  ASSUME IInv, UNCHANGED <<opts, queue, accepted, count, owed, worker, senders, got>>,
         closed => closed', done \subseteq done'
  PROVE  Queued' /\ OneTaker' /\ OnceInOrder' /\ LastTaken' /\ Visited'
<1>1. Ordered' => Ordered
  BY DEF Ordered
<1>2. \A m : place(m)' = place(m)
  BY DEF place
<1>3. OnceInOrder'
  BY <1>1, <1>2, OrderKept
<1>4. Queued' /\ OneTaker'
  BY DEF IInv, Queued, OneTaker, Gone, last, Dispatches
<1>5. LastTaken'
  BY <1>1 DEF IInv, LastTaken, last
<1>6. Visited'
  BY DEF IInv, Visited, Sends
<1> QED
  BY <1>3, <1>4, <1>5, <1>6

\* A worker begins to dispatch a message that nobody has taken.
LEMMA Begins ==
  ASSUME IInv, NEW w \in Workers, NEW m \in 1..count, worker' = [worker EXCEPT ![w] = Dispatching(m)],
         m \notin Gone, Gone' = Gone \cup {m},
         UNCHANGED <<senders, got, subs, done, owed, count, closed>>
  PROVE  OneTaker' /\ Visited'
<1>1. /\ worker'[w] = [at |-> "sending", msg |-> m, seen |-> {}, must |-> subs]
      /\ \A v \in Workers : v # w => worker'[v] = worker[v]
  BY DEF Dispatching, IInv, TypeOK
<1>2. \A v \in Workers : v # w /\ worker'[v].at = "sending" => worker[v].at = "sending" /\ worker[v].msg # m
  BY <1>1 DEF IInv, OneTaker
<1>3. \A x \in Gone : \A v \in Workers : Dispatches(v, x)' => v # w /\ Dispatches(v, x)
  BY <1>1 DEF Dispatches
<1>4. OneTaker'
  <2>1. ASSUME NEW v \in Workers, worker'[v].at = "sending"
        PROVE  /\ worker'[v].msg \in Gone'
               /\ \A u \in Workers : Dispatches(u, worker[v].msg)' => u = v
    <3>1. CASE v = w
      BY <1>1, <1>2, <3>1 DEF Dispatches
    <3>2. CASE v # w
      BY <1>1, <1>2, <2>1, <3>2 DEF Dispatches, IInv, OneTaker
    <3> QED
      BY <3>1, <3>2
  <2>2. ASSUME NEW x \in senders
        PROVE  /\ x.m \in Gone' /\ x.m \notin Range(got[x.s])
               /\ \A v \in Workers : Dispatches(v, x.m)' => v = x.w /\ x.s \in worker'[v].seen
               /\ \A y \in senders : y.m = x.m /\ y.s = x.s => y = x
    BY <1>1, <1>3 DEF IInv, OneTaker
  <2>3. ASSUME NEW s \in Subscribers, NEW x \in Range(got[s])
        PROVE  x \in Gone' /\ \A v \in Workers : Dispatches(v, x)' => s \in worker'[v].seen
    BY <1>1, <1>3 DEF IInv, OneTaker
  <2> QED
    BY <2>1, <2>2, <2>3 DEF OneTaker
<1>5. Visited'
  <2>1. ASSUME NEW v \in Workers, worker'[v].at = "sending"
        PROVE  /\ owed[worker'[v].msg] \subseteq worker'[v].must \cup done
               /\ \A s \in worker'[v].seen \ done :
                    closed \/ worker'[v].msg \in Range(got[s]) \/ \E x \in Sends(v)' : x.s = s
    <3>1. CASE v = w
      BY <1>1, <3>1 DEF IInv, Reachable
    <3>2. CASE v # w
      <4>1. Sends(v)' = Sends(v)
        BY <1>1, <3>2 DEF Sends
      <4> QED
        BY <1>1, <2>1, <3>2, <4>1 DEF IInv, Visited
    <3> QED
      BY <3>1, <3>2
  <2> QED
    BY <2>1 DEF Visited
<1> QED
  BY <1>4, <1>5

----------------------------------------------------------------------------
\* The control loop and the subscribers.

LEMMA RequestKept ==
  ASSUME TypeOK, NEW r \in Requests, Request(r) PROVE ctlCh' \in Seq(Requests) /\ hand' \in Requests \cup {Nobody}
<1>1. ctlCh \in Seq(Requests) /\ hand \in Requests \cup {Nobody}
  BY DEF TypeOK
<1>2. CASE ctlCh' = Append(ctlCh, r) /\ UNCHANGED hand
  <2>1. Append(ctlCh, r) \in Seq(Requests)
    BY <1>1, AppendProperties
  <2> QED
    BY <1>1, <1>2, <2>1
<1>3. CASE hand' = r /\ UNCHANGED ctlCh
  BY <1>1, <1>3
<1> QED
  BY <1>2, <1>3 DEF Request

LEMMA LoopKeeps == ASSUME IInv, Loop PROVE IInv'
<1>1. /\ UNCHANGED <<opts, source, closed, flow, pc, ended, sending, asked>>
      /\ subs \cup done \subseteq subs' \cup done' /\ done \subseteq done'
  BY DEF Loop, LoopTakes, LoopHandles, LoopEnds, Register, Deregister, Measure, asking
<1>2. TypeOK'
  <2>1. ctlCh' \in Seq(Requests) /\ hand' \in Requests \cup {Nobody}
    <3>1. ctlCh \in Seq(Requests) /\ hand \in Requests \cup {Nobody}
      BY DEF IInv, TypeOK
    <3>2. CASE LoopTakes
      <4>1. ctlCh # <<>> /\ hand' = Head(ctlCh) /\ ctlCh' = Tail(ctlCh)
        BY <3>2 DEF LoopTakes
      <4>2. Head(ctlCh) \in Requests /\ Tail(ctlCh) \in Seq(Requests)
        BY <3>1, <4>1, HeadTailProperties
      <4> QED
        BY <4>1, <4>2
    <3>3. CASE LoopHandles \/ LoopEnds
      BY <3>1, <3>3 DEF LoopHandles, LoopEnds
    <3> QED
      BY <3>2, <3>3 DEF Loop
  <2>2. subs' \subseteq Subscribers /\ done' \subseteq Subscribers
    <3>1. CASE LoopHandles
      <4>1. hand.s \in Subscribers
        BY <3>1 DEF LoopHandles, IInv, TypeOK, Requests
      <4> QED
        BY <3>1, <4>1 DEF LoopHandles, Register, Deregister, Measure, IInv, TypeOK
    <3> QED
      BY <3>1 DEF Loop, LoopTakes, LoopEnds, IInv, TypeOK
  <2>3. loop' \in BOOLEAN
    BY DEF Loop, LoopTakes, LoopHandles, LoopEnds, IInv, TypeOK
  <2> QED
    BY <1>1, <2>1, <2>2, <2>3 DEF IInv, TypeOK, source, flow, sending
<1>3. Unsent' /\ Reachable'
  BY <1>1 DEF IInv, Unsent, Reachable, sending
<1> QED
  BY <1>1, <1>2, <1>3, StillFlowing DEF IInv, source, flow, sending

\* What a step of a subscriber does, a receive apart.
LEMMA CallerStep ==
  ASSUME IInv, NEW s \in Subscribers, Caller(s), ~Receive(s)
  PROVE  /\ UNCHANGED <<opts, loop, subs, done, source, closed, flow, ended, sending>>
         /\ ctlCh' \in Seq(Requests) /\ hand' \in Requests \cup {Nobody}
         /\ \E a \in CallerAt : /\ At(s, a)
                                /\ a \in Registered \cup {"unsub"} => s \in subs \cup done
<1>0. /\ pc[s] \in Registered \cup {"unsub"} => s \in subs \cup done
      /\ ctlCh \in Seq(Requests) /\ hand \in Requests \cup {Nobody}
      /\ \A k \in {"sub", "unsub", "stats"} : [kind |-> k, s |-> s] \in Requests
  BY DEF IInv, TypeOK, Reachable, Requests
<1>1. CASE SubscribeStart(s)
  BY <1>0, <1>1 DEF SubscribeStart, control, CallerAt, Registered
<1>2. CASE SubscribeOffer(s)
  BY <1>0, <1>2, RequestKept DEF SubscribeOffer, CallerAt, Registered, IInv
<1>3. CASE SubscribeAck(s)
  BY <1>0, <1>3 DEF SubscribeAck, Acknowledged, control, CallerAt, Registered
<1>4. CASE UnsubscribeStart(s)
  BY <1>0, <1>4 DEF UnsubscribeStart, control, CallerAt, Registered
<1>5. CASE Unsubscribe(s)
  BY <1>0, <1>5, RequestKept DEF Unsubscribe, CallerAt, Registered, IInv
<1>6. CASE StatsStart(s)
  BY <1>0, <1>6 DEF StatsStart, StatsReturns, control, CallerAt, Registered
<1>7. CASE Stats(s)
  BY <1>0, <1>7, RequestKept DEF Stats, StatsReturns, CallerAt, Registered, IInv
<1> QED
  BY <1>1, <1>2, <1>3, <1>4, <1>5, <1>6, <1>7 DEF Caller

LEMMA CallerKeeps == ASSUME IInv, NEW s \in Subscribers, Caller(s) PROVE IInv'
<1>1. CASE Receive(s)
  <2>1. UNCHANGED <<opts, control, source, closed, worker, senders, got, pc, ended, sending>>
    BY <1>1 DEF Receive
  <2>2. mbox' \in [Subscribers -> Seq(Nat)]
    BY <1>1 DEF Receive, IInv, TypeOK
  <2>3. TypeOK' /\ Unsent' /\ Reachable'
    BY <2>1, <2>2 DEF IInv, TypeOK, Unsent, Reachable, control, source, sending
  <2> QED
    BY <2>1, <2>3, StillFlowing DEF IInv, control, source, sending
<1>2. CASE ~Receive(s)
  <2>1. /\ UNCHANGED <<opts, loop, subs, done, source, closed, flow, ended, sending>>
        /\ ctlCh' \in Seq(Requests) /\ hand' \in Requests \cup {Nobody}
    BY <1>2, CallerStep
  <2>2. PICK a \in CallerAt : At(s, a) /\ (a \in Registered \cup {"unsub"} => s \in subs \cup done)
    BY <1>2, CallerStep
  <2>3. /\ pc' \in [Subscribers \cup Publishers -> CallerAt]
        /\ pc'[s] = a /\ \A c \in (Subscribers \cup Publishers) \ {s} : pc'[c] = pc[c]
    BY <2>2 DEF At, IInv, TypeOK
  <2>4. TypeOK'
    BY <2>1, <2>3 DEF IInv, TypeOK, source, flow, sending
  <2>5. Unsent'
    <3>1. \A p \in Publishers : p # s
      BY BrokerAssumption
    <3> QED
      BY <2>1, <2>3, <3>1 DEF IInv, Unsent, sending
  <2>6. Reachable'
    BY <2>1, <2>2, <2>3 DEF IInv, Reachable, sending
  <2> QED
    BY <2>1, <2>4, <2>5, <2>6, StillFlowing DEF IInv, source, flow, sending
<1> QED
  BY <1>1, <1>2

----------------------------------------------------------------------------
\* The publishers.

LEMMA PublisherMoves ==
  ASSUME TypeOK, NEW p \in Publishers, NEW a \in CallerAt, At(p, a)
  PROVE  /\ pc' \in [Subscribers \cup Publishers -> CallerAt] /\ pc'[p] = a
         /\ \A q \in Publishers \ {p} : pc'[q] = pc[q] /\ \A s \in Subscribers : pc'[s] = pc[s]
         /\ \A s \in Subscribers : pc'[s] = pc[s]
  BY BrokerAssumption DEF TypeOK, At

\* Send returns without having given its message away.
LEMMA SendGivesUp ==
  ASSUME IInv, NEW p \in Publishers, NEW a \in CallerAt \ {"sink"}, At(p, a), closed' \in BOOLEAN,
         closed => closed', UNCHANGED <<opts, control, source, flow, ended, sending>>
  PROVE  IInv'
<1>1. /\ pc' \in [Subscribers \cup Publishers -> CallerAt] /\ pc'[p] = a
      /\ \A q \in Publishers \ {p} : pc'[q] = pc[q]
      /\ \A s \in Subscribers : pc'[s] = pc[s]
  BY PublisherMoves DEF IInv
<1>2. TypeOK' /\ Unsent' /\ Reachable'
  BY <1>1 DEF IInv, TypeOK, Unsent, Reachable, control, source, flow, sending
<1> QED
  BY <1>2, StillFlowing DEF IInv, control, source, flow, sending

LEMMA SendStartKeeps == ASSUME IInv, NEW p \in Publishers, SendStart(p) PROVE IInv'
<1>1. CASE p \in ended \/ closed
  BY <1>1, SendGivesUp DEF SendStart, CallerAt, Registered, IInv, TypeOK
<1>2. CASE ~(p \in ended \/ closed)
  <2> DEFINE R == {s \in Subscribers : pc[s] \in Registered}
  <2>1. /\ At(p, "sink") /\ count' = count + 1 /\ msg' = [msg EXCEPT ![p] = count + 1]
        /\ owed' = Append(owed, R)
        /\ UNCHANGED <<opts, control, source, closed, flow, ended, accepted>>
    BY <1>2 DEF SendStart
  <2>2. /\ pc' \in [Subscribers \cup Publishers -> CallerAt] /\ pc'[p] = "sink"
        /\ \A q \in Publishers \ {p} : pc'[q] = pc[q]
        /\ \A s \in Subscribers : pc'[s] = pc[s]
    BY <2>1, PublisherMoves DEF IInv, CallerAt
  <2>3. /\ count' = count + 1 /\ count \in Nat /\ 1..count \subseteq 1..count' /\ count + 1 \in 1..count'
        /\ msg' \in [Publishers -> Nat] /\ msg'[p] = count + 1
        /\ \A q \in Publishers \ {p} : msg'[q] = msg[q]
    BY <2>1 DEF IInv, TypeOK
  <2>4. /\ owed' \in Seq(SUBSET Subscribers) /\ Len(owed') = count + 1
        /\ owed'[count + 1] = R /\ \A m \in 1..count : owed'[m] = owed[m]
    BY <2>1 DEF IInv, TypeOK
  <2> HIDE DEF R
  <2>5. TypeOK'
    BY <2>1, <2>2, <2>3, <2>4 DEF IInv, TypeOK, control, source, flow
  <2>6. Unsent'
    <3>1. \A m \in Range(accepted) : m # count + 1
      BY <2>3, GoneFacts
    <3>2. \A q \in Publishers : pc[q] = "sink" => msg[q] \in 1..count /\ msg[q] # count + 1
      BY <2>3 DEF IInv, Unsent
    <3> QED
      BY <2>1, <2>2, <2>3, <3>1, <3>2 DEF IInv, Unsent
  <2>7. Queued' /\ OneTaker' /\ LastTaken'
    BY <2>1, <2>3 DEF IInv, Queued, OneTaker, LastTaken, Ordered, Gone, last, Dispatches, source, flow
  <2>8. OnceInOrder'
    <3>1. (Ordered' => Ordered) /\ \A m : place(m)' = place(m)
      BY <2>1 DEF Ordered, place
    <3> QED
      BY <2>1, <3>1, OrderKept DEF flow
  <2>9. Reachable'
    <3>1. R \subseteq subs \cup done
      BY DEF R, IInv, Reachable
    <3>2. \A m \in 1..count' : m \in 1..count \/ m = count + 1
      BY <2>3
    <3> QED
      BY <2>1, <2>2, <2>4, <3>1, <3>2 DEF IInv, Reachable, control
  <2>10. Visited'
    <3>1. \A w \in Workers : worker[w].at = "sending" => owed'[worker[w].msg] = owed[worker[w].msg]
      BY <2>4, GoneFacts DEF IInv, OneTaker
    <3>2. UNCHANGED <<closed, subs, done, worker, senders, got>>
      BY <2>1 DEF control, flow
    <3>3. \A w \in Workers : Sends(w)' = Sends(w)
      BY <3>2 DEF Sends
    <3>4. ASSUME NEW w \in Workers, worker[w].at = "sending"
          PROVE  /\ owed'[worker[w].msg] \subseteq worker[w].must \cup done
                 /\ \A s \in worker[w].seen \ done :
                      closed \/ worker[w].msg \in Range(got[s]) \/ \E x \in Sends(w) : x.s = s
      BY <3>1, <3>4 DEF IInv, Visited
    <3> QED
      BY <3>2, <3>3, <3>4 DEF Visited
  <2> QED
    BY <2>5, <2>6, <2>7, <2>8, <2>9, <2>10 DEF IInv
<1> QED
  BY <1>1, <1>2

\* The sink takes the message of a publisher.
LEMMA MessageAccepted ==
  ASSUME IInv, NEW p \in Publishers, pc[p] = "sink", At(p, "ok"), accepted' = Append(accepted, msg[p]),
         UNCHANGED <<opts, closed, msg, count, subs, done, owed, got>>
  PROVE  /\ Unsent' /\ Reachable' /\ OnceInOrder'
         /\ msg[p] \in 1..count /\ msg[p] \in Nat \ Range(accepted)
         /\ pc' \in [Subscribers \cup Publishers -> CallerAt]
<1>1. msg[p] \in 1..count /\ msg[p] \in Nat \ Range(accepted)
  BY DEF IInv, TypeOK, Unsent
<1>2. /\ pc' \in [Subscribers \cup Publishers -> CallerAt] /\ pc'[p] = "ok"
      /\ \A q \in Publishers \ {p} : pc'[q] = pc[q]
      /\ \A s \in Subscribers : pc'[s] = pc[s]
  BY PublisherMoves DEF IInv, CallerAt
<1>3. Range(accepted') = Range(accepted) \cup {msg[p]}
      /\ \A m \in Range(accepted) : m \in Range(accepted') /\ place(m)' = place(m)
  BY <1>1, PlacesKept
<1>4. Unsent'
  <2>1. ASSUME NEW q \in Publishers, pc'[q] = "sink"
        PROVE  q # p /\ pc[q] = "sink" /\ msg[q] # msg[p]
    BY <1>2, <2>1 DEF IInv, Unsent
  <2> QED
    BY <1>2, <1>3, <2>1 DEF IInv, Unsent
<1>5. Reachable'
  BY <1>2 DEF IInv, Reachable
<1>6. OnceInOrder'
  BY <1>3, OrderKept DEF Ordered
<1> QED
  BY <1>1, <1>2, <1>4, <1>5, <1>6

LEMMA SinkHandsOverKeeps ==
  ASSUME IInv, NEW p \in Publishers, NEW w \in Workers, SinkHandsOver(p, w) PROVE IInv'
<1> DEFINE m == msg[p]
<1>1. /\ pc[p] = "sink" /\ opts.source = "channel" /\ worker[w].at = "source"
      /\ worker' = [worker EXCEPT ![w] = Dispatching(m)]
      /\ accepted' = Append(accepted, m) /\ At(p, "ok")
      /\ UNCHANGED <<opts, control, source, closed, senders, mbox, got, ended, count, msg, owed>>
  BY DEF SinkHandsOver
<1>2. /\ Unsent' /\ Reachable' /\ OnceInOrder' /\ m \in 1..count /\ m \in Nat \ Range(accepted)
      /\ pc' \in [Subscribers \cup Publishers -> CallerAt]
  BY <1>1, MessageAccepted DEF control
<1>3. /\ IsInjective(accepted') /\ Range(accepted') = Range(accepted) \cup {m}
      /\ accepted' \in Seq(Nat) /\ Len(accepted') = Len(accepted) + 1
      /\ \A i \in 1..Len(accepted) : accepted'[i] = accepted[i]
      /\ accepted'[Len(accepted) + 1] = m
  BY <1>1, <1>2, PlacesKept
<1>4. queue = <<>> /\ queue' = <<>> /\ Range(queue) = {} /\ Len(queue) = 0
  BY <1>1 DEF IInv, Queued, source, Range
<1> HIDE DEF m
<1>5. /\ worker'[w] = [at |-> "sending", msg |-> m, seen |-> {}, must |-> subs]
      /\ \A v \in Workers : v # w => worker'[v] = worker[v]
  BY <1>1 DEF Dispatching, IInv, TypeOK
<1>6. TypeOK'
  <2>1. worker' \in [Workers -> [at : {"source", "sending", "ended"}, msg : Nat,
                                 seen : SUBSET Subscribers, must : SUBSET Subscribers]]
    BY <1>1, <1>2 DEF Dispatching, IInv, TypeOK
  <2> QED
    BY <1>1, <1>2, <1>3, <2>1 DEF IInv, TypeOK, control, source
<1>7. Queued'
  <2>1. Range(accepted') \subseteq 1..count'
    BY <1>1, <1>2, <1>3, GoneFacts
  <2>2. last' >= 0 /\ DOMAIN queue' = {}
    BY <1>3, <1>4, GoneFacts DEF last
  <2> QED
    BY <1>1, <1>3, <1>4, <2>1, <2>2 DEF IInv, Queued, source
<1>8. OneTaker' /\ Visited'
  <2>1. m \notin Gone /\ Gone' = Gone \cup {m}
    BY <1>2, <1>3, <1>4 DEF Gone
  <2> QED
    BY <1>1, <1>2, <2>1, Begins DEF control
<1>9. LastTaken'
  <2>1. SUFFICES ASSUME Ordered' PROVE LastTaken'
    BY DEF LastTaken
  <2>2. Ordered /\ \A v \in Workers : v = w
    BY <1>1, <2>1 DEF Ordered
  <2>3. senders' = {}
    BY <1>1, <2>2 DEF IInv, LastTaken
  <2>4. last' = Len(accepted) + 1 /\ last' > 0
    BY <1>3, <1>4, GoneFacts DEF last
  <2> QED
    BY <1>3, <1>5, <2>2, <2>3, <2>4 DEF LastTaken
<1> QED
  BY <1>2, <1>6, <1>7, <1>8, <1>9 DEF IInv

LEMMA SinkAcceptsKeeps == ASSUME IInv, NEW p \in Publishers, SinkAccepts(p) PROVE IInv'
<1> DEFINE m == msg[p]
<1>1. /\ pc[p] = "sink" /\ opts.source # "channel"
      /\ queue' = Append(queue, m) /\ accepted' = Append(accepted, m) /\ At(p, "ok")
      /\ UNCHANGED <<opts, control, shut, closed, flow, ended, count, msg, owed>>
  BY DEF SinkAccepts
<1>2. /\ Unsent' /\ Reachable' /\ OnceInOrder' /\ m \in 1..count /\ m \in Nat \ Range(accepted)
      /\ pc' \in [Subscribers \cup Publishers -> CallerAt]
  BY <1>1, MessageAccepted DEF control, flow
<1>3. /\ IsInjective(accepted') /\ Range(accepted') = Range(accepted) \cup {m}
      /\ accepted' \in Seq(Nat) /\ Len(accepted') = Len(accepted) + 1
      /\ \A i \in 1..Len(accepted) : accepted'[i] = accepted[i]
      /\ accepted'[Len(accepted) + 1] = m
  BY <1>1, <1>2, PlacesKept
<1>4. m \notin Range(queue) /\ IsInjective(queue)
  BY <1>2 DEF IInv, Queued
<1>5. /\ IsInjective(queue') /\ Range(queue') = Range(queue) \cup {m}
      /\ queue' \in Seq(Nat) /\ Len(queue') = Len(queue) + 1 /\ DOMAIN queue' = 1..(Len(queue) + 1)
      /\ \A i \in 1..Len(queue) : queue'[i] = queue[i]
      /\ queue'[Len(queue) + 1] = m
  BY <1>1, <1>2, <1>4, GoneFacts, Appended
<1> HIDE DEF m
<1>6. TypeOK'
  BY <1>1, <1>2, <1>3, <1>5 DEF IInv, TypeOK, control, flow
<1>7. last' = last /\ last \in Int /\ Len(queue) \in Nat /\ last + Len(queue) = Len(accepted)
  BY <1>3, <1>5, GoneFacts DEF last
<1>8. Queued'
  <2>1. Range(accepted') \subseteq 1..count'
    BY <1>1, <1>2, <1>3, GoneFacts
  <2>2. Range(queue') \subseteq Range(accepted')
    BY <1>3, <1>5 DEF IInv, Queued
  <2>3. ASSUME opts.source # "lifo", NEW i \in DOMAIN queue' PROVE queue'[i] = accepted'[last + i]
    <3>1. CASE i = Len(queue) + 1
      BY <1>3, <1>5, <1>7, <3>1
    <3>2. CASE i # Len(queue) + 1
      <4>1. i \in 1..Len(queue) /\ last >= 0
        BY <1>5, <1>7, <2>3, <3>2 DEF IInv, Queued
      <4>2. last + i \in 1..Len(accepted) /\ queue[i] = accepted[last + i]
        <5>1. i \in DOMAIN queue /\ Len(accepted) \in Nat
          BY <4>1, GoneFacts
        <5> QED
          BY <1>7, <2>3, <4>1, <5>1 DEF IInv, Queued
      <4> QED
        BY <1>3, <1>5, <1>7, <4>1, <4>2
    <3> QED
      BY <3>1, <3>2
  <2> QED
    BY <1>1, <1>3, <1>5, <1>7, <2>1, <2>2, <2>3 DEF IInv, Queued
<1>9. OneTaker'
  <2>1. Gone' = Gone
    BY <1>2, <1>3, <1>5 DEF Gone
  <2> QED
    BY <1>1, <2>1 DEF IInv, OneTaker, Dispatches, flow
<1>10. LastTaken'
  <2>1. Ordered' <=> Ordered
    BY <1>1 DEF Ordered
  <2>2. last > 0 => accepted'[last] = accepted[last]
    <3>1. last > 0 => last \in 1..Len(accepted)
      BY <1>7
    <3> QED
      BY <1>3, <3>1
  <2> QED
    BY <1>1, <1>7, <2>1, <2>2 DEF IInv, LastTaken, flow
<1>11. Visited'
  BY <1>1 DEF IInv, Visited, Sends, control, flow
<1> QED
  BY <1>2, <1>6, <1>8, <1>9, <1>10, <1>11 DEF IInv

LEMMA PublisherKeeps == ASSUME IInv, NEW p \in Publishers, Publisher(p) PROVE IInv'
<1>1. CASE SinkFails(p)
  <2>1. PICK a \in {"full", "ctx", "refused"} : At(p, a)
    BY <1>1 DEF SinkFails
  <2>2. a \in CallerAt \ {"sink"}
    BY DEF CallerAt, Registered
  <2> QED
    BY <1>1, <2>1, <2>2, SendGivesUp DEF SinkFails, IInv, TypeOK
<1>2. CASE SinkClosed(p)
  <2>1. "refused" \in CallerAt \ {"sink"}
    BY DEF CallerAt, Registered
  <2> QED
    BY <1>2, <2>1, SendGivesUp DEF SinkClosed
<1> QED
  BY <1>1, <1>2, SendStartKeeps, SinkAcceptsKeeps, SinkHandsOverKeeps DEF Publisher

----------------------------------------------------------------------------
\* The workers.

LEMMA TakeKeeps == ASSUME IInv, NEW w \in Workers, Take(w) PROVE IInv'
<1> DEFINE m == queue[Taken]
<1>1. /\ worker[w].at = "source" /\ queue # <<>>
      /\ worker' = [worker EXCEPT ![w] = Dispatching(m)] /\ queue' = Without(queue, Taken)
      /\ UNCHANGED <<opts, control, shut, closed, senders, mbox, got, pc, ended, sending>>
  BY DEF Take, Without
<1>2. /\ accepted \in Seq(Nat) /\ queue \in Seq(Nat) /\ DOMAIN accepted = 1..Len(accepted)
      /\ DOMAIN queue = 1..Len(queue) /\ Len(accepted) \in Nat /\ Len(queue) \in Nat
      /\ Taken \in 1..Len(queue) /\ IsInjective(queue)
  BY <1>1, GoneFacts DEF Taken, IInv, Queued
<1>3. /\ queue' \in Seq(Nat) /\ Len(queue') = Len(queue) - 1 /\ DOMAIN queue' = 1..(Len(queue) - 1)
      /\ \A i \in 1..(Len(queue) - 1) : queue'[i] = queue[IF i < Taken THEN i ELSE i + 1]
      /\ IsInjective(queue') /\ Range(queue') = Range(queue) \ {m}
  <2>1. /\ queue' \in Seq(Nat) /\ Len(queue') = Len(queue) - 1
        /\ \A i \in 1..(Len(queue) - 1) : queue'[i] = queue[IF i < Taken THEN i ELSE i + 1]
        /\ IsInjective(queue') /\ Range(queue') = Range(queue) \ {m}
    BY <1>1, <1>2, WithoutOne
  <2>2. DOMAIN queue' = 1..Len(queue')
    BY <2>1
  <2> QED
    BY <2>1, <2>2
<1>4. m \in Range(queue) /\ m \in Range(accepted) /\ m \in 1..count /\ m \in Nat
  <2>1. m \in Range(queue)
    BY <1>2 DEF Range
  <2>2. Range(queue) \subseteq Range(accepted) /\ Range(accepted) \subseteq 1..count
    BY DEF IInv, Queued
  <2> QED
    BY <2>1, <2>2
<1> HIDE DEF m
<1>5. /\ worker'[w] = [at |-> "sending", msg |-> m, seen |-> {}, must |-> subs]
      /\ \A v \in Workers : v # w => worker'[v] = worker[v]
  BY <1>1 DEF Dispatching, IInv, TypeOK
<1>6. TypeOK'
  <2>1. worker' \in [Workers -> [at : {"source", "sending", "ended"}, msg : Nat,
                                 seen : SUBSET Subscribers, must : SUBSET Subscribers]]
    BY <1>1, <1>4 DEF Dispatching, IInv, TypeOK
  <2> QED
    BY <1>1, <1>3, <2>1 DEF IInv, TypeOK, control, sending
<1>7. Unsent' /\ Reachable'
  BY <1>1 DEF IInv, Unsent, Reachable, control, sending
<1>8. last' = last + 1 /\ last \in Int /\ UNCHANGED accepted
  BY <1>1, <1>2, <1>3 DEF last, sending
<1>9. Queued'
  <2>1. ASSUME opts.source # "lifo", NEW i \in DOMAIN queue' PROVE queue'[i] = accepted[last' + i]
    <3>1. Taken = 1 /\ i \in 1..(Len(queue) - 1) /\ i + 1 \in DOMAIN queue
      BY <1>2, <1>3, <2>1 DEF Taken
    <3>2. queue'[i] = queue[i + 1] /\ queue[i + 1] = accepted[last + (i + 1)]
      BY <1>3, <2>1, <3>1 DEF IInv, Queued
    <3>3. last + (i + 1) = last' + i
      BY <1>8, <3>1
    <3> QED
      BY <3>2, <3>3
  <2>2. opts.source # "channel"
    BY <1>1 DEF IInv, Queued
  <2>3. opts.source # "lifo" => last' >= 0
    BY <1>8 DEF IInv, Queued
  <2> QED
    BY <1>1, <1>3, <1>8, <2>1, <2>2, <2>3 DEF IInv, Queued, sending
<1>10. OneTaker' /\ Visited'
  <2>1. m \notin Gone /\ Gone' = Gone \cup {m}
    BY <1>3, <1>4, <1>8 DEF Gone
  <2> QED
    BY <1>1, <1>4, <2>1, Begins DEF control, sending
<1>11. OnceInOrder'
  <2>1. (Ordered' => Ordered) /\ \A x : place(x)' = place(x)
    BY <1>1, <1>8 DEF Ordered, place
  <2> QED
    BY <1>1, <1>8, <2>1, OrderKept
<1>12. LastTaken'
  <2>1. SUFFICES ASSUME Ordered' PROVE LastTaken'
    BY DEF LastTaken
  <2>2. Ordered /\ (\A v \in Workers : v = w) /\ opts.source # "lifo"
    BY <1>1, <2>1 DEF Ordered
  <2>3. senders' = {}
    BY <1>1, <2>2 DEF IInv, LastTaken
  <2>4. m = accepted[last'] /\ last' > 0
    <3>1. Taken = 1 /\ 1 \in DOMAIN queue /\ last >= 0
      BY <1>2, <2>2 DEF Taken, IInv, Queued
    <3> QED
      BY <1>8, <2>2, <3>1 DEF m, IInv, Queued
  <2> QED
    BY <1>5, <1>8, <2>2, <2>3, <2>4 DEF LastTaken
<1> QED
  BY <1>6, <1>7, <1>9, <1>10, <1>11, <1>12 DEF IInv

\* A worker that stops sending, or stops altogether.
LEMMA WorkerLeaves ==
  ASSUME IInv, NEW w \in Workers, NEW a \in {"source", "ended"},
         worker'[w].at = a, \A v \in Workers : v # w => worker'[v] = worker[v],
         worker' \in [Workers -> [at : {"source", "sending", "ended"}, msg : Nat,
                                  seen : SUBSET Subscribers, must : SUBSET Subscribers]],
         Ordered /\ a = "source" => senders = {},
         UNCHANGED <<opts, control, source, closed, senders, mbox, got, pc, ended, sending>>
  PROVE  IInv'
<1>1. TypeOK' /\ Unsent' /\ Queued' /\ Reachable'
  BY DEF IInv, TypeOK, Unsent, Queued, Reachable, last, control, source, sending
<1>2. \A v \in Workers : worker'[v].at = "sending" => worker'[v] = worker[v] /\ v # w
  OBVIOUS
<1>3. OneTaker'
  <2>1. \A v \in Workers : \A m : Dispatches(v, m)' => Dispatches(v, m) /\ worker'[v] = worker[v]
    BY <1>2 DEF Dispatches
  <2>2. Gone' = Gone /\ UNCHANGED <<senders, got>>
    BY DEF Gone, source, sending
  <2> QED
    BY <1>2, <2>1, <2>2 DEF IInv, OneTaker
<1>4. OnceInOrder'
  <2>1. (Ordered' => Ordered) /\ \A x : place(x)' = place(x)
    BY DEF Ordered, place, sending
  <2> QED
    BY <2>1, OrderKept DEF sending
<1>5. LastTaken'
  <2>1. (Ordered' => Ordered) /\ (Ordered => \A v \in Workers : v = w) /\ last' = last /\ UNCHANGED accepted
    BY DEF Ordered, last, source, sending
  <2> QED
    BY <1>2, <2>1 DEF IInv, LastTaken
<1>6. Visited'
  <2>1. \A v \in Workers : worker'[v].at = "sending" => Sends(v)' = Sends(v)
    BY <1>2 DEF Sends
  <2>2. UNCHANGED <<owed, done, closed, got>>
    BY DEF control, sending
  <2> QED
    BY <1>2, <2>1, <2>2 DEF IInv, Visited
<1> QED
  BY <1>1, <1>3, <1>4, <1>5, <1>6 DEF IInv

LEMMA SourceEndsKeeps == ASSUME IInv, NEW w \in Workers, SourceEnds(w) PROVE IInv'
<1>1. worker' = [worker EXCEPT ![w].at = "ended"]
  BY DEF SourceEnds
<1>2. /\ worker'[w].at = "ended" /\ \A v \in Workers : v # w => worker'[v] = worker[v]
      /\ worker' \in [Workers -> [at : {"source", "sending", "ended"}, msg : Nat,
                                  seen : SUBSET Subscribers, must : SUBSET Subscribers]]
  BY <1>1 DEF IInv, TypeOK
<1> QED
  BY <1>2, WorkerLeaves DEF SourceEnds

LEMMA DispatchEndsKeeps == ASSUME IInv, NEW w \in Workers, DispatchEnds(w) PROVE IInv'
<1> DEFINE a == IF closed /\ opts.source # "channel" THEN "ended" ELSE "source"
<1>1. /\ worker[w].at = "sending" /\ Sent(w)
      /\ worker' = [worker EXCEPT ![w].at = a, ![w].seen = {}, ![w].must = {}]
  BY DEF DispatchEnds
<1>2. /\ worker'[w].at = a /\ \A v \in Workers : v # w => worker'[v] = worker[v]
      /\ worker' \in [Workers -> [at : {"source", "sending", "ended"}, msg : Nat,
                                  seen : SUBSET Subscribers, must : SUBSET Subscribers]]
  <2>1. a \in {"source", "ended"}
    OBVIOUS
  <2> HIDE DEF a
  <2>2. worker'[w] = [worker[w] EXCEPT !.at = a, !.seen = {}, !.must = {}]
        /\ \A v \in Workers : v # w => worker'[v] = worker[v]
    BY <1>1 DEF IInv, TypeOK
  <2>3. \A v \in Workers : worker[v] \in [at : {"source", "sending", "ended"}, msg : Nat,
                                          seen : SUBSET Subscribers, must : SUBSET Subscribers]
    BY DEF IInv, TypeOK
  <2>4. /\ worker'[w].at = a
        /\ worker'[w] \in [at : {"source", "sending", "ended"}, msg : Nat,
                           seen : SUBSET Subscribers, must : SUBSET Subscribers]
    BY <2>1, <2>2, <2>3
  <2>5. worker' = [v \in Workers |-> worker'[v]]
    BY <1>1 DEF IInv, TypeOK
  <2> QED
    BY <2>2, <2>3, <2>4, <2>5
<1>3. ASSUME Ordered, a = "source" PROVE senders = {}
  <2>1. Sends(w) = {}
    BY <1>1, <1>3 DEF Sent, Ordered
  <2>2. \A x \in senders : x.w = w /\ x.m = worker[w].msg
    BY <1>1, <1>3 DEF IInv, TypeOK, LastTaken, Ordered
  <2> QED
    BY <2>1, <2>2 DEF Sends
<1> QED
  BY <1>2, <1>3, WorkerLeaves DEF DispatchEnds

LEMMA VisitKeeps == ASSUME IInv, NEW w \in Workers, NEW s \in Subscribers, Visit(w, s) PROVE IInv'
<1> DEFINE x == [w |-> w, m |-> worker[w].msg, s |-> s]
<1>1. /\ worker[w].at = "sending" /\ s \notin worker[w].seen
      /\ worker' = [worker EXCEPT ![w].seen = @ \cup {s}] /\ senders' = senders \cup {x}
      /\ UNCHANGED <<opts, control, source, closed, mbox, got, pc, ended, sending>>
  BY DEF Visit
<1>2. /\ worker' \in [Workers -> [at : {"source", "sending", "ended"}, msg : Nat,
                                  seen : SUBSET Subscribers, must : SUBSET Subscribers]]
      /\ worker'[w].seen = worker[w].seen \cup {s}
      /\ \A v \in Workers : /\ v # w => worker'[v] = worker[v]
                            /\ worker'[v].at = worker[v].at /\ worker'[v].msg = worker[v].msg
                            /\ worker'[v].must = worker[v].must
                            /\ worker[v].seen \subseteq worker'[v].seen
  BY <1>1 DEF IInv, TypeOK
<1>3. x.m = worker[w].msg /\ x.s = s /\ x.w = w /\ x.m \in Nat
  BY DEF IInv, TypeOK
<1>4. TypeOK' /\ Unsent' /\ Queued' /\ Reachable'
  <2>1. senders' \subseteq [w : Workers, m : Nat, s : Subscribers]
    BY <1>1, <1>3 DEF IInv, TypeOK
  <2> HIDE DEF x
  <2>2. TypeOK'
    BY <1>1, <1>2, <2>1 DEF IInv, TypeOK, control, source, sending
  <2> QED
    BY <1>1, <2>2 DEF IInv, Unsent, Queued, Reachable, last, control, source, sending
<1> HIDE DEF x
<1>5. \A v \in Workers : \A m : Dispatches(v, m)' <=> Dispatches(v, m)
  BY <1>2 DEF Dispatches
<1>6. Dispatches(w, x.m) /\ x.m \in Gone /\ \A v \in Workers : Dispatches(v, x.m) => v = w
  BY <1>1, <1>3 DEF IInv, OneTaker, Dispatches
<1>7. /\ x.m \notin Range(got[s])
      /\ \A y \in senders : ~(y.m = x.m /\ y.s = s)
  BY <1>1, <1>3, <1>6 DEF IInv, OneTaker
<1>8. OneTaker'
  <2>1. Gone' = Gone /\ got' = got
    BY <1>1 DEF Gone, source, sending
  <2>2. ASSUME NEW v \in Workers, worker'[v].at = "sending"
        PROVE  worker'[v].msg \in Gone /\ \A u \in Workers : Dispatches(u, worker'[v].msg) => u = v
    BY <1>2, <2>2 DEF IInv, OneTaker
  <2>3. ASSUME NEW y \in senders'
        PROVE  /\ y.m \in Gone /\ y.m \notin Range(got[y.s])
               /\ \A v \in Workers : Dispatches(v, y.m) => v = y.w /\ y.s \in worker'[v].seen
               /\ \A z \in senders' : z.m = y.m /\ z.s = y.s => z = y
    <3>1. CASE y = x
      BY <1>1, <1>2, <1>3, <1>6, <1>7, <3>1
    <3>2. CASE y # x
      <4>1. y \in senders
        BY <1>1, <3>2
      <4> QED
        BY <1>1, <1>2, <1>3, <1>7, <4>1 DEF IInv, OneTaker
    <3> QED
      BY <3>1, <3>2
  <2>4. ASSUME NEW q \in Subscribers, NEW m \in Range(got[q])
        PROVE  m \in Gone /\ \A v \in Workers : Dispatches(v, m) => q \in worker'[v].seen
    BY <1>2 DEF IInv, OneTaker
  <2> QED
    BY <1>5, <2>1, <2>2, <2>3, <2>4 DEF OneTaker
<1>9. (Ordered' => Ordered) /\ (Ordered => \A v \in Workers : v = w) /\ last' = last
      /\ UNCHANGED <<accepted, got>> /\ \A m : place(m)' = place(m)
  BY <1>1 DEF Ordered, last, place, source, sending
<1>10. OnceInOrder'
  BY <1>9, OrderKept
<1>11. LastTaken'
  BY <1>1, <1>2, <1>3, <1>9 DEF IInv, LastTaken
<1>12. Visited'
  <2>1. UNCHANGED <<owed, done, closed, got>>
    BY <1>1 DEF control, sending
  <2>2. \A v \in Workers : Sends(v) \subseteq Sends(v)'
    BY <1>1, <1>2 DEF Sends
  <2>3. x \in Sends(w)'
    BY <1>1, <1>2, <1>3 DEF Sends
  <2>4. ASSUME NEW v \in Workers, worker'[v].at = "sending"
        PROVE  /\ owed[worker'[v].msg] \subseteq worker'[v].must \cup done
               /\ \A q \in worker'[v].seen \ done :
                    closed \/ worker'[v].msg \in Range(got[q]) \/ \E y \in Sends(v)' : y.s = q
    <3>1. /\ owed[worker[v].msg] \subseteq worker[v].must \cup done
          /\ \A q \in worker[v].seen \ done :
               closed \/ worker[v].msg \in Range(got[q]) \/ \E y \in Sends(v) : y.s = q
      BY <1>2, <2>4 DEF IInv, Visited
    <3>2. \A q \in worker'[v].seen : q \in worker[v].seen \/ (q = s /\ v = w)
      BY <1>2
    <3> QED
      BY <1>2, <1>3, <2>2, <2>3, <3>1, <3>2
  <2> QED
    BY <2>1, <2>4 DEF Visited
<1> QED
  BY <1>4, <1>8, <1>10, <1>11, <1>12 DEF IInv

\* The history of the subscription that is sent a message.
LEMMA SentFacts ==
  ASSUME IInv, NEW x \in senders, got' = [got EXCEPT ![x.s] = Append(@, x.m)],
         UNCHANGED <<opts, closed, accepted>>
  PROVE  /\ got' \in [Subscribers -> Seq(Nat)] /\ Range(got'[x.s]) = Range(got[x.s]) \cup {x.m}
         /\ \A s \in Subscribers : s # x.s => got'[s] = got[s]
         /\ OnceInOrder'
<1>1. x.s \in Subscribers /\ x.m \in Nat /\ got[x.s] \in Seq(Nat) /\ x.m \notin Range(got[x.s])
      /\ x.m \in Gone
  BY DEF IInv, TypeOK, OneTaker
<1>2. got'[x.s] = Append(got[x.s], x.m) /\ \A s \in Subscribers : s # x.s => got'[s] = got[s]
  BY <1>1 DEF IInv, TypeOK
<1>3. /\ Append(got[x.s], x.m) \in Seq(Nat)
      /\ DOMAIN got'[x.s] = 1..(Len(got[x.s]) + 1) /\ Len(got[x.s]) \in Nat
      /\ DOMAIN got[x.s] = 1..Len(got[x.s])
      /\ \A i \in 1..Len(got[x.s]) : got'[x.s][i] = got[x.s][i]
      /\ got'[x.s][Len(got[x.s]) + 1] = x.m
      /\ Range(got'[x.s]) = Range(got[x.s]) \cup {x.m} /\ IsInjective(got'[x.s])
  BY <1>1, <1>2, Appended, GotOnce
<1>4. got' \in [Subscribers -> Seq(Nat)]
  BY <1>1, <1>3 DEF IInv, TypeOK
<1>5. (Ordered' <=> Ordered) /\ (\A m : place(m)' = place(m)) /\ IsInjective(got[x.s])
  BY <1>1, GotOnce DEF Ordered, place
<1>6. ASSUME Ordered, NEW i \in 1..Len(got[x.s]) PROVE place(got[x.s][i]) < place(x.m)
  <2>1. opts.source # "lifo" /\ last > 0 /\ x.m = accepted[last] /\ last <= Len(accepted)
    BY <1>6, GoneFacts DEF IInv, LastTaken, Ordered, last
  <2>2. place(x.m) = last
    BY <2>1, PlaceOf, GoneFacts DEF IInv, Queued, last
  <2>3. got[x.s][i] \in Range(got[x.s]) /\ got[x.s][i] \in Gone /\ got[x.s][i] # x.m
    BY <1>1, <1>3 DEF IInv, OneTaker, Range
  <2>4. place(got[x.s][i]) <= last
    BY <2>1, <2>3, GoneFirst
  <2>5. PICK k \in 1..Len(accepted) : got[x.s][i] = accepted[k] /\ place(got[x.s][i]) = k
    BY <2>3, GoneFacts
  <2> QED
    BY <2>1, <2>2, <2>3, <2>4, <2>5 DEF last
<1>7. ASSUME NEW s \in Subscribers
      PROVE  (/\ Range(got[s]) \subseteq Range(accepted)
              /\ \A i, j \in DOMAIN got[s] : i < j =>
                   IF Ordered THEN place(got[s][i]) < place(got[s][j]) ELSE got[s][i] # got[s][j])'
  <2>1. CASE s # x.s
    BY <1>2, <1>5, <2>1 DEF IInv, OnceInOrder
  <2>2. CASE s = x.s
    <3>1. Range(got'[s]) \subseteq Range(accepted)
      BY <1>1, <1>3, <2>2, GoneFacts DEF IInv, OnceInOrder
    <3>2. ASSUME NEW i \in DOMAIN got'[s], NEW j \in DOMAIN got'[s], i < j
          PROVE  IF Ordered THEN place(got'[s][i]) < place(got'[s][j]) ELSE got'[s][i] # got'[s][j]
      <4>1. i \in 1..Len(got[x.s]) /\ got'[s][i] = got[x.s][i]
        BY <1>3, <2>2, <3>2
      <4>2. CASE j = Len(got[x.s]) + 1
        <5>1. got'[s][j] = x.m /\ got[x.s][i] \in Range(got[x.s])
          BY <1>3, <2>2, <4>1, <4>2 DEF Range
        <5> QED
          BY <1>1, <1>6, <4>1, <5>1
      <4>3. CASE j # Len(got[x.s]) + 1
        <5>1. j \in DOMAIN got[x.s] /\ i \in DOMAIN got[x.s] /\ got'[s][j] = got[x.s][j]
          BY <1>3, <2>2, <4>1, <4>3
        <5> QED
          BY <1>1, <3>2, <4>1, <5>1 DEF IInv, OnceInOrder
      <4> QED
        BY <4>2, <4>3
    <3> QED
      BY <1>5, <3>1, <3>2
  <2> QED
    BY <2>1, <2>2
<1> QED
  BY <1>2, <1>3, <1>4, <1>7 DEF OnceInOrder

LEMMA sendMsgKeeps == ASSUME IInv, NEW x \in senders, sendMsg(x) PROVE IInv'
<1>1. /\ senders' = senders \ {x} /\ UNCHANGED <<opts, control, source, closed, worker, pc, ended, sending>>
      /\ mbox' \in [Subscribers -> Seq(Nat)]
      /\ \/ got' = [got EXCEPT ![x.s] = Append(@, x.m)]
         \/ got' = got /\ (closed \/ x.s \in done)
  <2>1. mbox' \in [Subscribers -> Seq(Nat)]
    <3>1. x.s \in Subscribers /\ x.m \in Nat /\ mbox \in [Subscribers -> Seq(Nat)]
      BY DEF IInv, TypeOK
    <3>2. Append(mbox[x.s], x.m) \in Seq(Nat)
      BY <3>1, AppendProperties
    <3> QED
      BY <3>1, <3>2 DEF sendMsg
  <2> QED
    BY <2>1 DEF sendMsg
<1>2. x.s \in Subscribers /\ x.w \in Workers /\ x.m \in Gone
  BY DEF IInv, TypeOK, OneTaker
<1>3. /\ got' \in [Subscribers -> Seq(Nat)] /\ OnceInOrder'
      /\ Range(got'[x.s]) \subseteq Range(got[x.s]) \cup {x.m}
      /\ \A s \in Subscribers : /\ s # x.s => got'[s] = got[s]
                                /\ Range(got[s]) \subseteq Range(got'[s])
      /\ closed \/ x.s \in done \/ x.m \in Range(got'[x.s])
  <2>1. CASE got' = [got EXCEPT ![x.s] = Append(@, x.m)]
    <3>1. /\ got' \in [Subscribers -> Seq(Nat)] /\ Range(got'[x.s]) = Range(got[x.s]) \cup {x.m}
          /\ \A s \in Subscribers : s # x.s => got'[s] = got[s]
          /\ OnceInOrder'
      BY <1>1, <2>1, SentFacts DEF sending
    <3> QED
      BY <3>1
  <2>2. CASE got' = got /\ (closed \/ x.s \in done)
    <3>1. (Ordered' => Ordered) /\ UNCHANGED accepted /\ \A m : place(m)' = place(m)
      BY <1>1 DEF Ordered, place, sending
    <3>2. OnceInOrder'
      BY <2>2, <3>1, OrderKept
    <3> QED
      BY <2>2, <3>2 DEF IInv, TypeOK
  <2> QED
    BY <1>1, <2>1, <2>2
<1>4. TypeOK' /\ Unsent' /\ Queued' /\ Reachable'
  <2>1. TypeOK'
    BY <1>1, <1>3 DEF IInv, TypeOK, control, source, sending
  <2> QED
    BY <1>1, <2>1 DEF IInv, Unsent, Queued, Reachable, last, control, source, sending
<1>5. OneTaker'
  <2>1. Gone' = Gone /\ UNCHANGED worker /\ \A v \in Workers : \A m : Dispatches(v, m)' <=> Dispatches(v, m)
    BY <1>1 DEF Gone, Dispatches, source, sending
  <2>2. ASSUME NEW y \in senders'
        PROVE  /\ y.m \in Gone /\ y.m \notin Range(got'[y.s])
               /\ \A v \in Workers : Dispatches(v, y.m) => v = y.w /\ y.s \in worker[v].seen
               /\ \A z \in senders' : z.m = y.m /\ z.s = y.s => z = y
    <3>1. y \in senders /\ y # x /\ y.s \in Subscribers
      BY <1>1 DEF IInv, TypeOK
    <3>2. y.m \notin Range(got'[y.s])
      BY <1>3, <3>1 DEF IInv, OneTaker
    <3> QED
      BY <1>1, <3>1, <3>2 DEF IInv, OneTaker
  <2>3. ASSUME NEW s \in Subscribers, NEW m \in Range(got'[s])
        PROVE  m \in Gone /\ \A v \in Workers : Dispatches(v, m) => s \in worker[v].seen
    BY SMTT(30), <1>3 DEF IInv, OneTaker
  <2>4. \A v \in Workers : worker[v].at = "sending" =>
          worker[v].msg \in Gone /\ \A u \in Workers : Dispatches(u, worker[v].msg) => u = v
    BY DEF IInv, OneTaker
  <2> QED
    BY <2>1, <2>2, <2>3, <2>4 DEF OneTaker
<1>6. LastTaken'
  BY <1>1 DEF IInv, LastTaken, Ordered, last, source, sending
<1>7. Visited'
  <2>1. UNCHANGED <<owed, done, closed, worker>>
    BY <1>1 DEF control, sending
  <2>2. ASSUME NEW v \in Workers, worker[v].at = "sending", NEW s \in worker[v].seen \ done
        PROVE  closed \/ worker[v].msg \in Range(got'[s]) \/ \E y \in Sends(v)' : y.s = s
    <3>1. s \in Subscribers
      BY DEF IInv, TypeOK
    <3>2. closed \/ worker[v].msg \in Range(got[s]) \/ \E y \in Sends(v) : y.s = s
      BY <2>2 DEF IInv, Visited
    <3>3. ASSUME NEW y \in Sends(v), y.s = s
          PROVE  closed \/ worker[v].msg \in Range(got'[s]) \/ \E z \in Sends(v)' : z.s = s
      <4>1. CASE y = x
        BY <1>3, <2>2, <3>3, <4>1 DEF Sends
      <4>2. CASE y # x
        <5>1. y \in Sends(v)'
          BY <1>1, <4>2 DEF Sends
        <5> QED
          BY <3>3, <5>1
      <4> QED
        BY <4>1, <4>2
    <3> QED
      BY <1>3, <3>1, <3>2, <3>3
  <2> QED
    BY <2>1, <2>2 DEF IInv, Visited
<1> QED
  BY <1>3, <1>4, <1>5, <1>6, <1>7 DEF IInv

----------------------------------------------------------------------------
\* The theorems.

LEMMA EnvironmentKeeps == ASSUME IInv, Environment PROVE IInv'
<1>1. /\ UNCHANGED <<opts, control, queue, flow, pc, sending>> /\ closed' \in BOOLEAN /\ shut' \in BOOLEAN
      /\ closed => closed'
  <2>1. closed \in BOOLEAN /\ shut \in BOOLEAN
    BY DEF IInv, TypeOK
  <2>2. CASE Stop
    BY <2>1, <2>2 DEF Stop, source
  <2>3. CASE CloseQueue
    BY <2>1, <2>3 DEF CloseQueue
  <2>4. ASSUME NEW c, ContextEnds(c) PROVE UNCHANGED <<opts, control, source, closed, flow, pc, sending>>
    BY <2>4 DEF ContextEnds
  <2> QED
    BY <2>1, <2>2, <2>3, <2>4 DEF Environment, source
<1>2. TypeOK' /\ Unsent' /\ Reachable'
  BY <1>1 DEF IInv, TypeOK, Unsent, Reachable, control, flow, sending
<1> QED
  BY <1>1, <1>2, StillFlowing DEF IInv, control, flow, sending

LEMMA InitIInv == ASSUME Init PROVE IInv
<1>1. /\ <<>> \in Seq(Nat) /\ <<>> \in Seq(Requests) /\ <<>> \in Seq(SUBSET Subscribers)
      /\ DOMAIN <<>> = {} /\ Len(<<>>) = 0
  BY EmptySeq
<1>2. Range(<<>>) = {} /\ IsInjective(<<>>)
  BY <1>1 DEF Range, IsInjective
<1>3. TypeOK
  BY <1>1 DEF Init, TypeOK, CallerAt
<1>4. Unsent /\ Queued
  BY <1>1, <1>2 DEF Init, Unsent, Queued, last
<1>5. OneTaker /\ LastTaken /\ OnceInOrder
  BY <1>1, <1>2 DEF Init, OneTaker, LastTaken, OnceInOrder
<1>6. Reachable /\ Visited
  BY <1>1 DEF Init, Reachable, Visited, Registered
<1> QED
  BY <1>3, <1>4, <1>5, <1>6 DEF IInv

LEMMA NextKeeps == ASSUME IInv, [Next]_vars PROVE IInv'
<1>1. CASE UNCHANGED vars
  <2>1. UNCHANGED <<opts, control, source, closed, flow, pc, ended, sending>>
    BY <1>1 DEF vars
  <2>2. TypeOK' /\ Unsent' /\ Reachable'
    BY <2>1 DEF IInv, TypeOK, Unsent, Reachable, control, source, flow, sending
  <2> QED
    BY <2>1, <2>2, StillFlowing DEF IInv, control, source, flow, sending
<1>2. ASSUME NEW w \in Workers, Worker(w) PROVE IInv'
  BY <1>2, TakeKeeps, SourceEndsKeeps, DispatchEndsKeeps, VisitKeeps DEF Worker
<1> QED
  BY <1>1, <1>2, LoopKeeps, CallerKeeps, PublisherKeeps, sendMsgKeeps, EnvironmentKeeps DEF Next

\* The inductive invariant: of every message the broker knows who still has it.
THEOREM Invariant == Spec => []IInv
  BY InitIInv, NextKeeps, PTL DEF Spec

\* Every field of the broker has its type.
THEOREM TypeInvariant == Spec => []TypeOK
<1>1. IInv => TypeOK
  BY DEF IInv
<1> QED
  BY <1>1, Invariant, PTL

\* dispatchMessage never sends a message twice to a subscription, for any number of
\* workers and publishers; with one worker that does not read a LIFO the messages come
\* in the order the sink accepted them, until a parallel broker on a channel is stopped.
THEOREM OnceInOrderInvariant == Spec => []OnceInOrder
<1>1. IInv => OnceInOrder
  BY DEF IInv
<1> QED
  BY <1>1, Invariant, PTL

\* Only the end of the walk takes a worker out of dispatchMessage.
LEMMA OnlyDispatchEnds ==
  ASSUME IInv, [Next]_vars, NEW w \in Workers, worker[w].at = "sending", worker'[w].at # "sending"
  PROVE  DispatchEnds(w)
<1>1. worker \in [Workers -> [at : {"source", "sending", "ended"}, msg : Nat,
                              seen : SUBSET Subscribers, must : SUBSET Subscribers]]
      /\ worker' # worker
  BY DEF IInv, TypeOK
<1>2. ~Loop /\ ~Environment /\ ~UNCHANGED vars
  BY <1>1 DEF Loop, LoopTakes, LoopHandles, LoopEnds, Environment, Stop, CloseQueue, ContextEnds,
              vars, flow
<1>3. \A s \in Subscribers : ~Caller(s)
  BY <1>1 DEF Caller, SubscribeStart, SubscribeOffer, SubscribeAck, UnsubscribeStart, Unsubscribe,
              StatsStart, Stats, Receive, flow
<1>4. \A x \in senders : ~sendMsg(x)
  BY <1>1 DEF sendMsg
<1>5. \A p \in Publishers : ~Publisher(p)
  <2>1. ASSUME NEW p \in Publishers, NEW v \in Workers PROVE ~SinkHandsOver(p, v)
    BY <1>1 DEF SinkHandsOver, Dispatching
  <2> QED
    BY <1>1, <2>1 DEF Publisher, SendStart, SinkAccepts, SinkFails, SinkClosed, flow
<1>6. PICK v \in Workers : Worker(v)
  BY <1>2, <1>3, <1>4, <1>5 DEF Next
<1>7. v = w
  BY <1>1, <1>6 DEF Worker, Take, SourceEnds, DispatchEnds, Visit
<1>8. \A s \in Subscribers : ~Visit(w, s)
  BY <1>1 DEF Visit
<1> QED
  BY <1>6, <1>7, <1>8 DEF Worker, Take, SourceEnds

\* When dispatchMessage is done with a message, and the broker has not been stopped, every
\* subscription that was there when the message was sent, and has not been removed, has
\* been sent it, for any number of workers that walk the live set of subscriptions.
THEOREM DeliveredToAll == Spec => Delivered
<1>1. ASSUME IInv, [Next]_vars, NEW w \in Workers, worker[w].at = "sending",
             worker'[w].at # "sending", ~closed, NEW s \in owed[worker[w].msg], s \notin done
      PROVE  worker[w].msg \in Range(got[s])
  <2>1. worker[w].must \cap subs \subseteq worker[w].seen /\ Sends(w) = {}
    BY <1>1, OnlyDispatchEnds DEF DispatchEnds, Sent
  <2>2. s \in subs
    BY <1>1, GoneFacts DEF IInv, Reachable, OneTaker
  <2>3. s \in worker[w].seen \ done
    BY <1>1, <2>1, <2>2 DEF IInv, Visited
  <2> QED
    BY <1>1, <2>1, <2>3 DEF IInv, Visited
<1>2. ASSUME IInv, [Next]_vars
      PROVE  [\A w \in Workers :
                worker[w].at = "sending" /\ worker'[w].at # "sending" /\ ~closed =>
                  \A s \in owed[worker[w].msg] :
                    pc[s] \in Registered /\ s \notin done => worker[w].msg \in Range(got[s])]_vars
  BY <1>1, <1>2
<1> QED
  BY <1>2, Invariant, PTL DEF Spec, Delivered
=============================================================================
