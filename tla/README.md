# Verification of `fun`

TLA+ models of the Go module `github.com/tychoish/fun`, the TLC configurations that check them
on small instances, and TLAPS proofs of the safety properties of its queue, deque, wait group,
service, broker, orchestrator and shared wrappers, and of its pools, streams and channels. What
goroutines share is modelled as state machines; what one goroutine computes alone is modelled as
operators, checked against what it promises over every short input. Source paths are relative to
`src/`. `PROJECT.json` maps every definition to the lines it models and lists the hazards of the
code with the properties that address them.

    tlc -workers 2 -config MCQueue.cfg MCQueue      # a run; the table below has them all
    tlapm QueueProofs.tla                           # the proofs of a module

## 1. The system

### Inventory

| component | state | operations | how it is used | what is hard | what makes it correct |
|---|---|---|---|---|---|
| trackers (`pubsub/tracker.go`) | length, soft quota, hard limit, burst credit | `add`, `remove`, `cap`, `len`; options' `Validate` | by Queue and Deque, under their mutex | quota and credit move both ways over long mixes of calls | length <= quota <= hard limit; an accepted add has room |
| `pubsub.Queue` | linked list, tracker, `drainers`, `closed`, one mutex, two conditions | Push, WaitPush, Pop, WaitPop, Drain, Shutdown, Close, three iterators | Orchestrator's input, Broker's buffer, streams | conditions shared by different kinds of waiters; contexts that end; drains that fail; cursors whose entries are popped | a FIFO; no lost wakeup; a drain lets nothing in; every wait ends when its context does |
| `pubsub.Deque` | circular doubly linked list, tracker, `drainers`, `closed`, three conditions | the same at both ends, ForcePush | Deque and LIFO brokers, streams | forced pushes under soft quotas; cursors recovered from sequence numbers | a double-ended sequence; links sorted; no lost wakeup |
| `fnx.WaitGroup` | counter, mutex, condition | Add, Inc, Done, Launch, Group, Wait | Service, Broker, combinators | Wait takes a context and a goroutine wakes it | nobody sleeps through zero; Wait returns after the caller's own operations |
| `srv.Service` | three flags, `sync.Once`, `cancel`, error collector, WaitGroup | Start, Close, Wait, Worker, Running | Orchestrator, `srv` constructors | flags read one at a time while three goroutines write them | runs once; reports hold every failure; ends when its context does |
| `srv.Orchestrator` | input Queue, its own Service | Add, Start, Wait, Service | applications | services that start, run and finish while it looks at them | every added service is waited for and its errors reported |
| `pubsub.Broker` | control channel, live subscription map, source and sink | Subscribe, Unsubscribe, Send, Stats, Stop, Wait | over a channel, a Queue or a Deque | control loop, dispatch workers and publishers interleave | delivery to every subscriber that was there; no leaked subscription; no call blocks after Stop |
| streams, rate limit (`pubsub/stream*.go`, `iterators.go`) | channels between stages | constructors, conversions | with queues | cancellation and early exit of consumers | no item lost or repeated, no goroutine left |
| `srv` implementations, contexts | Services built around queues, HTTP servers, commands | constructors | applications | shutdown signal against context | hooks release what Run holds |
| `fnx` functions, `internal/exec.go` | cached results, counters, timers | Once, Limit, TTL, Lock, WithCancel, StartGroup, Launch, Signal; Retry, Join, filters, hooks | everywhere | cached value read without the mutex; panics in the wrapped function | at most n executions; the answer is that of an execution; errors told once |
| `wpa` pools | a shared iterator, error and panic policy | RunWithPool and friends | applications | workers stop on one worker's failure | each item handled once; errors reported |
| `adt`, `adt/shard` | atomics, mutex maps, ordered maps and sets, Once, Pool; versioned shards | load, store, ensure, iterate; versioned set and fetch | Broker, Pool users | two-step updates of a version and a value | a fetched value belongs to its version; no update lost |
| `dt` containers | lists, stack, heaps, ring, ordered map, histogram | push, pop, sort, iterate, JSON | sequential callers | index arithmetic, wrap-around, links | the abstract sequence, set or multiset |
| `erc`, `ers` | list of errors behind a mutex | Push, Join, Resolve, Recover | everywhere | concurrent pushes, nested stacks | nothing pushed is lost |
| `irt`, `stw` | iterator state, channels | transformations, buffered and merged iterators | everywhere | goroutines behind iterators | the sequence, once each |
| `exc` | the process, who waits for it, two output streams | Start, the worker, Exec | `srv`'s Cmd | several waiters with contexts of their own | one waits for the process, the others hear its answer |
| `confl` | none that outlives a call | bind, parse, environment, subcommands, validate, enums | applications | sources in order, defaults that the first value drops, two passes over subcommands | every word of the line read once, by the field it belongs to |
| `strut`, `mdwn` | text | build strings, Markdown | applications | wording and layout | not addressed |
| `opt`, `fn`, `assert`, `ensure`, `testt` | none | functions applied in order, assertions | everywhere, tests | nothing that outlives a call | not addressed |

### How the parts interact

A Queue or Deque is an object with one mutex. Its callers interact through the list and
through condition variables; `wakeOnCancel` (`pubsub/deque_element.go`) turns the end of a
context into a broadcast made by a new goroutine. A Broker's publishers push into a Queue
or Deque, its workers take from it through a consuming iterator, and its control loop
changes the set of subscriptions the workers walk. A Service starts three goroutines that
report to an `erc.Collector` and count themselves in a `fnx.WaitGroup`; the Orchestrator
takes Services from a Queue and waits for each in a goroutine of its own; the services `srv`
makes run operations, jobs of a Queue, servers, commands or other services inside the same
frame. A stream is a function that is read by several goroutines, and its tools put worker
pools and channels between a source and the readers. The wrappers of `fnx` are used by all
of these around the functions they call, and `erc.Collector` gathers their errors.

## 2. Modules

| module | models | state and actions |
|---|---|---|
| `QueueLimits` | the trackers and the options | operators on a tracker record: `AddError` and `Added` are `add`, `Removed` is `remove`, `Capacity` is `cap` |
| `FIFO` | what a Queue promises | a sequence, a closed flag, and one atomic action per kind of outcome |
| `Queue` | `pubsub.Queue` | the fields of the type; one action per critical section |
| `DoubleEnded` | what a Deque promises | as FIFO, with two ends and a forced push |
| `Deque` | `pubsub.Deque` | as Queue, with `next` and `prev` links |
| `WaitGroup` | `fnx.WaitGroup` | the counter, the tokens it stands for, and the place of each goroutine in Wait |
| `Service` | `srv.Service` | the flags, the place of each caller and of each of the three goroutines |
| `Orchestrator` | `srv.Orchestrator` | the input as a sequence, the three flags of each service as it reads them, a goroutine `guard` per service it waits for |
| `ServiceKinds` | the constructors of `srv/implementations.go` | nine constructors as seven kinds; Run, Shutdown and Cleanup in the frame of `Service.Start`, with their goroutines, time-outs and processes |
| `Broker` | `pubsub.Broker` | requests, the live set of subscriptions, the dispatch workers, the sends in progress; over an abstract channel, FIFO or LIFO |
| `Streams` | streams read in the background | source, workers, channel, outputs; a reader per goroutine; Split, Buffer, BufferParallel, MergeStreams, parallel Convert |
| `StreamTools` | what a stream's reader does alone | a stream is the answers it gives; operators for ReadAll, Filter, Reduce, Join, RateLimit ... |
| `Channels` | irt's and stw's channels | Pipe, AsChannel, WithBuffer, AsGenerator, WithMutex, non-blocking sends and receives |
| `WorkerPool` | `wpa` | workers that pull from one source under the options of `conf.go`, and the sequential forms |
| `SharedCalls` | the wrappers of `fnx` callers share, `internal/exec.go` | 26 wrappers by the executor they use; runs are numbered and an answer is a run's number |
| `Wrappers` | the wrappers of `fnx` for one caller | a function is a script of outcomes; each wrapper gives the errors told, the runs made and the value |
| `OnceValue` | `adt.Once` | constructor, flags, value; one step per atomic operation |
| `ShardedMap` | `adt/shard.Map` | two clocks, versioned objects; one step per atomic operation |
| `Commands` | `exc.Command` | the process, its waiter, the streams |
| `Errors` | `erc`, `ers` | errors as trees, collectors by name; a state is what each list holds |
| `Iterators` | `irt` | each tool by what it yields, what it takes and what it keeps, for a consumer that stops anywhere |
| `LinkedLists`, `LinkedStacks`, `RingBuffer`, `Heaps`, `Histogram`, `OrderedMaps` | `dt`, `dt/hdrhist`, `adt`'s ordered map and set | the fields of the types, pointer by pointer or index by index, beside the sequence they stand for |
| `CommandLine` | `confl` | a struct is a sequence of fields, a line a sequence of tokens; binding, parsing and dispatch as functions of a state |
| `MCQueue`, `MCDeque`, `MCWaitGroup`, `MCBroker` | | the instances for TLC |
| `MCWaits`, `Shared` with `MCShared`, `Streaming` with `MCStreams`, `MCSequential` | | several components each: a behaviour is of one of them, chosen at the start, and the variables of the others stay `Unused` |
| `QueueLimitsProofs`, `QueueProofs`, `DequeProofs`, `WaitGroupProofs`, `ServiceProofs`, `BrokerProofs`, `SharedProofs`, `StreamingProofs` | | theorems |

**Queue and Deque.** An operation that never waits is one action, because it holds the
mutex from its first read to its last write. One that waits (WaitPush, WaitPop, Drain,
Shutdown, the waiting iterators) is cut at `Cond.Wait`: the first turn of its loop may
leave the goroutine `asleep`, a signal or broadcast makes it `woken`, and a woken goroutine
takes one more turn at any later time, after other goroutines may have taken the mutex.
`IteratorWaitPop` of the Queue reads its context, calls Pop and then WaitPop, each with the
mutex on its own, and so it has three steps. `Signal` wakes any one sleeper of the
condition; `Broadcast` all.

A context may end at any time during a call (`Cancel`). That starts the goroutine of
`context.AfterFunc`, which is counted in `wakes` and broadcasts in a later action
`WakeOnCancel`, even if its call has returned by then. The deferred `cancel()` of a drain
starts one too. A call may also begin with a context that has ended.

Queue entries and Deque elements are numbers in the order of allocation, and an item is the
number of the entry that carried it first: items are distinct, which is the strongest case
for the order of delivery. `ret` is a history variable with the last call's answer.

**WaitGroup.** The goroutine that notices the end of the context broadcasts *without* the
mutex. The turn of Wait's loop is therefore cut once more, between the test of the context
and the moment the goroutine is on the condition's list (`checked`).

**Service.** No mutex orders the callers, so each atomic load, store and swap, each shared
assignment, each channel close and each change of the WaitGroup is a step. `s.cancel` is
assigned and read without synchronisation; a Close may therefore miss the assignment until
`Start`'s last store. Hooks fail or succeed at will (an error and a panic are alike, since
`ec.Recover` collects panics), and `Run` may return at any time.

**Orchestrator and ServiceKinds.** Each look at a flag of a service is a step, because its
own goroutines write them meanwhile. A user may start a service the orchestrator is about to
start. The seven kinds are one module because they share the frame; `kind` selects the
actions. A process exits when it likes; it ends when killed, and may ignore a signal.

**Broker.** A step is one select, one operation on the live set of subscriptions, or one
request handled by the control loop, so a dispatch interleaves with changes of the set it
walks. The queue in between is abstract; `Queue` and `Deque` show that theirs are such.

**Streams, Channels and WorkerPool.** A step is one operation on the source's lock, on a
channel or on a closed flag. Sources are short scripts of items, skips and errors.

**SharedCalls.** A wrapper is a record of what its code does around one of the executors
(Once, Limit, TTL, a lock, a context, a goroutine), so a wrapper of a Worker and of a
Handler differ in the record alone. One run may panic, contexts expire, and a clock moves
for the time to live.

**Containers.** Each operation is an action on the pointers, and a variable holds the
sequence or map the documentation promises; the invariant compares the two after every
operation, so it covers every short program of the operations in `Next`, also with elements
that are offered to the wrong list, detached or offered twice. Four operations break the
container they are called on and are not in `Next`: `Element.Swap`, `Item.Remove`,
`Item.Detach` and `OrderedSet.SortMerge`. They are modelled beside it, and
`SpecWithSwap`, `SpecWithRemove`, `SpecWithDetach` and `SpecWithSort` are the
specifications that have them (see Divergences). The sorts of a List are modelled by what
they do to the values.

**Iterators, StreamTools, Wrappers, Errors and CommandLine** are operators. An iterator tool
is modelled by what it yields and takes when its consumer refuses the k-th element, for
every k. In `MCSequential` the input grows by one element at a step to every sequence within
a bound, and the laws are invariants of it.

## 3. Runs

| run | shows |
|---|---|
| `queue_safety` | nine properties of the Queue, with a producer, a consumer, a controller (Drain, Shutdown, Close) that also pops, and an observer |
| `queue_drain_closed` | *violated*: a resumed drain on a closed queue can report success |
| `deque_safety` | five properties of the Deque, with forced pushes and pops at both ends, a drain, and walks under which elements are popped |
| `waits` | `WaitsEnd`, for every waiting call of a Queue and of a Deque |
| `waitgroup` | four properties of the WaitGroup, safety and liveness |
| `waitgroup_cancel` | *violated*: a Wait may sleep on after its context has ended |
| `service` | five properties of the Service, safety and liveness |
| `service_running` | *violated*: `Running()` may stay true after the service has ended |
| `broker` | six properties of the Broker in six configurations |
| `shared` | the wrappers of `fnx`, `adt.Once`, the sharded map, `exc`, the Orchestrator and the kinds of service: `CallersAgree`, `AnswersAreOfRuns`, `ServicesReport`, `CallsEnd` |
| `streams` | the pools of `wpa`, the streams of `pubsub`, the channels of `irt` and `stw`: `PoolsAccount`, `ItemsDelivered`, `ToolsEnd` |
| `sequential` | the containers, the iterator and error tools, and `confl`: `ContainersAgree`, `InputsRead`, `ErrorLaws` |

### Properties

* `LimitsKept`, `WaitPushNeverFull`, `ForcePushFits`: the two rules the code applies to
  capacity (`cap()` against `len()` before an add, the tracker's own test in it) agree, also
  after bursts and quota reductions.
* `ListIntact`, `LinksSorted`: the links, the tail pointer and the tracker's length, which
  are maintained at different places, tell the same story.
* `DrainersCounted`, `NoAddWhileDraining`: the drain protocol.
* `NoLostWakeup`: whoever sleeps on a condition has nothing to do, or the goroutine that will
  wake it has started. This is the property the comments in `doAdd`, `popFront` and `notify`
  argue for.
* `IteratorsInOrder`: a cursor moves to the next live element whatever was popped under it.
* `ImplementsFIFO`, `ImplementsDoubleEnded`: refinement of the abstract specifications. Each
  critical section is one abstract action or a stutter, and what a call returns is what the
  abstract action returns.
* `Counted`, `NoLostZero`, `OwnOperationsDone`, `ZeroReturns`: the WaitGroup.
* `WaitSeesAll`, `HandlerSeesAll`: a report of the service holds every failure of its hooks,
  though Wait answers as soon as `isFinished` is set.
* `RunOnce`, `CancelStops`, `CloseStops`: the lifecycle.
* `WaitsEnd`: a waiting call of a Queue or a Deque returns once its context has ended or the
  queue is closed, and a drain once the queue is empty.
* `OnceInOrder`, `Delivered`: a message reaches whoever subscribed before it was sent and
  still is subscribed, once, and in order where one worker reads a FIFO, or a channel that
  is not both parallel and stopped.
  `NoLeakedSubscription`, `ControlAnswers`, `UnsubscribeReleases`, `StopEnds`: a Subscribe
  that gives up leaves nothing behind, the control calls return though nobody receives, a
  removed subscription holds no worker, and Stop ends everything.
* `CallersAgree`: a wrapper runs its function as often as it may and never twice at a time
  where it locks; one constructor of a `Once` runs; a value is never newer than its version;
  one caller waits for a process. `AnswersAreOfRuns`: what a caller gets is the outcome of a
  run that ended before its call did, and a recent enough one.
* `ServicesReport`: when the Orchestrator returns, each service it started has ended and its
  error is reported, and each that was added has been waited for or is still in the queue; a
  finished service of any kind leaves no operation, job or process running that it waits
  for, and a Daemon keeps its pace. A Group, a Cleanup and a WorkerPool have then told the
  errors of those they waited for. Of the errors of a Wait nothing is said: its Run can
  return before the last panic is collected (`WaitReportsPanics`, below).
* `PoolsAccount`: a job runs at most once and is told at most once. When a call has returned
  whose context lives and whose consumer goes on, every job has run, unless one met an error
  that the options stop at (with `RunWithPool`: unless each shard did), and the errors that
  the options collect, and the values, have been told. `RunWithPool` tells nothing else, and
  with one strict worker runs what `Run` does; where no job is skipped and the options pass
  every error, the other two tell what their sequential forms do. Whether they may run more
  jobs after an error that the options stop at, and tell what the options leave out, it
  leaves open: the comments say no, and the code does it (`OptionsStopPools`, `EndsUntold`,
  `ContextEndsUntold`, below).
  `ItemsDelivered`: items reach their readers once and in order; without a cancel or a close
  all of them do, and so do the errors, unless a conversion failed that may not: it ends its
  worker, and with the last worker what is left of the source goes unread (`Dropped`).
* `CallsEnd`, `ToolsEnd`: every call, worker and reader comes to its end.
* `ContainersAgree`: links, hashes, indices, counts and open iterators agree with the
  abstract value after every short program of the operations in `Next`, which leaves out
  the four named in section 2.
* `InputsRead`: iterator tools lose, repeat and invent nothing, and take no more from their
  source than they were asked for; a merge sort keeps every value and sorts; a rate limit is
  kept; `confl` gives each field the value of the source that comes first, leaves words where
  they belong, chooses the deepest subcommand, and counts enums as `iota` does.
* `ErrorLaws`: retries, joins, filters and hooks tell each failure once, as what it was; it
  leaves open whether Future.Retry tells that it was told to stop, and whether the hook of
  Handler.PostHook runs after a panic, on which comment and code differ (below);
  whatever is collected, through whatever, is found again with `errors.Is`.

### Bounds

* Queue: four goroutines (a producer, a consumer that waits and iterates, a controller that also
  pops, an observer that waits for more), three entries, a quota of one under a limit of two
  with half a unit of credit at first: the refusal for lack of credit, the burst, the reduction
  of the quota and the reuse of an emptied list all happen. `Program[p]` limits which operations
  a goroutine calls, so that each has a role; together the roles cover every operation. Three
  actors and one more are enough to have a waiter, the one who should wake it, and one who takes
  the signal or the item first.
* Deque: three goroutines, three elements; a quota of one under a limit of three with the credit
  to pass it once, so that a forced push may find two elements and have to choose an end, and no
  credit for a third; and two combinations of options that are refused. The trackers without a
  soft quota are left to the proofs, which hold for all three. One goroutine pushes and forces
  at both ends, one pops at both and walks, one drains, closes, and waits for room and for more.
  Shutdown, a drain that closes, is in `waits` and in the proofs.
* `waits`: three goroutines, two pushes and one slot, on a Queue and on a Deque; pushers and
  poppers wait for each other, and there is a waiter of every kind.
* `MaxWakes` bounds the started cancel goroutines that are pending when a call with a context
  begins; the broadcasts that a drain's deferred cancel adds are not limited by it.
  One pending broadcast on each condition is enough to wake anybody wrongly at any moment.
* WaitGroup: two goroutines, three tokens (two of one goroutine), three Waits.
* Service: two callers and three calls of any kind, so that two Starts race, and a third call
  meets what they leave. The hooks that may fail are Run and Cleanup, the first and the last
  to be told; a Shutdown or an error handler that fails is covered by the proofs.
* Broker: two subscribers, one publisher, one worker; each configuration has a budget of
  messages, requests and events (a Stop, a closed queue, a context that ends), of which two
  or three together are what the races need.
* `shared`: two callers with two calls each, three for `Once`, where two that race leave a
  third to be told; a limit of two, a time to live and an interval of two on a clock of six
  (five for the services); one key with two writes and two fetches; two services, items
  and workers, three starts of a Daemon.
* `streams`: two workers, two jobs that succeed or fail in one of the four ways, under every
  option, two readers, two items, buffers of none and one. An error has one worker to be met by
  and one to pass by. The scripts put two items in a row, an error after an item and after one
  that is skipped, an error alone and a failed conversion before an item. A serial Buffer of one
  item is BufferParallel with one worker; larger ones are left to the proofs.
* `sequential`: two lists of three elements; rings up to four long that wrap twice; three
  heap keys, five pushes; two shapes of histogram with values at the edges of buckets; three
  map keys and elements; iterator inputs of up to four elements (five for streams), scripts
  of up to four outcomes, four steps of a collector, three of twelve tokens of a command
  line (an until-flag with its values, a flag with a default given twice, a subcommand in
  a subcommand), three entries of an enum of three bits.

`CHECK_DEADLOCK FALSE` is used throughout: nobody has to make another call, the bounds end
every run, and a queue nobody pushes to may be waited on for ever. What must not get stuck is
stated as liveness.

### Fairness

* A goroutine inside a call that can take a step takes it (`WF`): Go's scheduler runs every
  runnable goroutine, and `sync.Mutex` hands itself over to a waiter that has waited long.
  For `WaitGroup.Relock` that handing over is what makes `SF` the right form, because the
  mutex is taken and released by others in between.
* A cancel goroutine that has started broadcasts (`WF`).
* No caller is required to begin a call, no context is required to end, and no push or pop is
  required to happen.
* Service: `Run` is required to return only after its context has ended ("Implementations
  are responsible for returning promptly when the context is canceled"), the other hooks
  return, and no wait has to end early merely because its context ended, because of the
  WaitGroup's finding.
* Broker: the control loop, the workers, the sends and the callers that can go on do. Nobody
  has to receive, to unsubscribe or to send. Calls are bounded, so weak fairness is enough.
* `shared` and `streams`: *some* goroutine that can go on does (`Works`). This is weaker than
  fairness for each, which Go's scheduler gives, and it is enough where no goroutine can go
  on for ever; the consumers of a channel that poll it can, so each has its own `WF`.
  Services and operations end after their context does, killed processes die, and time-outs
  that are always set expire; nothing makes a context end, an item be added or a process
  obey a signal.

### Findings

1. `pubsub/queue.go:296`: a drain woken on an empty, closed queue returns nil, where the
   type's comment (53-59) promises `ErrQueueClosed` whether or not items remain. A Shutdown
   in that state closes the queue again, without harm.
2. `fnx/sync.go:136`: `wg.cond.Broadcast()` without the mutex can fall between Wait's test of
   its context and `Cond.Wait`; Wait then sleeps until the counter reaches zero or another
   Wait returns. `wakeOnCancel` in `pubsub` takes the mutex for this reason.
3. `srv/service.go:123`: the second `isRunning.Store(true)` can come after the service's own
   `Store(false)`; `Running()` is then true for ever.

### Divergences

Each definition named here states what a comment of the code says, and TLC finds it violated
when it is checked; the definitions are kept in their modules, but no run is.

| definition | the comment | the code |
|---|---|---|
| `ServiceKinds!WaitReportsPanics` | `srv/implementations.go:115` | `:133` Done is called before Recover, so Run can return before the last panic is collected |
| `ServiceKinds!GroupRunsOn` | `srv/implementations.go:26` | the services get the context of the group's Run, that `srv/service.go:193` ends when Run returns |
| `ServiceKinds!PoolDrains` | `srv/implementations.go:215` | the workers end with their context before the queue is empty |
| `Orchestrator!StartsInOrder`, `LateAddsFail` | `srv/orchestrator.go:53` | services start in goroutines of their own; the queue is not closed when Run returns (`:94`) |
| `Streams!ReadsDoNotPanic` | "safe for concurrent use", `pubsub/stream.go:236` | a Close before the first Read takes the Once of `fnx/future.go:308`, and the reader meets its invariant |
| `Channels!EmptyEnds` | `stw/chan.go:117` | the non-blocking Iterator spins on an empty channel (`:121`) |
| `SharedCalls!LaunchBlocks` | `fnx/operation.go:97` | the operation makes the one that would wait, and does not run it |
| `ShardedMap!NeverBehind` | `adt/shard/map.go:38` | `versioned.go:46` moves the version before the value |
| `ShardedMap!VersionsGrow` | strictly increasing, `adt/shard/map.go:38` | of two first sets the later puts its new object over the first's (`shard_impl.go:47`), and a key's version goes back |
| `WorkerPool!OptionsStopPools` | any error leads to an abort without the option, `wpa/conf.go:30`, `:165`; error handling is configurable, `pools.go:125` | `PullWithPool` and `ResolveFuturesWithPool` run every job, whatever the options are |
| `WorkerPool!EndsUntold` | `io.EOF` is never included, `wpa/conf.go:43`, nor it or the skip error observed, `:77` | these two yield every error a job returns |
| `WorkerPool!ContextEndsUntold` | context errors only when configured, `wpa/conf.go:34`, `:78` | `PullWithPool` yields them always |
| `Commands!LeavesProcess` | `exc/exc.go:251` | the worker cancels the command when its own context ends (`:265`) |
| `Errors!PushCollects` | `erc/errors.go:274` | `ers/ers.go:19` asks an error's own `Ok`, and an element of a list (`erc/list.go:193`) answers true: it is taken for no error |
| `Wrappers!FutureRetryStops` | a terminating error is not returned, `fnx/future.go:346` | it is joined to the answer (`:365`) |
| `Wrappers!FutureRetrySkips` | skips alone give nil and the zero value, `fnx/future.go:353` | a skip is not counted (`:369`), so a future that only skips is tried for ever |
| `Wrappers!JoinEnds` | only `io.EOF` after an error of the second, `fnx/future.go:91` | an error that is not `io.EOF` is answered again (`:142`) |
| `Wrappers!ForcePanics` | panics in the case of an error, `fnx/future.go:178` | the error is dropped (`:179`) |
| `Wrappers!HandlerPanicSkipsHook` | the hook is not called after a panic, `fnx/handler.go:278` | it is deferred (`:286`) |
| `LinkedStacks!HoldsItsItems` | Remove removes the item, `dt/stack.go:221`; Detach of an item in no stack makes "a new stack of one", `:256` | Remove leaves the item in the chain; an item that was popped still points at what was below it, and Detach heads a stack with all of that |
| `LinkedStacks!CountsItsItems` | `dt/stack.go:39`; Detach splits a stack in two, `:245` | the new length is taken after the old one was set (`:278`, `:281`), so it is 0 |
| `LinkedLists!IsSortedTells` | `dt/list.go:413` | the last element is not looked at, and the first is compared with the root's zero value |
| `RingBuffer!HeadIsOldest` | `dt/ring.go:91` | Head looks at one position, which a Pop may have emptied |
| `LinkedLists!SwapExchanges` | `dt/list.go:330` | Swap appends to a copy of the neighbour, so the list loses an element |
| `OrderedMaps!SetIteratesItsItems` | `dt/ordered_set.go:27` | SortMerge leaves elements that name another list (`dt/list.go:484`) |

What the models show besides, where nothing is promised, or only loosely, or no definition
states it:

* `pubsub` brokers: after a Stop, a parallel dispatch on a channel no longer waits for its
  senders, and the worker may still take a message, so two messages may reach a subscription
  in either order.
* `fnx`: Worker.Signal drops its result when its context ends (`fnx/worker.go:47`), where
  the comment says that a value is always sent (`:41`); callers of a Worker's or Handler's
  Once after a panic get nil; a panicked run is not counted by Limit.
* `pubsub` streams: a stream keeps the context of its first reader, and a Read with an ended
  context closes it for all; closing one output of Split closes the input; an item taken and
  not sent is lost on a cancel.
* `srv`: a user's Start may fall between the orchestrator's look and its own Start; Cmd's
  Shutdown sleeps its whole time-out after the signal; a cleanup that returns io.EOF stops
  its worker.
* `erc`: an element of a list that is joined brings all that follow it, so errors are told
  twice (`erc/list.go:118`); a filter drops an aggregate as a whole when it excludes one of
  its errors; a collector pushed into one nested in it makes a cycle (`:105`), which the
  inputs of `Errors` leave out.
* `wpa`: `ExcludedErrors` (`wpa/conf.go:43`) is never read.
* `confl`: ParseCommand binds subcommands more than once, and Validate writes defaults into
  the struct, so the defaults of slices double; `env:` tags of a subcommand's fields and of
  inverted bools are ignored; a `rest` field of an embedded struct is never filled;
  expandUntilArgs also rewrites words behind `--`.

## 4. Proofs

The theorems hold for all values of the constants under the named assumptions: finitely many
goroutines, any programs in which a goroutine has at most one sequence, any options whose quotas
divide `CreditUnit`; a largest integer above zero; any subscribers, publishers and workers, of
which there may be infinitely many; in `Shared`, any callers, limits and durations above zero,
at least one key and any interval (`SharedAssumption`). The bounds `MaxPushes`, `MaxWakes` and
`MaxWaits` are arbitrary naturals. In `Streaming`, any readers and consumers but none, at least
one worker, any jobs, items and buffers, and any scripts of answers, where only a stream that
converts has items that cannot be converted (`StreamingAssumption`).

* `QueueLimitsProofs`: `Added` and `Removed` keep a tracker's type and `WithinLimits` and
  change the length by one, and `RoomMeansAdd`: an add below `Capacity` is never refused.
* `QueueProofs`: the list and the tracker by `ListInv` (types, `LimitsKept`, `ListIntact`),
  which is inductive by itself because every step adds one entry, removes one or touches
  neither; then `IInv`, which adds the goroutines. `DrainersCounted` counts the operations in
  progress, so its induction needs `Placed`: a goroutine outside a call has no operation, and
  one that sleeps or was woken is in an operation that waits.
  The second part: `NoLostWakeup` is inductive with `IInv`. The lemmas go condition by
  condition and step by step: what ends a wait on `nempty` or on `nupdates`, and that a push,
  a pop, a close, and a drain's start and end each wake everybody they could concern. The
  signal of `Pop` can then go to anybody: `popFront` has already told whoever needs it.
  The third part: the three action properties, then `Refinement`, with `Contents` as
  the mapping: `Enqueue` appends to it and `Dequeue` takes its head, by `ListIntact`; every
  other step leaves it alone and sets `ret` as `FIFO` allows.
* `DequeProofs`: `Shape` says that `next` and `prev` run through the live elements in the order
  of their sequence numbers, and that the tracker counts them; it is shown once for linking an
  element in at either end and once for unlinking one anywhere, and a forced push is the
  composition. The rest of `IInv` is the count of drains, `NoLostWakeup`, whose three conditions
  are treated as in the Queue, and `ForcePushFits`: removing one element makes the room the
  forced add needs. `Minimum` (a non-empty set of naturals has a least element) stands in for
  induction, here for the neighbour of an element. `IteratorsInOrder` follows from `Shape`. Then
  `Refinement`, with `Contents` (the walk along `next`) as the mapping. A sequence is `Ranked`
  for a set of numbers when it lists them from the least to the greatest, and there is at most
  one. The walk is defined by recursion, so it is first shown to exist, from its partial
  solutions and `Minimum`; by `Shape` it visits the live elements by rank, so `Contents` is the
  ranked sequence of the live elements. Appending, prepending and dropping an end keep a
  sequence ranked, and so every step of the Deque is one of `DoubleEnded` or a stutter.
* `ServiceProofs`: the flags say where the goroutines are (`OneStarts`, `LaunchOrder`) and in
  which order they end (`EndOrder`), so when `isFinished` is set nobody who could still fail is
  left but the handler, which adds nothing; that gives `WaitSeesAll`, `HandlerSeesAll` and
  `RunOnce`.
* `BrokerProofs`: `IInv` says of every message who has it: its publisher (`Unsent`), the queue
  (`Queued`), or one worker and at most one sender for each subscription (`OneTaker`). With
  that, nothing is sent twice; `LastTaken` (a sole worker holds the last message taken, and
  takes the next when its senders are done) gives the order. `Reachable` and `Visited` (whoever
  is owed the message is still to be visited, has it or has been removed) give `Delivered`.
  `OnceInOrder` first claimed the order for a stopped parallel broker too; the proof attempt and
  then TLC showed that it does not hold there.
* `WaitGroupProofs`: `IInv` is the types, `Counted` and `NoLostZero` together. That one
  goroutine at most is between its test and `Cond.Wait` is part of the types; it is what keeps
  the counter from reaching zero unheard in that window.
* `SharedProofs`: the parts of `Shared` one by one, then `Inv`, which is the invariant of the
  part the behaviour is of; `AgreementHolds` and `AnswersHold` follow. In `adt.Once` one caller
  at most is inside, and the flags, `comp` and the answers are as its place says. In a command,
  one waiter at most waits or has heard the end, there is one once the process is waited for,
  and what it heard is how the process ended. In the sharded map a writer's place says how far
  its write is: `ClockFirst` (an object's clock has moved before its value does) is kept by each
  step, which is either quiet, when nothing another caller relies on moves, or loud, when only
  the caller's own object does. A `Fetch` that finds the object's clock unmoved after it read
  the value reports no older version. A wrapper keeps an invariant of its kind: who is in the
  run (`Holder`: the caller that has the mutex), that the answer it keeps is that of the last
  run that returned, for a TTL that runs are `Settled` (all but the last have ended) and
  `Spaced`, and for a group that the tasks add up to the copies. `AnswersAreOfRuns` is about the
  answer in the step in which a call returns, so each kind has a second lemma from its invariant
  to that step. `ReportsHold` is about the services of `srv`. Of the orchestrator, `OnePlace`
  says that a service that was added is in the queue, in the orchestrator's hands or with one
  goroutine, and `Guarded` that the goroutine of a service the orchestrator started sees it end;
  a refused Start or "not started" is told only of a service a user started (`Honest`). Of the
  kinds of service, `Reporting` has a part for each: whose goroutine is counted, who has told
  his error, that the drain closes a cleanup's queue only when it is empty, and what process
  runs; `Paced` says that a daemon starts only when it is due.
* `StreamingProofs`: `PoolsAccountInvariant` and `ItemsDeliveredInvariant`, by `StreamingInv`,
  which is the invariant of the tool the behaviour is of. A step is first shown to be one of a
  few kinds (`PoolMoves`, `ChanMoves`, `StreamMoves`: what it does to the items, whatever action
  it is), and the parts of an invariant are then kept by each kind rather than by each action.
  In a pool, `JobsHeld` says that a job that was pulled has run or is with one worker, so none
  runs twice; `ToldOnce` and `RightlyTold`, that what is told is what the jobs that ran
  answered, but for the answers the workers still hold. `WorkersStop` and `ShardsFinish` count
  the workers that have met an error against the shards that are left, which gives, for `RunWithPool`, "every job or
  every shard" when the call has returned; `StopsFirst` is one strict worker. The sequential
  forms they are compared with are sets and a least element, without recursion (`RunSequence`).
  In a channel, the items taken from the source are a prefix of it, in one place each: with a
  consumer or in the channel, in this order (`ItemsInTurn`, `NoneMissing`); the other three
  parts say how the producer, the consumers and a panic come to their ends. In a stream, `Apart`
  says that an item that was taken is with a reader, in the channel or with one worker, and
  nowhere else; `InOrder` that it overtakes none when one worker reads. For what is missing at
  the end, `WorkersStart` and `ReadersPlaced` say who has opened and who may close the channel,
  `ErrorsKept` that an error ends its source and is remembered, and `Quiet` that without a
  cancel or a close a reader stops only when every source has been read to its end; `NoneLost`
  then leaves no place for an item but a reader. The proof corrected `ItemsDelivered`, which at
  first excepted items after any failed conversion and no errors. Items are missing only if the
  conversion may not fail and so ends its worker, and then an error of the source may be missing
  too, with scripts other than the run's.

Only model-checked: everything under fairness (`ENABLED` and liveness are out of the prover's
reach, so `WaitsEnd`, `CancelStops`, `CloseStops`, `ZeroReturns`, the Broker's last four
properties, `CallsEnd` and `ToolsEnd` stay with TLC), and `ContainersAgree`, `InputsRead` and
`ErrorLaws` of the run `sequential`. The first of these is about several containers, whose
operations walk links and sift heaps in loops; the other two are about `Iterators`, `Wrappers`,
`Errors`, `StreamTools` and `CommandLine`, which use recursive operators, whose values for every
input the prover cannot reach. The inductive invariants of `DequeProofs`,
`BrokerProofs`, of the streams in `StreamingProofs` and of the services in `SharedProofs` were
checked with TLC on instances like those of their runs before they were proved.

## 5. Abstractions

* Burst credit is counted exactly in units of `1/CreditUnit`; the rounding of float64 is not
  modelled.
* Items are distinct. Zero values and the text of errors are not modelled; an error is its
  sentinel.
* `Len`, `Num`, `IsDone` and `Running` read one field and are not actions.
* `sync.Once` initialisation of the conditions is done in `Init`.
* In the Deque, the search of `neighbor` for a removed element's place goes by sequence
  number over the live elements; `LinksSorted` is what makes that the same as the search
  along the links.
* All calls of Start and Worker on one Service get one context.
* In a run of several components, a behaviour is of one of them. What composes components
  does so by the abstraction of the part used: the Orchestrator reads the flags of `Service`
  and a sequence for the Queue, and the Broker an abstract queue.
* `iter.Pull`, goroutine start and channel operations of Go are one step each.
* Values of containers are numbers; encodings (JSON, text, binary) are left out.
* The texts and times of errors are left out, and a context has no deadline but an end that
  may come at any step, or at a tick of the clock where one is modelled.
* The words of a command line are strings from a small set, and a flag's name the sequence
  of the parts it is built from, so that a prefix and `no-` show.

## 6. Plan

1. `QueueLimits`, `FIFO`, `Queue`, with proofs. *Done.*
2. `DoubleEnded`, `Deque`, `WaitGroup`, `Service`, with proofs. *Done.*
3. `Broker` with proofs, `Orchestrator`, `ServiceKinds`. *Done, proved.*
4. `SharedCalls`, `OnceValue`, `ShardedMap`, `Commands`, `WorkerPool`, `Streams`, `Channels`.
   *Done, proved.*
5. The containers, `Iterators`, `StreamTools`, `Wrappers`, `Errors`, `CommandLine`. *Done,
   model-checked.*
6. The refinement of `DoubleEnded` by `Deque`. *Done, proved.*
7. Proofs for what callers and services share: `CallersAgree`, `AnswersAreOfRuns` and
   `ServicesReport`; for the pools, streams and channels: `PoolsAccount` and `ItemsDelivered`,
   by what each reader and worker holds. *Done.* Every safety property of a concurrent
   component that a run checks is now a theorem.
8. Runs of their own for the divergences that a reader of the comments would meet first.

## 7. Not modelled

* `strut` and `mdwn`: their promise is the text they build, and nothing else of them can go
  wrong.
* `opt`, `fn`, `assert`, `ensure`, `testt`: functions applied in order, without state.
* The mutex and `sync.Map` maps, the atomics, the locked values and the sets of `adt`, the
  slices, maps and numbers of `stw`: each method is one critical section or one call of the
  library, and there is no second step to interleave with. Pool keeps its state in
  `sync.Pool`.
* `WithRMutex` and `WithRMutex2` of `irt` call `next` of `iter.Pull` under a shared lock; what
  that does is undefined by the library, and `Channels` has the exclusive forms.
* JSON and the other encodings, help output, messages, and `srv/context.go` apart from what the
  services use of it.
