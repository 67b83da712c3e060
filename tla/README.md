# A TLA+ model of wjsm

wjsm compiles JavaScript and TypeScript ahead of time to native code and runs it
beside a host written in Rust. This directory holds TLA+ modules that model its
concurrent core, TLC configurations that check them on small instances, and
proofs about them that TLAPS checks. Paths below are relative to the
repository; `gc/` stands for `crates/wjsm-gc/src/`, `host/` for
`crates/wjsm-host-native/src/`.

1. The system's parts
2. The modules and the code they model
3. The runs: what each checks and shows
4. Bounds and fairness
5. Proofs
6. Where code and documents disagree
7. What is not modelled, and the plan

## 1. The system's parts

A program goes parser → semantic lowering → IR → optimizer → Cranelift; the
machine code calls the host (`wjsm-host-native`) through the ABI of
`wjsm-native-abi` and keeps its objects in the managed heap of `wjsm-gc`. The
front end, the optimizer and the code generator are pure transformations. The
state machines are the garbage collector, in which one agent's thread races with
GC worker threads, and the host's event machinery (promises, timers, workers,
Atomics, module loading).

| part | state | operations | who else touches it | what is hard | what makes it correct |
|---|---|---|---|---|---|
| GC worker pool (`gc/worker/`) | flags, inflight, packet slab, injector and deques, parking condvar | `submit`, `wait_for_idle`, `shutdown`, worker loop | the collector submits and waits | lost wakeups, a packet between two queues, shutdown racing submit | every accepted packet is handled once; nobody sleeps for ever; inflight = 0 means idle |
| Collector cycle (`gc/zgc/runtime.rs`) | phase, pending and bridge handles, `OldMarkState`, remembered set, sweep and relocation lists | `safepoint_action`, `at_safepoint`, `collect_full`, packets of the pool | the agent polls it; workers run its packets; barriers feed it | snapshot marking against stores, young cycles inside an old mark, promotion, errors half-way | no reachable object dies; a phase begins when the one before is over; collections end |
| Barriers (`gc/zgc/barrier.rs`) | ring of records, epoch flags, relocator | `record`, `drain_records`, `flip_*`, load and store barriers | mutator produces, safepoint and assist consume | a full ring in the middle of a store, records routed to the wrong generation | no edge the marker needs is dropped |
| Object access (`gc/heap_access.rs`) | object words, headers | publish, read, `store_reference`, grow, promote, relocate, retire | mutator, markers, relocating workers | an address used after the object moved | stores survive; a resolved address is an object |
| Concurrent relocation (`gc/zgc/concurrent_relocate.rs`) | descriptors, claim and done flags, copies | prepare, claim, copy, publish, mutator assist | worker and mutator race to copy | store between the copy of a word and the publication | no lost store, no half-copied object, nobody waits for ever |
| Handle table (`gc/heap/handle.rs`) | entry words (state, generation, address) | allocate, publish, resolve, promote, relocate, retire, reclaim | all | reuse of a handle that somebody still holds | an entry goes round its states in order |
| Epoch quarantine (`gc/heap/epoch.rs`) | current epoch, participants, two quarantine lists | `enter`, `exit`, retire, `safe_epoch`, take | readers, retirers, the reclaiming pass | load and store of the epoch are two accesses, as are entry, stamp and push | nothing is reused while it is held; nothing lost or freed twice |
| Page allocator (`gc/heap/allocator.rs`, `object_map.rs`) | free ranges, NLABs, reserves, bitmaps | allocate, reserve, forget, reclaim | mutator, collector | page freed while a NLAB allocates from it | ranges are disjoint; no object in a free page |
| Director (`gc/zgc/director.rs`) | rates, two active flags | observe, evaluate, complete | safepoint | a cycle that fails leaves its flag up | a collection that is needed starts |
| Host GC integration (`host/gc.rs`, `host_table_reclaim.rs`, `slot_table.rs`) | root sources, host edges, host tables | publish roots, reclaim tables | collector | a table slot reused while a value names it | live host values keep their slots |
| Weak references (`host/dispatch/weak.rs`) | WeakRefs, registries, ephemerons | deref, register, cleanup | collector, event loop | finalizer against resurrection | a callback once, after death |
| Promises, event loop (`host/dispatch/promise.rs`, `timer.rs`) | promise states, reaction lists, ticks, microtasks, immediates, timers | settle, drain, poll | every asynchronous API | order between the queues, re-entrance, rejection reports | a promise settles once; reactions once and in order |
| Async generators (`host/dispatch/async_generator.rs`) | status, request queue, active request | next/throw/return, yield, complete | promises | requests during a run | requests settle in order, one result each |
| Async hooks (`host/dispatch/node_async_hooks.rs`) | context stack, hook events | enter, restore, emit | event loop | nesting on errors | before/after pair up |
| Atomics waiters (`host/dispatch/atomics.rs`, `node_worker_threads.rs`) | registry of waiters, each with its own lock and condvar, timed-out list | wait, notify, waitAsync, timeout | all agents' threads | value checked before the waiter is registered; two locks in two orders | no missed notification, no deadlock |
| Worker threads (`host/dispatch/node_worker_threads.rs`) | channels, ports, lifecycle callbacks | post, terminate, poll | two event loops | terminate against messages and exit | messages in order, one exit event |
| Module loading (`host/dispatch/modules.rs`) | CJS and ESM caches, statuses | require, import, error | event loop | cycles, an error in a cycle, a deleted cache entry | evaluated once; an error is not cached as success |
| Streams (`host/dispatch/streams/`) | queues, readers and their pending reads, writers, one pipe per source | read, enqueue, write, close, error, cancel, abort, pipeTo | promises, the program's callbacks | several pumps under way, a closing queue, readers that have released their lock | chunks in order, once each; no read forgotten; a pipe reports what it did |
| Fetch (`host/dispatch/fetch`) | requests, responses, bodies | start, poll, read a body | promises, streams | – | data conversion and I/O |
| Inspector (`host/inspector/`) | sessions, pause state | connect, pause, resume | a server thread | resume against disconnect | the guest resumes |
| Snapshot, native executables, artifact formats | files | write, read | – | corrupt input | round trip |
| Built-ins, Intl data, Node I/O, CLI, benchmarks, test262 runner | – | sequential | – | – | conformance tests |

How the collector's parts meet: the agent's thread allocates and stores through
object access, whose store barrier pushes records into the ring; at a safepoint
the same thread polls the cycle, which drains the ring, submits packets to the
pool and changes phase; workers run the packets (mark, sweep a page, copy an
object); retired handles and addresses pass through the epoch quarantine before
they are given out again.

## 2. The modules and the code they model

| module | models | lines of it |
|---|---|---|
| `WorkerPool` | `gc/worker/{mod,packet,queue}.rs` | one action per atomic access, lock region or queue operation |
| `WorkerPoolProofs` | – | inductive invariant and four theorems |
| `HeapContract` | – | the promise of the collector to the program |
| `GenerationalZgc` | `gc/zgc/{runtime,barrier}.rs`, parts of `heap_access.rs`, `heap/object_map.rs` | the cycle, its packets, the mutator |
| `GenerationalZgcProofs` | – | the invariants of phases, marking and the remembered set; six theorems, and one of the contract |
| `MCGenerationalZgc` | – | initial heaps and symmetry for TLC |
| `EpochQuarantine` (`MC…`) | `gc/heap/epoch.rs`, retire and reclaim of `heap/handle.rs`, the two passes of `heap_access.rs` | one action per atomic access |
| `EpochQuarantineProofs` | – | inductive invariant and three theorems |
| `ConcurrentRelocation` | `gc/zgc/concurrent_relocate.rs`, the store, growth and relocation paths of `heap_access.rs` | one object, word by word |
| `ConcurrentRelocationProofs` | – | inductive invariant and five theorems |
| `WaiterList` | – | the promise of wait and notify: a queue, served in order |
| `AtomicsWaiters` | `host/dispatch/atomics.rs`, the waiter table of `node_worker_threads.rs`, expiry in `host/lib.rs` | one action per critical section |
| `WorkerThreads` | the rest of `node_worker_threads.rs`, `drain_event_loop` and `poll_external_events` as far as workers go | the main agent and its workers |
| `AgentCluster` | `poll_external_events` | `WorkerThreads` and `AtomicsWaiters` together |
| `AgentClusterProofs` | – | the waiters' invariant and three theorems, the agents' own invariant and four theorems of the cluster |
| `Promises` | `host/dispatch/promise.rs`, `promise/combinator.rs` | operators on a promise table |
| `EventLoop` | `promise.rs`, `timer.rs`, nested drains of `modules.rs` | the drains, the queues, the program's calls |
| `ReactionQueue` | – | the promise of a promise to its reactions |
| `AsyncGenerator` | `host/dispatch/async_generator.rs` | one generator in the event loop |
| `AsyncGeneratorProofs` | – | the invariant of loop, promise table and generator; six theorems |
| `CombinatorProofs` | – | the invariant of combinators and of the reaction queues; two theorems |
| `Streams` (`MC…`) | `host/dispatch/streams/{mod,readable,writable}.rs` | streams, a pipe and a transform on the promise table |
| `StreamsProofs` | – | inductive invariant and four theorems |

They divide the collector by grain: `GenerationalZgc` sees a packet as a member
of a set, an address as a counter that a move increments, a copy as one step and
the quarantine as the end of the cycle. `WorkerPool`, `ConcurrentRelocation` and
`EpochQuarantine` open these four boxes. `Promises` is shared by the two models of
an agent's microtasks, `EventLoop` and `Streams`. `PROJECT.json` maps every
definition to its lines.

**WorkerPool.** Threads are workers, clients and the closer. `submit` is
`SubmitCheck`, `SubmitAcquire`, `SubmitRecheck`, `SubmitCount`, `SubmitPush`,
`SubmitAnnounce`; a worker's loop is `Pop*`/`Steal*`, `Take`, `Handle`,
`Release`, `CountDown`, `Report` and the parking steps. The condvar releases the
mutex and sleeps in one step and a notified thread has to take the mutex again.
`CONSTANT Overlap` says whether the closer may run beside clients: the collector
never does that, the type `&self` permits it.

**GenerationalZgc.** Heap: `entry`, `age`, `addr`, one reference word per object
(`field`, a slot or the prototype), the program's `local` roots. `RuntimeState`:
`phase`, `generation`, `pending`/`bridges` of queue `main`, `candidates`
(`retired_handles`), `selected` (`relocation_handles`). `OldMarkState`:
`oldActive` and the queue `old`. The mark bitmaps hold handle–address pairs, so a
move loses a mark that is not transferred. Mutator operations of several accesses
are several steps (`mut.pc`): a store computes its records (`StoreBarrier`),
pushes them (`PushRecord`, with the assist when the ring is full) and writes
(`Store`); a growth publishes the new address (`GrowPublish`) and then repairs
the marks (`GrowFinish`). Workers: `TakePacket`, `TakeDrain`, `Pop`, `TryMark`,
`Scan`, `ProcessPage`, `Relocate`. A safepoint is one poll, `safepoint_action`
and `at_safepoint` together (`poll_gc` in `host/lib.rs` calls them so), and a failing submit
is the error path it is in the code: the phase has changed, the rest is lost.

**EpochQuarantine.** A reader's `enter` is `EnterRead` and `EnterStore`; a
retirement is entry, stamp, push (`RetireHandle` or `Relocate`, `LoadEpoch`,
`PushHandle`, `PushAllocation`); a pass is `BeginReclaim`, `ReadLimit`,
`LockParticipants`, one `ScanParticipant` per reader, `Take`, and the return of
each item. `Markers` are the collector's workers: they resolve handles and
register nowhere.

**ConcurrentRelocation.** The thread that claims the descriptor copies word by
word; the other waits for `done`. A mutator's reference store resolves the
owner, computes the slot, mirrors into the destination when a descriptor is
undone and looks at the entry again at the end (`store_reference`).

**HeapContract.** Objects, references, roots; `Collect` may remove unreachable
objects only. `GenerationalZgc` implements it with `live <- {h : Live(h)}`
(property `ImplementsHeap`).

**AtomicsWaiters.** A session is one registration in `waiters[key]`; its
`WaiterStatus` has a lock of its own. A wait is `Compare`, `Register`, `Block`,
then `Wake`, or `Expire` and `Unlist`; a notify is `NotifyBegin`, which drains the
list under its lock, one `NotifyEntry` per entry, and `NotifyEnd`; a waitAsync
leaves a thread behind (`TimerFires`, `TimerPushes`, `TimerRemoves`) whose expired
handles `PollTimeouts` settles. A lock is state only where it is held across
steps. `Compare` and `Register` stay apart, as in the code. `WaiterList` keeps who
waits and who has waited longer than whom; `Queue` maps it to the waiters that are
listed or in a notifier's hands, in the order of the list (`Waiting`, `Precedes`).

**WorkerThreads, AgentCluster.** `mode` is where each thread is: in its script, in
a callback, in its loop (`LoopEnds`, `Sleep`, `Poll`, `PollEnds`), gone. `commands`
and `events` are the two channels, `control`, `terminated`, `active`, `referenced`
and `listening` the fields of `WorkerControl` and `WorkerCallbacks`. JavaScript is
any of the calls an agent may make. `AgentCluster` lets an agent's thread be in
Atomics.wait or notify instead, and settles expired waits in the round of polling
that finds no worker pending.

**Promises, EventLoop.** `Promises` has the table, the reaction lists, the report
list and the microtask queue of `NativeAgentState` as one record (the list of rejections to report
is a set: one is enough to end the program, and nothing depends on their order), and what `settle`,
`resolve_into`, `then`, `schedule_reaction` and the jobs do to it as operators: a
callback does several of them in a row. A call of all, allSettled, any or race takes
its elements in order (`Combine`, `Race`); the reaction each leaves runs
`SettleElement`. `EventLoop` keeps the Rust stack: a frame
is a drain or a callback, the outermost drain is `drain_event_loop`'s, inner ones
are those of module loading and `node:vm`. JavaScript is the calls of a workload,
one step each. Values are not modelled, only whether a result is a value, an
exception, a thenable or a promise.

**AsyncGenerator.** `status`, the request queue, the active request, the resume
promise and the completion a return leaves; `Ask` is `enqueue` with
`process_queue`, `ResumeBody` the body's microtask, `Await`, `Yield` and `Complete`
what the body does.

**Streams.** `state` is one record with the promise table: tasks of the streams
are microtasks, and one task does many things in a row. `Call` is one call of the
program, `RunPull`, `RunPump`, `RunWrite`, `RunClose` the tasks of
`streams/mod.rs`, `PullReturns` and `SinkReturns` the program's callbacks, which may
call into the same streams before they return, `RunReaction` the streams' own
reactions. `sent`, `taken`, `dropped`, `pumped` and `written` are history.

## 3. The runs

| run | instance | properties | shows |
|---|---|---|---|
| `pool_owned` | 2 workers, 1 client, 2 packets, 2 slots, exclusive shutdown | `TypeOK` `QueuedSlotsAreOwned` `InflightCounts` `NoLostWakeup` `IdleMeansHandled` `AcceptedIsHandled` `WaitersReturn` | the pool, as the collector uses it, neither loses nor repeats a packet nor a wakeup |
| `zgc_young` | 3 objects, 2 locals, young cycles, ring of 1 | `EdgesRemembered` `ImplementsHeap` | young collections with racing stores, the assist, the remembered set |
| `zgc_mixed` | 2 objects that may move once; young, old and full | `MarkComplete` `PhasesDoNotOverlap` `ImplementsHeap` | young cycles inside old marks, promotion, relocation, full collections |
| `zgc_live` | 2 objects, one local, fair | `FullReturns` `OldMarkEnds` | collections end |
| `epoch_readers` | 2 handles, 3 addresses, 2 readers, 1 worker, 1 retirer, 3 epochs | `NoReuseWhileHeld` `OnePlace` | the quarantine protects announced readers |
| `relocation_copy` | 2 workers, 2 words, 3 addresses, 2 stores | `StoresSurvive` `NoPartialObject` `NobodySleeps` `QuarantinedIsAbandoned` `RelocationEnds` | copies and stores race without loss in `store_reference`'s own window, and the copy ends |
| `waiters_queue` | 2 agents that wait, waitAsync and notify, 2 sessions | `ListedIsTended` `ServesInOrder` `NotifiedReturns` | the two levels of locks implement a queue, and nobody is left behind |
| `agents` | the main agent, 1 worker, 1 message per channel, 1 session | `HearsThemOut` `TerminatedEnds` `MainEnds` `ExpiryIsPolled` | loops, channels and exits of two agents |
| `event_loop` | 5 promises, 2 timers, 5 kinds of programs of 5 calls | `HeardIsNotReported` `NothingLeftBehind` `BodyIsAtOnePlace` `CombinatorsAnswer` `ReactionsRunInOrder` `ReportsAreFinal` `RequestsInOrder` `LoopServesAll` | the order between the queues, reports, generators, combinators, the loop's end |
| `streams` | 11 promises, 2 readers, 5 kinds of programs of 5 calls | `ChunksInOrder` `WaitersAreServed` `PipeIsFaithful` `PipeEnds` | readers, pipes and transforms |
| `zgc_satb`, `waiters_answer` | – | one each, violated | section 6 |

What the less obvious properties say:

- `QueuedSlotsAreOwned`: a slot in a queue has its packet in it, is not on the
  free list and is queued once. `NoLostWakeup`: whoever sleeps on the condvar
  while its condition already holds will still be notified.
- `MarkComplete`: when the sweep begins, everything the program can *now* reach
  in the collected generation is marked, although it stored and loaded while the
  workers marked. `EdgesRemembered`: every old-to-young edge the program can follow
  is in the remembered set or on its way there in the ring.
- `NobodySleeps`: `wait_until_done` never has to block. It has to be so: nothing
  in `mark_done` prevents its `notify_all` from falling between the waiter's
  check and its wait.
- `ServesInOrder`: every step of the waiters' code is a step of `WaiterList` or
  leaves it alone; a session is notified or times out, once, and a notification
  takes the one that has waited longest. `ListedIsTended` is why nobody is
  forgotten: whoever waits is on the list, or in what a notifier still has in its
  hands, and whatever is on the list has a thread that will take it off.
- `HearsThemOut`: the main agent's loop does not end while a referenced worker has
  events to deliver. `MainEnds`: a loop without work does end.
- `ReactionsRunInOrder`: the promise table implements `ReactionQueue`, although
  `settle_promise` and `schedule_reaction` feed the microtask queue from two sides.
- `HeardIsNotReported`: the report list is exactly the rejected promises nobody
  listens to, at every moment.
- `CombinatorsAnswer`: the target of all, allSettled and any is pending exactly
  while it counts elements whose reactions are still to run, and settles as its
  elements' promises call for, whatever else their drains do in between.
- `WaitersAreServed`: no read waits beside a chunk it could have, released readers
  included. `PipeIsFaithful`: one chunk in flight, however many pumps are queued,
  and success only when every chunk has been written.
- `OnePlace`: a handle or address is free, in use, or at one point of its way
  through the quarantine; the `expect` in `reclaim_quarantine` cannot fail.

`PROJECT.json` gives for each property a mutation of the code's model (a dropped
recheck, a forgotten record, an unstamped entry, ...) under which TLC finds it
violated; the mutated definitions stand before the originals with a `Mutant:`
comment.

## 4. Bounds and fairness

**WorkerPool**: `submitted` makes each packet submitted once; two packets on two
workers and two slots reach every queue operation (own, injector, steal) and
both parking orders.

**GenerationalZgc**: `MaxOps` bounds the program's operations (3 for the young
run, 2 for the mixed one: the shortest known losses take one to three), `MaxMoves` how
often an object moves (1), `MaxFlushes` how many drain packets wait for a worker,
`RingCapacity` 1 makes a store with two records assist, `OldBudget` 1 makes every
old mark take several packets and `PacketCapacity` 8 is not exhausted in these
runs. One worker, as in production (`worker_count` in `host/gc.rs` is 1). The
initial heaps are the chains of the objects over both generations, and the empty
heap: a chain is what it takes for an object to hide behind another.
`Excluded` names behaviours a run leaves out because section 6 shows them lose
objects (`youngPaths`: an old mark that loses a path through a young object;
`arrayGrowth`, `objectGrowth`: growth while a mark runs): the passing runs show
that nothing *else* does. `zgc_young` excludes nothing; its objects do not move.

**EpochQuarantine**: `MaxEpoch` 3 allows two passes, enough for one entry to
outlive a pass that respects a reader and go in the next; a reader can be inside
`enter` during a whole pass. The proofs of section 5 remove the bounds.

**ConcurrentRelocation**: addresses are given out in order and not reused (three
allow two relocations or a growth beside one); two words suffice for a store to
fall behind, at and before the copying thread's position.

**AtomicsWaiters, agents.** `MaxSessions` bounds registrations; two are what order
and a stale entry need, and both notifier and waiter may be the same agent.
`Limits` has 0, 1 and more than there are. `SyncAgents`, `AsyncAgents` and
`TimerAgents` say which agent makes which calls: in `agents` the worker blocks in
wait and the main agent calls waitAsync, as a program with a browser's habits
does. `MaxMessages` 1 makes a channel hold one message besides the lifecycle
events.

**Event loop and streams.** A program is a set of calls and makes `MaxCalls` of
them (`Workloads`, `Programs`): what different APIs do to each other is explored
within a set, and the sets share the calls that link them. A combinator has up to
two elements, which may be the same promise. Five promises hold a
`then` chain with a `finally` in the middle, eleven a pipe with its internal
promises and two readers. `Resources` are heap handles of timer objects; there are
two and the collector may reuse one. When the promise table is full the program makes
no further call, and pumps and sinks wait (`Room`): it never is in the run of the
streams, and the theorems hold for a table of any size. `MaxLateness` bounds how late a due timer is
remembered to be, which only matters relative to another timer.

**Fairness.** Threads that can run do run (weak fairness per worker and for the
mutator's open operation). The pool's injector is a FIFO and idle workers pop,
so a packet is taken whatever is queued behind it: strong fairness of taking an
old-mark packet (`TakeDrain(w, "old")`) and of `TakePacket`. A running program
polls: `SF(Safepoint)`, because between two polls it may be in an operation.
Nothing is assumed about the program's own operations. In `AtomicsWaiters` a thread
that waits for a lock which is released again and again gets it in the end
(`SF` of `Continue` and `TimerThread`; parking_lot's eventual fairness), and a sleep
ends. In `AgentCluster` a script or callback returns unless it waits (`SF` of
`RunHost`), loops turn and timers come due while the loop polls for other things.
An event loop goes on while it can (`WF` of `Next`) and sees time pass (`SF` of the
turn that advances the clock). In `Streams` microtasks run (`WF` of `LoopStep`) and
the program settles the promises its callbacks return (`WF` of `SettleSink`);
without the latter no pipe into a sink ends. `CHECK_DEADLOCK FALSE` throughout: a
pool that is shut down, a program out of operations and a loop that is over stop.

## 5. Proofs

Checked by TLAPS, for all values of the constants that satisfy the modules'
`ASSUME`s:

| theorem | statement |
|---|---|
| `WorkerPoolProofs!TypeCorrect` | `Spec => []TypeOK` |
| `WorkerPoolProofs!SlotsOwned` | `Spec => []QueuedSlotsAreOwned` |
| `WorkerPoolProofs!InflightExact` | `Spec => []InflightCounts` |
| `WorkerPoolProofs!WakeupSafe` | `Spec => []NoLostWakeup` |
| `EpochQuarantineProofs!TypeCorrect` | `Spec => []TypeOK` |
| `EpochQuarantineProofs!HeldIsProtected` | `Spec => []NoReuseWhileHeld` |
| `EpochQuarantineProofs!EachInOnePlace` | `Spec => []OnePlace` |
| `ConcurrentRelocationProofs!TypeCorrect` | `Spec => []TypeOK` |
| `ConcurrentRelocationProofs!StoresAreKept` | `Spec => []StoresSurvive` |
| `ConcurrentRelocationProofs!ObjectsAreWhole` | `Spec => []NoPartialObject` |
| `ConcurrentRelocationProofs!WaitersFindDone` | `Spec => []NobodySleeps` |
| `ConcurrentRelocationProofs!QuarantineIsLeft` | `Spec => []QuarantinedIsAbandoned` |
| `AgentClusterProofs!WaitersTypeCorrect` | `WaitersSpec => []WaitersTypeOK` |
| `AgentClusterProofs!WaitersAreTended` | `WaitersSpec => []ListedIsTended` |
| `AgentClusterProofs!WaitersServeInOrder` | `WaitersSpec => ServesInOrder`, a refinement |
| `AgentClusterProofs!ClusterTypeCorrect` | `Spec => []TypeOK` |
| `AgentClusterProofs!WorkersAreHeardOut` | `Spec => []HearsThemOut` |
| `AgentClusterProofs!ExitsAreAnnounced` | `Spec => [](ControlledUntilHeard /\ ExitIsAnnounced)` |
| `AgentClusterProofs!ClusterServesInOrder` | `Spec => []ListedIsTended /\ ServesInOrder` |
| `GenerationalZgcProofs!TypeCorrect` | `Spec => []TypeOK` |
| `GenerationalZgcProofs!PhasesInTurn` | `Spec => []PhasesDoNotOverlap` |
| `GenerationalZgcProofs!MarkersFindAll` | `Spec /\ Undisturbed => []MarkComplete`, for a `Restrained` program |
| `GenerationalZgcProofs!EdgesAreRemembered` | `Spec /\ Undisturbed => []EdgesRemembered`, likewise |
| `GenerationalZgcProofs!NothingReachableDies` | `Spec /\ Undisturbed => []ReachableIsLive`, likewise |
| `GenerationalZgcProofs!CollectorImplementsHeap` | `Spec /\ Undisturbed => ImplementsHeap`, likewise: a refinement |
| `GenerationalZgcProofs!ContractSafe` | `HC!Spec => []HC!NoDanglingReference`, of the contract itself |
| `AsyncGeneratorProofs!TypeCorrect` | `Spec => []TypeOK` |
| `AsyncGeneratorProofs!RejectionsAreExact` | `Spec => []HeardIsNotReported` |
| `AsyncGeneratorProofs!EndsWithNothingLeft` | `Spec => []NothingLeftBehind` |
| `AsyncGeneratorProofs!BodyHasOnePlace` | `Spec => []BodyIsAtOnePlace` |
| `AsyncGeneratorProofs!ReportsComeLast` | `Spec => ReportsAreFinal`, an action property |
| `AsyncGeneratorProofs!RequestsAreInOrder` | `Spec => RequestsInOrder`, an action property |
| `CombinatorProofs!CombinatorsAreExact` | `Spec => []CombinatorsAnswer` |
| `CombinatorProofs!QueuesAreServed` | `Spec => ReactionsRunInOrder`, a refinement |
| `StreamsProofs!TypeCorrect` | `StreamsSpec => []TypeOK` |
| `StreamsProofs!PipeStaysFaithful` | `StreamsSpec => []PipeIsFaithful` |
| `StreamsProofs!ChunksStayInOrder` | `StreamsSpec => []ChunksInOrder` |
| `StreamsProofs!WaitersStayServed` | `StreamsSpec => []WaitersAreServed` |

*The pool.* The properties are not inductive. A packet is followed through its
stations: which thread owns which slot at which label, that slots owned by
threads, queued and free are disjoint, that `inflight` is the number of packets
between `SubmitCount` and `CountDown`, and who holds the mutex where. The wakeup
argument needs that both notifiers take the parking lock after they changed what
the sleepers look at.

*The quarantine.* `NoReuseWhileHeld` needs the whole life of an item. In use it is
nowhere else and it moves from one place to the next (`HandlesOnce`,
`AddressesOnce`, `AddressesPlaced`, `HandlesPlaced`, `FreeHandlesOnce`), so no
reader finds it any more once it is retired; its stamp was current after it was
retired, so it is not older than the epoch of anybody holding it (`Stamped`);
nobody retires beside a pass (`PassAlone`), hence the list does not grow between
scan and take, and every holder of a listed item is either still to be scanned
or bounds the limit (`Scanned`); so what is taken is not held (`BatchUnheld`).
`EachInOnePlace` follows from the first group.

*The relocation.* For any number of workers, words, addresses and stores. What a
thread may do next is a matter of its label and of the access it is in
(`WorkersControlled`, `MutatorControlled`); whoever is between lock and unlock
holds the lock (`Locked`), and the entry moves exactly while that thread copies or
grows (`Moving`). A thread's descriptor is the installed one or done (`Arcs`), a
descriptor that is claimed and not done has somebody copying it, and its source is
where the entry points until the copy is published (`Described`). An address is
complete up to the word its copier has reached (`CopiesWhole`), which gives
`NoPartialObject`. The mutator's owner and slot are the entry's address or its last
one (`Resolved`): no second descriptor is installed in the middle of an access. So
a word is current in the object, in what has been copied of it and in what the
copier has just loaded, or its store is still to look at the owner again and to
wait for the copy (`Busy`); that is `StoresKept`, and nothing is busy when the
mutator's access is over. `WaitersFindDone` falls out of `Arcs`: who waits has
seen the claim under the lock, and the claimer gave the lock back only when done.
The assumption is that words are counted from 1 and that the marker for "no value"
is none.

*The waiters.* For any number of agents and sessions; the one assumption is that
there are finitely many agents, so that those about to register can be counted and
find a session each (`SessionsSuffice`). The invariant says which lock protects what: whoever is inside a
notification has the table (`TableLocked`), whoever decides one session's fate
has its status (`StatusLocked`), an agent blocks in its own session only
(`BlockedInOwn`), and a session is registered once (`RegisteredOnce`). A notifier's
hands hold a suffix of the list it drained, in its order, behind the entries it
keeps (`ScanInOrder`), and what is listed and not settled waits (`ListedStatus`).
The refinement turns on one point: entries a notifier keeps have timed out already,
so everybody who waits is still in the batch, its head precedes all of them, and
what is registered meanwhile comes after them: the head is the longest waiter.
`ListedIsTended` follows from where each agent and timer thread is.

*The agents.* `HearsThemOut` needs that the exit is the last event of a worker
(`ExitIsLast`), that a worker that is gone has put it in the channel or the main
agent has read it (`ExitIsAnnounced`), and that `active` and `referenced` stay as
they are until it has been read (`ControlledUntilHeard`). A step of the cluster is a
step of the threads, of the waiters, or a round of polling that is both, so the
waiters' theorems carry over step by step.

*The collector's phases.* Types and phases hold of every program, errors
included. A packet belongs to the phase it was submitted in (`PacketsInPhase`), a
worker's hand holds an object only inside a marking packet and the mutator's only
inside an assist (`HandsInPackets`), objects move in the relocation phase only
(`MovingWhileRelocating`), and outside a mark its queue has no packet, no grey object
and no marker (`MarksInTurn`). `PacketsFit` and `BoundsKept` bound the slab, the
ages and the addresses.

*The collector's marking.* The invariant `CInv` is these phases, `MarkInv` and
`EdgesInv`. Tricolour arguments usually say which edges may lead from black to
white. Here records in the ring, records still to be pushed, root packets,
queues and hands all stand for grey objects, and one of them may be all that
keeps a whole chain; so the invariant speaks of chains at once. A set `S` of white objects is
closed (`ClosedMain`) if it has all white objects the markers hold or will be given
and, with an object, the white objects its word names. `MainCovered` says that the
white objects the program reaches are in *every* closed set; when nothing is grey
the empty set is closed, and that is `MarkComplete`. A step keeps it if every set
closed after the step is closed before it, up to what the program then reaches;
most steps do so for the simple reason that nothing grey is lost. A store is the
one that could cut a path, and `StoreShaded` has what it overwrites among the
records before it writes.

The old mark lasts through several young cycles, which retire, promote and reuse
young objects around it; its reachability argument must not depend on which young
objects there are. So `OldCovered` asks for a set `B` of objects it has seen
(`Seen`), which grows as it scans: young objects it meets are in `B` too, because
it scans each once through its bridges. The program's roots are in
`B` or will be found, the words of what is in `B` too, and the old objects in `B` are
marked or grey. When a young cycle frees a handle, or allocates it again, `B` loses it or takes it up.
`HandsAreCurrent` and `FlagsRaised` tie hands and barrier flags to the phase,
`CyclesInTurn` says which cycles may be beside which, and `SweptOnce`
that a page is swept by one worker: a second sweep of it would act on the ages and
marks of the first. `SweepsAreSafe` makes the candidates of a sweep white, so that
what a cycle retires is out of reach.

A young mark does not trace old objects; it starts from the remembered ones.
`EdgesInv` says that every old object the program reaches and that names a young one
is an owner, or has its slot in the set, or has a record in the ring; and during
a store the same of the edge about to be made, among the records still to be
pushed. It speaks of reachable objects only, and has to (section 6, stale slots): the
heap out of reach is not kept closed between two collections.

The hypotheses are what section 6 calls for. `Restrained` leaves out growth while a mark
runs, and following or cutting paths through young objects during an old mark
(`zgc_satb`). `Undisturbed` leaves out behaviours in which the collector reports an
error (a cycle that fails half-way starts no sweep that could be trusted) and those in
which an *old* object moves (`OldStay`): its remembered slots go out of date. Young
objects move, grow outside of marks, are promoted and reused freely; workers, ring,
slab, budgets and pages are arbitrary.

*The refinement.* `CollectorImplementsHeap` follows from `CInv` step by step: a
poll that retires or reclaims is `Collect`, since what it takes is out of reach; load,
drop, allocation and store are the contract's; every other step, promotion and
relocation among them, leaves the contract's variables alone.

*The event loop.* For any set of programs, number of promises, timers and calls; the
assumptions are that `Value`, `Throw` and `Thenable` are no promises and differ. A step
changes the promise table by several operators in a row, so the lemmas say of each
what it can have made of a table, and steps compose them: `Evolves(t, u, X)` says that
`u` is sound, that only promises in `X` were settled, that only they and new ones
are aimed at by what was not aimed at before, and that the generator's body rests where
it rested. `Sound` and `Exact` are why `HeardIsNotReported` holds: who has a reaction,
waiting or queued, has been marked handled, whoever was marked is off the list, and every
settlement and subscription keeps the list exact. `ReportsAreFinal` and the rest of
`NothingLeftBehind` are facts about the stack (`Stands`, `LoopStands`): the drain that
reports is at the bottom and nowhere else, and the loop decides when that one has
emptied what it drains.

The generator needs that nobody else settles its promises, those of open requests and
the one a suspended yield waits for. `OwnIsOwn` says so: no reaction, job or combinator
of the table aims at one of them, no callback on the stack does, the program has no
resolving function for it, and the same holds of every promise that does not exist yet.
Steps of the loop settle only what somebody could settle before (`Moves`); the
generator's own steps give up what they settle (`OwnStays`). That is why open requests
are pending until it is their turn (`RequestsInOrder`), and why the reaction of a
suspended body is still where the yield put it when the next request comes
(`BodyStands`), without which `BodyIsAtOnePlace` is not inductive. What `AttachAll` and
`AnswerQueue` do to lists of any length is proved by induction over the length, in
the same way as for the streams below.

*The combinators.* `CombinatorsAnswer` compares a target with the elements whose
reactions have run, and leaves out a reaction that is still in the microtask queue. So
the invariant has to know what the queue may hold. `QueuedOf`, the reactions of one
promise in the queue, is a recursive function over the queue, and what it makes of a
queue that grows or loses its head is proved by induction over the length. `CombInv` is
`Answers` and `Hidden`: nobody but its own elements aims at the target of a
combinator (`Hidden`), a queued reaction carries what its promise was settled with
(`Honest`), the elements of an unsettled combinator that wait or are queued are
exactly as many as `remaining` says, and a source without one decides nothing
(`Tended`). Every step of the loop is one of four as far as this goes (`Steps`): the
table grows (`Growing`), a combinator is called (`Combining`), a job leaves the
queue for its callback (`Taking`), or it settles what passes through without one
(`Settling`).

`QueuesAreServed` maps a promise's waiting and queued reactions to one list. A
step adds reactions at its end (`Lengthens`), settling moves all that wait to
the queue in their order, and a reaction is taken from the head, of a settled promise
only.

*The streams.* For any set of programs, number of calls, readers and promises. A task
does many things in a row, each of which settles promises whose reactions become
tasks; so the lemmas say of every operator what it can have made of the tables, once
for the types, once for the pipe and once for readers and chunks, and a task composes
them. Settling many promises is a recursive function of how many have been settled,
and what any number of settlements leaves of a table (`After`) is proved by induction
over that number: the least number that is not in a set of numbers is a contradiction
(`Smallest`, `UpTo`), which needs no theorem with an operator as its parameter.

`PipeIsFaithful` says what a pipe reports; its invariant, `PipeInv`, says why nobody else
can report it. What tells the pipe that a write is done is one token, a reaction
that waits for the promise of the write or the job that this reaction has become
(`OneToken`), and at most one write of the pipe is queued beside it (`OneWrite`);
`Flight` ties both to what has been taken and not yet written. That is of no use
if somebody else could settle the promise of the write, or of the pipe: `Names` says
that no job, reaction, reader, writer, sink or callback on the stack aims at either,
nor at a promise that does not exist yet, which is what makes the next one fresh.
`PipeStands` says that a pipe that is not writing, and one that closes its destination, has
nothing in flight, which is what `Pump_Eager` in the mutants breaks. Most steps
move none of this: they settle promises anybody may settle (`Claimable`) and leave the
rest as it is (`Undisturbed`), and then `PipeInv` stands.

`Served` numbers the chunks of a stream (`StreamChunks`): what has been handed out,
followed by what is queued, counts upwards to `sent`, so no chunk is repeated, lost or
overtaken, whether a waiting read, the queue or the pipe takes it. A stream that is
closing and empty is closed unless the pipe took its last chunk (`StreamEnds`), a
read waits on a readable stream without chunks only (`ReaderWaits`), and whoever reads a
closed stream has been told (`ReaderHears`): `error_stream` and `close_if_drained`
go through all readers of the stream, released ones included.

*The contract.* The objects reachable before a step, with the allocated one,
confine the program after it: no reachable object is collected, in every
implementation of the contract.

Only model-checked: liveness (`IdleMeansHandled`, `AcceptedIsHandled`,
`WaitersReturn`, `FullReturns`, `OldMarkEnds`, `RelocationEnds`), which is out of
the prover's reach under fairness (likewise `NotifiedReturns`, `TerminatedEnds`,
`MainEnds`, `ExpiryIsPolled`, `LoopServesAll`, `PipeEnds`); and the collector's properties with old objects that
move (`zgc_mixed`, where each may move once) or after an error.

## 6. Where code and documents disagree

Two have a run in which TLC finds the violation; `PROJECT.json` quotes the lines.

- `zgc_satb`: a snapshot record about a *young* object is not routed to the old
  mark, so an old object behind it is lost to that mark.
- `waiters_answer`: notify settles the promises of the waitAsync calls it woke in
  the table of the agent that called notify, where their handles name nothing.

The rest was met while modelling; the models contain the behaviour, and the
properties say where they make an exception for it.

*Collector.* A `submit` that passed its second check of `accepting` before
`shutdown` began returns `Ok` for a packet nobody will handle (the collector never
overlaps the two; the pool's `Overlap` switches it on, and the proofs hold either
way). A young cycle drops a grey handle of the old mark when it has lost its
generation (`zgc/runtime.rs:565`). An array that grows during a mark is marked at
its new address without being queued (`heap_access.rs:1331`). A remembered slot is
the slot's address (`zgc/runtime.rs:497`), and nothing remembers the slots of an old
object again when it grows or is evacuated: once the source is reclaimed, the
next young mark prunes the entry (`zgc/runtime.rs:1048-1070`) and the old-to-young
edge is forgotten. In the model six operations on three objects lose one so, more than
the runs allow; the theorems assume that old objects stay where they are. A slot also
outlives its object: the set is only pruned when a young mark begins, so when a full
cycle has freed the object and its memory is used again, the next young mark takes
the word it finds there for a root (`zgc/runtime.rs:1052-1064`). The object so kept may be
out of reach, name an old one that an old mark has freed since, and be promoted with that
word; the next young mark prunes it from the owners, and when the freed
handle is allocated again an old object names a young one that nothing remembers.
Ten operations on four objects do it in the model. No program can follow that edge,
so `EdgesRemembered` speaks of the edges it can follow, and those are proved
remembered. GC workers resolve
handles without announcing an epoch, while a young cycle's pass runs
(`zgc/runtime.rs:560`, 1444). A slot address computed before the store barrier
names the source of a copy that may have completed since
(`heap_access.rs:1090`, 2198). `begin_mark` changes phase before it submits, so an
exhausted slab loses root packets (`zgc/runtime.rs:1124`);
`grow_object_capacity` republishes an object between a marker's resolve and its
`try_mark` (`heap_access.rs:624`); an old packet that finds its object's handle
unresolved ends the old cycle in an error (`heap_access.rs:2326`); a copy made by
an assisting mutator neither forgets nor quarantines its source
(`heap_access.rs:600`); plain header stores during a copy can be lost
(`heap_access.rs:854`); `finish_cycle` returns an error before it resets the
phase (`zgc/runtime.rs:1448`); a cycle that fails leaves `young_active` set
(`zgc/director.rs:284`); a handler that panics leaves `inflight` counted
(`worker/mod.rs:264`); the host ignores errors of polls (`host/lib.rs:6549`).

*Pages* (read, not modelled). A page goes back to the free set once it lists no
object, and growing an object away unlists it. So a page a thread still bumps in
can be freed: `at_safepoint` drops the native TLAB, not the NLAB, when a cycle
finishes without a snapshot (`host/gc.rs:545`), and neither when the workers finish
between `safepoint_action` and `at_safepoint` (`host/lib.rs:6930`). A page can also
be freed while addresses in it are in quarantine: when its TLAB is dropped
(`allocator.rs:682`), or when the first of its quarantined objects expires
(`allocator.rs:646`). `EpochQuarantine` has addresses without pages: it says when
one address is released, not that its page is kept until then. `prepare_relocation`
reserves for the sizes at selection and reads them again at copying
(`heap_access.rs:528`): an object that grew in between can exhaust the reserve.

*Agents.* notify's result counts only waitAsync promises
(`node_worker_threads.rs:298`). A store and a notify between `compare` and
`register` (`atomics.rs:482-496`) are missed by the wait. A wait that expires holds
its status and asks for the table, a notifier the other way round
(`node_worker_threads.rs:259`); `NotifiedReturns` names this circular wait. Expired
waits are popped by whichever agent polls first and settled in its own table; an
unexpired waitAsync does not keep the loop alive; a poll returns before popping
them while a worker is pending. A worker thread that cannot be spawned, or that
panics, leaves its callbacks active: the main loop never ends. terminate
interrupts neither a timer chain nor Atomics.wait.

*Event loop.* Resolving functions have no alreadyResolved flag; adopting a settled
promise settles in the same step; immediates that queue immediates starve timers;
`cancelled_timers` is keyed by a reusable heap handle and forgotten only with the
agent's state; a cancelled timer that is popped early moves the clock on
(`promise.rs:1052`); nested drains run macrotasks too. The user guide
(`docs/book/src/user/runtime/async-and-promises.md`) says that an unhandled
rejection only warns, the code exits with 2 (`promise.rs:1183`), and that timer
callbacks are microtasks. A combinator takes an element for
the promise whose heap handle its low 32 bits spell, number or not
(`promise/combinator.rs:207`; `promise_resolve_value` at `promise.rs:838` asks
`is_object` first); the model's elements are promises and plain values. A generator that calls its own `next` from its body is
taken to yield (`async_generator.rs:425`).

*Streams.* Two reads of an empty pull stream schedule one pull: the second read
waits for another one (the plan `docs/aegis/plans/2026-06-03-streams-standard.md:151`
has a pull per read). pull is never scheduled by a pump or at construction, so a
pipe from a pull-only source does not start. error and cancel do not wake an idle
pipe. A pipe into a destination that is closed already waits for ever, and its
internal close promise is a rejection nobody hears, which ends the program
(design `docs/aegis/specs/2026-06-03-streams-standard-design.md:764`). getReader on an
errored stream never settles `closed`. A stream whose closing queue the pump has
drained never becomes closed. releaseLock by a former reader takes the lock from
the present one, which goes on reading; a pipe never gives the lock back. Writes
of a sink are not serialised, a failed write does not error the stream, close does
not wait for writes; a failing flush or transform does not error the output (plan
line 305). cancel turns an errored stream into a closed one. A pull that throws
ends the event loop. `PipeEnds` excuses what these end.

## 7. What is not modelled, and the plan

Left out of the modelled components. *Collector*: host values, host edges and
ephemerons in marking; reference colours (`store_reference` decides from bitmaps
and flags); shapes, properties, elements, strings and bytes (one reference word
stands for all); the ring's indices; page ranges and NLABs; statistics and
telemetry; a panicking packet handler. `young_mark` following old objects through
`bridge_handles` is modelled; an old object whose remembered slot is out of date
keeps its young one if a young mark meets it that way. *Agents*: message contents, the ports of a MessageChannel,
workers of workers, the agents of test262, locations other than one. *Event loop*:
dynamic import, async contexts. *Streams*: BYOB requests, queuing
strategies, abort signals, the sweep of stream objects.

Not modelled as pure I/O, generated or sequential code: the front end, optimizer,
code generator, built-ins, Node I/O, Intl data, file formats, tools
(`PROJECT.json`, "components"). They are most of the repository's lines.

Order of work:

1. done: the collector (`WorkerPool`, `HeapContract`, `GenerationalZgc`,
   `EpochQuarantine`, `ConcurrentRelocation`) and the proofs above.
2. done: the agents (`WaiterList`, `AtomicsWaiters`, `WorkerThreads`, `AgentCluster`).
3. done: the event loop (`Promises`, `EventLoop`, `ReactionQueue`, `AsyncGenerator`)
   and the streams on top of it.
4. `PageAllocator`: free ranges, NLAB and native TLAB, dedicated pages, relocation
   reserves, reclaim; ranges disjoint, no object in a free page, up to the
   cases section 6 lists under *Pages*. Proof: disjointness.
5. `BarrierRing` and the director's flags: the ring implements a bounded FIFO for
   one producer and one consumer (refinement, provable); a failed cycle.
6. `ModuleLoading`: CJS cycles and errors, ESM caches.
7. `WeakReferences`: ephemerons and finalizers against the cycle.

Theorems still worth proving: the collector's with old objects that move, which
needs the remembered set to follow them; that an old mark's errors lose nothing
either; the ring's refinement and the allocator's disjointness once they are
modelled.
