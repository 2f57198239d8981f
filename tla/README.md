# ShipInfer in TLA+

ShipInfer is a multi-GPU inference server for camera fleets. Its own logic is
not numerics but coordination: queues shared by cameras, worker threads over
model instances, reassembly of frames from several stages, a barrier that groups
the frames of many cameras into instants, processes that share memory, camera
threads that come and go, and two planes (Python and C++) that read one plan.
These modules model that coordination. Paths below are relative to
`src/src/shipinfer/` (Python) or, with a leading `csrc/`, to `src/csrc/shipinfer/`
with the directory name shortened. `PROJECT.json` maps every definition to the
lines it stands for.

## 1. The system

| component | state | operations | what is hard | what makes it correct |
|---|---|---|---|---|
| request queues `scheduling/queues/` | priority lanes, each a rotation over per-camera FIFOs, or one deque; size; closed; loss counters | `put` (reject, block, drop oldest), `get_batch` (two waits, drain under a row budget), `close` | one condition for producers and worker, one `notify` per put; counters kept by hand in three places; close racing blocked producers | no lost wake-up, counters equal contents, bounded, order, round robin, a flood pays for itself, losses of a shutdown charged to nobody |
| model engine `engine/instance.py`, `engine/model.py`, `scheduling/dispatcher.py`, `scheduling/limits/` | flags and queue of each instance, batch in flight, execution slots, futures | start, load, serve, execute, die, stop with a join that may time out, dispatch with spill | flags without a common lock; a worker that outlives `stop`; a batch in no queue when its worker dies | each future resolved once and in the end, no backend torn down in use, slots and gauges balance |
| serving path `engine/model.py`, `engine/cache/`, `scheduling/policies/`, `scheduling/batching/`, `engine/statistics.py` | response cache, pins of sequences, batches with row spans, cumulative counts | admit, place, spill, batch, execute, scatter, store | requests of several rows, shared batches, a cache filled behind the caller's back | an answer is its request's own, cache books balance, each request counted once |
| frame reassembly `pipeline/reassembly/` | pending frames in order, index by camera, expected and delivered stages | open, expect, deliver, seal, sweep, drain, evict | five ways out of the buffer, publishing after the lock is dropped | bounded, indexes agree, one report per frame, quiet cameras keep their frames |
| pipeline runner `pipeline/runner.py`, `pipeline/graph/` | ingest queue, map of awaited futures, workers, sweeper, sink, staging buffers | `_work`, `_run_frame`, `_sweep`, `_emit`, `stop`; the graph's stages over one frame | workers, sweeper and `stop` emit the same frames and resolve the same futures; stages fail or hang; the state of a frame is copied under the worker | no future lost or forgotten, no frame published twice, completeness is honest, `stop` leaves nothing, records are their own row's |
| shared ring `runtime/memory/shared_ring.py` | a state byte and a payload per slot | create, open, claim, fill, publish, abandon, take, release, close | a byte's read and write are two instructions in two processes; birth in several stores; close under callers | one claimant, whole payloads, each message once, bounded overtaking, no false protocol errors |
| spill tier `engine/spill/` | two rings per pair of shards, pending requests, in-flight count, deferred and waiting replies, the wire format of a slot | enqueue, read results, expire, lose a peer, serve, defer, reply, stop; encode, decode | processes die between two steps; a full result ring; the order of registration, publish and count; a slot written over longer remains | every request settles, every slot comes back, load is exact, what is written is read |
| instant barrier and cross-camera elements `topology/barrier.py`, `topology/elements/mtmc.py`, `csrc/pipeline/mtmc/` | per group: live cameras, open instants, last captures; a budget of waiters; the identity space | submit and its wait, camera added or dropped, close all; associate, publish ids, evict | waiters of several groups share the workers; membership changes under open instants; clocks step back; clusters move tracks between identities | an instant is one moment, ends once, nobody sleeps through it, one worker always free; an identity is one object |
| ingest `ingest/`, `csrc/ingest/` | camera threads with health, manager's map, who holds an actor | start, reconnect, stop, add, remove, park, free | abandoned threads, health races, a start outside the lock; C++ frees what nobody refers to | a clean stop leaves no thread, fatal stays fatal, no camera out of reach, no actor freed under its thread |
| model pool `engine/pool.py` | tables of models by generation, sinks, mesh | start, stop, load, unload, scrape | teardown of one run meets the next; loads without a lock | every running model can be stopped, up means serving, nothing overtaken |
| ensembles `engine/ensemble.py` | a graph's executions, a pool's queue, slots | admit, begin, advance, land, cancel, stop | steps finish in any order and write one name; stop between a check and a submit | the order does not show, capacity comes back, nobody waits for ever |
| chain `topology/chain.py`, `topology/elements/`, `runners/walk.py`, `topology/plan.py`, `csrc/pipeline/graph/` | resolved slots, caps, rows of detections, trackers, galleries; a plan as text | load, walk with fan-in, crop in chunks, track, enrol; write and read a plan | branches that file the same key; rows cut and glued; a camera that returns; two readers of one format | rows keep their own values, trackers fed in order, planes read alike |
| runners and launcher `runners/`, `launch/`, `scheduling/sharding.py` | lifecycle, placement map, per-shard cameras, calls in flight | start, stop, add, remove, drain; place, release, install; plan | a worker outlives a join into the next start; calls unanswered or overlapping | a stop leaves nothing open, bands and elements follow placement, the map is what the shards do |
| event sinks `topology/sinks/kafka.py` | messages in the producer, counts, tags | emit, delivery report, flush, close | the verdict arrives on another camera's call | a refusal is charged once, to its frame |
| HTTP camera routes `api/streams.py` | posts under a deadline, the controller's cameras | POST, DELETE, drain | the deadline passes while the thread goes on | one post, one camera |
| the rest | repository, CLI, backends, device runtime, DeepStream, tools | | I/O or libraries | see `components` in `PROJECT.json` |

How they interact: camera actors put frames in the ingest queue (a fair queue);
pipeline workers take them, open them in the collector and run the graph, whose
stages call models; a model's dispatcher puts the request in an instance's queue
(a fair or FIFO queue) or in a peer's ring; futures carry answers back; the sweeper
and `stop` resolve what never finished. The newer runners walk a chain of
elements instead of the graph; the cross-camera element parks their workers in
the barrier. The launcher deals cameras to shard processes, each with a runner
of its own; the HTTP routes place and remove cameras through it.

## 2. Modules

| module | models | built on |
|---|---|---|
| `RequestQueue` | the promise of `queues/base.py`, as an abstract specification: what may become of a put() | |
| `FairQueue`, `FifoQueue` | `FairPriorityQueue` over `Lane`; `FifoQueue` | each refines `RequestQueue` |
| `ModelEngine` | `Model`, `ModelInstance`, `Dispatcher`, execution slots: lifecycle and custody of requests | queues by the contract of `RequestQueue` |
| `ModelServing` | policies, cache, batching, statistics: what an answer is made of | lifecycle left to `ModelEngine` |
| `FrameCollector` | `FrameCollector`, eviction policies, the backlog gauge | |
| `FramePipeline` | `PipelineRunner`, the graph's order of calls, the frame sink | extends `FrameCollector` |
| `PipelineGraph` | the stages of one frame: announcements, results on rows, what is freed, the sweeper's copy | |
| `RingContract` | what the ring promises: a bounded channel with reservation, in any order | |
| `SharedRing` | `SharedSlotRing` at the grain of single loads and stores | refines `RingContract` |
| `SpillTier` | `RemoteInstance`, `ResultReader`, `RingIngress`, `ServiceMesh.stop` | two instances of `RingContract` |
| `WireFormat` | `engine/spill/wire.py`: requests and results in reused slots | |
| `InstantBarrier` | `InstantBarrier`, `WaiterBudget` | |
| `MtmcElement`, `IdentitySpace` | the cross-camera element; a group's identities on the C++ plane | barrier by its contract |
| `CameraActor` | one camera's thread, start and stop, both planes | |
| `CameraFleet`, `NativeFleet` | the ingest manager in Python and in C++ | actors seen from outside |
| `NativeIntake` | NVDEC surfaces, copies, lanes and buffers in C++ | |
| `StreamsApi` | `POST`, `DELETE` and drain of `/streams` | the runner as the names it has taken; a camera is asked for after its name is, and a shard may not answer |
| `InferenceServer` | `engine/pool.py` | |
| `EnsembleModel` | `engine/ensemble.py` | |
| `ChainLoad`, `ChainWalk` | `Topology.from_spec`; one frame through a chain | `ChainWalk` extends `ChainLoad` |
| `TrackerShard`, `GalleryRecognize` | the track and recognise elements' state | |
| `PlanExchange` | the plan as text with its Python writer and reader, the C++ ones and their stages, and texts passed between the planes | |
| `InprocessRunner`, `ShardFleet`, `ShardPlan` | the in-process runner; the fleet runner and shard service; `plan_shards` | |
| `ResultSinks` | the Kafka sink under its workers | |
| `*Proofs` | theorems of `FairQueue`, `ModelEngine`, `FrameCollector` and `FramePipeline`, `SpillTier`; `Transport` of `SharedRing`, `ResultSinks` and `NativeIntake`, `Ingest` of `CameraActor`, `StreamsApi` and the two managers, `Runners` of `InprocessRunner`, `CrossCamera` of `InstantBarrier` | extend their module, the last four the `MC` module that instantiates it |
| `MC*` | small instances for TLC; each gathers independent components of one area, `part` says which one a behaviour is | |

Conventions. A method that holds its lock throughout is one action, with every
state change it makes. Where the lock is released (a wait, publishing after the
lock) or where none is held, the model has a place (`pc`, `worker`, `place`,
`out`) and other threads may step in. Time is nondeterminism: a wait with a
timeout may always end, a deadline may always have passed. Payloads, tensors,
names and messages are atoms. Optional values are sequences of length 0 or 1
where Python's `None` differs from every value. A sequential function of the code
(a chain loader, a plan reader) is an operator or a recursive function, and its
inputs are chosen in `Init`. A definition whose comment starts with *Fault:* is a
plausible mistake in the code; it is not part of the specification, and
exchanging it for the real definition must break the property `mutants` names.

Notable correspondences:

* `FairQueue.asleep` holds the threads inside `_cond.wait()` that no notify has
  reached; a notified or timed-out thread leaves it and must still get the lock.
  `Unlocked` is false while `_drain_locked` runs, so its pops are atomic to the
  others though they are several steps.
* `ModelEngine.worker` is the place in `_run()`; flags such as `_ready`,
  `_counted_ready`, `_stopped` and `_abandoned` are sets of instances, written in
  the order of the code and read by `stop()` and `dispatch()` at any moment.
* `FrameCollector.out[t]` is the list of frames a thread has removed under the
  lock and not published yet. `FramePipeline.hold[t]` is the one it is emitting:
  between popping the future from `_awaiting` and resolving it.
* `SharedRing.swap[side]` is `_swap_state` between its comparison and its store,
  under `_view_lock`. One consequence is visible in the model: since that lock
  makes the swap atomic within a process, one claimant per slot does not depend
  on `_submit_lock`, which only orders the scans.
* `SpillTier.place[r]` is how far `enqueue()` has come: claimed, registered with
  the reader, callback attached, published, counted.
* `CameraActor.calls[c].fair` marks a stop() that found the camera started: the
  one of which something can be promised.
* `InstantBarrier` keeps a group as one record (`group[g]`), whose `open` maps instant
  ids to buckets: ids grow with every opening, so their order is that of the code's
  insertion-ordered `_buckets`; `worker[w]` is the frame of `submit()` that sleeps in
  `Condition.wait`.

## 3. Runs

Every bound is a constant of a cfg or of the MC module's instances, named and
commented there. Each run ends within five minutes on two workers.

| run | parts and bounds | checks |
|---|---|---|
| `queues` | `block`, `drop`: 5 puts of 2 cameras on 2 priorities (one of two rows, one of none), capacity 3, row budget 2, in `block` deadlines on 2 and the loud camera's puts in one order; `fifo`, `fifo drop`: 4 puts, capacity 2; `frames`: 3 keys, capacity 2, 2 threads, 3 opens; `flood`: 4 keys, capacity 3, 4 opens | `LanesConsistent`, `NoLostWakeup`, `FairService` (round robin, order, row budget, capacity), `EachFrameLeavesOnce`; `NoCameraWronged`, `FloodPaysForItself`, `QueuesKeepContract` (both refine `RequestQueue`), `EveryPutAnswered` |
| `pipeline` | 1 worker, sweeper, stop with joins that time out, a stage that hangs, 2 frames, 2 stages in a row, capacity 1 | `NoFutureForgotten`, `EveryFutureResolved` |
| `workers` | 2 workers, 4 frames of which 2 share a tag and 2 are shed before, capacity 1, one stage, graph may raise, stop | `AwaitedAreOpen`, `CompleteMeansWhole` |
| `engine` | 2 instances, 2 requests, queues of 1 or 2, batches of 2, 1 slot, strict start that may fail or be aborted | `BackendOutlivesWorker`, `AnsweredFromOnePlace`, `BooksBalance`; `EndsWell` |
| `spill` | 2 requests, rings of 1 slot, deaths, stops and late heartbeats | `InGoodHands`; `NothingStaysOver` |
| `ingest` | `actor`: each plane and source, 2 stoppers, 2 frames, thresholds of 2; `python`, `cpp`: 3 API threads, 2 successive actors of a camera; `streams`: 3 posts for 3 names; 2 posts, a shard that does not answer, with or without a removal | `StopTellsTheTruth`, `FleetHoldsItsThreads`, `OnePostOneCamera`; `StopEndsThread` |
| `transport` | `ring`: 2 slots, 2 request threads, 3 messages, closing on both sides; `wire`: 7 messages and 6 replies over two slots, 2 exchanges; `plan`: texts of up to 4 lines; `sink`: 4 events, 2 workers, a buffer of 2; `intake`: 2 cameras, 4 deployments, 3 buffers, 3 sessions, 3 pictures | `SlotsInOneHand`, `ReadAsWritten`, `RefusalsToldOnce`, `FramesInGoodMemory`; `KeepsContract` (refines `RingContract`) |
| `cross_camera` | `one`: 2 cameras, one of them leaving and returning, 3 workers, captures 0, 1, 3 with window 2, 3 frames; `two`: 2 groups of 2 cameras, 3 workers; `elements`: chains of one and two cross-camera slots, 2 workers, 5 steps; `identity`: 4 options over scenes of 4 tracks, 2 to 5 instants | `NobodyWaitsInVain`; `InstantsInOrder`, `GroupAnswersForItsOwn`, `IdentityIsOneObject` |
| `server` | `server`, `pair`: 3 threads and 3 calls, or 2 and 4, strict or not, in a tier of two rings or not; `model`: 7 setups of 3 requests; `chain`: every chain of four families; `graph`: all orders of the perception graph; `ensemble`: a set of graphs, 2 pool threads; `tracker`: 2 stays, frames 0 to 2; `gallery`: 6 repositories, 2 walkers | `ModelsInReach`, `UpOrDown`, `AnswersAreTheirOwn`, `RowsKeepTheirOwn`, `SameAsInOrder`, `ElementsKeepTheirState` |
| `runners` | `runner`: 1 worker, 1 camera, quotas of items and cycles; `fleet`: 2 shards, 2 cameras, allowances of placements, removals, drains and failures; `plan`: up to 4 cameras, 4 shards, 5 GPUs | `StopLeavesNothingOpen`, `CamerasFollowPlacement`, `MapIsAuthoritative` |
| `pipeline_loop` | 2 workers, 2 frames, 2 stages, graph may raise | `LoopSurvives`, violated: see section 6 |
| `spill_stranded` | 2 requests, the submitter stops | `NobodyStranded`, violated: see section 6 |

A run of several parts checks components that do not interact: `part` never
changes, the variables of the others stay at a constant, and a property names the
part it speaks of. The composed properties (`NobodyWaitsInVain`,
`MapIsAuthoritative` and so on) are conjunctions of parts that are named and
commented in their modules.

Why the bounds are enough for the questions asked: each is one more than the
smallest in which the interesting case happens. Two producers can be blocked for
one free place; the buffer is full with a third frame coming; a row budget is met
by an item that does not fit; two threads scan while a further message forces
reuse of a slot; two of three barrier workers may park, so the third is the one
the budget must keep free; three API threads suffice for an add, a remove and a
stop to overlap on one camera, and two actors for its return; two calls may be in
flight to one shard while a third is given up on. Where the product of all that
can happen is out of reach (`runner`, `fleet`, `server`), a behaviour is given one of
several quotas, each with room for one kind of overlap.

Symmetry is declared where nothing tells the members apart: barrier workers,
walkers, ring threads, API threads, the fleet's two cameras. None of those runs
checks liveness. Deadlock is checked in `queues` (the worker always polls) and in
`server` (a server that cannot move would be a fault); the other systems really stop.

Fairness, and why the code justifies it:

* queue: the worker polls and all its waits have timeouts; a blocked `put` is
  woken by its own timeout; `close` fails what it drained in a loop;
* engine: the control thread, each worker and each caller in `dispatch` take
  their next step; loads and batches end (with a result or an error);
* pipeline: workers that are not wedged run, the sweeper runs, a frame that stays
  open is past its deadline at infinitely many sweeps (strong fairness, since
  sweeps happen only at times), and `stop`, once called, goes on;
* spill tier: request threads, reader and ingress run while their process lives;
  a reply that cannot be placed reaches its deadline (strong fairness: the
  ingress looks at it only in some of its sweeps); a peer is found lost when it
  is dead or has closed, never because heartbeats must be late;
* ingest: the camera's thread runs, and a read or a delay ends.

The ensemble and the barrier say without fairness what must happen, as invariants
about rest: while a worker waits in the barrier, time or a woken worker has a step
left (`EveryWaitEnds`), and where an ensemble has no step left every admitted
request has its answer (`NoCallerLeftWaiting`).

Some properties carry their own conditions, which are limits of the code and not
of the model: `OwnTag` (two frames with one tag, see section 6), `SweptWhole`
(a sweep cut short by an exception), `~stopping` in the `Custody` of `SpillTier`,
`abandoned = {}` in the `GaugeBalanced` of `ModelEngine`, `fair` in `CameraActor`.

## 4. Proofs

Eight modules prove properties for every value of the constants that the
assumptions of the proved module allow. Each has one inductive invariant `IInv`,
of which TLC has checked every conjunct on an instance, one lemma or step
per action, and a temporal theorem that combines `Init => IInv`,
`IInv /\ [Next]_vars => IInv'` and `IInv => property`.

**`FairQueueProofs`** (assumes `QueueAssumption`: finitely many puts, a capacity
and a row budget of at least one, known cameras and priorities).
`IInv == TypeOK /\ LanesConsistent /\ WithinCapacity /\ SleepersWait /\ NoLostWakeup`.
`NoLostWakeup` alone is not inductive: `put` notifies a single sleeper of a
condition that producers and the worker share, so the notification could reach a
producer while the worker sleeps on a queue that is no longer empty. It cannot,
because producers sleep only under BLOCK and only in front of a full queue
(`SleepersWait` with `NoLostWakeup`): a `put` that is accepted found room, hence
no sleeping producer, hence wakes the worker if anyone. The order of service
(`ServesFairly`) needs a second invariant, `FInv`: buckets are sorted by the time
of acceptance, a camera with nothing waiting has an empty ledger, and a camera that
another one has passed stands before it in the rotation (`InTurn`). From it follow
round robin, first come first served within a camera and, with the row budget,
`FairService`. `NobodyPaysForOthers` is the action property `NoCameraWronged`:
an eviction's victim is the loudest camera of the least urgent lane that waits, and
a closed queue charges nobody. `KeepsTheContract` is the refinement of
`RequestQueue`, step by step, for every overflow policy. The argument goes from sequences (`AppendUnique`,
`TailUnique`, `RemoveUnique`) to one lane (`PushHolds`, `PopHolds`, `EvictHolds`),
to all lanes, to one lemma per action. The last part does the same for the FIFO queue
with one deque in place of the lanes: `FifoWakeupsAreNotLost` and
`FifoKeepsTheContract`, the two things `QueuesKeepContract` says of it.

**`ModelEngineProofs`** (`EngineAssumption`). `BackendsOutliveWorkers` rests on
`ControlOrder`: past the join of an instance its worker has ended or the instance
is in `abandoned`, and nothing is stopped while instances are still being started.
`RequestsAnsweredFromOnePlace` rests on `Kept`: a request is in one queue or batch
(`Apart`), whoever will resolve it finds its future open (`HeldOpen`, `Completed`),
an accepted request without an answer is held (`CallsKept`), and a worker that has
ended holds nothing (`Phases`); with `Controlled` this carries requests through
failed loads, failed batches and deaths. `BooksAlwaysBalance` needs `CountedOnce`:
while nobody was abandoned, a worker's counted flag is set once and taken down once.

**`FramePipelineProofs`**, first part: the collector (`CollectorAssumption`: finitely many cameras and keys, a
capacity of at least one, camera ids as numbers). `CollectorInv` says that the serial
of an opened frame is in one place (`OneFrameEach`, `ReportedIsGone`) and that the
index is the one the pending keys give; `BufferInv` adds that none is missing, the
capacity, the remembered backlog and that what has left has no record. From it
`LeavesExactlyOnce` and `BooksAlwaysAgree`. A full buffer always finds a victim
(`VictimExists`: the cameras by count and id, and serials, have a last and a first
one), and under the greediest-camera policy the victim's camera holds an equal share
of the buffer (`ShareOut`: an injection of the pending frames into
`Cameras \X 1 .. n`), hence `FloodsPayForThemselves`. The specification is the
collector alone: any thread calls any method at any moment.

**`FramePipelineProofs`**, second part: the runner (`PipelineAssumption`: finitely many items and stages, each
stage fed by earlier ones only). The runner adds to `CollectorInv`: what each place of
a thread says about its hands (`PlacesMeanIt`); that a thread publishes what it took
out before it goes on (`PublishFirst`); that every waiting frame has a worker which is
going to seal it or is wedged (`FramesAreOwned`); where an unanswered future can be
(`NoFutureDropped`), that the map files it under its own tag (`OwnKeys`) and has no
entry without a frame behind it (`AwaitingIsBacked`); and, as long as no sweep was
cut short, that no opened frame is missing. Since stages are announced, run and
delivered in several steps, between which a sweep may take the frame and another
frame may open under its tag, `CompleteMeansWhole` needs the record to follow the
worker: `RecordFollows` says which stages the record of a frame expects and has while
its worker is at a stage, and that a spoiled frame has one missing behind it;
`OneHand` that one worker has a frame; `CompleteIsSealed` that a complete frame is
with the worker that sealed it. From these `CompleteIsWhole` and
`StopAccountsForAll`, for any number of frames a wakeup. `NothingForgotten` and
`MapFollowsFrames` assume `PerWakeup = 1`, the default of
`pipeline.frames_per_wakeup` (core/settings/pipeline.py:200): with more, a worker that
dies takes the rest of its batch along (`pipeline_loop`, section 6), and
`NoFutureLost` is false. The invariant is proved from any start of the runner with
earlier frames answered or not (`RunnerBegins`), so it covers the start of the
`workers` run too.

**`TransportProofs`** is about the parts of `MCTransport` that leave their constants
open. The ring (`RingAssumption`: at least one slot): without a lock between
the processes, a swap's read may be stale when it is written, so the invariant says
whose everything is: `LockHeld` (the handle's pending swap is the lock holder's),
`SlotsApart` (a thread's slot is its own from the read that found it free),
`OwnersSlots` (what the owner has read still holds when it writes), `MessagesApart`,
and `Birth` (nobody has a half-born ring open). `Turns` bounds overtaking by counting:
the takes that have passed a written slot and the slots the scan still meets before it are fewer
than `N`. From them `SlotsStayInOneHand`, and `KeepsTheContract`: each byte written
is a step of `RingContract` or none.

The sink: `RefusalsAreTold` holds for any frames, workers and room in the producer.
`OneKeeper` says that a refused event is in the list, in one worker's hands or told, and
that one that is not refused is nowhere; it needs `GivenOnce` (the producer gets an
event once, so the broker's verdict comes once) and `HandsFull`.

The intake (`TransportAssumption`: a run of host frames has one lane, a run of decoded
frames a lane for each of its GPUs, of which there is at least one; finitely many
buffers): `FramesAreInGoodMemory`, for any cameras, placements, picture sizes and
limits. What `NativeIntake` wants of sessions and of buffers is spread over a
camera's thread, its frame, the lanes and the workers, and each conjunct says whose
they are. `SessionsApart`: a session is one camera's, by its source or by the surface
its frame holds, its mapped surfaces are that frame's, and a session that is nobody's is
closed and empty. `CameraHolds` says what a thread has in each place of `pump()`; its
case "queueing" (no surface, and pixels on a GPU the run drives) is why no queued frame
starves a decoder. `HeldOnce`: a buffer with pixels is with exactly one of a camera, an
entry of a lane and a worker; `LanesFit` that its GPU is its camera's and its lane's,
and its size its camera's; `PoolBounded` that not too many are idle (`GivesBack`).

**`SpillTierProofs`** (`SpillAssumption`: finitely many requests, room for one).
`Roads` says that the inbound slots held are those of the requests under way, and
that each is on exactly one road (being served, worked on, deferred, replied,
landing), twice on none; it is what makes `InGoodHands` inductive, since a release
by the wrong hand would otherwise free a slot that still has one. `Known` ties
unresolved requests to the reader's books, and `RequestRing`, `ResultRing` keep the
contract of the rings.

**`IngestProofs`** (`CameraActorAssumption`, `IngestAssumption`) is about the parts of
`MCIngest`, which leave the constants of their modules open. `StopsTellTheTruth` holds for
both planes: `ThreadAndHandle` says how thread, handle and starter go together,
`StoppersKnow` what a stopper past its join knows of the thread, `FatalKept` where a
camera that gave up may be in its loop and that nobody has STOPPED in hand for it,
`OneLate` that the one frame read across the stop event sends the loop to its next
look at it. `AnswersAreTrue` is about `POST /streams`. `ApiCalls` says which call each
wait of the coroutine is for and which names that call can have taken, left unheard or
seen placed, `ApiAnswers` what an answer says of it; both survive the deadline, which
leaves a call running, and a placement that follows an unheard call (`PlacedUnheard`),
which only adds a name that was unheard already. That only a caller beaten twice hears of
a duplicate needs `ApiBeaten`: the report a name is minted from lists every name that is
taken, or another name was taken since it was read (`Fresh`); hence the name is free, or
another one was taken since (`Free`); and being refused once costs one name, twice two.
It also needs a name to exist: `ApiSources` bounds the names by those the command line
started and those the requests took, so `MintIsFree` finds a name among `Indices`.
The assumption that there are that many
stands for a counter without end.

`ManagersHoldTheirThreads` (`IngestProofs` too) is about both managers.
The Python one keeps an actor in the map or in the hands of a caller that built it, or
is told to stop it (`FleetFrames`, `FleetTodo`), and its stop event, which `start()`
clears, can only be cleared before there is a thread (`FleetBuilding`). The C++ one has
a mutex in each actor and owns it: `NativeThreads` and `NativeLocks` say who may start,
join or detach, `NativeSecured` that a thread that runs is mapped, parked or with a
caller that will join or park it, and `NativeCounted` what a `stop()` that has counted
nobody knows of every actor it took. `LifetimeSafe` alone is not inductive: what keeps
an actor alive moves from the map to the list of a `stop()`, to its frame, to the
parked ones, and each of the moves is one of these conjuncts.

**`RunnersProofs`** (`RunnerAssumption`: finitely many items, elements and workers,
items and elements numbered from 1, a queue and a wake-up of at least one). The
invariant has three layers. `CameraInv` says what each lifecycle operation means for
the camera threads (`CamerasInPhase`) and for what the elements were told of them
(`AnnouncedInPhase`); with `Leftovers`, which says when a camera without a thread may
have a band, it gives `CamerasFollowPlacementHolds`. `LifeInv` says that there
are workers to join exactly while there is a live slot list (`Tracked`), that the stop
event of every other cycle is set, and that elements are open in front of whoever is
tracked. `WorkInv` follows an item through queue, batch and slot. A worker that outlives
its join runs on in later cycles, so that no fact holds of all workers: `SlotsFollow`
ties slot to batch in the live cycle only, where `_fail_in_flight` will look;
`WorkersInPhase` says that a worker which is neither live nor over belongs to a cycle
that was given up, and `Ledger` is silent about the items of such a cycle. `Reachable`
says that an item without an answer is in the queue, in a live worker's hands, or was
abandoned before it had a slot, whence `StopLeavesNothingOpenHolds` once the slot list is
the empty replacement. One lemma, `WorkerMoves`, says what a worker's step has to
preserve; the eleven steps of the worker loop are instances of it.

**`CrossCameraProofs`** (`BarrierAssumption`: finitely many cameras and workers, integer
capture times, a window of at least one) is about the barrier of any number of groups.
`Sound` is what one group's record keeps, and every method is shown to keep it on its
own (`EndIsSound`, `SealIsSound`, `OpenBucketIs`, `AdmittedIs`, `RefreshIsSound`):
`Accounted` (open and ended instants together are those ever opened, each once),
`Moments` (one frame of a camera, captures within the window: `SpreadCovers` says that
the capture `Match` admits is near every one the instant has), `Bounded`, which a falling
fleet keeps only because `Refresh` never goes below what is open, and `OldestFirst`. An
opening breaks `Moments` for a moment, since its instant is empty until the frame is in it;
`Admits` is what holds in between. The invariant adds to `Sound` of every group that the
budget counts the waiters (`Counted`), what a camera that was just refused still has of
its clock (`RefusedOnce`), and what a sleeper sleeps on (`SleepersKnow`). One lemma,
`BecameIs`, says what a step of a group owes those that wait in it: to leave them asleep on
an open instant (`StayAsleep`) or to wake them, and to complete nothing they wait for
(`StayLacking`). `InstantsInOrderHolds` assumes `Refusals = 1`, the constant of the code:
with two a camera may be refused twice in a row. `NobodySleepsThroughHolds` assumes that every
group has announced cameras: a first `camera_added()` to a group without makes its live
set smaller, and wakes nobody.

Only model-checked, and why:

* liveness (`EveryPutAnswered`, `EveryFutureResolved`, `EndsWell`,
  `NothingStaysOver`, `StopEndsThread`) and properties with ENABLED
  (`NobodyWaitsInVain`, the last part of `SameAsInOrder`): beyond this prover;
* what recursive definitions compute for every input (`ShardPlan`, `ChainLoad`,
  the plan readers, `WireFormat`, `IdentitySpace`, `PipelineGraph`), with them
  `ReadAsWritten`: induction over data;
* the fleet runner and the sharding plan (`MapIsAuthoritative`), the cross-camera
  elements (`GroupAnswersForItsOwn`), the identities (`IdentityIsOneObject`) and the servers:
  not proved (section 7). `MCServer` reaches recursive operators (`ChainLoad`,
  `ChainWalk`), which takes a proof about its run's specification out of the prover's
  reach; it would have to be about the modules;
* `EachFrameLeavesOnce` names an instance of the collector with two cameras.
  `LeavesExactlyOnce` and `BooksAlwaysAgree` say it of every collector.

## 5. Not modelled

Numerics and tensors (backends, device runtime, elements' computations); files,
network and process wiring (model repository, CLI, DeepStream, spawning of shards,
generated protocol code); logging, metrics and tracing except the gauges and counts a
property is about; arrival-lag statistics of the barrier; the pinned mapping and its
deferred unregistration in the ring; camera sources and decoders, which
`CameraActor` and `NativeIntake` meet only through what their calls return. The
C++ plane's queue, reassembly and barrier repeat the Python plane's and are not
modelled again; what differs is in the `Native*` modules, `IdentitySpace` and
`CameraActor`.

Simplified in a module that models the rest, where no property depends on it:
`SpillTier.CloseOpened` waits for the reader, which mesh.py:298 joins for two seconds
only; `EnsembleModel.Claim` claims, settles, discards and gives the slot back in one
step (ensemble.py:648-677, where an exception may come between);
`ChainWalk.ProcessTrack` publishes one track per row in the order of the rows, the code
those the tracker returns, in its order; `GalleryRecognize.Fill` loads every entry, the
code no more than the capacities allow (recognize.py:476-519).

## 6. Disagreements met while modelling

Two are kept as runs with a counterexample:

* `pipeline_loop` (`LoopSurvives`): the worker's handler tests `future.done()` and
  then fails the future (runner.py:457); the sweeper may resolve it in between,
  the handler raises, and the thread ends, although the comment above says that
  the loop survives one bad frame. The rest of its batch is never answered.
* `spill_stranded` (`NobodyStranded`): a request registered after the reader has
  failed its stranded ones (remote_instance.py:171) is resolved by nobody.

Others were seen in the models and are conditions of the properties, or cases the
properties leave open, rather than runs of their own.

Queues, engine, pipeline, spill:

* fair.py:255: an open queue returns an empty batch when all it drained had
  expired; base.py:144 says an empty batch means closed. The worker tolerates it.
* instance.py:280: a worker that finishes loading after `stop` gave up on it sets
  ready over a closed queue, until its own exit clears it; and both sides may take
  down the ready gauge (instance.py:242), hence `abandoned = {}` in `GaugeBalanced`.
* runner.py:391: joins are not looked at, so staging buffers may be released
  under a running worker; runner.py:403 says the workers are joined.
* runner.py:398: `stop` walks over a copy of the awaited futures and raises, with
  the sink still open, if a late worker resolves one of them first.
* runner.py:488: registering and opening are two steps; of two frames with one
  tag the second to register may be the one admitted, and then nothing resolves
  its future. Hence `OwnTag`.
* runner.py:511: a graph that raises after a delivery and before the next plan is
  sealed as complete; `CompleteMeansWhole` counts a lost stage only if it raised or
  the graph raised before its first plan.
* runner.py:578: claiming a future that its worker has failed raises out of
  `_emit`, which is documented never to, and ends the sweep. Hence `SweptWhole`.
* state.py:376 says a copy of a frame's state cannot be internally torn; it is made
  by two reads, between which a stage may attach. A name that is produced and never
  read is never freed.
* remote_instance.py:178: the in-flight count is raised after the publish and is
  -1 when the owner is faster; `InFlightBalanced` states the exact value.
* remote_instance.py:364: a request registered after its owner was found lost
  waits for its own deadline.
* model.py: `set_result` wakes the caller before `_store` has frozen a copy for the
  cache; an attached fold leaves the cache out; `record_execution` counts a cancelled
  request as a success; the docstring of the sequence policy promises affinity where
  the dispatcher may spill past the pin.

Barrier and identities:

* barrier.py:721: the first announcement of a camera can shrink the live set of a
  group learned from traffic and does not look whether that completes an open
  instant; `ClosesWhenComplete` holds with the roster announced.
* mtmc.py: `_warned_silent` is tested and set without a lock; the docstring of
  `_on_instant` names `_note_cameras`.
* csrc identity.h:109: `ids()` commits the streaks of the gate before the check that may refuse
  the instant; with more live tracks than bounds allow, eviction forgets tracks just
  published.

Chain, elements, plans:

* walk.py: behind two detectors a fan-in keeps the first branch's `detections`;
  `missing_stages` is first-writer-wins and can lose "mtmc"; two trackers over
  disjoint classes publish one's tracks.
* The C++ detect stage (stages.cpp:155-171) keeps the first `max_objects` rows, the
  Python one the highest scores.
* plan.py:893: the writer bounds no integer above, the readers take 32 bits; of two
  ids with one label the C++ `class_of` takes the first.
* track.py:307: frames may overtake each other by more than the number of workers.
* ensemble.py:571-573: `_running_steps` is taken down for a step whose inputs failed
  to resolve, before it was counted.
* jsonlines sink: `_do_close` closes the file without `_lock`.

Lifecycles:

* actor.py:415: an empty read turns UNHEALTHY into DEGRADED.
* inprocess.py:1104-1114: a worker abandoned between `get_batch` and publishing its
  slot is seen by no stop; inprocess.py:765: a stale camera thread publishes into the
  next cycle's queue.
* pool.py:599: a start that loses the server still has its rings when the next one
  creates rings of the same names. `ServiceMesh.create()` then raises part-way; it has no
  clean-up (mesh.py:157), and the call stands before the `try` that would close the mesh,
  although the comment at pool.py:603 says that a failed start must not leak the rings it
  already created. The server is down and holds a ring in no field, whose name a later
  start fails on. `UpOrDown` says that a server which is down holds nothing else, and no
  ring but of a run in `lost`, those whose `create()` raised.
* pool.py:769: a loser of a non-strict start publishes into the newer run's table.
* fleet.py:343: a count may be overwritten by a stop that overlaps; a group is split
  when one of its cameras is added again while its removal is in flight.
* client.py:168, fleet.py:575: an `AddCamera` that is not answered within the
  client's deadline drops the camera's name, "because a camera nobody accepted must be
  placeable again", and `POST /streams` says 503; the shard may start the camera all
  the same, then or later. It is in no listing, and its name is free. Hence what
  `OnePostOneCamera` says of a 503: at most one camera is read, the one that was asked
  for. A 400 or 501 has placed none and never will.
* streams.py: after a first duplicate, a 504 in the second attempt names the first
  minted id.

## 7. Plan

Done: every component with coordination of its own has a module and its properties
run; what most of them promise is proved. Next, in this order:

1. `MtmcElement`: that a group's frame gets the ids of its own association.
2. `InferenceServer` and the fleets: reachability of models and threads.
