-------------------------- MODULE InprocessRunner --------------------------
(***************************************************************************)
(* The single-process runner (runners/inprocess.py) on top of the Runner   *)
(* lifecycle (runners/base.py): start and stop with their unwind, the      *)
(* three camera operations, submission, the worker loop, and the walk of   *)
(* one item through a straight chain (runners/walk.py).                    *)
(*                                                                         *)
(* Every lifecycle operation holds `_lifecycle`, so at most one is under   *)
(* way: `op`.  Workers, camera threads and submitters hold no lock and     *)
(* interleave with each of its steps.  A start cycle's stop event, queue   *)
(* and slot list are values its workers hold; a worker or a camera thread  *)
(* abandoned at a deadline keeps running in the cycles that follow.        *)
(***************************************************************************)
EXTENDS Naturals, Sequences, FiniteSets, SequencesExt

CONSTANTS
    Cameras,        \* camera ids
    Items,          \* 1..n: the items ever submitted (a bound)
    Workers,        \* worker slots, pipeline.workers of them
    Elements,       \* 1..n: the chain's topological order
    NeedsModel,     \* the elements in front of which the deadline is re-checked
    Configured,     \* the band the deployment's configuration gives each camera
    Requested,      \* the bands placements ask for, None among them
    Raises,         \* the counters the errors of an open element are charged to
    Capacity,       \* pipeline.queue_capacity
    WakeUp,         \* pipeline.frames_per_wakeup
    MaxCycle        \* bound: how often workers are started

None == "none"
Bands == {"critical", "normal"}

ASSUME RunnerAssumption ==
    /\ Capacity \in Nat \ {0} /\ WakeUp \in Nat \ {0} /\ MaxCycle \in Nat \ {0}
    /\ Workers # {} /\ IsFiniteSet(Workers)
    /\ IsFiniteSet(Items) /\ Items = 1..Cardinality(Items)
    /\ IsFiniteSet(Elements) /\ Elements = 1..Cardinality(Elements)
    /\ NeedsModel \subseteq Elements
    /\ Configured \in [Cameras -> Bands] /\ Requested \subseteq Bands \cup {None}
    /\ Raises \subseteq {"failed", "backpressure", "timed_out"}

Cycles == 1..MaxCycle
LastElement == Cardinality(Elements)

VARIABLES
    running,    \* Runner._running
    op,         \* the lifecycle operation in progress
    cycle,      \* how many times workers were started; the current cycle's number
    queue,      \* self._queue: closed or not, what waits, injected or not, its cycle
    stopping,   \* each cycle's stop event
    inflight,   \* each cycle's slot list
    slots,      \* which cycle's list self._inflight is; 0: an empty replacement
    threads,    \* self._threads: the workers _do_stop has still to join
    worker,     \* the worker threads of every cycle
    opened,     \* the elements that are open
    actor,      \* the cameras of the current manager, each with its placement
    stale,      \* camera threads abandoned at a deadline, still holding the sink
    placed,     \* PriorityBands._placed
    known,      \* the cameras the elements were told of and not told to forget
    item,       \* each item: where it is, the cycle of its camera and of its queue
    future,     \* each item's future
    counted,    \* the counters an item was charged to
    gaveUp,     \* the cycles whose stop abandoned a worker
    unpublished \* (auxiliary) items in nobody's slot when a stop drained the slots

life == <<running, op, cycle, stopping, slots, threads, opened, gaveUp>>
camera == <<actor, stale, placed, known>>
work == <<queue, inflight, worker, item, future, counted, unpublished>>
vars == <<life, camera, work>>

Idle == [name |-> "idle"]
NewWorker == [pc |-> "top", batch |-> <<>>, at |-> 0]
NoActor == [state |-> "none", band |-> "normal", cycle |-> 0]

\* Futures answer once: a finished future ignores finish() and fail().
ResolveAll(s, outcome) ==
    [i \in Items |-> IF i \in s /\ future[i] = "pending" THEN outcome ELSE future[i]]
ChargeAll(s, counter) ==
    [i \in Items |-> counted[i] \cup IF i \in s THEN {counter} ELSE {}]

\* PriorityBands.for_camera: what the placement said, then what the configuration says; a
\* camera neither names is at the default, which _learn memoises as its configured band.
ForCamera(c) == IF placed[c] # None THEN placed[c] ELSE Configured[c]

Init ==
    /\ running = FALSE /\ op = Idle /\ cycle = 0
    /\ \E injected \in BOOLEAN :
          queue = [closed |-> FALSE, items |-> <<>>, injected |-> injected, owner |-> 1]
    /\ stopping = [k \in Cycles |-> FALSE]
    /\ inflight = [k \in Cycles |-> [w \in Workers |-> <<>>]]
    /\ slots = 0 /\ threads = {} /\ gaveUp = {}
    /\ worker = [k \in Cycles |-> [w \in Workers |-> [NewWorker EXCEPT !.pc = "none"]]]
    /\ opened = {}
    /\ actor = [c \in Cameras |-> NoActor]
    /\ stale = {}
    /\ placed = [c \in Cameras |-> None]
    /\ known = {}
    /\ item = [i \in Items |-> [where |-> "new", from |-> 0, queue |-> 0]]
    /\ future = [i \in Items |-> "none"]
    /\ counted = [i \in Items |-> {}]
    /\ unpublished = {}

---------------------------------------------------------------------------
(* Runner.start and InprocessRunner._do_start                              *)

\* An injected queue that is closed refuses the start; a queue of the runner's own is
\* rebuilt.  Nothing is open yet, so the refusal unwinds nothing.
StartBegin ==
    /\ op = Idle /\ ~running /\ cycle < MaxCycle
    /\ ~(queue.closed /\ queue.injected)
    /\ op' = [name |-> "open", at |-> 1]
    /\ queue' = IF queue.closed THEN [queue EXCEPT !.closed = FALSE, !.owner = cycle + 1]
                ELSE queue
    /\ UNCHANGED <<running, cycle, stopping, slots, threads, opened, gaveUp, camera, inflight,
                   worker, item, future, counted, unpublished>>

\* Elements open in topological order, before any worker exists.
OpenElement ==
    /\ op.name = "open" /\ op.at \in Elements
    /\ opened' = opened \cup {op.at}
    /\ op' = [op EXCEPT !.at = @ + 1]
    /\ UNCHANGED <<running, cycle, stopping, slots, threads, gaveUp, camera, work>>

\* An element that fails to open ends the start: Runner.start calls _do_stop(0).
OpenFails ==
    /\ op.name = "open" /\ op.at \in Elements
    /\ op' = [name |-> "stop_ingest"]
    /\ UNCHANGED <<running, cycle, stopping, slots, threads, opened, gaveUp, camera, work>>

\* A fresh event, a fresh slot list and the queue, handed to fresh threads.
StartWorkers ==
    /\ op.name = "open" /\ op.at \notin Elements
    /\ cycle' = cycle + 1
    /\ slots' = cycle + 1
    /\ threads' = Workers
    /\ worker' = [worker EXCEPT ![cycle + 1] = [w \in Workers |-> NewWorker]]
    /\ running' = TRUE
    /\ op' = Idle
    /\ UNCHANGED <<stopping, opened, gaveUp, camera, queue, inflight, item, future, counted,
                   unpublished>>

---------------------------------------------------------------------------
(* Runner.stop and InprocessRunner._do_stop                                *)

StopBegin ==
    /\ op = Idle /\ running
    /\ running' = FALSE
    /\ op' = [name |-> "stop_ingest"]
    /\ UNCHANGED <<cycle, stopping, slots, threads, opened, gaveUp, camera, work>>

Signalled == [c \in Cameras |-> IF actor[c].state = "reading"
                                THEN [actor[c] EXCEPT !.state = "signalled"] ELSE actor[c]]

\* Fault: the placements are cleared before the cameras are joined.
StopIngestClearsFirst ==
    /\ op.name = "stop_ingest"
    /\ actor' = Signalled
    /\ placed' = [c \in Cameras |-> None]
    /\ op' = [name |-> "join_cameras", next |-> "stop_workers", told |-> {}]
    /\ UNCHANGED <<running, cycle, stopping, slots, threads, opened, gaveUp, stale,
                   known, work>>

\* _stop_ingest: the manager is dropped and every camera signalled; they are joined below.
StopIngest ==
    /\ op.name = "stop_ingest"
    /\ actor' = Signalled
    /\ op' = [name |-> "join_cameras", next |-> "stop_workers", told |-> {}]
    /\ UNCHANGED <<running, cycle, stopping, slots, threads, opened, gaveUp, stale, placed,
                   known, work>>

\* IngestManager.stop joins one camera thread, or abandons it at the deadline.
JoinCamera(c, abandon) ==
    /\ op.name = "join_cameras" /\ actor[c].state \in {"signalled", "ending"}
    /\ abandon => actor[c].state = "signalled"
    /\ stale' = stale \cup IF abandon THEN {[cam |-> c, cycle |-> actor[c].cycle]} ELSE {}
    /\ actor' = [actor EXCEPT ![c] = NoActor]
    /\ UNCHANGED <<life, placed, known, work>>

\* The placements end once every camera thread was joined or abandoned.
CamerasGone ==
    /\ op.name = "join_cameras" /\ \A c \in Cameras : actor[c].state = "none"
    /\ placed' = [c \in Cameras |-> None]
    /\ known' = known \ op.told
    /\ op' = IF op.next = "idle" THEN Idle ELSE [name |-> op.next]
    /\ UNCHANGED <<running, cycle, stopping, slots, threads, opened, gaveUp, actor, stale, work>>

\* The stop event.  No worker was ever started on the unwind path of a failed start, and the
\* queue is left alone there.
SetStopping ==
    /\ op.name = "stop_workers"
    /\ stopping' = IF cycle = 0 THEN stopping ELSE [stopping EXCEPT ![cycle] = TRUE]
    /\ op' = IF threads = {} THEN [name |-> "close", at |-> LastElement]
              ELSE [name |-> "close_queue"]
    /\ UNCHANGED <<running, cycle, slots, threads, opened, gaveUp, camera, work>>

\* _close_queue: what is still waiting is failed and charged.
CloseQueue ==
    /\ op.name = "close_queue"
    /\ op' = [name |-> "join_workers"]
    /\ queue' = [queue EXCEPT !.closed = TRUE, !.items = <<>>]
    /\ LET drained == ToSet(queue.items)
       IN  /\ item' = [i \in Items |->
                         IF i \in drained THEN [item[i] EXCEPT !.where = "gone"] ELSE item[i]]
           /\ future' = ResolveAll(drained, "cancelled")
           /\ counted' = ChargeAll(drained, "queue_closed")
    /\ UNCHANGED <<running, cycle, stopping, slots, threads, opened, gaveUp, camera, inflight,
                   worker, unpublished>>

\* Join one worker within the one deadline; one still alive at the deadline is abandoned.
JoinWorker(w) ==
    /\ op.name = "join_workers" /\ w \in threads
    /\ threads' = threads \ {w}
    /\ gaveUp' = IF worker[cycle][w].pc = "done" THEN gaveUp ELSE gaveUp \cup {cycle}
    /\ op' = IF threads = {w} THEN [name |-> "fail_in_flight"] ELSE op
    /\ UNCHANGED <<running, cycle, stopping, slots, opened, camera, work>>

\* Fault: the stranded items are counted and their futures left alone.
FailInFlightSilent ==
    /\ op.name = "fail_in_flight"
    /\ counted' = ChargeAll(UNION {ToSet(inflight[cycle][w]) : w \in Workers}, "failed")
    /\ inflight' = [inflight EXCEPT ![cycle] = [w \in Workers |-> <<>>]]
    /\ slots' = 0
    /\ op' = [name |-> "close", at |-> LastElement]
    /\ UNCHANGED <<running, cycle, stopping, threads, opened, gaveUp, camera, queue, worker,
                   item, future, unpublished>>

\* _fail_in_flight: what the slots still hold is failed, and the list is replaced.
FailInFlight ==
    /\ op.name = "fail_in_flight"
    /\ LET stranded == UNION {ToSet(inflight[cycle][w]) : w \in Workers}
       IN  /\ future' = ResolveAll(stranded, "cancelled")
           /\ counted' = ChargeAll(stranded, "failed")
           /\ unpublished' = unpublished \cup
                {i \in Items : \E w \in Workers :
                    worker[cycle][w].pc = "publish" /\ i \in ToSet(worker[cycle][w].batch)}
    /\ inflight' = [inflight EXCEPT ![cycle] = [w \in Workers |-> <<>>]]
    /\ slots' = 0
    /\ op' = [name |-> "close", at |-> LastElement]
    /\ UNCHANGED <<running, cycle, stopping, threads, opened, gaveUp, camera, queue, worker,
                   item>>

\* Elements close last, in reverse order, and forget their cameras; a close that raises is
\* logged and the element is closed all the same.
CloseElement ==
    /\ op.name = "close"
    /\ IF op.at \in Elements
       THEN /\ opened' = opened \ {op.at}
            /\ op' = [op EXCEPT !.at = @ - 1]
            /\ UNCHANGED known
       ELSE op' = Idle /\ known' = {} /\ UNCHANGED opened
    /\ UNCHANGED <<running, cycle, stopping, slots, threads, gaveUp, actor, stale, placed, work>>

---------------------------------------------------------------------------
(* Cameras                                                                 *)

\* add_camera up to the manager: a duplicate is refused before anything is written.
AddCamera(c, band) ==
    /\ op = Idle /\ running /\ actor[c].state = "none"
    /\ placed' = [placed EXCEPT ![c] = band]
    /\ op' = [name |-> "adding", cam |-> c, previous |-> placed[c]]
    /\ UNCHANGED <<running, cycle, stopping, slots, threads, opened, gaveUp, actor, stale, known,
                   work>>

\* The manager starts the actor with the band its configuration was given.
CameraStarts ==
    /\ op.name = "adding"
    /\ actor' = [actor EXCEPT ![op.cam] =
                    [state |-> "reading", band |-> ForCamera(op.cam), cycle |-> cycle]]
    /\ op' = [name |-> "announce", cam |-> op.cam]
    /\ UNCHANGED <<running, cycle, stopping, slots, threads, opened, gaveUp, stale, placed, known,
                   work>>

\* The manager refuses: the band goes back to what it was and nothing is announced.
CameraRefused ==
    /\ op.name = "adding"
    /\ placed' = [placed EXCEPT ![op.cam] = op.previous]
    /\ op' = Idle
    /\ UNCHANGED <<running, cycle, stopping, slots, threads, opened, gaveUp, actor, stale, known,
                   work>>

\* Only after the actor exists do the elements hear of the camera.
Announce ==
    /\ op.name = "announce"
    /\ known' = known \cup {op.cam}
    /\ op' = Idle
    /\ UNCHANGED <<running, cycle, stopping, slots, threads, opened, gaveUp, actor, stale, placed,
                   work>>

\* remove_camera: one camera signalled, then joined within its timeout.
RemoveCamera(c) ==
    /\ op = Idle /\ actor[c].state = "reading"
    /\ actor' = [actor EXCEPT ![c].state = "signalled"]
    /\ op' = [name |-> "join_one", cam |-> c]
    /\ UNCHANGED <<running, cycle, stopping, slots, threads, opened, gaveUp, stale, placed, known,
                   work>>

\* The thread joined or abandoned, its placement is forgotten and its removal announced.
CameraRemoved(abandon) ==
    /\ op.name = "join_one"
    /\ abandon => actor[op.cam].state = "signalled"
    /\ stale' = stale \cup
         IF abandon THEN {[cam |-> op.cam, cycle |-> actor[op.cam].cycle]} ELSE {}
    /\ actor' = [actor EXCEPT ![op.cam] = NoActor]
    /\ placed' = [placed EXCEPT ![op.cam] = None]
    /\ known' = known \ {op.cam}
    /\ op' = Idle
    /\ UNCHANGED <<running, cycle, stopping, slots, threads, opened, gaveUp, work>>

\* drain: every camera signalled, the ids remembered for the announcements.
Drain ==
    /\ op = Idle /\ \E c \in Cameras : actor[c].state = "reading"
    /\ actor' = Signalled
    /\ op' = [name |-> "join_cameras", next |-> "idle",
              told |-> {c \in Cameras : actor[c].state = "reading"}]
    /\ UNCHANGED <<running, cycle, stopping, slots, threads, opened, gaveUp, stale, placed, known,
                   work>>

---------------------------------------------------------------------------
(* Submission: _do_submit, from a camera thread or from a caller           *)

More == \E i \in Items : item[i].where = "new"
NextItem == CHOOSE i \in Items : item[i].where = "new"
                                 /\ \A j \in Items : item[j].where = "new" => i <= j
Full == Len(queue.items) = Capacity

\* The queue answers: closed, full and refused, full and the oldest evicted, or admitted.
\* `from` is the cycle in which the publishing camera was placed, 0 for a caller of submit().
Put(i, from, evict) ==
    LET admitted == ~queue.closed /\ (Full => evict)
        evicted == IF admitted /\ Full THEN {Head(queue.items)} ELSE {}
    IN  /\ item' = [j \in Items |->
                      IF j = i /\ admitted
                      THEN [where |-> "queued", from |-> from, queue |-> queue.owner]
                      ELSE IF j = i \/ j \in evicted THEN [item[j] EXCEPT !.where = "gone"]
                      ELSE item[j]]
        /\ queue' = IF admitted
                    THEN [queue EXCEPT !.items = Append(IF Full THEN Tail(@) ELSE @, i)]
                    ELSE queue
        /\ future' = [ResolveAll(evicted, "cancelled") EXCEPT ![i] =
                        IF admitted THEN "pending" ELSE @]
        /\ counted' = ChargeAll(evicted, "queue_evicted")

\* A camera of this cycle publishes a frame: while it reads, and at most once more after it
\* was told to stop.
Publish(c, evict) ==
    /\ More /\ actor[c].state \in {"reading", "signalled"}
    /\ Put(NextItem, actor[c].cycle, evict)
    /\ actor' = [actor EXCEPT ![c].state = IF @ = "signalled" THEN "ending" ELSE @]
    /\ UNCHANGED <<life, stale, placed, known, inflight, worker, unpublished>>

\* A camera thread abandoned at a deadline wakes from its read, publishes that one frame
\* through the sink it still holds, sees its stop event and ends.
PublishLate(s, evict) ==
    /\ More /\ s \in stale
    /\ Put(NextItem, s.cycle, evict)
    /\ stale' = stale \ {s}
    /\ UNCHANGED <<life, actor, placed, known, inflight, worker, unpublished>>

\* Runner.submit: the caller sees a running runner, and reaches the queue some time later.
SubmitCheck ==
    /\ More /\ running
    /\ item' = [item EXCEPT ![NextItem].where = "checked"]
    /\ UNCHANGED <<life, camera, queue, inflight, worker, future, counted, unpublished>>

SubmitPut(i, evict) ==
    /\ item[i].where = "checked"
    /\ Put(i, 0, evict)
    /\ UNCHANGED <<life, camera, inflight, worker, unpublished>>

---------------------------------------------------------------------------
(* The worker loop: InprocessRunner._work and ChainWalk.run                *)

SetWorker(k, w, rec) == worker' = [worker EXCEPT ![k][w] = rec]

\* The queue a worker of cycle k was handed: self._queue, until a restart replaces that.
QueueOf(k) == IF k = queue.owner THEN queue
              ELSE [queue EXCEPT !.closed = TRUE, !.items = <<>>]

\* The stop event is set, or get_batch came back empty from a closed queue: the thread ends.
WorkerExits(k, w) ==
    /\ \/ worker[k][w].pc = "top" /\ stopping[k]
       \/ worker[k][w].pc = "waiting" /\ QueueOf(k).items = <<>> /\ QueueOf(k).closed
    /\ SetWorker(k, w, [worker[k][w] EXCEPT !.pc = "done"])
    /\ UNCHANGED <<life, camera, queue, inflight, item, future, counted, unpublished>>

\* Into get_batch, and out of it empty-handed at the poll timeout.
WaitOrPoll(k, w) ==
    /\ \/ worker[k][w].pc = "top" /\ ~stopping[k]
       \/ worker[k][w].pc = "waiting" /\ QueueOf(k).items = <<>> /\ ~QueueOf(k).closed
    /\ SetWorker(k, w, [worker[k][w] EXCEPT !.pc = IF @ = "top" THEN "waiting" ELSE "top"])
    /\ UNCHANGED <<life, camera, queue, inflight, item, future, counted, unpublished>>

\* get_batch: an expired item is dropped by the queue, the batch is the worker's.
Take(k, w, expired) ==
    /\ worker[k][w].pc = "waiting" /\ QueueOf(k).items # <<>>
    /\ LET n == IF Len(QueueOf(k).items) < WakeUp THEN Len(QueueOf(k).items) ELSE WakeUp
           first == SubSeq(QueueOf(k).items, 1, n)
           dead == IF expired THEN {Head(first)} ELSE {}
           batch == IF expired THEN Tail(first) ELSE first
       IN  /\ queue' = [queue EXCEPT !.items = SubSeq(@, n + 1, Len(@))]
           /\ SetWorker(k, w, [pc |-> IF batch = <<>> THEN "top" ELSE "publish",
                               batch |-> batch, at |-> 0])
           /\ item' = [i \in Items |->
                         IF i \in dead THEN [item[i] EXCEPT !.where = "gone"]
                         ELSE IF i \in ToSet(batch) THEN [item[i] EXCEPT !.where = "taken"]
                         ELSE item[i]]
           /\ future' = ResolveAll(dead, "cancelled")
           /\ counted' = ChargeAll(dead, "queue_expired")
    /\ UNCHANGED <<life, camera, inflight, unpublished>>

\* Every item this worker owes an answer for, in its slot of the list it was handed.
PublishSlot(k, w) ==
    /\ worker[k][w].pc = "publish"
    /\ inflight' = [inflight EXCEPT ![k][w] = worker[k][w].batch]
    /\ SetWorker(k, w, [worker[k][w] EXCEPT !.pc = "item"])
    /\ UNCHANGED <<life, camera, queue, item, future, counted, unpublished>>

\* The stop event is checked in front of every item; the remainder stays in the slot.
BreakOff(k, w) ==
    /\ worker[k][w].pc = "item" /\ stopping[k]
    /\ SetWorker(k, w, NewWorker)
    /\ UNCHANGED <<life, camera, queue, inflight, item, future, counted, unpublished>>

BeginWalk(k, w) ==
    /\ worker[k][w].pc = "item" /\ ~stopping[k]
    /\ SetWorker(k, w, [worker[k][w] EXCEPT !.pc = "walk", !.at = 1])
    /\ UNCHANGED <<life, camera, queue, inflight, item, future, counted, unpublished>>

\* One outcome of an item: charged to its counter, its future resolved, its walk over.
Outcome(k, w, counter, answer) ==
    LET i == Head(worker[k][w].batch)
    IN  /\ counted' = ChargeAll({i}, counter)
        /\ future' = ResolveAll({i}, answer)
        /\ SetWorker(k, w, [worker[k][w] EXCEPT !.pc = "narrow"])
        /\ UNCHANGED <<life, camera, queue, inflight, item, unpublished>>

\* The deadline has passed before the walk, or before an element that waits on a model.
Expires(k, w) ==
    /\ worker[k][w].pc = "walk"
    /\ worker[k][w].at = 1 \/ worker[k][w].at \in NeedsModel
    /\ Outcome(k, w, "expired", "cancelled")

\* One element processes the item.
Process(k, w) ==
    /\ worker[k][w].pc = "walk" /\ worker[k][w].at \in opened
    /\ SetWorker(k, w, [worker[k][w] EXCEPT !.at = @ + 1])
    /\ UNCHANGED <<life, camera, queue, inflight, item, future, counted, unpublished>>

\* An element raises (backpressure, a stage timeout, anything else), and refuses outright
\* when it is not open: one item is lost, not the worker.
ElementFails(k, w, counter) ==
    /\ worker[k][w].pc = "walk" /\ worker[k][w].at \in Elements
    /\ counter \in IF worker[k][w].at \in opened THEN Raises ELSE {"failed"}
    /\ Outcome(k, w, counter, "failed")

\* Past the last element the item is finished.
Walked(k, w) ==
    /\ worker[k][w].pc = "walk" /\ worker[k][w].at \notin Elements
    /\ Outcome(k, w, "walked", "result")

\* finally: the slot is narrowed to the remainder, in the list this worker was handed.
Narrow(k, w) ==
    /\ worker[k][w].pc = "narrow"
    /\ LET rest == Tail(worker[k][w].batch)
       IN  /\ inflight' = [inflight EXCEPT ![k][w] = rest]
           /\ SetWorker(k, w, [pc |-> IF rest = <<>> THEN "top" ELSE "item",
                               batch |-> rest, at |-> 0])
           /\ item' = [item EXCEPT ![Head(worker[k][w].batch)].where = "gone"]
    /\ UNCHANGED <<life, camera, queue, future, counted, unpublished>>

---------------------------------------------------------------------------
Lifecycle ==
    \/ StartBegin \/ OpenElement \/ OpenFails \/ StartWorkers
    \/ StopBegin \/ StopIngest \/ CamerasGone \/ SetStopping \/ CloseQueue
    \/ \E w \in Workers : JoinWorker(w)
    \/ FailInFlight \/ CloseElement

CameraCalls ==
    \/ \E c \in Cameras : \/ \E band \in Requested : AddCamera(c, band)
                          \/ \E abandon \in BOOLEAN : JoinCamera(c, abandon)
                          \/ RemoveCamera(c)
    \/ CameraStarts \/ CameraRefused \/ Announce \/ Drain
    \/ \E abandon \in BOOLEAN : CameraRemoved(abandon)

Submission ==
    \/ SubmitCheck
    \/ \E evict \in BOOLEAN :
          \/ \E c \in Cameras : Publish(c, evict)
          \/ \E s \in stale : PublishLate(s, evict)
          \/ \E i \in Items : SubmitPut(i, evict)

Work ==
    \E k \in Cycles, w \in Workers :
        \/ WorkerExits(k, w) \/ WaitOrPoll(k, w) \/ PublishSlot(k, w)
        \/ \E expired \in BOOLEAN : Take(k, w, expired)
        \/ BreakOff(k, w) \/ BeginWalk(k, w) \/ Expires(k, w) \/ Process(k, w)
        \/ \E counter \in Raises \cup {"failed"} : ElementFails(k, w, counter)
        \/ Walked(k, w) \/ Narrow(k, w)

Next == Lifecycle \/ CameraCalls \/ Submission \/ Work

Spec == Init /\ [][Next]_vars

---------------------------------------------------------------------------
(* What is checked                                                         *)

Alive(k, w) == worker[k][w].pc \notin {"none", "done"}
Abandoned(k, w) == Alive(k, w) /\ (k < cycle \/ w \notin threads)
Stopped == op = Idle /\ ~running

\* After a stop no accepted item is left without an answer: every future submit() handed out
\* is resolved, unless its item still waits in an open queue (a start that failed leaves the
\* queue as it was), or the worker that took it was abandoned before it wrote its slot.
AnsweredAfterStop ==
    Stopped => \A i \in Items :
        future[i] = "pending" => i \in ToSet(queue.items) \/ i \in unpublished

\* A worker abandoned in one start cycle is terminal: whatever is restarted meanwhile, a
\* worker only holds items of its own cycle's queue, and the live slot list only names
\* items of its own cycle.
CyclesApart ==
    /\ \A k \in Cycles, w \in Workers :
          \A i \in ToSet(worker[k][w].batch) : item[i].queue = k
    /\ slots # 0 => \A w \in Workers : \A i \in ToSet(inflight[slots][w]) : item[i].queue = slots

\* The items whose outcome is counted and whose slot is about to be narrowed.
Settled ==
    {i \in Items : \E k \in Cycles, w \in Workers :
        worker[k][w].pc = "narrow" /\ i = Head(worker[k][w].batch)}

InFlight(i) ==
    \/ i \in ToSet(queue.items)
    \/ \E k \in Cycles, w \in Workers :
          \/ i \in ToSet(inflight[k][w])
          \/ worker[k][w].pc = "publish" /\ i \in ToSet(worker[k][w].batch)

\* stats(): in a cycle whose stop abandoned nobody, an accepted item is in flight or charged
\* to exactly one counter, and it is charged as walked exactly when its future has a result.
LedgerBalances ==
    \A i \in Items : future[i] # "none" /\ item[i].queue \notin gaveUp =>
        /\ Cardinality(counted[i]) = IF InFlight(i) /\ i \notin Settled THEN 0 ELSE 1
        /\ future[i] = "result" <=> counted[i] = {"walked"}

\* Elements outlive the walks of the workers the runner still tracks: they open before the
\* first worker starts and close after the last one was joined or abandoned.
ChainOpenForWalks ==
    \A k \in Cycles, w \in Workers :
        Alive(k, w) /\ ~Abandoned(k, w) => Elements \subseteq opened

\* A frame of a camera that is still publishing is admitted into the band its placement was
\* granted: neither a refused second add, nor a removal, a drain or a stop moves the lane of
\* a camera whose thread was not yet joined or abandoned.
BandsFollowPlacements ==
    \A c \in Cameras : actor[c].state # "none" => ForCamera(c) = actor[c].band

\* Between operations a camera that is not placed has no band of a placement: a placement the
\* manager refused is taken back, and every way one ends forgets its band.
NoBandLeftBehind ==
    op = Idle => \A c \in Cameras : actor[c].state = "none" => placed[c] = None

\* Between operations the elements of the chain know exactly the cameras that are placed: a
\* refused add announces nothing, and every way a placement ends is announced.
ElementsKnowCameras ==
    op = Idle => known = {c \in Cameras : actor[c].state = "reading"}
============================================================================
