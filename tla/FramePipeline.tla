---------------------------- MODULE FramePipeline ----------------------------
(***************************************************************************)
(* PipelineRunner (pipeline/runner.py) over the collector: worker threads  *)
(* take frames off the ingest queue and run each through the graph         *)
(* (pipeline/graph/graph.py), a sweeper times frames out, and stop()       *)
(* closes, joins, drains, cancels and tears down, all of them emitting     *)
(* through the map of awaited futures.                                     *)
(*                                                                         *)
(* The ingest queue keeps the contract of RequestQueue; its order is left  *)
(* to FairQueue.  A stage's data is reduced to which later stages it feeds *)
(* with rows.  Callers do not cancel: the frame sink keeps no future.      *)
(***************************************************************************)
EXTENDS FrameCollector

CONSTANTS
    Items,       \* frames put by the cameras, as positive numbers
    KeyOf,       \* [Items -> Keys]: the tag of each
    Needs,       \* [Stages -> SUBSET Stages]: the stages that feed a stage
    Sweeper, Stopper,  \* threads of Threads; the others are workers
    PerWakeup,   \* pipeline.frames_per_wakeup
    Environment  \* which of "stop", "wedge", "timeout", "raise" may happen

ASSUME PipelineAssumption ==
    /\ Items \subseteq Nat \ {0} /\ IsFiniteSet(Items) /\ KeyOf \in [Items -> Keys]
    /\ IsFiniteSet(Stages) /\ Stages = 1 .. Cardinality(Stages) /\ Stages # {}
    /\ \A s \in Stages : Needs[s] \subseteq 1 .. s - 1
    /\ {Sweeper, Stopper} \subseteq Threads /\ Sweeper # Stopper
    /\ PerWakeup \in Nat \ {0}
    /\ Environment \subseteq {"stop", "wedge", "timeout", "raise"}

Workers == Threads \ {Sweeper, Stopper}
None == 0
Last == Cardinality(Stages)

VARIABLES
    queue, closed,  \* the ingest queue: what it holds, and whether it closed
    future,         \* [Items -> {"none", "pending", "result", "error"}]
    awaiting,       \* [Keys -> Items \cup {None}]: _awaiting
    hold,           \* [Threads -> the frame the thread is emitting]
    pc,             \* [Threads -> place in _work(), _sweep() or stop()]
    batch,          \* [Workers -> SUBSET Items]: taken, not begun
    cur,            \* [Workers -> Items \cup {None}]: in _run_frame()
    step,           \* [Workers -> Nat]: the stage execute() is at
    fed,            \* [Workers -> SUBSET (Stages \X Stages)]: rows produced
    stopping,       \* _stopping
    toJoin,         \* workers stop() has not joined yet
    toCancel,       \* its copy of _awaiting
    sinkClosed, staged,  \* the result sink; the workers' staging buffers
    spoiled, died,  \* history: items that lost a stage; items whose graph raised
    raised          \* threads in which emitting raised

queueVars == <<queue, closed>>
workVars == <<batch, cur, step, fed, spoiled, died>>
stopVars == <<stopping, toJoin, toCancel, sinkClosed, staged>>
vars == <<collectorVars, queueVars, future, awaiting, hold, pc, workVars, stopVars, raised>>

Idle == [item |-> None, reason |-> "none"]

\* The runner as start() leaves it, with what became of frames before.
RunnerStarts(futures) ==
    /\ queue = {} /\ closed = FALSE
    /\ future = futures
    /\ awaiting = [k \in Keys |-> None]
    /\ hold = [t \in Threads |-> Idle]
    /\ pc = [t \in Threads |-> IF t = Sweeper THEN "wait"
                               ELSE IF t = Stopper THEN "up" ELSE "loop"]
    /\ batch = [w \in Workers |-> {}]
    /\ cur = [w \in Workers |-> None]
    /\ step = [w \in Workers |-> 1]
    /\ fed = [w \in Workers |-> {}]
    /\ stopping = FALSE
    /\ toJoin = Workers /\ toCancel = {}
    /\ sinkClosed = FALSE /\ staged = TRUE
    /\ spoiled = {} /\ died = {} /\ raised = {}

Init == CollectorInit /\ RunnerStarts([i \in Items |-> "none"])

Go(t, to) == pc' = [pc EXCEPT ![t] = to]
Fail(is) == future' = [i \in Items |-> IF i \in is THEN "error" ELSE future[i]]

\* The thread is not inside the collector's publishing loop.
Quiet(t) == out[t] = {} /\ hold[t] = Idle
At(t, place) == pc[t] = place /\ Quiet(t)

-----------------------------------------------------------------------------
(* QueueFrameSink.put() and the ingest queue.                              *)

Put(i) ==
    /\ future[i] = "none" /\ ~closed
    /\ queue' = queue \cup {i}
    /\ future' = [future EXCEPT ![i] = "pending"]
    /\ UNCHANGED <<collectorVars, closed, awaiting, hold, pc, workVars, stopVars, raised>>

\* The queue fails a frame it makes room with, or that expired in it.
Shed(i) ==
    /\ i \in queue
    /\ queue' = queue \ {i}
    /\ Fail({i})
    /\ UNCHANGED <<collectorVars, closed, awaiting, hold, pc, workVars, stopVars, raised>>

-----------------------------------------------------------------------------
(* A worker: _work() and _run_frame().                                     *)

TestStopping(w) ==
    /\ At(w, "loop")
    /\ Go(w, IF stopping THEN "exit" ELSE "get")
    /\ UNCHANGED <<collectorVars, queueVars, future, awaiting, hold, workVars,
                   stopVars, raised>>

TakeItems(w) ==
    /\ At(w, "get")
    /\ \E is \in SUBSET queue :
          /\ is # {} /\ Cardinality(is) <= PerWakeup
          /\ batch' = [batch EXCEPT ![w] = is]
          /\ queue' = queue \ is
    /\ Go(w, "next")
    /\ UNCHANGED <<collectorVars, closed, future, awaiting, hold, cur, step, fed, spoiled, died,
                   stopVars, raised>>

\* All that get_batch() drained had expired (Shed): an empty batch.
PollEmpty(w) ==
    /\ At(w, "get") /\ queue = {} /\ ~closed
    /\ Go(w, "loop")
    /\ UNCHANGED <<collectorVars, queueVars, future, awaiting, hold, workVars, stopVars, raised>>

QueueClosed(w) ==
    /\ At(w, "get") /\ closed
    /\ Go(w, "exit")
    /\ UNCHANGED <<collectorVars, queueVars, future, awaiting, hold, workVars,
                   stopVars, raised>>

BatchDone(w) ==
    /\ At(w, "next") /\ batch[w] = {}
    /\ Go(w, "loop")
    /\ UNCHANGED <<collectorVars, queueVars, future, awaiting, hold, workVars,
                   stopVars, raised>>

\* Past its deadline, or not a frame at all: failed before it is registered.
RejectItem(w, i) ==
    /\ At(w, "next") /\ i \in batch[w]
    /\ batch' = [batch EXCEPT ![w] = @ \ {i}]
    /\ Fail({i})
    /\ UNCHANGED <<collectorVars, queueVars, awaiting, hold, pc, cur, step, fed, spoiled, died,
                   stopVars, raised>>

\* _awaiting.setdefault(key, future)
BeginFrame(w, i) ==
    /\ At(w, "next") /\ i \in batch[w]
    /\ batch' = [batch EXCEPT ![w] = @ \ {i}]
    /\ cur' = [cur EXCEPT ![w] = i]
    /\ awaiting' = [awaiting EXCEPT ![KeyOf[i]] = IF @ = None THEN i ELSE @]
    /\ Go(w, "open")
    /\ UNCHANGED <<collectorVars, queueVars, future, hold, step, fed, spoiled, died,
                   stopVars, raised>>

Key(w) == KeyOf[cur[w]]

\* Fault: the frame opens expecting nothing.
OpenExpectingNothing(w) ==
    /\ At(w, "open")
    /\ Open(w, Key(w), {})
    /\ step' = [step EXCEPT ![w] = 1]
    /\ fed' = [fed EXCEPT ![w] = {}]
    /\ Go(w, "plan")
    /\ UNCHANGED <<queueVars, future, awaiting, hold, batch, cur, spoiled, died,
                   stopVars, raised>>

\* Opened expecting the entry stage, unconditional_stage.
OpenFrame(w) ==
    /\ At(w, "open")
    /\ Open(w, Key(w), {1})
    /\ step' = [step EXCEPT ![w] = 1]
    /\ fed' = [fed EXCEPT ![w] = {}]
    /\ Go(w, "plan")
    /\ UNCHANGED <<queueVars, future, awaiting, hold, batch, cur, spoiled, died,
                   stopVars, raised>>

\* The tag is already in flight: the newcomer is refused.
RefuseFrame(w) ==
    /\ At(w, "open") /\ Key(w) \in pending
    /\ awaiting' = [awaiting EXCEPT ![Key(w)] = IF @ = cur[w] THEN None ELSE @]
    /\ Fail({cur[w]})
    /\ cur' = [cur EXCEPT ![w] = None]
    /\ Go(w, "next")
    /\ UNCHANGED <<collectorVars, queueVars, hold, batch, step, fed, spoiled, died,
                   stopVars, raised>>

\* PipelineGraph.runnable(): stages ahead whose inputs have rows.
Runnable(w) == {s \in step[w] .. Last : \A p \in Needs[s] : <<p, s>> \in fed[w]}

\* planned(), then the stage runs or is skipped.
Plan(w) ==
    /\ At(w, "plan") /\ step[w] <= Last
    /\ Expect(Key(w), Runnable(w))
    /\ IF step[w] \in Runnable(w)
       THEN Go(w, "run") /\ UNCHANGED step
       ELSE step' = [step EXCEPT ![w] = @ + 1] /\ UNCHANGED pc
    /\ UNCHANGED <<queueVars, future, awaiting, hold, batch, cur, fed, spoiled, died,
                   stopVars, raised>>

\* The stage answered, with rows for some of the stages it feeds.
StageRuns(w) ==
    /\ At(w, "run")
    /\ \E to \in SUBSET {s \in Stages : step[w] \in Needs[s]} :
          fed' = [fed EXCEPT ![w] = @ \cup {<<step[w], s>> : s \in to}]
    /\ Go(w, "deliver")
    /\ UNCHANGED <<collectorVars, queueVars, future, awaiting, hold, batch, cur, step,
                   spoiled, died,
                   stopVars, raised>>

\* It raised: its outputs never appear, and it is not delivered.
StageFails(w) ==
    /\ At(w, "run")
    /\ step' = [step EXCEPT ![w] = @ + 1]
    /\ spoiled' = spoiled \cup {cur[w]}
    /\ Go(w, "plan")
    /\ UNCHANGED <<collectorVars, queueVars, future, awaiting, hold, batch, cur, fed, died,
                   stopVars, raised>>

DeliverStage(w) ==
    /\ At(w, "deliver")
    /\ Deliver(Key(w), step[w])
    /\ step' = [step EXCEPT ![w] = @ + 1]
    /\ Go(w, "plan")
    /\ UNCHANGED <<queueVars, future, awaiting, hold, batch, cur, fed, spoiled, died,
                   stopVars, raised>>

GraphDone(w) ==
    /\ At(w, "plan") /\ step[w] > Last
    /\ Go(w, "seal")
    /\ UNCHANGED <<collectorVars, queueVars, future, awaiting, hold, workVars,
                   stopVars, raised>>

\* execute() raised outside a stage: the finally seals.
GraphRaises(w) ==
    /\ "raise" \in Environment
    /\ At(w, "plan") /\ step[w] <= Last
    /\ died' = died \cup {cur[w]}
    /\ spoiled' = IF step[w] = 1 THEN spoiled \cup {cur[w]} ELSE spoiled
    /\ Go(w, "seal")
    /\ UNCHANGED <<collectorVars, queueVars, future, awaiting, hold, batch, cur, step, fed,
                   stopVars, raised>>

\* A stage that never answers.
Wedge(w) ==
    /\ "wedge" \in Environment
    /\ At(w, "run")
    /\ Go(w, "wedged")
    /\ UNCHANGED <<collectorVars, queueVars, future, awaiting, hold, workVars,
                   stopVars, raised>>

\* seal() returns early for a frame that has left.
SealFrame(w) ==
    /\ At(w, "seal")
    /\ IF Key(w) \in pending THEN Seal(w, Key(w)) ELSE UNCHANGED collectorVars
    /\ Go(w, "sealed")
    /\ UNCHANGED <<queueVars, future, awaiting, hold, workVars, stopVars, raised>>

\* Back in _work(): an exception is handled by failing the future, unless
\* it is done().
FrameDone(w) ==
    /\ At(w, "sealed")
    /\ IF (cur[w] \in died \/ w \in raised) /\ future[cur[w]] = "pending"
       THEN Go(w, "failing") /\ UNCHANGED cur
       ELSE Go(w, "next") /\ cur' = [cur EXCEPT ![w] = None]
    /\ raised' = raised \ {w}
    /\ UNCHANGED <<collectorVars, queueVars, future, awaiting, hold, batch, step, fed,
                   spoiled, died,
                   stopVars>>

FailItem(w) ==
    /\ At(w, "failing") /\ future[cur[w]] = "pending"
    /\ Fail({cur[w]})
    /\ Go(w, "next")
    /\ cur' = [cur EXCEPT ![w] = None]
    /\ UNCHANGED <<collectorVars, queueVars, awaiting, hold, batch, step, fed, spoiled, died,
                   stopVars, raised>>

\* Resolved since it was looked at: fail() raises in the handler, and the
\* thread ends with the rest of its batch.
WorkerDies(w) ==
    /\ At(w, "failing") /\ future[cur[w]] # "pending"
    /\ Go(w, "dead")
    /\ UNCHANGED <<collectorVars, queueVars, future, awaiting, hold, workVars,
                   stopVars, raised>>

-----------------------------------------------------------------------------
(* The sweeper.                                                            *)

SweeperWakes ==
    /\ At(Sweeper, "wait")
    /\ Go(Sweeper, IF stopping THEN "exit" ELSE "sweep")
    /\ UNCHANGED <<collectorVars, queueVars, future, awaiting, hold, workVars,
                   stopVars, raised>>

SweepOnce(expired) ==
    /\ At(Sweeper, "sweep")
    /\ Sweep(Sweeper, expired)
    /\ Go(Sweeper, "wait")
    /\ UNCHANGED <<queueVars, future, awaiting, hold, workVars, stopVars, raised>>

-----------------------------------------------------------------------------
(* Emission: _publish(), _emit() and _emit_resolved(), on any thread.      *)

\* Fault: the future stays registered.
EmitKeepsFuture(t, r) ==
    /\ hold[t] = Idle
    /\ Publish(t, r)
    /\ hold' = [hold EXCEPT ![t] = [item |-> awaiting[r.key], reason |-> r.reason]]
    /\ UNCHANGED <<queueVars, future, awaiting, pc, workVars, stopVars, raised>>

EmitBegins(t, r) ==
    /\ hold[t] = Idle
    /\ Publish(t, r)
    /\ hold' = [hold EXCEPT ![t] = [item |-> awaiting[r.key], reason |-> r.reason]]
    /\ awaiting' = [awaiting EXCEPT ![r.key] = None]
    /\ UNCHANGED <<queueVars, future, pc, workVars, stopVars, raised>>

\* A future somebody else has resolved meanwhile: claiming it raises.
Stolen(t) == hold[t].item # None /\ future[hold[t].item] # "pending"

Settle(t, how) ==
    /\ hold[t] # Idle
    /\ future' = IF hold[t].item = None \/ Stolen(t) THEN future
                 ELSE [future EXCEPT ![hold[t].item] = how]
    /\ hold' = [hold EXCEPT ![t] = Idle]
    /\ UNCHANGED <<collectorVars, queueVars, awaiting, pc, workVars, stopVars, raised>>

\* Evicted, or the event could not be built; a stolen future is logged here.
EmitWithoutEvent(t) == Settle(t, "error")

EmitPublishes(t) == hold[t].reason # "evicted" /\ ~sinkClosed /\ Settle(t, "result")

\* The sink is closed or refused the event, outside any try.
EmitRefused(t) ==
    /\ hold[t].reason # "evicted"
    /\ ~Stolen(t)
    /\ Settle(t, "error")

EmitRaises(t) ==
    /\ hold[t] # Idle /\ hold[t].reason # "evicted"
    /\ Stolen(t)
    /\ hold' = [hold EXCEPT ![t] = Idle]
    /\ out' = [out EXCEPT ![t] = {}]
    /\ pc' = [pc EXCEPT ![t] = IF t = Stopper THEN "raised" ELSE @]
    /\ raised' = raised \cup {t}
    /\ UNCHANGED <<pending, byCamera, frame, opened, reported, gauge, gauged, queueVars, future,
                   awaiting, workVars, stopVars>>

Emit(t) ==
    \/ \E r \in out[t] : EmitBegins(t, r)
    \/ EmitWithoutEvent(t) \/ EmitPublishes(t) \/ EmitRefused(t) \/ EmitRaises(t)

-----------------------------------------------------------------------------
(* stop().                                                                 *)

StopBegins ==
    /\ "stop" \in Environment
    /\ At(Stopper, "up")
    /\ stopping' = TRUE
    /\ Go(Stopper, "close")
    /\ UNCHANGED <<collectorVars, queueVars, future, awaiting, hold, workVars, toJoin, toCancel,
                   sinkClosed, staged, raised>>

\* Fault: the queue is closed and keeps what it holds.
StopClosesQueueUndrained ==
    /\ At(Stopper, "close")
    /\ closed' = TRUE
    /\ Go(Stopper, "join")
    /\ UNCHANGED <<collectorVars, queue, future, awaiting, hold, workVars, stopVars, raised>>

StopClosesQueue ==
    /\ At(Stopper, "close")
    /\ closed' = TRUE /\ queue' = {}
    /\ Fail(queue)
    /\ awaiting' = [k \in Keys |-> IF k \in {KeyOf[i] : i \in queue} THEN None ELSE awaiting[k]]
    /\ Go(Stopper, "join")
    /\ UNCHANGED <<collectorVars, hold, workVars, stopVars, raised>>

Ended(t) == pc[t] \in {"exit", "dead"}

\* join(timeout_s): whether it timed out is not looked at.
StopJoins(w) ==
    /\ At(Stopper, "join") /\ w \in toJoin
    /\ Ended(w) \/ "timeout" \in Environment
    /\ toJoin' = toJoin \ {w}
    /\ UNCHANGED <<collectorVars, queueVars, future, awaiting, hold, pc, workVars, stopping,
                   toCancel, sinkClosed, staged, raised>>

StopJoinsSweeper ==
    /\ At(Stopper, "join") /\ toJoin = {}
    /\ Ended(Sweeper) \/ "timeout" \in Environment
    /\ Go(Stopper, "drain")
    /\ UNCHANGED <<collectorVars, queueVars, future, awaiting, hold, workVars,
                   stopVars, raised>>

StopDrains ==
    /\ At(Stopper, "drain")
    /\ Drain(Stopper)
    /\ Go(Stopper, "copy")
    /\ UNCHANGED <<queueVars, future, awaiting, hold, workVars, stopVars, raised>>

\* list(self._awaiting.items())
StopCopies ==
    /\ At(Stopper, "copy")
    /\ toCancel' = {<<k, awaiting[k]>> : k \in {l \in Keys : awaiting[l] # None}}
    /\ Go(Stopper, "cancel")
    /\ UNCHANGED <<collectorVars, queueVars, future, awaiting, hold, workVars, stopping, toJoin,
                   sinkClosed, staged, raised>>

\* One of the copy: the entry goes, and its future fails, or claiming it raises.
StopCancels(k, i) ==
    /\ At(Stopper, "cancel") /\ <<k, i>> \in toCancel
    /\ awaiting' = [awaiting EXCEPT ![k] = None]
    /\ toCancel' = toCancel \ {<<k, i>>}
    /\ IF future[i] = "pending"
       THEN Fail({i}) /\ UNCHANGED pc
       ELSE Go(Stopper, "raised") /\ UNCHANGED future
    /\ UNCHANGED <<collectorVars, queueVars, hold, workVars, stopping, toJoin, sinkClosed,
                   staged, raised>>

StopClosesSink ==
    /\ At(Stopper, "cancel") /\ toCancel = {}
    /\ sinkClosed' = TRUE
    /\ Go(Stopper, "release")
    /\ UNCHANGED <<collectorVars, queueVars, future, awaiting, hold, workVars, stopping, toJoin,
                   toCancel, staged, raised>>

StopReleases ==
    /\ At(Stopper, "release")
    /\ staged' = FALSE
    /\ Go(Stopper, "down")
    /\ UNCHANGED <<collectorVars, queueVars, future, awaiting, hold, workVars, stopping, toJoin,
                   toCancel, sinkClosed, raised>>

-----------------------------------------------------------------------------
Work(w) ==
    \/ TestStopping(w) \/ TakeItems(w) \/ PollEmpty(w) \/ QueueClosed(w) \/ BatchDone(w)
    \/ \E i \in Items : RejectItem(w, i) \/ BeginFrame(w, i)
    \/ OpenFrame(w) \/ RefuseFrame(w) \/ Plan(w) \/ StageRuns(w) \/ StageFails(w)
    \/ DeliverStage(w) \/ GraphDone(w) \/ GraphRaises(w) \/ SealFrame(w)
    \/ FrameDone(w) \/ FailItem(w) \/ WorkerDies(w) \/ Emit(w)

SweeperStep ==
    \/ SweeperWakes \/ (\E ks \in SUBSET pending : SweepOnce(ks)) \/ Emit(Sweeper)

Stop ==
    \/ StopClosesQueue \/ (\E w \in Workers : StopJoins(w)) \/ StopJoinsSweeper
    \/ StopDrains \/ StopCopies \/ (\E k \in Keys, i \in Items : StopCancels(k, i))
    \/ StopClosesSink \/ StopReleases \/ Emit(Stopper)

Next ==
    \/ \E i \in Items : Put(i) \/ Shed(i)
    \/ \E w \in Workers : Work(w) \/ Wedge(w)
    \/ SweeperStep
    \/ StopBegins \/ Stop

Spec == Init /\ [][Next]_vars

\* Threads that are not wedged run; the sweeper's clock passes every deadline;
\* stop() goes on once it was called.
LiveSpec ==
    /\ Spec
    /\ \A w \in Workers : WF_vars(Work(w))
    /\ WF_vars(SweeperStep)
    /\ \A k \in Keys : SF_vars(\E ks \in SUBSET pending : k \in ks /\ SweepOnce(ks))
    /\ WF_vars(Stop)

-----------------------------------------------------------------------------
Places ==
    {"loop", "get", "next", "open", "plan", "run", "deliver", "seal", "sealed", "failing",
     "dead", "wedged", "exit", "wait", "sweep", "up", "close", "join", "drain", "copy",
     "cancel", "release", "down", "raised"}

\* Every variable keeps to its type.
PipelineTypeOK ==
    /\ CollectorTypeOK
    /\ queue \subseteq Items /\ closed \in BOOLEAN
    /\ future \in [Items -> {"none", "pending", "result", "error"}]
    /\ awaiting \in [Keys -> Items \cup {None}]
    /\ hold \in [Threads -> [item: Items \cup {None}, reason: Reasons \cup {"none"}]]
    /\ pc \in [Threads -> Places]
    /\ batch \in [Workers -> SUBSET Items]
    /\ cur \in [Workers -> Items \cup {None}]
    /\ step \in [Workers -> 1 .. Last + 1]
    /\ fed \in [Workers -> SUBSET (Stages \X Stages)]
    /\ toJoin \subseteq Workers /\ toCancel \subseteq Keys \X Items
    /\ spoiled \subseteq Items /\ died \subseteq Items /\ raised \subseteq Threads

\* No other frame carries the tag of i; no sweep or drain was cut short.
OwnTag(i) == \A j \in Items \ {i} : KeyOf[j] # KeyOf[i]
SweptWhole == raised \cap {Sweeper, Stopper} = {}

\* A frame whose future is unresolved, and whose tag is its own, is somewhere it
\* can still be answered from: in the queue, with a worker that has not
\* registered it yet, in _awaiting under its tag, or with the thread that is
\* emitting it.
NoFutureLost ==
    \A i \in Items : future[i] = "pending" /\ OwnTag(i) =>
        \/ i \in queue
        \/ \E w \in Workers : i \in batch[w] /\ pc[w] # "dead"
        \/ awaiting[KeyOf[i]] = i
        \/ \E t \in Threads : hold[t].item = i

\* A registered future has a frame behind it, or a worker that is about to
\* open one: the map does not grow with frames that have been emitted.
AwaitingIsBacked ==
    SweptWhole => \A k \in Keys : awaiting[k] # None =>
        \/ k \in pending
        \/ \E w \in Workers : cur[w] = awaiting[k] /\ pc[w] = "open"
        \/ \E t \in Threads : \E r \in out[t] : r.key = k

\* _awaiting is exact in both directions: nothing unresolved is missing from
\* it, and nothing stays in it that has left.
FuturesTracked == PipelineTypeOK /\ NoFutureLost /\ AwaitingIsBacked

\* A frame that lost a stage, and whose tag is its own, is never reported
\* complete: not even one whose graph raised before its first stage was planned.
CompleteMeansWhole ==
    \A t \in Threads : \A r \in out[t] :
        r.reason = "complete" => \A i \in spoiled : OwnTag(i) => KeyOf[i] # r.key

\* Whoever emits a frame, and whatever is raised or times out meanwhile, it is
\* handed to the sink at most once.
ReportedAtMostOnce ==
    \A n \in 1 .. opened :
        Cardinality(Waiting(n)) + Cardinality(InHand(n)) + reported[n] <= 1

\* When stop() has returned and the last thread that outlived its join has
\* ended, every frame is accounted for: nothing waits, each opened frame was
\* reported once, and every future has an answer.
NothingLeftBehind ==
    pc[Stopper] = "down" /\ SweptWhole /\ (\A t \in Threads \ {Stopper} : pc[t] = "exit") =>
        /\ pending = {} /\ queue = {}
        /\ \A n \in 1 .. opened : reported[n] = 1
        /\ \A i \in Items : OwnTag(i) => future[i] # "pending" /\ awaiting[KeyOf[i]] = None

\* A future stays with the runner until it is answered, no frame is published
\* twice, and a stop() leaves nothing behind.
NoFutureForgotten == FuturesTracked /\ ReportedAtMostOnce /\ NothingLeftBehind

\* The map of awaited futures follows the frames that are really open, for
\* workers that pass each other, with two frames of one tag too.
AwaitedAreOpen == FuturesTracked /\ NothingLeftBehind

\* Every accepted frame's future is resolved, through a stop() whose joins time
\* out as well.  A stage that never answers costs no future but those its worker
\* had not registered, as long as the pipeline is not being stopped: the sweeper
\* emits the frame the worker holds.
Resolved(i) ==
    \/ future[i] \in {"result", "error"}
    \/ \E w \in Workers : pc[w] = "wedged" /\ (stopping \/ i \in batch[w])
    \/ i \in queue /\ \A w \in Workers : pc[w] = "wedged"

EveryFutureResolved == \A i \in Items : (future[i] = "pending") ~> Resolved(i)

\* runner.py, _work(): "A worker thread that dies stops serving every camera,
\* so the loop survives one bad frame".
LoopSurvives == \A w \in Workers : pc[w] # "dead"
=============================================================================
