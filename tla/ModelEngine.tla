----------------------------- MODULE ModelEngine -----------------------------
(***************************************************************************)
(* One model and its instances: Model (engine/model.py) starting, serving  *)
(* and stopping a row of ModelInstances (engine/instance.py), each a       *)
(* worker thread over its own request queue, the Dispatcher                *)
(* (scheduling/dispatcher.py) placing requests on them, and the execution  *)
(* slots they share (scheduling/limits/concurrency.py).                    *)
(*                                                                         *)
(* Queues keep the contract of module RequestQueue under REJECT: what one  *)
(* holds is a set here, its order is FairQueue's business.  One control    *)
(* thread starts and stops instances (the server's control lock); worker   *)
(* threads and callers interleave with it at every shared flag.            *)
(***************************************************************************)
EXTENDS Integers, FiniteSets

CONSTANTS
    N,          \* number of instances of the model
    Requests,   \* one infer() call each
    Capacities, \* what scheduler.max_queue_size may be
    MaxBatch,   \* BatchWindow.max_batch_size
    Limit,      \* rate_limiter.max_concurrent_executions
    Strict      \* settings.strict_startup

ASSUME EngineAssumption ==
    /\ N \in Nat \ {0}
    /\ IsFiniteSet(Requests)
    /\ Capacities \subseteq Nat \ {0} /\ MaxBatch \in Nat \ {0} /\ Limit \in Nat \ {0}
    /\ Strict \in BOOLEAN

Instances == 1 .. N

VARIABLES
    capacity,   \* scheduler.max_queue_size, as configured
    ctl,        \* [op, at]: what the control thread does, and to which instance
    stop,       \* where it is in ModelInstance.stop()
    worker,     \* [Instances -> the worker thread's place in _run()]
    running, ready, counted, stopped, abandoned, startError,  \* flags, as the
                \* sets of instances on which they are set
    backend,    \* [Instances -> {"raw", "loaded", "finalized"}]
    gauge,      \* metrics.instances_ready
    closed,     \* SUBSET Instances: queues closed
    queue,      \* [Instances -> SUBSET Requests]
    flight,     \* [Instances -> SUBSET Requests]: in_flight
    todo,       \* [Instances -> SUBSET Requests]: not yet completed of it
    slots,      \* SUBSET Instances: holders of an execution slot
    future,     \* [Requests -> state of the ResponseFuture]
    call,       \* [Requests -> [pc, left]]: the caller, in Dispatcher.dispatch()
    broken      \* a future was resolved twice (InvalidStateError)

ctlVars == <<capacity, ctl, stop>>
flagVars == <<running, ready, counted, stopped, abandoned, startError>>
workVars == <<closed, queue, flight, todo, slots>>
callVars == <<future, call, broken>>
vars == <<ctlVars, worker, flagVars, backend, gauge, workVars, callVars>>

Init ==
    /\ capacity \in Capacities
    /\ ctl = [op |-> "start", at |-> 1]
    /\ stop = "idle"
    /\ worker = [n \in Instances |-> "none"]
    /\ running = {} /\ ready = {} /\ counted = {}
    /\ stopped = {} /\ abandoned = {} /\ startError = {}
    /\ backend = [n \in Instances |-> "raw"]
    /\ gauge = 0
    /\ closed = {}
    /\ queue = [n \in Instances |-> {}]
    /\ flight = [n \in Instances |-> {}]
    /\ todo = [n \in Instances |-> {}]
    /\ slots = {}
    /\ future = [r \in Requests |-> "none"]
    /\ call = [r \in Requests |-> [pc |-> "new", left |-> {}]]
    /\ broken = FALSE

-----------------------------------------------------------------------------
(* Futures.  set_running_or_notify_cancel() then set_result() or           *)
(* set_exception(): a cancelled future is only marked as notified, and one *)
(* that is already resolved raises.                                        *)

Done(r) == future[r] \in {"cancelled", "notified", "result", "error"}

Resolve(rs, how) ==
    /\ future' = [r \in Requests |->
                     IF r \notin rs THEN future[r]
                     ELSE IF future[r] = "cancelled" THEN "notified" ELSE how]
    /\ broken' = (broken \/ \E r \in rs : future[r] \notin {"pending", "cancelled"})

\* RequestQueue.close(): idempotent, fails what it drains.
CloseQueue(n) ==
    /\ closed' = closed \cup {n}
    /\ queue' = [queue EXCEPT ![n] = {}]
    /\ Resolve(queue[n], "error")

-----------------------------------------------------------------------------
(* Model.start(), _unwind() and stop(), on the control thread.             *)

Started == ctl.op \in {"up", "stop"}

StartInstance ==
    /\ ctl.op = "start"
    /\ IF ctl.at \in Instances
       THEN /\ running' = running \cup {ctl.at}
            /\ worker' = [worker EXCEPT ![ctl.at] = "loading"]
            /\ ctl' = [ctl EXCEPT !.at = @ + 1]
       ELSE /\ ctl' = [op |-> "wait", at |-> 1]
            /\ UNCHANGED <<running, worker>>
    /\ UNCHANGED <<capacity, stop, ready, counted, stopped, abandoned, startError, backend,
                   gauge, workVars, callVars>>

\* wait_ready(): settled, or the deadline passed.
WaitReady ==
    /\ ctl.op = "wait"
    /\ ctl' = IF ctl.at \in Instances
              THEN IF ctl.at \notin ready /\ Strict
                   THEN [op |-> "unwind", at |-> N]
                   ELSE [ctl EXCEPT !.at = @ + 1]
              ELSE IF startError = Instances
                   THEN [op |-> "unwind", at |-> N]
                   ELSE [op |-> "up", at |-> 1]
    /\ UNCHANGED <<capacity, stop, worker, flagVars, backend, gauge, workVars, callVars>>

\* _check_abort(), before each instance: the owner wants this start to give up.
AbortStart ==
    /\ ctl.op \in {"start", "wait"} /\ ctl.at \in Instances
    /\ ctl' = [op |-> "unwind", at |-> IF ctl.op = "start" THEN ctl.at - 1 ELSE N]
    /\ UNCHANGED <<capacity, stop, worker, flagVars, backend, gauge, workVars, callVars>>

\* The owner stops a model that is up, or whose start has failed.
StopModel ==
    /\ ctl.op \in {"up", "failed"}
    /\ ctl' = [op |-> "stop", at |-> 1]
    /\ UNCHANGED <<capacity, stop, worker, flagVars, backend, gauge, workVars, callVars>>

\* The next instance: newest first when unwinding.
Advance ==
    /\ stop' = "idle"
    /\ ctl' = [ctl EXCEPT !.at = IF ctl.op = "unwind" THEN @ - 1 ELSE @ + 1]

AllStopped ==
    /\ ctl.op \in {"unwind", "stop"} /\ ctl.at \notin Instances
    /\ ctl' = [ctl EXCEPT !.op = IF @ = "unwind" THEN "failed" ELSE "down"]
    /\ UNCHANGED <<capacity, stop, worker, flagVars, backend, gauge, workVars, callVars>>

Stopping(n) == ctl.op \in {"unwind", "stop"} /\ ctl.at = n

StopBegin(n) ==
    /\ Stopping(n) /\ stop = "idle"
    /\ IF n \in stopped
       THEN Advance /\ UNCHANGED <<running, ready, stopped>>
       ELSE /\ stopped' = stopped \cup {n}
            /\ running' = running \ {n}
            /\ ready' = ready \ {n}
            /\ stop' = "close"
            /\ UNCHANGED ctl
    /\ UNCHANGED <<capacity, worker, counted, abandoned, startError, backend, gauge,
                   workVars, callVars>>

StopClose(n) ==
    /\ Stopping(n) /\ stop = "close"
    /\ CloseQueue(n)
    /\ stop' = "join"
    /\ UNCHANGED <<capacity, ctl, worker, flagVars, backend, gauge, flight, todo, slots, call>>

\* The worker ended, or there never was one.
StopJoined(n) ==
    /\ Stopping(n) /\ stop = "join"
    /\ worker[n] \in {"none", "done"}
    /\ stop' = "finalize"
    /\ UNCHANGED <<capacity, ctl, worker, flagVars, backend, gauge, workVars, callVars>>

\* Fault: the join timed out and nobody remembers.
JoinTimesOutSilently(n) ==
    /\ Stopping(n) /\ stop = "join"
    /\ worker[n] \notin {"none", "done"}
    /\ stop' = "finalize"
    /\ UNCHANGED <<capacity, ctl, worker, flagVars, backend, gauge, workVars, callVars>>

JoinTimesOut(n) ==
    /\ Stopping(n) /\ stop = "join"
    /\ worker[n] \notin {"none", "done"}
    /\ abandoned' = abandoned \cup {n}
    /\ stop' = "finalize"
    /\ UNCHANGED <<capacity, ctl, worker, running, ready, counted, stopped, startError, backend,
                   gauge, workVars, callVars>>

StopFinalize(n) ==
    /\ Stopping(n) /\ stop = "finalize"
    /\ backend' = IF n \in abandoned THEN backend
                  ELSE [backend EXCEPT ![n] = "finalized"]
    /\ stop' = "count"
    /\ UNCHANGED <<capacity, ctl, worker, flagVars, gauge, workVars, callVars>>

StopUncount(n) ==
    /\ Stopping(n) /\ stop = "count"
    /\ IF n \in counted
       THEN counted' = counted \ {n} /\ stop' = "dec" /\ UNCHANGED ctl
       ELSE Advance /\ UNCHANGED counted
    /\ UNCHANGED <<capacity, worker, running, ready, stopped, abandoned, startError, backend,
                   gauge, workVars, callVars>>

StopDec(n) ==
    /\ Stopping(n) /\ stop = "dec"
    /\ gauge' = gauge - 1
    /\ Advance
    /\ UNCHANGED <<capacity, worker, flagVars, backend, workVars, callVars>>

-----------------------------------------------------------------------------
(* ModelInstance._run(), on the instance's worker thread.                  *)

At(n, pc) == worker[n] = pc
Goto(n, pc) == worker' = [worker EXCEPT ![n] = pc]

\* initialize() and warmup() succeeded: _ready.set().
LoadSucceeds(n) ==
    /\ At(n, "loading") /\ Goto(n, "ready")
    /\ backend' = [backend EXCEPT ![n] = "loaded"]
    /\ ready' = ready \cup {n}
    /\ UNCHANGED <<ctlVars, running, counted, stopped, abandoned, startError, gauge,
                   workVars, callVars>>

LoadFails(n) ==
    /\ At(n, "loading") /\ Goto(n, "done")
    /\ startError' = startError \cup {n}
    /\ CloseQueue(n)
    /\ UNCHANGED <<ctlVars, running, ready, counted, stopped, abandoned, backend,
                   gauge, flight, todo, slots, call>>

CountReady(n) ==
    /\ At(n, "ready") /\ Goto(n, "counted")
    /\ counted' = counted \cup {n}
    /\ UNCHANGED <<ctlVars, running, ready, stopped, abandoned, startError, backend,
                   gauge, workVars, callVars>>

IncReady(n) ==
    /\ At(n, "counted") /\ Goto(n, "loop")
    /\ gauge' = gauge + 1
    /\ UNCHANGED <<ctlVars, flagVars, backend, workVars, callVars>>

\* while self._running.is_set()
TestRunning(n) ==
    /\ At(n, "loop")
    /\ Goto(n, IF n \in running THEN "get" ELSE "leave")
    /\ UNCHANGED <<ctlVars, flagVars, backend, gauge, workVars, callVars>>

\* get_batch() on a closed queue: nothing.
EmptyBatch(n) ==
    /\ At(n, "get") /\ n \in closed
    /\ Goto(n, "loop")
    /\ UNCHANGED <<ctlVars, flagVars, backend, gauge, workVars, callVars>>

TakeBatch(n) ==
    /\ At(n, "get")
    /\ \E rs \in SUBSET queue[n] :
          /\ rs # {} /\ Cardinality(rs) <= MaxBatch
          /\ flight' = [flight EXCEPT ![n] = rs]
          /\ queue' = [queue EXCEPT ![n] = @ \ rs]
    /\ Goto(n, "slot")
    /\ UNCHANGED <<ctlVars, flagVars, backend, gauge, closed, todo, slots, callVars>>

\* _execute_when_permitted(): the acquire is tried before the running flag.
AcquireSlot(n) ==
    /\ At(n, "slot") /\ Cardinality(slots) < Limit
    /\ slots' = slots \cup {n}
    /\ Goto(n, "execute")
    /\ UNCHANGED <<ctlVars, flagVars, backend, gauge, closed, queue, flight, todo, callVars>>

\* No slot, and the server is stopping.
GiveUpSlot(n) ==
    /\ At(n, "slot") /\ Cardinality(slots) >= Limit /\ n \notin running
    /\ Resolve(flight[n], "error")
    /\ flight' = [flight EXCEPT ![n] = {}]
    /\ Goto(n, "loop")
    /\ UNCHANGED <<ctlVars, flagVars, backend, gauge, closed, queue, todo, slots, call>>

\* assemble(), execute() or scatter() raised: the batch fails, not the worker.
ExecuteFails(n) ==
    /\ At(n, "execute")
    /\ Resolve(flight[n], "error")
    /\ flight' = [flight EXCEPT ![n] = {}]
    /\ slots' = slots \ {n}
    /\ Goto(n, "loop")
    /\ UNCHANGED <<ctlVars, flagVars, backend, gauge, closed, queue, todo, call>>

ExecuteSucceeds(n) ==
    /\ At(n, "execute")
    /\ todo' = [todo EXCEPT ![n] = flight[n]]
    /\ Goto(n, "complete")
    /\ UNCHANGED <<ctlVars, flagVars, backend, gauge, closed, queue, flight, slots, callVars>>

CompleteOne(n, r) ==
    /\ At(n, "complete") /\ r \in todo[n]
    /\ Resolve({r}, "result")
    /\ todo' = [todo EXCEPT ![n] = @ \ {r}]
    /\ UNCHANGED <<ctlVars, worker, flagVars, backend, gauge, closed, queue, flight,
                   slots, call>>

BatchDone(n) ==
    /\ At(n, "complete") /\ todo[n] = {}
    /\ flight' = [flight EXCEPT ![n] = {}]
    /\ slots' = slots \ {n}
    /\ Goto(n, "loop")
    /\ UNCHANGED <<ctlVars, flagVars, backend, gauge, closed, queue, todo, callVars>>

\* Fault: the slot is released only on the way out of a successful batch.
EscapeKeepsSlot(n) ==
    /\ At(n, "complete")
    /\ running' = running \ {n}
    /\ startError' = startError \cup {n}
    /\ Goto(n, "leave")
    /\ UNCHANGED <<ctlVars, ready, counted, stopped, abandoned, backend, gauge,
                   workVars, callVars>>

\* An exception outside the guarded calls (a metric, a trace, zip's strict)
\* while some of the batch is completed and some is not.
Escape(n) ==
    /\ At(n, "complete")
    /\ slots' = slots \ {n}
    /\ running' = running \ {n}
    /\ startError' = startError \cup {n}
    /\ Goto(n, "leave")
    /\ UNCHANGED <<ctlVars, ready, counted, stopped, abandoned, backend, gauge, closed,
                   queue, flight, todo, callVars>>

\* Fault: a dying worker goes on advertising.
LeaveReadySet(n) ==
    /\ At(n, "leave")
    /\ Goto(n, IF n \in ready /\ n \in counted THEN "dec" ELSE "close")
    /\ UNCHANGED <<ctlVars, flagVars, backend, gauge, workVars, callVars>>

\* The finally: stop advertising ...
LeaveReady(n) ==
    /\ At(n, "leave")
    /\ ready' = ready \ {n}
    /\ Goto(n, IF n \in ready /\ n \in counted THEN "dec" ELSE "close")
    /\ UNCHANGED <<ctlVars, running, counted, stopped, abandoned, startError, backend,
                   gauge, workVars, callVars>>

LeaveDec(n) ==
    /\ At(n, "dec") /\ Goto(n, "uncount")
    /\ gauge' = gauge - 1
    /\ UNCHANGED <<ctlVars, flagVars, backend, workVars, callVars>>

LeaveUncount(n) ==
    /\ At(n, "uncount") /\ Goto(n, "close")
    /\ counted' = counted \ {n}
    /\ UNCHANGED <<ctlVars, running, ready, stopped, abandoned, startError, backend,
                   gauge, workVars, callVars>>

\* Fault: only what is still in the queue is failed.
LeaveCloseStrands(n) ==
    /\ At(n, "close") /\ Goto(n, "done")
    /\ CloseQueue(n)
    /\ UNCHANGED <<ctlVars, flagVars, backend, gauge, slots, call, flight, todo>>

\* ... then fail the queue and whatever of the batch has no answer yet.
LeaveClose(n) ==
    /\ At(n, "close") /\ Goto(n, "done")
    /\ closed' = closed \cup {n}
    /\ queue' = [queue EXCEPT ![n] = {}]
    /\ Resolve(queue[n] \cup {r \in flight[n] : ~Done(r)}, "error")
    /\ flight' = [flight EXCEPT ![n] = {}]
    /\ todo' = [todo EXCEPT ![n] = {}]
    /\ UNCHANGED <<ctlVars, flagVars, backend, gauge, slots, call>>

-----------------------------------------------------------------------------
(* Model._infer() and Dispatcher.dispatch(), on a caller's thread.         *)

Infer(r) ==
    /\ Started /\ call[r].pc = "new"
    /\ call' = [call EXCEPT ![r] = IF ready = {} THEN [pc |-> "unready", left |-> {}]
                                   ELSE [pc |-> "placing", left |-> ready]]
    /\ future' = [future EXCEPT ![r] = "pending"]
    /\ UNCHANGED <<ctlVars, worker, flagVars, backend, gauge, workVars, broken>>

\* enqueue() on an instance the list of ready ones was read with.  The first
\* is the policy's choice, the others come shortest queue first by depths read
\* without a lock: any order.
PlaceAccepted(r, n) ==
    /\ call[r].pc = "placing" /\ n \in call[r].left
    /\ n \notin closed /\ Cardinality(queue[n]) < capacity
    /\ queue' = [queue EXCEPT ![n] = @ \cup {r}]
    /\ call' = [call EXCEPT ![r] = [pc |-> "accepted", left |-> {}]]
    /\ UNCHANGED <<ctlVars, worker, flagVars, backend, gauge, closed, flight, todo,
                   slots, future, broken>>

\* Not caught: only QueueFullError moves on to the next instance.
PlaceClosed(r, n) ==
    /\ call[r].pc = "placing" /\ n \in call[r].left
    /\ n \in closed
    /\ call' = [call EXCEPT ![r] = [pc |-> "closed", left |-> {}]]
    /\ UNCHANGED <<ctlVars, worker, flagVars, backend, gauge, workVars, future, broken>>

PlaceFull(r, n) ==
    /\ call[r].pc = "placing" /\ n \in call[r].left
    /\ n \notin closed /\ Cardinality(queue[n]) >= capacity
    /\ call' = [call EXCEPT ![r] =
                   LET rest == @.left \ {n}
                   IN  [pc |-> IF rest = {} THEN "full" ELSE "placing", left |-> rest]]
    /\ UNCHANGED <<ctlVars, worker, flagVars, backend, gauge, workVars, future, broken>>

\* The caller gives up on an answer it was promised.
Cancel(r) ==
    /\ call[r].pc = "accepted" /\ future[r] = "pending"
    /\ future' = [future EXCEPT ![r] = "cancelled"]
    /\ UNCHANGED <<ctlVars, worker, flagVars, backend, gauge, workVars, call, broken>>

-----------------------------------------------------------------------------
StopInstance(n) ==
    \/ StopBegin(n) \/ StopClose(n) \/ StopJoined(n) \/ JoinTimesOut(n)
    \/ StopFinalize(n) \/ StopUncount(n) \/ StopDec(n)

Control ==
    \/ StartInstance \/ WaitReady \/ AllStopped
    \/ \E n \in Instances : StopInstance(n)

Work(n) ==
    \/ LoadSucceeds(n) \/ LoadFails(n) \/ CountReady(n) \/ IncReady(n)
    \/ TestRunning(n) \/ EmptyBatch(n) \/ TakeBatch(n)
    \/ AcquireSlot(n) \/ GiveUpSlot(n) \/ ExecuteFails(n) \/ ExecuteSucceeds(n)
    \/ (\E r \in Requests : CompleteOne(n, r)) \/ BatchDone(n)
    \/ LeaveReady(n) \/ LeaveDec(n) \/ LeaveUncount(n) \/ LeaveClose(n)

Place(r) == \E n \in Instances : PlaceAccepted(r, n) \/ PlaceClosed(r, n) \/ PlaceFull(r, n)

Next ==
    \/ Control \/ AbortStart \/ StopModel
    \/ \E n \in Instances : Work(n) \/ Escape(n)
    \/ \E r \in Requests : Infer(r) \/ Place(r) \/ Cancel(r)

Spec == Init /\ [][Next]_vars

\* Threads that can run do: the control thread once it starts or stops, each
\* worker (a load, an execute() or a join does return), some caller inside
\* dispatch().  Nobody has to call infer(), cancel or stop.
LiveSpec ==
    /\ Spec
    /\ WF_vars(Control)
    /\ \A n \in Instances : WF_vars(Work(n))
    /\ WF_vars(\E r \in Requests : Place(r))

-----------------------------------------------------------------------------
WorkerStates == {"none", "loading", "ready", "counted", "loop", "get", "slot",
                 "execute", "complete", "leave", "dec", "uncount", "close", "done"}

\* Every variable keeps to its type.
TypeOK ==
    /\ capacity \in Capacities
    /\ ctl \in [op: {"start", "wait", "unwind", "failed", "up", "stop", "down"},
                at: 0 .. N + 1]
    /\ stop \in {"idle", "close", "join", "finalize", "count", "dec"}
    /\ worker \in [Instances -> WorkerStates]
    /\ \A flag \in {running, ready, counted, stopped, abandoned, startError, closed, slots} :
          flag \subseteq Instances
    /\ backend \in [Instances -> {"raw", "loaded", "finalized"}]
    /\ gauge \in Int
    /\ \A held \in {queue, flight, todo} : held \in [Instances -> SUBSET Requests]
    /\ future \in [Requests ->
          {"none", "pending", "cancelled", "notified", "result", "error"}]
    /\ call \in [Requests ->
          [pc: {"new", "placing", "accepted", "closed", "full", "unready"},
           left: SUBSET Instances]]
    /\ broken \in BOOLEAN

\* No future is resolved twice, although the queue, the batch in flight, a
\* dying worker and stop() may each fail it and the caller may cancel it.
ResolvedOnce == ~broken

\* stop() never tears down a backend its worker may still be inside: a join
\* that timed out abandons the backend instead.
BackendOutlivesWorker ==
    \A n \in Instances : backend[n] = "finalized" => worker[n] \in {"none", "done"}

\* Execution slots are held exactly by the workers executing, never more than
\* the limit, whatever way a batch ends.
SlotsHeldByExecutors ==
    /\ slots = {n \in Instances : worker[n] \in {"execute", "complete"}}
    /\ Cardinality(slots) <= Limit

Unanswered(r) == call[r].pc = "accepted" /\ ~Done(r)

\* An accepted request without an answer is in the hands of exactly one live
\* worker: a worker that has ended, by a stop, a failed load or an exception
\* in mid-batch, leaves nothing behind.
Custody ==
    \A r \in Requests : Unanswered(r) =>
        \E n \in Instances :
            /\ worker[n] \notin {"none", "done"}
            /\ r \in queue[n] \cup flight[n]
            /\ \A m \in Instances \ {n} : r \notin queue[m] \cup flight[m]

\* The instances_ready gauge counts the ready instances, give or take the one
\* step between a flag and its gauge, as long as no worker was abandoned.
GaugeBalanced ==
    abandoned = {} =>
        gauge = Cardinality(counted) - Cardinality({n \in Instances : worker[n] = "counted"})
                - Cardinality({n \in Instances : worker[n] = "uncount"})
                + (IF stop = "dec" THEN 1 ELSE 0)

\* Every variable keeps to its type, and what is counted is there: execution
\* slots and the readiness gauge, whichever way loads, batches and stops end.
BooksBalance == TypeOK /\ SlotsHeldByExecutors /\ GaugeBalanced

\* Requests are answered from one place: no future is resolved twice, and one
\* that is unresolved is with exactly one live worker.
AnsweredFromOnePlace == ResolvedOnce /\ Custody

\* Every accepted request is answered, through stops, deaths and cancellations:
\* each is accepted once, so in the end none is without an answer.
AllAnswered == \A r \in Requests : ~Unanswered(r)

\* After stop() has returned no instance advertises itself for long: not even
\* one that was still loading and becomes ready after it was abandoned.  (A
\* model that is down stays down.)
Quiet == ctl.op = "down" => ready = {}

\* What was promised is kept in the end: requests have their answers, and a
\* model that was stopped is quiet.
EndsWell == <>[](AllAnswered /\ Quiet)
=============================================================================
