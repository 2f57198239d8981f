-------------------------- MODULE ModelEngineProofs --------------------------
(***************************************************************************)
(* The safety properties of ModelEngine for any number of instances and    *)
(* requests, any queue capacities, batch size and execution limit.         *)
(***************************************************************************)
EXTENDS ModelEngine, FiniteSetTheorems, TLAPS

-----------------------------------------------------------------------------
(* The inductive invariant.                                                *)

Gone == {"none", "done"}          \* there is no worker thread
Early == {"none", "loading"}      \* not ready yet
Holding == {"slot", "execute", "complete", "leave", "dec", "uncount", "close"}

\* Where the control thread is in starting and stopping: an instance whose
\* join is behind it has no worker any more, or was abandoned; nothing is
\* stopped while instances start, and those to come have not started.
ControlOrder ==
    /\ ctl.op \in {"start", "wait", "up"} => stopped = {}
    /\ ctl.op \notin {"unwind", "stop"} => stop = "idle"
    /\ stop # "idle" => ctl.at \in stopped
    /\ stop \in {"finalize", "count", "dec"} => ctl.at \in abandoned \/ worker[ctl.at] \in Gone
    /\ ctl.op = "start" => \A n \in Instances : n >= ctl.at => worker[n] = "none"
    /\ \A n \in Instances : backend[n] = "finalized" => n \in stopped

Held(n) == queue[n] \cup flight[n]

Open(r) == future[r] \in {"pending", "cancelled"}

\* A request is in one place at a time ...
Apart ==
    /\ \A n, m \in Instances : n # m => Held(n) \cap Held(m) = {}
    /\ \A n \in Instances : queue[n] \cap flight[n] = {}

\* ... and whoever resolves it finds its future open: in a queue, in a batch
\* that has not completed, or left over of one that has begun to.
HeldOpen ==
    \A n \in Instances :
        /\ \A r \in queue[n] \cup todo[n] : Open(r)
        /\ worker[n] \in {"slot", "execute"} => \A r \in flight[n] : Open(r)

\* A worker that completes a batch has answered all but `todo' of it.
Completed ==
    \A n \in Instances : worker[n] = "complete" => \A r \in flight[n] \ todo[n] : Done(r)

\* Only accepted requests are held, and an accepted request that has no answer
\* is; a call that is being placed has a future nobody else knows.
CallsKept ==
    /\ \A n \in Instances : \A r \in Held(n) : call[r].pc = "accepted"
    /\ \A r \in Requests : Unanswered(r) => \E n \in Instances : r \in Held(n)
    /\ \A r \in Requests : call[r].pc # "new" => future[r] # "none"
    /\ \A r \in Requests : call[r].pc = "placing" => future[r] = "pending"

\* What a worker's place in _run() says about its queue and its batch: none
\* before it is ready, none after it has ended, which it does with its queue
\* closed.
Phases ==
    \A n \in Instances :
        /\ flight[n] # {} => worker[n] \in Holding
        /\ todo[n] # {} => worker[n] \in Holding \ {"slot", "execute"}
        /\ todo[n] \subseteq flight[n]
        /\ n \in closed => queue[n] = {}
        /\ worker[n] = "done" => n \in closed
        /\ n \in ready => worker[n] \notin Early
        /\ \A r \in Requests : n \in call[r].left => worker[n] \notin Early
        /\ worker[n] \in Early => queue[n] = {}

\* As long as no worker was abandoned, `counted' is set once by the worker and
\* cleared once, by it or by stop().
CountedOnce ==
    abandoned = {} =>
        \A n \in Instances :
            /\ worker[n] \in {"none", "loading", "ready"} => n \notin counted
            /\ worker[n] \in {"counted", "dec", "uncount"} => n \in counted

Controlled == ControlOrder /\ BackendOutlivesWorker

Kept == Apart /\ HeldOpen /\ Completed /\ CallsKept /\ Phases /\ ResolvedOnce

IInv == /\ TypeOK /\ Controlled /\ SlotsHeldByExecutors /\ Kept
        /\ GaugeBalanced /\ CountedOnce

-----------------------------------------------------------------------------
(* TypeOK.                                                                 *)

Ops == {"start", "wait", "unwind", "failed", "up", "stop", "down"}
Stops == {"idle", "close", "join", "finalize", "count", "dec"}
Futures == {"none", "pending", "cancelled", "notified", "result", "error"}
Calls == [pc: {"new", "placing", "accepted", "closed", "full", "unready"},
          left: SUBSET Instances]

FlagsOK ==
    /\ running \subseteq Instances /\ ready \subseteq Instances /\ counted \subseteq Instances
    /\ stopped \subseteq Instances /\ abandoned \subseteq Instances
    /\ startError \subseteq Instances

WorkOK ==
    /\ closed \subseteq Instances /\ slots \subseteq Instances
    /\ queue \in [Instances -> SUBSET Requests]
    /\ flight \in [Instances -> SUBSET Requests]
    /\ todo \in [Instances -> SUBSET Requests]

CtlOK == /\ capacity \in Capacities
         /\ ctl \in [op: Ops, at: 0 .. N + 1]
         /\ stop \in Stops

EngineOK == /\ worker \in [Instances -> WorkerStates]
            /\ backend \in [Instances -> {"raw", "loaded", "finalized"}]
            /\ gauge \in Int

CallsOK == /\ future \in [Requests -> Futures]
           /\ call \in [Requests -> Calls]
           /\ broken \in BOOLEAN

LEMMA TypeParts == TypeOK <=> FlagsOK /\ WorkOK /\ CtlOK /\ EngineOK /\ CallsOK
BY DEF TypeOK, FlagsOK, WorkOK, CtlOK, EngineOK, CallsOK, Ops, Stops, Futures, Calls

LEMMA TypePartsNext == FlagsOK' /\ WorkOK' /\ CtlOK' /\ EngineOK' /\ CallsOK' => TypeOK'
BY DEF TypeOK, FlagsOK, WorkOK, CtlOK, EngineOK, CallsOK, Ops, Stops, Futures, Calls

LEMMA TypeInit == Init => TypeOK
<1> SUFFICES ASSUME Init PROVE TypeOK OBVIOUS
<1>1. FlagsOK /\ WorkOK BY DEF Init, FlagsOK, WorkOK
<1>2. 1 \in 0 .. N + 1 BY EngineAssumption DEF EngineAssumption
<1>3. CtlOK BY <1>2 DEF Init, CtlOK, Ops, Stops
<1>4. EngineOK BY DEF Init, EngineOK, WorkerStates
<1>5. CallsOK
  <2>1. [pc |-> "new", left |-> {}] \in Calls BY DEF Calls
  <2> QED BY <2>1 DEF Init, CallsOK, Futures
<1> QED BY <1>1, <1>3, <1>4, <1>5, TypeParts

LEMMA ResolveType ==
    ASSUME CallsOK, NEW rs \in SUBSET Requests, NEW how \in {"result", "error"},
           Resolve(rs, how), UNCHANGED call
    PROVE  CallsOK'
BY DEF Resolve, CallsOK, Futures

LEMMA AdvanceType ==
    ASSUME CtlOK, NEW n \in Instances, Stopping(n), Advance, UNCHANGED capacity
    PROVE  CtlOK'
<1>1. /\ N \in Nat /\ ctl.at \in 1 .. N /\ ctl.op \in Ops
  BY EngineAssumption DEF EngineAssumption, Stopping, CtlOK, Instances
<1>2. ctl.at - 1 \in 0 .. N + 1 /\ ctl.at + 1 \in 0 .. N + 1 BY <1>1
<1> QED BY <1>1, <1>2 DEF Advance, CtlOK, Stops

LEMMA ControlType ==
    ASSUME TypeOK, Control \/ AbortStart \/ StopModel PROVE TypeOK'
<1>1. FlagsOK /\ WorkOK /\ CtlOK /\ EngineOK /\ CallsOK BY TypeParts
<1>2. N \in Nat \ {0} /\ Instances = 1 .. N
  BY EngineAssumption DEF EngineAssumption, Instances
<1>3. ctl.op \in Ops /\ ctl.at \in 0 .. N + 1 BY <1>1 DEF CtlOK
<1>4. CASE StartInstance
  <2>1. FlagsOK' /\ WorkOK' /\ CallsOK' /\ EngineOK'
    BY <1>1, <1>4 DEF StartInstance, FlagsOK, WorkOK, EngineOK, CallsOK, workVars, callVars,
                      WorkerStates
  <2>2. ctl.at \in Instances => ctl.at + 1 \in 0 .. N + 1 BY <1>2
  <2>3. ctl' \in [op: Ops, at: 0 .. N + 1]
    BY <1>1, <1>2, <1>3, <1>4, <2>2 DEF StartInstance, CtlOK, Ops
  <2> QED BY <1>1, <1>4, <2>1, <2>3, TypePartsNext DEF StartInstance, CtlOK
<1>5. CASE WaitReady \/ AbortStart \/ StopModel \/ AllStopped
  <2>1. UNCHANGED <<capacity, stop, worker, flagVars, backend, gauge, workVars, callVars>>
    BY <1>5 DEF WaitReady, AbortStart, StopModel, AllStopped
  <2>2. ctl' \in [op: Ops, at: 0 .. N + 1]
    <3>1. /\ 1 \in 0 .. N + 1 /\ N \in 0 .. N + 1
          /\ ctl.at \in Instances => ctl.at + 1 \in 0 .. N + 1 /\ ctl.at - 1 \in 0 .. N + 1
      BY <1>2
    <3>2. CASE WaitReady BY <1>1, <1>3, <3>1, <3>2 DEF WaitReady, Ops, CtlOK
    <3>3. CASE AbortStart BY <1>3, <3>1, <3>3 DEF AbortStart, Ops
    <3>4. CASE StopModel BY <1>3, <3>1, <3>4 DEF StopModel, Ops
    <3>5. CASE AllStopped BY <1>1, <1>3, <3>5 DEF AllStopped, Ops, CtlOK
    <3> QED BY <1>5, <3>2, <3>3, <3>4, <3>5
  <2> QED BY <1>1, <2>1, <2>2, TypePartsNext
        DEF flagVars, workVars, callVars, FlagsOK, WorkOK, CtlOK, EngineOK, CallsOK
<1>6. ASSUME NEW n \in Instances, StopInstance(n) PROVE TypeOK'
  <2>1. CASE StopBegin(n)
    <3>1. FlagsOK' /\ WorkOK' /\ CallsOK' /\ EngineOK'
      BY <1>1, <2>1 DEF StopBegin, FlagsOK, WorkOK, EngineOK, CallsOK, workVars, callVars
    <3>2. CtlOK' BY <1>1, <2>1, AdvanceType DEF StopBegin, CtlOK, Stops
    <3> QED BY <3>1, <3>2, TypePartsNext
  <2>2. CASE StopClose(n)
    <3>1. FlagsOK' /\ EngineOK' /\ CtlOK'
      BY <1>1, <2>2 DEF StopClose, FlagsOK, EngineOK, CtlOK, flagVars, Stops
    <3>2. WorkOK' BY <1>1, <2>2 DEF StopClose, CloseQueue, WorkOK
    <3>3. CallsOK' BY <1>1, <2>2, ResolveType DEF StopClose, CloseQueue, WorkOK
    <3> QED BY <3>1, <3>2, <3>3, TypePartsNext
  <2>3. CASE StopJoined(n) \/ JoinTimesOut(n) \/ StopFinalize(n)
    <3>1. FlagsOK' /\ WorkOK' /\ CallsOK'
      BY <1>1, <2>3 DEF StopJoined, JoinTimesOut, StopFinalize, FlagsOK, WorkOK, CallsOK,
                        flagVars, workVars, callVars
    <3>2. CtlOK' BY <1>1, <2>3 DEF StopJoined, JoinTimesOut, StopFinalize, CtlOK, Stops
    <3>3. EngineOK' BY <1>1, <2>3 DEF StopJoined, JoinTimesOut, StopFinalize, EngineOK
    <3> QED BY <3>1, <3>2, <3>3, TypePartsNext
  <2>4. CASE StopUncount(n) \/ StopDec(n)
    <3>1. FlagsOK' /\ WorkOK' /\ CallsOK' /\ EngineOK'
      BY <1>1, <2>4 DEF StopUncount, StopDec, FlagsOK, WorkOK, CallsOK, EngineOK,
                        flagVars, workVars, callVars
    <3>2. CtlOK' BY <1>1, <2>4, AdvanceType DEF StopUncount, StopDec, CtlOK, Stops
    <3> QED BY <3>1, <3>2, TypePartsNext
  <2> QED BY <1>6, <2>1, <2>2, <2>3, <2>4 DEF StopInstance
<1> QED BY <1>4, <1>5, <1>6 DEF Control

LEMMA WorkType ==
    ASSUME TypeOK, NEW n \in Instances, Work(n) \/ Escape(n) PROVE TypeOK'
<1>1. FlagsOK /\ WorkOK /\ CtlOK /\ EngineOK /\ CallsOK BY TypeParts
<1> USE DEF At, Goto, ctlVars, flagVars, workVars, callVars
<1>2. CASE LoadSucceeds(n) \/ CountReady(n) \/ IncReady(n) \/ TestRunning(n)
           \/ EmptyBatch(n) \/ LeaveReady(n) \/ LeaveDec(n) \/ LeaveUncount(n)
  <2>1. FlagsOK' /\ WorkOK' /\ CtlOK' /\ CallsOK'
    BY <1>1, <1>2
       DEF LoadSucceeds, CountReady, IncReady, TestRunning, EmptyBatch, LeaveReady, LeaveDec,
           LeaveUncount, FlagsOK, WorkOK, CtlOK, CallsOK
  <2>2. EngineOK'
    BY <1>1, <1>2
       DEF LoadSucceeds, CountReady, IncReady, TestRunning, EmptyBatch, LeaveReady, LeaveDec,
           LeaveUncount, EngineOK, WorkerStates
  <2> QED BY <2>1, <2>2, TypePartsNext
<1>3. CASE TakeBatch(n) \/ AcquireSlot(n) \/ ExecuteSucceeds(n) \/ BatchDone(n) \/ Escape(n)
  <2>1. FlagsOK' /\ CtlOK' /\ CallsOK'
    BY <1>1, <1>3
       DEF TakeBatch, AcquireSlot, ExecuteSucceeds, BatchDone, Escape, FlagsOK, CtlOK, CallsOK
  <2>2. EngineOK'
    BY <1>1, <1>3
       DEF TakeBatch, AcquireSlot, ExecuteSucceeds, BatchDone, Escape, EngineOK, WorkerStates
  <2>3. WorkOK'
    BY <1>1, <1>3 DEF TakeBatch, AcquireSlot, ExecuteSucceeds, BatchDone, Escape, WorkOK
  <2> QED BY <2>1, <2>2, <2>3, TypePartsNext
<1>4. CASE LoadFails(n) \/ GiveUpSlot(n) \/ ExecuteFails(n) \/ LeaveClose(n)
  <2>1. FlagsOK' /\ CtlOK'
    BY <1>1, <1>4 DEF LoadFails, GiveUpSlot, ExecuteFails, LeaveClose, FlagsOK, CtlOK
  <2>2. EngineOK'
    BY <1>1, <1>4 DEF LoadFails, GiveUpSlot, ExecuteFails, LeaveClose, EngineOK, WorkerStates
  <2>3. WorkOK'
    BY <1>1, <1>4 DEF LoadFails, GiveUpSlot, ExecuteFails, LeaveClose, WorkOK, CloseQueue
  <2>4. CallsOK'
    <3>1. PICK rs \in SUBSET Requests : Resolve(rs, "error") /\ UNCHANGED call
      BY <1>1, <1>4 DEF LoadFails, GiveUpSlot, ExecuteFails, LeaveClose, WorkOK, CloseQueue
    <3> QED BY <1>1, <3>1, ResolveType
  <2> QED BY <2>1, <2>2, <2>3, <2>4, TypePartsNext
<1>5. ASSUME NEW r \in Requests, CompleteOne(n, r) PROVE TypeOK'
  <2>1. FlagsOK' /\ CtlOK' /\ EngineOK' /\ WorkOK'
    BY <1>1, <1>5 DEF CompleteOne, FlagsOK, CtlOK, EngineOK, WorkOK
  <2>2. CallsOK' BY <1>1, <1>5, ResolveType DEF CompleteOne
  <2> QED BY <2>1, <2>2, TypePartsNext
<1> QED BY <1>2, <1>3, <1>4, <1>5 DEF Work

LEMMA CallType ==
    ASSUME TypeOK, NEW r \in Requests, Infer(r) \/ Place(r) \/ Cancel(r) PROVE TypeOK'
<1>1. FlagsOK /\ WorkOK /\ CtlOK /\ EngineOK /\ CallsOK BY TypeParts
<1> USE DEF ctlVars, flagVars, workVars, callVars
<1>2. CASE Infer(r) \/ Cancel(r)
  <2>1. FlagsOK' /\ WorkOK' /\ CtlOK' /\ EngineOK'
    BY <1>1, <1>2 DEF Infer, Cancel, FlagsOK, WorkOK, CtlOK, EngineOK
  <2>2. CallsOK' BY <1>1, <1>2 DEF Infer, Cancel, CallsOK, Calls, Futures, FlagsOK
  <2> QED BY <2>1, <2>2, TypePartsNext
<1>3. ASSUME NEW n \in Instances, PlaceAccepted(r, n) \/ PlaceClosed(r, n) \/ PlaceFull(r, n)
      PROVE  TypeOK'
  <2>1. FlagsOK' /\ WorkOK' /\ CtlOK' /\ EngineOK'
    BY <1>1, <1>3 DEF PlaceAccepted, PlaceClosed, PlaceFull, FlagsOK, WorkOK, CtlOK, EngineOK
  <2>2. CallsOK' BY <1>1, <1>3 DEF PlaceAccepted, PlaceClosed, PlaceFull, CallsOK, Calls
  <2> QED BY <2>1, <2>2, TypePartsNext
<1> QED BY <1>2, <1>3 DEF Place

LEMMA TypeNext == TypeOK /\ [Next]_vars => TypeOK'
<1> SUFFICES ASSUME TypeOK, [Next]_vars PROVE TypeOK' OBVIOUS
<1>1. CASE UNCHANGED vars
  BY <1>1, TypeParts, TypePartsNext
     DEF vars, ctlVars, flagVars, workVars, callVars, FlagsOK, WorkOK, CtlOK, EngineOK, CallsOK
<1> QED BY <1>1, ControlType, WorkType, CallType DEF Next
-----------------------------------------------------------------------------
(* Starting and stopping, and the backend that outlives its worker.        *)

\* A step of a worker leaves the control thread alone, and only a live worker
\* takes one.
LEMMA WorkFrame ==
    ASSUME TypeOK, NEW n \in Instances, Work(n) \/ Escape(n)
    PROVE  /\ UNCHANGED <<ctlVars, stopped, abandoned>>
           /\ worker[n] \notin Gone
           /\ \E pc \in WorkerStates \ Early : worker' = [worker EXCEPT ![n] = pc]
           /\ \/ UNCHANGED backend
              \/ backend' = [backend EXCEPT ![n] = "loaded"]
<1>1. worker \in [Instances -> WorkerStates] BY TypeParts DEF EngineOK
<1> USE DEF At, Goto, ctlVars, flagVars, workVars, callVars, Gone, Early
<1>2. CASE LoadSucceeds(n) \/ LoadFails(n) \/ CountReady(n) \/ IncReady(n)
  BY <1>1, <1>2 DEF LoadSucceeds, LoadFails, CountReady, IncReady, WorkerStates
<1>3. CASE TestRunning(n) \/ EmptyBatch(n) \/ TakeBatch(n) \/ AcquireSlot(n) \/ GiveUpSlot(n)
  BY <1>1, <1>3 DEF TestRunning, EmptyBatch, TakeBatch, AcquireSlot, GiveUpSlot, WorkerStates
<1>4. CASE ExecuteFails(n) \/ ExecuteSucceeds(n) \/ BatchDone(n) \/ Escape(n)
  BY <1>1, <1>4 DEF ExecuteFails, ExecuteSucceeds, BatchDone, Escape, WorkerStates
<1>5. ASSUME NEW r \in Requests, CompleteOne(n, r)
      PROVE  /\ UNCHANGED <<ctlVars, stopped, abandoned, backend>>
             /\ worker[n] = "complete" /\ worker' = [worker EXCEPT ![n] = "complete"]
  BY <1>1, <1>5 DEF CompleteOne
<1>6. CASE LeaveReady(n) \/ LeaveDec(n) \/ LeaveUncount(n) \/ LeaveClose(n)
  BY <1>1, <1>6 DEF LeaveReady, LeaveDec, LeaveUncount, LeaveClose, WorkerStates
<1> QED BY <1>2, <1>3, <1>4, <1>5, <1>6 DEF Work, WorkerStates

LEMMA CallFrame ==
    ASSUME NEW r \in Requests, Infer(r) \/ Place(r) \/ Cancel(r)
    PROVE  UNCHANGED <<ctlVars, worker, flagVars, backend, gauge, closed, flight, todo, slots,
                       broken>>
BY DEF Infer, Place, PlaceAccepted, PlaceClosed, PlaceFull, Cancel, workVars

LEMMA ControlledInit == Init => Controlled
BY DEF Init, Controlled, ControlOrder, BackendOutlivesWorker, Gone

LEMMA ControlledNext ==
    ASSUME TypeOK, Controlled, [Next]_vars PROVE Controlled'
<1>1. /\ worker \in [Instances -> WorkerStates] /\ stop \in Stops
      /\ backend \in [Instances -> {"raw", "loaded", "finalized"}]
      /\ ctl.op \in Ops /\ ctl.at \in 0 .. N + 1 /\ ctl \in [op: Ops, at: 0 .. N + 1]
      /\ N \in Nat \ {0} /\ Instances = 1 .. N /\ stopped \subseteq Instances
  BY TypeParts, EngineAssumption
     DEF EngineOK, CtlOK, FlagsOK, EngineAssumption, Instances
<1> USE DEF ctlVars, flagVars, workVars, callVars, Controlled, ControlOrder,
            BackendOutlivesWorker, Gone
<1>2. CASE UNCHANGED vars BY <1>2 DEF vars
<1>3. ASSUME NEW r \in Requests, Infer(r) \/ Place(r) \/ Cancel(r) PROVE Controlled'
  BY <1>3, CallFrame
<1>4. ASSUME NEW n \in Instances, Work(n) \/ Escape(n) PROVE Controlled'
  <2>1. PICK pc \in WorkerStates \ Early : worker' = [worker EXCEPT ![n] = pc]
    BY <1>4, WorkFrame
  <2>2. /\ UNCHANGED <<ctl, stop, stopped, abandoned>> /\ worker[n] \notin Gone
        /\ backend' = backend \/ backend' = [backend EXCEPT ![n] = "loaded"]
    BY <1>4, WorkFrame
  <2>3. \A m \in Instances : worker[m] \in Gone => worker'[m] = worker[m] BY <1>1, <2>1, <2>2
  <2>4. \A m \in Instances : backend'[m] = "finalized" => backend[m] = "finalized"
    BY <1>1, <2>2
  <2>5. stop # "idle" => ctl.at \in Instances BY <1>1
  <2> QED BY <1>1, <2>2, <2>3, <2>4, <2>5
<1>5. CASE StartInstance
  <2>1. /\ UNCHANGED <<stop, stopped, abandoned, backend>> /\ ctl.op = "start"
        /\ stopped = {} /\ stop = "idle"
    BY <1>5 DEF StartInstance
  <2>2. CASE ctl.at \in Instances
    <3>1. /\ ctl'.op = "start" /\ ctl'.at = ctl.at + 1
          /\ worker' = [worker EXCEPT ![ctl.at] = "loading"]
      BY <1>1, <1>5, <2>1, <2>2 DEF StartInstance
    <3>2. \A m \in Instances : m >= ctl.at + 1 => worker'[m] = "none"
      <4> TAKE m \in Instances
      <4> HAVE m >= ctl.at + 1
      <4>1. m # ctl.at /\ m >= ctl.at BY <1>1
      <4> QED BY <1>1, <2>1, <3>1, <4>1
    <3> QED BY <1>1, <2>1, <3>1, <3>2
  <2>3. CASE ctl.at \notin Instances BY <1>5, <2>1, <2>3 DEF StartInstance
  <2> QED BY <2>2, <2>3
<1>6. CASE WaitReady \/ AbortStart \/ StopModel \/ AllStopped
  <2>1. UNCHANGED <<stop, worker, stopped, abandoned, backend>>
    BY <1>6 DEF WaitReady, AbortStart, StopModel, AllStopped
  <2>2. stop = "idle"
    <3>1. AllStopped => ctl.at \notin Instances BY DEF AllStopped
    <3>2. WaitReady \/ AbortStart \/ StopModel => ctl.op \notin {"unwind", "stop"}
      BY DEF WaitReady, AbortStart, StopModel
    <3> QED BY <1>1, <1>6, <3>1, <3>2
  <2>3. ctl'.op \in {"wait", "up", "start"} => ctl.op \in {"wait", "up", "start"}
    BY <1>1, <1>6 DEF WaitReady, AbortStart, StopModel, AllStopped
  <2>4. ctl'.op # "start" BY <1>1, <1>6 DEF WaitReady, AbortStart, StopModel, AllStopped
  <2> QED BY <1>1, <2>1, <2>2, <2>3, <2>4
<1>7. ASSUME NEW n \in Instances, StopInstance(n) PROVE Controlled'
  <2>1. /\ Stopping(n) /\ UNCHANGED worker /\ ctl.op \in {"unwind", "stop"} /\ ctl.at = n
    BY <1>7 DEF StopInstance, StopBegin, StopClose, StopJoined, JoinTimesOut, StopFinalize,
                StopUncount, StopDec, Stopping
  <2>2. Advance => ctl'.op \in {"unwind", "stop"} /\ stop' = "idle"
    BY <1>1, <2>1 DEF Advance
  <2>3. CASE StopBegin(n) BY <1>1, <2>1, <2>2, <2>3 DEF StopBegin
  <2>4. CASE StopClose(n) BY <1>1, <2>1, <2>4 DEF StopClose
  <2>5. CASE StopJoined(n) BY <1>1, <2>1, <2>5 DEF StopJoined
  <2>6. CASE JoinTimesOut(n) BY <1>1, <2>1, <2>6 DEF JoinTimesOut
  <2>7. CASE StopFinalize(n) BY <1>1, <2>1, <2>7 DEF StopFinalize
  <2>8. CASE StopUncount(n) BY <1>1, <2>1, <2>2, <2>8 DEF StopUncount
  <2>9. CASE StopDec(n) BY <1>1, <2>1, <2>2, <2>9 DEF StopDec
  <2> QED BY <1>7, <2>3, <2>4, <2>5, <2>6, <2>7, <2>8, <2>9 DEF StopInstance
<1> QED BY <1>2, <1>3, <1>4, <1>5, <1>6, <1>7 DEF Next, Control

-----------------------------------------------------------------------------
(* Execution slots.                                                        *)

LEMMA InstancesFinite ==
    ASSUME NEW S \in SUBSET Instances PROVE IsFiniteSet(S) /\ Cardinality(S) \in Nat
<1>1. 1 \in Int /\ N \in Int BY EngineAssumption DEF EngineAssumption
<1>2. IsFiniteSet(1 .. N) BY <1>1, FS_Interval
<1> QED BY <1>2, FS_Subset, FS_CardinalityType DEF Instances

LEMMA SlotsInit == Init => SlotsHeldByExecutors
<1> SUFFICES ASSUME Init PROVE SlotsHeldByExecutors OBVIOUS
<1>1. Limit \in Nat /\ Cardinality({}) = 0
  BY EngineAssumption, FS_EmptySet DEF EngineAssumption
<1> QED BY <1>1 DEF Init, SlotsHeldByExecutors

LEMMA SlotsNext ==
    ASSUME TypeOK, Controlled, SlotsHeldByExecutors, [Next]_vars PROVE SlotsHeldByExecutors'
<1>1. /\ worker \in [Instances -> WorkerStates] /\ slots \subseteq Instances
      /\ Limit \in Nat
  BY TypeParts, EngineAssumption DEF EngineOK, WorkOK, EngineAssumption
<1>2. Cardinality(slots) \in Nat /\ IsFiniteSet(slots) BY <1>1, InstancesFinite
<1> USE DEF ctlVars, flagVars, workVars, callVars, SlotsHeldByExecutors
<1>3. CASE UNCHANGED <<slots, worker>> BY <1>3
<1>4. CASE StartInstance /\ ctl.at \in Instances
  <2>1. worker[ctl.at] = "none" /\ slots' = slots
        /\ worker' = [worker EXCEPT ![ctl.at] = "loading"]
    <3>1. ctl.at \in Int BY TypeParts DEF CtlOK
    <3> QED BY <1>4, <3>1 DEF StartInstance, Controlled, ControlOrder
  <2> QED BY <1>1, <1>4, <2>1
<1>5. CASE Control \/ AbortStart \/ StopModel
  <2>1. CASE StartInstance BY <1>3, <1>4, <2>1 DEF StartInstance
  <2>2. CASE WaitReady \/ AllStopped \/ AbortStart \/ StopModel
    BY <1>3, <2>2 DEF WaitReady, AllStopped, AbortStart, StopModel
  <2>3. ASSUME NEW n \in Instances, StopInstance(n) PROVE SlotsHeldByExecutors'
    BY <1>3, <2>3 DEF StopInstance, StopBegin, StopClose, StopJoined, JoinTimesOut,
                      StopFinalize, StopUncount, StopDec
  <2> QED BY <1>5, <2>1, <2>2, <2>3 DEF Control
<1>6. ASSUME NEW n \in Instances, Work(n) \/ Escape(n) PROVE SlotsHeldByExecutors'
  <2> USE DEF At, Goto
  <2>1. CASE AcquireSlot(n)
    <3>1. n \notin slots BY <1>1, <2>1 DEF AcquireSlot
    <3>2. slots' = slots \cup {n} /\ Cardinality(slots) < Limit BY <2>1 DEF AcquireSlot
    <3>3. Cardinality(slots') = Cardinality(slots) + 1 BY <1>2, <3>1, <3>2, FS_AddElement
    <3>4. Cardinality(slots') <= Limit BY <1>1, <1>2, <3>2, <3>3
    <3>5. slots' = {m \in Instances : worker'[m] \in {"execute", "complete"}}
      BY <1>1, <2>1, <3>2 DEF AcquireSlot
    <3> QED BY <3>4, <3>5
  <2>2. CASE ExecuteFails(n) \/ BatchDone(n) \/ Escape(n)
    <3>1. slots' = slots \ {n} /\ n \in slots
          /\ \E pc \in {"loop", "leave"} : worker' = [worker EXCEPT ![n] = pc]
      BY <1>1, <2>2 DEF ExecuteFails, BatchDone, Escape
    <3>2. Cardinality(slots') = Cardinality(slots) - 1 BY <1>2, <3>1, FS_RemoveElement
    <3>3. Cardinality(slots') <= Limit BY <1>1, <1>2, <3>2
    <3>4. slots' = {m \in Instances : worker'[m] \in {"execute", "complete"}} BY <1>1, <3>1
    <3> QED BY <3>3, <3>4
  <2>3. CASE ExecuteSucceeds(n) BY <1>1, <2>3 DEF ExecuteSucceeds
  <2>4. ASSUME NEW r \in Requests, CompleteOne(n, r) PROVE SlotsHeldByExecutors'
    BY <1>3, <2>4 DEF CompleteOne
  <2>5. CASE LoadSucceeds(n) \/ LoadFails(n) \/ CountReady(n) \/ IncReady(n) \/ TestRunning(n)
             \/ EmptyBatch(n) \/ TakeBatch(n) \/ GiveUpSlot(n) \/ LeaveReady(n)
             \/ LeaveDec(n) \/ LeaveUncount(n) \/ LeaveClose(n)
    <3>1. /\ slots' = slots /\ worker[n] \notin {"execute", "complete"}
          /\ \E pc \in WorkerStates \ {"execute", "complete"} :
                worker' = [worker EXCEPT ![n] = pc]
      BY <2>5 DEF LoadSucceeds, LoadFails, CountReady, IncReady, TestRunning, EmptyBatch,
                  TakeBatch, GiveUpSlot, LeaveReady, LeaveDec, LeaveUncount, LeaveClose,
                  WorkerStates
    <3> QED BY <1>1, <3>1
  <2> QED BY <1>6, <2>1, <2>2, <2>3, <2>4, <2>5 DEF Work
<1>7. ASSUME NEW r \in Requests, Infer(r) \/ Place(r) \/ Cancel(r) PROVE SlotsHeldByExecutors'
  BY <1>3, <1>7, CallFrame
<1>8. CASE UNCHANGED vars BY <1>3, <1>8 DEF vars
<1> QED BY <1>5, <1>6, <1>7, <1>8 DEF Next
-----------------------------------------------------------------------------
(* The readiness gauge.                                                    *)

In(w, pc) == {m \in Instances : w[m] = pc}

Same(pc) == In(worker', pc) = In(worker, pc)

LEMMA InCounts ==
    ASSUME NEW w, NEW s PROVE IsFiniteSet(In(w, s)) /\ Cardinality(In(w, s)) \in Nat
BY InstancesFinite DEF In

LEMMA BalanceSame ==
    ASSUME UNCHANGED <<gauge, counted, worker, abandoned>>, stop = "dec" <=> stop' = "dec",
           GaugeBalanced, CountedOnce
    PROVE  GaugeBalanced' /\ CountedOnce'
BY DEF GaugeBalanced, CountedOnce

\* A worker moves between places that the gauge does not tell apart.
LEMMA BalanceMoves ==
    ASSUME worker \in [Instances -> WorkerStates], gauge \in Int, counted \subseteq Instances,
           NEW n \in Instances, NEW p, worker' = [worker EXCEPT ![n] = p],
           UNCHANGED <<gauge, counted, abandoned, stop>>,
           {p, worker[n]} \cap {"counted", "uncount"} = {},
           p \in {"none", "loading", "ready"} => worker[n] \in {"none", "loading", "ready"},
           p = "dec" => n \in counted,
           GaugeBalanced, CountedOnce
    PROVE  GaugeBalanced' /\ CountedOnce'
<1>1. Same("counted") /\ Same("uncount") BY DEF In, Same
<1>2. GaugeBalanced' BY <1>1 DEF GaugeBalanced, In
<1>3. CountedOnce' BY DEF CountedOnce
<1> QED BY <1>2, <1>3

LEMMA GaugeInit == Init => GaugeBalanced /\ CountedOnce
<1> SUFFICES ASSUME Init PROVE GaugeBalanced /\ CountedOnce OBVIOUS
<1>1. /\ {n \in Instances : worker[n] = "counted"} = {}
      /\ {n \in Instances : worker[n] = "uncount"} = {}
  BY DEF Init
<1>2. Cardinality({}) = 0 BY FS_EmptySet
<1>3. counted = {} /\ gauge = 0 /\ stop # "dec" BY DEF Init
<1>4. GaugeBalanced BY <1>1, <1>2, <1>3 DEF GaugeBalanced
<1>5. CountedOnce BY DEF Init, CountedOnce
<1> QED BY <1>4, <1>5

LEMMA GaugeNext ==
    ASSUME TypeOK, Controlled, GaugeBalanced, CountedOnce, [Next]_vars
    PROVE  GaugeBalanced' /\ CountedOnce'
<1>1. /\ worker \in [Instances -> WorkerStates] /\ gauge \in Int
      /\ counted \subseteq Instances /\ abandoned \subseteq Instances /\ ctl.at \in Int
  BY TypeParts DEF EngineOK, FlagsOK, CtlOK
<1>2. Cardinality(counted) \in Nat /\ IsFiniteSet(counted) BY <1>1, InstancesFinite
<1>3. /\ GaugeBalanced <=> (abandoned = {} =>
           gauge = Cardinality(counted) - Cardinality(In(worker, "counted"))
                   - Cardinality(In(worker, "uncount")) + (IF stop = "dec" THEN 1 ELSE 0))
      /\ GaugeBalanced' <=> (abandoned' = {} =>
           gauge' = Cardinality(counted') - Cardinality(In(worker', "counted"))
                    - Cardinality(In(worker', "uncount")) + (IF stop' = "dec" THEN 1 ELSE 0))
      /\ Cardinality(In(worker, "counted")) \in Nat /\ Cardinality(In(worker, "uncount")) \in Nat
  BY InCounts DEF GaugeBalanced, In
<1> USE DEF ctlVars, flagVars, workVars, callVars
<1>4. CASE UNCHANGED vars BY <1>4, BalanceSame DEF vars
<1>5. ASSUME NEW r \in Requests, Infer(r) \/ Place(r) \/ Cancel(r)
      PROVE  GaugeBalanced' /\ CountedOnce'
  BY <1>5, CallFrame, BalanceSame
<1>6. CASE StartInstance
  <2>1. UNCHANGED <<gauge, counted, abandoned, stop>> BY <1>6 DEF StartInstance
  <2>2. CASE ctl.at \in Instances
    <3>1. worker[ctl.at] = "none" /\ worker' = [worker EXCEPT ![ctl.at] = "loading"]
      BY <1>1, <1>6, <2>2 DEF StartInstance, Controlled, ControlOrder
    <3> QED BY <1>1, <2>1, <2>2, <3>1, BalanceMoves
  <2>3. CASE ctl.at \notin Instances BY <1>6, <2>1, <2>3, BalanceSame DEF StartInstance
  <2> QED BY <2>2, <2>3
<1>7. CASE WaitReady \/ AllStopped \/ AbortStart \/ StopModel
  BY <1>7, BalanceSame DEF WaitReady, AllStopped, AbortStart, StopModel
<1>8. ASSUME NEW n \in Instances, StopInstance(n) PROVE GaugeBalanced' /\ CountedOnce'
  <2>1. CASE StopBegin(n) \/ StopClose(n) \/ StopJoined(n) \/ StopFinalize(n)
    BY <2>1, BalanceSame DEF StopBegin, StopClose, StopJoined, StopFinalize, Advance
  <2>2. CASE JoinTimesOut(n)
    <3>1. abandoned' # {} BY <2>2 DEF JoinTimesOut
    <3> QED BY <3>1 DEF GaugeBalanced, CountedOnce
  <2>3. CASE StopUncount(n)
    <3>1. CASE n \notin counted BY <2>3, <3>1, BalanceSame DEF StopUncount, Advance
    <3>2. CASE n \in counted
      <4>1. /\ counted' = counted \ {n} /\ stop = "count" /\ stop' = "dec"
            /\ UNCHANGED <<gauge, worker, abandoned>>
        BY <2>3, <3>2 DEF StopUncount
      <4>2. Cardinality(counted') = Cardinality(counted) - 1
        BY <1>2, <3>2, <4>1, FS_RemoveElement
      <4>3. Same("counted") /\ Same("uncount") BY <4>1 DEF In, Same
      <4>4. GaugeBalanced' BY <1>1, <1>2, <1>3, <4>1, <4>2, <4>3
      <4>5. abandoned = {} => worker[n] \in Gone
        BY <2>3, <4>1 DEF StopUncount, Stopping, Controlled, ControlOrder
      <4>6. CountedOnce' BY <4>1, <4>5 DEF CountedOnce, Gone
      <4> QED BY <4>4, <4>6
    <3> QED BY <3>1, <3>2
  <2>4. CASE StopDec(n)
    <3>1. /\ gauge' = gauge - 1 /\ stop = "dec" /\ stop' = "idle"
          /\ UNCHANGED <<counted, worker, abandoned>>
      BY <2>4 DEF StopDec, Advance
    <3>2. Same("counted") /\ Same("uncount") BY <3>1 DEF In, Same
    <3>3. GaugeBalanced' BY <1>1, <1>2, <1>3, <3>1, <3>2
    <3> QED BY <3>1, <3>3 DEF CountedOnce
  <2> QED BY <1>8, <2>1, <2>2, <2>3, <2>4 DEF StopInstance
<1>9. ASSUME NEW n \in Instances, Work(n) \/ Escape(n) PROVE GaugeBalanced' /\ CountedOnce'
  <2> USE DEF At, Goto
  <2>1. CASE CountReady(n)
    <3>1. /\ worker[n] = "ready" /\ worker' = [worker EXCEPT ![n] = "counted"]
          /\ counted' = counted \cup {n} /\ UNCHANGED <<gauge, stop, abandoned>>
      BY <2>1 DEF CountReady
    <3>2. abandoned = {} => n \notin counted BY <3>1 DEF CountedOnce
    <3>3. abandoned = {} => Cardinality(counted') = Cardinality(counted) + 1
      BY <1>2, <3>1, <3>2, FS_AddElement
    <3>4. /\ Cardinality(In(worker', "counted")) = Cardinality(In(worker, "counted")) + 1
         /\ Cardinality(In(worker', "uncount")) = Cardinality(In(worker, "uncount"))
      <4>1. Cardinality(In(worker', "counted")) = Cardinality(In(worker, "counted")) + 1
        <5>1. /\ In(worker', "counted") = In(worker, "counted") \cup {n}
              /\ n \notin In(worker, "counted")
          BY <1>1, <3>1 DEF In
        <5> QED BY <5>1, InCounts, FS_AddElement
      <4>2. Cardinality(In(worker', "uncount")) = Cardinality(In(worker, "uncount"))
        <5>1. Same("uncount") BY <1>1, <3>1 DEF In, Same
        <5> QED BY <5>1 DEF Same
      <4> QED BY <4>1, <4>2
    <3>5. GaugeBalanced' BY <1>1, <1>2, <1>3, <3>1, <3>3, <3>4
    <3>6. CountedOnce' BY <1>1, <3>1 DEF CountedOnce
    <3> QED BY <3>5, <3>6
  <2>2. CASE IncReady(n)
    <3>1. /\ worker[n] = "counted" /\ worker' = [worker EXCEPT ![n] = "loop"]
          /\ gauge' = gauge + 1 /\ UNCHANGED <<counted, stop, abandoned>>
      BY <2>2 DEF IncReady
    <3>2. /\ Cardinality(In(worker', "counted")) = Cardinality(In(worker, "counted")) - 1
         /\ Cardinality(In(worker', "uncount")) = Cardinality(In(worker, "uncount"))
      <4>1. Cardinality(In(worker', "counted")) = Cardinality(In(worker, "counted")) - 1
        <5>1. /\ In(worker', "counted") = In(worker, "counted") \ {n}
              /\ n \in In(worker, "counted")
          BY <1>1, <3>1 DEF In
        <5> QED BY <5>1, InCounts, FS_RemoveElement
      <4>2. Cardinality(In(worker', "uncount")) = Cardinality(In(worker, "uncount"))
        <5>1. Same("uncount") BY <1>1, <3>1 DEF In, Same
        <5> QED BY <5>1 DEF Same
      <4> QED BY <4>1, <4>2
    <3>3. GaugeBalanced' BY <1>1, <1>2, <1>3, <3>1, <3>2
    <3>4. CountedOnce' BY <1>1, <3>1 DEF CountedOnce
    <3> QED BY <3>3, <3>4
  <2>3. CASE LeaveDec(n)
    <3>1. /\ worker[n] = "dec" /\ worker' = [worker EXCEPT ![n] = "uncount"]
          /\ gauge' = gauge - 1 /\ UNCHANGED <<counted, stop, abandoned>>
      BY <2>3 DEF LeaveDec
    <3>2. /\ Cardinality(In(worker', "counted")) = Cardinality(In(worker, "counted"))
         /\ Cardinality(In(worker', "uncount")) = Cardinality(In(worker, "uncount")) + 1
      <4>1. Cardinality(In(worker', "counted")) = Cardinality(In(worker, "counted"))
        <5>1. Same("counted") BY <1>1, <3>1 DEF In, Same
        <5> QED BY <5>1 DEF Same
      <4>2. Cardinality(In(worker', "uncount")) = Cardinality(In(worker, "uncount")) + 1
        <5>1. /\ In(worker', "uncount") = In(worker, "uncount") \cup {n}
              /\ n \notin In(worker, "uncount")
          BY <1>1, <3>1 DEF In
        <5> QED BY <5>1, InCounts, FS_AddElement
      <4> QED BY <4>1, <4>2
    <3>3. GaugeBalanced' BY <1>1, <1>2, <1>3, <3>1, <3>2
    <3>4. CountedOnce' BY <1>1, <3>1 DEF CountedOnce
    <3> QED BY <3>3, <3>4
  <2>4. CASE LeaveUncount(n)
    <3>1. /\ worker[n] = "uncount" /\ worker' = [worker EXCEPT ![n] = "close"]
          /\ counted' = counted \ {n} /\ UNCHANGED <<gauge, stop, abandoned>>
      BY <2>4 DEF LeaveUncount
    <3>2. abandoned = {} => n \in counted BY <3>1 DEF CountedOnce
    <3>3. abandoned = {} => Cardinality(counted') = Cardinality(counted) - 1
      BY <1>2, <3>1, <3>2, FS_RemoveElement
    <3>4. /\ Cardinality(In(worker', "counted")) = Cardinality(In(worker, "counted"))
         /\ Cardinality(In(worker', "uncount")) = Cardinality(In(worker, "uncount")) - 1
      <4>1. Cardinality(In(worker', "counted")) = Cardinality(In(worker, "counted"))
        <5>1. Same("counted") BY <1>1, <3>1 DEF In, Same
        <5> QED BY <5>1 DEF Same
      <4>2. Cardinality(In(worker', "uncount")) = Cardinality(In(worker, "uncount")) - 1
        <5>1. /\ In(worker', "uncount") = In(worker, "uncount") \ {n}
              /\ n \in In(worker, "uncount")
          BY <1>1, <3>1 DEF In
        <5> QED BY <5>1, InCounts, FS_RemoveElement
      <4> QED BY <4>1, <4>2
    <3>5. GaugeBalanced' BY <1>1, <1>2, <1>3, <3>1, <3>3, <3>4
    <3>6. CountedOnce' BY <1>1, <3>1 DEF CountedOnce
    <3> QED BY <3>5, <3>6
  <2>5. ASSUME NEW r \in Requests, CompleteOne(n, r) PROVE GaugeBalanced' /\ CountedOnce'
    BY <2>5, BalanceSame DEF CompleteOne
  <2>6. CASE LoadSucceeds(n) \/ LoadFails(n) \/ TestRunning(n) \/ EmptyBatch(n)
             \/ TakeBatch(n) \/ AcquireSlot(n) \/ GiveUpSlot(n) \/ ExecuteFails(n)
             \/ ExecuteSucceeds(n) \/ BatchDone(n) \/ Escape(n) \/ LeaveReady(n)
             \/ LeaveClose(n)
    <3>1. /\ UNCHANGED <<gauge, counted, abandoned, stop>>
          /\ worker[n] \notin {"counted", "uncount"}
      BY <2>6 DEF LoadSucceeds, LoadFails, TestRunning, EmptyBatch, TakeBatch, AcquireSlot,
                  GiveUpSlot, ExecuteFails, ExecuteSucceeds, BatchDone, Escape, LeaveReady,
                  LeaveClose
    <3>2. \E p \in WorkerStates :
             /\ worker' = [worker EXCEPT ![n] = p]
             /\ p \notin {"counted", "uncount"}
             /\ p \in {"none", "loading", "ready"} => worker[n] \in {"none", "loading", "ready"}
             /\ p = "dec" => n \in counted
      BY <2>6 DEF LoadSucceeds, LoadFails, TestRunning, EmptyBatch, TakeBatch, AcquireSlot,
                  GiveUpSlot, ExecuteFails, ExecuteSucceeds, BatchDone, Escape, LeaveReady,
                  LeaveClose, WorkerStates
    <3>3. PICK p \in WorkerStates :
             /\ worker' = [worker EXCEPT ![n] = p]
             /\ p \notin {"counted", "uncount"}
             /\ p \in {"none", "loading", "ready"} => worker[n] \in {"none", "loading", "ready"}
             /\ p = "dec" => n \in counted
      BY <3>2
    <3> QED BY <1>1, <3>1, <3>3, BalanceMoves
  <2> QED BY <1>9, <2>1, <2>2, <2>3, <2>4, <2>5, <2>6 DEF Work
<1> QED BY <1>4, <1>5, <1>6, <1>7, <1>8, <1>9 DEF Next, Control
-----------------------------------------------------------------------------
(* Where requests are.                                                     *)

LEMMA KeptInit == Init => Kept
<1> SUFFICES ASSUME Init PROVE Kept OBVIOUS
<1>1. /\ \A n \in Instances : queue[n] = {} /\ flight[n] = {} /\ todo[n] = {}
      /\ \A n \in Instances : worker[n] = "none"
      /\ \A r \in Requests : call[r].pc = "new" /\ call[r].left = {}
      /\ ready = {} /\ closed = {} /\ ~broken
  BY DEF Init
<1>2. Apart /\ HeldOpen /\ Completed BY <1>1 DEF Apart, Held, HeldOpen, Completed
<1>3. CallsKept BY <1>1 DEF CallsKept, Held, Unanswered
<1>4. Phases /\ ResolvedOnce BY <1>1 DEF Phases, ResolvedOnce
<1> QED BY <1>2, <1>3, <1>4 DEF Kept

LEMMA ResolveOpen ==
    ASSUME TypeOK, ResolvedOnce, NEW rs \in SUBSET Requests, \A r \in rs : Open(r),
           NEW how \in {"result", "error"}, Resolve(rs, how)
    PROVE  /\ ResolvedOnce'
           /\ \A r \in Requests \ rs : future'[r] = future[r]
           /\ \A r \in rs : Done(r)' /\ future'[r] # "none"
<1>1. future \in [Requests -> Futures] BY TypeParts DEF CallsOK
<1> QED BY <1>1 DEF Resolve, ResolvedOnce, Open, Done

\* Nothing moves but the worker, between places with the same duties.
LEMMA KeptQuiet ==
    ASSUME TypeOK, Kept, NEW n \in Instances, NEW pc,
           worker' = [worker EXCEPT ![n] = pc],
           UNCHANGED <<closed, queue, flight, todo, future, call, broken>>,
           ready' \subseteq ready \cup {n},
           flight[n] # {} => pc \in Holding,
           todo[n] # {} => pc \in Holding \ {"slot", "execute"},
           pc = "done" => worker[n] = "done",
           pc \in Early => worker[n] = "none" /\ ready' \subseteq ready,
           pc \in {"slot", "execute"} => worker[n] \in {"slot", "execute"} \/ flight[n] = {},
           pc = "complete" => worker[n] = "complete"
    PROVE  Kept'
<1>1. /\ worker \in [Instances -> WorkerStates]
  BY TypeParts DEF EngineOK
<1>2. worker'[n] = pc /\ \A m \in Instances : m # n => worker'[m] = worker[m] BY <1>1
<1>3. Apart' BY DEF Kept, Apart, Held
<1>4. HeldOpen' BY <1>2 DEF Kept, HeldOpen, Open
<1>5. Completed' BY <1>2 DEF Kept, Completed, Done
<1>6. CallsKept' BY DEF Kept, CallsKept, Held, Unanswered, Done
<1>7. Phases' BY <1>2 DEF Kept, Phases, Early
<1>8. ResolvedOnce' BY DEF Kept, ResolvedOnce
<1> QED BY <1>3, <1>4, <1>5, <1>6, <1>7, <1>8 DEF Kept

LEMMA KeptSame ==
    ASSUME Kept, UNCHANGED <<worker, closed, queue, flight, todo, future, call, broken>>,
           ready' \subseteq ready
    PROVE  Kept'
<1>1. Apart' BY DEF Kept, Apart, Held
<1>2. HeldOpen' BY DEF Kept, HeldOpen, Open
<1>3. Completed' BY DEF Kept, Completed, Done
<1>4. CallsKept' BY DEF Kept, CallsKept, Held, Unanswered, Done
<1>5. Phases' BY DEF Kept, Phases
<1>6. ResolvedOnce' BY DEF Kept, ResolvedOnce
<1> QED BY <1>1, <1>2, <1>3, <1>4, <1>5, <1>6 DEF Kept

\* A queue is closed, and perhaps the whole batch failed with it; the worker
\* stays where it is, or ends or goes on without a batch.
LEMMA KeptResolve ==
    ASSUME TypeOK, Kept, NEW n \in Instances, NEW rs \in SUBSET Requests,
           Resolve(rs, "error"), \A r \in rs : Open(r),
           UNCHANGED <<ready, call>>,
           \A m \in Instances : m # n => /\ worker'[m] = worker[m] /\ queue'[m] = queue[m]
                                         /\ flight'[m] = flight[m] /\ todo'[m] = todo[m],
           worker'[n] \notin Early,
           queue'[n] \in {queue[n], {}},
           \/ flight'[n] = flight[n] /\ todo'[n] = todo[n]
           \/ flight'[n] = {} /\ todo'[n] = {},
           closed' = closed \/ (closed' = closed \cup {n} /\ queue'[n] = {}),
           worker'[n] = "done" => queue'[n] = {} /\ n \in closed',
           worker'[n] # worker[n] => flight'[n] = {},
           rs \subseteq Held(n),
           rs \cap (queue'[n] \cup flight'[n]) = {},
           \A r \in Held(n) \ rs : r \in queue'[n] \cup flight'[n] \/ Done(r)
    PROVE  Kept'
<1>1. /\ queue \in [Instances -> SUBSET Requests] /\ flight \in [Instances -> SUBSET Requests]
      /\ todo \in [Instances -> SUBSET Requests]
  BY TypeParts DEF WorkOK
<1>2. /\ ResolvedOnce'
      /\ \A r \in Requests \ rs : future'[r] = future[r]
      /\ \A r \in rs : Done(r)' /\ future'[r] # "none"
  BY ResolveOpen DEF Kept
<1>3. /\ Held(n)' = queue'[n] \cup flight'[n] /\ Held(n)' \subseteq Held(n)
      /\ \A m \in Instances : m # n => Held(m)' = Held(m)
  BY DEF Held
<1>4. \A m \in Instances : Held(m)' \subseteq Held(m) /\ Held(m)' \cap rs = {}
  BY <1>3 DEF Kept, Apart
<1>5. Apart' BY <1>4 DEF Kept, Apart, Held
<1>6. \A m \in Instances : queue'[m] \subseteq Held(m)' /\ flight'[m] \subseteq Held(m)'
  BY DEF Held
<1>7. \A m \in Instances : todo'[m] \subseteq flight'[m] BY DEF Kept, Phases
<1>8. \A m \in Instances : \A r \in Held(m)' : r \in Requests /\ future'[r] = future[r]
  <2>1. \A m \in Instances : Held(m) \subseteq Requests BY <1>1 DEF Held
  <2> QED BY <1>2, <1>4, <2>1
<1>9. HeldOpen' BY <1>6, <1>7, <1>8 DEF Kept, HeldOpen, Open
<1>10. Completed' BY <1>6, <1>8 DEF Kept, Completed, Done
<1>11. CallsKept'
  <2>1. \A m \in Instances : \A r \in Held(m)' : call'[r].pc = "accepted"
    BY <1>4 DEF Kept, CallsKept
  <2>2. ASSUME NEW r \in Requests, Unanswered(r)' PROVE \E m \in Instances : r \in Held(m)'
    <3>1. r \notin rs /\ Unanswered(r) BY <1>2, <2>2 DEF Unanswered, Done
    <3>2. PICK m \in Instances : r \in Held(m) BY <3>1 DEF Kept, CallsKept
    <3> QED BY <1>3, <3>1, <3>2 DEF Unanswered
  <2>3. \A r \in rs : call[r].pc = "accepted" BY DEF Kept, CallsKept
  <2>4. \A r \in Requests : call'[r].pc # "new" => future'[r] # "none"
    BY <1>2 DEF Kept, CallsKept
  <2>5. \A r \in Requests : call'[r].pc = "placing" => future'[r] = "pending"
    BY <1>2, <2>3 DEF Kept, CallsKept
  <2> QED BY <2>1, <2>2, <2>4, <2>5 DEF CallsKept
<1>12. Phases' BY DEF Kept, Phases
<1> QED BY <1>2, <1>5, <1>9, <1>10, <1>11, <1>12 DEF Kept

\* get_batch() hands a part of the queue to the worker.
LEMMA KeptTake == ASSUME TypeOK, Kept, NEW n \in Instances, TakeBatch(n) PROVE Kept'
<1>1. /\ worker \in [Instances -> WorkerStates]
      /\ queue \in [Instances -> SUBSET Requests] /\ flight \in [Instances -> SUBSET Requests]
  BY TypeParts DEF EngineOK, WorkOK
<1>2. PICK rs \in SUBSET queue[n] :
         /\ rs # {}
         /\ flight' = [flight EXCEPT ![n] = rs]
         /\ queue' = [queue EXCEPT ![n] = @ \ rs]
  BY DEF TakeBatch
<1>3. /\ worker[n] = "get" /\ worker' = [worker EXCEPT ![n] = "slot"]
      /\ UNCHANGED <<ready, closed, todo, future, call, broken>>
  BY DEF TakeBatch, At, Goto, flagVars, callVars
<1>4. /\ worker'[n] = "slot" /\ queue'[n] = queue[n] \ rs /\ flight'[n] = rs
      /\ \A m \in Instances : m # n =>
            worker'[m] = worker[m] /\ queue'[m] = queue[m] /\ flight'[m] = flight[m]
  BY <1>1, <1>2, <1>3
<1>5. flight[n] = {} /\ todo[n] = {} BY <1>3 DEF Kept, Phases, Holding
<1>6. \A m \in Instances : Held(m)' = Held(m) BY <1>4, <1>5 DEF Held
<1>7. Apart' BY <1>4, <1>6 DEF Kept, Apart
<1>8. HeldOpen' BY <1>3, <1>4, <1>5 DEF Kept, HeldOpen, Open
<1>9. Completed' BY <1>3, <1>4 DEF Kept, Completed, Done
<1>10. CallsKept' BY <1>3, <1>6 DEF Kept, CallsKept, Unanswered, Done
<1>11. Phases' BY <1>3, <1>4, <1>5 DEF Kept, Phases, Holding, Early
<1> QED BY <1>3, <1>7, <1>8, <1>9, <1>10, <1>11 DEF Kept, ResolvedOnce

\* The batch is executed; its requests are answered one by one.
LEMMA KeptExecuted == ASSUME TypeOK, Kept, NEW n \in Instances, ExecuteSucceeds(n) PROVE Kept'
<1>1. /\ worker \in [Instances -> WorkerStates] /\ todo \in [Instances -> SUBSET Requests]
  BY TypeParts DEF EngineOK, WorkOK
<1>2. /\ worker[n] = "execute" /\ worker' = [worker EXCEPT ![n] = "complete"]
      /\ todo' = [todo EXCEPT ![n] = flight[n]]
      /\ UNCHANGED <<ready, closed, queue, flight, future, call, broken>>
  BY DEF ExecuteSucceeds, At, Goto, flagVars, callVars
<1>3. /\ worker'[n] = "complete" /\ todo'[n] = flight[n]
      /\ \A m \in Instances : m # n => worker'[m] = worker[m] /\ todo'[m] = todo[m]
  BY <1>1, <1>2
<1>4. Apart' BY <1>2 DEF Kept, Apart, Held
<1>5. HeldOpen' BY <1>2, <1>3 DEF Kept, HeldOpen, Open
<1>6. Completed' BY <1>2, <1>3 DEF Kept, Completed, Done
<1>7. CallsKept' BY <1>2 DEF Kept, CallsKept, Held, Unanswered, Done
<1>8. Phases' BY <1>2, <1>3 DEF Kept, Phases, Holding, Early
<1> QED BY <1>2, <1>4, <1>5, <1>6, <1>7, <1>8 DEF Kept, ResolvedOnce

LEMMA KeptComplete ==
    ASSUME TypeOK, Kept, NEW n \in Instances, NEW r \in Requests, CompleteOne(n, r) PROVE Kept'
<1>1. todo \in [Instances -> SUBSET Requests] /\ {r} \in SUBSET Requests
  BY TypeParts DEF WorkOK
<1>2. /\ worker[n] = "complete" /\ r \in todo[n] /\ Resolve({r}, "result")
      /\ todo' = [todo EXCEPT ![n] = @ \ {r}]
      /\ UNCHANGED <<worker, ready, closed, queue, flight, call>>
  BY DEF CompleteOne, At, flagVars
<1>3. /\ todo'[n] = todo[n] \ {r}
      /\ \A m \in Instances : m # n => todo'[m] = todo[m]
  BY <1>1, <1>2
<1>4. Open(r) /\ r \in flight[n] /\ r \in Held(n) BY <1>2 DEF Kept, HeldOpen, Phases, Held
<1>5. /\ ResolvedOnce' /\ Done(r)' /\ future'[r] # "none"
      /\ \A x \in Requests \ {r} : future'[x] = future[x]
  BY <1>1, <1>2, <1>4, ResolveOpen DEF Kept
<1>6. Apart' BY <1>2 DEF Kept, Apart, Held
<1>7. /\ \A m \in Instances : r \notin queue[m]
      /\ \A m \in Instances : m # n => r \notin flight[m] /\ r \notin todo[m]
  BY <1>4 DEF Kept, Apart, Held, Phases
<1>8. \A m \in Instances : queue[m] \cup flight[m] \cup todo[m] \subseteq Requests
  BY TypeParts DEF WorkOK
<1>9. HeldOpen'
  <2> SUFFICES ASSUME NEW m \in Instances
               PROVE  /\ \A x \in queue'[m] \cup todo'[m] : Open(x)'
                      /\ worker'[m] \in {"slot", "execute"} => \A x \in flight'[m] : Open(x)'
    BY DEF HeldOpen
  <2>1. ASSUME NEW x \in queue'[m] \cup todo'[m] PROVE Open(x)'
    <3>1. x # r /\ x \in queue[m] \cup todo[m] /\ x \in Requests BY <1>2, <1>3, <1>7, <1>8, <2>1
    <3> QED BY <1>5, <3>1 DEF Kept, HeldOpen, Open
  <2>2. ASSUME worker'[m] \in {"slot", "execute"}, NEW x \in flight'[m] PROVE Open(x)'
    <3>1. m # n /\ x # r /\ x \in Requests BY <1>2, <1>7, <1>8, <2>2
    <3> QED BY <1>2, <1>5, <2>2, <3>1 DEF Kept, HeldOpen, Open
  <2> QED BY <2>1, <2>2
<1>10. Completed'
  <2> SUFFICES ASSUME NEW m \in Instances, worker'[m] = "complete",
                      NEW x \in flight'[m] \ todo'[m]
               PROVE  Done(x)'
    BY DEF Completed
  <2>1. CASE x = r BY <1>5, <2>1
  <2>2. CASE x # r
    <3>1. x \in flight[m] \ todo[m] /\ x \in Requests /\ worker[m] = "complete"
      BY <1>2, <1>3, <1>8, <2>2
    <3>2. future'[x] = future[x] BY <1>5, <2>2, <3>1
    <3> QED BY <3>1, <3>2 DEF Kept, Completed, Done
  <2> QED BY <2>1, <2>2
<1>11. CallsKept'
  <2>1. \A x \in Requests : Unanswered(x)' => Unanswered(x)
    BY <1>2, <1>5 DEF Unanswered, Done
  <2>2. \A m \in Instances : Held(m)' = Held(m) BY <1>2 DEF Held
  <2>3. call[r].pc = "accepted" BY <1>4 DEF Kept, CallsKept
  <2> QED BY <1>2, <1>5, <2>1, <2>2, <2>3 DEF Kept, CallsKept
<1>12. Phases' BY <1>2, <1>3 DEF Kept, Phases
<1> QED BY <1>5, <1>6, <1>9, <1>10, <1>11, <1>12 DEF Kept

LEMMA KeptBatchDone == ASSUME TypeOK, Kept, NEW n \in Instances, BatchDone(n) PROVE Kept'
<1>1. /\ worker \in [Instances -> WorkerStates] /\ flight \in [Instances -> SUBSET Requests]
  BY TypeParts DEF EngineOK, WorkOK
<1>2. /\ worker[n] = "complete" /\ todo[n] = {} /\ worker' = [worker EXCEPT ![n] = "loop"]
      /\ flight' = [flight EXCEPT ![n] = {}]
      /\ UNCHANGED <<ready, closed, queue, todo, future, call, broken>>
  BY DEF BatchDone, At, Goto, flagVars, callVars
<1>3. /\ worker'[n] = "loop" /\ flight'[n] = {}
      /\ \A m \in Instances : m # n => worker'[m] = worker[m] /\ flight'[m] = flight[m]
  BY <1>1, <1>2
<1>4. \A r \in flight[n] : Done(r) BY <1>2 DEF Kept, Completed
<1>5. /\ \A m \in Instances : Held(m)' \subseteq Held(m)
      /\ \A m \in Instances : m # n => Held(m)' = Held(m)
      /\ Held(n)' = queue[n] /\ Held(n) = queue[n] \cup flight[n]
  BY <1>2, <1>3 DEF Held
<1>6. Apart' BY <1>2, <1>3, <1>5 DEF Kept, Apart
<1>7. HeldOpen' BY <1>2, <1>3 DEF Kept, HeldOpen, Open
<1>8. Completed' BY <1>2, <1>3 DEF Kept, Completed, Done
<1>9. CallsKept'
  <2>1. ASSUME NEW r \in Requests, Unanswered(r)' PROVE \E m \in Instances : r \in Held(m)'
    <3>1. Unanswered(r) BY <1>2, <2>1 DEF Unanswered, Done
    <3>2. PICK m \in Instances : r \in Held(m) BY <3>1 DEF Kept, CallsKept
    <3>3. r \notin flight[n] BY <1>4, <3>1 DEF Unanswered
    <3> QED BY <1>5, <3>2, <3>3
  <2> QED BY <1>2, <1>5, <2>1 DEF Kept, CallsKept
<1>10. Phases' BY <1>2, <1>3 DEF Kept, Phases, Holding, Early
<1> QED BY <1>2, <1>6, <1>7, <1>8, <1>9, <1>10 DEF Kept, ResolvedOnce
\* One caller, in infer(), dispatch() or cancel().
LEMMA KeptCall ==
    ASSUME TypeOK, Kept, NEW r \in Requests, Infer(r) \/ Place(r) \/ Cancel(r) PROVE Kept'
<1>1. /\ future \in [Requests -> Futures] /\ call \in [Requests -> Calls]
      /\ queue \in [Instances -> SUBSET Requests] /\ ready \subseteq Instances
  BY TypeParts DEF CallsOK, WorkOK, FlagsOK
<1>2. UNCHANGED <<worker, ready, closed, flight, todo, broken>>
  BY CallFrame DEF flagVars
<1>3. CASE Infer(r)
  <2>1. /\ call[r].pc = "new" /\ UNCHANGED queue
        /\ call' = [call EXCEPT ![r] = IF ready = {} THEN [pc |-> "unready", left |-> {}]
                                       ELSE [pc |-> "placing", left |-> ready]]
        /\ future' = [future EXCEPT ![r] = "pending"]
    BY <1>3 DEF Infer, workVars
  <2>2. /\ call'[r].pc \in {"unready", "placing"} /\ call'[r].left \subseteq ready
        /\ future'[r] = "pending"
        /\ \A x \in Requests : x # r => call'[x] = call[x] /\ future'[x] = future[x]
    BY <1>1, <2>1
  <2>3. \A m \in Instances : r \notin Held(m) /\ Held(m)' = Held(m) /\ Held(m) \subseteq Requests
    BY <1>1, <1>2, <2>1, TypeParts DEF Kept, CallsKept, Held, WorkOK
  <2>4. Apart' BY <1>2, <2>1 DEF Kept, Apart, Held
  <2>5. \A m \in Instances : \A x \in Held(m) : x \in Requests /\ future'[x] = future[x]
    BY <2>2, <2>3
  <2>6. \A m \in Instances :
           queue[m] \subseteq Held(m) /\ flight[m] \subseteq Held(m) /\ todo[m] \subseteq Held(m)
    BY DEF Kept, Phases, Held
  <2>7. HeldOpen' BY <1>2, <2>1, <2>5, <2>6 DEF Kept, HeldOpen, Open
  <2>8. Completed' BY <1>2, <2>5, <2>6 DEF Kept, Completed, Done
  <2>9. CallsKept' BY <2>2, <2>3 DEF Kept, CallsKept, Unanswered, Done
  <2>10. Phases' BY <1>2, <2>1, <2>2 DEF Kept, Phases
  <2> QED BY <1>2, <2>4, <2>7, <2>8, <2>9, <2>10 DEF Kept, ResolvedOnce
<1>4. ASSUME NEW n \in Instances, PlaceAccepted(r, n) PROVE Kept'
  <2>1. /\ call[r].pc = "placing" /\ n \in call[r].left /\ n \notin closed
        /\ queue' = [queue EXCEPT ![n] = @ \cup {r}] /\ UNCHANGED future
        /\ call' = [call EXCEPT ![r] = [pc |-> "accepted", left |-> {}]]
    BY <1>4 DEF PlaceAccepted
  <2>2. /\ call'[r].pc = "accepted" /\ call'[r].left = {}
        /\ \A x \in Requests : x # r => call'[x] = call[x]
        /\ queue'[n] = queue[n] \cup {r}
        /\ \A m \in Instances : m # n => queue'[m] = queue[m]
    BY <1>1, <2>1
  <2>3. /\ \A m \in Instances : r \notin Held(m)
        /\ Held(n)' = Held(n) \cup {r}
        /\ \A m \in Instances : m # n => Held(m)' = Held(m)
    BY <1>2, <2>1, <2>2 DEF Kept, CallsKept, Held
  <2>4. future[r] = "pending" /\ worker[n] \notin Early /\ worker[n] # "done"
    BY <2>1 DEF Kept, CallsKept, Phases
  <2>5. Apart'
    <3>1. \A m \in Instances : queue'[m] \cap flight'[m] = {}
      BY <1>2, <2>2, <2>3 DEF Kept, Apart, Held
    <3> QED BY <2>3, <3>1 DEF Kept, Apart
  <2>6. HeldOpen' BY <1>2, <2>1, <2>2, <2>4 DEF Kept, HeldOpen, Open
  <2>7. Completed' BY <1>2, <2>1 DEF Kept, Completed, Done
  <2>8. CallsKept'
    <3>1. \A m \in Instances : Held(m) \subseteq Requests
      BY TypeParts DEF Held, WorkOK
    <3>2. \A m \in Instances : \A x \in Held(m)' : call'[x].pc = "accepted"
      BY <2>2, <2>3, <3>1 DEF Kept, CallsKept
    <3>3. ASSUME NEW x \in Requests, Unanswered(x)' PROVE \E m \in Instances : x \in Held(m)'
      <4>1. CASE x = r BY <2>3, <4>1
      <4>2. CASE x # r
        <5>1. Unanswered(x) BY <2>1, <2>2, <3>3, <4>2 DEF Unanswered, Done
        <5> QED BY <2>3, <5>1 DEF Kept, CallsKept
      <4> QED BY <4>1, <4>2
    <3> QED BY <2>1, <2>2, <2>4, <3>2, <3>3 DEF Kept, CallsKept
  <2>9. Phases' BY <1>2, <2>1, <2>2, <2>4 DEF Kept, Phases
  <2> QED BY <1>2, <2>5, <2>6, <2>7, <2>8, <2>9 DEF Kept, ResolvedOnce
<1>5. ASSUME NEW n \in Instances, PlaceClosed(r, n) \/ PlaceFull(r, n) PROVE Kept'
  <2>1. /\ call[r].pc = "placing" /\ UNCHANGED <<queue, future>>
        /\ call'[r].pc \in {"closed", "full", "placing"} /\ call'[r].left \subseteq call[r].left
        /\ \A x \in Requests : x # r => call'[x] = call[x]
    BY <1>1, <1>5 DEF PlaceClosed, PlaceFull, workVars
  <2>2. \A m \in Instances : r \notin Held(m) /\ Held(m)' = Held(m) /\ Held(m) \subseteq Requests
    BY <1>1, <1>2, <2>1, TypeParts DEF Kept, CallsKept, Held, WorkOK
  <2>3. Apart' BY <1>2, <2>1 DEF Kept, Apart, Held
  <2>4. HeldOpen' /\ Completed' BY <1>2, <2>1 DEF Kept, HeldOpen, Open, Completed, Done
  <2>5. CallsKept' BY <2>1, <2>2 DEF Kept, CallsKept, Unanswered, Done
  <2>6. Phases' BY <1>2, <2>1 DEF Kept, Phases
  <2> QED BY <1>2, <2>3, <2>4, <2>5, <2>6 DEF Kept, ResolvedOnce
<1>6. CASE Cancel(r)
  <2>1. /\ call[r].pc = "accepted" /\ future[r] = "pending" /\ UNCHANGED <<queue, call>>
        /\ future'[r] = "cancelled"
        /\ \A x \in Requests : x # r => future'[x] = future[x]
    BY <1>1, <1>6 DEF Cancel, workVars
  <2>2. \A m \in Instances : Held(m)' = Held(m) /\ Held(m) \subseteq Requests
    BY <1>1, <1>2, <2>1, TypeParts DEF Held, WorkOK
  <2>3. /\ \A x \in Requests : Open(x) => Open(x)'
        /\ \A x \in Requests : Done(x) => Done(x)'
        /\ \A x \in Requests : Unanswered(x)' => Unanswered(x)
    BY <2>1 DEF Open, Done, Unanswered
  <2>4. \A m \in Instances :
           /\ queue[m] \subseteq Requests /\ flight[m] \subseteq Requests
           /\ todo[m] \subseteq Requests
    BY TypeParts DEF WorkOK
  <2>5. Apart' BY <1>2, <2>1 DEF Kept, Apart, Held
  <2>6. HeldOpen' /\ Completed'
    BY <1>2, <2>1, <2>3, <2>4 DEF Kept, HeldOpen, Completed
  <2>7. CallsKept' BY <2>1, <2>2, <2>3 DEF Kept, CallsKept
  <2>8. Phases' BY <1>2, <2>1 DEF Kept, Phases
  <2> QED BY <1>2, <2>5, <2>6, <2>7, <2>8 DEF Kept, ResolvedOnce
<1> QED BY <1>3, <1>4, <1>5, <1>6 DEF Place

LEMMA KeptControl ==
    ASSUME TypeOK, Controlled, Kept, Control \/ AbortStart \/ StopModel PROVE Kept'
<1>1. /\ worker \in [Instances -> WorkerStates] /\ ctl.at \in Int
      /\ queue \in [Instances -> SUBSET Requests] /\ flight \in [Instances -> SUBSET Requests]
      /\ todo \in [Instances -> SUBSET Requests]
  BY TypeParts DEF EngineOK, CtlOK, WorkOK
<1> USE DEF flagVars, workVars, callVars
<1>2. CASE StartInstance
  <2>1. UNCHANGED <<ready, closed, queue, flight, todo, future, call, broken>>
    BY <1>2 DEF StartInstance
  <2>2. CASE ctl.at \in Instances
    <3>1. worker[ctl.at] = "none" /\ worker' = [worker EXCEPT ![ctl.at] = "loading"]
      BY <1>1, <1>2, <2>2 DEF StartInstance, Controlled, ControlOrder
    <3>2. flight[ctl.at] = {} /\ todo[ctl.at] = {}
      BY <2>2, <3>1 DEF Kept, Phases, Holding
    <3> QED BY <2>1, <2>2, <3>1, <3>2, KeptQuiet DEF Early
  <2>3. CASE ctl.at \notin Instances BY <1>2, <2>1, <2>3, KeptSame DEF StartInstance
  <2> QED BY <2>2, <2>3
<1>3. CASE WaitReady \/ AllStopped \/ AbortStart \/ StopModel
  BY <1>3, KeptSame DEF WaitReady, AllStopped, AbortStart, StopModel
<1>4. ASSUME NEW n \in Instances, StopInstance(n) PROVE Kept'
  <2>1. CASE StopBegin(n) \/ StopJoined(n) \/ JoinTimesOut(n) \/ StopFinalize(n)
             \/ StopUncount(n) \/ StopDec(n)
    BY <2>1, KeptSame
       DEF StopBegin, StopJoined, JoinTimesOut, StopFinalize, StopUncount, StopDec
  <2>2. CASE StopClose(n)
    <3>1. /\ Resolve(queue[n], "error") /\ closed' = closed \cup {n}
          /\ queue' = [queue EXCEPT ![n] = {}]
          /\ UNCHANGED <<worker, ready, flight, todo, call>>
      BY <2>2 DEF StopClose, CloseQueue
    <3>2. queue'[n] = {} /\ \A m \in Instances : m # n => queue'[m] = queue[m]
      BY <1>1, <3>1
    <3>3. /\ queue[n] \in SUBSET Requests /\ \A r \in queue[n] : Open(r)
          /\ queue[n] \cap flight[n] = {} /\ Held(n) = queue[n] \cup flight[n]
      BY <1>1 DEF Kept, HeldOpen, Apart, Held
    <3>4. CASE worker[n] \notin Early
      <4>1. n \in closed' /\ queue[n] \cap (queue'[n] \cup flight'[n]) = {}
        BY <3>1, <3>2, <3>3
      <4> QED BY <3>1, <3>2, <3>3, <3>4, <4>1, KeptResolve
    <3>5. CASE worker[n] \in Early
      <4>1. queue[n] = {} /\ flight[n] = {} /\ todo[n] = {}
        BY <3>5 DEF Kept, Phases, Early, Holding
      <4>2. queue' = queue /\ future' = future /\ broken' = broken
        <5>1. future \in [Requests -> Futures] /\ broken \in BOOLEAN BY TypeParts DEF CallsOK
        <5> QED BY <1>1, <3>1, <4>1, <5>1 DEF Resolve
      <4>3. Apart' BY <3>1, <4>2 DEF Kept, Apart, Held
      <4>4. HeldOpen' /\ Completed' BY <3>1, <4>2 DEF Kept, HeldOpen, Open, Completed, Done
      <4>5. CallsKept' BY <3>1, <4>2 DEF Kept, CallsKept, Held, Unanswered, Done
      <4>6. Phases' BY <3>1, <4>1, <4>2 DEF Kept, Phases
      <4> QED BY <4>2, <4>3, <4>4, <4>5, <4>6 DEF Kept, ResolvedOnce
    <3> QED BY <3>4, <3>5
  <2> QED BY <1>4, <2>1, <2>2 DEF StopInstance
<1> QED BY <1>2, <1>3, <1>4 DEF Control

LEMMA KeptWork ==
    ASSUME TypeOK, Kept, NEW n \in Instances, Work(n) \/ Escape(n) PROVE Kept'
<1>1. /\ worker \in [Instances -> WorkerStates]
      /\ queue \in [Instances -> SUBSET Requests] /\ flight \in [Instances -> SUBSET Requests]
      /\ todo \in [Instances -> SUBSET Requests]
  BY TypeParts DEF EngineOK, WorkOK
<1>2. /\ flight[n] # {} => worker[n] \in Holding
      /\ todo[n] # {} => worker[n] \in Holding \ {"slot", "execute"}
  BY DEF Kept, Phases
<1>3. Held(n) = queue[n] \cup flight[n] /\ queue[n] \cap flight[n] = {}
  BY DEF Held, Kept, Apart
<1> USE DEF At, Goto, flagVars, workVars, callVars
<1>4. CASE LoadSucceeds(n) \/ CountReady(n) \/ IncReady(n) \/ TestRunning(n) \/ EmptyBatch(n)
           \/ LeaveReady(n) \/ LeaveDec(n) \/ LeaveUncount(n) \/ AcquireSlot(n) \/ Escape(n)
  <2>1. PICK pc \in WorkerStates :
           /\ worker' = [worker EXCEPT ![n] = pc]
           /\ flight[n] # {} => pc \in Holding
           /\ todo[n] # {} => pc \in Holding \ {"slot", "execute"}
           /\ pc # "done" /\ pc \notin Early /\ pc # "complete"
           /\ pc \in {"slot", "execute"} => worker[n] \in {"slot", "execute"}
    BY <1>2, <1>4
       DEF LoadSucceeds, CountReady, IncReady, TestRunning, EmptyBatch, LeaveReady, LeaveDec,
           LeaveUncount, AcquireSlot, Escape, Holding, Early, WorkerStates
  <2>2. /\ UNCHANGED <<closed, queue, flight, todo, future, call, broken>>
        /\ ready' \subseteq ready \cup {n}
    BY <1>4
       DEF LoadSucceeds, CountReady, IncReady, TestRunning, EmptyBatch, LeaveReady, LeaveDec,
           LeaveUncount, AcquireSlot, Escape
  <2> QED BY <2>1, <2>2, KeptQuiet
<1>5. CASE LoadFails(n)
  <2>1. queue[n] = {} /\ flight[n] = {} /\ todo[n] = {}
    BY <1>5 DEF LoadFails, Kept, Phases, Early, Holding
  <2>2. /\ Resolve({}, "error") /\ closed' = closed \cup {n}
        /\ queue' = [queue EXCEPT ![n] = {}] /\ worker' = [worker EXCEPT ![n] = "done"]
        /\ UNCHANGED <<ready, call, flight, todo>>
    BY <1>5, <2>1 DEF LoadFails, CloseQueue
  <2>3. /\ worker'[n] = "done" /\ queue'[n] = {} /\ "done" \notin Early
        /\ \A m \in Instances : m # n => worker'[m] = worker[m] /\ queue'[m] = queue[m]
    BY <1>1, <2>2 DEF Early
  <2>4. Held(n) = {} /\ {} \in SUBSET Requests BY <1>3, <2>1
  <2> QED BY <2>1, <2>2, <2>3, <2>4, KeptResolve
<1>6. CASE GiveUpSlot(n) \/ ExecuteFails(n)
  <2>1. /\ worker[n] \in {"slot", "execute"} /\ Resolve(flight[n], "error")
        /\ worker' = [worker EXCEPT ![n] = "loop"] /\ flight' = [flight EXCEPT ![n] = {}]
        /\ UNCHANGED <<ready, call, closed, queue, todo>>
    BY <1>6 DEF GiveUpSlot, ExecuteFails
  <2>2. todo[n] = {} BY <1>2, <2>1
  <2>3. /\ worker'[n] = "loop" /\ flight'[n] = {} /\ "loop" \notin Early
        /\ \A m \in Instances : m # n => worker'[m] = worker[m] /\ flight'[m] = flight[m]
    BY <1>1, <2>1 DEF Early
  <2>4. \A r \in flight[n] : Open(r) BY <2>1 DEF Kept, HeldOpen
  <2>5. /\ flight[n] \in SUBSET Requests /\ flight[n] \subseteq Held(n)
        /\ flight[n] \cap (queue'[n] \cup flight'[n]) = {}
        /\ \A r \in Held(n) \ flight[n] : r \in queue'[n]
    BY <1>1, <1>3, <2>1, <2>3
  <2> QED BY <2>1, <2>2, <2>3, <2>4, <2>5, KeptResolve
<1>7. CASE LeaveClose(n)
  <2> DEFINE rs == queue[n] \cup {r \in flight[n] : ~Done(r)}
  <2>1. /\ Resolve(rs, "error") /\ closed' = closed \cup {n}
        /\ queue' = [queue EXCEPT ![n] = {}] /\ worker' = [worker EXCEPT ![n] = "done"]
        /\ flight' = [flight EXCEPT ![n] = {}] /\ todo' = [todo EXCEPT ![n] = {}]
        /\ UNCHANGED <<ready, call>>
    BY <1>7 DEF LeaveClose
  <2>2. rs \in SUBSET Requests /\ rs \subseteq Held(n) BY <1>1, <1>3
  <2>3. \A r \in rs : Open(r)
    <3>1. \A r \in queue[n] : Open(r) BY DEF Kept, HeldOpen
    <3>2. ASSUME NEW r \in flight[n], ~Done(r) PROVE Open(r)
      <4>1. call[r].pc = "accepted" /\ r \in Requests BY <1>1, <1>3, <3>2 DEF Kept, CallsKept
      <4>2. future[r] # "none" /\ future[r] \in Futures
        BY <4>1, TypeParts DEF Kept, CallsKept, CallsOK
      <4> QED BY <3>2, <4>2 DEF Done, Open, Futures
    <3> QED BY <3>1, <3>2
  <2>4. \A r \in Held(n) \ rs : Done(r) BY <1>3
  <2> HIDE DEF rs
  <2>5. /\ worker'[n] = "done" /\ "done" \notin Early
        /\ queue'[n] = {} /\ flight'[n] = {} /\ todo'[n] = {} /\ n \in closed'
        /\ \A m \in Instances : m # n => /\ worker'[m] = worker[m] /\ queue'[m] = queue[m]
                                         /\ flight'[m] = flight[m] /\ todo'[m] = todo[m]
    BY <1>1, <2>1 DEF Early
  <2> QED BY <2>1, <2>2, <2>3, <2>4, <2>5, KeptResolve
<1> QED BY <1>4, <1>5, <1>6, <1>7, KeptTake, KeptExecuted, KeptComplete, KeptBatchDone DEF Work

LEMMA KeptNext ==
    ASSUME TypeOK, Controlled, Kept, [Next]_vars PROVE Kept'
<1>1. CASE UNCHANGED vars BY <1>1, KeptSame DEF vars, workVars, callVars, flagVars
<1> QED BY <1>1, KeptControl, KeptWork, KeptCall DEF Next

\* What is held is held by a live worker, and by no other.
LEMMA KeptCustody == ASSUME TypeOK, Kept PROVE Custody
<1> SUFFICES ASSUME NEW r \in Requests, Unanswered(r)
             PROVE  \E n \in Instances :
                       /\ worker[n] \notin {"none", "done"}
                       /\ r \in queue[n] \cup flight[n]
                       /\ \A m \in Instances \ {n} : r \notin queue[m] \cup flight[m]
  BY DEF Custody
<1>1. PICK n \in Instances : r \in Held(n) BY DEF Kept, CallsKept
<1>2. worker[n] \notin {"none", "done"} BY <1>1 DEF Kept, Phases, Held, Early, Holding
<1>3. \A m \in Instances \ {n} : r \notin Held(m) BY <1>1 DEF Kept, Apart
<1> QED BY <1>1, <1>2, <1>3 DEF Held

-----------------------------------------------------------------------------
\* The engine keeps its invariant through starts that are aborted or fail,
\* loads that fail, batches that fail, workers that die and stops that abandon
\* one, for any number of instances and requests and any limits.
THEOREM Inductive == Spec => []IInv
<1>1. Init => IInv
  BY TypeInit, ControlledInit, SlotsInit, KeptInit, GaugeInit DEF IInv
<1>2. IInv /\ [Next]_vars => IInv'
  BY TypeNext, ControlledNext, SlotsNext, KeptNext, GaugeNext DEF IInv
<1> QED BY <1>1, <1>2, PTL DEF Spec

\* ModelInstance.stop() finalizes a backend only when its worker has ended: a
\* worker that outlives the join keeps its backend.
THEOREM BackendsOutliveWorkers == Spec => []BackendOutlivesWorker
<1>1. IInv => BackendOutlivesWorker BY DEF IInv, Controlled
<1> QED BY <1>1, Inductive, PTL

\* No future is resolved twice, and an accepted request without an answer is in
\* the queue or the batch of exactly one live worker.
THEOREM RequestsAnsweredFromOnePlace == Spec => []AnsweredFromOnePlace
<1>1. IInv => AnsweredFromOnePlace
  BY KeptCustody DEF IInv, Kept, AnsweredFromOnePlace
<1> QED BY <1>1, Inductive, PTL

\* Execution slots are held by exactly the workers that execute and never more
\* than the limit; the readiness gauge follows the instances counted, as long
\* as no worker was abandoned.
THEOREM BooksAlwaysBalance == Spec => []BooksBalance
<1>1. IInv => BooksBalance BY DEF IInv, BooksBalance
<1> QED BY <1>1, Inductive, PTL
=============================================================================
