------------------------------ MODULE FairQueue ------------------------------
(***************************************************************************)
(* FairPriorityQueue (scheduling/queues/fair.py) over Lane                 *)
(* (scheduling/queues/lanes.py): priority lanes, each a round-robin over   *)
(* per-camera FIFOs, behind one condition variable that both the producers *)
(* blocked in put() and the worker waiting in get_batch() sleep on.        *)
(*                                                                         *)
(* A step is what one thread does between two points where it can lose the *)
(* lock.  Draining holds the lock over many pops, so it is the one stretch *)
(* with a pc of its own, during which no other thread moves (Unlocked).    *)
(* Time is abstracted: every wait in the code has a timeout, so a sleeping *)
(* thread may always wake; `asleep' holds those nobody has notified yet.   *)
(***************************************************************************)
EXTENDS Integers, FiniteSets, SequencesExt

CONSTANTS
    Items,          \* WorkItems; each is the argument of one put() call
    Cameras,        \* fairness keys
    CameraOf,       \* [Items -> Cameras]      WorkItem.fairness_key
    PriorityOf,     \* [Items -> Levels]       request.priority
    RowsOf,         \* [Items -> Nat]          request.batch_size
    WithDeadline,   \* SUBSET Items            deadline_ns # 0
    PriorityLevels, \* len(Priority)
    Capacity, Overflow, DropExpired,           \* the queue's configuration
    MaxBatch,       \* BatchWindow.max_batch_size
    Delays,         \* BatchWindow.max_delay_us > 0
    Preferred,      \* BatchWindow.preferred_sizes
    Worker          \* the thread of the one instance that owns the queue

Levels == 0 .. PriorityLevels - 1

ASSUME QueueAssumption ==
    /\ IsFiniteSet(Items)
    /\ Worker \notin Items
    /\ PriorityLevels \in Nat \ {0}
    /\ CameraOf \in [Items -> Cameras]
    /\ PriorityOf \in [Items -> Levels]
    /\ RowsOf \in [Items -> Nat]
    /\ WithDeadline \subseteq Items
    /\ Capacity \in Nat \ {0}
    /\ Overflow \in {"reject", "block", "drop_oldest"}
    /\ DropExpired \in BOOLEAN
    /\ MaxBatch \in Nat \ {0}
    /\ Delays \in BOOLEAN
    /\ Preferred \subseteq 1 .. MaxBatch

VARIABLES
    lanes,     \* [Levels -> Lane]
    size,      \* _size, also the depth the placement policies read unlocked
    closed,    \* _closed
    counts,    \* _rejected_by_camera, _evicted_by_camera, _expired_by_camera
    outcome,   \* [Items -> Outcomes]
    asleep,    \* threads inside _cond.wait() that no notify has reached
    worker,    \* where the worker is in get_batch()
    batch,     \* _drain_locked: the batch so far
    rows,      \* _drain_locked: its rows
    late,      \* items whose deadline has passed
    stamp,     \* history: the position at which each item was accepted
    passed     \* history: [Levels -> [Cameras -> SUBSET Cameras]], see Popped

queueVars == <<lanes, size, closed>>
vars == <<lanes, size, closed, counts, outcome, asleep, worker, batch, rows,
          late, stamp, passed>>

Threads == Items \cup {Worker}

\* RequestQueue's outcomes, and a put() asleep in _make_room_locked.
Outcomes == {"new", "blocked", "refused", "cancelled", "queued", "batched",
             "evicted", "expired", "drained", "failed"}

-----------------------------------------------------------------------------
(* Lane.  A key absent from by_key is a camera whose bucket is empty.      *)

EmptyLane == [order |-> <<>>, by_key |-> [c \in Cameras |-> <<>>], size |-> 0]

\* Fault: the key joins the rotation on every push, not only on its first.
PushListsTwice(lane, i) ==
    LET c == CameraOf[i] IN
    [order  |-> Append(lane.order, c),
     by_key |-> [lane.by_key EXCEPT ![c] = Append(@, i)],
     size   |-> lane.size + 1]

Push(lane, i) ==
    LET c == CameraOf[i] IN
    [order  |-> IF lane.by_key[c] = <<>> THEN Append(lane.order, c) ELSE lane.order,
     by_key |-> [lane.by_key EXCEPT ![c] = Append(@, i)],
     size   |-> lane.size + 1]

Peek(lane) == Head(lane.by_key[Head(lane.order)])

\* The key that was served goes to the back of the rotation.
Pop(lane) ==
    LET c    == Head(lane.order)
        rest == Tail(lane.by_key[c])
    IN  [order  |-> IF rest = <<>> THEN Tail(lane.order)
                                   ELSE Append(Tail(lane.order), c),
         by_key |-> [lane.by_key EXCEPT ![c] = rest],
         size   |-> lane.size - 1]

\* Fault: any key may lose a request, the oldest of the lane for one.
LongestIsAny(lane) == {c \in Cameras : lane.by_key[c] # <<>>}

\* The keys max() may choose.  Python takes the first in insertion order of
\* the dict; the model allows any of the longest.
Longest(lane) ==
    {c \in Cameras : /\ lane.by_key[c] # <<>>
                     /\ \A d \in Cameras : Len(lane.by_key[d]) <= Len(lane.by_key[c])}

\* Fault: the loudest camera also loses its turn.
EvictRotates(lane, c) ==
    LET rest == Tail(lane.by_key[c])
        without == RemoveFirst(lane.order, c)
    IN  [order  |-> IF rest = <<>> THEN without ELSE <<c>> \o without,
         by_key |-> [lane.by_key EXCEPT ![c] = rest],
         size   |-> lane.size - 1]

EvictFrom(lane, c) ==
    LET rest == Tail(lane.by_key[c]) IN
    [order  |-> IF rest = <<>> THEN RemoveFirst(lane.order, c) ELSE lane.order,
     by_key |-> [lane.by_key EXCEPT ![c] = rest],
     size   |-> lane.size - 1]

-----------------------------------------------------------------------------
Init ==
    /\ lanes = [p \in Levels |-> EmptyLane]
    /\ size = 0
    /\ closed = FALSE
    /\ counts = [what \in {"rejected", "evicted", "expired"} |->
                    [c \in Cameras |-> 0]]
    /\ outcome = [i \in Items |-> "new"]
    /\ asleep = {}
    /\ worker = "idle"
    /\ batch = <<>>
    /\ rows = 0
    /\ late = {}
    /\ stamp = [i \in Items |-> 0]
    /\ passed = [p \in Levels |-> [c \in Cameras |-> {}]]

Unlocked == worker # "drain"

\* _cond.notify(): one sleeper, whoever it is, if there is one.
Notify(sleepers) ==
    IF sleepers = {} THEN asleep' = {}
    ELSE \E t \in sleepers : asleep' = sleepers \ {t}

Charge(what, c) == counts' = [counts EXCEPT ![what][c] = @ + 1]

Accepted == {i \in Items : stamp[i] > 0}

\* The rest of put(), once there is room in `into' (the lanes after any
\* eviction): push, count, notify.
Enqueue(i, into, n, sleepers) ==
    LET p == PriorityOf[i] IN
    /\ lanes' = [into EXCEPT ![p] = Push(@, i)]
    /\ size' = n + 1
    /\ stamp' = [stamp EXCEPT ![i] = Cardinality(Accepted) + 1]
    /\ Notify(sleepers)

\* put() called, or a blocked put() that was notified or whose wait timed out.
InPut(i) == outcome[i] \in {"new", "blocked"}

PutCancelled(i) ==
    /\ Unlocked /\ InPut(i) /\ closed
    /\ outcome' = [outcome EXCEPT ![i] = "cancelled"]
    /\ asleep' = asleep \ {i}
    /\ UNCHANGED <<queueVars, counts, worker, batch, rows, late, stamp, passed>>

\* Fault: put() does not look at _closed.
PutAcceptedClosed(i) ==
    /\ Unlocked /\ InPut(i)
    /\ size < Capacity
    /\ Enqueue(i, lanes, size, asleep \ {i})
    /\ outcome' = [outcome EXCEPT ![i] = "queued"]
    /\ UNCHANGED <<closed, counts, worker, batch, rows, late, passed>>

PutAccepted(i) ==
    /\ Unlocked /\ InPut(i) /\ ~closed
    /\ size < Capacity
    /\ Enqueue(i, lanes, size, asleep \ {i})
    /\ outcome' = [outcome EXCEPT ![i] = "queued"]
    /\ UNCHANGED <<closed, counts, worker, batch, rows, late, passed>>

\* REJECT, or BLOCK with the deadline gone.
PutRefused(i) ==
    /\ Unlocked /\ InPut(i) /\ ~closed
    /\ size >= Capacity
    /\ Overflow \in {"reject", "block"}
    /\ outcome' = [outcome EXCEPT ![i] = "refused"]
    /\ Charge("rejected", CameraOf[i])
    /\ asleep' = asleep \ {i}
    /\ UNCHANGED <<queueVars, worker, batch, rows, late, stamp, passed>>

\* BLOCK with time left: sleep, or sleep again after a notify that lost the
\* freed slot to another producer.
PutBlocks(i) ==
    /\ Unlocked /\ InPut(i) /\ i \notin asleep /\ ~closed
    /\ size >= Capacity
    /\ Overflow = "block"
    /\ outcome' = [outcome EXCEPT ![i] = "blocked"]
    /\ asleep' = asleep \cup {i}
    /\ UNCHANGED <<queueVars, counts, worker, batch, rows, late, stamp, passed>>

\* The lowest-priority lane that holds anything.
VictimLane(p) ==
    /\ lanes[p].order # <<>>
    /\ \A q \in Levels : q > p => lanes[q].order = <<>>

\* DROP_OLDEST: the oldest request of the camera hogging that lane.
PutEvicting(i) ==
    /\ Unlocked /\ InPut(i) /\ ~closed
    /\ size >= Capacity
    /\ Overflow = "drop_oldest"
    /\ \E v \in Levels : \E c \in Longest(lanes[v]) :
          LET victim == Head(lanes[v].by_key[c]) IN
          /\ VictimLane(v)
          /\ Enqueue(i, [lanes EXCEPT ![v] = EvictFrom(@, c)], size - 1, asleep)
          /\ outcome' = [outcome EXCEPT ![victim] = "evicted", ![i] = "queued"]
          /\ Charge("evicted", CameraOf[victim])
          /\ passed' = [passed EXCEPT ![v][c] =
                           IF Len(lanes[v].by_key[c]) = 1 THEN {} ELSE @]
    /\ UNCHANGED <<closed, worker, batch, rows, late>>

-----------------------------------------------------------------------------
(* get_batch()                                                             *)

\* Called on, or woken to, a queue that is closed and empty: returns [].
GetClosed ==
    /\ worker \in {"idle", "waitFirst"}
    /\ size = 0 /\ closed
    /\ worker' = "idle"
    /\ asleep' = asleep \ {Worker}
    /\ UNCHANGED <<queueVars, counts, outcome, batch, rows, late, stamp, passed>>

AwaitFirst ==
    /\ worker \in {"idle", "waitFirst"}
    /\ size = 0 /\ ~closed
    /\ worker' = "waitFirst"
    /\ asleep' = asleep \cup {Worker}
    /\ UNCHANGED <<queueVars, counts, outcome, batch, rows, late, stamp, passed>>

\* The test of _wait_to_fill_locked, deadline apart.
Fills == Delays /\ size < MaxBatch /\ ~closed /\ size \notin Preferred

AwaitFill ==
    /\ \/ worker \in {"idle", "waitFirst"} /\ size > 0
       \/ worker = "waitFill" /\ Worker \notin asleep
    /\ Fills
    /\ worker' = "waitFill"
    /\ asleep' = asleep \cup {Worker}
    /\ UNCHANGED <<queueVars, counts, outcome, batch, rows, late, stamp, passed>>

\* Fault: the wait to fill has no deadline.
StartDrainFull ==
    /\ worker \in {"idle", "waitFirst", "waitFill"}
    /\ size > 0 /\ ~Fills
    /\ worker' = "drain"
    /\ asleep' = asleep \ {Worker}
    /\ UNCHANGED <<queueVars, counts, outcome, batch, rows, late, stamp, passed>>

\* Enough, or the delay is over: `now' is read here, once for the drain.
StartDrain ==
    /\ \/ worker \in {"idle", "waitFirst"} /\ size > 0
       \/ worker = "waitFill"
    /\ worker' = "drain"
    /\ asleep' = asleep \ {Worker}
    /\ UNCHANGED <<queueVars, counts, outcome, batch, rows, late, stamp, passed>>

RowsIn(i) == IF RowsOf[i] = 0 THEN 1 ELSE RowsOf[i]

\* The lane the loop of _drain_locked is at: the most urgent with anything in it.
DrainLane(p) ==
    /\ lanes[p].size > 0
    /\ \A q \in Levels : q < p => lanes[q].size = 0

NothingLeft == \A p \in Levels : lanes[p].size = 0

\* The row budget: an item that does not fit stops the batch, unless alone.
OverBudget(i) == batch # <<>> /\ rows + RowsIn(i) > MaxBatch

IsExpired(i) == DropExpired /\ i \in late

\* One turn of the loop that pops: into the batch, or out as expired.
DrainPop ==
    /\ worker = "drain"
    /\ rows < MaxBatch
    /\ \E p \in Levels :
       LET i == Peek(lanes[p])
           c == CameraOf[i]
       IN  /\ DrainLane(p)
           /\ ~OverBudget(i)
           /\ lanes' = [lanes EXCEPT ![p] = Pop(@)]
           /\ size' = size - 1
           /\ \/ /\ IsExpired(i)
                 /\ outcome' = [outcome EXCEPT ![i] = "expired"]
                 /\ Charge("expired", c)
                 /\ UNCHANGED <<batch, rows>>
              \/ /\ ~IsExpired(i)
                 /\ outcome' = [outcome EXCEPT ![i] = "batched"]
                 /\ batch' = Append(batch, i)
                 /\ rows' = rows + RowsIn(i)
                 /\ UNCHANGED counts
           /\ passed' = [passed EXCEPT ![p] =
                 [d \in Cameras |->
                     IF d = c \/ lanes[p].by_key[d] = <<>> THEN {} ELSE @[d] \cup {c}]]
    /\ UNCHANGED <<closed, asleep, worker, late, stamp>>

\* Fault: the row-budget exit returns past the notify_all.
DrainReturnSilently ==
    /\ worker = "drain"
    /\ \/ NothingLeft
       \/ rows >= MaxBatch
       \/ \E p \in Levels : DrainLane(p) /\ OverBudget(Peek(lanes[p]))
    /\ worker' = "idle"
    /\ batch' = <<>>
    /\ rows' = 0
    /\ asleep' = IF Overflow = "block" /\ rows < MaxBatch THEN {} ELSE asleep
    /\ UNCHANGED <<queueVars, counts, outcome, late, stamp, passed>>

\* Every exit of _drain_locked runs its `finally'.
DrainReturn ==
    /\ worker = "drain"
    /\ \/ NothingLeft
       \/ rows >= MaxBatch
       \/ \E p \in Levels : DrainLane(p) /\ OverBudget(Peek(lanes[p]))
    /\ worker' = "idle"
    /\ batch' = <<>>   \* handed to the caller
    /\ rows' = 0
    /\ asleep' = IF Overflow = "block" THEN {} ELSE asleep
    /\ UNCHANGED <<queueVars, counts, outcome, late, stamp, passed>>

-----------------------------------------------------------------------------
\* close(): take everything out and wake everyone under the lock ...
Close ==
    /\ Unlocked
    /\ closed' = TRUE
    /\ lanes' = [p \in Levels |-> EmptyLane]
    /\ size' = 0
    /\ outcome' = [i \in Items |->
                      IF outcome[i] = "queued" THEN "drained" ELSE outcome[i]]
    /\ asleep' = {}
    /\ passed' = [p \in Levels |-> [c \in Cameras |-> {}]]
    /\ UNCHANGED <<counts, worker, batch, rows, late, stamp>>

\* ... and fail what was drained after releasing it.
FailDrained(i) ==
    /\ outcome[i] = "drained"
    /\ outcome' = [outcome EXCEPT ![i] = "failed"]
    /\ UNCHANGED <<queueVars, counts, asleep, worker, batch, rows, late, stamp, passed>>

\* The clock.  A drain compares against the `now' it read when it started.
DeadlinePasses(i) ==
    /\ Unlocked
    /\ i \in WithDeadline \ late
    /\ late' = late \cup {i}
    /\ UNCHANGED <<queueVars, counts, outcome, asleep, worker, batch, rows, stamp, passed>>

Put(i) == \/ PutCancelled(i) \/ PutAccepted(i) \/ PutRefused(i)
          \/ PutBlocks(i) \/ PutEvicting(i)

GetBatch == GetClosed \/ AwaitFirst \/ AwaitFill \/ StartDrain \/ DrainPop \/ DrainReturn

Next ==
    \/ \E i \in Items : Put(i) \/ FailDrained(i) \/ DeadlinePasses(i)
    \/ GetBatch
    \/ Close

Spec == Init /\ [][Next]_vars

\* The instance's worker keeps calling get_batch() and every wait in it has a
\* timeout (poll_s, max_delay_us); a blocked put() is woken by its own deadline
\* (block_timeout_ms); close() fails what it drained in a loop.
Fairness ==
    /\ WF_vars(GetBatch)
    /\ \A i \in Items : /\ WF_vars(outcome[i] = "blocked" /\ Put(i) /\ ~PutBlocks(i))
                         /\ WF_vars(FailDrained(i))

LiveSpec == Spec /\ Fairness

-----------------------------------------------------------------------------
Queued == {i \in Items : outcome[i] = "queued"}

Lane == [order: Seq(Cameras), by_key: [Cameras -> Seq(Items)], size: Nat]

\* Every variable keeps to its type.
TypeOK ==
    /\ lanes \in [Levels -> Lane]
    /\ size \in Nat
    /\ closed \in BOOLEAN
    /\ counts \in [{"rejected", "evicted", "expired"} -> [Cameras -> Nat]]
    /\ outcome \in [Items -> Outcomes]
    /\ asleep \subseteq Threads
    /\ worker \in {"idle", "waitFirst", "waitFill", "drain"}
    /\ batch \in Seq(Items)
    /\ rows \in Nat
    /\ late \subseteq Items
    /\ stamp \in [Items -> Nat]
    /\ passed \in [Levels -> [Cameras -> SUBSET Cameras]]

Own(mine, c) == {i \in mine : CameraOf[i] = c}

\* A lane holds exactly the requests `mine', each once, in its camera's bucket,
\* and its rotation lists each camera that has one, once.
LaneHolds(lane, mine) ==
    /\ lane.size = Cardinality(mine)
    /\ IsInjective(lane.order)
    /\ \A c \in Cameras :
          /\ (c \in ToSet(lane.order)) <=> (Own(mine, c) # {})
          /\ IsInjective(lane.by_key[c])
          /\ ToSet(lane.by_key[c]) = Own(mine, c)

Filed(held, p) == {i \in held : PriorityOf[i] = p}

LanesHold(ls, n, held) ==
    /\ n = Cardinality(held)
    /\ \A p \in Levels : LaneHolds(ls[p], Filed(held, p))

\* The depth counters never drift from the lanes through any mix of push, pop,
\* evict and drain, and no accepted request is lost, duplicated or filed under
\* the wrong camera or priority.
LanesConsistent == LanesHold(lanes, size, Queued)

\* _size never exceeds capacity, whichever producers race for a freed slot.
WithinCapacity == size <= Capacity

\* No thread sleeps through the event it waits for, although producers and the
\* worker share one condition and put() notifies a single sleeper: a blocked
\* producer that nobody has notified faces a full open queue, and a worker
\* that nobody has notified really has nothing to do yet.
NoLostWakeup ==
    Unlocked =>
      /\ \A i \in Items \cap asleep : size >= Capacity /\ ~closed
      /\ (Worker \in asleep /\ worker = "waitFirst") => (size = 0 /\ ~closed)
      /\ (Worker \in asleep /\ worker = "waitFill") => Fills

\* A batch holds at most max_batch_size rows, or one request that is too large
\* by itself (_drain_locked counts rows, not items).
BatchWithinBudget == rows <= MaxBatch \/ Len(batch) = 1

Left == {"batched", "expired", "evicted"}

\* A camera's requests of one priority leave in the order they were accepted.
CameraOrder ==
    \A i, j \in Accepted :
        (/\ CameraOf[i] = CameraOf[j] /\ PriorityOf[i] = PriorityOf[j]
         /\ stamp[i] < stamp[j] /\ outcome[j] \in Left)
        => outcome[i] # "queued"

\* While a camera waits in a lane no other camera is served twice: `passed'
\* collects who was served since it last was, and they all rotate behind it.
RoundRobin ==
    \A p \in Levels :
        LET ord == lanes[p].order IN
        \A k, m \in DOMAIN ord : ord[k] \in passed[p][ord[m]] => m < k

\* Cameras take turns, a camera's own requests leave in order, the batch they
\* leave in keeps to its budget of rows, the queue to its capacity.
FairService == RoundRobin /\ CameraOrder /\ BatchWithinBudget /\ WithinCapacity

\* Shutdown loss is charged to no camera: once closed, a producer that was
\* asleep in put() is cancelled, not counted as rejected.
ShutdownChargesNobody == [][closed => counts' = counts]_vars

\* A quiet camera never pays for a flood: a victim is a request of the lowest
\* priority waiting, and no camera has more requests there than its own.
EvictsTheLoudest ==
    [][\A i \in Queued :
         outcome'[i] = "evicted" =>
            LET Held(c) == {j \in Queued : PriorityOf[j] = PriorityOf[i] /\ CameraOf[j] = c}
            IN  /\ \A j \in Queued : PriorityOf[j] <= PriorityOf[i]
                /\ \A c \in Cameras : Cardinality(Held(c)) <= Cardinality(Held(CameraOf[i]))
      ]_vars

\* No camera pays for another's flood, nor for a shutdown.
NoCameraWronged == EvictsTheLoudest /\ ShutdownChargesNobody

\* Every put() returns and every accepted request is answered: batched,
\* expired, evicted, or failed by close().
EveryPutAnswered ==
    \A i \in Items :
        outcome[i] \in {"blocked", "queued", "drained"} ~>
            outcome[i] \notin {"blocked", "queued", "drained"}

\* What a put() call has come to, as the contract of RequestQueue sees it.
Contract == INSTANCE RequestQueue WITH
    outcome <- [i \in Items |-> IF outcome[i] = "blocked" THEN "new" ELSE outcome[i]]

\* The fair queue keeps the contract of RequestQueue.
ImplementsContract == Contract!Spec
=============================================================================
