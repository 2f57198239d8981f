------------------------------ MODULE FifoQueue ------------------------------
(***************************************************************************)
(* FifoQueue (scheduling/queues/fifo.py): one deque behind one condition,  *)
(* the queue an instance gets when fair_queueing is off.  It owes the same *)
(* contract as the fair queue (RequestQueue) with none of its lanes.       *)
(*                                                                         *)
(* A step is what one thread does between two points where it can lose the *)
(* lock; the drain holds it over several pops and has a pc of its own.     *)
(* Every wait has a timeout, so a sleeper may always wake; `asleep' holds  *)
(* the sleepers no notify has reached.                                     *)
(***************************************************************************)
EXTENDS Naturals, FiniteSets, SequencesExt

CONSTANTS
    Items,          \* WorkItems; each is the argument of one put() call
    RowsOf,         \* [Items -> Nat]   request.batch_size
    WithDeadline,   \* SUBSET Items     deadline_ns # 0
    Capacity, Overflow, DropExpired,    \* the queue's configuration
    MaxBatch,       \* BatchWindow.max_batch_size
    Delays,         \* BatchWindow.max_delay_us > 0
    Preferred,      \* BatchWindow.preferred_sizes
    Worker          \* the thread of the one instance that owns the queue

VARIABLES
    items,     \* _items
    closed,    \* _closed
    counts,    \* _accepted, _rejected, _evicted, _expired
    outcome,   \* [Items -> outcome of its put()], as in FairQueue
    asleep,    \* threads inside _cond.wait() that no notify has reached
    worker,    \* where the worker is in get_batch()
    batch,     \* the batch being drained
    rows,      \* its rows
    late       \* items whose deadline has passed

queueVars == <<items, closed>>
vars == <<items, closed, counts, outcome, asleep, worker, batch, rows, late>>

Init ==
    /\ items = <<>>
    /\ closed = FALSE
    /\ counts = [accepted |-> 0, rejected |-> 0, evicted |-> 0, expired |-> 0]
    /\ outcome = [i \in Items |-> "new"]
    /\ asleep = {}
    /\ worker = "idle"
    /\ batch = <<>>
    /\ rows = 0
    /\ late = {}

Unlocked == worker # "drain"
Full == Len(items) >= Capacity
InPut(i) == outcome[i] \in {"new", "blocked"}

\* _cond.notify(): one sleeper, whoever it is, if there is one.
Notify(sleepers) ==
    IF sleepers = {} THEN asleep' = {}
    ELSE \E t \in sleepers : asleep' = sleepers \ {t}

\* The rest of put(), once there is room in `into'.
Enqueue(i, into) ==
    /\ items' = Append(into, i)
    /\ Notify(asleep \ {i})

PutCancelled(i) ==
    /\ Unlocked /\ InPut(i) /\ closed
    /\ outcome' = [outcome EXCEPT ![i] = "cancelled"]
    /\ asleep' = asleep \ {i}
    /\ UNCHANGED <<queueVars, counts, worker, batch, rows, late>>

PutAccepted(i) ==
    /\ Unlocked /\ InPut(i) /\ ~closed /\ ~Full
    /\ Enqueue(i, items)
    /\ outcome' = [outcome EXCEPT ![i] = "queued"]
    /\ counts' = [counts EXCEPT !.accepted = @ + 1]
    /\ UNCHANGED <<closed, worker, batch, rows, late>>

\* REJECT, or BLOCK with the deadline gone.
PutRefused(i) ==
    /\ Unlocked /\ InPut(i) /\ ~closed /\ Full
    /\ Overflow \in {"reject", "block"}
    /\ outcome' = [outcome EXCEPT ![i] = "refused"]
    /\ counts' = [counts EXCEPT !.rejected = @ + 1]
    /\ asleep' = asleep \ {i}
    /\ UNCHANGED <<queueVars, worker, batch, rows, late>>

\* BLOCK with time left: sleep, or sleep again after losing the freed slot.
PutBlocks(i) ==
    /\ Unlocked /\ InPut(i) /\ i \notin asleep /\ ~closed /\ Full
    /\ Overflow = "block"
    /\ outcome' = [outcome EXCEPT ![i] = "blocked"]
    /\ asleep' = asleep \cup {i}
    /\ UNCHANGED <<queueVars, counts, worker, batch, rows, late>>

\* DROP_OLDEST: the head of the deque goes.
PutEvicting(i) ==
    /\ Unlocked /\ InPut(i) /\ ~closed /\ Full
    /\ Overflow = "drop_oldest"
    /\ Enqueue(i, Tail(items))
    /\ outcome' = [outcome EXCEPT ![Head(items)] = "evicted", ![i] = "queued"]
    /\ counts' = [counts EXCEPT !.evicted = @ + 1, !.accepted = @ + 1]
    /\ UNCHANGED <<closed, worker, batch, rows, late>>

Put(i) == \/ PutCancelled(i) \/ PutAccepted(i) \/ PutRefused(i)
          \/ PutBlocks(i) \/ PutEvicting(i)

-----------------------------------------------------------------------------
(* get_batch()                                                             *)

GetClosed ==
    /\ worker \in {"idle", "waitFirst"} /\ items = <<>> /\ closed
    /\ worker' = "idle"
    /\ asleep' = asleep \ {Worker}
    /\ UNCHANGED <<queueVars, counts, outcome, batch, rows, late>>

AwaitFirst ==
    /\ worker \in {"idle", "waitFirst"} /\ items = <<>> /\ ~closed
    /\ worker' = "waitFirst"
    /\ asleep' = asleep \cup {Worker}
    /\ UNCHANGED <<queueVars, counts, outcome, batch, rows, late>>

\* The test of the fill loop, deadline apart.
Fills == Delays /\ Len(items) < MaxBatch /\ ~closed /\ Len(items) \notin Preferred

AwaitFill ==
    /\ \/ worker \in {"idle", "waitFirst"} /\ items # <<>>
       \/ worker = "waitFill" /\ Worker \notin asleep
    /\ Fills
    /\ worker' = "waitFill"
    /\ asleep' = asleep \cup {Worker}
    /\ UNCHANGED <<queueVars, counts, outcome, batch, rows, late>>

StartDrain ==
    /\ \/ worker \in {"idle", "waitFirst"} /\ items # <<>>
       \/ worker = "waitFill"
    /\ worker' = "drain"
    /\ asleep' = asleep \ {Worker}
    /\ UNCHANGED <<queueVars, counts, outcome, batch, rows, late>>

RowsIn(i) == IF RowsOf[i] = 0 THEN 1 ELSE RowsOf[i]
OverBudget(i) == batch # <<>> /\ rows + RowsIn(i) > MaxBatch

DrainPop ==
    /\ worker = "drain" /\ items # <<>> /\ rows < MaxBatch
    /\ LET i == Head(items) IN
       /\ ~OverBudget(i)
       /\ items' = Tail(items)
       /\ \/ /\ DropExpired /\ i \in late
             /\ outcome' = [outcome EXCEPT ![i] = "expired"]
             /\ counts' = [counts EXCEPT !.expired = @ + 1]
             /\ UNCHANGED <<batch, rows>>
          \/ /\ ~(DropExpired /\ i \in late)
             /\ outcome' = [outcome EXCEPT ![i] = "batched"]
             /\ batch' = Append(batch, i)
             /\ rows' = rows + RowsIn(i)
             /\ UNCHANGED counts
    /\ UNCHANGED <<closed, asleep, worker, late>>

DrainReturn ==
    /\ worker = "drain"
    /\ items # <<>> => (rows >= MaxBatch \/ OverBudget(Head(items)))
    /\ worker' = "idle"
    /\ batch' = <<>>
    /\ rows' = 0
    /\ asleep' = IF Overflow = "block" THEN {} ELSE asleep
    /\ UNCHANGED <<queueVars, counts, outcome, late>>

GetBatch == GetClosed \/ AwaitFirst \/ AwaitFill \/ StartDrain \/ DrainPop \/ DrainReturn

-----------------------------------------------------------------------------
\* close(): everything out under the lock, failed after releasing it.
Close ==
    /\ Unlocked
    /\ closed' = TRUE
    /\ items' = <<>>
    /\ outcome' = [i \in Items |->
                      IF outcome[i] = "queued" THEN "drained" ELSE outcome[i]]
    /\ asleep' = {}
    /\ UNCHANGED <<counts, worker, batch, rows, late>>

FailDrained(i) ==
    /\ outcome[i] = "drained"
    /\ outcome' = [outcome EXCEPT ![i] = "failed"]
    /\ UNCHANGED <<queueVars, counts, asleep, worker, batch, rows, late>>

\* The clock.  A drain compares against the `now' it read when it started.
DeadlinePasses(i) ==
    /\ Unlocked
    /\ i \in WithDeadline \ late
    /\ late' = late \cup {i}
    /\ UNCHANGED <<queueVars, counts, outcome, asleep, worker, batch, rows>>

Next ==
    \/ \E i \in Items : Put(i) \/ FailDrained(i) \/ DeadlinePasses(i)
    \/ GetBatch
    \/ Close

Spec == Init /\ [][Next]_vars

-----------------------------------------------------------------------------
\* put() notifies one sleeper of a condition the worker and the blocked
\* producers share, and a drain notifies them all: no producer sleeps beside
\* a free slot, and the worker sleeps only while it has nothing to do.
FifoNoLostWakeup ==
    Unlocked =>
      /\ \A i \in Items \cap asleep : Full /\ ~closed
      /\ (Worker \in asleep /\ worker = "waitFirst") => (items = <<>> /\ ~closed)
      /\ (Worker \in asleep /\ worker = "waitFill") => Fills

\* What a put() call has come to, as the contract of RequestQueue sees it.
FifoContract == INSTANCE RequestQueue WITH
    outcome <- [i \in Items |-> IF outcome[i] = "blocked" THEN "new" ELSE outcome[i]]

\* The FIFO queue keeps the contract of RequestQueue under every overflow
\* policy, across every interleaving of put(), get_batch() and close().
FifoImplementsContract == FifoContract!Spec
=============================================================================
