---------------------------- MODULE RequestQueue ----------------------------
(***************************************************************************)
(* The contract of scheduling/queues/base.py: what any RequestQueue owes   *)
(* the instance that drains it and the callers that feed it, whatever      *)
(* order it serves requests in.  The concrete queues (FairQueue,           *)
(* FifoQueue) are shown to implement it.                                   *)
(***************************************************************************)
EXTENDS Naturals, FiniteSets

CONSTANTS
    Items,      \* WorkItems, one put() call each
    Capacity,   \* RequestQueue.capacity
    Overflow    \* "reject", "block" or "drop_oldest" (OverflowPolicy)

VARIABLES
    outcome,    \* [Items -> Outcomes]: what has become of each put() call
    closed      \* _closed

vars == <<outcome, closed>>

OverflowPolicies == {"reject", "block", "drop_oldest"}

\* new: put() not called, or still asleep in it.  refused: QueueFullError.
\* cancelled: put() found the queue closed.  queued: accepted and waiting.
\* batched: handed to the consumer.  evicted / expired: failed by the queue.
\* drained: taken out by close().  failed: drained and its future failed.
Outcomes == {"new", "refused", "cancelled", "queued", "batched",
             "evicted", "expired", "drained", "failed"}

With(o) == {i \in Items : outcome[i] = o}
Waiting == With("queued")

Init ==
    /\ outcome = [i \in Items |-> "new"]
    /\ closed = FALSE

\* put() raises RequestCancelledError, and only ever on a closed queue.
CancelPut(i) ==
    /\ outcome[i] = "new"
    /\ closed
    /\ outcome' = [outcome EXCEPT ![i] = "cancelled"]
    /\ UNCHANGED closed

\* put() raises QueueFullError: only at capacity, and never while closing.
Refuse(i) ==
    /\ outcome[i] = "new"
    /\ ~closed
    /\ Overflow # "drop_oldest"
    /\ Cardinality(Waiting) = Capacity
    /\ outcome' = [outcome EXCEPT ![i] = "refused"]
    /\ UNCHANGED closed

Accept(i) ==
    /\ outcome[i] = "new"
    /\ ~closed
    /\ Cardinality(Waiting) < Capacity
    /\ outcome' = [outcome EXCEPT ![i] = "queued"]
    /\ UNCHANGED closed

\* Under DROP_OLDEST a full queue admits i by giving up exactly one victim.
AcceptEvicting(i, victim) ==
    /\ outcome[i] = "new"
    /\ ~closed
    /\ Overflow = "drop_oldest"
    /\ Cardinality(Waiting) = Capacity
    /\ victim \in Waiting
    /\ outcome' = [outcome EXCEPT ![i] = "queued", ![victim] = "evicted"]
    /\ UNCHANGED closed

\* get_batch() moves one waiting item into the batch or expires it.
Take(i) ==
    /\ outcome[i] = "queued"
    /\ \E o \in {"batched", "expired"} : outcome' = [outcome EXCEPT ![i] = o]
    /\ UNCHANGED closed

\* close() is total: everything waiting is taken out in one step.
Close ==
    /\ closed' = TRUE
    /\ outcome' = [i \in Items |->
                      IF outcome[i] = "queued" THEN "drained" ELSE outcome[i]]

FailDrained(i) ==
    /\ outcome[i] = "drained"
    /\ outcome' = [outcome EXCEPT ![i] = "failed"]
    /\ UNCHANGED closed

Next ==
    \/ \E i \in Items :
          CancelPut(i) \/ Refuse(i) \/ Accept(i) \/ Take(i) \/ FailDrained(i)
    \/ \E i, victim \in Items : AcceptEvicting(i, victim)
    \/ Close

Spec == Init /\ [][Next]_vars
=============================================================================
