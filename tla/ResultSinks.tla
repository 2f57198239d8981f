----------------------------- MODULE ResultSinks -----------------------------
(***************************************************************************)
(* The Kafka result sink (topology/sinks/kafka.py over sinks/base.py) and  *)
(* the workers that publish through it (elements/output.py, and the same   *)
(* emit-then-drain of pipeline/runner.py).  The producer accepts a message *)
(* into its buffer at once and learns the broker's verdict later; the      *)
(* verdict is delivered on whichever thread is inside poll() or flush(),   *)
(* usually that of another camera's frame.                                 *)
(*                                                                         *)
(* close() may find a worker still inside emit(): one that outlived the    *)
(* join of its runner.  The counters of base.py are single attributes      *)
(* incremented under the interpreter's lock, so an increment is atomic.    *)
(***************************************************************************)
EXTENDS Naturals, FiniteSets

CONSTANTS
    Events,      \* the frames' events
    Workers,     \* threads that publish
    MaxBuffer    \* queue.buffering.max.messages

VARIABLES
    todo,        \* events no worker has taken yet
    worker,      \* [Workers -> [at, event, drained]]
    closed,      \* ResultSink._closed
    closer,      \* where the thread that closes the sink is
    buffer,      \* messages in the producer, verdict not delivered yet
    counts,      \* emitted, failed, delivered, delivery_failures
    tags,        \* _pending_tags
    refused,     \* events the broker refused
    told,        \* [Events -> Nat] how often the loss of an event was counted or logged
    outcome      \* [Events -> what the frame path was told]

vars == <<todo, worker, closed, closer, buffer, counts, tags, refused, told, outcome>>

Idle == [at |-> "idle", event |-> {}, drained |-> {}]

Init ==
    /\ todo = Events
    /\ worker = [w \in Workers |-> Idle]
    /\ closed = FALSE
    /\ closer = "open"
    /\ buffer = {}
    /\ counts = [emitted |-> 0, failed |-> 0, delivered |-> 0, failures |-> 0]
    /\ tags = {}
    /\ refused = {}
    /\ told = [e \in Events |-> 0]
    /\ outcome = [e \in Events |-> "none"]

Count(what) == counts' = [counts EXCEPT ![what] = @ + 1]
Goes(w, to) == worker' = [worker EXCEPT ![w].at = to]
Event(w) == CHOOSE e \in worker[w].event : TRUE
Tell(es) == told' = [e \in Events |-> told[e] + (IF e \in es THEN 1 ELSE 0)]

\* emit() on a closed sink: counted and dropped.
EmitClosed(w, e) ==
    /\ worker[w].at = "idle" /\ e \in todo
    /\ closed
    /\ todo' = todo \ {e}
    /\ Count("failed")
    /\ outcome' = [outcome EXCEPT ![e] = "dropped"]
    /\ worker' = [worker EXCEPT ![w] = [at |-> "drain", event |-> {e}, drained |-> {}]]
    /\ UNCHANGED <<closed, closer, buffer, tags, refused, told>>

\* emit() past the test of _closed.
EmitBegins(w, e) ==
    /\ worker[w].at = "idle" /\ e \in todo
    /\ ~closed
    /\ todo' = todo \ {e}
    /\ worker' = [worker EXCEPT ![w] = [at |-> "produce", event |-> {e}, drained |-> {}]]
    /\ UNCHANGED <<closed, closer, buffer, counts, tags, refused, told, outcome>>

\* produce() with room in the producer's queue, then poll(0).
Produce(w) ==
    /\ worker[w].at = "produce"
    /\ Cardinality(buffer) < MaxBuffer
    /\ buffer' = buffer \cup worker[w].event
    /\ Goes(w, "poll")
    /\ UNCHANGED <<todo, closed, closer, counts, tags, refused, told, outcome>>

\* BufferError: the sink's bound turned an outage into a counted failure.
ProduceRefused(w) ==
    /\ worker[w].at = "produce"
    /\ Cardinality(buffer) = MaxBuffer
    /\ Count("failed")
    /\ outcome' = [outcome EXCEPT ![Event(w)] = "dropped"]
    /\ Goes(w, "drain")
    /\ UNCHANGED <<todo, closed, closer, buffer, tags, refused, told>>

\* Threads inside poll() or flush(): the ones callbacks run on.
Serving == (\E w \in Workers : worker[w].at = "poll") \/ closer = "flush"

\* _on_delivery: the broker's verdict on any message, acknowledged or refused.
OnDelivery(e) ==
    /\ Serving /\ e \in buffer
    /\ buffer' = buffer \ {e}
    /\ \/ Count("delivered") /\ UNCHANGED <<tags, refused>>
       \/ /\ Count("failures")
          /\ tags' = tags \cup {e}
          /\ refused' = refused \cup {e}
    /\ UNCHANGED <<todo, worker, closed, closer, told, outcome>>

\* poll(0) returns: the event counts as emitted.
Emitted(w) ==
    /\ worker[w].at = "poll"
    /\ Count("emitted")
    /\ outcome' = [outcome EXCEPT ![Event(w)] = "emitted"]
    /\ Goes(w, "drain")
    /\ UNCHANGED <<todo, closed, closer, buffer, tags, refused, told>>

(* Fault: the list is read under the lock and cleared after it.           *)
Drain_ReadThenClear(w) ==
    \/ /\ worker[w].at = "drain"
       /\ worker' = [worker EXCEPT ![w].at = "clear", ![w].drained = tags]
       /\ UNCHANGED <<todo, closed, closer, buffer, counts, tags, refused, told, outcome>>
    \/ /\ worker[w].at = "clear"
       /\ tags' = {}
       /\ Goes(w, "charge")
       /\ UNCHANGED <<todo, closed, closer, buffer, counts, refused, told, outcome>>

\* drain_delivery_failures: taken and forgotten in one critical section ...
Drain(w) ==
    /\ worker[w].at = "drain"
    /\ worker' = [worker EXCEPT ![w].at = "charge", ![w].drained = tags]
    /\ tags' = {}
    /\ UNCHANGED <<todo, closed, closer, buffer, counts, refused, told, outcome>>

\* ... and charged to the cameras they belong to.
Charge(w) ==
    /\ worker[w].at = "charge"
    /\ Tell(worker[w].drained)
    /\ worker' = [worker EXCEPT ![w] = Idle]
    /\ UNCHANGED <<todo, closed, closer, buffer, counts, tags, refused, outcome>>

-----------------------------------------------------------------------------
\* close(): no more events; then flush() serves callbacks until it times out.
Close ==
    /\ closer = "open"
    /\ closed' = TRUE
    /\ closer' = "flush"
    /\ UNCHANGED <<todo, worker, buffer, counts, tags, refused, told, outcome>>

\* flush() over, at once or after its timeout: what nobody drained is logged.
Flushed ==
    /\ closer = "flush"
    /\ Tell(tags)
    /\ tags' = {}
    /\ closer' = "closed"
    /\ UNCHANGED <<todo, worker, closed, buffer, counts, refused, outcome>>

Next ==
    \/ \E w \in Workers, e \in Events : EmitClosed(w, e) \/ EmitBegins(w, e)
    \/ \E w \in Workers :
          Produce(w) \/ ProduceRefused(w) \/ Emitted(w) \/ Drain(w) \/ Charge(w)
    \/ \E e \in Events : OnDelivery(e)
    \/ Close \/ Flushed

Spec == Init /\ [][Next]_vars

-----------------------------------------------------------------------------
InHand(e) == {w \in Workers : e \in worker[w].drained}

\* A message the broker refused is charged to its own frame, once: it waits in
\* the list, is in the hands of one worker that drained it, or was told, and
\* an event the broker never refused is charged to nobody.
RefusalsToldOnce ==
    \A e \in Events :
        told[e] + Cardinality(InHand(e)) + (IF e \in tags THEN 1 ELSE 0)
            = IF e \in refused THEN 1 ELSE 0
=============================================================================
