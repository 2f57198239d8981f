----------------------------- MODULE NativeFleet -----------------------------
(***************************************************************************)
(* The ingest manager of the C++ plane (csrc/shipinfer/ingest/manager.cpp) *)
(* with the lifecycle half of its actors (camera/actor.cpp).  It is the    *)
(* Python manager again, and one question more: C++ frees what nobody      *)
(* refers to, and a detached thread keeps standing on its actor.  So who   *)
(* holds an actor matters: the map, the shared_ptr in a caller's frame,    *)
(* and abandoned_, where an actor is parked when its thread was detached.  *)
(***************************************************************************)
EXTENDS Naturals, FiniteSets, Sequences

CONSTANTS
    Callers,     \* threads of the API, one call each
    Cameras,     \* camera ids
    Configured,  \* the order in which start() adds them
    MaxActors    \* bound: actors built in one behaviour

VARIABLES
    actors,   \* every actor ever built, in order
    fleet,    \* the manager: its map, the parked actors, whether it has started
    calls     \* where each caller is, and the shared_ptrs in its frame

vars == <<actors, fleet, calls>>

NoActor == 0
Nothing == [op |-> "none", pc |-> "idle", cam |-> 0, self |-> NoActor, todo |-> <<>>,
            lent |-> {}, count |-> 0]

NewActor(cam) ==
    [cam |-> cam, stop |-> FALSE, thread |-> "none", handle |-> "none", locked |-> FALSE]

Init ==
    /\ actors = <<>>
    /\ fleet = [map |-> [c \in Cameras |-> NoActor], parked |-> {}, started |-> FALSE]
    /\ calls = [p \in Callers |-> Nothing]

At(p, pc) == calls[p].pc = pc
Goto(p, pc) == calls' = [calls EXCEPT ![p].pc = pc]
Me(p) == calls[p].self
Returns(p) == calls' = [calls EXCEPT ![p].pc = "done", ![p].self = NoActor, ![p].todo = <<>>]

CallAdd(p, cam) ==
    /\ At(p, "idle")
    /\ calls' = [calls EXCEPT ![p].op = "add", ![p].pc = "add", ![p].cam = cam]
    /\ UNCHANGED <<actors, fleet>>

(* Checked and set in one critical section, unlike the Python manager's.   *)
CallStart(p) ==
    /\ At(p, "idle")
    /\ fleet' = [fleet EXCEPT !.started = TRUE]
    /\ calls' = IF fleet.started
                THEN [calls EXCEPT ![p].pc = "done"]
                ELSE [calls EXCEPT ![p].op = "start", ![p].pc = "next", ![p].todo = Configured]
    /\ UNCHANGED actors

StartNext(p) ==
    /\ At(p, "next")
    /\ calls' = IF calls[p].todo = <<>>
                THEN [calls EXCEPT ![p].pc = "done"]
                ELSE [calls EXCEPT ![p].pc = "add", ![p].cam = Head(calls[p].todo),
                                   ![p].todo = Tail(calls[p].todo)]
    /\ UNCHANGED <<actors, fleet>>

AddRefused(p) ==
    /\ At(p, "add") /\ fleet.map[calls[p].cam] # NoActor
    /\ Returns(p) /\ UNCHANGED <<actors, fleet>>

(* The local shared_ptr keeps the actor alive while it is started outside  *)
(* the lock.                                                               *)
Insert(p) ==
    /\ At(p, "add") /\ fleet.map[calls[p].cam] = NoActor /\ Len(actors) < MaxActors
    /\ actors' = Append(actors, NewActor(calls[p].cam))
    /\ fleet' = [fleet EXCEPT !.map[calls[p].cam] = Len(actors) + 1]
    /\ calls' = [calls EXCEPT ![p].self = Len(actors) + 1, ![p].pc = "clear"]

StartClears(p) ==
    /\ At(p, "clear")
    /\ actors' = [actors EXCEPT ![Me(p)].stop = FALSE]
    /\ Goto(p, "spawn") /\ UNCHANGED fleet

(* The thread is assigned under lifecycle_mutex_.                          *)
StartSpawns(p) ==
    /\ At(p, "spawn") /\ ~actors[Me(p)].locked
    /\ actors' = [actors EXCEPT ![Me(p)].thread = "running", ![Me(p)].handle = "joinable"]
    /\ Goto(p, "recheck") /\ UNCHANGED fleet

Recheck(p) ==
    /\ At(p, "recheck")
    /\ IF fleet.map[calls[p].cam] = Me(p)
       THEN calls' = [calls EXCEPT ![p].pc = IF calls[p].op = "start" THEN "next" ELSE "done",
                                   ![p].self = NoActor]
       ELSE calls' = [calls EXCEPT ![p].pc = "ask", ![p].todo = <<>>]
    /\ UNCHANGED <<actors, fleet>>

CallRemove(p, cam) ==
    /\ At(p, "idle")
    /\ fleet' = [fleet EXCEPT !.map[cam] = NoActor]
    /\ calls' = IF fleet.map[cam] = NoActor
                THEN [calls EXCEPT ![p].pc = "done"]
                ELSE [calls EXCEPT ![p].op = "remove", ![p].pc = "ask", ![p].cam = cam,
                                   ![p].self = fleet.map[cam]]
    /\ UNCHANGED actors

Taken == {a \in 1..Len(actors) : fleet.map[actors[a].cam] = a}

(* "lent" remembers the actors whose thread existed when they were taken.  *)
CallStop(p) ==
    /\ At(p, "idle")
    /\ \E order \in [1..Cardinality(Taken) -> Taken] :
        /\ \A a \in Taken : \E i \in DOMAIN order : order[i] = a
        /\ calls' = [calls EXCEPT ![p].op = "stop", ![p].pc = "askall", ![p].todo = order,
                        ![p].lent = {a \in Taken : actors[a].handle # "none"}]
    /\ fleet' = [fleet EXCEPT !.map = [c \in Cameras |-> NoActor]]
    /\ UNCHANGED actors

AskAll(p) ==
    /\ At(p, "askall")
    /\ actors' = [a \in 1..Len(actors) |->
                    [actors[a] EXCEPT !.stop = @ \/ \E i \in DOMAIN calls[p].todo :
                                                        calls[p].todo[i] = a]]
    /\ Goto(p, "stopnext") /\ UNCHANGED fleet

StopNext(p) ==
    /\ At(p, "stopnext") /\ calls[p].todo # <<>>
    /\ calls' = [calls EXCEPT ![p].pc = "ask", ![p].self = Head(calls[p].todo),
                              ![p].todo = Tail(calls[p].todo)]
    /\ UNCHANGED <<actors, fleet>>

StopEnds(p) ==
    /\ At(p, "stopnext") /\ calls[p].todo = <<>>
    /\ fleet' = [fleet EXCEPT !.started = FALSE]
    /\ Returns(p) /\ UNCHANGED actors

(***************************************************************************)
(* CameraActor::stop.                                                      *)
(***************************************************************************)

Ask(p) ==
    /\ At(p, "ask")
    /\ actors' = [actors EXCEPT ![Me(p)].stop = TRUE]
    /\ Goto(p, "lock") /\ UNCHANGED fleet

(* The joinable/join/detach section, one stopper at a time.                *)
LockLifecycle(p) ==
    /\ At(p, "lock") /\ ~actors[Me(p)].locked
    /\ actors' = [actors EXCEPT ![Me(p)].locked = TRUE]
    /\ Goto(p, IF actors[Me(p)].handle = "joinable" THEN "join" ELSE "unlock")
    /\ UNCHANGED fleet

Join(p) ==
    /\ At(p, "join") /\ actors[Me(p)].thread = "done"
    /\ actors' = [actors EXCEPT ![Me(p)].handle = "joined"]
    /\ Goto(p, "unlock") /\ UNCHANGED fleet

Detach(p) ==
    /\ At(p, "join") /\ actors[Me(p)].thread = "running"
    /\ actors' = [actors EXCEPT ![Me(p)].handle = "detached"]
    /\ Goto(p, "detached") /\ UNCHANGED fleet

(* The thread's fate, whichever stopper sealed it.                         *)
Fate(p) == actors[Me(p)].handle = "detached"

(* The answer; what the manager does with it depends on who asked.         *)
Unlock(p) ==
    /\ calls[p].pc \in {"unlock", "detached"}
    /\ actors' = [actors EXCEPT ![Me(p)].locked = FALSE]
    /\ Goto(p, IF Fate(p) THEN "park" ELSE "clean") /\ UNCHANGED fleet

(* Abandoned: parked with the others that must never be freed.             *)
Park(p) ==
    /\ At(p, "park")
    /\ fleet' = [fleet EXCEPT !.parked = @ \cup {Me(p)}]
    /\ calls' = [calls EXCEPT ![p].pc = IF calls[p].op = "stop" THEN "stopnext" ELSE "done",
                              ![p].self = NoActor, ![p].count = @ + 1]
    /\ UNCHANGED actors

(* Clean: the reference is dropped.                                        *)
LetGo(p) ==
    /\ At(p, "clean")
    /\ calls' = [calls EXCEPT ![p].pc = IF calls[p].op = "stop" THEN "stopnext" ELSE "done",
                              ![p].self = NoActor]
    /\ UNCHANGED <<actors, fleet>>

ThreadEnds(a) ==
    /\ actors[a].thread = "running"
    /\ actors' = [actors EXCEPT ![a].thread = "done", ![a].stop = TRUE]
    /\ UNCHANGED <<fleet, calls>>

Call(p) ==
    \/ \E cam \in Cameras : CallAdd(p, cam) \/ CallRemove(p, cam)
    \/ CallStart(p) \/ StartNext(p) \/ CallStop(p) \/ AskAll(p) \/ StopNext(p) \/ StopEnds(p)

Work(p) ==
    \/ AddRefused(p) \/ Insert(p) \/ StartClears(p) \/ StartSpawns(p) \/ Recheck(p)
    \/ Ask(p) \/ LockLifecycle(p) \/ Join(p) \/ Detach(p) \/ Unlock(p) \/ Park(p) \/ LetGo(p)

AllReturned ==
    /\ \A p \in Callers : At(p, "done") \/ (At(p, "add") /\ Len(actors) = MaxActors)
    /\ UNCHANGED vars

Next ==
    \/ \E p \in Callers : Call(p) \/ Work(p)
    \/ \E a \in 1..Len(actors) : ThreadEnds(a)
    \/ AllReturned

Spec == Init /\ [][Next]_vars

(***************************************************************************)
(* What the manager promises.                                              *)
(***************************************************************************)

Holds(p, a) ==
    \/ Me(p) = a
    \/ calls[p].op = "stop" /\ \E i \in DOMAIN calls[p].todo : calls[p].todo[i] = a

(* A running thread's actor is never freed: the map, some caller's frame   *)
(* or abandoned_ still refers to it (manager.h:155, actor.h:98).           *)
LifetimeSafe ==
    \A a \in 1..Len(actors) :
        actors[a].thread = "running"
            => \/ fleet.map[actors[a].cam] = a
               \/ a \in fleet.parked
               \/ \E p \in Callers : Holds(p, a)

(* A fleet stop() that counts no abandonment leaves no thread behind that  *)
(* existed when it took the fleet: its caller frees the sink on a zero     *)
(* (manager.h:87).                                                         *)
ZeroMeansFree ==
    \A p \in Callers :
        calls[p].op = "stop" /\ At(p, "done") /\ calls[p].count = 0
            => \A a \in calls[p].lent : actors[a].thread = "done"
=============================================================================
