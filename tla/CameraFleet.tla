----------------------------- MODULE CameraFleet -----------------------------
(***************************************************************************)
(* The ingest manager of the Python plane (ingest/manager.py): the map of  *)
(* running cameras, and the callers that start the fleet, stop it, and add *)
(* and remove cameras while it runs.  A camera actor is seen from outside  *)
(* only: its stop event, its thread and its handle (CameraActor has the    *)
(* rest).  The map has a lock; starting and stopping an actor happen       *)
(* outside it, which is what the re-check in add_camera() is for.          *)
(***************************************************************************)
EXTENDS Naturals, FiniteSets, Sequences

CONSTANTS
    Callers,     \* threads of the API, one call each
    Cameras,     \* camera ids, all of them configured and enabled
    Configured,  \* the order in which start() adds them
    MaxActors    \* bound: actors built in one behaviour

VARIABLES
    actors,   \* every actor ever built, in order
    fleet,    \* the manager: its map, and whether it has started
    calls     \* where each caller is

vars == <<actors, fleet, calls>>

NoActor == 0
Nothing == [op |-> "none", pc |-> "idle", cam |-> 0, self |-> NoActor, todo |-> <<>>]

NewActor(cam) ==
    [cam |-> cam, stop |-> FALSE, thread |-> "none", handle |-> FALSE, abandoned |-> FALSE]

Init ==
    /\ actors = <<>>
    /\ fleet = [map |-> [c \in Cameras |-> NoActor], started |-> FALSE]
    /\ calls = [p \in Callers |-> Nothing]

At(p, pc) == calls[p].pc = pc
Goto(p, pc) == calls' = [calls EXCEPT ![p].pc = pc]
Me(p) == calls[p].self

(***************************************************************************)
(* The calls.  A call to start() adds the configured cameras one by one,   *)
(* so an add is the same whoever asked for it.                             *)
(***************************************************************************)

CallAdd(p, cam) ==
    /\ At(p, "idle")
    /\ calls' = [calls EXCEPT ![p].op = "add", ![p].pc = "add", ![p].cam = cam]
    /\ UNCHANGED <<actors, fleet>>

(* The flag is read and written without the lock.                          *)
CallStart(p) ==
    /\ At(p, "idle")
    /\ calls' = IF fleet.started
                THEN [calls EXCEPT ![p].pc = "done"]
                ELSE [calls EXCEPT ![p].op = "start", ![p].pc = "started",
                                   ![p].todo = Configured]
    /\ UNCHANGED <<actors, fleet>>

StartMarks(p) ==
    /\ At(p, "started")
    /\ fleet' = [fleet EXCEPT !.started = TRUE]
    /\ Goto(p, "next") /\ UNCHANGED actors

StartNext(p) ==
    /\ At(p, "next")
    /\ calls' = IF calls[p].todo = <<>>
                THEN [calls EXCEPT ![p].pc = "done"]
                ELSE [calls EXCEPT ![p].pc = "add", ![p].cam = Head(calls[p].todo),
                                   ![p].todo = Tail(calls[p].todo)]
    /\ UNCHANGED <<actors, fleet>>

(* A second actor for a running camera is refused; a refusal ends start(). *)
AddRefused(p) ==
    /\ At(p, "add") /\ fleet.map[calls[p].cam] # NoActor
    /\ Goto(p, "done") /\ UNCHANGED <<actors, fleet>>

Insert(p) ==
    /\ At(p, "add") /\ fleet.map[calls[p].cam] = NoActor /\ Len(actors) < MaxActors
    /\ actors' = Append(actors, NewActor(calls[p].cam))
    /\ fleet' = [fleet EXCEPT !.map[calls[p].cam] = Len(actors) + 1]
    /\ calls' = [calls EXCEPT ![p].self = Len(actors) + 1, ![p].pc = "clear"]

(* CameraActor.start, outside the lock: it clears the stop event.          *)
StartClears(p) ==
    /\ At(p, "clear")
    /\ actors' = [actors EXCEPT ![Me(p)].stop = FALSE]
    /\ Goto(p, "spawn") /\ UNCHANGED fleet

StartSpawns(p) ==
    /\ At(p, "spawn")
    /\ actors' = [actors EXCEPT ![Me(p)].thread = "running"]
    /\ Goto(p, "keep") /\ UNCHANGED fleet

StartKeeps(p) ==
    /\ At(p, "keep")
    /\ actors' = [actors EXCEPT ![Me(p)].handle = TRUE]
    /\ Goto(p, "recheck") /\ UNCHANGED fleet

AddSucceeds(p) == Goto(p, IF calls[p].op = "start" THEN "next" ELSE "done")

(* Fault: the camera just started is returned without a second look.      *)
RecheckSkipped(p) == At(p, "recheck") /\ AddSucceeds(p) /\ UNCHANGED <<actors, fleet>>

(* The re-check: a camera the fleet forgot while it was starting is        *)
(* stopped here, because the stop that forgot it found no thread.          *)
Recheck(p) ==
    /\ At(p, "recheck")
    /\ IF fleet.map[calls[p].cam] = Me(p)
       THEN AddSucceeds(p)
       ELSE calls' = [calls EXCEPT ![p].pc = "ask", ![p].todo = <<>>]
    /\ UNCHANGED <<actors, fleet>>

CallRemove(p, cam) ==
    /\ At(p, "idle")
    /\ fleet' = [fleet EXCEPT !.map[cam] = NoActor]
    /\ calls' = IF fleet.map[cam] = NoActor
                THEN [calls EXCEPT ![p].pc = "done"]
                ELSE [calls EXCEPT ![p].op = "remove", ![p].pc = "ask", ![p].cam = cam,
                                   ![p].self = fleet.map[cam]]
    /\ UNCHANGED actors

(* The fleet's stop: take every actor, ask them all, then wait for each.   *)
Taken == {a \in 1..Len(actors) : fleet.map[actors[a].cam] = a}

CallStop(p) ==
    /\ At(p, "idle")
    /\ \E order \in [1..Cardinality(Taken) -> Taken] :
        /\ \A a \in Taken : \E i \in DOMAIN order : order[i] = a
        /\ calls' = [calls EXCEPT ![p].op = "stop", ![p].pc = "askall", ![p].todo = order]
    /\ fleet' = [fleet EXCEPT !.map = [c \in Cameras |-> NoActor]]
    /\ UNCHANGED actors

(* One actor after another is asked before the first one is joined; the    *)
(* order among them is invisible, so it is one step.                       *)
AskAll(p) ==
    /\ At(p, "askall")
    /\ actors' = [a \in 1..Len(actors) |->
                    [actors[a] EXCEPT !.stop = @ \/ \E i \in DOMAIN calls[p].todo :
                                                        calls[p].todo[i] = a]]
    /\ Goto(p, "stopnext") /\ UNCHANGED fleet

StopNext(p) ==
    /\ At(p, "stopnext") /\ calls[p].todo # <<>>
    /\ calls' = [calls EXCEPT ![p].pc = "ask", ![p].self = Head(calls[p].todo),
                              ![p].todo = Tail(calls[p].todo)]
    /\ UNCHANGED <<actors, fleet>>

StopEnds(p) ==
    /\ At(p, "stopnext") /\ calls[p].todo = <<>>
    /\ fleet' = [fleet EXCEPT !.started = FALSE]
    /\ Goto(p, "done") /\ UNCHANGED actors

(* CameraActor.stop, as the three calls above use it.                      *)
Ask(p) ==
    /\ At(p, "ask")
    /\ actors' = [actors EXCEPT ![Me(p)].stop = TRUE]
    /\ Goto(p, "join") /\ UNCHANGED fleet

Answered(p) == Goto(p, IF calls[p].op = "stop" THEN "stopnext" ELSE "done")

(* A thread that has no handle yet, or is over, is not waited for.         *)
Joined(p) ==
    /\ At(p, "join") /\ (actors[Me(p)].handle => actors[Me(p)].thread = "done")
    /\ Answered(p)
    /\ UNCHANGED <<actors, fleet>>

JoinTimesOut(p) ==
    /\ At(p, "join") /\ actors[Me(p)].handle /\ actors[Me(p)].thread = "running"
    /\ actors' = [actors EXCEPT ![Me(p)].abandoned = TRUE]
    /\ Answered(p) /\ UNCHANGED fleet

(***************************************************************************)
(* The actor threads: they end when they see the stop event, or by         *)
(* themselves (a fatal open, a finished file, a closed sink).              *)
(***************************************************************************)

ThreadStops(a) ==
    /\ actors[a].thread = "running" /\ actors[a].stop
    /\ actors' = [actors EXCEPT ![a].thread = "done"]
    /\ UNCHANGED <<fleet, calls>>

ThreadGivesUp(a) ==
    /\ actors[a].thread = "running" /\ ~actors[a].stop
    /\ actors' = [actors EXCEPT ![a].thread = "done", ![a].stop = TRUE]
    /\ UNCHANGED <<fleet, calls>>

Call(p) ==
    \/ \E cam \in Cameras : CallAdd(p, cam) \/ CallRemove(p, cam)
    \/ CallStart(p) \/ StartMarks(p) \/ StartNext(p)
    \/ CallStop(p) \/ AskAll(p) \/ StopNext(p) \/ StopEnds(p)

Work(p) ==
    \/ AddRefused(p) \/ Insert(p) \/ StartClears(p) \/ StartSpawns(p) \/ StartKeeps(p)
    \/ Recheck(p) \/ Ask(p) \/ Joined(p) \/ JoinTimesOut(p)

Threads == \E a \in 1..Len(actors) : ThreadStops(a) \/ ThreadGivesUp(a)

(* Every caller has returned, or waits for an actor the bound rules out.   *)
AllReturned ==
    /\ \A p \in Callers : At(p, "done") \/ (At(p, "add") /\ Len(actors) = MaxActors)
    /\ UNCHANGED vars

Next == (\E p \in Callers : Call(p) \/ Work(p)) \/ Threads \/ AllReturned

Spec == Init /\ [][Next]_vars

(***************************************************************************)
(* What the manager promises.                                              *)
(***************************************************************************)

(* A call that has the actor in hand and will still look at it or stop it. *)
SeesTo(p, a) ==
    \/ Me(p) = a /\ calls[p].pc \in {"keep", "recheck", "ask"}
    \/ At(p, "askall") /\ \E i \in DOMAIN calls[p].todo : calls[p].todo[i] = a

(* No camera runs that the fleet cannot reach: a thread nobody has asked   *)
(* to stop belongs to an actor in the map, to an add_camera that has yet   *)
(* to look again, or to a stop that has just taken it (manager.py:196).    *)
NoOrphanCamera ==
    \A a \in 1..Len(actors) :
        actors[a].thread = "running" /\ ~actors[a].stop
            => fleet.map[actors[a].cam] = a \/ \E p \in Callers : SeesTo(p, a)
=============================================================================
