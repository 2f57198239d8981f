----------------------------- MODULE ShardFleet -----------------------------
(***************************************************************************)
(* The fleet runner (runners/fleet.py) and the shard processes it drives   *)
(* over gRPC (runners/service.py, launch/client.py, launch/supervisor.py,  *)
(* cli/shard.py).                                                          *)
(*                                                                         *)
(* The launcher holds a placement map under a lock that is never held      *)
(* across a call.  A thread of the launcher is a task: placing or removing *)
(* a camera, installing the chain on a shard, draining the fleet, stopping *)
(* it.  A call is a request on its way to a shard or being handled there;  *)
(* its caller may give up on it (a deadline, a closed channel, a dead      *)
(* peer) while the shard still goes on to handle it.  A shard serialises   *)
(* UpdateTopology, AddCamera, Drain and Stop with one lock; RemoveCamera   *)
(* takes only the lock of the runner inside.  The shard's runner is always *)
(* the in-process one (InprocessRunner), whose drain does not raise, so    *)
(* the failed-drain answer of ShardService._drain does not occur.          *)
(*                                                                         *)
(* One start cycle is modelled.  An exit is noticed through a poll, and    *)
(* exits only accumulate, so a poll taken before the lock is some subset   *)
(* of the shards that have exited by the time the lock is held.            *)
(***************************************************************************)
EXTENDS Integers, Sequences, FiniteSets, SequencesExt, FiniteSetsExt

CONSTANTS Cameras,
          Shards,       \* the shards' indices
          Groups,       \* the camera groups a topology may declare
          None,
          MaxAdds,      \* bound: placements begun
          MaxRemoves,   \* bound: removals begun
          MaxFailures   \* bound: calls given up on although the peer is up, and crashes

VARIABLES
    up,         \* "down", "starting", "running" or "stopping" (Runner._running)
    groupOf,    \* FleetRunner._group_of: a camera's group, or None
    clients,    \* FleetRunner._clients: the shards there is a channel to
    placed,     \* FleetRunner._placed
    pending,    \* FleetRunner._pending
    abandoned,  \* FleetRunner._abandoned
    task,       \* the launcher's threads
    calls,      \* requests sent and not yet answered by their shard
    shard,      \* the shard processes
    made,       \* what the bounds count
    seen        \* ghosts: what really happened, for the properties

vars == <<up, groupOf, clients, placed, pending, abandoned, task, calls, shard, made, seen>>

Adding(c) == <<"add", c>>
Removing(c) == <<"remove", c>>
Install(s) == <<"install", s>>
DrainAll == <<"drain", "all">>
StopAll == <<"stop", "all">>
Tasks == {Adding(c) : c \in Cameras} \cup {Removing(c) : c \in Cameras}
         \cup {Install(s) : s \in Shards} \cup {DrainAll, StopAll}

Idle == [at |-> "idle", todo |-> <<>>, base |-> 0, sum |-> 0, reply |-> None]
Fresh == [alive |-> TRUE, runner |-> "none", cams |-> {}, draining |-> FALSE,
          drained |-> FALSE, stopped |-> FALSE]

Init ==
    /\ up = "down"
    /\ groupOf \in [Cameras -> {None}] \cup [Cameras -> Groups]
    /\ clients = {} /\ pending = {} /\ calls = {}
    /\ placed = [c \in Cameras |-> None]
    /\ abandoned = 0
    /\ task = [t \in Tasks |-> Idle]
    /\ shard = [s \in Shards |-> [Fresh EXCEPT !.alive = FALSE]]
    /\ made = [adds |-> 0, removes |-> 0, drains |-> 0, failures |-> 0]
    /\ seen = [detached |-> 0, unheard |-> {}, undrained |-> {}, failed |-> FALSE,
               overlap |-> FALSE, uneven |-> FALSE]

Sorted(S) == SetToSortSeq(S, <)
Exited == {s \in Shards : ~shard[s].alive}
CheckRunning == up = "running" /\ clients # {}

-----------------------------------------------------------------------------
(* Calls, seen from the launcher (ShardClient._call).                      *)

Request(t, s) == [task |-> t, shard |-> s, step |-> "sent", heard |-> TRUE]
Send(t, s) == calls' = calls \cup {Request(t, s)}

\* With no answer, whether the camera is read where the call went is not known.
About(t) == IF t[1] \in {"add", "remove"} THEN {t[2]} ELSE {}

\* The caller gives up: the deadline passed, the channel was closed, or the peer is gone.
\* A request that reached a live shard may still be handled.
CallFails(k) ==
    /\ k.heard
    /\ LET peerUp == shard[k.shard].alive /\ k.shard \in clients IN
       /\ peerUp => made.failures < MaxFailures
       /\ made' = [made EXCEPT !.failures = @ + (IF peerUp THEN 1 ELSE 0)]
       /\ \/ calls' = calls \ {k}
          \/ /\ shard[k.shard].alive
             /\ calls' = (calls \ {k}) \cup {[k EXCEPT !.heard = FALSE]}
    /\ task' = [task EXCEPT ![k.task].at = "raised"]
    /\ seen' = [seen EXCEPT !.unheard = @ \cup About(k.task), !.failed = TRUE, !.uneven = TRUE,
                    !.undrained = IF k.task = DrainAll THEN @ \cup {k.shard} ELSE @]
    /\ UNCHANGED <<up, groupOf, clients, placed, pending, abandoned, shard>>

\* The shard's answer, which only a caller still waiting hears.
Reply(k, r) ==
    /\ calls' = calls \ {k}
    /\ task' = IF k.heard THEN [task EXCEPT ![k.task].at = "answered", ![k.task].reply = r]
               ELSE task

Step(k, step) == calls' = (calls \ {k}) \cup {[k EXCEPT !.step = step]}

-----------------------------------------------------------------------------
(* The shard: ShardService.                                                *)

LockFree(s) == \A k \in calls : k.shard = s => k.step # "locked"
Handles(k, kind, step) == k.task[1] = kind /\ k.step = step /\ shard[k.shard].alive
launcherVars == <<up, groupOf, clients, placed, pending, abandoned, made>>

\* ShardService._lifecycle and _refusal: the states that take no cameras.
Refusal(s) == shard[s].stopped \/ shard[s].draining \/ shard[s].drained
              \/ shard[s].runner = "none"

UpdateBegin(k) ==
    /\ Handles(k, "install", "sent") /\ LockFree(k.shard)
    /\ IF shard[k.shard].runner = "running" THEN Reply(k, "refused")
       ELSE Step(k, "locked") /\ UNCHANGED task
    /\ UNCHANGED <<launcherVars, shard, seen>>

\* Built and started; or the build or the start failed, and the runner is discarded.
UpdateEnd(k, ok) ==
    /\ Handles(k, "install", "locked")
    /\ shard' = IF ok THEN [shard EXCEPT ![k.shard] = [Fresh EXCEPT !.runner = "running"]]
                ELSE shard
    /\ Reply(k, IF ok THEN "accepted" ELSE "refused")
    /\ UNCHANGED <<launcherVars, seen>>

\* The fast path of AddCamera, without the lock.
AddArrives(k) ==
    /\ Handles(k, "add", "sent")
    /\ IF Refusal(k.shard) THEN Reply(k, "refused") ELSE Step(k, "waiting") /\ UNCHANGED task
    /\ UNCHANGED <<launcherVars, shard, seen>>

\* The check that decides, under the lock, together with Runner.add_camera, which refuses
\* an id it already runs and a runner that is not running.
AddDecides(k) ==
    /\ Handles(k, "add", "waiting") /\ LockFree(k.shard)
    /\ LET s == k.shard
           c == k.task[2]
           taken == /\ ~Refusal(s)
                    /\ shard[s].runner = "running"
                    /\ c \notin shard[s].cams IN
       /\ shard' = [shard EXCEPT ![s].cams = IF taken THEN @ \cup {c} ELSE @]
       /\ Reply(k, IF taken THEN "accepted" ELSE "refused")
    /\ UNCHANGED <<launcherVars, seen>>

\* RemoveCamera.  No service lock; the runner's own keeps it out of a drain and a stop.
RemoveHandled(k) ==
    /\ Handles(k, "remove", "sent") /\ LockFree(k.shard)
    /\ shard' = [shard EXCEPT ![k.shard].cams = @ \ {k.task[2]}]
    /\ Reply(k, IF k.task[2] \in shard[k.shard].cams THEN "removed" ELSE "unknown")
    /\ UNCHANGED <<launcherVars, seen>>

DrainBegin(k) ==
    /\ Handles(k, "drain", "sent") /\ LockFree(k.shard)
    /\ shard' = [shard EXCEPT ![k.shard].draining = TRUE]
    /\ Step(k, "locked")
    /\ UNCHANGED <<launcherVars, task, seen>>

\* The cameras are released; n of their threads could not be joined and are detached.
DrainEnd(k, n) ==
    /\ Handles(k, "drain", "locked")
    /\ shard' = [shard EXCEPT ![k.shard] =
                     [@ EXCEPT !.cams = {}, !.draining = FALSE, !.drained = TRUE]]
    /\ Reply(k, n)
    /\ seen' = [seen EXCEPT !.detached = @ + n]
    /\ UNCHANGED launcherVars

\* Stop reads its flag twice: before the lock, and under it.
StopArrives(k) ==
    /\ Handles(k, "stop", "sent")
    /\ IF shard[k.shard].stopped THEN Reply(k, 0) ELSE Step(k, "waiting") /\ UNCHANGED task
    /\ UNCHANGED <<launcherVars, shard, seen>>

StopDecides(k) ==
    /\ Handles(k, "stop", "waiting") /\ LockFree(k.shard)
    /\ IF shard[k.shard].stopped THEN Reply(k, 0) /\ UNCHANGED shard
       ELSE /\ shard' = [shard EXCEPT ![k.shard].draining = TRUE]
            /\ Step(k, "locked") /\ UNCHANGED task
    /\ UNCHANGED <<launcherVars, seen>>

StopEnd(k, n) ==
    /\ Handles(k, "stop", "locked")
    /\ shard' = [shard EXCEPT ![k.shard] =
                     [@ EXCEPT !.cams = {}, !.draining = FALSE, !.drained = FALSE,
                               !.stopped = TRUE,
                               !.runner = IF @ = "running" THEN "stopped" ELSE @]]
    /\ Reply(k, n)
    /\ seen' = [seen EXCEPT !.detached = @ + n]
    /\ UNCHANGED launcherVars

\* The process leaves: cli/shard.py notices a Stop that was handled, or it crashes.
ProcessExits(s) ==
    /\ shard[s].alive
    /\ shard[s].stopped \/ made.failures < MaxFailures
    /\ made' = [made EXCEPT !.failures = @ + (IF shard[s].stopped THEN 0 ELSE 1)]
    /\ shard' = [shard EXCEPT ![s].alive = FALSE]
    /\ calls' = {k \in calls : k.shard = s => k.heard}
    /\ seen' = [seen EXCEPT !.uneven = TRUE]
    /\ UNCHANGED <<up, groupOf, clients, placed, pending, abandoned, task>>

-----------------------------------------------------------------------------
(* The launcher's lifecycle: Runner.start and stop over FleetRunner.       *)

\* Fleet.start spawns every process, or takes down what it spawned and start unwinds.
StartBegin(spawned) ==
    /\ up = "down" /\ \A s \in Shards : task[Install(s)].at = "idle"
    /\ placed' = [c \in Cameras |-> None] /\ pending' = {} /\ abandoned' = 0
    /\ IF spawned
       THEN /\ up' = "starting"
            /\ shard' = [s \in Shards |-> Fresh]
            /\ task' = [t \in Tasks |-> IF t[1] = "install" THEN [Idle EXCEPT !.at = "offer"]
                                        ELSE task[t]]
       ELSE UNCHANGED <<up, shard, task>>
    /\ UNCHANGED <<groupOf, clients, calls, made, seen>>

\* _install, on a thread of the pool: the channel is registered first; a shard that never
\* answers Ready fails the install, one that does is sent the chain.
InstallBegins(s, ready) ==
    /\ task[Install(s)].at = "offer"
    /\ ready => shard[s].alive
    /\ clients' = clients \cup {s}
    /\ IF ready THEN Send(Install(s), s) ELSE UNCHANGED calls
    /\ task' = [task EXCEPT ![Install(s)].at = IF ready THEN "wait" ELSE "raised"]
    /\ UNCHANGED <<up, groupOf, placed, pending, abandoned, shard, made, seen>>

Unwinding == [Idle EXCEPT !.at = "offer", !.todo = Sorted(clients), !.base = abandoned]

\* The pool is joined; the fleet is up when every install was accepted, and unwound with
\* the same _do_stop otherwise.
StartEnds ==
    /\ up = "starting"
    /\ \A s \in Shards : task[Install(s)].at \in {"answered", "raised"}
    /\ IF \A s \in Shards : task[Install(s)].reply = "accepted"
       THEN up' = "running" /\ UNCHANGED task
       ELSE up' = "stopping" /\ task' = [task EXCEPT ![StopAll] = Unwinding]
    /\ UNCHANGED <<groupOf, clients, placed, pending, abandoned, calls, shard, made, seen>>

\* Runner.stop marks the runner stopped; `self._abandoned += self._stop_shards(..)` loads
\* the count before the calls are made.
StopBegins ==
    /\ up = "running"
    /\ up' = "stopping"
    /\ task' = [task EXCEPT ![StopAll] = Unwinding]
    /\ seen' = [seen EXCEPT !.overlap = @ \/ task[DrainAll].at # "idle"]
    /\ UNCHANGED <<groupOf, clients, placed, pending, abandoned, calls, shard, made>>

\* The loops of _stop_shards and of drain: ask the next shard, add what it answers, go on
\* when it cannot be asked.
AskNext(t) ==
    /\ task[t].at = "offer" /\ task[t].todo # <<>>
    /\ Send(t, Head(task[t].todo))
    /\ task' = [task EXCEPT ![t].at = "wait", ![t].todo = Tail(@)]
    /\ UNCHANGED <<up, groupOf, clients, placed, pending, abandoned, shard, made, seen>>

SumUp(t) ==
    /\ task[t].at \in {"answered", "raised"}
    /\ task' = [task EXCEPT ![t].at = "offer", ![t].reply = None,
                    ![t].sum = @ + (IF task[t].at = "answered" THEN task[t].reply ELSE 0)]
    /\ UNCHANGED <<up, groupOf, clients, placed, pending, abandoned, calls, shard, made, seen>>

StopCounts ==
    /\ task[StopAll].at = "offer" /\ task[StopAll].todo = <<>>
    /\ abandoned' = task[StopAll].base + task[StopAll].sum
    /\ task' = [task EXCEPT ![StopAll].at = "release"]
    /\ UNCHANGED <<up, groupOf, clients, placed, pending, calls, shard, made, seen>>

\* Fleet.stop: SIGTERM to every process, SIGKILL to what is left at the deadline.
FleetStop ==
    /\ shard' = [s \in Shards |-> [shard[s] EXCEPT !.alive = FALSE]]
    /\ calls' = {k \in calls : k.heard}

\* The channels are closed and the processes taken down.
Release ==
    /\ task[StopAll].at = "release"
    /\ clients' = {}
    /\ FleetStop
    /\ task' = [task EXCEPT ![StopAll].at = "done"]
    /\ up' = "down"
    /\ UNCHANGED <<groupOf, placed, pending, abandoned, made, seen>>

\* Fleet.supervise: a shard exited, so every process is stopped (and the caller told).
Casualty ==
    /\ up = "running" /\ Exited # {} /\ Exited # Shards
    /\ FleetStop
    /\ UNCHANGED <<up, groupOf, clients, placed, pending, abandoned, task, made, seen>>

-----------------------------------------------------------------------------
(* Cameras: FleetRunner.add_camera, remove_camera and drain.               *)

Load(s) == Cardinality({c \in Cameras : placed[c] = s})

\* Least loaded first, ties on the index.
ByLoad == SetToSortSeq(clients, LAMBDA s, t : Load(s) < Load(t) \/ (Load(s) = Load(t) /\ s < t))

Homes(c) == {placed[d] : d \in {e \in Cameras : groupOf[e] = groupOf[c]}} \ {None}

\* The shards a camera is offered to; empty when the group's home cannot take it.
PinToGroup(c, order) ==
    IF groupOf[c] = None \/ Homes(c) = {} THEN order
    ELSE SelectSeq(order, LAMBDA s : Homes(c) = {s})

\* Reserve: the camera is in the map, on the first shard it will be offered to.
AddReserves(c, dead) ==
    LET order == PinToGroup(c, SelectSeq(ByLoad, LAMBDA s : s \notin dead)) IN
    /\ task[Adding(c)].at = "idle" /\ made.adds < MaxAdds
    /\ CheckRunning /\ placed[c] = None /\ order # <<>>
    /\ placed' = [placed EXCEPT ![c] = Head(order)]
    /\ pending' = pending \cup {c}
    /\ task' = [task EXCEPT ![Adding(c)] = [Idle EXCEPT !.at = "offer", !.todo = order]]
    /\ made' = [made EXCEPT !.adds = @ + 1]
    /\ UNCHANGED <<up, groupOf, clients, abandoned, calls, shard, seen>>

\* Ask the next shard, with the reservation moved onto it; a shard whose channel is gone is
\* passed over.
AddOffers(c) ==
    LET t == Adding(c)
        s == Head(task[t].todo) IN
    /\ task[t].at = "offer" /\ task[t].todo # <<>> /\ CheckRunning
    /\ IF s \in clients
       THEN /\ placed' = [placed EXCEPT ![c] = s]
            /\ Send(t, s)
            /\ task' = [task EXCEPT ![t].at = "wait", ![t].todo = Tail(@)]
       ELSE /\ task' = [task EXCEPT ![t].todo = Tail(@)]
            /\ UNCHANGED <<placed, calls>>
    /\ UNCHANGED <<up, groupOf, clients, pending, abandoned, shard, made, seen>>

AddCommits(c) ==
    LET t == Adding(c) IN
    /\ task[t].at = "answered"
    /\ IF task[t].reply = "accepted"
       THEN /\ pending' = pending \ {c}
            /\ task' = [task EXCEPT ![t] = Idle]
            /\ UNCHANGED seen
       ELSE /\ task' = [task EXCEPT ![t].at = "offer", ![t].reply = None]
            /\ seen' = [seen EXCEPT !.uneven = TRUE]
            /\ UNCHANGED pending
    /\ UNCHANGED <<up, groupOf, clients, placed, abandoned, calls, shard, made>>

\* The `finally`: nobody accepted, a call raised, or the fleet stopped in between.
AddGivesUp(c) ==
    LET t == Adding(c) IN
    /\ \/ task[t].at = "raised"
       \/ task[t].at = "offer" /\ (task[t].todo = <<>> \/ ~CheckRunning)
    /\ IF c \in pending
       THEN pending' = pending \ {c} /\ placed' = [placed EXCEPT ![c] = None]
       ELSE UNCHANGED <<pending, placed>>
    /\ task' = [task EXCEPT ![t] = Idle]
    /\ UNCHANGED <<up, groupOf, clients, abandoned, calls, shard, made, seen>>

\* The placement is dropped before the shard is asked; a dead shard is not asked.
RemoveBegins(c, dead) ==
    /\ task[Removing(c)].at = "idle" /\ made.removes < MaxRemoves
    /\ CheckRunning /\ placed[c] # None /\ c \notin pending
    /\ placed' = [placed EXCEPT ![c] = None]
    /\ IF placed[c] \in dead THEN UNCHANGED <<calls, task>>
       ELSE /\ Send(Removing(c), placed[c])
            /\ task' = [task EXCEPT ![Removing(c)].at = "wait"]
    /\ made' = [made EXCEPT !.removes = @ + 1]
    /\ seen' = [seen EXCEPT !.uneven = TRUE]
    /\ UNCHANGED <<up, groupOf, clients, pending, abandoned, shard>>

RemoveEnds(c) ==
    /\ task[Removing(c)].at \in {"answered", "raised"}
    /\ task' = [task EXCEPT ![Removing(c)] = Idle]
    /\ UNCHANGED <<up, groupOf, clients, placed, pending, abandoned, calls, shard, made, seen>>

DrainBegins ==
    /\ task[DrainAll].at = "idle" /\ made.drains = 0 /\ CheckRunning
    /\ task' = [task EXCEPT ![DrainAll] =
                    [Idle EXCEPT !.at = "offer", !.todo = Sorted(clients)]]
    /\ made' = [made EXCEPT !.drains = 1]
    /\ seen' = [seen EXCEPT !.uneven = TRUE]
    /\ UNCHANGED <<up, groupOf, clients, placed, pending, abandoned, calls, shard>>

\* The confirmed cameras of shards that did not answer the drain are forgotten all the same.
Undrained == {c \in Cameras \ pending : placed[c] \in seen.undrained}

\* Fault: the reservations are forgotten with the placements.
DrainForgetsAll ==
    /\ task[DrainAll].at = "offer" /\ task[DrainAll].todo = <<>>
    /\ placed' = [c \in Cameras |-> None] /\ pending' = {}
    /\ seen' = [seen EXCEPT !.unheard = @ \cup Undrained]
    /\ task' = [task EXCEPT ![DrainAll].at = "count"]
    /\ UNCHANGED <<up, groupOf, clients, abandoned, calls, shard, made>>

\* Everything confirmed is forgotten; a reservation is left to its own thread.
DrainForgets ==
    /\ task[DrainAll].at = "offer" /\ task[DrainAll].todo = <<>>
    /\ placed' = [c \in Cameras |-> IF c \in pending THEN placed[c] ELSE None]
    /\ seen' = [seen EXCEPT !.unheard = @ \cup Undrained]
    /\ task' = [task EXCEPT ![DrainAll].at = "count"]
    /\ UNCHANGED <<up, groupOf, clients, pending, abandoned, calls, shard, made>>

DrainCounts ==
    /\ task[DrainAll].at = "count"
    /\ abandoned' = abandoned + task[DrainAll].sum
    /\ task' = [task EXCEPT ![DrainAll] = Idle]
    /\ UNCHANGED <<up, groupOf, clients, placed, pending, calls, shard, made, seen>>

-----------------------------------------------------------------------------
Handler ==
    \E k \in calls :
        \/ CallFails(k) \/ UpdateBegin(k) \/ (\E ok \in BOOLEAN : UpdateEnd(k, ok))
        \/ AddArrives(k) \/ AddDecides(k) \/ RemoveHandled(k)
        \/ DrainBegin(k) \/ StopArrives(k) \/ StopDecides(k)
        \/ \E n \in 0..Cardinality(shard[k.shard].cams) : DrainEnd(k, n) \/ StopEnd(k, n)

Lifecycle ==
    \/ \E spawned \in BOOLEAN : StartBegin(spawned)
    \/ \E s \in Shards, ready \in BOOLEAN : InstallBegins(s, ready)
    \/ StartEnds \/ StopBegins \/ StopCounts \/ Release \/ Casualty
    \/ \E t \in {DrainAll, StopAll} : AskNext(t) \/ SumUp(t)
    \/ \E s \in Shards : ProcessExits(s)

Camera ==
    \/ \E c \in Cameras, dead \in SUBSET Exited : AddReserves(c, dead) \/ RemoveBegins(c, dead)
    \/ \E c \in Cameras : AddOffers(c) \/ AddCommits(c) \/ AddGivesUp(c) \/ RemoveEnds(c)
    \/ DrainBegins \/ DrainForgets \/ DrainCounts

Next == Handler \/ Lifecycle \/ Camera

Spec == Init /\ [][Next]_vars

-----------------------------------------------------------------------------
Settled(c) ==
    /\ task[Adding(c)].at = "idle" /\ task[Removing(c)].at = "idle"
    /\ c \notin seen.unheard
    /\ \A k \in calls : k.task \notin {Adding(c), Removing(c)}

\* The placement map is authoritative (fleet.py, add_camera, remove_camera and
\* drain): once the operations on a camera have ended and all were answered, a
\* live shard reading it is the shard the map names, whatever drains, removals
\* and re-additions overlapped; and no reservation outlives its add_camera.
MapIsAuthoritative ==
    /\ \A c \in Cameras, s \in Shards :
           Settled(c) /\ shard[s].alive /\ c \in shard[s].cams => placed[c] = s
    /\ \A c \in Cameras : c \in pending => task[Adding(c)].at # "idle"

\* A shard that answered a drain or a stop reads nothing afterwards: no
\* AddCamera that passed the guard before the lock starts a camera on it
\* (service.py, AddCamera).
ReleasedMeansEmpty ==
    \A s \in Shards : shard[s].alive /\ (shard[s].drained \/ shard[s].stopped)
                      => shard[s].cams = {}

\* Every camera thread a drain or a stop left detached is in the launcher's
\* count once the fleet is down, when every call was answered and the drain and
\* the stop did not overlap (fleet.py, _abandoned: accumulated, never
\* assigned).
DetachedAreCounted ==
    up = "down" /\ ~seen.failed /\ ~seen.overlap => abandoned = seen.detached

\* Two placements running at once do not pile onto one shard: while nothing was
\* refused, removed, drained or lost, the loads of ungrouped cameras differ by
\* at most one, the reservations included (fleet.py, _by_load).
FillsEvenly ==
    ~seen.uneven /\ groupOf \in [Cameras -> {None}] =>
        \A s, u \in clients : up = "running" => Load(s) <= Load(u) + 1
=============================================================================
