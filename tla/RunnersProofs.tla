---------------------------- MODULE RunnersProofs ----------------------------
(***************************************************************************)
(* The in-process runner for any number of cameras, items, workers,        *)
(* elements and start cycles: a camera's band and what the elements know   *)
(* of it follow its placement, and a stop leaves no accepted item          *)
(* unanswered.                                                             *)
(*                                                                         *)
(* The invariant has three layers.  CameraInv is about the cameras and the *)
(* lifecycle operation that handles them; LifeInv about start and stop;    *)
(* WorkInv about the queue, the workers, the items and who owes them an    *)
(* answer.  Each layer uses the ones before it.                            *)
(***************************************************************************)
EXTENDS MCRunners, FiniteSetTheorems, NaturalsInduction, TLAPS

USE DEF Idle, None, Bands

-----------------------------------------------------------------------------
(* The cameras.                                                            *)

Reading == {c \in Cameras : actor[c].state = "reading"}

\* What a lifecycle operation is about.
OpTypes ==
    /\ op.name = "open" => op \in [name : {"open"}, at : Nat]
    /\ op.name = "close" => op \in [name : {"close"}, at : Int]
    /\ op.name \in {"adding", "announce", "join_one"} => op.cam \in Cameras
    /\ op.name = "adding" => op.previous \in Requested \cup {None}
    /\ op.name = "join_cameras" => op.next \in {"idle", "stop_workers"}

ActorStates == {"none", "reading", "signalled", "ending"}
Actors == [state : ActorStates, band : Bands, cycle : Nat]

CameraTypes ==
    /\ actor \in [Cameras -> Actors]
    /\ placed \in [Cameras -> Requested \cup {None}]
    /\ cycle \in Nat

\* The steps of _do_stop once the cameras are gone.
Ending == {"stop_workers", "close_queue", "join_workers", "fail_in_flight", "close"}

\* What the lifecycle operation under way says of the camera threads.
CamerasInPhase ==
    /\ op.name \in {"idle", "open", "stop_ingest", "adding", "announce"} =>
          \A c \in Cameras : actor[c].state \in {"none", "reading"}
    /\ op.name \in Ending \cup {"open"} => \A c \in Cameras : actor[c].state = "none"
    /\ op.name = "join_cameras" => \A c \in Cameras : actor[c].state # "reading"
    /\ op.name = "adding" => actor[op.cam].state = "none"
    /\ op.name = "announce" => actor[op.cam].state = "reading"
    /\ op.name = "join_one" =>
          /\ actor[op.cam].state \in {"signalled", "ending"}
          /\ \A c \in Cameras : c # op.cam => actor[c].state \in {"none", "reading"}

\* And of the cameras the elements were told of: they lag the manager by the one
\* camera that is being announced or removed, or by those a drain has still to tell.
AnnouncedInPhase ==
    /\ op.name \in {"idle", "adding"} => known = Reading
    /\ op.name = "open" => known = {}
    /\ op.name = "announce" => known \cup {op.cam} = Reading
    /\ op.name = "join_one" => known \ {op.cam} = Reading
    /\ op.name = "join_cameras" /\ op.next = "idle" => known \subseteq op.told
    /\ op.name = "idle" /\ ~running => Reading = {}
    /\ op.name \in {"adding", "announce", "join_one"} => running

CameraInv ==
    OpTypes /\ CameraTypes /\ CamerasInPhase /\ AnnouncedInPhase /\ BandsFollowPlacements


LEMMA OfStates ==
    ASSUME NEW a \in Actors, NEW s \in ActorStates
    PROVE  /\ [a EXCEPT !.state = s] \in Actors
           /\ [a EXCEPT !.state = s].state = s
           /\ [a EXCEPT !.state = s].band = a.band
           /\ [a EXCEPT !.state = s].cycle = a.cycle
BY DEF Actors, ActorStates

LEMMA CameraInit == ASSUME Init PROVE CameraInv
<1> USE RunnerAssumption DEF Init, CameraInv
<1>1. OpTypes /\ CameraTypes  BY DEF OpTypes, CameraTypes, NoActor, Actors, ActorStates
<1>2. CamerasInPhase /\ AnnouncedInPhase
  BY DEF CamerasInPhase, AnnouncedInPhase, NoActor, Reading, Ending
<1>3. BandsFollowPlacements  BY DEF BandsFollowPlacements, NoActor
<1> QED BY <1>1, <1>2, <1>3

\* A step that leaves the cameras alone and moves the operation on.
LEMMA CameraKeep ==
    ASSUME CameraInv, UNCHANGED <<actor, placed, known, op, running, cycle>>
    PROVE  CameraInv'
BY DEF CameraInv, OpTypes, CameraTypes, Actors, ActorStates, CamerasInPhase, AnnouncedInPhase, BandsFollowPlacements,
       Reading, ForCamera, Ending

LEMMA LastIsNat == LastElement \in Nat
BY FS_CardinalityType, RunnerAssumption DEF LastElement

LEMMA CameraLifecycle ==
    ASSUME CameraInv, Lifecycle
    PROVE  CameraInv'
<1> USE RunnerAssumption
<1> USE DEF CameraInv, OpTypes, CameraTypes, Actors, ActorStates, CamerasInPhase, AnnouncedInPhase, BandsFollowPlacements,
       Reading, ForCamera, Ending, life, camera, work, vars
<1>1. ASSUME StartBegin PROVE CameraInv'
  BY <1>1 DEF StartBegin
<1>2. ASSUME OpenElement PROVE CameraInv'
  BY <1>2 DEF OpenElement
<1>3. ASSUME OpenFails PROVE CameraInv'
  BY <1>3 DEF OpenFails
<1>4. ASSUME StartWorkers PROVE CameraInv'
  BY <1>4 DEF StartWorkers
<1>5. ASSUME StopBegin PROVE CameraInv'
  BY <1>5 DEF StopBegin
<1>6. ASSUME StopIngest PROVE CameraInv'
  <2> USE DEF StopIngest
  <2>1. op.name = "stop_ingest" /\ op'.name = "join_cameras" /\ op'.next = "stop_workers"
        /\ placed' = placed /\ known' = known /\ running' = running
    BY <1>6
  <2>2. /\ \A c \in Cameras : actor'[c].state = (IF actor[c].state = "reading" THEN "signalled"
                                               ELSE actor[c].state)
                             /\ actor'[c].band = actor[c].band
        /\ actor' \in [Cameras -> Actors]
    <3> DEFINE told(c) == [actor[c] EXCEPT !.state = "signalled"]
    <3>1. \A c \in Cameras : actor[c] \in Actors  OBVIOUS
    <3>2. \A c \in Cameras : /\ told(c) \in Actors /\ told(c).state = "signalled"
                             /\ told(c).band = actor[c].band
      BY <3>1, OfStates DEF ActorStates
    <3>3. actor' = [c \in Cameras |-> IF actor[c].state = "reading" THEN told(c) ELSE actor[c]]
      BY <1>6 DEF Signalled
    <3> HIDE DEF told
    <3> QED BY <3>1, <3>2, <3>3
  <2>3. OpTypes' /\ CameraTypes'  BY <2>1, <2>2, <1>6
  <2>4. CamerasInPhase' /\ AnnouncedInPhase'  BY <2>1, <2>2
  <2>5. BandsFollowPlacements'
    <3>1. BandsFollowPlacements  OBVIOUS
    <3> QED BY ONLY <3>1, <2>1, <2>2 DEF BandsFollowPlacements, ForCamera
  <2> QED BY <2>3, <2>4, <2>5
<1>7. ASSUME CamerasGone PROVE CameraInv'
  BY <1>7 DEF CamerasGone, NoActor
<1>8. ASSUME SetStopping PROVE CameraInv'
  BY <1>8, LastIsNat DEF SetStopping
<1>9. ASSUME CloseQueue PROVE CameraInv'
  BY <1>9 DEF CloseQueue
<1>10. ASSUME NEW w \in Workers, JoinWorker(w) PROVE CameraInv'
  BY <1>10 DEF JoinWorker
<1>11. ASSUME FailInFlight PROVE CameraInv'
  BY <1>11, LastIsNat DEF FailInFlight
<1>12. ASSUME CloseElement PROVE CameraInv'
  BY <1>12 DEF CloseElement
<1> QED BY <1>1, <1>2, <1>3, <1>4, <1>5, <1>6, <1>7, <1>8, <1>9, <1>10, <1>11, <1>12 DEF Lifecycle

LEMMA CameraOperations ==
    ASSUME CameraInv, CameraCalls
    PROVE  CameraInv'
<1> USE RunnerAssumption
<1> USE DEF CameraInv, OpTypes, CameraTypes, Actors, ActorStates, CamerasInPhase, AnnouncedInPhase, BandsFollowPlacements,
       Reading, ForCamera, Ending, life, camera, work, vars, NoActor, Signalled
<1>1. ASSUME NEW c \in Cameras, NEW band \in Requested, AddCamera(c, band) PROVE CameraInv'
  BY <1>1 DEF AddCamera
<1>2. ASSUME NEW c \in Cameras, NEW abandon \in BOOLEAN, JoinCamera(c, abandon) PROVE CameraInv'
  BY <1>2 DEF JoinCamera
<1>3. ASSUME NEW c \in Cameras, RemoveCamera(c) PROVE CameraInv'
  <2> USE DEF RemoveCamera
  <2>1. op.name = "idle" /\ op'.name = "join_one" /\ op'.cam = c
        /\ placed' = placed /\ known' = known /\ running' = running /\ actor[c].state = "reading"
    BY <1>3
  <2>2. /\ \A d \in Cameras : actor'[d].state = (IF d = c THEN "signalled" ELSE actor[d].state)
                             /\ actor'[d].band = actor[d].band
        /\ actor' \in [Cameras -> Actors]
    <3> DEFINE told == [actor[c] EXCEPT !.state = "signalled"]
    <3>1. \A d \in Cameras : actor[d] \in Actors  OBVIOUS
    <3>2. told \in Actors /\ told.state = "signalled" /\ told.band = actor[c].band
      BY <3>1, OfStates DEF ActorStates
    <3>3. actor' = [actor EXCEPT ![c] = told]  BY <1>3
    <3> HIDE DEF told
    <3> QED BY <3>1, <3>2, <3>3
  <2>3. OpTypes' /\ CameraTypes'  BY <2>1, <2>2, <1>3
  <2>4. CamerasInPhase'  BY <2>1, <2>2
  <2>5. Reading' = Reading \ {c}  BY <2>2
  <2>6. AnnouncedInPhase'
    <3>1. known = Reading /\ running  BY <2>1
    <3> QED BY <3>1, <2>5, <2>1 DEF AnnouncedInPhase
  <2>7. BandsFollowPlacements'
    <3>1. BandsFollowPlacements  OBVIOUS
    <3> QED BY ONLY <3>1, <2>1, <2>2 DEF BandsFollowPlacements, ForCamera
  <2> QED BY <2>3, <2>4, <2>6, <2>7
<1>4. ASSUME CameraStarts PROVE CameraInv'
  <2> USE DEF CameraStarts
  <2>1. PICK c \in Cameras : c = op.cam  BY <1>4
  <2> DEFINE fresh == [state |-> "reading", band |-> ForCamera(c), cycle |-> cycle]
  <2>2. fresh.state = "reading" /\ fresh.band = ForCamera(c) /\ fresh.band \in Bands
        /\ fresh \in Actors
    BY <2>1
  <2>3. actor' = [actor EXCEPT ![c] = fresh] /\ placed' = placed /\ known' = known
        /\ running' = running /\ op'.name = "announce" /\ op'.cam = c
    BY <1>4, <2>1
  <2> HIDE DEF fresh
  <2>4. \A d \in Cameras : actor'[d] = IF d = c THEN fresh ELSE actor[d]
    BY <2>3
  <2>5. OpTypes' /\ CameraTypes'  BY <2>2, <2>3, <1>4
  <2>6. Reading' = Reading \cup {c} /\ c \notin Reading
    BY <2>2, <2>4, <2>1, <1>4
  <2>7. CamerasInPhase'  BY <2>2, <2>3, <2>4, <2>1, <1>4
  <2>8. AnnouncedInPhase'
    <3>1. known = Reading  BY <1>4
    <3>2. running  BY <1>4
    <3> QED BY ONLY <2>6, <2>3, <3>1, <3>2 DEF AnnouncedInPhase
  <2>9. BandsFollowPlacements'  BY <2>2, <2>3, <2>4, <2>1
  <2> QED BY ONLY <2>5, <2>7, <2>8, <2>9 DEF CameraInv
<1>5. ASSUME CameraRefused PROVE CameraInv'
  <2> USE DEF CameraRefused
  <2>1. PICK c \in Cameras : c = op.cam  BY <1>5
  <2>2. actor' = actor /\ placed' = [placed EXCEPT ![c] = op.previous] /\ known' = known
        /\ running' = running /\ op'.name = "idle" /\ op.name = "adding" /\ cycle' \in Nat
    BY <1>5, <2>1
  <2>3. \A d \in Cameras : d # c => placed'[d] = placed[d]
    BY <2>2
  <2>4. OpTypes' /\ CameraTypes'  BY <2>2, <1>5
  <2>5. CamerasInPhase'  BY <2>2, <2>1, <1>5
  <2>6. AnnouncedInPhase'  BY <2>2
  <2>7. BandsFollowPlacements'
    <3>1. actor[c].state = "none"  BY <2>1, <2>2
    <3> QED BY <3>1, <2>2, <2>3
  <2> QED BY <2>4, <2>5, <2>6, <2>7
<1>6. ASSUME Announce PROVE CameraInv'
  <2> USE DEF Announce
  <2>1. actor' = actor /\ placed' = placed /\ known' = known \cup {op.cam} /\ op.name = "announce"
        /\ running' = running /\ op'.name = "idle" /\ cycle' \in Nat
    BY <1>6
  <2>2. OpTypes' /\ CameraTypes' /\ CamerasInPhase' /\ BandsFollowPlacements'
    BY <2>1, <1>6
  <2>3. AnnouncedInPhase'
    <3>1. known' = Reading /\ Reading' = Reading  BY <2>1
    <3>2. \E c \in Reading : TRUE  BY <2>1
    <3>3. running  BY <2>1
    <3> QED BY <3>1, <3>3, <2>1 DEF AnnouncedInPhase
  <2> QED BY <2>2, <2>3
<1>7. ASSUME Drain PROVE CameraInv'
  BY <1>7 DEF Drain
<1>8. ASSUME NEW abandon \in BOOLEAN, CameraRemoved(abandon) PROVE CameraInv'
  <2> USE DEF CameraRemoved
  <2>1. PICK c \in Cameras : c = op.cam  BY <1>8
  <2>2. actor' = [actor EXCEPT ![c] = NoActor] /\ placed' = [placed EXCEPT ![c] = None]
        /\ known' = known \ {c} /\ op.name = "join_one"
        /\ running' = running /\ op'.name = "idle" /\ cycle' \in Nat
    BY <1>8, <2>1
  <2>3. \A d \in Cameras : actor'[d] = (IF d = c THEN NoActor ELSE actor[d])
                           /\ placed'[d] = (IF d = c THEN None ELSE placed[d])
    BY <2>2
  <2>4. OpTypes' /\ CameraTypes'  BY <2>2, <1>8
  <2>5. CamerasInPhase'  BY <2>2, <2>3, <2>1
  <2>6. Reading' = Reading  BY <2>2, <2>3, <2>1
  <2>7. AnnouncedInPhase'
    <3>1. known' = Reading /\ running  BY <2>1, <2>2
    <3> QED BY <3>1, <2>6, <2>2 DEF AnnouncedInPhase
  <2>8. BandsFollowPlacements'  BY <2>3
  <2> QED BY <2>4, <2>5, <2>7, <2>8
<1> QED BY <1>1, <1>2, <1>3, <1>4, <1>5, <1>6, <1>7, <1>8 DEF CameraCalls

\* Publishing ends a thread that was told to stop; nothing else here touches a camera.
LEMMA CameraElsewhere ==
    ASSUME CameraInv, Submission \/ Work
    PROVE  CameraInv'
<1> USE DEF life, camera, work
<1>1. UNCHANGED <<actor, placed, known, op, running, cycle>>
      \/ \E c \in Cameras, evict \in BOOLEAN : Publish(c, evict)
  <2>1. Submission => \/ UNCHANGED <<actor, placed, known, op, running, cycle>>
                      \/ \E c \in Cameras, evict \in BOOLEAN : Publish(c, evict)
    BY DEF Submission, SubmitCheck, PublishLate, SubmitPut
  <2>2. ASSUME NEW k \in Cycles, NEW w \in Workers,
               \/ WorkerExits(k, w) \/ WaitOrPoll(k, w) \/ PublishSlot(k, w)
               \/ \E expired \in BOOLEAN : Take(k, w, expired)
               \/ BreakOff(k, w) \/ BeginWalk(k, w) \/ Expires(k, w) \/ Process(k, w)
               \/ \E counter \in Raises \cup {"failed"} : ElementFails(k, w, counter)
               \/ Walked(k, w) \/ Narrow(k, w)
        PROVE  UNCHANGED <<life, camera>>
    BY <2>2 DEF WorkerExits, WaitOrPoll, PublishSlot, Take, BreakOff, BeginWalk, Expires,
                Process, ElementFails, Outcome, Walked, Narrow
  <2> QED BY <2>1, <2>2 DEF Work
<1>2. ASSUME NEW c \in Cameras, NEW evict \in BOOLEAN, Publish(c, evict) PROVE CameraInv'
  <2>1. /\ actor[c].state \in {"reading", "signalled"}
        /\ actor' = [actor EXCEPT ![c].state = IF @ = "signalled" THEN "ending" ELSE @]
        /\ placed' = placed /\ known' = known /\ op' = op /\ running' = running /\ cycle' = cycle
    BY <1>2 DEF Publish
  <2> DEFINE ends == [actor[c] EXCEPT !.state = IF actor[c].state = "signalled" THEN "ending"
                                                ELSE actor[c].state]
  <2>2. \A d \in Cameras : actor[d] \in Actors  BY DEF CameraInv, CameraTypes
  <2>3. /\ ends \in Actors /\ ends.band = actor[c].band
        /\ ends.state = IF actor[c].state = "signalled" THEN "ending" ELSE "reading"
    <3>1. actor[c] \in Actors /\ "ending" \in ActorStates /\ "reading" \in ActorStates
      BY <2>2 DEF ActorStates
    <3>2. CASE actor[c].state = "signalled"  BY <2>1, <3>1, <3>2, OfStates
    <3>3. CASE actor[c].state = "reading"  BY <2>1, <3>1, <3>3, OfStates
    <3> QED BY <2>1, <3>2, <3>3
  <2>4. actor' = [actor EXCEPT ![c] = ends]  BY <2>1
  <2> HIDE DEF ends
  <2>5. /\ \A d \in Cameras :
              /\ actor'[d].band = actor[d].band
              /\ actor'[d].state = actor[d].state
                 \/ (d = c /\ actor[d].state = "signalled" /\ actor'[d].state = "ending")
        /\ actor' \in [Cameras -> Actors]
    BY <2>1, <2>2, <2>3, <2>4 DEF CameraInv, CameraTypes
  <2>6. OpTypes' /\ CameraTypes'
    BY <2>1, <2>5 DEF CameraInv, CameraTypes, OpTypes
  <2>7. CamerasInPhase'
    BY <2>1, <2>5 DEF CameraInv, OpTypes, CamerasInPhase, Ending
  <2>8. Reading' = Reading  BY <2>5 DEF Reading
  <2>9. AnnouncedInPhase'  BY <2>1, <2>8 DEF CameraInv, AnnouncedInPhase
  <2>10. BandsFollowPlacements'
    <3>1. BandsFollowPlacements  BY DEF CameraInv
    <3> QED BY ONLY <3>1, <2>1, <2>5 DEF BandsFollowPlacements, ForCamera
  <2> QED BY <2>6, <2>7, <2>9, <2>10 DEF CameraInv
<1> QED BY <1>1, <1>2, CameraKeep

LEMMA CameraStep ==
    ASSUME CameraInv, [Next]_vars
    PROVE  CameraInv'
<1>1. CASE UNCHANGED vars  BY <1>1, CameraKeep DEF vars, life, camera
<1> QED BY <1>1, CameraLifecycle, CameraOperations, CameraElsewhere DEF Next

-----------------------------------------------------------------------------
(* Start and stop.                                                         *)

LifeTypes ==
    /\ cycle \in 0 .. MaxCycle /\ running \in BOOLEAN /\ slots \in Nat
    /\ stopping \in [Cycles -> BOOLEAN] /\ threads \subseteq Workers
    /\ opened \subseteq Elements /\ gaveUp \subseteq Cycles

\* The runner's handle on its workers (self._threads, self._inflight) and on its state:
\* there are workers to join exactly while there is a live slot list.
Tracked ==
    /\ running => threads = Workers
    /\ op.name = "idle" /\ ~running => threads = {}
    /\ op.name = "open" => ~running /\ threads = {} /\ cycle < MaxCycle
    /\ op.name \in {"stop_ingest"} \cup Ending => ~running
    /\ op.name = "join_cameras" => (running <=> op.next = "idle")
    /\ op.name \in {"adding", "announce", "join_one"} => running
    /\ op.name \in {"close_queue", "join_workers"} => threads # {} /\ stopping[cycle]
    /\ op.name = "fail_in_flight" => threads = {} /\ slots # 0 /\ stopping[cycle]
    /\ op.name = "close" => threads = {}
    /\ slots \in {0, cycle}
    /\ threads # {} => slots # 0
    /\ threads = {} /\ op.name # "fail_in_flight" => slots = 0

\* The stop event of every cycle but the live one is set.
PastCycles ==
    /\ \A k \in Cycles : k > cycle => ~stopping[k]
    /\ \A k \in Cycles : k < cycle \/ (k = cycle /\ slots = 0) => stopping[k]

\* The elements are open in front of every worker the runner still has to join.
ChainInPhase ==
    /\ op.name = "open" => op.at \in 1 .. LastElement + 1 /\ 1 .. op.at - 1 \subseteq opened
    /\ threads # {} => Elements \subseteq opened

LifeInv == LifeTypes /\ Tracked /\ PastCycles /\ ChainInPhase

LEMMA LifeInit == ASSUME Init PROVE LifeInv
<1> USE RunnerAssumption DEF Init, LifeInv
<1>1. LifeTypes
  <2>1. /\ cycle = 0 /\ running = FALSE /\ slots = 0 /\ threads = {} /\ opened = {} /\ gaveUp = {}
        /\ stopping = [k \in Cycles |-> FALSE]
    OBVIOUS
  <2>2. stopping \in [Cycles -> BOOLEAN]  BY ONLY <2>1, Zenon
  <2>3. cycle \in 0 .. MaxCycle /\ slots \in Nat  BY ONLY <2>1, RunnerAssumption
  <2> QED BY ONLY <2>1, <2>2, <2>3 DEF LifeTypes
<1>2. Tracked /\ ChainInPhase  BY DEF Tracked, ChainInPhase, Ending
<1>3. PastCycles  BY DEF PastCycles, Cycles
<1> QED BY <1>1, <1>2, <1>3

LEMMA LifeKeep ==
    ASSUME LifeInv, UNCHANGED life
    PROVE  LifeInv'
BY DEF LifeInv, LifeTypes, Tracked, PastCycles, ChainInPhase, life

LEMMA LifeLifecycle ==
    ASSUME LifeInv, OpTypes, Lifecycle
    PROVE  LifeInv'
<1> USE RunnerAssumption, LastIsNat
<1> USE DEF OpTypes, LifeInv, LifeTypes, Tracked, PastCycles, ChainInPhase, Cycles, Ending,
            life, camera, work, vars
<1>1. ASSUME StartBegin PROVE LifeInv'
  BY <1>1 DEF StartBegin
<1>2. ASSUME OpenElement PROVE LifeInv'
  <2>1. /\ op.name = "open" /\ op'.name = "open" /\ op'.at = op.at + 1 /\ op' \in [name : {"open"}, at : Nat]
        /\ opened' = opened \cup {op.at} /\ op.at \in Elements
        /\ op.at \in 1 .. LastElement + 1 /\ 1 .. op.at - 1 \subseteq opened
        /\ running' = running /\ cycle' = cycle /\ stopping' = stopping /\ slots' = slots
        /\ threads' = threads /\ gaveUp' = gaveUp
    BY <1>2 DEF OpenElement
  <2>2. LifeTypes' /\ Tracked' /\ PastCycles'  BY <2>1
  <2>3. Elements = 1 .. LastElement  BY DEF LastElement
  <2>4. ChainInPhase'
    <3>1. op'.at \in 1 .. LastElement + 1  BY <2>1, <2>3
    <3>2. 1 .. op'.at - 1 \subseteq opened'  BY <2>1, <2>3
    <3> QED BY <3>1, <3>2, <2>1
  <2> QED BY <2>2, <2>4
<1>3. ASSUME OpenFails PROVE LifeInv'
  BY <1>3 DEF OpenFails
<1>4. ASSUME StartWorkers PROVE LifeInv'
  <2> USE DEF StartWorkers
  <2>1. LifeTypes' /\ Tracked'  BY <1>4
  <2>2. PastCycles'  BY <1>4
  <2>3. ChainInPhase'
    <3>1. Elements = 1 .. LastElement  BY DEF LastElement
    <3>2. /\ op.at \in 1 .. LastElement + 1 /\ op.at \notin Elements
          /\ 1 .. op.at - 1 \subseteq opened /\ opened' = opened /\ op'.name = "idle"
      BY <1>4
    <3>3. op.at = LastElement + 1  BY <3>1, <3>2
    <3>4. Elements \subseteq opened'  BY <3>1, <3>2, <3>3
    <3> QED BY <3>2, <3>4
  <2> QED BY <2>1, <2>2, <2>3
<1>5. ASSUME StopBegin PROVE LifeInv'
  BY <1>5 DEF StopBegin
<1>6. ASSUME StopIngest PROVE LifeInv'
  BY <1>6 DEF StopIngest
<1>7. ASSUME CamerasGone PROVE LifeInv'
  BY <1>7 DEF CamerasGone
<1>8. ASSUME SetStopping PROVE LifeInv'
  BY <1>8 DEF SetStopping
<1>9. ASSUME CloseQueue PROVE LifeInv'
  BY <1>9 DEF CloseQueue
<1>10. ASSUME NEW w \in Workers, JoinWorker(w) PROVE LifeInv'
  BY <1>10 DEF JoinWorker
<1>11. ASSUME FailInFlight PROVE LifeInv'
  BY <1>11 DEF FailInFlight
<1>12. ASSUME CloseElement PROVE LifeInv'
  BY <1>12 DEF CloseElement
<1> QED BY <1>1, <1>2, <1>3, <1>4, <1>5, <1>6, <1>7, <1>8, <1>9, <1>10, <1>11, <1>12 DEF Lifecycle

LEMMA LifeOperations ==
    ASSUME LifeInv, CameraInv, CameraCalls
    PROVE  LifeInv'
<1> USE DEF OpTypes, LifeInv, LifeTypes, Tracked, PastCycles, ChainInPhase, Cycles, Ending,
            life, camera, work, vars, CameraInv, AnnouncedInPhase, Reading
<1>1. ASSUME NEW c \in Cameras, NEW band \in Requested, AddCamera(c, band) PROVE LifeInv'
  BY <1>1 DEF AddCamera
<1>2. ASSUME NEW c \in Cameras, NEW abandon \in BOOLEAN, JoinCamera(c, abandon) PROVE LifeInv'
  BY <1>2 DEF JoinCamera
<1>3. ASSUME NEW c \in Cameras, RemoveCamera(c) PROVE LifeInv'
  BY <1>3 DEF RemoveCamera
<1>4. ASSUME CameraStarts PROVE LifeInv'
  BY <1>4 DEF CameraStarts
<1>5. ASSUME CameraRefused PROVE LifeInv'
  BY <1>5 DEF CameraRefused
<1>6. ASSUME Announce PROVE LifeInv'
  BY <1>6 DEF Announce
<1>7. ASSUME Drain PROVE LifeInv'
  BY <1>7 DEF Drain
<1>8. ASSUME NEW abandon \in BOOLEAN, CameraRemoved(abandon) PROVE LifeInv'
  BY <1>8 DEF CameraRemoved
<1> QED BY <1>1, <1>2, <1>3, <1>4, <1>5, <1>6, <1>7, <1>8 DEF CameraCalls

-----------------------------------------------------------------------------
(* Sequences without duplicates.                                           *)

LEMMA AppendOne ==
    ASSUME NEW T, NEW s \in Seq(T), NEW e \in T
    PROVE  /\ Append(s, e) \in Seq(T)
           /\ ToSet(Append(s, e)) = ToSet(s) \cup {e}
           /\ IsInjective(s) /\ e \notin ToSet(s) => IsInjective(Append(s, e))
<1> DEFINE a == Append(s, e)
<1>1. /\ a \in Seq(T)
      /\ DOMAIN s = 1 .. Len(s) /\ Len(s) \in Nat
      /\ DOMAIN a = 1 .. Len(s) + 1
      /\ \A k \in 1 .. Len(s) : a[k] = s[k]
      /\ a[Len(s) + 1] = e
  OBVIOUS
<1> HIDE DEF a
<1>2. ToSet(a) = ToSet(s) \cup {e}
  <2>1. \A k \in DOMAIN a : k \in DOMAIN s \/ k = Len(s) + 1  BY <1>1
  <2>2. ToSet(a) \subseteq ToSet(s) \cup {e}  BY <1>1, <2>1 DEF ToSet
  <2>3. DOMAIN s \subseteq DOMAIN a /\ Len(s) + 1 \in DOMAIN a  BY <1>1
  <2>4. ToSet(s) \cup {e} \subseteq ToSet(a)  BY <1>1, <2>3 DEF ToSet
  <2> QED BY <2>2, <2>4
<1>3. ASSUME IsInjective(s), e \notin ToSet(s) PROVE IsInjective(a)
  <2>1. \A k \in 1 .. Len(s) : a[k] # e  BY <1>1, <1>3 DEF ToSet
  <2> QED BY <1>1, <1>3, <2>1 DEF IsInjective
<1> QED BY <1>1, <1>2, <1>3 DEF a

\* What the first n of a sequence and the rest of it hold.
LEMMA SplitAt ==
    ASSUME NEW T, NEW s \in Seq(T), IsInjective(s), NEW n \in 0 .. Len(s)
    PROVE  /\ SubSeq(s, 1, n) \in Seq(T) /\ SubSeq(s, n + 1, Len(s)) \in Seq(T)
           /\ IsInjective(SubSeq(s, 1, n)) /\ IsInjective(SubSeq(s, n + 1, Len(s)))
           /\ ToSet(s) = ToSet(SubSeq(s, 1, n)) \cup ToSet(SubSeq(s, n + 1, Len(s)))
           /\ ToSet(SubSeq(s, 1, n)) \cap ToSet(SubSeq(s, n + 1, Len(s))) = {}
<1> DEFINE f == SubSeq(s, 1, n)
           r == SubSeq(s, n + 1, Len(s))
<1>1. /\ f \in Seq(T) /\ r \in Seq(T) /\ Len(s) \in Nat /\ n \in Nat /\ n <= Len(s)
      /\ DOMAIN s = 1 .. Len(s) /\ DOMAIN f = 1 .. n /\ DOMAIN r = 1 .. Len(s) - n
      /\ \A k \in 1 .. n : f[k] = s[k]
      /\ \A k \in 1 .. Len(s) - n : r[k] = s[k + n]
  OBVIOUS
<1> HIDE DEF f, r
<1>2. \A k \in DOMAIN f : k \in DOMAIN s /\ f[k] = s[k] /\ k <= n  BY <1>1
<1>3. \A k \in DOMAIN r : k + n \in DOMAIN s /\ r[k] = s[k + n] /\ k + n > n  BY <1>1
<1>4. \A k \in DOMAIN s : k \in DOMAIN f \/ k - n \in DOMAIN r  BY <1>1
<1>5. IsInjective(f)  BY <1>2 DEF IsInjective
<1>6. IsInjective(r)
  <2> SUFFICES ASSUME NEW i \in DOMAIN r, NEW j \in DOMAIN r, r[i] = r[j] PROVE i = j
    BY DEF IsInjective
  <2>1. i + n = j + n  BY <1>3 DEF IsInjective
  <2> QED BY <1>1, <2>1
<1>7. ToSet(f) \subseteq ToSet(s) /\ ToSet(r) \subseteq ToSet(s)  BY <1>2, <1>3 DEF ToSet
<1>8. ToSet(s) \subseteq ToSet(f) \cup ToSet(r)
  <2> SUFFICES ASSUME NEW k \in DOMAIN s PROVE s[k] \in ToSet(f) \cup ToSet(r)
    BY DEF ToSet
  <2>1. CASE k \in DOMAIN f  BY <1>2, <2>1 DEF ToSet
  <2>2. CASE k - n \in DOMAIN r
    <3>1. r[k - n] = s[k]  BY <1>1, <2>2
    <3> QED BY <2>2, <3>1 DEF ToSet
  <2> QED BY <1>4, <2>1, <2>2
<1>9. ASSUME NEW x \in ToSet(f) \cap ToSet(r) PROVE FALSE
  <2>1. PICK i \in DOMAIN f : f[i] = x  BY DEF ToSet
  <2>2. PICK j \in DOMAIN r : r[j] = x  BY DEF ToSet
  <2>3. i = j + n  BY <1>2, <1>3, <2>1, <2>2 DEF IsInjective
  <2> QED BY <1>1, <2>3
<1> QED BY <1>1, <1>5, <1>6, <1>7, <1>8, <1>9 DEF f, r

LEMMA HeadAndTail ==
    ASSUME NEW T, NEW s \in Seq(T), IsInjective(s), s # <<>>
    PROVE  /\ Head(s) \in T /\ Head(s) \in ToSet(s) /\ Tail(s) \in Seq(T)
           /\ ToSet(Tail(s)) = ToSet(s) \ {Head(s)} /\ IsInjective(Tail(s))
<1>1. Len(s) \in Nat \ {0} /\ Head(s) = s[1] /\ DOMAIN s = 1 .. Len(s) /\ s[1] \in T
  OBVIOUS
<1>2. 1 \in 0 .. Len(s)  BY <1>1
<1>3. Tail(s) = SubSeq(s, 2, Len(s)) /\ Tail(s) \in Seq(T)  OBVIOUS
<1>4. ToSet(SubSeq(s, 1, 1)) = {s[1]}
  <2>1. DOMAIN SubSeq(s, 1, 1) = {1} /\ SubSeq(s, 1, 1)[1] = s[1]  BY <1>1
  <2> QED BY <2>1 DEF ToSet
<1>5. 1 + 1 = 2  OBVIOUS
<1>6. s[1] \in ToSet(s)  BY <1>1 DEF ToSet
<1>7. /\ IsInjective(SubSeq(s, 1 + 1, Len(s)))
      /\ ToSet(s) = ToSet(SubSeq(s, 1, 1)) \cup ToSet(SubSeq(s, 1 + 1, Len(s)))
      /\ ToSet(SubSeq(s, 1, 1)) \cap ToSet(SubSeq(s, 1 + 1, Len(s))) = {}
  BY ONLY <1>2, SplitAt, s \in Seq(T), IsInjective(s)
<1>8. IsInjective(Tail(s)) /\ ToSet(s) = {s[1]} \cup ToSet(Tail(s)) /\ s[1] \notin ToSet(Tail(s))
  BY ONLY <1>3, <1>4, <1>5, <1>7
<1> QED BY ONLY <1>1, <1>3, <1>6, <1>8

LEMMA ToSetOf ==
    ASSUME NEW T, NEW s \in Seq(T)
    PROVE  ToSet(s) \subseteq T /\ (s = <<>> <=> ToSet(s) = {}) /\ (s = <<>> => IsInjective(s))
<1>1. Len(s) \in Nat /\ DOMAIN s = 1 .. Len(s) /\ \A k \in DOMAIN s : s[k] \in T  OBVIOUS
<1>2. s # <<>> => 1 \in DOMAIN s  BY <1>1
<1>3. s = <<>> => DOMAIN s = {}  BY <1>1
<1> QED BY <1>1, <1>2, <1>3 DEF ToSet, IsInjective

-----------------------------------------------------------------------------
(* The queue, the workers and the items.                                   *)

Places == {"none", "top", "waiting", "publish", "item", "walk", "narrow", "done"}
WorkerRecs == [pc : Places, batch : Seq(Items), at : Nat]
Counters == {"failed", "backpressure", "timed_out", "queue_closed", "queue_evicted",
             "queue_expired", "expired", "walked"}
Answers == {"cancelled", "failed", "result"}

WorkTypes ==
    /\ queue \in [closed : BOOLEAN, items : Seq(Items), injected : BOOLEAN, owner : Nat]
    /\ worker \in [Cycles -> [Workers -> WorkerRecs]]
    /\ inflight \in [Cycles -> [Workers -> Seq(Items)]]
    /\ item \in [Items -> [where : {"new", "checked", "queued", "taken", "gone"},
                          from : Nat, queue : Nat]]
    /\ future \in [Items -> {"none", "pending"} \cup Answers]
    /\ counted \in [Items -> SUBSET Counters]
    /\ unpublished \subseteq Items

\* The open queue is the current cycle's, or was built for the next one.
QueueInPhase ==
    /\ queue.owner \in {cycle, cycle + 1}
    /\ queue.closed => queue.items = <<>>
    /\ slots # 0 => queue.owner = cycle
    /\ op.name = "open" => ~queue.closed
    /\ slots = 0 \/ op.name \in {"join_workers", "fail_in_flight"} =>
          queue.closed \/ queue.owner = cycle + 1

\* A worker that was joined is over; one that was not belongs to a cycle given up.
WorkersInPhase ==
    \A k \in Cycles, w \in Workers :
        /\ k > cycle => worker[k][w].pc = "none"
        /\ k <= cycle /\ k \notin gaveUp /\ (k < cycle \/ w \notin threads) =>
              worker[k][w].pc = "done"

\* Where an item can be: in the queue, in a worker's batch, in its slot.
Waiting == ToSet(queue.items)
Batch(k, w) == ToSet(worker[k][w].batch)
Slot(k, w) == ToSet(inflight[k][w])
Held(k, w) == Batch(k, w) \cup Slot(k, w)
Busy(k, w) == worker[k][w].pc \in {"publish", "item", "walk", "narrow"}

\* What waits in the queue has nowhere else to be and no answer yet.
QueueHolds ==
    /\ IsInjective(queue.items)
    /\ \A i \in Waiting : /\ item[i].where = "queued" /\ item[i].queue = queue.owner
                          /\ future[i] = "pending"
    /\ \A i \in Items : item[i].where \in {"new", "checked"} => future[i] = "none" /\ counted[i] = {}

\* A worker holds items of its own cycle's queue, and no two workers the same one.
WorkersHold ==
    \A k \in Cycles, w \in Workers :
        /\ worker[k][w].batch # <<>> <=> Busy(k, w)
        /\ IsInjective(worker[k][w].batch)
        /\ worker[k][w].pc = "narrow" => future[Head(worker[k][w].batch)] # "pending"
        /\ \A i \in Held(k, w) : item[i].where \in {"taken", "gone"} /\ item[i].queue = k
        /\ \A v \in Workers : v # w => Held(k, v) \cap Held(k, w) = {}
        /\ k > cycle => inflight[k][w] = <<>>

\* In the live cycle a worker's slot is its batch from the publish to the narrowing.
SlotsFollow ==
    \A k \in Cycles, w \in Workers : slots = k =>
        /\ worker[k][w].pc \in {"item", "walk", "narrow"} => inflight[k][w] = worker[k][w].batch
        /\ worker[k][w].pc \in {"waiting", "publish"} => inflight[k][w] = <<>>
        /\ worker[k][w].pc = "top" /\ ~stopping[k] => inflight[k][w] = <<>>

\* A worker owes an answer for what it holds, except the item it just settled.
Owed(i, k, w) ==
    i \in Held(k, w) /\ ~(worker[k][w].pc = "narrow" /\ i = Head(worker[k][w].batch))
Unanswered(i) ==
    \/ i \in Waiting
    \/ \E k \in Cycles, w \in Workers : Owed(i, k, w)

Answered(i) ==
    /\ future[i] \in Answers
    /\ \E c \in Counters : counted[i] = {c} /\ (future[i] = "result" <=> c = "walked")

\* In a cycle nobody was abandoned in, an item is owed an answer, or was answered and
\* charged once.
Ledger ==
    \A i \in Items : future[i] # "none" /\ item[i].queue \notin gaveUp =>
        \/ Unanswered(i) /\ future[i] = "pending" /\ counted[i] = {}
        \/ ~Unanswered(i) /\ Answered(i)

\* An unanswered item is where the next stop finds it, or is known not to be.
Reachable ==
    \A i \in Items : future[i] = "pending" =>
        \/ i \in Waiting \/ i \in unpublished
        \/ slots # 0 /\ \E w \in Workers : i \in Held(slots, w)

WorkInv ==
    /\ WorkTypes /\ QueueInPhase /\ WorkersInPhase
    /\ QueueHolds /\ WorkersHold /\ SlotsFollow /\ Ledger /\ Reachable

LEMMA WorkInit == ASSUME Init PROVE WorkInv
<1> USE RunnerAssumption DEF Init
<1>1. /\ queue.closed = FALSE /\ queue.items = <<>> /\ queue.owner = 1 /\ cycle = 0 /\ slots = 0
      /\ \A k \in Cycles, w \in Workers : /\ worker[k][w].pc = "none" /\ worker[k][w].batch = <<>>
                                          /\ inflight[k][w] = <<>>
      /\ \A i \in Items : item[i].where = "new" /\ future[i] = "none" /\ counted[i] = {}
  BY DEF NewWorker
<1>2. WorkTypes
  <2> DEFINE idle == [NewWorker EXCEPT !.pc = "none"]
             fresh == [where |-> "new", from |-> 0, queue |-> 0]
  <2>1. <<>> \in Seq(Items)  OBVIOUS
  <2>2. idle \in WorkerRecs  BY <2>1 DEF WorkerRecs, NewWorker, Places
  <2>3. fresh \in [where : {"new", "checked", "queued", "taken", "gone"}, from : Nat, queue : Nat]
    OBVIOUS
  <2>4. /\ worker = [k \in Cycles |-> [w \in Workers |-> idle]]
        /\ inflight = [k \in Cycles |-> [w \in Workers |-> <<>>]]
        /\ item = [i \in Items |-> fresh] /\ future = [i \in Items |-> "none"]
        /\ counted = [i \in Items |-> {}] /\ unpublished = {}
    OBVIOUS
  <2>5. queue \in [closed : BOOLEAN, items : Seq(Items), injected : BOOLEAN, owner : Nat]
    BY <2>1
  <2> HIDE DEF idle, fresh
  <2> QED BY ONLY <2>1, <2>2, <2>3, <2>4, <2>5 DEF WorkTypes
<1>3. QueueInPhase
  <2>1. op.name = "idle" BY DEF Idle
  <2> QED BY ONLY <1>1, <2>1 DEF QueueInPhase
<1>4. WorkersInPhase
  <2>1. \A k \in Cycles : ~(k <= cycle)  BY <1>1 DEF Cycles
  <2> QED BY ONLY <1>1, <2>1 DEF WorkersInPhase
<1>5. Waiting = {} /\ IsInjective(queue.items)
      /\ \A k \in Cycles, w \in Workers : Held(k, w) = {} /\ IsInjective(worker[k][w].batch)
  <2>1. ToSet(<<>>) = {} /\ IsInjective(<<>>)  BY DEF ToSet, IsInjective
  <2> QED BY ONLY <1>1, <2>1 DEF Waiting, Held, Batch, Slot
<1>6. QueueHolds  BY ONLY <1>1, <1>5 DEF QueueHolds
<1>7. WorkersHold  BY ONLY <1>1, <1>5 DEF WorkersHold, Busy
<1>8. SlotsFollow  BY ONLY <1>1 DEF SlotsFollow
<1>9. Ledger /\ Reachable  BY ONLY <1>1 DEF Ledger, Reachable
<1> QED BY ONLY <1>2, <1>3, <1>4, <1>6, <1>7, <1>8, <1>9 DEF WorkInv

\* A worker that is alive writes to the live slot list, or its cycle was given up.
LEMMA LiveOrGivenUp ==
    ASSUME LifeInv, WorkersInPhase, NEW k \in Cycles, NEW w \in Workers,
           worker[k][w].pc \notin {"none", "done"}
    PROVE  k <= cycle /\ (slots = k \/ k \in gaveUp)
BY RunnerAssumption DEF LifeInv, LifeTypes, Tracked, WorkersInPhase, Cycles

\* A step that moves no item and no worker.
LEMMA WorkKeep ==
    ASSUME WorkInv, UNCHANGED <<worker, inflight, item, future, counted, unpublished>>,
           queue'.items = queue.items, WorkTypes', QueueInPhase', WorkersInPhase',
           cycle' = cycle, slots' = slots, gaveUp \subseteq gaveUp',
           queue'.owner = queue.owner \/ queue.items = <<>>,
           \A k \in Cycles : stopping[k] => stopping'[k]
    PROVE  WorkInv'
<1> USE DEF WorkInv
<1>1. Waiting' = Waiting  BY DEF Waiting
<1>2. \A k \in Cycles, w \in Workers : Held(k, w)' = Held(k, w) /\ (Busy(k, w)' <=> Busy(k, w))
                                    /\ \A i \in Items : Owed(i, k, w)' <=> Owed(i, k, w)
  BY DEF Held, Batch, Slot, Busy, Owed
<1>3. QueueHolds'
  <2>1. queue.items = <<>> => Waiting = {}  BY DEF Waiting, ToSet
  <2> QED BY <1>1, <2>1 DEF QueueHolds
<1>4. WorkersHold'  BY <1>2 DEF WorkersHold
<1>5. SlotsFollow'  BY DEF SlotsFollow
<1>6. \A i \in Items : Unanswered(i)' <=> Unanswered(i)  BY <1>1, <1>2 DEF Unanswered
<1>7. Ledger'  BY <1>6 DEF Ledger, Answered
<1>8. Reachable'  BY <1>1 DEF Reachable, Held, Batch, Slot
<1> QED BY <1>3, <1>4, <1>5, <1>7, <1>8

\* A step answers the items of S, each with one outcome charged to one counter.
Settles(S, outcome, counter) ==
    \A i \in Items :
        /\ future'[i] = (IF i \in S /\ future[i] = "pending" THEN outcome ELSE future[i])
        /\ counted'[i] = (IF i \in S THEN counted[i] \cup {counter} ELSE counted[i])

LEMMA ResolvedAndCharged ==
    ASSUME WorkTypes, NEW S, NEW outcome \in Answers, NEW counter \in Counters,
           future' = ResolveAll(S, outcome), counted' = ChargeAll(S, counter)
    PROVE  /\ Settles(S, outcome, counter)
           /\ future' \in [Items -> {"none", "pending"} \cup Answers]
           /\ counted' \in [Items -> SUBSET Counters]
<1>1. /\ \A i \in Items : future[i] \in {"none", "pending"} \cup Answers /\ counted[i] \subseteq Counters
      /\ future' = [i \in Items |-> IF i \in S /\ future[i] = "pending" THEN outcome ELSE future[i]]
      /\ counted' = [i \in Items |-> counted[i] \cup (IF i \in S THEN {counter} ELSE {})]
  BY DEF WorkTypes, ResolveAll, ChargeAll
<1>2. \A i \in Items : counted[i] \cup (IF i \in S THEN {counter} ELSE {})
                       = (IF i \in S THEN counted[i] \cup {counter} ELSE counted[i])
  OBVIOUS
<1> QED BY <1>1, <1>2 DEF Settles

\* The ledger balances after a step that takes what it answers out of everyone's
\* hands, and nothing else.
LEMMA LedgerMoves ==
    ASSUME WorkInv, gaveUp \subseteq gaveUp', NEW S, NEW outcome \in Answers, NEW counter \in Counters,
           outcome = "result" <=> counter = "walked",
           Settles(S, outcome, counter),
           \A i \in Items : item'[i].queue = item[i].queue,
           \A i \in Items : item[i].queue \notin gaveUp =>
               /\ i \in S => Unanswered(i) /\ ~Unanswered(i)'
               /\ i \notin S => (Unanswered(i)' <=> Unanswered(i))
    PROVE  Ledger'
<1> SUFFICES ASSUME NEW i \in Items, future'[i] # "none", item'[i].queue \notin gaveUp'
             PROVE  \/ Unanswered(i)' /\ future'[i] = "pending" /\ counted'[i] = {}
                    \/ ~Unanswered(i)' /\ Answered(i)'
  BY DEF Ledger
<1>1. future[i] # "none" /\ item[i].queue \notin gaveUp  BY DEF Settles
<1>2. \/ Unanswered(i) /\ future[i] = "pending" /\ counted[i] = {}
      \/ ~Unanswered(i) /\ Answered(i)
  BY <1>1 DEF WorkInv, Ledger
<1>3. CASE i \in S
  <2>1. future'[i] = outcome /\ counted'[i] = {counter} /\ ~Unanswered(i)'
    BY <1>1, <1>2, <1>3 DEF Settles
  <2> QED BY <2>1 DEF Answered
<1>4. CASE i \notin S
  <2>1. future'[i] = future[i] /\ counted'[i] = counted[i] /\ (Unanswered(i)' <=> Unanswered(i))
    BY <1>1, <1>4 DEF Settles
  <2> QED BY <1>2, <2>1 DEF Answered
<1> QED BY <1>3, <1>4

\* What the workers hold after a step in which one of them may take T.
LEMMA HoldMoves ==
    ASSUME LifeInv, WorkInv, cycle' = cycle, NEW j \in Cycles, NEW u \in Workers, NEW T \in SUBSET Items,
           \A i \in Items : item[i].where \in {"taken", "gone"} =>
               /\ item'[i].where \in {"taken", "gone"} /\ item'[i].queue = item[i].queue
               /\ future[i] # "pending" => future'[i] # "pending",
           \A i \in T : item[i].where = "queued" /\ item'[i].where \in {"taken", "gone"}
                       /\ item'[i].queue = j,
           \A k \in Cycles, w \in Workers :
               /\ \/ worker'[k][w] = worker[k][w]
                  \/ /\ worker'[k][w].batch # <<>> <=> Busy(k, w)'
                     /\ IsInjective(worker'[k][w].batch)
                     /\ worker'[k][w].pc = "narrow" => future'[Head(worker'[k][w].batch)] # "pending"
               /\ inflight'[k][w] = inflight[k][w] \/ k <= cycle
               /\ Held(k, w)' \subseteq Held(k, w) \cup (IF k = j /\ w = u THEN T ELSE {})
    PROVE  WorkersHold'
<1> USE DEF WorkInv
<1>0. \A k \in Cycles, w \in Workers : Held(k, w) \subseteq Items
  BY ToSetOf DEF WorkTypes, WorkerRecs, Held, Batch, Slot
<1>1. \A k \in Cycles, w \in Workers : \A i \in Held(k, w) :
          item[i].where \in {"taken", "gone"} /\ item[i].queue = k
  BY DEF WorkersHold
<1> SUFFICES ASSUME NEW k \in Cycles, NEW w \in Workers
             PROVE  /\ worker'[k][w].batch # <<>> <=> Busy(k, w)'
                    /\ IsInjective(worker'[k][w].batch)
                    /\ worker'[k][w].pc = "narrow" => future'[Head(worker'[k][w].batch)] # "pending"
                    /\ \A i \in Held(k, w)' : item'[i].where \in {"taken", "gone"} /\ item'[i].queue = k
                    /\ \A v \in Workers : v # w => Held(k, v)' \cap Held(k, w)' = {}
                    /\ k > cycle' => inflight'[k][w] = <<>>
  BY DEF WorkersHold
<1>2. /\ worker'[k][w].batch # <<>> <=> Busy(k, w)'
      /\ IsInjective(worker'[k][w].batch)
      /\ worker'[k][w].pc = "narrow" => future'[Head(worker'[k][w].batch)] # "pending"
  <2>1. CASE worker'[k][w] = worker[k][w]
    <3>1. /\ worker[k][w].batch # <<>> <=> Busy(k, w)
          /\ IsInjective(worker[k][w].batch)
          /\ worker[k][w].pc = "narrow" => future[Head(worker[k][w].batch)] # "pending"
      BY DEF WorkersHold
    <3>2. worker[k][w].pc = "narrow" => Head(worker[k][w].batch) \in Held(k, w)
      <4> SUFFICES ASSUME worker[k][w].pc = "narrow" PROVE Head(worker[k][w].batch) \in Held(k, w)
        OBVIOUS
      <4>1. worker[k][w].batch \in Seq(Items) /\ worker[k][w].batch # <<>>
        BY <3>1 DEF Busy, WorkTypes, WorkerRecs
      <4> QED BY <4>1, <3>1, HeadAndTail DEF Held, Batch
    <3>3. worker[k][w].pc = "narrow" => future'[Head(worker[k][w].batch)] # "pending"
      BY <1>0, <1>1, <3>1, <3>2
    <3> QED BY <2>1, <3>1, <3>3 DEF Busy
  <2> QED BY <2>1
<1>3. ASSUME NEW i \in Held(k, w)' PROVE item'[i].where \in {"taken", "gone"} /\ item'[i].queue = k
  <2>1. i \in Held(k, w) \/ (i \in T /\ k = j /\ w = u)  BY <1>3
  <2> QED BY <1>0, <1>1, <2>1
<1>4. ASSUME NEW v \in Workers, v # w PROVE Held(k, v)' \cap Held(k, w)' = {}
  <2>1. Held(k, v) \cap Held(k, w) = {}  BY <1>4 DEF WorkersHold
  <2>2. Held(k, v) \cap T = {} /\ Held(k, w) \cap T = {}  BY <1>1
  <2>3. /\ Held(k, v)' \subseteq Held(k, v) \cup (IF k = j /\ v = u THEN T ELSE {})
        /\ Held(k, w)' \subseteq Held(k, w) \cup (IF k = j /\ w = u THEN T ELSE {})
    OBVIOUS
  <2> QED BY ONLY <1>4, <2>1, <2>2, <2>3
<1>5. k > cycle' => inflight'[k][w] = <<>>
  <2>1. k > cycle => inflight[k][w] = <<>>  BY DEF WorkersHold
  <2>2. k \in Nat /\ cycle \in Nat  BY RunnerAssumption DEF LifeInv, LifeTypes, Cycles
  <2> QED BY <2>1, <2>2
<1> QED BY <1>2, <1>3, <1>4, <1>5

\* The same when nobody takes anything.
LEMMA HoldLess ==
    ASSUME LifeInv, WorkInv, cycle' = cycle,
           \A i \in Items : item[i].where \in {"taken", "gone"} =>
               /\ item'[i].where \in {"taken", "gone"} /\ item'[i].queue = item[i].queue
               /\ future[i] # "pending" => future'[i] # "pending",
           \A k \in Cycles, w \in Workers :
               /\ \/ worker'[k][w] = worker[k][w]
                  \/ /\ worker'[k][w].batch # <<>> <=> Busy(k, w)'
                     /\ IsInjective(worker'[k][w].batch)
                     /\ worker'[k][w].pc = "narrow" => future'[Head(worker'[k][w].batch)] # "pending"
               /\ inflight'[k][w] = inflight[k][w] \/ k <= cycle
               /\ Held(k, w)' \subseteq Held(k, w)
    PROVE  WorkersHold'
<1>1. 1 \in Cycles /\ \E w \in Workers : TRUE  BY RunnerAssumption DEF Cycles
<1>2. PICK u \in Workers : TRUE  BY <1>1
<1> DEFINE T == {}
<1>3. T \in SUBSET Items /\ \A i \in T : item[i].where = "queued" /\ item'[i].where \in {"taken", "gone"}
                                       /\ item'[i].queue = 1
  OBVIOUS
<1>4. \A k \in Cycles, w \in Workers :
          Held(k, w)' \subseteq Held(k, w) \cup (IF k = 1 /\ w = u THEN T ELSE {})
  OBVIOUS
<1> HIDE DEF T
<1> QED BY <1>1, <1>2, <1>3, <1>4, HoldMoves

\* Start and stop, except the four steps that move the queue, the workers or what
\* they hold.
LEMMA WorkLifecycleRest ==
    ASSUME LifeInv, LifeInv', OpTypes, WorkInv,
           \/ OpenElement \/ OpenFails \/ StopBegin \/ StopIngest \/ CamerasGone \/ SetStopping
           \/ (\E w \in Workers : JoinWorker(w)) \/ CloseElement \/ CameraCalls
    PROVE  WorkInv'
<1> USE DEF WorkInv
<1>1. /\ UNCHANGED work /\ cycle' = cycle /\ slots' = slots /\ gaveUp \subseteq gaveUp'
      /\ \A k \in Cycles : stopping[k] => stopping'[k]
      /\ \/ threads' = threads
         \/ \E w \in Workers : threads' = threads \ {w} /\ (worker[cycle][w].pc = "done" \/ cycle \in gaveUp')
  <2> USE DEF work
  <2>1. CASE OpenElement \/ OpenFails \/ StopBegin \/ StopIngest \/ CamerasGone \/ CloseElement
    BY <2>1 DEF OpenElement, OpenFails, StopBegin, StopIngest, CamerasGone, CloseElement
  <2>2. CASE SetStopping  BY <2>2 DEF SetStopping, LifeInv, LifeTypes
  <2>3. CASE \E w \in Workers : JoinWorker(w)  BY <2>3 DEF JoinWorker
  <2>4. CASE CameraCalls
    BY <2>4 DEF CameraCalls, AddCamera, JoinCamera, RemoveCamera, CameraStarts, CameraRefused,
                Announce, Drain, CameraRemoved, life
  <2> QED BY <2>1, <2>2, <2>3, <2>4
<1>2. /\ op'.name = "open" => op.name = "open"
      /\ op'.name \in {"join_workers", "fail_in_flight"} => op.name = "join_workers"
  <2> USE DEF OpTypes
  <2>1. CASE OpenElement \/ OpenFails \/ StopBegin \/ StopIngest \/ CamerasGone \/ CloseElement
    BY <2>1 DEF OpenElement, OpenFails, StopBegin, StopIngest, CamerasGone, CloseElement
  <2>2. CASE SetStopping  BY <2>2 DEF SetStopping
  <2>3. CASE \E w \in Workers : JoinWorker(w)  BY <2>3 DEF JoinWorker
  <2>4. CASE CameraCalls
    BY <2>4 DEF CameraCalls, AddCamera, JoinCamera, RemoveCamera, CameraStarts, CameraRefused,
                Announce, Drain, CameraRemoved, life
  <2> QED BY <2>1, <2>2, <2>3, <2>4
<1>3. UNCHANGED <<queue, worker, inflight, item, future, counted, unpublished>>  BY <1>1 DEF work
<1>4. QueueInPhase'  BY ONLY <1>1, <1>2, <1>3, WorkInv DEF WorkInv, QueueInPhase
<1>5. WorkersInPhase'
  <2>1. \A k \in Cycles : k <= cycle /\ ~(k < cycle) => k = cycle
    BY RunnerAssumption DEF LifeInv, LifeTypes, Cycles
  <2> QED BY <1>1, <1>3, <2>1 DEF WorkersInPhase
<1>6. WorkTypes'  BY <1>3 DEF WorkTypes
<1> QED BY <1>1, <1>3, <1>4, <1>5, <1>6, WorkKeep

LEMMA WorkStartBegin == ASSUME LifeInv, WorkInv, StartBegin PROVE WorkInv'
<1>1. /\ op.name = "idle" /\ ~running /\ op'.name = "open" /\ cycle' = cycle /\ slots' = slots
      /\ gaveUp' = gaveUp /\ stopping' = stopping /\ threads' = threads
      /\ UNCHANGED <<worker, inflight, item, future, counted, unpublished>>
      /\ queue' = IF queue.closed THEN [queue EXCEPT !.closed = FALSE, !.owner = cycle + 1] ELSE queue
  BY DEF StartBegin
<1>2. /\ slots = 0 /\ cycle \in Nat
      /\ queue \in [closed : BOOLEAN, items : Seq(Items), injected : BOOLEAN, owner : Nat]
  BY <1>1, RunnerAssumption DEF LifeInv, LifeTypes, Tracked, WorkInv, WorkTypes
<1>3. /\ queue' \in [closed : BOOLEAN, items : Seq(Items), injected : BOOLEAN, owner : Nat]
      /\ queue'.items = queue.items /\ ~queue'.closed
      /\ queue'.owner = IF queue.closed THEN cycle + 1 ELSE queue.owner
  <2>1. CASE queue.closed
    <3> DEFINE p == [queue EXCEPT !.closed = FALSE]
               q == [p EXCEPT !.owner = cycle + 1]
    <3>0. /\ p \in [closed : BOOLEAN, items : Seq(Items), injected : BOOLEAN, owner : Nat]
          /\ p.items = queue.items /\ p.closed = FALSE
      BY <1>2
    <3>3. queue' = q  BY <1>1, <2>1
    <3> HIDE DEF p
    <3>1. q.items = queue.items /\ q.owner = cycle + 1 /\ q.closed = FALSE
      BY <1>2, <3>0
    <3>2. q \in [closed : BOOLEAN, items : Seq(Items), injected : BOOLEAN, owner : Nat]
      BY <1>2, <3>0
    <3> HIDE DEF q
    <3> QED BY ONLY <2>1, <3>1, <3>2, <3>3
  <2>2. CASE ~queue.closed  BY <1>1, <1>2, <2>2
  <2> QED BY <2>1, <2>2
<1>4. QueueInPhase'  BY ONLY <1>1, <1>2, <1>3, WorkInv DEF WorkInv, QueueInPhase
<1>5. WorkersInPhase' /\ WorkTypes'
  BY ONLY <1>1, <1>3, WorkInv DEF WorkInv, WorkersInPhase, WorkTypes
<1>6. queue'.owner = queue.owner \/ queue.items = <<>>
  BY <1>3 DEF WorkInv, QueueInPhase
<1> QED BY <1>1, <1>3, <1>4, <1>5, <1>6, WorkKeep

LEMMA WorkStartWorkers == ASSUME LifeInv, WorkInv, StartWorkers PROVE WorkInv'
<1> DEFINE n == cycle + 1
<1>1. /\ op.name = "open" /\ op'.name = "idle" /\ cycle' = n /\ slots' = n /\ threads' = Workers
      /\ gaveUp' = gaveUp /\ stopping' = stopping
      /\ UNCHANGED <<queue, inflight, item, future, counted, unpublished>>
      /\ worker' = [worker EXCEPT ![n] = [w \in Workers |-> NewWorker]]
  BY DEF StartWorkers, Idle
<1>2. slots = 0 /\ threads = {} /\ cycle \in Nat /\ n \in Cycles /\ n \in Nat \ {0}
  BY <1>1, RunnerAssumption DEF LifeInv, LifeTypes, Tracked, Cycles
<1>3. /\ worker' \in [Cycles -> [Workers -> WorkerRecs]]
      /\ \A k \in Cycles, w \in Workers :
            worker'[k][w] = IF k = n THEN NewWorker ELSE worker[k][w]
  <2>1. NewWorker \in WorkerRecs  BY DEF NewWorker, WorkerRecs, Places
  <2>2. worker \in [Cycles -> [Workers -> WorkerRecs]]  BY DEF WorkInv, WorkTypes
  <2> QED BY ONLY <1>1, <2>1, <2>2
<1>4. \A w \in Workers : /\ worker[n][w].batch = <<>> /\ inflight[n][w] = <<>>
                         /\ worker[n][w].pc = "none"
  <2>1. n > cycle  BY <1>2
  <2> QED BY <1>2, <2>1 DEF WorkInv, WorkersInPhase, WorkersHold, Busy
<1>5. WorkTypes'  BY <1>1, <1>3 DEF WorkInv, WorkTypes
<1> HIDE DEF n
<1>6. QueueInPhase'
  <2>1. ~queue.closed /\ (slots = 0 => queue.closed \/ queue.owner = n)
    BY <1>1 DEF WorkInv, QueueInPhase, n
  <2> QED BY ONLY <1>1, <1>2, <2>1 DEF QueueInPhase
<1>7. WorkersInPhase'
  <2>1. \A k \in Cycles : /\ k > n => k > cycle /\ k # n
                         /\ k <= n => (k <= cycle /\ k # n) \/ (k = n /\ ~(k < n))
    BY <1>2 DEF n, Cycles
  <2>2. \A k \in Cycles, w \in Workers : k <= cycle /\ k \notin gaveUp => worker[k][w].pc = "done"
    BY <1>2 DEF WorkInv, WorkersInPhase
  <2>3. \A k \in Cycles, w \in Workers : k > cycle => worker[k][w].pc = "none"
    BY DEF WorkInv, WorkersInPhase
  <2> SUFFICES ASSUME NEW k \in Cycles, NEW w \in Workers
               PROVE  /\ k > n => worker'[k][w].pc = "none"
                      /\ k <= n /\ k \notin gaveUp /\ k < n => worker'[k][w].pc = "done"
    BY <1>1 DEF WorkersInPhase
  <2>4. k # n => worker'[k][w] = worker[k][w]  BY <1>3
  <2>5. k \in Nat /\ n \in Nat /\ cycle \in Nat  BY <1>2 DEF Cycles
  <2>6. CASE k = n  BY <2>5, <2>6
  <2>7. CASE k > n
    <3>1. k > cycle /\ k # n /\ ~(k <= n)  BY <2>5, <2>7 DEF n
    <3>2. worker'[k][w].pc = "none"  BY <2>3, <2>4, <3>1
    <3> QED BY <3>1, <3>2
  <2>8. CASE k < n  BY <2>1, <2>2, <2>4, <2>5, <2>8
  <2> QED BY <2>5, <2>6, <2>7, <2>8
<1>8. \A k \in Cycles, w \in Workers :
          /\ worker'[k][w].batch = worker[k][w].batch
          /\ Held(k, w)' = Held(k, w) /\ (Busy(k, w)' <=> Busy(k, w))
          /\ worker'[k][w].pc = "narrow" <=> worker[k][w].pc = "narrow"
  <2>1. ASSUME NEW w \in Workers
        PROVE  worker'[n][w].batch = <<>> /\ worker'[n][w].pc = "top" /\ worker[n][w].pc = "none"
    BY <1>2, <1>3, <1>4 DEF NewWorker
  <2> QED BY <1>1, <1>3, <1>4, <2>1 DEF Held, Batch, Slot, Busy
<1>9. Waiting' = Waiting  BY <1>1 DEF Waiting
<1>10. QueueHolds'  BY <1>1, <1>9 DEF WorkInv, QueueHolds
<1>11. WorkersHold'
  <2>1. \A k \in Cycles : k > n => k > cycle  BY <1>2 DEF n, Cycles
  <2>2. WorkersHold  BY DEF WorkInv
  <2> QED BY ONLY <1>1, <1>8, <2>1, <2>2 DEF WorkersHold
<1>12. SlotsFollow'
  <2>1. \A w \in Workers : worker'[n][w].pc = "top" /\ inflight'[n][w] = <<>>
    BY <1>1, <1>2, <1>3, <1>4 DEF NewWorker
  <2> QED BY ONLY <1>1, <2>1 DEF SlotsFollow
<1>13. \A i \in Items : Unanswered(i)' <=> Unanswered(i)
  BY ONLY <1>8, <1>9 DEF Unanswered, Owed
<1>14. Ledger'  BY ONLY <1>1, <1>13, WorkInv DEF WorkInv, Ledger, Answered
<1>15. Reachable'  BY ONLY <1>1, <1>2, <1>9, WorkInv DEF WorkInv, Reachable
<1> QED BY ONLY <1>5, <1>6, <1>7, <1>10, <1>11, <1>12, <1>14, <1>15 DEF WorkInv

\* Facts of the work that several steps use.
LEMMA WorkFacts ==
    ASSUME LifeInv, WorkInv
    PROVE  /\ cycle \in Nat /\ Cycles \subseteq Nat \ {0}
           /\ Waiting \subseteq Items /\ queue.items \in Seq(Items) /\ IsInjective(queue.items)
           /\ \A i \in Items : item[i].where \in {"new", "checked", "queued", "taken", "gone"}
           /\ \A k \in Cycles, w \in Workers :
                 /\ Batch(k, w) \subseteq Items /\ Slot(k, w) \subseteq Items /\ Held(k, w) \subseteq Items
                 /\ Held(k, w) \cap Waiting = {}
                 /\ \A i \in Held(k, w) : item[i].where \in {"taken", "gone"} /\ item[i].queue = k
                 /\ worker[k][w] \in WorkerRecs /\ worker[k][w].batch \in Seq(Items)
                 /\ inflight[k][w] \in Seq(Items)
                 /\ Busy(k, w) => /\ Head(worker[k][w].batch) \in Batch(k, w)
                                 /\ ToSet(Tail(worker[k][w].batch))
                                        = Batch(k, w) \ {Head(worker[k][w].batch)}
                                 /\ Tail(worker[k][w].batch) \in Seq(Items)
                                 /\ IsInjective(Tail(worker[k][w].batch))
                 /\ ~Busy(k, w) => Batch(k, w) = {}
<1> USE DEF WorkInv
<1>1. cycle \in Nat /\ Cycles \subseteq Nat \ {0}  BY RunnerAssumption DEF LifeInv, LifeTypes, Cycles
<1>2. queue.items \in Seq(Items) /\ IsInjective(queue.items) /\ Waiting \subseteq Items
  BY ToSetOf DEF WorkTypes, QueueHolds, Waiting
<1>3. \A i \in Items : item[i].where \in {"new", "checked", "queued", "taken", "gone"}
  BY DEF WorkTypes
<1>4. ASSUME NEW k \in Cycles, NEW w \in Workers
      PROVE  /\ Batch(k, w) \subseteq Items /\ Slot(k, w) \subseteq Items /\ Held(k, w) \subseteq Items
             /\ Held(k, w) \cap Waiting = {}
             /\ \A i \in Held(k, w) : item[i].where \in {"taken", "gone"} /\ item[i].queue = k
             /\ worker[k][w] \in WorkerRecs /\ worker[k][w].batch \in Seq(Items)
             /\ inflight[k][w] \in Seq(Items)
             /\ Busy(k, w) => /\ Head(worker[k][w].batch) \in Batch(k, w)
                             /\ ToSet(Tail(worker[k][w].batch))
                                    = Batch(k, w) \ {Head(worker[k][w].batch)}
                             /\ Tail(worker[k][w].batch) \in Seq(Items)
                             /\ IsInjective(Tail(worker[k][w].batch))
             /\ ~Busy(k, w) => Batch(k, w) = {}
  <2>1. /\ worker[k][w] \in WorkerRecs /\ worker[k][w].batch \in Seq(Items)
        /\ inflight[k][w] \in Seq(Items)
    BY DEF WorkTypes, WorkerRecs
  <2>2. Batch(k, w) \subseteq Items /\ Slot(k, w) \subseteq Items
    BY <2>1, ToSetOf DEF Batch, Slot
  <2>3. /\ worker[k][w].batch # <<>> <=> Busy(k, w)
        /\ IsInjective(worker[k][w].batch)
        /\ \A i \in Held(k, w) : item[i].where \in {"taken", "gone"} /\ item[i].queue = k
    BY DEF WorkersHold
  <2>4. \A i \in Waiting : item[i].where = "queued"  BY DEF QueueHolds
  <2>5. Busy(k, w) => /\ Head(worker[k][w].batch) \in Batch(k, w)
                      /\ ToSet(Tail(worker[k][w].batch))
                             = Batch(k, w) \ {Head(worker[k][w].batch)}
                      /\ Tail(worker[k][w].batch) \in Seq(Items)
                      /\ IsInjective(Tail(worker[k][w].batch))
    BY <2>1, <2>3, HeadAndTail DEF Batch
  <2>6. ~Busy(k, w) => Batch(k, w) = {}  BY <2>1, <2>3, ToSetOf DEF Batch
  <2> QED BY <2>1, <2>2, <2>3, <2>4, <2>5, <2>6 DEF Held
<1> QED BY <1>1, <1>2, <1>3, <1>4

\* What one item's record becomes.
ItemRecs == [where : {"new", "checked", "queued", "taken", "gone"}, from : Nat, queue : Nat]

LEMMA Rehomed ==
    ASSUME NEW r \in ItemRecs, NEW s \in {"new", "checked", "queued", "taken", "gone"}
    PROVE  /\ [r EXCEPT !.where = s] \in ItemRecs
           /\ [r EXCEPT !.where = s].where = s
           /\ [r EXCEPT !.where = s].queue = r.queue
BY DEF ItemRecs

LEMMA WorkCloseQueue == ASSUME LifeInv, LifeInv', WorkInv, CloseQueue PROVE WorkInv'
<1> DEFINE D == Waiting
<1>1. /\ op.name = "close_queue" /\ op'.name = "join_workers" /\ cycle' = cycle /\ slots' = slots
      /\ gaveUp' = gaveUp /\ stopping' = stopping /\ threads' = threads
      /\ worker' = worker /\ inflight' = inflight /\ unpublished' = unpublished
      /\ queue' = [queue EXCEPT !.closed = TRUE, !.items = <<>>]
      /\ item' = [i \in Items |-> IF i \in D THEN [item[i] EXCEPT !.where = "gone"] ELSE item[i]]
      /\ future' = ResolveAll(D, "cancelled") /\ counted' = ChargeAll(D, "queue_closed")
  BY DEF CloseQueue, Waiting
<1>2. /\ Settles(D, "cancelled", "queue_closed")
      /\ future' \in [Items -> {"none", "pending"} \cup Answers]
      /\ counted' \in [Items -> SUBSET Counters]
  BY <1>1, ResolvedAndCharged DEF WorkInv, Answers, Counters
<1>3. /\ queue' \in [closed : BOOLEAN, items : Seq(Items), injected : BOOLEAN, owner : Nat]
      /\ queue'.items = <<>> /\ queue'.owner = queue.owner /\ queue'.closed
  <2> DEFINE p == [queue EXCEPT !.closed = TRUE]
             q == [p EXCEPT !.items = <<>>]
  <2>1. queue \in [closed : BOOLEAN, items : Seq(Items), injected : BOOLEAN, owner : Nat]
    BY DEF WorkInv, WorkTypes
  <2>2. /\ p \in [closed : BOOLEAN, items : Seq(Items), injected : BOOLEAN, owner : Nat]
        /\ p.owner = queue.owner /\ p.closed = TRUE
    BY <2>1
  <2>3. queue' = q  BY <1>1
  <2> HIDE DEF p
  <2>4. q.items = <<>> /\ q.owner = queue.owner /\ q.closed = TRUE
    BY <2>2
  <2>5. <<>> \in Seq(Items)  OBVIOUS
  <2>6. q \in [closed : BOOLEAN, items : Seq(Items), injected : BOOLEAN, owner : Nat]
    BY <2>2, <2>5
  <2> HIDE DEF q
  <2> QED BY ONLY <2>3, <2>4, <2>6
<1>4. /\ item' \in [Items -> ItemRecs]
      /\ \A i \in Items : /\ item'[i].queue = item[i].queue
                          /\ item'[i].where = IF i \in D THEN "gone" ELSE item[i].where
  <2>1. \A i \in Items : item[i] \in ItemRecs  BY DEF WorkInv, WorkTypes, ItemRecs
  <2> DEFINE gone(i) == [item[i] EXCEPT !.where = "gone"]
  <2>2. \A i \in Items : gone(i) \in ItemRecs /\ gone(i).where = "gone" /\ gone(i).queue = item[i].queue
    BY <2>1, Rehomed
  <2>3. item' = [i \in Items |-> IF i \in D THEN gone(i) ELSE item[i]]  BY <1>1
  <2> HIDE DEF gone, D
  <2> QED BY ONLY <2>1, <2>2, <2>3
<1>5. WorkTypes'  BY <1>1, <1>2, <1>3, <1>4 DEF WorkInv, WorkTypes, ItemRecs
<1>6. Waiting' = {}  BY <1>3 DEF Waiting, ToSet
<1>7. QueueInPhase'
  <2>1. QueueInPhase  BY DEF WorkInv
  <2> QED BY ONLY <1>1, <1>3, <2>1 DEF QueueInPhase
<1>8. WorkersInPhase'  BY <1>1 DEF WorkInv, WorkersInPhase
<1>9. QueueHolds'
  <2>1. IsInjective(queue'.items)  BY <1>3 DEF IsInjective
  <2>2. \A i \in Items : item[i].where \in {"new", "checked"} => future[i] = "none" /\ counted[i] = {}
    BY DEF WorkInv, QueueHolds
  <2> QED BY <1>2, <1>4, <1>6, <2>1, <2>2 DEF QueueHolds, Settles
<1>10. \A k \in Cycles, w \in Workers : /\ Held(k, w)' = Held(k, w)
                                     /\ \A i \in Items : Owed(i, k, w)' <=> Owed(i, k, w)
  BY <1>1 DEF Held, Batch, Slot, Owed
<1>11. WorkersHold'
  <2>1. \A i \in Items : item[i].where \in {"taken", "gone"} =>
            /\ item'[i].where \in {"taken", "gone"} /\ item'[i].queue = item[i].queue
            /\ future[i] # "pending" => future'[i] # "pending"
    BY <1>2, <1>4 DEF Settles
  <2>2. \A k \in Cycles, w \in Workers :
            /\ worker'[k][w] = worker[k][w] /\ inflight'[k][w] = inflight[k][w]
            /\ Held(k, w)' \subseteq Held(k, w)
    BY <1>1, <1>10
  <2> QED BY ONLY LifeInv, WorkInv, <1>1, <2>1, <2>2, HoldLess
<1>12. SlotsFollow'  BY <1>1 DEF WorkInv, SlotsFollow
<1>13. Ledger'
  <2>1. ASSUME NEW i \in Items
        PROVE  /\ i \in D => Unanswered(i) /\ ~Unanswered(i)'
               /\ i \notin D => (Unanswered(i)' <=> Unanswered(i))
    <3>1. i \in D => \A k \in Cycles, w \in Workers : i \notin Held(k, w)
      BY WorkFacts
    <3> QED BY <1>6, <1>10, <3>1 DEF Unanswered, Owed
  <2> QED BY <1>1, <1>2, <1>4, <2>1, LedgerMoves, WorkFacts DEF Answers, Counters
<1>14. Reachable'
  <2>1. \A i \in Items : future'[i] = "pending" => i \notin Waiting /\ future[i] = "pending"
    BY <1>2 DEF Settles
  <2>2. \A w \in Workers : Held(slots, w)' = Held(slots, w)  BY <1>1 DEF Held, Batch, Slot
  <2> QED BY <1>1, <2>1, <2>2 DEF WorkInv, Reachable, Held, Batch, Slot
<1> QED BY ONLY <1>5, <1>7, <1>8, <1>9, <1>11, <1>12, <1>13, <1>14 DEF WorkInv

LEMMA WorkFailInFlight == ASSUME LifeInv, LifeInv', WorkInv, FailInFlight PROVE WorkInv'
<1> DEFINE D == UNION {Slot(cycle, w) : w \in Workers}
           P == {i \in Items : \E w \in Workers : worker[cycle][w].pc = "publish" /\ i \in Batch(cycle, w)}
<1>1. /\ op.name = "fail_in_flight" /\ op'.name = "close" /\ cycle' = cycle /\ slots' = 0
      /\ gaveUp' = gaveUp /\ stopping' = stopping /\ threads' = threads
      /\ worker' = worker /\ queue' = queue /\ item' = item
      /\ inflight' = [inflight EXCEPT ![cycle] = [w \in Workers |-> <<>>]]
      /\ unpublished' = unpublished \cup P
      /\ future' = ResolveAll(D, "cancelled") /\ counted' = ChargeAll(D, "failed")
  BY DEF FailInFlight, Batch, Slot
<1>2. slots = cycle /\ cycle \in Cycles /\ threads = {}
  BY <1>1, RunnerAssumption DEF LifeInv, LifeTypes, Tracked, Cycles
<1>3. /\ Settles(D, "cancelled", "failed")
      /\ future' \in [Items -> {"none", "pending"} \cup Answers]
      /\ counted' \in [Items -> SUBSET Counters]
  BY <1>1, ResolvedAndCharged DEF WorkInv, Answers, Counters
<1>4. /\ inflight' \in [Cycles -> [Workers -> Seq(Items)]]
      /\ \A k \in Cycles, w \in Workers : inflight'[k][w] = IF k = cycle THEN <<>> ELSE inflight[k][w]
  <2>1. inflight \in [Cycles -> [Workers -> Seq(Items)]] /\ <<>> \in Seq(Items)
    BY DEF WorkInv, WorkTypes
  <2> QED BY ONLY <1>1, <1>2, <2>1
<1>5. \A i \in D : /\ \E w \in Workers : i \in Slot(cycle, w)
                  /\ i \in Items /\ item[i].where \in {"taken", "gone"} /\ item[i].queue = cycle
  BY <1>2, WorkFacts DEF Held
<1>6. \A k \in Cycles, w \in Workers : /\ Batch(k, w)' = Batch(k, w)
                                    /\ Slot(k, w)' = IF k = cycle THEN {} ELSE Slot(k, w)
  <2>1. ToSet(<<>>) = {}  BY DEF ToSet
  <2> QED BY <1>1, <1>4, <2>1 DEF Batch, Slot
<1>7. \A w \in Workers : Slot(cycle, w) \subseteq D  OBVIOUS
<1>8. Waiting' = Waiting /\ D \cap Waiting = {}
  <2>1. Waiting' = Waiting  BY <1>1 DEF Waiting
  <2> QED BY <1>2, <1>5, <2>1, WorkFacts DEF Held
<1> HIDE DEF D
<1>9. WorkTypes'  BY <1>1, <1>3, <1>4 DEF WorkInv, WorkTypes
<1>10. QueueInPhase'
  <2>1. QueueInPhase  BY DEF WorkInv
  <2> QED BY ONLY <1>1, <2>1 DEF QueueInPhase
<1>11. WorkersInPhase'  BY <1>1 DEF WorkInv, WorkersInPhase
<1>12. QueueHolds'
  <2>1. \A i \in Items : item[i].where \notin {"taken", "gone"} =>
            future'[i] = future[i] /\ counted'[i] = counted[i]
    BY <1>3, <1>5 DEF Settles
  <2>2. QueueHolds /\ Waiting \subseteq Items  BY WorkFacts DEF WorkInv
  <2> QED BY ONLY <1>1, <1>8, <2>1, <2>2 DEF QueueHolds
<1>13. WorkersHold'
  <2>1. \A i \in Items : item[i].where \in {"taken", "gone"} =>
            /\ item'[i].where \in {"taken", "gone"} /\ item'[i].queue = item[i].queue
            /\ future[i] # "pending" => future'[i] # "pending"
    BY <1>1, <1>3 DEF Settles
  <2>2. \A k \in Cycles, w \in Workers :
            /\ worker'[k][w] = worker[k][w]
            /\ inflight'[k][w] = inflight[k][w] \/ k <= cycle
            /\ Held(k, w)' \subseteq Held(k, w)
    <3>1. cycle <= cycle  BY <1>2, WorkFacts
    <3> QED BY <1>1, <1>4, <1>6, <3>1 DEF Held
  <2> QED BY ONLY LifeInv, WorkInv, <1>1, <2>1, <2>2, HoldLess
<1>14. SlotsFollow'  BY <1>1, WorkFacts DEF SlotsFollow
<1>15. Ledger'
  <2>1. ASSUME NEW i \in Items, item[i].queue \notin gaveUp, i \in D
        PROVE  Unanswered(i) /\ ~Unanswered(i)'
    <3>1. cycle \notin gaveUp  BY <1>5, <2>1
    <3>2. \A w \in Workers : worker[cycle][w].pc = "done"
      <4>1. cycle <= cycle  BY <1>2, WorkFacts
      <4> QED BY <1>2, <3>1, <4>1 DEF WorkInv, WorkersInPhase
    <3>3. Unanswered(i)  BY <1>2, <1>5, <2>1, <3>2 DEF Unanswered, Owed, Held
    <3>4. \A w \in Workers : Batch(cycle, w) = {}  BY <1>2, <3>2, WorkFacts DEF Busy
    <3>5. \A k \in Cycles, w \in Workers : k # cycle => i \notin Held(k, w)
      BY <1>5, <2>1, WorkFacts
    <3>6. \A k \in Cycles, w \in Workers : i \notin Held(k, w)'
      BY <1>6, <3>4, <3>5 DEF Held
    <3> QED BY <1>8, <2>1, <3>3, <3>6 DEF Unanswered, Owed
  <2>2. ASSUME NEW i \in Items, i \notin D PROVE Unanswered(i)' <=> Unanswered(i)
    <3>1. \A k \in Cycles, w \in Workers : i \in Held(k, w)' <=> i \in Held(k, w)
      BY <1>6, <1>7, <2>2 DEF Held
    <3> QED BY <1>1, <1>8, <3>1 DEF Unanswered, Owed
  <2>3. \A i \in Items : item'[i].queue = item[i].queue  BY <1>1
  <2>4. "cancelled" \in Answers /\ "failed" \in Counters  BY DEF Answers, Counters
  <2> QED BY <1>1, <1>3, <2>1, <2>2, <2>3, <2>4, LedgerMoves
<1>16. Reachable'
  <2> SUFFICES ASSUME NEW i \in Items, future'[i] = "pending"
               PROVE  i \in Waiting' \/ i \in unpublished'
    BY <1>1 DEF Reachable
  <2>1. future[i] = "pending" /\ i \notin D  BY <1>3 DEF Settles
  <2>2. \/ i \in Waiting \/ i \in unpublished \/ \E w \in Workers : i \in Held(cycle, w)
    BY <1>2, <2>1 DEF WorkInv, Reachable
  <2>3. ASSUME NEW w \in Workers, i \in Held(cycle, w) PROVE i \in P
    <3>1. i \in Batch(cycle, w) /\ Busy(cycle, w)
      BY <1>2, <1>7, <2>1, <2>3, WorkFacts DEF Held
    <3>2. worker[cycle][w].pc \in {"item", "walk", "narrow"} => Slot(cycle, w) = Batch(cycle, w)
      BY <1>2 DEF WorkInv, SlotsFollow, Slot, Batch
    <3>3. worker[cycle][w].pc = "publish"  BY <1>7, <2>1, <3>1, <3>2 DEF Busy
    <3> QED BY <3>1, <3>3
  <2> QED BY <1>1, <1>8, <2>2, <2>3
<1> QED BY ONLY <1>9, <1>10, <1>11, <1>12, <1>13, <1>14, <1>15, <1>16 DEF WorkInv

-----------------------------------------------------------------------------
(* Submission.                                                             *)

\* The next item is one that was not submitted yet.
LEMMA NextIsNew == ASSUME More PROVE NextItem \in Items /\ item[NextItem].where = "new"
<1> DEFINE U == {i \in Items : item[i].where = "new"}
           R == OpToRel(<, Nat)
<1>1. U # {} /\ U \subseteq Nat  BY RunnerAssumption, FS_CardinalityType DEF More
<1>2. \A i, j \in Nat : i < j => <<i, j>> \in R  BY DEF OpToRel
<1>3. \E n \in U : \A m \in U : ~(<<m, n>> \in R)
  <2>1. IsWellFoundedOn(R, Nat)  BY NatLessThanWellFounded
  <2> HIDE DEF U, R
  <2> QED BY <1>1, <2>1, WFMin
<1> HIDE DEF R
<1>4. PICK n \in U : \A m \in U : ~(<<m, n>> \in R)  BY <1>3
<1>5. \A m \in U : n <= m
  <2> SUFFICES ASSUME NEW m \in U PROVE n <= m  OBVIOUS
  <2>1. m \in Nat /\ n \in Nat /\ ~(m < n)  BY <1>1, <1>2, <1>4
  <2> QED BY <2>1
<1>6. n \in Items /\ item[n].where = "new"
      /\ \A j \in Items : item[j].where = "new" => n <= j
  BY <1>4, <1>5
<1> QED BY <1>6 DEF NextItem

LEMMA PutKeeps ==
    ASSUME LifeInv, WorkInv, NEW i \in Items, item[i].where \in {"new", "checked"},
           NEW from \in Nat, NEW evict \in BOOLEAN, Put(i, from, evict),
           UNCHANGED <<life, inflight, worker, unpublished>>
    PROVE  WorkInv'
<1> DEFINE adm == ~queue.closed /\ (Full => evict)
           E == IF adm /\ Full THEN {Head(queue.items)} ELSE {}
           new == [where |-> "queued", from |-> from, queue |-> queue.owner]
<1>1. /\ item' = [j \in Items |-> IF j = i /\ adm THEN new
                                 ELSE IF j = i \/ j \in E THEN [item[j] EXCEPT !.where = "gone"]
                                 ELSE item[j]]
      /\ queue' = IF adm THEN [queue EXCEPT !.items = Append(IF Full THEN Tail(queue.items)
                                                            ELSE queue.items, i)]
                  ELSE queue
      /\ future' = [ResolveAll(E, "cancelled") EXCEPT ![i] = IF adm THEN "pending" ELSE @]
      /\ counted' = ChargeAll(E, "queue_evicted")
  BY DEF Put
<1>2. /\ op' = op /\ cycle' = cycle /\ slots' = slots /\ gaveUp' = gaveUp /\ stopping' = stopping
      /\ threads' = threads /\ inflight' = inflight /\ worker' = worker /\ unpublished' = unpublished
  BY DEF life
<1>3. /\ queue \in [closed : BOOLEAN, items : Seq(Items), injected : BOOLEAN, owner : Nat]
      /\ queue.items \in Seq(Items) /\ IsInjective(queue.items) /\ queue.owner \in Nat
      /\ i \notin Waiting
  BY DEF WorkInv, WorkTypes, QueueHolds
<1>4. Full => queue.items # <<>>  BY RunnerAssumption DEF Full
<1>5. /\ E \subseteq Waiting /\ i \notin E
      /\ adm => LET s == IF Full THEN Tail(queue.items) ELSE queue.items
                IN  s \in Seq(Items) /\ IsInjective(s) /\ ToSet(s) = Waiting \ E
      /\ ~adm => E = {}
  BY <1>3, <1>4, HeadAndTail DEF Waiting
<1> HIDE DEF E
<1>6. /\ queue' \in [closed : BOOLEAN, items : Seq(Items), injected : BOOLEAN, owner : Nat]
      /\ IsInjective(queue'.items)
      /\ Waiting' = IF adm THEN (Waiting \ E) \cup {i} ELSE Waiting
      /\ queue'.owner = queue.owner /\ queue'.closed = queue.closed
  <2>1. CASE ~adm
    <3>1. queue' = queue  BY <1>1, <2>1
    <3> HIDE DEF adm
    <3> QED BY <1>3, <2>1, <3>1 DEF Waiting
  <2>2. CASE adm
    <3> DEFINE s == IF Full THEN Tail(queue.items) ELSE queue.items
               a == Append(s, i)
               q == [queue EXCEPT !.items = a]
    <3>1. s \in Seq(Items) /\ IsInjective(s) /\ ToSet(s) = Waiting \ E  BY <1>5, <2>2
    <3>2. queue' = q  BY <1>1, <2>2
    <3> HIDE DEF s
    <3>3. a \in Seq(Items) /\ IsInjective(a) /\ ToSet(a) = (Waiting \ E) \cup {i}
      BY <1>3, <3>1, AppendOne
    <3> HIDE DEF a
    <3>4. q \in [closed : BOOLEAN, items : Seq(Items), injected : BOOLEAN, owner : Nat]
          /\ q.items = a /\ q.owner = queue.owner
      BY <1>3, <3>3
    <3>5. q.closed = queue.closed  BY <1>3
    <3> HIDE DEF q, adm
    <3> QED BY <2>2, <3>2, <3>3, <3>4, <3>5 DEF Waiting
  <2> QED BY <2>1, <2>2
<1>7. adm => ~queue.closed  OBVIOUS
<1> HIDE DEF adm
<1>8. /\ item' \in [Items -> ItemRecs]
      /\ \A j \in Items : j # i /\ j \notin E => item'[j] = item[j]
      /\ \A j \in E : item'[j].where = "gone" /\ item'[j].queue = item[j].queue
      /\ adm => item'[i].where = "queued" /\ item'[i].queue = queue.owner
      /\ ~adm => item'[i].where = "gone"
  <2> DEFINE gone(j) == [item[j] EXCEPT !.where = "gone"]
  <2>1. \A j \in Items : item[j] \in ItemRecs  BY DEF WorkInv, WorkTypes, ItemRecs
  <2>2. \A j \in Items : gone(j) \in ItemRecs /\ gone(j).where = "gone" /\ gone(j).queue = item[j].queue
    BY <2>1, Rehomed
  <2>3. new \in ItemRecs /\ new.where = "queued" /\ new.queue = queue.owner
    BY <1>3 DEF ItemRecs
  <2>4. item' = [j \in Items |-> IF j = i /\ adm THEN new
                               ELSE IF j = i \/ j \in E THEN gone(j) ELSE item[j]]
    BY <1>1
  <2>5. E \subseteq Items  BY <1>5, WorkFacts
  <2> HIDE DEF gone, new
  <2> QED BY ONLY <1>5, <2>1, <2>2, <2>3, <2>4, <2>5, i \in Items
<1>9. /\ future' \in [Items -> {"none", "pending"} \cup Answers]
      /\ counted' \in [Items -> SUBSET Counters]
      /\ \A j \in Items : j # i /\ j \notin E => future'[j] = future[j] /\ counted'[j] = counted[j]
      /\ \A j \in E : /\ future'[j] = (IF future[j] = "pending" THEN "cancelled" ELSE future[j])
                      /\ counted'[j] = counted[j] \cup {"queue_evicted"}
      /\ future'[i] = (IF adm THEN "pending" ELSE future[i])
      /\ counted'[i] = counted[i]
  <2> DEFINE f == [j \in Items |-> IF j \in E /\ future[j] = "pending" THEN "cancelled" ELSE future[j]]
  <2>1. /\ \A j \in Items : future[j] \in {"none", "pending"} \cup Answers /\ counted[j] \subseteq Counters
        /\ "cancelled" \in Answers /\ "queue_evicted" \in Counters
    BY DEF WorkInv, WorkTypes, Answers, Counters
  <2>2. future' = [f EXCEPT ![i] = IF adm THEN "pending" ELSE f[i]]  BY <1>1 DEF ResolveAll
  <2>3. counted' = [j \in Items |-> counted[j] \cup (IF j \in E THEN {"queue_evicted"} ELSE {})]
    BY <1>1 DEF ChargeAll
  <2>4. E \subseteq Items  BY <1>5, WorkFacts
  <2>5. f \in [Items -> {"none", "pending"} \cup Answers]  BY <2>1
  <2>6. /\ future' \in [Items -> {"none", "pending"} \cup Answers]
        /\ \A j \in Items : j # i => future'[j] = f[j]
        /\ future'[i] = (IF adm THEN "pending" ELSE f[i])
    BY ONLY <2>2, <2>5, i \in Items
  <2>7. \A j \in Items : counted'[j] = (IF j \in E THEN counted[j] \cup {"queue_evicted"} ELSE counted[j])
    BY <2>3
  <2>8. counted' \in [Items -> SUBSET Counters]  BY <2>1, <2>3
  <2> QED BY <1>5, <2>4, <2>6, <2>7, <2>8
<1>10. WorkTypes'
  BY <1>2, <1>6, <1>8, <1>9 DEF WorkInv, WorkTypes, ItemRecs
<1>11. QueueInPhase'
  <2>1. queue'.closed => queue'.items = <<>>  BY <1>1, <1>6, <1>7 DEF WorkInv, QueueInPhase
  <2>2. QueueInPhase  BY DEF WorkInv
  <2> QED BY ONLY <1>2, <1>6, <2>1, <2>2 DEF QueueInPhase
<1>12. WorkersInPhase'  BY <1>2 DEF WorkInv, WorkersInPhase
<1>13. E \subseteq Items /\ \A j \in E : item[j].where = "queued" /\ future[j] = "pending"
  BY <1>5, WorkFacts DEF WorkInv, QueueHolds
<1>14. future[i] = "none" /\ counted[i] = {}  BY DEF WorkInv, QueueHolds
<1>15. QueueHolds'
  <2>1. QueueHolds /\ Waiting \subseteq Items  BY WorkFacts DEF WorkInv
  <2>2. ASSUME NEW j \in Waiting'
        PROVE  item'[j].where = "queued" /\ item'[j].queue = queue'.owner /\ future'[j] = "pending"
    <3>1. CASE j = i  BY <1>3, <1>6, <1>8, <1>9, <2>2, <3>1
    <3>2. CASE j # i
      <4>1. j \in Waiting /\ j \notin E  BY <1>5, <1>6, <2>2, <3>2
      <4> QED BY <1>6, <1>8, <1>9, <2>1, <3>2, <4>1 DEF QueueHolds
    <3> QED BY <3>1, <3>2
  <2>3. ASSUME NEW j \in Items, item'[j].where \in {"new", "checked"}
        PROVE  future'[j] = "none" /\ counted'[j] = {}
    <3>1. j # i /\ j \notin E  BY <1>8, <2>3
    <3> QED BY <1>8, <1>9, <2>1, <2>3, <3>1 DEF QueueHolds
  <2> QED BY <1>6, <2>2, <2>3 DEF QueueHolds
<1>16. \A k \in Cycles, w \in Workers : /\ Held(k, w)' = Held(k, w)
                                     /\ \A j \in Items : Owed(j, k, w)' <=> Owed(j, k, w)
  BY <1>2 DEF Held, Batch, Slot, Owed
<1>17. WorkersHold'
  <2>1. \A j \in Items : item[j].where \in {"taken", "gone"} =>
            /\ item'[j].where \in {"taken", "gone"} /\ item'[j].queue = item[j].queue
            /\ future[j] # "pending" => future'[j] # "pending"
    BY <1>8, <1>9, <1>13
  <2>2. \A k \in Cycles, w \in Workers :
            /\ worker'[k][w] = worker[k][w] /\ inflight'[k][w] = inflight[k][w]
            /\ Held(k, w)' \subseteq Held(k, w)
    BY <1>2, <1>16
  <2> QED BY ONLY LifeInv, WorkInv, <1>2, <2>1, <2>2, HoldLess
<1>18. SlotsFollow'  BY <1>2 DEF WorkInv, SlotsFollow
<1>19. Ledger'
  <2> SUFFICES ASSUME NEW j \in Items, future'[j] # "none", item'[j].queue \notin gaveUp'
               PROVE  \/ Unanswered(j)' /\ future'[j] = "pending" /\ counted'[j] = {}
                      \/ ~Unanswered(j)' /\ Answered(j)'
    BY DEF Ledger
  <2>1. CASE j = i
    <3>1. adm  BY <1>9, <1>14, <2>1
    <3>2. Unanswered(j)'  BY <1>6, <2>1, <3>1 DEF Unanswered
    <3> QED BY <1>9, <1>14, <2>1, <3>1, <3>2
  <2>2. CASE j \in E
    <3>1. item[j].queue \notin gaveUp /\ Unanswered(j) /\ future[j] = "pending" /\ j # i
      BY <1>2, <1>5, <1>8, <1>13, <2>2 DEF Unanswered
    <3>2. counted[j] = {}  BY <3>1 DEF WorkInv, Ledger, Answered, Answers
    <3>3. j \notin Waiting'  BY <1>5, <1>6, <2>2, <3>1
    <3>4. \A k \in Cycles, w \in Workers : j \notin Held(k, w)  BY <1>5, <2>2, WorkFacts
    <3>5. ~Unanswered(j)'  BY <1>16, <3>3, <3>4 DEF Unanswered, Owed
    <3>6. future'[j] = "cancelled" /\ counted'[j] = {"queue_evicted"}  BY <1>9, <2>2, <3>1, <3>2
    <3> QED BY <3>5, <3>6 DEF Answered, Answers, Counters
  <2>3. CASE j # i /\ j \notin E
    <3>1. future'[j] = future[j] /\ counted'[j] = counted[j] /\ item'[j] = item[j]
      BY <1>8, <1>9, <2>3
    <3>2. Unanswered(j)' <=> Unanswered(j)  BY <1>6, <1>16, <2>3 DEF Unanswered
    <3>3. \/ Unanswered(j) /\ future[j] = "pending" /\ counted[j] = {}
          \/ ~Unanswered(j) /\ Answered(j)
      BY <1>2, <3>1 DEF WorkInv, Ledger
    <3> QED BY <3>1, <3>2, <3>3 DEF Answered
  <2> QED BY <2>1, <2>2, <2>3
<1>20. Reachable'
  <2> SUFFICES ASSUME NEW j \in Items, future'[j] = "pending"
               PROVE  \/ j \in Waiting' \/ j \in unpublished'
                      \/ slots # 0 /\ \E w \in Workers : j \in Held(slots, w)
    BY <1>2 DEF Reachable, Held, Batch, Slot
  <2>1. CASE j = i  BY <1>6, <1>9, <1>14, <2>1
  <2>2. CASE j \in E  BY <1>9, <1>13, <2>2
  <2>3. CASE j # i /\ j \notin E
    <3>1. future[j] = "pending"  BY <1>9, <2>3
    <3> QED BY <1>2, <1>6, <2>3, <3>1 DEF WorkInv, Reachable
  <2> QED BY <2>1, <2>2, <2>3
<1> QED BY ONLY <1>10, <1>11, <1>12, <1>15, <1>17, <1>18, <1>19, <1>20 DEF WorkInv

LEMMA WorkSubmitCheck == ASSUME LifeInv, WorkInv, SubmitCheck PROVE WorkInv'
<1> DEFINE n == NextItem
<1>1. /\ UNCHANGED <<op, cycle, slots, gaveUp, stopping, threads, queue, inflight, worker, future,
                     counted, unpublished>>
      /\ item' = [item EXCEPT ![n].where = "checked"]
      /\ n \in Items /\ item[n].where = "new"
  BY NextIsNew DEF SubmitCheck, life, camera
<1> HIDE DEF n
<1>2. /\ item' \in [Items -> ItemRecs]
      /\ \A j \in Items : j # n => item'[j] = item[j]
      /\ item'[n].where = "checked" /\ item'[n].queue = item[n].queue
  <2> DEFINE r == [item[n] EXCEPT !.where = "checked"]
  <2>1. item \in [Items -> ItemRecs]  BY DEF WorkInv, WorkTypes, ItemRecs
  <2>2. r \in ItemRecs /\ r.where = "checked" /\ r.queue = item[n].queue
    BY <1>1, <2>1, Rehomed
  <2>3. item' = [item EXCEPT ![n] = r]  BY <1>1
  <2> HIDE DEF r
  <2> QED BY ONLY <1>1, <2>1, <2>2, <2>3
<1>3. Waiting' = Waiting /\ n \notin Waiting /\ Waiting \subseteq Items
  BY <1>1, WorkFacts DEF Waiting, WorkInv, QueueHolds
<1>4. \A k \in Cycles, w \in Workers : /\ Held(k, w)' = Held(k, w)
                                    /\ \A j \in Items : Owed(j, k, w)' <=> Owed(j, k, w)
  BY <1>1 DEF Held, Batch, Slot, Owed
<1>5. WorkTypes'  BY <1>1, <1>2 DEF WorkInv, WorkTypes, ItemRecs
<1>6. QueueInPhase' /\ WorkersInPhase' /\ SlotsFollow'
  BY <1>1 DEF WorkInv, QueueInPhase, WorkersInPhase, SlotsFollow
<1>7. QueueHolds'  BY <1>1, <1>2, <1>3 DEF WorkInv, QueueHolds
<1>8. WorkersHold'
  <2>1. \A j \in Items : item[j].where \in {"taken", "gone"} =>
            /\ item'[j].where \in {"taken", "gone"} /\ item'[j].queue = item[j].queue
            /\ future[j] # "pending" => future'[j] # "pending"
    BY <1>1, <1>2
  <2>2. \A k \in Cycles, w \in Workers :
            /\ worker'[k][w] = worker[k][w] /\ inflight'[k][w] = inflight[k][w]
            /\ Held(k, w)' \subseteq Held(k, w)
    BY <1>1, <1>4
  <2> QED BY ONLY LifeInv, WorkInv, <1>1, <2>1, <2>2, HoldLess
<1>9. Ledger'
  <2>1. \A j \in Items : Unanswered(j)' <=> Unanswered(j)  BY <1>3, <1>4 DEF Unanswered
  <2>2. \A j \in Items : item'[j].queue = item[j].queue  BY <1>2
  <2> QED BY <1>1, <2>1, <2>2 DEF WorkInv, Ledger, Answered
<1>10. Reachable'  BY <1>1, <1>3 DEF WorkInv, Reachable, Held, Batch, Slot
<1> QED BY ONLY <1>5, <1>6, <1>7, <1>8, <1>9, <1>10 DEF WorkInv

LEMMA WorkSubmission ==
    ASSUME LifeInv, CameraTypes, stale \subseteq [cam : Cameras, cycle : Nat], WorkInv, Submission
    PROVE  WorkInv'
<1>1. CASE SubmitCheck  BY <1>1, WorkSubmitCheck
<1>2. ASSUME NEW c \in Cameras, NEW evict \in BOOLEAN, Publish(c, evict) PROVE WorkInv'
  <2>1. NextItem \in Items /\ item[NextItem].where = "new"  BY <1>2, NextIsNew DEF Publish
  <2>2. actor[c].cycle \in Nat  BY DEF CameraTypes, Actors
  <2>3. Put(NextItem, actor[c].cycle, evict) /\ UNCHANGED <<life, inflight, worker, unpublished>>
    BY <1>2 DEF Publish
  <2> QED BY <2>1, <2>2, <2>3, PutKeeps
<1>3. ASSUME NEW s \in stale, NEW evict \in BOOLEAN, PublishLate(s, evict) PROVE WorkInv'
  <2>1. NextItem \in Items /\ item[NextItem].where = "new"  BY <1>3, NextIsNew DEF PublishLate
  <2>2. s.cycle \in Nat  OBVIOUS
  <2>3. Put(NextItem, s.cycle, evict) /\ UNCHANGED <<life, inflight, worker, unpublished>>
    BY <1>3 DEF PublishLate
  <2> QED BY <2>1, <2>2, <2>3, PutKeeps
<1>4. ASSUME NEW i \in Items, NEW evict \in BOOLEAN, SubmitPut(i, evict) PROVE WorkInv'
  <2>1. item[i].where = "checked" /\ Put(i, 0, evict)
        /\ UNCHANGED <<life, inflight, worker, unpublished>>
    BY <1>4 DEF SubmitPut
  <2> QED BY <2>1, PutKeeps
<1> QED BY <1>1, <1>2, <1>3, <1>4 DEF Submission

-----------------------------------------------------------------------------
(* The worker loop.                                                        *)

BusyPlaces == {"publish", "item", "walk", "narrow"}

\* What a worker with this record and this slot holds, and has still to answer.
Holds(rec, slot) == ToSet(rec.batch) \cup ToSet(slot)
Owes(i, rec, slot) == i \in Holds(rec, slot) /\ ~(rec.pc = "narrow" /\ i = Head(rec.batch))

\* Where a worker writes.
At(k, w, rec, slot) ==
    /\ \A j \in Cycles, v \in Workers :
          /\ worker'[j][v] = (IF j = k /\ v = w THEN rec ELSE worker[j][v])
          /\ inflight'[j][v] = (IF j = k /\ v = w THEN slot ELSE inflight[j][v])
    /\ worker' \in [Cycles -> [Workers -> WorkerRecs]]
    /\ inflight' \in [Cycles -> [Workers -> Seq(Items)]]

\* The record a worker is left with is one of a worker of the live cycle.
RecordFits(rec) ==
    /\ rec.batch # <<>> <=> rec.pc \in BusyPlaces
    /\ IsInjective(rec.batch)
    /\ rec.pc = "narrow" => future'[Head(rec.batch)] # "pending"

SlotFits(k, rec, slot) ==
    slots = k =>
        /\ rec.pc \in {"item", "walk", "narrow"} => slot = rec.batch
        /\ rec.pc \in {"waiting", "publish"} => slot = <<>>
        /\ rec.pc = "top" /\ ~stopping[k] => slot = <<>>

\* The worker of cycle k answers S and takes T: what becomes of the queue,
QueueMoves(k, S, T) ==
    /\ queue'.owner = queue.owner /\ queue'.closed = queue.closed /\ IsInjective(queue'.items)
    /\ queue.items = <<>> => queue'.items = <<>>
    /\ Waiting' \subseteq Waiting \ (S \cup T)
    /\ slots # k => Waiting' = Waiting /\ T = {}

\* of the items,
ItemsMove(k, S, T) ==
    /\ \A i \in Items :
          /\ item'[i].queue = item[i].queue
          /\ item'[i].where = item[i].where \/ item'[i].where \in {"taken", "gone"}
          /\ item[i].where \in {"taken", "gone"} => item'[i].where \in {"taken", "gone"}
          /\ i \in Waiting' => item'[i].where = item[i].where
    /\ \A i \in S : i \notin Waiting' /\ item[i].where \notin {"new", "checked"}
    /\ \A i \in T : item'[i].where \in {"taken", "gone"} /\ item'[i].queue = k

\* and of what is owed.
DebtsMove(k, w, rec, slot, S, T) ==
    /\ Holds(rec, slot) \subseteq Held(k, w) \cup T
    /\ slots # k => S \subseteq Held(k, w)
    /\ slots = k => \A i \in Items :
          /\ i \in S => (i \in Waiting \/ Owed(i, k, w)) /\ ~Owes(i, rec, slot)
          /\ i \notin S => ((i \in Waiting' \/ Owes(i, rec, slot)) <=> (i \in Waiting \/ Owed(i, k, w)))

LEMMA WorkerMoves ==
    ASSUME LifeInv, WorkInv, NEW k \in Cycles, NEW w \in Workers,
           worker[k][w].pc \notin {"none", "done"},
           UNCHANGED life, unpublished' = unpublished,
           NEW rec \in WorkerRecs, NEW slot \in Seq(Items), At(k, w, rec, slot),
           RecordFits(rec), SlotFits(k, rec, slot),
           NEW S \in SUBSET Items, NEW T \in SUBSET Waiting,
           NEW outcome \in Answers, NEW counter \in Counters,
           outcome = "result" <=> counter = "walked",
           Settles(S, outcome, counter), WorkTypes',
           QueueMoves(k, S, T), ItemsMove(k, S, T), DebtsMove(k, w, rec, slot, S, T)
    PROVE  WorkInv'
<1>1. /\ op' = op /\ cycle' = cycle /\ slots' = slots /\ gaveUp' = gaveUp /\ stopping' = stopping
      /\ threads' = threads
  BY DEF life
<1>a. \A i \in Items :
          /\ item'[i].queue = item[i].queue
          /\ item[i].where \in {"taken", "gone"} => item'[i].where \in {"taken", "gone"}
  BY ONLY ItemsMove(k, S, T) DEF ItemsMove
<1>b. \A i \in Items : i \in Waiting' => item'[i].where = item[i].where /\ i \notin S
  BY ONLY ItemsMove(k, S, T) DEF ItemsMove
<1>c. \A i \in Items : item'[i].where \in {"new", "checked"} =>
          item[i].where \in {"new", "checked"} /\ i \notin S
  BY ONLY ItemsMove(k, S, T) DEF ItemsMove
<1>d. /\ Waiting' \subseteq Waiting \ (S \cup T) /\ Waiting \subseteq Items
      /\ queue'.owner = queue.owner /\ IsInjective(queue'.items) /\ queue'.closed = queue.closed
      /\ queue.items = <<>> => queue'.items = <<>>
      /\ slots # k => Waiting' = Waiting /\ T = {}
  BY WorkFacts DEF QueueMoves
<1>e. \A i \in Items :
          /\ future[i] # "pending" \/ i \notin S => future'[i] = future[i]
          /\ i \notin S => counted'[i] = counted[i]
          /\ future'[i] = "pending" => future[i] = "pending" /\ i \notin S
  BY ONLY Settles(S, outcome, counter), outcome \in Answers DEF Settles, Answers
<1>f. \A j \in Cycles, v \in Workers :
          /\ j = k /\ v = w => worker'[j][v] = rec /\ inflight'[j][v] = slot
          /\ ~(j = k /\ v = w) => worker'[j][v] = worker[j][v] /\ inflight'[j][v] = inflight[j][v]
  BY DEF At
<1>2. k <= cycle /\ (slots = k \/ k \in gaveUp)  BY LiveOrGivenUp DEF WorkInv
<1>3. \A j \in Cycles, v \in Workers :
          /\ Held(j, v)' = IF j = k /\ v = w THEN Holds(rec, slot) ELSE Held(j, v)
          /\ \A i \in Items : Owed(i, j, v)' <=> IF j = k /\ v = w THEN Owes(i, rec, slot) ELSE Owed(i, j, v)
          /\ j = k /\ v = w => (Busy(j, v)' <=> rec.pc \in BusyPlaces)
  BY DEF At, Held, Batch, Slot, Holds, Owed, Owes, Busy, BusyPlaces
<1>4. QueueInPhase'
  <2>1. QueueInPhase  BY DEF WorkInv
  <2> QED BY ONLY <1>1, <1>d, <2>1 DEF QueueInPhase
<1>5. WorkersInPhase'
  <2>1. WorkersInPhase  BY DEF WorkInv
  <2>2. /\ ~(k > cycle)
        /\ ~(k <= cycle /\ k \notin gaveUp /\ (k < cycle \/ w \notin threads))
    BY <2>1, <1>2, WorkFacts DEF WorkersInPhase
  <2>3. \A j \in Cycles, v \in Workers : ~(j = k /\ v = w) => worker'[j][v] = worker[j][v]
    BY DEF At
  <2> QED BY ONLY <1>1, <2>1, <2>2, <2>3 DEF WorkersInPhase
<1>6. QueueHolds'
  <2>1. QueueHolds /\ Waiting \subseteq Items  BY WorkFacts DEF WorkInv
  <2>2. ASSUME NEW i \in Waiting'
        PROVE  item'[i].where = "queued" /\ item'[i].queue = queue'.owner /\ future'[i] = "pending"
    <3>1. i \in Waiting /\ i \in Items /\ i \notin S  BY <1>b, <1>d, <2>2
    <3>2. item[i].where = "queued" /\ item[i].queue = queue.owner /\ future[i] = "pending"
      BY <2>1, <3>1 DEF QueueHolds
    <3>3. item'[i].queue = item[i].queue /\ item'[i].where = item[i].where  BY <1>a, <1>b, <2>2, <3>1
    <3>4. future'[i] = future[i]  BY <1>e, <3>1
    <3> QED BY ONLY <1>d, <3>2, <3>3, <3>4
  <2>3. ASSUME NEW i \in Items, item'[i].where \in {"new", "checked"}
        PROVE  future'[i] = "none" /\ counted'[i] = {}
    <3>1. i \in Items /\ item[i].where \in {"new", "checked"} /\ i \notin S  BY <1>c, <2>3
    <3> QED BY ONLY <1>e, <2>1, <3>1 DEF QueueHolds
  <2> QED BY ONLY <1>d, <2>2, <2>3 DEF QueueHolds
<1>7. WorkersHold'
  <2>1. \A i \in Items : item[i].where \in {"taken", "gone"} =>
            /\ item'[i].where \in {"taken", "gone"} /\ item'[i].queue = item[i].queue
            /\ future[i] # "pending" => future'[i] # "pending"
    BY <1>a, <1>e
  <2>2. T \subseteq Items /\ \A i \in T : item[i].where = "queued"
    BY WorkFacts DEF WorkInv, QueueHolds
  <2>0. Holds(rec, slot) \subseteq Held(k, w) \cup T  BY DEF DebtsMove
  <2>3. ASSUME NEW j \in Cycles, NEW v \in Workers
        PROVE  /\ \/ worker'[j][v] = worker[j][v]
                  \/ /\ worker'[j][v].batch # <<>> <=> Busy(j, v)'
                     /\ IsInjective(worker'[j][v].batch)
                     /\ worker'[j][v].pc = "narrow" => future'[Head(worker'[j][v].batch)] # "pending"
               /\ inflight'[j][v] = inflight[j][v] \/ j <= cycle
               /\ Held(j, v)' \subseteq Held(j, v) \cup (IF j = k /\ v = w THEN T ELSE {})
    <3>1. CASE j = k /\ v = w
      <4>1. worker'[j][v] = rec  BY <3>1 DEF At
      <4> QED BY <1>2, <1>3, <2>0, <3>1, <4>1 DEF RecordFits
    <3>2. CASE ~(j = k /\ v = w)  BY <1>3, <1>f, <3>2
    <3> QED BY <3>1, <3>2
  <2>4. \A i \in T : item[i].where = "queued" /\ item'[i].where \in {"taken", "gone"} /\ item'[i].queue = k
    BY <2>2 DEF ItemsMove
  <2> QED BY ONLY LifeInv, WorkInv, k \in Cycles, w \in Workers, <1>1, <2>1, <2>2, <2>3, <2>4, HoldMoves
<1>8. SlotsFollow'
  <2>1. SlotsFollow  BY DEF WorkInv
  <2> SUFFICES ASSUME NEW j \in Cycles, NEW v \in Workers, slots = j
               PROVE  /\ worker'[j][v].pc \in {"item", "walk", "narrow"} => inflight'[j][v] = worker'[j][v].batch
                      /\ worker'[j][v].pc \in {"waiting", "publish"} => inflight'[j][v] = <<>>
                      /\ worker'[j][v].pc = "top" /\ ~stopping[j] => inflight'[j][v] = <<>>
    BY <1>1 DEF SlotsFollow
  <2>2. CASE j = k /\ v = w  BY <1>f, <2>2 DEF SlotFits
  <2>3. CASE ~(j = k /\ v = w)
    <3>1. worker'[j][v] = worker[j][v] /\ inflight'[j][v] = inflight[j][v]  BY <1>f, <2>3
    <3>2. /\ worker[j][v].pc \in {"item", "walk", "narrow"} => inflight[j][v] = worker[j][v].batch
          /\ worker[j][v].pc \in {"waiting", "publish"} => inflight[j][v] = <<>>
          /\ worker[j][v].pc = "top" /\ ~stopping[j] => inflight[j][v] = <<>>
      BY <2>1 DEF SlotsFollow
    <3> QED BY ONLY <3>1, <3>2
  <2> QED BY <2>2, <2>3
<1>9. ASSUME NEW i \in Items, item[i].queue \notin gaveUp
      PROVE  /\ i \in S => Unanswered(i) /\ ~Unanswered(i)'
             /\ i \notin S => (Unanswered(i)' <=> Unanswered(i))
  <2>1. CASE slots # k
    <3>1. k \in gaveUp /\ Waiting' = Waiting /\ S \subseteq Held(k, w) /\ Holds(rec, slot) \subseteq Held(k, w)
      BY <1>2, <1>d, <2>1 DEF DebtsMove
    <3>2. i \notin Held(k, w) /\ i \notin S  BY <1>9, <2>1, <3>1, WorkFacts
    <3>3. i \notin Holds(rec, slot)  BY <3>1, <3>2
    <3> QED BY <1>3, <3>1, <3>2, <3>3 DEF Unanswered, Owed, Owes
  <2>2. CASE slots = k
    <3>1. ASSUME i \in S PROVE Unanswered(i) /\ ~Unanswered(i)'
      <4>1. i \in Waiting \/ Owed(i, k, w)  BY <2>2, <3>1 DEF DebtsMove
      <4>2. i \notin Waiting' /\ ~Owes(i, rec, slot)  BY <1>b, <2>2, <3>1 DEF DebtsMove
      <4>3. ASSUME NEW j \in Cycles, NEW v \in Workers, ~(j = k /\ v = w) PROVE ~Owed(i, j, v)
        <5>1. i \in Waiting \/ i \in Held(k, w)  BY <4>1 DEF Owed
        <5>2. i \notin Held(j, v)
          <6>1. CASE i \in Waiting  BY <6>1, WorkFacts
          <6>2. CASE i \in Held(k, w) /\ j # k
            <7>1. item[i].queue = k  BY <6>2, WorkFacts
            <7> QED BY <6>2, <7>1, WorkFacts
          <6>3. CASE i \in Held(k, w) /\ j = k /\ v # w  BY <6>3 DEF WorkInv, WorkersHold
          <6> QED BY <4>3, <5>1, <6>1, <6>2, <6>3
        <5> QED BY <5>2 DEF Owed
      <4>4. Unanswered(i)  BY <4>1 DEF Unanswered
      <4>5. ~Unanswered(i)'  BY <1>3, <4>2, <4>3 DEF Unanswered
      <4> QED BY <4>4, <4>5
    <3>2. ASSUME i \notin S PROVE Unanswered(i)' <=> Unanswered(i)
      <4>1. (i \in Waiting' \/ Owes(i, rec, slot)) <=> (i \in Waiting \/ Owed(i, k, w))
        BY <2>2, <3>2 DEF DebtsMove
      <4>2. Unanswered(i)' <=> \/ i \in Waiting' \/ Owes(i, rec, slot)
                              \/ \E j \in Cycles, v \in Workers : ~(j = k /\ v = w) /\ Owed(i, j, v)
        BY <1>3 DEF Unanswered
      <4>3. Unanswered(i) <=> \/ i \in Waiting \/ Owed(i, k, w)
                             \/ \E j \in Cycles, v \in Workers : ~(j = k /\ v = w) /\ Owed(i, j, v)
        BY DEF Unanswered
      <4> QED BY <4>1, <4>2, <4>3
    <3> QED BY <3>1, <3>2
  <2> QED BY <2>1, <2>2
<1>10. Ledger'
  <2>1. gaveUp \subseteq gaveUp' /\ \A i \in Items : item'[i].queue = item[i].queue
    BY ONLY <1>1, <1>a
  <2> QED BY ONLY WorkInv, S \in SUBSET Items, outcome \in Answers, counter \in Counters,
                  outcome = "result" <=> counter = "walked", Settles(S, outcome, counter),
                  <1>9, <2>1, LedgerMoves
<1>11. Reachable'
  <2> SUFFICES ASSUME NEW i \in Items, future'[i] = "pending", i \notin Waiting', i \notin unpublished
               PROVE  \E j \in Cycles, v \in Workers : j = slots /\ i \in Held(j, v)'
    <3>1. \A i \in Items : future'[i] = "pending" /\ i \notin Waiting' /\ i \notin unpublished =>
              slots # 0 /\ \E v \in Workers : i \in ToSet(worker'[slots][v].batch) \cup ToSet(inflight'[slots][v])
      <4> TAKE i \in Items
      <4> HAVE future'[i] = "pending" /\ i \notin Waiting' /\ i \notin unpublished
      <4>1. PICK j \in Cycles, v \in Workers : j = slots /\ i \in Held(j, v)'  OBVIOUS
      <4>2. i \in ToSet(worker'[j][v].batch) \cup ToSet(inflight'[j][v])
        BY <4>1 DEF Held, Batch, Slot
      <4> QED BY <4>1, <4>2, WorkFacts
    <3> QED BY ONLY <1>1, <3>1, unpublished' = unpublished DEF Reachable, Held, Batch, Slot
  <2>1. future[i] = "pending" /\ i \notin S  BY <1>e
  <2>2. slots # 0 => slots \in Cycles
    BY RunnerAssumption DEF LifeInv, LifeTypes, Tracked, Cycles
  <2>3. i \in Waiting \/ \E j \in Cycles, v \in Workers : j = slots /\ i \in Held(j, v)
    BY <2>1, <2>2 DEF WorkInv, Reachable
  <2>4. CASE slots # k
    <3>0. i \notin Waiting  BY <1>d, <2>4
    <3>1. PICK j \in Cycles, v \in Workers : j = slots /\ i \in Held(j, v)  BY <2>3, <3>0
    <3>2. Held(j, v)' = Held(j, v)  BY <1>3, <2>4, <3>1
    <3> QED BY <3>1, <3>2
  <2>5. CASE slots = k
    <3>1. ASSUME i \in Held(k, w) PROVE Owed(i, k, w)
      BY <2>1, <3>1 DEF Owed, WorkInv, WorkersHold
    <3>2. Owes(i, rec, slot) => i \in Held(k, w)'  BY <1>3 DEF Owes
    <3>3. Owes(i, rec, slot) <=> i \in Waiting \/ Owed(i, k, w)
      BY <2>1, <2>5 DEF DebtsMove
    <3>4. CASE i \in Waiting \/ i \in Held(k, w)  BY <2>5, <3>1, <3>2, <3>3, <3>4
    <3>5. CASE i \notin Waiting /\ i \notin Held(k, w)
      <4>1. PICK v \in Workers : i \in Held(k, v)  BY <2>3, <2>5, <3>5
      <4>2. v # w  BY <3>5, <4>1
      <4>3. Held(k, v)' = Held(k, v)  BY <1>3, <4>2
      <4> QED BY <2>5, <4>1, <4>3
    <3> QED BY <3>4, <3>5
  <2> QED BY <2>4, <2>5
<1> QED BY ONLY WorkTypes', <1>4, <1>5, <1>6, <1>7, <1>8, <1>10, <1>11 DEF WorkInv

\* Records and slots that a step writes.
LEMMA RecordOf ==
    ASSUME NEW r \in WorkerRecs, NEW p \in Places
    PROVE  /\ [r EXCEPT !.pc = p] \in WorkerRecs
           /\ [r EXCEPT !.pc = p].pc = p /\ [r EXCEPT !.pc = p].batch = r.batch
BY DEF WorkerRecs

LEMMA WritesSlot ==
    ASSUME WorkTypes, NEW k \in Cycles, NEW w \in Workers, NEW rec \in WorkerRecs,
           SetWorker(k, w, rec), NEW slot \in Seq(Items),
           inflight' = [inflight EXCEPT ![k][w] = slot]
    PROVE  At(k, w, rec, slot)
<1>1. worker' = [worker EXCEPT ![k] = [worker[k] EXCEPT ![w] = rec]]  BY DEF SetWorker
<1>2. inflight' = [inflight EXCEPT ![k] = [inflight[k] EXCEPT ![w] = slot]]  OBVIOUS
<1>3. /\ worker \in [Cycles -> [Workers -> WorkerRecs]]
      /\ inflight \in [Cycles -> [Workers -> Seq(Items)]]
  BY DEF WorkTypes
<1>4. \A j \in Cycles, v \in Workers : worker'[j][v] = (IF j = k /\ v = w THEN rec ELSE worker[j][v])
  BY ONLY <1>1, <1>3, k \in Cycles, w \in Workers
<1>5. \A j \in Cycles, v \in Workers : inflight'[j][v] = (IF j = k /\ v = w THEN slot ELSE inflight[j][v])
  BY ONLY <1>2, <1>3, k \in Cycles, w \in Workers
<1>6. worker' \in [Cycles -> [Workers -> WorkerRecs]]
  BY ONLY <1>1, <1>3, k \in Cycles, w \in Workers, rec \in WorkerRecs
<1>7. inflight' \in [Cycles -> [Workers -> Seq(Items)]]
  BY ONLY <1>2, <1>3, k \in Cycles, w \in Workers, slot \in Seq(Items)
<1> QED BY <1>4, <1>5, <1>6, <1>7 DEF At

LEMMA KeepsSlot ==
    ASSUME WorkTypes, NEW k \in Cycles, NEW w \in Workers, NEW rec \in WorkerRecs,
           SetWorker(k, w, rec), inflight' = inflight
    PROVE  At(k, w, rec, inflight[k][w])
<1>1. worker' = [worker EXCEPT ![k] = [worker[k] EXCEPT ![w] = rec]]  BY DEF SetWorker
<1>2. /\ worker \in [Cycles -> [Workers -> WorkerRecs]]
      /\ inflight \in [Cycles -> [Workers -> Seq(Items)]]
  BY DEF WorkTypes
<1>3. \A j \in Cycles, v \in Workers : worker'[j][v] = (IF j = k /\ v = w THEN rec ELSE worker[j][v])
  BY ONLY <1>1, <1>2, k \in Cycles, w \in Workers
<1>4. worker' \in [Cycles -> [Workers -> WorkerRecs]]
  BY ONLY <1>1, <1>2, k \in Cycles, w \in Workers, rec \in WorkerRecs
<1> QED BY <1>2, <1>3, <1>4 DEF At

\* A step that leaves the queue and the items alone.
LEMMA LocalMoves ==
    ASSUME LifeInv, WorkInv, NEW k \in Cycles, NEW w \in Workers,
           worker[k][w].pc \notin {"none", "done"},
           UNCHANGED life, UNCHANGED <<queue, item, unpublished>>,
           NEW rec \in WorkerRecs, NEW slot \in Seq(Items), At(k, w, rec, slot),
           RecordFits(rec), SlotFits(k, rec, slot),
           NEW S \in SUBSET Held(k, w),
           NEW outcome \in Answers, NEW counter \in Counters,
           outcome = "result" <=> counter = "walked",
           Settles(S, outcome, counter),
           future' \in [Items -> {"none", "pending"} \cup Answers],
           counted' \in [Items -> SUBSET Counters],
           Holds(rec, slot) \subseteq Held(k, w),
           slots = k => \A i \in Items :
               /\ i \in S => Owed(i, k, w) /\ ~Owes(i, rec, slot)
               /\ i \notin S => (Owes(i, rec, slot) <=> Owed(i, k, w))
    PROVE  WorkInv'
<1> DEFINE T == {}
<1>1. S \in SUBSET Items /\ T \in SUBSET Waiting /\ S \cap Waiting = {}  BY WorkFacts
<1>2. WorkTypes'  BY DEF WorkInv, WorkTypes, At
<1>3. Waiting' = Waiting  BY DEF Waiting
<1>4. QueueMoves(k, S, T)
  <2>1. IsInjective(queue'.items)  BY WorkFacts
  <2> QED BY <1>1, <1>3, <2>1 DEF QueueMoves
<1>5. ItemsMove(k, S, T)
  <2>1. \A i \in S : item[i].where \notin {"new", "checked"}  BY WorkFacts
  <2>2. item' = item  OBVIOUS
  <2> QED BY ONLY <1>1, <1>3, <2>1, <2>2 DEF ItemsMove
<1>6. DebtsMove(k, w, rec, slot, S, T)
  <2>1. slots = k => \A i \in S : ~Owes(i, rec, slot) /\ Owed(i, k, w)  BY <1>1
  <2>2. slots = k => \A i \in Items : i \notin S => (Owes(i, rec, slot) <=> Owed(i, k, w))
    OBVIOUS
  <2> QED BY ONLY <1>3, <2>1, <2>2, S \in SUBSET Held(k, w), Holds(rec, slot) \subseteq Held(k, w)
          DEF DebtsMove
<1> HIDE DEF T
<1> QED BY ONLY LifeInv, WorkInv, k \in Cycles, w \in Workers, worker[k][w].pc \notin {"none", "done"},
                UNCHANGED life, UNCHANGED <<queue, item, unpublished>>,
                rec \in WorkerRecs, slot \in Seq(Items), At(k, w, rec, slot), RecordFits(rec),
                SlotFits(k, rec, slot), outcome \in Answers, counter \in Counters,
                outcome = "result" <=> counter = "walked", Settles(S, outcome, counter),
                <1>1, <1>2, <1>4, <1>5, <1>6, WorkerMoves

\* A step that answers nobody.
LEMMA QuietMoves ==
    ASSUME LifeInv, WorkInv, NEW k \in Cycles, NEW w \in Workers,
           worker[k][w].pc \notin {"none", "done"},
           UNCHANGED life, UNCHANGED <<queue, item, future, counted, unpublished>>,
           NEW rec \in WorkerRecs, NEW slot \in Seq(Items), At(k, w, rec, slot),
           RecordFits(rec), SlotFits(k, rec, slot),
           Holds(rec, slot) \subseteq Held(k, w),
           slots = k => \A i \in Items : Owes(i, rec, slot) <=> Owed(i, k, w)
    PROVE  WorkInv'
<1> DEFINE S == {}
<1>1. Settles(S, "cancelled", "failed") /\ S \in SUBSET Held(k, w)  BY DEF Settles
<1>2. /\ future' \in [Items -> {"none", "pending"} \cup Answers]
      /\ counted' \in [Items -> SUBSET Counters]
      /\ "cancelled" \in Answers /\ "failed" \in Counters
  BY DEF WorkInv, WorkTypes, Answers, Counters
<1>3. slots = k => \A i \in Items : /\ i \in S => Owed(i, k, w) /\ ~Owes(i, rec, slot)
                                    /\ i \notin S => (Owes(i, rec, slot) <=> Owed(i, k, w))
  OBVIOUS
<1> HIDE DEF S
<1> QED BY ONLY LifeInv, WorkInv, k \in Cycles, w \in Workers, worker[k][w].pc \notin {"none", "done"},
                UNCHANGED life, UNCHANGED <<queue, item, future, counted, unpublished>>,
                rec \in WorkerRecs, slot \in Seq(Items), At(k, w, rec, slot), RecordFits(rec),
                SlotFits(k, rec, slot), Holds(rec, slot) \subseteq Held(k, w),
                <1>1, <1>2, <1>3, LocalMoves


\* A step that leaves a worker its batch and its slot.
LEMMA MovesOn ==
    ASSUME LifeInv, WorkInv, NEW k \in Cycles, NEW w \in Workers,
           worker[k][w].pc \notin {"none", "done", "narrow"},
           UNCHANGED life, UNCHANGED <<queue, inflight, item, future, counted, unpublished>>,
           NEW rec \in WorkerRecs, SetWorker(k, w, rec),
           rec.batch = worker[k][w].batch, rec.pc # "narrow",
           rec.pc \in BusyPlaces <=> Busy(k, w), SlotFits(k, rec, inflight[k][w])
    PROVE  WorkInv'
<1> DEFINE slot == inflight[k][w]
<1>1. slot \in Seq(Items)  BY WorkFacts
<1>2. At(k, w, rec, slot)  BY KeepsSlot DEF WorkInv
<1>3. RecordFits(rec)  BY DEF RecordFits, WorkInv, WorkersHold
<1>4. Holds(rec, slot) = Held(k, w)  BY DEF Holds, Held, Batch, Slot
<1>5. \A i \in Items : Owes(i, rec, slot) <=> Owed(i, k, w)  BY <1>4 DEF Owes, Owed
<1>6. SlotFits(k, rec, slot)  OBVIOUS
<1> HIDE DEF slot
<1> QED BY ONLY LifeInv, WorkInv, k \in Cycles, w \in Workers,
                worker[k][w].pc \notin {"none", "done", "narrow"}, UNCHANGED life,
                UNCHANGED <<queue, inflight, item, future, counted, unpublished>>,
                rec \in WorkerRecs, <1>1, <1>2, <1>3, <1>4, <1>5, <1>6, QuietMoves

LEMMA WorkWorkerExits ==
    ASSUME LifeInv, WorkInv, NEW k \in Cycles, NEW w \in Workers, WorkerExits(k, w)
    PROVE  WorkInv'
<1> DEFINE rec == [worker[k][w] EXCEPT !.pc = "done"]
<1>1. /\ worker[k][w].pc \in {"top", "waiting"} /\ SetWorker(k, w, rec) /\ UNCHANGED life
      /\ UNCHANGED <<queue, inflight, item, future, counted, unpublished>>
  BY DEF WorkerExits
<1>2. rec \in WorkerRecs /\ rec.pc = "done" /\ rec.batch = worker[k][w].batch
  BY WorkFacts, RecordOf DEF Places
<1> HIDE DEF rec
<1>3. SlotFits(k, rec, inflight[k][w])  BY <1>2 DEF SlotFits
<1>4. rec.pc \in BusyPlaces <=> Busy(k, w)  BY <1>1, <1>2 DEF BusyPlaces, Busy
<1> QED BY <1>1, <1>2, <1>3, <1>4, MovesOn

LEMMA WorkWaitOrPoll ==
    ASSUME LifeInv, WorkInv, NEW k \in Cycles, NEW w \in Workers, WaitOrPoll(k, w)
    PROVE  WorkInv'
<1> DEFINE p == IF worker[k][w].pc = "top" THEN "waiting" ELSE "top"
           rec == [worker[k][w] EXCEPT !.pc = p]
<1>1. /\ \/ worker[k][w].pc = "top" /\ ~stopping[k]
         \/ worker[k][w].pc = "waiting"
      /\ SetWorker(k, w, rec) /\ UNCHANGED life
      /\ UNCHANGED <<queue, inflight, item, future, counted, unpublished>>
  BY DEF WaitOrPoll
<1>2. p \in {"top", "waiting"}  OBVIOUS
<1>3. rec \in WorkerRecs /\ rec.pc = p /\ rec.batch = worker[k][w].batch
  <2>1. worker[k][w] \in WorkerRecs  BY WorkFacts
  <2>2. p \in Places  BY <1>2 DEF Places
  <2> HIDE DEF p
  <2> QED BY ONLY <2>1, <2>2, RecordOf
<1> HIDE DEF rec, p
<1>4. SlotFits(k, rec, inflight[k][w])
  BY <1>1, <1>2, <1>3 DEF SlotFits, WorkInv, SlotsFollow
<1>5. rec.pc \in BusyPlaces <=> Busy(k, w)  BY <1>1, <1>2, <1>3 DEF BusyPlaces, Busy
<1>6. worker[k][w].pc \notin {"none", "done", "narrow"} /\ rec.pc # "narrow"  BY <1>1, <1>2, <1>3
<1> QED BY <1>1, <1>3, <1>4, <1>5, <1>6, MovesOn

LEMMA WorkBeginWalk ==
    ASSUME LifeInv, WorkInv, NEW k \in Cycles, NEW w \in Workers, BeginWalk(k, w)
    PROVE  WorkInv'
<1> DEFINE rec == [worker[k][w] EXCEPT !.pc = "walk", !.at = 1]
<1>1. /\ worker[k][w].pc = "item" /\ SetWorker(k, w, rec) /\ UNCHANGED life
      /\ UNCHANGED <<queue, inflight, item, future, counted, unpublished>>
  BY DEF BeginWalk
<1>2. rec \in WorkerRecs /\ rec.pc = "walk" /\ rec.batch = worker[k][w].batch
  <2> DEFINE r == worker[k][w]
             s == [r EXCEPT !.pc = "walk"]
  <2>1. r \in WorkerRecs  BY WorkFacts
  <2> HIDE DEF r
  <2>2. s \in WorkerRecs /\ s.pc = "walk" /\ s.batch = r.batch
    BY ONLY <2>1, RecordOf, "walk" \in Places DEF Places
  <2>3. rec = [s EXCEPT !.at = 1]  BY DEF r
  <2> HIDE DEF s, rec
  <2>4. rec \in WorkerRecs /\ rec.pc = s.pc /\ rec.batch = s.batch
    BY ONLY <2>2, <2>3 DEF WorkerRecs
  <2> QED BY <2>2, <2>4 DEF r
<1> HIDE DEF rec
<1>3. SlotFits(k, rec, inflight[k][w])  BY <1>1, <1>2 DEF SlotFits, WorkInv, SlotsFollow
<1>4. rec.pc \in BusyPlaces <=> Busy(k, w)  BY <1>1, <1>2 DEF BusyPlaces, Busy
<1> QED BY <1>1, <1>2, <1>3, <1>4, MovesOn

LEMMA WorkProcess ==
    ASSUME LifeInv, WorkInv, NEW k \in Cycles, NEW w \in Workers, Process(k, w)
    PROVE  WorkInv'
<1> DEFINE rec == [worker[k][w] EXCEPT !.at = @ + 1]
<1>1. /\ worker[k][w].pc = "walk" /\ SetWorker(k, w, rec) /\ UNCHANGED life
      /\ UNCHANGED <<queue, inflight, item, future, counted, unpublished>>
  BY DEF Process
<1>2. rec \in WorkerRecs /\ rec.pc = "walk" /\ rec.batch = worker[k][w].batch
  BY <1>1, WorkFacts DEF WorkerRecs, Places
<1> HIDE DEF rec
<1>3. SlotFits(k, rec, inflight[k][w])  BY <1>1, <1>2 DEF SlotFits, WorkInv, SlotsFollow
<1>4. rec.pc \in BusyPlaces <=> Busy(k, w)  BY <1>1, <1>2 DEF BusyPlaces, Busy
<1> QED BY <1>1, <1>2, <1>3, <1>4, MovesOn

LEMMA WorkPublishSlot ==
    ASSUME LifeInv, WorkInv, NEW k \in Cycles, NEW w \in Workers, PublishSlot(k, w)
    PROVE  WorkInv'
<1> DEFINE rec == [worker[k][w] EXCEPT !.pc = "item"]
           slot == worker[k][w].batch
<1>1. /\ worker[k][w].pc = "publish" /\ SetWorker(k, w, rec) /\ UNCHANGED life
      /\ inflight' = [inflight EXCEPT ![k][w] = slot]
      /\ UNCHANGED <<queue, item, future, counted, unpublished>>
  BY DEF PublishSlot
<1>2. rec \in WorkerRecs /\ rec.pc = "item" /\ rec.batch = worker[k][w].batch
  BY WorkFacts, RecordOf DEF Places
<1>3. slot \in Seq(Items) /\ Batch(k, w) = ToSet(slot) /\ rec.batch = slot
  BY <1>2, WorkFacts DEF Batch
<1> HIDE DEF rec, slot
<1>4. At(k, w, rec, slot)  BY <1>1, <1>2, <1>3, WritesSlot DEF WorkInv
<1>5. RecordFits(rec)
  BY <1>1, <1>2 DEF RecordFits, WorkInv, WorkersHold, BusyPlaces, Busy
<1>6. SlotFits(k, rec, slot)  BY <1>2, <1>3 DEF SlotFits
<1>7. Holds(rec, slot) = Batch(k, w)  BY <1>3 DEF Holds
<1>8. slots = k => Held(k, w) = Batch(k, w)
  <2>1. slots = k => inflight[k][w] = <<>>  BY <1>1 DEF WorkInv, SlotsFollow
  <2> QED BY <2>1, WorkFacts, ToSetOf DEF Held, Slot
<1>9. slots = k => \A i \in Items : Owes(i, rec, slot) <=> Owed(i, k, w)
  BY <1>1, <1>2, <1>7, <1>8 DEF Owes, Owed
<1>10. Holds(rec, slot) \subseteq Held(k, w)  BY <1>7 DEF Held
<1> QED BY ONLY LifeInv, WorkInv, k \in Cycles, w \in Workers,
                <1>1, <1>2, <1>3, <1>4, <1>5, <1>6, <1>9, <1>10, QuietMoves

LEMMA WorkBreakOff ==
    ASSUME LifeInv, WorkInv, NEW k \in Cycles, NEW w \in Workers, BreakOff(k, w)
    PROVE  WorkInv'
<1> DEFINE rec == NewWorker
           slot == inflight[k][w]
<1>1. /\ worker[k][w].pc = "item" /\ SetWorker(k, w, rec) /\ UNCHANGED life /\ stopping[k]
      /\ UNCHANGED <<queue, inflight, item, future, counted, unpublished>>
  BY DEF BreakOff
<1>2. rec \in WorkerRecs /\ rec.pc = "top" /\ rec.batch = <<>>  BY DEF NewWorker, WorkerRecs, Places
<1>3. slot \in Seq(Items) /\ Slot(k, w) = ToSet(slot)  BY WorkFacts DEF Slot
<1>4. At(k, w, rec, slot)
  <2> HIDE DEF rec
  <2> QED BY <1>1, <1>2, KeepsSlot DEF WorkInv
<1>5. slots = k => slot = worker[k][w].batch  BY <1>1 DEF WorkInv, SlotsFollow
<1> HIDE DEF rec, slot
<1>6. IsInjective(<<>>) /\ ToSet(<<>>) = {}  BY DEF IsInjective, ToSet
<1>7. RecordFits(rec)  BY <1>2, <1>6 DEF RecordFits, BusyPlaces
<1>8. SlotFits(k, rec, slot)  BY <1>1, <1>2 DEF SlotFits
<1>9. Holds(rec, slot) = Slot(k, w)  BY <1>2, <1>3, <1>6 DEF Holds
<1>10. slots = k => Held(k, w) = Slot(k, w)  BY <1>3, <1>5 DEF Held, Batch
<1>11. slots = k => \A i \in Items : Owes(i, rec, slot) <=> Owed(i, k, w)
  BY <1>1, <1>2, <1>9, <1>10 DEF Owes, Owed
<1>12. Holds(rec, slot) \subseteq Held(k, w)  BY <1>9 DEF Held
<1> QED BY ONLY LifeInv, WorkInv, k \in Cycles, w \in Workers,
                <1>1, <1>2, <1>3, <1>4, <1>7, <1>8, <1>11, <1>12, QuietMoves

\* One outcome of an item, whichever: charged once, answered once.
LEMMA WorkOutcome ==
    ASSUME LifeInv, WorkInv, NEW k \in Cycles, NEW w \in Workers, worker[k][w].pc = "walk",
           NEW counter \in Counters, NEW answer \in Answers, answer = "result" <=> counter = "walked",
           Outcome(k, w, counter, answer)
    PROVE  WorkInv'
<1> DEFINE rec == [worker[k][w] EXCEPT !.pc = "narrow"]
           slot == inflight[k][w]
           h == Head(worker[k][w].batch)
           S == {h}
<1>1. /\ SetWorker(k, w, rec) /\ UNCHANGED life
      /\ counted' = ChargeAll(S, counter) /\ future' = ResolveAll(S, answer)
      /\ UNCHANGED <<queue, inflight, item, unpublished>>
  BY DEF Outcome
<1>2. rec \in WorkerRecs /\ rec.pc = "narrow" /\ rec.batch = worker[k][w].batch
  BY WorkFacts, RecordOf DEF Places
<1>3. /\ slot \in Seq(Items) /\ h \in Held(k, w) /\ h \in Items
      /\ h = Head(rec.batch) /\ Holds(rec, slot) = Held(k, w)
  BY <1>2, WorkFacts DEF Busy, Held, Slot, Batch, Holds
<1>4. SlotFits(k, rec, slot)  BY <1>2 DEF SlotFits, WorkInv, SlotsFollow
<1> HIDE DEF rec, slot
<1>5. At(k, w, rec, slot)  BY <1>1, <1>2, KeepsSlot DEF WorkInv, slot
<1> HIDE DEF h, S
<1>6. /\ Settles(S, answer, counter)
      /\ future' \in [Items -> {"none", "pending"} \cup Answers]
      /\ counted' \in [Items -> SUBSET Counters]
  BY <1>1, ResolvedAndCharged DEF WorkInv
<1>7. future'[h] # "pending"
  <2>1. h \in S  BY DEF S
  <2> QED BY <1>3, <1>6, <2>1 DEF Settles, Answers
<1>8. RecordFits(rec)
  BY <1>2, <1>3, <1>7 DEF RecordFits, WorkInv, WorkersHold, BusyPlaces, Busy
<1>9. S \in SUBSET Held(k, w)  BY <1>3 DEF S
<1>10. \A i \in Items : /\ i \in S => Owed(i, k, w) /\ ~Owes(i, rec, slot)
                        /\ i \notin S => (Owes(i, rec, slot) <=> Owed(i, k, w))
  BY <1>2, <1>3 DEF Owed, Owes, S
<1>11. worker[k][w].pc \notin {"none", "done"} /\ Holds(rec, slot) \subseteq Held(k, w)  BY <1>3
<1> QED BY ONLY LifeInv, WorkInv, k \in Cycles, w \in Workers, counter \in Counters,
                answer \in Answers, answer = "result" <=> counter = "walked",
                <1>1, <1>2, <1>3, <1>4, <1>5, <1>6, <1>8, <1>9, <1>10, <1>11, LocalMoves

LEMMA WorkNarrow ==
    ASSUME LifeInv, WorkInv, NEW k \in Cycles, NEW w \in Workers, Narrow(k, w)
    PROVE  WorkInv'
<1> DEFINE h == Head(worker[k][w].batch)
           rest == Tail(worker[k][w].batch)
           p == IF rest = <<>> THEN "top" ELSE "item"
           rec == [pc |-> p, batch |-> rest, at |-> 0]
           S == {}
           T == {}
<1>1. /\ worker[k][w].pc = "narrow" /\ SetWorker(k, w, rec) /\ UNCHANGED life
      /\ inflight' = [inflight EXCEPT ![k][w] = rest]
      /\ item' = [item EXCEPT ![h].where = "gone"]
      /\ UNCHANGED <<queue, future, counted, unpublished>>
  BY DEF Narrow
<1>2. /\ h \in Batch(k, w) /\ ToSet(rest) = Batch(k, w) \ {h} /\ rest \in Seq(Items)
      /\ IsInjective(rest) /\ h \in Items
  BY <1>1, WorkFacts DEF Busy
<1>3. /\ item[h].where \in {"taken", "gone"}
      /\ h \notin Waiting
  BY <1>2, WorkFacts DEF Held
<1>0. slots = k => inflight[k][w] = worker[k][w].batch  BY <1>1 DEF WorkInv, SlotsFollow
<1> HIDE DEF h, rest
<1>4. rec \in WorkerRecs /\ rec.pc = p /\ rec.batch = rest  BY <1>2 DEF WorkerRecs, Places
<1>5. p = (IF rest = <<>> THEN "top" ELSE "item")  OBVIOUS
<1> HIDE DEF rec, p
<1>6. At(k, w, rec, rest)  BY <1>1, <1>2, <1>4, WritesSlot DEF WorkInv
<1>7. RecordFits(rec)  BY <1>2, <1>4, <1>5 DEF RecordFits, BusyPlaces
<1>8. SlotFits(k, rec, rest)  BY <1>4, <1>5 DEF SlotFits
<1>9. /\ item' \in [Items -> ItemRecs]
      /\ \A i \in Items : i # h => item'[i] = item[i]
      /\ item'[h].where = "gone" /\ item'[h].queue = item[h].queue
  <2> DEFINE r == [item[h] EXCEPT !.where = "gone"]
  <2>1. item \in [Items -> ItemRecs]  BY DEF WorkInv, WorkTypes, ItemRecs
  <2>2. r \in ItemRecs /\ r.where = "gone" /\ r.queue = item[h].queue
    BY <1>2, <2>1, Rehomed
  <2>3. item' = [item EXCEPT ![h] = r]  BY <1>1
  <2> HIDE DEF r
  <2> QED BY ONLY <1>2, <2>1, <2>2, <2>3
<1>10. WorkTypes'  BY <1>1, <1>6, <1>9 DEF WorkInv, WorkTypes, ItemRecs, At
<1>11. Waiting' = Waiting /\ IsInjective(queue'.items)  BY <1>1, WorkFacts DEF Waiting
<1>12. QueueMoves(k, S, T)  BY <1>1, <1>11 DEF QueueMoves
<1>13. ItemsMove(k, S, T)  BY <1>2, <1>3, <1>9, <1>11 DEF ItemsMove
<1>14. DebtsMove(k, w, rec, rest, S, T)
  <2>1. Holds(rec, rest) = Batch(k, w) \ {h}  BY <1>2, <1>4 DEF Holds
  <2>2. slots = k => Held(k, w) = Batch(k, w)  BY <1>0 DEF Held, Batch, Slot
  <2>3. \A i \in Items : Owes(i, rec, rest) <=> i \in Batch(k, w) \ {h}
    BY <1>4, <1>5, <2>1 DEF Owes
  <2>4. \A i \in Items : Owed(i, k, w) <=> i \in Held(k, w) \ {h}  BY <1>1 DEF Owed, h
  <2> QED BY <1>11, <2>1, <2>2, <2>3, <2>4 DEF DebtsMove, Held
<1>15. Settles(S, "cancelled", "failed")  BY <1>1 DEF Settles
<1>16. S \in SUBSET Items /\ T \in SUBSET Waiting /\ worker[k][w].pc \notin {"none", "done"}
       /\ "cancelled" \in Answers /\ "failed" \in Counters /\ unpublished' = unpublished
  BY <1>1 DEF Answers, Counters
<1> HIDE DEF S, T
<1> QED BY ONLY LifeInv, WorkInv, k \in Cycles, w \in Workers, <1>1, <1>2, <1>4, <1>6, <1>7, <1>8, <1>10, <1>12, <1>13, <1>14, <1>15, <1>16,
                WorkerMoves

LEMMA WorkTake ==
    ASSUME LifeInv, WorkInv, NEW k \in Cycles, NEW w \in Workers, NEW expired \in BOOLEAN,
           Take(k, w, expired)
    PROVE  WorkInv'
<1> DEFINE q == queue.items
           n == IF Len(q) < WakeUp THEN Len(q) ELSE WakeUp
           first == SubSeq(q, 1, n)
           left == SubSeq(q, n + 1, Len(q))
           S == IF expired THEN {Head(first)} ELSE {}
           batch == IF expired THEN Tail(first) ELSE first
           T == ToSet(batch)
           p == IF batch = <<>> THEN "top" ELSE "publish"
           rec == [pc |-> p, batch |-> batch, at |-> 0]
           slot == inflight[k][w]
<1>1. worker[k][w].pc = "waiting" /\ q # <<>> /\ k = queue.owner
  <2>1. worker[k][w].pc = "waiting" /\ QueueOf(k).items # <<>>  BY DEF Take
  <2>2. ASSUME k # queue.owner PROVE FALSE
    <3>1. QueueOf(k) = [queue EXCEPT !.closed = TRUE, !.items = <<>>]  BY <2>2 DEF QueueOf
    <3>2. queue \in [closed : BOOLEAN, items : Seq(Items), injected : BOOLEAN, owner : Nat]
      BY DEF WorkInv, WorkTypes
    <3>3. QueueOf(k).items = <<>>  BY ONLY <3>1, <3>2
    <3> QED BY <2>1, <3>3
  <2> QED BY <2>1, <2>2 DEF QueueOf
<1>2. /\ queue' = [queue EXCEPT !.items = left] /\ SetWorker(k, w, rec)
      /\ item' = [i \in Items |->
                    IF i \in S THEN [item[i] EXCEPT !.where = "gone"]
                    ELSE IF i \in T THEN [item[i] EXCEPT !.where = "taken"]
                    ELSE item[i]]
      /\ future' = ResolveAll(S, "cancelled") /\ counted' = ChargeAll(S, "queue_expired")
      /\ UNCHANGED life /\ inflight' = inflight /\ unpublished' = unpublished
  <2>1. QueueOf(k) = queue  BY <1>1 DEF QueueOf
  <2> QED BY ONLY Take(k, w, expired), <2>1 DEF Take
<1>3. slots = k
  <2>1. k <= cycle /\ cycle \in Nat /\ k \in Nat
    BY <1>1, LiveOrGivenUp, WorkFacts DEF WorkInv
  <2>2. queue.owner = cycle /\ ~queue.closed
    BY <1>1, <2>1 DEF WorkInv, QueueInPhase
  <2>3. slots # 0  BY <2>1, <2>2 DEF WorkInv, QueueInPhase
  <2> QED BY <1>1, <2>2, <2>3 DEF LifeInv, Tracked
<1>4. /\ slot = <<>> /\ Held(k, w) = {}
  <2>1. slot = <<>>  BY <1>1, <1>3 DEF WorkInv, SlotsFollow
  <2>2. Batch(k, w) = {}  BY <1>1, WorkFacts DEF Busy
  <2> QED BY <2>1, <2>2, ToSetOf, WorkFacts DEF Held, Slot
<1>5. q \in Seq(Items) /\ IsInjective(q) /\ Waiting = ToSet(q) /\ Waiting \subseteq Items
  BY WorkFacts DEF Waiting
<1> HIDE DEF q
<1>6. n \in 0 .. Len(q) /\ n \in Nat \ {0}
  <2>1. Len(q) \in Nat \ {0}  BY <1>1, <1>5
  <2>2. WakeUp \in Nat \ {0}  BY RunnerAssumption
  <2> QED BY ONLY <2>1, <2>2
<1>7. first # <<>>
  <2>1. Len(first) = n  BY <1>5, <1>6
  <2> QED BY <1>6, <2>1
<1> HIDE DEF n
<1>8. /\ first \in Seq(Items) /\ left \in Seq(Items) /\ IsInjective(first) /\ IsInjective(left)
      /\ ToSet(q) = ToSet(first) \cup ToSet(left) /\ ToSet(first) \cap ToSet(left) = {}
  BY <1>5, <1>6, SplitAt
<1> HIDE DEF first, left
<1>9. /\ Head(first) \in ToSet(first) /\ Tail(first) \in Seq(Items)
      /\ ToSet(Tail(first)) = ToSet(first) \ {Head(first)} /\ IsInjective(Tail(first))
  BY <1>7, <1>8, HeadAndTail
<1>10. /\ batch \in Seq(Items) /\ IsInjective(batch)
       /\ S \cup T = ToSet(first) /\ S \cap T = {}
  BY <1>8, <1>9
<1>11. T = ToSet(batch)  OBVIOUS
<1> HIDE DEF S, T, batch
<1>12. rec \in WorkerRecs /\ rec.pc = p /\ rec.batch = batch  BY <1>10 DEF WorkerRecs, Places
<1>13. p = (IF batch = <<>> THEN "top" ELSE "publish")  OBVIOUS
<1>14. slot \in Seq(Items)  BY WorkFacts
<1> HIDE DEF rec, p
<1>15. At(k, w, rec, slot)  BY <1>2, <1>12, KeepsSlot DEF WorkInv
<1> HIDE DEF slot
<1>16. RecordFits(rec)  BY <1>10, <1>12, <1>13 DEF RecordFits, BusyPlaces
<1>17. SlotFits(k, rec, slot)  BY <1>4, <1>12, <1>13 DEF SlotFits
<1>18. /\ queue'.items = left /\ queue'.owner = queue.owner /\ queue'.closed = queue.closed
       /\ queue' \in [closed : BOOLEAN, items : Seq(Items), injected : BOOLEAN, owner : Nat]
  <2>1. queue \in [closed : BOOLEAN, items : Seq(Items), injected : BOOLEAN, owner : Nat]
    BY DEF WorkInv, WorkTypes
  <2> QED BY ONLY <1>2, <1>8, <2>1
<1>19. /\ Waiting' = ToSet(left) /\ Waiting = S \cup T \cup Waiting' /\ (S \cup T) \cap Waiting' = {}
       /\ S \subseteq Waiting /\ T \subseteq Waiting
  <2>1. Waiting' = ToSet(left)  BY <1>18 DEF Waiting
  <2> QED BY ONLY <1>5, <1>8, <1>10, <2>1
<1>20. \A i \in Waiting : item[i].where = "queued" /\ item[i].queue = k
  BY <1>1 DEF WorkInv, QueueHolds
<1>21. /\ item' \in [Items -> ItemRecs]
       /\ \A i \in Items : /\ item'[i].queue = item[i].queue
                           /\ i \in S => item'[i].where = "gone"
                           /\ i \in T => item'[i].where = "taken"
                           /\ i \notin S \cup T => item'[i].where = item[i].where
  <2>1. item \in [Items -> ItemRecs]  BY DEF WorkInv, WorkTypes, ItemRecs
  <2>2. \A i \in Items : /\ [item[i] EXCEPT !.where = "gone"] \in ItemRecs
                         /\ [item[i] EXCEPT !.where = "gone"].where = "gone"
                         /\ [item[i] EXCEPT !.where = "gone"].queue = item[i].queue
    BY <2>1, Rehomed
  <2>3. \A i \in Items : /\ [item[i] EXCEPT !.where = "taken"] \in ItemRecs
                         /\ [item[i] EXCEPT !.where = "taken"].where = "taken"
                         /\ [item[i] EXCEPT !.where = "taken"].queue = item[i].queue
    BY <2>1, Rehomed
  <2> QED BY ONLY <1>2, <1>10, <2>1, <2>2, <2>3
<1>22. /\ Settles(S, "cancelled", "queue_expired")
       /\ future' \in [Items -> {"none", "pending"} \cup Answers]
       /\ counted' \in [Items -> SUBSET Counters]
       /\ "cancelled" \in Answers /\ "queue_expired" \in Counters
  <2>1. "cancelled" \in Answers /\ "queue_expired" \in Counters  BY DEF Answers, Counters
  <2> QED BY <1>2, <2>1, ResolvedAndCharged DEF WorkInv
<1>23. WorkTypes'
  BY <1>2, <1>15, <1>18, <1>21, <1>22 DEF WorkInv, WorkTypes, ItemRecs, At
<1>24. QueueMoves(k, S, T)  BY <1>1, <1>3, <1>8, <1>18, <1>19 DEF QueueMoves, q
<1>25. ItemsMove(k, S, T)
  <2>1. S \subseteq Items /\ T \subseteq Items /\ Waiting' \subseteq Items  BY <1>5, <1>19
  <2> QED BY ONLY <1>19, <1>20, <1>21, <2>1 DEF ItemsMove
<1>26. DebtsMove(k, w, rec, slot, S, T)
  <2>1. Holds(rec, slot) = T  BY <1>4, <1>11, <1>12, ToSetOf, <1>14 DEF Holds
  <2>2. \A i \in Items : Owes(i, rec, slot) <=> i \in T  BY <1>12, <1>13, <2>1 DEF Owes
  <2>3. \A i \in Items : ~Owed(i, k, w)  BY <1>4 DEF Owed
  <2> QED BY <1>3, <1>10, <1>19, <2>1, <2>2, <2>3 DEF DebtsMove
<1>27. S \in SUBSET Items /\ T \in SUBSET Waiting /\ worker[k][w].pc \notin {"none", "done"}
  BY <1>1, <1>5, <1>19
<1> QED BY ONLY LifeInv, WorkInv, k \in Cycles, w \in Workers, <1>2, <1>12, <1>14, <1>15, <1>16,
                <1>17, <1>22, <1>23, <1>24, <1>25, <1>26, <1>27, WorkerMoves

LEMMA WorkWork == ASSUME LifeInv, WorkInv, Work PROVE WorkInv'
<1> SUFFICES ASSUME NEW k \in Cycles, NEW w \in Workers,
                    \/ WorkerExits(k, w) \/ WaitOrPoll(k, w) \/ PublishSlot(k, w)
                    \/ \E expired \in BOOLEAN : Take(k, w, expired)
                    \/ BreakOff(k, w) \/ BeginWalk(k, w) \/ Expires(k, w) \/ Process(k, w)
                    \/ \E counter \in Raises \cup {"failed"} : ElementFails(k, w, counter)
                    \/ Walked(k, w) \/ Narrow(k, w)
             PROVE  WorkInv'
  BY DEF Work
<1>1. CASE WorkerExits(k, w)  BY <1>1, WorkWorkerExits
<1>2. CASE WaitOrPoll(k, w)  BY <1>2, WorkWaitOrPoll
<1>3. CASE PublishSlot(k, w)  BY <1>3, WorkPublishSlot
<1>4. ASSUME NEW expired \in BOOLEAN, Take(k, w, expired) PROVE WorkInv'  BY <1>4, WorkTake
<1>5. CASE BreakOff(k, w)  BY <1>5, WorkBreakOff
<1>6. CASE BeginWalk(k, w)  BY <1>6, WorkBeginWalk
<1>7. CASE Expires(k, w)
  <2>1. "expired" \in Counters /\ "cancelled" \in Answers  BY DEF Counters, Answers
  <2> QED BY <1>7, <2>1, WorkOutcome DEF Expires
<1>8. CASE Process(k, w)  BY <1>8, WorkProcess
<1>9. ASSUME NEW counter \in Raises \cup {"failed"}, ElementFails(k, w, counter) PROVE WorkInv'
  <2>1. counter \in Counters /\ counter # "walked" /\ "failed" \in Answers
    BY RunnerAssumption DEF Counters, Answers
  <2> QED BY <1>9, <2>1, WorkOutcome DEF ElementFails
<1>10. CASE Walked(k, w)
  <2>1. "walked" \in Counters /\ "result" \in Answers  BY DEF Counters, Answers
  <2> QED BY <1>10, <2>1, WorkOutcome DEF Walked
<1>11. CASE Narrow(k, w)  BY <1>11, WorkNarrow
<1> QED BY <1>1, <1>2, <1>3, <1>4, <1>5, <1>6, <1>7, <1>8, <1>9, <1>10, <1>11


-----------------------------------------------------------------------------
(* The runner as a whole.                                                  *)

\* A camera thread abandoned at a deadline is still a camera of some start cycle.
StaleTypes == stale \subseteq [cam : Cameras, cycle : Nat]

RunnerInv == CameraInv /\ LifeInv /\ StaleTypes /\ WorkInv

LEMMA WorkerStays == ASSUME Work PROVE UNCHANGED life /\ UNCHANGED camera
<1>1. PICK k \in Cycles, w \in Workers :
        \/ WorkerExits(k, w) \/ WaitOrPoll(k, w) \/ PublishSlot(k, w)
        \/ \E expired \in BOOLEAN : Take(k, w, expired)
        \/ BreakOff(k, w) \/ BeginWalk(k, w) \/ Expires(k, w) \/ Process(k, w)
        \/ \E counter \in Raises \cup {"failed"} : ElementFails(k, w, counter)
        \/ Walked(k, w) \/ Narrow(k, w)
  BY DEF Work
<1>2. ASSUME NEW expired \in BOOLEAN, Take(k, w, expired) PROVE UNCHANGED life /\ UNCHANGED camera
  BY ONLY <1>2 DEF Take
<1>3. CASE WorkerExits(k, w) \/ WaitOrPoll(k, w) \/ PublishSlot(k, w)
  BY ONLY <1>3 DEF WorkerExits, WaitOrPoll, PublishSlot
<1>4. CASE BreakOff(k, w) \/ BeginWalk(k, w) \/ Process(k, w) \/ Narrow(k, w)
  BY ONLY <1>4 DEF BreakOff, BeginWalk, Process, Narrow
<1>5. CASE Expires(k, w) \/ Walked(k, w)  BY ONLY <1>5 DEF Expires, Walked, Outcome
<1>6. ASSUME NEW counter \in Raises \cup {"failed"}, ElementFails(k, w, counter)
      PROVE  UNCHANGED life /\ UNCHANGED camera
  BY ONLY <1>6 DEF ElementFails, Outcome
<1> QED BY <1>1, <1>2, <1>3, <1>4, <1>5, <1>6

LEMMA StaleStep ==
    ASSUME CameraInv, StaleTypes, Next
    PROVE  StaleTypes'
<1>1. CASE Lifecycle
  BY <1>1 DEF Lifecycle, StartBegin, OpenElement, OpenFails, StartWorkers, StopBegin, StopIngest,
              CamerasGone, SetStopping, CloseQueue, JoinWorker, FailInFlight, CloseElement,
              camera, StaleTypes
<1>2. ASSUME NEW c \in Cameras
      PROVE  [cam |-> c, cycle |-> actor[c].cycle] \in [cam : Cameras, cycle : Nat]
  BY DEF CameraInv, CameraTypes, Actors
<1>3. CASE CameraCalls
  <2>1. ASSUME NEW c \in Cameras, NEW abandon \in BOOLEAN, JoinCamera(c, abandon) PROVE StaleTypes'
    BY <1>2, <2>1 DEF JoinCamera, StaleTypes
  <2>2. ASSUME NEW abandon \in BOOLEAN, CameraRemoved(abandon) PROVE StaleTypes'
    <3>1. op.cam \in Cameras  BY <2>2 DEF CameraRemoved, CameraInv, OpTypes
    <3> QED BY <1>2, <2>2, <3>1 DEF CameraRemoved, StaleTypes
  <2>3. CASE \/ \E c \in Cameras : RemoveCamera(c) \/ \E band \in Requested : AddCamera(c, band)
             \/ CameraStarts \/ CameraRefused \/ Announce \/ Drain
    BY <2>3 DEF RemoveCamera, AddCamera, CameraStarts, CameraRefused, Announce, Drain, StaleTypes
  <2> QED BY <1>3, <2>1, <2>2, <2>3 DEF CameraCalls
<1>4. CASE Submission
  <2>1. CASE SubmitCheck  BY <2>1 DEF SubmitCheck, camera, StaleTypes
  <2>2. ASSUME NEW c \in Cameras, NEW evict \in BOOLEAN, Publish(c, evict) PROVE StaleTypes'
    <3>1. stale' = stale  BY <2>2 DEF Publish
    <3> QED BY <3>1 DEF StaleTypes
  <2>3. ASSUME NEW s \in stale, NEW evict \in BOOLEAN, PublishLate(s, evict) PROVE StaleTypes'
    <3>1. stale' = stale \ {s}  BY <2>3 DEF PublishLate
    <3> QED BY <3>1 DEF StaleTypes
  <2>4. ASSUME NEW i \in Items, NEW evict \in BOOLEAN, SubmitPut(i, evict) PROVE StaleTypes'
    <3>1. stale' = stale  BY <2>4 DEF SubmitPut, camera
    <3> QED BY <3>1 DEF StaleTypes
  <2> QED BY <1>4, <2>1, <2>2, <2>3, <2>4 DEF Submission
<1>5. CASE Work  BY <1>5, WorkerStays DEF camera, StaleTypes
<1> QED BY <1>1, <1>3, <1>4, <1>5 DEF Next

LEMMA RunnerStarts == ASSUME Init PROVE RunnerInv
<1>1. StaleTypes  BY DEF Init, StaleTypes
<1> QED BY <1>1, CameraInit, LifeInit, WorkInit DEF RunnerInv

LEMMA RunnerStep ==
    ASSUME RunnerInv, [Next]_vars
    PROVE  RunnerInv'
<1>1. CameraInv /\ LifeInv /\ StaleTypes /\ WorkInv /\ OpTypes /\ CameraTypes
  BY DEF RunnerInv, CameraInv
<1>2. CameraInv'  BY <1>1, CameraStep
<1>3. CASE UNCHANGED vars
  <2>1. UNCHANGED life /\ UNCHANGED work /\ stale' = stale  BY <1>3 DEF vars, camera
  <2>2. LifeInv'  BY <1>1, <2>1, LifeKeep
  <2>3. StaleTypes'  BY <1>1, <2>1 DEF StaleTypes
  <2>4. WorkInv'
    <3>1. WorkTypes' /\ QueueInPhase' /\ WorkersInPhase'
      BY <1>1, <2>1 DEF WorkInv, WorkTypes, QueueInPhase, WorkersInPhase, life, work
    <3> QED BY <1>1, <2>1, <3>1, WorkKeep DEF life, work
  <2> QED BY <1>2, <2>2, <2>3, <2>4 DEF RunnerInv
<1>4. CASE Next
  <2>1. StaleTypes'  BY <1>1, <1>4, StaleStep
  <2>2. CASE Lifecycle
    <3>1. LifeInv'  BY <1>1, <2>2, LifeLifecycle
    <3>2. WorkInv'
      BY <1>1, <2>2, <3>1, WorkStartBegin, WorkStartWorkers, WorkCloseQueue, WorkFailInFlight,
         WorkLifecycleRest DEF Lifecycle
    <3> QED BY <1>2, <2>1, <3>1, <3>2 DEF RunnerInv
  <2>3. CASE CameraCalls
    <3>1. LifeInv'  BY <1>1, <2>3, LifeOperations
    <3>2. WorkInv'  BY <1>1, <2>3, <3>1, WorkLifecycleRest
    <3> QED BY <1>2, <2>1, <3>1, <3>2 DEF RunnerInv
  <2>4. CASE Submission
    <3>1. UNCHANGED life
      BY <2>4 DEF Submission, SubmitCheck, Publish, PublishLate, SubmitPut
    <3>2. LifeInv'  BY <1>1, <3>1, LifeKeep
    <3>3. WorkInv'  BY <1>1, <2>4, WorkSubmission DEF StaleTypes
    <3> QED BY <1>2, <2>1, <3>2, <3>3 DEF RunnerInv
  <2>5. CASE Work
    <3>1. UNCHANGED life  BY <2>5, WorkerStays
    <3>2. LifeInv'  BY <1>1, <3>1, LifeKeep
    <3>3. WorkInv'  BY <1>1, <2>5, WorkWork
    <3> QED BY <1>2, <2>1, <3>2, <3>3 DEF RunnerInv
  <2> QED BY <1>4, <2>2, <2>3, <2>4, <2>5 DEF Next
<1> QED BY <1>3, <1>4

-----------------------------------------------------------------------------
(* The bands placements granted, over the invariant of the cameras.        *)

\* A camera without a thread has no band, but for the one that is being added, which had
\* none before, and while the cameras of a stop or of a drain are joined.
Leftovers ==
    /\ op.name # "join_cameras" =>
          \A c \in Cameras : actor[c].state = "none" /\ (op.name = "adding" => c # op.cam)
                            => placed[c] = None
    /\ op.name = "adding" => op.previous = None

LEMMA LeftoversElsewhere ==
    ASSUME CameraInv, Leftovers, UNCHANGED <<op, placed>>,
           \A c \in Cameras : actor'[c].state = "none" => actor[c].state = "none"
    PROVE  Leftovers'
BY DEF Leftovers

LEMMA LeftoversLifecycle == ASSUME CameraInv, Leftovers, Lifecycle PROVE Leftovers'
<1> USE RunnerAssumption DEF life, camera, work
<1>1. CASE CamerasGone
  <2>1. \A c \in Cameras : placed'[c] = None  BY <1>1 DEF CamerasGone
  <2>2. op'.name # "adding"
    BY <1>1 DEF CamerasGone, CameraInv, OpTypes
  <2> QED BY <2>1, <2>2 DEF Leftovers
<1>2. CASE StopIngest
  BY <1>2 DEF StopIngest, Leftovers
<1>3. CASE \/ StartBegin \/ OpenElement \/ OpenFails \/ StartWorkers \/ StopBegin
           \/ SetStopping \/ CloseQueue \/ (\E w \in Workers : JoinWorker(w))
           \/ FailInFlight \/ CloseElement
  <2>1. actor' = actor /\ placed' = placed
    BY <1>3 DEF StartBegin, OpenElement, OpenFails, StartWorkers, StopBegin, SetStopping,
                CloseQueue, JoinWorker, FailInFlight, CloseElement
  <2>2. op.name \notin {"join_cameras", "adding"} /\ op'.name # "adding"
    <3>1. CASE OpenElement \/ CloseElement
      BY <3>1 DEF OpenElement, CloseElement, CameraInv, OpTypes
    <3>2. CASE StartBegin \/ OpenFails \/ StartWorkers \/ StopBegin
      BY <3>2 DEF StartBegin, OpenFails, StartWorkers, StopBegin
    <3>3. CASE SetStopping \/ CloseQueue \/ FailInFlight
      BY <3>3 DEF SetStopping, CloseQueue, FailInFlight
    <3>4. CASE \E w \in Workers : JoinWorker(w)
      BY <3>4 DEF JoinWorker
    <3> QED BY <1>3, <3>1, <3>2, <3>3, <3>4
  <2> QED BY <2>1, <2>2 DEF Leftovers
<1> QED BY <1>1, <1>2, <1>3 DEF Lifecycle

LEMMA LeftoversOperations == ASSUME CameraInv, Leftovers, CameraCalls PROVE Leftovers'
<1> USE DEF life, camera, work, CameraInv, CameraTypes, OpTypes
<1>1. ASSUME NEW c \in Cameras, NEW band \in Requested, AddCamera(c, band) PROVE Leftovers'
  BY <1>1 DEF AddCamera, Leftovers
<1>2. ASSUME NEW c \in Cameras, NEW abandon \in BOOLEAN, JoinCamera(c, abandon) PROVE Leftovers'
  BY <1>2 DEF JoinCamera, Leftovers
<1>3. ASSUME NEW c \in Cameras, RemoveCamera(c) PROVE Leftovers'
  <2>1. \A d \in Cameras : actor'[d].state = "none" => actor[d].state = "none"
    BY <1>3 DEF RemoveCamera
  <2> QED BY <1>3, <2>1 DEF RemoveCamera, Leftovers
<1>4. CASE CameraStarts
  <2>1. actor'[op.cam].state = "reading" /\ \A d \in Cameras \ {op.cam} : actor'[d] = actor[d]
    BY <1>4 DEF CameraStarts
  <2> QED BY <1>4, <2>1 DEF CameraStarts, Leftovers
<1>5. CASE CameraRefused  BY <1>5 DEF CameraRefused, Leftovers
<1>6. CASE Announce  BY <1>6 DEF Announce, Leftovers
<1>7. CASE Drain  BY <1>7 DEF Drain, Leftovers
<1>8. ASSUME NEW abandon \in BOOLEAN, CameraRemoved(abandon) PROVE Leftovers'
  <2>1. placed'[op.cam] = None
        /\ \A d \in Cameras \ {op.cam} : actor'[d] = actor[d] /\ placed'[d] = placed[d]
    BY <1>8 DEF CameraRemoved
  <2> QED BY <1>8, <2>1 DEF CameraRemoved, Leftovers
<1> QED BY <1>1, <1>2, <1>3, <1>4, <1>5, <1>6, <1>7, <1>8 DEF CameraCalls

LEMMA LeftoversStep == ASSUME CameraInv, Leftovers, [Next]_vars PROVE Leftovers'
<1>1. CASE UNCHANGED vars  BY <1>1, LeftoversElsewhere DEF vars, life, camera
<1>2. CASE Submission
  <2>1. ASSUME NEW c \in Cameras, NEW evict \in BOOLEAN, Publish(c, evict) PROVE Leftovers'
    <3>1. UNCHANGED <<op, placed>>  BY <2>1 DEF Publish, life
    <3>2. actor' = [actor EXCEPT ![c].state = IF @ = "signalled" THEN "ending" ELSE @]
      BY <2>1 DEF Publish
    <3>3. \A d \in Cameras : actor'[d].state = "none" => actor[d].state = "none"
      BY <3>2 DEF CameraInv, CameraTypes, Actors
    <3> QED BY <3>1, <3>3, LeftoversElsewhere
  <2>2. CASE UNCHANGED <<op, placed, actor>>  BY <2>2, LeftoversElsewhere
  <2> QED BY <1>2, <2>1, <2>2 DEF Submission, SubmitCheck, PublishLate, SubmitPut, life, camera
<1>3. CASE Work
  <2>1. UNCHANGED <<op, placed, actor>>  BY <1>3, WorkerStays DEF life, camera
  <2> QED BY <2>1, LeftoversElsewhere
<1> QED BY <1>1, <1>2, <1>3, LeftoversLifecycle, LeftoversOperations DEF Next

-----------------------------------------------------------------------------
(* What the invariant means.                                               *)

\* Once the last worker is joined the runner's slot list is the empty replacement.
LEMMA StoppedIsAnswered == ASSUME RunnerInv PROVE AnsweredAfterStop
<1> SUFFICES ASSUME Stopped, NEW i \in Items, future[i] = "pending"
             PROVE  i \in ToSet(queue.items) \/ i \in unpublished
  BY DEF AnsweredAfterStop
<1>1. op.name = "idle" /\ ~running  BY DEF Stopped
<1>2. slots = 0  BY <1>1 DEF RunnerInv, LifeInv, Tracked
<1> QED BY <1>2 DEF RunnerInv, WorkInv, Reachable, Waiting

LEMMA CyclesStayApart == ASSUME RunnerInv PROVE CyclesApart
<1>1. LifeInv /\ WorkInv  BY DEF RunnerInv
<1>2. slots # 0 => slots \in Cycles
  BY <1>1, RunnerAssumption DEF LifeInv, LifeTypes, Tracked, Cycles
<1>3. \A k \in Cycles, w \in Workers : \A i \in Held(k, w) : item[i].queue = k
  BY <1>1, WorkFacts
<1>4. \A k \in Cycles, w \in Workers : \A i \in ToSet(worker[k][w].batch) : item[i].queue = k
  BY <1>3 DEF Held, Batch
<1>5. \A k \in Cycles, w \in Workers : \A i \in ToSet(inflight[k][w]) : item[i].queue = k
  BY <1>3 DEF Held, Slot
<1> QED BY <1>2, <1>4, <1>5 DEF CyclesApart

LEMMA ChainStaysOpen == ASSUME RunnerInv PROVE ChainOpenForWalks
BY DEF RunnerInv, LifeInv, ChainInPhase, ChainOpenForWalks, Abandoned

\* In a cycle nobody was abandoned in, in flight and unsettled is owed an answer.
LEMMA OwedIsInFlight ==
    ASSUME LifeInv, WorkInv, NEW i \in Items, item[i].queue \notin gaveUp
    PROVE  Unanswered(i) <=> InFlight(i) /\ i \notin Settled
<1>1. ASSUME NEW k \in Cycles, NEW w \in Workers, worker[k][w].pc = "narrow",
             i = Head(worker[k][w].batch)
      PROVE  i \in Held(k, w)
  BY <1>1, WorkFacts DEF Held, Busy
<1>2. ASSUME Unanswered(i) PROVE InFlight(i) /\ i \notin Settled
  <2>1. CASE i \in Waiting
    <3>1. i \notin Settled  BY <1>1, <2>1, WorkFacts DEF Settled
    <3> QED BY <2>1, <3>1 DEF InFlight, Waiting
  <2>2. ASSUME NEW k \in Cycles, NEW w \in Workers, Owed(i, k, w)
        PROVE  InFlight(i) /\ i \notin Settled
    <3>1. i \in Held(k, w) /\ item[i].queue = k  BY <2>2, WorkFacts DEF Owed
    <3>2. i \notin Settled
      <4> SUFFICES ASSUME NEW j \in Cycles, NEW v \in Workers, worker[j][v].pc = "narrow",
                          i = Head(worker[j][v].batch)
                   PROVE  FALSE
        BY DEF Settled
      <4>1. i \in Held(j, v)  BY <1>1
      <4>2. j = k  BY <3>1, <4>1, WorkFacts
      <4>3. v = w  BY <3>1, <4>1, <4>2 DEF WorkInv, WorkersHold
      <4> QED BY <2>2, <4>2, <4>3 DEF Owed
    <3>3. InFlight(i)
      <4>1. CASE i \in Slot(k, w)  BY <4>1 DEF InFlight, Slot
      <4>2. CASE i \in Batch(k, w)
        <5>1. Busy(k, w)  BY <4>2, WorkFacts
        <5>2. slots = k  BY <3>1, <5>1, LiveOrGivenUp DEF Busy, WorkInv
        <5>3. CASE worker[k][w].pc = "publish"  BY <4>2, <5>3 DEF InFlight, Batch
        <5>4. CASE worker[k][w].pc # "publish"
          <6>1. inflight[k][w] = worker[k][w].batch
            BY <5>1, <5>2, <5>4 DEF Busy, WorkInv, SlotsFollow
          <6> QED BY <4>2, <6>1 DEF InFlight, Batch
        <5> QED BY <5>3, <5>4
      <4> QED BY <3>1, <4>1, <4>2 DEF Held
    <3> QED BY <3>2, <3>3
  <2> QED BY <1>2, <2>1, <2>2 DEF Unanswered
<1>3. ASSUME InFlight(i), i \notin Settled PROVE Unanswered(i)
  <2>1. CASE i \in ToSet(queue.items)  BY <2>1 DEF Unanswered, Waiting
  <2>2. ASSUME NEW k \in Cycles, NEW w \in Workers,
               \/ i \in ToSet(inflight[k][w])
               \/ worker[k][w].pc = "publish" /\ i \in ToSet(worker[k][w].batch)
        PROVE  Unanswered(i)
    <3>1. i \in Held(k, w)  BY <2>2 DEF Held, Batch, Slot
    <3>2. Owed(i, k, w)  BY <1>3, <3>1 DEF Owed, Settled
    <3> QED BY <3>2 DEF Unanswered
  <2> QED BY <1>3, <2>1, <2>2 DEF InFlight
<1> QED BY <1>2, <1>3

LEMMA LedgerIsBalanced == ASSUME RunnerInv PROVE LedgerBalances
<1>1. LifeInv /\ WorkInv  BY DEF RunnerInv
<1> SUFFICES ASSUME NEW i \in Items, future[i] # "none", item[i].queue \notin gaveUp
             PROVE  /\ Cardinality(counted[i]) = IF InFlight(i) /\ i \notin Settled THEN 0 ELSE 1
                    /\ future[i] = "result" <=> counted[i] = {"walked"}
  BY DEF LedgerBalances
<1>2. Unanswered(i) <=> InFlight(i) /\ i \notin Settled  BY <1>1, OwedIsInFlight
<1>3. CASE Unanswered(i) /\ future[i] = "pending" /\ counted[i] = {}
  BY <1>2, <1>3, FS_EmptySet
<1>4. CASE ~Unanswered(i) /\ Answered(i)
  <2>1. PICK c \in Counters : counted[i] = {c} /\ (future[i] = "result" <=> c = "walked")
    BY <1>4 DEF Answered
  <2>2. Cardinality({c}) = 1  BY FS_Singleton
  <2> QED BY <1>2, <1>4, <2>1, <2>2
<1> QED BY <1>1, <1>3, <1>4 DEF WorkInv, Ledger

LEMMA ElementsKnow == ASSUME RunnerInv PROVE ElementsKnowCameras
<1>1. op = Idle => op.name = "idle"  OBVIOUS
<1> QED BY <1>1 DEF RunnerInv, CameraInv, AnnouncedInPhase, ElementsKnowCameras, Reading

-----------------------------------------------------------------------------
(* The instance that is model-checked, for every value of its constants.   *)

\* Of the three parts of MCRunners, the runner's.
LEMMA RunnerIsInductive == MCSpec => [](part = "runner" => RunnerInv /\ Leftovers)
<1> DEFINE I == part = "runner" => RunnerInv /\ Leftovers
<1>1. MCInit => I
  <2> SUFFICES ASSUME Init PROVE RunnerInv /\ Leftovers
    BY DEF MCInit, RunnerInit
  <2> QED BY RunnerStarts DEF Init, Leftovers
<1>2. I /\ [MCNext]_<<part, vars, quota, fleetVars, planVars>> => I'
  <2> SUFFICES ASSUME I, [MCNext]_<<part, vars, quota, fleetVars, planVars>>, part' = "runner"
               PROVE  RunnerInv' /\ Leftovers'
    OBVIOUS
  <2>1. part = "runner" /\ [Next]_vars  BY DEF MCNext, RunnerNext
  <2>2. RunnerInv /\ Leftovers /\ CameraInv  BY <2>1 DEF RunnerInv
  <2> QED BY <2>1, <2>2, RunnerStep, LeftoversStep
<1> QED BY <1>1, <1>2, PTL DEF MCSpec

\* StopLeavesNothingOpen: whatever is submitted, published, raised or abandoned, once
\* stop() of runners/inprocess.py has returned every accepted item is answered, except
\* those in an open queue and those a worker it abandoned had not yet written to its
\* slot; in a cycle that abandoned nobody each is counted once; a worker that outlives
\* its join stays in its own cycle's queue; and the elements close behind the last
\* worker that was joined.
THEOREM StopLeavesNothingOpenHolds == MCSpec => []StopLeavesNothingOpen
<1>1. (part = "runner" => RunnerInv /\ Leftovers) => StopLeavesNothingOpen
  BY StoppedIsAnswered, LedgerIsBalanced, CyclesStayApart, ChainStaysOpen
     DEF StopLeavesNothingOpen
<1> QED BY <1>1, RunnerIsInductive, PTL

\* CamerasFollowPlacement: add_camera, remove_camera, drain and stop of runners/inprocess.py
\* leave a camera that still publishes in the band its placement was granted and one that is
\* not placed in none, and tell the elements of every placement and of its end, even where
\* the manager refuses the camera.
THEOREM CamerasFollowPlacementHolds == MCSpec => []CamerasFollowPlacement
<1>1. (part = "runner" => RunnerInv /\ Leftovers) => CamerasFollowPlacement
  BY ElementsKnow DEF CamerasFollowPlacement, RunnerInv, CameraInv, Leftovers, NoBandLeftBehind
<1> QED BY <1>1, RunnerIsInductive, PTL
=============================================================================
