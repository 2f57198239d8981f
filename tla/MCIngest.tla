------------------------------- MODULE MCIngest -------------------------------
(***************************************************************************)
(* The ingest plane on small instances: one camera actor of either plane   *)
(* with its callers, or the Python manager, or the C++ manager, each with  *)
(* three API threads and one camera id that two successive actors may      *)
(* serve; and the HTTP interface that names cameras.  They are             *)
(* independent: part says which one a behaviour is.  The parts are for any *)
(* values of the constants; the values TLC is given are named MC*.         *)
(***************************************************************************)
EXTENDS CameraActor, Integers, FiniteSets, TLC

CONSTANTS
    FleetCameras, FleetCallers, FleetConfigured, FleetActors,   \* of both managers
    Posts, Bodies, Indices, Started, Crowds                     \* of the HTTP interface

(* The server never runs out of names: the code counts up without end.     *)
ASSUME IngestAssumption ==
    /\ FleetConfigured \in Seq(FleetCameras)
    /\ IsFiniteSet(Posts) /\ Bodies \in [Posts -> SUBSET Int]
    /\ Started \subseteq Nat /\ Indices \subseteq Nat
    /\ \A n \in Started :
          IsFiniteSet(Indices) => Cardinality(Indices) >= n + Cardinality(Posts)

VARIABLES part, actors, fleet, requests,
          controller, post, job, answer, taken, unheard, placed, beaten, crowd

Python == INSTANCE CameraFleet WITH
    calls <- requests, Callers <- FleetCallers, Cameras <- FleetCameras,
    Configured <- FleetConfigured, MaxActors <- FleetActors
Cpp == INSTANCE NativeFleet WITH
    calls <- requests, Callers <- FleetCallers, Cameras <- FleetCameras,
    Configured <- FleetConfigured, MaxActors <- FleetActors
Streams == INSTANCE StreamsApi

\* The files of a replay; one camera and three API threads; three POSTs for three
\* names, one of which names its own.
CONSTANTS c1, p1, p2, p3
MCFiles == <<TRUE, FALSE>>
MCConfigured == <<c1>>
MCIndices == 0 .. 2
MCBodies == p1 :> {-1} @@ p2 :> {-1} @@ p3 :> {0}
MCCrowds == {[posts |-> {p1, p2, p3}, removals |-> 0, silences |-> 0],
             [posts |-> {p1, p3}, removals |-> 1, silences |-> 1],
             [posts |-> {p1, p2}, removals |-> 0, silences |-> 1]}

actorVars == <<camera, actor, loop, calls>>
fleetVars == <<actors, fleet, requests>>
streamVars == <<controller, post, job, answer, taken, unheard, placed, beaten, crowd>>

Dormant == [plane |-> "native", kind |-> "live", loop |-> FALSE]
StreamsOff ==
    /\ controller = 0 /\ post = 0 /\ job = 0 /\ answer = 0
    /\ taken = 0 /\ unheard = 0 /\ placed = 0 /\ beaten = 0 /\ crowd = 0

MCInit ==
    \/ part = "actor" /\ Init /\ Python!Init /\ StreamsOff
    \/ part = "python" /\ Python!Init /\ Init /\ camera = Dormant /\ StreamsOff
    \/ part = "cpp" /\ Cpp!Init /\ Init /\ camera = Dormant /\ StreamsOff
    \/ part = "streams" /\ Streams!Init /\ Python!Init /\ Init /\ camera = Dormant

ActorStep == part = "actor" /\ Next /\ UNCHANGED <<part, fleetVars, streamVars>>
PythonStep == part = "python" /\ Python!Next /\ UNCHANGED <<part, actorVars, streamVars>>
CppStep == part = "cpp" /\ Cpp!Next /\ UNCHANGED <<part, actorVars, streamVars>>
StreamsStep == part = "streams" /\ Streams!Next /\ UNCHANGED <<part, actorVars, fleetVars>>

\* The last request has been answered.
StreamsEnd == part = "streams" /\ UNCHANGED <<part, actorVars, fleetVars, streamVars>>

MCNext == ActorStep \/ PythonStep \/ CppStep \/ StreamsStep \/ StreamsEnd

allVars == <<part, actorVars, fleetVars, streamVars>>

(* The fairness of the actor's specification.                              *)
MCSpec ==
    /\ MCInit /\ [][MCNext]_allVars
    /\ WF_allVars(part = "actor" /\ Loop /\ UNCHANGED <<part, fleetVars, streamVars>>)

(* See CameraFleet and NativeFleet: no camera runs out of the manager's    *)
(* reach, no actor is freed under its thread, and a stop() that counts no  *)
(* thread left behind leaves none.                                         *)
FleetHoldsItsThreads ==
    /\ part = "python" => Python!NoOrphanCamera
    /\ part = "cpp" => Cpp!LifetimeSafe /\ Cpp!ZeroMeansFree

\* See StreamsApi: what a request is answered is what it has placed.
OnePostOneCamera ==
    part = "streams" => Streams!OnePostOneCamera /\ Streams!RefusedOnlyIfBeatenTwice
=============================================================================
