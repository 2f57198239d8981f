---------------------------- MODULE IngestProofs ----------------------------
(***************************************************************************)
(* The camera actor, the HTTP interface and the two camera managers, for   *)
(* any callers, requests and thresholds: what a stop() of a camera says,   *)
(* on either plane; what POST /streams answers; and that no manager loses  *)
(* a thread: the Python one keeps its cameras within reach, the C++ one    *)
(* frees no actor under its thread.                                        *)
(***************************************************************************)
EXTENDS MCIngest, FiniteSetTheorems, WellFoundedInduction, TLAPS

-----------------------------------------------------------------------------
(* The camera actor: its inductive invariant.                              *)

Places == {"top", "connect", "open", "fatal", "condemn", "giveup", "read", "empty", "record",
           "put", "closed", "sleep", "leave", "retire", "end"}
CallPlaces == {"idle", "starting", "spawn", "keep", "done",
               "asked", "join", "check", "mark", "answer"}
CallStates == [pc : CallPlaces, fair : BOOLEAN, clean : BOOLEAN]

Actors ==
    [state : States, fatal : BOOLEAN, stop : BOOLEAN,
     thread : {"none", "running", "done"}, handle : {"none", "joinable", "joined", "detached"},
     finished : BOOLEAN, abandoned : BOOLEAN, lock : BOOLEAN,
     fails : Nat, empties : Nat, read : Nat, late : {0, 1}]

ActorTypes ==
    /\ camera \in Cameras /\ actor \in Actors
    /\ "pc" \in DOMAIN loop /\ loop.pc \in Places
    /\ calls \in [Callers -> CallStates]

BeforeSpawn == {"idle", "starting", "spawn"}

\* The thread runs from start() to its last section; "finished" is said in it.
\* A handle that is no longer joinable was joined at its end, or given up.
ThreadAndHandle ==
    /\ calls[Starter].pc \in BeforeSpawn \cup {"keep", "done"}
    /\ calls[Starter].pc \in BeforeSpawn <=> actor.thread = "none"
    /\ calls[Starter].pc \in BeforeSpawn => actor.handle = "none"
    /\ calls[Starter].pc = "done" => actor.handle # "none"
    /\ actor.finished => actor.thread = "done"
    /\ actor.handle = "joined" => actor.finished
    /\ actor.handle = "detached" => actor.abandoned
    /\ actor.thread = "none" => ~actor.fatal /\ actor.late = 0 /\ loop.pc = "top"
    /\ actor.thread = "done" => loop.pc = "end"

\* A stop() of a camera that had been started: once past the join, the thread
\* is over or was abandoned, and it is over if the answer is to be clean.
StoppersKnow ==
    \A c \in Stoppers :
        /\ calls[c].pc \in {"idle", "asked", "join", "check", "mark", "answer", "done"}
        /\ calls[c].fair => calls[c].pc # "idle" /\ calls[Starter].pc = "done"
        /\ calls[c].clean => calls[c].pc \notin {"idle", "asked", "join"}
        /\ calls[c].pc = "join" => actor.thread # "none"
        /\ calls[c].fair /\ calls[c].pc \in {"check", "mark", "answer", "done"} =>
              /\ actor.thread = "done" \/ actor.abandoned
              /\ calls[c].clean => actor.thread = "done"

\* From here stop() may cover up what the camera says.
Excused == actor.abandoned \/ \E c \in Stoppers : calls[c].pc # "idle" /\ ~calls[c].fair

\* A fatal actor is on its way out, and says so from the second step on; no
\* stopper that found it alive still has STOPPED in hand.
FatalKept ==
    /\ actor.fatal => loop.pc \in {"condemn", "giveup", "leave", "end"}
    /\ actor.fatal /\ loop.pc # "condemn" => actor.state = "unhealthy" \/ Excused
    /\ ~Excused => \A c \in Stoppers : calls[c].pc = "mark" => ~actor.fatal

\* The one late frame sends the loop to its next look at the stop event.
OneLate ==
    actor.late = 1 =>
        /\ actor.stop
        /\ loop.pc \in {"top", "closed", "sleep", "fatal", "condemn", "giveup", "leave",
                        "retire", "end"}

IInv == ActorTypes /\ ThreadAndHandle /\ StoppersKnow /\ FatalKept /\ OneLate

-----------------------------------------------------------------------------
(* The actor thread.                                                       *)

LEMMA Base == Init => IInv
<1> SUFFICES ASSUME Init PROVE IInv OBVIOUS
<1>1. ActorTypes
  BY CameraActorAssumption
  DEF Init, ActorTypes, Actors, NewActor, States, Places, CallPlaces, CallStates, Callers
<1>2. ThreadAndHandle BY DEF Init, ThreadAndHandle, NewActor, BeforeSpawn, Callers
<1>3. StoppersKnow BY DEF Init, StoppersKnow, Callers
<1>4. FatalKept /\ OneLate BY DEF Init, FatalKept, OneLate, NewActor
<1> QED BY <1>1, <1>2, <1>3, <1>4 DEF IInv

\* The locked sections leave the actor an actor.
LEMMA Sections ==
    ASSUME NEW a \in Actors
    PROVE  /\ \A st \in States : SetState(a, st) \in Actors
           /\ SetStop(a) \in Actors /\ MarkConnecting(a) \in Actors
           /\ RecordFailure(a) \in Actors /\ RecordFrame(a) \in Actors
           /\ ClearFailures(a) \in Actors
           /\ a.late = 0 => Handed(a) \in Actors /\ RecordFailure(Handed(a)) \in Actors
<1>1. ASSUME NEW b \in Actors, NEW st \in States PROVE SetState(b, st) \in Actors
  BY DEF Actors, SetState
<1>2. SetStop(a) \in Actors BY DEF Actors, SetStop
<1>3. MarkConnecting(a) \in Actors BY DEF Actors, MarkConnecting, States
<1>4. ASSUME NEW b \in Actors PROVE RecordFailure(b) \in Actors
  <2> DEFINE n == IF b.fails < FailuresBeforeUnhealthy THEN b.fails + 1 ELSE b.fails
             st == IF n >= FailuresBeforeUnhealthy THEN "unhealthy" ELSE "degraded"
  <2>1. n \in Nat BY DEF Actors
  <2>2. st \in States BY DEF States
  <2>3. RecordFailure(b) = [b EXCEPT !.fails = n, !.state = st] BY DEF RecordFailure
  <2> HIDE DEF n, st
  <2> QED BY <2>1, <2>2, <2>3 DEF Actors
<1>5. RecordFrame(a) \in Actors
  <2>1. a.read + 1 \in Nat /\ "streaming" \in States BY DEF Actors, States
  <2>2. RecordFrame(a) = [a EXCEPT !.read = a.read + 1, !.state = "streaming"] BY DEF RecordFrame
  <2> QED BY <2>1, <2>2 DEF Actors
<1>6. ClearFailures(a) \in Actors BY DEF Actors, ClearFailures
<1>7. a.late = 0 => Handed(a) \in Actors BY DEF Actors, Handed
<1> QED BY <1>1, <1>2, <1>3, <1>4, <1>5, <1>6, <1>7

\* What a step of the loop has to show for itself: it leaves the thread and its
\* handle alone, it keeps a fatal actor on its way out and unhealthy, and only a
\* step that hands over a frame makes one late.
Moves ==
    /\ actor.thread = "running" /\ UNCHANGED <<camera, calls>>
    /\ actor'.thread = "running" /\ actor'.handle = actor.handle
    /\ actor'.finished = actor.finished /\ actor'.abandoned = actor.abandoned
    /\ actor'.fatal => loop'.pc \in {"condemn", "giveup", "leave", "end"}
    /\ actor'.fatal /\ loop'.pc # "condemn" => actor'.state = "unhealthy" \/ Excused
    /\ OneLate'

LEMMA MovesKeeps ==
    ASSUME IInv, ActorTypes', Moves
    PROVE  IInv'
<1>1. ThreadAndHandle' BY DEF IInv, ThreadAndHandle, Moves
<1>2. StoppersKnow' BY DEF IInv, StoppersKnow, Moves
<1>3. Excused' <=> Excused BY DEF Excused, Moves
<1>4. \A c \in Stoppers : calls[c].pc = "mark" => Excused
  BY DEF IInv, StoppersKnow, Excused, Moves
<1>5. FatalKept' BY <1>3, <1>4 DEF FatalKept, Moves
<1> QED BY <1>1, <1>2, <1>5 DEF IInv, Moves

LEMMA LoopKeeps == ASSUME IInv, Loop PROVE IInv'
<1> USE CameraActorAssumption DEF IInv, At, Goto, TornDown, LoopOnly
<1>1. CASE Top
  <2>1. ActorTypes' BY <1>1 DEF Top, ActorTypes, Places, States
  <2>2. Moves BY <1>1 DEF Top, ActorTypes, Actors, Places, Moves, FatalKept, OneLate
  <2> QED BY <2>1, <2>2, MovesKeeps
<1>2. CASE Connect
  <2>1. ActorTypes'
    <3>1. actor' \in Actors BY <1>2, Sections DEF Connect, ActorTypes, States
    <3> QED BY <1>2, <3>1 DEF Connect, ActorTypes, Places
  <2>2. Moves
    BY <1>2 DEF Connect, MarkConnecting, ActorTypes, Actors, Places, Moves, FatalKept, OneLate
  <2> QED BY <2>1, <2>2, MovesKeeps
<1>3. CASE OpenSucceeds
  <2>1. ActorTypes' BY <1>3 DEF OpenSucceeds, ActorTypes, Actors, Places
  <2>2. Moves BY <1>3 DEF OpenSucceeds, ActorTypes, Actors, Places, Moves, FatalKept, OneLate
  <2> QED BY <2>1, <2>2, MovesKeeps
<1>4. CASE OpenFails
  <2>1. ActorTypes'
    <3>1. actor' \in Actors BY <1>4, Sections DEF OpenFails, ActorTypes, States
    <3> QED BY <1>4, <3>1 DEF OpenFails, ActorTypes, Places
  <2>2. Moves
    BY <1>4 DEF OpenFails, RecordFailure, ActorTypes, Actors, Places, Moves, FatalKept, OneLate
  <2> QED BY <2>1, <2>2, MovesKeeps
<1>5. CASE OpenUnavailable
  <2>1. ActorTypes'
    <3>1. actor' \in Actors BY <1>5, Sections DEF OpenUnavailable, ActorTypes, States
    <3> QED BY <1>5, <3>1 DEF OpenUnavailable, ActorTypes, Places
  <2>2. Moves
    BY <1>5
    DEF OpenUnavailable, RecordFailure, ActorTypes, Actors, Places, Moves, FatalKept, OneLate
  <2> QED BY <2>1, <2>2, MovesKeeps
<1>6. CASE LatchFatal
  <2>1. ActorTypes' BY <1>6 DEF LatchFatal, ActorTypes, Actors, Places
  <2>2. Moves BY <1>6 DEF LatchFatal, ActorTypes, Actors, Places, Moves, FatalKept, OneLate
  <2> QED BY <2>1, <2>2, MovesKeeps
<1>7. CASE Condemn
  <2>1. ActorTypes'
    <3>1. actor' \in Actors BY <1>7, Sections DEF Condemn, ActorTypes, States
    <3> QED BY <1>7, <3>1 DEF Condemn, ActorTypes, Places
  <2>2. Moves
    BY <1>7 DEF Condemn, SetState, ActorTypes, Actors, Places, Moves, FatalKept, OneLate
  <2> QED BY <2>1, <2>2, MovesKeeps
<1>8. CASE GiveUp
  <2>1. ActorTypes'
    <3>1. actor' \in Actors BY <1>8, Sections DEF GiveUp, ActorTypes, States
    <3> QED BY <1>8, <3>1 DEF GiveUp, ActorTypes, Places
  <2>2. Moves BY <1>8 DEF GiveUp, SetStop, ActorTypes, Actors, Places, Moves, FatalKept, OneLate
  <2> QED BY <2>1, <2>2, MovesKeeps
<1>9. CASE ReadFrame
  <2>1. ActorTypes'
    <3>1. actor' \in Actors BY <1>9, Sections DEF ReadFrame, ActorTypes, States
    <3> QED BY <1>9, <3>1 DEF ReadFrame, ActorTypes, Places
  <2>2. Moves
    BY <1>9 DEF ReadFrame, ClearFailures, ActorTypes, Actors, Places, Moves, FatalKept, OneLate
  <2> QED BY <2>1, <2>2, MovesKeeps
<1>10. CASE ReadFails
  <2>1. ActorTypes'
    <3>1. actor' \in Actors BY <1>10, Sections DEF ReadFails, ActorTypes, States
    <3> QED BY <1>10, <3>1 DEF ReadFails, ActorTypes, Places
  <2>2. Moves
    BY <1>10 DEF ReadFails, RecordFailure, ActorTypes, Actors, Places, Moves, FatalKept, OneLate
  <2> QED BY <2>1, <2>2, MovesKeeps
<1>11. CASE ReadRefused
  <2>1. ActorTypes'
    <3>1. actor' \in Actors BY <1>11, Sections DEF ReadRefused, ActorTypes, States
    <3> QED BY <1>11, <3>1 DEF ReadRefused, ActorTypes, Places
  <2>2. Moves
    BY <1>11
    DEF ReadRefused, RecordFailure, ActorTypes, Actors, Places, Moves, FatalKept, OneLate
  <2> QED BY <2>1, <2>2, MovesKeeps
<1>12. CASE ReadNothing
  <2>1. ActorTypes' BY <1>12 DEF ReadNothing, ActorTypes, Actors, Places
  <2>2. Moves BY <1>12 DEF ReadNothing, ActorTypes, Actors, Places, Moves, FatalKept, OneLate
  <2> QED BY <2>1, <2>2, MovesKeeps
<1>13. CASE OnEmptyRead
  <2>1. ActorTypes'
    <3>1. actor' \in Actors BY <1>13, Sections DEF OnEmptyRead, ActorTypes, States
    <3> QED BY <1>13, <3>1 DEF OnEmptyRead, ActorTypes, Places
  <2>2. Moves
    BY ZenonT(30), <1>13
    DEF OnEmptyRead, SetState, RecordFailure, ActorTypes, Actors, Places, Moves, FatalKept,
        OneLate
  <2> QED BY <2>1, <2>2, MovesKeeps
<1>14. CASE Record
  <2>1. ActorTypes'
    <3>1. actor' \in Actors BY <1>14, Sections DEF Record, ActorTypes, States
    <3> QED BY <1>14, <3>1 DEF Record, ActorTypes, Places
  <2>2. Moves
    BY <1>14 DEF Record, RecordFrame, ActorTypes, Actors, Places, Moves, FatalKept, OneLate
  <2> QED BY <2>1, <2>2, MovesKeeps
<1>15. CASE PutAnswered
  <2>1. ActorTypes'
    <3>1. actor.late = 0 BY <1>15 DEF PutAnswered, ActorTypes, Actors, OneLate
    <3>2. actor' \in Actors BY <1>15, <3>1, Sections DEF PutAnswered, ActorTypes
    <3> QED BY <1>15, <3>2 DEF PutAnswered, ActorTypes, Places
  <2>2. Moves
    BY <1>15 DEF PutAnswered, Handed, ActorTypes, Actors, Places, Moves, FatalKept, OneLate
  <2> QED BY <2>1, <2>2, MovesKeeps
<1>16. CASE PutClosed
  <2>1. ActorTypes'
    <3>1. actor.late = 0 BY <1>16 DEF PutClosed, ActorTypes, Actors, OneLate
    <3>2. actor' \in Actors BY <1>16, <3>1, Sections DEF PutClosed, ActorTypes
    <3> QED BY <1>16, <3>2 DEF PutClosed, ActorTypes, Places
  <2>2. Moves
    BY <1>16 DEF PutClosed, Handed, ActorTypes, Actors, Places, Moves, FatalKept, OneLate
  <2> QED BY <2>1, <2>2, MovesKeeps
<1>17. CASE SinkClosed
  <2>1. ActorTypes'
    <3>1. actor' \in Actors BY <1>17, Sections DEF SinkClosed, ActorTypes, States
    <3> QED BY <1>17, <3>1 DEF SinkClosed, ActorTypes, Places
  <2>2. Moves
    BY <1>17 DEF SinkClosed, SetStop, ActorTypes, Actors, Places, Moves, FatalKept, OneLate
  <2> QED BY <2>1, <2>2, MovesKeeps
<1>18. CASE PutRaises
  <2>1. ActorTypes'
    <3>1. actor.late = 0 BY <1>18 DEF PutRaises, ActorTypes, Actors, OneLate
    <3>2. actor' \in Actors BY <1>18, <3>1, Sections DEF PutRaises, ActorTypes
    <3> QED BY <1>18, <3>2 DEF PutRaises, ActorTypes, Places
  <2>2. Moves
    BY <1>18
    DEF PutRaises, Handed, RecordFailure, ActorTypes, Actors, Places, Moves, FatalKept, OneLate
  <2> QED BY <2>1, <2>2, MovesKeeps
<1>19. CASE Sleep
  <2>1. ActorTypes' BY <1>19 DEF Sleep, ActorTypes, Places, States
  <2>2. Moves BY <1>19 DEF Sleep, ActorTypes, Actors, Places, Moves, FatalKept, OneLate
  <2> QED BY <2>1, <2>2, MovesKeeps
<1>20. CASE Leave
  <2>1. ActorTypes' BY <1>20 DEF Leave, StateIsFinal, ActorTypes, Places, States
  <2>2. Moves
    BY <1>20 DEF Leave, StateIsFinal, ActorTypes, Actors, Places, Moves, FatalKept, OneLate
  <2> QED BY <2>1, <2>2, MovesKeeps
<1>21. CASE Retire
  <2>1. ActorTypes'
    <3>1. actor' \in Actors BY <1>21, Sections DEF Retire, ActorTypes, States
    <3> QED BY <1>21, <3>1 DEF Retire, ActorTypes, Places
  <2>2. Moves
    BY <1>21 DEF Retire, SetState, ActorTypes, Actors, Places, Moves, FatalKept, OneLate
  <2> QED BY <2>1, <2>2, MovesKeeps
<1>22. CASE ThreadEnds
  <2>1. ActorTypes' BY <1>22 DEF ThreadEnds, ActorTypes, Actors
  <2>2. /\ actor.thread = "running" /\ UNCHANGED <<camera, calls, loop>>
        /\ actor'.thread = "done" /\ actor'.handle = actor.handle
        /\ actor'.finished = TRUE /\ actor'.abandoned = actor.abandoned
        /\ actor'.fatal = actor.fatal /\ actor'.state = actor.state
        /\ actor'.late = actor.late /\ actor'.stop = actor.stop
    BY <1>22 DEF ThreadEnds, ActorTypes, Actors
  <2>3. ThreadAndHandle' BY <1>22, <2>2 DEF ThreadAndHandle, ThreadEnds
  <2>4. StoppersKnow' BY <2>2 DEF StoppersKnow
  <2>5. Excused' <=> Excused BY <2>2 DEF Excused
  <2>6. FatalKept' /\ OneLate' BY <2>2, <2>5 DEF FatalKept, OneLate
  <2> QED BY <2>1, <2>3, <2>4, <2>6
<1> QED
  BY <1>1, <1>2, <1>3, <1>4, <1>5, <1>6, <1>7, <1>8, <1>9, <1>10, <1>11, <1>12, <1>13, <1>14,
     <1>15, <1>16, <1>17, <1>18, <1>19, <1>20, <1>21, <1>22
  DEF Loop

-----------------------------------------------------------------------------
(* The callers.                                                            *)

LEMMA StarterKeeps ==
    ASSUME IInv, StartBegins \/ StartGoesOn \/ Spawn \/ KeepHandle
    PROVE  IInv'
<1> USE CameraActorAssumption DEF IInv, CallerAt, Step, CallOnly, BeforeSpawn, Callers
<1>1. CASE StartBegins
  <2>1. actor' \in Actors BY <1>1 DEF StartBegins, SetState, ActorTypes, Actors, States
  <2>2. ActorTypes' BY <1>1, <2>1 DEF StartBegins, ActorTypes, CallPlaces, CallStates
  <2>3. ThreadAndHandle'
    BY <1>1 DEF StartBegins, SetState, ActorTypes, Actors, CallStates, ThreadAndHandle
  <2>4. StoppersKnow'
    BY <1>1
    DEF StartBegins, SetState, ActorTypes, Actors, CallStates, StoppersKnow, ThreadAndHandle
  <2>5. Excused' <=> Excused
    BY <1>1 DEF StartBegins, SetState, ActorTypes, Actors, CallStates, Excused
  <2>6. FatalKept' /\ OneLate'
    BY <1>1, <2>5
    DEF StartBegins, SetState, ActorTypes, Actors, CallStates, ThreadAndHandle, FatalKept,
        OneLate
  <2> QED BY <2>2, <2>3, <2>4, <2>6
<1>2. CASE StartGoesOn
  <2>1. actor' \in Actors BY <1>2 DEF StartGoesOn, SetState, ActorTypes, Actors, States
  <2>2. ActorTypes' BY <1>2, <2>1 DEF StartGoesOn, ActorTypes, CallPlaces, CallStates
  <2>3. ThreadAndHandle'
    BY <1>2 DEF StartGoesOn, SetState, ActorTypes, Actors, CallStates, ThreadAndHandle
  <2>4. StoppersKnow'
    BY <1>2
    DEF StartGoesOn, SetState, ActorTypes, Actors, CallStates, StoppersKnow, ThreadAndHandle
  <2>5. Excused' <=> Excused
    BY <1>2 DEF StartGoesOn, SetState, ActorTypes, Actors, CallStates, Excused
  <2>6. FatalKept' /\ OneLate'
    BY <1>2, <2>5
    DEF StartGoesOn, SetState, ActorTypes, Actors, CallStates, ThreadAndHandle, FatalKept,
        OneLate
  <2> QED BY <2>2, <2>3, <2>4, <2>6
<1>3. CASE Spawn
  <2>1. actor' \in Actors BY <1>3 DEF Spawn, ActorTypes, Actors, States
  <2>2. ActorTypes' BY <1>3, <2>1 DEF Spawn, ActorTypes, CallPlaces, CallStates
  <2>3. ThreadAndHandle' BY <1>3 DEF Spawn, ActorTypes, Actors, CallStates, ThreadAndHandle
  <2>4. StoppersKnow'
    BY <1>3 DEF Spawn, ActorTypes, Actors, CallStates, StoppersKnow, ThreadAndHandle
  <2>5. Excused' <=> Excused BY <1>3 DEF Spawn, ActorTypes, Actors, CallStates, Excused
  <2>6. FatalKept' /\ OneLate'
    BY <1>3, <2>5 DEF Spawn, ActorTypes, Actors, CallStates, ThreadAndHandle, FatalKept, OneLate
  <2> QED BY <2>2, <2>3, <2>4, <2>6
<1>4. CASE KeepHandle
  <2>1. actor' \in Actors BY <1>4 DEF KeepHandle, ActorTypes, Actors, States
  <2>2. ActorTypes' BY <1>4, <2>1 DEF KeepHandle, ActorTypes, CallPlaces, CallStates
  <2>3. ThreadAndHandle' BY <1>4 DEF KeepHandle, ActorTypes, Actors, CallStates, ThreadAndHandle
  <2>4. StoppersKnow'
    BY <1>4 DEF KeepHandle, ActorTypes, Actors, CallStates, StoppersKnow, ThreadAndHandle
  <2>5. Excused' <=> Excused BY <1>4 DEF KeepHandle, ActorTypes, Actors, CallStates, Excused
  <2>6. FatalKept' /\ OneLate'
    BY <1>4, <2>5
    DEF KeepHandle, ActorTypes, Actors, CallStates, ThreadAndHandle, FatalKept, OneLate
  <2> QED BY <2>2, <2>3, <2>4, <2>6
<1> QED BY <1>1, <1>2, <1>3, <1>4

LEMMA CallMoves ==
    ASSUME ActorTypes, NEW c \in Callers, NEW p \in CallPlaces, NEW b \in BOOLEAN
    PROVE  /\ [calls EXCEPT ![c].pc = p] \in [Callers -> CallStates]
           /\ [calls EXCEPT ![c].pc = p, ![c].fair = b] \in [Callers -> CallStates]
           /\ [calls EXCEPT ![c].pc = p, ![c].clean = b] \in [Callers -> CallStates]
<1>1. calls[c] \in CallStates BY DEF ActorTypes
<1>2. /\ [calls[c] EXCEPT !.pc = p] \in CallStates
      /\ [[calls[c] EXCEPT !.pc = p] EXCEPT !.fair = b] \in CallStates
      /\ [[calls[c] EXCEPT !.pc = p] EXCEPT !.clean = b] \in CallStates
  BY <1>1 DEF CallStates
<1> QED BY <1>2 DEF ActorTypes

LEMMA StopperKeeps ==
    ASSUME IInv, NEW c \in Stoppers,
           \/ RequestStop(c) \/ LookAtThread(c) \/ LockLifecycle(c) \/ JoinEnds(c)
           \/ JoinTimesOut(c) \/ CheckFinal(c) \/ MarkStopped(c) \/ StopAnswers(c)
    PROVE  IInv'
<1> USE CameraActorAssumption DEF IInv, CallerAt, Step, CallOnly, Callers
<1>1. CASE RequestStop(c)
  <2>1. actor' \in Actors BY <1>1 DEF RequestStop, SetStop, ActorTypes, Actors, States
  <2>2. ActorTypes' BY <1>1, <2>1, CallMoves DEF RequestStop, ActorTypes, CallPlaces
  <2>3. ThreadAndHandle'
    BY <1>1 DEF RequestStop, SetStop, ActorTypes, Actors, CallStates, ThreadAndHandle
  <2>4. StoppersKnow'
    BY <1>1
    DEF RequestStop, SetStop, ActorTypes, Actors, CallStates, StoppersKnow, ThreadAndHandle
  <2>5. Excused => Excused'
    BY <1>1 DEF RequestStop, SetStop, ActorTypes, Actors, CallStates, Excused
  <2>6. FatalKept'
    BY <1>1, <2>5
    DEF RequestStop, SetStop, ActorTypes, Actors, CallStates, ThreadAndHandle, StoppersKnow,
        FatalKept, Excused
  <2>7. OneLate' BY <1>1 DEF RequestStop, SetStop, ActorTypes, Actors, OneLate
  <2> QED BY <2>2, <2>3, <2>4, <2>6, <2>7
<1>2. CASE LookAtThread(c)
  <2>1. actor' \in Actors BY <1>2 DEF LookAtThread, ActorTypes, Actors, States
  <2>2. ActorTypes' BY <1>2, <2>1, CallMoves DEF LookAtThread, ActorTypes, CallPlaces
  <2>3. ThreadAndHandle'
    BY <1>2 DEF LookAtThread, ActorTypes, Actors, CallStates, ThreadAndHandle
  <2>4. StoppersKnow'
    BY <1>2 DEF LookAtThread, ActorTypes, Actors, CallStates, StoppersKnow, ThreadAndHandle
  <2>5. Excused => Excused' BY <1>2 DEF LookAtThread, ActorTypes, Actors, CallStates, Excused
  <2>6. FatalKept'
    BY <1>2, <2>5
    DEF LookAtThread, ActorTypes, Actors, CallStates, ThreadAndHandle, StoppersKnow, FatalKept,
        Excused
  <2>7. OneLate' BY <1>2 DEF LookAtThread, ActorTypes, Actors, OneLate
  <2> QED BY <2>2, <2>3, <2>4, <2>6, <2>7
<1>3. CASE LockLifecycle(c)
  <2>1. actor' \in Actors BY ZenonT(30), <1>3 DEF LockLifecycle, ActorTypes, Actors, States
  <2>2. ActorTypes'
    <3>1. CASE actor.handle = "joinable"
      <4>1. calls' = [calls EXCEPT ![c].pc = "join"] BY <1>3, <3>1 DEF LockLifecycle
      <4>2. calls' \in [Callers -> CallStates] BY <4>1, CallMoves DEF CallPlaces
      <4> QED BY <1>3, <2>1, <4>2 DEF LockLifecycle, ActorTypes
    <3>2. CASE actor.handle # "joinable"
      <4> DEFINE b == ~actor.abandoned
      <4>1. b \in BOOLEAN /\ calls' = [calls EXCEPT ![c].pc = "check", ![c].clean = b]
        BY <1>3, <3>2 DEF LockLifecycle
      <4> HIDE DEF b
      <4>2. calls' \in [Callers -> CallStates] BY <4>1, CallMoves DEF CallPlaces
      <4> QED BY <1>3, <2>1, <4>2 DEF LockLifecycle, ActorTypes
    <3> QED BY <3>1, <3>2
  <2>3. ThreadAndHandle'
    BY SMTT(30), <1>3 DEF LockLifecycle, ActorTypes, Actors, CallStates, ThreadAndHandle
  <2>4. StoppersKnow'
    <3>1. CASE actor.handle = "joinable"
      <4>1. /\ actor'.thread = actor.thread /\ actor'.abandoned = actor.abandoned
            /\ \A d \in Callers \ {c} : calls'[d] = calls[d]
            /\ calls[c].pc = "asked" /\ calls'[c].pc = "join"
            /\ calls'[c].fair = calls[c].fair /\ calls'[c].clean = calls[c].clean
        BY <1>3, <3>1 DEF LockLifecycle, ActorTypes, Actors, CallStates
      <4>2. actor.thread # "none" BY <3>1 DEF ThreadAndHandle, BeforeSpawn
      <4> QED BY <4>1, <4>2 DEF StoppersKnow
    <3>2. CASE actor.handle # "joinable"
      <4>1. calls[c].fair => actor.thread = "done" \/ actor.abandoned
        BY <1>3, <3>2 DEF LockLifecycle, ActorTypes, Actors, StoppersKnow, ThreadAndHandle
      <4>2. /\ UNCHANGED actor /\ calls'[Starter] = calls[Starter]
            /\ \A d \in Stoppers \ {c} : calls'[d] = calls[d]
            /\ calls'[c].pc = "check" /\ calls'[c].fair = calls[c].fair
            /\ calls'[c].clean <=> ~actor.abandoned
        BY <1>3, <3>2 DEF LockLifecycle, ActorTypes, CallStates
      <4> QED BY <1>3, <4>1, <4>2 DEF LockLifecycle, StoppersKnow
    <3> QED BY <3>1, <3>2
  <2>5. Excused => Excused'
    <3>1. /\ actor'.abandoned = actor.abandoned
          /\ \A d \in Stoppers :
                \/ calls'[d].fair = calls[d].fair /\ calls'[d].pc # "idle"
                \/ calls'[d] = calls[d]
      BY <1>3 DEF LockLifecycle, ActorTypes, Actors, CallStates
    <3> QED BY <3>1 DEF Excused
  <2>6. FatalKept'
    BY SMTT(30), <1>3, <2>5
    DEF LockLifecycle, ActorTypes, Actors, CallStates, ThreadAndHandle, StoppersKnow, FatalKept,
        Excused
  <2>7. OneLate' BY SMTT(30), <1>3 DEF LockLifecycle, ActorTypes, Actors, OneLate
  <2> QED BY <2>2, <2>3, <2>4, <2>6, <2>7
<1>4. CASE JoinEnds(c)
  <2>1. actor' \in Actors BY <1>4 DEF JoinEnds, ActorTypes, Actors, States
  <2>2. ActorTypes' BY <1>4, <2>1, CallMoves DEF JoinEnds, ActorTypes, CallPlaces
  <2>3. ThreadAndHandle' BY <1>4 DEF JoinEnds, ActorTypes, Actors, CallStates, ThreadAndHandle
  <2>4. StoppersKnow'
    BY <1>4 DEF JoinEnds, ActorTypes, Actors, CallStates, StoppersKnow, ThreadAndHandle
  <2>5. Excused => Excused' BY <1>4 DEF JoinEnds, ActorTypes, Actors, CallStates, Excused
  <2>6. FatalKept'
    BY <1>4, <2>5
    DEF JoinEnds, ActorTypes, Actors, CallStates, ThreadAndHandle, StoppersKnow, FatalKept,
        Excused
  <2>7. OneLate' BY <1>4 DEF JoinEnds, ActorTypes, Actors, OneLate
  <2> QED BY <2>2, <2>3, <2>4, <2>6, <2>7
<1>5. CASE JoinTimesOut(c)
  <2>1. actor' \in Actors BY <1>5 DEF JoinTimesOut, ActorTypes, Actors, States
  <2>2. ActorTypes' BY <1>5, <2>1, CallMoves DEF JoinTimesOut, ActorTypes, CallPlaces
  <2>3. ThreadAndHandle'
    <3>1. /\ calls'[Starter] = calls[Starter] /\ UNCHANGED loop
          /\ actor'.abandoned = TRUE /\ actor'.thread = actor.thread
          /\ actor'.handle \in {actor.handle, "detached"} /\ actor'.finished = actor.finished
          /\ actor'.fatal = actor.fatal /\ actor'.late = actor.late
      BY <1>5 DEF JoinTimesOut, ActorTypes, Actors, CallStates
    <3>2. calls[Starter].pc \notin BeforeSpawn
      BY <1>5 DEF JoinTimesOut, StoppersKnow, ThreadAndHandle
    <3> QED BY <3>1, <3>2 DEF ThreadAndHandle
  <2>4. StoppersKnow'
    BY <1>5 DEF JoinTimesOut, ActorTypes, Actors, CallStates, StoppersKnow, ThreadAndHandle
  <2>5. Excused => Excused' BY <1>5 DEF JoinTimesOut, ActorTypes, Actors, CallStates, Excused
  <2>6. FatalKept'
    BY <1>5, <2>5
    DEF JoinTimesOut, ActorTypes, Actors, CallStates, ThreadAndHandle, StoppersKnow, FatalKept,
        Excused
  <2>7. OneLate' BY <1>5 DEF JoinTimesOut, ActorTypes, Actors, OneLate
  <2> QED BY <2>2, <2>3, <2>4, <2>6, <2>7
<1>6. CASE CheckFinal(c)
  <2>1. actor' \in Actors BY <1>6 DEF CheckFinal, StateIsFinal, ActorTypes, Actors, States
  <2>2. ActorTypes' BY <1>6, <2>1, CallMoves DEF CheckFinal, ActorTypes, CallPlaces
  <2>3. ThreadAndHandle'
    BY <1>6 DEF CheckFinal, StateIsFinal, ActorTypes, Actors, CallStates, ThreadAndHandle
  <2>4. StoppersKnow'
    BY <1>6
    DEF CheckFinal, StateIsFinal, ActorTypes, Actors, CallStates, StoppersKnow, ThreadAndHandle
  <2>5. Excused => Excused'
    BY <1>6 DEF CheckFinal, StateIsFinal, ActorTypes, Actors, CallStates, Excused
  <2>6. FatalKept'
    BY <1>6, <2>5
    DEF CheckFinal, StateIsFinal, ActorTypes, Actors, CallStates, ThreadAndHandle, StoppersKnow,
        FatalKept, Excused
  <2>7. OneLate' BY <1>6 DEF CheckFinal, StateIsFinal, ActorTypes, Actors, OneLate
  <2> QED BY <2>2, <2>3, <2>4, <2>6, <2>7
<1>7. CASE MarkStopped(c)
  <2>1. actor' \in Actors BY <1>7 DEF MarkStopped, SetState, ActorTypes, Actors, States
  <2>2. ActorTypes' BY <1>7, <2>1, CallMoves DEF MarkStopped, ActorTypes, CallPlaces
  <2>3. ThreadAndHandle'
    BY <1>7 DEF MarkStopped, SetState, ActorTypes, Actors, CallStates, ThreadAndHandle
  <2>4. StoppersKnow'
    BY <1>7
    DEF MarkStopped, SetState, ActorTypes, Actors, CallStates, StoppersKnow, ThreadAndHandle
  <2>5. Excused => Excused'
    BY <1>7 DEF MarkStopped, SetState, ActorTypes, Actors, CallStates, Excused
  <2>6. FatalKept'
    BY <1>7, <2>5
    DEF MarkStopped, SetState, ActorTypes, Actors, CallStates, ThreadAndHandle, StoppersKnow,
        FatalKept, Excused
  <2>7. OneLate' BY <1>7 DEF MarkStopped, SetState, ActorTypes, Actors, OneLate
  <2> QED BY <2>2, <2>3, <2>4, <2>6, <2>7
<1>8. CASE StopAnswers(c)
  <2>1. actor' \in Actors BY <1>8 DEF StopAnswers, ActorTypes, Actors, States
  <2>2. ActorTypes'
    <3>1. PICK b \in BOOLEAN : calls' = [calls EXCEPT ![c].pc = "done", ![c].clean = b]
      <4> DEFINE b == IF Native THEN calls[c].clean ELSE ~actor.abandoned
      <4>1. calls[c].clean \in BOOLEAN BY DEF ActorTypes, CallStates
      <4>2. b \in BOOLEAN BY <4>1
      <4>3. calls' = [calls EXCEPT ![c].pc = "done", ![c].clean = b] BY <1>8 DEF StopAnswers
      <4> HIDE DEF b
      <4> QED BY <4>2, <4>3
    <3>2. calls' \in [Callers -> CallStates] BY <3>1, CallMoves DEF CallPlaces
    <3> QED BY <1>8, <2>1, <3>2 DEF StopAnswers, ActorTypes
  <2>3. ThreadAndHandle' BY <1>8 DEF StopAnswers, ActorTypes, Actors, CallStates, ThreadAndHandle
  <2>4. StoppersKnow'
    BY <1>8 DEF StopAnswers, ActorTypes, Actors, CallStates, StoppersKnow, ThreadAndHandle
  <2>5. Excused => Excused' BY <1>8 DEF StopAnswers, ActorTypes, Actors, CallStates, Excused
  <2>6. FatalKept'
    BY <1>8, <2>5
    DEF StopAnswers, ActorTypes, Actors, CallStates, ThreadAndHandle, StoppersKnow, FatalKept,
        Excused
  <2>7. OneLate' BY <1>8 DEF StopAnswers, ActorTypes, Actors, OneLate
  <2> QED BY <2>2, <2>3, <2>4, <2>6, <2>7
<1> QED BY <1>1, <1>2, <1>3, <1>4, <1>5, <1>6, <1>7, <1>8

-----------------------------------------------------------------------------
\* The inductive invariant: what a stopper knows of the thread, and what a fatal
\* or a late frame forces the loop to do next.
THEOREM Inductive == Spec => []IInv
<1>1. IInv /\ [Next]_vars => IInv'
  <2> SUFFICES ASSUME IInv, [Next]_vars PROVE IInv' OBVIOUS
  <2>1. CASE Loop BY <2>1, LoopKeeps
  <2>2. CASE Call BY <2>2, StarterKeeps, StopperKeeps DEF Call
  <2>3. CASE UNCHANGED vars
    BY <2>3
    DEF vars, IInv, ActorTypes, ThreadAndHandle, StoppersKnow, FatalKept, Excused, OneLate
  <2> QED BY <2>1, <2>2, <2>3 DEF Next, AllReturned
<1> QED BY <1>1, Base, PTL DEF Spec

\* CameraActor.stop() tells the truth on both planes: answered clean on a started
\* camera it leaves no thread, it covers up no camera that gave up, and the sink
\* gets at most one frame after it.
THEOREM StopsTellTheTruth == Spec => []StopTellsTheTruth
<1>1. ASSUME IInv PROVE StopTellsTheTruth
  <2> USE <1>1 DEF IInv
  <2>1. CleanStopMeansEnded BY DEF StoppersKnow, CleanStopMeansEnded
  <2>2. FatalStaysVisible
    <3>1. actor.thread = "done" => loop.pc = "end" BY DEF ThreadAndHandle
    <3> QED BY <3>1 DEF FatalKept, FatalStaysVisible, Excused
  <2>3. AtMostOneLateFrame BY DEF ActorTypes, Actors, AtMostOneLateFrame
  <2> QED BY <2>1, <2>2, <2>3 DEF StopTellsTheTruth
<1> QED BY <1>1, Inductive, PTL

-----------------------------------------------------------------------------
(* The HTTP interface: its inductive invariant.                            *)

PostAt(p) == post[p].at
NamingPcs == {"naming", "renaming"}
HandingPcs == {"handing", "rehanding"}
AwaitingPcs == NamingPcs \cup HandingPcs \cup {"reporting"}
PostPcs == AwaitingPcs \cup {"idle", "answered"}
Results == {"none", "failed", "report", "down", "invalid", "duplicate", "placed"}
Outcomes == [result : Results, report : SUBSET Int]
PostStates == [at : PostPcs, own : Int, id : Int]
JobStates == [at : {"none", "called", "asking", "done"}, kind : {"none", "health", "report", "add"},
              id : Int, out : Outcomes]
Replies == [status : Nat, id : Int, listed : BOOLEAN, duplicate : BOOLEAN]
Controllers == [manages : BOOLEAN, cams : SUBSET Int]

ApiTypes ==
    /\ controller \in Controllers
    /\ post \in [Posts -> PostStates]
    /\ job \in [Posts -> JobStates]
    /\ answer \in [Posts -> Replies]
    /\ taken \in [Posts -> SUBSET Int]
    /\ unheard \in [Posts -> SUBSET Int]
    /\ placed \in [Posts -> SUBSET Int]
    /\ beaten \in [Posts -> 0 .. 2]

\* p's call is over, with this result.
Returned(p, result) == job[p].at = "done" /\ job[p].out.result = result

\* What a coroutine awaits, and what its call has taken and placed.
ApiCalls(p) ==
    /\ PostAt(p) = "idle" => job[p].at = "none" /\ taken[p] = {}
    /\ PostAt(p) \in AwaitingPcs => job[p].at \in {"called", "asking", "done"}
    /\ PostAt(p) \in NamingPcs => job[p].kind = "health" /\ post[p].own = -1 /\ taken[p] = {}
    /\ PostAt(p) \in NamingPcs /\ job[p].at = "done" => Returned(p, "failed")
          \/ Returned(p, "report")
    /\ PostAt(p) \in HandingPcs =>
          /\ job[p].kind = "add" /\ job[p].id = post[p].id
          /\ Returned(p, "placed") => placed[p] = {post[p].id} /\ unheard[p] = {}
          /\ Returned(p, "down") => placed[p] \subseteq unheard[p]
          /\ job[p].at = "done" /\ job[p].out.result \notin {"placed", "down"} => taken[p] = {}
    /\ PostAt(p) = "rehanding" => post[p].own = -1
    /\ PostAt(p) = "reporting" =>
          /\ job[p].kind = "report" /\ placed[p] = {post[p].id} /\ unheard[p] = {}
          /\ ~Returned(p, "failed")
    /\ job[p].at = "called" /\ job[p].kind = "add" => taken[p] = {}
    /\ job[p].at = "asking" =>
          /\ job[p].kind = "add" /\ taken[p] = {job[p].id}
          /\ placed[p] = {} /\ unheard[p] = {}
    /\ taken[p] = {} \/ \E id \in taken[p] : taken[p] = {id}
    /\ placed[p] \subseteq taken[p] /\ unheard[p] \subseteq taken[p]

\* What the answer says of it.
ApiAnswers(p) ==
    /\ PostAt(p) # "answered" => answer[p].status = 0 /\ ~answer[p].duplicate
    /\ answer[p].status = 201 => placed[p] = {answer[p].id} /\ unheard[p] = {}
    /\ answer[p].status \in {400, 501} => taken[p] = {}
    /\ answer[p].status = 503 => placed[p] \subseteq unheard[p]
    /\ answer[p].status \in {400, 501, 503} => job[p].at \notin {"called", "asking"}

\* A name minted from a report is free, or another name was taken since.
Fresh(p, n) == controller.cams \subseteq job[p].out.report \/ beaten[p] >= n
Free(p, n) ==
    (job[p].at = "called" /\ post[p].id \in controller.cams) \/ Returned(p, "duplicate")
        => beaten[p] >= n

ApiBeaten(p) ==
    /\ PostAt(p) = "naming" /\ Returned(p, "report") => Fresh(p, 1)
    /\ PostAt(p) = "handing" /\ post[p].own = -1 => Free(p, 1)
    /\ PostAt(p) = "renaming" => beaten[p] >= 1 /\ (Returned(p, "report") => Fresh(p, 2))
    /\ PostAt(p) = "rehanding" => beaten[p] >= 1 /\ Free(p, 2)
    /\ answer[p].duplicate /\ post[p].own = -1 => beaten[p] >= 2

\* The names are those of the command line and those the requests have taken.
From(n, cams) ==
    \A id \in cams : id \in 0 .. n - 1 \/ \E q \in Posts : id \in taken[q]

ApiSources ==
    \E n \in Started :
        /\ From(n, controller.cams)
        /\ \A p \in Posts : PostAt(p) \in NamingPcs /\ Returned(p, "report") =>
              From(n, job[p].out.report)

ApiInv ==
    /\ ApiTypes /\ ApiSources
    /\ \A p \in Posts : ApiCalls(p) /\ ApiAnswers(p) /\ ApiBeaten(p)

-----------------------------------------------------------------------------
(* The HTTP interface keeps its invariant.                                 *)

Apart(p) == \A q \in Posts : q # p => post'[q] = post[q] /\ job'[q] = job[q]
      /\ answer'[q] = answer[q]

\* A request that does not move keeps its facts.
LEMMA StandStill ==
    ASSUME NEW p \in Posts, NEW q \in Posts, q # p, Apart(p),
           UNCHANGED <<controller, taken, unheard, placed, beaten>>,
           ApiCalls(q), ApiAnswers(q), ApiBeaten(q)
    PROVE  ApiCalls(q)' /\ ApiAnswers(q)' /\ ApiBeaten(q)'
<1>1. /\ post'[q] = post[q] /\ job'[q] = job[q] /\ answer'[q] = answer[q]
      /\ controller' = controller /\ taken' = taken /\ unheard' = unheard
      /\ placed' = placed /\ beaten' = beaten
  BY DEF Apart
<1>2. ApiCalls(q)' BY <1>1 DEF ApiCalls, PostAt, Returned
<1>3. ApiAnswers(q)' BY <1>1 DEF ApiAnswers, PostAt
<1>4. ApiBeaten(q)' BY <1>1 DEF ApiBeaten, PostAt, Returned, Fresh, Free
<1>. QED BY <1>2, <1>3, <1>4

\* A step of one request is a step of its own facts.
LEMMA StepOfOne ==
    ASSUME ApiInv, NEW p \in Posts, Apart(p),
           UNCHANGED <<controller, taken, unheard, placed, beaten>>,
           ApiTypes',
           ApiCalls(p)', ApiAnswers(p)', ApiBeaten(p)',
           \A n \in Started :
               From(n, controller.cams) /\ (PostAt(p) \in NamingPcs /\ Returned(p, "report") =>
                                                From(n, job[p].out.report))
               => (PostAt(p)' \in NamingPcs /\ Returned(p, "report")' =>
                                                From(n, job'[p].out.report))
    PROVE  ApiInv'
<1>1. \A q \in Posts : (ApiCalls(q) /\ ApiAnswers(q) /\ ApiBeaten(q))'
  BY StandStill DEF ApiInv
<1>2. ApiSources'
  <2>1. PICK n \in Started :
          /\ From(n, controller.cams)
          /\ \A q \in Posts : PostAt(q) \in NamingPcs /\ Returned(q, "report") =>
                From(n, job[q].out.report)
    BY DEF ApiInv, ApiSources
  <2>2. controller' = controller /\ taken' = taken OBVIOUS
  <2>3. From(n, controller.cams)' BY <2>1, <2>2 DEF From
  <2>4. ASSUME NEW q \in Posts, PostAt(q)' \in NamingPcs, Returned(q, "report")'
        PROVE  From(n, job[q].out.report)'
    <3>1. CASE q = p BY <2>1, <2>2, <2>4, <3>1 DEF From
    <3>2. CASE q # p BY <2>1, <2>2, <2>4, <3>2 DEF From, Apart, PostAt, Returned
    <3>. QED BY <3>1, <3>2
  <2>. QED BY <2>3, <2>4 DEF ApiSources
<1>. QED BY <1>1, <1>2 DEF ApiInv

\* What giving a call to the worker threads changes.
LEMMA SubmitsFacts ==
    ASSUME ApiTypes, NEW p \in Posts, NEW at \in PostPcs,
           NEW kind \in {"none", "health", "report", "add"},
           NEW id \in Int, Streams!Submits(p, at, kind, id)
    PROVE  /\ post' \in [Posts -> PostStates] /\ job' \in [Posts -> JobStates]
           /\ \A q \in Posts : q # p => post'[q] = post[q] /\ job'[q] = job[q]
           /\ post'[p].at = at /\ post'[p].own = post[p].own /\ post'[p].id = id
           /\ job'[p].at = "called" /\ job'[p].kind = kind /\ job'[p].id = id
           /\ job'[p].out.result = "none"
<1>1. /\ post \in [Posts -> PostStates] /\ job \in [Posts -> JobStates]
      /\ post[p] \in PostStates
  BY DEF ApiTypes
<1>. DEFINE r == [post[p] EXCEPT !.at = at, !.id = id]
            out == [result |-> "none", report |-> {}]
            j == [at |-> "called", kind |-> kind, id |-> id, out |-> out]
<1>2. post' = [post EXCEPT ![p] = r] /\ job' = [job EXCEPT ![p] = j]
  BY DEF Streams!Submits, Streams!NoOutcome, Streams!Unknown
<1>3. r \in PostStates /\ r.at = at /\ r.own = post[p].own /\ r.id = id BY <1>1 DEF PostStates
<1>4. out \in Outcomes /\ out.result = "none" BY DEF Outcomes, Results
<1>. HIDE DEF r, out
<1>5. j \in JobStates /\ j.at = "called" /\ j.kind = kind /\ j.id = id /\ j.out.result = "none"
  BY <1>4 DEF JobStates
<1>. HIDE DEF j
<1>. QED BY <1>1, <1>2, <1>3, <1>5

\* What answering changes.
LEMMA AnswersFacts ==
    ASSUME ApiTypes, NEW p \in Posts, NEW a \in Replies, Streams!Answers(p, a)
    PROVE  /\ post' \in [Posts -> PostStates] /\ answer' \in [Posts -> Replies]
           /\ \A q \in Posts : q # p => post'[q] = post[q] /\ answer'[q] = answer[q]
           /\ post'[p].at = "answered" /\ post'[p].own = post[p].own /\ post'[p].id = post[p].id
           /\ answer'[p] = a
<1>1. /\ post \in [Posts -> PostStates] /\ answer \in [Posts -> Replies]
      /\ post[p] \in PostStates
  BY DEF ApiTypes
<1>. DEFINE r == [post[p] EXCEPT !.at = "answered"]
<1>2. post' = [post EXCEPT ![p] = r] /\ answer' = [answer EXCEPT ![p] = a]
  BY DEF Streams!Answers
<1>3. r \in PostStates /\ r.at = "answered" /\ r.own = post[p].own /\ r.id = post[p].id
  BY <1>1 DEF PostStates, PostPcs
<1>. HIDE DEF r
<1>. QED BY <1>1, <1>2, <1>3

\* What refusing changes.
LEMMA RefusesFacts ==
    ASSUME ApiTypes, NEW p \in Posts, NEW status \in Nat, Streams!Refuses(p, status)
    PROVE  /\ post' \in [Posts -> PostStates] /\ answer' \in [Posts -> Replies]
           /\ \A q \in Posts : q # p => post'[q] = post[q] /\ answer'[q] = answer[q]
           /\ post'[p].at = "answered" /\ post'[p].own = post[p].own /\ post'[p].id = post[p].id
           /\ answer'[p].status = status /\ ~answer'[p].duplicate
<1>. DEFINE a == [Streams!NoAnswer EXCEPT !.status = status]
<1>1. a \in Replies /\ a.status = status /\ ~a.duplicate
  <2>1. Streams!NoAnswer \in Replies /\ ~Streams!NoAnswer.duplicate
    BY DEF Streams!NoAnswer, Streams!None, Replies
  <2>. QED BY <2>1 DEF Replies
<1>2. Streams!Answers(p, a) BY DEF Streams!Refuses
<1>. HIDE DEF a
<1>. QED BY <1>1, <1>2, AnswersFacts

\* A call that is over is forgotten.
LEMMA SettledFacts ==
    ASSUME ApiTypes, NEW p \in Posts, job' = Streams!Settled(p)
    PROVE  /\ job' \in [Posts -> JobStates]
           /\ \A q \in Posts : q # p => job'[q] = job[q]
           /\ job[p].at = "done" => job'[p].at = "none"
           /\ job[p].at # "done" => job'[p] = job[p]
<1>1. job \in [Posts -> JobStates] BY DEF ApiTypes
<1>2. Streams!NoJob \in JobStates /\ Streams!NoJob.at = "none"
  BY DEF Streams!NoJob, Streams!NoOutcome, Streams!Unknown, Streams!None, JobStates, Outcomes,
         Results
<1>3. job' = [job EXCEPT ![p] = IF job[p].at = "done" THEN Streams!NoJob ELSE job[p]]
  BY DEF Streams!Settled
<1>. QED BY <1>1, <1>2, <1>3

\* The name minted is none of those reported: there are more names than cameras.
LEMMA MintIsFree ==
    ASSUME ApiInv, NEW p \in Posts, taken[p] = {}, NEW n \in Started,
           NEW reported \in SUBSET Int, From(n, reported)
    PROVE  Streams!Mint(reported) \in Indices \ reported
<1>. DEFINE S == Posts \ {p}
            f == [q \in S |-> CHOOSE id \in Int : taken[q] = {id}]
            T == {f[q] : q \in S}
            U == (0 .. n - 1) \cup T
            F == Indices \ reported
<1>1. n \in Nat /\ IsFiniteSet(Posts) BY IngestAssumption
<1>2. reported \subseteq U
  <2>. SUFFICES ASSUME NEW id \in reported, id \notin 0 .. n - 1 PROVE id \in T OBVIOUS
  <2>1. PICK q \in Posts : id \in taken[q] BY DEF From
  <2>2. q \in S BY <2>1
  <2>3. taken[q] = {id} BY <2>1 DEF ApiInv, ApiCalls
  <2>4. f[q] = id
    <3>1. \E x \in Int : taken[q] = {x} BY <2>3
    <3>2. taken[q] = {CHOOSE x \in Int : taken[q] = {x}} BY <3>1
    <3>. QED BY <2>2, <2>3, <3>2
  <2>. QED BY <2>2, <2>4
<1>3. IsFiniteSet(S) /\ Cardinality(S) = Cardinality(Posts) - 1 /\ Cardinality(Posts) \in Nat
  BY <1>1, FS_RemoveElement, FS_CardinalityType
<1>4. IsFiniteSet(T) /\ Cardinality(T) <= Cardinality(S) /\ Cardinality(T) \in Nat
  <2>1. f \in Surjection(S, T) BY DEF Surjection
  <2>. HIDE DEF f, T
  <2>. QED BY <1>3, <2>1, FS_Surjection, FS_CardinalityType
<1>5. IsFiniteSet(0 .. n - 1) /\ Cardinality(0 .. n - 1) = n
  BY <1>1, FS_Interval
<1>6. IsFiniteSet(U) /\ Cardinality(U) <= n + Cardinality(T)
  <2>1. IsFiniteSet((0 .. n - 1) \cap T) BY <1>5, FS_Subset
  <2>2. Cardinality((0 .. n - 1) \cap T) \in Nat BY <2>1, FS_CardinalityType
  <2>. HIDE DEF T
  <2>3. /\ IsFiniteSet(U)
        /\ Cardinality(U) = Cardinality(0 .. n - 1) + Cardinality(T) - Cardinality((0 .. n - 1) \cap T)
    BY <1>4, <1>5, FS_Union
  <2>. HIDE DEF U
  <2>. QED BY <1>1, <1>4, <1>5, <2>2, <2>3
<1>7. F # {}
  <2>. SUFFICES ASSUME F = {} PROVE FALSE OBVIOUS
  <2>1. Indices \in SUBSET U BY <1>2
  <2>. HIDE DEF U, T, S, f
  <2>2. IsFiniteSet(Indices) /\ Cardinality(Indices) <= Cardinality(U) BY <1>6, <2>1, FS_Subset
  <2>3. Cardinality(Indices) >= n + Cardinality(Posts) BY <2>2, IngestAssumption
  <2>4. Cardinality(U) \in Nat /\ Cardinality(Indices) \in Nat BY <1>6, <2>2, FS_CardinalityType
  <2>. QED BY <1>1, <1>3, <1>4, <1>6, <2>2, <2>3, <2>4
<1>8. \E x \in F : \A y \in F : x <= y
  <2>. DEFINE R == OpToRel(<, Nat)
  <2>1. F \subseteq Nat BY IngestAssumption
  <2>2. \A i, j \in Nat : i < j => <<i, j>> \in R BY DEF OpToRel
  <2>3. IsWellFoundedOn(R, Nat) BY NatLessThanWellFounded
  <2>. HIDE DEF R, F
  <2>4. PICK x \in F : \A y \in F : ~(<<y, x>> \in R) BY <1>7, <2>1, <2>3, WFMin
  <2>5. ASSUME NEW y \in F PROVE x <= y
    <3>1. x \in Nat /\ y \in Nat /\ ~(<<y, x>> \in R) BY <2>1, <2>4
    <3>2. ~(y < x) BY <2>2, <3>1
    <3>. QED BY <3>1, <3>2
  <2>. QED BY <2>5
<1>9. Streams!Mint(reported) = CHOOSE x \in F : \A y \in F : x <= y
  BY DEF Streams!Mint, Streams!Min
<1>. HIDE DEF F
<1>10. Streams!Mint(reported) \in F BY <1>8, <1>9
<1>. QED BY <1>10 DEF F

\* The parts of the invariant, for one request.
LEMMA ApiParts ==
    ASSUME ApiInv, NEW p \in Posts
    PROVE  /\ ApiTypes /\ ApiCalls(p) /\ ApiAnswers(p) /\ ApiBeaten(p)
           /\ post[p] \in PostStates /\ job[p] \in JobStates /\ answer[p] \in Replies
BY DEF ApiInv, ApiTypes

\* POST /streams arrives.
LEMMA ApiAddStream ==
    ASSUME ApiInv, NEW p \in Posts, NEW own \in Bodies[p], Streams!AddStream(p, own)
    PROVE  ApiInv'
<1>1. /\ ApiTypes /\ ApiCalls(p) /\ ApiAnswers(p) /\ ApiBeaten(p)
      /\ post[p] \in PostStates /\ job[p] \in JobStates
  BY ApiParts
<1>2. /\ post[p] = Streams!Idle /\ own \in Int
      /\ UNCHANGED <<controller, taken, unheard, placed, beaten>>
  BY IngestAssumption DEF Streams!AddStream, Streams!hands
<1>3. /\ PostAt(p) = "idle" /\ post[p].own = -1 /\ job[p].at = "none" /\ taken[p] = {}
      /\ answer[p].status = 0 /\ ~answer[p].duplicate
  BY <1>1, <1>2 DEF Streams!Idle, Streams!None, PostAt, ApiCalls, ApiAnswers
<1>4. CASE ~controller.manages
  <2>1. Streams!Refuses(p, 501) /\ job' = job BY <1>4 DEF Streams!AddStream
  <2>2. /\ post' \in [Posts -> PostStates] /\ answer' \in [Posts -> Replies]
        /\ \A q \in Posts : q # p => post'[q] = post[q] /\ answer'[q] = answer[q]
        /\ post'[p].at = "answered"
        /\ answer'[p].status = 501 /\ ~answer'[p].duplicate
    BY <1>1, <2>1, RefusesFacts
  <2>3. Apart(p) BY <2>1, <2>2 DEF Apart
  <2>4. ApiTypes' BY <1>1, <1>2, <2>1, <2>2 DEF ApiTypes
  <2>5. ApiCalls(p)'
    BY <1>1, <1>2, <1>3, <2>1, <2>2
    DEF ApiCalls, PostAt, Returned, AwaitingPcs, NamingPcs, HandingPcs
  <2>6. ApiAnswers(p)' BY <1>2, <1>3, <2>1, <2>2 DEF ApiAnswers, PostAt
  <2>7. ApiBeaten(p)' BY <2>2 DEF ApiBeaten, PostAt
  <2>8. PostAt(p)' \notin NamingPcs BY <2>2 DEF PostAt, NamingPcs
  <2>. QED BY <1>2, <2>3, <2>4, <2>5, <2>6, <2>7, <2>8, StepOfOne
<1>5. CASE controller.manages
  <2>. DEFINE at == IF own = -1 THEN "naming" ELSE "handing"
              kind == IF own = -1 THEN "health" ELSE "add"
              r == [at |-> at, own |-> own, id |-> own]
  <2>1. post' = [post EXCEPT ![p] = r] /\ answer' = answer
    BY <1>5 DEF Streams!AddStream, Streams!None
  <2>2. PICK j \in JobStates :
            /\ job' = [job EXCEPT ![p] = j]
            /\ j.at = "called" /\ j.kind = kind /\ j.id = own /\ j.out.result = "none"
    <3>1. Streams!NoJob \in JobStates /\ Streams!NoJob.id = -1
                /\ Streams!NoJob.out.result = "none"
      BY DEF Streams!NoJob, Streams!NoOutcome, Streams!Unknown, Streams!None, JobStates,
             Outcomes, Results
    <3>2. CASE own = -1
      <4>1. job' = [job EXCEPT ![p] = [Streams!NoJob EXCEPT !.at = "called", !.kind = "health"]]
        BY <1>5, <3>2 DEF Streams!AddStream, Streams!None
      <4>. DEFINE e == [Streams!NoJob EXCEPT !.at = "called", !.kind = "health"]
      <4>2. /\ e \in JobStates /\ e.at = "called" /\ e.kind = "health" /\ e.id = -1
            /\ e.out.result = "none"
        BY <3>1 DEF JobStates
      <4>. HIDE DEF e
      <4>. QED BY <3>2, <4>1, <4>2 DEF e
    <3>3. CASE own # -1
      <4>. DEFINE out == [result |-> "none", report |-> {}]
                  e == [at |-> "called", kind |-> "add", id |-> own, out |-> out]
      <4>1. job' = [job EXCEPT ![p] = e]
        BY <1>5, <3>3 DEF Streams!AddStream, Streams!None, Streams!NoOutcome, Streams!Unknown
      <4>2. out \in Outcomes /\ out.result = "none" BY DEF Outcomes, Results
      <4>. HIDE DEF out
      <4>3. e \in JobStates /\ e.at = "called" /\ e.kind = "add" /\ e.id = own /\ e.out = out
        BY <1>2, <4>2 DEF JobStates
      <4>. HIDE DEF e
      <4>. QED BY <3>3, <4>1, <4>2, <4>3
    <3>. QED BY <3>2, <3>3
  <2>3. /\ r \in PostStates /\ r.own = own /\ r.id = own
        /\ r.at = at /\ at \in {"naming", "handing"} /\ (at = "naming" => own = -1)
    BY <1>2 DEF PostStates, PostPcs, AwaitingPcs, NamingPcs, HandingPcs
  <2>5. at = "naming" => kind = "health" BY <2>3
  <2>6. at = "handing" => kind = "add" /\ own # -1 BY <2>3
  <2>. HIDE DEF r, at, kind
  <2>7. /\ post' \in [Posts -> PostStates] /\ post'[p] = r
        /\ job' \in [Posts -> JobStates] /\ job'[p] = j /\ Apart(p)
    BY <1>1, <2>1, <2>2, <2>3 DEF ApiTypes, Apart
  <2>8. ApiTypes' BY <1>1, <1>2, <2>1, <2>7 DEF ApiTypes
  <2>9. ApiCalls(p)'
    BY <1>1, <1>2, <1>3, <2>2, <2>3, <2>5, <2>6, <2>7
    DEF ApiCalls, PostAt, Returned, AwaitingPcs, NamingPcs, HandingPcs
  <2>10. ApiAnswers(p)' BY <1>2, <1>3, <2>1, <2>2, <2>3, <2>7 DEF ApiAnswers, PostAt
  <2>11. ApiBeaten(p)'
    BY <1>2, <1>3, <2>1, <2>2, <2>3, <2>5, <2>6, <2>7 DEF ApiBeaten, PostAt, Returned
  <2>12. ~Returned(p, "report")' BY <2>2, <2>7 DEF Returned
  <2>. QED BY <1>2, <2>7, <2>8, <2>9, <2>10, <2>11, <2>12, StepOfOne
<1>. QED BY <1>4, <1>5

\* A worker thread reads the health report.
LEMMA ApiRunHealth ==
    ASSUME ApiInv, NEW p \in Posts, Streams!RunHealth(p)
    PROVE  ApiInv'
<1>1. /\ ApiTypes /\ ApiCalls(p) /\ ApiAnswers(p) /\ ApiBeaten(p)
      /\ post[p] \in PostStates /\ job[p] \in JobStates
  BY ApiParts
<1>2. /\ UNCHANGED <<controller, post, answer, taken, unheard, placed, beaten>>
      /\ job[p].at = "called" /\ job[p].kind \in {"health", "report"}
  BY DEF Streams!RunHealth, Streams!hands
<1>3. PICK out \in Streams!Health(job[p].kind = "health", controller.cams) :
          job' = [job EXCEPT ![p].at = "done", ![p].out = out]
  BY DEF Streams!RunHealth
<1>4. /\ out \in Outcomes
      /\ out.result = "report" => out.report = controller.cams \/ job[p].kind = "report"
      /\ out.result = "failed" => job[p].kind = "health"
      /\ out.result \in {"report", "failed"}
  <2>. DEFINE res == IF job[p].kind = "health" THEN "failed" ELSE "report"
              o1 == [result |-> res, report |-> {}]
              o2 == [result |-> "report", report |-> controller.cams]
  <2>1. out \in {o1, o2} BY DEF Streams!Health, Streams!Unknown
  <2>2. controller.cams \in SUBSET Int BY <1>1 DEF ApiTypes, Controllers
  <2>3. /\ o1 \in Outcomes /\ o2 \in Outcomes /\ o1.result = res
        /\ o2.result = "report" /\ o2.report = controller.cams
    BY <2>2 DEF Outcomes, Results
  <2>. HIDE DEF o1, o2
  <2>. QED BY <1>2, <2>1, <2>3
<1>5. /\ job' \in [Posts -> JobStates] /\ job'[p].at = "done" /\ job'[p].kind = job[p].kind
      /\ job'[p].out = out /\ job'[p].id = job[p].id
      /\ \A q \in Posts : q # p => job'[q] = job[q]
  BY <1>1, <1>3, <1>4 DEF ApiTypes, JobStates
<1>6. Apart(p) /\ ApiTypes' BY <1>1, <1>2, <1>5 DEF Apart, ApiTypes
<1>7. ApiCalls(p)'
  BY <1>1, <1>2, <1>4, <1>5
  DEF ApiCalls, PostAt, Returned, AwaitingPcs, NamingPcs, HandingPcs
<1>8. ApiAnswers(p)' BY <1>1, <1>2, <1>5 DEF ApiAnswers, PostAt
<1>9. PostAt(p) \in NamingPcs => job[p].kind = "health" BY <1>1 DEF ApiCalls
<1>10. ApiBeaten(p)'
  <2>1. (Returned(p, "report") /\ PostAt(p) \in NamingPcs
              => controller.cams \subseteq job[p].out.report)'
    BY <1>2, <1>4, <1>5, <1>9 DEF Returned, PostAt
  <2>2. PostAt(p) \notin HandingPcs BY <1>1, <1>2 DEF ApiCalls
  <2>. QED BY <1>1, <1>2, <2>1, <2>2 DEF ApiBeaten, PostAt, NamingPcs, HandingPcs, Fresh
<1>11. PostAt(p)' \in NamingPcs /\ Returned(p, "report")' => job'[p].out.report = controller.cams
  BY <1>2, <1>4, <1>5, <1>9 DEF PostAt, Returned
<1>. QED BY <1>2, <1>6, <1>7, <1>8, <1>10, <1>11, StepOfOne

\* A call ends with this result, whatever it was asking for.
LEMMA EndsFacts ==
    ASSUME ApiTypes, NEW p \in Posts, NEW result \in Results,
           job' = [job EXCEPT ![p].at = "done", ![p].out.result = result]
    PROVE  /\ job' \in [Posts -> JobStates] /\ job'[p].at = "done"
           /\ job'[p].kind = job[p].kind /\ job'[p].id = job[p].id
           /\ job'[p].out.result = result
           /\ \A q \in Posts : q # p => job'[q] = job[q]
<1>. DEFINE o == [job[p].out EXCEPT !.result = result]
            e == [job[p] EXCEPT !.at = "done", !.out = o]
<1>1. job \in [Posts -> JobStates] /\ job[p] \in JobStates BY DEF ApiTypes
<1>2. o \in Outcomes /\ o.result = result BY <1>1 DEF JobStates, Outcomes
<1>3. job' = [job EXCEPT ![p] = e] OBVIOUS
<1>. HIDE DEF o
<1>4. e \in JobStates /\ e.at = "done" /\ e.kind = job[p].kind /\ e.id = job[p].id /\ e.out = o
  BY <1>1, <1>2 DEF JobStates
<1>. HIDE DEF e
<1>. QED BY <1>1, <1>2, <1>3, <1>4

\* The controller refuses the camera.
LEMMA ApiRefused ==
    ASSUME ApiInv, NEW p \in Posts, job[p].at = "called", job[p].kind = "add",
           NEW result \in {"down", "invalid", "duplicate"},
           result = "duplicate" => job[p].id \in controller.cams,
           job' = [job EXCEPT ![p].at = "done", ![p].out.result = result],
           UNCHANGED <<controller, post, answer, taken, unheard, placed, beaten>>
    PROVE  ApiInv'
<1>1. /\ ApiTypes /\ ApiCalls(p) /\ ApiAnswers(p) /\ ApiBeaten(p)
      /\ post[p] \in PostStates /\ job[p] \in JobStates
  BY ApiParts
<1>2. /\ job' \in [Posts -> JobStates] /\ job'[p].at = "done" /\ job'[p].kind = job[p].kind
      /\ job'[p].out.result = result /\ job'[p].id = job[p].id
      /\ \A q \in Posts : q # p => job'[q] = job[q]
  <2>1. result \in Results BY DEF Results
  <2>. QED BY <1>1, <2>1, EndsFacts
<1>6. Apart(p) /\ ApiTypes' BY <1>1, <1>2 DEF Apart, ApiTypes
<1>7. ApiCalls(p)'
  BY <1>1, <1>2 DEF ApiCalls, PostAt, Returned, AwaitingPcs, NamingPcs, HandingPcs
<1>8. ApiAnswers(p)' BY <1>1, <1>2 DEF ApiAnswers, PostAt
<1>9. PostAt(p) \notin NamingPcs BY <1>1 DEF ApiCalls
<1>10. ApiBeaten(p)'
  <2>1. PostAt(p) \in HandingPcs => job[p].id = post[p].id BY <1>1 DEF ApiCalls
  <2>. QED BY <1>1, <1>2, <1>9, <2>1
       DEF ApiBeaten, PostAt, NamingPcs, HandingPcs, Free, Returned
<1>. QED BY <1>6, <1>7, <1>8, <1>9, <1>10, StepOfOne DEF PostAt

\* The controller takes the name: every other request is beaten once more.
LEMMA ApiTaken ==
    ASSUME ApiInv, NEW p \in Posts, job[p].at = "called", job[p].kind = "add",
           job[p].id \notin controller.cams,
           job' = [job EXCEPT ![p].at = "asking"],
           controller' = [controller EXCEPT !.cams = @ \cup {job[p].id}],
           taken' = [taken EXCEPT ![p] = @ \cup {job[p].id}],
           beaten' = [q \in Posts |->
                    IF q # p /\ Streams!Awaiting(q) /\ post[q].own = Streams!None
                          /\ beaten[q] < 2
                    THEN beaten[q] + 1 ELSE beaten[q]],
           UNCHANGED <<post, answer, unheard, placed>>
    PROVE  ApiInv'
<1>1. /\ ApiTypes /\ ApiCalls(p) /\ ApiAnswers(p) /\ ApiBeaten(p)
      /\ post[p] \in PostStates /\ job[p] \in JobStates
  BY ApiParts
<1>2. /\ job' \in [Posts -> JobStates] /\ job'[p].at = "asking" /\ job'[p].kind = job[p].kind
      /\ job'[p].id = job[p].id
      /\ \A q \in Posts : q # p => job'[q] = job[q]
  <2>. DEFINE e == [job[p] EXCEPT !.at = "asking"]
  <2>1. e \in JobStates /\ e.at = "asking" /\ e.kind = job[p].kind /\ e.id = job[p].id
    BY <1>1 DEF JobStates
  <2>2. job' = [job EXCEPT ![p] = e] OBVIOUS
  <2>. HIDE DEF e
  <2>. QED BY <1>1, <2>1, <2>2 DEF ApiTypes
<1>3. /\ job[p].id \in Int /\ taken[p] = {} /\ placed[p] = {} /\ unheard[p] = {}
  BY <1>1 DEF JobStates, ApiCalls
<1>4. /\ controller' \in Controllers
      /\ controller'.cams = controller.cams \cup {job[p].id}
  BY <1>1, <1>3 DEF ApiTypes, Controllers
<1>5. /\ taken' \in [Posts -> SUBSET Int] /\ taken'[p] = {job[p].id}
      /\ \A q \in Posts : q # p => taken'[q] = taken[q]
  BY <1>1, <1>3 DEF ApiTypes
<1>6. /\ beaten' \in [Posts -> 0 .. 2]
      /\ \A q \in Posts : beaten'[q] >= beaten[q] /\ beaten[q] \in 0 .. 2
            /\ beaten'[q] \in 0 .. 2
      /\ \A q \in Posts : q # p /\ PostAt(q) \in AwaitingPcs /\ post[q].own = -1 =>
            beaten'[q] = 2 \/ beaten'[q] = beaten[q] + 1
  <2>1. \A q \in Posts : beaten[q] \in 0 .. 2 BY <1>1 DEF ApiTypes
  <2>. QED BY <2>1 DEF Streams!Awaiting, Streams!None, PostAt, AwaitingPcs, NamingPcs, HandingPcs
<1>7. ApiTypes' BY <1>1, <1>2, <1>4, <1>5, <1>6 DEF ApiTypes
<1>8. ApiSources'
  <2>1. PICK n \in Started :
          /\ From(n, controller.cams)
          /\ \A q \in Posts : PostAt(q) \in NamingPcs /\ Returned(q, "report") =>
                From(n, job[q].out.report)
    BY DEF ApiInv, ApiSources
  <2>2. \A q \in Posts : taken[q] \subseteq taken'[q] BY <1>3, <1>5
  <2>3. From(n, controller.cams)' BY <1>4, <1>5, <2>1, <2>2 DEF From
  <2>4. ASSUME NEW q \in Posts, PostAt(q)' \in NamingPcs, Returned(q, "report")'
        PROVE  From(n, job[q].out.report)'
    <3>1. q # p BY <1>2, <2>4 DEF Returned
    <3>2. From(n, job[q].out.report) /\ job'[q] = job[q]
      BY <1>2, <2>1, <2>4, <3>1 DEF PostAt, Returned
    <3>. QED BY <2>2, <3>2 DEF From
  <2>. QED BY <2>3, <2>4 DEF ApiSources
<1>9. ApiCalls(p)' /\ ApiAnswers(p)'
  <2>1. ApiCalls(p)'
    BY <1>1, <1>2, <1>3, <1>5 DEF ApiCalls, PostAt, Returned, AwaitingPcs, NamingPcs, HandingPcs
  <2>2. answer[p].status \notin {201, 400, 501, 503} BY <1>1, <1>3 DEF ApiAnswers
  <2>. QED BY <1>1, <2>1, <2>2 DEF ApiAnswers, PostAt
<1>10. ApiBeaten(p)'
  BY <1>1, <1>2, <1>6 DEF ApiBeaten, ApiCalls, PostAt, NamingPcs, HandingPcs, Free, Returned
<1>11. ASSUME NEW q \in Posts, q # p
       PROVE  (ApiCalls(q) /\ ApiAnswers(q) /\ ApiBeaten(q))'
  <2>1. ApiCalls(q) /\ ApiAnswers(q) /\ ApiBeaten(q) BY DEF ApiInv
  <2>2. /\ post'[q] = post[q] /\ job'[q] = job[q] /\ answer'[q] = answer[q]
        /\ taken'[q] = taken[q]
    BY <1>2, <1>5, <1>11
  <2>3. ApiCalls(q)' BY <2>1, <2>2 DEF ApiCalls, PostAt, Returned
  <2>4. ApiAnswers(q)' BY <2>1, <2>2 DEF ApiAnswers, PostAt
  <2>5. /\ beaten'[q] >= beaten[q] /\ beaten[q] \in 0 .. 2 /\ beaten'[q] \in 0 .. 2
        /\ PostAt(q) \in AwaitingPcs /\ post[q].own = -1 => beaten'[q] = 2
              \/ beaten'[q] = beaten[q] + 1
    BY <1>6, <1>11
  <2>6. /\ PostAt(q) \in NamingPcs => post[q].own = -1
        /\ PostAt(q) = "rehanding" => post[q].own = -1
    BY <2>1 DEF ApiCalls
  <2>7. ApiBeaten(q)'
    BY <2>1, <2>2, <2>5, <2>6
    DEF ApiBeaten, PostAt, AwaitingPcs, NamingPcs, HandingPcs, Fresh, Free, Returned
  <2>. QED BY <2>3, <2>4, <2>7
<1>. QED BY <1>7, <1>8, <1>9, <1>10, <1>11 DEF ApiInv

\* A request whose call is with the controller has no answer but a 504.
LEMMA AskingIsHanding ==
    ASSUME ApiInv, NEW p \in Posts, job[p].at = "asking"
    PROVE  /\ answer[p].status \notin {201, 400, 501, 503}
           /\ PostAt(p) \in HandingPcs \/ PostAt(p) = "answered"
           /\ PostAt(p) \in HandingPcs => job[p].id = post[p].id
<1>1. ApiCalls(p) /\ ApiAnswers(p) /\ post[p] \in PostStates BY ApiParts
<1>2. job[p].kind = "add" /\ placed[p] = {} BY <1>1 DEF ApiCalls
<1>. QED
  BY <1>1, <1>2
  DEF ApiCalls, ApiAnswers, PostAt, PostStates, PostPcs, AwaitingPcs, NamingPcs, HandingPcs

\* The camera is accepted.
LEMMA ApiAccepted ==
    ASSUME ApiInv, NEW p \in Posts, Streams!Accepted(p)
    PROVE  ApiInv'
<1>1. /\ ApiTypes /\ ApiCalls(p) /\ ApiAnswers(p) /\ ApiBeaten(p)
      /\ post[p] \in PostStates /\ job[p] \in JobStates
  BY ApiParts
<1>2. /\ job[p].at = "asking" /\ UNCHANGED <<controller, post, answer, taken, unheard, beaten>>
      /\ job' = [job EXCEPT ![p].at = "done", ![p].out.result = "placed"]
      /\ placed' = [placed EXCEPT ![p] = @ \cup {job[p].id}]
  BY DEF Streams!Accepted
<1>3. "placed" \in Results BY DEF Results
<1>4. /\ job' \in [Posts -> JobStates] /\ job'[p].at = "done"
      /\ job'[p].kind = job[p].kind /\ job'[p].id = job[p].id
      /\ job'[p].out.result = "placed"
      /\ \A q \in Posts : q # p => job'[q] = job[q]
  BY <1>1, <1>2, <1>3, EndsFacts
<1>5. /\ job[p].kind = "add" /\ taken[p] = {job[p].id} /\ job[p].id \in Int
      /\ placed[p] = {} /\ unheard[p] = {}
  BY <1>1, <1>2 DEF ApiCalls, JobStates
<1>6. /\ placed' \in [Posts -> SUBSET Int] /\ placed'[p] = {job[p].id}
      /\ \A q \in Posts : q # p => placed'[q] = placed[q]
  BY <1>1, <1>2, <1>5 DEF ApiTypes
<1>7. ApiTypes' BY <1>1, <1>2, <1>4, <1>6 DEF ApiTypes
<1>8. /\ answer[p].status \notin {201, 400, 501, 503}
      /\ PostAt(p) \in HandingPcs \/ PostAt(p) = "answered"
      /\ PostAt(p) \in HandingPcs => job[p].id = post[p].id
  BY <1>2, AskingIsHanding
<1>9. ApiCalls(p)'
  BY <1>1, <1>2, <1>4, <1>5, <1>6, <1>8
  DEF ApiCalls, PostAt, Returned, AwaitingPcs, NamingPcs, HandingPcs
<1>10. ApiAnswers(p)' BY <1>1, <1>2, <1>8 DEF ApiAnswers, PostAt
<1>11. ApiBeaten(p)' BY <1>1, <1>2, <1>4, <1>8 DEF ApiBeaten, PostAt, HandingPcs, Free, Returned
<1>12. ASSUME NEW q \in Posts, q # p PROVE (ApiCalls(q) /\ ApiAnswers(q) /\ ApiBeaten(q))'
  <2>1. ApiCalls(q) /\ ApiAnswers(q) /\ ApiBeaten(q) BY DEF ApiInv
  <2>2. job'[q] = job[q] /\ placed'[q] = placed[q] BY <1>4, <1>6, <1>12
  <2>3. ApiCalls(q)' BY <1>2, <2>1, <2>2 DEF ApiCalls, PostAt, Returned
  <2>4. ApiAnswers(q)' BY <1>2, <2>1, <2>2 DEF ApiAnswers, PostAt
  <2>5. ApiBeaten(q)' BY <1>2, <2>1, <2>2 DEF ApiBeaten, PostAt, Returned, Fresh, Free
  <2>. QED BY <2>3, <2>4, <2>5
<1>13. ApiSources'
  <2>1. ASSUME NEW q \in Posts, PostAt(q)' \in NamingPcs, Returned(q, "report")'
        PROVE  PostAt(q) \in NamingPcs /\ Returned(q, "report") /\ job'[q] = job[q]
    BY <1>2, <1>4, <2>1 DEF Returned, PostAt
  <2>2. PICK n \in Started :
          /\ From(n, controller.cams)
          /\ \A q \in Posts : PostAt(q) \in NamingPcs /\ Returned(q, "report") =>
                From(n, job[q].out.report)
    BY DEF ApiInv, ApiSources
  <2>3. taken' = taken BY <1>2
  <2>4. From(n, controller.cams)' BY <1>2, <2>2, <2>3 DEF From
  <2>5. ASSUME NEW q \in Posts, PostAt(q)' \in NamingPcs, Returned(q, "report")'
        PROVE  From(n, job[q].out.report)'
    BY <2>1, <2>2, <2>3, <2>5 DEF From
  <2>. QED BY <2>4, <2>5 DEF ApiSources
<1>. QED BY <1>7, <1>9, <1>10, <1>11, <1>12, <1>13 DEF ApiInv

\* The camera is refused, or nobody answers for it: its name is free again.
LEMMA ApiNotAccepted ==
    ASSUME ApiInv, NEW p \in Posts, Streams!NotAccepted(p)
    PROVE  ApiInv'
<1>1. /\ ApiTypes /\ ApiCalls(p) /\ ApiAnswers(p) /\ ApiBeaten(p)
      /\ post[p] \in PostStates /\ job[p] \in JobStates
  BY ApiParts
<1>2. /\ job[p].at = "asking" /\ UNCHANGED <<post, answer, taken, placed, beaten>>
      /\ job' = [job EXCEPT ![p].at = "done", ![p].out.result = "down"]
      /\ controller' = [controller EXCEPT !.cams = @ \ {job[p].id}]
      /\ unheard' = unheard \/ unheard' = [unheard EXCEPT ![p] = @ \cup {job[p].id}]
  BY DEF Streams!NotAccepted
<1>3. "down" \in Results BY DEF Results
<1>4. /\ job' \in [Posts -> JobStates] /\ job'[p].at = "done"
      /\ job'[p].kind = job[p].kind /\ job'[p].id = job[p].id
      /\ job'[p].out.result = "down"
      /\ \A q \in Posts : q # p => job'[q] = job[q]
  BY <1>1, <1>2, <1>3, EndsFacts
<1>5. /\ job[p].kind = "add" /\ taken[p] = {job[p].id} /\ job[p].id \in Int
      /\ placed[p] = {} /\ unheard[p] = {}
  BY <1>1, <1>2 DEF ApiCalls, JobStates
<1>6. /\ unheard' \in [Posts -> SUBSET Int] /\ unheard'[p] \subseteq {job[p].id}
      /\ \A q \in Posts : q # p => unheard'[q] = unheard[q]
  BY <1>1, <1>2, <1>5 DEF ApiTypes
<1>7. controller' \in Controllers /\ controller'.cams \subseteq controller.cams
  BY <1>1, <1>2 DEF ApiTypes, Controllers
<1>8. ApiTypes' BY <1>1, <1>2, <1>4, <1>6, <1>7 DEF ApiTypes
<1>9. /\ answer[p].status \notin {201, 400, 501, 503}
      /\ PostAt(p) \in HandingPcs \/ PostAt(p) = "answered"
      /\ PostAt(p) \in HandingPcs => job[p].id = post[p].id
  BY <1>2, AskingIsHanding
<1>10. ApiCalls(p)'
  BY <1>1, <1>2, <1>4, <1>5, <1>6, <1>9
  DEF ApiCalls, PostAt, Returned, AwaitingPcs, NamingPcs, HandingPcs
<1>11. ApiAnswers(p)' BY <1>1, <1>2, <1>9 DEF ApiAnswers, PostAt
<1>12. ApiBeaten(p)' BY <1>1, <1>2, <1>4, <1>9 DEF ApiBeaten, PostAt, HandingPcs, Free, Returned
<1>13. ASSUME NEW q \in Posts, q # p PROVE (ApiCalls(q) /\ ApiAnswers(q) /\ ApiBeaten(q))'
  <2>1. ApiCalls(q) /\ ApiAnswers(q) /\ ApiBeaten(q) BY DEF ApiInv
  <2>2. job'[q] = job[q] /\ unheard'[q] = unheard[q] BY <1>4, <1>6, <1>13
  <2>3. ApiCalls(q)' BY <1>2, <2>1, <2>2 DEF ApiCalls, PostAt, Returned
  <2>4. ApiAnswers(q)' BY <1>2, <2>1, <2>2 DEF ApiAnswers, PostAt
  <2>5. ApiBeaten(q)' BY <1>2, <1>7, <2>1, <2>2 DEF ApiBeaten, PostAt, Returned, Fresh, Free
  <2>. QED BY <2>3, <2>4, <2>5
<1>14. ApiSources'
  <2>1. ASSUME NEW q \in Posts, PostAt(q)' \in NamingPcs, Returned(q, "report")'
        PROVE  PostAt(q) \in NamingPcs /\ Returned(q, "report") /\ job'[q] = job[q]
    BY <1>2, <1>4, <2>1 DEF Returned, PostAt
  <2>2. PICK n \in Started :
          /\ From(n, controller.cams)
          /\ \A q \in Posts : PostAt(q) \in NamingPcs /\ Returned(q, "report") =>
                From(n, job[q].out.report)
    BY DEF ApiInv, ApiSources
  <2>3. taken' = taken BY <1>2
  <2>4. From(n, controller.cams)' BY <1>2, <1>7, <2>2, <2>3 DEF From
  <2>5. ASSUME NEW q \in Posts, PostAt(q)' \in NamingPcs, Returned(q, "report")'
        PROVE  From(n, job[q].out.report)'
    BY <2>1, <2>2, <2>3, <2>5 DEF From
  <2>. QED BY <2>4, <2>5 DEF ApiSources
<1>. QED BY <1>8, <1>10, <1>11, <1>12, <1>13, <1>14 DEF ApiInv

\* A shard that did not answer starts the camera: the request that asked for it has been
\* told 503, or 504, or is about to be.
LEMMA ApiPlacedUnheard ==
    ASSUME ApiInv, NEW p \in Posts, Streams!PlacedUnheard(p)
    PROVE  ApiInv'
<1>1. /\ ApiTypes /\ ApiCalls(p) /\ ApiAnswers(p) /\ ApiBeaten(p)
      /\ post[p] \in PostStates /\ job[p] \in JobStates
  BY ApiParts
<1>2. PICK id \in unheard[p] \ placed[p] : placed' = [placed EXCEPT ![p] = @ \cup {id}]
  BY DEF Streams!PlacedUnheard
<1>3. UNCHANGED <<controller, post, job, answer, taken, unheard, beaten>>
  BY DEF Streams!PlacedUnheard
<1>4. /\ placed' \in [Posts -> SUBSET Int] /\ placed'[p] = placed[p] \cup {id}
      /\ \A q \in Posts : q # p => placed'[q] = placed[q]
  BY <1>1, <1>2 DEF ApiTypes
<1>5. ApiTypes' BY <1>1, <1>3, <1>4 DEF ApiTypes
<1>6. /\ unheard[p] # {} /\ taken[p] # {}
      /\ placed'[p] \subseteq taken[p]
      /\ placed[p] \subseteq unheard[p] => placed'[p] \subseteq unheard[p]
  BY <1>1, <1>2, <1>4 DEF ApiCalls
<1>7. ApiCalls(p)'
  BY <1>1, <1>3, <1>6 DEF ApiCalls, PostAt, Returned
<1>8. ApiAnswers(p)' BY <1>1, <1>3, <1>6 DEF ApiAnswers, PostAt
<1>9. \A q \in Posts : ApiBeaten(q)' 
  BY <1>3 DEF ApiInv, ApiBeaten, PostAt, Returned, Fresh, Free
<1>10. ASSUME NEW q \in Posts, q # p PROVE (ApiCalls(q) /\ ApiAnswers(q))'
  <2>1. ApiCalls(q) /\ ApiAnswers(q) /\ placed'[q] = placed[q] BY <1>4, <1>10 DEF ApiInv
  <2>. QED BY <1>3, <2>1 DEF ApiCalls, ApiAnswers, PostAt, Returned
<1>11. ApiSources' BY <1>3 DEF ApiInv, ApiSources, From, PostAt, Returned
<1>. QED BY <1>5, <1>7, <1>8, <1>9, <1>10, <1>11 DEF ApiInv

\* A worker thread hands the camera to the controller.
LEMMA ApiRunAdd ==
    ASSUME ApiInv, NEW p \in Posts, Streams!RunAdd(p)
    PROVE  ApiInv'
<1>1. /\ job[p].at = "called" /\ job[p].kind = "add"
      /\ UNCHANGED <<post, answer, unheard, placed>>
  BY DEF Streams!RunAdd
<1>2. ASSUME NEW refusal \in {"down", "invalid"},
             job' = [job EXCEPT ![p].at = "done", ![p].out.result = refusal],
             UNCHANGED <<controller, taken, beaten>>
      PROVE  ApiInv'
  BY <1>1, <1>2, ApiRefused
<1>3. ASSUME job[p].id \in controller.cams,
             job' = [job EXCEPT ![p].at = "done", ![p].out.result = "duplicate"],
             UNCHANGED <<controller, taken, beaten>>
      PROVE  ApiInv'
  BY <1>1, <1>3, ApiRefused
<1>4. ASSUME job[p].id \notin controller.cams,
             job' = [job EXCEPT ![p].at = "asking"],
             controller' = [controller EXCEPT !.cams = @ \cup {job[p].id}],
             taken' = [taken EXCEPT ![p] = @ \cup {job[p].id}],
             beaten' = [q \in Posts |->
                    IF q # p /\ Streams!Awaiting(q) /\ post[q].own = Streams!None
                          /\ beaten[q] < 2
                    THEN beaten[q] + 1 ELSE beaten[q]]
      PROVE  ApiInv'
  BY <1>1, <1>4, ApiTaken
<1>. QED BY <1>2, <1>3, <1>4 DEF Streams!RunAdd, Streams!Taken

\* A coroutine that gets its answer with its call over, or with the call left behind.
LEMMA ApiRefusal ==
    ASSUME ApiInv, NEW p \in Posts, PostAt(p) \in AwaitingPcs, NEW status \in Nat,
           Streams!Refuses(p, status), status \notin {201, 0},
           \/ status = 503 /\ job[p].at = "done" /\ taken[p] = {}
                 /\ job' = Streams!Settled(p)
           \/ status = 504 /\ job' = Streams!Settled(p)
           \/ status = 504 /\ job[p].at = "called" /\ job' = [job EXCEPT ![p] = Streams!NoJob],
           UNCHANGED <<controller, taken, unheard, placed, beaten>>
    PROVE  ApiInv'
<1>1. /\ ApiTypes /\ ApiCalls(p) /\ ApiAnswers(p) /\ ApiBeaten(p)
      /\ post[p] \in PostStates /\ job[p] \in JobStates
  BY ApiParts
<1>2. /\ post' \in [Posts -> PostStates] /\ answer' \in [Posts -> Replies]
      /\ \A q \in Posts : q # p => post'[q] = post[q] /\ answer'[q] = answer[q]
      /\ post'[p].at = "answered" /\ post'[p].own = post[p].own /\ post'[p].id = post[p].id
      /\ answer'[p].status = status /\ ~answer'[p].duplicate
  BY <1>1, RefusesFacts
<1>3. /\ job' \in [Posts -> JobStates] /\ \A q \in Posts : q # p => job'[q] = job[q]
      /\ job'[p] = job[p] \/ job'[p].at = "none"
      /\ status = 503 => job'[p].at = "none"
  <2>1. Streams!NoJob \in JobStates /\ Streams!NoJob.at = "none"
    BY DEF Streams!NoJob, Streams!NoOutcome, Streams!Unknown, Streams!None, JobStates, Outcomes,
           Results
  <2>2. CASE job' = Streams!Settled(p) BY <1>1, <2>2, SettledFacts
  <2>3. CASE job' = [job EXCEPT ![p] = Streams!NoJob] /\ status = 504
    BY <1>1, <2>1, <2>3 DEF ApiTypes
  <2>. QED BY <2>2, <2>3
<1>4. Apart(p) /\ ApiTypes' BY <1>1, <1>2, <1>3 DEF Apart, ApiTypes
<1>5. status = 503 => placed[p] \subseteq unheard[p] BY <1>1 DEF ApiCalls
<1>6. ApiCalls(p)'
  BY <1>1, <1>2, <1>3 DEF ApiCalls, PostAt, AwaitingPcs, NamingPcs, HandingPcs
<1>7. ApiAnswers(p)' BY <1>2, <1>3, <1>5 DEF ApiAnswers, PostAt
<1>8. ApiBeaten(p)' BY <1>2 DEF ApiBeaten, PostAt
<1>9. PostAt(p)' \notin NamingPcs BY <1>2 DEF PostAt, NamingPcs
<1>. QED BY <1>4, <1>6, <1>7, <1>8, <1>9, StepOfOne

\* The coroutine mints a name from the report it got.
LEMMA ApiNames ==
    ASSUME ApiInv, NEW p \in Posts, NEW next \in HandingPcs, job[p].at = "done",
           \/ PostAt(p) = "naming" /\ next = "handing"
           \/ PostAt(p) = "renaming" /\ next = "rehanding",
           Streams!Names(p, next), UNCHANGED <<controller, taken, unheard, placed, beaten>>
    PROVE  ApiInv'
<1>1. /\ ApiTypes /\ ApiCalls(p) /\ ApiAnswers(p) /\ ApiBeaten(p)
      /\ post[p] \in PostStates /\ job[p] \in JobStates
  BY ApiParts
<1>2. PostAt(p) \in NamingPcs /\ PostAt(p) \in AwaitingPcs /\ next \in PostPcs
  BY DEF NamingPcs, AwaitingPcs, PostPcs
<1>3. taken[p] = {} /\ post[p].own = -1 BY <1>1, <1>2 DEF ApiCalls
<1>4. CASE job[p].out.result = "failed"
  <2>1. Streams!Refuses(p, 503) /\ job' = Streams!Settled(p) BY <1>4 DEF Streams!Names
  <2>. QED BY <1>2, <1>3, <2>1, ApiRefusal
<1>5. CASE job[p].out.result # "failed"
  <2>. DEFINE reported == job[p].out.report
              id == Streams!Mint(reported)
  <2>1. Streams!Submits(p, next, "add", id) /\ answer' = answer
    BY <1>5 DEF Streams!Names, Streams!CameraIds
  <2>2. Returned(p, "report") BY <1>1, <1>2, <1>5 DEF ApiCalls, Returned
  <2>3. reported \in SUBSET Int BY <1>1 DEF JobStates, Outcomes
  <2>4. PICK n \in Started : From(n, reported) BY <1>2, <2>2 DEF ApiInv, ApiSources
  <2>5. id \in Indices \ reported BY <1>3, <2>3, <2>4, MintIsFree
  <2>. HIDE DEF id, reported
  <2>6. id \in Int BY <2>5, IngestAssumption
  <2>7. /\ post' \in [Posts -> PostStates] /\ job' \in [Posts -> JobStates]
        /\ \A q \in Posts : q # p => post'[q] = post[q] /\ job'[q] = job[q]
        /\ post'[p].at = next /\ post'[p].own = post[p].own /\ post'[p].id = id
        /\ job'[p].at = "called" /\ job'[p].kind = "add" /\ job'[p].id = id
        /\ job'[p].out.result = "none"
    BY <1>1, <1>2, <2>1, <2>6, SubmitsFacts
  <2>8. Apart(p) /\ ApiTypes' BY <1>1, <2>1, <2>7 DEF Apart, ApiTypes
  <2>9. ApiCalls(p)'
    BY <1>1, <1>3, <2>7 DEF ApiCalls, PostAt, Returned, AwaitingPcs, NamingPcs, HandingPcs
  <2>10. ApiAnswers(p)'
    BY <1>1, <1>2, <1>3, <2>1, <2>7 DEF ApiAnswers, PostAt, NamingPcs, HandingPcs
  <2>11. ApiBeaten(p)'
    <3>1. ~answer[p].duplicate BY <1>1, <1>2 DEF ApiAnswers, NamingPcs
    <3>2. PostAt(p) = "naming" => (id \in controller.cams => beaten[p] >= 1)
      BY <1>1, <2>2, <2>5 DEF ApiBeaten, Fresh, reported
    <3>3. PostAt(p) = "renaming" => beaten[p] >= 1 /\ (id \in controller.cams => beaten[p] >= 2)
      BY <1>1, <2>2, <2>5 DEF ApiBeaten, Fresh, reported
    <3>. QED BY <2>1, <2>7, <3>1, <3>2, <3>3 DEF ApiBeaten, PostAt, Returned, Free
  <2>12. PostAt(p)' \notin NamingPcs BY <2>7 DEF PostAt, NamingPcs, HandingPcs
  <2>. QED BY <2>8, <2>9, <2>10, <2>11, <2>12, StepOfOne
<1>. QED BY <1>4, <1>5

\* The coroutine hears what became of its camera.
LEMMA ApiHandedOver ==
    ASSUME ApiInv, NEW p \in Posts, job[p].at = "done", PostAt(p) \in HandingPcs,
           Streams!HandedOver(p), UNCHANGED <<controller, taken, unheard, placed, beaten>>
    PROVE  ApiInv'
<1>1. /\ ApiTypes /\ ApiCalls(p) /\ ApiAnswers(p) /\ ApiBeaten(p)
      /\ post[p] \in PostStates /\ job[p] \in JobStates
  BY ApiParts
<1>2. /\ answer[p].status = 0 /\ ~answer[p].duplicate /\ post[p].id \in Int
      /\ job[p].out.result = "placed" => placed[p] = {post[p].id} /\ unheard[p] = {}
      /\ job[p].out.result = "down" => placed[p] \subseteq unheard[p]
      /\ job[p].out.result \notin {"placed", "down"} => taken[p] = {}
  BY <1>1 DEF ApiAnswers, ApiCalls, Returned, HandingPcs, PostStates
<1>3. ASSUME job[p].out.result = "placed",
             Streams!Submits(p, "reporting", Streams!LastReport, post[p].id), UNCHANGED answer
      PROVE  ApiInv'
  <2>1. Streams!Submits(p, "reporting", "report", post[p].id) BY <1>3 DEF Streams!LastReport
  <2>2. "reporting" \in PostPcs BY DEF PostPcs, AwaitingPcs
  <2>7. /\ post' \in [Posts -> PostStates] /\ job' \in [Posts -> JobStates]
        /\ \A q \in Posts : q # p => post'[q] = post[q] /\ job'[q] = job[q]
        /\ post'[p].at = "reporting" /\ post'[p].own = post[p].own /\ post'[p].id = post[p].id
        /\ job'[p].at = "called" /\ job'[p].kind = "report" /\ job'[p].out.result = "none"
    BY <1>1, <1>2, <2>1, <2>2, SubmitsFacts
  <2>8. Apart(p) /\ ApiTypes' BY <1>1, <1>3, <2>7 DEF Apart, ApiTypes
  <2>9. placed[p] = {post[p].id} /\ unheard[p] = {} BY <1>2, <1>3
  <2>10. ApiCalls(p)'
    BY <1>1, <2>7, <2>9 DEF ApiCalls, PostAt, Returned, AwaitingPcs, NamingPcs, HandingPcs
  <2>11. ApiAnswers(p)' BY <1>2, <1>3, <2>7 DEF ApiAnswers, PostAt
  <2>12. ApiBeaten(p)' BY <1>2, <1>3, <2>7 DEF ApiBeaten, PostAt
  <2>13. PostAt(p)' \notin NamingPcs BY <2>7 DEF PostAt, NamingPcs
  <2>. QED BY <2>8, <2>10, <2>11, <2>12, <2>13, StepOfOne
<1>4. ASSUME Streams!Retries(p), Streams!Submits(p, "renaming", "health", post[p].id),
             UNCHANGED answer
      PROVE  ApiInv'
  <2>1. /\ PostAt(p) = "handing" /\ post[p].own = -1 /\ Returned(p, "duplicate")
        /\ job[p].out.result = "duplicate"
    BY <1>4 DEF Streams!Retries, Streams!None, PostAt, Returned
  <2>2. beaten[p] >= 1 BY <1>1, <2>1 DEF ApiBeaten, Free
  <2>3. "renaming" \in PostPcs BY DEF PostPcs, AwaitingPcs, NamingPcs
  <2>7. /\ post' \in [Posts -> PostStates] /\ job' \in [Posts -> JobStates]
        /\ \A q \in Posts : q # p => post'[q] = post[q] /\ job'[q] = job[q]
        /\ post'[p].at = "renaming" /\ post'[p].own = post[p].own /\ post'[p].id = post[p].id
        /\ job'[p].at = "called" /\ job'[p].kind = "health" /\ job'[p].out.result = "none"
    BY <1>1, <1>2, <1>4, <2>3, SubmitsFacts
  <2>8. Apart(p) /\ ApiTypes' BY <1>1, <1>4, <2>7 DEF Apart, ApiTypes
  <2>9. taken[p] = {} BY <1>2, <2>1
  <2>10. ApiCalls(p)'
    BY <1>1, <2>1, <2>7, <2>9 DEF ApiCalls, PostAt, Returned, AwaitingPcs, NamingPcs, HandingPcs
  <2>11. ApiAnswers(p)' BY <1>2, <1>4, <2>7 DEF ApiAnswers, PostAt
  <2>12. ApiBeaten(p)' BY <1>2, <1>4, <2>2, <2>7 DEF ApiBeaten, PostAt, Returned
  <2>13. ~Returned(p, "report")' BY <2>7 DEF Returned
  <2>. QED BY <2>8, <2>10, <2>11, <2>12, <2>13, StepOfOne
<1>5. ASSUME job[p].out.result # "placed", ~Streams!Retries(p), job' = Streams!Settled(p),
             Streams!Answers(p, [Streams!NoAnswer EXCEPT
                 !.status = IF job[p].out.result = "down" THEN 503 ELSE 400,
                 !.duplicate = job[p].out.result = "duplicate"])
      PROVE  ApiInv'
  <2>. DEFINE status == IF job[p].out.result = "down" THEN 503 ELSE 400
              told == job[p].out.result = "duplicate"
              a == [Streams!NoAnswer EXCEPT !.status = status, !.duplicate = told]
  <2>1. a \in Replies /\ a.status = status /\ a.duplicate = told /\ status \in {400, 503}
    <3>1. Streams!NoAnswer \in Replies BY DEF Streams!NoAnswer, Streams!None, Replies
    <3>2. status \in {400, 503} /\ status \in Nat /\ told \in BOOLEAN OBVIOUS
    <3>. HIDE DEF status, told
    <3>3. a \in Replies BY <3>1, <3>2 DEF Replies
    <3>4. a.status = status /\ a.duplicate = told BY <3>1 DEF Replies
    <3>. QED BY <3>2, <3>3, <3>4
  <2>2. Streams!Answers(p, a) BY <1>5
  <2>. HIDE DEF a, status
  <2>3. /\ post' \in [Posts -> PostStates] /\ answer' \in [Posts -> Replies]
        /\ \A q \in Posts : q # p => post'[q] = post[q] /\ answer'[q] = answer[q]
        /\ post'[p].at = "answered" /\ post'[p].own = post[p].own /\ post'[p].id = post[p].id
        /\ answer'[p] = a
    BY <1>1, <2>1, <2>2, AnswersFacts
  <2>4. /\ job' \in [Posts -> JobStates] /\ \A q \in Posts : q # p => job'[q] = job[q]
        /\ job'[p].at = "none"
    BY <1>1, <1>5, SettledFacts
  <2>5. Apart(p) /\ ApiTypes' BY <1>1, <2>3, <2>4 DEF Apart, ApiTypes
  <2>6. /\ status = 400 => taken[p] = {}
        /\ status = 503 => placed[p] \subseteq unheard[p]
    BY <1>2, <1>5 DEF status
  <2>7. ApiCalls(p)'
    BY <1>1, <2>3, <2>4 DEF ApiCalls, PostAt, AwaitingPcs, NamingPcs, HandingPcs
  <2>8. ApiAnswers(p)' BY <2>1, <2>3, <2>4, <2>6 DEF ApiAnswers, PostAt
  <2>9. told /\ post[p].own = -1 => beaten[p] >= 2
    <3>1. ASSUME told, post[p].own = -1 PROVE PostAt(p) = "rehanding" /\ Returned(p, "duplicate")
      BY <1>5, <3>1 DEF Streams!Retries, Streams!None, PostAt, HandingPcs, Returned
    <3>. QED BY <1>1, <3>1 DEF ApiBeaten, Free
  <2>10. ApiBeaten(p)' BY ZenonT(30), <2>1, <2>3, <2>9 DEF ApiBeaten, PostAt
  <2>11. PostAt(p)' \notin NamingPcs BY <2>3 DEF PostAt, NamingPcs
  <2>. QED BY <2>5, <2>7, <2>8, <2>10, <2>11, StepOfOne
<1>. QED BY <1>3, <1>4, <1>5 DEF Streams!HandedOver

\* The coroutine answers with the camera it placed.
LEMMA ApiReported ==
    ASSUME ApiInv, NEW p \in Posts, job[p].at = "done", PostAt(p) = "reporting",
           Streams!Reported(p), UNCHANGED <<controller, taken, unheard, placed, beaten>>
    PROVE  ApiInv'
<1>1. /\ ApiTypes /\ ApiCalls(p) /\ ApiAnswers(p) /\ ApiBeaten(p)
      /\ post[p] \in PostStates /\ job[p] \in JobStates
  BY ApiParts
<1>2. /\ job[p].out.result # "failed" /\ post[p].id \in Int
      /\ placed[p] = {post[p].id} /\ unheard[p] = {}
  BY <1>1 DEF ApiCalls, Returned, PostStates
<1>. DEFINE a == Streams!PlacedFrom(job[p].out.report, post[p].id)
<1>3. Streams!Answers(p, a) /\ job' = Streams!Settled(p) BY <1>2 DEF Streams!Reported
<1>4. a \in Replies /\ a.status = 201 /\ a.id = post[p].id /\ ~a.duplicate
  <2>. DEFINE l == \E info \in Streams!Streams(job[p].out.report) : info.id = post[p].id
              n == Streams!NoAnswer
  <2>1. a = [n EXCEPT !.status = 201, !.id = post[p].id, !.listed = l]
    BY DEF Streams!PlacedFrom
  <2>2. l \in BOOLEAN OBVIOUS
  <2>3. n \in Replies /\ ~n.duplicate BY DEF Streams!NoAnswer, Streams!None, Replies
  <2>. HIDE DEF a, l, n
  <2>. QED BY ZenonT(30), <1>2, <2>1, <2>2, <2>3 DEF Replies
<1>. HIDE DEF a
<1>5. /\ post' \in [Posts -> PostStates] /\ answer' \in [Posts -> Replies]
      /\ \A q \in Posts : q # p => post'[q] = post[q] /\ answer'[q] = answer[q]
      /\ post'[p].at = "answered" /\ post'[p].own = post[p].own /\ post'[p].id = post[p].id
      /\ answer'[p] = a
  BY <1>1, <1>3, <1>4, AnswersFacts
<1>6. /\ job' \in [Posts -> JobStates] /\ \A q \in Posts : q # p => job'[q] = job[q]
      /\ job'[p].at = "none"
  BY <1>1, <1>3, SettledFacts
<1>7. Apart(p) /\ ApiTypes' BY <1>1, <1>5, <1>6 DEF Apart, ApiTypes
<1>8. ApiCalls(p)'
  BY <1>1, <1>5, <1>6 DEF ApiCalls, PostAt, AwaitingPcs, NamingPcs, HandingPcs
<1>9. ApiAnswers(p)' BY <1>2, <1>4, <1>5, <1>6 DEF ApiAnswers, PostAt
<1>10. ApiBeaten(p)' BY <1>4, <1>5 DEF ApiBeaten, PostAt
<1>11. PostAt(p)' \notin NamingPcs BY <1>5 DEF PostAt, NamingPcs
<1>. QED BY <1>7, <1>8, <1>9, <1>10, <1>11, StepOfOne

\* The event loop resumes a coroutine.
LEMMA ApiResume ==
    ASSUME ApiInv, NEW p \in Posts, Streams!Resume(p)
    PROVE  ApiInv'
<1>1. /\ job[p].at = "done" /\ UNCHANGED <<controller, taken, unheard, placed, beaten>>
      /\ PostAt(p) \in AwaitingPcs
  BY DEF Streams!Resume, Streams!hands, Streams!Awaiting, PostAt, AwaitingPcs, NamingPcs, HandingPcs
<1>2. CASE PostAt(p) = "naming"
  <2>1. Streams!Names(p, "handing") BY <1>2 DEF Streams!Resume, PostAt
  <2>. QED BY <1>1, <1>2, <2>1, ApiNames DEF HandingPcs
<1>3. CASE PostAt(p) = "renaming"
  <2>1. Streams!Names(p, "rehanding") BY <1>3 DEF Streams!Resume, PostAt
  <2>. QED BY <1>1, <1>3, <2>1, ApiNames DEF HandingPcs
<1>4. CASE PostAt(p) \in HandingPcs
  <2>1. Streams!HandedOver(p) BY <1>4 DEF Streams!Resume, PostAt, HandingPcs
  <2>. QED BY <1>1, <1>4, <2>1, ApiHandedOver
<1>5. CASE PostAt(p) = "reporting"
  <2>1. Streams!Reported(p) BY <1>5 DEF Streams!Resume, PostAt
  <2>. QED BY <1>1, <1>5, <2>1, ApiReported
<1>. QED BY <1>1, <1>2, <1>3, <1>4, <1>5 DEF AwaitingPcs, NamingPcs

\* The deadline answers 504, and leaves the worker thread to itself.
LEMMA ApiDeadline ==
    ASSUME ApiInv, NEW p \in Posts, Streams!Deadline(p)
    PROVE  ApiInv'
<1>1. PostAt(p) \in AwaitingPcs
  BY DEF Streams!Deadline, Streams!UnderDeadline, Streams!Awaiting, PostAt, AwaitingPcs,
         NamingPcs, HandingPcs
<1>2. /\ Streams!Refuses(p, 504) /\ UNCHANGED <<controller, taken, unheard, placed, beaten>>
      /\ \/ job' = Streams!Settled(p)
         \/ job[p].at = "called" /\ job' = [job EXCEPT ![p] = Streams!NoJob]
  BY DEF Streams!Deadline, Streams!hands
<1>. QED BY <1>1, <1>2, ApiRefusal

\* Fewer cameras: no name becomes taken, none comes from elsewhere.
LEMMA ApiFewer ==
    ASSUME ApiInv, NEW cams \in SUBSET controller.cams,
           controller' = [controller EXCEPT !.cams = cams],
           UNCHANGED <<post, job, answer, taken, unheard, placed, beaten>>
    PROVE  ApiInv'
<1>1. ApiTypes BY DEF ApiInv
<1>2. controller' \in Controllers /\ controller'.cams = cams BY <1>1 DEF ApiTypes, Controllers
<1>3. ApiTypes' BY <1>1, <1>2 DEF ApiTypes
<1>4. ApiSources' BY <1>2 DEF ApiInv, ApiSources, From, PostAt, Returned
<1>5. ASSUME NEW q \in Posts PROVE (ApiCalls(q) /\ ApiAnswers(q) /\ ApiBeaten(q))'
  <2>1. ApiCalls(q) /\ ApiAnswers(q) /\ ApiBeaten(q) BY DEF ApiInv
  <2>2. ApiCalls(q)' BY <2>1 DEF ApiCalls, PostAt, Returned
  <2>3. ApiAnswers(q)' BY <2>1 DEF ApiAnswers, PostAt
  <2>4. ApiBeaten(q)' BY <1>2, <2>1 DEF ApiBeaten, PostAt, Returned, Fresh, Free
  <2>. QED BY <2>2, <2>3, <2>4
<1>. QED BY <1>3, <1>4, <1>5 DEF ApiInv

\* Every step of the HTTP interface keeps its invariant.
LEMMA ApiKeeps ==
    ASSUME ApiInv, Streams!Next
    PROVE  ApiInv'
<1>1. ASSUME NEW id \in Indices, Streams!RemoveStream(id) PROVE ApiInv'
  <2>1. controller' = [controller EXCEPT !.cams = @ \ {id}]
              /\ UNCHANGED <<post, job, answer, taken, unheard, placed, beaten>>
    BY <1>1 DEF Streams!RemoveStream, Streams!hands
  <2>. QED BY <2>1, ApiFewer
<1>2. ASSUME Streams!DrainStreams PROVE ApiInv'
  <2>1. controller' = [controller EXCEPT !.cams = @ \cap Streams!Pending]
              /\ UNCHANGED <<post, job, answer, taken, unheard, placed, beaten>>
    BY <1>2 DEF Streams!DrainStreams, Streams!hands
  <2>. QED BY <2>1, ApiFewer
<1>. QED
  BY <1>1, <1>2, ApiAddStream, ApiRunHealth, ApiRunAdd, ApiAccepted, ApiNotAccepted,
     ApiPlacedUnheard, ApiResume, ApiDeadline DEF Streams!Next

\* The HTTP interface starts in its invariant.
LEMMA ApiStart ==
    ASSUME Streams!Init
    PROVE  ApiInv
<1>1. PICK manages \in BOOLEAN, n \in Started :
          controller = [manages |-> manages, cams |-> 0 .. n - 1]
  BY DEF Streams!Init
<1>2. n \in Nat /\ 0 .. n - 1 \in SUBSET Int BY IngestAssumption
<1>3. controller \in Controllers /\ controller.cams = 0 .. n - 1
  BY <1>1, <1>2 DEF Controllers
<1>4. /\ Streams!Idle \in PostStates /\ Streams!Idle.at = "idle" /\ Streams!Idle.own = -1
  BY DEF Streams!Idle, Streams!None, PostStates, PostPcs
<1>5. Streams!NoJob \in JobStates /\ Streams!NoJob.at = "none"
  BY DEF Streams!NoJob, Streams!NoOutcome, Streams!Unknown, Streams!None, JobStates, Outcomes,
         Results
<1>6. Streams!NoAnswer \in Replies /\ Streams!NoAnswer.status = 0 /\ ~Streams!NoAnswer.duplicate
  BY DEF Streams!NoAnswer, Streams!None, Replies
<1>7. ApiTypes BY <1>3, <1>4, <1>5, <1>6 DEF Streams!Init, ApiTypes
<1>8. \A p \in Posts : /\ post[p].at = "idle" /\ job[p].at = "none"
                       /\ taken[p] = {} /\ unheard[p] = {} /\ placed[p] = {}
                       /\ answer[p].status = 0 /\ ~answer[p].duplicate
  BY <1>4, <1>5, <1>6 DEF Streams!Init
<1>9. ApiSources BY <1>3, <1>8 DEF ApiSources, From, PostAt, NamingPcs
<1>10. \A p \in Posts : ApiCalls(p) /\ ApiAnswers(p) /\ ApiBeaten(p)
  BY <1>8
  DEF ApiCalls, ApiAnswers, ApiBeaten, PostAt, Returned, Free, AwaitingPcs, NamingPcs, HandingPcs
<1>. QED BY <1>7, <1>9, <1>10 DEF ApiInv

\* What the invariant of the HTTP interface says of its answers.
LEMMA ApiPromise ==
    ASSUME ApiInv
    PROVE  Streams!OnePostOneCamera /\ Streams!RefusedOnlyIfBeatenTwice
<1>1. ASSUME NEW p \in Posts PROVE Streams!Cardinality(placed[p] \cup unheard[p]) <= 1
  <2>. DEFINE S == placed[p] \cup unheard[p]
  <2>1. S = {} \/ \E id \in S : S = {id} BY DEF ApiInv, ApiCalls
  <2>2. Cardinality(S) <= 1
    <3>1. CASE S = {} BY <3>1, FS_EmptySet
    <3>2. ASSUME NEW id, S = {id} PROVE Cardinality(S) = 1
      BY <3>2, FS_Singleton
    <3>. QED BY <2>1, <3>1, <3>2
  <2>3. Streams!Cardinality(S) = Cardinality(S)
    BY DEF Streams!Cardinality, Cardinality
  <2>. QED BY <2>2, <2>3
<1>2. Streams!OnePostOneCamera
  BY <1>1 DEF Streams!OnePostOneCamera, ApiInv, ApiCalls, ApiAnswers
<1>3. Streams!RefusedOnlyIfBeatenTwice
  BY DEF Streams!RefusedOnlyIfBeatenTwice, Streams!None, ApiInv, ApiBeaten
<1>. QED BY <1>2, <1>3

\* The HTTP interface stands still.
LEMMA ApiStutters ==
    ASSUME ApiInv, UNCHANGED streamVars
    PROVE  ApiInv'
<1>1. ApiTypes' BY DEF ApiInv, ApiTypes, streamVars
<1>2. ApiSources' BY DEF ApiInv, ApiSources, From, PostAt, Returned, streamVars
<1>3. ASSUME NEW p \in Posts PROVE (ApiCalls(p) /\ ApiAnswers(p) /\ ApiBeaten(p))'
  <2>1. ApiCalls(p) /\ ApiAnswers(p) /\ ApiBeaten(p) BY DEF ApiInv
  <2>2. UNCHANGED <<controller, post, job, answer, taken, unheard, placed, beaten>> BY DEF streamVars
  <2>3. ApiCalls(p)' BY <2>1, <2>2 DEF ApiCalls, PostAt, Returned
  <2>4. ApiAnswers(p)' BY <2>1, <2>2 DEF ApiAnswers, PostAt
  <2>5. ApiBeaten(p)' BY <2>1, <2>2 DEF ApiBeaten, PostAt, Returned, Fresh, Free
  <2>. QED BY <2>3, <2>4, <2>5
<1>. QED BY <1>1, <1>2, <1>3 DEF ApiInv

\* POST /streams (api/streams.py): a request starts one camera or none, and its answer
\* says which; only a caller that was beaten twice is told of a duplicate.
THEOREM AnswersAreTrue == MCSpec => []OnePostOneCamera
<1>. DEFINE Inv == part = "streams" => ApiInv
<1>1. MCInit => Inv
  BY ApiStart DEF MCInit
<1>2. ASSUME Inv, [MCNext]_allVars PROVE Inv'
  <2>. SUFFICES ASSUME part' = "streams" PROVE ApiInv' OBVIOUS
  <2>1. part' = part
    BY <1>2 DEF MCNext, allVars, ActorStep, PythonStep, CppStep, StreamsStep, StreamsEnd
  <2>2. ApiInv BY <1>2, <2>1
  <2>3. Streams!Next \/ UNCHANGED streamVars
    BY <1>2, <2>1 DEF MCNext, allVars, ActorStep, PythonStep, CppStep, StreamsStep, StreamsEnd
  <2>. QED BY <2>2, <2>3, ApiKeeps, ApiStutters
<1>3. Inv => OnePostOneCamera
  BY ApiPromise DEF OnePostOneCamera
<1>. QED BY <1>1, <1>2, <1>3, PTL DEF MCSpec

-----------------------------------------------------------------------------
(* The two managers: their inductive invariants.                           *)

\* Where a caller of a manager is, and with which actor.
FleetAt(p) == requests[p].pc
FleetOf(p) == requests[p].self

\* The C++ manager.
NativeIdle == {"idle", "add", "next", "askall", "stopnext", "done"}
NativeStarting == {"clear", "spawn"}
NativeLocking == {"join", "unlock", "detached"}
NativePcs == NativeIdle \cup NativeStarting \cup NativeLocking
                 \cup {"recheck", "ask", "lock", "park", "clean"}
FleetOps == {"none", "add", "start", "remove", "stop"}

Todos == Seq(FleetCameras \cup Nat)

NativeActors ==
    [cam : FleetCameras, stop : BOOLEAN, thread : {"none", "running", "done"},
     handle : {"none", "joinable", "joined", "detached"}, locked : BOOLEAN]
NativeCalls ==
    [op : FleetOps, pc : NativePcs, cam : FleetCameras \cup {0}, self : Nat,
     todo : Todos, lent : SUBSET Nat, count : Nat]

NativeTypes ==
    /\ actors \in Seq(NativeActors)
    /\ fleet \in [map : [FleetCameras -> Nat], parked : SUBSET Nat, started : BOOLEAN]
    /\ requests \in [FleetCallers -> NativeCalls]

\* The map has a camera's actor under the camera's own id.
FleetMap ==
    \A c \in FleetCameras : fleet.map[c] # 0 =>
        fleet.map[c] \in 1 .. Len(actors) /\ actors[fleet.map[c]].cam = c

\* What a caller's place says of its frame.
NativeFrames ==
    \A p \in FleetCallers :
        /\ FleetAt(p) = "idle" => requests[p].op = "none"
        /\ FleetAt(p) \in {"add", "clear", "spawn", "recheck"} =>
              requests[p].op \in {"add", "start"} /\ requests[p].cam \in FleetCameras
        /\ FleetAt(p) = "next" => requests[p].op = "start"
        /\ FleetAt(p) \in {"askall", "stopnext"} => requests[p].op = "stop"
        /\ FleetAt(p) \in NativeIdle => FleetOf(p) = 0
        /\ FleetAt(p) \notin NativeIdle => FleetOf(p) \in 1 .. Len(actors)
        /\ FleetAt(p) \in {"clear", "spawn", "recheck"} =>
              actors[FleetOf(p)].cam = requests[p].cam

\* What is left to add, or to stop.
NativeTodo ==
    \A p \in FleetCallers :
        /\ \A i \in DOMAIN requests[p].todo :
              /\ requests[p].op = "start" => requests[p].todo[i] \in FleetCameras
              /\ requests[p].op = "stop" => requests[p].todo[i] \in 1 .. Len(actors)
        /\ requests[p].op = "stop" /\ FleetAt(p) = "done" => requests[p].todo = <<>>

\* An actor is started by the one caller that built it, once.
NativeThreads ==
    /\ \A a \in 1 .. Len(actors) :
          /\ actors[a].thread = "none" <=> actors[a].handle = "none"
          /\ actors[a].handle = "joined" => actors[a].thread = "done"
    /\ \A p \in FleetCallers : FleetAt(p) \in NativeStarting =>
          /\ actors[FleetOf(p)].thread = "none"
          /\ \A q \in FleetCallers \ {p} : FleetAt(q) \in NativeStarting
                => FleetOf(q) # FleetOf(p)

\* lifecycle_mutex_ has one holder, and the handle waits for it.
NativeLocks ==
    \A p \in FleetCallers : FleetAt(p) \in NativeLocking =>
        /\ actors[FleetOf(p)].locked
        /\ FleetAt(p) = "join" => actors[FleetOf(p)].handle = "joinable"
        /\ FleetAt(p) = "unlock" => actors[FleetOf(p)].handle # "joinable"
        /\ FleetAt(p) = "detached" => actors[FleetOf(p)].handle = "detached"
        /\ \A q \in FleetCallers \ {p} : FleetAt(q) \in NativeLocking => FleetOf(q) # FleetOf(p)

ToStop(p, a) ==
    requests[p].op = "stop" /\ \E i \in DOMAIN requests[p].todo : requests[p].todo[i] = a

\* Who will not let go of actor a while its thread runs.
Secures(p, a) == (FleetOf(p) = a /\ FleetAt(p) # "clean") \/ ToStop(p, a)

NativeSecured ==
    \A a \in 1 .. Len(actors) : actors[a].thread = "running" =>
        \/ fleet.map[actors[a].cam] = a
        \/ a \in fleet.parked
        \/ \E p \in FleetCallers : Secures(p, a)

\* A stop that has counted nobody has each actor it took still before it, or has
\* seen the end of its thread.
NativeCounted ==
    \A p \in FleetCallers : requests[p].op = "stop" =>
        \A a \in requests[p].lent :
            /\ a \in 1 .. Len(actors) /\ actors[a].handle # "none"
            /\ requests[p].count = 0 => actors[a].thread = "done" \/ Secures(p, a)

NativeInv ==
    /\ NativeTypes /\ FleetMap /\ NativeFrames /\ NativeTodo /\ NativeThreads /\ NativeLocks
    /\ NativeSecured /\ NativeCounted

\* The Python manager.
Building == {"clear", "spawn"}
InHand == Building \cup {"keep", "recheck", "ask", "join"}
FleetPcs == InHand \cup {"idle", "add", "started", "next", "askall", "stopnext", "done"}

FleetActor == [cam : FleetCameras, stop : BOOLEAN, thread : {"none", "running", "done"},
               handle : BOOLEAN, abandoned : BOOLEAN]
FleetCall == [op : FleetOps, pc : FleetPcs, cam : FleetCameras \cup {0}, self : Nat,
      todo : Todos]

FleetTypes ==
    /\ actors \in Seq(FleetActor)
    /\ fleet \in [map : [FleetCameras -> Nat], started : BOOLEAN]
    /\ requests \in [FleetCallers -> FleetCall]

\* What a caller's place says of its frame.
FleetFrames ==
    \A p \in FleetCallers :
        /\ FleetAt(p) = "idle" => requests[p].op = "none"
        /\ FleetAt(p) \in {"started", "next"} => requests[p].op = "start"
        /\ FleetAt(p) \in {"askall", "stopnext"} => requests[p].op = "stop"
        /\ FleetAt(p) \in {"add", "clear", "spawn", "keep", "recheck"} =>
              requests[p].op \in {"add", "start"} /\ requests[p].cam \in FleetCameras
        /\ FleetAt(p) \in InHand => FleetOf(p) \in 1 .. Len(actors)
        /\ FleetAt(p) \in {"clear", "spawn", "keep", "recheck"} =>
              actors[FleetOf(p)].cam = requests[p].cam

\* What is left to add, or to stop.
FleetTodo ==
    \A p \in FleetCallers : \A i \in DOMAIN requests[p].todo :
        /\ requests[p].op = "start" => requests[p].todo[i] \in FleetCameras
        /\ requests[p].op = "stop" => requests[p].todo[i] \in 1 .. Len(actors)

\* The event of an actor is cleared before its thread is there, by the one
\* caller that built it.
FleetBuilding ==
    \A p \in FleetCallers : FleetAt(p) \in Building =>
        /\ actors[FleetOf(p)].thread = "none"
        /\ \A q \in FleetCallers \ {p} : FleetAt(q) \in Building => FleetOf(q) # FleetOf(p)

FleetInv ==
    /\ FleetTypes /\ FleetMap /\ FleetFrames /\ FleetTodo /\ FleetBuilding
    /\ Python!NoOrphanCamera

-----------------------------------------------------------------------------
(* The C++ manager keeps its invariant.                                    *)

\* One element of a sequence replaced.
LEMMA SeqPatch ==
    ASSUME NEW S, NEW s \in Seq(S), NEW i \in 1 .. Len(s), NEW e \in S, NEW t,
           t = [s EXCEPT ![i] = e]
    PROVE  /\ t \in Seq(S) /\ Len(t) = Len(s) /\ t[i] = e
           /\ \A j \in 1 .. Len(s) : j # i => t[j] = s[j]
OBVIOUS

\* An actor of the C++ manager has its fields.
LEMMA NativeActorTypes ==
    NativeTypes => \A b \in 1 .. Len(actors) : actors[b] \in NativeActors
          /\ actors[b].cam \in FleetCameras
<1>. SUFFICES ASSUME NativeTypes, NEW b \in 1 .. Len(actors)
     PROVE  actors[b] \in NativeActors /\ actors[b].cam \in FleetCameras
  OBVIOUS
<1>1. actors[b] \in NativeActors BY DEF NativeTypes
<1>. QED BY <1>1 DEF NativeActors

\* The head and the tail of a list of work.
LEMMA PopFacts ==
    ASSUME NEW S, NEW s \in Seq(S), s # <<>>
    PROVE  /\ 1 \in DOMAIN s /\ Head(s) = s[1] /\ Head(s) \in S /\ Tail(s) \in Seq(S)
           /\ \A j \in DOMAIN Tail(s) : j + 1 \in DOMAIN s /\ Tail(s)[j] = s[j + 1]
           /\ \A i \in DOMAIN s : i # 1 => i - 1 \in DOMAIN Tail(s) /\ Tail(s)[i - 1] = s[i]
OBVIOUS

\* request_stop(): the stop event is set before the lifecycle lock is taken.
LEMMA NativeAsk ==
    ASSUME NativeInv, NEW p \in FleetCallers, Cpp!Ask(p)
    PROVE  NativeInv'
<1>. DEFINE a == FleetOf(p)
<1>1. /\ NativeTypes /\ FleetMap /\ NativeFrames /\ NativeTodo /\ NativeThreads /\ NativeLocks
      /\ NativeSecured /\ NativeCounted
  BY DEF NativeInv
<1>2. FleetAt(p) = "ask" /\ a \in 1 .. Len(actors)
  BY <1>1 DEF Cpp!Ask, Cpp!At, NativeFrames, FleetAt, FleetOf, NativeIdle
<1>3. /\ requests' \in [FleetCallers -> NativeCalls]
      /\ \A q \in FleetCallers : q # p => requests'[q] = requests[q]
      /\ requests'[p].pc = "lock"
      /\ requests'[p].op = requests[p].op /\ requests'[p].cam = requests[p].cam
      /\ requests'[p].self = requests[p].self /\ requests'[p].todo = requests[p].todo
      /\ requests'[p].lent = requests[p].lent /\ requests'[p].count = requests[p].count
  <2>1. requests \in [FleetCallers -> NativeCalls] BY <1>1 DEF NativeTypes
  <2>2. requests' = [requests EXCEPT ![p].pc = "lock"]
    BY <1>2 DEF Cpp!Ask, Cpp!Goto, Cpp!Me, Cpp!Returns, Cpp!NoActor, Cpp!Fate, FleetOf
  <2>3. "lock" \in NativePcs
    BY IngestAssumption, <1>1, <1>2, PopFacts
    DEF NativePcs, NativeIdle, NativeStarting, NativeLocking, FleetOps, NativeTypes, Todos
  <2>. QED BY <1>2, <2>1, <2>2, <2>3 DEF NativeCalls
<1>4. /\ actors' \in Seq(NativeActors) /\ Len(actors') = Len(actors)
      /\ \A b \in 1 .. Len(actors) : b # a => actors'[b] = actors[b]
      /\ actors'[a].stop = TRUE
      /\ actors'[a].cam = actors[a].cam /\ actors'[a].thread = actors[a].thread
      /\ actors'[a].handle = actors[a].handle /\ actors'[a].locked = actors[a].locked
  <2>. DEFINE e == [actors[a] EXCEPT !.stop = TRUE]
  <2>1. actors \in Seq(NativeActors) /\ actors[a] \in NativeActors BY <1>1, <1>2 DEF NativeTypes
  <2>2. e \in NativeActors BY <2>1 DEF NativeActors
  <2>3. actors' = [actors EXCEPT ![a] = e] BY DEF Cpp!Ask, Cpp!Me, FleetOf
  <2>. HIDE DEF e
  <2>4. /\ actors' \in Seq(NativeActors) /\ Len(actors') = Len(actors) /\ actors'[a] = e
        /\ \A b \in 1 .. Len(actors) : b # a => actors'[b] = actors[b]
    BY <1>2, <2>1, <2>2, <2>3, SeqPatch
  <2>. QED BY <2>1, <2>4 DEF NativeActors, e
<1>5. UNCHANGED fleet BY DEF Cpp!Ask
<1>6. NativeTypes' BY <1>1, <1>3, <1>4, <1>5 DEF NativeTypes
<1>7. FleetMap' BY <1>1, <1>2, <1>4, <1>5 DEF FleetMap
<1>8. NativeFrames' BY <1>1, <1>2, <1>3, <1>4 DEF NativeFrames, FleetAt, FleetOf, NativeIdle
<1>9. NativeThreads'
  <2>1. ASSUME NEW b \in 1 .. Len(actors)
        PROVE  /\ actors'[b].thread = "none" <=> actors'[b].handle = "none"
               /\ actors'[b].handle = "joined" => actors'[b].thread = "done"
    <3>1. CASE b = a BY <1>1, <1>4, <3>1 DEF NativeThreads
    <3>2. CASE b # a BY <1>1, <1>4, <3>2 DEF NativeThreads
    <3>. QED BY <3>1, <3>2
  <2>2. ASSUME NEW q \in FleetCallers, requests'[q].pc \in NativeStarting
        PROVE  /\ actors'[requests'[q].self].thread = "none"
               /\ \A r \in FleetCallers \ {q} :
                      requests'[r].pc \in NativeStarting => requests'[r].self # requests'[q].self
    BY <1>1, <1>2, <1>3, <1>4, <2>2
    DEF NativeThreads, NativeFrames, FleetAt, FleetOf, NativeIdle, NativeStarting
  <2>. QED BY <1>4, <2>1, <2>2 DEF NativeThreads, FleetAt, FleetOf
<1>10. NativeLocks'
  BY <1>1, <1>2, <1>3, <1>4
  DEF NativeLocks, NativeFrames, FleetAt, FleetOf, NativeIdle, NativeLocking
<1>13. NativeTodo'
  BY <1>1, <1>2, <1>3, <1>4 DEF NativeTodo, NativeFrames, FleetAt, FleetOf, NativeIdle
<1>11. NativeSecured'
  BY <1>1, <1>2, <1>3, <1>4, <1>5
  DEF NativeSecured, Secures, ToStop, NativeFrames, FleetAt, FleetOf, NativeIdle
<1>12. NativeCounted'
  BY SMTT(30), <1>1, <1>2, <1>3, <1>4, <1>5
  DEF NativeCounted, Secures, ToStop, NativeFrames, FleetAt, FleetOf, NativeIdle
<1>. QED BY <1>6, <1>7, <1>8, <1>9, <1>10, <1>11, <1>12, <1>13 DEF NativeInv

\* start() takes the lifecycle lock and clears the stop event.
LEMMA NativeStartClears ==
    ASSUME NativeInv, NEW p \in FleetCallers, Cpp!StartClears(p)
    PROVE  NativeInv'
<1>. DEFINE a == FleetOf(p)
<1>1. /\ NativeTypes /\ FleetMap /\ NativeFrames /\ NativeTodo /\ NativeThreads /\ NativeLocks
      /\ NativeSecured /\ NativeCounted
  BY DEF NativeInv
<1>2. FleetAt(p) = "clear" /\ a \in 1 .. Len(actors)
  BY <1>1 DEF Cpp!StartClears, Cpp!At, NativeFrames, FleetAt, FleetOf, NativeIdle
<1>20. actors[a].thread = "none" /\ \A q \in FleetCallers \ {p} : FleetAt(q) \in NativeStarting
             => FleetOf(q) # a
  BY <1>1, <1>2
  DEF Cpp!StartClears, Cpp!Me, Cpp!NoActor, NativeFrames, FleetAt, FleetOf, NativeIdle,
      NativeThreads, NativeStarting, NativeLocks, NativeLocking
<1>3. /\ requests' \in [FleetCallers -> NativeCalls]
      /\ \A q \in FleetCallers : q # p => requests'[q] = requests[q]
      /\ requests'[p].pc = "spawn"
      /\ requests'[p].op = requests[p].op /\ requests'[p].cam = requests[p].cam
      /\ requests'[p].self = requests[p].self /\ requests'[p].todo = requests[p].todo
      /\ requests'[p].lent = requests[p].lent /\ requests'[p].count = requests[p].count
  <2>1. requests \in [FleetCallers -> NativeCalls] BY <1>1 DEF NativeTypes
  <2>2. requests' = [requests EXCEPT ![p].pc = "spawn"]
    BY <1>2, <1>20
    DEF Cpp!StartClears, Cpp!Goto, Cpp!Me, Cpp!Returns, Cpp!NoActor, Cpp!Fate, FleetOf
  <2>3. "spawn" \in NativePcs
    BY IngestAssumption, <1>1, <1>2, <1>20, PopFacts
    DEF NativePcs, NativeIdle, NativeStarting, NativeLocking, FleetOps, NativeTypes, Todos
  <2>. QED BY <1>2, <2>1, <2>2, <2>3 DEF NativeCalls
<1>4. /\ actors' \in Seq(NativeActors) /\ Len(actors') = Len(actors)
      /\ \A b \in 1 .. Len(actors) : b # a => actors'[b] = actors[b]
      /\ actors'[a].stop = FALSE
      /\ actors'[a].cam = actors[a].cam /\ actors'[a].thread = actors[a].thread
      /\ actors'[a].handle = actors[a].handle /\ actors'[a].locked = actors[a].locked
  <2>. DEFINE e == [actors[a] EXCEPT !.stop = FALSE]
  <2>1. actors \in Seq(NativeActors) /\ actors[a] \in NativeActors BY <1>1, <1>2 DEF NativeTypes
  <2>2. e \in NativeActors BY <2>1 DEF NativeActors
  <2>3. actors' = [actors EXCEPT ![a] = e] BY DEF Cpp!StartClears, Cpp!Me, FleetOf
  <2>. HIDE DEF e
  <2>4. /\ actors' \in Seq(NativeActors) /\ Len(actors') = Len(actors) /\ actors'[a] = e
        /\ \A b \in 1 .. Len(actors) : b # a => actors'[b] = actors[b]
    BY <1>2, <2>1, <2>2, <2>3, SeqPatch
  <2>. QED BY <2>1, <2>4 DEF NativeActors, e
<1>5. UNCHANGED fleet BY DEF Cpp!StartClears
<1>6. NativeTypes' BY <1>1, <1>3, <1>4, <1>5 DEF NativeTypes
<1>7. FleetMap' BY <1>1, <1>2, <1>20, <1>4, <1>5 DEF FleetMap
<1>8. NativeFrames'
  BY SMTT(30), <1>1, <1>2, <1>20, <1>3, <1>4 DEF NativeFrames, FleetAt, FleetOf, NativeIdle
<1>9. NativeThreads'
  <2>1. ASSUME NEW b \in 1 .. Len(actors)
        PROVE  /\ actors'[b].thread = "none" <=> actors'[b].handle = "none"
               /\ actors'[b].handle = "joined" => actors'[b].thread = "done"
    <3>1. CASE b = a BY <1>1, <1>20, <1>4, <3>1 DEF NativeThreads
    <3>2. CASE b # a BY <1>1, <1>4, <3>2 DEF NativeThreads
    <3>. QED BY <3>1, <3>2
  <2>2. ASSUME NEW q \in FleetCallers, requests'[q].pc \in NativeStarting
        PROVE  /\ actors'[requests'[q].self].thread = "none"
               /\ \A r \in FleetCallers \ {q} :
                      requests'[r].pc \in NativeStarting => requests'[r].self # requests'[q].self
    BY <1>1, <1>2, <1>20, <1>3, <1>4, <2>2
    DEF NativeThreads, NativeFrames, FleetAt, FleetOf, NativeIdle, NativeStarting
  <2>. QED BY <1>4, <2>1, <2>2 DEF NativeThreads, FleetAt, FleetOf
<1>10. NativeLocks'
  BY SMTT(30), <1>1, <1>2, <1>20, <1>3, <1>4
  DEF NativeLocks, NativeFrames, FleetAt, FleetOf, NativeIdle, NativeLocking
<1>13. NativeTodo'
  BY <1>1, <1>2, <1>20, <1>3, <1>4 DEF NativeTodo, NativeFrames, FleetAt, FleetOf, NativeIdle
<1>11. NativeSecured'
  BY SMTT(30), <1>1, <1>2, <1>20, <1>3, <1>4, <1>5
  DEF NativeSecured, Secures, ToStop, NativeFrames, FleetAt, FleetOf, NativeIdle
<1>12. NativeCounted'
  BY <1>1, <1>2, <1>20, <1>3, <1>4, <1>5
  DEF NativeCounted, Secures, ToStop, NativeFrames, FleetAt, FleetOf, NativeIdle
<1>. QED BY <1>6, <1>7, <1>8, <1>9, <1>10, <1>11, <1>12, <1>13 DEF NativeInv

\* start() spawns the thread and keeps its handle.
LEMMA NativeStartSpawns ==
    ASSUME NativeInv, NEW p \in FleetCallers, Cpp!StartSpawns(p)
    PROVE  NativeInv'
<1>. DEFINE a == FleetOf(p)
<1>1. /\ NativeTypes /\ FleetMap /\ NativeFrames /\ NativeTodo /\ NativeThreads /\ NativeLocks
      /\ NativeSecured /\ NativeCounted
  BY DEF NativeInv
<1>2. FleetAt(p) = "spawn" /\ a \in 1 .. Len(actors)
  BY <1>1 DEF Cpp!StartSpawns, Cpp!At, NativeFrames, FleetAt, FleetOf, NativeIdle
<1>20. /\ ~actors[a].locked /\ actors[a].thread = "none" /\ actors[a].handle = "none"
       /\ \A q \in FleetCallers \ {p} : FleetAt(q) \in NativeStarting => FleetOf(q) # a
       /\ \A q \in FleetCallers : FleetAt(q) \in NativeLocking => FleetOf(q) # a
  BY <1>1, <1>2
  DEF Cpp!StartSpawns, Cpp!Me, Cpp!NoActor, NativeFrames, FleetAt, FleetOf, NativeIdle,
      NativeThreads, NativeStarting, NativeLocks, NativeLocking
<1>3. /\ requests' \in [FleetCallers -> NativeCalls]
      /\ \A q \in FleetCallers : q # p => requests'[q] = requests[q]
      /\ requests'[p].pc = "recheck"
      /\ requests'[p].op = requests[p].op /\ requests'[p].cam = requests[p].cam
      /\ requests'[p].self = requests[p].self /\ requests'[p].todo = requests[p].todo
      /\ requests'[p].lent = requests[p].lent /\ requests'[p].count = requests[p].count
  <2>1. requests \in [FleetCallers -> NativeCalls] BY <1>1 DEF NativeTypes
  <2>2. requests' = [requests EXCEPT ![p].pc = "recheck"]
    BY <1>2, <1>20
    DEF Cpp!StartSpawns, Cpp!Goto, Cpp!Me, Cpp!Returns, Cpp!NoActor, Cpp!Fate, FleetOf
  <2>3. "recheck" \in NativePcs
    BY IngestAssumption, <1>1, <1>2, <1>20, PopFacts
    DEF NativePcs, NativeIdle, NativeStarting, NativeLocking, FleetOps, NativeTypes, Todos
  <2>. QED BY <1>2, <2>1, <2>2, <2>3 DEF NativeCalls
<1>4. /\ actors' \in Seq(NativeActors) /\ Len(actors') = Len(actors)
      /\ \A b \in 1 .. Len(actors) : b # a => actors'[b] = actors[b]
      /\ actors'[a].thread = "running" /\ actors'[a].handle = "joinable"
      /\ actors'[a].cam = actors[a].cam /\ actors'[a].stop = actors[a].stop
      /\ actors'[a].locked = actors[a].locked
  <2>. DEFINE e == [actors[a] EXCEPT !.thread = "running", !.handle = "joinable"]
  <2>1. actors \in Seq(NativeActors) /\ actors[a] \in NativeActors BY <1>1, <1>2 DEF NativeTypes
  <2>2. e \in NativeActors BY <2>1 DEF NativeActors
  <2>3. actors' = [actors EXCEPT ![a] = e] BY DEF Cpp!StartSpawns, Cpp!Me, FleetOf
  <2>. HIDE DEF e
  <2>4. /\ actors' \in Seq(NativeActors) /\ Len(actors') = Len(actors) /\ actors'[a] = e
        /\ \A b \in 1 .. Len(actors) : b # a => actors'[b] = actors[b]
    BY <1>2, <2>1, <2>2, <2>3, SeqPatch
  <2>. QED BY <2>1, <2>4 DEF NativeActors, e
<1>5. UNCHANGED fleet BY DEF Cpp!StartSpawns
<1>6. NativeTypes' BY <1>1, <1>3, <1>4, <1>5 DEF NativeTypes
<1>7. FleetMap' BY <1>1, <1>2, <1>20, <1>4, <1>5 DEF FleetMap
<1>8. NativeFrames'
  BY SMTT(30), <1>1, <1>2, <1>20, <1>3, <1>4 DEF NativeFrames, FleetAt, FleetOf, NativeIdle
<1>9. NativeThreads'
  <2>1. ASSUME NEW b \in 1 .. Len(actors)
        PROVE  /\ actors'[b].thread = "none" <=> actors'[b].handle = "none"
               /\ actors'[b].handle = "joined" => actors'[b].thread = "done"
    <3>1. CASE b = a BY <1>1, <1>20, <1>4, <3>1 DEF NativeThreads
    <3>2. CASE b # a BY <1>1, <1>4, <3>2 DEF NativeThreads
    <3>. QED BY <3>1, <3>2
  <2>2. ASSUME NEW q \in FleetCallers, requests'[q].pc \in NativeStarting
        PROVE  /\ actors'[requests'[q].self].thread = "none"
               /\ \A r \in FleetCallers \ {q} :
                      requests'[r].pc \in NativeStarting => requests'[r].self # requests'[q].self
    BY <1>1, <1>2, <1>20, <1>3, <1>4, <2>2
    DEF NativeThreads, NativeFrames, FleetAt, FleetOf, NativeIdle, NativeStarting
  <2>. QED BY <1>4, <2>1, <2>2 DEF NativeThreads, FleetAt, FleetOf
<1>10. NativeLocks'
  BY <1>1, <1>2, <1>20, <1>3, <1>4
  DEF NativeLocks, NativeFrames, FleetAt, FleetOf, NativeIdle, NativeLocking
<1>13. NativeTodo'
  BY <1>1, <1>2, <1>20, <1>3, <1>4 DEF NativeTodo, NativeFrames, FleetAt, FleetOf, NativeIdle
<1>11. NativeSecured'
  BY <1>1, <1>2, <1>20, <1>3, <1>4, <1>5
  DEF NativeSecured, Secures, ToStop, NativeFrames, FleetAt, FleetOf, NativeIdle
<1>12. NativeCounted'
  BY <1>1, <1>2, <1>20, <1>3, <1>4, <1>5
  DEF NativeCounted, Secures, ToStop, NativeFrames, FleetAt, FleetOf, NativeIdle
<1>. QED BY <1>6, <1>7, <1>8, <1>9, <1>10, <1>11, <1>12, <1>13 DEF NativeInv

\* stop() joins the thread.
LEMMA NativeJoin ==
    ASSUME NativeInv, NEW p \in FleetCallers, Cpp!Join(p)
    PROVE  NativeInv'
<1>. DEFINE a == FleetOf(p)
<1>1. /\ NativeTypes /\ FleetMap /\ NativeFrames /\ NativeTodo /\ NativeThreads /\ NativeLocks
      /\ NativeSecured /\ NativeCounted
  BY DEF NativeInv
<1>2. FleetAt(p) = "join" /\ a \in 1 .. Len(actors)
  BY <1>1 DEF Cpp!Join, Cpp!At, NativeFrames, FleetAt, FleetOf, NativeIdle
<1>20. /\ actors[a].thread = "done"
       /\ \A q \in FleetCallers \ {p} : FleetAt(q) \in NativeLocking => FleetOf(q) # a
  BY <1>1, <1>2
  DEF Cpp!Join, Cpp!Me, Cpp!NoActor, NativeFrames, FleetAt, FleetOf, NativeIdle, NativeThreads,
      NativeStarting, NativeLocks, NativeLocking
<1>3. /\ requests' \in [FleetCallers -> NativeCalls]
      /\ \A q \in FleetCallers : q # p => requests'[q] = requests[q]
      /\ requests'[p].pc = "unlock"
      /\ requests'[p].op = requests[p].op /\ requests'[p].cam = requests[p].cam
      /\ requests'[p].self = requests[p].self /\ requests'[p].todo = requests[p].todo
      /\ requests'[p].lent = requests[p].lent /\ requests'[p].count = requests[p].count
  <2>1. requests \in [FleetCallers -> NativeCalls] BY <1>1 DEF NativeTypes
  <2>2. requests' = [requests EXCEPT ![p].pc = "unlock"]
    BY <1>2, <1>20 DEF Cpp!Join, Cpp!Goto, Cpp!Me, Cpp!Returns, Cpp!NoActor, Cpp!Fate, FleetOf
  <2>3. "unlock" \in NativePcs
    BY IngestAssumption, <1>1, <1>2, <1>20, PopFacts
    DEF NativePcs, NativeIdle, NativeStarting, NativeLocking, FleetOps, NativeTypes, Todos
  <2>. QED BY <1>2, <2>1, <2>2, <2>3 DEF NativeCalls
<1>4. /\ actors' \in Seq(NativeActors) /\ Len(actors') = Len(actors)
      /\ \A b \in 1 .. Len(actors) : b # a => actors'[b] = actors[b]
      /\ actors'[a].handle = "joined"
      /\ actors'[a].cam = actors[a].cam /\ actors'[a].stop = actors[a].stop
      /\ actors'[a].thread = actors[a].thread /\ actors'[a].locked = actors[a].locked
  <2>. DEFINE e == [actors[a] EXCEPT !.handle = "joined"]
  <2>1. actors \in Seq(NativeActors) /\ actors[a] \in NativeActors BY <1>1, <1>2 DEF NativeTypes
  <2>2. e \in NativeActors BY <2>1 DEF NativeActors
  <2>3. actors' = [actors EXCEPT ![a] = e] BY DEF Cpp!Join, Cpp!Me, FleetOf
  <2>. HIDE DEF e
  <2>4. /\ actors' \in Seq(NativeActors) /\ Len(actors') = Len(actors) /\ actors'[a] = e
        /\ \A b \in 1 .. Len(actors) : b # a => actors'[b] = actors[b]
    BY <1>2, <2>1, <2>2, <2>3, SeqPatch
  <2>. QED BY <2>1, <2>4 DEF NativeActors, e
<1>5. UNCHANGED fleet BY DEF Cpp!Join
<1>6. NativeTypes' BY <1>1, <1>3, <1>4, <1>5 DEF NativeTypes
<1>7. FleetMap' BY <1>1, <1>2, <1>20, <1>4, <1>5 DEF FleetMap
<1>8. NativeFrames'
  BY <1>1, <1>2, <1>20, <1>3, <1>4 DEF NativeFrames, FleetAt, FleetOf, NativeIdle
<1>9. NativeThreads'
  <2>1. ASSUME NEW b \in 1 .. Len(actors)
        PROVE  /\ actors'[b].thread = "none" <=> actors'[b].handle = "none"
               /\ actors'[b].handle = "joined" => actors'[b].thread = "done"
    <3>1. CASE b = a BY <1>1, <1>20, <1>4, <3>1 DEF NativeThreads
    <3>2. CASE b # a BY <1>1, <1>4, <3>2 DEF NativeThreads
    <3>. QED BY <3>1, <3>2
  <2>2. ASSUME NEW q \in FleetCallers, requests'[q].pc \in NativeStarting
        PROVE  /\ actors'[requests'[q].self].thread = "none"
               /\ \A r \in FleetCallers \ {q} :
                      requests'[r].pc \in NativeStarting => requests'[r].self # requests'[q].self
    BY SMTT(30), <1>1, <1>2, <1>20, <1>3, <1>4, <2>2
    DEF NativeThreads, NativeFrames, FleetAt, FleetOf, NativeIdle, NativeStarting
  <2>. QED BY <1>4, <2>1, <2>2 DEF NativeThreads, FleetAt, FleetOf
<1>10. NativeLocks'
  BY <1>1, <1>2, <1>20, <1>3, <1>4
  DEF NativeLocks, NativeFrames, FleetAt, FleetOf, NativeIdle, NativeLocking
<1>13. NativeTodo'
  BY <1>1, <1>2, <1>20, <1>3, <1>4 DEF NativeTodo, NativeFrames, FleetAt, FleetOf, NativeIdle
<1>11. NativeSecured'
  BY <1>1, <1>2, <1>20, <1>3, <1>4, <1>5
  DEF NativeSecured, Secures, ToStop, NativeFrames, FleetAt, FleetOf, NativeIdle
<1>12. NativeCounted'
  BY <1>1, <1>2, <1>20, <1>3, <1>4, <1>5
  DEF NativeCounted, Secures, ToStop, NativeFrames, FleetAt, FleetOf, NativeIdle
<1>. QED BY <1>6, <1>7, <1>8, <1>9, <1>10, <1>11, <1>12, <1>13 DEF NativeInv

\* stop() gives the thread up after its timeout.
LEMMA NativeDetach ==
    ASSUME NativeInv, NEW p \in FleetCallers, Cpp!Detach(p)
    PROVE  NativeInv'
<1>. DEFINE a == FleetOf(p)
<1>1. /\ NativeTypes /\ FleetMap /\ NativeFrames /\ NativeTodo /\ NativeThreads /\ NativeLocks
      /\ NativeSecured /\ NativeCounted
  BY DEF NativeInv
<1>2. FleetAt(p) = "join" /\ a \in 1 .. Len(actors)
  BY <1>1 DEF Cpp!Detach, Cpp!At, NativeFrames, FleetAt, FleetOf, NativeIdle
<1>20. /\ actors[a].thread = "running"
       /\ \A q \in FleetCallers \ {p} : FleetAt(q) \in NativeLocking => FleetOf(q) # a
  BY <1>1, <1>2
  DEF Cpp!Detach, Cpp!Me, Cpp!NoActor, NativeFrames, FleetAt, FleetOf, NativeIdle, NativeThreads,
      NativeStarting, NativeLocks, NativeLocking
<1>3. /\ requests' \in [FleetCallers -> NativeCalls]
      /\ \A q \in FleetCallers : q # p => requests'[q] = requests[q]
      /\ requests'[p].pc = "detached"
      /\ requests'[p].op = requests[p].op /\ requests'[p].cam = requests[p].cam
      /\ requests'[p].self = requests[p].self /\ requests'[p].todo = requests[p].todo
      /\ requests'[p].lent = requests[p].lent /\ requests'[p].count = requests[p].count
  <2>1. requests \in [FleetCallers -> NativeCalls] BY <1>1 DEF NativeTypes
  <2>2. requests' = [requests EXCEPT ![p].pc = "detached"]
    BY <1>2, <1>20 DEF Cpp!Detach, Cpp!Goto, Cpp!Me, Cpp!Returns, Cpp!NoActor, Cpp!Fate, FleetOf
  <2>3. "detached" \in NativePcs
    BY IngestAssumption, <1>1, <1>2, <1>20, PopFacts
    DEF NativePcs, NativeIdle, NativeStarting, NativeLocking, FleetOps, NativeTypes, Todos
  <2>. QED BY <1>2, <2>1, <2>2, <2>3 DEF NativeCalls
<1>4. /\ actors' \in Seq(NativeActors) /\ Len(actors') = Len(actors)
      /\ \A b \in 1 .. Len(actors) : b # a => actors'[b] = actors[b]
      /\ actors'[a].handle = "detached"
      /\ actors'[a].cam = actors[a].cam /\ actors'[a].stop = actors[a].stop
      /\ actors'[a].thread = actors[a].thread /\ actors'[a].locked = actors[a].locked
  <2>. DEFINE e == [actors[a] EXCEPT !.handle = "detached"]
  <2>1. actors \in Seq(NativeActors) /\ actors[a] \in NativeActors BY <1>1, <1>2 DEF NativeTypes
  <2>2. e \in NativeActors BY <2>1 DEF NativeActors
  <2>3. actors' = [actors EXCEPT ![a] = e] BY DEF Cpp!Detach, Cpp!Me, FleetOf
  <2>. HIDE DEF e
  <2>4. /\ actors' \in Seq(NativeActors) /\ Len(actors') = Len(actors) /\ actors'[a] = e
        /\ \A b \in 1 .. Len(actors) : b # a => actors'[b] = actors[b]
    BY <1>2, <2>1, <2>2, <2>3, SeqPatch
  <2>. QED BY <2>1, <2>4 DEF NativeActors, e
<1>5. UNCHANGED fleet BY DEF Cpp!Detach
<1>6. NativeTypes' BY <1>1, <1>3, <1>4, <1>5 DEF NativeTypes
<1>7. FleetMap' BY <1>1, <1>2, <1>20, <1>4, <1>5 DEF FleetMap
<1>8. NativeFrames'
  BY SMTT(30), <1>1, <1>2, <1>20, <1>3, <1>4 DEF NativeFrames, FleetAt, FleetOf, NativeIdle
<1>9. NativeThreads'
  <2>1. ASSUME NEW b \in 1 .. Len(actors)
        PROVE  /\ actors'[b].thread = "none" <=> actors'[b].handle = "none"
               /\ actors'[b].handle = "joined" => actors'[b].thread = "done"
    <3>1. CASE b = a BY <1>1, <1>20, <1>4, <3>1 DEF NativeThreads
    <3>2. CASE b # a BY <1>1, <1>4, <3>2 DEF NativeThreads
    <3>. QED BY <3>1, <3>2
  <2>2. ASSUME NEW q \in FleetCallers, requests'[q].pc \in NativeStarting
        PROVE  /\ actors'[requests'[q].self].thread = "none"
               /\ \A r \in FleetCallers \ {q} :
                      requests'[r].pc \in NativeStarting => requests'[r].self # requests'[q].self
    BY SMTT(30), <1>1, <1>2, <1>20, <1>3, <1>4, <2>2
    DEF NativeThreads, NativeFrames, FleetAt, FleetOf, NativeIdle, NativeStarting
  <2>. QED BY <1>4, <2>1, <2>2 DEF NativeThreads, FleetAt, FleetOf
<1>10. NativeLocks'
  BY <1>1, <1>2, <1>20, <1>3, <1>4
  DEF NativeLocks, NativeFrames, FleetAt, FleetOf, NativeIdle, NativeLocking
<1>13. NativeTodo'
  BY <1>1, <1>2, <1>20, <1>3, <1>4 DEF NativeTodo, NativeFrames, FleetAt, FleetOf, NativeIdle
<1>11. NativeSecured'
  BY <1>1, <1>2, <1>20, <1>3, <1>4, <1>5
  DEF NativeSecured, Secures, ToStop, NativeFrames, FleetAt, FleetOf, NativeIdle
<1>12. NativeCounted'
  BY <1>1, <1>2, <1>20, <1>3, <1>4, <1>5
  DEF NativeCounted, Secures, ToStop, NativeFrames, FleetAt, FleetOf, NativeIdle
<1>. QED BY <1>6, <1>7, <1>8, <1>9, <1>10, <1>11, <1>12, <1>13 DEF NativeInv

\* stop() takes the lifecycle lock.
LEMMA NativeLockLifecycle ==
    ASSUME NativeInv, NEW p \in FleetCallers, Cpp!LockLifecycle(p)
    PROVE  NativeInv'
<1>. DEFINE a == FleetOf(p)
<1>1. /\ NativeTypes /\ FleetMap /\ NativeFrames /\ NativeTodo /\ NativeThreads /\ NativeLocks
      /\ NativeSecured /\ NativeCounted
  BY DEF NativeInv
<1>2. FleetAt(p) = "lock" /\ a \in 1 .. Len(actors)
  BY <1>1 DEF Cpp!LockLifecycle, Cpp!At, NativeFrames, FleetAt, FleetOf, NativeIdle
<1>20. /\ ~actors[a].locked
       /\ \A q \in FleetCallers : FleetAt(q) \in NativeLocking => FleetOf(q) # a
  BY <1>1, <1>2
  DEF Cpp!LockLifecycle, Cpp!Me, Cpp!NoActor, NativeFrames, FleetAt, FleetOf, NativeIdle,
      NativeThreads, NativeStarting, NativeLocks, NativeLocking
<1>3. /\ requests' \in [FleetCallers -> NativeCalls]
      /\ \A q \in FleetCallers : q # p => requests'[q] = requests[q]
      /\ requests'[p].pc = (IF actors[a].handle = "joinable" THEN "join" ELSE "unlock")
      /\ requests'[p].op = requests[p].op /\ requests'[p].cam = requests[p].cam
      /\ requests'[p].self = requests[p].self /\ requests'[p].todo = requests[p].todo
      /\ requests'[p].lent = requests[p].lent /\ requests'[p].count = requests[p].count
  <2>1. requests \in [FleetCallers -> NativeCalls] BY <1>1 DEF NativeTypes
  <2>2. requests' = [requests EXCEPT ![p].pc = (IF actors[a].handle = "joinable" THEN "join" ELSE "unlock")]
    BY <1>2, <1>20
    DEF Cpp!LockLifecycle, Cpp!Goto, Cpp!Me, Cpp!Returns, Cpp!NoActor, Cpp!Fate, FleetOf
  <2>3. (IF actors[a].handle = "joinable" THEN "join" ELSE "unlock") \in NativePcs
    BY IngestAssumption, <1>1, <1>2, <1>20, PopFacts
    DEF NativePcs, NativeIdle, NativeStarting, NativeLocking, FleetOps, NativeTypes, Todos
  <2>. QED BY <1>2, <2>1, <2>2, <2>3 DEF NativeCalls
<1>4. /\ actors' \in Seq(NativeActors) /\ Len(actors') = Len(actors)
      /\ \A b \in 1 .. Len(actors) : b # a => actors'[b] = actors[b]
      /\ actors'[a].locked = TRUE
      /\ actors'[a].cam = actors[a].cam /\ actors'[a].stop = actors[a].stop
      /\ actors'[a].thread = actors[a].thread /\ actors'[a].handle = actors[a].handle
  <2>. DEFINE e == [actors[a] EXCEPT !.locked = TRUE]
  <2>1. actors \in Seq(NativeActors) /\ actors[a] \in NativeActors BY <1>1, <1>2 DEF NativeTypes
  <2>2. e \in NativeActors BY <2>1 DEF NativeActors
  <2>3. actors' = [actors EXCEPT ![a] = e] BY DEF Cpp!LockLifecycle, Cpp!Me, FleetOf
  <2>. HIDE DEF e
  <2>4. /\ actors' \in Seq(NativeActors) /\ Len(actors') = Len(actors) /\ actors'[a] = e
        /\ \A b \in 1 .. Len(actors) : b # a => actors'[b] = actors[b]
    BY <1>2, <2>1, <2>2, <2>3, SeqPatch
  <2>. QED BY <2>1, <2>4 DEF NativeActors, e
<1>5. UNCHANGED fleet BY DEF Cpp!LockLifecycle
<1>6. NativeTypes' BY <1>1, <1>3, <1>4, <1>5 DEF NativeTypes
<1>7. FleetMap' BY <1>1, <1>2, <1>20, <1>4, <1>5 DEF FleetMap
<1>8. NativeFrames'
  BY SMTT(30), <1>1, <1>2, <1>20, <1>3, <1>4 DEF NativeFrames, FleetAt, FleetOf, NativeIdle
<1>9. NativeThreads'
  <2>1. ASSUME NEW b \in 1 .. Len(actors)
        PROVE  /\ actors'[b].thread = "none" <=> actors'[b].handle = "none"
               /\ actors'[b].handle = "joined" => actors'[b].thread = "done"
    <3>1. CASE b = a BY <1>1, <1>4, <3>1 DEF NativeThreads
    <3>2. CASE b # a BY <1>1, <1>4, <3>2 DEF NativeThreads
    <3>. QED BY <3>1, <3>2
  <2>2. ASSUME NEW q \in FleetCallers, requests'[q].pc \in NativeStarting
        PROVE  /\ actors'[requests'[q].self].thread = "none"
               /\ \A r \in FleetCallers \ {q} :
                      requests'[r].pc \in NativeStarting => requests'[r].self # requests'[q].self
    BY <1>1, <1>2, <1>3, <1>4, <2>2
    DEF NativeThreads, NativeFrames, FleetAt, FleetOf, NativeIdle, NativeStarting
  <2>. QED BY <1>4, <2>1, <2>2 DEF NativeThreads, FleetAt, FleetOf
<1>10. NativeLocks'
  BY SMTT(30), <1>1, <1>2, <1>20, <1>3, <1>4
  DEF NativeLocks, NativeFrames, FleetAt, FleetOf, NativeIdle, NativeLocking
<1>13. NativeTodo'
  BY <1>1, <1>2, <1>20, <1>3, <1>4 DEF NativeTodo, NativeFrames, FleetAt, FleetOf, NativeIdle
<1>11. NativeSecured'
  BY <1>1, <1>2, <1>20, <1>3, <1>4, <1>5
  DEF NativeSecured, Secures, ToStop, NativeFrames, FleetAt, FleetOf, NativeIdle
<1>12. NativeCounted'
  BY <1>1, <1>2, <1>20, <1>3, <1>4, <1>5
  DEF NativeCounted, Secures, ToStop, NativeFrames, FleetAt, FleetOf, NativeIdle
<1>. QED BY <1>6, <1>7, <1>8, <1>9, <1>10, <1>11, <1>12, <1>13 DEF NativeInv

\* stop() lets the lifecycle lock go.
LEMMA NativeUnlock ==
    ASSUME NativeInv, NEW p \in FleetCallers, Cpp!Unlock(p)
    PROVE  NativeInv'
<1>. DEFINE a == FleetOf(p)
<1>1. /\ NativeTypes /\ FleetMap /\ NativeFrames /\ NativeTodo /\ NativeThreads /\ NativeLocks
      /\ NativeSecured /\ NativeCounted
  BY DEF NativeInv
<1>2. FleetAt(p) \in {"unlock", "detached"} /\ a \in 1 .. Len(actors)
  BY <1>1 DEF Cpp!Unlock, Cpp!At, NativeFrames, FleetAt, FleetOf, NativeIdle
<1>20. /\ actors[a].handle # "joinable"
       /\ actors[a].handle # "none" /\ actors[a].handle # "detached" => actors[a].thread = "done"
       /\ actors[a].thread = "running" => actors[a].handle = "detached"
       /\ \A q \in FleetCallers \ {p} : FleetAt(q) \in NativeLocking => FleetOf(q) # a
  <2>1. actors[a] \in NativeActors BY <1>1, <1>2 DEF NativeTypes
  <2>. QED
    BY <1>1, <1>2, <2>1
    DEF NativeActors, NativeFrames, FleetAt, FleetOf, NativeIdle, NativeThreads, NativeLocks,
        NativeLocking
<1>3. /\ requests' \in [FleetCallers -> NativeCalls]
      /\ \A q \in FleetCallers : q # p => requests'[q] = requests[q]
      /\ requests'[p].pc = (IF actors[a].handle = "detached" THEN "park" ELSE "clean")
      /\ requests'[p].op = requests[p].op /\ requests'[p].cam = requests[p].cam
      /\ requests'[p].self = requests[p].self /\ requests'[p].todo = requests[p].todo
      /\ requests'[p].lent = requests[p].lent /\ requests'[p].count = requests[p].count
  <2>1. requests \in [FleetCallers -> NativeCalls] BY <1>1 DEF NativeTypes
  <2>2. requests' = [requests EXCEPT ![p].pc = (IF actors[a].handle = "detached" THEN "park" ELSE "clean")]
    BY <1>2, <1>20 DEF Cpp!Unlock, Cpp!Goto, Cpp!Me, Cpp!Returns, Cpp!NoActor, Cpp!Fate, FleetOf
  <2>3. (IF actors[a].handle = "detached" THEN "park" ELSE "clean") \in NativePcs
    BY IngestAssumption, <1>1, <1>2, <1>20, PopFacts
    DEF NativePcs, NativeIdle, NativeStarting, NativeLocking, FleetOps, NativeTypes, Todos
  <2>. QED BY <1>2, <2>1, <2>2, <2>3 DEF NativeCalls
<1>4. /\ actors' \in Seq(NativeActors) /\ Len(actors') = Len(actors)
      /\ \A b \in 1 .. Len(actors) : b # a => actors'[b] = actors[b]
      /\ actors'[a].locked = FALSE
      /\ actors'[a].cam = actors[a].cam /\ actors'[a].stop = actors[a].stop
      /\ actors'[a].thread = actors[a].thread /\ actors'[a].handle = actors[a].handle
  <2>. DEFINE e == [actors[a] EXCEPT !.locked = FALSE]
  <2>1. actors \in Seq(NativeActors) /\ actors[a] \in NativeActors BY <1>1, <1>2 DEF NativeTypes
  <2>2. e \in NativeActors BY <2>1 DEF NativeActors
  <2>3. actors' = [actors EXCEPT ![a] = e] BY DEF Cpp!Unlock, Cpp!Me, FleetOf
  <2>. HIDE DEF e
  <2>4. /\ actors' \in Seq(NativeActors) /\ Len(actors') = Len(actors) /\ actors'[a] = e
        /\ \A b \in 1 .. Len(actors) : b # a => actors'[b] = actors[b]
    BY <1>2, <2>1, <2>2, <2>3, SeqPatch
  <2>. QED BY <2>1, <2>4 DEF NativeActors, e
<1>5. UNCHANGED fleet BY DEF Cpp!Unlock
<1>6. NativeTypes' BY <1>1, <1>3, <1>4, <1>5 DEF NativeTypes
<1>7. FleetMap' BY <1>1, <1>2, <1>20, <1>4, <1>5 DEF FleetMap
<1>8. NativeFrames'
  BY <1>1, <1>2, <1>20, <1>3, <1>4 DEF NativeFrames, FleetAt, FleetOf, NativeIdle
<1>9. NativeThreads'
  <2>1. ASSUME NEW b \in 1 .. Len(actors)
        PROVE  /\ actors'[b].thread = "none" <=> actors'[b].handle = "none"
               /\ actors'[b].handle = "joined" => actors'[b].thread = "done"
    <3>1. CASE b = a BY <1>1, <1>4, <3>1 DEF NativeThreads
    <3>2. CASE b # a BY <1>1, <1>4, <3>2 DEF NativeThreads
    <3>. QED BY <3>1, <3>2
  <2>2. ASSUME NEW q \in FleetCallers, requests'[q].pc \in NativeStarting
        PROVE  /\ actors'[requests'[q].self].thread = "none"
               /\ \A r \in FleetCallers \ {q} :
                      requests'[r].pc \in NativeStarting => requests'[r].self # requests'[q].self
    BY SMTT(30), <1>1, <1>2, <1>3, <1>4, <2>2
    DEF NativeThreads, NativeFrames, FleetAt, FleetOf, NativeIdle, NativeStarting
  <2>. QED BY <1>4, <2>1, <2>2 DEF NativeThreads, FleetAt, FleetOf
<1>10. NativeLocks'
  BY SMTT(30), <1>1, <1>2, <1>20, <1>3, <1>4
  DEF NativeLocks, NativeFrames, FleetAt, FleetOf, NativeIdle, NativeLocking
<1>13. NativeTodo'
  BY <1>1, <1>2, <1>20, <1>3, <1>4 DEF NativeTodo, NativeFrames, FleetAt, FleetOf, NativeIdle
<1>11. NativeSecured'
  <2>1. \A b \in 1 .. Len(actors) : actors[b].thread = "running" /\ Secures(p, b)
              => Secures(p, b)'
    BY <1>2, <1>20, <1>3 DEF Secures, ToStop, FleetAt, FleetOf
  <2>2. \A q \in FleetCallers, b \in 1 .. Len(actors) : q # p /\ Secures(q, b) => Secures(q, b)'
    BY <1>3 DEF Secures, ToStop, FleetAt, FleetOf
  <2>. QED BY <1>1, <1>2, <1>20, <1>4, <1>5, <2>1, <2>2 DEF NativeSecured
<1>12. NativeCounted'
  BY <1>1, <1>2, <1>20, <1>3, <1>4, <1>5
  DEF NativeCounted, Secures, ToStop, NativeFrames, FleetAt, FleetOf, NativeIdle
<1>. QED BY <1>6, <1>7, <1>8, <1>9, <1>10, <1>11, <1>12, <1>13 DEF NativeInv

\* A detached actor is parked before the manager lets go of it.
LEMMA NativePark ==
    ASSUME NativeInv, NEW p \in FleetCallers, Cpp!Park(p)
    PROVE  NativeInv'
<1>. DEFINE a == FleetOf(p)
<1>1. /\ NativeTypes /\ FleetMap /\ NativeFrames /\ NativeTodo /\ NativeThreads /\ NativeLocks
      /\ NativeSecured /\ NativeCounted
  BY DEF NativeInv
<1>2. FleetAt(p) = "park" /\ a \in 1 .. Len(actors)
  BY <1>1 DEF Cpp!Park, Cpp!At, NativeFrames, FleetAt, FleetOf, NativeIdle
<1>20. requests[p].count + 1 # 0 BY <1>1, <1>2 DEF NativeTypes, NativeCalls
<1>3. /\ requests' \in [FleetCallers -> NativeCalls]
      /\ \A q \in FleetCallers : q # p => requests'[q] = requests[q]
      /\ requests'[p].pc = (IF requests[p].op = "stop" THEN "stopnext" ELSE "done")
            /\ requests'[p].self = 0 /\ requests'[p].count = requests[p].count + 1
      /\ requests'[p].op = requests[p].op /\ requests'[p].cam = requests[p].cam
      /\ requests'[p].todo = requests[p].todo /\ requests'[p].lent = requests[p].lent
  <2>1. requests \in [FleetCallers -> NativeCalls] BY <1>1 DEF NativeTypes
  <2>2. requests' = [requests EXCEPT ![p].pc = (IF requests[p].op = "stop" THEN "stopnext" ELSE "done"), ![p].self = 0, ![p].count = requests[p].count + 1]
    BY <1>2, <1>20 DEF Cpp!Park, Cpp!Goto, Cpp!Me, Cpp!Returns, Cpp!NoActor, Cpp!Fate, FleetOf
  <2>3. (IF requests[p].op = "stop" THEN "stopnext" ELSE "done") \in NativePcs
    BY IngestAssumption, <1>1, <1>2, <1>20, PopFacts
    DEF NativePcs, NativeIdle, NativeStarting, NativeLocking, FleetOps, NativeTypes, Todos
  <2>. QED BY <1>2, <2>1, <2>2, <2>3 DEF NativeCalls
<1>4. UNCHANGED actors BY DEF Cpp!Park
<1>5. /\ fleet' \in [map : [FleetCameras -> Nat], parked : SUBSET Nat, started : BOOLEAN]
      /\ fleet'.map = fleet.map /\ fleet'.parked = fleet.parked \cup {a}
      /\ fleet'.started = fleet.started
  BY SMTT(30), <1>1, <1>2 DEF Cpp!Park, Cpp!Me, FleetOf, NativeTypes
<1>6. NativeTypes' BY <1>1, <1>3, <1>4, <1>5 DEF NativeTypes
<1>7. FleetMap' BY <1>1, <1>2, <1>20, <1>4, <1>5 DEF FleetMap
<1>8. NativeFrames'
  BY <1>1, <1>2, <1>20, <1>3, <1>4 DEF NativeFrames, FleetAt, FleetOf, NativeIdle
<1>9. NativeThreads'
  BY <1>1, <1>2, <1>20, <1>3, <1>4
  DEF NativeThreads, NativeFrames, FleetAt, FleetOf, NativeIdle, NativeStarting
<1>10. NativeLocks'
  BY <1>1, <1>2, <1>20, <1>3, <1>4
  DEF NativeLocks, NativeFrames, FleetAt, FleetOf, NativeIdle, NativeLocking
<1>13. NativeTodo'
  BY <1>1, <1>2, <1>20, <1>3, <1>4 DEF NativeTodo, NativeFrames, FleetAt, FleetOf, NativeIdle
<1>11. NativeSecured'
  BY SMTT(30), <1>1, <1>2, <1>20, <1>3, <1>4, <1>5
  DEF NativeSecured, Secures, ToStop, NativeFrames, FleetAt, FleetOf, NativeIdle
<1>12. NativeCounted'
  BY <1>1, <1>2, <1>20, <1>3, <1>4, <1>5
  DEF NativeCounted, Secures, ToStop, NativeFrames, FleetAt, FleetOf, NativeIdle
<1>. QED BY <1>6, <1>7, <1>8, <1>9, <1>10, <1>11, <1>12, <1>13 DEF NativeInv

\* remove_camera() drops an actor whose thread is over.
LEMMA NativeLetGo ==
    ASSUME NativeInv, NEW p \in FleetCallers, Cpp!LetGo(p)
    PROVE  NativeInv'
<1>. DEFINE a == FleetOf(p)
<1>1. /\ NativeTypes /\ FleetMap /\ NativeFrames /\ NativeTodo /\ NativeThreads /\ NativeLocks
      /\ NativeSecured /\ NativeCounted
  BY DEF NativeInv
<1>2. FleetAt(p) = "clean" /\ a \in 1 .. Len(actors)
  BY <1>1 DEF Cpp!LetGo, Cpp!At, NativeFrames, FleetAt, FleetOf, NativeIdle
<1>3. /\ requests' \in [FleetCallers -> NativeCalls]
      /\ \A q \in FleetCallers : q # p => requests'[q] = requests[q]
      /\ requests'[p].pc = (IF requests[p].op = "stop" THEN "stopnext" ELSE "done")
            /\ requests'[p].self = 0
      /\ requests'[p].op = requests[p].op /\ requests'[p].cam = requests[p].cam
      /\ requests'[p].todo = requests[p].todo /\ requests'[p].lent = requests[p].lent
      /\ requests'[p].count = requests[p].count
  <2>1. requests \in [FleetCallers -> NativeCalls] BY <1>1 DEF NativeTypes
  <2>2. requests' = [requests EXCEPT ![p].pc = (IF requests[p].op = "stop" THEN "stopnext" ELSE "done"), ![p].self = 0]
    BY <1>2 DEF Cpp!LetGo, Cpp!Goto, Cpp!Me, Cpp!Returns, Cpp!NoActor, Cpp!Fate, FleetOf
  <2>3. (IF requests[p].op = "stop" THEN "stopnext" ELSE "done") \in NativePcs
    BY IngestAssumption, <1>1, <1>2, PopFacts
    DEF NativePcs, NativeIdle, NativeStarting, NativeLocking, FleetOps, NativeTypes, Todos
  <2>. QED BY <1>2, <2>1, <2>2, <2>3 DEF NativeCalls
<1>4. UNCHANGED actors BY DEF Cpp!LetGo
<1>5. UNCHANGED fleet BY DEF Cpp!LetGo
<1>6. NativeTypes' BY <1>1, <1>3, <1>4, <1>5 DEF NativeTypes
<1>7. FleetMap' BY <1>1, <1>2, <1>4, <1>5 DEF FleetMap
<1>8. NativeFrames' BY <1>1, <1>2, <1>3, <1>4 DEF NativeFrames, FleetAt, FleetOf, NativeIdle
<1>9. NativeThreads'
  BY <1>1, <1>2, <1>3, <1>4
  DEF NativeThreads, NativeFrames, FleetAt, FleetOf, NativeIdle, NativeStarting
<1>10. NativeLocks'
  BY <1>1, <1>2, <1>3, <1>4
  DEF NativeLocks, NativeFrames, FleetAt, FleetOf, NativeIdle, NativeLocking
<1>13. NativeTodo'
  BY <1>1, <1>2, <1>3, <1>4 DEF NativeTodo, NativeFrames, FleetAt, FleetOf, NativeIdle
<1>11. NativeSecured'
  BY <1>1, <1>2, <1>3, <1>4, <1>5
  DEF NativeSecured, Secures, ToStop, NativeFrames, FleetAt, FleetOf, NativeIdle
<1>12. NativeCounted'
  BY <1>1, <1>2, <1>3, <1>4, <1>5
  DEF NativeCounted, Secures, ToStop, NativeFrames, FleetAt, FleetOf, NativeIdle
<1>. QED BY <1>6, <1>7, <1>8, <1>9, <1>10, <1>11, <1>12, <1>13 DEF NativeInv

\* add_camera() arrives.
LEMMA NativeCallAdd ==
    ASSUME NativeInv, NEW p \in FleetCallers, NEW cam \in FleetCameras, Cpp!CallAdd(p, cam)
    PROVE  NativeInv'
<1>1. /\ NativeTypes /\ FleetMap /\ NativeFrames /\ NativeTodo /\ NativeThreads /\ NativeLocks
      /\ NativeSecured /\ NativeCounted
  BY DEF NativeInv
<1>2. FleetAt(p) = "idle" /\ FleetOf(p) = 0
  BY <1>1 DEF Cpp!CallAdd, Cpp!At, NativeFrames, FleetAt, FleetOf, NativeIdle
<1>3. /\ requests' \in [FleetCallers -> NativeCalls]
      /\ \A q \in FleetCallers : q # p => requests'[q] = requests[q]
      /\ requests'[p].op = "add" /\ requests'[p].pc = "add" /\ requests'[p].cam = cam
      /\ requests'[p].self = requests[p].self /\ requests'[p].todo = requests[p].todo
      /\ requests'[p].lent = requests[p].lent /\ requests'[p].count = requests[p].count
  <2>1. requests \in [FleetCallers -> NativeCalls] BY <1>1 DEF NativeTypes
  <2>2. requests' = [requests EXCEPT ![p].op = "add", ![p].pc = "add", ![p].cam = cam]
    BY <1>2 DEF Cpp!CallAdd, Cpp!Goto, Cpp!Me, Cpp!Returns, Cpp!NoActor, Cpp!Fate, FleetOf
  <2>3. "add" \in NativePcs /\ "add" \in FleetOps
    BY IngestAssumption, <1>1, <1>2, PopFacts
    DEF NativePcs, NativeIdle, NativeStarting, NativeLocking, FleetOps, NativeTypes, Todos
  <2>. QED BY ZenonT(30), <1>2, <2>1, <2>2, <2>3 DEF NativeCalls
<1>4. UNCHANGED actors BY DEF Cpp!CallAdd
<1>5. UNCHANGED fleet BY DEF Cpp!CallAdd
<1>6. NativeTypes' BY <1>1, <1>3, <1>4, <1>5 DEF NativeTypes
<1>7. FleetMap' BY <1>1, <1>2, <1>4, <1>5 DEF FleetMap
<1>8. NativeFrames' BY <1>1, <1>2, <1>3, <1>4 DEF NativeFrames, FleetAt, FleetOf, NativeIdle
<1>9. NativeThreads'
  BY <1>1, <1>2, <1>3, <1>4
  DEF NativeThreads, NativeFrames, FleetAt, FleetOf, NativeIdle, NativeStarting
<1>10. NativeLocks'
  BY <1>1, <1>2, <1>3, <1>4
  DEF NativeLocks, NativeFrames, FleetAt, FleetOf, NativeIdle, NativeLocking
<1>13. NativeTodo'
  BY <1>1, <1>2, <1>3, <1>4 DEF NativeTodo, NativeFrames, FleetAt, FleetOf, NativeIdle
<1>11. NativeSecured'
  BY <1>1, <1>2, <1>3, <1>4, <1>5
  DEF NativeSecured, Secures, ToStop, NativeFrames, FleetAt, FleetOf, NativeIdle
<1>12. NativeCounted'
  BY <1>1, <1>2, <1>3, <1>4, <1>5
  DEF NativeCounted, Secures, ToStop, NativeFrames, FleetAt, FleetOf, NativeIdle
<1>. QED BY <1>6, <1>7, <1>8, <1>9, <1>10, <1>11, <1>12, <1>13 DEF NativeInv

\* start() of a manager that runs does nothing.
LEMMA NativeCallStartAgain ==
    ASSUME NativeInv, NEW p \in FleetCallers, Cpp!CallStart(p), fleet.started
    PROVE  NativeInv'
<1>1. /\ NativeTypes /\ FleetMap /\ NativeFrames /\ NativeTodo /\ NativeThreads /\ NativeLocks
      /\ NativeSecured /\ NativeCounted
  BY DEF NativeInv
<1>2. FleetAt(p) = "idle" /\ FleetOf(p) = 0
  BY <1>1 DEF Cpp!CallStart, Cpp!At, NativeFrames, FleetAt, FleetOf, NativeIdle
<1>3. /\ requests' \in [FleetCallers -> NativeCalls]
      /\ \A q \in FleetCallers : q # p => requests'[q] = requests[q]
      /\ requests'[p].pc = "done"
      /\ requests'[p].op = requests[p].op /\ requests'[p].cam = requests[p].cam
      /\ requests'[p].self = requests[p].self /\ requests'[p].todo = requests[p].todo
      /\ requests'[p].lent = requests[p].lent /\ requests'[p].count = requests[p].count
  <2>1. requests \in [FleetCallers -> NativeCalls] BY <1>1 DEF NativeTypes
  <2>2. requests' = [requests EXCEPT ![p].pc = "done"]
    BY <1>2 DEF Cpp!CallStart, Cpp!Goto, Cpp!Me, Cpp!Returns, Cpp!NoActor, Cpp!Fate, FleetOf
  <2>3. "done" \in NativePcs
    BY IngestAssumption, <1>1, <1>2, PopFacts
    DEF NativePcs, NativeIdle, NativeStarting, NativeLocking, FleetOps, NativeTypes, Todos
  <2>. QED BY <1>2, <2>1, <2>2, <2>3 DEF NativeCalls
<1>4. UNCHANGED actors BY DEF Cpp!CallStart
<1>5. /\ fleet' \in [map : [FleetCameras -> Nat], parked : SUBSET Nat, started : BOOLEAN]
      /\ fleet'.map = fleet.map /\ fleet'.parked = fleet.parked
  BY <1>1 DEF Cpp!CallStart, NativeTypes
<1>6. NativeTypes' BY <1>1, <1>3, <1>4, <1>5 DEF NativeTypes
<1>7. FleetMap' BY <1>1, <1>2, <1>4, <1>5 DEF FleetMap
<1>8. NativeFrames' BY <1>1, <1>2, <1>3, <1>4 DEF NativeFrames, FleetAt, FleetOf, NativeIdle
<1>9. NativeThreads'
  BY <1>1, <1>2, <1>3, <1>4
  DEF NativeThreads, NativeFrames, FleetAt, FleetOf, NativeIdle, NativeStarting
<1>10. NativeLocks'
  BY <1>1, <1>2, <1>3, <1>4
  DEF NativeLocks, NativeFrames, FleetAt, FleetOf, NativeIdle, NativeLocking
<1>13. NativeTodo'
  BY <1>1, <1>2, <1>3, <1>4 DEF NativeTodo, NativeFrames, FleetAt, FleetOf, NativeIdle
<1>11. NativeSecured'
  BY SMTT(30), <1>1, <1>2, <1>3, <1>4, <1>5
  DEF NativeSecured, Secures, ToStop, NativeFrames, FleetAt, FleetOf, NativeIdle
<1>12. NativeCounted'
  BY <1>1, <1>2, <1>3, <1>4, <1>5
  DEF NativeCounted, Secures, ToStop, NativeFrames, FleetAt, FleetOf, NativeIdle
<1>. QED BY <1>6, <1>7, <1>8, <1>9, <1>10, <1>11, <1>12, <1>13 DEF NativeInv

\* start() marks the manager started.
LEMMA NativeCallStart ==
    ASSUME NativeInv, NEW p \in FleetCallers, Cpp!CallStart(p), ~fleet.started
    PROVE  NativeInv'
<1>1. /\ NativeTypes /\ FleetMap /\ NativeFrames /\ NativeTodo /\ NativeThreads /\ NativeLocks
      /\ NativeSecured /\ NativeCounted
  BY DEF NativeInv
<1>2. FleetAt(p) = "idle" /\ FleetOf(p) = 0
  BY <1>1 DEF Cpp!CallStart, Cpp!At, NativeFrames, FleetAt, FleetOf, NativeIdle
<1>20. requests[p].op = "none" /\ \A i \in DOMAIN FleetConfigured : FleetConfigured[i] \in FleetCameras
  BY IngestAssumption, <1>1, <1>2 DEF NativeFrames, FleetAt
<1>3. /\ requests' \in [FleetCallers -> NativeCalls]
      /\ \A q \in FleetCallers : q # p => requests'[q] = requests[q]
      /\ requests'[p].op = "start" /\ requests'[p].pc = "next"
      /\ requests'[p].todo = FleetConfigured
      /\ requests'[p].cam = requests[p].cam /\ requests'[p].self = requests[p].self
      /\ requests'[p].lent = requests[p].lent /\ requests'[p].count = requests[p].count
  <2>1. requests \in [FleetCallers -> NativeCalls] BY <1>1 DEF NativeTypes
  <2>2. requests' = [requests EXCEPT ![p].op = "start", ![p].pc = "next", ![p].todo = FleetConfigured]
    BY <1>2, <1>20
    DEF Cpp!CallStart, Cpp!Goto, Cpp!Me, Cpp!Returns, Cpp!NoActor, Cpp!Fate, FleetOf
  <2>3. "start" \in FleetOps /\ "next" \in NativePcs /\ FleetConfigured \in Todos
    BY IngestAssumption, <1>1, <1>2, <1>20, PopFacts
    DEF NativePcs, NativeIdle, NativeStarting, NativeLocking, FleetOps, NativeTypes, Todos
  <2>. QED BY ZenonT(30), <1>2, <2>1, <2>2, <2>3 DEF NativeCalls
<1>4. UNCHANGED actors BY DEF Cpp!CallStart
<1>5. /\ fleet' \in [map : [FleetCameras -> Nat], parked : SUBSET Nat, started : BOOLEAN]
      /\ fleet'.map = fleet.map /\ fleet'.parked = fleet.parked
  BY <1>1 DEF Cpp!CallStart, NativeTypes
<1>6. NativeTypes' BY <1>1, <1>3, <1>4, <1>5 DEF NativeTypes
<1>7. FleetMap' BY <1>1, <1>2, <1>20, <1>4, <1>5 DEF FleetMap
<1>8. NativeFrames'
  BY <1>1, <1>2, <1>20, <1>3, <1>4 DEF NativeFrames, FleetAt, FleetOf, NativeIdle
<1>9. NativeThreads'
  BY <1>1, <1>2, <1>20, <1>3, <1>4
  DEF NativeThreads, NativeFrames, FleetAt, FleetOf, NativeIdle, NativeStarting
<1>10. NativeLocks'
  BY <1>1, <1>2, <1>20, <1>3, <1>4
  DEF NativeLocks, NativeFrames, FleetAt, FleetOf, NativeIdle, NativeLocking
<1>13. NativeTodo'
  BY <1>1, <1>2, <1>20, <1>3, <1>4 DEF NativeTodo, NativeFrames, FleetAt, FleetOf, NativeIdle
<1>11. NativeSecured'
  <2>1. \A b \in 1 .. Len(actors) : Secures(p, b) => Secures(p, b)'
    BY <1>2, <1>20, <1>3 DEF Secures, ToStop, FleetAt, FleetOf
  <2>2. \A q \in FleetCallers, b \in 1 .. Len(actors) : q # p /\ Secures(q, b) => Secures(q, b)'
    BY <1>3 DEF Secures, ToStop, FleetAt, FleetOf
  <2>. QED BY <1>1, <1>2, <1>20, <1>4, <1>5, <2>1, <2>2 DEF NativeSecured
<1>12. NativeCounted'
  BY <1>1, <1>2, <1>20, <1>3, <1>4, <1>5
  DEF NativeCounted, Secures, ToStop, NativeFrames, FleetAt, FleetOf, NativeIdle
<1>. QED BY <1>6, <1>7, <1>8, <1>9, <1>10, <1>11, <1>12, <1>13 DEF NativeInv

\* start() has added its last camera.
LEMMA NativeStartEnds ==
    ASSUME NativeInv, NEW p \in FleetCallers, Cpp!StartNext(p), requests[p].todo = <<>>
    PROVE  NativeInv'
<1>1. /\ NativeTypes /\ FleetMap /\ NativeFrames /\ NativeTodo /\ NativeThreads /\ NativeLocks
      /\ NativeSecured /\ NativeCounted
  BY DEF NativeInv
<1>2. FleetAt(p) = "next" /\ FleetOf(p) = 0
  BY <1>1 DEF Cpp!StartNext, Cpp!At, NativeFrames, FleetAt, FleetOf, NativeIdle
<1>3. /\ requests' \in [FleetCallers -> NativeCalls]
      /\ \A q \in FleetCallers : q # p => requests'[q] = requests[q]
      /\ requests'[p].pc = "done"
      /\ requests'[p].op = requests[p].op /\ requests'[p].cam = requests[p].cam
      /\ requests'[p].self = requests[p].self /\ requests'[p].todo = requests[p].todo
      /\ requests'[p].lent = requests[p].lent /\ requests'[p].count = requests[p].count
  <2>1. requests \in [FleetCallers -> NativeCalls] BY <1>1 DEF NativeTypes
  <2>2. requests' = [requests EXCEPT ![p].pc = "done"]
    BY <1>2 DEF Cpp!StartNext, Cpp!Goto, Cpp!Me, Cpp!Returns, Cpp!NoActor, Cpp!Fate, FleetOf
  <2>3. "done" \in NativePcs
    BY IngestAssumption, <1>1, <1>2, PopFacts
    DEF NativePcs, NativeIdle, NativeStarting, NativeLocking, FleetOps, NativeTypes, Todos
  <2>. QED BY <1>2, <2>1, <2>2, <2>3 DEF NativeCalls
<1>4. UNCHANGED actors BY DEF Cpp!StartNext
<1>5. UNCHANGED fleet BY DEF Cpp!StartNext
<1>6. NativeTypes' BY <1>1, <1>3, <1>4, <1>5 DEF NativeTypes
<1>7. FleetMap' BY <1>1, <1>2, <1>4, <1>5 DEF FleetMap
<1>8. NativeFrames' BY <1>1, <1>2, <1>3, <1>4 DEF NativeFrames, FleetAt, FleetOf, NativeIdle
<1>9. NativeThreads'
  BY <1>1, <1>2, <1>3, <1>4
  DEF NativeThreads, NativeFrames, FleetAt, FleetOf, NativeIdle, NativeStarting
<1>10. NativeLocks'
  BY <1>1, <1>2, <1>3, <1>4
  DEF NativeLocks, NativeFrames, FleetAt, FleetOf, NativeIdle, NativeLocking
<1>13. NativeTodo'
  BY <1>1, <1>2, <1>3, <1>4 DEF NativeTodo, NativeFrames, FleetAt, FleetOf, NativeIdle
<1>11. NativeSecured'
  BY <1>1, <1>2, <1>3, <1>4, <1>5
  DEF NativeSecured, Secures, ToStop, NativeFrames, FleetAt, FleetOf, NativeIdle
<1>12. NativeCounted'
  BY <1>1, <1>2, <1>3, <1>4, <1>5
  DEF NativeCounted, Secures, ToStop, NativeFrames, FleetAt, FleetOf, NativeIdle
<1>. QED BY <1>6, <1>7, <1>8, <1>9, <1>10, <1>11, <1>12, <1>13 DEF NativeInv

\* start() adds its next camera.
LEMMA NativeStartNext ==
    ASSUME NativeInv, NEW p \in FleetCallers, Cpp!StartNext(p), requests[p].todo # <<>>
    PROVE  NativeInv'
<1>1. /\ NativeTypes /\ FleetMap /\ NativeFrames /\ NativeTodo /\ NativeThreads /\ NativeLocks
      /\ NativeSecured /\ NativeCounted
  BY DEF NativeInv
<1>2. FleetAt(p) = "next" /\ FleetOf(p) = 0
  BY <1>1 DEF Cpp!StartNext, Cpp!At, NativeFrames, FleetAt, FleetOf, NativeIdle
<1>20. /\ requests[p].op = "start" /\ requests[p].todo # <<>>
       /\ Head(requests[p].todo) \in FleetCameras /\ Tail(requests[p].todo) \in Todos
       /\ \A j \in DOMAIN Tail(requests[p].todo) : Tail(requests[p].todo)[j] \in FleetCameras
  <2>1. requests[p].todo \in Seq(FleetCameras \cup Nat) /\ requests[p].op = "start"
              /\ requests[p].todo # <<>>
    BY <1>1, <1>2 DEF Cpp!StartNext, NativeTypes, NativeCalls, NativeFrames, FleetAt, Todos
  <2>. DEFINE s == requests[p].todo
  <2>2. /\ 1 \in DOMAIN s /\ Head(s) = s[1] /\ Head(s) \in FleetCameras \cup Nat
        /\ Tail(s) \in Seq(FleetCameras \cup Nat)
        /\ \A j \in DOMAIN Tail(s) : j + 1 \in DOMAIN s /\ Tail(s)[j] = s[j + 1]
        /\ \A i \in DOMAIN s : i # 1 => i - 1 \in DOMAIN Tail(s) /\ Tail(s)[i - 1] = s[i]
    BY <2>1, PopFacts
  <2>3. \A i \in DOMAIN s : s[i] \in FleetCameras
    BY <1>1, <2>1 DEF NativeTodo
  <2>. HIDE DEF s
  <2>. QED BY <1>1, <2>1, <2>2, <2>3 DEF Todos, s
<1>3. /\ requests' \in [FleetCallers -> NativeCalls]
      /\ \A q \in FleetCallers : q # p => requests'[q] = requests[q]
      /\ requests'[p].pc = "add" /\ requests'[p].cam = Head(requests[p].todo)
      /\ requests'[p].todo = Tail(requests[p].todo)
      /\ requests'[p].op = requests[p].op /\ requests'[p].self = requests[p].self
      /\ requests'[p].lent = requests[p].lent /\ requests'[p].count = requests[p].count
  <2>1. requests \in [FleetCallers -> NativeCalls] BY <1>1 DEF NativeTypes
  <2>2. requests' = [requests EXCEPT ![p].pc = "add", ![p].cam = Head(requests[p].todo), ![p].todo = Tail(requests[p].todo)]
    BY <1>2, <1>20
    DEF Cpp!StartNext, Cpp!Goto, Cpp!Me, Cpp!Returns, Cpp!NoActor, Cpp!Fate, FleetOf
  <2>3. "add" \in NativePcs /\ Tail(requests[p].todo) \in Todos
    BY IngestAssumption, <1>1, <1>2, <1>20, PopFacts
    DEF NativePcs, NativeIdle, NativeStarting, NativeLocking, FleetOps, NativeTypes, Todos
  <2>. QED BY SMTT(30), <1>2, <2>1, <2>2, <2>3 DEF NativeCalls
<1>4. UNCHANGED actors BY DEF Cpp!StartNext
<1>5. UNCHANGED fleet BY DEF Cpp!StartNext
<1>6. NativeTypes' BY <1>1, <1>3, <1>4, <1>5 DEF NativeTypes
<1>7. FleetMap' BY <1>1, <1>2, <1>20, <1>4, <1>5 DEF FleetMap
<1>8. NativeFrames'
  BY <1>1, <1>2, <1>20, <1>3, <1>4 DEF NativeFrames, FleetAt, FleetOf, NativeIdle
<1>9. NativeThreads'
  BY <1>1, <1>2, <1>20, <1>3, <1>4
  DEF NativeThreads, NativeFrames, FleetAt, FleetOf, NativeIdle, NativeStarting
<1>10. NativeLocks'
  BY <1>1, <1>2, <1>20, <1>3, <1>4
  DEF NativeLocks, NativeFrames, FleetAt, FleetOf, NativeIdle, NativeLocking
<1>13. NativeTodo'
  BY ZenonT(30), <1>1, <1>2, <1>20, <1>3, <1>4
  DEF NativeTodo, NativeFrames, FleetAt, FleetOf, NativeIdle
<1>11. NativeSecured'
  BY <1>1, <1>2, <1>20, <1>3, <1>4, <1>5
  DEF NativeSecured, Secures, ToStop, NativeFrames, FleetAt, FleetOf, NativeIdle
<1>12. NativeCounted'
  BY <1>1, <1>2, <1>20, <1>3, <1>4, <1>5
  DEF NativeCounted, Secures, ToStop, NativeFrames, FleetAt, FleetOf, NativeIdle
<1>. QED BY <1>6, <1>7, <1>8, <1>9, <1>10, <1>11, <1>12, <1>13 DEF NativeInv

\* add_camera() finds the manager stopped, or the name taken.
LEMMA NativeAddRefused ==
    ASSUME NativeInv, NEW p \in FleetCallers, Cpp!AddRefused(p)
    PROVE  NativeInv'
<1>1. /\ NativeTypes /\ FleetMap /\ NativeFrames /\ NativeTodo /\ NativeThreads /\ NativeLocks
      /\ NativeSecured /\ NativeCounted
  BY DEF NativeInv
<1>2. FleetAt(p) = "add" /\ FleetOf(p) = 0
  BY <1>1 DEF Cpp!AddRefused, Cpp!At, NativeFrames, FleetAt, FleetOf, NativeIdle
<1>3. /\ requests' \in [FleetCallers -> NativeCalls]
      /\ \A q \in FleetCallers : q # p => requests'[q] = requests[q]
      /\ requests'[p].pc = "done" /\ requests'[p].self = 0 /\ requests'[p].todo = <<>>
      /\ requests'[p].op = requests[p].op /\ requests'[p].cam = requests[p].cam
      /\ requests'[p].lent = requests[p].lent /\ requests'[p].count = requests[p].count
  <2>1. requests \in [FleetCallers -> NativeCalls] BY <1>1 DEF NativeTypes
  <2>2. requests' = [requests EXCEPT ![p].pc = "done", ![p].self = 0, ![p].todo = <<>>]
    BY <1>2 DEF Cpp!AddRefused, Cpp!Goto, Cpp!Me, Cpp!Returns, Cpp!NoActor, Cpp!Fate, FleetOf
  <2>3. "done" \in NativePcs /\ <<>> \in Todos
    BY IngestAssumption, <1>1, <1>2, PopFacts
    DEF NativePcs, NativeIdle, NativeStarting, NativeLocking, FleetOps, NativeTypes, Todos
  <2>. QED BY ZenonT(30), <1>2, <2>1, <2>2, <2>3 DEF NativeCalls
<1>4. UNCHANGED actors BY DEF Cpp!AddRefused
<1>5. UNCHANGED fleet BY DEF Cpp!AddRefused
<1>6. NativeTypes' BY <1>1, <1>3, <1>4, <1>5 DEF NativeTypes
<1>7. FleetMap' BY <1>1, <1>2, <1>4, <1>5 DEF FleetMap
<1>8. NativeFrames' BY <1>1, <1>2, <1>3, <1>4 DEF NativeFrames, FleetAt, FleetOf, NativeIdle
<1>9. NativeThreads'
  BY <1>1, <1>2, <1>3, <1>4
  DEF NativeThreads, NativeFrames, FleetAt, FleetOf, NativeIdle, NativeStarting
<1>10. NativeLocks'
  BY <1>1, <1>2, <1>3, <1>4
  DEF NativeLocks, NativeFrames, FleetAt, FleetOf, NativeIdle, NativeLocking
<1>13. NativeTodo'
  BY <1>1, <1>2, <1>3, <1>4 DEF NativeTodo, NativeFrames, FleetAt, FleetOf, NativeIdle
<1>11. NativeSecured'
  BY <1>1, <1>2, <1>3, <1>4, <1>5
  DEF NativeSecured, Secures, ToStop, NativeFrames, FleetAt, FleetOf, NativeIdle
<1>12. NativeCounted'
  BY <1>1, <1>2, <1>3, <1>4, <1>5
  DEF NativeCounted, Secures, ToStop, NativeFrames, FleetAt, FleetOf, NativeIdle
<1>. QED BY <1>6, <1>7, <1>8, <1>9, <1>10, <1>11, <1>12, <1>13 DEF NativeInv

\* stop() has seen to its last actor.
LEMMA NativeStopEnds ==
    ASSUME NativeInv, NEW p \in FleetCallers, Cpp!StopEnds(p)
    PROVE  NativeInv'
<1>1. /\ NativeTypes /\ FleetMap /\ NativeFrames /\ NativeTodo /\ NativeThreads /\ NativeLocks
      /\ NativeSecured /\ NativeCounted
  BY DEF NativeInv
<1>2. FleetAt(p) = "stopnext" /\ FleetOf(p) = 0
  BY <1>1 DEF Cpp!StopEnds, Cpp!At, NativeFrames, FleetAt, FleetOf, NativeIdle
<1>20. requests[p].todo = <<>>
  BY <1>1, <1>2
  DEF Cpp!StopEnds, Cpp!Me, Cpp!NoActor, NativeFrames, FleetAt, FleetOf, NativeIdle,
      NativeThreads, NativeStarting, NativeLocks, NativeLocking
<1>3. /\ requests' \in [FleetCallers -> NativeCalls]
      /\ \A q \in FleetCallers : q # p => requests'[q] = requests[q]
      /\ requests'[p].pc = "done" /\ requests'[p].self = 0 /\ requests'[p].todo = <<>>
      /\ requests'[p].op = requests[p].op /\ requests'[p].cam = requests[p].cam
      /\ requests'[p].lent = requests[p].lent /\ requests'[p].count = requests[p].count
  <2>1. requests \in [FleetCallers -> NativeCalls] BY <1>1 DEF NativeTypes
  <2>2. requests' = [requests EXCEPT ![p].pc = "done", ![p].self = 0, ![p].todo = <<>>]
    BY <1>2, <1>20
    DEF Cpp!StopEnds, Cpp!Goto, Cpp!Me, Cpp!Returns, Cpp!NoActor, Cpp!Fate, FleetOf
  <2>3. "done" \in NativePcs /\ <<>> \in Todos
    BY IngestAssumption, <1>1, <1>2, <1>20, PopFacts
    DEF NativePcs, NativeIdle, NativeStarting, NativeLocking, FleetOps, NativeTypes, Todos
  <2>. QED BY ZenonT(30), <1>2, <2>1, <2>2, <2>3 DEF NativeCalls
<1>4. UNCHANGED actors BY DEF Cpp!StopEnds
<1>5. /\ fleet' \in [map : [FleetCameras -> Nat], parked : SUBSET Nat, started : BOOLEAN]
      /\ fleet'.map = fleet.map /\ fleet'.parked = fleet.parked
  BY <1>1 DEF Cpp!StopEnds, NativeTypes
<1>6. NativeTypes' BY <1>1, <1>3, <1>4, <1>5 DEF NativeTypes
<1>7. FleetMap' BY <1>1, <1>2, <1>20, <1>4, <1>5 DEF FleetMap
<1>8. NativeFrames'
  BY <1>1, <1>2, <1>20, <1>3, <1>4 DEF NativeFrames, FleetAt, FleetOf, NativeIdle
<1>9. NativeThreads'
  BY <1>1, <1>2, <1>20, <1>3, <1>4
  DEF NativeThreads, NativeFrames, FleetAt, FleetOf, NativeIdle, NativeStarting
<1>10. NativeLocks'
  BY <1>1, <1>2, <1>20, <1>3, <1>4
  DEF NativeLocks, NativeFrames, FleetAt, FleetOf, NativeIdle, NativeLocking
<1>13. NativeTodo'
  BY <1>1, <1>2, <1>20, <1>3, <1>4 DEF NativeTodo, NativeFrames, FleetAt, FleetOf, NativeIdle
<1>11. NativeSecured'
  BY <1>1, <1>2, <1>20, <1>3, <1>4, <1>5
  DEF NativeSecured, Secures, ToStop, NativeFrames, FleetAt, FleetOf, NativeIdle
<1>12. NativeCounted'
  BY <1>1, <1>2, <1>20, <1>3, <1>4, <1>5
  DEF NativeCounted, Secures, ToStop, NativeFrames, FleetAt, FleetOf, NativeIdle
<1>. QED BY <1>6, <1>7, <1>8, <1>9, <1>10, <1>11, <1>12, <1>13 DEF NativeInv

\* stop() takes the next of the actors it took out.
LEMMA NativeStopNext ==
    ASSUME NativeInv, NEW p \in FleetCallers, Cpp!StopNext(p)
    PROVE  NativeInv'
<1>1. /\ NativeTypes /\ FleetMap /\ NativeFrames /\ NativeTodo /\ NativeThreads /\ NativeLocks
      /\ NativeSecured /\ NativeCounted
  BY DEF NativeInv
<1>2. FleetAt(p) = "stopnext" /\ FleetOf(p) = 0
  BY <1>1 DEF Cpp!StopNext, Cpp!At, NativeFrames, FleetAt, FleetOf, NativeIdle
<1>20. /\ requests[p].op = "stop" /\ requests[p].todo # <<>>
       /\ Head(requests[p].todo) \in 1 .. Len(actors)
       /\ Tail(requests[p].todo) \in Todos
       /\ \A j \in DOMAIN Tail(requests[p].todo) : Tail(requests[p].todo)[j] \in 1 .. Len(actors)
       /\ \A i \in DOMAIN requests[p].todo :
             \/ requests[p].todo[i] = Head(requests[p].todo)
             \/ \E j \in DOMAIN Tail(requests[p].todo) :
                   Tail(requests[p].todo)[j] = requests[p].todo[i]
  <2>1. requests[p].todo \in Seq(FleetCameras \cup Nat) /\ requests[p].op = "stop"
              /\ requests[p].todo # <<>>
    BY <1>1, <1>2 DEF Cpp!StopNext, NativeTypes, NativeCalls, NativeFrames, FleetAt, Todos
  <2>. DEFINE s == requests[p].todo
  <2>2. /\ 1 \in DOMAIN s /\ Head(s) = s[1] /\ Head(s) \in FleetCameras \cup Nat
        /\ Tail(s) \in Seq(FleetCameras \cup Nat)
        /\ \A j \in DOMAIN Tail(s) : j + 1 \in DOMAIN s /\ Tail(s)[j] = s[j + 1]
        /\ \A i \in DOMAIN s : i # 1 => i - 1 \in DOMAIN Tail(s) /\ Tail(s)[i - 1] = s[i]
    BY <2>1, PopFacts
  <2>3. \A i \in DOMAIN s : s[i] \in 1 .. Len(actors)
    BY <1>1, <2>1 DEF NativeTodo
  <2>. HIDE DEF s
  <2>. QED BY <1>1, <2>1, <2>2, <2>3 DEF Todos, s
<1>3. /\ requests' \in [FleetCallers -> NativeCalls]
      /\ \A q \in FleetCallers : q # p => requests'[q] = requests[q]
      /\ requests'[p].pc = "ask" /\ requests'[p].self = Head(requests[p].todo)
      /\ requests'[p].todo = Tail(requests[p].todo)
      /\ requests'[p].op = requests[p].op /\ requests'[p].cam = requests[p].cam
      /\ requests'[p].lent = requests[p].lent /\ requests'[p].count = requests[p].count
  <2>1. requests \in [FleetCallers -> NativeCalls] BY <1>1 DEF NativeTypes
  <2>2. requests' = [requests EXCEPT ![p].pc = "ask", ![p].self = Head(requests[p].todo), ![p].todo = Tail(requests[p].todo)]
    BY <1>2, <1>20
    DEF Cpp!StopNext, Cpp!Goto, Cpp!Me, Cpp!Returns, Cpp!NoActor, Cpp!Fate, FleetOf
  <2>3. "ask" \in NativePcs /\ Head(requests[p].todo) \in Nat /\ Tail(requests[p].todo) \in Todos
    BY IngestAssumption, <1>1, <1>2, <1>20, PopFacts
    DEF NativePcs, NativeIdle, NativeStarting, NativeLocking, FleetOps, NativeTypes, Todos
  <2>. QED BY ZenonT(30), <1>2, <2>1, <2>2, <2>3 DEF NativeCalls
<1>4. UNCHANGED actors BY DEF Cpp!StopNext
<1>5. UNCHANGED fleet BY DEF Cpp!StopNext
<1>6. NativeTypes' BY <1>1, <1>3, <1>4, <1>5 DEF NativeTypes
<1>7. FleetMap' BY <1>1, <1>2, <1>20, <1>4, <1>5 DEF FleetMap
<1>8. NativeFrames'
  BY <1>1, <1>2, <1>20, <1>3, <1>4 DEF NativeFrames, FleetAt, FleetOf, NativeIdle
<1>9. NativeThreads'
  BY <1>1, <1>2, <1>20, <1>3, <1>4
  DEF NativeThreads, NativeFrames, FleetAt, FleetOf, NativeIdle, NativeStarting
<1>10. NativeLocks'
  BY <1>1, <1>2, <1>20, <1>3, <1>4
  DEF NativeLocks, NativeFrames, FleetAt, FleetOf, NativeIdle, NativeLocking
<1>13. NativeTodo' BY <1>1, <1>20, <1>3, <1>4 DEF NativeTodo, FleetAt
<1>11. NativeSecured'
  <2>1. \A b \in 1 .. Len(actors) : Secures(p, b) => Secures(p, b)'
    BY <1>2, <1>20, <1>3 DEF Secures, ToStop, FleetAt, FleetOf
  <2>2. \A q \in FleetCallers, b \in 1 .. Len(actors) : q # p /\ Secures(q, b) => Secures(q, b)'
    BY <1>3 DEF Secures, ToStop, FleetAt, FleetOf
  <2>. QED BY <1>1, <1>2, <1>20, <1>4, <1>5, <2>1, <2>2 DEF NativeSecured
<1>12. NativeCounted'
  <2>1. \A b \in 1 .. Len(actors) : Secures(p, b) => Secures(p, b)'
    BY <1>2, <1>20, <1>3 DEF Secures, ToStop, FleetAt, FleetOf
  <2>2. \A q \in FleetCallers, b \in 1 .. Len(actors) : q # p /\ Secures(q, b) => Secures(q, b)'
    BY <1>3 DEF Secures, ToStop, FleetAt, FleetOf
  <2>. QED BY <1>1, <1>2, <1>20, <1>3, <1>4, <1>5, <2>1, <2>2 DEF NativeCounted
<1>. QED BY <1>6, <1>7, <1>8, <1>9, <1>10, <1>11, <1>12, <1>13 DEF NativeInv

\* The camera is still the one that was added.
LEMMA NativeRecheckKept ==
    ASSUME NativeInv, NEW p \in FleetCallers, Cpp!Recheck(p),
           fleet.map[requests[p].cam] = FleetOf(p)
    PROVE  NativeInv'
<1>. DEFINE a == FleetOf(p)
<1>1. /\ NativeTypes /\ FleetMap /\ NativeFrames /\ NativeTodo /\ NativeThreads /\ NativeLocks
      /\ NativeSecured /\ NativeCounted
  BY DEF NativeInv
<1>2. FleetAt(p) = "recheck" /\ a \in 1 .. Len(actors)
  BY <1>1 DEF Cpp!Recheck, Cpp!At, NativeFrames, FleetAt, FleetOf, NativeIdle
<1>3. /\ requests' \in [FleetCallers -> NativeCalls]
      /\ \A q \in FleetCallers : q # p => requests'[q] = requests[q]
      /\ requests'[p].pc = (IF requests[p].op = "start" THEN "next" ELSE "done")
            /\ requests'[p].self = 0
      /\ requests'[p].op = requests[p].op /\ requests'[p].cam = requests[p].cam
      /\ requests'[p].todo = requests[p].todo /\ requests'[p].lent = requests[p].lent
      /\ requests'[p].count = requests[p].count
  <2>1. requests \in [FleetCallers -> NativeCalls] BY <1>1 DEF NativeTypes
  <2>2. requests' = [requests EXCEPT ![p].pc = (IF requests[p].op = "start" THEN "next" ELSE "done"), ![p].self = 0]
    BY <1>2 DEF Cpp!Recheck, Cpp!Goto, Cpp!Me, Cpp!Returns, Cpp!NoActor, Cpp!Fate, FleetOf
  <2>3. (IF requests[p].op = "start" THEN "next" ELSE "done") \in NativePcs
    BY IngestAssumption, <1>1, <1>2, PopFacts
    DEF NativePcs, NativeIdle, NativeStarting, NativeLocking, FleetOps, NativeTypes, Todos
  <2>. QED BY <1>2, <2>1, <2>2, <2>3 DEF NativeCalls
<1>4. UNCHANGED actors BY DEF Cpp!Recheck
<1>5. UNCHANGED fleet BY DEF Cpp!Recheck
<1>6. NativeTypes' BY <1>1, <1>3, <1>4, <1>5 DEF NativeTypes
<1>7. FleetMap' BY <1>1, <1>2, <1>4, <1>5 DEF FleetMap
<1>8. NativeFrames' BY <1>1, <1>2, <1>3, <1>4 DEF NativeFrames, FleetAt, FleetOf, NativeIdle
<1>9. NativeThreads'
  BY <1>1, <1>2, <1>3, <1>4
  DEF NativeThreads, NativeFrames, FleetAt, FleetOf, NativeIdle, NativeStarting
<1>10. NativeLocks'
  BY <1>1, <1>2, <1>3, <1>4
  DEF NativeLocks, NativeFrames, FleetAt, FleetOf, NativeIdle, NativeLocking
<1>13. NativeTodo'
  BY <1>1, <1>2, <1>3, <1>4 DEF NativeTodo, NativeFrames, FleetAt, FleetOf, NativeIdle
<1>11. NativeSecured'
  BY <1>1, <1>2, <1>3, <1>4, <1>5
  DEF NativeSecured, Secures, ToStop, NativeFrames, FleetAt, FleetOf, NativeIdle
<1>12. NativeCounted'
  BY <1>1, <1>2, <1>3, <1>4, <1>5
  DEF NativeCounted, Secures, ToStop, NativeFrames, FleetAt, FleetOf, NativeIdle
<1>. QED BY <1>6, <1>7, <1>8, <1>9, <1>10, <1>11, <1>12, <1>13 DEF NativeInv

\* The camera was removed while it started: the caller stops it.
LEMMA NativeRecheckLost ==
    ASSUME NativeInv, NEW p \in FleetCallers, Cpp!Recheck(p),
           fleet.map[requests[p].cam] # FleetOf(p)
    PROVE  NativeInv'
<1>. DEFINE a == FleetOf(p)
<1>1. /\ NativeTypes /\ FleetMap /\ NativeFrames /\ NativeTodo /\ NativeThreads /\ NativeLocks
      /\ NativeSecured /\ NativeCounted
  BY DEF NativeInv
<1>2. FleetAt(p) = "recheck" /\ a \in 1 .. Len(actors)
  BY <1>1 DEF Cpp!Recheck, Cpp!At, NativeFrames, FleetAt, FleetOf, NativeIdle
<1>3. /\ requests' \in [FleetCallers -> NativeCalls]
      /\ \A q \in FleetCallers : q # p => requests'[q] = requests[q]
      /\ requests'[p].pc = "ask" /\ requests'[p].todo = <<>>
      /\ requests'[p].op = requests[p].op /\ requests'[p].cam = requests[p].cam
      /\ requests'[p].self = requests[p].self /\ requests'[p].lent = requests[p].lent
      /\ requests'[p].count = requests[p].count
  <2>1. requests \in [FleetCallers -> NativeCalls] BY <1>1 DEF NativeTypes
  <2>2. requests' = [requests EXCEPT ![p].pc = "ask", ![p].todo = <<>>]
    BY <1>2 DEF Cpp!Recheck, Cpp!Goto, Cpp!Me, Cpp!Returns, Cpp!NoActor, Cpp!Fate, FleetOf
  <2>3. "ask" \in NativePcs /\ <<>> \in Todos
    BY IngestAssumption, <1>1, <1>2, PopFacts
    DEF NativePcs, NativeIdle, NativeStarting, NativeLocking, FleetOps, NativeTypes, Todos
  <2>. QED BY <1>2, <2>1, <2>2, <2>3 DEF NativeCalls
<1>4. UNCHANGED actors BY DEF Cpp!Recheck
<1>5. UNCHANGED fleet BY DEF Cpp!Recheck
<1>6. NativeTypes' BY <1>1, <1>3, <1>4, <1>5 DEF NativeTypes
<1>7. FleetMap' BY <1>1, <1>2, <1>4, <1>5 DEF FleetMap
<1>8. NativeFrames' BY <1>1, <1>2, <1>3, <1>4 DEF NativeFrames, FleetAt, FleetOf, NativeIdle
<1>9. NativeThreads'
  BY <1>1, <1>2, <1>3, <1>4
  DEF NativeThreads, NativeFrames, FleetAt, FleetOf, NativeIdle, NativeStarting
<1>10. NativeLocks'
  BY <1>1, <1>2, <1>3, <1>4
  DEF NativeLocks, NativeFrames, FleetAt, FleetOf, NativeIdle, NativeLocking
<1>13. NativeTodo'
  BY <1>1, <1>2, <1>3, <1>4 DEF NativeTodo, NativeFrames, FleetAt, FleetOf, NativeIdle
<1>11. NativeSecured'
  BY <1>1, <1>2, <1>3, <1>4, <1>5
  DEF NativeSecured, Secures, ToStop, NativeFrames, FleetAt, FleetOf, NativeIdle
<1>12. NativeCounted'
  BY <1>1, <1>2, <1>3, <1>4, <1>5
  DEF NativeCounted, Secures, ToStop, NativeFrames, FleetAt, FleetOf, NativeIdle
<1>. QED BY <1>6, <1>7, <1>8, <1>9, <1>10, <1>11, <1>12, <1>13 DEF NativeInv

\* remove_camera() of a name the manager does not have.
LEMMA NativeCallRemoveNone ==
    ASSUME NativeInv, NEW p \in FleetCallers, NEW cam \in FleetCameras, Cpp!CallRemove(p, cam),
           fleet.map[cam] = 0
    PROVE  NativeInv'
<1>1. /\ NativeTypes /\ FleetMap /\ NativeFrames /\ NativeTodo /\ NativeThreads /\ NativeLocks
      /\ NativeSecured /\ NativeCounted
  BY DEF NativeInv
<1>2. FleetAt(p) = "idle" /\ FleetOf(p) = 0
  BY <1>1 DEF Cpp!CallRemove, Cpp!At, NativeFrames, FleetAt, FleetOf, NativeIdle
<1>3. /\ requests' \in [FleetCallers -> NativeCalls]
      /\ \A q \in FleetCallers : q # p => requests'[q] = requests[q]
      /\ requests'[p].pc = "done"
      /\ requests'[p].op = requests[p].op /\ requests'[p].cam = requests[p].cam
      /\ requests'[p].self = requests[p].self /\ requests'[p].todo = requests[p].todo
      /\ requests'[p].lent = requests[p].lent /\ requests'[p].count = requests[p].count
  <2>1. requests \in [FleetCallers -> NativeCalls] BY <1>1 DEF NativeTypes
  <2>2. requests' = [requests EXCEPT ![p].pc = "done"]
    BY <1>2 DEF Cpp!CallRemove, Cpp!Goto, Cpp!Me, Cpp!Returns, Cpp!NoActor, Cpp!Fate, FleetOf
  <2>3. "done" \in NativePcs
    BY IngestAssumption, <1>1, <1>2, PopFacts
    DEF NativePcs, NativeIdle, NativeStarting, NativeLocking, FleetOps, NativeTypes, Todos
  <2>. QED BY <1>2, <2>1, <2>2, <2>3 DEF NativeCalls
<1>4. UNCHANGED actors BY DEF Cpp!CallRemove
<1>5. /\ fleet' \in [map : [FleetCameras -> Nat], parked : SUBSET Nat, started : BOOLEAN]
      /\ fleet'.map = fleet.map /\ fleet'.parked = fleet.parked
  BY <1>1 DEF Cpp!CallRemove, Cpp!NoActor, NativeTypes
<1>6. NativeTypes' BY <1>1, <1>3, <1>4, <1>5 DEF NativeTypes
<1>7. FleetMap' BY <1>1, <1>2, <1>4, <1>5 DEF FleetMap
<1>8. NativeFrames' BY <1>1, <1>2, <1>3, <1>4 DEF NativeFrames, FleetAt, FleetOf, NativeIdle
<1>9. NativeThreads'
  BY <1>1, <1>2, <1>3, <1>4
  DEF NativeThreads, NativeFrames, FleetAt, FleetOf, NativeIdle, NativeStarting
<1>10. NativeLocks'
  BY <1>1, <1>2, <1>3, <1>4
  DEF NativeLocks, NativeFrames, FleetAt, FleetOf, NativeIdle, NativeLocking
<1>13. NativeTodo'
  BY <1>1, <1>2, <1>3, <1>4 DEF NativeTodo, NativeFrames, FleetAt, FleetOf, NativeIdle
<1>11. NativeSecured'
  BY <1>1, <1>2, <1>3, <1>4, <1>5
  DEF NativeSecured, Secures, ToStop, NativeFrames, FleetAt, FleetOf, NativeIdle
<1>12. NativeCounted'
  BY SMTT(30), <1>1, <1>2, <1>3, <1>4, <1>5
  DEF NativeCounted, Secures, ToStop, NativeFrames, FleetAt, FleetOf, NativeIdle
<1>. QED BY <1>6, <1>7, <1>8, <1>9, <1>10, <1>11, <1>12, <1>13 DEF NativeInv

\* remove_camera() takes the actor out of the map.
LEMMA NativeCallRemove ==
    ASSUME NativeInv, NEW p \in FleetCallers, NEW cam \in FleetCameras, Cpp!CallRemove(p, cam),
           fleet.map[cam] # 0
    PROVE  NativeInv'
<1>1. /\ NativeTypes /\ FleetMap /\ NativeFrames /\ NativeTodo /\ NativeThreads /\ NativeLocks
      /\ NativeSecured /\ NativeCounted
  BY DEF NativeInv
<1>2. FleetAt(p) = "idle" /\ FleetOf(p) = 0
  BY <1>1 DEF Cpp!CallRemove, Cpp!At, NativeFrames, FleetAt, FleetOf, NativeIdle
<1>20. /\ requests[p].op = "none" /\ fleet.map[cam] \in 1 .. Len(actors)
       /\ actors[fleet.map[cam]].cam = cam
  BY <1>1, <1>2 DEF FleetMap, NativeFrames, FleetAt
<1>3. /\ requests' \in [FleetCallers -> NativeCalls]
      /\ \A q \in FleetCallers : q # p => requests'[q] = requests[q]
      /\ requests'[p].op = "remove" /\ requests'[p].pc = "ask" /\ requests'[p].cam = cam
      /\ requests'[p].self = fleet.map[cam]
      /\ requests'[p].todo = requests[p].todo /\ requests'[p].lent = requests[p].lent
      /\ requests'[p].count = requests[p].count
  <2>1. requests \in [FleetCallers -> NativeCalls] BY <1>1 DEF NativeTypes
  <2>2. requests' = [requests EXCEPT ![p].op = "remove", ![p].pc = "ask", ![p].cam = cam, ![p].self = fleet.map[cam]]
    BY <1>2, <1>20
    DEF Cpp!CallRemove, Cpp!Goto, Cpp!Me, Cpp!Returns, Cpp!NoActor, Cpp!Fate, FleetOf
  <2>3. "ask" \in NativePcs /\ "remove" \in FleetOps /\ fleet.map[cam] \in Nat
    BY IngestAssumption, <1>1, <1>2, <1>20, PopFacts
    DEF NativePcs, NativeIdle, NativeStarting, NativeLocking, FleetOps, NativeTypes, Todos
  <2>. DEFINE m == fleet.map[cam]
              r == [requests[p] EXCEPT !.op = "remove", !.pc = "ask", !.cam = cam, !.self = m]
  <2>4. requests' = [requests EXCEPT ![p] = r] BY <2>2
  <2>5. m \in Nat BY <2>3
  <2>. HIDE DEF m
  <2>6. r \in NativeCalls BY <2>1, <2>3, <2>5 DEF NativeCalls
  <2>7. requests[p] \in NativeCalls BY <2>1
  <2>8. /\ r.op = "remove" /\ r.pc = "ask" /\ r.cam = cam /\ r.self = m
        /\ r.todo = requests[p].todo /\ r.lent = requests[p].lent /\ r.count = requests[p].count
    BY <2>7 DEF NativeCalls
  <2>. HIDE DEF r
  <2>9. /\ requests' \in [FleetCallers -> NativeCalls] /\ requests'[p] = r
        /\ \A q \in FleetCallers : q # p => requests'[q] = requests[q]
    BY <2>1, <2>4, <2>6
  <2>. QED BY <2>8, <2>9 DEF m
<1>4. UNCHANGED actors BY DEF Cpp!CallRemove
<1>5. /\ fleet' \in [map : [FleetCameras -> Nat], parked : SUBSET Nat, started : BOOLEAN]
      /\ \A c \in FleetCameras : fleet'.map[c] = IF c = cam THEN 0 ELSE fleet.map[c]
      /\ fleet'.parked = fleet.parked
  BY <1>1 DEF Cpp!CallRemove, Cpp!NoActor, NativeTypes
<1>6. NativeTypes' BY <1>1, <1>3, <1>4, <1>5 DEF NativeTypes
<1>7. FleetMap' BY <1>1, <1>2, <1>20, <1>4, <1>5 DEF FleetMap
<1>8. NativeFrames'
  BY <1>1, <1>2, <1>20, <1>3, <1>4 DEF NativeFrames, FleetAt, FleetOf, NativeIdle
<1>9. NativeThreads'
  BY <1>1, <1>2, <1>20, <1>3, <1>4
  DEF NativeThreads, NativeFrames, FleetAt, FleetOf, NativeIdle, NativeStarting
<1>10. NativeLocks'
  BY <1>1, <1>2, <1>20, <1>3, <1>4
  DEF NativeLocks, NativeFrames, FleetAt, FleetOf, NativeIdle, NativeLocking
<1>13. NativeTodo'
  BY <1>1, <1>2, <1>20, <1>3, <1>4 DEF NativeTodo, NativeFrames, FleetAt, FleetOf, NativeIdle
<1>11. NativeSecured'
  <2>1. \A b \in 1 .. Len(actors) : b = fleet.map[cam] \/ Secures(p, b) => Secures(p, b)'
    BY <1>2, <1>20, <1>3 DEF Secures, ToStop, FleetAt, FleetOf
  <2>2. \A q \in FleetCallers, b \in 1 .. Len(actors) : q # p /\ Secures(q, b) => Secures(q, b)'
    BY <1>3 DEF Secures, ToStop, FleetAt, FleetOf
  <2>3. \A b \in 1 .. Len(actors) : actors[b].cam \in FleetCameras
    BY <1>1, NativeActorTypes
  <2>. QED BY <1>1, <1>20, <1>4, <1>5, <2>1, <2>2, <2>3 DEF NativeSecured
<1>12. NativeCounted'
  BY <1>1, <1>2, <1>20, <1>3, <1>4, <1>5
  DEF NativeCounted, Secures, ToStop, NativeFrames, FleetAt, FleetOf, NativeIdle
<1>. QED BY <1>6, <1>7, <1>8, <1>9, <1>10, <1>11, <1>12, <1>13 DEF NativeInv
\* add_camera() publishes a new actor.
LEMMA NativeInsert ==
    ASSUME NativeInv, NEW p \in FleetCallers, Cpp!Insert(p)
    PROVE  NativeInv'
<1>. DEFINE n == Len(actors) + 1
            cam == requests[p].cam
            e == [cam |-> cam, stop |-> FALSE, thread |-> "none", handle |-> "none",
                  locked |-> FALSE]
<1>1. /\ NativeTypes /\ FleetMap /\ NativeFrames /\ NativeTodo /\ NativeThreads /\ NativeLocks
      /\ NativeSecured /\ NativeCounted
  BY DEF NativeInv
<1>2. /\ FleetAt(p) = "add" /\ FleetOf(p) = 0 /\ cam \in FleetCameras
      /\ fleet.map[cam] = 0 /\ Len(actors) \in Nat
  BY <1>1
  DEF Cpp!Insert, Cpp!At, Cpp!NoActor, NativeFrames, FleetAt, FleetOf, NativeIdle, NativeTypes
<1>3. /\ requests' \in [FleetCallers -> NativeCalls]
      /\ \A q \in FleetCallers : q # p => requests'[q] = requests[q]
      /\ requests'[p].pc = "clear" /\ requests'[p].self = n
      /\ requests'[p].op = requests[p].op /\ requests'[p].cam = requests[p].cam
      /\ requests'[p].todo = requests[p].todo
      /\ requests'[p].lent = requests[p].lent /\ requests'[p].count = requests[p].count
  <2>1. requests \in [FleetCallers -> NativeCalls] BY <1>1 DEF NativeTypes
  <2>2. requests' = [requests EXCEPT ![p].self = n, ![p].pc = "clear"] BY DEF Cpp!Insert
  <2>3. "clear" \in NativePcs /\ n \in Nat BY <1>2 DEF NativePcs, NativeStarting
  <2>. HIDE DEF n
  <2>. QED BY <2>1, <2>2, <2>3 DEF NativeCalls
<1>4. /\ actors' \in Seq(NativeActors) /\ Len(actors') = n /\ n \in Nat
      /\ \A b \in 1 .. n : b \in 1 .. Len(actors) \/ b = n
      /\ \A b \in 1 .. Len(actors) : b \in 1 .. n /\ b # n /\ actors'[b] = actors[b]
      /\ n # 0 /\ n \notin 1 .. Len(actors) /\ n \in 1 .. n
      /\ actors'[n].cam = cam /\ actors'[n].thread = "none" /\ actors'[n].handle = "none"
  <2>1. actors \in Seq(NativeActors) BY <1>1 DEF NativeTypes
  <2>2. e \in NativeActors BY <1>2 DEF NativeActors
  <2>3. actors' = Append(actors, e) BY DEF Cpp!Insert, Cpp!NewActor
  <2>4. e.cam = cam /\ e.thread = "none" /\ e.handle = "none" OBVIOUS
  <2>. HIDE DEF e
  <2>. QED BY <2>1, <2>2, <2>3, <2>4
<1>5. /\ fleet' \in [map : [FleetCameras -> Nat], parked : SUBSET Nat, started : BOOLEAN]
      /\ \A c \in FleetCameras : fleet'.map[c] = IF c = cam THEN n ELSE fleet.map[c]
      /\ fleet'.parked = fleet.parked
  <2>1. fleet' = [fleet EXCEPT !.map[cam] = n] BY DEF Cpp!Insert
  <2>2. fleet \in [map : [FleetCameras -> Nat], parked : SUBSET Nat, started : BOOLEAN]
              /\ n \in Nat
    BY <1>1, <1>2 DEF NativeTypes
  <2>3. cam \in FleetCameras BY <1>2
  <2>. HIDE DEF n, cam
  <2>. QED BY <2>1, <2>2, <2>3
<1>. HIDE DEF n, cam, e
<1>6. NativeTypes' BY <1>3, <1>4, <1>5 DEF NativeTypes
<1>7. FleetMap' BY <1>1, <1>2, <1>4, <1>5 DEF FleetMap
<1>8. NativeFrames' BY <1>1, <1>2, <1>3, <1>4 DEF NativeFrames, FleetAt, FleetOf, NativeIdle, cam
<1>9. NativeTodo' BY <1>1, <1>2, <1>3, <1>4 DEF NativeTodo, FleetAt
<1>10. NativeThreads'
  <2>1. \A b \in 1 .. n : /\ actors'[b].thread = "none" <=> actors'[b].handle = "none"
                          /\ actors'[b].handle = "joined" => actors'[b].thread = "done"
    <3>. SUFFICES ASSUME NEW b \in 1 .. n
                  PROVE  /\ actors'[b].thread = "none" <=> actors'[b].handle = "none"
                         /\ actors'[b].handle = "joined" => actors'[b].thread = "done"
      OBVIOUS
    <3>1. CASE b = n BY <1>4, <3>1
    <3>2. CASE b \in 1 .. Len(actors) BY <1>1, <1>4, <3>2 DEF NativeThreads
    <3>. QED BY <1>4, <3>1, <3>2
  <2>2. ASSUME NEW q \in FleetCallers, requests'[q].pc \in NativeStarting
        PROVE  /\ actors'[requests'[q].self].thread = "none"
               /\ \A r \in FleetCallers \ {q} :
                      requests'[r].pc \in NativeStarting => requests'[r].self # requests'[q].self
    BY <1>1, <1>2, <1>3, <1>4, <2>2
    DEF NativeThreads, NativeFrames, FleetAt, FleetOf, NativeIdle, NativeStarting
  <2>. QED BY <1>4, <2>1, <2>2 DEF NativeThreads, FleetAt, FleetOf
<1>11. NativeLocks'
  BY <1>1, <1>2, <1>3, <1>4
  DEF NativeLocks, NativeFrames, FleetAt, FleetOf, NativeIdle, NativeLocking
<1>12. \A q \in FleetCallers, b \in 1 .. Len(actors) : Secures(q, b) => Secures(q, b)'
  BY <1>2, <1>3 DEF Secures, ToStop, FleetAt, FleetOf
<1>13. NativeSecured'
  <2>. SUFFICES ASSUME NEW b \in 1 .. n, actors'[b].thread = "running"
                PROVE  \/ fleet'.map[actors'[b].cam] = b
                       \/ b \in fleet'.parked
                       \/ \E q \in FleetCallers : Secures(q, b)'
    BY <1>4 DEF NativeSecured
  <2>1. b \in 1 .. Len(actors) /\ actors'[b] = actors[b] /\ actors[b].cam \in FleetCameras
    BY <1>1, <1>4, NativeActorTypes
  <2>. QED BY <1>1, <1>2, <1>5, <1>12, <2>1 DEF NativeSecured
<1>14. NativeCounted'
  BY <1>1, <1>2, <1>3, <1>4, <1>12 DEF NativeCounted
<1>. QED BY <1>6, <1>7, <1>8, <1>9, <1>10, <1>11, <1>13, <1>14 DEF NativeInv

\* stop() asks every actor it took out to stop.
LEMMA NativeAskAll ==
    ASSUME NativeInv, NEW p \in FleetCallers, Cpp!AskAll(p)
    PROVE  NativeInv'
<1>1. /\ NativeTypes /\ FleetMap /\ NativeFrames /\ NativeTodo /\ NativeThreads /\ NativeLocks
      /\ NativeSecured /\ NativeCounted
  BY DEF NativeInv
<1>2. FleetAt(p) = "askall" /\ FleetOf(p) = 0
  BY <1>1 DEF Cpp!AskAll, Cpp!At, NativeFrames, FleetAt, FleetOf, NativeIdle
<1>3. /\ requests' \in [FleetCallers -> NativeCalls]
      /\ \A q \in FleetCallers : q # p => requests'[q] = requests[q]
      /\ requests'[p].pc = "stopnext"
      /\ requests'[p].op = requests[p].op /\ requests'[p].cam = requests[p].cam
      /\ requests'[p].self = requests[p].self /\ requests'[p].todo = requests[p].todo
      /\ requests'[p].lent = requests[p].lent /\ requests'[p].count = requests[p].count
  <2>1. requests \in [FleetCallers -> NativeCalls] BY <1>1 DEF NativeTypes
  <2>2. requests' = [requests EXCEPT ![p].pc = "stopnext"] BY DEF Cpp!AskAll, Cpp!Goto
  <2>3. "stopnext" \in NativePcs BY DEF NativePcs, NativeIdle
  <2>. QED BY <2>1, <2>2, <2>3 DEF NativeCalls
<1>4. /\ actors' \in Seq(NativeActors) /\ Len(actors') = Len(actors)
      /\ \A b \in 1 .. Len(actors) :
            /\ actors'[b].cam = actors[b].cam /\ actors'[b].thread = actors[b].thread
            /\ actors'[b].handle = actors[b].handle /\ actors'[b].locked = actors[b].locked
  <2>. DEFINE Asked(b) == \E i \in DOMAIN requests[p].todo : requests[p].todo[i] = b
              e(b) == [actors[b] EXCEPT !.stop = @ \/ Asked(b)]
  <2>1. actors' = [b \in 1 .. Len(actors) |-> e(b)] /\ Len(actors) \in Nat
    BY <1>1 DEF Cpp!AskAll, NativeTypes
  <2>2. \A b \in 1 .. Len(actors) :
            /\ e(b) \in NativeActors
            /\ e(b).cam = actors[b].cam /\ e(b).thread = actors[b].thread
            /\ e(b).handle = actors[b].handle /\ e(b).locked = actors[b].locked
    <3>. SUFFICES ASSUME NEW b \in 1 .. Len(actors)
                  PROVE  /\ e(b) \in NativeActors
                         /\ e(b).cam = actors[b].cam /\ e(b).thread = actors[b].thread
                         /\ e(b).handle = actors[b].handle /\ e(b).locked = actors[b].locked
      OBVIOUS
    <3>1. actors[b] \in NativeActors /\ Asked(b) \in BOOLEAN BY <1>1, NativeActorTypes
    <3>. HIDE DEF Asked
    <3>. QED BY <3>1 DEF NativeActors
  <2>. HIDE DEF e
  <2>. QED BY <2>1, <2>2
<1>5. UNCHANGED fleet BY DEF Cpp!AskAll
<1>6. NativeTypes' BY <1>1, <1>3, <1>4, <1>5 DEF NativeTypes
<1>7. FleetMap' BY <1>1, <1>4, <1>5 DEF FleetMap
<1>8. NativeFrames' BY <1>1, <1>2, <1>3, <1>4 DEF NativeFrames, FleetAt, FleetOf, NativeIdle
<1>9. NativeTodo' BY <1>1, <1>3, <1>4 DEF NativeTodo, FleetAt
<1>10. NativeThreads'
  BY <1>1, <1>2, <1>3, <1>4
  DEF NativeThreads, NativeFrames, FleetAt, FleetOf, NativeIdle, NativeStarting
<1>11. NativeLocks'
  BY <1>1, <1>2, <1>3, <1>4
  DEF NativeLocks, NativeFrames, FleetAt, FleetOf, NativeIdle, NativeLocking
<1>12. \A q \in FleetCallers, b \in 1 .. Len(actors) : Secures(q, b) => Secures(q, b)'
  BY <1>2, <1>3 DEF Secures, ToStop, FleetAt, FleetOf
<1>13. NativeSecured' BY <1>1, <1>4, <1>5, <1>12 DEF NativeSecured
<1>14. NativeCounted' BY <1>1, <1>3, <1>4, <1>12 DEF NativeCounted
<1>. QED BY <1>6, <1>7, <1>8, <1>9, <1>10, <1>11, <1>13, <1>14 DEF NativeInv

\* A camera thread ends.
LEMMA NativeThreadEnds ==
    ASSUME NativeInv, NEW a \in 1 .. Len(actors), Cpp!ThreadEnds(a)
    PROVE  NativeInv'
<1>1. /\ NativeTypes /\ FleetMap /\ NativeFrames /\ NativeTodo /\ NativeThreads /\ NativeLocks
      /\ NativeSecured /\ NativeCounted
  BY DEF NativeInv
<1>2. actors[a].thread = "running" /\ UNCHANGED <<fleet, requests>> BY DEF Cpp!ThreadEnds
<1>4. /\ actors' \in Seq(NativeActors) /\ Len(actors') = Len(actors)
      /\ \A b \in 1 .. Len(actors) : b # a => actors'[b] = actors[b]
      /\ actors'[a].thread = "done" /\ actors'[a].cam = actors[a].cam
      /\ actors'[a].handle = actors[a].handle /\ actors'[a].locked = actors[a].locked
  <2>. DEFINE e == [actors[a] EXCEPT !.thread = "done", !.stop = TRUE]
  <2>1. actors \in Seq(NativeActors) /\ actors[a] \in NativeActors
    BY <1>1, NativeActorTypes DEF NativeTypes
  <2>2. e \in NativeActors BY <2>1 DEF NativeActors
  <2>3. actors' = [actors EXCEPT ![a] = e] BY DEF Cpp!ThreadEnds
  <2>. HIDE DEF e
  <2>4. /\ actors' \in Seq(NativeActors) /\ Len(actors') = Len(actors) /\ actors'[a] = e
        /\ \A b \in 1 .. Len(actors) : b # a => actors'[b] = actors[b]
    BY <2>1, <2>2, <2>3, SeqPatch
  <2>. QED BY <2>1, <2>4 DEF NativeActors, e
<1>6. NativeTypes' BY <1>1, <1>2, <1>4 DEF NativeTypes
<1>7. FleetMap' BY <1>1, <1>2, <1>4 DEF FleetMap
<1>8. NativeFrames' BY <1>1, <1>2, <1>4 DEF NativeFrames, FleetAt, FleetOf, NativeIdle
<1>9. NativeTodo' BY <1>1, <1>2, <1>4 DEF NativeTodo, FleetAt
<1>10. NativeThreads'
  <2>1. ASSUME NEW b \in 1 .. Len(actors)
        PROVE  /\ actors'[b].thread = "none" <=> actors'[b].handle = "none"
               /\ actors'[b].handle = "joined" => actors'[b].thread = "done"
    <3>1. CASE b = a BY <1>1, <1>2, <1>4, <3>1 DEF NativeThreads
    <3>2. CASE b # a BY <1>1, <1>4, <3>2 DEF NativeThreads
    <3>. QED BY <3>1, <3>2
  <2>2. ASSUME NEW q \in FleetCallers, requests'[q].pc \in NativeStarting
        PROVE  /\ actors'[requests'[q].self].thread = "none"
               /\ \A r \in FleetCallers \ {q} :
                      requests'[r].pc \in NativeStarting => requests'[r].self # requests'[q].self
    BY <1>1, <1>2, <1>4, <2>2
    DEF NativeThreads, NativeFrames, FleetAt, FleetOf, NativeIdle, NativeStarting
  <2>. QED BY <1>4, <2>1, <2>2 DEF NativeThreads, FleetAt, FleetOf
<1>11. NativeLocks'
  BY <1>1, <1>2, <1>4 DEF NativeLocks, NativeFrames, FleetAt, FleetOf, NativeIdle, NativeLocking
<1>12. \A q \in FleetCallers, b \in 1 .. Len(actors) : Secures(q, b) => Secures(q, b)'
  BY <1>2 DEF Secures, ToStop, FleetAt, FleetOf
<1>13. NativeSecured' BY <1>1, <1>2, <1>4, <1>12 DEF NativeSecured
<1>14. NativeCounted' BY <1>1, <1>2, <1>4, <1>12 DEF NativeCounted
<1>. QED BY <1>6, <1>7, <1>8, <1>9, <1>10, <1>11, <1>13, <1>14 DEF NativeInv

\* stop() takes every actor out of the map.
LEMMA NativeCallStop ==
    ASSUME NativeInv, NEW p \in FleetCallers, Cpp!CallStop(p)
    PROVE  NativeInv'
<1>. DEFINE T == Cpp!Taken
            L == {b \in T : actors[b].handle # "none"}
<1>1. /\ NativeTypes /\ FleetMap /\ NativeFrames /\ NativeTodo /\ NativeThreads /\ NativeLocks
      /\ NativeSecured /\ NativeCounted
  BY DEF NativeInv
<1>2. FleetAt(p) = "idle" /\ FleetOf(p) = 0 /\ requests[p].op = "none"
  BY <1>1 DEF Cpp!CallStop, Cpp!At, NativeFrames, FleetAt, FleetOf, NativeIdle
<1>3. PICK order \in [1 .. Cardinality(T) -> T] :
          /\ \A b \in T : \E i \in DOMAIN order : order[i] = b
          /\ requests' = [requests EXCEPT ![p].op = "stop", ![p].pc = "askall", ![p].todo = order, ![p].lent = L]
  <2>1. \E order \in [1 .. Cardinality(Cpp!Taken) -> Cpp!Taken] :
          /\ \A b \in Cpp!Taken : \E i \in DOMAIN order : order[i] = b
          /\ requests' = [requests EXCEPT ![p].op = "stop", ![p].pc = "askall", ![p].todo = order,
                             ![p].lent = {b \in Cpp!Taken : actors[b].handle # "none"}]
    BY Zenon DEF Cpp!CallStop, Cpp!Cardinality, Cardinality
  <2>. QED BY <2>1
<1>4. T \subseteq 1 .. Len(actors) /\ T \subseteq Nat /\ IsFiniteSet(T) /\ Cardinality(T) \in Nat
  <2>1. T \subseteq 1 .. Len(actors) /\ Len(actors) \in Nat BY <1>1 DEF Cpp!Taken, NativeTypes
  <2>2. IsFiniteSet(1 .. Len(actors)) BY <2>1, FS_Interval
  <2>3. IsFiniteSet(T) BY <2>1, <2>2, FS_Subset
  <2>4. Cardinality(T) \in Nat BY <2>3, FS_CardinalityType
  <2>. QED BY <2>1, <2>3, <2>4
<1>5. order \in Todos /\ \A i \in DOMAIN order : order[i] \in T
  <2>. DEFINE k == Cardinality(T)
              S == FleetCameras \cup Nat
  <2>1. k \in Nat /\ T \subseteq S /\ order \in [1 .. k -> T] BY <1>3, <1>4
  <2>2. Todos = Seq(S) BY DEF Todos
  <2>. HIDE DEF k, S, T
  <2>. QED BY <2>1, <2>2
<1>6. L \subseteq T /\ \A b \in L : actors[b].handle # "none" OBVIOUS
<1>7. /\ requests' \in [FleetCallers -> NativeCalls]
      /\ \A q \in FleetCallers : q # p => requests'[q] = requests[q]
      /\ requests'[p].op = "stop" /\ requests'[p].pc = "askall" /\ requests'[p].todo = order
      /\ requests'[p].lent = L /\ requests'[p].self = requests[p].self
  <2>. HIDE DEF L, T
  <2>1. requests \in [FleetCallers -> NativeCalls] BY <1>1 DEF NativeTypes
  <2>2. "askall" \in NativePcs /\ "stop" \in FleetOps /\ L \in SUBSET Nat
    BY <1>4, <1>6 DEF NativePcs, NativeIdle, FleetOps
  <2>. DEFINE r == [requests[p] EXCEPT !.op = "stop", !.pc = "askall", !.todo = order,
             !.lent = L]
  <2>3. r \in NativeCalls BY <1>5, <2>1, <2>2 DEF NativeCalls
  <2>4. r.op = "stop" /\ r.pc = "askall" /\ r.todo = order /\ r.lent = L
              /\ r.self = requests[p].self
    BY <2>1 DEF NativeCalls
  <2>5. requests' = [requests EXCEPT ![p] = r] BY <1>3
  <2>. HIDE DEF r
  <2>6. /\ requests' \in [FleetCallers -> NativeCalls] /\ requests'[p] = r
        /\ \A q \in FleetCallers : q # p => requests'[q] = requests[q]
    BY <2>1, <2>3, <2>5
  <2>. QED BY <2>4, <2>6
<1>8. /\ fleet' \in [map : [FleetCameras -> Nat], parked : SUBSET Nat, started : BOOLEAN]
      /\ \A c \in FleetCameras : fleet'.map[c] = 0
      /\ fleet'.parked = fleet.parked
  BY <1>1 DEF Cpp!CallStop, Cpp!NoActor, NativeTypes
<1>9. UNCHANGED actors BY DEF Cpp!CallStop
<1>10. \A b \in 1 .. Len(actors) : fleet.map[actors[b].cam] = b => b \in T
  BY DEF Cpp!Taken
<1>. HIDE DEF L, T
<1>11. \A b \in T : Secures(p, b)'
  BY <1>3, <1>7 DEF Secures, ToStop
<1>12. \A q \in FleetCallers, b \in 1 .. Len(actors) : Secures(q, b) => Secures(q, b)'
  BY <1>2, <1>7 DEF Secures, ToStop, FleetAt, FleetOf
<1>13. NativeTypes' BY <1>1, <1>7, <1>8, <1>9 DEF NativeTypes
<1>14. FleetMap' BY <1>8 DEF FleetMap
<1>15. NativeFrames' BY <1>1, <1>2, <1>7, <1>9 DEF NativeFrames, FleetAt, FleetOf, NativeIdle
<1>16. NativeTodo' BY <1>1, <1>4, <1>5, <1>7, <1>9 DEF NativeTodo, FleetAt
<1>17. NativeThreads'
  BY <1>1, <1>2, <1>7, <1>9
  DEF NativeThreads, NativeFrames, FleetAt, FleetOf, NativeIdle, NativeStarting
<1>18. NativeLocks'
  BY <1>1, <1>2, <1>7, <1>9
  DEF NativeLocks, NativeFrames, FleetAt, FleetOf, NativeIdle, NativeLocking
<1>19. NativeSecured' BY <1>1, <1>8, <1>9, <1>10, <1>11, <1>12 DEF NativeSecured
<1>20. NativeCounted' BY <1>1, <1>4, <1>6, <1>7, <1>9, <1>11, <1>12 DEF NativeCounted
<1>. QED BY <1>13, <1>14, <1>15, <1>16, <1>17, <1>18, <1>19, <1>20 DEF NativeInv

\* Every step of the C++ manager keeps its invariant.
LEMMA NativeKeeps == NativeInv /\ Cpp!Next => NativeInv'
<1>. SUFFICES ASSUME NativeInv, Cpp!Next PROVE NativeInv' OBVIOUS
<1>1. ASSUME NEW p \in FleetCallers, Cpp!Call(p) PROVE NativeInv'
  <2>1. ASSUME NEW cam \in FleetCameras, Cpp!CallAdd(p, cam) PROVE NativeInv'
    BY <2>1, NativeCallAdd
  <2>2. ASSUME NEW cam \in FleetCameras, Cpp!CallRemove(p, cam) PROVE NativeInv'
    BY <2>2, NativeCallRemove, NativeCallRemoveNone
  <2>3. CASE Cpp!CallStart(p) BY <2>3, NativeCallStart, NativeCallStartAgain
  <2>4. CASE Cpp!StartNext(p) BY <2>4, NativeStartNext, NativeStartEnds
  <2>5. CASE Cpp!CallStop(p) BY <2>5, NativeCallStop
  <2>6. CASE Cpp!AskAll(p) BY <2>6, NativeAskAll
  <2>7. CASE Cpp!StopNext(p) BY <2>7, NativeStopNext
  <2>8. CASE Cpp!StopEnds(p) BY <2>8, NativeStopEnds
  <2>. QED BY <1>1, <2>1, <2>2, <2>3, <2>4, <2>5, <2>6, <2>7, <2>8 DEF Cpp!Call
<1>2. ASSUME NEW p \in FleetCallers, Cpp!Work(p) PROVE NativeInv'
  BY <1>2, NativeAddRefused, NativeInsert, NativeStartClears, NativeStartSpawns,
     NativeRecheckKept,
     NativeRecheckLost, NativeAsk, NativeLockLifecycle, NativeJoin, NativeDetach, NativeUnlock,
     NativePark, NativeLetGo DEF Cpp!Work
<1>3. CASE Cpp!AllReturned
  BY <1>3
  DEF Cpp!AllReturned, Cpp!vars, NativeInv, NativeTypes, FleetMap, NativeFrames, NativeTodo,
     NativeThreads, NativeLocks, NativeSecured, NativeCounted, Secures, ToStop, FleetAt, FleetOf
<1>. QED BY <1>1, <1>2, <1>3, NativeThreadEnds DEF Cpp!Next

\* The C++ manager starts in its invariant.
LEMMA NativeStart == Cpp!Init => NativeInv
<1>. SUFFICES ASSUME Cpp!Init PROVE NativeInv OBVIOUS
<1>1. /\ Len(actors) = 0 /\ actors \in Seq(NativeActors)
      /\ \A c \in FleetCameras : fleet.map[c] = 0
  BY DEF Cpp!Init, Cpp!NoActor
<1>2. /\ \A p \in FleetCallers : requests[p].op = "none" /\ requests[p].pc = "idle"
            /\ requests[p].self = 0
      /\ \A p \in FleetCallers : requests[p].todo = <<>>
  BY DEF Cpp!Init, Cpp!Nothing, Cpp!NoActor
<1>3. NativeTypes
  <2>1. Cpp!Nothing \in NativeCalls
    BY DEF Cpp!Nothing, Cpp!NoActor, NativeCalls, FleetOps, NativePcs, NativeIdle, Todos
  <2>2. fleet \in [map : [FleetCameras -> Nat], parked : SUBSET Nat, started : BOOLEAN]
    BY DEF Cpp!Init, Cpp!NoActor
  <2>. QED BY <1>1, <2>1, <2>2 DEF Cpp!Init, NativeTypes
<1>4. FleetMap BY <1>1 DEF FleetMap
<1>5. NativeFrames /\ NativeTodo /\ NativeLocks
  BY <1>2 DEF NativeFrames, NativeTodo, NativeLocks, FleetAt, FleetOf, NativeIdle, NativeLocking
<1>6. NativeThreads /\ NativeSecured /\ NativeCounted
  BY <1>1, <1>2 DEF NativeThreads, NativeSecured, NativeCounted, FleetAt, NativeStarting
<1>. QED BY <1>3, <1>4, <1>5, <1>6 DEF NativeInv

\* What the invariant of the C++ manager says of its threads.
LEMMA NativeHolds == NativeInv => Cpp!LifetimeSafe /\ Cpp!ZeroMeansFree
<1>. SUFFICES ASSUME NativeInv PROVE Cpp!LifetimeSafe /\ Cpp!ZeroMeansFree OBVIOUS
<1>1. \A p, a : Secures(p, a) => Cpp!Holds(p, a)
  BY DEF Secures, ToStop, Cpp!Holds, Cpp!Me, FleetOf
<1>2. Cpp!LifetimeSafe BY <1>1 DEF NativeInv, NativeSecured, Cpp!LifetimeSafe
<1>3. Cpp!ZeroMeansFree
  <2>. SUFFICES ASSUME NEW p \in FleetCallers, requests[p].op = "stop", FleetAt(p) = "done",
                       requests[p].count = 0, NEW a \in requests[p].lent
                PROVE  actors[a].thread = "done"
    BY DEF Cpp!ZeroMeansFree, Cpp!At, FleetAt
  <2>1. FleetOf(p) = 0 /\ requests[p].todo = <<>> /\ a # 0
    BY DEF NativeInv, NativeFrames, NativeTodo, NativeCounted, NativeIdle
  <2>2. ~Secures(p, a) BY <2>1 DEF Secures, ToStop
  <2>. QED BY <2>2 DEF NativeInv, NativeCounted
<1>. QED BY <1>2, <1>3

-----------------------------------------------------------------------------
(* The Python manager keeps its invariant.                                 *)

\* An actor of the Python manager has its fields.
LEMMA FleetActorTypes ==
    FleetTypes => \A b \in 1 .. Len(actors) : actors[b] \in FleetActor
          /\ actors[b].cam \in FleetCameras
<1>. SUFFICES ASSUME FleetTypes, NEW b \in 1 .. Len(actors)
              PROVE  actors[b] \in FleetActor /\ actors[b].cam \in FleetCameras
  OBVIOUS
<1>1. actors[b] \in FleetActor BY DEF FleetTypes
<1>. QED BY <1>1 DEF FleetActor

\* add_camera() arrives.
LEMMA PythonCallAdd ==
    ASSUME FleetInv, NEW p \in FleetCallers, NEW cam \in FleetCameras, Python!CallAdd(p, cam)
    PROVE  FleetInv'
<1>1. /\ FleetTypes /\ FleetMap /\ FleetFrames /\ FleetTodo /\ FleetBuilding
      /\ Python!NoOrphanCamera
  BY DEF FleetInv
<1>2. FleetAt(p) = "idle"
  BY <1>1 DEF Python!CallAdd, Python!At, FleetFrames, FleetAt, FleetOf, InHand, Building
<1>3. /\ requests' \in [FleetCallers -> FleetCall]
      /\ \A q \in FleetCallers : q # p => requests'[q] = requests[q]
      /\ requests'[p].op = "add" /\ requests'[p].pc = "add" /\ requests'[p].cam = cam
      /\ requests'[p].self = requests[p].self /\ requests'[p].todo = requests[p].todo
  <2>. DEFINE r == [requests[p] EXCEPT !.op = "add", !.pc = "add", !.cam = cam]
  <2>1. requests \in [FleetCallers -> FleetCall] /\ requests[p] \in FleetCall
    BY <1>1 DEF FleetTypes
  <2>2. requests' = [requests EXCEPT ![p] = r]
    BY <1>2
    DEF Python!CallAdd, Python!Goto, Python!Me, Python!NoActor, Python!AddSucceeds,
        Python!Answered, FleetOf
  <2>3. "add" \in FleetPcs /\ "add" \in FleetOps
    BY IngestAssumption, <1>1, <1>2 DEF FleetPcs, InHand, Building, FleetOps, FleetTypes, Todos
  <2>4. r \in FleetCall BY <1>2, <2>1, <2>3 DEF FleetCall
  <2>5. /\ r.op = "add" /\ r.pc = "add" /\ r.cam = cam
        /\ r.self = requests[p].self /\ r.todo = requests[p].todo
    BY <2>1 DEF FleetCall
  <2>. HIDE DEF r
  <2>6. /\ requests' \in [FleetCallers -> FleetCall] /\ requests'[p] = r
        /\ \A q \in FleetCallers : q # p => requests'[q] = requests[q]
    BY <2>1, <2>2, <2>4
  <2>. QED BY <2>5, <2>6
<1>4. UNCHANGED actors BY DEF Python!CallAdd
<1>5. UNCHANGED fleet BY DEF Python!CallAdd
<1>6. FleetTypes' BY <1>1, <1>3, <1>4, <1>5 DEF FleetTypes
<1>7. FleetMap' BY <1>1, <1>2, <1>4, <1>5 DEF FleetMap
<1>8. FleetFrames' BY <1>1, <1>2, <1>3, <1>4 DEF FleetFrames, FleetAt, FleetOf, InHand, Building
<1>9. FleetTodo' BY <1>1, <1>2, <1>3, <1>4 DEF FleetTodo
<1>10. FleetBuilding'
  <2>. SUFFICES ASSUME NEW q \in FleetCallers, requests'[q].pc \in Building
                PROVE  /\ actors'[requests'[q].self].thread = "none"
                       /\ \A r \in FleetCallers \ {q} :
                              requests'[r].pc \in Building
                                    => requests'[r].self # requests'[q].self
    BY DEF FleetBuilding, FleetAt, FleetOf
  <2>. QED
    BY <1>1, <1>2, <1>3, <1>4 DEF FleetBuilding, FleetFrames, FleetAt, FleetOf, InHand, Building
<1>11. Python!NoOrphanCamera'
  <2>1. \A b \in 1 .. Len(actors) : Python!SeesTo(p, b) => Python!SeesTo(p, b)'
    BY <1>2, <1>3 DEF Python!SeesTo, Python!Me, Python!At, FleetAt, FleetOf
  <2>2. \A q \in FleetCallers, b \in 1 .. Len(actors) :
            q # p /\ Python!SeesTo(q, b) => Python!SeesTo(q, b)'
    BY <1>3 DEF Python!SeesTo, Python!Me, Python!At
  <2>. QED BY <1>1, <1>2, <1>4, <1>5, <2>1, <2>2 DEF Python!NoOrphanCamera
<1>. QED BY <1>6, <1>7, <1>8, <1>9, <1>10, <1>11 DEF FleetInv

\* start() of a manager that runs does nothing.
LEMMA PythonCallStartAgain ==
    ASSUME FleetInv, NEW p \in FleetCallers, Python!CallStart(p), fleet.started
    PROVE  FleetInv'
<1>1. /\ FleetTypes /\ FleetMap /\ FleetFrames /\ FleetTodo /\ FleetBuilding
      /\ Python!NoOrphanCamera
  BY DEF FleetInv
<1>2. FleetAt(p) = "idle"
  BY <1>1 DEF Python!CallStart, Python!At, FleetFrames, FleetAt, FleetOf, InHand, Building
<1>3. /\ requests' \in [FleetCallers -> FleetCall]
      /\ \A q \in FleetCallers : q # p => requests'[q] = requests[q]
      /\ requests'[p].pc = "done"
      /\ requests'[p].op = requests[p].op /\ requests'[p].cam = requests[p].cam
      /\ requests'[p].self = requests[p].self /\ requests'[p].todo = requests[p].todo
  <2>. DEFINE r == [requests[p] EXCEPT !.pc = "done"]
  <2>1. requests \in [FleetCallers -> FleetCall] /\ requests[p] \in FleetCall
    BY <1>1 DEF FleetTypes
  <2>2. requests' = [requests EXCEPT ![p] = r]
    BY <1>2
    DEF Python!CallStart, Python!Goto, Python!Me, Python!NoActor, Python!AddSucceeds,
        Python!Answered, FleetOf
  <2>3. "done" \in FleetPcs
    BY IngestAssumption, <1>1, <1>2 DEF FleetPcs, InHand, Building, FleetOps, FleetTypes, Todos
  <2>4. r \in FleetCall BY <1>2, <2>1, <2>3 DEF FleetCall
  <2>5. /\ r.pc = "done"
        /\ r.op = requests[p].op /\ r.cam = requests[p].cam /\ r.self = requests[p].self
        /\ r.todo = requests[p].todo
    BY <2>1 DEF FleetCall
  <2>. HIDE DEF r
  <2>6. /\ requests' \in [FleetCallers -> FleetCall] /\ requests'[p] = r
        /\ \A q \in FleetCallers : q # p => requests'[q] = requests[q]
    BY <2>1, <2>2, <2>4
  <2>. QED BY <2>5, <2>6
<1>4. UNCHANGED actors BY DEF Python!CallStart
<1>5. UNCHANGED fleet BY DEF Python!CallStart
<1>6. FleetTypes' BY <1>1, <1>3, <1>4, <1>5 DEF FleetTypes
<1>7. FleetMap' BY <1>1, <1>2, <1>4, <1>5 DEF FleetMap
<1>8. FleetFrames' BY <1>1, <1>2, <1>3, <1>4 DEF FleetFrames, FleetAt, FleetOf, InHand, Building
<1>9. FleetTodo' BY <1>1, <1>2, <1>3, <1>4 DEF FleetTodo
<1>10. FleetBuilding'
  <2>. SUFFICES ASSUME NEW q \in FleetCallers, requests'[q].pc \in Building
                PROVE  /\ actors'[requests'[q].self].thread = "none"
                       /\ \A r \in FleetCallers \ {q} :
                              requests'[r].pc \in Building
                                    => requests'[r].self # requests'[q].self
    BY DEF FleetBuilding, FleetAt, FleetOf
  <2>. QED
    BY <1>1, <1>2, <1>3, <1>4 DEF FleetBuilding, FleetFrames, FleetAt, FleetOf, InHand, Building
<1>11. Python!NoOrphanCamera'
  <2>1. \A b \in 1 .. Len(actors) : Python!SeesTo(p, b) => Python!SeesTo(p, b)'
    BY <1>2, <1>3 DEF Python!SeesTo, Python!Me, Python!At, FleetAt, FleetOf
  <2>2. \A q \in FleetCallers, b \in 1 .. Len(actors) :
            q # p /\ Python!SeesTo(q, b) => Python!SeesTo(q, b)'
    BY <1>3 DEF Python!SeesTo, Python!Me, Python!At
  <2>. QED BY <1>1, <1>2, <1>4, <1>5, <2>1, <2>2 DEF Python!NoOrphanCamera
<1>. QED BY <1>6, <1>7, <1>8, <1>9, <1>10, <1>11 DEF FleetInv

\* start() arrives.
LEMMA PythonCallStart ==
    ASSUME FleetInv, NEW p \in FleetCallers, Python!CallStart(p), ~fleet.started
    PROVE  FleetInv'
<1>1. /\ FleetTypes /\ FleetMap /\ FleetFrames /\ FleetTodo /\ FleetBuilding
      /\ Python!NoOrphanCamera
  BY DEF FleetInv
<1>2. FleetAt(p) = "idle"
  BY <1>1 DEF Python!CallStart, Python!At, FleetFrames, FleetAt, FleetOf, InHand, Building
<1>20. \A i \in DOMAIN FleetConfigured : FleetConfigured[i] \in FleetCameras BY IngestAssumption
<1>3. /\ requests' \in [FleetCallers -> FleetCall]
      /\ \A q \in FleetCallers : q # p => requests'[q] = requests[q]
      /\ requests'[p].op = "start" /\ requests'[p].pc = "started"
      /\ requests'[p].todo = FleetConfigured
      /\ requests'[p].cam = requests[p].cam /\ requests'[p].self = requests[p].self
  <2>. DEFINE r == [requests[p] EXCEPT !.op = "start", !.pc = "started",
             !.todo = FleetConfigured]
  <2>1. requests \in [FleetCallers -> FleetCall] /\ requests[p] \in FleetCall
    BY <1>1 DEF FleetTypes
  <2>2. requests' = [requests EXCEPT ![p] = r]
    BY <1>2, <1>20
    DEF Python!CallStart, Python!Goto, Python!Me, Python!NoActor, Python!AddSucceeds,
        Python!Answered, FleetOf
  <2>3. "start" \in FleetOps /\ "started" \in FleetPcs /\ FleetConfigured \in Todos
    BY IngestAssumption, <1>1, <1>2, <1>20
    DEF FleetPcs, InHand, Building, FleetOps, FleetTypes, Todos
  <2>4. r \in FleetCall BY <1>2, <1>20, <2>1, <2>3 DEF FleetCall
  <2>5. /\ r.op = "start" /\ r.pc = "started" /\ r.todo = FleetConfigured
        /\ r.cam = requests[p].cam /\ r.self = requests[p].self
    BY <2>1 DEF FleetCall
  <2>. HIDE DEF r
  <2>6. /\ requests' \in [FleetCallers -> FleetCall] /\ requests'[p] = r
        /\ \A q \in FleetCallers : q # p => requests'[q] = requests[q]
    BY <2>1, <2>2, <2>4
  <2>. QED BY <2>5, <2>6
<1>4. UNCHANGED actors BY DEF Python!CallStart
<1>5. UNCHANGED fleet BY DEF Python!CallStart
<1>6. FleetTypes' BY <1>1, <1>3, <1>4, <1>5 DEF FleetTypes
<1>7. FleetMap' BY <1>1, <1>2, <1>20, <1>4, <1>5 DEF FleetMap
<1>8. FleetFrames'
  BY <1>1, <1>2, <1>20, <1>3, <1>4 DEF FleetFrames, FleetAt, FleetOf, InHand, Building
<1>9. FleetTodo' BY <1>1, <1>2, <1>20, <1>3, <1>4 DEF FleetTodo
<1>10. FleetBuilding'
  <2>. SUFFICES ASSUME NEW q \in FleetCallers, requests'[q].pc \in Building
                PROVE  /\ actors'[requests'[q].self].thread = "none"
                       /\ \A r \in FleetCallers \ {q} :
                              requests'[r].pc \in Building
                                    => requests'[r].self # requests'[q].self
    BY DEF FleetBuilding, FleetAt, FleetOf
  <2>. QED
    BY <1>1, <1>2, <1>20, <1>3, <1>4
    DEF FleetBuilding, FleetFrames, FleetAt, FleetOf, InHand, Building
<1>11. Python!NoOrphanCamera'
  <2>1. \A b \in 1 .. Len(actors) : Python!SeesTo(p, b) => Python!SeesTo(p, b)'
    BY <1>2, <1>20, <1>3 DEF Python!SeesTo, Python!Me, Python!At, FleetAt, FleetOf
  <2>2. \A q \in FleetCallers, b \in 1 .. Len(actors) :
            q # p /\ Python!SeesTo(q, b) => Python!SeesTo(q, b)'
    BY <1>3 DEF Python!SeesTo, Python!Me, Python!At
  <2>. QED BY <1>1, <1>2, <1>20, <1>4, <1>5, <2>1, <2>2 DEF Python!NoOrphanCamera
<1>. QED BY <1>6, <1>7, <1>8, <1>9, <1>10, <1>11 DEF FleetInv

\* start() marks the manager started.
LEMMA PythonStartMarks ==
    ASSUME FleetInv, NEW p \in FleetCallers, Python!StartMarks(p)
    PROVE  FleetInv'
<1>1. /\ FleetTypes /\ FleetMap /\ FleetFrames /\ FleetTodo /\ FleetBuilding
      /\ Python!NoOrphanCamera
  BY DEF FleetInv
<1>2. FleetAt(p) = "started"
  BY <1>1 DEF Python!StartMarks, Python!At, FleetFrames, FleetAt, FleetOf, InHand, Building
<1>3. /\ requests' \in [FleetCallers -> FleetCall]
      /\ \A q \in FleetCallers : q # p => requests'[q] = requests[q]
      /\ requests'[p].pc = "next"
      /\ requests'[p].op = requests[p].op /\ requests'[p].cam = requests[p].cam
      /\ requests'[p].self = requests[p].self /\ requests'[p].todo = requests[p].todo
  <2>. DEFINE r == [requests[p] EXCEPT !.pc = "next"]
  <2>1. requests \in [FleetCallers -> FleetCall] /\ requests[p] \in FleetCall
    BY <1>1 DEF FleetTypes
  <2>2. requests' = [requests EXCEPT ![p] = r]
    BY <1>2
    DEF Python!StartMarks, Python!Goto, Python!Me, Python!NoActor, Python!AddSucceeds,
        Python!Answered, FleetOf
  <2>3. "next" \in FleetPcs
    BY IngestAssumption, <1>1, <1>2 DEF FleetPcs, InHand, Building, FleetOps, FleetTypes, Todos
  <2>4. r \in FleetCall BY <1>2, <2>1, <2>3 DEF FleetCall
  <2>5. /\ r.pc = "next"
        /\ r.op = requests[p].op /\ r.cam = requests[p].cam /\ r.self = requests[p].self
        /\ r.todo = requests[p].todo
    BY <2>1 DEF FleetCall
  <2>. HIDE DEF r
  <2>6. /\ requests' \in [FleetCallers -> FleetCall] /\ requests'[p] = r
        /\ \A q \in FleetCallers : q # p => requests'[q] = requests[q]
    BY <2>1, <2>2, <2>4
  <2>. QED BY <2>5, <2>6
<1>4. UNCHANGED actors BY DEF Python!StartMarks
<1>5. /\ fleet' \in [map : [FleetCameras -> Nat], started : BOOLEAN]
      /\ fleet'.map = fleet.map
  BY <1>1, <1>2 DEF Python!StartMarks, Python!NoActor, FleetTypes
<1>6. FleetTypes' BY <1>1, <1>3, <1>4, <1>5 DEF FleetTypes
<1>7. FleetMap' BY <1>1, <1>2, <1>4, <1>5 DEF FleetMap
<1>8. FleetFrames' BY <1>1, <1>2, <1>3, <1>4 DEF FleetFrames, FleetAt, FleetOf, InHand, Building
<1>9. FleetTodo' BY <1>1, <1>2, <1>3, <1>4 DEF FleetTodo
<1>10. FleetBuilding'
  <2>. SUFFICES ASSUME NEW q \in FleetCallers, requests'[q].pc \in Building
                PROVE  /\ actors'[requests'[q].self].thread = "none"
                       /\ \A r \in FleetCallers \ {q} :
                              requests'[r].pc \in Building
                                    => requests'[r].self # requests'[q].self
    BY DEF FleetBuilding, FleetAt, FleetOf
  <2>. QED
    BY <1>1, <1>2, <1>3, <1>4 DEF FleetBuilding, FleetFrames, FleetAt, FleetOf, InHand, Building
<1>11. Python!NoOrphanCamera'
  <2>1. \A b \in 1 .. Len(actors) : Python!SeesTo(p, b) => Python!SeesTo(p, b)'
    BY <1>2, <1>3 DEF Python!SeesTo, Python!Me, Python!At, FleetAt, FleetOf
  <2>2. \A q \in FleetCallers, b \in 1 .. Len(actors) :
            q # p /\ Python!SeesTo(q, b) => Python!SeesTo(q, b)'
    BY <1>3 DEF Python!SeesTo, Python!Me, Python!At
  <2>. QED BY <1>1, <1>2, <1>4, <1>5, <2>1, <2>2 DEF Python!NoOrphanCamera
<1>. QED BY <1>6, <1>7, <1>8, <1>9, <1>10, <1>11 DEF FleetInv

\* start() has added its last camera.
LEMMA PythonStartEnds ==
    ASSUME FleetInv, NEW p \in FleetCallers, Python!StartNext(p), requests[p].todo = <<>>
    PROVE  FleetInv'
<1>1. /\ FleetTypes /\ FleetMap /\ FleetFrames /\ FleetTodo /\ FleetBuilding
      /\ Python!NoOrphanCamera
  BY DEF FleetInv
<1>2. FleetAt(p) = "next"
  BY <1>1 DEF Python!StartNext, Python!At, FleetFrames, FleetAt, FleetOf, InHand, Building
<1>3. /\ requests' \in [FleetCallers -> FleetCall]
      /\ \A q \in FleetCallers : q # p => requests'[q] = requests[q]
      /\ requests'[p].pc = "done"
      /\ requests'[p].op = requests[p].op /\ requests'[p].cam = requests[p].cam
      /\ requests'[p].self = requests[p].self /\ requests'[p].todo = requests[p].todo
  <2>. DEFINE r == [requests[p] EXCEPT !.pc = "done"]
  <2>1. requests \in [FleetCallers -> FleetCall] /\ requests[p] \in FleetCall
    BY <1>1 DEF FleetTypes
  <2>2. requests' = [requests EXCEPT ![p] = r]
    BY <1>2
    DEF Python!StartNext, Python!Goto, Python!Me, Python!NoActor, Python!AddSucceeds,
        Python!Answered, FleetOf
  <2>3. "done" \in FleetPcs
    BY IngestAssumption, <1>1, <1>2 DEF FleetPcs, InHand, Building, FleetOps, FleetTypes, Todos
  <2>4. r \in FleetCall BY <1>2, <2>1, <2>3 DEF FleetCall
  <2>5. /\ r.pc = "done"
        /\ r.op = requests[p].op /\ r.cam = requests[p].cam /\ r.self = requests[p].self
        /\ r.todo = requests[p].todo
    BY <2>1 DEF FleetCall
  <2>. HIDE DEF r
  <2>6. /\ requests' \in [FleetCallers -> FleetCall] /\ requests'[p] = r
        /\ \A q \in FleetCallers : q # p => requests'[q] = requests[q]
    BY <2>1, <2>2, <2>4
  <2>. QED BY <2>5, <2>6
<1>4. UNCHANGED actors BY DEF Python!StartNext
<1>5. UNCHANGED fleet BY DEF Python!StartNext
<1>6. FleetTypes' BY <1>1, <1>3, <1>4, <1>5 DEF FleetTypes
<1>7. FleetMap' BY <1>1, <1>2, <1>4, <1>5 DEF FleetMap
<1>8. FleetFrames' BY <1>1, <1>2, <1>3, <1>4 DEF FleetFrames, FleetAt, FleetOf, InHand, Building
<1>9. FleetTodo' BY <1>1, <1>2, <1>3, <1>4 DEF FleetTodo
<1>10. FleetBuilding'
  <2>. SUFFICES ASSUME NEW q \in FleetCallers, requests'[q].pc \in Building
                PROVE  /\ actors'[requests'[q].self].thread = "none"
                       /\ \A r \in FleetCallers \ {q} :
                              requests'[r].pc \in Building
                                    => requests'[r].self # requests'[q].self
    BY DEF FleetBuilding, FleetAt, FleetOf
  <2>. QED
    BY <1>1, <1>2, <1>3, <1>4 DEF FleetBuilding, FleetFrames, FleetAt, FleetOf, InHand, Building
<1>11. Python!NoOrphanCamera'
  <2>1. \A b \in 1 .. Len(actors) : Python!SeesTo(p, b) => Python!SeesTo(p, b)'
    BY <1>2, <1>3 DEF Python!SeesTo, Python!Me, Python!At, FleetAt, FleetOf
  <2>2. \A q \in FleetCallers, b \in 1 .. Len(actors) :
            q # p /\ Python!SeesTo(q, b) => Python!SeesTo(q, b)'
    BY <1>3 DEF Python!SeesTo, Python!Me, Python!At
  <2>. QED BY <1>1, <1>2, <1>4, <1>5, <2>1, <2>2 DEF Python!NoOrphanCamera
<1>. QED BY <1>6, <1>7, <1>8, <1>9, <1>10, <1>11 DEF FleetInv

\* start() adds its next camera.
LEMMA PythonStartNext ==
    ASSUME FleetInv, NEW p \in FleetCallers, Python!StartNext(p), requests[p].todo # <<>>
    PROVE  FleetInv'
<1>1. /\ FleetTypes /\ FleetMap /\ FleetFrames /\ FleetTodo /\ FleetBuilding
      /\ Python!NoOrphanCamera
  BY DEF FleetInv
<1>2. FleetAt(p) = "next"
  BY <1>1 DEF Python!StartNext, Python!At, FleetFrames, FleetAt, FleetOf, InHand, Building
<1>20. /\ requests[p].op = "start" /\ requests[p].todo # <<>>
       /\ Head(requests[p].todo) \in FleetCameras /\ Tail(requests[p].todo) \in Todos
       /\ \A j \in DOMAIN Tail(requests[p].todo) : Tail(requests[p].todo)[j] \in FleetCameras
  <2>1. requests[p].todo \in Seq(FleetCameras \cup Nat) /\ requests[p].op = "start"
              /\ requests[p].todo # <<>>
    BY <1>1, <1>2 DEF Python!StartNext, FleetTypes, FleetCall, FleetFrames, FleetAt, Todos
  <2>. DEFINE s == requests[p].todo
  <2>2. /\ 1 \in DOMAIN s /\ Head(s) = s[1] /\ Head(s) \in FleetCameras \cup Nat
        /\ Tail(s) \in Seq(FleetCameras \cup Nat)
        /\ \A j \in DOMAIN Tail(s) : j + 1 \in DOMAIN s /\ Tail(s)[j] = s[j + 1]
        /\ \A i \in DOMAIN s : i # 1 => i - 1 \in DOMAIN Tail(s) /\ Tail(s)[i - 1] = s[i]
    BY <2>1, PopFacts
  <2>3. \A i \in DOMAIN s : s[i] \in FleetCameras
    BY <1>1, <2>1 DEF FleetTodo
  <2>. HIDE DEF s
  <2>. QED BY <1>1, <2>1, <2>2, <2>3 DEF Todos, s
<1>3. /\ requests' \in [FleetCallers -> FleetCall]
      /\ \A q \in FleetCallers : q # p => requests'[q] = requests[q]
      /\ requests'[p].pc = "add" /\ requests'[p].cam = Head(requests[p].todo)
      /\ requests'[p].todo = Tail(requests[p].todo)
      /\ requests'[p].op = requests[p].op /\ requests'[p].self = requests[p].self
  <2>. DEFINE r == [requests[p] EXCEPT !.pc = "add", !.cam = Head(requests[p].todo),
             !.todo = Tail(requests[p].todo)]
  <2>1. requests \in [FleetCallers -> FleetCall] /\ requests[p] \in FleetCall
    BY <1>1 DEF FleetTypes
  <2>2. requests' = [requests EXCEPT ![p] = r]
    BY <1>2, <1>20
    DEF Python!StartNext, Python!Goto, Python!Me, Python!NoActor, Python!AddSucceeds,
        Python!Answered, FleetOf
  <2>3. "add" \in FleetPcs /\ Tail(requests[p].todo) \in Todos
    BY IngestAssumption, <1>1, <1>2, <1>20
    DEF FleetPcs, InHand, Building, FleetOps, FleetTypes, Todos
  <2>4. r \in FleetCall BY <1>2, <1>20, <2>1, <2>3 DEF FleetCall
  <2>5. /\ r.pc = "add" /\ r.cam = Head(requests[p].todo) /\ r.todo = Tail(requests[p].todo)
        /\ r.op = requests[p].op /\ r.self = requests[p].self
    BY <2>1 DEF FleetCall
  <2>. HIDE DEF r
  <2>6. /\ requests' \in [FleetCallers -> FleetCall] /\ requests'[p] = r
        /\ \A q \in FleetCallers : q # p => requests'[q] = requests[q]
    BY <2>1, <2>2, <2>4
  <2>. QED BY <2>5, <2>6
<1>4. UNCHANGED actors BY DEF Python!StartNext
<1>5. UNCHANGED fleet BY DEF Python!StartNext
<1>6. FleetTypes' BY <1>1, <1>3, <1>4, <1>5 DEF FleetTypes
<1>7. FleetMap' BY <1>1, <1>2, <1>20, <1>4, <1>5 DEF FleetMap
<1>8. FleetFrames'
  BY <1>1, <1>2, <1>20, <1>3, <1>4 DEF FleetFrames, FleetAt, FleetOf, InHand, Building
<1>9. FleetTodo' BY <1>1, <1>2, <1>20, <1>3, <1>4 DEF FleetTodo
<1>10. FleetBuilding'
  <2>. SUFFICES ASSUME NEW q \in FleetCallers, requests'[q].pc \in Building
                PROVE  /\ actors'[requests'[q].self].thread = "none"
                       /\ \A r \in FleetCallers \ {q} :
                              requests'[r].pc \in Building
                                    => requests'[r].self # requests'[q].self
    BY DEF FleetBuilding, FleetAt, FleetOf
  <2>. QED
    BY <1>1, <1>2, <1>20, <1>3, <1>4
    DEF FleetBuilding, FleetFrames, FleetAt, FleetOf, InHand, Building
<1>11. Python!NoOrphanCamera'
  <2>1. \A b \in 1 .. Len(actors) : Python!SeesTo(p, b) => Python!SeesTo(p, b)'
    BY <1>2, <1>20, <1>3 DEF Python!SeesTo, Python!Me, Python!At, FleetAt, FleetOf
  <2>2. \A q \in FleetCallers, b \in 1 .. Len(actors) :
            q # p /\ Python!SeesTo(q, b) => Python!SeesTo(q, b)'
    BY <1>3 DEF Python!SeesTo, Python!Me, Python!At
  <2>. QED BY <1>1, <1>2, <1>20, <1>4, <1>5, <2>1, <2>2 DEF Python!NoOrphanCamera
<1>. QED BY <1>6, <1>7, <1>8, <1>9, <1>10, <1>11 DEF FleetInv

\* add_camera() finds the manager stopped, or the name taken.
LEMMA PythonAddRefused ==
    ASSUME FleetInv, NEW p \in FleetCallers, Python!AddRefused(p)
    PROVE  FleetInv'
<1>1. /\ FleetTypes /\ FleetMap /\ FleetFrames /\ FleetTodo /\ FleetBuilding
      /\ Python!NoOrphanCamera
  BY DEF FleetInv
<1>2. FleetAt(p) = "add"
  BY <1>1 DEF Python!AddRefused, Python!At, FleetFrames, FleetAt, FleetOf, InHand, Building
<1>3. /\ requests' \in [FleetCallers -> FleetCall]
      /\ \A q \in FleetCallers : q # p => requests'[q] = requests[q]
      /\ requests'[p].pc = "done"
      /\ requests'[p].op = requests[p].op /\ requests'[p].cam = requests[p].cam
      /\ requests'[p].self = requests[p].self /\ requests'[p].todo = requests[p].todo
  <2>. DEFINE r == [requests[p] EXCEPT !.pc = "done"]
  <2>1. requests \in [FleetCallers -> FleetCall] /\ requests[p] \in FleetCall
    BY <1>1 DEF FleetTypes
  <2>2. requests' = [requests EXCEPT ![p] = r]
    BY <1>2
    DEF Python!AddRefused, Python!Goto, Python!Me, Python!NoActor, Python!AddSucceeds,
        Python!Answered, FleetOf
  <2>3. "done" \in FleetPcs
    BY IngestAssumption, <1>1, <1>2 DEF FleetPcs, InHand, Building, FleetOps, FleetTypes, Todos
  <2>4. r \in FleetCall BY <1>2, <2>1, <2>3 DEF FleetCall
  <2>5. /\ r.pc = "done"
        /\ r.op = requests[p].op /\ r.cam = requests[p].cam /\ r.self = requests[p].self
        /\ r.todo = requests[p].todo
    BY <2>1 DEF FleetCall
  <2>. HIDE DEF r
  <2>6. /\ requests' \in [FleetCallers -> FleetCall] /\ requests'[p] = r
        /\ \A q \in FleetCallers : q # p => requests'[q] = requests[q]
    BY <2>1, <2>2, <2>4
  <2>. QED BY <2>5, <2>6
<1>4. UNCHANGED actors BY DEF Python!AddRefused
<1>5. UNCHANGED fleet BY DEF Python!AddRefused
<1>6. FleetTypes' BY <1>1, <1>3, <1>4, <1>5 DEF FleetTypes
<1>7. FleetMap' BY <1>1, <1>2, <1>4, <1>5 DEF FleetMap
<1>8. FleetFrames' BY <1>1, <1>2, <1>3, <1>4 DEF FleetFrames, FleetAt, FleetOf, InHand, Building
<1>9. FleetTodo' BY <1>1, <1>2, <1>3, <1>4 DEF FleetTodo
<1>10. FleetBuilding'
  <2>. SUFFICES ASSUME NEW q \in FleetCallers, requests'[q].pc \in Building
                PROVE  /\ actors'[requests'[q].self].thread = "none"
                       /\ \A r \in FleetCallers \ {q} :
                              requests'[r].pc \in Building
                                    => requests'[r].self # requests'[q].self
    BY DEF FleetBuilding, FleetAt, FleetOf
  <2>. QED
    BY <1>1, <1>2, <1>3, <1>4 DEF FleetBuilding, FleetFrames, FleetAt, FleetOf, InHand, Building
<1>11. Python!NoOrphanCamera'
  <2>1. \A b \in 1 .. Len(actors) : Python!SeesTo(p, b) => Python!SeesTo(p, b)'
    BY <1>2, <1>3 DEF Python!SeesTo, Python!Me, Python!At, FleetAt, FleetOf
  <2>2. \A q \in FleetCallers, b \in 1 .. Len(actors) :
            q # p /\ Python!SeesTo(q, b) => Python!SeesTo(q, b)'
    BY <1>3 DEF Python!SeesTo, Python!Me, Python!At
  <2>. QED BY <1>1, <1>2, <1>4, <1>5, <2>1, <2>2 DEF Python!NoOrphanCamera
<1>. QED BY <1>6, <1>7, <1>8, <1>9, <1>10, <1>11 DEF FleetInv

\* CameraActor.start() clears the stop event.
LEMMA PythonStartClears ==
    ASSUME FleetInv, NEW p \in FleetCallers, Python!StartClears(p)
    PROVE  FleetInv'
<1>. DEFINE a == FleetOf(p)
<1>1. /\ FleetTypes /\ FleetMap /\ FleetFrames /\ FleetTodo /\ FleetBuilding
      /\ Python!NoOrphanCamera
  BY DEF FleetInv
<1>2. FleetAt(p) = "clear" /\ a \in 1 .. Len(actors)
  BY <1>1 DEF Python!StartClears, Python!At, FleetFrames, FleetAt, FleetOf, InHand, Building
<1>20. actors[a].thread = "none" /\ \A q \in FleetCallers \ {p} : FleetAt(q) \in Building
             => FleetOf(q) # a
  BY <1>1, <1>2
  DEF Python!StartClears, Python!Me, Python!NoActor, FleetMap, FleetBuilding, FleetFrames,
      FleetAt, FleetOf, InHand, Building
<1>3. /\ requests' \in [FleetCallers -> FleetCall]
      /\ \A q \in FleetCallers : q # p => requests'[q] = requests[q]
      /\ requests'[p].pc = "spawn"
      /\ requests'[p].op = requests[p].op /\ requests'[p].cam = requests[p].cam
      /\ requests'[p].self = requests[p].self /\ requests'[p].todo = requests[p].todo
  <2>. DEFINE r == [requests[p] EXCEPT !.pc = "spawn"]
  <2>1. requests \in [FleetCallers -> FleetCall] /\ requests[p] \in FleetCall
    BY <1>1 DEF FleetTypes
  <2>2. requests' = [requests EXCEPT ![p] = r]
    BY <1>2, <1>20
    DEF Python!StartClears, Python!Goto, Python!Me, Python!NoActor, Python!AddSucceeds,
        Python!Answered, FleetOf
  <2>3. "spawn" \in FleetPcs
    BY IngestAssumption, <1>1, <1>2, <1>20
    DEF FleetPcs, InHand, Building, FleetOps, FleetTypes, Todos
  <2>4. r \in FleetCall BY <1>2, <1>20, <2>1, <2>3 DEF FleetCall
  <2>5. /\ r.pc = "spawn"
        /\ r.op = requests[p].op /\ r.cam = requests[p].cam /\ r.self = requests[p].self
        /\ r.todo = requests[p].todo
    BY <2>1 DEF FleetCall
  <2>. HIDE DEF r
  <2>6. /\ requests' \in [FleetCallers -> FleetCall] /\ requests'[p] = r
        /\ \A q \in FleetCallers : q # p => requests'[q] = requests[q]
    BY <2>1, <2>2, <2>4
  <2>. QED BY <2>5, <2>6
<1>4. /\ actors' \in Seq(FleetActor) /\ Len(actors') = Len(actors)
      /\ \A b \in 1 .. Len(actors) : b # a => actors'[b] = actors[b]
      /\ actors'[a].stop = FALSE
      /\ actors'[a].cam = actors[a].cam /\ actors'[a].thread = actors[a].thread
      /\ actors'[a].handle = actors[a].handle /\ actors'[a].abandoned = actors[a].abandoned
  <2>. DEFINE e == [actors[a] EXCEPT !.stop = FALSE]
  <2>1. actors \in Seq(FleetActor) /\ actors[a] \in FleetActor BY <1>1, <1>2 DEF FleetTypes
  <2>2. e \in FleetActor BY <2>1 DEF FleetActor
  <2>3. actors' = [actors EXCEPT ![a] = e] BY DEF Python!StartClears, Python!Me, FleetOf
  <2>. HIDE DEF e
  <2>4. /\ actors' \in Seq(FleetActor) /\ Len(actors') = Len(actors) /\ actors'[a] = e
        /\ \A b \in 1 .. Len(actors) : b # a => actors'[b] = actors[b]
    BY <1>2, <2>1, <2>2, <2>3, SeqPatch
  <2>. QED BY <2>1, <2>4 DEF FleetActor, e
<1>5. UNCHANGED fleet BY DEF Python!StartClears
<1>6. FleetTypes' BY <1>1, <1>3, <1>4, <1>5 DEF FleetTypes
<1>7. FleetMap' BY <1>1, <1>2, <1>20, <1>4, <1>5 DEF FleetMap
<1>8. FleetFrames'
  BY <1>1, <1>2, <1>20, <1>3, <1>4 DEF FleetFrames, FleetAt, FleetOf, InHand, Building
<1>9. FleetTodo' BY <1>1, <1>2, <1>20, <1>3, <1>4 DEF FleetTodo
<1>10. FleetBuilding'
  <2>. SUFFICES ASSUME NEW q \in FleetCallers, requests'[q].pc \in Building
                PROVE  /\ actors'[requests'[q].self].thread = "none"
                       /\ \A r \in FleetCallers \ {q} :
                              requests'[r].pc \in Building
                                    => requests'[r].self # requests'[q].self
    BY DEF FleetBuilding, FleetAt, FleetOf
  <2>. QED
    BY <1>1, <1>2, <1>20, <1>3, <1>4
    DEF FleetBuilding, FleetFrames, FleetAt, FleetOf, InHand, Building
<1>11. Python!NoOrphanCamera'
  <2>1. \A b \in 1 .. Len(actors) : Python!SeesTo(p, b) => Python!SeesTo(p, b)'
    BY <1>2, <1>20, <1>3 DEF Python!SeesTo, Python!Me, Python!At, FleetAt, FleetOf
  <2>2. \A q \in FleetCallers, b \in 1 .. Len(actors) :
            q # p /\ Python!SeesTo(q, b) => Python!SeesTo(q, b)'
    BY <1>3 DEF Python!SeesTo, Python!Me, Python!At
  <2>. QED BY <1>1, <1>2, <1>20, <1>4, <1>5, <2>1, <2>2 DEF Python!NoOrphanCamera
<1>. QED BY <1>6, <1>7, <1>8, <1>9, <1>10, <1>11 DEF FleetInv

\* CameraActor.start() starts the thread.
LEMMA PythonStartSpawns ==
    ASSUME FleetInv, NEW p \in FleetCallers, Python!StartSpawns(p)
    PROVE  FleetInv'
<1>. DEFINE a == FleetOf(p)
<1>1. /\ FleetTypes /\ FleetMap /\ FleetFrames /\ FleetTodo /\ FleetBuilding
      /\ Python!NoOrphanCamera
  BY DEF FleetInv
<1>2. FleetAt(p) = "spawn" /\ a \in 1 .. Len(actors)
  BY <1>1 DEF Python!StartSpawns, Python!At, FleetFrames, FleetAt, FleetOf, InHand, Building
<1>20. actors[a].thread = "none" /\ \A q \in FleetCallers \ {p} : FleetAt(q) \in Building
             => FleetOf(q) # a
  BY <1>1, <1>2
  DEF Python!StartSpawns, Python!Me, Python!NoActor, FleetMap, FleetBuilding, FleetFrames,
      FleetAt, FleetOf, InHand, Building
<1>3. /\ requests' \in [FleetCallers -> FleetCall]
      /\ \A q \in FleetCallers : q # p => requests'[q] = requests[q]
      /\ requests'[p].pc = "keep"
      /\ requests'[p].op = requests[p].op /\ requests'[p].cam = requests[p].cam
      /\ requests'[p].self = requests[p].self /\ requests'[p].todo = requests[p].todo
  <2>. DEFINE r == [requests[p] EXCEPT !.pc = "keep"]
  <2>1. requests \in [FleetCallers -> FleetCall] /\ requests[p] \in FleetCall
    BY <1>1 DEF FleetTypes
  <2>2. requests' = [requests EXCEPT ![p] = r]
    BY <1>2, <1>20
    DEF Python!StartSpawns, Python!Goto, Python!Me, Python!NoActor, Python!AddSucceeds,
        Python!Answered, FleetOf
  <2>3. "keep" \in FleetPcs
    BY IngestAssumption, <1>1, <1>2, <1>20
    DEF FleetPcs, InHand, Building, FleetOps, FleetTypes, Todos
  <2>4. r \in FleetCall BY <1>2, <1>20, <2>1, <2>3 DEF FleetCall
  <2>5. /\ r.pc = "keep"
        /\ r.op = requests[p].op /\ r.cam = requests[p].cam /\ r.self = requests[p].self
        /\ r.todo = requests[p].todo
    BY <2>1 DEF FleetCall
  <2>. HIDE DEF r
  <2>6. /\ requests' \in [FleetCallers -> FleetCall] /\ requests'[p] = r
        /\ \A q \in FleetCallers : q # p => requests'[q] = requests[q]
    BY <2>1, <2>2, <2>4
  <2>. QED BY <2>5, <2>6
<1>4. /\ actors' \in Seq(FleetActor) /\ Len(actors') = Len(actors)
      /\ \A b \in 1 .. Len(actors) : b # a => actors'[b] = actors[b]
      /\ actors'[a].thread = "running"
      /\ actors'[a].cam = actors[a].cam /\ actors'[a].stop = actors[a].stop
      /\ actors'[a].handle = actors[a].handle /\ actors'[a].abandoned = actors[a].abandoned
  <2>. DEFINE e == [actors[a] EXCEPT !.thread = "running"]
  <2>1. actors \in Seq(FleetActor) /\ actors[a] \in FleetActor BY <1>1, <1>2 DEF FleetTypes
  <2>2. e \in FleetActor BY <2>1 DEF FleetActor
  <2>3. actors' = [actors EXCEPT ![a] = e] BY DEF Python!StartSpawns, Python!Me, FleetOf
  <2>. HIDE DEF e
  <2>4. /\ actors' \in Seq(FleetActor) /\ Len(actors') = Len(actors) /\ actors'[a] = e
        /\ \A b \in 1 .. Len(actors) : b # a => actors'[b] = actors[b]
    BY <1>2, <2>1, <2>2, <2>3, SeqPatch
  <2>. QED BY <2>1, <2>4 DEF FleetActor, e
<1>5. UNCHANGED fleet BY DEF Python!StartSpawns
<1>6. FleetTypes' BY <1>1, <1>3, <1>4, <1>5 DEF FleetTypes
<1>7. FleetMap' BY <1>1, <1>2, <1>20, <1>4, <1>5 DEF FleetMap
<1>8. FleetFrames'
  BY SMTT(30), <1>1, <1>2, <1>20, <1>3, <1>4 DEF FleetFrames, FleetAt, FleetOf, InHand, Building
<1>9. FleetTodo' BY <1>1, <1>2, <1>20, <1>3, <1>4 DEF FleetTodo
<1>10. FleetBuilding'
  <2>. SUFFICES ASSUME NEW q \in FleetCallers, requests'[q].pc \in Building
                PROVE  /\ actors'[requests'[q].self].thread = "none"
                       /\ \A r \in FleetCallers \ {q} :
                              requests'[r].pc \in Building
                                    => requests'[r].self # requests'[q].self
    BY DEF FleetBuilding, FleetAt, FleetOf
  <2>. QED
    BY <1>1, <1>2, <1>20, <1>3, <1>4
    DEF FleetBuilding, FleetFrames, FleetAt, FleetOf, InHand, Building
<1>11. Python!NoOrphanCamera'
  <2>1. \A b \in 1 .. Len(actors) : b = a \/ Python!SeesTo(p, b) => Python!SeesTo(p, b)'
    BY <1>2, <1>20, <1>3 DEF Python!SeesTo, Python!Me, Python!At, FleetAt, FleetOf
  <2>2. \A q \in FleetCallers, b \in 1 .. Len(actors) :
            q # p /\ Python!SeesTo(q, b) => Python!SeesTo(q, b)'
    BY <1>3 DEF Python!SeesTo, Python!Me, Python!At
  <2>. QED BY <1>1, <1>2, <1>20, <1>4, <1>5, <2>1, <2>2 DEF Python!NoOrphanCamera
<1>. QED BY <1>6, <1>7, <1>8, <1>9, <1>10, <1>11 DEF FleetInv

\* CameraActor.start() keeps the thread it started.
LEMMA PythonStartKeeps ==
    ASSUME FleetInv, NEW p \in FleetCallers, Python!StartKeeps(p)
    PROVE  FleetInv'
<1>. DEFINE a == FleetOf(p)
<1>1. /\ FleetTypes /\ FleetMap /\ FleetFrames /\ FleetTodo /\ FleetBuilding
      /\ Python!NoOrphanCamera
  BY DEF FleetInv
<1>2. FleetAt(p) = "keep" /\ a \in 1 .. Len(actors)
  BY <1>1 DEF Python!StartKeeps, Python!At, FleetFrames, FleetAt, FleetOf, InHand, Building
<1>3. /\ requests' \in [FleetCallers -> FleetCall]
      /\ \A q \in FleetCallers : q # p => requests'[q] = requests[q]
      /\ requests'[p].pc = "recheck"
      /\ requests'[p].op = requests[p].op /\ requests'[p].cam = requests[p].cam
      /\ requests'[p].self = requests[p].self /\ requests'[p].todo = requests[p].todo
  <2>. DEFINE r == [requests[p] EXCEPT !.pc = "recheck"]
  <2>1. requests \in [FleetCallers -> FleetCall] /\ requests[p] \in FleetCall
    BY <1>1 DEF FleetTypes
  <2>2. requests' = [requests EXCEPT ![p] = r]
    BY <1>2
    DEF Python!StartKeeps, Python!Goto, Python!Me, Python!NoActor, Python!AddSucceeds,
        Python!Answered, FleetOf
  <2>3. "recheck" \in FleetPcs
    BY IngestAssumption, <1>1, <1>2 DEF FleetPcs, InHand, Building, FleetOps, FleetTypes, Todos
  <2>4. r \in FleetCall BY <1>2, <2>1, <2>3 DEF FleetCall
  <2>5. /\ r.pc = "recheck"
        /\ r.op = requests[p].op /\ r.cam = requests[p].cam /\ r.self = requests[p].self
        /\ r.todo = requests[p].todo
    BY <2>1 DEF FleetCall
  <2>. HIDE DEF r
  <2>6. /\ requests' \in [FleetCallers -> FleetCall] /\ requests'[p] = r
        /\ \A q \in FleetCallers : q # p => requests'[q] = requests[q]
    BY <2>1, <2>2, <2>4
  <2>. QED BY <2>5, <2>6
<1>4. /\ actors' \in Seq(FleetActor) /\ Len(actors') = Len(actors)
      /\ \A b \in 1 .. Len(actors) : b # a => actors'[b] = actors[b]
      /\ actors'[a].handle = TRUE
      /\ actors'[a].cam = actors[a].cam /\ actors'[a].stop = actors[a].stop
      /\ actors'[a].thread = actors[a].thread /\ actors'[a].abandoned = actors[a].abandoned
  <2>. DEFINE e == [actors[a] EXCEPT !.handle = TRUE]
  <2>1. actors \in Seq(FleetActor) /\ actors[a] \in FleetActor BY <1>1, <1>2 DEF FleetTypes
  <2>2. e \in FleetActor BY <2>1 DEF FleetActor
  <2>3. actors' = [actors EXCEPT ![a] = e] BY DEF Python!StartKeeps, Python!Me, FleetOf
  <2>. HIDE DEF e
  <2>4. /\ actors' \in Seq(FleetActor) /\ Len(actors') = Len(actors) /\ actors'[a] = e
        /\ \A b \in 1 .. Len(actors) : b # a => actors'[b] = actors[b]
    BY <1>2, <2>1, <2>2, <2>3, SeqPatch
  <2>. QED BY <2>1, <2>4 DEF FleetActor, e
<1>5. UNCHANGED fleet BY DEF Python!StartKeeps
<1>6. FleetTypes' BY <1>1, <1>3, <1>4, <1>5 DEF FleetTypes
<1>7. FleetMap' BY <1>1, <1>2, <1>4, <1>5 DEF FleetMap
<1>8. FleetFrames'
  BY SMTT(30), <1>1, <1>2, <1>3, <1>4 DEF FleetFrames, FleetAt, FleetOf, InHand, Building
<1>9. FleetTodo' BY <1>1, <1>2, <1>3, <1>4 DEF FleetTodo
<1>10. FleetBuilding'
  <2>. SUFFICES ASSUME NEW q \in FleetCallers, requests'[q].pc \in Building
                PROVE  /\ actors'[requests'[q].self].thread = "none"
                       /\ \A r \in FleetCallers \ {q} :
                              requests'[r].pc \in Building
                                    => requests'[r].self # requests'[q].self
    BY DEF FleetBuilding, FleetAt, FleetOf
  <2>. QED
    BY <1>1, <1>2, <1>3, <1>4 DEF FleetBuilding, FleetFrames, FleetAt, FleetOf, InHand, Building
<1>11. Python!NoOrphanCamera'
  <2>1. \A b \in 1 .. Len(actors) : Python!SeesTo(p, b) => Python!SeesTo(p, b)'
    BY <1>2, <1>3 DEF Python!SeesTo, Python!Me, Python!At, FleetAt, FleetOf
  <2>2. \A q \in FleetCallers, b \in 1 .. Len(actors) :
            q # p /\ Python!SeesTo(q, b) => Python!SeesTo(q, b)'
    BY <1>3 DEF Python!SeesTo, Python!Me, Python!At
  <2>. QED BY <1>1, <1>2, <1>4, <1>5, <2>1, <2>2 DEF Python!NoOrphanCamera
<1>. QED BY <1>6, <1>7, <1>8, <1>9, <1>10, <1>11 DEF FleetInv

\* The camera is still the one that was added.
LEMMA PythonRecheckKept ==
    ASSUME FleetInv, NEW p \in FleetCallers, Python!Recheck(p),
           fleet.map[requests[p].cam] = FleetOf(p)
    PROVE  FleetInv'
<1>. DEFINE a == FleetOf(p)
<1>1. /\ FleetTypes /\ FleetMap /\ FleetFrames /\ FleetTodo /\ FleetBuilding
      /\ Python!NoOrphanCamera
  BY DEF FleetInv
<1>2. FleetAt(p) = "recheck" /\ a \in 1 .. Len(actors)
  BY <1>1 DEF Python!Recheck, Python!At, FleetFrames, FleetAt, FleetOf, InHand, Building
<1>20. actors[a].cam = requests[p].cam
  BY <1>1, <1>2
  DEF Python!Recheck, Python!Me, Python!NoActor, FleetMap, FleetBuilding, FleetFrames, FleetAt,
      FleetOf, InHand, Building
<1>3. /\ requests' \in [FleetCallers -> FleetCall]
      /\ \A q \in FleetCallers : q # p => requests'[q] = requests[q]
      /\ requests'[p].pc = (IF requests[p].op = "start" THEN "next" ELSE "done")
      /\ requests'[p].op = requests[p].op /\ requests'[p].cam = requests[p].cam
      /\ requests'[p].self = requests[p].self /\ requests'[p].todo = requests[p].todo
  <2>. DEFINE r == [requests[p] EXCEPT !.pc = (IF requests[p].op = "start" THEN "next" ELSE "done")]
  <2>1. requests \in [FleetCallers -> FleetCall] /\ requests[p] \in FleetCall
    BY <1>1 DEF FleetTypes
  <2>2. requests' = [requests EXCEPT ![p] = r]
    BY <1>2, <1>20
    DEF Python!Recheck, Python!Goto, Python!Me, Python!NoActor, Python!AddSucceeds,
        Python!Answered, FleetOf
  <2>3. (IF requests[p].op = "start" THEN "next" ELSE "done") \in FleetPcs
    BY IngestAssumption, <1>1, <1>2, <1>20
    DEF FleetPcs, InHand, Building, FleetOps, FleetTypes, Todos
  <2>4. r \in FleetCall BY <1>2, <1>20, <2>1, <2>3 DEF FleetCall
  <2>5. /\ r.pc = (IF requests[p].op = "start" THEN "next" ELSE "done")
        /\ r.op = requests[p].op /\ r.cam = requests[p].cam /\ r.self = requests[p].self
        /\ r.todo = requests[p].todo
    BY <2>1 DEF FleetCall
  <2>. HIDE DEF r
  <2>6. /\ requests' \in [FleetCallers -> FleetCall] /\ requests'[p] = r
        /\ \A q \in FleetCallers : q # p => requests'[q] = requests[q]
    BY <2>1, <2>2, <2>4
  <2>. QED BY <2>5, <2>6
<1>4. UNCHANGED actors BY DEF Python!Recheck
<1>5. UNCHANGED fleet BY DEF Python!Recheck
<1>6. FleetTypes' BY <1>1, <1>3, <1>4, <1>5 DEF FleetTypes
<1>7. FleetMap' BY <1>1, <1>2, <1>20, <1>4, <1>5 DEF FleetMap
<1>8. FleetFrames'
  BY <1>1, <1>2, <1>20, <1>3, <1>4 DEF FleetFrames, FleetAt, FleetOf, InHand, Building
<1>9. FleetTodo' BY <1>1, <1>2, <1>20, <1>3, <1>4 DEF FleetTodo
<1>10. FleetBuilding'
  <2>. SUFFICES ASSUME NEW q \in FleetCallers, requests'[q].pc \in Building
                PROVE  /\ actors'[requests'[q].self].thread = "none"
                       /\ \A r \in FleetCallers \ {q} :
                              requests'[r].pc \in Building
                                    => requests'[r].self # requests'[q].self
    BY DEF FleetBuilding, FleetAt, FleetOf
  <2>. QED
    BY <1>1, <1>2, <1>20, <1>3, <1>4
    DEF FleetBuilding, FleetFrames, FleetAt, FleetOf, InHand, Building
<1>11. Python!NoOrphanCamera'
  <2>1. \A b \in 1 .. Len(actors) : b # a /\ Python!SeesTo(p, b) => Python!SeesTo(p, b)'
    BY <1>2, <1>20, <1>3 DEF Python!SeesTo, Python!Me, Python!At, FleetAt, FleetOf
  <2>2. \A q \in FleetCallers, b \in 1 .. Len(actors) :
            q # p /\ Python!SeesTo(q, b) => Python!SeesTo(q, b)'
    BY <1>3 DEF Python!SeesTo, Python!Me, Python!At
  <2>. QED BY <1>1, <1>2, <1>20, <1>4, <1>5, <2>1, <2>2 DEF Python!NoOrphanCamera
<1>. QED BY <1>6, <1>7, <1>8, <1>9, <1>10, <1>11 DEF FleetInv

\* The camera was removed while it started: the caller stops it.
LEMMA PythonRecheckLost ==
    ASSUME FleetInv, NEW p \in FleetCallers, Python!Recheck(p),
           fleet.map[requests[p].cam] # FleetOf(p)
    PROVE  FleetInv'
<1>. DEFINE a == FleetOf(p)
<1>1. /\ FleetTypes /\ FleetMap /\ FleetFrames /\ FleetTodo /\ FleetBuilding
      /\ Python!NoOrphanCamera
  BY DEF FleetInv
<1>2. FleetAt(p) = "recheck" /\ a \in 1 .. Len(actors)
  BY <1>1 DEF Python!Recheck, Python!At, FleetFrames, FleetAt, FleetOf, InHand, Building
<1>3. /\ requests' \in [FleetCallers -> FleetCall]
      /\ \A q \in FleetCallers : q # p => requests'[q] = requests[q]
      /\ requests'[p].pc = "ask" /\ requests'[p].todo = <<>>
      /\ requests'[p].op = requests[p].op /\ requests'[p].cam = requests[p].cam
      /\ requests'[p].self = requests[p].self
  <2>. DEFINE r == [requests[p] EXCEPT !.pc = "ask", !.todo = <<>>]
  <2>1. requests \in [FleetCallers -> FleetCall] /\ requests[p] \in FleetCall
    BY <1>1 DEF FleetTypes
  <2>2. requests' = [requests EXCEPT ![p] = r]
    BY <1>2
    DEF Python!Recheck, Python!Goto, Python!Me, Python!NoActor, Python!AddSucceeds,
        Python!Answered, FleetOf
  <2>3. "ask" \in FleetPcs /\ <<>> \in Todos
    BY IngestAssumption, <1>1, <1>2 DEF FleetPcs, InHand, Building, FleetOps, FleetTypes, Todos
  <2>4. r \in FleetCall BY <1>2, <2>1, <2>3 DEF FleetCall
  <2>5. /\ r.pc = "ask" /\ r.todo = <<>>
        /\ r.op = requests[p].op /\ r.cam = requests[p].cam /\ r.self = requests[p].self
    BY <2>1 DEF FleetCall
  <2>. HIDE DEF r
  <2>6. /\ requests' \in [FleetCallers -> FleetCall] /\ requests'[p] = r
        /\ \A q \in FleetCallers : q # p => requests'[q] = requests[q]
    BY <2>1, <2>2, <2>4
  <2>. QED BY <2>5, <2>6
<1>4. UNCHANGED actors BY DEF Python!Recheck
<1>5. UNCHANGED fleet BY DEF Python!Recheck
<1>6. FleetTypes' BY <1>1, <1>3, <1>4, <1>5 DEF FleetTypes
<1>7. FleetMap' BY <1>1, <1>2, <1>4, <1>5 DEF FleetMap
<1>8. FleetFrames' BY <1>1, <1>2, <1>3, <1>4 DEF FleetFrames, FleetAt, FleetOf, InHand, Building
<1>9. FleetTodo' BY <1>1, <1>2, <1>3, <1>4 DEF FleetTodo
<1>10. FleetBuilding'
  <2>. SUFFICES ASSUME NEW q \in FleetCallers, requests'[q].pc \in Building
                PROVE  /\ actors'[requests'[q].self].thread = "none"
                       /\ \A r \in FleetCallers \ {q} :
                              requests'[r].pc \in Building
                                    => requests'[r].self # requests'[q].self
    BY DEF FleetBuilding, FleetAt, FleetOf
  <2>. QED
    BY <1>1, <1>2, <1>3, <1>4 DEF FleetBuilding, FleetFrames, FleetAt, FleetOf, InHand, Building
<1>11. Python!NoOrphanCamera'
  <2>1. \A b \in 1 .. Len(actors) : Python!SeesTo(p, b) => Python!SeesTo(p, b)'
    BY <1>2, <1>3 DEF Python!SeesTo, Python!Me, Python!At, FleetAt, FleetOf
  <2>2. \A q \in FleetCallers, b \in 1 .. Len(actors) :
            q # p /\ Python!SeesTo(q, b) => Python!SeesTo(q, b)'
    BY <1>3 DEF Python!SeesTo, Python!Me, Python!At
  <2>. QED BY <1>1, <1>2, <1>4, <1>5, <2>1, <2>2 DEF Python!NoOrphanCamera
<1>. QED BY <1>6, <1>7, <1>8, <1>9, <1>10, <1>11 DEF FleetInv

\* remove_camera() of a name the manager does not have.
LEMMA PythonCallRemoveNone ==
    ASSUME FleetInv, NEW p \in FleetCallers, NEW cam \in FleetCameras, Python!CallRemove(p, cam),
           fleet.map[cam] = 0
    PROVE  FleetInv'
<1>1. /\ FleetTypes /\ FleetMap /\ FleetFrames /\ FleetTodo /\ FleetBuilding
      /\ Python!NoOrphanCamera
  BY DEF FleetInv
<1>2. FleetAt(p) = "idle"
  BY <1>1 DEF Python!CallRemove, Python!At, FleetFrames, FleetAt, FleetOf, InHand, Building
<1>3. /\ requests' \in [FleetCallers -> FleetCall]
      /\ \A q \in FleetCallers : q # p => requests'[q] = requests[q]
      /\ requests'[p].pc = "done"
      /\ requests'[p].op = requests[p].op /\ requests'[p].cam = requests[p].cam
      /\ requests'[p].self = requests[p].self /\ requests'[p].todo = requests[p].todo
  <2>. DEFINE r == [requests[p] EXCEPT !.pc = "done"]
  <2>1. requests \in [FleetCallers -> FleetCall] /\ requests[p] \in FleetCall
    BY <1>1 DEF FleetTypes
  <2>2. requests' = [requests EXCEPT ![p] = r]
    BY <1>2
    DEF Python!CallRemove, Python!Goto, Python!Me, Python!NoActor, Python!AddSucceeds,
        Python!Answered, FleetOf
  <2>3. "done" \in FleetPcs
    BY IngestAssumption, <1>1, <1>2 DEF FleetPcs, InHand, Building, FleetOps, FleetTypes, Todos
  <2>4. r \in FleetCall BY <1>2, <2>1, <2>3 DEF FleetCall
  <2>5. /\ r.pc = "done"
        /\ r.op = requests[p].op /\ r.cam = requests[p].cam /\ r.self = requests[p].self
        /\ r.todo = requests[p].todo
    BY <2>1 DEF FleetCall
  <2>. HIDE DEF r
  <2>6. /\ requests' \in [FleetCallers -> FleetCall] /\ requests'[p] = r
        /\ \A q \in FleetCallers : q # p => requests'[q] = requests[q]
    BY <2>1, <2>2, <2>4
  <2>. QED BY <2>5, <2>6
<1>4. UNCHANGED actors BY DEF Python!CallRemove
<1>5. /\ fleet' \in [map : [FleetCameras -> Nat], started : BOOLEAN]
      /\ fleet'.map = fleet.map
  BY <1>1, <1>2 DEF Python!CallRemove, Python!NoActor, FleetTypes
<1>6. FleetTypes' BY <1>1, <1>3, <1>4, <1>5 DEF FleetTypes
<1>7. FleetMap' BY <1>1, <1>2, <1>4, <1>5 DEF FleetMap
<1>8. FleetFrames' BY <1>1, <1>2, <1>3, <1>4 DEF FleetFrames, FleetAt, FleetOf, InHand, Building
<1>9. FleetTodo' BY <1>1, <1>2, <1>3, <1>4 DEF FleetTodo
<1>10. FleetBuilding'
  <2>. SUFFICES ASSUME NEW q \in FleetCallers, requests'[q].pc \in Building
                PROVE  /\ actors'[requests'[q].self].thread = "none"
                       /\ \A r \in FleetCallers \ {q} :
                              requests'[r].pc \in Building
                                    => requests'[r].self # requests'[q].self
    BY DEF FleetBuilding, FleetAt, FleetOf
  <2>. QED
    BY <1>1, <1>2, <1>3, <1>4 DEF FleetBuilding, FleetFrames, FleetAt, FleetOf, InHand, Building
<1>11. Python!NoOrphanCamera'
  <2>1. \A b \in 1 .. Len(actors) : Python!SeesTo(p, b) => Python!SeesTo(p, b)'
    BY <1>2, <1>3 DEF Python!SeesTo, Python!Me, Python!At, FleetAt, FleetOf
  <2>2. \A q \in FleetCallers, b \in 1 .. Len(actors) :
            q # p /\ Python!SeesTo(q, b) => Python!SeesTo(q, b)'
    BY <1>3 DEF Python!SeesTo, Python!Me, Python!At
  <2>. QED BY <1>1, <1>2, <1>4, <1>5, <2>1, <2>2 DEF Python!NoOrphanCamera
<1>. QED BY <1>6, <1>7, <1>8, <1>9, <1>10, <1>11 DEF FleetInv

\* remove_camera() takes the actor out of the map.
LEMMA PythonCallRemove ==
    ASSUME FleetInv, NEW p \in FleetCallers, NEW cam \in FleetCameras, Python!CallRemove(p, cam),
           fleet.map[cam] # 0
    PROVE  FleetInv'
<1>1. /\ FleetTypes /\ FleetMap /\ FleetFrames /\ FleetTodo /\ FleetBuilding
      /\ Python!NoOrphanCamera
  BY DEF FleetInv
<1>2. FleetAt(p) = "idle"
  BY <1>1 DEF Python!CallRemove, Python!At, FleetFrames, FleetAt, FleetOf, InHand, Building
<1>20. /\ requests[p].op = "none" /\ fleet.map[cam] \in 1 .. Len(actors)
       /\ actors[fleet.map[cam]].cam = cam
  BY <1>1, <1>2
  DEF Python!CallRemove, Python!Me, Python!NoActor, FleetMap, FleetBuilding, FleetFrames,
      FleetAt, FleetOf, InHand, Building
<1>3. /\ requests' \in [FleetCallers -> FleetCall]
      /\ \A q \in FleetCallers : q # p => requests'[q] = requests[q]
      /\ requests'[p].op = "remove" /\ requests'[p].pc = "ask" /\ requests'[p].cam = cam
      /\ requests'[p].self = fleet.map[cam]
      /\ requests'[p].todo = requests[p].todo
  <2>. DEFINE r == [requests[p] EXCEPT !.op = "remove", !.pc = "ask", !.cam = cam,
             !.self = fleet.map[cam]]
  <2>1. requests \in [FleetCallers -> FleetCall] /\ requests[p] \in FleetCall
    BY <1>1 DEF FleetTypes
  <2>2. requests' = [requests EXCEPT ![p] = r]
    BY <1>2, <1>20
    DEF Python!CallRemove, Python!Goto, Python!Me, Python!NoActor, Python!AddSucceeds,
        Python!Answered, FleetOf
  <2>3. "ask" \in FleetPcs /\ "remove" \in FleetOps /\ fleet.map[cam] \in Nat
    BY IngestAssumption, <1>1, <1>2, <1>20
    DEF FleetPcs, InHand, Building, FleetOps, FleetTypes, Todos
  <2>4. r \in FleetCall BY <1>2, <1>20, <2>1, <2>3 DEF FleetCall
  <2>5. /\ r.op = "remove" /\ r.pc = "ask" /\ r.cam = cam /\ r.self = fleet.map[cam]
        /\ r.todo = requests[p].todo
    BY <2>1 DEF FleetCall
  <2>. HIDE DEF r
  <2>6. /\ requests' \in [FleetCallers -> FleetCall] /\ requests'[p] = r
        /\ \A q \in FleetCallers : q # p => requests'[q] = requests[q]
    BY <2>1, <2>2, <2>4
  <2>. QED BY <2>5, <2>6
<1>4. UNCHANGED actors BY DEF Python!CallRemove
<1>5. /\ fleet' \in [map : [FleetCameras -> Nat], started : BOOLEAN]
      /\ \A c \in FleetCameras : fleet'.map[c] = IF c = cam THEN 0 ELSE fleet.map[c]
  BY <1>1, <1>2 DEF Python!CallRemove, Python!NoActor, FleetTypes
<1>6. FleetTypes' BY <1>1, <1>3, <1>4, <1>5 DEF FleetTypes
<1>7. FleetMap' BY <1>1, <1>2, <1>20, <1>4, <1>5 DEF FleetMap
<1>8. FleetFrames'
  BY <1>1, <1>2, <1>20, <1>3, <1>4 DEF FleetFrames, FleetAt, FleetOf, InHand, Building
<1>9. FleetTodo' BY <1>1, <1>2, <1>20, <1>3, <1>4 DEF FleetTodo
<1>10. FleetBuilding'
  <2>. SUFFICES ASSUME NEW q \in FleetCallers, requests'[q].pc \in Building
                PROVE  /\ actors'[requests'[q].self].thread = "none"
                       /\ \A r \in FleetCallers \ {q} :
                              requests'[r].pc \in Building
                                    => requests'[r].self # requests'[q].self
    BY DEF FleetBuilding, FleetAt, FleetOf
  <2>. QED
    BY <1>1, <1>2, <1>20, <1>3, <1>4
    DEF FleetBuilding, FleetFrames, FleetAt, FleetOf, InHand, Building
<1>11. Python!NoOrphanCamera'
  <2>1. \A b \in 1 .. Len(actors) : b = fleet.map[cam] \/ Python!SeesTo(p, b)
              => Python!SeesTo(p, b)'
    BY <1>2, <1>20, <1>3 DEF Python!SeesTo, Python!Me, Python!At, FleetAt, FleetOf
  <2>2. \A q \in FleetCallers, b \in 1 .. Len(actors) :
            q # p /\ Python!SeesTo(q, b) => Python!SeesTo(q, b)'
    BY <1>3 DEF Python!SeesTo, Python!Me, Python!At
  <2>3. \A b \in 1 .. Len(actors) : actors[b].cam \in FleetCameras
    BY <1>1, FleetActorTypes
  <2>. QED BY <2>3, <1>1, <1>2, <1>20, <1>4, <1>5, <2>1, <2>2 DEF Python!NoOrphanCamera
<1>. QED BY <1>6, <1>7, <1>8, <1>9, <1>10, <1>11 DEF FleetInv

\* stop() takes the next of the actors it took out.
LEMMA PythonStopNext ==
    ASSUME FleetInv, NEW p \in FleetCallers, Python!StopNext(p)
    PROVE  FleetInv'
<1>1. /\ FleetTypes /\ FleetMap /\ FleetFrames /\ FleetTodo /\ FleetBuilding
      /\ Python!NoOrphanCamera
  BY DEF FleetInv
<1>2. FleetAt(p) = "stopnext"
  BY <1>1 DEF Python!StopNext, Python!At, FleetFrames, FleetAt, FleetOf, InHand, Building
<1>20. /\ requests[p].op = "stop" /\ requests[p].todo # <<>>
       /\ Head(requests[p].todo) \in 1 .. Len(actors)
       /\ Tail(requests[p].todo) \in Todos
       /\ \A j \in DOMAIN Tail(requests[p].todo) : Tail(requests[p].todo)[j] \in 1 .. Len(actors)
  <2>1. requests[p].todo \in Seq(FleetCameras \cup Nat) /\ requests[p].op = "stop"
              /\ requests[p].todo # <<>>
    BY <1>1, <1>2 DEF Python!StopNext, FleetTypes, FleetCall, FleetFrames, FleetAt, Todos
  <2>. DEFINE s == requests[p].todo
  <2>2. /\ 1 \in DOMAIN s /\ Head(s) = s[1] /\ Head(s) \in FleetCameras \cup Nat
        /\ Tail(s) \in Seq(FleetCameras \cup Nat)
        /\ \A j \in DOMAIN Tail(s) : j + 1 \in DOMAIN s /\ Tail(s)[j] = s[j + 1]
        /\ \A i \in DOMAIN s : i # 1 => i - 1 \in DOMAIN Tail(s) /\ Tail(s)[i - 1] = s[i]
    BY <2>1, PopFacts
  <2>3. \A i \in DOMAIN s : s[i] \in 1 .. Len(actors)
    BY <1>1, <2>1 DEF FleetTodo
  <2>. HIDE DEF s
  <2>. QED BY <1>1, <2>1, <2>2, <2>3 DEF Todos, s
<1>3. /\ requests' \in [FleetCallers -> FleetCall]
      /\ \A q \in FleetCallers : q # p => requests'[q] = requests[q]
      /\ requests'[p].pc = "ask" /\ requests'[p].self = Head(requests[p].todo)
      /\ requests'[p].todo = Tail(requests[p].todo)
      /\ requests'[p].op = requests[p].op /\ requests'[p].cam = requests[p].cam
  <2>. DEFINE r == [requests[p] EXCEPT !.pc = "ask", !.self = Head(requests[p].todo),
             !.todo = Tail(requests[p].todo)]
  <2>1. requests \in [FleetCallers -> FleetCall] /\ requests[p] \in FleetCall
    BY <1>1 DEF FleetTypes
  <2>2. requests' = [requests EXCEPT ![p] = r]
    BY <1>2, <1>20
    DEF Python!StopNext, Python!Goto, Python!Me, Python!NoActor, Python!AddSucceeds,
        Python!Answered, FleetOf
  <2>3. "ask" \in FleetPcs /\ Head(requests[p].todo) \in Nat /\ Tail(requests[p].todo) \in Todos
    BY IngestAssumption, <1>1, <1>2, <1>20
    DEF FleetPcs, InHand, Building, FleetOps, FleetTypes, Todos
  <2>4. r \in FleetCall BY <1>2, <1>20, <2>1, <2>3 DEF FleetCall
  <2>5. /\ r.pc = "ask" /\ r.self = Head(requests[p].todo) /\ r.todo = Tail(requests[p].todo)
        /\ r.op = requests[p].op /\ r.cam = requests[p].cam
    BY <2>1 DEF FleetCall
  <2>. HIDE DEF r
  <2>6. /\ requests' \in [FleetCallers -> FleetCall] /\ requests'[p] = r
        /\ \A q \in FleetCallers : q # p => requests'[q] = requests[q]
    BY <2>1, <2>2, <2>4
  <2>. QED BY <2>5, <2>6
<1>4. UNCHANGED actors BY DEF Python!StopNext
<1>5. UNCHANGED fleet BY DEF Python!StopNext
<1>6. FleetTypes' BY <1>1, <1>3, <1>4, <1>5 DEF FleetTypes
<1>7. FleetMap' BY <1>1, <1>2, <1>20, <1>4, <1>5 DEF FleetMap
<1>8. FleetFrames'
  BY <1>1, <1>2, <1>20, <1>3, <1>4 DEF FleetFrames, FleetAt, FleetOf, InHand, Building
<1>9. FleetTodo' BY <1>1, <1>2, <1>20, <1>3, <1>4 DEF FleetTodo
<1>10. FleetBuilding'
  <2>. SUFFICES ASSUME NEW q \in FleetCallers, requests'[q].pc \in Building
                PROVE  /\ actors'[requests'[q].self].thread = "none"
                       /\ \A r \in FleetCallers \ {q} :
                              requests'[r].pc \in Building
                                    => requests'[r].self # requests'[q].self
    BY DEF FleetBuilding, FleetAt, FleetOf
  <2>. QED
    BY <1>1, <1>2, <1>20, <1>3, <1>4
    DEF FleetBuilding, FleetFrames, FleetAt, FleetOf, InHand, Building
<1>11. Python!NoOrphanCamera'
  <2>1. \A b \in 1 .. Len(actors) : Python!SeesTo(p, b) => Python!SeesTo(p, b)'
    BY <1>2, <1>20, <1>3 DEF Python!SeesTo, Python!Me, Python!At, FleetAt, FleetOf
  <2>2. \A q \in FleetCallers, b \in 1 .. Len(actors) :
            q # p /\ Python!SeesTo(q, b) => Python!SeesTo(q, b)'
    BY <1>3 DEF Python!SeesTo, Python!Me, Python!At
  <2>. QED BY <1>1, <1>2, <1>20, <1>4, <1>5, <2>1, <2>2 DEF Python!NoOrphanCamera
<1>. QED BY <1>6, <1>7, <1>8, <1>9, <1>10, <1>11 DEF FleetInv

\* stop() has seen to its last actor.
LEMMA PythonStopEnds ==
    ASSUME FleetInv, NEW p \in FleetCallers, Python!StopEnds(p)
    PROVE  FleetInv'
<1>1. /\ FleetTypes /\ FleetMap /\ FleetFrames /\ FleetTodo /\ FleetBuilding
      /\ Python!NoOrphanCamera
  BY DEF FleetInv
<1>2. FleetAt(p) = "stopnext"
  BY <1>1 DEF Python!StopEnds, Python!At, FleetFrames, FleetAt, FleetOf, InHand, Building
<1>3. /\ requests' \in [FleetCallers -> FleetCall]
      /\ \A q \in FleetCallers : q # p => requests'[q] = requests[q]
      /\ requests'[p].pc = "done"
      /\ requests'[p].op = requests[p].op /\ requests'[p].cam = requests[p].cam
      /\ requests'[p].self = requests[p].self /\ requests'[p].todo = requests[p].todo
  <2>. DEFINE r == [requests[p] EXCEPT !.pc = "done"]
  <2>1. requests \in [FleetCallers -> FleetCall] /\ requests[p] \in FleetCall
    BY <1>1 DEF FleetTypes
  <2>2. requests' = [requests EXCEPT ![p] = r]
    BY <1>2
    DEF Python!StopEnds, Python!Goto, Python!Me, Python!NoActor, Python!AddSucceeds,
        Python!Answered, FleetOf
  <2>3. "done" \in FleetPcs
    BY IngestAssumption, <1>1, <1>2 DEF FleetPcs, InHand, Building, FleetOps, FleetTypes, Todos
  <2>4. r \in FleetCall BY <1>2, <2>1, <2>3 DEF FleetCall
  <2>5. /\ r.pc = "done"
        /\ r.op = requests[p].op /\ r.cam = requests[p].cam /\ r.self = requests[p].self
        /\ r.todo = requests[p].todo
    BY <2>1 DEF FleetCall
  <2>. HIDE DEF r
  <2>6. /\ requests' \in [FleetCallers -> FleetCall] /\ requests'[p] = r
        /\ \A q \in FleetCallers : q # p => requests'[q] = requests[q]
    BY <2>1, <2>2, <2>4
  <2>. QED BY <2>5, <2>6
<1>4. UNCHANGED actors BY DEF Python!StopEnds
<1>5. /\ fleet' \in [map : [FleetCameras -> Nat], started : BOOLEAN]
      /\ fleet'.map = fleet.map
  BY <1>1, <1>2 DEF Python!StopEnds, Python!NoActor, FleetTypes
<1>6. FleetTypes' BY <1>1, <1>3, <1>4, <1>5 DEF FleetTypes
<1>7. FleetMap' BY <1>1, <1>2, <1>4, <1>5 DEF FleetMap
<1>8. FleetFrames' BY <1>1, <1>2, <1>3, <1>4 DEF FleetFrames, FleetAt, FleetOf, InHand, Building
<1>9. FleetTodo' BY <1>1, <1>2, <1>3, <1>4 DEF FleetTodo
<1>10. FleetBuilding'
  <2>. SUFFICES ASSUME NEW q \in FleetCallers, requests'[q].pc \in Building
                PROVE  /\ actors'[requests'[q].self].thread = "none"
                       /\ \A r \in FleetCallers \ {q} :
                              requests'[r].pc \in Building
                                    => requests'[r].self # requests'[q].self
    BY DEF FleetBuilding, FleetAt, FleetOf
  <2>. QED
    BY <1>1, <1>2, <1>3, <1>4 DEF FleetBuilding, FleetFrames, FleetAt, FleetOf, InHand, Building
<1>11. Python!NoOrphanCamera'
  <2>1. \A b \in 1 .. Len(actors) : Python!SeesTo(p, b) => Python!SeesTo(p, b)'
    BY <1>2, <1>3 DEF Python!SeesTo, Python!Me, Python!At, FleetAt, FleetOf
  <2>2. \A q \in FleetCallers, b \in 1 .. Len(actors) :
            q # p /\ Python!SeesTo(q, b) => Python!SeesTo(q, b)'
    BY <1>3 DEF Python!SeesTo, Python!Me, Python!At
  <2>. QED BY <1>1, <1>2, <1>4, <1>5, <2>1, <2>2 DEF Python!NoOrphanCamera
<1>. QED BY <1>6, <1>7, <1>8, <1>9, <1>10, <1>11 DEF FleetInv

\* CameraActor.stop() sets the stop event and looks at the thread.
LEMMA PythonAsk ==
    ASSUME FleetInv, NEW p \in FleetCallers, Python!Ask(p)
    PROVE  FleetInv'
<1>. DEFINE a == FleetOf(p)
<1>1. /\ FleetTypes /\ FleetMap /\ FleetFrames /\ FleetTodo /\ FleetBuilding
      /\ Python!NoOrphanCamera
  BY DEF FleetInv
<1>2. FleetAt(p) = "ask" /\ a \in 1 .. Len(actors)
  BY <1>1 DEF Python!Ask, Python!At, FleetFrames, FleetAt, FleetOf, InHand, Building
<1>3. /\ requests' \in [FleetCallers -> FleetCall]
      /\ \A q \in FleetCallers : q # p => requests'[q] = requests[q]
      /\ requests'[p].pc = "join"
      /\ requests'[p].op = requests[p].op /\ requests'[p].cam = requests[p].cam
      /\ requests'[p].self = requests[p].self /\ requests'[p].todo = requests[p].todo
  <2>. DEFINE r == [requests[p] EXCEPT !.pc = "join"]
  <2>1. requests \in [FleetCallers -> FleetCall] /\ requests[p] \in FleetCall
    BY <1>1 DEF FleetTypes
  <2>2. requests' = [requests EXCEPT ![p] = r]
    BY <1>2
    DEF Python!Ask, Python!Goto, Python!Me, Python!NoActor, Python!AddSucceeds, Python!Answered,
        FleetOf
  <2>3. "join" \in FleetPcs
    BY IngestAssumption, <1>1, <1>2 DEF FleetPcs, InHand, Building, FleetOps, FleetTypes, Todos
  <2>4. r \in FleetCall BY <1>2, <2>1, <2>3 DEF FleetCall
  <2>5. /\ r.pc = "join"
        /\ r.op = requests[p].op /\ r.cam = requests[p].cam /\ r.self = requests[p].self
        /\ r.todo = requests[p].todo
    BY <2>1 DEF FleetCall
  <2>. HIDE DEF r
  <2>6. /\ requests' \in [FleetCallers -> FleetCall] /\ requests'[p] = r
        /\ \A q \in FleetCallers : q # p => requests'[q] = requests[q]
    BY <2>1, <2>2, <2>4
  <2>. QED BY <2>5, <2>6
<1>4. /\ actors' \in Seq(FleetActor) /\ Len(actors') = Len(actors)
      /\ \A b \in 1 .. Len(actors) : b # a => actors'[b] = actors[b]
      /\ actors'[a].stop = TRUE
      /\ actors'[a].cam = actors[a].cam /\ actors'[a].thread = actors[a].thread
      /\ actors'[a].handle = actors[a].handle /\ actors'[a].abandoned = actors[a].abandoned
  <2>. DEFINE e == [actors[a] EXCEPT !.stop = TRUE]
  <2>1. actors \in Seq(FleetActor) /\ actors[a] \in FleetActor BY <1>1, <1>2 DEF FleetTypes
  <2>2. e \in FleetActor BY <2>1 DEF FleetActor
  <2>3. actors' = [actors EXCEPT ![a] = e] BY DEF Python!Ask, Python!Me, FleetOf
  <2>. HIDE DEF e
  <2>4. /\ actors' \in Seq(FleetActor) /\ Len(actors') = Len(actors) /\ actors'[a] = e
        /\ \A b \in 1 .. Len(actors) : b # a => actors'[b] = actors[b]
    BY <1>2, <2>1, <2>2, <2>3, SeqPatch
  <2>. QED BY <2>1, <2>4 DEF FleetActor, e
<1>5. UNCHANGED fleet BY DEF Python!Ask
<1>6. FleetTypes' BY <1>1, <1>3, <1>4, <1>5 DEF FleetTypes
<1>7. FleetMap' BY <1>1, <1>2, <1>4, <1>5 DEF FleetMap
<1>8. FleetFrames' BY <1>1, <1>2, <1>3, <1>4 DEF FleetFrames, FleetAt, FleetOf, InHand, Building
<1>9. FleetTodo' BY <1>1, <1>2, <1>3, <1>4 DEF FleetTodo
<1>10. FleetBuilding'
  <2>. SUFFICES ASSUME NEW q \in FleetCallers, requests'[q].pc \in Building
                PROVE  /\ actors'[requests'[q].self].thread = "none"
                       /\ \A r \in FleetCallers \ {q} :
                              requests'[r].pc \in Building
                                    => requests'[r].self # requests'[q].self
    BY DEF FleetBuilding, FleetAt, FleetOf
  <2>. QED
    BY <1>1, <1>2, <1>3, <1>4 DEF FleetBuilding, FleetFrames, FleetAt, FleetOf, InHand, Building
<1>11. Python!NoOrphanCamera'
  <2>1. \A b \in 1 .. Len(actors) : b # a /\ Python!SeesTo(p, b) => Python!SeesTo(p, b)'
    BY <1>2, <1>3 DEF Python!SeesTo, Python!Me, Python!At, FleetAt, FleetOf
  <2>2. \A q \in FleetCallers, b \in 1 .. Len(actors) :
            q # p /\ Python!SeesTo(q, b) => Python!SeesTo(q, b)'
    BY <1>3 DEF Python!SeesTo, Python!Me, Python!At
  <2>. QED BY <1>1, <1>2, <1>4, <1>5, <2>1, <2>2 DEF Python!NoOrphanCamera
<1>. QED BY <1>6, <1>7, <1>8, <1>9, <1>10, <1>11 DEF FleetInv

\* CameraActor.stop() has joined the thread.
LEMMA PythonJoined ==
    ASSUME FleetInv, NEW p \in FleetCallers, Python!Joined(p)
    PROVE  FleetInv'
<1>. DEFINE a == FleetOf(p)
<1>1. /\ FleetTypes /\ FleetMap /\ FleetFrames /\ FleetTodo /\ FleetBuilding
      /\ Python!NoOrphanCamera
  BY DEF FleetInv
<1>2. FleetAt(p) = "join" /\ a \in 1 .. Len(actors)
  BY <1>1 DEF Python!Joined, Python!At, FleetFrames, FleetAt, FleetOf, InHand, Building
<1>3. /\ requests' \in [FleetCallers -> FleetCall]
      /\ \A q \in FleetCallers : q # p => requests'[q] = requests[q]
      /\ requests'[p].pc = (IF requests[p].op = "stop" THEN "stopnext" ELSE "done")
      /\ requests'[p].op = requests[p].op /\ requests'[p].cam = requests[p].cam
      /\ requests'[p].self = requests[p].self /\ requests'[p].todo = requests[p].todo
  <2>. DEFINE r == [requests[p] EXCEPT !.pc = (IF requests[p].op = "stop" THEN "stopnext" ELSE "done")]
  <2>1. requests \in [FleetCallers -> FleetCall] /\ requests[p] \in FleetCall
    BY <1>1 DEF FleetTypes
  <2>2. requests' = [requests EXCEPT ![p] = r]
    BY <1>2
    DEF Python!Joined, Python!Goto, Python!Me, Python!NoActor, Python!AddSucceeds,
        Python!Answered, FleetOf
  <2>3. (IF requests[p].op = "stop" THEN "stopnext" ELSE "done") \in FleetPcs
    BY IngestAssumption, <1>1, <1>2 DEF FleetPcs, InHand, Building, FleetOps, FleetTypes, Todos
  <2>4. r \in FleetCall BY <1>2, <2>1, <2>3 DEF FleetCall
  <2>5. /\ r.pc = (IF requests[p].op = "stop" THEN "stopnext" ELSE "done")
        /\ r.op = requests[p].op /\ r.cam = requests[p].cam /\ r.self = requests[p].self
        /\ r.todo = requests[p].todo
    BY <2>1 DEF FleetCall
  <2>. HIDE DEF r
  <2>6. /\ requests' \in [FleetCallers -> FleetCall] /\ requests'[p] = r
        /\ \A q \in FleetCallers : q # p => requests'[q] = requests[q]
    BY <2>1, <2>2, <2>4
  <2>. QED BY <2>5, <2>6
<1>4. UNCHANGED actors BY DEF Python!Joined
<1>5. UNCHANGED fleet BY DEF Python!Joined
<1>6. FleetTypes' BY <1>1, <1>3, <1>4, <1>5 DEF FleetTypes
<1>7. FleetMap' BY <1>1, <1>2, <1>4, <1>5 DEF FleetMap
<1>8. FleetFrames' BY <1>1, <1>2, <1>3, <1>4 DEF FleetFrames, FleetAt, FleetOf, InHand, Building
<1>9. FleetTodo' BY <1>1, <1>2, <1>3, <1>4 DEF FleetTodo
<1>10. FleetBuilding'
  <2>. SUFFICES ASSUME NEW q \in FleetCallers, requests'[q].pc \in Building
                PROVE  /\ actors'[requests'[q].self].thread = "none"
                       /\ \A r \in FleetCallers \ {q} :
                              requests'[r].pc \in Building
                                    => requests'[r].self # requests'[q].self
    BY DEF FleetBuilding, FleetAt, FleetOf
  <2>. QED
    BY <1>1, <1>2, <1>3, <1>4 DEF FleetBuilding, FleetFrames, FleetAt, FleetOf, InHand, Building
<1>11. Python!NoOrphanCamera'
  <2>1. \A b \in 1 .. Len(actors) : Python!SeesTo(p, b) => Python!SeesTo(p, b)'
    BY <1>2, <1>3 DEF Python!SeesTo, Python!Me, Python!At, FleetAt, FleetOf
  <2>2. \A q \in FleetCallers, b \in 1 .. Len(actors) :
            q # p /\ Python!SeesTo(q, b) => Python!SeesTo(q, b)'
    BY <1>3 DEF Python!SeesTo, Python!Me, Python!At
  <2>. QED BY <1>1, <1>2, <1>4, <1>5, <2>1, <2>2 DEF Python!NoOrphanCamera
<1>. QED BY <1>6, <1>7, <1>8, <1>9, <1>10, <1>11 DEF FleetInv

\* CameraActor.stop() gives the thread up.
LEMMA PythonJoinTimesOut ==
    ASSUME FleetInv, NEW p \in FleetCallers, Python!JoinTimesOut(p)
    PROVE  FleetInv'
<1>. DEFINE a == FleetOf(p)
<1>1. /\ FleetTypes /\ FleetMap /\ FleetFrames /\ FleetTodo /\ FleetBuilding
      /\ Python!NoOrphanCamera
  BY DEF FleetInv
<1>2. FleetAt(p) = "join" /\ a \in 1 .. Len(actors)
  BY <1>1 DEF Python!JoinTimesOut, Python!At, FleetFrames, FleetAt, FleetOf, InHand, Building
<1>3. /\ requests' \in [FleetCallers -> FleetCall]
      /\ \A q \in FleetCallers : q # p => requests'[q] = requests[q]
      /\ requests'[p].pc = (IF requests[p].op = "stop" THEN "stopnext" ELSE "done")
      /\ requests'[p].op = requests[p].op /\ requests'[p].cam = requests[p].cam
      /\ requests'[p].self = requests[p].self /\ requests'[p].todo = requests[p].todo
  <2>. DEFINE r == [requests[p] EXCEPT !.pc = (IF requests[p].op = "stop" THEN "stopnext" ELSE "done")]
  <2>1. requests \in [FleetCallers -> FleetCall] /\ requests[p] \in FleetCall
    BY <1>1 DEF FleetTypes
  <2>2. requests' = [requests EXCEPT ![p] = r]
    BY <1>2
    DEF Python!JoinTimesOut, Python!Goto, Python!Me, Python!NoActor, Python!AddSucceeds,
        Python!Answered, FleetOf
  <2>3. (IF requests[p].op = "stop" THEN "stopnext" ELSE "done") \in FleetPcs
    BY IngestAssumption, <1>1, <1>2 DEF FleetPcs, InHand, Building, FleetOps, FleetTypes, Todos
  <2>4. r \in FleetCall BY <1>2, <2>1, <2>3 DEF FleetCall
  <2>5. /\ r.pc = (IF requests[p].op = "stop" THEN "stopnext" ELSE "done")
        /\ r.op = requests[p].op /\ r.cam = requests[p].cam /\ r.self = requests[p].self
        /\ r.todo = requests[p].todo
    BY <2>1 DEF FleetCall
  <2>. HIDE DEF r
  <2>6. /\ requests' \in [FleetCallers -> FleetCall] /\ requests'[p] = r
        /\ \A q \in FleetCallers : q # p => requests'[q] = requests[q]
    BY <2>1, <2>2, <2>4
  <2>. QED BY <2>5, <2>6
<1>4. /\ actors' \in Seq(FleetActor) /\ Len(actors') = Len(actors)
      /\ \A b \in 1 .. Len(actors) : b # a => actors'[b] = actors[b]
      /\ actors'[a].abandoned = TRUE
      /\ actors'[a].cam = actors[a].cam /\ actors'[a].stop = actors[a].stop
      /\ actors'[a].thread = actors[a].thread /\ actors'[a].handle = actors[a].handle
  <2>. DEFINE e == [actors[a] EXCEPT !.abandoned = TRUE]
  <2>1. actors \in Seq(FleetActor) /\ actors[a] \in FleetActor BY <1>1, <1>2 DEF FleetTypes
  <2>2. e \in FleetActor BY <2>1 DEF FleetActor
  <2>3. actors' = [actors EXCEPT ![a] = e] BY DEF Python!JoinTimesOut, Python!Me, FleetOf
  <2>. HIDE DEF e
  <2>4. /\ actors' \in Seq(FleetActor) /\ Len(actors') = Len(actors) /\ actors'[a] = e
        /\ \A b \in 1 .. Len(actors) : b # a => actors'[b] = actors[b]
    BY <1>2, <2>1, <2>2, <2>3, SeqPatch
  <2>. QED BY <2>1, <2>4 DEF FleetActor, e
<1>5. UNCHANGED fleet BY DEF Python!JoinTimesOut
<1>6. FleetTypes' BY <1>1, <1>3, <1>4, <1>5 DEF FleetTypes
<1>7. FleetMap' BY <1>1, <1>2, <1>4, <1>5 DEF FleetMap
<1>8. FleetFrames' BY <1>1, <1>2, <1>3, <1>4 DEF FleetFrames, FleetAt, FleetOf, InHand, Building
<1>9. FleetTodo' BY <1>1, <1>2, <1>3, <1>4 DEF FleetTodo
<1>10. FleetBuilding'
  <2>. SUFFICES ASSUME NEW q \in FleetCallers, requests'[q].pc \in Building
                PROVE  /\ actors'[requests'[q].self].thread = "none"
                       /\ \A r \in FleetCallers \ {q} :
                              requests'[r].pc \in Building
                                    => requests'[r].self # requests'[q].self
    BY DEF FleetBuilding, FleetAt, FleetOf
  <2>. QED
    BY <1>1, <1>2, <1>3, <1>4 DEF FleetBuilding, FleetFrames, FleetAt, FleetOf, InHand, Building
<1>11. Python!NoOrphanCamera'
  <2>1. \A b \in 1 .. Len(actors) : Python!SeesTo(p, b) => Python!SeesTo(p, b)'
    BY <1>2, <1>3 DEF Python!SeesTo, Python!Me, Python!At, FleetAt, FleetOf
  <2>2. \A q \in FleetCallers, b \in 1 .. Len(actors) :
            q # p /\ Python!SeesTo(q, b) => Python!SeesTo(q, b)'
    BY <1>3 DEF Python!SeesTo, Python!Me, Python!At
  <2>. QED BY <1>1, <1>2, <1>4, <1>5, <2>1, <2>2 DEF Python!NoOrphanCamera
<1>. QED BY <1>6, <1>7, <1>8, <1>9, <1>10, <1>11 DEF FleetInv

\* add_camera() publishes a new actor.
LEMMA PythonInsert ==
    ASSUME FleetInv, NEW p \in FleetCallers, Python!Insert(p)
    PROVE  FleetInv'
<1>. DEFINE n == Len(actors) + 1
            cam == requests[p].cam
            e == [cam |-> cam, stop |-> FALSE, thread |-> "none", handle |-> FALSE,
                  abandoned |-> FALSE]
<1>1. /\ FleetTypes /\ FleetMap /\ FleetFrames /\ FleetTodo /\ FleetBuilding
      /\ Python!NoOrphanCamera
  BY DEF FleetInv
<1>2. /\ FleetAt(p) = "add" /\ cam \in FleetCameras
      /\ fleet.map[cam] = 0 /\ Len(actors) \in Nat
  BY <1>1 DEF Python!Insert, Python!At, Python!NoActor, FleetFrames, FleetAt, FleetTypes
<1>3. /\ requests' \in [FleetCallers -> FleetCall]
      /\ \A q \in FleetCallers : q # p => requests'[q] = requests[q]
      /\ requests'[p].pc = "clear" /\ requests'[p].self = n
      /\ requests'[p].op = requests[p].op /\ requests'[p].cam = requests[p].cam
      /\ requests'[p].todo = requests[p].todo
  <2>1. requests \in [FleetCallers -> FleetCall] BY <1>1 DEF FleetTypes
  <2>2. requests' = [requests EXCEPT ![p].self = n, ![p].pc = "clear"] BY DEF Python!Insert
  <2>3. "clear" \in FleetPcs /\ n \in Nat BY <1>2 DEF FleetPcs, InHand, Building
  <2>. HIDE DEF n
  <2>. QED BY <2>1, <2>2, <2>3 DEF FleetCall
<1>4. /\ actors' \in Seq(FleetActor) /\ Len(actors') = n /\ n \in Nat
      /\ \A b \in 1 .. n : b \in 1 .. Len(actors) \/ b = n
      /\ \A b \in 1 .. Len(actors) : b \in 1 .. n /\ b # n /\ actors'[b] = actors[b]
      /\ n # 0 /\ n \notin 1 .. Len(actors) /\ n \in 1 .. n
      /\ actors'[n].cam = cam /\ actors'[n].thread = "none"
  <2>1. actors \in Seq(FleetActor) BY <1>1 DEF FleetTypes
  <2>2. e \in FleetActor BY <1>2 DEF FleetActor
  <2>3. actors' = Append(actors, e) BY DEF Python!Insert, Python!NewActor
  <2>4. e.cam = cam /\ e.thread = "none" OBVIOUS
  <2>. HIDE DEF e
  <2>. QED BY <2>1, <2>2, <2>3, <2>4
<1>5. /\ fleet' \in [map : [FleetCameras -> Nat], started : BOOLEAN]
      /\ \A c \in FleetCameras : fleet'.map[c] = IF c = cam THEN n ELSE fleet.map[c]
  <2>1. fleet' = [fleet EXCEPT !.map[cam] = n] BY DEF Python!Insert
  <2>2. fleet \in [map : [FleetCameras -> Nat], started : BOOLEAN] /\ n \in Nat
    BY <1>1, <1>2 DEF FleetTypes
  <2>3. cam \in FleetCameras BY <1>2
  <2>. HIDE DEF n, cam
  <2>. QED BY <2>1, <2>2, <2>3
<1>. HIDE DEF n, cam, e
<1>6. FleetTypes' BY <1>3, <1>4, <1>5 DEF FleetTypes
<1>7. FleetMap' BY <1>1, <1>2, <1>4, <1>5 DEF FleetMap
<1>8. FleetFrames'
  BY <1>1, <1>2, <1>3, <1>4 DEF FleetFrames, FleetAt, FleetOf, InHand, Building, cam
<1>9. FleetTodo' BY <1>1, <1>2, <1>3, <1>4 DEF FleetTodo
<1>10. FleetBuilding'
  <2>. SUFFICES ASSUME NEW q \in FleetCallers, requests'[q].pc \in Building
                PROVE  /\ actors'[requests'[q].self].thread = "none"
                       /\ \A r \in FleetCallers \ {q} :
                              requests'[r].pc \in Building
                                    => requests'[r].self # requests'[q].self
    BY DEF FleetBuilding, FleetAt, FleetOf
  <2>. QED
    BY <1>1, <1>2, <1>3, <1>4 DEF FleetBuilding, FleetFrames, FleetAt, FleetOf, InHand, Building
<1>11. \A q \in FleetCallers,
             b \in 1 .. Len(actors) : Python!SeesTo(q, b) => Python!SeesTo(q, b)'
  BY <1>2, <1>3 DEF Python!SeesTo, Python!Me, Python!At, FleetAt
<1>12. Python!NoOrphanCamera'
  <2>. SUFFICES ASSUME NEW b \in 1 .. n, actors'[b].thread = "running", ~actors'[b].stop
                PROVE  \/ fleet'.map[actors'[b].cam] = b
                       \/ \E q \in FleetCallers : Python!SeesTo(q, b)'
    BY <1>4 DEF Python!NoOrphanCamera
  <2>1. b \in 1 .. Len(actors) /\ actors'[b] = actors[b] /\ actors[b].cam \in FleetCameras
    BY <1>1, <1>4, FleetActorTypes
  <2>. QED BY <1>1, <1>2, <1>5, <1>11, <2>1 DEF Python!NoOrphanCamera
<1>. QED BY <1>6, <1>7, <1>8, <1>9, <1>10, <1>12 DEF FleetInv

\* stop() asks every actor it took out to stop.
LEMMA PythonAskAll ==
    ASSUME FleetInv, NEW p \in FleetCallers, Python!AskAll(p)
    PROVE  FleetInv'
<1>. DEFINE Asked(b) == \E i \in DOMAIN requests[p].todo : requests[p].todo[i] = b
<1>1. /\ FleetTypes /\ FleetMap /\ FleetFrames /\ FleetTodo /\ FleetBuilding
      /\ Python!NoOrphanCamera
  BY DEF FleetInv
<1>2. FleetAt(p) = "askall"
  BY <1>1 DEF Python!AskAll, Python!At, FleetAt
<1>3. /\ requests' \in [FleetCallers -> FleetCall]
      /\ \A q \in FleetCallers : q # p => requests'[q] = requests[q]
      /\ requests'[p].pc = "stopnext"
      /\ requests'[p].op = requests[p].op /\ requests'[p].cam = requests[p].cam
      /\ requests'[p].self = requests[p].self /\ requests'[p].todo = requests[p].todo
  <2>1. requests \in [FleetCallers -> FleetCall] BY <1>1 DEF FleetTypes
  <2>2. requests' = [requests EXCEPT ![p].pc = "stopnext"] BY DEF Python!AskAll, Python!Goto
  <2>3. "stopnext" \in FleetPcs BY DEF FleetPcs
  <2>. QED BY <2>1, <2>2, <2>3 DEF FleetCall
<1>4. /\ actors' \in Seq(FleetActor) /\ Len(actors') = Len(actors)
      /\ \A b \in 1 .. Len(actors) :
            /\ actors'[b].cam = actors[b].cam /\ actors'[b].thread = actors[b].thread
            /\ actors'[b].stop = (actors[b].stop \/ Asked(b))
  <2>. DEFINE e(b) == [actors[b] EXCEPT !.stop = @ \/ Asked(b)]
  <2>1. actors' = [b \in 1 .. Len(actors) |-> e(b)] /\ Len(actors) \in Nat
    BY <1>1 DEF Python!AskAll, FleetTypes
  <2>2. \A b \in 1 .. Len(actors) :
            /\ e(b) \in FleetActor
            /\ e(b).cam = actors[b].cam /\ e(b).thread = actors[b].thread
            /\ e(b).stop = (actors[b].stop \/ Asked(b))
    <3>. SUFFICES ASSUME NEW b \in 1 .. Len(actors)
                  PROVE  /\ e(b) \in FleetActor
                         /\ e(b).cam = actors[b].cam /\ e(b).thread = actors[b].thread
                         /\ e(b).stop = (actors[b].stop \/ Asked(b))
      OBVIOUS
    <3>1. actors[b] \in FleetActor /\ Asked(b) \in BOOLEAN BY <1>1, FleetActorTypes
    <3>. HIDE DEF Asked
    <3>. QED BY <3>1 DEF FleetActor
  <2>. HIDE DEF e, Asked
  <2>. QED BY <2>1, <2>2
<1>5. UNCHANGED fleet BY DEF Python!AskAll
<1>6. FleetTypes' BY <1>1, <1>3, <1>4, <1>5 DEF FleetTypes
<1>7. FleetMap' BY <1>1, <1>4, <1>5 DEF FleetMap
<1>8. FleetFrames'
  BY <1>1, <1>2, <1>3, <1>4 DEF FleetFrames, FleetAt, FleetOf, InHand, Building
<1>9. FleetTodo' BY <1>1, <1>3, <1>4 DEF FleetTodo
<1>10. FleetBuilding'
  BY <1>1, <1>2, <1>3, <1>4 DEF FleetBuilding, FleetFrames, FleetAt, FleetOf, InHand, Building
<1>11. \A q \in FleetCallers, b \in 1 .. Len(actors) :
          Python!SeesTo(q, b) => Python!SeesTo(q, b)' \/ Asked(b)
  BY <1>2, <1>3 DEF Python!SeesTo, Python!Me, Python!At, FleetAt
<1>. HIDE DEF Asked
<1>12. Python!NoOrphanCamera' BY ZenonT(30), <1>1, <1>4, <1>5, <1>11 DEF Python!NoOrphanCamera
<1>. QED BY <1>6, <1>7, <1>8, <1>9, <1>10, <1>12 DEF FleetInv

\* A camera thread ends.
LEMMA PythonThreadEnds ==
    ASSUME FleetInv, NEW a \in 1 .. Len(actors), Python!ThreadStops(a) \/ Python!ThreadGivesUp(a)
    PROVE  FleetInv'
<1>1. /\ FleetTypes /\ FleetMap /\ FleetFrames /\ FleetTodo /\ FleetBuilding
      /\ Python!NoOrphanCamera
  BY DEF FleetInv
<1>2. actors[a].thread = "running" /\ UNCHANGED <<fleet, requests>>
  BY DEF Python!ThreadStops, Python!ThreadGivesUp
<1>3. PICK flag \in BOOLEAN :
            actors' = [actors EXCEPT ![a] = [actors[a] EXCEPT !.thread = "done", !.stop = flag]]
  <2>1. actors[a] \in FleetActor BY <1>1, FleetActorTypes
  <2>2. CASE Python!ThreadGivesUp(a) BY <2>2 DEF Python!ThreadGivesUp
  <2>3. CASE Python!ThreadStops(a)
    <3>1. [actors[a] EXCEPT !.thread = "done",
                !.stop = TRUE] = [actors[a] EXCEPT !.thread = "done"]
      BY <2>1, <2>3 DEF Python!ThreadStops, FleetActor
    <3>. QED BY <2>3, <3>1 DEF Python!ThreadStops
  <2>. QED BY <2>2, <2>3
<1>4. /\ actors' \in Seq(FleetActor) /\ Len(actors') = Len(actors)
      /\ \A b \in 1 .. Len(actors) : b # a => actors'[b] = actors[b]
      /\ actors'[a].thread = "done" /\ actors'[a].cam = actors[a].cam
  <2>. DEFINE e == [actors[a] EXCEPT !.thread = "done", !.stop = flag]
  <2>1. actors \in Seq(FleetActor) /\ actors[a] \in FleetActor
    BY <1>1, FleetActorTypes DEF FleetTypes
  <2>2. e \in FleetActor BY <2>1 DEF FleetActor
  <2>3. actors' = [actors EXCEPT ![a] = e] BY <1>3
  <2>. HIDE DEF e
  <2>4. /\ actors' \in Seq(FleetActor) /\ Len(actors') = Len(actors) /\ actors'[a] = e
        /\ \A b \in 1 .. Len(actors) : b # a => actors'[b] = actors[b]
    BY <2>1, <2>2, <2>3, SeqPatch
  <2>. QED BY <2>1, <2>4 DEF FleetActor, e
<1>6. FleetTypes' BY <1>1, <1>2, <1>4 DEF FleetTypes
<1>7. FleetMap' BY <1>1, <1>2, <1>4 DEF FleetMap
<1>8. FleetFrames' BY <1>1, <1>2, <1>4 DEF FleetFrames, FleetAt, FleetOf, InHand, Building
<1>9. FleetTodo' BY <1>1, <1>2, <1>4 DEF FleetTodo
<1>10. FleetBuilding'
  BY <1>1, <1>2, <1>4 DEF FleetBuilding, FleetFrames, FleetAt, FleetOf, InHand, Building
<1>11. \A q \in FleetCallers,
             b \in 1 .. Len(actors) : Python!SeesTo(q, b) => Python!SeesTo(q, b)'
  BY <1>2 DEF Python!SeesTo, Python!Me, Python!At
<1>12. Python!NoOrphanCamera' BY <1>1, <1>2, <1>4, <1>11 DEF Python!NoOrphanCamera
<1>. QED BY <1>6, <1>7, <1>8, <1>9, <1>10, <1>12 DEF FleetInv

\* stop() takes every actor out of the map.
LEMMA PythonCallStop ==
    ASSUME FleetInv, NEW p \in FleetCallers, Python!CallStop(p)
    PROVE  FleetInv'
<1>. DEFINE T == Python!Taken
<1>1. /\ FleetTypes /\ FleetMap /\ FleetFrames /\ FleetTodo /\ FleetBuilding
      /\ Python!NoOrphanCamera
  BY DEF FleetInv
<1>2. FleetAt(p) = "idle" /\ requests[p].op = "none"
  BY <1>1 DEF Python!CallStop, Python!At, FleetFrames, FleetAt
<1>3. PICK order \in [1 .. Cardinality(T) -> T] :
          /\ \A b \in T : \E i \in DOMAIN order : order[i] = b
          /\ requests' = [requests EXCEPT ![p].op = "stop", ![p].pc = "askall", ![p].todo = order]
  <2>1. \E order \in [1 .. Cardinality(Python!Taken) -> Python!Taken] :
          /\ \A b \in Python!Taken : \E i \in DOMAIN order : order[i] = b
          /\ requests' = [requests EXCEPT ![p].op = "stop", ![p].pc = "askall", ![p].todo = order]
    BY Zenon DEF Python!CallStop, Python!Cardinality, Cardinality
  <2>. QED BY <2>1
<1>4. T \subseteq 1 .. Len(actors) /\ T \subseteq Nat /\ Cardinality(T) \in Nat
  <2>1. T \subseteq 1 .. Len(actors) /\ Len(actors) \in Nat BY <1>1 DEF Python!Taken, FleetTypes
  <2>2. IsFiniteSet(1 .. Len(actors)) BY <2>1, FS_Interval
  <2>3. IsFiniteSet(T) BY <2>1, <2>2, FS_Subset
  <2>4. Cardinality(T) \in Nat BY <2>3, FS_CardinalityType
  <2>. QED BY <2>1, <2>4
<1>5. order \in Todos /\ \A i \in DOMAIN order : order[i] \in T
  <2>. DEFINE k == Cardinality(T)
              S == FleetCameras \cup Nat
  <2>1. k \in Nat /\ T \subseteq S /\ order \in [1 .. k -> T] BY <1>3, <1>4
  <2>2. Todos = Seq(S) BY DEF Todos
  <2>. HIDE DEF k, S, T
  <2>. QED BY <2>1, <2>2
<1>7. /\ requests' \in [FleetCallers -> FleetCall]
      /\ \A q \in FleetCallers : q # p => requests'[q] = requests[q]
      /\ requests'[p].op = "stop" /\ requests'[p].pc = "askall" /\ requests'[p].todo = order
  <2>. HIDE DEF T
  <2>1. requests \in [FleetCallers -> FleetCall] BY <1>1 DEF FleetTypes
  <2>2. "askall" \in FleetPcs /\ "stop" \in FleetOps BY DEF FleetPcs, FleetOps
  <2>. DEFINE r == [requests[p] EXCEPT !.op = "stop", !.pc = "askall", !.todo = order]
  <2>3. r \in FleetCall BY <1>5, <2>1, <2>2 DEF FleetCall
  <2>4. r.op = "stop" /\ r.pc = "askall" /\ r.todo = order
    BY <2>1 DEF FleetCall
  <2>5. requests' = [requests EXCEPT ![p] = r] BY <1>3
  <2>. HIDE DEF r
  <2>6. /\ requests' \in [FleetCallers -> FleetCall] /\ requests'[p] = r
        /\ \A q \in FleetCallers : q # p => requests'[q] = requests[q]
    BY <2>1, <2>3, <2>5
  <2>. QED BY <2>4, <2>6
<1>8. /\ fleet' \in [map : [FleetCameras -> Nat], started : BOOLEAN]
      /\ \A c \in FleetCameras : fleet'.map[c] = 0
  BY <1>1 DEF Python!CallStop, Python!NoActor, FleetTypes
<1>9. UNCHANGED actors BY DEF Python!CallStop
<1>10. \A b \in 1 .. Len(actors) : fleet.map[actors[b].cam] = b => b \in T
  BY DEF Python!Taken
<1>. HIDE DEF T
<1>11. \A b \in T : Python!SeesTo(p, b)'
  BY <1>3, <1>7 DEF Python!SeesTo, Python!Me, Python!At
<1>12. \A q \in FleetCallers,
             b \in 1 .. Len(actors) : Python!SeesTo(q, b) => Python!SeesTo(q, b)'
  BY <1>2, <1>7 DEF Python!SeesTo, Python!Me, Python!At, FleetAt
<1>13. FleetTypes' BY <1>1, <1>7, <1>8, <1>9 DEF FleetTypes
<1>14. FleetMap' BY <1>8 DEF FleetMap
<1>15. FleetFrames' BY <1>1, <1>2, <1>7, <1>9 DEF FleetFrames, FleetAt, FleetOf, InHand, Building
<1>16. FleetTodo' BY <1>1, <1>4, <1>5, <1>7, <1>9 DEF FleetTodo
<1>17. FleetBuilding'
  BY <1>1, <1>2, <1>7, <1>9 DEF FleetBuilding, FleetFrames, FleetAt, FleetOf, InHand, Building
<1>18. Python!NoOrphanCamera'
  BY <1>1, <1>8, <1>9, <1>10, <1>11, <1>12 DEF Python!NoOrphanCamera
<1>. QED BY <1>13, <1>14, <1>15, <1>16, <1>17, <1>18 DEF FleetInv

\* Every step of the Python manager keeps its invariant.
LEMMA PythonKeeps == FleetInv /\ Python!Next => FleetInv'
<1>. SUFFICES ASSUME FleetInv, Python!Next PROVE FleetInv' OBVIOUS
<1>1. ASSUME NEW p \in FleetCallers, Python!Call(p) PROVE FleetInv'
  <2>1. ASSUME NEW cam \in FleetCameras, Python!CallAdd(p, cam) PROVE FleetInv'
    BY <2>1, PythonCallAdd
  <2>2. ASSUME NEW cam \in FleetCameras, Python!CallRemove(p, cam) PROVE FleetInv'
    BY <2>2, PythonCallRemove, PythonCallRemoveNone
  <2>3. CASE Python!CallStart(p) BY <2>3, PythonCallStart, PythonCallStartAgain
  <2>4. CASE Python!StartMarks(p) BY <2>4, PythonStartMarks
  <2>5. CASE Python!StartNext(p) BY <2>5, PythonStartNext, PythonStartEnds
  <2>6. CASE Python!CallStop(p) BY <2>6, PythonCallStop
  <2>7. CASE Python!AskAll(p) BY <2>7, PythonAskAll
  <2>8. CASE Python!StopNext(p) BY <2>8, PythonStopNext
  <2>9. CASE Python!StopEnds(p) BY <2>9, PythonStopEnds
  <2>. QED BY <1>1, <2>1, <2>2, <2>3, <2>4, <2>5, <2>6, <2>7, <2>8, <2>9 DEF Python!Call
<1>2. ASSUME NEW p \in FleetCallers, Python!Work(p) PROVE FleetInv'
  BY <1>2, PythonAddRefused, PythonInsert, PythonStartClears, PythonStartSpawns,
     PythonStartKeeps,
     PythonRecheckKept, PythonRecheckLost, PythonAsk, PythonJoined, PythonJoinTimesOut
     DEF Python!Work
<1>3. CASE Python!AllReturned
  BY <1>3
  DEF Python!AllReturned, Python!vars, FleetInv, FleetTypes, FleetMap, FleetFrames, FleetTodo,
     FleetBuilding, FleetAt, FleetOf, Python!NoOrphanCamera, Python!SeesTo, Python!Me, Python!At
<1>. QED BY <1>1, <1>2, <1>3, PythonThreadEnds DEF Python!Next, Python!Threads

\* The Python manager starts in its invariant.
LEMMA PythonStart == Python!Init => FleetInv
<1>. SUFFICES ASSUME Python!Init PROVE FleetInv OBVIOUS
<1>1. /\ Len(actors) = 0 /\ actors \in Seq(FleetActor)
      /\ \A c \in FleetCameras : fleet.map[c] = 0
  BY DEF Python!Init, Python!NoActor
<1>2. /\ \A p \in FleetCallers : requests[p].op = "none" /\ requests[p].pc = "idle"
      /\ \A p \in FleetCallers : requests[p].todo = <<>>
  BY DEF Python!Init, Python!Nothing, Python!NoActor
<1>3. FleetTypes
  <2>1. Python!Nothing \in FleetCall
    BY DEF Python!Nothing, Python!NoActor, FleetCall, FleetOps, FleetPcs, Todos
  <2>2. fleet \in [map : [FleetCameras -> Nat], started : BOOLEAN]
    BY DEF Python!Init, Python!NoActor
  <2>. QED BY <1>1, <2>1, <2>2 DEF Python!Init, FleetTypes
<1>4. FleetMap BY <1>1 DEF FleetMap
<1>5. FleetFrames /\ FleetTodo /\ FleetBuilding
  BY <1>2 DEF FleetFrames, FleetTodo, FleetBuilding, FleetAt, FleetOf, InHand, Building
<1>6. Python!NoOrphanCamera BY <1>1 DEF Python!NoOrphanCamera
<1>. QED BY <1>3, <1>4, <1>5, <1>6 DEF FleetInv

Managed == (part = "python" => FleetInv) /\ (part = "cpp" => NativeInv)

\* The Python manager stands still.
LEMMA FleetStutters == FleetInv /\ UNCHANGED fleetVars => FleetInv'
BY DEF fleetVars, FleetInv, FleetTypes, FleetMap, FleetFrames, FleetTodo, FleetBuilding, FleetAt,
       FleetOf,
   Python!NoOrphanCamera, Python!SeesTo, Python!Me, Python!At

\* The C++ manager stands still.
LEMMA NativeStutters == NativeInv /\ UNCHANGED fleetVars => NativeInv'
BY DEF fleetVars, NativeInv, NativeTypes, FleetMap, NativeFrames, NativeTodo, NativeThreads,
       NativeLocks,
   NativeSecured, NativeCounted, Secures, ToStop, FleetAt, FleetOf

\* Whichever manager a behaviour is of, its invariant is kept.
LEMMA ManagedKept == Managed /\ [MCNext]_allVars => Managed'
<1>. SUFFICES ASSUME Managed, [MCNext]_allVars PROVE Managed' OBVIOUS
<1>1. CASE PythonStep BY <1>1, PythonKeeps DEF PythonStep, Managed
<1>2. CASE CppStep BY <1>2, NativeKeeps DEF CppStep, Managed
<1>3. CASE UNCHANGED <<part, fleetVars>> BY <1>3, FleetStutters, NativeStutters DEF Managed
<1>. QED BY <1>1, <1>2, <1>3 DEF MCNext, ActorStep, StreamsStep, StreamsEnd, allVars

(***************************************************************************)
(* For any cameras, callers and number of actors, in either plane: no      *)
(* running camera is out of its manager's reach, no actor is freed under   *)
(* its thread, and a stop() that counts nothing abandoned leaves no thread.*)
(***************************************************************************)
THEOREM ManagersHoldTheirThreads == MCSpec => []FleetHoldsItsThreads
<1>1. MCInit => Managed BY PythonStart, NativeStart DEF MCInit, Managed
<1>2. Managed /\ [MCNext]_allVars => Managed' BY ManagedKept
<1>3. Managed => FleetHoldsItsThreads
  BY NativeHolds DEF Managed, FleetHoldsItsThreads, FleetInv
<1>. QED BY <1>1, <1>2, <1>3, PTL DEF MCSpec
=============================================================================
