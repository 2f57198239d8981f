----------------------------- MODULE CameraActor -----------------------------
(***************************************************************************)
(* One camera of the ingest plane: the actor thread that connects to a     *)
(* source, reads frames, stamps them and puts them into a sink, and the    *)
(* callers that start and stop it (ingest/camera/actor.py, and its twin    *)
(* csrc/shipinfer/ingest/camera/actor.cpp).                                *)
(*                                                                         *)
(* The two planes run the same loop.  They differ in the lifecycle (the    *)
(* C++ actor serialises join and detach under lifecycle_mutex_ and latches *)
(* the thread's fate there) and in what a configuration error means (fatal *)
(* for the C++ camera, one more failed attempt for the Python one); plane  *)
(* says which of the two is running.                                       *)
(*                                                                         *)
(* Every critical section of the actor's state lock is a step of its own,  *)
(* as is every read of the stop event and of the thread handle, so that a  *)
(* stop() can fall between any two of them.  Delays, pixels and messages   *)
(* are left out; a delay is a step that ends when it pleases, because the  *)
(* wait is on the stop event.                                              *)
(***************************************************************************)
EXTENDS Naturals, Sequences

CONSTANTS
    Stoppers,            \* threads that each call stop() once
    Starter,             \* the thread that calls start()
    Files,               \* a replay directory: for each file, whether it decodes
    MaxFrames,           \* bound: frames one behaviour reads
    EmptyReadsBeforeReconnect,
    FailuresBeforeUnhealthy

ASSUME CameraActorAssumption ==
    /\ Starter \notin Stoppers
    /\ Files \in Seq(BOOLEAN) /\ Files # <<>>
    /\ MaxFrames \in Nat
    /\ EmptyReadsBeforeReconnect \in Nat \ {0}
    /\ FailuresBeforeUnhealthy \in Nat \ {0}

VARIABLES
    camera,   \* the configuration: plane, kind of source, whether a replay loops
    actor,    \* the actor object: what its locks and its stop event guard
    loop,     \* the actor thread: where it is, the source it holds
    calls     \* where each caller of start() and stop() is

vars == <<camera, actor, loop, calls>>

Callers == Stoppers \cup {Starter}
States == {"idle", "connecting", "streaming", "degraded", "unhealthy", "exhausted", "stopped"}
Cameras ==   \* only a replay directory can loop
    {c \in [plane : {"python", "native"}, kind : {"live", "replay"}, loop : BOOLEAN] :
        c.kind = "live" => ~c.loop}
NoSource == [open |-> FALSE, index |-> 0, exhausted |-> FALSE]
Native == camera.plane = "native"

(* A freshly built actor.  "late" counts the frames handed to the sink     *)
(* since the stop event was last set; no code keeps it.                    *)
NewActor ==
    [state |-> "idle", fatal |-> FALSE, stop |-> FALSE, thread |-> "none", handle |-> "none",
     finished |-> FALSE, abandoned |-> FALSE, lock |-> FALSE, fails |-> 0, empties |-> 0,
     read |-> 0, late |-> 0]

(***************************************************************************)
(* Bookkeeping: what each locked section does to the health an operator    *)
(* sees.  The failure count is compared with one threshold only, so it     *)
(* stays at the threshold once there.                                      *)
(***************************************************************************)

RecordFailure(a) ==
    LET n == IF a.fails < FailuresBeforeUnhealthy THEN a.fails + 1 ELSE a.fails
    IN  [a EXCEPT !.fails = n,
                  !.state = IF n >= FailuresBeforeUnhealthy THEN "unhealthy" ELSE "degraded"]

MarkConnecting(a) == IF a.state = "unhealthy" THEN a ELSE [a EXCEPT !.state = "connecting"]

SetState(a, s) == [a EXCEPT !.state = s]

(* Fault: a shutdown overwrites the state of a camera that gave up.       *)
StateIsFinalForgetsFatal(a) == a.state \in {"stopped", "exhausted"}

StateIsFinal(a) == a.fatal \/ a.state \in {"stopped", "exhausted"}

RecordFrame(a) == [a EXCEPT !.read = @ + 1, !.state = "streaming"]

(* What a frame proves: the failure state is cleared here, not on connect. *)
ClearFailures(a) == [a EXCEPT !.fails = 0, !.empties = 0]

(***************************************************************************)
(* The replay source: a directory of files, some of which may not decode.  *)
(* Reading it yields the outcome and the source after it.                  *)
(***************************************************************************)

Opened == [open |-> TRUE, index |-> 0, exhausted |-> FALSE]

NextImage(s) ==
    IF s.index >= Len(Files)
    THEN [got |-> "end", src |-> s]
    ELSE [got |-> IF Files[s.index + 1] THEN "frame" ELSE "error",
          src |-> [s EXCEPT !.index = @ + 1]]

Rewind(s) == [s EXCEPT !.index = 0]

ReplayRead(s) ==
    LET first == NextImage(s)
        again == IF first.got = "end" /\ camera.loop THEN NextImage(Rewind(s)) ELSE first
    IN  CASE s.exhausted -> [got |-> "none", src |-> s]
          [] again.got = "end" -> [got |-> "none", src |-> [again.src EXCEPT !.exhausted = TRUE]]
          [] OTHER -> again

(* The C++ library drops the files that do not decode when it is built, so *)
(* a read never meets one.                                                 *)
NativeReplayRead(s) ==
    LET size == Len(SelectSeq(Files, LAMBDA f : f))
    IN  CASE s.exhausted -> [got |-> "none", src |-> s]
          [] ~s.exhausted /\ s.index >= size /\ ~camera.loop ->
                [got |-> "none", src |-> [s EXCEPT !.exhausted = TRUE]]
          [] OTHER -> [got |-> "frame",
                       src |-> [s EXCEPT !.index = IF @ >= size THEN 1 ELSE @ + 1]]

(* A live stream: a frame, silence (or a stop seen between two pulls), or  *)
(* an end of stream or decoder error off the bus.                          *)
LiveReads(s) == {[got |-> g, src |-> s] : g \in {"frame", "none", "error"}}

(* A pacer interrupted by the stop event, or asked to wait past the read   *)
(* timeout, answers an empty read without touching the files.              *)
Interrupted(s) == [got |-> "none", src |-> s]

ReadOutcomes(s) ==
    CASE camera.kind = "live" -> LiveReads(s)
      [] camera.kind = "replay" /\ Native -> {Interrupted(s), NativeReplayRead(s)}
      [] OTHER -> {Interrupted(s), ReplayRead(s)}

(***************************************************************************)
(* The actor thread.                                                       *)
(***************************************************************************)

TypeOK ==
    /\ camera \in Cameras
    /\ actor.state \in States /\ actor.thread \in {"none", "running", "done"}
    /\ actor.handle \in {"none", "joinable", "joined", "detached"}
    /\ loop.src.index \in 0..Len(Files)

Init ==
    /\ camera \in Cameras
    /\ actor = NewActor
    /\ loop = [pc |-> "top", src |-> NoSource]
    /\ calls = [c \in Callers |-> [pc |-> "idle", fair |-> FALSE, clean |-> FALSE]]

At(pc) == actor.thread = "running" /\ loop.pc = pc
Goto(pc) == loop' = [loop EXCEPT !.pc = pc]
TornDown(pc) == loop' = [pc |-> pc, src |-> NoSource]
LoopOnly == UNCHANGED <<camera, calls>>

Top ==
    /\ At("top")
    /\ Goto(CASE actor.stop -> "leave"
              [] ~actor.stop /\ loop.src.open -> "read"
              [] OTHER -> "connect")
    /\ UNCHANGED actor /\ LoopOnly

Connect ==
    /\ At("connect")
    /\ actor' = MarkConnecting(actor)
    /\ Goto("open") /\ LoopOnly

OpenSucceeds ==
    /\ At("open")
    /\ actor' = [actor EXCEPT !.empties = 0]
    /\ loop' = [pc |-> "read", src |-> Opened]
    /\ LoopOnly

(* The stream did not open; a configuration error is one more failure here *)
(* and fatal on the C++ plane.                                             *)
OpenFails ==
    /\ At("open")
    /\ actor' = RecordFailure(actor)
    /\ \/ Goto("sleep")
       \/ Native /\ Goto("fatal")
    /\ LoopOnly

(* The decode runtime is not installed: no retry can fix that.             *)
OpenUnavailable ==
    /\ At("open")
    /\ actor' = RecordFailure(actor)
    /\ Goto("fatal") /\ LoopOnly

(* The three remaining steps of giving up, in the code's order.            *)
LatchFatal ==
    /\ At("fatal")
    /\ actor' = [actor EXCEPT !.fatal = TRUE]
    /\ Goto("condemn") /\ LoopOnly

Condemn ==
    /\ At("condemn")
    /\ actor' = SetState(actor, "unhealthy")
    /\ TornDown("giveup") /\ LoopOnly

SetStop(a) == IF a.stop THEN a ELSE [a EXCEPT !.stop = TRUE, !.late = 0]

(* After a fatal open the loop's own test ends it; refuse_fatally() makes  *)
(* pump() answer false.  Both leave.                                       *)
GiveUp ==
    /\ At("giveup")
    /\ actor' = SetStop(actor)
    /\ Goto("leave") /\ LoopOnly

(* One read.  A frame clears the failure state; silence is counted.        *)
ReadFrame ==
    /\ At("read") /\ actor.read < MaxFrames
    /\ \E r \in ReadOutcomes(loop.src) :
        /\ r.got = "frame"
        /\ loop' = [pc |-> "record", src |-> r.src]
    /\ actor' = ClearFailures(actor)
    /\ LoopOnly

ReadFails ==
    /\ At("read")
    /\ \E r \in ReadOutcomes(loop.src) : r.got = "error"
    /\ actor' = RecordFailure(actor)
    /\ TornDown("sleep") /\ LoopOnly

(* A contract violation out of read(): the C++ camera stops for good.      *)
ReadRefused ==
    /\ At("read") /\ Native /\ camera.kind = "live"
    /\ actor' = RecordFailure(actor)
    /\ Goto("fatal") /\ LoopOnly

ReadNothing ==
    /\ At("read")
    /\ \E r \in ReadOutcomes(loop.src) :
        /\ r.got = "none"
        /\ loop' = [pc |-> "empty", src |-> r.src]
    /\ actor' = [actor EXCEPT !.empties = IF @ < EmptyReadsBeforeReconnect THEN @ + 1 ELSE @]
    /\ LoopOnly

(* _on_empty_read: finish, reconnect, or wait a little.                    *)
OnEmptyRead ==
    /\ At("empty")
    /\ \/ /\ loop.src.exhausted
          /\ actor' = SetState(actor, "exhausted")
          /\ Goto("leave")
       \/ /\ ~loop.src.exhausted /\ actor.empties >= EmptyReadsBeforeReconnect
          /\ actor' = RecordFailure(actor)
          /\ TornDown("sleep")
       \/ /\ ~loop.src.exhausted /\ actor.empties < EmptyReadsBeforeReconnect
          /\ actor' = SetState(actor, "degraded")
          /\ Goto("sleep")
    /\ LoopOnly

Record ==
    /\ At("record")
    /\ actor' = RecordFrame(actor)
    /\ Goto("put") /\ LoopOnly

Handed(a) == [a EXCEPT !.late = IF a.stop THEN @ + 1 ELSE 0]

(* The sink takes the frame, or refuses it (full): counted either way, and *)
(* the camera goes on.                                                     *)
PutAnswered ==
    /\ At("put")
    /\ actor' = Handed(actor)
    /\ Goto("top") /\ LoopOnly

(* The consumer is gone: the camera finishes.                              *)
PutClosed ==
    /\ At("put")
    /\ actor' = Handed(actor)
    /\ Goto("closed") /\ LoopOnly

SinkClosed ==
    /\ At("closed")
    /\ actor' = SetStop(actor)
    /\ Goto("top") /\ LoopOnly

(* Any other exception lands in the loop's safety net, or, if it is a      *)
(* sink's configuration error, in the C++ plane's fatal path.              *)
PutRaises ==
    /\ At("put")
    /\ actor' = RecordFailure(Handed(actor))
    /\ TornDown("sleep") \/ (Native /\ Goto("fatal"))
    /\ LoopOnly

(* Fault: the delay does not hear the stop event and is never over.       *)
SleepForever == At("sleep") /\ UNCHANGED vars

(* A delay, cut short by the stop event or not.                            *)
Sleep ==
    /\ At("sleep")
    /\ Goto("top") /\ UNCHANGED actor /\ LoopOnly

(* The thread's last two critical sections: the check, and the state.      *)
Leave ==
    /\ At("leave")
    /\ TornDown(IF StateIsFinal(actor) THEN "end" ELSE "retire")
    /\ UNCHANGED actor /\ LoopOnly

Retire ==
    /\ At("retire")
    /\ actor' = SetState(actor, "stopped")
    /\ Goto("end") /\ LoopOnly

ThreadEnds ==
    /\ At("end")
    /\ actor' = [actor EXCEPT !.thread = "done", !.finished = TRUE]
    /\ UNCHANGED loop /\ LoopOnly

(***************************************************************************)
(* The callers.                                                            *)
(***************************************************************************)

CallerAt(c, pc) == calls[c].pc = pc
Step(c, pc) == calls' = [calls EXCEPT ![c].pc = pc]
CallOnly == UNCHANGED <<camera, loop>>

(* start(): clear the stop event, show CONNECTING, spawn the thread, and   *)
(* keep its handle.  The C++ actor shows CONNECTING before it clears.      *)
StartBegins ==
    /\ CallerAt(Starter, "idle")
    /\ actor' = IF Native THEN SetState(actor, "connecting")
                          ELSE [actor EXCEPT !.stop = FALSE, !.late = 0]
    /\ Step(Starter, "starting") /\ CallOnly

StartGoesOn ==
    /\ CallerAt(Starter, "starting")
    /\ actor' = IF Native THEN [actor EXCEPT !.stop = FALSE, !.late = 0]
                          ELSE SetState(actor, "connecting")
    /\ Step(Starter, "spawn") /\ CallOnly

Spawn ==
    /\ CallerAt(Starter, "spawn") /\ ~actor.lock
    /\ actor' = [actor EXCEPT !.thread = "running",
                              !.handle = IF Native THEN "joinable" ELSE @]
    /\ Step(Starter, IF Native THEN "done" ELSE "keep") /\ CallOnly

KeepHandle ==
    /\ CallerAt(Starter, "keep")
    /\ actor' = [actor EXCEPT !.handle = "joinable"]
    /\ Step(Starter, "done") /\ CallOnly

(* stop(): ask first.  "fair" records that start() had returned by then.   *)
RequestStop(c) ==
    /\ c \in Stoppers /\ CallerAt(c, "idle")
    /\ actor' = SetStop(actor)
    /\ calls' = [calls EXCEPT ![c].pc = "asked", ![c].fair = CallerAt(Starter, "done")]
    /\ CallOnly

(* Python: a thread that was never started, or is dead, is not joined.     *)
LookAtThread(c) ==
    /\ CallerAt(c, "asked") /\ ~Native
    /\ Step(c, IF actor.handle = "joinable" /\ actor.thread = "running" THEN "join" ELSE "check")
    /\ UNCHANGED actor /\ CallOnly

(* C++: the whole joinable/join/detach section is under lifecycle_mutex_.  *)
LockLifecycle(c) ==
    /\ CallerAt(c, "asked") /\ Native /\ ~actor.lock
    /\ IF actor.handle = "joinable"
       THEN actor' = [actor EXCEPT !.lock = TRUE] /\ Step(c, "join")
       ELSE UNCHANGED actor
            /\ calls' = [calls EXCEPT ![c].pc = "check", ![c].clean = ~actor.abandoned]
    /\ CallOnly

JoinEnds(c) ==
    /\ CallerAt(c, "join") /\ actor.finished
    /\ actor' = [actor EXCEPT !.lock = FALSE, !.handle = IF Native THEN "joined" ELSE @]
    /\ calls' = [calls EXCEPT ![c].pc = "check", ![c].clean = ~actor.abandoned]
    /\ CallOnly

(* The thread is still alive after the grace: it is abandoned, for good.   *)
JoinTimesOut(c) ==
    /\ CallerAt(c, "join") /\ ~actor.finished
    /\ actor' = [actor EXCEPT !.abandoned = TRUE, !.lock = FALSE,
                              !.handle = IF Native THEN "detached" ELSE @]
    /\ calls' = [calls EXCEPT ![c].pc = "check", ![c].clean = FALSE]
    /\ CallOnly

(* Whether the state must survive, in one critical section ...             *)
CheckFinal(c) ==
    /\ CallerAt(c, "check")
    /\ Step(c, IF StateIsFinal(actor) THEN "answer" ELSE "mark")
    /\ UNCHANGED actor /\ CallOnly

(* ... and STOPPED, in another.                                            *)
MarkStopped(c) ==
    /\ CallerAt(c, "mark")
    /\ actor' = SetState(actor, "stopped")
    /\ Step(c, "answer") /\ CallOnly

(* The answer: whether the thread had to be abandoned, by any stopper.     *)
StopAnswers(c) ==
    /\ CallerAt(c, "answer")
    /\ calls' = [calls EXCEPT ![c].pc = "done",
                              ![c].clean = IF Native THEN @ ELSE ~actor.abandoned]
    /\ UNCHANGED actor /\ CallOnly

Loop ==
    \/ Top \/ Connect \/ OpenSucceeds \/ OpenFails \/ OpenUnavailable
    \/ LatchFatal \/ Condemn \/ GiveUp
    \/ ReadFrame \/ ReadFails \/ ReadRefused \/ ReadNothing \/ OnEmptyRead
    \/ Record \/ PutAnswered \/ PutClosed \/ SinkClosed \/ PutRaises
    \/ Sleep \/ Leave \/ Retire \/ ThreadEnds

Call ==
    \/ StartBegins \/ StartGoesOn \/ Spawn \/ KeepHandle
    \/ \E c \in Stoppers :
        \/ RequestStop(c) \/ LookAtThread(c) \/ LockLifecycle(c) \/ JoinEnds(c)
        \/ JoinTimesOut(c) \/ CheckFinal(c) \/ MarkStopped(c) \/ StopAnswers(c)

(* Every caller has returned and the thread, if one ran, is over.          *)
AllReturned ==
    /\ \A c \in Callers : calls[c].pc = "done"
    /\ actor.thread = "done"
    /\ UNCHANGED vars

Next == Loop \/ Call \/ AllReturned

(* The actor thread keeps running: each of its calls into a source, a sink *)
(* or a delay returns, which is what every source's read timeout is for.   *)
Spec == Init /\ [][Next]_vars /\ WF_vars(Loop)

(***************************************************************************)
(* What the actor promises.                                                *)
(***************************************************************************)

(* A stop() called on a started camera and answered "clean" means that the *)
(* thread is over (actor.py:202, actor.cpp:109): the fleet counts on it to *)
(* free what the thread uses.                                              *)
CleanStopMeansEnded ==
    \A c \in Stoppers :
        calls[c].pc = "done" /\ calls[c].fair /\ calls[c].clean => actor.thread = "done"

(* A camera that gave up for good still says UNHEALTHY when its thread is  *)
(* over, whatever stop() did meanwhile: STOPPED can only cover it up when  *)
(* the thread had been abandoned, or stop() ran ahead of start().          *)
FatalStaysVisible ==
    actor.thread = "done" /\ actor.fatal /\ actor.state # "unhealthy"
        => actor.abandoned \/ \E c \in Stoppers : calls[c].pc # "idle" /\ ~calls[c].fair

(* After the stop event is set the camera hands at most one more frame to  *)
(* the sink: the one it was reading or holding.                            *)
AtMostOneLateFrame == actor.late <= 1

(* A clean stop() is a thread that is over, a camera that gave up keeps    *)
(* saying so, and at most one frame comes late.                            *)
StopTellsTheTruth == CleanStopMeansEnded /\ FatalStaysVisible /\ AtMostOneLateFrame

(* A thread that has been asked to stop ends.                              *)
StopEndsThread == actor.thread = "running" /\ actor.stop ~> actor.thread = "done"
=============================================================================
