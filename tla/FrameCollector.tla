--------------------------- MODULE FrameCollector ---------------------------
(***************************************************************************)
(* Reassembly (pipeline/reassembly/collector.py, policy.py): the bounded   *)
(* buffer in which a frame waits for its stages, and from which it leaves  *)
(* exactly once, sealed, timed out, evicted or drained.                    *)
(*                                                                         *)
(* Each method is one action: its changes happen under the collector's     *)
(* lock.  What it removes it hands out in the thread's own list `out` and  *)
(* publishes after the lock is released, one result at a time.             *)
(*                                                                         *)
(* The dictionaries of frames keep the order of insertion.  Here they are  *)
(* sets of keys, ordered by the serial numbers that frames are opened      *)
(* under; so is the list of results, which is published in that order.     *)
(*                                                                         *)
(* Time is left out: a sweep may find any set of frames past its deadline, *)
(* since frames bring deadlines of their own.                              *)
(***************************************************************************)
EXTENDS Integers, FiniteSets

CONSTANTS
    Cameras,    \* camera ids, as numbers: ties are broken by the larger id
    Keys,       \* (camera_id, frame_id) tags
    CameraOf,   \* [Keys -> Cameras]
    Stages,     \* stages of the graph
    Capacity,   \* reassembly.capacity
    Policy,     \* reassembly.eviction_policy
    Threads,    \* threads that call the collector
    MaxOpens    \* bound: frames admitted in one behaviour

ASSUME CollectorAssumption ==
    /\ Cameras \subseteq Nat /\ IsFiniteSet(Cameras)
    /\ IsFiniteSet(Keys) /\ CameraOf \in [Keys -> Cameras]
    /\ Capacity \in Nat \ {0} /\ MaxOpens \in Nat
    /\ Policy \in {"greediest_camera", "oldest_frame"}

VARIABLES
    pending,    \* SUBSET Keys: _pending
    byCamera,   \* _by_camera: a camera is in its domain while it has frames
    frame,      \* [Keys -> [serial, expected, delivered]], for pending keys
    opened,     \* number of frames admitted
    reported,   \* [serials -> how often the frame was handed to emit()]
    out,        \* [Threads -> SUBSET Results]: removed, not published yet
    gauge,      \* [Cameras -> Nat]: the pending_frames series
    gauged      \* SUBSET Cameras: series last written non-zero

collectorVars == <<pending, byCamera, frame, opened, reported, out, gauge, gauged>>

Blank == [serial |-> 0, expected |-> {}, delivered |-> {}]

CollectorInit ==
    /\ pending = {}
    /\ byCamera = [c \in {} |-> {}]
    /\ frame = [k \in Keys |-> Blank]
    /\ opened = 0
    /\ reported = [n \in 1 .. MaxOpens |-> 0]
    /\ out = [t \in Threads |-> {}]
    /\ gauge = [c \in Cameras |-> 0]
    /\ gauged = {}

-----------------------------------------------------------------------------
(* The index by camera.                                                    *)

\* setdefault(camera, {})[key] = None
File(index, k) ==
    LET c == CameraOf[k] IN
    [d \in DOMAIN index \cup {c} |->
        (IF d \in DOMAIN index THEN index[d] ELSE {}) \cup (IF d = c THEN {k} ELSE {})]

\* _forget_camera_locked(): the camera goes with its last key.
Forget(index, ks) ==
    [c \in {d \in DOMAIN index : index[d] \ ks # {}} |-> index[c] \ ks]

CameraCount(c) == Cardinality(byCamera[c])

Greediest(c) ==
    \A d \in DOMAIN byCamera \ {c} :
        CameraCount(d) < CameraCount(c) \/ (CameraCount(d) = CameraCount(c) /\ d < c)

\* oldest(), oldest_overall(): the one of ks that was opened first.
Oldest(ks) == {k \in ks : \A l \in ks : frame[k].serial <= frame[l].serial}

\* Fault: the inherited policy under the new name.
VictimIsOldest == Oldest(pending)

\* GreediestCameraEviction.choose(), OldestFrameEviction.choose()
Victim ==
    IF Policy = "greediest_camera"
    THEN UNION {Oldest(byCamera[c]) : c \in {d \in DOMAIN byCamera : Greediest(d)}}
    ELSE Oldest(pending)

-----------------------------------------------------------------------------
(* Leaving: the result is taken under the lock, published after it.        *)

Missing(k) == frame[k].expected \ frame[k].delivered

Result(k, reason) ==
    [key |-> k, serial |-> frame[k].serial, reason |-> reason, missing |-> Missing(k)]

\* What a thread takes with it.
Taken(ks, reason) == {Result(k, reason) : k \in ks}

\* A key's record once the keys ks have left.
Cleared(ks) == [k \in Keys |-> IF k \in ks THEN Blank ELSE frame[k]]

Remove(ks) ==
    /\ pending' = pending \ ks
    /\ byCamera' = Forget(byCamera, ks)
    /\ frame' = Cleared(ks)

\* _refresh_pending_gauge_locked(), for the index as it is afterwards.
RefreshGauge ==
    /\ gauge' = [c \in Cameras |->
                    IF c \in DOMAIN byCamera' THEN Cardinality(byCamera'[c])
                    ELSE IF c \in gauged THEN 0 ELSE gauge[c]]
    /\ gauged' = DOMAIN byCamera'

-----------------------------------------------------------------------------
(* The operations.                                                         *)

\* _evict_locked(): what a full buffer gives up.
Gone == IF Cardinality(pending) < Capacity THEN {} ELSE Victim

\* Fault: the victim is dropped and nobody hears of it.
OpenDropsVictim(t, k, stages) ==
    /\ k \notin pending /\ opened < MaxOpens
    /\ pending' = (pending \ Gone) \cup {k}
    /\ byCamera' = File(Forget(byCamera, Gone), k)
    /\ frame' = [Cleared(Gone) EXCEPT
                    ![k] = [serial |-> opened + 1, expected |-> stages, delivered |-> {}]]
    /\ opened' = opened + 1
    /\ UNCHANGED <<out, reported, gauge, gauged>>

\* open(), admitting: one slot is made when the buffer is full.
Open(t, k, stages) ==
    /\ k \notin pending /\ opened < MaxOpens
    /\ pending' = (pending \ Gone) \cup {k}
    /\ byCamera' = File(Forget(byCamera, Gone), k)
    /\ frame' = [Cleared(Gone) EXCEPT
                    ![k] = [serial |-> opened + 1, expected |-> stages, delivered |-> {}]]
    /\ opened' = opened + 1
    /\ out' = [out EXCEPT ![t] = Taken(Gone, "evicted")]
    /\ UNCHANGED <<reported, gauge, gauged>>

\* expect(): the set only grows, and a frame that has left is not asked.
Expect(k, stages) ==
    /\ frame' = IF k \in pending
                THEN [frame EXCEPT ![k].expected = @ \cup stages] ELSE frame
    /\ UNCHANGED <<pending, byCamera, opened, reported, out, gauge, gauged>>

\* deliver(): a late arrival has nowhere to go.
Deliver(k, stage) ==
    /\ frame' = IF k \in pending
                THEN [frame EXCEPT ![k].expected = @ \cup {stage},
                                   ![k].delivered = @ \cup {stage}]
                ELSE frame
    /\ UNCHANGED <<pending, byCamera, opened, reported, out, gauge, gauged>>

\* seal(), for a frame that is still there.
Seal(t, k) ==
    /\ k \in pending
    /\ Remove({k})
    /\ out' = [out EXCEPT ![t] =
                  Taken({k}, IF Missing(k) = {} THEN "complete" ELSE "incomplete")]
    /\ UNCHANGED <<opened, reported, gauge, gauged>>

\* Fault: a frame that no stage has answered is not swept.
SweepAnswered(t, expired) ==
    /\ expired \subseteq {k \in pending : frame[k].delivered # {}}
    /\ Remove(expired)
    /\ RefreshGauge
    /\ out' = [out EXCEPT ![t] = Taken(expired, "timeout")]
    /\ UNCHANGED <<opened, reported>>

\* sweep(): every frame past its deadline.
Sweep(t, expired) ==
    /\ expired \subseteq pending
    /\ Remove(expired)
    /\ RefreshGauge
    /\ out' = [out EXCEPT ![t] = Taken(expired, "timeout")]
    /\ UNCHANGED <<opened, reported>>

\* drain(): everything that is left.
Drain(t) ==
    /\ Remove(pending)
    /\ RefreshGauge
    /\ out' = [out EXCEPT ![t] = Taken(pending, "shutdown")]
    /\ UNCHANGED <<opened, reported>>

\* _publish(), one result of the list, the next in order.
Publish(t, r) ==
    /\ r \in out[t] /\ \A q \in out[t] : r.serial <= q.serial
    /\ reported' = [reported EXCEPT ![r.serial] = @ + 1]
    /\ out' = [out EXCEPT ![t] = @ \ {r}]
    /\ UNCHANGED <<pending, byCamera, frame, opened, gauge, gauged>>

-----------------------------------------------------------------------------
(* The collector on its own: any thread that is not publishing calls any   *)
(* method on any key.                                                      *)

Call(t) ==
    /\ out[t] = {}
    /\ \/ \E k \in Keys : \/ \E s \in Stages : Open(t, k, {s}) \/ Deliver(k, s) \/ Expect(k, {s})
                          \/ Seal(t, k)
       \/ \E ks \in SUBSET pending : Sweep(t, ks)
       \/ Drain(t)

CollectorNext == \E t \in Threads : Call(t) \/ \E r \in out[t] : Publish(t, r)

CollectorSpec == CollectorInit /\ [][CollectorNext]_collectorVars

-----------------------------------------------------------------------------
Reasons == {"complete", "incomplete", "timeout", "shutdown", "evicted"}
Results == [key: Keys, serial: 1 .. MaxOpens, reason: Reasons, missing: SUBSET Stages]

\* Every variable keeps to its type, and the index has no empty entry: a
\* camera that has no frame leaves nothing behind.
CollectorTypeOK ==
    /\ pending \subseteq Keys
    /\ DOMAIN byCamera \subseteq Cameras
    /\ \A c \in DOMAIN byCamera : byCamera[c] \subseteq Keys /\ byCamera[c] # {}
    /\ frame \in [Keys -> [serial: 0 .. MaxOpens, expected: SUBSET Stages,
                           delivered: SUBSET Stages]]
    /\ opened \in 0 .. MaxOpens
    /\ reported \in [1 .. MaxOpens -> Nat]
    /\ out \in [Threads -> SUBSET Results]
    /\ gauge \in [Cameras -> Nat] /\ gauged \subseteq Cameras

\* The buffer never holds more frames than its capacity.
WithinCapacity == Cardinality(pending) <= Capacity

\* Both structures agree: each camera's keys are the pending ones of that
\* camera, whatever was evicted, sealed or swept in between.
IndexAgrees ==
    byCamera = [c \in {CameraOf[k] : k \in pending} |-> {k \in pending : CameraOf[k] = c}]

Waiting(n) == {k \in pending : frame[k].serial = n}
InHand(n) == UNION {{<<t, r>> : r \in {q \in out[t] : q.serial = n}} : t \in Threads}

\* Every opened frame is reported exactly once: at any moment it is waiting,
\* in the hands of the one thread that took it out, or reported.
ReportedExactlyOnce ==
    \A n \in 1 .. opened :
        Cardinality(Waiting(n)) + Cardinality(InHand(n)) + reported[n] = 1

\* A flood pays for itself: a camera that holds less than an equal share of
\* the buffer never loses a frame to make room.
QuietKeeps ==
    \A t \in Threads : \A r \in out'[t] :
        r.reason = "evicted" /\ frame[r.key].serial = r.serial =>
            CameraCount(CameraOf[r.key]) * Cardinality(Cameras) >= Capacity

QuietCameraKeepsItsFrames == [][QuietKeeps]_collectorVars

\* A series that reads non-zero is remembered, so the next sweep can take it
\* down: no idle camera reads as a permanent backlog, and what is remembered
\* stays as small as the index.
BacklogRemembered ==
    /\ \A c \in Cameras : gauge[c] # 0 => c \in gauged
    /\ Cardinality(gauged) <= Capacity

\* The buffer's books agree: it is bounded, the index by camera lists what it
\* holds, and the backlog gauge can be taken down again.
BooksAgree == CollectorTypeOK /\ WithinCapacity /\ IndexAgrees /\ BacklogRemembered
=============================================================================
