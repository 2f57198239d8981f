------------------------- MODULE FramePipelineProofs -------------------------
(***************************************************************************)
(* The reassembly buffer, for any number of cameras, keys and threads, any *)
(* capacity and either eviction policy; and futures and frames in the      *)
(* pipeline over it, for any graph, cameras, frames and workers.           *)
(***************************************************************************)
EXTENDS FramePipeline, FiniteSetTheorems, TLAPS

-----------------------------------------------------------------------------
(* The collector's invariant: a serial number is in one place.             *)

\* Serials of frames that wait, or are in a thread's hands, are told apart.
OneFrameEach ==
    /\ \A k \in pending : frame[k].serial \in 1 .. opened
    /\ \A k, l \in pending : frame[k].serial = frame[l].serial => k = l
    /\ \A t, u \in Threads : \A r \in out[t], q \in out[u] :
          r.serial = q.serial => t = u /\ r = q
    /\ \A t \in Threads : \A r \in out[t] :
          r.serial <= opened /\ \A k \in pending : frame[k].serial # r.serial

\* What was reported is in neither, and was reported once.
ReportedIsGone ==
    \A n \in 1 .. MaxOpens :
        /\ reported[n] \in {0, 1}
        /\ n > opened => reported[n] = 0
        /\ reported[n] = 1 =>
              /\ \A k \in pending : frame[k].serial # n
              /\ \A t \in Threads : \A r \in out[t] : r.serial # n

CollectorInv == CollectorTypeOK /\ IndexAgrees /\ OneFrameEach /\ ReportedIsGone

\* An opened frame waits, is in somebody's hands, or was reported.
Somewhere(n) ==
    \/ reported[n] = 1
    \/ \E k \in pending : frame[k].serial = n
    \/ \E t \in Threads : \E r \in out[t] : r.serial = n

NoneMissing == \A n \in 1 .. opened : Somewhere(n)

-----------------------------------------------------------------------------
(* The collector's operations.                                             *)

\* The index by camera of the frames P.
IndexOf(P) == [c \in {CameraOf[k] : k \in P} |-> {k \in P : CameraOf[k] = c}]

LEMMA IndexForgets ==
    ASSUME NEW P, NEW ks
    PROVE  Forget(IndexOf(P), ks) = IndexOf(P \ ks)
<1>1. {c \in {CameraOf[k] : k \in P} : IndexOf(P)[c] \ ks # {}} = {CameraOf[k] : k \in P \ ks}
  BY DEF IndexOf
<1> QED BY <1>1 DEF IndexOf, Forget

LEMMA IndexFiles ==
    ASSUME NEW P, NEW k
    PROVE  File(IndexOf(P), k) = IndexOf(P \cup {k})
<1> DEFINE I == IndexOf(P)
           D == DOMAIN I \cup {CameraOf[k]}
           L(d) == (IF d \in DOMAIN I THEN I[d] ELSE {})
                      \cup (IF d = CameraOf[k] THEN {k} ELSE {})
           R(d) == {l \in P \cup {k} : CameraOf[l] = d}
<1>1. D = {CameraOf[l] : l \in P \cup {k}} BY DEF IndexOf
<1>2. ASSUME NEW d \in D PROVE L(d) = R(d)
  <2>1. CASE d \in DOMAIN I BY <2>1 DEF IndexOf
  <2>2. CASE d \notin DOMAIN I BY <2>2, <1>2 DEF IndexOf
  <2> QED BY <2>1, <2>2
<1>3. File(I, k) = [d \in D |-> L(d)] BY DEF File
<1>4. IndexOf(P \cup {k}) = [d \in D |-> R(d)] BY <1>1 DEF IndexOf
<1> HIDE DEF D, L, R
<1>5. [d \in D |-> L(d)] = [d \in D |-> R(d)] BY <1>2
<1> QED BY <1>3, <1>4, <1>5

LEMMA IndexIs == IndexAgrees <=> byCamera = IndexOf(pending)
BY DEF IndexAgrees, IndexOf

\* The index of keys has the type of an index.
LEMMA IndexTyped ==
    ASSUME NEW P \in SUBSET Keys
    PROVE  /\ DOMAIN IndexOf(P) \subseteq Cameras
           /\ \A c \in DOMAIN IndexOf(P) : IndexOf(P)[c] \subseteq Keys /\ IndexOf(P)[c] # {}
BY CollectorAssumption DEF IndexOf

\* A full buffer gives up frames that wait in it, and one at most.
LEMMA GoneIsOne ==
    ASSUME CollectorInv
    PROVE  Gone \subseteq pending /\ \A k, l \in Gone : k = l
<1> USE DEF CollectorInv
<1>1. ASSUME NEW ks \in SUBSET pending PROVE \A k, l \in Oldest(ks) : k = l
  <2> SUFFICES ASSUME NEW k \in ks, NEW l \in ks, frame[k].serial <= frame[l].serial,
                      frame[l].serial <= frame[k].serial
               PROVE  k = l
    BY DEF Oldest
  <2> QED BY DEF OneFrameEach, CollectorTypeOK
<1>2. Oldest(pending) \subseteq pending BY DEF Oldest
<1>3. ASSUME NEW c \in DOMAIN byCamera
      PROVE  byCamera[c] \subseteq pending /\ CameraCount(c) \in Nat /\ c \in Nat
  <2>1. byCamera[c] \subseteq pending BY <1>3 DEF IndexAgrees
  <2>2. byCamera[c] \subseteq Keys BY <2>1 DEF CollectorTypeOK
  <2>3. CameraCount(c) \in Nat
    BY <2>2, FS_Subset, FS_CardinalityType, CollectorAssumption DEF CameraCount
  <2> QED BY <2>1, <2>3, CollectorAssumption DEF CollectorTypeOK
<1>4. \A c, d \in DOMAIN byCamera : Greediest(c) /\ Greediest(d) => c = d
  BY <1>3 DEF Greediest
<1>5. DEFINE loud == {d \in DOMAIN byCamera : Greediest(d)}
             from == {Oldest(byCamera[c]) : c \in loud}
<1>6. UNION from \subseteq pending BY <1>3 DEF Oldest
<1>7. \A k, l \in UNION from : k = l
  <2> SUFFICES ASSUME NEW c \in loud, NEW d \in loud,
                      NEW k \in Oldest(byCamera[c]), NEW l \in Oldest(byCamera[d])
               PROVE  k = l
    OBVIOUS
  <2> QED BY <1>1, <1>3, <1>4
<1> HIDE DEF from
<1> QED BY <1>1, <1>2, <1>6, <1>7 DEF Gone, Victim, from

Frames == [serial: 0 .. MaxOpens, expected: SUBSET Stages, delivered: SUBSET Stages]

\* Results of frames that wait are results.
LEMMA TakenTyped ==
    ASSUME CollectorInv, NEW ks \in SUBSET pending, NEW reason \in Reasons
    PROVE  Taken(ks, reason) \subseteq Results
<1> SUFFICES ASSUME NEW k \in ks PROVE Result(k, reason) \in Results BY DEF Taken
<1>1. k \in Keys /\ frame[k].serial \in 1 .. MaxOpens
  BY DEF CollectorInv, CollectorTypeOK, OneFrameEach
<1>2. Missing(k) \in SUBSET Stages BY <1>1 DEF CollectorInv, CollectorTypeOK, Missing
<1> QED BY <1>1, <1>2 DEF Result, Results

LEMMA ClearedTyped ==
    ASSUME CollectorTypeOK, NEW ks
    PROVE  /\ Cleared(ks) \in [Keys -> Frames]
           /\ \A k \in Keys \ ks : Cleared(ks)[k] = frame[k]
<1>1. Blank \in Frames BY CollectorAssumption DEF Blank, Frames
<1>2. frame \in [Keys -> Frames] BY DEF CollectorTypeOK, Frames
<1> HIDE DEF Frames
<1> QED BY <1>1, <1>2 DEF Cleared

\* The gauge, after a step that refreshes it.
LEMMA GaugeTyped ==
    ASSUME CollectorTypeOK, RefreshGauge, NEW P \in SUBSET Keys, byCamera' = IndexOf(P)
    PROVE  gauge' \in [Cameras -> Nat] /\ gauged' \subseteq Cameras
<1>1. DOMAIN byCamera' \subseteq Cameras BY IndexTyped
<1>2. \A c \in DOMAIN byCamera' : Cardinality(byCamera'[c]) \in Nat
  <2> TAKE c \in DOMAIN byCamera'
  <2>1. byCamera'[c] \subseteq Keys BY IndexTyped
  <2> QED BY <2>1, FS_Subset, FS_CardinalityType, CollectorAssumption
<1> QED BY <1>1, <1>2 DEF RefreshGauge, CollectorTypeOK

\* A thread takes the frames ks out of the buffer.
Leaves(t, ks, reason) ==
    /\ ks \subseteq pending /\ out[t] = {} /\ reason \in Reasons
    /\ Remove(ks)
    /\ out' = [out EXCEPT ![t] = Taken(ks, reason)]
    /\ UNCHANGED <<opened, reported>>

LEMMA LeavesKeeps ==
    ASSUME CollectorInv, NEW t \in Threads, NEW ks, NEW reason, Leaves(t, ks, reason),
           RefreshGauge \/ UNCHANGED <<gauge, gauged>>
    PROVE  CollectorInv'
<1> USE DEF CollectorInv
<1>1. byCamera' = IndexOf(pending \ ks) /\ pending' = pending \ ks
  BY IndexIs, IndexForgets DEF Leaves, Remove
<1>2. IndexAgrees' BY <1>1 DEF IndexAgrees, IndexOf
<1>3. out' \in [Threads -> SUBSET Results]
      /\ out'[t] = Taken(ks, reason) /\ \A u \in Threads \ {t} : out'[u] = out[u]
  BY TakenTyped DEF Leaves, CollectorTypeOK
<1>4. frame' \in [Keys -> Frames] /\ \A k \in pending' : frame'[k] = frame[k]
  <2>1. frame' = Cleared(ks) BY DEF Leaves, Remove
  <2> QED BY <1>1, <2>1, ClearedTyped DEF CollectorTypeOK
<1>5. CollectorTypeOK'
  <2>1. pending \ ks \in SUBSET Keys BY DEF CollectorTypeOK
  <2>2. gauge' \in [Cameras -> Nat] /\ gauged' \subseteq Cameras
    BY <1>1, <2>1, GaugeTyped DEF CollectorTypeOK
  <2>3. opened' \in 0 .. MaxOpens /\ reported' \in [1 .. MaxOpens -> Nat]
    BY DEF Leaves, CollectorTypeOK
  <2> QED BY <1>1, <1>3, <1>4, <2>1, <2>2, <2>3, IndexTyped DEF CollectorTypeOK, Frames
<1>6. \A r \in out'[t] : r.key \in ks /\ r.serial = frame[r.key].serial
                          /\ r = Result(r.key, reason)
  BY <1>3 DEF Taken, Result
<1>7. OneFrameEach'
  <2>1. \A k \in pending' : frame'[k].serial \in 1 .. opened'
    BY <1>1, <1>4 DEF OneFrameEach, Leaves
  <2>2. \A k, l \in pending' : frame'[k].serial = frame'[l].serial => k = l
    BY <1>1, <1>4 DEF OneFrameEach
  <2>3. \A v, u \in Threads : \A r \in out'[v], q \in out'[u] :
           r.serial = q.serial => v = u /\ r = q
    <3> SUFFICES ASSUME NEW v \in Threads, NEW u \in Threads,
                        NEW r \in out'[v], NEW q \in out'[u], r.serial = q.serial
                 PROVE  v = u /\ r = q
      OBVIOUS
    <3>1. CASE v = t /\ u = t
      <4>1. r.key = q.key BY <3>1, <1>6 DEF OneFrameEach, Leaves
      <4> QED BY <3>1, <4>1, <1>6
    <3>2. CASE v # t /\ u # t BY <3>2, <1>3 DEF OneFrameEach
    <3>3. CASE v = t /\ u # t BY <3>3, <1>3, <1>6 DEF OneFrameEach, Leaves
    <3>4. CASE v # t /\ u = t BY <3>4, <1>3, <1>6 DEF OneFrameEach, Leaves
    <3> QED BY <3>1, <3>2, <3>3, <3>4
  <2>4. ASSUME NEW u \in Threads, NEW r \in out'[u]
        PROVE  r.serial <= opened' /\ \A k \in pending' : frame'[k].serial # r.serial
    <3>1. CASE u = t
      <4>1. frame[r.key].serial \in 1 .. opened BY <3>1, <1>6 DEF OneFrameEach, Leaves
      <4>2. r.serial <= opened' BY <3>1, <4>1, <1>6 DEF Leaves, CollectorTypeOK
      <4>3. \A k \in pending' : frame[k].serial # frame[r.key].serial
        BY <3>1, <1>1, <1>6 DEF OneFrameEach, Leaves
      <4> QED BY <3>1, <4>2, <4>3, <1>4, <1>6
    <3>2. CASE u # t BY <3>2, <1>1, <1>3, <1>4 DEF OneFrameEach, Leaves
    <3> QED BY <3>1, <3>2
  <2> QED BY <2>1, <2>2, <2>3, <2>4 DEF OneFrameEach
<1>8. ReportedIsGone'
  <2> SUFFICES ASSUME NEW n \in 1 .. MaxOpens, reported[n] = 1
               PROVE  /\ \A k \in pending' : frame'[k].serial # n
                      /\ \A u \in Threads : \A r \in out'[u] : r.serial # n
    BY DEF ReportedIsGone, Leaves
  <2>1. \A k \in pending' : frame'[k].serial # n BY <1>1, <1>4 DEF ReportedIsGone
  <2>2. ASSUME NEW u \in Threads, NEW r \in out'[u] PROVE r.serial # n
    <3>1. CASE u = t BY <3>1, <1>6 DEF ReportedIsGone, Leaves
    <3>2. CASE u # t BY <3>2, <1>3 DEF ReportedIsGone
    <3> QED BY <3>1, <3>2
  <2> QED BY <2>1, <2>2
<1> QED BY <1>2, <1>5, <1>7, <1>8

LEMMA LeavesMissesNone ==
    ASSUME CollectorInv, NoneMissing, NEW t \in Threads, NEW ks, NEW reason,
           Leaves(t, ks, reason)
    PROVE  NoneMissing'
<1> SUFFICES ASSUME NEW n \in 1 .. opened, Somewhere(n) PROVE Somewhere(n)'
  BY DEF NoneMissing, Leaves
<1>1. CASE reported[n] = 1 BY <1>1 DEF Somewhere, Leaves
<1>2. ASSUME NEW k \in pending, frame[k].serial = n PROVE Somewhere(n)'
  <2>1. CASE k \in ks
    <3>1. Result(k, reason) \in out'[t] /\ Result(k, reason).serial = n
      BY <1>2, <2>1 DEF Leaves, Taken, Result, CollectorInv, CollectorTypeOK
    <3> QED BY <3>1 DEF Somewhere
  <2>2. CASE k \notin ks
    <3>1. k \in pending' /\ frame'[k] = frame[k]
      BY <2>2, ClearedTyped DEF Leaves, Remove, CollectorInv, CollectorTypeOK
    <3> QED BY <1>2, <3>1 DEF Somewhere
  <2> QED BY <2>1, <2>2
<1>3. ASSUME NEW u \in Threads, NEW r \in out[u], r.serial = n PROVE Somewhere(n)'
  <2>1. r \in out'[u] BY <1>3 DEF Leaves, CollectorInv, CollectorTypeOK
  <2> QED BY <1>3, <2>1 DEF Somewhere
<1> QED BY <1>1, <1>2, <1>3 DEF Somewhere

LEMMA OpenKeeps ==
    ASSUME CollectorInv, NEW t \in Threads, out[t] = {}, NEW k \in Keys,
           NEW stages \in SUBSET Stages, Open(t, k, stages)
    PROVE  CollectorInv'
<1> USE DEF CollectorInv
<1> DEFINE new == [serial |-> opened + 1, expected |-> stages, delivered |-> {}]
<1>1. pending' = (pending \ Gone) \cup {k} /\ byCamera' = IndexOf(pending')
  <2>1. pending' = (pending \ Gone) \cup {k} /\ byCamera' = File(Forget(byCamera, Gone), k)
    BY DEF Open
  <2>2. Forget(byCamera, Gone) = IndexOf(pending \ Gone) BY IndexIs, IndexForgets
  <2> QED BY <2>1, <2>2, IndexFiles
<1>2. IndexAgrees' BY <1>1 DEF IndexAgrees, IndexOf
<1>3. opened' = opened + 1 /\ opened' \in 1 .. MaxOpens /\ opened \in Nat /\ reported' = reported
  BY CollectorAssumption DEF Open, CollectorTypeOK
<1>4. Gone \subseteq pending BY GoneIsOne
<1>5. /\ out' \in [Threads -> SUBSET Results]
      /\ out'[t] = Taken(Gone, "evicted") /\ \A u \in Threads \ {t} : out'[u] = out[u]
  BY <1>4, TakenTyped DEF Open, CollectorTypeOK, Reasons
<1>6. /\ frame' \in [Keys -> Frames] /\ frame'[k] = new
      /\ \A l \in pending \ Gone : l # k /\ frame'[l] = frame[l]
  <2>1. new \in Frames BY <1>3, CollectorAssumption DEF Frames
  <2>2. frame' = [Cleared(Gone) EXCEPT ![k] = new] BY DEF Open
  <2>3. k \notin pending BY DEF Open
  <2> HIDE DEF new
  <2> QED BY <2>1, <2>2, <2>3, ClearedTyped DEF CollectorTypeOK
<1>7. CollectorTypeOK'
  <2>1. pending' \in SUBSET Keys BY <1>1 DEF CollectorTypeOK
  <2>2. opened' \in 0 .. MaxOpens /\ reported' \in [1 .. MaxOpens -> Nat]
        /\ gauge' \in [Cameras -> Nat] /\ gauged' \subseteq Cameras
    BY <1>3 DEF Open, CollectorTypeOK
  <2> QED BY <1>1, <1>5, <1>6, <2>1, <2>2, IndexTyped DEF CollectorTypeOK, Frames
<1>8. \A r \in out'[t] : r.key \in Gone /\ r.serial = frame[r.key].serial
                          /\ r = Result(r.key, "evicted")
  BY <1>5 DEF Taken, Result
<1>9. \A l \in pending' : \/ l = k /\ frame'[l].serial = opened + 1
                          \/ l \in pending \ Gone /\ frame'[l] = frame[l]
  BY <1>1, <1>6
<1>10. \A l \in pending : frame[l].serial \in 1 .. opened BY DEF OneFrameEach
<1>11. \A u \in Threads : \A r \in out'[u] : r.serial \in Nat /\ r.serial <= opened
  <2> SUFFICES ASSUME NEW u \in Threads, NEW r \in out'[u]
               PROVE  r.serial \in Nat /\ r.serial <= opened
    OBVIOUS
  <2>1. CASE u = t BY <2>1, <1>3, <1>4, <1>8, <1>10
  <2>2. CASE u # t
    <3>1. r \in out[u] /\ r \in Results BY <2>2, <1>5 DEF CollectorTypeOK
    <3>2. r.serial \in Nat BY <3>1 DEF Results
    <3> QED BY <3>1, <3>2 DEF OneFrameEach
  <2> QED BY <2>1, <2>2
<1>12. OneFrameEach'
  <2>1. \A l \in pending' : frame'[l].serial \in 1 .. opened' BY <1>3, <1>9, <1>10
  <2>2. \A l, m \in pending' : frame'[l].serial = frame'[m].serial => l = m
    <3> SUFFICES ASSUME NEW l \in pending', NEW m \in pending',
                        frame'[l].serial = frame'[m].serial
                 PROVE  l = m
      OBVIOUS
    <3> QED BY <1>3, <1>9, <1>10 DEF OneFrameEach
  <2>3. \A v, u \in Threads : \A r \in out'[v], q \in out'[u] :
           r.serial = q.serial => v = u /\ r = q
    <3> SUFFICES ASSUME NEW v \in Threads, NEW u \in Threads,
                        NEW r \in out'[v], NEW q \in out'[u], r.serial = q.serial
                 PROVE  v = u /\ r = q
      OBVIOUS
    <3>1. CASE v = t /\ u = t
      <4>1. r.key = q.key BY <3>1, <1>4, <1>8 DEF OneFrameEach
      <4> QED BY <3>1, <4>1, <1>8
    <3>2. CASE v # t /\ u # t BY <3>2, <1>5 DEF OneFrameEach
    <3>3. CASE v = t /\ u # t BY <3>3, <1>4, <1>5, <1>8 DEF OneFrameEach
    <3>4. CASE v # t /\ u = t BY <3>4, <1>4, <1>5, <1>8 DEF OneFrameEach
    <3> QED BY <3>1, <3>2, <3>3, <3>4
  <2>4. ASSUME NEW u \in Threads, NEW r \in out'[u]
        PROVE  r.serial <= opened' /\ \A l \in pending' : frame'[l].serial # r.serial
    <3>1. r.serial <= opened' BY <1>3, <1>11
    <3>2. ASSUME NEW l \in pending' PROVE frame'[l].serial # r.serial
      <4>1. CASE l = k BY <4>1, <1>3, <1>9, <1>11, <1>4, <1>6
      <4>2. CASE l # k /\ u = t
        <5>1. l \in pending \ Gone /\ frame'[l] = frame[l] BY <4>2, <1>9
        <5> QED BY <4>2, <5>1, <1>4, <1>8 DEF OneFrameEach
      <4>3. CASE l # k /\ u # t BY <4>3, <1>5, <1>9 DEF OneFrameEach
      <4> QED BY <4>1, <4>2, <4>3
    <3> QED BY <3>1, <3>2
  <2> QED BY <2>1, <2>2, <2>3, <2>4 DEF OneFrameEach
<1>13. ReportedIsGone'
  <2> SUFFICES ASSUME NEW n \in 1 .. MaxOpens
               PROVE  /\ reported[n] \in {0, 1} /\ (n > opened' => reported[n] = 0)
                      /\ reported[n] = 1 =>
                            /\ \A l \in pending' : frame'[l].serial # n
                            /\ \A u \in Threads : \A r \in out'[u] : r.serial # n
    BY <1>3 DEF ReportedIsGone
  <2>1. reported[n] \in {0, 1} /\ (n > opened' => reported[n] = 0)
    BY <1>3 DEF ReportedIsGone
  <2>2. ASSUME reported[n] = 1, NEW l \in pending' PROVE frame'[l].serial # n
    BY <1>3, <1>9, <2>2, CollectorAssumption DEF ReportedIsGone
  <2>3. ASSUME reported[n] = 1, NEW u \in Threads, NEW r \in out'[u] PROVE r.serial # n
    <3>1. CASE u = t BY <3>1, <2>3, <1>4, <1>8 DEF ReportedIsGone
    <3>2. CASE u # t BY <3>2, <2>3, <1>5 DEF ReportedIsGone
    <3> QED BY <3>1, <3>2
  <2> QED BY <2>1, <2>2, <2>3
<1> QED BY <1>2, <1>7, <1>12, <1>13

LEMMA OpenMissesNone ==
    ASSUME CollectorInv, NoneMissing, NEW t \in Threads, out[t] = {}, NEW k \in Keys,
           NEW stages \in SUBSET Stages, Open(t, k, stages)
    PROVE  NoneMissing'
<1> USE DEF CollectorInv, CollectorTypeOK
<1>1. opened' = opened + 1 /\ opened \in Nat BY CollectorAssumption DEF Open
<1>2. /\ \A l \in Gone : Result(l, "evicted") \in out'[t]
      /\ \A u \in Threads : out[u] \subseteq out'[u]
  BY DEF Open, Taken
<1>3. k \in pending' /\ frame'[k].serial = opened + 1
      /\ \A l \in pending \ Gone : l \in pending' /\ frame'[l] = frame[l]
  <2>1. Cleared(Gone) \in [Keys -> Frames] BY ClearedTyped
  <2>2. \A l \in pending \ Gone : l # k /\ Cleared(Gone)[l] = frame[l] BY ClearedTyped DEF Open
  <2> QED BY <2>1, <2>2 DEF Open
<1> SUFFICES ASSUME NEW n \in 1 .. opened + 1 PROVE Somewhere(n)' BY <1>1 DEF NoneMissing
<1>4. CASE n = opened + 1 BY <1>3, <1>4 DEF Somewhere
<1>5. CASE n \in 1 .. opened
  <2>1. CASE reported[n] = 1 BY <2>1 DEF Somewhere, Open
  <2>2. ASSUME NEW l \in pending, frame[l].serial = n PROVE Somewhere(n)'
    <3>1. CASE l \in Gone
      <4>1. Result(l, "evicted").serial = n BY <2>2 DEF Result
      <4> QED BY <3>1, <4>1, <1>2 DEF Somewhere
    <3>2. CASE l \notin Gone BY <2>2, <3>2, <1>3 DEF Somewhere
    <3> QED BY <3>1, <3>2
  <2>3. ASSUME NEW u \in Threads, NEW r \in out[u], r.serial = n PROVE Somewhere(n)'
    BY <2>3, <1>2 DEF Somewhere
  <2> QED BY <1>5, <2>1, <2>2, <2>3 DEF Somewhere, NoneMissing
<1> QED BY <1>1, <1>4, <1>5

\* Stages are expected and delivered in place.
LEMMA RecordKeeps ==
    ASSUME CollectorInv, NEW k \in Keys, NEW stages \in SUBSET Stages, NEW s \in Stages,
           Expect(k, stages) \/ Deliver(k, s)
    PROVE  CollectorInv' /\ (NoneMissing => NoneMissing')
<1> USE DEF CollectorInv
<1>1. UNCHANGED <<pending, byCamera, opened, reported, out, gauge, gauged>>
  BY DEF Expect, Deliver
<1>2. frame \in [Keys -> Frames] BY DEF CollectorTypeOK, Frames
<1>3. frame' \in [Keys -> Frames] /\ \A l \in Keys : frame'[l].serial = frame[l].serial
  <2>1. frame[k] \in Frames BY <1>2
  <2>2. frame[k].expected \cup stages \in SUBSET Stages
        /\ frame[k].expected \cup {s} \in SUBSET Stages
        /\ frame[k].delivered \cup {s} \in SUBSET Stages
    BY <2>1 DEF Frames
  <2>3. CASE Expect(k, stages)
    <3>1. frame' = frame
          \/ frame' = [frame EXCEPT ![k] = [frame[k] EXCEPT !.expected = @ \cup stages]]
      BY <1>2, <2>3 DEF Expect
    <3>2. [frame[k] EXCEPT !.expected = @ \cup stages] \in Frames BY <2>1, <2>2 DEF Frames
    <3>3. [frame[k] EXCEPT !.expected = @ \cup stages].serial = frame[k].serial
      BY <2>1 DEF Frames
    <3> QED BY <1>2, <3>1, <3>2, <3>3
  <2>4. CASE Deliver(k, s)
    <3> DEFINE f == [frame[k] EXCEPT !.expected = @ \cup {s}, !.delivered = @ \cup {s}]
    <3>1. frame' = frame \/ frame' = [frame EXCEPT ![k] = f] BY <1>2, <2>4 DEF Deliver
    <3>2. f \in Frames BY <2>1, <2>2 DEF Frames
    <3>3. f.serial = frame[k].serial BY <2>1 DEF Frames
    <3> HIDE DEF f
    <3> QED BY <1>2, <3>1, <3>2, <3>3
  <2> QED BY <2>3, <2>4
<1>4. CollectorTypeOK' BY <1>1, <1>3 DEF CollectorTypeOK, Frames
<1>5. IndexAgrees' BY <1>1 DEF IndexAgrees
<1>6. \A l \in pending : frame'[l].serial = frame[l].serial BY <1>3 DEF CollectorTypeOK
<1>7. OneFrameEach' BY <1>1, <1>6 DEF OneFrameEach
<1>8. ReportedIsGone' BY <1>1, <1>6 DEF ReportedIsGone
<1>9. NoneMissing => NoneMissing' BY <1>1, <1>6 DEF NoneMissing, Somewhere
<1> QED BY <1>4, <1>5, <1>7, <1>8, <1>9

LEMMA PublishKeeps ==
    ASSUME CollectorInv, NEW t \in Threads, NEW r \in out[t], Publish(t, r)
    PROVE  CollectorInv' /\ (NoneMissing => NoneMissing')
<1> USE DEF CollectorInv
<1>1. UNCHANGED <<pending, byCamera, frame, opened, gauge, gauged>> BY DEF Publish
<1>2. out' \in [Threads -> SUBSET Results] /\ out'[t] = out[t] \ {r}
      /\ \A u \in Threads \ {t} : out'[u] = out[u]
  BY DEF Publish, CollectorTypeOK
<1>3. r \in Results /\ r.serial \in 1 .. MaxOpens BY DEF CollectorTypeOK, Results
<1>4. reported[r.serial] = 0 BY <1>3 DEF ReportedIsGone
<1>5. reported' \in [1 .. MaxOpens -> Nat] /\ reported'[r.serial] = 1
      /\ \A n \in 1 .. MaxOpens \ {r.serial} : reported'[n] = reported[n]
  BY <1>3, <1>4 DEF Publish, CollectorTypeOK
<1>6. CollectorTypeOK' BY <1>1, <1>2, <1>5 DEF CollectorTypeOK
<1>7. IndexAgrees' BY <1>1 DEF IndexAgrees
<1>8. \A u \in Threads : out'[u] \subseteq out[u] BY <1>2
<1>9. OneFrameEach'
  <2>1. \A k \in pending' : frame'[k].serial \in 1 .. opened' BY <1>1 DEF OneFrameEach
  <2>2. \A k, l \in pending' : frame'[k].serial = frame'[l].serial => k = l
    BY <1>1 DEF OneFrameEach
  <2>3. \A v, u \in Threads : \A p \in out'[v], q \in out'[u] :
           p.serial = q.serial => v = u /\ p = q
    BY <1>8 DEF OneFrameEach
  <2>4. \A u \in Threads : \A q \in out'[u] :
           q.serial <= opened' /\ \A k \in pending' : frame'[k].serial # q.serial
    BY <1>1, <1>8 DEF OneFrameEach
  <2> QED BY <2>1, <2>2, <2>3, <2>4 DEF OneFrameEach
<1>10. ReportedIsGone'
  <2> SUFFICES ASSUME NEW n \in 1 .. MaxOpens
               PROVE  /\ reported'[n] \in {0, 1} /\ (n > opened => reported'[n] = 0)
                      /\ reported'[n] = 1 =>
                            /\ \A k \in pending : frame[k].serial # n
                            /\ \A u \in Threads : \A q \in out'[u] : q.serial # n
    BY <1>1 DEF ReportedIsGone
  <2>1. CASE n = r.serial
    <3>1. n <= opened /\ \A k \in pending : frame[k].serial # n BY <2>1 DEF OneFrameEach
    <3>2. \A u \in Threads : \A q \in out'[u] : q.serial # n
      <4> SUFFICES ASSUME NEW u \in Threads, NEW q \in out'[u], q.serial = n PROVE FALSE
        OBVIOUS
      <4>1. u = t /\ q = r BY <2>1, <1>8 DEF OneFrameEach
      <4> QED BY <4>1, <1>2
    <3> QED BY <2>1, <3>1, <3>2, <1>5 DEF CollectorTypeOK
  <2>2. CASE n # r.serial BY <2>2, <1>5, <1>8 DEF ReportedIsGone
  <2> QED BY <2>1, <2>2
<1>11. ASSUME NoneMissing PROVE NoneMissing'
  <2> SUFFICES ASSUME NEW n \in 1 .. opened, Somewhere(n) PROVE Somewhere(n)'
    BY <1>1, <1>11 DEF NoneMissing
  <2>1. n \in 1 .. MaxOpens BY CollectorAssumption DEF CollectorTypeOK
  <2>2. CASE n = r.serial BY <2>2, <1>5 DEF Somewhere
  <2>3. CASE n # r.serial
    <3>1. reported'[n] = reported[n] BY <2>1, <2>3, <1>5
    <3>2. ASSUME NEW u \in Threads, NEW q \in out[u], q.serial = n PROVE Somewhere(n)'
      <4>1. q \in out'[u] BY <3>2, <2>3, <1>2
      <4> QED BY <4>1, <3>2 DEF Somewhere
    <3> QED BY <3>1, <3>2, <1>1 DEF Somewhere
  <2> QED BY <2>2, <2>3
<1> QED BY <1>6, <1>7, <1>9, <1>10, <1>11

\* Emitting raised: what the thread still had to publish goes with it.
LEMMA DropKeeps ==
    ASSUME CollectorInv, NEW t \in Threads, out' = [out EXCEPT ![t] = {}],
           UNCHANGED <<pending, byCamera, frame, opened, reported, gauge, gauged>>
    PROVE  CollectorInv'
<1> USE DEF CollectorInv
<1>1. out' \in [Threads -> SUBSET Results] /\ \A u \in Threads : out'[u] \subseteq out[u]
  BY DEF CollectorTypeOK
<1>2. CollectorTypeOK' BY <1>1 DEF CollectorTypeOK
<1>3. IndexAgrees' BY DEF IndexAgrees
<1>4. OneFrameEach' BY <1>1 DEF OneFrameEach
<1>5. ReportedIsGone' BY <1>1 DEF ReportedIsGone
<1> QED BY <1>2, <1>3, <1>4, <1>5

LEMMA CollectorUntouched ==
    ASSUME CollectorInv, UNCHANGED collectorVars
    PROVE  CollectorInv' /\ (NoneMissing => NoneMissing')
<1> USE DEF CollectorInv, collectorVars
<1>1. CollectorTypeOK' BY DEF CollectorTypeOK
<1>2. IndexAgrees' BY DEF IndexAgrees
<1>3. OneFrameEach' BY DEF OneFrameEach
<1>4. ReportedIsGone' BY DEF ReportedIsGone
<1>5. NoneMissing => NoneMissing' BY DEF NoneMissing, Somewhere
<1> QED BY <1>1, <1>2, <1>3, <1>4, <1>5

LEMMA CollectorStarts == CollectorInit => CollectorInv /\ NoneMissing
<1> SUFFICES ASSUME CollectorInit PROVE CollectorInv /\ NoneMissing OBVIOUS
<1> USE CollectorAssumption DEF CollectorInit
<1>1. CollectorTypeOK BY DEF CollectorTypeOK, Blank
<1>2. IndexAgrees BY DEF IndexAgrees
<1>3. OneFrameEach /\ ReportedIsGone BY DEF OneFrameEach, ReportedIsGone
<1>4. NoneMissing BY DEF NoneMissing
<1> QED BY <1>1, <1>2, <1>3, <1>4 DEF CollectorInv

\* Told apart and none missing: each is in exactly one place.
LEMMA ExactlyOnce ==
    ASSUME CollectorInv, NEW n \in 1 .. opened
    PROVE  /\ Cardinality(Waiting(n)) \in Nat /\ Cardinality(InHand(n)) \in Nat
           /\ reported[n] \in Nat
           /\ Cardinality(Waiting(n)) + Cardinality(InHand(n)) + reported[n] <= 1
           /\ Somewhere(n) => Cardinality(Waiting(n)) + Cardinality(InHand(n)) + reported[n] = 1
<1> USE DEF CollectorInv
<1> DEFINE W == Waiting(n)
           H == InHand(n)
<1>1. n \in 1 .. MaxOpens BY CollectorAssumption DEF CollectorTypeOK
<1>2. reported[n] \in {0, 1} BY <1>1 DEF ReportedIsGone
<1>3. \A k, l \in W : k = l BY DEF Waiting, OneFrameEach
<1>4. H = UNION {{<<t, r>> : r \in {q \in out[t] : q.serial = n}} : t \in Threads} BY DEF InHand
<1>5. \A h \in H : \E t \in Threads : \E r \in out[t] : r.serial = n /\ h = <<t, r>> BY <1>4
<1>6. \A t \in Threads : \A r \in out[t] : r.serial = n => <<t, r>> \in H BY <1>4
<1>7. \A g, h \in H : g = h BY <1>5 DEF OneFrameEach
<1>8. W # {} => H = {} /\ reported[n] = 0
  BY <1>1, <1>2, <1>5 DEF Waiting, OneFrameEach, ReportedIsGone
<1>9. H # {} => reported[n] = 0 BY <1>1, <1>2, <1>5 DEF ReportedIsGone
<1>10. Somewhere(n) => W # {} \/ H # {} \/ reported[n] = 1 BY <1>6 DEF Somewhere, Waiting
<1> HIDE DEF W, H
<1>11. ASSUME NEW S, \A x, y \in S : x = y
       PROVE  Cardinality(S) = IF S = {} THEN 0 ELSE 1
  <2>1. CASE S = {} BY <2>1, FS_EmptySet
  <2>2. CASE S # {}
    <3> PICK x \in S : TRUE BY <2>2
    <3>1. S = {x} BY <1>11
    <3> QED BY <3>1, FS_Singleton
  <2> QED BY <2>1, <2>2
<1>12. Cardinality(W) = (IF W = {} THEN 0 ELSE 1) /\ Cardinality(H) = (IF H = {} THEN 0 ELSE 1)
  BY <1>3, <1>7, <1>11
<1> QED BY <1>2, <1>8, <1>9, <1>10, <1>12 DEF W, H

-----------------------------------------------------------------------------
(* The buffer on its own: its bound, its backlog gauge, and its victims.   *)

\* The cameras that hold more than c, or as much under a larger id.
Louder(c) ==
    {d \in DOMAIN byCamera : CameraCount(c) < CameraCount(d)
                             \/ (CameraCount(c) = CameraCount(d) /\ c < d)}

LEMMA CountsAre ==
    ASSUME CollectorInv
    PROVE  /\ IsFiniteSet(pending) /\ Cardinality(pending) \in Nat
           /\ IsFiniteSet(DOMAIN byCamera) /\ DOMAIN byCamera \subseteq Nat
           /\ \A c \in DOMAIN byCamera :
                 IsFiniteSet(byCamera[c]) /\ CameraCount(c) \in Nat
<1>1. IsFiniteSet(pending) /\ Cardinality(pending) \in Nat
  BY CollectorAssumption, FS_Subset, FS_CardinalityType DEF CollectorInv, CollectorTypeOK
<1>2. IsFiniteSet(DOMAIN byCamera) /\ DOMAIN byCamera \subseteq Nat
  BY CollectorAssumption, FS_Subset DEF CollectorInv, CollectorTypeOK
<1>3. ASSUME NEW c \in DOMAIN byCamera
      PROVE  IsFiniteSet(byCamera[c]) /\ CameraCount(c) \in Nat
  <2>1. byCamera[c] \subseteq Keys BY <1>3 DEF CollectorInv, CollectorTypeOK
  <2> QED BY <2>1, CollectorAssumption, FS_Subset, FS_CardinalityType DEF CameraCount
<1> QED BY <1>1, <1>2, <1>3

\* Some camera has no louder one.
LEMMA SomeGreediest ==
    ASSUME CollectorInv, DOMAIN byCamera # {}
    PROVE  \E c \in DOMAIN byCamera : Greediest(c)
<1> DEFINE D == DOMAIN byCamera
           Ls == {Louder(c) : c \in D}
<1>1. \A c \in D : Louder(c) \in FiniteSubsetsOf(D)
  BY CountsAre, FS_Subset DEF Louder, FiniteSubsetsOf
<1>2. PICK L \in Ls : \A M \in Ls : ~(<<M, L>> \in StrictSubsetOrdering(D))
  <2>1. Ls \subseteq FiniteSubsetsOf(D) /\ Ls # {} BY <1>1
  <2> HIDE DEF D, Ls
  <2> QED BY <2>1, FS_StrictSubsetOrderingWellFounded, WFMin
<1>3. PICK c \in D : L = Louder(c) BY <1>2
<1>4. ASSUME NEW d \in Louder(c) PROVE FALSE
  <2>1. c \in Nat /\ d \in D /\ d \in Nat /\ CameraCount(c) \in Nat /\ CameraCount(d) \in Nat
    BY CountsAre DEF Louder
  <2>2. Louder(d) \subseteq Louder(c)
    BY <1>4, <2>1, CountsAre DEF Louder
  <2>3. d \notin Louder(d) BY <2>1 DEF Louder
  <2>4. <<Louder(d), L>> \in StrictSubsetOrdering(D)
    BY <1>3, <1>4, <2>2, <2>3 DEF StrictSubsetOrdering, Louder
  <2> QED BY <1>2, <2>1, <2>4
<1>5. Greediest(c)
  <2> SUFFICES ASSUME NEW d \in D \ {c}
               PROVE  CameraCount(d) < CameraCount(c)
                      \/ (CameraCount(d) = CameraCount(c) /\ d < c)
    BY DEF Greediest
  <2>1. d \notin Louder(c) BY <1>4
  <2> QED BY <2>1, CountsAre DEF Louder
<1> QED BY <1>5

\* Of frames that wait, one was opened first.
LEMMA SomeOldest ==
    ASSUME CollectorInv, NEW ks \in SUBSET pending, ks # {}
    PROVE  Oldest(ks) # {}
<1> DEFINE T == {frame[k].serial : k \in ks}
           R == OpToRel(<, Nat)
<1>1. T \subseteq Nat /\ T # {} BY CollectorAssumption DEF CollectorInv, CollectorTypeOK
<1>2. \A i, j \in Nat : i < j => <<i, j>> \in R BY DEF OpToRel
<1>3. \E n \in T : \A m \in T : ~(<<m, n>> \in R)
  <2>1. IsWellFoundedOn(R, Nat) BY NatLessThanWellFounded
  <2> HIDE DEF T, R
  <2> QED BY <1>1, <2>1, WFMin
<1> HIDE DEF R
<1>4. PICK n \in T : \A m \in T : ~(<<m, n>> \in R) BY <1>3
<1>5. ASSUME NEW m \in T PROVE n <= m
  <2>1. m \in Nat /\ n \in Nat /\ ~(<<m, n>> \in R) BY <1>1, <1>4
  <2>2. ~(m < n) BY <1>2, <2>1
  <2> QED BY <2>1, <2>2
<1> QED BY <1>5 DEF Oldest

\* A buffer that holds frames has a victim, whatever the policy.
LEMMA VictimExists == ASSUME CollectorInv, pending # {} PROVE Victim # {}
<1>1. Policy = "oldest_frame" => Victim # {} BY SomeOldest DEF Victim
<1>2. ASSUME Policy = "greediest_camera" PROVE Victim # {}
  <2>1. DOMAIN byCamera # {} BY DEF CollectorInv, IndexAgrees
  <2>2. PICK c \in DOMAIN byCamera : Greediest(c) BY <2>1, SomeGreediest
  <2>3. byCamera[c] \subseteq pending /\ byCamera[c] # {}
    BY DEF CollectorInv, CollectorTypeOK, IndexAgrees
  <2> QED BY <1>2, <2>2, <2>3, SomeOldest DEF Victim
<1> QED BY <1>1, <1>2, CollectorAssumption DEF CollectorInv

\* Room is made for the frame that is opened.
LEMMA OpenFits ==
    ASSUME CollectorInv, WithinCapacity, NEW t, NEW k, NEW stages, Open(t, k, stages)
    PROVE  WithinCapacity'
<1>1. pending' = (pending \ Gone) \cup {k} /\ k \notin pending BY DEF Open
<1>2. IsFiniteSet(pending) /\ Cardinality(pending) \in Nat BY CountsAre
<1>3. CASE Cardinality(pending) < Capacity
  <2>1. pending' = pending \cup {k} BY <1>1, <1>3 DEF Gone
  <2>2. Cardinality(pending') = Cardinality(pending) + 1 BY <1>1, <1>2, <2>1, FS_AddElement
  <2> QED BY <1>2, <1>3, <2>2, CollectorAssumption DEF WithinCapacity
<1>4. CASE ~(Cardinality(pending) < Capacity)
  <2>1. pending # {} BY <1>2, <1>4, FS_EmptySet, CollectorAssumption
  <2>2. PICK x \in Gone : TRUE BY <1>4, <2>1, VictimExists DEF Gone
  <2>3. Gone = {x} /\ x \in pending BY GoneIsOne
  <2>4. IsFiniteSet(pending \ {x}) /\ Cardinality(pending \ {x}) = Cardinality(pending) - 1
    BY <1>2, <2>3, FS_RemoveElement
  <2>5. Cardinality((pending \ {x}) \cup {k}) = Cardinality(pending \ {x}) + 1
    BY <1>1, <2>4, FS_AddElement
  <2> QED BY <1>1, <1>2, <2>3, <2>4, <2>5 DEF WithinCapacity
<1> QED BY <1>3, <1>4

\* There are no more backlogged cameras than frames.
LEMMA FewCameras ==
    ASSUME NEW P \in SUBSET Keys
    PROVE  Cardinality({CameraOf[k] : k \in P}) <= Cardinality(P)
<1> DEFINE C == {CameraOf[k] : k \in P}
           f == [k \in P |-> CameraOf[k]]
<1>1. f \in Surjection(P, C) BY DEF Surjection
<1>2. IsFiniteSet(P) BY CollectorAssumption, FS_Subset
<1> HIDE DEF C, f
<1> QED BY <1>1, <1>2, FS_Surjection DEF C

\* A frame that does not wait has no record.
GoneAreBlank == \A k \in Keys \ pending : frame[k].serial = 0

\* The invariant of the buffer on its own.
BufferInv == CollectorInv /\ NoneMissing /\ WithinCapacity /\ BacklogRemembered /\ GoneAreBlank

LEMMA BacklogStays ==
    ASSUME BacklogRemembered, UNCHANGED <<gauge, gauged>>
    PROVE  BacklogRemembered'
BY DEF BacklogRemembered

LEMMA BufferLeaves ==
    ASSUME BufferInv, NEW t \in Threads, NEW ks, NEW reason, Leaves(t, ks, reason),
           RefreshGauge \/ UNCHANGED <<gauge, gauged>>
    PROVE  BufferInv'
<1> USE DEF BufferInv
<1>1. CollectorInv' /\ NoneMissing' BY LeavesKeeps, LeavesMissesNone
<1>2. pending' = pending \ ks /\ frame' = Cleared(ks) /\ byCamera' = Forget(byCamera, ks)
  BY DEF Leaves, Remove
<1>3. Cardinality(pending') \in Nat /\ Cardinality(pending') <= Cardinality(pending)
  BY <1>2, CountsAre, FS_Subset, FS_CardinalityType
<1>4. WithinCapacity'
  BY <1>3, CountsAre, CollectorAssumption DEF WithinCapacity
<1>5. GoneAreBlank'
  BY <1>2, ClearedTyped DEF GoneAreBlank, Cleared, Blank, CollectorInv
<1>6. BacklogRemembered'
  <2>1. CASE UNCHANGED <<gauge, gauged>> BY <2>1, BacklogStays
  <2>2. CASE RefreshGauge
    <3>1. gauged' = {CameraOf[k] : k \in pending'}
      BY <1>1, <2>2 DEF RefreshGauge, CollectorInv, IndexAgrees
    <3>2. pending' \subseteq Keys BY <1>1 DEF CollectorInv, CollectorTypeOK
    <3>3. Cardinality(gauged') <= Cardinality(pending') /\ Cardinality(gauged') \in Nat
      BY <1>1, <3>1, <3>2, FewCameras, CollectorAssumption, FS_Subset, FS_CardinalityType
      DEF CollectorInv, CollectorTypeOK
    <3>4. Cardinality(gauged') <= Capacity
      BY <1>3, <1>4, <3>3, CollectorAssumption DEF WithinCapacity
    <3>5. \A c \in Cameras : gauge'[c] # 0 => c \in gauged'
      BY <2>2 DEF RefreshGauge, BacklogRemembered
    <3> QED BY <3>4, <3>5 DEF BacklogRemembered
  <2> QED BY <2>1, <2>2
<1> QED BY <1>1, <1>4, <1>5, <1>6

LEMMA BufferOpens ==
    ASSUME BufferInv, NEW t \in Threads, out[t] = {}, NEW k \in Keys,
           NEW stages \in SUBSET Stages, Open(t, k, stages)
    PROVE  BufferInv'
<1> USE DEF BufferInv
<1>1. CollectorInv' /\ NoneMissing' BY OpenKeeps, OpenMissesNone
<1>2. WithinCapacity' BY OpenFits
<1>3. GoneAreBlank'
  <2>1. pending' = (pending \ Gone) \cup {k}
        /\ \A l \in Keys : l # k => frame'[l] = Cleared(Gone)[l]
    BY ClearedTyped DEF Open, CollectorInv
  <2> QED BY <2>1, ClearedTyped DEF GoneAreBlank, Cleared, Blank, CollectorInv
<1>4. BacklogRemembered' BY BacklogStays DEF Open
<1> QED BY <1>1, <1>2, <1>3, <1>4

LEMMA BufferRecords ==
    ASSUME BufferInv, NEW k \in Keys, NEW s \in Stages, Expect(k, {s}) \/ Deliver(k, s)
    PROVE  BufferInv'
<1> USE DEF BufferInv
<1>1. CollectorInv' /\ NoneMissing' BY RecordKeeps
<1>2. UNCHANGED <<pending, gauge, gauged>> /\ \A l \in Keys \ pending : frame'[l] = frame[l]
  BY DEF Expect, Deliver, CollectorInv, CollectorTypeOK
<1> QED BY <1>1, <1>2, BacklogStays DEF WithinCapacity, GoneAreBlank

LEMMA BufferPublishes ==
    ASSUME BufferInv, NEW t \in Threads, NEW r \in out[t], Publish(t, r)
    PROVE  BufferInv'
<1> USE DEF BufferInv
<1>1. CollectorInv' /\ NoneMissing' BY PublishKeeps
<1>2. UNCHANGED <<pending, frame, gauge, gauged>> BY DEF Publish
<1> QED BY <1>1, <1>2, BacklogStays DEF WithinCapacity, GoneAreBlank

LEMMA BufferStarts == CollectorInit => BufferInv
<1> SUFFICES ASSUME CollectorInit PROVE BufferInv OBVIOUS
<1>1. CollectorInv /\ NoneMissing BY CollectorStarts
<1>2. pending = {} /\ gauged = {} /\ gauge = [c \in Cameras |-> 0]
      /\ frame = [k \in Keys |-> Blank]
  BY DEF CollectorInit
<1>3. Cardinality({}) = 0 BY FS_EmptySet
<1> QED
  BY <1>1, <1>2, <1>3, CollectorAssumption
  DEF BufferInv, WithinCapacity, BacklogRemembered, GoneAreBlank, Blank

LEMMA BufferSteps ==
    ASSUME BufferInv, [CollectorNext]_collectorVars
    PROVE  BufferInv'
<1>1. ASSUME NEW t \in Threads, out[t] = {}, NEW k \in Keys, NEW s \in Stages,
             Open(t, k, {s}) \/ Deliver(k, s) \/ Expect(k, {s})
      PROVE  BufferInv'
  <2>1. CASE Open(t, k, {s}) BY <1>1, <2>1, BufferOpens
  <2>2. CASE Deliver(k, s) \/ Expect(k, {s}) BY <1>1, <2>2, BufferRecords
  <2> QED BY <1>1, <2>1, <2>2
<1>2. ASSUME NEW t \in Threads, out[t] = {}, NEW k \in Keys, Seal(t, k) PROVE BufferInv'
  <2> DEFINE reason == IF Missing(k) = {} THEN "complete" ELSE "incomplete"
  <2>1. Leaves(t, {k}, reason) /\ UNCHANGED <<gauge, gauged>>
    BY <1>2 DEF Seal, Leaves, Reasons
  <2> HIDE DEF reason
  <2> QED BY <2>1, BufferLeaves
<1>3. ASSUME NEW t \in Threads, out[t] = {}, NEW ks \in SUBSET pending, Sweep(t, ks)
      PROVE  BufferInv'
  <2>1. Leaves(t, ks, "timeout") /\ RefreshGauge BY <1>3 DEF Sweep, Leaves, Reasons
  <2> QED BY <2>1, BufferLeaves
<1>4. ASSUME NEW t \in Threads, out[t] = {}, Drain(t) PROVE BufferInv'
  <2>1. Leaves(t, pending, "shutdown") /\ RefreshGauge BY <1>4 DEF Drain, Leaves, Reasons
  <2> QED BY <2>1, BufferLeaves
<1>5. ASSUME NEW t \in Threads, NEW r \in out[t], Publish(t, r) PROVE BufferInv'
  BY <1>5, BufferPublishes
<1>6. CASE UNCHANGED collectorVars
  <2>1. CollectorInv' /\ NoneMissing' BY <1>6, CollectorUntouched DEF BufferInv
  <2>2. WithinCapacity' /\ GoneAreBlank'
    BY <1>6 DEF BufferInv, collectorVars, WithinCapacity, GoneAreBlank
  <2>3. BacklogRemembered' BY <1>6, BacklogStays DEF BufferInv, collectorVars
  <2> QED BY <2>1, <2>2, <2>3 DEF BufferInv
<1> QED BY <1>1, <1>2, <1>3, <1>4, <1>5, <1>6 DEF CollectorNext, Call

-----------------------------------------------------------------------------
(* The victim's camera holds an equal share of the buffer, at least.       *)

\* Frames that wait are counted camera by camera.
LEMMA ShareOut ==
    ASSUME CollectorInv, NEW n \in Nat, \A c \in DOMAIN byCamera : CameraCount(c) <= n
    PROVE  Cardinality(pending) <= Cardinality(Cameras) * n
<1> DEFINE D == DOMAIN byCamera
           Place(c) == CHOOSE f \in Bijection(1 .. CameraCount(c), byCamera[c]) : TRUE
           Spots == Cameras \X (1 .. n)
           Found(k) == CHOOSE i \in 1 .. n :
                          i <= CameraCount(CameraOf[k]) /\ Place(CameraOf[k])[i] = k
           seat == [k \in pending |-> <<CameraOf[k], Found(k)>>]
<1>1. \A c \in D : Place(c) \in Bijection(1 .. CameraCount(c), byCamera[c])
  <2> TAKE c \in D
  <2>1. Bijection(1 .. CameraCount(c), byCamera[c]) # {}
    BY CountsAre, FS_CardinalityType DEF CameraCount, ExistsBijection
  <2> QED BY <2>1
<1>2. \A k \in pending : CameraOf[k] \in D /\ k \in byCamera[CameraOf[k]] /\ CameraOf[k] \in Cameras
  BY CollectorAssumption DEF CollectorInv, CollectorTypeOK, IndexAgrees
<1>3. ASSUME NEW k \in pending
      PROVE  /\ Found(k) \in 1 .. n
             /\ Place(CameraOf[k])[Found(k)] = k
  <2> DEFINE c == CameraOf[k]
  <2>1. \E i \in 1 .. CameraCount(c) : Place(c)[i] = k
    <3> HIDE DEF Place
    <3> QED BY <1>1, <1>2 DEF Bijection, Surjection
  <2>2. \E i \in 1 .. n : i <= CameraCount(c) /\ Place(c)[i] = k
    <3> HIDE DEF Place
    <3> QED BY <1>2, <2>1, CountsAre
  <2> HIDE DEF Place
  <2> QED BY <2>2
<1>4. seat \in [pending -> Spots] BY <1>2, <1>3
<1>5. ASSUME NEW k \in pending, NEW l \in pending, seat[k] = seat[l] PROVE k = l
  <2>1. CameraOf[k] = CameraOf[l] /\ Found(k) = Found(l)
    <3> HIDE DEF Place, Found
    <3> QED BY <1>5
  <2> HIDE DEF Place, Found, seat
  <2> QED BY <1>3, <2>1
<1>6. seat \in Injection(pending, Spots) BY <1>4, <1>5 DEF Injection, IsInjective
<1>7. IsFiniteSet(1 .. n) /\ Cardinality(1 .. n) = n BY FS_Interval
<1>8. IsFiniteSet(Spots) /\ Cardinality(Spots) = Cardinality(Cameras) * n
  BY <1>7, CollectorAssumption, FS_Product
<1> HIDE DEF seat, Spots
<1> QED BY <1>6, <1>8, FS_Injection

\* What a full buffer gives up is a frame of a greediest camera.
LEMMA VictimIsLoud ==
    ASSUME CollectorInv, Policy = "greediest_camera", NEW k \in Gone
    PROVE  /\ k \in pending
           /\ CameraCount(CameraOf[k]) * Cardinality(Cameras) >= Capacity
<1>1. k \in Victim /\ ~(Cardinality(pending) < Capacity) BY DEF Gone
<1>2. PICK c \in DOMAIN byCamera : Greediest(c) /\ k \in Oldest(byCamera[c]) BY <1>1 DEF Victim
<1>3. k \in byCamera[c] /\ CameraOf[k] = c /\ k \in pending
  BY <1>2 DEF Oldest, CollectorInv, IndexAgrees
<1>4. CameraCount(c) \in Nat BY CountsAre
<1>5. \A d \in DOMAIN byCamera : CameraCount(d) <= CameraCount(c)
  BY <1>2, <1>4, CountsAre DEF Greediest
<1>6. Cardinality(pending) <= Cardinality(Cameras) * CameraCount(c)
  BY <1>4, <1>5, ShareOut
<1>7. Cardinality(Cameras) \in Nat BY CollectorAssumption, FS_CardinalityType
<1>8. Cardinality(Cameras) * CameraCount(c) = CameraCount(c) * Cardinality(Cameras)
      /\ Cardinality(Cameras) * CameraCount(c) \in Nat
  BY <1>4, <1>7
<1> QED BY <1>1, <1>3, <1>6, <1>8, CountsAre, CollectorAssumption

LEMMA QuietSteps ==
    ASSUME BufferInv, Policy = "greediest_camera", [CollectorNext]_collectorVars
    PROVE  QuietKeeps
<1> SUFFICES ASSUME NEW u \in Threads, NEW r \in out'[u], r.reason = "evicted",
                    frame[r.key].serial = r.serial
             PROVE  CameraCount(CameraOf[r.key]) * Cardinality(Cameras) >= Capacity
  BY DEF QuietKeeps
<1> USE DEF BufferInv
<1>1. out \in [Threads -> SUBSET Results] BY DEF CollectorInv, CollectorTypeOK
<1>2. r \notin out[u]
  <2> SUFFICES ASSUME r \in out[u] PROVE FALSE OBVIOUS
  <2>1. r.key \in Keys /\ r.serial \in 1 .. MaxOpens BY <1>1 DEF Results
  <2>2. r.key \in pending BY <2>1, CollectorAssumption DEF GoneAreBlank
  <2> QED BY <2>2 DEF CollectorInv, OneFrameEach
<1>3. ASSUME NEW t \in Threads, NEW ks, NEW reason, reason # "evicted",
             out' = [out EXCEPT ![t] = Taken(ks, reason)]
      PROVE  FALSE
  <2>1. CASE u = t BY <1>1, <1>3, <2>1 DEF Taken, Result
  <2>2. CASE u # t BY <1>1, <1>2, <1>3, <2>2
  <2> QED BY <2>1, <2>2
<1>4. ASSUME NEW t \in Threads, NEW k, NEW stages, Open(t, k, stages)
      PROVE  CameraCount(CameraOf[r.key]) * Cardinality(Cameras) >= Capacity
  <2>1. out' = [out EXCEPT ![t] = Taken(Gone, "evicted")] BY <1>4 DEF Open
  <2>2. u = t BY <1>1, <1>2, <2>1
  <2>3. r.key \in Gone BY <1>1, <2>1, <2>2 DEF Taken, Result
  <2> QED BY <2>3, VictimIsLoud
<1>5. out' # out BY <1>2
<1>6. \A t \in Threads, k \in Keys, s \in Stages : ~Deliver(k, s) /\ ~Expect(k, {s})
  BY <1>5 DEF Deliver, Expect
<1>7. ASSUME NEW t \in Threads, NEW k, Seal(t, k) PROVE FALSE
  <2> DEFINE reason == IF Missing(k) = {} THEN "complete" ELSE "incomplete"
  <2>1. out' = [out EXCEPT ![t] = Taken({k}, reason)] /\ reason # "evicted" BY <1>7 DEF Seal
  <2> HIDE DEF reason
  <2> QED BY <1>3, <2>1
<1>8. ASSUME NEW t \in Threads, NEW ks, Sweep(t, ks) PROVE FALSE
  BY <1>3, <1>8 DEF Sweep
<1>9. ASSUME NEW t \in Threads, Drain(t) PROVE FALSE BY <1>3, <1>9 DEF Drain
<1>10. ASSUME NEW t \in Threads, NEW q \in out[t], Publish(t, q) PROVE FALSE
  BY <1>1, <1>2, <1>10 DEF Publish
<1>11. ~UNCHANGED collectorVars BY <1>5 DEF collectorVars
<1> QED
  BY <1>4, <1>6, <1>7, <1>8, <1>9, <1>10, <1>11 DEF CollectorNext, Call

-----------------------------------------------------------------------------
THEOREM BufferInductive == CollectorSpec => []BufferInv
BY BufferStarts, BufferSteps, PTL DEF CollectorSpec

\* Every opened frame waits, is with the one thread that took it out, or was
\* reported, once: whoever seals, sweeps, evicts and drains beside each other.
THEOREM LeavesExactlyOnce == CollectorSpec => []ReportedExactlyOnce
<1>1. BufferInv => ReportedExactlyOnce
  BY ExactlyOnce DEF BufferInv, NoneMissing, ReportedExactlyOnce
<1> QED BY <1>1, BufferInductive, PTL

\* The buffer holds no more frames than its capacity, the index by camera lists
\* what it holds, and the backlog gauge can be taken down again.
THEOREM BooksAlwaysAgree == CollectorSpec => []BooksAgree
<1>1. BufferInv => BooksAgree BY DEF BufferInv, BooksAgree, CollectorInv
<1> QED BY <1>1, BufferInductive, PTL

\* Under the policy that evicts from the greediest camera, a camera that holds
\* less than an equal share of the buffer never loses a frame to make room.
THEOREM FloodsPayForThemselves ==
    ASSUME Policy = "greediest_camera"
    PROVE  CollectorSpec => QuietCameraKeepsItsFrames
<1>1. BufferInv /\ [CollectorNext]_collectorVars => QuietKeeps BY QuietSteps
<1> QED BY <1>1, BufferInductive, PTL DEF CollectorSpec, QuietCameraKeepsItsFrames

-----------------------------------------------------------------------------
(* The runner's invariant.                                                 *)

Owning == {"plan", "run", "deliver", "seal", "wedged"}
InFrame == Owning \cup {"open", "sealed", "failing", "dead"}
WorkerPlaces == InFrame \cup {"loop", "get", "next", "exit"}
SweeperPlaces == {"wait", "sweep", "exit"}
AfterClose == {"join", "drain", "copy", "cancel", "release", "down", "raised"}
StopPlaces == AfterClose \cup {"up", "close"}

\* What each place of a thread says about what it has in its hands.
PlacesMeanIt ==
    /\ \A w \in Workers :
          /\ pc[w] \in WorkerPlaces
          /\ cur[w] # None <=> pc[w] \in InFrame
          /\ pc[w] \in {"loop", "get", "exit"} => batch[w] = {}
          /\ pc[w] \in {"run", "deliver"} => step[w] <= Last
    /\ pc[Sweeper] \in SweeperPlaces
    /\ pc[Stopper] \in StopPlaces
    /\ pc[Stopper] \in AfterClose => closed
    /\ closed => queue = {}

\* A thread publishes before it goes on, and a worker has one result to publish.
PublishFirst ==
    /\ \A t \in Threads : ~Quiet(t) => pc[t] \in {"plan", "sealed", "wait", "copy"}
    /\ \A w \in Workers :
          /\ hold[w] # Idle => out[w] = {}
          /\ \A r, q \in out[w] : r = q

\* With one frame per wakeup a worker has nothing else in its hands.
OneAtATime ==
    PerWakeup = 1 => \A w \in Workers :
        /\ \A i, j \in batch[w] : i = j
        /\ cur[w] # None => batch[w] = {}

\* A waiting frame has a worker that is going to seal it, or is wedged.
FramesAreOwned ==
    \A k \in pending : \E w \in Workers : pc[w] \in Owning /\ KeyOf[cur[w]] = k

\* A future is registered under its own tag.
OwnKeys ==
    /\ \A k \in Keys : awaiting[k] # None => KeyOf[awaiting[k]] = k
    /\ \A k \in Keys, i \in Items : <<k, i>> \in toCancel => KeyOf[i] = k

\* NoFutureLost, but for workers that died with frames in their batch.
NoFutureDropped ==
    \A i \in Items : future[i] = "pending" /\ OwnTag(i) =>
        \/ i \in queue
        \/ \E w \in Workers : i \in batch[w]
        \/ awaiting[KeyOf[i]] = i
        \/ \E t \in Threads : hold[t].item = i

FuturesInv == OwnKeys /\ NoFutureDropped /\ AwaitingIsBacked

RunnerInv == PlacesMeanIt /\ PublishFirst /\ OneAtATime /\ FramesAreOwned

\* Nothing is lost until emitting raises in a sweep or a drain.
SweptNoneMissing == SweptWhole => NoneMissing

\* A frame is with one thread at a time, and it passes once.
OneHand ==
    /\ \A i \in queue : future[i] # "none" /\ \A w \in Workers : i \notin batch[w] /\ cur[w] # i
    /\ \A v \in Workers : \A i \in batch[v] :
          future[i] # "none" /\ \A w \in Workers : (i \in batch[w] => w = v) /\ cur[w] # i
    /\ \A v, w \in Workers : cur[v] # None =>
          future[cur[v]] # "none" /\ (cur[w] = cur[v] => w = v)

\* A frame loses a stage in the hands of its worker, after it was opened.
SpoiledWasOpened ==
    \A i \in spoiled :
        /\ future[i] # "none" /\ i \notin queue
        /\ \A w \in Workers : i \notin batch[w] /\ (cur[w] = i => pc[w] # "open")

\* The collector's record of the frame a worker carries follows the worker: the
\* entry stage is expected, no stage ahead is delivered, the stage it runs is
\* expected, and one of those it has passed is missing once the frame is spoiled.
Follows(w) ==
    pc[w] \in Owning /\ OwnTag(cur[w]) /\ Key(w) \in pending =>
        LET f == frame[Key(w)] IN
        /\ 1 \in f.expected
        /\ f.delivered \subseteq 1 .. step[w] - 1
        /\ pc[w] \in {"run", "deliver"} => step[w] \in f.expected
        /\ cur[w] \in spoiled =>
              \E s \in f.expected \ f.delivered : s < step[w] \/ pc[w] = "seal"

RecordFollows == \A w \in Workers : Follows(w)

\* A complete frame is in the hands of the worker that sealed it.
CompleteIsSealed ==
    \A t \in Threads : \A r \in out[t] : r.reason = "complete" =>
        t \in Workers /\ pc[t] = "sealed" /\ KeyOf[cur[t]] = r.key

WholeInv == OneHand /\ SpoiledWasOpened /\ RecordFollows /\ CompleteIsSealed /\ CompleteMeansWhole

IInv ==
    /\ PipelineTypeOK /\ CollectorInv
    /\ RunnerInv /\ FuturesInv /\ SweptNoneMissing /\ WholeInv

-----------------------------------------------------------------------------
(* The types, and where the threads are.                                   *)

\* The runner's variables, apart from the collector's.
RunnerTypes ==
    /\ queue \subseteq Items /\ closed \in BOOLEAN
    /\ future \in [Items -> {"none", "pending", "result", "error"}]
    /\ awaiting \in [Keys -> Items \cup {None}]
    /\ hold \in [Threads -> [item: Items \cup {None}, reason: Reasons \cup {"none"}]]
    /\ pc \in [Threads -> Places]
    /\ batch \in [Workers -> SUBSET Items]
    /\ cur \in [Workers -> Items \cup {None}]
    /\ step \in [Workers -> 1 .. Last + 1]
    /\ fed \in [Workers -> SUBSET (Stages \X Stages)]
    /\ toJoin \subseteq Workers /\ toCancel \subseteq Keys \X Items
    /\ spoiled \subseteq Items /\ died \subseteq Items /\ raised \subseteq Threads

LEMMA TypesAre == PipelineTypeOK <=> CollectorTypeOK /\ RunnerTypes
BY DEF PipelineTypeOK, RunnerTypes

LEMMA Constants ==
    /\ Last \in Nat \ {0} /\ Stages = 1 .. Last
    /\ Workers \subseteq Threads /\ Sweeper \in Threads /\ Stopper \in Threads
    /\ Sweeper # Stopper /\ Sweeper \notin Workers /\ Stopper \notin Workers
    /\ None \notin Items /\ KeyOf \in [Items -> Keys]
<1>1. Cardinality(Stages) \in Nat BY PipelineAssumption, FS_CardinalityType
<1>2. Cardinality(Stages) # 0 BY PipelineAssumption, FS_EmptySet
<1> QED BY <1>1, <1>2, PipelineAssumption DEF Last, Workers, None

LEMMA TypesKeep ==
    ASSUME PipelineTypeOK, PlacesMeanIt, [Next]_vars
    PROVE  RunnerTypes'
<1> USE Constants, TypesAre DEF RunnerTypes, Places, At, Go, Fail, queueVars, workVars, stopVars,
        PlacesMeanIt, InFrame, Owning
<1>1. ASSUME NEW i \in Items, Put(i) PROVE RunnerTypes'
  BY <1>1 DEF Put
<1>2. ASSUME NEW i \in Items, Shed(i) PROVE RunnerTypes'
  BY <1>2 DEF Shed
<1>3. ASSUME NEW w \in Workers, TestStopping(w) PROVE RunnerTypes'
  BY <1>3 DEF TestStopping
<1>4. ASSUME NEW w \in Workers, TakeItems(w) PROVE RunnerTypes'
  BY <1>4 DEF TakeItems
<1>5. ASSUME NEW w \in Workers, PollEmpty(w) PROVE RunnerTypes'
  BY <1>5 DEF PollEmpty
<1>6. ASSUME NEW w \in Workers, QueueClosed(w) PROVE RunnerTypes'
  BY <1>6 DEF QueueClosed
<1>7. ASSUME NEW w \in Workers, BatchDone(w) PROVE RunnerTypes'
  BY <1>7 DEF BatchDone
<1>8. ASSUME NEW w \in Workers, NEW i \in Items, RejectItem(w, i) PROVE RunnerTypes'
  BY <1>8 DEF RejectItem
<1>9. ASSUME NEW w \in Workers, NEW i \in Items, BeginFrame(w, i) PROVE RunnerTypes'
  BY <1>9 DEF BeginFrame
<1>10. ASSUME NEW w \in Workers, OpenFrame(w) PROVE RunnerTypes'
  BY <1>10 DEF OpenFrame
<1>11. ASSUME NEW w \in Workers, RefuseFrame(w) PROVE RunnerTypes'
  BY <1>11 DEF RefuseFrame
<1>12. ASSUME NEW w \in Workers, Plan(w) PROVE RunnerTypes'
  <2>1. step' = step \/ (step' = [step EXCEPT ![w] = step[w] + 1] /\ step[w] <= Last)
    BY <1>12 DEF Plan
  <2>2. step' \in [Workers -> 1 .. Last + 1]
    <3>1. step[w] <= Last => step[w] + 1 \in 1 .. Last + 1 OBVIOUS
    <3> QED BY <2>1, <3>1
  <2>3. pc' = [pc EXCEPT ![w] = "run"] \/ pc' = pc BY <1>12 DEF Plan
  <2>4. pc' \in [Threads -> Places] BY <2>3
  <2>5. UNCHANGED <<queueVars, future, awaiting, hold, batch, cur, fed, spoiled, died, stopVars,
                    raised>>
    BY <1>12 DEF Plan
  <2> QED BY <2>2, <2>4, <2>5
<1>13. ASSUME NEW w \in Workers, StageRuns(w) PROVE RunnerTypes'
  <2>1. step[w] \in Stages BY <1>13 DEF StageRuns
  <2>2. PICK to \in SUBSET {s \in Stages : step[w] \in Needs[s]} :
           fed' = [fed EXCEPT ![w] = fed[w] \cup {<<step[w], s>> : s \in to}]
    BY <1>13 DEF StageRuns
  <2>3. {<<step[w], s>> : s \in to} \subseteq Stages \X Stages BY <2>1
  <2>4. fed' \in [Workers -> SUBSET (Stages \X Stages)] BY <2>2, <2>3
  <2> QED BY <1>13, <2>4 DEF StageRuns
<1>14. ASSUME NEW w \in Workers, StageFails(w) PROVE RunnerTypes'
  <2>1. step' = [step EXCEPT ![w] = step[w] + 1] /\ step[w] <= Last /\ cur[w] \in Items
    BY <1>14 DEF StageFails
  <2>2. step' \in [Workers -> 1 .. Last + 1] BY <2>1
  <2> QED BY <1>14, <2>1, <2>2 DEF StageFails
<1>15. ASSUME NEW w \in Workers, DeliverStage(w) PROVE RunnerTypes'
  <2>1. step' = [step EXCEPT ![w] = step[w] + 1] /\ step[w] <= Last BY <1>15 DEF DeliverStage
  <2>2. step' \in [Workers -> 1 .. Last + 1] BY <2>1
  <2> QED BY <1>15, <2>2 DEF DeliverStage
<1>16. ASSUME NEW w \in Workers, GraphDone(w) PROVE RunnerTypes'
  BY <1>16 DEF GraphDone
<1>17. ASSUME NEW w \in Workers, GraphRaises(w) PROVE RunnerTypes'
  BY <1>17 DEF GraphRaises
<1>18. ASSUME NEW w \in Workers, Wedge(w) PROVE RunnerTypes'
  BY <1>18 DEF Wedge
<1>19. ASSUME NEW w \in Workers, SealFrame(w) PROVE RunnerTypes'
  BY <1>19 DEF SealFrame
<1>20. ASSUME NEW w \in Workers, FrameDone(w) PROVE RunnerTypes'
  BY <1>20 DEF FrameDone
<1>21. ASSUME NEW w \in Workers, FailItem(w) PROVE RunnerTypes'
  BY <1>21 DEF FailItem
<1>22. ASSUME NEW w \in Workers, WorkerDies(w) PROVE RunnerTypes'
  BY <1>22 DEF WorkerDies
<1>23. ASSUME SweeperWakes PROVE RunnerTypes'
  BY <1>23 DEF SweeperWakes
<1>24. ASSUME NEW ks \in SUBSET pending, SweepOnce(ks) PROVE RunnerTypes'
  BY <1>24 DEF SweepOnce
<1>25. ASSUME NEW t \in Threads, NEW r \in out[t], EmitBegins(t, r) PROVE RunnerTypes'
  <2>1. r.key \in Keys /\ r.reason \in Reasons BY DEF CollectorTypeOK, Results
  <2>2. [item |-> awaiting[r.key], reason |-> r.reason]
           \in [item: Items \cup {None}, reason: Reasons \cup {"none"}]
    BY <2>1
  <2>3. hold' \in [Threads -> [item: Items \cup {None}, reason: Reasons \cup {"none"}]]
    BY <1>25, <2>2 DEF EmitBegins
  <2>4. awaiting' \in [Keys -> Items \cup {None}] BY <1>25, <2>1 DEF EmitBegins
  <2> QED BY <1>25, <2>3, <2>4 DEF EmitBegins
<1>26. ASSUME NEW t \in Threads, NEW how \in {"result", "error"}, Settle(t, how)
       PROVE RunnerTypes'
  <2>1. Idle \in [item: Items \cup {None}, reason: Reasons \cup {"none"}] BY DEF Idle
  <2>2. hold' \in [Threads -> [item: Items \cup {None}, reason: Reasons \cup {"none"}]]
    BY <1>26, <2>1 DEF Settle
  <2>3. future' \in [Items -> {"none", "pending", "result", "error"}] BY <1>26 DEF Settle
  <2> QED BY <1>26, <2>2, <2>3 DEF Settle
<1>27. ASSUME NEW t \in Threads, EmitRaises(t) PROVE RunnerTypes'
  <2>1. Idle \in [item: Items \cup {None}, reason: Reasons \cup {"none"}] BY DEF Idle
  <2>2. hold' \in [Threads -> [item: Items \cup {None}, reason: Reasons \cup {"none"}]]
    BY <1>27, <2>1 DEF EmitRaises
  <2>3. pc' \in [Threads -> Places] BY <1>27 DEF EmitRaises
  <2> QED BY <1>27, <2>2, <2>3 DEF EmitRaises
<1>28. ASSUME StopBegins PROVE RunnerTypes'
  BY <1>28 DEF StopBegins
<1>29. ASSUME StopClosesQueue PROVE RunnerTypes'
  BY <1>29 DEF StopClosesQueue
<1>30. ASSUME NEW w \in Workers, StopJoins(w) PROVE RunnerTypes'
  BY <1>30 DEF StopJoins
<1>31. ASSUME StopJoinsSweeper PROVE RunnerTypes'
  BY <1>31 DEF StopJoinsSweeper
<1>32. ASSUME StopDrains PROVE RunnerTypes'
  BY <1>32 DEF StopDrains
<1>33. ASSUME StopCopies PROVE RunnerTypes'
  BY <1>33 DEF StopCopies
<1>34. ASSUME NEW k \in Keys, NEW i \in Items, StopCancels(k, i) PROVE RunnerTypes'
  BY <1>34 DEF StopCancels
<1>35. ASSUME StopClosesSink PROVE RunnerTypes'
  BY <1>35 DEF StopClosesSink
<1>36. ASSUME StopReleases PROVE RunnerTypes'
  BY <1>36 DEF StopReleases
<1>37. CASE UNCHANGED vars BY <1>37 DEF vars
<1>38. \A t \in Threads : EmitWithoutEvent(t) \/ EmitPublishes(t) \/ EmitRefused(t) =>
           \E how \in {"result", "error"} : Settle(t, how)
  BY DEF EmitWithoutEvent, EmitPublishes, EmitRefused
<1>39. Workers \subseteq Threads BY DEF Workers
<1> HIDE DEF RunnerTypes, Places, At, Go, Fail, queueVars, workVars, stopVars, PlacesMeanIt,
        InFrame, Owning
<1> QED
  BY PipelineAssumption, <1>1, <1>2, <1>3, <1>4, <1>5, <1>6, <1>7, <1>8, <1>9, <1>10, <1>11,
     <1>12, <1>13, <1>14, <1>15, <1>16, <1>17, <1>18, <1>19, <1>20, <1>21, <1>22, <1>23, <1>24,
     <1>25, <1>26, <1>27, <1>28, <1>29, <1>30, <1>31, <1>32, <1>33, <1>34, <1>35, <1>36, <1>37,
     <1>38, <1>39
  DEF Next, Work, SweeperStep, Stop, Emit

LEMMA PlacesKeep ==
    ASSUME PipelineTypeOK, PlacesMeanIt, PublishFirst, [Next]_vars
    PROVE  PlacesMeanIt'
<1> USE Constants, TypesAre DEF RunnerTypes, At, Go, queueVars, workVars, stopVars, PlacesMeanIt,
        InFrame, Owning, WorkerPlaces, SweeperPlaces, AfterClose, StopPlaces
<1>1. ASSUME NEW i \in Items, Put(i) PROVE PlacesMeanIt'
  BY <1>1 DEF Put
<1>2. ASSUME NEW i \in Items, Shed(i) PROVE PlacesMeanIt'
  BY <1>2 DEF Shed
<1>3. ASSUME NEW w \in Workers, TestStopping(w) PROVE PlacesMeanIt'
  BY <1>3 DEF TestStopping
<1>4. ASSUME NEW w \in Workers, TakeItems(w) PROVE PlacesMeanIt'
  BY <1>4 DEF TakeItems
<1>5. ASSUME NEW w \in Workers, PollEmpty(w) PROVE PlacesMeanIt'
  BY <1>5 DEF PollEmpty
<1>6. ASSUME NEW w \in Workers, QueueClosed(w) PROVE PlacesMeanIt'
  BY <1>6 DEF QueueClosed
<1>7. ASSUME NEW w \in Workers, BatchDone(w) PROVE PlacesMeanIt'
  BY <1>7 DEF BatchDone
<1>8. ASSUME NEW w \in Workers, NEW i \in Items, RejectItem(w, i) PROVE PlacesMeanIt'
  BY <1>8 DEF RejectItem
<1>9. ASSUME NEW w \in Workers, NEW i \in Items, BeginFrame(w, i) PROVE PlacesMeanIt'
  BY <1>9 DEF BeginFrame
<1>10. ASSUME NEW w \in Workers, OpenFrame(w) PROVE PlacesMeanIt'
  BY <1>10 DEF OpenFrame
<1>11. ASSUME NEW w \in Workers, RefuseFrame(w) PROVE PlacesMeanIt'
  BY <1>11 DEF RefuseFrame
<1>12. ASSUME NEW w \in Workers, Plan(w) PROVE PlacesMeanIt'
  BY <1>12 DEF Plan
<1>13. ASSUME NEW w \in Workers, StageRuns(w) PROVE PlacesMeanIt'
  BY <1>13 DEF StageRuns
<1>14. ASSUME NEW w \in Workers, StageFails(w) PROVE PlacesMeanIt'
  BY <1>14 DEF StageFails
<1>15. ASSUME NEW w \in Workers, DeliverStage(w) PROVE PlacesMeanIt'
  BY <1>15 DEF DeliverStage
<1>16. ASSUME NEW w \in Workers, GraphDone(w) PROVE PlacesMeanIt'
  BY <1>16 DEF GraphDone
<1>17. ASSUME NEW w \in Workers, GraphRaises(w) PROVE PlacesMeanIt'
  BY <1>17 DEF GraphRaises
<1>18. ASSUME NEW w \in Workers, Wedge(w) PROVE PlacesMeanIt'
  BY <1>18 DEF Wedge
<1>19. ASSUME NEW w \in Workers, SealFrame(w) PROVE PlacesMeanIt'
  BY <1>19 DEF SealFrame
<1>20. ASSUME NEW w \in Workers, FrameDone(w) PROVE PlacesMeanIt'
  BY <1>20 DEF FrameDone
<1>21. ASSUME NEW w \in Workers, FailItem(w) PROVE PlacesMeanIt'
  BY <1>21 DEF FailItem
<1>22. ASSUME NEW w \in Workers, WorkerDies(w) PROVE PlacesMeanIt'
  BY <1>22 DEF WorkerDies
<1>23. ASSUME SweeperWakes PROVE PlacesMeanIt'
  BY <1>23 DEF SweeperWakes
<1>24. ASSUME NEW ks \in SUBSET pending, SweepOnce(ks) PROVE PlacesMeanIt'
  BY <1>24 DEF SweepOnce
<1>25. ASSUME NEW t \in Threads, NEW r \in out[t], EmitBegins(t, r) PROVE PlacesMeanIt'
  BY <1>25 DEF EmitBegins
<1>26. ASSUME NEW t \in Threads, NEW how \in {"result", "error"}, Settle(t, how)
       PROVE PlacesMeanIt'
  BY <1>26 DEF Settle
<1>27. ASSUME NEW t \in Threads, EmitRaises(t) PROVE PlacesMeanIt'
  <2>1. t = Stopper => pc[t] = "copy" BY <1>27 DEF EmitRaises, PublishFirst, Quiet
  <2> QED BY <1>27, <2>1 DEF EmitRaises
<1>28. ASSUME StopBegins PROVE PlacesMeanIt'
  BY <1>28 DEF StopBegins
<1>29. ASSUME StopClosesQueue PROVE PlacesMeanIt'
  BY <1>29 DEF StopClosesQueue
<1>30. ASSUME NEW w \in Workers, StopJoins(w) PROVE PlacesMeanIt'
  BY <1>30 DEF StopJoins
<1>31. ASSUME StopJoinsSweeper PROVE PlacesMeanIt'
  BY <1>31 DEF StopJoinsSweeper
<1>32. ASSUME StopDrains PROVE PlacesMeanIt'
  BY <1>32 DEF StopDrains
<1>33. ASSUME StopCopies PROVE PlacesMeanIt'
  BY <1>33 DEF StopCopies
<1>34. ASSUME NEW k \in Keys, NEW i \in Items, StopCancels(k, i) PROVE PlacesMeanIt'
  BY <1>34 DEF StopCancels
<1>35. ASSUME StopClosesSink PROVE PlacesMeanIt'
  BY <1>35 DEF StopClosesSink
<1>36. ASSUME StopReleases PROVE PlacesMeanIt'
  BY <1>36 DEF StopReleases
<1>37. CASE UNCHANGED vars BY <1>37 DEF vars
<1>38. \A t \in Threads : EmitWithoutEvent(t) \/ EmitPublishes(t) \/ EmitRefused(t) =>
           \E how \in {"result", "error"} : Settle(t, how)
  BY DEF EmitWithoutEvent, EmitPublishes, EmitRefused
<1>39. Workers \subseteq Threads BY DEF Workers
<1> HIDE DEF RunnerTypes, At, Go, queueVars, workVars, stopVars, PlacesMeanIt, InFrame, Owning,
        WorkerPlaces, SweeperPlaces, AfterClose, StopPlaces
<1> QED
  BY PipelineAssumption, <1>1, <1>2, <1>3, <1>4, <1>5, <1>6, <1>7, <1>8, <1>9, <1>10, <1>11,
     <1>12, <1>13, <1>14, <1>15, <1>16, <1>17, <1>18, <1>19, <1>20, <1>21, <1>22, <1>23, <1>24,
     <1>25, <1>26, <1>27, <1>28, <1>29, <1>30, <1>31, <1>32, <1>33, <1>34, <1>35, <1>36, <1>37,
     <1>38, <1>39
  DEF Next, Work, SweeperStep, Stop, Emit

\* A thread that publishes nothing new stays as it is, and so do the others.
LEMMA PublishFirstStays ==
    ASSUME PublishFirst, NEW t \in Threads,
           out' \in [Threads -> SUBSET Results], hold' = hold,
           \A u \in Threads \ {t} : out'[u] = out[u] /\ pc'[u] = pc[u],
           out'[t] # {} => pc'[t] \in {"plan", "sealed", "wait", "copy"},
           hold[t] = Idle,
           t \in Workers => \A r, q \in out'[t] : r = q
    PROVE  PublishFirst'
<1> USE Constants
<1>1. ASSUME NEW u \in Threads, ~(out'[u] = {} /\ hold[u] = Idle)
      PROVE  pc'[u] \in {"plan", "sealed", "wait", "copy"}
  BY <1>1 DEF PublishFirst, Quiet
<1>2. ASSUME NEW u \in Workers
      PROVE  (hold[u] # Idle => out'[u] = {}) /\ \A r, q \in out'[u] : r = q
  BY DEF PublishFirst
<1> QED BY <1>1, <1>2 DEF PublishFirst, Quiet

LEMMA PublishFirstKeeps ==
    ASSUME PipelineTypeOK, CollectorInv, PlacesMeanIt, PublishFirst, [Next]_vars
    PROVE  PublishFirst'
<1> USE Constants, TypesAre DEF RunnerTypes, At, Go, Quiet, collectorVars, queueVars, workVars,
        stopVars, PublishFirst, PlacesMeanIt, InFrame, Owning, WorkerPlaces, SweeperPlaces,
        AfterClose, StopPlaces
<1>1. ASSUME NEW i \in Items, Put(i) PROVE PublishFirst'
  BY <1>1 DEF Put
<1>2. ASSUME NEW i \in Items, Shed(i) PROVE PublishFirst'
  BY <1>2 DEF Shed
<1>3. ASSUME NEW w \in Workers, TestStopping(w) PROVE PublishFirst'
  BY <1>3 DEF TestStopping
<1>4. ASSUME NEW w \in Workers, TakeItems(w) PROVE PublishFirst'
  BY <1>4 DEF TakeItems
<1>5. ASSUME NEW w \in Workers, PollEmpty(w) PROVE PublishFirst'
  BY <1>5 DEF PollEmpty
<1>6. ASSUME NEW w \in Workers, QueueClosed(w) PROVE PublishFirst'
  BY <1>6 DEF QueueClosed
<1>7. ASSUME NEW w \in Workers, BatchDone(w) PROVE PublishFirst'
  BY <1>7 DEF BatchDone
<1>8. ASSUME NEW w \in Workers, NEW i \in Items, RejectItem(w, i) PROVE PublishFirst'
  BY <1>8 DEF RejectItem
<1>9. ASSUME NEW w \in Workers, NEW i \in Items, BeginFrame(w, i) PROVE PublishFirst'
  BY <1>9 DEF BeginFrame
<1>10. ASSUME NEW w \in Workers, OpenFrame(w) PROVE PublishFirst'
  <2>1. out' = [out EXCEPT ![w] = Taken(Gone, "evicted")] /\ pc' = [pc EXCEPT ![w] = "plan"]
    BY <1>10 DEF OpenFrame, Open
  <2>2. \A r, q \in Taken(Gone, "evicted") : r = q BY GoneIsOne DEF Taken
  <2>3. out' \in [Threads -> SUBSET Results]
    BY <2>1, GoneIsOne, TakenTyped DEF CollectorInv, CollectorTypeOK, Reasons
  <2>4. hold' = hold /\ hold[w] = Idle BY <1>10 DEF OpenFrame
  <2>5. out'[w] = Taken(Gone, "evicted") BY <2>1 DEF CollectorTypeOK
  <2>6. \A u \in Threads \ {w} : out'[u] = out[u] /\ pc'[u] = pc[u] BY <2>1 DEF CollectorTypeOK
  <2>7. pc'[w] = "plan" BY <2>1
  <2> HIDE DEF PublishFirst
  <2> QED BY <2>2, <2>3, <2>4, <2>5, <2>6, <2>7, PublishFirstStays
<1>11. ASSUME NEW w \in Workers, RefuseFrame(w) PROVE PublishFirst'
  BY <1>11 DEF RefuseFrame
<1>12. ASSUME NEW w \in Workers, Plan(w) PROVE PublishFirst'
  <2>1. out' = out /\ hold' = hold /\ Quiet(w) BY <1>12 DEF Plan, Expect
  <2>2. \A u \in Threads \ {w} : pc'[u] = pc[u] BY <1>12 DEF Plan
  <2> HIDE DEF PublishFirst
  <2> QED BY <2>1, <2>2, PublishFirstStays DEF CollectorTypeOK
<1>13. ASSUME NEW w \in Workers, StageRuns(w) PROVE PublishFirst'
  BY <1>13 DEF StageRuns
<1>14. ASSUME NEW w \in Workers, StageFails(w) PROVE PublishFirst'
  BY <1>14 DEF StageFails
<1>15. ASSUME NEW w \in Workers, DeliverStage(w) PROVE PublishFirst'
  <2>1. out' = out /\ hold' = hold /\ Quiet(w) BY <1>15 DEF DeliverStage, Deliver
  <2>2. \A u \in Threads \ {w} : pc'[u] = pc[u] BY <1>15 DEF DeliverStage
  <2> HIDE DEF PublishFirst
  <2> QED BY <2>1, <2>2, PublishFirstStays DEF CollectorTypeOK
<1>16. ASSUME NEW w \in Workers, GraphDone(w) PROVE PublishFirst'
  BY <1>16 DEF GraphDone
<1>17. ASSUME NEW w \in Workers, GraphRaises(w) PROVE PublishFirst'
  BY <1>17 DEF GraphRaises
<1>18. ASSUME NEW w \in Workers, Wedge(w) PROVE PublishFirst'
  BY <1>18 DEF Wedge
<1>19. ASSUME NEW w \in Workers, SealFrame(w) PROVE PublishFirst'
  <2>1. hold' = hold /\ Quiet(w) /\ pc' = [pc EXCEPT ![w] = "sealed"] BY <1>19 DEF SealFrame
  <2>2. CASE Key(w) \notin pending
    <3>1. out' = out BY <1>19, <2>2 DEF SealFrame
    <3> HIDE DEF PublishFirst
    <3> QED BY <2>1, <3>1, PublishFirstStays DEF CollectorTypeOK
  <2>3. CASE Key(w) \in pending
    <3>1. PICK reason \in Reasons : out' = [out EXCEPT ![w] = Taken({Key(w)}, reason)]
      BY <1>19, <2>3 DEF SealFrame, Seal, Reasons
    <3>2. \A r, q \in Taken({Key(w)}, reason) : r = q BY DEF Taken
    <3>3. out' \in [Threads -> SUBSET Results]
      BY <2>3, <3>1, TakenTyped DEF CollectorInv, CollectorTypeOK
    <3>4. out'[w] = Taken({Key(w)}, reason) BY <3>1 DEF CollectorTypeOK
    <3>5. \A u \in Threads \ {w} : out'[u] = out[u] /\ pc'[u] = pc[u]
      BY <2>1, <3>1 DEF CollectorTypeOK
    <3>6. pc'[w] = "sealed" /\ hold[w] = Idle BY <2>1
    <3>7. \A r, q \in out'[w] : r = q BY ONLY <3>2, <3>4
    <3> HIDE DEF PublishFirst, PlacesMeanIt, RunnerTypes, Quiet
    <3> QED BY <2>1, <3>3, <3>5, <3>6, <3>7, PublishFirstStays
  <2> QED BY <2>2, <2>3
<1>20. ASSUME NEW w \in Workers, FrameDone(w) PROVE PublishFirst'
  <2>1. out' = out /\ hold' = hold /\ Quiet(w) BY <1>20 DEF FrameDone
  <2>2. \A u \in Threads \ {w} : pc'[u] = pc[u] BY <1>20 DEF FrameDone
  <2> HIDE DEF PublishFirst
  <2> QED BY <2>1, <2>2, PublishFirstStays DEF CollectorTypeOK
<1>21. ASSUME NEW w \in Workers, FailItem(w) PROVE PublishFirst'
  BY <1>21 DEF FailItem
<1>22. ASSUME NEW w \in Workers, WorkerDies(w) PROVE PublishFirst'
  BY <1>22 DEF WorkerDies
<1>23. ASSUME SweeperWakes PROVE PublishFirst'
  BY <1>23 DEF SweeperWakes
<1>24. ASSUME NEW ks \in SUBSET pending, SweepOnce(ks) PROVE PublishFirst'
  <2>1. hold' = hold /\ Quiet(Sweeper) /\ pc' = [pc EXCEPT ![Sweeper] = "wait"]
        /\ out' = [out EXCEPT ![Sweeper] = Taken(ks, "timeout")]
    BY <1>24 DEF SweepOnce, Sweep
  <2>2. out' \in [Threads -> SUBSET Results]
    BY <2>1, TakenTyped DEF CollectorInv, CollectorTypeOK, Reasons
  <2>3. \A u \in Threads \ {Sweeper} : out'[u] = out[u] /\ pc'[u] = pc[u]
    BY <2>1 DEF CollectorTypeOK
  <2>4. pc'[Sweeper] = "wait" BY <2>1
  <2> HIDE DEF PublishFirst
  <2> QED BY <2>1, <2>2, <2>3, <2>4, PublishFirstStays
<1>25. ASSUME NEW t \in Threads, NEW r \in out[t], EmitBegins(t, r) PROVE PublishFirst'
  <2>1. pc' = pc /\ hold[t] = Idle /\ out'[t] = out[t] \ {r}
        /\ \A u \in Threads \ {t} : out'[u] = out[u] /\ hold'[u] = hold[u]
    BY <1>25 DEF EmitBegins, Publish, CollectorTypeOK
  <2>2. \A u \in Threads : ~Quiet(u)' => ~Quiet(u) BY <2>1
  <2>3. ASSUME NEW w \in Workers
        PROVE  (hold'[w] # Idle => out'[w] = {}) /\ \A q, p \in out'[w] : q = p
    <3>1. CASE w = t
      <4>1. \A q \in out[w] : q = r BY <3>1
      <4> QED BY <2>1, <3>1, <4>1
    <3>2. CASE w # t BY <2>1, <3>2
    <3> QED BY <3>1, <3>2
  <2> QED BY <2>1, <2>2, <2>3
<1>26. ASSUME NEW t \in Threads, NEW how \in {"result", "error"}, Settle(t, how)
       PROVE PublishFirst'
  BY <1>26 DEF Settle
<1>27. ASSUME NEW t \in Threads, EmitRaises(t) PROVE PublishFirst'
  <2>1. out'[t] = {} /\ hold'[t] = Idle /\ hold[t] # Idle
        /\ \A u \in Threads \ {t} : out'[u] = out[u] /\ hold'[u] = hold[u] /\ pc'[u] = pc[u]
    BY <1>27 DEF EmitRaises, CollectorTypeOK
  <2>2. \A u \in Threads : ~Quiet(u)' => u # t /\ ~Quiet(u) BY <2>1
  <2>3. \A u \in Threads : ~Quiet(u)' => pc'[u] \in {"plan", "sealed", "wait", "copy"}
    BY <2>1, <2>2
  <2>4. ASSUME NEW w \in Workers
        PROVE  (hold'[w] # Idle => out'[w] = {}) /\ \A q, p \in out'[w] : q = p
    <3>1. CASE w = t BY <2>1, <3>1
    <3>2. CASE w # t
      <4>1. w \in Threads \ {t} BY <3>2
      <4>2. out'[w] = out[w] /\ hold'[w] = hold[w] BY <2>1, <4>1
      <4> QED BY <4>2
    <3> QED BY <3>1, <3>2
  <2> QED BY <2>3, <2>4
<1>28. ASSUME StopBegins PROVE PublishFirst'
  BY <1>28 DEF StopBegins
<1>29. ASSUME StopClosesQueue PROVE PublishFirst'
  BY <1>29 DEF StopClosesQueue
<1>30. ASSUME NEW w \in Workers, StopJoins(w) PROVE PublishFirst'
  BY <1>30 DEF StopJoins
<1>31. ASSUME StopJoinsSweeper PROVE PublishFirst'
  BY <1>31 DEF StopJoinsSweeper
<1>32. ASSUME StopDrains PROVE PublishFirst'
  <2>1. hold' = hold /\ Quiet(Stopper) /\ pc' = [pc EXCEPT ![Stopper] = "copy"]
        /\ out' = [out EXCEPT ![Stopper] = Taken(pending, "shutdown")]
    BY <1>32 DEF StopDrains, Drain
  <2>2. out' \in [Threads -> SUBSET Results]
    BY <2>1, TakenTyped DEF CollectorInv, CollectorTypeOK, Reasons
  <2>3. \A u \in Threads \ {Stopper} : out'[u] = out[u] /\ pc'[u] = pc[u]
    BY <2>1 DEF CollectorTypeOK
  <2>4. pc'[Stopper] = "copy" BY <2>1
  <2> HIDE DEF PublishFirst
  <2> QED BY <2>1, <2>2, <2>3, <2>4, PublishFirstStays
<1>33. ASSUME StopCopies PROVE PublishFirst'
  BY <1>33 DEF StopCopies
<1>34. ASSUME NEW k \in Keys, NEW i \in Items, StopCancels(k, i) PROVE PublishFirst'
  <2>1. out' = out /\ hold' = hold /\ Quiet(Stopper) BY <1>34 DEF StopCancels
  <2>2. \A u \in Threads \ {Stopper} : pc'[u] = pc[u] BY <1>34 DEF StopCancels
  <2> HIDE DEF PublishFirst
  <2> QED BY <2>1, <2>2, PublishFirstStays DEF CollectorTypeOK
<1>35. ASSUME StopClosesSink PROVE PublishFirst'
  BY <1>35 DEF StopClosesSink
<1>36. ASSUME StopReleases PROVE PublishFirst'
  BY <1>36 DEF StopReleases
<1>37. CASE UNCHANGED vars BY <1>37 DEF vars
<1>38. \A t \in Threads : EmitWithoutEvent(t) \/ EmitPublishes(t) \/ EmitRefused(t) =>
           \E how \in {"result", "error"} : Settle(t, how)
  BY DEF EmitWithoutEvent, EmitPublishes, EmitRefused
<1>39. Workers \subseteq Threads BY DEF Workers
<1> HIDE DEF RunnerTypes, At, Go, Quiet, collectorVars, queueVars, workVars, stopVars,
        PublishFirst, PlacesMeanIt, InFrame, Owning, WorkerPlaces, SweeperPlaces, AfterClose,
        StopPlaces
<1> QED
  BY PipelineAssumption, <1>1, <1>2, <1>3, <1>4, <1>5, <1>6, <1>7, <1>8, <1>9, <1>10, <1>11,
     <1>12, <1>13, <1>14, <1>15, <1>16, <1>17, <1>18, <1>19, <1>20, <1>21, <1>22, <1>23, <1>24,
     <1>25, <1>26, <1>27, <1>28, <1>29, <1>30, <1>31, <1>32, <1>33, <1>34, <1>35, <1>36, <1>37,
     <1>38, <1>39
  DEF Next, Work, SweeperStep, Stop, Emit

LEMMA OneAtATimeKeeps ==
    ASSUME PipelineTypeOK, PlacesMeanIt, OneAtATime, [Next]_vars
    PROVE  OneAtATime'
<1> USE Constants, TypesAre DEF RunnerTypes, At, Go, queueVars, workVars, stopVars, OneAtATime,
        PlacesMeanIt, InFrame, Owning
<1>1. ASSUME NEW i \in Items, Put(i) PROVE OneAtATime'
  BY <1>1 DEF Put
<1>2. ASSUME NEW i \in Items, Shed(i) PROVE OneAtATime'
  BY <1>2 DEF Shed
<1>3. ASSUME NEW w \in Workers, TestStopping(w) PROVE OneAtATime'
  BY <1>3 DEF TestStopping
<1>4. ASSUME NEW w \in Workers, TakeItems(w) PROVE OneAtATime'
  <2>1. PICK is \in SUBSET queue :
           /\ Cardinality(is) <= PerWakeup /\ batch' = [batch EXCEPT ![w] = is]
    BY <1>4 DEF TakeItems
  <2>2. IsFiniteSet(is) /\ Cardinality(is) \in Nat
    BY PipelineAssumption, FS_Subset, FS_CardinalityType
  <2>3. PerWakeup = 1 => Cardinality(is) = 0 \/ Cardinality(is) = 1 BY <2>1, <2>2
  <2>4. PerWakeup = 1 => is = {} \/ \E i : is = {i} BY <2>2, <2>3, FS_EmptySet, FS_Singleton
  <2>5. cur' = cur /\ pc[w] = "get" BY <1>4 DEF TakeItems
  <2>6. cur[w] = None BY <2>5
  <2>7. \A v \in Workers \ {w} : batch'[v] = batch[v] BY <2>1
  <2>8. ASSUME PerWakeup = 1, NEW v \in Workers
        PROVE  (\A i, j \in batch'[v] : i = j) /\ (cur'[v] # None => batch'[v] = {})
    <3>1. CASE v = w BY <3>1, <2>1, <2>4, <2>5, <2>6, <2>8
    <3>2. CASE v # w BY <3>2, <2>5, <2>7, <2>8
    <3> QED BY <3>1, <3>2
  <2> QED BY <2>8
<1>5. ASSUME NEW w \in Workers, PollEmpty(w) PROVE OneAtATime'
  BY <1>5 DEF PollEmpty
<1>6. ASSUME NEW w \in Workers, QueueClosed(w) PROVE OneAtATime'
  BY <1>6 DEF QueueClosed
<1>7. ASSUME NEW w \in Workers, BatchDone(w) PROVE OneAtATime'
  BY <1>7 DEF BatchDone
<1>8. ASSUME NEW w \in Workers, NEW i \in Items, RejectItem(w, i) PROVE OneAtATime'
  BY <1>8 DEF RejectItem
<1>9. ASSUME NEW w \in Workers, NEW i \in Items, BeginFrame(w, i) PROVE OneAtATime'
  BY <1>9 DEF BeginFrame
<1>10. ASSUME NEW w \in Workers, OpenFrame(w) PROVE OneAtATime'
  BY <1>10 DEF OpenFrame
<1>11. ASSUME NEW w \in Workers, RefuseFrame(w) PROVE OneAtATime'
  BY <1>11 DEF RefuseFrame
<1>12. ASSUME NEW w \in Workers, Plan(w) PROVE OneAtATime'
  BY <1>12 DEF Plan
<1>13. ASSUME NEW w \in Workers, StageRuns(w) PROVE OneAtATime'
  BY <1>13 DEF StageRuns
<1>14. ASSUME NEW w \in Workers, StageFails(w) PROVE OneAtATime'
  BY <1>14 DEF StageFails
<1>15. ASSUME NEW w \in Workers, DeliverStage(w) PROVE OneAtATime'
  BY <1>15 DEF DeliverStage
<1>16. ASSUME NEW w \in Workers, GraphDone(w) PROVE OneAtATime'
  BY <1>16 DEF GraphDone
<1>17. ASSUME NEW w \in Workers, GraphRaises(w) PROVE OneAtATime'
  BY <1>17 DEF GraphRaises
<1>18. ASSUME NEW w \in Workers, Wedge(w) PROVE OneAtATime'
  BY <1>18 DEF Wedge
<1>19. ASSUME NEW w \in Workers, SealFrame(w) PROVE OneAtATime'
  BY <1>19 DEF SealFrame
<1>20. ASSUME NEW w \in Workers, FrameDone(w) PROVE OneAtATime'
  BY <1>20 DEF FrameDone
<1>21. ASSUME NEW w \in Workers, FailItem(w) PROVE OneAtATime'
  BY <1>21 DEF FailItem
<1>22. ASSUME NEW w \in Workers, WorkerDies(w) PROVE OneAtATime'
  BY <1>22 DEF WorkerDies
<1>23. ASSUME SweeperWakes PROVE OneAtATime'
  BY <1>23 DEF SweeperWakes
<1>24. ASSUME NEW ks \in SUBSET pending, SweepOnce(ks) PROVE OneAtATime'
  BY <1>24 DEF SweepOnce
<1>25. ASSUME NEW t \in Threads, NEW r \in out[t], EmitBegins(t, r) PROVE OneAtATime'
  BY <1>25 DEF EmitBegins
<1>26. ASSUME NEW t \in Threads, NEW how \in {"result", "error"}, Settle(t, how) PROVE OneAtATime'
  BY <1>26 DEF Settle
<1>27. ASSUME NEW t \in Threads, EmitRaises(t) PROVE OneAtATime'
  BY <1>27 DEF EmitRaises
<1>28. ASSUME StopBegins PROVE OneAtATime'
  BY <1>28 DEF StopBegins
<1>29. ASSUME StopClosesQueue PROVE OneAtATime'
  BY <1>29 DEF StopClosesQueue
<1>30. ASSUME NEW w \in Workers, StopJoins(w) PROVE OneAtATime'
  BY <1>30 DEF StopJoins
<1>31. ASSUME StopJoinsSweeper PROVE OneAtATime'
  BY <1>31 DEF StopJoinsSweeper
<1>32. ASSUME StopDrains PROVE OneAtATime'
  BY <1>32 DEF StopDrains
<1>33. ASSUME StopCopies PROVE OneAtATime'
  BY <1>33 DEF StopCopies
<1>34. ASSUME NEW k \in Keys, NEW i \in Items, StopCancels(k, i) PROVE OneAtATime'
  BY <1>34 DEF StopCancels
<1>35. ASSUME StopClosesSink PROVE OneAtATime'
  BY <1>35 DEF StopClosesSink
<1>36. ASSUME StopReleases PROVE OneAtATime'
  BY <1>36 DEF StopReleases
<1>37. CASE UNCHANGED vars BY <1>37 DEF vars
<1>38. \A t \in Threads : EmitWithoutEvent(t) \/ EmitPublishes(t) \/ EmitRefused(t) =>
           \E how \in {"result", "error"} : Settle(t, how)
  BY DEF EmitWithoutEvent, EmitPublishes, EmitRefused
<1>39. Workers \subseteq Threads BY DEF Workers
<1> HIDE DEF RunnerTypes, At, Go, queueVars, workVars, stopVars, OneAtATime, PlacesMeanIt,
        InFrame, Owning
<1> QED
  BY PipelineAssumption, <1>1, <1>2, <1>3, <1>4, <1>5, <1>6, <1>7, <1>8, <1>9, <1>10, <1>11,
     <1>12, <1>13, <1>14, <1>15, <1>16, <1>17, <1>18, <1>19, <1>20, <1>21, <1>22, <1>23, <1>24,
     <1>25, <1>26, <1>27, <1>28, <1>29, <1>30, <1>31, <1>32, <1>33, <1>34, <1>35, <1>36, <1>37,
     <1>38, <1>39
  DEF Next, Work, SweeperStep, Stop, Emit

-----------------------------------------------------------------------------
(* The collector in the runner.                                            *)

LEMMA StaysSwept ==
    ASSUME CollectorInv, SweptNoneMissing, CollectorInv', SweptWhole' => SweptWhole,
           NoneMissing => NoneMissing'
    PROVE  CollectorInv' /\ SweptNoneMissing'
BY DEF SweptNoneMissing

LEMMA CollectorKeeps ==
    ASSUME PipelineTypeOK, CollectorInv, PlacesMeanIt, PublishFirst, SweptNoneMissing, [Next]_vars
    PROVE  CollectorInv' /\ SweptNoneMissing'
<1>1. ASSUME NEW i \in Items,
             \/ Put(i)
             \/ Shed(i)
      PROVE  CollectorInv' /\ SweptNoneMissing'
  <2>1. UNCHANGED <<collectorVars, raised>>
    BY <1>1 DEF Put, Shed, stopVars
  <2>2. SweptWhole' => SweptWhole BY <2>1 DEF SweptWhole
  <2> QED BY <2>1, <2>2, CollectorUntouched, StaysSwept
<1>2. ASSUME NEW w \in Workers,
             \/ TestStopping(w)
             \/ TakeItems(w)
             \/ PollEmpty(w)
             \/ QueueClosed(w)
             \/ BatchDone(w)
             \/ RefuseFrame(w)
             \/ StageRuns(w)
             \/ StageFails(w)
             \/ GraphDone(w)
             \/ GraphRaises(w)
             \/ Wedge(w)
             \/ FailItem(w)
             \/ WorkerDies(w)
             \/ StopJoins(w)
      PROVE  CollectorInv' /\ SweptNoneMissing'
  <2>1. UNCHANGED <<collectorVars, raised>>
    BY <1>2
    DEF TestStopping, TakeItems, PollEmpty, QueueClosed, BatchDone, RefuseFrame, StageRuns,
        StageFails, GraphDone, GraphRaises, Wedge, FailItem, WorkerDies, StopJoins, stopVars
  <2>2. SweptWhole' => SweptWhole BY <2>1 DEF SweptWhole
  <2> QED BY <2>1, <2>2, CollectorUntouched, StaysSwept
<1>3. ASSUME NEW w \in Workers, NEW i \in Items,
             \/ RejectItem(w, i)
             \/ BeginFrame(w, i)
      PROVE  CollectorInv' /\ SweptNoneMissing'
  <2>1. UNCHANGED <<collectorVars, raised>>
    BY <1>3 DEF RejectItem, BeginFrame, stopVars
  <2>2. SweptWhole' => SweptWhole BY <2>1 DEF SweptWhole
  <2> QED BY <2>1, <2>2, CollectorUntouched, StaysSwept
<1>4. ASSUME NEW w \in Workers, OpenFrame(w) PROVE CollectorInv' /\ SweptNoneMissing'
  <2>1. Open(w, Key(w), {1}) /\ out[w] = {} /\ raised' = raised BY <1>4 DEF OpenFrame, At, Quiet
  <2>2. Key(w) \in Keys
    BY <1>4, Constants, TypesAre DEF OpenFrame, At, PlacesMeanIt, InFrame, RunnerTypes, Key
  <2>3. {1} \in SUBSET Stages BY Constants
  <2>4. SweptWhole' => SweptWhole BY <2>1 DEF SweptWhole
  <2> QED BY <2>1, <2>2, <2>3, <2>4, Constants, OpenKeeps, OpenMissesNone, StaysSwept
<1>5. ASSUME NEW w \in Workers, Plan(w) PROVE CollectorInv' /\ SweptNoneMissing'
  <2>1. Expect(Key(w), Runnable(w)) /\ raised' = raised BY <1>5 DEF Plan
  <2>2. Key(w) \in Keys
    BY <1>5, Constants, TypesAre DEF Plan, At, PlacesMeanIt, InFrame, Owning, RunnerTypes, Key
  <2>3. Runnable(w) \in SUBSET Stages /\ 1 \in Stages
    BY Constants, TypesAre DEF Runnable, RunnerTypes
  <2>4. SweptWhole' => SweptWhole BY <2>1 DEF SweptWhole
  <2> QED BY <2>1, <2>2, <2>3, <2>4, RecordKeeps, StaysSwept
<1>6. ASSUME NEW w \in Workers, DeliverStage(w) PROVE CollectorInv' /\ SweptNoneMissing'
  <2>1. Deliver(Key(w), step[w]) /\ raised' = raised /\ pc[w] = "deliver"
    BY <1>6 DEF DeliverStage, At
  <2>2. Key(w) \in Keys
    BY <2>1, Constants, TypesAre DEF PlacesMeanIt, InFrame, Owning, RunnerTypes, Key
  <2>3. step[w] \in Stages /\ {} \in SUBSET Stages
    BY <2>1, Constants, TypesAre DEF PlacesMeanIt, RunnerTypes
  <2>4. SweptWhole' => SweptWhole BY <2>1 DEF SweptWhole
  <2> QED BY <2>1, <2>2, <2>3, <2>4, RecordKeeps, StaysSwept
<1>7. ASSUME NEW w \in Workers, SealFrame(w) PROVE CollectorInv' /\ SweptNoneMissing'
  <2>1. raised' = raised /\ out[w] = {} BY <1>7 DEF SealFrame, At, Quiet
  <2>2. SweptWhole' => SweptWhole BY <2>1 DEF SweptWhole
  <2>3. CASE Key(w) \notin pending
    <3>1. UNCHANGED collectorVars BY <1>7, <2>3 DEF SealFrame
    <3> QED BY <2>2, <3>1, CollectorUntouched, StaysSwept
  <2>4. CASE Key(w) \in pending
    <3> DEFINE reason == IF Missing(Key(w)) = {} THEN "complete" ELSE "incomplete"
    <3>1. Leaves(w, {Key(w)}, reason) /\ UNCHANGED <<gauge, gauged>>
      BY <1>7, <2>1, <2>4 DEF SealFrame, Seal, Leaves, Reasons
    <3> HIDE DEF reason
    <3> QED BY <2>2, <3>1, Constants, LeavesKeeps, LeavesMissesNone, StaysSwept
  <2> QED BY <2>3, <2>4
<1>8. ASSUME NEW w \in Workers, FrameDone(w) PROVE CollectorInv' /\ SweptNoneMissing'
  <2>1. UNCHANGED collectorVars /\ raised' = raised \ {w} BY <1>8 DEF FrameDone
  <2>2. SweptWhole' => SweptWhole BY <2>1, Constants DEF SweptWhole
  <2> QED BY <2>1, <2>2, CollectorUntouched, StaysSwept
<1>9. ASSUME \/ SweeperWakes
             \/ StopBegins
             \/ StopClosesQueue
             \/ StopJoinsSweeper
             \/ StopCopies
             \/ StopClosesSink
             \/ StopReleases
      PROVE  CollectorInv' /\ SweptNoneMissing'
  <2>1. UNCHANGED <<collectorVars, raised>>
    BY <1>9
    DEF SweeperWakes, StopBegins, StopClosesQueue, StopJoinsSweeper, StopCopies, StopClosesSink,
        StopReleases, stopVars
  <2>2. SweptWhole' => SweptWhole BY <2>1 DEF SweptWhole
  <2> QED BY <2>1, <2>2, CollectorUntouched, StaysSwept
<1>10. ASSUME NEW ks \in SUBSET pending, SweepOnce(ks) PROVE CollectorInv' /\ SweptNoneMissing'
  <2>1. raised' = raised /\ Leaves(Sweeper, ks, "timeout") /\ RefreshGauge
    BY <1>10 DEF SweepOnce, Sweep, At, Quiet, Leaves, Reasons
  <2>2. SweptWhole' => SweptWhole BY <2>1 DEF SweptWhole
  <2> QED BY <2>1, <2>2, Constants, LeavesKeeps, LeavesMissesNone, StaysSwept
<1>11. ASSUME NEW t \in Threads, NEW r \in out[t], EmitBegins(t, r)
       PROVE CollectorInv' /\ SweptNoneMissing'
  <2>1. raised' = raised /\ Publish(t, r) BY <1>11 DEF EmitBegins
  <2>2. SweptWhole' => SweptWhole BY <2>1 DEF SweptWhole
  <2> QED BY <2>1, <2>2, PublishKeeps, StaysSwept
<1>12. ASSUME NEW t \in Threads, NEW how \in {"result", "error"}, Settle(t, how)
       PROVE CollectorInv' /\ SweptNoneMissing'
  <2>1. UNCHANGED <<collectorVars, raised>>
    BY <1>12 DEF Settle, stopVars
  <2>2. SweptWhole' => SweptWhole BY <2>1 DEF SweptWhole
  <2> QED BY <2>1, <2>2, CollectorUntouched, StaysSwept
<1>13. ASSUME NEW t \in Threads, EmitRaises(t) PROVE CollectorInv' /\ SweptNoneMissing'
  <2>1. CollectorInv' BY <1>13, DropKeeps DEF EmitRaises
  <2>2. raised' = raised \cup {t} /\ hold[t] # Idle BY <1>13 DEF EmitRaises
  <2>3. CASE t \in Workers
    <3>1. out' = out
      BY <1>13, <2>2, <2>3 DEF EmitRaises, PublishFirst, CollectorInv, CollectorTypeOK
    <3>2. UNCHANGED collectorVars BY <1>13, <3>1 DEF EmitRaises, collectorVars
    <3>3. SweptWhole' => SweptWhole BY <2>2 DEF SweptWhole
    <3> QED BY <3>2, <3>3, CollectorUntouched, StaysSwept
  <2>4. CASE t \notin Workers
    <3>1. ~SweptWhole' BY <2>2, <2>4 DEF SweptWhole, Workers
    <3> QED BY <2>1, <3>1 DEF SweptNoneMissing
  <2> QED BY <2>3, <2>4
<1>14. ASSUME StopDrains PROVE CollectorInv' /\ SweptNoneMissing'
  <2>1. raised' = raised /\ Leaves(Stopper, pending, "shutdown") /\ RefreshGauge
    BY <1>14 DEF StopDrains, Drain, At, Quiet, Leaves, Reasons
  <2>2. SweptWhole' => SweptWhole BY <2>1 DEF SweptWhole
  <2> QED BY <2>1, <2>2, Constants, LeavesKeeps, LeavesMissesNone, StaysSwept
<1>15. ASSUME NEW k \in Keys, NEW i \in Items, StopCancels(k, i)
       PROVE CollectorInv' /\ SweptNoneMissing'
  <2>1. UNCHANGED <<collectorVars, raised>>
    BY <1>15 DEF StopCancels, stopVars
  <2>2. SweptWhole' => SweptWhole BY <2>1 DEF SweptWhole
  <2> QED BY <2>1, <2>2, CollectorUntouched, StaysSwept
<1>16. CASE UNCHANGED vars 
  BY <1>16, CollectorUntouched, StaysSwept DEF vars, SweptWhole
<1>17. \A t \in Threads : EmitWithoutEvent(t) \/ EmitPublishes(t) \/ EmitRefused(t) =>
           \E how \in {"result", "error"} : Settle(t, how)
  BY DEF EmitWithoutEvent, EmitPublishes, EmitRefused
<1>18. Workers \subseteq Threads BY DEF Workers
<1> QED
  BY PipelineAssumption, <1>1, <1>2, <1>3, <1>4, <1>5, <1>6, <1>7, <1>8, <1>9, <1>10, <1>11,
     <1>12, <1>13, <1>14, <1>15, <1>16, <1>17, <1>18
  DEF Next, Work, SweeperStep, Stop, Emit

\* Frames that stay with the workers that own them.
LEMMA OwnedStay ==
    ASSUME FramesAreOwned, pending' \subseteq pending,
           \A w \in Workers : pc[w] \in Owning => pc'[w] \in Owning /\ cur'[w] = cur[w]
    PROVE  FramesAreOwned'
BY DEF FramesAreOwned

LEMMA OwnedKeep ==
    ASSUME PipelineTypeOK, PlacesMeanIt, FramesAreOwned, [Next]_vars
    PROVE  FramesAreOwned'
<1>1. ASSUME NEW i \in Items,
             \/ Put(i)
             \/ Shed(i)
      PROVE  FramesAreOwned'
  <2>1. pending' \subseteq pending
    BY <1>1 DEF Put, Shed, collectorVars, Expect, Deliver, Publish
  <2>2. \A v \in Workers : pc[v] \in Owning => pc'[v] \in Owning /\ cur'[v] = cur[v]
    BY <1>1, Constants, TypesAre DEF Put, Shed, At, Go, RunnerTypes, workVars, Owning
  <2> QED BY <2>1, <2>2, OwnedStay
<1>2. ASSUME NEW w \in Workers,
             \/ TestStopping(w)
             \/ TakeItems(w)
             \/ PollEmpty(w)
             \/ QueueClosed(w)
             \/ BatchDone(w)
             \/ RefuseFrame(w)
             \/ Plan(w)
             \/ StageRuns(w)
             \/ StageFails(w)
             \/ DeliverStage(w)
             \/ GraphDone(w)
             \/ GraphRaises(w)
             \/ Wedge(w)
             \/ FrameDone(w)
             \/ FailItem(w)
             \/ WorkerDies(w)
             \/ StopJoins(w)
      PROVE  FramesAreOwned'
  <2>1. pending' \subseteq pending
    BY <1>2
    DEF TestStopping, TakeItems, PollEmpty, QueueClosed, BatchDone, RefuseFrame, Plan, StageRuns,
        StageFails, DeliverStage, GraphDone, GraphRaises, Wedge, FrameDone, FailItem, WorkerDies,
        StopJoins, collectorVars, Expect, Deliver, Publish
  <2>2. \A v \in Workers : pc[v] \in Owning => pc'[v] \in Owning /\ cur'[v] = cur[v]
    BY <1>2, Constants, TypesAre
    DEF TestStopping, TakeItems, PollEmpty, QueueClosed, BatchDone, RefuseFrame, Plan, StageRuns,
        StageFails, DeliverStage, GraphDone, GraphRaises, Wedge, FrameDone, FailItem, WorkerDies,
        StopJoins, At, Go, RunnerTypes, workVars, Owning
  <2> QED BY <2>1, <2>2, OwnedStay
<1>3. ASSUME NEW w \in Workers, NEW i \in Items,
             \/ RejectItem(w, i)
             \/ BeginFrame(w, i)
      PROVE  FramesAreOwned'
  <2>1. pending' \subseteq pending
    BY <1>3 DEF RejectItem, BeginFrame, collectorVars, Expect, Deliver, Publish
  <2>2. \A v \in Workers : pc[v] \in Owning => pc'[v] \in Owning /\ cur'[v] = cur[v]
    BY <1>3, Constants, TypesAre
    DEF RejectItem, BeginFrame, At, Go, RunnerTypes, workVars, Owning
  <2> QED BY <2>1, <2>2, OwnedStay
<1>4. ASSUME NEW w \in Workers, OpenFrame(w) PROVE FramesAreOwned'
  <2>1. pending' \subseteq pending \cup {Key(w)} BY <1>4 DEF OpenFrame, Open
  <2>2. pc'[w] = "plan" /\ cur' = cur /\ \A v \in Workers \ {w} : pc'[v] = pc[v]
    BY <1>4, Constants, TypesAre DEF OpenFrame, At, Go, RunnerTypes
  <2>3. ASSUME NEW k \in pending'
        PROVE  \E v \in Workers : pc'[v] \in Owning /\ KeyOf[cur'[v]] = k
    <3>1. CASE k = Key(w) BY <2>2, <3>1 DEF Owning, Key
    <3>2. CASE k # Key(w)
      <4>1. PICK v \in Workers : pc[v] \in Owning /\ KeyOf[cur[v]] = k
        BY <2>1, <2>3, <3>2 DEF FramesAreOwned
      <4> QED BY <2>2, <4>1 DEF Owning
    <3> QED BY <3>1, <3>2
  <2> QED BY <2>3 DEF FramesAreOwned
<1>5. ASSUME NEW w \in Workers, SealFrame(w) PROVE FramesAreOwned'
  <2>1. pending' = pending \ {Key(w)} BY <1>5 DEF SealFrame, Seal, Remove, collectorVars
  <2>2. cur' = cur /\ \A v \in Workers \ {w} : pc'[v] = pc[v]
    BY <1>5, Constants, TypesAre DEF SealFrame, Go, RunnerTypes, workVars
  <2>3. ASSUME NEW k \in pending'
        PROVE  \E v \in Workers : pc'[v] \in Owning /\ KeyOf[cur'[v]] = k
    <3>1. PICK v \in Workers : pc[v] \in Owning /\ KeyOf[cur[v]] = k
      BY <2>1, <2>3 DEF FramesAreOwned
    <3>2. v # w BY <2>1, <2>3, <3>1 DEF Key
    <3> QED BY <2>2, <3>1, <3>2
  <2> QED BY <2>3 DEF FramesAreOwned
<1>6. ASSUME \/ SweeperWakes
             \/ StopBegins
             \/ StopClosesQueue
             \/ StopJoinsSweeper
             \/ StopCopies
             \/ StopClosesSink
             \/ StopReleases
      PROVE  FramesAreOwned'
  <2>1. pending' \subseteq pending
    BY <1>6
    DEF SweeperWakes, StopBegins, StopClosesQueue, StopJoinsSweeper, StopCopies, StopClosesSink,
        StopReleases, collectorVars, Expect, Deliver, Publish
  <2>2. \A v \in Workers : pc[v] \in Owning => pc'[v] \in Owning /\ cur'[v] = cur[v]
    BY <1>6, Constants, TypesAre
    DEF SweeperWakes, StopBegins, StopClosesQueue, StopJoinsSweeper, StopCopies, StopClosesSink,
        StopReleases, At, Go, RunnerTypes, workVars, Owning
  <2> QED BY <2>1, <2>2, OwnedStay
<1>7. ASSUME NEW ks \in SUBSET pending, SweepOnce(ks) PROVE FramesAreOwned'
  <2>1. pending' \subseteq pending BY <1>7 DEF SweepOnce, Sweep, Remove
  <2>2. cur' = cur /\ \A v \in Workers : pc'[v] = pc[v]
    BY <1>7, Constants, TypesAre DEF SweepOnce, Go, RunnerTypes, workVars
  <2> QED BY <2>1, <2>2, OwnedStay
<1>8. ASSUME NEW t \in Threads, NEW r \in out[t], EmitBegins(t, r) PROVE FramesAreOwned'
  <2>1. pending' \subseteq pending
    BY <1>8 DEF EmitBegins, collectorVars, Expect, Deliver, Publish
  <2>2. \A v \in Workers : pc[v] \in Owning => pc'[v] \in Owning /\ cur'[v] = cur[v]
    BY <1>8, Constants, TypesAre DEF EmitBegins, At, Go, RunnerTypes, workVars, Owning
  <2> QED BY <2>1, <2>2, OwnedStay
<1>9. ASSUME NEW t \in Threads, NEW how \in {"result", "error"}, Settle(t, how)
      PROVE FramesAreOwned'
  <2>1. pending' \subseteq pending
    BY <1>9 DEF Settle, collectorVars, Expect, Deliver, Publish
  <2>2. \A v \in Workers : pc[v] \in Owning => pc'[v] \in Owning /\ cur'[v] = cur[v]
    BY <1>9, Constants, TypesAre DEF Settle, At, Go, RunnerTypes, workVars, Owning
  <2> QED BY <2>1, <2>2, OwnedStay
<1>10. ASSUME NEW t \in Threads, EmitRaises(t) PROVE FramesAreOwned'
  <2>1. pending' \subseteq pending BY <1>10 DEF EmitRaises
  <2>2. cur' = cur /\ \A v \in Workers : pc'[v] = pc[v]
    BY <1>10, Constants, TypesAre DEF EmitRaises, RunnerTypes, workVars
  <2> QED BY <2>1, <2>2, OwnedStay
<1>11. ASSUME StopDrains PROVE FramesAreOwned'
  <2>1. pending' \subseteq pending BY <1>11 DEF StopDrains, Drain, Remove
  <2>2. cur' = cur /\ \A v \in Workers : pc'[v] = pc[v]
    BY <1>11, Constants, TypesAre DEF StopDrains, Go, RunnerTypes, workVars
  <2> QED BY <2>1, <2>2, OwnedStay
<1>12. ASSUME NEW k \in Keys, NEW i \in Items, StopCancels(k, i) PROVE FramesAreOwned'
  <2>1. pending' \subseteq pending
    BY <1>12 DEF StopCancels, collectorVars, Expect, Deliver, Publish
  <2>2. \A v \in Workers : pc[v] \in Owning => pc'[v] \in Owning /\ cur'[v] = cur[v]
    BY <1>12, Constants, TypesAre DEF StopCancels, At, Go, RunnerTypes, workVars, Owning
  <2> QED BY <2>1, <2>2, OwnedStay
<1>13. CASE UNCHANGED vars BY <1>13 DEF vars, collectorVars, workVars, FramesAreOwned
<1>14. \A t \in Threads : EmitWithoutEvent(t) \/ EmitPublishes(t) \/ EmitRefused(t) =>
           \E how \in {"result", "error"} : Settle(t, how)
  BY DEF EmitWithoutEvent, EmitPublishes, EmitRefused
<1>15. Workers \subseteq Threads BY DEF Workers
<1> QED
  BY PipelineAssumption, <1>1, <1>2, <1>3, <1>4, <1>5, <1>6, <1>7, <1>8, <1>9, <1>10, <1>11,
     <1>12, <1>13, <1>14, <1>15
  DEF Next, Work, SweeperStep, Stop, Emit

-----------------------------------------------------------------------------
(* The map of awaited futures.                                             *)

LEMMA OwnKeysKeep ==
    ASSUME PipelineTypeOK, OwnKeys, [Next]_vars
    PROVE  OwnKeys'
<1>1. ASSUME NEW i \in Items,
             \/ Put(i)
             \/ Shed(i)
      PROVE  OwnKeys'
  <2>1. awaiting' = awaiting /\ toCancel' = toCancel BY <1>1 DEF Put, Shed, stopVars
  <2> QED BY <2>1 DEF OwnKeys
<1>2. ASSUME NEW w \in Workers,
             \/ TestStopping(w)
             \/ TakeItems(w)
             \/ PollEmpty(w)
             \/ QueueClosed(w)
             \/ BatchDone(w)
             \/ OpenFrame(w)
             \/ Plan(w)
             \/ StageRuns(w)
             \/ StageFails(w)
             \/ DeliverStage(w)
             \/ GraphDone(w)
             \/ GraphRaises(w)
             \/ Wedge(w)
             \/ SealFrame(w)
             \/ FrameDone(w)
             \/ FailItem(w)
             \/ WorkerDies(w)
             \/ StopJoins(w)
      PROVE  OwnKeys'
  <2>1. awaiting' = awaiting /\ toCancel' = toCancel
    BY <1>2
    DEF TestStopping, TakeItems, PollEmpty, QueueClosed, BatchDone, OpenFrame, Plan, StageRuns,
        StageFails, DeliverStage, GraphDone, GraphRaises, Wedge, SealFrame, FrameDone, FailItem,
        WorkerDies, StopJoins, stopVars
  <2> QED BY <2>1 DEF OwnKeys
<1>3. ASSUME NEW w \in Workers, NEW i \in Items, RejectItem(w, i) PROVE OwnKeys'
  <2>1. awaiting' = awaiting /\ toCancel' = toCancel BY <1>3 DEF RejectItem, stopVars
  <2> QED BY <2>1 DEF OwnKeys
<1>4. ASSUME NEW w \in Workers, NEW i \in Items, BeginFrame(w, i) PROVE OwnKeys'
  <2>1. awaiting' = [awaiting EXCEPT ![KeyOf[i]] = IF @ = None THEN i ELSE @]
        /\ toCancel' = toCancel
    BY <1>4 DEF BeginFrame, stopVars
  <2> QED BY <2>1, Constants, TypesAre DEF OwnKeys, RunnerTypes
<1>5. ASSUME NEW w \in Workers, RefuseFrame(w) PROVE OwnKeys'
  <2>1. awaiting' = [awaiting EXCEPT ![Key(w)] = IF @ = cur[w] THEN None ELSE @]
        /\ toCancel' = toCancel
    BY <1>5 DEF RefuseFrame, stopVars
  <2> QED BY <2>1, Constants, TypesAre DEF OwnKeys, RunnerTypes
<1>6. ASSUME \/ SweeperWakes
             \/ StopBegins
             \/ StopJoinsSweeper
             \/ StopDrains
             \/ StopClosesSink
             \/ StopReleases
      PROVE  OwnKeys'
  <2>1. awaiting' = awaiting /\ toCancel' = toCancel
    BY <1>6
    DEF SweeperWakes, StopBegins, StopJoinsSweeper, StopDrains, StopClosesSink, StopReleases,
        stopVars
  <2> QED BY <2>1 DEF OwnKeys
<1>7. ASSUME NEW ks \in SUBSET pending, SweepOnce(ks) PROVE OwnKeys'
  <2>1. awaiting' = awaiting /\ toCancel' = toCancel BY <1>7 DEF SweepOnce, stopVars
  <2> QED BY <2>1 DEF OwnKeys
<1>8. ASSUME NEW t \in Threads, NEW r \in out[t], EmitBegins(t, r) PROVE OwnKeys'
  <2>1. awaiting' = [awaiting EXCEPT ![r.key] = None] /\ toCancel' = toCancel
    BY <1>8 DEF EmitBegins, stopVars
  <2> QED BY <2>1, Constants, TypesAre DEF OwnKeys, RunnerTypes
<1>9. ASSUME NEW t \in Threads, NEW how \in {"result", "error"}, Settle(t, how) PROVE OwnKeys'
  <2>1. awaiting' = awaiting /\ toCancel' = toCancel BY <1>9 DEF Settle, stopVars
  <2> QED BY <2>1 DEF OwnKeys
<1>10. ASSUME NEW t \in Threads, EmitRaises(t) PROVE OwnKeys'
  <2>1. awaiting' = awaiting /\ toCancel' = toCancel BY <1>10 DEF EmitRaises, stopVars
  <2> QED BY <2>1 DEF OwnKeys
<1>11. ASSUME StopClosesQueue PROVE OwnKeys'
  <2>1. toCancel' = toCancel /\ \A k \in Keys : awaiting'[k] = None \/ awaiting'[k] = awaiting[k]
    BY <1>11 DEF StopClosesQueue, stopVars
  <2> QED BY <2>1 DEF OwnKeys
<1>12. ASSUME StopCopies PROVE OwnKeys'
  <2>1. awaiting' = awaiting BY <1>12 DEF StopCopies
  <2>2. \A k \in Keys, i \in Items : <<k, i>> \in toCancel' => awaiting[k] = i /\ i # None
    BY <1>12, Constants DEF StopCopies
  <2> QED BY <2>1, <2>2 DEF OwnKeys
<1>13. ASSUME NEW k \in Keys, NEW i \in Items, StopCancels(k, i) PROVE OwnKeys'
  <2>1. awaiting' = [awaiting EXCEPT ![k] = None] /\ toCancel' \subseteq toCancel
    BY <1>13 DEF StopCancels
  <2> QED BY <2>1, Constants, TypesAre DEF OwnKeys, RunnerTypes
<1>14. CASE UNCHANGED vars BY <1>14 DEF vars, stopVars, OwnKeys
<1>15. \A t \in Threads : EmitWithoutEvent(t) \/ EmitPublishes(t) \/ EmitRefused(t) =>
           \E how \in {"result", "error"} : Settle(t, how)
  BY DEF EmitWithoutEvent, EmitPublishes, EmitRefused
<1>16. Workers \subseteq Threads BY DEF Workers
<1> QED
  BY PipelineAssumption, <1>1, <1>2, <1>3, <1>4, <1>5, <1>6, <1>7, <1>8, <1>9, <1>10, <1>11,
     <1>12, <1>13, <1>14, <1>15, <1>16
  DEF Next, Work, SweeperStep, Stop, Emit

\* Where an unresolved future is.
Kept(i) ==
    \/ i \in queue
    \/ \E w \in Workers : i \in batch[w]
    \/ awaiting[KeyOf[i]] = i
    \/ \E t \in Threads : hold[t].item = i

\* Enough for a step: a future that stays unresolved is kept where it was, or
\* somewhere else.
LEMMA KeptStay ==
    ASSUME NoFutureDropped, future \in [Items -> {"none", "pending", "result", "error"}],
           \A i \in Items : future'[i] = "pending" /\ OwnTag(i) =>
              Kept(i)' \/ (future[i] = "pending" /\ (Kept(i) => Kept(i)'))
    PROVE  NoFutureDropped'
<1> SUFFICES ASSUME NEW i \in Items, future'[i] = "pending", OwnTag(i)
             PROVE  Kept(i)'
  BY DEF NoFutureDropped, Kept, OwnTag
<1> QED BY DEF NoFutureDropped, Kept

LEMMA NoFutureDroppedKeeps ==
    ASSUME PipelineTypeOK, PlacesMeanIt, OwnKeys, NoFutureDropped, [Next]_vars
    PROVE  NoFutureDropped'
<1>1. ASSUME NEW i \in Items, Put(i) PROVE NoFutureDropped'
  <2>1. queue' = queue \cup {i} /\ UNCHANGED <<batch, awaiting, hold>>
        /\ \A j \in Items \ {i} : future'[j] = future[j]
    BY <1>1 DEF Put, workVars
  <2> QED BY <2>1, TypesAre, KeptStay DEF RunnerTypes, Kept
<1>2. ASSUME NEW i \in Items, Shed(i) PROVE NoFutureDropped'
  <2>1. queue' = queue \ {i} /\ UNCHANGED <<batch, awaiting, hold>> /\ future'[i] = "error"
        /\ \A j \in Items \ {i} : future'[j] = future[j]
    BY <1>2 DEF Shed, Fail, workVars
  <2> QED BY <2>1, TypesAre, KeptStay DEF RunnerTypes, Kept
<1>3. ASSUME NEW w \in Workers,
             \/ TestStopping(w)
             \/ PollEmpty(w)
             \/ QueueClosed(w)
             \/ BatchDone(w)
             \/ OpenFrame(w)
             \/ Plan(w)
             \/ StageRuns(w)
             \/ StageFails(w)
             \/ DeliverStage(w)
             \/ GraphDone(w)
             \/ GraphRaises(w)
             \/ Wedge(w)
             \/ SealFrame(w)
             \/ FrameDone(w)
             \/ WorkerDies(w)
             \/ StopJoins(w)
      PROVE  NoFutureDropped'
  <2>1. UNCHANGED <<future, queue, batch, awaiting, hold>>
    BY <1>3
    DEF TestStopping, PollEmpty, QueueClosed, BatchDone, OpenFrame, Plan, StageRuns, StageFails,
        DeliverStage, GraphDone, GraphRaises, Wedge, SealFrame, FrameDone, WorkerDies, StopJoins,
        queueVars, workVars
  <2> QED BY <2>1 DEF NoFutureDropped
<1>4. ASSUME NEW w \in Workers, TakeItems(w) PROVE NoFutureDropped'
  <2>1. PICK is \in SUBSET queue : queue' = queue \ is /\ batch' = [batch EXCEPT ![w] = is]
    BY <1>4 DEF TakeItems
  <2>2. batch[w] = {} BY <1>4 DEF TakeItems, At, PlacesMeanIt
  <2>3. batch'[w] = is /\ \A v \in Workers \ {w} : batch'[v] = batch[v]
    BY <2>1, TypesAre DEF RunnerTypes
  <2>4. UNCHANGED <<future, awaiting, hold>> BY <1>4 DEF TakeItems
  <2>5. \A j \in Items : Kept(j) => Kept(j)' BY <2>1, <2>2, <2>3, <2>4 DEF Kept
  <2> QED BY <2>4, <2>5, TypesAre, KeptStay DEF RunnerTypes
<1>5. ASSUME NEW w \in Workers, NEW i \in Items, RejectItem(w, i) PROVE NoFutureDropped'
  <2>1. batch' = [batch EXCEPT ![w] = @ \ {i}] /\ UNCHANGED <<queue, awaiting, hold>>
        /\ future'[i] = "error" /\ \A j \in Items \ {i} : future'[j] = future[j]
    BY <1>5 DEF RejectItem, Fail, queueVars
  <2>2. \A v \in Workers : \A j \in batch[v] \ {i} : j \in batch'[v]
    BY <2>1, TypesAre DEF RunnerTypes
  <2>3. \A j \in Items \ {i} : Kept(j) => Kept(j)' BY <2>1, <2>2 DEF Kept
  <2> QED BY <2>1, <2>3, TypesAre, KeptStay DEF RunnerTypes
<1>6. ASSUME NEW w \in Workers, NEW i \in Items, BeginFrame(w, i) PROVE NoFutureDropped'
  <2>1. batch' = [batch EXCEPT ![w] = @ \ {i}] /\ UNCHANGED <<queue, future, hold>>
        /\ awaiting' = [awaiting EXCEPT ![KeyOf[i]] = IF @ = None THEN i ELSE @]
    BY <1>6 DEF BeginFrame, queueVars
  <2>2. \A v \in Workers : \A j \in batch[v] \ {i} : j \in batch'[v]
    BY <2>1, TypesAre DEF RunnerTypes
  <2>3. /\ awaiting'[KeyOf[i]] = IF awaiting[KeyOf[i]] = None THEN i ELSE awaiting[KeyOf[i]]
        /\ \A k \in Keys : awaiting[k] # None => awaiting'[k] = awaiting[k]
    BY <2>1, Constants, TypesAre DEF RunnerTypes
  <2>4. \A j \in Items \ {i} : Kept(j) => Kept(j)' BY <2>1, <2>2, <2>3, Constants DEF Kept
  <2>5. OwnTag(i) => Kept(i)'
    <3>1. CASE awaiting[KeyOf[i]] = None BY <2>3, <3>1 DEF Kept
    <3>2. CASE awaiting[KeyOf[i]] # None
      <4>1. OwnTag(i) => awaiting[KeyOf[i]] = i
        BY <3>2, Constants, TypesAre DEF OwnKeys, OwnTag, RunnerTypes
      <4> QED BY <2>3, <4>1, <3>2 DEF Kept
    <3> QED BY <3>1, <3>2
  <2> QED BY <2>1, <2>4, <2>5, TypesAre, KeptStay DEF RunnerTypes
<1>7. ASSUME NEW w \in Workers, RefuseFrame(w) PROVE NoFutureDropped'
  <2>1. UNCHANGED <<queue, batch, hold>> /\ cur[w] \in Items /\ future'[cur[w]] = "error"
        /\ \A j \in Items \ {cur[w]} : future'[j] = future[j]
    BY <1>7, TypesAre DEF RefuseFrame, At, Fail, queueVars, PlacesMeanIt, InFrame, RunnerTypes
  <2>2. \A k \in Keys : awaiting[k] # cur[w] => awaiting'[k] = awaiting[k]
    BY <1>7, TypesAre DEF RefuseFrame, RunnerTypes
  <2>3. \A j \in Items \ {cur[w]} : Kept(j) => Kept(j)' BY <2>1, <2>2, Constants DEF Kept
  <2> QED BY <2>1, <2>3, TypesAre, KeptStay DEF RunnerTypes
<1>8. ASSUME NEW w \in Workers, FailItem(w) PROVE NoFutureDropped'
  <2>1. UNCHANGED <<queue, batch, awaiting, hold>> /\ cur[w] \in Items /\ future'[cur[w]] =
                    "error"
        /\ \A j \in Items \ {cur[w]} : future'[j] = future[j]
    BY <1>8, TypesAre DEF FailItem, At, Fail, queueVars, PlacesMeanIt, InFrame, RunnerTypes
  <2>2. \A j \in Items : Kept(j) => Kept(j)' BY <2>1 DEF Kept
  <2> QED BY <2>1, <2>2, TypesAre, KeptStay DEF RunnerTypes
<1>9. ASSUME \/ SweeperWakes
             \/ StopBegins
             \/ StopJoinsSweeper
             \/ StopDrains
             \/ StopCopies
             \/ StopClosesSink
             \/ StopReleases
      PROVE  NoFutureDropped'
  <2>1. UNCHANGED <<future, queue, batch, awaiting, hold>>
    BY <1>9
    DEF SweeperWakes, StopBegins, StopJoinsSweeper, StopDrains, StopCopies, StopClosesSink,
        StopReleases, queueVars, workVars
  <2> QED BY <2>1 DEF NoFutureDropped
<1>10. ASSUME NEW ks \in SUBSET pending, SweepOnce(ks) PROVE NoFutureDropped'
  <2>1. UNCHANGED <<future, queue, batch, awaiting, hold>>
    BY <1>10 DEF SweepOnce, queueVars, workVars
  <2> QED BY <2>1 DEF NoFutureDropped
<1>11. ASSUME NEW t \in Threads, NEW r \in out[t], EmitBegins(t, r) PROVE NoFutureDropped'
  <2>1. UNCHANGED <<queue, batch, future>> /\ hold[t] = Idle
        /\ awaiting' = [awaiting EXCEPT ![r.key] = None]
        /\ hold' = [hold EXCEPT ![t] = [item |-> awaiting[r.key], reason |-> r.reason]]
    BY <1>11 DEF EmitBegins, queueVars, workVars
  <2>2. hold'[t].item = awaiting[r.key] /\ \A u \in Threads \ {t} : hold'[u] = hold[u]
    BY <2>1, TypesAre DEF RunnerTypes
  <2>3. \A k \in Keys : k # r.key => awaiting'[k] = awaiting[k] BY <2>1, TypesAre DEF RunnerTypes
  <2>4. \A j \in Items : hold[t].item # j BY <2>1, Constants DEF Idle
  <2>5. ASSUME NEW j \in Items, Kept(j) PROVE Kept(j)'
    <3>1. CASE awaiting[KeyOf[j]] = j
      <4>1. CASE KeyOf[j] = r.key BY <2>2, <3>1, <4>1 DEF Kept
      <4>2. CASE KeyOf[j] # r.key BY <2>3, <3>1, <4>2, Constants DEF Kept
      <4> QED BY <4>1, <4>2
    <3>2. ASSUME NEW u \in Threads, hold[u].item = j PROVE Kept(j)'
      BY <2>2, <2>4, <3>2 DEF Kept
    <3> QED BY <2>1, <2>5, <3>1, <3>2 DEF Kept
  <2> QED BY <2>1, <2>5, TypesAre, KeptStay DEF RunnerTypes
<1>12. ASSUME NEW t \in Threads, NEW how \in {"result", "error"}, Settle(t, how)
       PROVE NoFutureDropped'
  <2>1. UNCHANGED <<queue, batch, awaiting>>
        /\ \A u \in Threads \ {t} : hold'[u] = hold[u]
    BY <1>12, TypesAre DEF Settle, queueVars, workVars, RunnerTypes
  <2>2. \A j \in Items : future'[j] = "pending" => future[j] = "pending" /\ hold[t].item # j
    <3>1. CASE hold[t].item = None \/ Stolen(t)
      <4>1. future' = future BY <1>12, <3>1 DEF Settle
      <4> QED BY <3>1, <4>1, Constants DEF Stolen
    <3>2. CASE ~(hold[t].item = None \/ Stolen(t))
      <4>1. future' = [future EXCEPT ![hold[t].item] = how] BY <1>12, <3>2 DEF Settle
      <4> QED BY <4>1, TypesAre DEF RunnerTypes
    <3> QED BY <3>1, <3>2
  <2>3. \A j \in Items : hold[t].item # j => (Kept(j) => Kept(j)') BY <2>1 DEF Kept
  <2> QED BY <2>2, <2>3, TypesAre, KeptStay DEF RunnerTypes
<1>13. ASSUME NEW t \in Threads, EmitRaises(t) PROVE NoFutureDropped'
  <2>1. UNCHANGED <<queue, batch, awaiting, future>>
        /\ \A u \in Threads \ {t} : hold'[u] = hold[u]
    BY <1>13, TypesAre DEF EmitRaises, queueVars, workVars, RunnerTypes
  <2>2. \A j \in Items : future[j] = "pending" => hold[t].item # j
    BY <1>13 DEF EmitRaises, Stolen
  <2>3. \A j \in Items : hold[t].item # j => (Kept(j) => Kept(j)') BY <2>1 DEF Kept
  <2> QED BY <2>1, <2>2, <2>3, TypesAre, KeptStay DEF RunnerTypes
<1>14. ASSUME StopClosesQueue PROVE NoFutureDropped'
  <2>1. UNCHANGED <<batch, hold>> /\ \A j \in queue : j \in Items /\ future'[j] = "error"
    BY <1>14, TypesAre DEF StopClosesQueue, Fail, workVars, RunnerTypes
  <2>2. \A j \in Items \ queue : future'[j] = future[j] BY <1>14 DEF StopClosesQueue, Fail
  <2>3. \A k \in Keys : k \notin {KeyOf[j] : j \in queue} => awaiting'[k] = awaiting[k]
    BY <1>14 DEF StopClosesQueue
  <2>4. \A j \in Items \ queue : OwnTag(j) => KeyOf[j] \notin {KeyOf[m] : m \in queue}
    BY TypesAre DEF OwnTag, RunnerTypes
  <2>5. \A j \in Items \ queue : OwnTag(j) => (Kept(j) => Kept(j)')
    BY <2>1, <2>3, <2>4, Constants DEF Kept
  <2> QED BY <2>1, <2>2, <2>5, TypesAre, KeptStay DEF RunnerTypes
<1>15. ASSUME NEW k \in Keys, NEW i \in Items, StopCancels(k, i) PROVE NoFutureDropped'
  <2>1. UNCHANGED <<queue, batch, hold>> /\ <<k, i>> \in toCancel
        /\ awaiting' = [awaiting EXCEPT ![k] = None]
    BY <1>15 DEF StopCancels, queueVars, workVars
  <2>2. \A j \in Items \ {i} : future'[j] = future[j] BY <1>15 DEF StopCancels, Fail
  <2>3. future'[i] # "pending" BY <1>15 DEF StopCancels, Fail
  <2>4. \A j \in Items \ {i} : OwnTag(j) => KeyOf[j] # k BY <2>1 DEF OwnTag, OwnKeys
  <2>5. \A j \in Items \ {i} : OwnTag(j) => (Kept(j) => Kept(j)')
    BY <2>1, <2>4, Constants, TypesAre DEF Kept, RunnerTypes
  <2> QED BY <2>2, <2>3, <2>5, TypesAre, KeptStay DEF RunnerTypes
<1>16. CASE UNCHANGED vars BY <1>16 DEF vars, queueVars, workVars, NoFutureDropped
<1>17. \A t \in Threads : EmitWithoutEvent(t) \/ EmitPublishes(t) \/ EmitRefused(t) =>
           \E how \in {"result", "error"} : Settle(t, how)
  BY DEF EmitWithoutEvent, EmitPublishes, EmitRefused
<1>18. Workers \subseteq Threads BY DEF Workers
<1> QED
  BY PipelineAssumption, <1>1, <1>2, <1>3, <1>4, <1>5, <1>6, <1>7, <1>8, <1>9, <1>10, <1>11,
     <1>12, <1>13, <1>14, <1>15, <1>16, <1>17, <1>18
  DEF Next, Work, SweeperStep, Stop, Emit

\* What a registered future of tag k has behind it.
Backed(k) ==
    \/ k \in pending
    \/ \E w \in Workers : cur[w] = awaiting[k] /\ pc[w] = "open"
    \/ \E t \in Threads : \E r \in out[t] : r.key = k

LEMMA BackedStay ==
    ASSUME AwaitingIsBacked, SweptWhole' => SweptWhole,
           \A k \in Keys : SweptWhole' /\ awaiting'[k] # None =>
              Backed(k)' \/ (awaiting[k] # None /\ (Backed(k) => Backed(k)'))
    PROVE  AwaitingIsBacked'
<1> SUFFICES ASSUME SweptWhole', NEW k \in Keys, awaiting'[k] # None
             PROVE  Backed(k)'
  BY DEF AwaitingIsBacked, Backed
<1> QED BY DEF AwaitingIsBacked, Backed

\* A frame that is taken out of the buffer is in the hands of the thread.
LEMMA BackedLeave ==
    ASSUME PipelineTypeOK, awaiting' = awaiting, NEW t \in Threads, NEW ks, NEW reason,
           out[t] = {}, pending' = pending \ ks, out' = [out EXCEPT ![t] = Taken(ks, reason)],
           \A v \in Workers : pc[v] = "open" => pc'[v] = "open" /\ cur'[v] = cur[v]
    PROVE  \A k \in Keys : Backed(k) => Backed(k)'
<1> SUFFICES ASSUME NEW k \in Keys, Backed(k) PROVE Backed(k)' OBVIOUS
<1>1. /\ \A l \in ks : Result(l, reason) \in out'[t] /\ Result(l, reason).key = l
      /\ \A u \in Threads : out[u] \subseteq out'[u]
  BY TypesAre DEF Taken, Result, CollectorTypeOK
<1>2. CASE k \in pending
  <2>1. CASE k \in ks BY <1>1, <2>1 DEF Backed
  <2>2. CASE k \notin ks BY <1>2, <2>2 DEF Backed
  <2> QED BY <2>1, <2>2
<1>3. CASE k \notin pending BY <1>1, <1>3 DEF Backed
<1> QED BY <1>2, <1>3

LEMMA BackedKeeps ==
    ASSUME PipelineTypeOK, CollectorInv, PlacesMeanIt, PublishFirst, OwnKeys, AwaitingIsBacked,
           [Next]_vars
    PROVE  AwaitingIsBacked'
<1>1. ASSUME NEW i \in Items,
             \/ Put(i)
             \/ Shed(i)
      PROVE  AwaitingIsBacked'
  <2>1. UNCHANGED <<pending, out, awaiting, raised>>
    BY <1>1 DEF Put, Shed, collectorVars, Expect, Deliver, stopVars
  <2>2. \A v \in Workers : pc[v] = "open" => pc'[v] = "open" /\ cur'[v] = cur[v]
    BY <1>1, Constants, TypesAre
    DEF Put, Shed, At, Go, RunnerTypes, workVars, PlacesMeanIt, SweeperPlaces, StopPlaces,
        AfterClose
  <2>3. \A k \in Keys : Backed(k) => Backed(k)' BY <2>1, <2>2 DEF Backed
  <2> QED BY <2>1, <2>3, BackedStay DEF SweptWhole
<1>2. ASSUME NEW w \in Workers,
             \/ TestStopping(w)
             \/ TakeItems(w)
             \/ PollEmpty(w)
             \/ QueueClosed(w)
             \/ BatchDone(w)
             \/ Plan(w)
             \/ StageRuns(w)
             \/ StageFails(w)
             \/ DeliverStage(w)
             \/ GraphDone(w)
             \/ GraphRaises(w)
             \/ Wedge(w)
             \/ FailItem(w)
             \/ WorkerDies(w)
             \/ StopJoins(w)
      PROVE  AwaitingIsBacked'
  <2>1. UNCHANGED <<pending, out, awaiting, raised>>
    BY <1>2
    DEF TestStopping, TakeItems, PollEmpty, QueueClosed, BatchDone, Plan, StageRuns, StageFails,
        DeliverStage, GraphDone, GraphRaises, Wedge, FailItem, WorkerDies, StopJoins,
        collectorVars, Expect, Deliver, stopVars
  <2>2. \A v \in Workers : pc[v] = "open" => pc'[v] = "open" /\ cur'[v] = cur[v]
    BY <1>2, Constants, TypesAre
    DEF TestStopping, TakeItems, PollEmpty, QueueClosed, BatchDone, Plan, StageRuns, StageFails,
        DeliverStage, GraphDone, GraphRaises, Wedge, FailItem, WorkerDies, StopJoins, At, Go,
        RunnerTypes, workVars, PlacesMeanIt, SweeperPlaces, StopPlaces, AfterClose
  <2>3. \A k \in Keys : Backed(k) => Backed(k)' BY <2>1, <2>2 DEF Backed
  <2> QED BY <2>1, <2>3, BackedStay DEF SweptWhole
<1>3. ASSUME NEW w \in Workers, NEW i \in Items, RejectItem(w, i) PROVE AwaitingIsBacked'
  <2>1. UNCHANGED <<pending, out, awaiting, raised>>
    BY <1>3 DEF RejectItem, collectorVars, Expect, Deliver, stopVars
  <2>2. \A v \in Workers : pc[v] = "open" => pc'[v] = "open" /\ cur'[v] = cur[v]
    BY <1>3, Constants, TypesAre
    DEF RejectItem, At, Go, RunnerTypes, workVars, PlacesMeanIt, SweeperPlaces, StopPlaces,
        AfterClose
  <2>3. \A k \in Keys : Backed(k) => Backed(k)' BY <2>1, <2>2 DEF Backed
  <2> QED BY <2>1, <2>3, BackedStay DEF SweptWhole
<1>4. ASSUME NEW w \in Workers, NEW i \in Items, BeginFrame(w, i) PROVE AwaitingIsBacked'
  <2>1. UNCHANGED <<pending, out, raised>>
        /\ awaiting' = [awaiting EXCEPT ![KeyOf[i]] = IF @ = None THEN i ELSE @]
        /\ cur'[w] = i /\ pc'[w] = "open"
    BY <1>4, Constants, TypesAre DEF BeginFrame, collectorVars, Go, RunnerTypes
  <2>2. \A v \in Workers : pc[v] = "open" => pc'[v] = "open" /\ cur'[v] = cur[v]
    BY <1>4, TypesAre DEF BeginFrame, At, Go, RunnerTypes
  <2>3. \A k \in Keys : awaiting'[k] = awaiting[k] \/ awaiting'[k] = i
    BY <2>1, TypesAre DEF RunnerTypes
  <2>4. \A k \in Keys : awaiting'[k] = i => Backed(k)' BY <2>1 DEF Backed
  <2>5. \A k \in Keys : awaiting'[k] = awaiting[k] => (Backed(k) => Backed(k)')
    BY <2>1, <2>2 DEF Backed
  <2> QED BY <2>1, <2>3, <2>4, <2>5, BackedStay DEF SweptWhole
<1>5. ASSUME NEW w \in Workers, OpenFrame(w) PROVE AwaitingIsBacked'
  <2>1. Open(w, Key(w), {1}) /\ out[w] = {} /\ UNCHANGED <<awaiting, raised, cur>> /\ pc[w] = "open"
    BY <1>5 DEF OpenFrame, At, Quiet
  <2>2. \A v \in Workers \ {w} : pc'[v] = pc[v]
    BY <1>5, Constants, TypesAre DEF OpenFrame, Go, RunnerTypes
  <2>3. pending \ Gone \subseteq pending' /\ Key(w) \in pending' BY <2>1 DEF Open
  <2>4. (\A k \in Gone : Result(k, "evicted") \in out'[w]) /\ \A t \in Threads \ {w} : out'[t] = out[t]
    BY <2>1, Constants DEF Open, Taken, CollectorInv, CollectorTypeOK
  <2>5. \A k \in Gone : Result(k, "evicted").key = k BY DEF Result
  <2>6. ASSUME NEW k \in Keys, awaiting[k] # None, Backed(k) PROVE Backed(k)'
    <3>1. CASE k \in pending
      <4>1. CASE k \in Gone BY <2>4, <2>5, <4>1, Constants DEF Backed
      <4>2. CASE k \notin Gone BY <2>3, <3>1, <4>2 DEF Backed
      <4> QED BY <4>1, <4>2
    <3>2. ASSUME NEW v \in Workers, cur[v] = awaiting[k], pc[v] = "open" PROVE Backed(k)'
      <4>1. CASE v = w
        <5>1. k = Key(w) BY <2>6, <3>2, <4>1, TypesAre DEF OwnKeys, Key, RunnerTypes
        <5> QED BY <2>3, <5>1 DEF Backed
      <4>2. CASE v # w BY <2>1, <2>2, <3>2, <4>2 DEF Backed
      <4> QED BY <4>1, <4>2
    <3>3. ASSUME NEW t \in Threads, NEW r \in out[t], r.key = k PROVE Backed(k)'
      BY <2>1, <2>4, <3>3 DEF Backed
    <3> QED BY <2>6, <3>1, <3>2, <3>3 DEF Backed
  <2> QED BY <2>1, <2>6, BackedStay DEF SweptWhole
<1>6. ASSUME NEW w \in Workers, RefuseFrame(w) PROVE AwaitingIsBacked'
  <2>1. UNCHANGED <<pending, out, raised>> /\ Key(w) \in pending
    BY <1>6 DEF RefuseFrame, collectorVars
  <2>2. \A v \in Workers \ {w} : pc'[v] = pc[v] /\ cur'[v] = cur[v]
    BY <1>6, Constants, TypesAre DEF RefuseFrame, Go, RunnerTypes
  <2>3. \A k \in Keys : awaiting'[k] # None => awaiting'[k] = awaiting[k]
    BY <1>6, TypesAre DEF RefuseFrame, RunnerTypes
  <2>4. Key(w) \in pending' BY <2>1
  <2>5. ASSUME NEW k \in Keys, awaiting'[k] # None, Backed(k) PROVE Backed(k)'
    <3>1. CASE k \in pending BY <2>1, <3>1 DEF Backed
    <3>2. ASSUME NEW v \in Workers, cur[v] = awaiting[k], pc[v] = "open" PROVE Backed(k)'
      <4>1. CASE v = w
        <5>1. k = Key(w) BY <2>3, <2>5, <3>2, <4>1, TypesAre DEF OwnKeys, Key, RunnerTypes
        <5> QED BY <2>4, <5>1 DEF Backed
      <4>2. CASE v # w BY <2>2, <2>3, <2>5, <3>2, <4>2 DEF Backed
      <4> QED BY <4>1, <4>2
    <3>3. ASSUME NEW t \in Threads, NEW r \in out[t], r.key = k PROVE Backed(k)'
      BY <2>1, <3>3 DEF Backed
    <3> QED BY <2>5, <3>1, <3>2, <3>3 DEF Backed
  <2> QED BY <2>1, <2>3, <2>5, BackedStay DEF SweptWhole
<1>7. ASSUME NEW w \in Workers, SealFrame(w) PROVE AwaitingIsBacked'
  <2>1. UNCHANGED <<awaiting, raised>> /\ out[w] = {} BY <1>7 DEF SealFrame, At, Quiet
  <2>2. \A v \in Workers : pc[v] = "open" => pc'[v] = "open" /\ cur'[v] = cur[v]
    BY <1>7, TypesAre DEF SealFrame, At, Go, RunnerTypes, workVars
  <2>3. CASE Key(w) \notin pending
    <3>1. UNCHANGED <<pending, out>> BY <1>7, <2>3 DEF SealFrame, collectorVars
    <3>2. \A k \in Keys : Backed(k) => Backed(k)' BY <2>1, <2>2, <3>1 DEF Backed
    <3> QED BY <2>1, <3>2, BackedStay DEF SweptWhole
  <2>4. CASE Key(w) \in pending
    <3>1. PICK reason : out' = [out EXCEPT ![w] = Taken({Key(w)}, reason)]
      BY <1>7, <2>4 DEF SealFrame, Seal
    <3>2. pending' = pending \ {Key(w)} BY <1>7, <2>4 DEF SealFrame, Seal, Remove
    <3> QED BY <2>1, <2>2, <3>1, <3>2, Constants, BackedLeave, BackedStay DEF SweptWhole
  <2> QED BY <2>3, <2>4
<1>8. ASSUME NEW w \in Workers, FrameDone(w) PROVE AwaitingIsBacked'
  <2>1. UNCHANGED <<pending, out, awaiting>> /\ raised' = raised \ {w}
    BY <1>8 DEF FrameDone, collectorVars
  <2>2. \A v \in Workers : pc[v] = "open" => pc'[v] = "open" /\ cur'[v] = cur[v]
    BY <1>8, Constants, TypesAre DEF FrameDone, At, Go, RunnerTypes
  <2>3. \A k \in Keys : Backed(k) => Backed(k)' BY <2>1, <2>2 DEF Backed
  <2> QED BY <2>1, <2>3, Constants, BackedStay DEF SweptWhole
<1>9. ASSUME \/ SweeperWakes
             \/ StopBegins
             \/ StopJoinsSweeper
             \/ StopCopies
             \/ StopClosesSink
             \/ StopReleases
      PROVE  AwaitingIsBacked'
  <2>1. UNCHANGED <<pending, out, awaiting, raised>>
    BY <1>9
    DEF SweeperWakes, StopBegins, StopJoinsSweeper, StopCopies, StopClosesSink, StopReleases,
        collectorVars, Expect, Deliver, stopVars
  <2>2. \A v \in Workers : pc[v] = "open" => pc'[v] = "open" /\ cur'[v] = cur[v]
    BY <1>9, Constants, TypesAre
    DEF SweeperWakes, StopBegins, StopJoinsSweeper, StopCopies, StopClosesSink, StopReleases, At,
        Go, RunnerTypes, workVars, PlacesMeanIt, SweeperPlaces, StopPlaces, AfterClose
  <2>3. \A k \in Keys : Backed(k) => Backed(k)' BY <2>1, <2>2 DEF Backed
  <2> QED BY <2>1, <2>3, BackedStay DEF SweptWhole
<1>10. ASSUME NEW ks \in SUBSET pending, SweepOnce(ks) PROVE AwaitingIsBacked'
  <2>1. UNCHANGED <<awaiting, raised>> /\ out[Sweeper] = {} /\ pending' = pending \ ks
        /\ out' = [out EXCEPT ![Sweeper] = Taken(ks, "timeout")]
    BY <1>10 DEF SweepOnce, Sweep, At, Quiet, Remove
  <2>2. \A v \in Workers : pc[v] = "open" => pc'[v] = "open" /\ cur'[v] = cur[v]
    BY <1>10, Constants, TypesAre DEF SweepOnce, At, Go, RunnerTypes, workVars
  <2> QED BY <2>1, <2>2, Constants, BackedLeave, BackedStay DEF SweptWhole
<1>11. ASSUME NEW t \in Threads, NEW r \in out[t], EmitBegins(t, r) PROVE AwaitingIsBacked'
  <2>1. UNCHANGED <<pending, pc, cur, raised>>
        /\ awaiting' = [awaiting EXCEPT ![r.key] = None] /\ out' = [out EXCEPT ![t] = @ \ {r}]
    BY <1>11 DEF EmitBegins, Publish, workVars
  <2>2. \A k \in Keys : awaiting'[k] # None => k # r.key /\ awaiting'[k] = awaiting[k]
    BY <2>1, TypesAre DEF RunnerTypes
  <2>3. \A u \in Threads : \A q \in out[u] : q.key # r.key => q \in out'[u]
    BY <2>1 DEF CollectorInv, CollectorTypeOK
  <2>4. ASSUME NEW k \in Keys, awaiting'[k] # None, Backed(k) PROVE Backed(k)'
    BY <2>1, <2>2, <2>3, <2>4 DEF Backed
  <2> QED BY <2>1, <2>2, <2>4, BackedStay DEF SweptWhole
<1>12. ASSUME NEW t \in Threads, NEW how \in {"result", "error"}, Settle(t, how)
       PROVE AwaitingIsBacked'
  <2>1. UNCHANGED <<pending, out, awaiting, raised>>
    BY <1>12 DEF Settle, collectorVars, Expect, Deliver, stopVars
  <2>2. \A v \in Workers : pc[v] = "open" => pc'[v] = "open" /\ cur'[v] = cur[v]
    BY <1>12, Constants, TypesAre
    DEF Settle, At, Go, RunnerTypes, workVars, PlacesMeanIt, SweeperPlaces, StopPlaces,
        AfterClose
  <2>3. \A k \in Keys : Backed(k) => Backed(k)' BY <2>1, <2>2 DEF Backed
  <2> QED BY <2>1, <2>3, BackedStay DEF SweptWhole
<1>13. ASSUME NEW t \in Threads, EmitRaises(t) PROVE AwaitingIsBacked'
  <2>1. UNCHANGED <<pending, awaiting, cur>> /\ raised' = raised \cup {t} /\ hold[t] # Idle
        /\ \A v \in Workers : pc'[v] = pc[v]
    BY <1>13, Constants, TypesAre DEF EmitRaises, workVars, RunnerTypes
  <2>2. SweptWhole' => SweptWhole /\ t \in Workers BY <2>1 DEF SweptWhole, Workers
  <2>3. t \in Workers => out' = out
    BY <1>13, <2>1 DEF EmitRaises, PublishFirst, CollectorInv, CollectorTypeOK
  <2>4. \A k \in Keys : SweptWhole' /\ Backed(k) => Backed(k)' BY <2>1, <2>2, <2>3 DEF Backed
  <2> QED BY <2>1, <2>2, <2>4, BackedStay
<1>14. ASSUME StopClosesQueue PROVE AwaitingIsBacked'
  <2>1. UNCHANGED <<pending, out, raised>>
        /\ \A k \in Keys : awaiting'[k] # None => awaiting'[k] = awaiting[k]
    BY <1>14 DEF StopClosesQueue, collectorVars
  <2>2. \A v \in Workers : pc[v] = "open" => pc'[v] = "open" /\ cur'[v] = cur[v]
    BY <1>14, Constants, TypesAre DEF StopClosesQueue, At, Go, RunnerTypes, workVars
  <2>3. \A k \in Keys : awaiting'[k] # None => (Backed(k) => Backed(k)') BY <2>1, <2>2 DEF Backed
  <2> QED BY <2>1, <2>3, BackedStay DEF SweptWhole
<1>15. ASSUME StopDrains PROVE AwaitingIsBacked'
  <2>1. UNCHANGED <<awaiting, raised>> /\ out[Stopper] = {} /\ pending' = pending \ pending
        /\ out' = [out EXCEPT ![Stopper] = Taken(pending, "shutdown")]
    BY <1>15 DEF StopDrains, Drain, At, Quiet, Remove
  <2>2. \A v \in Workers : pc[v] = "open" => pc'[v] = "open" /\ cur'[v] = cur[v]
    BY <1>15, Constants, TypesAre DEF StopDrains, At, Go, RunnerTypes, workVars
  <2> QED BY <2>1, <2>2, Constants, BackedLeave, BackedStay DEF SweptWhole
<1>16. ASSUME NEW k \in Keys, NEW i \in Items, StopCancels(k, i) PROVE AwaitingIsBacked'
  <2>1. UNCHANGED <<pending, out, raised>>
        /\ \A j \in Keys : awaiting'[j] # None => awaiting'[j] = awaiting[j]
    BY <1>16, TypesAre DEF StopCancels, collectorVars, RunnerTypes
  <2>2. \A v \in Workers : pc[v] = "open" => pc'[v] = "open" /\ cur'[v] = cur[v]
    BY <1>16, Constants, TypesAre DEF StopCancels, At, Go, RunnerTypes, workVars
  <2>3. \A j \in Keys : awaiting'[j] # None => (Backed(j) => Backed(j)') BY <2>1, <2>2 DEF Backed
  <2> QED BY <2>1, <2>3, BackedStay DEF SweptWhole
<1>17. CASE UNCHANGED vars
  BY <1>17 DEF vars, collectorVars, workVars, AwaitingIsBacked, SweptWhole
<1>18. \A t \in Threads : EmitWithoutEvent(t) \/ EmitPublishes(t) \/ EmitRefused(t) =>
           \E how \in {"result", "error"} : Settle(t, how)
  BY DEF EmitWithoutEvent, EmitPublishes, EmitRefused
<1>19. Workers \subseteq Threads BY DEF Workers
<1> QED
  BY PipelineAssumption, <1>1, <1>2, <1>3, <1>4, <1>5, <1>6, <1>7, <1>8, <1>9, <1>10, <1>11,
     <1>12, <1>13, <1>14, <1>15, <1>16, <1>17, <1>18, <1>19
  DEF Next, Work, SweeperStep, Stop, Emit

-----------------------------------------------------------------------------
(* Who has a frame, and what the collector's record of it says.            *)

\* Futures are not taken back.
LEMMA FuturesStay ==
    ASSUME PipelineTypeOK, [Next]_vars
    PROVE  \A j \in Items : future[j] # "none" => future'[j] # "none"
<1>1. ASSUME NEW i \in Items, Put(i)
      PROVE \A j \in Items : future[j] # "none" => future'[j] # "none"
  BY <1>1, TypesAre DEF Put, RunnerTypes
<1>2. ASSUME NEW i \in Items, Shed(i)
      PROVE \A j \in Items : future[j] # "none" => future'[j] # "none"
  BY <1>2, TypesAre DEF Shed, Fail, RunnerTypes
<1>3. ASSUME NEW w \in Workers,
             \/ TestStopping(w)
             \/ TakeItems(w)
             \/ PollEmpty(w)
             \/ QueueClosed(w)
             \/ BatchDone(w)
             \/ OpenFrame(w)
             \/ RefuseFrame(w)
             \/ Plan(w)
             \/ StageRuns(w)
             \/ StageFails(w)
             \/ DeliverStage(w)
             \/ GraphDone(w)
             \/ GraphRaises(w)
             \/ Wedge(w)
             \/ SealFrame(w)
             \/ FrameDone(w)
             \/ FailItem(w)
             \/ WorkerDies(w)
             \/ StopJoins(w)
      PROVE  \A j \in Items : future[j] # "none" => future'[j] # "none"
  BY <1>3, TypesAre
  DEF TestStopping, TakeItems, PollEmpty, QueueClosed, BatchDone, OpenFrame, RefuseFrame, Plan,
      StageRuns, StageFails, DeliverStage, GraphDone, GraphRaises, Wedge, SealFrame, FrameDone,
      FailItem, WorkerDies, StopJoins, Fail, RunnerTypes
<1>4. ASSUME NEW w \in Workers, NEW i \in Items,
             \/ RejectItem(w, i)
             \/ BeginFrame(w, i)
      PROVE  \A j \in Items : future[j] # "none" => future'[j] # "none"
  BY <1>4, TypesAre DEF RejectItem, BeginFrame, Fail, RunnerTypes
<1>5. ASSUME \/ SweeperWakes
             \/ StopBegins
             \/ StopClosesQueue
             \/ StopJoinsSweeper
             \/ StopDrains
             \/ StopCopies
             \/ StopClosesSink
             \/ StopReleases
      PROVE  \A j \in Items : future[j] # "none" => future'[j] # "none"
  BY <1>5, TypesAre
  DEF SweeperWakes, StopBegins, StopClosesQueue, StopJoinsSweeper, StopDrains, StopCopies,
      StopClosesSink, StopReleases, Fail, RunnerTypes
<1>6. ASSUME NEW ks \in SUBSET pending, SweepOnce(ks)
      PROVE \A j \in Items : future[j] # "none" => future'[j] # "none"
  BY <1>6, TypesAre DEF SweepOnce, Fail, RunnerTypes
<1>7. ASSUME NEW t \in Threads, NEW r \in out[t], EmitBegins(t, r)
      PROVE \A j \in Items : future[j] # "none" => future'[j] # "none"
  BY <1>7, TypesAre DEF EmitBegins, Fail, RunnerTypes
<1>8. ASSUME NEW t \in Threads, NEW how \in {"result", "error"}, Settle(t, how)
      PROVE \A j \in Items : future[j] # "none" => future'[j] # "none"
  BY <1>8, TypesAre DEF Settle, RunnerTypes
<1>9. ASSUME NEW t \in Threads, EmitRaises(t)
      PROVE \A j \in Items : future[j] # "none" => future'[j] # "none"
  BY <1>9, TypesAre DEF EmitRaises, Fail, RunnerTypes
<1>10. ASSUME NEW k \in Keys, NEW i \in Items, StopCancels(k, i)
       PROVE \A j \in Items : future[j] # "none" => future'[j] # "none"
  BY <1>10, TypesAre DEF StopCancels, Fail, RunnerTypes
<1>11. CASE UNCHANGED vars BY <1>11 DEF vars, RunnerTypes
<1>12. \A t \in Threads : EmitWithoutEvent(t) \/ EmitPublishes(t) \/ EmitRefused(t) =>
           \E how \in {"result", "error"} : Settle(t, how)
  BY DEF EmitWithoutEvent, EmitPublishes, EmitRefused
<1>13. Workers \subseteq Threads BY DEF Workers
<1> QED
  BY PipelineAssumption, <1>1, <1>2, <1>3, <1>4, <1>5, <1>6, <1>7, <1>8, <1>9, <1>10, <1>11,
     <1>12, <1>13
  DEF Next, Work, SweeperStep, Stop, Emit

LEMMA OneHandStays ==
    ASSUME OneHand, RunnerTypes, queue' \subseteq queue, \A v \in Workers : batch'[v] \subseteq batch[v],
           \A v \in Workers : cur'[v] = cur[v] \/ cur'[v] = None,
           \A i \in Items : future[i] # "none" => future'[i] # "none"
    PROVE  OneHand'
<1> USE Constants DEF RunnerTypes
<1>1. \A i \in queue' : future'[i] # "none" /\ \A w \in Workers : i \notin batch'[w] /\ cur'[w] # i
  BY DEF OneHand
<1>2. \A v \in Workers : \A i \in batch'[v] :
         future'[i] # "none" /\ \A w \in Workers : (i \in batch'[w] => w = v) /\ cur'[w] # i
  BY DEF OneHand
<1>3. \A v, w \in Workers : cur'[v] # None =>
         future'[cur'[v]] # "none" /\ (cur'[w] = cur'[v] => w = v)
  BY DEF OneHand
<1> QED BY <1>1, <1>2, <1>3 DEF OneHand

LEMMA OneHandKeeps ==
    ASSUME PipelineTypeOK, PlacesMeanIt, OneHand, [Next]_vars
    PROVE  OneHand'
<1>1. ASSUME NEW i \in Items, Put(i) PROVE OneHand'
  <2>1. queue' = queue \cup {i} /\ future[i] = "none" /\ UNCHANGED <<batch, cur>>
    BY <1>1 DEF Put, workVars
  <2>2. \A j \in queue' : future'[j] # "none"
    BY <1>1, TypesAre DEF Put, RunnerTypes, OneHand
  <2>3. \A w \in Workers : i \notin batch[w] /\ cur[w] # i BY <2>1, Constants DEF OneHand
  <2> QED BY <2>1, <2>2, <2>3, TypesAre, FuturesStay DEF OneHand, RunnerTypes
<1>2. ASSUME NEW i \in Items, Shed(i) PROVE OneHand'
  <2>1. queue' \subseteq queue /\ \A v \in Workers : batch'[v] \subseteq batch[v]
    BY <1>2, TypesAre DEF Shed, queueVars, workVars, RunnerTypes
  <2>2. \A v \in Workers : cur'[v] = cur[v] \/ cur'[v] = None
    BY <1>2, TypesAre DEF Shed, workVars, RunnerTypes
  <2> QED BY <2>1, <2>2, TypesAre, FuturesStay, OneHandStays
<1>3. ASSUME NEW w \in Workers,
             \/ TestStopping(w)
             \/ PollEmpty(w)
             \/ QueueClosed(w)
             \/ BatchDone(w)
             \/ OpenFrame(w)
             \/ RefuseFrame(w)
             \/ Plan(w)
             \/ StageRuns(w)
             \/ StageFails(w)
             \/ DeliverStage(w)
             \/ GraphDone(w)
             \/ GraphRaises(w)
             \/ Wedge(w)
             \/ SealFrame(w)
             \/ FrameDone(w)
             \/ FailItem(w)
             \/ WorkerDies(w)
             \/ StopJoins(w)
      PROVE  OneHand'
  <2>1. queue' \subseteq queue /\ \A v \in Workers : batch'[v] \subseteq batch[v]
    BY <1>3, TypesAre
    DEF TestStopping, PollEmpty, QueueClosed, BatchDone, OpenFrame, RefuseFrame, Plan, StageRuns,
        StageFails, DeliverStage, GraphDone, GraphRaises, Wedge, SealFrame, FrameDone, FailItem,
        WorkerDies, StopJoins, queueVars, workVars, RunnerTypes
  <2>2. \A v \in Workers : cur'[v] = cur[v] \/ cur'[v] = None
    BY <1>3, TypesAre
    DEF TestStopping, PollEmpty, QueueClosed, BatchDone, OpenFrame, RefuseFrame, Plan, StageRuns,
        StageFails, DeliverStage, GraphDone, GraphRaises, Wedge, SealFrame, FrameDone, FailItem,
        WorkerDies, StopJoins, workVars, RunnerTypes
  <2> QED BY <2>1, <2>2, TypesAre, FuturesStay, OneHandStays
<1>4. ASSUME NEW w \in Workers, TakeItems(w) PROVE OneHand'
  <2>1. PICK is \in SUBSET queue : queue' = queue \ is /\ batch' = [batch EXCEPT ![w] = is]
    BY <1>4 DEF TakeItems
  <2>2. UNCHANGED <<future, cur>> BY <1>4 DEF TakeItems
  <2>3. batch'[w] = is /\ \A v \in Workers \ {w} : batch'[v] = batch[v]
    BY <2>1, TypesAre DEF RunnerTypes
  <2>4. \A j \in queue' : future[j] # "none" /\ \A v \in Workers : j \notin batch'[v] /\ cur[v] # j
    BY <2>1, <2>3 DEF OneHand
  <2>5. ASSUME NEW v \in Workers, NEW j \in batch'[v], NEW u \in Workers
        PROVE  future[j] # "none" /\ (j \in batch'[u] => u = v) /\ cur[u] # j
    <3>1. CASE v = w BY <2>1, <2>3, <2>5, <3>1 DEF OneHand
    <3>2. CASE v # w BY <2>1, <2>3, <2>5, <3>2 DEF OneHand
    <3> QED BY <3>1, <3>2
  <2>6. \A v, u \in Workers : cur[v] # None => future[cur[v]] # "none" /\ (cur[u] = cur[v] => u = v)
    BY DEF OneHand
  <2> QED BY <2>2, <2>4, <2>5, <2>6 DEF OneHand
<1>5. ASSUME NEW w \in Workers, NEW i \in Items, RejectItem(w, i) PROVE OneHand'
  <2>1. queue' \subseteq queue /\ \A v \in Workers : batch'[v] \subseteq batch[v]
    BY <1>5, TypesAre DEF RejectItem, queueVars, workVars, RunnerTypes
  <2>2. \A v \in Workers : cur'[v] = cur[v] \/ cur'[v] = None
    BY <1>5, TypesAre DEF RejectItem, workVars, RunnerTypes
  <2> QED BY <2>1, <2>2, TypesAre, FuturesStay, OneHandStays
<1>6. ASSUME NEW w \in Workers, NEW i \in Items, BeginFrame(w, i) PROVE OneHand'
  <2>1. batch' = [batch EXCEPT ![w] = @ \ {i}] /\ cur' = [cur EXCEPT ![w] = i] /\ i \in batch[w]
        /\ UNCHANGED <<future, queue>>
    BY <1>6 DEF BeginFrame, queueVars
  <2>2. i \notin batch'[w] /\ cur'[w] = i /\ (\A v \in Workers : batch'[v] \subseteq batch[v])
        /\ \A v \in Workers \ {w} : cur'[v] = cur[v]
    BY <2>1, TypesAre DEF RunnerTypes
  <2>3. future[i] # "none" /\ i \notin queue
        /\ \A v \in Workers : (i \in batch[v] => v = w) /\ cur[v] # i
    BY <2>1 DEF OneHand
  <2>4. \A j \in queue : future[j] # "none" /\ \A v \in Workers : j \notin batch'[v] /\ cur'[v] # j
    BY <2>2, <2>3 DEF OneHand
  <2>5. ASSUME NEW v \in Workers, NEW j \in batch'[v], NEW u \in Workers
        PROVE  future[j] # "none" /\ (j \in batch'[u] => u = v) /\ cur'[u] # j
    <3>1. j # i BY <2>2, <2>3, <2>5
    <3>2. j \in batch[v] BY <2>2, <2>5
    <3> QED BY <2>2, <2>5, <3>1, <3>2 DEF OneHand
  <2>6. ASSUME NEW v \in Workers, NEW u \in Workers, cur'[v] # None
        PROVE  future[cur'[v]] # "none" /\ (cur'[u] = cur'[v] => u = v)
    <3>1. CASE v = w BY <2>2, <2>3, <3>1
    <3>2. CASE v # w BY <2>2, <2>3, <2>6, <3>2 DEF OneHand
    <3> QED BY <3>1, <3>2
  <2> QED BY <2>1, <2>4, <2>5, <2>6 DEF OneHand
<1>7. ASSUME \/ SweeperWakes
             \/ StopBegins
             \/ StopClosesQueue
             \/ StopJoinsSweeper
             \/ StopDrains
             \/ StopCopies
             \/ StopClosesSink
             \/ StopReleases
      PROVE  OneHand'
  <2>1. queue' \subseteq queue /\ \A v \in Workers : batch'[v] \subseteq batch[v]
    BY <1>7, TypesAre
    DEF SweeperWakes, StopBegins, StopClosesQueue, StopJoinsSweeper, StopDrains, StopCopies,
        StopClosesSink, StopReleases, queueVars, workVars, RunnerTypes
  <2>2. \A v \in Workers : cur'[v] = cur[v] \/ cur'[v] = None
    BY <1>7, TypesAre
    DEF SweeperWakes, StopBegins, StopClosesQueue, StopJoinsSweeper, StopDrains, StopCopies,
        StopClosesSink, StopReleases, workVars, RunnerTypes
  <2> QED BY <2>1, <2>2, TypesAre, FuturesStay, OneHandStays
<1>8. ASSUME NEW ks \in SUBSET pending, SweepOnce(ks) PROVE OneHand'
  <2>1. queue' \subseteq queue /\ \A v \in Workers : batch'[v] \subseteq batch[v]
    BY <1>8, TypesAre DEF SweepOnce, queueVars, workVars, RunnerTypes
  <2>2. \A v \in Workers : cur'[v] = cur[v] \/ cur'[v] = None
    BY <1>8, TypesAre DEF SweepOnce, workVars, RunnerTypes
  <2> QED BY <2>1, <2>2, TypesAre, FuturesStay, OneHandStays
<1>9. ASSUME NEW t \in Threads, NEW r \in out[t], EmitBegins(t, r) PROVE OneHand'
  <2>1. queue' \subseteq queue /\ \A v \in Workers : batch'[v] \subseteq batch[v]
    BY <1>9, TypesAre DEF EmitBegins, queueVars, workVars, RunnerTypes
  <2>2. \A v \in Workers : cur'[v] = cur[v] \/ cur'[v] = None
    BY <1>9, TypesAre DEF EmitBegins, workVars, RunnerTypes
  <2> QED BY <2>1, <2>2, TypesAre, FuturesStay, OneHandStays
<1>10. ASSUME NEW t \in Threads, NEW how \in {"result", "error"}, Settle(t, how) PROVE OneHand'
  <2>1. queue' \subseteq queue /\ \A v \in Workers : batch'[v] \subseteq batch[v]
    BY <1>10, TypesAre DEF Settle, queueVars, workVars, RunnerTypes
  <2>2. \A v \in Workers : cur'[v] = cur[v] \/ cur'[v] = None
    BY <1>10, TypesAre DEF Settle, workVars, RunnerTypes
  <2> QED BY <2>1, <2>2, TypesAre, FuturesStay, OneHandStays
<1>11. ASSUME NEW t \in Threads, EmitRaises(t) PROVE OneHand'
  <2>1. queue' \subseteq queue /\ \A v \in Workers : batch'[v] \subseteq batch[v]
    BY <1>11, TypesAre DEF EmitRaises, queueVars, workVars, RunnerTypes
  <2>2. \A v \in Workers : cur'[v] = cur[v] \/ cur'[v] = None
    BY <1>11, TypesAre DEF EmitRaises, workVars, RunnerTypes
  <2> QED BY <2>1, <2>2, TypesAre, FuturesStay, OneHandStays
<1>12. ASSUME NEW k \in Keys, NEW i \in Items, StopCancels(k, i) PROVE OneHand'
  <2>1. queue' \subseteq queue /\ \A v \in Workers : batch'[v] \subseteq batch[v]
    BY <1>12, TypesAre DEF StopCancels, queueVars, workVars, RunnerTypes
  <2>2. \A v \in Workers : cur'[v] = cur[v] \/ cur'[v] = None
    BY <1>12, TypesAre DEF StopCancels, workVars, RunnerTypes
  <2> QED BY <2>1, <2>2, TypesAre, FuturesStay, OneHandStays
<1>13. CASE UNCHANGED vars BY <1>13 DEF vars, queueVars, workVars, OneHand
<1>14. \A t \in Threads : EmitWithoutEvent(t) \/ EmitPublishes(t) \/ EmitRefused(t) =>
           \E how \in {"result", "error"} : Settle(t, how)
  BY DEF EmitWithoutEvent, EmitPublishes, EmitRefused
<1>15. Workers \subseteq Threads BY DEF Workers
<1> QED
  BY PipelineAssumption, <1>1, <1>2, <1>3, <1>4, <1>5, <1>6, <1>7, <1>8, <1>9, <1>10, <1>11,
     <1>12, <1>13, <1>14, <1>15
  DEF Next, Work, SweeperStep, Stop, Emit

LEMMA SpoiledStay ==
    ASSUME SpoiledWasOpened, RunnerTypes, spoiled' = spoiled, queue' \subseteq queue,
           \A v \in Workers : batch'[v] \subseteq batch[v],
           \A v \in Workers : pc'[v] = "open" => pc[v] = "open" /\ cur'[v] = cur[v],
           \A i \in Items : future[i] # "none" => future'[i] # "none"
    PROVE  SpoiledWasOpened'
BY DEF SpoiledWasOpened, RunnerTypes

LEMMA SpoiledKeep ==
    ASSUME PipelineTypeOK, PlacesMeanIt, OneHand, SpoiledWasOpened, [Next]_vars
    PROVE  SpoiledWasOpened'
<1>1. ASSUME NEW i \in Items, Put(i) PROVE SpoiledWasOpened'
  <2>1. queue' = queue \cup {i} /\ future[i] = "none" /\ UNCHANGED <<batch, cur, pc, spoiled>>
    BY <1>1 DEF Put, workVars
  <2> QED BY <2>1, TypesAre, FuturesStay DEF SpoiledWasOpened, RunnerTypes
<1>2. ASSUME NEW i \in Items, Shed(i) PROVE SpoiledWasOpened'
  <2>1. spoiled' = spoiled /\ queue' \subseteq queue /\ \A v \in Workers : batch'[v] \subseteq batch[v]
    BY <1>2, TypesAre DEF Shed, queueVars, workVars, RunnerTypes
  <2>2. \A v \in Workers : pc'[v] = "open" => pc[v] = "open" /\ cur'[v] = cur[v]
    BY <1>2, Constants, TypesAre DEF Shed, At, Go, workVars, RunnerTypes
  <2> QED BY <2>1, <2>2, TypesAre, FuturesStay, SpoiledStay
<1>3. ASSUME NEW w \in Workers,
             \/ TestStopping(w)
             \/ PollEmpty(w)
             \/ QueueClosed(w)
             \/ BatchDone(w)
             \/ OpenFrame(w)
             \/ RefuseFrame(w)
             \/ Plan(w)
             \/ StageRuns(w)
             \/ DeliverStage(w)
             \/ GraphDone(w)
             \/ Wedge(w)
             \/ SealFrame(w)
             \/ FrameDone(w)
             \/ FailItem(w)
             \/ WorkerDies(w)
             \/ StopJoins(w)
      PROVE  SpoiledWasOpened'
  <2>1. spoiled' = spoiled /\ queue' \subseteq queue /\ \A v \in Workers : batch'[v] \subseteq batch[v]
    BY <1>3, TypesAre
    DEF TestStopping, PollEmpty, QueueClosed, BatchDone, OpenFrame, RefuseFrame, Plan, StageRuns,
        DeliverStage, GraphDone, Wedge, SealFrame, FrameDone, FailItem, WorkerDies, StopJoins,
        queueVars, workVars, RunnerTypes
  <2>2. \A v \in Workers : pc'[v] = "open" => pc[v] = "open" /\ cur'[v] = cur[v]
    BY <1>3, Constants, TypesAre
    DEF TestStopping, PollEmpty, QueueClosed, BatchDone, OpenFrame, RefuseFrame, Plan, StageRuns,
        DeliverStage, GraphDone, Wedge, SealFrame, FrameDone, FailItem, WorkerDies, StopJoins,
        At, Go, workVars, RunnerTypes
  <2> QED BY <2>1, <2>2, TypesAre, FuturesStay, SpoiledStay
<1>4. ASSUME NEW w \in Workers, TakeItems(w) PROVE SpoiledWasOpened'
  <2>1. PICK is \in SUBSET queue : queue' = queue \ is /\ batch' = [batch EXCEPT ![w] = is]
    BY <1>4 DEF TakeItems
  <2>2. UNCHANGED <<future, cur, spoiled>> BY <1>4 DEF TakeItems
  <2>3. batch'[w] = is /\ \A v \in Workers \ {w} : batch'[v] = batch[v]
    BY <2>1, TypesAre DEF RunnerTypes
  <2>4. \A v \in Workers : pc'[v] = "open" => pc[v] = "open" /\ cur'[v] = cur[v]
    BY <1>4, <2>2, Constants, TypesAre DEF TakeItems, At, Go, RunnerTypes
  <2> QED BY <2>1, <2>2, <2>3, <2>4 DEF SpoiledWasOpened
<1>5. ASSUME NEW w \in Workers, NEW i \in Items, RejectItem(w, i) PROVE SpoiledWasOpened'
  <2>1. spoiled' = spoiled /\ queue' \subseteq queue /\ \A v \in Workers : batch'[v] \subseteq batch[v]
    BY <1>5, TypesAre DEF RejectItem, queueVars, workVars, RunnerTypes
  <2>2. \A v \in Workers : pc'[v] = "open" => pc[v] = "open" /\ cur'[v] = cur[v]
    BY <1>5, Constants, TypesAre DEF RejectItem, At, Go, workVars, RunnerTypes
  <2> QED BY <2>1, <2>2, TypesAre, FuturesStay, SpoiledStay
<1>6. ASSUME NEW w \in Workers, NEW i \in Items, BeginFrame(w, i) PROVE SpoiledWasOpened'
  <2>1. batch' = [batch EXCEPT ![w] = @ \ {i}] /\ cur' = [cur EXCEPT ![w] = i] /\ i \in batch[w]
        /\ UNCHANGED <<future, queue, spoiled>> /\ \A v \in Workers \ {w} : pc'[v] = pc[v]
    BY <1>6, Constants, TypesAre DEF BeginFrame, queueVars, Go, RunnerTypes
  <2>2. cur'[w] = i /\ i \notin spoiled /\ (\A v \in Workers : batch'[v] \subseteq batch[v])
        /\ \A v \in Workers \ {w} : cur'[v] = cur[v]
    BY <2>1, TypesAre DEF RunnerTypes, SpoiledWasOpened
  <2> QED BY <2>1, <2>2 DEF SpoiledWasOpened
<1>7. ASSUME NEW w \in Workers, StageFails(w) PROVE SpoiledWasOpened'
  <2>1. spoiled' \subseteq spoiled \cup {cur[w]} /\ UNCHANGED <<queue, batch, cur, future>>
        /\ cur[w] \in Items /\ pc[w] # "open" /\ pc'[w] # "open" /\ \A v \in Workers \ {w} : pc'[v] = pc[v]
    BY <1>7, Constants, TypesAre
    DEF StageFails, At, Go, queueVars, RunnerTypes, PlacesMeanIt, InFrame, Owning
  <2>2. /\ future[cur[w]] # "none" /\ cur[w] \notin queue
        /\ \A v \in Workers : cur[w] \notin batch[v] /\ (cur[v] = cur[w] => v = w)
    BY <2>1, Constants DEF OneHand
  <2> QED BY <2>1, <2>2 DEF SpoiledWasOpened
<1>8. ASSUME NEW w \in Workers, GraphRaises(w) PROVE SpoiledWasOpened'
  <2>1. spoiled' \subseteq spoiled \cup {cur[w]} /\ UNCHANGED <<queue, batch, cur, future>>
        /\ cur[w] \in Items /\ pc[w] # "open" /\ pc'[w] # "open" /\ \A v \in Workers \ {w} : pc'[v] = pc[v]
    BY <1>8, Constants, TypesAre
    DEF GraphRaises, At, Go, queueVars, RunnerTypes, PlacesMeanIt, InFrame, Owning
  <2>2. /\ future[cur[w]] # "none" /\ cur[w] \notin queue
        /\ \A v \in Workers : cur[w] \notin batch[v] /\ (cur[v] = cur[w] => v = w)
    BY <2>1, Constants DEF OneHand
  <2> QED BY <2>1, <2>2 DEF SpoiledWasOpened
<1>9. ASSUME \/ SweeperWakes
             \/ StopBegins
             \/ StopClosesQueue
             \/ StopJoinsSweeper
             \/ StopDrains
             \/ StopCopies
             \/ StopClosesSink
             \/ StopReleases
      PROVE  SpoiledWasOpened'
  <2>1. spoiled' = spoiled /\ queue' \subseteq queue /\ \A v \in Workers : batch'[v] \subseteq batch[v]
    BY <1>9, TypesAre
    DEF SweeperWakes, StopBegins, StopClosesQueue, StopJoinsSweeper, StopDrains, StopCopies,
        StopClosesSink, StopReleases, queueVars, workVars, RunnerTypes
  <2>2. \A v \in Workers : pc'[v] = "open" => pc[v] = "open" /\ cur'[v] = cur[v]
    BY <1>9, Constants, TypesAre
    DEF SweeperWakes, StopBegins, StopClosesQueue, StopJoinsSweeper, StopDrains, StopCopies,
        StopClosesSink, StopReleases, At, Go, workVars, RunnerTypes
  <2> QED BY <2>1, <2>2, TypesAre, FuturesStay, SpoiledStay
<1>10. ASSUME NEW ks \in SUBSET pending, SweepOnce(ks) PROVE SpoiledWasOpened'
  <2>1. spoiled' = spoiled /\ queue' \subseteq queue /\ \A v \in Workers : batch'[v] \subseteq batch[v]
    BY <1>10, TypesAre DEF SweepOnce, queueVars, workVars, RunnerTypes
  <2>2. \A v \in Workers : pc'[v] = "open" => pc[v] = "open" /\ cur'[v] = cur[v]
    BY <1>10, Constants, TypesAre DEF SweepOnce, At, Go, workVars, RunnerTypes
  <2> QED BY <2>1, <2>2, TypesAre, FuturesStay, SpoiledStay
<1>11. ASSUME NEW t \in Threads, NEW r \in out[t], EmitBegins(t, r) PROVE SpoiledWasOpened'
  <2>1. spoiled' = spoiled /\ queue' \subseteq queue /\ \A v \in Workers : batch'[v] \subseteq batch[v]
    BY <1>11, TypesAre DEF EmitBegins, queueVars, workVars, RunnerTypes
  <2>2. \A v \in Workers : pc'[v] = "open" => pc[v] = "open" /\ cur'[v] = cur[v]
    BY <1>11, Constants, TypesAre DEF EmitBegins, At, Go, workVars, RunnerTypes
  <2> QED BY <2>1, <2>2, TypesAre, FuturesStay, SpoiledStay
<1>12. ASSUME NEW t \in Threads, NEW how \in {"result", "error"}, Settle(t, how)
       PROVE SpoiledWasOpened'
  <2>1. spoiled' = spoiled /\ queue' \subseteq queue /\ \A v \in Workers : batch'[v] \subseteq batch[v]
    BY <1>12, TypesAre DEF Settle, queueVars, workVars, RunnerTypes
  <2>2. \A v \in Workers : pc'[v] = "open" => pc[v] = "open" /\ cur'[v] = cur[v]
    BY <1>12, Constants, TypesAre DEF Settle, At, Go, workVars, RunnerTypes
  <2> QED BY <2>1, <2>2, TypesAre, FuturesStay, SpoiledStay
<1>13. ASSUME NEW t \in Threads, EmitRaises(t) PROVE SpoiledWasOpened'
  <2>1. spoiled' = spoiled /\ queue' \subseteq queue /\ \A v \in Workers : batch'[v] \subseteq batch[v]
    BY <1>13, TypesAre DEF EmitRaises, queueVars, workVars, RunnerTypes
  <2>2. \A v \in Workers : pc'[v] = "open" => pc[v] = "open" /\ cur'[v] = cur[v]
    BY <1>13, Constants, TypesAre DEF EmitRaises, At, Go, workVars, RunnerTypes
  <2> QED BY <2>1, <2>2, TypesAre, FuturesStay, SpoiledStay
<1>14. ASSUME NEW k \in Keys, NEW i \in Items, StopCancels(k, i) PROVE SpoiledWasOpened'
  <2>1. spoiled' = spoiled /\ queue' \subseteq queue /\ \A v \in Workers : batch'[v] \subseteq batch[v]
    BY <1>14, TypesAre DEF StopCancels, queueVars, workVars, RunnerTypes
  <2>2. \A v \in Workers : pc'[v] = "open" => pc[v] = "open" /\ cur'[v] = cur[v]
    BY <1>14, Constants, TypesAre DEF StopCancels, At, Go, workVars, RunnerTypes
  <2> QED BY <2>1, <2>2, TypesAre, FuturesStay, SpoiledStay
<1>15. CASE UNCHANGED vars BY <1>15 DEF vars, queueVars, workVars, SpoiledWasOpened
<1>16. \A t \in Threads : EmitWithoutEvent(t) \/ EmitPublishes(t) \/ EmitRefused(t) =>
           \E how \in {"result", "error"} : Settle(t, how)
  BY DEF EmitWithoutEvent, EmitPublishes, EmitRefused
<1>17. Workers \subseteq Threads BY DEF Workers
<1> QED
  BY PipelineAssumption, <1>1, <1>2, <1>3, <1>4, <1>5, <1>6, <1>7, <1>8, <1>9, <1>10, <1>11,
     <1>12, <1>13, <1>14, <1>15, <1>16, <1>17
  DEF Next, Work, SweeperStep, Stop, Emit

\* Two workers carry frames of different tags, if one's tag is its own.
LEMMA Apart ==
    ASSUME PipelineTypeOK, OneHand, PlacesMeanIt, NEW v \in Workers, NEW w \in Workers, v # w,
           pc[v] \in InFrame, pc[w] \in InFrame, OwnTag(cur[v])
    PROVE  Key(v) # Key(w)
<1>1. cur[v] \in Items /\ cur[w] \in Items /\ cur[v] # None
  BY Constants, TypesAre DEF RunnerTypes, PlacesMeanIt
<1>2. cur[w] # cur[v] BY <1>1 DEF OneHand
<1> QED BY <1>1, <1>2 DEF OwnTag, Key

\* A worker that waits or has let go of its frame, whose record is not touched.
LEMMA FollowStays ==
    ASSUME NEW v \in Workers, Follows(v),
           pc'[v] \in Owning => pc'[v] = pc[v] /\ cur'[v] = cur[v] /\ step'[v] = step[v],
           pc'[v] \in Owning /\ OwnTag(cur[v]) /\ Key(v) \in pending' =>
              Key(v) \in pending /\ frame'[Key(v)] = frame[Key(v)],
           pc'[v] \in Owning /\ OwnTag(cur[v]) /\ cur[v] \in spoiled' => cur[v] \in spoiled
    PROVE  Follows(v)'
<1> SUFFICES ASSUME pc'[v] \in Owning, OwnTag(cur'[v]), Key(v)' \in pending'
             PROVE  /\ 1 \in frame'[Key(v)'].expected
                    /\ frame'[Key(v)'].delivered \subseteq 1 .. step'[v] - 1
                    /\ pc'[v] \in {"run", "deliver"} => step'[v] \in frame'[Key(v)'].expected
                    /\ cur'[v] \in spoiled' =>
                          \E s \in frame'[Key(v)'].expected \ frame'[Key(v)'].delivered :
                             s < step'[v] \/ pc'[v] = "seal"
  BY DEF Follows, OwnTag
<1>1. pc'[v] = pc[v] /\ cur'[v] = cur[v] /\ step'[v] = step[v] /\ Key(v)' = Key(v) BY DEF Key
<1>2. Key(v) \in pending /\ frame'[Key(v)] = frame[Key(v)] BY <1>1
<1> QED BY <1>1, <1>2 DEF Follows

LEMMA RecordFollowsKeeps ==
    ASSUME PipelineTypeOK, CollectorInv, PlacesMeanIt, OneHand, SpoiledWasOpened, RecordFollows,
           [Next]_vars
    PROVE  RecordFollows'
<1>1. ASSUME NEW i \in Items,
             \/ Put(i)
             \/ Shed(i)
      PROVE  RecordFollows'
  <2>1. UNCHANGED <<pending, frame, spoiled>>
    BY <1>1 DEF Put, Shed, collectorVars, Publish, workVars
  <2>2. \A v \in Workers :
           pc'[v] \in Owning => pc'[v] = pc[v] /\ cur'[v] = cur[v] /\ step'[v] = step[v]
    BY <1>1, Constants, TypesAre DEF Put, Shed, At, Go, RunnerTypes, workVars, Owning
  <2> QED BY <2>1, <2>2, FollowStays DEF RecordFollows
<1>2. ASSUME NEW w \in Workers,
             \/ TestStopping(w)
             \/ TakeItems(w)
             \/ PollEmpty(w)
             \/ QueueClosed(w)
             \/ BatchDone(w)
             \/ RefuseFrame(w)
             \/ FrameDone(w)
             \/ FailItem(w)
             \/ WorkerDies(w)
             \/ StopJoins(w)
      PROVE  RecordFollows'
  <2>1. UNCHANGED <<pending, frame, spoiled>>
    BY <1>2
    DEF TestStopping, TakeItems, PollEmpty, QueueClosed, BatchDone, RefuseFrame, FrameDone,
        FailItem, WorkerDies, StopJoins, collectorVars, Publish, workVars
  <2>2. \A v \in Workers :
           pc'[v] \in Owning => pc'[v] = pc[v] /\ cur'[v] = cur[v] /\ step'[v] = step[v]
    BY <1>2, Constants, TypesAre
    DEF TestStopping, TakeItems, PollEmpty, QueueClosed, BatchDone, RefuseFrame, FrameDone,
        FailItem, WorkerDies, StopJoins, At, Go, RunnerTypes, workVars, Owning
  <2> QED BY <2>1, <2>2, FollowStays DEF RecordFollows
<1>3. ASSUME NEW w \in Workers, NEW i \in Items,
             \/ RejectItem(w, i)
             \/ BeginFrame(w, i)
      PROVE  RecordFollows'
  <2>1. UNCHANGED <<pending, frame, spoiled>>
    BY <1>3 DEF RejectItem, BeginFrame, collectorVars, Publish, workVars
  <2>2. \A v \in Workers :
           pc'[v] \in Owning => pc'[v] = pc[v] /\ cur'[v] = cur[v] /\ step'[v] = step[v]
    BY <1>3, Constants, TypesAre
    DEF RejectItem, BeginFrame, At, Go, RunnerTypes, workVars, Owning
  <2> QED BY <2>1, <2>2, FollowStays DEF RecordFollows
<1>4. ASSUME NEW w \in Workers, OpenFrame(w) PROVE RecordFollows'
  <2>1. Open(w, Key(w), {1}) /\ cur' = cur /\ spoiled' = spoiled /\ step' = [step EXCEPT ![w] = 1]
        /\ pc' = [pc EXCEPT ![w] = "plan"] /\ pc[w] = "open"
    BY <1>4 DEF OpenFrame, At, Go
  <2>2. pending' = (pending \ Gone) \cup {Key(w)} /\ Key(w) \in Keys
        /\ frame' = [Cleared(Gone) EXCEPT
                        ![Key(w)] = [serial |-> opened + 1, expected |-> {1}, delivered |-> {}]]
    BY <2>1, Constants, TypesAre DEF Open, PlacesMeanIt, InFrame, RunnerTypes, Key
  <2>3. /\ frame'[Key(w)].expected = {1} /\ frame'[Key(w)].delivered = {}
        /\ \A k \in pending' \ {Key(w)} : k \in pending /\ frame'[k] = frame[k]
    BY <2>2, ClearedTyped DEF CollectorTypeOK, CollectorInv
  <2>4. cur[w] \notin spoiled BY <2>1 DEF SpoiledWasOpened
  <2>5. pc'[w] = "plan" /\ Key(w)' = Key(w) BY <2>1, Constants, TypesAre DEF RunnerTypes, Key
  <2>6. Follows(w)' BY <2>1, <2>3, <2>4, <2>5 DEF Follows
  <2>7. ASSUME NEW v \in Workers, v # w PROVE Follows(v)'
    <3>1. pc'[v] = pc[v] /\ cur'[v] = cur[v] /\ step'[v] = step[v]
      BY <2>1, <2>7, Constants, TypesAre DEF RunnerTypes
    <3>2. pc[v] \in Owning /\ OwnTag(cur[v]) => Key(v) # Key(w)
      BY <2>1, <2>7, Apart DEF InFrame
    <3> QED BY <2>1, <2>3, <3>1, <3>2, FollowStays DEF RecordFollows
  <2> QED BY <2>6, <2>7 DEF RecordFollows
<1>5. ASSUME NEW w \in Workers, Plan(w) PROVE RecordFollows'
  <2>1. pc[w] = "plan" /\ step[w] <= Last /\ Expect(Key(w), Runnable(w)) /\ cur' = cur
        /\ spoiled' = spoiled
    BY <1>5 DEF Plan, At
  <2>2. Key(w) \in Keys
    BY <2>1, TypesAre, Constants DEF PlacesMeanIt, InFrame, Owning, RunnerTypes, Key
  <2>3. /\ pending' = pending
        /\ \A k \in Keys \ {Key(w)} : frame'[k] = frame[k]
        /\ Key(w) \in pending =>
              /\ frame'[Key(w)].expected = frame[Key(w)].expected \cup Runnable(w)
              /\ frame'[Key(w)].delivered = frame[Key(w)].delivered
    BY <2>1, <2>2 DEF Expect, CollectorTypeOK, CollectorInv
  <2>4. \A v \in Workers : v # w => pc'[v] = pc[v] /\ step'[v] = step[v]
    BY <1>5, Constants, TypesAre DEF Plan, Go, RunnerTypes
  <2>5. step[w] \in Nat BY TypesAre, Constants DEF RunnerTypes
  <2>6. \/ pc'[w] = "run" /\ step'[w] = step[w] /\ step[w] \in Runnable(w)
        \/ pc'[w] = "plan" /\ step'[w] = step[w] + 1
    BY <1>5, Constants, TypesAre DEF Plan, Go, At, RunnerTypes
  <2>7. Follows(w)'
    <3> SUFFICES ASSUME OwnTag(cur[w]), Key(w) \in pending
                 PROVE  /\ 1 \in frame'[Key(w)].expected
                        /\ frame'[Key(w)].delivered \subseteq 1 .. step'[w] - 1
                        /\ pc'[w] \in {"run", "deliver"} => step'[w] \in frame'[Key(w)].expected
                        /\ cur[w] \in spoiled =>
                              \E s \in frame'[Key(w)].expected \ frame'[Key(w)].delivered :
                                 s < step'[w] \/ pc'[w] = "seal"
      BY <2>1, <2>3 DEF Follows, Key, OwnTag
    <3>1. /\ 1 \in frame[Key(w)].expected
          /\ frame[Key(w)].delivered \subseteq 1 .. step[w] - 1
          /\ cur[w] \in spoiled =>
                \E s \in frame[Key(w)].expected \ frame[Key(w)].delivered : s < step[w]
      BY <2>1 DEF RecordFollows, Follows, Owning
    <3>2. frame[Key(w)].expected \subseteq Nat
      BY Constants DEF CollectorTypeOK, CollectorInv
    <3>3. 1 .. step[w] - 1 \subseteq 1 .. step'[w] - 1 BY <2>5, <2>6
    <3>4. \A s \in Nat : s < step[w] => s < step'[w] BY <2>5, <2>6
    <3>5. cur[w] \in spoiled =>
             \E s \in frame'[Key(w)].expected \ frame'[Key(w)].delivered : s < step'[w]
      BY <2>3, <3>1, <3>2, <3>4
    <3> QED BY <2>3, <2>6, <3>1, <3>3, <3>5
  <2>8. ASSUME NEW v \in Workers, v # w PROVE Follows(v)'
    <3>1. pc[v] \in Owning /\ OwnTag(cur[v]) => Key(v) # Key(w)
      BY <2>1, <2>8, Apart DEF InFrame, Owning
    <3>2. pc[v] \in Owning => Key(v) \in Keys
      BY TypesAre, Constants DEF PlacesMeanIt, InFrame, RunnerTypes, Key
    <3> QED BY <2>1, <2>3, <2>4, <2>8, <3>1, <3>2, FollowStays DEF RecordFollows
  <2> QED BY <2>7, <2>8 DEF RecordFollows
<1>6. ASSUME NEW w \in Workers, StageRuns(w) PROVE RecordFollows'
  <2>1. pc[w] = "run" /\ UNCHANGED <<pending, frame, cur, spoiled, step>>
        /\ pc' = [pc EXCEPT ![w] = "deliver"]
    BY <1>6 DEF StageRuns, At, Go, collectorVars, workVars
  <2>2. pc'[w] = "deliver" /\ \A v \in Workers : v # w => pc'[v] = pc[v]
    BY <2>1, Constants, TypesAre DEF RunnerTypes
  <2>3. Follows(w)' BY <2>1, <2>2 DEF RecordFollows, Follows, Key, OwnTag, Owning
  <2>4. ASSUME NEW v \in Workers, v # w PROVE Follows(v)'
    BY <2>1, <2>2, <2>4, FollowStays DEF RecordFollows
  <2> QED BY <2>3, <2>4 DEF RecordFollows
<1>7. ASSUME NEW w \in Workers, StageFails(w) PROVE RecordFollows'
  <2>1. pc[w] = "run" /\ UNCHANGED <<pending, frame, cur>> /\ spoiled' = spoiled \cup {cur[w]}
        /\ step' = [step EXCEPT ![w] = @ + 1] /\ pc' = [pc EXCEPT ![w] = "plan"]
    BY <1>7 DEF StageFails, At, Go, collectorVars
  <2>2. \A v \in Workers : v # w => pc'[v] = pc[v] /\ step'[v] = step[v]
    BY <2>1, Constants, TypesAre DEF RunnerTypes
  <2>3. step[w] \in Nat /\ step'[w] = step[w] + 1 /\ pc'[w] = "plan"
    BY <2>1, TypesAre, Constants DEF RunnerTypes
  <2>4. Follows(w)'
    <3> SUFFICES ASSUME OwnTag(cur[w]), Key(w) \in pending
                 PROVE  /\ 1 \in frame[Key(w)].expected
                        /\ frame[Key(w)].delivered \subseteq 1 .. step'[w] - 1
                        /\ \E s \in frame[Key(w)].expected \ frame[Key(w)].delivered :
                              s < step'[w]
      BY <2>1, <2>3 DEF Follows, Key, OwnTag
    <3>1. /\ 1 \in frame[Key(w)].expected /\ step[w] \in frame[Key(w)].expected
          /\ frame[Key(w)].delivered \subseteq 1 .. step[w] - 1
      BY <2>1 DEF RecordFollows, Follows, Owning
    <3>2. step[w] \notin 1 .. step[w] - 1 /\ step[w] < step'[w]
          /\ 1 .. step[w] - 1 \subseteq 1 .. step'[w] - 1
      BY <2>3
    <3> QED BY <3>1, <3>2
  <2>5. ASSUME NEW v \in Workers, v # w PROVE Follows(v)'
    <3>1. pc[v] \in Owning /\ OwnTag(cur[v]) => cur[v] # cur[w]
      BY <2>1, <2>5, Apart DEF InFrame, Owning, Key
    <3> QED BY <2>1, <2>2, <2>5, <3>1, FollowStays DEF RecordFollows
  <2> QED BY <2>4, <2>5 DEF RecordFollows
<1>8. ASSUME NEW w \in Workers, DeliverStage(w) PROVE RecordFollows'
  <2>1. pc[w] = "deliver" /\ Deliver(Key(w), step[w]) /\ cur' = cur /\ spoiled' = spoiled
        /\ step' = [step EXCEPT ![w] = @ + 1] /\ pc' = [pc EXCEPT ![w] = "plan"]
    BY <1>8 DEF DeliverStage, At, Go
  <2>2. Key(w) \in Keys
    BY <2>1, TypesAre, Constants DEF PlacesMeanIt, InFrame, Owning, RunnerTypes, Key
  <2>3. /\ pending' = pending
        /\ \A k \in Keys \ {Key(w)} : frame'[k] = frame[k]
        /\ Key(w) \in pending =>
              /\ frame'[Key(w)].expected = frame[Key(w)].expected \cup {step[w]}
              /\ frame'[Key(w)].delivered = frame[Key(w)].delivered \cup {step[w]}
    <3>1. frame \in [Keys -> Frames] BY DEF CollectorTypeOK, CollectorInv, Frames
    <3> QED BY <2>1, <2>2, <3>1 DEF Deliver, Frames
  <2>4. \A v \in Workers : v # w => pc'[v] = pc[v] /\ step'[v] = step[v]
    BY <2>1, Constants, TypesAre DEF RunnerTypes
  <2>5. step[w] \in Nat \ {0} /\ step'[w] = step[w] + 1 /\ pc'[w] = "plan"
    BY <2>1, TypesAre, Constants DEF RunnerTypes
  <2>6. Follows(w)'
    <3> SUFFICES ASSUME OwnTag(cur[w]), Key(w) \in pending
                 PROVE  /\ 1 \in frame'[Key(w)].expected
                        /\ frame'[Key(w)].delivered \subseteq 1 .. step'[w] - 1
                        /\ cur[w] \in spoiled =>
                              \E s \in frame'[Key(w)].expected \ frame'[Key(w)].delivered :
                                 s < step'[w]
      BY <2>1, <2>3, <2>5 DEF Follows, Key, OwnTag
    <3>1. /\ 1 \in frame[Key(w)].expected
          /\ frame[Key(w)].delivered \subseteq 1 .. step[w] - 1
          /\ cur[w] \in spoiled =>
                \E s \in frame[Key(w)].expected \ frame[Key(w)].delivered : s < step[w]
      BY <2>1 DEF RecordFollows, Follows, Owning
    <3>2. frame[Key(w)].expected \subseteq Nat
      BY Constants DEF CollectorTypeOK, CollectorInv
    <3>3. (1 .. step[w] - 1) \cup {step[w]} \subseteq 1 .. step'[w] - 1 BY <2>5
    <3>4. \A s \in Nat : s < step[w] => s # step[w] /\ s < step'[w] BY <2>5
    <3>5. cur[w] \in spoiled =>
             \E s \in frame'[Key(w)].expected \ frame'[Key(w)].delivered : s < step'[w]
      BY <2>3, <3>1, <3>2, <3>4
    <3> QED BY <2>3, <3>1, <3>3, <3>5
  <2>7. ASSUME NEW v \in Workers, v # w PROVE Follows(v)'
    <3>1. pc[v] \in Owning /\ OwnTag(cur[v]) => Key(v) # Key(w)
      BY <2>1, <2>7, Apart DEF InFrame, Owning
    <3>2. pc[v] \in Owning => Key(v) \in Keys
      BY TypesAre, Constants DEF PlacesMeanIt, InFrame, RunnerTypes, Key
    <3> QED BY <2>1, <2>3, <2>4, <2>7, <3>1, <3>2, FollowStays DEF RecordFollows
  <2> QED BY <2>6, <2>7 DEF RecordFollows
<1>9. ASSUME NEW w \in Workers, GraphDone(w) PROVE RecordFollows'
  <2>1. pc[w] = "plan" /\ UNCHANGED <<pending, frame, cur, spoiled, step>>
        /\ pc' = [pc EXCEPT ![w] = "seal"]
    BY <1>9 DEF GraphDone, At, Go, collectorVars, workVars
  <2>2. pc'[w] = "seal" /\ \A v \in Workers : v # w => pc'[v] = pc[v]
    BY <2>1, Constants, TypesAre DEF RunnerTypes
  <2>3. Follows(w)' BY <2>1, <2>2 DEF RecordFollows, Follows, Key, OwnTag, Owning
  <2>4. ASSUME NEW v \in Workers, v # w PROVE Follows(v)'
    BY <2>1, <2>2, <2>4, FollowStays DEF RecordFollows
  <2> QED BY <2>3, <2>4 DEF RecordFollows
<1>10. ASSUME NEW w \in Workers, GraphRaises(w) PROVE RecordFollows'
  <2>1. pc[w] = "plan" /\ UNCHANGED <<pending, frame, cur, step>>
        /\ spoiled' = (IF step[w] = 1 THEN spoiled \cup {cur[w]} ELSE spoiled)
        /\ pc' = [pc EXCEPT ![w] = "seal"]
    BY <1>10 DEF GraphRaises, At, Go, collectorVars
  <2>2. pc'[w] = "seal" /\ \A v \in Workers : v # w => pc'[v] = pc[v]
    BY <2>1, Constants, TypesAre DEF RunnerTypes
  <2>3. Follows(w)'
    <3> SUFFICES ASSUME OwnTag(cur[w]), Key(w) \in pending
                 PROVE  /\ 1 \in frame[Key(w)].expected
                        /\ frame[Key(w)].delivered \subseteq 1 .. step[w] - 1
                        /\ cur[w] \in spoiled' =>
                              frame[Key(w)].expected \ frame[Key(w)].delivered # {}
      BY <2>1, <2>2 DEF Follows, Key, OwnTag
    <3>1. /\ 1 \in frame[Key(w)].expected
          /\ frame[Key(w)].delivered \subseteq 1 .. step[w] - 1
          /\ cur[w] \in spoiled => frame[Key(w)].expected \ frame[Key(w)].delivered # {}
      BY <2>1 DEF RecordFollows, Follows, Owning
    <3>2. CASE step[w] = 1
      <4>1. 1 \notin frame[Key(w)].delivered BY <3>1, <3>2
      <4> QED BY <3>1, <4>1
    <3>3. CASE step[w] # 1 BY <2>1, <3>1, <3>3
    <3> QED BY <3>2, <3>3
  <2>4. ASSUME NEW v \in Workers, v # w PROVE Follows(v)'
    <3>1. pc[v] \in Owning /\ OwnTag(cur[v]) => cur[v] # cur[w]
      BY <2>1, <2>4, Apart DEF InFrame, Owning, Key
    <3> QED BY <2>1, <2>2, <2>4, <3>1, FollowStays DEF RecordFollows
  <2> QED BY <2>3, <2>4 DEF RecordFollows
<1>11. ASSUME NEW w \in Workers, Wedge(w) PROVE RecordFollows'
  <2>1. pc[w] = "run" /\ UNCHANGED <<pending, frame, cur, spoiled, step>>
        /\ pc' = [pc EXCEPT ![w] = "wedged"]
    BY <1>11 DEF Wedge, At, Go, collectorVars, workVars
  <2>2. pc'[w] = "wedged" /\ \A v \in Workers : v # w => pc'[v] = pc[v]
    BY <2>1, Constants, TypesAre DEF RunnerTypes
  <2>3. Follows(w)' BY <2>1, <2>2 DEF RecordFollows, Follows, Key, OwnTag, Owning
  <2>4. ASSUME NEW v \in Workers, v # w PROVE Follows(v)'
    BY <2>1, <2>2, <2>4, FollowStays DEF RecordFollows
  <2> QED BY <2>3, <2>4 DEF RecordFollows
<1>12. ASSUME NEW w \in Workers, SealFrame(w) PROVE RecordFollows'
  <2>1. UNCHANGED <<cur, step, spoiled>> /\ pc' = [pc EXCEPT ![w] = "sealed"]
    BY <1>12 DEF SealFrame, Go, workVars
  <2>2. \A k \in pending' : k \in pending /\ frame'[k] = frame[k]
    BY <1>12, ClearedTyped
    DEF SealFrame, Seal, Remove, CollectorTypeOK, CollectorInv, collectorVars
  <2>3. \A v \in Workers : pc'[v] \in Owning => pc'[v] = pc[v]
    BY <2>1, Constants, TypesAre DEF RunnerTypes, Owning
  <2>4. ASSUME NEW v \in Workers PROVE Follows(v)'
    BY <2>1, <2>2, <2>3, FollowStays DEF RecordFollows
  <2> QED BY <2>4 DEF RecordFollows
<1>13. ASSUME \/ SweeperWakes
             \/ StopBegins
             \/ StopClosesQueue
             \/ StopJoinsSweeper
             \/ StopCopies
             \/ StopClosesSink
             \/ StopReleases
      PROVE  RecordFollows'
  <2>1. UNCHANGED <<pending, frame, spoiled>>
    BY <1>13
    DEF SweeperWakes, StopBegins, StopClosesQueue, StopJoinsSweeper, StopCopies, StopClosesSink,
        StopReleases, collectorVars, Publish, workVars
  <2>2. \A v \in Workers :
           pc'[v] \in Owning => pc'[v] = pc[v] /\ cur'[v] = cur[v] /\ step'[v] = step[v]
    BY <1>13, Constants, TypesAre
    DEF SweeperWakes, StopBegins, StopClosesQueue, StopJoinsSweeper, StopCopies, StopClosesSink,
        StopReleases, At, Go, RunnerTypes, workVars, Owning
  <2> QED BY <2>1, <2>2, FollowStays DEF RecordFollows
<1>14. ASSUME NEW ks \in SUBSET pending, SweepOnce(ks) PROVE RecordFollows'
  <2>1. UNCHANGED <<cur, step, spoiled>> /\ pending' = pending \ ks /\ frame' = Cleared(ks)
        /\ \A v \in Workers : pc'[v] = pc[v]
    BY <1>14, Constants, TypesAre DEF SweepOnce, Sweep, Go, workVars, RunnerTypes, Remove
  <2>2. \A k \in pending' : k \in pending /\ frame'[k] = frame[k]
    BY <2>1, ClearedTyped DEF CollectorTypeOK, CollectorInv
  <2>3. ASSUME NEW v \in Workers PROVE Follows(v)'
    BY <2>1, <2>2, FollowStays DEF RecordFollows
  <2> QED BY <2>3 DEF RecordFollows
<1>15. ASSUME NEW t \in Threads, NEW r \in out[t], EmitBegins(t, r) PROVE RecordFollows'
  <2>1. UNCHANGED <<pending, frame, spoiled>>
    BY <1>15 DEF EmitBegins, collectorVars, Publish, workVars
  <2>2. \A v \in Workers :
           pc'[v] \in Owning => pc'[v] = pc[v] /\ cur'[v] = cur[v] /\ step'[v] = step[v]
    BY <1>15, Constants, TypesAre DEF EmitBegins, At, Go, RunnerTypes, workVars, Owning
  <2> QED BY <2>1, <2>2, FollowStays DEF RecordFollows
<1>16. ASSUME NEW t \in Threads, NEW how \in {"result", "error"}, Settle(t, how)
       PROVE RecordFollows'
  <2>1. UNCHANGED <<pending, frame, spoiled>>
    BY <1>16 DEF Settle, collectorVars, Publish, workVars
  <2>2. \A v \in Workers :
           pc'[v] \in Owning => pc'[v] = pc[v] /\ cur'[v] = cur[v] /\ step'[v] = step[v]
    BY <1>16, Constants, TypesAre DEF Settle, At, Go, RunnerTypes, workVars, Owning
  <2> QED BY <2>1, <2>2, FollowStays DEF RecordFollows
<1>17. ASSUME NEW t \in Threads, EmitRaises(t) PROVE RecordFollows'
  <2>1. UNCHANGED <<pending, frame, cur, step, spoiled>> /\ \A v \in Workers : pc'[v] = pc[v]
    BY <1>17, Constants, TypesAre DEF EmitRaises, RunnerTypes, workVars
  <2> QED BY <2>1, FollowStays DEF RecordFollows
<1>18. ASSUME StopDrains PROVE RecordFollows'
  <2>1. UNCHANGED <<cur, step, spoiled>> /\ pending' = pending \ pending /\ frame' =
                    Cleared(pending)
        /\ \A v \in Workers : pc'[v] = pc[v]
    BY <1>18, Constants, TypesAre DEF StopDrains, Drain, Go, workVars, RunnerTypes, Remove
  <2>2. \A k \in pending' : k \in pending /\ frame'[k] = frame[k]
    BY <2>1, ClearedTyped DEF CollectorTypeOK, CollectorInv
  <2>3. ASSUME NEW v \in Workers PROVE Follows(v)'
    BY <2>1, <2>2, FollowStays DEF RecordFollows
  <2> QED BY <2>3 DEF RecordFollows
<1>19. ASSUME NEW k \in Keys, NEW i \in Items, StopCancels(k, i) PROVE RecordFollows'
  <2>1. UNCHANGED <<pending, frame, spoiled>>
    BY <1>19 DEF StopCancels, collectorVars, Publish, workVars
  <2>2. \A v \in Workers :
           pc'[v] \in Owning => pc'[v] = pc[v] /\ cur'[v] = cur[v] /\ step'[v] = step[v]
    BY <1>19, Constants, TypesAre DEF StopCancels, At, Go, RunnerTypes, workVars, Owning
  <2> QED BY <2>1, <2>2, FollowStays DEF RecordFollows
<1>20. CASE UNCHANGED vars
  <2>1. UNCHANGED <<pending, frame, cur, step, pc, spoiled>>
    BY <1>20 DEF vars, collectorVars, workVars
  <2> QED BY <2>1, FollowStays DEF RecordFollows
<1>21. \A t \in Threads : EmitWithoutEvent(t) \/ EmitPublishes(t) \/ EmitRefused(t) =>
           \E how \in {"result", "error"} : Settle(t, how)
  BY DEF EmitWithoutEvent, EmitPublishes, EmitRefused
<1>22. Workers \subseteq Threads BY DEF Workers
<1> QED
  BY PipelineAssumption, <1>1, <1>2, <1>3, <1>4, <1>5, <1>6, <1>7, <1>8, <1>9, <1>10, <1>11,
     <1>12, <1>13, <1>14, <1>15, <1>16, <1>17, <1>18, <1>19, <1>20, <1>21, <1>22
  DEF Next, Work, SweeperStep, Stop, Emit

\* Nothing new is complete, no frame is spoiled, and who has results stays.
LEMMA CompleteStay ==
    ASSUME CompleteIsSealed, CompleteMeansWhole,
           \A t \in Threads : \A r \in out'[t] : r.reason = "complete" => r \in out[t],
           \A w \in Workers : out[w] # {} => pc'[w] = pc[w] /\ cur'[w] = cur[w],
           spoiled' = spoiled
    PROVE  CompleteIsSealed' /\ CompleteMeansWhole'
<1>1. CompleteIsSealed'
  <2> SUFFICES ASSUME NEW t \in Threads, NEW r \in out'[t], r.reason = "complete"
               PROVE  t \in Workers /\ pc'[t] = "sealed" /\ KeyOf[cur'[t]] = r.key
    BY DEF CompleteIsSealed
  <2>1. r \in out[t] OBVIOUS
  <2>2. t \in Workers /\ pc[t] = "sealed" /\ KeyOf[cur[t]] = r.key BY <2>1 DEF CompleteIsSealed
  <2> QED BY <2>1, <2>2
<1>2. CompleteMeansWhole' BY DEF CompleteMeansWhole, OwnTag
<1> QED BY <1>1, <1>2

LEMMA CompleteKeeps ==
    ASSUME PipelineTypeOK, CollectorInv, PlacesMeanIt, PublishFirst, OneHand, RecordFollows,
           CompleteIsSealed, CompleteMeansWhole, [Next]_vars
    PROVE  CompleteIsSealed' /\ CompleteMeansWhole'
<1>1. ASSUME NEW i \in Items,
             \/ Put(i)
             \/ Shed(i)
      PROVE  CompleteIsSealed' /\ CompleteMeansWhole'
  <2>1. out' = out /\ spoiled' = spoiled
    BY <1>1 DEF Put, Shed, collectorVars, Expect, Deliver, workVars
  <2>2. \A v \in Workers : out[v] # {} => pc'[v] = pc[v] /\ cur'[v] = cur[v]
    BY <1>1, Constants, TypesAre DEF Put, Shed, At, Go, Quiet, RunnerTypes, workVars
  <2> QED BY <2>1, <2>2, CompleteStay
<1>2. ASSUME NEW w \in Workers,
             \/ TestStopping(w)
             \/ TakeItems(w)
             \/ PollEmpty(w)
             \/ QueueClosed(w)
             \/ BatchDone(w)
             \/ RefuseFrame(w)
             \/ Plan(w)
             \/ StageRuns(w)
             \/ DeliverStage(w)
             \/ GraphDone(w)
             \/ Wedge(w)
             \/ FrameDone(w)
             \/ FailItem(w)
             \/ WorkerDies(w)
             \/ StopJoins(w)
      PROVE  CompleteIsSealed' /\ CompleteMeansWhole'
  <2>1. out' = out /\ spoiled' = spoiled
    BY <1>2
    DEF TestStopping, TakeItems, PollEmpty, QueueClosed, BatchDone, RefuseFrame, Plan, StageRuns,
        DeliverStage, GraphDone, Wedge, FrameDone, FailItem, WorkerDies, StopJoins,
        collectorVars, Expect, Deliver, workVars
  <2>2. \A v \in Workers : out[v] # {} => pc'[v] = pc[v] /\ cur'[v] = cur[v]
    BY <1>2, Constants, TypesAre
    DEF TestStopping, TakeItems, PollEmpty, QueueClosed, BatchDone, RefuseFrame, Plan, StageRuns,
        DeliverStage, GraphDone, Wedge, FrameDone, FailItem, WorkerDies, StopJoins, At, Go,
        Quiet, RunnerTypes, workVars
  <2> QED BY <2>1, <2>2, CompleteStay
<1>3. ASSUME NEW w \in Workers, NEW i \in Items,
             \/ RejectItem(w, i)
             \/ BeginFrame(w, i)
      PROVE  CompleteIsSealed' /\ CompleteMeansWhole'
  <2>1. out' = out /\ spoiled' = spoiled
    BY <1>3 DEF RejectItem, BeginFrame, collectorVars, Expect, Deliver, workVars
  <2>2. \A v \in Workers : out[v] # {} => pc'[v] = pc[v] /\ cur'[v] = cur[v]
    BY <1>3, Constants, TypesAre DEF RejectItem, BeginFrame, At, Go, Quiet, RunnerTypes, workVars
  <2> QED BY <2>1, <2>2, CompleteStay
<1>4. ASSUME NEW w \in Workers, OpenFrame(w) PROVE CompleteIsSealed' /\ CompleteMeansWhole'
  <2>1. out' = [out EXCEPT ![w] = Taken(Gone, "evicted")] /\ UNCHANGED <<spoiled, cur>>
    BY <1>4 DEF OpenFrame, Open, workVars
  <2>2. \A v \in Threads : \A r \in out'[v] : r.reason = "complete" => r \in out[v]
    BY <2>1 DEF Taken, Result, CollectorTypeOK, CollectorInv
  <2>3. \A v \in Workers : out[v] # {} => pc'[v] = pc[v]
    BY <1>4, Constants, TypesAre DEF OpenFrame, Open, At, Go, Quiet, RunnerTypes
  <2> QED BY <2>1, <2>2, <2>3, CompleteStay
<1>5. ASSUME NEW w \in Workers, StageFails(w) PROVE CompleteIsSealed' /\ CompleteMeansWhole'
  <2>1. out' = out /\ cur' = cur /\ spoiled' \subseteq spoiled \cup {cur[w]} /\ pc[w] # "sealed"
        /\ pc[w] \in Owning
    BY <1>5 DEF StageFails, At, collectorVars, Owning
  <2>2. \A v \in Workers : v # w => pc'[v] = pc[v]
    BY <1>5, Constants, TypesAre DEF StageFails, Go, RunnerTypes
  <2>3. ASSUME NEW t \in Threads, NEW r \in out[t], r.reason = "complete", OwnTag(cur[w])
        PROVE  KeyOf[cur[w]] # r.key
    <3>1. t \in Workers /\ pc[t] = "sealed" /\ KeyOf[cur[t]] = r.key
      BY <2>3 DEF CompleteIsSealed
    <3>2. Key(w) # Key(t)
      BY <2>1, <2>3, <3>1, Apart DEF InFrame, Owning
    <3> QED BY <3>1, <3>2 DEF Key
  <2>4. \A v \in Workers : out[v] # {} /\ pc[v] = "sealed" => pc'[v] = pc[v]
    BY <2>1, <2>2
  <2>5. CompleteIsSealed'
    BY <2>1, <2>4 DEF CompleteIsSealed
  <2>6. CompleteMeansWhole'
    BY <2>1, <2>3 DEF CompleteMeansWhole, OwnTag
  <2> QED BY <2>5, <2>6
<1>6. ASSUME NEW w \in Workers, GraphRaises(w) PROVE CompleteIsSealed' /\ CompleteMeansWhole'
  <2>1. out' = out /\ cur' = cur /\ spoiled' \subseteq spoiled \cup {cur[w]} /\ pc[w] # "sealed"
        /\ pc[w] \in Owning
    BY <1>6 DEF GraphRaises, At, collectorVars, Owning
  <2>2. \A v \in Workers : v # w => pc'[v] = pc[v]
    BY <1>6, Constants, TypesAre DEF GraphRaises, Go, RunnerTypes
  <2>3. ASSUME NEW t \in Threads, NEW r \in out[t], r.reason = "complete", OwnTag(cur[w])
        PROVE  KeyOf[cur[w]] # r.key
    <3>1. t \in Workers /\ pc[t] = "sealed" /\ KeyOf[cur[t]] = r.key
      BY <2>3 DEF CompleteIsSealed
    <3>2. Key(w) # Key(t)
      BY <2>1, <2>3, <3>1, Apart DEF InFrame, Owning
    <3> QED BY <3>1, <3>2 DEF Key
  <2>4. \A v \in Workers : out[v] # {} /\ pc[v] = "sealed" => pc'[v] = pc[v]
    BY <2>1, <2>2
  <2>5. CompleteIsSealed'
    BY <2>1, <2>4 DEF CompleteIsSealed
  <2>6. CompleteMeansWhole'
    BY <2>1, <2>3 DEF CompleteMeansWhole, OwnTag
  <2> QED BY <2>5, <2>6
<1>7. ASSUME NEW w \in Workers, SealFrame(w) PROVE CompleteIsSealed' /\ CompleteMeansWhole'
  <2>1. UNCHANGED <<spoiled, cur>> /\ pc' = [pc EXCEPT ![w] = "sealed"] /\ pc[w] = "seal"
    BY <1>7 DEF SealFrame, At, Go, workVars
  <2>2. out[w] = {} BY <1>7 DEF SealFrame, At, Quiet
  <2>3. pc'[w] = "sealed" /\ \A v \in Workers : v # w => pc'[v] = pc[v]
    BY <2>1, Constants, TypesAre DEF RunnerTypes
  <2>4. CASE Key(w) \in pending
    <3>1. out' = [out EXCEPT ![w] =
                     Taken({Key(w)}, IF Missing(Key(w)) = {} THEN "complete" ELSE "incomplete")]
      BY <1>7, <2>4 DEF SealFrame, Seal
    <3>2. w \in Threads /\ \A v \in Threads : v # w => out'[v] = out[v]
      BY <3>1, Constants DEF CollectorTypeOK, CollectorInv
    <3>3. \A r \in out'[w] : r.key = Key(w) /\ (r.reason = "complete" => Missing(Key(w)) = {})
      BY <3>1, <3>2 DEF CollectorTypeOK, CollectorInv, Taken, Result
    <3>4. CompleteIsSealed'
      <4> SUFFICES ASSUME NEW t \in Threads, NEW r \in out'[t], r.reason = "complete"
                   PROVE  t \in Workers /\ pc'[t] = "sealed" /\ KeyOf[cur[t]] = r.key
        BY <2>1 DEF CompleteIsSealed
      <4>1. CASE t = w BY <2>3, <3>3, <4>1 DEF Key
      <4>2. CASE t # w BY <2>3, <3>2, <4>2 DEF CompleteIsSealed
      <4> QED BY <4>1, <4>2
    <3>5. CompleteMeansWhole'
      <4> SUFFICES ASSUME NEW t \in Threads, NEW r \in out'[t], r.reason = "complete",
                          NEW i \in spoiled, OwnTag(i)
                   PROVE  KeyOf[i] # r.key
        BY <2>1 DEF CompleteMeansWhole, OwnTag
      <4>1. CASE t # w BY <3>2, <4>1 DEF CompleteMeansWhole
      <4>2. CASE t = w
        <5>1. r.key = Key(w) /\ Missing(Key(w)) = {} BY <3>3, <4>2
        <5>2. cur[w] \in Items /\ i \in Items
          BY <2>1, Constants, TypesAre DEF RunnerTypes, PlacesMeanIt, InFrame, Owning
        <5>3. KeyOf[i] = r.key => i = cur[w] BY <5>1, <5>2 DEF OwnTag, Key
        <5>4. i # cur[w]
          BY <2>1, <2>4, <5>1 DEF RecordFollows, Follows, Owning, Missing
        <5> QED BY <5>3, <5>4
      <4> QED BY <4>1, <4>2
    <3> QED BY <3>4, <3>5
  <2>5. CASE Key(w) \notin pending
    <3>1. out' = out BY <1>7, <2>5 DEF SealFrame, collectorVars
    <3> QED BY <2>1, <2>2, <2>3, <3>1, CompleteStay
  <2> QED BY <2>4, <2>5
<1>8. ASSUME \/ SweeperWakes
             \/ StopBegins
             \/ StopClosesQueue
             \/ StopJoinsSweeper
             \/ StopCopies
             \/ StopClosesSink
             \/ StopReleases
      PROVE  CompleteIsSealed' /\ CompleteMeansWhole'
  <2>1. out' = out /\ spoiled' = spoiled
    BY <1>8
    DEF SweeperWakes, StopBegins, StopClosesQueue, StopJoinsSweeper, StopCopies, StopClosesSink,
        StopReleases, collectorVars, Expect, Deliver, workVars
  <2>2. \A v \in Workers : out[v] # {} => pc'[v] = pc[v] /\ cur'[v] = cur[v]
    BY <1>8, Constants, TypesAre
    DEF SweeperWakes, StopBegins, StopClosesQueue, StopJoinsSweeper, StopCopies, StopClosesSink,
        StopReleases, At, Go, Quiet, RunnerTypes, workVars
  <2> QED BY <2>1, <2>2, CompleteStay
<1>9. ASSUME NEW ks \in SUBSET pending, SweepOnce(ks)
      PROVE CompleteIsSealed' /\ CompleteMeansWhole'
  <2>1. out' = [out EXCEPT ![Sweeper] = Taken(ks, "timeout")] /\ UNCHANGED <<spoiled, cur>>
    BY <1>9 DEF SweepOnce, Sweep, workVars
  <2>2. \A v \in Threads : \A r \in out'[v] : r.reason = "complete" => r \in out[v]
    BY <2>1 DEF Taken, Result, CollectorTypeOK, CollectorInv
  <2>3. \A v \in Workers : out[v] # {} => pc'[v] = pc[v]
    BY <1>9, Constants, TypesAre DEF SweepOnce, Sweep, At, Go, Quiet, RunnerTypes
  <2> QED BY <2>1, <2>2, <2>3, CompleteStay
<1>10. ASSUME NEW t \in Threads, NEW r \in out[t], EmitBegins(t, r)
       PROVE CompleteIsSealed' /\ CompleteMeansWhole'
  <2>1. out' = [out EXCEPT ![t] = @ \ {r}] /\ UNCHANGED <<spoiled, cur, pc>>
    BY <1>10 DEF EmitBegins, Publish, workVars
  <2>2. \A v \in Threads : out'[v] \subseteq out[v] BY <2>1 DEF CollectorTypeOK, CollectorInv
  <2> QED BY <2>1, <2>2, CompleteStay
<1>11. ASSUME NEW t \in Threads, NEW how \in {"result", "error"}, Settle(t, how)
       PROVE CompleteIsSealed' /\ CompleteMeansWhole'
  <2>1. out' = out /\ spoiled' = spoiled
    BY <1>11 DEF Settle, collectorVars, Expect, Deliver, workVars
  <2>2. \A v \in Workers : out[v] # {} => pc'[v] = pc[v] /\ cur'[v] = cur[v]
    BY <1>11, Constants, TypesAre DEF Settle, At, Go, Quiet, RunnerTypes, workVars
  <2> QED BY <2>1, <2>2, CompleteStay
<1>12. ASSUME NEW t \in Threads, EmitRaises(t) PROVE CompleteIsSealed' /\ CompleteMeansWhole'
  <2>1. out' = [out EXCEPT ![t] = {}] /\ UNCHANGED <<spoiled, cur>>
        /\ \A v \in Workers : pc'[v] = pc[v]
    BY <1>12, Constants, TypesAre DEF EmitRaises, RunnerTypes, workVars
  <2>2. \A v \in Threads : out'[v] \subseteq out[v] BY <2>1 DEF CollectorTypeOK, CollectorInv
  <2> QED BY <2>1, <2>2, CompleteStay
<1>13. ASSUME StopDrains PROVE CompleteIsSealed' /\ CompleteMeansWhole'
  <2>1. out' = [out EXCEPT ![Stopper] = Taken(pending, "shutdown")] /\ UNCHANGED <<spoiled, cur>>
    BY <1>13 DEF StopDrains, Drain, workVars
  <2>2. \A v \in Threads : \A r \in out'[v] : r.reason = "complete" => r \in out[v]
    BY <2>1 DEF Taken, Result, CollectorTypeOK, CollectorInv
  <2>3. \A v \in Workers : out[v] # {} => pc'[v] = pc[v]
    BY <1>13, Constants, TypesAre DEF StopDrains, Drain, At, Go, Quiet, RunnerTypes
  <2> QED BY <2>1, <2>2, <2>3, CompleteStay
<1>14. ASSUME NEW k \in Keys, NEW i \in Items, StopCancels(k, i)
       PROVE CompleteIsSealed' /\ CompleteMeansWhole'
  <2>1. out' = out /\ spoiled' = spoiled
    BY <1>14 DEF StopCancels, collectorVars, Expect, Deliver, workVars
  <2>2. \A v \in Workers : out[v] # {} => pc'[v] = pc[v] /\ cur'[v] = cur[v]
    BY <1>14, Constants, TypesAre DEF StopCancels, At, Go, Quiet, RunnerTypes, workVars
  <2> QED BY <2>1, <2>2, CompleteStay
<1>15. CASE UNCHANGED vars
  BY <1>15 DEF vars, collectorVars, workVars, CompleteIsSealed, CompleteMeansWhole, OwnTag
<1>16. \A t \in Threads : EmitWithoutEvent(t) \/ EmitPublishes(t) \/ EmitRefused(t) =>
           \E how \in {"result", "error"} : Settle(t, how)
  BY DEF EmitWithoutEvent, EmitPublishes, EmitRefused
<1>17. Workers \subseteq Threads BY DEF Workers
<1> QED
  BY PipelineAssumption, <1>1, <1>2, <1>3, <1>4, <1>5, <1>6, <1>7, <1>8, <1>9, <1>10, <1>11,
     <1>12, <1>13, <1>14, <1>15, <1>16, <1>17
  DEF Next, Work, SweeperStep, Stop, Emit

-----------------------------------------------------------------------------
(* The invariant holds.                                                    *)

\* Wherever start() leaves the runner, with earlier frames answered or not.
LEMMA RunnerBegins ==
    ASSUME NEW futures \in [Items -> {"none", "error"}], CollectorInit, RunnerStarts(futures)
    PROVE  IInv
<1>1. CollectorInv /\ NoneMissing BY CollectorStarts
<1>2. /\ queue = {} /\ closed = FALSE /\ future = futures
      /\ awaiting = [k \in Keys |-> None] /\ hold = [t \in Threads |-> Idle]
      /\ batch = [w \in Workers |-> {}] /\ cur = [w \in Workers |-> None]
      /\ step = [w \in Workers |-> 1] /\ fed = [w \in Workers |-> {}]
      /\ toJoin = Workers /\ toCancel = {} /\ spoiled = {} /\ died = {} /\ raised = {}
  BY DEF RunnerStarts
<1>3. /\ pc[Sweeper] = "wait" /\ pc[Stopper] = "up" /\ \A w \in Workers : pc[w] = "loop"
      /\ pc \in [Threads -> Places]
  BY Constants DEF RunnerStarts, Places
<1>4. out = [t \in Threads |-> {}] /\ pending = {} BY DEF CollectorInit
<1>5. RunnerTypes
  <2>1. 1 \in 1 .. Last + 1 BY Constants
  <2>2. Idle \in [item: Items \cup {None}, reason: Reasons \cup {"none"}] BY DEF Idle
  <2> QED BY <1>2, <1>3, <2>1, <2>2 DEF RunnerTypes
<1>6. PipelineTypeOK BY <1>1, <1>5, TypesAre DEF CollectorInv
<1>7. RunnerInv
  <2>1. PlacesMeanIt
    BY <1>2, <1>3
    DEF PlacesMeanIt, WorkerPlaces, InFrame, Owning, SweeperPlaces, StopPlaces, AfterClose
  <2>2. PublishFirst
    BY <1>2, <1>4, Constants DEF PublishFirst, Quiet
  <2>3. OneAtATime BY <1>2 DEF OneAtATime
  <2>4. FramesAreOwned BY <1>4 DEF FramesAreOwned
  <2> QED BY <2>1, <2>2, <2>3, <2>4 DEF RunnerInv
<1>8. FuturesInv
  <2>1. \A k \in Keys : awaiting[k] = None BY <1>2
  <2>2. \A i \in Items : future[i] # "pending" BY <1>2
  <2> QED BY <1>2, <2>1, <2>2 DEF FuturesInv, OwnKeys, NoFutureDropped, AwaitingIsBacked
<1>9. WholeInv
  <2>1. OneHand BY <1>2 DEF OneHand
  <2>2. SpoiledWasOpened BY <1>2 DEF SpoiledWasOpened
  <2>3. RecordFollows BY <1>4 DEF RecordFollows, Follows
  <2>4. CompleteIsSealed /\ CompleteMeansWhole BY <1>4 DEF CompleteIsSealed, CompleteMeansWhole
  <2> QED BY <2>1, <2>2, <2>3, <2>4 DEF WholeInv
<1> QED BY <1>1, <1>6, <1>7, <1>8, <1>9 DEF IInv, SweptNoneMissing

LEMMA RunnerSteps ==
    ASSUME IInv, [Next]_vars
    PROVE  IInv'
<1> USE DEF IInv, RunnerInv, FuturesInv, WholeInv
<1>1. RunnerTypes' BY TypesKeep
<1>2. CollectorInv' /\ SweptNoneMissing' BY CollectorKeeps
<1>3. PipelineTypeOK' BY <1>1, <1>2 DEF PipelineTypeOK, RunnerTypes, CollectorInv
<1>4. RunnerInv' BY PlacesKeep, PublishFirstKeeps, OneAtATimeKeeps, OwnedKeep
<1>5. FuturesInv' BY OwnKeysKeep, NoFutureDroppedKeeps, BackedKeeps
<1>6. WholeInv' BY OneHandKeeps, SpoiledKeep, RecordFollowsKeeps, CompleteKeeps
<1> QED BY <1>2, <1>3, <1>4, <1>5, <1>6

\* The inductive invariant: where each thread is and what it holds, who is going
\* to seal a waiting frame, where an unanswered future is, and how the
\* collector's record of a frame follows the worker that runs it.
THEOREM Inductive == Spec => []IInv
<1>1. Init => IInv
  <2>1. [i \in Items |-> "none"] \in [Items -> {"none", "error"}] OBVIOUS
  <2> QED BY <2>1, RunnerBegins DEF Init
<1> QED BY <1>1, RunnerSteps, PTL DEF Spec

-----------------------------------------------------------------------------
(* What it says.                                                           *)

\* Somewhere once, and at most once in any case.
LEMMA AtMostOnce == ASSUME IInv PROVE ReportedAtMostOnce
BY ExactlyOnce DEF ReportedAtMostOnce, IInv

\* A dead worker had one frame, and nothing else in its batch.
LEMMA NoneLost == ASSUME IInv, PerWakeup = 1 PROVE NoFutureLost
<1>1. ASSUME NEW w \in Workers, pc[w] = "dead" PROVE batch[w] = {}
  BY <1>1 DEF IInv, RunnerInv, PlacesMeanIt, InFrame, OneAtATime
<1> QED BY <1>1 DEF IInv, FuturesInv, NoFutureDropped, NoFutureLost

LEMMA AllAnswered == ASSUME IInv PROVE NothingLeftBehind
<1> SUFFICES ASSUME pc[Stopper] = "down", SweptWhole,
                    \A t \in Threads \ {Stopper} : pc[t] = "exit"
             PROVE  /\ pending = {} /\ queue = {}
                    /\ \A n \in 1 .. opened : reported[n] = 1
                    /\ \A i \in Items : OwnTag(i) =>
                          future[i] # "pending" /\ awaiting[KeyOf[i]] = None
  BY DEF NothingLeftBehind
<1>1. \A w \in Workers : pc[w] = "exit" /\ batch[w] = {}
  BY Constants DEF IInv, RunnerInv, PlacesMeanIt
<1>2. \A t \in Threads : out[t] = {} /\ hold[t].item = None
  BY DEF IInv, RunnerInv, PublishFirst, Quiet, Idle
<1>3. queue = {} BY DEF IInv, RunnerInv, PlacesMeanIt, AfterClose
<1>4. pending = {} BY <1>1 DEF IInv, RunnerInv, FramesAreOwned, Owning
<1>5. \A n \in 1 .. opened : reported[n] = 1
  BY <1>2, <1>4 DEF IInv, SweptNoneMissing, NoneMissing, Somewhere
<1>6. \A k \in Keys : awaiting[k] = None
  BY <1>1, <1>2, <1>4 DEF IInv, FuturesInv, AwaitingIsBacked
<1>7. \A i \in Items : OwnTag(i) => future[i] # "pending"
  BY <1>1, <1>2, <1>3, <1>6, Constants DEF IInv, FuturesInv, NoFutureDropped
<1> QED BY <1>3, <1>4, <1>5, <1>6, <1>7, Constants

LEMMA FuturesFollow == ASSUME IInv, PerWakeup = 1 PROVE FuturesTracked
BY NoneLost DEF FuturesTracked, IInv, FuturesInv

\* A future stays with the runner until it is answered, a frame is published once
\* at most, and a stop() leaves nothing behind, for any graph, number of workers,
\* capacity and policy, whatever wedges, raises or times out: with the one frame a
\* wakeup that pipeline.frames_per_wakeup defaults to.  A worker that dies in the
\* handler of _work() loses the rest of a larger batch.
THEOREM NothingForgotten == ASSUME PerWakeup = 1 PROVE Spec => []NoFutureForgotten
<1>1. IInv => NoFutureForgotten
  BY FuturesFollow, AtMostOnce, AllAnswered DEF NoFutureForgotten
<1> QED BY <1>1, Inductive, PTL

\* The map of awaited futures follows the frames that are really open, for workers
\* that pass each other and frames that share a tag.
THEOREM MapFollowsFrames == ASSUME PerWakeup = 1 PROVE Spec => []AwaitedAreOpen
<1>1. IInv => AwaitedAreOpen
  BY FuturesFollow, AllAnswered DEF AwaitedAreOpen
<1> QED BY <1>1, Inductive, PTL

\* With any number of frames a wakeup: a frame is published once at most, and once
\* the last thread has ended behind a stop() that returned, every opened frame was
\* reported and every future with a tag of its own is answered.
THEOREM StopAccountsForAll == Spec => [](ReportedAtMostOnce /\ NothingLeftBehind)
<1>1. IInv => ReportedAtMostOnce /\ NothingLeftBehind BY AtMostOnce, AllAnswered
<1> QED BY <1>1, Inductive, PTL

\* A frame that lost a stage is never reported complete, whatever the graph, the
\* rows its stages produce, and the sweeps and evictions meanwhile.
THEOREM CompleteIsWhole == Spec => []CompleteMeansWhole
<1>1. IInv => CompleteMeansWhole BY DEF IInv, WholeInv
<1> QED BY <1>1, Inductive, PTL
=============================================================================
