-------------------------- MODULE SpillTierProofs ---------------------------
(***************************************************************************)
(* The custody of requests and slots in SpillTier, for any finite set of   *)
(* requests, rings of any size and every environment: processes that die,  *)
(* heartbeats that come late, shards that stop.                            *)
(***************************************************************************)
EXTENDS SpillTier, FiniteSetTheorems, SequenceTheorems, TLAPS

-----------------------------------------------------------------------------
(* The inductive invariant.                                                *)

Over == {"expected", "watched", "published", "remote"}     \* the reader has heard of it
Outcomes == {"answered", "lost", "expired", "stopped"}
Answers == [req : Requests, ok : BOOLEAN]

SubmitterTypes ==
    /\ place \in [Requests -> Over \cup {"caller", "claimed", "spilled"}]
    /\ future \in [Requests -> Outcomes \cup {"pending"}]
    /\ pending \subseteq Requests /\ inFlight \in Int
    /\ lost \in BOOLEAN /\ stopping \in BOOLEAN /\ gone \in BOOLEAN /\ dead \subseteq Sides
    /\ reader \in {"run", "ended"}

OwnerTypes ==
    /\ working \subseteq Requests /\ serving \subseteq Requests
    /\ deferred \in Seq(Requests) /\ replies \in Seq(Answers)

\* A ring of RingContract: a message in it was sent, is in one place, and all
\* of them fit.
RingSound(reserved, sent, ready, held) ==
    /\ reserved \in Nat /\ sent \subseteq Requests
    /\ ready \subseteq sent /\ held \subseteq sent /\ ready \cap held = {}
    /\ reserved + Cardinality(ready) + Cardinality(held) <= Room

RequestRing == RingSound(reqReserved, reqSent, reqReady, reqHeld)
ResultRing == RingSound(resReserved, resSent, resReady, resHeld)

\* Only futures that _pending holds are resolved, and a request is in _pending
\* from expect() until then.
Known ==
    /\ \A r \in pending : ~Settled(r) /\ place[r] \in Over
    /\ \A r \in Requests : Settled(r) => place[r] \in Over
    /\ reader = "ended" => stopping
    /\ Custody

\* What the ingress has in hand at each point of its loop.
Phases ==
    /\ IF ingress = "serve" THEN \E r \in Requests : serving = {r} ELSE serving = {}
    /\ IF ingress \in {"claim", "encode", "release"} THEN \E a \in Answers : reply = <<a>>
                                                     ELSE reply = <<>>

Deferred == {deferred[n] : n \in 1 .. Len(deferred)}
Replied == {replies[n].req : n \in 1 .. Len(replies)}
Landing == {reply[n].req : n \in 1 .. Len(reply)}

DeferredOnce == \A m, n \in 1 .. Len(deferred) : m # n => deferred[m] # deferred[n]
RepliedOnce == \A m, n \in 1 .. Len(replies) : m # n => replies[m].req # replies[n].req

\* The slots held are those of the requests under way, each in one place.
Roads ==
    ingress # "ended" =>
        /\ reqHeld = serving \cup working \cup Deferred \cup Replied \cup Landing
        /\ serving \cap (working \cup Deferred \cup Replied \cup Landing) = {}
        /\ working \cap (Deferred \cup Replied \cup Landing) = {}
        /\ Deferred \cap (Replied \cup Landing) = {}
        /\ Replied \cap Landing = {}
        /\ DeferredOnce /\ RepliedOnce

IInv ==
    /\ SubmitterTypes /\ OwnerTypes /\ RequestRing /\ ResultRing
    /\ Known /\ Phases /\ Roads /\ InFlightBalanced

-----------------------------------------------------------------------------
(* Sets and sequences.                                                     *)

LEMMA CountIn ==
    ASSUME NEW S, NEW r
    PROVE  Cardinality(S \cap {r}) = IF r \in S THEN 1 ELSE 0
<1>1. CASE r \in S
  <2>1. S \cap {r} = {r} BY <1>1
  <2> QED BY <1>1, <2>1, FS_Singleton
<1>2. CASE r \notin S
  <2>1. S \cap {r} = {} BY <1>2
  <2> QED BY <1>2, <2>1, FS_EmptySet
<1> QED BY <1>1, <1>2

LEMMA Finite ==
    ASSUME NEW S, S \subseteq Requests
    PROVE  IsFiniteSet(S) /\ Cardinality(S) \in Nat
BY SpillAssumption, FS_Subset, FS_CardinalityType

LEMMA Appended ==
    ASSUME NEW T, NEW s \in Seq(T), NEW e \in T
    PROVE  /\ Append(s, e) \in Seq(T) /\ Len(s) \in Nat
           /\ Len(Append(s, e)) = Len(s) + 1
           /\ \A n \in 1 .. Len(s) : Append(s, e)[n] = s[n]
           /\ Append(s, e)[Len(s) + 1] = e
OBVIOUS

LEMMA Headed ==
    ASSUME NEW T, NEW s \in Seq(T), s # <<>>
    PROVE  /\ Tail(s) \in Seq(T) /\ Len(s) \in Nat \ {0}
           /\ Len(Tail(s)) = Len(s) - 1
           /\ \A n \in 1 .. Len(s) - 1 : Tail(s)[n] = s[n + 1]
           /\ Head(s) = s[1] /\ Head(s) \in T
OBVIOUS

LEMMA RepliesGrow ==
    ASSUME OwnerTypes, NEW a \in Answers, replies' = Append(replies, a)
    PROVE  /\ replies' \in Seq(Answers)
           /\ Replied' = Replied \cup {a.req}
           /\ a.req \notin Replied /\ RepliedOnce => RepliedOnce'
<1>1. /\ replies' \in Seq(Answers) /\ Len(replies) \in Nat
      /\ Len(replies') = Len(replies) + 1
      /\ \A n \in 1 .. Len(replies) : replies'[n] = replies[n]
      /\ replies'[Len(replies) + 1] = a
  BY Appended DEF OwnerTypes
<1>2. \A n \in 1 .. Len(replies) + 1 : n \in 1 .. Len(replies) \/ n = Len(replies) + 1 BY <1>1
<1>3. Len(replies) + 1 \in 1 .. Len(replies) + 1 BY <1>1
<1>4. \A n \in 1 .. Len(replies) : n \in 1 .. Len(replies) + 1 BY <1>1
<1>5. Replied' = Replied \cup {a.req} BY <1>1, <1>2, <1>3, <1>4 DEF Replied
<1>6. a.req \notin Replied /\ RepliedOnce => RepliedOnce'
  BY <1>1, <1>2 DEF Replied, RepliedOnce
<1> QED BY <1>1, <1>5, <1>6

LEMMA RepliesShrink ==
    ASSUME OwnerTypes, RepliedOnce, replies # <<>>, replies' = Tail(replies)
    PROVE  /\ replies' \in Seq(Answers)
           /\ Head(replies) \in Answers /\ Head(replies).req \in Replied
           /\ Replied' = Replied \ {Head(replies).req}
           /\ RepliedOnce'
<1>1. /\ replies' \in Seq(Answers) /\ Len(replies) \in Nat \ {0}
      /\ Len(replies') = Len(replies) - 1
      /\ \A n \in 1 .. Len(replies) - 1 : replies'[n] = replies[n + 1]
      /\ Head(replies) = replies[1] /\ Head(replies) \in Answers
  BY Headed DEF OwnerTypes
<1>2. \A n \in 1 .. Len(replies) - 1 : n + 1 \in 1 .. Len(replies) /\ n + 1 # 1 BY <1>1
<1>3. \A n \in 1 .. Len(replies) : n = 1 \/ (n - 1 \in 1 .. Len(replies) - 1 /\ (n - 1) + 1 = n)
  BY <1>1
<1>4. 1 \in 1 .. Len(replies) BY <1>1
<1>5. Head(replies).req \in Replied BY <1>1, <1>4 DEF Replied
<1>6. Replied' = Replied \ {Head(replies).req}
  <2>1. \A n \in 1 .. Len(replies) : n # 1 => replies[n].req # replies[1].req
    BY <1>4 DEF RepliedOnce
  <2>2. Replied' = {replies[n + 1].req : n \in 1 .. Len(replies) - 1} BY <1>1 DEF Replied
  <2> QED BY <1>1, <1>2, <1>3, <2>1, <2>2 DEF Replied
<1>7. RepliedOnce' BY <1>1, <1>2 DEF RepliedOnce
<1> QED BY <1>1, <1>5, <1>6, <1>7

LEMMA DeferredGrows ==
    ASSUME OwnerTypes, NEW r \in Requests, deferred' = Append(deferred, r)
    PROVE  /\ deferred' \in Seq(Requests)
           /\ Deferred' = Deferred \cup {r}
           /\ r \notin Deferred /\ DeferredOnce => DeferredOnce'
<1>1. /\ deferred' \in Seq(Requests) /\ Len(deferred) \in Nat
      /\ Len(deferred') = Len(deferred) + 1
      /\ \A n \in 1 .. Len(deferred) : deferred'[n] = deferred[n]
      /\ deferred'[Len(deferred) + 1] = r
  BY Appended DEF OwnerTypes
<1>2. \A n \in 1 .. Len(deferred) + 1 : n \in 1 .. Len(deferred) \/ n = Len(deferred) + 1 BY <1>1
<1>3. Len(deferred) + 1 \in 1 .. Len(deferred) + 1 BY <1>1
<1>4. \A n \in 1 .. Len(deferred) : n \in 1 .. Len(deferred) + 1 BY <1>1
<1>5. Deferred' = Deferred \cup {r} BY <1>1, <1>2, <1>3, <1>4 DEF Deferred
<1>6. r \notin Deferred /\ DeferredOnce => DeferredOnce'
  BY <1>1, <1>2 DEF Deferred, DeferredOnce
<1> QED BY <1>1, <1>5, <1>6

LEMMA DeferredShrinks ==
    ASSUME OwnerTypes, DeferredOnce, deferred # <<>>, deferred' = Tail(deferred)
    PROVE  /\ deferred' \in Seq(Requests)
           /\ Head(deferred) \in Requests /\ Head(deferred) \in Deferred
           /\ Deferred' = Deferred \ {Head(deferred)}
           /\ DeferredOnce'
<1>1. /\ deferred' \in Seq(Requests) /\ Len(deferred) \in Nat \ {0}
      /\ Len(deferred') = Len(deferred) - 1
      /\ \A n \in 1 .. Len(deferred) - 1 : deferred'[n] = deferred[n + 1]
      /\ Head(deferred) = deferred[1] /\ Head(deferred) \in Requests
  BY Headed DEF OwnerTypes
<1>2. \A n \in 1 .. Len(deferred) - 1 : n + 1 \in 1 .. Len(deferred) /\ n + 1 # 1 BY <1>1
<1>3. \A n \in 1 .. Len(deferred) :
        n = 1 \/ (n - 1 \in 1 .. Len(deferred) - 1 /\ (n - 1) + 1 = n)
  BY <1>1
<1>4. 1 \in 1 .. Len(deferred) BY <1>1
<1>5. Head(deferred) \in Deferred BY <1>1, <1>4 DEF Deferred
<1>6. Deferred' = Deferred \ {Head(deferred)}
  <2>1. \A n \in 1 .. Len(deferred) : n # 1 => deferred[n] # deferred[1]
    BY <1>4 DEF DeferredOnce
  <2>2. Deferred' = {deferred[n + 1] : n \in 1 .. Len(deferred) - 1} BY <1>1 DEF Deferred
  <2> QED BY <1>1, <1>2, <1>3, <2>1, <2>2 DEF Deferred
<1>7. DeferredOnce' BY <1>1, <1>2 DEF DeferredOnce
<1> QED BY <1>1, <1>5, <1>6, <1>7

-----------------------------------------------------------------------------
(* The rings.                                                              *)

LEMMA SameCount ==
    ASSUME NEW S
    PROVE  Req!Cardinality(S) = Cardinality(S) /\ Res!Cardinality(S) = Cardinality(S)
BY DEF Req!Cardinality, Res!Cardinality, Cardinality

\* What each operation of RingContract does to a sound ring.
LEMMA RingMoves ==
    ASSUME NEW k, NEW s, NEW a, NEW h, RingSound(k, s, a, h)
    PROVE  /\ k + Cardinality(a) + Cardinality(h) < Room => RingSound(k + 1, s, a, h)
           /\ k > 0 => RingSound(k - 1, s, a, h)
           /\ k > 0 => \A m \in Requests \ s : RingSound(k - 1, s \cup {m}, a \cup {m}, h)
           /\ \A m \in a : RingSound(k, s, a \ {m}, h \cup {m})
           /\ \A g \in SUBSET h : RingSound(k, s, a, g)
<1>1. /\ k \in Nat /\ s \subseteq Requests /\ a \subseteq s /\ h \subseteq s /\ a \cap h = {}
      /\ k + Cardinality(a) + Cardinality(h) <= Room
  BY DEF RingSound
<1>2. IsFiniteSet(a) /\ IsFiniteSet(h) /\ Cardinality(a) \in Nat /\ Cardinality(h) \in Nat
  BY <1>1, Finite
<1>3. Room \in Nat BY SpillAssumption
<1>4. k + Cardinality(a) + Cardinality(h) < Room => RingSound(k + 1, s, a, h)
  BY <1>1, <1>2, <1>3 DEF RingSound
<1>5. k > 0 => RingSound(k - 1, s, a, h) BY <1>1, <1>2, <1>3 DEF RingSound
<1>6. ASSUME k > 0, NEW m \in Requests \ s PROVE RingSound(k - 1, s \cup {m}, a \cup {m}, h)
  <2>1. Cardinality(a \cup {m}) = Cardinality(a) + 1 BY <1>1, <1>2, <1>6, FS_AddElement
  <2> QED BY <1>1, <1>2, <1>3, <1>6, <2>1 DEF RingSound
<1>7. ASSUME NEW m \in a PROVE RingSound(k, s, a \ {m}, h \cup {m})
  <2>1. Cardinality(a \ {m}) = Cardinality(a) - 1 BY <1>2, FS_RemoveElement
  <2>2. Cardinality(h \cup {m}) = Cardinality(h) + 1 BY <1>1, <1>2, FS_AddElement
  <2> QED BY <1>1, <1>2, <1>3, <2>1, <2>2 DEF RingSound
<1>8. ASSUME NEW g \in SUBSET h PROVE RingSound(k, s, a, g)
  <2>1. Cardinality(g) <= Cardinality(h) /\ Cardinality(g) \in Nat
    BY <1>1, <1>2, Finite, FS_Subset
  <2> QED BY <1>1, <1>2, <1>3, <2>1 DEF RingSound
<1> QED BY <1>4, <1>5, <1>6, <1>7, <1>8

LEMMA RequestRingSteps ==
    ASSUME RequestRing
    PROVE  /\ Req!Reserve => RequestRing'
           /\ Req!GiveBack => RequestRing'
           /\ \A m \in Requests : Req!Send(m) \/ Req!Receive(m) \/ Req!Finish(m) => RequestRing'
<1>1. RingSound(reqReserved, reqSent, reqReady, reqHeld) BY DEF RequestRing
<1>2. ASSUME Req!Reserve PROVE RequestRing'
  BY <1>1, <1>2, RingMoves, SameCount DEF RequestRing, Req!Reserve, Req!Load
<1>3. ASSUME Req!GiveBack PROVE RequestRing'
  BY <1>1, <1>3, RingMoves DEF RequestRing, Req!GiveBack
<1>4. ASSUME NEW m \in Requests, Req!Send(m) PROVE RequestRing'
  <2>1. RingSound(reqReserved - 1, reqSent \cup {m}, reqReady \cup {m}, reqHeld)
    BY <1>1, <1>4, RingMoves DEF Req!Send
  <2> QED BY <1>4, <2>1 DEF RequestRing, Req!Send
<1>5. ASSUME NEW m \in Requests, Req!Receive(m) PROVE RequestRing'
  <2>1. RingSound(reqReserved, reqSent, reqReady \ {m}, reqHeld \cup {m})
    BY <1>1, <1>5, RingMoves DEF Req!Receive
  <2> QED BY <1>5, <2>1 DEF RequestRing, Req!Receive
<1>6. ASSUME NEW m \in Requests, Req!Finish(m) PROVE RequestRing'
  <2>1. reqHeld \ {m} \in SUBSET reqHeld OBVIOUS
  <2>2. RingSound(reqReserved, reqSent, reqReady, reqHeld \ {m}) BY <1>1, <2>1, RingMoves
  <2> QED BY <1>6, <2>2 DEF RequestRing, Req!Finish
<1> QED BY <1>2, <1>3, <1>4, <1>5, <1>6

LEMMA ResultRingSteps ==
    ASSUME ResultRing
    PROVE  /\ Res!Reserve => ResultRing'
           /\ \A m \in Requests : Res!Send(m) \/ Res!Receive(m) \/ Res!Finish(m) => ResultRing'
<1>1. RingSound(resReserved, resSent, resReady, resHeld) BY DEF ResultRing
<1>2. ASSUME Res!Reserve PROVE ResultRing'
  BY <1>1, <1>2, RingMoves, SameCount DEF ResultRing, Res!Reserve, Res!Load
<1>3. ASSUME NEW m \in Requests, Res!Send(m) PROVE ResultRing'
  <2>1. RingSound(resReserved - 1, resSent \cup {m}, resReady \cup {m}, resHeld)
    BY <1>1, <1>3, RingMoves DEF Res!Send
  <2> QED BY <1>3, <2>1 DEF ResultRing, Res!Send
<1>4. ASSUME NEW m \in Requests, Res!Receive(m) PROVE ResultRing'
  <2>1. RingSound(resReserved, resSent, resReady \ {m}, resHeld \cup {m})
    BY <1>1, <1>4, RingMoves DEF Res!Receive
  <2> QED BY <1>4, <2>1 DEF ResultRing, Res!Receive
<1>5. ASSUME NEW m \in Requests, Res!Finish(m) PROVE ResultRing'
  <2>1. resHeld \ {m} \in SUBSET resHeld OBVIOUS
  <2>2. RingSound(resReserved, resSent, resReady, resHeld \ {m}) BY <1>1, <2>1, RingMoves
  <2> QED BY <1>5, <2>2 DEF ResultRing, Res!Finish
<1> QED BY <1>2, <1>3, <1>4, <1>5

-----------------------------------------------------------------------------
(* Every step keeps the invariant.                                         *)

USE DEF reqVars, resVars, submitVars, ownerVars, Nobody, Goes

LEMMA Base == Init => IInv
<1> SUFFICES ASSUME Init PROVE IInv OBVIOUS
<1>1. SubmitterTypes
  <2>1. place \in [Requests -> Over \cup {"caller", "claimed", "spilled"}] BY DEF Init
  <2>2. future \in [Requests -> Outcomes \cup {"pending"}] BY DEF Init
  <2>3. /\ pending = {} /\ inFlight = 0 /\ dead = {} /\ reader = "run"
        /\ lost = FALSE /\ stopping = FALSE /\ gone = FALSE
    BY DEF Init
  <2>4. lost \in BOOLEAN /\ stopping \in BOOLEAN /\ gone \in BOOLEAN BY <2>3
  <2>5. inFlight \in Int /\ pending \subseteq Requests /\ dead \subseteq Sides BY <2>3
  <2> QED BY <2>1, <2>2, <2>3, <2>4, <2>5 DEF SubmitterTypes
<1>2. OwnerTypes BY DEF Init, OwnerTypes
<1>3. RequestRing /\ ResultRing
  <2>1. RingSound(0, {}, {}, {}) BY SpillAssumption, FS_EmptySet DEF RingSound
  <2> QED
    BY <2>1 DEF Init, RequestRing, ResultRing, Req!ContractInit, Res!ContractInit
<1>4. Known BY DEF Init, Known, Settled, Custody
<1>5. Phases BY DEF Init, Phases
<1>6. Roads
  BY DEF Init, Roads, Deferred, Replied, Landing, DeferredOnce, RepliedOnce, Req!ContractInit
<1>7. InFlightBalanced
  <2>1. /\ {r \in Requests : place[r] = "remote" /\ ~Settled(r)} = {}
        /\ {r \in Requests : place[r] \in {"watched", "published"} /\ Settled(r)} = {}
    BY DEF Init, Settled
  <2>2. Cardinality({}) = 0 BY FS_EmptySet
  <2>3. inFlight = Cardinality({}) - Cardinality({}) BY <2>2 DEF Init
  <2> QED BY <2>1, <2>3 DEF InFlightBalanced
<1> QED BY <1>1, <1>2, <1>3, <1>4, <1>5, <1>6, <1>7 DEF IInv

LEMMA RingsStep == ASSUME IInv, Next PROVE RequestRing' /\ ResultRing'
<1>1. RequestRing /\ ResultRing BY DEF IInv
<1>2. RequestRing'
  <2>1. CASE UNCHANGED <<reqReserved, reqSent, reqReady, reqHeld>> BY <1>1, <2>1 DEF RequestRing
  <2>2. CASE IngressEnds
    <3>1. reqHeld' \in SUBSET reqHeld /\ UNCHANGED <<reqReserved, reqSent, reqReady>>
      BY <2>2 DEF IngressEnds
    <3> QED BY <1>1, <3>1, RingMoves DEF RequestRing
  <2>3. CASE ReleaseSlot
    <3>1. PICK m \in Requests : Req!Finish(m)
      <4>1. PICK a \in Answers : reply = <<a>> BY <2>3 DEF IInv, Phases, ReleaseSlot
      <4> QED BY <2>3, <4>1 DEF ReleaseSlot, Answers
    <3> QED BY <1>1, <3>1, RequestRingSteps
  <2>4. ASSUME NEW r \in Requests,
               Claim(r) \/ Abandon(r) \/ Publish(r) \/ TakeRequest(r)
        PROVE  RequestRing'
    BY <1>1, <2>1, <2>4, RequestRingSteps DEF Claim, Abandon, Publish, TakeRequest
  <2> QED
    BY <2>1, <2>2, <2>3, <2>4
    DEF Next, Enqueue, ClaimRefused, Expect, Watch, Count, WorkSettles, Read, ReadResult,
        ReleaseResult, LosePeer, FindPeer, Expire, ReaderEnds, StopSubmitter, CloseOpened,
        CloseOwned, Sweep, ServeAnswers, ServeDispatches, ServeDefers, RetryDeferred, PopReply,
        ReplyClaims, ReplyWaits, ReplyDropped, ReplyPublishes, Dies
<1>3. ResultRing'
  <2>1. CASE UNCHANGED <<resReserved, resSent, resReady, resHeld>> BY <1>1, <2>1 DEF ResultRing
  <2>2. CASE ReplyClaims BY <1>1, <2>2, ResultRingSteps DEF ReplyClaims
  <2>3. CASE ReplyPublishes
    <3>1. PICK m \in Requests : Res!Send(m)
      <4>1. PICK a \in Answers : reply = <<a>> BY <2>3 DEF IInv, Phases, ReplyPublishes
      <4> QED BY <2>3, <4>1 DEF ReplyPublishes, Answers
    <3> QED BY <1>1, <3>1, ResultRingSteps
  <2>4. ASSUME NEW r \in Requests, ReadResult(r) \/ ReleaseResult(r) PROVE ResultRing'
    BY <1>1, <2>4, ResultRingSteps DEF ReadResult, ReleaseResult
  <2>5. CASE CloseOwned BY <1>1, <2>1, <2>5 DEF CloseOwned, Res!Close
  <2> QED
    BY <2>1, <2>2, <2>3, <2>4, <2>5
    DEF Next, Enqueue, Claim, ClaimRefused, Abandon, Expect, Watch, Publish, Count, WorkSettles,
        Read, LosePeer, FindPeer, Expire, ReaderEnds, StopSubmitter, CloseOpened, Sweep,
        TakeRequest, ServeAnswers, ServeDispatches, ServeDefers, RetryDeferred, PopReply,
        ReplyWaits, ReplyDropped, ReleaseSlot, IngressEnds, Dies
<1> QED BY <1>2, <1>3

\* The ingress and the model's worker: whoever takes a request on puts it into
\* one place and out of another.
LEMMA OwnerStep == ASSUME IInv, Next PROVE OwnerTypes' /\ Phases' /\ Roads'
<1> USE DEF IInv
<1>1. CASE UNCHANGED <<ownerVars, reqHeld>>
  <2>1. UNCHANGED <<Deferred, Replied, Landing, DeferredOnce, RepliedOnce>>
    BY <1>1 DEF Deferred, Replied, Landing, DeferredOnce, RepliedOnce
  <2>2. OwnerTypes' BY <1>1 DEF OwnerTypes
  <2>3. Phases' BY <1>1 DEF Phases
  <2>4. Roads' BY <1>1, <2>1 DEF Roads
  <2> QED BY <2>2, <2>3, <2>4
<1>2. ASSUME NEW r \in Requests, TakeRequest(r) PROVE OwnerTypes' /\ Phases' /\ Roads'
  <2>1. /\ serving = {} /\ serving' = {r} /\ ingress = "sweep" /\ ingress' = "serve"
        /\ reqHeld' = reqHeld \cup {r} /\ r \in reqReady
        /\ UNCHANGED <<working, deferred, replies, reply>>
    BY <1>2 DEF TakeRequest, Req!Receive, Phases
  <2>2. r \notin reqHeld BY <2>1 DEF RequestRing, RingSound
  <2>3. UNCHANGED <<Deferred, Replied, Landing, DeferredOnce, RepliedOnce>>
    BY <2>1 DEF Deferred, Replied, Landing, DeferredOnce, RepliedOnce
  <2>4. Phases' BY <2>1 DEF Phases
  <2>5. Roads' BY <2>1, <2>2, <2>3 DEF Roads
  <2> QED BY <2>1, <2>4, <2>5 DEF OwnerTypes
<1>3. ASSUME NEW r \in Requests, ServeAnswers(r) PROVE OwnerTypes' /\ Phases' /\ Roads'
  <2>1. PICK ok \in BOOLEAN : replies' = Append(replies, Answer(r, ok))
    BY <1>3 DEF ServeAnswers
  <2>2. Answer(r, ok) \in Answers /\ Answer(r, ok).req = r BY DEF Answer, Answers
  <2>3. /\ replies' \in Seq(Answers) /\ Replied' = Replied \cup {r}
        /\ r \notin Replied /\ RepliedOnce => RepliedOnce'
    BY <2>1, <2>2, RepliesGrow
  <2>4. /\ serving = {r} /\ serving' = {} /\ ingress = "serve" /\ ingress' = "sweep"
        /\ UNCHANGED <<reqHeld, working, deferred, reply>>
    BY <1>3 DEF ServeAnswers
  <2>5. UNCHANGED <<Deferred, Landing, DeferredOnce>>
    BY <2>4 DEF Deferred, Landing, DeferredOnce
  <2>6. Phases' BY <2>4 DEF Phases
  <2>7. Roads' BY <2>3, <2>4, <2>5 DEF Roads
  <2> QED BY <2>3, <2>4, <2>6, <2>7 DEF OwnerTypes
<1>4. ASSUME NEW r \in Requests, ServeDispatches(r) PROVE OwnerTypes' /\ Phases' /\ Roads'
  <2>1. /\ serving = {r} /\ serving' = {} /\ ingress = "serve" /\ ingress' = "sweep"
        /\ working' = working \cup {r} /\ UNCHANGED <<reqHeld, deferred, replies, reply>>
    BY <1>4 DEF ServeDispatches
  <2>2. UNCHANGED <<Deferred, Replied, Landing, DeferredOnce, RepliedOnce>>
    BY <2>1 DEF Deferred, Replied, Landing, DeferredOnce, RepliedOnce
  <2>3. Phases' BY <2>1 DEF Phases
  <2>4. Roads' BY <2>1, <2>2 DEF Roads
  <2> QED BY <2>1, <2>3, <2>4 DEF OwnerTypes
<1>5. ASSUME NEW r \in Requests, ServeDefers(r) PROVE OwnerTypes' /\ Phases' /\ Roads'
  <2>1. /\ serving = {r} /\ serving' = {} /\ ingress = "serve" /\ ingress' = "sweep"
        /\ deferred' = Append(deferred, r) /\ UNCHANGED <<reqHeld, working, replies, reply>>
    BY <1>5 DEF ServeDefers
  <2>2. /\ deferred' \in Seq(Requests) /\ Deferred' = Deferred \cup {r}
        /\ r \notin Deferred /\ DeferredOnce => DeferredOnce'
    BY <2>1, DeferredGrows
  <2>3. UNCHANGED <<Replied, Landing, RepliedOnce>>
    BY <2>1 DEF Replied, Landing, RepliedOnce
  <2>4. Phases' BY <2>1 DEF Phases
  <2>5. Roads' BY <2>1, <2>2, <2>3 DEF Roads
  <2> QED BY <2>1, <2>2, <2>4, <2>5 DEF OwnerTypes
<1>6. CASE RetryDeferred
  <2> DEFINE h == Head(deferred)
  <2>1. /\ ingress = "sweep" /\ deferred # <<>> /\ deferred' = Tail(deferred)
        /\ UNCHANGED <<reqHeld, reply, ingress, serving>>
    BY <1>6 DEF RetryDeferred
  <2>2. /\ deferred' \in Seq(Requests) /\ h \in Requests /\ h \in Deferred
        /\ Deferred' = Deferred \ {h} /\ DeferredOnce'
    BY <2>1, DeferredShrinks DEF Roads
  <2> HIDE DEF h
  <2>3. Landing' = Landing BY <2>1 DEF Landing
  <2>4. Phases' BY <2>1 DEF Phases
  <2>5. CASE working' = working \cup {h} /\ replies' = replies
    <3>1. UNCHANGED <<Replied, RepliedOnce>> BY <2>5 DEF Replied, RepliedOnce
    <3>2. Roads' BY <2>1, <2>2, <2>3, <2>5, <3>1 DEF Roads
    <3> QED BY <2>1, <2>2, <2>4, <2>5, <3>2 DEF OwnerTypes
  <2>6. CASE replies' = Append(replies, Answer(h, FALSE)) /\ working' = working
    <3>1. Answer(h, FALSE) \in Answers /\ Answer(h, FALSE).req = h BY <2>2 DEF Answer, Answers
    <3>2. /\ replies' \in Seq(Answers) /\ Replied' = Replied \cup {h}
          /\ h \notin Replied /\ RepliedOnce => RepliedOnce'
      BY <2>6, <3>1, RepliesGrow
    <3>3. Roads' BY <2>1, <2>2, <2>3, <2>6, <3>2 DEF Roads
    <3> QED BY <2>1, <2>2, <2>4, <2>6, <3>2, <3>3 DEF OwnerTypes
  <2> QED BY <1>6, <2>5, <2>6 DEF RetryDeferred, h
<1>7. ASSUME NEW r \in Requests, WorkSettles(r) PROVE OwnerTypes' /\ Phases' /\ Roads'
  <2>1. PICK ok \in BOOLEAN : replies' = Append(replies, Answer(r, ok))
    BY <1>7 DEF WorkSettles
  <2>2. Answer(r, ok) \in Answers /\ Answer(r, ok).req = r BY DEF Answer, Answers
  <2>3. /\ replies' \in Seq(Answers) /\ Replied' = Replied \cup {r}
        /\ r \notin Replied /\ RepliedOnce => RepliedOnce'
    BY <2>1, <2>2, RepliesGrow
  <2>4. /\ r \in working /\ working' = working \ {r}
        /\ UNCHANGED <<reqHeld, deferred, reply, ingress, serving>>
    BY <1>7 DEF WorkSettles
  <2>5. UNCHANGED <<Deferred, Landing, DeferredOnce>>
    BY <2>4 DEF Deferred, Landing, DeferredOnce
  <2>6. Phases' BY <2>4 DEF Phases
  <2>7. Roads' BY <2>3, <2>4, <2>5 DEF Roads
  <2> QED BY <2>3, <2>4, <2>6, <2>7 DEF OwnerTypes
<1>8. CASE PopReply
  <2> DEFINE h == Head(replies)
  <2>1. /\ ingress = "sweep" /\ ingress' = "claim" /\ replies # <<>> /\ replies' = Tail(replies)
        /\ reply' = <<h>> /\ reply = <<>> /\ UNCHANGED <<reqHeld, working, deferred, serving>>
    BY <1>8 DEF PopReply, Phases
  <2>2. /\ replies' \in Seq(Answers) /\ h \in Answers /\ h.req \in Replied
        /\ Replied' = Replied \ {h.req} /\ RepliedOnce'
    BY <2>1, RepliesShrink DEF Roads
  <2> HIDE DEF h
  <2>3. UNCHANGED <<Deferred, DeferredOnce>> BY <2>1 DEF Deferred, DeferredOnce
  <2>4. Landing' = {h.req} /\ Landing = {} BY <2>1 DEF Landing
  <2>5. Phases' BY <2>1, <2>2 DEF Phases
  <2>6. Roads' BY <2>1, <2>2, <2>3, <2>4 DEF Roads
  <2> QED BY <2>1, <2>2, <2>5, <2>6 DEF OwnerTypes
<1>9. CASE ReplyClaims \/ ReplyDropped \/ ReplyPublishes
  <2>1. /\ ingress \in {"claim", "encode"} /\ ingress' \in {"encode", "release"}
        /\ UNCHANGED <<reqHeld, working, deferred, replies, reply, serving>>
    BY <1>9 DEF ReplyClaims, ReplyDropped, ReplyPublishes
  <2>2. UNCHANGED <<Deferred, Replied, Landing, DeferredOnce, RepliedOnce>>
    BY <2>1 DEF Deferred, Replied, Landing, DeferredOnce, RepliedOnce
  <2>3. Phases' BY <2>1 DEF Phases
  <2>4. Roads' BY <2>1, <2>2 DEF Roads
  <2> QED BY <2>1, <2>3, <2>4 DEF OwnerTypes
<1>10. CASE ReplyWaits
  <2>1. PICK a \in Answers : reply = <<a>> BY <1>10 DEF Phases, ReplyWaits
  <2>2. /\ ingress = "claim" /\ ingress' = "sweep" /\ reply' = <<>>
        /\ replies' = Append(replies, a) /\ UNCHANGED <<reqHeld, working, deferred, serving>>
    BY <1>10, <2>1 DEF ReplyWaits
  <2>3. /\ replies' \in Seq(Answers) /\ Replied' = Replied \cup {a.req}
        /\ a.req \notin Replied /\ RepliedOnce => RepliedOnce'
    BY <2>2, RepliesGrow
  <2>4. UNCHANGED <<Deferred, DeferredOnce>> BY <2>2 DEF Deferred, DeferredOnce
  <2>5. Landing = {a.req} /\ Landing' = {} BY <2>1, <2>2 DEF Landing
  <2>6. Phases' BY <2>2 DEF Phases
  <2>7. Roads' BY <2>2, <2>3, <2>4, <2>5 DEF Roads
  <2> QED BY <2>2, <2>3, <2>6, <2>7 DEF OwnerTypes
<1>11. CASE ReleaseSlot
  <2>1. PICK a \in Answers : reply = <<a>> BY <1>11 DEF Phases, ReleaseSlot
  <2>2. /\ ingress = "release" /\ ingress' = "sweep" /\ reply' = <<>>
        /\ reqHeld' = reqHeld \ {a.req} /\ UNCHANGED <<working, deferred, replies, serving>>
    BY <1>11, <2>1 DEF ReleaseSlot, Req!Finish
  <2>3. UNCHANGED <<Deferred, Replied, DeferredOnce, RepliedOnce>>
    BY <2>2 DEF Deferred, Replied, DeferredOnce, RepliedOnce
  <2>4. Landing = {a.req} /\ Landing' = {} BY <2>1, <2>2 DEF Landing
  <2>5. Phases' BY <2>2 DEF Phases
  <2>6. Roads' BY <2>2, <2>3, <2>4 DEF Roads
  <2> QED BY <2>2, <2>5, <2>6 DEF OwnerTypes
<1>12. CASE IngressEnds
  <2>1. /\ ingress = "sweep" /\ ingress' = "ended" /\ replies' = <<>> /\ deferred' = <<>>
        /\ UNCHANGED <<working, reply, serving>>
    BY <1>12 DEF IngressEnds
  <2> QED BY <2>1 DEF OwnerTypes, Phases, Roads
<1> QED
  BY <1>1, <1>2, <1>3, <1>4, <1>5, <1>6, <1>7, <1>8, <1>9, <1>10, <1>11, <1>12
  DEF Next, Enqueue, Claim, ClaimRefused, Abandon, Expect, Watch, Publish, Count, Read,
      ReadResult, ReleaseResult, LosePeer, FindPeer, Expire, ReaderEnds, StopSubmitter,
      CloseOpened, CloseOwned, Sweep, Dies, Req!Reserve, Req!GiveBack, Req!Send

-----------------------------------------------------------------------------
(* The submitter's books: _pending, the futures and _in_flight.            *)

Counted == {r \in Requests : place[r] = "remote" /\ ~Settled(r)}
Early == {r \in Requests : place[r] \in {"watched", "published"} /\ Settled(r)}

\* What ResultReader resolves leaves _pending and the load together.
LEMMA SettleKeeps ==
    ASSUME SubmitterTypes, Known, InFlightBalanced, UNCHANGED place,
           NEW rs \in SUBSET pending, NEW how \in Outcomes, Settle(rs, how)
    PROVE  /\ future' \in [Requests -> Outcomes \cup {"pending"}]
           /\ pending' \subseteq Requests /\ inFlight' \in Int
           /\ \A r \in pending' : ~Settled(r)' /\ place[r] \in Over
           /\ \A r \in Requests : Settled(r)' => place[r] \in Over
           /\ \A r \in Requests : ~Settled(r)' => ~Settled(r) /\ (r \in pending => r \in pending')
           /\ InFlightBalanced'
<1> DEFINE X == {r \in rs : place[r] = "remote"}
           Y == {r \in rs : place[r] \in {"watched", "published"}}
<1>1. /\ pending' = pending \ rs
      /\ future' = [r \in Requests |-> IF r \in rs THEN how ELSE future[r]]
      /\ inFlight' = inFlight - Cardinality(Watched(rs))
  BY DEF Settle
<1>2. rs \subseteq Requests /\ \A r \in rs : ~Settled(r) /\ place[r] \in Over
  BY DEF SubmitterTypes, Known
<1>3. \A r \in Requests : Settled(r)' <=> Settled(r) \/ r \in rs
  BY <1>1 DEF Settled, Outcomes
<1>4. Watched(rs) = X \cup Y /\ X \cap Y = {} BY <1>2 DEF Watched
<1>5. Counted' = Counted \ X /\ Counted \cap X = X BY <1>2, <1>3 DEF Counted
<1>6. Early' = Early \cup Y /\ Early \cap Y = {} BY <1>2, <1>3 DEF Early
<1>7. /\ IsFiniteSet(X) /\ IsFiniteSet(Y) /\ IsFiniteSet(Counted) /\ IsFiniteSet(Early)
      /\ Cardinality(X) \in Nat /\ Cardinality(Y) \in Nat
      /\ Cardinality(Counted) \in Nat /\ Cardinality(Early) \in Nat
  <2>1. X \subseteq Requests /\ Y \subseteq Requests BY <1>2
  <2>2. Counted \subseteq Requests /\ Early \subseteq Requests BY DEF Counted, Early
  <2> QED BY <2>1, <2>2, Finite
<1> HIDE DEF X, Y
<1>8. Cardinality(Counted') = Cardinality(Counted) - Cardinality(X)
  <2>1. Cardinality(Counted \ X) = Cardinality(Counted) - Cardinality(Counted \cap X)
    BY <1>7, FS_Difference
  <2> QED BY <1>5, <2>1
<1>9. Cardinality(Early') = Cardinality(Early) + Cardinality(Y)
  <2>1. Cardinality(Early \cup Y)
          = Cardinality(Early) + Cardinality(Y) - Cardinality(Early \cap Y)
    BY <1>7, FS_Union
  <2>2. Cardinality(Early \cap Y) = 0 BY <1>6, FS_EmptySet
  <2>3. Cardinality(Early \cup Y) = Cardinality(Early) + Cardinality(Y) BY <1>7, <2>1, <2>2
  <2> QED BY <1>6, <2>3
<1>10. Cardinality(X \cup Y) = Cardinality(X) + Cardinality(Y)
  <2>1. Cardinality(X \cup Y) = Cardinality(X) + Cardinality(Y) - Cardinality(X \cap Y)
    BY <1>7, FS_Union
  <2> QED BY <1>4, <1>7, <2>1, FS_EmptySet
<1>11. inFlight = Cardinality(Counted) - Cardinality(Early) /\ inFlight \in Int
  BY DEF InFlightBalanced, Counted, Early, SubmitterTypes
<1>12. inFlight' = Cardinality(Counted') - Cardinality(Early') /\ inFlight' \in Int
  BY <1>1, <1>4, <1>7, <1>8, <1>9, <1>10, <1>11
<1>13. InFlightBalanced' BY <1>12 DEF InFlightBalanced, Counted, Early
<1>14. future' \in [Requests -> Outcomes \cup {"pending"}] BY <1>1 DEF SubmitterTypes
<1>15. pending' \subseteq Requests BY <1>1 DEF SubmitterTypes
<1>16. \A r \in pending' : ~Settled(r)' /\ place[r] \in Over
  BY <1>1, <1>3 DEF Known, SubmitterTypes
<1>17. \A r \in Requests : Settled(r)' => place[r] \in Over BY <1>2, <1>3 DEF Known
<1>18. \A r \in Requests : ~Settled(r)' => ~Settled(r) /\ (r \in pending => r \in pending')
  BY <1>1, <1>3
<1> QED BY <1>12, <1>13, <1>14, <1>15, <1>16, <1>17, <1>18

LEMMA SubmitterStep ==
    ASSUME IInv, Next
    PROVE  SubmitterTypes' /\ Known' /\ InFlightBalanced'
<1> USE DEF IInv
<1>1. CASE UNCHANGED <<place, future, pending, inFlight, lost, reader, stopping, gone, dead>>
  BY <1>1 DEF SubmitterTypes, Known, InFlightBalanced, Settled, Custody
\* Steps of one request that none of the books is about.
<1>2. ASSUME NEW r \in Requests, NEW to \in {"claimed", "spilled"},
             place[r] \in {"caller", "claimed"}, Goes(r, to),
             UNCHANGED <<future, pending, inFlight, lost, reader, stopping, gone, dead>>
      PROVE  SubmitterTypes' /\ Known' /\ InFlightBalanced'
  <2>1. /\ \A q \in Requests : q # r => place'[q] = place[q]
        /\ place'[r] = to /\ place[r] \notin Over /\ to \notin Over
    BY <1>2 DEF SubmitterTypes, Over
  <2>2. ~Settled(r) BY <2>1 DEF Known
  <2>3. SubmitterTypes' BY <1>2 DEF SubmitterTypes
  <2>4. Counted' = Counted /\ Early' = Early BY <1>2, <2>1, <2>2 DEF Counted, Early, Settled, Over
  <2>5. InFlightBalanced' BY <1>2, <2>4 DEF InFlightBalanced, Counted, Early
  <2>6. Known' BY <1>2, <2>1 DEF Known, Settled, Custody, Over, SubmitterTypes
  <2> QED BY <2>3, <2>5, <2>6
<1>3. ASSUME NEW r \in Requests, Expect(r) PROVE SubmitterTypes' /\ Known' /\ InFlightBalanced'
  <2>1. /\ \A q \in Requests : q # r => place'[q] = place[q]
        /\ place[r] = "claimed" /\ place'[r] = "expected" /\ pending' = pending \cup {r}
        /\ UNCHANGED <<future, inFlight, lost, reader, stopping, gone, dead>>
    BY <1>3 DEF SubmitterTypes, Expect
  <2>2. ~Settled(r) BY <2>1 DEF Known, Over
  <2>3. SubmitterTypes' BY <1>3, <2>1 DEF SubmitterTypes, Expect, Over
  <2>4. Counted' = Counted /\ Early' = Early BY <2>1, <2>2 DEF Counted, Early, Settled
  <2>5. InFlightBalanced' BY <2>1, <2>4 DEF InFlightBalanced, Counted, Early
  <2>6. Known' BY <2>1, <2>2 DEF Known, Settled, Custody, Over, SubmitterTypes
  <2> QED BY <2>3, <2>5, <2>6
<1>4. ASSUME NEW r \in Requests, Watch(r) PROVE SubmitterTypes' /\ Known' /\ InFlightBalanced'
  <2>1. /\ \A q \in Requests : q # r => place'[q] = place[q]
        /\ place[r] = "expected" /\ place'[r] = "watched"
        /\ inFlight' = IF Settled(r) THEN inFlight - 1 ELSE inFlight
        /\ UNCHANGED <<future, pending, lost, reader, stopping, gone, dead>>
    BY <1>4 DEF SubmitterTypes, Watch
  <2>2. SubmitterTypes' BY <1>4, <2>1 DEF SubmitterTypes, Watch, Over
  <2>3. Known' BY <2>1 DEF Known, Settled, Custody, Over, SubmitterTypes
  <2>4. Counted' = Counted BY <2>1 DEF Counted, Settled
  <2>5. Early' = IF Settled(r) THEN Early \cup {r} ELSE Early BY <2>1 DEF Early, Settled
  <2>6. r \notin Early BY <2>1 DEF Early
  <2>7. /\ IsFiniteSet(Early) /\ Cardinality(Early) \in Nat
        /\ IsFiniteSet(Counted) /\ Cardinality(Counted) \in Nat
    BY Finite DEF Early, Counted
  <2>8. Cardinality(Early \cup {r}) = Cardinality(Early) + 1 BY <2>6, <2>7, FS_AddElement
  <2>9. inFlight = Cardinality(Counted) - Cardinality(Early)
    BY DEF InFlightBalanced, Counted, Early
  <2>10. inFlight' = Cardinality(Counted') - Cardinality(Early')
    BY <2>1, <2>4, <2>5, <2>7, <2>8, <2>9
  <2>11. InFlightBalanced' BY <2>10 DEF InFlightBalanced, Counted, Early
  <2> QED BY <2>2, <2>3, <2>11
<1>5. ASSUME NEW r \in Requests, Publish(r) PROVE SubmitterTypes' /\ Known' /\ InFlightBalanced'
  <2>1. /\ \A q \in Requests : q # r => place'[q] = place[q]
        /\ place[r] = "watched" /\ place'[r] = "published"
        /\ UNCHANGED <<future, pending, inFlight, lost, reader, stopping, gone, dead>>
    BY <1>5 DEF SubmitterTypes, Publish
  <2>2. SubmitterTypes' BY <1>5, <2>1 DEF SubmitterTypes, Publish, Over
  <2>3. Known' BY <2>1 DEF Known, Settled, Custody, Over, SubmitterTypes
  <2>4. Counted' = Counted /\ Early' = Early BY <2>1 DEF Counted, Early, Settled
  <2>5. InFlightBalanced' BY <2>1, <2>4 DEF InFlightBalanced, Counted, Early
  <2> QED BY <2>2, <2>3, <2>5
<1>6. ASSUME NEW r \in Requests, Count(r) PROVE SubmitterTypes' /\ Known' /\ InFlightBalanced'
  <2>1. /\ \A q \in Requests : q # r => place'[q] = place[q]
        /\ place[r] = "published" /\ place'[r] = "remote" /\ inFlight' = inFlight + 1
        /\ UNCHANGED <<future, pending, lost, reader, stopping, gone, dead>>
    BY <1>6 DEF SubmitterTypes, Count
  <2>2. SubmitterTypes' BY <1>6, <2>1 DEF SubmitterTypes, Count, Over
  <2>3. Known' BY <2>1 DEF Known, Settled, Custody, Over, SubmitterTypes
  <2>4. /\ IsFiniteSet(Early) /\ Cardinality(Early) \in Nat
        /\ IsFiniteSet(Counted) /\ Cardinality(Counted) \in Nat
    BY Finite DEF Early, Counted
  <2>5. inFlight = Cardinality(Counted) - Cardinality(Early)
    BY DEF InFlightBalanced, Counted, Early
  <2>6. CASE Settled(r)
    <3>1. Counted' = Counted /\ Early' = Early \ {r} /\ r \in Early
      BY <2>1, <2>6 DEF Counted, Early, Settled
    <3>2. Cardinality(Early \ {r}) = Cardinality(Early) - 1 BY <2>4, <3>1, FS_RemoveElement
    <3>3. inFlight' = Cardinality(Counted') - Cardinality(Early')
      BY <2>1, <2>4, <2>5, <3>1, <3>2
    <3> QED BY <2>2, <2>3, <3>3 DEF InFlightBalanced, Counted, Early
  <2>7. CASE ~Settled(r)
    <3>1. Counted' = Counted \cup {r} /\ r \notin Counted /\ Early' = Early
      BY <2>1, <2>7 DEF Counted, Early, Settled
    <3>2. Cardinality(Counted \cup {r}) = Cardinality(Counted) + 1
      BY <2>4, <3>1, FS_AddElement
    <3>3. inFlight' = Cardinality(Counted') - Cardinality(Early')
      BY <2>1, <2>4, <2>5, <3>1, <3>2
    <3> QED BY <2>2, <2>3, <3>3 DEF InFlightBalanced, Counted, Early
  <2> QED BY <2>6, <2>7
\* The reader's passes.
<1>7. ASSUME NEW rs \in SUBSET pending, NEW how \in Outcomes, Settle(rs, how),
             lost' \in BOOLEAN, reader' \in {"run", "ended"}, reader = "run",
             reader' = "ended" => stopping, UNCHANGED <<place, stopping, gone, dead>>
      PROVE  SubmitterTypes' /\ Known' /\ InFlightBalanced'
  <2>1. /\ future' \in [Requests -> Outcomes \cup {"pending"}]
        /\ pending' \subseteq Requests /\ inFlight' \in Int
        /\ \A r \in pending' : ~Settled(r)' /\ place[r] \in Over
        /\ \A r \in Requests : Settled(r)' => place[r] \in Over
        /\ \A r \in Requests : ~Settled(r)' => ~Settled(r) /\ (r \in pending => r \in pending')
        /\ InFlightBalanced'
    BY <1>7, SettleKeeps
  <2>2. SubmitterTypes' BY <1>7, <2>1 DEF SubmitterTypes
  <2>3. Custody' BY <1>7, <2>1 DEF Known, Custody
  <2>4. Known' BY <1>7, <2>1, <2>3 DEF Known
  <2> QED BY <2>1, <2>2, <2>4
<1>8. ASSUME NEW r \in Requests, ReadResult(r)
      PROVE  SubmitterTypes' /\ Known' /\ InFlightBalanced'
  <2>1. PICK rs \in SUBSET pending : Settle(rs, "answered") BY <1>8 DEF ReadResult
  <2> QED BY <1>7, <1>8, <2>1 DEF ReadResult, Reading, Outcomes, SubmitterTypes
<1>9. ASSUME NEW r \in Requests, Expire(r)
      PROVE  SubmitterTypes' /\ Known' /\ InFlightBalanced'
  <2>1. PICK rs \in SUBSET pending : Settle(rs, "expired") BY <1>9 DEF Expire
  <2> QED BY <1>7, <1>9, <2>1 DEF Expire, Reading, Outcomes, SubmitterTypes
<1>10. CASE LosePeer
  <2>1. PICK rs \in SUBSET pending : Settle(rs, "lost") BY <1>10 DEF LosePeer
  <2> QED BY <1>7, <1>10, <2>1 DEF LosePeer, Reading, Outcomes
<1>11. CASE ReaderEnds
  <2>1. PICK rs \in SUBSET pending : Settle(rs, "stopped") BY <1>11 DEF ReaderEnds
  <2> QED BY <1>7, <1>11, <2>1 DEF ReaderEnds, Reading, Outcomes, SubmitterTypes
<1>12. CASE /\ UNCHANGED <<place, future, pending, inFlight, reader>>
            /\ lost' \in BOOLEAN /\ stopping' \in BOOLEAN /\ gone' \in BOOLEAN
            /\ (stopping => stopping') /\ dead' \subseteq Sides
  <2>1. SubmitterTypes' BY <1>12 DEF SubmitterTypes
  <2>2. Known' BY <1>12 DEF Known, Settled, Custody
  <2>3. InFlightBalanced' BY <1>12 DEF InFlightBalanced, Settled
  <2> QED BY <2>1, <2>2, <2>3
<1>13. ASSUME NEW r \in Requests, Claim(r) \/ ClaimRefused(r) \/ Abandon(r)
       PROVE  SubmitterTypes' /\ Known' /\ InFlightBalanced'
  BY <1>2, <1>13 DEF Claim, ClaimRefused, Abandon
<1>14. CASE StopSubmitter \/ CloseOpened \/ FindPeer \/ \E side \in Sides : Dies(side)
  <2>1. UNCHANGED <<place, future, pending, inFlight, reader>>
    BY <1>14 DEF StopSubmitter, CloseOpened, FindPeer, Dies
  <2>2. lost' \in BOOLEAN BY <1>14 DEF StopSubmitter, CloseOpened, FindPeer, Dies, SubmitterTypes
  <2>3. (stopping' = TRUE \/ stopping' = stopping) /\ (gone' = TRUE \/ gone' = gone)
    BY <1>14 DEF StopSubmitter, CloseOpened, FindPeer, Dies
  <2>4. stopping' \in BOOLEAN BY <2>3 DEF SubmitterTypes
  <2>5. gone' \in BOOLEAN BY <2>3 DEF SubmitterTypes
  <2>6. stopping => stopping' BY <2>3
  <2>7. dead' \subseteq Sides
    BY <1>14 DEF StopSubmitter, CloseOpened, FindPeer, Dies, SubmitterTypes
  <2> QED BY <1>12, <2>1, <2>2, <2>4, <2>5, <2>6, <2>7
\* Steps of the owner, and those of the reader that concern its ring alone.
<1>15. CASE \/ Sweep \/ IngressEnds \/ CloseOwned
            \/ \E r \in Requests : WorkSettles(r) \/ ReleaseResult(r)
  <2>1. UNCHANGED <<place, future, pending, inFlight, lost, reader, stopping, gone, dead>>
    BY <1>15
    DEF WorkSettles, ReleaseResult, CloseOwned, Sweep, TakeRequest, ServeAnswers,
        ServeDispatches, ServeDefers, RetryDeferred, PopReply, ReplyClaims, ReplyWaits,
        ReplyDropped, ReplyPublishes, ReleaseSlot, IngressEnds
  <2> QED BY <1>1, <2>1
<1>16. CASE \E r \in Requests : Enqueue(r)
  BY <1>3, <1>4, <1>5, <1>6, <1>13, <1>16 DEF Enqueue
<1>17. CASE Read
  BY <1>8, <1>9, <1>10, <1>11, <1>14, <1>15, <1>17 DEF Read
<1> QED BY <1>14, <1>15, <1>16, <1>17 DEF Next

-----------------------------------------------------------------------------
\* The inductive invariant: whose each slot is, what the reader knows of each
\* request, and what the load counts.
THEOREM Inductive == Spec => []IInv
<1>1. IInv /\ [Next]_vars => IInv'
  <2> SUFFICES ASSUME IInv, [Next]_vars PROVE IInv' OBVIOUS
  <2>1. CASE Next BY <2>1, RingsStep, OwnerStep, SubmitterStep DEF IInv
  <2>2. CASE UNCHANGED vars
    <3> USE <2>2 DEF vars
    <3>1. UNCHANGED <<Deferred, Replied, Landing, DeferredOnce, RepliedOnce>>
      BY DEF Deferred, Replied, Landing, DeferredOnce, RepliedOnce
    <3>2. OwnerTypes' /\ Phases' /\ Roads' BY <3>1 DEF IInv, OwnerTypes, Phases, Roads
    <3>3. RequestRing' /\ ResultRing' BY DEF IInv, RequestRing, ResultRing
    <3>4. SubmitterTypes' BY DEF IInv, SubmitterTypes
    <3>5. Known' /\ InFlightBalanced' BY DEF IInv, Known, Custody, Settled, InFlightBalanced
    <3> QED BY <3>2, <3>3, <3>4, <3>5 DEF IInv
  <2> QED BY <2>1, <2>2
<1> QED BY <1>1, Base, PTL DEF Spec

\* Each occurrence of a request in a list without repetitions counts once.
LEMMA CountListed ==
    ASSUME IInv, ingress # "ended", NEW r \in Requests
    PROVE  /\ Cardinality(Replying(r)) = IF r \in Replied THEN 1 ELSE 0
           /\ Cardinality(Deferring(r)) = IF r \in Deferred THEN 1 ELSE 0
           /\ Cardinality({n \in DOMAIN reply : reply[n].req = r}) = IF r \in Landing THEN 1 ELSE 0
<1>1. /\ DOMAIN replies = 1 .. Len(replies) /\ DOMAIN deferred = 1 .. Len(deferred)
      /\ RepliedOnce /\ DeferredOnce
  BY DEF IInv, OwnerTypes, Roads
<1>2. Cardinality(Replying(r)) = IF r \in Replied THEN 1 ELSE 0
  <2>1. CASE r \in Replied
    <3>1. PICK k \in 1 .. Len(replies) : replies[k].req = r BY <2>1 DEF Replied
    <3>2. Replying(r) = {k} BY <1>1, <3>1 DEF Replying, RepliedOnce
    <3> QED BY <2>1, <3>2, FS_Singleton
  <2>2. CASE r \notin Replied
    <3>1. Replying(r) = {} BY <1>1, <2>2 DEF Replying, Replied
    <3> QED BY <2>2, <3>1, FS_EmptySet
  <2> QED BY <2>1, <2>2
<1>3. Cardinality(Deferring(r)) = IF r \in Deferred THEN 1 ELSE 0
  <2>1. CASE r \in Deferred
    <3>1. PICK k \in 1 .. Len(deferred) : deferred[k] = r BY <2>1 DEF Deferred
    <3>2. Deferring(r) = {k} BY <1>1, <3>1 DEF Deferring, DeferredOnce
    <3> QED BY <2>1, <3>2, FS_Singleton
  <2>2. CASE r \notin Deferred
    <3>1. Deferring(r) = {} BY <1>1, <2>2 DEF Deferring, Deferred
    <3> QED BY <2>2, <3>1, FS_EmptySet
  <2> QED BY <2>1, <2>2
<1>4. Cardinality({n \in DOMAIN reply : reply[n].req = r}) = IF r \in Landing THEN 1 ELSE 0
  <2> DEFINE E == {n \in DOMAIN reply : reply[n].req = r}
  <2>1. CASE reply = <<>>
    <3>1. E = {} /\ Landing = {} BY <2>1 DEF Landing
    <3> QED BY <3>1, FS_EmptySet
  <2>2. ASSUME NEW a \in Answers, reply = <<a>>
        PROVE  Cardinality(E) = IF r \in Landing THEN 1 ELSE 0
    <3>1. DOMAIN reply = {1} /\ Landing = {a.req} /\ reply[1] = a BY <2>2 DEF Landing
    <3>2. CASE a.req = r
      <4>1. E = {1} BY <3>1, <3>2
      <4> QED BY <3>1, <3>2, <4>1, FS_Singleton
    <3>3. CASE a.req # r
      <4>1. E = {} BY <3>1, <3>3
      <4> QED BY <3>1, <3>3, <4>1, FS_EmptySet
    <3> QED BY <3>2, <3>3
  <2> QED BY <2>1, <2>2 DEF IInv, Phases
<1> QED BY <1>2, <1>3, <1>4

\* RingIngress gives every slot it took one way back, ResultReader knows of every
\* unresolved request that went over, and the proxy's load is exact.
THEOREM SlotsAndRequestsInGoodHands == Spec => []InGoodHands
<1>1. ASSUME IInv PROVE InGoodHands
  <2> USE <1>1 DEF IInv
  <2>1. SpillTypeOK
    <3>1. Req!Load <= Room BY SameCount DEF RequestRing, RingSound, Req!Load
    <3>2. Res!Load <= Room BY SameCount DEF ResultRing, RingSound, Res!Load
    <3>3. /\ place \in [Requests -> {"caller", "claimed", "expected", "watched", "published",
                                     "remote", "spilled"}]
          /\ future \in [Requests -> {"pending", "answered", "lost", "expired", "stopped"}]
      BY DEF SubmitterTypes, Over, Outcomes
    <3> QED BY <3>1, <3>2, <3>3 DEF SpillTypeOK, SubmitterTypes, OwnerTypes, Answers
  <2>2. OneWayBack
    <3> SUFFICES ASSUME ingress # "ended", NEW r \in Requests
                 PROVE  Cardinality(serving \cap {r}) + Cardinality(working \cap {r})
                          + Cardinality(Replying(r)) + Cardinality(Deferring(r))
                          + Cardinality({n \in DOMAIN reply : reply[n].req = r})
                        = IF r \in reqHeld THEN 1 ELSE 0
      BY DEF OneWayBack
    <3>1. /\ Cardinality(serving \cap {r}) = IF r \in serving THEN 1 ELSE 0
          /\ Cardinality(working \cap {r}) = IF r \in working THEN 1 ELSE 0
      BY CountIn
    <3>2. /\ Cardinality(Replying(r)) = IF r \in Replied THEN 1 ELSE 0
          /\ Cardinality(Deferring(r)) = IF r \in Deferred THEN 1 ELSE 0
          /\ Cardinality({n \in DOMAIN reply : reply[n].req = r})
                = IF r \in Landing THEN 1 ELSE 0
      BY CountListed
    <3> QED BY <3>1, <3>2 DEF Roads
  <2> QED BY <2>1, <2>2 DEF InGoodHands, Known
<1> QED BY <1>1, Inductive, PTL
=============================================================================
