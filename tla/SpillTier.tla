----------------------------- MODULE SpillTier ------------------------------
(***************************************************************************)
(* The service tier between two shards (engine/spill/remote_instance.py,   *)
(* mesh.py): request threads of the submitting process write into the      *)
(* owner's request ring, the owner's ingress thread serves them through    *)
(* its own model and writes into the submitter's result ring, and the      *)
(* submitter's reader thread resolves the futures, or fails them when the  *)
(* owner is lost, a reply never comes, or the shard stops.                 *)
(*                                                                         *)
(* One peer and one model.  Both rings keep RingContract.  The owner's     *)
(* model is reduced to a queue that may refuse, and work that settles.     *)
(***************************************************************************)
EXTENDS Integers, Sequences, FiniteSets

CONSTANTS
    Requests,
    Room,           \* slots_per_pair: room of each ring
    Environment     \* what may happen around the tier, by name

ASSUME SpillAssumption ==
    /\ IsFiniteSet(Requests) /\ Room \in Nat \ {0}
    /\ Environment \subseteq {"ownerDies", "submitterDies", "hiccup", "stopOwner", "stopSubmitter"}

VARIABLES
    reqReserved, reqSent, reqReady, reqHeld, reqShut,   \* the request ring
    resReserved, resSent, resReady, resHeld, resShut,   \* the result ring
    place,      \* [Requests -> how far enqueue() has come]
    future,     \* [Requests -> "pending" or how it was resolved]
    pending,    \* SUBSET Requests: the reader's _pending
    inFlight,   \* _in_flight of the proxy
    lost,       \* the owner is in the reader's _lost
    reader,     \* "run" or "ended"
    stopping,   \* mesh.stop() has begun at the submitter
    gone,       \* the submitter's handle of the request ring is detached
    working,    \* SUBSET Requests: in the owner's model
    deferred,   \* Seq(Requests): _deferred
    replies,    \* Seq([req, ok]): _replies
    reply,      \* the reply the ingress is landing
    ingress,    \* "sweep", "serve", "claim", "encode", "release", "ended"
    serving,    \* the request in _serve()
    dead        \* SUBSET Sides: processes that have died

Sides == {"submitter", "owner"}

reqVars == <<reqReserved, reqSent, reqReady, reqHeld, reqShut>>
resVars == <<resReserved, resSent, resReady, resHeld, resShut>>
submitVars == <<place, future, pending, inFlight, lost, reader, stopping, gone>>
ownerVars == <<working, deferred, replies, reply, ingress, serving>>
vars == <<reqVars, resVars, submitVars, ownerVars, dead>>

Req == INSTANCE RingContract WITH
    Messages <- Requests, reserved <- reqReserved, sent <- reqSent, ready <- reqReady,
    held <- reqHeld, shut <- reqShut

Res == INSTANCE RingContract WITH
    Messages <- Requests, reserved <- resReserved, sent <- resSent, ready <- resReady,
    held <- resHeld, shut <- resShut

Alive(side) == side \notin dead

Nobody == {}

Init ==
    /\ Req!ContractInit /\ Res!ContractInit
    /\ place = [r \in Requests |-> "caller"]
    /\ future = [r \in Requests |-> "pending"]
    /\ pending = {} /\ inFlight = 0 /\ lost = FALSE
    /\ reader = "run" /\ stopping = FALSE /\ gone = FALSE
    /\ working = {} /\ deferred = <<>> /\ replies = <<>> /\ reply = <<>>
    /\ ingress = "sweep" /\ serving = Nobody /\ dead = {}

-----------------------------------------------------------------------------
(* RemoteInstance.enqueue(), on the request's own thread.                  *)

Goes(r, to) == place' = [place EXCEPT ![r] = to]

Claim(r) ==
    /\ place[r] = "caller" /\ ~reqShut /\ ~gone
    /\ Req!Reserve
    /\ Goes(r, "claimed")
    /\ UNCHANGED <<resVars, future, pending, inFlight, lost, reader, stopping, gone, ownerVars,
                   dead>>

\* RingFullError or RingClosedError: the dispatcher tries the next candidate.
ClaimRefused(r) ==
    /\ place[r] = "caller"
    /\ reqShut \/ gone \/ Req!Load >= Room
    /\ Goes(r, "spilled")
    /\ UNCHANGED <<reqVars, resVars, future, pending, inFlight, lost, reader, stopping, gone,
                   ownerVars, dead>>

\* The wire cannot carry it, or the handle closed: abandon() and refuse.
Abandon(r) ==
    /\ place[r] = "claimed"
    /\ IF gone THEN UNCHANGED reqVars ELSE Req!GiveBack
    /\ Goes(r, "spilled")
    /\ UNCHANGED <<resVars, future, pending, inFlight, lost, reader, stopping, gone, ownerVars,
                   dead>>

\* Fault: registered after the publish.
ExpectNothing(r) ==
    /\ place[r] = "claimed" /\ ~gone
    /\ Goes(r, "expected")
    /\ UNCHANGED <<reqVars, resVars, future, pending, inFlight, lost, reader, stopping, gone,
                   ownerVars, dead>>

Expect(r) ==
    /\ place[r] = "claimed" /\ ~gone
    /\ pending' = pending \cup {r}
    /\ Goes(r, "expected")
    /\ UNCHANGED <<reqVars, resVars, future, inFlight, lost, reader, stopping, gone, ownerVars,
                   dead>>

Settled(r) == future[r] # "pending"

\* add_done_callback(_settled): called at once on a future that is done.
Watch(r) ==
    /\ place[r] = "expected"
    /\ inFlight' = IF Settled(r) THEN inFlight - 1 ELSE inFlight
    /\ Goes(r, "watched")
    /\ UNCHANGED <<reqVars, resVars, future, pending, lost, reader, stopping, gone, ownerVars,
                   dead>>

\* publish(), without effect on a detached handle.
Publish(r) ==
    /\ place[r] = "watched"
    /\ IF gone THEN UNCHANGED reqVars ELSE Req!Send(r)
    /\ Goes(r, "published")
    /\ UNCHANGED <<resVars, future, pending, inFlight, lost, reader, stopping, gone, ownerVars,
                   dead>>

Count(r) ==
    /\ place[r] = "published"
    /\ inFlight' = inFlight + 1
    /\ Goes(r, "remote")
    /\ UNCHANGED <<reqVars, resVars, future, pending, lost, reader, stopping, gone, ownerVars,
                   dead>>

Enqueue(r) ==
    /\ Alive("submitter")
    /\ \/ Claim(r) \/ ClaimRefused(r) \/ Abandon(r)
       \/ Expect(r) \/ Watch(r) \/ Publish(r) \/ Count(r)

-----------------------------------------------------------------------------
(* ResultReader.                                                           *)

Reading == reader = "run" /\ Alive("submitter")

Watched(rs) == {r \in rs : place[r] \in {"watched", "published", "remote"}}

\* The entries leave _pending under the lock, and their futures are resolved.
Settle(rs, how) ==
    /\ pending' = pending \ rs
    /\ future' = [r \in Requests |-> IF r \in rs THEN how ELSE future[r]]
    /\ inFlight' = inFlight - Cardinality(Watched(rs))

\* _drain_results(): a result nobody waits for any more is dropped.
ReadResult(r) ==
    /\ Reading /\ ~resShut
    /\ Res!Receive(r)
    /\ Settle(pending \cap {r}, "answered")
    /\ UNCHANGED <<reqVars, place, lost, reader, stopping, gone, ownerVars, dead>>

ReleaseResult(r) ==
    /\ Reading
    /\ Res!Finish(r)
    /\ UNCHANGED <<reqVars, submitVars, ownerVars, dead>>

\* _check_heartbeats(): closed, or not stamped for long enough.
LosePeer ==
    /\ Reading /\ ~lost
    /\ reqShut \/ ~Alive("owner") \/ "hiccup" \in Environment
    /\ lost' = TRUE
    /\ Settle(pending, "lost")
    /\ UNCHANGED <<reqVars, resVars, place, reader, stopping, gone, ownerVars, dead>>

FindPeer ==
    /\ Reading /\ lost /\ ~reqShut /\ Alive("owner")
    /\ lost' = FALSE
    /\ UNCHANGED <<reqVars, resVars, place, future, pending, inFlight, reader, stopping, gone,
                   ownerVars, dead>>

\* _expire_pending()
Expire(r) ==
    /\ Reading /\ r \in pending
    /\ Settle({r}, "expired")
    /\ UNCHANGED <<reqVars, resVars, place, lost, reader, stopping, gone, ownerVars, dead>>

\* The loop has seen _stopping: _fail_stranded(), and the thread ends.
ReaderEnds ==
    /\ Reading /\ stopping
    /\ reader' = "ended"
    /\ Settle(pending, "stopped")
    /\ UNCHANGED <<reqVars, resVars, place, lost, stopping, gone, ownerVars, dead>>

Read ==
    \/ \E r \in Requests : ReadResult(r) \/ ReleaseResult(r) \/ Expire(r)
    \/ LosePeer \/ FindPeer \/ ReaderEnds

-----------------------------------------------------------------------------
(* ServiceMesh.stop() at the submitter.                                    *)

StopSubmitter ==
    /\ "stopSubmitter" \in Environment /\ Alive("submitter") /\ ~stopping
    /\ stopping' = TRUE
    /\ UNCHANGED <<reqVars, resVars, place, future, pending, inFlight, lost, reader, gone,
                   ownerVars, dead>>

CloseOpened ==
    /\ Alive("submitter") /\ stopping /\ reader = "ended" /\ ~gone
    /\ gone' = TRUE
    /\ UNCHANGED <<reqVars, resVars, place, future, pending, inFlight, lost, reader, stopping,
                   ownerVars, dead>>

CloseOwned ==
    /\ Alive("submitter") /\ gone
    /\ Res!Close
    /\ UNCHANGED <<reqVars, submitVars, ownerVars, dead>>

-----------------------------------------------------------------------------
(* RingIngress: one thread at the owner.                                   *)

Answer(r, ok) == [req |-> r, ok |-> ok]

TakeRequest(r) ==
    /\ Alive("owner") /\ ingress = "sweep" /\ deferred = <<>>
    /\ Req!Receive(r)
    /\ serving' = {r}
    /\ ingress' = "serve"
    /\ UNCHANGED <<resVars, submitVars, working, deferred, replies, reply, dead>>

\* Decoding, admission or dispatch raised, or a cache hit answered at once.
ServeAnswers(r) ==
    /\ Alive("owner") /\ ingress = "serve" /\ serving = {r}
    /\ \E ok \in BOOLEAN : replies' = Append(replies, Answer(r, ok))
    /\ serving' = Nobody /\ ingress' = "sweep"
    /\ UNCHANGED <<reqVars, resVars, submitVars, working, deferred, reply, dead>>

ServeDispatches(r) ==
    /\ Alive("owner") /\ ingress = "serve" /\ serving = {r}
    /\ working' = working \cup {r}
    /\ serving' = Nobody /\ ingress' = "sweep"
    /\ UNCHANGED <<reqVars, resVars, submitVars, deferred, replies, reply, dead>>

\* Every local queue refused: kept, with its slot.
ServeDefers(r) ==
    /\ Alive("owner") /\ ingress = "serve" /\ serving = {r}
    /\ deferred' = Append(deferred, r)
    /\ serving' = Nobody /\ ingress' = "sweep"
    /\ UNCHANGED <<reqVars, resVars, submitVars, working, replies, reply, dead>>

\* Fault: what was deferred is tried again only when every slot is free.
RetryDeferredIdle ==
    /\ Alive("owner") /\ ingress = "sweep" /\ deferred # <<>> /\ reqHeld = {}
    /\ \/ working' = working \cup {Head(deferred)} /\ UNCHANGED replies
       \/ replies' = Append(replies, Answer(Head(deferred), FALSE)) /\ UNCHANGED working
    /\ deferred' = Tail(deferred)
    /\ UNCHANGED <<reqVars, resVars, submitVars, reply, ingress, serving, dead>>

\* Dispatch-only retry: accepted, or given up at its cap, or refused again.
RetryDeferred ==
    /\ Alive("owner") /\ ingress = "sweep" /\ deferred # <<>>
    /\ \/ working' = working \cup {Head(deferred)} /\ UNCHANGED replies
       \/ replies' = Append(replies, Answer(Head(deferred), FALSE)) /\ UNCHANGED working
    /\ deferred' = Tail(deferred)
    /\ UNCHANGED <<reqVars, resVars, submitVars, reply, ingress, serving, dead>>

\* The done callback, on the model's worker thread.
WorkSettles(r) ==
    /\ Alive("owner") /\ r \in working
    /\ working' = working \ {r}
    /\ \E ok \in BOOLEAN : replies' = Append(replies, Answer(r, ok))
    /\ UNCHANGED <<reqVars, resVars, submitVars, deferred, reply, ingress, serving, dead>>

PopReply ==
    /\ Alive("owner") /\ ingress = "sweep" /\ replies # <<>>
    /\ reply' = <<Head(replies)>>
    /\ replies' = Tail(replies)
    /\ ingress' = "claim"
    /\ UNCHANGED <<reqVars, resVars, submitVars, working, deferred, serving, dead>>

ReplyClaims ==
    /\ Alive("owner") /\ ingress = "claim" /\ ~resShut
    /\ Res!Reserve
    /\ ingress' = "encode"
    /\ UNCHANGED <<reqVars, submitVars, working, deferred, replies, reply, serving, dead>>

\* A full result ring: the reply goes back to the end of the line.
ReplyWaits ==
    /\ Alive("owner") /\ ingress = "claim" /\ ~resShut /\ Res!Load >= Room
    /\ replies' = Append(replies, reply[1])
    /\ reply' = <<>> /\ ingress' = "sweep"
    /\ UNCHANGED <<reqVars, resVars, submitVars, working, deferred, serving, dead>>

\* The submitter left, or the reply's patience ran out on a full ring.
ReplyDropped ==
    /\ Alive("owner") /\ ingress = "claim" /\ (resShut \/ Res!Load >= Room)
    /\ ingress' = "release"
    /\ UNCHANGED <<reqVars, resVars, submitVars, working, deferred, replies, reply, serving, dead>>

ReplyPublishes ==
    /\ Alive("owner") /\ ingress = "encode"
    /\ Res!Send(reply[1].req)
    /\ ingress' = "release"
    /\ UNCHANGED <<reqVars, submitVars, working, deferred, replies, reply, serving, dead>>

ReleaseSlot ==
    /\ Alive("owner") /\ ingress = "release"
    /\ Req!Finish(reply[1].req)
    /\ reply' = <<>> /\ ingress' = "sweep"
    /\ UNCHANGED <<resVars, submitVars, working, deferred, replies, serving, dead>>

Sweep ==
    \/ \E r \in Requests :
          TakeRequest(r) \/ ServeAnswers(r) \/ ServeDispatches(r) \/ ServeDefers(r)
    \/ RetryDeferred \/ PopReply
    \/ ReplyClaims \/ ReplyWaits \/ ReplyDropped \/ ReplyPublishes \/ ReleaseSlot

\* stop(): the finally drops what is left, frees its slots and closes.
IngressEnds ==
    /\ "stopOwner" \in Environment
    /\ Alive("owner") /\ ingress = "sweep"
    /\ ingress' = "ended"
    /\ reqHeld' = reqHeld \ ({replies[n].req : n \in DOMAIN replies}
                             \cup {deferred[n] : n \in DOMAIN deferred})
    /\ reqShut' = TRUE
    /\ replies' = <<>> /\ deferred' = <<>>
    /\ UNCHANGED <<reqReserved, reqSent, reqReady, resVars, submitVars, working, reply, serving,
                   dead>>

Dies(side) ==
    /\ side \notin dead
    /\ (IF side = "owner" THEN "ownerDies" ELSE "submitterDies") \in Environment
    /\ dead' = dead \cup {side}
    /\ UNCHANGED <<reqVars, resVars, submitVars, ownerVars>>

-----------------------------------------------------------------------------
Next ==
    \/ \E r \in Requests : Enqueue(r) \/ WorkSettles(r)
    \/ Read \/ StopSubmitter \/ CloseOpened \/ CloseOwned
    \/ Sweep \/ IngressEnds
    \/ \E side \in Sides : Dies(side)

Spec == Init /\ [][Next]_vars

\* Request threads, the reader, the ingress, the owner's model and a stop()
\* that has begun keep running; a reply that is turned away for ever passes its
\* deadline.
LiveSpec ==
    /\ Spec
    /\ \A r \in Requests :
          /\ WF_vars(Enqueue(r)) /\ WF_vars(WorkSettles(r)) /\ WF_vars(Expire(r))
          /\ WF_vars(ReadResult(r)) /\ WF_vars(ReleaseResult(r))
    /\ WF_vars(LosePeer /\ (reqShut \/ ~Alive("owner")))
    /\ WF_vars(ReaderEnds) /\ WF_vars(CloseOpened) /\ WF_vars(CloseOwned)
    /\ WF_vars(Sweep) /\ SF_vars(ReplyDropped)

-----------------------------------------------------------------------------
\* Every variable keeps to its type.
SpillTypeOK ==
    /\ place \in [Requests -> {"caller", "claimed", "expected", "watched", "published", "remote",
                               "spilled"}]
    /\ future \in [Requests -> {"pending", "answered", "lost", "expired", "stopped"}]
    /\ pending \subseteq Requests /\ inFlight \in Int
    /\ lost \in BOOLEAN /\ stopping \in BOOLEAN /\ gone \in BOOLEAN /\ dead \subseteq Sides
    /\ working \subseteq Requests /\ serving \subseteq Requests
    /\ deferred \in Seq(Requests) /\ replies \in Seq([req : Requests, ok : BOOLEAN])
    /\ Req!Load <= Room /\ Res!Load <= Room

Replying(r) == {n \in DOMAIN replies : replies[n].req = r}
Deferring(r) == {n \in DOMAIN deferred : deferred[n] = r}

\* While the ingress runs, every inbound slot that is taken is on its way to
\* exactly one release: its request is being served, in the model, deferred or
\* answered, and in one of these places only.
OneWayBack ==
    ingress # "ended" =>
        \A r \in Requests :
            Cardinality(serving \cap {r}) + Cardinality(working \cap {r})
              + Cardinality(Replying(r)) + Cardinality(Deferring(r))
              + Cardinality({n \in DOMAIN reply : reply[n].req = r})
            = IF r \in reqHeld THEN 1 ELSE 0

\* Until its shard leaves the tier, a request that was handed to the peer and is
\* not resolved is known to a reader that still runs: something can yet fail it.
Custody ==
    ~stopping => \A r \in Requests :
        place[r] \in {"expected", "watched", "published", "remote"} /\ ~Settled(r) =>
            r \in pending /\ reader = "run"

\* The proxy's own share of the load is exact: one for each request that was
\* counted and is unresolved, less those resolved before they were counted.
InFlightBalanced ==
    inFlight = Cardinality({r \in Requests : place[r] = "remote" /\ ~Settled(r)})
                 - Cardinality({r \in Requests : /\ place[r] \in {"watched", "published"}
                                                /\ Settled(r)})

\* Slots and requests are in good hands: each taken slot is on its way to one
\* release, each request handed over is known to a running reader, and the load
\* the proxy reports is theirs.
InGoodHands == SpillTypeOK /\ OneWayBack /\ Custody /\ InFlightBalanced

\* Every request handed to the peer is resolved, whether the owner answers,
\* drops the reply, stops or dies, unless its own shard leaves or dies.
EveryRequestSettles ==
    \A r \in Requests :
        (place[r] = "remote") ~> (Settled(r) \/ stopping \/ ~Alive("submitter"))

\* An inbound slot comes back while the ingress lives: neither a refusing
\* model nor a full result ring keeps it for good.
SlotsComeBack ==
    \A r \in Requests :
        (r \in reqHeld) ~> (r \notin reqHeld \/ ~Alive("owner") \/ ingress = "ended")

\* Nothing that went over stays over: requests settle and slots come back.
NothingStaysOver == EveryRequestSettles /\ SlotsComeBack

\* remote_instance.py, _fail_stranded(): "the tag must survive every path,
\* shutdown included": once the reader has ended no caller is left waiting.
NobodyStranded ==
    reader = "ended" => \A r \in Requests : place[r] = "remote" => Settled(r)
=============================================================================
