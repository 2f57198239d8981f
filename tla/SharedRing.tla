----------------------------- MODULE SharedRing -----------------------------
(***************************************************************************)
(* One ring in shared memory (runtime/memory/shared_ring.py) at the level  *)
(* of its state bytes.  The owner's process creates it and takes from it;  *)
(* the threads of one other process claim, fill and publish.               *)
(*                                                                         *)
(* There is no lock between the processes, so a swap of a state byte is    *)
(* two steps, a read and a write, with the handle's view lock held: `swap` *)
(* holds the write that a side has decided on.  Payload bytes are copied   *)
(* outside every lock, through a moment at which they are torn.            *)
(***************************************************************************)
EXTENDS Integers, Sequences, FiniteSets

CONSTANTS
    N,          \* layout.slots
    Threads,    \* request threads of the submitting process
    Messages,   \* requests, each submitted once
    NoThread, NoSlot, Torn

ASSUME RingAssumption ==
    /\ N \in Nat \ {0}
    /\ NoThread \notin Threads /\ NoSlot \notin 0 .. N - 1 /\ Torn \notin Messages

Slots == 0 .. N - 1
States == {"FREE", "CLAIMED", "WRITTEN", "TAKEN"}
Sides == {"writer", "owner"}
NoSwap == [slot |-> NoSlot, to |-> "FREE"]

VARIABLES
    state, bytes,       \* [Slots -> States], [Slots -> payload]
    born,               \* number of steps create() has made
    closed,             \* the header's closed byte
    unlinked,           \* the owner has removed the block's name
    opened, refused,    \* the submitter's open() succeeded, or raised for good
    detached,           \* [Sides -> BOOLEAN]: this handle was closed
    swap,               \* [Sides -> the write to come, or NoSwap]
    lock,               \* _submit_lock
    next, takeNext,     \* the cursors of claim() and take()
    pc, slot, msg, tried,   \* per request thread
    scanned,            \* slots the running take() has looked at
    mine,               \* slots the owner has taken and not released
    sent, received,     \* history: messages published, [Messages -> times taken]
    overtaken,          \* history: [Slots -> takes since it was written]
    alarm               \* a swap found a state its caller rules out

slotVars == <<state, bytes>>
birthVars == <<born, unlinked, opened, refused>>
threadVars == <<lock, next, pc, slot, msg, tried>>
ownerVars == <<takeNext, scanned, mine>>
history == <<sent, received, overtaken, alarm>>
vars == <<slotVars, birthVars, closed, detached, swap, threadVars, ownerVars, history>>

Init ==
    /\ state = [s \in Slots |-> "FREE"] /\ bytes = [s \in Slots |-> Torn]
    /\ born = 0 /\ unlinked = FALSE /\ opened = FALSE /\ refused = FALSE
    /\ closed = FALSE
    /\ detached = [p \in Sides |-> FALSE]
    /\ swap = [p \in Sides |-> NoSwap]
    /\ lock = NoThread /\ next = 0 /\ takeNext = 0
    /\ pc = [t \in Threads |-> "idle"]
    /\ slot = [t \in Threads |-> NoSlot]
    /\ msg = [t \in Threads |-> Torn]
    /\ tried = [t \in Threads |-> 0]
    /\ scanned = 0 /\ mine = {}
    /\ sent = {} /\ received = [m \in Messages |-> 0]
    /\ overtaken = [s \in Slots |-> 0]
    /\ alarm = FALSE

-----------------------------------------------------------------------------
(* create() and open().                                                    *)

\* What a peer can see of a ring that is being created, in this order.
BirthOrder == <<"name", "size", "states", "body", "magic">>

Visible(part) == \E n \in 1 .. born : BirthOrder[n] = part

Create ==
    /\ born < Len(BirthOrder)
    /\ born' = born + 1
    /\ state' = IF BirthOrder[born'] = "states" THEN [s \in Slots |-> "FREE"] ELSE state
    /\ UNCHANGED <<bytes, unlinked, opened, refused, closed, detached, swap, threadVars,
                   ownerVars, history>>

\* open(), unless the ring is absent, unborn or unlinked: then it is retried.
Open ==
    /\ ~opened /\ ~refused /\ ~unlinked
    /\ Visible("name") /\ Visible("size") /\ Visible("magic")
    /\ IF Visible("body") THEN opened' = TRUE /\ UNCHANGED refused
                          ELSE refused' = TRUE /\ UNCHANGED opened
    /\ UNCHANGED <<slotVars, born, unlinked, closed, detached, swap, threadVars, ownerVars,
                   history>>

-----------------------------------------------------------------------------
(* A request thread: claim(), the copy, publish() or abandon().            *)

Free(side) == swap[side] = NoSwap

SubmitLockFree == lock = NoThread

Claimable(s) == state[s] = "FREE"

\* The cursors go round the ring.
Following(s) == (s + 1) % N

\* A state byte other than the expected one is a protocol error, unless this
\* handle has been closed: then the call is without effect.
Alarms(side) == alarm' = (alarm \/ ~detached[side])

Enqueue(t, m) ==
    /\ opened /\ pc[t] = "idle"
    /\ m \notin sent /\ \A u \in Threads : msg[u] # m
    /\ msg' = [msg EXCEPT ![t] = m]
    /\ pc' = [pc EXCEPT ![t] = "check"]
    /\ UNCHANGED <<slotVars, birthVars, closed, detached, swap, lock, next, slot, tried, ownerVars,
                   history>>

\* The request goes back to the dispatcher: RingClosedError, RingFullError.
GivesUp(t) ==
    /\ pc' = [pc EXCEPT ![t] = "idle"]
    /\ msg' = [msg EXCEPT ![t] = Torn]

ClaimRefused(t) ==
    /\ pc[t] = "check" /\ Free("writer")
    /\ closed \/ detached["writer"]
    /\ GivesUp(t)
    /\ UNCHANGED <<slotVars, birthVars, closed, detached, swap, lock, next, slot, tried, ownerVars,
                   history>>

ClaimLocks(t) ==
    /\ pc[t] = "check" /\ Free("writer") /\ ~closed /\ ~detached["writer"]
    /\ SubmitLockFree
    /\ lock' = t
    /\ tried' = [tried EXCEPT ![t] = 0]
    /\ pc' = [pc EXCEPT ![t] = "scan"]
    /\ UNCHANGED <<slotVars, birthVars, closed, detached, swap, next, slot, msg, ownerVars,
                   history>>

\* One slot of the scan: the read half of _swap_state(FREE, CLAIMED).
ClaimReads(t) ==
    /\ pc[t] = "scan" /\ Free("writer") /\ tried[t] < N
    /\ next' = Following(next)
    /\ IF ~detached["writer"] /\ Claimable(next)
       THEN /\ swap' = [swap EXCEPT !["writer"] = [slot |-> next, to |-> "CLAIMED"]]
            /\ slot' = [slot EXCEPT ![t] = next]
            /\ pc' = [pc EXCEPT ![t] = "claim"]
            /\ UNCHANGED tried
       ELSE /\ tried' = [tried EXCEPT ![t] = @ + 1]
            /\ UNCHANGED <<swap, slot, pc>>
    /\ UNCHANGED <<slotVars, birthVars, closed, detached, lock, msg, ownerVars, history>>

ClaimWrites(t) ==
    /\ pc[t] = "claim"
    /\ state' = [state EXCEPT ![slot[t]] = "CLAIMED"]
    /\ swap' = [swap EXCEPT !["writer"] = NoSwap]
    /\ lock' = NoThread
    /\ pc' = [pc EXCEPT ![t] = "fill"]
    /\ UNCHANGED <<bytes, birthVars, closed, detached, next, slot, msg, tried, ownerVars, history>>

\* No free slot: the lock is let go, and the deadline has passed or not.
ClaimFails(t) ==
    /\ pc[t] = "scan" /\ tried[t] = N
    /\ lock' = NoThread
    /\ \/ GivesUp(t)
       \/ pc' = [pc EXCEPT ![t] = "check"] /\ UNCHANGED msg
    /\ UNCHANGED <<slotVars, birthVars, closed, detached, swap, next, slot, tried, ownerVars,
                   history>>

\* Fault: the state byte goes out before the copy.
FillEarly(t) ==
    /\ pc[t] = "fill" /\ Free("writer")
    /\ pc' = [pc EXCEPT ![t] = IF detached["writer"] THEN "abandon" ELSE "publish"]
    /\ UNCHANGED <<slotVars, birthVars, closed, detached, swap, lock, next, slot, msg, tried,
                   ownerVars, history>>

\* payload(), and the copy begins; a closed handle hands out no bytes.
FillBegins(t) ==
    /\ pc[t] = "fill" /\ Free("writer")
    /\ IF detached["writer"]
       THEN pc' = [pc EXCEPT ![t] = "abandon"] /\ UNCHANGED bytes
       ELSE pc' = [pc EXCEPT ![t] = "copy"] /\ bytes' = [bytes EXCEPT ![slot[t]] = Torn]
    /\ UNCHANGED <<state, birthVars, closed, detached, swap, lock, next, slot, msg, tried,
                   ownerVars,
                   history>>

\* The payload is complete, or the wire cannot carry it.
FillEnds(t) ==
    /\ pc[t] = "copy"
    /\ \/ bytes' = [bytes EXCEPT ![slot[t]] = msg[t]] /\ pc' = [pc EXCEPT ![t] = "publish"]
       \/ UNCHANGED bytes /\ pc' = [pc EXCEPT ![t] = "abandon"]
    /\ UNCHANGED <<state, birthVars, closed, detached, swap, lock, next, slot, msg, tried,
                   ownerVars,
                   history>>

SettledState(t) == IF pc[t] = "publish" THEN "WRITTEN" ELSE "FREE"

Swapping(t) == IF pc[t] = "publish" THEN "publishing" ELSE "abandoning"

\* The read half of publish() or abandon(), with the detached test inside.
SettleReads(t) ==
    /\ pc[t] \in {"publish", "abandon"} /\ SubmitLockFree /\ Free("writer")
    /\ IF detached["writer"] \/ state[slot[t]] # "CLAIMED"
       THEN /\ Alarms("writer")
            /\ GivesUp(t)
            /\ slot' = [slot EXCEPT ![t] = NoSlot]
            /\ UNCHANGED <<swap, lock>>
       ELSE /\ swap' = [swap EXCEPT !["writer"] =
                           [slot |-> slot[t], to |-> SettledState(t)]]
            /\ lock' = t
            /\ pc' = [pc EXCEPT ![t] = Swapping(t)]
            /\ UNCHANGED <<alarm, msg, slot>>
    /\ UNCHANGED <<slotVars, birthVars, closed, detached, next, tried, ownerVars, sent, received,
                   overtaken>>

SettleWrites(t) ==
    /\ pc[t] \in {"publishing", "abandoning"}
    /\ state' = [state EXCEPT ![slot[t]] = swap["writer"].to]
    /\ sent' = IF pc[t] = "publishing" THEN sent \cup {msg[t]} ELSE sent
    /\ overtaken' = [overtaken EXCEPT ![slot[t]] = 0]
    /\ swap' = [swap EXCEPT !["writer"] = NoSwap]
    /\ lock' = NoThread
    /\ slot' = [slot EXCEPT ![t] = NoSlot]
    /\ GivesUp(t)
    /\ UNCHANGED <<bytes, birthVars, closed, detached, next, tried, ownerVars, received, alarm>>

-----------------------------------------------------------------------------
(* The owner: take(), release(), close().                                  *)

\* The rotating scan: from the slot after the last one taken.
Candidate == (takeNext + scanned) % N

TakeReads ==
    /\ born = Len(BirthOrder) /\ Free("owner") /\ ~detached["owner"]
    /\ IF state[Candidate] = "WRITTEN"
       THEN /\ swap' = [swap EXCEPT !["owner"] = [slot |-> Candidate, to |-> "TAKEN"]]
            /\ UNCHANGED scanned
       ELSE scanned' = (scanned + 1) % N /\ UNCHANGED swap
    /\ UNCHANGED <<slotVars, birthVars, closed, detached, threadVars, takeNext, mine, history>>

TakeWrites ==
    /\ swap["owner"].to = "TAKEN"
    /\ LET s == swap["owner"].slot IN
       /\ state' = [state EXCEPT ![s] = "TAKEN"]
       /\ takeNext' = Following(s)
       /\ mine' = mine \cup {s}
       /\ received' = [received EXCEPT ![bytes[s]] = @ + 1]
       /\ overtaken' = [u \in Slots |-> IF u # s /\ state[u] = "WRITTEN" THEN overtaken[u] + 1
                                        ELSE overtaken[u]]
    /\ scanned' = 0
    /\ swap' = [swap EXCEPT !["owner"] = NoSwap]
    /\ UNCHANGED <<bytes, birthVars, closed, detached, threadVars, sent, alarm>>

ReleaseReads(s) ==
    /\ s \in mine /\ Free("owner")
    /\ IF detached["owner"] \/ state[s] # "TAKEN"
       THEN /\ Alarms("owner")
            /\ mine' = mine \ {s}
            /\ UNCHANGED swap
       ELSE /\ swap' = [swap EXCEPT !["owner"] = [slot |-> s, to |-> "FREE"]]
            /\ UNCHANGED <<alarm, mine>>
    /\ UNCHANGED <<slotVars, birthVars, closed, detached, threadVars, takeNext, scanned, sent,
                   received, overtaken>>

\* Fault: release() hands the slot back claimed.
ReleaseWritesClaimed ==
    /\ ~Free("owner") /\ swap["owner"].to = "FREE"
    /\ state' = [state EXCEPT ![swap["owner"].slot] = "CLAIMED"]
    /\ mine' = mine \ {swap["owner"].slot}
    /\ swap' = [swap EXCEPT !["owner"] = NoSwap]
    /\ UNCHANGED <<bytes, birthVars, closed, detached, threadVars, takeNext, scanned, history>>

ReleaseWrites ==
    /\ ~Free("owner") /\ swap["owner"].to = "FREE"
    /\ state' = [state EXCEPT ![swap["owner"].slot] = "FREE"]
    /\ mine' = mine \ {swap["owner"].slot}
    /\ swap' = [swap EXCEPT !["owner"] = NoSwap]
    /\ UNCHANGED <<bytes, birthVars, closed, detached, threadVars, takeNext, scanned, history>>

\* close() by the owner: the header says so, then the handle detaches.
OwnerCloses ==
    /\ born = Len(BirthOrder) /\ Free("owner") /\ ~closed
    /\ closed' = TRUE
    /\ UNCHANGED <<slotVars, birthVars, detached, swap, threadVars, ownerVars, history>>

\* Detaching takes the view lock, so it never falls between the two halves.
Detach(side) ==
    /\ ~detached[side] /\ Free(side)
    /\ IF side = "owner" THEN closed ELSE opened
    /\ detached' = [detached EXCEPT ![side] = TRUE]
    /\ UNCHANGED <<slotVars, birthVars, closed, swap, threadVars, ownerVars, history>>

\* The last step of the owner's close(): no peer opens the ring any more.
Unlink ==
    /\ detached["owner"] /\ ~unlinked
    /\ unlinked' = TRUE
    /\ UNCHANGED <<slotVars, born, opened, refused, closed, detached, swap, threadVars, ownerVars,
                   history>>

-----------------------------------------------------------------------------
Submit(t) ==
    \/ ClaimRefused(t) \/ ClaimLocks(t) \/ ClaimReads(t) \/ ClaimWrites(t) \/ ClaimFails(t)
    \/ FillBegins(t) \/ FillEnds(t) \/ SettleReads(t) \/ SettleWrites(t)

Take == TakeReads \/ TakeWrites
Release == ReleaseWrites \/ \E s \in Slots : ReleaseReads(s)

Next ==
    \/ Create \/ Open
    \/ \E t \in Threads : Submit(t) \/ \E m \in Messages : Enqueue(t, m)
    \/ Take \/ Release
    \/ OwnerCloses \/ Unlink \/ \E side \in Sides : Detach(side)

Spec == Init /\ [][Next]_vars

-----------------------------------------------------------------------------
Places == {"idle", "check", "scan", "claim", "fill", "copy", "publish", "abandon", "publishing",
           "abandoning"}

\* Every variable keeps to its type.
RingTypeOK ==
    /\ state \in [Slots -> States] /\ bytes \in [Slots -> Messages \cup {Torn}]
    /\ born \in 0 .. Len(BirthOrder)
    /\ unlinked \in BOOLEAN /\ opened \in BOOLEAN
    /\ refused \in BOOLEAN /\ closed \in BOOLEAN /\ alarm \in BOOLEAN
    /\ detached \in [Sides -> BOOLEAN]
    /\ swap \in [Sides -> [slot : Slots \cup {NoSlot}, to : States]]
    /\ lock \in Threads \cup {NoThread} /\ next \in Slots /\ takeNext \in Slots
    /\ pc \in [Threads -> Places]
    /\ slot \in [Threads -> Slots \cup {NoSlot}]
    /\ msg \in [Threads -> Messages \cup {Torn}]
    /\ tried \in [Threads -> 0 .. N] /\ scanned \in Slots /\ mine \subseteq Slots
    /\ sent \subseteq Messages /\ received \in [Messages -> Nat]
    /\ overtaken \in [Slots -> Nat]

\* A slot is filled by one thread at a time: two request threads never hold
\* the same slot, and a slot that a thread is filling is marked claimed.
OneClaimant ==
    /\ \A t, u \in Threads : t # u /\ slot[t] = slot[u] => slot[t] = NoSlot
    /\ \A t \in Threads : pc[t] \in {"fill", "copy", "publish", "abandon"} =>
          state[slot[t]] = "CLAIMED"

\* WRITTEN implies a complete payload, and it stays so while the owner has the
\* slot: no submitter writes into bytes that are being read.
PayloadIntact ==
    \A s \in Slots : state[s] \in {"WRITTEN", "TAKEN"} => bytes[s] \in sent

\* A slot is in one hand at a time: one thread's from the claim to the publish,
\* the owner's from the take to the release, and its payload is whole between.
SlotsExclusive == RingTypeOK /\ OneClaimant /\ PayloadIntact

\* publish(), abandon() and release() never find a state that they would
\* report as a protocol error, whoever closes what in the meantime.
NoFalseAlarm == ~alarm

\* open() never refuses a ring of the right layout for having caught it half
\* created, and what it opened is never initialised under it.
OpenSeesWholeRing == ~refused /\ (opened => born = Len(BirthOrder))

\* take() bounds the displacement: while a slot waits, each other slot is taken
\* at most once before it, whatever the submitters reuse in the meantime.
BoundedOvertaking == \A s \in Slots : state[s] = "WRITTEN" => overtaken[s] < N

\* What the ring owes both sides at every moment: a slot is in one hand at a
\* time, a shutdown never reads as a protocol error, a ring is opened whole, and
\* no written slot is passed over.
SlotsInOneHand == SlotsExclusive /\ NoFalseAlarm /\ OpenSeesWholeRing /\ BoundedOvertaking

In(st) == {s \in Slots : state[s] = st}

Contract == INSTANCE RingContract WITH
    Messages <- Messages, Room <- N,
    reserved <- Cardinality(In("CLAIMED")),
    sent <- sent,
    ready <- {bytes[s] : s \in In("WRITTEN")},
    held <- {bytes[s] : s \in In("TAKEN")},
    shut <- closed

\* The byte protocol implements the bounded channel the tier above relies on.
KeepsContract == Contract!ContractSpec
=============================================================================
