--------------------------- MODULE TransportProofs ---------------------------
(***************************************************************************)
(* How bytes and pixels travel, for constants of any size: the properties  *)
(* of SharedRing for a ring of any number of slots, with any number of     *)
(* request threads and messages, and its refinement of RingContract; the   *)
(* refusals of ResultSinks for any number of frames and workers; and the   *)
(* memory of NativeIntake for any cameras, GPUs and buffers.               *)
(***************************************************************************)
EXTENDS MCTransport, FiniteSetTheorems, SequenceTheorems, TLAPS

-----------------------------------------------------------------------------
(* The ring: the inductive invariant.                                      *)

Locking == {"scan", "claim", "publishing", "abandoning"}    \* hold _submit_lock
InSwap == {"claim", "publishing", "abandoning"}             \* between read and write
Owning == {"fill", "copy", "publish", "abandon", "publishing", "abandoning"}
Full(s) == state[s] \in {"WRITTEN", "TAKEN"}

\* Until create() is through, nobody has the ring open and no slot is in use.
Birth ==
    /\ opened \/ closed \/ swap["owner"] # NoSwap => born = Len(BirthOrder)
    /\ \A t \in Threads : pc[t] # "idle" => opened
    /\ born < Len(BirthOrder) => state = [s \in Slots |-> "FREE"] /\ mine = {}

\* The state byte that the write half of a swap leaves.
Written(place) ==
    IF place = "claim" THEN "CLAIMED" ELSE IF place = "publishing" THEN "WRITTEN" ELSE "FREE"

\* One thread has the lock, and the handle's swap is that thread's.
LockHeld ==
    /\ \A t \in Threads : lock = t <=> pc[t] \in Locking
    /\ swap["writer"] # NoSwap => \E t \in Threads : pc[t] \in InSwap
    /\ \A t \in Threads : pc[t] \in InSwap =>
          swap["writer"].slot = slot[t] /\ swap["writer"].to = Written(pc[t])

\* A thread's slot is its own from the read that found it free.
SlotsApart ==
    /\ \A t \in Threads : slot[t] # NoSlot <=> pc[t] \in Owning \cup {"claim"}
    /\ \A t, u \in Threads : t # u /\ slot[t] = slot[u] => slot[t] = NoSlot
    /\ \A t \in Threads : pc[t] \in Owning => state[slot[t]] = "CLAIMED"
    /\ \A t \in Threads : pc[t] = "claim" => state[slot[t]] = "FREE"

\* What the owner has taken is marked so, and what its swap has read still holds.
OwnersSlots ==
    /\ \A s \in mine : state[s] = "TAKEN"
    /\ swap["owner"] # NoSwap =>
          \/ /\ swap["owner"] = [slot |-> Candidate, to |-> "TAKEN"]
             /\ state[Candidate] = "WRITTEN"
          \/ swap["owner"].to = "FREE" /\ swap["owner"].slot \in mine

\* A message is one thread's until it is sent, and then in one slot at most.
MessagesApart ==
    /\ \A t \in Threads : pc[t] # "idle" <=> msg[t] # Torn
    /\ \A t \in Threads : msg[t] \notin sent
    /\ \A t, u \in Threads : t # u /\ msg[t] = msg[u] => msg[t] = Torn
    /\ \A t \in Threads : pc[t] \in {"publish", "publishing"} => bytes[slot[t]] = msg[t]
    /\ \A s, u \in Slots : s # u /\ Full(s) /\ Full(u) => bytes[s] # bytes[u]

\* How many slots the owner's scan looks at before s.
Ahead(s) == IF takeNext <= s THEN s - takeNext ELSE s - takeNext + N

\* The takes that have passed a written slot and those that still can are fewer
\* than the slots; the running scan has passed it only before it was written.
Turns ==
    \A s \in Slots : state[s] = "WRITTEN" =>
        /\ overtaken[s] + Ahead(s) < N
        /\ overtaken[s] = 0 \/ scanned <= Ahead(s)

IInv ==
    /\ RingTypeOK /\ NoFalseAlarm /\ ~refused /\ PayloadIntact
    /\ Birth /\ LockHeld /\ SlotsApart /\ OwnersSlots /\ MessagesApart /\ Turns

-----------------------------------------------------------------------------
USE DEF slotVars, birthVars, threadVars, ownerVars, history

\* The cursors stay on the ring and go round it.
LEMMA Wraps ==
    ASSUME NEW a \in Slots, NEW b \in Slots
    PROVE  /\ (a + b) % N = IF a + b < N THEN a + b ELSE a + b - N
           /\ (a + b) % N \in Slots
BY RingAssumption DEF Slots

LEMMA Follows ==
    ASSUME NEW a \in Slots
    PROVE  /\ Following(a) = IF a + 1 < N THEN a + 1 ELSE 0
           /\ Following(a) \in Slots
BY RingAssumption DEF Slots, Following

LEMMA CandidateIsSlot ==
    ASSUME RingTypeOK
    PROVE  /\ Candidate \in Slots
           /\ Ahead(Candidate) = scanned
           /\ \A s \in Slots : Ahead(s) = scanned => s = Candidate
<1>1. takeNext \in Slots /\ scanned \in Slots BY DEF RingTypeOK
<1>2. /\ Candidate = IF takeNext + scanned < N THEN takeNext + scanned ELSE takeNext + scanned - N
      /\ Candidate \in Slots
    BY <1>1, Wraps DEF Candidate
<1> QED BY <1>1, <1>2, RingAssumption DEF Ahead, Slots

LEMMA FiveSteps == Len(BirthOrder) = 5 BY DEF BirthOrder

LEMMA Base == Init => IInv
<1> SUFFICES ASSUME Init PROVE IInv OBVIOUS
<1>1. RingTypeOK
  <2>1. 0 \in Slots /\ born \in 0 .. Len(BirthOrder)
    BY RingAssumption, FiveSteps DEF Init, Slots
  <2>2. swap \in [Sides -> [slot : Slots \cup {NoSlot}, to : States]]
    BY DEF Init, NoSwap, States
  <2>3. pc \in [Threads -> Places] /\ state \in [Slots -> States]
    BY DEF Init, Places, States
  <2>4. tried \in [Threads -> 0 .. N]
    BY RingAssumption DEF Init
  <2> QED BY <2>1, <2>2, <2>3, <2>4 DEF Init, RingTypeOK
<1>2. Birth BY FiveSteps DEF Init, Birth, Sides
<1>3. LockHeld BY RingAssumption DEF Init, LockHeld, Locking, InSwap, Sides
<1>4. SlotsApart BY DEF Init, SlotsApart, Owning
<1>5. OwnersSlots BY DEF Init, OwnersSlots, Sides
<1>6. MessagesApart BY DEF Init, MessagesApart, Full
<1> QED
    BY <1>1, <1>2, <1>3, <1>4, <1>5, <1>6 DEF Init, IInv, NoFalseAlarm, PayloadIntact, Turns

-----------------------------------------------------------------------------
(* What single steps do to the slots.                                      *)

\* create() writes the state bytes while none is in use.
LEMMA CreateInert == ASSUME IInv, Create PROVE state' = state
BY DEF IInv, Birth, Create, RingTypeOK

\* A ring that shows its magic word is complete.
LEMMA MagicIsLast ==
    ASSUME RingTypeOK, Visible("magic")
    PROVE  born = Len(BirthOrder) /\ Visible("body")
<1>1. PICK n \in 1 .. born : BirthOrder[n] = "magic" BY DEF Visible
<1>2. born \in 0 .. 5 BY FiveSteps DEF RingTypeOK
<1>3. n = 5 BY <1>1, <1>2 DEF BirthOrder
<1>4. born = 5 /\ BirthOrder[4] = "body" BY <1>2, <1>3 DEF BirthOrder
<1> QED BY <1>4, FiveSteps DEF Visible

\* publish() and abandon() write the byte of the thread's own slot.
LEMMA SettledSlot ==
    ASSUME IInv, NEW t \in Threads, SettleWrites(t)
    PROVE  /\ slot[t] \in Slots /\ state[slot[t]] = "CLAIMED"
           /\ state'[slot[t]] = IF pc[t] = "publishing" THEN "WRITTEN" ELSE "FREE"
           /\ \A s \in Slots : s # slot[t] => state'[s] = state[s]
           /\ pc[t] = "publishing" => bytes[slot[t]] = msg[t] /\ msg[t] \in Messages \ sent
<1>1. slot[t] \in Slots /\ state[slot[t]] = "CLAIMED"
  BY DEF IInv, RingTypeOK, SlotsApart, SettleWrites, Owning
<1>2. swap["writer"].to = IF pc[t] = "publishing" THEN "WRITTEN" ELSE "FREE"
  BY DEF IInv, LockHeld, InSwap, Written, SettleWrites
<1>3. pc[t] = "publishing" => bytes[slot[t]] = msg[t] /\ msg[t] \in Messages \ sent
  BY DEF IInv, RingTypeOK, MessagesApart
<1> QED BY <1>1, <1>2, <1>3 DEF IInv, RingTypeOK, SettleWrites

\* take() takes the candidate of its scan, which is still written.
LEMMA Taken ==
    ASSUME IInv, TakeWrites
    PROVE  /\ Candidate \in Slots /\ state[Candidate] = "WRITTEN"
           /\ state' = [state EXCEPT ![Candidate] = "TAKEN"]
           /\ takeNext' = Following(Candidate) /\ scanned' = 0
           /\ mine' = mine \cup {Candidate}
           /\ \A s \in Slots : s # Candidate /\ state[s] = "WRITTEN" =>
                 overtaken'[s] = overtaken[s] + 1
           /\ swap' = [swap EXCEPT !["owner"] = NoSwap]
<1>1. Candidate \in Slots BY CandidateIsSlot DEF IInv
<1>2. swap["owner"].slot = Candidate /\ state[Candidate] = "WRITTEN"
  BY DEF IInv, OwnersSlots, TakeWrites, NoSwap
<1> QED BY <1>1, <1>2 DEF TakeWrites

-----------------------------------------------------------------------------
(* Every step keeps the invariant.                                         *)

LEMMA CreateKeeps ==
    ASSUME IInv, Create
    PROVE  IInv'
<1>1. RingTypeOK'
    BY DEF IInv, Create, RingTypeOK, States
<1>2. Birth'
    BY DEF IInv, Create, Birth
<1>3. /\ LockHeld' /\ SlotsApart' /\ OwnersSlots' /\ MessagesApart' /\ PayloadIntact'
      /\ Turns' /\ NoFalseAlarm' /\ ~refused'
    BY CreateInert
    DEF IInv, Create, LockHeld, SlotsApart, OwnersSlots, Candidate, MessagesApart, Full,
        PayloadIntact, Turns, Ahead, NoFalseAlarm
<1> QED BY <1>1, <1>2, <1>3 DEF IInv

LEMMA OpenKeeps ==
    ASSUME IInv, Open
    PROVE  IInv'
<1>1. RingTypeOK'
    BY DEF IInv, Open, RingTypeOK
<1>2. Birth'
    BY MagicIsLast DEF IInv, Open, RingTypeOK, Birth
<1>3. NoFalseAlarm' /\ ~refused'
    BY MagicIsLast DEF IInv, Open, RingTypeOK, NoFalseAlarm
<1>4. LockHeld' /\ SlotsApart' /\ OwnersSlots' /\ MessagesApart' /\ PayloadIntact' /\ Turns'
    BY DEF IInv, Open, LockHeld, SlotsApart, OwnersSlots, Candidate, MessagesApart, Full,
            PayloadIntact, Turns, Ahead
<1> QED BY <1>1, <1>2, <1>3, <1>4 DEF IInv

LEMMA EnqueueKeeps ==
    ASSUME IInv, NEW t \in Threads, NEW m \in Messages, Enqueue(t, m)
    PROVE  IInv'
<1>1. RingTypeOK'
    BY DEF IInv, Enqueue, RingTypeOK, Places
<1>2. Birth'
    BY DEF IInv, Enqueue, Birth
<1>3. LockHeld'
    BY DEF IInv, Enqueue, LockHeld, Locking, InSwap
<1>4. SlotsApart'
    BY DEF IInv, Enqueue, SlotsApart, Owning, NoSwap
<1>5. MessagesApart'
    BY DEF IInv, Enqueue, RingTypeOK, MessagesApart, Full
<1>6. OwnersSlots' /\ PayloadIntact' /\ Turns' /\ NoFalseAlarm' /\ ~refused'
    BY DEF IInv, Enqueue, OwnersSlots, Candidate, PayloadIntact, Turns, Ahead, NoFalseAlarm
<1> QED BY <1>1, <1>2, <1>3, <1>4, <1>5, <1>6 DEF IInv

LEMMA ClaimRefusedKeeps ==
    ASSUME IInv, NEW t \in Threads, ClaimRefused(t)
    PROVE  IInv'
<1>1. RingTypeOK'
    BY DEF IInv, ClaimRefused, GivesUp, RingTypeOK, Places
<1>2. Birth'
    BY DEF IInv, ClaimRefused, Birth
<1>3. LockHeld'
    BY DEF IInv, ClaimRefused, GivesUp, LockHeld, Locking, InSwap
<1>4. SlotsApart'
    BY DEF IInv, ClaimRefused, GivesUp, SlotsApart, Owning
<1>5. MessagesApart'
    BY RingAssumption DEF IInv, ClaimRefused, GivesUp, RingTypeOK, MessagesApart, Full
<1>6. OwnersSlots' /\ PayloadIntact' /\ Turns' /\ NoFalseAlarm' /\ ~refused'
    BY DEF IInv, ClaimRefused, OwnersSlots, Candidate, PayloadIntact, Turns, Ahead, NoFalseAlarm
<1> QED BY <1>1, <1>2, <1>3, <1>4, <1>5, <1>6 DEF IInv

LEMMA ClaimLocksKeeps ==
    ASSUME IInv, NEW t \in Threads, ClaimLocks(t)
    PROVE  IInv'
<1>1. RingTypeOK'
    BY RingAssumption DEF IInv, ClaimLocks, RingTypeOK, Places
<1>2. Birth'
    BY DEF IInv, ClaimLocks, Birth
<1>3. LockHeld'
    BY RingAssumption DEF IInv, ClaimLocks, SubmitLockFree, RingTypeOK, LockHeld, Locking, InSwap
<1>4. SlotsApart'
    BY RingAssumption DEF IInv, ClaimLocks, SlotsApart, Owning
<1>5. MessagesApart'
    BY DEF IInv, ClaimLocks, MessagesApart, Full, Sides
<1>6. OwnersSlots' /\ PayloadIntact' /\ Turns' /\ NoFalseAlarm' /\ ~refused'
    BY DEF IInv, ClaimLocks, OwnersSlots, Candidate, PayloadIntact, Turns, Ahead, NoFalseAlarm
<1> QED BY <1>1, <1>2, <1>3, <1>4, <1>5, <1>6 DEF IInv

LEMMA ClaimReadsKeeps ==
    ASSUME IInv, NEW t \in Threads, ClaimReads(t)
    PROVE  IInv'
<1>1. RingTypeOK'
  <2>1. next' \in Slots BY Follows DEF IInv, RingTypeOK, ClaimReads
  <2>2. tried' \in [Threads -> 0 .. N]
    <3>1. tried[t] + 1 \in 0 .. N BY RingAssumption DEF IInv, RingTypeOK, ClaimReads
    <3> QED BY <3>1 DEF IInv, RingTypeOK, ClaimReads
  <2>3. swap' \in [Sides -> [slot : Slots \cup {NoSlot}, to : States]]
    <3>1. [slot |-> next, to |-> "CLAIMED"] \in [slot : Slots \cup {NoSlot}, to : States]
      BY DEF IInv, RingTypeOK, States
    <3> QED BY <3>1 DEF IInv, RingTypeOK, ClaimReads
  <2>4. pc' \in [Threads -> Places] /\ slot' \in [Threads -> Slots \cup {NoSlot}]
    BY DEF IInv, RingTypeOK, ClaimReads, Places
  <2> QED BY <2>1, <2>2, <2>3, <2>4 DEF IInv, RingTypeOK, ClaimReads
<1>2. Birth'
    BY DEF IInv, ClaimReads, Birth
<1>3. LockHeld'
    BY RingAssumption
    DEF IInv, ClaimReads, RingTypeOK, LockHeld, SlotsApart, Locking, InSwap, Written, NoSwap,
        Sides
<1>4. SlotsApart'
  <2>1. CASE slot' = slot /\ pc' = pc BY <2>1 DEF IInv, ClaimReads, SlotsApart
  <2>2. CASE /\ Claimable(next) /\ slot' = [slot EXCEPT ![t] = next]
             /\ pc' = [pc EXCEPT ![t] = "claim"]
    <3>1. state[next] = "FREE" /\ next \in Slots /\ next # NoSlot
      BY <2>2, RingAssumption DEF IInv, RingTypeOK, Claimable, Slots
    <3>2. \A u \in Threads : u # t => pc[u] # "claim"
      BY DEF IInv, LockHeld, Locking, ClaimReads
    <3>3. \A u \in Threads : u # t => slot[u] # next
      BY <3>1, <3>2 DEF IInv, SlotsApart
    <3> QED
      BY <2>2, <3>1, <3>3 DEF IInv, RingTypeOK, ClaimReads, SlotsApart, Owning
  <2> QED BY <2>1, <2>2 DEF ClaimReads
<1>5. OwnersSlots'
    BY DEF IInv, ClaimReads, RingTypeOK, OwnersSlots, Candidate, Sides
<1>6. MessagesApart'
  <2>1. \A u \in Threads : \/ pc'[u] = pc[u] /\ slot'[u] = slot[u]
                           \/ pc[u] = "scan" /\ pc'[u] = "claim"
    BY DEF IInv, RingTypeOK, ClaimReads
  <2> QED BY <2>1 DEF IInv, ClaimReads, MessagesApart, Full
<1>7. PayloadIntact' /\ Turns' /\ NoFalseAlarm' /\ ~refused'
    BY DEF IInv, ClaimReads, PayloadIntact, Turns, Ahead, NoFalseAlarm
<1> QED BY <1>1, <1>2, <1>3, <1>4, <1>5, <1>6, <1>7 DEF IInv

LEMMA ClaimWritesKeeps ==
    ASSUME IInv, NEW t \in Threads, ClaimWrites(t)
    PROVE  IInv'
<1>1. RingTypeOK'
    BY DEF IInv, ClaimWrites, RingTypeOK, States, Places, NoSwap
<1>2. Birth'
    BY DEF IInv, ClaimWrites, Birth
<1>3. LockHeld'
    BY RingAssumption DEF IInv, ClaimWrites, RingTypeOK, LockHeld, Locking, InSwap, Sides
<1>4. SlotsApart'
    BY DEF IInv, ClaimWrites, RingTypeOK, SlotsApart, Owning
<1>5. OwnersSlots'
    BY DEF IInv, ClaimWrites, OwnersSlots, SlotsApart, Candidate
<1>6. MessagesApart'
    BY RingAssumption DEF IInv, ClaimWrites, MessagesApart, Full
<1>7. PayloadIntact'
    BY RingAssumption DEF IInv, ClaimWrites, PayloadIntact
<1>8. Turns'
    BY DEF IInv, ClaimWrites, Turns, Ahead, Sides
<1>9. NoFalseAlarm' /\ ~refused'
    BY DEF IInv, ClaimWrites, NoFalseAlarm
<1> QED BY <1>1, <1>2, <1>3, <1>4, <1>5, <1>6, <1>7, <1>8, <1>9 DEF IInv

LEMMA ClaimFailsKeeps ==
    ASSUME IInv, NEW t \in Threads, ClaimFails(t)
    PROVE  IInv'
<1>1. RingTypeOK'
    BY RingAssumption DEF IInv, ClaimFails, GivesUp, RingTypeOK, Places
<1>2. Birth'
    BY DEF IInv, ClaimFails, Birth
<1>3. LockHeld'
  <2>1. \A u \in Threads : pc'[u] = pc[u] \/ (u = t /\ pc'[u] \in {"idle", "check"})
    BY DEF IInv, RingTypeOK, ClaimFails, GivesUp
  <2>2. lock = t /\ lock' = NoThread /\ swap' = swap BY DEF IInv, LockHeld, ClaimFails, Locking
  <2>3. \A u \in Threads : u # t => pc[u] \notin Locking BY <2>2 DEF IInv, LockHeld
  <2>4. swap["writer"] = NoSwap BY <2>3 DEF IInv, LockHeld, ClaimFails, Locking, InSwap
  <2>5. \A u \in Threads : pc'[u] \notin Locking
    <3>1. pc'[t] \in {"idle", "check"} BY DEF IInv, RingTypeOK, ClaimFails, GivesUp
    <3> QED BY <2>1, <2>3, <3>1 DEF Locking
  <2> QED BY <2>2, <2>4, <2>5, RingAssumption DEF LockHeld, Locking, InSwap
<1>4. SlotsApart'
  <2>1. \A u \in Threads : pc'[u] = pc[u] \/ (pc[u] = "scan" /\ pc'[u] \in {"idle", "check"})
    BY DEF IInv, RingTypeOK, ClaimFails, GivesUp
  <2>2. slot' = slot /\ state' = state BY DEF ClaimFails
  <2> QED BY <2>1, <2>2 DEF IInv, SlotsApart, Owning
<1>5. MessagesApart'
  <2>1. \A u \in Threads : \/ pc'[u] = pc[u] /\ msg'[u] = msg[u]
                           \/ pc[u] = "scan" /\ pc'[u] = "idle" /\ msg'[u] = Torn
                           \/ pc[u] = "scan" /\ pc'[u] = "check" /\ msg'[u] = msg[u]
    BY DEF IInv, RingTypeOK, ClaimFails, GivesUp
  <2>2. UNCHANGED <<slot, state, bytes, sent>> BY DEF ClaimFails
  <2>3. Torn \notin sent BY RingAssumption DEF IInv, RingTypeOK
  <2> QED BY <2>1, <2>2, <2>3 DEF IInv, MessagesApart, Full
<1>6. OwnersSlots' /\ PayloadIntact' /\ Turns' /\ NoFalseAlarm' /\ ~refused'
    BY DEF IInv, ClaimFails, OwnersSlots, Candidate, PayloadIntact, Turns, Ahead, NoFalseAlarm
<1> QED BY <1>1, <1>2, <1>3, <1>4, <1>5, <1>6 DEF IInv

LEMMA FillBeginsKeeps ==
    ASSUME IInv, NEW t \in Threads, FillBegins(t)
    PROVE  IInv'
<1>1. RingTypeOK'
    BY DEF IInv, FillBegins, RingTypeOK, Places
<1>2. Birth'
    BY DEF IInv, FillBegins, Birth
<1>3. LockHeld'
    BY RingAssumption
    DEF IInv, FillBegins, RingTypeOK, LockHeld, SlotsApart, Locking, InSwap, NoSwap
<1>4. SlotsApart'
  <2>1. \A u \in Threads : \/ pc'[u] = pc[u]
                           \/ pc[u] = "fill" /\ pc'[u] \in {"abandon", "copy"}
    BY DEF IInv, RingTypeOK, FillBegins
  <2>2. slot' = slot /\ state' = state BY DEF FillBegins
  <2> QED BY <2>1, <2>2 DEF IInv, SlotsApart, Owning
<1>5. MessagesApart'
  <2>1. \A u \in Threads : \/ pc'[u] = pc[u]
                           \/ pc[u] = "fill" /\ pc'[u] \in {"abandon", "copy"}
    BY DEF IInv, RingTypeOK, FillBegins
  <2>2. UNCHANGED <<slot, state, msg, sent>> BY DEF FillBegins
  <2>3. \A s \in Slots : s # slot[t] => bytes'[s] = bytes[s] BY DEF IInv, RingTypeOK, FillBegins
  <2>4. state[slot[t]] = "CLAIMED" BY DEF IInv, SlotsApart, FillBegins, Owning
  <2>5. \A u \in Threads : pc[u] \in {"publish", "publishing"} =>
           slot[u] \in Slots /\ slot[u] # slot[t]
    BY DEF IInv, RingTypeOK, SlotsApart, FillBegins, Owning
  <2> QED BY <2>1, <2>2, <2>3, <2>4, <2>5 DEF IInv, MessagesApart, Full
<1>6. PayloadIntact'
  <2>1. \A s \in Slots : s # slot[t] => bytes'[s] = bytes[s] BY DEF IInv, RingTypeOK, FillBegins
  <2>2. state[slot[t]] = "CLAIMED" BY DEF IInv, SlotsApart, FillBegins, Owning
  <2>3. UNCHANGED <<state, sent>> BY DEF FillBegins
  <2> QED BY <2>1, <2>2, <2>3 DEF IInv, PayloadIntact
<1>7. OwnersSlots' /\ Turns' /\ NoFalseAlarm' /\ ~refused'
    BY DEF IInv, FillBegins, OwnersSlots, Candidate, Turns, Ahead, NoFalseAlarm
<1> QED BY <1>1, <1>2, <1>3, <1>4, <1>5, <1>6, <1>7 DEF IInv

LEMMA FillEndsKeeps ==
    ASSUME IInv, NEW t \in Threads, FillEnds(t)
    PROVE  IInv'
<1>1. RingTypeOK'
    BY DEF IInv, FillEnds, RingTypeOK, Places
<1>2. Birth'
    BY DEF IInv, FillEnds, Birth
<1>3. LockHeld'
  <2>1. \A u \in Threads : \/ pc'[u] = pc[u]
                           \/ pc[u] = "copy" /\ pc'[u] \in {"abandon", "publish"}
    BY DEF IInv, RingTypeOK, FillEnds
  <2>2. UNCHANGED <<lock, swap, slot>> BY DEF FillEnds
  <2> QED BY <2>1, <2>2 DEF IInv, LockHeld, Locking, InSwap
<1>4. SlotsApart'
  <2>1. \A u \in Threads : \/ pc'[u] = pc[u]
                           \/ pc[u] \in Owning /\ pc'[u] \in Owning
    BY DEF IInv, RingTypeOK, FillEnds, Owning
  <2>2. \A u \in Threads : pc'[u] = "claim" <=> pc[u] = "claim"
    BY DEF IInv, RingTypeOK, FillEnds
  <2>3. UNCHANGED <<state, slot>> BY DEF FillEnds
  <2> QED BY <2>1, <2>2, <2>3 DEF IInv, SlotsApart
<1>5. MessagesApart'
    BY RingAssumption
    DEF IInv, FillEnds, RingTypeOK, MessagesApart, SlotsApart, PayloadIntact, Full, Owning, Sides
<1>6. PayloadIntact'
    BY DEF IInv, FillEnds, RingTypeOK, PayloadIntact, SlotsApart, Owning
<1>7. OwnersSlots' /\ Turns' /\ NoFalseAlarm' /\ ~refused'
    BY DEF IInv, FillEnds, OwnersSlots, Candidate, Turns, Ahead, NoFalseAlarm
<1> QED BY <1>1, <1>2, <1>3, <1>4, <1>5, <1>6, <1>7 DEF IInv

LEMMA SettleReadsKeeps ==
    ASSUME IInv, NEW t \in Threads, SettleReads(t)
    PROVE  IInv'
<1>1. RingTypeOK'
  <2>1. swap' \in [Sides -> [slot : Slots \cup {NoSlot}, to : States]]
    <3>1. [slot |-> slot[t], to |-> SettledState(t)] \in [slot : Slots \cup {NoSlot}, to : States]
      BY DEF IInv, RingTypeOK, SettledState, States
    <3> QED BY <3>1 DEF IInv, RingTypeOK, SettleReads
  <2>2. pc' \in [Threads -> Places] /\ slot' \in [Threads -> Slots \cup {NoSlot}]
    BY DEF IInv, RingTypeOK, SettleReads, Swapping, GivesUp, Places
  <2>3. alarm' \in BOOLEAN
    BY DEF IInv, RingTypeOK, SettleReads, Alarms
  <2>4. msg' \in [Threads -> Messages \cup {Torn}] /\ lock' \in Threads \cup {NoThread}
    BY DEF IInv, RingTypeOK, SettleReads, GivesUp
  <2> QED BY <2>1, <2>2, <2>3, <2>4 DEF IInv, RingTypeOK, SettleReads
<1>2. Birth'
    BY DEF IInv, SettleReads, SettledState, Swapping, Birth
<1>3. LockHeld'
  <2>1. \A u \in Threads : pc[u] \notin Locking
    BY RingAssumption DEF IInv, LockHeld, SettleReads, SubmitLockFree
  <2>2. CASE GivesUp(t) /\ UNCHANGED <<swap, lock>>
    <3>1. \A u \in Threads : pc'[u] = pc[u] \/ pc'[u] = "idle"
      BY <2>2 DEF IInv, RingTypeOK, GivesUp
    <3>2. \A u \in Threads : pc'[u] \notin Locking BY <2>1, <3>1 DEF Locking
    <3> QED
      BY <2>1, <2>2, <3>2 DEF IInv, LockHeld, Locking, InSwap
  <2>3. CASE /\ swap' = [swap EXCEPT !["writer"] = [slot |-> slot[t], to |-> SettledState(t)]]
             /\ lock' = t /\ pc' = [pc EXCEPT ![t] = Swapping(t)] /\ slot' = slot
    <3>1. \A u \in Threads : u # t => pc'[u] = pc[u]
      BY <2>3 DEF IInv, RingTypeOK
    <3>2. /\ pc'[t] \in {"publishing", "abandoning"}
          /\ swap'["writer"] = [slot |-> slot'[t], to |-> Written(pc'[t])]
      BY <2>3 DEF IInv, RingTypeOK, Sides, SettledState, Swapping, Written, SettleReads
    <3> QED BY <2>1, <2>3, <3>1, <3>2 DEF LockHeld, Locking, InSwap
  <2> QED BY <2>2, <2>3 DEF SettleReads
<1>4. SlotsApart'
  <2>1. state' = state BY DEF SettleReads
  <2>2. \A u \in Threads : \/ pc'[u] = pc[u] /\ slot'[u] = slot[u]
                           \/ u = t /\ pc'[u] = "idle" /\ slot'[u] = NoSlot
                           \/ /\ pc[u] \in {"publish", "abandon"} /\ slot'[u] = slot[u]
                              /\ pc'[u] \in {"publishing", "abandoning"}
    BY DEF IInv, RingTypeOK, SettleReads, GivesUp, Swapping
  <2> QED BY <2>1, <2>2 DEF IInv, SlotsApart, Owning
<1>5. OwnersSlots'
    BY DEF IInv, SettleReads, SettledState, Swapping, RingTypeOK, OwnersSlots, Candidate, Sides
<1>6. MessagesApart'
  <2>1. UNCHANGED <<state, bytes, sent>> BY DEF SettleReads
  <2>2. \A u \in Threads :
          \/ pc'[u] = pc[u] /\ slot'[u] = slot[u] /\ msg'[u] = msg[u]
          \/ u = t /\ pc'[u] = "idle" /\ msg'[u] = Torn
          \/ /\ slot'[u] = slot[u] /\ msg'[u] = msg[u]
             /\ pc[u] = "publish" /\ pc'[u] = "publishing"
          \/ /\ slot'[u] = slot[u] /\ msg'[u] = msg[u]
             /\ pc[u] = "abandon" /\ pc'[u] = "abandoning"
    BY DEF IInv, RingTypeOK, SettleReads, GivesUp, Swapping
  <2>3. Torn \notin sent BY RingAssumption DEF IInv, RingTypeOK
  <2> QED BY <2>1, <2>2, <2>3 DEF IInv, MessagesApart, Full
<1>7. NoFalseAlarm' /\ ~refused'
  <2>1. state[slot[t]] = "CLAIMED" BY DEF IInv, SlotsApart, SettleReads, Owning
  <2> QED BY <2>1 DEF IInv, NoFalseAlarm, SettleReads, Alarms
<1>8. PayloadIntact' /\ Turns'
    BY DEF IInv, SettleReads, PayloadIntact, Turns, Ahead
<1> QED BY <1>1, <1>2, <1>3, <1>4, <1>5, <1>6, <1>7, <1>8 DEF IInv

LEMMA SettleWritesKeeps ==
    ASSUME IInv, NEW t \in Threads, SettleWrites(t)
    PROVE  IInv'
<1>1. RingTypeOK'
  <2>1. state' \in [Slots -> States] BY DEF IInv, RingTypeOK, SettleWrites, Sides
  <2>2. swap' \in [Sides -> [slot : Slots \cup {NoSlot}, to : States]]
    BY DEF IInv, RingTypeOK, SettleWrites, NoSwap, States
  <2>3. pc' \in [Threads -> Places] /\ slot' \in [Threads -> Slots \cup {NoSlot}]
    BY DEF IInv, RingTypeOK, SettleWrites, GivesUp, Places
  <2>4. sent' \subseteq Messages /\ msg' \in [Threads -> Messages \cup {Torn}]
    BY DEF IInv, RingTypeOK, SettleWrites, GivesUp, MessagesApart
  <2>5. overtaken' \in [Slots -> Nat] /\ lock' \in Threads \cup {NoThread}
    BY DEF IInv, RingTypeOK, SettleWrites
  <2> QED BY <2>1, <2>2, <2>3, <2>4, <2>5 DEF IInv, RingTypeOK, SettleWrites
<1>2. Birth'
    BY DEF IInv, SettleWrites, Birth
<1>3. LockHeld'
    BY RingAssumption
    DEF IInv, SettleWrites, GivesUp, RingTypeOK, LockHeld, Locking, InSwap, Sides
<1>4. SlotsApart'
    BY DEF IInv, SettleWrites, GivesUp, RingTypeOK, SlotsApart, Owning
<1>5. OwnersSlots'
    BY DEF IInv, SettleWrites, OwnersSlots, SlotsApart, Candidate, Owning
<1>6. MessagesApart'
  <2>1. \A u \in Threads : IF u = t THEN pc'[u] = "idle" /\ msg'[u] = Torn
                           ELSE pc'[u] = pc[u] /\ msg'[u] = msg[u] /\ slot'[u] = slot[u]
    BY DEF IInv, RingTypeOK, SettleWrites, GivesUp
  <2>2. bytes' = bytes /\ sent' \subseteq sent \cup {msg[t]} BY DEF SettleWrites
  <2>3. msg[t] # Torn /\ Torn \notin sent
    BY RingAssumption DEF IInv, RingTypeOK, MessagesApart, SettleWrites
  <2>4. \A u \in Threads : msg'[u] \notin sent'
    BY <2>1, <2>2, <2>3 DEF IInv, MessagesApart
  <2>5. \A s, u \in Slots : s # u /\ Full(s)' /\ Full(u)' => bytes'[s] # bytes'[u]
    <3>1. \A s \in Slots : Full(s) => s # slot[t] /\ bytes[s] \in sent
      BY SettledSlot DEF IInv, PayloadIntact, Full
    <3>2. \A s \in Slots : Full(s)' => Full(s) \/ (s = slot[t] /\ bytes[s] \notin sent)
      BY SettledSlot DEF Full
    <3> QED BY <2>2, <3>1, <3>2 DEF IInv, MessagesApart
  <2> QED BY <2>1, <2>2, <2>4, <2>5 DEF IInv, MessagesApart
<1>7. PayloadIntact'
  <2>1. bytes' = bytes /\ sent \subseteq sent' BY DEF SettleWrites
  <2>2. pc[t] = "publishing" => msg[t] \in sent' BY DEF SettleWrites
  <2>3. \A s \in Slots : Full(s)' => Full(s) \/ (s = slot[t] /\ pc[t] = "publishing")
    BY SettledSlot DEF Full
  <2>4. pc[t] = "publishing" => bytes[slot[t]] = msg[t] BY SettledSlot
  <2> QED BY <2>1, <2>2, <2>3, <2>4 DEF IInv, PayloadIntact, Full
<1>8. Turns'
  <2>1. \A s \in Slots : IF s = slot[t] THEN overtaken'[s] = 0
                         ELSE overtaken'[s] = overtaken[s] /\ state'[s] = state[s]
    BY DEF IInv, RingTypeOK, SettleWrites
  <2>2. takeNext' = takeNext /\ scanned' = scanned BY DEF SettleWrites
  <2>3. \A s \in Slots : Ahead(s)' = Ahead(s) /\ 0 + Ahead(s) < N
    BY <2>2, RingAssumption DEF IInv, RingTypeOK, Ahead, Slots
  <2> QED BY <2>1, <2>2, <2>3 DEF IInv, Turns
<1>9. NoFalseAlarm' /\ ~refused'
    BY DEF IInv, SettleWrites, NoFalseAlarm
<1> QED BY <1>1, <1>2, <1>3, <1>4, <1>5, <1>6, <1>7, <1>8, <1>9 DEF IInv

LEMMA TakeReadsKeeps ==
    ASSUME IInv, TakeReads
    PROVE  IInv'
<1>1. RingTypeOK'
  <2>1. swap' \in [Sides -> [slot : Slots \cup {NoSlot}, to : States]]
    <3>1. [slot |-> Candidate, to |-> "TAKEN"] \in [slot : Slots \cup {NoSlot}, to : States]
      BY CandidateIsSlot DEF IInv, States
    <3> QED BY <3>1 DEF IInv, RingTypeOK, TakeReads
  <2>2. scanned' \in Slots BY Follows DEF IInv, RingTypeOK, TakeReads, Following
  <2> QED BY <2>1, <2>2 DEF IInv, RingTypeOK, TakeReads
<1>2. Birth'
    BY DEF IInv, TakeReads, Birth
<1>3. LockHeld'
    BY DEF IInv, TakeReads, RingTypeOK, LockHeld, Sides
<1>4. OwnersSlots'
    BY DEF IInv, TakeReads, RingTypeOK, OwnersSlots, Candidate
<1>5. Turns'
  <2>1. UNCHANGED <<state, overtaken, takeNext>> BY DEF TakeReads
  <2>2. \A s \in Slots : Ahead(s)' = Ahead(s) BY <2>1 DEF Ahead
  <2>3. CASE scanned' = scanned BY <2>1, <2>2, <2>3 DEF IInv, Turns
  <2>4. CASE state[Candidate] # "WRITTEN" /\ scanned' = (scanned + 1) % N
    <3>1. scanned \in Slots /\ (scanned' = scanned + 1 \/ scanned' = 0)
      BY <2>4, Follows DEF IInv, RingTypeOK, Following
    <3>2. \A s \in Slots : Ahead(s) \in Nat
      BY RingAssumption DEF IInv, RingTypeOK, Ahead, Slots
    <3>3. \A s \in Slots : state[s] = "WRITTEN" => Ahead(s) # scanned
      BY <2>4, CandidateIsSlot DEF IInv
    <3>4. \A s \in Slots : state[s] = "WRITTEN" /\ scanned <= Ahead(s) => scanned' <= Ahead(s)
      BY <3>1, <3>2, <3>3 DEF Slots
    <3> QED BY <2>1, <2>2, <3>4 DEF IInv, Turns
  <2> QED BY <2>3, <2>4 DEF TakeReads
<1>6. SlotsApart' /\ MessagesApart' /\ PayloadIntact' /\ NoFalseAlarm' /\ ~refused'
    BY DEF IInv, TakeReads, SlotsApart, MessagesApart, Full, PayloadIntact, NoFalseAlarm
<1> QED BY <1>1, <1>2, <1>3, <1>4, <1>5, <1>6 DEF IInv

LEMMA TakeWritesKeeps ==
    ASSUME IInv, TakeWrites
    PROVE  IInv'
<1>1. RingTypeOK'
  <2>1. Candidate \in Slots BY CandidateIsSlot DEF IInv
  <2>2. state' \in [Slots -> States] /\ mine' \subseteq Slots
    BY <2>1, Taken DEF IInv, RingTypeOK, States
  <2>3. takeNext' \in Slots /\ scanned' \in Slots
    BY <2>1, Taken, Follows, RingAssumption DEF Slots
  <2>4. received' \in [Messages -> Nat]
    <3>1. PICK m \in Messages : received' = [received EXCEPT ![m] = received[m] + 1]
      BY Taken DEF IInv, RingTypeOK, PayloadIntact, OwnersSlots, TakeWrites, NoSwap
    <3> QED BY <3>1 DEF IInv, RingTypeOK
  <2>5. overtaken' \in [Slots -> Nat] BY DEF IInv, RingTypeOK, TakeWrites
  <2>6. swap' \in [Sides -> [slot : Slots \cup {NoSlot}, to : States]]
    BY DEF IInv, RingTypeOK, TakeWrites, NoSwap, States
  <2> QED BY <2>2, <2>3, <2>4, <2>5, <2>6 DEF IInv, RingTypeOK, TakeWrites
<1>2. Birth'
    BY DEF IInv, TakeWrites, Birth, NoSwap
<1>3. LockHeld'
    BY DEF IInv, TakeWrites, LockHeld
<1>4. SlotsApart'
  <2>1. \A s \in Slots : s # Candidate => state'[s] = state[s] BY Taken DEF IInv, RingTypeOK
  <2>2. \A u \in Threads : pc[u] \in Owning \cup {"claim"} =>
           slot[u] \in Slots /\ slot[u] # Candidate
    BY Taken DEF IInv, SlotsApart, RingTypeOK
  <2> QED BY <2>1, <2>2 DEF IInv, SlotsApart, TakeWrites
<1>5. OwnersSlots'
  <2>1. swap'["owner"] = NoSwap BY Taken DEF IInv, RingTypeOK, Sides
  <2>2. \A s \in mine' : state'[s] = "TAKEN"
    BY Taken, CandidateIsSlot DEF IInv, RingTypeOK, OwnersSlots
  <2> QED BY <2>1, <2>2 DEF OwnersSlots
<1>6. MessagesApart'
  <2>1. \A s \in Slots : Full(s)' => Full(s) BY Taken DEF IInv, RingTypeOK, Full
  <2> QED BY <2>1 DEF IInv, MessagesApart, TakeWrites
<1>7. PayloadIntact'
  <2>1. \A s \in Slots : Full(s)' => Full(s) BY Taken DEF IInv, RingTypeOK, Full
  <2> QED BY <2>1 DEF IInv, PayloadIntact, TakeWrites, Full
<1>8. Turns'
  <2> SUFFICES ASSUME NEW s \in Slots, state'[s] = "WRITTEN"
               PROVE  overtaken'[s] + Ahead(s)' < N /\ Ahead(s)' \in Nat
    <3>1. scanned' = 0 BY DEF TakeWrites
    <3> QED BY <3>1 DEF Turns
  <2> DEFINE c == Candidate
  <2>1. /\ c \in Slots /\ scanned \in Slots /\ takeNext \in Slots
        /\ c = IF takeNext + scanned < N THEN takeNext + scanned ELSE takeNext + scanned - N
    BY CandidateIsSlot, Wraps DEF IInv, RingTypeOK, Candidate
  <2>2. takeNext' = IF c + 1 < N THEN c + 1 ELSE 0 BY <2>1, Taken, Follows
  <2>3. s # c /\ state[s] = "WRITTEN" BY Taken DEF IInv, RingTypeOK
  <2>4. /\ overtaken'[s] = overtaken[s] + 1 /\ overtaken[s] \in Nat
        /\ overtaken[s] + Ahead(s) < N
        /\ overtaken[s] = 0 \/ scanned <= Ahead(s)
    BY <2>3, Taken DEF IInv, RingTypeOK, Turns
  <2> HIDE DEF c
  <2>5. Ahead(s) # scanned /\ Ahead(s) \in Nat
    BY <2>1, <2>3, CandidateIsSlot, RingAssumption DEF IInv, Ahead, Slots, c
  <2>6. Ahead(s)' = IF scanned < Ahead(s) THEN Ahead(s) - scanned - 1
                    ELSE N + Ahead(s) - scanned - 1
    BY <2>1, <2>2, <2>3, RingAssumption DEF Ahead, Slots
  <2> QED BY <2>1, <2>4, <2>5, <2>6, RingAssumption DEF Slots
<1>9. NoFalseAlarm' /\ ~refused'
    BY DEF IInv, TakeWrites, NoFalseAlarm
<1> QED BY <1>1, <1>2, <1>3, <1>4, <1>5, <1>6, <1>7, <1>8, <1>9 DEF IInv

LEMMA ReleaseReadsKeeps ==
    ASSUME IInv, NEW s \in Slots, ReleaseReads(s)
    PROVE  IInv'
<1>1. RingTypeOK'
  <2>1. swap' \in [Sides -> [slot : Slots \cup {NoSlot}, to : States]]
    <3>1. [slot |-> s, to |-> "FREE"] \in [slot : Slots \cup {NoSlot}, to : States]
      BY DEF States
    <3> QED BY <3>1 DEF IInv, RingTypeOK, ReleaseReads
  <2>2. alarm' \in BOOLEAN /\ mine' \subseteq Slots
    BY DEF IInv, RingTypeOK, ReleaseReads, Alarms
  <2> QED BY <2>1, <2>2 DEF IInv, RingTypeOK, ReleaseReads
<1>2. Birth'
    BY DEF IInv, ReleaseReads, RingTypeOK, Birth
<1>3. LockHeld'
    BY DEF IInv, ReleaseReads, RingTypeOK, LockHeld, Sides
<1>4. OwnersSlots'
    BY DEF IInv, ReleaseReads, Free, RingTypeOK, OwnersSlots
<1>5. NoFalseAlarm' /\ ~refused'
    BY DEF IInv, NoFalseAlarm, OwnersSlots, ReleaseReads, Alarms
<1>6. SlotsApart' /\ MessagesApart' /\ PayloadIntact' /\ Turns'
    BY DEF IInv, ReleaseReads, SlotsApart, MessagesApart, Full, PayloadIntact, Turns, Ahead
<1> QED BY <1>1, <1>2, <1>3, <1>4, <1>5, <1>6 DEF IInv

LEMMA ReleaseWritesKeeps ==
    ASSUME IInv, ReleaseWrites
    PROVE  IInv'
<1>1. RingTypeOK'
    BY DEF IInv, ReleaseWrites, RingTypeOK, States, NoSwap
<1>2. Birth'
    BY DEF IInv, ReleaseWrites, Free, Birth
<1>3. LockHeld'
    BY DEF IInv, ReleaseWrites, LockHeld
<1>4. SlotsApart'
  <2>1. /\ swap["owner"].slot \in Slots /\ state[swap["owner"].slot] \in {"TAKEN", "WRITTEN"}
        /\ state' = [state EXCEPT ![swap["owner"].slot] = "FREE"]
    BY CandidateIsSlot DEF IInv, RingTypeOK, OwnersSlots, ReleaseWrites, Free
  <2>2. \A u \in Threads : pc[u] \in Owning \cup {"claim"} =>
           slot[u] \in Slots /\ slot[u] # swap["owner"].slot
    BY <2>1 DEF IInv, SlotsApart, RingTypeOK
  <2> QED BY <2>1, <2>2 DEF IInv, RingTypeOK, SlotsApart, ReleaseWrites
<1>5. OwnersSlots'
    BY DEF IInv, ReleaseWrites, RingTypeOK, OwnersSlots, Sides
<1>6. MessagesApart'
    BY DEF IInv, ReleaseWrites, MessagesApart, Full
<1>7. PayloadIntact'
    BY DEF IInv, ReleaseWrites, PayloadIntact
<1>8. Turns'
    BY DEF IInv, ReleaseWrites, Turns, Ahead
<1>9. NoFalseAlarm' /\ ~refused'
    BY DEF IInv, ReleaseWrites, NoFalseAlarm
<1> QED BY <1>1, <1>2, <1>3, <1>4, <1>5, <1>6, <1>7, <1>8, <1>9 DEF IInv

LEMMA OwnerClosesKeeps ==
    ASSUME IInv, OwnerCloses
    PROVE  IInv'
<1>1. RingTypeOK'
    BY DEF IInv, OwnerCloses, RingTypeOK
<1>2. Birth'
    BY DEF IInv, OwnerCloses, Birth
<1>3. /\ LockHeld' /\ SlotsApart' /\ OwnersSlots' /\ MessagesApart' /\ PayloadIntact'
      /\ Turns' /\ NoFalseAlarm' /\ ~refused'
    BY DEF IInv, OwnerCloses, LockHeld, SlotsApart, OwnersSlots, Candidate, MessagesApart, Full,
            PayloadIntact, Turns, Ahead, NoFalseAlarm
<1> QED BY <1>1, <1>2, <1>3 DEF IInv

LEMMA DetachKeeps ==
    ASSUME IInv, NEW side \in Sides, Detach(side)
    PROVE  IInv'
<1>1. RingTypeOK'
    BY DEF IInv, Detach, RingTypeOK
<1>2. /\ Birth' /\ LockHeld' /\ SlotsApart' /\ OwnersSlots' /\ MessagesApart'
      /\ PayloadIntact' /\ Turns' /\ NoFalseAlarm' /\ ~refused'
    BY DEF IInv, Detach, Birth, LockHeld, SlotsApart, OwnersSlots, Candidate, MessagesApart,
            Full, PayloadIntact, Turns, Ahead, NoFalseAlarm
<1> QED BY <1>1, <1>2 DEF IInv

LEMMA UnlinkKeeps ==
    ASSUME IInv, Unlink
    PROVE  IInv'
<1>1. RingTypeOK'
    BY DEF IInv, Unlink, RingTypeOK
<1>2. /\ Birth' /\ LockHeld' /\ SlotsApart' /\ OwnersSlots' /\ MessagesApart'
      /\ PayloadIntact' /\ Turns' /\ NoFalseAlarm' /\ ~refused'
    BY DEF IInv, Unlink, Birth, LockHeld, SlotsApart, OwnersSlots, Candidate, MessagesApart,
            Full, PayloadIntact, Turns, Ahead, NoFalseAlarm
<1> QED BY <1>1, <1>2 DEF IInv

LEMMA StepKeeps == ASSUME IInv, [Next]_vars PROVE IInv'
<1>1. CASE UNCHANGED vars
  BY <1>1 DEF vars, IInv, RingTypeOK, NoFalseAlarm, PayloadIntact, Birth, LockHeld, SlotsApart,
              OwnersSlots, MessagesApart, Turns, Full, Candidate, Ahead
<1>2. ASSUME NEW t \in Threads, Submit(t) PROVE IInv'
  BY <1>2, ClaimRefusedKeeps, ClaimLocksKeeps, ClaimReadsKeeps, ClaimWritesKeeps, ClaimFailsKeeps,
     FillBeginsKeeps, FillEndsKeeps, SettleReadsKeeps, SettleWritesKeeps DEF Submit
<1>3. ASSUME NEW t \in Threads, NEW m \in Messages, Enqueue(t, m) PROVE IInv'
  BY <1>3, EnqueueKeeps
<1>4. CASE Take \/ Release
  BY <1>4, TakeReadsKeeps, TakeWritesKeeps, ReleaseReadsKeeps, ReleaseWritesKeeps DEF Take, Release
<1>5. ASSUME NEW side \in Sides, Detach(side) PROVE IInv'
  BY <1>5, DetachKeeps
<1>6. CASE Create \/ Open \/ OwnerCloses \/ Unlink
  BY <1>6, CreateKeeps, OpenKeeps, OwnerClosesKeeps, UnlinkKeeps
<1> QED BY <1>1, <1>2, <1>3, <1>4, <1>5, <1>6 DEF Next

\* The inductive invariant: what shared_ring.py keeps true between any two of
\* its loads and stores.
THEOREM Inductive == Spec => []IInv
BY Base, StepKeeps, PTL DEF Spec

\* A slot is one thread's or the owner's, its payload whole from publish() to
\* release(); no shutdown reads as a protocol error; open() sees a whole ring;
\* take() passes a written slot by fewer times than there are slots.
THEOREM SlotsStayInOneHand == Spec => []SlotsInOneHand
<1>1. ASSUME IInv PROVE SlotsInOneHand
  <2>1. OneClaimant BY <1>1 DEF IInv, OneClaimant, SlotsApart, Owning
  <2>2. OpenSeesWholeRing BY <1>1 DEF IInv, OpenSeesWholeRing, Birth
  <2>3. \A s \in Slots : Ahead(s) \in Nat /\ overtaken[s] \in Nat
    BY <1>1, RingAssumption DEF IInv, RingTypeOK, Ahead, Slots
  <2>4. BoundedOvertaking
    BY <1>1, <2>3, RingAssumption DEF IInv, Turns, BoundedOvertaking
  <2> QED BY <1>1, <2>1, <2>2, <2>4 DEF IInv, SlotsInOneHand, SlotsExclusive
<1> QED BY <1>1, Inductive, PTL

-----------------------------------------------------------------------------
(* The refinement of RingContract.                                         *)

Ready == {bytes[s] : s \in In("WRITTEN")}
Held == {bytes[s] : s \in In("TAKEN")}

LEMMA SameCount == ASSUME NEW S PROVE Contract!Cardinality(S) = Cardinality(S)
BY DEF Contract!Cardinality, Cardinality

LEMMA SlotsFinite == IsFiniteSet(Slots) /\ Cardinality(Slots) = N
<1>1. 0 \in Int /\ N - 1 \in Int BY RingAssumption
<1>2. IsFiniteSet(0 .. N - 1) /\ Cardinality(0 .. N - 1) = IF 0 > N - 1 THEN 0 ELSE N - 1 - 0 + 1
  BY <1>1, FS_Interval
<1> QED BY <1>2, RingAssumption DEF Slots

LEMMA InFinite ==
    ASSUME NEW st
    PROVE  IsFiniteSet(In(st)) /\ Cardinality(In(st)) \in Nat
<1>1. In(st) \in SUBSET Slots BY DEF In
<1> QED BY <1>1, SlotsFinite, FS_Subset, FS_CardinalityType

\* No more messages are in a set of slots than slots.
LEMMA Payloads ==
    ASSUME NEW S, IsFiniteSet(S), NEW f
    PROVE  LET T == {f[s] : s \in S}
           IN  IsFiniteSet(T) /\ Cardinality(T) <= Cardinality(S) /\ Cardinality(T) \in Nat
<1> DEFINE T == {f[s] : s \in S}
<1>1. [s \in S |-> f[s]] \in Surjection(S, T) BY DEF Surjection
<1>2. IsFiniteSet(T) /\ Cardinality(T) <= Cardinality(S) BY <1>1, FS_Surjection
<1> QED BY <1>2, FS_CardinalityType

\* While a slot is free, the contract has room.
LEMMA FreeIsRoom ==
    ASSUME NEW f \in Slots, state[f] = "FREE"
    PROVE  Cardinality(In("CLAIMED")) + Cardinality(Ready) + Cardinality(Held) < N
<1> DEFINE A == In("CLAIMED")  B == In("WRITTEN")  C == In("TAKEN")
<1>1. /\ IsFiniteSet(A) /\ IsFiniteSet(B) /\ IsFiniteSet(C)
      /\ Cardinality(A) \in Nat /\ Cardinality(B) \in Nat /\ Cardinality(C) \in Nat
  BY InFinite
<1>2. A \cap B = {} /\ (A \cup B) \cap C = {} BY DEF In
<1>3. /\ IsFiniteSet(A \cup B)
      /\ Cardinality(A \cup B) = Cardinality(A) + Cardinality(B) - Cardinality(A \cap B)
  BY <1>1, FS_Union
<1>4. /\ IsFiniteSet((A \cup B) \cup C)
      /\ Cardinality((A \cup B) \cup C)
            = Cardinality(A \cup B) + Cardinality(C) - Cardinality((A \cup B) \cap C)
  BY <1>1, <1>3, FS_Union
<1>5. IsFiniteSet(Slots \ {f}) /\ Cardinality(Slots \ {f}) = Cardinality(Slots) - 1
  BY SlotsFinite, FS_RemoveElement
<1>6. (A \cup B) \cup C \in SUBSET (Slots \ {f}) BY DEF In
<1>7. Cardinality((A \cup B) \cup C) <= Cardinality(Slots \ {f}) BY <1>5, <1>6, FS_Subset
<1>8. /\ Cardinality(Ready) <= Cardinality(B) /\ Cardinality(Ready) \in Nat
      /\ Cardinality(Held) <= Cardinality(C) /\ Cardinality(Held) \in Nat
  BY <1>1, Payloads DEF Ready, Held
<1>9. Cardinality(A \cap B) = 0 /\ Cardinality((A \cup B) \cap C) = 0 BY <1>2, FS_EmptySet
<1> HIDE DEF A, B, C
<1>10. Cardinality(A) + Cardinality(B) + Cardinality(C) <= N - 1
  <2>1. Cardinality(A \cup B) = Cardinality(A) + Cardinality(B) BY <1>1, <1>3, <1>9
  <2>2. Cardinality((A \cup B) \cup C) = Cardinality(A) + Cardinality(B) + Cardinality(C)
    BY <1>1, <1>4, <1>9, <2>1
  <2> QED BY <1>5, <1>7, <2>2, SlotsFinite
<1> QED BY <1>1, <1>8, <1>10, RingAssumption DEF A

LEMMA SeenInit == Init => Contract!ContractInit
<1> SUFFICES ASSUME Init PROVE Contract!ContractInit OBVIOUS
<1>1. In("CLAIMED") = {} /\ In("WRITTEN") = {} /\ In("TAKEN") = {} BY DEF Init, In
<1> QED BY <1>1, FS_EmptySet DEF Init, Contract!ContractInit

\* A step that leaves the state bytes and the payloads of full slots alone.
LEMMA SeenStill ==
    ASSUME UNCHANGED <<state, sent, closed>>,
           \A s \in Slots : Full(s) => bytes'[s] = bytes[s]
    PROVE  UNCHANGED Contract!contractVars
<1>1. \A st : In(st)' = In(st) BY DEF In
<1>2. Ready' = Ready /\ Held' = Held BY <1>1 DEF Ready, Held, In, Full
<1> QED BY <1>1, <1>2 DEF Contract!contractVars, Ready, Held

\* A claim reserves room.
LEMMA SeenClaim ==
    ASSUME IInv, NEW t \in Threads, ClaimWrites(t)
    PROVE  Contract!Reserve
<1> DEFINE c == slot[t]
<1>1. /\ c \in Slots /\ state[c] = "FREE" /\ state' = [state EXCEPT ![c] = "CLAIMED"]
      /\ UNCHANGED <<bytes, sent, closed>>
  BY DEF IInv, RingTypeOK, SlotsApart, ClaimWrites
<1>2. /\ In("CLAIMED")' = In("CLAIMED") \cup {c} /\ c \notin In("CLAIMED")
      /\ In("WRITTEN")' = In("WRITTEN") /\ In("TAKEN")' = In("TAKEN")
  BY <1>1 DEF IInv, RingTypeOK, In
<1>3. Cardinality(In("CLAIMED") \cup {c}) = Cardinality(In("CLAIMED")) + 1
  BY <1>2, InFinite, FS_AddElement
<1>4. Ready' = Ready /\ Held' = Held BY <1>1, <1>2 DEF Ready, Held
<1>5. Cardinality(In("CLAIMED")) + Cardinality(Ready) + Cardinality(Held) < N
  BY <1>1, FreeIsRoom
<1> QED
  BY <1>1, <1>2, <1>3, <1>4, <1>5, SameCount
  DEF Contract!Reserve, Contract!Load, Ready, Held

\* A publish sends, an abandon gives the room back.
LEMMA SeenSettle ==
    ASSUME IInv, NEW t \in Threads, SettleWrites(t)
    PROVE  Contract!ContractNext
<1> DEFINE c == slot[t]
<1>1. /\ c \in Slots /\ state[c] = "CLAIMED"
      /\ \A s \in Slots : s # c => state'[s] = state[s]
      /\ bytes' = bytes /\ closed' = closed
  BY SettledSlot DEF SettleWrites
<1>2. state'[c] \in {"WRITTEN", "FREE"} BY SettledSlot
<1>3. In("CLAIMED")' = In("CLAIMED") \ {c} /\ c \in In("CLAIMED") /\ In("TAKEN")' = In("TAKEN")
  BY <1>1, <1>2 DEF In
<1>4. Cardinality(In("CLAIMED") \ {c}) = Cardinality(In("CLAIMED")) - 1
  BY <1>3, InFinite, FS_RemoveElement
<1>5. Cardinality(In("CLAIMED")) \in Nat /\ Cardinality(In("CLAIMED")) > 0
  BY <1>3, InFinite, FS_EmptySet
<1>6. Held' = Held BY <1>1, <1>3 DEF Held
<1>7. CASE pc[t] = "publishing"
  <2>1. bytes[c] = msg[t] /\ msg[t] \in Messages \ sent /\ state'[c] = "WRITTEN"
    BY <1>7, SettledSlot
  <2>2. sent' = sent \cup {msg[t]} BY <1>7 DEF SettleWrites
  <2>3. In("WRITTEN")' = In("WRITTEN") \cup {c} BY <1>1, <2>1 DEF In
  <2>4. Ready' = Ready \cup {msg[t]} BY <1>1, <2>1, <2>3 DEF Ready
  <2>5. PICK m \in Messages : m = msg[t] BY <2>1
  <2>6. Contract!Send(m)
    BY <1>1, <1>3, <1>4, <1>5, <1>6, <2>1, <2>2, <2>4, <2>5 DEF Contract!Send, Ready, Held
  <2> QED BY <2>6 DEF Contract!ContractNext
<1>8. CASE pc[t] # "publishing"
  <2>1. state'[c] = "FREE" /\ sent' = sent BY <1>8, SettledSlot DEF SettleWrites
  <2>2. In("WRITTEN")' = In("WRITTEN") BY <1>1, <2>1 DEF In
  <2>3. Ready' = Ready BY <1>1, <2>2 DEF Ready
  <2>4. Contract!GiveBack
    BY <1>1, <1>3, <1>4, <1>5, <1>6, <2>1, <2>3 DEF Contract!GiveBack, Ready, Held
  <2> QED BY <2>4 DEF Contract!ContractNext
<1> QED BY <1>7, <1>8

\* A take receives the candidate's message: no other slot has it.
LEMMA SeenTake ==
    ASSUME IInv, TakeWrites
    PROVE  Contract!ContractNext
<1> DEFINE c == Candidate
<1>1. /\ c \in Slots /\ state[c] = "WRITTEN" /\ state'[c] = "TAKEN"
      /\ \A s \in Slots : s # c => state'[s] = state[s]
  BY Taken DEF IInv, RingTypeOK
<1>2. UNCHANGED <<bytes, sent, closed>> BY DEF TakeWrites
<1> HIDE DEF c
<1>3. /\ In("CLAIMED")' = In("CLAIMED") /\ In("WRITTEN")' = In("WRITTEN") \ {c}
      /\ In("TAKEN")' = In("TAKEN") \cup {c} /\ c \in In("WRITTEN")
  BY <1>1 DEF In
<1>4. \A s \in In("WRITTEN") : s # c => bytes[s] # bytes[c]
  BY <1>1 DEF IInv, MessagesApart, Full, In
<1>5. PICK m \in Messages : m = bytes[c]
  BY <1>1 DEF IInv, PayloadIntact, RingTypeOK
<1>6. m \in Ready /\ Ready' = Ready \ {m} BY <1>2, <1>3, <1>4, <1>5 DEF Ready
<1>7. Held' = Held \cup {m} BY <1>2, <1>3, <1>5 DEF Held
<1>8. Contract!Receive(m) BY <1>2, <1>3, <1>6, <1>7 DEF Contract!Receive, Ready, Held
<1> QED BY <1>8 DEF Contract!ContractNext

\* A release finishes with the message.
LEMMA SeenRelease ==
    ASSUME IInv, ReleaseWrites
    PROVE  Contract!ContractNext
<1> DEFINE c == swap["owner"].slot
<1>1. /\ c \in Slots /\ state[c] = "TAKEN" /\ state' = [state EXCEPT ![c] = "FREE"]
      /\ UNCHANGED <<bytes, sent, closed>>
  BY DEF IInv, RingTypeOK, OwnersSlots, ReleaseWrites, Free
<1>2. state'[c] = "FREE" /\ \A s \in Slots : s # c => state'[s] = state[s]
  BY <1>1 DEF IInv, RingTypeOK
<1> HIDE DEF c
<1>3. /\ In("CLAIMED")' = In("CLAIMED") /\ In("WRITTEN")' = In("WRITTEN")
      /\ In("TAKEN")' = In("TAKEN") \ {c} /\ c \in In("TAKEN")
  BY <1>1, <1>2 DEF In
<1>4. \A s \in In("TAKEN") : s # c => bytes[s] # bytes[c]
  BY <1>1 DEF IInv, MessagesApart, Full, In
<1>5. PICK m \in Messages : m = bytes[c]
  BY <1>1 DEF IInv, PayloadIntact, RingTypeOK
<1>6. m \in Held /\ Held' = Held \ {m} BY <1>1, <1>3, <1>4, <1>5 DEF Held
<1>7. Ready' = Ready BY <1>1, <1>3 DEF Ready
<1>8. Contract!Finish(m) BY <1>1, <1>3, <1>6, <1>7 DEF Contract!Finish, Ready, Held
<1> QED BY <1>8 DEF Contract!ContractNext

LEMMA SeenNext ==
    ASSUME IInv, [Next]_vars
    PROVE  [Contract!ContractNext]_(Contract!contractVars)
<1>1. CASE UNCHANGED <<state, bytes, sent, closed>> BY <1>1, SeenStill
<1>2. ASSUME NEW t \in Threads, ClaimWrites(t) PROVE Contract!ContractNext
  BY <1>2, SeenClaim DEF Contract!ContractNext
<1>3. ASSUME NEW t \in Threads, SettleWrites(t) PROVE Contract!ContractNext
  BY <1>3, SeenSettle
<1>4. CASE TakeWrites BY <1>4, SeenTake
<1>5. CASE ReleaseWrites BY <1>5, SeenRelease
<1>6. CASE OwnerCloses
  <2>1. UNCHANGED <<state, bytes, sent>> /\ ~closed /\ closed' = TRUE BY <1>6 DEF OwnerCloses
  <2>2. (\A st : In(st)' = In(st)) /\ Ready' = Ready /\ Held' = Held
    BY <2>1 DEF In, Ready, Held
  <2>3. Contract!Close BY <2>1, <2>2 DEF Contract!Close, Ready, Held
  <2> QED BY <2>3 DEF Contract!ContractNext
<1>7. ASSUME NEW t \in Threads, FillBegins(t) \/ FillEnds(t)
      PROVE  UNCHANGED Contract!contractVars
  <2>1. UNCHANGED <<state, sent, closed>> BY <1>7 DEF FillBegins, FillEnds
  <2>2. state[slot[t]] = "CLAIMED"
    BY <1>7 DEF IInv, SlotsApart, Owning, FillBegins, FillEnds
  <2>3. \A s \in Slots : s # slot[t] => bytes'[s] = bytes[s]
    BY <1>7 DEF IInv, RingTypeOK, FillBegins, FillEnds
  <2> QED BY <2>1, <2>2, <2>3, SeenStill DEF Full
<1>8. CASE Create
  BY <1>8, CreateInert, <1>1 DEF Create
<1>9. CASE Next /\ ~Create
  BY <1>1, <1>2, <1>3, <1>4, <1>5, <1>6, <1>7, <1>9
  DEF Next, Submit, Take, Release, Open, Enqueue, ClaimRefused, ClaimLocks, ClaimReads, ClaimFails,
      SettleReads, TakeReads, ReleaseReads, Detach, Unlink
<1> QED BY <1>1, <1>8, <1>9 DEF vars

\* claim(), publish(), abandon(), take() and release() implement a bounded
\* channel that delivers each message at most once.
THEOREM KeepsTheContract == Spec => KeepsContract
<1>1. Init => Contract!ContractInit BY SeenInit
<1>2. IInv /\ [Next]_vars => [Contract!ContractNext]_(Contract!contractVars) BY SeenNext
<1> QED BY <1>1, <1>2, Inductive, PTL DEF Spec, KeepsContract, Contract!ContractSpec


-----------------------------------------------------------------------------
(* The Kafka sink.                                                         *)

\* Where a worker of the sink can be, and the steps at which it holds nothing
\* it has drained.
SinkPlaces == {"idle", "produce", "poll", "drain", "charge"}

SinkTypes ==
    /\ todo \subseteq SinkEvents /\ unacked \subseteq SinkEvents
    /\ tags \subseteq SinkEvents /\ bounced \subseteq SinkEvents
    /\ worker \in [SinkWorkers -> [at : SinkPlaces, event : SUBSET SinkEvents,
                                   drained : SUBSET SinkEvents]]
    /\ told \in [SinkEvents -> Nat]

\* The producer is given each event at most once, so the broker's verdict on it
\* comes at most once.
GivenOnce ==
    /\ todo \cap (unacked \cup bounced) = {}
    /\ unacked \cap bounced = {}
    /\ \A w \in SinkWorkers : worker[w].at = "produce" =>
          /\ worker[w].event \cap (todo \cup unacked \cup bounced) = {}
          /\ \A v \in SinkWorkers : v # w /\ worker[v].at = "produce" =>
                worker[v].event \cap worker[w].event = {}

\* What a drain has taken is in that worker's hands until it is charged.
HandsFull == \A w \in SinkWorkers : worker[w].at # "charge" => worker[w].drained = {}

\* A refused event is in the list, or in one worker's hands, or told.
Kept(e) ==
    /\ e \notin bounced => told[e] = 0 /\ e \notin tags
    /\ e \in tags => told[e] = 0
    /\ \A w \in SinkWorkers : e \in worker[w].drained =>
          /\ e \in bounced /\ told[e] = 0 /\ e \notin tags
          /\ \A v \in SinkWorkers : e \in worker[v].drained => v = w
    /\ told[e] \in {0, 1}
    /\ e \in bounced =>
          e \in tags \/ told[e] = 1 \/ \E w \in SinkWorkers : e \in worker[w].drained
OneKeeper == \A e \in SinkEvents : Kept(e)

SinkInv == SinkTypes /\ GivenOnce /\ HandsFull /\ OneKeeper

LEMMA SinkBase == Sink!Init => SinkInv
BY DEF Sink!Init, Sink!Idle, SinkInv, SinkTypes, SinkPlaces, GivenOnce, HandsFull, OneKeeper, Kept

\* Steps that touch neither the list nor what is told of it.
LEMMA SinkPlain ==
    ASSUME SinkInv,
           \/ \E w \in SinkWorkers, e \in SinkEvents :
                 Sink!EmitClosed(w, e) \/ Sink!EmitBegins(w, e)
           \/ \E w \in SinkWorkers : Sink!Produce(w) \/ Sink!ProduceRefused(w) \/ Sink!Emitted(w)
           \/ Sink!Close \/ UNCHANGED Sink!vars
    PROVE  SinkInv'
<1>1. UNCHANGED <<tags, bounced, told>>
  BY DEF Sink!EmitClosed, Sink!EmitBegins, Sink!Produce, Sink!ProduceRefused, Sink!Emitted,
         Sink!Close, Sink!vars
<1>2. CASE UNCHANGED <<todo, unacked, worker>>
  BY <1>1, <1>2 DEF SinkInv, SinkTypes, GivenOnce, HandsFull, OneKeeper, Kept
<1>3. ASSUME NEW w \in SinkWorkers, NEW x \in [at : SinkPlaces, event : SUBSET SinkEvents,
                                              drained : SUBSET SinkEvents],
             worker[w].at # "charge", worker' = [worker EXCEPT ![w] = x],
             x.at # "charge", x.drained = {},
             todo' \subseteq todo, unacked' \subseteq SinkEvents,
             unacked' \subseteq unacked \cup (IF worker[w].at = "produce" THEN worker[w].event ELSE {}),
             unacked' # unacked => x.at # "produce",
             x.at = "produce" => x.event \subseteq todo \ todo'
      PROVE  SinkInv'
  <2>1. SinkTypes' BY <1>1, <1>3 DEF SinkInv, SinkTypes
  <2>2. /\ worker \in [SinkWorkers -> [at : SinkPlaces, event : SUBSET SinkEvents,
                                       drained : SUBSET SinkEvents]]
        /\ worker'[w] = x /\ \A v \in SinkWorkers : v # w => worker'[v] = worker[v]
        /\ worker[w].drained = {}
    BY <1>3 DEF SinkInv, SinkTypes, HandsFull
  <2>3. GivenOnce'
    <3>1. todo' \cap (unacked' \cup bounced') = {} /\ unacked' \cap bounced' = {}
      BY <1>1, <1>3 DEF SinkInv, GivenOnce
    <3>2. ASSUME NEW v \in SinkWorkers, worker'[v].at = "produce"
          PROVE  worker'[v].event \cap (todo' \cup unacked' \cup bounced') = {}
      <4>1. CASE v = w BY <1>1, <1>3, <2>2, <3>2, <4>1 DEF SinkInv, GivenOnce
      <4>2. CASE v # w BY <1>1, <1>3, <2>2, <3>2, <4>2 DEF SinkInv, GivenOnce
      <4> QED BY <4>1, <4>2
    <3>3. ASSUME NEW v \in SinkWorkers, NEW u \in SinkWorkers, v # u,
                 worker'[v].at = "produce", worker'[u].at = "produce"
          PROVE  worker'[u].event \cap worker'[v].event = {}
      <4>1. CASE v = w BY <1>3, <2>2, <3>3, <4>1 DEF SinkInv, GivenOnce
      <4>2. CASE u = w BY <1>3, <2>2, <3>3, <4>2 DEF SinkInv, GivenOnce
      <4>3. CASE u # w /\ v # w BY <2>2, <3>3, <4>3 DEF SinkInv, GivenOnce
      <4> QED BY <4>1, <4>2, <4>3
    <3> QED BY <3>1, <3>2, <3>3 DEF GivenOnce
  <2>4. \A v \in SinkWorkers : worker'[v].drained = worker[v].drained BY <1>3, <2>2
  <2>5. HandsFull' BY <1>3, <2>2 DEF SinkInv, HandsFull
  <2>6. OneKeeper' BY <1>1, <2>4 DEF SinkInv, OneKeeper, Kept
  <2> QED BY <2>1, <2>3, <2>5, <2>6 DEF SinkInv
<1> DEFINE Worker == [at : SinkPlaces, event : SUBSET SinkEvents, drained : SUBSET SinkEvents]
<1>4. worker \in [SinkWorkers -> Worker] /\ todo \subseteq SinkEvents /\ unacked \subseteq SinkEvents
  BY DEF SinkInv, SinkTypes
<1>5. ASSUME NEW w \in SinkWorkers, NEW e \in SinkEvents, Sink!EmitClosed(w, e)
      PROVE  SinkInv'
  <2> DEFINE x == [at |-> "drain", event |-> {e}, drained |-> {}]
  <2>1. x \in Worker BY DEF SinkPlaces
  <2>2. /\ worker[w].at = "idle" /\ worker' = [worker EXCEPT ![w] = x]
        /\ todo' = todo \ {e} /\ unacked' = unacked
    BY <1>5 DEF Sink!EmitClosed
  <2> QED BY <1>3, <1>4, <2>1, <2>2
<1>6. ASSUME NEW w \in SinkWorkers, NEW e \in SinkEvents, Sink!EmitBegins(w, e)
      PROVE  SinkInv'
  <2> DEFINE x == [at |-> "produce", event |-> {e}, drained |-> {}]
  <2>1. x \in Worker BY DEF SinkPlaces
  <2>2. /\ worker[w].at = "idle" /\ worker' = [worker EXCEPT ![w] = x]
        /\ todo' = todo \ {e} /\ unacked' = unacked /\ e \in todo
    BY <1>6 DEF Sink!EmitBegins
  <2> QED BY <1>3, <1>4, <2>1, <2>2
<1>7. ASSUME NEW w \in SinkWorkers, Sink!Produce(w) \/ Sink!ProduceRefused(w) \/ Sink!Emitted(w)
      PROVE  SinkInv'
  <2>1. PICK to \in {"poll", "drain"} : worker' = [worker EXCEPT ![w].at = to]
    BY <1>7 DEF Sink!Produce, Sink!ProduceRefused, Sink!Emitted, Sink!Goes
  <2> DEFINE x == [worker[w] EXCEPT !.at = to]
  <2>2. /\ worker[w].at \in {"produce", "poll"} /\ todo' = todo
        /\ \/ unacked' = unacked
           \/ worker[w].at = "produce" /\ unacked' = unacked \cup worker[w].event
    BY <1>7 DEF Sink!Produce, Sink!ProduceRefused, Sink!Emitted
  <2>3. worker[w] \in Worker /\ worker[w].drained = {} BY <1>4, <2>2 DEF SinkInv, HandsFull
  <2>4. x \in Worker /\ x.at = to /\ x.drained = {} BY <2>3 DEF SinkPlaces
  <2>5. worker' = [worker EXCEPT ![w] = x] BY <2>1
  <2> HIDE DEF x
  <2>6. unacked' \subseteq SinkEvents BY <1>4, <2>2, <2>3
  <2> QED BY <1>3, <1>4, <2>2, <2>4, <2>5, <2>6
<1> QED BY <1>1, <1>2, <1>5, <1>6, <1>7 DEF Sink!Close, Sink!vars

\* The broker's verdict.
LEMMA SinkVerdict == ASSUME SinkInv, NEW e \in SinkEvents, Sink!OnDelivery(e) PROVE SinkInv'
<1>1. /\ e \in unacked /\ unacked' = unacked \ {e} /\ UNCHANGED <<todo, worker, told>>
      /\ \/ UNCHANGED <<tags, bounced>>
         \/ tags' = tags \cup {e} /\ bounced' = bounced \cup {e}
  BY DEF Sink!OnDelivery
<1>2. e \notin bounced /\ e \notin todo BY <1>1 DEF SinkInv, GivenOnce
<1>3. SinkTypes' BY <1>1 DEF SinkInv, SinkTypes
<1>4. GivenOnce' BY <1>1, <1>2 DEF SinkInv, GivenOnce
<1>5. HandsFull' BY <1>1 DEF SinkInv, HandsFull
<1>6. OneKeeper' BY <1>1, <1>2 DEF SinkInv, OneKeeper, Kept
<1> QED BY <1>3, <1>4, <1>5, <1>6 DEF SinkInv

LEMMA SinkDrain == ASSUME SinkInv, NEW w \in SinkWorkers, Sink!Drain(w) PROVE SinkInv'
<1>1. /\ worker[w].at = "drain" /\ tags' = {}
      /\ worker' = [worker EXCEPT ![w].at = "charge", ![w].drained = tags]
      /\ UNCHANGED <<todo, unacked, bounced, told>>
  BY DEF Sink!Drain
<1>2. /\ worker \in [SinkWorkers -> [at : SinkPlaces, event : SUBSET SinkEvents,
                                     drained : SUBSET SinkEvents]]
      /\ tags \subseteq SinkEvents
  BY DEF SinkInv, SinkTypes
<1>3. /\ worker'[w].at = "charge" /\ worker'[w].drained = tags
      /\ worker[w].drained = {}
      /\ \A v \in SinkWorkers : v # w => worker'[v] = worker[v]
  BY <1>1, <1>2 DEF SinkInv, HandsFull
<1>4. SinkTypes' BY <1>1, <1>2 DEF SinkInv, SinkTypes, SinkPlaces
<1>5. GivenOnce' BY <1>1, <1>3 DEF SinkInv, GivenOnce
<1>6. HandsFull' BY <1>3 DEF SinkInv, HandsFull
<1>7. OneKeeper'
  <2>1. ASSUME NEW e \in SinkEvents, e \in tags
        PROVE  /\ e \in bounced' /\ told'[e] = 0 /\ e \notin tags' /\ e \in worker'[w].drained
               /\ \A v \in SinkWorkers : v # w => e \notin worker'[v].drained
    BY <1>1, <1>3, <2>1 DEF SinkInv, OneKeeper, Kept
  <2>2. ASSUME NEW e \in SinkEvents, e \notin tags
        PROVE  /\ told'[e] = told[e] /\ e \notin tags'
               /\ \A v \in SinkWorkers : e \in worker'[v].drained <=> e \in worker[v].drained
    BY <1>1, <1>3, <2>2
  <2> SUFFICES ASSUME NEW e \in SinkEvents PROVE Kept(e)' BY DEF OneKeeper
  <2>3. CASE e \in tags BY <2>1, <2>3 DEF Kept
  <2>4. CASE e \notin tags
    <3>1. Kept(e) /\ bounced' = bounced BY <1>1 DEF SinkInv, OneKeeper
    <3> QED BY <2>2, <2>4, <3>1 DEF Kept
  <2> QED BY <2>3, <2>4
<1> QED BY <1>4, <1>5, <1>6, <1>7 DEF SinkInv

LEMMA SinkCharge == ASSUME SinkInv, NEW w \in SinkWorkers, Sink!Charge(w) PROVE SinkInv'
<1>1. /\ worker[w].at = "charge"
      /\ told' = [e \in SinkEvents |-> told[e] + (IF e \in worker[w].drained THEN 1 ELSE 0)]
      /\ worker' = [worker EXCEPT ![w] = [at |-> "idle", event |-> {}, drained |-> {}]]
      /\ UNCHANGED <<todo, unacked, tags, bounced>>
  BY DEF Sink!Charge, Sink!Tell, Sink!Idle
<1>2. /\ worker \in [SinkWorkers -> [at : SinkPlaces, event : SUBSET SinkEvents,
                                     drained : SUBSET SinkEvents]]
      /\ told \in [SinkEvents -> Nat]
  BY DEF SinkInv, SinkTypes
<1>3. /\ worker'[w].at = "idle" /\ worker'[w].drained = {}
      /\ \A v \in SinkWorkers : v # w => worker'[v] = worker[v]
  BY <1>1, <1>2
<1>4. \A e \in SinkEvents :
         told'[e] = IF e \in worker[w].drained THEN told[e] + 1 ELSE told[e]
  BY <1>1, <1>2
<1>5. SinkTypes'
  <2>1. told' \in [SinkEvents -> Nat] BY <1>1, <1>2
  <2> QED BY <1>1, <1>2, <2>1 DEF SinkInv, SinkTypes, SinkPlaces
<1>6. GivenOnce' BY <1>1, <1>3 DEF SinkInv, GivenOnce
<1>7. HandsFull' BY <1>3 DEF SinkInv, HandsFull
<1>8. OneKeeper'
  <2>1. ASSUME NEW e \in SinkEvents, e \in worker[w].drained
        PROVE  /\ told'[e] = 1 /\ e \in bounced' /\ e \notin tags'
               /\ \A v \in SinkWorkers : e \notin worker'[v].drained
    BY <1>1, <1>3, <1>4, <2>1 DEF SinkInv, OneKeeper, Kept
  <2>2. ASSUME NEW e \in SinkEvents, e \notin worker[w].drained
        PROVE  /\ told'[e] = told[e]
               /\ \A v \in SinkWorkers : e \in worker'[v].drained <=> e \in worker[v].drained
    BY <1>3, <1>4, <2>2
  <2> QED BY <1>1, <2>1, <2>2 DEF SinkInv, OneKeeper, Kept
<1> QED BY <1>5, <1>6, <1>7, <1>8 DEF SinkInv

LEMMA SinkFlush == ASSUME SinkInv, Sink!Flushed PROVE SinkInv'
<1>1. /\ told' = [e \in SinkEvents |-> told[e] + (IF e \in tags THEN 1 ELSE 0)]
      /\ tags' = {} /\ UNCHANGED <<todo, worker, unacked, bounced>>
  BY DEF Sink!Flushed, Sink!Tell
<1>2. told \in [SinkEvents -> Nat] BY DEF SinkInv, SinkTypes
<1>3. \A e \in SinkEvents : told'[e] = IF e \in tags THEN told[e] + 1 ELSE told[e]
  BY <1>1, <1>2
<1>4. SinkTypes'
  <2>1. told' \in [SinkEvents -> Nat] BY <1>1, <1>2
  <2> QED BY <1>1, <2>1 DEF SinkInv, SinkTypes
<1>5. GivenOnce' BY <1>1 DEF SinkInv, GivenOnce
<1>6. HandsFull' BY <1>1 DEF SinkInv, HandsFull
<1>7. OneKeeper' BY <1>1, <1>3 DEF SinkInv, OneKeeper, Kept
<1> QED BY <1>4, <1>5, <1>6, <1>7 DEF SinkInv

LEMMA SinkKeeps == ASSUME SinkInv, [Sink!Next]_(Sink!vars) PROVE SinkInv'
BY SinkPlain, SinkVerdict, SinkDrain, SinkCharge, SinkFlush DEF Sink!Next

\* One keeper at most, so the three counts add up.
LEMMA SinkAddsUp == SinkInv => Sink!RefusalsToldOnce
<1> SUFFICES ASSUME SinkInv, NEW e \in SinkEvents
             PROVE  told[e] + Sink!Cardinality(Sink!InHand(e)) + (IF e \in tags THEN 1 ELSE 0)
                      = IF e \in bounced THEN 1 ELSE 0
  BY DEF Sink!RefusalsToldOnce
<1> DEFINE hands == Sink!InHand(e)
<1>1. hands = {w \in SinkWorkers : e \in worker[w].drained} BY DEF Sink!InHand
<1>2. Sink!Cardinality(hands) = Cardinality(hands) BY DEF Sink!Cardinality, Cardinality
<1>3. told[e] \in Nat BY DEF SinkInv, SinkTypes
<1>4. CASE \E w \in SinkWorkers : e \in worker[w].drained
  <2>1. PICK w \in SinkWorkers : e \in worker[w].drained BY <1>4
  <2>2. hands = {w} /\ told[e] = 0 /\ e \notin tags /\ e \in bounced
    BY <1>1, <2>1 DEF SinkInv, OneKeeper, Kept
  <2>3. Cardinality(hands) = 1 BY <2>2, FS_Singleton
  <2> QED BY <1>2, <2>2, <2>3
<1>5. CASE \A w \in SinkWorkers : e \notin worker[w].drained
  <2>1. hands = {} BY <1>1, <1>5
  <2>2. Cardinality(hands) = 0 BY <2>1, FS_EmptySet
  <2>3. Sink!Cardinality(hands) = 0 BY <1>2, <2>2
  <2>4. told[e] + (IF e \in tags THEN 1 ELSE 0) = IF e \in bounced THEN 1 ELSE 0
    BY <1>3, <1>5 DEF SinkInv, OneKeeper, Kept
  <2> QED BY <1>3, <2>3, <2>4
<1> QED BY <1>4, <1>5

transportVars == <<part, vars, wireVars, sinkVars, intakeVars, planVars>>

\* However many frames, workers and messages the producer holds, whenever the
\* broker answers and the sink closes: an event the broker refused is charged
\* to its own frame once, and one that it did not is charged to nobody.
THEOREM RefusalsAreTold == MCSpec => []RefusalsToldOnce
<1> DEFINE I == part = "sink" => SinkInv
<1>1. MCInit => I BY SinkBase DEF MCInit
<1>2. I /\ [MCNext]_transportVars => I'
  <2> SUFFICES ASSUME I, [MCNext]_transportVars, part' = "sink" PROVE SinkInv' OBVIOUS
  <2>1. part = "sink" /\ [Sink!Next]_(Sink!vars)
    BY DEF MCNext, transportVars, sinkVars, Sink!vars
  <2> QED BY <2>1, SinkKeeps
<1>3. I => RefusalsToldOnce BY SinkAddsUp DEF RefusalsToldOnce
<1> QED BY <1>1, <1>2, <1>3, PTL DEF MCSpec, transportVars


-----------------------------------------------------------------------------
(* The intake of decoded frames.                                           *)

IntakePlaces == {"off", "reading", "publishing", "dropping", "queueing", "ended"}
HeldFrames == [of : Nat, slot : Nat, buf : Buffers \cup {"none"}]
CameraStates ==
    [at : IntakePlaces, session : Nat, decoder : BOOLEAN, ready : Nat, frame : HeldFrames]
SessionStates == [open : BOOLEAN, mapped : SUBSET Nat]
BufferStates == [at : {"free", "pool", "frame"}, device : Int, size : Nat]
QueuedFrames == [cam : Cameras, buf : Buffers \cup {"none"}, of : Nat, slot : Nat]

IntakeTypes ==
    /\ setup \in Setups
    /\ cam \in [Cameras -> CameraStates]
    /\ session \in Seq(SessionStates)
    /\ buffer \in [Buffers -> BufferStates]
    /\ lane \in [Intake!Lanes -> Seq(QueuedFrames)]
    /\ busy \in [Intake!Lanes -> Seq(QueuedFrames)]
    /\ \A l \in Intake!Lanes : Len(busy[l]) <= 1 /\ Len(lane[l]) <= Intake!PerLane

\* A buffer with a frame in it is on the GPU its camera decodes on, which is one
\* of the run's, and as large as the camera's pictures.
FitFor(b, c) ==
    /\ ~setup.host /\ b \in Buffers
    /\ buffer[b].device = setup.home[c] /\ buffer[b].size = SizeOf[c]

\* What a camera's thread holds, wherever it is.
CameraHolds(c) ==
    /\ cam[c].ready > 0 => ~setup.host
    /\ cam[c].frame.buf # "none" => cam[c].at = "queueing"
    /\ cam[c].at \in {"off", "ended"} => cam[c].session = 0 /\ cam[c].frame.of = 0
    /\ cam[c].at = "reading" => cam[c].frame.of = 0 /\ (setup.host <=> cam[c].session = 0)
    /\ cam[c].at = "publishing" =>
          ~setup.host /\ cam[c].session # 0 /\ cam[c].frame.of = cam[c].session
    /\ cam[c].at = "dropping" => cam[c].session = 0 /\ cam[c].frame.of # 0
    /\ cam[c].at = "queueing" =>
          /\ cam[c].frame.of = 0
          /\ setup.host => cam[c].session = 0 /\ cam[c].frame.buf = "none"
          /\ ~setup.host => /\ cam[c].session # 0 /\ FitFor(cam[c].frame.buf, c)
                            /\ Intake!Driven(setup.home[c])

\* The session a camera keeps alive, by its source or by the surface it holds.
SessionOf(c) == IF cam[c].session # 0 THEN cam[c].session ELSE cam[c].frame.of

\* A session's surfaces are those its one camera holds.
SessionFits(c) ==
    SessionOf(c) # 0 =>
        /\ SessionOf(c) \in 1 .. Len(session)
        /\ session[SessionOf(c)].mapped =
              IF cam[c].frame.of = 0 THEN {} ELSE {cam[c].frame.slot}
        /\ cam[c].session = 0 => ~session[SessionOf(c)].open

Gone(s) == ~session[s].open /\ session[s].mapped = {}

SessionsApart ==
    /\ \A c \in Cameras : SessionFits(c)
    /\ \A c, d \in Cameras : SessionOf(c) = SessionOf(d) => SessionOf(c) = 0 \/ c = d
    /\ \A s \in 1 .. Len(session) : (\A c \in Cameras : SessionOf(c) # s) => Gone(s)

\* Where the pixels in a buffer are.
WithCamera(b, c) == cam[c].frame.buf = b
InLane(b, l, n) == n \in 1 .. Len(lane[l]) /\ lane[l][n].buf = b
WithWorker(b, l) == busy[l] # <<>> /\ busy[l][1].buf = b

HeldOnce(b) ==
    /\ buffer[b].at = "frame" <=>
          \/ \E c \in Cameras : WithCamera(b, c)
          \/ \E l \in Intake!Lanes, n \in Nat : InLane(b, l, n)
          \/ \E l \in Intake!Lanes : WithWorker(b, l)
    /\ \A c, d \in Cameras : WithCamera(b, c) /\ WithCamera(b, d) => c = d
    /\ \A k, l \in Intake!Lanes, m, n \in Nat : InLane(b, k, m) /\ InLane(b, l, n) => k = l /\ m = n
    /\ \A k, l \in Intake!Lanes : WithWorker(b, k) /\ WithWorker(b, l) => k = l
    /\ \A c \in Cameras, l \in Intake!Lanes, n \in Nat : ~(WithCamera(b, c) /\ InLane(b, l, n))
    /\ \A c \in Cameras, l \in Intake!Lanes : ~(WithCamera(b, c) /\ WithWorker(b, l))
    /\ \A k, l \in Intake!Lanes, n \in Nat : ~(InLane(b, k, n) /\ WithWorker(b, l))

\* A queued frame holds no surface, and its buffer fits its camera and its lane.
LaneTakes(f, l) ==
    /\ f.of = 0
    /\ f.buf # "none" => FitFor(f.buf, f.cam) /\ setup.devices[l] = setup.home[f.cam]
LanesFit ==
    \A l \in Intake!Lanes :
        /\ \A n \in 1 .. Len(lane[l]) : LaneTakes(lane[l][n], l)
        /\ busy[l] # <<>> => LaneTakes(busy[l][1], l)

PoolBounded ==
    \A device \in Int, size \in Nat : Cardinality(Intake!Idle(device, size)) <= MaxPooled

IntakeInv ==
    /\ IntakeTypes /\ (\A c \in Cameras : CameraHolds(c)) /\ SessionsApart
    /\ (\A b \in Buffers : HeldOnce(b)) /\ LanesFit /\ PoolBounded

-----------------------------------------------------------------------------
\* A run has at least one lane, and a lane room for at least one frame.
LEMMA LaneFacts ==
    ASSUME IntakeTypes
    PROVE  /\ setup.devices \in Seq(Nat) /\ Len(setup.devices) \in Nat \ {0}
           /\ setup.host \in BOOLEAN /\ setup.perDevice \in BOOLEAN
           /\ setup.home \in [Cameras -> Int]
           /\ setup.host => Intake!LaneCount(setup) = 1
           /\ ~setup.host => Intake!LaneCount(setup) = Len(setup.devices)
           /\ Intake!LaneCount(setup) \in Nat \ {0}
           /\ Intake!PerLane \in 1 .. Capacity
<1> DEFINE k == Intake!LaneCount(setup)
<1>1. /\ setup.devices \in Seq(Nat) /\ setup.devices # <<>>
      /\ setup.host \in BOOLEAN /\ setup.perDevice \in BOOLEAN
      /\ setup.host => ~setup.perDevice
      /\ ~setup.host => setup.perDevice \/ Len(setup.devices) = 1
      /\ setup.home \in [Cameras -> Int]
  BY TransportAssumption DEF TransportAssumption, IntakeTypes
<1>2. Len(setup.devices) \in Nat \ {0} BY <1>1
<1>3. k \in Nat \ {0} BY <1>1, <1>2 DEF Intake!LaneCount
<1>4. Intake!PerLane \in 1 .. Capacity
  <2>1. Capacity \in Nat \ {0} BY TransportAssumption DEF TransportAssumption
  <2> HIDE DEF k
  <2>2. Capacity \div k \in Nat /\ Capacity \div k <= Capacity BY <1>3, <2>1
  <2>3. Intake!PerLane = IF Capacity \div k > 1 THEN Capacity \div k ELSE 1
    BY DEF Intake!PerLane, k
  <2> QED BY <2>1, <2>2, <2>3
<1> QED BY <1>1, <1>2, <1>3, <1>4 DEF Intake!LaneCount

\* A camera's step on the sessions: it may open one, or let go of its own.
SessionMoves(c) ==
    /\ session' \in Seq(SessionStates) /\ Len(session') >= Len(session)
    /\ \A s \in 1 .. Len(session) : s # SessionOf(c) => session'[s] = session[s]
    /\ SessionOf(c)' \in {0, SessionOf(c), Len(session) + 1}
    /\ \A s \in 1 .. Len(session') : s <= Len(session) \/ s = SessionOf(c)'
    /\ SessionFits(c)'
    /\ \A s \in 1 .. Len(session) : s = SessionOf(c) /\ SessionOf(c)' # s => Gone(s)'

LEMMA SessionsStep ==
    ASSUME IntakeTypes, SessionsApart, NEW c \in Cameras, SessionMoves(c),
           \A d \in Cameras \ {c} : cam'[d] = cam[d]
    PROVE  SessionsApart'
<1>1. session \in Seq(SessionStates) /\ Len(session) \in Nat /\ Len(session') \in Nat
  BY DEF IntakeTypes, SessionMoves
<1>2. \A d \in Cameras \ {c} : SessionOf(d)' = SessionOf(d) BY DEF SessionOf
<1>3. \A d \in Cameras : SessionOf(d) \in Nat
  BY DEF IntakeTypes, SessionOf, CameraStates, HeldFrames
<1>4. \A d \in Cameras : SessionOf(d) # 0 => SessionOf(d) \in 1 .. Len(session)
  BY DEF SessionsApart, SessionFits
<1>5. ASSUME NEW d \in Cameras PROVE SessionFits(d)'
  <2>1. CASE d = c BY <2>1 DEF SessionMoves
  <2>2. CASE d # c
    <3>1. SUFFICES ASSUME SessionOf(d) # 0 PROVE SessionFits(d)' BY <1>2, <2>2 DEF SessionFits
    <3>2. SessionOf(d) # SessionOf(c) BY <2>2, <3>1 DEF SessionsApart
    <3>3. session'[SessionOf(d)] = session[SessionOf(d)] BY <1>4, <3>1, <3>2 DEF SessionMoves
    <3>4. SessionOf(d) \in 1 .. Len(session') BY <1>1, <1>4, <3>1 DEF SessionMoves
    <3>5. cam'[d] = cam[d] /\ SessionFits(d) BY <2>2 DEF SessionsApart
    <3> QED BY <1>2, <2>2, <3>1, <3>3, <3>4, <3>5 DEF SessionFits
  <2> QED BY <2>1, <2>2
<1>6. ASSUME NEW d \in Cameras, NEW e \in Cameras, SessionOf(d)' = SessionOf(e)', d # e
      PROVE  SessionOf(d)' = 0
  <2>1. CASE d # c /\ e # c BY <1>2, <1>6, <2>1 DEF SessionsApart
  <2>2. CASE d = c \/ e = c
    <3>1. PICK f \in Cameras \ {c} : SessionOf(f)' = SessionOf(c)' /\ SessionOf(d)' = SessionOf(f)'
      BY <1>6, <2>2
    <3>2. SessionOf(f) # Len(session) + 1 BY <1>1, <1>3, <1>4
    <3>3. SessionOf(f) = SessionOf(c) => SessionOf(f) = 0 BY DEF SessionsApart
    <3> QED BY <1>2, <3>1, <3>2, <3>3 DEF SessionMoves
  <2> QED BY <2>1, <2>2
<1>7. ASSUME NEW s \in 1 .. Len(session'), \A d \in Cameras : SessionOf(d)' # s
      PROVE  Gone(s)'
  <2>1. s \in 1 .. Len(session) BY <1>1, <1>7 DEF SessionMoves
  <2>2. CASE s = SessionOf(c) BY <1>7, <2>1, <2>2 DEF SessionMoves
  <2>3. CASE s # SessionOf(c)
    <3>1. \A d \in Cameras : SessionOf(d) # s BY <1>2, <1>7, <2>3
    <3>2. Gone(s) BY <2>1, <3>1 DEF SessionsApart
    <3>3. session'[s] = session[s] BY <2>1, <2>3 DEF SessionMoves
    <3> QED BY <3>2, <3>3 DEF Gone
  <2> QED BY <2>2, <2>3
<1> QED BY <1>5, <1>6, <1>7 DEF SessionsApart

\* A camera's step that moves no pixels.
LEMMA CameraSteps ==
    ASSUME IntakeInv, NEW c \in Cameras, NEW x \in CameraStates,
           cam' = [cam EXCEPT ![c] = x], UNCHANGED <<setup, buffer, lane, busy>>,
           x.frame.buf = "none", cam[c].frame.buf = "none",
           CameraHolds(c)', SessionMoves(c)
    PROVE  IntakeInv'
<1>1. cam \in [Cameras -> CameraStates] BY DEF IntakeInv, IntakeTypes
<1>2. cam'[c] = x /\ \A d \in Cameras \ {c} : cam'[d] = cam[d] BY <1>1
<1>3. \A d \in Cameras : cam'[d].frame.buf = cam[d].frame.buf BY <1>2
<1>4. Intake!Lanes' = Intake!Lanes /\ Intake!PerLane' = Intake!PerLane
  BY DEF Intake!Lanes, Intake!PerLane
<1>5. IntakeTypes'
  <2>1. cam' \in [Cameras -> CameraStates] BY <1>1
  <2> QED BY <1>4, <2>1 DEF IntakeInv, IntakeTypes, SessionMoves
<1>6. ASSUME NEW d \in Cameras PROVE CameraHolds(d)'
  <2>1. CASE d # c
    <3>1. cam'[d] = cam[d] /\ CameraHolds(d) BY <1>2, <2>1 DEF IntakeInv
    <3> QED BY <3>1 DEF CameraHolds, FitFor, Intake!Driven
  <2> QED BY <2>1
<1>7. SessionsApart' BY <1>2, SessionsStep DEF IntakeInv
<1>8. ASSUME NEW b \in Buffers PROVE HeldOnce(b)'
  <2>1. HeldOnce(b) BY DEF IntakeInv
  <2> QED BY <1>3, <1>4, <2>1 DEF HeldOnce, WithCamera, InLane, WithWorker
<1>9. LanesFit' BY <1>4 DEF IntakeInv, LanesFit, LaneTakes, FitFor
<1>10. PoolBounded' BY DEF IntakeInv, PoolBounded, Intake!Idle
<1> QED BY <1>5, <1>6, <1>7, <1>8, <1>9, <1>10 DEF IntakeInv

\* What it takes to know that a session's step is the camera's own: nothing but
\* entry s changes, which the camera had.
LEMMA OwnSession ==
    ASSUME IntakeTypes, SessionsApart, NEW c \in Cameras,
           session' \in Seq(SessionStates), Len(session') = Len(session),
           \A s \in 1 .. Len(session) : s # SessionOf(c) => session'[s] = session[s],
           \/ SessionOf(c)' = SessionOf(c) /\ SessionFits(c)'
           \/ /\ SessionOf(c)' = 0
              /\ \A s \in 1 .. Len(session) : s = SessionOf(c) => Gone(s)'
    PROVE  SessionMoves(c)
<1>1. Len(session) \in Nat BY DEF IntakeTypes
<1>2. SessionFits(c)' BY DEF SessionFits
<1> QED BY <1>1, <1>2 DEF SessionMoves

\* A step that touches nothing the invariant speaks of.
LEMMA IntakeQuiet ==
    ASSUME IntakeInv, UNCHANGED <<setup, cam, session, buffer, lane, busy>>
    PROVE  IntakeInv'
<1>1. Intake!Lanes' = Intake!Lanes /\ Intake!PerLane' = Intake!PerLane
  BY DEF Intake!Lanes, Intake!PerLane
<1>2. IntakeTypes' BY <1>1 DEF IntakeInv, IntakeTypes
<1>3. \A c \in Cameras : CameraHolds(c)'
  BY DEF IntakeInv, CameraHolds, FitFor, Intake!Driven
<1>4. SessionsApart' BY DEF IntakeInv, SessionsApart, SessionFits, SessionOf, Gone
<1>5. ASSUME NEW b \in Buffers PROVE HeldOnce(b)'
  <2>1. HeldOnce(b) BY DEF IntakeInv
  <2> QED BY <1>1, <2>1 DEF HeldOnce, WithCamera, InLane, WithWorker
<1>6. LanesFit' BY <1>1 DEF IntakeInv, LanesFit, LaneTakes, FitFor
<1>7. PoolBounded' BY DEF IntakeInv, PoolBounded, Intake!Idle
<1> QED BY <1>2, <1>3, <1>4, <1>5, <1>6, <1>7 DEF IntakeInv

LEMMA ConnectKeeps == ASSUME IntakeInv, NEW c \in Cameras, Intake!Connect(c) PROVE IntakeInv'
<1>1. /\ cam[c].at = "off" /\ cam[c] \in CameraStates /\ CameraHolds(c)
      /\ session \in Seq(SessionStates) /\ Len(session) \in Nat
      /\ UNCHANGED <<setup, buffer, lane, busy>>
      /\ cam \in [Cameras -> CameraStates] /\ IntakeTypes /\ SessionsApart
  BY DEF IntakeInv, IntakeTypes, Intake!Connect
<1>2. cam[c].session = 0 /\ cam[c].frame.of = 0 /\ cam[c].frame.buf = "none" /\ SessionOf(c) = 0
  BY <1>1 DEF CameraHolds, SessionOf
<1>3. CASE setup.host
  <2> DEFINE x == [Intake!Off EXCEPT !.at = "reading"]
  <2>1. x \in CameraStates /\ x.frame.buf = "none" /\ x.frame.of = 0 /\ x.session = 0
        /\ x.at = "reading" /\ x.ready = 0
    BY DEF Intake!Off, Intake!NoFrame, CameraStates, HeldFrames, IntakePlaces
  <2>2. cam' = [cam EXCEPT ![c] = x] /\ session' = session BY <1>3 DEF Intake!Connect
  <2> HIDE DEF x
  <2>3. cam'[c] = x BY <1>1, <2>2
  <2>4. CameraHolds(c)' BY <1>1, <1>3, <2>1, <2>3 DEF CameraHolds
  <2>5. SessionOf(c)' = 0 BY <2>1, <2>3 DEF SessionOf
  <2>6. SessionMoves(c) BY <1>1, <1>2, <2>2, <2>5, OwnSession
  <2> QED BY <1>1, <1>2, <2>1, <2>2, <2>4, <2>6, CameraSteps
<1>4. CASE ~setup.host
  <2> DEFINE n == Len(session) + 1
             x(k) == [Intake!Off EXCEPT !.at = "reading", !.session = k]
             q == [open |-> TRUE, mapped |-> {}]
  <2>1. ASSUME NEW k \in Nat
        PROVE  /\ x(k) \in CameraStates /\ x(k).frame.buf = "none" /\ x(k).frame.of = 0
               /\ x(k).session = k /\ x(k).at = "reading" /\ x(k).ready = 0
    BY DEF Intake!Off, Intake!NoFrame, CameraStates, HeldFrames, IntakePlaces
  <2>2. cam' = [cam EXCEPT ![c] = x(n)] /\ session' = Append(session, q)
    BY <1>4 DEF Intake!Connect
  <2>3. q \in SessionStates /\ q.mapped = {} BY DEF SessionStates
  <2>4. n \in Nat /\ n # 0 BY <1>1
  <2> HIDE DEF x, q
  <2>5. cam'[c] = x(n) BY <1>1, <2>2
  <2>6. CameraHolds(c)' BY <1>1, <1>4, <2>1, <2>4, <2>5 DEF CameraHolds
  <2>7. SessionOf(c)' = n BY <2>1, <2>4, <2>5 DEF SessionOf
  <2>8. /\ session' \in Seq(SessionStates) /\ Len(session') = n /\ session'[n] = q
        /\ \A s \in 1 .. Len(session) : session'[s] = session[s]
    BY <1>1, <2>2, <2>3, AppendProperties
  <2>9. SessionFits(c)'
    <3>1. n \in 1 .. Len(session') BY <2>4, <2>8
    <3>2. session'[n].mapped = {} /\ cam'[c].frame.of = 0 /\ cam'[c].session # 0
      BY <2>1, <2>3, <2>4, <2>5, <2>8
    <3> HIDE DEF n
    <3> QED BY <2>7, <3>1, <3>2 DEF SessionFits
  <2>10. SessionMoves(c) BY <1>1, <1>2, <2>4, <2>7, <2>8, <2>9 DEF SessionMoves
  <2> QED BY <1>1, <1>2, <2>1, <2>2, <2>4, <2>6, <2>10, CameraSteps
<1> QED BY <1>3, <1>4

\* A step that leaves the sessions alone and the camera's place in them.
LEMMA SameSession ==
    ASSUME IntakeInv, NEW c \in Cameras, NEW x \in CameraStates,
           cam' = [cam EXCEPT ![c] = x], UNCHANGED <<setup, session, buffer, lane, busy>>,
           x.session = cam[c].session, x.frame = cam[c].frame, cam[c].frame.buf = "none",
           CameraHolds(c)'
    PROVE  IntakeInv'
<1>1. cam'[c] = x BY DEF IntakeInv, IntakeTypes
<1>2. SessionOf(c)' = SessionOf(c) BY <1>1 DEF SessionOf
<1>3. SessionFits(c)' BY <1>1, <1>2 DEF SessionFits, IntakeInv, SessionsApart
<1>4. SessionMoves(c) BY <1>2, <1>3, OwnSession DEF IntakeInv, IntakeTypes
<1> QED BY <1>4, CameraSteps

LEMMA QuietCamera ==
    ASSUME IntakeInv, NEW c \in Cameras, Intake!ConnectRefused(c) \/ Intake!ReadHost(c)
    PROVE  IntakeInv'
<1>1. PICK to \in {"ended", "queueing"} :
         /\ cam' = [cam EXCEPT ![c].at = to]
         /\ to = "ended" => cam[c].at = "off"
         /\ to = "queueing" => cam[c].at = "reading" /\ setup.host
         /\ UNCHANGED <<setup, session, buffer, lane, busy>>
  BY DEF Intake!ConnectRefused, Intake!ReadHost
<1>2. cam \in [Cameras -> CameraStates] /\ CameraHolds(c) BY DEF IntakeInv, IntakeTypes
<1> DEFINE x == [cam[c] EXCEPT !.at = to]
<1>3. /\ x \in CameraStates /\ x.at = to /\ x.session = cam[c].session
      /\ x.frame = cam[c].frame /\ x.ready = cam[c].ready
  BY <1>2 DEF CameraStates, IntakePlaces
<1>4. cam' = [cam EXCEPT ![c] = x] BY <1>1
<1> HIDE DEF x
<1>5. cam'[c] = x BY <1>2, <1>4
<1>6. cam[c].frame.buf = "none" BY <1>1, <1>2 DEF CameraHolds
<1>7. CameraHolds(c)' BY <1>1, <1>2, <1>3, <1>5, <1>6 DEF CameraHolds
<1> QED BY <1>1, <1>3, <1>4, <1>6, <1>7, SameSession

\* The source goes, and with it the open end of its session.
LEMMA TearsDown ==
    ASSUME IntakeInv, NEW c \in Cameras, NEW to \in {"off", "ended", "dropping"},
           Intake!TornDown(c, to), UNCHANGED <<setup, buffer, lane, busy>>,
           cam[c].session # 0,
           \/ cam[c].at = "reading" /\ to # "dropping"
           \/ cam[c].at = "publishing" /\ to = "dropping"
    PROVE  IntakeInv'
<1> DEFINE s == cam[c].session
           x == [Intake!Off EXCEPT !.at = to, !.frame = cam[c].frame]
           q == [session[s] EXCEPT !.open = FALSE]
<1>1. /\ cam \in [Cameras -> CameraStates] /\ CameraHolds(c)
      /\ session \in Seq(SessionStates) /\ IntakeTypes /\ SessionsApart /\ SessionFits(c)
  BY DEF IntakeInv, IntakeTypes, SessionsApart
<1>2. SessionOf(c) = s /\ s \in 1 .. Len(session) BY <1>1 DEF SessionOf, SessionFits
<1>3. /\ x \in CameraStates /\ x.at = to /\ x.session = 0 /\ x.frame = cam[c].frame /\ x.ready = 0
  BY <1>1 DEF CameraStates, IntakePlaces, Intake!Off
<1>4. cam' = [cam EXCEPT ![c] = x] /\ session' = [session EXCEPT ![s] = q]
  BY DEF Intake!TornDown, Intake!Reset
<1>5. q \in SessionStates /\ q.open = FALSE /\ q.mapped = session[s].mapped
  <2>1. session[s] \in SessionStates BY <1>1, <1>2
  <2> QED BY <2>1 DEF SessionStates
<1> HIDE DEF x, q
<1>6. /\ session' \in Seq(SessionStates) /\ Len(session') = Len(session) /\ session'[s] = q
      /\ \A k \in 1 .. Len(session) : k # s => session'[k] = session[k]
  BY <1>1, <1>2, <1>4, <1>5, ExceptSeq
<1>7. cam'[c] = x BY <1>1, <1>4
<1>8. cam[c].frame.buf = "none" BY <1>1 DEF CameraHolds
<1>9. CameraHolds(c)' BY <1>1, <1>3, <1>7, <1>8 DEF CameraHolds
<1>10. SessionOf(c)' = cam[c].frame.of BY <1>3, <1>7 DEF SessionOf
<1>11. SessionMoves(c)
  <2>1. CASE cam[c].at = "reading"
    <3>1. SessionOf(c)' = 0 /\ session[s].mapped = {}
      BY <1>1, <1>2, <1>10, <2>1 DEF CameraHolds, SessionFits
    <3>2. \A k \in 1 .. Len(session) : k = SessionOf(c) => Gone(k)'
      BY <1>2, <1>5, <1>6, <3>1 DEF Gone
    <3> QED BY <1>1, <1>2, <1>6, <3>1, <3>2, OwnSession
  <2>2. CASE cam[c].at = "publishing"
    <3>1. cam[c].frame.of = s BY <1>1, <2>2 DEF CameraHolds
    <3>2. SessionFits(c)'
      BY <1>1, <1>2, <1>3, <1>5, <1>6, <1>7, <1>10, <3>1 DEF SessionFits
    <3> QED BY <1>1, <1>2, <1>6, <1>10, <3>1, <3>2, OwnSession
  <2> QED BY <2>1, <2>2
<1> QED BY <1>3, <1>4, <1>8, <1>9, <1>11, CameraSteps

LEMMA FeedKeeps == ASSUME IntakeInv, NEW c \in Cameras, Intake!Feed(c) PROVE IntakeInv'
<1>1. /\ cam \in [Cameras -> CameraStates] /\ CameraHolds(c) /\ cam[c].at = "reading"
      /\ ~setup.host /\ UNCHANGED <<setup, buffer, lane, busy>> /\ DecodeSurfaces \in Nat
  BY TransportAssumption DEF IntakeInv, IntakeTypes, Intake!Feed, TransportAssumption
<1>2. PICK pictures \in 1 .. DecodeSurfaces + 1 :
         IF pictures > DecodeSurfaces THEN Intake!TornDown(c, "off")
         ELSE /\ cam' = [cam EXCEPT ![c] = Intake!OnDisplay(Intake!OnSequence(c), pictures)]
              /\ UNCHANGED session
  BY DEF Intake!Feed
<1>3. cam[c].session # 0 /\ cam[c].frame.buf = "none" /\ cam[c].frame.of = 0
  BY <1>1, LaneFacts DEF CameraHolds, IntakeInv
<1>4. CASE pictures > DecodeSurfaces BY <1>1, <1>2, <1>3, <1>4, TearsDown
<1>5. CASE ~(pictures > DecodeSurfaces)
  <2> DEFINE x == Intake!OnDisplay(Intake!OnSequence(c), pictures)
  <2>1. /\ x \in CameraStates /\ x.at = "reading" /\ x.session = cam[c].session
        /\ x.frame = cam[c].frame
    <3>1. cam[c] \in CameraStates /\ pictures \in Nat BY <1>1
    <3>2. cam[c].ready + pictures \in Nat BY <3>1 DEF CameraStates
    <3>3. x = [cam[c] EXCEPT !.decoder = TRUE, !.ready = cam[c].ready + pictures]
      BY <3>1 DEF Intake!OnDisplay, Intake!OnSequence, CameraStates
    <3> QED BY <1>1, <3>1, <3>2, <3>3 DEF CameraStates
  <2>2. cam' = [cam EXCEPT ![c] = x] /\ session' = session BY <1>2, <1>5
  <2> HIDE DEF x
  <2>3. cam'[c] = x BY <1>1, <2>2
  <2>4. CameraHolds(c)' BY <1>1, <1>3, <2>1, <2>3 DEF CameraHolds
  <2> QED BY <1>1, <1>3, <2>1, <2>2, <2>4, SameSession
<1> QED BY <1>4, <1>5

LEMMA FailsKeep ==
    ASSUME IntakeInv, NEW c \in Cameras,
           Intake!FeedFails(c) \/ Intake!MapFails(c) \/ Intake!PutRefused(c)
    PROVE  IntakeInv'
<1>1. PICK to \in {"off", "ended", "dropping"} :
         /\ Intake!TornDown(c, to) /\ UNCHANGED <<setup, buffer, lane, busy>>
         /\ \/ cam[c].at = "reading" /\ to # "dropping" /\ (~setup.host \/ cam[c].ready > 0)
            \/ cam[c].at = "publishing" /\ to = "dropping"
  <2>1. CASE Intake!FeedFails(c)
    <3>1. PICK fatal \in BOOLEAN : Intake!TornDown(c, IF fatal THEN "ended" ELSE "off")
      BY <2>1 DEF Intake!FeedFails
    <3> QED BY <2>1, <3>1 DEF Intake!FeedFails
  <2>2. CASE Intake!MapFails(c) BY <2>2 DEF Intake!MapFails
  <2>3. CASE Intake!PutRefused(c) BY <2>3 DEF Intake!PutRefused
  <2> QED BY <2>1, <2>2, <2>3
<1>2. cam[c].session # 0 BY <1>1, LaneFacts DEF IntakeInv, CameraHolds
<1> QED BY <1>1, <1>2, TearsDown

LEMMA MapKeeps == ASSUME IntakeInv, NEW c \in Cameras, Intake!Map(c) PROVE IntakeInv'
<1> DEFINE s == cam[c].session
<1>1. /\ cam \in [Cameras -> CameraStates] /\ CameraHolds(c)
      /\ session \in Seq(SessionStates) /\ IntakeTypes /\ SessionsApart /\ SessionFits(c)
      /\ cam[c].at = "reading" /\ cam[c].ready > 0 /\ UNCHANGED <<setup, buffer, lane, busy>>
  BY DEF IntakeInv, IntakeTypes, SessionsApart, Intake!Map
<1>2. PICK free \in Intake!FreeSlots(s) :
         /\ session' = [session EXCEPT ![s].mapped = @ \cup {free}]
         /\ cam' = [cam EXCEPT ![c].at = "publishing", ![c].ready = @ - 1,
                               ![c].frame = [Intake!NoFrame EXCEPT !.of = s, !.slot = free]]
  BY DEF Intake!Map
<1>3. /\ ~setup.host /\ s # 0 /\ cam[c].frame.of = 0 /\ cam[c].frame.buf = "none"
      /\ SessionOf(c) = s /\ s \in 1 .. Len(session) /\ session[s].mapped = {}
  BY <1>1, LaneFacts DEF CameraHolds, SessionOf, SessionFits
<1>4. free \in Nat BY TransportAssumption DEF Intake!FreeSlots, TransportAssumption
<1> DEFINE x == [cam[c] EXCEPT !.at = "publishing", !.ready = @ - 1,
                               !.frame = [Intake!NoFrame EXCEPT !.of = s, !.slot = free]]
           q == [session[s] EXCEPT !.mapped = @ \cup {free}]
<1>5. /\ x \in CameraStates /\ x.at = "publishing" /\ x.session = s
      /\ x.frame.of = s /\ x.frame.slot = free /\ x.frame.buf = "none"
  <2>1. cam[c] \in CameraStates /\ cam[c].ready - 1 \in Nat /\ s \in Nat
    BY <1>1 DEF CameraStates
  <2> QED BY <1>4, <2>1 DEF CameraStates, IntakePlaces, HeldFrames, Intake!NoFrame
<1>6. cam' = [cam EXCEPT ![c] = x] BY <1>1, <1>2
<1>7. q \in SessionStates /\ q.mapped = {free}
  <2>1. session[s] \in SessionStates BY <1>1, <1>3
  <2> QED BY <1>3, <1>4, <2>1 DEF SessionStates
<1>8. session' = [session EXCEPT ![s] = q] BY <1>2
<1> HIDE DEF x, q
<1>9. /\ session' \in Seq(SessionStates) /\ Len(session') = Len(session) /\ session'[s] = q
      /\ \A k \in 1 .. Len(session) : k # s => session'[k] = session[k]
  BY <1>1, <1>3, <1>7, <1>8, ExceptSeq
<1>10. cam'[c] = x BY <1>1, <1>6
<1>11. CameraHolds(c)' BY <1>1, <1>3, <1>5, <1>10 DEF CameraHolds
<1>12. SessionOf(c)' = s BY <1>3, <1>5, <1>10 DEF SessionOf
<1>13. SessionFits(c)' BY <1>3, <1>5, <1>7, <1>9, <1>10, <1>12 DEF SessionFits
<1>14. SessionMoves(c) BY <1>1, <1>3, <1>9, <1>12, <1>13, OwnSession
<1> QED BY <1>1, <1>3, <1>5, <1>6, <1>11, <1>14, CameraSteps

LEMMA DropKeeps == ASSUME IntakeInv, NEW c \in Cameras, Intake!DropFrame(c) PROVE IntakeInv'
<1> DEFINE s == cam[c].frame.of
           x == [Intake!Off EXCEPT !.at = "ended"]
           q == [session[s] EXCEPT !.mapped = @ \ {cam[c].frame.slot}]
<1>1. /\ cam \in [Cameras -> CameraStates] /\ CameraHolds(c)
      /\ session \in Seq(SessionStates) /\ IntakeTypes /\ SessionsApart /\ SessionFits(c)
      /\ cam[c].at = "dropping" /\ UNCHANGED <<setup, buffer, lane, busy>>
      /\ cam' = [cam EXCEPT ![c] = x]
      /\ session' = Intake!Unmapped(session, cam[c].frame)
  BY DEF IntakeInv, IntakeTypes, SessionsApart, Intake!DropFrame
<1>2. /\ cam[c].session = 0 /\ s # 0 /\ cam[c].frame.buf = "none" /\ SessionOf(c) = s
      /\ s \in 1 .. Len(session) /\ session[s].mapped = {cam[c].frame.slot} /\ ~session[s].open
  BY <1>1 DEF CameraHolds, SessionOf, SessionFits
<1>3. /\ x \in CameraStates /\ x.at = "ended" /\ x.session = 0 /\ x.frame.of = 0
      /\ x.frame.buf = "none" /\ x.ready = 0
  BY DEF CameraStates, IntakePlaces, HeldFrames, Intake!Off, Intake!NoFrame
<1>4. session' = [session EXCEPT ![s] = q] BY <1>1, <1>2 DEF Intake!Unmapped
<1>5. q \in SessionStates /\ ~q.open /\ q.mapped = {}
  <2>1. session[s] \in SessionStates BY <1>1, <1>2
  <2> QED BY <1>2, <2>1 DEF SessionStates
<1> HIDE DEF x, q
<1>6. /\ session' \in Seq(SessionStates) /\ Len(session') = Len(session) /\ session'[s] = q
      /\ \A k \in 1 .. Len(session) : k # s => session'[k] = session[k]
  BY <1>1, <1>2, <1>4, <1>5, ExceptSeq
<1>7. cam'[c] = x BY <1>1
<1>8. CameraHolds(c)' BY <1>3, <1>7 DEF CameraHolds
<1>9. SessionOf(c)' = 0 BY <1>3, <1>7 DEF SessionOf
<1>10. \A k \in 1 .. Len(session) : k = SessionOf(c) => Gone(k)' BY <1>2, <1>5, <1>6 DEF Gone
<1>11. SessionMoves(c) BY <1>1, <1>2, <1>6, <1>9, <1>10, OwnSession
<1> QED BY <1>1, <1>2, <1>3, <1>8, <1>11, CameraSteps

-----------------------------------------------------------------------------
\* A frame that fits its lane in the next state.
TakesNext(f, l) ==
    /\ f.of = 0
    /\ f.buf # "none" =>
          /\ ~setup'.host /\ f.buf \in Buffers
          /\ buffer'[f.buf].device = setup'.home[f.cam] /\ buffer'[f.buf].size = SizeOf[f.cam]
          /\ setup'.devices[l] = setup'.home[f.cam]

LEMMA StillTakes ==
    ASSUME UNCHANGED setup, NEW f, NEW l, LaneTakes(f, l),
           f.buf \in Buffers => buffer'[f.buf] = buffer[f.buf]
    PROVE  TakesNext(f, l)
BY DEF LaneTakes, TakesNext, FitFor

LEMMA StillHolds ==
    ASSUME UNCHANGED setup, NEW d, CameraHolds(d), cam'[d] = cam[d],
           cam[d].frame.buf \in Buffers => buffer'[cam[d].frame.buf] = buffer[cam[d].frame.buf]
    PROVE  CameraHolds(d)'
BY DEF CameraHolds, FitFor, Intake!Driven

LEMMA LanesNext ==
    ASSUME UNCHANGED setup,
           \A l \in Intake!Lanes :
              /\ \A n \in 1 .. Len(lane'[l]) : TakesNext(lane'[l][n], l)
              /\ busy'[l] # <<>> => TakesNext(busy'[l][1], l)
    PROVE  LanesFit'
<1>1. Intake!Lanes' = Intake!Lanes BY DEF Intake!Lanes
<1> QED BY <1>1 DEF LanesFit, LaneTakes, FitFor, TakesNext

\* Giving a buffer back: pooled, or freed if enough are idle.
LEMMA GivesBack ==
    ASSUME IntakeInv, NEW b \in Buffers, buffer[b].at = "frame", buffer' = Intake!GivenBack(b)
    PROVE  /\ buffer' \in [Buffers -> BufferStates]
           /\ buffer'[b].at # "frame"
           /\ \A a \in Buffers \ {b} : buffer'[a] = buffer[a]
           /\ PoolBounded'
<1> DEFINE own == Intake!Idle(buffer[b].device, buffer[b].size)
<1>1. buffer \in [Buffers -> BufferStates] /\ buffer[b] \in BufferStates
  BY DEF IntakeInv, IntakeTypes
<1>2. IsFiniteSet(Buffers) /\ MaxPooled \in Nat BY TransportAssumption DEF TransportAssumption
<1>3. Intake!Cardinality(own) = Cardinality(own) BY DEF Intake!Cardinality, Cardinality
<1>4. \A d, z : /\ Intake!Idle(d, z) \subseteq Buffers /\ b \notin Intake!Idle(d, z)
                /\ IsFiniteSet(Intake!Idle(d, z)) /\ Cardinality(Intake!Idle(d, z)) \in Nat
  <2>1. \A d, z : Intake!Idle(d, z) \subseteq Buffers /\ b \notin Intake!Idle(d, z)
    BY DEF Intake!Idle
  <2> QED BY <1>2, <2>1, FS_Subset, FS_CardinalityType
<1>5. PICK x \in BufferStates :
         /\ buffer' = [buffer EXCEPT ![b] = x] /\ x.at \in {"free", "pool"}
         /\ x.at = "pool" => /\ x.device = buffer[b].device /\ x.size = buffer[b].size
                             /\ ~(Cardinality(own) >= MaxPooled)
  <2>1. CASE Cardinality(own) >= MaxPooled
    <3>1. Intake!Unallocated \in BufferStates /\ Intake!Unallocated.at = "free"
      BY DEF Intake!Unallocated, BufferStates
    <3>2. buffer' = [buffer EXCEPT ![b] = Intake!Unallocated]
      BY <1>3, <2>1 DEF Intake!GivenBack
    <3> QED BY <3>1, <3>2
  <2>2. CASE ~(Cardinality(own) >= MaxPooled)
    <3> DEFINE x == [buffer[b] EXCEPT !.at = "pool"]
    <3>1. /\ x \in BufferStates /\ x.at = "pool" /\ x.device = buffer[b].device
          /\ x.size = buffer[b].size
      BY <1>1 DEF BufferStates
    <3>2. buffer' = [buffer EXCEPT ![b] = x] BY <1>3, <2>2 DEF Intake!GivenBack
    <3> QED BY <2>2, <3>1, <3>2
  <2> QED BY <2>1, <2>2
<1>6. /\ buffer' \in [Buffers -> BufferStates] /\ buffer'[b] = x
      /\ \A a \in Buffers \ {b} : buffer'[a] = buffer[a]
  BY <1>1, <1>5
<1>7. ASSUME NEW d \in Int, NEW z \in Nat PROVE Cardinality(Intake!Idle(d, z)') <= MaxPooled
  <2> DEFINE old == Intake!Idle(d, z)
             new == Intake!Idle(d, z)'
  <2>1. Cardinality(old) <= MaxPooled BY DEF IntakeInv, PoolBounded
  <2>2. \A a \in new : a \in Buffers /\ buffer'[a] = [at |-> "pool", device |-> d, size |-> z]
    BY DEF Intake!Idle
  <2>3. \A a \in new : a \in old \/ a = b BY <1>6, <2>2 DEF Intake!Idle
  <2>4. b \in new => x.at = "pool" /\ x.device = d /\ x.size = z BY <1>6, <2>2
  <2>5. b \in new => old = own /\ Cardinality(own) < MaxPooled
    <3>1. Cardinality(own) \in Nat BY <1>4
    <3> QED BY <1>2, <1>5, <2>4, <3>1
  <2>6. IsFiniteSet(old) /\ Cardinality(old) \in Nat /\ b \notin old BY <1>4
  <2> HIDE DEF old, new
  <2>7. CASE b \notin new
    <3>1. new \subseteq old BY <2>3, <2>7
    <3>2. Cardinality(new) <= Cardinality(old) /\ Cardinality(new) \in Nat
      BY <2>6, <3>1, FS_Subset, FS_CardinalityType
    <3> QED BY <1>2, <2>1, <2>6, <3>2 DEF new
  <2>8. CASE b \in new
    <3>1. new \subseteq old \cup {b} BY <2>3
    <3>2. IsFiniteSet(old \cup {b}) /\ Cardinality(old \cup {b}) = Cardinality(old) + 1
      BY <2>6, FS_AddElement
    <3>3. Cardinality(new) <= Cardinality(old) + 1 /\ Cardinality(new) \in Nat
      BY <3>1, <3>2, FS_Subset, FS_CardinalityType
    <3> QED BY <1>2, <2>5, <2>6, <2>8, <3>3 DEF new
  <2> QED BY <2>7, <2>8
<1> QED BY <1>5, <1>6, <1>7 DEF PoolBounded

LEMMA TakeKeeps == ASSUME IntakeInv, NEW c \in Cameras, Intake!Take(c) PROVE IntakeInv'
<1> DEFINE s == cam[c].session
           home == setup.home[c]
<1>1. /\ cam \in [Cameras -> CameraStates] /\ CameraHolds(c) /\ cam[c] \in CameraStates
      /\ session \in Seq(SessionStates) /\ IntakeTypes /\ SessionsApart /\ SessionFits(c)
      /\ buffer \in [Buffers -> BufferStates]
      /\ cam[c].at = "publishing" /\ Intake!Driven(home) /\ UNCHANGED <<setup, lane, busy>>
      /\ home \in Int /\ SizeOf[c] \in Nat /\ "none" \notin Buffers
  BY LaneFacts, TransportAssumption
  DEF IntakeInv, IntakeTypes, SessionsApart, Intake!Take, TransportAssumption
<1>2. PICK b \in Buffers :
         /\ b \in Intake!Idle(home, SizeOf[c]) \cup Intake!Fresh
         /\ buffer' = [buffer EXCEPT ![b] = IF @.at = "pool" THEN [@ EXCEPT !.at = "frame"]
                                            ELSE [at |-> "frame", device |-> home,
                                                  size |-> SizeOf[c]]]
         /\ cam' = [cam EXCEPT ![c] = Intake!Copied(c, b)]
         /\ session' = IF cam'[c].frame.of = 0 THEN Intake!Unmapped(session, cam[c].frame)
                       ELSE session
  BY DEF Intake!Take, Intake!Reusable, Intake!Idle, Intake!Fresh
<1>3. /\ ~setup.host /\ s # 0 /\ cam[c].frame.of = s /\ cam[c].frame.buf = "none"
      /\ SessionOf(c) = s /\ s \in 1 .. Len(session)
      /\ session[s].mapped = {cam[c].frame.slot}
  BY <1>1 DEF CameraHolds, SessionOf, SessionFits
<1>4. /\ buffer[b].at \in {"pool", "free"}
      /\ buffer[b].at = "pool" => buffer[b].device = home /\ buffer[b].size = SizeOf[c]
  BY <1>2 DEF Intake!Idle, Intake!Fresh, Intake!Unallocated
<1> DEFINE y == IF buffer[b].at = "pool" THEN [buffer[b] EXCEPT !.at = "frame"]
                ELSE [at |-> "frame", device |-> home, size |-> SizeOf[c]]
           x == Intake!Copied(c, b)
           q == [session[s] EXCEPT !.mapped = @ \ {cam[c].frame.slot}]
<1>5. y \in BufferStates /\ y.at = "frame" /\ y.device = home /\ y.size = SizeOf[c]
  <2>1. buffer[b] \in BufferStates BY <1>1
  <2>2. CASE buffer[b].at = "pool" BY <1>4, <2>1, <2>2 DEF BufferStates
  <2>3. CASE buffer[b].at # "pool" BY <1>1, <2>3 DEF BufferStates
  <2> QED BY <2>2, <2>3
<1>6. buffer' = [buffer EXCEPT ![b] = y] BY <1>1, <1>2
<1>7. /\ x \in CameraStates /\ x.at = "queueing" /\ x.session = s /\ x.frame.of = 0
      /\ x.frame.buf = b
  BY <1>1 DEF Intake!Copied, Intake!NoFrame, CameraStates, IntakePlaces, HeldFrames
<1>8. cam' = [cam EXCEPT ![c] = x] BY <1>2
<1> HIDE DEF x, y
<1>9. /\ cam'[c] = x /\ \A d \in Cameras \ {c} : cam'[d] = cam[d] BY <1>1, <1>8
<1>10. /\ buffer' \in [Buffers -> BufferStates] /\ buffer'[b] = y
       /\ \A a \in Buffers \ {b} : buffer'[a] = buffer[a]
  BY <1>1, <1>5, <1>6
<1>11. session' = [session EXCEPT ![s] = q]
  BY <1>2, <1>3, <1>7, <1>9 DEF Intake!Unmapped
<1>12. q \in SessionStates /\ q.mapped = {}
  <2>1. session[s] \in SessionStates BY <1>1, <1>3
  <2> QED BY <1>3, <2>1 DEF SessionStates
<1> HIDE DEF q
<1>13. /\ session' \in Seq(SessionStates) /\ Len(session') = Len(session) /\ session'[s] = q
       /\ \A k \in 1 .. Len(session) : k # s => session'[k] = session[k]
  BY <1>1, <1>3, <1>11, <1>12, ExceptSeq
<1>14. SessionMoves(c)
  <2>1. SessionOf(c)' = s BY <1>3, <1>7, <1>9 DEF SessionOf
  <2>2. SessionFits(c)' BY <1>3, <1>7, <1>9, <1>12, <1>13, <2>1 DEF SessionFits
  <2> QED BY <1>1, <1>3, <1>13, <2>1, <2>2, OwnSession
<1>15. SessionsApart' BY <1>1, <1>9, <1>14, SessionsStep
<1>16. Intake!Lanes' = Intake!Lanes /\ Intake!PerLane' = Intake!PerLane
  BY <1>1 DEF Intake!Lanes, Intake!PerLane
<1>17. IntakeTypes'
  <2>1. cam' \in [Cameras -> CameraStates] BY <1>1, <1>7, <1>8
  <2> QED BY <1>1, <1>10, <1>13, <1>16, <2>1 DEF IntakeTypes
\* Nobody had the buffer.
<1>18. /\ \A d \in Cameras : ~WithCamera(b, d)
       /\ \A l \in Intake!Lanes, n \in Nat : ~InLane(b, l, n)
       /\ \A l \in Intake!Lanes : ~WithWorker(b, l)
  BY <1>4 DEF IntakeInv, HeldOnce
<1>19. ASSUME NEW d \in Cameras PROVE CameraHolds(d)'
  <2>1. CASE d # c
    <3>1. cam[d].frame.buf # b BY <1>18 DEF WithCamera
    <3>2. CameraHolds(d) /\ cam'[d] = cam[d] BY <1>9, <2>1 DEF IntakeInv
    <3> QED BY <1>1, <1>10, <3>1, <3>2, StillHolds
  <2>2. CASE d = c
    <3>1. FitFor(b, c)' BY <1>1, <1>3, <1>5, <1>10 DEF FitFor
    <3>2. Intake!Driven(setup.home[c])' BY <1>1 DEF Intake!Driven
    <3>3. FitFor(cam[c].frame.buf, c)' BY <1>7, <1>9, <3>1 DEF FitFor
    <3> QED BY <1>1, <1>3, <1>7, <1>9, <2>2, <3>2, <3>3 DEF CameraHolds
  <2> QED BY <2>1, <2>2
<1>20. ASSUME NEW a \in Buffers PROVE HeldOnce(a)'
  <2>1. \A l \in Intake!Lanes, n \in Nat :
           (InLane(a, l, n)' <=> InLane(a, l, n)) /\ (WithWorker(a, l)' <=> WithWorker(a, l))
    BY <1>1 DEF InLane, WithWorker
  <2>2. CASE a = b
    <3>1. \A d \in Cameras : WithCamera(a, d)' <=> d = c
      BY <1>7, <1>9, <1>18, <2>2 DEF WithCamera
    <3>2. buffer'[a].at = "frame" BY <1>5, <1>10, <2>2
    <3> QED BY <1>16, <1>18, <2>1, <2>2, <3>1, <3>2 DEF HeldOnce
  <2>3. CASE a # b
    <3>1. \A d \in Cameras : WithCamera(a, d)' <=> WithCamera(a, d)
      BY <1>1, <1>3, <1>7, <1>9, <2>3 DEF WithCamera
    <3>2. buffer'[a] = buffer[a] /\ HeldOnce(a) BY <1>10, <2>3 DEF IntakeInv
    <3> QED BY <1>16, <2>1, <3>1, <3>2 DEF HeldOnce
  <2> QED BY <2>2, <2>3
<1>21. LanesFit'
  <2>1. ASSUME NEW l \in Intake!Lanes, NEW n \in 1 .. Len(lane[l])
        PROVE  TakesNext(lane[l][n], l)
    <3>1. LaneTakes(lane[l][n], l) BY DEF IntakeInv, LanesFit
    <3>2. lane[l][n].buf # b BY <1>18 DEF InLane
    <3> QED BY <1>1, <1>10, <3>1, <3>2, StillTakes
  <2>2. ASSUME NEW l \in Intake!Lanes, busy[l] # <<>> PROVE TakesNext(busy[l][1], l)
    <3>1. LaneTakes(busy[l][1], l) BY <2>2 DEF IntakeInv, LanesFit
    <3>2. busy[l][1].buf # b BY <1>18, <2>2 DEF WithWorker
    <3> QED BY <1>1, <1>10, <3>1, <3>2, StillTakes
  <2> QED BY <1>1, <2>1, <2>2, LanesNext
<1>22. PoolBounded'
  <2>1. ASSUME NEW d \in Int, NEW z \in Nat PROVE Cardinality(Intake!Idle(d, z)') <= MaxPooled
    <3>1. Cardinality(Intake!Idle(d, z)) <= MaxPooled BY DEF IntakeInv, PoolBounded
    <3>2. \A a \in Intake!Idle(d, z)' :
             a \in Buffers /\ buffer'[a] = [at |-> "pool", device |-> d, size |-> z]
      BY DEF Intake!Idle
    <3>3. Intake!Idle(d, z)' \subseteq Intake!Idle(d, z)
      BY <1>5, <1>10, <3>2 DEF Intake!Idle
    <3>4. IsFiniteSet(Intake!Idle(d, z)) /\ MaxPooled \in Nat
      BY FS_Subset, TransportAssumption DEF Intake!Idle, TransportAssumption
    <3> QED BY <3>1, <3>3, <3>4, FS_Subset, FS_CardinalityType
  <2> QED BY <2>1 DEF PoolBounded
<1> QED BY <1>15, <1>17, <1>19, <1>20, <1>21, <1>22 DEF IntakeInv

\* A lane's index, for the camera whose frame is put in it.
LEMMA PutsInLane ==
    ASSUME IntakeTypes, NEW c \in Cameras, setup.host \/ Intake!Driven(setup.home[c])
    PROVE  LET l == Intake!LaneOf(IF setup.host THEN -1 ELSE setup.home[c])
           IN  l \in Intake!Lanes /\ (~setup.host => setup.devices[l] = setup.home[c])
<1> DEFINE k == Intake!LaneCount(setup)
           device == IF setup.host THEN -1 ELSE setup.home[c]
           l == Intake!LaneOf(device)
<1>1. /\ setup.devices \in Seq(Nat) /\ k \in Nat \ {0} /\ Intake!Lanes = 1 .. k
      /\ setup.host => k = 1
      /\ ~setup.host => k = Len(setup.devices)
  BY LaneFacts DEF Intake!Lanes
<1>2. ~setup.host => \E i \in 1 .. k : setup.devices[i] = device
  BY <1>1 DEF Intake!Driven
<1>3. l = IF k = 1 THEN 1 ELSE CHOOSE i \in Intake!Lanes : setup.devices[i] = device
  BY DEF Intake!LaneOf
<1>4. CASE k = 1
  <2>1. l = 1 /\ l \in Intake!Lanes BY <1>1, <1>3, <1>4
  <2> HIDE DEF l
  <2>2. ~setup.host => setup.devices[1] = setup.home[c] BY <1>1, <1>2, <1>4
  <2> QED BY <2>1, <2>2 DEF l
<1>5. CASE k # 1
  <2>1. ~setup.host /\ \E i \in Intake!Lanes : setup.devices[i] = device BY <1>1, <1>2, <1>5
  <2>2. l \in Intake!Lanes /\ setup.devices[l] = device BY <1>3, <1>5, <2>1
  <2> QED BY <2>1, <2>2
<1> QED BY <1>4, <1>5

LEMMA PutKeeps == ASSUME IntakeInv, NEW c \in Cameras, Intake!Put(c) PROVE IntakeInv'
<1> DEFINE l == Intake!LaneOf(IF setup.host THEN -1 ELSE setup.home[c])
           b == cam[c].frame.buf
           f == [cam |-> c, buf |-> b, of |-> cam[c].frame.of, slot |-> cam[c].frame.slot]
           s == cam[c].session
           drops == lanesClosed \/ Len(lane[l]) >= Intake!PerLane
<1>1. /\ cam \in [Cameras -> CameraStates] /\ CameraHolds(c) /\ cam[c] \in CameraStates
      /\ session \in Seq(SessionStates) /\ IntakeTypes /\ SessionsApart /\ SessionFits(c)
      /\ buffer \in [Buffers -> BufferStates]
      /\ lane \in [Intake!Lanes -> Seq(QueuedFrames)]
      /\ cam[c].at = "queueing" /\ UNCHANGED <<setup, busy>>
      /\ "none" \notin Buffers
  BY TransportAssumption
  DEF IntakeInv, IntakeTypes, SessionsApart, Intake!Put, TransportAssumption
<1>2. /\ cam[c].frame.of = 0 /\ SessionOf(c) = s
      /\ setup.host => s = 0 /\ b = "none"
      /\ ~setup.host => /\ s # 0 /\ FitFor(b, c) /\ Intake!Driven(setup.home[c])
                        /\ s \in 1 .. Len(session) /\ session[s].mapped = {}
  BY <1>1 DEF CameraHolds, SessionOf, SessionFits
<1>3. l \in Intake!Lanes /\ (~setup.host => setup.devices[l] = setup.home[c])
  BY <1>1, <1>2, PutsInLane
<1>4. f \in QueuedFrames /\ LaneTakes(f, l)
  BY <1>1, <1>2, <1>3, LaneFacts DEF QueuedFrames, CameraStates, HeldFrames, LaneTakes, FitFor
<1>5. /\ lane' = IF drops THEN lane ELSE [lane EXCEPT ![l] = Append(@, f)]
      /\ buffer' = IF drops /\ b # "none" THEN Intake!GivenBack(b) ELSE buffer
  BY DEF Intake!Put
<1>6. Intake!Unmapped(session, f) = session BY <1>2 DEF Intake!Unmapped
<1>7. PICK x \in CameraStates :
         /\ cam' = [cam EXCEPT ![c] = x] /\ x.frame.buf = "none" /\ x.frame.of = 0
         /\ x.ready > 0 => ~setup.host
         /\ \/ x.at = "ended" /\ x.session = 0
               /\ session' = IF setup.host THEN session ELSE Intake!Reset(session, s)
            \/ x.at = "reading" /\ x.session = s /\ session' = session
  <2>1. CASE lanesClosed
    <3> DEFINE x == [Intake!Off EXCEPT !.at = "ended"]
    <3>1. /\ x \in CameraStates /\ x.at = "ended" /\ x.session = 0 /\ x.frame.of = 0
          /\ x.frame.buf = "none" /\ x.ready = 0
      BY DEF CameraStates, IntakePlaces, HeldFrames, Intake!Off, Intake!NoFrame
    <3>2. /\ cam' = [cam EXCEPT ![c] = x]
          /\ session' = IF setup.host THEN session
                        ELSE Intake!Reset(Intake!Unmapped(session, f), s)
      BY <2>1 DEF Intake!Put
    <3> HIDE DEF x, f
    <3>3. session' = IF setup.host THEN session ELSE Intake!Reset(session, s) BY <1>6, <3>2
    <3>4. x.ready > 0 => ~setup.host BY <3>1
    <3> QED BY <3>1, <3>2, <3>3, <3>4
  <2>2. CASE ~lanesClosed
    <3> DEFINE x == [cam[c] EXCEPT !.at = "reading", !.frame = Intake!NoFrame]
    <3>1. /\ x \in CameraStates /\ x.at = "reading" /\ x.session = s /\ x.frame.of = 0
          /\ x.frame.buf = "none" /\ x.ready = cam[c].ready
      BY <1>1 DEF CameraStates, IntakePlaces, HeldFrames, Intake!NoFrame
    <3>2. /\ cam' = [cam EXCEPT ![c].at = "reading", ![c].frame = Intake!NoFrame]
          /\ session' = IF drops THEN Intake!Unmapped(session, f) ELSE session
      BY <2>2 DEF Intake!Put
    <3>3. cam' = [cam EXCEPT ![c] = x] BY <1>1, <3>2
    <3> HIDE DEF x
    <3>4. session' = session BY <1>6, <3>2
    <3>5. x.ready > 0 => ~setup.host BY <1>1, <3>1 DEF CameraHolds
    <3> QED BY <3>1, <3>3, <3>4, <3>5
  <2> QED BY <2>1, <2>2
<1> HIDE DEF l, f, drops
<1>8. /\ cam'[c] = x /\ \A d \in Cameras \ {c} : cam'[d] = cam[d] BY <1>1, <1>7
<1>9. CameraHolds(c)' BY <1>1, <1>2, <1>7, <1>8 DEF CameraHolds
<1>10. SessionMoves(c)
  <2>1. CASE session' = session /\ x.session = s
    <3>1. SessionOf(c)' = SessionOf(c) BY <1>2, <1>7, <1>8, <2>1 DEF SessionOf
    <3>2. SessionFits(c)' BY <1>1, <1>2, <1>7, <1>8, <2>1, <3>1 DEF SessionFits
    <3> QED BY <1>1, <2>1, <3>1, <3>2, OwnSession
  <2>2. CASE x.session = 0 /\ ~setup.host /\ session' = Intake!Reset(session, s)
    <3> DEFINE q == [session[s] EXCEPT !.open = FALSE]
    <3>1. q \in SessionStates /\ ~q.open /\ q.mapped = {}
      <4>1. session[s] \in SessionStates BY <1>1, <1>2, <2>2
      <4> QED BY <1>2, <2>2, <4>1 DEF SessionStates
    <3>2. session' = [session EXCEPT ![s] = q] BY <2>2 DEF Intake!Reset
    <3> HIDE DEF q
    <3>3. /\ session' \in Seq(SessionStates) /\ Len(session') = Len(session) /\ session'[s] = q
          /\ \A k \in 1 .. Len(session) : k # s => session'[k] = session[k]
      BY <1>1, <1>2, <2>2, <3>1, <3>2, ExceptSeq
    <3>4. SessionOf(c)' = 0 BY <1>7, <1>8, <2>2 DEF SessionOf
    <3>5. \A k \in 1 .. Len(session) : k = SessionOf(c) => Gone(k)'
      BY <1>2, <3>1, <3>3 DEF Gone
    <3> QED BY <1>1, <1>2, <3>3, <3>4, <3>5, OwnSession
  <2> QED BY <1>2, <1>7, <2>1, <2>2
<1>11. SessionsApart' BY <1>1, <1>8, <1>10, SessionsStep
<1>12. Intake!Lanes' = Intake!Lanes /\ Intake!PerLane' = Intake!PerLane
  BY <1>1 DEF Intake!Lanes, Intake!PerLane
<1>13. cam' \in [Cameras -> CameraStates] /\ session' \in Seq(SessionStates)
  BY <1>1, <1>7, <1>10 DEF SessionMoves
<1>14. b \in Buffers => buffer[b].at = "frame" /\ HeldOnce(b) /\ WithCamera(b, c)
  BY DEF IntakeInv, HeldOnce, WithCamera
<1>15. \A a \in Buffers, d \in Cameras : WithCamera(a, d)' <=> WithCamera(a, d) /\ d # c
  BY <1>1, <1>7, <1>8 DEF WithCamera
<1>16. b \in Buffers \cup {"none"} BY <1>1 DEF CameraStates, HeldFrames
<1>17. CASE ~drops
  <2>1. /\ buffer' = buffer /\ lane' = [lane EXCEPT ![l] = Append(lane[l], f)]
        /\ Len(lane[l]) < Intake!PerLane
    <3>1. Len(lane[l]) \in Nat /\ Intake!PerLane \in Nat BY <1>1, <1>3, LaneFacts
    <3>2. ~(Len(lane[l]) >= Intake!PerLane) BY <1>17 DEF drops
    <3> QED BY <1>5, <1>17, <3>1, <3>2
  <2> DEFINE n == Len(lane[l]) + 1
  <2>2. /\ lane' \in [Intake!Lanes -> Seq(QueuedFrames)]
        /\ \A m \in Intake!Lanes : m # l => lane'[m] = lane[m]
        /\ lane'[l] \in Seq(QueuedFrames) /\ Len(lane'[l]) = n /\ lane'[l][n] = f
        /\ \A i \in 1 .. Len(lane[l]) : lane'[l][i] = lane[l][i]
        /\ lane[l] \in Seq(QueuedFrames) /\ Len(lane[l]) \in Nat
    BY <1>1, <1>3, <1>4, <2>1, AppendProperties
  <2>3. IntakeTypes'
    <3>1. \A m \in Intake!Lanes : Len(lane'[m]) <= Intake!PerLane
      <4>1. n <= Intake!PerLane BY <1>1, <2>1, <2>2, LaneFacts
      <4> QED BY <1>1, <2>2, <4>1 DEF IntakeTypes
    <3> QED BY <1>1, <1>12, <1>13, <2>1, <2>2, <3>1 DEF IntakeTypes
  <2>4. ASSUME NEW d \in Cameras PROVE CameraHolds(d)'
    <3>1. CASE d # c
      <4>1. CameraHolds(d) /\ cam'[d] = cam[d] BY <1>8, <3>1 DEF IntakeInv
      <4> QED BY <1>1, <2>1, <4>1, StillHolds
    <3> QED BY <1>9, <3>1
  <2>5. ASSUME NEW a \in Buffers PROVE HeldOnce(a)'
    <3>1. HeldOnce(a) BY DEF IntakeInv
    <3>2. ASSUME NEW m \in Intake!Lanes, NEW i \in Nat
          PROVE InLane(a, m, i)' <=> InLane(a, m, i) \/ (m = l /\ i = n /\ a = b)
      <4>1. CASE m # l BY <2>2, <4>1 DEF InLane
      <4>2. CASE m = l
        <5>1. f.buf = b BY DEF f
        <5>2. i \in 1 .. n <=> i \in 1 .. Len(lane[l]) \/ i = n BY <2>2
        <5>3. n \notin 1 .. Len(lane[l]) BY <2>2
        <5> HIDE DEF n
        <5> QED BY <2>2, <4>2, <5>1, <5>2, <5>3 DEF InLane
      <4> QED BY <4>1, <4>2
    <3>3. \A m \in Intake!Lanes : WithWorker(a, m)' <=> WithWorker(a, m)
      BY <1>1 DEF WithWorker
    <3>4. n \in Nat /\ l \in Intake!Lanes BY <1>3, <2>2
    <3> HIDE DEF n, b
    <3>5. CASE a = b
      <4>1. /\ \A d \in Cameras : ~WithCamera(a, d)'
            /\ \A m \in Intake!Lanes, i \in Nat : InLane(a, m, i)' <=> m = l /\ i = n
            /\ \A m \in Intake!Lanes : ~WithWorker(a, m)'
            /\ buffer'[a].at = "frame"
        BY <1>14, <1>15, <2>1, <3>1, <3>2, <3>3, <3>5 DEF HeldOnce
      <4> QED BY <1>12, <3>4, <4>1 DEF HeldOnce
    <3>6. CASE a # b
      <4>1. \A d \in Cameras : WithCamera(a, d)' <=> WithCamera(a, d)
        BY <1>15, <3>6 DEF WithCamera, b
      <4>2. \A m \in Intake!Lanes, i \in Nat : InLane(a, m, i)' <=> InLane(a, m, i)
        BY <3>2, <3>6
      <4> QED BY <1>12, <2>1, <3>1, <3>3, <4>1, <4>2 DEF HeldOnce
    <3> QED BY <3>5, <3>6
  <2>6. LanesFit'
    <3>1. ASSUME NEW m \in Intake!Lanes, NEW i \in 1 .. Len(lane'[m])
          PROVE  TakesNext(lane'[m][i], m)
      <4>1. LaneTakes(lane'[m][i], m)
        <5>1. CASE m # l BY <2>2, <3>1, <5>1 DEF IntakeInv, LanesFit
        <5>2. CASE m = l
          <6>1. i \in 1 .. Len(lane[l]) \/ i = n BY <2>2, <3>1, <5>2
          <6> HIDE DEF n
          <6>2. CASE i = n BY <1>4, <2>2, <5>2, <6>2
          <6>3. CASE i \in 1 .. Len(lane[l])
            <7>1. lane'[l][i] = lane[l][i] BY <2>2, <6>3
            <7>2. LaneTakes(lane[l][i], l) BY <1>3, <6>3 DEF IntakeInv, LanesFit
            <7> QED BY <5>2, <7>1, <7>2
          <6> QED BY <6>1, <6>2, <6>3
        <5> QED BY <5>1, <5>2
      <4> QED BY <1>1, <2>1, <4>1, StillTakes
    <3>2. ASSUME NEW m \in Intake!Lanes, busy[m] # <<>> PROVE TakesNext(busy[m][1], m)
      <4>1. LaneTakes(busy[m][1], m) BY <3>2 DEF IntakeInv, LanesFit
      <4> QED BY <1>1, <2>1, <4>1, StillTakes
    <3> QED BY <1>1, <3>1, <3>2, LanesNext
  <2>7. PoolBounded' BY <2>1 DEF IntakeInv, PoolBounded, Intake!Idle
  <2> QED BY <1>11, <2>3, <2>4, <2>5, <2>6, <2>7 DEF IntakeInv
<1>18. CASE drops /\ b = "none"
  <2>1. buffer' = buffer /\ lane' = lane BY <1>5, <1>18
  <2>2. IntakeTypes' BY <1>1, <1>12, <1>13, <2>1 DEF IntakeTypes
  <2>3. ASSUME NEW d \in Cameras PROVE CameraHolds(d)'
    <3>1. CASE d # c
      <4>1. CameraHolds(d) /\ cam'[d] = cam[d] BY <1>8, <3>1 DEF IntakeInv
      <4> QED BY <1>1, <2>1, <4>1, StillHolds
    <3> QED BY <1>9, <3>1
  <2>4. ASSUME NEW a \in Buffers PROVE HeldOnce(a)'
    <3>1. \A d \in Cameras : WithCamera(a, d)' <=> WithCamera(a, d)
      BY <1>1, <1>15, <1>18 DEF WithCamera
    <3>2. \A m \in Intake!Lanes, i \in Nat :
             (InLane(a, m, i)' <=> InLane(a, m, i)) /\ (WithWorker(a, m)' <=> WithWorker(a, m))
      BY <1>1, <2>1 DEF InLane, WithWorker
    <3>3. HeldOnce(a) BY DEF IntakeInv
    <3> QED BY <1>12, <2>1, <3>1, <3>2, <3>3 DEF HeldOnce
  <2>5. LanesFit' BY <1>1, <1>12, <2>1 DEF IntakeInv, LanesFit, LaneTakes, FitFor
  <2>6. PoolBounded' BY <2>1 DEF IntakeInv, PoolBounded, Intake!Idle
  <2> QED BY <1>11, <2>2, <2>3, <2>4, <2>5, <2>6 DEF IntakeInv
<1>19. CASE drops /\ b # "none"
  <2>1. buffer' = Intake!GivenBack(b) /\ lane' = lane /\ b \in Buffers BY <1>5, <1>16, <1>19
  <2>2. /\ buffer' \in [Buffers -> BufferStates] /\ buffer'[b].at # "frame"
        /\ \A a \in Buffers \ {b} : buffer'[a] = buffer[a]
        /\ PoolBounded'
    BY <1>14, <2>1, GivesBack
  <2>3. IntakeTypes' BY <1>1, <1>12, <1>13, <2>1, <2>2 DEF IntakeTypes
  <2>4. /\ \A d \in Cameras : WithCamera(b, d) => d = c
        /\ \A m \in Intake!Lanes, i \in Nat : ~InLane(b, m, i)
        /\ \A m \in Intake!Lanes : ~WithWorker(b, m)
    BY <1>14, <2>1 DEF HeldOnce
  <2>5. ASSUME NEW d \in Cameras PROVE CameraHolds(d)'
    <3>1. CASE d # c
      <4>1. CameraHolds(d) /\ cam'[d] = cam[d] /\ cam[d].frame.buf # b
        BY <1>8, <2>4, <3>1 DEF IntakeInv, WithCamera
      <4> QED BY <1>1, <2>2, <4>1, StillHolds
    <3> QED BY <1>9, <3>1
  <2>6. ASSUME NEW a \in Buffers PROVE HeldOnce(a)'
    <3>1. \A m \in Intake!Lanes, i \in Nat :
             (InLane(a, m, i)' <=> InLane(a, m, i)) /\ (WithWorker(a, m)' <=> WithWorker(a, m))
      BY <1>1, <2>1 DEF InLane, WithWorker
    <3>2. CASE a = b
      <4>1. \A d \in Cameras : ~WithCamera(a, d)' BY <1>15, <2>4, <3>2
      <4> QED BY <1>12, <2>2, <2>4, <3>1, <3>2, <4>1 DEF HeldOnce
    <3>3. CASE a # b
      <4>1. \A d \in Cameras : WithCamera(a, d)' <=> WithCamera(a, d)
        BY <1>15, <3>3 DEF WithCamera
      <4>2. HeldOnce(a) /\ buffer'[a] = buffer[a] BY <2>2, <3>3 DEF IntakeInv
      <4> QED BY <1>12, <3>1, <4>1, <4>2 DEF HeldOnce
    <3> QED BY <3>2, <3>3
  <2>7. LanesFit'
    <3>1. ASSUME NEW m \in Intake!Lanes, NEW i \in 1 .. Len(lane[m])
          PROVE  TakesNext(lane[m][i], m)
      <4>1. LaneTakes(lane[m][i], m) /\ lane[m][i].buf # b
        BY <2>4 DEF IntakeInv, LanesFit, InLane
      <4> QED BY <1>1, <2>2, <4>1, StillTakes
    <3>2. ASSUME NEW m \in Intake!Lanes, busy[m] # <<>> PROVE TakesNext(busy[m][1], m)
      <4>1. LaneTakes(busy[m][1], m) /\ busy[m][1].buf # b
        BY <2>4, <3>2 DEF IntakeInv, LanesFit, WithWorker
      <4> QED BY <1>1, <2>2, <4>1, StillTakes
    <3> QED BY <1>1, <2>1, <3>1, <3>2, LanesNext
  <2> QED BY <1>11, <2>2, <2>3, <2>5, <2>6, <2>7 DEF IntakeInv
<1> QED BY <1>17, <1>18, <1>19

-----------------------------------------------------------------------------
\* A worker takes the frame at the front of its lane.
LEMMA WorkKeeps == ASSUME IntakeInv, NEW l \in Intake!Lanes, Intake!Work(l) PROVE IntakeInv'
<1>1. /\ busy[l] = <<>> /\ lane[l] # <<>> /\ UNCHANGED <<setup, cam, session, buffer>>
      /\ lane \in [Intake!Lanes -> Seq(QueuedFrames)] /\ busy \in [Intake!Lanes -> Seq(QueuedFrames)]
      /\ busy' = [busy EXCEPT ![l] = <<Head(lane[l])>>]
      /\ lane' = [lane EXCEPT ![l] = Tail(lane[l])]
  BY DEF IntakeInv, IntakeTypes, Intake!Work
<1>2. Intake!Lanes' = Intake!Lanes /\ Intake!PerLane' = Intake!PerLane
  BY <1>1 DEF Intake!Lanes, Intake!PerLane
<1> DEFINE h == lane[l][1]
           k == Len(lane[l])
<1>3. /\ lane[l] \in Seq(QueuedFrames) /\ k \in Nat \ {0} /\ h \in QueuedFrames
      /\ Head(lane[l]) = h /\ Tail(lane[l]) \in Seq(QueuedFrames) /\ Len(Tail(lane[l])) = k - 1
      /\ \A n \in 1 .. k - 1 : Tail(lane[l])[n] = lane[l][n + 1]
  BY <1>1, HeadTailProperties
<1>4. /\ \A m \in Intake!Lanes : m # l => lane'[m] = lane[m] /\ busy'[m] = busy[m]
      /\ lane'[l] = Tail(lane[l]) /\ busy'[l] = <<h>>
      /\ lane' \in [Intake!Lanes -> Seq(QueuedFrames)]
      /\ busy' \in [Intake!Lanes -> Seq(QueuedFrames)]
  BY <1>1, <1>3
<1>5. IntakeTypes'
  <2>1. Len(busy'[l]) <= 1 BY <1>4
  <2>2. Len(lane'[l]) <= Intake!PerLane
    <3>1. k <= Intake!PerLane /\ Intake!PerLane \in Nat BY LaneFacts DEF IntakeInv, IntakeTypes
    <3> QED BY <1>3, <1>4, <3>1
  <2>3. \A m \in Intake!Lanes : Len(busy'[m]) <= 1 /\ Len(lane'[m]) <= Intake!PerLane
    <3>1. SUFFICES ASSUME NEW m \in Intake!Lanes
                   PROVE  Len(busy'[m]) <= 1 /\ Len(lane'[m]) <= Intake!PerLane
      OBVIOUS
    <3>2. CASE m = l
      <4>1. busy'[m] = busy'[l] /\ lane'[m] = lane'[l] BY <3>2
      <4> QED BY <2>1, <2>2, <4>1
    <3>3. CASE m # l
      <4>1. busy'[m] = busy[m] /\ lane'[m] = lane[m] BY <1>4, <3>3
      <4> QED BY <4>1 DEF IntakeInv, IntakeTypes
    <3> QED BY <3>2, <3>3
  <2> QED BY <1>1, <1>2, <1>4, <2>3 DEF IntakeInv, IntakeTypes
<1>6. ASSUME NEW d \in Cameras PROVE CameraHolds(d)'
  BY <1>1, StillHolds DEF IntakeInv
<1>7. SessionsApart' BY <1>1 DEF IntakeInv, SessionsApart, SessionFits, SessionOf, Gone
<1>8. ASSUME NEW b \in Buffers PROVE HeldOnce(b)'
  <2>1. HeldOnce(b) BY DEF IntakeInv
  <2>2. ASSUME NEW m \in Intake!Lanes, NEW n \in Nat
        PROVE  InLane(b, m, n)' <=> IF m = l THEN n >= 1 /\ InLane(b, l, n + 1) ELSE InLane(b, m, n)
    <3>1. CASE m # l BY <1>4, <3>1 DEF InLane
    <3>2. CASE m = l
      <4>1. n \in 1 .. k - 1 <=> n >= 1 /\ n + 1 \in 1 .. k BY <1>3
      <4>2. n \in 1 .. k - 1 => lane'[l][n] = lane[l][n + 1] BY <1>3, <1>4
      <4>3. Len(lane'[l]) = k - 1 BY <1>3, <1>4
      <4> QED BY <3>2, <4>1, <4>2, <4>3 DEF InLane
    <3> QED BY <3>1, <3>2
  <2>3. ASSUME NEW m \in Intake!Lanes
        PROVE  WithWorker(b, m)' <=> IF m = l THEN InLane(b, l, 1) ELSE WithWorker(b, m)
    <3>1. 1 \in 1 .. k BY <1>3
    <3>2. busy'[l] # <<>> /\ busy'[l][1] = h BY <1>4
    <3> QED BY <1>4, <3>1, <3>2 DEF InLane, WithWorker
  <2>4. \A d \in Cameras : WithCamera(b, d)' <=> WithCamera(b, d) BY <1>1 DEF WithCamera
  <2>5. ~WithWorker(b, l) BY <1>1 DEF WithWorker
  <2>6. \A m \in Intake!Lanes, n \in Nat : InLane(b, m, n) => n >= 1 BY DEF InLane
  <2>7. buffer' = buffer BY <1>1
  <2>8. buffer'[b].at = "frame" <=>
          \/ \E c \in Cameras : WithCamera(b, c)'
          \/ \E m \in Intake!Lanes, n \in Nat : InLane(b, m, n)'
          \/ \E m \in Intake!Lanes : WithWorker(b, m)'
    <3>1. ASSUME NEW m \in Intake!Lanes, NEW n \in Nat, InLane(b, m, n)
          PROVE  \/ \E i \in Intake!Lanes, j \in Nat : InLane(b, i, j)'
                 \/ \E i \in Intake!Lanes : WithWorker(b, i)'
      <4>1. CASE m # l BY <2>2, <3>1, <4>1
      <4>2. CASE m = l /\ n = 1 BY <2>3, <3>1, <4>2
      <4>3. CASE m = l /\ n # 1
        <5>1. n - 1 \in Nat /\ n - 1 >= 1 /\ (n - 1) + 1 = n BY <2>6, <3>1, <4>3
        <5> QED BY <2>2, <3>1, <4>3, <5>1
      <4> QED BY <4>1, <4>2, <4>3
    <3>2. ASSUME NEW m \in Intake!Lanes, NEW n \in Nat, InLane(b, m, n)'
          PROVE  \E i \in Intake!Lanes, j \in Nat : InLane(b, i, j)
      <4>1. n + 1 \in Nat OBVIOUS
      <4> QED BY <2>2, <3>2, <4>1
    <3>3. \A m \in Intake!Lanes : WithWorker(b, m) => WithWorker(b, m)' BY <2>3, <2>5
    <3>4. \A m \in Intake!Lanes : WithWorker(b, m)' => WithWorker(b, m) \/ InLane(b, l, 1)
      BY <2>3
    <3>5. 1 \in Nat OBVIOUS
    <3> QED BY <2>1, <2>4, <2>7, <3>1, <3>2, <3>3, <3>4, <3>5 DEF HeldOnce
  <2>9. \A m, i \in Intake!Lanes, n, j \in Nat :
           InLane(b, m, n)' /\ InLane(b, i, j)' => m = i /\ n = j
    <3>1. SUFFICES ASSUME NEW m \in Intake!Lanes, NEW i \in Intake!Lanes, NEW n \in Nat,
                          NEW j \in Nat, InLane(b, m, n)', InLane(b, i, j)'
                   PROVE  m = i /\ n = j
      OBVIOUS
    <3>2. n + 1 \in Nat /\ j + 1 \in Nat OBVIOUS
    <3>3. m = i
      BY <2>1, <2>2, <3>1, <3>2 DEF HeldOnce
    <3>4. n = j \/ (m = l /\ n + 1 = j + 1) BY <2>1, <2>2, <3>1, <3>2, <3>3 DEF HeldOnce
    <3> QED BY <3>3, <3>4
  <2>10. \A m, i \in Intake!Lanes : WithWorker(b, m)' /\ WithWorker(b, i)' => m = i
    <3>1. 1 \in Nat OBVIOUS
    <3>2. \A m \in Intake!Lanes : ~(InLane(b, l, 1) /\ WithWorker(b, m))
      BY <2>1, <3>1 DEF HeldOnce
    <3> QED BY <2>1, <2>3, <3>2 DEF HeldOnce
  <2>11. \A c \in Cameras, m \in Intake!Lanes, n \in Nat :
            ~(WithCamera(b, c)' /\ InLane(b, m, n)')
    <3>1. \A n \in Nat : n + 1 \in Nat OBVIOUS
    <3> QED BY <2>1, <2>2, <2>4, <3>1 DEF HeldOnce
  <2>12. \A c \in Cameras, m \in Intake!Lanes : ~(WithCamera(b, c)' /\ WithWorker(b, m)')
    <3>1. 1 \in Nat OBVIOUS
    <3> QED BY <2>1, <2>3, <2>4, <3>1 DEF HeldOnce
  <2>13. \A m, i \in Intake!Lanes, n \in Nat : ~(InLane(b, m, n)' /\ WithWorker(b, i)')
    <3>1. SUFFICES ASSUME NEW m \in Intake!Lanes, NEW i \in Intake!Lanes, NEW n \in Nat,
                          InLane(b, m, n)', WithWorker(b, i)'
                   PROVE  FALSE
      OBVIOUS
    <3>2. PICK j \in Nat : InLane(b, m, j) /\ (m = l => j # 1)
      <4>1. CASE m # l BY <2>2, <3>1, <4>1
      <4>2. CASE m = l
        <5>1. n + 1 \in Nat /\ n >= 1 /\ n + 1 # 1 BY <2>2, <3>1, <4>2
        <5> QED BY <2>2, <3>1, <4>2, <5>1
      <4> QED BY <4>1, <4>2
    <3>3. ~WithWorker(b, i) BY <2>1, <3>2 DEF HeldOnce
    <3>4. InLane(b, l, 1) BY <2>3, <3>1, <3>3
    <3> QED BY <2>1, <3>2, <3>4 DEF HeldOnce
  <2>14. \A c, d \in Cameras : WithCamera(b, c)' /\ WithCamera(b, d)' => c = d
    BY <2>1, <2>4 DEF HeldOnce
  <2> QED BY <1>2, <2>8, <2>9, <2>10, <2>11, <2>12, <2>13, <2>14 DEF HeldOnce
<1>9. LanesFit'
  <2>1. \A m \in Intake!Lanes : \A n \in 1 .. Len(lane[m]) : LaneTakes(lane[m][n], m)
    BY DEF IntakeInv, LanesFit
  <2>2. ASSUME NEW m \in Intake!Lanes, NEW n \in 1 .. Len(lane'[m])
        PROVE  TakesNext(lane'[m][n], m)
    <3>1. LaneTakes(lane'[m][n], m)
      <4>1. CASE m # l BY <1>4, <2>1, <2>2, <4>1
      <4>2. CASE m = l
        <5>1. n \in 1 .. k - 1 /\ n + 1 \in 1 .. k BY <1>3, <1>4, <2>2, <4>2
        <5>2. lane'[l][n] = lane[l][n + 1] BY <1>3, <1>4, <5>1
        <5> QED BY <2>1, <4>2, <5>1, <5>2
      <4> QED BY <4>1, <4>2
    <3> QED BY <1>1, <3>1, StillTakes
  <2>3. ASSUME NEW m \in Intake!Lanes, busy'[m] # <<>> PROVE TakesNext(busy'[m][1], m)
    <3>1. LaneTakes(busy'[m][1], m)
      <4>1. CASE m # l BY <1>4, <2>3, <4>1 DEF IntakeInv, LanesFit
      <4>2. CASE m = l
        <5>1. 1 \in 1 .. k /\ busy'[l][1] = h BY <1>3, <1>4
        <5> QED BY <2>1, <4>2, <5>1
      <4> QED BY <4>1, <4>2
    <3> QED BY <1>1, <3>1, StillTakes
  <2> QED BY <1>1, <2>2, <2>3, LanesNext
<1>10. PoolBounded' BY <1>1 DEF IntakeInv, PoolBounded, Intake!Idle
<1> QED BY <1>5, <1>6, <1>7, <1>8, <1>9, <1>10 DEF IntakeInv

\* A worker is through with its frame: its buffer goes back to the intake.
LEMMA DoneKeeps == ASSUME IntakeInv, NEW l \in Intake!Lanes, Intake!Done(l) PROVE IntakeInv'
<1> DEFINE f == busy[l][1]
           b == f.buf
<1>1. /\ busy[l] # <<>> /\ UNCHANGED <<setup, cam, lane>>
      /\ busy \in [Intake!Lanes -> Seq(QueuedFrames)]
      /\ busy' = [busy EXCEPT ![l] = <<>>]
      /\ buffer' = IF b = "none" THEN buffer ELSE Intake!GivenBack(b)
      /\ session' = Intake!Unmapped(session, f)
      /\ buffer \in [Buffers -> BufferStates] /\ "none" \notin Buffers
  BY TransportAssumption DEF IntakeInv, IntakeTypes, Intake!Done, TransportAssumption
<1>2. Intake!Lanes' = Intake!Lanes /\ Intake!PerLane' = Intake!PerLane
  BY <1>1 DEF Intake!Lanes, Intake!PerLane
<1>3. f \in QueuedFrames /\ b \in Buffers \cup {"none"}
  <2>1. busy[l] \in Seq(QueuedFrames) /\ Len(busy[l]) \in Nat /\ Len(busy[l]) # 0 BY <1>1
  <2>2. 1 \in 1 .. Len(busy[l]) BY <2>1
  <2>3. f \in QueuedFrames BY <2>1, <2>2, ElementOfSeq
  <2> HIDE DEF f
  <2> QED BY <2>3 DEF QueuedFrames
<1>4. session' = session
  <2>1. f.of = 0 BY <1>1 DEF IntakeInv, LanesFit, LaneTakes
  <2> QED BY <1>1, <2>1 DEF Intake!Unmapped
<1>5. /\ busy' \in [Intake!Lanes -> Seq(QueuedFrames)] /\ busy'[l] = <<>>
      /\ \A m \in Intake!Lanes : m # l => busy'[m] = busy[m]
  BY <1>1
<1> HIDE DEF f, b
<1>6. b \in Buffers => HeldOnce(b) /\ WithWorker(b, l) /\ buffer[b].at = "frame"
  BY <1>1 DEF IntakeInv, HeldOnce, WithWorker, b, f
<1>7. b # "none" =>
        /\ buffer' \in [Buffers -> BufferStates] /\ buffer'[b].at # "frame"
        /\ \A a \in Buffers \ {b} : buffer'[a] = buffer[a]
        /\ PoolBounded'
  BY <1>1, <1>3, <1>6, GivesBack
<1>8. /\ buffer' \in [Buffers -> BufferStates] /\ PoolBounded'
      /\ \A a \in Buffers \ {b} : buffer'[a] = buffer[a]
  <2>1. CASE b = "none" BY <1>1, <2>1 DEF IntakeInv, PoolBounded, Intake!Idle
  <2> QED BY <1>7, <2>1
<1>9. b \in Buffers =>
        /\ \A d \in Cameras : ~WithCamera(b, d)
        /\ \A m \in Intake!Lanes, i \in Nat : ~InLane(b, m, i)
        /\ \A m \in Intake!Lanes : WithWorker(b, m) => m = l
  BY <1>6 DEF HeldOnce
<1>10. IntakeTypes'
  <2>1. \A m \in Intake!Lanes : Len(busy'[m]) <= 1
    BY <1>5 DEF IntakeInv, IntakeTypes
  <2> QED BY <1>1, <1>2, <1>4, <1>5, <1>8, <2>1 DEF IntakeInv, IntakeTypes
<1>11. ASSUME NEW d \in Cameras PROVE CameraHolds(d)'
  <2>1. cam[d].frame.buf \in Buffers => cam[d].frame.buf # b BY <1>9 DEF WithCamera
  <2> QED BY <1>1, <1>8, <2>1, StillHolds DEF IntakeInv
<1>12. SessionsApart' BY <1>1, <1>4 DEF IntakeInv, SessionsApart, SessionFits, SessionOf, Gone
<1>13. ASSUME NEW a \in Buffers PROVE HeldOnce(a)'
  <2>1. HeldOnce(a) BY DEF IntakeInv
  <2>2. \A d \in Cameras : WithCamera(a, d)' <=> WithCamera(a, d) BY <1>1 DEF WithCamera
  <2>3. \A m \in Intake!Lanes, i \in Nat : InLane(a, m, i)' <=> InLane(a, m, i)
    BY <1>1 DEF InLane
  <2>4. \A m \in Intake!Lanes : WithWorker(a, m)' <=> WithWorker(a, m) /\ m # l
    BY <1>5 DEF WithWorker
  <2>5. CASE a = b
    <3>1. \A m \in Intake!Lanes : ~WithWorker(a, m)' BY <1>9, <2>4, <2>5
    <3>2. buffer'[a].at # "frame" BY <1>1, <1>7, <2>5
    <3> QED BY <1>2, <1>9, <2>2, <2>3, <2>5, <3>1, <3>2 DEF HeldOnce
  <2>6. CASE a # b
    <3>1. ~WithWorker(a, l) BY <2>6 DEF WithWorker, b, f
    <3>2. \A m \in Intake!Lanes : WithWorker(a, m)' <=> WithWorker(a, m) BY <2>4, <3>1
    <3>3. buffer'[a] = buffer[a] BY <1>8, <2>6
    <3> QED BY <1>2, <2>1, <2>2, <2>3, <3>2, <3>3 DEF HeldOnce
  <2> QED BY <2>5, <2>6
<1>14. LanesFit'
  <2>1. ASSUME NEW m \in Intake!Lanes, NEW i \in 1 .. Len(lane[m])
        PROVE  TakesNext(lane[m][i], m)
    <3>1. LaneTakes(lane[m][i], m) BY DEF IntakeInv, LanesFit
    <3>2. lane[m][i].buf \in Buffers => lane[m][i].buf # b BY <1>9 DEF InLane
    <3> QED BY <1>1, <1>8, <3>1, <3>2, StillTakes
  <2>2. ASSUME NEW m \in Intake!Lanes, busy'[m] # <<>> PROVE TakesNext(busy'[m][1], m)
    <3>1. m # l /\ busy'[m] = busy[m] BY <1>5, <2>2
    <3>2. LaneTakes(busy[m][1], m) BY <2>2, <3>1 DEF IntakeInv, LanesFit
    <3>3. busy[m][1].buf \in Buffers => busy[m][1].buf # b
      BY <1>9, <2>2, <3>1 DEF WithWorker
    <3> QED BY <1>1, <1>8, <3>1, <3>2, <3>3, StillTakes
  <2> QED BY <1>1, <2>1, <2>2, LanesNext
<1> QED BY <1>8, <1>10, <1>11, <1>12, <1>13, <1>14 DEF IntakeInv

-----------------------------------------------------------------------------
\* Nothing of the run is in the intake when it starts.
LEMMA IntakeStarts == ASSUME Intake!Init PROVE IntakeInv
<1>1. /\ setup \in Setups /\ cam = [c \in Cameras |-> Intake!Off] /\ session = <<>>
      /\ buffer = [b \in Buffers |-> Intake!Unallocated]
      /\ lane = [l \in Intake!Lanes |-> <<>>] /\ busy = [l \in Intake!Lanes |-> <<>>]
  BY DEF Intake!Init
<1>2. /\ Intake!Off \in CameraStates /\ Intake!Off.at = "off" /\ Intake!Off.session = 0
      /\ Intake!Off.ready = 0 /\ Intake!Off.frame.of = 0 /\ Intake!Off.frame.buf = "none"
  BY DEF Intake!Off, Intake!NoFrame, CameraStates, HeldFrames, IntakePlaces
<1>3. /\ Intake!Unallocated \in BufferStates /\ Intake!Unallocated.at = "free"
  BY DEF Intake!Unallocated, BufferStates
<1>4. Intake!PerLane \in Nat /\ MaxPooled \in Nat /\ "none" \notin Buffers
  <2>1. /\ setup.devices \in Seq(Nat) /\ setup.devices # <<>>
        /\ Capacity \in Nat \ {0} /\ MaxPooled \in Nat /\ "none" \notin Buffers
    BY <1>1, TransportAssumption DEF TransportAssumption
  <2>2. Len(setup.devices) \in Nat \ {0} BY <2>1
  <2>3. Intake!LaneCount(setup) \in Nat \ {0} BY <2>2 DEF Intake!LaneCount
  <2> DEFINE k == Intake!LaneCount(setup)
  <2> HIDE DEF k
  <2>4. Capacity \div k \in Nat BY <2>1, <2>3 DEF k
  <2> QED BY <2>1, <2>4 DEF Intake!PerLane, k
<1>5. IntakeTypes BY <1>1, <1>2, <1>3, <1>4 DEF IntakeTypes
<1>6. ASSUME NEW c \in Cameras PROVE CameraHolds(c) BY <1>1, <1>2 DEF CameraHolds
<1>7. SessionsApart
  <2>1. \A c \in Cameras : SessionOf(c) = 0 BY <1>1, <1>2 DEF SessionOf
  <2> QED BY <1>1, <2>1 DEF SessionsApart, SessionFits
<1>8. ASSUME NEW b \in Buffers PROVE HeldOnce(b)
  <2>1. /\ \A c \in Cameras : ~WithCamera(b, c)
        /\ \A l \in Intake!Lanes, n \in Nat : ~InLane(b, l, n)
        /\ \A l \in Intake!Lanes : ~WithWorker(b, l)
    BY <1>1, <1>2, <1>4 DEF WithCamera, InLane, WithWorker
  <2>2. buffer[b].at # "frame" BY <1>1, <1>3
  <2> QED BY <2>1, <2>2 DEF HeldOnce
<1>9. LanesFit BY <1>1 DEF LanesFit
<1>10. PoolBounded
  <2>1. SUFFICES ASSUME NEW d \in Int, NEW z \in Nat
                 PROVE  Cardinality(Intake!Idle(d, z)) <= MaxPooled
    BY DEF PoolBounded
  <2>2. \A b \in Buffers : buffer[b].at # "pool" BY <1>1, <1>3
  <2>3. Intake!Idle(d, z) = {} BY <2>2 DEF Intake!Idle
  <2> QED BY <1>4, <2>3, FS_EmptySet
<1> QED BY <1>5, <1>6, <1>7, <1>8, <1>9, <1>10 DEF IntakeInv

\* Every step of the intake keeps the invariant.
LEMMA IntakeStep == ASSUME IntakeInv, Intake!Next PROVE IntakeInv'
<1>1. ASSUME NEW c \in Cameras,
             \/ Intake!Connect(c) \/ Intake!ConnectRefused(c) \/ Intake!Feed(c)
             \/ Intake!FeedFails(c) \/ Intake!Map(c) \/ Intake!MapFails(c) \/ Intake!ReadHost(c)
             \/ Intake!PutRefused(c) \/ Intake!Take(c) \/ Intake!Put(c) \/ Intake!DropFrame(c)
      PROVE  IntakeInv'
  BY <1>1, ConnectKeeps, QuietCamera, FeedKeeps, FailsKeep, MapKeeps, TakeKeeps, PutKeeps,
     DropKeeps
<1>2. ASSUME NEW l \in Intake!Lanes, Intake!Work(l) \/ Intake!Done(l) PROVE IntakeInv'
  BY <1>2, WorkKeeps, DoneKeeps
<1>3. CASE Intake!CloseLanes
  <2>1. UNCHANGED <<setup, cam, session, buffer, lane, busy>> BY <1>3 DEF Intake!CloseLanes
  <2> QED BY <2>1, IntakeQuiet
<1> QED BY <1>1, <1>2, <1>3 DEF Intake!Next

-----------------------------------------------------------------------------
\* What the invariant says of frames in memory.

LEMMA OwnDevice == ASSUME IntakeInv PROVE Intake!OnItsOwnDevice
BY DEF IntakeInv, LanesFit, LaneTakes, FitFor, Intake!OnItsOwnDevice, Intake!WorkerDevice

LEMMA SurfacesOutlive == ASSUME IntakeInv PROVE Intake!SurfacesOutliveTheirSource
<1>1. /\ \A c \in Cameras : cam[c] \in CameraStates /\ CameraHolds(c) /\ SessionFits(c)
      /\ session \in Seq(SessionStates) /\ SessionsApart
  BY DEF IntakeInv, IntakeTypes, SessionsApart
<1>2. ASSUME NEW c \in Cameras, cam[c].frame.of # 0
      PROVE  cam[c].frame.slot \in session[cam[c].frame.of].mapped
  <2>1. SessionOf(c) = cam[c].frame.of
    BY <1>1, <1>2 DEF SessionOf, CameraHolds, CameraStates, IntakePlaces
  <2> QED BY <1>1, <1>2, <2>1 DEF SessionFits
<1>3. ASSUME NEW c \in Cameras, cam[c].at \in {"off", "ended"}, NEW s \in DOMAIN session,
             Intake!Alive(s)
      PROVE  \E d \in Cameras \ {c} : s \in {cam[d].session, cam[d].frame.of}
  <2>1. s \in 1 .. Len(session) /\ ~Gone(s) BY <1>1, <1>3 DEF Intake!Alive, Gone
  <2>2. PICK d \in Cameras : SessionOf(d) = s BY <1>1, <2>1 DEF SessionsApart
  <2>3. SessionOf(c) = 0 BY <1>1, <1>3 DEF CameraHolds, SessionOf
  <2>4. s # 0 BY <2>1
  <2> QED BY <2>2, <2>3, <2>4 DEF SessionOf
<1> QED BY <1>2, <1>3 DEF Intake!SurfacesOutliveTheirSource

LEMMA NoSurfaceQueued == ASSUME IntakeInv PROVE Intake!QueueHoldsNoSurface
BY DEF IntakeInv, CameraHolds, SessionsApart, SessionFits, SessionOf, Intake!QueueHoldsNoSurface

\* Every buffer that is not idle is in exactly one frame, of its own size.
LEMMA Accounted == ASSUME IntakeInv PROVE Intake!BuffersAccounted
<1> DEFINE frames == {<<"cam", c>> : c \in {x \in Cameras : cam[x].frame.buf # "none"}}
                  \cup {<<"lane", l, n>> : l \in Intake!Lanes, n \in 1 .. Capacity}
                  \cup {<<"busy", l>> : l \in {x \in Intake!Lanes : busy[x] # <<>>}}
           carried(h) == CASE h[1] = "cam" -> [cam |-> h[2], buf |-> cam[h[2]].frame.buf]
                           [] h[1] = "busy" -> busy[h[2]][1]
                           [] OTHER -> IF h[3] <= Len(lane[h[2]]) THEN lane[h[2]][h[3]]
                                       ELSE [cam |-> "none", buf |-> "none"]
           holders(b) == {h \in frames : carried(h).buf = b}
<1>1. \A c \in Cameras : /\ carried(<<"cam", c>>).buf = cam[c].frame.buf
                         /\ carried(<<"cam", c>>).cam = c
  OBVIOUS
<1>2. \A l \in Intake!Lanes : carried(<<"busy", l>>) = busy[l][1] OBVIOUS
<1>3. \A l \in Intake!Lanes, n \in Nat :
         carried(<<"lane", l, n>>) = IF n <= Len(lane[l]) THEN lane[l][n]
                                     ELSE [cam |-> "none", buf |-> "none"]
  OBVIOUS
<1>4. \A h \in frames :
         \/ \E c \in Cameras : h = <<"cam", c>>
         \/ \E l \in Intake!Lanes, n \in 1 .. Capacity : h = <<"lane", l, n>>
         \/ \E l \in Intake!Lanes : h = <<"busy", l>> /\ busy[l] # <<>>
  OBVIOUS
<1>5. /\ \A c \in Cameras : cam[c].frame.buf # "none" => <<"cam", c>> \in frames
      /\ \A l \in Intake!Lanes, n \in 1 .. Capacity : <<"lane", l, n>> \in frames
      /\ \A l \in Intake!Lanes : busy[l] # <<>> => <<"busy", l>> \in frames
  OBVIOUS
<1>6. ASSUME NEW b \in Buffers
      PROVE  /\ buffer[b].at = "frame" <=> holders(b) # {}
             /\ Intake!Cardinality(holders(b)) <= 1
             /\ \A h \in holders(b) : buffer[b].size = SizeOf[carried(h).cam]
             /\ buffer[b].at = "pool" =>
                   Intake!Cardinality(Intake!Idle(buffer[b].device, buffer[b].size)) <= MaxPooled
  <2> DEFINE held == holders(b)
  <2>1. HeldOnce(b) /\ b # "none" /\ Capacity \in Nat
    BY TransportAssumption DEF IntakeInv, TransportAssumption
  <2>2. \A l \in Intake!Lanes, n \in Nat : InLane(b, l, n) => n \in 1 .. Capacity
    <3>1. \A l \in Intake!Lanes : Len(lane[l]) \in Nat /\ Len(lane[l]) <= Intake!PerLane
      BY DEF IntakeInv, IntakeTypes
    <3>2. Intake!PerLane \in 1 .. Capacity BY LaneFacts DEF IntakeInv
    <3> QED BY <2>1, <3>1, <3>2 DEF InLane
  <2>3. \A c \in Cameras : <<"cam", c>> \in held <=> WithCamera(b, c)
    BY <1>1, <1>5, <2>1 DEF WithCamera
  <2>4. \A l \in Intake!Lanes, n \in 1 .. Capacity : <<"lane", l, n>> \in held <=> InLane(b, l, n)
    BY <1>3, <1>5, <2>1 DEF InLane
  <2>5. \A l \in Intake!Lanes : busy[l] # <<>> => (<<"busy", l>> \in held <=> WithWorker(b, l))
    BY <1>2, <1>5 DEF WithWorker
  <2>6. ASSUME NEW h \in held
        PROVE  \/ \E c \in Cameras : h = <<"cam", c>> /\ WithCamera(b, c)
               \/ \E l \in Intake!Lanes, n \in 1 .. Capacity :
                     h = <<"lane", l, n>> /\ InLane(b, l, n)
               \/ \E l \in Intake!Lanes : h = <<"busy", l>> /\ WithWorker(b, l)
    <3>1. h \in frames OBVIOUS
    <3> HIDE DEF frames, held
    <3> QED BY <1>4, <2>3, <2>4, <2>5, <3>1
  <2>7. \A l \in Intake!Lanes : WithWorker(b, l) => <<"busy", l>> \in held
    BY <2>5 DEF WithWorker
  <2>8. \A h \in held : buffer[b].size = SizeOf[carried(h).cam]
    <3>1. SUFFICES ASSUME NEW h \in held PROVE buffer[b].size = SizeOf[carried(h).cam]
      OBVIOUS
    <3> HIDE DEF frames, held
    <3>2. ASSUME NEW c \in Cameras, h = <<"cam", c>>, WithCamera(b, c)
          PROVE  buffer[b].size = SizeOf[carried(h).cam]
      <4>1. FitFor(b, c)
        BY <2>1, <3>2 DEF IntakeInv, CameraHolds, WithCamera
      <4>2. carried(h).cam = c BY <1>1, <3>2
      <4> QED BY <4>1, <4>2 DEF FitFor
    <3>3. ASSUME NEW l \in Intake!Lanes, NEW n \in 1 .. Capacity, h = <<"lane", l, n>>,
                 InLane(b, l, n)
          PROVE  buffer[b].size = SizeOf[carried(h).cam]
      <4>1. LaneTakes(lane[l][n], l) /\ lane[l][n].buf = b
        BY <3>3 DEF IntakeInv, LanesFit, InLane
      <4>2. carried(h) = lane[l][n] BY <1>3, <3>3 DEF InLane
      <4> HIDE DEF carried
      <4> QED BY <2>1, <4>1, <4>2 DEF FitFor, LaneTakes
    <3>4. ASSUME NEW l \in Intake!Lanes, h = <<"busy", l>>, WithWorker(b, l)
          PROVE  buffer[b].size = SizeOf[carried(h).cam]
      <4>1. LaneTakes(busy[l][1], l) /\ busy[l][1].buf = b
        BY <3>4 DEF IntakeInv, LanesFit, WithWorker
      <4>2. carried(h) = busy[l][1] BY <1>2, <3>4
      <4> HIDE DEF carried
      <4> QED BY <2>1, <4>1, <4>2 DEF FitFor, LaneTakes
    <3> QED BY <2>6, <3>2, <3>3, <3>4
  <2> HIDE DEF frames, carried, held
  <2>9. buffer[b].at = "frame" <=> held # {}
    <3>1. (\E c \in Cameras : WithCamera(b, c)) => held # {} BY <2>3
    <3>2. (\E l \in Intake!Lanes, n \in Nat : InLane(b, l, n)) => held # {} BY <2>2, <2>4
    <3>3. (\E l \in Intake!Lanes : WithWorker(b, l)) => held # {} BY <2>7
    <3>4. held # {} =>
            \/ \E c \in Cameras : WithCamera(b, c)
            \/ \E l \in Intake!Lanes, n \in Nat : InLane(b, l, n)
            \/ \E l \in Intake!Lanes : WithWorker(b, l)
      BY <2>1, <2>6
    <3> QED BY <2>1, <3>1, <3>2, <3>3, <3>4 DEF HeldOnce
  <2>10. \A g, h \in held : g = h
    <3>1. SUFFICES ASSUME NEW g \in held, NEW h \in held PROVE g = h OBVIOUS
    <3>2. 1 .. Capacity \subseteq Nat BY <2>1
    <3> QED BY <2>1, <2>6, <3>2 DEF HeldOnce
  <2>11. Cardinality(held) <= 1
    <3>1. CASE held = {} BY <3>1, FS_EmptySet
    <3>2. CASE held # {}
      <4>1. PICK h : h \in held BY <3>2
      <4>2. held = {h} BY <2>10, <4>1
      <4>3. Cardinality({h}) = 1 BY FS_Singleton
      <4> QED BY <4>2, <4>3
    <3> QED BY <3>1, <3>2
  <2>12. Intake!Cardinality(held) = Cardinality(held) BY DEF Intake!Cardinality, Cardinality
  <2> DEFINE idle == Intake!Idle(buffer[b].device, buffer[b].size)
  <2>13. Cardinality(idle) <= MaxPooled
    <3>1. buffer[b].device \in Int /\ buffer[b].size \in Nat
      BY DEF IntakeInv, IntakeTypes, BufferStates
    <3> QED BY <3>1 DEF IntakeInv, PoolBounded
  <2> HIDE DEF idle
  <2>14. Intake!Cardinality(idle) = Cardinality(idle) BY DEF Intake!Cardinality, Cardinality
  <2> QED BY <2>8, <2>9, <2>11, <2>12, <2>13, <2>14 DEF held, idle
<1> QED BY <1>6 DEF Intake!BuffersAccounted


\* The decoded frames of any number of cameras, on any placement of them on the
\* GPUs of the run and with any sizes of pictures, pools and queues: a worker
\* gets pixels of its own GPU, a surface that is held belongs to a session that
\* lives and a session nobody holds is gone, no queued frame keeps a decoder's
\* surface, and every device buffer is idle or in exactly one frame.
THEOREM FramesAreInGoodMemory == MCSpec => []FramesInGoodMemory
<1> DEFINE I == part = "intake" => IntakeInv
<1>1. MCInit => I BY IntakeStarts DEF MCInit
<1>2. I /\ [MCNext]_transportVars => I'
  <2> SUFFICES ASSUME I, [MCNext]_transportVars, part' = "intake" PROVE IntakeInv' OBVIOUS
  <2>1. part = "intake" /\ (Intake!Next \/ UNCHANGED intakeVars)
    BY DEF MCNext, transportVars
  <2>2. CASE Intake!Next BY <2>1, <2>2, IntakeStep
  <2>3. CASE UNCHANGED intakeVars BY <2>1, <2>3, IntakeQuiet DEF intakeVars
  <2> QED BY <2>1, <2>2, <2>3
<1>3. I => FramesInGoodMemory
  BY OwnDevice, SurfacesOutlive, NoSurfaceQueued, Accounted DEF FramesInGoodMemory
<1> QED BY <1>1, <1>2, <1>3, PTL DEF MCSpec, transportVars
=============================================================================
