---------------------------- MODULE RingContract ----------------------------
(***************************************************************************)
(* What a shared ring (runtime/memory/shared_ring.py) promises the two     *)
(* processes at its ends: a bounded channel without order.  A submitter    *)
(* reserves room, sends into it or gives it back; the owner receives each  *)
(* message at most once and holds its room until it is finished with it.   *)
(* Closing refuses new reservations and takes nothing back.                *)
(***************************************************************************)
EXTENDS Naturals, FiniteSets

CONSTANTS Messages, Room

VARIABLES
    reserved,   \* number of claimed slots without a message
    sent,       \* messages ever sent
    ready,      \* sent, not received
    held,       \* received, not finished with
    shut        \* the owner has closed

contractVars == <<reserved, sent, ready, held, shut>>

ContractInit ==
    reserved = 0 /\ sent = {} /\ ready = {} /\ held = {} /\ shut = FALSE

Load == reserved + Cardinality(ready) + Cardinality(held)

Reserve ==
    /\ Load < Room
    /\ reserved' = reserved + 1
    /\ UNCHANGED <<sent, ready, held, shut>>

GiveBack ==
    /\ reserved > 0
    /\ reserved' = reserved - 1
    /\ UNCHANGED <<sent, ready, held, shut>>

Send(m) ==
    /\ reserved > 0 /\ m \notin sent
    /\ reserved' = reserved - 1
    /\ sent' = sent \cup {m}
    /\ ready' = ready \cup {m}
    /\ UNCHANGED <<held, shut>>

Receive(m) ==
    /\ m \in ready
    /\ ready' = ready \ {m}
    /\ held' = held \cup {m}
    /\ UNCHANGED <<reserved, sent, shut>>

Finish(m) ==
    /\ m \in held
    /\ held' = held \ {m}
    /\ UNCHANGED <<reserved, sent, ready, shut>>

Close ==
    /\ ~shut
    /\ shut' = TRUE
    /\ UNCHANGED <<reserved, sent, ready, held>>

ContractNext ==
    \/ Reserve \/ GiveBack \/ Close
    \/ \E m \in Messages : Send(m) \/ Receive(m) \/ Finish(m)

ContractSpec == ContractInit /\ [][ContractNext]_contractVars
=============================================================================
