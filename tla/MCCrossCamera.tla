----------------------------- MODULE MCCrossCamera -----------------------------
(***************************************************************************)
(* What brings cameras together; part says which of these independent      *)
(* instances a behaviour is.                                               *)
(*   "one"       three workers and the barrier of a group of two cameras,  *)
(*               one of which comes and goes                               *)
(*   "two"       the same workers between two groups of two cameras        *)
(*   "elements"  two workers through one and two cross-camera elements,    *)
(*               with and without declared cameras                         *)
(*   "identity"  the identities of one group, on scenes of it              *)
(***************************************************************************)
EXTENDS InstantBarrier, Naturals, Sequences, TLC

CONSTANTS x1, x2

MCOneGroup == [c \in Cameras |-> 1]
Symmetry == Permutations(Workers) \cup Permutations({x1, x2})
Chains == {<<{"c1"}, {"c2", "c3"}>>, <<{"c1", "c2", "c3"}>>, <<{}>>, <<{"c1"}, {}>>}

-----------------------------------------------------------------------------
\* A group of two cameras (and a third that is not the group's): three tracks
\* of one and one of the other, so that two can challenge for one camera's
\* place in an identity.
Row(k, look, tall) == [key |-> k, look |-> look, tall |-> tall]

East == {<<1, n>> : n \in 1..3}
West == {<<2, 1>>}
MCKeys == East \cup West
Opts(hits, absence, age, tracks, cap, routes) ==
    [minHits |-> hits, maxAbsent |-> absence, maxAge |-> age, maxTracks |-> tracks,
     capacity |-> cap, routes |-> routes]

Frame(c, rows) == [camera |-> c, rows |-> rows]
RowsOf(ks, look) ==
    SelectSeq(<<Row(<<1, 1>>, look[<<1, 1>>], TRUE), Row(<<1, 2>>, look[<<1, 2>>], TRUE),
                Row(<<1, 3>>, look[<<1, 3>>], TRUE), Row(<<2, 1>>, look[<<2, 1>>], TRUE)>>,
              LAMBDA r : r.key \in ks)
Seen(ks, look) == <<Frame(1, RowsOf(ks \cap East, look)), Frame(2, RowsOf(ks \cap West, look))>>
\* Every set of these tracks, with every look the ones of the east may have.
Looks(ks, of) ==
    {Seen(s, [k \in MCKeys |-> IF k[1] = 1 /\ k[2] \in r THEN "right" ELSE "left"]) :
     s \in SUBSET ks, r \in of}
Odd == {<<Frame(1, <<Row(<<1, 1>>, "left", TRUE), Row(<<1, 1>>, "left", TRUE)>>)>>,
        <<Frame(1, <<Row(<<1, 1>>, "wide", TRUE), Row(<<1, 2>>, "left", TRUE)>>)>>,
        <<Frame(1, <<Row(<<1, 1>>, "none", TRUE), Row(<<1, 2>>, "between", TRUE)>>)>>,
        <<Frame(2, <<Row(<<2, 1>>, "zero", TRUE)>>)>>,
        <<Frame(3, <<Row(<<3, 1>>, "left", TRUE)>>), Frame(2, <<Row(<<2, 1>>, "left", TRUE)>>)>>}
\* Whether a camera was there, and whether its track was large enough: what the
\* gate meets.
Gated == {<<>>, <<Frame(1, <<>>)>>, <<Frame(1, <<Row(<<1, 1>>, "left", TRUE)>>)>>,
          <<Frame(1, <<Row(<<1, 1>>, "left", FALSE)>>)>>,
          <<Frame(2, <<Row(<<2, 1>>, "zero", TRUE)>>)>>,
          <<Frame(1, <<Row(<<1, 1>>, "left", TRUE)>>), Frame(2, <<Row(<<2, 1>>, "left", TRUE)>>)>>}
Contested == Opts(1, 1, 1, 8, 8, FALSE)
Stays == Opts(1, 1, 1, 7, 7, FALSE)
Small == Opts(1, 1, 2, 3, 2, TRUE)
Patient == Opts(2, 1, 3, 8, 8, FALSE)
MCInstants ==
    (Contested :> Looks(MCKeys, {{}, {1}, {1, 2}}))
    @@ (Stays :> Looks({<<1, 1>>, <<1, 2>>, <<2, 1>>}, SUBSET (1..2)))
    @@ (Small :> Odd \cup Looks(MCKeys, {{}}))
    @@ (Patient :> Gated)
MCBounds == (Contested :> 2) @@ (Stays :> 3) @@ (Small :> 2) @@ (Patient :> 5)

-----------------------------------------------------------------------------
VARIABLES part,
          chain, el, walker, walked, lifecycle,
          options, streak, absent, space, published, grouped, fellBack, past

Shared == INSTANCE InstantBarrier WITH
    Groups <- {1, 2}, Cameras <- 1 .. 4, GroupOf <- <<1, 1, 2, 2>>, Roster <- 1 .. 4,
    Churn <- {}, Times <- {0, 1}
Mtmc == INSTANCE MtmcElement WITH
    Cameras <- {"c1", "c2", "c3"}, Workers <- {x1, x2}, Setups <- Chains, Permits <- 1,
    SilentAfter <- 1, MaxFrames <- 3, MaxLifecycle <- 3, worker <- walker, frames <- walked
Identity == INSTANCE IdentitySpace WITH
    Keys <- MCKeys, Between <- "between", Scenes <- MCInstants, Groups <- {1, 2},
    MaxInstants <- MCBounds

\* Frames and openings or closings of one behaviour of the elements, together.
MaxMtmcSteps == 5

mtmcVars == <<chain, el, walker, walked, lifecycle>>
identityVars == <<options, streak, absent, space, published, grouped, fellBack, past>>

BarrierOff ==
    /\ group = 0 /\ worker = 0 /\ held = 0 /\ frames = 0 /\ last = 0
MtmcOff ==
    /\ chain = 0 /\ el = 0 /\ walker = 0 /\ walked = 0 /\ lifecycle = 0
IdentityOff ==
    /\ options = 0 /\ streak = 0 /\ absent = 0 /\ space = 0 /\ published = 0 /\ grouped = 0
    /\ fellBack = 0 /\ past = 0

MCInit ==
    \/ part = "one" /\ Init /\ MtmcOff /\ IdentityOff
    \/ part = "two" /\ Shared!Init /\ MtmcOff /\ IdentityOff
    \/ part = "elements" /\ Mtmc!Init /\ BarrierOff /\ IdentityOff
    \/ part = "identity" /\ Identity!Init /\ BarrierOff /\ MtmcOff

MCNext ==
    /\ UNCHANGED part
    /\ \/ part = "one" /\ Next /\ UNCHANGED <<mtmcVars, identityVars>>
       \/ part = "two" /\ Shared!Next /\ UNCHANGED <<mtmcVars, identityVars>>
       \/ /\ part = "elements" /\ Mtmc!Next /\ UNCHANGED <<vars, identityVars>>
          /\ walked' + lifecycle' <= MaxMtmcSteps
       \/ part = "identity" /\ Identity!Next /\ UNCHANGED <<vars, mtmcVars>>

MCSpec == MCInit /\ [][MCNext]_<<part, vars, mtmcVars, identityVars>>

-----------------------------------------------------------------------------
\* See InstantBarrier: every instant is one moment and ends once, the oldest goes
\* first, and a clock that steps back costs one frame.
InstantsInOrder ==
    /\ [](part = "one" => InstantsAccounted /\ EvictsTheOldest)
    /\ [][part = "one" => OneRefusalPerStep]_<<part, vars>>

\* See InstantBarrier: nobody sleeps through what it waits for, the groups
\* between them never park the last worker, and every wait ends.
NobodyWaitsInVain ==
    /\ part = "one" => NobodySleepsThrough /\ EveryWaitEnds
    /\ part = "two" => Shared!NeverParksTheLast /\ Shared!EveryWaitEnds

\* See MtmcElement: a frame gets the ids of its own group, from an association
\* that is open, and what is said of a group's cameras is so.
GroupAnswersForItsOwn ==
    /\ [](part = "elements" => Mtmc!OneGroupAnswers /\ Mtmc!LatchFollowsTheGroup)
    /\ [][part = "elements" => Mtmc!AssociatesOnlyOpen /\ Mtmc!SilentMeansSilent]_
          <<part, mtmcVars>>

\* See IdentitySpace: an identity is one object, seen once by each camera, under
\* an id that was nobody's before, and the space of them stays bounded.
IdentityIsOneObject ==
    /\ [](part = "identity" => /\ Identity!OneViewPerCamera /\ Identity!MapsAgree
                               /\ Identity!SpaceIsBounded /\ Identity!TrustedAfterARun)
    /\ [][part = "identity" => Identity!IdsAreNotReused /\ Identity!MovedOnlyOnEvidence]_
          <<part, identityVars>>
=============================================================================
