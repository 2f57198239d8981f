----------------------------- MODULE IdentitySpace ----------------------------
\* One camera group's identity space on the C++ plane: the gate that decides
\* which tracks are worth asking about, the map from (camera, track) to a
\* global id kept over instants, and the stage that hands an instant in and
\* scatters its answer back to the frames.  Appearance is one of a few Looks:
\* two equal looks are similar 2, Between is similar 1 to any other, two
\* different ones 0.  The matcher and the clusterer are the library's: a
\* clustering is any labelling of the admitted rows.
EXTENDS Integers, Sequences, FiniteSets, SequencesExt, FiniteSetsExt, Functions

CONSTANTS Keys,          \* the (camera, track) pairs: <<camera, number>>
          Between,       \* the look half way between the others
          Scenes,        \* Scenes[o]: what the barrier may hand in under the options o
          Groups,        \* the cameras of this group's roster
          MaxInstants    \* bound: MaxInstants[o] instants in a behaviour under o

VARIABLES options,       \* the options the slot's tracker was built with, or Unmade
          streak,        \* ObservationGate::hits_: key -> qualifying observations in a row
          absent,        \* ObservationGate::absent_: key -> instants its camera was not in
          space,         \* the GlobalIdAssigner
          published,     \* the records of the instant just answered: key -> id
          grouped,       \* history: the groups of the instant just answered
          fellBack,      \* history: an observation left the groups without an id
          past           \* history: what each instant held, for a gate that waits
vars == <<options, streak, absent, space, published, grouped, fellBack, past>>

Unmade == [made |-> FALSE]
None == -1
Options == DOMAIN Scenes   \* the gate's and the assigner's
Row(k, look, tall) == [key |-> k, look |-> look, tall |-> tall]
Alike(a, b) == IF a = b THEN 2 ELSE IF Between \in {a, b} THEN 1 ELSE 0
Without(f, ks) == Restrict(f, DOMAIN f \ ks)
Set(f, k, v) == [x \in DOMAIN f \cup {k} |-> IF x = k THEN v ELSE f[x]]
At(f, k, default) == IF k \in DOMAIN f THEN f[k] ELSE default
-------------------------------------------------------------------------------
\* The gate
KeysOf(rows) == {rows[i].key : i \in DOMAIN rows}
TwiceInOneInstant(rows) == Cardinality(KeysOf(rows)) # Len(rows)
\* A camera this instant did not hold said nothing about its tracks, for a
\* bounded while.
Carried(present, o) ==
    {k \in DOMAIN streak : /\ k[1] \notin present
                           /\ At(absent, k, 0) + 1 <= o.maxAbsent}
Qualifying(rows) == {r \in ToSet(rows) : r.tall}
Streaks(rows, present, o) ==
    LET held == Carried(present, o)
        counted == {r.key : r \in Qualifying(rows)}
    IN  [k \in held \cup counted |->
            IF k \in counted THEN At(streak, k, 0) + 1 ELSE streak[k]]
Absences(rows, present, o) ==
    [k \in Carried(present, o) \ {r.key : r \in Qualifying(rows)} |-> At(absent, k, 0) + 1]
Admitted(rows, streaks, o) ==
    SelectSeq(rows, LAMBDA r : r.tall /\ streaks[r.key] >= o.minHits)
-------------------------------------------------------------------------------
\* The assigner: its maps, and what moves a track between identities
EmptySpace == [members |-> <<>>, owner |-> <<>>, feature |-> <<>>, hits |-> <<>>,
               seen |-> <<>>, issued |-> 0, step |-> 0, widths |-> {}]
OwnerOf(s, k) == At(s.owner, k, None)
MembersOf(s, g) == At(s.members, g, <<>>)

Adopt(s, k, g) == [s EXCEPT !.owner = Set(@, k, g),
                            !.members = Set(@, g, Append(At(@, g, <<>>), k))]
Detach(s, k, g) ==
    LET left == SelectSeq(MembersOf(s, g), LAMBDA m : m # k)
    IN  IF g \notin DOMAIN s.members THEN s
        ELSE [s EXCEPT !.members = IF left = <<>> THEN Without(@, {g}) ELSE Set(@, g, left)]
Move(s, k, from, to) == IF from = to THEN s ELSE Adopt(Detach(s, k, from), k, to)
Place(s, k, target) ==
    IF OwnerOf(s, k) = None THEN Adopt(s, k, target) ELSE Move(s, k, OwnerOf(s, k), target)
AdoptNew(s, k) == [Adopt(s, k, s.issued) EXCEPT !.issued = @ + 1]
Forget(s, k) ==
    LET owned == k \in DOMAIN s.owner
        t == IF owned THEN Detach([s EXCEPT !.owner = Without(@, {k})], k, s.owner[k]) ELSE s
    IN  [t EXCEPT !.feature = Without(@, {k}), !.hits = Without(@, {k}),
                  !.seen = Without(@, {k})]
ForgetAll(s, ks) == FoldLeft(Forget, s, ks)

\* Age is observations in a row: a gap of one instant restarts it.
ObserveRow(s, r) ==
    LET again == At(s.seen, r.key, s.step - 2) = s.step - 1
    IN  [s EXCEPT !.feature = Set(@, r.key, r.look),
                  !.hits = Set(@, r.key, IF again THEN @[r.key] + 1 ELSE 1),
                  !.seen = Set(@, r.key, s.step)]
Observe(s, rows) == FoldLeft(ObserveRow, s, rows)

\* Groups of one label, largest first, ties in order of first appearance.
OrderedGroups(rows, labels) ==
    LET first == SelectSeq([i \in DOMAIN rows |-> i],
                           LAMBDA i : \A j \in 1..(i - 1) : labels[j] # labels[i])
        groups == [n \in DOMAIN first |->
                    SelectSeq([i \in DOMAIN rows |-> i], LAMBDA i : labels[i] = labels[first[n]])]
        ofSize(n) == SelectSeq(groups, LAMBDA g : Len(g) = n)
        down == [n \in DOMAIN rows |-> ofSize(Len(rows) + 1 - n)]
        keysOf(g) == [n \in DOMAIN g |-> rows[g[n]].key]
        ordered == FlattenSeq(down)
    IN  [n \in DOMAIN ordered |-> keysOf(ordered[n])]

\* The mean over an identity's overlap, as a number to compare: the sum, for
\* the overlap is the same on both sides.  The best over a set that may be
\* empty is 0 when it is.
Total(look, overlap) == FoldLeft(LAMBDA t, o : t + Alike(look, o), 0, overlap)
Best(look, others) == IF others = {} THEN 0 ELSE Max({Alike(look, o) : o \in others})

CandidateIds(s, keys, matched) ==
    LET owned == {OwnerOf(s, k) : k \in keys} \ (matched \cup {None})
        count(g) == Cardinality({k \in keys : OwnerOf(s, k) = g})
    IN  {g \in owned : \A h \in owned : count(h) <= count(g)}
Age(s, g) == Max({0} \cup {At(s.hits, m, 0) : m \in ToSet(MembersOf(s, g))})
SelectByOldest(s, candidates) ==
    Min({g \in candidates : \A h \in candidates : Age(s, h) <= Age(s, g)})
\* Fault: the contest is against whoever held the slot when the cluster was
\* taken up.
MemberFromCameraFirst(s, g, camera, ignoring) ==
    SelectSeq(MembersOf(s, g), LAMBDA m : m[1] = camera)

MemberFromCamera(s, g, camera, ignoring) ==
    SelectSeq(MembersOf(s, g), LAMBDA m : m[1] = camera /\ m \notin ignoring)
ResolveBetweenIdentities(s, k, target, overlap) ==
    LET owner == OwnerOf(s, k)
        rest == {s.feature[m] : m \in ToSet(MembersOf(s, owner)) \ {k}}
    IN  IF Best(s.feature[k], ToSet(overlap)) > Best(s.feature[k], rest)
        THEN Move(s, k, owner, target) ELSE s
-------------------------------------------------------------------------------
\* One group of an instant.  The accumulator is [s |-> the space, matched |->
\* the ids this instant already continued].
FreshIdentity(acc, keys) ==
    LET s == acc.s
        fresh == SelectSeq(keys, LAMBDA k : OwnerOf(s, k) = None)
        adoptFresh(a, k) ==
            IF k[1] \in a.claimed THEN [a EXCEPT !.s = AdoptNew(@, k)]
            ELSE [a EXCEPT !.s = Adopt(@, k, s.issued), !.claimed = @ \cup {k[1]}]
        issued == [s EXCEPT !.issued = @ + 1]
    IN  IF fresh = <<>> THEN acc   \* two known identities this instant thinks are one
        ELSE [s |-> FoldLeft(adoptFresh, [s |-> issued, claimed |-> {}], fresh).s,
              matched |-> acc.matched \cup {s.issued}]

\* One track of the cluster that the target does not hold yet.
Challenge(a, k) ==
    LET s == a.s
        holders == MemberFromCamera(s, a.target, k[1], a.displaced)
        holder == holders[1]
        stale == At(s.seen, holder, s.step - 1) < s.step
        wins == Total(s.feature[k], a.overlap) > Total(s.feature[holder], a.overlap)
    IN  IF holders = <<>>
        THEN IF OwnerOf(s, k) = None THEN [a EXCEPT !.s = Adopt(s, k, a.target)]
             ELSE [a EXCEPT !.s = ResolveBetweenIdentities(s, k, a.target, a.overlap)]
        ELSE IF stale THEN [a EXCEPT !.s = Place(Forget(s, holder), k, a.target)]
        ELSE IF wins
        THEN [a EXCEPT !.s = Place(s, k, a.target), !.displaced = @ \cup {holder},
                       !.losers = Append(@, holder)]
        ELSE IF OwnerOf(s, k) = None THEN [a EXCEPT !.s = AdoptNew(s, k)]
        ELSE a

ContinueIdentity(acc, keys, candidates) ==
    LET target == SelectByOldest(acc.s, candidates)
        of == ToSet(MembersOf(acc.s, target))
        overlap == SelectSeq(keys, LAMBDA k : k \in of)
        start == [s |-> acc.s, target |-> target, displaced |-> {}, losers |-> <<>>,
                  overlap |-> [i \in DOMAIN overlap |-> acc.s.feature[overlap[i]]]]
        judged == FoldLeft(Challenge, start, SelectSeq(keys, LAMBDA k : k \notin of))
        moveOut(s, k) ==   \* the losers leave once the whole cluster is judged
            IF OwnerOf(s, k) = target
            THEN [Move(s, k, target, s.issued) EXCEPT !.issued = @ + 1] ELSE s
    IN  [s |-> FoldLeft(moveOut, judged.s, judged.losers),
         matched |-> acc.matched \cup {target}]

AssignGroup(acc, keys) ==
    LET candidates == CandidateIds(acc.s, ToSet(keys), acc.matched)
    IN  IF candidates = {} THEN FreshIdentity(acc, keys)
        ELSE ContinueIdentity(acc, keys, candidates)
-------------------------------------------------------------------------------
\* What an instant leaves behind: too old, too many tracks, too many
\* identities.
KeyBefore(a, b) == a[1] < b[1] \/ (a[1] = b[1] /\ a[2] < b[2])
LeastRecent(s) ==
    SetToSortSeq(DOMAIN s.seen, LAMBDA a, b :
        s.seen[a] < s.seen[b] \/ (s.seen[a] = s.seen[b] /\ KeyBefore(a, b)))
Recency(s, g) == Max({-1} \cup {At(s.seen, m, -1) : m \in ToSet(MembersOf(s, g))})
LeastUsed(s) ==
    SetToSortSeq(DOMAIN s.members, LAMBDA g, h :
        Recency(s, g) < Recency(s, h) \/ (Recency(s, g) = Recency(s, h) /\ g > h))
Firstly(q, n) == SubSeq(q, 1, IF n > Len(q) THEN Len(q) ELSE n)
Aged(s, o) == ForgetAll(s, SetToSeq({k \in DOMAIN s.seen : s.seen[k] < s.step - o.maxAge}))
Trimmed(s, o) ==
    LET excess == Cardinality(DOMAIN s.owner) - o.maxTracks
    IN  IF excess <= 0 THEN s ELSE ForgetAll(s, Firstly(LeastRecent(s), excess))
Capped(s, o) ==
    LET excess == Cardinality(DOMAIN s.members) - o.capacity
        evicted == Firstly(LeastUsed(s), excess)
    IN  IF excess <= 0 THEN s
        ELSE ForgetAll(s, FlattenSeq([i \in DOMAIN evicted |-> MembersOf(s, evicted[i])]))

Evict(s, o) == Capped(Trimmed(Aged(s, o), o), o)
Fallback(s, r) == IF OwnerOf(s, r.key) = None THEN AdoptNew(s, r.key) ELSE s
-------------------------------------------------------------------------------
\* GlobalIdAssigner::assign, and ShipvisionCluster::ids around it One identity
\* space is fed by one embedder, the first one it ever saw.
WidthsOf(rows) == {r.look = "wide" : r \in ToSet(rows)}
Usable(rows) == /\ \A r \in ToSet(rows) : r.look # "zero"
                /\ Cardinality(space.widths \cup WidthsOf(rows)) <= 1
Labellings(rows) ==
    {f \in [DOMAIN rows -> DOMAIN rows] :
        \A i \in DOMAIN rows : f[i] \in {i} \cup {f[j] : j \in 1..(i - 1)}}
\* Below two rows there is nothing to cluster.
Clusterings(rows) == IF Len(rows) < 2 THEN {[i \in DOMAIN rows |-> 1]} ELSE Labellings(rows)

Assigned(s, rows, labels) ==
    LET observed == Observe([s EXCEPT !.step = @ + 1, !.widths = @ \cup WidthsOf(rows)], rows)
        start == [s |-> observed, matched |-> {}]
    IN  FoldLeft(AssignGroup, start, OrderedGroups(rows, labels)).s

\* MtmcStage, for one camera's frame: what it hands in, and the instant it is
\* part of. Of a frame only the rows with a track and an embedding can
\* contribute.
Mine(frame) == SelectSeq(frame.rows, LAMBDA r : r.look # "none")
NotMine(frame, o) == o.routes /\ frame.camera \notin Groups
Submitted(frames, o) == SelectSeq(frames, LAMBDA f : ~NotMine(f, o))
Entries(frames, o) == {f.camera : f \in ToSet(Submitted(frames, o))}
Instant(frames, o) ==
    LET mine == Submitted(frames, o)
    IN  FlattenSeq([i \in DOMAIN mine |-> Mine(mine[i])])
\* The group's answer is one map: each frame reads its own rows out of it by
\* key.
Scatter(rows, ids) == [k \in KeysOf(rows) \cap DOMAIN ids |-> ids[k]]

Init == /\ options = Unmade
        /\ streak = <<>> /\ absent = <<>>
        /\ space = EmptySpace
        /\ published = <<>> /\ grouped = <<>> /\ fellBack = FALSE /\ past = <<>>

\* A second caller gets the slot's tracker when it asks for the same options;
\* asking for others is refused, and a factory that fails leaves nothing
\* behind.
CreateClusterTracker(o, fails) ==
    /\ options' = IF options = Unmade /\ ~fails THEN o ELSE options
    /\ UNCHANGED <<streak, absent, space, published, grouped, fellBack, past>>

Remembered(frames) == Append(past, IF options.minHits > 1 THEN frames ELSE <<>>)
\* An instant that is refused: two rows for one track before anything moves, or
\* an unusable embedding once the gate has counted.  Every frame of it is
\* published without ids.
Refused(frames) ==
    LET o == options
        rows == Instant(frames, o)
        streaks == Streaks(rows, Entries(frames, o), o)
        admitted == Admitted(rows, streaks, o)
    IN  /\ \/ TwiceInOneInstant(rows) /\ UNCHANGED <<streak, absent>>
           \/ /\ ~TwiceInOneInstant(rows) /\ ~Usable(admitted)
              /\ streak' = streaks
              /\ absent' = Absences(rows, Entries(frames, o), o)
        /\ published' = <<>> /\ grouped' = <<>>
        /\ past' = IF TwiceInOneInstant(rows) THEN past ELSE Remembered(frames)
        /\ UNCHANGED <<options, space, fellBack>>

Answered(frames) ==
    LET o == options
        rows == Instant(frames, o)
        streaks == Streaks(rows, Entries(frames, o), o)
        admitted == Admitted(rows, streaks, o)
    IN  /\ ~TwiceInOneInstant(rows) /\ Usable(admitted)
        /\ streak' = streaks
        /\ absent' = Absences(rows, Entries(frames, o), o)
        /\ \E labels \in Clusterings(admitted) :
            LET out == Assigned(space, admitted, labels)
                whole == FoldLeft(Fallback, out, admitted)
            IN  /\ space' = Evict(whole, o)
                /\ published' = Scatter(rows, Restrict(whole.owner, KeysOf(admitted)))
                /\ grouped' = OrderedGroups(admitted, labels)
                /\ fellBack' = (fellBack \/ whole # out)
        /\ past' = Remembered(frames)
        /\ UNCHANGED options

Next == \/ \E o \in Options, fails \in BOOLEAN : CreateClusterTracker(o, fails)
        \/ /\ options # Unmade
           /\ Len(past) < MaxInstants[options]
           /\ \E frames \in Scenes[options] : Refused(frames) \/ Answered(frames)
Spec == Init /\ [][Next]_vars
-------------------------------------------------------------------------------
(* Properties                                                              *)

\* identity.h's invariant, which validate() checks only when it is asked to: an
\* identity has members, one from each camera, each listed once and each owned
\* by it; whatever is owned is listed; and the other three maps hold exactly
\* the tracks that have an id.
MapsAgree ==
    /\ \A g \in DOMAIN space.members :
        LET of == space.members[g]
        IN  /\ of # <<>>
            /\ \A i, j \in DOMAIN of : i # j => of[i][1] # of[j][1]
            /\ \A i \in DOMAIN of : OwnerOf(space, of[i]) = g
    /\ \A k \in DOMAIN space.owner : k \in ToSet(MembersOf(space, space.owner[k]))
    /\ DOMAIN space.owner = DOMAIN space.seen
    /\ DOMAIN space.owner = DOMAIN space.feature
    /\ DOMAIN space.owner = DOMAIN space.hits

\* A camera cannot see one object twice: no two records of one camera's frame
\* carry the same id, and every row the gate admits leaves the groups with one
\* - the fallback at the end of assign() is never needed.
OneViewPerCamera ==
    /\ ~fellBack
    /\ \A k, m \in DOMAIN published : k # m /\ k[1] = m[1] => published[k] # published[m]

\* Of every step: an identity that is gone stays gone.  An id that has been
\* issued and is nobody's is out in the world, and no later instant attaches a
\* stranger to it.
IdsAreNotReused ==
    \A g \in DOMAIN space'.members : g >= space.issued \/ g \in DOMAIN space.members

\* Of every step: a track that is seen again and was not forgotten keeps its
\* id, unless this instant put it in a group with another track or gave its id
\* to another of its camera.
MovedOnlyOnEvidence ==
    \A k \in DOMAIN published' \cap DOMAIN space.owner :
        \/ published'[k] = space.owner[k]
        \/ \E i \in DOMAIN grouped' : Len(grouped'[i]) > 1 /\ k \in ToSet(grouped'[i])
        \/ \E m \in DOMAIN published' :
              m # k /\ m[1] = k[1] /\ published'[m] = space.owner[k]

\* The space holds the tracks of the last max_age instants and never more than
\* its two bounds, whether or not anything is still being seen.
SpaceIsBounded ==
    options # Unmade =>
        /\ Cardinality(DOMAIN space.owner) <= options.maxTracks
        /\ Cardinality(DOMAIN space.members) <= options.capacity
        /\ \A k \in DOMAIN space.seen : space.seen[k] >= space.step - options.maxAge

\* The gate trusts a track once it qualified in each of the last minHits
\* instants that held its camera, with no gap between two of them longer than
\* maxAbsent.
HeldCamera(k) == {i \in DOMAIN past : k[1] \in Entries(past[i], options)}
QualifiedIn(k, i) ==
    \E r \in ToSet(Instant(past[i], options)) : r.key = k /\ r.tall
TrustedAfterARun ==
    \A k \in DOMAIN published :
        options.minHits > 1 =>
            \E run \in SUBSET HeldCamera(k) :
                /\ Cardinality(run) = options.minHits
                /\ Len(past) \in run
                /\ \A i \in run : QualifiedIn(k, i)
                /\ \A i \in HeldCamera(k) \ run : \A j \in run : i < j
                /\ \A i \in run : i = Min(run)
                                  \/ \E j \in run : j < i /\ i - j <= options.maxAbsent + 1
=============================================================================
