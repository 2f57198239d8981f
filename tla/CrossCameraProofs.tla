-------------------------- MODULE CrossCameraProofs --------------------------
(***************************************************************************)
(* The instant barrier for any groups, cameras, workers and windows: an    *)
(* instant is one moment and ends once, the oldest goes first, and nobody  *)
(* sleeps through what it waits for.                                       *)
(***************************************************************************)
EXTENDS MCCrossCamera, FiniteSetTheorems, WellFoundedInduction, TLAPS

-----------------------------------------------------------------------------
(* What the operators on a group's state do.                               *)

Entries == [cam : Cameras, time : Times]
Seals == {"complete", "advanced"}
Buckets == [entries : Seq(Entries), ready : BOOLEAN, sealed : Seals, expired : BOOLEAN]
Whys == Seals \cup {"window", "failed", "expired", "evicted", "shutdown"}
Ends == [id : Nat, why : Whys, ran : BOOLEAN, entries : Seq(Entries)]

\* A group's state is a record of these fields, and its map one of buckets.
Shaped(b) ==
    /\ b \in [open : {b.open}, next : {b.next}, recent : {b.recent}, ended : {b.ended},
              announced : {b.announced}, seen : {b.seen}, hooked : {b.hooked}, live : {b.live},
              max : {b.max}, keep : {b.keep}, closed : {b.closed}, newest : {b.newest},
              backward : {b.backward}]
    /\ b.open = [id \in DOMAIN b.open |-> b.open[id]]

\* Only the map, the spans and what has ended differ.
SameRest(a, b) ==
    /\ a.next = b.next /\ a.announced = b.announced /\ a.seen = b.seen
    /\ a.hooked = b.hooked /\ a.live = b.live /\ a.max = b.max /\ a.keep = b.keep
    /\ a.closed = b.closed /\ a.newest = b.newest /\ a.backward = b.backward

Ended(b, I, why, ran) ==
    {[id |-> id, why |-> why[id], ran |-> ran, entries |-> b.open[id].entries] : id \in I}

LEMMA EndIs ==
    ASSUME NEW b, Shaped(b), NEW I, NEW why, NEW ran
    PROVE  LET e == End(b, I, why, ran) IN
           /\ Shaped(e) /\ SameRest(e, b)
           /\ e.open = [id \in DOMAIN b.open \ I |-> b.open[id]]
           /\ e.ended = b.ended \cup Ended(b, I, why, ran)
<1> DEFINE order == AsOpened(I)
<1> DEFINE spans == b.recent \o [n \in DOMAIN order |-> [first |-> First(b.open[order[n]]),
                                                       last |-> Last(b.open[order[n]])]]
<1> DEFINE o == [id \in DOMAIN b.open \ I |-> b.open[id]]
<1> DEFINE r == SubSeq(spans, Max(1, Len(spans) - b.keep + 1), Len(spans))
<1> DEFINE d == b.ended \cup Ended(b, I, why, ran)
<1>1. End(b, I, why, ran) = [b EXCEPT !.open = o, !.recent = r, !.ended = d]
  BY DEF End, Ended
<1> DEFINE e == [b EXCEPT !.open = o, !.recent = r, !.ended = d]
<1>2. o = [id \in DOMAIN o |-> o[id]]
  OBVIOUS
<1> HIDE DEF o, r, d, spans, order
<1>3. Shaped(e) /\ SameRest(e, b) /\ e.open = o /\ e.ended = d
  BY <1>2 DEF Shaped, SameRest
<1> QED BY <1>1, <1>3 DEF o, d

LEMMA RefreshIs ==
    ASSUME NEW b, Shaped(b)
    PROVE  LET r == Refresh(b) IN
           /\ Shaped(r)
           /\ r.open = b.open /\ r.next = b.next /\ r.ended = b.ended
           /\ r.announced = b.announced /\ r.seen = b.seen /\ r.hooked = b.hooked
           /\ r.closed = b.closed /\ r.newest = b.newest /\ r.backward = b.backward
           /\ r.live = IF b.hooked THEN b.announced ELSE b.seen
BY DEF Refresh, Shaped

LEMMA SealIs ==
    ASSUME NEW b, Shaped(b), NEW n \in DOMAIN b.open, NEW why,
           b.open[n] \in Buckets
    PROVE  LET s == Seal(b, n, why) IN
           /\ Shaped(s) /\ SameRest(s, b) /\ s.ended = b.ended
           /\ DOMAIN s.open = DOMAIN b.open
           /\ \A id \in DOMAIN b.open \ {n} : s.open[id] = b.open[id]
           /\ s.open[n] = [entries |-> b.open[n].entries, ready |-> TRUE, sealed |-> why,
                           expired |-> b.open[n].expired]
BY DEF Seal, Shaped, SameRest, Buckets

-----------------------------------------------------------------------------
(* One group's state: what every method of its barrier keeps.              *)

OneMoment(k) ==
    /\ k.entries # <<>>
    /\ \A m, n \in DOMAIN k.entries : m # n => k.entries[m].cam # k.entries[n].cam
    /\ \A x, y \in Captures(k) : x - y < Window

GroupTypes(b) ==
    /\ \A id \in DOMAIN b.open : b.open[id] \in Buckets
    /\ b.ended \subseteq Ends /\ b.next \in Nat
    /\ b.announced \subseteq Cameras /\ b.seen \subseteq Cameras /\ b.hooked \in BOOLEAN
    /\ b.live = IF b.hooked THEN b.announced ELSE b.seen
    /\ b.max \in Nat \ {0}
    /\ b.newest \in [Cameras -> Times \cup {Never}] /\ b.backward \in [Cameras -> Nat]

IdsOf(b) == {k.id : k \in b.ended}
Accounted(b) ==
    /\ DOMAIN b.open \cup IdsOf(b) = 1 .. b.next
    /\ DOMAIN b.open \cap IdsOf(b) = {}
    /\ \A j, k \in b.ended : j.id = k.id => j = k

Moments(b) ==
    /\ \A id \in DOMAIN b.open : OneMoment(b.open[id])
    /\ \A k \in b.ended : OneMoment(k)

Bounded(b) ==
    /\ Cardinality(DOMAIN b.open) <= b.max
    /\ MaxInstants > 0 => b.max = MaxInstants

OldestFirst(b) ==
    \A k \in b.ended : k.why = "evicted" => \A id \in DOMAIN b.open : id > k.id

Sound(b) ==
    Shaped(b) /\ GroupTypes(b) /\ Accounted(b) /\ Moments(b) /\ Bounded(b) /\ OldestFirst(b)

LEMMA OpenIsFinite ==
    ASSUME NEW b, GroupTypes(b), Accounted(b)
    PROVE  /\ IsFiniteSet(DOMAIN b.open) /\ Cardinality(DOMAIN b.open) \in Nat
           /\ DOMAIN b.open \subseteq Nat \ {0}
<1>1. IsFiniteSet(1 .. b.next)
  <2>1. 1 \in Int /\ b.next \in Int  BY DEF GroupTypes
  <2> QED BY <2>1, FS_Interval
<1>2. DOMAIN b.open \subseteq 1 .. b.next  BY DEF Accounted
<1> QED BY <1>1, <1>2, FS_Subset, FS_CardinalityType DEF GroupTypes

\* Instants that are in the map end, each once; an eviction takes the oldest.
LEMMA EndIsSound ==
    ASSUME NEW b, Sound(b), NEW I \in SUBSET DOMAIN b.open, NEW ran \in BOOLEAN,
           NEW why \in [I -> Whys],
           \A id \in I : why[id] = "evicted" => \A m \in DOMAIN b.open \ I : m > id
    PROVE  Sound(End(b, I, why, ran))
<1> DEFINE e == End(b, I, why, ran)
<1>1. /\ Shaped(e) /\ SameRest(e, b)
      /\ e.open = [id \in DOMAIN b.open \ I |-> b.open[id]]
      /\ e.ended = b.ended \cup Ended(b, I, why, ran)
  BY EndIs DEF Sound
<1> HIDE DEF e
<1>2. DOMAIN e.open = DOMAIN b.open \ I /\ \A id \in DOMAIN e.open : e.open[id] = b.open[id]
  BY <1>1
<1>3. DOMAIN b.open \subseteq Nat
  BY OpenIsFinite DEF Sound
<1>4. \A id \in I : b.open[id].entries \in Seq(Entries)
  BY DEF Sound, GroupTypes, Buckets
<1>5. GroupTypes(e)
  <2>1. Ended(b, I, why, ran) \subseteq Ends
    BY <1>3, <1>4 DEF Ended, Ends
  <2> QED BY <1>1, <1>2, <2>1 DEF Sound, GroupTypes, SameRest
<1>6. IdsOf(e) = IdsOf(b) \cup I
  <2>1. \A k \in Ended(b, I, why, ran) : k.id \in I
    BY DEF Ended
  <2>2. ASSUME NEW id \in I PROVE \E k \in Ended(b, I, why, ran) : k.id = id
    <3> DEFINE k == [id |-> id, why |-> why[id], ran |-> ran, entries |-> b.open[id].entries]
    <3>1. k \in Ended(b, I, why, ran)  BY DEF Ended
    <3>2. k.id = id  OBVIOUS
    <3> QED BY <3>1, <3>2
  <2> QED BY <1>1, <2>1, <2>2 DEF IdsOf
<1>7. Accounted(e)
  <2>1. DOMAIN e.open \cup IdsOf(e) = 1 .. e.next
    BY <1>1, <1>2, <1>6 DEF Sound, Accounted, SameRest
  <2>2. DOMAIN e.open \cap IdsOf(e) = {}
    BY <1>2, <1>6 DEF Sound, Accounted
  <2>3. ASSUME NEW j \in e.ended, NEW k \in e.ended, j.id = k.id PROVE j = k
    BY <2>3, <1>1 DEF Sound, Accounted, Ended, IdsOf
  <2> QED BY <2>1, <2>2, <2>3 DEF Accounted
<1>8. Moments(e)
  <2>1. \A id \in DOMAIN e.open : OneMoment(e.open[id])
    BY <1>2 DEF Sound, Moments
  <2>2. ASSUME NEW k \in Ended(b, I, why, ran) PROVE OneMoment(k)
    <3>1. PICK id \in I : k.entries = b.open[id].entries
      BY DEF Ended
    <3>2. OneMoment(b.open[id])
      BY DEF Sound, Moments
    <3> QED BY <3>1, <3>2 DEF OneMoment, Captures
  <2> QED BY <1>1, <2>1, <2>2 DEF Sound, Moments
<1>9. Bounded(e)
  <2>1. DOMAIN e.open \subseteq DOMAIN b.open /\ e.max = b.max
    BY <1>1, <1>2 DEF SameRest
  <2>2. Cardinality(DOMAIN e.open) <= Cardinality(DOMAIN b.open)
    BY <2>1, OpenIsFinite, FS_Subset DEF Sound
  <2>3. Cardinality(DOMAIN b.open) \in Nat /\ Cardinality(DOMAIN e.open) \in Nat
    BY <1>5, <1>7, OpenIsFinite DEF Sound
  <2> QED BY <1>1, <2>1, <2>2, <2>3 DEF Sound, Bounded, GroupTypes
<1>10. OldestFirst(e)
  BY <1>1, <1>2 DEF Sound, OldestFirst, Ended
<1> QED BY <1>1, <1>5, <1>7, <1>8, <1>9, <1>10 DEF Sound, e

-----------------------------------------------------------------------------
(* Least and greatest: what Match, First, Last and Overflow choose.        *)

LEMMA LeastOf ==
    ASSUME NEW S \in SUBSET Nat, S # {}
    PROVE  \E x \in S : \A y \in S : x <= y
<1> DEFINE R == OpToRel(<, Nat)
<1>1. \A i, j \in Nat : i < j => <<i, j>> \in R  BY DEF OpToRel
<1>2. IsWellFoundedOn(R, Nat)  BY NatLessThanWellFounded
<1> HIDE DEF R
<1>3. PICK x \in S : \A y \in S : ~(<<y, x>> \in R)  BY <1>2, WFMin
<1>4. \A y \in S : x <= y
  <2> TAKE y \in S
  <2>1. x \in Nat /\ y \in Nat /\ ~(y < x)  BY <1>1, <1>3
  <2> QED BY <2>1
<1> QED BY <1>4

LEMMA GreatestOf ==
    ASSUME NEW S \in SUBSET Int, NEW top \in Int, S # {}, \A x \in S : x <= top
    PROVE  \E x \in S : \A y \in S : x >= y
<1> DEFINE T == {top - x : x \in S}
<1>1. T \subseteq Nat /\ T # {}
  <2>1. \A x \in S : top - x \in Nat  OBVIOUS
  <2>2. PICK x \in S : TRUE  OBVIOUS
  <2> QED BY <2>1, <2>2
<1>2. PICK z \in T : \A y \in T : z <= y  BY <1>1, LeastOf
<1>3. PICK x \in S : z = top - x  BY <1>2
<1>4. \A y \in S : x >= y
  <2> TAKE y \in S
  <2>1. top - y \in T  OBVIOUS
  <2>2. top - x <= top - y  BY <1>2, <1>3, <2>1
  <2> QED BY <2>2
<1> QED BY <1>4

LEMMA LowestOf ==
    ASSUME NEW S \in SUBSET Int, NEW floor \in Int, S # {}, \A x \in S : x >= floor
    PROVE  \E x \in S : \A y \in S : x <= y
<1> DEFINE T == {x - floor : x \in S}
<1>1. T \subseteq Nat /\ T # {}
  <2>1. \A x \in S : x - floor \in Nat  OBVIOUS
  <2>2. PICK x \in S : TRUE  OBVIOUS
  <2> QED BY <2>1, <2>2
<1>2. PICK z \in T : \A y \in T : z <= y  BY <1>1, LeastOf
<1>3. PICK x \in S : z = x - floor  BY <1>2
<1>4. \A y \in S : x <= y
  <2> TAKE y \in S
  <2>1. y - floor \in T  OBVIOUS
  <2>2. x - floor <= y - floor  BY <1>2, <1>3, <2>1
  <2> QED BY <2>2
<1> QED BY <1>4

LEMMA CapturesAreTimes ==
    ASSUME NEW k, k.entries \in Seq(Entries)
    PROVE  /\ Captures(k) \subseteq Int
           /\ \A n \in DOMAIN k.entries : k.entries[n].cam \in Cameras
<1>1. \A n \in DOMAIN k.entries : k.entries[n] \in Entries
  OBVIOUS
<1>2. \A x \in Entries : x.time \in Times /\ x.cam \in Cameras
  BY DEF Entries
<1>3. Times \subseteq Int
  BY BarrierAssumption
<1> QED BY <1>1, <1>2, <1>3 DEF Captures

LEMMA SpanIs ==
    ASSUME NEW k, k.entries \in Seq(Entries), OneMoment(k)
    PROVE  /\ First(k) \in Captures(k) /\ \A y \in Captures(k) : First(k) <= y
           /\ Last(k) \in Captures(k) /\ \A y \in Captures(k) : Last(k) >= y
<1> DEFINE S == Captures(k)
<1>1. S \in SUBSET Int  BY CapturesAreTimes
<1>2. k.entries[1].time \in S
  BY DEF Captures, OneMoment
<1>3. PICK z \in S : TRUE  BY <1>2
<1>4. z \in Int /\ Window \in Int  BY <1>1, BarrierAssumption
<1>5. \A y \in S : y <= z + Window /\ y >= z - Window
  BY <1>1, <1>4 DEF OneMoment
<1>6. \E x \in S : \A y \in S : x <= y
  <2>1. z - Window \in Int  BY <1>4
  <2> HIDE DEF S
  <2> QED BY <1>1, <1>3, <1>5, <2>1, LowestOf
<1>7. \E x \in S : \A y \in S : x >= y
  <2>1. z + Window \in Int  BY <1>4
  <2> HIDE DEF S
  <2> QED BY <1>1, <1>3, <1>5, <2>1, GreatestOf
<1> QED BY <1>6, <1>7 DEF First, Last

\* A capture whose spread stays under the window is within it of every other.
LEMMA SpreadCovers ==
    ASSUME NEW k, k.entries \in Seq(Entries), OneMoment(k), NEW t \in Times,
           SpreadWith(k, t) < Window
    PROVE  \A y \in Captures(k) : t - y < Window /\ y - t < Window
<1>1. Captures(k) \subseteq Int /\ t \in Int /\ Window \in Int
  BY CapturesAreTimes, BarrierAssumption
<1>2. /\ First(k) \in Int /\ Last(k) \in Int
      /\ \A y \in Captures(k) : First(k) <= y /\ y <= Last(k)
  BY <1>1, SpanIs
<1> QED BY <1>1, <1>2 DEF SpreadWith, Max

\* What Match answers is an open instant of the window, or none.
LEMMA MatchIs ==
    ASSUME NEW b, Sound(b), NEW t, Match(b, t) # 0
    PROVE  /\ Match(b, t) \in DOMAIN b.open /\ ~b.open[Match(b, t)].ready
           /\ SpreadWith(b.open[Match(b, t)], t) < Window
<1> DEFINE S == {id \in DOMAIN b.open : ~b.open[id].ready /\ SpreadWith(b.open[id], t) < Window}
<1>1. S \in SUBSET Int /\ b.next \in Int /\ \A x \in S : x <= b.next
  BY DEF Sound, Accounted, GroupTypes
<1>2. S # {}
  BY DEF Match, Newest
<1> HIDE DEF S
<1>3. \E x \in S : \A y \in S : x >= y
  BY <1>1, <1>2, GreatestOf
<1>4. Newest(S) \in S
  <2>1. \E x \in S : \A y \in S : y <= x  BY <1>1, <1>3
  <2> QED BY <1>2, <2>1 DEF Newest
<1> QED BY <1>4 DEF Match, S

\* Those that are one too many are the oldest, and the rest leaves room for one.
LEMMA OverflowIs ==
    ASSUME NEW b, Sound(b)
    PROVE  /\ Overflow(b) \subseteq DOMAIN b.open
           /\ \A id \in Overflow(b), m \in DOMAIN b.open \ Overflow(b) : m > id
           /\ Cardinality(DOMAIN b.open \ Overflow(b)) < b.max
<1> DEFINE D == DOMAIN b.open
           Older(id) == {m \in D : m <= id}
           O == Overflow(b)
<1>1. IsFiniteSet(D) /\ Cardinality(D) \in Nat /\ D \subseteq Nat
  BY OpenIsFinite DEF Sound
<1>2. b.max \in Nat \ {0} /\ Cardinality(D) <= b.max
  BY DEF Sound, GroupTypes, Bounded
<1>3. O = {id \in D : Cardinality(Older(id)) <= Cardinality(D) - b.max + 1}
  BY DEF Overflow
<1>4. \A id \in D : IsFiniteSet(Older(id)) /\ Cardinality(Older(id)) \in Nat
  <2> TAKE id \in D
  <2>1. Older(id) \in SUBSET D  OBVIOUS
  <2> QED BY <1>1, <2>1, FS_Subset, FS_CardinalityType
<1> HIDE DEF D, O
<1>5. ASSUME NEW id \in O, NEW m \in D \ O PROVE m > id
  <2>1. SUFFICES ASSUME m <= id PROVE FALSE
    BY <1>1, <1>3
  <2>2. id \in D /\ Older(m) \subseteq Older(id)
    <3>1. id \in D /\ m \in D /\ id \in Nat /\ m \in Nat  BY <1>1, <1>3
    <3>2. \A k \in D : k \in Nat /\ (k <= m => k <= id)  BY <1>1, <2>1, <3>1
    <3> QED BY <3>1, <3>2
  <2>3. Cardinality(Older(m)) <= Cardinality(Older(id))
    BY <1>4, <2>2, FS_Subset
  <2>4. Cardinality(Older(m)) \in Nat /\ Cardinality(Older(id)) \in Nat
    BY <1>4, <2>2
  <2> HIDE DEF Older
  <2> QED BY <1>1, <1>2, <1>3, <2>2, <2>3, <2>4
<1>6. Cardinality(D \ O) < b.max
  <2>1. Cardinality(D \ O) <= Cardinality(D) /\ Cardinality(D \ O) \in Nat
    <3>1. D \ O \in SUBSET D  OBVIOUS
    <3> QED BY <1>1, <3>1, FS_Subset, FS_CardinalityType
  <2>2. CASE Cardinality(D) < b.max
    BY <1>1, <1>2, <2>1, <2>2
  <2>3. CASE Cardinality(D) = b.max
    <3>1. D # {}
      BY <1>2, <2>3, FS_EmptySet
    <3>2. PICK n \in D : \A y \in D : n <= y
      BY <1>1, <3>1, LeastOf
    <3>3. Older(n) = {n}
      <4>1. n \in Nat /\ \A k \in D : k \in Nat /\ n <= k  BY <1>1, <3>2
      <4>2. \A k \in D : k <= n => k = n  BY <4>1
      <4>3. n <= n  BY <4>1
      <4> QED BY <3>2, <4>2, <4>3
    <3>4. Cardinality({n}) = 1
      BY FS_Singleton
    <3>5. n \in O
      BY <1>1, <1>2, <1>3, <2>3, <3>3, <3>4
    <3>6. D \ O \in SUBSET (D \ {n})
      BY <3>5
    <3>7. IsFiniteSet(D \ {n}) /\ Cardinality(D \ {n}) = Cardinality(D) - 1
      BY <1>1, FS_RemoveElement
    <3>8. Cardinality(D \ O) <= Cardinality(D \ {n})
      BY <3>6, <3>7, FS_Subset
    <3> QED BY <1>1, <1>2, <2>1, <2>3, <3>7, <3>8
  <2> QED BY <1>1, <1>2, <2>2, <2>3
<1> QED BY <1>3, <1>5, <1>6 DEF D, O

-----------------------------------------------------------------------------
(* The parts of submit().                                                  *)

LEMMA SealIsSound ==
    ASSUME NEW b, Sound(b), NEW n \in DOMAIN b.open, NEW why \in Seals
    PROVE  Sound(Seal(b, n, why))
<1> DEFINE s == Seal(b, n, why)
<1>1. /\ Shaped(s) /\ SameRest(s, b) /\ s.ended = b.ended /\ DOMAIN s.open = DOMAIN b.open
      /\ \A id \in DOMAIN b.open \ {n} : s.open[id] = b.open[id]
      /\ s.open[n] = [entries |-> b.open[n].entries, ready |-> TRUE, sealed |-> why,
                      expired |-> b.open[n].expired]
  BY SealIs DEF Sound, GroupTypes
<1> HIDE DEF s
<1>2. b.open[n] \in Buckets /\ OneMoment(b.open[n])
  BY DEF Sound, GroupTypes, Moments
<1>3. s.open[n] \in Buckets /\ OneMoment(s.open[n])
  BY <1>1, <1>2 DEF Buckets, OneMoment, Captures
<1>4. \A id \in DOMAIN s.open : s.open[id] \in Buckets /\ OneMoment(s.open[id])
  BY <1>1, <1>3 DEF Sound, GroupTypes, Moments
<1>5. GroupTypes(s) /\ Moments(s)
  BY <1>1, <1>4 DEF Sound, GroupTypes, Moments, SameRest
<1>6. Accounted(s) /\ Bounded(s) /\ OldestFirst(s)
  BY <1>1 DEF Sound, Accounted, Bounded, OldestFirst, IdsOf, SameRest
<1> QED BY <1>1, <1>5, <1>6 DEF Sound, s

\* What a group's state is before the live set and the bound are refreshed.
Stirred(b) ==
    /\ Shaped(b) /\ Accounted(b) /\ Moments(b) /\ OldestFirst(b)
    /\ \A id \in DOMAIN b.open : b.open[id] \in Buckets
    /\ b.ended \subseteq Ends /\ b.next \in Nat
    /\ b.announced \subseteq Cameras /\ b.seen \subseteq Cameras /\ b.hooked \in BOOLEAN
    /\ b.newest \in [Cameras -> Times \cup {Never}] /\ b.backward \in [Cameras -> Nat]
    /\ MaxInstants > 0 => Cardinality(DOMAIN b.open) <= MaxInstants

\* The bound never falls below what is open.
LEMMA RefreshIsSound ==
    ASSUME NEW b, Stirred(b)
    PROVE  Sound(Refresh(b))
<1> DEFINE r == Refresh(b)
           n == Cardinality(DOMAIN b.open)
           fleet == Max(DefaultInstants, Cardinality(b.announced \cup b.seen))
           bound == IF MaxInstants > 0 THEN MaxInstants ELSE Max(fleet, n + 1)
<1>1. /\ Shaped(r) /\ r.open = b.open /\ r.next = b.next /\ r.ended = b.ended
      /\ r.announced = b.announced /\ r.seen = b.seen /\ r.hooked = b.hooked
      /\ r.newest = b.newest /\ r.backward = b.backward
      /\ r.live = IF b.hooked THEN b.announced ELSE b.seen
  BY RefreshIs DEF Stirred
<1>2. r.max = bound
  BY DEF Refresh, Stirred, Shaped
<1>3. n \in Nat
  <2>1. DOMAIN b.open \in SUBSET (1 .. b.next)  BY DEF Stirred, Accounted
  <2>2. IsFiniteSet(1 .. b.next)
    <3>1. 1 \in Int /\ b.next \in Int  BY DEF Stirred
    <3> QED BY <3>1, FS_Interval
  <2> QED BY <2>1, <2>2, FS_Subset, FS_CardinalityType
<1>4. fleet \in Nat /\ MaxInstants \in Nat
  <2>1. IsFiniteSet(b.announced \cup b.seen)
    <3>1. b.announced \cup b.seen \in SUBSET Cameras  BY DEF Stirred
    <3> QED BY <3>1, BarrierAssumption, FS_Subset
  <2> QED BY <2>1, FS_CardinalityType, BarrierAssumption DEF Max
<1> HIDE DEF fleet, n
<1>5. bound \in Nat \ {0} /\ (MaxInstants = 0 => n <= bound)
  BY <1>3, <1>4 DEF Max
<1>6. Bounded(r)
  BY <1>1, <1>2, <1>4, <1>5 DEF Bounded, Stirred, n
<1> HIDE DEF r, bound
<1>7. GroupTypes(r)
  BY <1>1, <1>2, <1>5 DEF GroupTypes, Stirred
<1>8. Accounted(r) /\ Moments(r) /\ OldestFirst(r)
  BY <1>1 DEF Stirred, Accounted, IdsOf, Moments, OldestFirst
<1> QED BY <1>1, <1>6, <1>7, <1>8 DEF Sound, r

\* Any change of the roster, the cameras seen and their clocks, then refreshed.
LEMMA RosterIsSound ==
    ASSUME NEW a, Sound(a), NEW b, Shaped(b),
           b.open = a.open, b.next = a.next, b.ended = a.ended,
           b.announced \subseteq Cameras, b.seen \subseteq Cameras, b.hooked \in BOOLEAN,
           b.newest \in [Cameras -> Times \cup {Never}], b.backward \in [Cameras -> Nat]
    PROVE  Sound(Refresh(b))
<1>1. Accounted(b) /\ Moments(b) /\ OldestFirst(b)
  BY DEF Sound, Accounted, IdsOf, Moments, OldestFirst
<1>2. Stirred(b)
  BY <1>1 DEF Stirred, Sound, GroupTypes, Bounded
<1> QED BY <1>2, RefreshIsSound

LEMMA SeeIs ==
    ASSUME NEW b, Sound(b), NEW c \in Cameras
    PROVE  LET s == See(b, c) IN
           /\ Sound(s) /\ s.open = b.open /\ s.next = b.next /\ s.closed = b.closed
           /\ s.hooked = b.hooked /\ s.newest = b.newest /\ s.backward = b.backward
           /\ s.ended = b.ended /\ s.announced = b.announced
<1> DEFINE m == [b EXCEPT !.seen = @ \cup {c}]
<1>1. /\ Shaped(m) /\ m.open = b.open /\ m.next = b.next /\ m.ended = b.ended
      /\ m.announced = b.announced /\ m.hooked = b.hooked /\ m.seen = b.seen \cup {c}
      /\ m.newest = b.newest /\ m.backward = b.backward /\ m.closed = b.closed
  BY DEF Sound, Shaped
<1> HIDE DEF m
<1>2. Sound(Refresh(m))
  BY <1>1, RosterIsSound DEF Sound, GroupTypes
<1> QED BY <1>1, <1>2, RefreshIs DEF See, m

LEMMA AdoptIs ==
    ASSUME NEW b, Sound(b), NEW c \in Cameras, NEW t \in Times
    PROVE  LET a == Adopt(b, c, t) IN
           /\ Sound(a) /\ a.open = b.open /\ a.next = b.next /\ a.closed = b.closed
           /\ a.hooked = b.hooked /\ a.live = b.live /\ a.max = b.max /\ a.ended = b.ended
           /\ \A d \in Cameras \ {c} : a.newest[d] = b.newest[d] /\ a.backward[d] = b.backward[d]
<1> DEFINE m == [b EXCEPT !.newest[c] = t, !.backward[c] = 0]
<1>1. /\ Shaped(m) /\ m.open = b.open /\ m.next = b.next /\ m.ended = b.ended
      /\ m.announced = b.announced /\ m.hooked = b.hooked /\ m.seen = b.seen
      /\ m.live = b.live /\ m.max = b.max /\ m.closed = b.closed
      /\ m.newest = [b.newest EXCEPT ![c] = t] /\ m.backward = [b.backward EXCEPT ![c] = 0]
  BY DEF Sound, Shaped
<1> HIDE DEF m
<1>2. Sound(m)
  <2>1. GroupTypes(m)  BY <1>1 DEF Sound, GroupTypes
  <2> QED BY <1>1, <2>1 DEF Sound, Accounted, IdsOf, Moments, Bounded, OldestFirst
<1>3. \A d \in Cameras \ {c} : m.newest[d] = b.newest[d] /\ m.backward[d] = b.backward[d]
  BY <1>1 DEF Sound, GroupTypes
<1> QED BY <1>1, <1>2, <1>3 DEF Adopt, m

\* Everything is sound but for instant n, which can take camera c's capture t.
Admits(q, n, c, t) ==
    /\ Shaped(q) /\ GroupTypes(q) /\ Accounted(q) /\ Bounded(q) /\ OldestFirst(q)
    /\ n \in DOMAIN q.open
    /\ \A id \in DOMAIN q.open \ {n} : OneMoment(q.open[id])
    /\ \A k \in q.ended : OneMoment(k)
    /\ c \notin Reported(q.open[n])
    /\ q.open[n].entries = <<>> \/ OneMoment(q.open[n])
    /\ \A y \in Captures(q.open[n]) : t - y < Window /\ y - t < Window

Admitted(q, n, c, t) ==
    [q EXCEPT !.open[n].entries = Append(@, [cam |-> c, time |-> t]),
              !.newest[c] = IF @ = Never THEN t ELSE Max(@, t),
              !.backward[c] = 0]

\* An instant that takes one more entry: what it holds.
LEMMA AppendedIs ==
    ASSUME NEW k, k.entries \in Seq(Entries), NEW e, NEW one \in Entries,
           e.entries = Append(k.entries, one)
    PROVE  /\ e.entries \in Seq(Entries) /\ e.entries # <<>>
           /\ Captures(e) = Captures(k) \cup {one.time}
           /\ Reported(e) = Reported(k) \cup {one.cam}
           /\ \A i, j \in DOMAIN e.entries :
                 \/ i \in DOMAIN k.entries /\ j \in DOMAIN k.entries
                       /\ e.entries[i] = k.entries[i] /\ e.entries[j] = k.entries[j]
                 \/ i = j
                 \/ i \in DOMAIN k.entries /\ e.entries[i] = k.entries[i] /\ e.entries[j] = one
                 \/ j \in DOMAIN k.entries /\ e.entries[j] = k.entries[j] /\ e.entries[i] = one
<1> DEFINE s == k.entries
           m == e.entries
           l == Len(k.entries) + 1
<1>1. m = Append(s, one)  OBVIOUS
<1> HIDE DEF s, m, l
<1>2. s \in Seq(Entries)  BY DEF s
<1>3. l = Len(s) + 1  BY DEF l, s
<1>4. /\ m \in Seq(Entries) /\ Len(m) = l /\ Len(s) \in Nat
      /\ \A i \in 1 .. Len(s) : m[i] = s[i]
      /\ m[l] = one
      /\ DOMAIN s = 1 .. Len(s) /\ DOMAIN m = 1 .. Len(m)
  BY <1>1, <1>2, <1>3
<1>5. DOMAIN m = DOMAIN s \cup {l}
  BY <1>3, <1>4
<1>6. \A i \in DOMAIN s : m[i] = s[i]
  BY <1>4
<1>7. \A i, j \in DOMAIN m :
         \/ i \in DOMAIN s /\ j \in DOMAIN s /\ m[i] = s[i] /\ m[j] = s[j]
         \/ i = j
         \/ i \in DOMAIN s /\ m[i] = s[i] /\ m[j] = one
         \/ j \in DOMAIN s /\ m[j] = s[j] /\ m[i] = one
  BY <1>4, <1>5, <1>6
<1>8. Captures(e) = Captures(k) \cup {one.time} /\ Reported(e) = Reported(k) \cup {one.cam}
  BY <1>4, <1>5, <1>6 DEF Captures, Reported, s, m
<1>9. m # <<>>
  BY <1>3, <1>4
<1> QED BY <1>4, <1>7, <1>8, <1>9 DEF s, m

LEMMA AdmittedIs ==
    ASSUME NEW c \in Cameras, NEW t \in Times, NEW q, NEW n, Admits(q, n, c, t)
    PROVE  LET e == Admitted(q, n, c, t) IN
           /\ Sound(e) /\ DOMAIN e.open = DOMAIN q.open
           /\ \A id \in DOMAIN q.open \ {n} : e.open[id] = q.open[id]
           /\ e.open[n].ready = q.open[n].ready /\ e.open[n].expired = q.open[n].expired
           /\ e.next = q.next /\ e.live = q.live /\ e.hooked = q.hooked /\ e.closed = q.closed
           /\ e.ended = q.ended
           /\ \A d \in Cameras \ {c} : e.newest[d] = q.newest[d] /\ e.backward[d] = q.backward[d]
<1> DEFINE e == Admitted(q, n, c, t)
           k == q.open[n]
           more == Append(k.entries, [cam |-> c, time |-> t])
           nb == [q.newest EXCEPT ![c] = IF @ = Never THEN t ELSE Max(@, t)]
           bb == [q.backward EXCEPT ![c] = 0]
<1>1. k \in Buckets /\ k.entries \in Seq(Entries) /\ n \in DOMAIN q.open
  BY DEF Admits, GroupTypes, Buckets
<1>2. more \in Seq(Entries)
  <2>1. [cam |-> c, time |-> t] \in Entries  BY DEF Entries
  <2> QED BY <1>1, <2>1
<1>3. /\ Shaped(e) /\ e.open = [q.open EXCEPT ![n].entries = more]
      /\ e.newest = nb /\ e.backward = bb
      /\ e.next = q.next /\ e.ended = q.ended /\ e.announced = q.announced /\ e.seen = q.seen
      /\ e.hooked = q.hooked /\ e.live = q.live /\ e.max = q.max /\ e.closed = q.closed
  BY DEF Admits, Admitted, Shaped
<1> HIDE DEF e, more, nb, bb
<1>4. /\ DOMAIN e.open = DOMAIN q.open
      /\ \A id \in DOMAIN q.open \ {n} : e.open[id] = q.open[id]
      /\ e.open[n] = [k EXCEPT !.entries = more]
  BY <1>1, <1>3 DEF Admits, Shaped
<1>5. e.open[n] \in Buckets /\ e.open[n].entries = more
      /\ e.open[n].ready = k.ready /\ e.open[n].expired = k.expired
  BY <1>1, <1>2, <1>4 DEF Buckets
<1>6. /\ Captures(e.open[n]) = Captures(k) \cup {t} /\ e.open[n].entries # <<>>
      /\ \A i, j \in DOMAIN e.open[n].entries :
            i # j => e.open[n].entries[i].cam # e.open[n].entries[j].cam
  <2> DEFINE one == [cam |-> c, time |-> t]
  <2>1. one \in Entries /\ one.cam = c /\ one.time = t  BY DEF Entries
  <2>2. e.open[n].entries = Append(k.entries, one)  BY <1>5 DEF more
  <2> HIDE DEF one
  <2>3. /\ \A m \in DOMAIN k.entries : k.entries[m].cam # c
        /\ \A m, o \in DOMAIN k.entries : m # o => k.entries[m].cam # k.entries[o].cam
    BY DEF Admits, Reported, OneMoment
  <2> DEFINE kk == k
             ee == e.open[n]
  <2>4. kk.entries \in Seq(Entries) /\ ee.entries = Append(kk.entries, one)  BY <1>1, <2>2
  <2> HIDE DEF kk, ee
  <2>5. /\ ee.entries # <<>> /\ Captures(ee) = Captures(kk) \cup {one.time}
        /\ \A i, j \in DOMAIN ee.entries :
                 \/ i \in DOMAIN kk.entries /\ j \in DOMAIN kk.entries
                       /\ ee.entries[i] = kk.entries[i] /\ ee.entries[j] = kk.entries[j]
                 \/ i = j
                 \/ i \in DOMAIN kk.entries /\ ee.entries[i] = kk.entries[i] /\ ee.entries[j] = one
                 \/ j \in DOMAIN kk.entries /\ ee.entries[j] = kk.entries[j] /\ ee.entries[i] = one
    BY <2>1, <2>4, AppendedIs
  <2>6. /\ \A m \in DOMAIN kk.entries : kk.entries[m].cam # c
        /\ \A m, o \in DOMAIN kk.entries : m # o => kk.entries[m].cam # kk.entries[o].cam
    BY <2>3 DEF kk
  <2>7. ASSUME NEW i \in DOMAIN ee.entries, NEW j \in DOMAIN ee.entries, i # j
        PROVE  ee.entries[i].cam # ee.entries[j].cam
    <3>1. CASE i \in DOMAIN kk.entries /\ j \in DOMAIN kk.entries
                 /\ ee.entries[i] = kk.entries[i] /\ ee.entries[j] = kk.entries[j]
      BY <2>6, <2>7, <3>1
    <3>2. CASE i \in DOMAIN kk.entries /\ ee.entries[i] = kk.entries[i] /\ ee.entries[j] = one
      BY <2>1, <2>6, <3>2
    <3>3. CASE j \in DOMAIN kk.entries /\ ee.entries[j] = kk.entries[j] /\ ee.entries[i] = one
      BY <2>1, <2>6, <3>3
    <3> QED BY <2>5, <2>7, <3>1, <3>2, <3>3
  <2> QED BY <2>1, <2>5, <2>7 DEF kk, ee
<1>7. OneMoment(e.open[n])
  <2>1. \A x, y \in Captures(e.open[n]) : x - y < Window
    <3>1. \A x, y \in Captures(k) : x - y < Window
      BY DEF Admits, OneMoment, Captures
    <3>2. t \in Int /\ t - t < Window
      BY BarrierAssumption
    <3> QED BY <1>6, <3>1, <3>2 DEF Admits
  <2> QED BY <1>6, <2>1 DEF OneMoment
<1>8. nb \in [Cameras -> Times \cup {Never}] /\ bb \in [Cameras -> Nat]
  BY BarrierAssumption DEF nb, bb, Admits, GroupTypes, Max
<1>9. GroupTypes(e)
  <2>1. \A id \in DOMAIN e.open : e.open[id] \in Buckets
    BY <1>4, <1>5 DEF Admits, GroupTypes
  <2> QED BY <1>3, <1>8, <2>1 DEF Admits, GroupTypes
<1>10. Moments(e)
  BY <1>3, <1>4, <1>7 DEF Admits, Moments
<1>11. Accounted(e) /\ Bounded(e) /\ OldestFirst(e)
  BY <1>3, <1>4 DEF Admits, Accounted, IdsOf, Bounded, OldestFirst
<1>12. \A d \in Cameras \ {c} : e.newest[d] = q.newest[d] /\ e.backward[d] = q.backward[d]
  BY <1>3 DEF nb, bb, Admits, GroupTypes
<1> QED BY <1>3, <1>4, <1>5, <1>9, <1>10, <1>11, <1>12 DEF Sound, e

LEMMA OpenBucketIs ==
    ASSUME NEW b, Sound(b), NEW c \in Cameras, NEW t \in Times
    PROVE  LET q == OpenBucket(b)
               n == b.next + 1 IN
           /\ Admits(q, n, c, t)
           /\ DOMAIN q.open = (DOMAIN b.open \ Overflow(b)) \cup {n}
           /\ n \notin DOMAIN b.open
           /\ \A id \in DOMAIN b.open \ Overflow(b) : q.open[id] = b.open[id]
           /\ q.open[n] = FreshBucket
           /\ q.next = n /\ q.live = b.live /\ q.hooked = b.hooked /\ q.closed = b.closed
           /\ q.newest = b.newest /\ q.backward = b.backward
<1> DEFINE I == Overflow(b)
           why == [id \in I |-> "evicted"]
           room == Evict(b)
           n == b.next + 1
           q == OpenBucket(b)
           map == [id \in DOMAIN room.open \cup {n} |->
                      IF id = n THEN FreshBucket ELSE room.open[id]]
<1>1. I \in SUBSET DOMAIN b.open /\ \A id \in I, m \in DOMAIN b.open \ I : m > id
  BY OverflowIs
<1>2. room = End(b, I, why, FALSE)
  BY DEF Evict
<1>3. Sound(room)
  <2>1. "evicted" \in Whys  BY DEF Whys
  <2>3. FALSE \in BOOLEAN  OBVIOUS
  <2> HIDE DEF room, I
  <2>2. why \in [I -> Whys]  BY <2>1
  <2> HIDE DEF why
  <2> QED BY <1>1, <1>2, <2>1, <2>2, <2>3, EndIsSound
<1>4. /\ SameRest(room, b) /\ room.open = [id \in DOMAIN b.open \ I |-> b.open[id]]
  <2> DEFINE no == FALSE
  <2>1. Shaped(b) /\ room = End(b, I, why, no)  BY <1>2 DEF Sound
  <2> HIDE DEF why, room, I, no
  <2>2. LET e == End(b, I, why, no) IN
        SameRest(e, b) /\ e.open = [id \in DOMAIN b.open \ I |-> b.open[id]]
    BY <2>1, EndIs
  <2> QED BY <2>1, <2>2
<1>5. q = [room EXCEPT !.next = n, !.open = map]
  BY DEF OpenBucket
<1> HIDE DEF room, q, why, I
<1>6. /\ Shaped(q) /\ q.open = map /\ q.next = n /\ q.ended = room.ended
      /\ q.announced = room.announced /\ q.seen = room.seen /\ q.hooked = room.hooked
      /\ q.live = room.live /\ q.max = room.max /\ q.closed = room.closed
      /\ q.newest = room.newest /\ q.backward = room.backward
  <2> HIDE DEF n
  <2>1. map = [id \in DOMAIN map |-> map[id]]  OBVIOUS
  <2> HIDE DEF map
  <2> QED BY <1>3, <1>5, <2>1 DEF Sound, Shaped
<1>7. /\ DOMAIN q.open = DOMAIN room.open \cup {n} /\ q.open[n] = FreshBucket
      /\ \A id \in DOMAIN room.open \ {n} : q.open[id] = room.open[id]
  <2> HIDE DEF n
  <2> QED BY <1>6
<1>8. /\ n \in Nat /\ n > b.next /\ n \notin DOMAIN b.open /\ b.next \in Nat
      /\ \A k \in DOMAIN room.open \cup IdsOf(room) : k < n
      /\ room.next = b.next
  BY <1>3, <1>4 DEF Sound, GroupTypes, Accounted, SameRest
<1>9. DOMAIN room.open = DOMAIN b.open \ I /\ \A id \in DOMAIN b.open \ I : room.open[id] = b.open[id]
  BY <1>4
<1> HIDE DEF n
<1>10. FreshBucket \in Buckets /\ FreshBucket.entries = <<>>
  BY DEF FreshBucket, Buckets, Seals
<1>11. GroupTypes(q)
  <2>1. \A id \in DOMAIN q.open : q.open[id] \in Buckets
    BY <1>3, <1>7, <1>10 DEF Sound, GroupTypes
  <2> QED BY <1>3, <1>6, <1>8, <2>1 DEF Sound, GroupTypes
<1>12. Accounted(q)
  <2>1. IdsOf(q) = IdsOf(room)  BY <1>6 DEF IdsOf
  <2>2. 1 .. n = (1 .. b.next) \cup {n}  BY <1>8 DEF n
  <2>3. DOMAIN room.open \cup IdsOf(room) = 1 .. b.next /\ DOMAIN room.open \cap IdsOf(room) = {}
        /\ \A j, k \in room.ended : j.id = k.id => j = k
    BY <1>3, <1>8 DEF Sound, Accounted
  <2>4. n \notin IdsOf(room)  BY <1>8
  <2> QED BY <1>6, <1>7, <2>1, <2>2, <2>3, <2>4 DEF Accounted
<1>13. Bounded(q)
  <2>1. IsFiniteSet(DOMAIN room.open) /\ Cardinality(DOMAIN room.open) \in Nat
    BY <1>3, OpenIsFinite DEF Sound
  <2>2. Cardinality(DOMAIN room.open) < b.max
    BY <1>9, OverflowIs DEF I
  <2>3. Cardinality(DOMAIN q.open) <= Cardinality(DOMAIN room.open) + 1
    <3> DEFINE D == DOMAIN room.open
    <3>1. IsFiniteSet(D) /\ Cardinality(D) \in Nat /\ DOMAIN q.open = D \cup {n}
      BY <1>7, <2>1
    <3> HIDE DEF D
    <3>2. Cardinality(D \cup {n}) = IF n \in D THEN Cardinality(D) ELSE Cardinality(D) + 1
      BY <3>1, FS_AddElement
    <3>3. Cardinality(DOMAIN q.open) <= Cardinality(D) + 1
      BY <3>1, <3>2
    <3> QED BY <3>3 DEF D
  <2>4. Cardinality(DOMAIN q.open) \in Nat
    BY <1>7, <2>1, FS_AddElement, FS_CardinalityType
  <2>5. b.max \in Nat /\ q.max = b.max /\ (MaxInstants > 0 => q.max = MaxInstants)
    BY <1>3, <1>4, <1>6 DEF Sound, GroupTypes, Bounded, SameRest
  <2> QED BY <2>1, <2>2, <2>3, <2>4, <2>5 DEF Bounded
<1>14. OldestFirst(q)
  <2> SUFFICES ASSUME NEW k \in q.ended, k.why = "evicted", NEW id \in DOMAIN q.open
               PROVE  id > k.id
    BY DEF OldestFirst
  <2>1. k \in room.ended /\ k.id \in IdsOf(room)  BY <1>6 DEF IdsOf
  <2>2. CASE id = n
    <3>1. k.id < n /\ k.id \in Nat  BY <1>3, <1>8, <2>1 DEF Sound, GroupTypes, Ends
    <3> QED BY <1>8, <2>2, <3>1
  <2>3. CASE id \in DOMAIN room.open
    BY <1>3, <2>1, <2>3 DEF Sound, OldestFirst
  <2> QED BY <1>7, <2>2, <2>3
<1>15. /\ \A id \in DOMAIN q.open \ {n} : OneMoment(q.open[id])
       /\ \A k \in q.ended : OneMoment(k)
  BY <1>3, <1>6, <1>7 DEF Sound, Moments
<1>16. Captures(q.open[n]) = {} /\ Reported(q.open[n]) = {} /\ q.open[n].entries = <<>>
  <2>1. DOMAIN <<>> = {}  OBVIOUS
  <2> QED BY <1>7, <1>10, <2>1 DEF Captures, Reported
<1>17. Admits(q, n, c, t)
  BY <1>6, <1>7, <1>11, <1>12, <1>13, <1>14, <1>15, <1>16 DEF Admits
<1> QED BY <1>4, <1>6, <1>7, <1>8, <1>9, <1>17 DEF n, q, I, SameRest

Opens(a, c, t) == Match(a, t) = 0 \/ HasMovedOn(a, c, t)

\* What a frame that is filed does to its group.
LEMMA EnterIs ==
    ASSUME NEW a, Sound(a), NEW c \in Cameras, NEW t \in Times
    PROVE  LET e == Enter(a, c, t)
               n == Chosen(a, c, t) IN
           /\ Sound(e) /\ e.next \in {a.next, a.next + 1}
           /\ e.live = a.live /\ e.hooked = a.hooked /\ e.closed = a.closed
           /\ n \in DOMAIN e.open /\ ~e.open[n].ready
           /\ \A id \in DOMAIN e.open : id = n \/ id \in DOMAIN a.open
           /\ \A id \in DOMAIN a.open :
                 id \in DOMAIN e.open \/ (Opens(a, c, t) /\ Overflow(a) # {})
           /\ \A id \in DOMAIN a.open \cap DOMAIN e.open :
                 /\ id # n => Reported(e.open[id]) = Reported(a.open[id])
                 /\ e.open[id].ready = (a.open[id].ready
                                          \/ (HasMovedOn(a, c, t) /\ id = Match(a, t)))
           /\ \A d \in Cameras \ {c} : e.newest[d] = a.newest[d] /\ e.backward[d] = a.backward[d]
<1> DEFINE e == Enter(a, c, t)
           m == Match(a, t)
           n == Chosen(a, c, t)
           p == Place(a, c, t)
<1>1. e = Admitted(p, n, c, t)
  BY DEF Enter, Admitted
<1>2. CASE ~Opens(a, c, t)
  <2>1. p = a /\ n = m /\ m # 0 /\ c \notin Reported(a.open[m])
    BY <1>2 DEF Opens, Place, Chosen, HasMovedOn
  <2>2. m \in DOMAIN a.open /\ ~a.open[m].ready /\ SpreadWith(a.open[m], t) < Window
    BY <2>1, MatchIs
  <2>3. a.open[m].entries \in Seq(Entries) /\ OneMoment(a.open[m])
    BY <2>2 DEF Sound, GroupTypes, Moments, Buckets
  <2>4. \A y \in Captures(a.open[m]) : t - y < Window /\ y - t < Window
    BY <2>2, <2>3, SpreadCovers
  <2> HIDE DEF p, m, n, e
  <2>5. Admits(a, m, c, t)
    BY <2>1, <2>2, <2>3, <2>4 DEF Admits, Sound, Moments
  <2>6. LET z == Admitted(a, m, c, t) IN
           /\ Sound(z) /\ DOMAIN z.open = DOMAIN a.open
           /\ \A id \in DOMAIN a.open \ {m} : z.open[id] = a.open[id]
           /\ z.open[m].ready = a.open[m].ready
           /\ z.next = a.next /\ z.live = a.live /\ z.hooked = a.hooked /\ z.closed = a.closed
           /\ \A d \in Cameras \ {c} : z.newest[d] = a.newest[d] /\ z.backward[d] = a.backward[d]
    BY <2>5, AdmittedIs
  <2>7. e = Admitted(a, m, c, t) /\ ~HasMovedOn(a, c, t)
    BY <1>1, <1>2, <2>1 DEF Opens
  <2>8. \A id \in DOMAIN a.open \cap DOMAIN e.open : e.open[id].ready = a.open[id].ready
    BY <2>6, <2>7
  <2>9. \A id \in DOMAIN a.open : id # m => Reported(e.open[id]) = Reported(a.open[id])
    BY <2>6, <2>7
  <2>10. ~e.open[m].ready
    BY <2>2, <2>6, <2>7
  <2>11. \A id \in DOMAIN a.open \cap DOMAIN e.open :
            e.open[id].ready = (a.open[id].ready \/ (HasMovedOn(a, c, t) /\ id = m))
    <3> TAKE id \in DOMAIN a.open \cap DOMAIN e.open
    <3>1. a.open[id].ready \in BOOLEAN  BY DEF Sound, GroupTypes, Buckets
    <3> QED BY <2>7, <2>8, <3>1
  <2>12. /\ Sound(e) /\ e.next = a.next
         /\ e.live = a.live /\ e.hooked = a.hooked /\ e.closed = a.closed
         /\ n \in DOMAIN e.open /\ ~e.open[n].ready /\ DOMAIN e.open = DOMAIN a.open
         /\ \A d \in Cameras \ {c} : e.newest[d] = a.newest[d] /\ e.backward[d] = a.backward[d]
    BY <2>1, <2>2, <2>6, <2>7, <2>10
  <2>13. \A id \in DOMAIN a.open \cap DOMAIN e.open :
            id # n => Reported(e.open[id]) = Reported(a.open[id])
    BY <2>1, <2>9
  <2> QED BY <2>11, <2>12, <2>13 DEF e, n, m
<1>3. CASE Opens(a, c, t)
  <2> DEFINE b == IF HasMovedOn(a, c, t) THEN Seal(a, m, "advanced") ELSE a
             q == OpenBucket(b)
             k == b.next + 1
  <2>1. HasMovedOn(a, c, t) => m \in DOMAIN a.open
    BY MatchIs DEF HasMovedOn
  <2>2. /\ Sound(b) /\ b.next = a.next /\ b.live = a.live /\ b.hooked = a.hooked
        /\ b.closed = a.closed /\ b.newest = a.newest /\ b.backward = a.backward
        /\ b.max = a.max /\ DOMAIN b.open = DOMAIN a.open
        /\ \A id \in DOMAIN a.open :
              /\ Reported(b.open[id]) = Reported(a.open[id])
              /\ b.open[id].ready = (a.open[id].ready \/ (HasMovedOn(a, c, t) /\ id = m))
    <3>1. CASE HasMovedOn(a, c, t)
      <4> HIDE DEF m
      <4> DEFINE s == Seal(a, m, "advanced")
      <4>1. b = s /\ m \in DOMAIN a.open /\ "advanced" \in Seals
        BY <2>1, <3>1 DEF Seals
      <4>2. Shaped(a) /\ a.open[m] \in Buckets
        BY <4>1 DEF Sound, GroupTypes
      <4> HIDE DEF s, b
      <4>3. Sound(s)
        BY <4>1, SealIsSound DEF s
      <4>4. /\ SameRest(s, a) /\ DOMAIN s.open = DOMAIN a.open
            /\ \A id \in DOMAIN a.open \ {m} : s.open[id] = a.open[id]
            /\ s.open[m] = [entries |-> a.open[m].entries, ready |-> TRUE, sealed |-> "advanced",
                            expired |-> a.open[m].expired]
        BY <4>1, <4>2, SealIs DEF s
      <4>5. s.open[m].entries = a.open[m].entries
        BY <4>4
      <4>6. s.open[m].ready = TRUE
        BY <4>4
      <4>7. Reported(s.open[m]) = Reported(a.open[m])
        BY <4>5 DEF Reported
      <4>8. \A id \in DOMAIN a.open : Reported(s.open[id]) = Reported(a.open[id])
        BY <4>4, <4>7
      <4>9. \A id \in DOMAIN a.open : s.open[id].ready = (a.open[id].ready \/ id = m)
        <5> TAKE id \in DOMAIN a.open
        <5>1. a.open[id].ready \in BOOLEAN  BY DEF Sound, GroupTypes, Buckets
        <5> QED BY <4>4, <4>6, <5>1
      <4> QED BY <3>1, <4>1, <4>3, <4>4, <4>8, <4>9 DEF SameRest
    <3>2. CASE ~HasMovedOn(a, c, t)
      <4>1. b = a  BY <3>2
      <4>2. \A id \in DOMAIN a.open : a.open[id].ready \in BOOLEAN
        BY DEF Sound, GroupTypes, Buckets
      <4> QED BY <3>2, <4>1, <4>2
    <3> QED BY <3>1, <3>2
  <2>3. p = q /\ n = k
    BY <1>3, <2>2 DEF Opens, Place, Chosen
  <2> HIDE DEF b, p, n, e, m
  <2>4. Overflow(b) = Overflow(a)
    BY <2>2 DEF Overflow
  <2>5. /\ Admits(q, k, c, t)
        /\ DOMAIN q.open = (DOMAIN b.open \ Overflow(b)) \cup {k}
        /\ k \notin DOMAIN b.open
        /\ \A id \in DOMAIN b.open \ Overflow(b) : q.open[id] = b.open[id]
        /\ q.open[k] = FreshBucket
        /\ q.next = k /\ q.live = b.live /\ q.hooked = b.hooked /\ q.closed = b.closed
        /\ q.newest = b.newest /\ q.backward = b.backward
    BY <2>2, OpenBucketIs
  <2> HIDE DEF q
  <2>6. /\ e = Admitted(q, n, c, t) /\ Admits(q, n, c, t)
    BY <1>1, <2>3, <2>5
  <2>7. /\ Sound(e) /\ DOMAIN e.open = DOMAIN q.open
        /\ \A id \in DOMAIN q.open \ {n} : e.open[id] = q.open[id]
        /\ e.open[n].ready = q.open[n].ready
        /\ e.next = q.next /\ e.live = q.live /\ e.hooked = q.hooked /\ e.closed = q.closed
        /\ \A d \in Cameras \ {c} : e.newest[d] = q.newest[d] /\ e.backward[d] = q.backward[d]
    BY <2>6, AdmittedIs
  <2>8. q.open[n].ready = FALSE
    BY <2>3, <2>5 DEF FreshBucket
  <2>9. \A id \in DOMAIN a.open : id # n /\ (id \in DOMAIN e.open => e.open[id] = b.open[id])
    BY <2>2, <2>3, <2>5, <2>7
  <2>10. \A id \in DOMAIN a.open \cap DOMAIN e.open :
            /\ Reported(e.open[id]) = Reported(a.open[id])
            /\ e.open[id].ready = (a.open[id].ready \/ (HasMovedOn(a, c, t) /\ id = m))
    BY <2>2, <2>9
  <2>11. \A id \in DOMAIN a.open : id \in DOMAIN e.open \/ Overflow(a) # {}
    BY <2>2, <2>4, <2>5, <2>7
  <2>12. /\ e.next = a.next + 1 /\ n \in DOMAIN e.open
         /\ \A id \in DOMAIN e.open : id = n \/ id \in DOMAIN a.open
    BY <2>2, <2>3, <2>5, <2>7
  <2>13. e.live = a.live /\ e.hooked = a.hooked /\ e.closed = a.closed
         /\ \A d \in Cameras \ {c} : e.newest[d] = a.newest[d] /\ e.backward[d] = a.backward[d]
    BY <2>2, <2>5, <2>7
  <2> QED BY <1>3, <2>7, <2>8, <2>10, <2>11, <2>12, <2>13 DEF e, n, m
<1> QED BY <1>2, <1>3

-----------------------------------------------------------------------------
(* The barrier's inductive invariant.                                      *)

Waits == [at : {"asleep", "awake"}, group : Groups, id : Nat]
Busy(W) == {w \in Workers : W[w] # Idle}

\* A worker that sleeps has an instant that still takes frames.
SleepsSoundly(b, x) == x.at = "asleep" => x.id \in DOMAIN b.open /\ ~b.open[x.id].ready

\* An instant that is waited for and not sealed lacks a live camera.
StillLacking(b, x) ==
    x.id \in DOMAIN b.open /\ ~b.open[x.id].ready => ~(b.live \subseteq Reported(b.open[x.id]))

GroupsSound == group = [g \in Groups |-> group[g]] /\ \A g \in Groups : Sound(group[g])
WorkersTyped == worker \in [Workers -> Waits \cup {Idle}]
Counted ==
    /\ held = Cardinality(Parked) /\ held <= Permits
    /\ frames \in 0 .. MaxFrames /\ \A g \in Groups : group[g].next <= frames
RefusedOnce ==
    /\ last = [c \in Cameras |-> last[c]]
    /\ \A c \in Cameras : last[c] = "backward" =>
          group[GroupOf[c]].newest[c] = Never \/ group[GroupOf[c]].backward[c] >= 1
SleepersKnow == \A w \in Parked : SleepsSoundly(group[worker[w].group], worker[w])

BarrierInv == GroupsSound /\ WorkersTyped /\ Counted /\ RefusedOnce /\ SleepersKnow

\* With the roster announced, what waits is not complete.
RosterAnnounced == \A g \in Groups : \E c \in Roster : GroupOf[c] = g
NothingComplete ==
    /\ \A g \in Groups : group[g].hooked
    /\ \A w \in Parked : StillLacking(group[worker[w].group], worker[w])

LEMMA IdleIs == \A x \in Waits : x # Idle
BY DEF Waits, Idle

LEMMA PermitsAreNat == Permits \in Nat /\ Cardinality(Workers) = Permits + 1 /\ IsFiniteSet(Workers)
<1>1. IsFiniteSet(Workers) /\ Workers # {}  BY BarrierAssumption
<1>2. Cardinality(Workers) \in Nat /\ Cardinality(Workers) # 0
  BY <1>1, FS_CardinalityType, FS_EmptySet
<1> QED BY <1>1, <1>2 DEF Permits

LEMMA BusyIs ==
    ASSUME NEW W
    PROVE  IsFiniteSet(Busy(W)) /\ Cardinality(Busy(W)) \in Nat
<1>1. Busy(W) \in SUBSET Workers  BY DEF Busy
<1> QED BY <1>1, PermitsAreNat, FS_Subset, FS_CardinalityType

LEMMA GroupInit ==
    ASSUME Init, NEW g \in Groups
    PROVE  Sound(group[g]) /\ group[g].next = 0 /\ (group[g].hooked <=> \E c \in Roster : GroupOf[c] = g)
<1> DEFINE mine == {c \in Roster : GroupOf[c] = g}
           b == [open |-> <<>>, next |-> 0, recent |-> <<>>, ended |-> {},
                 announced |-> mine, seen |-> {}, hooked |-> mine # {}, live |-> {},
                 max |-> 0, keep |-> 0, closed |-> FALSE,
                 newest |-> [c \in Cameras |-> Never],
                 backward |-> [c \in Cameras |-> 0]]
<1>1. group[g] = Refresh(b)
  BY DEF Init
<1>2. /\ DOMAIN b.open = {} /\ b.open = [id \in DOMAIN b.open |-> b.open[id]]
      /\ b.next = 0 /\ b.ended = {} /\ b.announced = mine /\ b.seen = {}
      /\ b.newest = [c \in Cameras |-> Never] /\ b.backward = [c \in Cameras |-> 0]
  OBVIOUS
<1>3. b.hooked \in BOOLEAN /\ (b.hooked <=> mine # {})
  OBVIOUS
<1>4. Shaped(b)
  BY <1>2 DEF Shaped
<1> HIDE DEF b
<1>5. mine \subseteq Cameras
  BY BarrierAssumption
<1>6. Accounted(b) /\ Moments(b) /\ OldestFirst(b)
  BY <1>2 DEF Accounted, IdsOf, Moments, OldestFirst
<1>7. Cardinality(DOMAIN b.open) = 0
  BY <1>2, FS_EmptySet
<1>8. Stirred(b)
  BY <1>2, <1>3, <1>4, <1>5, <1>6, <1>7, BarrierAssumption DEF Stirred
<1>9. Sound(Refresh(b)) /\ Refresh(b).next = 0 /\ Refresh(b).hooked = b.hooked
  BY <1>2, <1>4, <1>8, RefreshIsSound, RefreshIs
<1> QED BY <1>1, <1>3, <1>9

LEMMA BarrierInit == ASSUME Init PROVE BarrierInv
<1>1. GroupsSound
  BY GroupInit DEF GroupsSound, Init
<1>2. WorkersTyped /\ Parked = {}
  BY DEF Init, WorkersTyped, Parked
<1>3. Counted
  BY <1>2, GroupInit, FS_EmptySet, PermitsAreNat, BarrierAssumption DEF Counted, Init
<1>4. RefusedOnce /\ SleepersKnow
  BY <1>2 DEF RefusedOnce, SleepersKnow, Init
<1> QED BY <1>1, <1>2, <1>3, <1>4 DEF BarrierInv

LEMMA RosterInit == ASSUME Init, RosterAnnounced PROVE NothingComplete
<1>1. Parked = {}
  BY DEF Init, Parked
<1> QED BY <1>1, GroupInit DEF NothingComplete, RosterAnnounced

-----------------------------------------------------------------------------
(* What submit() finds: what nobody waited for is retired, the camera seen. *)

LEMMA RetireIs ==
    ASSUME BarrierInv, NEW g \in Groups
    PROVE  LET b == group[g]
               r == Retire(g, b) IN
           /\ Sound(r) /\ SameRest(r, b)
           /\ r.open = [id \in DOMAIN b.open \ Stale(g, b) |-> b.open[id]]
<1> DEFINE b == group[g]
           I == Stale(g, b)
           why == [id \in I |-> IF b.open[id].ready THEN b.open[id].sealed ELSE "expired"]
           no == FALSE
<1>1. Sound(b)
  BY DEF BarrierInv, GroupsSound
<1>2. Retire(g, b) = End(b, I, why, no)
  BY DEF Retire
<1>3. I \in SUBSET DOMAIN b.open
  BY DEF Stale
<1>4. \A id \in I : b.open[id].sealed \in Seals
  BY <1>1, <1>3 DEF Sound, GroupTypes, Buckets
<1>5. no \in BOOLEAN
  OBVIOUS
<1> HIDE DEF b, I, no
<1>6. \A id \in I : why[id] \in Whys /\ why[id] # "evicted"
  <2> TAKE id \in I
  <2>1. why[id] = IF b.open[id].ready THEN b.open[id].sealed ELSE "expired"  OBVIOUS
  <2> QED BY <1>4, <2>1 DEF Whys, Seals
<1>7. why \in [I -> Whys]
  BY <1>6
<1> HIDE DEF why
<1>8. Sound(End(b, I, why, no))
  BY <1>1, <1>3, <1>5, <1>6, <1>7, EndIsSound
<1>9. LET e == End(b, I, why, no) IN
      SameRest(e, b) /\ e.open = [id \in DOMAIN b.open \ I |-> b.open[id]]
  BY <1>1, EndIs DEF Sound
<1> QED BY <1>2, <1>8, <1>9 DEF b, I

LEMMA FoundIs ==
    ASSUME BarrierInv, NEW c \in Cameras
    PROVE  LET g == GroupOf[c]
               b == group[g]
               f == Found(c) IN
           /\ g \in Groups /\ Sound(f)
           /\ f.next = b.next /\ f.hooked = b.hooked /\ f.closed = b.closed
           /\ f.newest = b.newest /\ f.backward = b.backward
           /\ b.hooked => f.live = b.live
           /\ \A id \in DOMAIN f.open : id \in DOMAIN b.open /\ f.open[id] = b.open[id]
           /\ \A id \in DOMAIN b.open : Waiting(g, id) # {} => id \in DOMAIN f.open
<1> DEFINE g == GroupOf[c]
           b == group[g]
           r == Retire(g, b)
           f == See(r, c)
<1>1. g \in Groups
  BY BarrierAssumption
<1>2. /\ Sound(r) /\ SameRest(r, b)
      /\ r.open = [id \in DOMAIN b.open \ Stale(g, b) |-> b.open[id]]
  BY <1>1, RetireIs
<1>3. Sound(b)
  BY <1>1 DEF BarrierInv, GroupsSound
<1>4. Found(c) = f
  BY DEF Found
<1> HIDE DEF r, b, g
<1>5. /\ Sound(f) /\ f.open = r.open /\ f.next = r.next /\ f.closed = r.closed
      /\ f.hooked = r.hooked /\ f.newest = r.newest /\ f.backward = r.backward
      /\ f.announced = r.announced
  BY <1>2, SeeIs
<1> HIDE DEF f
<1>6. b.hooked => f.live = b.live
  BY <1>2, <1>3, <1>5 DEF SameRest, Sound, GroupTypes
<1>7. DOMAIN f.open = DOMAIN b.open \ Stale(g, b)
      /\ \A id \in DOMAIN f.open : f.open[id] = b.open[id]
  BY <1>2, <1>5
<1>8. \A id \in DOMAIN b.open : Waiting(g, id) # {} => id \in DOMAIN f.open
  BY <1>7 DEF Stale
<1> QED BY <1>1, <1>2, <1>4, <1>5, <1>6, <1>7, <1>8 DEF g, b, SameRest

\* How a frame's filing touches those that wait in its group.
LEMMA FiledIs ==
    ASSUME BarrierInv, NEW c \in Cameras, NEW t \in Times
    PROVE  LET g == GroupOf[c]
               b == group[g]
               a == Adopt(Found(c), c, t)
               e == Enter(a, c, t)
               n == Chosen(a, c, t) IN
           /\ g \in Groups /\ Sound(a) /\ Sound(e)
           /\ a.next = b.next /\ e.next \in {b.next, b.next + 1}
           /\ a.hooked = b.hooked /\ e.hooked = b.hooked
           /\ n \in DOMAIN e.open /\ ~e.open[n].ready
           /\ \A d \in Cameras \ {c} :
                 /\ a.newest[d] = b.newest[d] /\ a.backward[d] = b.backward[d]
                 /\ e.newest[d] = b.newest[d] /\ e.backward[d] = b.backward[d]
           /\ \A w \in Parked : worker[w].group = g =>
                 /\ SleepsSoundly(b, worker[w]) => SleepsSoundly(a, worker[w])
                 /\ SleepsSoundly(b, worker[w]) /\ ~PlacingWakes(a, c, t)
                       => SleepsSoundly(e, worker[w])
                 /\ b.hooked /\ StillLacking(b, worker[w]) => StillLacking(a, worker[w])
                 /\ b.hooked /\ StillLacking(b, worker[w]) /\ worker[w].id # n
                       => StillLacking(e, worker[w])
<1> DEFINE g == GroupOf[c]
           b == group[g]
           f == Found(c)
           a == Adopt(f, c, t)
           e == Enter(a, c, t)
           n == Chosen(a, c, t)
<1>1. /\ g \in Groups /\ Sound(f)
      /\ f.next = b.next /\ f.hooked = b.hooked
      /\ f.newest = b.newest /\ f.backward = b.backward
      /\ b.hooked => f.live = b.live
      /\ \A id \in DOMAIN f.open : id \in DOMAIN b.open /\ f.open[id] = b.open[id]
      /\ \A id \in DOMAIN b.open : Waiting(g, id) # {} => id \in DOMAIN f.open
  BY FoundIs
<1> HIDE DEF b, f
<1>2. /\ Sound(a) /\ a.open = f.open /\ a.next = f.next /\ a.hooked = f.hooked
      /\ a.live = f.live
      /\ \A d \in Cameras \ {c} : a.newest[d] = f.newest[d] /\ a.backward[d] = f.backward[d]
  BY <1>1, AdoptIs
<1> HIDE DEF a
<1>3. /\ Sound(e) /\ e.next \in {a.next, a.next + 1}
      /\ e.live = a.live /\ e.hooked = a.hooked
      /\ n \in DOMAIN e.open /\ ~e.open[n].ready
      /\ \A id \in DOMAIN e.open : id = n \/ id \in DOMAIN a.open
      /\ \A id \in DOMAIN a.open :
            id \in DOMAIN e.open \/ (Opens(a, c, t) /\ Overflow(a) # {})
      /\ \A id \in DOMAIN a.open \cap DOMAIN e.open :
            /\ id # n => Reported(e.open[id]) = Reported(a.open[id])
            /\ e.open[id].ready = (a.open[id].ready
                                     \/ (HasMovedOn(a, c, t) /\ id = Match(a, t)))
      /\ \A d \in Cameras \ {c} : e.newest[d] = a.newest[d] /\ e.backward[d] = a.backward[d]
  BY <1>2, EnterIs
<1> HIDE DEF e, n
<1>4. ASSUME NEW w \in Parked, worker[w].group = g
      PROVE  /\ SleepsSoundly(b, worker[w]) => SleepsSoundly(a, worker[w])
             /\ SleepsSoundly(b, worker[w]) /\ ~PlacingWakes(a, c, t)
                   => SleepsSoundly(e, worker[w])
             /\ b.hooked /\ StillLacking(b, worker[w]) => StillLacking(a, worker[w])
             /\ b.hooked /\ StillLacking(b, worker[w]) /\ worker[w].id # n
                   => StillLacking(e, worker[w])
  <2> DEFINE x == worker[w]
             id == x.id
  <2>1. w \in Waiting(g, id)
    BY <1>4 DEF Waiting, Parked
  <2>2. id \in DOMAIN a.open <=> id \in DOMAIN b.open
    BY <1>1, <1>2, <2>1
  <2>3. id \in DOMAIN a.open => a.open[id] = b.open[id]
    BY <1>1, <1>2
  <2>4. b.hooked => a.live = b.live /\ e.live = b.live
    BY <1>1, <1>2, <1>3
  <2>5. ~PlacingWakes(a, c, t) => /\ Opens(a, c, t) => Overflow(a) = {}
                                  /\ HasMovedOn(a, c, t) => id # Match(a, t)
    <3>1. Waiting(g, id) # {}
      BY <2>1
    <3> QED BY <3>1 DEF PlacingWakes, Opens, g
  <2> HIDE DEF x, id
  <2>6. SleepsSoundly(b, x) => SleepsSoundly(a, x)
    BY <2>2, <2>3 DEF SleepsSoundly, id
  <2>7. SleepsSoundly(b, x) /\ ~PlacingWakes(a, c, t) => SleepsSoundly(e, x)
    <3>1. SUFFICES ASSUME SleepsSoundly(b, x), ~PlacingWakes(a, c, t), x.at = "asleep"
                   PROVE  id \in DOMAIN e.open /\ ~e.open[id].ready
      BY DEF SleepsSoundly, id
    <3>2. id \in DOMAIN a.open /\ ~a.open[id].ready
      BY <2>6, <3>1 DEF SleepsSoundly, id
    <3>3. id \in DOMAIN e.open
      BY <1>3, <2>5, <3>1, <3>2
    <3> QED BY <1>3, <2>5, <3>1, <3>2, <3>3
  <2>8. b.hooked /\ StillLacking(b, x) => StillLacking(a, x)
    BY <2>2, <2>3, <2>4 DEF StillLacking, id
  <2>9. b.hooked /\ StillLacking(b, x) /\ id # n => StillLacking(e, x)
    <3>1. SUFFICES ASSUME b.hooked, StillLacking(b, x), id # n,
                          id \in DOMAIN e.open, ~e.open[id].ready
                   PROVE  ~(e.live \subseteq Reported(e.open[id]))
      BY DEF StillLacking, id
    <3>2. id \in DOMAIN a.open
      BY <1>3, <3>1
    <3>3. ~a.open[id].ready /\ Reported(e.open[id]) = Reported(a.open[id])
      BY <1>3, <3>1, <3>2
    <3> QED BY <2>2, <2>3, <2>4, <3>1, <3>2, <3>3 DEF StillLacking, id
  <2> QED BY <2>6, <2>7, <2>8, <2>9 DEF x, id
<1> QED BY <1>1, <1>2, <1>3, <1>4 DEF g, b, f, a, e, n

-----------------------------------------------------------------------------
(* The steps: one group changes, and those that wait in it are woken or not. *)

LEMMA NotifiedIs ==
    ASSUME WorkersTyped, NEW g \in Groups
    PROVE  /\ Notified(g) \in [Workers -> Waits \cup {Idle}]
           /\ \A w \in Workers \ Parked : Notified(g)[w] = Idle
           /\ \A w \in Parked : /\ Notified(g)[w] \in Waits /\ worker[w] \in Waits
                                /\ Notified(g)[w].group = worker[w].group
                                /\ Notified(g)[w].id = worker[w].id
                                /\ worker[w].group = g => Notified(g)[w].at = "awake"
                                /\ worker[w].group # g => Notified(g)[w] = worker[w]
<1>1. ASSUME NEW w \in Workers \ Parked PROVE Notified(g)[w] = Idle
  BY DEF Notified, Parked
<1>2. ASSUME NEW w \in Parked
      PROVE  /\ Notified(g)[w] \in Waits /\ worker[w] \in Waits
             /\ Notified(g)[w].group = worker[w].group
             /\ Notified(g)[w].id = worker[w].id
             /\ worker[w].group = g => Notified(g)[w].at = "awake"
             /\ worker[w].group # g => Notified(g)[w] = worker[w]
  <2>1. w \in Workers /\ worker[w] \in Waits /\ worker[w] # Idle
    BY DEF Parked, WorkersTyped
  <2>2. Notified(g)[w] = IF worker[w].group = g THEN [worker[w] EXCEPT !.at = "awake"]
                         ELSE worker[w]
    BY <2>1 DEF Notified
  <2> QED BY <2>1, <2>2 DEF Waits
<1>3. Notified(g) = [w \in Workers |-> Notified(g)[w]]
  BY DEF Notified
<1>4. \A w \in Workers : Notified(g)[w] \in Waits \cup {Idle}
  BY <1>1, <1>2
<1>5. Notified(g) \in [Workers -> Waits \cup {Idle}]
  BY <1>3, <1>4
<1> QED BY <1>1, <1>2, <1>5

\* Group g becoming b leaves its sleepers what they sleep on.
StayAsleep(g, b) ==
    \A w \in Parked : worker[w].group = g /\ SleepsSoundly(group[g], worker[w])
                      => SleepsSoundly(b, worker[w])

\* It completes nothing that is waited for.
StayLacking(g, b) ==
    \A w \in Parked : worker[w].group = g /\ StillLacking(group[g], worker[w])
                      => StillLacking(b, worker[w])

LEMMA Moved ==
    ASSUME BarrierInv, NEW g \in Groups, NEW b, group' = [group EXCEPT ![g] = b],
           NEW W, W = Notified(g) \/ (W = worker /\ StayAsleep(g, b))
    PROVE  /\ W \in [Workers -> Waits \cup {Idle}] /\ Busy(W) = Parked
           /\ \A w \in Busy(W) : SleepsSoundly(group'[W[w].group], W[w])
           /\ NothingComplete /\ StayLacking(g, b)
              => \A w \in Busy(W) : StillLacking(group'[W[w].group], W[w])
<1>1. /\ group'[g] = b /\ \A h \in Groups \ {g} : group'[h] = group[h]
  BY DEF BarrierInv, GroupsSound
<1>2. /\ W \in [Workers -> Waits \cup {Idle}] /\ \A w \in Workers \ Parked : W[w] = Idle
      /\ \A w \in Parked : /\ W[w] \in Waits /\ worker[w] \in Waits
                           /\ W[w].group = worker[w].group /\ W[w].id = worker[w].id
                           /\ W = Notified(g) /\ worker[w].group = g => W[w].at = "awake"
                           /\ W = worker \/ worker[w].group # g => W[w] = worker[w]
  <2>1. CASE W = Notified(g)
    BY <2>1, NotifiedIs DEF BarrierInv
  <2>2. CASE W = worker
    <3>1. \A w \in Workers : worker[w] \in Waits \cup {Idle} /\ (w \in Parked <=> worker[w] # Idle)
      BY DEF BarrierInv, WorkersTyped, Parked
    <3>2. W \in [Workers -> Waits \cup {Idle}]
      BY <2>2 DEF BarrierInv, WorkersTyped
    <3>3. ASSUME NEW w \in Parked, worker[w].group = g, W = Notified(g) PROVE W[w].at = "awake"
      BY <3>3, NotifiedIs DEF BarrierInv
    <3> QED BY <2>2, <3>1, <3>2, <3>3 DEF Parked
  <2> QED BY <2>1, <2>2
<1>3. Busy(W) = Parked
  BY <1>2, IdleIs DEF Busy, Parked
<1>4. ASSUME NEW w \in Parked PROVE SleepsSoundly(group'[W[w].group], W[w])
  <2>1. SleepsSoundly(group[worker[w].group], worker[w]) /\ worker[w].group \in Groups
    BY <1>2 DEF BarrierInv, SleepersKnow, Waits
  <2>2. CASE worker[w].group # g
    BY <1>1, <1>2, <2>1, <2>2
  <2>3. CASE worker[w].group = g /\ W = Notified(g)
    BY <1>2, <2>3 DEF SleepsSoundly
  <2>4. CASE worker[w].group = g /\ W = worker /\ StayAsleep(g, b)
    BY <1>1, <1>2, <2>1, <2>4 DEF StayAsleep
  <2> QED BY <2>2, <2>3, <2>4
<1>5. ASSUME NothingComplete, StayLacking(g, b), NEW w \in Parked
      PROVE  StillLacking(group'[W[w].group], W[w])
  <2>1. StillLacking(group[worker[w].group], worker[w]) /\ worker[w].group \in Groups
    BY <1>2, <1>5 DEF NothingComplete, Waits
  <2>2. StillLacking(group'[worker[w].group], worker[w])
    BY <1>1, <1>5, <2>1 DEF StayLacking
  <2> QED BY <1>2, <2>2 DEF StillLacking
<1> QED BY <1>2, <1>3, <1>4, <1>5

\* What a step leaves to show when one group becomes b.
LEMMA GroupsKept ==
    ASSUME BarrierInv, NEW g \in Groups, NEW b, Sound(b), group' = [group EXCEPT ![g] = b]
    PROVE  /\ GroupsSound' /\ group'[g] = b /\ \A h \in Groups \ {g} : group'[h] = group[h]
           /\ b.next <= frames' /\ frames' \in {frames, frames + 1}
                 => \A h \in Groups : group'[h].next <= frames'
<1>1. group = [h \in Groups |-> group[h]]
  BY DEF BarrierInv, GroupsSound
<1>2. /\ group' = [h \in Groups |-> group'[h]] /\ group'[g] = b
      /\ \A h \in Groups \ {g} : group'[h] = group[h]
  BY <1>1
<1>3. GroupsSound'
  BY <1>2 DEF BarrierInv, GroupsSound
<1>4. ASSUME b.next <= frames', frames' \in {frames, frames + 1}, NEW h \in Groups
      PROVE  group'[h].next <= frames'
  <2>1. frames \in Nat /\ group[h].next <= frames /\ group[h].next \in Nat
    BY DEF BarrierInv, Counted, GroupsSound, Sound, GroupTypes
  <2>2. CASE h = g
    BY <1>2, <1>4, <2>2
  <2>3. CASE h # g
    <3>1. group'[h] = group[h]  BY <1>2, <2>3
    <3>2. group[h].next <= frames + 1  BY <2>1
    <3> QED BY <1>4, <2>1, <3>1, <3>2
  <2> QED BY <2>2, <2>3
<1> QED BY <1>2, <1>3, <1>4

\* No other camera's clock moves when c's group becomes b.
OthersClocksStay(c, b) ==
    \A d \in Cameras \ {c} : /\ b.newest[d] = group[GroupOf[c]].newest[d]
                            /\ b.backward[d] = group[GroupOf[c]].backward[d]

OthersKept(c) ==
    \A d \in Cameras \ {c} : group'[GroupOf[d]].backward[d] = group[GroupOf[d]].backward[d]

\* A frame is answered for its own camera, whose clock alone can have moved.
LEMMA AnsweredIs ==
    ASSUME BarrierInv, NEW c \in Cameras, NEW why, Answers(c, why), frames < MaxFrames,
           NEW b, group' = [group EXCEPT ![GroupOf[c]] = b],
           why = "backward" => b.backward[c] >= 1,
           OthersClocksStay(c, b)
    PROVE  RefusedOnce' /\ frames' = frames + 1 /\ frames' \in 0 .. MaxFrames /\ OthersKept(c)
<1>1. frames' = frames + 1 /\ frames' \in 0 .. MaxFrames
  BY BarrierAssumption DEF Answers, BarrierInv, Counted
<1>2. /\ last' = [d \in Cameras |-> last'[d]] /\ last'[c] = why
      /\ \A d \in Cameras \ {c} : last'[d] = last[d]
  BY DEF Answers, BarrierInv, RefusedOnce
<1>3. GroupOf[c] \in Groups /\ \A d \in Cameras : GroupOf[d] \in Groups
  BY BarrierAssumption
<1>4. /\ group'[GroupOf[c]] = b
      /\ \A h \in Groups \ {GroupOf[c]} : group'[h] = group[h]
  BY <1>3 DEF BarrierInv, GroupsSound
<1>5. ASSUME NEW d \in Cameras, last'[d] = "backward"
      PROVE  \/ group'[GroupOf[d]].newest[d] = Never
             \/ group'[GroupOf[d]].backward[d] >= 1
  <2>1. CASE d = c
    BY <1>2, <1>4, <1>5, <2>1
  <2>2. CASE d # c
    <3>1. /\ group'[GroupOf[d]].newest[d] = group[GroupOf[d]].newest[d]
          /\ group'[GroupOf[d]].backward[d] = group[GroupOf[d]].backward[d]
      BY <1>3, <1>4, <2>2 DEF OthersClocksStay
    <3>2. last[d] = "backward"
      BY <1>2, <1>5, <2>2
    <3> QED BY <3>1, <3>2 DEF BarrierInv, RefusedOnce
  <2> QED BY <2>1, <2>2
<1>6. OthersKept(c)
  BY <1>3, <1>4 DEF OthersKept, OthersClocksStay
<1> QED BY <1>1, <1>2, <1>5, <1>6 DEF RefusedOnce

\* When no frame comes, the clocks of the cameras stay, or are forgotten.
ClocksStay(g, b) ==
    \A d \in Cameras : \/ b.newest[d] = Never
                       \/ b.newest[d] = group[g].newest[d] /\ b.backward[d] = group[g].backward[d]

LEMMA ClocksKept ==
    ASSUME BarrierInv, NEW g \in Groups, NEW b, group' = [group EXCEPT ![g] = b],
           UNCHANGED last, ClocksStay(g, b)
    PROVE  RefusedOnce'
<1>1. group'[g] = b /\ \A h \in Groups \ {g} : group'[h] = group[h]
  BY DEF BarrierInv, GroupsSound
<1>2. \A d \in Cameras : GroupOf[d] \in Groups
  BY BarrierAssumption
<1> QED BY <1>1, <1>2 DEF BarrierInv, RefusedOnce, ClocksStay

\* A group becomes b, its workers are woken or not, and nobody stops waiting.
LEMMA BecameIs ==
    ASSUME BarrierInv, NEW g \in Groups, NEW b, Sound(b), group' = [group EXCEPT ![g] = b],
           worker' = Notified(g) \/ (worker' = worker /\ StayAsleep(g, b)),
           UNCHANGED held, RefusedOnce',
           b.next <= frames', frames' \in {frames, frames + 1}, frames' \in 0 .. MaxFrames
    PROVE  /\ BarrierInv'
           /\ NothingComplete /\ b.hooked /\ StayLacking(g, b) => NothingComplete'
<1>2. /\ GroupsSound' /\ group'[g] = b /\ \A h \in Groups \ {g} : group'[h] = group[h]
      /\ \A h \in Groups : group'[h].next <= frames'
  BY GroupsKept
<1> DEFINE W == worker'
<1>3. W = Notified(g) \/ (W = worker /\ StayAsleep(g, b))
  OBVIOUS
<1>4. Parked' = Busy(W)
  BY DEF Parked, Busy, Idle
<1> HIDE DEF W
<1>5. /\ W \in [Workers -> Waits \cup {Idle}] /\ Busy(W) = Parked
      /\ \A w \in Busy(W) : SleepsSoundly(group'[W[w].group], W[w])
      /\ NothingComplete /\ StayLacking(g, b)
         => \A w \in Busy(W) : StillLacking(group'[W[w].group], W[w])
  <2>1. W \in [Workers -> Waits \cup {Idle}]
    BY <1>3, Moved
  <2>2. Busy(W) = Parked
    BY <1>3, Moved
  <2>3. \A w \in Busy(W) : SleepsSoundly(group'[W[w].group], W[w])
    BY <1>3, Moved
  <2>4. NothingComplete /\ StayLacking(g, b)
         => \A w \in Busy(W) : StillLacking(group'[W[w].group], W[w])
    BY <1>3, Moved
  <2> QED BY <2>1, <2>2, <2>3, <2>4
<1>6. WorkersTyped' /\ SleepersKnow'
  BY <1>4, <1>5 DEF WorkersTyped, SleepersKnow, W, Waits, Idle, SleepsSoundly
<1>7. Counted'
  BY <1>2, <1>4, <1>5 DEF Counted, BarrierInv, Permits
<1>8. NothingComplete /\ b.hooked /\ StayLacking(g, b) => NothingComplete'
  BY <1>2, <1>4, <1>5 DEF NothingComplete, W, StillLacking, Reported
<1> QED BY <1>2, <1>6, <1>7, <1>8 DEF BarrierInv

-----------------------------------------------------------------------------
(* The steps of submit().                                                  *)

\* Who waits for an instant that the call found is as well off as before.
LEMMA FoundStays ==
    ASSUME BarrierInv, NEW c \in Cameras, NEW m,
           m.open = Found(c).open, m.live = Found(c).live
    PROVE  /\ StayAsleep(GroupOf[c], m)
           /\ group[GroupOf[c]].hooked => StayLacking(GroupOf[c], m)
<1> DEFINE g == GroupOf[c]
           b == group[g]
<1>1. /\ b.hooked => m.live = b.live
      /\ \A id \in DOMAIN m.open : id \in DOMAIN b.open /\ m.open[id] = b.open[id]
      /\ \A id \in DOMAIN b.open : Waiting(g, id) # {} => id \in DOMAIN m.open
  BY FoundIs
<1> HIDE DEF b, g
<1>2. \A w \in Parked : worker[w].group = g => w \in Waiting(g, worker[w].id)
  BY DEF Waiting, Parked
<1>3. StayAsleep(g, m)
  BY <1>1, <1>2 DEF StayAsleep, SleepsSoundly, b
<1>4. b.hooked => StayLacking(g, m)
  BY <1>1, <1>2 DEF StayLacking, StillLacking, b
<1> QED BY <1>3, <1>4 DEF g, b

LEMMA BackwardIs ==
    ASSUME NEW b, Sound(b), NEW c \in Cameras
    PROVE  LET m == [b EXCEPT !.backward[c] = @ + 1] IN
           /\ Sound(m) /\ m.open = b.open /\ m.live = b.live /\ m.next = b.next
           /\ m.hooked = b.hooked /\ m.newest = b.newest
           /\ m.backward[c] = b.backward[c] + 1 /\ m.backward[c] >= 1
           /\ \A d \in Cameras \ {c} : m.backward[d] = b.backward[d]
<1> DEFINE m == [b EXCEPT !.backward[c] = @ + 1]
<1>1. /\ Shaped(m) /\ m.open = b.open /\ m.next = b.next /\ m.ended = b.ended
      /\ m.announced = b.announced /\ m.hooked = b.hooked /\ m.seen = b.seen
      /\ m.live = b.live /\ m.max = b.max /\ m.closed = b.closed
      /\ m.newest = b.newest /\ m.backward = [b.backward EXCEPT ![c] = @ + 1]
  BY DEF Sound, Shaped
<1> HIDE DEF m
<1>2. b.backward \in [Cameras -> Nat]
  BY DEF Sound, GroupTypes
<1>3. /\ m.backward \in [Cameras -> Nat] /\ m.backward[c] = b.backward[c] + 1
      /\ m.backward[c] >= 1 /\ \A d \in Cameras \ {c} : m.backward[d] = b.backward[d]
  BY <1>1, <1>2
<1>4. GroupTypes(m)
  BY <1>1, <1>3 DEF Sound, GroupTypes
<1>5. Sound(m)
  BY <1>1, <1>4 DEF Sound, Accounted, IdsOf, Moments, Bounded, OldestFirst
<1> QED BY <1>1, <1>3, <1>5 DEF m

\* _close(): instant n leaves the map, whatever the association did.
LEMMA ClosedIs ==
    ASSUME NEW b, Sound(b), NEW n \in DOMAIN b.open, NEW why \in [{n} -> Whys],
           why[n] # "evicted", NEW ran \in BOOLEAN
    PROVE  LET e == End(b, {n}, why, ran) IN
           /\ Sound(e) /\ SameRest(e, b)
           /\ e.open = [id \in DOMAIN b.open \ {n} |-> b.open[id]]
<1> DEFINE I == {n}
<1>1. I \in SUBSET DOMAIN b.open /\ Shaped(b)
  BY DEF Sound
<1>2. why \in [I -> Whys] /\ \A id \in I : why[id] # "evicted"
  OBVIOUS
<1> HIDE DEF I
<1>3. Sound(End(b, I, why, ran))
  BY <1>1, <1>2, EndIsSound
<1>4. /\ SameRest(End(b, I, why, ran), b)
      /\ End(b, I, why, ran).open = [id \in DOMAIN b.open \ I |-> b.open[id]]
  BY <1>1, EndIs
<1> QED BY <1>3, <1>4 DEF I

LEMMA SubmitClosedKeeps ==
    ASSUME BarrierInv, NEW c \in Cameras, frames < MaxFrames, SubmitClosed(c)
    PROVE  BarrierInv' /\ (NothingComplete => NothingComplete') /\ OthersKept(c)
<1> DEFINE g == GroupOf[c]
           b == group[g]
<1>1. g \in Groups /\ Answers(c, "shutdown") /\ UNCHANGED <<group, worker, held>>
  BY BarrierAssumption DEF SubmitClosed
<1>2. Sound(b) /\ b.next <= frames /\ b.next \in Nat /\ group' = [group EXCEPT ![g] = b]
  BY <1>1 DEF BarrierInv, GroupsSound, Counted, Sound, GroupTypes
<1> HIDE DEF b
<1>3. RefusedOnce' /\ frames' = frames + 1 /\ frames' \in 0 .. MaxFrames /\ OthersKept(c)
  <2>1. OthersClocksStay(c, b)  BY DEF OthersClocksStay, b
  <2> DEFINE why == "shutdown"
  <2>2. why # "backward" /\ Answers(c, why)  BY <1>1
  <2> HIDE DEF why
  <2> QED BY <1>2, <2>1, <2>2, AnsweredIs
<1>4. b.next <= frames'
  BY <1>2, <1>3 DEF BarrierInv, Counted
<1>5. StayAsleep(g, b) /\ StayLacking(g, b)
  BY DEF StayAsleep, StayLacking, b
<1>6. NothingComplete => b.hooked
  BY <1>1 DEF NothingComplete, b
<1> HIDE DEF g
<1> QED BY <1>1, <1>2, <1>3, <1>4, <1>5, <1>6, BecameIs

LEMMA SubmitBackwardKeeps ==
    ASSUME BarrierInv, NEW c \in Cameras, NEW t \in Times, frames < MaxFrames,
           SubmitBackward(Found(c), c, t)
    PROVE  BarrierInv' /\ (NothingComplete => NothingComplete') /\ OthersKept(c)
<1> DEFINE g == GroupOf[c]
           f == Found(c)
           m == [f EXCEPT !.backward[c] = @ + 1]
<1>1. /\ Answers(c, "backward") /\ Becomes(g, m, Wakes(c)) /\ UNCHANGED held
  BY DEF SubmitBackward
<1>2. /\ g \in Groups /\ Sound(f) /\ f.next = group[g].next /\ f.hooked = group[g].hooked
      /\ f.newest = group[g].newest /\ f.backward = group[g].backward
  BY FoundIs
<1>3. group' = [group EXCEPT ![g] = m] /\ (worker' = Notified(g) \/ worker' = worker)
  BY <1>1 DEF Becomes
<1>4. /\ Sound(m) /\ m.open = f.open /\ m.live = f.live /\ m.next = f.next
      /\ m.hooked = f.hooked /\ m.newest = f.newest /\ m.backward[c] >= 1
      /\ \A d \in Cameras \ {c} : m.backward[d] = f.backward[d]
  <2> HIDE DEF f
  <2> QED BY <1>2, BackwardIs
<1> HIDE DEF m
<1>5. StayAsleep(g, m) /\ (group[g].hooked => StayLacking(g, m))
  BY <1>4, FoundStays
<1> HIDE DEF f
<1>6. m.backward[c] >= 1 /\ OthersClocksStay(c, m)
  BY <1>2, <1>4 DEF OthersClocksStay
<1>7. RefusedOnce' /\ frames' = frames + 1 /\ frames' \in 0 .. MaxFrames /\ OthersKept(c)
  BY <1>1, <1>3, <1>6, AnsweredIs
<1>8. m.next <= frames'
  <2>1. group[g].next <= frames /\ group[g].next \in Nat
    BY <1>2 DEF BarrierInv, Counted, GroupsSound, Sound, GroupTypes
  <2> QED BY <1>2, <1>4, <1>7, <2>1 DEF BarrierInv, Counted
<1>9. NothingComplete => m.hooked /\ group[g].hooked
  BY <1>2, <1>4 DEF NothingComplete
<1> HIDE DEF g
<1> QED BY <1>1, <1>2, <1>3, <1>4, <1>5, <1>7, <1>8, <1>9, BecameIs

LEMMA SubmitMissedKeeps ==
    ASSUME BarrierInv, NEW c \in Cameras, NEW t \in Times, frames < MaxFrames,
           SubmitMissed(Adopt(Found(c), c, t), c, t)
    PROVE  BarrierInv' /\ (NothingComplete => NothingComplete') /\ OthersKept(c)
<1> DEFINE g == GroupOf[c]
           f == Found(c)
           a == Adopt(f, c, t)
<1>1. /\ Answers(c, "late") \/ Answers(c, "duplicate")
      /\ Becomes(g, a, Wakes(c)) /\ UNCHANGED held
  BY DEF SubmitMissed
<1>2. PICK why : why # "backward" /\ Answers(c, why)
  BY <1>1
<1>3. group' = [group EXCEPT ![g] = a] /\ (worker' = Notified(g) \/ worker' = worker)
  BY <1>1 DEF Becomes
<1>4. /\ g \in Groups /\ Sound(f) /\ f.next = group[g].next /\ f.hooked = group[g].hooked
      /\ f.newest = group[g].newest /\ f.backward = group[g].backward
  BY FoundIs
<1> HIDE DEF f
<1>5. /\ Sound(a) /\ a.open = f.open /\ a.next = f.next /\ a.hooked = f.hooked
      /\ a.live = f.live
      /\ \A d \in Cameras \ {c} : a.newest[d] = f.newest[d] /\ a.backward[d] = f.backward[d]
  BY <1>4, AdoptIs
<1> HIDE DEF a
<1>6. StayAsleep(g, a) /\ (group[g].hooked => StayLacking(g, a))
  BY <1>5, FoundStays DEF f
<1>7. OthersClocksStay(c, a)
  BY <1>4, <1>5 DEF OthersClocksStay
<1>8. RefusedOnce' /\ frames' = frames + 1 /\ frames' \in 0 .. MaxFrames /\ OthersKept(c)
  BY <1>2, <1>3, <1>7, AnsweredIs
<1>9. a.next <= frames'
  <2>1. group[g].next <= frames /\ group[g].next \in Nat
    BY <1>4 DEF BarrierInv, Counted, GroupsSound, Sound, GroupTypes
  <2> QED BY <1>4, <1>5, <1>8, <2>1 DEF BarrierInv, Counted
<1>10. NothingComplete => a.hooked /\ group[g].hooked
  BY <1>4, <1>5 DEF NothingComplete
<1> HIDE DEF g
<1> QED BY <1>1, <1>3, <1>4, <1>5, <1>6, <1>8, <1>9, <1>10, BecameIs

\* The instant that everybody may be waiting for ends, and all are woken.
LEMMA SubmitClosesKeeps ==
    ASSUME BarrierInv, NEW c \in Cameras, NEW t \in Times, frames < MaxFrames,
           SubmitCloses(Enter(Adopt(Found(c), c, t), c, t), Chosen(Adopt(Found(c), c, t), c, t), c)
    PROVE  BarrierInv' /\ (NothingComplete => NothingComplete') /\ OthersKept(c)
<1> DEFINE g == GroupOf[c]
           b == group[g]
           a == Adopt(Found(c), c, t)
           e == Enter(a, c, t)
           n == Chosen(a, c, t)
<1>1. /\ g \in Groups /\ Sound(e) /\ e.next \in {b.next, b.next + 1} /\ e.hooked = b.hooked
      /\ n \in DOMAIN e.open
      /\ \A d \in Cameras \ {c} : e.newest[d] = b.newest[d] /\ e.backward[d] = b.backward[d]
      /\ \A w \in Parked : worker[w].group = g =>
            (b.hooked /\ StillLacking(b, worker[w]) /\ worker[w].id # n
                => StillLacking(e, worker[w]))
  BY FiledIs
<1>2. SubmitCloses(e, n, c)
  OBVIOUS
<1> HIDE DEF a, e, n, b
<1>3. PICK why \in {"complete", "window"} : Close(g, e, n, why)
  BY <1>2 DEF SubmitCloses
<1>5. PICK ran \in BOOLEAN :
         Becomes(g, End(e, {n}, [m \in {n} |-> IF ran THEN why ELSE "failed"], ran), TRUE)
  BY <1>3 DEF Close
<1> DEFINE whys == [m \in {n} |-> IF ran THEN why ELSE "failed"]
           z == End(e, {n}, whys, ran)
<1>4. whys \in [{n} -> Whys] /\ whys[n] # "evicted"
  BY DEF Whys, Seals
<1>6. group' = [group EXCEPT ![g] = z] /\ worker' = Notified(g)
  BY <1>5 DEF Becomes
<1> HIDE DEF whys
<1>7. /\ Sound(z) /\ SameRest(z, e) /\ z.open = [id \in DOMAIN e.open \ {n} |-> e.open[id]]
  BY <1>1, <1>4, ClosedIs
<1> HIDE DEF z
<1>8. Answers(c, "closed") /\ UNCHANGED held
  BY <1>2 DEF SubmitCloses
<1>9. OthersClocksStay(c, z)
  BY <1>1, <1>7 DEF OthersClocksStay, SameRest, b
<1>10. RefusedOnce' /\ frames' = frames + 1 /\ frames' \in 0 .. MaxFrames /\ OthersKept(c)
  <2> DEFINE say == "closed"
  <2>1. say # "backward" /\ Answers(c, say)  BY <1>8
  <2> HIDE DEF say
  <2> QED BY <1>6, <1>9, <2>1, AnsweredIs
<1>11. z.next <= frames'
  <2>1. b.next <= frames /\ b.next \in Nat
    BY <1>1 DEF BarrierInv, Counted, GroupsSound, Sound, GroupTypes, b
  <2> QED BY <1>1, <1>7, <1>10, <2>1 DEF BarrierInv, Counted, SameRest
<1>12. b.hooked => StayLacking(g, z)
  <2> SUFFICES ASSUME b.hooked, NEW w \in Parked, worker[w].group = g,
                      StillLacking(b, worker[w])
               PROVE  StillLacking(z, worker[w])
    BY DEF StayLacking, b
  <2>1. CASE worker[w].id = n
    BY <1>7, <2>1 DEF StillLacking
  <2>2. CASE worker[w].id # n
    <3>1. StillLacking(e, worker[w])
      BY <1>1, <2>2
    <3> QED BY <1>7, <3>1 DEF StillLacking, SameRest
  <2> QED BY <2>1, <2>2
<1>13. NothingComplete => z.hooked /\ b.hooked
  BY <1>1, <1>7 DEF NothingComplete, SameRest, b
<1> HIDE DEF g
<1> QED BY <1>1, <1>6, <1>7, <1>8, <1>10, <1>11, <1>12, <1>13, BecameIs

\* A frame that is filed and not the last: what its group shows those that wait.
LEMMA FiledStays ==
    ASSUME BarrierInv, NEW c \in Cameras, NEW t \in Times, NEW a, NEW e, NEW n,
           a = Adopt(Found(c), c, t), e = Enter(a, c, t), n = Chosen(a, c, t),
           ~IsComplete(e, n)
    PROVE  /\ GroupOf[c] \in Groups /\ Sound(e) /\ OthersClocksStay(c, e)
           /\ e.next <= frames + 1 /\ e.next \in Nat /\ e.hooked = group[GroupOf[c]].hooked
           /\ n \in DOMAIN e.open /\ ~e.open[n].ready /\ n \in Nat
           /\ ~PlacingWakes(a, c, t) => StayAsleep(GroupOf[c], e)
           /\ group[GroupOf[c]].hooked => StayLacking(GroupOf[c], e)
<1> DEFINE g == GroupOf[c]
           b == group[g]
<1>1. /\ g \in Groups /\ Sound(e) /\ e.next \in {b.next, b.next + 1} /\ e.hooked = b.hooked
      /\ n \in DOMAIN e.open /\ ~e.open[n].ready
      /\ \A d \in Cameras \ {c} : e.newest[d] = b.newest[d] /\ e.backward[d] = b.backward[d]
      /\ \A w \in Parked : worker[w].group = g =>
            /\ SleepsSoundly(b, worker[w]) /\ ~PlacingWakes(a, c, t)
                  => SleepsSoundly(e, worker[w])
            /\ b.hooked /\ StillLacking(b, worker[w]) /\ worker[w].id # n
                  => StillLacking(e, worker[w])
  BY FiledIs
<1> HIDE DEF b
<1>2. b.next <= frames /\ b.next \in Nat /\ frames \in Nat
  BY <1>1 DEF BarrierInv, Counted, GroupsSound, Sound, GroupTypes, b
<1>3. e.next <= frames + 1 /\ e.next \in Nat
  BY <1>1, <1>2
<1>4. ~PlacingWakes(a, c, t) => StayAsleep(g, e)
  BY <1>1 DEF StayAsleep, b
<1>5. b.hooked => StayLacking(g, e)
  <2> SUFFICES ASSUME b.hooked, NEW w \in Parked, worker[w].group = g,
                      StillLacking(b, worker[w])
               PROVE  StillLacking(e, worker[w])
    BY DEF StayLacking, b
  <2>1. CASE worker[w].id = n
    BY <2>1 DEF StillLacking, IsComplete
  <2>2. CASE worker[w].id # n
    BY <1>1, <2>2
  <2> QED BY <2>1, <2>2
<1>6. OthersClocksStay(c, e)
  BY <1>1 DEF OthersClocksStay, b
<1>7. n \in Nat
  BY <1>1, OpenIsFinite DEF Sound
<1> QED BY <1>1, <1>3, <1>4, <1>5, <1>6, <1>7 DEF b, g

LEMMA SubmitStarvesKeeps ==
    ASSUME BarrierInv, NEW c \in Cameras, NEW t \in Times, frames < MaxFrames,
           NEW a, NEW e, NEW n,
           a = Adopt(Found(c), c, t), e = Enter(a, c, t), n = Chosen(a, c, t),
           SubmitStarves(e, n, c, PlacingWakes(a, c, t))
    PROVE  BarrierInv' /\ (NothingComplete => NothingComplete') /\ OthersKept(c)
<1> DEFINE g == GroupOf[c]
<1>1. ~IsComplete(e, n) /\ UNCHANGED held /\ Answers(c, "would_starve")
      /\ Becomes(g, e, PlacingWakes(a, c, t))
  BY DEF SubmitStarves
<1>2. /\ g \in Groups /\ Sound(e) /\ OthersClocksStay(c, e)
      /\ e.next <= frames + 1 /\ e.hooked = group[g].hooked
      /\ ~PlacingWakes(a, c, t) => StayAsleep(g, e)
      /\ group[g].hooked => StayLacking(g, e)
  BY <1>1, FiledStays
<1>3. /\ group' = [group EXCEPT ![g] = e]
      /\ worker' = Notified(g) \/ (worker' = worker /\ StayAsleep(g, e))
  BY <1>1, <1>2 DEF Becomes
<1>4. RefusedOnce' /\ frames' = frames + 1 /\ frames' \in 0 .. MaxFrames /\ OthersKept(c)
  <2> DEFINE say == "would_starve"
  <2>1. say # "backward" /\ Answers(c, say)  BY <1>1
  <2> HIDE DEF say
  <2> QED BY <1>2, <1>3, <2>1, AnsweredIs
<1>5. NothingComplete => e.hooked /\ group[g].hooked
  BY <1>2 DEF NothingComplete
<1> HIDE DEF g
<1> QED BY <1>1, <1>2, <1>3, <1>4, <1>5, BecameIs

\* One worker more waits, and holds the permit that was left.
LEMMA SubmitWaitsKeeps ==
    ASSUME BarrierInv, NEW c \in Cameras, NEW t \in Times, frames < MaxFrames,
           NEW a, NEW e, NEW n,
           a = Adopt(Found(c), c, t), e = Enter(a, c, t), n = Chosen(a, c, t),
           SubmitWaits(e, n, c, PlacingWakes(a, c, t))
    PROVE  BarrierInv' /\ (NothingComplete => NothingComplete') /\ OthersKept(c)
<1> DEFINE g == GroupOf[c]
           W == IF PlacingWakes(a, c, t) THEN Notified(g) ELSE worker
           new == [at |-> "asleep", group |-> g, id |-> n]
<1>1. /\ ~IsComplete(e, n) /\ held < Permits /\ held' = held + 1 /\ Answers(c, "waiting")
      /\ group' = [group EXCEPT ![g] = e]
  BY DEF SubmitWaits, PermitLeft
<1>2. PICK v \in Workers \ Parked : worker' = [W EXCEPT ![v] = new]
  BY DEF SubmitWaits
<1>3. /\ g \in Groups /\ Sound(e) /\ OthersClocksStay(c, e)
      /\ e.next <= frames + 1 /\ e.hooked = group[g].hooked
      /\ n \in DOMAIN e.open /\ ~e.open[n].ready /\ n \in Nat
      /\ ~PlacingWakes(a, c, t) => StayAsleep(g, e)
      /\ group[g].hooked => StayLacking(g, e)
  BY <1>1, FiledStays
<1>4. W = Notified(g) \/ (W = worker /\ StayAsleep(g, e))
  BY <1>3
<1>5. new \in Waits /\ new # Idle /\ new.group = g /\ new.id = n
  BY <1>3, IdleIs DEF Waits
<1> HIDE DEF W, g
<1>6. W \in [Workers -> Waits \cup {Idle}]
  BY <1>1, <1>3, <1>4, Moved
<1>7. Busy(W) = Parked
  BY <1>1, <1>3, <1>4, Moved
<1>8. \A w \in Busy(W) : SleepsSoundly(group'[W[w].group], W[w])
  BY <1>1, <1>3, <1>4, Moved
<1>9. NothingComplete /\ StayLacking(g, e)
         => \A w \in Busy(W) : StillLacking(group'[W[w].group], W[w])
  BY <1>1, <1>3, <1>4, Moved
<1>10. /\ GroupsSound' /\ group'[g] = e /\ \A h \in Groups \ {g} : group'[h] = group[h]
       /\ e.next <= frames' /\ frames' \in {frames, frames + 1}
             => \A h \in Groups : group'[h].next <= frames'
  BY <1>1, <1>3, GroupsKept
<1>11. RefusedOnce' /\ frames' = frames + 1 /\ frames' \in 0 .. MaxFrames /\ OthersKept(c)
  <2> DEFINE say == "waiting"
  <2>1. say # "backward" /\ Answers(c, say)  BY <1>1
  <2>2. group' = [group EXCEPT ![GroupOf[c]] = e]  BY <1>1 DEF g
  <2> HIDE DEF say
  <2> QED BY <1>3, <2>1, <2>2, AnsweredIs
<1> HIDE DEF new
<1>12. /\ worker' \in [Workers -> Waits \cup {Idle}] /\ worker'[v] = new
       /\ \A w \in Workers \ {v} : worker'[w] = W[w]
  BY <1>2, <1>5, <1>6
<1>13. Parked' = Parked \cup {v} /\ v \notin Parked
  <2>1. Parked' = {w \in Workers : worker'[w] # Idle}
    BY DEF Parked, Idle
  <2> QED BY <1>2, <1>5, <1>7, <1>12, <2>1 DEF Busy
<1>14. Counted'
  <2>1. IsFiniteSet(Parked) /\ Cardinality(Parked) \in Nat
    BY <1>7, BusyIs
  <2>2. Cardinality(Parked') = Cardinality(Parked) + 1
    BY <1>13, <2>1, FS_AddElement
  <2>3. Permits' = Permits /\ Permits \in Nat
    BY PermitsAreNat DEF Permits
  <2>4. held = Cardinality(Parked)
    BY DEF BarrierInv, Counted
  <2> QED BY <1>1, <1>3, <1>10, <1>11, <2>1, <2>2, <2>3, <2>4 DEF Counted
<1>15. ASSUME NEW w \in Parked'
       PROVE  /\ SleepsSoundly(group'[worker'[w].group], worker'[w])
              /\ NothingComplete => StillLacking(group'[worker'[w].group], worker'[w])
  <2>1. CASE w = v
    <3>1. worker'[w] = new /\ group'[worker'[w].group] = e
      BY <1>5, <1>10, <1>12, <2>1
    <3> QED BY <1>1, <1>3, <1>5, <3>1 DEF SleepsSoundly, StillLacking, IsComplete
  <2>2. CASE w # v
    <3>1. w \in Busy(W) /\ w \in Workers /\ worker'[w] = W[w]
      BY <1>7, <1>12, <1>13, <2>2 DEF Busy
    <3>2. NothingComplete => StayLacking(g, e)
      BY <1>3 DEF NothingComplete
    <3> QED BY <1>8, <1>9, <3>1, <3>2
  <2> QED BY <2>1, <2>2
<1>16. SleepersKnow' /\ (NothingComplete => \A w \in Parked' :
                            StillLacking(group'[worker'[w].group], worker'[w]))
  BY <1>15 DEF SleepersKnow, SleepsSoundly
<1>17. WorkersTyped'
  BY <1>12 DEF WorkersTyped, Waits, Idle
<1>18. NothingComplete => NothingComplete'
  <2>1. NothingComplete => \A h \in Groups : group'[h].hooked
    BY <1>3, <1>10 DEF NothingComplete
  <2>2. ASSUME \A h \in Groups : group'[h].hooked,
               \A w \in Parked' : StillLacking(group'[worker'[w].group], worker'[w])
        PROVE  NothingComplete'
    BY <2>2 DEF NothingComplete
  <2> QED BY <1>16, <2>1, <2>2
<1> QED BY <1>10, <1>11, <1>14, <1>16, <1>17, <1>18 DEF BarrierInv

LEMMA SubmitKeeps ==
    ASSUME BarrierInv, NEW c \in Cameras, NEW t \in Times, Submit(c, t)
    PROVE  BarrierInv' /\ (NothingComplete => NothingComplete') /\ OthersKept(c)
<1> DEFINE f == Found(c)
           a == Adopt(f, c, t)
           e == Enter(a, c, t)
           n == Chosen(a, c, t)
<1>1. frames < MaxFrames
  BY DEF Submit
<1>2. \/ SubmitClosed(c) \/ SubmitBackward(f, c, t) \/ SubmitMissed(a, c, t)
      \/ SubmitCloses(e, n, c) \/ SubmitWaits(e, n, c, PlacingWakes(a, c, t))
      \/ SubmitStarves(e, n, c, PlacingWakes(a, c, t))
  BY DEF Submit
<1>3. CASE SubmitClosed(c)
  BY <1>1, <1>3, SubmitClosedKeeps
<1>4. CASE SubmitBackward(f, c, t)
  BY <1>1, <1>4, SubmitBackwardKeeps
<1>5. CASE SubmitMissed(a, c, t)
  BY <1>1, <1>5, SubmitMissedKeeps
<1>6. CASE SubmitCloses(e, n, c)
  BY <1>1, <1>6, SubmitClosesKeeps
<1> DEFINE wakes == PlacingWakes(a, c, t)
<1>7. a = Adopt(Found(c), c, t) /\ e = Enter(a, c, t) /\ n = Chosen(a, c, t)
  OBVIOUS
<1> HIDE DEF a, e, n
<1>8. CASE SubmitWaits(e, n, c, PlacingWakes(a, c, t))
  BY <1>1, <1>7, <1>8, SubmitWaitsKeeps
<1>9. CASE SubmitStarves(e, n, c, PlacingWakes(a, c, t))
  BY <1>1, <1>7, <1>9, SubmitStarvesKeeps
<1> QED BY <1>2, <1>3, <1>4, <1>5, <1>6, <1>8, <1>9

-----------------------------------------------------------------------------
(* The end of a wait.                                                      *)

\* One worker alone wakes, or sleeps on: nothing else changes.
LEMMA WorkerTurns ==
    ASSUME BarrierInv, NEW w \in Parked, NEW at \in {"asleep", "awake"},
           worker' = [worker EXCEPT ![w].at = at], UNCHANGED <<group, held, frames, last>>,
           at = "asleep" => IsOpen(w) /\ ~Bucket(w).ready
    PROVE  BarrierInv' /\ (NothingComplete => NothingComplete')
<1> DEFINE x == [worker[w] EXCEPT !.at = at]
<1>1. w \in Workers /\ worker[w] \in Waits /\ worker[w] # Idle
  BY DEF Parked, BarrierInv, WorkersTyped
<1>2. /\ worker'[w] = x /\ \A v \in Workers \ {w} : worker'[v] = worker[v]
      /\ worker' = [v \in Workers |-> worker'[v]]
  BY <1>1 DEF BarrierInv, WorkersTyped
<1>3. x \in Waits /\ x.at = at /\ x.group = worker[w].group /\ x.id = worker[w].id
  BY <1>1 DEF Waits
<1> HIDE DEF x
<1>4. \A v \in Workers : worker'[v] \in Waits \cup {Idle} /\ (worker'[v] # Idle <=> worker[v] # Idle)
  BY <1>1, <1>2, <1>3, IdleIs DEF BarrierInv, WorkersTyped
<1>5. Parked' = Parked
  BY <1>4 DEF Parked, Idle
<1>6. WorkersTyped'
  BY <1>2, <1>4 DEF WorkersTyped, Waits, Idle
<1>7. GroupsSound'
  BY DEF BarrierInv, GroupsSound
<1>8. Counted' /\ RefusedOnce'
  BY <1>5 DEF BarrierInv, Counted, RefusedOnce, Permits
<1>9. ASSUME NEW v \in Parked PROVE SleepsSoundly(group[worker'[v].group], worker'[v])
  <2>1. CASE v = w
    BY <1>2, <1>3, <2>1 DEF SleepsSoundly, IsOpen, Bucket
  <2>2. CASE v # w
    BY <1>2, <2>2 DEF BarrierInv, SleepersKnow, Parked
  <2> QED BY <2>1, <2>2
<1>10. SleepersKnow'
  BY <1>5, <1>9 DEF SleepersKnow
<1>11. ASSUME NothingComplete, NEW v \in Parked
       PROVE  StillLacking(group[worker'[v].group], worker'[v])
  <2>1. StillLacking(group[worker[v].group], worker[v])
    BY <1>11 DEF NothingComplete
  <2>2. worker'[v].group = worker[v].group /\ worker'[v].id = worker[v].id
    BY <1>2, <1>3 DEF Parked
  <2> QED BY <2>1, <2>2 DEF StillLacking
<1>12. NothingComplete => NothingComplete'
  <2>1. NothingComplete => \A h \in Groups : group'[h].hooked
    BY DEF NothingComplete
  <2>2. NothingComplete => \A v \in Parked' : StillLacking(group'[worker'[v].group], worker'[v])
    BY <1>5, <1>11
  <2>3. ASSUME \A h \in Groups : group'[h].hooked,
               \A v \in Parked' : StillLacking(group'[worker'[v].group], worker'[v])
        PROVE  NothingComplete'
    BY <2>3 DEF NothingComplete
  <2> QED BY <2>1, <2>2, <2>3
<1> QED BY <1>6, <1>7, <1>8, <1>10, <1>12 DEF BarrierInv

LEMMA TimesOutKeeps ==
    ASSUME BarrierInv, NEW w \in Parked, TimesOut(w)
    PROVE  BarrierInv' /\ (NothingComplete => NothingComplete')
BY WorkerTurns DEF TimesOut

LEMMA SleepsAgainKeeps ==
    ASSUME BarrierInv, NEW w \in Parked, SleepsAgain(w)
    PROVE  BarrierInv' /\ (NothingComplete => NothingComplete')
BY WorkerTurns DEF SleepsAgain

\* A worker leaves with its permit; the others are as they are, or as woken.
LEMMA WorkerLeaves ==
    ASSUME BarrierInv, NEW w \in Parked, NEW W, W \in [Workers -> Waits \cup {Idle}],
           Busy(W) = Parked, worker' = [W EXCEPT ![w] = Idle], held' = held - 1,
           UNCHANGED <<frames, last>>, GroupsSound', RefusedOnce',
           \A g \in Groups : group'[g].next <= frames,
           \A v \in Busy(W) : SleepsSoundly(group'[W[v].group], W[v])
    PROVE  /\ BarrierInv'
           /\ (\A g \in Groups : group'[g].hooked)
              /\ (\A v \in Busy(W) : StillLacking(group'[W[v].group], W[v]))
              => NothingComplete'
<1>1. w \in Workers
  BY DEF Parked
<1>2. /\ worker'[w] = Idle /\ \A v \in Workers \ {w} : worker'[v] = W[v]
      /\ worker' \in [Workers -> Waits \cup {Idle}]
  BY <1>1
<1>3. Parked' = Parked \ {w}
  <2>1. Parked' = {v \in Workers : worker'[v] # Idle}
    BY DEF Parked, Idle
  <2>2. \A v \in Workers : W[v] # Idle <=> v \in Parked
    BY DEF Busy
  <2> QED BY <1>1, <1>2, <2>1, <2>2 DEF Parked
<1>4. Counted'
  <2>1. IsFiniteSet(Parked) /\ Cardinality(Parked) \in Nat
    BY BusyIs
  <2>2. Cardinality(Parked') = Cardinality(Parked) - 1
    BY <1>3, <2>1, FS_RemoveElement
  <2>3. Permits' = Permits /\ Permits \in Nat
    BY PermitsAreNat DEF Permits
  <2>4. held = Cardinality(Parked) /\ held <= Permits /\ frames \in 0 .. MaxFrames
    BY DEF BarrierInv, Counted
  <2> QED BY <2>1, <2>2, <2>3, <2>4 DEF Counted
<1>5. \A v \in Parked' : v \in Busy(W) /\ worker'[v] = W[v]
  BY <1>2, <1>3 DEF Parked
<1>6. SleepersKnow'
  <2>1. \A v \in Parked' : SleepsSoundly(group'[worker'[v].group], worker'[v])
    BY <1>5
  <2> QED BY <2>1 DEF SleepersKnow
<1>7. WorkersTyped'
  BY <1>2 DEF WorkersTyped, Waits, Idle
<1>8. ASSUME \A g \in Groups : group'[g].hooked,
             \A v \in Busy(W) : StillLacking(group'[W[v].group], W[v])
      PROVE  NothingComplete'
  <2>1. \A v \in Parked' : StillLacking(group'[worker'[v].group], worker'[v])
    BY <1>5, <1>8
  <2> QED BY <1>8, <2>1 DEF NothingComplete
<1> QED BY <1>4, <1>6, <1>7, <1>8 DEF BarrierInv

LEMMA ReturnsOutcomeKeeps ==
    ASSUME BarrierInv, NEW w \in Parked, ReturnsOutcome(w)
    PROVE  BarrierInv' /\ (NothingComplete => NothingComplete')
<1> DEFINE W == worker
<1>1. worker' = [W EXCEPT ![w] = Idle] /\ held' = held - 1 /\ UNCHANGED <<group, frames, last>>
  BY DEF ReturnsOutcome
<1>2. W \in [Workers -> Waits \cup {Idle}] /\ Busy(W) = Parked
  BY DEF BarrierInv, WorkersTyped, Busy, Parked
<1>3. \A v \in Busy(W) : SleepsSoundly(group'[W[v].group], W[v])
  BY <1>1, <1>2 DEF BarrierInv, SleepersKnow
<1>4. NothingComplete => /\ \A g \in Groups : group'[g].hooked
                         /\ \A v \in Busy(W) : StillLacking(group'[W[v].group], W[v])
  BY <1>1, <1>2 DEF NothingComplete
<1>5. GroupsSound' /\ RefusedOnce' /\ \A g \in Groups : group'[g].next <= frames
  BY <1>1 DEF BarrierInv, GroupsSound, RefusedOnce, Counted
<1> HIDE DEF W
<1>6. BarrierInv'
  BY <1>1, <1>2, <1>3, <1>5, WorkerLeaves
<1>7. NothingComplete => NothingComplete'
  BY <1>1, <1>2, <1>3, <1>4, <1>5, WorkerLeaves
<1> QED BY <1>6, <1>7

\* The closer takes its instant off the map, and wakes the others of its group.
LEMMA ClosesInstantKeeps ==
    ASSUME BarrierInv, NEW w \in Parked, ClosesInstant(w)
    PROVE  BarrierInv' /\ (NothingComplete => NothingComplete')
<1> DEFINE g == worker[w].group
           b == group[g]
           n == worker[w].id
           why == IF Bucket(w).ready THEN Bucket(w).sealed ELSE "window"
           W == Notified(g)
<1>1. w \in Workers /\ worker[w] \in Waits /\ g \in Groups
  BY DEF Parked, BarrierInv, WorkersTyped, Waits
<1>2. Sound(b) /\ b.next <= frames
  BY <1>1 DEF BarrierInv, GroupsSound, Counted
<1>3. n \in DOMAIN b.open /\ Bucket(w) = b.open[n]
  BY DEF ClosesInstant, IsOpen, Bucket
<1>4. why \in Seals \cup {"window"}
  BY <1>2, <1>3 DEF Sound, GroupTypes, Buckets
<1>5. PICK ran \in BOOLEAN :
         group' = [group EXCEPT ![g] = End(@, {n}, [m \in {n} |-> IF ran THEN why ELSE "failed"], ran)]
  BY DEF ClosesInstant
<1> HIDE DEF why
<1> DEFINE whys == [m \in {n} |-> IF ran THEN why ELSE "failed"]
           z == End(b, {n}, whys, ran)
<1>6. whys \in [{n} -> Whys] /\ whys[n] # "evicted"
  BY <1>4 DEF Whys, Seals
<1>7. group' = [group EXCEPT ![g] = z]
  BY <1>1, <1>5 DEF BarrierInv, GroupsSound
<1>8. worker' = [W EXCEPT ![w] = Idle] /\ held' = held - 1 /\ UNCHANGED <<frames, last>>
  BY DEF ClosesInstant
<1> HIDE DEF whys, W, b, n
<1>9. /\ Sound(z) /\ SameRest(z, b) /\ z.open = [id \in DOMAIN b.open \ {n} |-> b.open[id]]
  BY <1>2, <1>3, <1>6, ClosedIs
<1> HIDE DEF z
<1>10. StayLacking(g, z)
  <2> SUFFICES ASSUME NEW v \in Parked, StillLacking(b, worker[v])
               PROVE  StillLacking(z, worker[v])
    BY DEF StayLacking, b
  <2> QED BY <1>9 DEF StillLacking, SameRest
<1> HIDE DEF g
<1>11. W = Notified(g) \/ (W = worker /\ StayAsleep(g, z))
  BY DEF W
<1>12. W \in [Workers -> Waits \cup {Idle}]
  BY <1>1, <1>7, <1>11, Moved
<1>13. Busy(W) = Parked
  BY <1>1, <1>7, <1>11, Moved
<1>14. \A v \in Busy(W) : SleepsSoundly(group'[W[v].group], W[v])
  BY <1>1, <1>7, <1>11, Moved
<1>15. NothingComplete => \A v \in Busy(W) : StillLacking(group'[W[v].group], W[v])
  BY <1>1, <1>7, <1>10, <1>11, Moved
<1>16. /\ GroupsSound' /\ group'[g] = z /\ \A h \in Groups \ {g} : group'[h] = group[h]
  BY <1>1, <1>7, <1>9, GroupsKept
<1>17. NothingComplete => \A h \in Groups : group'[h].hooked
  BY <1>9, <1>16 DEF NothingComplete, SameRest, b
<1>18. \A h \in Groups : group'[h].next <= frames
  BY <1>2, <1>9, <1>16 DEF BarrierInv, Counted, SameRest
<1>19. RefusedOnce'
  <2>1. ClocksStay(g, z)
    BY <1>9 DEF SameRest, b, ClocksStay
  <2> QED BY <1>1, <1>7, <1>8, <2>1, ClocksKept
<1>20. BarrierInv'
  BY <1>8, <1>12, <1>13, <1>14, <1>16, <1>18, <1>19, WorkerLeaves
<1>21. NothingComplete => NothingComplete'
  BY <1>8, <1>12, <1>13, <1>14, <1>15, <1>16, <1>17, <1>18, <1>19, WorkerLeaves
<1> QED BY <1>20, <1>21

\* A deadline says nothing of what is in the instant.
LEMMA ExpireKeeps ==
    ASSUME BarrierInv, NEW g \in Groups, Expire(g)
    PROVE  BarrierInv' /\ (NothingComplete => NothingComplete')
<1> DEFINE b == group[g]
<1>1. PICK n \in DOMAIN b.open : group' = [group EXCEPT ![g].open[n].expired = TRUE]
  BY DEF Expire
<1>2. UNCHANGED <<worker, held, frames, last>>
  BY DEF Expire
<1> DEFINE k == [b.open[n] EXCEPT !.expired = TRUE]
           z == [b EXCEPT !.open = [@ EXCEPT ![n] = k]]
<1>3. group' = [group EXCEPT ![g] = z]
  BY <1>1 DEF BarrierInv, GroupsSound
<1>4. Sound(b) /\ b.next <= frames /\ b.next \in Nat
  BY DEF BarrierInv, GroupsSound, Counted, Sound, GroupTypes
<1>5. b.open[n] \in Buckets /\ OneMoment(b.open[n])
  BY <1>4 DEF Sound, GroupTypes, Moments
<1> HIDE DEF b
<1>6. k \in Buckets /\ k.entries = b.open[n].entries /\ k.ready = b.open[n].ready
  BY <1>5 DEF Buckets
<1>7. OneMoment(k) /\ Reported(k) = Reported(b.open[n])
  BY <1>5, <1>6 DEF OneMoment, Captures, Reported
<1> HIDE DEF k
<1>8. /\ Shaped(z) /\ z.open = [b.open EXCEPT ![n] = k] /\ z.next = b.next /\ z.ended = b.ended
      /\ z.announced = b.announced /\ z.seen = b.seen /\ z.hooked = b.hooked
      /\ z.live = b.live /\ z.max = b.max /\ z.newest = b.newest /\ z.backward = b.backward
  BY <1>4 DEF Sound, Shaped
<1> HIDE DEF z
<1>9. /\ DOMAIN z.open = DOMAIN b.open /\ z.open[n] = k
      /\ \A id \in DOMAIN b.open \ {n} : z.open[id] = b.open[id]
  BY <1>4, <1>8 DEF Sound, Shaped
<1>10. Sound(z)
  <2>1. \A id \in DOMAIN z.open : z.open[id] \in Buckets /\ OneMoment(z.open[id])
    BY <1>4, <1>6, <1>7, <1>9 DEF Sound, GroupTypes, Moments
  <2>2. GroupTypes(z) /\ Moments(z)
    BY <1>4, <1>8, <2>1 DEF Sound, GroupTypes, Moments
  <2>3. Accounted(z) /\ Bounded(z) /\ OldestFirst(z)
    BY <1>4, <1>8, <1>9 DEF Sound, Accounted, IdsOf, Bounded, OldestFirst
  <2> QED BY <1>8, <2>2, <2>3 DEF Sound
<1>11. StayAsleep(g, z) /\ StayLacking(g, z)
  BY <1>6, <1>7, <1>8, <1>9 DEF StayAsleep, SleepsSoundly, StayLacking, StillLacking, b
<1>12. RefusedOnce'
  <2>1. ClocksStay(g, z)
    BY <1>8 DEF b, ClocksStay
  <2> QED BY <1>2, <1>3, <2>1, ClocksKept
<1>13. frames' \in 0 .. MaxFrames /\ frames' = frames /\ z.next <= frames'
  BY <1>2, <1>4, <1>8 DEF BarrierInv, Counted
<1>14. NothingComplete => z.hooked
  BY <1>8 DEF NothingComplete, b
<1> QED BY <1>2, <1>3, <1>10, <1>11, <1>12, <1>13, <1>14, BecameIs

-----------------------------------------------------------------------------
(* The runner's lifecycle thread.                                          *)

\* A camera more to wait for completes nothing.
LEMMA CameraAddedKeeps ==
    ASSUME BarrierInv, NEW c \in Cameras, CameraAdded(c)
    PROVE  BarrierInv' /\ (NothingComplete => NothingComplete')
<1> DEFINE g == GroupOf[c]
           b == group[g]
           m == [b EXCEPT !.hooked = TRUE, !.announced = @ \cup {c}]
           z == Refresh(m)
<1>1. g \in Groups /\ UNCHANGED <<worker, held, frames, last>>
  BY BarrierAssumption DEF CameraAdded
<1>2. group' = [group EXCEPT ![g] = z]
  BY DEF CameraAdded
<1>3. Sound(b) /\ b.next <= frames /\ b.next \in Nat
  BY <1>1 DEF BarrierInv, GroupsSound, Counted, Sound, GroupTypes
<1> HIDE DEF b
<1>4. /\ Shaped(m) /\ m.open = b.open /\ m.next = b.next /\ m.ended = b.ended
      /\ m.announced = b.announced \cup {c} /\ m.seen = b.seen /\ m.hooked = TRUE
      /\ m.newest = b.newest /\ m.backward = b.backward
  BY <1>3 DEF Sound, Shaped
<1> HIDE DEF m, g
<1>5. Sound(z)
  BY <1>3, <1>4, RosterIsSound DEF Sound, GroupTypes
<1>6. /\ z.open = b.open /\ z.next = b.next /\ z.hooked /\ z.live = b.announced \cup {c}
      /\ z.newest = b.newest /\ z.backward = b.backward
  BY <1>4, RefreshIs
<1> HIDE DEF z
<1>7. StayAsleep(g, z)
  BY <1>6 DEF StayAsleep, SleepsSoundly, b
<1>8. b.hooked => StayLacking(g, z)
  <2> SUFFICES ASSUME b.hooked, NEW w \in Parked, StillLacking(b, worker[w])
               PROVE  StillLacking(z, worker[w])
    BY DEF StayLacking, b
  <2>1. b.live \subseteq z.live
    BY <1>3, <1>6 DEF Sound, GroupTypes
  <2> QED BY <1>6, <2>1 DEF StillLacking
<1>9. RefusedOnce'
  <2>1. ClocksStay(g, z)
    BY <1>6 DEF b, ClocksStay
  <2> QED BY <1>1, <1>2, <2>1, ClocksKept
<1>10. frames' \in 0 .. MaxFrames /\ frames' = frames /\ z.next <= frames'
  BY <1>1, <1>3, <1>6 DEF BarrierInv, Counted
<1>11. NothingComplete => b.hooked
  BY <1>1 DEF NothingComplete, b
<1> QED BY <1>1, <1>2, <1>5, <1>6, <1>7, <1>8, <1>9, <1>10, <1>11, BecameIs

\* The map with other seals on the same entries.
LEMMA RemappedIs ==
    ASSUME NEW b, Sound(b), NEW map, DOMAIN map = DOMAIN b.open,
           map = [id \in DOMAIN map |-> map[id]],
           \A id \in DOMAIN map : map[id] \in Buckets /\ map[id].entries = b.open[id].entries
    PROVE  LET z == [b EXCEPT !.open = map] IN
           /\ Sound(z) /\ z.open = map /\ z.next = b.next /\ z.hooked = b.hooked
           /\ z.live = b.live /\ z.newest = b.newest /\ z.backward = b.backward
<1> DEFINE z == [b EXCEPT !.open = map]
<1>1. /\ Shaped(z) /\ z.open = map /\ z.next = b.next /\ z.ended = b.ended
      /\ z.announced = b.announced /\ z.seen = b.seen /\ z.hooked = b.hooked
      /\ z.live = b.live /\ z.max = b.max /\ z.newest = b.newest /\ z.backward = b.backward
  BY DEF Sound, Shaped
<1> HIDE DEF z
<1>2. \A id \in DOMAIN map : OneMoment(map[id])
  <2> TAKE id \in DOMAIN map
  <2>1. OneMoment(b.open[id])  BY DEF Sound, Moments
  <2> QED BY <2>1 DEF OneMoment, Captures
<1>3. GroupTypes(z) /\ Moments(z)
  BY <1>1, <1>2 DEF Sound, GroupTypes, Moments
<1>4. Accounted(z) /\ Bounded(z) /\ OldestFirst(z)
  BY <1>1 DEF Sound, Accounted, IdsOf, Bounded, OldestFirst
<1> QED BY <1>1, <1>3, <1>4 DEF Sound, z

\* Those that are complete without the camera are sealed, and their waiters woken.
LEMMA DropCameraKeeps ==
    ASSUME BarrierInv, NEW c \in Cameras, DropCamera(c)
    PROVE  BarrierInv' /\ (NothingComplete => NothingComplete')
<1> DEFINE g == GroupOf[c]
           o == group[g]
           m == [o EXCEPT !.announced = @ \ {c}, !.seen = @ \ {c},
                          !.newest[c] = Never, !.backward[c] = 0]
           b == Refresh(m)
           done == NowComplete(g, b)
           Seal1(k) == [k EXCEPT !.ready = TRUE, !.sealed = "complete"]
           map == [n \in DOMAIN b.open |-> IF n \in done THEN Seal1(b.open[n]) ELSE b.open[n]]
           z == [b EXCEPT !.open = map]
<1>1. g \in Groups /\ UNCHANGED <<held, frames, last>>
  BY BarrierAssumption DEF DropCamera
<1>2. Sound(o) /\ o.next <= frames /\ o.next \in Nat
  <2> HIDE DEF g
  <2> QED BY <1>1 DEF BarrierInv, GroupsSound, Counted, Sound, GroupTypes
<1>3. Becomes(g, z, done # {})
  BY DEF DropCamera
<1>4. group' = [group EXCEPT ![g] = z]
  <2> HIDE DEF z, g, done
  <2> QED BY <1>3 DEF Becomes
<1>5. worker' = Notified(g) \/ (worker' = worker /\ done = {})
  <2> HIDE DEF z, g, done
  <2> QED BY <1>3 DEF Becomes
<1> HIDE DEF o
<1>6. /\ Shaped(m) /\ m.open = o.open /\ m.next = o.next /\ m.ended = o.ended
      /\ m.announced = o.announced \ {c} /\ m.seen = o.seen \ {c} /\ m.hooked = o.hooked
      /\ m.newest = [o.newest EXCEPT ![c] = Never] /\ m.backward = [o.backward EXCEPT ![c] = 0]
  BY <1>2 DEF Sound, Shaped
<1> HIDE DEF m
<1>7. Sound(b)
  BY <1>2, <1>6, RosterIsSound DEF Sound, GroupTypes
<1>8. /\ b.open = o.open /\ b.next = o.next /\ b.hooked = o.hooked
      /\ b.newest = m.newest /\ b.backward = m.backward
  BY <1>6, RefreshIs
<1> HIDE DEF b, done, g, Seal1
<1>9. /\ DOMAIN map = DOMAIN b.open /\ map = [id \in DOMAIN map |-> map[id]]
      /\ \A id \in DOMAIN map :
            map[id] = IF id \in done THEN Seal1(b.open[id]) ELSE b.open[id]
  OBVIOUS
<1> HIDE DEF map
<1>10. \A id \in DOMAIN map : /\ map[id] \in Buckets /\ map[id].entries = b.open[id].entries
                              /\ ~map[id].ready => id \notin done /\ ~b.open[id].ready
  <2> TAKE id \in DOMAIN map
  <2>1. b.open[id] \in Buckets
    BY <1>7, <1>9 DEF Sound, GroupTypes
  <2> DEFINE k == b.open[id]
  <2>2. k \in Buckets  BY <2>1
  <2> HIDE DEF k
  <2>3. Seal1(k) \in Buckets /\ Seal1(k).entries = k.entries /\ Seal1(k).ready = TRUE
    BY <2>2 DEF Buckets, Seals, Seal1
  <2>4. map[id] = IF id \in done THEN Seal1(k) ELSE k
    BY <1>9 DEF k
  <2>5. CASE id \in done
    BY <2>3, <2>4, <2>5 DEF k
  <2>6. CASE id \notin done
    BY <2>2, <2>4, <2>6 DEF k
  <2> QED BY <2>5, <2>6
<1>11. /\ Sound(z) /\ z.open = map /\ z.next = b.next /\ z.hooked = b.hooked
       /\ z.live = b.live /\ z.newest = b.newest /\ z.backward = b.backward
  <2>1. DOMAIN map = DOMAIN b.open /\ map = [id \in DOMAIN map |-> map[id]]
    BY <1>9
  <2>2. \A id \in DOMAIN map : map[id] \in Buckets /\ map[id].entries = b.open[id].entries
    BY <1>10
  <2> QED BY <1>7, <2>1, <2>2, RemappedIs
<1> HIDE DEF z
<1>12. done = {} => StayAsleep(g, z)
  BY <1>8, <1>9, <1>11 DEF StayAsleep, SleepsSoundly, o
<1>13. StayLacking(g, z)
  <2> SUFFICES ASSUME NEW w \in Parked, worker[w].group = g, NEW id, id = worker[w].id,
                      id \in DOMAIN z.open, ~z.open[id].ready
               PROVE  ~(z.live \subseteq Reported(z.open[id]))
    BY DEF StayLacking, StillLacking
  <2>1. id \in DOMAIN b.open /\ id \notin done /\ ~b.open[id].ready
    BY <1>9, <1>10, <1>11
  <2>2. w \in Waiting(g, id)
    BY DEF Waiting, Parked
  <2>3. ~(b.live \subseteq Reported(b.open[id]))
    BY <2>1, <2>2 DEF done, NowComplete
  <2>4. Reported(z.open[id]) = Reported(b.open[id])
    BY <1>10, <1>11 DEF Reported
  <2> QED BY <1>11, <2>3, <2>4
<1>14. RefusedOnce'
  <2>1. \A d \in Cameras \ {c} : z.newest[d] = o.newest[d] /\ z.backward[d] = o.backward[d]
    BY <1>2, <1>6, <1>8, <1>11 DEF Sound, GroupTypes
  <2>2. z.newest[c] = Never
    BY <1>2, <1>6, <1>8, <1>11 DEF Sound, GroupTypes
  <2>3. ClocksStay(g, z)
    BY <2>1, <2>2 DEF o, ClocksStay
  <2> QED BY <1>1, <1>4, <2>3, ClocksKept
<1>15. frames' \in 0 .. MaxFrames /\ frames' = frames /\ z.next <= frames'
  BY <1>1, <1>2, <1>8, <1>11 DEF BarrierInv, Counted
<1>16. NothingComplete => z.hooked
  BY <1>1, <1>8, <1>11 DEF NothingComplete, o
<1> QED BY <1>1, <1>11, <1>12, <1>13, <1>14, <1>15, <1>16, <1>4, <1>5, BecameIs

\* Everything ends, and everybody is woken.
LEMMA CloseAllKeeps ==
    ASSUME BarrierInv, NEW g \in Groups, CloseAll(g)
    PROVE  BarrierInv' /\ (NothingComplete => NothingComplete')
<1> DEFINE b == group[g]
           why == [n \in DOMAIN b.open |-> "shutdown"]
           no == FALSE
           I == DOMAIN b.open
           e == End(b, I, why, no)
           z == [e EXCEPT !.closed = TRUE]
<1>1. /\ UNCHANGED <<held, frames, last>> /\ group' = [group EXCEPT ![g] = z]
      /\ worker' = Notified(g) \/ (worker' = worker /\ DOMAIN b.open = {})
  BY DEF CloseAll, Becomes
<1>2. Sound(b) /\ b.next <= frames /\ b.next \in Nat
  BY DEF BarrierInv, GroupsSound, Counted, Sound, GroupTypes
<1>3. why \in [I -> Whys] /\ \A id \in I : why[id] # "evicted"
  BY DEF Whys
<1>4. no \in BOOLEAN /\ I \in SUBSET DOMAIN b.open /\ Shaped(b) /\ I = DOMAIN b.open
  BY <1>2 DEF Sound
<1> HIDE DEF b, why, no, I
<1>5. Sound(e)
  BY <1>2, <1>3, <1>4, EndIsSound
<1>6. SameRest(e, b) /\ e.open = [id \in DOMAIN b.open \ I |-> b.open[id]]
  BY <1>4, EndIs
<1>7. DOMAIN e.open = {}
  BY <1>4, <1>6
<1> HIDE DEF e
<1>8. /\ Shaped(z) /\ z.open = e.open /\ z.next = e.next /\ z.ended = e.ended
      /\ z.announced = e.announced /\ z.seen = e.seen /\ z.hooked = e.hooked
      /\ z.live = e.live /\ z.max = e.max /\ z.newest = e.newest /\ z.backward = e.backward
  BY <1>5 DEF Sound, Shaped
<1> HIDE DEF z
<1>9. Sound(z)
  BY <1>5, <1>8 DEF Sound, GroupTypes, Accounted, IdsOf, Moments, Bounded, OldestFirst
<1>10. DOMAIN b.open = {} => StayAsleep(g, z)
  BY DEF StayAsleep, SleepsSoundly, b
<1>11. StayLacking(g, z)
  BY <1>7, <1>8 DEF StayLacking, StillLacking
<1>12. RefusedOnce'
  <2>1. ClocksStay(g, z)
    BY <1>6, <1>8 DEF SameRest, b, ClocksStay
  <2> QED BY <1>1, <2>1, ClocksKept
<1>13. frames' \in 0 .. MaxFrames /\ frames' = frames /\ z.next <= frames'
  BY <1>1, <1>2, <1>6, <1>8 DEF BarrierInv, Counted, SameRest
<1>14. NothingComplete => z.hooked
  BY <1>6, <1>8 DEF NothingComplete, SameRest, b
<1> QED BY <1>1, <1>9, <1>10, <1>11, <1>12, <1>13, <1>14, BecameIs

-----------------------------------------------------------------------------
(* Every step, and the specification.                                      *)

LEMMA StepKeeps ==
    ASSUME BarrierInv, [Next]_vars
    PROVE  BarrierInv' /\ (NothingComplete => NothingComplete')
<1>1. CASE UNCHANGED vars
  <2>1. UNCHANGED <<group, worker, held, frames, last>>
    BY <1>1 DEF vars
  <2>2. BarrierInv'
    BY <2>1 DEF BarrierInv, GroupsSound, WorkersTyped, Waits, Idle, Counted, Permits, Parked,
               RefusedOnce, SleepersKnow
  <2>3. NothingComplete => NothingComplete'
    BY <2>1 DEF NothingComplete, Parked, Idle
  <2> QED BY <2>2, <2>3
<1>2. CASE \E w \in Workers : Wake(w)
  <2>1. PICK w \in Workers : Wake(w)
    BY <1>2
  <2>2. w \in Parked /\ (TimesOut(w) \/ SleepsAgain(w) \/ ReturnsOutcome(w) \/ ClosesInstant(w))
    BY <2>1 DEF Wake, Parked
  <2> QED BY <2>2, TimesOutKeeps, SleepsAgainKeeps, ReturnsOutcomeKeeps, ClosesInstantKeeps
<1>3. CASE \E c \in Cameras, t \in Times : Submit(c, t)
  BY <1>3, SubmitKeeps
<1>4. CASE \E g \in Groups : Expire(g) \/ CloseAll(g)
  BY <1>4, ExpireKeeps, CloseAllKeeps
<1>5. CASE \E c \in Cameras : CameraAdded(c) \/ DropCamera(c)
  BY <1>5, CameraAddedKeeps, DropCameraKeeps
<1> QED BY <1>1, <1>2, <1>3, <1>4, <1>5 DEF Next

\* A camera that was refused is not refused again by its next frame.
LEMMA NotTwice ==
    ASSUME BarrierInv, Refusals = 1, NEW c \in Cameras, NEW t \in Times, Submit(c, t),
           last[c] = "backward"
    PROVE  last'[c] # "backward"
<1> DEFINE f == Found(c)
           a == Adopt(f, c, t)
           e == Enter(a, c, t)
           n == Chosen(a, c, t)
<1>1. ~SubmitBackward(f, c, t)
  <2>1. f.newest = group[GroupOf[c]].newest /\ f.backward = group[GroupOf[c]].backward
    BY FoundIs
  <2>2. group[GroupOf[c]].newest[c] = Never \/ group[GroupOf[c]].backward[c] >= 1
    BY DEF BarrierInv, RefusedOnce
  <2>3. f.newest[c] = Never \/ f.backward[c] >= 1
    BY <2>1, <2>2
  <2>4. f.backward[c] \in Nat
    BY FoundIs DEF Sound, GroupTypes
  <2> HIDE DEF f
  <2> QED BY <2>3, <2>4 DEF SubmitBackward, RefusesBackward, SteppedBack
<1>2. \/ SubmitClosed(c) \/ SubmitMissed(a, c, t)
      \/ SubmitCloses(e, n, c) \/ SubmitWaits(e, n, c, PlacingWakes(a, c, t))
      \/ SubmitStarves(e, n, c, PlacingWakes(a, c, t))
  BY <1>1 DEF Submit
<1> HIDE DEF f, a, e, n
<1>3. PICK why : why # "backward" /\ Answers(c, why)
  <2>1. \E why \in {"shutdown", "late", "duplicate", "closed", "waiting", "would_starve"} :
           Answers(c, why)
    BY <1>2 DEF SubmitClosed, SubmitMissed, SubmitCloses, SubmitWaits, SubmitStarves
  <2> QED BY <2>1
<1> QED BY <1>3 DEF Answers, BarrierInv, RefusedOnce

LEMMA StepRefusesOnce ==
    ASSUME BarrierInv, Refusals = 1, [Next]_vars
    PROVE  OneRefusalPerStep
<1> SUFFICES ASSUME NEW c \in Cameras, last[c] = "backward", frames' > frames,
                    last'[c] = "backward",
                    group'[GroupOf[c]].backward[c] > group[GroupOf[c]].backward[c]
             PROVE  FALSE
  BY DEF OneRefusalPerStep
<1>1. frames \in Nat
  BY DEF BarrierInv, Counted
<1>2. PICK d \in Cameras, t \in Times : Submit(d, t)
  <2>1. ~(UNCHANGED frames)
    BY <1>1
  <2>2. ~(UNCHANGED vars)
    BY <2>1 DEF vars
  <2>3. \A w \in Workers : ~Wake(w)
    <3> TAKE w \in Workers
    <3>1. ~TimesOut(w) /\ ~SleepsAgain(w) /\ ~ReturnsOutcome(w) /\ ~ClosesInstant(w)
      BY <2>1 DEF TimesOut, SleepsAgain, ReturnsOutcome, ClosesInstant
    <3> QED BY <3>1 DEF Wake
  <2>4. \A g \in Groups : ~Expire(g) /\ ~CloseAll(g)
    BY <2>1 DEF Expire, CloseAll
  <2>5. \A k \in Cameras : ~CameraAdded(k) /\ ~DropCamera(k)
    <3> TAKE k \in Cameras
    <3>1. CameraAdded(k) => UNCHANGED frames  BY DEF CameraAdded
    <3>2. DropCamera(k) => UNCHANGED frames
      <4> SUFFICES ASSUME DropCamera(k) PROVE UNCHANGED frames  OBVIOUS
      <4> QED BY Zenon DEF DropCamera
    <3> QED BY <2>1, <3>1, <3>2
  <2> QED BY <2>2, <2>3, <2>4, <2>5 DEF Next
<1>3. c # d
  BY <1>2, NotTwice
<1>4. group'[GroupOf[c]].backward[c] = group[GroupOf[c]].backward[c]
  BY <1>2, <1>3, SubmitKeeps DEF OthersKept
<1>5. group[GroupOf[c]].backward[c] \in Nat
  BY BarrierAssumption DEF BarrierInv, GroupsSound, Sound, GroupTypes
<1> QED BY <1>4, <1>5

-----------------------------------------------------------------------------
(* What the invariant says, in the model's own words.                      *)

LEMMA InvAccounts ==
    ASSUME BarrierInv
    PROVE  InstantsAccounted /\ EvictsTheOldest
<1>1. \A g \in Groups : Sound(group[g]) /\ group[g].next <= frames
  BY DEF BarrierInv, GroupsSound, Counted
<1>2. BarrierTypeOK
  <2>1. held \in 0 .. Permits /\ frames \in 0 .. MaxFrames
    <3>1. Cardinality(Parked) \in Nat
      <4>1. Parked = Busy(worker)  BY DEF Parked, Busy
      <4> QED BY <4>1, BusyIs
    <3> QED BY <3>1, PermitsAreNat DEF BarrierInv, Counted
  <2>2. \A w \in Parked : worker[w].at \in {"asleep", "awake"} /\ worker[w].group \in Groups
    BY DEF BarrierInv, WorkersTyped, Parked, Waits
  <2>3. ASSUME NEW g \in Groups
        PROVE  LET b == group[g] IN
               /\ b.live \subseteq Cameras /\ b.next \in 0 .. MaxFrames
               /\ b.newest \in [Cameras -> Times \cup {Never}]
               /\ b.backward \in [Cameras -> Nat]
               /\ \A n \in DOMAIN b.open : b.open[n].entries # <<>>
    <3> DEFINE b == group[g]
    <3>1. Sound(b) /\ b.next <= frames
      BY <1>1
    <3> HIDE DEF b
    <3>2. b.next \in 0 .. MaxFrames
      BY <2>1, <3>1, BarrierAssumption DEF Sound, GroupTypes
    <3>3. b.live \subseteq Cameras
      BY <3>1 DEF Sound, GroupTypes
    <3>4. b.newest \in [Cameras -> Times \cup {Never}] /\ b.backward \in [Cameras -> Nat]
      BY <3>1 DEF Sound, GroupTypes
    <3>5. \A n \in DOMAIN b.open : b.open[n].entries # <<>>
      BY <3>1 DEF Sound, Moments, OneMoment
    <3> QED BY <3>2, <3>3, <3>4, <3>5 DEF b
  <2> QED BY <2>1, <2>2, <2>3 DEF BarrierTypeOK
<1>3. InstantIsOneMoment
  <2> SUFFICES ASSUME NEW g \in Groups, NEW k \in Instants(g) PROVE OneMoment(k)
    BY DEF InstantIsOneMoment, OneMoment
  <2> QED BY <1>1 DEF Instants, Sound, Moments
<1>4. AccountedOnce
  <2> SUFFICES ASSUME NEW g \in Groups
               PROVE  /\ DOMAIN group[g].open \cup EndedIds(g) = 1 .. group[g].next
                      /\ DOMAIN group[g].open \cap EndedIds(g) = {}
                      /\ \A j, k \in group[g].ended : j.id = k.id => j = k
    BY DEF AccountedOnce
  <2>1. EndedIds(g) = IdsOf(group[g])
    BY DEF EndedIds, IdsOf
  <2>2. Accounted(group[g])
    BY <1>1 DEF Sound
  <2> QED BY <2>1, <2>2 DEF Accounted
<1>5. OpenWithinBound
  BY <1>1 DEF OpenWithinBound, Sound, Bounded
<1>6. EvictsTheOldest
  BY <1>1 DEF EvictsTheOldest, Sound, OldestFirst
<1> QED BY <1>2, <1>3, <1>4, <1>5, <1>6 DEF InstantsAccounted

LEMMA InvLeavesOne ==
    ASSUME BarrierInv
    PROVE  NeverParksTheLast
<1>1. held = Cardinality(Parked) /\ held <= Permits
  BY DEF BarrierInv, Counted
<1>2. Permits \in Nat /\ Cardinality(Workers) = Permits + 1
  BY PermitsAreNat
<1>3. Parked # Workers
  BY <1>1, <1>2
<1> QED BY <1>1, <1>3 DEF NeverParksTheLast

LEMMA InvWakes ==
    ASSUME BarrierInv, NothingComplete
    PROVE  NobodySleepsThrough
<1>1. ASSUME NEW w \in Parked, worker[w].at = "asleep"
      PROVE  /\ IsOpen(w) /\ ~Bucket(w).ready
             /\ ~(group[worker[w].group].live \subseteq Reported(Bucket(w)))
  <2> DEFINE b == group[worker[w].group]
  <2>1. SleepsSoundly(b, worker[w]) /\ StillLacking(b, worker[w])
    BY DEF BarrierInv, SleepersKnow, NothingComplete
  <2>2. worker[w].id \in DOMAIN b.open /\ ~b.open[worker[w].id].ready
    BY <1>1, <2>1 DEF SleepsSoundly
  <2>3. ~(b.live \subseteq Reported(b.open[worker[w].id]))
    BY <2>1, <2>2 DEF StillLacking
  <2> QED BY <2>2, <2>3 DEF IsOpen, Bucket
<1> QED BY <1>1 DEF NobodySleepsThrough, AsleepIsOpen, ClosesWhenComplete

-----------------------------------------------------------------------------
(* The instance that is model-checked, for every value of its constants.   *)

\* Of the four parts of MCCrossCamera, the one barrier.
BarrierPart == part = "one" => BarrierInv
BarrierStep == part' = part /\ (part = "one" => [Next]_vars)

LEMMA PartStarts == MCInit => BarrierPart
BY BarrierInit DEF MCInit, BarrierPart

LEMMA PartSteps == [MCNext]_<<part, vars, mtmcVars, identityVars>> => BarrierStep
BY DEF MCNext, BarrierStep

LEMMA PartKeeps == BarrierPart /\ BarrierStep => BarrierPart'
<1> SUFFICES ASSUME BarrierPart, BarrierStep, part' = "one" PROVE BarrierInv'
  BY DEF BarrierPart
<1>1. part = "one" /\ BarrierInv /\ [Next]_vars
  BY DEF BarrierPart, BarrierStep
<1> QED BY <1>1, StepKeeps

LEMMA BarrierIsInductive == MCSpec => []BarrierPart
BY PartStarts, PartSteps, PartKeeps, PTL DEF MCSpec

\* InstantsInOrder: whatever frames come, in whatever order, and whatever cameras come
\* and go, submit(), camera_added(), drop_camera() and close_all() of barrier.py leave
\* every instant one moment that is opened and ended once, within the bound, the oldest
\* evicted first; and with BACKWARD_REFUSALS_BEFORE_ADOPTING = 1 a camera is not refused
\* twice in a row for a clock that stepped back.
THEOREM InstantsInOrderHolds == ASSUME Refusals = 1 PROVE MCSpec => InstantsInOrder
<1>1. BarrierPart => (part = "one" => InstantsAccounted /\ EvictsTheOldest)
  BY InvAccounts DEF BarrierPart
<1>2. BarrierPart /\ [MCNext]_<<part, vars, mtmcVars, identityVars>>
         => [part = "one" => OneRefusalPerStep]_<<part, vars>>
  <2>1. BarrierPart /\ BarrierStep => (part = "one" => OneRefusalPerStep)
    BY StepRefusesOnce DEF BarrierPart, BarrierStep
  <2> QED BY <2>1, PartSteps
<1> QED BY <1>1, <1>2, BarrierIsInductive, PTL DEF MCSpec, InstantsInOrder

\* NeverParksTheLast: the budget of barrier.py is held once by each worker that waits in
\* submit(), and always leaves one worker to bring the frame that another waits for.
THEOREM NeverParksTheLastHolds == MCSpec => [](part = "one" => NeverParksTheLast)
<1>1. BarrierPart => (part = "one" => NeverParksTheLast)
  BY InvLeavesOne DEF BarrierPart
<1> QED BY <1>1, BarrierIsInductive, PTL

\* NobodySleepsThrough: where every group of barrier.py has announced cameras, a worker
\* asleep in submit() has an open, unsealed instant that lacks a live camera: it was
\* woken for the end of its instant, and for its completion by a frame or a departure.
THEOREM NobodySleepsThroughHolds ==
    ASSUME RosterAnnounced PROVE MCSpec => [](part = "one" => NobodySleepsThrough)
<1> DEFINE I == BarrierPart /\ (part = "one" => NothingComplete)
<1>1. MCInit => I
  BY PartStarts, RosterInit DEF MCInit
<1>2. I /\ [MCNext]_<<part, vars, mtmcVars, identityVars>> => I'
  <2> SUFFICES ASSUME I, BarrierStep PROVE I'
    BY PartSteps
  <2>1. BarrierPart'
    BY PartKeeps
  <2>2. ASSUME part' = "one" PROVE NothingComplete'
    <3>1. part = "one" /\ BarrierInv /\ NothingComplete /\ [Next]_vars
      BY <2>2 DEF BarrierPart, BarrierStep
    <3> QED BY <3>1, StepKeeps
  <2> QED BY <2>1, <2>2
<1>3. I => (part = "one" => NobodySleepsThrough)
  BY InvWakes DEF BarrierPart
<1> QED BY <1>1, <1>2, <1>3, PTL DEF MCSpec
=============================================================================
