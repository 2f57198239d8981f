--------------------------- MODULE FairQueueProofs ---------------------------
(***************************************************************************)
(* The properties of FairQueue for every value of its constants.  First    *)
(* the structure: lanes, sizes and wake-ups.  Then the order of service:   *)
(* cameras in turn, a camera's own requests first come first served, the   *)
(* loudest camera evicted, nobody charged for a shutdown; and FairQueue    *)
(* implements the contract of RequestQueue.  The last part proves the same *)
(* contract, and the wake-ups, of the FIFO queue.                          *)
(***************************************************************************)
EXTENDS FairQueue, FiniteSetTheorems, SequenceTheorems, TLAPS

-----------------------------------------------------------------------------
(* Sequences without duplicates.                                           *)

LEMMA AppendUnique ==
    ASSUME NEW T, NEW s \in Seq(T), NEW e \in T
    PROVE  /\ Append(s, e) \in Seq(T)
           /\ ToSet(Append(s, e)) = ToSet(s) \cup {e}
           /\ IsInjective(s) /\ e \notin ToSet(s) => IsInjective(Append(s, e))
<1> DEFINE a == Append(s, e)
<1>1. /\ a \in Seq(T)
      /\ DOMAIN s = 1 .. Len(s) /\ Len(s) \in Nat
      /\ DOMAIN a = 1 .. Len(s) + 1
      /\ \A k \in 1 .. Len(s) : a[k] = s[k]
      /\ a[Len(s) + 1] = e
  OBVIOUS
<1> HIDE DEF a
<1>2. ToSet(a) = ToSet(s) \cup {e}
  <2>1. ASSUME NEW x \in ToSet(a) PROVE x \in ToSet(s) \cup {e}
    <3>1. PICK k \in 1 .. Len(s) + 1 : a[k] = x BY <1>1, <2>1 DEF ToSet
    <3>2. k \in 1 .. Len(s) \/ k = Len(s) + 1 BY <1>1
    <3> QED BY <1>1, <3>1, <3>2 DEF ToSet
  <2>2. ASSUME NEW x \in ToSet(s) PROVE x \in ToSet(a)
    <3>1. PICK k \in 1 .. Len(s) : s[k] = x BY <1>1, <2>2 DEF ToSet
    <3>2. k \in 1 .. Len(s) + 1 BY <1>1
    <3> QED BY <1>1, <3>1, <3>2 DEF ToSet
  <2>3. e \in ToSet(a)
    <3>1. Len(s) + 1 \in 1 .. Len(s) + 1 BY <1>1
    <3> QED BY <1>1, <3>1 DEF ToSet
  <2> QED BY <2>1, <2>2, <2>3
<1>3. ASSUME IsInjective(s), e \notin ToSet(s) PROVE IsInjective(a)
  <2>1. \A k \in 1 .. Len(s) : a[k] # e BY <1>1, <1>3 DEF ToSet
  <2> QED BY <1>1, <1>3, <2>1 DEF IsInjective
<1> QED BY <1>1, <1>2, <1>3 DEF a

LEMMA TailUnique ==
    ASSUME NEW T, NEW s \in Seq(T), s # <<>>, IsInjective(s)
    PROVE  /\ Head(s) \in T
           /\ Head(s) \in ToSet(s)
           /\ Tail(s) \in Seq(T)
           /\ ToSet(Tail(s)) = ToSet(s) \ {Head(s)}
           /\ IsInjective(Tail(s))
<1> DEFINE t == Tail(s)
<1>1. /\ t \in Seq(T)
      /\ DOMAIN s = 1 .. Len(s) /\ Len(s) \in Nat \ {0}
      /\ DOMAIN t = 1 .. Len(s) - 1
      /\ \A k \in 1 .. Len(s) - 1 : t[k] = s[k + 1]
      /\ Head(s) = s[1]
      /\ s[1] \in T
  OBVIOUS
<1> HIDE DEF t
<1>2. ToSet(t) = ToSet(s) \ {s[1]}
  <2>1. ASSUME NEW x \in ToSet(t) PROVE x \in ToSet(s) \ {s[1]}
    <3>1. PICK k \in 1 .. Len(s) - 1 : t[k] = x BY <1>1, <2>1 DEF ToSet
    <3>2. k + 1 \in 1 .. Len(s) /\ 1 \in 1 .. Len(s) /\ k + 1 # 1 BY <1>1
    <3> QED BY <1>1, <3>1, <3>2 DEF ToSet, IsInjective
  <2>2. ASSUME NEW x \in ToSet(s), x # s[1] PROVE x \in ToSet(t)
    <3>1. PICK k \in 1 .. Len(s) : s[k] = x BY <1>1, <2>2 DEF ToSet
    <3>2. k # 1 BY <2>2, <3>1
    <3>3. k - 1 \in 1 .. Len(s) - 1 /\ t[k - 1] = s[k] BY <1>1, <3>2
    <3> QED BY <1>1, <3>1, <3>3 DEF ToSet
  <2> QED BY <2>1, <2>2
<1>3. IsInjective(t)
  <2> SUFFICES ASSUME NEW j \in 1 .. Len(s) - 1, NEW k \in 1 .. Len(s) - 1, t[j] = t[k]
               PROVE  j = k
    BY <1>1 DEF IsInjective
  <2>1. j + 1 \in DOMAIN s /\ k + 1 \in DOMAIN s /\ s[j + 1] = s[k + 1] BY <1>1
  <2>2. j + 1 = k + 1 BY <2>1 DEF IsInjective
  <2> QED BY <2>2
<1>4. s[1] \in ToSet(s) BY <1>1 DEF ToSet
<1> QED BY <1>1, <1>2, <1>3, <1>4 DEF t

LEMMA EmptyRange ==
    ASSUME NEW T, NEW s \in Seq(T)
    PROVE  (s = <<>>) <=> (ToSet(s) = {})
<1>1. CASE s = <<>> BY <1>1 DEF ToSet
<1>2. CASE s # <<>>
  <2>1. 1 \in DOMAIN s BY <1>2
  <2> QED BY <1>2, <2>1 DEF ToSet
<1> QED BY <1>1, <1>2

\* RemoveFirst leaves what is before e in place and shifts the rest.
LEMMA RemoveShifts ==
    ASSUME NEW T, NEW s \in Seq(T), IsInjective(s), NEW e \in ToSet(s)
    PROVE  \E k \in 1 .. Len(s) :
              /\ s[k] = e
              /\ RemoveFirst(s, e) \in Seq(T)
              /\ DOMAIN RemoveFirst(s, e) = 1 .. Len(s) - 1
              /\ \A m \in 1 .. Len(s) - 1 :
                    RemoveFirst(s, e)[m] = IF m < k THEN s[m] ELSE s[m + 1]
<1>1. /\ DOMAIN s = 1 .. Len(s) /\ Len(s) \in Nat BY DEF ToSet
<1>2. PICK k \in 1 .. Len(s) : s[k] = e BY <1>1 DEF ToSet
<1>3. {m \in 1 .. Len(s) : s[m] = e} = {k} BY <1>1, <1>2 DEF IsInjective
<1>4. Min({k}) = k BY DEF Min
<1>5. RemoveFirst(s, e) = RemoveAt(s, k)
  BY <1>2, <1>3, <1>4 DEF RemoveFirst, SelectInSeq
<1> DEFINE r == SubSeq(s, 1, k - 1) \o SubSeq(s, k + 1, Len(s))
<1>6. /\ r \in Seq(T)
      /\ DOMAIN r = 1 .. Len(s) - 1
      /\ \A m \in 1 .. Len(s) - 1 : r[m] = IF m < k THEN s[m] ELSE s[m + 1]
  <2> DEFINE u == SubSeq(s, 1, k - 1)
             v == SubSeq(s, k + 1, Len(s))
  <2>1. /\ u \in Seq(T) /\ Len(u) = k - 1
        /\ \A m \in 1 .. k - 1 : u[m] = s[m]
    BY <1>1
  <2>2. /\ v \in Seq(T) /\ Len(v) = Len(s) - k
        /\ \A m \in 1 .. Len(s) - k : v[m] = s[k + m]
    <3>1. k + 1 \in Int /\ Len(s) \in Int /\ \A j \in k + 1 .. Len(s) : s[j] \in T BY <1>1
    <3>2. /\ v \in Seq(T)
          /\ Len(v) = IF k + 1 <= Len(s) THEN Len(s) - (k + 1) + 1 ELSE 0
          /\ \A m \in 1 .. Len(s) - (k + 1) + 1 : v[m] = s[k + 1 + m - 1]
      BY <3>1, SubSeqProperties
    <3> HIDE DEF v
    <3>3. Len(v) = Len(s) - k BY <1>1, <3>2
    <3>4. ASSUME NEW m \in 1 .. Len(s) - k PROVE v[m] = s[k + m]
      <4>1. m \in 1 .. Len(s) - (k + 1) + 1 /\ k + 1 + m - 1 = k + m BY <1>1
      <4> QED BY <3>2, <4>1
    <3> QED BY <3>2, <3>3, <3>4
  <2> HIDE DEF u, v
  <2>3. /\ u \o v \in Seq(T) /\ Len(u \o v) = Len(s) - 1
        /\ \A m \in 1 .. Len(s) - 1 :
              (u \o v)[m] = IF m <= k - 1 THEN u[m] ELSE v[m - (k - 1)]
    <3>1. /\ u \o v \in Seq(T)
          /\ Len(u \o v) = Len(u) + Len(v)
          /\ \A m \in 1 .. Len(u) + Len(v) :
                (u \o v)[m] = IF m <= Len(u) THEN u[m] ELSE v[m - Len(u)]
      BY <2>1, <2>2, ConcatProperties
    <3>2. Len(u) + Len(v) = Len(s) - 1 /\ Len(u) = k - 1 BY <1>1, <2>1, <2>2
    <3> QED BY <3>1, <3>2
  <2>4. ASSUME NEW m \in 1 .. Len(s) - 1
        PROVE  (u \o v)[m] = IF m < k THEN s[m] ELSE s[m + 1]
    <3>1. CASE m < k BY <1>1, <2>1, <2>3, <3>1
    <3>2. CASE ~(m < k)
      <4>1. m - (k - 1) \in 1 .. Len(s) - k /\ k + (m - (k - 1)) = m + 1 BY <1>1, <3>2
      <4>2. (u \o v)[m] = v[m - (k - 1)] BY <2>3, <3>2, <1>1
      <4>3. v[m - (k - 1)] = s[k + (m - (k - 1))] BY <2>2, <4>1
      <4> QED BY <3>2, <4>1, <4>2, <4>3
    <3> QED BY <3>1, <3>2
  <2>5. r = u \o v BY DEF u, v
  <2> HIDE DEF r
  <2>6. DOMAIN r = 1 .. Len(r) BY <2>3, <2>5
  <2> QED BY <2>3, <2>4, <2>5, <2>6
<1>7. RemoveFirst(s, e) = r BY <1>5 DEF RemoveAt
<1> HIDE DEF r
<1> QED BY <1>2, <1>6, <1>7

LEMMA RemoveUnique ==
    ASSUME NEW T, NEW s \in Seq(T), IsInjective(s), NEW e \in ToSet(s)
    PROVE  /\ RemoveFirst(s, e) \in Seq(T)
           /\ ToSet(RemoveFirst(s, e)) = ToSet(s) \ {e}
           /\ IsInjective(RemoveFirst(s, e))
<1> DEFINE r == RemoveFirst(s, e)
<1>1. DOMAIN s = 1 .. Len(s) /\ Len(s) \in Nat BY DEF ToSet
<1>2. PICK k \in 1 .. Len(s) :
         /\ s[k] = e /\ r \in Seq(T) /\ DOMAIN r = 1 .. Len(s) - 1
         /\ \A m \in 1 .. Len(s) - 1 : r[m] = IF m < k THEN s[m] ELSE s[m + 1]
  BY RemoveShifts
<1> HIDE DEF r
<1>6. /\ DOMAIN r = 1 .. Len(s) - 1
      /\ \A m \in 1 .. Len(s) - 1 : r[m] = IF m < k THEN s[m] ELSE s[m + 1]
  BY <1>2
<1>7. ToSet(r) = ToSet(s) \ {e}
  <2>1. ASSUME NEW x \in ToSet(r) PROVE x \in ToSet(s) \ {e}
    <3>1. PICK m \in 1 .. Len(s) - 1 : r[m] = x BY <1>6, <2>1 DEF ToSet
    <3> DEFINE n == IF m < k THEN m ELSE m + 1
    <3>2. n \in 1 .. Len(s) /\ n # k /\ x = s[n] BY <1>1, <1>6, <3>1
    <3> QED BY <1>1, <1>2, <3>2 DEF ToSet, IsInjective
  <2>2. ASSUME NEW x \in ToSet(s), x # e PROVE x \in ToSet(r)
    <3>1. PICK n \in 1 .. Len(s) : s[n] = x BY <1>1, <2>2 DEF ToSet
    <3>2. n # k BY <1>2, <2>2, <3>1
    <3> DEFINE m == IF n < k THEN n ELSE n - 1
    <3>3. m \in 1 .. Len(s) - 1 /\ r[m] = x BY <1>1, <1>6, <3>1, <3>2
    <3> QED BY <1>6, <3>3 DEF ToSet
  <2> QED BY <2>1, <2>2
<1>8. IsInjective(r)
  <2> SUFFICES ASSUME NEW a \in 1 .. Len(s) - 1, NEW b \in 1 .. Len(s) - 1, r[a] = r[b]
               PROVE  a = b
    BY <1>6 DEF IsInjective
  <2> DEFINE n(m) == IF m < k THEN m ELSE m + 1
  <2>1. n(a) \in DOMAIN s /\ n(b) \in DOMAIN s /\ s[n(a)] = s[n(b)] BY <1>1, <1>6
  <2>2. n(a) = n(b) BY <2>1 DEF IsInjective
  <2> QED BY <2>2
<1> QED BY <1>2, <1>7, <1>8 DEF r

-----------------------------------------------------------------------------
(* Lane operations keep a lane's three fields in step with its contents.   *)

LEMMA SubsetFinite ==
    ASSUME NEW S \in SUBSET Items
    PROVE  IsFiniteSet(S) /\ Cardinality(S) \in Nat
BY QueueAssumption, FS_Subset, FS_CardinalityType DEF QueueAssumption

\* A lane holding S is empty, by any of its three fields, exactly when S is.
LEMMA LaneEmpty ==
    ASSUME NEW lane \in Lane, NEW S \in SUBSET Items, LaneHolds(lane, S)
    PROVE  /\ (lane.size = 0) <=> (S = {})
           /\ (lane.order = <<>>) <=> (S = {})
           /\ \A c \in Cameras : (lane.by_key[c] = <<>>) <=> (Own(S, c) = {})
<1>1. (lane.size = 0) <=> (S = {}) BY SubsetFinite, FS_EmptySet DEF LaneHolds
<1>2. ASSUME NEW c \in Cameras PROVE (lane.by_key[c] = <<>>) <=> (Own(S, c) = {})
  <2>1. lane.by_key[c] \in Seq(Items) BY DEF Lane
  <2> QED BY <2>1, EmptyRange DEF LaneHolds, Own
<1>3. (lane.order = <<>>) <=> (S = {})
  <2>1. lane.order \in Seq(Cameras) BY DEF Lane
  <2>2. ASSUME NEW i \in S PROVE CameraOf[i] \in ToSet(lane.order)
    <3>1. CameraOf[i] \in Cameras BY QueueAssumption DEF QueueAssumption
    <3> QED BY <3>1 DEF LaneHolds, Own
  <2>3. ASSUME NEW c \in ToSet(lane.order) PROVE S # {}
    <3>1. c \in Cameras BY <2>1, <2>3 DEF ToSet
    <3> QED BY <2>3, <3>1 DEF LaneHolds, Own
  <2> QED BY <2>1, <2>2, <2>3, EmptyRange
<1> QED BY <1>1, <1>2, <1>3

LEMMA PushHolds ==
    ASSUME NEW lane \in Lane, NEW S \in SUBSET Items, NEW i \in Items \ S,
           LaneHolds(lane, S)
    PROVE  Push(lane, i) \in Lane /\ LaneHolds(Push(lane, i), S \cup {i})
<1> DEFINE c == CameraOf[i]
           new == Push(lane, i)
<1>1. c \in Cameras BY QueueAssumption DEF QueueAssumption
<1>2. /\ lane.order \in Seq(Cameras) /\ lane.by_key \in [Cameras -> Seq(Items)]
      /\ lane.size \in Nat
  BY DEF Lane
<1>3. /\ lane.by_key[c] \in Seq(Items)
      /\ IsInjective(lane.by_key[c]) /\ ToSet(lane.by_key[c]) = Own(S, c)
      /\ IsInjective(lane.order)
  BY <1>1, <1>2 DEF LaneHolds, Own
<1>4. /\ new.order = IF lane.by_key[c] = <<>> THEN Append(lane.order, c) ELSE lane.order
      /\ new.by_key = [lane.by_key EXCEPT ![c] = Append(@, i)]
      /\ new.size = lane.size + 1
      /\ new = [order |-> new.order, by_key |-> new.by_key, size |-> new.size]
  BY DEF Push
<1> HIDE DEF c, new
<1>5. /\ Append(lane.by_key[c], i) \in Seq(Items)
      /\ ToSet(Append(lane.by_key[c], i)) = Own(S, c) \cup {i}
      /\ IsInjective(Append(lane.by_key[c], i))
  BY <1>3, AppendUnique DEF Own
<1>6. (lane.by_key[c] = <<>>) <=> (c \notin ToSet(lane.order))
  BY <1>1, LaneEmpty DEF LaneHolds, Own
<1>7. /\ new.order \in Seq(Cameras) /\ IsInjective(new.order)
      /\ ToSet(new.order) = ToSet(lane.order) \cup {c}
  <2>1. CASE lane.by_key[c] = <<>> BY <1>1, <1>2, <1>3, <1>4, <1>6, <2>1, AppendUnique
  <2>2. CASE lane.by_key[c] # <<>> BY <1>2, <1>3, <1>4, <1>6, <2>2
  <2> QED BY <2>1, <2>2
<1>8. new \in Lane
  <2>1. new.by_key \in [Cameras -> Seq(Items)] BY <1>1, <1>2, <1>4, <1>5
  <2>2. new.size \in Nat BY <1>2, <1>4
  <2> DEFINE o == new.order
             b == new.by_key
             n == new.size
  <2>3. o \in Seq(Cameras) /\ b \in [Cameras -> Seq(Items)] /\ n \in Nat
    BY <1>7, <2>1, <2>2
  <2>4. new = [order |-> o, by_key |-> b, size |-> n] BY <1>4
  <2> HIDE DEF o, b, n
  <2> QED BY <2>3, <2>4 DEF Lane
<1>9. new.size = Cardinality(S \cup {i})
  BY <1>4, SubsetFinite, FS_AddElement DEF LaneHolds
<1>10. ASSUME NEW d \in Cameras
       PROVE  /\ (d \in ToSet(new.order)) <=> (Own(S \cup {i}, d) # {})
              /\ IsInjective(new.by_key[d])
              /\ ToSet(new.by_key[d]) = Own(S \cup {i}, d)
  <2>1. CASE d = c
    <3>1. Own(S \cup {i}, d) = Own(S, c) \cup {i} BY <2>1 DEF Own, c
    <3>2. new.by_key[d] = Append(lane.by_key[c], i) BY <1>1, <1>2, <1>4, <2>1
    <3> QED BY <1>5, <1>7, <2>1, <3>1, <3>2
  <2>2. CASE d # c
    <3>1. Own(S \cup {i}, d) = Own(S, d) BY <2>2 DEF Own, c
    <3>2. new.by_key[d] = lane.by_key[d] BY <1>1, <1>2, <1>4, <2>2
    <3>3. (d \in ToSet(new.order)) <=> (d \in ToSet(lane.order)) BY <1>7, <2>2
    <3> QED BY <3>1, <3>2, <3>3 DEF LaneHolds
  <2> QED BY <2>1, <2>2
<1> QED BY <1>7, <1>8, <1>9, <1>10 DEF LaneHolds, new

\* What Pop and EvictFrom have in common: the head of camera c's bucket is
\* gone, and c is still listed exactly when its bucket is not empty.
Shrunk(lane, c, o) ==
    [order  |-> o,
     by_key |-> [lane.by_key EXCEPT ![c] = Tail(lane.by_key[c])],
     size   |-> lane.size - 1]

LEMMA ShrinkHolds ==
    ASSUME NEW lane \in Lane, NEW S \in SUBSET Items, LaneHolds(lane, S),
           NEW c \in Cameras, lane.by_key[c] # <<>>,
           NEW o \in Seq(Cameras), IsInjective(o),
           ToSet(o) = IF Tail(lane.by_key[c]) = <<>> THEN ToSet(lane.order) \ {c}
                                                     ELSE ToSet(lane.order)
    PROVE  /\ Head(lane.by_key[c]) \in S /\ CameraOf[Head(lane.by_key[c])] = c
           /\ Shrunk(lane, c, o) \in Lane
           /\ LaneHolds(Shrunk(lane, c, o), S \ {Head(lane.by_key[c])})
<1> DEFINE h == Head(lane.by_key[c])
           t == Tail(lane.by_key[c])
           b == [lane.by_key EXCEPT ![c] = t]
           n == lane.size - 1
           new == [order |-> o, by_key |-> b, size |-> n]
<1>1. /\ lane.order \in Seq(Cameras) /\ lane.by_key \in [Cameras -> Seq(Items)]
      /\ lane.size \in Nat
  BY DEF Lane
<1>2. /\ lane.by_key[c] \in Seq(Items)
      /\ IsInjective(lane.by_key[c]) /\ ToSet(lane.by_key[c]) = Own(S, c)
      /\ c \in ToSet(lane.order)
  <2>1. Own(S, c) # {} BY LaneEmpty
  <2> QED BY <1>1, <2>1 DEF LaneHolds
<1>3. /\ h \in Items /\ h \in Own(S, c)
      /\ t \in Seq(Items) /\ ToSet(t) = Own(S, c) \ {h} /\ IsInjective(t)
  BY <1>2, TailUnique
<1> HIDE DEF h, t
<1>4. h \in S /\ CameraOf[h] = c BY <1>3 DEF Own
<1>5. Own(S \ {h}, c) = Own(S, c) \ {h} BY DEF Own
<1>6. (t = <<>>) <=> (Own(S \ {h}, c) = {}) BY <1>3, <1>5, EmptyRange
<1>7. n = Cardinality(S \ {h}) /\ n \in Nat
  <2>1. n = Cardinality(S \ {h})
    BY <1>4, SubsetFinite, FS_RemoveElement DEF LaneHolds
  <2> QED BY <2>1, SubsetFinite
<1>8. b \in [Cameras -> Seq(Items)] BY <1>1, <1>3
<1>9. b[c] = t /\ \A d \in Cameras : d # c => b[d] = lane.by_key[d] BY <1>1
<1> HIDE DEF b, n
<1>10. new \in Lane BY <1>7, <1>8 DEF Lane
<1>11. ASSUME NEW d \in Cameras
       PROVE  /\ (d \in ToSet(o)) <=> (Own(S \ {h}, d) # {})
              /\ IsInjective(b[d])
              /\ ToSet(b[d]) = Own(S \ {h}, d)
  <2>1. CASE d = c
    <3>1. (d \in ToSet(o)) <=> (t # <<>>) BY <1>2, <2>1 DEF t
    <3> QED BY <1>3, <1>5, <1>6, <1>9, <2>1, <3>1
  <2>2. CASE d # c
    <3>1. Own(S \ {h}, d) = Own(S, d) BY <1>4, <2>2 DEF Own
    <3>2. (d \in ToSet(o)) <=> (d \in ToSet(lane.order)) BY <2>2
    <3> QED BY <1>9, <2>2, <3>1, <3>2 DEF LaneHolds
  <2> QED BY <2>1, <2>2
<1>12. LaneHolds(new, S \ {h}) BY <1>7, <1>11 DEF LaneHolds
<1>13. new = Shrunk(lane, c, o) BY DEF Shrunk, t, b, n
<1> HIDE DEF new
<1> QED BY <1>4, <1>10, <1>12, <1>13 DEF h

LEMMA PopHolds ==
    ASSUME NEW lane \in Lane, NEW S \in SUBSET Items, LaneHolds(lane, S), S # {}
    PROVE  /\ Peek(lane) \in S
           /\ Pop(lane) \in Lane
           /\ LaneHolds(Pop(lane), S \ {Peek(lane)})
<1> DEFINE c == Head(lane.order)
           t == Tail(lane.by_key[c])
           o == IF t = <<>> THEN Tail(lane.order) ELSE Append(Tail(lane.order), c)
<1>1. /\ lane.order \in Seq(Cameras) /\ lane.order # <<>> /\ IsInjective(lane.order)
  BY LaneEmpty DEF Lane, LaneHolds
<1>2. /\ c \in Cameras /\ c \in ToSet(lane.order)
      /\ Tail(lane.order) \in Seq(Cameras) /\ IsInjective(Tail(lane.order))
      /\ ToSet(Tail(lane.order)) = ToSet(lane.order) \ {c}
  BY <1>1, TailUnique
<1>3. lane.by_key[c] # <<>> BY <1>2, LaneEmpty DEF LaneHolds
<1>4. Pop(lane) = Shrunk(lane, c, o) /\ Peek(lane) = Head(lane.by_key[c])
  BY DEF Pop, Peek, Shrunk
<1> HIDE DEF c
<1>5. /\ o \in Seq(Cameras) /\ IsInjective(o)
      /\ ToSet(o) = IF t = <<>> THEN ToSet(lane.order) \ {c} ELSE ToSet(lane.order)
  <2> DEFINE l == Tail(lane.order)
             a == Append(l, c)
  <2>1. l \in Seq(Cameras) /\ IsInjective(l) /\ ToSet(l) = ToSet(lane.order) \ {c}
    BY <1>2
  <2>2. o = IF t = <<>> THEN l ELSE a OBVIOUS
  <2> HIDE DEF t, l, o
  <2>3. a \in Seq(Cameras) /\ IsInjective(a) /\ ToSet(a) = ToSet(l) \cup {c}
    <3>1. c \notin ToSet(l) BY <2>1
    <3> QED BY <1>2, <2>1, <3>1, AppendUnique
  <2> HIDE DEF a
  <2>4. CASE t = <<>> BY <2>1, <2>2, <2>4
  <2>5. CASE t # <<>>
    <3>1. ToSet(a) = ToSet(lane.order) BY <1>2, <2>1, <2>3
    <3> QED BY <2>2, <2>3, <2>5, <3>1
  <2> QED BY <2>4, <2>5
<1> HIDE DEF o
<1>6. /\ Head(lane.by_key[c]) \in S /\ CameraOf[Head(lane.by_key[c])] = c
      /\ Shrunk(lane, c, o) \in Lane
      /\ LaneHolds(Shrunk(lane, c, o), S \ {Head(lane.by_key[c])})
  BY <1>2, <1>3, <1>5, ShrinkHolds
<1> QED BY <1>4, <1>6

LEMMA EvictHolds ==
    ASSUME NEW lane \in Lane, NEW S \in SUBSET Items, LaneHolds(lane, S),
           NEW c \in Longest(lane)
    PROVE  /\ Head(lane.by_key[c]) \in S /\ CameraOf[Head(lane.by_key[c])] = c
           /\ EvictFrom(lane, c) \in Lane
           /\ LaneHolds(EvictFrom(lane, c), S \ {Head(lane.by_key[c])})
<1> DEFINE t == Tail(lane.by_key[c])
           o == IF t = <<>> THEN RemoveFirst(lane.order, c) ELSE lane.order
<1>1. c \in Cameras /\ lane.by_key[c] # <<>> BY DEF Longest
<1>2. lane.order \in Seq(Cameras) /\ IsInjective(lane.order) /\ c \in ToSet(lane.order)
  <2>1. Own(S, c) # {} BY <1>1, LaneEmpty
  <2> QED BY <1>1, <2>1 DEF Lane, LaneHolds
<1>3. EvictFrom(lane, c) = Shrunk(lane, c, o) BY DEF EvictFrom, Shrunk
<1>4. /\ o \in Seq(Cameras) /\ IsInjective(o)
      /\ ToSet(o) = IF t = <<>> THEN ToSet(lane.order) \ {c} ELSE ToSet(lane.order)
  <2> HIDE DEF t
  <2>1. CASE t = <<>>
    <3>1. o = RemoveFirst(lane.order, c) BY <2>1
    <3> HIDE DEF o
    <3> QED BY <1>2, <2>1, <3>1, RemoveUnique
  <2>2. CASE t # <<>> BY <1>2, <2>2
  <2> QED BY <2>1, <2>2
<1> HIDE DEF o
<1>5. /\ Head(lane.by_key[c]) \in S /\ CameraOf[Head(lane.by_key[c])] = c
      /\ Shrunk(lane, c, o) \in Lane
      /\ LaneHolds(Shrunk(lane, c, o), S \ {Head(lane.by_key[c])})
  BY <1>1, <1>4, ShrinkHolds
<1> QED BY <1>3, <1>5

-----------------------------------------------------------------------------
(* The same, for all the lanes and the total count.                        *)

LEMMA LanesPush ==
    ASSUME NEW ls \in [Levels -> Lane], NEW n, NEW S \in SUBSET Items,
           LanesHold(ls, n, S), NEW i \in Items \ S
    PROVE  LET new == [ls EXCEPT ![PriorityOf[i]] = Push(@, i)] IN
           new \in [Levels -> Lane] /\ LanesHold(new, n + 1, S \cup {i})
<1> DEFINE q == PriorityOf[i]
           l == Push(ls[q], i)
           new == [ls EXCEPT ![q] = l]
<1>1. q \in Levels BY QueueAssumption DEF QueueAssumption
<1>2. /\ Filed(S, q) \in SUBSET Items /\ i \notin Filed(S, q)
      /\ Filed(S \cup {i}, q) = Filed(S, q) \cup {i}
      /\ \A p \in Levels : p # q => Filed(S \cup {i}, p) = Filed(S, p)
  BY DEF Filed
<1> HIDE DEF q
<1>3. ls[q] \in Lane /\ LaneHolds(ls[q], Filed(S, q)) BY <1>1 DEF LanesHold
<1>4. l \in Lane /\ LaneHolds(l, Filed(S \cup {i}, q)) BY <1>2, <1>3, PushHolds
<1> HIDE DEF l
<1>5. /\ new \in [Levels -> Lane] /\ new[q] = l
      /\ \A p \in Levels : p # q => new[p] = ls[p]
  BY <1>1, <1>4
<1> HIDE DEF new
<1>6. n + 1 = Cardinality(S \cup {i}) BY SubsetFinite, FS_AddElement DEF LanesHold
<1>7. ASSUME NEW p \in Levels PROVE LaneHolds(new[p], Filed(S \cup {i}, p))
  BY <1>2, <1>4, <1>5 DEF LanesHold
<1> QED BY <1>5, <1>6, <1>7 DEF LanesHold, new, l, q

\* Taking one request out of one lane, however that lane changes.
LEMMA LanesRemove ==
    ASSUME NEW ls \in [Levels -> Lane], NEW n, NEW S \in SUBSET Items,
           LanesHold(ls, n, S), NEW q \in Levels, NEW i \in Filed(S, q),
           NEW l \in Lane, LaneHolds(l, Filed(S, q) \ {i})
    PROVE  /\ i \in S
           /\ [ls EXCEPT ![q] = l] \in [Levels -> Lane]
           /\ LanesHold([ls EXCEPT ![q] = l], n - 1, S \ {i})
<1> DEFINE new == [ls EXCEPT ![q] = l]
<1>1. /\ i \in S
      /\ Filed(S \ {i}, q) = Filed(S, q) \ {i}
      /\ \A p \in Levels : p # q => Filed(S \ {i}, p) = Filed(S, p)
  BY DEF Filed
<1>2. /\ new \in [Levels -> Lane] /\ new[q] = l
      /\ \A p \in Levels : p # q => new[p] = ls[p]
  OBVIOUS
<1> HIDE DEF new
<1>3. n - 1 = Cardinality(S \ {i}) BY <1>1, SubsetFinite, FS_RemoveElement DEF LanesHold
<1>4. ASSUME NEW p \in Levels PROVE LaneHolds(new[p], Filed(S \ {i}, p))
  BY <1>1, <1>2 DEF LanesHold
<1> QED BY <1>1, <1>2, <1>3, <1>4 DEF LanesHold, new

LEMMA LanesPop ==
    ASSUME NEW ls \in [Levels -> Lane], NEW n, NEW S \in SUBSET Items,
           LanesHold(ls, n, S), NEW q \in Levels, ls[q].size > 0
    PROVE  /\ Peek(ls[q]) \in S
           /\ [ls EXCEPT ![q] = Pop(@)] \in [Levels -> Lane]
           /\ LanesHold([ls EXCEPT ![q] = Pop(@)], n - 1, S \ {Peek(ls[q])})
<1>1. /\ ls[q] \in Lane /\ Filed(S, q) \in SUBSET Items /\ LaneHolds(ls[q], Filed(S, q))
  BY DEF LanesHold, Filed
<1>2. Filed(S, q) # {} BY <1>1, LaneEmpty
<1>3. /\ Peek(ls[q]) \in Filed(S, q) /\ Pop(ls[q]) \in Lane
      /\ LaneHolds(Pop(ls[q]), Filed(S, q) \ {Peek(ls[q])})
  BY <1>1, <1>2, PopHolds
<1> QED BY <1>3, LanesRemove

LEMMA LanesEvict ==
    ASSUME NEW ls \in [Levels -> Lane], NEW n, NEW S \in SUBSET Items,
           LanesHold(ls, n, S), NEW q \in Levels, NEW c \in Longest(ls[q])
    PROVE  LET victim == Head(ls[q].by_key[c]) IN
           /\ victim \in S /\ CameraOf[victim] = c
           /\ [ls EXCEPT ![q] = EvictFrom(@, c)] \in [Levels -> Lane]
           /\ LanesHold([ls EXCEPT ![q] = EvictFrom(@, c)], n - 1, S \ {victim})
<1> DEFINE victim == Head(ls[q].by_key[c])
<1>1. /\ ls[q] \in Lane /\ Filed(S, q) \in SUBSET Items /\ LaneHolds(ls[q], Filed(S, q))
  BY DEF LanesHold, Filed
<1>2. /\ victim \in Filed(S, q) /\ CameraOf[victim] = c
      /\ EvictFrom(ls[q], c) \in Lane
      /\ LaneHolds(EvictFrom(ls[q], c), Filed(S, q) \ {victim})
  BY <1>1, EvictHolds
<1> HIDE DEF victim
<1>3. /\ victim \in S
      /\ [ls EXCEPT ![q] = EvictFrom(ls[q], c)] \in [Levels -> Lane]
      /\ LanesHold([ls EXCEPT ![q] = EvictFrom(ls[q], c)], n - 1, S \ {victim})
  BY <1>2, LanesRemove
<1> QED BY <1>2, <1>3 DEF victim

LEMMA LanesEmpty ==
    LET none == [p \in Levels |-> EmptyLane] IN
    none \in [Levels -> Lane] /\ LanesHold(none, 0, {})
<1>1. EmptyLane \in Lane BY DEF EmptyLane, Lane
<1>2. IsInjective(<<>>) /\ ToSet(<<>>) = {} BY DEF IsInjective, ToSet
<1>3. \A p \in Levels : Filed({}, p) = {} BY DEF Filed
<1>4. \A c \in Cameras : Own({}, c) = {} BY DEF Own
<1>5. LaneHolds(EmptyLane, {}) BY <1>2, <1>4, FS_EmptySet DEF LaneHolds, EmptyLane
<1> QED BY <1>1, <1>3, <1>5, FS_EmptySet DEF LanesHold

-----------------------------------------------------------------------------
(* The inductive invariant.  NoLostWakeup is not inductive by itself: that *)
(* put()'s single notify reaches the right sleeper rests on producers      *)
(* sleeping only under BLOCK and only in front of a full queue, so that a  *)
(* put() that is accepted finds nobody asleep but the worker.              *)

SleepersWait ==
    /\ \A i \in Items \cap asleep : outcome[i] = "blocked" /\ Overflow = "block"
    /\ Worker \in asleep => worker \in {"waitFirst", "waitFill"}

IInv == /\ TypeOK
        /\ LanesConsistent
        /\ WithinCapacity
        /\ SleepersWait
        /\ NoLostWakeup

LEMMA NotifyWakes ==
    ASSUME NEW sleepers \in SUBSET Threads, Notify(sleepers)
    PROVE  /\ asleep' \in SUBSET sleepers
           /\ sleepers \in SUBSET {Worker} => asleep' = {}
BY DEF Notify

LEMMA InitIInv == Init => IInv
<1> SUFFICES ASSUME Init PROVE IInv OBVIOUS
<1>1. Queued = {} BY DEF Init, Queued
<1>2. lanes \in [Levels -> Lane] /\ LanesConsistent
  BY <1>1, LanesEmpty DEF Init, LanesConsistent
<1>3. TypeOK
  <2>1. counts \in [{"rejected", "evicted", "expired"} -> [Cameras -> Nat]] BY DEF Init
  <2>2. passed \in [Levels -> [Cameras -> SUBSET Cameras]] BY DEF Init
  <2>3. outcome \in [Items -> Outcomes] /\ stamp \in [Items -> Nat] BY DEF Init, Outcomes
  <2>4. batch \in Seq(Items) /\ rows \in Nat /\ size \in Nat BY DEF Init
  <2>5. /\ late \subseteq Items /\ asleep \subseteq Threads /\ closed \in BOOLEAN
        /\ worker \in {"idle", "waitFirst", "waitFill", "drain"}
    BY DEF Init
  <2> QED BY <1>2, <2>1, <2>2, <2>3, <2>4, <2>5 DEF TypeOK
<1>4. WithinCapacity BY QueueAssumption DEF Init, WithinCapacity, QueueAssumption
<1>5. SleepersWait /\ NoLostWakeup BY DEF Init, SleepersWait, NoLostWakeup
<1> QED BY <1>2, <1>3, <1>4, <1>5 DEF IInv

\* The tail of put(): push, count, stamp, notify one.
LEMMA EnqueueHolds ==
    ASSUME TypeOK, NEW into \in [Levels -> Lane], NEW n \in Nat,
           NEW S \in SUBSET Items, NEW i \in Items \ S, LanesHold(into, n, S),
           NEW sleepers, Enqueue(i, into, n, sleepers)
    PROVE  /\ lanes' \in [Levels -> Lane]
           /\ LanesHold(lanes', size', S \cup {i})
           /\ size' = n + 1 /\ size' \in Nat
           /\ stamp' \in [Items -> Nat]
           /\ Notify(sleepers)
<1>1. /\ lanes' = [into EXCEPT ![PriorityOf[i]] = Push(@, i)] /\ size' = n + 1
      /\ stamp' = [stamp EXCEPT ![i] = Cardinality(Accepted) + 1]
      /\ Notify(sleepers)
  BY DEF Enqueue
<1>2. lanes' \in [Levels -> Lane] /\ LanesHold(lanes', size', S \cup {i})
  BY <1>1, LanesPush
<1>3. stamp' \in [Items -> Nat]
  <2>1. Cardinality(Accepted) \in Nat BY SubsetFinite DEF Accepted
  <2> QED BY <1>1, <2>1 DEF TypeOK
<1> QED BY <1>1, <1>2, <1>3

\* A put() that is accepted finds no producer asleep, so its single notify
\* reaches the worker if the worker sleeps.
LEMMA NobodyButTheWorker ==
    ASSUME IInv, Unlocked, size < Capacity \/ Overflow = "drop_oldest"
    PROVE  asleep \in SUBSET {Worker}
<1>1. \A i \in Items \cap asleep : size >= Capacity /\ Overflow = "block"
  BY DEF IInv, NoLostWakeup, SleepersWait
<1>2. size \in Nat /\ Capacity \in Nat /\ asleep \in SUBSET Threads
  BY QueueAssumption DEF IInv, TypeOK, QueueAssumption
<1>3. Items \cap asleep = {} BY <1>1, <1>2
<1> QED BY <1>2, <1>3 DEF Threads

LEMMA PutAcceptedIInv == ASSUME IInv, NEW i \in Items, PutAccepted(i) PROVE IInv'
<1> USE DEF PutAccepted
<1>1. /\ i \in Items \ Queued /\ Queued \in SUBSET Items
      /\ outcome' = [outcome EXCEPT ![i] = "queued"]
      /\ outcome \in [Items -> Outcomes]
      /\ UNCHANGED <<closed, counts, worker, batch, rows, late, passed>>
  BY DEF InPut, Queued, IInv, TypeOK
<1>2. Queued' = Queued \cup {i} BY <1>1 DEF Queued
<1>3. asleep \in SUBSET {Worker} /\ asleep \in SUBSET Threads
  BY NobodyButTheWorker DEF IInv, TypeOK
<1>4. /\ lanes' \in [Levels -> Lane]
      /\ LanesHold(lanes', size', Queued \cup {i})
      /\ size' = size + 1 /\ size' \in Nat
      /\ stamp' \in [Items -> Nat]
      /\ asleep' = {}
  <2>1. asleep \ {i} \in SUBSET Threads /\ asleep \ {i} \in SUBSET {Worker} BY <1>3
  <2>2. /\ TypeOK /\ lanes \in [Levels -> Lane] /\ size \in Nat
        /\ LanesHold(lanes, size, Queued)
    BY DEF IInv, TypeOK, LanesConsistent
  <2>3. Enqueue(i, lanes, size, asleep \ {i}) OBVIOUS
  <2>4. /\ lanes' \in [Levels -> Lane]
        /\ LanesHold(lanes', size', Queued \cup {i})
        /\ size' = size + 1 /\ size' \in Nat
        /\ stamp' \in [Items -> Nat]
        /\ Notify(asleep \ {i})
    BY <1>1, <2>2, <2>3, EnqueueHolds
  <2>5. asleep' = {} BY <2>1, <2>4, NotifyWakes
  <2> QED BY <2>4, <2>5
<1>5. TypeOK' BY <1>1, <1>4 DEF IInv, TypeOK, Outcomes
<1>6. LanesConsistent' BY <1>2, <1>4 DEF LanesConsistent
<1>7. WithinCapacity'
  BY <1>4, QueueAssumption DEF WithinCapacity, IInv, TypeOK, QueueAssumption
<1>8. SleepersWait' /\ NoLostWakeup' BY <1>4 DEF SleepersWait, NoLostWakeup
<1> QED BY <1>5, <1>6, <1>7, <1>8 DEF IInv

LEMMA PutEvictingIInv == ASSUME IInv, NEW i \in Items, PutEvicting(i) PROVE IInv'
<1>0. PICK v \in Levels : \E c \in Longest(lanes[v]) :
         /\ Enqueue(i, [lanes EXCEPT ![v] = EvictFrom(@, c)], size - 1, asleep)
         /\ outcome' = [outcome EXCEPT ![Head(lanes[v].by_key[c])] = "evicted",
                                       ![i] = "queued"]
         /\ Charge("evicted", CameraOf[Head(lanes[v].by_key[c])])
         /\ passed' = [passed EXCEPT ![v][c] =
                          IF Len(lanes[v].by_key[c]) = 1 THEN {} ELSE @]
  BY DEF PutEvicting
<1>1. PICK c \in Longest(lanes[v]) :
         /\ Enqueue(i, [lanes EXCEPT ![v] = EvictFrom(@, c)], size - 1, asleep)
         /\ outcome' = [outcome EXCEPT ![Head(lanes[v].by_key[c])] = "evicted",
                                       ![i] = "queued"]
         /\ Charge("evicted", CameraOf[Head(lanes[v].by_key[c])])
         /\ passed' = [passed EXCEPT ![v][c] =
                          IF Len(lanes[v].by_key[c]) = 1 THEN {} ELSE @]
  BY <1>0
<1> DEFINE victim == Head(lanes[v].by_key[c])
           into == [lanes EXCEPT ![v] = EvictFrom(@, c)]
<1>2. /\ Unlocked /\ InPut(i) /\ size >= Capacity /\ Overflow = "drop_oldest"
      /\ UNCHANGED <<closed, worker, batch, rows, late>>
      /\ TypeOK /\ lanes \in [Levels -> Lane] /\ size \in Nat
      /\ LanesHold(lanes, size, Queued) /\ Queued \in SUBSET Items
      /\ asleep \in SUBSET Threads /\ outcome \in [Items -> Outcomes]
      /\ i \in Items \ Queued
  BY DEF PutEvicting, IInv, TypeOK, LanesConsistent, Queued, InPut
<1>3. /\ victim \in Queued /\ CameraOf[victim] = c
      /\ into \in [Levels -> Lane]
      /\ LanesHold(into, size - 1, Queued \ {victim})
  BY <1>2, LanesEvict
<1>4. c \in Cameras BY DEF Longest
<1>5. /\ outcome' = [outcome EXCEPT ![victim] = "evicted", ![i] = "queued"]
      /\ Enqueue(i, into, size - 1, asleep)
      /\ Charge("evicted", c)
  BY <1>1, <1>3
<1> HIDE DEF victim, into
<1>6. Queued' = (Queued \ {victim}) \cup {i} /\ outcome' \in [Items -> Outcomes]
  BY <1>2, <1>3, <1>5 DEF Queued, Outcomes
<1>7. size - 1 \in Nat
  BY <1>2, QueueAssumption DEF QueueAssumption
<1>8. /\ lanes' \in [Levels -> Lane]
      /\ LanesHold(lanes', size', Queued')
      /\ size' = size - 1 + 1 /\ size' \in Nat
      /\ stamp' \in [Items -> Nat]
      /\ asleep' = {}
  <2>1. asleep \in SUBSET {Worker} BY <1>2, NobodyButTheWorker
  <2>2. Queued \ {victim} \in SUBSET Items /\ i \in Items \ (Queued \ {victim}) BY <1>2
  <2>3. /\ lanes' \in [Levels -> Lane]
        /\ LanesHold(lanes', size', (Queued \ {victim}) \cup {i})
        /\ size' = size - 1 + 1 /\ size' \in Nat
        /\ stamp' \in [Items -> Nat]
        /\ Notify(asleep)
    BY <1>2, <1>3, <1>5, <1>7, <2>2, EnqueueHolds
  <2>4. asleep' = {} BY <1>2, <2>1, <2>3, NotifyWakes
  <2> QED BY <1>6, <2>3, <2>4
<1>9. counts' \in [{"rejected", "evicted", "expired"} -> [Cameras -> Nat]]
  BY <1>2, <1>4, <1>5 DEF Charge, TypeOK
<1>10. passed' \in [Levels -> [Cameras -> SUBSET Cameras]]
  BY <1>1, <1>2, <1>4 DEF TypeOK
<1>11. TypeOK' BY <1>2, <1>6, <1>8, <1>9, <1>10 DEF TypeOK
<1>12. LanesConsistent' BY <1>8 DEF LanesConsistent
<1>13. WithinCapacity' BY <1>2, <1>8 DEF IInv, WithinCapacity
<1>14. SleepersWait' /\ NoLostWakeup' BY <1>8 DEF SleepersWait, NoLostWakeup
<1> QED BY <1>11, <1>12, <1>13, <1>14 DEF IInv

\* A step that leaves the lanes alone and moves no item in or out of them.
LEMMA SameLanes ==
    ASSUME IInv, UNCHANGED queueVars, Queued' = Queued
    PROVE  LanesConsistent' /\ WithinCapacity'
BY DEF IInv, LanesConsistent, WithinCapacity, queueVars

\* put() returning an error, or going to sleep.
LEMMA PutOtherIInv ==
    ASSUME IInv, NEW i \in Items, PutCancelled(i) \/ PutRefused(i) \/ PutBlocks(i)
    PROVE  IInv'
<1>1. PICK o \in Outcomes \ {"queued"} : outcome' = [outcome EXCEPT ![i] = o]
  BY DEF PutCancelled, PutRefused, PutBlocks, Outcomes
<1>2. /\ Unlocked /\ InPut(i) /\ TypeOK
      /\ UNCHANGED <<lanes, size, closed, worker, batch, rows, late, stamp, passed>>
  BY DEF PutCancelled, PutRefused, PutBlocks, queueVars, IInv
<1>3. /\ counts' \in [{"rejected", "evicted", "expired"} -> [Cameras -> Nat]]
  <2>1. CASE UNCHANGED counts BY <1>2, <2>1 DEF TypeOK
  <2>2. CASE Charge("rejected", CameraOf[i])
    <3>1. CameraOf[i] \in Cameras BY QueueAssumption DEF QueueAssumption
    <3> QED BY <1>2, <2>2, <3>1 DEF Charge, TypeOK
  <2> QED BY <2>1, <2>2 DEF PutCancelled, PutRefused, PutBlocks
<1>4. /\ asleep' \in SUBSET (asleep \cup {i})
      /\ i \in asleep' => /\ size >= Capacity /\ ~closed
                          /\ Overflow = "block" /\ outcome'[i] = "blocked"
  <2>1. CASE PutBlocks(i) BY <2>1 DEF PutBlocks, IInv, TypeOK
  <2>2. CASE PutCancelled(i) \/ PutRefused(i) BY <2>2 DEF PutCancelled, PutRefused
  <2> QED BY <2>1, <2>2
<1>5. outcome \in [Items -> Outcomes] /\ outcome' \in [Items -> Outcomes]
  BY <1>1, <1>2 DEF TypeOK
<1>6. Queued' = Queued BY <1>1, <1>2, <1>5 DEF Queued, InPut
<1>7. TypeOK'
  <2>1. asleep' \subseteq Threads BY <1>2, <1>4 DEF TypeOK, Threads
  <2> QED BY <1>2, <1>3, <1>5, <2>1 DEF TypeOK
<1>8. SleepersWait' /\ NoLostWakeup'
  <2>1. ASSUME NEW j \in Items \cap asleep'
        PROVE  /\ outcome'[j] = "blocked" /\ Overflow = "block"
               /\ size' >= Capacity /\ ~closed'
    <3>1. CASE j = i BY <1>2, <1>4, <2>1, <3>1
    <3>2. CASE j # i
      <4>1. j \in asleep /\ outcome'[j] = outcome[j] BY <1>1, <1>4, <1>5, <2>1, <3>2
      <4> QED BY <1>2, <4>1 DEF IInv, SleepersWait, NoLostWakeup
    <3> QED BY <3>1, <3>2
  <2>2. Worker \in asleep' => Worker \in asleep
    BY <1>4, QueueAssumption DEF QueueAssumption
  <2>3. Unlocked' /\ Fills' = Fills BY <1>2 DEF Unlocked, Fills
  <2> QED BY <1>2, <2>1, <2>2, <2>3 DEF IInv, SleepersWait, NoLostWakeup
<1>9. LanesConsistent' /\ WithinCapacity' BY <1>2, <1>6, SameLanes DEF queueVars
<1> QED BY <1>7, <1>8, <1>9 DEF IInv

\* get_batch() going to sleep, returning, or starting and ending a drain.
LEMMA WorkerIInv ==
    ASSUME IInv, GetClosed \/ AwaitFirst \/ AwaitFill \/ StartDrain \/ DrainReturn
    PROVE  IInv'
<1>1. /\ UNCHANGED <<lanes, size, closed, counts, outcome, late, stamp, passed>>
      /\ batch' \in Seq(Items) /\ rows' \in Nat
      /\ worker' \in {"idle", "waitFirst", "waitFill", "drain"}
      /\ asleep' \in SUBSET (asleep \cup {Worker})
      /\ asleep \in SUBSET Threads
  <2>1. /\ UNCHANGED <<lanes, size, closed, counts, outcome, late, stamp, passed>>
        /\ worker' \in {"idle", "waitFirst", "waitFill", "drain"}
    BY DEF GetClosed, AwaitFirst, AwaitFill, StartDrain, DrainReturn, queueVars
  <2>2. UNCHANGED <<batch, rows>> \/ (batch' = <<>> /\ rows' = 0)
    BY DEF GetClosed, AwaitFirst, AwaitFill, StartDrain, DrainReturn
  <2>3. batch \in Seq(Items) /\ rows \in Nat /\ asleep \in SUBSET Threads
    BY DEF IInv, TypeOK
  <2>4. batch' \in Seq(Items) /\ rows' \in Nat
    <3>1. CASE UNCHANGED <<batch, rows>> BY <2>3, <3>1
    <3>2. CASE batch' = <<>> /\ rows' = 0
      <4>1. <<>> \in Seq(Items) OBVIOUS
      <4> QED BY <3>2, <4>1
    <3> QED BY <2>2, <3>1, <3>2
  <2>5. \/ asleep' = asleep \ {Worker} \/ asleep' = asleep \cup {Worker}
        \/ asleep' = {} \/ asleep' = asleep
    BY DEF GetClosed, AwaitFirst, AwaitFill, StartDrain, DrainReturn
  <2>6. asleep' \in SUBSET (asleep \cup {Worker}) BY <2>5
  <2> QED BY <2>1, <2>3, <2>4, <2>6
<1>2. TypeOK'
  <2>1. asleep' \subseteq Threads BY <1>1 DEF Threads
  <2> QED BY <1>1, <2>1 DEF IInv, TypeOK
<1>3. LanesConsistent' /\ WithinCapacity'
  <2>1. UNCHANGED queueVars /\ Queued' = Queued BY <1>1 DEF queueVars, Queued
  <2> QED BY <2>1, SameLanes
<1>4. Fills' = Fills /\ Worker \notin Items
  BY <1>1, QueueAssumption DEF Fills, QueueAssumption
<1>5. SleepersWait' /\ NoLostWakeup'
  <2>1. CASE DrainReturn
    <3>1. Items \cap asleep' = {} BY <2>1 DEF DrainReturn, IInv, SleepersWait
    <3>2. Worker \notin asleep' BY <2>1 DEF DrainReturn, IInv, SleepersWait
    <3> QED BY <3>1, <3>2 DEF SleepersWait, NoLostWakeup
  <2>2. CASE GetClosed \/ AwaitFirst \/ AwaitFill \/ StartDrain
    <3>1. Unlocked
      BY <2>2 DEF Unlocked, GetClosed, AwaitFirst, AwaitFill, StartDrain
    <3>2. \A j \in Items \cap asleep' : j \in asleep BY <1>1, <1>4
    <3>3. Worker \in asleep' => \/ worker' = "waitFirst" /\ size = 0 /\ ~closed
                                \/ worker' = "waitFill" /\ Fills
      BY <2>2 DEF GetClosed, AwaitFirst, AwaitFill, StartDrain
    <3>4. SleepersWait' BY <1>1, <3>2, <3>3 DEF IInv, SleepersWait
    <3>5. NoLostWakeup' BY <1>1, <1>4, <3>1, <3>2, <3>3 DEF IInv, NoLostWakeup
    <3> QED BY <3>4, <3>5
  <2> QED BY <2>1, <2>2
<1> QED BY <1>2, <1>3, <1>5 DEF IInv

\* One turn of the drain.  Nobody else runs, so only the lanes matter.
LEMMA DrainPopIInv == ASSUME IInv, DrainPop PROVE IInv'
<1>1. PICK p \in Levels :
         /\ DrainLane(p)
         /\ lanes' = [lanes EXCEPT ![p] = Pop(@)]
         /\ size' = size - 1
         /\ \/ /\ outcome' = [outcome EXCEPT ![Peek(lanes[p])] = "expired"]
               /\ Charge("expired", CameraOf[Peek(lanes[p])])
               /\ UNCHANGED <<batch, rows>>
            \/ /\ outcome' = [outcome EXCEPT ![Peek(lanes[p])] = "batched"]
               /\ batch' = Append(batch, Peek(lanes[p]))
               /\ rows' = rows + RowsIn(Peek(lanes[p]))
               /\ UNCHANGED counts
         /\ passed' = [passed EXCEPT ![p] =
               [d \in Cameras |->
                   IF d = CameraOf[Peek(lanes[p])] \/ lanes[p].by_key[d] = <<>>
                   THEN {} ELSE @[d] \cup {CameraOf[Peek(lanes[p])]}]]
  BY DEF DrainPop
<1> DEFINE i == Peek(lanes[p])
<1>2. /\ worker = "drain" /\ UNCHANGED <<closed, asleep, worker, late, stamp>>
      /\ TypeOK /\ lanes \in [Levels -> Lane] /\ size \in Nat
      /\ LanesHold(lanes, size, Queued) /\ Queued \in SUBSET Items
      /\ outcome \in [Items -> Outcomes]
  BY DEF DrainPop, IInv, TypeOK, LanesConsistent, Queued
<1>3. lanes[p].size > 0 BY <1>1 DEF DrainLane
<1>4. /\ i \in Queued
      /\ lanes' \in [Levels -> Lane]
      /\ LanesHold(lanes', size', Queued \ {i})
  BY <1>1, <1>2, <1>3, LanesPop
<1>5. /\ i \in Items /\ CameraOf[i] \in Cameras /\ RowsOf[i] \in Nat
      /\ Cardinality(Queued \ {i}) \in Nat
  BY <1>2, <1>4, SubsetFinite, QueueAssumption DEF QueueAssumption
<1>6. size' \in Nat BY <1>4, <1>5 DEF LanesHold
<1>7. PICK o \in {"expired", "batched"} : outcome' = [outcome EXCEPT ![i] = o] BY <1>1
<1>8. counts' \in [{"rejected", "evicted", "expired"} -> [Cameras -> Nat]]
  <2>1. CASE UNCHANGED counts BY <1>2, <2>1 DEF TypeOK
  <2>2. CASE Charge("expired", CameraOf[i]) BY <1>2, <1>5, <2>2 DEF TypeOK, Charge
  <2> QED BY <1>1, <2>1, <2>2
<1>9. batch' \in Seq(Items) /\ rows' \in Nat
  <2>1. \/ UNCHANGED <<batch, rows>>
        \/ batch' = Append(batch, i) /\ rows' = rows + RowsIn(i)
    BY <1>1
  <2>2. RowsIn(i) \in Nat /\ rows \in Nat /\ batch \in Seq(Items)
    BY <1>2, <1>5 DEF TypeOK, RowsIn
  <2> HIDE DEF i
  <2>3. CASE UNCHANGED <<batch, rows>> BY <2>2, <2>3
  <2>4. CASE batch' = Append(batch, i) /\ rows' = rows + RowsIn(i)
    <3>1. Append(batch, i) \in Seq(Items) BY <1>5, <2>2
    <3>2. rows + RowsIn(i) \in Nat BY <2>2
    <3> QED BY <2>4, <3>1, <3>2
  <2> QED BY <2>1, <2>3, <2>4
<1>10. passed' \in [Levels -> [Cameras -> SUBSET Cameras]]
  BY <1>1, <1>2, <1>5 DEF TypeOK
<1> HIDE DEF i
<1>11. Queued' = Queued \ {i} /\ outcome' \in [Items -> Outcomes]
  BY <1>2, <1>4, <1>5, <1>7 DEF Queued, Outcomes
<1>12. TypeOK' BY <1>2, <1>4, <1>6, <1>8, <1>9, <1>10, <1>11 DEF TypeOK
<1>13. LanesConsistent' BY <1>4, <1>11 DEF LanesConsistent
<1>14. WithinCapacity'
  BY <1>1, <1>2, QueueAssumption DEF IInv, WithinCapacity, QueueAssumption
<1>15. NoLostWakeup' BY <1>2 DEF NoLostWakeup, Unlocked
<1>16. SleepersWait'
  <2>1. ASSUME NEW j \in Items \cap asleep PROVE outcome'[j] = "blocked" /\ Overflow = "block"
    <3>1. outcome[j] = "blocked" /\ Overflow = "block" BY DEF IInv, SleepersWait
    <3>2. j # i BY <1>4, <3>1 DEF Queued
    <3> QED BY <1>2, <1>7, <3>1, <3>2
  <2> QED BY <1>2, <2>1 DEF IInv, SleepersWait
<1> QED BY <1>12, <1>13, <1>14, <1>15, <1>16 DEF IInv

LEMMA CloseIInv == ASSUME IInv, Close PROVE IInv'
<1>1. /\ closed' = TRUE /\ asleep' = {} /\ size' = 0
      /\ lanes' = [p \in Levels |-> EmptyLane]
      /\ outcome' = [i \in Items |->
                        IF outcome[i] = "queued" THEN "drained" ELSE outcome[i]]
      /\ passed' = [p \in Levels |-> [c \in Cameras |-> {}]]
      /\ UNCHANGED <<counts, worker, batch, rows, late, stamp>>
  BY DEF Close
<1>2. Queued' = {} /\ outcome' \in [Items -> Outcomes]
  BY <1>1 DEF Queued, IInv, TypeOK, Outcomes
<1>3. lanes' \in [Levels -> Lane] /\ LanesConsistent'
  BY <1>1, <1>2, LanesEmpty DEF LanesConsistent
<1>4. passed' \in [Levels -> [Cameras -> SUBSET Cameras]] BY <1>1
<1>5. TypeOK' BY <1>1, <1>2, <1>3, <1>4 DEF IInv, TypeOK
<1>6. WithinCapacity' BY <1>1, QueueAssumption DEF WithinCapacity, QueueAssumption
<1>7. SleepersWait' /\ NoLostWakeup' BY <1>1 DEF SleepersWait, NoLostWakeup
<1> QED BY <1>3, <1>5, <1>6, <1>7 DEF IInv

LEMMA FailDrainedIInv ==
    ASSUME IInv, NEW i \in Items, FailDrained(i) \/ DeadlinePasses(i) PROVE IInv'
<1>1. UNCHANGED <<lanes, size, closed, counts, asleep, worker, batch, rows, stamp, passed>>
  BY DEF FailDrained, DeadlinePasses, queueVars
<1>2. /\ TypeOK /\ outcome \in [Items -> Outcomes] BY DEF IInv, TypeOK
<1>3. /\ Queued' = Queued /\ outcome' \in [Items -> Outcomes] /\ late' \subseteq Items
      /\ \A j \in Items : outcome[j] = "blocked" => outcome'[j] = "blocked"
  <2>1. CASE FailDrained(i) BY <1>2, <2>1 DEF FailDrained, Queued, Outcomes, TypeOK
  <2>2. CASE DeadlinePasses(i) BY <1>2, <2>2 DEF DeadlinePasses, Queued, TypeOK
  <2> QED BY <2>1, <2>2
<1>4. TypeOK' BY <1>1, <1>2, <1>3 DEF TypeOK
<1>5. LanesConsistent' /\ WithinCapacity' BY <1>1, <1>3, SameLanes DEF queueVars
<1>6. SleepersWait' BY <1>1, <1>3 DEF IInv, SleepersWait
<1>7. NoLostWakeup' BY <1>1 DEF IInv, NoLostWakeup, Unlocked, Fills
<1> QED BY <1>4, <1>5, <1>6, <1>7 DEF IInv

LEMMA StutterIInv == ASSUME IInv, UNCHANGED vars PROVE IInv'
BY DEF vars, IInv, TypeOK, LanesConsistent, WithinCapacity, SleepersWait, NoLostWakeup,
       Queued, Unlocked, Fills

LEMMA NextIInv == IInv /\ [Next]_vars => IInv'
<1> SUFFICES ASSUME IInv, [Next]_vars PROVE IInv' OBVIOUS
<1>1. CASE UNCHANGED vars BY <1>1, StutterIInv
<1>2. ASSUME NEW i \in Items, Put(i) PROVE IInv'
  BY <1>2, PutAcceptedIInv, PutEvictingIInv, PutOtherIInv DEF Put
<1>3. ASSUME NEW i \in Items, FailDrained(i) \/ DeadlinePasses(i) PROVE IInv'
  BY <1>3, FailDrainedIInv
<1>4. CASE GetBatch BY <1>4, WorkerIInv, DrainPopIInv DEF GetBatch
<1>5. CASE Close BY <1>5, CloseIInv
<1> QED BY <1>1, <1>2, <1>3, <1>4, <1>5 DEF Next

-----------------------------------------------------------------------------
\* IInv holds throughout, whatever the cameras, priorities, capacity, overflow
\* policy and batch window of the fair queue.
THEOREM Inductive == Spec => []IInv
BY InitIInv, NextIInv, PTL DEF Spec

\* Every variable of the fair queue keeps to its type; in particular _size and
\* each lane's size never go below zero.
THEOREM TypeCorrect == Spec => []TypeOK
<1>1. IInv => TypeOK BY DEF IInv
<1> QED BY <1>1, Inductive, PTL

\* push, pop, evict_from_longest and close keep the depth counters, the
\* rotations and the buckets in step with the set of accepted requests.
THEOREM LanesStayConsistent == Spec => []LanesConsistent
<1>1. IInv => LanesConsistent BY DEF IInv
<1> QED BY <1>1, Inductive, PTL

\* The queue never holds more than its capacity.
THEOREM CapacityHolds == Spec => []WithinCapacity
<1>1. IInv => WithinCapacity BY DEF IInv
<1> QED BY <1>1, Inductive, PTL

\* One condition variable and a single notify per put() lose no wake-up.
THEOREM WakeupsAreNotLost == Spec => []NoLostWakeup
<1>1. IInv => NoLostWakeup BY DEF IInv
<1> QED BY <1>1, Inductive, PTL

-----------------------------------------------------------------------------
(* One lane.  RoundRobin and CameraOrder are not inductive by themselves:  *)
(* that the head of a bucket is its oldest rests on buckets being sorted   *)
(* by the time of acceptance, and that a camera joins the rotation with    *)
(* nobody ahead of it on its ledger rests on the ledger of a camera with   *)
(* nothing waiting being empty.                                            *)

Sorted(s, st) == \A k, m \in DOMAIN s : k < m => st[s[k]] < st[s[m]]

InTurn(ord, ps) == \A k, m \in DOMAIN ord : ord[k] \in ps[ord[m]] => m < k

LaneFair(lane, st, ps) ==
    /\ \A c \in Cameras : Sorted(lane.by_key[c], st)
    /\ \A c \in Cameras : lane.by_key[c] = <<>> => ps[c] = {}
    /\ InTurn(lane.order, ps)

LEMMA GrowShrink ==
    ASSUME NEW T, NEW s \in Seq(T), NEW e \in T
    PROVE  /\ Append(s, e) # <<>>
           /\ s # <<>> => (Len(s) = 1 <=> Tail(s) = <<>>)
<1>1. Append(s, e) \in Seq(T) /\ Len(Append(s, e)) = Len(s) + 1 /\ Len(s) \in Nat OBVIOUS
<1>2. Append(s, e) # <<>> BY <1>1
<1>3. s # <<>> => Tail(s) \in Seq(T) /\ Len(Tail(s)) = Len(s) - 1 OBVIOUS
<1>4. ASSUME s # <<>> PROVE Len(s) = 1 <=> Tail(s) = <<>>
  <2>1. Tail(s) = <<>> <=> Len(Tail(s)) = 0 BY <1>3, <1>4, EmptySeq
  <2> QED BY <1>1, <1>3, <1>4, <2>1
<1> QED BY <1>2, <1>4

LEMMA SortedAppend ==
    ASSUME NEW s \in Seq(Items), NEW i \in Items, i \notin ToSet(s),
           NEW st \in [Items -> Nat], NEW n \in Nat, \A j \in ToSet(s) : st[j] < n,
           Sorted(s, st)
    PROVE  Sorted(Append(s, i), [st EXCEPT ![i] = n])
<1> DEFINE a == Append(s, i)
           u == [st EXCEPT ![i] = n]
<1>1. /\ DOMAIN s = 1 .. Len(s) /\ Len(s) \in Nat
      /\ DOMAIN a = 1 .. Len(s) + 1
      /\ \A k \in 1 .. Len(s) : a[k] = s[k]
      /\ a[Len(s) + 1] = i
  OBVIOUS
<1>2. \A k \in 1 .. Len(s) : s[k] \in ToSet(s) /\ s[k] \in Items BY <1>1 DEF ToSet
<1>3. u[i] = n /\ \A j \in Items : j # i => u[j] = st[j] OBVIOUS
<1> HIDE DEF a, u
<1>4. \A k \in 1 .. Len(s) : u[a[k]] = st[s[k]] /\ st[s[k]] < n /\ st[s[k]] \in Nat
  BY <1>1, <1>2, <1>3
<1> SUFFICES ASSUME NEW k \in 1 .. Len(s) + 1, NEW m \in 1 .. Len(s) + 1, k < m
             PROVE  u[a[k]] < u[a[m]]
  BY <1>1 DEF Sorted, a, u
<1>5. k \in 1 .. Len(s) BY <1>1
<1>6. CASE m \in 1 .. Len(s)
  <2>1. st[s[k]] < st[s[m]] BY <1>1, <1>5, <1>6 DEF Sorted
  <2> QED BY <1>4, <1>5, <1>6, <2>1
<1>7. CASE m = Len(s) + 1
  <2>1. u[a[m]] = n BY <1>1, <1>3, <1>7
  <2> QED BY <1>4, <1>5, <2>1
<1>8. m \in 1 .. Len(s) \/ m = Len(s) + 1 BY <1>1
<1> QED BY <1>6, <1>7, <1>8

\* Stamps of others do not matter.
LEMMA SortedSame ==
    ASSUME NEW s \in Seq(Items), NEW i \in Items, i \notin ToSet(s),
           NEW st \in [Items -> Nat], NEW n, Sorted(s, st)
    PROVE  Sorted(s, [st EXCEPT ![i] = n])
<1>1. \A k \in DOMAIN s : s[k] \in Items /\ s[k] # i BY DEF ToSet
<1> QED BY <1>1 DEF Sorted

LEMMA SortedTail ==
    ASSUME NEW s \in Seq(Items), s # <<>>, IsInjective(s), NEW st, Sorted(s, st)
    PROVE  /\ Sorted(Tail(s), st)
           /\ \A j \in ToSet(s) \ {Head(s)} : st[Head(s)] < st[j]
<1> DEFINE t == Tail(s)
<1>1. /\ DOMAIN s = 1 .. Len(s) /\ Len(s) \in Nat \ {0}
      /\ DOMAIN t = 1 .. Len(s) - 1
      /\ \A k \in 1 .. Len(s) - 1 : t[k] = s[k + 1]
      /\ Head(s) = s[1]
  OBVIOUS
<1> HIDE DEF t
<1>2. Sorted(t, st)
  <2> SUFFICES ASSUME NEW k \in 1 .. Len(s) - 1, NEW m \in 1 .. Len(s) - 1, k < m
               PROVE  st[t[k]] < st[t[m]]
    BY <1>1 DEF Sorted
  <2>1. /\ k + 1 \in 1 .. Len(s) /\ m + 1 \in 1 .. Len(s) /\ k + 1 < m + 1
        /\ t[k] = s[k + 1] /\ t[m] = s[m + 1]
    BY <1>1
  <2> QED BY <1>1, <2>1 DEF Sorted
<1>3. ASSUME NEW j \in ToSet(s) \ {s[1]} PROVE st[s[1]] < st[j]
  <2>1. PICK k \in 1 .. Len(s) : s[k] = j BY <1>1 DEF ToSet
  <2>2. 1 \in 1 .. Len(s) /\ 1 < k BY <1>1, <2>1
  <2> QED BY <1>1, <2>1, <2>2 DEF Sorted
<1> QED BY <1>1, <1>2, <1>3 DEF t

\* A camera joins the rotation at its end, with an empty ledger.
LEMMA JoinInTurn ==
    ASSUME NEW ord \in Seq(Cameras), NEW c \in Cameras, NEW ps, ps[c] = {},
           InTurn(ord, ps)
    PROVE  InTurn(Append(ord, c), ps)
<1> DEFINE a == Append(ord, c)
<1>1. /\ DOMAIN ord = 1 .. Len(ord) /\ Len(ord) \in Nat
      /\ DOMAIN a = 1 .. Len(ord) + 1
      /\ \A k \in 1 .. Len(ord) : a[k] = ord[k]
      /\ a[Len(ord) + 1] = c
  OBVIOUS
<1> HIDE DEF a
<1> SUFFICES ASSUME NEW k \in 1 .. Len(ord) + 1, NEW m \in 1 .. Len(ord) + 1,
                    a[k] \in ps[a[m]]
             PROVE  m < k
  BY <1>1 DEF InTurn, a
<1>2. m \in 1 .. Len(ord) BY <1>1
<1>3. CASE k \in 1 .. Len(ord) BY <1>1, <1>2, <1>3 DEF InTurn
<1>4. CASE k = Len(ord) + 1 BY <1>1, <1>2, <1>4
<1> QED BY <1>1, <1>3, <1>4

\* A camera leaves the rotation and its ledger is cleared.
LEMMA LeaveInTurn ==
    ASSUME NEW ord \in Seq(Cameras), IsInjective(ord), NEW c \in ToSet(ord),
           NEW ps, InTurn(ord, ps)
    PROVE  InTurn(RemoveFirst(ord, c), ps)
<1> DEFINE r == RemoveFirst(ord, c)
           n(m, k) == IF m < k THEN m ELSE m + 1
<1>1. DOMAIN ord = 1 .. Len(ord) /\ Len(ord) \in Nat OBVIOUS
<1>2. PICK e \in 1 .. Len(ord) :
         /\ DOMAIN r = 1 .. Len(ord) - 1
         /\ \A m \in 1 .. Len(ord) - 1 : r[m] = IF m < e THEN ord[m] ELSE ord[m + 1]
  BY RemoveShifts
<1> HIDE DEF r
<1> SUFFICES ASSUME NEW k \in 1 .. Len(ord) - 1, NEW m \in 1 .. Len(ord) - 1,
                    r[k] \in ps[r[m]]
             PROVE  m < k
  BY <1>2 DEF InTurn, r
<1>3. /\ n(k, e) \in DOMAIN ord /\ n(m, e) \in DOMAIN ord
      /\ r[k] = ord[n(k, e)] /\ r[m] = ord[n(m, e)]
  BY <1>1, <1>2
<1>4. n(m, e) < n(k, e) BY <1>3 DEF InTurn
<1> QED BY <1>4

\* The head is served: it goes to the back (`o' is the rotation without it),
\* everybody still waiting notes it, its own ledger is cleared.
Served(ps, c, lane) ==
    [d \in Cameras |-> IF d = c \/ lane.by_key[d] = <<>> THEN {} ELSE ps[d] \cup {c}]

LEMMA ServeInTurn ==
    ASSUME NEW lane, NEW ord \in Seq(Cameras), ord # <<>>, IsInjective(ord), NEW ps,
           InTurn(ord, ps)
    PROVE  /\ InTurn(Tail(ord), Served(ps, Head(ord), lane))
           /\ InTurn(Append(Tail(ord), Head(ord)), Served(ps, Head(ord), lane))
<1> DEFINE c == Head(ord)
           t == Tail(ord)
           new == Served(ps, c, lane)
<1>1. /\ DOMAIN ord = 1 .. Len(ord) /\ Len(ord) \in Nat \ {0} /\ ord[1] = c
      /\ t \in Seq(Cameras) /\ DOMAIN t = 1 .. Len(ord) - 1
      /\ \A k \in 1 .. Len(ord) - 1 : t[k] = ord[k + 1]
      /\ c \in Cameras
  OBVIOUS
<1>2. \A k \in 1 .. Len(ord) - 1 : k + 1 \in DOMAIN ord /\ t[k] # c /\ t[k] \in Cameras
  BY <1>1 DEF IsInjective
<1>3. new[c] = {} /\ \A d \in Cameras : new[d] \in {{}, ps[d] \cup {c}} BY <1>1 DEF Served
<1> HIDE DEF c, t, new
<1>4. InTurn(t, new)
  <2> SUFFICES ASSUME NEW k \in 1 .. Len(ord) - 1, NEW m \in 1 .. Len(ord) - 1,
                      t[k] \in new[t[m]]
               PROVE  m < k
    BY <1>1 DEF InTurn
  <2>1. t[k] \in ps[t[m]] BY <1>2, <1>3
  <2>2. m + 1 < k + 1 BY <1>1, <1>2, <2>1 DEF InTurn
  <2> QED BY <2>2
<1>5. InTurn(Append(t, c), new) BY <1>1, <1>3, <1>4, JoinInTurn
<1> QED BY <1>4, <1>5 DEF c, t, new

LEMMA PushFair ==
    ASSUME NEW lane \in Lane, NEW S \in SUBSET Items, NEW i \in Items \ S,
           LaneHolds(lane, S), NEW st \in [Items -> Nat], NEW n \in Nat,
           \A j \in Items : st[j] < n, NEW ps, LaneFair(lane, st, ps)
    PROVE  LaneFair(Push(lane, i), [st EXCEPT ![i] = n], ps)
<1> DEFINE c == CameraOf[i]
           b == [lane.by_key EXCEPT ![c] = Append(@, i)]
           o == IF lane.by_key[c] = <<>> THEN Append(lane.order, c) ELSE lane.order
           u == [st EXCEPT ![i] = n]
<1>1. /\ c \in Cameras /\ lane.order \in Seq(Cameras)
      /\ lane.by_key \in [Cameras -> Seq(Items)]
      /\ \A d \in Cameras : i \notin ToSet(lane.by_key[d])
  BY QueueAssumption DEF QueueAssumption, Lane, LaneHolds, Own
<1>2. Push(lane, i).order = o /\ Push(lane, i).by_key = b BY DEF Push
<1>3. b[c] = Append(lane.by_key[c], i) /\ \A d \in Cameras : d # c => b[d] = lane.by_key[d]
  BY <1>1
<1> HIDE DEF b, c
<1>4. ASSUME NEW d \in Cameras PROVE Sorted(b[d], u)
  <2>1. lane.by_key[d] \in Seq(Items) /\ i \notin ToSet(lane.by_key[d])
        /\ Sorted(lane.by_key[d], st) /\ ToSet(lane.by_key[d]) \subseteq Items
    BY <1>1 DEF LaneFair, LaneHolds, Own
  <2>2. CASE d = c
    <3>1. Sorted(Append(lane.by_key[c], i), u) BY <2>1, <2>2, SortedAppend
    <3> QED BY <1>3, <2>2, <3>1
  <2>3. CASE d # c BY <1>3, <2>1, <2>3, SortedSame
  <2> QED BY <2>2, <2>3
<1>5. ASSUME NEW d \in Cameras, b[d] = <<>> PROVE ps[d] = {}
  <2>1. lane.by_key[c] \in Seq(Items) BY <1>1
  <2>2. Append(lane.by_key[c], i) # <<>> BY <2>1, GrowShrink
  <2> QED BY <1>3, <1>5, <2>2 DEF LaneFair
<1>6. InTurn(o, ps) BY <1>1, JoinInTurn DEF LaneFair
<1> HIDE DEF o, u
<1> QED BY <1>2, <1>4, <1>5, <1>6 DEF LaneFair, u

\* A lane that did not get the request does not notice its stamp.
LEMMA OtherFair ==
    ASSUME NEW lane \in Lane, NEW S \in SUBSET Items, NEW i \in Items \ S,
           LaneHolds(lane, S), NEW st \in [Items -> Nat], NEW n, NEW ps,
           LaneFair(lane, st, ps)
    PROVE  LaneFair(lane, [st EXCEPT ![i] = n], ps)
<1>1. ASSUME NEW d \in Cameras PROVE Sorted(lane.by_key[d], [st EXCEPT ![i] = n])
  <2>1. lane.by_key[d] \in Seq(Items) /\ i \notin ToSet(lane.by_key[d])
        /\ Sorted(lane.by_key[d], st)
    BY DEF Lane, LaneFair, LaneHolds, Own
  <2> QED BY <2>1, SortedSame
<1> QED BY <1>1 DEF LaneFair

\* The head of a bucket is its camera's oldest request in the lane.
LEMMA HeadOldest ==
    ASSUME NEW lane \in Lane, NEW S \in SUBSET Items, LaneHolds(lane, S),
           NEW st, NEW ps, LaneFair(lane, st, ps),
           NEW c \in Cameras, lane.by_key[c] # <<>>
    PROVE  /\ Sorted(Tail(lane.by_key[c]), st)
           /\ \A j \in S : (CameraOf[j] = c /\ j # Head(lane.by_key[c]))
                              => st[Head(lane.by_key[c])] < st[j]
<1>1. /\ lane.by_key[c] \in Seq(Items) /\ IsInjective(lane.by_key[c])
      /\ Sorted(lane.by_key[c], st) /\ ToSet(lane.by_key[c]) = Own(S, c)
  BY DEF Lane, LaneFair, LaneHolds
<1> QED BY <1>1, SortedTail DEF Own

LEMMA PopFair ==
    ASSUME NEW lane \in Lane, NEW S \in SUBSET Items, LaneHolds(lane, S), S # {},
           NEW st, NEW ps, LaneFair(lane, st, ps)
    PROVE  /\ LaneFair(Pop(lane), st, Served(ps, CameraOf[Peek(lane)], lane))
           /\ \A j \in S : (CameraOf[j] = CameraOf[Peek(lane)] /\ j # Peek(lane))
                              => st[Peek(lane)] < st[j]
<1> DEFINE c == Head(lane.order)
           t == Tail(lane.by_key[c])
           b == [lane.by_key EXCEPT ![c] = t]
           o == IF t = <<>> THEN Tail(lane.order) ELSE Append(Tail(lane.order), c)
           new == Served(ps, c, lane)
<1>1. /\ lane.order \in Seq(Cameras) /\ lane.order # <<>> /\ IsInjective(lane.order)
      /\ lane.by_key \in [Cameras -> Seq(Items)]
  BY LaneEmpty DEF Lane, LaneHolds
<1>2. c \in Cameras /\ c \in ToSet(lane.order) BY <1>1, TailUnique
<1>3. lane.by_key[c] # <<>> BY <1>2, LaneEmpty DEF LaneHolds
<1>4. CameraOf[Peek(lane)] = c
  <2>1. /\ lane.by_key[c] \in Seq(Items) /\ IsInjective(lane.by_key[c])
        /\ ToSet(lane.by_key[c]) = Own(S, c)
    BY <1>1, <1>2 DEF LaneHolds
  <2>2. Head(lane.by_key[c]) \in Own(S, c) BY <1>3, <2>1, TailUnique
  <2> QED BY <2>2 DEF Peek, Own
<1>5. Pop(lane).order = o /\ Pop(lane).by_key = b BY DEF Pop
<1>6. InTurn(o, new)
  <2>1. InTurn(lane.order, ps) BY DEF LaneFair
  <2>2. InTurn(Tail(lane.order), new) /\ InTurn(Append(Tail(lane.order), c), new)
    BY <1>1, <2>1, ServeInTurn
  <2> HIDE DEF new, t
  <2> QED BY <2>2
<1>7. /\ Sorted(t, st)
      /\ \A j \in S : (CameraOf[j] = c /\ j # Peek(lane)) => st[Peek(lane)] < st[j]
  BY <1>2, <1>3, HeadOldest DEF Peek
<1>8. b[c] = t /\ \A d \in Cameras : d # c => b[d] = lane.by_key[d] BY <1>1, <1>2
<1>9. \A d \in Cameras : (d = c \/ lane.by_key[d] = <<>>) => new[d] = {} BY DEF Served
<1> HIDE DEF b, c, t, o, new
<1>10. \A d \in Cameras : Sorted(b[d], st) BY <1>7, <1>8 DEF LaneFair
<1>11. \A d \in Cameras : b[d] = <<>> => new[d] = {} BY <1>8, <1>9
<1>12. LaneFair(Pop(lane), st, new) BY <1>5, <1>6, <1>10, <1>11 DEF LaneFair
<1> QED BY <1>4, <1>7, <1>12 DEF new

LEMMA EvictFair ==
    ASSUME NEW lane \in Lane, NEW S \in SUBSET Items, LaneHolds(lane, S),
           NEW st, NEW ps \in [Cameras -> SUBSET Cameras], LaneFair(lane, st, ps),
           NEW c \in Longest(lane)
    PROVE  /\ LaneFair(EvictFrom(lane, c), st,
                       [ps EXCEPT ![c] = IF Len(lane.by_key[c]) = 1 THEN {} ELSE @])
           /\ \A j \in S : (CameraOf[j] = c /\ j # Head(lane.by_key[c]))
                              => st[Head(lane.by_key[c])] < st[j]
<1> DEFINE t == Tail(lane.by_key[c])
           b == [lane.by_key EXCEPT ![c] = t]
           o == IF t = <<>> THEN RemoveFirst(lane.order, c) ELSE lane.order
           new == [ps EXCEPT ![c] = IF Len(lane.by_key[c]) = 1 THEN {} ELSE @]
<1>1. /\ c \in Cameras /\ lane.by_key[c] # <<>>
      /\ lane.order \in Seq(Cameras) /\ IsInjective(lane.order)
      /\ lane.by_key \in [Cameras -> Seq(Items)]
  BY DEF Longest, Lane, LaneHolds
<1>2. c \in ToSet(lane.order)
  <2>1. Own(S, c) # {} BY <1>1, LaneEmpty
  <2> QED BY <1>1, <2>1 DEF LaneHolds
<1>3. EvictFrom(lane, c).order = o /\ EvictFrom(lane, c).by_key = b BY DEF EvictFrom
<1>4. Len(lane.by_key[c]) = 1 <=> t = <<>>
  <2>1. lane.by_key[c] \in Seq(Items) /\ Head(lane.by_key[c]) \in Items BY <1>1
  <2> QED BY <1>1, <2>1, GrowShrink
<1>5. /\ Sorted(t, st)
      /\ \A j \in S : (CameraOf[j] = c /\ j # Head(lane.by_key[c]))
                         => st[Head(lane.by_key[c])] < st[j]
  BY <1>1, HeadOldest
<1>6. b[c] = t /\ \A d \in Cameras : d # c => b[d] = lane.by_key[d] BY <1>1
<1>7. /\ \A d \in Cameras : d # c => new[d] = ps[d]
      /\ new[c] = IF t = <<>> THEN {} ELSE ps[c]
  BY <1>1, <1>4
<1>8. InTurn(o, ps) BY <1>1, <1>2, LeaveInTurn DEF LaneFair
<1>9. o \in Seq(Cameras) BY <1>1, <1>2, RemoveUnique
<1> HIDE DEF b, t, o, new
<1>10. InTurn(o, new)
  <2>1. \A m \in DOMAIN o : new[o[m]] \subseteq ps[o[m]]
    <3>1. \A m \in DOMAIN o : o[m] \in Cameras BY <1>9
    <3> QED BY <1>7, <3>1
  <2> QED BY <1>8, <2>1 DEF InTurn
<1>11. \A d \in Cameras : Sorted(b[d], st) BY <1>5, <1>6 DEF LaneFair
<1>12. \A d \in Cameras : b[d] = <<>> => new[d] = {} BY <1>6, <1>7 DEF LaneFair
<1>13. LaneFair(EvictFrom(lane, c), st, new) BY <1>3, <1>10, <1>11, <1>12 DEF LaneFair
<1> QED BY <1>5, <1>13 DEF new

-----------------------------------------------------------------------------
(* A camera's requests of one priority leave in the order they came.       *)

SameLine(i, j) == CameraOf[i] = CameraOf[j] /\ PriorityOf[i] = PriorityOf[j]

OrderKept(oc, st) ==
    \A i, j \in Items :
        (st[i] > 0 /\ st[j] > 0 /\ SameLine(i, j) /\ st[i] < st[j] /\ oc[j] \in Left)
        => oc[i] # "queued"

LEMMA OrderIsKept == CameraOrder <=> OrderKept(outcome, stamp)
BY DEF CameraOrder, OrderKept, SameLine, Accepted

LEMMA LeaveKeepsOrder ==
    ASSUME NEW oc \in [Items -> Outcomes], NEW st \in [Items -> Nat], OrderKept(oc, st),
           NEW v \in Items, NEW o \in Left,
           \A j \in Items : (oc[j] = "queued" /\ SameLine(v, j) /\ j # v) => st[v] < st[j]
    PROVE  OrderKept([oc EXCEPT ![v] = o], st)
<1> DEFINE new == [oc EXCEPT ![v] = o]
<1>1. /\ new[v] = o /\ o # "queued" /\ \A j \in Items : j # v => new[j] = oc[j]
  BY DEF Left
<1> HIDE DEF new
<1> SUFFICES ASSUME NEW i \in Items, NEW j \in Items, st[i] > 0, st[j] > 0,
                    SameLine(i, j), st[i] < st[j], new[j] \in Left, new[i] = "queued"
             PROVE  FALSE
  BY DEF OrderKept, new
<1>2. i # v /\ oc[i] = "queued" BY <1>1
<1>3. CASE j = v
  <2>1. st[v] < st[i] BY <1>2, <1>3 DEF SameLine
  <2>2. st[v] \in Nat /\ st[i] \in Nat OBVIOUS
  <2> QED BY <1>3, <2>1, <2>2
<1>4. CASE j # v BY <1>1, <1>2, <1>4 DEF OrderKept
<1> QED BY <1>3, <1>4

LEMMA JoinKeepsOrder ==
    ASSUME NEW oc \in [Items -> Outcomes], NEW st \in [Items -> Nat], OrderKept(oc, st),
           NEW i \in Items, NEW n \in Nat, \A j \in Items : st[j] < n
    PROVE  OrderKept([oc EXCEPT ![i] = "queued"], [st EXCEPT ![i] = n])
<1> DEFINE new == [oc EXCEPT ![i] = "queued"]
           u == [st EXCEPT ![i] = n]
<1>1. /\ new[i] = "queued" /\ u[i] = n
      /\ \A j \in Items : j # i => new[j] = oc[j] /\ u[j] = st[j]
  OBVIOUS
<1> HIDE DEF new, u
<1> SUFFICES ASSUME NEW j \in Items, NEW k \in Items, u[j] > 0, u[k] > 0,
                    SameLine(j, k), u[j] < u[k], new[k] \in Left, new[j] = "queued"
             PROVE  FALSE
  BY DEF OrderKept, new, u
<1>2. k # i BY <1>1 DEF Left
<1>3. CASE j = i
  <2>1. u[k] < n /\ u[j] = n /\ u[k] \in Nat BY <1>1, <1>2, <1>3
  <2> QED BY <2>1
<1>4. CASE j # i BY <1>1, <1>2, <1>4 DEF OrderKept
<1> QED BY <1>3, <1>4

-----------------------------------------------------------------------------
(* The inductive invariant.                                                *)

\* put() has not accepted i yet, and positions are given out one by one.
Stamped ==
    \A i \in Items : /\ InPut(i) => stamp[i] = 0
                     /\ stamp[i] <= Cardinality(Accepted)

LanesFair(ls, st, pd) == \A p \in Levels : LaneFair(ls[p], st, pd[p])

FInv == /\ LanesFair(lanes, stamp, passed)
        /\ Stamped
        /\ CameraOrder
        /\ BatchWithinBudget

LEMMA LanesEmptyFair ==
    ASSUME NEW st
    PROVE  LanesFair([p \in Levels |-> EmptyLane], st,
                     [p \in Levels |-> [c \in Cameras |-> {}]])
BY DEF LanesFair, LaneFair, EmptyLane, Sorted, InTurn

LEMMA InitFInv == Init => FInv
<1> SUFFICES ASSUME Init PROVE FInv OBVIOUS
<1>1. LanesFair(lanes, stamp, passed) BY LanesEmptyFair DEF Init
<1>2. Accepted = {} BY DEF Init, Accepted
<1>3. Cardinality(Accepted) = 0 BY <1>2, FS_EmptySet
<1>4. Stamped BY <1>3 DEF Init, Stamped
<1>5. CameraOrder BY <1>2 DEF CameraOrder
<1>6. BatchWithinBudget
  BY QueueAssumption DEF Init, BatchWithinBudget, QueueAssumption
<1> QED BY <1>1, <1>4, <1>5, <1>6 DEF FInv

\* The tail of put() gives i the next position and files it behind the others
\* of its camera.
LEMMA EnqueueFair ==
    ASSUME TypeOK, FInv, NEW into \in [Levels -> Lane], NEW k \in Nat,
           NEW S \in SUBSET Items, NEW i \in Items \ S, LanesHold(into, k, S),
           NEW sleepers, Enqueue(i, into, k, sleepers), InPut(i),
           NEW pd, LanesFair(into, stamp, pd),
           NEW oc \in [Items -> Outcomes], OrderKept(oc, stamp),
           outcome' = [oc EXCEPT ![i] = "queued"],
           \A j \in Items : oc[j] \in {"new", "blocked"} => outcome[j] \in {"new", "blocked"}
    PROVE  LanesFair(lanes', stamp', pd) /\ CameraOrder' /\ Stamped'
<1> DEFINE n == Cardinality(Accepted) + 1
           q == PriorityOf[i]
<1>1. /\ lanes' = [into EXCEPT ![q] = Push(@, i)] /\ stamp' = [stamp EXCEPT ![i] = n]
      /\ stamp \in [Items -> Nat] /\ q \in Levels /\ Accepted \in SUBSET Items
  BY QueueAssumption DEF Enqueue, TypeOK, QueueAssumption, Accepted
<1>2. Cardinality(Accepted) \in Nat /\ IsFiniteSet(Accepted) /\ n \in Nat BY <1>1, SubsetFinite
<1>3. \A j \in Items : stamp[j] < n
  <2>1. \A j \in Items : stamp[j] \in Nat BY <1>1
  <2>2. \A j \in Items : stamp[j] <= Cardinality(Accepted)
    BY DEF FInv, Stamped
  <2> QED BY <1>2, <2>1, <2>2
<1>4. Cardinality(Accepted') = n
  <2>1. i \notin Accepted BY <1>1 DEF FInv, Stamped, Accepted
  <2>2. n > 0 BY <1>2
  <2>3. Accepted' = Accepted \cup {i} BY <1>1, <1>2, <2>2 DEF Accepted
  <2> QED BY <1>2, <2>1, <2>3, FS_AddElement
<1> HIDE DEF n
<1>5. CameraOrder'
  <2>1. OrderKept([oc EXCEPT ![i] = "queued"], [stamp EXCEPT ![i] = n])
    BY <1>1, <1>2, <1>3, JoinKeepsOrder
  <2>2. CameraOrder' <=> OrderKept(outcome', stamp')
    BY DEF CameraOrder, OrderKept, SameLine, Accepted
  <2> QED BY <1>1, <2>1, <2>2
<1>6. Stamped'
  <2> SUFFICES ASSUME NEW j \in Items
               PROVE  /\ outcome'[j] \in {"new", "blocked"} => stamp'[j] = 0
                      /\ stamp'[j] <= n
    BY <1>4 DEF Stamped, InPut
  <2>1. CASE j = i BY <1>1, <1>2, <2>1
  <2>2. CASE j # i
    <3>1. /\ outcome'[j] = oc[j] /\ stamp'[j] = stamp[j] /\ stamp[j] \in Nat
          /\ stamp[j] < n
      BY <1>1, <1>3, <2>2
    <3>2. InPut(j) => stamp[j] = 0 BY DEF FInv, Stamped
    <3> QED BY <1>2, <3>1, <3>2 DEF InPut
  <2> QED BY <2>1, <2>2
<1>7. LanesFair(lanes', stamp', pd)
  <2> SUFFICES ASSUME NEW p \in Levels PROVE LaneFair(lanes'[p], stamp', pd[p])
    BY DEF LanesFair
  <2>1. /\ into[p] \in Lane /\ LaneHolds(into[p], Filed(S, p))
        /\ Filed(S, p) \in SUBSET Items /\ i \in Items \ Filed(S, p)
        /\ LaneFair(into[p], stamp, pd[p])
    BY DEF LanesHold, Filed, LanesFair
  <2>2. CASE p = q
    <3>1. lanes'[p] = Push(into[p], i) BY <1>1, <2>2
    <3>2. LaneFair(Push(into[p], i), [stamp EXCEPT ![i] = n], pd[p])
      BY <1>1, <1>2, <1>3, <2>1, PushFair
    <3> QED BY <1>1, <3>1, <3>2
  <2>3. CASE p # q
    <3>1. lanes'[p] = into[p] BY <1>1, <2>3
    <3>2. LaneFair(into[p], [stamp EXCEPT ![i] = n], pd[p]) BY <1>1, <2>1, OtherFair
    <3> QED BY <1>1, <3>1, <3>2
  <2> QED BY <2>2, <2>3
<1> QED BY <1>5, <1>6, <1>7

LEMMA PutAcceptedFInv == ASSUME IInv, FInv, NEW i \in Items, PutAccepted(i) PROVE FInv'
<1>1. /\ TypeOK /\ lanes \in [Levels -> Lane] /\ size \in Nat
      /\ LanesHold(lanes, size, Queued) /\ Queued \in SUBSET Items
      /\ outcome \in [Items -> Outcomes]
  BY DEF IInv, TypeOK, LanesConsistent, Queued
<1>2. /\ Enqueue(i, lanes, size, asleep \ {i}) /\ InPut(i) /\ i \in Items \ Queued
      /\ outcome' = [outcome EXCEPT ![i] = "queued"] /\ UNCHANGED <<batch, rows, passed>>
  BY DEF PutAccepted, InPut, Queued
<1>3. LanesFair(lanes, stamp, passed) /\ OrderKept(outcome, stamp)
  BY OrderIsKept DEF FInv
<1>4. LanesFair(lanes', stamp', passed) /\ CameraOrder' /\ Stamped'
  BY <1>1, <1>2, <1>3, EnqueueFair
<1>5. BatchWithinBudget' BY <1>2 DEF FInv, BatchWithinBudget
<1> QED BY <1>2, <1>4, <1>5 DEF FInv

LEMMA PutEvictingFInv == ASSUME IInv, FInv, NEW i \in Items, PutEvicting(i) PROVE FInv'
<1>0. PICK v \in Levels : \E c \in Longest(lanes[v]) :
         /\ Enqueue(i, [lanes EXCEPT ![v] = EvictFrom(@, c)], size - 1, asleep)
         /\ outcome' = [outcome EXCEPT ![Head(lanes[v].by_key[c])] = "evicted",
                                       ![i] = "queued"]
         /\ passed' = [passed EXCEPT ![v][c] =
                          IF Len(lanes[v].by_key[c]) = 1 THEN {} ELSE @]
  BY DEF PutEvicting
<1>1. PICK c \in Longest(lanes[v]) :
         /\ Enqueue(i, [lanes EXCEPT ![v] = EvictFrom(@, c)], size - 1, asleep)
         /\ outcome' = [outcome EXCEPT ![Head(lanes[v].by_key[c])] = "evicted",
                                       ![i] = "queued"]
         /\ passed' = [passed EXCEPT ![v][c] =
                          IF Len(lanes[v].by_key[c]) = 1 THEN {} ELSE @]
  BY <1>0
<1> DEFINE victim == Head(lanes[v].by_key[c])
           into == [lanes EXCEPT ![v] = EvictFrom(@, c)]
           oc == [outcome EXCEPT ![victim] = "evicted"]
           ps == [passed[v] EXCEPT ![c] = IF Len(lanes[v].by_key[c]) = 1 THEN {} ELSE @]
           pd == [passed EXCEPT ![v] = ps]
<1>2. /\ TypeOK /\ lanes \in [Levels -> Lane] /\ size \in Nat /\ size >= Capacity
      /\ LanesHold(lanes, size, Queued) /\ Queued \in SUBSET Items
      /\ outcome \in [Items -> Outcomes] /\ stamp \in [Items -> Nat]
      /\ passed \in [Levels -> [Cameras -> SUBSET Cameras]]
      /\ InPut(i) /\ i \in Items \ Queued /\ UNCHANGED <<batch, rows>>
  BY DEF PutEvicting, IInv, TypeOK, LanesConsistent, Queued, InPut
<1>3. /\ victim \in Queued /\ CameraOf[victim] = c
      /\ into \in [Levels -> Lane]
      /\ LanesHold(into, size - 1, Queued \ {victim})
  BY <1>2, LanesEvict
<1>4. /\ LaneFair(EvictFrom(lanes[v], c), stamp, ps)
      /\ \A j \in Filed(Queued, v) :
            (CameraOf[j] = c /\ j # victim) => stamp[victim] < stamp[j]
  <2>1. /\ lanes[v] \in Lane /\ LaneHolds(lanes[v], Filed(Queued, v))
        /\ Filed(Queued, v) \in SUBSET Items /\ LaneFair(lanes[v], stamp, passed[v])
        /\ passed[v] \in [Cameras -> SUBSET Cameras]
    BY <1>2 DEF LanesHold, Filed, FInv, LanesFair
  <2> QED BY <2>1, EvictFair
<1>5. PriorityOf[victim] = v
  <2>1. /\ lanes[v] \in Lane /\ LaneHolds(lanes[v], Filed(Queued, v))
        /\ Filed(Queued, v) \in SUBSET Items
    BY <1>2 DEF LanesHold, Filed
  <2>2. victim \in Filed(Queued, v) BY <2>1, EvictHolds
  <2> QED BY <2>2 DEF Filed
<1>6. passed' = pd /\ outcome' = [oc EXCEPT ![i] = "queued"]
  BY <1>1, <1>2
<1> HIDE DEF victim
<1>7. LanesFair(into, stamp, pd)
  <2> SUFFICES ASSUME NEW p \in Levels PROVE LaneFair(into[p], stamp, pd[p])
    BY DEF LanesFair
  <2> HIDE DEF ps
  <2>1. CASE p = v BY <1>2, <1>4, <2>1
  <2>2. CASE p # v BY <1>2, <2>2 DEF FInv, LanesFair
  <2> QED BY <2>1, <2>2
<1>8. oc \in [Items -> Outcomes] /\ OrderKept(oc, stamp)
  <2>1. \A j \in Items :
           (outcome[j] = "queued" /\ SameLine(victim, j) /\ j # victim)
           => stamp[victim] < stamp[j]
    BY <1>3, <1>4, <1>5 DEF Queued, Filed, SameLine
  <2>2. OrderKept(outcome, stamp) BY OrderIsKept DEF FInv
  <2>3. victim \in Items /\ "evicted" \in Left BY <1>2, <1>3 DEF Left
  <2>4. OrderKept(oc, stamp) BY <1>2, <2>1, <2>2, <2>3, LeaveKeepsOrder
  <2>5. oc \in [Items -> Outcomes] BY <1>2 DEF Outcomes
  <2> QED BY <2>4, <2>5
<1>9. \A j \in Items : oc[j] \in {"new", "blocked"} => outcome[j] \in {"new", "blocked"}
  BY <1>2
<1>10. /\ Enqueue(i, into, size - 1, asleep) /\ size - 1 \in Nat
       /\ Queued \ {victim} \in SUBSET Items /\ i \in Items \ (Queued \ {victim})
  BY <1>1, <1>2, QueueAssumption DEF QueueAssumption
<1> HIDE DEF into, oc, pd
<1>11. LanesFair(lanes', stamp', pd) /\ CameraOrder' /\ Stamped'
  BY <1>2, <1>3, <1>6, <1>7, <1>8, <1>9, <1>10, EnqueueFair
<1>12. BatchWithinBudget' BY <1>2 DEF FInv, BatchWithinBudget
<1> QED BY <1>6, <1>11, <1>12 DEF FInv

\* What a step that neither moves a request in or out of the lanes nor stamps
\* one owes: it only takes requests out of put().
LEMMA QuietFInv ==
    ASSUME FInv, UNCHANGED <<lanes, stamp, passed, batch, rows>>,
           \A j \in Items : /\ outcome'[j] \in Left <=> outcome[j] \in Left
                            /\ outcome'[j] = "queued" => outcome[j] = "queued"
                            /\ outcome'[j] \in {"new", "blocked"} => InPut(j)
    PROVE  FInv'
<1>1. Accepted' = Accepted BY DEF Accepted
<1>2. LanesFair(lanes', stamp', passed') BY DEF FInv
<1>3. Stamped' BY <1>1 DEF FInv, Stamped, InPut
<1>4. CameraOrder'
  <2>1. \A j \in Accepted : j \in Items BY DEF Accepted
  <2> QED BY <1>1, <2>1 DEF FInv, CameraOrder
<1>5. BatchWithinBudget' BY DEF FInv, BatchWithinBudget
<1> QED BY <1>2, <1>3, <1>4, <1>5 DEF FInv

LEMMA PutOtherFInv ==
    ASSUME IInv, FInv, NEW i \in Items, PutCancelled(i) \/ PutRefused(i) \/ PutBlocks(i)
    PROVE  FInv'
<1>1. PICK o \in {"cancelled", "refused", "blocked"} : outcome' = [outcome EXCEPT ![i] = o]
  BY DEF PutCancelled, PutRefused, PutBlocks
<1>2. /\ UNCHANGED <<lanes, stamp, passed, batch, rows>> /\ InPut(i)
      /\ outcome \in [Items -> Outcomes]
  BY DEF PutCancelled, PutRefused, PutBlocks, queueVars, IInv, TypeOK
<1>3. ASSUME NEW j \in Items
      PROVE  /\ outcome'[j] \in Left <=> outcome[j] \in Left
             /\ outcome'[j] = "queued" => outcome[j] = "queued"
             /\ outcome'[j] \in {"new", "blocked"} => InPut(j)
  BY <1>1, <1>2 DEF InPut, Left
<1> QED BY <1>2, <1>3, QuietFInv

LEMMA AsideFInv ==
    ASSUME IInv, FInv, NEW i \in Items, FailDrained(i) \/ DeadlinePasses(i)
    PROVE  FInv'
<1>1. /\ UNCHANGED <<lanes, stamp, passed, batch, rows>>
      /\ outcome \in [Items -> Outcomes]
  BY DEF FailDrained, DeadlinePasses, queueVars, IInv, TypeOK
<1>2. ASSUME NEW j \in Items
      PROVE  /\ outcome'[j] \in Left <=> outcome[j] \in Left
             /\ outcome'[j] = "queued" => outcome[j] = "queued"
             /\ outcome'[j] \in {"new", "blocked"} => InPut(j)
  BY <1>1 DEF FailDrained, DeadlinePasses, InPut, Left
<1> QED BY <1>1, <1>2, QuietFInv

\* get_batch() apart from its pops: the lanes stay, a batch handed over is gone.
LEMMA WorkerFInv ==
    ASSUME IInv, FInv, GetClosed \/ AwaitFirst \/ AwaitFill \/ StartDrain \/ DrainReturn
    PROVE  FInv'
<1>1. /\ UNCHANGED <<lanes, stamp, passed, outcome>>
      /\ UNCHANGED <<batch, rows>> \/ (batch' = <<>> /\ rows' = 0)
  BY DEF GetClosed, AwaitFirst, AwaitFill, StartDrain, DrainReturn, queueVars
<1>2. Accepted' = Accepted BY <1>1 DEF Accepted
<1>3. BatchWithinBudget'
  BY <1>1, QueueAssumption DEF FInv, BatchWithinBudget, QueueAssumption
<1> QED BY <1>1, <1>2, <1>3 DEF FInv, LanesFair, Stamped, InPut, CameraOrder

LEMMA CloseFInv == ASSUME IInv, FInv, Close PROVE FInv'
<1>1. /\ lanes' = [p \in Levels |-> EmptyLane]
      /\ outcome' = [i \in Items |->
                        IF outcome[i] = "queued" THEN "drained" ELSE outcome[i]]
      /\ passed' = [p \in Levels |-> [c \in Cameras |-> {}]]
      /\ UNCHANGED <<batch, rows, stamp>>
  BY DEF Close
<1>2. LanesFair(lanes', stamp', passed') BY <1>1, LanesEmptyFair
<1>3. Accepted' = Accepted BY <1>1 DEF Accepted
<1>4. Stamped' BY <1>1, <1>3 DEF FInv, Stamped, InPut
<1>5. CameraOrder'
  <2>1. \A j \in Accepted : j \in Items BY DEF Accepted
  <2>2. \A j \in Items : outcome'[j] # "queued" BY <1>1
  <2> QED BY <1>3, <2>1, <2>2 DEF CameraOrder
<1>6. BatchWithinBudget' BY <1>1 DEF FInv, BatchWithinBudget
<1> QED BY <1>2, <1>4, <1>5, <1>6 DEF FInv

\* One turn of the drain: the head of the rotation gives up its oldest request.
LEMMA DrainPopFInv == ASSUME IInv, FInv, DrainPop PROVE FInv'
<1>1. PICK p \in Levels :
         /\ DrainLane(p)
         /\ ~OverBudget(Peek(lanes[p]))
         /\ lanes' = [lanes EXCEPT ![p] = Pop(@)]
         /\ \/ /\ outcome' = [outcome EXCEPT ![Peek(lanes[p])] = "expired"]
               /\ UNCHANGED <<batch, rows>>
            \/ /\ outcome' = [outcome EXCEPT ![Peek(lanes[p])] = "batched"]
               /\ batch' = Append(batch, Peek(lanes[p]))
               /\ rows' = rows + RowsIn(Peek(lanes[p]))
         /\ passed' = [passed EXCEPT ![p] =
               [d \in Cameras |->
                   IF d = CameraOf[Peek(lanes[p])] \/ lanes[p].by_key[d] = <<>>
                   THEN {} ELSE @[d] \cup {CameraOf[Peek(lanes[p])]}]]
  BY DEF DrainPop
<1> DEFINE i == Peek(lanes[p])
           ps == Served(passed[p], CameraOf[i], lanes[p])
<1>2. /\ UNCHANGED stamp /\ TypeOK /\ lanes \in [Levels -> Lane]
      /\ LanesHold(lanes, size, Queued) /\ Queued \in SUBSET Items
      /\ outcome \in [Items -> Outcomes] /\ stamp \in [Items -> Nat]
      /\ passed \in [Levels -> [Cameras -> SUBSET Cameras]]
      /\ batch \in Seq(Items) /\ rows \in Nat
  BY DEF DrainPop, IInv, TypeOK, LanesConsistent, Queued
<1>3. /\ lanes[p] \in Lane /\ LaneHolds(lanes[p], Filed(Queued, p))
      /\ Filed(Queued, p) \in SUBSET Items /\ LaneFair(lanes[p], stamp, passed[p])
  BY <1>2 DEF LanesHold, Filed, FInv, LanesFair
<1>4. Filed(Queued, p) # {} BY <1>1, <1>3, LaneEmpty DEF DrainLane
<1>5. /\ i \in Filed(Queued, p)
      /\ LaneFair(Pop(lanes[p]), stamp, ps)
      /\ \A j \in Filed(Queued, p) :
            (CameraOf[j] = CameraOf[i] /\ j # i) => stamp[i] < stamp[j]
  BY <1>3, <1>4, PopHolds, PopFair
<1>6. passed' = [passed EXCEPT ![p] = ps] BY <1>1 DEF Served
<1>7. i \in Items /\ PriorityOf[i] = p BY <1>2, <1>5 DEF Filed
<1> HIDE DEF i, ps
<1>8. LanesFair(lanes', stamp', passed')
  <2> SUFFICES ASSUME NEW q \in Levels PROVE LaneFair(lanes'[q], stamp, passed'[q])
    BY <1>2 DEF LanesFair
  <2>1. CASE q = p BY <1>1, <1>2, <1>5, <1>6, <2>1
  <2>2. CASE q # p BY <1>1, <1>2, <1>6, <2>2 DEF FInv, LanesFair
  <2> QED BY <2>1, <2>2
<1>9. PICK o \in {"expired", "batched"} : outcome' = [outcome EXCEPT ![i] = o]
  BY <1>1 DEF i
<1>10. CameraOrder'
  <2>1. \A j \in Items :
           (outcome[j] = "queued" /\ SameLine(i, j) /\ j # i) => stamp[i] < stamp[j]
    BY <1>5, <1>7 DEF Queued, Filed, SameLine
  <2>2. OrderKept(outcome, stamp) BY OrderIsKept DEF FInv
  <2>3. o \in Left BY DEF Left
  <2>4. OrderKept(outcome', stamp')
    BY <1>2, <1>7, <1>9, <2>1, <2>2, <2>3, LeaveKeepsOrder
  <2>5. CameraOrder' <=> OrderKept(outcome', stamp')
    BY DEF CameraOrder, OrderKept, SameLine, Accepted
  <2> QED BY <2>4, <2>5
<1>11. Stamped'
  <2>1. Accepted' = Accepted BY <1>2 DEF Accepted
  <2>2. \A j \in Items : outcome'[j] \in {"new", "blocked"} => InPut(j)
    BY <1>2, <1>9 DEF InPut
  <2> QED BY <1>2, <2>1, <2>2 DEF FInv, Stamped, InPut
<1>12. BatchWithinBudget'
  <2>1. CASE UNCHANGED <<batch, rows>> BY <2>1 DEF FInv, BatchWithinBudget
  <2>2. CASE batch' = Append(batch, i) /\ rows' = rows + RowsIn(i)
    <3>1. batch = <<>> \/ ~(rows + RowsIn(i) > MaxBatch) BY <1>1 DEF OverBudget, i
    <3>2. CASE batch = <<>> BY <1>7, <2>2, <3>2 DEF BatchWithinBudget
    <3>3. CASE ~(rows + RowsIn(i) > MaxBatch)
      <4>1. RowsIn(i) \in Nat /\ MaxBatch \in Nat
        BY <1>7, QueueAssumption DEF RowsIn, QueueAssumption
      <4> QED BY <1>2, <2>2, <3>3, <4>1 DEF BatchWithinBudget
    <3> QED BY <3>1, <3>2, <3>3
  <2> QED BY <1>1, <2>1, <2>2 DEF i
<1> QED BY <1>8, <1>10, <1>11, <1>12 DEF FInv

LEMMA NextFInv == IInv /\ FInv /\ [Next]_vars => FInv'
<1> SUFFICES ASSUME IInv, FInv, [Next]_vars PROVE FInv' OBVIOUS
<1>1. CASE UNCHANGED vars
  <2>1. UNCHANGED <<lanes, stamp, passed, batch, rows, outcome>> BY <1>1 DEF vars
  <2> QED BY <2>1, QuietFInv DEF InPut
<1>2. ASSUME NEW i \in Items, Put(i) PROVE FInv'
  BY <1>2, PutAcceptedFInv, PutEvictingFInv, PutOtherFInv DEF Put
<1>3. ASSUME NEW i \in Items, FailDrained(i) \/ DeadlinePasses(i) PROVE FInv'
  BY <1>3, AsideFInv
<1>4. CASE GetBatch BY <1>4, WorkerFInv, DrainPopFInv DEF GetBatch
<1>5. CASE Close BY <1>5, CloseFInv
<1> QED BY <1>1, <1>2, <1>3, <1>4, <1>5 DEF Next

-----------------------------------------------------------------------------
\* Whatever the cameras, priorities, capacity and policy: no camera is served
\* twice while another waits in its lane, a camera's own requests leave in the
\* order put() accepted them, a batch holds no more rows than its budget unless
\* it is one request, and the queue no more than its capacity.
THEOREM ServesFairly == Spec => []FairService
<1>1. IInv /\ FInv => FairService
  BY DEF IInv, FInv, LanesFair, LaneFair, InTurn, FairService, RoundRobin
<1>2. Init => IInv /\ FInv BY InitIInv, InitFInv
<1>3. IInv /\ FInv /\ [Next]_vars => IInv' /\ FInv' BY NextIInv, NextFInv
<1> QED BY <1>1, <1>2, <1>3, PTL DEF Spec

-----------------------------------------------------------------------------
(* Who is evicted, and who is charged.                                     *)

LEMMA UniqueCount ==
    ASSUME NEW T, NEW s \in Seq(T), IsInjective(s)
    PROVE  Cardinality(ToSet(s)) = Len(s)
<1>1. Len(s) \in Nat /\ DOMAIN s = 1 .. Len(s) OBVIOUS
<1>2. s \in [1 .. Len(s) -> ToSet(s)] BY <1>1 DEF ToSet
<1>3. s \in Surjection(1 .. Len(s), ToSet(s)) BY <1>1, <1>2 DEF Surjection, ToSet
<1>4. s \in Injection(1 .. Len(s), ToSet(s)) BY <1>2 DEF Injection
<1>5. ExistsBijection(1 .. Len(s), ToSet(s)) BY <1>3, <1>4 DEF ExistsBijection, Bijection
<1> QED BY <1>1, <1>5, FS_CountingElements

\* The lowest lane with anything in it gives up a request of a camera that has
\* no fewer there than any other.
LEMMA VictimIsLoudest ==
    ASSUME IInv, NEW v \in Levels, NEW c \in Longest(lanes[v]), VictimLane(v)
    PROVE  LET victim == Head(lanes[v].by_key[c])
               Held(d) == {j \in Queued : PriorityOf[j] = v /\ CameraOf[j] = d}
           IN  /\ PriorityOf[victim] = v /\ CameraOf[victim] = c
               /\ \A j \in Queued : PriorityOf[j] <= v
               /\ \A d \in Cameras : Cardinality(Held(d)) <= Cardinality(Held(c))
<1> DEFINE victim == Head(lanes[v].by_key[c])
           Held(d) == {j \in Queued : PriorityOf[j] = v /\ CameraOf[j] = d}
<1>1. /\ lanes \in [Levels -> Lane] /\ Queued \in SUBSET Items
      /\ \A p \in Levels : LaneHolds(lanes[p], Filed(Queued, p))
      /\ \A p \in Levels : Filed(Queued, p) \in SUBSET Items
  BY DEF IInv, TypeOK, LanesConsistent, LanesHold, Queued, Filed
<1>2. victim \in Filed(Queued, v) /\ CameraOf[victim] = c BY <1>1, EvictHolds
<1>3. ASSUME NEW j \in Queued PROVE PriorityOf[j] <= v
  <2>1. PriorityOf[j] \in Levels /\ \A p \in Levels : p \in Int
    BY <1>1, QueueAssumption DEF QueueAssumption, Levels
  <2>2. Filed(Queued, PriorityOf[j]) # {} BY DEF Filed
  <2>3. lanes[PriorityOf[j]].order # <<>> BY <1>1, <2>1, <2>2, LaneEmpty
  <2>4. ~(PriorityOf[j] > v) BY <2>1, <2>3 DEF VictimLane
  <2> QED BY <2>1, <2>4
<1>4. ASSUME NEW d \in Cameras PROVE Cardinality(Held(d)) = Len(lanes[v].by_key[d])
  <2>1. Held(d) = Own(Filed(Queued, v), d) BY DEF Own, Filed
  <2>2. /\ lanes[v].by_key[d] \in Seq(Items) /\ IsInjective(lanes[v].by_key[d])
        /\ ToSet(lanes[v].by_key[d]) = Own(Filed(Queued, v), d)
    BY <1>1 DEF Lane, LaneHolds
  <2> QED BY <2>1, <2>2, UniqueCount
<1>5. c \in Cameras /\ \A d \in Cameras : Len(lanes[v].by_key[d]) <= Len(lanes[v].by_key[c])
  BY DEF Longest
<1>6. \A d \in Cameras : Cardinality(Held(d)) <= Cardinality(Held(c)) BY <1>4, <1>5
<1>7. PriorityOf[victim] = v BY <1>2 DEF Filed
<1> QED BY <1>2, <1>3, <1>6, <1>7

Loudest(i) ==
    LET Held(c) == {j \in Queued : PriorityOf[j] = PriorityOf[i] /\ CameraOf[j] = c}
    IN  /\ \A j \in Queued : PriorityOf[j] <= PriorityOf[i]
        /\ \A c \in Cameras : Cardinality(Held(c)) <= Cardinality(Held(CameraOf[i]))

LEMMA EvictsLoudest ==
    ASSUME IInv, [Next]_vars, NEW i \in Queued, outcome'[i] = "evicted"
    PROVE  Loudest(i)
<1>1. outcome \in [Items -> Outcomes] /\ i \in Items /\ outcome[i] = "queued"
  BY DEF IInv, TypeOK, Queued
<1>2. CASE UNCHANGED vars BY <1>1, <1>2 DEF vars
<1>3. ASSUME NEW k \in Items, Put(k) PROVE Loudest(i)
  <2>1. CASE PutEvicting(k)
    <3>1. PICK v \in Levels : \E c \in Longest(lanes[v]) :
             /\ VictimLane(v)
             /\ outcome' = [outcome EXCEPT ![Head(lanes[v].by_key[c])] = "evicted",
                                           ![k] = "queued"]
      BY <2>1 DEF PutEvicting
    <3>2. PICK c \in Longest(lanes[v]) :
             /\ VictimLane(v)
             /\ outcome' = [outcome EXCEPT ![Head(lanes[v].by_key[c])] = "evicted",
                                           ![k] = "queued"]
      BY <3>1
    <3>3. i = Head(lanes[v].by_key[c]) BY <1>1, <3>2
    <3> QED BY <3>2, <3>3, VictimIsLoudest DEF Loudest
  <2>2. CASE PutCancelled(k) BY <1>1, <2>2 DEF PutCancelled
  <2>3. CASE PutAccepted(k) BY <1>1, <2>3 DEF PutAccepted
  <2>4. CASE PutRefused(k) BY <1>1, <2>4 DEF PutRefused
  <2>5. CASE PutBlocks(k) BY <1>1, <2>5 DEF PutBlocks
  <2> QED BY <1>3, <2>1, <2>2, <2>3, <2>4, <2>5 DEF Put
<1>4. ASSUME NEW k \in Items, FailDrained(k) \/ DeadlinePasses(k) PROVE Loudest(i)
  BY <1>1, <1>4 DEF FailDrained, DeadlinePasses
<1>5. CASE GetBatch
  <2>1. CASE DrainPop
    <3>1. \E p \in Levels : \E o \in {"expired", "batched"} :
             outcome' = [outcome EXCEPT ![Peek(lanes[p])] = o]
      BY <2>1 DEF DrainPop
    <3> QED BY <1>1, <3>1
  <2>2. CASE GetClosed \/ AwaitFirst \/ AwaitFill \/ StartDrain \/ DrainReturn
    BY <1>1, <2>2 DEF GetClosed, AwaitFirst, AwaitFill, StartDrain, DrainReturn
  <2> QED BY <1>5, <2>1, <2>2 DEF GetBatch
<1>6. CASE Close BY <1>1, <1>6 DEF Close
<1> QED BY <1>2, <1>3, <1>4, <1>5, <1>6 DEF Next

\* A closed queue is empty, so nothing in it can expire or be evicted.
ClosedIsEmpty == closed => Queued = {}

LEMMA NextClosedIsEmpty == IInv /\ ClosedIsEmpty /\ [Next]_vars => ClosedIsEmpty'
<1> SUFFICES ASSUME IInv, ClosedIsEmpty, [Next]_vars PROVE ClosedIsEmpty' OBVIOUS
<1>1. outcome \in [Items -> Outcomes] /\ closed \in BOOLEAN BY DEF IInv, TypeOK
<1>2. CASE UNCHANGED vars BY <1>2 DEF vars, ClosedIsEmpty, Queued
<1>3. ASSUME NEW k \in Items, Put(k) PROVE ClosedIsEmpty'
  <2>1. CASE PutCancelled(k)
    BY <1>1, <2>1 DEF PutCancelled, queueVars, ClosedIsEmpty, Queued
  <2>2. CASE ~closed /\ UNCHANGED closed BY <2>2 DEF ClosedIsEmpty
  <2> QED BY <1>3, <2>1, <2>2
        DEF Put, PutAccepted, PutRefused, PutBlocks, PutEvicting, queueVars
<1>4. ASSUME NEW k \in Items, FailDrained(k) \/ DeadlinePasses(k) PROVE ClosedIsEmpty'
  BY <1>1, <1>4 DEF FailDrained, DeadlinePasses, queueVars, ClosedIsEmpty, Queued
<1>5. CASE GetBatch
  <2>1. CASE DrainPop
    <3>1. PICK p \in Levels : \E o \in {"expired", "batched"} :
             outcome' = [outcome EXCEPT ![Peek(lanes[p])] = o]
      BY <2>1 DEF DrainPop
    <3>2. UNCHANGED closed BY <2>1 DEF DrainPop
    <3> QED BY <1>1, <3>1, <3>2 DEF ClosedIsEmpty, Queued
  <2>2. CASE GetClosed \/ AwaitFirst \/ AwaitFill \/ StartDrain \/ DrainReturn
    BY <2>2 DEF GetClosed, AwaitFirst, AwaitFill, StartDrain, DrainReturn, queueVars,
                ClosedIsEmpty, Queued
  <2> QED BY <1>5, <2>1, <2>2 DEF GetBatch
<1>6. CASE Close
  <2>1. Queued' = {} BY <1>1, <1>6 DEF Close, Queued
  <2> QED BY <2>1 DEF ClosedIsEmpty
<1> QED BY <1>2, <1>3, <1>4, <1>5, <1>6 DEF Next

LEMMA ClosedChargesNobody ==
    ASSUME IInv, ClosedIsEmpty, [Next]_vars, closed PROVE counts' = counts
<1>1. CASE UNCHANGED vars BY <1>1 DEF vars
<1>2. ASSUME NEW k \in Items, Put(k) PROVE counts' = counts
  BY <1>2 DEF Put, PutCancelled, PutAccepted, PutRefused, PutBlocks, PutEvicting
<1>3. ASSUME NEW k \in Items, FailDrained(k) \/ DeadlinePasses(k) PROVE counts' = counts
  BY <1>3 DEF FailDrained, DeadlinePasses
<1>4. CASE GetBatch
  <2>1. ~DrainPop
    <3>1. ASSUME NEW p \in Levels PROVE ~(lanes[p].size > 0)
      <4>1. /\ lanes[p] \in Lane /\ Filed(Queued, p) = {}
            /\ LaneHolds(lanes[p], Filed(Queued, p))
        BY DEF IInv, TypeOK, LanesConsistent, LanesHold, ClosedIsEmpty, Filed
      <4> QED BY <4>1, LaneEmpty
    <3> QED BY <3>1 DEF DrainPop, DrainLane
  <2> QED BY <1>4, <2>1 DEF GetBatch, GetClosed, AwaitFirst, AwaitFill, StartDrain, DrainReturn
<1>5. CASE Close BY <1>5 DEF Close
<1> QED BY <1>1, <1>2, <1>3, <1>4, <1>5 DEF Next

\* DROP_OLDEST takes its victim from the camera with the most requests in the
\* lowest priority waiting, and what close() drains is charged to no camera.
THEOREM NobodyPaysForOthers == Spec => NoCameraWronged
<1>1. Init => IInv /\ ClosedIsEmpty BY InitIInv DEF Init, ClosedIsEmpty
<1>2. IInv /\ ClosedIsEmpty /\ [Next]_vars => IInv' /\ ClosedIsEmpty'
  BY NextIInv, NextClosedIsEmpty
<1>3. IInv /\ [Next]_vars
         => [\A i \in Queued : outcome'[i] = "evicted" => Loudest(i)]_vars
  BY EvictsLoudest
<1>4. IInv /\ ClosedIsEmpty /\ [Next]_vars => [closed => counts' = counts]_vars
  BY ClosedChargesNobody
<1> QED BY <1>1, <1>2, <1>3, <1>4, PTL
        DEF Spec, NoCameraWronged, EvictsTheLoudest, ShutdownChargesNobody, Loudest

-----------------------------------------------------------------------------
(* The fair queue implements the contract.  A caller asleep in put() looks *)
(* like one that has not called it yet.                                    *)

Seen == [i \in Items |-> IF outcome[i] = "blocked" THEN "new" ELSE outcome[i]]

LEMMA SameCount == ASSUME NEW S PROVE Contract!Cardinality(S) = Cardinality(S)
BY DEF Contract!Cardinality, Cardinality

LEMMA SeenQueued ==
    ASSUME IInv
    PROVE  /\ Contract!Waiting = Queued
           /\ size = Cardinality(Contract!Waiting)
           /\ size <= Capacity /\ size \in Nat
<1>1. Contract!Waiting = Queued BY DEF Contract!Waiting, Contract!With, Queued
<1> QED BY <1>1 DEF IInv, TypeOK, LanesConsistent, LanesHold, WithinCapacity

\* One put() call, as its caller sees it.
LEMMA SeenPut ==
    ASSUME IInv, NEW i \in Items, Put(i)
    PROVE  Contract!Next \/ UNCHANGED <<Seen, closed>>
<1>1. /\ outcome \in [Items -> Outcomes] /\ closed \in BOOLEAN
      /\ Capacity \in Nat /\ size = Cardinality(Contract!Waiting)
      /\ size <= Capacity /\ size \in Nat
  BY SeenQueued, QueueAssumption DEF IInv, TypeOK, QueueAssumption
<1>2. ASSUME NEW o \in Outcomes \ {"blocked"}, outcome' = [outcome EXCEPT ![i] = o]
      PROVE  Seen' = [Seen EXCEPT ![i] = o]
  BY <1>1, <1>2 DEF Seen
<1>3. Put(i) => InPut(i) /\ Seen[i] = "new"
  BY DEF Put, PutCancelled, PutAccepted, PutRefused, PutBlocks, PutEvicting, InPut, Seen
<1>4. CASE PutCancelled(i)
  <2>1. Seen' = [Seen EXCEPT ![i] = "cancelled"] /\ closed /\ closed' = closed
    BY <1>2, <1>4 DEF PutCancelled, Outcomes, queueVars
  <2>2. Contract!CancelPut(i) BY <1>3, <2>1 DEF Contract!CancelPut, Seen
  <2> QED BY <2>2 DEF Contract!Next
<1>5. CASE PutAccepted(i)
  <2>1. Seen' = [Seen EXCEPT ![i] = "queued"] /\ ~closed /\ closed' = closed /\ size < Capacity
    BY <1>2, <1>5 DEF PutAccepted, Outcomes
  <2>2. Contract!Accept(i) BY <1>1, <1>3, <2>1, SameCount DEF Contract!Accept, Seen
  <2> QED BY <2>2 DEF Contract!Next
<1>6. CASE PutRefused(i)
  <2>1. /\ Seen' = [Seen EXCEPT ![i] = "refused"] /\ ~closed /\ closed' = closed
        /\ size >= Capacity /\ Overflow # "drop_oldest"
    BY <1>2, <1>6 DEF PutRefused, Outcomes, queueVars
  <2>2. Contract!Refuse(i) BY <1>1, <1>3, <2>1, SameCount DEF Contract!Refuse, Seen
  <2> QED BY <2>2 DEF Contract!Next
<1>7. CASE PutBlocks(i)
  <2>1. outcome' = [outcome EXCEPT ![i] = "blocked"] /\ closed' = closed /\ InPut(i)
    BY <1>7 DEF PutBlocks, queueVars
  <2>2. Seen' = Seen BY <1>1, <2>1 DEF Seen, InPut
  <2> QED BY <2>1, <2>2
<1>8. CASE PutEvicting(i)
  <2>1. PICK v \in Levels : \E c \in Longest(lanes[v]) :
           outcome' = [outcome EXCEPT ![Head(lanes[v].by_key[c])] = "evicted", ![i] = "queued"]
    BY <1>8 DEF PutEvicting
  <2>2. PICK c \in Longest(lanes[v]) :
           outcome' = [outcome EXCEPT ![Head(lanes[v].by_key[c])] = "evicted", ![i] = "queued"]
    BY <2>1
  <2>3. /\ ~closed /\ closed' = closed /\ size >= Capacity /\ Overflow = "drop_oldest"
        /\ InPut(i)
    BY <1>8 DEF PutEvicting
  <2>4. Head(lanes[v].by_key[c]) \in Queued
    <3>1. /\ lanes \in [Levels -> Lane] /\ Queued \in SUBSET Items
          /\ LanesHold(lanes, size, Queued)
      BY DEF IInv, TypeOK, LanesConsistent, Queued
    <3> QED BY <3>1, LanesEvict
  <2>5. PICK victim \in Items :
           /\ victim = Head(lanes[v].by_key[c])
           /\ victim \in Contract!Waiting /\ outcome[victim] = "queued"
    BY <2>4, SeenQueued DEF Queued
  <2>6. victim # i BY <2>3, <2>5 DEF InPut
  <2>7. outcome' = [outcome EXCEPT ![victim] = "evicted", ![i] = "queued"] BY <2>2, <2>5
  <2>8. Seen' = [Seen EXCEPT ![i] = "queued", ![victim] = "evicted"]
    BY <1>1, <2>5, <2>6, <2>7 DEF Seen
  <2>9. Contract!AcceptEvicting(i, victim)
    BY <1>1, <1>3, <2>3, <2>5, <2>8, SameCount DEF Contract!AcceptEvicting, Seen
  <2> QED BY <2>5, <2>9 DEF Contract!Next
<1> QED BY <1>4, <1>5, <1>6, <1>7, <1>8 DEF Put

LEMMA SeenNext ==
    ASSUME IInv, [Next]_vars
    PROVE  Contract!Next \/ UNCHANGED <<Seen, closed>>
<1>1. outcome \in [Items -> Outcomes] BY DEF IInv, TypeOK
<1>2. CASE UNCHANGED vars BY <1>2 DEF vars, Seen
<1>3. ASSUME NEW i \in Items, FailDrained(i)
      PROVE  Contract!Next
  <2>1. Seen[i] = "drained" /\ Seen' = [Seen EXCEPT ![i] = "failed"] /\ closed' = closed
    BY <1>1, <1>3 DEF FailDrained, Seen, queueVars
  <2>2. Contract!FailDrained(i) BY <2>1 DEF Contract!FailDrained, Seen
  <2> QED BY <2>2 DEF Contract!Next
<1>4. ASSUME NEW i \in Items, DeadlinePasses(i) PROVE UNCHANGED <<Seen, closed>>
  BY <1>4 DEF DeadlinePasses, queueVars, Seen
<1>5. CASE DrainPop
  <2>1. PICK p \in Levels :
           /\ lanes[p].size > 0
           /\ \E o \in {"expired", "batched"} :
                 outcome' = [outcome EXCEPT ![Peek(lanes[p])] = o]
    BY <1>5 DEF DrainPop, DrainLane
  <2>2. PICK o \in {"expired", "batched"} : outcome' = [outcome EXCEPT ![Peek(lanes[p])] = o]
    BY <2>1
  <2>3. Peek(lanes[p]) \in Queued
    <3>1. /\ lanes \in [Levels -> Lane] /\ Queued \in SUBSET Items
          /\ LanesHold(lanes, size, Queued)
      BY DEF IInv, TypeOK, LanesConsistent, Queued
    <3> QED BY <2>1, <3>1, LanesPop
  <2>4. closed' = closed BY <1>5 DEF DrainPop
  <2>5. PICK i \in Items : outcome[i] = "queued" /\ outcome' = [outcome EXCEPT ![i] = o]
    BY <2>2, <2>3 DEF Queued
  <2>6. Seen[i] = "queued" /\ Seen' = [Seen EXCEPT ![i] = o] BY <1>1, <2>5 DEF Seen
  <2>7. Contract!Take(i) BY <2>4, <2>6 DEF Contract!Take, Seen
  <2> QED BY <2>5, <2>7 DEF Contract!Next
<1>6. CASE GetClosed \/ AwaitFirst \/ AwaitFill \/ StartDrain \/ DrainReturn
  BY <1>6 DEF GetClosed, AwaitFirst, AwaitFill, StartDrain, DrainReturn, queueVars, Seen
<1>7. CASE Close
  <2>1. /\ closed' = TRUE
        /\ Seen' = [i \in Items |-> IF Seen[i] = "queued" THEN "drained" ELSE Seen[i]]
    BY <1>7 DEF Close, Seen
  <2>2. Contract!Close BY <2>1 DEF Contract!Close, Seen
  <2> QED BY <2>2 DEF Contract!Next
<1> QED BY <1>2, <1>3, <1>4, <1>5, <1>6, <1>7, SeenPut DEF Next, GetBatch

\* The fair queue implements RequestQueue for every overflow policy: refuses
\* and evicts only at capacity, cancels only once closed, gives up exactly one
\* request for each one it lets in, and drains everything at close().
THEOREM KeepsTheContract == Spec => ImplementsContract
<1>1. Init => Contract!Init BY DEF Init, Contract!Init
<1>2. IInv /\ [Next]_vars => [Contract!Next]_(Contract!vars)
  BY SeenNext DEF Contract!vars, Seen
<1>3. Spec => []IInv BY Inductive
<1> QED BY <1>1, <1>2, <1>3, PTL DEF Spec, ImplementsContract, Contract!Spec

-----------------------------------------------------------------------------
(* The FIFO queue, of which FairQueue is no part: its own variables, under *)
(* the same constants.                                                     *)

VARIABLES line, shut, tally, fate, sleepers, taker, taken, takenRows, overdue

Fifo == INSTANCE FifoQueue WITH
    items <- line, closed <- shut, counts <- tally, outcome <- fate, asleep <- sleepers,
    worker <- taker, batch <- taken, rows <- takenRows, late <- overdue

FifoPlaces == {"idle", "waitFirst", "waitFill", "drain"}

FifoWaiting == {i \in Items : fate[i] = "queued"}

\* The deque holds what is queued, each once.
FifoHolds ==
    /\ line \in Seq(Items) /\ IsInjective(line) /\ ToSet(line) = FifoWaiting
    /\ Len(line) <= Capacity
    /\ shut => line = <<>>

\* Only put() under BLOCK and get_batch() sleep.
FifoSleepersWait ==
    /\ sleepers \subseteq Items \cup {Worker}
    /\ \A i \in Items : i \in sleepers => fate[i] = "blocked"
    /\ \A i \in Items : fate[i] = "blocked" => Overflow = "block"
    /\ Worker \in sleepers => taker \in {"waitFirst", "waitFill"}

FifoTypes ==
    /\ fate \in [Items -> Outcomes] /\ shut \in BOOLEAN /\ taker \in FifoPlaces

FifoInv == FifoTypes /\ FifoHolds /\ FifoSleepersWait /\ Fifo!FifoNoLostWakeup

LEMMA FifoInit == Fifo!Init => FifoInv
<1> SUFFICES ASSUME Fifo!Init PROVE FifoInv OBVIOUS
<1>1. /\ line = <<>> /\ shut = FALSE /\ fate = [i \in Items |-> "new"]
      /\ sleepers = {} /\ taker = "idle"
  BY DEF Fifo!Init
<1>2. FifoTypes BY <1>1 DEF FifoTypes, FifoPlaces, Outcomes
<1>3. FifoHolds
  <2>1. line \in Seq(Items) /\ IsInjective(line) /\ ToSet(line) = {}
    <3>1. <<>> \in Seq(Items) /\ IsInjective(<<>>) BY DEF IsInjective
    <3> QED BY <1>1, <3>1, EmptyRange
  <2>2. FifoWaiting = {} BY <1>1 DEF FifoWaiting
  <2>3. Len(line) <= Capacity BY <1>1, QueueAssumption DEF QueueAssumption
  <2> QED BY <1>1, <2>1, <2>2, <2>3 DEF FifoHolds
<1>4. FifoSleepersWait BY <1>1 DEF FifoSleepersWait
<1>5. Fifo!FifoNoLostWakeup BY <1>1 DEF Fifo!FifoNoLostWakeup
<1> QED BY <1>2, <1>3, <1>4, <1>5 DEF FifoInv

\* A caller that finds room, or that evicts, finds no caller asleep: the one
\* sleeper its notify can reach is the worker.
LEMMA FifoWakes ==
    ASSUME FifoInv, Fifo!Unlocked, Overflow # "block" \/ ~Fifo!Full,
           NEW i \in Items, Fifo!Notify(sleepers \ {i})
    PROVE  sleepers' = {}
<1>1. \A k \in Items : k \notin sleepers
  <2>1. CASE Overflow # "block" BY <2>1 DEF FifoInv, FifoSleepersWait
  <2>2. CASE ~Fifo!Full BY <2>2 DEF FifoInv, Fifo!FifoNoLostWakeup
  <2> QED BY <2>1, <2>2
<1>2. sleepers \ {i} \subseteq {Worker} BY <1>1 DEF FifoInv, FifoSleepersWait
<1> QED BY <1>2 DEF Fifo!Notify

\* Room is made if need be, and the new item joins the tail.
LEMMA FifoEnqueue ==
    ASSUME FifoInv, NEW i \in Items, Fifo!InPut(i), ~shut, Fifo!Unlocked,
           NEW s \in Seq(Items), IsInjective(s), i \notin ToSet(s), Len(s) < Capacity,
           Overflow # "block" \/ ~Fifo!Full, Fifo!Enqueue(i, s),
           fate' \in [Items -> Outcomes],
           FifoWaiting' = ToSet(s) \cup {i},
           \A k \in Items : fate'[k] = "blocked" => fate[k] = "blocked",
           UNCHANGED <<shut, taker>>
    PROVE  FifoInv'
<1>1. line' = Append(s, i) BY DEF Fifo!Enqueue
<1>2. /\ line' \in Seq(Items) /\ IsInjective(line') /\ ToSet(line') = FifoWaiting'
      /\ Len(line') <= Capacity
  <2>1. Len(Append(s, i)) = Len(s) + 1 /\ Len(s) \in Nat OBVIOUS
  <2>2. Len(Append(s, i)) <= Capacity BY <2>1, QueueAssumption DEF QueueAssumption
  <2> QED BY <1>1, <2>2, AppendUnique
<1>3. sleepers' = {} BY FifoWakes DEF Fifo!Enqueue
<1>4. FifoTypes' BY DEF FifoInv, FifoTypes
<1>5. FifoHolds' BY <1>2 DEF FifoHolds
<1>6. FifoSleepersWait' BY <1>3 DEF FifoInv, FifoSleepersWait
<1>7. Fifo!FifoNoLostWakeup' BY <1>3 DEF Fifo!FifoNoLostWakeup
<1> QED BY <1>4, <1>5, <1>6, <1>7 DEF FifoInv

LEMMA FifoAccepts == ASSUME FifoInv, NEW i \in Items, Fifo!PutAccepted(i) PROVE FifoInv'
<1>1. /\ fate \in [Items -> Outcomes] /\ line \in Seq(Items) /\ IsInjective(line)
      /\ ToSet(line) = FifoWaiting
  BY DEF FifoInv, FifoTypes, FifoHolds
<1>2. /\ Fifo!Unlocked /\ Fifo!InPut(i) /\ ~shut /\ ~Fifo!Full /\ Fifo!Enqueue(i, line)
      /\ fate' = [fate EXCEPT ![i] = "queued"] /\ UNCHANGED <<shut, taker>>
  BY DEF Fifo!PutAccepted
<1>3. i \notin FifoWaiting BY <1>2 DEF Fifo!InPut, FifoWaiting
<1>4. FifoWaiting' = FifoWaiting \cup {i} BY <1>1, <1>2 DEF FifoWaiting
<1>5. fate' \in [Items -> Outcomes] BY <1>1, <1>2 DEF Outcomes
<1>6. \A k \in Items : fate'[k] = "blocked" => fate[k] = "blocked" BY <1>1, <1>2
<1>7. Len(line) < Capacity
  BY <1>1, <1>2, QueueAssumption DEF Fifo!Full, QueueAssumption
<1> QED BY <1>1, <1>2, <1>3, <1>4, <1>5, <1>6, <1>7, FifoEnqueue

LEMMA FifoEvicts == ASSUME FifoInv, NEW i \in Items, Fifo!PutEvicting(i) PROVE FifoInv'
<1> DEFINE h == Head(line)
<1>1. /\ fate \in [Items -> Outcomes] /\ line \in Seq(Items) /\ IsInjective(line)
      /\ ToSet(line) = FifoWaiting /\ Len(line) <= Capacity
  BY DEF FifoInv, FifoTypes, FifoHolds
<1>2. /\ Fifo!Unlocked /\ Fifo!InPut(i) /\ ~shut /\ Fifo!Full /\ Fifo!Enqueue(i, Tail(line))
      /\ fate' = [fate EXCEPT ![h] = "evicted", ![i] = "queued"]
      /\ Overflow = "drop_oldest" /\ UNCHANGED <<shut, taker>>
  BY DEF Fifo!PutEvicting
<1>3. line # <<>> BY <1>1, <1>2, QueueAssumption DEF Fifo!Full, QueueAssumption
<1>4. /\ h \in Items /\ h \in FifoWaiting
      /\ Tail(line) \in Seq(Items) /\ IsInjective(Tail(line))
      /\ ToSet(Tail(line)) = FifoWaiting \ {h}
  BY <1>1, <1>3, TailUnique
<1>5. Len(Tail(line)) < Capacity
  <2>1. Len(Tail(line)) = Len(line) - 1 /\ Len(line) \in Nat BY <1>1, <1>3
  <2> QED BY <1>1, <2>1, QueueAssumption DEF QueueAssumption
<1> HIDE DEF h
<1>6. i # h /\ i \notin FifoWaiting BY <1>2, <1>4 DEF Fifo!InPut, FifoWaiting
<1>7. FifoWaiting' = (FifoWaiting \ {h}) \cup {i}
  BY <1>1, <1>2, <1>4, <1>6 DEF FifoWaiting
<1>8. fate' \in [Items -> Outcomes] BY <1>1, <1>2 DEF Outcomes
<1>9. \A k \in Items : fate'[k] = "blocked" => fate[k] = "blocked"
  BY <1>1, <1>2, <1>4, <1>6
<1> QED BY <1>2, <1>4, <1>5, <1>6, <1>7, <1>8, <1>9, FifoEnqueue

\* A call that puts nothing in: it only sleeps, or stops sleeping.
LEMMA FifoPutsNothing ==
    ASSUME FifoInv, NEW i \in Items,
           Fifo!PutCancelled(i) \/ Fifo!PutRefused(i) \/ Fifo!PutBlocks(i)
    PROVE  FifoInv'
<1>1. /\ fate \in [Items -> Outcomes] /\ Fifo!InPut(i)
      /\ UNCHANGED <<line, shut, taker>>
      /\ Fifo!Unlocked
  BY DEF FifoInv, FifoTypes, Fifo!PutCancelled, Fifo!PutRefused, Fifo!PutBlocks, Fifo!queueVars
<1>2. PICK o \in {"cancelled", "refused", "blocked"} :
         /\ fate' = [fate EXCEPT ![i] = o]
         /\ \/ o # "blocked" /\ sleepers' = sleepers \ {i}
            \/ /\ o = "blocked" /\ sleepers' = sleepers \cup {i}
               /\ Overflow = "block" /\ Fifo!Full /\ ~shut
  BY DEF Fifo!PutCancelled, Fifo!PutRefused, Fifo!PutBlocks
<1>3. FifoWaiting' = FifoWaiting BY <1>1, <1>2 DEF FifoWaiting, Fifo!InPut
<1>4. FifoTypes' BY <1>1, <1>2 DEF FifoInv, FifoTypes, Outcomes
<1>5. FifoHolds' BY <1>1, <1>3 DEF FifoInv, FifoHolds
<1>6. Worker \notin Items BY QueueAssumption DEF QueueAssumption
<1>7. FifoSleepersWait' BY <1>1, <1>2, <1>6 DEF FifoInv, FifoSleepersWait
<1>8. Fifo!FifoNoLostWakeup'
  <2>1. Fifo!Full' = Fifo!Full /\ Fifo!Fills' = Fifo!Fills BY <1>1 DEF Fifo!Full, Fifo!Fills
  <2>2. \A t : t \in sleepers' => t \in sleepers \/ (t = i /\ Fifo!Full /\ ~shut) BY <1>2
  <2> QED BY <1>1, <1>6, <2>1, <2>2 DEF FifoInv, Fifo!FifoNoLostWakeup
<1> QED BY <1>4, <1>5, <1>7, <1>8 DEF FifoInv

\* The worker outside its drain, and the end of the drain.
LEMMA FifoWorker ==
    ASSUME FifoInv,
           \/ Fifo!GetClosed \/ Fifo!AwaitFirst \/ Fifo!AwaitFill
           \/ Fifo!StartDrain \/ Fifo!DrainReturn
    PROVE  FifoInv'
<1>1. UNCHANGED <<line, shut, fate>>
  BY DEF Fifo!GetClosed, Fifo!AwaitFirst, Fifo!AwaitFill, Fifo!StartDrain, Fifo!DrainReturn,
         Fifo!queueVars
<1>2. taker' \in FifoPlaces
  BY DEF Fifo!GetClosed, Fifo!AwaitFirst, Fifo!AwaitFill, Fifo!StartDrain, Fifo!DrainReturn,
         FifoPlaces
<1>3. FifoTypes' BY <1>1, <1>2 DEF FifoInv, FifoTypes
<1>4. FifoHolds' BY <1>1 DEF FifoInv, FifoHolds, FifoWaiting
<1>5. Worker \notin Items BY QueueAssumption DEF QueueAssumption
<1>6. \A i \in Items : i \in sleepers' => i \in sleepers
  BY <1>5 DEF Fifo!GetClosed, Fifo!AwaitFirst, Fifo!AwaitFill, Fifo!StartDrain, Fifo!DrainReturn
<1>7. sleepers' \subseteq Items \cup {Worker}
  BY DEF FifoInv, FifoSleepersWait,
         Fifo!GetClosed, Fifo!AwaitFirst, Fifo!AwaitFill, Fifo!StartDrain, Fifo!DrainReturn
<1>8. Worker \in sleepers' =>
         \/ taker' = "waitFirst" /\ line = <<>> /\ ~shut
         \/ taker' = "waitFill" /\ Fifo!Fills
  BY DEF FifoInv, FifoSleepersWait,
         Fifo!GetClosed, Fifo!AwaitFirst, Fifo!AwaitFill, Fifo!StartDrain, Fifo!DrainReturn
<1>9. FifoSleepersWait' BY <1>1, <1>6, <1>7, <1>8 DEF FifoInv, FifoSleepersWait
<1>10. Fifo!FifoNoLostWakeup'
  <2>1. Fifo!Full' = Fifo!Full /\ Fifo!Fills' = Fifo!Fills BY <1>1 DEF Fifo!Full, Fifo!Fills
  <2>2. CASE Fifo!StartDrain BY <2>2 DEF Fifo!StartDrain, Fifo!FifoNoLostWakeup, Fifo!Unlocked
  <2>3. CASE Fifo!DrainReturn
    <3>1. \A i \in Items : i \notin sleepers'
      BY <2>3 DEF FifoInv, FifoSleepersWait, Fifo!DrainReturn
    <3> QED BY <1>1, <1>8, <2>1, <3>1 DEF Fifo!FifoNoLostWakeup
  <2>4. CASE Fifo!GetClosed \/ Fifo!AwaitFirst \/ Fifo!AwaitFill
    <3>1. Fifo!Unlocked
      BY <2>4 DEF Fifo!GetClosed, Fifo!AwaitFirst, Fifo!AwaitFill, Fifo!Unlocked
    <3>2. \A i \in Items \cap sleepers' : Fifo!Full /\ ~shut
      BY <1>6, <3>1 DEF FifoInv, Fifo!FifoNoLostWakeup
    <3> QED BY <1>1, <1>8, <2>1, <3>2 DEF Fifo!FifoNoLostWakeup
  <2> QED BY <2>2, <2>3, <2>4
<1> QED BY <1>3, <1>4, <1>9, <1>10 DEF FifoInv

LEMMA FifoPops == ASSUME FifoInv, Fifo!DrainPop PROVE FifoInv'
<1> DEFINE h == Head(line)
<1>1. /\ fate \in [Items -> Outcomes] /\ line \in Seq(Items) /\ IsInjective(line)
      /\ ToSet(line) = FifoWaiting /\ Len(line) <= Capacity
  BY DEF FifoInv, FifoTypes, FifoHolds
<1>2. /\ taker = "drain" /\ line # <<>> /\ line' = Tail(line)
      /\ UNCHANGED <<shut, sleepers, taker>>
  BY DEF Fifo!DrainPop
<1>3. PICK o \in {"expired", "batched"} : fate' = [fate EXCEPT ![h] = o]
  BY DEF Fifo!DrainPop
<1>4. /\ h \in Items /\ h \in FifoWaiting
      /\ line' \in Seq(Items) /\ IsInjective(line')
      /\ ToSet(line') = FifoWaiting \ {h}
  BY <1>1, <1>2, TailUnique
<1>5. Len(line') <= Capacity
  <2>1. Len(line') = Len(line) - 1 /\ Len(line) \in Nat BY <1>1, <1>2
  <2> QED BY <1>1, <2>1, QueueAssumption DEF QueueAssumption
<1> HIDE DEF h
<1>6. FifoWaiting' = FifoWaiting \ {h} BY <1>1, <1>3, <1>4 DEF FifoWaiting
<1>7. FifoTypes' BY <1>1, <1>2, <1>3 DEF FifoInv, FifoTypes, Outcomes
<1>8. FifoHolds'
  <2>1. shut = FALSE BY <1>2 DEF FifoInv, FifoHolds, FifoTypes
  <2> QED BY <1>2, <1>4, <1>5, <1>6, <2>1 DEF FifoHolds
<1>9. FifoSleepersWait'
  <2>1. \A k \in Items : fate'[k] = "blocked" <=> fate[k] = "blocked"
    BY <1>1, <1>3, <1>4 DEF FifoWaiting
  <2> QED BY <1>2, <2>1 DEF FifoInv, FifoSleepersWait
<1>10. Fifo!FifoNoLostWakeup' BY <1>2 DEF Fifo!FifoNoLostWakeup, Fifo!Unlocked
<1> QED BY <1>7, <1>8, <1>9, <1>10 DEF FifoInv

LEMMA FifoCloses == ASSUME FifoInv, Fifo!Close PROVE FifoInv'
<1>1. /\ fate \in [Items -> Outcomes] /\ taker \in FifoPlaces
      /\ shut' = TRUE /\ line' = <<>> /\ sleepers' = {} /\ taker' = taker
      /\ fate' = [i \in Items |-> IF fate[i] = "queued" THEN "drained" ELSE fate[i]]
  BY DEF FifoInv, FifoTypes, Fifo!Close
<1>2. FifoTypes' BY <1>1 DEF FifoTypes, Outcomes
<1>3. FifoHolds'
  <2>1. line' \in Seq(Items) /\ IsInjective(line') /\ ToSet(line') = {}
    <3>1. <<>> \in Seq(Items) /\ IsInjective(<<>>) BY DEF IsInjective
    <3> QED BY <1>1, <3>1, EmptyRange
  <2>2. FifoWaiting' = {} BY <1>1 DEF FifoWaiting
  <2>3. Len(line') <= Capacity BY <1>1, QueueAssumption DEF QueueAssumption
  <2> QED BY <1>1, <2>1, <2>2, <2>3 DEF FifoHolds
<1>4. FifoSleepersWait' BY <1>1 DEF FifoInv, FifoSleepersWait
<1>5. Fifo!FifoNoLostWakeup' BY <1>1 DEF Fifo!FifoNoLostWakeup
<1> QED BY <1>2, <1>3, <1>4, <1>5 DEF FifoInv

\* Steps that leave the queue and everyone asleep on it alone.
LEMMA FifoAside ==
    ASSUME FifoInv,
           \/ UNCHANGED Fifo!vars
           \/ \E i \in Items : Fifo!FailDrained(i) \/ Fifo!DeadlinePasses(i)
    PROVE  FifoInv'
<1>1. /\ fate \in [Items -> Outcomes] /\ UNCHANGED <<line, shut, sleepers, taker>>
      /\ \/ fate' = fate
         \/ \E i \in Items : fate[i] = "drained" /\ fate' = [fate EXCEPT ![i] = "failed"]
  BY DEF FifoInv, FifoTypes, Fifo!vars, Fifo!FailDrained, Fifo!DeadlinePasses, Fifo!queueVars
<1>2. /\ fate' \in [Items -> Outcomes] /\ FifoWaiting' = FifoWaiting
      /\ \A k \in Items : fate'[k] = "blocked" <=> fate[k] = "blocked"
  BY <1>1 DEF FifoWaiting, Outcomes
<1>3. FifoTypes' BY <1>1, <1>2 DEF FifoInv, FifoTypes
<1>4. FifoHolds' BY <1>1, <1>2 DEF FifoInv, FifoHolds
<1>5. FifoSleepersWait' BY <1>1, <1>2 DEF FifoInv, FifoSleepersWait
<1>6. Fifo!FifoNoLostWakeup'
  BY <1>1 DEF FifoInv, Fifo!FifoNoLostWakeup, Fifo!Unlocked, Fifo!Full, Fifo!Fills
<1> QED BY <1>3, <1>4, <1>5, <1>6 DEF FifoInv

LEMMA FifoNext == FifoInv /\ [Fifo!Next]_(Fifo!vars) => FifoInv'
<1> SUFFICES ASSUME FifoInv, [Fifo!Next]_(Fifo!vars) PROVE FifoInv' OBVIOUS
<1>1. ASSUME NEW i \in Items, Fifo!Put(i) PROVE FifoInv'
  BY <1>1, FifoAccepts, FifoEvicts, FifoPutsNothing DEF Fifo!Put
<1>2. CASE Fifo!GetBatch BY <1>2, FifoWorker, FifoPops DEF Fifo!GetBatch
<1>3. CASE Fifo!Close BY <1>3, FifoCloses
<1> QED BY <1>1, <1>2, <1>3, FifoAside DEF Fifo!Next

\* For every capacity, policy and batch window, the FIFO queue's one condition
\* loses no wake-up: no producer sleeps beside a free slot, and the worker
\* sleeps only while its own test says to.
THEOREM FifoWakeupsAreNotLost == Fifo!Spec => []Fifo!FifoNoLostWakeup
<1>1. FifoInv => Fifo!FifoNoLostWakeup BY DEF FifoInv
<1> QED BY <1>1, FifoInit, FifoNext, PTL DEF Fifo!Spec

\* What the callers of put() have seen.
FifoSeen == [i \in Items |-> IF fate[i] = "blocked" THEN "new" ELSE fate[i]]

LEMMA FifoSameCount ==
    ASSUME NEW S PROVE Fifo!FifoContract!Cardinality(S) = Cardinality(S)
BY DEF Fifo!FifoContract!Cardinality, Cardinality

LEMMA FifoCount ==
    ASSUME FifoInv
    PROVE  /\ Fifo!FifoContract!Waiting = FifoWaiting
           /\ Fifo!FifoContract!Cardinality(Fifo!FifoContract!Waiting) = Len(line)
           /\ Len(line) \in Nat /\ Len(line) <= Capacity
<1>1. Fifo!FifoContract!Waiting = FifoWaiting
  BY DEF Fifo!FifoContract!Waiting, Fifo!FifoContract!With, FifoWaiting
<1>2. line \in Seq(Items) /\ IsInjective(line) /\ ToSet(line) = FifoWaiting
      /\ Len(line) <= Capacity
  BY DEF FifoInv, FifoHolds
<1> QED BY <1>1, <1>2, UniqueCount, FifoSameCount

LEMMA FifoSeenPut ==
    ASSUME FifoInv, NEW i \in Items, Fifo!Put(i)
    PROVE  Fifo!FifoContract!Next \/ UNCHANGED <<FifoSeen, shut>>
<1>1. /\ fate \in [Items -> Outcomes] /\ shut \in BOOLEAN /\ Capacity \in Nat
      /\ Fifo!FifoContract!Cardinality(Fifo!FifoContract!Waiting) = Len(line)
      /\ Len(line) \in Nat /\ Len(line) <= Capacity
  BY FifoCount, QueueAssumption DEF FifoInv, FifoTypes, QueueAssumption
<1>2. ASSUME NEW o \in Outcomes \ {"blocked"}, fate' = [fate EXCEPT ![i] = o]
      PROVE  FifoSeen' = [FifoSeen EXCEPT ![i] = o]
  BY <1>1, <1>2 DEF FifoSeen
<1>3. FifoSeen[i] = "new"
  BY DEF Fifo!Put, Fifo!PutCancelled, Fifo!PutAccepted, Fifo!PutRefused, Fifo!PutBlocks,
         Fifo!PutEvicting, Fifo!InPut, FifoSeen
<1>4. CASE Fifo!PutCancelled(i)
  <2>1. FifoSeen' = [FifoSeen EXCEPT ![i] = "cancelled"] /\ shut /\ shut' = shut
    BY <1>2, <1>4 DEF Fifo!PutCancelled, Outcomes, Fifo!queueVars
  <2>2. Fifo!FifoContract!CancelPut(i)
    BY <1>3, <2>1 DEF Fifo!FifoContract!CancelPut, FifoSeen
  <2> QED BY <2>2 DEF Fifo!FifoContract!Next
<1>5. CASE Fifo!PutAccepted(i)
  <2>1. /\ FifoSeen' = [FifoSeen EXCEPT ![i] = "queued"] /\ ~shut /\ shut' = shut
        /\ ~Fifo!Full
    BY <1>2, <1>5 DEF Fifo!PutAccepted, Outcomes
  <2>2. Len(line) < Capacity BY <1>1, <2>1 DEF Fifo!Full
  <2>3. Fifo!FifoContract!Accept(i)
    BY <1>1, <1>3, <2>1, <2>2 DEF Fifo!FifoContract!Accept, FifoSeen
  <2> QED BY <2>3 DEF Fifo!FifoContract!Next
<1>6. CASE Fifo!PutRefused(i)
  <2>1. /\ FifoSeen' = [FifoSeen EXCEPT ![i] = "refused"] /\ ~shut /\ shut' = shut
        /\ Fifo!Full /\ Overflow # "drop_oldest"
    BY <1>2, <1>6 DEF Fifo!PutRefused, Outcomes, Fifo!queueVars
  <2>2. Len(line) = Capacity BY <1>1, <2>1 DEF Fifo!Full
  <2>3. Fifo!FifoContract!Refuse(i)
    BY <1>1, <1>3, <2>1, <2>2 DEF Fifo!FifoContract!Refuse, FifoSeen
  <2> QED BY <2>3 DEF Fifo!FifoContract!Next
<1>7. CASE Fifo!PutBlocks(i)
  <2>1. fate' = [fate EXCEPT ![i] = "blocked"] /\ shut' = shut /\ Fifo!InPut(i)
    BY <1>7 DEF Fifo!PutBlocks, Fifo!queueVars
  <2>2. FifoSeen' = FifoSeen BY <1>1, <2>1 DEF FifoSeen, Fifo!InPut
  <2> QED BY <2>1, <2>2
<1>8. CASE Fifo!PutEvicting(i)
  <2>1. /\ ~shut /\ shut' = shut /\ Len(line) = Capacity /\ Overflow = "drop_oldest"
        /\ Fifo!InPut(i)
        /\ fate' = [fate EXCEPT ![Head(line)] = "evicted", ![i] = "queued"]
    BY <1>1, <1>8 DEF Fifo!PutEvicting, Fifo!Full
  <2>2. Head(line) \in FifoWaiting
    <3>1. /\ line \in Seq(Items) /\ IsInjective(line) /\ ToSet(line) = FifoWaiting
          /\ line # <<>>
      BY <2>1, QueueAssumption DEF FifoInv, FifoHolds, QueueAssumption
    <3> QED BY <3>1, TailUnique
  <2>3. PICK victim \in Items :
           victim = Head(line) /\ victim \in FifoWaiting /\ fate[victim] = "queued"
    BY <2>2 DEF FifoWaiting
  <2>4. victim # i BY <2>1, <2>3 DEF Fifo!InPut
  <2>5. fate' = [fate EXCEPT ![victim] = "evicted", ![i] = "queued"] BY <2>1, <2>3
  <2>6. FifoSeen' = [FifoSeen EXCEPT ![i] = "queued", ![victim] = "evicted"]
    BY <1>1, <2>3, <2>4, <2>5 DEF FifoSeen
  <2>7. victim \in Fifo!FifoContract!Waiting BY <2>3, FifoCount
  <2>8. Fifo!FifoContract!AcceptEvicting(i, victim)
    BY <1>1, <1>3, <2>1, <2>6, <2>7 DEF Fifo!FifoContract!AcceptEvicting, FifoSeen
  <2> QED BY <2>3, <2>8 DEF Fifo!FifoContract!Next
<1> QED BY <1>4, <1>5, <1>6, <1>7, <1>8 DEF Fifo!Put

LEMMA FifoSeenNext ==
    ASSUME FifoInv, [Fifo!Next]_(Fifo!vars)
    PROVE  Fifo!FifoContract!Next \/ UNCHANGED <<FifoSeen, shut>>
<1>1. fate \in [Items -> Outcomes] BY DEF FifoInv, FifoTypes
<1>2. CASE UNCHANGED Fifo!vars BY <1>2 DEF Fifo!vars, FifoSeen
<1>3. ASSUME NEW i \in Items, Fifo!FailDrained(i) PROVE Fifo!FifoContract!Next
  <2>1. /\ FifoSeen[i] = "drained" /\ FifoSeen' = [FifoSeen EXCEPT ![i] = "failed"]
        /\ shut' = shut
    BY <1>1, <1>3 DEF Fifo!FailDrained, FifoSeen, Fifo!queueVars
  <2>2. Fifo!FifoContract!FailDrained(i)
    BY <2>1 DEF Fifo!FifoContract!FailDrained, FifoSeen
  <2> QED BY <2>2 DEF Fifo!FifoContract!Next
<1>4. ASSUME NEW i \in Items, Fifo!DeadlinePasses(i) PROVE UNCHANGED <<FifoSeen, shut>>
  BY <1>4 DEF Fifo!DeadlinePasses, Fifo!queueVars, FifoSeen
<1>5. CASE Fifo!DrainPop
  <2>1. PICK o \in {"expired", "batched"} : fate' = [fate EXCEPT ![Head(line)] = o]
    BY <1>5 DEF Fifo!DrainPop
  <2>2. Head(line) \in FifoWaiting
    <3>1. /\ line \in Seq(Items) /\ IsInjective(line) /\ ToSet(line) = FifoWaiting
          /\ line # <<>>
      BY <1>5 DEF FifoInv, FifoHolds, Fifo!DrainPop
    <3> QED BY <3>1, TailUnique
  <2>3. shut' = shut BY <1>5 DEF Fifo!DrainPop
  <2>4. PICK i \in Items : fate[i] = "queued" /\ fate' = [fate EXCEPT ![i] = o]
    BY <2>1, <2>2 DEF FifoWaiting
  <2>5. FifoSeen[i] = "queued" /\ FifoSeen' = [FifoSeen EXCEPT ![i] = o]
    BY <1>1, <2>4 DEF FifoSeen
  <2>6. Fifo!FifoContract!Take(i) BY <2>3, <2>5 DEF Fifo!FifoContract!Take, FifoSeen
  <2> QED BY <2>4, <2>6 DEF Fifo!FifoContract!Next
<1>6. CASE \/ Fifo!GetClosed \/ Fifo!AwaitFirst \/ Fifo!AwaitFill
           \/ Fifo!StartDrain \/ Fifo!DrainReturn
  BY <1>6 DEF Fifo!GetClosed, Fifo!AwaitFirst, Fifo!AwaitFill, Fifo!StartDrain,
              Fifo!DrainReturn, Fifo!queueVars, FifoSeen
<1>7. CASE Fifo!Close
  <2>1. /\ shut' = TRUE
        /\ FifoSeen' = [i \in Items |-> IF FifoSeen[i] = "queued" THEN "drained"
                                        ELSE FifoSeen[i]]
    BY <1>7 DEF Fifo!Close, FifoSeen
  <2>2. Fifo!FifoContract!Close BY <2>1 DEF Fifo!FifoContract!Close, FifoSeen
  <2> QED BY <2>2 DEF Fifo!FifoContract!Next
<1> QED BY <1>2, <1>3, <1>4, <1>5, <1>6, <1>7, FifoSeenPut DEF Fifo!Next, Fifo!GetBatch

\* The FIFO queue implements RequestQueue for every overflow policy, as the
\* fair queue does.
THEOREM FifoKeepsTheContract == Fifo!Spec => Fifo!FifoImplementsContract
<1>1. Fifo!Init => Fifo!FifoContract!Init BY DEF Fifo!Init, Fifo!FifoContract!Init
<1>2. FifoInv /\ [Fifo!Next]_(Fifo!vars)
         => [Fifo!FifoContract!Next]_(Fifo!FifoContract!vars)
  BY FifoSeenNext DEF Fifo!FifoContract!vars, FifoSeen
<1> QED BY <1>1, <1>2, FifoInit, FifoNext, PTL
        DEF Fifo!Spec, Fifo!FifoImplementsContract, Fifo!FifoContract!Spec
=============================================================================
