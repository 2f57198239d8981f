--------------------------- MODULE InstantBarrier ---------------------------
(***************************************************************************)
(* The instant barrier (topology/barrier.py): pipeline workers hand in one *)
(* frame each, the frames of a group of cameras that were captured within  *)
(* one window form an instant, and one worker runs the association for all *)
(* of them.  Several groups share one budget of workers that may wait.     *)
(*                                                                         *)
(* Every method holds the group's condition throughout, so it is one step; *)
(* a wait ends in a step of its own.  Deadlines are abstracted to the      *)
(* order they pass in: one window after a bucket opened, oldest first.     *)
(***************************************************************************)
EXTENDS Integers, Sequences, FiniteSets

LOCAL SX == INSTANCE SequencesExt

CONSTANTS
    Groups, Cameras, Workers,
    GroupOf,        \* [Cameras -> Groups]
    Roster,         \* cameras announced when the element opened
    Churn,          \* cameras the runner may add and remove
    Times,          \* capture times
    Window,         \* sync_window_s
    MaxInstants,    \* the configured bound, or 0 for the fleet's
    DefaultInstants, RecentFloor, RecentFactor,     \* 8, 8 and 4 in the code
    Refusals,       \* BACKWARD_REFUSALS_BEFORE_ADOPTING
    MaxFrames,      \* bound: frames handed in
    Never           \* no capture time

ASSUME BarrierAssumption ==
    /\ GroupOf \in [Cameras -> Groups] /\ Roster \subseteq Cameras /\ Churn \subseteq Cameras
    /\ Times \subseteq Int /\ Never \notin Times /\ IsFiniteSet(Cameras) /\ IsFiniteSet(Workers)
    /\ Workers # {}
    /\ Window \in Nat \ {0} /\ MaxInstants \in Nat /\ DefaultInstants \in Nat \ {0}
    /\ RecentFloor \in Nat \ {0} /\ RecentFactor \in Nat \ {0}
    /\ Refusals \in Nat /\ MaxFrames \in Nat

VARIABLES
    group,      \* [Groups -> the state one barrier's lock guards]
    worker,     \* [Workers -> what it does inside submit()]
    held,       \* WaiterBudget._held
    frames,     \* frames handed in
    last        \* [Cameras -> outcome of its latest frame], history

vars == <<group, worker, held, frames, last>>

Idle == [at |-> "idle"]
Parked == {w \in Workers : worker[w] # Idle}
Max(a, b) == IF a >= b THEN a ELSE b

\* Who must report, and the bound that follows the fleet, never below what is open.
Refresh(b) ==
    LET fleet == Max(DefaultInstants, Cardinality(b.announced \cup b.seen))
        bound == IF MaxInstants > 0 THEN MaxInstants ELSE Max(fleet, Cardinality(DOMAIN b.open) + 1)
    IN  [b EXCEPT !.live = IF b.hooked THEN b.announced ELSE b.seen,
                  !.max = bound, !.keep = Max(RecentFloor, RecentFactor * bound)]

Init ==
    /\ group = [g \in Groups |->
          LET mine == {c \in Roster : GroupOf[c] = g} IN
          Refresh([open |-> <<>>, next |-> 0, recent |-> <<>>, ended |-> {},
                   announced |-> mine, seen |-> {}, hooked |-> mine # {}, live |-> {},
                   max |-> 0, keep |-> 0, closed |-> FALSE,
                   newest |-> [c \in Cameras |-> Never],
                   backward |-> [c \in Cameras |-> 0]])]
    /\ worker = [w \in Workers |-> Idle]
    /\ held = 0 /\ frames = 0
    /\ last = [c \in Cameras |-> "none"]

-----------------------------------------------------------------------------
(* Buckets, by instant id: [entries, ready, sealed, expired].               *)

Reported(k) == {k.entries[n].cam : n \in DOMAIN k.entries}
Captures(k) == {k.entries[n].time : n \in DOMAIN k.entries}
First(k) == CHOOSE x \in Captures(k) : \A y \in Captures(k) : x <= y
Last(k) == CHOOSE x \in Captures(k) : \A y \in Captures(k) : x >= y

SpreadWith(k, t) == Max(Last(k), t) - (IF First(k) <= t THEN First(k) ELSE t)

\* Who waits for the answer of instant id of group g.
Waiting(g, id) == {w \in Workers : worker[w] # Idle /\ worker[w].group = g /\ worker[w].id = id}

\* Instants as they were opened: their ids count up.
AsOpened(I) == SX!SetToSortSeq(I, <)

\* The instants I leave the map, each for its reason in why; their spans are
\* remembered in the order they were opened.
End(b, I, why, ran) ==
    LET order == AsOpened(I)
        spans == b.recent \o [n \in DOMAIN order |-> [first |-> First(b.open[order[n]]),
                                                      last |-> Last(b.open[order[n]])]]
    IN  [b EXCEPT !.open = [id \in DOMAIN @ \ I |-> @[id]],
                  !.recent = SubSeq(spans, Max(1, Len(spans) - b.keep + 1), Len(spans)),
                  !.ended = @ \cup {[id |-> id, why |-> why[id], ran |-> ran,
                                     entries |-> b.open[id].entries] : id \in I}]

\* Instants whose deadline passed with nobody waiting.
Stale(g, b) == {id \in DOMAIN b.open : b.open[id].expired /\ Waiting(g, id) = {}}

Retire(g, b) ==
    LET why == [id \in Stale(g, b) |-> IF b.open[id].ready THEN b.open[id].sealed ELSE "expired"]
    IN  End(b, Stale(g, b), why, FALSE)

See(b, c) == IF c \in b.seen THEN b ELSE Refresh([b EXCEPT !.seen = @ \cup {c}])

SteppedBack(b, c, t) == b.newest[c] # Never /\ t < b.newest[c] - Window

RefusesBackward(b, c, t) == SteppedBack(b, c, t) /\ b.backward[c] < Refusals

\* A step that has been refused often enough is the camera's new time base.
Adopt(b, c, t) ==
    IF SteppedBack(b, c, t) THEN [b EXCEPT !.newest[c] = t, !.backward[c] = 0] ELSE b

Newest(ids) == IF ids = {} THEN 0 ELSE CHOOSE n \in ids : \A m \in ids : m <= n

\* Fault: the newest instant that still takes frames.
MatchAny(b, t) == Newest({id \in DOMAIN b.open : ~b.open[id].ready})

\* The newest open instant whose span stays under the window; 0 if there is none.
Match(b, t) ==
    Newest({id \in DOMAIN b.open : ~b.open[id].ready /\ SpreadWith(b.open[id], t) < Window})

IsLate(b, t) == \E n \in DOMAIN b.recent : b.recent[n].first <= t /\ t <= b.recent[n].last

\* Too many by one: those that were opened first.
Overflow(b) ==
    {id \in DOMAIN b.open :
        Cardinality({m \in DOMAIN b.open : m <= id}) <= Cardinality(DOMAIN b.open) - b.max + 1}

\* Room for one more: the instants open longest go.
Evict(b) == End(b, Overflow(b), [id \in Overflow(b) |-> "evicted"], FALSE)

FreshBucket == [entries |-> <<>>, ready |-> FALSE, sealed |-> "complete", expired |-> FALSE]

OpenBucket(b) ==
    LET room == Evict(b) IN
    [room EXCEPT !.next = b.next + 1,
                 !.open = [id \in DOMAIN @ \cup {b.next + 1} |->
                              IF id = b.next + 1 THEN FreshBucket ELSE @[id]]]

Seal(b, id, why) == [b EXCEPT !.open[id].ready = TRUE, !.open[id].sealed = why]

\* The camera has a frame in the instant that its capture matches.
HasMovedOn(b, c, t) == Match(b, t) # 0 /\ c \in Reported(b.open[Match(b, t)])

\* Where camera c's capture t goes: joined, or opened after sealing the old one.
Place(b, c, t) ==
    IF HasMovedOn(b, c, t) THEN OpenBucket(Seal(b, Match(b, t), "advanced"))
    ELSE IF Match(b, t) = 0 THEN OpenBucket(b) ELSE b

\* The camera's own newest entry in this instant.
IsDuplicate(b, c, t) ==
    LET id == Match(b, t) IN
    /\ id # 0
    /\ \E e \in DOMAIN b.open[id].entries :
          b.open[id].entries[e].cam = c /\ t <= b.open[id].entries[e].time

\* The instant that Place chose.
Chosen(b, c, t) ==
    IF Match(b, t) = 0 \/ HasMovedOn(b, c, t) THEN b.next + 1 ELSE Match(b, t)

Enter(b, c, t) ==
    [Place(b, c, t) EXCEPT
        !.open[Chosen(b, c, t)].entries = Append(@, [cam |-> c, time |-> t]),
        !.newest[c] = IF @ = Never THEN t ELSE Max(@, t),
        !.backward[c] = 0]
-----------------------------------------------------------------------------
(* submit(), up to its return or its wait.                                 *)

\* What the call finds after retirement and the roster.
Found(c) == LET g == GroupOf[c] IN See(Retire(g, group[g]), c)

\* notify_all() of group g's condition.
Notified(g) ==
    [w \in Workers |-> IF worker[w] # Idle /\ worker[w].group = g
                       THEN [worker[w] EXCEPT !.at = "awake"] ELSE worker[w]]

Wakes(c) == Stale(GroupOf[c], group[GroupOf[c]]) # {}

\* Sealing an instant somebody waits for, and evicting, notify: a is the group's
\* state that camera c's capture t finds.
PlacingWakes(a, c, t) ==
    \/ Wakes(c)
    \/ HasMovedOn(a, c, t) /\ Waiting(GroupOf[c], Match(a, t)) # {}
    \/ (Match(a, t) = 0 \/ HasMovedOn(a, c, t)) /\ Overflow(a) # {}

Answers(c, why) ==
    /\ frames' = frames + 1
    /\ last' = [last EXCEPT ![c] = why]

Becomes(g, b, woken) ==
    /\ group' = [group EXCEPT ![g] = b]
    /\ worker' = IF woken THEN Notified(g) ELSE worker

SubmitClosed(c) ==
    /\ group[GroupOf[c]].closed
    /\ Answers(c, "shutdown")
    /\ UNCHANGED <<group, worker, held>>

\* Refused before any bucket: the camera's clock went back past the window.
SubmitBackward(f, c, t) ==
    /\ RefusesBackward(f, c, t)
    /\ Answers(c, "backward")
    /\ Becomes(GroupOf[c], [f EXCEPT !.backward[c] = @ + 1], Wakes(c))
    /\ UNCHANGED held

IsLateOffer(a, t) == Match(a, t) = 0 /\ IsLate(a, t)

SubmitMissed(a, c, t) ==
    /\ \/ IsLateOffer(a, t) /\ Answers(c, "late")
       \/ IsDuplicate(a, c, t) /\ Answers(c, "duplicate")
    /\ Becomes(GroupOf[c], a, Wakes(c))
    /\ UNCHANGED held

\* _close(): the association runs for instant id, or raises; all are woken.
Close(g, b, id, why) ==
    \E ran \in BOOLEAN :
        Becomes(g, End(b, {id}, [m \in {id} |-> IF ran THEN why ELSE "failed"], ran), TRUE)

Permits == Cardinality(Workers) - 1

\* Fault: each barrier counts its own waiters.
PermitLeftHere(g) ==
    Cardinality({w \in Workers : worker[w] # Idle /\ worker[w].group = g}) < Permits

PermitLeft(g) == held < Permits

IsComplete(b, id) == b.live \subseteq Reported(b.open[id])

(* The frame has entered instant n, and b is what the group is with it.    *)

\* The last live camera to report closes, and so does a waiter that comes late.
SubmitCloses(b, n, c) ==
    /\ \/ IsComplete(b, n) /\ Close(GroupOf[c], b, n, "complete")
       \/ /\ ~IsComplete(b, n) /\ b.open[n].expired /\ PermitLeft(GroupOf[c])
          /\ Close(GroupOf[c], b, n, "window")
    /\ Answers(c, "closed")
    /\ UNCHANGED held

SubmitWaits(b, n, c, wakes) ==
    LET g == GroupOf[c] IN
    /\ ~IsComplete(b, n) /\ ~b.open[n].expired /\ PermitLeft(g)
    /\ Answers(c, "waiting")
    /\ group' = [group EXCEPT ![g] = b]
    /\ \E w \in Workers \ Parked :
          worker' = [IF wakes THEN Notified(g) ELSE worker EXCEPT
                        ![w] = [at |-> "asleep", group |-> g, id |-> n]]
    /\ held' = held + 1

\* Waiting would park the last worker: the frame leaves without its answer.
SubmitStarves(b, n, c, wakes) ==
    /\ ~IsComplete(b, n) /\ ~PermitLeft(GroupOf[c])
    /\ Answers(c, "would_starve")
    /\ Becomes(GroupOf[c], b, wakes)
    /\ UNCHANGED held

\* Any worker that is not inside a submit() brings the frame.
Submit(c, t) ==
    LET f == Found(c)
        a == Adopt(f, c, t)
        b == Enter(a, c, t)
        n == Chosen(a, c, t)
        wakes == PlacingWakes(a, c, t)
    IN  /\ Parked # Workers /\ frames < MaxFrames
        /\ \/ SubmitClosed(c)
           \/ /\ ~group[GroupOf[c]].closed
              /\ \/ SubmitBackward(f, c, t)
                 \/ /\ ~RefusesBackward(f, c, t)
                    /\ \/ SubmitMissed(a, c, t)
                       \/ /\ ~IsLateOffer(a, t) /\ ~IsDuplicate(a, c, t)
                          /\ \/ SubmitCloses(b, n, c) \/ SubmitWaits(b, n, c, wakes)
                             \/ SubmitStarves(b, n, c, wakes)

-----------------------------------------------------------------------------
(* The end of a wait.                                                      *)

\* The instant w waits for, while it is in the map.
IsOpen(w) == worker[w].id \in DOMAIN group[worker[w].group].open
Bucket(w) == group[worker[w].group].open[worker[w].id]

\* The wait's own timeout: this bucket's deadline has passed.
TimesOut(w) ==
    /\ worker[w].at = "asleep"
    /\ IsOpen(w) => Bucket(w).expired
    /\ worker' = [worker EXCEPT ![w].at = "awake"]
    /\ UNCHANGED <<group, held, frames, last>>

\* Woken for another bucket.
SleepsAgain(w) ==
    /\ worker[w].at = "awake"
    /\ IsOpen(w) /\ ~Bucket(w).ready /\ ~Bucket(w).expired
    /\ worker' = [worker EXCEPT ![w].at = "asleep"]
    /\ UNCHANGED <<group, held, frames, last>>

\* Somebody resolved the bucket: the worker returns with its outcome.
ReturnsOutcome(w) ==
    /\ worker[w].at = "awake" /\ ~IsOpen(w)
    /\ worker' = [worker EXCEPT ![w] = Idle]
    /\ held' = held - 1
    /\ UNCHANGED <<group, frames, last>>

\* Sealed, or out of time: this worker is the closer.
ClosesInstant(w) ==
    LET g == worker[w].group
        id == worker[w].id
        why == IF Bucket(w).ready THEN Bucket(w).sealed ELSE "window"
    IN  /\ worker[w].at = "awake"
        /\ IsOpen(w) /\ (Bucket(w).ready \/ Bucket(w).expired)
        /\ \E ran \in BOOLEAN :
              group' = [group EXCEPT ![g] =
                           End(@, {id}, [m \in {id} |-> IF ran THEN why ELSE "failed"], ran)]
        /\ worker' = [Notified(g) EXCEPT ![w] = Idle]
        /\ held' = held - 1
        /\ UNCHANGED <<frames, last>>

\* A deadline passes: the oldest first, each a window after its bucket opened.
Expire(g) ==
    /\ \E n \in DOMAIN group[g].open :
          /\ ~group[g].open[n].expired
          /\ \A m \in DOMAIN group[g].open : m < n => group[g].open[m].expired
          /\ group' = [group EXCEPT ![g].open[n].expired = TRUE]
    /\ UNCHANGED <<worker, held, frames, last>>

-----------------------------------------------------------------------------
(* The runner's lifecycle thread.                                          *)

CameraAdded(c) ==
    LET b == Refresh([group[GroupOf[c]] EXCEPT !.hooked = TRUE, !.announced = @ \cup {c}]) IN
    /\ c \in Churn
    /\ group' = [group EXCEPT ![GroupOf[c]] = b]
    /\ UNCHANGED <<worker, held, frames, last>>

\* The open instants that are complete without the camera, and waited for.
NowComplete(g, b) ==
    {n \in DOMAIN b.open : /\ ~b.open[n].ready /\ b.live \subseteq Reported(b.open[n])
                           /\ Waiting(g, n) # {}}

DropCamera(c) ==
    LET g == GroupOf[c]
        b == Refresh([group[g] EXCEPT !.announced = @ \ {c}, !.seen = @ \ {c},
                                      !.newest[c] = Never, !.backward[c] = 0])
        done == NowComplete(g, b)
    IN  /\ c \in Churn
        /\ Becomes(g, [b EXCEPT !.open = [n \in DOMAIN @ |->
                          IF n \in done THEN [@[n] EXCEPT !.ready = TRUE, !.sealed = "complete"]
                          ELSE @[n]]],
                   done # {})
        /\ UNCHANGED <<held, frames, last>>

CloseAll(g) ==
    LET b == group[g]
        why == [n \in DOMAIN b.open |-> "shutdown"]
    IN  /\ ~b.closed
        /\ Becomes(g, [End(b, DOMAIN b.open, why, FALSE) EXCEPT !.closed = TRUE], DOMAIN b.open # {})
        /\ UNCHANGED <<held, frames, last>>

-----------------------------------------------------------------------------
Wake(w) ==
    /\ worker[w] # Idle
    /\ TimesOut(w) \/ SleepsAgain(w) \/ ReturnsOutcome(w) \/ ClosesInstant(w)

Next ==
    \/ \E w \in Workers : Wake(w)
    \/ \E c \in Cameras, t \in Times : Submit(c, t)
    \/ \E g \in Groups : Expire(g) \/ CloseAll(g)
    \/ \E c \in Cameras : CameraAdded(c) \/ DropCamera(c)

Spec == Init /\ [][Next]_vars

\* What happens by itself: time passes, and a worker that was woken runs.
FairStep == (\E g \in Groups : Expire(g)) \/ (\E w \in Workers : Wake(w))

-----------------------------------------------------------------------------
\* What has the frames of an instant: open buckets, and ended ones.
Instants(g) == {group[g].open[id] : id \in DOMAIN group[g].open} \cup group[g].ended
EndedIds(g) == {k.id : k \in group[g].ended}

\* Every variable keeps to its type.
BarrierTypeOK ==
    /\ held \in 0 .. Permits /\ frames \in 0 .. MaxFrames
    /\ \A w \in Parked : worker[w].at \in {"asleep", "awake"} /\ worker[w].group \in Groups
    /\ \A g \in Groups :
          LET b == group[g] IN
          /\ b.live \subseteq Cameras /\ b.next \in 0 .. MaxFrames
          /\ b.newest \in [Cameras -> Times \cup {Never}]
          /\ b.backward \in [Cameras -> Nat]
          /\ \A n \in DOMAIN b.open : b.open[n].entries # <<>>

\* However many groups share the workers, one worker is always free to bring
\* the frame another is waiting for, and every permit is a parked worker.
NeverParksTheLast == held = Cardinality(Parked) /\ Parked # Workers

\* An instant holds at most one frame of each camera, all captured within one
\* window of each other, whatever order the frames come in.
InstantIsOneMoment ==
    \A g \in Groups : \A k \in Instants(g) :
        /\ \A m, n \in DOMAIN k.entries : m # n => k.entries[m].cam # k.entries[n].cam
        /\ \A x, y \in Captures(k) : x - y < Window

\* Every instant that was opened is open or has ended, once: it is counted and
\* associated at most once, whether it is closed, evicted, retired or shut down.
AccountedOnce ==
    \A g \in Groups :
        /\ DOMAIN group[g].open \cup EndedIds(g) = 1 .. group[g].next
        /\ DOMAIN group[g].open \cap EndedIds(g) = {}
        /\ \A j, k \in group[g].ended : j.id = k.id => j = k

\* Nobody sleeps through a seal, an eviction or a shutdown: a worker that is
\* asleep has an instant that still takes frames.
AsleepIsOpen ==
    \A w \in Parked : worker[w].at = "asleep" =>
        IsOpen(w) /\ ~Bucket(w).ready

\* The map stays within its bound when cameras leave and the bound falls.
OpenWithinBound == \A g \in Groups : Cardinality(DOMAIN group[g].open) <= group[g].max

\* An instant is evicted only when every instant opened before it has ended:
\* a camera with a stale clock pushes out nobody the group is still filling.
EvictsTheOldest ==
    \A g \in Groups : \A k \in group[g].ended :
        k.why = "evicted" => \A id \in DOMAIN group[g].open : id > k.id

\* Instants are accounted for: each is one moment, ends once, and the open ones
\* stay within their bound while cameras come and go.
InstantsAccounted == BarrierTypeOK /\ InstantIsOneMoment /\ AccountedOnce /\ OpenWithinBound

\* Of every step: a clock that steps back costs a camera one frame in a row, not
\* an outage.
OneRefusalPerStep ==
    \A c \in Cameras : last[c] = "backward" /\ frames' > frames =>
        ~(last'[c] = "backward" /\ group'[GroupOf[c]].backward[c]
                                     > group[GroupOf[c]].backward[c])

\* Every wait ends: while anybody waits, time or a worker that was woken still has
\* something to do, whatever frames never come, and neither goes in circles.
EveryWaitEnds == Parked # {} => ENABLED FairStep

\* barrier.py, InstantBarrier: "A bucket closes when every live camera has
\* reported, when it is sealed, or when the window has passed - whichever is
\* first": with the roster announced, nobody sleeps on an instant that every
\* live camera is in.
ClosesWhenComplete ==
    \A w \in Parked : worker[w].at = "asleep" =>
        (IsOpen(w) => ~(group[worker[w].group].live \subseteq Reported(Bucket(w))))

\* Nobody sleeps through what it waits for: the end of its instant, by a seal,
\* an eviction or a shutdown, or its completion, by a frame or by a departure.
NobodySleepsThrough == AsleepIsOpen /\ ClosesWhenComplete
=============================================================================
