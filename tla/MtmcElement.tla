---------------------------- MODULE MtmcElement ----------------------------
(***************************************************************************)
(* The cross-camera element (topology/elements/mtmc.py): it files a frame  *)
(* with its group's barrier and gives it the global ids of the instant it  *)
(* ended in, or says that the stage is missing.  A chain may hold several, *)
(* each for its own group of cameras, on one budget of waiting workers.    *)
(*                                                                         *)
(* The barrier is InstantBarrier's, reduced to what submit() promises the  *)
(* element: one instant at a time, ended by its last camera, by a waiter's *)
(* deadline or by close_all(), the association run by exactly one thread   *)
(* under the barrier's lock.  close() may meet workers nobody joined.      *)
(***************************************************************************)
EXTENDS Integers, Sequences, FiniteSets

CONSTANTS
    Cameras, Workers,
    Setups,         \* chains: sequences of rosters, one per element ({} declares none)
    Permits,        \* WaiterBudget.permits
    SilentAfter,    \* _SILENT_AFTER_WINDOW_CLOSES
    MaxFrames, MaxLifecycle     \* bounds: frames walked; openings, closes, cameras added, removed

VARIABLES
    chain,      \* the rosters of this process
    el,         \* [1 .. Len(chain) -> one element's attributes]
    worker,     \* [Workers -> the walk of one frame]
    frames, lifecycle

vars == <<chain, el, worker, frames, lifecycle>>

Elements == DOMAIN chain
NoBarrier == [id |-> 0, closed |-> TRUE, hooked |-> FALSE, announced |-> {}, seen |-> {},
              notMine |-> {}]
Closed == [open |-> FALSE, routes |-> FALSE, tracker |-> 0, barrier |-> NoBarrier,
           old |-> NoBarrier, reported |-> -1, starved |-> FALSE, warnings |-> 0,
           windows |-> 0, judgeAt |-> SilentAfter, silent |-> {}]
Idle == [at |-> "idle", cam |-> "none", e |-> 0, barrier |-> 0, out |-> "none", tracks |-> FALSE,
         ids |-> {}, missing |-> FALSE, ran |-> -1]

Live(b) == IF b.hooked THEN b.announced ELSE b.seen
CameraAddedTo(b, c) == [b EXCEPT !.hooked = TRUE, !.announced = @ \cup {c}]
DropCamera(b, c) == [b EXCEPT !.announced = @ \ {c}, !.seen = @ \ {c}]
SilentCameras(b) == b.announced \ b.seen

Waiting == {w \in Workers : worker[w].at = "waiting"}
WaitingOn(e, id) == {w \in Waiting : worker[w].e = e /\ worker[w].barrier = id}

Init ==
    /\ chain \in Setups
    /\ el = [e \in DOMAIN chain |-> Closed]
    /\ worker = [w \in Workers |-> Idle]
    /\ frames = 0 /\ lifecycle = 0

-----------------------------------------------------------------------------
(* Lifecycle, one thread.                                                  *)

Overgrown(cameras) == cameras > Permits + 1

\* The live count is published when it changed; outgrowing the budget is said at the crossing.
NoteCameras(x) ==
    LET n == Cardinality(Live(x.barrier)) IN
    IF n = x.reported THEN x
    ELSE [x EXCEPT !.reported = n, !.starved = Overgrown(n),
                   !.warnings = IF Overgrown(n) /\ ~x.starved THEN @ + 1 ELSE @]

Routes == Len(chain) > 1

AnnounceRoster(b, roster) ==
    IF roster = {} THEN b ELSE [b EXCEPT !.hooked = TRUE, !.announced = roster]

\* An unrostered group beside another one would take its cameras: refused.
Open(e) ==
    /\ ~el[e].open /\ lifecycle < MaxLifecycle /\ lifecycle' = lifecycle + 1
    /\ ~(Routes /\ chain[e] = {})
    /\ LET fresh == [NoBarrier EXCEPT !.id = el[e].old.id + 1, !.closed = FALSE]
           over == chain[e] # {} /\ Overgrown(Cardinality(chain[e]))
       IN  el' = [el EXCEPT ![e] = NoteCameras(
                    [Closed EXCEPT !.open = TRUE, !.routes = Routes, !.tracker = fresh.id,
                                   !.barrier = AnnounceRoster(fresh, chain[e]), !.old = el[e].old,
                                   !.starved = over, !.warnings = IF over THEN 1 ELSE 0])]
    /\ UNCHANGED <<chain, worker, frames>>

OpenRefused(e) ==
    /\ ~el[e].open /\ lifecycle < MaxLifecycle /\ lifecycle' = lifecycle + 1
    /\ Routes /\ chain[e] = {}
    /\ UNCHANGED <<chain, el, worker, frames>>

\* Fault: the tracker goes first, and the barrier with it: nobody is released.
Close_TrackerFirst(e) ==
    /\ el[e].open /\ lifecycle < MaxLifecycle /\ lifecycle' = lifecycle + 1
    /\ el' = [el EXCEPT ![e] = [Closed EXCEPT !.old = el[e].barrier]]
    /\ UNCHANGED <<chain, worker, frames>>

\* close_all() under the barrier's lock, then the references.
Close(e) ==
    /\ el[e].open /\ lifecycle < MaxLifecycle /\ lifecycle' = lifecycle + 1
    /\ el' = [el EXCEPT ![e] = [Closed EXCEPT !.old = [el[e].barrier EXCEPT !.closed = TRUE]]]
    /\ worker' = [w \in Workers |->
                    IF w \in WaitingOn(e, el[e].barrier.id)
                    THEN [worker[w] EXCEPT !.at = "back", !.out = "shutdown"] ELSE worker[w]]
    /\ UNCHANGED <<chain, frames>>

\* A camera outside the roster is another group's, or is associated all the same.
CameraAdded(c) ==
    /\ lifecycle < MaxLifecycle /\ lifecycle' = lifecycle + 1
    /\ el' = [e \in Elements |->
                IF ~el[e].open \/ (chain[e] # {} /\ c \notin chain[e] /\ el[e].routes) THEN el[e]
                ELSE NoteCameras([el[e] EXCEPT !.barrier = CameraAddedTo(@, c)])]
    /\ UNCHANGED <<chain, worker, frames>>

CameraRemoved(c) ==
    /\ lifecycle < MaxLifecycle /\ lifecycle' = lifecycle + 1
    /\ el' = [e \in Elements |->
                IF ~el[e].open THEN el[e]
                ELSE NoteCameras([el[e] EXCEPT !.barrier = DropCamera(@, c)])]
    /\ UNCHANGED <<chain, worker, frames>>

-----------------------------------------------------------------------------
(* One frame through the elements of the chain.                            *)

Take(w, c, tracks) ==
    /\ worker[w].at \in {"idle", "out"} /\ frames < MaxFrames /\ frames' = frames + 1
    /\ worker' = [worker EXCEPT ![w] = [Idle EXCEPT !.at = "next", !.cam = c, !.e = 1,
                                                    !.tracks = tracks]]
    /\ UNCHANGED <<chain, el, lifecycle>>

\* On to the next element, or out of the chain.
Moves(x) == [x EXCEPT !.at = IF x.e = Len(chain) THEN "out" ELSE "next", !.e = @ + 1]
Missing(x) == [Moves(x) EXCEPT !.missing = TRUE]

\* Every so many closed windows: which declared camera has never sent a frame?
NoteSilentRoster(x) ==
    IF x.silent # {} \/ x.windows < x.judgeAt THEN x
    ELSE [x EXCEPT !.judgeAt = x.windows + SilentAfter, !.silent = SilentCameras(x.barrier)]

NotMine(e, c) == el[e].routes /\ c \notin chain[e]

PassesOver(x) == Moves(x)

\* process() up to submit(): the element may be closed from here on.
Enter(w) ==
    LET e == worker[w].e IN
    /\ worker[w].at = "next"
    /\ \/ /\ ~el[e].open                    \* ServerStateError: the frame ends here
          /\ worker' = [worker EXCEPT ![w].at = "out", ![w].out = "error"]
          /\ UNCHANGED el
       \/ /\ el[e].open
          /\ LET judged == NoteSilentRoster(el[e]) IN
             \/ /\ NotMine(e, worker[w].cam)
                /\ el' = [el EXCEPT ![e] =
                             [judged EXCEPT !.barrier.notMine = @ \cup {worker[w].cam}]]
                /\ worker' = [worker EXCEPT ![w] = PassesOver(@)]
             \/ /\ ~NotMine(e, worker[w].cam) /\ ~worker[w].tracks
                /\ el' = [el EXCEPT ![e] = judged]
                /\ worker' = [worker EXCEPT ![w] = Missing(@)]
             \/ /\ ~NotMine(e, worker[w].cam) /\ worker[w].tracks
                /\ el' = [el EXCEPT ![e] = judged]
                /\ worker' = [worker EXCEPT ![w].at = "submits", ![w].barrier = el[e].barrier.id]
    /\ UNCHANGED <<chain, frames, lifecycle>>

\* The barrier a worker took a reference to: the element's, or the one it was closed with.
BarrierOf(w) ==
    LET x == el[worker[w].e] IN IF x.barrier.id = worker[w].barrier THEN x.barrier ELSE x.old

\* Worker w ends the instant of its barrier: one association for all that wait.
Ends(w, why, fails) ==
    LET e == worker[w].e
        others == WaitingOn(e, worker[w].barrier) \ {w}
    IN  /\ worker' = [v \in Workers |->
                       IF v = w THEN [worker[v] EXCEPT !.at = "back", !.ran = el[e].tracker,
                                          !.out = IF fails THEN "unassignable" ELSE "ids"]
                       ELSE IF v \in others
                       THEN [worker[v] EXCEPT !.at = "back",
                                              !.out = IF fails THEN "failed" ELSE "ids"]
                       ELSE worker[v]]
        /\ el' = [el EXCEPT ![e].windows = IF why = "window" /\ ~fails THEN @ + 1 ELSE @,
                            ![e].barrier.seen = IF BarrierOf(w) = el[e].barrier
                                                THEN @ \cup {worker[w].cam} ELSE @]

Reporting(w) ==
    {worker[v].cam : v \in WaitingOn(worker[w].e, worker[w].barrier)} \cup {worker[w].cam}

Submit(w) ==
    LET e == worker[w].e
        b == [BarrierOf(w) EXCEPT !.seen = @ \cup {worker[w].cam}]
        seen == [el EXCEPT ![e].barrier = IF b.id = @.id THEN b ELSE @]
    IN
    /\ worker[w].at = "submits"
    /\ \/ /\ b.closed
          /\ worker' = [worker EXCEPT ![w].at = "back", ![w].out = "shutdown"]
          /\ UNCHANGED el
       \/ /\ ~b.closed                      \* late, duplicate or stepped backwards
          /\ worker' = [worker EXCEPT ![w].at = "back", ![w].out = "missed"]
          /\ el' = seen
       \/ /\ ~b.closed /\ Live(b) \subseteq Reporting(w)
          /\ \E fails \in BOOLEAN : Ends(w, "complete", fails)
       \/ /\ ~b.closed /\ ~(Live(b) \subseteq Reporting(w))
          /\ worker' = [worker EXCEPT ![w].at = IF Cardinality(Waiting) < Permits
                                                THEN "waiting" ELSE "back",
                                      ![w].out = "would_starve"]
          /\ el' = seen
    /\ UNCHANGED <<chain, frames, lifecycle>>

\* The deadline of the instant passes: a waiter ends it.
WindowCloses(w) ==
    /\ worker[w].at = "waiting"
    /\ \E fails \in BOOLEAN : Ends(w, "window", fails)
    /\ UNCHANGED <<chain, frames, lifecycle>>

\* submit() returned: the ids of the instant, or the stage is missing.
Back(w) ==
    /\ worker[w].at = "back"
    /\ worker' = [worker EXCEPT ![w] =
                    IF @.out = "ids" THEN [Moves(@) EXCEPT !.ids = @ \cup {worker[w].e}]
                    ELSE Missing(@)]
    /\ UNCHANGED <<chain, el, frames, lifecycle>>

Next ==
    \/ \E e \in Elements : Open(e) \/ OpenRefused(e) \/ Close(e)
    \/ \E c \in Cameras : CameraAdded(c) \/ CameraRemoved(c)
    \/ \E w \in Workers :
          \/ \E c \in Cameras, tracks \in BOOLEAN : Take(w, c, tracks)
          \/ Enter(w) \/ Submit(w) \/ WindowCloses(w) \/ Back(w)

Spec == Init /\ [][Next]_vars

-----------------------------------------------------------------------------
\* Of every step: an association runs with the tracker of the very opening its
\* frames were filed under, also for workers nobody joined before the element
\* was closed and opened again (_do_close releases the barrier before it drops
\* the tracker).
AssociatesOnlyOpen ==
    \A w \in Workers : worker'[w].ran # worker[w].ran /\ worker'[w].at = "back"
        => worker'[w].ran = worker[w].barrier

\* A frame has the ids of one group at most, its own, and is marked as missing
\* them exactly when its own group did not answer: the other groups of the
\* process leave it alone (_do_process's routing).
OneGroupAnswers ==
    \A w \in Workers :
        worker[w].at = "out" /\ worker[w].out # "error" /\ Len(chain) > 1 =>
            LET mine == {e \in Elements : worker[w].cam \in chain[e]} IN
            /\ worker[w].ids \subseteq mine
            /\ worker[w].missing = (worker[w].ids # mine)

\* A group that was announced is latched as outgrown exactly while more cameras
\* are live than one instant can answer, so that each crossing is said once
\* (_note_cameras, _starved_group preset by _do_open).
LatchFollowsTheGroup ==
    \A e \in Elements : el[e].open /\ el[e].barrier.hooked =>
        el[e].starved = Overgrown(Cardinality(Live(el[e].barrier)))

\* Of every step: a camera reported as silent was silent when it was judged:
\* declared, and without a frame (_note_silent_roster).
SilentMeansSilent ==
    \A e \in DOMAIN chain : el'[e].silent # {} /\ el[e].silent = {} =>
        el'[e].silent \cap el[e].barrier.seen = {}
=============================================================================
