---------------------------- MODULE TrackerShard -----------------------------
(***************************************************************************)
(* One camera's tracker behind the track element (topology/elements/       *)
(* track.py): pipeline workers feed it frames that may overtake each       *)
(* other, while the lifecycle thread removes the camera and adds it back.  *)
(* Cameras share only the table lock, held for one dictionary operation,   *)
(* so one camera is modelled.                                              *)
(*                                                                         *)
(* A stay is what lies between an add and the removal after it.  A frame   *)
(* is <<stay, id>>; ids start at 0 in each stay.                           *)
(***************************************************************************)
EXTENDS Integers, Sequences, FiniteSets, SequencesExt

CONSTANTS Workers,
          MaxFrame,        \* ids of a stay: 0..MaxFrame
          MaxStays,
          RegressionReset  \* params: regression_reset; 0 disables the recovery

VARIABLES stay,      \* how often the camera was added; its decoder runs while `streaming`
          streaming,
          next,      \* the decoder's FrameCounter
          lane,      \* frames queued for the workers
          table,     \* TrackerShard._cameras: the camera's shard, 0 for none
          shards,    \* every _CameraShard ever built
          dropped,   \* the element's _dropped
          hook,      \* where the lifecycle thread is
          w,         \* worker -> where it is, with which frame and shard
          refused    \* frames refused as out of order
vars == <<stay, streaming, next, lane, table, shards, dropped, hook, w, refused>>

Idle == [pc |-> "idle", frame |-> <<0, 0>>, shard |-> 0]
\* `by` is the frame behind last_frame_id and `at` the stay whose hook was
\* through by then; `fed` is what the tracker saw since its last reset.
NewShard == [last |-> -1, by |-> <<0, 0>>, at |-> 0, holder |-> "", fed |-> <<>>,
             resets |-> 0, implicit_resets |-> 0]

Init ==
    /\ stay = 0 /\ streaming = FALSE /\ next = 0 /\ lane = <<>>
    /\ table = 0 /\ shards = <<>> /\ dropped = FALSE
    /\ hook = [pc |-> "idle", shard |-> 0]
    /\ w = [x \in Workers |-> Idle]
    /\ refused = {}

-----------------------------------------------------------------------------
\* The lifecycle thread.  The decoder runs before the hook is called.
AddCamera ==
    /\ hook.pc = "idle" /\ ~streaming /\ stay < MaxStays
    /\ stay' = stay + 1 /\ streaming' = TRUE /\ next' = 0
    /\ hook' = [hook EXCEPT !.pc = "added"]
    /\ UNCHANGED <<lane, table, shards, dropped, w, refused>>

\* Fault: the drop is trusted to have left nothing behind.
CameraAddedNoReset ==
    /\ hook.pc = "added"
    /\ dropped' = FALSE
    /\ hook' = [hook EXCEPT !.pc = "idle"]
    /\ UNCHANGED <<stay, streaming, next, lane, table, shards, w, refused>>

\* camera_added, and reset_if_present's look into the table.
CameraAdded ==
    /\ hook.pc = "added"
    /\ dropped' = FALSE
    /\ hook' = IF dropped /\ table # 0 THEN [pc |-> "reset", shard |-> table]
               ELSE [hook EXCEPT !.pc = "idle"]
    /\ UNCHANGED <<stay, streaming, next, lane, table, shards, w, refused>>

\* _reset waits for an update in flight on this camera.
Reset ==
    /\ hook.pc = "reset" /\ shards[hook.shard].holder = ""
    /\ shards' = [shards EXCEPT ![hook.shard] =
                    [@ EXCEPT !.last = -1, !.fed = <<>>, !.resets = @ + 1]]
    /\ hook' = [pc |-> "idle", shard |-> 0]
    /\ UNCHANGED <<stay, streaming, next, lane, table, dropped, w, refused>>

\* The decoder ends; camera_removed marks the camera, then drops its shard.
RemoveCamera ==
    /\ hook.pc = "idle" /\ streaming
    /\ streaming' = FALSE /\ dropped' = TRUE
    /\ hook' = [hook EXCEPT !.pc = "drop"]
    /\ UNCHANGED <<stay, next, lane, table, shards, w, refused>>

DropShard ==
    /\ hook.pc = "drop"
    /\ table' = 0
    /\ hook' = [hook EXCEPT !.pc = "idle"]
    /\ UNCHANGED <<stay, streaming, next, lane, shards, dropped, w, refused>>

-----------------------------------------------------------------------------
Decode ==
    /\ streaming /\ next <= MaxFrame
    /\ lane' = Append(lane, <<stay, next>>) /\ next' = next + 1
    /\ UNCHANGED <<stay, streaming, table, shards, dropped, hook, w, refused>>

TakeFrame(x) ==
    /\ w[x].pc = "idle" /\ lane # <<>>
    /\ w' = [w EXCEPT ![x] = [Idle EXCEPT !.pc = "look", !.frame = Head(lane)]]
    /\ lane' = Tail(lane)
    /\ UNCHANGED <<stay, streaming, next, table, shards, dropped, hook, refused>>

\* _shard: the unlocked lookup.
LookUp(x) ==
    /\ w[x].pc = "look"
    /\ w' = [w EXCEPT ![x].pc = IF table = 0 THEN "admit" ELSE "update", ![x].shard = table]
    /\ UNCHANGED <<stay, streaming, next, lane, table, shards, dropped, hook, refused>>

\* _shard under the table lock: the first to arrive builds the camera's shard.
Admit(x) ==
    /\ w[x].pc = "admit"
    /\ shards' = IF table = 0 THEN Append(shards, NewShard) ELSE shards
    /\ table' = IF table = 0 THEN Len(shards') ELSE table
    /\ w' = [w EXCEPT ![x].pc = "update", ![x].shard = table']
    /\ UNCHANGED <<stay, streaming, next, lane, dropped, hook, refused>>

Behind(shard, frame) == shard.last - frame[2]
Restarted(shard, frame) == RegressionReset > 0 /\ Behind(shard, frame) >= RegressionReset

Marked(shard, frame, x) ==
    [shard EXCEPT !.last = frame[2], !.by = frame, !.holder = x,
                  !.at = IF hook.pc = "idle" THEN stay ELSE stay - 1]

\* The frame is accepted: a restarted stream begins with a fresh tracker.
Advance(shard, frame, x) ==
    IF Behind(shard, frame) < 0 THEN Marked(shard, frame, x)
    ELSE Marked([shard EXCEPT !.fed = <<>>, !.implicit_resets = @ + 1], frame, x)

\* update(), entering the camera's lock: the frame advances the stream or is
\* refused.
UpdateBegin(x) ==
    LET shard == shards[w[x].shard]  frame == w[x].frame
    IN  /\ w[x].pc = "update" /\ shard.holder = ""
        /\ IF Behind(shard, frame) < 0 \/ Restarted(shard, frame)
           THEN /\ shards' = [shards EXCEPT ![w[x].shard] = Advance(shard, frame, x)]
                /\ w' = [w EXCEPT ![x].pc = "tracking"]
                /\ UNCHANGED refused
           ELSE /\ refused' = refused \cup {frame}
                /\ w' = [w EXCEPT ![x] = Idle]
                /\ UNCHANGED shards
        /\ UNCHANGED <<stay, streaming, next, lane, table, dropped, hook>>

\* tracker.update returns and the camera's lock is released.
UpdateEnd(x) ==
    /\ w[x].pc = "tracking"
    /\ shards' = [shards EXCEPT ![w[x].shard].fed = Append(@, w[x].frame),
                                ![w[x].shard].holder = ""]
    /\ w' = [w EXCEPT ![x] = Idle]
    /\ UNCHANGED <<stay, streaming, next, lane, table, dropped, hook, refused>>

Next ==
    \/ AddCamera \/ CameraAdded \/ Reset \/ RemoveCamera \/ DropShard \/ Decode
    \/ \E x \in Workers : TakeFrame(x) \/ LookUp(x) \/ Admit(x) \/ UpdateBegin(x) \/ UpdateEnd(x)

Spec == Init /\ [][Next]_vars

-----------------------------------------------------------------------------
\* A tracker sees its frames one at a time and, since it was last reset, in
\* strictly increasing order of id, whatever the workers and the lifecycle
\* thread do.
FedInOrder ==
    \A s \in DOMAIN shards : LET fed == shards[s].fed IN
        \A a, b \in DOMAIN fed : a < b => fed[a][2] < fed[b][2]

\* While a camera was never removed it has one tracker, and the add that races
\* its first frames does not restart it: its identities hold from the first
\* frame on.
FirstStayUnbroken ==
    (stay <= 1 /\ ~dropped) => Len(shards) <= 1 /\ \A s \in DOMAIN shards : shards[s].resets = 0

\* When the hook of a camera that came back is through, its tracker does not
\* carry the mark of an earlier stay, which would refuse the new stream's first
\* frames, unless a frame of that stay was fed after the hook.
MarkIsThisStays ==
    (streaming /\ hook.pc = "idle" /\ table # 0) =>
        shards[table].last = -1 \/ stay \in {shards[table].by[1], shards[table].at}
=============================================================================
