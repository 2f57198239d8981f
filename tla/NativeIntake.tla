---------------------------- MODULE NativeIntake ----------------------------
(***************************************************************************)
(* How a decoded frame gets from the video engine to a pipeline worker in  *)
(* the C++ plane: NvdecSource (ingest/sources/nvdec.cpp) maps a picture    *)
(* out of a decoder with two output surfaces, QueueSink                    *)
(* (pipeline/queue_sink.h) copies it into a buffer of the device's         *)
(* SurfaceIntake (pipeline/surface_intake.cpp), gives the surface back and *)
(* queues the frame in the lane of its device, whose worker gives the      *)
(* buffer back.                                                            *)
(*                                                                         *)
(* A camera's thread runs pump() (ingest/camera/actor.cpp): the session of *)
(* a source may be torn down while a surface of it is still held.          *)
(***************************************************************************)
EXTENDS Integers, Sequences, FiniteSets

CONSTANTS
    Cameras,
    Setups,         \* [devices, perDevice, host, home]: the run's GPUs, whether it has a lane for
                    \* each, whether frames are host frames, [Cameras -> GPU it decodes on]
    SizeOf,         \* [Cameras -> size of its pictures]
    Buffers,        \* device buffers that may be allocated
    OutputSurfaces, \* ulNumOutputSurfaces
    DecodeSurfaces, \* surfaces: pictures a decoder may show before they are mapped
    Capacity,       \* of the pipeline queue, over all lanes
    MaxPooled,      \* idle buffers kept per device and size
    MaxConnects, MaxFrames      \* bounds: sessions opened, pictures shown

VARIABLES
    setup,
    cam,        \* [Cameras -> the camera's thread and its source]
    session,    \* sequence of the sessions opened so far: [open, mapped]
    buffer,     \* [Buffers -> where it is, on which device, how large]
    lane,       \* [lanes -> sequence of queued frames]
    busy,       \* [lanes -> what its worker is on, <<>> if nothing]
    closed, shown

vars == <<setup, cam, session, buffer, lane, busy, closed, shown>>

NoFrame == [of |-> 0, slot |-> 0, buf |-> "none"]
Unallocated == [at |-> "free", device |-> -1, size |-> 0]
Off == [at |-> "off", session |-> 0, decoder |-> FALSE, ready |-> 0, frame |-> NoFrame]

-----------------------------------------------------------------------------
(* Lanes.                                                                  *)

LaneCount(s) == IF s.perDevice THEN Len(s.devices) ELSE 1
Lanes == 1 .. LaneCount(setup)
PerLane == IF Capacity \div LaneCount(setup) > 1 THEN Capacity \div LaneCount(setup) ELSE 1

\* The lane whose worker can reach pixels of this device; one lane takes everything.
LaneOf(device) ==
    IF LaneCount(setup) = 1 THEN 1 ELSE CHOOSE i \in Lanes : setup.devices[i] = device

Driven(device) == \E i \in DOMAIN setup.devices : setup.devices[i] = device
WorkerDevice(l) == setup.devices[l]

Init ==
    /\ setup \in Setups
    /\ cam = [c \in Cameras |-> Off]
    /\ session = <<>>
    /\ buffer = [b \in Buffers |-> Unallocated]
    /\ lane = [l \in Lanes |-> <<>>]
    /\ busy = [l \in Lanes |-> <<>>]
    /\ closed = FALSE /\ shown = 0

-----------------------------------------------------------------------------
(* Sessions: alive while their source is open or a surface of theirs is.   *)

Alive(s) == session[s].open \/ session[s].mapped # {}

\* Fault: the session is destroyed with its source.
Reset_Destroys(ss, s) == [ss EXCEPT ![s] = [open |-> FALSE, mapped |-> {}]]

\* Decoder::close(): its share of the session goes.
Reset(ss, s) == [ss EXCEPT ![s].open = FALSE]

\* The owner of a surface dies: it is unmapped and its event is free again.
Unmapped(ss, f) == IF f.of = 0 THEN ss ELSE [ss EXCEPT ![f.of].mapped = @ \ {f.slot}]

\* pump() returns: the frame it held goes, and the source if it was torn down.
TornDown(c, at) ==
    /\ cam' = [cam EXCEPT ![c] = [Off EXCEPT !.at = at, !.frame = cam[c].frame]]
    /\ session' = Reset(session, cam[c].session)

Connect(c) ==
    /\ cam[c].at = "off" /\ Len(session) < MaxConnects /\ ~closed
    /\ IF setup.host
       THEN cam' = [cam EXCEPT ![c] = [Off EXCEPT !.at = "reading"]] /\ UNCHANGED session
       ELSE /\ session' = Append(session, [open |-> TRUE, mapped |-> {}])
            /\ cam' = [cam EXCEPT ![c] = [Off EXCEPT !.at = "reading", !.session = Len(session) + 1]]
    /\ UNCHANGED <<setup, buffer, lane, busy, closed, shown>>

\* A source whose open() fails keeps nothing: unavailable or misconfigured ends the camera.
ConnectRefused(c) ==
    /\ cam[c].at = "off"
    /\ cam' = [cam EXCEPT ![c].at = "ended"]
    /\ UNCHANGED <<setup, session, buffer, lane, busy, closed, shown>>

\* One access unit through the parser: its callbacks make the decoder and show pictures.
OnSequence(c) == [cam[c] EXCEPT !.decoder = TRUE]
OnDisplay(x, pictures) == [x EXCEPT !.ready = @ + pictures]

Feed(c) ==
    /\ cam[c].at = "reading" /\ cam[c].ready = 0 /\ ~setup.host /\ shown < MaxFrames
    /\ \E pictures \in 1 .. DecodeSurfaces + 1 :
         IF pictures > DecodeSurfaces
         THEN /\ TornDown(c, "off") /\ UNCHANGED shown      \* more pictures than surfaces
         ELSE /\ cam' = [cam EXCEPT ![c] = OnDisplay(OnSequence(c), pictures)]
              /\ shown' = shown + pictures
              /\ UNCHANGED session
    /\ UNCHANGED <<setup, buffer, lane, busy, closed>>

\* The stream ends, changes its size or cannot be parsed: the source is torn down, and
\* opened again unless the failure is one that a retry cannot cure.
FeedFails(c) ==
    /\ cam[c].at = "reading" /\ ~setup.host /\ cam[c].ready = 0
    /\ \E fatal \in BOOLEAN : TornDown(c, IF fatal THEN "ended" ELSE "off")
    /\ UNCHANGED <<setup, buffer, lane, busy, closed, shown>>

FreeSlots(s) == (1 .. OutputSurfaces) \ session[s].mapped

\* map_next(): the next picture gets an output surface and a ready event.
Map(c) ==
    LET s == cam[c].session IN
    /\ cam[c].at = "reading" /\ cam[c].ready > 0 /\ FreeSlots(s) # {}
    /\ \E slot \in FreeSlots(s) :
         /\ session' = [session EXCEPT ![s].mapped = @ \cup {slot}]
         /\ cam' = [cam EXCEPT ![c].at = "publishing", ![c].ready = @ - 1,
                               ![c].frame = [NoFrame EXCEPT !.of = s, !.slot = slot]]
    /\ UNCHANGED <<setup, buffer, lane, busy, closed, shown>>

\* No surface is left, or an event cannot be made or recorded: nothing stays mapped.
MapFails(c) ==
    /\ cam[c].at = "reading" /\ cam[c].ready > 0
    /\ TornDown(c, "off")
    /\ UNCHANGED <<setup, buffer, lane, busy, closed, shown>>

ReadHost(c) ==
    /\ cam[c].at = "reading" /\ setup.host /\ shown < MaxFrames /\ shown' = shown + 1
    /\ cam' = [cam EXCEPT ![c].at = "queueing"]
    /\ UNCHANGED <<setup, session, buffer, lane, busy, closed>>

-----------------------------------------------------------------------------
(* QueueSink::put.                                                         *)

\* A frame of a GPU this process does not drive is fatal for its camera; the source goes
\* while pump() still holds the frame.
PutRefused(c) ==
    /\ cam[c].at = "publishing" /\ ~Driven(setup.home[c])
    /\ TornDown(c, "dropping")
    /\ UNCHANGED <<setup, buffer, lane, busy, closed, shown>>

Idle(device, size) ==
    {b \in Buffers : buffer[b] = [at |-> "pool", device |-> device, size |-> size]}

Reusable(device, size) == Idle(device, size)

Fresh == {b \in Buffers : buffer[b] = Unallocated}

\* The pixels are copied: the surface is given back before the frame is queued.
Copied(c, b) == [cam[c] EXCEPT !.at = "queueing", !.frame = [NoFrame EXCEPT !.buf = b]]

Take(c) ==
    LET device == setup.home[c]
        from == IF Reusable(device, SizeOf[c]) # {} THEN Reusable(device, SizeOf[c]) ELSE Fresh
    IN
    /\ cam[c].at = "publishing" /\ Driven(device)
    /\ \E b \in from :
         /\ buffer' = [buffer EXCEPT ![b] = IF @.at = "pool" THEN [@ EXCEPT !.at = "frame"]
                                            ELSE [at |-> "frame", device |-> device,
                                                  size |-> SizeOf[c]]]
         /\ cam' = [cam EXCEPT ![c] = Copied(c, b)]
         /\ session' = IF cam'[c].frame.of = 0 THEN Unmapped(session, cam[c].frame) ELSE session
    /\ UNCHANGED <<setup, lane, busy, closed, shown>>

\* The last reference to a frame's pixels is gone: pooled, or freed if enough are idle.
GivenBack(b) ==
    IF Cardinality(Idle(buffer[b].device, buffer[b].size)) >= MaxPooled
    THEN [buffer EXCEPT ![b] = Unallocated] ELSE [buffer EXCEPT ![b].at = "pool"]

Put(c) ==
    LET l == LaneOf(IF setup.host THEN -1 ELSE setup.home[c])
        f == [cam |-> c, buf |-> cam[c].frame.buf, of |-> cam[c].frame.of,
              slot |-> cam[c].frame.slot]
        drops == closed \/ Len(lane[l]) >= PerLane
    IN
    /\ cam[c].at = "queueing"
    /\ lane' = IF drops THEN lane ELSE [lane EXCEPT ![l] = Append(@, f)]
    /\ buffer' = IF drops /\ f.buf # "none" THEN GivenBack(f.buf) ELSE buffer
    /\ IF closed                \* the consumer is gone: the camera ends
       THEN /\ cam' = [cam EXCEPT ![c] = [Off EXCEPT !.at = "ended"]]
            /\ session' = IF setup.host THEN session
                          ELSE Reset(Unmapped(session, f), cam[c].session)
       ELSE /\ cam' = [cam EXCEPT ![c].at = "reading", ![c].frame = NoFrame]
            /\ session' = IF drops THEN Unmapped(session, f) ELSE session
    /\ UNCHANGED <<setup, busy, closed, shown>>

\* pump() returns and its frame dies, after the source did.
DropFrame(c) ==
    /\ cam[c].at = "dropping"
    /\ session' = Unmapped(session, cam[c].frame)
    /\ cam' = [cam EXCEPT ![c] = [Off EXCEPT !.at = "ended"]]
    /\ UNCHANGED <<setup, buffer, lane, busy, closed, shown>>

-----------------------------------------------------------------------------
(* Workers, one per lane here; and shutdown.                               *)

Work(l) ==
    /\ busy[l] = <<>> /\ lane[l] # <<>>
    /\ busy' = [busy EXCEPT ![l] = <<Head(lane[l])>>]
    /\ lane' = [lane EXCEPT ![l] = Tail(@)]
    /\ UNCHANGED <<setup, cam, session, buffer, closed, shown>>

Done(l) ==
    /\ busy[l] # <<>>
    /\ buffer' = IF busy[l][1].buf = "none" THEN buffer ELSE GivenBack(busy[l][1].buf)
    /\ session' = Unmapped(session, busy[l][1])
    /\ busy' = [busy EXCEPT ![l] = <<>>]
    /\ UNCHANGED <<setup, cam, lane, closed, shown>>

CloseLanes ==
    /\ ~closed /\ closed' = TRUE
    /\ UNCHANGED <<setup, cam, session, buffer, lane, busy, shown>>

Next ==
    \/ \E c \in Cameras :
          \/ Connect(c) \/ ConnectRefused(c) \/ Feed(c) \/ FeedFails(c) \/ Map(c) \/ MapFails(c)
          \/ ReadHost(c) \/ PutRefused(c) \/ Take(c) \/ Put(c) \/ DropFrame(c)
    \/ \E l \in Lanes : Work(l) \/ Done(l)
    \/ CloseLanes

Spec == Init /\ [][Next]_vars

-----------------------------------------------------------------------------
\* A worker only ever gets pixels of its own GPU: a frame stays on the device
\* it was decoded on (PipelineLanes::lane_of, QueueSink::put).
OnItsOwnDevice ==
    \A l \in Lanes : busy[l] # <<>> /\ busy[l][1].buf # "none" =>
        /\ buffer[busy[l][1].buf].device = WorkerDevice(l)
        /\ buffer[busy[l][1].buf].device = setup.home[busy[l][1].cam]

\* A surface that is held belongs to a session that still lives, also after its
\* source was torn down, and a session that nobody holds is gone (the shared
\* Session of Decoder and of every DeviceImage).
SurfacesOutliveTheirSource ==
    \A c \in Cameras :
        /\ cam[c].frame.of # 0 => cam[c].frame.slot \in session[cam[c].frame.of].mapped
        /\ cam[c].at \in {"off", "ended"} =>
              \A s \in DOMAIN session : Alive(s) => \E d \in Cameras \ {c} : s \in
                  {cam[d].session, cam[d].frame.of}

\* However many frames wait, a decoder has an output surface free for its next
\* picture: no queued frame holds one (SurfaceIntake::take, QueueSink::put).
QueueHoldsNoSurface ==
    \A c \in Cameras : cam[c].at = "reading" /\ cam[c].session # 0 =>
        session[cam[c].session].mapped = {}

\* Each allocated buffer is idle or in exactly one frame, a frame's is of its
\* own size, and no more than the bound are idle per device and size
\* (SurfaceIntake::give_back).
BuffersAccounted ==
    LET frames == {<<"cam", c>> : c \in {x \in Cameras : cam[x].frame.buf # "none"}}
                  \cup {<<"lane", l, n>> : l \in Lanes, n \in 1 .. Capacity}
                  \cup {<<"busy", l>> : l \in {x \in Lanes : busy[x] # <<>>}}
        carried(h) == CASE h[1] = "cam" -> [cam |-> h[2], buf |-> cam[h[2]].frame.buf]
                        [] h[1] = "busy" -> busy[h[2]][1]
                        [] OTHER -> IF h[3] <= Len(lane[h[2]]) THEN lane[h[2]][h[3]]
                                    ELSE [cam |-> "none", buf |-> "none"]
        holders(b) == {h \in frames : carried(h).buf = b}
    IN  \A b \in Buffers :
          /\ buffer[b].at = "frame" <=> holders(b) # {}
          /\ Cardinality(holders(b)) <= 1
          /\ \A h \in holders(b) : buffer[b].size = SizeOf[carried(h).cam]
          /\ buffer[b].at = "pool" =>
                Cardinality(Idle(buffer[b].device, buffer[b].size)) <= MaxPooled
=============================================================================
