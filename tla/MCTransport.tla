----------------------------- MODULE MCTransport -----------------------------
(***************************************************************************)
(* What one part writes and another reads; part says which of these        *)
(* independent instances a behaviour is.                                   *)
(*   "ring"    two request threads and the owner on a ring of two slots    *)
(*   "wire"    messages over a request slot and a response slot: one or    *)
(*             two tensors of up to two rows, a scalar, names and a camera *)
(*             that are too long, too many dimensions, too many rows       *)
(*   "plan"    plan files between the planes, see PlanExchange             *)
(*   "sink"    two workers on the Kafka sink                               *)
(*   "intake"  two cameras on one GPU with pictures of two sizes; a lane   *)
(*             for each of the GPUs 1 and 0, a camera on each; a camera on *)
(*             a GPU that is not driven; host frames in one lane           *)
(***************************************************************************)
EXTENDS SharedRing, TLC

CONSTANTS
    SinkEvents, SinkWorkers, MaxUnacked,        \* of the sink
    Cameras, Setups, SizeOf, Buffers, OutputSurfaces, DecodeSurfaces, Capacity,
    MaxPooled, MaxConnects, MaxFrames           \* of the intake, see NativeIntake

\* A run of host frames has one lane, and one of decoded frames a lane for each
\* of its GPUs (cli/bench.cpp).
ASSUME TransportAssumption ==
    /\ \A s \in Setups :
          /\ s.devices \in Seq(Nat) \ {<<>>}
          /\ s.perDevice \in BOOLEAN /\ s.host \in BOOLEAN
          /\ s.host => ~s.perDevice
          /\ ~s.host => s.perDevice \/ Len(s.devices) = 1
          /\ s.home \in [Cameras -> Int]
    /\ SizeOf \in [Cameras -> Nat]
    /\ IsFiniteSet(Buffers) /\ "none" \notin Buffers
    /\ {OutputSurfaces, DecodeSurfaces, MaxPooled} \subseteq Nat
    /\ Capacity \in Nat \ {0}

\* Messages that appear nowhere yet are interchangeable: the least comes first.
InOrder ==
    \A t \in Threads : msg'[t] \notin {msg[t], Torn} =>
        \A m \in 1 .. msg'[t] - 1 :
            m \in sent \/ (\E u \in Threads : msg[u] = m) \/ (\E s \in Slots : bytes[s] = m)

Symmetry == Permutations(Threads)

VARIABLES part,
          phase, message, reply, inbound, outbound, seen, left,
          todo, worker, sinkClosed, closer, unacked, counts, tags, bounced, told, outcome,
          setup, cam, session, buffer, lane, busy, lanesClosed, shown,
          chain, stage, text, typed, py, cxx, built

Tensor(shape, data) == [shape |-> shape, data |-> data]
Request(id, version, camera, inputs) ==
    [id |-> id, version |-> version, camera |-> camera, inputs |-> inputs]
WireMessages ==
    { Request(1, <<>>, 1, 1 :> Tensor(<<2, 1>>, <<"p", "q">>) @@ 2 :> Tensor(<<2>>, <<"r", "s">>)),
      Request(2, <<0>>, 2, 2 :> Tensor(<<1>>, <<"t">>)),
      Request(3, <<1>>, 1, 1 :> Tensor(<<>>, <<"u">>) @@ 2 :> Tensor(<<1>>, <<"v">>)),
      Request(4, <<1>>, 9, 2 :> Tensor(<<1>>, <<"t">>)),
      Request(5, <<1>>, 1, 9 :> Tensor(<<1>>, <<"t">>)),
      Request(6, <<1>>, 1, 1 :> Tensor(<<1, 1, 1>>, <<"t">>)),
      Request(7, <<1>>, 1, 1 :> Tensor(<<5>>, <<"a", "b", "c", "d", "e">>)) }
Reply(error, outputs) == [error |-> error, outputs |-> outputs]
WireReplies ==
    { Reply("", 1 :> Tensor(<<2>>, <<"x", "y">>)),
      Reply("", 1 :> Tensor(<<1>>, <<"z">>) @@ 3 :> Tensor(<<1>>, <<"w">>)),
      Reply("", 1 :> Tensor(<<9>>, [k \in 1 .. 9 |-> "w"])),
      Reply("queue_full", <<>>), Reply("invalid", <<>>), Reply("crashed", <<>>) }

MCSizeOf == "a" :> 1 @@ "b" :> 2
Homes(a, b) == "a" :> a @@ "b" :> b
Deployment(devices, perDevice, host, home) ==
    [devices |-> devices, perDevice |-> perDevice, host |-> host, home |-> home]
MCSetups ==
    { Deployment(<<0>>, FALSE, FALSE, Homes(0, 0)),
      Deployment(<<1, 0>>, TRUE, FALSE, Homes(0, 1)),
      Deployment(<<0, 1>>, TRUE, FALSE, Homes(1, 5)),
      Deployment(<<0, 1>>, FALSE, TRUE, Homes(-1, -1)) }

Wire == INSTANCE WireFormat WITH
    Messages <- WireMessages, Replies <- WireReplies, MaxDims <- 2, MaxName <- 9, MaxBatch <- 2,
    RowCells <- <<2, 2>>, HeadRoom <- 3, Fallback <- 6, Exchanges <- 2, sent <- message
Sink == INSTANCE ResultSinks WITH
    Events <- SinkEvents, Workers <- SinkWorkers, MaxBuffer <- MaxUnacked,
    closed <- sinkClosed, buffer <- unacked, refused <- bounced
Intake == INSTANCE NativeIntake WITH closed <- lanesClosed
Plan == INSTANCE PlanExchange WITH
    IntMax <- 2, Keys <- {"-", "a", "b"}, Ids <- {0, 1, 2}, MaxLines <- 4

wireVars == <<phase, message, reply, inbound, outbound, seen, left>>
sinkVars == <<todo, worker, sinkClosed, closer, unacked, counts, tags, bounced, told, outcome>>
intakeVars == <<setup, cam, session, buffer, lane, busy, lanesClosed, shown>>
planVars == <<chain, stage, text, typed, py, cxx, built>>

\* In the other parts the ring stays as it is before create(): its properties
\* are those of SharedRing itself.
RingOff == Init
WireOff ==
    /\ phase = 0 /\ message = 0 /\ reply = 0 /\ inbound = 0 /\ outbound = 0 /\ seen = 0
    /\ left = 0
SinkOff ==
    /\ todo = 0 /\ worker = 0 /\ sinkClosed = 0 /\ closer = 0 /\ unacked = 0 /\ counts = 0
    /\ tags = 0 /\ bounced = 0 /\ told = 0 /\ outcome = 0
IntakeOff ==
    /\ setup = 0 /\ cam = 0 /\ session = 0 /\ buffer = 0 /\ lane = 0 /\ busy = 0
    /\ lanesClosed = 0 /\ shown = 0
PlanOff ==
    /\ chain = 0 /\ stage = 0 /\ text = 0 /\ typed = 0 /\ py = 0 /\ cxx = 0 /\ built = 0

MCInit ==
    \/ part = "ring" /\ Init /\ WireOff /\ SinkOff /\ IntakeOff /\ PlanOff
    \/ part = "wire" /\ Wire!Init /\ RingOff /\ SinkOff /\ IntakeOff /\ PlanOff
    \/ part = "sink" /\ Sink!Init /\ RingOff /\ WireOff /\ IntakeOff /\ PlanOff
    \/ part = "intake" /\ Intake!Init /\ RingOff /\ WireOff /\ SinkOff /\ PlanOff
    \/ part = "plan" /\ Plan!Init /\ RingOff /\ WireOff /\ SinkOff /\ IntakeOff

MCNext ==
    /\ UNCHANGED part
    /\ \/ part = "ring" /\ Next /\ InOrder /\ UNCHANGED <<wireVars, sinkVars, intakeVars, planVars>>
       \/ part = "wire" /\ Wire!Next /\ UNCHANGED <<vars, sinkVars, intakeVars, planVars>>
       \/ part = "sink" /\ Sink!Next /\ UNCHANGED <<vars, wireVars, intakeVars, planVars>>
       \/ part = "intake" /\ Intake!Next /\ UNCHANGED <<vars, wireVars, sinkVars, planVars>>
       \/ part = "plan" /\ Plan!Next /\ UNCHANGED <<vars, wireVars, sinkVars, intakeVars>>

MCSpec == MCInit /\ [][MCNext]_<<part, vars, wireVars, sinkVars, intakeVars, planVars>>

-----------------------------------------------------------------------------
\* See WireFormat and PlanExchange: what was written is what is read, whatever
\* the slot held before and whichever plane reads.
ReadAsWritten ==
    /\ part = "wire" => Wire!ArrivesWhole
    /\ part = "plan" => Plan!ReadBackWhole /\ Plan!PlanesReadAlike /\ Plan!StagesAccounted

\* See ResultSinks: a refused event is charged once, to its own frame.
RefusalsToldOnce == part = "sink" => Sink!RefusalsToldOnce

\* See NativeIntake: frames reach the GPU they were decoded on, in memory that is
\* alive and accounted for, and leave the decoder its surfaces.
FramesInGoodMemory ==
    part = "intake" =>
        /\ Intake!OnItsOwnDevice /\ Intake!SurfacesOutliveTheirSource
        /\ Intake!QueueHoldsNoSurface /\ Intake!BuffersAccounted
=============================================================================
