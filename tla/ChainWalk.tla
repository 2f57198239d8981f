------------------------------ MODULE ChainWalk ------------------------------
(***************************************************************************)
(* One frame's walk through a loaded chain (runners/walk.py and the        *)
(* _do_process of the elements it calls).  The chain file and the frame    *)
(* are chosen in Init; LoadChain is Topology.from_spec; every later step   *)
(* is one node of the walk, with the fan-in in front of it.                *)
(*                                                                         *)
(* An object is <<detector, place>>: the detection a detector filed in     *)
(* that row.  A vector, a mask or a track carries the object it was made   *)
(* from, so that "the right vector on the right box" can be said.  Rows    *)
(* are counted from 1.                                                     *)
(***************************************************************************)
EXTENDS ChainLoad, TLC

CONSTANTS Families,    \* sets of chain files: [slots, frame, fps, camera]
          MaxRows      \* the crop model's max_batch_size

VARIABLES file,        \* the chain file and the frame handed to it
          topo,        \* the loaded topology
          pos,         \* how many nodes of topo.order were walked
          produced,    \* slot -> <<item>> or <<>> (nothing)
          got,         \* slot -> the caps its element was given
          outcome,     \* "walking" until the work item's future is resolved
          events       \* what the output elements published
vars == <<file, topo, pos, produced, got, outcome, events>>

spec == file.slots
Slots == DOMAIN spec
Impl(i) == spec[i].impl
Has(item, key) == key \in DOMAIN item.meta

Derive(item, meta) == [item EXCEPT !.meta = meta @@ @]

-----------------------------------------------------------------------------
(* The elements.  A result is <<item>>, <<>> for None, and Failed when it  *)
(* raises.                                                                 *)

\* The rows of the detections that a slot's `classes:` select, in the
\* detector's order.
Selected(i, dets) ==
    SelectSeq([r \in DOMAIN dets |-> r],
              LAMBDA r : spec[i].classes = <<>> \/ dets[r].class \in spec[i].classes[1])

\* Fault: each chunk after the first starts one row early.
SubmitCrops_OffByOne(crops) ==
    FlattenSeq([k \in 1..((Len(crops) + MaxRows - 1) \div MaxRows) |->
        LET from == (k - 1) * MaxRows + 1
            back == IF k > 1 THEN 1 ELSE 0
            upto == IF k * MaxRows > Len(crops) THEN Len(crops) ELSE k * MaxRows
        IN  SubSeq(crops, from - back, upto - back)])

\* More crops than the engine's batch go as several requests, and the answers
\* are joined.
SubmitCrops(crops) ==
    FlattenSeq([k \in 1..((Len(crops) + MaxRows - 1) \div MaxRows) |->
        SubSeq(crops, (k - 1) * MaxRows + 1,
               IF k * MaxRows > Len(crops) THEN Len(crops) ELSE k * MaxRows)])

\* A slot adds its rows to those filed before it on this branch; a row filed
\* twice raises.
Scatter(i, item, covered) ==
    LET key == Element(Impl(i)).key
    IN  IF ~Has(item, key) THEN <<"ok", Derive(item, key :> covered)>>
        ELSE IF DOMAIN covered \cap DOMAIN item.meta[key] # {} THEN <<"raised">>
        ELSE <<"ok", Derive(item, key :> (covered @@ item.meta[key]))>>

\* _PoolCropElement: prepare, submit, finish, scatter.  The pixels must be on
\* the host.
ProcessCrop(i, item) ==
    IF ~Has(item, "detections") THEN <<"raised">>
    ELSE LET dets == item.meta.detections
             rows == Selected(i, dets)
             answer == SubmitCrops([k \in DOMAIN rows |-> [of |-> dets[rows[k]], by |-> i]])
         IN  IF rows = <<>> THEN Scatter(i, item, <<>>)
             ELSE IF item.caps.location # "cpu" \/ ~item.payload THEN <<"raised">>
             ELSE IF Len(answer) # Len(rows) THEN <<"raised">>
             ELSE Scatter(i, item, [r \in ToSet(rows) |->
                        answer[CHOOSE k \in DOMAIN rows : rows[k] = r]])

\* PoolDetect: files the decoded detections over whatever was there.
ProcessDetect(i, item) ==
    IF item.caps.location # "cpu" \/ ~item.payload THEN <<"raised">>
    ELSE <<"ok", Derive(item, "detections" :>
            [r \in DOMAIN file.frame |-> [class |-> file.frame[r], at |-> <<i, r>>]])>>

WithoutStage(item, stage) ==
    Derive(item, "missing_stages" :> Append(IF Has(item, "missing_stages")
                                            THEN item.meta.missing_stages ELSE <<>>, stage))

MetaOnly(item) == [item EXCEPT !.caps = META, !.payload = FALSE]

\* detections.per_row: a scatter-back may not name a row the frame does not
\* have.
RowsExist(item, key) ==
    Has(item, key) => Has(item, "detections")
                      /\ DOMAIN item.meta[key] \subseteq DOMAIN item.meta.detections

\* ShipvisionTrack: one track per selected row; an out-of-order frame goes
\* untracked.
ProcessTrack(i, item, ordered) ==
    IF ~Has(item, "detections") THEN <<"ok", MetaOnly(WithoutStage(item, "track"))>>
    ELSE IF ~RowsExist(item, "vectors") THEN <<"raised">>
    ELSE IF ~ordered THEN <<"ok", MetaOnly(WithoutStage(item, "track"))>>
    ELSE LET rows == Selected(i, item.meta.detections)
         IN  <<"ok", MetaOnly(Derive(item,
                "tracks" :> [k \in DOMAIN rows |->
                                [of |-> item.meta.detections[rows[k]], by |-> i]]
                @@ "track_rows" :> rows))>>

\* With several groups in the process, a camera outside a group's roster passes
\* through it.
NotMine(i) == /\ Cardinality(CrossCameraSlots(spec)) > 1
              /\ file.camera \notin ToSet(spec[i].roster)

\* ShipvisionMtmc: one global id per track, or `mtmc` among the missing stages.
ProcessMtmc(i, item, answered) ==
    IF NotMine(i) THEN <<"ok", item>>
    ELSE IF ~Has(item, "tracks") \/ ~answered THEN <<"ok", WithoutStage(item, "mtmc")>>
    ELSE <<"ok", Derive(item, "global_ids" :> [k \in DOMAIN item.meta.tracks |->
                                [of |-> item.meta.tracks[k].of, by |-> i]])>>

\* SinkOutput._tracks_by_row: the track on a row, and the global id of that
\* track.
TracksMisfiled(item) ==
    /\ Has(item, "tracks")
    /\ item.meta.tracks # <<>>
    /\ \/ Len(item.meta.track_rows) # Len(item.meta.tracks)
       \/ Has(item, "global_ids") /\ Len(item.meta.global_ids) # Len(item.meta.tracks)

TrackOnRow(item, r) ==
    IF ~Has(item, "tracks") THEN <<>>
    ELSE SelectSeq([k \in DOMAIN item.meta.track_rows |-> k],
                   LAMBDA k : item.meta.track_rows[k] = r)

\* One record per detection: its box, and what each stage filed for that row.
Record(item, r) ==
    LET scattered(key) == IF Has(item, key) /\ r \in DOMAIN item.meta[key]
                          THEN <<item.meta[key][r]>> ELSE <<>>
        at == TrackOnRow(item, r)
    IN  [box       |-> item.meta.detections[r],
         embedding |-> scattered("vectors"),
         mask      |-> scattered("masks"),
         track     |-> IF at = <<>> THEN <<>> ELSE <<item.meta.tracks[at[Len(at)]]>>,
         global    |-> IF at = <<>> \/ ~Has(item, "global_ids") THEN <<>>
                       ELSE <<item.meta.global_ids[at[Len(at)]]>>]

\* SinkOutput.event: no detections is an event with no objects.
EventOf(i, item) ==
    [sink    |-> i,
     objects |-> IF Has(item, "detections")
                 THEN [r \in DOMAIN item.meta.detections |-> Record(item, r)] ELSE <<>>,
     missing |-> IF Has(item, "missing_stages") THEN item.meta.missing_stages ELSE <<>>]

Unpublishable(item) == ~RowsExist(item, "vectors") \/ ~RowsExist(item, "masks")
                       \/ TracksMisfiled(item)

-----------------------------------------------------------------------------
(* ChainWalk.inbound: what reaches a slot.                                 *)

\* Its predecessors that produced something, in the order the chain names them.
Contributors(i) == SelectSeq(topo.inputs[i], LAMBDA p : produced[p] # <<>>)

RowIndexed == {"vectors", "masks"}

\* Two scatter-backs unite; anything else keeps what the first branch said.
MergeKey(key, held, value) == IF key \in RowIndexed THEN held @@ value ELSE held

Collides(key, held, value) ==
    key \in RowIndexed /\ \E r \in DOMAIN held \cap DOMAIN value : held[r] # value[r]

MergeMeta(contributors) ==
    FoldLeft(LAMBDA acc, p :
                LET meta == produced[p][1].meta
                IN  [ok |-> acc.ok /\ \A k \in DOMAIN meta \cap DOMAIN acc.meta :
                                          ~Collides(k, acc.meta[k], meta[k]),
                     meta |-> [k \in DOMAIN meta \cup DOMAIN acc.meta |->
                                 IF k \notin DOMAIN acc.meta THEN meta[k]
                                 ELSE IF k \notin DOMAIN meta THEN acc.meta[k]
                                 ELSE MergeKey(k, acc.meta[k], meta[k])]],
             [ok |-> TRUE, meta |-> <<>>], contributors)

\* The donor, or a branch whose edge carries the cap the donor's edge carries.
Donors(i) ==
    IF produced[topo.donor[i]] # <<>> THEN <<topo.donor[i]>>
    ELSE SelectSeq(Contributors(i), LAMBDA p :
            EdgeCaps(topo.edges, p, i) = EdgeCaps(topo.edges, topo.donor[i], i))

\* "none": every branch dropped the frame.  "raised": no donor, or two branches
\* disagree.
Inbound(i) ==
    IF topo.inputs[i] = <<>>
    THEN <<"ok", [caps |-> Element(Impl(i)).produces[1], payload |-> TRUE, meta |-> <<>>]>>
    ELSE IF Contributors(i) = <<>> THEN <<"none">>
    ELSE IF Donors(i) = <<>> THEN <<"raised">>
    ELSE LET donor == produced[Donors(i)[1]][1]
             merged == MergeMeta(Contributors(i))
         IN  IF Len(Contributors(i)) = 1 THEN <<"ok", donor>>
             ELSE IF ~merged.ok THEN <<"raised">>
             ELSE <<"ok", [donor EXCEPT !.meta = merged.meta]>>

\* Condition.matches: the only frame-level field filed is the frame rate.
Admits(i) == spec[i].when = <<>> \/ spec[i].when = <<file.fps>>

-----------------------------------------------------------------------------
Init ==
    /\ \E k \in DOMAIN Families : file \in Families[k]
    /\ topo = <<>> /\ pos = 0
    /\ produced = <<>> /\ got = <<>>
    /\ outcome = "loading" /\ events = <<>>

\* The chain file is loaded: refused by name, or wired.
LoadChain ==
    /\ outcome = "loading"
    /\ topo' = Load(spec)
    /\ outcome' = IF topo'.verdict = "ok" THEN "walking" ELSE "refused"
    /\ produced' = [i \in Slots |-> <<>>]
    /\ got' = [i \in Slots |-> <<>>]
    /\ UNCHANGED <<file, pos, events>>

Here == topo.order[pos + 1]
AtNode == outcome = "walking" /\ pos < Len(topo.order)

\* A branch that was dropped upstream does not reach this slot.
PassOver ==
    /\ AtNode /\ Inbound(Here) = <<"none">>
    /\ pos' = pos + 1
    /\ UNCHANGED <<file, topo, produced, got, outcome, events>>

\* The fan-in cannot be merged: the frame is failed and the walk ends.
FanInFails ==
    /\ AtNode /\ Inbound(Here) = <<"raised">>
    /\ outcome' = "failed"
    /\ UNCHANGED <<file, topo, pos, produced, got, events>>

\* `when:` does not admit the frame: it goes on unchanged to the successors.
SkipGuarded ==
    /\ AtNode /\ Inbound(Here)[1] = "ok" /\ ~Admits(Here)
    /\ produced' = [produced EXCEPT ![Here] = <<Inbound(Here)[2]>>]
    /\ pos' = pos + 1
    /\ UNCHANGED <<file, topo, got, outcome, events>>

\* The deadline passed before the walk, or in front of an element that runs a
\* model.
Expire ==
    /\ AtNode
    /\ \/ pos = 0
       \/ Inbound(Here)[1] = "ok" /\ Admits(Here) /\ Element(Impl(Here)).named
    /\ outcome' = "failed"
    /\ UNCHANGED <<file, topo, pos, produced, got, events>>

\* The model refuses, fails or times out: the element raises.
ModelFails ==
    /\ AtNode /\ Inbound(Here)[1] = "ok" /\ Admits(Here) /\ Element(Impl(Here)).named
    /\ got' = [got EXCEPT ![Here] = <<Inbound(Here)[2].caps>>]
    /\ outcome' = "failed"
    /\ UNCHANGED <<file, topo, pos, produced, events>>

\* What process() may give: the tracker and the barrier answer or do not, a
\* probe may drop.
Results(i, item) ==
    CASE Impl(i) = "detect" -> {ProcessDetect(i, item)}
      [] Impl(i) \in {"embed", "segment"} -> {ProcessCrop(i, item)}
      [] Impl(i) = "track" -> {ProcessTrack(i, item, b) : b \in BOOLEAN}
      [] Impl(i) = "mtmc" -> {ProcessMtmc(i, item, b) : b \in BOOLEAN}
      [] Impl(i) = "probe" -> {<<"ok", [item EXCEPT !.caps = BGR]>>, <<"dropped">>}
      [] OTHER -> {<<"ok", item>>}

ProcessElement ==
    /\ AtNode /\ Inbound(Here)[1] = "ok" /\ Admits(Here) /\ Impl(Here) # "output"
    /\ got' = [got EXCEPT ![Here] = <<Inbound(Here)[2].caps>>]
    /\ \E result \in Results(Here, Inbound(Here)[2]) :
          /\ outcome' = IF result = <<"raised">> THEN "failed" ELSE outcome
          /\ pos' = IF result = <<"raised">> THEN pos ELSE pos + 1
          /\ produced' = IF result[1] = "ok"
                         THEN [produced EXCEPT ![Here] = <<result[2]>>] ELSE produced
    /\ UNCHANGED <<file, topo, events>>

\* SinkOutput publishes the event and hands nothing on.
Publish ==
    /\ AtNode /\ Inbound(Here)[1] = "ok" /\ Admits(Here) /\ Impl(Here) = "output"
    /\ LET item == Inbound(Here)[2]
       IN  /\ got' = [got EXCEPT ![Here] = <<item.caps>>]
           /\ outcome' = IF Unpublishable(item) THEN "failed" ELSE outcome
           /\ events' = IF Unpublishable(item) THEN events ELSE Append(events, EventOf(Here, item))
           /\ pos' = IF Unpublishable(item) THEN pos ELSE pos + 1
    /\ UNCHANGED <<file, topo, produced>>

Finish ==
    /\ outcome = "walking" /\ pos = Len(topo.order)
    /\ outcome' = "walked"
    /\ UNCHANGED <<file, topo, pos, produced, got, events>>

Next == \/ LoadChain \/ PassOver \/ FanInFails \/ SkipGuarded \/ Expire
        \/ ModelFails \/ ProcessElement \/ Publish \/ Finish

Spec == Init /\ [][Next]_vars

-----------------------------------------------------------------------------
\* The loader's order puts every producer before its consumers, a chain is
\* refused as a cycle exactly when it has one, and the slots the refusal names
\* are one.
OrderIsTopological ==
    LET inputs == Inputs(spec)
        known  == \A i \in Slots : ToSet(inputs[i]) \subseteq Slots
        cyclic == known /\ \E i \in Slots : i \in Reaching(ToSet(inputs[i]), inputs)
        named  == FindCycle(inputs)
    IN  (outcome # "loading" /\ ModelsAreNamed(spec)) =>
            /\ topo.verdict = "ok" =>
                  /\ ToSet(topo.order) = Slots /\ Len(topo.order) = Len(spec)
                  /\ \A a, b \in DOMAIN topo.order :
                        topo.order[a] \in ToSet(inputs[topo.order[b]]) => a < b
            /\ known => (topo.verdict = "cycle" <=> cyclic)
            /\ (known /\ cyclic) =>
                  /\ named # <<>>
                  /\ \A k \in DOMAIN named :
                        named[k] \in ToSet(inputs[named[(k % Len(named)) + 1]])

\* Whatever a guard skips or a probe drops on the way, an element is only ever
\* given an item under a cap it accepts: the loader negotiated every hand-over
\* that can happen.
NeverMistyped ==
    \A i \in DOMAIN got : got[i] # <<>> =>
        \/ Element(Impl(i)).accepts = <<>>
        \/ \E k \in DOMAIN Element(Impl(i)).accepts : Matches(got[i][1], Element(Impl(i)).accepts[k])

Detectors == {i \in Slots : Impl(i) = "detect"}

\* A published record holds the vector, the mask, the track and the global id
\* of its own box: no scatter-back, fan-in or chunked submission moves one to
\* another row.
RowsKeepTheirOwn ==
    Cardinality(Detectors) = 1 =>
        \A e \in DOMAIN events : \A r \in DOMAIN events[e].objects :
            LET record == events[e].objects[r]
            IN  \A field \in {"embedding", "mask", "track", "global"} :
                    record[field] # <<>> => record[field][1].of = record.box

\* The slots whose items reach slot i on this frame.
RECURSIVE Upstream(_)
Upstream(i) == LET from == ToSet(Contributors(i))
               IN  from \cup UNION {Upstream(p) : p \in from}

Fills == "embed" :> "embedding" @@ "segment" :> "mask" @@ "track" :> "track"

Fillers(e, kinds) == {s \in Upstream(events[e].sink) : Impl(s) \in kinds /\ got[s] # <<>>}

Filled(e, s) ==
    LET objects == events[e].objects
    IN  \A r \in DOMAIN objects :
            (spec[s].classes = <<>> \/ objects[r].box.class \in spec[s].classes[1])
                => objects[r][Fills[Impl(s)]] # <<>>

\* A row some embedder or segmenter covered on the way to the sink is published
\* with that field, and if more than one branch filed rows, all of them arrive.
NoRowLost ==
    Cardinality(Detectors) = 1 =>
        \A e \in DOMAIN events : \A s \in Fillers(e, {"embed", "segment"}) : Filled(e, s)

\* A chain of a single detector never fails a frame at a fan-in or a scatter
\* because two slots claim one row: the loader refused every chain that could.
NoRowContested ==
    (AtNode /\ Cardinality(Detectors) = 1) =>
        LET in == Inbound(Here)
        IN  /\ MergeMeta(Contributors(Here)).ok
            /\ (in[1] = "ok" /\ Impl(Here) \in {"embed", "segment"} /\ Has(in[2], "detections"))
                  => DOMAIN (IF Has(in[2], Element(Impl(Here)).key)
                             THEN in[2].meta[Element(Impl(Here)).key] ELSE <<>>)
                     \cap ToSet(Selected(Here, in[2].meta.detections)) = {}
=============================================================================
