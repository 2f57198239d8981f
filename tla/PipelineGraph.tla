---------------------------- MODULE PipelineGraph ----------------------------
(***************************************************************************)
(* The stages of one frame (pipeline/graph): which stages are announced    *)
(* and run, what each attaches to the frame's state, what is freed behind  *)
(* the last reader, and the copy of the state that the reassembly sweeper  *)
(* may take from under the worker at any moment.                           *)
(*                                                                         *)
(* A detection is the detector's raw row, numbered.  A batch holds the     *)
(* detection indices of its rows and, per row, the detection it was made   *)
(* from, so that a result on the wrong object can be told.                 *)
(***************************************************************************)
EXTENDS Naturals, Sequences, FiniteSets, SequencesExt, TLC

CONSTANTS Graphs,         \* [stages |-> ..., fields |-> what the event reads]
          Frames,         \* what the detector answers: sequences of [class, score]
          Threshold,      \* DecodeParams.score_threshold
          MaxDetections,  \* DecodeParams.max_detections
          RowLimit        \* max_batch_size of the object models

VARIABLES graph,      \* the PipelineGraph
          frame,      \* the detector's raw rows
          verdict,    \* "new", then "ok" or "refused"
          idx,        \* the stage execute() is at
          todo,       \* what the running stage has yet to attach; <<>> around a stage
          running,    \* whether that stage is inside _do_run
          state,      \* FrameState: image, ready, detections, batches
          expected,   \* stages announced to the observer
          outcome,    \* stage name -> "ran", "failed" or "skipped"
          seen,       \* detections whose appearance vector the tracker was given
          snapshot    \* the sweeper's EmissionInputs
vars == <<graph, frame, verdict, idx, todo, running, state, expected, outcome, seen, snapshot>>

IMAGE == "image"
DETECTIONS == "detections"

FieldMap == [embedding    |-> <<"ship_embedding", "person_embedding">>,
             mask_area_px |-> <<"ship_mask_area">>,
             track_id     |-> <<"track_id">>,
             track_state  |-> <<"track_state">>]

\* What the event reads is never freed.
Retain(g) == {DETECTIONS} \cup UNION {ToSet(FieldMap[f]) : f \in g.fields}

-----------------------------------------------------------------------------
\* The stages: their names, what they gate on, and what they attach.
Stage(name, kind, consumes, requires, optional, produces) ==
    [name |-> name, kind |-> kind, consumes |-> consumes, requires |-> requires,
     optional |-> optional, produces |-> produces]

DetectStage == Stage("detect", "detect", {IMAGE}, {IMAGE}, {}, <<DETECTIONS>>)
CropStage   == Stage("crop", "crop", {DETECTIONS, IMAGE}, {DETECTIONS}, {},
                     <<"ship_mask_crops", "ship_reid_crops", "person_crops">>)
ObjectStage(name, source, output) ==
    Stage(name, "object", {source}, {source}, {}, <<output>>)
TrackStage(needs_frame) ==
    Stage("track", "track", {DETECTIONS} \cup (IF needs_frame THEN {IMAGE} ELSE {}), {},
          {"ship_embedding", "person_embedding"}, <<"track_id", "track_state">>)

CropClass == [ship_mask_crops |-> "ship", ship_reid_crops |-> "ship", person_crops |-> "person"]
Reads(stage) == stage.consumes \cup stage.optional
PerFrame(stage) == stage.kind = "detect"
Expands(stage) == stage.kind \in {"crop", "track"}

BuildPerceptionGraph(tracking) ==
    <<DetectStage, CropStage,
      ObjectStage("ship_segmenter", "ship_mask_crops", "ship_mask_area"),
      ObjectStage("ship_embedder", "ship_reid_crops", "ship_embedding"),
      ObjectStage("person_embedder", "person_crops", "person_embedding")>> \o tracking

\* PipelineGraph.validate: every name read has an earlier producer of the same
\* cardinality.
Validate(g) ==
    LET stages == g.stages
        makers(i, n) == {k \in 1..(i - 1) : n \in ToSet(stages[k].produces)}
    IN  /\ \A i \in DOMAIN stages :
              /\ stages[i].requires \subseteq stages[i].consumes
              /\ stages[i].optional \cap stages[i].consumes = {}
              /\ \A n \in Reads(stages[i]) \ {IMAGE} :
                    /\ makers(i, n) # {}
                    /\ Expands(stages[i])
                       \/ LET last == CHOOSE k \in makers(i, n) : \A j \in makers(i, n) : j <= k
                          IN  PerFrame(stages[last]) = PerFrame(stages[i])
        /\ Retain(g) \subseteq UNION {ToSet(stages[k].produces) : k \in DOMAIN stages}

\* PipelineGraph._compute_liveness: the names whose last reader is stage i.
DeadAfter(g, i) ==
    {n \in Reads(g.stages[i]) \ Retain(g) :
        \A k \in DOMAIN g.stages : k > i => n \notin Reads(g.stages[k])}

-----------------------------------------------------------------------------
(* Decoding the detector's answer.                                         *)

Stronger(rows, a, b) == rows[a].score > rows[b].score \/ (rows[a].score = rows[b].score /\ a > b)

\* Rows above the threshold, strongest first, equal scores in reverse; at most
\* the limit.
DecodeDetections(rows) ==
    LET keep == {r \in DOMAIN rows : rows[r].score >= Threshold}
        rank(r) == Cardinality({q \in keep : Stronger(rows, q, r)})
        size == IF Cardinality(keep) > MaxDetections THEN MaxDetections ELSE Cardinality(keep)
    IN  [k \in 1..size |-> LET r == CHOOSE q \in keep : rank(q) = k - 1
                           IN  [row |-> r, class |-> rows[r].class]]

IndicesOf(detections, class) ==
    SelectSeq([i \in DOMAIN detections |-> i], LAMBDA i : detections[i].class = class)

-----------------------------------------------------------------------------
\* The frame's state.
Batch(indices, data) == [indices |-> indices, data |-> data]
IsEmpty(batch) == batch.indices = <<>>

Available(st) == DOMAIN st.batches \cup {n \in {IMAGE} : st.image}
                 \cup {n \in {DETECTIONS} : st.ready}
NonEmpty(st) == {n \in DOMAIN st.batches : ~IsEmpty(st.batches[n])}
                \cup {n \in {IMAGE} : st.image}
                \cup {n \in {DETECTIONS} : st.ready /\ st.detections # <<>>}

\* Announced: inputs present, and non-empty where the stage requires it.
Runnable(stages, st, done) ==
    {s \in ToSet(stages) : /\ s.name \notin done
                           /\ s.consumes \subseteq Available(st)
                           /\ s.requires \subseteq NonEmpty(st)}

Drop(batches, names) == [n \in DOMAIN batches \ names |-> batches[n]]

\* PipelineGraph._release behind stage i.
Release(g, st, i) ==
    [st EXCEPT !.image = @ /\ IMAGE \notin DeadAfter(g, i),
               !.batches = Drop(@, DeadAfter(g, i))]

\* More rows than the model takes go as several requests.
Chunks(data) ==
    [k \in 1..((Len(data) + RowLimit - 1) \div RowLimit) |->
        SubSeq(data, (k - 1) * RowLimit + 1,
               IF k * RowLimit > Len(data) THEN Len(data) ELSE k * RowLimit)]

\* ObjectStage: one result per row, filed under the detection indices of its
\* source.
ObjectResult(batch) == Batch(batch.indices, FlattenSeq(Chunks(batch.data)))

CropResult(st, name) ==
    LET indices == IndicesOf(st.detections, CropClass[name])
    IN  Batch(indices, [k \in DOMAIN indices |-> st.detections[indices[k]].row])

\* TrackStage._embeddings: the vectors of whatever embedding batches are
\* attached.
Embeddings(st, stage) ==
    UNION {ToSet(st.batches[n].indices) : n \in stage.optional \cap DOMAIN st.batches}

\* TrackStage._attribute: the tracks matched to rows, in row order.
TrackResult(st, rows) ==
    LET indices == SelectSeq([i \in DOMAIN st.detections |-> i], LAMBDA i : i \in rows)
    IN  Batch(indices, [k \in DOMAIN indices |-> st.detections[indices[k]].row])

-----------------------------------------------------------------------------
\* What an event is built from: a row per detection, a batch's rows scattered
\* onto them.
Covering(inputs, field, i) ==
    {n \in ToSet(FieldMap[field]) \cap DOMAIN inputs.batches :
        i \in ToSet(inputs.batches[n].indices)}

Scattered(batch, i) == batch.data[CHOOSE k \in DOMAIN batch.indices : batch.indices[k] = i]

BuildRecords(inputs, fields) ==
    [i \in DOMAIN inputs.detections |->
        [of |-> inputs.detections[i],
         values |-> [f \in {g \in fields : Covering(inputs, g, i) # {}} |->
                        Scattered(inputs.batches[CHOOSE n \in Covering(inputs, f, i) : TRUE], i)]]]

\* Two batches over one detection for one field: build_records raises.
Contested(inputs, fields) ==
    \E f \in fields, i \in DOMAIN inputs.detections : Cardinality(Covering(inputs, f, i)) > 1

-----------------------------------------------------------------------------
FrameState == [image |-> TRUE, ready |-> FALSE, detections |-> <<>>, batches |-> <<>>]

Init ==
    /\ graph \in Graphs /\ frame \in Frames
    /\ verdict = "new" /\ idx = 1 /\ todo = <<>> /\ running = FALSE
    /\ state = FrameState
    /\ expected = {} /\ outcome = <<>> /\ seen = {}
    /\ snapshot = [taken |-> "no", detections |-> <<>>, batches |-> <<>>]

Load ==
    /\ verdict = "new"
    /\ verdict' = IF Validate(graph) THEN "ok" ELSE "refused"
    /\ UNCHANGED <<graph, frame, idx, todo, running, state, expected, outcome, seen, snapshot>>

Executing == verdict = "ok" /\ idx <= Len(graph.stages)
Here == graph.stages[idx]

\* Whatever became of the stage, it is reported and what it read last is freed.
Leave(status, st) ==
    /\ outcome' = outcome @@ (Here.name :> status)
    /\ state' = Release(graph, st, idx)
    /\ idx' = idx + 1 /\ todo' = <<>> /\ running' = FALSE

\* The observer is told what can run now; the stage itself runs if it is among
\* them.
PlanAndEnter ==
    /\ Executing /\ ~running
    /\ LET ready == Runnable(graph.stages, state, DOMAIN outcome)
       IN  /\ expected' = expected \cup {s.name : s \in ready}
           /\ IF Here \in ready
              THEN /\ running' = TRUE /\ todo' = Here.produces
                   /\ seen' = IF Here.kind = "track" THEN Embeddings(state, Here) ELSE seen
                   /\ UNCHANGED <<state, outcome, idx>>
              ELSE Leave("skipped", state) /\ UNCHANGED seen
    /\ UNCHANGED <<graph, frame, verdict, snapshot>>

\* One attach() of the running stage.
Attach ==
    /\ Executing /\ running /\ todo # <<>>
    /\ LET name == Head(todo)
           put(batch) == [state EXCEPT !.batches = (name :> batch) @@ @]
       IN  \/ /\ Here.kind = "detect"
              /\ state' = [state EXCEPT !.detections = DecodeDetections(frame), !.ready = TRUE]
           \/ Here.kind = "crop" /\ state' = put(CropResult(state, name))
           \/ /\ Here.kind = "object"
              /\ \E source \in Here.consumes : state' = put(ObjectResult(state.batches[source]))
           \/ /\ Here.kind = "track" /\ name = "track_id"
              /\ \E rows \in SUBSET DOMAIN state.detections : state' = put(TrackResult(state, rows))
           \/ /\ Here.kind = "track" /\ name = "track_state"
              /\ state' = put(state.batches["track_id"])
    /\ todo' = Tail(todo)
    /\ UNCHANGED <<graph, frame, verdict, idx, running, expected, outcome, seen, snapshot>>

StageRan ==
    /\ Executing /\ running /\ todo = <<>>
    /\ Leave("ran", state)
    /\ UNCHANGED <<graph, frame, verdict, expected, seen, snapshot>>

\* The model refuses, answers late or with a wrong number of rows, or a kernel
\* raises. Only the crop stage can have attached something by then.
StageFailed ==
    /\ Executing /\ running
    /\ todo = Here.produces \/ (Here.kind = "crop" /\ todo # <<>>)
    /\ Leave("failed", state)
    /\ UNCHANGED <<graph, frame, verdict, expected, seen, snapshot>>

\* The sweeper or the worker captures the frame: two reads, the worker may run
\* between.
CaptureDetections ==
    /\ verdict = "ok" /\ snapshot.taken = "no"
    /\ snapshot' = [snapshot EXCEPT !.taken = "half", !.detections = state.detections]
    /\ UNCHANGED <<graph, frame, verdict, idx, todo, running, state, expected, outcome, seen>>

CaptureBatches ==
    /\ snapshot.taken = "half"
    /\ snapshot' = [snapshot EXCEPT !.taken = "yes", !.batches = state.batches]
    /\ UNCHANGED <<graph, frame, verdict, idx, todo, running, state, expected, outcome, seen>>

Next == Load \/ PlanAndEnter \/ Attach \/ StageRan \/ StageFailed
        \/ CaptureDetections \/ CaptureBatches

Spec == Init /\ [][Next]_vars

-----------------------------------------------------------------------------
\* Whenever the sweeper captures the frame, building its records raises
\* nothing, and every value in a record was made from that record's own
\* detection.
RecordsAreTheirOwn ==
    snapshot.taken = "yes" =>
        LET records == BuildRecords(snapshot, graph.fields)
        IN  /\ ~Contested(snapshot, graph.fields)
            /\ \A i \in DOMAIN records : \A f \in DOMAIN records[i].values :
                  records[i].values[f] = records[i].of.row

\* A stage that was announced runs or fails: reassembly never waits for one
\* that is then skipped.
AnnouncedStagesRun ==
    \A s \in expected \cap DOMAIN outcome : outcome[s] # "skipped"

\* Nothing is freed while a later stage may read it and nothing is kept after:
\* the tracker is given the vector of every detection an embedder covered, and
\* when the last stage is past, the pixels and every batch that only stages
\* read are gone.
FreedBehindTheLastReader ==
    verdict = "ok" =>
        /\ ("track" \in DOMAIN outcome /\ outcome["track"] = "ran") =>
              \A e \in {"ship_embedder", "person_embedder"} :
                 (e \in DOMAIN outcome /\ outcome[e] = "ran") =>
                     LET class == IF e = "ship_embedder" THEN "ship" ELSE "person"
                     IN  ToSet(IndicesOf(state.detections, class)) \subseteq seen
        /\ idx > Len(graph.stages) =>
              /\ ~state.image
              /\ \A n \in DOMAIN state.batches : n \in Retain(graph)
                    \/ \A k \in DOMAIN graph.stages : n \notin Reads(graph.stages[k])

\* In a graph that was validated, no stage is skipped for want of a name some
\* other stage was to produce: with every earlier stage run, only an empty
\* input skips one.
ValidatedStagesAreFed ==
    \A k \in DOMAIN graph.stages :
        (/\ graph.stages[k].name \in DOMAIN outcome /\ outcome[graph.stages[k].name] = "skipped"
         /\ \A j \in 1..(k - 1) : outcome[graph.stages[j].name] = "ran")
            => \E n \in graph.stages[k].requires :
                  \/ n = DETECTIONS /\ state.detections = <<>>
                  \/ n \in DOMAIN CropClass /\ IndicesOf(state.detections, CropClass[n]) = <<>>
=============================================================================
