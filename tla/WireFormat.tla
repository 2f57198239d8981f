------------------------------ MODULE WireFormat ------------------------------
(***************************************************************************)
(* What crosses the rings of the spill tier (engine/spill/wire.py) and how *)
(* large a slot is made for it (wire_slot_bytes, engine/spill/mesh.py).    *)
(* One request slot and one response slot are used over and over, so a     *)
(* message is written over the remains of longer and shorter ones.         *)
(*                                                                         *)
(* A slot is a sequence of cells: one for the fixed head, one for each     *)
(* tensor head, one for each element; byte offsets within them are left    *)
(* out.  A tensor is [shape, data]; a text is its length, which is what    *)
(* _fixed tests, for the fields of names and the identity of a camera.     *)
(***************************************************************************)
EXTENDS Integers, FiniteSetsExt, SequencesExt

CONSTANTS
    Messages,      \* requests: [id, version, camera, inputs]
    Replies,       \* what the owner makes of one: [error, outputs]
    MaxDims,       \* _MAX_DIMS
    MaxName,       \* _MAX_NAME
    MaxBatch,      \* the model's max_batch_size
    RowCells,      \* <<cells of a row of inputs, of outputs>>, -1 when dynamic
    HeadRoom, Fallback,
    Exchanges      \* bound: how many messages one behaviour sends

VARIABLES
    phase,         \* "send", "arrived", "reply" or "answered"
    sent,          \* the message under way
    reply,         \* the owner's reply to it
    inbound, outbound,   \* the two slots
    seen,          \* what the reader of the slot made of it
    left           \* exchanges left

vars == <<phase, sent, reply, inbound, outbound, seen, left>>

None == [kind |-> "none"]

\* wire_slot_bytes: one full batch and room for the heads.
SlotCells(side) ==
    IF RowCells[side] < 0 THEN Fallback ELSE MaxBatch * RowCells[side] + HeadRoom

Blank(side) == [k \in 1 .. SlotCells(side) |-> None]

Init ==
    /\ phase = "send"
    /\ sent = None /\ reply = None /\ seen = None
    /\ inbound = Blank(1)
    /\ outbound = Blank(2)
    /\ left = Exchanges

-----------------------------------------------------------------------------
\* _tensor_heads: by name; every process sorts alike.  Names are numbers here,
\* a name's length is the number.
Ordered(tensors) == SetToSortSeq(DOMAIN tensors, LAMBDA a, b : a < b)

Elements(tensors) ==
    FlattenSeq([k \in DOMAIN Ordered(tensors) |-> tensors[Ordered(tensors)[k]].data])

Needed(tensors) == 1 + Cardinality(DOMAIN tensors) + Len(Elements(tensors))

TensorHead(tensors, name) ==
    [kind |-> "tensor", name |-> name, shape |-> tensors[name].shape,
     count |-> Len(tensors[name].data)]

(* Fault: each tensor's elements follow its own head.                     *)
WriteTensors_Interleaved(tensors) ==
    FlattenSeq([k \in DOMAIN Ordered(tensors) |->
        LET n == Ordered(tensors)[k] IN
        <<TensorHead(tensors, n)>>
          \o [j \in DOMAIN tensors[n].data |-> [kind |-> "data", v |-> tensors[n].data[j]]]])

\* _write_tensors: all the heads, then all the elements.
WriteTensors(tensors) ==
    [k \in DOMAIN Ordered(tensors) |-> TensorHead(tensors, Ordered(tensors)[k])]
      \o [k \in DOMAIN Elements(tensors) |-> [kind |-> "data", v |-> Elements(tensors)[k]]]

\* The cells of a message over what the slot held.
Over(slot, cells) ==
    [k \in DOMAIN slot |-> IF k <= Len(cells) THEN cells[k] ELSE slot[k]]

Carries(tensors) ==
    \A n \in DOMAIN tensors : n < MaxName /\ Len(tensors[n].shape) <= MaxDims

\* encode_request: a version of None travels as -1.
RequestCells(m) ==
    <<[kind |-> "request", id |-> m.id, version |-> IF m.version = <<>> THEN -1 ELSE m.version[1],
       camera |-> m.camera, tensors |-> Cardinality(DOMAIN m.inputs)]>>
      \o WriteTensors(m.inputs)

Headed(tensors, slots) ==
    /\ \A n \in DOMAIN tensors : Len(tensors[n].shape) <= MaxDims
    /\ Needed(tensors) <= slots

Encodable(m) ==
    Carries(m.inputs) /\ Headed(m.inputs, SlotCells(1)) /\ m.camera < MaxName

\* What a refused request leaves in the slot: a name is only looked at when its
\* head is written, after the message's head and the heads before it.
Spoilt(m) ==
    IF Headed(m.inputs, SlotCells(1)) /\ m.camera < MaxName
    THEN SubSeq(RequestCells(m), 1, 1 + Cardinality({n \in DOMAIN m.inputs : n < MaxName}))
    ELSE <<>>

\* _read_tensors: as many heads as the message's head says, then their elements
\* one after the other; reshaped, so a count that is not the shape's is refused.
ReadTensors(slot, count) ==
    LET heads == SubSeq(slot, 2, 1 + count)
        Before(k) == FoldLeft(LAMBDA n, h : n + h.count, 0, SubSeq(heads, 1, k - 1))
        Data(k) == [j \in 1 .. heads[k].count |-> slot[1 + count + Before(k) + j].v]
    IN  [name \in {heads[k].name : k \in 1 .. count} |->
            LET k == CHOOSE k \in 1 .. count : heads[k].name = name
            IN  [shape |-> heads[k].shape, data |-> Data(k)]]

Readable(slot, count) ==
    /\ \A k \in 2 .. 1 + count : slot[k].kind = "tensor"
    /\ LET total == FoldLeft(LAMBDA n, h : n + h.count, 0, SubSeq(slot, 2, 1 + count))
       IN  /\ 1 + count + total <= Len(slot)
           /\ \A k \in 1 .. total : slot[1 + count + k].kind = "data"

\* decode_request
DecodeRequest(slot) ==
    LET head == slot[1] IN
    IF head.kind # "request" \/ ~Readable(slot, head.tensors) THEN [kind |-> "protocol"]
    ELSE [kind |-> "request", id |-> head.id,
          version |-> IF head.version < 0 THEN <<>> ELSE <<head.version>>,
          camera |-> head.camera, inputs |-> ReadTensors(slot, head.tensors)]

\* RemoteInstance.enqueue: encoded into the owner's slot, or the candidate
\* refuses and the slot goes back.
Send(m) ==
    /\ phase = "send" /\ left > 0
    /\ sent' = m
    /\ \/ /\ Encodable(m)
          /\ inbound' = Over(inbound, RequestCells(m))
          /\ phase' = "arrived"
          /\ seen' = None
          /\ UNCHANGED left
       \/ /\ ~Encodable(m)
          /\ seen' = [kind |-> "refused"]
          /\ inbound' = Over(inbound, Spoilt(m))
          /\ left' = left - 1
          /\ UNCHANGED phase
    /\ UNCHANGED <<reply, outbound>>

Receive ==
    /\ phase = "arrived"
    /\ seen' = DecodeRequest(inbound)
    /\ phase' = "reply"
    /\ UNCHANGED <<sent, reply, inbound, outbound, left>>

-----------------------------------------------------------------------------
\* _status_of: the two errors the submitter must be able to tell apart.
StatusOf(error) == IF error \in {"queue_full", "invalid"} THEN error ELSE "failed"

FailureCells(id, error) ==
    <<[kind |-> "response", id |-> id, tensors |-> 0, status |-> StatusOf(error)]>>

ResponseCells(id, outputs) ==
    <<[kind |-> "response", id |-> id, tensors |-> Cardinality(DOMAIN outputs),
       status |-> "ok"]>> \o WriteTensors(outputs)

Fits(outputs) == Carries(outputs) /\ Needed(outputs) <= SlotCells(2)

\* _drain_replies: the response; one that does not encode is a failure.
Answer(r) ==
    /\ phase = "reply"
    /\ reply' = r
    /\ outbound' = Over(outbound,
           CASE r.error # "" -> FailureCells(sent.id, r.error)
             [] r.error = "" /\ Fits(r.outputs) -> ResponseCells(sent.id, r.outputs)
             [] OTHER -> FailureCells(sent.id, "invalid"))
    /\ phase' = "answered"
    /\ UNCHANGED <<sent, inbound, seen, left>>

\* decode_response
DecodeResponse(slot) ==
    LET head == slot[1] IN
    CASE head.kind # "response" -> [kind |-> "protocol"]
      [] head.kind = "response" /\ head.status # "ok" ->
            [kind |-> "failure", id |-> head.id, status |-> head.status]
      [] OTHER -> IF Readable(slot, head.tensors)
                  THEN [kind |-> "response", id |-> head.id,
                        outputs |-> ReadTensors(slot, head.tensors)]
                  ELSE [kind |-> "protocol"]

ReadReply ==
    /\ phase = "answered"
    /\ seen' = DecodeResponse(outbound)
    /\ phase' = "send"
    /\ left' = left - 1
    /\ UNCHANGED <<sent, reply, inbound, outbound>>

Next ==
    \/ \E m \in Messages : Send(m)
    \/ Receive
    \/ \E r \in Replies : Answer(r)
    \/ ReadReply

Spec == Init /\ [][Next]_vars

-----------------------------------------------------------------------------
RowsOf(tensors) == Max({0} \cup {tensors[n].shape[1] :
                        n \in {k \in DOMAIN tensors : tensors[k].shape # <<>>}})

\* Whatever the slot held before, the reader gets the message that was written,
\* field for field and element for element, and a failure keeps the kind the
\* submitter acts on; a request within the model's batch that the fields can
\* carry is never refused for want of room.
ArrivesWhole ==
    /\ phase = "reply" => seen = [kind |-> "request", id |-> sent.id, version |-> sent.version,
                                  camera |-> sent.camera, inputs |-> sent.inputs]
    /\ seen.kind = "refused" =>
          \/ ~Carries(sent.inputs) \/ sent.camera >= MaxName
          \/ RowCells[1] < 0 \/ RowsOf(sent.inputs) > MaxBatch
    /\ seen.kind = "response" => /\ seen.id = sent.id /\ reply.error = ""
                                 /\ seen.outputs = reply.outputs
    /\ seen.kind = "failure" => /\ seen.id = sent.id
                                /\ reply.error # "" \/ ~Fits(reply.outputs)
                                /\ (reply.error = "queue_full") <=> (seen.status = "queue_full")
    /\ seen.kind # "protocol"
=============================================================================
