------------------------------ MODULE ChainLoad ------------------------------
(***************************************************************************)
(* What a chain file becomes (topology/chain.py, topology/caps.py): the    *)
(* loader resolves predecessors, orders the slots, refuses what could not  *)
(* run, negotiates a cap for every hand-over and names the donor of every  *)
(* fan-in.  The loader is one sequential function, so it is an operator:   *)
(* Load(spec) is what Topology.from_spec returns or raises.                *)
(*                                                                         *)
(* A spec is a sequence of slots in file order; a slot is known by its     *)
(* place.  Optional values are sequences of length 0 or 1, as Python's     *)
(* None is a value of its own.                                             *)
(***************************************************************************)
EXTENDS Naturals, Sequences, FiniteSets, SequencesExt

ANY == "*"
Caps(format, location) == [format |-> format, location |-> location]
BGR  == Caps("bgr", "cpu")
NV12 == Caps("nv12", "gpu")
META == Caps("meta", "cpu")
Open == Caps(ANY, ANY)

IsWildcard(cap) == cap.format = ANY \/ cap.location = ANY

HalfMatches(left, right) == left = right \/ ANY \in {left, right}

Matches(cap, other) == /\ HalfMatches(cap.format, other.format)
                       /\ HalfMatches(cap.location, other.location)

Resolve(cap, other) ==
    Caps(IF cap.format = ANY THEN other.format ELSE cap.format,
         IF cap.location = ANY THEN other.location ELSE cap.location)

\* caps.negotiate: the producer's order first, then the consumer's.
Negotiate(produced, accepted) ==
    LET fits == {p \in (DOMAIN produced) \X (DOMAIN accepted) :
                    Matches(produced[p[1]], accepted[p[2]])}
        first == CHOOSE p \in fits : \A q \in fits : p[1] < q[1] \/ (p[1] = q[1] /\ p[2] <= q[2])
    IN  IF fits = {} THEN <<>> ELSE <<Resolve(produced[first[1]], accepted[first[2]])>>

-----------------------------------------------------------------------------
\* The element classes: what each declares to the loader.
Declares(kind, accepts, produces) ==
    [kind |-> kind, accepts |-> accepts, produces |-> produces,
     selects |-> FALSE, key |-> "", raw |-> FALSE, reads |-> {}, named |-> FALSE]

IngestDecode == Declares("decode", <<>>, <<BGR>>)
PoolElement  == [Declares("detect", <<NV12, Caps("tensor", "gpu"), BGR>>, <<Open>>)
                    EXCEPT !.named = TRUE]
PoolDetect   == [PoolElement EXCEPT !.key = "detections"]
PoolCrop     == [PoolElement EXCEPT !.selects = TRUE]
PoolEmbed    == [PoolCrop EXCEPT !.kind = "embed", !.key = "vectors"]
PoolSegment  == [PoolCrop EXCEPT !.kind = "segment", !.key = "masks"]
PoolRecognize == [PoolElement EXCEPT !.kind = "recognize", !.key = "identities", !.raw = TRUE]
Track        == [Declares("track", <<META, BGR, NV12>>, <<META>>) EXCEPT !.selects = TRUE]
Mtmc         == Declares("mtmc", <<META>>, <<META>>)
SinkOutput   == [Declares("output", <<META, BGR>>, <<>>)
                    EXCEPT !.reads = {"vectors", "identities", "masks"}]
\* Two elements the tests register: a device decoder, and a probe that may drop
\* an item.
DeviceDecode == Declares("decode", <<>>, <<NV12>>)
Probe        == Declares("detect", <<BGR, NV12>>, <<BGR>>)

Element(impl) ==
    CASE impl = "decode"    -> IngestDecode
      [] impl = "nvdec"     -> DeviceDecode
      [] impl = "detect"    -> PoolDetect
      [] impl = "embed"     -> PoolEmbed
      [] impl = "segment"   -> PoolSegment
      [] impl = "recognize" -> PoolRecognize
      [] impl = "track"     -> Track
      [] impl = "mtmc"      -> Mtmc
      [] impl = "output"    -> SinkOutput
      [] impl = "probe"     -> Probe

-----------------------------------------------------------------------------
(* Predecessors and order.                                                 *)

Distinct(s) == FoldLeft(LAMBDA acc, x : IF x \in ToSet(acc) THEN acc ELSE Append(acc, x), <<>>, s)

\* An absent `after:` means the slot above; an empty one means a root.
Predecessors(spec, i) ==
    IF spec[i].after # <<>> THEN spec[i].after[1] ELSE IF i = 1 THEN <<>> ELSE <<i - 1>>

Inputs(spec) == [i \in DOMAIN spec |-> Distinct(Predecessors(spec, i))]

(* The first slot naming itself or nobody decides which refusal is raised. *)
Misnamed(spec) ==
    LET bad(i) == SelectSeq(Predecessors(spec, i), LAMBDA t : t = i \/ t \notin DOMAIN spec)
        slots  == {i \in DOMAIN spec : bad(i) # <<>>}
        first  == CHOOSE i \in slots : \A j \in slots : i <= j
    IN  IF slots = {} THEN "" ELSE IF bad(first)[1] = first THEN "cycle" ELSE "unknown"

Consumers(inputs) ==
    [p \in DOMAIN inputs |->
        SelectSeq([i \in DOMAIN inputs |-> i], LAMBDA c : p \in ToSet(inputs[c]))]

RECURSIVE Kahn(_, _)
Kahn(st, consumers) ==
    IF st.ready = <<>> THEN st.order
    ELSE LET slot == Head(st.ready)
             pending == [c \in DOMAIN st.pending |->
                            st.pending[c] - (IF c \in ToSet(consumers[slot]) THEN 1 ELSE 0)]
             freed == SelectSeq(consumers[slot], LAMBDA c : pending[c] = 0)
         IN  Kahn([ready |-> Tail(st.ready) \o freed, order |-> Append(st.order, slot),
                   pending |-> pending], consumers)

\* Kahn's algorithm, breadth first in file order.
TopologicalOrder(inputs) ==
    Kahn([ready |-> SelectSeq([i \in DOMAIN inputs |-> i], LAMBDA i : inputs[i] = <<>>),
          order |-> <<>>,
          pending |-> [i \in DOMAIN inputs |-> Len(inputs[i])]],
         Consumers(inputs))

RECURSIVE WalkCycle(_, _, _)
WalkCycle(slot, st, consumers) ==
    LET entered == [st EXCEPT !.path = Append(@, slot)]
        step(acc, c) ==
            IF acc.found # <<>> THEN acc
            ELSE IF c \in ToSet(acc.path)
                 THEN LET at == CHOOSE k \in DOMAIN acc.path : acc.path[k] = c
                      IN  [acc EXCEPT !.found = SubSeq(acc.path, at, Len(acc.path))]
                 ELSE IF c \in acc.done THEN acc ELSE WalkCycle(c, acc, consumers)
        out == FoldLeft(step, entered, consumers[slot])
    IN  IF out.found # <<>> THEN out
        ELSE [out EXCEPT !.path = Front(@), !.done = @ \cup {slot}]

\* The slots the refusal names: a depth-first walk stopped at the first grey
\* slot.
FindCycle(inputs) ==
    FoldLeft(LAMBDA st, slot : IF st.found # <<>> \/ slot \in st.done THEN st
                               ELSE WalkCycle(slot, st, Consumers(inputs)),
             [path |-> <<>>, done |-> {}, found |-> <<>>],
             [i \in DOMAIN inputs |-> i]).found

-----------------------------------------------------------------------------
(* What the loader refuses.  Each check says whether the chain passes it.  *)

ModelsAreNamed(spec) == \A i \in DOMAIN spec : Element(spec[i].impl).named => spec[i].model

RootIsSound(slot) ==
    LET element == Element(slot.impl)
    IN  /\ element.kind = "decode"
        /\ \A k \in DOMAIN element.accepts : IsWildcard(element.accepts[k])
        /\ \A k \in DOMAIN element.produces : ~IsWildcard(element.produces[k])
        /\ slot.when = <<>>

RECURSIVE Reaching(_, _)
Reaching(slots, inputs) ==
    LET more == slots \cup UNION {ToSet(inputs[s]) : s \in slots}
    IN  IF more = slots THEN slots ELSE Reaching(more, inputs)

OutputsOf(spec) == {i \in DOMAIN spec : Element(spec[i].impl).kind = "output"}

StructureHolds(spec, inputs) ==
    /\ \A i \in DOMAIN spec : inputs[i] = <<>> => RootIsSound(spec[i])
    /\ OutputsOf(spec) # {}
    /\ \A o \in OutputsOf(spec) : Consumers(inputs)[o] = <<>>
    /\ Reaching(OutputsOf(spec), inputs) = DOMAIN spec

\* A row selector is not guarded by a frame-level class, and asks for labels
\* somebody emits.
RowSelectionHolds(spec) ==
    LET emitters == {i \in DOMAIN spec : spec[i].labels # <<>>}
        known == UNION {spec[i].labels[1] : i \in emitters}
    IN  /\ \A i \in DOMAIN spec :
              Element(spec[i].impl).selects => spec[i].when # <<"class">>
        /\ emitters # {} => \A i \in DOMAIN spec :
              spec[i].classes # <<>> => spec[i].classes[1] \subseteq known

\* A key read per row is not filed as a model's raw response.
RowIndexedMetaHolds(spec) ==
    LET wanted == UNION {Element(spec[i].impl).reads : i \in DOMAIN spec}
    IN  \A i \in DOMAIN spec :
            ~(Element(spec[i].impl).raw /\ Element(spec[i].impl).key \in wanted)

RowFieldKinds == {"embed", "segment", "track", "mtmc"}

Overlap(left, right) ==
    /\ left # <<{}>> /\ right # <<{}>>
    /\ left = <<>> \/ right = <<>> \/ left[1] \cap right[1] # {}

\* Two slots may not fill one event field for one detection.
OneFillerPerRow(spec) ==
    \A i, j \in DOMAIN spec :
        LET a == Element(spec[i].impl)  b == Element(spec[j].impl)
        IN  (i < j /\ a.kind = b.kind /\ a.kind \in RowFieldKinds /\ a.selects /\ b.selects)
                => ~Overlap(spec[i].classes, spec[j].classes)

CrossCameraSlots(spec) == {i \in DOMAIN spec : Element(spec[i].impl).kind = "mtmc"}

EveryGroupRostered(spec) ==
    Cardinality(CrossCameraSlots(spec)) >= 2
        => \A i \in CrossCameraSlots(spec) : spec[i].roster # <<>>

NoCameraClaimedTwice(spec) ==
    \A i, j \in CrossCameraSlots(spec) :
        \A a \in DOMAIN spec[i].roster, b \in DOMAIN spec[j].roster :
            spec[i].roster[a] = spec[j].roster[b] => i = j /\ a = b

-----------------------------------------------------------------------------
(* Cap negotiation.  An arrival is a cap some producer may hand to a slot. *)

Halves(arrivals, half) == {arrivals[k][half] : k \in DOMAIN arrivals} \ {ANY}

Agreed(arrivals, half) ==
    IF Halves(arrivals, half) = {} THEN ANY
    ELSE CHOOSE v \in Halves(arrivals, half) : TRUE

\* A wildcard half of what a slot produces is the half of what arrives.
Disagrees(element, arrivals) ==
    \E k \in DOMAIN element.produces, half \in {"format", "location"} :
        element.produces[k][half] = ANY /\ Cardinality(Halves(arrivals, half)) > 1

ResolveProduced(element, arrivals) ==
    Distinct([k \in DOMAIN element.produces |->
        LET cap == element.produces[k]
        IN  Caps(IF cap.format # ANY THEN cap.format ELSE Agreed(arrivals, "format"),
                 IF cap.location # ANY THEN cap.location ELSE Agreed(arrivals, "location"))])

\* One hand-over: the edge, and the bypass of a guarded producer straight to
\* its consumer.
Handover(st, spec, producer, produced, consumer) ==
    LET accepted == Element(spec[consumer].impl).accepts
        caps     == Negotiate(produced, accepted)
        passed   == IF spec[producer].when = <<>> THEN <<>> ELSE st.arrivals[producer]
    IN  IF \/ st.refused \/ caps = <<>>
           \/ \E k \in DOMAIN passed : Negotiate(<<passed[k]>>, accepted) = <<>>
        THEN [st EXCEPT !.refused = TRUE]
        ELSE [st EXCEPT !.edges = Append(@, [from |-> producer, to |-> consumer,
                                             caps |-> caps[1]]),
                        !.arrivals[consumer] = @ \o caps \o passed]

NegotiateEdges(spec, order, outputs) ==
    FoldLeft(LAMBDA st, slot :
                IF st.refused \/ Disagrees(Element(spec[slot].impl), st.arrivals[slot])
                THEN [st EXCEPT !.refused = TRUE]
                ELSE LET produced == ResolveProduced(Element(spec[slot].impl), st.arrivals[slot])
                     IN  FoldLeft(LAMBDA s, c : Handover(s, spec, slot, produced, c),
                                  st, outputs[slot]),
             [edges |-> <<>>, arrivals |-> [i \in DOMAIN spec |-> <<>>], refused |-> FALSE],
             order)

EdgeCaps(edges, from, to) ==
    LET e == SelectSeq(edges, LAMBDA x : x.from = from /\ x.to = to) IN e[1].caps

\* The first predecessor, in the consumer's preference order, whose edge
\* carries that cap.
DonorFor(spec, inputs, edges, i) ==
    LET accepted == Element(spec[i].impl).accepts
        fits == {p \in (DOMAIN accepted) \X (DOMAIN inputs[i]) :
                    Matches(EdgeCaps(edges, inputs[i][p[2]], i), accepted[p[1]])}
        first == CHOOSE p \in fits : \A q \in fits : p[1] < q[1] \/ (p[1] = q[1] /\ p[2] <= q[2])
    IN  IF inputs[i] = <<>> THEN 0 ELSE IF fits = {} THEN inputs[i][1] ELSE inputs[i][first[2]]

-----------------------------------------------------------------------------
\* Topology.from_spec: the checks in the code's order, and the wired chain.
Verdict(spec) ==
    LET inputs == Inputs(spec)
    IN  IF spec = <<>> THEN "empty"
        ELSE IF ~ModelsAreNamed(spec) THEN "model"
        ELSE IF Misnamed(spec) # "" THEN Misnamed(spec)
        ELSE IF Len(TopologicalOrder(inputs)) # Len(spec) THEN "cycle"
        ELSE IF ~StructureHolds(spec, inputs) THEN "structure"
        ELSE IF ~RowSelectionHolds(spec) THEN "rows"
        ELSE IF ~RowIndexedMetaHolds(spec) THEN "raw"
        ELSE IF ~OneFillerPerRow(spec) THEN "fillers"
        ELSE IF ~EveryGroupRostered(spec) THEN "roster"
        ELSE IF ~NoCameraClaimedTwice(spec) THEN "claimed"
        ELSE IF NegotiateEdges(spec, TopologicalOrder(inputs), Consumers(inputs)).refused
             THEN "caps"
        ELSE "ok"

Load(spec) ==
    LET inputs == Inputs(spec)
        order  == TopologicalOrder(inputs)
        edges  == NegotiateEdges(spec, order, Consumers(inputs)).edges
        v      == Verdict(spec)
    IN  IF v # "ok"
        THEN [verdict |-> v, inputs |-> <<>>, order |-> <<>>, edges |-> <<>>, donor |-> <<>>]
        ELSE [verdict |-> v, inputs |-> inputs, order |-> order, edges |-> edges,
              donor |-> [i \in DOMAIN spec |-> DonorFor(spec, inputs, edges, i)]]
=============================================================================
