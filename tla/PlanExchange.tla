---------------------------- MODULE PlanExchange ----------------------------
(***************************************************************************)
(* The resolved chain as text, between the planes.  In Python              *)
(* (topology/plan.py) resolve_plan flattens a validated chain, plan_text   *)
(* writes it line by line, parse_plan reads it back.  In C++               *)
(* (csrc/shipinfer/pipeline/graph/plan.cpp, plan_stages.cpp): a reader and *)
(* a writer of its own, and plan_stages, which turns a read plan into the  *)
(* stages this plane runs.                                                 *)
(*                                                                         *)
(* One text at a time is read by both planes: either the text of a         *)
(* declared chain (`chain`), or lines typed by hand.  A text the C++ plane *)
(* has read is then built for every set of loaded models and lanes.        *)
(*                                                                         *)
(* A text value is the sequence of its words, split at single spaces: an   *)
(* empty word is an edge or a doubled space.  Three words stand for the    *)
(* characters the format would reinterpret.  An optional value is a        *)
(* sequence of length 0 or 1.  IntMax stands for 2^31 - 1.                 *)
(***************************************************************************)
EXTENDS Integers, Sequences, SequencesExt, FiniteSets, FiniteSetsExt, TLC

CONSTANTS IntMax, Keys, Ids, MaxLines

VARIABLES chain, stage, text, typed, py, cxx, built
vars == <<chain, stage, text, typed, py, cxx, built>>

Tabbed == "tab_bed"
Hashed == "be#hind"
Commaed == "com,ma"
Alphabet == <<"-", "a", "b", "cap", "quay">>
Order(set) == SelectSeq(Alphabet, LAMBDA key : key \in set)

\* What a reader's split makes of one word; `#` ends the line where it stands.
Pieces(word) == CASE word = ""     -> <<>>
                  [] word = Tabbed -> <<"tab", "bed">>
                  [] word = Hashed -> <<"be">>
                  [] OTHER         -> <<word>>
Split(words) ==
    LET stops == {i \in DOMAIN words : words[i] = Hashed}
        last  == IF stops = {} THEN Len(words)
                 ELSE CHOOSE i \in stops : \A j \in stops : i <= j
    IN  FlattenSeq([i \in 1..last |-> Pieces(words[i])])

\* `classes` alone is split at commas, and each part stripped.
Parts(words) ==
    LET spread == FlattenSeq([i \in DOMAIN words |->
                      IF words[i] = Commaed THEN <<"com", ",", "ma">> ELSE <<words[i]>>])
        stops  == {0, Len(spread) + 1} \cup {i \in DOMAIN spread : spread[i] = ","}
        After(i) == CHOOSE j \in stops : i < j /\ \A k \in stops : i < k => j <= k
        starts == SetToSortSeq(stops \ {Len(spread) + 1}, <)
    IN  [n \in DOMAIN starts |-> SubSeq(spread, starts[n] + 1, After(starts[n]) - 1)]

IsInt(word) == \E n \in -1..(IntMax + 1) : ToString(n) = word
IntOf(word) == CHOOSE n \in -1..(IntMax + 1) : ToString(n) = word
Fits(n) == n <= IntMax
Decimals == {"-0.5", "0.0", "0.5", "1.0", "2.5"}

-----------------------------------------------------------------------------
\* The format's vocabulary.
SettingBounds == << <<"workers", 1>>, <<"pipeline_queue", 1>>, <<"instance_queue", 1>>,
                    <<"enqueue_block_timeout_ms", 0>>, <<"stage_timeout_ms", 1>>,
                    <<"reassembly_capacity", 1>>, <<"reassembly_timeout_ms", 1>>,
                    <<"reassembly_sweep_ms", 1>> >>
SettingKeys == {SettingBounds[i][1] : i \in DOMAIN SettingBounds}
SmallestSetting(key) == (CHOOSE b \in {SettingBounds[i] : i \in DOMAIN SettingBounds} : b[1] = key)[2]

WordVerbs == {"model", "artefact", "fold_detections", "fold_prototypes", "per", "scope",
              "group", "algorithm"}
ExtentVerbs == {"crop", "letterbox"}
Least == [max_detections |-> 1, instances |-> 1, queue_delay_us |-> 0, min_hits |-> 1,
          max_instants |-> 1, regression_reset |-> 0]
Admitted == [score |-> Decimals, fold_score |-> Decimals, fold_mask |-> {"0.5"},
             sync_window_ms |-> {"0.5", "1.0", "2.5"}, min_height_fraction |-> {"0.0", "0.5"}]
Attributes == WordVerbs \cup ExtentVerbs \cup DOMAIN Least \cup DOMAIN Admitted
              \cup {"classes", "when"}
FieldOrder == <<"embedding", "global_id", "mask_area_px", "track_id">>
FieldNames == Range(FieldOrder)
RowField(kind) == CASE kind = "embed"   -> "embedding"
                    [] kind = "segment" -> "mask_area_px"
                    [] kind = "track"   -> "track_id"
                    [] kind = "mtmc"    -> "global_id"
                    [] OTHER            -> "none"

PlanNode(slot, kind, impl) ==
    [slot |-> slot, kind |-> kind, impl |-> impl, attr |-> [a \in Attributes |-> <<>>],
     cameras |-> <<>>, options |-> [k \in Keys |-> <<>>]]
EmptyPlan == [name |-> <<>>, settings |-> [k \in SettingKeys |-> <<>>], policy |-> "",
              policy_options |-> [k \in Keys |-> <<>>], labels |-> [i \in Ids |-> <<>>],
              nodes |-> <<>>, edges |-> <<>>, fields |-> [f \in FieldNames |-> <<>>]]

-----------------------------------------------------------------------------
(* resolve_plan.  A slot states `attr`, `cameras`, `options`, `labels` and *)
(* a `runtime`.                                                            *)

Speakable(phrase, spaces, commas) ==
    /\ phrase # <<"">>
    /\ "" \notin Range(phrase)
    /\ Tabbed \notin Range(phrase)
    /\ spaces \/ Len(phrase) = 1
    /\ Hashed \notin Range(phrase)
    /\ commas \/ Commaed \notin Range(phrase)

ClassesSpeakable(labels) ==
    \A i \in DOMAIN labels : labels[i] # <<"-">> /\ Speakable(labels[i], TRUE, FALSE)

\* The barrier's keys travel for an mtmc slot only, the tracker's for a track
\* slot only.
BarrierKeys == {"sync_window_ms", "max_instants", "group", "min_hits", "min_height_fraction"}
TrackerKeys == {"regression_reset", "algorithm"}
Carried(kind) ==
    Attributes \ ((IF kind = "mtmc" THEN {} ELSE BarrierKeys)
                  \cup (IF kind = "track" THEN {} ELSE TrackerKeys)
                  \cup (IF kind = "detect" THEN {} ELSE {"letterbox"}))

Stateable(verb, v) ==
    \/ verb \in WordVerbs /\ Speakable(v, FALSE, TRUE)
    \/ verb = "when" /\ Speakable(v, TRUE, TRUE)
    \/ verb = "classes" /\ ClassesSpeakable(v)
    \/ verb \in ExtentVerbs /\ v[1] > 0 /\ v[2] > 0
    \/ verb \in DOMAIN Least /\ v >= Least[verb]
    \/ verb \in DOMAIN Admitted /\ v \in Admitted[verb]

\* What a slot declares; failing that its model's extent in the repository, and
\* for a tracker the default algorithm.
Declared(e, verb) ==
    CASE e.attr[verb] # <<>>                                  -> e.attr[verb]
      [] verb = "crop" /\ e.kind \in {"embed", "segment"}     -> e.dims
      [] verb = "letterbox" /\ e.kind = "detect"              -> e.dims
      [] verb = "algorithm"                                   -> << <<"a">> >>
      [] OTHER                                                -> <<>>

Resolvable(e) ==
    /\ Speakable(e.slot, FALSE, TRUE)
    /\ Speakable(e.impl, FALSE, TRUE)
    /\ e.kind \in {"embed", "segment"} => Declared(e, "crop") # <<>>
    /\ e.kind = "detect" => Declared(e, "letterbox") # <<>>
    /\ \A verb \in Carried(e.kind) : \A i \in DOMAIN Declared(e, verb) :
          Stateable(verb, Declared(e, verb)[i])
    /\ e.kind = "mtmc" => \A i \in DOMAIN e.cameras : Speakable(e.cameras[i], FALSE, TRUE)
    /\ e.kind = "track" => \A k \in Keys : \A i \in DOMAIN e.options[k] :
          Speakable(e.options[k][i], FALSE, TRUE)
    /\ \A id \in Ids : \A i \in DOMAIN e.labels[id] : Speakable(e.labels[id][i], TRUE, FALSE)

ResolveNode(e) ==
    LET stated(verb) == IF verb \in Carried(e.kind) THEN Declared(e, verb) ELSE <<>>
    IN  [PlanNode(e.slot[1], e.kind, e.impl[1]) EXCEPT
            !.attr = [verb \in Attributes |->
                        IF verb \in WordVerbs /\ stated(verb) # <<>>
                        THEN <<stated(verb)[1][1]>> ELSE stated(verb)],
            !.cameras = IF e.kind = "mtmc" THEN [i \in DOMAIN e.cameras |-> e.cameras[i][1]]
                        ELSE <<>>,
            !.options = [k \in Keys |-> IF e.kind = "track" /\ e.options[k] # <<>>
                                        THEN <<e.options[k][1][1]>> ELSE <<>>]]

\* One plan carries one table: two detectors that disagree on an id are
\* refused.
LabelsOf(spec, id) == UNION {Range(spec.slots[i].labels[id]) : i \in DOMAIN spec.slots}

ResolvablePlan(spec) ==
    /\ \A i \in DOMAIN spec.slots : Resolvable(spec.slots[i])
    /\ \A id \in Ids : Cardinality(LabelsOf(spec, id)) <= 1
    /\ spec.name # <<"-">>
    /\ spec.name # <<>> => Speakable(spec.name, TRUE, TRUE)
    /\ spec.settings # <<>> => Speakable(spec.policy, FALSE, TRUE)

ResolvePlan(spec) ==
    LET nodes == [i \in DOMAIN spec.slots |-> ResolveNode(spec.slots[i])]
        fills(f) == SelectSeq(nodes, LAMBDA n : f = RowField(n.kind))
    IN  [EmptyPlan EXCEPT
            !.name   = spec.name,
            !.nodes  = nodes,
            !.edges  = [i \in 1..(Len(nodes) - 1) |->
                          <<nodes[i].slot, nodes[i + 1].slot, "cap">>],
            !.labels = [id \in Ids |-> SetToSeq(LabelsOf(spec, id))],
            !.fields = [f \in FieldNames |-> [i \in DOMAIN fills(f) |-> fills(f)[i].slot]],
            !.settings = IF spec.settings = <<>> THEN [k \in SettingKeys |-> <<>>]
                         ELSE [k \in SettingKeys |-> <<spec.settings[1][k]>>],
            !.policy = IF spec.settings = <<>> THEN "" ELSE spec.policy[1],
            !.policy_options = IF spec.settings = <<>> THEN [k \in Keys |-> <<>>]
                               ELSE spec.policy_options]

\* What no check of the writer bounds from above: its integers.
IntsOf(plan) ==
    UNION {Range(plan.settings[k]) : k \in SettingKeys}
    \cup UNION {UNION {Range(plan.nodes[i].attr[v]) : v \in DOMAIN Least} : i \in DOMAIN plan.nodes}
    \cup UNION {UNION {Range(plan.nodes[i].attr[v][1]) : v \in
                         {w \in ExtentVerbs : plan.nodes[i].attr[w] # <<>>}} :
                  i \in DOMAIN plan.nodes}

-----------------------------------------------------------------------------
\* plan_text.  A line is its words, the verb first.
Joined(labels) ==
    IF labels = <<>> THEN <<"-">>
    ELSE FlattenSeq([i \in DOMAIN labels |-> IF i = 1 THEN labels[i] ELSE <<",">> \o labels[i]])

Said(verb, v) ==
    CASE verb = "classes"        -> Joined(v)
      [] verb = "when"           -> v
      [] verb \in ExtentVerbs    -> <<ToString(v[1]), ToString(v[2])>>
      [] verb \in DOMAIN Least   -> <<ToString(v)>>
      [] OTHER                   -> <<v>>

Stated(node, verbs) ==
    LET there == SelectSeq(verbs, LAMBDA v : node.attr[v] # <<>>)
    IN  [i \in DOMAIN there |-> <<there[i]>> \o Said(there[i], node.attr[there[i]][1])]

Optioned(verb, options) ==
    LET keys == Order({k \in DOMAIN options : options[k] # <<>>})
    IN  [i \in DOMAIN keys |-> <<verb, keys[i], options[keys[i]][1]>>]

NodeText(node) ==
    << <<"node", node.slot, node.kind, node.impl>> >>
    \o Stated(node, <<"model", "classes", "crop", "letterbox", "score", "max_detections",
                      "instances", "queue_delay_us", "artefact", "fold_detections",
                      "fold_prototypes", "fold_score", "fold_mask", "when", "per", "scope",
                      "group">>)
    \o [i \in DOMAIN node.cameras |-> <<"camera", node.cameras[i]>>]
    \o Stated(node, <<"min_hits", "min_height_fraction", "sync_window_ms", "max_instants",
                      "algorithm", "regression_reset">>)
    \o Optioned("tracker_option", node.options)

SettingsText(settings) ==
    LET there == SelectSeq(SettingBounds, LAMBDA b : settings[b[1]] # <<>>)
    IN  [i \in DOMAIN there |-> <<"setting", there[i][1], ToString(settings[there[i][1]][1])>>]

PlanAsText(plan) ==
    LET ids    == SetToSortSeq({i \in Ids : plan.labels[i] # <<>>}, <)
        filled == SelectSeq(FieldOrder, LAMBDA f : plan.fields[f] # <<>>)
    IN  << <<"plan", "3">> \o (IF plan.name = <<>> THEN <<"-">> ELSE plan.name) >>
        \o SettingsText(plan.settings)
        \o (IF plan.policy = "" THEN <<>>
            ELSE << <<"policy", plan.policy>> >> \o Optioned("policy_option", plan.policy_options))
        \o [i \in DOMAIN ids |-> <<"label", ToString(ids[i])>> \o plan.labels[ids[i]][1]]
        \o FlattenSeq([i \in DOMAIN plan.nodes |-> NodeText(plan.nodes[i])])
        \o [i \in DOMAIN plan.edges |-> <<"edge">> \o plan.edges[i]]
        \o [i \in DOMAIN filled |-> <<"field", filled[i]>> \o plan.fields[filled[i]]]

-----------------------------------------------------------------------------
\* parse_plan, one line at a time.
Reading == [ok |-> TRUE, header |-> FALSE, plan |-> EmptyPlan]

Readable(word) == IsInt(word) /\ Fits(IntOf(word))

AttributeLegal(node, verb, args) ==
    \/ verb \in WordVerbs /\ Len(args) = 1
    \/ verb = "when" /\ args # <<>>
    \/ verb = "classes" /\ args # <<>> /\ (args = <<"-">> \/ <<>> \notin Range(Parts(args)))
    \/ verb \in ExtentVerbs /\ Len(args) = 2
         /\ \A i \in 1..2 : Readable(args[i]) /\ IntOf(args[i]) > 0
    \/ verb \in DOMAIN Least /\ Len(args) = 1 /\ Readable(args[1]) /\ IntOf(args[1]) >= Least[verb]
    \/ verb \in DOMAIN Admitted /\ Len(args) = 1 /\ args[1] \in Admitted[verb]
    \/ verb = "camera" /\ Len(args) = 1 /\ args[1] \notin Range(node.cameras)
    \/ verb = "tracker_option" /\ Len(args) = 2 /\ node.options[args[1]] = <<>>

AttributeValue(verb, args) ==
    CASE verb = "classes"      -> IF args = <<"-">> THEN <<>> ELSE Parts(args)
      [] verb = "when"         -> args
      [] verb \in ExtentVerbs  -> <<IntOf(args[1]), IntOf(args[2])>>
      [] verb \in DOMAIN Least -> IntOf(args[1])
      [] OTHER                 -> args[1]

Applied(node, verb, args) ==
    CASE verb = "camera"         -> [node EXCEPT !.cameras = Append(@, args[1])]
      [] verb = "tracker_option" -> [node EXCEPT !.options[args[1]] = <<args[2]>>]
      [] OTHER                   -> [node EXCEPT !.attr[verb] = <<AttributeValue(verb, args)>>]

SettingLegal(plan, args) ==
    /\ Len(args) = 2
    /\ args[1] \in SettingKeys
    /\ plan.settings[args[1]] = <<>>
    /\ Readable(args[2])
    /\ IntOf(args[2]) >= SmallestSetting(args[1])

LineLegal(st, verb, args) ==
    LET plan == st.plan IN
    \/ verb = "plan" /\ ~st.header /\ Len(args) >= 2 /\ args[1] = "3"
    \/ /\ st.header
       /\ \/ verb = "setting" /\ SettingLegal(plan, args)
          \/ verb = "policy" /\ Len(args) = 1 /\ plan.policy = ""
          \/ verb = "policy_option" /\ Len(args) = 2 /\ plan.policy # ""
               /\ plan.policy_options[args[1]] = <<>>
          \/ verb = "label" /\ Len(args) >= 2 /\ Readable(args[1])
               /\ plan.labels[IntOf(args[1])] = <<>>
          \/ verb = "node" /\ Len(args) = 3 /\ \A i \in DOMAIN plan.nodes : plan.nodes[i].slot # args[1]
          \/ verb = "edge" /\ Len(args) = 3
          \/ verb = "field" /\ Len(args) >= 2 /\ plan.fields[args[1]] = <<>>
          \/ plan.nodes # <<>> /\ AttributeLegal(Last(plan.nodes), verb, args)

LineRead(plan, verb, args) ==
    CASE verb = "plan"    -> [plan EXCEPT !.name = IF Tail(args) = <<"-">> THEN <<>> ELSE Tail(args)]
      [] verb = "setting" -> [plan EXCEPT !.settings[args[1]] = <<IntOf(args[2])>>]
      [] verb = "policy"  -> [plan EXCEPT !.policy = args[1]]
      [] verb = "policy_option" -> [plan EXCEPT !.policy_options[args[1]] = <<args[2]>>]
      [] verb = "label"   -> [plan EXCEPT !.labels[IntOf(args[1])] = <<Tail(args)>>]
      [] verb = "node"    -> [plan EXCEPT !.nodes = Append(@, PlanNode(args[1], args[2], args[3]))]
      [] verb = "edge"    -> [plan EXCEPT !.edges = Append(@, args)]
      [] verb = "field"   -> [plan EXCEPT !.fields[args[1]] = Tail(args)]
      [] OTHER            -> [plan EXCEPT !.nodes[Len(plan.nodes)] = Applied(@, verb, args)]

ParseLine(st, line) ==
    LET words == Split(line) IN
    IF ~st.ok \/ words = <<>> THEN st
    ELSE IF LineLegal(st, words[1], Tail(words))
         THEN [st EXCEPT !.header = TRUE, !.plan = LineRead(@, words[1], Tail(words))]
         ELSE [st EXCEPT !.ok = FALSE]

\* The end of the text: a header, settings all or none, and fields only of
\* declared slots.
SettingsWhole(plan) ==
    LET stated == {k \in SettingKeys : plan.settings[k] # <<>>}
    IN  stated \in {{}, SettingKeys}
FieldsDeclared(plan) ==
    \A f \in FieldNames : \A i \in DOMAIN plan.fields[f] :
        \E n \in DOMAIN plan.nodes : plan.nodes[n].slot = plan.fields[f][i]

ParseEnd(st) ==
    [st EXCEPT !.ok = @ /\ st.header /\ SettingsWhole(st.plan) /\ FieldsDeclared(st.plan)]

-----------------------------------------------------------------------------
(* The C++ plane.                                                          *)

\* A word attribute is a std::string, "" when the plan is silent.
NativeNode(slot, kind, impl) ==
    [slot |-> slot, kind |-> kind, impl |-> impl, word |-> [v \in WordVerbs |-> ""],
     number |-> [v \in DOMAIN Least |-> <<>>], decimal |-> [v \in DOMAIN Admitted |-> <<>>],
     extent |-> [v \in ExtentVerbs |-> <<>>], classes |-> <<>>, when |-> <<>>,
     cameras |-> <<>>, options |-> [k \in Keys |-> <<>>]]
NativeReading ==
    [ok |-> TRUE, header |-> FALSE, seen |-> {}, settings |-> [k \in SettingKeys |-> 0],
     plan |-> [EmptyPlan EXCEPT !.settings = <<>>]]

AsInt(word) == \E n \in -1..IntMax : ToString(n) = word
AsDouble(word) == word \in Decimals

Positive(n) == n > 0
NumberOk(verb, n) ==
    \/ verb \in {"max_detections", "instances"} /\ Positive(n)
    \/ verb = "queue_delay_us" /\ n >= 0
    \/ verb \in {"min_hits", "max_instants"} /\ ~(n < 1)
    \/ verb = "regression_reset" /\ ~(n < 0)
DecimalOk(verb, word) ==
    /\ AsDouble(word)
    /\ verb = "fold_mask" => word \notin {"-0.5", "0.0", "1.0", "2.5"}
    /\ verb = "min_height_fraction" => word \notin {"-0.5", "1.0", "2.5"}
    /\ verb = "sync_window_ms" => word \notin {"-0.5", "0.0"}

Apply(node, verb, args) ==
    CASE verb \in WordVerbs -> [node EXCEPT !.word[verb] = args[1]]
      [] verb = "when"      -> [node EXCEPT !.when = args]
      [] verb = "classes"   -> [node EXCEPT !.classes = <<IF args = <<"-">> THEN <<>> ELSE Parts(args)>>]
      [] verb \in ExtentVerbs -> [node EXCEPT !.extent[verb] = << <<IntOf(args[1]), IntOf(args[2])>> >>]
      [] verb \in DOMAIN Least -> [node EXCEPT !.number[verb] = <<IntOf(args[1])>>]
      [] verb \in DOMAIN Admitted -> [node EXCEPT !.decimal[verb] = <<args[1]>>]
      [] verb = "camera"    -> [node EXCEPT !.cameras = Append(@, args[1])]
      [] verb = "tracker_option" -> [node EXCEPT !.options[args[1]] = <<args[2]>>]

Applies(node, verb, args) ==
    \/ verb \in WordVerbs /\ Len(args) = 1
    \/ verb = "when" /\ Len(args) > 0
    \/ verb = "classes" /\ Len(args) > 0
         /\ (args = <<"-">> \/ \A i \in DOMAIN Parts(args) : Parts(args)[i] # <<>>)
    \/ verb \in ExtentVerbs /\ Len(args) = 2
         /\ \A i \in DOMAIN args : AsInt(args[i]) /\ Positive(IntOf(args[i]))
    \/ verb \in DOMAIN Least /\ Len(args) = 1 /\ AsInt(args[1]) /\ NumberOk(verb, IntOf(args[1]))
    \/ verb \in DOMAIN Admitted /\ Len(args) = 1 /\ DecimalOk(verb, args[1])
    \/ verb = "camera" /\ Len(args) = 1 /\ ~\E i \in DOMAIN node.cameras : node.cameras[i] = args[1]
    \/ verb = "tracker_option" /\ Len(args) = 2 /\ node.options[args[1]] = <<>>

NodeOf(plan, slot) == {i \in DOMAIN plan.nodes : plan.nodes[i].slot = slot}

Accepts(st, verb, args) ==
    LET plan == st.plan IN
    IF verb = "plan" THEN ~st.header /\ Len(args) > 1 /\ args[1] = "3"
    ELSE /\ st.header
         /\ CASE verb = "setting" -> /\ Len(args) = 2
                                     /\ args[1] \in SettingKeys \ st.seen
                                     /\ AsInt(args[2])
                                     /\ ~(IntOf(args[2]) < SmallestSetting(args[1]))
              [] verb = "policy"  -> Len(args) = 1 /\ plan.policy = ""
              [] verb = "policy_option" ->
                    Len(args) = 2 /\ plan.policy # "" /\ plan.policy_options[args[1]] = <<>>
              [] verb = "label"   ->
                    Len(args) > 1 /\ AsInt(args[1]) /\ plan.labels[IntOf(args[1])] = <<>>
              [] verb = "node"    -> Len(args) = 3 /\ NodeOf(plan, args[1]) = {}
              [] verb = "edge"    -> Len(args) = 3
              [] verb = "field"   -> Len(args) > 1 /\ plan.fields[args[1]] = <<>>
              [] OTHER            -> plan.nodes # <<>> /\ Applies(Last(plan.nodes), verb, args)

Consume(st, verb, args) ==
    CASE verb = "setting" -> [st EXCEPT !.seen = @ \cup {args[1]},
                                        !.settings[args[1]] = IntOf(args[2])]
      [] verb = "plan"    -> [st EXCEPT !.header = TRUE,
                                !.plan.name = IF Tail(args) = <<"-">> THEN <<>> ELSE Tail(args)]
      [] verb = "policy"  -> [st EXCEPT !.plan.policy = args[1]]
      [] verb = "policy_option" -> [st EXCEPT !.plan.policy_options[args[1]] = <<args[2]>>]
      [] verb = "label"   -> [st EXCEPT !.plan.labels[IntOf(args[1])] = <<Tail(args)>>]
      [] verb = "node"    -> [st EXCEPT !.plan.nodes = Append(@, NativeNode(args[1], args[2], args[3]))]
      [] verb = "edge"    -> [st EXCEPT !.plan.edges = Append(@, args)]
      [] verb = "field"   -> [st EXCEPT !.plan.fields[args[1]] = Tail(args)]
      [] OTHER            -> [st EXCEPT !.plan.nodes[Len(st.plan.nodes)] = Apply(@, verb, args)]

NativeLine(st, line) ==
    LET words == Split(line) IN
    IF ~st.ok \/ words = <<>> THEN st
    ELSE IF Accepts(st, words[1], Tail(words)) THEN Consume(st, words[1], Tail(words))
         ELSE [st EXCEPT !.ok = FALSE]

NativeEnd(st) ==
    [st EXCEPT
        !.ok = /\ @
               /\ st.header
               /\ st.seen = {} \/ SettingKeys \subseteq st.seen
               /\ \A f \in FieldNames : \A i \in DOMAIN st.plan.fields[f] :
                     NodeOf(st.plan, st.plan.fields[f][i]) # {},
        !.plan.settings = IF st.seen = {} THEN <<>> ELSE <<st.settings>>]

-----------------------------------------------------------------------------
\* plan_text on this plane.
Spell(verb, word) == IF word = "" THEN <<>> ELSE << <<verb, word>> >>
SpellInt(verb, n) == IF n = <<>> THEN <<>> ELSE << <<verb, ToString(n[1])>> >>
SpellDecimal(verb, d) == IF d = <<>> THEN <<>> ELSE << <<verb, d[1]>> >>
SpellExtent(verb, e) ==
    IF e = <<>> THEN <<>> ELSE << <<verb, ToString(e[1][1]), ToString(e[1][2])>> >>

NativeNodeText(node) ==
    << <<"node", node.slot, node.kind, node.impl>> >>
    \o Spell("model", node.word["model"])
    \o (IF node.classes = <<>> THEN <<>> ELSE << <<"classes">> \o Joined(node.classes[1]) >>)
    \o SpellExtent("crop", node.extent["crop"]) \o SpellExtent("letterbox", node.extent["letterbox"])
    \o SpellDecimal("score", node.decimal.score)
    \o SpellInt("max_detections", node.number.max_detections)
    \o SpellInt("instances", node.number.instances)
    \o SpellInt("queue_delay_us", node.number.queue_delay_us)
    \o Spell("artefact", node.word["artefact"])
    \o Spell("fold_detections", node.word["fold_detections"])
    \o Spell("fold_prototypes", node.word["fold_prototypes"])
    \o SpellDecimal("fold_score", node.decimal.fold_score)
    \o SpellDecimal("fold_mask", node.decimal.fold_mask)
    \o (IF node.when = <<>> THEN <<>> ELSE << <<"when">> \o node.when >>)
    \o Spell("per", node.word["per"]) \o Spell("scope", node.word["scope"])
    \o Spell("group", node.word["group"])
    \o [i \in DOMAIN node.cameras |-> <<"camera", node.cameras[i]>>]
    \o SpellInt("min_hits", node.number.min_hits)
    \o SpellDecimal("min_height_fraction", node.decimal.min_height_fraction)
    \o SpellDecimal("sync_window_ms", node.decimal.sync_window_ms)
    \o SpellInt("max_instants", node.number.max_instants)
    \o Spell("algorithm", node.word["algorithm"])
    \o SpellInt("regression_reset", node.number.regression_reset)
    \o Optioned("tracker_option", node.options)

NativeText(plan) ==
    LET ids    == SetToSortSeq({i \in Ids : plan.labels[i] # <<>>}, <)
        filled == SelectSeq(FieldOrder, LAMBDA f : plan.fields[f] # <<>>)
    IN  << <<"plan", "3">> \o (IF plan.name = <<>> THEN <<"-">> ELSE plan.name) >>
        \o (IF plan.settings = <<>> THEN <<>>
            ELSE [i \in DOMAIN SettingBounds |->
                    <<"setting", SettingBounds[i][1], ToString(plan.settings[1][SettingBounds[i][1]])>>])
        \o (IF plan.policy = "" THEN <<>>
            ELSE << <<"policy", plan.policy>> >> \o Optioned("policy_option", plan.policy_options))
        \o [i \in DOMAIN ids |-> <<"label", ToString(ids[i])>> \o plan.labels[ids[i]][1]]
        \o FlattenSeq([i \in DOMAIN plan.nodes |-> NativeNodeText(plan.nodes[i])])
        \o [i \in DOMAIN plan.edges |-> <<"edge">> \o plan.edges[i]]
        \o [i \in DOMAIN filled |-> <<"field", filled[i]>> \o plan.fields[filled[i]]]

-----------------------------------------------------------------------------
\* plan_stages: `loaded` are the models with an engine, `lanes` the in-tree
\* kinds this build registered.
Crops(kind) == kind \in {"embed", "segment"}
InTree(kind) == kind \in {"track", "mtmc"}
PlaneRuns(kind) == kind = "detect" \/ Crops(kind) \/ InTree(kind)
Runnable(node, loaded, lanes) ==
    /\ PlaneRuns(node.kind)
    /\ IF InTree(node.kind) THEN node.kind \in lanes ELSE node.word["model"] \in loaded

\* Which rows a slot takes: any, none, or those of one class the table names.
ClassKnown(plan, node) ==
    \/ node.classes \in {<<>>, << <<>> >>}
    \/ /\ Len(node.classes[1]) = 1
       /\ \E id \in Ids : plan.labels[id] = <<node.classes[1][1]>>
ClassOf(plan, node) ==
    CASE node.classes = <<>>       -> "any"
      [] node.classes = << <<>> >> -> "none"
      [] ~ClassKnown(plan, node)   -> "refused"
      [] OTHER -> ToString(CHOOSE id \in Ids : /\ plan.labels[id] = <<node.classes[1][1]>>
                                               /\ \A j \in Ids : plan.labels[j] = plan.labels[id] => id <= j)

DetectConfigOk(node) ==
    node.extent["letterbox"] # <<>> => node.extent["letterbox"][1][1] = node.extent["letterbox"][1][2]
CropSpecOk(plan, node) == node.extent["crop"] # <<>> /\ ClassKnown(plan, node)
FoldOf(node) == node.kind = "segment"
OutputOf(slot) == <<slot, "out">>

\* One camera, one group; and where there are several groups each names its
\* cameras.
RostersApart(groups) ==
    /\ \A g \in groups, h \in groups :
          g.slot # h.slot => Range(g.cameras) \cap Range(h.cameras) = {}
    /\ \A g \in groups : Cardinality(Range(g.cameras)) = Len(g.cameras)
    /\ Cardinality(groups) > 1 => \A g \in groups : g.cameras # <<>>

PlanStages(plan, loaded, lanes) ==
    LET runs(test(_)) == SelectSeq(plan.nodes, LAMBDA n : Runnable(n, loaded, lanes) /\ test(n))
        detects  == runs(LAMBDA n : n.kind = "detect")
        croppers == runs(LAMBDA n : Crops(n.kind))
        trackers == runs(LAMBDA n : n.kind = "track")
        groups   == runs(LAMBDA n : n.kind = "mtmc")
        slots(nodes) == [i \in DOMAIN nodes |-> nodes[i].slot]
        plain    == SelectSeq(croppers, LAMBDA n : ~FoldOf(n))
    IN  [ok |-> /\ Len(detects) = 1
                /\ DetectConfigOk(detects[1])
                /\ \A i \in DOMAIN croppers : CropSpecOk(plan, croppers[i])
                /\ \A i \in DOMAIN trackers : ClassKnown(plan, trackers[i])
                /\ RostersApart(Range(groups))
                /\ groups # <<>> => trackers # <<>>,
         unsupported |-> {n.slot : n \in {m \in Range(plan.nodes) : ~Runnable(m, loaded, lanes)}},
         stages |-> slots(detects) \o (IF croppers = <<>> THEN <<>> ELSE <<"crop">>)
                    \o slots(croppers) \o slots(trackers) \o slots(groups),
         selects |-> [i \in DOMAIN (croppers \o trackers) |->
                        <<(croppers \o trackers)[i].slot, ClassOf(plan, (croppers \o trackers)[i])>>],
         mtmcs |-> [i \in DOMAIN groups |->
                      [slot    |-> groups[i].slot,
                       cameras |-> groups[i].cameras,
                       group   |-> IF groups[i].word["group"] = "" THEN groups[i].slot
                                   ELSE groups[i].word["group"],
                       tracks  |-> IF trackers = <<>> THEN <<>> ELSE OutputOf(trackers[1].slot),
                       vectors |-> [j \in DOMAIN plain |-> OutputOf(plain[j].slot)]]],
         fields |-> [f \in FieldNames |->
                       LET run == SelectSeq(plan.fields[f], LAMBDA s :
                                    \E n \in Range(plan.nodes) :
                                        n.slot = s /\ Runnable(n, loaded, lanes))
                       IN  [i \in DOMAIN run |-> OutputOf(run[i])]]]

\* What a shard warns about: the cameras of the fleet no group takes.
CamerasNoGroupOwns(stages, cameras) ==
    IF Len(stages.mtmcs) < 2 THEN {}
    ELSE cameras \ UNION {Range(stages.mtmcs[i].cameras) : i \in DOMAIN stages.mtmcs}

-----------------------------------------------------------------------------
\* Chains: one attribute stated on one slot, in every way; and slots of every
\* kind together.
Plain(slot, kind) ==
    [slot |-> <<slot>>, kind |-> kind, impl |-> <<"pool">>, dims |-> << <<1, 1>> >>,
     attr |-> [[v \in Attributes |-> <<>>] EXCEPT
                 !["model"] = IF kind \in {"track", "mtmc"} THEN <<>> ELSE << <<slot>> >>],
     cameras |-> <<>>, options |-> [k \in Keys |-> <<>>], labels |-> [i \in Ids |-> <<>>]]
Unset == [k \in Keys |-> <<>>]
OfSlots(slots) ==
    [name |-> <<>>, slots |-> slots, settings |-> <<>>, policy |-> <<"quay">>,
     policy_options |-> Unset]

OddWords == {<<"a">>, <<"a", "b">>, <<"-">>, <<"">>, <<"a", "">>, <<Tabbed>>, <<Hashed>>, <<Commaed>>}
Values(verb) ==
    CASE verb \in WordVerbs \cup {"when"} -> OddWords
      [] verb = "classes" -> {<<>>} \cup {<<w>> : w \in OddWords}
                             \cup {<<w, <<"a", "b">> >> : w \in OddWords}
      [] verb \in ExtentVerbs -> {<<m, n>> : m \in 0..(IntMax + 1), n \in 1..2}
      [] verb \in DOMAIN Least -> -1..(IntMax + 1)
      [] verb \in DOMAIN Admitted -> Decimals \cup {"inf", "nan"}
KindOf(verb) == CASE verb \in BarrierKeys -> "mtmc" [] verb \in TrackerKeys -> "track"
                  [] OTHER -> "detect"
OneAttribute ==
    UNION {{OfSlots(<<[Plain("a", k) EXCEPT !.attr[verb] = <<v>>]>>) :
               k \in {KindOf(verb), "embed"}, v \in Values(verb)} : verb \in Attributes}
Named(kind, label, option, cams, slot, chainName) ==
    [OfSlots(<<[Plain("a", kind) EXCEPT !.labels[1] = label, !.options["a"] = option,
                                        !.cameras = cams, !.slot = slot]>>)
        EXCEPT !.name = chainName]
OneName ==
    {Named("detect", l, <<>>, <<>>, s, n) :
        l \in {<<>>} \cup {<<w>> : w \in OddWords}, s \in OddWords,
        n \in {<<>>, <<"a", "b">>, <<"-">>, <<Hashed>>}}
    \cup {Named("track", <<>>, <<w>>, <<>>, <<"a">>, <<>>) : w \in OddWords}
    \cup {Named("mtmc", <<>>, <<>>, <<w, <<"quay">> >>, <<"a">>, <<>>) : w \in OddWords}
SettingValues == {[k \in SettingKeys |-> 1], [k \in SettingKeys |-> IntMax + 1],
                  [[k \in SettingKeys |-> 1] EXCEPT !["enqueue_block_timeout_ms"] = 0]}
Configured ==
    {[OfSlots(<<Plain("a", "detect")>>) EXCEPT
        !.settings = <<s>>, !.policy = p, !.policy_options = [Unset EXCEPT !["a"] = a, !["b"] = b]] :
        s \in SettingValues, p \in OddWords, a \in {<<>>, <<"b">>}, b \in {<<>>, <<"a">>}}

\* Several slots: two detectors may share a table, croppers and groups may
\* narrow their rows.
Detector(slot, first, second) ==
    [Plain(slot, "detect") EXCEPT !.labels = (1 :> first @@ 2 :> second @@ 0 :> <<>>)]
Later == {[Plain(s, k) EXCEPT !.attr["classes"] = c] :
             s \in {"b"}, k \in {"embed", "segment", "track"},
             c \in {<<>>, << <<>> >>, << << <<"a">> >> >>, << << <<"b">> >> >>, << << <<"a">>, <<"b">> >> >>}}
Groups == {<<>>} \cup {<<[Plain("quay", "mtmc") EXCEPT !.cameras = c]>> : c \in {<<>>, << <<"a">> >>}}
Seconds == {<<>>} \cup {<<[Plain("a", "mtmc") EXCEPT !.cameras = c]>> :
               c \in {<<>>, << <<"a">> >>, << <<"b">>, <<"-">> >>}}
Fronts == {<<Detector("cap", << <<"a">> >>, l)>> : l \in {<<>>, << <<"b">> >>}}
          \cup {<<Detector("cap", << <<"a">> >>, <<>>), Detector("be", l, <<>>)>> :
                   l \in {<<>>, << <<"a">> >>, << <<"b">> >>}}
Several ==
    {OfSlots(f \o <<m>> \o t \o g \o h) :
        f \in Fronts, m \in Later, t \in {<<>>, <<Plain("tr", "track")>>}, g \in Groups, h \in Seconds}

Loaded == {{"cap", "b"}, {"cap"}, {"be"}}
Lanes == {{"track", "mtmc"}, {"mtmc"}, {}}
CamerasUsed == {"a", "b", "-", "quay"}

\* Lines a hand may type.
Lines == { <<"plan", "3", "a", "b">>, <<"plan", "3", "-">>, <<"plan", "2", "a">>, <<"plan", "3">>,
           <<Hashed, "a">>, <<"", "">>, <<"setting", "workers", "1">>, <<"setting", "workers", "0">>,
           <<"setting", "stage", "1">>, <<"policy", "a">>, <<"policy_option", "a", "b">>,
           <<"label", "1", "a", "b">>, <<"label", "x", "a">>, <<"label", "3", "a">>,
           <<"node", "a", "detect", "pool">>, <<"node", "b", "mtmc", "pool">>,
           <<"edge", "a", "b", "cap">>, <<"edge", "a", "b">>, <<"field", "embedding", "a">>,
           <<"field", "embedding", "a", Tabbed>>, <<"model", "a">>, <<"model", Hashed>>,
           <<"classes", "a", "b", ",", "-">>, <<"classes", "-">>, <<"classes", "a", ",">>,
           <<"crop", "1", "2">>, <<"crop", "0", "1">>, <<"score", "nan">>, <<"score", "-0.5">>,
           <<"fold_mask", "1.0">>, <<"min_hits", "0">>, <<"queue_delay_us", "0">>,
           <<"regression_reset", "3">>, <<"camera", "a">>, <<"tracker_option", "a", "b">>,
           <<"when", Tabbed>>, <<"min_height_fraction", "1.0">>, <<"sync_window_ms", "0.0">> }

-----------------------------------------------------------------------------
NotBuilt == <<>>
Chains == <<OneAttribute, OneName, Configured, Several>>
Init == /\ \/ /\ stage = "declared"
              /\ \E i \in DOMAIN Chains : chain \in {<<c>> : c \in Chains[i]}
           \/ stage = "typing" /\ chain = <<>>
        /\ text = <<>> /\ typed = 0 /\ py = Reading /\ cxx = NativeReading /\ built = NotBuilt

\* shipinfer plan: resolve, write.
Resolve == /\ stage = "declared"
           /\ IF ResolvablePlan(chain[1])
              THEN stage' = "reading" /\ text' = PlanAsText(ResolvePlan(chain[1]))
              ELSE stage' = "refused" /\ UNCHANGED text
           /\ UNCHANGED <<chain, typed, py, cxx, built>>

Feed(line) == py' = ParseLine(py, line) /\ cxx' = NativeLine(cxx, line)

ReadLine == /\ stage = "reading" /\ text # <<>>
            /\ Feed(Head(text))
            /\ text' = Tail(text)
            /\ UNCHANGED <<chain, stage, typed, built>>
TypeLine == /\ stage = "typing" /\ typed < MaxLines /\ (py.ok \/ cxx.ok)
            /\ \E line \in Lines : Feed(line)
            /\ typed' = typed + 1
            /\ UNCHANGED <<chain, stage, text, built>>
EndOfText == /\ stage \in {"reading", "typing"} /\ text = <<>>
             /\ stage' = "read"
             /\ py' = ParseEnd(py) /\ cxx' = NativeEnd(cxx)
             /\ UNCHANGED <<chain, text, typed, built>>
Build == /\ stage = "read" /\ cxx.ok /\ chain # <<>>
         /\ stage' = "built"
         /\ \E loaded \in Loaded, lanes \in Lanes :
               built' = <<[loaded |-> loaded, lanes |-> lanes,
                           stages |-> PlanStages(cxx.plan, loaded, lanes)]>>
         /\ UNCHANGED <<chain, text, typed, py, cxx>>

Next == Resolve \/ ReadLine \/ TypeLine \/ EndOfText \/ Build
Spec == Init /\ [][Next]_vars

-----------------------------------------------------------------------------
\* "Read a plan back. The inverse of plan_text, byte for byte" (plan.py:893):
\* what the writer lets through is read back as the plan that was resolved.
\* The one exception: the writer bounds no integer from above, and the readers
\* take 32 bits.
ReadBackWhole ==
    stage \in {"read", "built"} /\ chain # <<>> =>
        LET plan == ResolvePlan(chain[1]) IN
        /\ py.ok <=> \A n \in IntsOf(plan) : Fits(n)
        /\ py.ok => py.plan = plan

\* Whatever the text, both planes refuse it or neither does, and a text both
\* accept they would write again alike, word for word: no plan means one thing
\* to one plane and another to the other.
PlanesReadAlike ==
    /\ py.ok <=> cxx.ok
    /\ stage = "read" /\ py.ok => PlanAsText(py.plan) = NativeText(cxx.plan)

\* A plan that builds runs every slot it does not report as unsupported, once
\* and after what it consumes; a slot takes the rows its `classes:` name on the
\* other plane, by label; and no camera has two identity groups: cross-camera
\* ids need one owner.
Takes(stages, i, camera) ==
    Len(stages.mtmcs) < 2 \/ stages.mtmcs[i].cameras = <<>> \/ camera \in Range(stages.mtmcs[i].cameras)
StagesAccounted ==
    stage = "built" /\ built[1].stages.ok =>
        LET stages == built[1].stages
            slots  == {cxx.plan.nodes[i].slot : i \in DOMAIN cxx.plan.nodes}
            run    == Range(stages.stages) \ {"crop"}
        IN  /\ run \cup stages.unsupported = slots /\ run \cap stages.unsupported = {}
            /\ IsInjective(stages.stages)
            /\ \A i \in DOMAIN stages.selects : \A id \in {j \in Ids : cxx.plan.labels[j] # <<>>} :
                  LET node == cxx.plan.nodes[CHOOSE n \in NodeOf(cxx.plan, stages.selects[i][1]) : TRUE]
                  IN  stages.selects[i][2] \in {"any", ToString(id)}
                      <=> \A c \in Range(node.classes) : cxx.plan.labels[id][1] \in Range(c)
            /\ \A f \in FieldNames : \A o \in Range(stages.fields[f]) : o[1] \in run
            /\ \A i, j \in DOMAIN stages.mtmcs : \A c \in CamerasUsed :
                  Takes(stages, i, c) /\ Takes(stages, j, c) => i = j
            /\ \A c \in CamerasUsed \ CamerasNoGroupOwns(stages, CamerasUsed) :
                  stages.mtmcs # <<>> => \E i \in DOMAIN stages.mtmcs : Takes(stages, i, c)
            /\ \A i \in DOMAIN stages.mtmcs : stages.mtmcs[i].tracks # <<>>
=============================================================================
