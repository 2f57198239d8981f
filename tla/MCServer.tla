------------------------------- MODULE MCServer -------------------------------
(***************************************************************************)
(* A server's models, and what they and the chain around them make of a    *)
(* frame; part says which of these independent instances a behaviour is.   *)
(*   "server"   three threads that start, stop, load, unload and scrape,   *)
(*              three calls between them                                   *)
(*   "pair"     two threads with four calls between them                   *)
(*   "model"    three requests of one model on two instances               *)
(*   "chain"    every chain of four families, and a frame through it       *)
(*   "graph"    the perception graph, its stages in every order            *)
(*   "ensemble" two threads of an ensemble's pool, on small graphs         *)
(*   "tracker"  two workers and the tracker of a camera that returns       *)
(*   "gallery"  two workers that query and enrol into one gallery          *)
(***************************************************************************)
EXTENDS InferenceServer, TLC

CONSTANTS x1, x2, e1, e2

MCStartup == <<"model", "ensemble">>
MCDeployments == [strict : BOOLEAN, tier : BOOLEAN]
Symmetry == Permutations(Threads) \cup Permutations({x1, x2}) \cup Permutations({e1, e2})

-----------------------------------------------------------------------------
\* Four families of chain files, small enough to be enumerated: wirings, caps,
\* rows and groups.
Slot(impl, after) ==
    [impl |-> impl, after |-> after, when |-> <<>>, classes |-> <<>>, labels |-> <<>>,
     roster |-> <<>>, model |-> TRUE]
After(seq) == <<seq>>
Chain(slots, frame, fps) ==
    [slots |-> slots, frame |-> frame, fps |-> fps, camera |-> "c1"]

\* Wirings of four slots: every `after:` of up to two names, an unknown name
\* included.
Afters == {<<>>, After(<<>>), After(<<1, 1>>)}
          \cup {After(<<t>>) : t \in 0..4}
          \cup {After(p) : p \in {q \in (1..4) \X (1..4) : q[1] # q[2]}}
Wirings ==
    {Chain(<<Slot("decode", root), Slot("probe", a), Slot("probe", b), Slot("output", c)>>,
           <<>>, "fast") :
        root \in {<<>>, After(<<2>>)}, a \in Afters, b \in Afters, c \in Afters}

\* Caps: three slots between a decoder and the output, in four shapes, some
\* guarded.
Shapes == {<< <<1>>, <<2>>, <<3>>, <<4>> >>, << <<1>>, <<1>>, <<2, 3>>, <<4>> >>,
           << <<1>>, <<2>>, <<2>>, <<4, 3>> >>, << <<1>>, <<1>>, <<3>>, <<2, 4>> >>}
Guard(slot, guarded) == IF guarded THEN [slot EXCEPT !.when = <<"fast">>] ELSE slot
Middles == {"probe", "detect", "embed", "track", "mtmc"}
CapChains ==
    {Chain(<<Slot(d, <<>>), Guard(Slot(x, After(sh[1])), gx), Guard(Slot(y, After(sh[2])), gy),
             Guard(Slot(z, After(sh[3])), gz), Slot("output", After(sh[4]))>>, <<"ship">>, fps) :
        d \in {"decode", "nvdec"}, x \in Middles, y \in Middles, z \in Middles,
        gx \in BOOLEAN, gy \in BOOLEAN, gz \in BOOLEAN, sh \in Shapes, fps \in {"fast", "slow"}}

\* Rows: two fillers over classes that overlap or do not, one behind the other
\* or side by side.
Frames == {<<"ship", "person">>, <<"person", "ship", "ship">>, <<"ship", "ship", "ship">>, <<>>}
Selections == {<<>>, <<{}>>, <<{"ship"}>>, <<{"person"}>>, <<{"ship", "person"}>>, <<{"buoy"}>>}
Joins == {<<After(<<3>>), After(<<4>>)>>, <<After(<<2>>), After(<<3, 4>>)>>,
          <<After(<<2>>), After(<<4, 3>>)>>}
RowChains ==
    {Chain(<<Slot("decode", <<>>),
             [Slot("detect", <<>>) EXCEPT !.labels = <<{"ship", "person"}>>],
             [Slot(x, <<>>) EXCEPT !.classes = cx, !.when = w],
             [Slot(y, join[1]) EXCEPT !.classes = cy],
             Slot("output", join[2])>>, frame, "fast") :
        x \in {"embed", "segment", "recognize"}, y \in {"embed", "segment", "track"},
        cx \in Selections, cy \in Selections, w \in {<<>>, <<"slow">>, <<"class">>},
        join \in Joins, frame \in Frames}

\* Groups: two cross-camera slots, rostered or not.
Rosters == {<<>>, <<"c1">>, <<"c1", "c2">>, <<"c2", "c2">>, <<"c2">>}
GroupChains ==
    {Chain(<<Slot("decode", <<>>), Slot("detect", <<>>), Slot("track", <<>>),
             [Slot("mtmc", <<>>) EXCEPT !.roster = r],
             [Slot("mtmc", <<>>) EXCEPT !.roster = q], Slot("output", <<>>)>>,
           <<"ship">>, "fast") : r \in Rosters, q \in Rosters}

AllFamilies == <<Wirings, CapChains, RowChains, GroupChains>>

-----------------------------------------------------------------------------
VARIABLES part,
          policy, overflow, capacity, ready, input, place, left, future, answer, queue,
          assigned, turn, entries, bytes, worker, free, held, peak, stats,
          file, topo, pos, produced, got, outcome, events,
          graph, frame, verdict, idx, todo, running, state, expected, resolved, seen, snapshot,
          dag, truthy, openedUp, credit, alive, pool, tasks, doing, caller, execs,
          answered, flying, landing, busySteps, stopper,
          stay, streaming, next, lane, tracked, shards, dropped, hook, walks, refused,
          loaded, version, repository, curated, minted, at, rows, filed

(* The traffics of a model: two equal inputs and one that differs in the   *)
(* optional mask only; a request of two rows before two of one, one of     *)
(* them off the host; one too large to cache and one for any batch.        *)
In(image, mask, device, camera, hint) ==
    [image |-> image, mask |-> mask, device |-> device, camera |-> camera, hint |-> hint]
Same == << In(<<"x">>, FALSE, FALSE, "a", 1), In(<<"x">>, FALSE, FALSE, "a", 0),
           In(<<"x">>, TRUE, FALSE, "b", 1) >>
Spread == << In(<<"y", "z">>, FALSE, FALSE, "a", 2), In(<<"x">>, FALSE, FALSE, "b", 1),
             In(<<"x">>, FALSE, TRUE, "", 2) >>
Large == << In(<<"x", "y", "z">>, FALSE, FALSE, "a", 1), In(<<"x">>, FALSE, FALSE, "b", 1),
            In(<<"w", "x", "y", "z">>, FALSE, FALSE, "c", 0) >>
Setup(p, o, n, up, in) ==
    [policy |-> p, overflow |-> o, capacity |-> n, ready |-> up, input |-> in]
Setups ==
    { Setup("affinity", "reject", 2, {1, 2}, Same),
      Setup("round_robin", "drop_oldest", 1, {1, 2}, Same),
      Setup("shortest", "reject", 2, {1}, Same),
      Setup("locality", "reject", 1, {1, 2}, Spread),
      Setup("shortest", "drop_oldest", 2, {1}, Spread),
      Setup("affinity", "reject", 2, {1}, Large),
      Setup("shortest", "reject", 1, {1, 2}, Large) }

Pair == INSTANCE InferenceServer WITH Threads <- {x1, x2}, MaxCalls <- 4
Serving == INSTANCE ModelServing WITH
    Requests <- 1 .. 3, Instances <- 1 .. 2, MaxBatch <- 3, Limit <- 1, MaxEntries <- 2,
    MaxBytes <- 2, SpillThreshold <- 0, MaxSequences <- 2
Chained == INSTANCE ChainWalk WITH Families <- AllFamilies, MaxRows <- 2

(* The graph with and without tracking, an event that reads only the       *)
(* tracks, and one embedder wired to the wrong name.                       *)
Parts == INSTANCE PipelineGraph WITH
    Graphs <- {}, Frames <- {}, Threshold <- 2, MaxDetections <- 3, RowLimit <- 2,
    outcome <- resolved
Perms(n) == {p \in [1 .. n -> 1 .. n] : \A i, j \in 1 .. n : i # j => p[i] # p[j]}
Orders(stages) == {[i \in DOMAIN stages |-> stages[p[i]]] : p \in Perms(Len(stages))}
GraphOf(stages, fields) == [stages |-> stages, fields |-> fields]
PlainFields == {"embedding", "mask_area_px"}
MCGraphs ==
    {GraphOf(o, PlainFields) : o \in Orders(Parts!BuildPerceptionGraph(<<>>))}
    \cup {GraphOf(o, DOMAIN Parts!FieldMap) :
             o \in Orders(Parts!BuildPerceptionGraph(<<Parts!TrackStage(TRUE)>>))}
    \cup {GraphOf(Parts!BuildPerceptionGraph(<<Parts!TrackStage(FALSE)>>),
                  {"track_id", "track_state"}),
          GraphOf([Parts!BuildPerceptionGraph(<<>>) EXCEPT
                     ![4] = Parts!ObjectStage("ship_embedder", Parts!DETECTIONS,
                                              "ship_embedding")], PlainFields)}
Row(class, score) == [class |-> class, score |-> score]
MCFrames ==
    { <<>>, <<Row("ship", 2)>>, <<Row("buoy", 2), Row("ship", 1)>>,
      <<Row("person", 2), Row("ship", 2), Row("ship", 3)>>,
      <<Row("ship", 3), Row("ship", 3), Row("ship", 2), Row("person", 3)>> }
Graph == INSTANCE PipelineGraph WITH
    Graphs <- MCGraphs, Frames <- MCFrames, Threshold <- 2, MaxDetections <- 3, RowLimit <- 2,
    outcome <- resolved

(* Small graphs of ensembles, each with what a scheduler can get wrong:    *)
(* two writers of one name, a refinement in place, a branch, and graphs    *)
(* that start() has to refuse.                                             *)
Always == "none"    \* as in EnsembleModel
ReadOf(n) == [name |-> n, kind |-> "box", optional |-> FALSE]
WritesOf(ns) == [n \in ns |-> "box"]
StepOf(reads, condition, writes) ==
    [reads |-> [i \in DOMAIN reads |-> ReadOf(reads[i])], condition |-> condition,
     writes |-> WritesOf(writes)]
Dag(steps, outputs, callers, refusing) ==
    [inputs |-> WritesOf({"image"}), steps |-> steps, outputs |-> WritesOf(outputs),
     callers |-> callers, refusing |-> refusing, capacity |-> 1]
Detect == StepOf(<<"image">>, Always, {"boxes"})
\* Two writers of one name and a reader of it; the second may also be a
\* refinement.
Track == StepOf(<<"boxes">>, Always, {"ids"})
TwoWriters == Dag(<<Detect, StepOf(<<"image">>, Always, {"boxes"}), Track>>,
                  {"boxes", "ids"}, {"r1"}, FALSE)
InPlace == Dag(<<Detect, StepOf(<<"boxes">>, Always, {"boxes"}), Track>>, {"ids"}, {"r1"}, FALSE)
\* A branch that may not run, and a second one behind it.
Branch == Dag(<<Detect, StepOf(<<"boxes">>, "boxes", {"ids"}),
                StepOf(<<"boxes", "ids">>, "ids", {"names"}),
                StepOf(<<"image">>, Always, {"sky"})>>, {"names", "sky"}, {"r1"}, FALSE)
OneSlot == Dag(<<Detect, Track>>, {"ids"}, {"r1", "r2"}, TRUE)
Crowd == [OneSlot EXCEPT !.capacity = 2, !.refusing = FALSE]
\* Refused: a later step also writes what an earlier one reads; a missing
\* source; a branch read without a condition; a kind that does not fit; an
\* output nobody produces.
Late == Dag(<<Detect, Track, StepOf(<<"image">>, Always, {"boxes"})>>, {"ids"}, {"r1"}, FALSE)
Unfed == Dag(<<Track>>, {"ids"}, {"r1"}, FALSE)
Loose == Dag(<<Detect, StepOf(<<"boxes">>, "boxes", {"ids"}), StepOf(<<"ids">>, Always, {"names"})>>,
             {"names"}, {"r1"}, FALSE)
Unmade == Dag(<<Detect>>, {"ids"}, {"r1"}, FALSE)
Misfit == [Unmade EXCEPT !.steps = <<[Detect EXCEPT !.reads[1].kind = "mask"]>>,
                         !.outputs = WritesOf({"boxes"})]
MCDags == {TwoWriters, InPlace, Branch, OneSlot, Crowd, Late, Unfed, Loose, Unmade, Misfit}

Ensembled == INSTANCE EnsembleModel WITH
    Workers <- {e1, e2}, Requests <- {"r1", "r2"}, Graphs <- MCDags,
    worker <- doing, future <- answered,
    graph <- dag, running <- busySteps, started <- openedUp, free <- credit,
    live <- alive, exec <- execs
Tracker == INSTANCE TrackerShard WITH
    Workers <- {x1, x2}, MaxFrame <- 2, MaxStays <- 2, RegressionReset <- 2,
    table <- tracked, w <- walks

(* Gallery files: a good one, and ones that cannot be served.              *)
GFile(vectors, identities, cameras) ==
    [vectors |-> vectors, identities |-> identities, cameras |-> cameras]
GoodFile == GFile(<<"aurora">>, <<"IMO-1">>, << <<"east">> >>)
MCRepositories ==
    { <<>>, <<GFile(<<"aurora", "nan">>, <<"IMO-1", "IMO-2">>, <<>>)>>,
      <<GFile(<<"zero">>, <<"IMO-1">>, <<>>), GoodFile>>,
      <<GoodFile, GFile(<<"aurora">>, <<"">>, <<>>)>>,
      <<GFile(<<"aurora", "borealis">>, <<"IMO-1">>, <<>>), GFile(<<>>, <<>>, <<>>)>>,
      <<GFile(<<"aurora">>, <<"IMO-1">>, << <<>> >>)>> }
Gallery == INSTANCE GalleryRecognize WITH
    Walkers <- {x1, x2}, Cameras <- {"east", "west"}, Ships <- {"aurora", "borealis"},
    Repositories <- MCRepositories, Versions <- {<<>>, <<1>>, <<3>>}, EnrolCapacity <- 1,
    MaxRows <- 3, opened <- loaded

servingVars == <<policy, overflow, capacity, ready, input, place, left, future, answer, queue,
                   assigned, turn, entries, bytes, worker, free, held, peak, stats>>
chainVars == <<file, topo, pos, produced, got, outcome, events>>
graphVars == <<graph, frame, verdict, idx, todo, running, state, expected, resolved, seen,
                 snapshot>>
ensembleVars == <<dag, truthy, openedUp, credit, alive, pool, tasks, doing, caller, execs,
                  answered, flying, landing, busySteps, stopper>>
trackerVars == <<stay, streaming, next, lane, tracked, shards, dropped, hook, walks, refused>>
galleryVars == <<loaded, version, repository, curated, minted, at, rows, filed>>
otherVars == <<ensembleVars, trackerVars, galleryVars>>

ServerOff ==
    /\ settings = 0 /\ started = 0 /\ starting = 0 /\ tornDown = 0 /\ generation = 0
    /\ table = 0 /\ live = 0 /\ traces = 0 /\ last = 0 /\ sinks = 0 /\ mesh = 0 /\ rings = 0 /\ lost = 0
    /\ control = 0 /\ th = 0 /\ calls = 0 /\ measured = 0 /\ zeros = 0
ServingOff ==
    /\ policy = 0 /\ overflow = 0 /\ capacity = 0 /\ ready = 0 /\ input = 0 /\ place = 0
    /\ left = 0 /\ future = 0 /\ answer = 0 /\ queue = 0 /\ assigned = 0 /\ turn = 0
    /\ entries = 0 /\ bytes = 0 /\ worker = 0 /\ free = 0 /\ held = 0 /\ peak = 0 /\ stats = 0
ChainOff ==
    /\ file = 0 /\ topo = 0 /\ pos = 0 /\ produced = 0 /\ got = 0 /\ outcome = 0 /\ events = 0
GraphOff ==
    /\ graph = 0 /\ frame = 0 /\ verdict = 0 /\ idx = 0 /\ todo = 0 /\ running = 0 /\ state = 0
    /\ expected = 0 /\ resolved = 0 /\ seen = 0 /\ snapshot = 0
EnsembleOff ==
    /\ dag = 0 /\ truthy = 0 /\ openedUp = 0 /\ credit = 0 /\ alive = 0 /\ pool = 0 /\ tasks = 0
    /\ doing = 0 /\ caller = 0 /\ execs = 0 /\ answered = 0 /\ flying = 0 /\ landing = 0
    /\ busySteps = 0 /\ stopper = 0
TrackerOff ==
    /\ stay = 0 /\ streaming = 0 /\ next = 0 /\ lane = 0 /\ tracked = 0 /\ shards = 0
    /\ dropped = 0 /\ hook = 0 /\ walks = 0 /\ refused = 0
GalleryOff ==
    /\ loaded = 0 /\ version = 0 /\ repository = 0 /\ curated = 0 /\ minted = 0 /\ at = 0
    /\ rows = 0 /\ filed = 0
\* Whose variables are in use.
ServerUses(on) ==
    /\ on # "server" => ServerOff
    /\ on # "model" => ServingOff
    /\ on # "chain" => ChainOff
    /\ on # "graph" => GraphOff
    /\ on # "ensemble" => EnsembleOff
    /\ on # "tracker" => TrackerOff
    /\ on # "gallery" => GalleryOff

MCInit ==
    \/ part = "server" /\ Init /\ ServerUses("server")
    \/ part = "pair" /\ Pair!Init /\ ServerUses("server")
    \/ part = "model" /\ Serving!Init /\ ServerUses("model")
    \/ part = "chain" /\ Chained!Init /\ ServerUses("chain")
    \/ part = "graph" /\ Graph!Init /\ ServerUses("graph")
    \/ part = "ensemble" /\ Ensembled!Init /\ ServerUses("ensemble")
    \/ part = "tracker" /\ Tracker!Init /\ ServerUses("tracker")
    \/ part = "gallery" /\ Gallery!GalleryInit /\ ServerUses("gallery")

MCNext ==
    /\ UNCHANGED part
    /\ \/ part = "server" /\ Next /\ UNCHANGED <<servingVars, chainVars, graphVars, otherVars>>
       \/ part = "pair" /\ Pair!Next /\ UNCHANGED <<servingVars, chainVars, graphVars, otherVars>>
       \/ part = "model" /\ Serving!Next /\ UNCHANGED <<vars, chainVars, graphVars, otherVars>>
       \/ part = "chain" /\ Chained!Next /\ UNCHANGED <<vars, servingVars, graphVars, otherVars>>
       \/ part = "graph" /\ Graph!Next /\ UNCHANGED <<vars, servingVars, chainVars, otherVars>>
       \/ /\ part = "ensemble" /\ Ensembled!Next
          /\ UNCHANGED <<vars, servingVars, chainVars, graphVars, trackerVars, galleryVars>>
       \/ /\ part = "tracker" /\ Tracker!Next
          /\ UNCHANGED <<vars, servingVars, chainVars, graphVars, ensembleVars, galleryVars>>
       \/ /\ part = "gallery" /\ Gallery!GalleryNext
          /\ UNCHANGED <<vars, servingVars, chainVars, graphVars, ensembleVars, trackerVars>>
       \/ /\ part \notin {"server", "pair"}
          /\ UNCHANGED <<vars, servingVars, chainVars, graphVars, otherVars>>

\* Only the server must never stop short: the others end with their input.
MCSpec ==
    /\ MCInit
    /\ [][MCNext]_<<part, vars, servingVars, chainVars, graphVars, otherVars>>

-----------------------------------------------------------------------------
\* See InferenceServer: no model runs that nobody can stop, what composes others
\* has them, and no teardown is overtaken by a later run.
ModelsInReach ==
    /\ part = "server" => ModelsReachable /\ EnsembleBacked /\ NeverOvertaken
    /\ part = "pair" => Pair!ModelsReachable /\ Pair!EnsembleBacked /\ Pair!NeverOvertaken

\* See InferenceServer: up means serving this run, down means that nothing is held
\* but the rings of a create() that raised, and a scrape never answers zero for runs
\* that recorded.
UpOrDown ==
    /\ part = "server" => UpMeansServing /\ DownMeansReleased /\ NoZeroScrape
    /\ part = "pair" => Pair!UpMeansServing /\ Pair!DownMeansReleased /\ Pair!NoZeroScrape

\* See ModelServing: an answer is its request's own, from the cache too, and what
\* is counted is so.
AnswersAreTheirOwn ==
    part = "model" =>
        /\ Serving!AnswersAreTheirOwn /\ Serving!CacheBooksBalance
        /\ Serving!PeakWithinLimit /\ Serving!EveryRequestCountedOnce

\* See ChainWalk and PipelineGraph: what the loader accepts runs in an order that
\* feeds every slot what it takes, and a record keeps what is its own row's.
RowsKeepTheirOwn ==
    /\ part = "chain" =>
          /\ Chained!OrderIsTopological /\ Chained!NeverMistyped /\ Chained!RowsKeepTheirOwn
          /\ Chained!NoRowLost /\ Chained!NoRowContested
    /\ part = "graph" =>
          /\ Graph!RecordsAreTheirOwn /\ Graph!AnnouncedStagesRun
          /\ Graph!FreedBehindTheLastReader /\ Graph!ValidatedStagesAreFed

\* See EnsembleModel: the order in which steps land does not show, the capacity
\* a request took comes back, and when nothing can move nobody waits.
SameAsInOrder ==
    part = "ensemble" =>
        Ensembled!SameAsInOrder /\ Ensembled!SlotsBalance /\ Ensembled!NoCallerLeftWaiting

\* See TrackerShard and GalleryRecognize: a tracker is fed in order and follows its
\* camera's stays; a gallery answers with another camera's view, and keeps its own.
ElementsKeepTheirState ==
    /\ part = "tracker" =>
          Tracker!FedInOrder /\ Tracker!FirstStayUnbroken /\ Tracker!MarkIsThisStays
    /\ part = "gallery" =>
          /\ Gallery!NeverMatchedWithItself /\ Gallery!KnownIsNotMinted
          /\ Gallery!CuratedStaysWhole
=============================================================================
