------------------------------ MODULE ShardPlan ------------------------------
(***************************************************************************)
(* plan_shards (scheduling/sharding.py): GPUs dealt to shards, then the    *)
(* cameras, heaviest first, each to the shard that is least loaded for the *)
(* share of hardware it owns.  A pure algorithm: its inputs are chosen in  *)
(* Init, the loop over the cameras is one step per camera.                 *)
(*                                                                         *)
(* Shards are 0 .. n - 1, GPUs 0 .. g - 1 in the order given; a camera's   *)
(* offered fps is a small number.  weights[i] / capacity[i] is compared    *)
(* exactly, by cross-multiplication, where the code divides floats.        *)
(***************************************************************************)
EXTENDS Naturals, FiniteSetsExt, SequencesExt

CONSTANTS CameraNames, Fps, MaxShards, MaxGpus

VARIABLES
    shards, gpus,    \* arguments: numbers of shards and of gpus
    load,            \* argument: [names -> offered fps]
    buckets,         \* [shard -> set of cameras]
    weights,         \* [shard -> their offered fps]
    todo             \* cameras not yet placed

vars == <<shards, gpus, load, buckets, weights, todo>>

Shards == 0 .. shards - 1
Gpus == 0 .. gpus - 1

\* The two refusals over the number of shards and the empty GPU list are the
\* domain of the arguments; a shard without a camera is refused too.
Init ==
    /\ shards \in 1 .. MaxShards
    /\ gpus \in 1 .. MaxGpus
    /\ load \in UNION {[names -> Fps] : names \in SUBSET CameraNames}
    /\ DOMAIN load # {} => shards <= Cardinality(DOMAIN load)
    /\ buckets = [i \in Shards |-> {}]
    /\ weights = [i \in Shards |-> 0]
    /\ todo = DOMAIN load

Least(a, b) == IF a < b THEN a ELSE b

\* Enough shards: whole GPUs round-robin.  Fewer: contiguous runs of GPUs, the
\* first ones a GPU longer.
Assigned(i) ==
    IF shards >= gpus THEN {i % gpus}
    ELSE LET per == gpus \div shards
             extra == gpus % shards
             start == i * per + Least(i, extra)
             width == per + (IF i < extra THEN 1 ELSE 0)
         IN  start .. start + width - 1

Owners(g) == {i \in Shards : g \in Assigned(i)}
Sharing(g) == Cardinality(Owners(g))

\* capacity[i] = sum of 1 / sharing over its GPUs, as <<numerator, denominator>>:
\* a shard has several GPUs only when none is shared.
CapacityOf(i) ==
    IF shards >= gpus THEN <<1, Sharing(i % gpus)>> ELSE <<Cardinality(Assigned(i)), 1>>

\* w1 / capacity[i] <= w2 / capacity[j]
NotFuller(w1, i, w2, j) ==
    w1 * CapacityOf(i)[2] * CapacityOf(j)[1] <= w2 * CapacityOf(j)[2] * CapacityOf(i)[1]

Target == Min({i \in Shards : \A j \in Shards : NotFuller(weights[i], i, weights[j], j)})

\* The next camera of sorted(load, key = (-fps, name)); names are numbers here.
Heaviest == {c \in todo : \A d \in todo : load[d] < load[c] \/ (load[d] = load[c] /\ c <= d)}

Place ==
    \E c \in Heaviest :
       /\ buckets' = [buckets EXCEPT ![Target] = @ \cup {c}]
       /\ weights' = [weights EXCEPT ![Target] = @ + load[c]]
       /\ todo' = todo \ {c}
       /\ UNCHANGED <<shards, gpus, load>>

Next == Place

Spec == Init /\ [][Next]_vars

-----------------------------------------------------------------------------
\* rank_for: a shard's position among those that share a GPU with it.
RankFor(i, g) == Cardinality({j \in Owners(g) : j < i})

\* Every GPU works, no two GPUs differ by more than one shard, a shard that has
\* several shares none of them, and the shards on one GPU have its ranks
\* 0 .. sharing - 1 between them.
GpusDealtFairly ==
    /\ \A g \in Gpus : Owners(g) # {}
    /\ \A g, h \in Gpus : Sharing(g) <= Sharing(h) + 1
    /\ \A i \in Shards : /\ Assigned(i) # {} /\ Assigned(i) \subseteq Gpus
                         /\ Cardinality(Assigned(i)) > 1 => \A g \in Assigned(i) : Sharing(g) = 1
    /\ \A g \in Gpus : {RankFor(i, g) : i \in Owners(g)} = 0 .. Sharing(g) - 1

\* No shard is overloaded for its hardware: without the lightest of its own
\* cameras it is no fuller, per share of a GPU, than any other shard, at every
\* point of the greedy loop and so in the plan it returns.
NoShardOverloaded ==
    \A i, j \in Shards :
        buckets[i] # {} =>
            NotFuller(weights[i] - Min({load[c] : c \in buckets[i]}), i, weights[j], j)
=============================================================================
