------------------------------- MODULE MCRunners -------------------------------
(***************************************************************************)
(* The runners; part says which of these independent instances a behaviour *)
(* is.                                                                     *)
(*   "runner"  the in-process runner: one worker, one camera, two start    *)
(*             cycles.  The product of every camera operation with every   *)
(*             batch is out of reach, so a behaviour has a quota: with     *)
(*             cameras placed at will (one abandoned camera thread at a    *)
(*             time), two items in one cycle or one item in two; without,  *)
(*             three items (a batch and an eviction) in one cycle.         *)
(*   "fleet"   the fleet runner: two shards, two cameras that form one     *)
(*             group or none, and an allowance of placements, removals,    *)
(*             drains and failures                                         *)
(*   "plan"    plan_shards over up to four cameras, four shards and five   *)
(*             GPUs                                                        *)
(***************************************************************************)
EXTENDS InprocessRunner

CONSTANTS c1, c2, w1, Nowhere

Symmetry == Permutations({c1, c2})
MCCameras == {c1}
MCWorkers == {w1}
MCItems == 1..3
MCElements == 1..1
MCConfigured == [c \in Cameras |-> "normal"]
MCRequested == {None, "critical"}
MCRaises == {"backpressure"}

VARIABLES part, quota, allowance,
          up, groupOf, clients, mapped, pending, abandoned, task, calls, shard, made, seen,
          shards, gpus, load, buckets, weights, todo

Fleet == INSTANCE ShardFleet WITH
    Cameras <- {c1, c2}, Shards <- 0 .. 1, Groups <- {"g"}, None <- Nowhere, MaxAdds <- 3,
    MaxRemoves <- 1, MaxFailures <- 1, placed <- mapped
Plan == INSTANCE ShardPlan WITH
    CameraNames <- 1 .. 4, Fps <- {1, 2, 5}, MaxShards <- 4, MaxGpus <- 5

Quotas == {[items |-> 2, cameras |-> TRUE, cycles |-> 1],
           [items |-> 1, cameras |-> TRUE, cycles |-> 2],
           [items |-> 3, cameras |-> FALSE, cycles |-> 1]}
Allow(a, r, d, f) == [adds |-> a, removes |-> r, drains |-> d, failures |-> f]
Allowances ==
    {Allow(3, 1, 0, 0), Allow(2, 0, 1, 0), Allow(2, 0, 0, 1), Allow(1, 1, 0, 1), Allow(1, 0, 1, 1)}

RunnerInit ==
    /\ Init
    /\ quota \in Quotas
    /\ queue.injected => ~quota.cameras
RunnerNext ==
    /\ Next
    /\ Cardinality({i \in Items : item'[i].where # "new"}) <= quota.items
    /\ cycle' <= quota.cycles
    /\ op'.name = "adding" => quota.cameras /\ stale = {}
    /\ UNCHANGED quota

FleetInit == Fleet!Init /\ allowance \in Allowances
FleetNext ==
    /\ Fleet!Next
    /\ \A b \in DOMAIN allowance : made'[b] <= allowance[b]
    /\ UNCHANGED allowance

fleetVars == <<up, groupOf, clients, mapped, pending, abandoned, task, calls, shard, made,
                 seen, allowance>>
planVars == <<shards, gpus, load, buckets, weights, todo>>

RunnerOff ==
    /\ running = 0 /\ op = 0 /\ cycle = 0 /\ queue = 0 /\ stopping = 0 /\ inflight = 0
    /\ slots = 0 /\ threads = 0 /\ worker = 0 /\ opened = 0 /\ actor = 0 /\ stale = 0
    /\ placed = 0 /\ known = 0 /\ item = 0 /\ future = 0 /\ counted = 0 /\ gaveUp = 0
    /\ unpublished = 0 /\ quota = 0
FleetOff ==
    /\ up = 0 /\ groupOf = 0 /\ clients = 0 /\ mapped = 0 /\ pending = 0 /\ abandoned = 0
    /\ task = 0 /\ calls = 0 /\ shard = 0 /\ made = 0 /\ seen = 0 /\ allowance = 0
PlanOff ==
    /\ shards = 0 /\ gpus = 0 /\ load = 0 /\ buckets = 0 /\ weights = 0 /\ todo = 0

MCInit ==
    \/ part = "runner" /\ RunnerInit /\ FleetOff /\ PlanOff
    \/ part = "fleet" /\ FleetInit /\ RunnerOff /\ PlanOff
    \/ part = "plan" /\ Plan!Init /\ RunnerOff /\ FleetOff

MCNext ==
    /\ UNCHANGED part
    /\ \/ part = "runner" /\ RunnerNext /\ UNCHANGED <<fleetVars, planVars>>
       \/ part = "fleet" /\ FleetNext /\ UNCHANGED <<vars, quota, planVars>>
       \/ part = "plan" /\ Plan!Next /\ UNCHANGED <<vars, quota, fleetVars>>

MCSpec == MCInit /\ [][MCNext]_<<part, vars, quota, fleetVars, planVars>>

-----------------------------------------------------------------------------
\* See InprocessRunner: a stop leaves no accepted item unanswered, and what is in
\* flight or done is counted once, in its own start cycle, in front of an open chain.
StopLeavesNothingOpen ==
    part = "runner" =>
        AnsweredAfterStop /\ LedgerBalances /\ CyclesApart /\ ChainOpenForWalks

\* See InprocessRunner: a camera's band and what the elements know of it follow
\* its placement, and neither outlives it or a refusal.
CamerasFollowPlacement ==
    part = "runner" => BandsFollowPlacements /\ NoBandLeftBehind /\ ElementsKnowCameras

\* See ShardFleet: the launcher's map is what the shards do, whatever calls overlap
\* or go unanswered; and ShardPlan: the plan gives no shard more than it can take.
MapIsAuthoritative ==
    /\ part = "fleet" => /\ Fleet!MapIsAuthoritative /\ Fleet!ReleasedMeansEmpty
                         /\ Fleet!DetachedAreCounted /\ Fleet!FillsEvenly
    /\ part = "plan" => Plan!GpusDealtFairly /\ Plan!NoShardOverloaded
=============================================================================
