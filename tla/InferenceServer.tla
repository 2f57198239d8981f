-------------------------- MODULE InferenceServer --------------------------
(***************************************************************************)
(* The lifecycle of InferenceServer (engine/pool.py): start(), stop(),     *)
(* load_model(), unload_model() and the trace scrape, called by any thread *)
(* at any time.  A start claims a generation and loads its models without  *)
(* a lock; a stop may take the server from it, and another start may claim *)
(* it while the loser is still loading.                                    *)
(*                                                                         *)
(* A transition under the lifecycle lock is one step; the control lock is  *)
(* held across steps.  Waits with a timeout may end at any time.           *)
(***************************************************************************)
EXTENDS Integers, FiniteSets, SequencesExt

CONSTANTS
    Threads,    \* callers
    Startup,    \* the names to load, plain models first, as a sequence
    Ensemble,   \* the names among them that compose all the others
    Deployments,\* the settings tried: [strict |-> strict_startup, tier |-> a shard of a tier]
    Rings,      \* how many rings a shard creates
    Calls,      \* which of "start", "stop", "load", "unload", "scrape" are made
    Faults,     \* what may fail: "sink", "load", "connect"
    MaxCalls,   \* bound: calls made
    None

ASSUME ServerAssumption ==
    /\ Ensemble \subseteq Range(Startup) /\ Deployments \subseteq [strict : BOOLEAN, tier : BOOLEAN]
    /\ Rings \in Nat /\ MaxCalls \in Nat /\ None \notin Threads

VARIABLES
    settings,   \* the deployment, fixed
    started, starting, tornDown,
    generation, \* runs claimed so far: the number of the latest
    table,      \* _models: started models, in insertion order
    live,       \* models whose worker threads and contexts exist
    traces,     \* _traces: the run whose sink is installed, 0 for the null sink
    last,       \* _last_trace_stats: the run they are of, 0 for None
    sinks,      \* runs whose trace sink is open
    mesh,       \* _mesh: the run whose mesh is installed, or 0
    rings,      \* [1 .. Rings -> the run that created the segment, or 0]
    lost,       \* runs whose create() raised part-way: history
    control,    \* who holds _control_lock
    th,         \* [Threads -> the call it is in]
    calls,      \* calls made
    measured,   \* a run has been up with its sink: history
    zeros       \* a scrape answered the null sink's zeros after that: history

flags == <<started, starting, tornDown, generation>>
trace == <<traces, last, sinks>>
tier == <<settings, mesh, rings, lost>>
history == <<calls, measured, zeros>>
vars == <<flags, table, live, trace, tier, control, th, history>>

Idle == [pc |-> "idle"]

Init ==
    /\ settings \in Deployments
    /\ started = FALSE /\ starting = FALSE /\ tornDown = TRUE /\ generation = 0
    /\ table = <<>> /\ live = {}
    /\ traces = 0 /\ last = 0 /\ sinks = {}
    /\ mesh = 0 /\ rings = [r \in 1 .. Rings |-> 0] /\ lost = {}
    /\ control = None /\ th = [t \in Threads |-> Idle]
    /\ calls = 0 /\ measured = FALSE /\ zeros = FALSE

-----------------------------------------------------------------------------
(* A call's place, and what it holds: [pc, run, at, mine, sink, mesh, todo,*)
(* after].  `mine' is a start's ledger, `todo' what is left to be stopped. *)

At(t, pc) == th[t].pc = pc
Goto(t, pc) == th' = [th EXCEPT ![t].pc = pc]
Return(t) == th' = [th EXCEPT ![t] = Idle]

Loaded(name) == {n \in DOMAIN table : table[n].name = name}

\* What the models of a start poll (_start_abort), and those of a load (_stop_abort).
Aborted(t) == (th[t].by = "run" /\ generation # th[t].run) \/ ~(started \/ starting)

Model(t) == [by |-> th[t].by, run |-> th[t].run, no |-> th[t].no,
             name |-> IF th[t].by = "run" THEN Startup[th[t].at] ELSE th[t].name]

NewCall(t, kind) ==
    /\ th[t] = Idle /\ kind \in Calls
    /\ calls < MaxCalls /\ calls' = calls + 1

-----------------------------------------------------------------------------
(* start().                                                                *)

\* A server that is up returns at once.
CallStart(t) ==
    /\ NewCall(t, "start") /\ ~started
    /\ th' = [th EXCEPT ![t] = [pc |-> "begin", by |-> "run", run |-> 0, no |-> 0, at |-> 1,
                                mine |-> <<>>, sink |-> FALSE, mesh |-> FALSE,
                                todo |-> <<>>, left |-> 0, swapped |-> 0, after |-> "abandon",
                                waited |-> FALSE]]
    /\ UNCHANGED <<flags, table, live, trace, tier, control, measured, zeros>>

\* _begin_start(): the claim.
Claim(t) ==
    /\ At(t, "begin") /\ ~started /\ ~starting /\ tornDown
    /\ generation' = generation + 1 /\ starting' = TRUE /\ tornDown' = FALSE
    /\ th' = [th EXCEPT ![t].pc = "sink", ![t].run = generation']
    /\ UNCHANGED <<started, table, live, trace, tier, control, history>>

\* Somebody else has started it, is starting it, or is still tearing it down
\* after this call has waited for the barrier.
ClaimRefused(t) ==
    /\ At(t, "begin")
    /\ started \/ starting \/ (~tornDown /\ th[t].waited)
    /\ Return(t)
    /\ UNCHANGED <<flags, table, live, trace, tier, control, history>>

\* The barrier was set, or the grace period passed.
ClaimWaits(t) ==
    /\ At(t, "begin") /\ ~started /\ ~starting /\ ~tornDown /\ ~th[t].waited
    /\ th' = [th EXCEPT ![t].waited = TRUE]
    /\ UNCHANGED <<flags, table, live, trace, tier, control, history>>

\* The sink is built, not installed; then the repository is scanned.
BuildSink(t) ==
    /\ At(t, "sink")
    /\ \/ /\ sinks' = sinks \cup {th[t].run}
          /\ th' = [th EXCEPT ![t].sink = TRUE, ![t].pc = "load"]
       \/ "sink" \in Faults /\ UNCHANGED sinks /\ Goto(t, "unwind")
    /\ UNCHANGED <<flags, table, live, traces, last, tier, control, history>>

Resolves(t) == Model(t).name \in Ensemble =>
                   \A n \in Range(Startup) \ Ensemble : Loaded(n) # {}

NextName(t) == th' = [th EXCEPT ![t].at = @ + 1, ![t].pc = "load"]

\* _load() gives up: strict, or this run has lost the server.
GivesUp(t) == settings.strict \/ Aborted(t)

\* The first instance comes up unless the abort is seen; an ensemble walks its
\* DAG over the table and polls nothing.
LoadBegins(t) ==
    /\ At(t, "load") /\ th[t].at <= Len(Startup)
    /\ IF Model(t).name \in Ensemble
       THEN IF Resolves(t) THEN live' = live \cup {Model(t)} /\ Goto(t, "publish")
            ELSE UNCHANGED live /\ IF GivesUp(t) THEN Goto(t, "unwind") ELSE NextName(t)
       ELSE IF Aborted(t) THEN UNCHANGED live /\ Goto(t, "unwind")
            ELSE live' = live \cup {Model(t)} /\ Goto(t, "coming")
    /\ UNCHANGED <<flags, table, trace, tier, control, history>>

ComesUp(t) ==
    /\ At(t, "coming") /\ Goto(t, "publish")
    /\ UNCHANGED <<flags, table, live, trace, tier, control, history>>

\* An instance fails, or the abort is polled: the model is stopped first.
LoadFails(t) ==
    /\ At(t, "coming")
    /\ "load" \in Faults \/ Aborted(t)
    /\ live' = live \ {Model(t)}
    /\ IF th[t].by = "load" THEN control' = None /\ Return(t)
       ELSE UNCHANGED control /\ IF GivesUp(t) THEN Goto(t, "unwind") ELSE NextName(t)
    /\ UNCHANGED <<flags, table, trace, tier, history>>

Put(m) ==
    IF Loaded(m.name) = {} THEN Append(table, m)
    ELSE [n \in DOMAIN table |-> IF n \in Loaded(m.name) THEN m ELSE table[n]]

\* Fault: the table is written whoever owns the server.
MayPublishAlways(t) == TRUE

MayPublish(t) == generation = th[t].run

\* The gate and the write are one transition; a refused model stays in the ledger.
Publish(t) ==
    /\ At(t, "publish")
    /\ table' = IF MayPublish(t) THEN Put(Model(t)) ELSE table
    /\ IF th[t].by = "load" THEN control' = None /\ Return(t)
       ELSE /\ UNCHANGED control
            /\ th' = [th EXCEPT ![t].at = @ + 1, ![t].pc = "load",
                                ![t].mine = Append(@, Model(t))]
    /\ UNCHANGED <<flags, live, trace, tier, history>>

\* _join_service_tier(): nothing to share, no tier.
JoinTier(t) ==
    /\ At(t, "load") /\ th[t].at > Len(Startup)
    /\ LET shared == {n \in Range(Startup) \ Ensemble : Loaded(n) # {}} IN
       Goto(t, IF settings.tier /\ shared # {} THEN "create" ELSE "finish")
    /\ UNCHANGED <<flags, table, live, trace, tier, control, history>>

Created(t) == {r \in 1 .. Rings : rings[r] = th[t].run}

\* ServiceMesh.create(), a segment at a time; a name that exists raises, and
\* what was created so far stays.
CreateRing(t) ==
    /\ At(t, "create")
    /\ LET r == Cardinality(Created(t)) + 1 IN
       IF r > Rings THEN UNCHANGED <<rings, lost>> /\ Goto(t, "connect")
       ELSE IF rings[r] # 0
       THEN lost' = lost \cup {th[t].run} /\ UNCHANGED rings /\ Goto(t, "unwind")
       ELSE rings' = [rings EXCEPT ![r] = th[t].run] /\ UNCHANGED <<lost, th>>
    /\ UNCHANGED <<settings, flags, table, live, trace, mesh, control, history>>

\* connect(): a failure stops the mesh before it is raised.
Connect(t) ==
    /\ At(t, "connect")
    /\ \/ th' = [th EXCEPT ![t].pc = "finish", ![t].mesh = TRUE]
       \/ "connect" \in Faults /\ th' = [th EXCEPT ![t].pc = "closing", ![t].after = "unwind"]
    /\ UNCHANGED <<flags, table, live, trace, tier, control, history>>

\* ServiceMesh.stop(): the owned segments go in the order they were created.
CloseRing(t) ==
    /\ At(t, "closing")
    /\ IF Created(t) = {} THEN UNCHANGED rings /\ Goto(t, th[t].after)
       ELSE /\ rings' = [rings EXCEPT ![Min(Created(t))] = 0]
            /\ UNCHANGED th
    /\ UNCHANGED <<settings, flags, table, live, trace, mesh, lost, control, history>>

\* Fault: a start that comes to its end is up.
KeepsClaimAnyway(t) == TRUE

KeepsClaim(t) == generation = th[t].run /\ starting

\* _finish_start(): flags, sink and mesh are published together, or not at all.
Finish(t) ==
    /\ At(t, "finish")
    /\ IF KeepsClaim(t)
       THEN /\ started' = TRUE /\ starting' = FALSE
            /\ traces' = th[t].run /\ last' = 0 /\ measured' = TRUE
            /\ mesh' = IF th[t].mesh THEN th[t].run ELSE 0
            /\ Return(t)
       ELSE /\ UNCHANGED <<started, starting, traces, last, measured, mesh>>
            /\ Goto(t, "abandon")
    /\ UNCHANGED <<settings, tornDown, generation, table, live, sinks, rings, lost, control,
                   calls, zeros>>

-----------------------------------------------------------------------------
(* _stop_run(): stop(), and the failure path of a start.                   *)

\* The flags are read and cleared in one transition.
ClearFlags(t, after) ==
    IF started \/ starting
    THEN /\ started' = FALSE /\ starting' = FALSE
         /\ th' = [th EXCEPT ![t] = [@ EXCEPT !.pc = "teardown", !.run = generation,
                                              !.after = after]]
    ELSE /\ UNCHANGED <<started, starting>>
         /\ th' = [th EXCEPT ![t] = [@ EXCEPT !.pc = "await", !.after = after]]

CallStop(t) ==
    /\ NewCall(t, "stop")
    /\ IF started \/ starting
       THEN /\ started' = FALSE /\ starting' = FALSE
            /\ th' = [th EXCEPT ![t] = [pc |-> "teardown", run |-> generation, after |-> "idle",
                                        left |-> 0, swapped |-> 0, todo |-> <<>>]]
       ELSE /\ UNCHANGED <<started, starting>>
            /\ th' = [th EXCEPT ![t] = [pc |-> "await", after |-> "idle"]]
    /\ UNCHANGED <<tornDown, generation, table, live, trace, tier, control, measured, zeros>>

OwnsServer(t) == generation = th[t].run

Unwind(t) ==
    /\ At(t, "unwind")
    /\ IF ~OwnsServer(t) THEN Goto(t, "abandon") /\ UNCHANGED <<started, starting>>
       ELSE ClearFlags(t, "abandon")
    /\ UNCHANGED <<tornDown, generation, table, live, trace, tier, control, history>>

Leaves(t) == IF th[t].after = "idle" THEN Return(t) ELSE Goto(t, th[t].after)

\* _await_teardown(): the barrier, or the grace period.
AwaitEnds(t) ==
    /\ At(t, "await") /\ Leaves(t)
    /\ UNCHANGED <<flags, table, live, trace, tier, control, history>>

\* _teardown(), under the control lock.  Nobody can claim the server before the
\* barrier is set, so the staleness checks of _release() never fire: see NeverOvertaken.
Teardown(t) ==
    /\ At(t, "teardown") /\ control = None
    /\ control' = t
    /\ Goto(t, "leave")
    /\ UNCHANGED <<flags, table, live, trace, tier, history>>

\* _leave_service_tier(), first: the field is cleared, then the rings go.
LeaveTier(t) ==
    /\ At(t, "leave")
    /\ mesh' = 0
    /\ th' = [th EXCEPT ![t].left = mesh, ![t].pc = "leaving"]
    /\ UNCHANGED <<settings, rings, lost, flags, table, live, trace, control, history>>

LeaveRing(t) ==
    /\ At(t, "leaving")
    /\ LET owned == {r \in 1 .. Rings : th[t].left # 0 /\ rings[r] = th[t].left} IN
       IF owned = {} THEN UNCHANGED rings /\ Goto(t, "drain")
       ELSE rings' = [rings EXCEPT ![Min(owned)] = 0] /\ UNCHANGED th
    /\ UNCHANGED <<settings, mesh, lost, flags, table, live, trace, control, history>>

\* _drain_models(): the table is emptied under its lock, then they are stopped.
Drain(t) ==
    /\ At(t, "drain")
    /\ table' = <<>>
    /\ th' = [th EXCEPT ![t].todo = table, ![t].pc = "stopping"]
    /\ UNCHANGED <<flags, live, trace, tier, control, history>>

\* Dependents before dependencies.
NextToStop(todo) == todo[Len(todo)]

StopModel(t) ==
    /\ At(t, "stopping") \/ At(t, "releasing")
    /\ th[t].todo # <<>>
    /\ live' = live \ {NextToStop(th[t].todo)}
    /\ th' = [th EXCEPT ![t].todo = Remove(@, NextToStop(@))]
    /\ UNCHANGED <<flags, table, trace, tier, control, history>>

\* The totals and the null sink are published together.
SwapSink(t) ==
    /\ At(t, "stopping") /\ th[t].todo = <<>>
    /\ last' = IF traces # 0 THEN traces ELSE last
    /\ traces' = 0
    /\ th' = [th EXCEPT ![t].pc = "close", ![t].swapped = traces]
    /\ UNCHANGED <<flags, table, live, sinks, tier, control, history>>

\* The sink closes after the swap; then the barrier is set and the lock dropped.
TornDown(t) ==
    /\ At(t, "close")
    /\ sinks' = sinks \ {th[t].swapped}
    /\ tornDown' = TRUE /\ control' = None
    /\ Leaves(t)
    /\ UNCHANGED <<started, starting, generation, table, live, traces, last, tier, history>>

-----------------------------------------------------------------------------
(* _abandon_start(): what this start built, and nothing else.              *)

NotMine(t) == LET other(m) == m \notin Range(th[t].mine) IN SelectSeq(table, other)

Abandon(t) ==
    /\ At(t, "abandon") /\ control = None
    /\ control' = t
    /\ table' = NotMine(t)
    /\ th' = [th EXCEPT ![t].todo = th[t].mine, ![t].pc = "releasing"]
    /\ UNCHANGED <<flags, live, trace, tier, history>>

\* The mesh and the sink are closed after the lock is dropped.
Abandoned(t) ==
    /\ At(t, "releasing") /\ th[t].todo = <<>>
    /\ control' = None
    /\ th' = [th EXCEPT ![t].pc = IF th[t].mesh THEN "closing" ELSE "closeSink",
                        ![t].after = "closeSink"]
    /\ UNCHANGED <<flags, table, live, trace, tier, history>>

CloseSink(t) ==
    /\ At(t, "closeSink")
    /\ sinks' = IF th[t].sink THEN sinks \ {th[t].run} ELSE sinks
    /\ Return(t)
    /\ UNCHANGED <<flags, table, live, traces, last, tier, control, history>>

-----------------------------------------------------------------------------
(* load_model() and unload_model(), under the control lock.                *)

CallLoad(t, name) ==
    /\ NewCall(t, "load") /\ started
    /\ th' = [th EXCEPT ![t] = [pc |-> "lockLoad", by |-> "load", run |-> 0, no |-> calls',
                                name |-> name]]
    /\ UNCHANGED <<flags, table, live, trace, tier, control, measured, zeros>>

\* Checked again under the lock: a stop may have gone by.
StillUp(t) == started

LockLoad(t) ==
    /\ At(t, "lockLoad") /\ control = None
    /\ LET m == [by |-> "load", run |-> generation, no |-> th[t].no, name |-> th[t].name] IN
       IF ~StillUp(t) \/ Loaded(m.name) # {}
       THEN Return(t) /\ UNCHANGED <<control, live>>
       ELSE IF m.name \in Ensemble /\ \E n \in Range(Startup) \ Ensemble : Loaded(n) = {}
       THEN Return(t) /\ UNCHANGED <<control, live>>
       ELSE /\ control' = t /\ live' = live \cup {m}
            /\ th' = [th EXCEPT ![t].run = generation,
                                ![t].pc = IF m.name \in Ensemble THEN "publish" ELSE "coming"]
    /\ UNCHANGED <<flags, table, trace, tier, history>>

CallUnload(t, name) ==
    /\ NewCall(t, "unload") /\ started
    /\ th' = [th EXCEPT ![t] = [pc |-> "lockUnload", name |-> name, todo |-> {}]]
    /\ UNCHANGED <<flags, table, live, trace, tier, control, measured, zeros>>

\* _ensembles_depending_on().
Dependents(name) == IF name \in Ensemble THEN {} ELSE UNION {Loaded(e) : e \in Ensemble}

LockUnload(t) ==
    /\ At(t, "lockUnload") /\ control = None
    /\ IF ~StillUp(t) \/ Loaded(th[t].name) = {} \/ Dependents(th[t].name) # {}
       THEN Return(t) /\ UNCHANGED <<control, table>>
       ELSE LET others(m) == m.name # th[t].name IN
            /\ control' = t
            /\ table' = SelectSeq(table, others)
            /\ th' = [th EXCEPT ![t].pc = "unload",
                                ![t].todo = {table[n] : n \in Loaded(th[t].name)}]
    /\ UNCHANGED <<flags, live, trace, tier, history>>

Unload(t) ==
    /\ At(t, "unload")
    /\ live' = live \ th[t].todo
    /\ control' = None
    /\ Return(t)
    /\ UNCHANGED <<flags, table, trace, tier, history>>

-----------------------------------------------------------------------------
(* _trace_stats(): the pair is read together, the sink is asked outside.   *)

CallScrape(t) ==
    /\ NewCall(t, "scrape")
    /\ th' = [th EXCEPT ![t] = [pc |-> "scrape", last |-> last, sink |-> traces,
                                expects |-> measured]]
    /\ UNCHANGED <<flags, table, live, trace, tier, control, measured, zeros>>

\* A closed snapshot proves that the totals are published: they are read again.
Scrape(t) ==
    /\ At(t, "scrape")
    /\ LET closed == th[t].sink # 0 /\ th[t].sink \notin sinks
           totals == IF th[t].last = 0 /\ closed THEN last ELSE th[t].last
       IN  zeros' = (zeros \/ (th[t].expects /\ totals = 0 /\ th[t].sink = 0))
    /\ Return(t)
    /\ UNCHANGED <<flags, table, live, trace, tier, control, calls, measured>>

-----------------------------------------------------------------------------
Starts(t) ==
    \/ Claim(t) \/ ClaimRefused(t) \/ ClaimWaits(t) \/ BuildSink(t)
    \/ LoadBegins(t) \/ ComesUp(t) \/ LoadFails(t) \/ Publish(t)
    \/ JoinTier(t) \/ CreateRing(t) \/ Connect(t) \/ CloseRing(t) \/ Finish(t)

Stops(t) ==
    \/ Unwind(t) \/ AwaitEnds(t) \/ Teardown(t) \/ LeaveTier(t) \/ LeaveRing(t)
    \/ Drain(t) \/ StopModel(t)
    \/ SwapSink(t) \/ TornDown(t) \/ Abandon(t) \/ Abandoned(t) \/ CloseSink(t)

Controls(t) == LockLoad(t) \/ LockUnload(t) \/ Unload(t) \/ Scrape(t)

Step(t) == Starts(t) \/ Stops(t) \/ Controls(t)

Call(t) ==
    \/ CallStart(t) \/ CallStop(t) \/ CallScrape(t)
    \/ \E name \in Range(Startup) : CallLoad(t, name) \/ CallUnload(t, name)

Busy == {t \in Threads : th[t] # Idle}

\* Every call has returned; any other state without a step is a deadlock.
AllReturned == calls = MaxCalls /\ Busy = {} /\ UNCHANGED vars

Next == AllReturned \/ \E t \in Threads : Step(t) \/ Call(t)

Spec == Init /\ [][Next]_vars

-----------------------------------------------------------------------------
Startable(t) == th[t] # Idle /\ "mine" \in DOMAIN th[t]

\* What the calls under way have in hand and will stop or publish.
InHand ==
    UNION {Range(th[t].mine) : t \in {u \in Busy : Startable(u)}}
      \cup UNION {Range(th[t].todo) : t \in {u \in Busy : th[u].pc \in {"stopping", "releasing"}}}
      \cup UNION {th[t].todo : t \in {u \in Busy : th[u].pc = "unload"}}
      \cup {Model(t) : t \in {u \in Busy : th[u].pc \in {"coming", "publish"}}}

\* No model runs that nobody can stop: it is in the table, or a call has it in
\* hand, however starts, stops and loads overtake each other; what the table
\* offers is running, once per name.
ModelsReachable ==
    /\ live \subseteq Range(table) \cup InHand
    /\ Range(table) \subseteq live
    /\ \A n, k \in DOMAIN table : table[n].name = table[k].name => n = k

\* A server that says it is up serves its own run: its sink is installed and
\* open, its rings are its own, and under strict_startup every model in the
\* table was loaded for it.
UpMeansServing ==
    started => /\ settings.strict => \A n \in DOMAIN table : table[n].run = generation
               /\ traces = generation /\ traces \in sinks
               /\ mesh # 0 => \A r \in 1 .. Rings : rings[r] = generation

\* A teardown is never overtaken by a later run, however long it takes: what it
\* drains, swaps and closes is its own.
NeverOvertaken ==
    \A t \in Threads :
       th[t].pc \in {"teardown", "leave", "leaving", "drain", "stopping", "close"} =>
          generation = th[t].run

\* An ensemble never dispatches to a model that was unloaded: while the server
\* is up, the models it composes are in the table.
EnsembleBacked ==
    started /\ settings.strict =>
       \A e \in Range(table) : e.name \in Ensemble =>
          \A n \in Range(Startup) \ Ensemble : Loaded(n) # {}

\* When every call has returned and the server is down, nothing is held: no flag or
\* lock, no model, no sink, no mesh, and no ring but those of a create() that raised
\* part-way (_stop_run, _abandon_start).
DownMeansReleased ==
    Busy = {} /\ ~started => /\ ~starting /\ tornDown /\ control = None
                             /\ live = {} /\ table = <<>> /\ sinks = {} /\ mesh = 0
                             /\ \A r \in 1 .. Rings : rings[r] # 0 => rings[r] \in lost

\* A scrape never reports the null sink's zeros for runs that recorded traces.
NoZeroScrape == ~zeros
=============================================================================
