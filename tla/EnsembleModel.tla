----------------------------- MODULE EnsembleModel ----------------------------
\* An ensemble: a graph of models served as one.  Requests are admitted against
\* a bound, a pool of threads does the bookkeeping, the steps run on the
\* models' own threads and come back through callbacks; stop() may arrive at
\* any point of it.  A tensor is known by where it came from: <<0, name>> for
\* an input of the request, and <<step, name, what the step read>> for an
\* output.
EXTENDS Naturals, Sequences, FiniteSets, SequencesExt, FiniteSetsExt, Functions

CONSTANTS Workers,     \* the threads of the ensemble's pool
          Requests,    \* requests, of which a behaviour makes graph.callers
          Graphs       \* the configurations a repository may hold (see MCServer)

VARIABLES graph,       \* the configuration of this behaviour
          truthy,      \* the steps whose outputs are present and non-zero
          started,     \* _started
          free,        \* _slots
          live,        \* _live
          pool,        \* "open", "shut" or "joined"
          tasks,       \* the pool's queue: <<request, "begin" or "advance">>
          worker,      \* worker -> what it is in the middle of
          caller,      \* request -> where its infer() is
          exec,        \* request -> its _Execution
          future,      \* request -> the future its caller holds
          flying,      \* the steps on the models: <<request, step>> -> what they read
          landing,     \* the callbacks between filing a step and submitting the next pump
          running,     \* _running_steps
          stopper      \* where stop() is, and the executions it found
vars == <<graph, truthy, started, free, live, pool, tasks, worker, caller, exec, future,
          flying, landing, running, stopper>>

Always == "none"
Idle == [at |-> "idle"]
-------------------------------------------------------------------------------
\* The configuration.  A step has reads (a sequence of [name, kind, optional]),
\* a condition, and writes, a function from ensemble names to kinds.
Steps == DOMAIN graph.steps
Step(i) == graph.steps[i]
Reads(i) == {r.name : r \in ToSet(Step(i).reads)} \cup ({Step(i).condition} \ {Always})
Writes(i) == DOMAIN Step(i).writes
WritersBefore(n, i) == {j \in Steps : j < i /\ n \in Writes(j)}
Available(n, i) == n \in DOMAIN graph.inputs \/ WritersBefore(n, i) # {}
KindAt(n, i) == IF WritersBefore(n, i) = {} THEN graph.inputs[n]
                ELSE Step(Max(WritersBefore(n, i))).writes[n]
Conditional(n, i) == \E j \in WritersBefore(n, i) : Step(j).condition # Always

ReadIsFed(i, r) ==
    IF ~Available(r.name, i) THEN r.optional
    ELSE /\ KindAt(r.name, i) = r.kind
         /\ Conditional(r.name, i) => Step(i).condition # Always
ValidateGraph ==
    /\ \A i \in Steps : /\ \A r \in ToSet(Step(i).reads) : ReadIsFed(i, r)
                        /\ Step(i).condition # Always => Available(Step(i).condition, i)
    /\ \A n \in DOMAIN graph.outputs :
        Available(n, Len(graph.steps) + 1) /\ KindAt(n, Len(graph.steps) + 1) = graph.outputs[n]
NoLateProducers == \A i \in Steps, j \in Steps : i < j => Reads(i) \cap Writes(j) = {}

WaitsOn(i) == UNION {WritersBefore(n, i) : n \in Reads(i)}
-------------------------------------------------------------------------------
\* What a step reads, and what it leaves
Absent == <<>>   \* no tensor: as an output, a tensor of zero rows
At(ns, n) == IF n \in DOMAIN ns THEN ns[n] ELSE Absent
Truthy(v) == v # Absent /\ (v[1] = 0 \/ v[1] \in truthy)
Runs(i, ns) == Step(i).condition = Always \/ Truthy(At(ns, Step(i).condition))
Taken(i, ns) == [k \in DOMAIN Step(i).reads |-> At(ns, Step(i).reads[k].name)]
Feedable(i, ns) ==
    \A k \in DOMAIN Step(i).reads : Step(i).reads[k].optional \/ Taken(i, ns)[k] # Absent
Produced(i, n, read) == <<i, n, read>>
FirstNames == [n \in DOMAIN graph.inputs |-> <<0, n>>]

NewExec == [settled |-> FALSE, begun |-> {}, finished |-> {}, ns |-> FirstNames, by |-> <<>>,
            answer |-> <<>>]

Init ==
    /\ graph \in Graphs
    /\ truthy \in SUBSET Steps
    /\ \A i \in Steps \ truthy : \E j \in Steps : Step(j).condition \in Writes(i)
    /\ started = FALSE /\ free = graph.capacity /\ live = {} /\ pool = "open" /\ tasks = <<>>
    /\ worker = [w \in Workers |-> Idle]
    /\ caller = [r \in Requests |-> "new"]
    /\ exec = [r \in Requests |-> NewExec]
    /\ future = [r \in Requests |-> "none"]
    /\ flying = <<>> /\ landing = {} /\ running = 0
    /\ stopper = [at |-> "idle", found |-> {}]

\* start(): a graph that is refused serves nothing.
Start ==
    /\ ~started /\ stopper.at = "idle"
    /\ ValidateGraph /\ NoLateProducers
    /\ started' = TRUE
    /\ UNCHANGED <<graph, truthy, free, live, pool, tasks, worker, caller, exec, future,
                   flying, landing, running, stopper>>
-------------------------------------------------------------------------------
\* The one terminal transition: whoever claims releases the slot and answers
\* the caller, a future the caller cancelled keeping its own answer.
Answer(r, outcome) ==
    future' = [future EXCEPT ![r] = IF @ = "cancelled" THEN @ ELSE outcome]
Claim(r, outcome, outputs) ==
    IF exec[r].settled THEN UNCHANGED <<exec, live, free, future>>
    ELSE /\ exec' = [exec EXCEPT ![r].settled = TRUE, ![r].answer = outputs]
         /\ live' = live \ {r}
         /\ free' = free + 1
         /\ Answer(r, outcome)
Fail(r) == Claim(r, "failed", <<>>)
Kept == UNCHANGED <<exec, live, free, future>>

\* A pool that is shut raises, and the request is failed rather than dropped.
Submit(r, work) ==
    IF pool = "open" THEN tasks' = Append(tasks, <<r, work>>) /\ Kept
    ELSE tasks' = tasks /\ Fail(r)
-------------------------------------------------------------------------------
\* The caller
InferAdmit(r) ==
    /\ caller[r] = "new" /\ started /\ r \in graph.callers
    /\ IF free = 0 THEN /\ caller' = [caller EXCEPT ![r] = "done"]
                        /\ future' = [future EXCEPT ![r] = "refused"] /\ UNCHANGED free
       ELSE /\ free' = free - 1
            /\ caller' = [caller EXCEPT ![r] = "entering"] /\ UNCHANGED future
    /\ UNCHANGED <<graph, truthy, started, live, pool, tasks, worker, exec, flying, landing,
                   running, stopper>>
InferEnter(r) ==
    /\ caller[r] = "entering"
    /\ caller' = [caller EXCEPT ![r] = "submitting"]
    /\ future' = [future EXCEPT ![r] = "pending"]
    /\ live' = live \cup {r}
    /\ UNCHANGED <<graph, truthy, started, free, pool, tasks, worker, exec, flying, landing,
                   running, stopper>>
InferSubmit(r) ==
    /\ caller[r] = "submitting"
    /\ caller' = [caller EXCEPT ![r] = "done"]
    /\ Submit(r, "begin")
    /\ UNCHANGED <<graph, truthy, started, pool, worker, flying, landing, running, stopper>>
Cancel(r) ==
    /\ caller[r] = "done" /\ future[r] = "pending"
    /\ future' = [future EXCEPT ![r] = "cancelled"]
    /\ UNCHANGED <<graph, truthy, started, free, live, pool, tasks, worker, caller, exec,
                   flying, landing, running, stopper>>
-------------------------------------------------------------------------------
\* A thread of the pool
Become(w, s) == worker' = [worker EXCEPT ![w] = s]
Pumping(r) == [at |-> "pump", r |-> r]
Begin(r, w) ==
    IF exec[r].settled THEN Become(w, Idle) /\ Kept
    ELSE IF future[r] = "cancelled" THEN Become(w, Idle) /\ Claim(r, "retired", <<>>)
    ELSE /\ Become(w, Pumping(r))
         /\ future' = [future EXCEPT ![r] = "running"]
         /\ UNCHANGED <<exec, live, free>>
TakeTask(w) ==
    /\ worker[w] = Idle /\ tasks # <<>>
    /\ tasks' = Tail(tasks)
    /\ LET r == Head(tasks)[1]
       IN  IF Head(tasks)[2] = "begin" THEN Begin(r, w) ELSE Become(w, Pumping(r)) /\ Kept
    /\ UNCHANGED <<graph, truthy, started, pool, caller, flying, landing, running, stopper>>

\* Claim every step whose inputs can no longer change, under the execution's
\* lock.
Ready(r) == {i \in Steps \ exec[r].begun : WaitsOn(i) \subseteq exec[r].finished}
InDeclaredOrder(s) == SelectSeq([i \in Steps |-> i], LAMBDA i : i \in s)
TakeReady(w) ==
    /\ worker[w].at = "pump"
    /\ LET r == worker[w].r
           ready == Ready(r)
       IN  IF exec[r].settled \/ (ready = {} /\ exec[r].finished # Steps)
           THEN Become(w, Idle) /\ UNCHANGED exec
           ELSE /\ exec' = [exec EXCEPT ![r].begun = @ \cup ready]
                /\ Become(w, IF ready = {} THEN [at |-> "collect", r |-> r]
                             ELSE [at |-> "dispatch", r |-> r, left |-> InDeclaredOrder(ready),
                                   progressed |-> FALSE])
    /\ UNCHANGED <<graph, truthy, started, free, live, pool, tasks, caller, future, flying,
                   landing, running, stopper>>

\* After one step of a pass: the next, another pass, or the thread is let go.
Passed(w, progressed) ==
    LET s == worker[w]
        left == Tail(s.left)
    IN  Become(w, IF left # <<>> THEN [at |-> "dispatch", r |-> s.r, left |-> left,
                                       progressed |-> s.progressed \/ progressed]
                  ELSE IF s.progressed \/ progressed THEN Pumping(s.r) ELSE Idle)
\* The condition and the namespace are read under the lock; a settled execution
\* is left.
DispatchRead(w) ==
    /\ worker[w].at = "dispatch"
    /\ LET s == worker[w]
           e == exec[s.r]
       IN  IF e.settled THEN Passed(w, FALSE)
           ELSE Become(w, [at |-> IF Runs(Head(s.left), e.ns) THEN "send" ELSE "skip",
                           r |-> s.r, left |-> s.left, progressed |-> s.progressed,
                           ns |-> e.ns])
    /\ UNCHANGED <<graph, truthy, started, free, live, pool, tasks, caller, exec, future,
                   flying, landing, running, stopper>>
Skip(w) ==
    /\ worker[w].at = "skip"
    /\ exec' = [exec EXCEPT ![worker[w].r].finished = @ \cup {Head(worker[w].left)}]
    /\ Passed(w, TRUE)
    /\ UNCHANGED <<graph, truthy, started, free, live, pool, tasks, caller, future, flying,
                   landing, running, stopper>>
\* Sent to its model, which may refuse it; a step whose model is gone or whose
\* inputs are missing does not get that far, and gives back a running step all
\* the same.
Less(n) == IF n = 0 THEN 0 ELSE n - 1
Send(w) ==
    /\ worker[w].at = "send"
    /\ LET s == worker[w]
           i == Head(s.left)
       IN  \/ /\ Feedable(i, s.ns)
              /\ flying' = [f \in DOMAIN flying \cup {<<s.r, i>>} |->
                              IF f = <<s.r, i>> THEN Taken(i, s.ns) ELSE flying[f]]
              /\ running' = running + 1
              /\ Kept
           \/ /\ ~Feedable(i, s.ns) \/ graph.refusing
              /\ running' \in {Less(running)} \cup {n \in {running} : Feedable(i, s.ns)}
              /\ Fail(s.r) /\ UNCHANGED flying
    /\ Passed(w, FALSE)
    /\ UNCHANGED <<graph, truthy, started, pool, tasks, caller, landing, stopper>>
-------------------------------------------------------------------------------
\* A model's thread, in the callback of a step Mutant: the last step to finish
\* has the last word.
LandedLast(r, i) ==
    LET e == exec[r]
        out == [n \in Writes(i) |-> Produced(i, n, flying[<<r, i>>])]
    IN  [e EXCEPT !.ns = [n \in DOMAIN @ \cup Writes(i) |-> IF n \in Writes(i) THEN out[n]
                                                           ELSE @[n]],
                  !.finished = @ \cup {i}]
Landed(r, i) ==
    LET e == exec[r]
        mine == {n \in Writes(i) : n \notin DOMAIN e.by \/ e.by[n] <= i}
        out == [n \in mine |-> Produced(i, n, flying[<<r, i>>])]
    IN  [e EXCEPT !.ns = [n \in DOMAIN @ \cup mine |-> IF n \in mine THEN out[n] ELSE @[n]],
                  !.by = [n \in DOMAIN @ \cup mine |-> IF n \in mine THEN i ELSE @[n]],
                  !.finished = @ \cup {i}]
StepDone(r, i) ==
    /\ <<r, i>> \in DOMAIN flying
    /\ flying' = Restrict(flying, DOMAIN flying \ {<<r, i>>})
    /\ running' = Less(running)
    /\ \/ /\ exec' = IF exec[r].settled THEN exec ELSE [exec EXCEPT ![r] = Landed(r, i)]
          /\ landing' = IF exec[r].settled THEN landing ELSE landing \cup {<<r, i>>}
          /\ UNCHANGED <<live, free, future>>
       \/ graph.refusing /\ Fail(r) /\ UNCHANGED landing
    /\ UNCHANGED <<graph, truthy, started, pool, tasks, worker, caller, stopper>>
StepSubmit(r, i) ==
    /\ <<r, i>> \in landing
    /\ landing' = landing \ {<<r, i>>}
    /\ Submit(r, "advance")
    /\ UNCHANGED <<graph, truthy, started, pool, worker, caller, flying, running, stopper>>

\* _complete(): the outputs are collected under the lock, the claim comes after
\* it.
Collect(w) ==
    /\ worker[w].at = "collect"
    /\ LET e == exec[worker[w].r]
       IN  Become(w, IF e.settled THEN Idle
                     ELSE [at |-> "claim", r |-> worker[w].r,
                           outputs |-> [n \in DOMAIN graph.outputs |-> At(e.ns, n)]])
    /\ UNCHANGED <<graph, truthy, started, free, live, pool, tasks, caller, exec, future,
                   flying, landing, running, stopper>>
Complete(w) ==
    /\ worker[w].at = "claim"
    /\ Claim(worker[w].r, "done", worker[w].outputs)
    /\ Become(w, Idle)
    /\ UNCHANGED <<graph, truthy, started, pool, tasks, caller, flying, landing, running,
                   stopper>>
-------------------------------------------------------------------------------
\* stop(): no more work, every execution it finds is failed, and the pool is
\* drained.
StopBegin ==
    /\ started /\ stopper.at = "idle"
    /\ started' = FALSE
    /\ stopper' = [at |-> "look", found |-> {}]
    /\ UNCHANGED <<graph, truthy, free, live, pool, tasks, worker, caller, exec, future,
                   flying, landing, running>>
StopLook ==
    /\ stopper.at = "look"
    /\ stopper' = [at |-> "fail", found |-> live]
    /\ UNCHANGED <<graph, truthy, started, free, live, pool, tasks, worker, caller, exec,
                   future, flying, landing, running>>
StopFail ==
    /\ stopper.at = "fail" /\ stopper.found # {}
    /\ \E r \in stopper.found :
        /\ Fail(r)
        /\ stopper' = [stopper EXCEPT !.found = @ \ {r}]
    /\ UNCHANGED <<graph, truthy, started, pool, tasks, worker, caller, flying, landing,
                   running>>
StopShut ==
    /\ stopper.at = "fail" /\ stopper.found = {}
    /\ stopper' = [stopper EXCEPT !.at = "join"] /\ pool' = "shut"
    /\ UNCHANGED <<graph, truthy, started, free, live, tasks, worker, caller, exec, future,
                   flying, landing, running>>
StopJoin ==
    /\ stopper.at = "join" /\ tasks = <<>> /\ \A w \in Workers : worker[w] = Idle
    /\ stopper' = [stopper EXCEPT !.at = "stopped"] /\ pool' = "joined"
    /\ UNCHANGED <<graph, truthy, started, free, live, tasks, worker, caller, exec, future,
                   flying, landing, running>>

Pump(w) == \/ TakeTask(w) \/ TakeReady(w) \/ DispatchRead(w) \/ Skip(w) \/ Send(w)
           \/ Collect(w) \/ Complete(w)
Land(r) == \E i \in Steps : StepDone(r, i) \/ StepSubmit(r, i)
Infer(r) == InferAdmit(r) \/ InferEnter(r) \/ InferSubmit(r)
Stop == StopBegin \/ StopLook \/ StopFail \/ StopShut \/ StopJoin
Next == \/ Start \/ Stop
        \/ \E r \in Requests : Infer(r) \/ Cancel(r) \/ Land(r)
        \/ \E w \in Workers : Pump(w)
Spec == Init /\ [][Next]_vars
-------------------------------------------------------------------------------
(* Properties                                                              *)

\* The names after the steps up to i, run one by one in the order they are
\* declared.
InOrder ==
    LET after[i \in 0..Len(graph.steps)] ==
        IF i = 0 THEN FirstNames
        ELSE LET ns == after[i - 1]
             IN  IF ~Runs(i, ns) THEN ns
                 ELSE [n \in DOMAIN ns \cup Writes(i) |->
                         IF n \in Writes(i) THEN Produced(i, n, Taken(i, ns)) ELSE ns[n]]
    IN  after[Len(graph.steps)]
\* However the steps interleave, a request is answered with what the sequential
\* walk of the same graph gives (the walk this scheduler replaced,
\* ensemble.py:231).
SameAsInOrder ==
    \A r \in Requests :
        future[r] = "done" =>
            exec[r].answer = [n \in DOMAIN graph.outputs |-> At(InOrder, n)]

\* Capacity comes back: the slots that are not free are those of admitted
\* requests that have no answer yet, whichever of failure, cancellation,
\* completion and stop() got there.
SlotsBalance ==
    free + Cardinality({r \in Requests : caller[r] = "entering"}
                       \cup {r \in Requests : future[r] # "refused" /\ caller[r] # "new"
                                              /\ ~exec[r].settled}) = graph.capacity

\* Fair steps: the pool's threads run, the callers' calls return, every model
\* answers.
FairStep == \/ \E w \in Workers : Pump(w)
            \/ \E r \in Requests : InferEnter(r) \/ InferSubmit(r) \/ Land(r)
Settled(r) == exec[r].settled /\ future[r] \notin {"none", "pending", "running"}
\* No caller blocks for ever: every behaviour of the fair steps ends, and where
\* it ends a request that was admitted has its answer, through failures,
\* cancellations and stop().
NoCallerLeftWaiting ==
    ~ENABLED FairStep =>
        \A r \in Requests : (caller[r] # "new" /\ future[r] # "refused") => Settled(r)
=============================================================================
