----------------------------- MODULE ModelServing -----------------------------
(***************************************************************************)
(* The serving path of one Model (engine/model.py): admission with the     *)
(* response cache (engine/cache), placement (scheduling/policies), the     *)
(* dispatcher's spill, the stacking batcher, the concurrency limiter and   *)
(* the cumulative statistics.  Callers and one worker per instance         *)
(* interleave; what a thread does to its own data is one step.             *)
(*                                                                         *)
(* A tensor is the sequence of its rows; the model is deterministic, so a  *)
(* row of output is the row of input it was computed from.  Instances are  *)
(* 1 .. N.  Starting, stopping and the queue's own waits are ModelEngine's *)
(* and FairQueue's/FifoQueue's, and an instance that dies in its loop is   *)
(* ModelEngine's; an instance whose start failed is not in `ready'.        *)
(***************************************************************************)
EXTENDS Naturals, FiniteSetsExt, SequencesExt

CONSTANTS
    Requests,
    Instances,      \* 1 .. N
    MaxBatch, Limit, MaxEntries, MaxBytes,
    SpillThreshold, MaxSequences,
    Setups          \* configurations and traffic: records with the fields policy
                    \* (placement_policy), overflow (overflow_policy), capacity
                    \* (max_queue_size), ready (instances that started) and input
                    \* ([Requests -> Input])

\* What a request carries: image, the rows of the required input; mask, whether
\* the optional one is there; device, whether the inputs are off the host;
\* camera, context.camera_id; hint, the instance on its resident_device or 0.
Input == [image: Seq(STRING), mask: BOOLEAN, device: BOOLEAN, camera: STRING,
          hint: Instances \cup {0}]

VARIABLES
    policy, overflow, capacity, ready, input,   \* the setup
    place,      \* [Requests -> where its thread is]
    left,       \* [Requests -> Seq(Instances)]  instances still to be offered it
    future,     \* [Requests -> "pending", "cancelled", "done" or "failed"]
    answer,     \* [Requests -> the outputs its future carries]
    queue,      \* [Instances -> Seq(Requests)]
    assigned,   \* SequenceAffinityPolicy._assigned: set of [cam, inst]
    turn,       \* RoundRobinPolicy._counter
    entries,    \* LruResponseCache._entries, oldest first: [key, value, size]
    bytes,      \* LruResponseCache._bytes
    worker,     \* [Instances -> what its thread is doing]
    free,       \* BoundedSemaphore
    held, peak, \* ConcurrencyRateLimiter._held, peak_in_flight
    stats       \* ModelStatistics counts, and the queues' evictions

config == <<policy, overflow, capacity, ready, input>>
caller == <<place, left, future, answer>>
cache == <<entries, bytes>>
slots == <<free, held, peak>>
vars == <<config, caller, queue, assigned, turn, cache, worker, slots, stats>>

NoBatch == [at |-> "idle", batch |-> <<>>, parts |-> <<>>]

\* Model.__init__ and _build_instances: one queue and one worker per instance,
\* one batcher, limiter, cache and policy shared by all of them.
Init ==
    /\ \E s \in Setups : /\ policy = s.policy /\ overflow = s.overflow /\ capacity = s.capacity
                          /\ ready = s.ready /\ input = s.input
    /\ place = [r \in Requests |-> "new"]
    /\ left = [r \in Requests |-> <<>>]
    /\ future = [r \in Requests |-> "pending"]
    /\ answer = [r \in Requests |-> <<>>]
    /\ queue = [i \in Instances |-> <<>>]
    /\ assigned = {}
    /\ turn = 0
    /\ entries = <<>>
    /\ bytes = 0
    /\ worker = [i \in Instances |-> NoBatch]
    /\ free = Limit /\ held = 0 /\ peak = 0
    /\ stats = [hit |-> 0, miss |-> 0, success |-> 0, fail |-> 0, evicted |-> 0]

Image(r) == input[r].image
HasMask(r) == input[r].mask
OnDevice(r) == input[r].device
CameraOf(r) == input[r].camera
HintOf(r) == input[r].hint

Rows(r) == IF Image(r) = <<>> THEN 1 ELSE Len(Image(r))
Depth(i) == Len(queue[i])

-----------------------------------------------------------------------------
(* The response cache.                                                     *)

(* Fault: the key hashes the required input only.                         *)
CacheKeyOfImage(r) == <<Image(r), FALSE>>

\* cache_key: every input by name, dtype, shape and bytes.
CacheKey(r) == <<Image(r), HasMask(r)>>

\* What the model computes from a request's inputs.
Computes(r) == [k \in DOMAIN Image(r) |-> <<Image(r)[k], HasMask(r)>>]

At(key) == {k \in DOMAIN entries : entries[k].key = key}
Without(es, key) == SelectSeq(es, LAMBDA e : e.key # key)
SizeOf(es) == FoldLeft(LAMBDA n, e : n + e.size, 0, es)

\* LruResponseCache.put: an entry larger than the cache is not stored; a key
\* already there is replaced; the oldest go until both bounds hold.
PutEntry(key, value) ==
    LET size == Len(value)
        prior == SizeOf(SelectSeq(entries, LAMBDA e : e.key = key))
        all  == Append(Without(entries, key), [key |-> key, value |-> value, size |-> size])
        total == bytes - prior + size
        Kept(n) == SubSeq(all, n + 1, Len(all))
        Dropped(n) == SizeOf(SubSeq(all, 1, n))
        Fits(n) == Len(Kept(n)) <= MaxEntries /\ total - Dropped(n) <= MaxBytes
        n == Min({k \in 0 .. Len(all) : k = Len(all) \/ Fits(k)})
    IN  IF size > MaxBytes THEN UNCHANGED cache
        ELSE entries' = Kept(n) /\ bytes' = total - Dropped(n)

-----------------------------------------------------------------------------
(* _admit                                                                  *)

Hits(r) == ~OnDevice(r) /\ At(CacheKey(r)) # {}

\* A hit: the entry becomes the newest and its outputs are the answer.
AdmitHit(r) ==
    /\ place[r] = "new"
    /\ Hits(r)
    /\ LET e == entries[CHOOSE k \in At(CacheKey(r)) : TRUE] IN
       /\ entries' = Append(Without(entries, e.key), e)
       /\ answer' = [answer EXCEPT ![r] = e.value]
    /\ future' = [future EXCEPT ![r] = "done"]
    /\ place' = [place EXCEPT ![r] = "answered"]
    /\ stats' = [stats EXCEPT !.hit = @ + 1]
    /\ UNCHANGED <<config, left, queue, assigned, turn, bytes, worker, slots>>

\* A miss, counted as one only when the inputs can be hashed at all.
AdmitMiss(r) ==
    /\ place[r] = "new"
    /\ ~Hits(r)
    /\ place' = [place EXCEPT ![r] = "choose"]
    /\ stats' = [stats EXCEPT !.miss = @ + (IF OnDevice(r) THEN 0 ELSE 1)]
    /\ UNCHANGED <<config, left, future, answer, queue, assigned, turn, cache, worker, slots>>

-----------------------------------------------------------------------------
(* Placement.  Depths are read without a lock; one reading of them all is  *)
(* one of the readings the code can make.                                  *)

Ready == SetToSortSeq(ready, LAMBDA a, b : a < b)

Shortest(among) == {i \in among : \A j \in among : Depth(i) <= Depth(j)}

\* JoinShortestQueuePolicy: the first of the shortest.
ShortestFirst == Min(Shortest(ready))

\* PowerOfTwoChoicesPolicy: two different candidates, the shorter one wins.
TwoChoices ==
    IF Cardinality(ready) = 1 THEN ready
    ELSE {i \in ready : \E j \in ready \ {i} : Depth(i) <= Depth(j)}

\* LocalityAwareSpilloverPolicy: the resident device while it is not behind.
Local(r) == IF HintOf(r) \in ready /\ Depth(HintOf(r)) <= SpillThreshold
            THEN {HintOf(r)} ELSE TwoChoices

Pinned(r) == {a.inst : a \in {x \in assigned : x.cam = CameraOf(r)}} \cap ready

\* The rest of dispatch(): offer it to `first'.
Offer(r, first) ==
    /\ place' = [place EXCEPT ![r] = "offer"]
    /\ left' = [left EXCEPT ![r] = <<first>>]

ChooseStateless(r) ==
    /\ place[r] = "choose"
    /\ \/ /\ policy = "round_robin"
          /\ Offer(r, Ready[(turn % Len(Ready)) + 1])
          /\ turn' = turn + 1
       \/ /\ policy = "shortest"
          /\ Offer(r, ShortestFirst)
          /\ UNCHANGED turn
       \/ /\ policy = "locality"
          /\ \E i \in Local(r) : Offer(r, i)
          /\ UNCHANGED turn
    /\ UNCHANGED <<config, future, answer, queue, assigned, cache, worker, slots, stats>>

\* SequenceAffinityPolicy.select up to its lock: the pin is read outside it.
ChoosePinned(r) ==
    /\ place[r] = "choose"
    /\ policy = "affinity"
    /\ CASE CameraOf(r) = "" -> \E i \in TwoChoices : Offer(r, i)
         [] CameraOf(r) # "" /\ Pinned(r) # {} -> \E i \in Pinned(r) : Offer(r, i)
         [] OTHER -> \E i \in TwoChoices :
                        /\ place' = [place EXCEPT ![r] = "pin"]
                        /\ left' = [left EXCEPT ![r] = <<i>>]
    /\ UNCHANGED <<config, future, answer, queue, assigned, turn, cache, worker, slots, stats>>

\* ... and inside it: a full table is dropped whole, the last pin wins.
Pin(r) ==
    /\ place[r] = "pin"
    /\ LET kept == IF Cardinality(assigned) >= MaxSequences THEN {}
                   ELSE {a \in assigned : a.cam # CameraOf(r)}
       IN  assigned' = kept \cup {[cam |-> CameraOf(r), inst |-> Head(left[r])]}
    /\ place' = [place EXCEPT ![r] = "offer"]
    /\ UNCHANGED <<config, left, future, answer, queue, turn, cache, worker, slots, stats>>

-----------------------------------------------------------------------------
(* Dispatcher.dispatch over Model._enqueue.                                *)

\* The order in which the others are tried after the first refusal: shallower
\* queues first, ties in the order of the instances.
Others(r) == SetToSortSeq(ready \ {Head(left[r])},
                 LAMBDA a, b : Depth(a) < Depth(b) \/ (Depth(a) = Depth(b) /\ a < b))

First(r) == place[r] = "offer"

EnqueueAccepted(r) ==
    /\ place[r] \in {"offer", "spill"} /\ left[r] # <<>>
    /\ LET i == Head(left[r]) IN
       \/ /\ Depth(i) < capacity
          /\ queue' = [queue EXCEPT ![i] = Append(@, r)]
          /\ UNCHANGED <<future, stats>>
       \/ /\ Depth(i) >= capacity /\ overflow = "drop_oldest"
          /\ queue' = [queue EXCEPT ![i] = Append(Tail(@), r)]
          /\ future' = [future EXCEPT ![Head(queue[i])] =
                           IF @ = "pending" THEN "failed" ELSE @]
          /\ stats' = [stats EXCEPT !.evicted = @ + 1]
    /\ place' = [place EXCEPT ![r] = "waiting"]
    /\ UNCHANGED <<config, left, answer, assigned, turn, cache, worker, slots>>

\* QueueFullError: on to the next, or out of instances.
EnqueueRefused(r) ==
    /\ place[r] \in {"offer", "spill"} /\ left[r] # <<>>
    /\ Depth(Head(left[r])) >= capacity /\ overflow = "reject"
    /\ left' = [left EXCEPT ![r] = IF First(r) THEN Others(r) ELSE Tail(@)]
    /\ place' = [place EXCEPT ![r] = "spill"]
    /\ UNCHANGED <<config, future, answer, queue, assigned, turn, cache, worker, slots, stats>>

\* The last error is raised to the caller and counted as a failure.
Reject(r) ==
    /\ place[r] = "spill" /\ left[r] = <<>>
    /\ place' = [place EXCEPT ![r] = "rejected"]
    /\ stats' = [stats EXCEPT !.fail = @ + 1]
    /\ UNCHANGED <<config, left, future, answer, queue, assigned, turn, cache, worker, slots>>

\* The caller gives up on a future nobody has started to complete.
Cancel(r) ==
    /\ place[r] = "waiting"
    /\ future[r] = "pending"
    /\ future' = [future EXCEPT ![r] = "cancelled"]
    /\ UNCHANGED <<config, place, left, answer, queue, assigned, turn, cache, worker, slots,
                   stats>>

-----------------------------------------------------------------------------
(* An instance's worker: get_batch, a slot, _execute, release.             *)

RowsUpTo(s, n) == FoldLeft(LAMBDA k, r : k + Rows(r), 0, SubSeq(s, 1, n))

\* get_batch's row budget: the longest prefix that fits, and at least one.
Take(i) ==
    /\ worker[i].at = "idle" /\ queue[i] # <<>>
    /\ LET n == Max({1} \cup {k \in DOMAIN queue[i] : RowsUpTo(queue[i], k) <= MaxBatch}) IN
       /\ worker' = [worker EXCEPT ![i] = [at |-> "slot", batch |-> SubSeq(queue[i], 1, n),
                                           parts |-> <<>>]]
       /\ queue' = [queue EXCEPT ![i] = SubSeq(@, n + 1, Len(@))]
    /\ UNCHANGED <<config, caller, assigned, turn, cache, slots, stats>>

Goes(i, to) == worker' = [worker EXCEPT ![i].at = to]

\* ConcurrencyRateLimiter.acquire; one that times out is tried again.
AcquireSlot(i) ==
    /\ worker[i].at = "slot" /\ free > 0
    /\ free' = free - 1
    /\ Goes(i, "acquired")
    /\ UNCHANGED <<config, caller, queue, assigned, turn, cache, held, peak, stats>>

OnAcquired(i) ==
    /\ worker[i].at = "acquired"
    /\ held' = held + 1
    /\ peak' = Max({peak, held + 1})
    /\ Goes(i, "execute")
    /\ UNCHANGED <<config, caller, queue, assigned, turn, cache, free, stats>>

\* assemble: within the row limit, and the optional input in all or in none.
Assembles(b) ==
    /\ RowsUpTo(b, Len(b)) <= MaxBatch
    /\ (\A k \in DOMAIN b : HasMask(b[k])) \/ (\A k \in DOMAIN b : ~HasMask(b[k]))

\* The stacked outputs of a batch: every row with the batch's one mask.
Stacked(b) == FlattenSeq([k \in DOMAIN b |->
    [j \in DOMAIN Image(b[k]) |-> <<Image(b[k])[j], HasMask(b[1])>>]])

\* spans[k]: the rows that the k-th request contributed.
Span(b, k) == <<RowsUpTo(b, k - 1), RowsUpTo(b, k)>>

\* scatter: each request's slice of every output.
Scatter(b) == [k \in DOMAIN b |->
    SubSeq(Stacked(b), Span(b, k)[1] + 1, Span(b, k)[2])]

\* _execute up to the futures: assembled, computed, scattered.
Execute(i) ==
    /\ worker[i].at = "execute"
    /\ Assembles(worker[i].batch)
    /\ worker' = [worker EXCEPT ![i].at = "complete", ![i].parts = Scatter(worker[i].batch)]
    /\ UNCHANGED <<config, caller, queue, assigned, turn, cache, slots, stats>>

\* An unassemblable batch, a backend or a scatter that raises: _fail_batch.
ExecuteFails(i) ==
    /\ worker[i].at = "execute"
    /\ future' = [r \in Requests |->
         IF r \in ToSet(worker[i].batch) /\ future[r] = "pending" THEN "failed" ELSE future[r]]
    /\ stats' = [stats EXCEPT !.fail = @ + Len(worker[i].batch)]
    /\ Goes(i, "release")
    /\ UNCHANGED <<config, place, left, answer, queue, assigned, turn, cache, slots>>

\* Where the loop over the batch is: parts holds what is left of it.
Current(i) ==
    LET w == worker[i] IN w.batch[Len(w.batch) - Len(w.parts) + 1]

\* _complete: the future gets its rows, unless the caller gave up meanwhile.
Complete(i) ==
    /\ worker[i].at = "complete" /\ worker[i].parts # <<>>
    /\ LET r == Current(i) IN
       \/ /\ future[r] = "pending"
          /\ future' = [future EXCEPT ![r] = "done"]
          /\ answer' = [answer EXCEPT ![r] = Head(worker[i].parts)]
          /\ Goes(i, "store")
       \/ /\ future[r] # "pending"
          /\ worker' = [worker EXCEPT ![i].parts = Tail(@)]
          /\ UNCHANGED <<future, answer>>
    /\ UNCHANGED <<config, place, left, queue, assigned, turn, cache, slots, stats>>

\* The done-callback of _store_when_done, on the worker's thread.
Store(i) ==
    /\ worker[i].at = "store"
    /\ LET r == Current(i) IN
       IF OnDevice(r) THEN UNCHANGED cache ELSE PutEntry(CacheKey(r), answer[r])
    /\ worker' = [worker EXCEPT ![i].at = "complete", ![i].parts = Tail(@)]
    /\ UNCHANGED <<config, caller, queue, assigned, turn, slots, stats>>

\* record_execution credits the batch's requests, cancelled ones included.
RecordExecution(i) ==
    /\ worker[i].at = "complete" /\ worker[i].parts = <<>>
    /\ stats' = [stats EXCEPT !.success = @ + Len(worker[i].batch)]
    /\ Goes(i, "release")
    /\ UNCHANGED <<config, caller, queue, assigned, turn, cache, slots>>

\* release(): the semaphore and the counter under one lock.
Release(i) ==
    /\ worker[i].at = "release"
    /\ free' = free + 1
    /\ held' = held - 1
    /\ worker' = [worker EXCEPT ![i] = NoBatch]
    /\ UNCHANGED <<config, caller, queue, assigned, turn, cache, peak, stats>>

Next ==
    \/ \E r \in Requests :
          \/ AdmitHit(r) \/ AdmitMiss(r) \/ ChooseStateless(r) \/ ChoosePinned(r) \/ Pin(r)
          \/ EnqueueAccepted(r) \/ EnqueueRefused(r) \/ Reject(r) \/ Cancel(r)
    \/ \E i \in Instances :
          \/ Take(i) \/ AcquireSlot(i) \/ OnAcquired(i) \/ Execute(i) \/ ExecuteFails(i)
          \/ Complete(i) \/ Store(i) \/ RecordExecution(i) \/ Release(i)

Spec == Init /\ [][Next]_vars

-----------------------------------------------------------------------------
\* Whatever it was batched with, wherever it was spilled to and whether it was
\* computed or taken from the cache, a caller is answered with what the model
\* computes from its own inputs.
AnswersAreTheirOwn ==
    \A r \in Requests : future[r] = "done" => answer[r] = Computes(r)

\* The byte counter never drifts from the entries, although two misses of one
\* key both store it and evictions run in between; both bounds hold, and no
\* key is stored twice.
CacheBooksBalance ==
    /\ bytes = SizeOf(entries)
    /\ bytes <= MaxBytes /\ Len(entries) <= MaxEntries
    /\ \A j, k \in DOMAIN entries : entries[j].key = entries[k].key => j = k

\* The limiter's reported peak never exceeds its own limit: release() gives the
\* slot back and lowers the counter as one step for anyone who then acquires.
PeakWithinLimit == peak <= Limit /\ held + free <= Limit

Settled(r) == place[r] \in {"new", "answered", "rejected"} \/ future[r] # "pending"

\* When everything has come to rest the ledgers agree with each other: every
\* admitted request is a hit, a success, a failure or an eviction, once, and
\* the hits and misses are the requests whose inputs could be hashed.
EveryRequestCountedOnce ==
    ( /\ \A r \in Requests : Settled(r) /\ place[r] \notin {"choose", "pin", "offer", "spill"}
      /\ \A i \in Instances : worker[i] = NoBatch /\ queue[i] = <<>> )
    => LET admitted == {r \in Requests : place[r] # "new"} IN
       /\ stats.hit + stats.success + stats.fail + stats.evicted = Cardinality(admitted)
       /\ stats.hit + stats.miss = Cardinality({r \in admitted : ~OnDevice(r)})
=============================================================================
