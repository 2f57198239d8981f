---------------------------- MODULE MCFairQueue ----------------------------
(***************************************************************************)
(* The request queues on small instances; part says which one a behaviour  *)
(* is.  "block" and "drop": a FairQueue that makes producers wait, or that *)
(* evicts.  Items 1, 2 and 3 are a loud camera's, 4 and 5 a quiet one's; 5 *)
(* is background work, 2 carries two rows and 4 none.  "fifo": the FIFO    *)
(* queue with four items, blocking or evicting.  "frames" and "flood": the *)
(* reassembly buffer under two threads, and under a camera that floods it. *)
(***************************************************************************)
EXTENDS FairQueue

MCItems == 1 .. 5
MCCameraOf == [i \in Items |-> IF i <= 3 THEN "a" ELSE "b"]
MCPriorityOf == [i \in Items |-> IF i = 5 THEN 1 ELSE 0]
MCRowsOf == [i \in Items |-> <<1, 2, 1, 0, 1>>[i]]

FrameKeys == {<<1, 1>>, <<1, 2>>, <<1, 3>>, <<2, 1>>}
FewKeys == FrameKeys \ {<<1, 3>>}

VARIABLES part,
          line, shut, tally, fate, sleepers, taker, taken, takenRows, overdue,
          pending, byCamera, frame, opened, reported, out, gauge, gauged

Drop == INSTANCE FairQueue WITH Overflow <- "drop_oldest", WithDeadline <- {}

FifoWaits == INSTANCE FifoQueue WITH
    Overflow <- "block", Items <- 1 .. 4, Capacity <- 2,
    items <- line, closed <- shut, counts <- tally, outcome <- fate, asleep <- sleepers,
    worker <- taker, batch <- taken, rows <- takenRows, late <- overdue
FifoDrops == INSTANCE FifoQueue WITH
    Overflow <- "drop_oldest", Items <- 1 .. 4, Capacity <- 2,
    items <- line, closed <- shut, counts <- tally, outcome <- fate, asleep <- sleepers,
    worker <- taker, batch <- taken, rows <- takenRows, late <- overdue

Collector == INSTANCE FrameCollector WITH
    Cameras <- {1, 2}, Policy <- "greediest_camera", Keys <- FewKeys,
    CameraOf <- [k \in FewKeys |-> k[1]], Stages <- {"detect"}, Capacity <- 2,
    Threads <- {"worker", "sweeper"}, MaxOpens <- 3
Flood == INSTANCE FrameCollector WITH
    Cameras <- {1, 2}, Policy <- "greediest_camera", Keys <- FrameKeys,
    CameraOf <- [k \in FrameKeys |-> k[1]], Stages <- {"detect"}, Capacity <- 3,
    Threads <- {"worker"}, MaxOpens <- 4

fifoVars == <<line, shut, tally, fate, sleepers, taker, taken, takenRows, overdue>>
frameVars == <<pending, byCamera, frame, opened, reported, out, gauge, gauged>>
allVars == <<part, vars, fifoVars, frameVars>>

CollectorOff ==
    /\ pending = 0 /\ byCamera = 0 /\ frame = 0 /\ opened = 0 /\ reported = 0 /\ out = 0
    /\ gauge = 0 /\ gauged = 0
QueuesOff == Init /\ FifoWaits!Init

MCInit ==
    \/ part \in {"block", "drop", "fifo", "fifo drop"} /\ QueuesOff /\ CollectorOff
    \/ part = "frames" /\ Collector!CollectorInit /\ QueuesOff
    \/ part = "flood" /\ Flood!CollectorInit /\ QueuesOff

\* A bound of the block part: the loud camera's producer puts 1, 2 and 3 in that
\* order.  All five puts are made, on a queue that holds three.
LoudInOrder == \A i \in {2, 3} : outcome[i] # "new" => outcome[i - 1] # "new"

MCNext ==
    /\ UNCHANGED part
    /\ \/ part = "block" /\ Next /\ LoudInOrder' /\ UNCHANGED <<fifoVars, frameVars>>
       \/ part = "drop" /\ Drop!Next /\ UNCHANGED <<fifoVars, frameVars>>
       \/ part = "fifo" /\ FifoWaits!Next /\ UNCHANGED <<vars, frameVars>>
       \/ part = "fifo drop" /\ FifoDrops!Next /\ UNCHANGED <<vars, frameVars>>
       \/ part = "frames" /\ Collector!CollectorNext /\ UNCHANGED <<vars, fifoVars>>
       \/ part = "flood" /\ Flood!CollectorNext /\ UNCHANGED <<vars, fifoVars>>

Fair == part \in {"block", "drop"} /\ UNCHANGED <<part, fifoVars, frameVars>>

\* The fairness of FairQueue!LiveSpec; neither action depends on the policy.
MCSpec ==
    /\ MCInit /\ [][MCNext]_allVars
    /\ WF_allVars(Fair /\ GetBatch)
    /\ \A i \in Items :
          /\ WF_allVars(Fair /\ outcome[i] = "blocked" /\ Put(i) /\ ~PutBlocks(i))
          /\ WF_allVars(Fair /\ FailDrained(i))

-----------------------------------------------------------------------------
\* Both queues keep the contract of RequestQueue, whatever the overflow policy
\* does at capacity: every step is one of the contract's, or changes nothing
\* that a caller of put() could see.  Nor does the FIFO queue leave anyone
\* asleep beside something to do.
QueuesKeepContract ==
    /\ Contract!Init
    /\ [][\/ part = "drop" /\ Drop!Contract!Next
          \/ part # "drop" /\ Contract!Next]_<<Contract!vars>>
    /\ FifoWaits!FifoContract!Init
    /\ [][\/ part = "fifo drop" /\ FifoDrops!FifoContract!Next
          \/ part # "fifo drop" /\ FifoWaits!FifoContract!Next]_<<FifoWaits!FifoContract!vars>>
    /\ []FifoWaits!FifoNoLostWakeup

\* See FrameCollector: a frame leaves through exactly one of the ways out, and
\* the index by camera follows.
EachFrameLeavesOnce ==
    part = "frames" => Collector!ReportedExactlyOnce /\ Collector!BooksAgree

\* See FrameCollector: a flood does not cost the quiet camera its frame.
FloodPaysForItself ==
    [][part = "flood" => Flood!QuietKeeps]_<<part, frameVars>>
=============================================================================
