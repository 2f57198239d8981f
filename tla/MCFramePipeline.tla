--------------------------- MODULE MCFramePipeline ---------------------------
(***************************************************************************)
(* The pipeline on small instances: one worker and a detector that feeds   *)
(* one branch, for the sweeper, stop() and liveness; and two workers over  *)
(* one reassembly slot, whose graph may raise.  Of the second instance's   *)
(* frames 1 and 2 have tags of their own, 3 and 4 share one, and the queue *)
(* has shed one pair before the behaviour begins.                          *)
(***************************************************************************)
EXTENDS FramePipeline

MCKeys == {<<1, 1>>, <<1, 2>>, <<2, 1>>}
MCCameraOf == [k \in Keys |-> k[1]]

MCTwoKeys == <<<<1, 1>>, <<2, 1>>>>
MCNeeds == <<{}, {1}>>

MCPairKeys == << <<1, 1>>, <<2, 1>>, <<1, 2>>, <<1, 2>> >>
MCOneStage == <<{}>>

PairInit ==
    /\ CollectorInit
    /\ \E shed \in {{1, 2}, {3, 4}} :
          RunnerStarts([i \in Items |-> IF i \in shed THEN "error" ELSE "none"])

PairSpec == PairInit /\ [][Next]_vars
=============================================================================
