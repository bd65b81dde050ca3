------------------------------ MODULE MCReplay ------------------------------
(* Small instances of the replay next to the indexer for TLC.              *)
EXTENDS Replay

OneTerm == {[long |-> TRUE, tp |-> 9, sl |-> 5]}

(* No trade of this instance is in pair 0, if there is a slot for it.       *)
InPairZero == [k \in Key |-> CHOOSE j \in Key : j \notin Slot \/ Key = Slot]
=============================================================================
