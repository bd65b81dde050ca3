------------------------------ MODULE MCIndexer -----------------------------
(* Small instances of the indexer for TLC.                                 *)
EXTENDS Indexer

T(long, tp, sl) == [long |-> long, tp |-> tp, sl |-> sl]

(* Integers up to 4 are exact, and the price is 5.  There the first long    *)
(* has reached its take-profit, the second its stop-loss, which is scanned  *)
(* as 8, and the third its stop-loss too, which is scanned as 4.            *)
LongTerms == {T(TRUE, 5, 0), T(TRUE, 9, 7), T(TRUE, 9, 5)}
OneTerm   == {T(TRUE, 3, 1)}

(* No trade of this instance is in pair 0, if there is a slot for it.       *)
InPairZero == [k \in Key |-> CHOOSE j \in Key : j \notin Slot \/ Key = Slot]
=============================================================================
