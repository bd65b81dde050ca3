----------------------------- MODULE MCConsumer -----------------------------
(* Small instances of the indexer with a consumer for TLC.                 *)
EXTENDS Consumer

T(long, tp, sl) == [long |-> long, tp |-> tp, sl |-> sl]

TwoTerms == {T(TRUE, 3, 1), T(TRUE, 3, 0)}
OneTerm  == {T(TRUE, 3, 1)}

(* No old closes here: where they would be filed does not matter.           *)
Itself == [k \in Key |-> k]
=============================================================================
