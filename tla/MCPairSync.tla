----------------------------- MODULE MCPairSync -----------------------------
(* Two pairs of one group, a long and a short trade.  The rollover rate of  *)
(* 15 adds one and a half to the accumulator per ledger, so that fractions  *)
(* are dropped; 415 takes more than the collateral in one ledger.           *)
EXTENDS PairSync

Listed == [thr |-> 80, rate |-> 15]

OneGroup == [p \in Pair |-> 0]

LongAndShort ==
  {[long |-> l, open |-> 20, coll |-> 10, lev |-> 2] : l \in BOOLEAN}
=============================================================================
