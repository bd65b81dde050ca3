------------------------------ MODULE MCKeeper ------------------------------
(* Small instances of the keeper for TLC.                                  *)
EXTENDS Keeper

Trade(side, profit, stop, liquidation) ==
  [long |-> side, tp |-> profit, sl |-> stop, liq |-> liquidation]
Order(side, price) == [long |-> side, px |-> price]

(* Prices are 1 .. 3: the long is liquidated at 1 and takes profit at 3, the *)
(* order fills at 1.                                                         *)
OneLong  == {Trade(TRUE, 3, 0, 1)}
OneOrder == {Order(TRUE, 1)}
NoOrder  == {}

=============================================================================
