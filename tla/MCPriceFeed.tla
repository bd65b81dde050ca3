----------------------------- MODULE MCPriceFeed ----------------------------
(* Three prices with digits beyond the scale; the second parses to nothing. *)
EXTENDS PriceFeed

ThreeQuotes == <<25, 3, 47>>
=============================================================================
