------------------------------- MODULE FeeMath ------------------------------
(***************************************************************************)
(* internal/keeper/math.go: fee accumulators, the fees of a trade and its  *)
(* liquidation price.  big.Int has no overflow; Quo truncates toward zero. *)
(***************************************************************************)
EXTENDS Integers

CONSTANTS
  usdcScale,  \* 1e7 in the code
  pScale      \* 1e10 in the code

ASSUME FeeMathAssumption == usdcScale \in Nat \ {0} /\ pScale \in Nat \ {0}

(* The errors ErrDivByZero and ErrInvalid, and the nil price.               *)
NoPrice == -1

Quo(a, b) == IF a >= 0 THEN a \div b ELSE -((-a) \div b)

(* acc_per_collateral after n more ledgers at a rate.                       *)
PendingAccRollover(acc, n, rate) == acc + Quo(n * rate * usdcScale, pScale * 100)

(* acc_long and acc_short after n more ledgers: the larger side pays.       *)
PendingAccFunding(acc, oi, n, rate) ==
  LET paidByLongs == Quo((oi.long - oi.short) * n * rate, pScale * 100)
      share(side) == IF oi[side] > 0 THEN Quo(paidByLongs * usdcScale, oi[side]) ELSE 0
  IN [long |-> acc.long + share("long"), short |-> acc.short - share("short")]

RolloverFeeForTrade(accOpen, accNow, collateral) ==
  Quo((accNow - accOpen) * collateral, usdcScale)

FundingFeeForTrade(accOpen, accNow, collateral, leverage) ==
  Quo((accNow - accOpen) * collateral, usdcScale) * leverage

Floored(n) == IF n < 0 THEN 0 ELSE n

(* Mutant: the fees are added to what the trade may lose.                   *)
LiquidationPrice_AddsFees(open, long, collateral, leverage, fees, thresholdP) ==
  IF collateral = 0 \/ leverage = 0 THEN NoPrice
  ELSE LET numer    == Quo(collateral * thresholdP, 100) + fees
           distance == Quo(Quo(open * numer, collateral), leverage)
       IN Floored(IF long THEN open - distance ELSE open + distance)

(* fees is the sum of the rollover and the funding fee.                     *)
LiquidationPrice(open, long, collateral, leverage, fees, thresholdP) ==
  IF collateral = 0 \/ leverage = 0 THEN NoPrice
  ELSE LET numer    == Quo(collateral * thresholdP, 100) - fees
           distance == Quo(Quo(open * numer, collateral), leverage)
       IN Floored(IF long THEN open - distance ELSE open + distance)

IsLiquidatable(observed, liq, long) ==
  liq \notin {0, NoPrice} /\ IF long THEN observed <= liq ELSE observed >= liq
=============================================================================
