--------------------------- MODULE PairSyncProofs ---------------------------
(***************************************************************************)
(* What PairSync's runs check on small instances, for every number of      *)
(* pairs, trades, rates and amounts, and every bound.                      *)
(***************************************************************************)
EXTENDS PairSync, TLAPS

-----------------------------------------------------------------------------
(* The arithmetic of internal/keeper/math.go.                               *)

(* What integer division returns.                                           *)
LEMMA DivBounds ==
  ASSUME NEW a \in Nat, NEW b \in Nat \ {0}
  PROVE  /\ a \div b \in Nat
         /\ b * (a \div b) <= a
         /\ a < b * (a \div b) + b
  OBVIOUS

(* Comparing quotients by their products with the divisor.                  *)
LEMMA ProductsOrdered ==
  ASSUME NEW b \in Nat \ {0}, NEW q \in Int, NEW q2 \in Int, b * q < b * q2 + b
  PROVE  q <= q2
  <1>1. SUFFICES ASSUME q >= q2 + 1 PROVE FALSE
    OBVIOUS
  <1>2. b * (q - (q2 + 1)) >= 0
    BY <1>1
  <1>3. b * (q - (q2 + 1)) = b * q - b * q2 - b
    OBVIOUS
  <1> QED  BY <1>2, <1>3

(* big.Int.Quo cuts towards zero: by less than the divisor.                 *)
LEMMA QuoBounds ==
  ASSUME NEW a \in Int, NEW b \in Nat \ {0}
  PROVE  /\ Quo(a, b) \in Int
         /\ a >= 0 => Quo(a, b) >= 0 /\ b * Quo(a, b) <= a /\ a < b * Quo(a, b) + b
         /\ a < 0 => Quo(a, b) <= 0 /\ a <= b * Quo(a, b) /\ b * Quo(a, b) < a + b
  <1>1. CASE a >= 0
    BY <1>1, DivBounds DEF Quo
  <1>2. CASE a < 0
    <2> DEFINE q == (-a) \div b
    <2>1. q \in Nat /\ b * q <= -a /\ -a < b * q + b
      BY <1>2, DivBounds
    <2>2. b * (-q) = -(b * q)
      BY <2>1
    <2>3. Quo(a, b) = -q
      BY <1>2 DEF Quo
    <2> HIDE DEF q
    <2> QED  BY <1>2, <2>1, <2>2, <2>3
  <1> QED  BY <1>1, <1>2

(* Cutting keeps the order.                                                 *)
LEMMA QuoMonotone ==
  ASSUME NEW a \in Int, NEW a2 \in Int, NEW b \in Nat \ {0}, a <= a2
  PROVE  Quo(a, b) <= Quo(a2, b)
  <1>1. PICK q \in Int : q = Quo(a, b)
    BY QuoBounds
  <1>2. PICK q2 \in Int : q2 = Quo(a2, b)
    BY QuoBounds
  <1>3. /\ a >= 0 => q >= 0 /\ b * q <= a
        /\ a < 0 => q <= 0 /\ b * q < a + b
    BY <1>1, QuoBounds
  <1>4. /\ a2 >= 0 => q2 >= 0 /\ a2 < b * q2 + b
        /\ a2 < 0 => q2 <= 0 /\ a2 <= b * q2
    BY <1>2, QuoBounds
  <1>5. b * q \in Int /\ b * q2 \in Int
    OBVIOUS
  <1>6. q <= q2 \/ b * q < b * q2 + b
    BY <1>3, <1>4, <1>5
  <1>7. q <= q2
    BY <1>6, ProductsOrdered
  <1> QED  BY <1>1, <1>2, <1>7

(* A product with a natural keeps the order.                                *)
LEMMA ProductsMonotone ==
  ASSUME NEW b \in Nat, NEW q \in Int, NEW q2 \in Int, q <= q2
  PROVE  b * q <= b * q2
  <1>1. b * (q2 - q) >= 0
    OBVIOUS
  <1>2. b * (q2 - q) = b * q2 - b * q
    OBVIOUS
  <1> QED  BY <1>1, <1>2

(* The two truncated divisions of the distance, as one by the product.       *)
LEMMA DistanceBounds ==
  ASSUME NEW a \in Int, NEW b \in Nat \ {0}, NEW c \in Nat \ {0},
         NEW d \in Int, d = Quo(Quo(a, b), c)
  PROVE  /\ a >= 0 => d >= 0 /\ (b * c) * d <= a /\ a < (b * c) * d + b * c
         /\ a < 0 => d <= 0 /\ a <= (b * c) * d /\ (b * c) * d < a + b * c
  <1>1. PICK m \in Int : m = Quo(a, b)
    BY QuoBounds
  <1>2. /\ a >= 0 => m >= 0 /\ b * m <= a /\ a < b * m + b
        /\ a < 0 => m <= 0 /\ a <= b * m /\ b * m < a + b
    BY <1>1, QuoBounds
  <1>3. /\ m >= 0 => d >= 0 /\ c * d <= m /\ m < c * d + c
        /\ m < 0 => d <= 0 /\ m <= c * d /\ c * d < m + c
    BY <1>1, QuoBounds
  <1>4. PICK e \in Int : e = c * d
    OBVIOUS
  <1>5. PICK f \in Int : f = b * c /\ f >= b
    <2>1. b * 1 <= b * c
      BY ProductsMonotone
    <2> QED  BY <2>1
  <1>6. (b * c) * d = b * e
    BY <1>4
  <1>7. /\ b * (e + c - 1) = b * e + f - b
        /\ b * (m + c - 1) = b * m + f - b
    BY <1>5
  <1>8. b * e \in Int /\ b * m \in Int
    OBVIOUS
  <1>9. CASE a >= 0
    <2>1. e <= m /\ m <= e + c - 1
      BY <1>2, <1>3, <1>4, <1>9
    <2>2. b * e <= b * m /\ b * m <= b * (e + c - 1)
      BY <2>1, ProductsMonotone
    <2> QED  BY <1>2, <1>3, <1>5, <1>6, <1>7, <1>8, <1>9, <2>2
  <1>10. CASE a < 0 /\ m < 0
    <2>1. m <= e /\ e <= m + c - 1
      BY <1>3, <1>4, <1>10
    <2>2. b * m <= b * e /\ b * e <= b * (m + c - 1)
      BY <2>1, ProductsMonotone
    <2> QED  BY <1>2, <1>3, <1>5, <1>6, <1>7, <1>8, <1>10, <2>2
  <1>11. CASE a < 0 /\ m >= 0
    <2>1. m = 0
      BY <1>2, <1>11
    <2>2. d = 0
      <3>1. c * 1 <= c * d \/ d < 1
        BY ProductsMonotone
      <3> QED  BY <1>3, <2>1, <3>1
    <2> QED  BY <1>2, <1>4, <1>5, <1>6, <1>11, <2>1, <2>2
  <1> QED  BY <1>9, <1>10, <1>11

(* A price of the code and the value of the trade at a price: how much of a  *)
(* move reaches the loss.                                                    *)
LEMMA PriceIsLoss ==
  ASSUME NEW c \in [long: BOOLEAN, open: Nat, coll: Nat \ {0}, lev: Nat \ {0}],
         c.open # 0, NEW fees \in Int, NEW thr \in Nat, NEW x \in Nat \ {0},
         NEW liq, liq = LiquidationPrice(c.open, c.long, c.coll, c.lev, fees, thr)
  PROVE  /\ IsLiquidatable(x, liq, c.long) =>
              LossReached(c, fees, thr, IF c.long THEN x - 1 ELSE x + 1)
         /\ LossReached(c, fees, thr, x) =>
              IsLiquidatable(x, liq, c.long) \/ (liq = 0 /\ ~c.long /\ fees >= c.coll)
  <1>0. PICK open \in Nat \ {0}, coll \in Nat \ {0}, lev \in Nat \ {0}, long \in BOOLEAN :
          open = c.open /\ coll = c.coll /\ lev = c.lev /\ long = c.long
    OBVIOUS
  <1>1. PICK cap \in Int : cap = Quo(coll * thr, 100) /\ cap >= 0
    BY QuoBounds
  <1>2. PICK a \in Int : a = open * (cap - fees)
    OBVIOUS
  <1>3. PICK d \in Int : d = Quo(Quo(a, coll), lev)
    BY QuoBounds
  <1>4. PICK L \in Nat \ {0} : L = coll * lev /\ L >= coll
    <2>1. coll * 1 <= coll * lev
      BY ProductsMonotone
    <2> QED  BY <2>1
  <1>5. liq = IF long THEN Floored(open - d) ELSE Floored(open + d)
    BY <1>0, <1>1, <1>2, <1>3 DEF LiquidationPrice
  <1>6. /\ a >= 0 => d >= 0 /\ L * d <= a /\ a < L * d + L
        /\ a < 0 => d <= 0 /\ a <= L * d /\ L * d < a + L
    BY <1>3, <1>4, DistanceBounds
  <1>7. ASSUME NEW y \in Int
        PROVE  LossReached(c, fees, thr, y) <=> L * (IF long THEN open - y ELSE y - open) >= a
    <2>1. fees * open \in Int /\ cap * open \in Int /\ a = cap * open - fees * open
      BY <1>2
    <2>2. PICK z \in Int : z = L * (IF long THEN open - y ELSE y - open)
      OBVIOUS
    <2>3. LossReached(c, fees, thr, y) <=> z + fees * open >= cap * open
      BY <1>0, <1>1, <1>4, <2>2 DEF LossReached
    <2> QED  BY <2>1, <2>2, <2>3
  <1>8. L * d \in Int /\ L * (d + 1) = L * d + L
    OBVIOUS
  <1>9. ASSUME NEW y \in Int
        PROVE  /\ (IF long THEN open - y ELSE y - open) >= d + 1 => LossReached(c, fees, thr, y)
               /\ LossReached(c, fees, thr, y) => (IF long THEN open - y ELSE y - open) >= d
    <2>0. PICK v \in Int : v = IF long THEN open - y ELSE y - open
      <3>1. CASE long
        BY <3>1
      <3>2. CASE ~long
        BY <3>2
      <3> QED  BY <3>1, <3>2
    <2>1. L * v \in Int
      OBVIOUS
    <2>2. v >= d + 1 => L * v >= L * (d + 1)
      BY ProductsMonotone
    <2>3. v >= d + 1 => LossReached(c, fees, thr, y)
      BY <1>6, <1>7, <1>8, <2>0, <2>1, <2>2
    <2>4. LossReached(c, fees, thr, y) => L * d < L * v + L
      BY <1>6, <1>7, <1>8, <2>0, <2>1
    <2>5. LossReached(c, fees, thr, y) => v >= d
      BY <2>4, ProductsOrdered
    <2> QED  BY <2>0, <2>3, <2>5
  <1>10. ~long /\ open + d <= 0 => fees >= coll
    <2> SUFFICES ASSUME open + d <= 0 PROVE fees >= coll
      OBVIOUS
    <2>1. a < 0 /\ a <= L * d
      BY <1>6
    <2>2. L * d <= L * (-open)
      BY ProductsMonotone
    <2>3. L * (-open) = open * (-L)
      OBVIOUS
    <2>4. open * (cap - fees) < open * (-L) + open
      BY <1>2, <1>8, <2>1, <2>2, <2>3
    <2>5. cap - fees <= -L
      BY <2>4, ProductsOrdered
    <2> QED  BY <1>1, <1>4, <2>5
  <1>11. CASE long
    <2>1. IsLiquidatable(x, liq, c.long) => x <= open - d
      BY <1>0, <1>5, <1>11 DEF IsLiquidatable, Floored
    <2>2. x <= open - d => IsLiquidatable(x, liq, c.long)
      BY <1>0, <1>5, <1>11 DEF IsLiquidatable, Floored, NoPrice
    <2>3. x <= open - d => LossReached(c, fees, thr, x - 1)
      BY <1>9, <1>11
    <2>4. LossReached(c, fees, thr, x) => x <= open - d
      BY <1>9, <1>11
    <2> QED  BY <1>0, <1>11, <2>1, <2>2, <2>3, <2>4
  <1>12. CASE ~long
    <2>1. IsLiquidatable(x, liq, c.long) => x >= open + d
      BY <1>0, <1>5, <1>12 DEF IsLiquidatable, Floored
    <2>2. x >= open + d => IsLiquidatable(x, liq, c.long) \/ (liq = 0 /\ fees >= coll)
      BY <1>0, <1>5, <1>10, <1>12 DEF IsLiquidatable, Floored, NoPrice
    <2>3. x >= open + d => LossReached(c, fees, thr, x + 1)
      BY <1>9, <1>12
    <2>4. LossReached(c, fees, thr, x) => x >= open + d
      BY <1>9, <1>12
    <2> QED  BY <1>0, <1>12, <2>1, <2>2, <2>3, <2>4
  <1> QED  BY <1>11, <1>12

-----------------------------------------------------------------------------
(* Types.                                                                   *)

(* A missing row is not mistaken for one.                                   *)
LEMMA NoRowIsNoRecord ==
  /\ NoRow \notin FeesRow
  /\ NoRow \notin Trade
  /\ NoRow \notin [thr: Thresholds, depth: {0, 1}]
  /\ NoRow \notin [trade: Trade, thr: 1 .. 100]
  BY DEF NoRow, FeesRow, Trade

(* The registry's views answer with integers.                               *)
LEMMA ViewType ==
  ASSUME NEW r \in Registered, NEW at \in Nat
  PROVE  /\ View(r, at).roll \in Int
         /\ View(r, at).long \in Int
         /\ View(r, at).short \in Int
  <1> DEFINE n == IF at > r.last THEN at - r.last ELSE 0
             f == PendingAccFunding([long |-> r.long, short |-> r.short], r.oi, n,
                                    r.rate["funding_rate"])
  <1>1. n \in Nat /\ r.oi["long"] \in Nat /\ r.oi["short"] \in Nat
        /\ r.rate["funding_rate"] \in Nat /\ r.rate["rollover_rate"] \in Nat
        /\ r.roll \in Int /\ r.long \in Int /\ r.short \in Int
    BY DEF Registered, OiRow, Side, Rate
  <1>2. pScale * 100 \in Nat \ {0} /\ usdcScale \in Nat
    BY FeeMathAssumption
  <1> HIDE DEF n
  <1>3. View(r, at) = [roll |-> PendingAccRollover(r.roll, n, r.rate["rollover_rate"]),
                       long |-> f.long, short |-> f.short]
    BY DEF View, n
  <1>4. PendingAccRollover(r.roll, n, r.rate["rollover_rate"]) \in Int
    <2>1. n * r.rate["rollover_rate"] * usdcScale \in Int
      BY <1>1, <1>2
    <2>2. Quo(n * r.rate["rollover_rate"] * usdcScale, pScale * 100) \in Int
      BY <1>2, <2>1, QuoBounds
    <2> QED  BY <1>1, <2>2 DEF PendingAccRollover
  <1>5. f.long \in Int /\ f.short \in Int
    <2>1. PICK paid \in Int :
            paid = Quo((r.oi["long"] - r.oi["short"]) * n * r.rate["funding_rate"], pScale * 100)
      <3>1. (r.oi["long"] - r.oi["short"]) * n * r.rate["funding_rate"] \in Int
        BY <1>1
      <3> QED  BY <1>2, <3>1, QuoBounds
    <2>2. paid * usdcScale \in Int
      BY <1>2
    <2>3. ASSUME NEW s \in Side
          PROVE  (IF r.oi[s] > 0 THEN Quo(paid * usdcScale, r.oi[s]) ELSE 0) \in Int
      BY <1>1, <2>2, QuoBounds DEF Side
    <2> QED  BY <1>1, <2>1, <2>3 DEF PendingAccFunding, Side
  <1> QED  BY <1>3, <1>4, <1>5

(* The empty row, locals and job are well formed.                           *)
LEMMA EmptyTypes ==
  /\ EmptyFees \in FeesRow
  /\ NoLocals \in Locals
  /\ NoJob \in Jobs
  <1>1. EmptyFees \in FeesRow
    BY DEF EmptyFees, FeesRow
  <1>2. NoLocals \in Locals
    BY <1>1 DEF NoLocals, Locals, Delta, OiRow
  <1>3. 0 \in Pair /\ 1 \in 1 .. maxAttempts
    BY PairSyncAssumption DEF Pair
  <1> QED  BY <1>1, <1>2, <1>3 DEF NoJob, Jobs, Steps

(* Going on to a step keeps the pass well formed.                           *)
LEMMA GoToType ==
  ASSUME NEW j \in Jobs, NEW loc \in Locals, NEW step \in Steps
  PROVE  GoTo(j, loc, step) \in Jobs
  <1>1. 1 \in 1 .. maxAttempts
    BY PairSyncAssumption
  <1> QED  BY <1>1 DEF GoTo, Jobs

(* So does going on to the next pair.                                       *)
LEMMA NextPairType ==
  ASSUME NEW j \in Jobs
  PROVE  NextPair(j) \in Jobs
  <1>1. CASE j.pair + 1 < PairsCount
    <2>1. j.pair + 1 \in Pair
      BY <1>1, PairSyncAssumption DEF Jobs, Pair
    <2>2. [j EXCEPT !.pair = @ + 1] \in Jobs
      BY <2>1 DEF Jobs
    <2> QED  BY <1>1, <2>2, GoToType, EmptyTypes DEF NextPair, Steps, Calls
  <1>2. CASE ~(j.pair + 1 < PairsCount)
    BY <1>2, GoToType, EmptyTypes DEF NextPair, Steps
  <1> QED  BY <1>1, <1>2

(* The names of the steps of a pass.                                        *)
LEMMA StepNames ==
  /\ "get_depth" \in Steps /\ "upsert_pair" \in Steps /\ "get_acc_rollover" \in Steps
  /\ "get_acc_funding" \in Steps /\ "get_oi" \in Steps /\ "pending_acc_rollover_view" \in Steps
  /\ "pending_acc_funding_view" \in Steps /\ "write_fees" \in Steps /\ "write_oi" \in Steps
  /\ "get_group" \in Steps /\ "upsert_group" \in Steps /\ "get_pair" \in Steps
  /\ "end" \in Steps /\ "idle" \in Steps
  BY DEF Steps, Calls

(* Where a pass goes on: the job g is the job j with new locals at a step.   *)
Moved(j, g, loc, step) ==
  /\ g \in Jobs
  /\ g.step = step /\ g.loc = loc /\ g.attempt = 1
  /\ g.pair = j.pair /\ g.at = j.at /\ g.ops = j.ops /\ g.errors = j.errors
  /\ g.groupsSeen = j.groupsSeen

(* What going on to a step changes of the pass, and what it keeps.          *)
LEMMA GoToMoves ==
  ASSUME NEW j \in Jobs, NEW loc \in Locals, NEW step \in Steps
  PROVE  Moved(j, GoTo(j, loc, step), loc, step)
  <1>1. GoTo(j, loc, step) \in Jobs
    BY GoToType
  <1> QED  BY <1>1 DEF GoTo, Jobs, Moved

(* Where the pass goes after a pair.                                        *)
LEMMA NextPairFields ==
  ASSUME NEW j \in Jobs
  PROVE  /\ NextPair(j).loc = NoLocals
         /\ NextPair(j).at = j.at
         /\ NextPair(j).ops = j.ops
         /\ NextPair(j).groupsSeen = j.groupsSeen
         /\ \/ /\ j.pair + 1 < PairsCount
               /\ NextPair(j).step = "get_pair" /\ NextPair(j).pair = j.pair + 1
            \/ /\ j.pair + 1 >= PairsCount
               /\ NextPair(j).step = "end" /\ NextPair(j).pair = j.pair
  BY PairSyncAssumption DEF NextPair, GoTo, Jobs, Pair

(* A group is read once in a pass.                                          *)
LEMMA GroupStepFields ==
  ASSUME NEW j \in Jobs
  PROVE  \/ GroupOf[j.pair] \in j.groupsSeen /\ GroupStep(j) = NextPair(j)
         \/ /\ GroupOf[j.pair] \notin j.groupsSeen
            /\ Moved(j, GroupStep(j), NoLocals, "get_group")
  BY GoToMoves, EmptyTypes, StepNames DEF GroupStep

(* Going on to the group keeps the pass well formed.                        *)
LEMMA GroupStepType ==
  ASSUME NEW j \in Jobs
  PROVE  GroupStep(j) \in Jobs
  BY GoToType, NextPairType, EmptyTypes DEF GroupStep, Steps, Calls

(* The locals a call leaves, step by step.                                  *)
AnsweredMoves(j, g) ==
  LET r == reg[j.pair]
      v == View(r, j.at)
      n(k) == Len(log[j.pair][k]) - 1
  IN /\ j.step = "get_pair" => Moved(j, g, [j.loc EXCEPT !.thr = r.thr], "get_depth")
     /\ j.step = "get_depth" => Moved(j, g, [j.loc EXCEPT !.depth = 1], "upsert_pair")
     /\ j.step = "get_acc_rollover" =>
          Moved(j, g, [j.loc EXCEPT !.fees.rate["rollover_rate"] = r.rate["rollover_rate"],
                                    !.seen["rollover_rate"] = n("rollover_rate")], "get_acc_funding")
     /\ j.step = "get_acc_funding" =>
          Moved(j, g, [j.loc EXCEPT !.fees.rate["funding_rate"] = r.rate["funding_rate"],
                                    !.seen["funding_rate"] = n("funding_rate")], "get_oi")
     /\ j.step = "get_oi" =>
          Moved(j, g, [j.loc EXCEPT !.oi = r.oi, !.seen["oi"] = n("oi")],
                "pending_acc_rollover_view")
     /\ j.step = "pending_acc_rollover_view" =>
          Moved(j, g, [j.loc EXCEPT !.fees.roll = v.roll], "pending_acc_funding_view")
     /\ j.step = "pending_acc_funding_view" =>
          Moved(j, g, [j.loc EXCEPT !.fees.long = v.long, !.fees.short = v.short,
                                    !.fees.at = j.at], "write_fees")
     /\ j.step = "get_group" => Moved(j, g, j.loc, "upsert_group")

(* What each answer of the contracts leaves in the locals of the pass.      *)
LEMMA AnsweredFields ==
  ASSUME PairSyncTypeOK, job.step \in Calls
  PROVE  AnsweredMoves(job, Answered(job))
  <1> DEFINE r == reg[job.pair]
             v == View(r, job.at)
             n(k) == Len(log[job.pair][k]) - 1
  <1>1. job \in Jobs /\ job.loc \in Locals /\ job.pair \in Pair /\ job.at \in Nat /\ r \in Registered
    BY DEF PairSyncTypeOK, LogTypeOK, Jobs
  <1>2. v.roll \in Int /\ v.long \in Int /\ v.short \in Int
    BY <1>1, ViewType
  <1>3. \A k \in Kind : n(k) \in Nat
    <2>1. n("oi") \in Nat
      BY <1>1 DEF PairSyncTypeOK, LogTypeOK
    <2>2. ASSUME NEW k \in Rate PROVE n(k) \in Nat
      <3>1. log[job.pair][k] \in Seq(Nat) /\ log[job.pair][k] # <<>>
        BY <1>1 DEF PairSyncTypeOK, LogTypeOK
      <3> QED  BY <3>1
    <2> QED  BY <2>1, <2>2 DEF Kind
  <1>4. r.thr \in Thresholds /\ r.oi \in OiRow /\ \A k \in Rate : r.rate[k] \in Nat
    BY <1>1 DEF Registered
  <1>5. job.loc.fees \in FeesRow /\ job.loc.seen \in [Kind -> Nat]
    BY <1>1 DEF Locals
  <1>6. CASE job.step = "get_pair"
    <2>1. PICK loc \in Locals : loc = [job.loc EXCEPT !.thr = r.thr]
      BY <1>1, <1>4 DEF Locals
    <2>2. Answered(job) = GoTo(job, loc, "get_depth")
      BY <1>6, <2>1 DEF Answered
    <2>3. Moved(job, Answered(job), loc, "get_depth")
      BY <1>1, <2>2, StepNames, GoToMoves
    <2> QED  BY <1>6, <2>1, <2>3 DEF AnsweredMoves
  <1>7. CASE job.step = "get_depth"
    <2>1. PICK loc \in Locals : loc = [job.loc EXCEPT !.depth = 1]
      BY <1>1, <1>4 DEF Locals
    <2>2. Answered(job) = GoTo(job, loc, "upsert_pair")
      BY <1>7, <2>1 DEF Answered
    <2>3. Moved(job, Answered(job), loc, "upsert_pair")
      BY <1>1, <2>2, StepNames, GoToMoves
    <2> QED  BY <1>7, <2>1, <2>3 DEF AnsweredMoves
  <1>8. CASE job.step = "get_acc_rollover"
    <2>1. PICK loc \in Locals : loc = 
            [job.loc EXCEPT !.fees.rate["rollover_rate"] = r.rate["rollover_rate"],
                            !.seen["rollover_rate"] = n("rollover_rate")]
      BY <1>1, <1>3, <1>4, <1>5 DEF Locals, FeesRow, Kind, Rate
    <2>2. Answered(job) = GoTo(job, loc, "get_acc_funding")
      BY <1>8, <2>1 DEF Answered
    <2>3. Moved(job, Answered(job), loc, "get_acc_funding")
      BY <1>1, <2>2, StepNames, GoToMoves
    <2> QED  BY <1>8, <2>1, <2>3 DEF AnsweredMoves
  <1>9. CASE job.step = "get_acc_funding"
    <2>1. PICK loc \in Locals : loc = 
            [job.loc EXCEPT !.fees.rate["funding_rate"] = r.rate["funding_rate"],
                            !.seen["funding_rate"] = n("funding_rate")]
      BY <1>1, <1>3, <1>4, <1>5 DEF Locals, FeesRow, Kind, Rate
    <2>2. Answered(job) = GoTo(job, loc, "get_oi")
      BY <1>9, <2>1 DEF Answered
    <2>3. Moved(job, Answered(job), loc, "get_oi")
      BY <1>1, <2>2, StepNames, GoToMoves
    <2> QED  BY <1>9, <2>1, <2>3 DEF AnsweredMoves
  <1>10. CASE job.step = "get_oi"
    <2>1. PICK loc \in Locals : loc = [job.loc EXCEPT !.oi = r.oi, !.seen["oi"] = n("oi")]
      BY <1>1, <1>3, <1>4, <1>5 DEF Locals, Kind
    <2>2. Answered(job) = GoTo(job, loc, "pending_acc_rollover_view")
      BY <1>10, <2>1 DEF Answered
    <2>3. Moved(job, Answered(job), loc, "pending_acc_rollover_view")
      BY <1>1, <2>2, StepNames, GoToMoves
    <2> QED  BY <1>10, <2>1, <2>3 DEF AnsweredMoves
  <1>11. CASE job.step = "pending_acc_rollover_view"
    <2>1. PICK loc \in Locals : loc = [job.loc EXCEPT !.fees.roll = v.roll]
      BY <1>1, <1>2, <1>5 DEF Locals, FeesRow
    <2>2. Answered(job) = GoTo(job, loc, "pending_acc_funding_view")
      BY <1>11, <2>1 DEF Answered
    <2>3. Moved(job, Answered(job), loc, "pending_acc_funding_view")
      BY <1>1, <2>2, StepNames, GoToMoves
    <2> QED  BY <1>11, <2>1, <2>3 DEF AnsweredMoves
  <1>12. CASE job.step = "pending_acc_funding_view"
    <2>1. PICK loc \in Locals : loc = 
            [job.loc EXCEPT !.fees.long = v.long, !.fees.short = v.short, !.fees.at = job.at]
      BY <1>1, <1>2, <1>5 DEF Locals, FeesRow
    <2>2. Answered(job) = GoTo(job, loc, "write_fees")
      BY <1>12, <2>1 DEF Answered
    <2>3. Moved(job, Answered(job), loc, "write_fees")
      BY <1>1, <2>2, StepNames, GoToMoves
    <2> QED  BY <1>12, <2>1, <2>3 DEF AnsweredMoves
  <1>13. CASE job.step = "get_group"
    <2>1. PICK loc \in Locals : loc = job.loc
      BY <1>1, <1>5 DEF Locals
    <2>2. Answered(job) = GoTo(job, loc, "upsert_group")
      BY <1>13, <2>1 DEF Answered
    <2>3. Moved(job, Answered(job), loc, "upsert_group")
      BY <1>1, <2>2, StepNames, GoToMoves
    <2> QED  BY <1>13, <2>1, <2>3 DEF AnsweredMoves
  <1> QED  BY <1>6, <1>7, <1>8, <1>9, <1>10, <1>11, <1>12, <1>13 DEF Calls

(* An answered call keeps the pass well formed.                             *)
LEMMA AnsweredType ==
  ASSUME PairSyncTypeOK, job.step \in Calls
  PROVE  /\ Answered(job) \in Jobs
         /\ Answered(job).step \in {"get_depth", "upsert_pair"} => Answered(job).loc.thr \in Thresholds
  <1>1. job.loc \in Locals /\ reg[job.pair].thr \in Thresholds
    BY DEF PairSyncTypeOK, Jobs, Registered
  <1>2. job.step = "get_depth" => job.loc.thr \in Thresholds
    BY DEF PairSyncTypeOK
  <1>3. [job.loc EXCEPT !.thr = reg[job.pair].thr].thr = reg[job.pair].thr
    BY <1>1 DEF Locals
  <1>4. [job.loc EXCEPT !.depth = 1].thr = job.loc.thr
    BY <1>1 DEF Locals
  <1> QED  BY <1>1, <1>2, <1>3, <1>4, AnsweredFields DEF Calls, AnsweredMoves, Moved

(* Where a pass goes on after a call that failed for good.                  *)
LEMMA AfterErrorType ==
  ASSUME NEW j \in Jobs, j.step = "get_depth" => j.loc.thr \in Thresholds
  PROVE  /\ AfterError(j) \in Jobs
         /\ AfterError(j).step \in {"get_depth", "upsert_pair"} => AfterError(j).loc.thr \in Thresholds
         /\ AfterError(j).ops = -1 /\ AfterError(j).at = j.at
         /\ AfterError(j).groupsSeen = j.groupsSeen
         /\ AfterError(j).step \in {"upsert_pair", "get_pair", "end", "get_group"}
         /\ \/ AfterError(j).step = "end"
            \/ AfterError(j).pair = j.pair + 1
            \/ AfterError(j).pair = j.pair /\ AfterError(j).step = "upsert_pair" /\ j.step = "get_depth"
            \/ /\ AfterError(j).pair = j.pair /\ AfterError(j).step = "get_group"
               /\ j.step \in FeeCalls \cup {"write_fees", "write_oi"}
         /\ \/ AfterError(j).loc = NoLocals
            \/ AfterError(j).pair = j.pair /\ AfterError(j).loc = [j.loc EXCEPT !.depth = 0]
  <1> DEFINE k == [j EXCEPT !.errors = @ + 1, !.ops = -1]
  <1>1. k \in Jobs
    <2>1. j.errors + 1 \in Nat /\ -1 \in Int
      BY DEF Jobs
    <2> QED  BY <2>1 DEF Jobs
  <1>2. [j.loc EXCEPT !.depth = 0] \in Locals
    BY DEF Jobs, Locals
  <1> HIDE DEF k
  <1>3. k.ops = -1 /\ k.at = j.at /\ k.pair = j.pair /\ k.groupsSeen = j.groupsSeen
    BY DEF k, Jobs
  <1>4. CASE j.step = "get_depth"
    <2>1. AfterError(j) = GoTo(k, [j.loc EXCEPT !.depth = 0], "upsert_pair")
      BY <1>4 DEF AfterError, FeeCalls, k
    <2>2. [j.loc EXCEPT !.depth = 0].thr \in Thresholds
      BY <1>4 DEF Jobs, Locals
    <2>3. Moved(k, AfterError(j), [j.loc EXCEPT !.depth = 0], "upsert_pair")
      BY <1>1, <1>2, <2>1, StepNames, GoToMoves
    <2> QED  BY <1>3, <1>4, <2>2, <2>3 DEF Moved
  <1>5. CASE j.step \in FeeCalls \cup {"write_fees", "write_oi"}
    <2>1. AfterError(j) = GroupStep(k)
      BY <1>5 DEF AfterError, FeeCalls, k
    <2> QED  BY <1>1, <1>3, <1>5, <2>1, GroupStepType, GroupStepFields, NextPairFields DEF Moved
  <1>6. CASE j.step # "get_depth" /\ j.step \notin FeeCalls \cup {"write_fees", "write_oi"}
    <2>1. AfterError(j) = NextPair(k)
      BY <1>6 DEF AfterError, k
    <2> QED  BY <1>1, <1>3, <2>1, NextPairType, NextPairFields
  <1> QED  BY <1>4, <1>5, <1>6

(* An operation brings the accumulators up to the ledger it is in.          *)
LEMMA AccruedType ==
  ASSUME PairSyncTypeOK, NEW p \in Pair
  PROVE  /\ Accrued(reg[p]) \in Registered
         /\ Accrued(reg[p]).roll = View(reg[p], now).roll
         /\ Accrued(reg[p]).long = View(reg[p], now).long
         /\ Accrued(reg[p]).short = View(reg[p], now).short
         /\ Accrued(reg[p]).last = now
         /\ Accrued(reg[p]).thr = reg[p].thr
         /\ Accrued(reg[p]).oi = reg[p].oi
         /\ Accrued(reg[p]).rate = reg[p].rate
  <1>1. reg[p] \in Registered /\ now \in Nat
    BY DEF PairSyncTypeOK, LogTypeOK
  <1> QED  BY <1>1, ViewType DEF Accrued, Registered

(* A change of one side's open interest.                                    *)
LEMMA DeltaType ==
  ASSUME NEW side, NEW n \in Int
  PROVE  Delta(side, n) \in [Side -> Int]
  BY DEF Delta

(* What an operation of the contract leaves of the types, its trade aside.   *)
LEMMA OperateType ==
  ASSUME PairSyncTypeOK, NEW p \in Pair, NEW r \in Registered, NEW kind, NEW evs \in Seq(Events),
         Operate(p, r, kind, evs), opened' \in {NoRow} \cup Trade
  PROVE  PairSyncTypeOK'
  <1>1. ops' \in 0 .. MaxOps
    BY PairSyncAssumption, SMTT(20) DEF Operate, PairSyncTypeOK, LogTypeOK
  <1>2. reg' \in [Pair -> Registered]
    BY DEF Operate, PairSyncTypeOK, LogTypeOK
  <1>3. feed' \in Seq(Events)
    BY DEF Operate, PairSyncTypeOK, LogTypeOK
  <1>4. /\ log' = [q \in Pair |-> [k \in Kind |-> log'[q][k]]]
        /\ \A q \in Pair : /\ log'[q]["oi"] \in Seq(OiRow) \ {<<>>}
                           /\ \A k \in Rate : log'[q][k] \in Seq(Nat) \ {<<>>}
    <2>1. CASE kind \in Kind
      <3>1. log' = [q \in Pair |-> [k \in Kind |->
                      IF q = p /\ k = kind THEN Append(log[p][kind], Logged(r, kind)) ELSE log[q][k]]]
        BY <2>1 DEF Operate, PairSyncTypeOK, LogTypeOK
      <3>2. ASSUME NEW q \in Pair, NEW k \in Kind, NEW S, log[q][k] \in Seq(S) \ {<<>>},
                   q = p /\ k = kind => Logged(r, kind) \in S
            PROVE  log'[q][k] \in Seq(S) \ {<<>>}
        <4>1. CASE q = p /\ k = kind
          <5>1. log'[q][k] = Append(log[q][k], Logged(r, kind))
            BY <3>1, <4>1
          <5> QED  BY <3>2, <4>1, <5>1
        <4>2. CASE ~(q = p /\ k = kind)
          BY <3>1, <3>2, <4>2
        <4> QED  BY <4>1, <4>2
      <3>3. ASSUME NEW q \in Pair PROVE log'[q]["oi"] \in Seq(OiRow) \ {<<>>}
        BY <3>2 DEF PairSyncTypeOK, LogTypeOK, Logged, Registered, Kind
      <3>4. ASSUME NEW q \in Pair, NEW k \in Rate PROVE log'[q][k] \in Seq(Nat) \ {<<>>}
        BY <3>2 DEF PairSyncTypeOK, LogTypeOK, Logged, Registered, Kind, Rate
      <3>5. log' = [q \in Pair |-> [k \in Kind |-> log'[q][k]]]
        BY <3>1
      <3> QED  BY <3>3, <3>4, <3>5
    <2>2. CASE kind \notin Kind
      <3>1. log' = log
        BY <2>2 DEF Operate
      <3>2. /\ log = [q \in Pair |-> [k \in Kind |-> log[q][k]]]
            /\ \A q \in Pair : /\ log[q]["oi"] \in Seq(OiRow) \ {<<>>}
                               /\ \A k \in Rate : log[q][k] \in Seq(Nat) \ {<<>>}
        BY DEF PairSyncTypeOK, LogTypeOK
      <3> QED  BY <3>1, <3>2
    <2> QED  BY <2>1, <2>2
  <1> QED  BY <1>1, <1>2, <1>3, <1>4 DEF Operate, PairSyncTypeOK, LogTypeOK

(* The contract's actions as operations with a typed new state.              *)
LEMMA AddedOiType ==
  ASSUME PairSyncTypeOK, NEW p \in Pair, NEW d \in [Side -> Int],
         \A s \in Side : reg[p].oi[s] + d[s] >= 0
  PROVE  /\ AddedOi(reg[p], d) \in Registered
         /\ AddedOi(reg[p], d) = [Accrued(reg[p]) EXCEPT !.oi = [s \in Side |-> reg[p].oi[s] + d[s]]]
  <1>1. [s \in Side |-> reg[p].oi[s] + d[s]] \in OiRow
    <2>1. \A s \in Side : reg[p].oi[s] \in Nat /\ d[s] \in Int
      BY DEF PairSyncTypeOK, LogTypeOK, Registered, OiRow
    <2> QED  BY <2>1 DEF OiRow
  <1>2. Accrued(reg[p]) \in Registered
    BY AccruedType
  <1> QED  BY <1>1, <1>2 DEF AddedOi, Registered

(* The events the contracts emit are well formed.                           *)
LEMMA EventType ==
  ASSUME PairSyncTypeOK, NEW p \in Pair
  PROVE  /\ \A k \in Rate, v \in Nat : Event(k, p, v) \in Events
         /\ \A d \in [Side -> Int] : Event("oi", p, d) \in Events
         /\ \A t \in Trade : Event("opened", p, t) \in Events
  <1>1. ASSUME NEW k \in Rate PROVE Len(log[p][k]) \in Nat
    <2>1. log[p][k] \in Seq(Nat)
      BY DEF PairSyncTypeOK, LogTypeOK
    <2> QED  BY <2>1
  <1>2. Len(log[p]["oi"]) \in Nat
    <2>1. log[p]["oi"] \in Seq(OiRow)
      BY DEF PairSyncTypeOK, LogTypeOK
    <2> QED  BY <2>1
  <1> QED  BY <1>1, <1>2 DEF Event, Events, Kind, Rate

(* The log is well formed if it stays the same.                             *)
LEMMA LogTypeStays ==
  ASSUME LogTypeOK, log' = log
  PROVE  LogTypeOK'
  <1>1. /\ log = [p \in Pair |-> [k \in Kind |-> log[p][k]]]
        /\ \A p \in Pair : /\ log[p]["oi"] \in Seq(OiRow) \ {<<>>}
                           /\ \A k \in Rate : log[p][k] \in Seq(Nat) \ {<<>>}
    BY DEF LogTypeOK
  <1>2. /\ log' = [p \in Pair |-> [k \in Kind |-> log'[p][k]]]
        /\ \A p \in Pair : /\ log'[p]["oi"] \in Seq(OiRow) \ {<<>>}
                           /\ \A k \in Rate : log'[p][k] \in Seq(Nat) \ {<<>>}
    BY <1>1
  <1> QED  BY <1>2 DEF LogTypeOK

(* The contracts' operations keep the types.                                *)
LEMMA ContractTypes ==
  ASSUME PairSyncTypeOK, Contract
  PROVE  PairSyncTypeOK'
  <1>1. CASE CloseLedger
    <2>1. LogTypeOK'
      BY <1>1, LogTypeStays DEF CloseLedger, PairSyncTypeOK
    <2> QED  BY <1>1, <2>1 DEF CloseLedger, PairSyncTypeOK
  <1>2. ASSUME NEW p \in Active, NEW kind \in Rate, NEW rate \in Rates, SetRate(p, kind, rate)
        PROVE  PairSyncTypeOK'
    <2>1. p \in Pair /\ rate \in Nat
      BY PairSyncAssumption
    <2>2. [Accrued(reg[p]) EXCEPT !.rate[kind] = rate] \in Registered
      BY <2>1, AccruedType DEF Registered
    <2>3. <<Event(kind, p, rate)>> \in Seq(Events)
      BY <2>1, EventType
    <2>4. opened' \in {NoRow} \cup Trade
      BY <1>2 DEF SetRate, PairSyncTypeOK, LogTypeOK
    <2> QED  BY <1>2, <2>1, <2>2, <2>3, <2>4, OperateType DEF SetRate
  <1>3. ASSUME NEW p \in Active, NEW side \in Side, NEW n \in Amounts,
               AddOi(p, side, n) \/ SubOi(p, side, n)
        PROVE  PairSyncTypeOK'
    <2>1. p \in Pair /\ n \in Nat /\ \A s \in Side : reg[p].oi[s] \in Nat
      BY PairSyncAssumption DEF PairSyncTypeOK, LogTypeOK, Registered, OiRow
    <2>2. CASE AddOi(p, side, n)
      <3>1. Delta(side, n) \in [Side -> Int]
        BY <2>1, DeltaType
      <3>2. \A s \in Side : reg[p].oi[s] + Delta(side, n)[s] >= 0
        BY <2>1 DEF Delta
      <3>3. AddedOi(reg[p], Delta(side, n)) \in Registered
        BY <2>1, <3>1, <3>2, AddedOiType
      <3>4. <<Event("oi", p, Delta(side, n))>> \in Seq(Events)
        BY <2>1, <3>1, EventType
      <3>5. opened' \in {NoRow} \cup Trade
        BY <2>2 DEF AddOi, PairSyncTypeOK, LogTypeOK
      <3> QED  BY <2>1, <2>2, <3>3, <3>4, <3>5, OperateType DEF AddOi
    <2>3. CASE SubOi(p, side, n)
      <3>1. Delta(side, -n) \in [Side -> Int]
        BY <2>1, DeltaType
      <3>2. \A s \in Side : reg[p].oi[s] + Delta(side, -n)[s] >= 0
        BY <2>1, <2>3 DEF Delta, SubOi
      <3>3. AddedOi(reg[p], Delta(side, -n)) \in Registered
        BY <2>1, <3>1, <3>2, AddedOiType
      <3>4. <<Event("oi", p, Delta(side, -n))>> \in Seq(Events)
        BY <2>1, <3>1, EventType
      <3>5. opened' \in {NoRow} \cup Trade
        BY <2>3 DEF SubOi, PairSyncTypeOK, LogTypeOK
      <3> QED  BY <2>1, <2>3, <3>3, <3>4, <3>5, OperateType DEF SubOi
    <2> QED  BY <1>3, <2>2, <2>3
  <1>4. ASSUME NEW p \in Active, NEW thr \in Thresholds, SetThreshold(p, thr)
        PROVE  PairSyncTypeOK'
    <2>1. p \in Pair
      BY PairSyncAssumption
    <2>2. [reg[p] EXCEPT !.thr = thr] \in Registered
      <3>1. reg[p] \in Registered
        BY <2>1 DEF PairSyncTypeOK, LogTypeOK
      <3> QED  BY <3>1 DEF Registered
    <2>3. opened' \in {NoRow} \cup Trade
      BY <1>4 DEF SetThreshold, PairSyncTypeOK, LogTypeOK
    <2>4. <<>> \in Seq(Events)
      OBVIOUS
    <2> QED  BY <1>4, <2>1, <2>2, <2>3, <2>4, OperateType DEF SetThreshold
  <1>5. ASSUME NEW p \in Active, NEW t \in Trades, OpenTrade(p, t)
        PROVE  PairSyncTypeOK'
    <2> DEFINE d == Delta(IF t.long THEN "long" ELSE "short", t.coll * t.lev)
               r == AddedOi(reg[p], d)
               trade == [pair |-> p, terms |-> t, roll |-> r.roll, ledger |-> now,
                         fund |-> IF t.long THEN r.long ELSE r.short]
    <2>1. p \in Pair /\ t.coll * t.lev \in Nat /\ \A s \in Side : reg[p].oi[s] \in Nat
      BY PairSyncAssumption, SMTT(20) DEF PairSyncTypeOK, LogTypeOK, Registered, OiRow
    <2>2. d \in [Side -> Int]
      BY <2>1, DeltaType
    <2>3. \A s \in Side : reg[p].oi[s] + d[s] >= 0
      BY <2>1 DEF Delta
    <2>4. r \in Registered
      BY <2>1, <2>2, <2>3, AddedOiType
    <2>5. opened' = trade /\ Operate(p, r, "oi", <<Event("oi", p, d), Event("opened", p, trade)>>)
      BY <1>5 DEF OpenTrade
    <2> HIDE DEF d, r
    <2>6. trade \in Trade
      BY <2>1, <2>4 DEF Registered, PairSyncTypeOK, LogTypeOK, Trade
    <2> HIDE DEF trade
    <2>7. <<Event("oi", p, d), Event("opened", p, trade)>> \in Seq(Events)
      BY <2>1, <2>2, <2>6, EventType
    <2> QED  BY <2>1, <2>4, <2>5, <2>6, <2>7, OperateType
  <1> QED  BY <1>1, <1>2, <1>3, <1>4, <1>5 DEF Contract

(* What an event carries, by its kind.                                      *)
LEMMA EventCases ==
  ASSUME NEW e \in Events
  PROVE  /\ e.pair \in Pair /\ e.n \in Nat
         /\ e.kind \in Rate \cup {"oi", "opened"}
         /\ e.kind \in Rate => e.val \in Nat
         /\ e.kind = "oi" => e.val \in [Side -> Int]
         /\ e.kind = "opened" => e.val \in Trade
  BY DEF Events, Rate

(* Taking the first event off the feed.                                     *)
LEMMA HeadTail ==
  ASSUME PairSyncTypeOK, feed # <<>>
  PROVE  /\ Head(feed) \in Events /\ Head(feed) = feed[1] /\ 1 \in DOMAIN feed
         /\ Tail(feed) \in Seq(Events)
         /\ DOMAIN Tail(feed) = 1 .. Len(feed) - 1
         /\ \A i \in 1 .. Len(feed) - 1 : Tail(feed)[i] = feed[i + 1] /\ i + 1 \in DOMAIN feed
  <1>1. feed \in Seq(Events)
    BY DEF PairSyncTypeOK, LogTypeOK
  <1> QED  BY <1>1

(* The fee row of a pair, or the empty one, is well formed.                 *)
LEMMA FeesOfType ==
  ASSUME PairSyncTypeOK, NEW p \in Pair
  PROVE  FeesOf(p) \in FeesRow
  BY EmptyTypes DEF FeesOf, PairSyncTypeOK, Tables

(* Adding to open interest, floored at zero, gives open interest.           *)
LEMMA AppliedOiType ==
  ASSUME NEW oi \in OiRow, NEW d \in [Side -> Int]
  PROVE  AppliedOi(oi, d) \in OiRow
  <1>1. ASSUME NEW s \in Side PROVE Floored(oi[s] + d[s]) \in Nat
    <2>1. oi[s] + d[s] \in Int
      BY DEF OiRow
    <2> QED  BY <2>1 DEF Floored
  <1> QED  BY <1>1 DEF AppliedOi, OiRow

(* Setting a rate gives a fee row.                                          *)
LEMMA AppliedRateType ==
  ASSUME PairSyncTypeOK, NEW p \in Pair, NEW kind \in Rate, NEW rate \in Nat
  PROVE  AppliedRate(p, kind, rate) \in FeesRow
  BY FeesOfType DEF AppliedRate, FeesRow

(* The contracts' state is well formed if it stays the same.                *)
LEMMA ChainTypeStays ==
  ASSUME PairSyncTypeOK, UNCHANGED chainVars
  PROVE  /\ now' \in Nat /\ ops' \in 0 .. MaxOps /\ reg' \in [Pair -> Registered]
         /\ opened' \in {NoRow} \cup Trade /\ LogTypeOK'
  BY LogTypeStays DEF PairSyncTypeOK, chainVars

(* The indexer's step keeps the types.                                      *)
LEMMA ApplyEventTypes ==
  ASSUME PairSyncTypeOK, ApplyEvent
  PROVE  PairSyncTypeOK'
  <1> DEFINE e == Head(feed)
  <1>1. feed # <<>> /\ feed' = Tail(feed) /\ UNCHANGED <<chainVars, job, passes>>
    BY DEF ApplyEvent
  <1>2. e \in Events /\ feed' \in Seq(Events) /\ e.pair \in Pair
    BY <1>1, HeadTail, EventCases
  <1>0. job' \in Jobs /\ passes' \in 0 .. MaxPasses
        /\ (job'.step \in {"get_depth", "upsert_pair"} => job'.loc.thr \in Thresholds)
    BY <1>1 DEF PairSyncTypeOK
  <1>6. tb \in Tables /\ keeper \in Keepers /\ applied \in [Pair -> [Kind -> Nat]]
        /\ exact \in [Pair -> [Kind -> BOOLEAN]]
    BY DEF PairSyncTypeOK
  <1>3. CASE /\ e.kind = "opened"
             /\ tb' = [tb EXCEPT !.trade = e.val]
             /\ keeper' = Heard(e.val)
             /\ UNCHANGED <<applied, exact>>
    <2>1. e.val \in Trade
      BY <1>2, <1>3, EventCases
    <2> HIDE DEF e
    <2>2. keeper' \in Keepers
      BY <1>3, <1>6, <2>1 DEF Heard, Keepers, DefaultThreshold
    <2>3. tb' \in Tables
      BY <1>3, <1>6, <2>1 DEF Tables
    <2> QED
      BY <1>0, <1>1, <1>2, <1>3, <1>6, <2>2, <2>3, ChainTypeStays DEF PairSyncTypeOK
  <1>4. CASE /\ e.kind = "oi"
             /\ tb' = [tb EXCEPT !.oi[e.pair] = AppliedOi(tb.oi[e.pair], e.val)]
             /\ applied' = [applied EXCEPT ![e.pair]["oi"] = @ + 1]
             /\ UNCHANGED <<exact, keeper>>
    <2>1. AppliedOi(tb.oi[e.pair], e.val) \in OiRow
      BY <1>2, <1>4, <1>6, EventCases, AppliedOiType DEF Tables
    <2> HIDE DEF e
    <2>2. applied' \in [Pair -> [Kind -> Nat]]
      <3>1. "oi" \in Kind
        BY <1>4 DEF Kind
      <3>2. applied[e.pair]["oi"] + 1 \in Nat
        BY <1>2, <1>6, <3>1
      <3> QED  BY <1>2, <1>4, <1>6, <3>1, <3>2
    <2>3. tb' \in Tables
      BY <1>2, <1>4, <1>6, <2>1 DEF Tables
    <2> QED
      BY <1>0, <1>1, <1>2, <1>4, <1>6, <2>2, <2>3, ChainTypeStays DEF PairSyncTypeOK
  <1>5. CASE /\ e.kind \in Rate
             /\ tb' = [tb EXCEPT !.fees[e.pair] = AppliedRate(e.pair, e.kind, e.val)]
             /\ applied' = [applied EXCEPT ![e.pair][e.kind] = @ + 1]
             /\ exact' = [exact EXCEPT ![e.pair][e.kind] = TRUE]
             /\ UNCHANGED keeper
    <2>1. AppliedRate(e.pair, e.kind, e.val) \in FeesRow
      BY <1>2, <1>5, EventCases, AppliedRateType
    <2> HIDE DEF e
    <2>2. applied' \in [Pair -> [Kind -> Nat]]
      <3>1. e.kind \in Kind
        BY <1>5 DEF Kind
      <3>2. applied[e.pair][e.kind] + 1 \in Nat
        BY <1>2, <1>6, <3>1
      <3> QED  BY <1>2, <1>5, <1>6, <3>1, <3>2
    <2>3. exact' \in [Pair -> [Kind -> BOOLEAN]]
      BY <1>2, <1>5, <1>6 DEF Kind
    <2>4. tb' \in Tables
      BY <1>2, <1>5, <1>6, <2>1 DEF Tables
    <2> QED
      BY <1>0, <1>1, <1>2, <1>5, <1>6, <2>2, <2>3, <2>4, ChainTypeStays DEF PairSyncTypeOK
  <1> QED  BY <1>3, <1>4, <1>5 DEF ApplyEvent

(* A step that touches the pair indexer and the tables only, and one of the *)
(* keeper.                                                                  *)
LEMMA WriteTypes ==
  ASSUME PairSyncTypeOK, job' \in Jobs, passes' \in 0 .. MaxPasses,
         job'.step \in {"get_depth", "upsert_pair"} => job'.loc.thr \in Thresholds,
         tb' \in Tables, exact' \in [Pair -> [Kind -> BOOLEAN]],
         UNCHANGED <<chainVars, feed, applied, keeper>>
  PROVE  PairSyncTypeOK'
  BY ChainTypeStays DEF PairSyncTypeOK

(* The steps of a pass keep the types.                                      *)
LEMMA PassTypes ==
  ASSUME PairSyncTypeOK, StartPass \/ PairIndexer
  PROVE  PairSyncTypeOK'
  <1>1. job \in Jobs /\ job.pair \in Pair /\ job.loc \in Locals /\ tb \in Tables
        /\ passes \in 0 .. MaxPasses /\ exact \in [Pair -> [Kind -> BOOLEAN]]
        /\ (job.step \in {"get_depth", "upsert_pair"} => job.loc.thr \in Thresholds)
    BY DEF PairSyncTypeOK, Jobs
  <1>2. CASE StartPass
    <2>1. (IF feed = <<>> THEN ops ELSE -1) \in Int /\ now \in Nat
      BY DEF PairSyncTypeOK
    <2>2. job' \in Jobs /\ job'.step = "get_pair"
      BY <1>2, <2>1, EmptyTypes DEF StartPass, LatestLedger, Jobs, Steps, Calls
    <2>3. passes' \in 0 .. MaxPasses
      BY <1>1, <1>2, PairSyncAssumption DEF StartPass
    <2> QED  BY <1>1, <1>2, <2>2, <2>3, WriteTypes DEF StartPass
  <1>3. CASE CallContract
    <2>1. job' \in Jobs /\ (job'.step \in {"get_depth", "upsert_pair"} => job'.loc.thr \in Thresholds)
      BY <1>3, AnsweredType DEF CallContract
    <2> QED  BY <1>1, <1>3, <2>1, WriteTypes DEF CallContract
  <1>4. CASE CallRetries
    <2>1. job' \in Jobs /\ job'.step = job.step /\ job'.loc = job.loc
      BY <1>1, <1>4, PairSyncAssumption DEF CallRetries, Jobs
    <2> QED  BY <1>1, <1>4, <2>1, WriteTypes DEF CallRetries
  <1>5. CASE CallFails \/ StatementFails
    <2>1. job' \in Jobs /\ (job'.step \in {"get_depth", "upsert_pair"} => job'.loc.thr \in Thresholds)
      <3>1. job' = AfterError(job) /\ (job.step = "get_depth" => job.loc.thr \in Thresholds)
        BY <1>5 DEF CallFails, StatementFails, PairSyncTypeOK
      <3> QED  BY <1>1, <3>1, AfterErrorType
    <2> QED  BY <1>1, <1>5, <2>1, WriteTypes DEF CallFails, StatementFails
  <1>6. CASE UpsertPair
    <2>1. job' \in Jobs /\ job'.step = "get_acc_rollover"
      <3>1. Moved(job, job', NoLocals, "get_acc_rollover")
        BY <1>1, <1>6, GoToMoves, EmptyTypes, StepNames DEF UpsertPair
      <3> QED  BY <3>1 DEF Moved
    <2>2. [thr |-> job.loc.thr, depth |-> job.loc.depth] \in [thr: Thresholds, depth: {0, 1}]
      BY <1>1, <1>6 DEF UpsertPair, Locals
    <2>3. tb' \in Tables
      BY <1>1, <1>6, <2>2 DEF UpsertPair, Tables
    <2> QED  BY <1>1, <1>6, <2>1, <2>3, WriteTypes DEF UpsertPair
  <1>7. CASE WriteFees
    <2>1. [job.loc EXCEPT !.fees = EmptyFees] \in Locals
      BY <1>1, EmptyTypes DEF Locals
    <2>2. job' \in Jobs /\ job'.step = "write_oi"
      <3>1. Moved(job, job', [job.loc EXCEPT !.fees = EmptyFees], "write_oi")
        BY <1>1, <1>7, <2>1, GoToMoves, StepNames DEF WriteFees
      <3> QED  BY <3>1 DEF Moved
    <2>3. tb' \in Tables
      BY <1>1, <1>7 DEF WriteFees, Tables, Locals
    <2>4. exact' \in [Pair -> [Kind -> BOOLEAN]]
      <3> DEFINE f == [k \in Kind |-> IF k = "oi" THEN exact[job.pair][k]
                                      ELSE applied[job.pair][k] <= job.loc.seen[k]]
      <3>1. ASSUME NEW k \in Kind PROVE f[k] \in BOOLEAN
        <4>1. CASE k = "oi"
          BY <1>1, <4>1
        <4>2. CASE k # "oi"
          BY <4>2
        <4> QED  BY <4>1, <4>2
      <3>2. f \in [Kind -> BOOLEAN]
        BY <3>1
      <3>3. exact' = [exact EXCEPT ![job.pair] = f]
        BY <1>7 DEF WriteFees
      <3> HIDE DEF f
      <3> QED  BY <1>1, <3>2, <3>3
    <2> QED  BY <1>1, <1>7, <2>2, <2>3, <2>4, WriteTypes DEF WriteFees
  <1>8. CASE WriteOi
    <2>1. job' \in Jobs /\ job'.step \in {"get_pair", "end", "get_group"}
      BY <1>1, <1>8, GroupStepType, GroupStepFields, NextPairFields DEF WriteOi, Moved
    <2>2. tb' \in Tables
      BY <1>1, <1>8 DEF WriteOi, WrittenOi, Tables, Locals
    <2>3. exact' \in [Pair -> [Kind -> BOOLEAN]]
      BY <1>1, <1>8 DEF WriteOi, Kind
    <2> QED  BY <1>1, <1>8, <2>1, <2>2, <2>3, WriteTypes DEF WriteOi
  <1>9. CASE UpsertGroup
    <2>1. [job EXCEPT !.groupsSeen = @ \cup {GroupOf[job.pair]}] \in Jobs
      BY <1>1 DEF Jobs
    <2>2. job' \in Jobs /\ job'.step \in {"get_pair", "end"}
      BY <1>9, <2>1, NextPairType, NextPairFields DEF UpsertGroup
    <2>3. tb' \in Tables
      BY <1>1, <1>9 DEF UpsertGroup, Tables
    <2> QED  BY <1>1, <1>9, <2>2, <2>3, WriteTypes DEF UpsertGroup
  <1>10. CASE EndPass \/ Interrupted
    <2>1. job' \in Jobs /\ job'.step = "idle"
      BY <1>10, EmptyTypes DEF EndPass, Interrupted, NoJob
    <2> QED  BY <1>1, <1>10, <2>1, WriteTypes DEF EndPass, Interrupted
  <1> QED
    BY <1>2, <1>3, <1>4, <1>5, <1>6, <1>7, <1>8, <1>9, <1>10 DEF PairIndexer

(* The keeper's steps keep the types.                                       *)
LEMMA KeeperTypes ==
  ASSUME PairSyncTypeOK, KeeperStart \/ KeeperRefresh
  PROVE  PairSyncTypeOK'
  <1>1. keeper \in Keepers /\ tb \in Tables
    BY DEF PairSyncTypeOK
  <1>2. CASE KeeperStart
    <2>1. ASSUME tb.trade # NoRow
          PROVE  [trade |-> tb.trade, thr |-> Coalesce(tb.pairs[tb.trade.pair])] \in [trade: Trade, thr: 1 .. 100]
      <3>1. tb.trade \in Trade /\ tb.trade.pair \in Pair
        BY <1>1, <2>1 DEF Tables, Trade
      <3>2. Coalesce(tb.pairs[tb.trade.pair]) \in 1 .. 100
        <4>1. tb.pairs[tb.trade.pair] \in {NoRow} \cup [thr: Thresholds, depth: {0, 1}]
          BY <1>1, <3>1 DEF Tables
        <4>2. Thresholds \subseteq 1 .. 100 /\ 90 \in 1 .. 100
          BY PairSyncAssumption
        <4> QED  BY <4>1, <4>2 DEF Coalesce, DefaultThreshold
      <3> QED  BY <3>1, <3>2
    <2> QED
      <3>1. keeper' \in Keepers
        BY <1>1, <1>2, <2>1 DEF KeeperStart, Keepers, Tables
      <3> QED  BY <1>2, <3>1, ChainTypeStays DEF KeeperStart, PairSyncTypeOK
  <1>3. CASE KeeperRefresh
    <2>1. keeper' \in Keepers
      BY <1>1, <1>3 DEF KeeperRefresh, Keepers, Tables
    <2> QED  BY <1>3, <2>1, ChainTypeStays DEF KeeperRefresh, PairSyncTypeOK
  <1> QED  BY <1>2, <1>3

(* The types hold initially.                                                *)
LEMMA TypeInit == Init => PairSyncTypeOK
  <1> SUFFICES ASSUME Init PROVE PairSyncTypeOK
    OBVIOUS
  <1>1. reg \in [Pair -> Registered]
    BY PairSyncAssumption DEF Init, Registered, Delta, OiRow
  <1>2. ASSUME NEW p \in Pair
        PROVE  /\ log[p]["oi"] \in Seq(OiRow) \ {<<>>}
               /\ \A k \in Rate : log[p][k] \in Seq(Nat) \ {<<>>}
    <2>1. \A k \in Kind : log[p][k] = <<Logged(reg[p], k)>>
      BY DEF Init
    <2>2. Logged(reg[p], "oi") \in OiRow /\ \A k \in Rate : Logged(reg[p], k) \in Nat
      BY <1>1 DEF Logged, Registered, Rate
    <2>3. log[p]["oi"] \in Seq(OiRow) \ {<<>>}
      <3>1. log[p]["oi"] = <<Logged(reg[p], "oi")>>
        BY <2>1 DEF Kind
      <3> QED  BY <2>2, <3>1
    <2>4. ASSUME NEW k \in Rate PROVE log[p][k] \in Seq(Nat) \ {<<>>}
      <3>1. log[p][k] = <<Logged(reg[p], k)>> /\ Logged(reg[p], k) \in Nat
        BY <2>1, <2>2 DEF Kind
      <3> QED  BY <3>1
    <2> QED  BY <2>3, <2>4
  <1>3. log = [p \in Pair |-> [k \in Kind |-> log[p][k]]]
    BY DEF Init
  <1>4. LogTypeOK
    BY <1>2, <1>3 DEF LogTypeOK
  <1>5. tb \in Tables
    BY DEF Init, Tables, Delta, OiRow
  <1>6. keeper \in Keepers
    BY DEF Init, Keepers
  <1> QED
    BY <1>1, <1>4, <1>5, <1>6, EmptyTypes, PairSyncAssumption DEF Init, PairSyncTypeOK, NoJob

(* Every step keeps the types.                                              *)
LEMMA TypeStep == PairSyncTypeOK /\ [Next]_vars => PairSyncTypeOK'
  <1> SUFFICES ASSUME PairSyncTypeOK, [Next]_vars PROVE PairSyncTypeOK'
    OBVIOUS
  <1>1. CASE UNCHANGED vars
    BY <1>1, ChainTypeStays DEF vars, PairSyncTypeOK
  <1>2. CASE Next
    BY <1>2, ContractTypes, ApplyEventTypes, PassTypes, KeeperTypes DEF Next
  <1> QED  BY <1>1, <1>2

(* The tables, the jobs, the copies and the events have their types: open   *)
(* interest is never stored negative, thresholds are the contract's.        *)
THEOREM PairSyncTypes == Spec => []PairSyncTypeOK
  BY TypeInit, TypeStep, PTL DEF Spec

-----------------------------------------------------------------------------
(* Events in flight.  The n-th event of a pair and kind leads from the n-th  *)
(* entry of the log to the next; those in flight are, in order, the ones     *)
(* that have not been applied, and the last entry is the contract's state.   *)
InOrder ==
  \A i \in DOMAIN feed : feed[i].kind \in Kind =>
    LET p == feed[i].pair
        k == feed[i].kind
        n == feed[i].n
    IN /\ applied[p][k] < n /\ n < Len(log[p][k])
       /\ \A j \in InFlight(p, k) : j > i => n < feed[j].n
       /\ k \in Rate => feed[i].val = log[p][k][n + 1]
       /\ k = "oi" => \A s \in Side : log[p][k][n + 1][s] = log[p][k][n][s] + feed[i].val[s]

NoneLost ==
  \A p \in Pair, k \in Kind : \A m \in 1 .. Len(log[p][k]) - 1 :
    m > applied[p][k] => \E i \in InFlight(p, k) : feed[i].n = m

LogCurrent ==
  \A p \in Pair, k \in Kind :
    applied[p][k] < Len(log[p][k]) /\ log[p][k][Len(log[p][k])] = Logged(reg[p], k)

FeedInv == InOrder /\ NoneLost /\ LogCurrent

(* The entries of the log and the count of those applied.                   *)
LEMMA LogTypes ==
  ASSUME PairSyncTypeOK, NEW p \in Pair, NEW k \in Kind
  PROVE  /\ Len(log[p][k]) \in Nat \ {0}
         /\ \E S : log[p][k] \in Seq(S)
         /\ DOMAIN log[p][k] = 1 .. Len(log[p][k])
         /\ applied[p][k] \in Nat
         /\ k \in Rate => \A i \in 1 .. Len(log[p][k]) : log[p][k][i] \in Nat
         /\ k = "oi" => \A i \in 1 .. Len(log[p][k]) : log[p][k][i] \in OiRow
  <1>1. applied[p][k] \in Nat
    BY DEF PairSyncTypeOK
  <1>2. CASE k = "oi"
    <2>1. log[p][k] \in Seq(OiRow) /\ log[p][k] # <<>>
      BY <1>2 DEF PairSyncTypeOK, LogTypeOK
    <2> QED  BY <1>1, <1>2, <2>1 DEF Rate
  <1>3. CASE k \in Rate
    <2>1. log[p][k] \in Seq(Nat) /\ log[p][k] # <<>>
      BY <1>3 DEF PairSyncTypeOK, LogTypeOK
    <2> QED  BY <1>1, <1>3, <2>1 DEF Rate
  <1> QED  BY <1>2, <1>3 DEF Kind

(* The first event of its kind in flight is the next to apply.              *)
LEMMA NextInFlight ==
  ASSUME PairSyncTypeOK, FeedInv, feed # <<>>, feed[1].kind \in Kind
  PROVE  feed[1].n = applied[feed[1].pair][feed[1].kind] + 1
  <1> DEFINE p == feed[1].pair
             k == feed[1].kind
             m == applied[p][k] + 1
  <1>1. 1 \in DOMAIN feed /\ p \in Pair /\ feed[1].n \in Nat
    BY HeadTail, EventCases
  <1>2. applied[p][k] \in Nat /\ Len(log[p][k]) \in Nat
    BY <1>1, LogTypes
  <1>3. applied[p][k] < feed[1].n /\ feed[1].n < Len(log[p][k])
        /\ \A j \in InFlight(p, k) : j > 1 => feed[1].n < feed[j].n
    BY <1>1 DEF FeedInv, InOrder
  <1>4. PICK i \in InFlight(p, k) : feed[i].n = m
    <2>1. m \in 1 .. Len(log[p][k]) - 1 /\ m > applied[p][k]
      BY <1>1, <1>2, <1>3, SMTT(20)
    <2> QED  BY <1>1, <2>1 DEF FeedInv, NoneLost
  <1>5. i = 1
    <2>1. i \in DOMAIN feed /\ DOMAIN feed = 1 .. Len(feed) /\ Len(feed) \in Nat
      BY DEF InFlight, PairSyncTypeOK
    <2> QED  BY <1>1, <1>2, <1>3, <1>4, <2>1
  <1> QED  BY <1>4, <1>5

(* Applying the first event of the feed keeps the feed in order.            *)
LEMMA ApplyFeed ==
  ASSUME PairSyncTypeOK, FeedInv, ApplyEvent
  PROVE  FeedInv'
  <1> DEFINE e == feed[1]
  <1>1. feed # <<>> /\ feed' = Tail(feed) /\ log' = log /\ reg' = reg
    BY DEF ApplyEvent, chainVars
  <1>2. /\ e \in Events /\ e = Head(feed) /\ 1 \in DOMAIN feed
        /\ DOMAIN feed' = 1 .. Len(feed) - 1 /\ DOMAIN feed = 1 .. Len(feed) /\ Len(feed) \in Nat
        /\ \A i \in DOMAIN feed' : feed'[i] = feed[i + 1] /\ i + 1 \in DOMAIN feed
    BY <1>1, HeadTail DEF PairSyncTypeOK
  <1>3. \A i \in DOMAIN feed : feed[i] \in Events /\ feed[i].pair \in Pair /\ feed[i].n \in Nat
    <2>1. \A i \in DOMAIN feed : feed[i] \in Events
      BY DEF PairSyncTypeOK
    <2> QED  BY <2>1, EventCases
  <1>4. /\ e.kind \in Kind => applied' = [applied EXCEPT ![e.pair][e.kind] = @ + 1]
        /\ e.kind \notin Kind => applied' = applied
    BY <1>2, EventCases DEF ApplyEvent, Kind, Rate
  <1>5. ASSUME NEW p \in Pair, NEW k \in Kind
        PROVE  applied'[p][k] = IF e.kind = k /\ e.pair = p THEN e.n ELSE applied[p][k]
    <2>1. CASE e.kind \in Kind
      <3>1. e.n = applied[e.pair][e.kind] + 1
        BY <1>1, <2>1, NextInFlight
      <3>2. applied \in [Pair -> [Kind -> Nat]] /\ e.pair \in Pair
        BY <1>2, <1>3 DEF PairSyncTypeOK
      <3> HIDE DEF e
      <3> QED  BY <1>4, <2>1, <3>1, <3>2
    <2>2. CASE e.kind \notin Kind
      BY <1>4, <2>2
    <2> QED  BY <2>1, <2>2
  <1>6. \A p, k : \A i : i \in InFlight(p, k)' <=> i \in DOMAIN feed' /\ i + 1 \in InFlight(p, k)
    BY <1>2 DEF InFlight
  <1> HIDE DEF e
  <1>7. InOrder'
    <2> SUFFICES ASSUME NEW i \in DOMAIN feed', feed'[i].kind \in Kind,
                        NEW p, NEW k, NEW n, p = feed'[i].pair, k = feed'[i].kind, n = feed'[i].n
                 PROVE  /\ applied'[p][k] < n /\ n < Len(log'[p][k])
                        /\ \A j \in InFlight(p, k)' : j > i => n < feed'[j].n
                        /\ k \in Rate => feed'[i].val = log'[p][k][n + 1]
                        /\ k = "oi" => \A s \in Side :
                             log'[p][k][n + 1][s] = log'[p][k][n][s] + feed'[i].val[s]
      BY DEF InOrder
    <2>1. feed'[i] = feed[i + 1] /\ i + 1 \in DOMAIN feed /\ p \in Pair /\ i \in Nat
      BY <1>2, <1>3
    <2>2. /\ applied[p][k] < n /\ n < Len(log[p][k])
          /\ \A j \in InFlight(p, k) : j > i + 1 => n < feed[j].n
          /\ k \in Rate => feed[i + 1].val = log[p][k][n + 1]
          /\ k = "oi" => \A s \in Side : log[p][k][n + 1][s] = log[p][k][n][s] + feed[i + 1].val[s]
      BY <2>1 DEF FeedInv, InOrder
    <2>3. applied'[p][k] < n
      <3>1. CASE e.kind = k /\ e.pair = p
        <4>1. i + 1 \in InFlight(p, k) /\ i + 1 > 1
          BY <1>2, <2>1 DEF InFlight
        <4>2. e.n < feed[i + 1].n
          BY <1>2, <3>1, <4>1 DEF FeedInv, InOrder, e
        <4> QED  BY <1>5, <2>1, <3>1, <4>2
      <3>2. CASE ~(e.kind = k /\ e.pair = p)
        BY <1>5, <2>1, <2>2, <3>2
      <3> QED  BY <3>1, <3>2
    <2>4. ASSUME NEW j \in InFlight(p, k)', j > i PROVE n < feed'[j].n
      <3>1. j \in DOMAIN feed' /\ j + 1 \in InFlight(p, k) /\ feed'[j] = feed[j + 1] /\ j \in Nat
        BY <1>2, <1>6
      <3> QED  BY <2>1, <2>2, <2>4, <3>1
    <2> QED  BY <1>1, <2>1, <2>2, <2>3, <2>4
  <1>8. NoneLost'
    <2> SUFFICES ASSUME NEW p \in Pair, NEW k \in Kind, NEW m \in 1 .. Len(log[p][k]) - 1,
                        m > applied'[p][k]
                 PROVE  \E i \in InFlight(p, k)' : feed'[i].n = m
      BY <1>1 DEF NoneLost
    <2>1. m > applied[p][k] /\ (e.kind = k /\ e.pair = p => m # e.n)
      <3>1. applied[p][k] \in Nat /\ Len(log[p][k]) \in Nat
        BY LogTypes
      <3>2. e.kind = k /\ e.pair = p => e.n > applied[p][k] /\ e.n \in Nat
        BY <1>2, <1>3 DEF FeedInv, InOrder, e
      <3> QED  BY <1>5, <3>1, <3>2
    <2>2. PICK i \in InFlight(p, k) : feed[i].n = m
      BY <2>1 DEF FeedInv, NoneLost
    <2>3. i \in DOMAIN feed /\ i # 1
      BY <2>1, <2>2 DEF InFlight, e
    <2>4. i - 1 \in DOMAIN feed' /\ (i - 1) + 1 = i
      BY <1>2, <2>3
    <2>5. i - 1 \in InFlight(p, k)' /\ feed'[i - 1].n = m
      BY <1>2, <1>6, <2>2, <2>4
    <2> QED  BY <2>5
  <1>9. LogCurrent'
    <2> SUFFICES ASSUME NEW p \in Pair, NEW k \in Kind PROVE applied'[p][k] < Len(log[p][k])
      BY <1>1 DEF LogCurrent, FeedInv
    <2>1. e.kind = k /\ e.pair = p => e.n < Len(log[p][k])
      BY <1>2 DEF FeedInv, InOrder, e
    <2> QED  BY <1>5, <2>1 DEF FeedInv, LogCurrent
  <1> QED  BY <1>7, <1>8, <1>9 DEF FeedInv

(* What an operation of the contract appends: to the log of one kind, the    *)
(* new value; to the feed, the event that leads there.                       *)
LEMMA OperateFeed ==
  ASSUME PairSyncTypeOK, FeedInv, NEW p \in Pair, NEW r \in Registered, NEW kind \in Kind,
         NEW evs \in Seq(Events), Operate(p, r, kind, evs),
         Len(evs) >= 1, evs[1] = Event(kind, p, evs[1].val),
         \A i \in 2 .. Len(evs) : evs[i].kind \notin Kind,
         \A k \in Kind \ {kind} : Logged(r, k) = Logged(reg[p], k),
         kind \in Rate => evs[1].val = Logged(r, kind),
         kind = "oi" => \A s \in Side : r.oi[s] = reg[p].oi[s] + evs[1].val[s]
  PROVE  FeedInv'
  <1> DEFINE N == Len(log[p][kind])
             F == Len(feed)
             e == evs[1]
  <1>1. feed \in Seq(Events) /\ F \in Nat /\ Len(evs) \in Nat /\ N \in Nat \ {0}
    BY LogTypes DEF PairSyncTypeOK
  <1>2. /\ feed' = feed \o evs /\ applied' = applied /\ reg' = [reg EXCEPT ![p] = r]
        /\ log' = [log EXCEPT ![p][kind] = Append(log[p][kind], Logged(r, kind))]
    BY DEF Operate
  <1>3. /\ DOMAIN feed = 1 .. F
        /\ DOMAIN feed' = 1 .. F + Len(evs)
        /\ \A i \in 1 .. F : feed'[i] = feed[i]
        /\ \A i \in 1 .. Len(evs) : feed'[F + i] = evs[i]
    BY <1>1, <1>2
  <1>4. e.kind = kind /\ e.pair = p /\ e.n = N /\ e.val = evs[1].val
    BY DEF Event
  <1>5. ASSUME NEW q \in Pair, NEW k \in Kind, ~(q = p /\ k = kind)
        PROVE  log'[q][k] = log[q][k]
    BY <1>2, <1>5 DEF PairSyncTypeOK, LogTypeOK
  <1>6. /\ Len(log'[p][kind]) = N + 1
        /\ \A i \in 1 .. N : log'[p][kind][i] = log[p][kind][i]
        /\ log'[p][kind][N + 1] = Logged(r, kind)
    <2>1. log'[p][kind] = Append(log[p][kind], Logged(r, kind))
      BY <1>2 DEF PairSyncTypeOK, LogTypeOK
    <2>2. PICK S : log[p][kind] \in Seq(S)
      BY LogTypes
    <2> QED  BY <2>1, <2>2
  <1>7. ASSUME NEW q \in Pair, NEW k \in Kind
        PROVE  /\ Len(log[q][k]) \in Nat /\ Len(log'[q][k]) \in Nat
               /\ Len(log[q][k]) <= Len(log'[q][k])
               /\ \A i \in 1 .. Len(log[q][k]) : log'[q][k][i] = log[q][k][i]
    <2>1. Len(log[q][k]) \in Nat
      BY LogTypes
    <2>2. CASE q = p /\ k = kind
      BY <1>1, <1>6, <2>2
    <2>3. CASE ~(q = p /\ k = kind)
      BY <1>5, <2>1, <2>3
    <2> QED  BY <2>2, <2>3
  <1>8. \A i \in DOMAIN feed : feed[i].pair \in Pair /\ feed[i].n \in Nat
    <2>1. \A i \in DOMAIN feed : feed[i] \in Events
      BY DEF PairSyncTypeOK
    <2> QED  BY <2>1, EventCases
  <1>9. \A i \in DOMAIN feed' : feed'[i].kind \in Kind => i \in 1 .. F \/ (i = F + 1 /\ feed'[i] = e)
    <2> SUFFICES ASSUME NEW i \in DOMAIN feed', i \notin 1 .. F, feed'[i].kind \in Kind
                 PROVE  i = F + 1 /\ feed'[i] = e
      OBVIOUS
    <2>1. PICK j \in 1 .. Len(evs) : i = F + j
      <3>1. i - F \in 1 .. Len(evs) /\ i = F + (i - F)
        BY <1>1, <1>3
      <3> QED  BY <3>1
    <2>2. feed'[i] = evs[j]
      BY <1>3, <2>1
    <2>3. j = 1
      BY <1>1, <2>2
    <2> QED  BY <2>1, <2>2, <2>3
  <1>10. feed'[F + 1] = e /\ F + 1 \in DOMAIN feed'
    <2>1. 1 \in 1 .. Len(evs)
      BY <1>1
    <2>2. feed'[F + 1] = evs[1]
      BY <1>3, <2>1
    <2> HIDE DEF F, e
    <2>3. F + 1 \in 1 .. F + Len(evs)
      BY <1>1
    <2> QED  BY <1>3, <2>2, <2>3 DEF e
  <1> HIDE DEF N, F, e
  <1>14. applied' = applied
    BY <1>2
  <1>11. InOrder'
    <2> SUFFICES ASSUME NEW i \in DOMAIN feed', feed'[i].kind \in Kind,
                        NEW q, NEW k, NEW n, q = feed'[i].pair, k = feed'[i].kind, n = feed'[i].n
                 PROVE  /\ applied[q][k] < n /\ n < Len(log'[q][k])
                        /\ \A j \in InFlight(q, k)' : j > i => n < feed'[j].n
                        /\ k \in Rate => feed'[i].val = log'[q][k][n + 1]
                        /\ k = "oi" => \A s \in Side :
                             log'[q][k][n + 1][s] = log'[q][k][n][s] + feed'[i].val[s]
      BY <1>14 DEF InOrder
    <2>1. CASE i \in 1 .. F
      <3>1. feed'[i] = feed[i] /\ i \in DOMAIN feed /\ q \in Pair /\ n \in Nat
        BY <1>3, <1>8, <2>1
      <3>2. /\ applied[q][k] < n /\ n < Len(log[q][k])
            /\ \A j \in InFlight(q, k) : j > i => n < feed[j].n
            /\ k \in Rate => feed[i].val = log[q][k][n + 1]
            /\ k = "oi" => \A s \in Side : log[q][k][n + 1][s] = log[q][k][n][s] + feed[i].val[s]
        BY <3>1 DEF FeedInv, InOrder
      <3>3. applied[q][k] \in Nat /\ n \in 1 .. Len(log[q][k]) /\ n + 1 \in 1 .. Len(log[q][k])
        BY <1>7, <3>1, <3>2, LogTypes, SMTT(20)
      <3>4. log'[q][k][n] = log[q][k][n] /\ log'[q][k][n + 1] = log[q][k][n + 1]
        BY <1>7, <3>1, <3>3
      <3>5. ASSUME NEW j \in InFlight(q, k)', j > i PROVE n < feed'[j].n
        <4>1. j \in DOMAIN feed' /\ feed'[j].pair = q /\ feed'[j].kind = k
          BY DEF InFlight
        <4>2. CASE j \in 1 .. F
          <5>1. feed'[j] = feed[j] /\ j \in InFlight(q, k)
            BY <1>3, <4>1, <4>2 DEF InFlight
          <5> QED  BY <3>2, <3>5, <5>1
        <4>3. CASE feed'[j] = e
          BY <1>4, <3>2, <4>1, <4>3 DEF N
        <4> QED  BY <1>9, <4>1, <4>2, <4>3
      <3>6. n < Len(log'[q][k])
        BY <1>7, <3>1, <3>2, SMTT(20)
      <3> QED  BY <3>1, <3>2, <3>4, <3>5, <3>6
    <2>2. CASE i = F + 1 /\ feed'[i] = e
      <3>1. q = p /\ k = kind /\ n = N
        BY <1>4, <2>2
      <3>2. applied[p][kind] < N /\ log[p][kind][N] = Logged(reg[p], kind)
        BY DEF FeedInv, LogCurrent, N
      <3>3. ASSUME NEW j \in InFlight(q, k)', j > i PROVE FALSE
        <4>1. j \in DOMAIN feed' /\ feed'[j].kind \in Kind
          BY <3>1 DEF InFlight
        <4> QED  BY <1>1, <1>9, <2>2, <3>3, <4>1
      <3>4. log'[p][kind][N + 1] = Logged(r, kind) /\ log'[p][kind][N] = Logged(reg[p], kind)
        BY <1>1, <1>6, <3>2
      <3>5. k \in Rate => feed'[i].val = log'[q][k][n + 1]
        BY <1>4, <2>2, <3>1, <3>4
      <3>6. k = "oi" => \A s \in Side : log'[q][k][n + 1][s] = log'[q][k][n][s] + feed'[i].val[s]
        BY <1>4, <2>2, <3>1, <3>4 DEF Logged
      <3> QED  BY <1>1, <1>6, <3>1, <3>2, <3>3, <3>5, <3>6
    <2> QED  BY <1>9, <2>1, <2>2
  <1>12. NoneLost'
    <2> SUFFICES ASSUME NEW q \in Pair, NEW k \in Kind, NEW m \in 1 .. Len(log'[q][k]) - 1,
                        m > applied[q][k]
                 PROVE  \E i \in InFlight(q, k)' : feed'[i].n = m
      BY <1>14 DEF NoneLost
    <2>1. CASE m \in 1 .. Len(log[q][k]) - 1
      <3>1. PICK i \in InFlight(q, k) : feed[i].n = m
        BY <2>1 DEF FeedInv, NoneLost
      <3>2. i \in DOMAIN feed /\ i \in DOMAIN feed' /\ feed'[i] = feed[i]
        BY <1>1, <1>3 DEF InFlight
      <3> QED  BY <3>1, <3>2 DEF InFlight
    <2>2. CASE m \notin 1 .. Len(log[q][k]) - 1
      <3>1. q = p /\ k = kind
        BY <1>5, <2>2
      <3>2. m = N
        BY <1>1, <1>6, <2>2, <3>1, SMTT(20) DEF N
      <3> QED  BY <1>4, <1>10, <3>1, <3>2 DEF InFlight
    <2> QED  BY <2>1, <2>2
  <1>13. LogCurrent'
    <2> SUFFICES ASSUME NEW q \in Pair, NEW k \in Kind
                 PROVE  /\ applied[q][k] < Len(log'[q][k])
                        /\ log'[q][k][Len(log'[q][k])] = Logged(reg'[q], k)
      BY <1>2 DEF LogCurrent
    <2>1. /\ applied[q][k] \in Nat /\ applied[q][k] < Len(log[q][k])
          /\ log[q][k][Len(log[q][k])] = Logged(reg[q], k)
      BY LogTypes DEF FeedInv, LogCurrent
    <2>2. reg'[q] = IF q = p THEN r ELSE reg[q]
      BY <1>2 DEF PairSyncTypeOK
    <2>3. CASE q = p /\ k = kind
      BY <1>1, <1>6, <2>1, <2>2, <2>3, SMTT(20) DEF N
    <2>4. CASE ~(q = p /\ k = kind)
      BY <1>5, <2>1, <2>2, <2>4
    <2> QED  BY <2>3, <2>4
  <1> QED  BY <1>11, <1>12, <1>13 DEF FeedInv

-----------------------------------------------------------------------------
(* The contract's operations on a pair, in one form: its threshold changes,  *)
(* or its accumulators are brought up to date and one rate or its open       *)
(* interest changes, with the event of it; a trade may be opened with it.    *)
Opens(p, r, evs) ==
  /\ opened = NoRow /\ opened' \in Trade
  /\ opened'.pair = p /\ opened'.roll = r.roll /\ opened'.ledger = now
  /\ opened'.fund \in {r.long, r.short}
  /\ Len(evs) = 2 /\ evs[2] = Event("opened", p, opened')

Operation(p, r, kind, evs) ==
  /\ Operate(p, r, kind, evs)
  /\ \/ /\ kind = "thr" /\ evs = <<>> /\ opened' = opened
        /\ r.roll = reg[p].roll /\ r.long = reg[p].long /\ r.short = reg[p].short
        /\ r.last = reg[p].last /\ r.oi = reg[p].oi /\ r.rate = reg[p].rate
     \/ /\ kind \in Kind /\ Len(evs) >= 1 /\ evs[1] = Event(kind, p, evs[1].val)
        /\ r.thr = reg[p].thr /\ r.roll = View(reg[p], now).roll /\ r.last = now
        /\ r.long = View(reg[p], now).long /\ r.short = View(reg[p], now).short
        /\ \A k \in Kind \ {kind} : Logged(r, k) = Logged(reg[p], k)
        /\ kind \in Rate => evs[1].val = Logged(r, kind)
        /\ kind = "oi" => \A s \in Side : r.oi[s] = reg[p].oi[s] + evs[1].val[s]
        /\ (Len(evs) = 1 /\ opened' = opened) \/ Opens(p, r, evs)

(* Sequences of one and two events.                                         *)
LEMMA ShortSequences ==
  ASSUME NEW S, NEW a \in S, NEW b \in S
  PROVE  /\ <<>> \in Seq(S)
         /\ <<a>> \in Seq(S) /\ Len(<<a>>) = 1 /\ <<a>>[1] = a
         /\ <<a, b>> \in Seq(S) /\ Len(<<a, b>>) = 2 /\ <<a, b>>[1] = a /\ <<a, b>>[2] = b
  OBVIOUS

(* Opening, closing and the like move open interest by what they emit.      *)
LEMMA OiOperation ==
  ASSUME PairSyncTypeOK, NEW p \in Pair, NEW d \in [Side -> Int], NEW evs \in Seq(Events),
         \A s \in Side : reg[p].oi[s] + d[s] >= 0,
         Len(evs) >= 1, evs[1] = Event("oi", p, d),
         Operate(p, AddedOi(reg[p], d), "oi", evs),
         (Len(evs) = 1 /\ opened' = opened) \/ Opens(p, AddedOi(reg[p], d), evs)
  PROVE  /\ AddedOi(reg[p], d) \in Registered
         /\ Operation(p, AddedOi(reg[p], d), "oi", evs)
  <1> DEFINE a == Accrued(reg[p])
             r == AddedOi(reg[p], d)
  <1>1. r \in Registered /\ r = [a EXCEPT !.oi = [s \in Side |-> reg[p].oi[s] + d[s]]]
    BY AddedOiType
  <1>2. a \in Registered /\ a.roll = View(reg[p], now).roll /\ a.long = View(reg[p], now).long
        /\ a.short = View(reg[p], now).short /\ a.last = now /\ a.thr = reg[p].thr
        /\ a.oi = reg[p].oi /\ a.rate = reg[p].rate
    BY AccruedType
  <1> HIDE DEF a, r
  <1>3. /\ r.roll = a.roll /\ r.long = a.long /\ r.short = a.short /\ r.last = a.last
        /\ r.thr = a.thr /\ r.rate = a.rate /\ r.oi = [s \in Side |-> reg[p].oi[s] + d[s]]
    BY <1>1, <1>2 DEF Registered
  <1>4. \A k \in Kind \ {"oi"} : Logged(r, k) = Logged(reg[p], k)
    BY <1>2, <1>3 DEF Logged
  <1>5. \A s \in Side : r.oi[s] = reg[p].oi[s] + d[s]
    BY <1>3
  <1>6. evs[1].val = d
    BY DEF Event
  <1>7. Operation(p, r, "oi", evs)
    BY <1>2, <1>3, <1>4, <1>5, <1>6 DEF Operation, Kind, Rate, r
  <1> QED  BY <1>1, <1>7 DEF r

(* Whatever the contracts do closes a ledger or is one operation.           *)
LEMMA ContractOperates ==
  ASSUME PairSyncTypeOK, Contract
  PROVE  \/ CloseLedger
         \/ \E p \in Pair, r \in Registered, kind \in Kind \cup {"thr"}, evs \in Seq(Events) :
              Operation(p, r, kind, evs)
  <1>2. ASSUME NEW p \in Active, NEW kind \in Rate, NEW rate \in Rates, SetRate(p, kind, rate)
        PROVE  \E r \in Registered, evs \in Seq(Events) : Operation(p, r, kind, evs)
    <2> DEFINE a == Accrued(reg[p])
               r == [a EXCEPT !.rate[kind] = rate]
               evs == <<Event(kind, p, rate)>>
    <2>1. p \in Pair /\ rate \in Nat
      BY PairSyncAssumption
    <2>2. a \in Registered /\ a.roll = View(reg[p], now).roll /\ a.long = View(reg[p], now).long
          /\ a.short = View(reg[p], now).short /\ a.last = now /\ a.thr = reg[p].thr
          /\ a.oi = reg[p].oi /\ a.rate = reg[p].rate
      BY <2>1, AccruedType
    <2>3. Operate(p, r, kind, evs) /\ opened' = opened
      BY <1>2 DEF SetRate
    <2>4. evs \in Seq(Events) /\ Len(evs) = 1 /\ evs[1] = Event(kind, p, rate)
      BY <2>1, EventType
    <2>5. evs[1].val = rate
      BY <2>4 DEF Event
    <2> HIDE DEF a, evs
    <2>6. r \in Registered
      BY <2>1, <2>2 DEF Registered
    <2>7. /\ r.roll = a.roll /\ r.long = a.long /\ r.short = a.short /\ r.last = a.last
          /\ r.thr = a.thr /\ r.oi = a.oi /\ r.rate = [a.rate EXCEPT ![kind] = rate]
      BY <2>2 DEF Registered
    <2> HIDE DEF r
    <2>8. \A k \in Kind \ {kind} : Logged(r, k) = Logged(reg[p], k)
      <3>1. a.rate \in [Rate -> Nat]
        BY <2>2 DEF Registered
      <3> QED  BY <2>2, <2>7, <3>1 DEF Logged, Kind
    <2>9. Logged(r, kind) = rate /\ kind # "oi" /\ kind \in Kind
      <3>1. a.rate \in [Rate -> Nat]
        BY <2>2 DEF Registered
      <3> QED  BY <2>7, <3>1 DEF Logged, Kind, Rate
    <2>10. Operation(p, r, kind, evs)
      BY <2>2, <2>3, <2>4, <2>5, <2>7, <2>8, <2>9 DEF Operation
    <2> QED  BY <2>4, <2>6, <2>10
  <1>3. ASSUME NEW p \in Active, NEW side \in Side, NEW n \in Amounts,
               AddOi(p, side, n) \/ SubOi(p, side, n)
        PROVE  \E r \in Registered, evs \in Seq(Events) : Operation(p, r, "oi", evs)
    <2>1. p \in Pair /\ n \in Nat /\ \A s \in Side : reg[p].oi[s] \in Nat
      BY PairSyncAssumption DEF PairSyncTypeOK, Registered, OiRow
    <2>2. PICK d \in [Side -> Int] : /\ \A s \in Side : reg[p].oi[s] + d[s] >= 0
                                     /\ Operate(p, AddedOi(reg[p], d), "oi", <<Event("oi", p, d)>>)
                                     /\ opened' = opened
      <3>1. CASE AddOi(p, side, n)
        <4>1. Delta(side, n) \in [Side -> Int]
          BY <2>1, DeltaType
        <4>2. \A s \in Side : reg[p].oi[s] + Delta(side, n)[s] >= 0
          BY <2>1 DEF Delta
        <4> QED  BY <3>1, <4>1, <4>2 DEF AddOi
      <3>2. CASE SubOi(p, side, n)
        <4>1. Delta(side, -n) \in [Side -> Int]
          BY <2>1, DeltaType
        <4>2. \A s \in Side : reg[p].oi[s] + Delta(side, -n)[s] >= 0
          BY <2>1, <3>2 DEF Delta, SubOi
        <4> QED  BY <3>2, <4>1, <4>2 DEF SubOi
      <3> QED  BY <1>3, <3>1, <3>2
    <2>3. Event("oi", p, d) \in Events
      BY <2>1, EventType
    <2>4. PICK evs \in Seq(Events) : evs = <<Event("oi", p, d)>> /\ Len(evs) = 1 /\ evs[1] = Event("oi", p, d)
      BY <2>3, ShortSequences
    <2>5. Operate(p, AddedOi(reg[p], d), "oi", evs)
      BY <2>2, <2>4
    <2>6. AddedOi(reg[p], d) \in Registered /\ Operation(p, AddedOi(reg[p], d), "oi", evs)
      <3>1. \A s \in Side : reg[p].oi[s] + d[s] >= 0
        BY <2>2
      <3>2. Len(evs) >= 1 /\ evs[1] = Event("oi", p, d) /\ Len(evs) = 1 /\ opened' = opened
        BY <2>2, <2>4
      <3> QED  BY <2>1, <2>5, <3>1, <3>2, OiOperation, Zenon
    <2> QED  BY <2>6
  <1>4. ASSUME NEW p \in Active, NEW thr \in Thresholds, SetThreshold(p, thr)
        PROVE  \E r \in Registered, evs \in Seq(Events) : Operation(p, r, "thr", evs)
    <2>1. reg[p] \in Registered
      BY PairSyncAssumption DEF PairSyncTypeOK
    <2>2. PICK r \in Registered : r = [reg[p] EXCEPT !.thr = thr]
      BY <2>1 DEF Registered
    <2>3. Operate(p, r, "thr", <<>>) /\ opened' = opened
      BY <1>4, <2>2 DEF SetThreshold
    <2>4. /\ r.roll = reg[p].roll /\ r.long = reg[p].long /\ r.short = reg[p].short
          /\ r.last = reg[p].last /\ r.oi = reg[p].oi /\ r.rate = reg[p].rate
      BY <2>1, <2>2 DEF Registered
    <2>5. Operation(p, r, "thr", <<>>)
      BY <2>3, <2>4 DEF Operation
    <2>6. <<>> \in Seq(Events)
      OBVIOUS
    <2> QED  BY <2>5, <2>6
  <1>5. ASSUME NEW p \in Active, NEW t \in Trades, OpenTrade(p, t)
        PROVE  \E r \in Registered, evs \in Seq(Events) : Operation(p, r, "oi", evs)
    <2> DEFINE d == Delta(IF t.long THEN "long" ELSE "short", t.coll * t.lev)
               r == AddedOi(reg[p], d)
               trade == [pair |-> p, terms |-> t, roll |-> r.roll, ledger |-> now,
                         fund |-> IF t.long THEN r.long ELSE r.short]
    <2>1. p \in Pair /\ t.coll * t.lev \in Nat /\ \A s \in Side : reg[p].oi[s] \in Nat
      BY PairSyncAssumption DEF PairSyncTypeOK, Registered, OiRow
    <2>2. d \in [Side -> Int]
      BY <2>1, DeltaType
    <2>3. \A s \in Side : reg[p].oi[s] + d[s] >= 0
      BY <2>1 DEF Delta
    <2>4. r \in Registered
      BY <2>1, <2>2, <2>3, AddedOiType
    <2>5. opened = NoRow /\ opened' = trade
          /\ Operate(p, r, "oi", <<Event("oi", p, d), Event("opened", p, trade)>>)
      BY <1>5 DEF OpenTrade
    <2> HIDE DEF d
    <2>6. trade \in Trade /\ trade.pair = p /\ trade.roll = r.roll /\ trade.ledger = now
          /\ trade.fund \in {r.long, r.short}
      BY <2>1, <2>4 DEF Registered, PairSyncTypeOK, Trade
    <2> HIDE DEF trade
    <2>10. Event("oi", p, d) \in Events /\ Event("opened", p, trade) \in Events
      BY <2>1, <2>2, <2>6, EventType
    <2>7. PICK evs \in Seq(Events) : /\ evs = <<Event("oi", p, d), Event("opened", p, trade)>>
                                     /\ Len(evs) = 2 /\ evs[1] = Event("oi", p, d)
                                     /\ evs[2] = Event("opened", p, trade)
      <3>1. \A a, b \in Events : /\ <<a, b>> \in Seq(Events) /\ Len(<<a, b>>) = 2
                                 /\ <<a, b>>[1] = a /\ <<a, b>>[2] = b
        OBVIOUS
      <3> QED  BY <2>10, <3>1, ZenonT(30)
    <2>11. Operate(p, AddedOi(reg[p], d), "oi", evs)
      BY <2>5, <2>7
    <2>8. Opens(p, r, evs)
      BY <2>5, <2>6, <2>7 DEF Opens
    <2>9. Operation(p, r, "oi", evs)
      <3>1. Len(evs) >= 1 /\ evs[1] = Event("oi", p, d)
        BY <2>7
      <3>2. p \in Pair /\ \A s \in Side : reg[p].oi[s] + d[s] >= 0
        BY <2>1, <2>3
      <3> QED  BY <2>2, <2>8, <2>11, <3>1, <3>2, OiOperation, Zenon
    <2> QED  BY <2>4, <2>9
  <1>6. "oi" \in Kind /\ Rate \subseteq Kind /\ Active \subseteq Pair
    BY PairSyncAssumption DEF Kind
  <1> QED  BY <1>2, <1>3, <1>4, <1>5, <1>6 DEF Contract

(* An operation appends to log and feed what it did.                        *)
LEMMA OperationFeed ==
  ASSUME PairSyncTypeOK, FeedInv, NEW p \in Pair, NEW r \in Registered,
         NEW kind \in Kind \cup {"thr"}, NEW evs \in Seq(Events), Operation(p, r, kind, evs)
  PROVE  FeedInv'
  <1>1. CASE kind = "thr"
    <2>1. kind \notin Kind
      BY <1>1 DEF Kind, Rate
    <2>2. log' = log /\ applied' = applied /\ feed' = feed \o evs /\ reg' = [reg EXCEPT ![p] = r]
      BY <2>1 DEF Operation, Operate
    <2>3. evs = <<>> /\ r.oi = reg[p].oi /\ r.rate = reg[p].rate
      BY <2>1 DEF Operation
    <2>4. feed' = feed
      BY <2>2, <2>3 DEF PairSyncTypeOK
    <2>5. \A q \in Pair, k \in Kind : Logged(reg'[q], k) = Logged(reg[q], k)
      BY <2>2, <2>3 DEF Logged, PairSyncTypeOK
    <2>6. InOrder' /\ NoneLost'
      BY <2>2, <2>4 DEF FeedInv, InOrder, NoneLost, InFlight
    <2>7. LogCurrent'
      BY <2>2, <2>5 DEF FeedInv, LogCurrent
    <2> QED  BY <2>6, <2>7 DEF FeedInv
  <1>2. CASE kind \in Kind
    <2>1. kind # "thr"
      BY <1>2 DEF Kind, Rate
    <2>2. /\ Operate(p, r, kind, evs)
          /\ Len(evs) >= 1 /\ evs[1] = Event(kind, p, evs[1].val)
          /\ \A k \in Kind \ {kind} : Logged(r, k) = Logged(reg[p], k)
          /\ kind \in Rate => evs[1].val = Logged(r, kind)
          /\ kind = "oi" => \A s \in Side : r.oi[s] = reg[p].oi[s] + evs[1].val[s]
          /\ Len(evs) = 1 \/ (Len(evs) = 2 /\ evs[2] = Event("opened", p, opened'))
      BY <2>1 DEF Operation, Opens
    <2>3. ASSUME NEW i \in 2 .. Len(evs) PROVE evs[i].kind \notin Kind
      <3>0. Len(evs) \in Nat /\ (Len(evs) = 1 \/ (Len(evs) = 2 /\ evs[2] = Event("opened", p, opened')))
        BY <2>2
      <3>3. Len(evs) # 1
        <4> SUFFICES ASSUME Len(evs) = 1 PROVE FALSE
          OBVIOUS
        <4>1. i \in 2 .. 1
          OBVIOUS
        <4> QED  BY <4>1
      <3>4. Len(evs) = 2 /\ evs[2] = Event("opened", p, opened')
        BY <3>0, <3>3
      <3>5. i \in 2 .. 2
        BY <3>4
      <3>1. i = 2 /\ evs[2] = Event("opened", p, opened')
        BY <3>4, <3>5
      <3>2. evs[2].kind = "opened"
        BY <3>1 DEF Event
      <3> QED  BY <3>1, <3>2 DEF Kind, Rate
    <2> QED  BY <1>2, <2>2, <2>3, OperateFeed, Zenon
  <1> QED  BY <1>1, <1>2

(* A sequence of one element.                                               *)
LEMMA Singleton ==
  ASSUME NEW a
  PROVE  Len(<<a>>) = 1 /\ <<a>>[1] = a
  OBVIOUS

(* The feed is in order initially.                                          *)
LEMMA FeedInit == Init => FeedInv
  <1> SUFFICES ASSUME Init PROVE FeedInv
    OBVIOUS
  <1>1. feed = <<>>
    BY DEF Init
  <1>2. \A p \in Pair, k \in Kind : log[p][k] = <<Logged(reg[p], k)>> /\ applied[p][k] = 0
    BY DEF Init
  <1>3. ASSUME NEW p \in Pair, NEW k \in Kind
        PROVE  Len(log[p][k]) = 1 /\ log[p][k][1] = Logged(reg[p], k)
    BY <1>2, Singleton, Zenon
  <1>4. InOrder
    BY <1>1 DEF InOrder
  <1>5. NoneLost
    <2>1. ASSUME NEW p \in Pair, NEW k \in Kind PROVE 1 .. Len(log[p][k]) - 1 = {}
      <3>1. PICK n \in Nat : n = Len(log[p][k]) /\ n = 1
        BY <1>3
      <3>2. 1 .. n - 1 = {}
        BY <3>1
      <3> QED  BY <3>1, <3>2
    <2> QED  BY <2>1 DEF NoneLost
  <1>6. LogCurrent
    BY <1>2, <1>3 DEF LogCurrent
  <1> QED  BY <1>4, <1>5, <1>6 DEF FeedInv

(* The remaining steps leave contracts, log and feed alone.                 *)
LEMMA OtherSteps ==
  ASSUME CloseLedger \/ StartPass \/ PairIndexer \/ KeeperStart \/ KeeperRefresh
  PROVE  UNCHANGED <<reg, opened, log, ops, feed, applied>>
  BY DEF CloseLedger, StartPass, PairIndexer, KeeperStart, KeeperRefresh, chainVars, CallContract,
         CallRetries, CallFails, UpsertPair, WriteFees, WriteOi, UpsertGroup, StatementFails, EndPass,
         Interrupted

(* Every step keeps the feed in order and complete.                         *)
LEMMA FeedStep == PairSyncTypeOK /\ FeedInv /\ [Next]_vars => FeedInv'
  <1> SUFFICES ASSUME PairSyncTypeOK, FeedInv, [Next]_vars PROVE FeedInv'
    OBVIOUS
  <1>1. CASE UNCHANGED <<reg, opened, log, ops, feed, applied>>
    BY <1>1 DEF FeedInv, InOrder, NoneLost, LogCurrent, InFlight
  <1>2. CASE ApplyEvent
    BY <1>2, ApplyFeed
  <1>3. ASSUME NEW p \in Pair, NEW r \in Registered, NEW kind \in Kind \cup {"thr"},
               NEW evs \in Seq(Events), Operation(p, r, kind, evs)
        PROVE  FeedInv'
    BY <1>3, OperationFeed
  <1>4. CASE Contract
    BY <1>1, <1>3, <1>4, ContractOperates, OtherSteps
  <1> QED  BY <1>1, <1>2, <1>4, OtherSteps DEF Next, vars, chainVars

(* Only the contracts move the contracts' state.                            *)
LEMMA ChainStays ==
  ASSUME ApplyEvent \/ StartPass \/ PairIndexer \/ KeeperStart \/ KeeperRefresh
  PROVE  UNCHANGED chainVars
  BY DEF ApplyEvent, StartPass, PairIndexer, KeeperStart, KeeperRefresh, CallContract,
         CallRetries, CallFails, UpsertPair, WriteFees, WriteOi, UpsertGroup, StatementFails, EndPass,
         Interrupted

(* The contracts touch neither tables, pass nor keeper.                     *)
LEMMA ContractFrame ==
  ASSUME Contract
  PROVE  UNCHANGED <<applied, tb, exact, job, passes, keeper>>
  <1>1. ASSUME NEW p, NEW r, NEW kind, NEW evs, Operate(p, r, kind, evs)
        PROVE  UNCHANGED <<applied, tb, exact, job, passes, keeper>>
    BY <1>1 DEF Operate
  <1>2. CASE CloseLedger
    BY <1>2 DEF CloseLedger
  <1>3. ASSUME NEW p \in Active, NEW kind \in Rate, NEW rate \in Rates, SetRate(p, kind, rate)
        PROVE  UNCHANGED <<applied, tb, exact, job, passes, keeper>>
    BY <1>1, <1>3, Zenon DEF SetRate
  <1>4. ASSUME NEW p \in Active, NEW side \in Side, NEW n \in Amounts,
               AddOi(p, side, n) \/ SubOi(p, side, n)
        PROVE  UNCHANGED <<applied, tb, exact, job, passes, keeper>>
    BY <1>1, <1>4, Zenon DEF AddOi, SubOi
  <1>5. ASSUME NEW p \in Active, NEW thr \in Thresholds, SetThreshold(p, thr)
        PROVE  UNCHANGED <<applied, tb, exact, job, passes, keeper>>
    BY <1>1, <1>5, Zenon DEF SetThreshold
  <1>6. ASSUME NEW p \in Active, NEW t \in Trades, OpenTrade(p, t)
        PROVE  UNCHANGED <<applied, tb, exact, job, passes, keeper>>
    BY <1>1, <1>6, Zenon DEF OpenTrade
  <1> QED  BY <1>2, <1>3, <1>4, <1>5, <1>6, Zenon DEF Contract

(* A log only grows.                                                        *)
LEMMA LogGrows ==
  ASSUME PairSyncTypeOK, [Next]_vars, NEW p \in Pair, NEW k \in Kind
  PROVE  /\ Len(log[p][k]) \in Nat /\ Len(log'[p][k]) \in Nat
         /\ Len(log[p][k]) <= Len(log'[p][k])
         /\ \A i \in 1 .. Len(log[p][k]) : log'[p][k][i] = log[p][k][i]
  <1>0. Len(log[p][k]) \in Nat
    BY LogTypes
  <1>1. CASE log' = log
    BY <1>0, <1>1
  <1>2. ASSUME NEW q \in Pair, NEW r \in Registered, NEW kind \in Kind \cup {"thr"},
               NEW evs \in Seq(Events), Operation(q, r, kind, evs), kind \in Kind
        PROVE  /\ Len(log'[p][k]) \in Nat /\ Len(log[p][k]) <= Len(log'[p][k])
               /\ \A i \in 1 .. Len(log[p][k]) : log'[p][k][i] = log[p][k][i]
    <2>1. log' = [log EXCEPT ![q][kind] = Append(log[q][kind], Logged(r, kind))]
      BY <1>2 DEF Operation, Operate
    <2>2. CASE p = q /\ k = kind
      <3>1. log'[p][k] = Append(log[p][k], Logged(r, kind))
        BY <2>1, <2>2 DEF PairSyncTypeOK, LogTypeOK
      <3>2. PICK S : log[p][k] \in Seq(S)
        BY LogTypes
      <3> QED  BY <3>1, <3>2
    <2>3. CASE ~(p = q /\ k = kind)
      <3>1. log'[p][k] = log[p][k]
        BY <2>1, <2>3 DEF PairSyncTypeOK, LogTypeOK
      <3> QED  BY <1>0, <3>1
    <2> QED  BY <2>2, <2>3
  <1>3. CASE Contract
    <2>1. CASE CloseLedger
      BY <1>1, <2>1, OtherSteps
    <2>2. ASSUME NEW q \in Pair, NEW r \in Registered, NEW kind \in Kind \cup {"thr"},
                 NEW evs \in Seq(Events), Operation(q, r, kind, evs), kind \notin Kind
          PROVE  log' = log
      BY <2>2 DEF Operation, Operate
    <2> QED  BY <1>0, <1>1, <1>2, <1>3, <2>1, <2>2, ContractOperates
  <1>4. CASE ApplyEvent
    BY <1>1, <1>4 DEF ApplyEvent, chainVars
  <1> QED  BY <1>1, <1>3, <1>4, OtherSteps DEF Next, vars, chainVars

-----------------------------------------------------------------------------
(* What a pass has read and not yet written is what the contract had after   *)
(* as many events as the answer included.                                    *)
ReadSteps(k) ==
  CASE k = "rollover_rate" -> {"get_acc_funding", "get_oi", "pending_acc_rollover_view",
                               "pending_acc_funding_view", "write_fees"}
    [] k = "funding_rate" -> {"get_oi", "pending_acc_rollover_view",
                              "pending_acc_funding_view", "write_fees"}
    [] k = "oi" -> {"pending_acc_rollover_view", "pending_acc_funding_view", "write_fees",
                    "write_oi"}

ReadValue(loc, k) == IF k = "oi" THEN loc.oi ELSE loc.fees.rate[k]

ReadInv ==
  \A k \in Kind : job.step \in ReadSteps(k) =>
    /\ job.loc.seen[k] < Len(log[job.pair][k])
    /\ ReadValue(job.loc, k) = log[job.pair][k][job.loc.seen[k] + 1]

(* The steps that leave the pass where nothing read is to be written.        *)
LEMMA PassRestarts ==
  ASSUME PairSyncTypeOK,
         StartPass \/ CallFails \/ UpsertPair \/ WriteOi \/ UpsertGroup \/ StatementFails
           \/ EndPass \/ Interrupted
  PROVE  /\ job'.step \in {"idle", "get_pair", "upsert_pair", "get_acc_rollover", "get_group", "end"}
         /\ job'.loc = NoLocals \/ (job'.pair = job.pair /\ job'.loc = [job.loc EXCEPT !.depth = 0])
         /\ job'.at \in {job.at, 0, now}
  <1>1. job \in Jobs /\ (job.step = "get_depth" => job.loc.thr \in Thresholds)
    BY DEF PairSyncTypeOK
  <1>2. CASE StartPass
    BY <1>2 DEF StartPass, NoJob, LatestLedger
  <1>3. CASE CallFails \/ StatementFails
    BY <1>1, <1>3, AfterErrorType DEF CallFails, StatementFails
  <1>4. CASE UpsertPair
    <2>1. job' = GoTo(job, NoLocals, "get_acc_rollover")
      BY <1>4 DEF UpsertPair
    <2>2. Moved(job, job', NoLocals, "get_acc_rollover")
      BY <1>1, <2>1, GoToMoves, EmptyTypes, StepNames
    <2> QED  BY <2>2 DEF Moved
  <1>5. CASE WriteOi
    BY <1>1, <1>5, GroupStepFields, NextPairFields DEF WriteOi, Moved
  <1>6. CASE UpsertGroup
    <2>1. PICK j \in Jobs : j = [job EXCEPT !.groupsSeen = @ \cup {GroupOf[job.pair]}]
      BY <1>1 DEF Jobs
    <2>2. j.at = job.at /\ job' = NextPair(j)
      BY <1>1, <1>6, <2>1 DEF UpsertGroup, Jobs
    <2> QED  BY <2>2, NextPairFields
  <1>7. CASE EndPass \/ Interrupted
    BY <1>7 DEF EndPass, Interrupted, NoJob
  <1> QED  BY <1>2, <1>3, <1>4, <1>5, <1>6, <1>7

(* Where the pass goes once the fees are written.                           *)
LEMMA WriteFeesMoves ==
  ASSUME PairSyncTypeOK, WriteFees
  PROVE  Moved(job, job', [job.loc EXCEPT !.fees = EmptyFees], "write_oi")
  <1>1. job \in Jobs /\ [job.loc EXCEPT !.fees = EmptyFees] \in Locals
    BY EmptyTypes DEF PairSyncTypeOK, Jobs, Locals
  <1> QED  BY <1>1, GoToMoves, StepNames DEF WriteFees

(* What a pass holds is the log entry it has seen last.                     *)
LEMMA ReadStep == PairSyncTypeOK /\ FeedInv /\ ReadInv /\ [Next]_vars => ReadInv'
  <1> SUFFICES ASSUME PairSyncTypeOK, FeedInv, ReadInv, [Next]_vars,
                      NEW k \in Kind, job'.step \in ReadSteps(k)
               PROVE  /\ job'.loc.seen[k] < Len(log'[job'.pair][k])
                      /\ ReadValue(job'.loc, k) = log'[job'.pair][k][job'.loc.seen[k] + 1]
    BY DEF ReadInv
  <1>1. job \in Jobs /\ job.loc \in Locals /\ job.pair \in Pair /\ job.loc.seen \in [Kind -> Nat]
        /\ job.loc.fees \in FeesRow
    BY DEF PairSyncTypeOK, Jobs, Locals
  <1>2. CASE job'.step = job.step /\ job'.loc = job.loc /\ job'.pair = job.pair
    <2>1. /\ job.loc.seen[k] < Len(log[job.pair][k]) /\ job.loc.seen[k] \in Nat
          /\ ReadValue(job.loc, k) = log[job.pair][k][job.loc.seen[k] + 1]
      BY <1>1, <1>2 DEF ReadInv
    <2>2. /\ Len(log[job.pair][k]) \in Nat /\ Len(log'[job.pair][k]) \in Nat
          /\ Len(log[job.pair][k]) <= Len(log'[job.pair][k])
          /\ \A i \in 1 .. Len(log[job.pair][k]) : log'[job.pair][k][i] = log[job.pair][k][i]
      BY <1>1, LogGrows
    <2>3. job.loc.seen[k] + 1 \in 1 .. Len(log[job.pair][k])
      BY <2>1, <2>2
    <2>4. job.loc.seen[k] < Len(log'[job.pair][k])
      BY <2>1, <2>2
    <2>5. log'[job.pair][k][job.loc.seen[k] + 1] = ReadValue(job.loc, k)
      BY <2>1, <2>2, <2>3
    <2> QED  BY <1>2, <2>4, <2>5
  <1>3. CASE CallContract
    <2>1. AnsweredMoves(job, job') /\ log' = log
      BY <1>3, AnsweredFields DEF CallContract, chainVars
    <2> DEFINE r == reg[job.pair]
               n(kk) == Len(log[job.pair][kk]) - 1
    <2>2. \A kk \in Kind : n(kk) \in Nat /\ n(kk) < Len(log[job.pair][kk])
                          /\ log[job.pair][kk][n(kk) + 1] = Logged(r, kk)
      BY <1>1, LogTypes DEF FeedInv, LogCurrent
    <2>3. ASSUME NEW kk \in Kind, NEW loc, job'.pair = job.pair, job'.loc = loc,
                 loc.seen[kk] = n(kk), ReadValue(loc, kk) = Logged(r, kk)
          PROVE  /\ job'.loc.seen[kk] < Len(log'[job'.pair][kk])
                 /\ ReadValue(job'.loc, kk) = log'[job'.pair][kk][job'.loc.seen[kk] + 1]
      BY <2>1, <2>2, <2>3
    <2>4. ASSUME NEW loc, job'.pair = job.pair, job'.loc = loc, loc.seen[k] = job.loc.seen[k],
                 ReadValue(loc, k) = ReadValue(job.loc, k), job.step \in ReadSteps(k)
          PROVE  /\ job'.loc.seen[k] < Len(log'[job'.pair][k])
                 /\ ReadValue(job'.loc, k) = log'[job'.pair][k][job'.loc.seen[k] + 1]
      BY <2>1, <2>4 DEF ReadInv
    <2>5. job.step \in Calls
      BY <1>3 DEF CallContract
    <2>6. CASE job.step \in {"get_pair", "get_depth", "get_group"}
      BY <2>1, <2>6 DEF AnsweredMoves, Moved, ReadSteps, Kind, Rate
    <2>7. CASE job.step = "get_acc_rollover"
      <3>1. PICK loc : /\ loc = [job.loc EXCEPT !.fees.rate["rollover_rate"] = r.rate["rollover_rate"],
                                               !.seen["rollover_rate"] = n("rollover_rate")]
                       /\ Moved(job, job', loc, "get_acc_funding")
        BY <2>1, <2>7 DEF AnsweredMoves
      <3>2. k = "rollover_rate" /\ job'.pair = job.pair /\ job'.loc = loc
        BY <3>1 DEF Moved, ReadSteps, Kind, Rate
      <3>3. loc.seen[k] = n(k) /\ loc.fees.rate[k] = r.rate[k]
        BY <1>1, <3>1, <3>2 DEF Locals, FeesRow, Rate
      <3>4. ReadValue(loc, k) = Logged(r, k)
        BY <3>2, <3>3 DEF ReadValue, Logged
      <3> QED  BY <2>3, <3>2, <3>3, <3>4
    <2>8. CASE job.step = "get_acc_funding"
      <3>1. PICK loc : /\ loc = [job.loc EXCEPT !.fees.rate["funding_rate"] = r.rate["funding_rate"],
                                               !.seen["funding_rate"] = n("funding_rate")]
                       /\ Moved(job, job', loc, "get_oi")
        BY <2>1, <2>8 DEF AnsweredMoves
      <3>2. k \in {"rollover_rate", "funding_rate"} /\ job'.pair = job.pair /\ job'.loc = loc
        BY <3>1 DEF Moved, ReadSteps, Kind, Rate
      <3>3. CASE k = "funding_rate"
        <4>1. loc.seen[k] = n(k) /\ loc.fees.rate[k] = r.rate[k]
          BY <1>1, <3>1, <3>3 DEF Locals, FeesRow, Rate
        <4>2. ReadValue(loc, k) = Logged(r, k)
          BY <3>3, <4>1 DEF ReadValue, Logged
        <4> QED  BY <2>3, <3>2, <4>1, <4>2
      <3>4. CASE k = "rollover_rate"
        <4>1. loc.seen[k] = job.loc.seen[k] /\ loc.fees.rate[k] = job.loc.fees.rate[k]
          BY <1>1, <3>1, <3>4 DEF Locals, FeesRow, Rate
        <4>2. ReadValue(loc, k) = ReadValue(job.loc, k) /\ job.step \in ReadSteps(k)
          BY <2>8, <3>4, <4>1 DEF ReadValue, ReadSteps
        <4> QED  BY <2>4, <3>2, <4>1, <4>2
      <3> QED  BY <3>2, <3>3, <3>4
    <2>9. CASE job.step = "get_oi"
      <3>1. PICK loc : /\ loc = [job.loc EXCEPT !.oi = r.oi, !.seen["oi"] = n("oi")]
                       /\ Moved(job, job', loc, "pending_acc_rollover_view")
        BY <2>1, <2>9 DEF AnsweredMoves
      <3>2. job'.pair = job.pair /\ job'.loc = loc
        BY <3>1 DEF Moved
      <3>3. CASE k = "oi"
        <4>1. loc.seen[k] = n(k) /\ loc.oi = r.oi
          BY <1>1, <3>1, <3>3 DEF Locals
        <4>2. ReadValue(loc, k) = Logged(r, k)
          BY <3>3, <4>1 DEF ReadValue, Logged
        <4> QED  BY <2>3, <3>2, <4>1, <4>2
      <3>4. CASE k \in Rate
        <4>1. loc.seen[k] = job.loc.seen[k] /\ loc.fees = job.loc.fees
          BY <1>1, <3>1, <3>4 DEF Locals, Rate
        <4>2. ReadValue(loc, k) = ReadValue(job.loc, k) /\ job.step \in ReadSteps(k)
          BY <2>9, <3>4, <4>1 DEF ReadValue, ReadSteps, Rate
        <4> QED  BY <2>4, <3>2, <4>1, <4>2
      <3> QED  BY <3>3, <3>4 DEF Kind
    <2>10. CASE job.step \in {"pending_acc_rollover_view", "pending_acc_funding_view"}
      <3>1. PICK fees \in FeesRow : /\ fees.rate = job.loc.fees.rate
                                    /\ job'.loc = [job.loc EXCEPT !.fees = fees]
        <4>1. CASE job.step = "pending_acc_rollover_view"
          <5>1. /\ job'.loc = [job.loc EXCEPT !.fees.roll = View(r, job.at).roll]
                /\ View(r, job.at).roll \in Int
            BY <1>1, <2>1, <4>1, ViewType DEF AnsweredMoves, Moved, PairSyncTypeOK, Jobs
          <5> QED  BY <1>1, <5>1 DEF FeesRow
        <4>2. CASE job.step = "pending_acc_funding_view"
          <5>1. /\ job'.loc = [job.loc EXCEPT !.fees.long = View(r, job.at).long,
                                              !.fees.short = View(r, job.at).short, !.fees.at = job.at]
                /\ View(r, job.at).long \in Int /\ View(r, job.at).short \in Int /\ job.at \in Nat
            BY <1>1, <2>1, <4>2, ViewType DEF AnsweredMoves, Moved, PairSyncTypeOK, Jobs
          <5> QED  BY <1>1, <5>1 DEF FeesRow, Locals
        <4> QED  BY <2>10, <4>1, <4>2
      <3> DEFINE loc == job'.loc
      <3>4. job'.pair = job.pair
        BY <2>1, <2>10 DEF AnsweredMoves, Moved
      <3>2. loc.seen = job.loc.seen /\ loc.oi = job.loc.oi /\ loc.fees.rate = job.loc.fees.rate
        BY <1>1, <3>1 DEF Locals
      <3>3. ReadValue(loc, k) = ReadValue(job.loc, k) /\ job.step \in ReadSteps(k)
        BY <2>10, <3>2 DEF ReadValue, ReadSteps, Kind, Rate
      <3> QED  BY <2>4, <3>2, <3>3, <3>4
    <2> QED  BY <2>5, <2>6, <2>7, <2>8, <2>9, <2>10 DEF Calls
  <1>4. CASE WriteFees
    <2>1. Moved(job, job', [job.loc EXCEPT !.fees = EmptyFees], "write_oi") /\ log' = log
      BY <1>4, WriteFeesMoves DEF WriteFees, chainVars
    <2>2. k = "oi" /\ job.step \in ReadSteps(k)
      BY <1>4, <2>1 DEF ReadSteps, Moved, WriteFees, Kind, Rate
    <2>3. job'.loc.seen = job.loc.seen /\ job'.loc.oi = job.loc.oi /\ job'.pair = job.pair
      BY <1>1, <2>1 DEF Moved, Locals
    <2> QED  BY <2>1, <2>2, <2>3 DEF ReadInv, ReadValue
  <1>5. CASE CallRetries
    <2>1. job' = [job EXCEPT !.attempt = @ + 1]
      BY <1>5 DEF CallRetries
    <2> QED  BY <1>1, <1>2, <2>1 DEF Jobs
  <1>6. CASE job' = job
    BY <1>2, <1>6
  <1>7. job'.step \notin {"idle", "get_pair", "upsert_pair", "get_acc_rollover", "get_group", "end"}
    BY DEF ReadSteps, Kind, Rate
  <1>8. CASE Contract \/ ApplyEvent \/ KeeperStart \/ KeeperRefresh \/ UNCHANGED vars
    <2>1. job' = job
      BY <1>8, ContractFrame DEF ApplyEvent, KeeperStart, KeeperRefresh, vars
    <2> QED  BY <1>6, <2>1
  <1> QED
    BY <1>3, <1>4, <1>5, <1>7, <1>8, PassRestarts DEF Next, PairIndexer

-----------------------------------------------------------------------------
(* An exact row is the contract's after the events applied (the open         *)
(* interest), or after those and some that are still in flight (a rate,      *)
(* which the pass may read ahead of its event).                              *)
ExactOi ==
  \A p \in Pair : exact[p]["oi"] => tb.oi[p] = log[p]["oi"][applied[p]["oi"] + 1]

ExactRate(p, k) ==
  /\ tb.fees[p] # NoRow
  /\ \E m \in Nat : /\ applied[p][k] <= m /\ m < Len(log[p][k])
                    /\ tb.fees[p].rate[k] = log[p][k][m + 1]

ExactRates == \A p \in Pair, k \in Rate : exact[p][k] => ExactRate(p, k)

ExactInv == PairSyncTypeOK /\ FeedInv /\ ReadInv /\ ExactOi /\ ExactRates

(* The rows are exact initially.                                            *)
LEMMA ExactInit == Init => ExactInv
  <1> SUFFICES ASSUME Init PROVE ExactInv
    OBVIOUS
  <1>1. PairSyncTypeOK /\ FeedInv
    BY TypeInit, FeedInit
  <1>2. ReadInv
    BY DEF Init, NoJob, ReadInv, ReadSteps, Kind, Rate
  <1>3. ExactOi
    <2> SUFFICES ASSUME NEW p \in Pair PROVE tb.oi[p] = log[p]["oi"][applied[p]["oi"] + 1]
      BY DEF ExactOi
    <2>1. tb.oi[p] = Delta("long", 0) /\ reg[p].oi = Delta("long", 0) /\ applied[p]["oi"] = 0
          /\ log[p]["oi"] = <<Logged(reg[p], "oi")>>
      BY DEF Init, Kind
    <2>2. Logged(reg[p], "oi") = reg[p].oi
      BY DEF Logged
    <2>3. log[p]["oi"][1] = Logged(reg[p], "oi")
      BY <2>1, Singleton, Zenon
    <2> QED  BY <2>1, <2>2, <2>3
  <1>4. ExactRates
    BY DEF Init, ExactRates, Kind, Rate
  <1> QED  BY <1>1, <1>2, <1>3, <1>4 DEF ExactInv

(* A step that leaves a row, its ghosts and the count applied alone.         *)
LEMMA ExactStays ==
  ASSUME ExactInv, [Next]_vars, NEW p \in Pair
  PROVE  /\ exact[p]["oi"] /\ tb'.oi[p] = tb.oi[p] /\ applied'[p]["oi"] = applied[p]["oi"] =>
              tb'.oi[p] = log'[p]["oi"][applied'[p]["oi"] + 1]
         /\ \A k \in Rate :
              /\ exact[p][k] /\ applied'[p][k] = applied[p][k]
              /\ tb.fees[p] # NoRow => tb'.fees[p] # NoRow /\ tb'.fees[p].rate[k] = tb.fees[p].rate[k]
              => ExactRate(p, k)'
  <1>1. ASSUME NEW k \in Kind
        PROVE  /\ Len(log[p][k]) \in Nat /\ Len(log'[p][k]) \in Nat
               /\ Len(log[p][k]) <= Len(log'[p][k])
               /\ \A i \in 1 .. Len(log[p][k]) : log'[p][k][i] = log[p][k][i]
               /\ applied[p][k] \in Nat /\ applied[p][k] < Len(log[p][k])
    BY LogGrows, LogTypes DEF ExactInv, FeedInv, LogCurrent
  <1>2. ASSUME exact[p]["oi"], tb'.oi[p] = tb.oi[p], applied'[p]["oi"] = applied[p]["oi"]
        PROVE  tb'.oi[p] = log'[p]["oi"][applied'[p]["oi"] + 1]
    <2>1. "oi" \in Kind
      BY DEF Kind
    <2>2. applied[p]["oi"] + 1 \in 1 .. Len(log[p]["oi"])
      BY <1>1, <2>1
    <2>3. log'[p]["oi"][applied[p]["oi"] + 1] = log[p]["oi"][applied[p]["oi"] + 1]
      BY <1>1, <2>1, <2>2
    <2> QED  BY <1>2, <2>3 DEF ExactInv, ExactOi
  <1>3. ASSUME NEW k \in Rate, exact[p][k], applied'[p][k] = applied[p][k],
               tb.fees[p] # NoRow => tb'.fees[p] # NoRow /\ tb'.fees[p].rate[k] = tb.fees[p].rate[k]
        PROVE  ExactRate(p, k)'
    <2>1. k \in Kind
      BY DEF Kind
    <2>2. tb.fees[p] # NoRow
      BY <1>3 DEF ExactInv, ExactRates, ExactRate
    <2>3. PICK m \in Nat : /\ applied[p][k] <= m /\ m < Len(log[p][k])
                           /\ tb.fees[p].rate[k] = log[p][k][m + 1]
      BY <1>3 DEF ExactInv, ExactRates, ExactRate
    <2>4. m < Len(log'[p][k]) /\ m + 1 \in 1 .. Len(log[p][k])
      BY <1>1, <2>1, <2>3
    <2>5. log'[p][k][m + 1] = log[p][k][m + 1]
      BY <1>1, <2>1, <2>4
    <2> QED  BY <1>3, <2>2, <2>3, <2>4, <2>5 DEF ExactRate
  <1> QED  BY <1>2, <1>3

(* The next delta leads from one entry of the log to the next, so that the   *)
(* floor at zero takes nothing away.                                         *)
LEMMA ApplyExact ==
  ASSUME ExactInv, ApplyEvent
  PROVE  ExactOi' /\ ExactRates'
  <1> DEFINE e == feed[1]
             P == e.pair
             K == e.kind
  <1>1. PairSyncTypeOK /\ FeedInv /\ ExactOi /\ ExactRates
    BY DEF ExactInv
  <1>2. feed # <<>> /\ log' = log /\ e = Head(feed) /\ e \in Events
    BY <1>1, HeadTail DEF ApplyEvent, chainVars
  <1>3. [Next]_vars
    BY DEF Next
  <1>4. P \in Pair /\ K \in Rate \cup {"oi", "opened"} /\ e.n \in Nat
        /\ (K \in Rate => e.val \in Nat) /\ (K = "oi" => e.val \in [Side -> Int])
    BY <1>2, EventCases
  <1>5. tb \in Tables /\ applied \in [Pair -> [Kind -> Nat]] /\ exact \in [Pair -> [Kind -> BOOLEAN]]
    BY <1>1 DEF PairSyncTypeOK
  <1>6. ASSUME K \in Kind
        PROVE  /\ e.n = applied[P][K] + 1 /\ e.n < Len(log[P][K])
               /\ applied[P][K] \in Nat /\ Len(log[P][K]) \in Nat
               /\ K \in Rate => e.val = log[P][K][e.n + 1]
               /\ K = "oi" => \A s \in Side : log[P][K][e.n + 1][s] = log[P][K][e.n][s] + e.val[s]
    <2>1. 1 \in DOMAIN feed
      BY <1>1, <1>2, HeadTail
    <2>2. e.n = applied[P][K] + 1
      BY <1>1, <1>2, <1>6, NextInFlight
    <2>3. applied[P][K] \in Nat /\ Len(log[P][K]) \in Nat
      BY <1>1, <1>4, <1>6, LogTypes
    <2> QED  BY <1>1, <1>6, <2>1, <2>2, <2>3 DEF FeedInv, InOrder
  <1>7. CASE K = "opened"
    <2>1. tb' = [tb EXCEPT !.trade = e.val] /\ applied' = applied /\ exact' = exact
      BY <1>2, <1>7 DEF ApplyEvent, Rate
    <2>2. tb'.oi = tb.oi /\ tb'.fees = tb.fees
      BY <1>5, <2>1 DEF Tables
    <2> QED  BY <1>3, <2>1, <2>2, ExactStays DEF ExactOi, ExactRates
  <1>8. CASE K = "oi"
    <2>0. tb' = [tb EXCEPT !.oi[P] = AppliedOi(tb.oi[P], e.val)]
          /\ applied' = [applied EXCEPT ![P]["oi"] = @ + 1] /\ exact' = exact
      BY <1>2, <1>8 DEF ApplyEvent, Rate
    <2>1. /\ tb'.oi = [tb.oi EXCEPT ![P] = AppliedOi(tb.oi[P], e.val)] /\ tb'.fees = tb.fees
          /\ \A p \in Pair, k \in Kind :
               applied'[p][k] = IF p = P /\ k = "oi" THEN applied[p][k] + 1 ELSE applied[p][k]
      BY <1>4, <1>5, <2>0 DEF Tables
    <2> HIDE DEF e
    <2>2. ASSUME NEW p \in Pair, exact'[p]["oi"]
          PROVE  tb'.oi[p] = log'[p]["oi"][applied'[p]["oi"] + 1]
      <3>1. CASE p # P
        <4>1. tb'.oi[p] = tb.oi[p] /\ applied'[p]["oi"] = applied[p]["oi"] /\ exact[p]["oi"]
          BY <1>5, <2>0, <2>1, <2>2, <3>1 DEF Tables, Kind
        <4> QED  BY <1>3, <4>1, ExactStays
      <3>2. CASE p = P
        <4>1. "oi" \in Kind /\ exact[P]["oi"]
          BY <2>0, <2>2, <3>2 DEF Kind
        <4>2. /\ e.n = applied[P]["oi"] + 1 /\ e.n < Len(log[P]["oi"])
              /\ applied[P]["oi"] \in Nat /\ Len(log[P]["oi"]) \in Nat
              /\ \A s \in Side : log[P]["oi"][e.n + 1][s] = log[P]["oi"][e.n][s] + e.val[s]
          BY <1>6, <1>8, <4>1
        <4>3. tb.oi[P] = log[P]["oi"][e.n]
          BY <1>1, <1>4, <4>1, <4>2 DEF ExactOi
        <4>4. log[P]["oi"][e.n + 1] \in OiRow
          <5>1. e.n + 1 \in 1 .. Len(log[P]["oi"])
            BY <1>4, <4>2, SMTT(20)
          <5> QED  BY <1>1, <1>4, <4>1, <5>1, LogTypes
        <4>5. \A s \in Side : Floored(tb.oi[P][s] + e.val[s]) = log[P]["oi"][e.n + 1][s]
          <5>1. \A s \in Side : log[P]["oi"][e.n + 1][s] \in Nat
            BY <4>4 DEF OiRow
          <5>2. \A s \in Side : tb.oi[P][s] + e.val[s] = log[P]["oi"][e.n + 1][s]
            BY <4>2, <4>3
          <5>3. \A m \in Nat : Floored(m) = m
            BY DEF Floored
          <5> QED  BY <5>1, <5>2, <5>3
        <4>6. AppliedOi(tb.oi[P], e.val) = log[P]["oi"][e.n + 1]
          BY <4>4, <4>5 DEF AppliedOi, OiRow
        <4>7. tb'.oi[P] = AppliedOi(tb.oi[P], e.val) /\ applied'[P]["oi"] = e.n
          BY <1>4, <1>5, <2>1, <4>1, <4>2 DEF Tables
        <4> QED  BY <1>2, <3>2, <4>6, <4>7
      <3> QED  BY <3>1, <3>2
    <2>3. ASSUME NEW p \in Pair, NEW k \in Rate, exact'[p][k]
          PROVE  ExactRate(p, k)'
      <3>1. exact[p][k] /\ applied'[p][k] = applied[p][k] /\ tb'.fees = tb.fees
        BY <2>0, <2>1, <2>3 DEF Kind, Rate
      <3> QED  BY <1>3, <3>1, ExactStays
    <2> QED  BY <2>2, <2>3 DEF ExactOi, ExactRates
  <1>9. CASE K \in Rate
    <2>0. /\ tb' = [tb EXCEPT !.fees[P] = AppliedRate(P, K, e.val)]
          /\ applied' = [applied EXCEPT ![P][K] = @ + 1] /\ exact' = [exact EXCEPT ![P][K] = TRUE]
      BY <1>2, <1>9 DEF ApplyEvent, Rate
    <2>1. /\ tb'.fees = [tb.fees EXCEPT ![P] = AppliedRate(P, K, e.val)] /\ tb'.oi = tb.oi
          /\ \A p \in Pair, k \in Kind :
               /\ applied'[p][k] = IF p = P /\ k = K THEN applied[p][k] + 1 ELSE applied[p][k]
               /\ ~(p = P /\ k = K) => exact'[p][k] = exact[p][k]
      <3> HIDE DEF e
      <3> QED  BY <1>4, <1>5, <1>9, <2>0 DEF Tables, Kind
    <2>6. AppliedRate(P, K, e.val) \in FeesRow /\ FeesOf(P) \in FeesRow
      BY <1>1, <1>4, <1>9, AppliedRateType, FeesOfType
    <2>7. /\ AppliedRate(P, K, e.val).rate[K] = e.val
          /\ \A k \in Rate : k # K => AppliedRate(P, K, e.val).rate[k] = FeesOf(P).rate[k]
      <3> HIDE DEF e
      <3> QED  BY <1>9, <2>6 DEF AppliedRate, FeesRow
    <2>8. AppliedRate(P, K, e.val) # NoRow
      BY <2>6, NoRowIsNoRecord
    <2> HIDE DEF e
    <2>2. ASSUME NEW p \in Pair, exact'[p]["oi"]
          PROVE  tb'.oi[p] = log'[p]["oi"][applied'[p]["oi"] + 1]
      <3>1. exact[p]["oi"] /\ applied'[p]["oi"] = applied[p]["oi"] /\ tb'.oi = tb.oi
        BY <1>9, <2>1, <2>2 DEF Kind, Rate
      <3> QED  BY <1>3, <3>1, ExactStays
    <2>3. ASSUME NEW p \in Pair, NEW k \in Rate, exact'[p][k]
          PROVE  ExactRate(p, k)'
      <3>1. CASE p = P /\ k = K
        <4>1. e.n = applied[P][K] + 1 /\ e.n < Len(log[P][K]) /\ e.val = log[P][K][e.n + 1]
          BY <1>6, <1>9 DEF Kind
        <4>2. applied'[P][K] = e.n /\ tb'.fees[P] = AppliedRate(P, K, e.val)
          BY <1>4, <1>5, <1>9, <2>1, <4>1 DEF Tables, Kind
        <4>3. /\ tb'.fees[P] # NoRow /\ tb'.fees[P].rate[K] = log'[P][K][e.n + 1]
              /\ applied'[P][K] <= e.n /\ e.n < Len(log'[P][K])
          <5>1. log' = log
            BY <1>2
          <5>2. e.n <= e.n
            BY <1>4
          <5>3. tb'.fees[P] # NoRow /\ tb'.fees[P].rate[K] = e.val
            BY <2>7, <2>8, <4>2
          <5> QED  BY <4>1, <4>2, <5>1, <5>2, <5>3
        <4> QED  BY <1>4, <3>1, <4>3 DEF ExactRate
      <3>2. CASE ~(p = P /\ k = K)
        <4>1. exact[p][k] /\ applied'[p][k] = applied[p][k]
          BY <2>1, <2>3, <3>2 DEF Kind
        <4>2. tb.fees[p] # NoRow => tb'.fees[p] # NoRow /\ tb'.fees[p].rate[k] = tb.fees[p].rate[k]
          BY <1>5, <2>1, <2>7, <2>8, <3>2 DEF Tables, FeesOf
        <4> QED  BY <1>3, <4>1, <4>2, ExactStays
      <3> QED  BY <3>1, <3>2
    <2> QED  BY <2>2, <2>3 DEF ExactOi, ExactRates
  <1> QED  BY <1>4, <1>7, <1>8, <1>9

(* The write of the fee row leaves exact what it marks exact.               *)
LEMMA WriteFeesExact ==
  ASSUME ExactInv, WriteFees
  PROVE  ExactOi' /\ ExactRates'
  <1> DEFINE P == job.pair
             seen == job.loc.seen
             f == [k \in Kind |-> IF k = "oi" THEN exact[P][k] ELSE applied[P][k] <= seen[k]]
  <1>1. PairSyncTypeOK /\ ReadInv /\ [Next]_vars
    BY DEF ExactInv, Next, PairIndexer
  <1>2. /\ P \in Pair /\ seen \in [Kind -> Nat] /\ job.loc.fees \in FeesRow
        /\ tb \in Tables /\ exact \in [Pair -> [Kind -> BOOLEAN]]
    BY <1>1 DEF PairSyncTypeOK, Jobs, Locals
  <1>3. /\ job.step = "write_fees" /\ tb' = [tb EXCEPT !.fees[P] = job.loc.fees]
        /\ applied' = applied /\ log' = log /\ exact' = [exact EXCEPT ![P] = f]
    BY DEF WriteFees, chainVars
  <1>4. tb'.oi = tb.oi /\ tb'.fees = [tb.fees EXCEPT ![P] = job.loc.fees]
    BY <1>2, <1>3 DEF Tables
  <1>5. \A p \in Pair : exact'[p] = IF p = P THEN f ELSE exact[p]
    BY <1>2, <1>3
  <1>6. f["oi"] = exact[P]["oi"] /\ \A k \in Rate : f[k] = (applied[P][k] <= seen[k])
    BY DEF Kind, Rate
  <1> HIDE DEF f
  <1>7. ASSUME NEW p \in Pair, exact'[p]["oi"]
        PROVE  tb'.oi[p] = log'[p]["oi"][applied'[p]["oi"] + 1]
    <2>1. exact[p]["oi"]
      BY <1>5, <1>6, <1>7
    <2> QED  BY <1>1, <1>3, <1>4, <2>1, ExactStays
  <1>8. ASSUME NEW p \in Pair, NEW k \in Rate, exact'[p][k]
        PROVE  ExactRate(p, k)'
    <2>1. CASE p # P
      <3>1. exact[p][k] /\ tb'.fees[p] = tb.fees[p]
        BY <1>2, <1>4, <1>5, <1>8, <2>1 DEF Tables
      <3> QED  BY <1>1, <1>3, <3>1, ExactStays
    <2>2. CASE p = P
      <3>1. k \in Kind /\ k # "oi" /\ job.step \in ReadSteps(k)
        BY <1>3 DEF ReadSteps, Kind, Rate
      <3>2. seen[k] < Len(log[P][k]) /\ job.loc.fees.rate[k] = log[P][k][seen[k] + 1]
        BY <1>1, <3>1 DEF ReadInv, ReadValue
      <3>3. applied[P][k] <= seen[k] /\ seen[k] \in Nat
        BY <1>2, <1>5, <1>6, <1>8, <2>2, <3>1
      <3>4. tb'.fees[P] = job.loc.fees /\ job.loc.fees # NoRow
        BY <1>2, <1>4, NoRowIsNoRecord DEF Tables
      <3> QED  BY <1>3, <2>2, <3>2, <3>3, <3>4 DEF ExactRate
    <2> QED  BY <2>1, <2>2
  <1> QED  BY <1>7, <1>8 DEF ExactOi, ExactRates

(* So does the write of the open interest.                                  *)
LEMMA WriteOiExact ==
  ASSUME ExactInv, WriteOi
  PROVE  ExactOi' /\ ExactRates'
  <1> DEFINE P == job.pair
             seen == job.loc.seen
  <1>1. PairSyncTypeOK /\ ReadInv /\ [Next]_vars
    BY DEF ExactInv, Next, PairIndexer
  <1>2. /\ P \in Pair /\ seen \in [Kind -> Nat] /\ tb \in Tables /\ "oi" \in Kind
        /\ exact \in [Pair -> [Kind -> BOOLEAN]]
    BY <1>1 DEF PairSyncTypeOK, Jobs, Locals, Kind
  <1>3. /\ job.step = "write_oi" /\ tb' = [tb EXCEPT !.oi[P] = job.loc.oi]
        /\ applied' = applied /\ log' = log
        /\ exact' = [exact EXCEPT ![P]["oi"] = applied[P]["oi"] = seen["oi"]]
    BY DEF WriteOi, WrittenOi, chainVars
  <1>4. tb'.fees = tb.fees /\ tb'.oi = [tb.oi EXCEPT ![P] = job.loc.oi]
    BY <1>2, <1>3 DEF Tables
  <1>5. /\ exact'[P]["oi"] = (applied[P]["oi"] = seen["oi"])
        /\ \A p \in Pair, k \in Kind : ~(p = P /\ k = "oi") => exact'[p][k] = exact[p][k]
    BY <1>2, <1>3
  <1>6. ASSUME NEW p \in Pair, exact'[p]["oi"]
        PROVE  tb'.oi[p] = log'[p]["oi"][applied'[p]["oi"] + 1]
    <2>1. CASE p # P
      <3>1. exact[p]["oi"] /\ tb'.oi[p] = tb.oi[p]
        BY <1>2, <1>4, <1>5, <1>6, <2>1 DEF Tables
      <3> QED  BY <1>1, <1>3, <3>1, ExactStays
    <2>2. CASE p = P
      <3>1. job.step \in ReadSteps("oi")
        BY <1>3 DEF ReadSteps
      <3>2. job.loc.oi = log[P]["oi"][seen["oi"] + 1]
        BY <1>1, <1>2, <3>1 DEF ReadInv, ReadValue
      <3>3. tb'.oi[P] = job.loc.oi
        BY <1>2, <1>4 DEF Tables
      <3>4. applied[P]["oi"] = seen["oi"]
        BY <1>5, <1>6, <2>2
      <3> QED  BY <1>3, <2>2, <3>2, <3>3, <3>4
    <2> QED  BY <2>1, <2>2
  <1>7. ASSUME NEW p \in Pair, NEW k \in Rate, exact'[p][k]
        PROVE  ExactRate(p, k)'
    <2>1. exact[p][k]
      BY <1>5, <1>7 DEF Kind, Rate
    <2> QED  BY <1>1, <1>3, <1>4, <2>1, ExactStays
  <1> QED  BY <1>6, <1>7 DEF ExactOi, ExactRates

(* Every step keeps the rows that are marked exact exact.                   *)
LEMMA ExactStep == ExactInv /\ [Next]_vars => ExactInv'
  <1> SUFFICES ASSUME ExactInv, [Next]_vars PROVE ExactInv'
    OBVIOUS
  <1>1. PairSyncTypeOK' /\ FeedInv' /\ ReadInv'
    BY TypeStep, FeedStep, ReadStep DEF ExactInv
  <1>2. CASE tb'.oi = tb.oi /\ tb'.fees = tb.fees /\ applied' = applied /\ exact' = exact
    <2>1. ExactOi'
      BY <1>2, ExactStays DEF ExactOi
    <2>2. ASSUME NEW p \in Pair, NEW k \in Rate, exact'[p][k] PROVE ExactRate(p, k)'
      <3>1. /\ exact[p][k] /\ applied'[p][k] = applied[p][k]
            /\ tb.fees[p] # NoRow => tb'.fees[p] # NoRow /\ tb'.fees[p].rate[k] = tb.fees[p].rate[k]
        BY <1>2, <2>2
      <3> QED  BY <3>1, ExactStays
    <2> QED  BY <1>1, <2>1, <2>2 DEF ExactRates, ExactInv
  <1>3. tb \in Tables
    BY DEF ExactInv, PairSyncTypeOK
  <1>4. CASE UpsertPair \/ UpsertGroup
    BY <1>2, <1>3, <1>4 DEF UpsertPair, UpsertGroup, Tables
  <1>5. CASE Contract \/ UNCHANGED vars
    BY <1>2, <1>5, ContractFrame DEF vars
  <1>6. CASE \/ StartPass \/ CallContract \/ CallRetries \/ CallFails \/ StatementFails
             \/ EndPass \/ Interrupted \/ KeeperStart \/ KeeperRefresh
    BY <1>2, <1>6 DEF StartPass, CallContract, CallRetries, CallFails, StatementFails, EndPass,
                      Interrupted, KeeperStart, KeeperRefresh
  <1>7. CASE ApplyEvent \/ WriteFees \/ WriteOi
    BY <1>1, <1>7, ApplyExact, WriteFeesExact, WriteOiExact DEF ExactInv
  <1> QED  BY <1>4, <1>5, <1>6, <1>7 DEF Next, PairIndexer

(* With no event of a kind in flight all of them are applied; otherwise the  *)
(* last one in flight is the last of all.                                    *)
LEMMA LastInFlight ==
  ASSUME PairSyncTypeOK, FeedInv, NEW p \in Pair, NEW k \in Kind
  PROVE  /\ InFlight(p, k) = {} => applied[p][k] = Len(log[p][k]) - 1
         /\ InFlight(p, k) # {} =>
              \E i \in InFlight(p, k) : feed[i].n = Len(log[p][k]) - 1 /\ \A j \in InFlight(p, k) : j <= i
  <1> DEFINE L == Len(log[p][k])
  <1>1. L \in Nat /\ applied[p][k] \in Nat /\ applied[p][k] < L
    BY LogTypes DEF FeedInv, LogCurrent
  <1>2. ASSUME NEW j \in InFlight(p, k)
        PROVE  /\ applied[p][k] < feed[j].n /\ feed[j].n < L /\ feed[j].n \in Nat /\ j \in Nat
               /\ \A i \in InFlight(p, k) : i > j => feed[j].n < feed[i].n
    <2>1. j \in DOMAIN feed /\ feed[j].pair = p /\ feed[j].kind = k /\ feed[j] \in Events /\ j \in Nat
      BY DEF InFlight, PairSyncTypeOK
    <2>2. feed[j].n \in Nat
      BY <2>1, EventCases
    <2> QED  BY <2>1, <2>2 DEF FeedInv, InOrder
  <1> HIDE DEF L
  <1>3. L - 1 > applied[p][k] => \E i \in InFlight(p, k) : feed[i].n = L - 1
    <2>1. L - 1 > applied[p][k] => L - 1 \in 1 .. L - 1
      BY <1>1
    <2> QED  BY <2>1 DEF FeedInv, NoneLost, L
  <1>4. InFlight(p, k) = {} => applied[p][k] = L - 1
    BY <1>1, <1>3
  <1>5. ASSUME InFlight(p, k) # {}
        PROVE  \E i \in InFlight(p, k) : feed[i].n = L - 1 /\ \A j \in InFlight(p, k) : j <= i
    <2>1. L - 1 > applied[p][k]
      BY <1>1, <1>2, <1>5
    <2>2. PICK i \in InFlight(p, k) : feed[i].n = L - 1
      BY <1>3, <2>1
    <2>3. \A j \in InFlight(p, k) : j <= i
      BY <1>1, <1>2, <2>2
    <2> QED  BY <2>2, <2>3
  <1> QED  BY <1>4, <1>5 DEF L

(* Exact rows agree with the contracts once the feed is drained.            *)
LEMMA ExactImplies == ExactInv => OiExact /\ RatesExact
  <1> SUFFICES ASSUME ExactInv PROVE OiExact /\ RatesExact
    OBVIOUS
  <1>0. PairSyncTypeOK /\ FeedInv
    BY DEF ExactInv
  <1>1. ASSUME NEW p \in Pair, exact[p]["oi"]
        PROVE  /\ tb.oi[p] = log[p]["oi"][applied[p]["oi"] + 1]
               /\ InFlight(p, "oi") = {} => tb.oi[p] = reg[p].oi
    <2>1. tb.oi[p] = log[p]["oi"][applied[p]["oi"] + 1] /\ "oi" \in Kind
      BY <1>1 DEF ExactInv, ExactOi, Kind
    <2>2. InFlight(p, "oi") = {} => applied[p]["oi"] + 1 = Len(log[p]["oi"])
      BY <1>0, <2>1, LastInFlight, LogTypes
    <2>3. log[p]["oi"][Len(log[p]["oi"])] = reg[p].oi
      BY <1>0, <2>1 DEF FeedInv, LogCurrent, Logged
    <2> QED  BY <2>1, <2>2, <2>3
  <1>2. ASSUME NEW p \in Pair, NEW k \in Rate, exact[p][k]
        PROVE  IF InFlight(p, k) = {} THEN FeesOf(p).rate[k] = reg[p].rate[k]
               ELSE \E i \in InFlight(p, k) :
                      feed[i].val = reg[p].rate[k] /\ \A j \in InFlight(p, k) : j <= i
    <2> DEFINE L == Len(log[p][k])
    <2>1. k \in Kind /\ k # "oi" /\ L \in Nat \ {0}
      BY <1>0, LogTypes DEF Kind, Rate
    <2>2. log[p][k][L] = reg[p].rate[k]
      BY <1>0, <2>1 DEF FeedInv, LogCurrent, Logged
    <2>3. CASE InFlight(p, k) = {}
      <3>1. tb.fees[p] # NoRow
        BY <1>2 DEF ExactInv, ExactRates, ExactRate
      <3>2. PICK m \in Nat : applied[p][k] <= m /\ m < L /\ tb.fees[p].rate[k] = log[p][k][m + 1]
        BY <1>2 DEF ExactInv, ExactRates, ExactRate
      <3>3. applied[p][k] = L - 1
        BY <1>0, <2>1, <2>3, LastInFlight
      <3>4. m + 1 = L
        BY <2>1, <3>2, <3>3
      <3> QED  BY <2>2, <2>3, <3>1, <3>2, <3>4 DEF FeesOf
    <2>4. CASE InFlight(p, k) # {}
      <3>1. PICK i \in InFlight(p, k) : feed[i].n = L - 1 /\ \A j \in InFlight(p, k) : j <= i
        BY <1>0, <2>1, <2>4, LastInFlight
      <3>2. i \in DOMAIN feed /\ feed[i].pair = p /\ feed[i].kind = k
        BY DEF InFlight
      <3>3. feed[i].val = log[p][k][(L - 1) + 1]
        BY <1>0, <2>1, <3>1, <3>2 DEF FeedInv, InOrder
      <3>4. (L - 1) + 1 = L
        BY <2>1
      <3> QED  BY <2>2, <2>4, <3>1, <3>3, <3>4
    <2> QED  BY <2>3, <2>4
  <1> QED  BY <1>1, <1>2 DEF OiExact, RatesExact

(* ExactInv holds in every state.                                           *)
LEMMA ExactAlways == Spec => []ExactInv
  BY ExactInit, ExactStep, PTL DEF Spec

(* The pair indexer replaces the open interest it read some calls earlier    *)
(* and the indexer adds deltas to the same row: an exact row is the          *)
(* contract's, whatever is in flight, for any number of pairs and amounts.   *)
THEOREM OiIsExact == Spec => []OiExact
  BY ExactAlways, ExactImplies, PTL

(* A rate whose last write crossed no event is the contract's, or the last   *)
(* event of it in flight is.                                                 *)
THEOREM RatesAreExact == Spec => []RatesExact
  BY ExactAlways, ExactImplies, PTL

-----------------------------------------------------------------------------
(* The rollover accumulator only grows with the ledger, and an operation on  *)
(* the pair leaves its value at the current one as it was.                   *)
LEMMA QuoZero ==
  ASSUME NEW b \in Nat \ {0}
  PROVE  Quo(0, b) = 0
  <1>0. \A z \in Int : z >= 0 => Quo(z, b) \in Int /\ Quo(z, b) >= 0 /\ b * Quo(z, b) <= z
    BY QuoBounds
  <1>1. PICK q \in Int : q = Quo(0, b) /\ q >= 0 /\ b * q <= 0
    BY <1>0
  <1>2. b * q < b * 0 + b
    BY <1>1
  <1>3. q <= 0
    BY <1>2, ProductsOrdered
  <1> QED  BY <1>1, <1>3

(* The rollover accumulator only grows with the ledger it is projected to.  *)
LEMMA ViewRoll ==
  ASSUME NEW r \in Registered, NEW at \in Nat, NEW at2 \in Nat, at <= at2
  PROVE  /\ View(r, at).roll \in Int /\ View(r, at2).roll \in Int
         /\ r.roll <= View(r, at).roll /\ View(r, at).roll <= View(r, at2).roll
         /\ at <= r.last => View(r, at).roll = r.roll
  <1> DEFINE n(a) == IF a > r.last THEN a - r.last ELSE 0
             k == r.rate["rollover_rate"]
  <1>1. r.last \in Nat /\ r.roll \in Int /\ k \in Nat
    BY DEF Registered, Rate
  <1>2. PICK b \in Nat \ {0} : b = pScale * 100
    BY FeeMathAssumption
  <1>3. PICK m \in Nat : m = k * usdcScale
    BY <1>1, FeeMathAssumption
  <1>4. n(at) \in Nat /\ n(at2) \in Nat /\ n(at) <= n(at2) /\ (at <= r.last => n(at) = 0)
    BY <1>1
  <1>5. ASSUME NEW a \in Nat PROVE View(r, a).roll = r.roll + Quo(n(a) * m, b)
    <2>1. PICK x \in Nat : x = n(a)
      BY <1>1
    <2>2. x * k * usdcScale = x * m
      BY <1>1, <1>3, FeeMathAssumption
    <2>3. View(r, a).roll = r.roll + Quo(n(a) * k * usdcScale, pScale * 100)
      BY DEF View, PendingAccRollover
    <2> HIDE DEF n, k
    <2> QED  BY <1>2, <2>1, <2>2, <2>3
  <1> HIDE DEF n, k
  <1>6. PICK x \in Nat, y \in Nat : x = n(at) /\ y = n(at2) /\ x <= y /\ (at <= r.last => x = 0)
    BY <1>4
  <1>7. x * m \in Nat /\ y * m \in Nat /\ x * m <= y * m
    <2>1. m * x <= m * y /\ x * m = m * x /\ y * m = m * y
      BY <1>6, ProductsMonotone
    <2> QED  BY <2>1
  <1>8. /\ Quo(x * m, b) \in Int /\ Quo(y * m, b) \in Int
        /\ Quo(x * m, b) >= 0 /\ Quo(x * m, b) <= Quo(y * m, b)
    <2>1. PICK u \in Nat, v \in Nat : u = x * m /\ v = y * m /\ u <= v
      BY <1>7
    <2>2. Quo(u, b) \in Int /\ Quo(v, b) \in Int /\ Quo(u, b) >= 0 /\ Quo(u, b) <= Quo(v, b)
      <3>1. u \in Int /\ v \in Int /\ u >= 0
        OBVIOUS
      <3>2. Quo(u, b) \in Int /\ Quo(v, b) \in Int /\ Quo(u, b) >= 0
        BY <3>1, QuoBounds
      <3>3. Quo(u, b) <= Quo(v, b)
        BY <2>1, <3>1, QuoMonotone
      <3> QED  BY <3>2, <3>3
    <2> QED  BY <2>1, <2>2
  <1>9. at <= r.last => Quo(x * m, b) = 0
    BY <1>6, QuoZero
  <1>10. View(r, at).roll = r.roll + Quo(x * m, b) /\ View(r, at2).roll = r.roll + Quo(y * m, b)
    BY <1>5, <1>6
  <1> QED  BY <1>1, <1>8, <1>9, <1>10

(* An accumulator projected to a ledger, as it compares with the contract's. *)
Rolled(p, roll, at) ==
  /\ roll \in Int /\ at \in Nat /\ at <= now
  /\ roll <= ContractAcc(p).roll
  /\ at = now => roll = ContractAcc(p).roll
  /\ opened # NoRow /\ opened.pair = p /\ at >= opened.ledger => roll >= opened.roll

RegRolls ==
  /\ now >= 1
  /\ opened # NoRow => 1 <= opened.ledger /\ opened.ledger <= now
  /\ \A p \in Pair : /\ reg[p].roll >= 0 /\ reg[p].last <= now
                     /\ opened # NoRow /\ opened.pair = p => reg[p].roll >= opened.roll

JobRolled ==
  /\ job.at <= now
  /\ job.step \in {"pending_acc_funding_view", "write_fees"} =>
       Rolled(job.pair, job.loc.fees.roll, job.at)
  /\ job.step = "write_fees" => job.loc.fees.at = job.at

RowsRolled == \A p \in Pair : \A row \in FeeRows(p) : Rolled(p, row.roll, row.at)

RollInv == PairSyncTypeOK /\ RegRolls /\ JobRolled /\ RowsRolled

(* Nothing the contracts do takes rollover back.                            *)
LEMMA ContractRolls ==
  ASSUME PairSyncTypeOK, RegRolls, Contract
  PROVE  /\ RegRolls'
         /\ \A p \in Pair : \A roll, at : Rolled(p, roll, at) => Rolled(p, roll, at)'
  <1>0. /\ now \in Nat /\ reg \in [Pair -> Registered] /\ opened \in {NoRow} \cup Trade
    BY DEF PairSyncTypeOK
  <1>5. opened # NoRow => opened.ledger \in Nat /\ opened.roll \in Int
    BY <1>0 DEF Trade
  <1>6. \A p \in Pair : reg[p] \in Registered /\ reg[p].roll \in Int /\ reg[p].last \in Nat
    BY <1>0 DEF Registered
  <1>1. CASE CloseLedger
    <2>1. now' = now + 1 /\ now + 1 \in Nat /\ reg' = reg /\ opened' = opened
      BY <1>0, <1>1 DEF CloseLedger
    <2>2. RegRolls'
      <3>1. now' >= 1 /\ \A p \in Pair : reg'[p].last <= now'
        BY <1>0, <1>6, <2>1 DEF RegRolls
      <3>2. opened # NoRow => 1 <= opened.ledger /\ opened.ledger <= now'
        BY <1>0, <1>5, <2>1 DEF RegRolls
      <3> QED  BY <2>1, <3>1, <3>2 DEF RegRolls
    <2>3. ASSUME NEW p \in Pair, NEW roll, NEW at, Rolled(p, roll, at)
          PROVE  Rolled(p, roll, at)'
      <3>1. /\ ContractAcc(p)' = View(reg[p], now + 1) /\ ContractAcc(p) = View(reg[p], now)
            /\ View(reg[p], now).roll <= View(reg[p], now + 1).roll
            /\ View(reg[p], now).roll \in Int /\ View(reg[p], now + 1).roll \in Int
        BY <1>0, <1>6, <2>1, ViewRoll DEF ContractAcc
      <3> QED  BY <1>0, <2>1, <2>3, <3>1 DEF Rolled
    <2> QED  BY <2>2, <2>3
  <1>2. ASSUME NEW q \in Pair, NEW r \in Registered, NEW kind \in Kind \cup {"thr"},
               NEW evs \in Seq(Events), Operation(q, r, kind, evs)
        PROVE  /\ RegRolls'
               /\ \A p \in Pair : \A roll, at : Rolled(p, roll, at) => Rolled(p, roll, at)'
    <2>1. now' = now /\ reg' = [reg EXCEPT ![q] = r]
      BY <1>2 DEF Operation, Operate
    <2>2. /\ View(r, now).roll = View(reg[q], now).roll /\ r.roll >= reg[q].roll
          /\ r.last <= now /\ r.roll \in Int /\ r.last \in Nat
          /\ View(reg[q], now).roll \in Int
      <3>1. r.roll \in Int /\ r.last \in Nat
        BY DEF Registered
      <3>2. CASE kind = "thr"
        <4>1. r.roll = reg[q].roll /\ r.last = reg[q].last /\ r.rate = reg[q].rate
          BY <1>2, <3>2 DEF Operation, Kind, Rate
        <4>2. View(r, now).roll = View(reg[q], now).roll
          BY <4>1 DEF View
        <4>3. reg[q].roll >= reg[q].roll /\ reg[q].last <= now
          BY <1>6 DEF RegRolls
        <4>4. View(reg[q], now).roll \in Int
          BY <1>0, <1>6, ViewType
        <4> QED  BY <3>1, <4>1, <4>2, <4>3, <4>4
      <3>3. CASE kind \in Kind
        <4>1. r.roll = View(reg[q], now).roll /\ r.last = now
          BY <1>2, <3>3 DEF Operation, Kind, Rate
        <4>2. View(r, now).roll = r.roll
          BY <1>0, <4>1, ViewRoll
        <4>3. View(reg[q], now).roll \in Int /\ reg[q].roll <= View(reg[q], now).roll
          BY <1>0, <1>6, ViewRoll
        <4> QED  BY <1>0, <3>1, <4>1, <4>2, <4>3
      <3> QED  BY <3>2, <3>3
    <2>3. \/ opened' = opened
          \/ /\ opened = NoRow /\ opened' \in Trade /\ opened'.pair = q /\ opened'.ledger = now
             /\ opened'.roll = r.roll /\ r.roll = View(reg[q], now).roll
      BY <1>2 DEF Operation, Opens
    <2>4. \A p \in Pair : reg'[p] = IF p = q THEN r ELSE reg[p]
      BY <1>0, <2>1
    <2>5. RegRolls'
      <3>1. now' >= 1
        BY <2>1 DEF RegRolls
      <3>2. opened' # NoRow => 1 <= opened'.ledger /\ opened'.ledger <= now'
        BY <1>0, <2>1, <2>3 DEF RegRolls
      <3>3. ASSUME NEW p \in Pair
            PROVE  /\ reg'[p].roll >= 0 /\ reg'[p].last <= now'
                   /\ opened' # NoRow /\ opened'.pair = p => reg'[p].roll >= opened'.roll
        <4>1. /\ reg[p].roll >= 0 /\ reg[p].last <= now
              /\ opened # NoRow /\ opened.pair = p => reg[p].roll >= opened.roll
          BY DEF RegRolls
        <4>2. CASE p # q
          BY <2>1, <2>3, <2>4, <4>1, <4>2
        <4>3. CASE p = q
          <5>1. reg'[p] = r
            BY <2>4, <4>3
          <5>2. reg'[p].roll >= 0 /\ reg'[p].last <= now'
            BY <1>6, <2>1, <2>2, <4>1, <4>3, <5>1
          <5>3. opened # NoRow /\ opened.pair = p => r.roll >= opened.roll
            BY <1>5, <1>6, <2>2, <4>1, <4>3
          <5>4. r.roll >= r.roll
            BY <2>2
          <5> QED  BY <2>3, <5>1, <5>2, <5>3, <5>4
        <4> QED  BY <4>2, <4>3
      <3> QED  BY <3>1, <3>2, <3>3 DEF RegRolls
    <2>6. ASSUME NEW p \in Pair, NEW roll, NEW at, Rolled(p, roll, at)
          PROVE  Rolled(p, roll, at)'
      <3>1. ContractAcc(p)' = View(reg'[p], now) /\ ContractAcc(p) = View(reg[p], now)
        BY <2>1 DEF ContractAcc
      <3>2. ContractAcc(p)'.roll = ContractAcc(p).roll
        BY <2>2, <2>4, <3>1
      <3>3. CASE opened' = opened
        BY <2>1, <2>6, <3>2, <3>3 DEF Rolled
      <3>4. CASE opened' # opened
        <4>1. opened'.pair = q /\ opened'.ledger = now /\ opened'.roll = View(reg[q], now).roll
          BY <2>3, <3>4
        <4>2. opened'.pair = p /\ at >= now => at = now
          BY <1>0, <2>6 DEF Rolled
        <4>3. opened'.pair = p /\ at = now => roll = opened'.roll
          BY <2>6, <3>1, <4>1 DEF Rolled
        <4> QED  BY <2>1, <2>6, <3>2, <4>1, <4>2, <4>3 DEF Rolled
      <3> QED  BY <3>3, <3>4
    <2> QED  BY <2>5, <2>6
  <1> QED  BY <1>1, <1>2, ContractOperates

(* What the view answers the pass.                                           *)
LEMMA ViewIsRolled ==
  ASSUME PairSyncTypeOK, RegRolls, NEW p \in Pair, NEW at \in Nat, at <= now
  PROVE  Rolled(p, View(reg[p], at).roll, at)
  <1>1. now \in Nat /\ reg[p] \in Registered /\ reg[p].roll \in Int
    BY DEF PairSyncTypeOK, Registered
  <1>2. /\ View(reg[p], at).roll \in Int /\ reg[p].roll <= View(reg[p], at).roll
        /\ View(reg[p], at).roll <= View(reg[p], now).roll
    BY <1>1, ViewRoll
  <1>3. opened # NoRow => opened.roll \in Int
    BY DEF PairSyncTypeOK, Trade
  <1>4. opened # NoRow /\ opened.pair = p => View(reg[p], at).roll >= opened.roll
    <2>1. opened # NoRow /\ opened.pair = p => reg[p].roll >= opened.roll
      BY DEF RegRolls
    <2> QED  BY <1>1, <1>2, <1>3, <2>1
  <1> QED  BY <1>1, <1>2, <1>4 DEF Rolled, ContractAcc

(* A row of zeros is never ahead.                                           *)
LEMMA EmptyIsRolled ==
  ASSUME PairSyncTypeOK, RegRolls, NEW p \in Pair
  PROVE  Rolled(p, EmptyFees.roll, EmptyFees.at)
  <1>1. now \in Nat /\ reg[p] \in Registered /\ reg[p].roll \in Int
    BY DEF PairSyncTypeOK, Registered
  <1>2. EmptyFees.roll = 0 /\ EmptyFees.at = 0
    BY DEF EmptyFees
  <1>3. reg[p].roll <= View(reg[p], now).roll /\ View(reg[p], now).roll \in Int
    BY <1>1, ViewRoll
  <1>4. opened # NoRow => opened.ledger \in Nat
    BY DEF PairSyncTypeOK, Trade
  <1>5. 0 <= View(reg[p], now).roll /\ ~(0 = now)
    <2>1. reg[p].roll >= 0 /\ now >= 1
      BY DEF RegRolls
    <2> QED  BY <1>1, <1>3, <2>1
  <1>6. opened # NoRow => ~(0 >= opened.ledger)
    BY <1>4 DEF RegRolls
  <1> QED  BY <1>1, <1>2, <1>5, <1>6 DEF Rolled, ContractAcc

(* No row is ahead initially.                                               *)
LEMMA RollInit == Init => RollInv
  <1> SUFFICES ASSUME Init PROVE RollInv
    OBVIOUS
  <1>1. PairSyncTypeOK
    BY TypeInit
  <1>2. RegRolls
    BY DEF Init, RegRolls
  <1>3. JobRolled
    BY DEF Init, JobRolled, NoJob
  <1>4. RowsRolled
    BY DEF Init, RowsRolled, FeeRows
  <1> QED  BY <1>1, <1>2, <1>3, <1>4 DEF RollInv

(* The rows after a step are rows, or new ones that compare as they should.  *)
LEMMA RowsStay ==
  ASSUME RollInv, UNCHANGED <<now, reg, opened>>,
         \A p \in Pair : \A row \in FeeRows(p)' :
           row \in FeeRows(p) \/ Rolled(p, row.roll, row.at)
  PROVE  RowsRolled'
  BY DEF RollInv, RowsRolled, Rolled, ContractAcc

(* A pass holds nothing ahead of the contracts.                             *)
LEMMA JobStays ==
  ASSUME RollInv, UNCHANGED <<now, reg, opened>>,
         job'.at \in {job.at, 0, now},
         job'.step \in {"pending_acc_funding_view", "write_fees"} =>
           Rolled(job'.pair, job'.loc.fees.roll, job'.at),
         job'.step = "write_fees" => job'.loc.fees.at = job'.at
  PROVE  JobRolled'
  <1>1. now \in Nat /\ job.at <= now
    BY DEF RollInv, PairSyncTypeOK, JobRolled
  <1>2. job'.at <= now'
    BY <1>1
  <1>3. ASSUME NEW p, NEW roll, NEW at, Rolled(p, roll, at) PROVE Rolled(p, roll, at)'
    BY <1>3 DEF Rolled, ContractAcc
  <1> QED  BY <1>2, <1>3 DEF JobRolled

(* Every step keeps the rows behind the contracts.                          *)
LEMMA RollStep == RollInv /\ [Next]_vars => RollInv'
  <1> SUFFICES ASSUME RollInv, [Next]_vars PROVE RollInv'
    OBVIOUS
  <1>1. PairSyncTypeOK /\ RegRolls /\ JobRolled /\ RowsRolled
    BY DEF RollInv
  <1>2. PairSyncTypeOK'
    BY <1>1, TypeStep
  <1>3. /\ job \in Jobs /\ job.loc \in Locals /\ job.loc.fees \in FeesRow /\ job.pair \in Pair
        /\ job.at \in Nat /\ now \in Nat /\ tb \in Tables /\ keeper \in Keepers
        /\ (job.step = "get_depth" => job.loc.thr \in Thresholds)
    BY <1>1 DEF PairSyncTypeOK, Jobs, Locals
  <1>4. CASE Contract
    <2>1. job' = job /\ tb' = tb /\ keeper' = keeper
      BY <1>4, ContractFrame
    <2>2. RegRolls'
      BY <1>1, <1>4, ContractRolls
    <2>3. \A p \in Pair : \A roll, at : Rolled(p, roll, at) => Rolled(p, roll, at)'
      BY <1>1, <1>4, ContractRolls
    <2>4. RowsRolled'
      BY <1>1, <2>1, <2>3 DEF RowsRolled, FeeRows
    <2>5. now <= now' /\ now' \in Nat
      <3>1. CASE CloseLedger
        BY <1>3, <3>1 DEF CloseLedger
      <3>2. ASSUME NEW p \in Pair, NEW r \in Registered, NEW kind \in Kind \cup {"thr"},
                   NEW evs \in Seq(Events), Operation(p, r, kind, evs)
            PROVE  now' = now
        BY <3>2 DEF Operation, Operate
      <3>3. now <= now
        BY <1>3
      <3>4. CloseLedger \/ now' = now
        BY <1>1, <1>4, <3>2, ContractOperates
      <3> QED  BY <1>3, <3>1, <3>3, <3>4
    <2>6. JobRolled'
      <3>1. job'.at <= now'
        BY <1>1, <1>3, <2>1, <2>5 DEF JobRolled
      <3> QED  BY <1>1, <1>3, <2>1, <2>3, <3>1 DEF JobRolled
    <2> QED  BY <1>2, <2>2, <2>4, <2>6 DEF RollInv
  <1>5. CASE UNCHANGED <<now, reg, opened>>
    <2>1. RegRolls'
      BY <1>1, <1>5 DEF RegRolls
    <2>2. SUFFICES JobRolled' /\ RowsRolled'
      BY <1>2, <2>1 DEF RollInv
    <2>3. ASSUME tb'.fees = tb.fees, keeper'.fees \in {keeper.fees, tb.fees}
          PROVE  RowsRolled'
      BY <1>5, <2>3, RowsStay DEF FeeRows
    <2>4. ASSUME job' = job PROVE JobRolled'
      BY <1>1, <1>5, <2>4, JobStays DEF JobRolled
    <2>5. CASE UNCHANGED vars
      BY <2>3, <2>4, <2>5 DEF vars
    <2>6. CASE KeeperStart \/ KeeperRefresh
      <3>1. keeper'.fees = tb.fees /\ tb' = tb /\ job' = job
        BY <1>3, <2>6 DEF KeeperStart, KeeperRefresh, Keepers
      <3> QED  BY <2>3, <2>4, <3>1
    <2>7. CASE StartPass
      <3>1. job'.at = now /\ job'.step = "get_pair" /\ tb' = tb /\ keeper' = keeper
        BY <2>7 DEF StartPass, NoJob, LatestLedger
      <3> QED  BY <1>5, <2>3, <3>1, JobStays
    <2>8. CASE ApplyEvent
      <3> DEFINE e == feed[1]
      <3>1. job' = job /\ e = Head(feed) /\ e \in Events /\ e.pair \in Pair /\ e.kind \in Rate \cup {"oi", "opened"}
            /\ (e.kind \in Rate => e.val \in Nat)
        BY <1>1, <2>8, HeadTail, EventCases DEF ApplyEvent
      <3>2. CASE e.kind \in {"oi", "opened"}
        <4>1. CASE e.kind = "opened"
          <5>1. tb' = [tb EXCEPT !.trade = e.val] /\ keeper' = Heard(e.val)
            BY <2>8, <3>1, <4>1 DEF ApplyEvent, Rate
          <5> QED  BY <1>3, <2>3, <2>4, <3>1, <5>1 DEF Tables, Keepers, Heard
        <4>2. CASE e.kind = "oi"
          <5>1. tb' = [tb EXCEPT !.oi[e.pair] = AppliedOi(tb.oi[e.pair], e.val)] /\ keeper' = keeper
            BY <2>8, <3>1, <4>2 DEF ApplyEvent, Rate
          <5>2. tb'.fees = tb.fees
            BY <1>3, <5>1 DEF Tables
          <5> QED  BY <2>3, <2>4, <3>1, <5>1, <5>2
        <4> QED  BY <3>2, <4>1, <4>2
      <3>3. CASE e.kind \in Rate
        <4> DEFINE row == AppliedRate(e.pair, e.kind, e.val)
        <4>1. tb' = [tb EXCEPT !.fees[e.pair] = row] /\ keeper' = keeper
          BY <2>8, <3>1, <3>3 DEF ApplyEvent, Rate
        <4>2. FeesOf(e.pair) \in FeesRow
          BY <1>1, <3>1, FeesOfType
        <4>3. row.roll = FeesOf(e.pair).roll /\ row.at = FeesOf(e.pair).at
          BY <4>2 DEF AppliedRate, FeesRow
        <4>4. Rolled(e.pair, FeesOf(e.pair).roll, FeesOf(e.pair).at)
          BY <1>1, <3>1, EmptyIsRolled DEF FeesOf, RowsRolled, FeeRows
        <4> HIDE DEF row
        <4>5. tb'.fees = [tb.fees EXCEPT ![e.pair] = row]
          BY <1>3, <4>1 DEF Tables
        <4> HIDE DEF e
        <4>6. \A p \in Pair : \A r \in FeeRows(p)' : r \in FeeRows(p) \/ Rolled(p, r.roll, r.at)
          BY <1>3, <3>1, <4>1, <4>3, <4>4, <4>5 DEF FeeRows, Tables
        <4> QED  BY <1>5, <2>4, <3>1, <4>6, RowsStay
      <3> QED  BY <3>1, <3>2, <3>3
    <2>9. CASE CallContract
      <3>1. AnsweredMoves(job, job') /\ job.step \in Calls /\ tb' = tb /\ keeper' = keeper
        BY <1>1, <2>9, AnsweredFields DEF CallContract
      <3>2. job'.at = job.at
        BY <3>1 DEF AnsweredMoves, Moved, Calls
      <3>3. CASE job.step = "pending_acc_rollover_view"
        <4>1. /\ job'.step = "pending_acc_funding_view" /\ job'.pair = job.pair
              /\ job'.loc = [job.loc EXCEPT !.fees.roll = View(reg[job.pair], job.at).roll]
          BY <3>1, <3>3 DEF AnsweredMoves, Moved
        <4>2. job'.loc.fees.roll = View(reg[job.pair], job.at).roll
          BY <1>3, <4>1 DEF Locals, FeesRow
        <4>3. Rolled(job.pair, View(reg[job.pair], job.at).roll, job.at)
          BY <1>1, <1>3, ViewIsRolled DEF JobRolled
        <4> QED  BY <1>5, <2>3, <3>1, <3>2, <4>1, <4>2, <4>3, JobStays
      <3>4. CASE job.step = "pending_acc_funding_view"
        <4> DEFINE v == View(reg[job.pair], job.at)
        <4>1. /\ job'.step = "write_fees" /\ job'.pair = job.pair
              /\ job'.loc = [job.loc EXCEPT !.fees.long = v.long, !.fees.short = v.short,
                                            !.fees.at = job.at]
          BY <3>1, <3>4 DEF AnsweredMoves, Moved
        <4> HIDE DEF v
        <4>2. job'.loc.fees.roll = job.loc.fees.roll /\ job'.loc.fees.at = job.at
          <5>1. job'.loc.fees = [job.loc.fees EXCEPT !.long = v.long, !.short = v.short, !.at = job.at]
            BY <1>3, <4>1 DEF Locals
          <5> QED  BY <1>3, <5>1 DEF FeesRow
        <4>3. Rolled(job.pair, job.loc.fees.roll, job.at)
          BY <1>1, <3>4 DEF JobRolled
        <4> QED  BY <1>5, <2>3, <3>1, <3>2, <4>1, <4>2, <4>3, JobStays
      <3>5. CASE job.step \notin {"pending_acc_rollover_view", "pending_acc_funding_view"}
        <4>1. job'.step \notin {"pending_acc_funding_view", "write_fees"}
          <5>1. job.step \in {"get_pair", "get_depth", "get_acc_rollover", "get_acc_funding", "get_oi",
                              "get_group"}
            BY <3>1, <3>5 DEF Calls
          <5>2. CASE job.step \in {"get_pair", "get_depth", "get_group"}
            BY <3>1, <5>2 DEF AnsweredMoves, Moved
          <5>3. CASE job.step \in {"get_acc_rollover", "get_acc_funding", "get_oi"}
            BY <3>1, <5>3 DEF AnsweredMoves, Moved
          <5> QED  BY <5>1, <5>2, <5>3
        <4> QED  BY <1>5, <2>3, <3>1, <3>2, <4>1, JobStays
      <3> QED  BY <3>3, <3>4, <3>5
    <2>10. CASE CallRetries
      <3>1. /\ job' = [job EXCEPT !.attempt = @ + 1] /\ tb' = tb /\ keeper' = keeper
        BY <2>10 DEF CallRetries
      <3>2. job'.step = job.step /\ job'.pair = job.pair /\ job'.at = job.at /\ job'.loc = job.loc
        BY <1>3, <3>1 DEF Jobs
      <3> QED  BY <1>1, <1>5, <2>3, <3>1, <3>2, JobStays DEF JobRolled
    <2>11. CASE WriteFees
      <3>1. Moved(job, job', [job.loc EXCEPT !.fees = EmptyFees], "write_oi")
        BY <1>1, <2>11, WriteFeesMoves
      <3>2. job'.step = "write_oi" /\ job'.at = job.at
        BY <3>1 DEF Moved
      <3>3. /\ job.step = "write_fees" /\ tb' = [tb EXCEPT !.fees[job.pair] = job.loc.fees]
            /\ keeper' = keeper
        BY <2>11 DEF WriteFees
      <3>4. tb'.fees = [tb.fees EXCEPT ![job.pair] = job.loc.fees]
        BY <1>3, <3>3 DEF Tables
      <3>5. Rolled(job.pair, job.loc.fees.roll, job.loc.fees.at)
        BY <1>1, <3>3 DEF JobRolled
      <3>6. \A p \in Pair : \A r \in FeeRows(p)' : r \in FeeRows(p) \/ Rolled(p, r.roll, r.at)
        BY <1>3, <3>3, <3>4, <3>5 DEF FeeRows, Tables
      <3> QED  BY <1>5, <3>2, <3>6, RowsStay, JobStays
    <2>12. CASE CallFails \/ UpsertPair \/ WriteOi \/ UpsertGroup \/ StatementFails \/ EndPass \/ Interrupted
      <3>1. /\ job'.step \in {"idle", "get_pair", "upsert_pair", "get_acc_rollover", "get_group", "end"}
            /\ job'.at \in {job.at, 0, now}
        BY <1>1, <2>12, PassRestarts
      <3>2. tb'.fees = tb.fees /\ keeper' = keeper
        BY <1>3, <2>12 DEF CallFails, UpsertPair, WriteOi, UpsertGroup, StatementFails, EndPass,
                           Interrupted, Tables
      <3> QED  BY <1>5, <2>3, <3>1, <3>2, JobStays
    <2> QED
      BY <1>4, <2>5, <2>6, <2>7, <2>8, <2>9, <2>10, <2>11, <2>12 DEF Next, PairIndexer, RollInv
  <1> QED
    BY <1>4, <1>5, ChainStays DEF Next, vars, chainVars

(* Rows behind the contracts give rollover fees that are not too high.      *)
LEMMA RollImplies == RollInv => FeesNeverAhead
  <1> SUFFICES ASSUME RollInv, NEW p \in Pair, NEW row \in FeeRows(p)
               PROVE  /\ row.roll <= ContractAcc(p).roll
                      /\ opened # NoRow /\ opened.pair = p /\ row.at >= opened.ledger =>
                           RolloverFee(opened, row) >= 0
    BY DEF FeesNeverAhead
  <1>1. Rolled(p, row.roll, row.at)
    BY DEF RollInv, RowsRolled
  <1>2. ASSUME opened # NoRow, opened.pair = p, row.at >= opened.ledger
        PROVE  RolloverFee(opened, row) >= 0
    <2>1. opened \in Trade
      BY <1>2 DEF RollInv, PairSyncTypeOK
    <2>2. PICK c \in Nat : c = opened.terms.coll
      BY <2>1, PairSyncAssumption DEF Trade
    <2>3. PICK a \in Nat : a = row.roll - opened.roll
      BY <1>1, <1>2, <2>1 DEF Rolled, Trade
    <2>4. a * c \in Nat
      OBVIOUS
    <2>5. Quo(a * c, usdcScale) >= 0
      BY <2>4, FeeMathAssumption, QuoBounds
    <2> QED  BY <2>2, <2>3, <2>5 DEF RolloverFee, RolloverFeeForTrade
  <1> QED  BY <1>1, <1>2 DEF Rolled

(* RollInv holds in every state.                                            *)
LEMMA RollAlways == Spec => []RollInv
  BY RollInit, RollStep, PTL DEF Spec

(* No fee row, in the table or in the keeper's copy, runs ahead of the       *)
(* contract, and one projected at the opening or later charges the trade no  *)
(* negative rollover fee, for any number of pairs, any rates and ledgers.    *)
THEOREM RowsNeverAhead == Spec => []FeesNeverAhead
  BY RollAlways, RollImplies, PTL

-----------------------------------------------------------------------------
(* The price Detect compares with, as one call of LiquidationPrice.          *)
LEMMA FeesType ==
  ASSUME NEW t \in Trade, NEW roll \in Int, NEW long \in Int, NEW short \in Int,
         NEW acc, acc.roll = roll, acc.long = long, acc.short = short
  PROVE  RolloverFee(t, acc) \in Int /\ FundingFee(t, acc) \in Int
  <1>1. PICK c \in Nat, l \in Nat : c = t.terms.coll /\ l = t.terms.lev
    BY PairSyncAssumption DEF Trade
  <1>2. PICK a \in Int, b \in Int : /\ a = roll - t.roll
                                    /\ b = (IF t.terms.long THEN long ELSE short) - t.fund
    BY DEF Trade
  <1>3. Quo(a * c, usdcScale) \in Int /\ Quo(b * c, usdcScale) \in Int
    <2>1. a * c \in Int /\ b * c \in Int
      OBVIOUS
    <2> QED  BY <2>1, FeeMathAssumption, QuoBounds
  <1>4. RolloverFee(t, acc) = Quo(a * c, usdcScale)
    BY <1>1, <1>2 DEF RolloverFee, RolloverFeeForTrade
  <1>5. FundingFee(t, acc) = Quo(b * c, usdcScale) * l
    BY <1>1, <1>2 DEF FundingFee, FundingFeeForTrade
  <1> QED  BY <1>3, <1>4, <1>5

(* What the keeper's liquidation price is computed from.                    *)
LEMMA WatchedPrice ==
  ASSUME PairSyncTypeOK, NEW en, en = keeper.entry, en # NoRow, NEW c, c = en.trade.terms
  PROVE  /\ en.trade \in Trade /\ en.trade.pair \in Pair
         /\ c \in [long: BOOLEAN, open: Nat, coll: Nat \ {0}, lev: Nat \ {0}]
         /\ WatchedFees(en) \in Int /\ WatchedThreshold(en) \in 1 .. 100
         /\ KeeperLiq(en) = LiquidationPrice(c.open, c.long, c.coll, c.lev, WatchedFees(en),
                                             WatchedThreshold(en))
  <1>1. en \in [trade: Trade, thr: 1 .. 100] /\ keeper.fees \in [Pair -> {NoRow} \cup FeesRow]
    BY DEF PairSyncTypeOK, Keepers
  <1>2. en.trade \in Trade /\ en.trade.pair \in Pair /\ en.thr \in 1 .. 100
    BY <1>1 DEF Trade
  <1>3. c \in [long: BOOLEAN, open: Nat, coll: Nat \ {0}, lev: Nat \ {0}]
    BY <1>2, PairSyncAssumption DEF Trade
  <1> DEFINE fee == keeper.fees[en.trade.pair]
  <1>4. CASE fee = NoRow
    <2>1. WatchedFees(en) = 0 /\ WatchedThreshold(en) = 90
      BY <1>4 DEF WatchedFees, WatchedThreshold, DefaultThreshold
    <2>2. KeeperLiq(en) = LiqWith(en.trade, 0, 90)
      BY <1>4 DEF KeeperLiq, LiqAtOpen, DefaultThreshold
    <2> QED  BY <1>2, <1>3, <2>1, <2>2 DEF LiqWith
  <1>5. CASE fee # NoRow
    <2>1. fee.roll \in Int /\ fee.long \in Int /\ fee.short \in Int
      BY <1>1, <1>2, <1>5 DEF FeesRow
    <2>2. /\ WatchedFees(en) = RolloverFee(en.trade, fee) + FundingFee(en.trade, fee)
          /\ WatchedThreshold(en) = en.thr
      BY <1>5 DEF WatchedFees, WatchedThreshold
    <2>3. KeeperLiq(en) = LiqWith(en.trade, WatchedFees(en), en.thr)
      BY <1>5, <2>2 DEF KeeperLiq, CurrentLiq
    <2>4. RolloverFee(en.trade, fee) \in Int /\ FundingFee(en.trade, fee) \in Int
      BY <1>2, <2>1, FeesType
    <2>5. en.thr # 0
      BY <1>2
    <2> QED  BY <1>2, <1>3, <2>2, <2>3, <2>4, <2>5 DEF LiqWith
  <1> QED  BY <1>4, <1>5

(* The liquidation price is where the loss reaches the threshold.           *)
LEMMA LossImplied == PairSyncTypeOK => LiqIsLossThreshold
  <1> SUFFICES ASSUME PairSyncTypeOK, keeper.entry # NoRow,
                      NEW en, en = keeper.entry, NEW c, c = en.trade.terms,
                      NEW x \in 1 .. 2 * c.open
               PROVE  /\ IsLiquidatable(x, KeeperLiq(en), c.long) =>
                           LossReached(c, WatchedFees(en), WatchedThreshold(en),
                                       IF c.long THEN x - 1 ELSE x + 1)
                      /\ LossReached(c, WatchedFees(en), WatchedThreshold(en), x) =>
                           \/ IsLiquidatable(x, KeeperLiq(en), c.long)
                           \/ KeeperLiq(en) = 0 /\ ~c.long /\ WatchedFees(en) >= c.coll
    BY DEF LiqIsLossThreshold
  <1>1. /\ c \in [long: BOOLEAN, open: Nat, coll: Nat \ {0}, lev: Nat \ {0}]
        /\ WatchedFees(en) \in Int /\ WatchedThreshold(en) \in 1 .. 100
        /\ KeeperLiq(en) = LiquidationPrice(c.open, c.long, c.coll, c.lev, WatchedFees(en),
                                            WatchedThreshold(en))
    BY WatchedPrice
  <1>2. PICK fees \in Int, thr \in Nat : fees = WatchedFees(en) /\ thr = WatchedThreshold(en)
    BY <1>1
  <1>3. c.open \in Nat
    BY <1>1
  <1>4. x \in Nat \ {0} /\ c.open # 0
    BY <1>3
  <1>5. /\ IsLiquidatable(x, KeeperLiq(en), c.long) =>
             LossReached(c, fees, thr, IF c.long THEN x - 1 ELSE x + 1)
        /\ LossReached(c, fees, thr, x) =>
             IsLiquidatable(x, KeeperLiq(en), c.long)
               \/ (KeeperLiq(en) = 0 /\ ~c.long /\ fees >= c.coll)
    <2>1. KeeperLiq(en) = LiquidationPrice(c.open, c.long, c.coll, c.lev, fees, thr)
      BY <1>1, <1>2
    <2>2. c \in [long: BOOLEAN, open: Nat, coll: Nat \ {0}, lev: Nat \ {0}]
      BY <1>1
    <2>3. PICK liq : liq = KeeperLiq(en)
      OBVIOUS
    <2>4. liq = LiquidationPrice(c.open, c.long, c.coll, c.lev, fees, thr)
      BY <2>1, <2>3
    <2>5. /\ IsLiquidatable(x, liq, c.long) =>
               LossReached(c, fees, thr, IF c.long THEN x - 1 ELSE x + 1)
          /\ LossReached(c, fees, thr, x) =>
               IsLiquidatable(x, liq, c.long) \/ (liq = 0 /\ ~c.long /\ fees >= c.coll)
      BY <1>4, <2>2, <2>4, PriceIsLoss
    <2> QED  BY <2>3, <2>5
  <1> QED  BY <1>2, <1>5

(* The price of math.go is where the trade's loss reaches the threshold, for *)
(* any trade, accumulators and threshold the keeper can hold.                *)
THEOREM PriceIsThreshold == Spec => []LiqIsLossThreshold
  BY PairSyncTypes, LossImplied, PTL

-----------------------------------------------------------------------------
(* The trade of the table, of the keeper's entry and of an event in flight   *)
(* is the one opened.                                                        *)
TradeInv ==
  /\ tb.trade # NoRow => tb.trade = opened
  /\ keeper.entry # NoRow => opened # NoRow /\ keeper.entry.trade = opened
  /\ \A i \in DOMAIN feed : feed[i].kind = "opened" => opened # NoRow /\ feed[i].val = opened

(* There is no trade initially.                                             *)
LEMMA TradeInit == Init => TradeInv
  BY DEF Init, TradeInv

(* An operation opens at most the one trade.                                *)
LEMMA OperationTrade ==
  ASSUME PairSyncTypeOK, TradeInv, NEW p \in Pair, NEW r \in Registered,
         NEW kind \in Kind \cup {"thr"}, NEW evs \in Seq(Events), Operation(p, r, kind, evs)
  PROVE  TradeInv'
  <1>1. tb' = tb /\ keeper' = keeper /\ feed' = feed \o evs /\ feed \in Seq(Events)
    BY DEF Operation, Operate, PairSyncTypeOK
  <1>2. \/ opened' = opened /\ \A i \in 1 .. Len(evs) : evs[i].kind # "opened"
        \/ /\ opened = NoRow /\ opened' \in Trade
           /\ \A i \in 1 .. Len(evs) : evs[i].kind = "opened" => evs[i].val = opened'
    <2>1. CASE kind = "thr"
      <3>1. evs = <<>> /\ opened' = opened
        BY <2>1 DEF Operation, Kind, Rate
      <3> QED  BY <3>1
    <2>2. CASE kind \in Kind
      <3>1. /\ Len(evs) >= 1 /\ evs[1] = Event(kind, p, evs[1].val)
            /\ (Len(evs) = 1 /\ opened' = opened) \/ Opens(p, r, evs)
        BY <2>2 DEF Operation, Kind, Rate
      <3>2. evs[1].kind = kind /\ kind # "opened"
        <4>1. Event(kind, p, evs[1].val).kind = kind
          BY DEF Event
        <4> QED  BY <2>2, <3>1, <4>1 DEF Kind, Rate
      <3>3. CASE Len(evs) = 1 /\ opened' = opened
        BY <3>2, <3>3
      <3>4. CASE Opens(p, r, evs)
        <4>1. Len(evs) = 2 /\ evs[2] = Event("opened", p, opened') /\ opened = NoRow /\ opened' \in Trade
          BY <3>4 DEF Opens
        <4>2. evs[2].val = opened'
          BY <4>1 DEF Event
        <4>3. \A i \in 1 .. Len(evs) : i = 1 \/ i = 2
          BY <4>1
        <4> QED  BY <3>2, <4>1, <4>2, <4>3
      <3> QED  BY <3>1, <3>3, <3>4
    <2> QED  BY <2>1, <2>2
  <1>3. ASSUME NEW i \in DOMAIN feed'
        PROVE  \/ i \in DOMAIN feed /\ feed'[i] = feed[i]
               \/ \E j \in 1 .. Len(evs) : feed'[i] = evs[j]
    <2>1. i \in 1 .. Len(feed) + Len(evs) /\ Len(feed) \in Nat /\ Len(evs) \in Nat
      BY <1>1
    <2>2. CASE i <= Len(feed)
      BY <1>1, <2>1, <2>2
    <2>3. CASE i > Len(feed)
      <3>1. i - Len(feed) \in 1 .. Len(evs) /\ feed'[i] = evs[i - Len(feed)]
        BY <1>1, <2>1, <2>3
      <3> QED  BY <3>1
    <2> QED  BY <2>1, <2>2, <2>3
  <1>4. NoRow \notin Trade
    BY NoRowIsNoRecord
  <1> QED  BY <1>1, <1>2, <1>3, <1>4 DEF TradeInv

(* Rows, feed and keeper hold the trade as it was opened.                   *)
LEMMA TradeStep == PairSyncTypeOK /\ TradeInv /\ [Next]_vars => TradeInv'
  <1> SUFFICES ASSUME PairSyncTypeOK, TradeInv, [Next]_vars PROVE TradeInv'
    OBVIOUS
  <1>1. tb \in Tables /\ keeper \in Keepers
    BY DEF PairSyncTypeOK
  <1>2. CASE tb'.trade = tb.trade /\ keeper'.entry = keeper.entry /\ UNCHANGED <<opened, feed>>
    BY <1>2 DEF TradeInv
  <1>3. CASE Contract
    <2>1. CASE CloseLedger
      BY <1>2, <2>1 DEF CloseLedger
    <2>2. ASSUME NEW p \in Pair, NEW r \in Registered, NEW kind \in Kind \cup {"thr"},
                 NEW evs \in Seq(Events), Operation(p, r, kind, evs)
          PROVE  TradeInv'
      BY <2>2, OperationTrade
    <2> QED  BY <1>3, <2>1, <2>2, ContractOperates
  <1>4. CASE ApplyEvent
    <2> DEFINE e == feed[1]
    <2>1. /\ feed # <<>> /\ feed' = Tail(feed) /\ opened' = opened /\ e = Head(feed) /\ e \in Events
          /\ 1 \in DOMAIN feed /\ e.kind \in Rate \cup {"oi", "opened"} /\ e.pair \in Pair
      BY <1>4, HeadTail, EventCases DEF ApplyEvent, chainVars
    <2>2. \A i \in DOMAIN feed' : feed'[i] = feed[i + 1] /\ i + 1 \in DOMAIN feed
      BY <2>1, HeadTail DEF PairSyncTypeOK
    <2>3. CASE e.kind = "opened"
      <3>1. tb' = [tb EXCEPT !.trade = e.val] /\ keeper' = Heard(e.val)
        BY <1>4, <2>1, <2>3 DEF ApplyEvent, Rate
      <3>2. opened # NoRow /\ e.val = opened
        BY <2>1, <2>3 DEF TradeInv
      <3>3. tb'.trade = e.val
        BY <1>1, <3>1 DEF Tables
      <3>4. keeper'.entry = keeper.entry \/ keeper'.entry.trade = e.val
        BY <1>1, <3>1 DEF Keepers, Heard
      <3> HIDE DEF e
      <3> QED  BY <2>1, <2>2, <3>2, <3>3, <3>4 DEF TradeInv
    <2>4. CASE e.kind # "opened"
      <3>1. tb'.trade = tb.trade /\ keeper' = keeper
        <4>1. \/ tb' = [tb EXCEPT !.oi[e.pair] = AppliedOi(tb.oi[e.pair], e.val)]
              \/ tb' = [tb EXCEPT !.fees[e.pair] = AppliedRate(e.pair, e.kind, e.val)]
          BY <1>4, <2>1, <2>4 DEF ApplyEvent
        <4>2. keeper' = keeper
          BY <1>4, <2>1, <2>4 DEF ApplyEvent
        <4> QED  BY <1>1, <4>1, <4>2 DEF Tables
      <3> HIDE DEF e
      <3> QED  BY <2>1, <2>2, <3>1 DEF TradeInv
    <2> QED  BY <2>3, <2>4
  <1>5. CASE KeeperStart
    <2>1. /\ keeper' = [up |-> TRUE, fees |-> tb.fees,
                        entry |-> IF tb.trade = NoRow THEN NoRow
                                  ELSE [trade |-> tb.trade, thr |-> Coalesce(tb.pairs[tb.trade.pair])]]
          /\ tb' = tb /\ UNCHANGED <<opened, feed>>
      BY <1>5 DEF KeeperStart, chainVars
    <2>2. keeper'.entry = IF tb.trade = NoRow THEN NoRow
                          ELSE [trade |-> tb.trade, thr |-> Coalesce(tb.pairs[tb.trade.pair])]
      BY <2>1
    <2> QED  BY <2>1, <2>2 DEF TradeInv
  <1>6. CASE KeeperRefresh
    BY <1>1, <1>2, <1>6 DEF KeeperRefresh, chainVars, Keepers
  <1>7. CASE StartPass \/ PairIndexer
    <2>1. UNCHANGED <<opened, feed>> /\ keeper' = keeper
      BY <1>7, OtherSteps DEF StartPass, PairIndexer, CallContract, CallRetries, CallFails, UpsertPair,
         WriteFees, WriteOi, UpsertGroup, StatementFails, EndPass, Interrupted
    <2>2. tb'.trade = tb.trade
      <3>1. CASE WriteFees
        BY <1>1, <3>1 DEF WriteFees, Tables
      <3>2. CASE WriteOi
        BY <1>1, <3>2 DEF WriteOi, Tables
      <3>3. CASE UpsertPair
        BY <1>1, <3>3 DEF UpsertPair, Tables
      <3>4. CASE UpsertGroup
        BY <1>1, <3>4 DEF UpsertGroup, Tables
      <3>5. CASE tb' = tb
        BY <3>5
      <3> QED  BY <1>7, <3>1, <3>2, <3>3, <3>4, <3>5 DEF StartPass, PairIndexer, CallContract,
                  CallRetries, CallFails, StatementFails, EndPass, Interrupted
    <2> QED  BY <1>2, <2>1, <2>2
  <1>8. CASE UNCHANGED vars
    BY <1>2, <1>8 DEF vars, chainVars
  <1> QED  BY <1>3, <1>4, <1>5, <1>6, <1>7, <1>8 DEF Next

-----------------------------------------------------------------------------
(* A pair whose funding rate was never set has no funding anywhere.          *)
Unfunded(p) == Len(log[p]["funding_rate"]) = 1

NoFunding(p) ==
  /\ reg[p].rate["funding_rate"] = 0 /\ reg[p].long = 0 /\ reg[p].short = 0
  /\ \A row \in FeeRows(p) : row.long = 0 /\ row.short = 0
  /\ job.pair = p => job.loc.fees.long = 0 /\ job.loc.fees.short = 0
  /\ opened # NoRow /\ opened.pair = p => opened.fund = 0

FundInv == \A p \in Pair : Unfunded(p) => NoFunding(p)

(* Without a funding rate nothing accrues.                                  *)
LEMMA ViewNoFunding ==
  ASSUME NEW r \in Registered, NEW at \in Nat,
         r.rate["funding_rate"] = 0, r.long = 0, r.short = 0
  PROVE  View(r, at).long = 0 /\ View(r, at).short = 0
  <1> DEFINE n == IF at > r.last THEN at - r.last ELSE 0
             f == PendingAccFunding([long |-> r.long, short |-> r.short], r.oi, n, 0)
  <1>1. n \in Nat /\ r.oi["long"] \in Nat /\ r.oi["short"] \in Nat
    BY DEF Registered, OiRow, Side
  <1>2. pScale * 100 \in Nat \ {0} /\ usdcScale \in Nat
    BY FeeMathAssumption
  <1> HIDE DEF n
  <1>3. View(r, at).long = f.long /\ View(r, at).short = f.short
    BY DEF View, n
  <1>4. (r.oi["long"] - r.oi["short"]) * n * 0 = 0
    BY <1>1
  <1>5. Quo((r.oi["long"] - r.oi["short"]) * n * 0, pScale * 100) = 0
    BY <1>2, <1>4, QuoZero
  <1>6. 0 * usdcScale = 0
    BY <1>2
  <1>7. \A s \in Side : (IF r.oi[s] > 0 THEN Quo(0 * usdcScale, r.oi[s]) ELSE 0) = 0
    BY <1>1, <1>6, QuoZero DEF Side
  <1>8. f.long = 0 + 0 /\ f.short = 0 - 0
    BY <1>5, <1>7 DEF PendingAccFunding, Side
  <1> QED  BY <1>3, <1>8

(* There is no funding initially.                                           *)
LEMMA FundInit == Init => FundInv
  <1> SUFFICES ASSUME Init, NEW p \in Pair PROVE NoFunding(p)
    BY DEF FundInv
  <1>1. reg[p].rate["funding_rate"] = 0 /\ reg[p].long = 0 /\ reg[p].short = 0
    BY DEF Init, Rate
  <1>2. FeeRows(p) = {} /\ opened = NoRow
    BY DEF Init, FeeRows
  <1>3. job.loc.fees.long = 0 /\ job.loc.fees.short = 0
    BY DEF Init, NoJob, NoLocals, EmptyFees
  <1> QED  BY <1>1, <1>2, <1>3 DEF NoFunding

(* It stays so as long as the log of the rate does not grow.                 *)
LEMMA StillUnfunded ==
  ASSUME PairSyncTypeOK, FundInv, [Next]_vars, NEW p \in Pair, Unfunded(p)'
  PROVE  Unfunded(p) /\ NoFunding(p)
  <1>1. "funding_rate" \in Kind
    BY DEF Kind, Rate
  <1>2. Len(log[p]["funding_rate"]) \in Nat \ {0}
    BY <1>1, LogTypes
  <1>3. Len(log[p]["funding_rate"]) <= Len(log'[p]["funding_rate"])
    BY <1>1, LogGrows
  <1>4. Len(log'[p]["funding_rate"]) = 1
    BY DEF Unfunded
  <1>5. Len(log[p]["funding_rate"]) = 1
    <2>1. PICK n \in Nat \ {0} : n = Len(log[p]["funding_rate"])
      BY <1>2
    <2>2. n <= 1
      BY <1>3, <1>4, <2>1
    <2>3. n = 1
      BY <2>2
    <2> QED  BY <2>1, <2>3
  <1> QED  BY <1>5 DEF Unfunded, FundInv

(* Operations on a pair without a funding rate add no funding.              *)
LEMMA OperationFund ==
  ASSUME PairSyncTypeOK, FundInv, Contract, NEW q \in Pair, NEW r \in Registered,
         NEW kind \in Kind \cup {"thr"}, NEW evs \in Seq(Events), Operation(q, r, kind, evs)
  PROVE  FundInv'
  <1> SUFFICES ASSUME NEW p \in Pair, Unfunded(p)' PROVE NoFunding(p)'
    BY DEF FundInv
  <1>1. NoFunding(p) /\ Unfunded(p)
    BY StillUnfunded DEF Next
  <1>2. now \in Nat /\ reg \in [Pair -> Registered]
    BY DEF PairSyncTypeOK
  <1>3. tb' = tb /\ keeper' = keeper /\ job' = job /\ reg' = [reg EXCEPT ![q] = r]
    BY DEF Operation, Operate
  <1>4. CASE q # p
    <2>1. reg'[p] = reg[p]
      BY <1>2, <1>3, <1>4
    <2>2. opened' = opened \/ opened'.pair = q
      BY DEF Operation, Opens
    <2> QED  BY <1>1, <1>3, <1>4, <2>1, <2>2 DEF NoFunding, FeeRows
  <1>5. CASE q = p
    <2>1. reg'[p] = r
      BY <1>2, <1>3, <1>5
    <2>2. kind # "funding_rate"
      <3> SUFFICES ASSUME kind = "funding_rate" PROVE FALSE
        OBVIOUS
      <3>1. "funding_rate" \in Kind
        BY DEF Kind, Rate
      <3>2. log' = [log EXCEPT ![p]["funding_rate"] = Append(@, Logged(r, kind))]
        BY <1>5, <3>1 DEF Operation, Operate
      <3>3. log'[p]["funding_rate"] = Append(log[p]["funding_rate"], Logged(r, kind))
        BY <3>1, <3>2 DEF PairSyncTypeOK, LogTypeOK
      <3>4. PICK S : log[p]["funding_rate"] \in Seq(S)
        BY <3>1, LogTypes
      <3>5. Len(log'[p]["funding_rate"]) = Len(log[p]["funding_rate"]) + 1
        BY <3>3, <3>4
      <3>6. Len(log'[p]["funding_rate"]) = 1 /\ Len(log[p]["funding_rate"]) = 1
        BY <1>1 DEF Unfunded
      <3>7. PICK n \in Nat : n = Len(log[p]["funding_rate"]) /\ n = 1
        BY <3>6
      <3>8. n = n + 1
        BY <3>5, <3>6, <3>7
      <3> QED  BY <3>8
    <2>3. r.rate["funding_rate"] = 0 /\ r.long = 0 /\ r.short = 0
      <3>1. CASE kind = "thr"
        <4>1. r.rate = reg[p].rate /\ r.long = reg[p].long /\ r.short = reg[p].short
          BY <1>5, <3>1 DEF Operation, Kind, Rate
        <4> QED  BY <1>1, <4>1 DEF NoFunding
      <3>2. CASE kind \in Kind
        <4>1. /\ r.long = View(reg[p], now).long /\ r.short = View(reg[p], now).short
              /\ \A k \in Kind \ {kind} : Logged(r, k) = Logged(reg[p], k)
          BY <1>5, <3>2 DEF Operation, Kind, Rate
        <4>2. View(reg[p], now).long = 0 /\ View(reg[p], now).short = 0
          BY <1>1, <1>2, ViewNoFunding DEF NoFunding
        <4>3. r.rate["funding_rate"] = reg[p].rate["funding_rate"]
          <5>1. "funding_rate" \in Kind \ {kind}
            BY <2>2 DEF Kind, Rate
          <5> QED  BY <4>1, <5>1 DEF Logged
        <4> QED  BY <1>1, <4>1, <4>2, <4>3 DEF NoFunding
      <3> QED  BY <3>1, <3>2
    <2>4. opened' = opened \/ opened'.fund \in {r.long, r.short}
      BY DEF Operation, Opens
    <2> QED  BY <1>1, <1>3, <2>1, <2>3, <2>4 DEF NoFunding, FeeRows
  <1> QED  BY <1>4, <1>5

(* Every step keeps the rows of an unfunded pair free of funding.           *)
LEMMA FundStep == PairSyncTypeOK /\ FundInv /\ [Next]_vars => FundInv'
  <1> SUFFICES ASSUME PairSyncTypeOK, FundInv, [Next]_vars PROVE FundInv'
    OBVIOUS
  <1>1. /\ job \in Jobs /\ job.loc \in Locals /\ job.loc.fees \in FeesRow /\ job.pair \in Pair
        /\ job.at \in Nat /\ tb \in Tables /\ keeper \in Keepers /\ reg \in [Pair -> Registered]
    BY DEF PairSyncTypeOK, Jobs, Locals
  <1>2. ASSUME UNCHANGED <<reg, opened>>,
               \A p \in Pair : \A row \in FeeRows(p)' : row \in FeeRows(p) \/
                 (NoFunding(p) => row.long = 0 /\ row.short = 0),
               job'.pair \in Pair,
               NoFunding(job'.pair) => job'.loc.fees.long = 0 /\ job'.loc.fees.short = 0
        PROVE  FundInv'
    <2> SUFFICES ASSUME NEW p \in Pair, Unfunded(p)' PROVE NoFunding(p)'
      BY DEF FundInv
    <2>1. NoFunding(p)
      BY StillUnfunded
    <2>2. \A row \in FeeRows(p)' : row.long = 0 /\ row.short = 0
      BY <1>2, <2>1 DEF NoFunding
    <2>3. job'.pair = p => job'.loc.fees.long = 0 /\ job'.loc.fees.short = 0
      BY <1>2, <2>1
    <2> QED  BY <1>2, <2>1, <2>2, <2>3 DEF NoFunding
  <1>3. ASSUME tb'.fees = tb.fees, keeper'.fees \in {keeper.fees, tb.fees}
        PROVE  \A p \in Pair : \A row \in FeeRows(p)' : row \in FeeRows(p)
    BY <1>3 DEF FeeRows
  <1>4. NoFunding(job.pair) => job.loc.fees.long = 0 /\ job.loc.fees.short = 0
    BY DEF NoFunding
  <1>5. CASE UNCHANGED <<reg, opened, job>> /\ tb'.fees = tb.fees /\ keeper'.fees \in {keeper.fees, tb.fees}
    BY <1>1, <1>2, <1>3, <1>4, <1>5
  <1>6. CASE Contract
    <2>1. CASE CloseLedger
      BY <1>5, <2>1 DEF CloseLedger
    <2>2. ASSUME NEW p \in Pair, NEW r \in Registered, NEW kind \in Kind \cup {"thr"},
                 NEW evs \in Seq(Events), Operation(p, r, kind, evs)
          PROVE  FundInv'
      BY <1>6, <2>2, OperationFund
    <2> QED  BY <1>6, <2>1, <2>2, ContractOperates
  <1>7. CASE KeeperStart \/ KeeperRefresh \/ UNCHANGED vars
    <2>1. keeper'.fees \in {keeper.fees, tb.fees}
      BY <1>1, <1>7 DEF KeeperStart, KeeperRefresh, vars, Keepers
    <2> QED  BY <1>5, <1>7, <2>1 DEF KeeperStart, KeeperRefresh, vars, chainVars
  <1>8. CASE ApplyEvent
    <2> DEFINE e == feed[1]
    <2>1. /\ UNCHANGED <<reg, opened, job>> /\ e = Head(feed) /\ e \in Events
          /\ e.kind \in Rate \cup {"oi", "opened"} /\ e.pair \in Pair
      BY <1>8, HeadTail, EventCases DEF ApplyEvent, chainVars
    <2>2. CASE e.kind = "opened"
      <3>1. tb' = [tb EXCEPT !.trade = e.val] /\ keeper' = Heard(e.val)
        BY <1>8, <2>1, <2>2 DEF ApplyEvent, Rate
      <3> QED  BY <1>1, <1>5, <2>1, <3>1 DEF Tables, Keepers, Heard
    <2>3. CASE e.kind = "oi"
      <3>1. tb' = [tb EXCEPT !.oi[e.pair] = AppliedOi(tb.oi[e.pair], e.val)] /\ keeper' = keeper
        BY <1>8, <2>1, <2>3 DEF ApplyEvent, Rate
      <3>2. tb'.fees = tb.fees
        BY <1>1, <3>1 DEF Tables
      <3> QED  BY <1>5, <2>1, <3>1, <3>2
    <2>4. CASE e.kind \in Rate
      <3> DEFINE row == AppliedRate(e.pair, e.kind, e.val)
      <3>1. tb' = [tb EXCEPT !.fees[e.pair] = row] /\ keeper' = keeper
        BY <1>8, <2>1, <2>4 DEF ApplyEvent, Rate
      <3>2. FeesOf(e.pair) \in FeesRow
        BY <2>1, FeesOfType
      <3>3. row.long = FeesOf(e.pair).long /\ row.short = FeesOf(e.pair).short
        BY <3>2 DEF AppliedRate, FeesRow
      <3>4. NoFunding(e.pair) => FeesOf(e.pair).long = 0 /\ FeesOf(e.pair).short = 0
        BY DEF NoFunding, FeesOf, FeeRows, EmptyFees
      <3> HIDE DEF row
      <3>5. tb'.fees = [tb.fees EXCEPT ![e.pair] = row]
        BY <1>1, <3>1 DEF Tables
      <3> HIDE DEF e
      <3>6. ASSUME NEW p \in Pair, NEW x \in FeeRows(p)'
            PROVE  x \in FeeRows(p) \/ (NoFunding(p) => x.long = 0 /\ x.short = 0)
        BY <1>1, <2>1, <3>1, <3>3, <3>4, <3>5 DEF FeeRows, Tables
      <3> QED  BY <1>1, <1>2, <1>4, <2>1, <3>6
    <2> QED  BY <2>1, <2>2, <2>3, <2>4
  <1>9. CASE CallContract
    <2>1. AnsweredMoves(job, job') /\ job.step \in Calls /\ UNCHANGED <<reg, opened, tb, keeper>>
      BY <1>9, AnsweredFields DEF CallContract, chainVars
    <2>2. job'.pair = job.pair
      BY <2>1 DEF AnsweredMoves, Moved, Calls
    <2>3. NoFunding(job.pair) => job'.loc.fees.long = 0 /\ job'.loc.fees.short = 0
      <3> DEFINE v == View(reg[job.pair], job.at)
      <3>1. NoFunding(job.pair) => v.long = 0 /\ v.short = 0
        BY <1>1, ViewNoFunding DEF NoFunding
      <3>2. CASE job.step \in {"get_pair", "get_depth", "get_oi", "get_group"}
        <4>1. job'.loc.fees = job.loc.fees
          BY <1>1, <2>1, <3>2 DEF AnsweredMoves, Moved, Locals
        <4> QED  BY <1>4, <4>1
      <3>3. CASE job.step \in {"get_acc_rollover", "get_acc_funding"}
        <4>1. PICK k \in Rate : job'.loc.fees = [job.loc.fees EXCEPT !.rate[k] = reg[job.pair].rate[k]]
          <5>1. CASE job.step = "get_acc_rollover"
            BY <1>1, <2>1, <5>1 DEF AnsweredMoves, Moved, Locals, Rate
          <5>2. CASE job.step = "get_acc_funding"
            BY <1>1, <2>1, <5>2 DEF AnsweredMoves, Moved, Locals, Rate
          <5> QED  BY <3>3, <5>1, <5>2
        <4>2. job'.loc.fees.long = job.loc.fees.long /\ job'.loc.fees.short = job.loc.fees.short
          BY <1>1, <4>1 DEF FeesRow
        <4> QED  BY <1>4, <4>2
      <3>4. CASE job.step = "pending_acc_rollover_view"
        <4>1. job'.loc.fees = [job.loc.fees EXCEPT !.roll = v.roll]
          BY <1>1, <2>1, <3>4 DEF AnsweredMoves, Moved, Locals
        <4>2. job'.loc.fees.long = job.loc.fees.long /\ job'.loc.fees.short = job.loc.fees.short
          BY <1>1, <4>1 DEF FeesRow
        <4> QED  BY <1>4, <4>2
      <3>5. CASE job.step = "pending_acc_funding_view"
        <4>1. job'.loc = [job.loc EXCEPT !.fees.long = v.long, !.fees.short = v.short, !.fees.at = job.at]
          BY <2>1, <3>5 DEF AnsweredMoves, Moved
        <4> HIDE DEF v
        <4>2. job'.loc.fees = [job.loc.fees EXCEPT !.long = v.long, !.short = v.short, !.at = job.at]
          BY <1>1, <4>1 DEF Locals
        <4>3. job'.loc.fees.long = v.long /\ job'.loc.fees.short = v.short
          BY <1>1, <4>2 DEF FeesRow
        <4> QED  BY <3>1, <4>3
      <3> QED  BY <2>1, <3>2, <3>3, <3>4, <3>5 DEF Calls
    <2> QED  BY <1>1, <1>2, <1>3, <2>1, <2>2, <2>3
  <1>10. CASE CallRetries
    <2>1. job' = [job EXCEPT !.attempt = @ + 1] /\ UNCHANGED <<reg, opened, tb, keeper>>
      BY <1>10 DEF CallRetries, chainVars
    <2>2. job'.pair = job.pair /\ job'.loc = job.loc
      BY <1>1, <2>1 DEF Jobs
    <2> QED  BY <1>1, <1>2, <1>3, <1>4, <2>1, <2>2
  <1>11. CASE WriteFees
    <2>1. Moved(job, job', [job.loc EXCEPT !.fees = EmptyFees], "write_oi")
      BY <1>11, WriteFeesMoves
    <2>2. job'.pair = job.pair /\ job'.loc.fees.long = 0 /\ job'.loc.fees.short = 0
      BY <1>1, <2>1 DEF Moved, Locals, EmptyFees
    <2>3. tb' = [tb EXCEPT !.fees[job.pair] = job.loc.fees] /\ keeper' = keeper /\ UNCHANGED <<reg, opened>>
      BY <1>11 DEF WriteFees, chainVars
    <2>4. tb'.fees = [tb.fees EXCEPT ![job.pair] = job.loc.fees]
      BY <1>1, <2>3 DEF Tables
    <2>5. ASSUME NEW p \in Pair, NEW x \in FeeRows(p)'
          PROVE  x \in FeeRows(p) \/ (NoFunding(p) => x.long = 0 /\ x.short = 0)
      BY <1>1, <1>4, <2>3, <2>4 DEF FeeRows, Tables
    <2> QED  BY <1>1, <1>2, <2>2, <2>3, <2>5
  <1>12. CASE \/ StartPass \/ CallFails \/ UpsertPair \/ WriteOi \/ UpsertGroup
              \/ StatementFails \/ EndPass \/ Interrupted
    <2>1. job'.loc = NoLocals \/ (job'.pair = job.pair /\ job'.loc = [job.loc EXCEPT !.depth = 0])
      BY <1>12, PassRestarts
    <2>2. NoFunding(job'.pair) => job'.loc.fees.long = 0 /\ job'.loc.fees.short = 0
      BY <1>1, <1>4, <2>1 DEF NoLocals, EmptyFees, Locals
    <2>3. tb'.fees = tb.fees
      BY <1>1, <1>12 DEF StartPass, CallFails, UpsertPair, WriteOi, UpsertGroup, StatementFails, EndPass,
                         Interrupted, Tables
    <2>4. keeper' = keeper /\ UNCHANGED <<reg, opened>>
      BY <1>12 DEF StartPass, CallFails, UpsertPair, WriteOi, UpsertGroup, StatementFails, EndPass,
                   Interrupted, chainVars
    <2>5. job'.pair \in Pair
      BY TypeStep DEF PairSyncTypeOK, Jobs
    <2> QED  BY <1>2, <1>3, <2>2, <2>3, <2>4, <2>5
  <1> QED  BY <1>6, <1>7, <1>8, <1>9, <1>10, <1>11, <1>12 DEF Next, PairIndexer

-----------------------------------------------------------------------------
(* More fees bring the liquidation price nearer, a higher threshold takes it *)
(* away.                                                                     *)
LEMMA PriceMonotone ==
  ASSUME NEW c \in [long: BOOLEAN, open: Nat, coll: Nat \ {0}, lev: Nat \ {0}],
         NEW f \in Int, NEW f2 \in Int, NEW thr \in Nat, NEW thr2 \in Nat, f <= f2, thr >= thr2,
         NEW x \in Nat, NEW liq, NEW liq2,
         liq = LiquidationPrice(c.open, c.long, c.coll, c.lev, f, thr),
         liq2 = LiquidationPrice(c.open, c.long, c.coll, c.lev, f2, thr2),
         liq2 # 0, IsLiquidatable(x, liq, c.long)
  PROVE  IsLiquidatable(x, liq2, c.long)
  <1>0. PICK open \in Nat, coll \in Nat \ {0}, lev \in Nat \ {0}, long \in BOOLEAN :
          open = c.open /\ coll = c.coll /\ lev = c.lev /\ long = c.long
    OBVIOUS
  <1>1. PICK k \in Int, k2 \in Int : k = Quo(coll * thr, 100) /\ k2 = Quo(coll * thr2, 100) /\ k2 <= k
    <2>1. PICK u \in Int, u2 \in Int : u = coll * thr /\ u2 = coll * thr2 /\ u2 <= u
      BY ProductsMonotone
    <2>2. Quo(u, 100) \in Int /\ Quo(u2, 100) \in Int
      BY QuoBounds
    <2>3. Quo(u2, 100) <= Quo(u, 100)
      BY <2>1, QuoMonotone
    <2> QED  BY <2>1, <2>2, <2>3
  <1>2. PICK a \in Int, a2 \in Int : a = open * (k - f) /\ a2 = open * (k2 - f2) /\ a2 <= a
    <2>1. k2 - f2 <= k - f
      BY <1>1
    <2>2. open * (k2 - f2) <= open * (k - f)
      BY <2>1, ProductsMonotone
    <2> QED  BY <2>2
  <1>3. PICK b \in Int, b2 \in Int : b = Quo(a, coll) /\ b2 = Quo(a2, coll) /\ b2 <= b
    BY <1>2, QuoBounds, QuoMonotone
  <1>4. PICK d \in Int, d2 \in Int : d = Quo(b, lev) /\ d2 = Quo(b2, lev) /\ d2 <= d
    <2>1. Quo(b, lev) \in Int /\ Quo(b2, lev) \in Int
      BY QuoBounds
    <2>2. Quo(b2, lev) <= Quo(b, lev)
      BY <1>3, QuoMonotone
    <2> QED  BY <2>1, <2>2
  <1>5. liq = Floored(IF long THEN open - d ELSE open + d)
    BY <1>0, <1>1, <1>2, <1>3, <1>4 DEF LiquidationPrice
  <1>6. liq2 = Floored(IF long THEN open - d2 ELSE open + d2)
    BY <1>0, <1>1, <1>2, <1>3, <1>4 DEF LiquidationPrice
  <1>7. CASE long
    <2>1. x <= open - d /\ liq # 0
      BY <1>0, <1>5, <1>7 DEF IsLiquidatable, Floored
    <2>2. liq2 = open - d2 /\ liq2 # -1 /\ x <= liq2
      BY <1>4, <1>6, <1>7, <2>1 DEF Floored
    <2> QED  BY <1>0, <1>7, <2>2 DEF IsLiquidatable, NoPrice
  <1>8. CASE ~long
    <2>1. x >= open + d
      BY <1>0, <1>5, <1>8 DEF IsLiquidatable, Floored
    <2>2. liq2 = open + d2 /\ liq2 # -1 /\ x >= liq2
      BY <1>4, <1>6, <1>8, <2>1 DEF Floored
    <2> QED  BY <1>0, <1>8, <2>2 DEF IsLiquidatable, NoPrice
  <1> QED  BY <1>7, <1>8

(* A percentage is a number, and a registered pair's is not zero.           *)
LEMMA PercentIsNat ==
  /\ \A w \in 1 .. 100 : w \in Nat /\ w # 0
  /\ \A r \in Registered : r.thr \in 1 .. 100 /\ r.roll \in Int
  <1>1. \A w \in 1 .. 100 : w \in Nat /\ w # 0
    OBVIOUS
  <1>2. \A r \in Registered : r.thr \in Thresholds /\ r.roll \in Int
    BY DEF Registered
  <1>3. Thresholds \subseteq 1 .. 100
    BY PairSyncAssumption, Zenon
  <1>4. \A r \in Registered : r.thr \in 1 .. 100
    BY <1>2, <1>3, Zenon
  <1> QED  BY <1>1, <1>2, <1>4, Zenon

(* A view takes no rollover back.                                           *)
LEMMA ViewKeepsRoll ==
  ASSUME NEW r \in Registered, NEW at \in Nat
  PROVE  r.roll <= View(r, at).roll /\ View(r, at).roll \in Int
  BY ViewRoll

(* Fees that are not too high make no liquidation early.                    *)
LEMMA EarlyImplied == RollInv /\ TradeInv /\ FundInv => NeverEarly
  <1> SUFFICES ASSUME RollInv, TradeInv, FundInv,
                      NEW en, en = keeper.entry, NEW t, t = en.trade,
                      en # NoRow, WatchedThreshold(en) >= reg[t.pair].thr,
                      Len(log[t.pair]["funding_rate"]) = 1, ContractLiq(t) # 0,
                      NEW x \in 1 .. 2 * t.terms.open,
                      IsLiquidatable(x, KeeperLiq(en), t.terms.long)
               PROVE  ContractAccepts(t, x)
    BY DEF NeverEarly
  <1> DEFINE c == t.terms
             p == t.pair
             acc == ContractAcc(p)
             row == keeper.fees[p]
  <1>1. PairSyncTypeOK /\ now \in Nat /\ keeper.fees \in [Pair -> {NoRow} \cup FeesRow]
    BY DEF RollInv, PairSyncTypeOK, Keepers
  <1>2. /\ t \in Trade /\ p \in Pair
        /\ c \in [long: BOOLEAN, open: Nat, coll: Nat \ {0}, lev: Nat \ {0}]
        /\ WatchedFees(en) \in Int /\ WatchedThreshold(en) \in 1 .. 100
        /\ KeeperLiq(en) = LiquidationPrice(c.open, c.long, c.coll, c.lev, WatchedFees(en),
                                            WatchedThreshold(en))
    BY <1>1, WatchedPrice
  <1>3. t = opened /\ opened # NoRow /\ NoFunding(p) /\ t.fund = 0 /\ t.roll \in Int
    BY <1>2 DEF TradeInv, FundInv, Unfunded, NoFunding, Trade
  <1>4. reg[p] \in Registered /\ reg[p].thr \in 1 .. 100
    BY <1>1, <1>2, PairSyncAssumption DEF PairSyncTypeOK, Registered
  <1>5. /\ acc.long = 0 /\ acc.short = 0 /\ acc.roll \in Int /\ acc.roll >= t.roll
    <2>1. View(reg[p], now).long = 0 /\ View(reg[p], now).short = 0
      BY <1>1, <1>3, <1>4, ViewNoFunding DEF NoFunding
    <2>2. reg[p].roll <= View(reg[p], now).roll /\ View(reg[p], now).roll \in Int /\ reg[p].roll \in Int
      BY <1>1, <1>4, ViewKeepsRoll, PercentIsNat, Zenon
    <2>3. reg[p].roll >= t.roll
      BY <1>2, <1>3 DEF RollInv, RegRolls
    <2> QED  BY <1>3, <2>1, <2>2, <2>3 DEF ContractAcc
  <1> HIDE DEF acc
  <1>6. PICK coll \in Nat : coll = c.coll
    BY <1>2
  <1>7. ASSUME NEW a, a.long = 0, a.short = 0 PROVE FundingFee(t, a) = 0
    <2>1. (0 - 0) * c.coll = 0 /\ 0 * c.lev = 0
      BY <1>2
    <2>2. Quo((0 - 0) * c.coll, usdcScale) = 0
      BY <2>1, FeeMathAssumption, QuoZero
    <2> QED  BY <1>3, <1>7, <2>1, <2>2 DEF FundingFee, FundingFeeForTrade
  <1>8. ASSUME NEW u \in Int, NEW v \in Int, u <= v
        PROVE  /\ Quo((u - t.roll) * c.coll, usdcScale) \in Int
               /\ Quo((v - t.roll) * c.coll, usdcScale) \in Int
               /\ Quo((u - t.roll) * c.coll, usdcScale) <= Quo((v - t.roll) * c.coll, usdcScale)
    <2>0. PICK o \in Int : o = t.roll
      BY <1>3
    <2>1. PICK y \in Int, z \in Int : y = u - t.roll /\ z = v - t.roll /\ y <= z
      <3>1. u - o \in Int /\ v - o \in Int /\ u - o <= v - o
        BY <1>8
      <3> QED  BY <2>0, <3>1
    <2>2. PICK yc \in Int, zc \in Int : yc = y * coll /\ zc = z * coll /\ yc <= zc
      <3>1. coll * y <= coll * z /\ coll * y = y * coll /\ coll * z = z * coll
        BY <2>1, ProductsMonotone
      <3> QED  BY <3>1
    <2>3. Quo(yc, usdcScale) \in Int /\ Quo(zc, usdcScale) \in Int
      BY FeeMathAssumption, QuoBounds
    <2>4. Quo(yc, usdcScale) <= Quo(zc, usdcScale)
      BY <2>2, FeeMathAssumption, QuoMonotone
    <2> QED  BY <1>6, <2>1, <2>2, <2>3, <2>4
  <1>9. RolloverFee(t, acc) \in Int /\ RolloverFee(t, acc) >= 0
    <2>1. Quo((t.roll - t.roll) * c.coll, usdcScale) <= RolloverFee(t, acc) /\ RolloverFee(t, acc) \in Int
      BY <1>3, <1>5, <1>8 DEF RolloverFee, RolloverFeeForTrade
    <2>2. (t.roll - t.roll) * c.coll = 0
      BY <1>2, <1>3
    <2>3. Quo((t.roll - t.roll) * c.coll, usdcScale) = 0
      BY <2>2, FeeMathAssumption, QuoZero
    <2> QED  BY <2>1, <2>3
  <1>10. WatchedFees(en) <= RolloverFee(t, acc)
    <2>1. CASE row = NoRow
      BY <1>9, <2>1 DEF WatchedFees
    <2>2. CASE row # NoRow
      <3>1. row \in FeeRows(p) /\ row \in FeesRow
        BY <1>1, <1>2, <2>2 DEF FeeRows
      <3>2. row.roll \in Int /\ row.roll <= acc.roll
        BY <1>2, <3>1 DEF RollInv, RowsRolled, Rolled, acc
      <3>3. FundingFee(t, row) = 0
        BY <1>3, <1>7, <3>1 DEF NoFunding
      <3>4. RolloverFee(t, row) \in Int /\ RolloverFee(t, row) <= RolloverFee(t, acc)
        BY <1>5, <1>8, <3>2 DEF RolloverFee, RolloverFeeForTrade
      <3>5. WatchedFees(en) = RolloverFee(t, row) + FundingFee(t, row)
        BY <2>2 DEF WatchedFees
      <3> QED  BY <3>3, <3>4, <3>5
    <2> QED  BY <2>1, <2>2
  <1>11. ContractLiq(t) = LiquidationPrice(c.open, c.long, c.coll, c.lev, RolloverFee(t, acc),
                                           reg[p].thr)
    <2>1. RolloverFee(t, acc) + FundingFee(t, acc) = RolloverFee(t, acc)
      BY <1>5, <1>7, <1>9
    <2>2. reg[p].thr # 0
      BY <1>4, PercentIsNat, Zenon
    <2> QED  BY <2>1, <2>2 DEF ContractLiq, CurrentLiq, LiqWith, acc
  <1>12. PICK f \in Int, f2 \in Int, thr \in Nat, thr2 \in Nat :
           /\ f = WatchedFees(en) /\ f2 = RolloverFee(t, acc) /\ f <= f2
           /\ thr = WatchedThreshold(en) /\ thr2 = reg[p].thr /\ thr >= thr2
    <2>1. WatchedThreshold(en) \in Nat /\ reg[p].thr \in Nat
      BY <1>2, <1>4, PercentIsNat, Zenon
    <2> QED  BY <1>2, <1>9, <1>10, <2>1
  <1>13. x \in Nat
    BY <1>2
  <1>14. PICK liq, liq2 : liq = KeeperLiq(en) /\ liq2 = ContractLiq(t)
    OBVIOUS
  <1>15. /\ liq = LiquidationPrice(c.open, c.long, c.coll, c.lev, f, thr)
         /\ liq2 = LiquidationPrice(c.open, c.long, c.coll, c.lev, f2, thr2)
         /\ liq2 # 0 /\ IsLiquidatable(x, liq, c.long)
    BY <1>2, <1>11, <1>12, <1>14
  <1>16. IsLiquidatable(x, liq2, c.long)
    <2>1. f <= f2 /\ thr >= thr2 /\ c \in [long: BOOLEAN, open: Nat, coll: Nat \ {0}, lev: Nat \ {0}]
      BY <1>2, <1>12
    <2> HIDE DEF c
    <2> QED  BY <1>13, <1>15, <2>1, PriceMonotone
  <1> QED  BY <1>14, <1>16 DEF ContractAccepts

(* TradeInv holds in every state.                                           *)
LEMMA TradeAlways == Spec => []TradeInv
  BY TradeInit, TradeStep, PairSyncTypes, PTL DEF Spec

(* FundInv holds in every state.                                            *)
LEMMA FundAlways == Spec => []FundInv
  BY FundInit, FundStep, PairSyncTypes, PTL DEF Spec

(* A keeper with stale accumulators is late, never early, for any trades,    *)
(* pairs, thresholds and rollover rates.                                     *)
THEOREM KeeperNeverEarly == Spec => []NeverEarly
  BY RollAlways, TradeAlways, FundAlways, EarlyImplied, PTL

-----------------------------------------------------------------------------
(* A pass that met no error, and no event or operation since it started.     *)
Clean == job.step # "idle" /\ job.ops = ops

Projected(p, at) ==
  LET v == View(reg[p], at) IN
  [roll |-> v.roll, long |-> v.long, short |-> v.short, at |-> at, rate |-> reg[p].rate]

Synced(p, at) ==
  /\ tb.pairs[p] = [thr |-> reg[p].thr, depth |-> 1]
  /\ tb.oi[p] = reg[p].oi
  /\ tb.fees[p] = Projected(p, at)
  /\ GroupOf[p] \in tb.groups

AfterPair == FeeCalls \cup {"write_fees", "write_oi", "get_group", "upsert_group"}

(* What it has done of its pair: read, and written.                          *)
HalfRead ==
  LET r == reg[job.pair]
      v == View(r, job.at)
  IN /\ job.step \in {"get_depth", "upsert_pair"} => job.loc.thr = r.thr
     /\ job.step = "upsert_pair" => job.loc.depth = 1
     /\ \A k \in Kind : job.step \in ReadSteps(k) => ReadValue(job.loc, k) = Logged(r, k)
     /\ job.step \in {"pending_acc_funding_view", "write_fees"} => job.loc.fees.roll = v.roll
     /\ job.step = "write_fees" =>
          job.loc.fees.long = v.long /\ job.loc.fees.short = v.short /\ job.loc.fees.at = job.at

HalfWritten ==
  /\ job.step \in AfterPair => tb.pairs[job.pair] = [thr |-> reg[job.pair].thr, depth |-> 1]
  /\ job.step \in {"write_oi", "get_group", "upsert_group"} =>
       tb.fees[job.pair] = Projected(job.pair, job.at)
  /\ job.step \in {"get_group", "upsert_group"} => tb.oi[job.pair] = reg[job.pair].oi

SyncedBefore ==
  \A q \in Pair : q < job.pair \/ job.step = "end" => Synced(q, job.at)

CleanInv ==
  /\ job.groupsSeen \subseteq tb.groups /\ job.ops <= ops
  /\ Clean => feed = <<>> /\ SyncedBefore /\ HalfRead /\ HalfWritten

(* There is no pass initially.                                              *)
LEMMA CleanInit == Init => CleanInv
  BY DEF Init, CleanInv, Clean, NoJob

(* When a pass goes on, all pairs up to the current one are behind it.      *)
LEMMA UpToNextPair ==
  ASSUME NEW j \in Jobs, NEW D, \A q \in Pair : q <= j.pair => q \in D
  PROVE  \A q \in Pair : q < NextPair(j).pair \/ NextPair(j).step = "end" => q \in D
  <1> SUFFICES ASSUME NEW q \in Pair, q < NextPair(j).pair \/ NextPair(j).step = "end"
               PROVE  q <= j.pair
    OBVIOUS
  <1>1. q \in Int /\ q <= PairsCount - 1 /\ PairsCount \in Nat /\ j.pair \in Int
    BY PairSyncAssumption DEF Pair, Jobs
  <1> QED  BY <1>1, NextPairFields

(* Steps that leave the tables and the registry alone.                       *)
LEMMA CleanFrame ==
  ASSUME CleanInv, UNCHANGED <<reg, tb, ops, feed>>, job'.ops = job.ops, job.step # "idle",
         job'.groupsSeen = job.groupsSeen, job'.pair = job.pair, job'.at = job.at,
         job'.step # "end",
         Clean /\ HalfRead /\ HalfWritten => HalfRead' /\ HalfWritten'
  PROVE  CleanInv'
  <1>1. job'.groupsSeen \subseteq tb'.groups /\ job'.ops <= ops'
    BY DEF CleanInv
  <1>2. ASSUME Clean' PROVE feed' = <<>> /\ SyncedBefore' /\ HalfRead' /\ HalfWritten'
    <2>1. Clean
      BY <1>2 DEF Clean
    <2>2. feed = <<>> /\ SyncedBefore /\ HalfRead /\ HalfWritten
      BY <2>1 DEF CleanInv
    <2>3. \A q, at : Synced(q, at) => Synced(q, at)'
      BY DEF Synced, Projected
    <2>4. SyncedBefore'
      BY <2>2, <2>3 DEF SyncedBefore
    <2> QED  BY <2>1, <2>2, <2>4
  <1> QED  BY <1>1, <1>2 DEF CleanInv

(* A clean pass holds the contracts' answers of one and the same state.     *)
LEMMA CleanCall ==
  ASSUME PairSyncTypeOK, CleanInv, CallContract
  PROVE  CleanInv'
  <1> DEFINE r == reg[job.pair]
             v == View(r, job.at)
             n(k) == Len(log[job.pair][k]) - 1
  <1>1. AnsweredMoves(job, job') /\ job.step \in Calls /\ UNCHANGED <<reg, tb, ops, feed>>
    BY AnsweredFields DEF CallContract, chainVars
  <1>2. /\ job \in Jobs /\ job.loc \in Locals /\ job.loc.fees \in FeesRow /\ job.loc.seen \in [Kind -> Nat]
        /\ job.loc.fees.rate \in [Rate -> Nat]
    BY DEF PairSyncTypeOK, Jobs, Locals, FeesRow
  <1>3. /\ job'.ops = job.ops /\ job'.groupsSeen = job.groupsSeen /\ job'.pair = job.pair
        /\ job'.at = job.at
    BY <1>1 DEF AnsweredMoves, Moved, Calls
  <1>4. job'.step # "end" /\ job.step # "idle"
    <2>1. job.step # "idle"
      BY <1>1 DEF Calls
    <2>2. CASE job.step \in {"get_pair", "get_depth", "get_group", "get_oi"}
      BY <1>1, <2>1, <2>2 DEF AnsweredMoves, Moved
    <2>3. CASE job.step \in {"get_acc_rollover", "get_acc_funding", "pending_acc_rollover_view",
                             "pending_acc_funding_view"}
      BY <1>1, <2>1, <2>3 DEF AnsweredMoves, Moved
    <2> QED  BY <1>1, <2>2, <2>3 DEF Calls
  <1>5. SUFFICES ASSUME Clean, HalfRead, HalfWritten PROVE HalfRead' /\ HalfWritten'
    BY <1>1, <1>3, <1>4, CleanFrame
  <1>6. /\ reg'[job'.pair] = r /\ View(reg'[job'.pair], job'.at) = v
        /\ Projected(job.pair, job.at)' = Projected(job.pair, job.at)
    BY <1>1, <1>3 DEF Projected
  <1>7. CASE job.step = "get_pair"
    <2>1. job'.step = "get_depth" /\ job'.loc.thr = r.thr
      BY <1>1, <1>2, <1>7 DEF AnsweredMoves, Moved, Locals
    <2> QED  BY <1>6, <2>1 DEF HalfRead, HalfWritten, AfterPair, FeeCalls, ReadSteps, Kind, Rate
  <1>8. CASE job.step = "get_depth"
    <2>1. job'.step = "upsert_pair" /\ job'.loc.thr = job.loc.thr /\ job'.loc.depth = 1
      BY <1>1, <1>2, <1>8 DEF AnsweredMoves, Moved, Locals
    <2>2. job.loc.thr = r.thr
      BY <1>5, <1>8 DEF HalfRead
    <2> QED  BY <1>6, <2>1, <2>2 DEF HalfRead, HalfWritten, AfterPair, FeeCalls, ReadSteps, Kind, Rate
  <1>9. CASE job.step = "get_group"
    <2>1. job'.step = "upsert_group"
      BY <1>1, <1>9 DEF AnsweredMoves, Moved
    <2>2. HalfRead'
      <3>1. \A k \in Kind : job'.step \notin ReadSteps(k)
        BY <2>1 DEF ReadSteps, Kind, Rate
      <3> QED  BY <2>1, <3>1 DEF HalfRead
    <2>3. HalfWritten'
      BY <1>1, <1>3, <1>5, <1>6, <1>9, <2>1 DEF HalfWritten, AfterPair
    <2> QED  BY <2>2, <2>3
  <1>10. CASE job.step \in FeeCalls
    <2>1. job'.step \in {"get_acc_funding", "get_oi", "pending_acc_rollover_view",
                         "pending_acc_funding_view", "write_fees"}
      BY <1>1, <1>10 DEF AnsweredMoves, Moved, FeeCalls
    <2>2. HalfWritten'
      <3>1. tb'.pairs[job'.pair] = [thr |-> reg'[job'.pair].thr, depth |-> 1]
        BY <1>1, <1>3, <1>5, <1>10 DEF HalfWritten, AfterPair
      <3> QED  BY <2>1, <3>1 DEF HalfWritten
    <2>3. job'.step \notin {"get_depth", "upsert_pair"}
      BY <2>1
    <2>4. SUFFICES
            /\ \A k \in Kind : job'.step \in ReadSteps(k) => ReadValue(job'.loc, k) = Logged(r, k)
            /\ job'.step \in {"pending_acc_funding_view", "write_fees"} => job'.loc.fees.roll = v.roll
            /\ job'.step = "write_fees" =>
                 job'.loc.fees.long = v.long /\ job'.loc.fees.short = v.short /\ job'.loc.fees.at = job'.at
      BY <1>6, <2>2, <2>3 DEF HalfRead
    <2>5. \A k \in Kind : job.step \in ReadSteps(k) => ReadValue(job.loc, k) = Logged(r, k)
      BY <1>5 DEF HalfRead
    <2>6. CASE job.step = "get_acc_rollover"
      <3>1. /\ job'.step = "get_acc_funding"
            /\ job'.loc = [job.loc EXCEPT !.fees.rate["rollover_rate"] = r.rate["rollover_rate"],
                                          !.seen["rollover_rate"] = n("rollover_rate")]
        BY <1>1, <2>6 DEF AnsweredMoves, Moved
      <3>2. job'.loc.fees.rate["rollover_rate"] = r.rate["rollover_rate"]
        BY <1>2, <3>1 DEF Locals, FeesRow, Rate
      <3>3. \A k \in Kind : job'.step \in ReadSteps(k) => k = "rollover_rate"
        BY <3>1 DEF ReadSteps, Kind, Rate
      <3> QED  BY <3>1, <3>2, <3>3 DEF ReadValue, Logged
    <2>7. CASE job.step = "get_acc_funding"
      <3>1. /\ job'.step = "get_oi"
            /\ job'.loc = [job.loc EXCEPT !.fees.rate["funding_rate"] = r.rate["funding_rate"],
                                          !.seen["funding_rate"] = n("funding_rate")]
        BY <1>1, <2>7 DEF AnsweredMoves, Moved
      <3>2. /\ job'.loc.fees.rate["funding_rate"] = r.rate["funding_rate"]
            /\ job'.loc.fees.rate["rollover_rate"] = job.loc.fees.rate["rollover_rate"]
        BY <1>2, <3>1 DEF Locals, FeesRow, Rate
      <3>3. \A k \in Kind : job'.step \in ReadSteps(k) => k \in Rate
        BY <3>1 DEF ReadSteps, Kind, Rate
      <3>4. job.loc.fees.rate["rollover_rate"] = r.rate["rollover_rate"]
        <4>1. job.step \in ReadSteps("rollover_rate") /\ "rollover_rate" \in Kind
          BY <2>7 DEF ReadSteps, Kind, Rate
        <4> QED  BY <2>5, <4>1 DEF ReadValue, Logged
      <3> QED  BY <3>1, <3>2, <3>3, <3>4 DEF ReadValue, Logged, Rate
    <2>8. CASE job.step = "get_oi"
      <3>1. /\ job'.step = "pending_acc_rollover_view"
            /\ job'.loc = [job.loc EXCEPT !.oi = r.oi, !.seen["oi"] = n("oi")]
        BY <1>1, <2>8 DEF AnsweredMoves, Moved
      <3>2. job'.loc.oi = r.oi /\ job'.loc.fees = job.loc.fees
        BY <1>2, <3>1 DEF Locals
      <3>3. \A k \in Rate : job.loc.fees.rate[k] = r.rate[k]
        <4>1. \A k \in Rate : k \in Kind /\ k # "oi" /\ job.step \in ReadSteps(k)
          BY <2>8 DEF ReadSteps, Kind, Rate
        <4> QED  BY <2>5, <4>1 DEF ReadValue, Logged
      <3> QED  BY <3>1, <3>2, <3>3 DEF ReadValue, Logged, Kind
    <2>9. CASE job.step \in {"pending_acc_rollover_view", "pending_acc_funding_view"}
      <3>1. \A k \in Kind : ReadValue(job.loc, k) = Logged(r, k)
        <4>1. \A k \in Kind : job.step \in ReadSteps(k)
          BY <2>9 DEF ReadSteps, Kind, Rate
        <4> QED  BY <2>5, <4>1
      <3>2. CASE job.step = "pending_acc_rollover_view"
        <4>1. job'.step = "pending_acc_funding_view" /\ job'.loc = [job.loc EXCEPT !.fees.roll = v.roll]
          BY <1>1, <3>2 DEF AnsweredMoves, Moved
        <4> HIDE DEF v
        <4>2. job'.loc.oi = job.loc.oi /\ job'.loc.fees.rate = job.loc.fees.rate /\ job'.loc.fees.roll = v.roll
          BY <1>2, <4>1 DEF Locals, FeesRow
        <4> QED  BY <3>1, <4>1, <4>2 DEF ReadValue
      <3>3. CASE job.step = "pending_acc_funding_view"
        <4>1. /\ job'.step = "write_fees"
              /\ job'.loc = [job.loc EXCEPT !.fees.long = v.long, !.fees.short = v.short,
                                            !.fees.at = job.at]
          BY <1>1, <3>3 DEF AnsweredMoves, Moved
        <4>2. job.loc.fees.roll = v.roll
          BY <1>5, <3>3 DEF HalfRead
        <4> HIDE DEF v
        <4>3. /\ job'.loc.fees = [job.loc.fees EXCEPT !.long = v.long, !.short = v.short, !.at = job.at]
              /\ job'.loc.oi = job.loc.oi
          BY <1>2, <4>1 DEF Locals
        <4>4. /\ job'.loc.fees.roll = job.loc.fees.roll /\ job'.loc.fees.rate = job.loc.fees.rate
              /\ job'.loc.fees.long = v.long /\ job'.loc.fees.short = v.short /\ job'.loc.fees.at = job.at
          BY <1>2, <4>3 DEF FeesRow
        <4> QED  BY <1>3, <3>1, <4>1, <4>2, <4>3, <4>4 DEF ReadValue
      <3> QED  BY <2>9, <3>2, <3>3
    <2> QED  BY <1>10, <2>6, <2>7, <2>8, <2>9 DEF FeeCalls
  <1> QED  BY <1>1, <1>7, <1>8, <1>9, <1>10 DEF Calls, FeeCalls

(* Writing the pair row keeps a clean pass clean.                           *)
LEMMA CleanUpsertPair ==
  ASSUME PairSyncTypeOK, CleanInv, UpsertPair
  PROVE  CleanInv'
  <1>1. /\ job \in Jobs /\ job.pair \in Pair /\ tb \in Tables
    BY DEF PairSyncTypeOK, Jobs
  <1>2. Moved(job, job', NoLocals, "get_acc_rollover")
    BY <1>1, GoToMoves, EmptyTypes, StepNames DEF UpsertPair
  <1>3. /\ job'.step = "get_acc_rollover" /\ job'.pair = job.pair /\ job'.at = job.at
        /\ job'.ops = job.ops /\ job'.groupsSeen = job.groupsSeen
    BY <1>2 DEF Moved
  <1>4. /\ job.step = "upsert_pair" /\ UNCHANGED <<reg, ops, feed>>
        /\ tb' = [tb EXCEPT !.pairs[job.pair] = [thr |-> job.loc.thr, depth |-> job.loc.depth]]
    BY DEF UpsertPair, chainVars
  <1>5. /\ tb'.groups = tb.groups /\ tb'.oi = tb.oi /\ tb'.fees = tb.fees
        /\ \A q \in Pair : tb'.pairs[q] = IF q = job.pair THEN [thr |-> job.loc.thr, depth |-> job.loc.depth]
                                          ELSE tb.pairs[q]
    BY <1>1, <1>4 DEF Tables
  <1>6. ASSUME Clean' PROVE feed' = <<>> /\ SyncedBefore' /\ HalfRead' /\ HalfWritten'
    <2>1. Clean
      BY <1>3, <1>4, <1>6 DEF Clean
    <2>2. feed = <<>> /\ SyncedBefore /\ HalfRead /\ HalfWritten
      BY <2>1 DEF CleanInv
    <2>3. job.loc.thr = reg[job.pair].thr /\ job.loc.depth = 1
      BY <1>4, <2>2 DEF HalfRead
    <2>4. HalfRead'
      BY <1>3 DEF HalfRead, ReadSteps, Kind, Rate
    <2>5. HalfWritten'
      BY <1>1, <1>3, <1>4, <1>5, <2>3 DEF HalfWritten
    <2>6. ASSUME NEW q \in Pair, q < job'.pair \/ job'.step = "end" PROVE Synced(q, job.at)'
      <3>1. q < job.pair /\ Synced(q, job.at)
        BY <1>3, <2>2, <2>6 DEF SyncedBefore
      <3>2. q # job.pair
        BY <1>1, <3>1 DEF Pair
      <3>3. tb'.pairs[q] = tb.pairs[q]
        BY <1>5, <3>2
      <3> QED  BY <1>3, <1>4, <1>5, <3>1, <3>3 DEF Synced, Projected
    <2> QED  BY <1>4, <2>2, <2>4, <2>5, <2>6 DEF SyncedBefore
  <1> QED  BY <1>3, <1>4, <1>5, <1>6 DEF CleanInv

(* Writing the fee row does, and the row is the projection.                 *)
LEMMA CleanWriteFees ==
  ASSUME PairSyncTypeOK, CleanInv, WriteFees
  PROVE  CleanInv'
  <1> DEFINE r == reg[job.pair]
             v == View(r, job.at)
  <1>1. /\ job \in Jobs /\ job.pair \in Pair /\ tb \in Tables /\ job.loc \in Locals
        /\ job.loc.fees \in FeesRow /\ r.rate \in [Rate -> Nat]
    BY DEF PairSyncTypeOK, Jobs, Locals, Registered
  <1>2. Moved(job, job', [job.loc EXCEPT !.fees = EmptyFees], "write_oi")
    BY WriteFeesMoves
  <1>3. /\ job'.step = "write_oi" /\ job'.pair = job.pair /\ job'.at = job.at
        /\ job'.ops = job.ops /\ job'.groupsSeen = job.groupsSeen /\ job'.loc.oi = job.loc.oi
    BY <1>1, <1>2 DEF Moved, Locals
  <1>4. /\ job.step = "write_fees" /\ UNCHANGED <<reg, ops, feed>>
        /\ tb' = [tb EXCEPT !.fees[job.pair] = job.loc.fees]
    BY DEF WriteFees, chainVars
  <1>5. /\ tb'.groups = tb.groups /\ tb'.oi = tb.oi /\ tb'.pairs = tb.pairs
        /\ \A q \in Pair : tb'.fees[q] = IF q = job.pair THEN job.loc.fees ELSE tb.fees[q]
    BY <1>1, <1>4 DEF Tables
  <1>6. ASSUME Clean' PROVE feed' = <<>> /\ SyncedBefore' /\ HalfRead' /\ HalfWritten'
    <2>1. Clean
      BY <1>3, <1>4, <1>6 DEF Clean
    <2>2. feed = <<>> /\ SyncedBefore /\ HalfRead /\ HalfWritten
      BY <2>1 DEF CleanInv
    <2>3. \A k \in Kind : ReadValue(job.loc, k) = Logged(r, k)
      <3>1. \A k \in Kind : job.step \in ReadSteps(k)
        BY <1>4 DEF ReadSteps, Kind, Rate
      <3> QED  BY <2>2, <3>1 DEF HalfRead
    <2>4. job.loc.fees = Projected(job.pair, job.at)
      <3>1. \A k \in Rate : job.loc.fees.rate[k] = r.rate[k]
        BY <2>3 DEF ReadValue, Logged, Kind, Rate
      <3>2. job.loc.fees.rate = r.rate
        BY <1>1, <3>1 DEF FeesRow
      <3>3. /\ job.loc.fees.roll = v.roll /\ job.loc.fees.long = v.long
            /\ job.loc.fees.short = v.short /\ job.loc.fees.at = job.at
        BY <1>4, <2>2 DEF HalfRead
      <3> HIDE DEF v
      <3>4. job.loc.fees = [roll |-> v.roll, long |-> v.long, short |-> v.short, at |-> job.at,
                            rate |-> r.rate]
        BY <1>1, <3>2, <3>3 DEF FeesRow
      <3> QED  BY <3>4 DEF Projected, v
    <2>5. job.loc.oi = r.oi
      BY <2>3 DEF ReadValue, Logged, Kind
    <2>6. HalfRead'
      <3>1. \A k \in Kind : job'.step \in ReadSteps(k) => k = "oi"
        BY <1>3 DEF ReadSteps, Kind, Rate
      <3>2. ReadValue(job'.loc, "oi") = Logged(reg'[job'.pair], "oi")
        BY <1>3, <1>4, <2>5 DEF ReadValue, Logged
      <3> QED  BY <1>3, <3>1, <3>2 DEF HalfRead
    <2>7. HalfWritten'
      <3>1. tb'.fees[job.pair] = Projected(job.pair, job.at)
        BY <1>1, <1>5, <2>4
      <3>2. Projected(job.pair, job.at)' = Projected(job.pair, job.at)
        BY <1>3, <1>4 DEF Projected
      <3>3. tb.pairs[job.pair] = [thr |-> reg[job.pair].thr, depth |-> 1]
        BY <1>4, <2>2 DEF HalfWritten, AfterPair
      <3> QED  BY <1>3, <1>4, <1>5, <3>1, <3>2, <3>3 DEF HalfWritten
    <2>8. ASSUME NEW q \in Pair, q < job'.pair \/ job'.step = "end" PROVE Synced(q, job.at)'
      <3>1. q < job.pair /\ Synced(q, job.at)
        BY <1>3, <2>2, <2>8 DEF SyncedBefore
      <3>2. q # job.pair
        BY <1>1, <3>1 DEF Pair
      <3>3. tb'.fees[q] = tb.fees[q]
        BY <1>5, <3>2
      <3> QED  BY <1>3, <1>4, <1>5, <3>1, <3>3 DEF Synced, Projected
    <2> QED  BY <1>4, <2>2, <2>6, <2>7, <2>8 DEF SyncedBefore
  <1> QED  BY <1>3, <1>4, <1>5, <1>6 DEF CleanInv

(* The last statement of a pair: the pairs up to it are in step.             *)
LEMMA CleanNextPair ==
  ASSUME PairSyncTypeOK, CleanInv, UNCHANGED <<reg, ops, feed>>, tb' \in Tables,
         NEW j \in Jobs, job' = NextPair(j), j.pair = job.pair, j.at = job.at, j.ops = job.ops,
         j.groupsSeen \subseteq tb'.groups, job.step # "idle", job.step # "end",
         Clean => \A q \in Pair : Synced(q, job.at) \/ q = job.pair => Synced(q, job.at)'
  PROVE  CleanInv'
  <1>1. /\ job'.at = job.at /\ job'.ops = job.ops /\ job'.groupsSeen = j.groupsSeen
        /\ job'.step \in {"get_pair", "end"}
    BY NextPairFields
  <1>2. ASSUME Clean' PROVE feed' = <<>> /\ SyncedBefore' /\ HalfRead' /\ HalfWritten'
    <2>1. Clean
      BY <1>1, <1>2 DEF Clean
    <2>2. feed = <<>> /\ SyncedBefore
      BY <2>1 DEF CleanInv
    <2> DEFINE D == {q \in Pair : Synced(q, job.at)'}
    <2>3. \A q \in Pair : q <= j.pair => q \in D
      <3> SUFFICES ASSUME NEW q \in Pair, q <= job.pair PROVE Synced(q, job.at)'
        OBVIOUS
      <3>1. q < job.pair \/ q = job.pair
        BY DEF PairSyncTypeOK, Jobs, Pair
      <3> QED  BY <2>1, <2>2, <3>1 DEF SyncedBefore
    <2>4. \A q \in Pair : q < job'.pair \/ job'.step = "end" => q \in D
      BY <2>3, UpToNextPair
    <2>5. SyncedBefore'
      BY <1>1, <2>4 DEF SyncedBefore, Synced, Projected
    <2>6. HalfRead' /\ HalfWritten'
      BY <1>1 DEF HalfRead, HalfWritten, ReadSteps, AfterPair, FeeCalls, Kind, Rate
    <2> QED  BY <2>2, <2>5, <2>6
  <1> QED  BY <1>1, <1>2 DEF CleanInv

(* Writing the open interest does, and the pair is synced.                  *)
LEMMA CleanWriteOi ==
  ASSUME PairSyncTypeOK, CleanInv, WriteOi
  PROVE  CleanInv'
  <1>1. /\ job \in Jobs /\ job.pair \in Pair /\ tb \in Tables /\ job.loc \in Locals
    BY DEF PairSyncTypeOK, Jobs
  <1>2. /\ job.step = "write_oi" /\ UNCHANGED <<reg, ops, feed>> /\ job' = GroupStep(job)
        /\ tb' = [tb EXCEPT !.oi[job.pair] = job.loc.oi]
    BY DEF WriteOi, WrittenOi, chainVars
  <1>3. tb' \in Tables
    BY TypeStep DEF PairSyncTypeOK, Next, PairIndexer
  <1>4. /\ tb'.groups = tb.groups /\ tb'.fees = tb.fees /\ tb'.pairs = tb.pairs
        /\ \A q \in Pair : tb'.oi[q] = IF q = job.pair THEN job.loc.oi ELSE tb.oi[q]
    BY <1>1, <1>2 DEF Tables
  <1>5. ASSUME Clean
        PROVE  /\ feed = <<>> /\ SyncedBefore
               /\ job.loc.oi = reg[job.pair].oi
               /\ tb.fees[job.pair] = Projected(job.pair, job.at)
               /\ tb.pairs[job.pair] = [thr |-> reg[job.pair].thr, depth |-> 1]
    <2>1. feed = <<>> /\ SyncedBefore /\ HalfRead /\ HalfWritten
      BY <1>5 DEF CleanInv
    <2>2. job.step \in ReadSteps("oi") /\ "oi" \in Kind
      BY <1>2 DEF ReadSteps, Kind
    <2> QED  BY <1>2, <2>1, <2>2 DEF HalfRead, HalfWritten, ReadValue, Logged, AfterPair
  <1>7. ASSUME NEW q \in Pair, Clean, Synced(q, job.at)
        PROVE  /\ tb'.pairs[q] = [thr |-> reg'[q].thr, depth |-> 1] /\ tb'.oi[q] = reg'[q].oi
               /\ tb'.fees[q] = Projected(q, job.at) /\ GroupOf[q] \in tb'.groups
    BY <1>2, <1>4, <1>5, <1>7 DEF Synced
  <1>8. CASE GroupOf[job.pair] \in job.groupsSeen /\ GroupStep(job) = NextPair(job)
    <2>1. job.groupsSeen \subseteq tb'.groups
      BY <1>4 DEF CleanInv
    <2>2. job'.at = job.at
      BY <1>1, <1>2, <1>8, NextPairFields
    <2>3. ASSUME Clean, NEW q \in Pair, Synced(q, job.at) \/ q = job.pair PROVE Synced(q, job.at)'
      <3>1. /\ tb'.pairs[q] = [thr |-> reg'[q].thr, depth |-> 1] /\ tb'.oi[q] = reg'[q].oi
            /\ tb'.fees[q] = Projected(q, job.at) /\ GroupOf[q] \in tb'.groups
        BY <1>1, <1>2, <1>4, <1>5, <1>7, <1>8, <2>1, <2>3
      <3>2. Projected(q, job.at)' = Projected(q, job.at)
        BY <1>2, <2>2 DEF Projected
      <3> QED  BY <3>1, <3>2 DEF Synced
    <2>4. job.step # "idle" /\ job.step # "end" /\ job' = NextPair(job)
      BY <1>2, <1>8
    <2> QED  BY <1>1, <1>2, <1>3, <2>1, <2>3, <2>4, CleanNextPair
  <1>9. CASE Moved(job, GroupStep(job), NoLocals, "get_group")
    <2>1. /\ job'.step = "get_group" /\ job'.pair = job.pair /\ job'.at = job.at
          /\ job'.ops = job.ops /\ job'.groupsSeen = job.groupsSeen
      BY <1>2, <1>9 DEF Moved
    <2>2. ASSUME Clean' PROVE feed' = <<>> /\ SyncedBefore' /\ HalfRead' /\ HalfWritten'
      <3>1. Clean
        BY <1>2, <2>1, <2>2 DEF Clean
      <3>2. \A q : Projected(q, job.at)' = Projected(q, job.at)
        BY <1>2, <2>1 DEF Projected
      <3>3. HalfRead'
        BY <2>1 DEF HalfRead, ReadSteps, Kind, Rate
      <3>4. HalfWritten'
        BY <1>1, <1>2, <1>4, <1>5, <2>1, <3>1, <3>2 DEF HalfWritten
      <3>5. ASSUME NEW q \in Pair, q < job'.pair \/ job'.step = "end" PROVE Synced(q, job.at)'
        <4>1. Synced(q, job.at)
          BY <1>5, <2>1, <3>1, <3>5 DEF SyncedBefore
        <4> QED  BY <1>7, <2>1, <3>1, <3>2, <4>1 DEF Synced
      <3> QED  BY <1>2, <1>5, <3>1, <3>3, <3>4, <3>5 DEF SyncedBefore
    <2> QED  BY <1>2, <1>4, <2>1, <2>2 DEF CleanInv
  <1> QED  BY <1>1, <1>8, <1>9, GroupStepFields

(* Writing the group row keeps a clean pass clean.                          *)
LEMMA CleanUpsertGroup ==
  ASSUME PairSyncTypeOK, CleanInv, UpsertGroup
  PROVE  CleanInv'
  <1>1. /\ job \in Jobs /\ job.pair \in Pair /\ tb \in Tables
    BY DEF PairSyncTypeOK, Jobs
  <1>2. /\ job.step = "upsert_group" /\ UNCHANGED <<reg, ops, feed>>
        /\ tb' = [tb EXCEPT !.groups = @ \cup {GroupOf[job.pair]}]
        /\ job' = NextPair([job EXCEPT !.groupsSeen = @ \cup {GroupOf[job.pair]}])
    BY DEF UpsertGroup, chainVars
  <1>3. tb' \in Tables
    BY TypeStep DEF PairSyncTypeOK, Next, PairIndexer
  <1>4. /\ tb'.groups = tb.groups \cup {GroupOf[job.pair]} /\ tb'.fees = tb.fees
        /\ tb'.pairs = tb.pairs /\ tb'.oi = tb.oi
    BY <1>1, <1>2 DEF Tables
  <1>5. PICK j \in Jobs : j = [job EXCEPT !.groupsSeen = @ \cup {GroupOf[job.pair]}]
    BY <1>1 DEF Jobs
  <1>6. /\ j.pair = job.pair /\ j.at = job.at /\ j.ops = job.ops
        /\ j.groupsSeen = job.groupsSeen \cup {GroupOf[job.pair]} /\ job' = NextPair(j)
    BY <1>1, <1>2, <1>5 DEF Jobs
  <1>7. j.groupsSeen \subseteq tb'.groups
    BY <1>4, <1>6 DEF CleanInv
  <1>8. job'.at = job.at
    BY <1>6, NextPairFields
  <1>9. ASSUME Clean, NEW q \in Pair, Synced(q, job.at) \/ q = job.pair PROVE Synced(q, job.at)'
    <2>1. HalfWritten
      BY <1>9 DEF CleanInv
    <2>2. /\ tb'.pairs[q] = [thr |-> reg'[q].thr, depth |-> 1] /\ tb'.oi[q] = reg'[q].oi
          /\ tb'.fees[q] = Projected(q, job.at) /\ GroupOf[q] \in tb'.groups
      <3>1. CASE Synced(q, job.at)
        BY <1>2, <1>4, <3>1 DEF Synced
      <3>2. CASE q = job.pair
        BY <1>2, <1>4, <2>1, <3>2 DEF HalfWritten, AfterPair
      <3> QED  BY <1>9, <3>1, <3>2
    <2>3. Projected(q, job.at)' = Projected(q, job.at)
      BY <1>2, <1>8 DEF Projected
    <2> QED  BY <2>2, <2>3 DEF Synced
  <1>10. job.step # "idle" /\ job.step # "end"
    BY <1>2
  <1> QED  BY <1>2, <1>3, <1>6, <1>7, <1>9, <1>10, CleanNextPair

(* Steps after which the pass is not clean: an operation, an error, an end.  *)
LEMMA CleanLost ==
  ASSUME job'.groupsSeen \subseteq tb'.groups,
         job'.ops < ops' \/ (job'.step = "idle" /\ job'.ops <= ops'),
         job'.ops \in Int, ops' \in Int
  PROVE  CleanInv'
  BY DEF CleanInv, Clean

(* A clean pass stays clean while nothing moves.                            *)
LEMMA CleanStays ==
  ASSUME CleanInv, UNCHANGED <<reg, tb, ops, feed, job>>
  PROVE  CleanInv'
  <1>1. Clean' <=> Clean
    BY DEF Clean
  <1>2. SyncedBefore => SyncedBefore'
    BY DEF SyncedBefore, Synced, Projected
  <1>3. HalfRead /\ HalfWritten => HalfRead' /\ HalfWritten'
    BY DEF HalfRead, HalfWritten, Projected
  <1> QED  BY <1>1, <1>2, <1>3 DEF CleanInv

(* Every step of the pass keeps it clean.                                   *)
LEMMA CleanPass ==
  ASSUME PairSyncTypeOK, CleanInv, StartPass \/ PairIndexer
  PROVE  CleanInv'
  <1>1. job \in Jobs /\ job.step \in Steps /\ ops \in Nat /\ tb \in Tables
    BY DEF PairSyncTypeOK, Jobs
  <1>2. CASE StartPass
    <2>1. /\ job'.step = "get_pair" /\ job'.pair = 0 /\ job'.groupsSeen = {}
          /\ job'.ops = IF feed = <<>> THEN ops ELSE -1
          /\ UNCHANGED <<tb, ops, feed>>
      BY <1>2 DEF StartPass, NoJob, chainVars
    <2>2. HalfRead' /\ HalfWritten'
      BY <2>1 DEF HalfRead, HalfWritten, ReadSteps, AfterPair, FeeCalls, Kind, Rate
    <2>3. SyncedBefore'
      BY <2>1 DEF SyncedBefore, Pair
    <2>4. job'.ops <= ops'
      BY <1>1, <2>1
    <2>5. Clean' => feed' = <<>>
      BY <1>1, <2>1 DEF Clean
    <2> QED  BY <2>1, <2>2, <2>3, <2>4, <2>5 DEF CleanInv
  <1>3. CASE CallRetries
    <2>1. /\ UNCHANGED <<reg, tb, ops, feed>> /\ job.step \in Calls
          /\ job'.step = job.step /\ job'.pair = job.pair /\ job'.at = job.at /\ job'.loc = job.loc
          /\ job'.groupsSeen = job.groupsSeen /\ job'.ops = job.ops
      BY <1>1, <1>3 DEF CallRetries, chainVars, Jobs
    <2>2. HalfRead /\ HalfWritten => HalfRead' /\ HalfWritten'
      BY <2>1 DEF HalfRead, HalfWritten, Projected
    <2>3. job.step # "idle" /\ job'.step # "end"
      BY <2>1 DEF Calls
    <2> QED  BY <2>1, <2>2, <2>3, CleanFrame
  <1>4. CASE CallFails \/ StatementFails
    <2>1. job' = AfterError(job) /\ UNCHANGED <<tb, ops>>
      BY <1>4 DEF CallFails, StatementFails, chainVars
    <2>2. job.step = "get_depth" => job.loc.thr \in Thresholds
      BY DEF PairSyncTypeOK
    <2>3. job'.ops = -1 /\ job'.groupsSeen = job.groupsSeen
      BY <1>1, <2>1, <2>2, AfterErrorType
    <2>4. job'.groupsSeen \subseteq tb'.groups
      BY <2>1, <2>3 DEF CleanInv
    <2> QED  BY <1>1, <2>1, <2>3, <2>4, CleanLost
  <1>5. CASE EndPass \/ Interrupted
    <2>1. job' = NoJob /\ UNCHANGED <<tb, ops>>
      BY <1>5 DEF EndPass, Interrupted, chainVars
    <2> QED  BY <1>1, <2>1, CleanLost DEF NoJob
  <1> QED  BY <1>2, <1>3, <1>4, <1>5, CleanCall, CleanUpsertPair, CleanWriteFees, CleanWriteOi,
              CleanUpsertGroup DEF PairIndexer

(* An operation or event during a pass ends its cleanness.                  *)
LEMMA CleanStep == PairSyncTypeOK /\ CleanInv /\ [Next]_vars => CleanInv'
  <1> SUFFICES ASSUME PairSyncTypeOK, CleanInv, [Next]_vars PROVE CleanInv'
    OBVIOUS
  <1>1. job \in Jobs /\ job.ops \in Int /\ ops \in Nat /\ tb \in Tables /\ feed \in Seq(Events)
    BY DEF PairSyncTypeOK, Jobs
  <1>2. CASE UNCHANGED vars \/ KeeperStart \/ KeeperRefresh \/ CloseLedger
    <2>1. UNCHANGED <<reg, tb, ops, feed, job>>
      BY <1>2 DEF vars, chainVars, KeeperStart, KeeperRefresh, CloseLedger
    <2> QED  BY <2>1, CleanStays
  <1>3. CASE ApplyEvent
    <2>1. feed # <<>> /\ UNCHANGED <<job, ops>>
      BY <1>3 DEF ApplyEvent, chainVars
    <2>2. tb'.groups = tb.groups
      BY <1>1, <1>3 DEF ApplyEvent, Tables
    <2>3. ~Clean'
      BY <2>1 DEF CleanInv, Clean
    <2> QED  BY <2>1, <2>2, <2>3 DEF CleanInv
  <1>4. ASSUME NEW p \in Pair, NEW r \in Registered, NEW kind \in Kind \cup {"thr"},
               NEW evs \in Seq(Events), Operation(p, r, kind, evs)
        PROVE  CleanInv'
    <2>1. ops' = ops + 1 /\ UNCHANGED <<tb, job>>
      BY <1>4 DEF Operation, Operate
    <2>2. job.ops <= ops /\ job.groupsSeen \subseteq tb.groups
      BY DEF CleanInv
    <2>3. job'.ops < ops' /\ job'.ops \in Int /\ ops' \in Int
      BY <1>1, <2>1, <2>2
    <2> QED  BY <2>1, <2>2, <2>3, CleanLost
  <1>5. CASE Contract
    BY <1>2, <1>4, <1>5, ContractOperates
  <1> QED  BY <1>2, <1>3, <1>5, CleanPass DEF Next

(* CleanInv holds in every state.                                           *)
LEMMA CleanAlways == Spec => []CleanInv
  BY CleanInit, CleanStep, PairSyncTypes, PTL DEF Spec

(* The prices only look at the accumulators of a row.                        *)
LEMMA SyncedPrices ==
  ASSUME PairSyncTypeOK, NEW at \in Nat, NEW t \in Trade, Synced(t.pair, at)
  PROVE  /\ RestLiq(t) = CurrentLiq(t, View(reg[t.pair], at), reg[t.pair].thr)
         /\ WsLiq(t) = CurrentLiq(t, View(reg[t.pair], at), reg[t.pair].thr)
  <1> DEFINE p == t.pair
             row == tb.fees[p]
             v == View(reg[p], at)
  <1>1. p \in Pair /\ tb \in Tables /\ reg[p] \in Registered
    BY DEF PairSyncTypeOK, Trade
  <1>2. /\ row.roll = v.roll /\ row.long = v.long /\ row.short = v.short
        /\ tb.pairs[p] = [thr |-> reg[p].thr, depth |-> 1]
    BY DEF Synced, Projected
  <1>3. tb.pairs[p].thr = reg[p].thr
    BY <1>2
  <1>4. row # NoRow /\ tb.pairs[p] # NoRow
    <2>1. row \in FeesRow
      <3>1. row = [roll |-> v.roll, long |-> v.long, short |-> v.short, at |-> at, rate |-> reg[p].rate]
        BY DEF Synced, Projected
      <3>2. v.roll \in Int /\ v.long \in Int /\ v.short \in Int
        BY <1>1, ViewType
      <3>3. reg[p].rate \in [Rate -> Nat]
        BY <1>1 DEF Registered
      <3> HIDE DEF v
      <3> QED  BY <3>1, <3>2, <3>3 DEF FeesRow
    <2>2. tb.pairs[p] \in [thr: Thresholds, depth: {0, 1}]
      BY <1>1, <1>2 DEF Registered
    <2> QED  BY <2>1, <2>2, NoRowIsNoRecord
  <1>5. RolloverFee(t, row) = RolloverFee(t, v) /\ FundingFee(t, row) = FundingFee(t, v)
    BY <1>2 DEF RolloverFee, FundingFee
  <1>6. CurrentLiq(t, row, reg[p].thr) = CurrentLiq(t, v, reg[p].thr)
    BY <1>5 DEF CurrentLiq
  <1>7. RestLiq(t) = CurrentLiq(t, row, reg[p].thr) /\ WsLiq(t) = CurrentLiq(t, row, reg[p].thr)
    BY <1>3, <1>4 DEF RestLiq, WsLiq, Coalesce
  <1> QED  BY <1>6, <1>7

(* After a clean pass rows and prices are the contracts'.                   *)
LEMMA CleanImplies == PairSyncTypeOK /\ CleanInv => CleanPassHeals
  <1> SUFFICES ASSUME PairSyncTypeOK, CleanInv, job.step = "end", job.ops = ops
               PROVE  /\ \A p \in Pair : Synced(p, job.at)
                      /\ opened # NoRow =>
                           LET liq == CurrentLiq(opened, View(reg[opened.pair], job.at), reg[opened.pair].thr)
                           IN RestLiq(opened) = liq /\ WsLiq(opened) = liq
    BY DEF CleanPassHeals, Synced, Projected
  <1>1. \A p \in Pair : Synced(p, job.at)
    BY DEF CleanInv, Clean, SyncedBefore
  <1>2. ASSUME opened # NoRow
        PROVE  opened \in Trade /\ opened.pair \in Pair /\ job.at \in Nat
    BY <1>2 DEF PairSyncTypeOK, Trade, Jobs
  <1> QED  BY <1>1, <1>2, SyncedPrices

(* A pass that meets no error, event or operation ends with every table in   *)
(* step with the contract and with REST (handleGetTrades) and gateway        *)
(* (enrichTrades) at the contract's price of the ledger it started at, for   *)
(* any number of pairs and whatever the tables held before it.  The keeper's *)
(* price is not part of it (state.go:225).                                   *)
THEOREM CleanPassesHeal == Spec => []CleanPassHeals
  BY PairSyncTypes, CleanAlways, CleanImplies, PTL

-----------------------------------------------------------------------------
(* The order of the steps for one pair.                                     *)
LEMMA StepNumbers ==
  /\ StepNo["get_pair"] = 1 /\ StepNo["get_depth"] = 2 /\ StepNo["upsert_pair"] = 3
  /\ StepNo["get_acc_rollover"] = 4 /\ StepNo["get_acc_funding"] = 5 /\ StepNo["get_oi"] = 6
  /\ StepNo["pending_acc_rollover_view"] = 7 /\ StepNo["pending_acc_funding_view"] = 8
  /\ StepNo["write_fees"] = 9 /\ StepNo["write_oi"] = 10 /\ StepNo["get_group"] = 11
  /\ StepNo["upsert_group"] = 12
  BY DEF StepNo, Calls

(* The next pair comes later.                                               *)
LEMMA NextPairAfter ==
  ASSUME NEW j \in Jobs, NEW a \in Jobs, j.pair = a.pair
  PROVE  Before(a, NextPair(j))
  <1>1. j.pair \in Int
    BY DEF Jobs, Pair
  <1> QED  BY <1>1, NextPairFields DEF Before

(* Every step of the pair indexer is a later one.                           *)
LEMMA StepsAdvance ==
  ASSUME PairSyncTypeOK, PairIndexer
  PROVE  Before(job, job')
  <1>1. job \in Jobs /\ job.pair \in Int /\ job.attempt \in Int
    BY DEF PairSyncTypeOK, Jobs, Pair
  <1>2. CASE CallContract
    <2>1. AnsweredMoves(job, job') /\ job.step \in Calls
      BY <1>2, AnsweredFields DEF CallContract
    <2>2. job'.pair = job.pair /\ StepNo[job.step] < StepNo[job'.step]
      BY <2>1, StepNumbers DEF AnsweredMoves, Moved, Calls
    <2> QED  BY <2>2 DEF Before
  <1>3. CASE CallRetries
    BY <1>1, <1>3 DEF CallRetries, Before, Jobs
  <1>4. CASE CallFails \/ StatementFails
    <2>1. job' = AfterError(job) /\ (job.step = "get_depth" => job.loc.thr \in Thresholds)
      BY <1>4 DEF CallFails, StatementFails, PairSyncTypeOK
    <2>2. \/ job'.step = "end" \/ job'.pair = job.pair + 1
          \/ job'.pair = job.pair /\ job'.step = "upsert_pair" /\ job.step = "get_depth"
          \/ /\ job'.pair = job.pair /\ job'.step = "get_group"
             /\ job.step \in FeeCalls \cup {"write_fees", "write_oi"}
      BY <1>1, <2>1, AfterErrorType
    <2> QED  BY <1>1, <2>2, StepNumbers DEF Before, FeeCalls
  <1>5. CASE UpsertPair
    <2>1. Moved(job, job', NoLocals, "get_acc_rollover") /\ job.step = "upsert_pair"
      BY <1>1, <1>5, GoToMoves, EmptyTypes, StepNames DEF UpsertPair
    <2> QED  BY <2>1, StepNumbers DEF Moved, Before
  <1>6. CASE WriteFees
    <2>1. Moved(job, job', [job.loc EXCEPT !.fees = EmptyFees], "write_oi") /\ job.step = "write_fees"
      BY <1>6, WriteFeesMoves DEF WriteFees
    <2> QED  BY <2>1, StepNumbers DEF Moved, Before
  <1>7. CASE WriteOi
    <2>1. job' = GroupStep(job) /\ job.step = "write_oi"
      BY <1>7 DEF WriteOi
    <2>2. CASE job' = NextPair(job)
      BY <1>1, <2>2, NextPairAfter
    <2>3. CASE Moved(job, job', NoLocals, "get_group")
      BY <2>1, <2>3, StepNumbers DEF Moved, Before
    <2> QED  BY <1>1, <2>1, <2>2, <2>3, GroupStepFields
  <1>8. CASE UpsertGroup
    <2>1. PICK j \in Jobs : j = [job EXCEPT !.groupsSeen = @ \cup {GroupOf[job.pair]}]
      BY <1>1 DEF Jobs, PairSyncTypeOK
    <2>2. j.pair = job.pair /\ job' = NextPair(j)
      BY <1>1, <1>8, <2>1 DEF UpsertGroup, Jobs
    <2> QED  BY <1>1, <2>2, NextPairAfter
  <1>9. CASE EndPass \/ Interrupted
    BY <1>9 DEF EndPass, Interrupted, NoJob, Before
  <1> QED  BY <1>2, <1>3, <1>4, <1>5, <1>6, <1>7, <1>8, <1>9 DEF PairIndexer

(* The action property, for one step.                                       *)
LEMMA PassStep ==
  PairSyncTypeOK /\ PairSyncTypeOK' /\ [Next]_vars =>
    [job.step \notin {"idle", "end"} /\ job' # job =>
       Before(job, job') /\ (job'.step \in Calls => job'.attempt <= maxAttempts)]_vars
  <1> SUFFICES ASSUME PairSyncTypeOK, PairSyncTypeOK', Next, job.step \notin {"idle", "end"}, job' # job
               PROVE  Before(job, job') /\ job'.attempt <= maxAttempts
    BY DEF vars, chainVars
  <1>1. job'.attempt <= maxAttempts
    BY PairSyncAssumption DEF PairSyncTypeOK, Jobs
  <1>2. PairIndexer
    <2>1. ~StartPass
      BY DEF StartPass
    <2>2. ~Contract
      BY ContractFrame
    <2>3. ~ApplyEvent /\ ~KeeperStart /\ ~KeeperRefresh
      BY DEF ApplyEvent, KeeperStart, KeeperRefresh
    <2> QED  BY <2>1, <2>2, <2>3 DEF Next
  <1> QED  BY <1>1, <1>2, StepsAdvance

(* Every step of a pass is later than the one before it, for any number of   *)
(* pairs and attempts and whatever the calls answer: no pass goes in circles. *)
THEOREM PassesAdvance == Spec => PassAdvances
  BY PairSyncTypes, PassStep, PTL DEF Spec, PassAdvances
=============================================================================
