------------------------------ MODULE PairSync ------------------------------
(***************************************************************************)
(* cmd/pair-indexer: once a day it reads every pair of the registry        *)
(* contract, call by call, and writes the pairs, pair_groups,              *)
(* pair_fee_accumulators and pair_oi tables.  The indexer writes the same  *)
(* fee and open interest rows from events meanwhile, and the keeper and    *)
(* the API compute a trade's liquidation price from them.                  *)
(*                                                                         *)
(* External: the registry contract, from the fields the code reads and     *)
(* the arithmetic internal/keeper/math.go mirrors.  One trade is enough to *)
(* tell the prices apart; how tables and caches follow trade events is the *)
(* matter of Indexer and Consumer.                                         *)
(***************************************************************************)
EXTENDS FeeMath, Sequences

CONSTANTS
  PairsCount,   \* pairs_count of the registry
  GroupOf,      \* the fee group of a pair
  Thresholds,   \* values of liq_threshold_p
  ListedWith,   \* liq_threshold_p and rollover rate of the pairs at the start
  Rates,        \* fee rates per ledger
  Amounts,      \* open interest changes
  Active,       \* bound: the pairs the contract's operations are on
  Trades,       \* trades that may be opened
  MaxOps,       \* bound on contract operations
  MaxLedger,    \* bound on ledgers
  MaxErrors,    \* bound on the errors of a run
  MaxPasses,    \* bound on runs of the pair indexer
  maxAttempts   \* attempts per contract call (6 in the code)

Pair == 0 .. PairsCount - 1
Rate == {"rollover_rate", "funding_rate"}
Kind == Rate \cup {"oi"}
Side == {"long", "short"}

ASSUME PairSyncAssumption ==
  /\ PairsCount \in Nat \ {0} /\ GroupOf \in [Pair -> Nat]
  /\ Thresholds \subseteq 1 .. 100 /\ ListedWith \in [thr: Thresholds, rate: Nat]
  /\ Active \subseteq Pair /\ Rates \subseteq Nat /\ Amounts \subseteq Nat \ {0}
  /\ Trades \subseteq [long: BOOLEAN, open: Nat, coll: Nat \ {0}, lev: Nat \ {0}]
  /\ MaxOps \in Nat /\ MaxLedger \in Nat /\ MaxPasses \in Nat /\ MaxErrors \in Nat
  /\ maxAttempts \in Nat \ {0}

VARIABLES
  now,     \* external: the latest ledger
  reg,     \* external: the registry's state of each pair
  opened,  \* external: the open trade
  log,     \* ghost: what each rate and open interest was, one entry per event of it
  feed,    \* events the indexer has not applied yet
  applied, \* ghost: how many events of a pair and kind it has applied
  ops,     \* bound
  tb,      \* the tables
  exact,   \* ghost: the row has been written, and not across an event
  job,     \* the pair indexer
  passes,  \* bound
  keeper   \* the keeper's watch entry and its copy of the accumulators

chainVars == <<now, reg, opened, log, ops>>
vars == <<chainVars, feed, applied, tb, exact, job, passes, keeper>>

NoRow == [none |-> TRUE]
DefaultThreshold == 90   \* hard-coded in store.go, state.go and cache.go

-----------------------------------------------------------------------------
(* External: the contract.  Accumulators are brought up to date by every    *)
(* operation on the pair; a view projects them to a ledger.                 *)
View(r, at) ==
  LET n == IF at > r.last THEN at - r.last ELSE 0
      f == PendingAccFunding([long |-> r.long, short |-> r.short], r.oi, n,
                             r.rate["funding_rate"])
  IN [roll |-> PendingAccRollover(r.roll, n, r.rate["rollover_rate"]),
      long |-> f.long, short |-> f.short]

Accrued(r) == LET v == View(r, now) IN
  [r EXCEPT !.roll = v.roll, !.long = v.long, !.short = v.short, !.last = now]

Logged(r, k) == IF k = "oi" THEN r.oi ELSE r.rate[k]

(* The n-th event of a pair and kind follows the n-th entry of its log.      *)
Event(kind, p, val) ==
  [kind |-> kind, pair |-> p, val |-> val, n |-> IF kind \in Kind THEN Len(log[p][kind]) ELSE 0]

(* The pair's state becomes r, and its rate or open interest is logged.      *)
Operate(p, r, kind, evs) ==
  /\ ops < MaxOps /\ ops' = ops + 1
  /\ reg' = [reg EXCEPT ![p] = r]
  /\ feed' = feed \o evs
  /\ log' = IF kind \in Kind THEN [log EXCEPT ![p][kind] = Append(@, Logged(r, kind))] ELSE log
  /\ UNCHANGED <<now, applied, tb, exact, job, passes, keeper>>

SetRate(p, kind, rate) ==
  /\ Operate(p, [Accrued(reg[p]) EXCEPT !.rate[kind] = rate], kind,
             <<Event(kind, p, rate)>>)
  /\ UNCHANGED opened

Delta(side, n) == [s \in Side |-> IF s = side THEN n ELSE 0]

AddedOi(r, d) == [Accrued(r) EXCEPT !.oi = [s \in Side |-> r.oi[s] + d[s]]]

(* Other traders' positions.                                                *)
AddOi(p, side, n) ==
  /\ Operate(p, AddedOi(reg[p], Delta(side, n)), "oi", <<Event("oi", p, Delta(side, n))>>)
  /\ UNCHANGED opened

SubOi(p, side, n) ==
  /\ n <= reg[p].oi[side]
  /\ Operate(p, AddedOi(reg[p], Delta(side, -n)), "oi", <<Event("oi", p, Delta(side, -n))>>)
  /\ UNCHANGED opened

(* The registry's owner changes a pair; no event of it is projected.        *)
SetThreshold(p, thr) ==
  /\ thr # reg[p].thr
  /\ Operate(p, [reg[p] EXCEPT !.thr = thr], "thr", <<>>)
  /\ UNCHANGED opened

OpenTrade(p, t) ==
  /\ opened = NoRow
  /\ LET d == Delta(IF t.long THEN "long" ELSE "short", t.coll * t.lev)
         r == AddedOi(reg[p], d)
         trade == [pair |-> p, terms |-> t, roll |-> r.roll, ledger |-> now,
                   fund |-> IF t.long THEN r.long ELSE r.short]
     IN /\ opened' = trade
        /\ Operate(p, r, "oi", <<Event("oi", p, d), Event("opened", p, trade)>>)

CloseLedger ==
  /\ now < MaxLedger
  /\ now' = now + 1
  /\ UNCHANGED <<reg, opened, log, ops, feed, applied, tb, exact, job, passes, keeper>>

-----------------------------------------------------------------------------
(* The indexer: applyRegistry and "opened" of applyPM.  A rate event creates *)
(* the row with the column defaults when there is none.                     *)
EmptyFees == [roll |-> 0, long |-> 0, short |-> 0, at |-> 0,
              rate |-> [r \in Rate |-> 0]]
FeesOf(p) == IF tb.fees[p] = NoRow THEN EmptyFees ELSE tb.fees[p]

(* Mutant: the reduction is not taken from the row.                         *)
AppliedOi_OnlyAdds(oi, d) ==
  [s \in Side |-> IF d[s] > 0 THEN oi[s] + d[s] ELSE oi[s]]

(* Mutant: a reduction below zero is stored.                                *)
AppliedOi_NoFloor(oi, d) == [s \in Side |-> oi[s] + d[s]]

AppliedOi(oi, d) == [s \in Side |-> Floored(oi[s] + d[s])]

(* Mutant: a rate without a row is dropped.                                 *)
AppliedRate_UpdateOnly(p, kind, rate) ==
  IF tb.fees[p] = NoRow THEN NoRow ELSE [tb.fees[p] EXCEPT !.rate[kind] = rate]

AppliedRate(p, kind, rate) == [FeesOf(p) EXCEPT !.rate[kind] = rate]

(* The keeper hears of a trade through Redis when it is running, and uses   *)
(* the default threshold for it.                                            *)
Heard(trade) ==
  IF keeper.up
  THEN [keeper EXCEPT !.entry = [trade |-> trade, thr |-> DefaultThreshold]]
  ELSE keeper

ApplyEvent ==
  /\ feed # <<>>
  /\ feed' = Tail(feed)
  /\ LET e == Head(feed) IN
       \/ /\ e.kind = "opened"
          /\ tb' = [tb EXCEPT !.trade = e.val]
          /\ keeper' = Heard(e.val)
          /\ UNCHANGED <<applied, exact>>
       \/ /\ e.kind = "oi"
          /\ tb' = [tb EXCEPT !.oi[e.pair] = AppliedOi(tb.oi[e.pair], e.val)]
          /\ applied' = [applied EXCEPT ![e.pair]["oi"] = @ + 1]
          /\ UNCHANGED <<exact, keeper>>
       \/ /\ e.kind \in Rate
          /\ tb' = [tb EXCEPT !.fees[e.pair] = AppliedRate(e.pair, e.kind, e.val)]
          /\ applied' = [applied EXCEPT ![e.pair][e.kind] = @ + 1]
          /\ exact' = [exact EXCEPT ![e.pair][e.kind] = TRUE]
          /\ UNCHANGED keeper
  /\ UNCHANGED <<chainVars, job, passes>>

-----------------------------------------------------------------------------
(* The pair indexer: one contract call or one statement per step.           *)
Calls == {"get_pair", "get_depth", "get_acc_rollover", "get_acc_funding", "get_oi",
          "pending_acc_rollover_view", "pending_acc_funding_view", "get_group"}
FeeCalls == {"get_acc_rollover", "get_acc_funding", "get_oi",
             "pending_acc_rollover_view", "pending_acc_funding_view"}

(* The locals of an iteration and of syncFeeAccumulators; ghost: how many   *)
(* events of a kind the answer includes.                                    *)
NoLocals == [thr |-> 0, depth |-> 0, fees |-> EmptyFees, oi |-> Delta("long", 0),
             seen |-> [k \in Kind |-> 0]]

(* Ghosts: the errors met, the operations seen when no event was in flight. *)
NoJob == [step |-> "idle", pair |-> 0, attempt |-> 1, at |-> 0, groupsSeen |-> {},
          errors |-> 0, ops |-> -1, loc |-> NoLocals]

(* Mutant: the views are asked for the ledger to come.                      *)
LatestLedger_Next == now + 1

LatestLedger == now

(* getLatestLedger and pairs_count, whose failure ends the pass at once.    *)
StartPass ==
  /\ job.step = "idle"
  /\ passes < MaxPasses /\ passes' = passes + 1
  /\ job' = [NoJob EXCEPT !.step = "get_pair", !.at = LatestLedger,
                          !.ops = IF feed = <<>> THEN ops ELSE -1]
  /\ UNCHANGED <<chainVars, feed, applied, tb, exact, keeper>>

GoTo(j, loc, step) == [j EXCEPT !.step = step, !.attempt = 1, !.loc = loc]

NextPair(j) ==
  IF j.pair + 1 < PairsCount
  THEN GoTo([j EXCEPT !.pair = @ + 1], NoLocals, "get_pair")
  ELSE GoTo(j, NoLocals, "end")

(* The group of the pair, unless it was written in this pass.               *)
GroupStep(j) ==
  IF GroupOf[j.pair] \in j.groupsSeen THEN NextPair(j)
  ELSE GoTo(j, NoLocals, "get_group")

(* What a call answers, and the call or statement after it.                 *)
Answered(j) ==
  LET r == reg[j.pair]
      v == View(r, j.at)
      n(k) == Len(log[j.pair][k]) - 1
  IN CASE j.step = "get_pair"  -> GoTo(j, [j.loc EXCEPT !.thr = r.thr], "get_depth")
       [] j.step = "get_depth" -> GoTo(j, [j.loc EXCEPT !.depth = 1], "upsert_pair")
       [] j.step = "get_acc_rollover" ->
            GoTo(j, [j.loc EXCEPT !.fees.rate["rollover_rate"] = r.rate["rollover_rate"],
                                  !.seen["rollover_rate"] = n("rollover_rate")],
                 "get_acc_funding")
       [] j.step = "get_acc_funding" ->
            GoTo(j, [j.loc EXCEPT !.fees.rate["funding_rate"] = r.rate["funding_rate"],
                                  !.seen["funding_rate"] = n("funding_rate")],
                 "get_oi")
       [] j.step = "get_oi" ->
            GoTo(j, [j.loc EXCEPT !.oi = r.oi, !.seen["oi"] = n("oi")],
                 "pending_acc_rollover_view")
       [] j.step = "pending_acc_rollover_view" ->
            GoTo(j, [j.loc EXCEPT !.fees.roll = v.roll], "pending_acc_funding_view")
       [] j.step = "pending_acc_funding_view" ->
            GoTo(j, [j.loc EXCEPT !.fees.long = v.long, !.fees.short = v.short,
                                  !.fees.at = j.at], "write_fees")
       [] j.step = "get_group" -> GoTo(j, j.loc, "upsert_group")

(* What an error leads to: no depth is 0, a fee error ends the sync of the  *)
(* pair's fees, any other one the pair.                                     *)
AfterError(j) ==
  LET k == [j EXCEPT !.errors = @ + 1, !.ops = -1] IN
  CASE j.step = "get_depth" -> GoTo(k, [j.loc EXCEPT !.depth = 0], "upsert_pair")
    [] j.step \in FeeCalls \cup {"write_fees", "write_oi"} -> GroupStep(k)
    [] OTHER -> NextPair(k)

CallContract ==
  /\ job.step \in Calls
  /\ job' = Answered(job)
  /\ UNCHANGED <<chainVars, feed, applied, tb, exact, passes, keeper>>

(* Mutant: the attempts are not counted.                                    *)
CallRetries_Uncounted ==
  /\ job.step \in Calls
  /\ job' = [job EXCEPT !.attempt = 3 - @]
  /\ UNCHANGED <<chainVars, feed, applied, tb, exact, passes, keeper>>

(* A transient error; the loop of callContract tries again.                 *)
CallRetries ==
  /\ job.step \in Calls
  /\ job.attempt < maxAttempts
  /\ job' = [job EXCEPT !.attempt = @ + 1]
  /\ UNCHANGED <<chainVars, feed, applied, tb, exact, passes, keeper>>

(* Another error, the last attempt, or an answer that does not parse.       *)
CallFails ==
  /\ job.step \in Calls
  /\ job.errors < MaxErrors
  /\ job' = AfterError(job)
  /\ UNCHANGED <<chainVars, feed, applied, tb, exact, passes, keeper>>

UpsertPair ==
  /\ job.step = "upsert_pair"
  /\ tb' = [tb EXCEPT !.pairs[job.pair] = [thr |-> job.loc.thr, depth |-> job.loc.depth]]
  /\ job' = GoTo(job, NoLocals, "get_acc_rollover")
  /\ UNCHANGED <<chainVars, feed, applied, exact, passes, keeper>>

(* syncFeeAccumulators writes in two statements of their own.               *)
WriteFees ==
  /\ job.step = "write_fees"
  /\ tb' = [tb EXCEPT !.fees[job.pair] = job.loc.fees]
  /\ exact' = [exact EXCEPT ![job.pair] =
       [k \in Kind |-> IF k = "oi" THEN exact[job.pair][k]
                      ELSE applied[job.pair][k] <= job.loc.seen[k]]]
  /\ job' = GoTo(job, [job.loc EXCEPT !.fees = EmptyFees], "write_oi")
  /\ UNCHANGED <<chainVars, feed, applied, passes, keeper>>

(* Mutant: the open interest is added to what the row holds.                *)
WrittenOi_Adds(oi, j) == [s \in Side |-> oi[s] + j.loc.oi[s]]

WrittenOi(oi, j) == j.loc.oi

WriteOi ==
  /\ job.step = "write_oi"
  /\ tb' = [tb EXCEPT !.oi[job.pair] = WrittenOi(tb.oi[job.pair], job)]
  /\ exact' = [exact EXCEPT ![job.pair]["oi"] = applied[job.pair]["oi"] = job.loc.seen["oi"]]
  /\ job' = GroupStep(job)
  /\ UNCHANGED <<chainVars, feed, applied, passes, keeper>>

UpsertGroup ==
  /\ job.step = "upsert_group"
  /\ tb' = [tb EXCEPT !.groups = @ \cup {GroupOf[job.pair]}]
  /\ job' = NextPair([job EXCEPT !.groupsSeen = @ \cup {GroupOf[job.pair]}])
  /\ UNCHANGED <<chainVars, feed, applied, exact, passes, keeper>>

StatementFails ==
  /\ job.step \in {"upsert_pair", "write_fees", "write_oi", "upsert_group"}
  /\ job.errors < MaxErrors
  /\ job' = AfterError(job)
  /\ UNCHANGED <<chainVars, feed, applied, tb, exact, passes, keeper>>

(* The pass is complete, or a signal ends it anywhere.                      *)
EndPass ==
  /\ job.step = "end"
  /\ job' = NoJob
  /\ UNCHANGED <<chainVars, feed, applied, tb, exact, passes, keeper>>

Interrupted ==
  /\ job.step \notin {"idle", "end"}
  /\ job' = NoJob
  /\ UNCHANGED <<chainVars, feed, applied, tb, exact, passes, keeper>>

-----------------------------------------------------------------------------
(* The keeper: LoadFromDB at start (how the load interleaves with events is *)
(* Consumer's matter), LoadFeeAccumulatorsFromDB at every poll interval.    *)
Coalesce(pairRow) == IF pairRow = NoRow THEN DefaultThreshold ELSE pairRow.thr

KeeperStart ==
  /\ ~keeper.up
  /\ keeper' = [up |-> TRUE, fees |-> tb.fees,
                entry |-> IF tb.trade = NoRow THEN NoRow
                          ELSE [trade |-> tb.trade, thr |-> Coalesce(tb.pairs[tb.trade.pair])]]
  /\ UNCHANGED <<chainVars, feed, applied, tb, exact, job, passes>>

KeeperRefresh ==
  /\ keeper.up /\ keeper.fees # tb.fees
  /\ keeper' = [keeper EXCEPT !.fees = tb.fees]
  /\ UNCHANGED <<chainVars, feed, applied, tb, exact, job, passes>>

-----------------------------------------------------------------------------
(* The prices computed from the tables.                                     *)
RolloverFee(t, acc) == RolloverFeeForTrade(t.roll, acc.roll, t.terms.coll)

FundingFee(t, acc) ==
  FundingFeeForTrade(t.fund, IF t.terms.long THEN acc.long ELSE acc.short,
                     t.terms.coll, t.terms.lev)

LiqWith(t, fees, thr) ==
  LiquidationPrice(t.terms.open, t.terms.long, t.terms.coll, t.terms.lev, fees,
                   IF thr = 0 THEN DefaultThreshold ELSE thr)

(* currentLiquidationPrice and calculateTradeTimeFeesAndLiq.                *)
CurrentLiq(t, acc, thr) == LiqWith(t, RolloverFee(t, acc) + FundingFee(t, acc), thr)

(* liq_price of the trades table, the keeper's live entry and the cache.    *)
LiqAtOpen(t) == LiqWith(t, 0, DefaultThreshold)

(* handleGetTrades: the accumulators row decides, with the pair's threshold *)
(* if it is there.                                                          *)
RestLiq(t) ==
  IF tb.fees[t.pair] = NoRow THEN LiqAtOpen(t)
  ELSE CurrentLiq(t, tb.fees[t.pair], Coalesce(tb.pairs[t.pair]))

(* enrichTrades, for a trade the cache heard of through Redis (one it       *)
(* loaded keeps the price of the load instead): the pair row decides first. *)
WsLiq(t) ==
  IF tb.pairs[t.pair] = NoRow \/ tb.fees[t.pair] = NoRow THEN LiqAtOpen(t)
  ELSE CurrentLiq(t, tb.fees[t.pair], tb.pairs[t.pair].thr)

(* Detect.                                                                  *)
KeeperLiq(en) ==
  LET fee == keeper.fees[en.trade.pair] IN
  IF fee = NoRow THEN LiqAtOpen(en.trade) ELSE CurrentLiq(en.trade, fee, en.thr)

(* External: what the contract charges and when it liquidates.              *)
ContractAcc(p) == View(reg[p], now)
ContractLiq(t) == CurrentLiq(t, ContractAcc(t.pair), reg[t.pair].thr)

-----------------------------------------------------------------------------
Init ==
  /\ now = 1
  /\ reg = [p \in Pair |->
       [thr |-> ListedWith.thr, roll |-> 0, long |-> 0, short |-> 0, last |-> 0,
        rate |-> [r \in Rate |-> IF r = "rollover_rate" THEN ListedWith.rate ELSE 0],
        oi |-> Delta("long", 0)]]
  /\ opened = NoRow /\ feed = <<>> /\ ops = 0
  /\ log = [p \in Pair |-> [k \in Kind |-> <<Logged(reg[p], k)>>]]
  /\ applied = [p \in Pair |-> [k \in Kind |-> 0]]
  /\ tb = [pairs |-> [p \in Pair |-> NoRow], groups |-> {},
           fees |-> [p \in Pair |-> NoRow], oi |-> [p \in Pair |-> Delta("long", 0)],
           trade |-> NoRow]
  /\ exact = [p \in Pair |-> [k \in Kind |-> k = "oi"]]
  /\ job = NoJob /\ passes = 0
  /\ keeper = [up |-> FALSE, entry |-> NoRow, fees |-> [p \in Pair |-> NoRow]]

Contract ==
  \/ CloseLedger
  \/ \E p \in Active :
       \/ \E kind \in Rate, rate \in Rates : SetRate(p, kind, rate)
       \/ \E side \in Side, n \in Amounts : AddOi(p, side, n) \/ SubOi(p, side, n)
       \/ \E thr \in Thresholds : SetThreshold(p, thr)
       \/ \E t \in Trades : OpenTrade(p, t)

PairIndexer ==
  CallContract \/ CallRetries \/ CallFails \/ UpsertPair \/ WriteFees \/ WriteOi
    \/ UpsertGroup \/ StatementFails \/ EndPass \/ Interrupted

Next == Contract \/ ApplyEvent \/ StartPass \/ PairIndexer \/ KeeperStart \/ KeeperRefresh

Spec == Init /\ [][Next]_vars

-----------------------------------------------------------------------------
FeesRow == [roll: Int, long: Int, short: Int, at: Nat, rate: [Rate -> Nat]]
OiRow == [Side -> Nat]
Trade == [pair: Pair, terms: Trades, roll: Int, ledger: Nat, fund: Int]
Registered == [thr: Thresholds, roll: Int, long: Int, short: Int, last: Nat,
               rate: [Rate -> Nat], oi: OiRow]
Events == [kind: Rate, pair: Pair, val: Nat, n: Nat]
            \cup [kind: {"oi"}, pair: Pair, val: [Side -> Int], n: Nat]
            \cup [kind: {"opened"}, pair: Pair, val: Trade, n: Nat]
Steps == Calls \cup {"upsert_pair", "write_fees", "write_oi", "upsert_group", "end", "idle"}
Locals == [thr: Thresholds \cup {0}, depth: {0, 1}, fees: FeesRow, oi: OiRow, seen: [Kind -> Nat]]
Jobs == [step: Steps, pair: Pair, attempt: 1 .. maxAttempts, at: Nat, errors: Nat,
         groupsSeen: SUBSET {GroupOf[p] : p \in Pair}, ops: Int, loc: Locals]

Tables == [pairs: [Pair -> {NoRow} \cup [thr: Thresholds, depth: {0, 1}]],
           groups: SUBSET {GroupOf[p] : p \in Pair},
           fees: [Pair -> {NoRow} \cup FeesRow], oi: [Pair -> OiRow],
           trade: {NoRow} \cup Trade]
Keepers == [up: BOOLEAN, fees: [Pair -> {NoRow} \cup FeesRow],
            entry: {NoRow} \cup [trade: Trade, thr: 1 .. 100]]

LogTypeOK ==
  /\ log = [p \in Pair |-> [k \in Kind |-> log[p][k]]]
  /\ \A p \in Pair : /\ log[p]["oi"] \in Seq(OiRow) \ {<<>>}
                     /\ \A k \in Rate : log[p][k] \in Seq(Nat) \ {<<>>}

(* The type invariant; a pair is only written with a threshold read.        *)
PairSyncTypeOK ==
  /\ now \in Nat /\ ops \in 0 .. MaxOps /\ reg \in [Pair -> Registered]
  /\ opened \in {NoRow} \cup Trade /\ LogTypeOK
  /\ feed \in Seq(Events) /\ applied \in [Pair -> [Kind -> Nat]]
  /\ tb \in Tables /\ exact \in [Pair -> [Kind -> BOOLEAN]]
  /\ job \in Jobs /\ passes \in 0 .. MaxPasses
  /\ job.step \in {"get_depth", "upsert_pair"} => job.loc.thr \in Thresholds
  /\ keeper \in Keepers

InFlight(p, k) == {i \in DOMAIN feed : feed[i].pair = p /\ feed[i].kind = k}

(* The pair indexer replaces the open interest of a pair by the one it read *)
(* some calls earlier, and the indexer adds deltas to the same row: as long *)
(* as the last replacement neither repeats nor loses a delta, the row is    *)
(* the contract's open interest after the last delta applied, and with no   *)
(* delta in flight the contract's.                                          *)
OiExact ==
  \A p \in Pair : exact[p]["oi"] =>
    /\ tb.oi[p] = log[p]["oi"][applied[p]["oi"] + 1]
    /\ InFlight(p, "oi") = {} => tb.oi[p] = reg[p].oi

(* The same for the rates, which both processes overwrite: unless the pair  *)
(* indexer wrote a rate that an applied event had replaced already, the     *)
(* last writer, present or in flight, is the contract's latest.             *)
RatesExact ==
  \A p \in Pair, k \in Rate : exact[p][k] =>
    IF InFlight(p, k) = {} THEN FeesOf(p).rate[k] = reg[p].rate[k]
    ELSE \E i \in InFlight(p, k) :
           feed[i].val = reg[p].rate[k] /\ \A j \in InFlight(p, k) : j <= i

(* The fee rows of the table and of the keeper's copy                       *)
FeeRows(p) == {tb.fees[p], keeper.fees[p]} \ {NoRow}

(* A row of pair_fee_accumulators never runs ahead of the contract, however *)
(* old the ledger it was projected to and whatever happened to the pair     *)
(* since, so no reader charges a trade a rollover fee it does not owe; a    *)
(* row projected at the ledger of the opening or later never gives the      *)
(* trade a negative one.                                                    *)
FeesNeverAhead ==
  \A p \in Pair : \A row \in FeeRows(p) :
    /\ row.roll <= ContractAcc(p).roll
    /\ opened # NoRow /\ opened.pair = p /\ row.at >= opened.ledger =>
         RolloverFee(opened, row) >= 0

(* The fees and the threshold Detect computes with.                         *)
WatchedFees(en) ==
  LET fee == keeper.fees[en.trade.pair] IN
  IF fee = NoRow THEN 0 ELSE RolloverFee(en.trade, fee) + FundingFee(en.trade, fee)

WatchedThreshold(en) ==
  IF keeper.fees[en.trade.pair] = NoRow THEN DefaultThreshold ELSE en.thr

(* External: a liquidation the contract would accept.                       *)
ContractAccepts(t, x) == IsLiquidatable(x, ContractLiq(t), t.terms.long)

(* Stale accumulators make the keeper late, never early: with a threshold   *)
(* no lower than the contract's and no funding, every price at which Detect *)
(* orders a liquidation is one at which the contract accepts it (unless its *)
(* price is floored at zero, where it accepts none).                        *)
NeverEarly ==
  LET en == keeper.entry
      t == en.trade
  IN (/\ en # NoRow
      /\ WatchedThreshold(en) >= reg[t.pair].thr
      /\ Len(log[t.pair]["funding_rate"]) = 1
      /\ ContractLiq(t) # 0)
     => \A x \in 1 .. 2 * t.terms.open :
          IsLiquidatable(x, KeeperLiq(en), t.terms.long) => ContractAccepts(t, x)

(* External: at price x the trade has lost the threshold share of its       *)
(* collateral, by its value and not by a price computed in advance.         *)
LossReached(c, fees, thr, x) ==
  c.coll * c.lev * (IF c.long THEN c.open - x ELSE x - c.open) + fees * c.open
    >= Quo(c.coll * thr, 100) * c.open

(* The price Detect compares with is where the trade's loss reaches the     *)
(* threshold: never early by a whole unit, never late, and when it is       *)
(* floored at zero the trade cannot lose that much (a long), or its fees    *)
(* exceed its collateral (a short, which the keeper then never liquidates). *)
LiqIsLossThreshold ==
  LET en == keeper.entry IN
  en # NoRow =>
    LET t == en.trade
        fees == WatchedFees(en)
        thr == WatchedThreshold(en)
        liq == KeeperLiq(en)
        Nearer(x) == IF t.terms.long THEN x - 1 ELSE x + 1
    IN \A x \in 1 .. 2 * t.terms.open :
         /\ IsLiquidatable(x, liq, t.terms.long) => LossReached(t.terms, fees, thr, Nearer(x))
         /\ LossReached(t.terms, fees, thr, x) =>
              \/ IsLiquidatable(x, liq, t.terms.long)
              \/ liq = 0 /\ ~t.terms.long /\ fees >= t.terms.coll

(* A pass without a failed call, an event to apply or a contract operation  *)
(* meanwhile leaves the four tables equal to the contract's state at the    *)
(* ledger the pass started at, and REST and gateway compute the contract's  *)
(* liquidation price of that ledger.  A keeper that is running then is not  *)
(* covered: it keeps threshold 90 for trades it heard of (state.go:225).    *)
CleanPassHeals ==
  job.step = "end" /\ job.ops = ops =>
    /\ \A p \in Pair :
         LET r == reg[p]
             v == View(r, job.at)
         IN /\ tb.pairs[p] = [thr |-> r.thr, depth |-> 1]
            /\ tb.oi[p] = r.oi
            /\ tb.fees[p] = [roll |-> v.roll, long |-> v.long, short |-> v.short,
                             at |-> job.at, rate |-> r.rate]
            /\ GroupOf[p] \in tb.groups
    /\ opened # NoRow =>
         LET liq == CurrentLiq(opened, View(reg[opened.pair], job.at), reg[opened.pair].thr)
         IN RestLiq(opened) = liq /\ WsLiq(opened) = liq

(* The order of the steps of a pass                                         *)
StepNo == [s \in Calls \cup {"upsert_pair", "write_fees", "write_oi", "upsert_group"} |->
  CASE s = "get_pair" -> 1 [] s = "get_depth" -> 2 [] s = "upsert_pair" -> 3
    [] s = "get_acc_rollover" -> 4 [] s = "get_acc_funding" -> 5 [] s = "get_oi" -> 6
    [] s = "pending_acc_rollover_view" -> 7 [] s = "pending_acc_funding_view" -> 8
    [] s = "write_fees" -> 9 [] s = "write_oi" -> 10 [] s = "get_group" -> 11
    [] s = "upsert_group" -> 12]

Before(a, b) ==
  \/ b.step \in {"end", "idle"}
  \/ a.pair < b.pair
  \/ a.pair = b.pair /\ StepNo[a.step] < StepNo[b.step]
  \/ a.pair = b.pair /\ a.step = b.step /\ a.attempt < b.attempt

(* Every step of a pass is a later one than the last (by pair, by call or   *)
(* statement, by attempt, of which there are at most maxAttempts), so that  *)
(* a pass ends whatever the calls answer.                                   *)
PassAdvances ==
  [][job.step \notin {"idle", "end"} /\ job' # job =>
       Before(job, job') /\ (job'.step \in Calls => job'.attempt <= maxAttempts)]_vars
=============================================================================
