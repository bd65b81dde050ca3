------------------------------- MODULE Ledger -------------------------------
(***************************************************************************)
(* The events of the three contracts as the backend sees them, and the     *)
(* contracts and the Soroban RPC node as the source of those events.       *)
(*                                                                         *)
(* The contracts and the RPC node are not part of this repository: they    *)
(* are modelled from how the code uses them (internal/events/decode.go for *)
(* the events, cmd/indexer/main.go for getEvents and its retention window).*)
(***************************************************************************)
EXTENDS Integers, Sequences, FiniteSets

CONSTANTS
  Key,        \* what rows are keyed by: a (trader, pair, index), a holder, a pair
  Slot,       \* those that trades and orders, open interest and rates have here
  Holder,     \* those that hold vault shares here
  PairZero,   \* the slot of the same trader and index in pair 0
  Terms,      \* side, take-profit and stop-loss of a trade or an order
  Prices,     \* close prices, limit prices, share counts, OI amounts, rates
  Topics,     \* the contract operations that happen in this model
  OldTopics,  \* those that also occur in the old format, without payload
  MaxEvents,  \* bound on the length of the event log
  MaxLedgers, \* bound on the number of closed ledgers
  Window      \* number of ledgers the RPC node retains

AllTopics == {"opened", "updated_tp_sl", "closed", "tp_sl_executed", "liq",
              "placed", "updated_limit", "executed", "canceled",
              "deposit", "withdraw", "transfer", "burn", "oi_add", "oi_sub",
              "rollover_rate", "funding_rate", "settle", "undecodable"}

ASSUME LedgerAssumption ==
  /\ Slot \subseteq Key /\ Holder \subseteq Key
  /\ PairZero \in [Key -> Key]
  /\ Terms \subseteq [long: BOOLEAN, tp: Nat, sl: Nat] /\ Terms # {}
  /\ Prices \subseteq Nat /\ Prices # {}
  /\ Topics \subseteq AllTopics
  /\ OldTopics \subseteq AllTopics
  /\ MaxEvents \in Nat
  /\ MaxLedgers \in Nat
  /\ Window \in Nat \ {0}

VARIABLES
  log,    \* every event emitted so far; ledger latest + 1 is still open
  latest, \* the last closed ledger
  chain   \* the contracts' own state, the reference for the projections

ledgerVars == <<log, latest, chain>>

-----------------------------------------------------------------------------
(* An event: topic, slot, transaction, ledger and payload.  Decode files it *)
(* under `key'; `slot' is the slot the contract changed or, for deposit and *)
(* transfer, the receiver in topics[2], which Decode leaves unread.  `full' *)
(* is FALSE for the old format, whose data was the bare index.              *)
TermsType == [long: BOOLEAN, tp: Nat, sl: Nat]
Event == [topic: AllTopics, key: Key, slot: Key, tx: Nat, ledger: Nat,
          full: BOOLEAN, terms: TermsType, px: Nat]

NoRow == [none |-> TRUE]
TradeRow == [terms: TermsType, tx: Nat]
LimitRow == [terms: TermsType, px: Nat, tx: Nat]
TradeTable == [Key -> TradeRow \cup {NoRow}]
LimitTable == [Key -> LimitRow \cup {NoRow}]
Settled == [key: Key, terms: TermsType, openTx: Nat,
            reason: {"manual", "tp", "sl", "liquidation"}, closeTx: Nat]
Resolution == [key: Key, row: LimitRow, how: {"executed", "canceled"}, tx: Nat]
Rate == {"rollover_rate", "funding_rate"}

(* Stand-ins for payload fields that no handler of the topic reads.         *)
AnyTerms == CHOOSE t \in Terms : TRUE
AnyPrice == CHOOSE px \in Prices : TRUE
Side(long) == [AnyTerms EXCEPT !.long = long]

(* What closes an open trade, and the reason the contract has for it.       *)
HitsTp(t, px) == t.tp > 0 /\ IF t.long THEN px >= t.tp ELSE px <= t.tp
HitsSl(t, px) == t.sl > 0 /\ IF t.long THEN px <= t.sl ELSE px >= t.sl

WithTpSl(terms, t) == [terms EXCEPT !.tp = t.tp, !.sl = t.sl]

Repriced(row, t, px) == [row EXCEPT !.terms = WithTpSl(@, t), !.px = px]

(* The oldest ledger getHealth reports and getEvents still serves.          *)
Oldest == IF latest < Window THEN 1 ELSE latest - Window + 1

NextTx == IF log = <<>> THEN 1 ELSE log[Len(log)].tx + 1

Emit(evs) ==
  /\ Len(log) + Len(evs) <= MaxEvents
  /\ latest < MaxLedgers
  /\ log' = log \o evs
  /\ UNCHANGED latest

EvAt(topic, k, j, full, t, px) ==
  [topic |-> topic, key |-> k, slot |-> j, tx |-> NextTx, ledger |-> latest + 1,
   full |-> full, terms |-> t, px |-> px]
Ev(topic, k, full, t, px) == EvAt(topic, k, k, full, t, px)

(* Does the operation happen in this model, in the new or the old format?   *)
Happens(topic, full) == topic \in Topics /\ (full \/ topic \in OldTopics)

-----------------------------------------------------------------------------
OpenTrade(k, t) ==
  /\ "opened" \in Topics /\ chain.trades[k] = NoRow
  /\ Emit(<<Ev("opened", k, TRUE, t, AnyPrice)>>)
  /\ chain' = [chain EXCEPT !.trades[k] = [terms |-> t, tx |-> NextTx]]

UpdateTpSl(k, f, t) ==
  /\ Happens("updated_tp_sl", f) /\ chain.trades[k] # NoRow
  /\ Emit(<<Ev("updated_tp_sl", k, f, t, AnyPrice)>>)
  /\ chain' = [chain EXCEPT !.trades[k].terms = WithTpSl(@, t)]

(* A close by the trader, by the take-profit or stop-loss that px hits, or  *)
(* by liquidation.  An old close may carry no pair in topics[2], which the  *)
(* consumers read as pair 0.                                                *)
CloseTrade(topic, reason, k, j, f, px) ==
  /\ Happens(topic, f) /\ chain.trades[k] # NoRow
  /\ j = k \/ (~f /\ j = PairZero[k])
  /\ reason = "tp" => HitsTp(chain.trades[k].terms, px)
  /\ reason = "sl" => HitsSl(chain.trades[k].terms, px)
  /\ Emit(<<EvAt(topic, j, k, f, AnyTerms, px)>>)
  /\ chain' = [chain EXCEPT
       !.trades[k] = NoRow,
       !.settled = @ \cup {[key |-> k, terms |-> chain.trades[k].terms,
                            openTx |-> chain.trades[k].tx, reason |-> reason,
                            closeTx |-> NextTx]}]

PlaceLimit(k, f, t, px) ==
  /\ Happens("placed", f) /\ chain.limits[k] = NoRow
  /\ Emit(<<Ev("placed", k, f, t, px)>>)
  /\ chain' = [chain EXCEPT
       !.limits[k] = [terms |-> t, px |-> px, tx |-> NextTx]]

UpdateLimit(k, f, t, px) ==
  /\ Happens("updated_limit", f) /\ chain.limits[k] # NoRow
  /\ Emit(<<Ev("updated_limit", k, f, t, px)>>)
  /\ chain' = [chain EXCEPT !.limits[k] = Repriced(@, t, px)]

Resolve(k, how) == [key |-> k, row |-> chain.limits[k], how |-> how, tx |-> NextTx]

CancelLimit(k) ==
  /\ "canceled" \in Topics /\ chain.limits[k] # NoRow
  /\ Emit(<<Ev("canceled", k, TRUE, AnyTerms, AnyPrice)>>)
  /\ chain' = [chain EXCEPT !.limits[k] = NoRow,
                            !.resolved = Append(@, Resolve(k, "canceled"))]

(* Executing an order consumes it and opens a position in the same          *)
(* transaction, as two events.                                              *)
ExecuteLimit(k, j) ==
  /\ "executed" \in Topics /\ chain.limits[k] # NoRow /\ chain.trades[j] = NoRow
  /\ Emit(<<Ev("executed", k, TRUE, AnyTerms, AnyPrice),
            Ev("opened", j, TRUE, chain.limits[k].terms, AnyPrice)>>)
  /\ chain' = [chain EXCEPT
       !.limits[k] = NoRow,
       !.trades[j] = [terms |-> chain.limits[k].terms, tx |-> NextTx],
       !.resolved = Append(@, Resolve(k, "executed"))]

(* k pays and j receives the shares; Decode keeps k.                        *)
Deposit(k, j, px) ==
  /\ "deposit" \in Topics
  /\ Emit(<<EvAt("deposit", k, j, TRUE, AnyTerms, px)>>)
  /\ chain' = [chain EXCEPT !.shares[j] = @ + px]

Withdraw(k, px) ==
  /\ "withdraw" \in Topics /\ px <= chain.shares[k]
  /\ Emit(<<Ev("withdraw", k, TRUE, AnyTerms, px)>>)
  /\ chain' = [chain EXCEPT !.shares[k] = @ - px]

(* Shares are a SEP-41 token: they change hands and are burnt outside the   *)
(* vault's own operations.  The backend records both and projects neither.  *)
Transfer(k, j, px) ==
  /\ "transfer" \in Topics /\ px <= chain.shares[k]
  /\ Emit(<<EvAt("transfer", k, j, TRUE, AnyTerms, px)>>)
  /\ chain' = [chain EXCEPT !.shares[k] = @ - px, !.shares[j] = @ + px]

Burn(k, px) ==
  /\ "burn" \in Topics /\ px <= chain.shares[k]
  /\ Emit(<<Ev("burn", k, TRUE, AnyTerms, px)>>)
  /\ chain' = [chain EXCEPT !.shares[k] = @ - px]

AddOI(k, long, px) ==
  /\ "oi_add" \in Topics
  /\ Emit(<<Ev("oi_add", k, TRUE, Side(long), px)>>)
  /\ chain' = [chain EXCEPT !.oi[k][long] = @ + px]

SubOI(k, long, px) ==
  /\ "oi_sub" \in Topics /\ px <= chain.oi[k][long]
  /\ Emit(<<Ev("oi_sub", k, TRUE, Side(long), px)>>)
  /\ chain' = [chain EXCEPT !.oi[k][long] = @ - px]

SetRate(topic, k, px) ==
  /\ topic \in Topics
  /\ Emit(<<Ev(topic, k, TRUE, AnyTerms, px)>>)
  /\ chain' = [chain EXCEPT !.rates[k][topic] = px]

(* Events the backend records without projecting them (settle and the like) *)
(* and events it cannot decode.                                             *)
OtherEvent(topic, k) ==
  /\ topic \in Topics
  /\ Emit(<<Ev(topic, k, TRUE, AnyTerms, AnyPrice)>>)
  /\ UNCHANGED chain

(* The open ledger closes and its events become visible to getEvents.       *)
CloseLedger ==
  /\ latest < MaxLedgers
  /\ latest' = latest + 1
  /\ UNCHANGED <<log, chain>>

LedgerInit ==
  /\ log = <<>>
  /\ latest = 1
  /\ chain = [trades   |-> [k \in Key |-> NoRow],
              settled  |-> {},
              limits   |-> [k \in Key |-> NoRow],
              resolved |-> <<>>,
              shares   |-> [k \in Key |-> 0],
              oi       |-> [k \in Key |-> [long \in BOOLEAN |-> 0]],
              rates    |-> [k \in Key |->
                             [r \in Rate |-> 0]]]

LedgerTypeOK ==
  /\ log \in Seq(Event) /\ Len(log) <= MaxEvents
  /\ latest \in Nat \ {0}
  /\ chain \in [trades: TradeTable, settled: SUBSET Settled,
                limits: LimitTable, resolved: Seq(Resolution),
                shares: [Key -> Nat], oi: [Key -> [BOOLEAN -> Nat]],
                rates: [Key -> [Rate -> Nat]]]

TradesAndOrders ==
  \E k \in Slot :
    \/ \E t \in Terms : OpenTrade(k, t)
    \/ \E f \in BOOLEAN, t \in Terms : UpdateTpSl(k, f, t)
    \/ \E j \in Key, f \in BOOLEAN, px \in Prices :
         \/ CloseTrade("closed", "manual", k, j, f, px)
         \/ CloseTrade("tp_sl_executed", "tp", k, j, f, px)
         \/ CloseTrade("tp_sl_executed", "sl", k, j, f, px)
         \/ CloseTrade("liq", "liquidation", k, j, f, px)
    \/ \E f \in BOOLEAN, t \in Terms, px \in Prices :
         \/ PlaceLimit(k, f, t, px)
         \/ UpdateLimit(k, f, t, px)
    \/ CancelLimit(k)
    \/ \E j \in Slot : ExecuteLimit(k, j)
    \/ \E px \in Prices :
         \/ \E t \in Terms : AddOI(k, t.long, px) \/ SubOI(k, t.long, px)
         \/ \E r \in Rate : SetRate(r, k, px)
    \/ \E topic \in {"settle", "undecodable"} : OtherEvent(topic, k)

Shares ==
  \E k \in Holder, px \in Prices :
    \/ \E j \in Holder : Deposit(k, j, px) \/ Transfer(k, j, px)
    \/ Withdraw(k, px)
    \/ Burn(k, px)

Contracts == TradesAndOrders \/ Shares

=============================================================================
