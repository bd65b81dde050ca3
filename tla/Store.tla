-------------------------------- MODULE Store -------------------------------
(***************************************************************************)
(* internal/store/store.go: the database tables as one record, and         *)
(* Repo.Apply as a function from tables to tables.  Apply runs in a single *)
(* SQL transaction, so it is one atomic step for whoever calls it.         *)
(***************************************************************************)
EXTENDS Ledger

CONSTANT FloatExact  \* integers a float64 holds exactly (2^53 in the code)

ASSUME StoreAssumption == FloatExact \in Nat \ {0}

(* The empty tables, after the migrations.  A missing vault_positions,      *)
(* pair_oi or pair_fee_accumulators row reads as zeros everywhere.          *)
EmptyDB ==
  [trades    |-> [k \in Key |-> NoRow],
   history   |-> {},
   limits    |-> [k \in Key |-> NoRow],
   limitHist |-> <<>>,
   vault     |-> [k \in Key |-> [shares |-> 0, deposited |-> 0, withdrawn |-> 0]],
   oi        |-> [k \in Key |-> [long \in BOOLEAN |-> 0]],
   rates     |-> [k \in Key |-> [r \in Rate |-> 0]],
   audit     |-> {}]

DBType ==
  [trades: TradeTable, history: SUBSET Settled,
   limits: LimitTable, limitHist: Seq(Resolution),
   vault: [Key -> [shares: Int, deposited: Nat, withdrawn: Nat]],
   oi: [Key -> [BOOLEAN -> Nat]], rates: [Key -> [Rate -> Nat]],
   audit: SUBSET [tx: Nat, idx: Nat, ev: Event]]

-----------------------------------------------------------------------------
(* Mutant: the audit log is keyed by transaction.                           *)
InsertAudit_ByTx(db, e, idx) ==
  IF \E a \in db.audit : a.tx = e.tx THEN db
  ELSE [db EXCEPT !.audit = @ \cup {[tx |-> e.tx, idx |-> idx, ev |-> e]}]

(* trade_events: PRIMARY KEY (tx_hash, event_index), ON CONFLICT DO NOTHING.*)
InsertAudit(db, e, idx) ==
  IF \E a \in db.audit : a.tx = e.tx /\ a.idx = idx
  THEN db
  ELSE [db EXCEPT !.audit = @ \cup {[tx |-> e.tx, idx |-> idx, ev |-> e]}]

(* "opened": upsert; a conflicting row keeps its opened_at and opened_tx.   *)
UpsertTrade(db, e) ==
  [db EXCEPT !.trades[e.key] =
     [terms |-> e.terms, tx |-> IF @ = NoRow THEN e.tx ELSE @.tx]]

UpdateTrade(db, e) ==
  IF db.trades[e.key] = NoRow \/ ~e.full THEN db
  ELSE [db EXCEPT !.trades[e.key].terms = WithTpSl(@, e.terms)]

(* Mutants of closeTrade: a redelivered close is ignored altogether; the    *)
(* history insert has no unique key.                                        *)
closeTrade_SkipsKnown(db, e, reason) ==
  IF db.trades[e.key] = NoRow
     \/ \E h \in db.history : h.key = e.key /\ h.closeTx = e.tx
  THEN db
  ELSE [db EXCEPT
    !.trades[e.key] = NoRow,
    !.history = @ \cup {[key |-> e.key, terms |-> db.trades[e.key].terms,
                         openTx |-> db.trades[e.key].tx, reason |-> reason,
                         closeTx |-> e.tx]}]

closeTrade_NoUnique(db, e, reason) ==
  IF db.trades[e.key] = NoRow THEN db
  ELSE [db EXCEPT
    !.trades[e.key] = NoRow,
    !.history = @ \cup {[key |-> e.key, terms |-> db.trades[e.key].terms,
                         openTx |-> db.trades[e.key].tx, reason |-> reason,
                         closeTx |-> e.tx]}]

(* DELETE ... RETURNING into trade_history, unique on                       *)
(* (trader, pair_index, trade_index, closed_tx).                            *)
closeTrade(db, e, reason) ==
  IF db.trades[e.key] = NoRow THEN db
  ELSE [db EXCEPT
    !.trades[e.key] = NoRow,
    !.history =
      IF \E h \in @ : h.key = e.key /\ h.closeTx = e.tx THEN @
      ELSE @ \cup {[key |-> e.key, terms |-> db.trades[e.key].terms,
                    openTx |-> db.trades[e.key].tx, reason |-> reason,
                    closeTx |-> e.tx]}]

(* A number with a mantissa of so many values: the nearest multiple of the  *)
(* gap between neighbours of its size, the even one of two.                 *)
Gap(n, exact) ==
  2 ^ (CHOOSE i \in 0 .. n : /\ n <= exact * 2 ^ i
                             /\ i > 0 => n > exact * 2 ^ (i - 1))
Rounded(n, exact) ==
  LET gap  == Gap(n, exact)
      rest == n % gap
  IN IF 2 * rest < gap \/ (2 * rest = gap /\ (n \div gap) % 2 = 0)
     THEN n - rest ELSE n - rest + gap

(* The row is scanned into float64, of 53 bits; the event's price becomes a *)
(* big.Float, of 64.                                                        *)
Float64(n)  == Rounded(n, FloatExact)
BigFloat(n) == Rounded(n, FloatExact * 2 ^ 11)
Scanned(t)  == [t EXCEPT !.tp = Float64(@), !.sl = Float64(@)]

(* What closeTradeUnknownReason compares.                                   *)
ScanHitsSl(t, px) == HitsSl(Scanned(t), BigFloat(px))

(* Which side a tp_sl_executed event closed: by the close price when the    *)
(* event carries one, by "is a take-profit set" for the old format.         *)
closeReason(row, e) ==
  IF row # NoRow /\ e.full
  THEN IF ScanHitsSl(row.terms, e.px) THEN "sl" ELSE "tp"
  ELSE IF row = NoRow \/ Float64(row.terms.tp) = 0 THEN "sl" ELSE "tp"

closeTradeUnknownReason(db, e) ==
  closeTrade(db, e, closeReason(db.trades[e.key], e))

UpsertLimit(db, e) ==
  IF ~e.full THEN db
  ELSE [db EXCEPT !.limits[e.key] =
          [terms |-> e.terms, px |-> e.px,
           tx |-> IF @ = NoRow THEN e.tx ELSE @.tx]]

UpdateLimitRow(db, e) ==
  IF db.limits[e.key] = NoRow \/ ~e.full THEN db
  ELSE [db EXCEPT !.limits[e.key] = Repriced(@, e.terms, e.px)]

(* DELETE ... RETURNING into limit_order_history, which has no unique key.  *)
resolveLimit(db, e, how) ==
  IF db.limits[e.key] = NoRow THEN db
  ELSE [db EXCEPT
    !.limits[e.key] = NoRow,
    !.limitHist = Append(@, [key |-> e.key, row |-> db.limits[e.key],
                             how |-> how, tx |-> e.tx])]

applyPM(db, e) ==
  CASE e.topic = "opened"         -> UpsertTrade(db, e)
    [] e.topic = "updated_tp_sl"  -> UpdateTrade(db, e)
    [] e.topic = "closed"         -> closeTrade(db, e, "manual")
    [] e.topic = "tp_sl_executed" -> closeTradeUnknownReason(db, e)
    [] e.topic = "liq"            -> closeTrade(db, e, "liquidation")
    [] e.topic = "placed"         -> UpsertLimit(db, e)
    [] e.topic = "updated_limit"  -> UpdateLimitRow(db, e)
    [] e.topic = "executed"       -> resolveLimit(db, e, "executed")
    [] e.topic = "canceled"       -> resolveLimit(db, e, "canceled")
    [] OTHER                      -> db

(* vault_positions: shares and totals are added to what the row holds.      *)
applyVault(db, e) ==
  CASE e.topic = "deposit"  -> [db EXCEPT !.vault[e.key].shares = @ + e.px,
                                          !.vault[e.key].deposited = @ + e.px]
    [] e.topic = "withdraw" -> [db EXCEPT !.vault[e.key].shares = @ - e.px,
                                          !.vault[e.key].withdrawn = @ + e.px]
    [] OTHER                -> db

(* GREATEST(..., 0) on the OI columns; the mutant drops it.                 *)
GreatestZero_Dropped(n) == n

GreatestZero(n) == IF n < 0 THEN 0 ELSE n

applyRegistry(db, e) ==
  CASE e.topic = "oi_add" -> [db EXCEPT !.oi[e.key][e.terms.long] = @ + e.px]
    [] e.topic = "oi_sub" ->
         [db EXCEPT !.oi[e.key][e.terms.long] = GreatestZero(@ - e.px)]
    [] e.topic \in Rate ->
         [db EXCEPT !.rates[e.key][e.topic] = e.px]
    [] OTHER -> db

(* Repo.Apply: the audit row, then the projection, in one transaction.  The *)
(* projection runs whether or not the audit row was new.                    *)
Apply(db, e, idx) == applyRegistry(applyVault(applyPM(InsertAudit(db, e, idx), e), e), e)

=============================================================================
