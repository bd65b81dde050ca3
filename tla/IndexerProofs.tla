---------------------------- MODULE IndexerProofs ---------------------------
(***************************************************************************)
(* Proofs about the indexer for every value of the constants.              *)
(***************************************************************************)
EXTENDS Indexer, SequenceTheorems, TLAPS

(* What the contracts may do to the log: append events of the open ledger.  *)
Appends(evs) ==
  /\ evs \in Seq(Event)
  /\ \A i \in 1 .. Len(evs) : evs[i].ledger = latest + 1
  /\ log' = log \o evs
  /\ Len(log) + Len(evs) <= MaxEvents

(* Event records are well typed (internal/events/decode.go Event).          *)
LEMMA EvType ==
  ASSUME LedgerTypeOK, NEW topic \in AllTopics, NEW k \in Key, NEW j \in Key,
         NEW f \in BOOLEAN, NEW t \in TermsType, NEW px \in Nat
  PROVE  /\ EvAt(topic, k, j, f, t, px) \in Event
         /\ EvAt(topic, k, j, f, t, px).ledger = latest + 1
         /\ NextTx \in Nat
<1>1. NextTx \in Nat
  <2>1. CASE log = <<>>
    BY <2>1 DEF NextTx
  <2>2. CASE log # <<>>
    <3>1. Len(log) \in 1 .. Len(log) /\ log[Len(log)] \in Event
      BY <2>2 DEF LedgerTypeOK
    <3>2. log[Len(log)].tx \in Nat
      BY <3>1 DEF Event
    <3> QED BY <2>2, <3>2 DEF NextTx
  <2> QED BY <2>1, <2>2
<1>2. latest + 1 \in Nat
  BY DEF LedgerTypeOK
<1> QED BY <1>1, <1>2 DEF EvAt, Event

(* The constants, and the stand-ins drawn from them, have their types.      *)
LEMMA ConstTypes ==
  /\ Terms \subseteq TermsType /\ Prices \subseteq Nat
  /\ AnyTerms \in TermsType /\ AnyPrice \in Nat
  /\ \A long \in BOOLEAN : Side(long) \in TermsType /\ Side(long).long = long
  /\ Slot \subseteq Key /\ Holder \subseteq Key
<1>1. Terms \subseteq TermsType /\ AnyTerms \in TermsType
  BY LedgerAssumption DEF TermsType, AnyTerms
<1>2. \A long \in BOOLEAN : Side(long) \in TermsType /\ Side(long).long = long
  BY <1>1 DEF Side, TermsType
<1> QED BY <1>1, <1>2, LedgerAssumption DEF AnyPrice

(* Emitting one event appends it to the log.                                *)
LEMMA EmitOne ==
  ASSUME LedgerTypeOK, NEW e \in Event, e.ledger = latest + 1, Emit(<<e>>)
  PROVE  Appends(<<e>>) /\ latest' = latest
  BY DEF Emit, Appends

(* Emitting the two events of an executed order appends both.               *)
LEMMA EmitTwo ==
  ASSUME LedgerTypeOK, NEW e \in Event, NEW d \in Event,
         e.ledger = latest + 1, d.ledger = latest + 1, Emit(<<e, d>>)
  PROVE  Appends(<<e, d>>) /\ latest' = latest
  BY DEF Emit, Appends

(* Appending well-formed events keeps the log well formed and bounded.      *)
LEMMA AppendsType ==
  ASSUME LedgerTypeOK, NEW evs, Appends(evs)
  PROVE  log' \in Seq(Event) /\ Len(log)' <= MaxEvents
  BY ConcatProperties DEF LedgerTypeOK, Appends

(* The type of the contracts' state, and every operation keeps it.          *)
ChainType ==
  [trades: TradeTable, settled: SUBSET Settled,
   limits: LimitTable, resolved: Seq(Resolution),
   shares: [Key -> Nat], oi: [Key -> [BOOLEAN -> Nat]],
   rates: [Key -> [Rate -> Nat]]]

(* New take-profit and stop-loss values leave terms well formed.            *)
LEMMA WithTpSlType ==
  ASSUME NEW s \in TermsType, NEW t \in TermsType
  PROVE  WithTpSl(s, t) \in TermsType
  BY DEF WithTpSl, TermsType

(* A repriced order is an order row.                                        *)
LEMMA RepricedType ==
  ASSUME NEW row \in LimitRow, NEW t \in TermsType, NEW px \in Nat
  PROVE  Repriced(row, t, px) \in LimitRow
<1>1. WithTpSl(row.terms, t) \in TermsType
  BY WithTpSlType DEF LimitRow
<1> QED BY <1>1 DEF Repriced, LimitRow

(* A slot that is not empty holds a row, which an EXCEPT may replace.       *)
LEMMA RowTypes ==
  ASSUME NEW trades \in TradeTable, NEW limits \in LimitTable, NEW k \in Key
  PROVE  /\ trades[k] # NoRow => trades[k] \in TradeRow
         /\ limits[k] # NoRow => limits[k] \in LimitRow
  BY DEF TradeTable, LimitTable

(* A row update keeps the table's type.                                     *)
LEMMA TableUpdate ==
  ASSUME NEW trades \in TradeTable, NEW limits \in LimitTable, NEW k \in Key,
         NEW r \in TradeRow \cup {NoRow}, NEW l \in LimitRow \cup {NoRow}
  PROVE  /\ [trades EXCEPT ![k] = r] \in TradeTable
         /\ [limits EXCEPT ![k] = l] \in LimitTable
  BY DEF TradeTable, LimitTable

(* What a contract operation does to the chain state and to the log.        *)
LEMMA ContractsStep ==
  ASSUME LedgerTypeOK, Contracts
  PROVE  /\ chain' \in ChainType
         /\ latest' = latest
         /\ \E evs : Appends(evs)
<1> DEFINE Goal == /\ chain' \in ChainType
                  /\ latest' = latest
                  /\ \E evs : Appends(evs)
<1> USE ConstTypes
<1>0. chain \in ChainType
  BY DEF LedgerTypeOK, ChainType
<1>tx. ASSUME NEW k \in Key PROVE NextTx \in Nat
  BY <1>tx, EvType, ConstTypes DEF AllTopics
<1>a. ASSUME NEW topic \in AllTopics, NEW k \in Key, NEW j \in Key, NEW f \in BOOLEAN,
             NEW t \in TermsType, NEW px \in Nat,
             Emit(<<EvAt(topic, k, j, f, t, px)>>)
      PROVE  latest' = latest /\ \E evs : Appends(evs)
  BY <1>a, EvType, EmitOne
<1>e. ASSUME NEW topic \in AllTopics, NEW k \in Key, NEW f \in BOOLEAN,
             NEW t \in TermsType, NEW px \in Nat,
             Emit(<<Ev(topic, k, f, t, px)>>)
      PROVE  latest' = latest /\ \E evs : Appends(evs)
  BY <1>a, <1>e DEF Ev
<1>c. PICK k \in Key :
        \/ \E t \in Terms : OpenTrade(k, t)
        \/ \E f \in BOOLEAN, t \in Terms : UpdateTpSl(k, f, t)
        \/ \E j \in Key, f \in BOOLEAN, px \in Prices :
             \/ CloseTrade("closed", "manual", k, j, f, px)
             \/ CloseTrade("tp_sl_executed", "tp", k, j, f, px)
             \/ CloseTrade("tp_sl_executed", "sl", k, j, f, px)
             \/ CloseTrade("liq", "liquidation", k, j, f, px)
        \/ \E f \in BOOLEAN, t \in Terms, px \in Prices :
             \/ PlaceLimit(k, f, t, px)
             \/ UpdateLimit(k, f, t, px)
        \/ CancelLimit(k)
        \/ \E j \in Key : ExecuteLimit(k, j)
        \/ \E j \in Key, px \in Prices : Deposit(k, j, px) \/ Transfer(k, j, px)
        \/ \E px \in Prices :
             \/ Withdraw(k, px) \/ Burn(k, px)
             \/ \E t \in Terms : AddOI(k, t.long, px) \/ SubOI(k, t.long, px)
             \/ \E r \in Rate : SetRate(r, k, px)
        \/ \E topic \in {"settle", "undecodable"} : OtherEvent(topic, k)
  <2>1. CASE TradesAndOrders
    <3>1. PICK k \in Slot : TradesAndOrders!(k)
      BY <2>1 DEF TradesAndOrders
    <3> QED BY <3>1, Zenon
  <2>2. CASE Shares
    <3>1. PICK k \in Holder, px \in Prices : Shares!(k, px)
      BY <2>2 DEF Shares
    <3> QED BY <3>1, Zenon
  <2> QED BY <2>1, <2>2 DEF Contracts
<1>1. ASSUME NEW t \in Terms, OpenTrade(k, t) PROVE Goal
  <2>1. [terms |-> t, tx |-> NextTx] \in TradeRow
    BY <1>tx DEF TradeRow
  <2>2. chain' \in ChainType
    BY <1>0, <1>1, <2>1 DEF OpenTrade, ChainType, TradeTable
  <2> QED BY <1>1, <1>e, <2>2 DEF OpenTrade, AllTopics
<1>2. ASSUME NEW f \in BOOLEAN, NEW t \in Terms, UpdateTpSl(k, f, t) PROVE Goal
  <2>1. chain.trades[k] \in TradeRow
    BY <1>2, <1>0, RowTypes DEF UpdateTpSl, ChainType
  <2>2. WithTpSl(chain.trades[k].terms, t) \in TermsType
    BY <2>1, WithTpSlType DEF TradeRow
  <2>3. [chain.trades[k] EXCEPT !.terms = WithTpSl(@, t)] \in TradeRow
    BY <2>1, <2>2 DEF TradeRow
  <2>4. [chain.trades EXCEPT ![k].terms = WithTpSl(@, t)] \in TradeTable
    BY <2>3, <1>0 DEF ChainType, TradeTable
  <2>5. chain' \in ChainType
    BY <1>2, <1>0, <2>4 DEF UpdateTpSl, ChainType
  <2> QED BY <1>2, <1>e, <2>5 DEF UpdateTpSl, AllTopics
<1>3. ASSUME NEW topic \in {"closed", "tp_sl_executed", "liq"},
             NEW reason \in {"manual", "tp", "sl", "liquidation"},
             NEW j \in Key, NEW f \in BOOLEAN, NEW px \in Prices,
             CloseTrade(topic, reason, k, j, f, px)
      PROVE Goal
  <2>1. [key |-> k, terms |-> chain.trades[k].terms, openTx |-> chain.trades[k].tx,
         reason |-> reason, closeTx |-> NextTx] \in Settled
    BY <1>3, <1>0, <1>tx, RowTypes DEF CloseTrade, TradeRow, Settled, ChainType
  <2>2. chain' \in ChainType
    BY <1>3, <1>0, <2>1 DEF CloseTrade, ChainType, TradeTable
  <2> QED BY <1>3, <1>a, <2>2 DEF CloseTrade, AllTopics
<1>4. ASSUME NEW f \in BOOLEAN, NEW t \in Terms, NEW px \in Prices,
             PlaceLimit(k, f, t, px)
      PROVE Goal
  <2>1. [terms |-> t, px |-> px, tx |-> NextTx] \in LimitRow
    BY <1>tx DEF LimitRow
  <2>2. chain' \in ChainType
    BY <1>4, <1>0, <2>1 DEF PlaceLimit, ChainType, LimitTable
  <2> QED BY <1>4, <1>e, <2>2 DEF PlaceLimit, AllTopics
<1>5. ASSUME NEW f \in BOOLEAN, NEW t \in Terms, NEW px \in Prices,
             UpdateLimit(k, f, t, px)
      PROVE Goal
  <2>1. chain.limits[k] \in LimitRow
    BY <1>5, <1>0, RowTypes DEF UpdateLimit, ChainType
  <2>2. Repriced(chain.limits[k], t, px) \in LimitRow
    BY <2>1, RepricedType
  <2>3. [chain.limits EXCEPT ![k] = Repriced(chain.limits[k], t, px)] \in LimitTable
    BY <2>2, <1>0 DEF ChainType, LimitTable
  <2>4. chain' \in ChainType
    BY <1>5, <1>0, <2>3 DEF UpdateLimit, ChainType
  <2> QED BY <1>5, <1>e, <2>4 DEF UpdateLimit, AllTopics
<1>6. ASSUME NEW how \in {"executed", "canceled"}, chain.limits[k] # NoRow
      PROVE  /\ Append(chain.resolved, Resolve(k, how)) \in Seq(Resolution)
             /\ [chain.limits EXCEPT ![k] = NoRow] \in LimitTable
  <2>1. chain.limits[k] \in LimitRow
    BY <1>6, <1>0, RowTypes DEF ChainType
  <2>2. Resolve(k, how) \in Resolution
    BY <1>6, <1>tx, <2>1 DEF Resolve, Resolution
  <2> QED BY <2>2, <1>0, AppendProperties DEF ChainType, LimitTable
<1>7. ASSUME CancelLimit(k) PROVE Goal
  <2>1. chain' \in ChainType
    BY <1>7, <1>0, <1>6 DEF CancelLimit, ChainType
  <2> QED BY <1>7, <1>e, <2>1 DEF CancelLimit, AllTopics
<1>8. ASSUME NEW j \in Key, ExecuteLimit(k, j) PROVE Goal
  <2>0. chain.limits[k] \in LimitRow /\ chain.limits[k].terms \in TermsType
    BY <1>8, <1>0, RowTypes DEF ExecuteLimit, LimitRow, ChainType
  <2>1. [terms |-> chain.limits[k].terms, tx |-> NextTx] \in TradeRow
    BY <2>0, <1>tx DEF TradeRow
  <2>2. [chain.trades EXCEPT ![j] = [terms |-> chain.limits[k].terms, tx |-> NextTx]]
           \in TradeTable
    BY <2>1, <1>0 DEF TradeTable, ChainType
  <2>3. chain' \in ChainType
    BY <1>8, <1>0, <1>6, <2>2 DEF ExecuteLimit, ChainType
  <2>a. "executed" \in AllTopics /\ "opened" \in AllTopics
    BY DEF AllTopics
  <2>4. /\ EvAt("executed", k, k, TRUE, AnyTerms, AnyPrice) \in Event
        /\ EvAt("executed", k, k, TRUE, AnyTerms, AnyPrice).ledger = latest + 1
    BY <2>a, EvType
  <2>5. PICK t \in TermsType : t = chain.limits[k].terms
    BY <2>0
  <2>6. /\ EvAt("opened", j, j, TRUE, t, AnyPrice) \in Event
        /\ EvAt("opened", j, j, TRUE, t, AnyPrice).ledger = latest + 1
    BY <2>a, EvType
  <2> QED BY <1>8, <2>3, <2>4, <2>5, <2>6, EmitTwo DEF ExecuteLimit, Ev
<1>9. ASSUME NEW j \in Key, NEW px \in Prices, Deposit(k, j, px) \/ Transfer(k, j, px)
      PROVE  Goal
  <2>1. chain.shares \in [Key -> Nat] /\ chain.shares[k] \in Nat /\ px \in Nat
    BY <1>0 DEF ChainType
  <2>2. CASE Deposit(k, j, px)
    <3>1. [chain.shares EXCEPT ![j] = @ + px] \in [Key -> Nat]
      BY <2>1
    <3>2. chain' \in ChainType
      BY <2>2, <3>1, <1>0 DEF Deposit, ChainType
    <3> QED BY <2>2, <3>2, <1>a DEF Deposit, AllTopics
  <2>3. CASE Transfer(k, j, px)
    <3>0. [chain.shares EXCEPT ![k] = @ - px] \in [Key -> Nat]
      BY <2>1, <2>3 DEF Transfer
    <3>1. [chain.shares EXCEPT ![k] = @ - px, ![j] = @ + px] \in [Key -> Nat]
      BY <2>1, <3>0
    <3>2. chain' \in ChainType
      BY <2>3, <3>1, <1>0 DEF Transfer, ChainType
    <3> QED BY <2>3, <3>2, <1>a DEF Transfer, AllTopics
  <2> QED BY <1>9, <2>2, <2>3
<1>13. ASSUME NEW px \in Prices, Withdraw(k, px) \/ Burn(k, px) PROVE Goal
  <2>1. chain.shares \in [Key -> Nat] /\ chain.shares[k] \in Nat /\ px <= chain.shares[k]
    BY <1>0, <1>13 DEF ChainType, Withdraw, Burn
  <2>2. [chain.shares EXCEPT ![k] = @ - px] \in [Key -> Nat]
    BY <2>1
  <2>3. chain' \in ChainType
    BY <1>13, <2>2, <1>0 DEF Withdraw, Burn, ChainType
  <2>4. latest' = latest /\ \E evs : Appends(evs)
    BY <1>13, <1>e DEF Withdraw, Burn, AllTopics
  <2> QED BY <2>3, <2>4
<1>10. ASSUME NEW t \in Terms, NEW px \in Prices, AddOI(k, t.long, px) \/ SubOI(k, t.long, px)
       PROVE Goal
  <2> DEFINE long == t.long
  <2>1. long \in BOOLEAN
    BY DEF TermsType
  <2>2. Side(long) \in TermsType
    BY <2>1
  <2> HIDE DEF long
  <2>3. /\ chain.oi \in [Key -> [BOOLEAN -> Nat]]
        /\ chain.oi[k] \in [BOOLEAN -> Nat] /\ chain.oi[k][long] \in Nat
    BY <1>0, <2>1 DEF ChainType
  <2>4. ASSUME NEW n \in Nat PROVE [chain.oi EXCEPT ![k][long] = n] \in [Key -> [BOOLEAN -> Nat]]
    BY <2>1, <2>3
  <2>5. CASE AddOI(k, long, px)
    <3>1. chain' = [chain EXCEPT !.oi[k][long] = chain.oi[k][long] + px]
      BY <2>5 DEF AddOI
    <3>2. chain.oi[k][long] + px \in Nat
      BY <2>3
    <3>3. chain' \in ChainType
      BY <2>4, <3>1, <3>2, <1>0 DEF ChainType
    <3> QED BY <2>2, <2>5, <3>3, <1>e DEF AddOI, AllTopics
  <2>6. CASE SubOI(k, long, px)
    <3>1. chain' = [chain EXCEPT !.oi[k][long] = chain.oi[k][long] - px]
      BY <2>6 DEF SubOI
    <3>2. chain.oi[k][long] - px \in Nat
      BY <2>6, <2>3 DEF SubOI
    <3>3. chain' \in ChainType
      BY <2>4, <3>1, <3>2, <1>0 DEF ChainType
    <3> QED BY <2>2, <2>6, <3>3, <1>e DEF SubOI, AllTopics
  <2> QED BY <1>10, <2>5, <2>6 DEF long
<1>11. ASSUME NEW r \in Rate, NEW px \in Prices, SetRate(r, k, px) PROVE Goal
  <2>1. chain' \in ChainType
    BY <1>11, <1>0 DEF SetRate, ChainType
  <2> QED BY <1>11, <1>e, <2>1 DEF SetRate, AllTopics, Rate
<1>12. ASSUME NEW topic \in {"settle", "undecodable"}, OtherEvent(topic, k) PROVE Goal
  BY <1>12, <1>0, <1>e DEF OtherEvent, AllTopics
<1> QED BY <1>c, <1>1, <1>2, <1>3, <1>4, <1>5, <1>7, <1>8, <1>9, <1>10, <1>11, <1>12, <1>13

-----------------------------------------------------------------------------
(* Repo.Apply keeps the tables well typed, projection by projection.        *)
LEMMA EventFields ==
  ASSUME NEW e \in Event
  PROVE  /\ e.key \in Key /\ e.tx \in Nat /\ e.terms \in TermsType /\ e.px \in Nat
         /\ e.terms.long \in BOOLEAN
  BY DEF Event, TermsType

(* The audit insert keeps the tables well typed.                            *)
LEMMA InsertAuditType ==
  ASSUME NEW d \in DBType, NEW e \in Event, NEW idx \in Nat
  PROVE  InsertAudit(d, e, idx) \in DBType
<1>1. [tx |-> e.tx, idx |-> idx, ev |-> e] \in [tx: Nat, idx: Nat, ev: Event]
  BY EventFields
<1>2. d.audit \cup {[tx |-> e.tx, idx |-> idx, ev |-> e]} \in
         SUBSET [tx: Nat, idx: Nat, ev: Event]
  BY <1>1 DEF DBType
<1> QED BY <1>2 DEF InsertAudit, DBType

(* "opened" keeps the tables well typed.                                    *)
LEMMA UpsertTradeType ==
  ASSUME NEW d \in DBType, NEW e \in Event
  PROVE  UpsertTrade(d, e) \in DBType
<1> DEFINE r == [terms |-> e.terms,
                 tx |-> IF d.trades[e.key] = NoRow THEN e.tx ELSE d.trades[e.key].tx]
<1>1. d.trades \in TradeTable /\ d.limits \in LimitTable
  BY DEF DBType
<1>2. d.trades[e.key] # NoRow => d.trades[e.key].tx \in Nat
  BY <1>1, EventFields, RowTypes DEF TradeRow
<1>3. r \in TradeRow
  BY <1>2, EventFields DEF TradeRow
<1>4. [d.trades EXCEPT ![e.key] = r] \in TradeTable
  BY <1>1, <1>3, EventFields DEF TradeTable
<1>5. UpsertTrade(d, e) = [d EXCEPT !.trades = [d.trades EXCEPT ![e.key] = r]]
  BY DEF UpsertTrade, DBType
<1> HIDE DEF r
<1> QED BY <1>4, <1>5 DEF DBType

(* "updated_tp_sl" keeps the tables well typed.                             *)
LEMMA UpdateTradeType ==
  ASSUME NEW d \in DBType, NEW e \in Event
  PROVE  UpdateTrade(d, e) \in DBType
<1> SUFFICES ASSUME d.trades[e.key] # NoRow,
                    UpdateTrade(d, e) = [d EXCEPT !.trades[e.key].terms = WithTpSl(@, e.terms)]
             PROVE  UpdateTrade(d, e) \in DBType
  BY DEF UpdateTrade
<1>1. d.trades \in TradeTable /\ d.limits \in LimitTable
  BY DEF DBType
<1>2. d.trades[e.key] \in TradeRow
  BY <1>1, EventFields, RowTypes
<1>3. WithTpSl(d.trades[e.key].terms, e.terms) \in TermsType
  BY <1>2, EventFields, WithTpSlType DEF TradeRow
<1>4. [d.trades[e.key] EXCEPT !.terms = WithTpSl(@, e.terms)] \in TradeRow
  BY <1>2, <1>3 DEF TradeRow
<1>5. [d.trades EXCEPT ![e.key].terms = WithTpSl(@, e.terms)] \in TradeTable
  BY <1>1, <1>4, EventFields DEF TradeTable
<1> QED BY <1>5 DEF DBType

(* Closing a trade keeps the tables well typed.                             *)
LEMMA closeTradeType ==
  ASSUME NEW d \in DBType, NEW e \in Event,
         NEW reason \in {"manual", "tp", "sl", "liquidation"}
  PROVE  closeTrade(d, e, reason) \in DBType
<1> DEFINE h == [key |-> e.key, terms |-> d.trades[e.key].terms,
                 openTx |-> d.trades[e.key].tx, reason |-> reason, closeTx |-> e.tx]
<1>1. d.trades \in TradeTable /\ d.limits \in LimitTable /\ d.history \in SUBSET Settled
  BY DEF DBType
<1>2. [d.trades EXCEPT ![e.key] = NoRow] \in TradeTable
  BY <1>1, EventFields DEF TradeTable
<1>3. d.trades[e.key] # NoRow => h \in Settled
  BY <1>1, EventFields, RowTypes DEF TradeRow, Settled
<1>4. d.trades[e.key] # NoRow => d.history \cup {h} \in SUBSET Settled
  BY <1>1, <1>3
<1> QED BY <1>1, <1>2, <1>4 DEF closeTrade, DBType

(* "placed" keeps the tables well typed.                                    *)
LEMMA UpsertLimitType ==
  ASSUME NEW d \in DBType, NEW e \in Event
  PROVE  UpsertLimit(d, e) \in DBType
<1> DEFINE r == [terms |-> e.terms, px |-> e.px,
                 tx |-> IF d.limits[e.key] = NoRow THEN e.tx ELSE d.limits[e.key].tx]
<1>1. d.trades \in TradeTable /\ d.limits \in LimitTable
  BY DEF DBType
<1>2. d.limits[e.key] # NoRow => d.limits[e.key].tx \in Nat
  BY <1>1, EventFields, RowTypes DEF LimitRow
<1>3. r \in LimitRow
  BY <1>2, EventFields DEF LimitRow
<1>4. [d.limits EXCEPT ![e.key] = r] \in LimitTable
  BY <1>1, <1>3, EventFields DEF LimitTable
<1>5. e.full => UpsertLimit(d, e) = [d EXCEPT !.limits = [d.limits EXCEPT ![e.key] = r]]
  BY DEF UpsertLimit, DBType
<1>6. ~e.full => UpsertLimit(d, e) = d
  BY DEF UpsertLimit
<1> HIDE DEF r
<1> QED BY <1>4, <1>5, <1>6 DEF DBType

(* "updated_limit" keeps the tables well typed.                             *)
LEMMA UpdateLimitRowType ==
  ASSUME NEW d \in DBType, NEW e \in Event
  PROVE  UpdateLimitRow(d, e) \in DBType
<1> SUFFICES ASSUME d.limits[e.key] # NoRow,
                    UpdateLimitRow(d, e) =
                      [d EXCEPT !.limits[e.key] = Repriced(@, e.terms, e.px)]
             PROVE  UpdateLimitRow(d, e) \in DBType
  BY DEF UpdateLimitRow
<1>1. d.trades \in TradeTable /\ d.limits \in LimitTable
  BY DEF DBType
<1>2. Repriced(d.limits[e.key], e.terms, e.px) \in LimitRow
  BY <1>1, EventFields, RowTypes, RepricedType
<1>3. [d.limits EXCEPT ![e.key] = Repriced(@, e.terms, e.px)] \in LimitTable
  BY <1>1, <1>2, EventFields DEF LimitTable
<1> QED BY <1>3 DEF DBType

(* Executing or canceling an order keeps the tables well typed.             *)
LEMMA resolveLimitType ==
  ASSUME NEW d \in DBType, NEW e \in Event, NEW how \in {"executed", "canceled"}
  PROVE  resolveLimit(d, e, how) \in DBType
<1> DEFINE h == [key |-> e.key, row |-> d.limits[e.key], how |-> how, tx |-> e.tx]
<1> SUFFICES ASSUME d.limits[e.key] # NoRow
             PROVE  resolveLimit(d, e, how) \in DBType
  BY DEF resolveLimit
<1>1. d.trades \in TradeTable /\ d.limits \in LimitTable /\ d.limitHist \in Seq(Resolution)
  BY DEF DBType
<1>2. h \in Resolution
  BY <1>1, EventFields, RowTypes DEF Resolution
<1>3. Append(d.limitHist, h) \in Seq(Resolution)
  BY <1>1, <1>2, AppendProperties
<1>4. [d.limits EXCEPT ![e.key] = NoRow] \in LimitTable
  BY <1>1, EventFields DEF LimitTable
<1> QED BY <1>3, <1>4 DEF resolveLimit, DBType

(* So does every position-manager event.                                    *)
LEMMA applyPMType ==
  ASSUME NEW d \in DBType, NEW e \in Event
  PROVE  applyPM(d, e) \in DBType
<1>1. closeTradeUnknownReason(d, e) \in DBType
  BY closeTradeType DEF closeTradeUnknownReason, closeReason
<1> QED
  BY <1>1, UpsertTradeType, UpdateTradeType, closeTradeType, UpsertLimitType,
     UpdateLimitRowType, resolveLimitType DEF applyPM

(* So does every vault event.                                               *)
LEMMA applyVaultType ==
  ASSUME NEW d \in DBType, NEW e \in Event
  PROVE  applyVault(d, e) \in DBType
<1> DEFINE V == [shares: Int, deposited: Nat, withdrawn: Nat]
<1>1. d.vault \in [Key -> V] /\ d.vault[e.key] \in V /\ e.key \in Key /\ e.px \in Nat
  BY EventFields DEF DBType
<1>2. /\ [d.vault EXCEPT ![e.key].shares = @ + e.px, ![e.key].deposited = @ + e.px]
           \in [Key -> V]
      /\ [d.vault EXCEPT ![e.key].shares = @ - e.px, ![e.key].withdrawn = @ + e.px]
           \in [Key -> V]
  BY <1>1
<1> QED BY <1>1, <1>2 DEF applyVault, DBType

(* So does every registry event; GREATEST keeps the OI natural.             *)
LEMMA applyRegistryType ==
  ASSUME NEW d \in DBType, NEW e \in Event
  PROVE  applyRegistry(d, e) \in DBType
<1> DEFINE n == d.oi[e.key][e.terms.long]
<1>1. /\ d.oi \in [Key -> [BOOLEAN -> Nat]] /\ d.rates \in [Key -> [Rate -> Nat]]
      /\ n \in Nat
  BY EventFields DEF DBType
<1>2. ASSUME NEW m \in Nat
      PROVE  [d EXCEPT !.oi[e.key][e.terms.long] = m] \in DBType
  <2>1. [d.oi EXCEPT ![e.key][e.terms.long] = m] \in [Key -> [BOOLEAN -> Nat]]
    BY <1>1, EventFields
  <2> QED BY <2>1 DEF DBType
<1>3. e.topic \in Rate => [d EXCEPT !.rates[e.key][e.topic] = e.px] \in DBType
  <2>1. e.topic \in Rate =>
          [d.rates EXCEPT ![e.key][e.topic] = e.px] \in [Key -> [Rate -> Nat]]
    BY <1>1, EventFields
  <2> QED BY <2>1 DEF DBType
<1>4. n + e.px \in Nat /\ GreatestZero(n - e.px) \in Nat
  BY <1>1, EventFields DEF GreatestZero
<1> QED BY <1>2, <1>3, <1>4 DEF applyRegistry

(* Repo.Apply maps tables to tables.                                        *)
LEMMA ApplyType ==
  ASSUME NEW d \in DBType, NEW e \in Event, NEW idx \in Nat
  PROVE  Apply(d, e, idx) \in DBType
  BY InsertAuditType, applyPMType, applyVaultType, applyRegistryType DEF Apply

-----------------------------------------------------------------------------
(* What a step of the contracts or a closing ledger does to the log.        *)
Grows ==
  /\ log' \in Seq(Event) /\ Len(log') <= MaxEvents /\ Len(log) <= Len(log')
  /\ latest' \in Nat \ {0} /\ latest <= latest'
  /\ \A p \in 1 .. Len(log) : log'[p] = log[p]
  /\ \A p \in 1 .. Len(log') : p > Len(log) => log'[p].ledger = latest + 1
  /\ chain' \in ChainType

(* A step of the chain only adds events of the open ledger.                 *)
LEMMA LedgerGrows ==
  ASSUME LedgerTypeOK, Contracts \/ CloseLedger
  PROVE  Grows
<1>1. CASE Contracts
  <2>1. PICK evs : Appends(evs)
    BY <1>1, ContractsStep
  <2>2. evs \in Seq(Event) /\ log \in Seq(Event) /\ log' = log \o evs
    BY <2>1 DEF Appends, LedgerTypeOK
  <2>3. /\ log' \in Seq(Event)
        /\ Len(log') = Len(log) + Len(evs)
        /\ \A p \in 1 .. Len(log') :
             log'[p] = IF p <= Len(log) THEN log[p] ELSE evs[p - Len(log)]
    BY <2>2, ConcatProperties
  <2>4. Len(log) \in Nat /\ Len(evs) \in Nat
    BY <2>2
  <2>5. \A p \in 1 .. Len(log) : log'[p] = log[p]
    BY <2>3, <2>4
  <2>6. \A p \in 1 .. Len(log') : p > Len(log) => log'[p].ledger = latest + 1
    <3> SUFFICES ASSUME NEW p \in 1 .. Len(log'), p > Len(log)
                 PROVE  log'[p].ledger = latest + 1
      OBVIOUS
    <3>1. p - Len(log) \in 1 .. Len(evs) /\ log'[p] = evs[p - Len(log)]
      BY <2>3, <2>4
    <3> QED BY <3>1, <2>1 DEF Appends
  <2>7. latest' = latest /\ chain' \in ChainType /\ latest \in Nat \ {0}
    BY <1>1, ContractsStep DEF LedgerTypeOK
  <2> QED BY <2>1, <2>3, <2>4, <2>5, <2>6, <2>7 DEF Grows, Appends
<1>2. CASE CloseLedger
  BY <1>2 DEF CloseLedger, LedgerTypeOK, Grows, ChainType
<1> QED BY <1>1, <1>2

(* The start of the retention window lies in the window and moves forward.  *)
LEMMA WindowStart ==
  ASSUME NEW l \in Nat, NEW m \in Nat, l >= 1, l <= m
  PROVE  LET o(n) == IF n < Window THEN 1 ELSE n - Window + 1
         IN  o(l) \in Nat /\ o(l) >= 1 /\ o(l) <= l /\ o(m) \in Nat /\ o(l) <= o(m)
  BY LedgerAssumption

(* The oldest retained ledger never goes back.                              *)
LEMMA OldestMonotone ==
  ASSUME latest \in Nat \ {0}, latest' \in Nat \ {0}, latest <= latest'
  PROVE  /\ Oldest \in Nat /\ Oldest >= 1 /\ Oldest <= latest
         /\ Oldest' \in Nat /\ Oldest <= Oldest'
<1>1. latest \in Nat /\ latest >= 1 /\ latest' \in Nat
  OBVIOUS
<1>2. Oldest' = IF latest' < Window THEN 1 ELSE latest' - Window + 1
  BY Zenon DEF Oldest
<1>3. Oldest = IF latest < Window THEN 1 ELSE latest - Window + 1
  BY DEF Oldest
<1> QED BY <1>1, <1>2, <1>3, WindowStart

(* Events past the end of the log are wanted by every cursor in use.        *)
LEMMA LedgerKeepsInv ==
  ASSUME TypeOK, IndInv, LedgerStep
  PROVE  TypeOK' /\ IndInv'
<1>1. LedgerTypeOK /\ Grows /\ UNCHANGED indexerVars
  BY LedgerGrows DEF LedgerStep, TypeOK
<1>2. TypeOK'
  <2>1. 1 .. Len(log) \subseteq 1 .. Len(log')
    BY <1>1 DEF Grows, LedgerTypeOK
  <2>2. LedgerTypeOK'
    BY <1>1 DEF Grows, LedgerTypeOK, ChainType
  <2> QED BY <1>1, <2>1, <2>2 DEF TypeOK, indexerVars, memVars, boundVars
<1>a. /\ Len(log) \in Nat /\ Len(log') \in Nat /\ Len(log) <= Len(log')
      /\ latest \in Nat \ {0} /\ latest' \in Nat \ {0} /\ latest <= latest'
      /\ \A p \in 1 .. Len(log) : log'[p] = log[p] /\ log[p].ledger \in Nat
  <2>1. \A p \in 1 .. Len(log) : log[p] \in Event
    BY DEF TypeOK, LedgerTypeOK
  <2>2. \A p \in 1 .. Len(log) : log[p].ledger \in Nat
    BY <2>1 DEF Event
  <2>3. \A p \in 1 .. Len(log) : log'[p] = log[p]
    BY <1>1 DEF Grows
  <2>4. /\ Len(log) \in Nat /\ Len(log') \in Nat /\ Len(log) <= Len(log')
        /\ latest \in Nat \ {0} /\ latest' \in Nat \ {0} /\ latest <= latest'
    BY <1>1 DEF Grows, LedgerTypeOK
  <2> QED BY <2>2, <2>3, <2>4
<1>b. \A p \in 1 .. Len(log') : p \notin 1 .. Len(log) =>
        p > Len(log) /\ log'[p].ledger = latest + 1
  BY <1>1, <1>a DEF Grows
<1>3. LogInv'
  <2>1. \A p \in 1 .. Len(log') : log'[p].ledger <= latest + 1 /\ log'[p].ledger \in Nat
    BY <1>a, <1>b DEF LogInv, IndInv
  <2>2. \A p \in 1 .. Len(log') : log'[p].ledger <= latest' + 1
    BY <1>a, <2>1
  <2>3. ASSUME NEW p \in 1 .. Len(log'), NEW q \in 1 .. Len(log'), p <= q
        PROVE  log'[p].ledger <= log'[q].ledger
    <3>1. CASE q \in 1 .. Len(log)
      BY <1>a, <2>3, <3>1 DEF LogInv, IndInv
    <3>2. CASE q \notin 1 .. Len(log)
      BY <1>b, <2>1, <3>2
    <3> QED BY <3>1, <3>2
  <2> QED BY <2>2, <2>3 DEF LogInv
<1>4. ASSUME NEW c \in Cursor, CutsLog(c) PROVE CutsLog(c)'
  <2>1. c.ledger \in Nat /\ c.pos \in Nat
    BY DEF Cursor
  <2>2. c.ledger >= 1 /\ c.ledger <= latest' /\ c.pos <= Len(log')
    BY <1>4, <1>a, <2>1 DEF CutsLog
  <2>3. ASSUME NEW p \in 1 .. Len(log')
        PROVE  /\ p <= c.pos => log'[p].ledger <= c.ledger
               /\ p > c.pos => log'[p].ledger >= c.ledger
    <3>1. CASE p \in 1 .. Len(log)
      BY <1>4, <1>a, <3>1 DEF CutsLog
    <3>2. CASE p \notin 1 .. Len(log)
      BY <1>4, <1>a, <1>b, <2>1, <3>2 DEF CutsLog
    <3> QED BY <3>1, <3>2
  <2> QED BY <2>2, <2>3 DEF CutsLog
<1>5. \A p \in 1 .. Len(log) : Handled(p) => Handled(p)'
  <2>1. Oldest \in Nat /\ Oldest' \in Nat /\ Oldest <= Oldest'
    BY <1>a, OldestMonotone
  <2>2. \A p \in 1 .. Len(log) : p \in Expired => p \in Expired'
    BY <1>a, <2>1 DEF Expired
  <2> QED BY <1>1, <1>a, <2>2 DEF Handled, indexerVars
<1>6. /\ pc' = pc /\ startLedger' = startLedger /\ cursor' = cursor /\ page' = page
      /\ next' = next /\ dbCursor' = dbCursor /\ origin' = origin
  BY <1>1 DEF indexerVars, memVars
<1>7. /\ cursor \in Cursor /\ dbCursor \in [row: BOOLEAN, ledger: Nat, cur: Cursor]
      /\ startLedger \in Nat /\ page \in [lo: Nat, hi: Nat, resp: Cursor] /\ next \in Nat
      /\ origin \in Nat
  BY DEF TypeOK
<1>8. \A p \in 1 .. Len(log) : IsPending(p)' <=> IsPending(p)
  BY <1>6, <1>a DEF IsPending, Wanted
<1>9. \A p \in 1 .. Len(log') : p \notin 1 .. Len(log) => IsPending(p)'
  BY <1>6, <1>7, <1>a, <1>b DEF IsPending, Wanted, FromOf, IndInv, DurableInv, CutsLog,
     Cursor, NoCursor
<1>10. DurableInv'
  BY <1>4, <1>5, <1>6, <1>7, <1>8, <1>9, <1>a DEF DurableInv, IndInv
<1>11. MemInv'
  BY <1>4, <1>6, <1>7, <1>a DEF MemInv, IndInv
<1>12. PollInv'
  <2> SUFFICES ASSUME pc \in {"poll", "retry"}
               PROVE  /\ cursor # NoCursor => startLedger = cursor.ledger
                      /\ \A p \in 1 .. Len(log') :
                           IF Wanted(p, cursor, FromLedger)' THEN IsPending(p)'
                                                            ELSE Handled(p)'
    BY <1>6 DEF PollInv
  <2>1. cursor # NoCursor => startLedger = cursor.ledger
    BY DEF IndInv, PollInv
  <2>2. ASSUME NEW p \in 1 .. Len(log)
        PROVE  Wanted(p, cursor, FromLedger)' <=> Wanted(p, cursor, FromLedger)
    BY <1>6, <1>a DEF Wanted, FromLedger
  <2>3. ASSUME NEW p \in 1 .. Len(log'), p \notin 1 .. Len(log), ~Wanted(p, cursor, FromLedger)'
        PROVE  Handled(p)'
    BY <2>3, <1>6, <1>7, <1>a, <1>b, SMTT(20)
       DEF Wanted, FromLedger, FromOf, Handled, IndInv, MemInv,
       CutsLog, Cursor, NoCursor
  <2>4. ASSUME NEW p \in 1 .. Len(log)
        PROVE  IF Wanted(p, cursor, FromLedger) THEN IsPending(p) ELSE Handled(p)
    BY DEF IndInv, PollInv
  <2> QED BY <2>1, <2>2, <2>3, <2>4, <1>5, <1>8, <1>9
<1>13. PageInv'
  <2> SUFFICES ASSUME pc \in {"apply", "fanout"}
               PROVE  PageInv'
    BY <1>6 DEF PageInv
  <2>1. CutsLog(page.resp)' /\ page.hi <= Len(log)
    BY <1>4, <1>6, <1>7 DEF IndInv, PageInv, CutsLog
  <2>2. \A p \in 1 .. Len(log') : /\ p < next => Handled(p)'
                                  /\ p >= page.lo => IsPending(p)'
    BY <2>1, <1>5, <1>7, <1>8, <1>9, <1>a, <1>b DEF IndInv, PageInv
  <2> QED BY <2>1, <2>2, <1>6 DEF IndInv, PageInv
<1> QED BY <1>2, <1>3, <1>10, <1>11, <1>12, <1>13 DEF IndInv

-----------------------------------------------------------------------------
(* The steps of the process.  None of them touches the ledger.              *)
LEMMA Basics ==
  ASSUME TypeOK
  PROVE  /\ Len(log) \in Nat /\ latest \in Nat /\ latest >= 1
         /\ \A p \in 1 .. Len(log) : log[p] \in Event /\ log[p].ledger \in Nat
         /\ startLedger \in Nat /\ next \in Nat /\ origin \in Nat
         /\ cursor.ledger \in Nat /\ cursor.pos \in Nat
         /\ page.lo \in Nat /\ page.hi \in Nat /\ page.resp \in Cursor
         /\ page.resp.ledger \in Nat /\ page.resp.pos \in Nat
         /\ dbCursor.row \in BOOLEAN /\ dbCursor.ledger \in Nat
         /\ dbCursor.cur \in Cursor
         /\ dbCursor.cur.ledger \in Nat /\ dbCursor.cur.pos \in Nat
         /\ Oldest \in Nat /\ Oldest >= 1 /\ Oldest <= latest
<1>1. \A p \in 1 .. Len(log) : log[p] \in Event
  BY DEF TypeOK, LedgerTypeOK
<1>2. \A p \in 1 .. Len(log) : log[p].ledger \in Nat
  BY <1>1 DEF Event
<1>3. Len(log) \in Nat /\ latest \in Nat /\ latest >= 1
  BY DEF TypeOK, LedgerTypeOK
<1>4. Oldest \in Nat /\ Oldest >= 1 /\ Oldest <= latest
  BY <1>3, WindowStart DEF Oldest
<1>5. /\ startLedger \in Nat /\ next \in Nat /\ origin \in Nat
      /\ cursor.ledger \in Nat /\ cursor.pos \in Nat
      /\ page.lo \in Nat /\ page.hi \in Nat /\ page.resp \in Cursor
      /\ page.resp.ledger \in Nat /\ page.resp.pos \in Nat
      /\ dbCursor.row \in BOOLEAN /\ dbCursor.ledger \in Nat
      /\ dbCursor.cur \in Cursor
      /\ dbCursor.cur.ledger \in Nat /\ dbCursor.cur.pos \in Nat
  BY DEF TypeOK, Cursor
<1> QED BY <1>1, <1>2, <1>3, <1>4, <1>5

(* With the log and the persisted cursor fixed, so are the sets they define.*)
LEMMA SameLog ==
  ASSUME UNCHANGED ledgerVars
  PROVE  /\ log' = log /\ latest' = latest
         /\ LedgerTypeOK' <=> LedgerTypeOK
         /\ LogInv' <=> LogInv
         /\ Oldest' = Oldest /\ Expired' = Expired
         /\ \A c : CutsLog(c)' <=> CutsLog(c)
         /\ \A p, c, l : Wanted(p, c, l)' <=> Wanted(p, c, l)
  BY DEF ledgerVars, LedgerTypeOK, LogInv, Oldest, Expired, CutsLog, Wanted

(* The empty cursor is a cursor at position 0.                              *)
LEMMA NoCursorType == NoCursor \in Cursor /\ NoCursor.pos = 0 /\ NoCursor.ledger = 0
  BY DEF NoCursor, Cursor

(* decideStartCursor: resuming inherits what the persisted cursor knows.    *)
LEMMA BootKeepsInv ==
  ASSUME TypeOK, IndInv, Boot
  PROVE  TypeOK' /\ IndInv'
<1>1. /\ UNCHANGED ledgerVars
      /\ page' = page /\ next' = next /\ db' = db /\ dbCursor' = dbCursor
      /\ done' = done /\ failed' = failed /\ boundVars' = boundVars
      /\ pc = "down" /\ pc' = "poll"
  BY DEF Boot
<1>2. /\ log' = log /\ latest' = latest /\ LedgerTypeOK' /\ LogInv'
      /\ Oldest' = Oldest /\ Expired' = Expired
      /\ \A c : CutsLog(c)' <=> CutsLog(c)
      /\ \A p, c, l : Wanted(p, c, l)' <=> Wanted(p, c, l)
  BY <1>1, SameLog DEF TypeOK, IndInv
<1>3. \A p : IsPending(p)' <=> IsPending(p)
  BY <1>1, <1>2 DEF IsPending
<1> USE Basics, NoCursorType
<1>4. CASE /\ dbCursor.ledger > 0 \/ dbCursor.cur # NoCursor
           /\ startLedger' = dbCursor.ledger /\ cursor' = dbCursor.cur /\ origin' = origin
  <2>1. dbCursor.row
    BY <1>4 DEF IndInv, DurableInv
  <2>2. TypeOK'
    BY <1>1, <1>2, <1>4 DEF TypeOK, boundVars
  <2>3. \A p : Handled(p)' <=> Handled(p)
    BY <1>1, <1>2, <1>4 DEF Handled
  <2>4. DurableInv'
    BY <1>1, <1>2, <1>3, <2>3 DEF IndInv, DurableInv
  <2>5. MemInv'
    BY <1>1, <1>2, <1>4, <2>1 DEF IndInv, DurableInv, MemInv
  <2>6. FromLedger' = FromOf(dbCursor.cur, dbCursor.ledger)
    BY <1>4 DEF FromLedger, FromOf
  <2>7. \A p \in 1 .. Len(log) : Wanted(p, cursor, FromLedger)' <=> IsPending(p)
    BY <1>1, <1>2, <1>4, <2>1, <2>6 DEF IsPending, Wanted
  <2>8. PollInv'
    BY <1>1, <1>2, <1>3, <1>4, <2>3, <2>7 DEF IndInv, DurableInv, PollInv
  <2>9. PageInv'
    BY <1>1 DEF PageInv
  <2> QED BY <1>2, <2>2, <2>4, <2>5, <2>8, <2>9 DEF IndInv
<1>5. CASE /\ dbCursor.ledger = 0 /\ dbCursor.cur = NoCursor
           /\ startLedger' = IF StartLedger > 0 THEN StartLedger ELSE latest
           /\ cursor' = NoCursor /\ origin' = startLedger'
  <2>1. ~dbCursor.row
    BY <1>5 DEF IndInv, DurableInv
  <2>2. startLedger' \in Nat
    BY <1>5, IndexerAssumption
  <2>3. TypeOK'
    BY <1>1, <1>2, <1>5, <2>2 DEF TypeOK, boundVars
  <2>4. \A p : IsPending(p)
    BY <2>1 DEF IsPending
  <2>5. DurableInv'
    BY <1>1, <1>2, <1>3, <2>1, <2>4 DEF IndInv, DurableInv
  <2>6. MemInv'
    BY <1>1, <1>5, <2>1, <2>2 DEF MemInv
  <2>7. FromLedger' = startLedger'
    BY <1>5 DEF FromLedger, FromOf
  <2>8. \A p \in 1 .. Len(log) : ~Wanted(p, cursor, FromLedger)' => Handled(p)'
    BY <1>2, <1>5, <2>2, <2>7, SMTT(20) DEF Wanted, Handled
  <2>9. PollInv'
    BY <1>1, <1>2, <1>3, <1>5, <2>4, <2>8 DEF PollInv
  <2>10. PageInv'
    BY <1>1 DEF PageInv
  <2> QED BY <1>2, <2>3, <2>5, <2>6, <2>9, <2>10 DEF IndInv
<1> QED BY <1>4, <1>5 DEF Boot

(* Range error: what the clamp gives up has expired, and the clamped        *)
(* position is not behind the persisted one.                                *)
LEMMA ClampKeepsInv ==
  ASSUME TypeOK, IndInv, Clamp
  PROVE  /\ TypeOK' /\ IndInv'
         /\ \A p \in 1 .. Len(log) : IsPending(p)' => IsPending(p)
         /\ dbCursor'.ledger >= dbCursor.ledger
<1>1. /\ UNCHANGED ledgerVars
      /\ page' = page /\ next' = next /\ db' = db /\ origin' = origin
      /\ done' = done /\ failed' = failed /\ crashes' = crashes
      /\ applyFaults' = applyFaults
      /\ pc = "poll" /\ startLedger' = Oldest /\ cursor' = NoCursor
  BY DEF Clamp
<1>2. /\ log' = log /\ latest' = latest /\ LedgerTypeOK' /\ LogInv'
      /\ Oldest' = Oldest /\ Expired' = Expired
      /\ \A c : CutsLog(c)' <=> CutsLog(c)
      /\ \A p, c, l : Wanted(p, c, l)' <=> Wanted(p, c, l)
  BY <1>1, SameLog DEF TypeOK, IndInv
<1>13. cursorFaults < MaxCursorFaults /\ cursorFaults' = cursorFaults + 1 =>
         cursorFaults' \in 0 .. MaxCursorFaults
  <2>1. cursorFaults \in Nat /\ MaxCursorFaults \in Nat
    BY IndexerAssumption DEF TypeOK
  <2> QED BY <2>1
<1> USE Basics, NoCursorType
<1>3. \A p : Handled(p)' <=> Handled(p)
  BY <1>1, <1>2 DEF Handled
<1>4. dbCursor.row => startLedger <= Oldest
  BY <1>1 DEF Clamp, InRange, FromLedger, FromOf, IndInv, MemInv, PollInv
<1>5. dbCursor.ledger <= Oldest
  BY <1>1, <1>4 DEF IndInv, DurableInv, MemInv
<1>6. \A p \in 1 .. Len(log) : log[p].ledger >= Oldest => IsPending(p)
  <2> SUFFICES ASSUME NEW p \in 1 .. Len(log), log[p].ledger >= Oldest, dbCursor.row
               PROVE  Wanted(p, dbCursor.cur, FromOf(dbCursor.cur, dbCursor.ledger))
    BY DEF IsPending
  <2>1. CASE dbCursor.cur = NoCursor
    BY <1>5, <2>1, SMTT(20) DEF FromOf, Wanted
  <2>2. CASE dbCursor.cur # NoCursor
    <3>1. /\ dbCursor.ledger = dbCursor.cur.ledger
          /\ p <= dbCursor.cur.pos => log[p].ledger <= dbCursor.cur.ledger
      BY <2>2 DEF IndInv, DurableInv, CutsLog
    <3>2. log[p].ledger >= FromOf(dbCursor.cur, dbCursor.ledger)
      BY <1>5, <2>2, <3>1 DEF FromOf
    <3>3. p > dbCursor.cur.pos
      <4>0. /\ log[p].ledger \in Nat /\ Oldest \in Nat /\ p \in Nat
            /\ dbCursor.cur.ledger \in Nat /\ dbCursor.cur.pos \in Nat
        BY Basics
      <4>1. CASE dbCursor.ledger < Oldest
        <5>1. ~(log[p].ledger <= dbCursor.cur.ledger)
          BY ONLY <3>1, <4>0, <4>1, log[p].ledger >= Oldest
        <5>2. ~(p <= dbCursor.cur.pos)
          BY ONLY <3>1, <5>1
        <5> QED BY ONLY <4>0, <5>2
      <4>2. CASE dbCursor.ledger = Oldest
        BY <1>1, <1>4, <4>2 DEF Clamp, InRange, FromLedger, FromOf, IndInv, MemInv, PollInv
      <4> QED BY <1>5, <4>1, <4>2
    <3> QED BY <3>2, <3>3 DEF Wanted
  <2> QED BY <2>1, <2>2
<1>7. \A p \in 1 .. Len(log) : ~(log[p].ledger >= Oldest) => Handled(p)
  BY SMTT(20) DEF Handled, Expired
<1>8. FromLedger' = Oldest
  BY <1>1 DEF FromLedger, FromOf
<1>9. \A p \in 1 .. Len(log) :
        Wanted(p, cursor, FromLedger)' <=> log[p].ledger >= Oldest
  BY <1>1, <1>2, <1>8, SMTT(20) DEF Wanted
<1>10. CASE dbCursor' = dbCursor /\ pc' = pc /\ cursorFaults' \in 0 .. MaxCursorFaults
  <2>1. \A p : IsPending(p)' <=> IsPending(p)
    BY <1>2, <1>10 DEF IsPending
  <2>2. TypeOK'
    BY <1>1, <1>2, <1>10 DEF TypeOK
  <2>3. DurableInv'
    BY <1>2, <1>3, <1>10, <2>1 DEF IndInv, DurableInv
  <2>4. MemInv'
    BY <1>1, <1>2, <1>5, <1>10 DEF MemInv
  <2>5. PollInv'
    <3>1. \A p \in 1 .. Len(log) :
            IF Wanted(p, cursor, FromLedger)' THEN IsPending(p)' ELSE Handled(p)'
      BY <1>3, <1>6, <1>7, <1>9, <2>1
    <3> QED BY <1>1, <1>2, <3>1 DEF PollInv
  <2>6. PageInv'
    BY <1>1, <1>10 DEF PageInv
  <2> QED BY <1>2, <1>10, <2>1, <2>2, <2>3, <2>4, <2>5, <2>6, SMTT(20) DEF IndInv
<1>11. CASE /\ dbCursor' = [row |-> TRUE, ledger |-> Oldest, cur |-> NoCursor]
            /\ pc' = "retry" /\ cursorFaults' = cursorFaults
  <2>1. \A p \in 1 .. Len(log) : IsPending(p)' <=> log[p].ledger >= Oldest
    BY <1>2, <1>11, SMTT(20) DEF IsPending, Wanted, FromOf
  <2>2. TypeOK'
    BY <1>1, <1>2, <1>11 DEF TypeOK
  <2>3. DurableInv'
    <3>1. \A p \in 1 .. Len(log) : ~IsPending(p)' => Handled(p)'
      BY <1>3, <1>7, <2>1
    <3>2. /\ dbCursor'.row /\ dbCursor'.ledger = Oldest /\ dbCursor'.cur = NoCursor
      BY <1>11
    <3> QED BY <1>2, <3>1, <3>2 DEF DurableInv
  <2>4. MemInv'
    BY <1>1, <1>2, <1>11 DEF MemInv
  <2>5. PollInv'
    <3>1. \A p \in 1 .. Len(log) :
            IF Wanted(p, cursor, FromLedger)' THEN IsPending(p)' ELSE Handled(p)'
      BY <1>3, <1>7, <1>9, <2>1
    <3> QED BY <1>1, <1>2, <3>1 DEF PollInv
  <2>6. PageInv'
    BY <1>11 DEF PageInv
  <2> QED BY <1>2, <1>5, <1>6, <1>11, <2>1, <2>2, <2>3, <2>4, <2>5, <2>6 DEF IndInv
<1>12. \/ /\ dbCursor' = [row |-> TRUE, ledger |-> Oldest, cur |-> NoCursor]
          /\ pc' = "retry" /\ cursorFaults' = cursorFaults
       \/ /\ dbCursor' = dbCursor /\ pc' = pc
          /\ cursorFaults < MaxCursorFaults /\ cursorFaults' = cursorFaults + 1
  BY DEF Clamp
<1> QED BY <1>10, <1>11, <1>12, <1>13

(* A failed retry keeps the invariant.                                      *)
LEMMA RetryErrorKeepsInv ==
  ASSUME TypeOK, IndInv, RetryError
  PROVE  TypeOK' /\ IndInv'
<1>1. /\ UNCHANGED ledgerVars
      /\ startLedger' = startLedger /\ cursor' = cursor
      /\ page' = page /\ next' = next /\ db' = db /\ origin' = origin
      /\ done' = done /\ failed' = failed /\ boundVars' = boundVars
      /\ dbCursor' = dbCursor /\ pc = "retry" /\ pc' = "poll"
  BY DEF RetryError
<1>2. /\ log' = log /\ latest' = latest /\ LedgerTypeOK' /\ LogInv'
      /\ Oldest' = Oldest /\ Expired' = Expired
      /\ \A c : CutsLog(c)' <=> CutsLog(c)
      /\ \A p, c, l : Wanted(p, c, l)' <=> Wanted(p, c, l)
  BY <1>1, SameLog DEF TypeOK, IndInv
<1>3. (\A p : Handled(p)' <=> Handled(p)) /\ (\A p : IsPending(p)' <=> IsPending(p))
  BY <1>1, <1>2 DEF Handled, IsPending
<1>4. TypeOK'
  BY <1>1, <1>2 DEF TypeOK, boundVars
<1>5. FromLedger' = FromLedger
  BY <1>1 DEF FromLedger
<1>6. DurableInv' /\ MemInv' /\ PollInv' /\ PageInv'
  BY <1>1, <1>2, <1>3, <1>5 DEF IndInv, DurableInv, MemInv, PollInv, PageInv, Wanted
<1> QED BY <1>2, <1>4, <1>6 DEF IndInv

(* A crash keeps the invariant: what it speaks of is durable.               *)
LEMMA CrashKeepsInv ==
  ASSUME TypeOK, IndInv, Crash
  PROVE  TypeOK' /\ IndInv'
<1>1. /\ UNCHANGED ledgerVars
      /\ startLedger' = 0 /\ cursor' = NoCursor /\ page' = NoPage /\ next' = 1
      /\ db' = db /\ origin' = origin /\ done' = done /\ failed' = failed
      /\ applyFaults' = applyFaults /\ cursorFaults' = cursorFaults
      /\ crashes < MaxCrashes /\ crashes' = crashes + 1
      /\ dbCursor' = dbCursor /\ pc' = "down"
  BY DEF Crash
<1>2. /\ log' = log /\ latest' = latest /\ LedgerTypeOK' /\ LogInv'
      /\ Oldest' = Oldest /\ Expired' = Expired
      /\ \A c : CutsLog(c)' <=> CutsLog(c)
      /\ \A p, c, l : Wanted(p, c, l)' <=> Wanted(p, c, l)
  BY <1>1, SameLog DEF TypeOK, IndInv
<1>3. (\A p : Handled(p)' <=> Handled(p)) /\ (\A p : IsPending(p)' <=> IsPending(p))
  BY <1>1, <1>2 DEF Handled, IsPending
<1>4. crashes' \in 0 .. MaxCrashes /\ page' \in [lo: Nat, hi: Nat, resp: Cursor]
  BY <1>1, NoCursorType, IndexerAssumption DEF TypeOK, NoPage
<1>5. TypeOK'
  BY <1>1, <1>2, <1>4, NoCursorType DEF TypeOK
<1>6. DurableInv' /\ MemInv' /\ PollInv' /\ PageInv'
  BY <1>1, <1>2, <1>3 DEF IndInv, DurableInv, MemInv, PollInv, PageInv
<1> QED BY <1>2, <1>5, <1>6 DEF IndInv

(* Inside a page: next is a position of the log.                            *)
LEMMA InPageFacts ==
  ASSUME TypeOK, IndInv, pc \in {"apply", "fanout"}, next <= page.hi
  PROVE  /\ next \in 1 .. Len(log) /\ next - page.lo \in Nat
         /\ log[next] \in Event /\ log[next].ledger \in Nat
         /\ log[next].ledger <= page.resp.ledger
         /\ next + 1 \in Nat /\ next + 1 <= page.hi + 1 /\ page.lo <= next + 1
<1>1. /\ page.lo >= 1 /\ page.lo <= next /\ page.hi <= Len(log)
      /\ page.resp.pos = page.hi
      /\ \A p \in 1 .. Len(log) : p <= page.resp.pos => log[p].ledger <= page.resp.ledger
  BY DEF IndInv, PageInv, CutsLog
<1>2. next \in 1 .. Len(log) /\ next - page.lo \in Nat
  BY <1>1, Basics, SMTT(20)
<1>3. log[next] \in Event /\ log[next].ledger \in Nat
  BY <1>2, Basics
<1>4. log[next].ledger <= page.resp.ledger
  BY <1>1, <1>2
<1>5. next + 1 \in Nat /\ next + 1 <= page.hi + 1 /\ page.lo <= next + 1
  BY <1>1, Basics, SMTT(20)
<1> QED BY <1>2, <1>3, <1>4, <1>5

(* An event is passed over, its error logged.                               *)
LEMMA EventErrorKeepsInv ==
  ASSUME TypeOK, IndInv, EventError
  PROVE  TypeOK' /\ IndInv'
<1>1. /\ UNCHANGED ledgerVars
      /\ startLedger' = startLedger /\ cursor' = cursor /\ page' = page
      /\ origin' = origin /\ done' = done /\ crashes' = crashes
      /\ cursorFaults' = cursorFaults /\ dbCursor' = dbCursor /\ pc' = pc
      /\ pc = "apply" /\ next <= page.hi
      /\ failed' = failed \cup {next} /\ next' = next + 1
  BY DEF EventError, InPage
<1>2. /\ log' = log /\ latest' = latest /\ LedgerTypeOK' /\ LogInv'
      /\ Oldest' = Oldest /\ Expired' = Expired
      /\ \A c : CutsLog(c)' <=> CutsLog(c)
      /\ \A p, c, l : Wanted(p, c, l)' <=> Wanted(p, c, l)
  BY <1>1, SameLog DEF TypeOK, IndInv
<1>3. /\ next \in 1 .. Len(log) /\ next - page.lo \in Nat
      /\ log[next] \in Event /\ next + 1 \in Nat
      /\ next + 1 <= page.hi + 1 /\ page.lo <= next + 1
  BY <1>1, InPageFacts
<1>4. db' \in DBType /\ applyFaults' \in 0 .. MaxApplyFaults
  <2>1. CASE UNCHANGED <<db, applyFaults>>
    BY <2>1 DEF TypeOK
  <2>2. CASE /\ applyFaults < MaxApplyFaults /\ applyFaults' = applyFaults + 1
             /\ db' \in {db, Apply(db, log[next], next - page.lo)}
    <3>1. db' \in DBType
      BY <1>3, <2>2, ApplyType DEF TypeOK
    <3>2. applyFaults \in Nat /\ MaxApplyFaults \in Nat
      BY IndexerAssumption DEF TypeOK
    <3> QED BY <2>2, <3>1, <3>2
  <2> QED BY <2>1, <2>2 DEF EventError
<1>5. TypeOK'
  BY <1>1, <1>2, <1>3, <1>4 DEF TypeOK
<1>6. \A p : IsPending(p)' <=> IsPending(p)
  BY <1>1, <1>2 DEF IsPending
<1>7. \A p : Handled(p) \/ p = next => Handled(p)'
  BY <1>1, <1>2 DEF Handled
<1>8. DurableInv'
  BY <1>1, <1>2, <1>6, <1>7 DEF IndInv, DurableInv
<1>9. MemInv' /\ PollInv'
  BY <1>1, <1>2 DEF IndInv, MemInv, PollInv
<1>10. PageInv'
  <2>1. \A p \in 1 .. Len(log) : p < next + 1 => p < next \/ p = next
    BY Basics
  <2>2. \A p \in 1 .. Len(log) : p < next' => Handled(p)'
    BY <1>1, <1>7, <2>1 DEF IndInv, PageInv
  <2> QED BY <1>1, <1>2, <1>3, <1>6, <2>2 DEF IndInv, PageInv
<1> QED BY <1>2, <1>5, <1>8, <1>9, <1>10 DEF IndInv

(* Applying an event keeps the invariant.                                   *)
LEMMA ApplyEventKeepsInv ==
  ASSUME TypeOK, IndInv, ApplyEvent
  PROVE  TypeOK' /\ IndInv'
<1>1. /\ UNCHANGED ledgerVars
      /\ startLedger' = startLedger /\ cursor' = cursor /\ page' = page /\ next' = next
      /\ origin' = origin /\ done' = done /\ failed' = failed
      /\ boundVars' = boundVars /\ dbCursor' = dbCursor /\ pc' = "fanout"
      /\ pc = "apply" /\ next <= page.hi
      /\ db' = Apply(db, log[next], next - page.lo)
  BY DEF ApplyEvent, InPage
<1>2. /\ log' = log /\ latest' = latest /\ LedgerTypeOK' /\ LogInv'
      /\ Oldest' = Oldest /\ Expired' = Expired
      /\ \A c : CutsLog(c)' <=> CutsLog(c)
      /\ \A p, c, l : Wanted(p, c, l)' <=> Wanted(p, c, l)
  BY <1>1, SameLog DEF TypeOK, IndInv
<1>3. db' \in DBType
  BY <1>1, InPageFacts, ApplyType DEF TypeOK
<1>4. TypeOK'
  BY <1>1, <1>2, <1>3 DEF TypeOK, boundVars
<1>5. (\A p : Handled(p)' <=> Handled(p)) /\ (\A p : IsPending(p)' <=> IsPending(p))
  BY <1>1, <1>2 DEF Handled, IsPending
<1>6. DurableInv' /\ MemInv' /\ PollInv' /\ PageInv'
  BY <1>1, <1>2, <1>5 DEF IndInv, DurableInv, MemInv, PollInv, PageInv
<1> QED BY <1>2, <1>4, <1>6 DEF IndInv

(* Fanout marks one more event as done and keeps the invariant.             *)
LEMMA FanoutKeepsInv ==
  ASSUME TypeOK, IndInv, Fanout
  PROVE  TypeOK' /\ IndInv'
<1>0. pc = "fanout" /\ next <= page.hi
  BY DEF Fanout, IndInv, PageInv
<1>1. /\ UNCHANGED ledgerVars
      /\ cursor' = cursor /\ page' = page /\ db' = db
      /\ origin' = origin /\ failed' = failed /\ boundVars' = boundVars
      /\ dbCursor' = dbCursor /\ pc' = "apply"
      /\ done' = done \cup {next} /\ next' = next + 1
      /\ startLedger' = MaxOf(startLedger, log[next].ledger)
  BY DEF Fanout
<1>2. /\ log' = log /\ latest' = latest /\ LedgerTypeOK' /\ LogInv'
      /\ Oldest' = Oldest /\ Expired' = Expired
      /\ \A c : CutsLog(c)' <=> CutsLog(c)
      /\ \A p, c, l : Wanted(p, c, l)' <=> Wanted(p, c, l)
  BY <1>1, SameLog DEF TypeOK, IndInv
<1>3. /\ next \in 1 .. Len(log) /\ log[next].ledger \in Nat
      /\ log[next].ledger <= page.resp.ledger /\ next + 1 \in Nat
      /\ next + 1 <= page.hi + 1 /\ page.lo <= next + 1
  BY <1>0, InPageFacts
<1>4. /\ startLedger' \in Nat /\ startLedger <= startLedger'
      /\ startLedger' <= page.resp.ledger /\ page.resp.ledger <= latest
  BY <1>0, <1>1, <1>3, Basics, SMTT(20) DEF MaxOf, IndInv, PageInv, CutsLog
<1>5. TypeOK'
  BY <1>1, <1>2, <1>3, <1>4 DEF TypeOK, boundVars
<1>6. \A p : IsPending(p)' <=> IsPending(p)
  BY <1>1, <1>2 DEF IsPending
<1>7. \A p : Handled(p) \/ p = next => Handled(p)'
  BY <1>1, <1>2 DEF Handled
<1>8. DurableInv'
  BY <1>1, <1>2, <1>6, <1>7 DEF IndInv, DurableInv
<1>9. MemInv' /\ PollInv'
  <2>1. dbCursor.ledger <= startLedger' /\ startLedger' <= latest
    BY <1>0, <1>4, Basics, SMTT(20) DEF IndInv, MemInv
  <2> QED BY <1>0, <1>1, <1>2, <2>1 DEF IndInv, MemInv, PollInv
<1>10. PageInv'
  <2>1. \A p \in 1 .. Len(log) : p < next + 1 => p < next \/ p = next
    BY Basics
  <2>2. \A p \in 1 .. Len(log) : p < next' => Handled(p)'
    BY <1>0, <1>1, <1>7, <2>1 DEF IndInv, PageInv
  <2> QED BY <1>0, <1>1, <1>2, <1>3, <1>4, <1>6, <2>2 DEF IndInv, PageInv
<1> QED BY <1>2, <1>5, <1>8, <1>9, <1>10 DEF IndInv

(* A getEvents response starts right after what is handled, and its cursor  *)
(* cuts the log right after its last event.                                 *)
LEMMA GetEventsKeepsInv ==
  ASSUME TypeOK, IndInv, GetEvents
  PROVE  TypeOK' /\ IndInv'
<1>1. /\ UNCHANGED ledgerVars
      /\ startLedger' = startLedger /\ cursor' = cursor /\ db' = db
      /\ origin' = origin /\ done' = done /\ failed' = failed
      /\ boundVars' = boundVars /\ dbCursor' = dbCursor
      /\ pc \in {"poll", "retry"} /\ pc' = "apply" /\ InRange
  BY DEF GetEvents
<1>2. /\ log' = log /\ latest' = latest /\ LedgerTypeOK' /\ LogInv'
      /\ Oldest' = Oldest /\ Expired' = Expired
      /\ \A c : CutsLog(c)' <=> CutsLog(c)
      /\ \A p, c, l : Wanted(p, c, l)' <=> Wanted(p, c, l)
  BY <1>1, SameLog DEF TypeOK, IndInv
<1>3. PICK lo \in 1 .. Len(log) + 1, last \in 0 .. Len(log) :
        /\ \A p \in 1 .. Len(log) : p >= lo <=> Wanted(p, cursor, FromLedger)
        /\ \A p \in 1 .. Len(log) : p <= last <=> log[p].ledger <= ScanEnd
        /\ page' = Response(lo, last)
        /\ next' = lo
  BY DEF GetEvents
<1> DEFINE F == FromLedger
           E == ScanEnd
           hi == MinOf(last, lo + PageLimit - 1)
           full == hi - lo + 1 = PageLimit
           R == IF full THEN log[hi].ledger ELSE E
<1>b. /\ latest \in Nat /\ cursor.ledger \in Nat /\ cursor.pos \in Nat
      /\ \A p \in 1 .. Len(log) : log[p].ledger \in Nat
  BY Basics
<1>4. /\ F \in Nat /\ F >= 1 /\ F <= latest
      /\ F = startLedger
      /\ cursor # NoCursor => F = cursor.ledger
  BY <1>1, Basics, SMTT(20) DEF InRange, FromLedger, FromOf, IndInv, PollInv
<1>5. E \in Nat /\ F <= E /\ E <= latest
  <2>1. ScanWindow \in Nat /\ ScanWindow >= 2
    BY IndexerAssumption
  <2>2. E = IF latest < F + ScanWindow - 1 THEN latest ELSE F + ScanWindow - 1
    BY DEF ScanEnd, MinOf
  <2> HIDE DEF F, E
  <2> QED BY <1>4, <1>b, <2>1, <2>2
<1>6. /\ lo \in Nat /\ last \in Nat /\ Len(log) \in Nat
      /\ lo >= 1 /\ lo <= Len(log) + 1 /\ last <= Len(log)
  BY Basics
<1>7. lo - 1 <= last
  <2> SUFFICES ASSUME lo - 1 \in 1 .. Len(log)
               PROVE  lo - 1 <= last
    BY <1>6
  <2>1. ~Wanted(lo - 1, cursor, F)
    BY <1>3, <1>6
  <2>2. log[lo - 1].ledger <= E
    <3>1. CASE lo - 1 > cursor.pos
      BY <1>4, <1>5, <2>1, <3>1, <1>b DEF Wanted
    <3>2. CASE lo - 1 <= cursor.pos
      <4>1. cursor # NoCursor
        BY <1>6, <3>2, NoCursorType
      <4>2. log[lo - 1].ledger <= cursor.ledger
        BY <1>1, <3>2, <4>1 DEF IndInv, MemInv, CutsLog
      <4> QED BY <1>4, <1>5, <4>1, <4>2, <1>b
    <3> QED BY <1>6, <3>1, <3>2, <1>b
  <2> QED BY <1>3, <2>2
<1>8. /\ hi \in Nat /\ lo <= hi + 1 /\ hi <= last
      /\ full => hi \in 1 .. Len(log) /\ lo <= hi
      /\ ~full => hi = last
  BY <1>6, <1>7, IndexerAssumption DEF MinOf
<1>9. page' = [lo |-> lo, hi |-> hi, resp |-> [ledger |-> R, pos |-> hi]]
  BY <1>3 DEF Response
<1>10. full => log[hi].ledger \in Nat /\ F <= log[hi].ledger /\ log[hi].ledger <= E
  <2> SUFFICES ASSUME full
               PROVE  log[hi].ledger \in Nat /\ F <= log[hi].ledger /\ log[hi].ledger <= E
    OBVIOUS
  <2>1. hi \in 1 .. Len(log) /\ lo <= hi /\ hi <= last
    BY <1>8
  <2>2. log[hi].ledger \in Nat
    BY <2>1, Basics
  <2>3. Wanted(hi, cursor, F)
    BY <1>3, <1>6, <2>1
  <2>4. log[hi].ledger <= E
    BY <1>3, <2>1
  <2> QED BY <2>2, <2>3, <2>4, <1>4 DEF Wanted
<1>11. R \in Nat /\ F <= R /\ R <= latest
  BY <1>4, <1>5, <1>10, <1>b
<1>12. \A p \in 1 .. Len(log) : /\ p <= hi => log[p].ledger <= R
                                /\ p > hi => log[p].ledger >= R
  <2>1. CASE full
    <3>1. R = log[hi].ledger /\ hi \in 1 .. Len(log)
      BY <2>1, <1>8
    <3>2. \A p \in 1 .. Len(log) : p > hi => hi <= p
      BY <1>8
    <3> QED BY <3>1, <3>2 DEF IndInv, LogInv
  <2>2. CASE ~full
    <3>1. R = E /\ hi = last
      BY <2>2, <1>8
    <3>2. \A p \in 1 .. Len(log) : /\ p <= last => log[p].ledger <= E
                                   /\ p > last => ~(log[p].ledger <= E)
      BY <1>3, <1>6
    <3> HIDE DEF E, R, hi
    <3> QED BY <3>1, <3>2, <1>5, <1>b
  <2> QED BY <2>1, <2>2
<1>13. /\ page'.lo = lo /\ page'.hi = hi /\ page'.resp = [ledger |-> R, pos |-> hi]
       /\ page'.resp.ledger = R /\ page'.resp.pos = hi
  BY <1>9
<1> HIDE DEF F, E, R, full, hi
<1>14. page' \in [lo: Nat, hi: Nat, resp: Cursor] /\ next' \in Nat
  BY <1>3, <1>6, <1>8, <1>9, <1>11 DEF Cursor
<1>15. TypeOK'
  BY <1>1, <1>2, <1>14 DEF TypeOK, boundVars
<1>16. CutsLog([ledger |-> R, pos |-> hi])
  <2>1. R >= 1 /\ R <= latest /\ hi <= Len(log)
    BY <1>4, <1>6, <1>8, <1>11, Basics
  <2> QED BY <1>12, <2>1 DEF CutsLog
<1>17. (\A p : Handled(p)' <=> Handled(p)) /\ (\A p : IsPending(p)' <=> IsPending(p))
  BY <1>1, <1>2 DEF Handled, IsPending
<1>18. DurableInv' /\ MemInv' /\ PollInv'
  BY <1>1, <1>2, <1>17 DEF IndInv, DurableInv, MemInv, PollInv
<1>19. PageInv'
  <2>1. ASSUME NEW p \in 1 .. Len(log)
        PROVE  /\ p < lo => Handled(p)
               /\ p >= lo => IsPending(p)
    <3>1. IF Wanted(p, cursor, FromLedger) THEN IsPending(p) ELSE Handled(p)
      BY <1>1 DEF IndInv, PollInv
    <3>2. p < lo => ~(p >= lo)
      BY <1>6
    <3> QED BY <1>3, <3>1, <3>2
  <2>2. \A p \in 1 .. Len(log') : /\ p < next' => Handled(p)'
                                  /\ p >= page'.lo => IsPending(p)'
    BY <1>2, <1>3, <1>13, <1>17, <2>1
  <2>3. CutsLog(page.resp)'
    BY <1>2, <1>13, <1>16 DEF CutsLog
  <2>4. startLedger' <= page'.resp.ledger
    BY <1>1, <1>4, <1>11, <1>13
  <2>5. page'.lo >= 1 /\ page'.lo <= next' /\ next' <= page'.hi + 1
    BY <1>3, <1>6, <1>8, <1>13
  <2> QED BY <1>1, <1>13, <2>2, <2>3, <2>4, <2>5 DEF PageInv
<1> QED BY <1>2, <1>15, <1>18, <1>19 DEF IndInv

(* The end of a page: everything up to the response's cursor is handled.    *)
LEMMA EndPageKeepsInv ==
  ASSUME TypeOK, IndInv, EndPage
  PROVE  /\ TypeOK' /\ IndInv'
         /\ \A p \in 1 .. Len(log) : IsPending(p)' => IsPending(p)
         /\ dbCursor'.ledger >= dbCursor.ledger
<1> DEFINE c == page.resp
<1>1. /\ UNCHANGED ledgerVars
      /\ db' = db /\ origin' = origin /\ done' = done /\ failed' = failed
      /\ crashes' = crashes /\ applyFaults' = applyFaults
      /\ pc = "apply" /\ next > page.hi /\ pc' = "poll"
      /\ cursor' = c /\ startLedger' = MaxOf(startLedger, c.ledger)
      /\ page' = NoPage /\ next' = 1
  BY DEF EndPage
<1>2. /\ log' = log /\ latest' = latest /\ LedgerTypeOK' /\ LogInv'
      /\ Oldest' = Oldest /\ Expired' = Expired
      /\ \A d : CutsLog(d)' <=> CutsLog(d)
      /\ \A p, d, l : Wanted(p, d, l)' <=> Wanted(p, d, l)
  BY <1>1, SameLog DEF TypeOK, IndInv
<1>b. /\ latest \in Nat /\ c \in Cursor /\ c.ledger \in Nat /\ c.pos \in Nat
      /\ \A p \in 1 .. Len(log) : log[p].ledger \in Nat
      /\ startLedger \in Nat /\ dbCursor.ledger \in Nat /\ next \in Nat
      /\ page.hi \in Nat /\ page.lo \in Nat
  BY Basics
<1>3. /\ c.ledger >= 1 /\ c.ledger <= latest /\ CutsLog(c) /\ c.pos = page.hi
      /\ startLedger <= c.ledger /\ dbCursor.ledger <= startLedger
      /\ page.lo <= page.hi + 1
  BY <1>1, <1>b DEF IndInv, PageInv, MemInv, CutsLog
<1>4. c # NoCursor
  BY <1>3, NoCursorType
<1>5. startLedger' = c.ledger
  BY <1>1, <1>3, <1>b DEF MaxOf
<1>6. \A p : Handled(p)' <=> Handled(p)
  BY <1>1, <1>2 DEF Handled
<1>7. \A p \in 1 .. Len(log) : Wanted(p, c, c.ledger) <=> p > page.hi
  BY <1>3, <1>b DEF Wanted, CutsLog
<1>8. \A p \in 1 .. Len(log) : IF p > page.hi THEN IsPending(p) ELSE Handled(p)
  <2>1. \A p \in 1 .. Len(log) : /\ p > page.hi => p >= page.lo
                                 /\ ~(p > page.hi) => p < next
    BY <1>1, <1>3, <1>b
  <2> QED BY <1>1, <2>1 DEF IndInv, PageInv
<1>9. FromLedger' = c.ledger
  BY <1>1, <1>4 DEF FromLedger, FromOf
<1>10. \A p \in 1 .. Len(log) : Wanted(p, cursor, FromLedger)' <=> p > page.hi
  BY <1>1, <1>2, <1>7, <1>9 DEF Wanted
<1>11. page' \in [lo: Nat, hi: Nat, resp: Cursor]
  BY <1>1, NoCursorType DEF NoPage
<1>12. \/ /\ dbCursor' = [row |-> TRUE, ledger |-> c.ledger, cur |-> c]
          /\ cursorFaults' = cursorFaults
       \/ /\ dbCursor' = dbCursor
          /\ cursorFaults < MaxCursorFaults /\ cursorFaults' = cursorFaults + 1
  BY <1>1, <1>5 DEF EndPage
<1>13. cursorFaults' \in 0 .. MaxCursorFaults
  <2>1. cursorFaults \in 0 .. MaxCursorFaults /\ MaxCursorFaults \in Nat
    BY IndexerAssumption DEF TypeOK
  <2> QED BY <1>12, <2>1
<1>14. PageInv'
  BY <1>1 DEF PageInv
<1> HIDE DEF c
<1>15. CASE dbCursor' = [row |-> TRUE, ledger |-> c.ledger, cur |-> c]
  <2>1. dbCursor'.row /\ dbCursor'.ledger = c.ledger /\ dbCursor'.cur = c
    BY <1>15
  <2>2. \A p \in 1 .. Len(log) : IsPending(p)' <=> p > page.hi
    BY <1>2, <1>4, <1>7, <2>1 DEF IsPending, FromOf, Wanted
  <2>3. TypeOK'
    BY <1>1, <1>2, <1>5, <1>11, <1>13, <1>15, <1>b DEF TypeOK
  <2>4. DurableInv'
    <3>1. \A p \in 1 .. Len(log) : ~IsPending(p)' => Handled(p)'
      BY <1>6, <1>8, <2>2
    <3> QED BY <1>2, <1>3, <2>1, <3>1 DEF DurableInv
  <2>5. MemInv'
    BY <1>1, <1>2, <1>3, <1>5, <1>b, <2>1 DEF MemInv
  <2>6. PollInv'
    <3>1. \A p \in 1 .. Len(log) :
            IF Wanted(p, cursor, FromLedger)' THEN IsPending(p)' ELSE Handled(p)'
      BY <1>6, <1>8, <1>10, <2>2
    <3> QED BY <1>1, <1>2, <1>5, <3>1 DEF PollInv
  <2>7. dbCursor'.ledger >= dbCursor.ledger
    BY <1>3, <1>b, <2>1
  <2> QED BY <1>2, <1>8, <1>14, <2>2, <2>3, <2>4, <2>5, <2>6, <2>7 DEF IndInv
<1>16. CASE dbCursor' = dbCursor
  <2>2. \A p : IsPending(p)' <=> IsPending(p)
    BY <1>2, <1>16 DEF IsPending
  <2>3. TypeOK'
    BY <1>1, <1>2, <1>5, <1>11, <1>13, <1>16, <1>b DEF TypeOK
  <2>4. DurableInv'
    BY <1>2, <1>6, <1>16, <2>2 DEF IndInv, DurableInv
  <2>5. MemInv'
    BY <1>1, <1>2, <1>3, <1>5, <1>b, <1>16 DEF MemInv
  <2>6. PollInv'
    <3>1. \A p \in 1 .. Len(log) :
            IF Wanted(p, cursor, FromLedger)' THEN IsPending(p)' ELSE Handled(p)'
      BY <1>6, <1>8, <1>10, <2>2
    <3> QED BY <1>1, <1>2, <1>5, <3>1 DEF PollInv
  <2> QED BY <1>2, <1>14, <1>16, <1>b, <2>2, <2>3, <2>4, <2>5, <2>6 DEF IndInv
<1> QED BY <1>12, <1>15, <1>16

-----------------------------------------------------------------------------
(* The empty tables are well typed.                                         *)
LEMMA EmptyDBType == EmptyDB \in DBType
<1>1. EmptyDB.trades \in TradeTable /\ EmptyDB.limits \in LimitTable
  BY DEF EmptyDB, TradeTable, LimitTable
<1>2. EmptyDB.limitHist \in Seq(Resolution)
  BY DEF EmptyDB
<1> QED BY <1>1, <1>2 DEF EmptyDB, DBType

(* The invariant holds initially.                                           *)
LEMMA InitInv ==
  ASSUME Init
  PROVE  TypeOK /\ IndInv
<1>1. Len(log) = 0 /\ log \in Seq(Event) /\ latest = 1 /\ dbCursor.row = FALSE
  BY DEF Init, LedgerInit
<1>2. LedgerTypeOK
  <2>1. chain.trades \in TradeTable /\ chain.limits \in LimitTable
    BY DEF Init, LedgerInit, TradeTable, LimitTable
  <2>2. chain.resolved = <<>> /\ chain.resolved \in Seq(Resolution)
    BY DEF Init, LedgerInit
  <2>3. chain \in ChainType
    BY <2>1, <2>2 DEF Init, LedgerInit, ChainType
  <2> QED BY <1>1, <2>3, LedgerAssumption DEF LedgerTypeOK, ChainType
<1>3. db \in DBType
  BY EmptyDBType DEF Init
<1>4. TypeOK
  BY <1>1, <1>2, <1>3, NoCursorType, IndexerAssumption DEF Init, TypeOK, NoPage
<1>5. LogInv /\ DurableInv /\ MemInv /\ PollInv /\ PageInv
  BY <1>1 DEF Init, LogInv, DurableInv, MemInv, PollInv, PageInv
<1> QED BY <1>4, <1>5 DEF IndInv

(* Stuttering keeps the invariant.                                          *)
LEMMA StutterKeepsInv ==
  ASSUME TypeOK, IndInv, UNCHANGED vars
  PROVE  TypeOK' /\ IndInv'
<1>1. /\ UNCHANGED ledgerVars
      /\ startLedger' = startLedger /\ cursor' = cursor
      /\ page' = page /\ next' = next /\ db' = db /\ origin' = origin
      /\ done' = done /\ failed' = failed /\ boundVars' = boundVars
      /\ dbCursor' = dbCursor /\ pc' = pc
  BY DEF vars, indexerVars, memVars
<1>2. /\ log' = log /\ latest' = latest /\ LedgerTypeOK' /\ LogInv'
      /\ Expired' = Expired
      /\ \A c : CutsLog(c)' <=> CutsLog(c)
      /\ \A p, c, l : Wanted(p, c, l)' <=> Wanted(p, c, l)
  BY <1>1, SameLog DEF TypeOK, IndInv
<1>3. (\A p : Handled(p)' <=> Handled(p)) /\ (\A p : IsPending(p)' <=> IsPending(p))
  BY <1>1, <1>2 DEF Handled, IsPending
<1>4. FromLedger' = FromLedger
  BY <1>1 DEF FromLedger
<1>5. TypeOK'
  BY <1>1, <1>2 DEF TypeOK, boundVars
<1>6. DurableInv' /\ MemInv' /\ PollInv' /\ PageInv'
  BY <1>1, <1>2, <1>3, <1>4 DEF IndInv, DurableInv, MemInv, PollInv, PageInv, Wanted
<1> QED BY <1>2, <1>5, <1>6 DEF IndInv

(* Every step keeps the invariant.                                          *)
LEMMA NextKeepsInv ==
  ASSUME TypeOK, IndInv, [Next]_vars
  PROVE  TypeOK' /\ IndInv'
<1>1. CASE LedgerStep
  BY <1>1, LedgerKeepsInv
<1>2. CASE IndexerStep
  BY <1>2, BootKeepsInv, GetEventsKeepsInv, ClampKeepsInv, RetryErrorKeepsInv,
     EventErrorKeepsInv, ApplyEventKeepsInv, FanoutKeepsInv, EndPageKeepsInv,
     CrashKeepsInv DEF IndexerStep
<1>3. CASE UNCHANGED vars
  BY <1>3, StutterKeepsInv
<1> QED BY <1>1, <1>2, <1>3 DEF Next

(* Every table, cursor and counter of the indexer keeps its type: in        *)
(* particular Apply (store.go:55-98) is only called on positions of the log *)
(* and with a non-negative event index, and pair_oi never goes negative.    *)
THEOREM TypeCorrect == Spec => []TypeOK
<1>1. TypeOK /\ IndInv /\ [Next]_vars => (TypeOK /\ IndInv)'
  BY NextKeepsInv
<1>2. Init => TypeOK /\ IndInv
  BY InitInv
<1> QED BY <1>1, <1>2, PTL DEF Spec

(* The running process is never behind the persisted cursor and never ahead *)
(* of what it has handled (pollOnce, decideStartCursor).                    *)
THEOREM Inductive == Spec => []IndInv
<1>1. TypeOK /\ IndInv /\ [Next]_vars => (TypeOK /\ IndInv)'
  BY NextKeepsInv
<1>2. Init => TypeOK /\ IndInv
  BY InitInv
<1> QED BY <1>1, <1>2, PTL DEF Spec

(* The persisted cursor never passes an event that was neither applied and  *)
(* fanned out, nor reported as failed, nor expired at the RPC: pollOnce     *)
(* writes it only after the page, and clamps only past expired ledgers.     *)
THEOREM NothingLostSilently == Spec => []NoSilentLoss
<1>1. TypeOK /\ IndInv => NoSilentLoss
  <2> SUFFICES ASSUME TypeOK, IndInv, NEW p \in 1 .. Len(log),
                      p \notin Pending, log[p].ledger >= origin
               PROVE  p \in done \cup failed \cup Expired
    BY DEF NoSilentLoss
  <2>1. ~IsPending(p)
    BY DEF Pending
  <2>2. Handled(p)
    BY <2>1 DEF IndInv, DurableInv
  <2>3. ~(log[p].ledger < origin)
    BY Basics, SMTT(20)
  <2> QED BY <2>2, <2>3 DEF Handled
<1> QED BY <1>1, TypeCorrect, Inductive, PTL

(* Neither WriteCursor call of pollOnce moves the persisted position back:  *)
(* no event behind it becomes pending again, and last_ledger never falls.   *)
THEOREM CursorNeverMovesBack == Spec => ResumeMonotone
<1> DEFINE Mono == /\ Pending' \cap (1 .. Len(log)) \subseteq Pending
                   /\ dbCursor'.ledger >= dbCursor.ledger
<1>1. ASSUME TypeOK, IndInv, TypeOK', Next PROVE Mono
  <2>1. ASSUME \A p \in 1 .. Len(log) : IsPending(p)' => IsPending(p)
        PROVE  Pending' \cap (1 .. Len(log)) \subseteq Pending
    BY <2>1 DEF Pending
  <2>2. CASE Clamp \/ EndPage
    <3>1. (\A p \in 1 .. Len(log) : IsPending(p)' => IsPending(p))
            /\ dbCursor'.ledger >= dbCursor.ledger
      BY <1>1, <2>2, ClampKeepsInv, EndPageKeepsInv
    <3> QED BY <2>1, <3>1
  <2>3. CASE ~(Clamp \/ EndPage)
    <3>1. dbCursor' = dbCursor /\ \A p \in 1 .. Len(log) : log'[p] = log[p]
      <4>1. CASE LedgerStep
        <5>1. Grows
          BY <1>1, <4>1, LedgerGrows DEF LedgerStep, TypeOK
        <5> QED BY <4>1, <5>1 DEF LedgerStep, indexerVars, Grows
      <4>2. CASE IndexerStep
        BY <2>3, <4>2 DEF IndexerStep, Boot, GetEvents, RetryError, EventError, ApplyEvent,
           Fanout, Crash, ledgerVars
      <4> QED BY <1>1, <4>1, <4>2 DEF Next
    <3>2. \A p \in 1 .. Len(log) : IsPending(p)' => IsPending(p)
      BY <3>1 DEF IsPending, Wanted
    <3>3. dbCursor'.ledger >= dbCursor.ledger
      BY <1>1, <3>1, Basics
    <3> QED BY <2>1, <3>2, <3>3
  <2> QED BY <2>2, <2>3
<1>2. TypeOK /\ IndInv /\ TypeOK' /\ [Next]_vars => [Mono]_vars
  BY <1>1
<1>3. Spec => [][Mono]_vars
  BY <1>2, TypeCorrect, Inductive, PTL DEF Spec
<1> QED BY <1>3 DEF ResumeMonotone

-----------------------------------------------------------------------------
(* The indexer implements Delivery: every step of Indexer is a step of the  *)
(* at-least-once specification or changes none of its variables.            *)

(* The variables of Delivery, as Indexer maps them.                         *)
PendingHere == Pending \cap Offered
ExpiredHere == Expired \cap Offered
HandledHere == done \cup failed

(* The ledger a start without a cursor chose never moves back: the          *)
(* configured one is always the same, the tip only grows.                   *)
OriginInv ==
  /\ StartLedger > 0 => origin \in {0, StartLedger}
  /\ StartLedger = 0 => origin <= latest

FullInv == TypeOK /\ IndInv /\ OriginInv

(* The steps of Delivery on the mapped variables                            *)
MappedOffer ==
  /\ Offered \subseteq Offered' /\ Offered' \subseteq 1 .. MaxEvents
  /\ PendingHere' = PendingHere \cup (Offered' \ Offered)
  /\ ExpiredHere \subseteq ExpiredHere' /\ ExpiredHere' \subseteq Offered'
  /\ Skipped \subseteq Skipped' /\ Skipped' \ Skipped \subseteq Offered' \ Offered
  /\ HandledHere' = HandledHere

MappedHandle ==
  /\ \E p \in PendingHere : HandledHere' = HandledHere \cup {p}
  /\ Offered' = Offered /\ PendingHere' = PendingHere
  /\ ExpiredHere' = ExpiredHere /\ Skipped' = Skipped

MappedCommit ==
  /\ PendingHere' \subseteq PendingHere
  /\ PendingHere \ PendingHere' \subseteq HandledHere \cup ExpiredHere \cup Skipped
  /\ Offered' = Offered /\ HandledHere' = HandledHere
  /\ ExpiredHere' = ExpiredHere /\ Skipped' = Skipped

MappedChooseStart ==
  /\ PendingHere = Offered
  /\ Skipped \subseteq Skipped' /\ Skipped' \subseteq Offered
  /\ Offered' = Offered /\ PendingHere' = PendingHere
  /\ HandledHere' = HandledHere /\ ExpiredHere' = ExpiredHere

MappedStutter ==
  /\ Offered' = Offered /\ PendingHere' = PendingHere
  /\ HandledHere' = HandledHere /\ ExpiredHere' = ExpiredHere
  /\ Skipped' = Skipped

-----------------------------------------------------------------------------
(* With log, cursor row and origin fixed, so are the mapped sets.           *)
LEMMA SameSets ==
  ASSUME UNCHANGED ledgerVars
  PROVE  /\ Offered' = Offered /\ ExpiredHere' = ExpiredHere
         /\ dbCursor' = dbCursor => PendingHere' = PendingHere
         /\ origin' = origin => Skipped' = Skipped
<1>1. log' = log /\ latest' = latest /\ Expired' = Expired
  BY SameLog
<1>2. Offered' = Offered
  BY <1>1 DEF Offered
<1>3. dbCursor' = dbCursor => PendingHere' = PendingHere
  BY <1>1, <1>2 DEF PendingHere, Pending, IsPending, Wanted
<1> QED
  BY <1>1, <1>2, <1>3 DEF ExpiredHere, Skipped

(* An event beyond the visible ledgers is in front of the persisted cursor. *)
LEMMA NewIsPending ==
  ASSUME FullInv, Grows, dbCursor' = dbCursor, NEW p \in Offered' \ Offered
  PROVE  p \in Pending'
<1>1. /\ Len(log) \in Nat /\ latest \in Nat
      /\ dbCursor.cur.pos \in Nat /\ dbCursor.cur.ledger \in Nat /\ dbCursor.ledger \in Nat
      /\ \A q \in 1 .. Len(log) : log[q].ledger \in Nat
  BY Basics DEF FullInv
<1>2. p \in 1 .. Len(log') /\ Len(log') \in Nat
  BY DEF Offered, Grows
<1>3. log'[p].ledger \in Nat /\ log'[p].ledger > latest
  <2>1. CASE p \in 1 .. Len(log)
    BY <1>1, <2>1 DEF Offered, Grows
  <2>2. CASE p \notin 1 .. Len(log)
    BY <1>1, <1>2, <2>2 DEF Grows
  <2> QED BY <2>1, <2>2
<1>4. ASSUME dbCursor.row
      PROVE  Wanted(p, dbCursor.cur, FromOf(dbCursor.cur, dbCursor.ledger))'
  <2>1. CASE dbCursor.cur = NoCursor
    <3>1. dbCursor.ledger <= latest
      BY <1>4 DEF FullInv, IndInv, DurableInv
    <3> QED
      BY <1>1, <1>2, <1>3, <2>1, <3>1, NoCursorType DEF Wanted, FromOf
  <2>2. CASE dbCursor.cur # NoCursor
    <3>1. CutsLog(dbCursor.cur)
      BY <2>2 DEF FullInv, IndInv, DurableInv
    <3>2. /\ dbCursor.cur.ledger <= latest /\ dbCursor.cur.pos <= Len(log)
          /\ \A q \in 1 .. Len(log) : q <= dbCursor.cur.pos =>
                                        log[q].ledger <= dbCursor.cur.ledger
      BY <3>1 DEF CutsLog
    <3>3. p > dbCursor.cur.pos
      <4>1. CASE p \in 1 .. Len(log)
        <5>1. log[p].ledger > latest
          BY <1>3, <4>1 DEF Grows
        <5> QED
          BY <1>1, <3>2, <4>1, <5>1
      <4>2. CASE p \notin 1 .. Len(log)
        BY <1>1, <1>2, <3>2, <4>2
      <4> QED BY <4>1, <4>2
    <3> QED
      BY <1>1, <1>3, <2>2, <3>2, <3>3 DEF Wanted, FromOf
  <2> QED BY <2>1, <2>2
<1> QED
  BY <1>2, <1>4 DEF Pending, IsPending

(* A closing ledger offers its events.                                      *)
LEMMA LedgerOffers ==
  ASSUME FullInv, LedgerStep
  PROVE  MappedOffer
<1>1. Grows /\ UNCHANGED indexerVars
  BY LedgerGrows DEF LedgerStep, FullInv, TypeOK
<1>2. /\ dbCursor' = dbCursor /\ origin' = origin /\ HandledHere' = HandledHere
  BY <1>1 DEF indexerVars, HandledHere
<1>3. /\ Len(log) \in Nat /\ Len(log') \in Nat /\ latest \in Nat /\ latest' \in Nat
      /\ Len(log) <= Len(log') /\ latest <= latest' /\ Len(log') <= MaxEvents
      /\ \A q \in 1 .. Len(log) : q \in 1 .. Len(log') /\ log'[q] = log[q]
      /\ \A q \in 1 .. Len(log) : log[q].ledger \in Nat
  <2>1. /\ Len(log) \in Nat /\ latest \in Nat
        /\ \A q \in 1 .. Len(log) : log[q].ledger \in Nat
    BY Basics DEF FullInv
  <2>2. log' \in Seq(Event) /\ Len(log') <= MaxEvents /\ Len(log) <= Len(log')
    BY <1>1 DEF Grows
  <2>3. latest' \in Nat /\ latest <= latest'
    BY <1>1 DEF Grows
  <2>4. \A q \in 1 .. Len(log) : log'[q] = log[q]
    BY <1>1 DEF Grows
  <2>5. Len(log') \in Nat
    BY <2>2
  <2>6. \A q \in 1 .. Len(log) : q \in 1 .. Len(log')
    BY <2>1, <2>2, <2>5
  <2> QED BY <2>1, <2>2, <2>3, <2>4, <2>5, <2>6
<1>4. Offered \subseteq Offered'
  BY <1>3 DEF Offered
<1>5. Offered' \subseteq 1 .. MaxEvents
  BY <1>3, LedgerAssumption DEF Offered
<1>6. \A p \in Offered : p \in Pending' <=> p \in Pending
  BY <1>2, <1>3 DEF Offered, Pending, IsPending, Wanted
<1>7. PendingHere' = PendingHere \cup (Offered' \ Offered)
  BY <1>1, <1>2, <1>4, <1>6, NewIsPending DEF PendingHere
<1>8. Oldest \in Nat /\ Oldest' \in Nat /\ Oldest <= Oldest'
  <2>1. latest \in Nat \ {0} /\ latest' \in Nat \ {0} /\ latest <= latest'
    BY <1>1 DEF Grows, FullInv, TypeOK, LedgerTypeOK
  <2> QED BY <2>1, OldestMonotone
<1>9. ExpiredHere \subseteq ExpiredHere'
  BY <1>3, <1>4, <1>8 DEF ExpiredHere, Expired, Offered
<1>10. ExpiredHere' \subseteq Offered'
  BY DEF ExpiredHere
<1>11. Skipped \subseteq Skipped' /\ Skipped' \ Skipped \subseteq Offered' \ Offered
  BY <1>2, <1>3, <1>4 DEF Skipped, Offered
<1> QED
  BY <1>2, <1>4, <1>5, <1>7, <1>9, <1>10, <1>11 DEF MappedOffer

(* A start without a cursor row chooses, while everything is pending.       *)
LEMMA BootChooses ==
  ASSUME FullInv, Boot
  PROVE  MappedChooseStart \/ MappedStutter
<1>1. UNCHANGED ledgerVars /\ dbCursor' = dbCursor /\ HandledHere' = HandledHere
  BY DEF Boot, HandledHere
<1>2. Offered' = Offered /\ ExpiredHere' = ExpiredHere /\ PendingHere' = PendingHere
  BY <1>1, SameSets
<1>3. CASE origin' = origin
  BY <1>1, <1>2, <1>3, SameSets DEF MappedStutter
<1>4. CASE origin' # origin
  <2>1. /\ dbCursor.ledger = 0 /\ dbCursor.cur = NoCursor
        /\ origin' = IF StartLedger > 0 THEN StartLedger ELSE latest
    BY <1>4 DEF Boot
  <2>2. ~dbCursor.row
    BY <2>1 DEF FullInv, IndInv, DurableInv
  <2>3. PendingHere = Offered
    BY <2>2 DEF PendingHere, Pending, IsPending, Offered
  <2>4. origin \in Nat /\ origin' \in Nat /\ origin <= origin'
    BY <2>1, Basics, IndexerAssumption DEF FullInv, OriginInv
  <2>5. log' = log /\ \A p \in Offered : log[p].ledger \in Nat
    BY <1>1, Basics DEF ledgerVars, FullInv, Offered
  <2>6. Skipped \subseteq Skipped' /\ Skipped' \subseteq Offered
    BY <1>2, <2>4, <2>5 DEF Skipped
  <2> QED
    BY <1>1, <1>2, <2>3, <2>6 DEF MappedChooseStart
<1> QED BY <1>3, <1>4

(* Fetching, applying, retrying and crashing change nothing of Delivery.    *)
LEMMA SilentSteps ==
  ASSUME GetEvents \/ RetryError \/ ApplyEvent \/ Crash
  PROVE  MappedStutter
<1>1. /\ UNCHANGED ledgerVars /\ dbCursor' = dbCursor /\ origin' = origin
      /\ done' = done /\ failed' = failed
  BY DEF GetEvents, RetryError, ApplyEvent, Crash
<1> QED
  BY <1>1, SameSets DEF MappedStutter, HandledHere

(* The event in hand is visible and pending.                                *)
LEMMA InHandIsPending ==
  ASSUME FullInv, pc \in {"apply", "fanout"}, next <= page.hi
  PROVE  next \in PendingHere
<1>1. next \in 1 .. Len(log) /\ log[next].ledger <= page.resp.ledger /\ page.lo <= next
      /\ log[next].ledger \in Nat
  BY InPageFacts DEF FullInv, IndInv, PageInv
<1>2. page.resp.ledger <= latest /\ \A p \in 1 .. Len(log) : p >= page.lo => IsPending(p)
  BY DEF FullInv, IndInv, PageInv, CutsLog
<1>3. page.resp.ledger \in Nat /\ latest \in Nat /\ page.lo \in Nat
  BY Basics DEF FullInv
<1>4. log[next].ledger <= latest /\ IsPending(next)
  BY <1>1, <1>2, <1>3
<1> QED
  BY <1>1, <1>4 DEF PendingHere, Pending, Offered

(* An event is done with, or its error reported, while it is pending.       *)
LEMMA EventIsHandled ==
  ASSUME FullInv, EventError \/ Fanout
  PROVE  MappedHandle
<1>1. pc \in {"apply", "fanout"} /\ next <= page.hi
  BY DEF EventError, InPage, Fanout, FullInv, IndInv, PageInv
<1>2. next \in PendingHere
  BY <1>1, InHandIsPending
<1>3. /\ UNCHANGED ledgerVars /\ dbCursor' = dbCursor /\ origin' = origin
      /\ HandledHere' = HandledHere \cup {next}
  BY DEF EventError, Fanout, HandledHere
<1> QED
  BY <1>2, <1>3, SameSets DEF MappedHandle

(* The resume point passes only what the invariant accounts for.            *)
LEMMA CursorCommits ==
  ASSUME FullInv, Clamp \/ EndPage
  PROVE  MappedCommit
<1>1. /\ UNCHANGED ledgerVars /\ origin' = origin
      /\ done' = done /\ failed' = failed
  BY DEF Clamp, EndPage
<1>2. /\ IndInv' /\ \A p \in 1 .. Len(log) : IsPending(p)' => IsPending(p)
  BY ClampKeepsInv, EndPageKeepsInv DEF FullInv
<1>3. log' = log /\ Expired' = Expired
  BY <1>1, SameLog
<1>4. Offered' = Offered /\ ExpiredHere' = ExpiredHere /\ Skipped' = Skipped
  BY <1>1, SameSets
<1>5. PendingHere' \subseteq PendingHere
  BY <1>2, <1>3, <1>4 DEF PendingHere, Pending
<1>6. ASSUME NEW p \in PendingHere, p \notin PendingHere'
      PROVE  p \in HandledHere \cup ExpiredHere \cup Skipped
  <2>1. p \in Offered /\ p \in 1 .. Len(log)
    BY DEF PendingHere, Pending
  <2>2. ~IsPending(p)'
    BY <1>3, <1>4, <1>6, <2>1 DEF PendingHere, Pending
  <2>3. Handled(p)'
    BY <1>2, <1>3, <2>1, <2>2 DEF IndInv, DurableInv
  <2>4. p \in done \cup failed \cup Expired \/ log[p].ledger < origin
    BY <1>1, <1>3, <2>3 DEF Handled
  <2> QED
    BY <2>1, <2>4 DEF HandledHere, ExpiredHere, Skipped
<1> QED
  BY <1>1, <1>4, <1>5, <1>6 DEF MappedCommit, HandledHere

-----------------------------------------------------------------------------
(* The chosen start keeps its range.                                        *)
LEMMA OriginKept ==
  ASSUME FullInv, [Next]_vars
  PROVE  OriginInv'
<1>1. origin \in Nat /\ latest \in Nat /\ StartLedger \in Nat
  BY Basics, IndexerAssumption DEF FullInv
<1>2. latest' \in Nat /\ latest <= latest'
  <2>1. CASE LedgerStep
    <3>1. Grows
      BY <2>1, LedgerGrows DEF LedgerStep, FullInv, TypeOK
    <3> QED BY <3>1 DEF Grows
  <2>2. CASE IndexerStep \/ UNCHANGED vars
    <3>1. latest' = latest
      BY <2>2 DEF IndexerStep, Boot, GetEvents, Clamp, RetryError, EventError, ApplyEvent,
         Fanout, EndPage, Crash, ledgerVars, vars
    <3> QED BY <1>1, <3>1
  <2> QED BY <2>1, <2>2 DEF Next
<1>3. CASE Boot
  <2>1. latest' = latest
    BY <1>3 DEF Boot, ledgerVars
  <2>2. origin' = origin \/ origin' = IF StartLedger > 0 THEN StartLedger ELSE latest
    BY <1>3 DEF Boot
  <2> QED
    BY <1>1, <2>1, <2>2 DEF OriginInv, FullInv
<1>4. CASE ~Boot
  <2>1. origin' = origin
    BY <1>4 DEF Next, LedgerStep, indexerVars, IndexerStep, GetEvents, Clamp, RetryError,
       EventError, ApplyEvent, Fanout, EndPage, Crash, vars
  <2> QED
    BY <1>1, <1>2, <2>1 DEF OriginInv, FullInv
<1> QED BY <1>3, <1>4

(* The invariant of the refinement.                                         *)
LEMMA FullInvariant == Spec => []FullInv
<1>1. Init => FullInv
  BY InitInv, IndexerAssumption DEF Init, LedgerInit, FullInv, OriginInv
<1>2. FullInv /\ [Next]_vars => FullInv'
  BY NextKeepsInv, OriginKept DEF FullInv
<1> QED BY <1>1, <1>2, PTL DEF Spec

(* Every step of the indexer is a step of Delivery, or a stutter.           *)
LEMMA StepRefines ==
  ASSUME FullInv, [Next]_vars
  PROVE  [D!Next]_(D!deliveryVars)
<1>1. \/ MappedOffer \/ MappedHandle \/ MappedCommit \/ MappedChooseStart \/ MappedStutter
  <2>1. CASE LedgerStep
    BY <2>1, LedgerOffers
  <2>2. CASE IndexerStep
    BY <2>2, BootChooses, SilentSteps, EventIsHandled, CursorCommits DEF IndexerStep
  <2>3. CASE UNCHANGED vars
    <3>1. /\ UNCHANGED ledgerVars /\ dbCursor' = dbCursor /\ origin' = origin
          /\ done' = done /\ failed' = failed
      BY <2>3 DEF vars, indexerVars
    <3> QED
      BY <3>1, SameSets DEF MappedStutter, HandledHere
  <2> QED BY <2>1, <2>2, <2>3 DEF Next
<1>2. CASE MappedOffer
  BY <1>2 DEF MappedOffer, D!Next, D!Offer, PendingHere, ExpiredHere, HandledHere
<1>3. CASE MappedHandle
  BY <1>3 DEF MappedHandle, D!Next, D!Handle, PendingHere, ExpiredHere, HandledHere
<1>4. CASE MappedCommit
  BY <1>4 DEF MappedCommit, D!Next, D!Commit, PendingHere, ExpiredHere, HandledHere
<1>5. CASE MappedChooseStart
  BY <1>5 DEF MappedChooseStart, D!Next, D!ChooseStart, PendingHere, ExpiredHere, HandledHere
<1>6. CASE MappedStutter
  BY <1>6 DEF MappedStutter, D!deliveryVars, PendingHere, ExpiredHere, HandledHere
<1> QED BY <1>1, <1>2, <1>3, <1>4, <1>5, <1>6

(* The indexer implements the safety part of at-least-once delivery: it     *)
(* handles an event only while a restart would fetch it, stops fetching it  *)
(* only when it was handled, had expired or lay before the chosen start,    *)
(* and chooses a start only while nothing was committed.                    *)
THEOREM DeliversAtLeastOnce == Spec => AtLeastOnce
<1>1. Init => D!Init
  <2>1. ASSUME Init PROVE Offered = {} /\ done = {} /\ failed = {}
    <3>1. log = <<>> /\ done = {} /\ failed = {}
      BY <2>1 DEF Init, LedgerInit
    <3>2. Len(log) = 0
      BY <3>1
    <3> QED BY <3>1, <3>2 DEF Offered
  <2> QED
    BY <2>1 DEF D!Init, D!deliveryVars, Skipped
<1>2. FullInv /\ [Next]_vars => [D!Next]_(D!deliveryVars)
  BY StepRefines
<1>3. Spec => D!Init /\ [][D!Next]_(D!deliveryVars)
  BY <1>1, <1>2, FullInvariant, PTL DEF Spec
<1> QED
  BY <1>3 DEF AtLeastOnce, D!Safe
=============================================================================
