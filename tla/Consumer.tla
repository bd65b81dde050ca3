------------------------------ MODULE Consumer ------------------------------
(***************************************************************************)
(* The in-memory copies of the open trades and orders: TradeCache in the   *)
(* API (internal/wsgateway/cache.go) and TradeState in the keeper          *)
(* (internal/keeper/state.go).  Both load the tables once and then follow  *)
(* the indexer's events on the Redis channel events:global, which delivers *)
(* to whoever is subscribed at that moment and to nobody else.             *)
(*                                                                         *)
(* Composes a consumer with the indexer; Redis itself is external.         *)
(***************************************************************************)
EXTENDS Indexer

CONSTANTS
  MaxRestarts,  \* bound on restarts of the consumer
  MaxLost,      \* bound on messages a subscriber loses
  MaxShortReads \* bound on loads that leave rows out

ASSUME ConsumerAssumption ==
  /\ MaxRestarts \in Nat /\ MaxLost \in Nat /\ MaxShortReads \in Nat

VARIABLES
  role,     \* "api": the consumer is TradeCache; "keeper": TradeState
  phase,    \* "down", "limits" (trades loaded), "loaded", "live" (subscribed)
  view,     \* the copy: per slot, the entries held for it
  inbox,    \* log positions on their way from Redis
  missed,   \* ghost: positions published to nobody since the load, or lost
  unread,   \* ghost: the slots whose rows the load left out, of each table
  restarts, \* bounds
  lost,
  shortReads

consumerVars == <<role, phase, view, inbox, missed, unread, restarts, lost, shortReads>>
allVars == <<vars, consumerVars>>

-----------------------------------------------------------------------------
(* A slot of the copy is a list of entries: TradeCache keeps a slice that   *)
(* would hold a trade twice if it were appended twice.  The keeper keeps no *)
(* take-profit and stop-loss for an order.                                  *)
TradeEntry(row) == <<row.terms>>
LimitEntry(terms, px) ==
  IF role = "api" THEN <<[terms |-> terms, px |-> px]>>
  ELSE <<[long |-> terms.long, px |-> px]>>

TradesOf(table) ==
  [k \in Key |-> IF table[k] = NoRow THEN <<>> ELSE TradeEntry(table[k])]
LimitsOf(table) ==
  [k \in Key |-> IF table[k] = NoRow THEN <<>>
                 ELSE LimitEntry(table[k].terms, table[k].px)]

AllRead == [trades |-> {}, limits |-> {}]
NoView == [trades |-> [k \in Key |-> <<>>], limits |-> [k \in Key |-> <<>>]]

WithHead(list, entry) == <<entry>> \o Tail(list)

(* Mutant of applyEvent: "opened" appends without looking.                  *)
applyEvent_Appends(v, e) ==
  CASE e.topic = "opened" -> [v EXCEPT !.trades[e.key] = Append(@, e.terms)]
    [] e.topic \in {"closed", "liq", "tp_sl_executed"} /\ v.trades[e.key] # <<>> ->
         [v EXCEPT !.trades[e.key] = Tail(@)]
    [] OTHER -> v

(* TradeCache.applyEvent: a slice, "opened" and "placed" add once.          *)
applyEvent(v, e) ==
  CASE e.topic = "opened" /\ v.trades[e.key] = <<>> ->
         [v EXCEPT !.trades[e.key] = Append(@, e.terms)]
    [] e.topic \in {"closed", "liq", "tp_sl_executed"} /\ v.trades[e.key] # <<>> ->
         [v EXCEPT !.trades[e.key] = Tail(@)]
    [] e.topic = "updated_tp_sl" /\ e.full /\ v.trades[e.key] # <<>> ->
         [v EXCEPT !.trades[e.key] = WithHead(@, WithTpSl(Head(@), e.terms))]
    [] e.topic = "placed" /\ e.full /\ v.limits[e.key] = <<>> ->
         [v EXCEPT !.limits[e.key] = LimitEntry(e.terms, e.px)]
    [] e.topic \in {"executed", "canceled"} /\ v.limits[e.key] # <<>> ->
         [v EXCEPT !.limits[e.key] = Tail(@)]
    [] e.topic = "updated_limit" /\ v.limits[e.key] # <<>> ->
         [v EXCEPT !.limits[e.key] =
            WithHead(@, IF e.full THEN Repriced(Head(@), e.terms, e.px)
                        ELSE Repriced(Head(@), [tp |-> 0, sl |-> 0], 0))]
    [] OTHER -> v

(* TradeState.Apply: a map, "opened" and "placed" overwrite.                *)
stateApply(v, e) ==
  CASE e.topic = "opened" -> [v EXCEPT !.trades[e.key] = <<e.terms>>]
    [] e.topic \in {"closed", "liq", "tp_sl_executed"} ->
         [v EXCEPT !.trades[e.key] = <<>>]
    [] e.topic = "updated_tp_sl" /\ e.full /\ v.trades[e.key] # <<>> ->
         [v EXCEPT !.trades[e.key] = <<WithTpSl(Head(@), e.terms)>>]
    [] e.topic = "placed" /\ e.full ->
         [v EXCEPT !.limits[e.key] = LimitEntry(e.terms, e.px)]
    [] e.topic \in {"executed", "canceled"} ->
         [v EXCEPT !.limits[e.key] = <<>>]
    [] e.topic = "updated_limit" /\ e.full /\ v.limits[e.key] # <<>> ->
         [v EXCEPT !.limits[e.key] = <<[Head(@) EXCEPT !.px = e.px]>>]
    [] OTHER -> v

ApplyTo(v, e) == IF role = "api" THEN applyEvent(v, e) ELSE stateApply(v, e)

-----------------------------------------------------------------------------
ConsumerInit ==
  /\ Init
  /\ role \in {"api", "keeper"}
  /\ phase = "down" /\ view = NoView /\ inbox = <<>> /\ missed = {}
  /\ unread = AllRead
  /\ restarts = 0 /\ lost = 0 /\ shortReads = 0

(* The rows of a load.  Both loops pass over a row that cannot be scanned,  *)
(* and TradeCache takes a result set that broke off for a complete one (it  *)
(* never asks rows.Err; TradeState does, and dies: a Restart).              *)
Without(table, gone) == [k \in Key |-> IF k \in gone THEN NoRow ELSE table[k]]
LeavesOut(table, gone) ==
  /\ gone \subseteq {k \in Key : table[k] # NoRow}
  /\ \/ gone = {} /\ UNCHANGED shortReads
     \/ gone # {} /\ shortReads < MaxShortReads /\ shortReads' = shortReads + 1

(* LoadFromDB: one query for the trades, a later one for the orders.        *)
LoadTrades ==
  /\ phase = "down"
  /\ phase' = "limits"
  /\ \E gone \in SUBSET Key :
       /\ LeavesOut(db.trades, gone)
       /\ unread' = [unread EXCEPT !.trades = gone]
       /\ view' = [view EXCEPT !.trades = TradesOf(Without(db.trades, gone))]
  /\ UNCHANGED <<vars, role, inbox, missed, restarts, lost>>

LoadLimits ==
  /\ phase = "limits"
  /\ phase' = "loaded"
  /\ \E gone \in SUBSET Key :
       /\ LeavesOut(db.limits, gone)
       /\ unread' = [unread EXCEPT !.limits = gone]
       /\ view' = [view EXCEPT !.limits = LimitsOf(Without(db.limits, gone))]
  /\ UNCHANGED <<vars, role, inbox, missed, restarts, lost>>

(* Only then does the goroutine start that subscribes to events:global.     *)
Subscribe ==
  /\ phase = "loaded"
  /\ phase' = "live"
  /\ UNCHANGED <<vars, role, view, inbox, missed, unread, restarts, lost, shortReads>>

(* The indexer's Fanout: the message reaches the subscriber of the moment.  *)
Publish ==
  /\ Fanout
  /\ \/ /\ phase = "live"
        /\ inbox' = Append(inbox, next)
        /\ UNCHANGED <<missed, lost>>
     \/ /\ phase = "live"
        /\ lost < MaxLost
        /\ lost' = lost + 1
        /\ missed' = missed \cup {next}
        /\ UNCHANGED inbox
     \/ /\ phase \in {"limits", "loaded"}
        /\ missed' = missed \cup {next}
        /\ UNCHANGED <<inbox, lost>>
     \/ /\ phase = "down"
        /\ UNCHANGED <<inbox, missed, lost>>
  /\ UNCHANGED <<role, phase, view, unread, restarts, shortReads>>

(* The consumer's goroutine takes a message.                                *)
Receive ==
  /\ phase = "live"
  /\ inbox # <<>>
  /\ view' = ApplyTo(view, log[Head(inbox)])
  /\ inbox' = Tail(inbox)
  /\ UNCHANGED <<vars, role, phase, missed, unread, restarts, lost, shortReads>>

(* The consumer's process restarts and loads again.                         *)
Restart ==
  /\ phase # "down"
  /\ restarts < MaxRestarts
  /\ restarts' = restarts + 1
  /\ phase' = "down" /\ view' = NoView /\ inbox' = <<>>
  /\ missed' = {} /\ unread' = AllRead
  /\ UNCHANGED <<vars, role, lost, shortReads>>

OtherIndexerStep == Boot \/ GetEvents \/ Clamp \/ RetryError \/ EventError
                      \/ ApplyEvent \/ EndPage \/ Crash

ConsumerNext ==
  \/ LoadTrades \/ LoadLimits \/ Subscribe \/ Publish \/ Receive \/ Restart
  \/ (OtherIndexerStep \/ LedgerStep) /\ UNCHANGED consumerVars

ConsumerSpec == ConsumerInit /\ [][ConsumerNext]_allVars

-----------------------------------------------------------------------------
Quiet == AtRest /\ phase = "live" /\ inbox = <<>>

(* The copy is what the contracts have, where its rows were read.           *)
Mirrors ==
  /\ \A k \in Key \ unread.trades : view.trades[k] = TradesOf(chain.trades)[k]
  /\ \A k \in Key \ unread.limits : view.limits[k] = LimitsOf(chain.limits)[k]

(* A copy that missed no message is the contracts' state once everything is *)
(* consumed, if the indexer lost nothing: loading in the middle of a        *)
(* redelivery, applying a message that is already in what was loaded,       *)
(* crashes of the indexer and restarts of the consumer change nothing, and  *)
(* no slot is ever held twice.  A row the load left out (cache.go:127-168,  *)
(* state.go:96-101 and 184-187) spoils its own slot and nothing else.       *)
CopyConverges == Quiet /\ Intact /\ missed = {} => Mirrors
=============================================================================
