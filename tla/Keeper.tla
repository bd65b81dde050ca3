------------------------------- MODULE Keeper -------------------------------
(***************************************************************************)
(* cmd/keeper and internal/keeper: price ticks are matched against the     *)
(* watched trades and orders (detector.go), the matches are queued, and    *)
(* the executor simulates and submits one of them per tick (executor.go).  *)
(* Three goroutines share the watch list and the queue: the price loop,    *)
(* the Redis subscriber and the executor.                                  *)
(*                                                                         *)
(* External: the contract with its oracle gate, and the node's mempool.    *)
(* How an event changes the watch list is modelled by Consumer; here it    *)
(* adds or removes a slot.                                                 *)
(***************************************************************************)
EXTENDS Integers, Sequences, FiniteSets

CONSTANTS
  Key,        \* (trader, pair, index); a trade and an order may share one
  TradeTerms, \* side, take-profit, stop-loss and liquidation price of a trade
  LimitTerms, \* side and price of a limit order
  Prices,
  MaxOpens,   \* bound on how often any two slots are opened together
  MaxMoves,   \* bound on market moves
  MaxFaults,  \* bound on RPC faults
  maxRetries  \* KEEPER_MAX_RETRIES (20 in the code)

ASSUME KeeperAssumption ==
  /\ TradeTerms \subseteq [long: BOOLEAN, tp: Nat, sl: Nat, liq: Nat]
  /\ LimitTerms \subseteq [long: BOOLEAN, px: Nat]
  /\ Prices \subseteq Nat \ {0} /\ Prices # {}
  /\ MaxOpens \in Nat /\ MaxMoves \in Nat /\ MaxFaults \in Nat
  /\ maxRetries \in Nat \ {0}

VARIABLES
  slots,    \* external: what is open in the contract, with its opening number
  opens,    \* external: openings of a slot so far (bound)
  oracle,   \* external: Reflector's price, which the contract checks
  market,   \* external: Binance's price
  moves,    \* bound
  seq,      \* external: the keeper account's sequence number
  mempool,  \* external: submitted transactions not yet in a ledger
  feed,     \* events on their way to the keeper
  state,    \* TradeState: the watch list
  detected, \* what Detect returned and Enqueue has not yet queued
  pending,  \* Executor.pending: retries of a queued action, NotQueued if none
  round,    \* processPending: queued actions this tick has not tried yet
  step,     \* what tryExecute is doing, for which action
  faults,   \* bound
  raced     \* ghost: slots dropped from the watch list after being reopened,
            \*        until the next event about them

externalVars == <<slots, opens, oracle, market, moves, seq, mempool>>
vars == <<externalVars, feed, state, detected, pending, round, step, faults,
          raced>>

-----------------------------------------------------------------------------
(* detector.go.                                                             *)
None == [none |-> TRUE]
NotQueued == -1

IsLiquidatable(price, liq, long) ==
  liq # 0 /\ IF long THEN price <= liq ELSE price >= liq

checkTpSl(price, t) ==
  \/ t.tp > 0 /\ IF t.long THEN price >= t.tp ELSE price <= t.tp
  \/ t.sl > 0 /\ IF t.long THEN price <= t.sl ELSE price >= t.sl

checkLimit(price, t) ==
  t.px > 0 /\ IF t.long THEN price <= t.px ELSE price >= t.px

(* TradeState keeps trades and orders in maps of their own.                 *)
Slot == [kind: {"trade", "order"}, key: Key]
Terms(s) == IF s.kind = "trade" THEN TradeTerms ELSE LimitTerms

(* What a price calls for: liquidation goes before take-profit and stop-loss.*)
Triggered(s, t, price) ==
  IF s.kind = "order" THEN IF checkLimit(price, t) THEN {"limit"} ELSE {}
  ELSE IF IsLiquidatable(price, t.liq, t.long) THEN {"liquidate"}
  ELSE IF checkTpSl(price, t) THEN {"tp_sl"} ELSE {}

(* pendKey: an action is queued under its type and its key.                 *)
Action == [type: {"liquidate", "tp_sl", "limit"}, key: Key]
SlotOf(a) == [kind |-> IF a.type = "limit" THEN "order" ELSE "trade", key |-> a.key]

Detect(price, st) ==
  {a \in Action : LET s == SlotOf(a) IN
     st[s] # None /\ a.type \in Triggered(s, st[s].terms, price)}

-----------------------------------------------------------------------------
(* External: contract, oracle, market, mempool.                             *)

(* The contract's own check, against the oracle.                            *)
Gate(a, s) ==
  CASE s = None -> "not_found"
    [] OTHER ->
         CASE a.type = "limit"     -> IF checkLimit(oracle, s.terms) THEN "ok" ELSE "mismatch"
           [] a.type = "tp_sl"     -> IF checkTpSl(oracle, s.terms) THEN "ok" ELSE "mismatch"
           [] a.type = "liquidate" ->
                IF IsLiquidatable(oracle, s.terms.liq, s.terms.long) THEN "ok" ELSE "other"

Opened(s, n, t) == [slot |-> s, row |-> [n |-> n, terms |-> t]]
Resolved(s) == [slot |-> s, row |-> None]

OpenSlot(s, t) ==
  /\ slots[s] = None
  /\ opens[s] < MaxOpens
  /\ \A r \in Slot \ {s} : opens[r] + opens[s] < MaxOpens
  /\ opens' = [opens EXCEPT ![s] = @ + 1]
  /\ slots' = [slots EXCEPT ![s] = [n |-> opens'[s], terms |-> t]]
  /\ feed' = Append(feed, Opened(s, opens'[s], t))
  /\ UNCHANGED <<oracle, market, moves, seq, mempool, state, detected, pending, round,
                 step, faults, raced>>

(* The trader closes the trade or cancels the order.                        *)
CloseSlot(s) ==
  /\ slots[s] # None
  /\ slots' = [slots EXCEPT ![s] = None]
  /\ feed' = Append(feed, Resolved(s))
  /\ UNCHANGED <<opens, oracle, market, moves, seq, mempool, state, detected, pending,
                 round, step, faults, raced>>

MarketMoves(p) ==
  /\ p # market
  /\ moves < MaxMoves
  /\ moves' = moves + 1
  /\ market' = p
  /\ UNCHANGED <<slots, opens, oracle, seq, mempool, feed, state, detected, pending,
                 round, step, faults, raced>>

OracleFollows ==
  /\ oracle # market
  /\ oracle' = market
  /\ UNCHANGED <<slots, opens, market, moves, seq, mempool, feed, state, detected,
                 pending, round, step, faults, raced>>

(* A transaction enters a ledger.  Its sequence number is used up, and what *)
(* carries the same one is discarded.  The position that an executed order  *)
(* opens is an OpenSlot of its own.                                         *)
Include(tx) ==
  /\ tx \in mempool /\ tx.seq = seq + 1
  /\ seq' = tx.seq
  /\ mempool' = {t \in mempool : t.seq > tx.seq}
  /\ LET s == SlotOf(tx.act) IN
       \/ /\ Gate(tx.act, slots[s]) = "ok"
          /\ slots' = [slots EXCEPT ![s] = None]
          /\ feed' = Append(feed, Resolved(s))
       \/ /\ Gate(tx.act, slots[s]) # "ok"
          /\ UNCHANGED <<slots, feed>>
  /\ UNCHANGED <<opens, oracle, market, moves, state, detected, pending, round, step,
                 faults, raced>>

(* A transaction is dropped by the node or passes its time bound (60s).     *)
Expire(tx) ==
  /\ tx \in mempool
  /\ faults < MaxFaults
  /\ faults' = faults + 1
  /\ mempool' = mempool \ {tx}
  /\ UNCHANGED <<slots, opens, oracle, market, moves, seq, feed, state, detected,
                 pending, round, step, raced>>

-----------------------------------------------------------------------------
(* The Redis subscriber and the price loop.                                 *)
ApplyFeed ==
  /\ feed # <<>>
  /\ state' = [state EXCEPT ![Head(feed).slot] = Head(feed).row]
  /\ feed' = Tail(feed)
  /\ raced' = raced \ {Head(feed).slot}
  /\ UNCHANGED <<externalVars, detected, pending, round, step, faults>>

(* A Binance tick: Detect reads the watch list, slot by slot under its lock.*)
PriceTick ==
  /\ detected = {}
  /\ detected' = Detect(market, state)
  /\ UNCHANGED <<externalVars, feed, state, pending, round, step, faults, raced>>

(* Mutant: the queue is rebuilt from the latest detection.                  *)
Enqueue_Rebuilds ==
  /\ detected # {}
  /\ pending' = [a \in Action |-> IF a \in detected THEN 0 ELSE NotQueued]
  /\ detected' = {}
  /\ UNCHANGED <<externalVars, feed, state, round, step, faults, raced>>

(* Enqueue: an action already queued keeps its retry count.                 *)
Enqueue ==
  /\ detected # {}
  /\ pending' = [a \in Action |-> IF a \in detected /\ pending[a] = NotQueued THEN 0
                                  ELSE pending[a]]
  /\ detected' = {}
  /\ UNCHANGED <<externalVars, feed, state, round, step, faults, raced>>

-----------------------------------------------------------------------------
(* The executor.                                                            *)
Idle == [do |-> "idle"]
Send(a) == [do |-> "send", act |-> a]

(* n is a ghost: how often the slot had been opened when it was not found.  *)
Remove(a) == [do |-> "remove", act |-> a, n |-> opens[SlotOf(a)]]

Drop(a) == pending' = [pending EXCEPT ![a] = NotQueued]

(* Mutant: an action is never given up.                                     *)
Retry_Forever(a) == pending' = [pending EXCEPT ![a] = @ + 1]

(* Retries++, and dropItem at the limit.                                    *)
Retry(a) ==
  pending' = [pending EXCEPT ![a] = IF @ + 1 >= maxRetries THEN NotQueued ELSE @ + 1]

Fault == faults < MaxFaults /\ faults' = faults + 1

(* processPending: a copy of the queue, then one action after the other.    *)
ExecutorTick ==
  /\ step = Idle /\ round = {}
  /\ \E a \in Action : pending[a] # NotQueued
  /\ round' = {a \in Action : pending[a] # NotQueued}
  /\ UNCHANGED <<externalVars, feed, state, detected, pending, step, faults, raced>>

(* Mutant: any refusal by the contract ends the watch.                      *)
Simulate_MismatchForgets(a) ==
  /\ step = Idle /\ a \in round
  /\ round' = round \ {a}
  /\ LET result == Gate(a, slots[SlotOf(a)]) IN
       \/ /\ result = "ok"
          /\ step' = Send(a)
          /\ UNCHANGED pending
       \/ /\ result # "ok"
          /\ Drop(a)
          /\ step' = Remove(a)
  /\ UNCHANGED <<externalVars, feed, state, detected, faults, raced>>

(* tryExecute up to the simulation's answer.                                *)
Simulate(a) ==
  /\ step = Idle /\ a \in round
  /\ round' = round \ {a}
  /\ LET result == Gate(a, slots[SlotOf(a)]) IN
       \/ /\ result = "ok"
          /\ step' = Send(a)
          /\ UNCHANGED pending
       \/ /\ result = "not_found"
          /\ Drop(a)
          /\ step' = Remove(a)
       \/ /\ result = "mismatch"
          /\ Drop(a)
          /\ UNCHANGED step
       \/ /\ result = "other"
          /\ Retry(a)
          /\ UNCHANGED step
  /\ UNCHANGED <<externalVars, feed, state, detected, faults, raced>>

(* The simulation's RPC fails; or building the transaction does.            *)
SimulateFails(a) ==
  /\ step = Idle /\ a \in round
  /\ Fault
  /\ round' = round \ {a}
  /\ Retry(a) \/ Drop(a)
  /\ UNCHANGED <<externalVars, feed, state, detected, step, raced>>

(* The slot that was not found leaves the watch list, whatever it holds now.*)
RemoveStale ==
  /\ step.do = "remove"
  /\ LET s == SlotOf(step.act) IN
       /\ state' = [state EXCEPT ![s] = None]
       /\ raced' = IF slots[s] # None /\ slots[s].n > step.n /\ state[s] = slots[s]
                   THEN raced \cup {s} ELSE raced
  /\ step' = Idle
  /\ UNCHANGED <<externalVars, feed, detected, pending, round, faults>>

(* prepareTx reads the account's sequence, SendTransaction submits.  The    *)
(* node accepts one transaction of an account at a time.                    *)
Tx(a) == [act |-> a, seq |-> seq + 1]
InFlight == \E tx \in mempool : tx.seq = seq + 1

(* PENDING, or TRY_AGAIN_LATER and DUPLICATE, which queue nothing but are   *)
(* treated as submitted: the action is dropped and the tick is over.        *)
SendAccepted ==
  /\ step.do = "send"
  /\ \/ /\ ~InFlight
        /\ mempool' = mempool \cup {Tx(step.act)}
        /\ UNCHANGED faults
     \/ /\ InFlight
        /\ UNCHANGED <<mempool, faults>>
     \/ /\ Fault
        /\ UNCHANGED mempool
  /\ Drop(step.act)
  /\ round' = {}
  /\ step' = Idle
  /\ UNCHANGED <<slots, opens, oracle, market, moves, seq, feed, state, detected, raced>>

(* The call fails (the node may have taken the transaction all the same),   *)
(* or answers ERROR: count a retry and go on with the next action.          *)
SendFails ==
  /\ step.do = "send"
  /\ Fault
  /\ mempool' \in {mempool, IF InFlight THEN mempool ELSE mempool \cup {Tx(step.act)}}
  /\ Retry(step.act)
  /\ step' = Idle
  /\ UNCHANGED <<slots, opens, oracle, market, moves, seq, feed, state, detected, round,
                 raced>>

(* prepareTx fails: the action is dropped.                                  *)
PrepareFails ==
  /\ step.do = "send"
  /\ Fault
  /\ Drop(step.act)
  /\ step' = Idle
  /\ UNCHANGED <<externalVars, feed, state, detected, round, raced>>

-----------------------------------------------------------------------------
(* The keeper has loaded an empty watch list and is subscribed.             *)
Init ==
  /\ slots = [s \in Slot |-> None] /\ opens = [s \in Slot |-> 0]
  /\ market \in Prices /\ oracle = market /\ moves = 0 /\ seq = 0 /\ mempool = {}
  /\ feed = <<>> /\ state = [s \in Slot |-> None]
  /\ detected = {} /\ pending = [a \in Action |-> NotQueued] /\ round = {}
  /\ step = Idle /\ faults = 0 /\ raced = {}

External ==
  \/ \E s \in Slot : CloseSlot(s) \/ \E t \in Terms(s) : OpenSlot(s, t)
  \/ \E p \in Prices : MarketMoves(p)
  \/ OracleFollows
  \/ \E tx \in mempool : Include(tx) \/ Expire(tx)

Executor ==
  \/ ExecutorTick \/ RemoveStale \/ SendAccepted \/ SendFails \/ PrepareFails
  \/ \E a \in Action : Simulate(a) \/ SimulateFails(a)

Next == External \/ ApplyFeed \/ PriceTick \/ Enqueue \/ Executor

Spec == Init /\ [][Next]_vars

(* Goroutines and tickers keep running, the feed delivers, Binance keeps    *)
(* ticking, the oracle follows the market and ledgers keep closing.         *)
Fairness ==
  /\ WF_vars(ApplyFeed) /\ WF_vars(PriceTick) /\ WF_vars(Enqueue)
  /\ WF_vars(ExecutorTick) /\ WF_vars(RemoveStale) /\ WF_vars(SendAccepted)
  /\ \A a \in Action : WF_vars(Simulate(a))
  /\ WF_vars(OracleFollows) /\ WF_vars(\E tx \in mempool : Include(tx))

FairSpec == Spec /\ Fairness

-----------------------------------------------------------------------------
Row == {None} \cup [n: 1 .. MaxOpens, terms: TradeTerms \cup LimitTerms]

KeeperTypeOK ==
  /\ slots \in [Slot -> Row] /\ state \in [Slot -> Row]
  /\ opens \in [Slot -> 0 .. MaxOpens]
  /\ oracle \in Prices /\ market \in Prices /\ moves \in 0 .. MaxMoves
  /\ seq \in Nat /\ mempool \subseteq [act: Action, seq: Nat]
  /\ feed \in Seq([slot: Slot, row: Row])
  /\ detected \subseteq Action /\ round \subseteq Action
  /\ pending \in [Action -> -1 .. maxRetries - 1]
  /\ step \in {Idle} \cup [do: {"send"}, act: Action]
                     \cup [do: {"remove"}, act: Action, n: 0 .. MaxOpens]
  /\ faults \in 0 .. MaxFaults /\ raced \subseteq Slot

(* What the executor has copied from the queue and not tried yet, and what  *)
(* it is about to submit, is still queued: the retry count it writes belongs *)
(* to that action and not to a later detection of it, and an action is      *)
(* tried once a tick (Enqueue does not replace a queued item, and only the  *)
(* executor drops one).                                                     *)
InHandIsQueued ==
  /\ \A a \in round : pending[a] # NotQueued
  /\ step.do = "send" => pending[step.act] # NotQueued /\ step.act \notin round

Due(s) == slots[s] # None /\ oracle = market /\ Triggered(s, slots[s].terms, oracle) # {}

(* Nothing open is due for ever, but for a slot whose watch the executor    *)
(* ended by mistake: a trade or an order whose trigger both the market and  *)
(* the oracle confirm is executed, in spite of mismatches, of lost, refused *)
(* and conflicting submissions and of other actions in the queue.           *)
DueUnlessRaced == \A s \in Slot : []<>(~Due(s) \/ s \in raced)

(* The same without the exception (README.md:13: the keeper "evaluates and  *)
(* triggers" liquidations, take-profits, stop-losses and limit orders).     *)
DueIsExecuted == \A s \in Slot : []<>~Due(s)

(* With the feed drained the watch list is what is open, except for a slot  *)
(* reopened between the simulation that did not find it and the removal, of *)
(* which no event has come since (executor.go:181-190).                     *)
WatchesWhatIsOpen == feed = <<>> => \A s \in Slot : slots[s] = state[s] \/ s \in raced

(* What WatchesWhatIsOpen rests on: the last event on its way about a slot  *)
(* shows what is open there, opening numbers grow, and what was not found   *)
(* and is open now was opened since.                                        *)
LastEventIsCurrent ==
  \A i \in 1 .. Len(feed) :
    (\A j \in i + 1 .. Len(feed) : feed[j].slot # feed[i].slot)
      => feed[i].row = slots[feed[i].slot]
UpToDate ==
  \A s \in Slot : (\A i \in 1 .. Len(feed) : feed[i].slot # s)
                     => slots[s] = state[s] \/ s \in raced
Numbered == \A s \in Slot : slots[s] # None => slots[s].n = opens[s]
NotFoundWasClosed ==
  step.do = "remove" =>
    LET s == SlotOf(step.act) IN
      step.n <= opens[s] /\ (slots[s] # None => slots[s].n > step.n)
WatchInv == LastEventIsCurrent /\ UpToDate /\ Numbered /\ NotFoundWasClosed
=============================================================================
