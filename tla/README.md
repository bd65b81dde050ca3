# LumenLiquid backend: TLA+ verification project

The backend follows three Soroban contracts (position manager, vault, pair
registry), projects their events into PostgreSQL, fans them out over Redis, serves
the open positions over WebSocket and REST, and runs a keeper that liquidates
positions and executes take-profits, stop-losses and limit orders.  This directory
models the processes that keep state, checks them with TLC and proves the central
safety properties with TLAPS.

Paths below are relative to the repository.

## 1. Inventory

| Part | State it keeps | Operations | Talks to |
|---|---|---|---|
| `cmd/indexer` | `startLedger`, `cursor` in memory; `indexer_cursor` row | boot, poll a page, clamp after a range error, apply an event, fan it out, write the cursor | Soroban RPC, store, Redis |
| `internal/store` | projection tables, `trade_events` | `Apply` (one SQL transaction per event), `ReadCursor`, `WriteCursor` | called by indexer and replay |
| `internal/events` | none | decode an event | called by indexer |
| `cmd/indexer-replay` | its result set | truncate, select, apply, go on after a row that fails | store; runs before the indexer and every night next to it |
| `internal/wsgateway` cache | open trades and orders per trader | load, apply an event, snapshot | store, Redis, hub (callback) |
| `internal/wsgateway` hub, clients | clients, subscriptions, channels | register, unregister, broadcast, subscribe, pumps, shutdown | cache, price feed, WebSocket peers |
| `internal/keeper` state | watched trades and orders, fee accumulators | load, apply an event, remove, refresh the accumulators | store, Redis, detector, executor |
| `internal/keeper` detector, math | none | match a price against the watch list | state |
| `internal/keeper` executor | queue of actions with retry counts | enqueue, tick, simulate, submit, retry, drop | Soroban RPC, state |
| `internal/keeper/binance.go`, `internal/wsgateway/pricefeed.go` | connection, backoff, tick channel | dial, subscribe, read, parse, drop, reconnect | exchange; price loop of the keeper, hub |
| `cmd/pair-indexer` | ledger of the pass, groups seen (writes `pairs`, `pair_groups`, `pair_fee_accumulators`, `pair_oi`) | daily copy of registry parameters, call by call with retries | contracts, store |
| `cmd/api` REST | none | trading history page by page, open trades with their liquidation price, pairs | store |
| `internal/soroban`, `config`, `db`, `log`, `cmd/migrate` | none | transport, set-up | - |

What is hard about it: the indexer may die between any two of its steps and gets
its page again; the RPC forgets old ledgers; Redis delivers to whoever is connected;
the replay and the indexer write the same tables; hub, pumps, cache and price feed
are goroutines joined by bounded channels; the keeper's price loop, subscriber and
executor share two structures, and the chain moves while it decides; the pair indexer
copies contract state call by call into rows the indexer changes by deltas, and
liquidation prices are computed from these rows up to a day later; the exchange's
stream breaks, falls silent or outruns its reader; a client pages through a table that
grows and may be rebuilt meanwhile.

What makes each part correct: no event is passed over in silence and the position
never goes back (indexer); tables mirror the contracts (store, replay); in-memory
copies converge to the same state (cache, keeper state); the hub never sends on a
closed channel, never blocks the cache, and tells every subscriber the current state
(hub); nothing open and due is forgotten, what is being executed stays queued
(keeper); absolute values and deltas agree, and stale fees make a liquidation late,
never early (pair indexer, arithmetic); no reader is left on an old price for good
(exchange clients); no row twice, none skipped but ties (history).

## 2. Modules

`Ledger` <- `Store` <- `Indexer` <- `Consumer`, `Replay`; `FeeMath` <- `PairSync`; `Hub`,
`Keeper`, `PriceFeed` and `History` stand alone.  `X <- Y` reads "Y extends X".
`Indexer` implements `Delivery` (an `INSTANCE` with a refinement mapping).  `MC*`
instantiate for TLC, `*Proofs` hold the theorems; `TablesProofs` extends
`IndexerProofs`, which also shows the refinement of `Delivery`; `ConsumerProofs` and
`ReplayProofs` extend `TablesProofs` and the module they are about.

| Module | Models | Correspondence |
|---|---|---|
| `Ledger` | events as `decode.go` leaves them; contracts and RPC (external) | `log` is every event emitted; `latest` the last closed ledger; `chain` the contracts' own state, the reference for all projections.  `key` is what `Decode` files an event under, `slot` what the contract changed: they differ for an old close without its pair, which is read as pair 0 (`PairZero`), and for a deposit or transfer to somebody else.  `full = FALSE` is the old event format without payload, and `OldTopics` are the topics that occur in it |
| `Store` | `store.go` | the tables are one record; `Apply` is a function from tables to tables because the code applies an event in one SQL transaction.  The close reason compares prices as the code does, `tp` and `sl` rounded to a float64 and the closing price to a `big.Float`; `FloatExact` stands for 2^53 |
| `Indexer` | `cmd/indexer/main.go` | `pc` is the place in `pollOnce`; one action per step between which a crash or a failing call may fall |
| `Delivery` | the promise of the indexer: at-least-once delivery of every event that neither expired nor lies before the first start | abstract; see "Refinement" below |
| `Consumer` | `cache.go` and `keeper/state.go`, selected by the variable `role`, which is fixed initially | composed with the indexer: `Publish` is the indexer's `Fanout` seen from Redis.  A load may leave rows out (`Without`): both pass over a row they cannot scan, and the cache takes a result set that broke off for a complete one; `unread` remembers the slots |
| `Replay` | `cmd/indexer-replay` | composed with the indexer: both write `db`.  `Mode` is how compose schedules it.  A row may fail (logged, passed over), the result may be cut short (exit status zero all the same), the process may die (then the indexer waits for another replay).  `rows` are the rows of the result set still to come, `IsNext` the one whose turn it is in the `ORDER BY` |
| `Hub` | `hub.go`, `client.go`, `pricefeed.go`, the handlers in `cmd/api` | one action per channel operation or mutex section; the cache is a version per trader |
| `Keeper` | `detector.go`, `executor.go`, the loops in `cmd/keeper` | one action per RPC call or lock section; contract, oracle and mempool are external |
| `FeeMath` | `keeper/math.go` | operators, with the truncating division of `big.Int.Quo` |
| `PairSync` | `cmd/pair-indexer`, `applyRegistry` of `store.go`, the fee accumulators of `state.go` and `detector.go`, the liquidation prices of `cmd/api` and `cache.go` | one action per contract call and per SQL statement; `job` is the pass with the locals of its iteration; `feed` the events the indexer still has to apply |
| `PriceFeed` | `binance.go`, `pricefeed.go`, the price loop of `cmd/keeper` | `client` selects one of the two, which differ in the deadline of a read and in parsing; `phase` is the place in `Run` and `connect`.  A dial returns only if the exchange answers, since neither has a deadline on it |
| `History` | `/trading-history` of `cmd/api`, `closeTrade`, the truncation by the replay | one action per request; an answer is any the `ORDER BY` allows, since it does not order rows of one time |

Abstractions.  A key stands for (trader, pair, index), a share holder or a pair; `Slot`
and `Holder` say which keys trades, orders and pairs, and which holders, use in an
instance; amounts and prices are small naturals; a cursor is the ledger in its TOID and
the number of events delivered.  `Terms` keep side, take-profit and stop-loss, which
decide the close reason and the triggers; leverage, collateral and fee columns are left
out.  Rounding is to the nearest multiple of the gap between floats of that size, to even
on a tie, with a mantissa of `FloatExact` values (and of 2^11 times as many for the 64
bits of a `big.Float`); exponents are unbounded.  In `Keeper` the liquidation price is a
parameter of the trade; `PairSync` computes it from the accumulators.  `PairSync` keeps
one trade, because every price is a function of one trade and one pair's rows.
`PriceFeed` keeps prices as integers in the exchange's unit, `Excess` of which make one
unit of the keeper's 1e14 scale: digits beyond the scale are cut and a price that becomes
zero is none.  `History` keeps `closed_at` in fractions of a second and cuts a cursor to
the second, as the RFC 3339 format in the answer does.  Definitions with an underscore
suffix (`closeTrade_NoUnique`, ...) are faults used to show that a property can fail; no
specification uses them.

External parts, modelled from how the code uses them: the contracts, `getEvents`
with its page limit, scan window and retention, Redis, Binance, the oracle and the
node's mempool (one transaction per account in flight), the registry's accumulators
(brought up to date by every operation, projected by its views) and the exchange.

Ghost variables: `origin`, `done`, `failed` (Indexer), `missed` (Consumer, Replay),
`unread` (Consumer), `totals` (Replay), `overflowed`, `seen`, `skipped` (Hub), `raced` and
the number of openings (Keeper), `log`, `applied`, `exact` and the fields `seen`, `ops` of
`job` (PairSync), `cursors`, `present`, `disturbed` (History).  No guard of a modelled
step reads them (the number of errors of a pass in `PairSync` is a bound).

Refinement.  `Indexer` maps the positions of its log to `Delivery`: offered are those in
closed ledgers, pending those a restart from the persisted cursor would fetch, handled
those applied and fanned out or reported, expired those out of retention, skipped those
before `origin`.  `Delivery` lets a position stop being pending only once it is handled,
expired or skipped, lets it be handled again while it is pending, and lets a start choose
another ledger only while nothing was committed.

## 3. Runs

Every run takes at most three minutes on two workers.  Bounds are the constants named
`Max...`.

| Run | Checks | Shows |
|---|---|---|
| `indexer_tables` | `TypeOK`, `LiveTablesMirror`, `HistoryFaithful`, `CountedOnce`, `AuditComplete` | all event kinds, closes and liquidations also in the old format and then with or without their pair, shares that change hands, a stop-loss that is rounded across the closing price; three events over two ledgers, a crash and a lost cursor write: redelivered events leave the live tables and `trade_history` right, open interest is never negative, without a crash nothing is counted twice and the audit log holds every applied event, and after one it still holds every transaction |
| `indexer_progress` | `NoSilentLoss`, `IndInv`, `ResumeMonotone`, `CatchesUp`, `AtLeastOnce`, `NothingPendingForever` | window of two ledgers, so that cursors do expire; two crashes, failing applies and writes, events that do not decode; progress through empty windows, clamps and errors; the refinement of `Delivery`, its safety and its progress part |
| `replay_boot` | `ReplayRestores`, `ReplayCountsOnce` | crash, replay, restart, in any state of the page; all orders of the transactions' hashes; three events over three ledgers, an executed order with its two events; burnt shares; a stop-loss that is rounded across the closing price; a replay that dies, passes over a row or is cut short |
| `hub` | `HubTypeOK`, `ClosedIsForgotten`, `OnlyOverflowPanics`, `CurrentStateIsSent`, `CacheNeverBlocked` | one client on three channels (its trader, all trades, prices), channels of capacity one, so that every channel does fill up; no fairness for clients |
| `copies` | `CopyConverges` | both copies, loaded at any moment of a delivery or redelivery, with a restart, a lost message and a load that leaves a row out; updates of orders |
| `keeper` | `KeeperTypeOK`, `InHandIsQueued`, `WatchesWhatIsOpen`, `WatchInv`, `DueUnlessRaced` | a trade and an order under one key, a slot opened twice, a market move and a fault of the node |
| `pair_sync` | `PairSyncTypeOK`, `OiExact`, `RatesExact`, `FeesNeverAhead`, `NeverEarly`, `LiqIsLossThreshold`, `CleanPassHeals`, `PassAdvances` | a pass over two pairs of one group with a failing call or statement, two contract operations (rates, open interest, threshold, a long or a short trade), two ledgers, a keeper started at any time |
| `price_feed` | `PriceFeedTypeOK`, `FreshPrice`, `StopsWhenCanceled` | both clients, two symbols, three prices of which one parses to nothing, two faults of any kind (a refused or unanswered dial, a broken or silent stream), channels of capacity one |
| `history_pages` | `PagesDescend`, `SkippedAreTies`, `WalkEnds` | up to six rows with ties in time and in second, pages of two, a replay and an answer cut short in the middle of a walk |

Runs that show where the code and what is written about it disagree:

| Run | Property | What TLC finds |
|---|---|---|
| `indexer_redelivery` | `AdditiveTablesMirror` | a deposit applied before a crash is counted again after it; `store.go:52-54` calls re-running a ledger safe |
| `hub_slow_client` | `RunsUntilCanceled` | a dropped slow client stays subscribed; the next broadcast panics |
| `keeper_reopened` | `DueIsExecuted` | a slot reopened between simulation and removal is never watched again |

Seen while modelling, and reproduced with other constants or stronger properties, but
not kept as runs of their own:

* `event_index` is an index in the page (`cmd/indexer/main.go:204`).  After a crash a page
  may start elsewhere, an event then takes the index another event of its transaction
  has or will have, and one of the two audit rows is dropped.  `AuditComplete` therefore
  asks for the event itself only until the first crash, and for its transaction after it;
  a replay cannot apply an event without a row (`Unrecorded`).  Or one event gets two
  rows, and a replay counts a deposit twice that was made once: without its premise
  `RecordedOnce`, `ReplayCountsOnce` fails.
* What a replay counted once is counted twice again if the cursor was behind the audit
  log: the indexer delivers those events once more.  `ReplayCountsOnce` is therefore about
  the moment the loop of the replay ends.
* With `Mode = "daily"` (`docker-compose.prod.yml:165-167`) `ReplayRestores` fails: an
  event the indexer applies after the replay's query is overtaken by older rows.
* Rows of one ledger are replayed by transaction hash (`cmd/indexer-replay/main.go:53`),
  not "in chronological order" (lines 1-3): without its premise `HashesInOrder`,
  `ReplayRestores` fails, a closed trade comes back.
* A replay cut short (`cmd/indexer-replay/main.go:78-80`) ends with status zero, so the
  indexer starts on part of the projection: without its premise `missed = {}`,
  `ReplayRestores` fails.
* The cache and the keeper load before they subscribe (`cmd/api/main.go:60`): an event in
  between is in neither, although `cache.go:90-91` says the subscription "keeps the cache
  state in sync".  Without its premise `missed = {}`, `CopyConverges` fails.
* Both loads pass over a row they cannot scan, and the cache never reads `rows.Err`
  (`cache.go:127-168`; the keeper does, `state.go:131,198`): the API starts on part of the
  open trades.  Without the exception of the slots in `unread`, `CopyConverges` fails.
* `closeTradeUnknownReason` scans take-profit and stop-loss into float64
  (`store.go:257-276`), at a scale of 1e14 where, as `binance.go:175-177` says, float64
  rounds.  A close at a stop-loss that is rounded down is stored as a take-profit: without
  the last conjunct of `Unambiguous`, `ReplayRestores` and `HistoryFaithful` fail.
* Shares of the vault are a token, but `transfer` and `burn` have no projection
  (`decode.go:355-356`) and a deposit for somebody else is credited to its payer
  (`decode.go:320`): `vault_positions` is not what holders have, and a replay does not
  repair it.  Without `Unmoved`, `CountedOnce` and `ReplayCountsOnce` fail.
* An old close without a pair in its topics is applied to pair 0 (`decode.go:225`,
  `store.go:404-409`, `cache.go:221-224`, `state.go:330-335`): without the last conjunct
  of `Intact`, `LiveTablesMirror` fails, the trade stays open in the table.
* The pair indexer's absolute values may be older than events already applied
  (`cmd/pair-indexer/main.go:372-407`).  The ghost `exact` marks such a write; `OiExact`
  and `RatesExact` show that nothing else breaks the rows.  The next pass repairs them
  (`CleanPassHeals`).
* A trade opened after the row it is priced with was projected gets a negative rollover
  fee, and a rate event before the first pass creates a row of zeros: `FeesNeverAhead`
  and `NeverEarly` show that both only make the keeper late.
* A trade opened while the keeper runs is watched with threshold 90
  (`state.go:225`).  For a pair whose `liq_threshold_p` is lower the keeper is late until
  it restarts; for a higher one it would be early, hence the premise of `NeverEarly`.
* A short whose fees exceed its collateral has liquidation price 0 and is never
  liquidated by the keeper (`math.go:188,196`; the last disjunct of `LiqIsLossThreshold`).
* `connect` never returns nil, so the backoff of both exchange clients is never reset
  (`binance.go:76-78`): `delay` only grows, to 30 seconds.
* The gateway reads the stream without a deadline (`pricefeed.go:98`): `FreshPrice` fails
  for it on a silent connection, and holds for the keeper's client, which has one.  Neither
  dial has one (`binance.go:83`, `pricefeed.go:76`; the default transport bounds connecting
  and TLS, not the wait for the upgrade's answer): `FreshPrice` fails for both clients if
  an unanswered dial is not excused.
* Rows that share the second a page ends in are skipped by the next page
  (`cmd/api/main.go:428,489-490`), and an answer cut short is served as the last page
  (`rows.Err` is not read): the two exceptions of `SkippedAreTies`.
* `Subscribe` takes its snapshot after it released the lock (`hub.go:117-129`), so an
  older snapshot may be sent after a newer broadcast.
* A redelivered `updated_tp_sl` notifies subscribers again (`cache.go:238-241`), although
  the comment at `cache.go:192-193` calls redelivery a no-op.
* Nothing waits for the last transaction's inclusion, so a tick may reuse its sequence
  number (`executor.go:131`); the submission fails and the action comes back later.

Premises.  The mirroring properties are about an indexer that lost nothing: `Intact` says
that no error of `Apply` was logged and skipped, that no event expired or preceded the
first start, that no order or update came in the old format, which the code records but
does not project, and that every close is filed under the slot it closed.  `HistoryFaithful`
adds `Unambiguous`: the closing price tells a take-profit from a stop-loss, as
`closeTradeUnknownReason` has to, and rounding does not move the stop-loss across it.  The
shares in `CountedOnce` and `ReplayCountsOnce` are those of holders who moved none outside
their own deposits and withdrawals (`Unmoved`).  `CopyConverges` needs `Intact`, a copy
that missed nothing (`missed = {}`), and speaks of the slots whose rows were read.
`ReplayRestores` and `ReplayCountsOnce` are about an indexer that lost nothing and a replay
that had a row of every applied event and passed over none (`missed = {}`), with the hashes
of each ledger in the order of execution for each slot (`HashesInOrder`); the history part
of the first asks for `Unambiguous`, the second for one row per event (`RecordedOnce`).

All premises are about the behaviour so far.  Which of them the runs also see broken:
`indexer_tables` has misfiled old closes, moved shares and rounding across the closing
price, `replay_boot` burnt shares, rounding across the closing price, passed-over rows,
hashes out of order and events with two rows, `copies` missed messages and unread rows.  The other causes of a lost event do
not occur in these three runs, which have no failing `Apply`, a window of nine ledgers, a
start at the first ledger and no old orders or updates; there the premise is simply true.
Failing applies, expiry and undecodable events are in `indexer_progress`, whose properties
do not presume `Intact`.  The theorems cover all of them.

Why the bounds are enough.  The interesting cases need few events: a redelivery needs one
event applied before a crash; a stale update needs two on one slot; a page boundary inside
a ledger or a transaction needs `PageLimit` 2 and two or three events; expiry needs a
window shorter than the number of ledgers; the hub's panic needs a channel of capacity one
and two broadcasts; the keeper's race needs two openings; a stale write of the pair
indexer needs one operation between a read and the write, and a negative fee one ledger
between the projection and the opening; a skipped row needs a page that ends between two
rows of a second.  In `pair_sync` the scales are 10 and 1, the rates 15 (which leaves
fractions to drop) and 415 (which exceeds the collateral in one ledger), the thresholds 80
and 90 around the code's default.  The tables need one slot, because `Apply` touches only
the slot of its event, and a second key as the receiver of shares and as the slot of pair
0.  `FloatExact` is 4, so that the prices 5, 7 and 9 are rounded to 4, 8 and 8.  One client is
enough for the hub because clients meet only in the hub's own channel; the keeper's two slots under one key (trade and order) compete for its
one transaction per tick.  No run uses symmetry.

Deadlock checking is off where the system may stop: the hub runs (a gateway that
panicked or was shut down), `price_feed` (a canceled client), `pair_sync` and
`history_pages` (the bounded operations are used up and the pass or the walk has ended).
In the other models a step is always possible, because polling and price ticks never
end.

### Fairness

* `Indexer!FairSpec`: weak fairness of every step of the poll loop.  The loop polls on
  a ticker for ever, `restart: unless-stopped` brings a dead process back, and the
  bounded faults stand for errors that pass.  Crashes and contract calls have none.
* `Hub!FairSpec`: weak fairness of the cache goroutine's send and of the hub's
  receive.  Go's `select` picks among ready cases at random.  Nothing is assumed of
  clients, pumps or the price feed.
* `Keeper!FairSpec`: the goroutines and tickers run, the feed delivers, Binance keeps
  ticking, the oracle follows the market and ledgers keep closing.  Market moves,
  openings, closings and faults have none.

* `PriceFeed!FairSpec`: weak fairness of the client's goroutine (which includes the
  deadline of the keeper's read; a dial is a step only while the exchange answers) and of
  the reader; strong fairness of a trade of every symbol,
  because the bound on the wire disables it now and then.  Faults and price moves have
  none.
* `History!FairSpec`: weak fairness of the next request, since a client that stops asking
  ends the walk by itself.
* `PairSync!Spec` has none: `PassAdvances` is an action property which says that every
  step of a pass is a later one, so a pass has boundedly many.

## 4. Proofs

Proved for every value of the constants that satisfies the modules' assumptions
(any number of keys, clients, pages, ledgers, crashes and faults):

| Theorem | Property |
|---|---|
| `IndexerProofs!TypeCorrect` | `TypeOK` |
| `IndexerProofs!Inductive` | `IndInv` |
| `IndexerProofs!NothingLostSilently` | `NoSilentLoss` |
| `IndexerProofs!CursorNeverMovesBack` | `ResumeMonotone` |
| `IndexerProofs!DeliversAtLeastOnce` | `AtLeastOnce`, the safety part of the refinement |
| `HubProofs!HubTypeCorrect` | `HubTypeOK` |
| `HubProofs!ClosedClientsForgotten` | `ClosedIsForgotten` |
| `HubProofs!PanicNeedsOverflow` | `OnlyOverflowPanics` |
| `KeeperProofs!KeeperTypeCorrect` | `KeeperTypeOK` |
| `KeeperProofs!InHandStaysQueued` | `InHandIsQueued` |
| `KeeperProofs!WatchInvariant` | `WatchInv` |
| `KeeperProofs!WatchListComplete` | `WatchesWhatIsOpen` |
| `HistoryProofs!HistoryDescends` | `PagesDescend` |
| `HistoryProofs!HistorySkipsTies` | `SkippedAreTies` |
| `HubProofs!SubscribersAreSent` | `CurrentStateIsSent`: sent, or `skipped` because the client's buffer was full (`hub.go:126`) |
| `TablesProofs!TablesMirrorTheContracts` | `LiveTablesMirror`, under `Intact` |
| `TablesProofs!HistoryIsTheContracts` | `HistoryFaithful`, under `Intact` and `Unambiguous` (no rounding across the closing price) |
| `TablesProofs!NothingCountedTwice` | `CountedOnce`, under `Intact`, without a crash; shares of `Unmoved` holders |
| `TablesProofs!AppliedIsOnRecord` | `AuditComplete`, for `PageLimit > 1` (the code asks for 200) |
| `ConsumerProofs!CopiesConverge` | `CopyConverges`, under `Intact` and `missed = {}`, for the slots that were read |
| `ReplayProofs!ReplayRebuilds` | `ReplayRestores`, for `Mode = "boot"` |
| `ReplayProofs!ReplayCounts` | `ReplayCountsOnce`, for `Mode = "boot"`; shares of `Unmoved` holders |
| `PairSyncProofs!PairSyncTypes` | `PairSyncTypeOK` |
| `PairSyncProofs!OiIsExact` | `OiExact` |
| `PairSyncProofs!RatesAreExact` | `RatesExact` |
| `PairSyncProofs!RowsNeverAhead` | `FeesNeverAhead` |
| `PairSyncProofs!PriceIsThreshold` | `LiqIsLossThreshold` |
| `PairSyncProofs!KeeperNeverEarly` | `NeverEarly` |
| `PairSyncProofs!CleanPassesHeal` | `CleanPassHeals`: tables, REST and gateway; not a running keeper |
| `PairSyncProofs!PassesAdvance` | `PassAdvances` |

*Indexer.*  `NoSilentLoss` speaks of the persisted cursor only and is not inductive:
what a later `WriteCursor` may persist depends on what the process holds.  `IndInv`
adds, per place of the process, that (1) the log is ordered by ledger and a cursor
cuts it by ledger, (2) everything behind the persisted cursor is handled, (3) while
polling, what the in-memory position asks for is exactly what is pending or beyond,
and what it does not ask for is handled, (4) inside a page everything before `next` is
handled and nothing from the page on is behind the persisted cursor.  A clamp is the
delicate step: it may only give up what has expired, which follows from (1) and the
definition of `Oldest`, and needs `Oldest` to be monotone.  `ResumeMonotone` follows
from (3) and (4).

*Delivery.*  Under `IndInv` every step of the indexer is a step of `Delivery` or a
stutter: closing a ledger is `Offer`, `Fanout` and `EventError` are `Handle`, the cursor
writes of `EndPage` and `Clamp` are `Commit`, a first `Boot` is `ChooseStart`.  `Commit`
is where the invariant is needed: what a cursor write gives up was handled by part (4),
or has expired by part (1).

*Tables.*  A page may be delivered again from any earlier position, so what must be
invariant is not that the tables equal the log so far but that redelivery leads back
there.  The proof first speaks of one slot, apart from the table it is in: events open,
update or close it.  `Good(n, m)` says that delivering events n+1..m again leaves the row
the log up to m leaves: the last of them that opens or closes the slot decides, and an
open only if it finds the slot empty or holding its own row (on conflict the store keeps
the transaction of the row it finds, `store.go:120`); if there is none, the row is the log's but for updates that are
repeated (`Near`).  Four lemmas follow: a restart further back, an event delivered again,
an event delivered for the first time, and a growing log keep a slot good.  `Mirror` is
this for every trade, order and rate, and each branch of `Apply` is shown to be such a
slot step.  `TablesInv` joins it to the indexer: the events still to come are those after
some n (`Position`, from `IndInv`), the tables mirror the log up to some m at or after
it, and every row of `trade_history` is one the contracts settled, with every close up to
m among them.  `ChainOK` is what the contracts guarantee and the argument rests on: opens
and closes of a slot alternate, and their own state is the one the log leaves.  It holds of
a log whose closes are all filed under their own slot, so the invariant has it under that
condition (`ChainInv`), which `Intact` implies.  At rest n
and m are the length of the log, and a row that mirrors it is unique.

`CountInv` is about a process that never died: nothing comes a second time, so the
additive tables are the contracts' state after the first n events, for a sequence `past`
of those states; shares are compared for holders that no event so far moved (`Still`).
`AuditInv` shows that the key (transaction, index in the page) is free
whenever `Apply` inserts: events of one transaction are neighbours in one ledger
(`TxPairs`), a page ends because it is full or at the end of a ledger (`PageWhole`), and
a last event of a full page has an index other than zero if a page holds two, while the
next page starts its index at zero (`RowsInv`).

*Consumer.*  A copy is loaded from tables that are themselves in the middle of a
redelivery, trades and orders at different moments, and treats a conflict on opening in
its own way: the cache leaves the entry it has, the keeper's state overwrites it.  What
it follows is the stream of messages.  `Stream(n)` says that those on their way, from
position n on, leave out only events that do not decode, that each goes on after the one
before it or goes back (a redelivery), and that all that comes after the last of them is
still to be published.  `Follows` says that every slot is good for (n, m) in the sense of
*Tables*, with the copy's own step.  A load from tables that mirror (n, m) starts there
(`CopyInv` keeps the pair the trades and the pair the orders started from apart), and a
message moves n.  Rows the load left out are carried along: the rows behind the copy agree
with those of a complete load outside `unread` (`Agree`), and since a message changes its
own slot only, they go on doing so.  When nothing is on its way n is the length of the log, and a copy that
is good up to there holds what is open.

*Replay.*  `BootInv` follows a replay phase by phase.  Before it, the audit log holds
events up to some m, and everything before m was handled (`OnFile`); with no event without
a row (`missed = {}`) the rows selected are those of the log up to some m at or after the
position the indexer will resume from (`RowsArePrefix`).  While rows are applied, each
slot has been brought to some x of its own (`Caught`): its events before x are applied,
those after x are still left, and x may come once more under another index.  This holds
because a row whose turn it is comes, for its slot, in the order of the log: rows are
sorted by ledger, the hashes are in order, and only the two events of an executed order
share a transaction, and they are of different tables (`NextInOrder`, `LogTx`).  A slot at
x is good for (x, x) in the sense of *Tables*, and events that do not concern it keep it
so.  Rates are not truncated: a rate that is not zero has an event on record, which sets
it again (`RatesRecorded`).  When no row is left the tables mirror (n, m), and from there
on the argument of *Tables* covers what the indexer delivers again.  `CountingInv` does
the same for shares and open interest, with an event gone for good once it is applied
(`Once`, from `RecordedOnce`) and the ghost `totals`, the contracts' totals after each
event, as the reference.  That totals stay the same while no event concerns them would
take an induction over the log; as part of an invariant (`TotalsOK`) it takes one step.

*Hub.*  `OnlyOverflowPanics` needs to know that a closed channel is in no subscription
set, which needs the handler of that client to be past its last `Subscribe`
(`ClosedIsForgotten`).  It holds because only `Unregister` closes a channel while no
client has overflowed, and a client is unregistered after its `ReadPump` ended.
`CurrentStateIsSent` speaks of empty queues.  On the way there `SentInv` says where the
current state of a channel is for every subscriber: it reached the client or was skipped,
or it is queued with `onChange`, with `Run` or in the client's channel, or a `Subscribe`
is still to take or to send it.  The snapshot taken after the lock was released is the
delicate step: a change in between leaves an older snapshot in hand, but then the newer
state is on its way to the subscriber by broadcast.

*Keeper.*  `WatchesWhatIsOpen` speaks of a drained feed; on the way there,
`LastEventIsCurrent` (the last event about a slot shows what is open there) and
`UpToDate` (a slot without events on the way is watched as it is open, or raced) carry
it, and `Numbered` with `NotFoundWasClosed` tell a harmless removal from a race.

*PairSync.*  `FeedInv` numbers what happens: the n-th event of a pair and kind leads from
the n-th entry of the ghost log to the next, those in flight are the ones not yet applied,
in order, and the last entry is the contract's state.  With `ReadInv` (what a pass holds
is the entry it saw) this gives `OiExact` and `RatesExact` (`ExactInv`).  `FeesNeverAhead`
rests on `RollInv`: an accumulator, in a row, in a pass or in the keeper, is at most the
contract's, and equal to it when projected to the current ledger; it needs that the
truncating division is monotone.  `LiqIsLossThreshold` is arithmetic: bounds on a
truncated quotient give, for a long and a short and for the floor at zero, that the price
is, to within one unit, where the loss reaches the threshold share.  `NeverEarly` puts the three
together: the keeper's trade is the opened one (`TradeInv`), a pair whose funding rate was
never set has no funding anywhere (`FundInv`), so its fees are at most the contract's, and
the price is monotone in fees and threshold.  `CleanPassHeals` follows a pass that nothing
disturbs (`CleanInv`): pairs before the current one are synced, and the current one is
read and written as far as the step says, whatever the tables held before.

*History.*  `PagesDescend` needs that the cursor is at or before every row listed so far
and that a row keeps its closing time.  `SkippedAreTies` needs, during a walk, that a row
that was present and is not listed is older than the cursor, or of a second some page
ended in; it holds because an answer leaves out only rows that are no newer than those it
has, and because the cursor is the cut time of the oldest row of its page.

Only model-checked:

* all liveness, which the prover does not do (`CatchesUp`, `NothingPendingForever`,
  `CacheNeverBlocked`, `DueUnlessRaced`, `FreshPrice`, `StopsWhenCanceled`, `WalkEnds`);
* `PriceFeedTypeOK`, a type invariant on which no other safety property rests.

## 5. Not modelled

Transport, encoding and set-up (`internal/soroban`, `txbuilder.go`, `config`, `db`,
`log`, `cmd/migrate`): calls that answer or fail, with no state of their own; the
sequence number of `txbuilder.go` only reaches the simulation, which ignores it, and
nothing calls `IncrementSeq` or `ResetSequence`.  The REST handlers of pairs and groups,
which read one row or all.  The columns of `pairs` and `pair_groups` that no part
computes with.  The fee fields of a trade the cache loaded, when its pair has no row
later.  A nightly replay together with the pair indexer.  The unsynchronised write of
`onChange` by `NewHub` while the cache goroutine runs, which is treated as atomic.

## 6. What is left

1. `PriceFeedTypeOK`.
2. What a nightly replay next to the running indexer (`Mode = "daily"`) does keep: the
   model has it, `ReplayRestores` fails for it, and no weaker promise is stated.
