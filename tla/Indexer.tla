------------------------------- MODULE Indexer ------------------------------
(***************************************************************************)
(* cmd/indexer: the process that polls getEvents, applies each event to    *)
(* the database, fans it out on Redis and persists its cursor once per     *)
(* page.  It may crash between any two of those steps; every call it makes *)
(* may fail.                                                               *)
(***************************************************************************)
EXTENDS Store

CONSTANTS
  StartLedger,     \* INDEXER_START_LEDGER; 0 when unset
  PageLimit,       \* getEvents page size (200 in the code)
  ScanWindow,      \* ledgers one getEvents call scans (about 10k in the code)
  MaxCrashes,      \* bound on process crashes
  MaxApplyFaults,  \* bound on failing Apply calls
  MaxCursorFaults  \* bound on failing WriteCursor calls

ASSUME IndexerAssumption ==
  /\ StartLedger \in Nat
  /\ PageLimit \in Nat \ {0}
  /\ ScanWindow \in Nat \ {0, 1}
  /\ MaxCrashes \in Nat
  /\ MaxApplyFaults \in Nat
  /\ MaxCursorFaults \in Nat

VARIABLES
  pc,          \* where the process is; "down" when it is not running
  startLedger, \* pollOnce's *startLedger
  cursor,      \* pollOnce's *cursor
  page,        \* the getEvents response being processed
  next,        \* log position of the next event of the page
  db,          \* the projection tables and the audit log
  dbCursor,    \* the indexer_cursor row
  origin,      \* ghost: the ledger a start without a cursor row began at
  done,        \* ghost: positions applied and handed to fanout
  failed,      \* ghost: positions whose Decode or Apply reported an error
  crashes,     \* bounds
  applyFaults,
  cursorFaults

memVars   == <<pc, startLedger, cursor, page, next>>
boundVars == <<crashes, applyFaults, cursorFaults>>
indexerVars == <<memVars, db, dbCursor, origin, done, failed, boundVars>>
vars == <<ledgerVars, indexerVars>>

-----------------------------------------------------------------------------
(* A pagination cursor names a ledger (the high half of its TOID, which     *)
(* ledgerFromCursor extracts) and the last event already delivered.         *)
NoCursor == [ledger |-> 0, pos |-> 0]
Cursor == [ledger: Nat, pos: Nat]

NoPage == [lo |-> 1, hi |-> 0, resp |-> NoCursor]

MaxOf(a, b) == IF a > b THEN a ELSE b
MinOf(a, b) == IF a < b THEN a ELSE b

(* The request: a cursor when there is one, startLedger otherwise.          *)
FromOf(c, l) == IF c # NoCursor THEN c.ledger ELSE l
FromLedger == FromOf(cursor, startLedger)

(* "startLedger must be within the ledger range" is the RPC's refusal.      *)
InRange == Oldest <= FromLedger /\ FromLedger <= latest

ScanEnd == MinOf(latest, FromLedger + ScanWindow - 1)

Wanted(p, c, l) == p > c.pos /\ log[p].ledger >= l

(* The response to getEvents: the events lo..hi and a cursor.  A full page  *)
(* returns the cursor of its last event, any other the end of the scan.     *)
Response(lo, last) ==
  LET hi == MinOf(last, lo + PageLimit - 1)
      full == hi - lo + 1 = PageLimit
  IN [lo |-> lo, hi |-> hi,
      resp |-> [ledger |-> IF full THEN log[hi].ledger ELSE ScanEnd, pos |-> hi]]

-----------------------------------------------------------------------------
Init ==
  /\ LedgerInit
  /\ pc = "down" /\ startLedger = 0 /\ cursor = NoCursor
  /\ page = NoPage /\ next = 1
  /\ db = EmptyDB
  /\ dbCursor = [row |-> FALSE, ledger |-> 0, cur |-> NoCursor]
  /\ origin = 0 /\ done = {} /\ failed = {}
  /\ crashes = 0 /\ applyFaults = 0 /\ cursorFaults = 0

(* decideStartCursor.  A missing row reads as (0, "").                      *)
Boot ==
  /\ pc = "down"
  /\ pc' = "poll"
  /\ \/ /\ dbCursor.ledger > 0 \/ dbCursor.cur # NoCursor
        /\ startLedger' = dbCursor.ledger
        /\ cursor' = dbCursor.cur
        /\ UNCHANGED origin
     \/ /\ dbCursor.ledger = 0 /\ dbCursor.cur = NoCursor
        /\ startLedger' = IF StartLedger > 0 THEN StartLedger ELSE latest
        /\ cursor' = NoCursor
        /\ origin' = startLedger'
  /\ UNCHANGED <<ledgerVars, page, next, db, dbCursor, done, failed, boundVars>>

(* Mutant: the response's cursor is persisted before its events are applied.*)
GetEvents_CommitsFirst ==
  /\ pc \in {"poll", "retry"}
  /\ InRange
  /\ \E lo \in 1 .. Len(log) + 1, last \in 0 .. Len(log) :
       /\ \A p \in 1 .. Len(log) : p >= lo <=> Wanted(p, cursor, FromLedger)
       /\ \A p \in 1 .. Len(log) : p <= last <=> log[p].ledger <= ScanEnd
       /\ page' = Response(lo, last)
       /\ next' = lo
  /\ pc' = "apply"
  /\ dbCursor' = [row |-> TRUE, ledger |-> page'.resp.ledger, cur |-> page'.resp]
  /\ UNCHANGED <<ledgerVars, startLedger, cursor, db, origin, done, failed,
                 boundVars>>

(* pollOnce, getEvents answered (the first call or the retry after a clamp).*)
GetEvents ==
  /\ pc \in {"poll", "retry"}
  /\ InRange
  /\ \E lo \in 1 .. Len(log) + 1, last \in 0 .. Len(log) :
       /\ \A p \in 1 .. Len(log) : p >= lo <=> Wanted(p, cursor, FromLedger)
       /\ \A p \in 1 .. Len(log) : p <= last <=> log[p].ledger <= ScanEnd
       /\ page' = Response(lo, last)
       /\ next' = lo
  /\ pc' = "apply"
  /\ UNCHANGED <<ledgerVars, startLedger, cursor, db, dbCursor, origin, done,
                 failed, boundVars>>

(* Mutants: the clamp keeps the stale cursor; the clamp goes back to the    *)
(* configured start.                                                        *)
Clamp_KeepsCursor ==
  /\ pc = "poll"
  /\ ~InRange
  /\ startLedger' = Oldest
  /\ dbCursor' = [row |-> TRUE, ledger |-> Oldest, cur |-> cursor]
  /\ pc' = "retry"
  /\ UNCHANGED <<ledgerVars, cursor, page, next, db, origin, done, failed,
                 boundVars>>

Clamp_ToStart ==
  /\ pc = "poll"
  /\ ~InRange
  /\ startLedger' = MaxOf(1, StartLedger)
  /\ cursor' = NoCursor
  /\ dbCursor' = [row |-> TRUE, ledger |-> startLedger', cur |-> NoCursor]
  /\ pc' = "retry"
  /\ UNCHANGED <<ledgerVars, page, next, db, origin, done, failed, boundVars>>

(* pollOnce, range error: clamp to the oldest ledger getHealth reports and  *)
(* persist the clamped position before the retry.  The in-memory cursor has *)
(* moved even when that write fails.                                        *)
Clamp ==
  /\ pc = "poll"
  /\ ~InRange
  /\ startLedger' = Oldest
  /\ cursor' = NoCursor
  /\ \/ /\ dbCursor' = [row |-> TRUE, ledger |-> Oldest, cur |-> NoCursor]
        /\ pc' = "retry"
        /\ UNCHANGED cursorFaults
     \/ /\ cursorFaults < MaxCursorFaults
        /\ cursorFaults' = cursorFaults + 1
        /\ UNCHANGED <<pc, dbCursor>>
  /\ UNCHANGED <<ledgerVars, page, next, db, origin, done, failed, crashes,
                 applyFaults>>

(* The retry's getEvents fails, for a range error too: pollOnce returns.    *)
RetryError ==
  /\ pc = "retry"
  /\ pc' = "poll"
  /\ UNCHANGED <<ledgerVars, startLedger, cursor, page, next, db, dbCursor,
                 origin, done, failed, boundVars>>

InPage == pc = "apply" /\ next <= page.hi

(* Decode or Apply reports an error: logged, and the loop goes on.  An      *)
(* Apply whose commit was lost on the wire may have taken effect.           *)
EventError ==
  /\ InPage
  /\ \/ /\ log[next].topic = "undecodable"
        /\ UNCHANGED <<db, applyFaults>>
     \/ /\ log[next].topic # "undecodable"
        /\ applyFaults < MaxApplyFaults
        /\ applyFaults' = applyFaults + 1
        /\ db' \in {db, Apply(db, log[next], next - page.lo)}
  /\ failed' = failed \cup {next}
  /\ next' = next + 1
  /\ UNCHANGED <<ledgerVars, pc, startLedger, cursor, page, dbCursor, origin,
                 done, crashes, cursorFaults>>

(* repo.Apply commits; event_index is the index in the page.                *)
ApplyEvent ==
  /\ InPage
  /\ log[next].topic # "undecodable"
  /\ db' = Apply(db, log[next], next - page.lo)
  /\ pc' = "fanout"
  /\ UNCHANGED <<ledgerVars, startLedger, cursor, page, next, dbCursor, origin,
                 done, failed, boundVars>>

(* fanout publishes on Redis (its errors are only logged), and startLedger  *)
(* follows the event.                                                       *)
Fanout ==
  /\ pc = "fanout"
  /\ done' = done \cup {next}
  /\ startLedger' = MaxOf(startLedger, log[next].ledger)
  /\ next' = next + 1
  /\ pc' = "apply"
  /\ UNCHANGED <<ledgerVars, cursor, page, db, dbCursor, origin, failed, boundVars>>

(* Mutants: a page without events leaves the position alone; the position   *)
(* moves only when the write succeeds.                                      *)
EndPage_SkipsEmpty ==
  /\ pc = "apply"
  /\ next > page.hi
  /\ \/ /\ page.hi < page.lo
        /\ UNCHANGED <<cursor, startLedger, dbCursor>>
     \/ /\ page.hi >= page.lo
        /\ cursor' = page.resp
        /\ startLedger' = MaxOf(startLedger, page.resp.ledger)
        /\ dbCursor' = [row |-> TRUE, ledger |-> startLedger', cur |-> cursor']
  /\ pc' = "poll"
  /\ page' = NoPage /\ next' = 1
  /\ UNCHANGED <<ledgerVars, db, origin, done, failed, boundVars>>

EndPage_WriteFirst ==
  /\ pc = "apply"
  /\ next > page.hi
  /\ \/ /\ cursor' = page.resp
        /\ startLedger' = MaxOf(startLedger, page.resp.ledger)
        /\ dbCursor' = [row |-> TRUE, ledger |-> startLedger', cur |-> cursor']
        /\ UNCHANGED cursorFaults
     \/ /\ cursorFaults < MaxCursorFaults
        /\ cursorFaults' = cursorFaults + 1
        /\ UNCHANGED <<cursor, startLedger, dbCursor>>
  /\ pc' = "poll"
  /\ page' = NoPage /\ next' = 1
  /\ UNCHANGED <<ledgerVars, db, origin, done, failed, crashes, applyFaults>>

(* End of the page: take the response's cursor, then persist it.            *)
EndPage ==
  /\ pc = "apply"
  /\ next > page.hi
  /\ cursor' = page.resp
  /\ startLedger' = MaxOf(startLedger, page.resp.ledger)
  /\ \/ /\ dbCursor' = [row |-> TRUE, ledger |-> startLedger', cur |-> cursor']
        /\ UNCHANGED cursorFaults
     \/ /\ cursorFaults < MaxCursorFaults
        /\ cursorFaults' = cursorFaults + 1
        /\ UNCHANGED dbCursor
  /\ pc' = "poll"
  /\ page' = NoPage /\ next' = 1
  /\ UNCHANGED <<ledgerVars, db, origin, done, failed, crashes, applyFaults>>

(* The process dies: what it held in memory is gone.                        *)
Crash ==
  /\ pc # "down"
  /\ crashes < MaxCrashes
  /\ crashes' = crashes + 1
  /\ pc' = "down" /\ startLedger' = 0 /\ cursor' = NoCursor
  /\ page' = NoPage /\ next' = 1
  /\ UNCHANGED <<ledgerVars, db, dbCursor, origin, done, failed, applyFaults,
                 cursorFaults>>

IndexerStep == Boot \/ GetEvents \/ Clamp \/ RetryError \/ EventError
                 \/ ApplyEvent \/ Fanout \/ EndPage \/ Crash

LedgerStep == (Contracts \/ CloseLedger) /\ UNCHANGED indexerVars

Next == LedgerStep \/ IndexerStep

Spec == Init /\ [][Next]_vars

(* The poll loop runs for ever: a step it can take is taken.  The RPC       *)
(* answers again after an error, and compose restarts a dead process.       *)
Fairness ==
  /\ WF_vars(Boot) /\ WF_vars(GetEvents) /\ WF_vars(Clamp) /\ WF_vars(RetryError)
  /\ WF_vars(EventError \/ ApplyEvent) /\ WF_vars(Fanout) /\ WF_vars(EndPage)

FairSpec == Spec /\ Fairness

-----------------------------------------------------------------------------
TypeOK ==
  /\ LedgerTypeOK
  /\ pc \in {"down", "poll", "retry", "apply", "fanout"}
  /\ startLedger \in Nat /\ cursor \in Cursor
  /\ page \in [lo: Nat, hi: Nat, resp: Cursor] /\ next \in Nat
  /\ db \in DBType
  /\ dbCursor \in [row: BOOLEAN, ledger: Nat, cur: Cursor]
  /\ origin \in Nat
  /\ done \subseteq 1 .. Len(log) /\ failed \subseteq 1 .. Len(log)
  /\ crashes \in 0 .. MaxCrashes
  /\ applyFaults \in 0 .. MaxApplyFaults
  /\ cursorFaults \in 0 .. MaxCursorFaults

(* The events a restart would fetch again or for the first time.            *)
IsPending(p) ==
  dbCursor.row => Wanted(p, dbCursor.cur, FromOf(dbCursor.cur, dbCursor.ledger))
Pending == {p \in 1 .. Len(log) : IsPending(p)}

Expired == {p \in 1 .. Len(log) : log[p].ledger < Oldest}

(* The persisted cursor (store.go WriteCursor) never passes an event that   *)
(* was not applied and fanned out, unless its error was reported or the RPC *)
(* no longer has it - whatever crashes, write failures and clamps happen.   *)
NoSilentLoss ==
  \A p \in 1 .. Len(log) :
    p \notin Pending /\ log[p].ledger >= origin => p \in done \cup failed \cup Expired

(* Persisting a cursor (pollOnce's two WriteCursor calls) never puts an     *)
(* event that was behind it in front of it again, and last_ledger, which    *)
(* monitoring reads, never goes back.                                       *)
ResumeMonotone ==
  [][/\ Pending' \cap (1 .. Len(log)) \subseteq Pending
     /\ dbCursor'.ledger >= dbCursor.ledger]_vars

(* The strengthening NoSilentLoss and ResumeMonotone rest on.  A cursor cuts *)
(* the log by ledger; the running process is never behind the persisted     *)
(* cursor and never ahead of what it has handled.                           *)
Handled(p) == p \in done \cup failed \cup Expired \/ log[p].ledger < origin

LogInv ==
  /\ \A p, q \in 1 .. Len(log) : p <= q => log[p].ledger <= log[q].ledger
  /\ \A p \in 1 .. Len(log) : log[p].ledger <= latest + 1

CutsLog(c) ==
  /\ c.ledger >= 1 /\ c.ledger <= latest /\ c.pos <= Len(log)
  /\ \A p \in 1 .. Len(log) : p <= c.pos => log[p].ledger <= c.ledger
  /\ \A p \in 1 .. Len(log) : p > c.pos => log[p].ledger >= c.ledger

DurableInv ==
  /\ ~dbCursor.row => dbCursor.ledger = 0 /\ dbCursor.cur = NoCursor
  /\ dbCursor.row => dbCursor.ledger >= 1 /\ dbCursor.ledger <= latest
  /\ dbCursor.cur # NoCursor =>
       CutsLog(dbCursor.cur) /\ dbCursor.ledger = dbCursor.cur.ledger
  /\ \A p \in 1 .. Len(log) : ~IsPending(p) => Handled(p)

MemInv ==
  pc # "down" =>
    /\ cursor # NoCursor => CutsLog(cursor)
    /\ dbCursor.ledger <= startLedger
    /\ startLedger <= latest \/ (startLedger = origin /\ ~dbCursor.row)

PollInv ==
  pc \in {"poll", "retry"} =>
    /\ cursor # NoCursor => startLedger = cursor.ledger
    /\ \A p \in 1 .. Len(log) :
         IF Wanted(p, cursor, FromLedger) THEN IsPending(p) ELSE Handled(p)

PageInv ==
  pc \in {"apply", "fanout"} =>
    /\ page.lo >= 1 /\ page.lo <= next /\ next <= page.hi + 1
    /\ pc = "fanout" => next <= page.hi
    /\ CutsLog(page.resp) /\ page.resp.pos = page.hi
    /\ startLedger <= page.resp.ledger
    /\ \A p \in 1 .. Len(log) :
         /\ p < next => Handled(p)
         /\ p >= page.lo => IsPending(p)

IndInv == LogInv /\ DurableInv /\ MemInv /\ PollInv /\ PageInv

(* The indexer has consumed the whole log and holds no page.                *)
AtRest == pc = "poll" /\ cursor.ledger = latest /\ cursor.pos = Len(log)

(* Nothing has been lost so far: no error of Apply was logged and skipped,  *)
(* no event expired or preceded the start, no order or update came in the   *)
(* old format, which the code records and does not project, and no old      *)
(* close without its pair was filed under pair 0.                           *)
Intact ==
  /\ \A p \in failed : log[p].topic = "undecodable"
  /\ \A p \in 1 .. Len(log) :
       /\ log[p].ledger >= Oldest /\ log[p].ledger >= origin
       /\ log[p].topic \in {"placed", "updated_limit", "updated_tp_sl"} => log[p].full
       /\ log[p].topic \in {"closed", "tp_sl_executed", "liq"} => log[p].key = log[p].slot

(* Live tables mirror the contracts (migrations/0001_init.up.sql: "mirror   *)
(* the on-chain state") once the indexer is at rest, after any number of    *)
(* crashes and of pages delivered twice, if nothing was lost.               *)
LiveTablesMirror ==
  Intact /\ AtRest => /\ db.trades = chain.trades
                      /\ db.limits = chain.limits
                      /\ db.rates = chain.rates

(* Every tp_sl_executed carried its close price, that price had reached the *)
(* take-profit or the stop-loss, not both, and rounding to floating point   *)
(* (store.go:257-276) did not move the stop-loss across it:                 *)
(* closeTradeUnknownReason can tell them apart.                             *)
Unambiguous ==
  \A p \in 1 .. Len(log), h \in chain.settled :
    log[p].topic = "tp_sl_executed" /\ log[p].tx = h.closeTx =>
      /\ log[p].full
      /\ ~(HitsTp(h.terms, log[p].px) /\ HitsSl(h.terms, log[p].px))
      /\ ScanHitsSl(h.terms, log[p].px) <=> HitsSl(h.terms, log[p].px)

(* trade_history never holds a row the contracts did not settle, in any     *)
(* state of a redelivery, and holds them all at rest.                       *)
HistoryFaithful ==
  Intact /\ Unambiguous =>
    /\ db.history \subseteq chain.settled
    /\ AtRest => db.history = chain.settled

(* Events that move shares of k in a way no projection follows: a transfer, *)
(* a burn, and a deposit for somebody else, which is filed under its payer. *)
Moves(e, k) ==
  /\ k \in {e.key, e.slot}
  /\ e.topic \in {"transfer", "burn"} \/ (e.topic = "deposit" /\ e.key # e.slot)
Unmoved(k) == \A p \in 1 .. Len(log) : ~Moves(log[p], k)

(* The additive tables and the unconstrained history agree with the         *)
(* contracts at rest (store.go:52-54: Apply is idempotent, re-running a     *)
(* ledger after a restart is safe): the shares of a holder who never moved  *)
(* any outside vault deposits and withdrawals of his own (decode.go:320 and *)
(* 355-356 leave the rest unprojected), open interest, and order history.   *)
AdditiveTablesMirror ==
  AtRest =>
    /\ \A k \in Key : Unmoved(k) => db.vault[k].shares = chain.shares[k]
    /\ db.oi = chain.oi
    /\ db.limitHist = chain.resolved

(* Without a crash nothing is counted twice, a failing WriteCursor included *)
(* (main.go:221-229: the position in memory has moved on by then).          *)
CountedOnce == Intact /\ crashes = 0 => AdditiveTablesMirror

(* Every event that was applied is on record in trade_events                *)
(* (docs/implement_plan.md:115-116: "the audit log + replay source") until  *)
(* a crash: redelivered in pages that start elsewhere, an event may find    *)
(* its index taken by another of its transaction, which is then on record.  *)
AuditComplete ==
  \A p \in done : \E a \in db.audit :
    a.tx = log[p].tx /\ (crashes = 0 => a.ev = log[p])

(* Visible to getEvents, and before the ledger a first start chose.         *)
Offered == {p \in 1 .. Len(log) : log[p].ledger <= latest}
Skipped == {p \in Offered : log[p].ledger < origin}

D == INSTANCE Delivery WITH
       Position <- 1 .. MaxEvents,
       offered  <- Offered,
       pending  <- Pending \cap Offered,
       handled  <- done \cup failed,
       expired  <- Expired \cap Offered,
       skipped  <- Skipped

(* The indexer delivers at least once: pollOnce, its clamp, its restarts    *)
(* and its failing writes implement Delivery.                               *)
AtLeastOnce == D!Safe

(* Every visible event leaves the pending set: it is handled, or excused.   *)
NothingPendingForever == D!Drains

(* last_ledger reaches the tip again and again: no window of empty ledgers, *)
(* no clamp and no crash freezes it (main.go:215-220).                      *)
CatchesUp == []<>(dbCursor.ledger = latest)

=============================================================================
