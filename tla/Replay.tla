------------------------------- MODULE Replay -------------------------------
(***************************************************************************)
(* cmd/indexer-replay: truncate the projections, then apply every stored   *)
(* event again.  docker-compose.prod.yml runs it before the indexer starts *)
(* (Mode "boot") and every night next to the running indexer ("daily").    *)
(***************************************************************************)
EXTENDS Indexer

CONSTANTS
  Mode,            \* "boot" or "daily"
  MaxReplayFaults  \* bound on what goes wrong in a replay

ASSUME ReplayAssumption == Mode \in {"boot", "daily"} /\ MaxReplayFaults \in Nat

VARIABLES
  hash,    \* external: the rank of a transaction's hash among all hashes
  replay,  \* the process: "idle", "truncated", "applying", "failed", "done"
  rows,    \* the rows of the result set it still has to apply
  missed,  \* ghost: events the last replay had no row of or went past
  totals,  \* ghost: the contracts' shares and open interest after each event
  replayFaults

replayVars == <<hash, replay, rows, missed, replayFaults>>
allVars == <<vars, replayVars, totals>>

TotalsOf(c) == [shares |-> c.shares, oi |-> c.oi]

(* Hashes are unrelated to the order in which transactions execute.         *)
ReplayInit ==
  /\ Init
  /\ hash \in {h \in [1 .. MaxEvents -> 1 .. MaxEvents] :
                 \A i, j \in 1 .. MaxEvents : h[i] = h[j] => i = j}
  /\ replay = "idle" /\ rows = {} /\ missed = {} /\ replayFaults = 0
  /\ totals = [p \in {0} |-> TotalsOf(chain)]

(* The first replay, or the one after a failed one.                         *)
MayStart == replay \in {"idle", "failed"} /\ (Mode = "boot" => pc = "down")

(* Mutant: the additive tables are forgotten.                               *)
Truncate_KeepsAdditive ==
  /\ MayStart
  /\ replay' = "truncated"
  /\ missed' = {}
  /\ db' = [EmptyDB EXCEPT !.rates = db.rates, !.audit = db.audit,
                           !.vault = db.vault, !.oi = db.oi]
  /\ UNCHANGED <<ledgerVars, memVars, dbCursor, origin, done, failed, boundVars,
                 hash, rows, totals, replayFaults>>

(* One TRUNCATE for the six tables; rates and trade_events stay.            *)
Truncate ==
  /\ MayStart
  /\ replay' = "truncated"
  /\ missed' = {}
  /\ db' = [EmptyDB EXCEPT !.rates = db.rates, !.audit = db.audit]
  /\ UNCHANGED <<ledgerVars, memVars, dbCursor, origin, done, failed, boundVars,
                 hash, rows, totals, replayFaults>>

(* Mutant: the ledger is not the first sort key.                            *)
Before_ByHash(a, b) ==
  hash[a.tx] < hash[b.tx] \/ (a.tx = b.tx /\ a.idx < b.idx)

(* ORDER BY ledger, occurred_at, tx_hash, event_index; occurred_at is the   *)
(* ledger's close time, the same for all its events.                        *)
Before(a, b) ==
  \/ a.ev.ledger < b.ev.ledger
  \/ /\ a.ev.ledger = b.ev.ledger
     /\ \/ hash[a.tx] < hash[b.tx]
        \/ a.tx = b.tx /\ a.idx < b.idx

(* An event whose audit row found its key taken was applied, but cannot be  *)
(* applied again (cmd/indexer/main.go:204 numbers the events by page).      *)
Unrecorded == {log[p] : p \in done} \ {a.ev : a \in db.audit}

SelectRows ==
  /\ replay = "truncated"
  /\ replay' = "applying"
  /\ rows' = db.audit
  /\ missed' = Unrecorded
  /\ UNCHANGED <<vars, hash, totals, replayFaults>>

(* The row of the result set whose turn it is.                              *)
IsNext(row) == row \in rows /\ \A other \in rows \ {row} : Before(row, other)

ReplayRow ==
  /\ replay = "applying"
  /\ \E row \in rows :
       /\ IsNext(row)
       /\ db' = Apply(db, row.ev, row.idx)
       /\ rows' = rows \ {row}
  /\ UNCHANGED <<ledgerVars, memVars, dbCursor, origin, done, failed, boundVars,
                 hash, replay, missed, totals, replayFaults>>

ReplayFault == replayFaults < MaxReplayFaults /\ replayFaults' = replayFaults + 1

(* Unmarshal or Apply fails: logged, and the loop goes on.                  *)
ReplayRowFails ==
  /\ replay = "applying"
  /\ ReplayFault
  /\ \E row \in rows :
       /\ IsNext(row)
       /\ missed' = missed \cup {row.ev}
       /\ rows' = rows \ {row}
  /\ UNCHANGED <<vars, hash, replay, totals>>

(* The process is killed, or a statement before the loop is fatal: the      *)
(* tables are empty or half full and the exit status is not zero.           *)
ReplayDies ==
  /\ replay \in {"truncated", "applying"}
  /\ ReplayFault
  /\ replay' = "failed"
  /\ rows' = {}
  /\ UNCHANGED <<vars, hash, missed, totals>>

(* The result set breaks off, or a signal cancels the context: rows.Err is  *)
(* logged and the exit status is zero all the same.                         *)
ReplayCutShort ==
  /\ replay = "applying"
  /\ rows # {}
  /\ ReplayFault
  /\ missed' = missed \cup {row.ev : row \in rows}
  /\ rows' = {}
  /\ UNCHANGED <<vars, hash, replay, totals>>

ReplayDone ==
  /\ replay = "applying"
  /\ rows = {}
  /\ replay' = "done"
  /\ UNCHANGED <<vars, hash, rows, missed, totals, replayFaults>>

(* In boot mode the indexer waits for the replay to exit with status zero.  *)
IndexerMay == Mode = "boot" => replay \in {"idle", "done"}

TotalsFollow ==
  totals' = [p \in 0 .. Len(log') |-> IF p <= Len(log) THEN totals[p] ELSE TotalsOf(chain')]

ReplayNext ==
  \/ Truncate \/ SelectRows \/ ReplayRow \/ ReplayDone
  \/ ReplayRowFails \/ ReplayDies \/ ReplayCutShort
  \/ (LedgerStep \/ (IndexerMay /\ IndexerStep)) /\ TotalsFollow /\ UNCHANGED replayVars

ReplaySpec == ReplayInit /\ [][ReplayNext]_allVars

-----------------------------------------------------------------------------
Rebuilt ==
  AtRest /\ replay = "done" =>
    /\ db.trades = chain.trades /\ db.limits = chain.limits
    /\ db.rates = chain.rates
    /\ Unambiguous => db.history = chain.settled

(* Within a ledger, no two transactions on the same slot have hashes in the *)
(* opposite order of their execution.                                       *)
HashesInOrder ==
  \A p, q \in 1 .. Len(log) :
    log[p].tx < log[q].tx /\ log[p].ledger = log[q].ledger /\ log[p].key = log[q].key
      => hash[log[p].tx] < hash[log[q].tx]

(* A replay before the indexer starts restores every idempotent projection, *)
(* whatever part of the log was indexed before it, whatever is delivered    *)
(* again after it and wherever an earlier replay died: if the indexer lost  *)
(* nothing, the hashes happen to be in order, every applied event has a row *)
(* and no row was passed over (cmd/indexer-replay/main.go:67-79 goes on     *)
(* after an error and reports success).                                     *)
ReplayRestores == Intact /\ HashesInOrder /\ missed = {} => Rebuilt

Audited == {p \in 1 .. Len(log) : \E a \in db.audit : a.ev = log[p]}

(* Redelivered in a page that starts elsewhere, an event is recorded again  *)
(* under another index (cmd/indexer/main.go:204).                           *)
RecordedOnce == \A a, b \in db.audit : a.ev = b.ev => a = b

(* Replaying repairs what deliveries after a crash counted twice: when the  *)
(* loop ends, shares and open interest are those the contracts had after    *)
(* the last event on record (cmd/indexer-replay/main.go:43-77), if nothing  *)
(* was lost and no event has two rows.  The shares of a holder who moved    *)
(* some by transfer, burn or deposit for another are not among them: the    *)
(* replay projects those events no more than the indexer does.              *)
ReplayCountsOnce ==
  /\ replay = "applying" /\ rows = {}
  /\ Intact /\ HashesInOrder /\ missed = {} /\ RecordedOnce
  => \A n \in {0} \cup Audited :
       (\A p \in Audited : p <= n) =>
         \A k \in Key : /\ Unmoved(k) => db.vault[k].shares = totals[n].shares[k]
                        /\ db.oi[k] = totals[n].oi[k]
=============================================================================
