---------------------------- MODULE ReplayProofs ----------------------------
(***************************************************************************)
(* A replay before the indexer starts restores the projections, for every  *)
(* value of the constants.                                                 *)
(***************************************************************************)
EXTENDS Replay, TablesProofs

(* Transactions are numbered in the order of the log, and only an executed  *)
(* order has two events in one.                                             *)
LogTx(lg) ==
  \A p \in 1 .. Len(lg) :
    /\ lg[p].tx \in 1 .. p
    /\ \A q \in p + 1 .. Len(lg) :
         \/ lg[p].tx < lg[q].tx
         \/ lg[p].tx = lg[q].tx /\ lg[p].topic = "executed" /\ lg[q].topic = "opened"

(* The audit row of an event.                                               *)
RowFor(lg, a, p) == a.ev = lg[p] /\ a.tx = lg[p].tx
HasRow(lg, rs, m) == \A a \in rs : \E p \in 1 .. m : RowFor(lg, a, p)

(* The audit log holds events up to m, and all before m were handled.       *)
AuditUpTo(m) ==
  /\ HasRow(log, db.audit, m)
  /\ \A p \in 1 .. m - 1 : p \in done \/ log[p].topic = "undecodable"

(* A rate was set by an event on record: the replay does not truncate rates.*)
RatesRecorded(d) ==
  \A k \in Key, r \in Rate :
    d.rates[k][r] # 0 => \E a \in d.audit : a.ev.key = k /\ a.ev.topic = r

OnFile == RatesRecorded(db) /\ \E m \in 0 .. Len(log) : AuditUpTo(m)

(* The events that concern one slot of one table, and those the replay has  *)
(* not yet come to.                                                         *)
TradeTopics == TradeCloses \cup {"opened", "updated_tp_sl"}
LimitTopics == LimitCloses \cup {"placed", "updated_limit"}
On(lg, p, k, T) == lg[p].key = k /\ lg[p].topic \in T
Left(lg, rs, p) == \E a \in rs : a.ev = lg[p]

(* The replay came to x with the slot: what is before was applied, what is  *)
(* after is left, and x itself may come once more under another index.      *)
Caught(lg, rs, k, T, x, m) ==
  \A p \in 1 .. m : On(lg, p, k, T) =>
    (p > x => Left(lg, rs, p)) /\ (p < x => ~Left(lg, rs, p))

(* The closes of slot k up to x are in the history.                         *)
HistoryUpTo(lg, hs, k, x) ==
  \A p \in 1 .. x : On(lg, p, k, TradeCloses) =>
    \E h \in hs : h.key = k /\ h.closeTx = lg[p].tx

TradesReplayed(k, m) == \E x \in 0 .. m :
  /\ Caught(log, rows, k, TradeTopics, x, m)
  /\ Good(TKinds(log, k), TradeRows(log), x, x, TradeView(db.trades[k]))
  /\ Unambiguous => HistoryUpTo(log, db.history, k, x)
LimitsReplayed(k, m) == \E x \in 0 .. m :
  /\ Caught(log, rows, k, LimitTopics, x, m)
  /\ Good(LKinds(log, k), LimitRows(log), x, x, LimitView(db.limits[k]))
RateReplayed(k, r, m) == \E x \in 0 .. m :
  /\ Caught(log, rows, k, {r}, x, m)
  /\ GoodRate(log, k, r, x, m, db.rates[k][r])

Replayed(m) ==
  /\ HasRow(log, rows, m)
  /\ Unambiguous => db.history \subseteq chain.settled
  /\ \A k \in Key : /\ TradesReplayed(k, m) /\ LimitsReplayed(k, m)
                    /\ \A r \in Rate : RateReplayed(k, r, m)

(* What the result depends on.                                              *)
Sound == Intact /\ HashesInOrder /\ missed = {}

Emptied == /\ db.trades = [k \in Key |-> NoRow] /\ db.limits = [k \in Key |-> NoRow]
           /\ db.history = {}

(* The inductive invariant, phase by phase.                                 *)
InPlace == \E n \in 0 .. Len(log) : Position(n)
Rebuilding == \E m \in 0 .. Len(log) : \E n \in 0 .. m : Position(n) /\ Replayed(m)
UpToDate == \E m \in 0 .. Len(log) : \E n \in 0 .. m : Mirrored(n, m)

ReplayTypeOK ==
  /\ hash \in [1 .. MaxEvents -> 1 .. MaxEvents]
  /\ replay \in {"idle", "truncated", "applying", "failed", "done"}
  /\ rows \subseteq db.audit

ReplayInv ==
  /\ ReplayTypeOK /\ ChainInv(log, chain) /\ ClampInv /\ LogTx(log)
  /\ replay # "done" /\ Intact => OnFile
  /\ replay = "idle" /\ Intact => UpToDate
  /\ replay \in {"truncated", "applying", "failed"} => pc = "down" /\ (Intact => InPlace)
  /\ replay = "truncated" => Emptied
  /\ replay = "applying" /\ Sound => Rebuilding
  /\ replay = "done" /\ Sound => UpToDate

-----------------------------------------------------------------------------
(* Transactions stay numbered.                                              *)
LEMMA LogTxKept ==
  ASSUME FullInv, ChainInv(log, chain), LogTx(log), [Next]_vars
  PROVE  LogTx(log)'
<1>1. StepGrows /\ LedgerTypeOK /\ TxSorted(log)
  BY NextGrows DEF FullInv, TypeOK, ChainInv
<1>2. CASE Contracts
  <2>1. /\ NextTx \in Nat
        /\ \A p \in 1 .. Len(log) : log[p].tx \in Nat /\ log[p].tx < NextTx
    BY <1>1, FreshTx
  <2>2. \A p \in 1 .. Len(log') :
          p > Len(log) => /\ log'[p].tx = NextTx /\ p <= Len(log) + 2
                          /\ p = Len(log) + 2 => /\ log'[p - 1].topic = "executed"
                                                /\ log'[p].topic = "opened"
    BY <1>1, <1>2, NewTx
  <2>3. NextTx \in 1 .. Len(log) + 1
    <3>1. CASE log = <<>>
      BY <1>1, <3>1 DEF NextTx, StepGrows
    <3>2. CASE log # <<>>
      <4>1. Len(log) \in 1 .. Len(log)
        BY <1>1, <3>2 DEF LedgerTypeOK
      <4>2. log[Len(log)].tx \in 1 .. Len(log)
        BY <4>1 DEF LogTx
      <4> QED BY <1>1, <3>2, <4>2 DEF NextTx, StepGrows
    <3> QED BY <3>1, <3>2
  <2>4. ASSUME NEW p \in 1 .. Len(log') PROVE log'[p].tx \in 1 .. p
    <3>1. CASE p <= Len(log)
      BY <1>1, <3>1 DEF StepGrows, LogTx
    <3>2. CASE p > Len(log)
      BY <1>1, <2>2, <2>3, <3>2 DEF StepGrows
    <3> QED BY <1>1, <3>1, <3>2 DEF StepGrows
  <2>5. ASSUME NEW p \in 1 .. Len(log'), NEW q \in p + 1 .. Len(log')
        PROVE  \/ log'[p].tx < log'[q].tx
               \/ /\ log'[p].tx = log'[q].tx
                  /\ log'[p].topic = "executed" /\ log'[q].topic = "opened"
    <3>1. CASE q <= Len(log)
      <4>1. p \in 1 .. Len(log) /\ q \in p + 1 .. Len(log) /\ log'[p] = log[p] /\ log'[q] = log[q]
        BY <1>1, <3>1 DEF StepGrows
      <4> QED BY <4>1 DEF LogTx
    <3>2. CASE p <= Len(log) /\ q > Len(log)
      <4>1. p \in 1 .. Len(log) /\ log'[p] = log[p] /\ q \in Len(log) + 1 .. Len(log')
        BY <1>1, <3>2 DEF StepGrows
      <4>2. log'[q].tx = NextTx
        BY <2>2, <3>2
      <4>3. log[p].tx < NextTx
        BY <2>1, <4>1
      <4> QED BY <4>1, <4>2, <4>3
    <3>3. CASE p > Len(log)
      <4>1. p = Len(log) + 1 /\ q = Len(log) + 2 /\ q - 1 = p
        BY <1>1, <2>2, <3>3 DEF StepGrows
      <4> QED BY <1>1, <2>2, <3>3, <4>1 DEF StepGrows
    <3> QED BY <1>1, <3>1, <3>2, <3>3 DEF StepGrows
  <2> QED BY <2>4, <2>5 DEF LogTx
<1>3. CASE ~Contracts
  <2>1. log' = log
    BY <1>3 DEF Next, LedgerStep, CloseLedger, IndexerStep, Boot, GetEvents, Clamp, RetryError,
       EventError, ApplyEvent, Fanout, EndPage, Crash, vars, ledgerVars
  <2> QED BY <2>1
<1> QED BY <1>2, <1>3

(* Two events of the log are different records.                             *)
LEMMA LogDistinct ==
  ASSUME TypeOK, LogTx(log), NEW p \in 1 .. Len(log), NEW q \in 1 .. Len(log), log[p] = log[q]
  PROVE  p = q
<1>1. Len(log) \in Nat /\ log[p].tx \in Nat
  BY Basics, EventFields
<1>2. ASSUME NEW i \in 1 .. Len(log), NEW j \in i + 1 .. Len(log), log[i] = log[j] PROVE FALSE
  <2>1. \/ log[i].tx < log[j].tx
        \/ log[i].topic = "executed" /\ log[j].topic = "opened"
    BY DEF LogTx
  <2>2. log[i].tx \in Nat
    BY Basics, EventFields
  <2>3. log[i].tx = log[j].tx /\ log[i].topic = log[j].topic
    BY <1>2
  <2>4. ~(log[i].tx < log[j].tx)
    BY <2>2, <2>3
  <2> QED BY <2>1, <2>3, <2>4
<1> QED BY <1>1, <1>2

(* A step of the indexer or of the chain keeps the audit log in order: what *)
(* is applied is the next event of a page, behind which all is handled.     *)
LEMMA OnFileKept ==
  ASSUME FullInv, FullInv', LogTx(log), [Next]_vars, Intact', OnFile
  PROVE  OnFile'
<1>1. StepGrows /\ Intact /\ Len(log) \in Nat
  BY NextGrows, IntactBefore, Basics DEF FullInv
<1>2. done \subseteq done'
  BY DEF Next, LedgerStep, IndexerStep, Boot, GetEvents, Clamp, RetryError, EventError,
     ApplyEvent, Fanout, EndPage, Crash, vars, indexerVars
<1>3. PICK m \in 0 .. Len(log) : AuditUpTo(m)
  BY DEF OnFile
<1>4. /\ m \in 0 .. Len(log') /\ m \in Nat
      /\ \A p \in 1 .. m - 1 : p \in done' \/ log'[p].topic = "undecodable"
  BY <1>1, <1>2, <1>3 DEF StepGrows, AuditUpTo
<1>5. CASE db' = db
  <2>1. HasRow(log', db.audit, m)
    BY <1>1, <1>3 DEF StepGrows, AuditUpTo, HasRow, RowFor
  <2>2. AuditUpTo(m)'
    BY <1>4, <1>5, <2>1 DEF AuditUpTo
  <2>3. RatesRecorded(db')
    BY <1>5 DEF OnFile
  <2> QED BY <1>4, <2>2, <2>3 DEF OnFile
<1>6. CASE Audits /\ (EventError \/ ApplyEvent)
  <2> DEFINE e == log[next]
             row == [tx |-> e.tx, idx |-> next - page.lo, ev |-> e]
  <2>1. /\ next \in 1 .. Len(log) /\ next - page.lo \in Nat /\ e \in Event /\ log' = log
        /\ db \in DBType /\ db' = Apply(db, e, next - page.lo)
    BY <1>6, InPageFacts, Basics DEF Audits, InPage, FullInv, IndInv, EventError, ApplyEvent,
       ledgerVars, TypeOK
  <2>2. \A p \in 1 .. next - 1 : p \in done \/ log[p].topic = "undecodable"
    <3> SUFFICES ASSUME NEW p \in 1 .. next - 1 PROVE p \in done \/ log[p].topic = "undecodable"
      OBVIOUS
    <3>1. p \in 1 .. Len(log) /\ p < next
      BY <1>1, <2>1
    <3>2. Handled(p)
      BY <1>6, <3>1 DEF FullInv, IndInv, PageInv, Audits, InPage
    <3>3. p \in done \cup failed
      BY <1>1, <3>1, <3>2, IntactHandled DEF FullInv
    <3> QED BY <1>1, <3>3 DEF Intact
  <2>3. /\ db.audit \subseteq db'.audit
        /\ \A a \in db'.audit : a \in db.audit \/ a = row
    BY <2>1, ApplyAudits
  <2>4. row.ev = log[next] /\ row.tx = log[next].tx
    OBVIOUS
  <2> HIDE DEF row
  <2>5. \E i \in 0 .. Len(log') : AuditUpTo(i)'
    <3>1. CASE next <= m
      <4>1. HasRow(log', db'.audit, m)
        <5> SUFFICES ASSUME NEW a \in db'.audit PROVE \E p \in 1 .. m : RowFor(log, a, p)
          BY <2>1 DEF HasRow
        <5>1. CASE a \in db.audit
          BY <1>3, <5>1 DEF AuditUpTo, HasRow
        <5>2. CASE a = row
          BY <1>4, <2>1, <2>4, <3>1, <5>2 DEF RowFor
        <5> QED BY <2>3, <5>1, <5>2
      <4> QED BY <1>4, <4>1 DEF AuditUpTo
    <3>2. CASE next > m
      <4>1. HasRow(log', db'.audit, next)
        <5> SUFFICES ASSUME NEW a \in db'.audit PROVE \E p \in 1 .. next : RowFor(log, a, p)
          BY <2>1 DEF HasRow
        <5>1. CASE a \in db.audit
          <6>1. PICK p \in 1 .. m : RowFor(log, a, p)
            BY <1>3, <5>1 DEF AuditUpTo, HasRow
          <6>2. p \in 1 .. next
            BY <1>4, <2>1, <3>2
          <6> QED BY <6>1, <6>2
        <5>2. CASE a = row
          BY <2>1, <2>4, <5>2 DEF RowFor
        <5> QED BY <2>3, <5>1, <5>2
      <4>2. \A p \in 1 .. next - 1 : p \in done' \/ log'[p].topic = "undecodable"
        BY <1>2, <2>1, <2>2
      <4>3. next \in 0 .. Len(log')
        BY <2>1
      <4>4. PICK i \in 0 .. Len(log') : i = next
        BY <4>3
      <4>5. AuditUpTo(i)'
        BY <4>1, <4>2, <4>4 DEF AuditUpTo
      <4> QED BY <4>5
    <3> QED BY <1>4, <2>1, <3>1, <3>2
  <2>6. RatesRecorded(db')
    <3> SUFFICES ASSUME NEW k \in Key, NEW r \in Rate, db'.rates[k][r] # 0
                 PROVE  \E a \in db'.audit : a.ev.key = k /\ a.ev.topic = r
      BY DEF RatesRecorded
    <3>1. CASE e.key = k /\ e.topic = r
      <4>1. CASE KeyTaken(db, e, next - page.lo)
        <5>1. PICK a \in db.audit : a.tx = e.tx
          BY <4>1 DEF KeyTaken
        <5>2. PICK p \in 1 .. m : RowFor(log, a, p)
          BY <1>3 DEF AuditUpTo, HasRow
        <5>3. p \in 1 .. Len(log) /\ log[p].tx = log[next].tx /\ log[p].tx \in Nat
          <6>1. p \in 1 .. Len(log) /\ log[p].tx = log[next].tx
            BY <1>1, <1>4, <5>1, <5>2 DEF RowFor
          <6> QED BY <2>1, <6>1, EventFields
        <5>4. log[next].topic # "executed" /\ log[next].topic # "opened"
          BY <3>1 DEF Rate
        <5>5. p = next
          <6>1. \A i \in 1 .. Len(log) : \A j \in i + 1 .. Len(log) :
                  \/ log[i].tx < log[j].tx
                  \/ log[i].topic = "executed" /\ log[j].topic = "opened"
            BY <1>1 DEF LogTx
          <6>2. CASE p < next
            BY <2>1, <5>3, <5>4, <6>1, <6>2
          <6>3. CASE next < p
            BY <2>1, <5>3, <5>4, <6>1, <6>3
          <6> QED BY <2>1, <5>3, <6>2, <6>3
        <5> QED BY <2>3, <3>1, <5>2, <5>5 DEF RowFor
      <4>2. CASE ~KeyTaken(db, e, next - page.lo)
        <5>1. row \in db'.audit
          BY <2>1, <4>2, ApplyAudits DEF row
        <5> QED BY <2>4, <3>1, <5>1
      <4> QED BY <4>1, <4>2
    <3>2. CASE ~(e.key = k /\ e.topic = r)
      <4>1. Projected(e)
        BY <1>1, <2>1 DEF Intact, Projected
      <4>2. db'.rates[k][r] = db.rates[k][r]
        BY <2>1, <3>2, <4>1, ApplyStep DEF DbStep, TableStep
      <4>3. \E a \in db.audit : a.ev.key = k /\ a.ev.topic = r
        BY <4>2 DEF OnFile, RatesRecorded
      <4> QED BY <2>3, <4>3
    <3> QED BY <3>1, <3>2
  <2> QED BY <2>5, <2>6 DEF OnFile
<1> QED BY <1>5, <1>6, OnlyApplyAudits

-----------------------------------------------------------------------------
(* Steps that only write tables.                                            *)
Elsewhere == UNCHANGED <<ledgerVars, memVars, dbCursor, origin, done, failed, boundVars>>

(* They leave the indexer where it is, and what it knows.                   *)
LEMMA ElsewhereKeeps ==
  ASSUME FullInv, ChainInv(log, chain), ClampInv, LogTx(log), Elsewhere, db' \in DBType
  PROVE  /\ FullInv' /\ ChainInv(log, chain)' /\ ClampInv' /\ LogTx(log)'
         /\ Intact' <=> Intact
         /\ Unambiguous' <=> Unambiguous
         /\ \A n : Position(n)' <=> Position(n)
         /\ log' = log /\ chain' = chain /\ pc' = pc /\ done' = done
<1>1. /\ log' = log /\ latest' = latest /\ chain' = chain /\ pc' = pc
      /\ startLedger' = startLedger /\ cursor' = cursor /\ page' = page /\ next' = next
      /\ dbCursor' = dbCursor /\ origin' = origin /\ done' = done /\ failed' = failed
      /\ crashes' = crashes /\ applyFaults' = applyFaults /\ cursorFaults' = cursorFaults
  BY DEF Elsewhere, ledgerVars, memVars, boundVars
<1>2. TypeOK'
  BY <1>1 DEF FullInv, TypeOK, LedgerTypeOK
<1>3. /\ Oldest' = Oldest /\ \A p : IsPending(p)' <=> IsPending(p)
      /\ FromLedger' = FromLedger
  BY <1>1 DEF Oldest, IsPending, Wanted, FromLedger
<1>4. \A p : Handled(p)' <=> Handled(p)
  BY <1>1, <1>3 DEF Handled, Expired
<1>5. LogInv' /\ MemInv'
  BY <1>1 DEF FullInv, IndInv, LogInv, MemInv, CutsLog
<1>6. DurableInv'
  BY <1>1, <1>3, <1>4 DEF FullInv, IndInv, DurableInv, CutsLog
<1>7. PollInv'
  BY <1>1, <1>3, <1>4 DEF FullInv, IndInv, PollInv, Wanted
<1>8. PageInv'
  BY <1>1, <1>3, <1>4 DEF FullInv, IndInv, PageInv, CutsLog
<1>9. OriginInv' /\ ClampInv'
  BY <1>1, <1>3 DEF FullInv, OriginInv, ClampInv
<1>10. Intact' <=> Intact
  BY <1>1, <1>3 DEF Intact
<1>11. Unambiguous' <=> Unambiguous
  BY <1>1 DEF Unambiguous
<1>12. \A n : Position(n)' <=> Position(n)
  BY <1>1, <1>3 DEF Position, Coming, Wanted
<1> QED BY <1>1, <1>2, <1>5, <1>6, <1>7, <1>8, <1>9, <1>10, <1>11, <1>12 DEF FullInv, IndInv

-----------------------------------------------------------------------------
(* One slot in a replay.  Between x and q nothing concerns it; the event q  *)
(* is the next that does, or x itself once more.                            *)
LEMMA ReplayGood ==
  ASSUME NEW kind, NEW new, NEW q \in Nat, q >= 1, NEW x \in 0 .. q, NEW r, Alternates(kind, q),
         Good(kind, new, x, x, r), \A p \in x + 1 .. q - 1 : kind[p] = "other"
  PROVE  /\ Good(kind, new, q, q, Step(kind[q], new[q], r))
         /\ x < q => Good(kind, new, q - 1, q - 1, r)
<1>1. q - 1 \in Nat /\ (q - 1) + 1 = q /\ x \in Nat /\ q \in 0 .. q /\ x \in 0 .. x
  OBVIOUS
<1>2. CASE x = q
  <2>1. Good(kind, new, q - 1, q, r)
    BY <1>1, <1>2, RestartGood
  <2>2. Good(kind, new, q, q, Run(kind, new, r, q))
    BY <1>1, <2>1, RedeliverGood
  <2> QED BY <1>2, <2>2 DEF Run
<1>3. CASE x < q
  <2>1. Good(kind, new, q - 1, q - 1, r)
    <3>1. x <= q - 1 /\ q - 1 = IF q - 1 <= x THEN x ELSE q - 1
      BY <1>1, <1>3
    <3> QED BY <1>1, <3>1, SkipGood
  <2>2. kind[q] = "open" => ~r.on
    BY <1>1, <2>1, EmptyBeforeOpen
  <2>3. Good(kind, new, q, q, Run(kind, new, r, q))
    BY <1>1, <2>1, <2>2, AdvanceGood
  <2> QED BY <2>1, <2>3 DEF Run
<1> QED BY <1>1, <1>2, <1>3

LEMMA RangeWidens ==
  ASSUME NEW N \in Nat, NEW n \in Nat, n <= N, NEW p \in 1 .. n, NEW v \in 1 .. p
  PROVE  v \in 1 .. N
OBVIOUS

LEMMA RangeIsNat ==
  ASSUME MaxEvents \in Nat, NEW v \in 1 .. MaxEvents
  PROVE  v \in Nat
OBVIOUS

(* A replay takes the events of one slot in the order of the log: the rows  *)
(* are sorted by ledger, and by hash within one.  Only the two events of an *)
(* executed order may change places, and they are of two tables.            *)
LEMMA NextInOrder ==
  ASSUME FullInv, LogTx(log), hash \in [1 .. MaxEvents -> 1 .. MaxEvents], HashesInOrder,
         NEW p \in 1 .. Len(log), NEW q \in 1 .. Len(log), p < q, log[p].key = log[q].key,
         ~(log[p].topic = "executed" /\ log[q].topic = "opened"),
         NEW row, RowFor(log, row, q), IsNext(row), NEW a \in rows, RowFor(log, a, p)
  PROVE  FALSE
<1>1. Len(log) \in Nat /\ Len(log) <= MaxEvents /\ MaxEvents \in Nat
  BY Basics, LedgerAssumption DEF FullInv, TypeOK, LedgerTypeOK
<1>2. log[p].ledger \in Nat /\ log[q].ledger \in Nat /\ log[p].ledger <= log[q].ledger
  <2>1. TypeOK /\ LogInv
    BY DEF FullInv, IndInv
  <2>2. log[p].ledger \in Nat /\ log[q].ledger \in Nat
    BY <2>1, Basics, Zenon
  <2>3. p <= q
    BY <1>1
  <2> QED BY <2>1, <2>2, <2>3 DEF LogInv
<1>3. log[p].tx < log[q].tx /\ log[p].tx \in 1 .. MaxEvents /\ log[q].tx \in 1 .. MaxEvents
  <2>1. q \in p + 1 .. Len(log)
    BY <1>1
  <2>2. log[p].tx \in 1 .. p /\ log[q].tx \in 1 .. q
    BY DEF LogTx
  <2>3. log[p].tx < log[q].tx
    BY <2>1 DEF LogTx
  <2>4. log[p].tx \in 1 .. MaxEvents
    BY <1>1, <2>2, RangeWidens
  <2>5. log[q].tx \in 1 .. MaxEvents
    BY <1>1, <2>2, RangeWidens
  <2> QED BY <2>3, <2>4, <2>5
<1>4. a.tx = log[p].tx /\ row.tx = log[q].tx /\ a.ev = log[p] /\ row.ev = log[q]
  BY DEF RowFor
<1>5. Before(row, a)
  <2>1. a # row
    BY <1>3, <1>4
  <2> QED BY <2>1 DEF IsNext
<1>6. log[p].ledger = log[q].ledger /\ hash[log[q].tx] < hash[log[p].tx]
  BY <1>2, <1>3, <1>4, <1>5 DEF Before
<1>7. hash[log[p].tx] < hash[log[q].tx]
  BY <1>3, <1>6 DEF HashesInOrder
<1>8. hash[log[p].tx] \in Nat /\ hash[log[q].tx] \in Nat
  <2>1. hash[log[p].tx] \in 1 .. MaxEvents /\ hash[log[q].tx] \in 1 .. MaxEvents
    BY <1>3
  <2> QED BY <2>1, RangeIsNat, LedgerAssumption, Zenon
<1> QED BY <1>6, <1>7, <1>8

(* The topics of one table.                                                 *)
OneTable(T) == "executed" \notin T \/ "opened" \notin T

(* The tables' topics are.                                                  *)
LEMMA TablesAreOne ==
  OneTable(TradeTopics) /\ OneTable(LimitTopics) /\ \A r \in Rate : OneTable({r})
  BY DEF OneTable, TradeTopics, LimitTopics, TradeCloses, LimitCloses, Rate

(* What one row of the replay does to how far each slot is.                 *)
LEMMA CaughtStep ==
  ASSUME FullInv, LogTx(log), hash \in [1 .. MaxEvents -> 1 .. MaxEvents], HashesInOrder,
         NEW m \in 0 .. Len(log), HasRow(log, rows, m), NEW q \in 1 .. m,
         NEW row, RowFor(log, row, q), IsNext(row), NEW rs, rs = rows \ {row},
         NEW k, NEW T, OneTable(T), NEW x \in 0 .. m, Caught(log, rows, k, T, x, m)
  PROVE  /\ On(log, q, k, T) => /\ x <= q /\ Caught(log, rs, k, T, q, m)
                                /\ \A p \in x + 1 .. q - 1 : ~On(log, p, k, T)
         /\ ~On(log, q, k, T) => Caught(log, rs, k, T, x, m)
<1>1. Len(log) \in Nat /\ m \in Nat /\ q \in 1 .. Len(log) /\ TypeOK /\ x \in Nat
  BY Basics DEF FullInv
<1>2. row \in rows /\ row.ev = log[q]
  BY DEF IsNext, RowFor
<1>3. ASSUME NEW p \in 1 .. m, p # q PROVE Left(log, rs, p) <=> Left(log, rows, p)
  <2>1. p \in 1 .. Len(log)
    BY <1>1
  <2>2. log[p] # log[q]
    BY <1>1, <1>3, <2>1, LogDistinct
  <2> QED BY <1>2, <2>2 DEF Left
<1>4. ASSUME NEW p \in 1 .. m, p < q, On(log, p, k, T), On(log, q, k, T)
      PROVE  ~Left(log, rows, p)
  <2> SUFFICES ASSUME NEW a \in rows, a.ev = log[p] PROVE FALSE
    BY DEF Left
  <2>1. PICK i \in 1 .. m : RowFor(log, a, i)
    BY DEF HasRow
  <2>2. p \in 1 .. Len(log) /\ i \in 1 .. Len(log) /\ log[i] = log[p]
    BY <1>1, <2>1 DEF RowFor
  <2>3. i = p
    BY <1>1, <2>2, LogDistinct
  <2>4. log[p].key = log[q].key /\ ~(log[p].topic = "executed" /\ log[q].topic = "opened")
    BY <1>4 DEF On, OneTable
  <2> QED BY <1>1, <1>4, <2>1, <2>2, <2>3, <2>4, NextInOrder
<1>5. CASE On(log, q, k, T)
  <2>1. x <= q
    <3>1. Left(log, rows, q)
      BY <1>2 DEF Left
    <3> QED BY <1>1, <1>5, <3>1 DEF Caught
  <2>2. \A p \in x + 1 .. q - 1 : ~On(log, p, k, T)
    <3> SUFFICES ASSUME NEW p \in x + 1 .. q - 1, On(log, p, k, T) PROVE FALSE
      OBVIOUS
    <3>1. p \in 1 .. m /\ p < q /\ p > x
      BY <1>1
    <3> QED BY <1>4, <1>5, <3>1 DEF Caught
  <2>3. Caught(log, rs, k, T, q, m)
    <3> SUFFICES ASSUME NEW p \in 1 .. m, On(log, p, k, T)
                 PROVE  (p > q => Left(log, rs, p)) /\ (p < q => ~Left(log, rs, p))
      BY DEF Caught
    <3>1. CASE p > q
      <4>1. p > x /\ p # q
        BY <1>1, <2>1, <3>1
      <4>2. Left(log, rows, p)
        BY <4>1 DEF Caught
      <4>3. ~(p < q)
        BY <1>1, <3>1
      <4> QED BY <1>3, <4>1, <4>2, <4>3
    <3>2. CASE p < q
      <4>1. p # q /\ ~(p > q)
        BY <1>1, <3>2
      <4>2. ~Left(log, rows, p)
        BY <1>4, <1>5, <3>2
      <4> QED BY <1>3, <4>1, <4>2
    <3>3. CASE p = q
      BY <1>1, <3>3
    <3> QED BY <1>1, <3>1, <3>2, <3>3
  <2> QED BY <1>5, <2>1, <2>2, <2>3
<1>6. CASE ~On(log, q, k, T)
  BY <1>3, <1>6 DEF Caught
<1> QED BY <1>5, <1>6

(* What concerns a slot is what has a kind for it.                          *)
LEMMA KindIsOn ==
  ASSUME NEW lg, NEW k, NEW p \in 1 .. Len(lg)
  PROVE  /\ TKinds(lg, k)[p] = TKind(lg[p], k) /\ LKinds(lg, k)[p] = LKind(lg[p], k)
         /\ TradeRows(lg)[p] = TradeOf(lg[p]) /\ LimitRows(lg)[p] = LimitOf(lg[p])
         /\ TKinds(lg, k)[p] = "other" <=> ~On(lg, p, k, TradeTopics)
         /\ LKinds(lg, k)[p] = "other" <=> ~On(lg, p, k, LimitTopics)
         /\ TKinds(lg, k)[p] = "close" <=> On(lg, p, k, TradeCloses)
<1>1. /\ TKinds(lg, k)[p] = TKind(lg[p], k) /\ LKinds(lg, k)[p] = LKind(lg[p], k)
      /\ TradeRows(lg)[p] = TradeOf(lg[p]) /\ LimitRows(lg)[p] = LimitOf(lg[p])
  BY DEF TKinds, LKinds, TradeRows, LimitRows
<1>2. TKind(lg[p], k) = "other" <=> ~On(lg, p, k, TradeTopics)
  BY DEF TKind, On, TradeTopics, TradeCloses
<1>3. LKind(lg[p], k) = "other" <=> ~On(lg, p, k, LimitTopics)
  BY DEF LKind, On, LimitTopics, LimitCloses
<1>4. TKind(lg[p], k) = "close" <=> On(lg, p, k, TradeCloses)
  BY DEF TKind, On, TradeCloses
<1> QED BY <1>1, <1>2, <1>3, <1>4

(* After its close a slot is empty.                                         *)
LEMMA EmptyAfterClose ==
  ASSUME NEW kind, NEW new, NEW q \in Nat, q >= 1, NEW r, kind[q] = "close",
         Good(kind, new, q, q, r)
  PROVE  ~r.on
<1>1. Near(kind, new, q, q, r)
  BY GoodAtFront
<1>2. ASSUME NEW o, Last(kind, 0, q, o), kind[o] = "open" PROVE FALSE
  <2>1. o \in 1 .. q /\ \A p \in o + 1 .. q : kind[p] \notin Turn
    BY <1>2 DEF Last, Idle
  <2>2. o # q
    BY <1>2
  <2>3. q \in o + 1 .. q
    BY <2>1, <2>2
  <2> QED BY <2>1, <2>3 DEF Turn
<1> QED BY <1>1, <1>2 DEF Near

(* A close that is replayed adds the row the contracts settled, and one     *)
(* that is replayed once more adds nothing.                                 *)
LEMMA CloseReplayed ==
  ASSUME FullInv, ChainOK(log, chain), Unambiguous, NEW q \in 1 .. Len(log),
         log[q].topic \in TradeCloses, NEW x \in 0 .. q, NEW k, k = log[q].key,
         NEW d \in DBType, NEW u, HistoryStep(d, u, log[q]), d.history \subseteq chain.settled,
         Good(TKinds(log, k), TradeRows(log), x, x, TradeView(d.trades[k])),
         x < q => Good(TKinds(log, k), TradeRows(log), q - 1, q - 1, TradeView(d.trades[k]))
  PROVE  /\ u.history \subseteq chain.settled
         /\ x < q => \E h \in u.history : h.key = k /\ h.closeTx = log[q].tx
<1> DEFINE e == log[q]
           old == d.trades[k]
           new == SettledAs(old, e, ReasonOf(old, e))
<1>1. q - 1 \in Nat /\ (q - 1) + 1 = q /\ q <= Len(log) /\ q \in Nat /\ q >= 1 /\ Len(log) \in Nat
  BY Basics DEF FullInv
<1>2. k \in Key /\ (old = NoRow \/ old \in TradeRow)
  <2>1. k \in Key
    BY Basics, EventFields DEF FullInv
  <2> QED BY <2>1 DEF DBType, TradeTable
<1>3. u.history = IF Closes(d, e) THEN d.history \cup {new} ELSE d.history
  BY DEF HistoryStep
<1>4. new.key = k /\ new.closeTx = e.tx
  BY DEF SettledAs
<1>5. Closes(d, e) <=> old # NoRow /\ ~\E h \in d.history : h.key = k /\ h.closeTx = e.tx
  BY DEF Closes
<1>6. CASE x < q
  <2>1. Was(log, log[(q - 1) + 1].key, q - 1, old)
    BY <1>1, <1>6 DEF Was
  <2> HIDE DEF old
  <2>2. /\ old # NoRow
        /\ SettledAs(old, log[(q - 1) + 1], ReasonOf(old, log[(q - 1) + 1])) \in chain.settled
    BY <1>1, <1>2, <2>1, CloseFindsSettled
  <2>3. old # NoRow /\ new \in chain.settled
    BY <1>1, <2>2
  <2> HIDE DEF new
  <2> QED BY <1>3, <1>4, <1>5, <2>3
<1>7. CASE x = q
  <2>1. TKinds(log, k)[q] = "close"
    BY KindIsOn DEF On
  <2>2. ~TradeView(old).on
    BY <1>1, <1>7, <2>1, EmptyAfterClose
  <2>3. old = NoRow
    BY <2>2, ViewOn
  <2> HIDE DEF new
  <2> QED BY <1>1, <1>3, <1>5, <1>7, <2>3
<1> QED BY <1>1, <1>6, <1>7

(* One row of the replay: the event q of the log, when its turn comes.      *)
Replays(row, q) ==
  /\ FullInv /\ ChainOK(log, chain) /\ LogTx(log) /\ HashesInOrder
  /\ hash \in [1 .. MaxEvents -> 1 .. MaxEvents]
  /\ IsNext(row) /\ RowFor(log, row, q) /\ q \in 1 .. Len(log)
  /\ DbStep(db, db', log[q]) /\ rows' = rows \ {row}
  /\ log' = log /\ chain' = chain /\ (Unambiguous' <=> Unambiguous)

(* It keeps the trade slots and the history where they should be,           *)
LEMMA TradesStep ==
  ASSUME NEW row, NEW m \in 0 .. Len(log), NEW q \in 1 .. m, Replays(row, q),
         HasRow(log, rows, m), NEW k \in Key, TradesReplayed(k, m),
         Unambiguous => db.history \subseteq chain.settled
  PROVE  /\ TradesReplayed(k, m)'
         /\ Unambiguous /\ On(log, q, k, TradeCloses) => db'.history \subseteq chain.settled
<1> DEFINE kind == TKinds(log, k)
           new == TradeRows(log)
           old == TradeView(db.trades[k])
<1>1. PICK x \in 0 .. m : /\ Caught(log, rows, k, TradeTopics, x, m)
                          /\ Good(kind, new, x, x, old)
                          /\ Unambiguous => HistoryUpTo(log, db.history, k, x)
  BY DEF TradesReplayed
<1>2. /\ FullInv /\ ChainOK(log, chain) /\ Len(log) \in Nat /\ m \in Nat /\ q \in 1 .. Len(log)
      /\ q \in Nat /\ q >= 1 /\ db \in DBType /\ x \in Nat /\ q \in 0 .. m
  <2>1. FullInv /\ ChainOK(log, chain) /\ TypeOK /\ db \in DBType
    BY DEF Replays, FullInv, TypeOK
  <2>2. Len(log) \in Nat
    BY <2>1, Basics
  <2> QED BY <2>1, <2>2
<1>3. TradeView(db'.trades[k]) = Step(kind[q], new[q], old) /\ HistoryStep(db, db', log[q])
  BY <1>2, KindIsOn DEF Replays, DbStep, TableStep
<1>4. /\ On(log, q, k, TradeTopics) =>
            /\ x <= q /\ Caught(log, rows', k, TradeTopics, q, m)
            /\ \A p \in x + 1 .. q - 1 : ~On(log, p, k, TradeTopics)
      /\ ~On(log, q, k, TradeTopics) => Caught(log, rows', k, TradeTopics, x, m)
  BY <1>1, CaughtStep, TablesAreOne DEF Replays
<1>5. db.history \subseteq db'.history
  BY <1>3 DEF HistoryStep
<1>6. /\ log' = log /\ (Unambiguous' <=> Unambiguous)
  BY DEF Replays
<1>7. CASE On(log, q, k, TradeTopics)
  <2>1. /\ x \in 0 .. q
        /\ \A p \in x + 1 .. q - 1 : kind[p] = "other" /\ ~On(log, p, k, TradeTopics)
    <3>1. \A p \in x + 1 .. q - 1 : p \in 1 .. Len(log)
      BY <1>2
    <3> QED BY <1>2, <1>4, <1>7, <3>1, KindIsOn
  <2>2. Alternates(kind, q)
    <3>1. Alternates(kind, Len(log))
      BY <1>2 DEF ChainOK, LogAlternates
    <3> QED BY <1>2, <3>1 DEF Alternates
  <2>3. Good(kind, new, q, q, Step(kind[q], new[q], old)) /\ (x < q => Good(kind, new, q - 1, q - 1, old))
    BY <1>1, <1>2, <2>1, <2>2, ReplayGood
  <2>4. ASSUME Unambiguous, On(log, q, k, TradeCloses)
        PROVE  /\ db'.history \subseteq chain.settled
               /\ x < q => \E h \in db'.history : h.key = k /\ h.closeTx = log[q].tx
    BY <1>1, <1>2, <1>3, <2>1, <2>3, <2>4, CloseReplayed DEF On
  <2>5. ASSUME Unambiguous PROVE HistoryUpTo(log, db'.history, k, q)
    <3> SUFFICES ASSUME NEW p \in 1 .. q, On(log, p, k, TradeCloses)
                 PROVE  \E h \in db'.history : h.key = k /\ h.closeTx = log[p].tx
      BY DEF HistoryUpTo
    <3>1. CASE p <= x
      <4>1. p \in 1 .. x
        BY <1>2, <3>1
      <4> QED BY <1>1, <1>5, <2>5, <4>1 DEF HistoryUpTo
    <3>2. CASE p > x /\ p < q
      <4>1. p \in x + 1 .. q - 1
        BY <1>2, <3>2
      <4>2. On(log, p, k, TradeTopics)
        BY DEF On, TradeTopics
      <4> QED BY <2>1, <4>1, <4>2
    <3>3. CASE p > x /\ p = q
      BY <2>4, <2>5, <3>3
    <3> QED BY <1>2, <3>1, <3>2, <3>3
  <2>6. TradesReplayed(k, m)'
    <3>1. Good(TKinds(log', k), TradeRows(log'), q, q, TradeView(db'.trades[k]))
      BY <1>3, <1>6, <2>3
    <3> QED BY <1>2, <1>4, <1>6, <1>7, <2>5, <3>1 DEF TradesReplayed
  <2> QED BY <2>4, <2>6
<1>8. CASE ~On(log, q, k, TradeTopics)
  <2>1. TradeView(db'.trades[k]) = old
    BY <1>2, <1>3, <1>8, KindIsOn DEF Step
  <2>2. Unambiguous => HistoryUpTo(log, db'.history, k, x)
    BY <1>1, <1>5 DEF HistoryUpTo
  <2>3. ~On(log, q, k, TradeCloses)
    BY <1>8 DEF On, TradeTopics
  <2>4. Good(TKinds(log', k), TradeRows(log'), x, x, TradeView(db'.trades[k]))
    BY <1>1, <1>6, <2>1
  <2> QED BY <1>4, <1>6, <1>8, <2>2, <2>3, <2>4 DEF TradesReplayed
<1> QED BY <1>7, <1>8

(* the orders,                                                              *)
LEMMA LimitsStep ==
  ASSUME NEW row, NEW m \in 0 .. Len(log), NEW q \in 1 .. m, Replays(row, q),
         HasRow(log, rows, m), NEW k \in Key, LimitsReplayed(k, m)
  PROVE  LimitsReplayed(k, m)'
<1> DEFINE kind == LKinds(log, k)
           new == LimitRows(log)
           old == LimitView(db.limits[k])
<1>1. PICK x \in 0 .. m : /\ Caught(log, rows, k, LimitTopics, x, m)
                          /\ Good(kind, new, x, x, old)
  BY DEF LimitsReplayed
<1>2. /\ FullInv /\ ChainOK(log, chain) /\ Len(log) \in Nat /\ m \in Nat /\ q \in 1 .. Len(log)
      /\ q \in Nat /\ q >= 1 /\ x \in Nat /\ q \in 0 .. m /\ log' = log
  BY Basics DEF Replays, FullInv
<1>3. LimitView(db'.limits[k]) = Step(kind[q], new[q], old)
  BY <1>2, KindIsOn DEF Replays, DbStep, TableStep
<1>4. /\ On(log, q, k, LimitTopics) =>
            /\ x <= q /\ Caught(log, rows', k, LimitTopics, q, m)
            /\ \A p \in x + 1 .. q - 1 : ~On(log, p, k, LimitTopics)
      /\ ~On(log, q, k, LimitTopics) => Caught(log, rows', k, LimitTopics, x, m)
  BY <1>1, CaughtStep, TablesAreOne DEF Replays
<1>5. CASE On(log, q, k, LimitTopics)
  <2>1. x \in 0 .. q /\ \A p \in x + 1 .. q - 1 : kind[p] = "other"
    <3>1. \A p \in x + 1 .. q - 1 : p \in 1 .. Len(log)
      BY <1>2
    <3> QED BY <1>2, <1>4, <1>5, <3>1, KindIsOn
  <2>2. Alternates(kind, q)
    <3>1. Alternates(kind, Len(log))
      BY <1>2 DEF ChainOK, LogAlternates
    <3> QED BY <1>2, <3>1 DEF Alternates
  <2>3. Good(kind, new, q, q, Step(kind[q], new[q], old))
    BY <1>1, <1>2, <2>1, <2>2, ReplayGood
  <2>4. Good(LKinds(log', k), LimitRows(log'), q, q, LimitView(db'.limits[k]))
    BY <1>2, <1>3, <2>3
  <2> QED BY <1>2, <1>4, <1>5, <2>4 DEF LimitsReplayed
<1>6. CASE ~On(log, q, k, LimitTopics)
  <2>1. LimitView(db'.limits[k]) = old
    BY <1>2, <1>3, <1>6, KindIsOn DEF Step
  <2>2. Good(LKinds(log', k), LimitRows(log'), x, x, LimitView(db'.limits[k]))
    BY <1>1, <1>2, <2>1
  <2> QED BY <1>2, <1>4, <1>6, <2>2 DEF LimitsReplayed
<1> QED BY <1>5, <1>6

(* and the rates.                                                           *)
LEMMA RatesStep ==
  ASSUME NEW row, NEW m \in 0 .. Len(log), NEW q \in 1 .. m, Replays(row, q),
         HasRow(log, rows, m), NEW k \in Key, NEW r \in Rate, RateReplayed(k, r, m)
  PROVE  RateReplayed(k, r, m)'
<1>1. PICK x \in 0 .. m : /\ Caught(log, rows, k, {r}, x, m)
                          /\ GoodRate(log, k, r, x, m, db.rates[k][r])
  BY DEF RateReplayed
<1>2. /\ FullInv /\ Len(log) \in Nat /\ m \in Nat /\ q \in 1 .. Len(log)
      /\ q \in Nat /\ q >= 1 /\ x \in Nat /\ q \in 0 .. m /\ log' = log
  BY Basics DEF Replays, FullInv
<1>3. db'.rates[k][r] = IF On(log, q, k, {r}) THEN log[q].px ELSE db.rates[k][r]
  BY <1>2 DEF Replays, DbStep, TableStep, On
<1>4. /\ On(log, q, k, {r}) => Caught(log, rows', k, {r}, q, m)
      /\ ~On(log, q, k, {r}) => Caught(log, rows', k, {r}, x, m)
  BY <1>1, CaughtStep, TablesAreOne DEF Replays
<1>5. CASE On(log, q, k, {r})
  <2>1. Sets(log, k, r, q) /\ db'.rates[k][r] = log[q].px
    BY <1>3, <1>5 DEF Sets, On
  <2>2. q \in 1 .. q
    BY <1>2
  <2>3. GoodRate(log, k, r, q, m, db'.rates[k][r])
    BY <2>1, <2>2 DEF GoodRate
  <2> QED BY <1>2, <1>4, <1>5, <2>3 DEF RateReplayed
<1>6. CASE ~On(log, q, k, {r})
  BY <1>1, <1>2, <1>3, <1>4, <1>6 DEF RateReplayed
<1> QED BY <1>5, <1>6

(* Together: a row leads from one state of the replay to the next.          *)
LEMMA RowReplayed ==
  ASSUME NEW row, NEW m \in 0 .. Len(log), NEW q \in 1 .. m, Replays(row, q), Replayed(m)
  PROVE  Replayed(m)'
<1>1. HasRow(log, rows, m) /\ (Unambiguous => db.history \subseteq chain.settled)
  BY DEF Replayed
<1>2. HasRow(log', rows', m)
  BY <1>1 DEF Replays, HasRow
<1>3. ASSUME NEW k \in Key
      PROVE  /\ TradesReplayed(k, m)' /\ LimitsReplayed(k, m)'
             /\ \A r \in Rate : RateReplayed(k, r, m)'
  <2>1. TradesReplayed(k, m) /\ LimitsReplayed(k, m) /\ \A r \in Rate : RateReplayed(k, r, m)
    BY DEF Replayed
  <2> QED BY <1>1, <2>1, TradesStep, LimitsStep, RatesStep
<1>4. Unambiguous' => db'.history \subseteq chain'.settled
  <2> SUFFICES ASSUME Unambiguous PROVE db'.history \subseteq chain.settled
    BY DEF Replays
  <2>1. CASE log[q].topic \in TradeCloses
    <3>1. log[q].key \in Key
      BY Basics, EventFields DEF Replays, FullInv
    <3>2. PICK k \in Key : k = log[q].key
      BY <3>1
    <3>3. TradesReplayed(k, m) /\ On(log, q, k, TradeCloses)
      BY <2>1, <3>2 DEF Replayed, On
    <3> QED BY <1>1, <3>3, TradesStep
  <2>2. CASE log[q].topic \notin TradeCloses
    BY <1>1, <2>2 DEF Replays, DbStep, HistoryStep, Closes
  <2> QED BY <2>1, <2>2
<1> QED BY <1>2, <1>3, <1>4 DEF Replayed

(* The chain goes on: the replay stays where it is.                         *)
LEMMA ReplayedGrows ==
  ASSUME FullInv, StepGrows, db' = db, rows' = rows, chain.settled \subseteq chain'.settled,
         Unambiguous' => Unambiguous, NEW m \in 0 .. Len(log), Replayed(m)
  PROVE  Replayed(m)'
<1>1. /\ log \in Seq(Event) /\ log' \in Seq(Event) /\ Len(log) \in Nat /\ Len(log') \in Nat
      /\ Len(log) <= Len(log') /\ \A p \in 1 .. Len(log) : log'[p] = log[p]
  BY DEF StepGrows, FullInv, TypeOK, LedgerTypeOK
<1>2. \A p \in 1 .. m : p \in 1 .. Len(log) /\ p \in 1 .. Len(log') /\ log'[p] = log[p]
  BY <1>1
<1>3. HasRow(log', rows', m)
  BY <1>2 DEF Replayed, HasRow, RowFor
<1>4. ASSUME NEW k, NEW T, NEW x, Caught(log, rows, k, T, x, m)
      PROVE  Caught(log', rows', k, T, x, m)
  BY <1>2, <1>4 DEF Caught, On, Left
<1>5. ASSUME NEW k \in Key PROVE TradesReplayed(k, m)'
  <2>1. PICK x \in 0 .. m : /\ Caught(log, rows, k, TradeTopics, x, m)
                            /\ Was(log, k, x, db.trades[k])
                            /\ Unambiguous => HistoryUpTo(log, db.history, k, x)
    BY DEF Replayed, TradesReplayed, Was
  <2>2. x \in 0 .. Len(log) /\ \A p \in 1 .. x : p \in 1 .. m
    BY <1>1
  <2>3. Was(log', k, x, db.trades[k])
    BY <1>1, <2>1, <2>2, WasPrefix
  <2>4. Unambiguous' => HistoryUpTo(log', db.history, k, x)
    BY <1>2, <2>1, <2>2 DEF HistoryUpTo, On
  <2> QED BY <1>4, <2>1, <2>3, <2>4 DEF TradesReplayed, Was
<1>6. ASSUME NEW k \in Key PROVE LimitsReplayed(k, m)'
  <2>1. PICK x \in 0 .. m : /\ Caught(log, rows, k, LimitTopics, x, m)
                            /\ Good(LKinds(log, k), LimitRows(log), x, x, LimitView(db.limits[k]))
    BY DEF Replayed, LimitsReplayed
  <2>2. /\ x \in Nat /\ x \in 0 .. x
        /\ \A p \in 1 .. x : p \in 1 .. Len(log) /\ p \in 1 .. Len(log') /\ log'[p] = log[p]
    BY <1>1, <1>2
  <2>3. \A p \in 1 .. x : /\ LKinds(log', k)[p] = LKinds(log, k)[p]
                           /\ LimitRows(log')[p] = LimitRows(log)[p]
    BY <2>2, KindIsOn
  <2>4. Good(LKinds(log', k), LimitRows(log'), x, x, LimitView(db.limits[k]))
    BY <2>1, <2>2, <2>3, GoodPrefix
  <2> QED BY <1>4, <2>1, <2>4 DEF LimitsReplayed
<1>7. ASSUME NEW k \in Key, NEW r \in Rate PROVE RateReplayed(k, r, m)'
  <2>1. PICK x \in 0 .. m : /\ Caught(log, rows, k, {r}, x, m)
                            /\ GoodRate(log, k, r, x, m, db.rates[k][r])
    BY DEF Replayed, RateReplayed
  <2>2. GoodRate(log', k, r, x, m, db.rates[k][r])
    <3>1. \A p \in 1 .. m : Sets(log', k, r, p) <=> Sets(log, k, r, p)
      BY <1>2 DEF Sets
    <3>2. /\ \A p \in x + 1 .. m : p \in 1 .. m
          /\ \A p \in 1 .. x : p \in 1 .. m /\ log'[p] = log[p] /\ \A i \in p + 1 .. m : i \in 1 .. m
      BY <1>1, <1>2
    <3> QED BY <2>1, <3>1, <3>2 DEF GoodRate
  <2> QED BY <1>4, <2>1, <2>2 DEF RateReplayed
<1> QED BY <1>3, <1>5, <1>6, <1>7 DEF Replayed

(* All rows are applied: the tables are those the log up to m leaves.       *)
LEMMA ReplayEnds ==
  ASSUME FullInv, rows = {}, NEW m \in 0 .. Len(log), Replayed(m), NEW n \in 0 .. m, Position(n)
  PROVE  Mirrored(n, m)
<1>1. Len(log) \in Nat /\ m \in Nat /\ log \in Seq(Event)
  BY DEF FullInv, TypeOK, LedgerTypeOK
<1>2. ASSUME NEW k, NEW T, NEW x \in 0 .. m, Caught(log, rows, k, T, x, m)
      PROVE  \A p \in x + 1 .. m : p \in 1 .. m /\ p \in 1 .. Len(log) /\ ~On(log, p, k, T)
  BY <1>1, <1>2 DEF Caught, Left
<1>3. ASSUME NEW k \in Key
      PROVE  /\ Good(TKinds(log, k), TradeRows(log), m, m, TradeView(db.trades[k]))
             /\ Unambiguous => HistoryUpTo(log, db.history, k, m)
  <2>1. PICK x \in 0 .. m :
          /\ Caught(log, rows, k, TradeTopics, x, m)
          /\ Good(TKinds(log, k), TradeRows(log), x, x, TradeView(db.trades[k]))
          /\ Unambiguous => HistoryUpTo(log, db.history, k, x)
    BY DEF Replayed, TradesReplayed
  <2>2. \A p \in x + 1 .. m : TKinds(log, k)[p] = "other" /\ ~On(log, p, k, TradeCloses)
    <3>1. \A p \in x + 1 .. m : p \in 1 .. Len(log) /\ ~On(log, p, k, TradeTopics)
      BY <1>2, <2>1
    <3> QED BY <3>1, KindIsOn DEF On, TradeTopics
  <2>3. x \in Nat /\ x \in 0 .. x /\ x <= m /\ m = IF m <= x THEN x ELSE m
    BY <1>1
  <2>4. Good(TKinds(log, k), TradeRows(log), m, m, TradeView(db.trades[k]))
    BY <1>1, <2>1, <2>2, <2>3, SkipGood
  <2>5. \A p \in 1 .. m : p \in 1 .. x \/ p \in x + 1 .. m
    BY <2>3
  <2> QED BY <2>1, <2>2, <2>4, <2>5 DEF HistoryUpTo
<1>4. ASSUME NEW k \in Key
      PROVE  Good(LKinds(log, k), LimitRows(log), m, m, LimitView(db.limits[k]))
  <2>1. PICK x \in 0 .. m :
          /\ Caught(log, rows, k, LimitTopics, x, m)
          /\ Good(LKinds(log, k), LimitRows(log), x, x, LimitView(db.limits[k]))
    BY DEF Replayed, LimitsReplayed
  <2>2. \A p \in x + 1 .. m : LKinds(log, k)[p] = "other"
    <3>1. \A p \in x + 1 .. m : p \in 1 .. Len(log) /\ ~On(log, p, k, LimitTopics)
      BY <1>2, <2>1
    <3> QED BY <3>1, KindIsOn
  <2>3. x \in Nat /\ x \in 0 .. x /\ x <= m /\ m = IF m <= x THEN x ELSE m
    BY <1>1
  <2> QED BY <1>1, <2>1, <2>2, <2>3, SkipGood
<1>5. ASSUME NEW k \in Key, NEW r \in Rate PROVE GoodRate(log, k, r, m, m, db.rates[k][r])
  <2>1. PICK x \in 0 .. m : /\ Caught(log, rows, k, {r}, x, m)
                            /\ GoodRate(log, k, r, x, m, db.rates[k][r])
    BY DEF Replayed, RateReplayed
  <2>2. \A p \in x + 1 .. m : ~Sets(log, k, r, p)
    BY <1>2, <2>1 DEF On, Sets
  <2>3. \A p \in 1 .. x : p \in 1 .. m
    BY <1>1
  <2> QED BY <2>1, <2>2, <2>3 DEF GoodRate
<1>6. Mirror(log, m, m, db)
  BY <1>3, <1>4, <1>5 DEF Mirror
<1>7. Mirror(log, n, m, db)
  <2>1. m \in 0 .. m
    BY <1>1
  <2> QED BY <1>1, <1>6, <2>1, MirrorRestart
<1>8. HistoryOK(m, db)
  <2> SUFFICES ASSUME Unambiguous, NEW p \in 1 .. m, log[p].topic \in TradeCloses
               PROVE  \E h \in db.history : h.key = log[p].key /\ h.closeTx = log[p].tx
    BY DEF HistoryOK, Replayed
  <2>1. p \in 1 .. Len(log)
    BY <1>1
  <2>2. log[p].key \in Key
    BY <1>1, <2>1, EventFields
  <2> QED BY <1>3, <2>2 DEF HistoryUpTo, On
<1> QED BY <1>7, <1>8 DEF Mirrored

(* What the replay can apply: an event with a row, or one that changes      *)
(* nothing.                                                                 *)
HasOrNone(p) == Left(log, db.audit, p) \/ log[p].topic = "undecodable"

(* The rows the replay selects are those of a prefix of the log, and it     *)
(* reaches as far as the indexer had come.                                  *)
LEMMA RowsArePrefix ==
  ASSUME FullInv, Intact, pc = "down", OnFile, Unrecorded = {},
         NEW n \in 0 .. Len(log), Position(n)
  PROVE  \E m \in 0 .. Len(log) :
           n <= m /\ HasRow(log, db.audit, m) /\ \A p \in 1 .. m : HasOrNone(p)
<1>1. Len(log) \in Nat /\ n \in Nat
  BY DEF FullInv, TypeOK, LedgerTypeOK
<1>2. ASSUME NEW p \in done PROVE HasOrNone(p)
  <2>1. log[p] \in {log[i] : i \in done}
    OBVIOUS
  <2>2. log[p] \in {a.ev : a \in db.audit}
    BY <2>1 DEF Unrecorded
  <2> QED BY <2>2 DEF HasOrNone, Left
<1>3. ASSUME NEW p \in 1 .. n PROVE HasOrNone(p)
  <2>1. p \in 1 .. Len(log) /\ ~(p > n)
    BY <1>1
  <2>2. ~IsPending(p)
    BY <2>1 DEF Position, Coming
  <2>3. Handled(p)
    BY <2>1, <2>2 DEF FullInv, IndInv, DurableInv
  <2>4. p \in done \cup failed
    BY <2>1, <2>3, IntactHandled DEF FullInv
  <2>5. p \in failed => log[p].topic = "undecodable"
    BY DEF Intact
  <2> QED BY <1>2, <2>4, <2>5 DEF HasOrNone
<1>4. PICK m \in 0 .. Len(log) : AuditUpTo(m)
  BY DEF OnFile
<1>5. HasRow(log, db.audit, m) /\ \A p \in 1 .. m - 1 : HasOrNone(p)
  BY <1>2, <1>4 DEF AuditUpTo, HasOrNone
<1>6. CASE m <= n
  <2>1. \A p \in 1 .. m : p \in 1 .. n
    BY <1>1, <1>6
  <2>2. HasRow(log, db.audit, n)
    BY <1>5, <2>1 DEF HasRow
  <2> QED BY <1>1, <1>3, <2>2
<1>7. CASE n < m /\ HasOrNone(m)
  <2>1. \A p \in 1 .. m : p \in 1 .. m - 1 \/ p = m
    BY <1>1
  <2> QED BY <1>1, <1>5, <1>7, <2>1
<1>8. CASE n < m /\ ~HasOrNone(m)
  <2>1. m - 1 \in 0 .. Len(log) /\ n <= m - 1
    BY <1>1, <1>8
  <2>2. HasRow(log, db.audit, m - 1)
    <3> SUFFICES ASSUME NEW a \in db.audit PROVE \E p \in 1 .. m - 1 : RowFor(log, a, p)
      BY DEF HasRow
    <3>1. PICK p \in 1 .. m : RowFor(log, a, p)
      BY <1>5 DEF HasRow
    <3>2. p # m
      BY <1>8, <3>1 DEF RowFor, HasOrNone, Left
    <3>3. p \in 1 .. m - 1
      BY <1>1, <3>2
    <3> QED BY <3>1, <3>3
  <2> QED BY <1>5, <2>1, <2>2
<1> QED BY <1>1, <1>6, <1>7, <1>8

(* The replay starts: no event is applied, every one is left.               *)
LEMMA ReplayStarts ==
  ASSUME FullInv, Emptied, RatesRecorded(db), UNCHANGED vars, rows' = db.audit,
         NEW m \in 0 .. Len(log), HasRow(log, db.audit, m), \A p \in 1 .. m : HasOrNone(p)
  PROVE  Replayed(m)'
<1>1. Len(log) \in Nat /\ m \in Nat /\ 0 \in 0 .. m
  BY DEF FullInv, TypeOK, LedgerTypeOK
<1>2. log' = log /\ db' = db /\ chain' = chain
  BY DEF vars, ledgerVars, indexerVars
<1>3. ASSUME NEW k, NEW T, "undecodable" \notin T PROVE Caught(log, db.audit, k, T, 0, m)
  <2> SUFFICES ASSUME NEW p \in 1 .. m, On(log, p, k, T)
               PROVE  (p > 0 => Left(log, db.audit, p)) /\ (p < 0 => ~Left(log, db.audit, p))
    BY DEF Caught
  <2>1. Left(log, db.audit, p)
    BY <1>3 DEF HasOrNone, On
  <2> QED BY <1>1, <2>1
<1>4. "undecodable" \notin TradeTopics /\ "undecodable" \notin LimitTopics /\ "undecodable" \notin Rate
  BY DEF TradeTopics, LimitTopics, TradeCloses, LimitCloses, Rate
<1>5. ASSUME NEW kind, NEW new PROVE Good(kind, new, 0, 0, NoSlot)
  BY DEF Good, Near, Idle, NoSlot
<1>6. ASSUME NEW k \in Key PROVE TradesReplayed(k, m)'
  <2>1. TradeView(db.trades[k]) = NoSlot
    BY EmptyView DEF Emptied
  <2>2. HistoryUpTo(log, db.history, k, 0)
    BY DEF HistoryUpTo
  <2>3. Caught(log, db.audit, k, TradeTopics, 0, m)
    BY <1>3, <1>4
  <2>4. Good(TKinds(log, k), TradeRows(log), 0, 0, TradeView(db.trades[k]))
    BY <1>5, <2>1
  <2> QED BY <1>1, <1>2, <2>2, <2>3, <2>4 DEF TradesReplayed
<1>7. ASSUME NEW k \in Key PROVE LimitsReplayed(k, m)'
  <2>1. LimitView(db.limits[k]) = NoSlot
    BY EmptyView DEF Emptied
  <2>2. Caught(log, db.audit, k, LimitTopics, 0, m)
    BY <1>3, <1>4
  <2>3. Good(LKinds(log, k), LimitRows(log), 0, 0, LimitView(db.limits[k]))
    BY <1>5, <2>1
  <2> QED BY <1>1, <1>2, <2>2, <2>3 DEF LimitsReplayed
<1>8. ASSUME NEW k \in Key, NEW r \in Rate PROVE RateReplayed(k, r, m)'
  <2>1. Caught(log, db.audit, k, {r}, 0, m)
    BY <1>3, <1>4
  <2>2. GoodRate(log, k, r, 0, m, db.rates[k][r])
    <3>1. CASE \E p \in 1 .. m : Sets(log, k, r, p)
      BY <1>1, <3>1 DEF GoodRate
    <3>2. CASE \A p \in 1 .. m : ~Sets(log, k, r, p)
      <4>1. db.rates[k][r] = 0
        <5> SUFFICES ASSUME NEW a \in db.audit, a.ev.key = k, a.ev.topic = r PROVE FALSE
          BY DEF RatesRecorded
        <5>1. PICK p \in 1 .. m : RowFor(log, a, p)
          BY DEF HasRow
        <5> QED BY <3>2, <5>1 DEF RowFor, Sets
      <4> QED BY <3>2, <4>1 DEF GoodRate
    <3> QED BY <3>1, <3>2
  <2> QED BY <1>1, <1>2, <2>1, <2>2 DEF RateReplayed
<1>9. db'.history \subseteq chain'.settled
  BY <1>2 DEF Emptied
<1>10. HasRow(log', rows', m)
  BY <1>2
<1> QED BY <1>6, <1>7, <1>8, <1>9, <1>10 DEF Replayed

-----------------------------------------------------------------------------
BootInv == FullInv /\ ReplayInv

(* A table that was written to, with the same audit log and rates.          *)
LEMMA OnFileSame ==
  ASSUME OnFile, log' = log, done' = done, db'.audit = db.audit, RatesRecorded(db')
  PROVE  OnFile'
<1>1. PICK m \in 0 .. Len(log) : AuditUpTo(m)
  BY DEF OnFile
<1>2. AuditUpTo(m)' /\ m \in 0 .. Len(log')
  BY <1>1 DEF AuditUpTo
<1> QED BY <1>2 DEF OnFile

(* TRUNCATE leaves the rates and the audit log.                             *)
LEMMA TruncateKeeps ==
  ASSUME Mode = "boot", BootInv, Truncate
  PROVE  BootInv'
<1>1. /\ db'.rates = db.rates /\ db'.audit = db.audit /\ Emptied' /\ db' \in DBType
  <2>1. db \in DBType /\ EmptyDB \in DBType
    BY EmptyDBType DEF BootInv, FullInv, TypeOK
  <2>2. db' = [EmptyDB EXCEPT !.rates = db.rates, !.audit = db.audit]
    BY DEF Truncate
  <2>3. /\ db'.rates = db.rates /\ db'.audit = db.audit
        /\ db'.trades = EmptyDB.trades /\ db'.limits = EmptyDB.limits
        /\ db'.history = EmptyDB.history
    BY <2>1, <2>2 DEF DBType
  <2>4. db' \in DBType
    BY <2>1, <2>2 DEF DBType
  <2> QED BY <2>3, <2>4 DEF Emptied, EmptyDB
<1>2. /\ Elsewhere /\ pc = "down" /\ replay \in {"idle", "failed"} /\ replay' = "truncated"
      /\ hash' = hash /\ rows' = rows
  BY DEF Truncate, MayStart, Elsewhere
<1>3. /\ FullInv' /\ ChainInv(log, chain)' /\ ClampInv' /\ LogTx(log)' /\ (Intact' <=> Intact)
      /\ \A n : Position(n)' <=> Position(n)
      /\ log' = log /\ chain' = chain /\ pc' = pc /\ done' = done
  BY <1>1, <1>2, ElsewhereKeeps DEF BootInv, ReplayInv
<1>4. ReplayTypeOK'
  BY <1>1, <1>2 DEF BootInv, ReplayInv, ReplayTypeOK
<1>5. Intact' => OnFile'
  <2> SUFFICES ASSUME Intact PROVE OnFile'
    BY <1>3
  <2>1. OnFile
    BY <1>2 DEF BootInv, ReplayInv
  <2>2. RatesRecorded(db')
    BY <1>1, <2>1 DEF OnFile, RatesRecorded
  <2> QED BY <1>1, <1>3, <2>1, <2>2, OnFileSame
<1>6. Intact' => InPlace'
  <2> SUFFICES ASSUME Intact PROVE InPlace'
    BY <1>3
  <2>1. InPlace
    <3>1. CASE replay = "idle"
      <4>1. PICK m \in 0 .. Len(log) : \E n \in 0 .. m : Mirrored(n, m)
        BY <3>1 DEF BootInv, ReplayInv, UpToDate
      <4>2. PICK n \in 0 .. m : Mirrored(n, m)
        BY <4>1
      <4>3. n \in 0 .. Len(log)
        BY DEF BootInv, FullInv, TypeOK, LedgerTypeOK
      <4> QED BY <4>2, <4>3 DEF InPlace, Mirrored
    <3>2. CASE replay = "failed"
      BY <3>2 DEF BootInv, ReplayInv
    <3> QED BY <1>2, <3>1, <3>2
  <2> QED BY <1>3, <2>1 DEF InPlace
<1> QED BY <1>1, <1>2, <1>3, <1>4, <1>5, <1>6 DEF BootInv, ReplayInv

(* Steps of the replay that leave the tables alone keep all but the phase.  *)
LEMMA StillKeeps ==
  ASSUME BootInv, UNCHANGED vars
  PROVE  /\ FullInv' /\ ChainInv(log, chain)' /\ ClampInv' /\ LogTx(log)' /\ (Intact' <=> Intact)
         /\ \A n : Position(n)' <=> Position(n)
         /\ (OnFile => OnFile') /\ (InPlace => InPlace') /\ (Emptied => Emptied')
         /\ log' = log /\ chain' = chain /\ pc' = pc /\ done' = done /\ db' = db
         /\ Unambiguous' <=> Unambiguous
<1>1. Elsewhere /\ db' = db
  BY DEF vars, indexerVars, Elsewhere
<1>2. db' \in DBType
  BY <1>1 DEF BootInv, FullInv, TypeOK
<1>3. /\ FullInv' /\ ChainInv(log, chain)' /\ ClampInv' /\ LogTx(log)' /\ (Intact' <=> Intact)
      /\ \A n : Position(n)' <=> Position(n)
      /\ log' = log /\ chain' = chain /\ pc' = pc /\ done' = done
      /\ Unambiguous' <=> Unambiguous
  BY <1>1, <1>2, ElsewhereKeeps DEF BootInv, ReplayInv
<1>4. OnFile => OnFile'
  BY <1>1, <1>3, OnFileSame DEF OnFile, RatesRecorded
<1>5. InPlace => InPlace'
  BY <1>3 DEF InPlace
<1>6. Emptied => Emptied'
  BY <1>1 DEF Emptied
<1> QED BY <1>1, <1>3, <1>4, <1>5, <1>6

(* The query: every event that was applied is among its rows.               *)
LEMMA SelectRowsKeeps ==
  ASSUME Mode = "boot", BootInv, SelectRows
  PROVE  BootInv'
<1>1. /\ UNCHANGED vars /\ hash' = hash /\ replay = "truncated" /\ replay' = "applying"
      /\ rows' = db.audit /\ missed' = Unrecorded
  BY DEF SelectRows
<1>2. /\ FullInv' /\ ChainInv(log, chain)' /\ ClampInv' /\ LogTx(log)' /\ (Intact' <=> Intact)
      /\ \A n : Position(n)' <=> Position(n)
      /\ (OnFile => OnFile') /\ (InPlace => InPlace')
      /\ log' = log /\ pc' = pc /\ db' = db
  BY <1>1, StillKeeps
<1>3. ReplayTypeOK'
  BY <1>1, <1>2 DEF BootInv, ReplayInv, ReplayTypeOK
<1>4. pc = "down" /\ (Intact => InPlace /\ OnFile) /\ Emptied
  BY <1>1 DEF BootInv, ReplayInv
<1>5. Sound' => Rebuilding'
  <2> SUFFICES ASSUME Intact, Unrecorded = {} PROVE Rebuilding'
    BY <1>1, <1>2 DEF Sound
  <2>1. PICK n \in 0 .. Len(log) : Position(n)
    BY <1>4 DEF InPlace
  <2>2. PICK m \in 0 .. Len(log) :
          n <= m /\ HasRow(log, db.audit, m) /\ \A p \in 1 .. m : HasOrNone(p)
    BY <1>4, <2>1, RowsArePrefix DEF BootInv
  <2>3. Replayed(m)'
    BY <1>1, <1>4, <2>2, ReplayStarts DEF BootInv, OnFile
  <2>4. n \in 0 .. m
    BY <2>2 DEF BootInv, FullInv, TypeOK, LedgerTypeOK
  <2> QED BY <1>2, <2>1, <2>3, <2>4 DEF Rebuilding
<1> QED BY <1>1, <1>2, <1>3, <1>4, <1>5 DEF BootInv, ReplayInv

(* A row is applied, to tables that have it on record.                      *)
LEMMA RowApplied ==
  ASSUME Mode = "boot", BootInv, ReplayRow, NEW row \in rows, IsNext(row),
         db' = Apply(db, row.ev, row.idx), rows' = rows \ {row}
  PROVE  /\ row \in db.audit /\ db \in DBType /\ row.ev \in Event /\ row.idx \in Nat
         /\ db' \in DBType
         /\ FullInv' /\ ChainInv(log, chain)' /\ ClampInv' /\ LogTx(log)' /\ (Intact' <=> Intact)
         /\ \A n : Position(n)' <=> Position(n)
         /\ (Unambiguous' <=> Unambiguous)
         /\ log' = log /\ chain' = chain /\ pc' = pc /\ done' = done
         /\ pc = "down" /\ (Intact => InPlace /\ OnFile) /\ (Sound => Rebuilding)
         /\ Intact => db'.audit = db.audit /\ DbStep(db, db', row.ev)
         /\ \A q \in 1 .. Len(log) : Sound /\ RowFor(log, row, q) => Replays(row, q)
<1>1. /\ Elsewhere /\ replay = "applying" /\ replay' = "applying" /\ hash' = hash /\ missed' = missed
  BY DEF ReplayRow, Elsewhere
<1>3. row \in db.audit /\ db \in DBType /\ row.ev \in Event /\ row.idx \in Nat
  <2>1. row \in db.audit /\ db \in DBType
    BY DEF BootInv, ReplayInv, ReplayTypeOK, FullInv, TypeOK
  <2>2. row \in [tx: Nat, idx: Nat, ev: Event]
    BY <2>1 DEF DBType
  <2> QED BY <2>1, <2>2
<1>4. db' \in DBType
  BY <1>3, ApplyType
<1>5. /\ FullInv' /\ ChainInv(log, chain)' /\ ClampInv' /\ LogTx(log)' /\ (Intact' <=> Intact)
      /\ \A n : Position(n)' <=> Position(n)
      /\ (Unambiguous' <=> Unambiguous)
      /\ log' = log /\ chain' = chain /\ pc' = pc /\ done' = done
  BY <1>1, <1>4, ElsewhereKeeps DEF BootInv, ReplayInv
<1>6. /\ pc = "down" /\ (Intact => InPlace /\ OnFile) /\ (Sound => Rebuilding)
      /\ FullInv /\ ChainInv(log, chain) /\ LogTx(log)
      /\ hash \in [1 .. MaxEvents -> 1 .. MaxEvents]
  BY <1>1 DEF BootInv, ReplayInv, ReplayTypeOK
<1>7. ASSUME Intact
      PROVE  \E m \in 0 .. Len(log), q \in 1 .. Len(log) : AuditUpTo(m) /\ q <= m /\ RowFor(log, row, q)
  <2>1. PICK m \in 0 .. Len(log) : AuditUpTo(m)
    BY <1>6, <1>7 DEF OnFile
  <2>2. PICK q \in 1 .. m : RowFor(log, row, q)
    BY <1>3, <2>1 DEF AuditUpTo, HasRow
  <2>3. q \in 1 .. Len(log) /\ q <= m
    BY <1>6 DEF FullInv, TypeOK, LedgerTypeOK
  <2> QED BY <2>1, <2>2, <2>3
<1>8. ASSUME Intact PROVE Projected(row.ev) /\ row.tx = row.ev.tx
  <2>1. PICK q \in 1 .. Len(log) : RowFor(log, row, q)
    BY <1>7, <1>8
  <2> QED BY <1>8, <2>1 DEF Intact, Projected, RowFor
<1>9. ASSUME Intact PROVE db'.audit = db.audit /\ DbStep(db, db', row.ev)
  <2>1. KeyTaken(db, row.ev, row.idx)
    BY <1>3, <1>8, <1>9 DEF KeyTaken
  <2> QED BY <1>3, <1>8, <1>9, <2>1, ApplyAudits, ApplyStep
<1>10. ASSUME NEW q \in 1 .. Len(log), Sound, RowFor(log, row, q) PROVE Replays(row, q)
  <2>1. Intact /\ HashesInOrder /\ ChainOK(log, chain)
    BY <1>6, <1>10, IntactPlaced DEF Sound
  <2>2. DbStep(db, db', log[q])
    BY <1>9, <1>10, <2>1 DEF RowFor
  <2> QED BY <1>5, <1>6, <1>10, <2>1, <2>2 DEF Replays
<1> QED BY <1>3, <1>4, <1>5, <1>6, <1>9, <1>10

(* It keeps the invariant.                                                  *)
LEMMA ReplayRowKeeps ==
  ASSUME Mode = "boot", BootInv, ReplayRow
  PROVE  BootInv'
<1>1. PICK row \in rows : IsNext(row) /\ db' = Apply(db, row.ev, row.idx) /\ rows' = rows \ {row}
  BY DEF ReplayRow
<1>2. /\ Elsewhere /\ replay = "applying" /\ replay' = "applying" /\ hash' = hash /\ missed' = missed
  BY DEF ReplayRow, Elsewhere
<1>3. /\ row \in db.audit /\ db \in DBType /\ row.ev \in Event /\ row.idx \in Nat
      /\ FullInv' /\ ChainInv(log, chain)' /\ ClampInv' /\ LogTx(log)' /\ (Intact' <=> Intact)
      /\ \A n : Position(n)' <=> Position(n)
      /\ log' = log /\ chain' = chain /\ pc' = pc /\ done' = done
      /\ pc = "down" /\ (Intact => InPlace /\ OnFile) /\ (Sound => Rebuilding)
      /\ Intact => db'.audit = db.audit /\ DbStep(db, db', row.ev)
  BY <1>1, RowApplied
<1>4. ReplayTypeOK'
  <2>1. db.audit \subseteq db'.audit
    BY <1>1, <1>3, ApplyAudits
  <2> QED BY <1>1, <1>2, <2>1 DEF BootInv, ReplayInv, ReplayTypeOK
<1>5. Intact' => OnFile' /\ InPlace'
  <2> SUFFICES ASSUME Intact PROVE OnFile' /\ InPlace'
    BY <1>3
  <2>1. RatesRecorded(db')
    <3> SUFFICES ASSUME NEW k \in Key, NEW r \in Rate, db'.rates[k][r] # 0
                 PROVE  \E a \in db'.audit : a.ev.key = k /\ a.ev.topic = r
      BY DEF RatesRecorded
    <3>1. CASE row.ev.key = k /\ row.ev.topic = r
      BY <1>3, <3>1
    <3>2. CASE ~(row.ev.key = k /\ row.ev.topic = r)
      <4>1. db'.rates[k][r] = db.rates[k][r]
        BY <1>3, <3>2 DEF DbStep, TableStep
      <4> QED BY <1>3, <4>1 DEF OnFile, RatesRecorded
    <3> QED BY <3>1, <3>2
  <2>2. OnFile'
    BY <1>3, <2>1, OnFileSame
  <2> QED BY <1>3, <2>2 DEF InPlace
<1>6. Sound' => Rebuilding'
  <2> SUFFICES ASSUME Sound PROVE Rebuilding'
    BY <1>2, <1>3 DEF Sound, HashesInOrder
  <2>1. PICK m \in 0 .. Len(log) : \E n \in 0 .. m : Position(n) /\ Replayed(m)
    BY <1>3 DEF Rebuilding
  <2>2. PICK n \in 0 .. m : Position(n) /\ Replayed(m)
    BY <2>1
  <2>3. PICK q \in 1 .. m : RowFor(log, row, q)
    BY <2>2 DEF Replayed, HasRow
  <2>4. q \in 1 .. Len(log)
    BY DEF BootInv, FullInv, TypeOK, LedgerTypeOK
  <2>5. Replays(row, q)
    BY <1>1, <2>3, <2>4, RowApplied
  <2>6. Replayed(m)'
    BY <2>2, <2>5, RowReplayed
  <2> QED BY <1>3, <2>2, <2>6 DEF Rebuilding
<1> QED BY <1>2, <1>3, <1>4, <1>5, <1>6 DEF BootInv, ReplayInv

(* A row is passed over, the rest is, or the replay dies: the ghost says so *)
(* or the replay has to start again.                                        *)
LEMMA FaultKeeps ==
  ASSUME Mode = "boot", BootInv, ReplayRowFails \/ ReplayCutShort \/ ReplayDies
  PROVE  BootInv'
<1>1. /\ UNCHANGED vars /\ hash' = hash /\ rows' \subseteq rows
      /\ replay \in {"truncated", "applying"}
      /\ replay' = "failed" \/ (replay' = "applying" /\ missed' # {})
  BY DEF ReplayRowFails, ReplayCutShort, ReplayDies
<1>2. /\ FullInv' /\ ChainInv(log, chain)' /\ ClampInv' /\ LogTx(log)' /\ (Intact' <=> Intact)
      /\ (OnFile => OnFile') /\ (InPlace => InPlace')
      /\ pc' = pc /\ db' = db
  BY <1>1, StillKeeps
<1>3. ReplayTypeOK'
  BY <1>1, <1>2 DEF BootInv, ReplayInv, ReplayTypeOK
<1>4. pc = "down" /\ (Intact => InPlace /\ OnFile)
  BY <1>1 DEF BootInv, ReplayInv
<1>5. replay' = "applying" => ~Sound'
  BY <1>1 DEF Sound
<1> QED BY <1>1, <1>2, <1>3, <1>4, <1>5 DEF BootInv, ReplayInv

(* The last row is applied: the projections are rebuilt.                    *)
LEMMA ReplayDoneKeeps ==
  ASSUME Mode = "boot", BootInv, ReplayDone
  PROVE  BootInv'
<1>1. /\ UNCHANGED vars /\ hash' = hash /\ rows' = rows /\ rows = {} /\ missed' = missed
      /\ replay = "applying" /\ replay' = "done"
  BY DEF ReplayDone
<1>2. /\ FullInv' /\ ChainInv(log, chain)' /\ ClampInv' /\ LogTx(log)' /\ (Intact' <=> Intact)
      /\ \A n : Position(n)' <=> Position(n)
      /\ log' = log /\ chain' = chain /\ pc' = pc /\ db' = db
      /\ Unambiguous' <=> Unambiguous
  BY <1>1, StillKeeps
<1>3. ReplayTypeOK'
  BY <1>1, <1>2 DEF BootInv, ReplayInv, ReplayTypeOK
<1>4. Sound' => UpToDate'
  <2> SUFFICES ASSUME Sound PROVE UpToDate'
    BY <1>1, <1>2 DEF Sound, HashesInOrder
  <2>1. Rebuilding /\ FullInv
    BY <1>1 DEF BootInv, ReplayInv
  <2>2. PICK m \in 0 .. Len(log) : \E n \in 0 .. m : Position(n) /\ Replayed(m)
    BY <2>1 DEF Rebuilding
  <2>3. PICK n \in 0 .. m : Position(n) /\ Replayed(m)
    BY <2>2
  <2>4. Mirrored(n, m)
    BY <1>1, <2>1, <2>3, ReplayEnds
  <2>5. Mirrored(n, m)'
    BY <1>2, <2>4 DEF Mirrored, HistoryOK
  <2> QED BY <1>2, <2>5 DEF UpToDate
<1> QED BY <1>1, <1>2, <1>3, <1>4 DEF BootInv, ReplayInv

(* Nothing is ever deleted from the audit log.                              *)
LEMMA AuditGrows ==
  ASSUME FullInv, [Next]_vars
  PROVE  db.audit \subseteq db'.audit
<1>1. CASE db' = db
  BY <1>1
<1>2. CASE Audits
  <2>1. /\ next - page.lo \in Nat /\ log[next] \in Event
        /\ db \in DBType /\ db' = Apply(db, log[next], next - page.lo)
    BY <1>2, InPageFacts, Basics DEF Audits, InPage, FullInv, IndInv, TypeOK
  <2> QED BY <2>1, ApplyAudits
<1> QED BY <1>1, <1>2, OnlyApplyAudits

(* What was sound after a step was sound before it.                         *)
LEMMA SoundBefore ==
  ASSUME StepGrows, Intact' => Intact, hash' = hash, missed' = missed
  PROVE  Sound' => Sound
<1> SUFFICES ASSUME Sound' PROVE HashesInOrder
  BY DEF Sound
<1> SUFFICES ASSUME NEW p \in 1 .. Len(log), NEW q \in 1 .. Len(log), log[p].tx < log[q].tx,
                    log[p].ledger = log[q].ledger, log[p].key = log[q].key
             PROVE  hash[log[p].tx] < hash[log[q].tx]
  BY DEF HashesInOrder
<1>1. p \in 1 .. Len(log') /\ q \in 1 .. Len(log') /\ log'[p] = log[p] /\ log'[q] = log[q]
  BY DEF StepGrows
<1> QED BY <1>1 DEF Sound, HashesInOrder

(* The chain moves on, or the indexer, when it may run at all.              *)
LEMMA OthersKeep ==
  ASSUME Mode = "boot", BootInv, LedgerStep \/ (IndexerMay /\ IndexerStep) \/ UNCHANGED vars,
         UNCHANGED replayVars
  PROVE  BootInv'
<1>1. /\ FullInv /\ [Next]_vars /\ replay' = replay /\ rows' = rows /\ hash' = hash
      /\ missed' = missed /\ ChainInv(log, chain) /\ ClampInv /\ LogTx(log)
  BY DEF BootInv, ReplayInv, Next, replayVars
<1>2. FullInv'
  BY <1>1, NextKeepsInv, OriginKept DEF FullInv
<1>3. /\ StepGrows /\ ClampInv' /\ ChainInv(log, chain)' /\ chain.settled \subseteq chain'.settled
      /\ LogTx(log)' /\ (Intact' => Intact)
  BY <1>1, NextGrows, ClampInvKept, ChainKept, LogTxKept, IntactBefore
<1>4. ReplayTypeOK'
  BY <1>1, AuditGrows DEF BootInv, ReplayInv, ReplayTypeOK
<1>5. Sound' => Sound
  BY <1>1, <1>3, SoundBefore
<1>6. replay # "done" /\ Intact' => OnFile'
  BY <1>1, <1>2, <1>3, OnFileKept DEF BootInv, ReplayInv
<1>7. ASSUME Intact', UpToDate PROVE UpToDate'
  <2>1. TablesInv
    BY <1>1, <1>7 DEF TablesInv, UpToDate
  <2>2. TablesInv'
    BY <1>1, <2>1, TablesInvKept
  <2> QED BY <1>7, <2>2 DEF TablesInv, UpToDate
<1>8. CASE replay \in {"idle", "done"}
  <2>1. replay = "idle" /\ Intact' => UpToDate'
    BY <1>3, <1>7 DEF BootInv, ReplayInv
  <2>2. replay = "done" /\ Sound' => UpToDate'
    BY <1>5, <1>7 DEF BootInv, ReplayInv, Sound
  <2> QED BY <1>1, <1>2, <1>3, <1>4, <1>6, <1>8, <2>1, <2>2 DEF BootInv, ReplayInv
<1>9. CASE replay \in {"truncated", "applying", "failed"}
  <2>1. LedgerStep \/ UNCHANGED vars
    BY <1>9 DEF IndexerMay
  <2>2. db' = db /\ pc' = pc /\ pc = "down"
    BY <1>9, <2>1 DEF LedgerStep, vars, indexerVars, memVars, BootInv, ReplayInv
  <2>3. ASSUME Intact', NEW n \in 0 .. Len(log), Position(n) PROVE Position(n)'
    <3>1. CASE LedgerStep
      BY <1>1, <1>2, <2>3, <3>1, LedgerKeepsPosition
    <3>2. CASE UNCHANGED vars
      BY <2>3, <3>2, StillKeeps
    <3> QED BY <2>1, <3>1, <3>2
  <2>4. \A n \in 0 .. Len(log) : n \in 0 .. Len(log')
    BY <1>3 DEF StepGrows
  <2>5. Intact' => InPlace'
    BY <1>3, <1>9, <2>3, <2>4 DEF BootInv, ReplayInv, InPlace
  <2>6. replay = "truncated" => Emptied'
    BY <2>2 DEF BootInv, ReplayInv, Emptied
  <2>7. replay = "applying" /\ Sound' => Rebuilding'
    <3> SUFFICES ASSUME replay = "applying", Sound' PROVE Rebuilding'
      OBVIOUS
    <3>1. Rebuilding /\ Intact'
      BY <1>5 DEF BootInv, ReplayInv, Sound
    <3>2. PICK m \in 0 .. Len(log) : \E n \in 0 .. m : Position(n) /\ Replayed(m)
      BY <3>1 DEF Rebuilding
    <3>3. PICK n \in 0 .. m : Position(n) /\ Replayed(m)
      BY <3>2
    <3>4. n \in 0 .. Len(log)
      BY <1>3 DEF StepGrows
    <3>5. Unambiguous' => Unambiguous
      BY <1>3, UnambiguousBefore
    <3>6. Replayed(m)'
      BY <1>1, <1>3, <2>2, <3>3, <3>5, ReplayedGrows
    <3>7. Position(n)'
      BY <2>3, <3>1, <3>3, <3>4
    <3> QED BY <2>4, <3>6, <3>7 DEF Rebuilding
  <2> QED BY <1>1, <1>2, <1>3, <1>4, <1>6, <1>9, <2>2, <2>5, <2>6, <2>7 DEF BootInv, ReplayInv
<1> QED BY <1>8, <1>9 DEF BootInv, ReplayInv, ReplayTypeOK

(* At the start nothing is on record and nothing was emitted.               *)
LEMMA InitReplay ==
  ASSUME ReplayInit
  PROVE  BootInv
<1>1. Init /\ replay = "idle" /\ rows = {}
  BY DEF ReplayInit
<1>2. FullInv
  BY <1>1, InitInv, IndexerAssumption DEF Init, LedgerInit, FullInv, OriginInv
<1>3. TablesInv
  BY <1>1, InitTables
<1>4. ReplayTypeOK
  BY <1>1 DEF ReplayInit, ReplayTypeOK
<1>5. Len(log) = 0 /\ db = EmptyDB
  BY <1>1 DEF Init, LedgerInit
<1>6. LogTx(log)
  BY <1>5 DEF LogTx
<1>7. OnFile
  <2>1. RatesRecorded(db)
    BY <1>5 DEF RatesRecorded, EmptyDB
  <2>2. db.audit = {}
    BY <1>5 DEF EmptyDB
  <2>3. AuditUpTo(0)
    BY <2>2 DEF AuditUpTo, HasRow
  <2> QED BY <1>5, <2>1, <2>3 DEF OnFile
<1> QED BY <1>1, <1>2, <1>3, <1>4, <1>6, <1>7 DEF BootInv, ReplayInv, TablesInv, UpToDate

LEMMA BootInvariant ==
  ASSUME Mode = "boot"
  PROVE  ReplaySpec => []BootInv
<1>1. ReplayInit => BootInv
  BY InitReplay
<1>2. BootInv /\ [ReplayNext]_allVars => BootInv'
  <2> SUFFICES ASSUME BootInv, [ReplayNext]_allVars PROVE BootInv'
    OBVIOUS
  <2>1. UNCHANGED allVars => UNCHANGED vars /\ UNCHANGED replayVars
    BY DEF allVars
  <2> QED BY <2>1, TruncateKeeps, SelectRowsKeeps, ReplayRowKeeps, ReplayDoneKeeps, FaultKeeps,
             OthersKeep DEF ReplayNext
<1> QED BY <1>1, <1>2, PTL DEF ReplaySpec

(* Whatever was indexed before a replay at boot (cmd/indexer-replay before  *)
(* the indexer starts), whatever is delivered again after it and wherever   *)
(* an earlier replay died, the trades, orders, rates and trade_history are  *)
(* the contracts' own once the indexer has caught up: if nothing was lost,  *)
(* every applied event has its audit row, the hashes of each ledger happen  *)
(* to be in order for each key (main.go:53) and no row was passed over.     *)
THEOREM ReplayRebuilds ==
  ASSUME Mode = "boot"
  PROVE  ReplaySpec => []ReplayRestores
<1>1. BootInv => ReplayRestores
  <2> SUFFICES ASSUME BootInv, Sound, AtRest, replay = "done"
               PROVE  /\ db.trades = chain.trades /\ db.limits = chain.limits
                      /\ db.rates = chain.rates
                      /\ Unambiguous => db.history = chain.settled
    BY DEF ReplayRestores, Rebuilt, Sound
  <2>1. TablesInv /\ FullInv
    BY DEF BootInv, ReplayInv, TablesInv, UpToDate
  <2>2. LiveTablesMirror /\ HistoryFaithful
    BY <2>1, TablesAtRest
  <2> QED BY <2>2 DEF LiveTablesMirror, HistoryFaithful, Sound
<1> QED BY <1>1, BootInvariant, PTL

-----------------------------------------------------------------------------
(* The tables that add.  totals[p] are the contracts' shares and open       *)
(* interest after p events.  That they stay as they are while no event      *)
(* concerns them is an invariant, for want of induction over the log.       *)
VaultTopics == {"deposit", "withdraw"}
OiTopics == {"oi_add", "oi_sub"}
TotalsType == [shares: [Key -> Nat], oi: [Key -> [BOOLEAN -> Nat]]]

Quiet(lg, k, T, p, q) == \A i \in p + 1 .. q : ~On(lg, i, k, T)

TotalsOK ==
  /\ totals \in [0 .. Len(log) -> TotalsType]
  /\ totals[Len(log)] = TotalsOf(chain)
  /\ \A k \in Key : totals[0].shares[k] = 0 /\ \A b \in BOOLEAN : totals[0].oi[k][b] = 0
  /\ \A p \in 1 .. Len(log) : /\ SharesPart(totals[p - 1], totals[p], log[p])
                              /\ OiStep(totals[p - 1], totals[p], log[p])
  /\ \A p \in 0 .. Len(log) : \A q \in p .. Len(log) : \A k \in Key :
       /\ Still(log, k) /\ Quiet(log, k, VaultTopics, p, q)
            => totals[q].shares[k] = totals[p].shares[k]
       /\ Quiet(log, k, OiTopics, p, q) => totals[q].oi[k] = totals[p].oi[k]

(* As Caught, with an event that came to be applied gone for good.          *)
Once(lg, rs, k, T, x, m) ==
  /\ Caught(lg, rs, k, T, x, m)
  /\ x \in 1 .. m /\ On(lg, x, k, T) => ~Left(lg, rs, x)

VaultCounted(k, m) == Still(log, k) => \E x \in 0 .. m :
  Once(log, rows, k, VaultTopics, x, m) /\ db.vault[k].shares = totals[x].shares[k]
OiCounted(k, m) == \E x \in 0 .. m :
  Once(log, rows, k, OiTopics, x, m) /\ db.oi[k] = totals[x].oi[k]

Complete(m) == HasRow(log, db.audit, m) /\ \A p \in 1 .. m : HasOrNone(p)
Counting == \E m \in 0 .. Len(log) :
  Complete(m) /\ \A k \in Key : VaultCounted(k, m) /\ OiCounted(k, m)

ZeroCounts == \A k \in Key : db.vault[k].shares = 0 /\ \A b \in BOOLEAN : db.oi[k][b] = 0

CountingInv ==
  /\ TotalsOK
  /\ replay = "truncated" => ZeroCounts
  /\ replay = "applying" /\ Sound /\ RecordedOnce => Counting

LEMMA SameSides ==
  ASSUME NEW f \in [BOOLEAN -> Nat], NEW g \in [BOOLEAN -> Nat], \A b \in BOOLEAN : f[b] = g[b]
  PROVE  f = g
OBVIOUS

(* An event that does not concern a total leaves it.                        *)
LEMMA QuietStep ==
  ASSUME NEW c \in TotalsType, NEW d \in TotalsType, NEW e, SharesPart(c, d, e), OiStep(c, d, e),
         NEW k \in Key
  PROVE  /\ ~Moves(e, k) /\ ~(e.key = k /\ e.topic \in VaultTopics) => d.shares[k] = c.shares[k]
         /\ ~(e.key = k /\ e.topic \in OiTopics) => d.oi[k] = c.oi[k]
<1>1. ~Moves(e, k) /\ ~(e.key = k /\ e.topic \in VaultTopics) => d.shares[k] = c.shares[k]
  BY DEF SharesPart, VaultTopics
<1>2. ASSUME ~(e.key = k /\ e.topic \in OiTopics) PROVE d.oi[k] = c.oi[k]
  <2>1. \A b \in BOOLEAN : d.oi[k][b] = c.oi[k][b]
    BY <1>2 DEF OiStep, OiTopics
  <2>2. d.oi[k] \in [BOOLEAN -> Nat] /\ c.oi[k] \in [BOOLEAN -> Nat]
    BY DEF TotalsType
  <2> QED BY <2>1, <2>2
<1> QED BY <1>1, <1>2

(* The totals of new events follow from those before.                       *)
LEMMA TotalsGrow ==
  ASSUME StepGrows, TotalsOK, TotalsFollow, Len(log') <= Len(log) + 2,
         TotalsOf(chain) \in TotalsType, TotalsOf(chain') \in TotalsType,
         Len(log') = Len(log) => chain' = chain,
         \A p \in Len(log) + 1 .. Len(log') :
           /\ SharesPart(totals'[p - 1], totals'[p], log'[p])
           /\ OiStep(totals'[p - 1], totals'[p], log'[p])
  PROVE  TotalsOK'
<1> DEFINE n == Len(log)
           u == Len(log')
<1>1. n \in Nat /\ u \in Nat /\ n <= u /\ u <= n + 2 /\ \A p \in 1 .. n : log'[p] = log[p]
  BY DEF StepGrows
<1>2. totals' = [p \in 0 .. u |-> IF p <= n THEN totals[p] ELSE TotalsOf(chain')]
  BY DEF TotalsFollow
<1>3. \A p \in 0 .. n : totals[p] \in TotalsType
  BY DEF TotalsOK
<1>4. \A p \in 0 .. u : totals'[p] = IF p <= n THEN totals[p] ELSE TotalsOf(chain')
  BY <1>2
<1>5. totals' \in [0 .. u -> TotalsType]
  BY <1>1, <1>2, <1>3
<1>6. totals'[u] = TotalsOf(chain')
  <2>1. CASE u = n
    BY <1>1, <1>4, <2>1 DEF TotalsOK
  <2>2. CASE u > n
    BY <1>1, <1>4, <2>2
  <2> QED BY <1>1, <2>1, <2>2
<1>7. \A k \in Key : totals'[0].shares[k] = 0 /\ \A b \in BOOLEAN : totals'[0].oi[k][b] = 0
  <2>1. totals'[0] = totals[0]
    BY <1>1, <1>4
  <2> QED BY <2>1 DEF TotalsOK
<1>8. ASSUME NEW p \in 1 .. u
      PROVE  /\ SharesPart(totals'[p - 1], totals'[p], log'[p])
             /\ OiStep(totals'[p - 1], totals'[p], log'[p])
  <2>1. CASE p <= n
    <3>1. p \in 1 .. n /\ totals'[p - 1] = totals[p - 1] /\ totals'[p] = totals[p] /\ log'[p] = log[p]
      BY <1>1, <1>4, <2>1
    <3> QED BY <3>1 DEF TotalsOK
  <2>2. CASE p > n
    <3>1. p \in n + 1 .. u
      BY <1>1, <2>2
    <3> QED BY <3>1
  <2> QED BY <1>1, <2>1, <2>2
<1> DEFINE Same(p, q, k) ==
             /\ Still(log', k) /\ Quiet(log', k, VaultTopics, p, q)
                  => totals'[q].shares[k] = totals'[p].shares[k]
             /\ Quiet(log', k, OiTopics, p, q) => totals'[q].oi[k] = totals'[p].oi[k]
<1>9. ASSUME NEW k \in Key, NEW p \in 0 .. u, p + 1 \in 0 .. u PROVE Same(p, p + 1, k)
  <2>1. p + 1 \in 1 .. u /\ p + 1 - 1 = p /\ p + 1 \in p + 1 .. p + 1
    BY <1>1, <1>9
  <2>2. totals'[p] \in TotalsType /\ totals'[p + 1] \in TotalsType
    BY <1>5, <1>9
  <2>3. SharesPart(totals'[p], totals'[p + 1], log'[p + 1]) /\ OiStep(totals'[p], totals'[p + 1], log'[p + 1])
    BY <1>8, <2>1
  <2>4. \A T : Quiet(log', k, T, p, p + 1) => ~(log'[p + 1].key = k /\ log'[p + 1].topic \in T)
    BY <2>1 DEF Quiet, On
  <2>5. Still(log', k) => ~Moves(log'[p + 1], k)
    BY <2>1 DEF Still
  <2> QED BY <2>2, <2>3, <2>4, <2>5, QuietStep
<1>10. ASSUME NEW k \in Key, NEW p \in 0 .. n, NEW q \in p .. n PROVE Same(p, q, k)
  <2>1. p \in 0 .. u /\ q \in 0 .. u /\ totals'[p] = totals[p] /\ totals'[q] = totals[q]
    BY <1>1, <1>4
  <2>2. \A i \in p + 1 .. q : log'[i] = log[i]
    BY <1>1
  <2>3. \A T : Quiet(log', k, T, p, q) => Quiet(log, k, T, p, q)
    BY <2>2 DEF Quiet, On
  <2>4. Still(log', k) => Still(log, k)
    BY <1>1 DEF Still
  <2> QED BY <2>1, <2>3, <2>4 DEF TotalsOK
<1>11. ASSUME NEW k \in Key, NEW p \in 0 .. u, NEW q \in p .. u, q + 1 \in 0 .. u, Same(p, q, k)
       PROVE  Same(p, q + 1, k)
  <2>1. q \in 0 .. u
    BY <1>1
  <2>2. Same(q, q + 1, k)
    BY <1>9, <1>11, <2>1
  <2>3. \A T : Quiet(log', k, T, p, q + 1) => Quiet(log', k, T, p, q) /\ Quiet(log', k, T, q, q + 1)
    <3>1. (\A i \in p + 1 .. q : i \in p + 1 .. q + 1) /\ \A i \in q + 1 .. q + 1 : i \in p + 1 .. q + 1
      BY <1>1
    <3> QED BY <3>1 DEF Quiet
  <2> QED BY <1>11, <2>2, <2>3
<1>12. ASSUME NEW k \in Key, NEW p \in 0 .. u PROVE Same(p, p, k)
  OBVIOUS
<1>13. ASSUME NEW k \in Key, NEW p \in 0 .. u, NEW q \in p .. u PROVE Same(p, q, k)
  <2>1. CASE q <= n
    <3>1. p \in 0 .. n /\ q \in p .. n
      BY <1>1, <2>1
    <3> QED BY <1>10, <3>1
  <2>2. CASE q = n + 1
    <3>1. CASE p <= n
      <4>1. p \in 0 .. n /\ n \in p .. n /\ n \in p .. u /\ n + 1 \in 0 .. u
        BY <1>1, <2>2, <3>1
      <4>2. Same(p, n, k)
        BY <1>10, <4>1
      <4> HIDE DEF Same
      <4> QED BY <1>11, <2>2, <4>1, <4>2
    <3>2. CASE p > n
      <4>1. p = q
        BY <1>1, <2>2, <3>2
      <4> HIDE DEF Same
      <4> QED BY <1>12, <4>1
    <3> QED BY <1>1, <3>1, <3>2
  <2>3. CASE q = n + 2
    <3>1. CASE p <= n
      <4>1. p \in 0 .. n /\ n \in p .. n /\ n \in p .. u /\ n + 1 \in 0 .. u /\ n + 1 \in p .. u
            /\ (n + 1) + 1 \in 0 .. u /\ (n + 1) + 1 = q
        BY <1>1, <2>3, <3>1
      <4>2. Same(p, n, k)
        BY <1>10, <4>1
      <4> HIDE DEF Same
      <4>3. Same(p, n + 1, k)
        BY <1>11, <4>1, <4>2
      <4>4. Same(p, (n + 1) + 1, k)
        BY <1>11, <4>1, <4>3
      <4> QED BY <4>1, <4>4
    <3>2. CASE p = n + 1
      <4>1. p + 1 \in 0 .. u /\ p + 1 = q
        BY <1>1, <2>3, <3>2
      <4> HIDE DEF Same
      <4> QED BY <1>9, <4>1
    <3>3. CASE p > n + 1
      <4>1. p = q
        BY <1>1, <2>3, <3>3
      <4> HIDE DEF Same
      <4> QED BY <1>12, <4>1
    <3> QED BY <1>1, <3>1, <3>2, <3>3
  <2> QED BY <1>1, <2>1, <2>2, <2>3
<1> QED BY <1>5, <1>6, <1>7, <1>8, <1>13 DEF TotalsOK

(* A step of the chain, or of the indexer, keeps the totals the contracts'. *)
LEMMA TotalsKept ==
  ASSUME FullInv, FullInv', TotalsOK, [Next]_vars, TotalsFollow
  PROVE  TotalsOK'
<1>1. StepGrows /\ LedgerTypeOK /\ LedgerTypeOK'
  BY NextGrows DEF FullInv, TypeOK
<1>2. TotalsOf(chain) \in TotalsType /\ TotalsOf(chain') \in TotalsType
  BY <1>1 DEF TotalsOf, TotalsType, LedgerTypeOK
<1>3. /\ Len(log) \in Nat /\ Len(log') \in Nat /\ Len(log) <= Len(log') /\ log \in Seq(Event)
      /\ TotalsOf(chain).shares = chain.shares /\ TotalsOf(chain).oi = chain.oi
      /\ TotalsOf(chain').shares = chain'.shares /\ TotalsOf(chain').oi = chain'.oi
      /\ totals[Len(log)] = TotalsOf(chain)
      /\ \A p \in 0 .. Len(log') :
           totals'[p] = IF p <= Len(log) THEN totals[p] ELSE TotalsOf(chain')
  BY <1>1 DEF StepGrows, LedgerTypeOK, TotalsOf, TotalsOK, TotalsFollow
<1>4. CASE Contracts
  <2>1. CASE EmitsOne
    <3>1. PICK e \in Event : /\ log' = log \o <<e>>
                             /\ SharesPart(chain, chain', e) /\ OiStep(chain, chain', e)
      BY <2>1 DEF EmitsOne
    <3>2. Len(log') = Len(log) + 1 /\ log'[Len(log) + 1] = e
      BY <1>3, <3>1
    <3>3. totals'[Len(log)] = TotalsOf(chain) /\ totals'[Len(log) + 1] = TotalsOf(chain')
      BY <1>3, <3>2
    <3>4. SharesPart(TotalsOf(chain), TotalsOf(chain'), e) /\ OiStep(TotalsOf(chain), TotalsOf(chain'), e)
      BY <1>3, <3>1 DEF SharesPart, OiStep
    <3>5. ASSUME NEW p \in Len(log) + 1 .. Len(log')
          PROVE  /\ SharesPart(totals'[p - 1], totals'[p], log'[p])
                 /\ OiStep(totals'[p - 1], totals'[p], log'[p])
      <4>1. p = Len(log) + 1 /\ p - 1 = Len(log)
        BY <1>3, <3>2
      <4> QED BY <3>2, <3>3, <3>4, <4>1
    <3>6. Len(log') <= Len(log) + 2 /\ Len(log') # Len(log)
      BY <1>3, <3>2
    <3> QED BY <1>1, <1>2, <3>5, <3>6, TotalsGrow
  <2>2. CASE EmitsTwo
    <3>1. PICK e \in Event, f \in Event, c \in ChainType :
            /\ log' = log \o <<e, f>> /\ ChainStep(chain, c, e) /\ ChainStep(c, chain', f)
            /\ e.topic = "executed" /\ f.topic = "opened"
      BY <2>2 DEF EmitsTwo
    <3>2. Len(log') = Len(log) + 2 /\ log'[Len(log) + 1] = e /\ log'[Len(log) + 2] = f
      BY <1>3, <3>1
    <3>3. /\ totals'[Len(log)] = TotalsOf(chain) /\ totals'[Len(log) + 1] = TotalsOf(chain')
          /\ totals'[Len(log) + 2] = TotalsOf(chain')
      BY <1>3, <3>2
    <3>4. \A k \in Key : /\ chain'.shares[k] = chain.shares[k]
                         /\ \A b \in BOOLEAN : chain'.oi[k][b] = chain.oi[k][b]
      BY <3>1 DEF ChainStep, SharesPart, OiStep, Moves
    <3>5. SharesPart(TotalsOf(chain), TotalsOf(chain'), e) /\ OiStep(TotalsOf(chain), TotalsOf(chain'), e)
      BY <1>3, <3>1, <3>4 DEF SharesPart, OiStep
    <3>6. SharesPart(TotalsOf(chain'), TotalsOf(chain'), f) /\ OiStep(TotalsOf(chain'), TotalsOf(chain'), f)
      BY <3>1 DEF SharesPart, OiStep
    <3>7. ASSUME NEW p \in Len(log) + 1 .. Len(log')
          PROVE  /\ SharesPart(totals'[p - 1], totals'[p], log'[p])
                 /\ OiStep(totals'[p - 1], totals'[p], log'[p])
      <4>1. CASE p = Len(log) + 1
        <5>1. p - 1 = Len(log)
          BY <1>3, <4>1
        <5> QED BY <3>2, <3>3, <3>5, <4>1, <5>1
      <4>2. CASE p = Len(log) + 2
        <5>1. p - 1 = Len(log) + 1
          BY <1>3, <4>2
        <5> QED BY <3>2, <3>3, <3>6, <4>2, <5>1
      <4> QED BY <1>3, <3>2, <4>1, <4>2
    <3>8. Len(log') <= Len(log) + 2 /\ Len(log') # Len(log)
      BY <1>3, <3>2
    <3> QED BY <1>1, <1>2, <3>7, <3>8, TotalsGrow
  <2> QED BY <1>1, <1>4, <2>1, <2>2, ContractsEmit
<1>5. CASE ~Contracts
  <2>1. log' = log /\ chain' = chain
    BY <1>5 DEF Next, LedgerStep, CloseLedger, IndexerStep, Boot, GetEvents, Clamp, RetryError,
       EventError, ApplyEvent, Fanout, EndPage, Crash, vars, ledgerVars
  <2>2. Len(log') <= Len(log) + 2 /\ \A p \in Len(log) + 1 .. Len(log') : FALSE
    BY <1>3, <2>1
  <2> QED BY <1>1, <1>2, <2>1, <2>2, TotalsGrow
<1> QED BY <1>4, <1>5

(* An event with one row is applied once.                                   *)
LEMMA OnceStep ==
  ASSUME FullInv, LogTx(log), hash \in [1 .. MaxEvents -> 1 .. MaxEvents], HashesInOrder,
         NEW m \in 0 .. Len(log), HasRow(log, rows, m), NEW q \in 1 .. m,
         NEW row, RowFor(log, row, q), IsNext(row), NEW rs, rs = rows \ {row},
         \A a \in rows : a.ev = row.ev => a = row,
         NEW k, NEW T, OneTable(T), NEW x \in 0 .. m, Once(log, rows, k, T, x, m)
  PROVE  /\ On(log, q, k, T) => /\ x \in 0 .. q - 1 /\ Once(log, rs, k, T, q, m)
                                /\ Quiet(log, k, T, x, q - 1)
         /\ ~On(log, q, k, T) => Once(log, rs, k, T, x, m)
<1>1. /\ On(log, q, k, T) => /\ x <= q /\ Caught(log, rs, k, T, q, m)
                             /\ \A p \in x + 1 .. q - 1 : ~On(log, p, k, T)
      /\ ~On(log, q, k, T) => Caught(log, rs, k, T, x, m)
  BY CaughtStep DEF Once
<1>2. row \in rows /\ row.ev = log[q]
  BY DEF IsNext, RowFor
<1>3. ~Left(log, rs, q) /\ Left(log, rows, q)
  BY <1>2 DEF Left
<1>4. Len(log) \in Nat /\ m \in Nat /\ x \in Nat /\ q \in Nat /\ q >= 1
  BY DEF FullInv, TypeOK, LedgerTypeOK
<1>5. CASE On(log, q, k, T)
  <2>1. x # q
    BY <1>3, <1>5 DEF Once
  <2>2. x \in 0 .. q - 1
    BY <1>1, <1>4, <1>5, <2>1
  <2> QED BY <1>1, <1>3, <1>5, <2>2 DEF Once, Quiet
<1>6. CASE ~On(log, q, k, T)
  <2>1. \A p : Left(log, rs, p) => Left(log, rows, p)
    BY DEF Left
  <2> QED BY <1>1, <1>6, <2>1 DEF Once
<1> QED BY <1>5, <1>6

(* A row counts once, in the vault and in the open interest.                *)
LEMMA RowCounted ==
  ASSUME NEW row, NEW m \in 0 .. Len(log), NEW q \in 1 .. m, Replays(row, q),
         HasRow(log, rows, m), \A a \in rows : a.ev = row.ev => a = row,
         TotalsOK, totals' = totals, db' \in DBType,
         NEW k \in Key, VaultCounted(k, m), OiCounted(k, m)
  PROVE  VaultCounted(k, m)' /\ OiCounted(k, m)'
<1>1. /\ FullInv /\ LogTx(log) /\ HashesInOrder /\ hash \in [1 .. MaxEvents -> 1 .. MaxEvents]
      /\ IsNext(row) /\ RowFor(log, row, q) /\ rows' = rows \ {row} /\ log' = log
      /\ VaultStep(db, db', log[q]) /\ OiStep(db, db', log[q])
  BY DEF Replays, DbStep
<1>2. Len(log) \in Nat /\ m \in Nat /\ q \in Nat /\ q >= 1 /\ q \in 1 .. Len(log) /\ q \in 0 .. m
  <2>1. Len(log) \in Nat
    BY <1>1 DEF FullInv, TypeOK, LedgerTypeOK
  <2> QED BY <2>1
<1>3. OneTable(VaultTopics) /\ OneTable(OiTopics)
  BY DEF OneTable, VaultTopics, OiTopics
<1>4. SharesPart(totals[q - 1], totals[q], log[q]) /\ OiStep(totals[q - 1], totals[q], log[q])
  BY <1>2 DEF TotalsOK
<1>5. ASSUME NEW x \in 0 .. q - 1
      PROVE  /\ Still(log, k) /\ Quiet(log, k, VaultTopics, x, q - 1)
                  => totals[q - 1].shares[k] = totals[x].shares[k]
             /\ Quiet(log, k, OiTopics, x, q - 1) => totals[q - 1].oi[k] = totals[x].oi[k]
  <2>1. x \in 0 .. Len(log) /\ q - 1 \in x .. Len(log)
    BY <1>2
  <2> QED BY <2>1 DEF TotalsOK
<1>6. VaultCounted(k, m)'
  <2>0. SUFFICES ASSUME Still(log, k)
                 PROVE  \E x \in 0 .. m : /\ Once(log, rows', k, VaultTopics, x, m)
                                          /\ db'.vault[k].shares = totals[x].shares[k]
    BY <1>1 DEF VaultCounted
  <2>1. PICK x \in 0 .. m : /\ Once(log, rows, k, VaultTopics, x, m)
                            /\ db.vault[k].shares = totals[x].shares[k]
    BY <2>0 DEF VaultCounted
  <2>2. /\ On(log, q, k, VaultTopics) => /\ x \in 0 .. q - 1 /\ Once(log, rows', k, VaultTopics, q, m)
                                         /\ Quiet(log, k, VaultTopics, x, q - 1)
        /\ ~On(log, q, k, VaultTopics) => Once(log, rows', k, VaultTopics, x, m)
    BY <1>1, <1>3, <2>1, OnceStep
  <2>3. CASE On(log, q, k, VaultTopics)
    <3>1. db.vault[k].shares = totals[q - 1].shares[k]
      BY <1>5, <2>0, <2>1, <2>2, <2>3
    <3>2. db'.vault[k].shares = totals[q].shares[k]
      BY <1>1, <1>2, <1>4, <2>0, <3>1 DEF VaultStep, SharesPart, Still
    <3> QED BY <1>2, <2>2, <2>3, <3>2
  <2>4. CASE ~On(log, q, k, VaultTopics)
    <3>1. db'.vault[k].shares = db.vault[k].shares
      BY <1>1, <2>4 DEF VaultStep, On, VaultTopics
    <3> QED BY <2>1, <2>2, <2>4, <3>1
  <2> QED BY <2>3, <2>4
<1>7. OiCounted(k, m)'
  <2>1. PICK x \in 0 .. m : /\ Once(log, rows, k, OiTopics, x, m)
                            /\ db.oi[k] = totals[x].oi[k]
    BY DEF OiCounted
  <2>2. /\ On(log, q, k, OiTopics) => /\ x \in 0 .. q - 1 /\ Once(log, rows', k, OiTopics, q, m)
                                      /\ Quiet(log, k, OiTopics, x, q - 1)
        /\ ~On(log, q, k, OiTopics) => Once(log, rows', k, OiTopics, x, m)
    BY <1>1, <1>3, <2>1, OnceStep
  <2>3. db'.oi[k] \in [BOOLEAN -> Nat] /\ db.oi[k] \in [BOOLEAN -> Nat] /\ totals[q].oi[k] \in [BOOLEAN -> Nat]
    <3>1. db \in DBType /\ q \in 0 .. Len(log)
      BY <1>1, <1>2 DEF FullInv, TypeOK
    <3>2. db.oi[k] \in [BOOLEAN -> Nat] /\ db'.oi[k] \in [BOOLEAN -> Nat]
      BY <3>1 DEF DBType
    <3>3. totals[q] \in TotalsType
      BY <3>1 DEF TotalsOK
    <3>4. totals[q].oi[k] \in [BOOLEAN -> Nat]
      BY <3>3 DEF TotalsType
    <3> QED BY <3>2, <3>4
  <2>4. CASE On(log, q, k, OiTopics)
    <3>1. db.oi[k] = totals[q - 1].oi[k]
      BY <1>5, <2>1, <2>2, <2>4
    <3>2. \A b \in BOOLEAN : db'.oi[k][b] = totals[q].oi[k][b]
      BY <1>1, <1>4, <3>1 DEF OiStep
    <3>3. db'.oi[k] = totals[q].oi[k]
      BY <2>3, <3>2, SameSides
    <3> QED BY <1>1, <1>2, <2>2, <2>4, <3>3 DEF OiCounted
  <2>5. CASE ~On(log, q, k, OiTopics)
    <3>1. \A b \in BOOLEAN : db'.oi[k][b] = db.oi[k][b]
      BY <1>1, <2>5 DEF OiStep, On, OiTopics
    <3>2. db'.oi[k] = db.oi[k]
      BY <2>3, <3>1, SameSides
    <3> QED BY <1>1, <2>1, <2>2, <2>5, <3>2 DEF OiCounted
  <2> QED BY <2>4, <2>5
<1> QED BY <1>6, <1>7

(* The replay starts from zeros, with every event on record left.           *)
LEMMA CountingStarts ==
  ASSUME FullInv, ZeroCounts, TotalsOK, UNCHANGED vars, totals' = totals, rows' = db.audit,
         NEW m \in 0 .. Len(log), Complete(m)
  PROVE  Counting'
<1>1. Len(log) \in Nat /\ m \in Nat /\ 0 \in 0 .. m /\ 0 \in 0 .. Len(log) /\ db \in DBType
  BY DEF FullInv, TypeOK, LedgerTypeOK
<1>2. log' = log /\ db' = db
  BY DEF vars, ledgerVars, indexerVars
<1>3. ASSUME NEW k, NEW T, "undecodable" \notin T PROVE Once(log, db.audit, k, T, 0, m)
  <2> SUFFICES ASSUME NEW p \in 1 .. m, On(log, p, k, T)
               PROVE  (p > 0 => Left(log, db.audit, p)) /\ (p < 0 => ~Left(log, db.audit, p))
    BY <1>1 DEF Once, Caught
  <2>1. Left(log, db.audit, p)
    BY <1>3 DEF Complete, HasOrNone, On
  <2> QED BY <1>1, <2>1
<1>4. "undecodable" \notin VaultTopics /\ "undecodable" \notin OiTopics
  BY DEF VaultTopics, OiTopics
<1>5. ASSUME NEW k \in Key PROVE VaultCounted(k, m)' /\ OiCounted(k, m)'
  <2>1. db.vault[k].shares = totals[0].shares[k]
    BY DEF ZeroCounts, TotalsOK
  <2>2. \A b \in BOOLEAN : db.oi[k][b] = totals[0].oi[k][b]
    BY DEF ZeroCounts, TotalsOK
  <2>3. db.oi[k] \in [BOOLEAN -> Nat] /\ totals[0] \in TotalsType
    BY <1>1 DEF DBType, TotalsOK
  <2>4. totals[0].oi[k] \in [BOOLEAN -> Nat]
    BY <2>3 DEF TotalsType
  <2>5. db.oi[k] = totals[0].oi[k]
    BY <2>2, <2>3, <2>4, SameSides
  <2> QED BY <1>1, <1>2, <1>3, <1>4, <2>1, <2>5 DEF VaultCounted, OiCounted
<1>6. Complete(m)'
  BY <1>2 DEF Complete, HasOrNone
<1> QED BY <1>2, <1>5, <1>6 DEF Counting

(* The chain goes on while rows are applied.                                *)
LEMMA CountingGrows ==
  ASSUME FullInv, StepGrows, db' = db, rows' = rows, TotalsOK, TotalsFollow, Counting
  PROVE  Counting'
<1>1. /\ Len(log) \in Nat /\ Len(log') \in Nat
      /\ Len(log) <= Len(log') /\ \A p \in 1 .. Len(log) : log'[p] = log[p]
  BY DEF StepGrows
<1>2. PICK m \in 0 .. Len(log) : Complete(m) /\ \A k \in Key : VaultCounted(k, m) /\ OiCounted(k, m)
  BY DEF Counting
<1>3. /\ m \in 0 .. Len(log')
      /\ \A p \in 1 .. m : p \in 1 .. Len(log) /\ p \in 1 .. Len(log') /\ log'[p] = log[p]
      /\ \A x \in 0 .. m : x \in 0 .. Len(log) /\ x \in 0 .. Len(log')
  BY <1>1
<1>4. \A x \in 0 .. m : totals'[x] = totals[x]
  BY <1>1, <1>3 DEF TotalsFollow
<1>5. ASSUME NEW k, NEW T, NEW x, Once(log, rows, k, T, x, m) PROVE Once(log', rows', k, T, x, m)
  BY <1>3, <1>5 DEF Once, Caught, On, Left
<1>6. Complete(m)'
  BY <1>2, <1>3 DEF Complete, HasRow, RowFor, HasOrNone, Left
<1>7. ASSUME NEW k \in Key PROVE VaultCounted(k, m)' /\ OiCounted(k, m)'
  <2>1. VaultCounted(k, m) /\ OiCounted(k, m)
    BY <1>2
  <2>2. Still(log', k) => Still(log, k)
    BY <1>1 DEF Still
  <2> QED BY <1>4, <1>5, <2>1, <2>2 DEF VaultCounted, OiCounted
<1> QED BY <1>3, <1>6, <1>7 DEF Counting

(* No row is left: the counts are the totals after the last event on record.*)
LEMMA CountingEnds ==
  ASSUME FullInv, LogTx(log), TotalsOK, Counting, rows = {},
         NEW n \in {0} \cup Audited, \A p \in Audited : p <= n, NEW k \in Key
  PROVE  /\ Still(log, k) => db.vault[k].shares = totals[n].shares[k]
         /\ db.oi[k] = totals[n].oi[k]
<1>1. Len(log) \in Nat /\ TypeOK /\ n \in 0 .. Len(log)
  BY DEF FullInv, TypeOK, LedgerTypeOK, Audited
<1>2. PICK m \in 0 .. Len(log) : Complete(m) /\ VaultCounted(k, m) /\ OiCounted(k, m)
  BY DEF Counting
<1>3. n <= m
  <2>1. CASE n = 0
    BY <1>1, <2>1
  <2>2. CASE n \in Audited
    <3>1. PICK a \in db.audit : a.ev = log[n] /\ n \in 1 .. Len(log)
      BY <2>2 DEF Audited
    <3>2. PICK p \in 1 .. m : RowFor(log, a, p)
      BY <1>2 DEF Complete, HasRow
    <3>3. p \in 1 .. Len(log) /\ log[p] = log[n]
      BY <1>1, <3>1, <3>2 DEF RowFor
    <3>4. p = n
      BY <1>1, <3>1, <3>3, LogDistinct
    <3> QED BY <1>1, <3>4
  <2> QED BY <2>1, <2>2
<1>4. ASSUME NEW T, "undecodable" \notin T PROVE Quiet(log, k, T, n, m)
  <2> SUFFICES ASSUME NEW p \in n + 1 .. m PROVE ~On(log, p, k, T)
    BY DEF Quiet
  <2>1. p \in 1 .. m /\ p \in 1 .. Len(log) /\ ~(p <= n)
    BY <1>1
  <2>2. p \notin Audited
    BY <2>1
  <2>3. ~Left(log, db.audit, p)
    BY <2>1, <2>2 DEF Audited, Left
  <2>4. log[p].topic = "undecodable"
    BY <1>2, <2>1, <2>3 DEF Complete, HasOrNone
  <2> QED BY <1>4, <2>4 DEF On
<1>5. ASSUME NEW T, NEW x \in 0 .. m, Once(log, rows, k, T, x, m) PROVE Quiet(log, k, T, x, m)
  <2> SUFFICES ASSUME NEW p \in x + 1 .. m, On(log, p, k, T) PROVE FALSE
    BY DEF Quiet
  <2>1. p \in 1 .. m /\ p > x
    BY <1>1
  <2>2. Left(log, rows, p)
    BY <1>5, <2>1 DEF Once, Caught
  <2> QED BY <2>2 DEF Left
<1>6. "undecodable" \notin VaultTopics /\ "undecodable" \notin OiTopics
  BY DEF VaultTopics, OiTopics
<1>7. m \in n .. Len(log) /\ \A x \in 0 .. m : x \in 0 .. Len(log) /\ m \in x .. Len(log)
  BY <1>1, <1>3
<1>8. /\ Still(log, k) => totals[m].shares[k] = totals[n].shares[k]
      /\ totals[m].oi[k] = totals[n].oi[k]
  BY <1>1, <1>4, <1>6, <1>7 DEF TotalsOK
<1>9. ASSUME Still(log, k) PROVE db.vault[k].shares = totals[m].shares[k]
  <2>1. PICK x \in 0 .. m : /\ Once(log, rows, k, VaultTopics, x, m)
                            /\ db.vault[k].shares = totals[x].shares[k]
    BY <1>2, <1>9 DEF VaultCounted
  <2> QED BY <1>5, <1>7, <1>9, <2>1 DEF TotalsOK
<1>10. db.oi[k] = totals[m].oi[k]
  <2>1. PICK x \in 0 .. m : /\ Once(log, rows, k, OiTopics, x, m) /\ db.oi[k] = totals[x].oi[k]
    BY <1>2 DEF OiCounted
  <2> QED BY <1>5, <1>7, <2>1 DEF TotalsOK
<1> QED BY <1>8, <1>9, <1>10

(* The steps, one by one: what they do to the counts.                       *)
LEMMA CountingKept ==
  ASSUME Mode = "boot", BootInv, BootInv', CountingInv, [ReplayNext]_allVars
  PROVE  CountingInv'
<1>1. FullInv /\ LogTx(log) /\ FullInv' /\ db \in DBType
  BY DEF BootInv, ReplayInv, FullInv, TypeOK
<1>2. ASSUME log' = log, chain' = chain, totals' = totals PROVE TotalsOK'
  BY <1>2 DEF CountingInv, TotalsOK
<1>3. CASE Truncate
  <2>1. replay' = "truncated" /\ log' = log /\ chain' = chain /\ totals' = totals
    BY <1>3 DEF Truncate, ledgerVars
  <2>2. db'.vault = EmptyDB.vault /\ db'.oi = EmptyDB.oi
    BY <1>1, <1>3, EmptyDBType DEF Truncate, DBType
  <2>3. ZeroCounts'
    BY <2>2 DEF ZeroCounts, EmptyDB
  <2> QED BY <1>2, <2>1, <2>3 DEF CountingInv
<1>4. CASE SelectRows
  <2>1. /\ UNCHANGED vars /\ totals' = totals /\ hash' = hash /\ rows' = db.audit /\ missed' = Unrecorded
        /\ replay = "truncated" /\ replay' = "applying"
    BY <1>4 DEF SelectRows
  <2>2. log' = log /\ chain' = chain /\ (Intact' <=> Intact)
    BY <2>1, StillKeeps
  <2>3. Sound' => Counting'
    <3> SUFFICES ASSUME Intact, Unrecorded = {} PROVE Counting'
      BY <2>1, <2>2 DEF Sound
    <3>1. pc = "down" /\ InPlace /\ OnFile /\ ZeroCounts /\ TotalsOK
      BY <2>1 DEF BootInv, ReplayInv, CountingInv
    <3>2. PICK n \in 0 .. Len(log) : Position(n)
      BY <3>1 DEF InPlace
    <3>3. PICK m \in 0 .. Len(log) : Complete(m)
      BY <1>1, <3>1, <3>2, RowsArePrefix DEF Complete
    <3> QED BY <1>1, <2>1, <3>1, <3>3, CountingStarts
  <2> QED BY <1>2, <2>1, <2>2, <2>3 DEF CountingInv
<1>5. CASE ReplayRow
  <2>1. PICK row \in rows : IsNext(row) /\ db' = Apply(db, row.ev, row.idx) /\ rows' = rows \ {row}
    BY <1>5 DEF ReplayRow
  <2>2. /\ replay = "applying" /\ replay' = "applying" /\ hash' = hash /\ missed' = missed
        /\ totals' = totals
    BY <1>5 DEF ReplayRow
  <2>3. /\ db' \in DBType /\ (Intact' <=> Intact) /\ log' = log /\ chain' = chain
        /\ Intact => db'.audit = db.audit
        /\ row \in db.audit /\ rows \subseteq db.audit
        /\ \A q \in 1 .. Len(log) : Sound /\ RowFor(log, row, q) => Replays(row, q)
    BY <1>5, <2>1, RowApplied DEF BootInv, ReplayInv, ReplayTypeOK
  <2>4. ASSUME Sound', RecordedOnce' PROVE Counting'
    <3>1. Sound /\ Intact /\ db'.audit = db.audit
      BY <2>2, <2>3, <2>4 DEF Sound, HashesInOrder
    <3>2. RecordedOnce
      BY <2>4, <3>1 DEF RecordedOnce
    <3>3. TotalsOK /\ Counting
      BY <2>2, <3>1, <3>2 DEF CountingInv
    <3>4. PICK m \in 0 .. Len(log) : Complete(m) /\ \A k \in Key : VaultCounted(k, m) /\ OiCounted(k, m)
      BY <3>3 DEF Counting
    <3>5. HasRow(log, rows, m)
      BY <2>3, <3>4 DEF Complete, HasRow
    <3>6. PICK q \in 1 .. m : RowFor(log, row, q)
      BY <2>3, <3>4 DEF Complete, HasRow
    <3>7. q \in 1 .. Len(log)
      BY <1>1 DEF FullInv, TypeOK, LedgerTypeOK
    <3>8. Replays(row, q)
      BY <2>3, <3>1, <3>6, <3>7
    <3>9. \A a \in rows : a.ev = row.ev => a = row
      BY <2>3, <3>2 DEF RecordedOnce
    <3>10. ASSUME NEW k \in Key PROVE VaultCounted(k, m)' /\ OiCounted(k, m)'
      BY <2>2, <2>3, <3>3, <3>4, <3>5, <3>8, <3>9, RowCounted
    <3>11. Complete(m)'
      BY <2>3, <3>1, <3>4 DEF Complete, HasOrNone
    <3> QED BY <2>3, <3>4, <3>10, <3>11 DEF Counting
  <2> QED BY <1>2, <2>2, <2>3, <2>4 DEF CountingInv
<1>6. CASE ReplayRowFails \/ ReplayCutShort \/ ReplayDies
  <2>1. /\ UNCHANGED vars /\ totals' = totals
        /\ replay' = "failed" \/ (replay' = "applying" /\ missed' # {})
    BY <1>6 DEF ReplayRowFails, ReplayCutShort, ReplayDies
  <2>2. log' = log /\ chain' = chain
    BY <2>1, StillKeeps
  <2> QED BY <1>2, <2>1, <2>2 DEF CountingInv, Sound
<1>7. CASE ReplayDone
  <2>1. UNCHANGED vars /\ totals' = totals /\ replay' = "done"
    BY <1>7 DEF ReplayDone
  <2>2. log' = log /\ chain' = chain
    BY <2>1, StillKeeps
  <2> QED BY <1>2, <2>1, <2>2 DEF CountingInv
<1>8. CASE (LedgerStep \/ (IndexerMay /\ IndexerStep)) /\ TotalsFollow /\ UNCHANGED replayVars
  <2>1. /\ [Next]_vars /\ TotalsFollow /\ replay' = replay /\ rows' = rows /\ hash' = hash
        /\ missed' = missed
    BY <1>8 DEF Next, replayVars
  <2>2. TotalsOK'
    BY <1>1, <2>1, TotalsKept DEF CountingInv
  <2>3. CASE replay \in {"truncated", "applying"}
    <3>1. LedgerStep
      BY <1>8, <2>3 DEF IndexerMay
    <3>2. db' = db
      BY <3>1 DEF LedgerStep, indexerVars
    <3>3. StepGrows /\ (Intact' => Intact)
      BY <1>1, <2>1, NextGrows, IntactBefore
    <3>4. Sound' => Sound
      BY <2>1, <3>3, SoundBefore
    <3>5. RecordedOnce' => RecordedOnce
      BY <3>2 DEF RecordedOnce
    <3>6. replay = "applying" /\ Sound' /\ RecordedOnce' => Counting'
      BY <1>1, <2>1, <3>2, <3>3, <3>4, <3>5, CountingGrows DEF CountingInv
    <3>7. replay = "truncated" => ZeroCounts'
      BY <3>2 DEF CountingInv, ZeroCounts
    <3> QED BY <2>1, <2>2, <3>6, <3>7 DEF CountingInv
  <2>4. CASE replay \notin {"truncated", "applying"}
    BY <2>1, <2>2, <2>4 DEF CountingInv
  <2> QED BY <2>3, <2>4
<1>9. CASE UNCHANGED allVars
  <2>1. UNCHANGED vars /\ totals' = totals /\ replay' = replay /\ rows' = rows /\ hash' = hash
        /\ missed' = missed
    BY <1>9 DEF allVars, replayVars
  <2>2. log' = log /\ chain' = chain /\ db' = db /\ (Intact' <=> Intact)
    BY <2>1, StillKeeps
  <2>3. (Sound' <=> Sound) /\ (RecordedOnce' <=> RecordedOnce) /\ (ZeroCounts' <=> ZeroCounts)
    BY <2>1, <2>2 DEF Sound, HashesInOrder, RecordedOnce, ZeroCounts
  <2>4. Counting => Counting'
    BY <2>1, <2>2 DEF Counting, Complete, HasOrNone, VaultCounted, OiCounted
  <2> QED BY <1>2, <2>1, <2>2, <2>3, <2>4 DEF CountingInv
<1> QED BY <1>3, <1>4, <1>5, <1>6, <1>7, <1>8, <1>9 DEF ReplayNext

LEMMA InitCounting ==
  ASSUME ReplayInit
  PROVE  CountingInv
<1>1. replay = "idle" /\ Init /\ totals = [p \in {0} |-> TotalsOf(chain)]
  BY DEF ReplayInit
<1>2. /\ log = <<>> /\ chain.shares = [k \in Key |-> 0]
      /\ chain.oi = [k \in Key |-> [long \in BOOLEAN |-> 0]]
  BY <1>1 DEF Init, LedgerInit
<1>3. Len(log) = 0 /\ 0 .. Len(log) = {0}
  BY <1>2
<1>4. totals[0] = TotalsOf(chain) /\ TotalsOf(chain).shares = chain.shares /\ TotalsOf(chain).oi = chain.oi
  BY <1>1 DEF TotalsOf
<1>5. TotalsOf(chain) \in TotalsType
  BY <1>2 DEF TotalsOf, TotalsType
<1>6. totals \in [0 .. Len(log) -> TotalsType] /\ totals[Len(log)] = TotalsOf(chain)
  BY <1>1, <1>3, <1>5
<1>7. \A k \in Key : totals[0].shares[k] = 0 /\ \A b \in BOOLEAN : totals[0].oi[k][b] = 0
  BY <1>2, <1>4
<1>8. \A p \in 1 .. Len(log) : FALSE
  BY <1>3
<1>9. \A p \in 0 .. Len(log) : \A q \in p .. Len(log) : p = q
  BY <1>3
<1>10. TotalsOK
  BY <1>6, <1>7, <1>8, <1>9 DEF TotalsOK
<1> QED BY <1>1, <1>10 DEF CountingInv

(* When the loop of a replay before the indexer starts ends                 *)
(* (cmd/indexer-replay/main.go:60-77), every deposit, withdrawal and change *)
(* of the open interest on record counts once: the tables are the           *)
(* contracts' own after the last event on record, if nothing was lost, no   *)
(* row was passed over, no event has two rows and the hashes are in order.  *)
(* The shares are those of holders who never transferred, burnt or were     *)
(* given any: decode.go:320 and 355-356 leave that out of the projection.   *)
THEOREM ReplayCounts ==
  ASSUME Mode = "boot"
  PROVE  ReplaySpec => []ReplayCountsOnce
<1>1. ReplayInit => CountingInv
  BY InitCounting
<1>2. BootInv /\ BootInv' /\ CountingInv /\ [ReplayNext]_allVars => CountingInv'
  BY CountingKept
<1>3. BootInv /\ CountingInv => ReplayCountsOnce
  <2> SUFFICES ASSUME BootInv, CountingInv, replay = "applying", rows = {}, Sound, RecordedOnce,
                      NEW n \in {0} \cup Audited, \A p \in Audited : p <= n, NEW k \in Key
               PROVE  /\ Unmoved(k) => db.vault[k].shares = totals[n].shares[k]
                      /\ db.oi[k] = totals[n].oi[k]
    BY DEF ReplayCountsOnce, Sound
  <2>1. FullInv /\ LogTx(log) /\ TotalsOK /\ Counting
    BY DEF BootInv, ReplayInv, CountingInv
  <2>2. Unmoved(k) <=> Still(log, k)
    BY DEF Unmoved, Still
  <2> QED BY <2>1, <2>2, CountingEnds
<1> QED BY <1>1, <1>2, <1>3, BootInvariant, PTL DEF ReplaySpec
=============================================================================
