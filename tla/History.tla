------------------------------- MODULE History ------------------------------
(***************************************************************************)
(* GET /trading-history of cmd/api: a client walks the trade_history rows  *)
(* of a trader page by page, newest first, while the indexer appends rows  *)
(* and indexer-replay may truncate and rebuild the table.  A page asks for *)
(* one row more than its limit to know whether there are more; the cursor  *)
(* is the closing time of its last row, cut to the second.                 *)
(***************************************************************************)
EXTENDS Integers, FiniteSets, FiniteSetsExt

CONSTANTS
  MaxRows,     \* bound on the trader's rows
  limit,       \* rows of a page
  Second,      \* units of closed_at in a second
  MaxTime,     \* bound on closed_at
  MaxReplays,  \* bound on replays
  MaxFaults    \* bound on results cut short

ASSUME HistoryAssumption ==
  /\ MaxRows \in Nat
  /\ limit \in Nat \ {0} /\ Second \in Nat \ {0} /\ MaxTime \in Nat
  /\ MaxReplays \in Nat /\ MaxFaults \in Nat

VARIABLES
  closedAt,  \* closed_at of every row that was ever written, NotYet before
  table,     \* the rows of trade_history
  replays,   \* bound
  faults,    \* bound
  state,     \* the walk: "idle", "more" (has_more), "done"
  cursor,    \* next_cursor
  page,      \* the rows of the last page
  listed,    \* the rows of the pages before it
  cursors,   \* ghost: the cursors of the walk
  present,   \* ghost: the rows in the table when it started
  disturbed  \* ghost: it met a replay or a result cut short

walkVars == <<state, cursor, page, listed, cursors, present, disturbed>>
vars == <<closedAt, table, replays, faults, walkVars>>

Row == 1 .. MaxRows
NotYet == -1
Written == {r \in Row : closedAt[r] # NotYet}
Closings == {closedAt[r] : r \in Written}

-----------------------------------------------------------------------------
(* closeTrade of the indexer: ledgers are applied in order, and the closing *)
(* time of a row is its ledger's.                                           *)
CloseTrade(r, at) ==
  /\ closedAt[r] = NotYet /\ \A q \in Row : q < r => q \in Written
  /\ \A t \in Closings : t <= at
  /\ closedAt' = [closedAt EXCEPT ![r] = at]
  /\ table' = table \cup {r}
  /\ UNCHANGED <<replays, faults, walkVars>>

(* indexer-replay truncates the table, and writes the same rows again,      *)
(* oldest first; at night the indexer goes on meanwhile.                    *)
Truncate ==
  /\ replays < MaxReplays /\ replays' = replays + 1
  /\ table # {} /\ table' = {}
  /\ disturbed' = TRUE
  /\ UNCHANGED <<closedAt, faults, state, cursor, page, listed, cursors, present>>

Reinsert(r) ==
  /\ r \in Written \ table
  /\ \A q \in Written \ table : closedAt[r] <= closedAt[q]
  /\ table' = table \cup {r}
  /\ disturbed' = TRUE
  /\ UNCHANGED <<closedAt, replays, faults, state, cursor, page, listed, cursors, present>>

-----------------------------------------------------------------------------
(* Mutant: the rows at the cursor are included.                             *)
Older_OrEqual(c) == {r \in table : closedAt[r] <= c}

(* closed_at < cursor                                                       *)
Older(c) == {r \in table : closedAt[r] < c}

Oldest(R) == {r \in R : \A q \in R : closedAt[r] <= closedAt[q]}

(* Mutant: the extra row is not asked for.                                  *)
Answers_NoExtra(rows) ==
  {R \in kSubset(Min({limit, Cardinality(rows)}), rows) :
     \A r \in R, q \in rows \ R : closedAt[r] >= closedAt[q]}

(* ORDER BY closed_at DESC LIMIT limit+1: in which order rows of the same   *)
(* time come is up to the database.                                         *)
Answers(rows) ==
  {R \in kSubset(Min({limit + 1, Cardinality(rows)}), rows) :
     \A r \in R, q \in rows \ R : closedAt[r] >= closedAt[q]}

(* The cursor through its format, which has no fraction of a second.        *)
InSeconds(at) == (at \div Second) * Second

(* The page made of an answer, without the extra row, which is an oldest.   *)
MorePages(R) ==
  \E extra \in Oldest(R) : \E last \in Oldest(R \ {extra}) :
    /\ page' = R \ {extra}
    /\ cursor' = InSeconds(closedAt[last])
    /\ cursors' = cursors \cup {cursor'}
    /\ state' = "more"

LastPage(R) == page' = R /\ state' = "done" /\ UNCHANGED <<cursor, cursors>>

Show(R) == IF Cardinality(R) > limit THEN MorePages(R) ELSE LastPage(R)

(* rows.Err is not looked at: an answer cut short is a page like any other. *)
Cut(R) ==
  \/ Show(R) /\ disturbed' = (disturbed /\ state = "more") /\ UNCHANGED faults
  \/ /\ faults < MaxFaults /\ faults' = faults + 1
     /\ \E S \in SUBSET R :
          /\ S # R /\ \A r \in S, q \in R \ S : closedAt[r] >= closedAt[q]
          /\ Show(S)
     /\ disturbed' = TRUE

FirstPage ==
  /\ state = "idle"
  /\ present' = table /\ listed' = {}
  /\ \E R \in Answers(table) : Cut(R)
  /\ UNCHANGED <<closedAt, table, replays>>

NextPage ==
  /\ state = "more"
  /\ listed' = listed \cup page
  /\ \E R \in Answers(Older(cursor)) : Cut(R)
  /\ UNCHANGED <<closedAt, table, replays, present>>

-----------------------------------------------------------------------------
Init ==
  /\ closedAt = [r \in Row |-> NotYet] /\ table = {} /\ replays = 0 /\ faults = 0
  /\ state = "idle" /\ cursor = 0 /\ page = {} /\ listed = {} /\ cursors = {}
  /\ present = {} /\ disturbed = FALSE

Next ==
  \/ \E r \in Row : Reinsert(r) \/ \E at \in 0 .. MaxTime : CloseTrade(r, at)
  \/ Truncate \/ FirstPage \/ NextPage

Spec == Init /\ [][Next]_vars

(* The client goes on while there is more.                                  *)
FairSpec == Spec /\ WF_vars(NextPage)

-----------------------------------------------------------------------------
(* Every row of a page is older than all rows of the pages before it, so    *)
(* that no row is listed twice, although rows come in, a replay takes them  *)
(* away and writes them again, and answers are cut short during the walk.   *)
PagesDescend ==
  /\ page \cup listed \subseteq Written
  /\ \A r \in page, q \in listed : closedAt[r] < closedAt[q]

(* A walk that met no replay and no answer cut short lists every row that   *)
(* was there when it started, except rows of a second a page ended in:      *)
(* those the strict comparison with the cursor skips.                       *)
SkippedAreTies ==
  state = "done" /\ ~disturbed =>
    \A r \in present \ (listed \cup page) : InSeconds(closedAt[r]) \in cursors

(* Every walk ends, however many rows are added meanwhile.                  *)
WalkEnds == state = "more" ~> state = "done"
=============================================================================
