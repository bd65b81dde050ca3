---------------------------- MODULE HistoryProofs ---------------------------
(***************************************************************************)
(* PagesDescend and SkippedAreTies for every number of rows, every page    *)
(* limit and every resolution of the closing times, with replays and       *)
(* answers cut short.                                                      *)
(***************************************************************************)
EXTENDS History, FiniteSetTheorems, TLAPS

(* The cursor is at or below every row listed so far, and the next page is  *)
(* strictly below the cursor.                                               *)
HistoryInv ==
  /\ closedAt \in [Row -> Int]
  /\ \A r \in Written : closedAt[r] \in Nat
  /\ table \subseteq Written /\ page \subseteq Written /\ listed \subseteq Written
  /\ cursor \in Int
  /\ state = "idle" => page = {} /\ listed = {}
  /\ state = "more" => \A r \in page \cup listed : cursor <= closedAt[r]
  /\ \A r \in page, q \in listed : closedAt[r] < closedAt[q]

(* Cutting a time to the second does not make it later.                     *)
LEMMA InSecondsBelow ==
  ASSUME NEW at \in Nat
  PROVE  InSeconds(at) \in Int /\ InSeconds(at) <= at
<1>1. Second \in Nat /\ Second > 0
  BY HistoryAssumption
<1>2. at \div Second \in Int /\ (at \div Second) * Second <= at
  BY <1>1
<1> QED
  BY <1>1, <1>2 DEF InSeconds

(* A page shown of rows R consists of rows of R, and its cursor is at or    *)
(* below them.                                                              *)
LEMMA ShownPage ==
  ASSUME HistoryInv, NEW R \in SUBSET Written, Show(R)
  PROVE  /\ page' \subseteq R
         /\ cursor' \in Int
         /\ state' \in {"more", "done"}
         /\ state' = "more" => page' # {} /\ \A r \in page' : cursor' <= closedAt[r]
<1>1. CASE MorePages(R)
  <2>1. PICK extra \in Oldest(R) : \E last \in Oldest(R \ {extra}) :
          /\ page' = R \ {extra}
          /\ cursor' = InSeconds(closedAt[last])
          /\ state' = "more"
    BY <1>1 DEF MorePages
  <2>2. PICK last \in Oldest(R \ {extra}) :
          /\ page' = R \ {extra}
          /\ cursor' = InSeconds(closedAt[last])
          /\ state' = "more"
    BY <2>1
  <2>3. last \in R /\ \A q \in page' : closedAt[last] <= closedAt[q]
    BY <2>2 DEF Oldest
  <2>4. closedAt[last] \in Nat
    BY <2>3 DEF HistoryInv
  <2>5. cursor' \in Int /\ cursor' <= closedAt[last]
    BY <2>2, <2>4, InSecondsBelow
  <2>6. ASSUME NEW q \in page' PROVE cursor' <= closedAt[q]
    <3>1. closedAt[q] \in Nat
      BY <2>2, <2>6 DEF HistoryInv
    <3> QED
      BY <3>1, <2>3, <2>4, <2>5, <2>6
  <2>7. last \in page'
    BY <2>2 DEF Oldest
  <2> QED
    BY <2>2, <2>5, <2>6, <2>7
<1>2. CASE LastPage(R)
  BY <1>2 DEF LastPage, HistoryInv
<1> QED
  BY <1>1, <1>2 DEF Show

(* The same of an answer that may be cut short.                             *)
LEMMA CutPage ==
  ASSUME HistoryInv, NEW R \in SUBSET Written, Cut(R)
  PROVE  /\ page' \subseteq R
         /\ cursor' \in Int
         /\ state' \in {"more", "done"}
         /\ state' = "more" => page' # {} /\ \A r \in page' : cursor' <= closedAt[r]
<1>1. CASE Show(R)
  BY <1>1, ShownPage
<1>2. CASE \E S \in SUBSET R : Show(S)
  BY <1>2, ShownPage
<1> QED
  BY <1>1, <1>2 DEF Cut

(* An answer is made of the rows asked for.                                 *)
LEMMA AnswerRows ==
  ASSUME NEW rows, NEW R \in Answers(rows)
  PROVE  R \in SUBSET rows
  BY DEF Answers, kSubset

(* The invariant holds at the start.                                        *)
LEMMA HistoryInit == Init => HistoryInv
  BY DEF Init, HistoryInv, Written, NotYet

(* A step that leaves closing times, pages and cursor alone.                *)
LEMMA TableStep ==
  ASSUME HistoryInv, table' \subseteq Written, UNCHANGED closedAt,
         UNCHANGED <<state, cursor, page, listed>>
  PROVE  HistoryInv'
  BY DEF HistoryInv, Written

(* The indexer's step: a new row changes no closing time that is known.     *)
LEMMA CloseTradeStep ==
  ASSUME HistoryInv, NEW r \in Row, NEW at \in 0 .. MaxTime, CloseTrade(r, at)
  PROVE  HistoryInv'
<1>1. /\ closedAt' = [closedAt EXCEPT ![r] = at] /\ closedAt[r] = NotYet
      /\ table' = table \cup {r}
      /\ state' = state /\ cursor' = cursor /\ page' = page /\ listed' = listed
  BY DEF CloseTrade, walkVars
<1>2. at \in Nat /\ at # NotYet
  BY HistoryAssumption DEF NotYet
<1>3. closedAt' \in [Row -> Int]
  BY <1>1, <1>2 DEF HistoryInv
<1>4. \A q \in Row : q # r => closedAt'[q] = closedAt[q]
  BY <1>1 DEF HistoryInv
<1>5. closedAt'[r] = at
  BY <1>1 DEF HistoryInv
<1>6. r \notin Written
  BY <1>1 DEF Written
<1>7. Written' = Written \cup {r}
  BY <1>2, <1>4, <1>5 DEF Written
<1>8. \A q \in Written : q \in Row /\ closedAt'[q] = closedAt[q]
  BY <1>4, <1>6 DEF Written
<1>9. \A q \in Written' : closedAt'[q] \in Nat
  BY <1>2, <1>5, <1>7, <1>8 DEF HistoryInv
<1>10. page \subseteq Written /\ listed \subseteq Written /\ table \subseteq Written
  BY DEF HistoryInv
<1>11. state' = "more" => \A q \in page' \cup listed' : cursor' <= closedAt'[q]
  BY <1>1, <1>8, <1>10 DEF HistoryInv
<1>12. \A p \in page', q \in listed' : closedAt'[p] < closedAt'[q]
  BY <1>1, <1>8, <1>10 DEF HistoryInv
<1>13. state' = "idle" => page' = {} /\ listed' = {}
  BY <1>1 DEF HistoryInv
<1>14. cursor' \in Int
  BY <1>1 DEF HistoryInv
<1>15. table' \subseteq Written' /\ page' \subseteq Written' /\ listed' \subseteq Written'
  BY <1>1, <1>7, <1>10
<1> QED
  BY <1>3, <1>9, <1>11, <1>12, <1>13, <1>14, <1>15 DEF HistoryInv

(* A request: the first page follows nothing, a later one is below the      *)
(* cursor, and the cursor below everything before it.                       *)
LEMMA FirstPageStep ==
  ASSUME HistoryInv, FirstPage
  PROVE  HistoryInv'
<1>1. PICK R \in Answers(table) : Cut(R)
  BY DEF FirstPage
<1>2. R \in SUBSET table
  BY <1>1, AnswerRows
<1>3. R \in SUBSET Written
  BY <1>2 DEF HistoryInv
<1>4. /\ page' \subseteq R
      /\ cursor' \in Int
      /\ state' \in {"more", "done"}
      /\ state' = "more" => page' # {} /\ \A r \in page' : cursor' <= closedAt[r]
  BY <1>1, <1>3, CutPage
<1>5. listed' = {} /\ closedAt' = closedAt /\ table' = table
  BY DEF FirstPage
<1>6. Written' = Written
  BY <1>5 DEF Written
<1> QED
  BY <1>3, <1>4, <1>5, <1>6 DEF HistoryInv

LEMMA NextPageStep ==
  ASSUME HistoryInv, NextPage
  PROVE  HistoryInv'
<1>1. PICK R \in Answers(Older(cursor)) : Cut(R)
  BY DEF NextPage
<1>2. R \in SUBSET Older(cursor)
  BY <1>1, AnswerRows
<1>3. R \in SUBSET Written /\ \A r \in R : closedAt[r] < cursor
  BY <1>2 DEF HistoryInv, Older
<1>4. /\ page' \subseteq R
      /\ cursor' \in Int
      /\ state' \in {"more", "done"}
      /\ state' = "more" => page' # {} /\ \A r \in page' : cursor' <= closedAt[r]
  BY <1>1, <1>3, CutPage
<1>5. /\ listed' = listed \cup page /\ closedAt' = closedAt /\ table' = table
      /\ state = "more"
  BY DEF NextPage
<1>6. Written' = Written
  BY <1>5 DEF Written
<1>7. \A q \in listed' : q \in Written /\ closedAt[q] \in Nat /\ cursor <= closedAt[q]
  BY <1>5 DEF HistoryInv
<1>8. cursor \in Int /\ \A r \in page' : closedAt[r] \in Nat /\ closedAt[r] < cursor
  BY <1>3, <1>4 DEF HistoryInv
<1>9. \A r \in page', q \in listed' : closedAt'[r] < closedAt'[q]
  BY <1>5, <1>7, <1>8
<1>10. ASSUME state' = "more", NEW r \in page' \cup listed'
       PROVE  cursor' <= closedAt'[r]
  <2>1. CASE r \in page'
    BY <1>4, <1>5, <1>10, <2>1
  <2>2. CASE r \in listed'
    <3>1. PICK p \in page' : TRUE
      BY <1>4, <1>10
    <3>2. cursor' <= closedAt[p] /\ closedAt[p] < cursor /\ closedAt[p] \in Nat
      BY <1>4, <1>8, <1>10, <3>1
    <3> QED
      BY <1>4, <1>5, <1>7, <1>8, <2>2, <3>2
  <2> QED
    BY <1>10, <2>1, <2>2
<1>11. page' \subseteq Written' /\ listed' \subseteq Written' /\ table' \subseteq Written'
  BY <1>3, <1>4, <1>5, <1>6, <1>7 DEF HistoryInv
<1> QED
  BY <1>4, <1>5, <1>6, <1>9, <1>10, <1>11 DEF HistoryInv

(* Every step preserves the invariant.                                      *)
LEMMA HistoryStep ==
  ASSUME HistoryInv, [Next]_vars
  PROVE  HistoryInv'
<1>1. ASSUME NEW r \in Row, Reinsert(r) PROVE HistoryInv'
  <2>1. /\ table' \subseteq Written
        /\ closedAt' = closedAt /\ UNCHANGED <<state, cursor, page, listed>>
    BY <1>1 DEF Reinsert, HistoryInv
  <2> QED
    BY <2>1, TableStep
<1>2. ASSUME NEW r \in Row, NEW at \in 0 .. MaxTime, CloseTrade(r, at) PROVE HistoryInv'
  BY <1>2, CloseTradeStep
<1>3. CASE Truncate
  <2>1. /\ table' \subseteq Written
        /\ closedAt' = closedAt /\ UNCHANGED <<state, cursor, page, listed>>
    BY <1>3 DEF Truncate
  <2> QED
    BY <2>1, TableStep
<1>4. CASE FirstPage
  BY <1>4, FirstPageStep
<1>5. CASE NextPage
  BY <1>5, NextPageStep
<1>6. CASE UNCHANGED vars
  <2>1. /\ table' \subseteq Written
        /\ closedAt' = closedAt /\ UNCHANGED <<state, cursor, page, listed>>
    BY <1>6 DEF vars, walkVars, HistoryInv
  <2> QED
    BY <2>1, TableStep
<1> QED
  BY <1>1, <1>2, <1>3, <1>4, <1>5, <1>6 DEF Next

(* No walk through a trader's history lists a row twice or out of order,    *)
(* whatever is closed, replayed or cut short between its requests.          *)
THEOREM HistoryDescends == Spec => []PagesDescend
<1>1. Init => HistoryInv
  BY HistoryInit
<1>2. ASSUME HistoryInv, [Next]_vars
      PROVE  HistoryInv'
  BY <1>2, HistoryStep
<1>3. HistoryInv => PagesDescend
  BY DEF HistoryInv, PagesDescend
<1> QED
  BY <1>1, <1>2, <1>3, PTL DEF Spec

-----------------------------------------------------------------------------
(* In an undisturbed walk, a row that was there at the start and is not     *)
(* listed yet is either still below the cursor or in a second a page ended  *)
(* in; when the walk is done only the second case is left.                  *)
SkipInv ==
  ~disturbed =>
    /\ present \subseteq table
    /\ state \in {"idle", "more", "done"}
    /\ state = "idle" => present = {}
    /\ state = "more" => \A r \in present \ (listed \cup page) :
                           closedAt[r] < cursor \/ InSeconds(closedAt[r]) \in cursors
    /\ state = "done" => \A r \in present \ (listed \cup page) :
                           InSeconds(closedAt[r]) \in cursors

(* A time between the start of a second and a later time of it is cut to    *)
(* the same second.                                                         *)
LEMMA SameSecond ==
  ASSUME NEW a \in Nat, NEW b \in Nat, a <= b, InSeconds(b) <= a
  PROVE  InSeconds(a) = InSeconds(b)
<1>1. Second \in Nat /\ Second > 0
  BY HistoryAssumption
<1> DEFINE qa == a \div Second
           qb == b \div Second
<1>2. qa \in Int /\ qb \in Int
  BY <1>1
<1>3. qa * Second <= a /\ a < (qa + 1) * Second
  BY <1>1
<1>4. qb * Second <= b /\ b < (qb + 1) * Second
  BY <1>1
<1>5. qb * Second <= a
  BY DEF InSeconds
<1> HIDE DEF qa, qb
<1>6. qb * Second < (qa + 1) * Second /\ qa * Second < (qb + 1) * Second
  BY <1>1, <1>2, <1>3, <1>4, <1>5
<1>7. qb < qa + 1
  BY <1>1, <1>2, <1>6
<1>8. qa < qb + 1
  BY <1>1, <1>2, <1>6
<1>9. qa = qb
  BY <1>2, <1>7, <1>8
<1> QED
  BY <1>9 DEF InSeconds, qa, qb

(* The minimum of two numbers                                               *)
LEMMA MinOfTwo ==
  ASSUME NEW m \in Nat, NEW n \in Nat
  PROVE  Min({m, n}) \in {m, n} /\ Min({m, n}) <= m /\ Min({m, n}) <= n
<1>1. \E x \in {m, n} : \A y \in {m, n} : x <= y
  OBVIOUS
<1> QED
  BY <1>1 DEF Min

(* An answer no longer than a page is all that was asked for.               *)
LEMMA WholeAnswer ==
  ASSUME NEW rows, IsFiniteSet(rows), NEW R \in Answers(rows), Cardinality(R) <= limit
  PROVE  R = rows
<1>1. limit \in Nat /\ Cardinality(rows) \in Nat
  BY HistoryAssumption, FS_CardinalityType
<1>2. R \in SUBSET rows /\ Cardinality(R) = Min({limit + 1, Cardinality(rows)})
  BY DEF Answers, kSubset
<1>3. Cardinality(R) = Cardinality(rows)
  BY <1>1, <1>2, MinOfTwo
<1> QED
  BY <1>2, <1>3, FS_Subset

(* The rows an answer has and its page has not.                             *)
LEMMA ShowSkips ==
  ASSUME HistoryInv, NEW rows \in SUBSET table, IsFiniteSet(rows),
         NEW R \in Answers(rows), Show(R)
  PROVE  /\ cursors \subseteq cursors' /\ state' \in {"more", "done"}
         /\ \A r \in rows \ page' :
              /\ state' = "more"
              /\ closedAt[r] < cursor' \/ InSeconds(closedAt[r]) \in cursors'
<1>1. R \in SUBSET rows /\ \A r \in R, q \in rows \ R : closedAt[r] >= closedAt[q]
  BY DEF Answers, kSubset
<1>2. \A r \in rows : closedAt[r] \in Nat
  BY DEF HistoryInv
<1>3. CASE Cardinality(R) > limit
  <2>1. PICK extra \in Oldest(R) : \E last \in Oldest(R \ {extra}) :
          /\ page' = R \ {extra}
          /\ cursor' = InSeconds(closedAt[last])
          /\ cursors' = cursors \cup {cursor'}
          /\ state' = "more"
    BY <1>3 DEF Show, MorePages
  <2>2. PICK last \in Oldest(R \ {extra}) :
          /\ page' = R \ {extra}
          /\ cursor' = InSeconds(closedAt[last])
          /\ cursors' = cursors \cup {cursor'}
          /\ state' = "more"
    BY <2>1
  <2>3. last \in R /\ extra \in R /\ closedAt[extra] <= closedAt[last]
    BY <2>1, <2>2 DEF Oldest
  <2>4. ASSUME NEW r \in rows \ page'
        PROVE  closedAt[r] < cursor' \/ InSeconds(closedAt[r]) \in cursors'
    <3>1. closedAt[r] <= closedAt[last]
      <4>1. CASE r = extra
        BY <2>3, <4>1
      <4>2. CASE r \notin R
        BY <1>1, <1>2, <2>3, <2>4, <4>2
      <4> QED
        BY <2>2, <2>4, <4>1, <4>2
    <3>2. closedAt[r] \in Nat /\ closedAt[last] \in Nat
      BY <1>1, <1>2, <2>3, <2>4
    <3>3. InSeconds(closedAt[last]) \in Int
      BY <3>2, InSecondsBelow
    <3>4. CASE InSeconds(closedAt[last]) <= closedAt[r]
      <4>1. InSeconds(closedAt[r]) = InSeconds(closedAt[last])
        BY <3>1, <3>2, <3>4, SameSecond
      <4> QED
        BY <2>2, <4>1
    <3>5. CASE closedAt[r] < InSeconds(closedAt[last])
      BY <2>2, <3>5
    <3> QED
      BY <3>2, <3>3, <3>4, <3>5
  <2> QED
    BY <2>2, <2>4
<1>4. CASE ~(Cardinality(R) > limit)
  <2>1. page' = R /\ state' = "done" /\ cursors' = cursors
    BY <1>4 DEF Show, LastPage
  <2>2. Cardinality(R) \in Nat /\ limit \in Nat
    BY <1>1, HistoryAssumption, FS_Subset, FS_CardinalityType
  <2>3. R = rows
    BY <1>4, <2>2, WholeAnswer
  <2> QED
    BY <2>1, <2>3
<1> QED
  BY <1>3, <1>4

(* The rows of the table are finitely many.                                 *)
LEMMA FiniteTable ==
  ASSUME HistoryInv
  PROVE  /\ IsFiniteSet(table)
         /\ \A rows \in SUBSET table : IsFiniteSet(rows)
<1>1. IsFiniteSet(Row)
  BY HistoryAssumption, FS_Interval DEF Row
<1>2. table \subseteq Row
  BY DEF HistoryInv, Written
<1>3. IsFiniteSet(table)
  BY <1>1, <1>2, FS_Subset
<1> QED
  BY <1>3, FS_Subset

(* A request of an undisturbed walk.                                        *)
LEMMA RequestSkips ==
  ASSUME HistoryInv, SkipInv, FirstPage \/ NextPage
  PROVE  SkipInv'
<1> SUFFICES ASSUME ~disturbed' PROVE SkipInv'
  BY DEF SkipInv
<1>1. CASE FirstPage
  <2>1. PICK R \in Answers(table) : Cut(R)
    BY <1>1 DEF FirstPage
  <2>2. Show(R)
    BY <2>1 DEF Cut
  <2>3. IsFiniteSet(table)
    BY FiniteTable
  <2>4. /\ cursors \subseteq cursors' /\ state' \in {"more", "done"}
        /\ \A r \in table \ page' :
             /\ state' = "more"
             /\ closedAt[r] < cursor' \/ InSeconds(closedAt[r]) \in cursors'
    BY <2>1, <2>2, <2>3, ShowSkips
  <2>5. present' = table /\ listed' = {} /\ closedAt' = closedAt /\ table' = table
    BY <1>1 DEF FirstPage
  <2> QED
    BY <2>4, <2>5 DEF SkipInv, InSeconds
<1>2. CASE NextPage
  <2>1. PICK R \in Answers(Older(cursor)) : Cut(R)
    BY <1>2 DEF NextPage
  <2>2. Show(R) /\ (disturbed' = (disturbed /\ state = "more"))
    BY <2>1 DEF Cut
  <2>3. state = "more" /\ ~disturbed
    BY <1>2, <2>2 DEF NextPage
  <2>4. Older(cursor) \in SUBSET table /\ IsFiniteSet(Older(cursor))
    BY FiniteTable DEF Older
  <2>5. /\ cursors \subseteq cursors' /\ state' \in {"more", "done"}
        /\ \A r \in Older(cursor) \ page' :
             /\ state' = "more"
             /\ closedAt[r] < cursor' \/ InSeconds(closedAt[r]) \in cursors'
    BY <2>1, <2>2, <2>4, ShowSkips
  <2>6. /\ present' = present /\ listed' = listed \cup page
        /\ closedAt' = closedAt /\ table' = table
    BY <1>2 DEF NextPage
  <2>7. ASSUME NEW r \in present' \ (listed' \cup page')
        PROVE  \/ InSeconds(closedAt[r]) \in cursors'
               \/ state' = "more" /\ closedAt[r] < cursor'
    <3>1. r \in present \ (listed \cup page) /\ r \in table /\ r \notin page'
      BY <2>3, <2>6, <2>7 DEF SkipInv
    <3>2. closedAt[r] < cursor \/ InSeconds(closedAt[r]) \in cursors
      BY <2>3, <3>1 DEF SkipInv
    <3>3. CASE closedAt[r] < cursor
      BY <2>5, <3>1, <3>3 DEF Older
    <3>4. CASE InSeconds(closedAt[r]) \in cursors
      BY <2>5, <3>4
    <3> QED
      BY <3>2, <3>3, <3>4
  <2>8. present' \subseteq table'
    BY <2>3, <2>6 DEF SkipInv
  <2> QED
    BY <2>5, <2>6, <2>7, <2>8 DEF SkipInv, InSeconds
<1> QED
  BY <1>1, <1>2

(* A new row is not one of those present at the start.                      *)
LEMMA CloseTradeSkips ==
  ASSUME HistoryInv, SkipInv, NEW r \in Row, NEW at \in 0 .. MaxTime, CloseTrade(r, at)
  PROVE  SkipInv'
<1> SUFFICES ASSUME ~disturbed' PROVE SkipInv'
  BY DEF SkipInv
<1>1. /\ closedAt' = [closedAt EXCEPT ![r] = at] /\ closedAt[r] = NotYet
      /\ table' = table \cup {r}
      /\ state' = state /\ cursor' = cursor /\ page' = page /\ listed' = listed
      /\ cursors' = cursors /\ present' = present /\ disturbed' = disturbed
  BY DEF CloseTrade, walkVars
<1>2. present \subseteq table /\ table \subseteq Written
  BY <1>1 DEF SkipInv, HistoryInv
<1>3. \A q \in present : closedAt'[q] = closedAt[q]
  BY <1>1, <1>2 DEF Written, HistoryInv
<1>4. \A q \in present' \ (listed' \cup page') :
        q \in present \ (listed \cup page) /\ closedAt'[q] = closedAt[q]
  BY <1>1, <1>3
<1> QED
  BY <1>1, <1>2, <1>4 DEF SkipInv, InSeconds

(* A walk without a replay and without a cut answer skips only rows of a    *)
(* second one of its pages ended in.                                        *)
THEOREM HistorySkipsTies == Spec => []SkippedAreTies
<1>1. Init => HistoryInv /\ SkipInv
  BY HistoryInit DEF Init, SkipInv
<1>2. ASSUME HistoryInv, SkipInv, [Next]_vars
      PROVE  HistoryInv' /\ SkipInv'
  <2>0. HistoryInv'
    BY <1>2, HistoryStep
  <2>1. ASSUME NEW r \in Row, Reinsert(r) PROVE SkipInv'
    BY <2>1 DEF Reinsert, SkipInv
  <2>2. ASSUME NEW r \in Row, NEW at \in 0 .. MaxTime, CloseTrade(r, at) PROVE SkipInv'
    BY <1>2, <2>2, CloseTradeSkips
  <2>3. CASE Truncate
    <3>1. disturbed' = TRUE
      BY <2>3 DEF Truncate
    <3> QED
      BY <2>0, <3>1 DEF SkipInv
  <2>4. CASE FirstPage \/ NextPage
    BY <1>2, <2>0, <2>4, RequestSkips
  <2>5. CASE UNCHANGED vars
    <3>1. /\ closedAt' = closedAt /\ table' = table /\ state' = state /\ cursor' = cursor
          /\ page' = page /\ listed' = listed /\ cursors' = cursors
          /\ present' = present /\ disturbed' = disturbed
      BY <2>5 DEF vars, walkVars
    <3> QED
      BY <1>2, <2>0, <3>1 DEF SkipInv, InSeconds
  <2> QED
    BY <1>2, <2>0, <2>1, <2>2, <2>3, <2>4, <2>5 DEF Next
<1>3. SkipInv => SkippedAreTies
  BY DEF SkipInv, SkippedAreTies
<1> QED
  BY <1>1, <1>2, <1>3, PTL DEF Spec
=============================================================================
