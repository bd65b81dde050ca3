--------------------------- MODULE ConsumerProofs ---------------------------
(***************************************************************************)
(* The copies of the open trades and orders in the API and in the keeper   *)
(* converge to the contracts' state, for every value of the constants.     *)
(***************************************************************************)
EXTENDS Consumer, TablesProofs

(* The events that nobody ever hears of, and those a subscriber will.       *)
Noise(p) == log[p].topic = "undecodable"
ToPublish(p) == Coming(p) \/ (pc = "fanout" /\ p = next)

(* What a copy that has seen the log up to n is going to be told: messages  *)
(* that leave out nothing but noise, each going on after the one before or  *)
(* going back, and after the last of them everything that is not yet sent.  *)
Told(n, box, i) == IF i = 0 THEN n ELSE box[i]
Stream(n) ==
  /\ \A i \in 1 .. Len(inbox), p \in 1 .. Len(log) :
       Told(n, inbox, i - 1) < p /\ p < inbox[i] => Noise(p)
  /\ \A p \in 1 .. Len(log) : p > Told(n, inbox, Len(inbox)) => Noise(p) \/ ToPublish(p)

TK(lg) == [k \in Key |-> TKinds(lg, k)]
LK(lg) == [k \in Key |-> LKinds(lg, k)]
TradeSlots(t) == [k \in Key |-> TradeView(t[k])]
LimitSlots(t) == [k \in Key |-> LimitView(t[k])]

(* The slots are those of a table that has seen n of the log, and has once  *)
(* seen m: the messages on their way will make them right.                  *)
Follows(kinds, rows, slots) ==
  \E m \in 0 .. Len(log) : \E n \in 0 .. m :
    Stream(n) /\ \A k \in Key : Good(kinds[k], rows, n, m, slots[k])

(* The inductive invariant.  The trades and the orders were loaded at       *)
(* different moments: each follows the log from where it was then.  The     *)
(* rows s behind the copy are those of a complete load, t, but for the      *)
(* slots that were not read.                                                *)
Agree(gone, s, t) == \A k \in Key \ gone : s[k] = t[k]
TradesFollow == \E s, t \in TradeTable :
  /\ view.trades = TradesOf(s) /\ Agree(unread.trades, s, t)
  /\ Follows(TK(log), TradeRows(log), TradeSlots(t))
LimitsFollow == \E s, t \in LimitTable :
  /\ view.limits = LimitsOf(s) /\ Agree(unread.limits, s, t)
  /\ Follows(LK(log), LimitRows(log), LimitSlots(t))

Copied ==
  /\ view = [trades |-> view.trades, limits |-> view.limits]
  /\ inbox \in Seq(1 .. Len(log))
  /\ phase \in {"limits", "loaded", "live"} => TradesFollow
  /\ phase \in {"loaded", "live"} => LimitsFollow

CopyInv ==
  /\ role \in {"api", "keeper"} /\ phase \in {"down", "limits", "loaded", "live"}
  /\ phase # "live" => inbox = <<>>
  /\ unread = [trades |-> unread.trades, limits |-> unread.limits]
  /\ Intact /\ missed = {} => Copied
-----------------------------------------------------------------------------
(* A slot of a copy under one message.  TradeCache leaves a slot alone that *)
(* is opened again; TradeState overwrites it.                               *)
Row(nw) == [on |-> TRUE, tx |-> nw.tx, fix |-> nw.fix, var |-> nw.var]
CopyStep(api, kd, nw, r) ==
  IF kd = "open" /\ r.on THEN (IF api THEN r ELSE Row(nw)) ELSE Step(kd, nw, r)

(* An open delivered again, to a copy that holds the slot.                  *)
LEMMA ReopenGood ==
  ASSUME NEW kind, NEW new, NEW n \in Nat, NEW m \in Nat, n + 1 <= m, NEW r, NEW s,
         Alternates(kind, m), Good(kind, new, n, m, r), kind[n + 1] = "open", r.on,
         s = r \/ s = Row(new[n + 1])
  PROVE  Good(kind, new, n + 1, m, s)
<1>1. ASSUME NEW l, Last(kind, n, m, l), l # n + 1
      PROVE  Last(kind, n + 1, m, l)
  BY <1>1 DEF Last
<1>2. ~Idle(kind, n, m)
  BY DEF Idle, Turn
<1>3. CASE \E l : Last(kind, n, m, l) /\ kind[l] = "close"
  BY <1>1, <1>3 DEF Good
<1>4. CASE \E l : /\ Last(kind, n, m, l) /\ kind[l] = "open"
                  /\ \/ ~r.on \/ Own(kind, new, l, m, r)
                     \/ \E c \in n + 1 .. l - 1 : kind[c] = "close"
  <2>1. PICK l : /\ Last(kind, n, m, l) /\ kind[l] = "open"
                 /\ \/ ~r.on \/ Own(kind, new, l, m, r)
                    \/ \E c \in n + 1 .. l - 1 : kind[c] = "close"
    BY <1>4
  <2>2. l \in n + 1 .. m /\ Idle(kind, l, m)
    BY <2>1 DEF Last
  <2>3. CASE l = n + 1
    <3>1. Own(kind, new, n + 1, m, r)
      BY <2>1, <2>3
    <3>2. s.on /\ Own(kind, new, n + 1, m, s)
      BY <3>1 DEF Own, Row
    <3>3. Last(kind, 0, n + 1, n + 1)
      BY DEF Last, Idle, Turn
    <3>4. \/ \E p \in (n + 1) + 1 .. m : kind[p] = "update"
          \/ /\ n + 1 \in n + 1 .. m /\ s.var = new[n + 1].var
             /\ \A p \in (n + 1) + 1 .. m : kind[p] # "update"
      BY <3>2 DEF Own
    <3>5. Near(kind, new, n + 1, m, s)
      BY <3>2, <3>3, <3>4 DEF Near, Own
    <3> QED BY <2>2, <2>3, <3>5 DEF Good
  <2>4. CASE l # n + 1
    <3>1. l \in 1 .. m /\ n + 1 \in 1 .. l - 1
      BY <2>2, <2>4
    <3>2. \E c \in (n + 1) + 1 .. l - 1 : kind[c] = "close"
      BY <2>1, <3>1 DEF Alternates
    <3> QED BY <1>1, <2>1, <2>4, <3>2 DEF Good
  <2> QED BY <2>3, <2>4
<1> QED BY <1>2, <1>3, <1>4 DEF Good

(* A message takes effect on a slot, the first time or again: the copy goes *)
(* back to the place before the message, or on over what does not concern   *)
(* the slot, and applies it.                                                *)
LEMMA MessageGood ==
  ASSUME NEW kind, NEW new, NEW len \in Nat, NEW m \in 0 .. len, NEW n \in 0 .. m,
         NEW q \in 1 .. len, NEW r, NEW api, Alternates(kind, len), Good(kind, new, n, m, r),
         \A p \in n + 1 .. q - 1 : kind[p] = "other",
         NEW j \in Nat, j = IF q <= m THEN m ELSE q
  PROVE  Good(kind, new, q, j, CopyStep(api, kind[q], new[q], r))
<1> DEFINE i == q - 1
           s == CopyStep(api, kind[q], new[q], r)
<1>0. i \in Nat /\ i + 1 = q /\ m \in Nat /\ n \in Nat
  OBVIOUS
<1>1. \A h \in 0 .. len : Alternates(kind, h)
  BY DEF Alternates
<1> HIDE DEF i, s
<1>2. CASE q <= m
  <2>1. Good(kind, new, i, m, r)
    <3>1. CASE n <= i
      BY <1>0, <1>2, <3>1, SkipGood
    <3>2. CASE ~(n <= i)
      <4>1. i \in 0 .. n
        BY <1>0, <3>2
      <4> QED BY <1>0, <4>1, RestartGood
    <3> QED BY <3>1, <3>2
  <2>2. Alternates(kind, m) /\ i + 1 <= m
    BY <1>0, <1>1, <1>2
  <2>3. CASE kind[q] = "open" /\ r.on
    <3>1. s = r \/ s = Row(new[i + 1])
      BY <1>0, <2>3 DEF s, CopyStep
    <3>2. Good(kind, new, i + 1, m, s)
      BY <1>0, <2>1, <2>2, <2>3, <3>1, ReopenGood
    <3> QED BY <1>0, <1>2, <3>2 DEF s
  <2>4. CASE ~(kind[q] = "open" /\ r.on)
    <3>1. s = Run(kind, new, r, i + 1)
      BY <1>0, <2>4 DEF s, CopyStep, Run
    <3>2. Good(kind, new, i + 1, m, s)
      BY <1>0, <2>1, <2>2, <3>1, RedeliverGood
    <3> QED BY <1>0, <1>2, <3>2 DEF s
  <2> QED BY <2>3, <2>4
<1>3. CASE ~(q <= m)
  <2>1. Good(kind, new, i, i, r)
    <3>1. n <= i /\ i = IF i <= m THEN m ELSE i
      BY <1>0, <1>3
    <3> QED BY <1>0, <3>1, SkipGood
  <2>2. Alternates(kind, i + 1)
    BY <1>0, <1>1
  <2>3. kind[i + 1] = "open" => ~r.on
    BY <1>0, <2>1, <2>2, EmptyBeforeOpen
  <2>4. s = Run(kind, new, r, i + 1)
    BY <1>0, <2>3 DEF s, CopyStep, Run
  <2>5. Good(kind, new, i + 1, i + 1, s)
    BY <1>0, <2>1, <2>3, <2>4, AdvanceGood
  <2> QED BY <1>0, <1>3, <2>5 DEF s
<1> QED BY <1>2, <1>3
-----------------------------------------------------------------------------
(* What a message does to the row behind a slot of the copy.                *)
CopyTrade(x, e) ==
  CASE e.topic = "opened" ->
         IF role = "api" /\ x # NoRow THEN x ELSE [terms |-> e.terms, tx |-> e.tx]
    [] e.topic = "updated_tp_sl" ->
         IF x = NoRow THEN x ELSE [x EXCEPT !.terms = WithTpSl(@, e.terms)]
    [] e.topic \in TradeCloses -> NoRow
    [] OTHER -> x

CopyLimit(x, e) ==
  CASE e.topic = "placed" ->
         IF role = "api" /\ x # NoRow THEN x
         ELSE [terms |-> e.terms, px |-> e.px, tx |-> e.tx]
    [] e.topic = "updated_limit" -> IF x = NoRow THEN x ELSE Repriced(x, e.terms, e.px)
    [] e.topic \in LimitCloses -> NoRow
    [] OTHER -> x

TradeCell(x) == IF x = NoRow THEN <<>> ELSE <<x.terms>>
LimitCell(x) == IF x = NoRow THEN <<>> ELSE LimitEntry(x.terms, x.px)

(* The row of a trade after a message, seen as a slot.                      *)
LEMMA CopyTradeView ==
  ASSUME NEW x, x = NoRow \/ x \in TradeRow, NEW e \in Event, NEW y, y = CopyTrade(x, e)
  PROVE  /\ y = NoRow \/ y \in TradeRow
         /\ TradeView(y) = CopyStep(role = "api", TKind(e, e.key), TradeOf(e), TradeView(x))
<1>1. TradeView(x).on <=> x # NoRow
  BY ViewOn
<1>2. CASE e.topic = "opened"
  <2>1. TKind(e, e.key) = "open"
    BY <1>2 DEF TKind
  <2>2. CASE x # NoRow /\ role = "api"
    BY <1>1, <1>2, <2>1, <2>2 DEF CopyTrade, CopyStep, TradeCloses
  <2>3. CASE ~(x # NoRow /\ role = "api")
    <3>1. y = [terms |-> e.terms, tx |-> e.tx]
      BY <1>2, <2>3 DEF CopyTrade, TradeCloses
    <3>2. y \in TradeRow
      BY <3>1, EventFields DEF TradeRow
    <3>3. y # NoRow
      BY <3>2, RowIsSome
    <3>4. TradeView(y) = Row(TradeOf(e))
      BY <3>1, <3>3 DEF TradeView, Row, TradeOf
    <3>5. Step("open", TradeOf(e), TradeView(x)) = Row(TradeOf(e)) \/ TradeView(x).on
      BY DEF Step, Row
    <3> QED BY <1>1, <2>1, <2>3, <3>2, <3>4, <3>5 DEF CopyStep
  <2> QED BY <2>2, <2>3
<1>3. CASE e.topic = "updated_tp_sl"
  <2>1. TKind(e, e.key) = "update"
    BY <1>3 DEF TKind
  <2>2. CASE x = NoRow
    <3>1. y = x
      BY <1>3, <2>2 DEF CopyTrade, TradeCloses
    <3>2. Step("update", TradeOf(e), TradeView(x)) = TradeView(x)
      BY <1>1, <2>2, EmptyView
    <3> QED BY <2>1, <2>2, <3>1, <3>2 DEF CopyStep
  <2>3. CASE x # NoRow
    <3>1. x \in TradeRow /\ y = [x EXCEPT !.terms = WithTpSl(@, e.terms)]
      BY <1>3, <2>3 DEF CopyTrade, TradeCloses
    <3>2. TradeView(y) = Step("update", TradeOf(e), TradeView(x))
      BY <3>1, UpdateTradeView
    <3>3. y \in TradeRow
      BY <3>1, WithTpSlType, EventFields DEF TradeRow
    <3> QED BY <2>1, <3>2, <3>3 DEF CopyStep
  <2> QED BY <2>2, <2>3
<1>4. CASE e.topic \in TradeCloses
  <2>1. TKind(e, e.key) = "close" /\ y = NoRow
    BY <1>4 DEF TKind, TradeCloses, CopyTrade
  <2> QED BY <2>1, EmptyView DEF CopyStep
<1>5. CASE e.topic \notin TradeCloses \cup {"opened", "updated_tp_sl"}
  <2>1. TKind(e, e.key) = "other" /\ y = x
    BY <1>5 DEF TKind, TradeCloses, CopyTrade
  <2> QED BY <2>1 DEF CopyStep, Step
<1> QED BY <1>2, <1>3, <1>4, <1>5

(* The row of an order after a message, seen as a slot.                     *)
LEMMA CopyLimitView ==
  ASSUME NEW x, x = NoRow \/ x \in LimitRow, NEW e \in Event, NEW y, y = CopyLimit(x, e)
  PROVE  /\ y = NoRow \/ y \in LimitRow
         /\ LimitView(y) = CopyStep(role = "api", LKind(e, e.key), LimitOf(e), LimitView(x))
<1>1. LimitView(x).on <=> x # NoRow
  BY ViewOn
<1>2. CASE e.topic = "placed"
  <2>1. LKind(e, e.key) = "open"
    BY <1>2 DEF LKind
  <2>2. CASE x # NoRow /\ role = "api"
    BY <1>1, <1>2, <2>1, <2>2 DEF CopyLimit, CopyStep, LimitCloses
  <2>3. CASE ~(x # NoRow /\ role = "api")
    <3>1. y = [terms |-> e.terms, px |-> e.px, tx |-> e.tx]
      BY <1>2, <2>3 DEF CopyLimit, LimitCloses
    <3>2. y \in LimitRow
      BY <3>1, EventFields DEF LimitRow
    <3>3. y # NoRow
      BY <3>2, RowIsSome
    <3>4. LimitView(y) = Row(LimitOf(e))
      BY <3>1, <3>3 DEF LimitView, Row, LimitOf
    <3>5. Step("open", LimitOf(e), LimitView(x)) = Row(LimitOf(e)) \/ LimitView(x).on
      BY DEF Step, Row
    <3> QED BY <1>1, <2>1, <2>3, <3>2, <3>4, <3>5 DEF CopyStep
  <2> QED BY <2>2, <2>3
<1>3. CASE e.topic = "updated_limit"
  <2>1. LKind(e, e.key) = "update"
    BY <1>3 DEF LKind
  <2>2. CASE x = NoRow
    <3>1. y = x
      BY <1>3, <2>2 DEF CopyLimit, LimitCloses
    <3>2. Step("update", LimitOf(e), LimitView(x)) = LimitView(x)
      BY <1>1, <2>2, EmptyView
    <3> QED BY <2>1, <2>2, <3>1, <3>2 DEF CopyStep
  <2>3. CASE x # NoRow
    <3>1. x \in LimitRow /\ y = Repriced(x, e.terms, e.px)
      BY <1>3, <2>3 DEF CopyLimit, LimitCloses
    <3>2. LimitView(y) = Step("update", LimitOf(e), LimitView(x))
      BY <3>1, UpdateLimitView
    <3>3. y \in LimitRow
      BY <3>1, RepricedType, EventFields
    <3> QED BY <2>1, <3>2, <3>3 DEF CopyStep
  <2> QED BY <2>2, <2>3
<1>4. CASE e.topic \in LimitCloses
  <2>1. LKind(e, e.key) = "close" /\ y = NoRow
    BY <1>4 DEF LKind, LimitCloses, CopyLimit
  <2> QED BY <2>1, EmptyView DEF CopyStep
<1>5. CASE e.topic \notin LimitCloses \cup {"placed", "updated_limit"}
  <2>1. LKind(e, e.key) = "other" /\ y = x
    BY <1>5 DEF LKind, LimitCloses, CopyLimit
  <2> QED BY <2>1 DEF CopyStep, Step
<1> QED BY <1>2, <1>3, <1>4, <1>5
(* The cell of one slot is set.                                             *)
LEMMA TradeCellSet ==
  ASSUME NEW t \in TradeTable, NEW k \in Key, NEW x, NEW c, c = TradeCell(x)
  PROVE  /\ TradesOf(t)[k] = TradeCell(t[k])
         /\ [TradesOf(t) EXCEPT ![k] = c] = TradesOf([t EXCEPT ![k] = x])
  BY DEF TradeTable, TradesOf, TradeCell, TradeEntry

(* So for an order.                                                         *)
LEMMA LimitCellSet ==
  ASSUME NEW t \in LimitTable, NEW k \in Key, NEW x, NEW c, c = LimitCell(x)
  PROVE  /\ LimitsOf(t)[k] = LimitCell(t[k])
         /\ [LimitsOf(t) EXCEPT ![k] = c] = LimitsOf([t EXCEPT ![k] = x])
  BY DEF LimitTable, LimitsOf, LimitCell

(* The list of a slot with one entry.                                       *)
LEMMA OneEntry ==
  ASSUME NEW a, NEW b
  PROVE  /\ <<a>> # <<>> /\ Head(<<a>>) = a /\ Tail(<<a>>) = <<>>
         /\ Append(<<>>, a) = <<a>> /\ WithHead(<<a>>, b) = <<b>>
  BY DEF WithHead

(* A trade's cell under a message, in either copy.                          *)
LEMMA TradeCells ==
  ASSUME NEW x, x = NoRow \/ x \in TradeRow, NEW e \in Event,
         NEW v, NEW a, NEW b, v = [trades |-> a, limits |-> b], DOMAIN a = Key,
         a = [k \in Key |-> a[k]],
         a[e.key] = TradeCell(x), e.topic = "updated_tp_sl" => e.full,
         e.topic \in TradeCloses \cup {"opened", "updated_tp_sl"}, role \in {"api", "keeper"}
  PROVE  ApplyTo(v, e) = [trades |-> [a EXCEPT ![e.key] = TradeCell(CopyTrade(x, e))], limits |-> b]
<1> DEFINE new == TradeCell(CopyTrade(x, e))
<1>0. /\ e.key \in Key /\ e.terms \in TermsType
      /\ \A z : [v EXCEPT !.trades[e.key] = z] = [trades |-> [a EXCEPT ![e.key] = z], limits |-> b]
      /\ v.trades = a /\ v.trades[e.key] = a[e.key]
  BY EventFields
<1>1. a[e.key] = <<>> <=> x = NoRow
  BY OneEntry DEF TradeCell
<1>s. x = NoRow => [trades |-> [a EXCEPT ![e.key] = <<>>], limits |-> b] = v
  BY <1>0, <1>1
<1>2. CASE e.topic = "opened"
  <2>1. role = "keeper" \/ x = NoRow => new = <<e.terms>>
    <3>1. [terms |-> e.terms, tx |-> e.tx] # NoRow
      BY DEF NoRow
    <3> QED BY <1>2, <3>1 DEF CopyTrade, TradeCell, TradeCloses
  <2>2. role = "api" /\ x # NoRow => new = a[e.key]
    BY <1>2 DEF CopyTrade, TradeCloses
  <2> HIDE DEF new
  <2>3. CASE role = "keeper"
    <3>1. ApplyTo(v, e) = [v EXCEPT !.trades[e.key] = <<e.terms>>]
      BY <1>2, <2>3 DEF ApplyTo, stateApply
    <3> QED BY <1>0, <2>1, <2>3, <3>1 DEF new
  <2>4. CASE role = "api" /\ x = NoRow
    <3>1. ApplyTo(v, e) = [v EXCEPT !.trades[e.key] = Append(@, e.terms)]
      BY <1>0, <1>1, <1>2, <2>4 DEF ApplyTo, applyEvent
    <3>2. ApplyTo(v, e) = [v EXCEPT !.trades[e.key] = <<e.terms>>]
      BY <1>0, <1>1, <2>4, <3>1, OneEntry
    <3> QED BY <1>0, <2>1, <2>4, <3>2 DEF new
  <2>5. CASE role = "api" /\ x # NoRow
    <3>1. ApplyTo(v, e) = v
      BY <1>0, <1>1, <1>2, <2>5 DEF ApplyTo, applyEvent
    <3>2. [a EXCEPT ![e.key] = a[e.key]] = a
      BY <1>0
    <3> QED BY <2>2, <2>5, <3>1, <3>2 DEF new
  <2> QED BY <2>3, <2>4, <2>5
<1>3. CASE e.topic \in TradeCloses
  <2>1. new = <<>>
    BY <1>3 DEF TradeCloses, CopyTrade, TradeCell
  <2>2. e.topic \in {"closed", "liq", "tp_sl_executed"} /\ e.topic # "opened"
    BY <1>3 DEF TradeCloses
  <2> HIDE DEF new
  <2>3. CASE role = "keeper"
    <3>1. ApplyTo(v, e) = [v EXCEPT !.trades[e.key] = <<>>]
      BY <2>2, <2>3 DEF ApplyTo, stateApply
    <3> QED BY <1>0, <2>1, <3>1 DEF new
  <2>4. CASE role = "api" /\ x = NoRow
    <3>1. ApplyTo(v, e) = v
      BY <1>0, <1>1, <2>2, <2>4 DEF ApplyTo, applyEvent
    <3> QED BY <1>s, <2>1, <2>4, <3>1 DEF new
  <2>5. CASE role = "api" /\ x # NoRow
    <3>1. ApplyTo(v, e) = [v EXCEPT !.trades[e.key] = Tail(@)]
      BY <1>0, <1>1, <2>2, <2>5 DEF ApplyTo, applyEvent
    <3>2. Tail(a[e.key]) = <<>>
      BY <2>5, OneEntry DEF TradeCell
    <3>3. ApplyTo(v, e) = [v EXCEPT !.trades[e.key] = <<>>]
      BY <1>0, <3>1, <3>2
    <3> QED BY <1>0, <2>1, <3>3 DEF new
  <2> QED BY <2>3, <2>4, <2>5
<1>4. CASE e.topic = "updated_tp_sl"
  <2>1. CASE x = NoRow
    <3>1. new = <<>>
      BY <1>4, <2>1 DEF CopyTrade, TradeCell, TradeCloses
    <3>2. ApplyTo(v, e) = v
      BY <1>0, <1>1, <1>4, <2>1 DEF ApplyTo, applyEvent, stateApply
    <3> QED BY <1>s, <2>1, <3>1, <3>2
  <2>2. CASE x # NoRow
    <3>0. x \in TradeRow /\ a[e.key] = <<x.terms>>
      BY <2>2 DEF TradeCell
    <3>1. CopyTrade(x, e) = [x EXCEPT !.terms = WithTpSl(@, e.terms)]
      BY <1>4, <2>2 DEF CopyTrade, TradeCloses
    <3>2. /\ [x EXCEPT !.terms = WithTpSl(@, e.terms)].terms = WithTpSl(x.terms, e.terms)
          /\ [x EXCEPT !.terms = WithTpSl(@, e.terms)] \in TradeRow
      BY <1>0, <3>0, WithTpSlType DEF TradeRow
    <3>3. new = <<WithTpSl(x.terms, e.terms)>>
      BY <3>1, <3>2, RowIsSome DEF TradeCell
    <3> HIDE DEF new
    <3>4. CASE role = "keeper"
      <4>1. ApplyTo(v, e) = [v EXCEPT !.trades[e.key] = <<WithTpSl(Head(@), e.terms)>>]
        BY <1>0, <1>1, <1>4, <2>2, <3>4 DEF ApplyTo, stateApply
      <4>2. ApplyTo(v, e) = [v EXCEPT !.trades[e.key] = <<WithTpSl(x.terms, e.terms)>>]
        BY <1>0, <3>0, <4>1, OneEntry
      <4> QED BY <1>0, <3>3, <4>2 DEF new
    <3>5. CASE role = "api"
      <4>1. ApplyTo(v, e) = [v EXCEPT !.trades[e.key] = WithHead(@, WithTpSl(Head(@), e.terms))]
        BY <1>0, <1>1, <1>4, <2>2, <3>5 DEF ApplyTo, applyEvent
      <4>2. WithHead(a[e.key], WithTpSl(Head(a[e.key]), e.terms)) = <<WithTpSl(x.terms, e.terms)>>
        BY <3>0, OneEntry
      <4>3. ApplyTo(v, e) = [v EXCEPT !.trades[e.key] = <<WithTpSl(x.terms, e.terms)>>]
        BY <1>0, <4>1, <4>2
      <4> QED BY <1>0, <3>3, <4>3 DEF new
    <3> QED BY <3>4, <3>5
  <2> QED BY <2>1, <2>2
<1> QED BY <1>2, <1>3, <1>4
(* The entry of an order after an update of its prices.                     *)
LEMMA RepricedEntry ==
  ASSUME NEW x \in LimitRow, NEW e \in Event, role \in {"api", "keeper"},
         NEW h, LimitEntry(x.terms, x.px) = <<h>>, NEW y, y = Repriced(x, e.terms, e.px)
  PROVE  /\ role = "api" => LimitEntry(y.terms, y.px) = <<Repriced(h, e.terms, e.px)>>
         /\ role = "keeper" => LimitEntry(y.terms, y.px) = <<[h EXCEPT !.px = e.px]>>
<1>1. x.terms \in TermsType /\ e.terms \in TermsType /\ e.px \in Nat
  BY EventFields DEF LimitRow
<1>2. y.terms = WithTpSl(x.terms, e.terms) /\ y.px = e.px
  BY <1>1 DEF LimitRow, Repriced
<1>3. WithTpSl(x.terms, e.terms).long = x.terms.long
  BY <1>1 DEF WithTpSl, TermsType
<1>4. h = LimitEntry(x.terms, x.px)[1]
  OBVIOUS
<1>5. CASE role = "api"
  <2>1. h = [terms |-> x.terms, px |-> x.px]
    BY <1>4, <1>5 DEF LimitEntry
  <2> DEFINE g == Repriced(h, e.terms, e.px)
  <2>2. /\ g \in [terms: TermsType, px: Nat]
        /\ g.terms = WithTpSl(x.terms, e.terms) /\ g.px = e.px
    <3>1. h \in [terms: TermsType, px: Nat]
      BY <1>1, <2>1 DEF LimitRow
    <3> QED BY <1>1, <2>1, <3>1, WithTpSlType DEF Repriced
  <2>3. Repriced(h, e.terms, e.px) = [terms |-> WithTpSl(x.terms, e.terms), px |-> e.px]
    <3> HIDE DEF g
    <3>1. g = [terms |-> g.terms, px |-> g.px]
      BY <2>2
    <3> QED BY <2>2, <3>1 DEF g
  <2> QED BY <1>2, <1>5, <2>3 DEF LimitEntry
<1>6. CASE role = "keeper"
  <2>1. h = [long |-> x.terms.long, px |-> x.px]
    BY <1>4, <1>6 DEF LimitEntry
  <2>2. [h EXCEPT !.px = e.px] = [long |-> x.terms.long, px |-> e.px]
    BY <2>1
  <2> QED BY <1>2, <1>3, <1>6, <2>2 DEF LimitEntry
<1> QED BY <1>5, <1>6

(* An order's cell holds one entry.                                         *)
LEMMA LimitCellSome ==
  ASSUME NEW terms, NEW px
  PROVE  /\ \E h : LimitEntry(terms, px) = <<h>>
         /\ LimitEntry(terms, px) # <<>>
<1>1. \E h : LimitEntry(terms, px) = <<h>>
  BY DEF LimitEntry
<1> QED BY <1>1, OneEntry

(* An order's cell under a message, in either copy.                         *)
LEMMA LimitCells ==
  ASSUME NEW x, x = NoRow \/ x \in LimitRow, NEW e \in Event,
         NEW v, NEW a, NEW b, v = [trades |-> b, limits |-> a], DOMAIN a = Key,
         a = [k \in Key |-> a[k]],
         a[e.key] = LimitCell(x), e.topic \in {"placed", "updated_limit"} => e.full,
         e.topic \in LimitCloses \cup {"placed", "updated_limit"}, role \in {"api", "keeper"}
  PROVE  ApplyTo(v, e) = [trades |-> b, limits |-> [a EXCEPT ![e.key] = LimitCell(CopyLimit(x, e))]]
<1> DEFINE new == LimitCell(CopyLimit(x, e))
<1>0. /\ e.key \in Key /\ e.terms \in TermsType /\ e.px \in Nat
      /\ \A z : [v EXCEPT !.limits[e.key] = z] = [trades |-> b, limits |-> [a EXCEPT ![e.key] = z]]
      /\ v.limits = a /\ v.limits[e.key] = a[e.key]
  BY EventFields
<1>1. a[e.key] = <<>> <=> x = NoRow
  BY LimitCellSome DEF LimitCell
<1>s. x = NoRow => [trades |-> b, limits |-> [a EXCEPT ![e.key] = <<>>]] = v
  BY <1>0, <1>1
<1>2. CASE e.topic = "placed"
  <2>1. role = "keeper" \/ x = NoRow => new = LimitEntry(e.terms, e.px)
    <3>1. [terms |-> e.terms, px |-> e.px, tx |-> e.tx] # NoRow
      BY DEF NoRow
    <3>2. role = "keeper" \/ x = NoRow =>
            CopyLimit(x, e) = [terms |-> e.terms, px |-> e.px, tx |-> e.tx]
      BY <1>2 DEF CopyLimit, LimitCloses
    <3> QED BY <3>1, <3>2 DEF LimitCell
  <2>2. role = "api" /\ x # NoRow => new = a[e.key]
    BY <1>2 DEF CopyLimit, LimitCloses
  <2> HIDE DEF new
  <2>3. CASE role = "keeper"
    <3>1. ApplyTo(v, e) = [v EXCEPT !.limits[e.key] = LimitEntry(e.terms, e.px)]
      BY <1>2, <2>3 DEF ApplyTo, stateApply
    <3> QED BY <1>0, <2>1, <2>3, <3>1 DEF new
  <2>4. CASE role = "api" /\ x = NoRow
    <3>1. ApplyTo(v, e) = [v EXCEPT !.limits[e.key] = LimitEntry(e.terms, e.px)]
      BY <1>0, <1>1, <1>2, <2>4 DEF ApplyTo, applyEvent
    <3> QED BY <1>0, <2>1, <2>4, <3>1 DEF new
  <2>5. CASE role = "api" /\ x # NoRow
    <3>1. ApplyTo(v, e) = v
      BY <1>0, <1>1, <1>2, <2>5 DEF ApplyTo, applyEvent
    <3>2. [a EXCEPT ![e.key] = a[e.key]] = a
      BY <1>0
    <3> QED BY <2>2, <2>5, <3>1, <3>2 DEF new
  <2> QED BY <2>3, <2>4, <2>5
<1>3. CASE e.topic \in LimitCloses
  <2>1. new = <<>>
    BY <1>3 DEF LimitCloses, CopyLimit, LimitCell
  <2>2. e.topic \in {"executed", "canceled"}
    BY <1>3 DEF LimitCloses
  <2> HIDE DEF new
  <2>3. CASE role = "keeper"
    <3>1. ApplyTo(v, e) = [v EXCEPT !.limits[e.key] = <<>>]
      BY <2>2, <2>3 DEF ApplyTo, stateApply
    <3> QED BY <1>0, <2>1, <3>1 DEF new
  <2>4. CASE role = "api" /\ x = NoRow
    <3>1. ApplyTo(v, e) = v
      BY <1>0, <1>1, <2>2, <2>4 DEF ApplyTo, applyEvent
    <3> QED BY <1>s, <2>1, <2>4, <3>1 DEF new
  <2>5. CASE role = "api" /\ x # NoRow
    <3>1. ApplyTo(v, e) = [v EXCEPT !.limits[e.key] = Tail(@)]
      BY <1>0, <1>1, <2>2, <2>5 DEF ApplyTo, applyEvent
    <3>h. PICK h : LimitEntry(x.terms, x.px) = <<h>>
      BY LimitCellSome
    <3>2. Tail(a[e.key]) = <<>>
      BY <2>5, <3>h, OneEntry DEF LimitCell
    <3>3. ApplyTo(v, e) = [v EXCEPT !.limits[e.key] = <<>>]
      BY <1>0, <3>1, <3>2
    <3> QED BY <1>0, <2>1, <3>3 DEF new
  <2> QED BY <2>3, <2>4, <2>5
<1>4. CASE e.topic = "updated_limit"
  <2>1. CASE x = NoRow
    <3>1. new = <<>>
      BY <1>4, <2>1 DEF CopyLimit, LimitCell, LimitCloses
    <3>2. ApplyTo(v, e) = v
      BY <1>0, <1>1, <1>4, <2>1 DEF ApplyTo, applyEvent, stateApply
    <3> QED BY <1>s, <2>1, <3>1, <3>2
  <2>2. CASE x # NoRow
    <3>0. x \in LimitRow /\ a[e.key] = LimitEntry(x.terms, x.px)
      BY <2>2 DEF LimitCell
    <3>h. PICK h : LimitEntry(x.terms, x.px) = <<h>>
      BY LimitCellSome
    <3>a. a[e.key] = <<h>> /\ Head(a[e.key]) = h
      BY <3>0, <3>h, OneEntry
    <3> DEFINE y == Repriced(x, e.terms, e.px)
    <3>1. CopyLimit(x, e) = y
      BY <1>4, <2>2 DEF CopyLimit, LimitCloses
    <3>2. y \in LimitRow /\ y # NoRow
      BY <1>0, <3>0, RepricedType, RowIsSome
    <3>y. /\ role = "api" => LimitEntry(y.terms, y.px) = <<Repriced(h, e.terms, e.px)>>
          /\ role = "keeper" => LimitEntry(y.terms, y.px) = <<[h EXCEPT !.px = e.px]>>
      BY <3>0, <3>h, RepricedEntry
    <3> HIDE DEF y
    <3>3. new = LimitEntry(y.terms, y.px)
      BY <3>1, <3>2 DEF LimitCell
    <3> HIDE DEF new
    <3>4. CASE role = "keeper"
      <4>1. ApplyTo(v, e) = [v EXCEPT !.limits[e.key] = <<[Head(@) EXCEPT !.px = e.px]>>]
        BY <1>0, <1>1, <1>4, <2>2, <3>4 DEF ApplyTo, stateApply
      <4>2. ApplyTo(v, e) = [v EXCEPT !.limits[e.key] = <<[h EXCEPT !.px = e.px]>>]
        BY <1>0, <3>a, <4>1
      <4> QED BY <1>0, <3>3, <3>4, <3>y, <4>2 DEF new
    <3>5. CASE role = "api"
      <4>1. ApplyTo(v, e) = [v EXCEPT !.limits[e.key] = WithHead(@, Repriced(Head(@), e.terms, e.px))]
        BY <1>0, <1>1, <1>4, <2>2, <3>5 DEF ApplyTo, applyEvent
      <4>2. WithHead(a[e.key], Repriced(Head(a[e.key]), e.terms, e.px)) = <<Repriced(h, e.terms, e.px)>>
        BY <3>a, OneEntry
      <4>3. ApplyTo(v, e) = [v EXCEPT !.limits[e.key] = <<Repriced(h, e.terms, e.px)>>]
        BY <1>0, <4>1, <4>2
      <4> QED BY <1>0, <3>3, <3>5, <3>y, <4>3 DEF new
    <3> QED BY <3>4, <3>5
  <2> QED BY <2>1, <2>2
<1> QED BY <1>2, <1>3, <1>4

(* A message changes the copy as it changes the rows behind it.             *)
LEMMA ApplyToCopies ==
  ASSUME NEW t \in TradeTable, NEW l \in LimitTable, NEW e \in Event, Projected(e),
         role \in {"api", "keeper"}, NEW v, v = [trades |-> TradesOf(t), limits |-> LimitsOf(l)]
  PROVE  ApplyTo(v, e) =
           [trades |-> TradesOf([t EXCEPT ![e.key] = CopyTrade(@, e)]),
            limits |-> LimitsOf([l EXCEPT ![e.key] = CopyLimit(@, e)])]
<1> DEFINE k == e.key
           x == t[k]
           z == l[k]
<1>0. /\ k \in Key
      /\ x = NoRow \/ x \in TradeRow
      /\ z = NoRow \/ z \in LimitRow
      /\ DOMAIN TradesOf(t) = Key /\ TradesOf(t) = [j \in Key |-> TradesOf(t)[j]]
      /\ DOMAIN LimitsOf(l) = Key /\ LimitsOf(l) = [j \in Key |-> LimitsOf(l)[j]]
  BY EventFields DEF TradeTable, LimitTable, TradesOf, LimitsOf
<1>1. /\ TradesOf(t)[k] = TradeCell(x) /\ LimitsOf(l)[k] = LimitCell(z)
      /\ [TradesOf(t) EXCEPT ![k] = TradeCell(CopyTrade(x, e))]
           = TradesOf([t EXCEPT ![k] = CopyTrade(x, e)])
      /\ [LimitsOf(l) EXCEPT ![k] = LimitCell(CopyLimit(z, e))]
           = LimitsOf([l EXCEPT ![k] = CopyLimit(z, e)])
  <2> HIDE DEF k
  <2>1. /\ TradesOf(t)[k] = TradeCell(t[k])
        /\ [TradesOf(t) EXCEPT ![k] = TradeCell(CopyTrade(x, e))]
             = TradesOf([t EXCEPT ![k] = CopyTrade(x, e)])
    <3> HIDE DEF x
    <3> QED BY <1>0, TradeCellSet
  <2>2. /\ LimitsOf(l)[k] = LimitCell(l[k])
        /\ [LimitsOf(l) EXCEPT ![k] = LimitCell(CopyLimit(z, e))]
             = LimitsOf([l EXCEPT ![k] = CopyLimit(z, e)])
    <3> HIDE DEF z
    <3> QED BY <1>0, LimitCellSet
  <2> QED BY <2>1, <2>2
<1>2. [t EXCEPT ![k] = x] = t /\ [l EXCEPT ![k] = z] = l
  BY DEF TradeTable, LimitTable
<1>3. CASE e.topic \in TradeCloses \cup {"opened", "updated_tp_sl"}
  <2>1. CopyLimit(z, e) = z
    BY <1>3 DEF CopyLimit, TradeCloses, LimitCloses
  <2>2. e.topic = "updated_tp_sl" => e.full
    BY DEF Projected
  <2> HIDE DEF k, x, z
  <2>3. ApplyTo(v, e) = [trades |-> [TradesOf(t) EXCEPT ![k] = TradeCell(CopyTrade(x, e))],
                         limits |-> LimitsOf(l)]
    BY <1>0, <1>1, <1>3, <2>2, TradeCells DEF k
  <2> QED BY <1>1, <1>2, <2>1, <2>3 DEF k, x, z
<1>4. CASE e.topic \in LimitCloses \cup {"placed", "updated_limit"}
  <2>1. CopyTrade(x, e) = x
    BY <1>4 DEF CopyTrade, TradeCloses, LimitCloses
  <2>2. e.topic \in {"placed", "updated_limit"} => e.full
    BY DEF Projected
  <2> HIDE DEF k, x, z
  <2>3. ApplyTo(v, e) = [trades |-> TradesOf(t),
                         limits |-> [LimitsOf(l) EXCEPT ![k] = LimitCell(CopyLimit(z, e))]]
    BY <1>0, <1>1, <1>4, <2>2, LimitCells DEF k
  <2> QED BY <1>1, <1>2, <2>1, <2>3 DEF k, x, z
<1>5. CASE e.topic \notin TradeCloses \cup LimitCloses
                           \cup {"opened", "updated_tp_sl", "placed", "updated_limit"}
  <2>1. CopyTrade(x, e) = x /\ CopyLimit(z, e) = z
    BY <1>5 DEF CopyTrade, CopyLimit, TradeCloses, LimitCloses
  <2>2. ApplyTo(v, e) = v
    BY <1>5 DEF ApplyTo, applyEvent, stateApply, TradeCloses, LimitCloses
  <2> QED BY <1>2, <2>1, <2>2
<1> QED BY <1>3, <1>4, <1>5

(* The same, with names for the tables after the message.                   *)
TradesAfter(t, e) == [t EXCEPT ![e.key] = CopyTrade(@, e)]
LimitsAfter(l, e) == [l EXCEPT ![e.key] = CopyLimit(@, e)]

LEMMA ApplyToTables ==
  ASSUME NEW t \in TradeTable, NEW l \in LimitTable, NEW e \in Event, Projected(e),
         role \in {"api", "keeper"}, NEW v, v = [trades |-> TradesOf(t), limits |-> LimitsOf(l)]
  PROVE  ApplyTo(v, e) = [trades |-> TradesOf(TradesAfter(t, e)),
                          limits |-> LimitsOf(LimitsAfter(l, e))]
BY ApplyToCopies DEF TradesAfter, LimitsAfter
-----------------------------------------------------------------------------
(* What is to be published stays to be published, until Fanout publishes it.*)
LEMMA ToPublishKept ==
  ASSUME FullInv, TablesInv, Intact, Intact', [Next]_vars,
         NEW p \in 1 .. Len(log), ToPublish(p), Fanout => p # next
  PROVE  Noise(p)' \/ ToPublish(p)'
<1>1. PICK m \in 0 .. Len(log) : \E n \in 0 .. m : Mirrored(n, m)
  BY DEF TablesInv
<1>2. PICK n \in 0 .. m : Mirrored(n, m)
  BY <1>1
<1>3. n \in 0 .. Len(log) /\ Position(n) /\ Len(log) \in Nat /\ next \in Nat
  BY <1>2, Basics DEF Mirrored, FullInv
<1>4. CASE LedgerStep
  <2>1. pc' = pc /\ next' = next
    BY <1>4 DEF LedgerStep, indexerVars, memVars
  <2>2. Coming(p)' <=> Coming(p)
    BY <1>4, LedgerKeepsComing
  <2> QED BY <2>1, <2>2 DEF ToPublish
<1>5. CASE Fanout
  <2>1. pc = "fanout" /\ pc' = "apply" /\ next' = next + 1 /\ log' = log
    BY <1>5 DEF Fanout, ledgerVars
  <2>2. p > next
    BY <1>5, <2>1 DEF ToPublish, Coming
  <2> QED BY <1>3, <2>1, <2>2 DEF ToPublish, Coming
<1>6. CASE Boot \/ GetEvents \/ Clamp \/ RetryError \/ EndPage
  <2>1. pc # "fanout" /\ log' = log
    BY <1>6 DEF Boot, GetEvents, Clamp, RetryError, EndPage, ledgerVars
  <2>2. Position(n)'
    BY <1>3, <1>6, GoesKeepsPosition DEF Goes
  <2> QED BY <1>3, <2>1, <2>2 DEF ToPublish, Position
<1>7. CASE EventError
  <2>1. /\ pc = "apply" /\ pc' = "apply" /\ next' = next + 1 /\ log' = log /\ next \in failed'
    BY <1>7 DEF EventError, InPage, ledgerVars
  <2>2. p >= next
    BY <2>1 DEF ToPublish, Coming
  <2>3. CASE p = next
    BY <2>1, <2>3 DEF Noise, Intact
  <2>4. CASE p # next
    BY <1>3, <2>1, <2>2, <2>4 DEF ToPublish, Coming
  <2> QED BY <2>3, <2>4
<1>8. CASE ApplyEvent
  <2>1. pc = "apply" /\ pc' = "fanout" /\ next' = next
    BY <1>8 DEF ApplyEvent, InPage
  <2>2. p >= next
    BY <2>1 DEF ToPublish, Coming
  <2> QED BY <1>3, <2>1, <2>2 DEF ToPublish, Coming
<1>9. CASE Crash
  <2>1. pc' = "down" /\ log' = log /\ dbCursor' = dbCursor
    BY <1>9 DEF Crash, ledgerVars
  <2>2. IsPending(p)
    <3>1. CASE Coming(p)
      BY <3>1, ComingIsPending
    <3>2. CASE pc = "fanout" /\ p = next
      <4>1. page.lo \in Nat /\ p >= page.lo
        BY <1>3, <3>2, Basics DEF FullInv, IndInv, PageInv
      <4> QED BY <3>2, <4>1 DEF FullInv, IndInv, PageInv
    <3> QED BY <3>1, <3>2 DEF ToPublish
  <2> QED BY <2>1, <2>2 DEF ToPublish, Coming, IsPending, Wanted
<1>10. CASE UNCHANGED vars
  <2>1. log' = log /\ pc' = pc /\ next' = next
    BY <1>10 DEF vars, ledgerVars, indexerVars, memVars
  <2>2. Position(n)'
    BY <1>3, <1>10, GoesKeepsPosition
  <2> QED BY <1>3, <2>1, <2>2 DEF ToPublish, Position
<1> QED BY <1>4, <1>5, <1>6, <1>7, <1>8, <1>9, <1>10 DEF Next, IndexerStep

(* A place in the inbox and what lies before it.                            *)
LEMMA InboxTypes ==
  ASSUME Len(log) \in Nat, inbox \in Seq(1 .. Len(log))
  PROVE  /\ Len(inbox) \in Nat
         /\ \A i \in 1 .. Len(inbox) : inbox[i] \in 1 .. Len(log)
         /\ \A n \in 0 .. Len(log), i \in 0 .. Len(inbox) : Told(n, inbox, i) \in 0 .. Len(log)
<1>1. /\ Len(inbox) \in Nat
      /\ \A i \in 1 .. Len(inbox) : inbox[i] \in 1 .. Len(log)
  OBVIOUS
<1>2. ASSUME NEW n \in 0 .. Len(log), NEW i \in 0 .. Len(inbox)
      PROVE  Told(n, inbox, i) \in 0 .. Len(log)
  BY <1>1 DEF Told
<1> QED BY <1>1, <1>2

(* A step that publishes nothing leaves the stream as it is, and adds the   *)
(* events that happen to its end.                                           *)
LEMMA StreamKept ==
  ASSUME FullInv, FullInv', TablesInv, Intact, Intact', [Next]_vars, ~Fanout,
         inbox \in Seq(1 .. Len(log)), inbox' = inbox, NEW n \in 0 .. Len(log), Stream(n)
  PROVE  Stream(n)'
<1>1. StepGrows
  BY NextGrows
<1>2. /\ Len(log) \in Nat /\ Len(inbox) \in Nat
      /\ \A i \in 1 .. Len(inbox) : inbox[i] \in 1 .. Len(log)
      /\ \A i \in 0 .. Len(inbox) : Told(n, inbox, i) \in 0 .. Len(log) /\ Told(n, inbox', i) = Told(n, inbox, i)
  <2>1. Len(log) \in Nat
    BY Basics DEF FullInv
  <2>2. \A i \in 0 .. Len(inbox) : Told(n, inbox', i) = Told(n, inbox, i)
    BY DEF Told
  <2> QED BY <2>1, <2>2, InboxTypes
<1>3. ASSUME NEW i \in 1 .. Len(inbox), NEW p \in 1 .. Len(log'),
             Told(n, inbox, i - 1) < p, p < inbox[i]
      PROVE  Noise(p)'
  <2>1. p \in 1 .. Len(log) /\ log'[p] = log[p]
    BY <1>1, <1>2, <1>3 DEF StepGrows
  <2> QED BY <1>3, <2>1 DEF Stream, Noise
<1>4. ASSUME NEW p \in 1 .. Len(log'), p > Told(n, inbox, Len(inbox))
      PROVE  Noise(p)' \/ ToPublish(p)'
  <2>1. CASE p \in 1 .. Len(log)
    <3>1. Noise(p) \/ ToPublish(p)
      BY <1>4, <2>1 DEF Stream
    <3>2. Noise(p) => Noise(p)'
      BY <1>1, <2>1 DEF Noise, StepGrows
    <3> QED BY <2>1, <3>1, <3>2, ToPublishKept
  <2>2. CASE p \notin 1 .. Len(log)
    <3>1. p > Len(log) /\ Len(log') # Len(log)
      BY <1>2, <2>2
    <3>2. LedgerStep
      BY <3>1 DEF Next, IndexerStep, Boot, GetEvents, Clamp, RetryError, EventError,
         ApplyEvent, Fanout, EndPage, Crash, vars, ledgerVars
    <3> QED BY <3>1, <3>2, NewIsComing DEF ToPublish
  <2> QED BY <2>1, <2>2
<1>5. \A i \in 1 .. Len(inbox) : i - 1 \in 0 .. Len(inbox)
  BY <1>2
<1>6. Len(inbox) \in 0 .. Len(inbox)
  BY <1>2
<1> QED BY <1>2, <1>3, <1>4, <1>5, <1>6 DEF Stream

(* Fanout puts the event in hand at the end of the stream.                  *)
LEMMA PublishStream ==
  ASSUME FullInv, TablesInv, Intact, Intact', Fanout,
         inbox \in Seq(1 .. Len(log)), inbox' = Append(inbox, next),
         NEW n \in 0 .. Len(log), Stream(n)
  PROVE  Stream(n)' /\ inbox' \in Seq(1 .. Len(log'))
<1>1. /\ pc = "fanout" /\ pc' = "apply" /\ next' = next + 1 /\ log' = log
  BY DEF Fanout, ledgerVars
<1>2. Len(log) \in Nat /\ next \in 1 .. Len(log)
  <2>1. /\ Len(log) \in Nat /\ next \in Nat /\ page.lo \in Nat /\ page.hi \in Nat
        /\ page.resp.pos \in Nat
    BY Basics DEF FullInv
  <2>2. PageInv
    BY DEF FullInv, IndInv
  <2> QED BY <1>1, <2>1, <2>2, SMTT(20) DEF PageInv, CutsLog
<1>3. /\ Len(inbox) \in Nat /\ Len(inbox') = Len(inbox) + 1 /\ inbox'[Len(inbox) + 1] = next
      /\ \A i \in 1 .. Len(inbox) : inbox'[i] = inbox[i]
      /\ inbox' \in Seq(1 .. Len(log))
  BY <1>2
<1>4. /\ \A i \in 0 .. Len(inbox) : Told(n, inbox', i) = Told(n, inbox, i) /\ Told(n, inbox, i) \in 0 .. Len(log)
      /\ Told(n, inbox', Len(inbox')) = next
  <2>1. \A i \in 0 .. Len(inbox) : Told(n, inbox, i) \in 0 .. Len(log)
    BY <1>2, InboxTypes
  <2>2. ASSUME NEW i \in 0 .. Len(inbox) PROVE Told(n, inbox', i) = Told(n, inbox, i)
    BY <1>3 DEF Told
  <2>3. Told(n, inbox', Len(inbox')) = next
    BY <1>3 DEF Told
  <2> QED BY <2>1, <2>2, <2>3
<1>5. \A p \in 1 .. Len(log) : Noise(p)' <=> Noise(p)
  BY <1>1 DEF Noise
<1>6. ASSUME NEW i \in 1 .. Len(inbox'), NEW p \in 1 .. Len(log'),
             Told(n, inbox', i - 1) < p, p < inbox'[i]
      PROVE  Noise(p)'
  <2>0. i - 1 \in 0 .. Len(inbox) /\ p \in 1 .. Len(log)
    BY <1>1, <1>3
  <2>1. i - 1 \in 0 .. Len(inbox) /\ p \in 1 .. Len(log) /\ Told(n, inbox, i - 1) < p
    BY <1>4, <1>6, <2>0
  <2>2. CASE i \in 1 .. Len(inbox)
    BY <1>3, <1>5, <1>6, <2>1, <2>2 DEF Stream
  <2>3. CASE i = Len(inbox) + 1
    <3>1. i - 1 = Len(inbox) /\ p < next
      BY <1>3, <1>6, <2>3
    <3>2. Noise(p) \/ ToPublish(p)
      BY <2>1, <3>1 DEF Stream
    <3>3. ~ToPublish(p)
      BY <1>1, <1>2, <3>1 DEF ToPublish, Coming
    <3> QED BY <1>5, <2>1, <3>2, <3>3
  <2> QED BY <1>3, <2>2, <2>3
<1>7. ASSUME NEW p \in 1 .. Len(log'), p > next
      PROVE  ToPublish(p)'
  BY <1>1, <1>2, <1>7 DEF ToPublish, Coming
<1> QED BY <1>1, <1>3, <1>4, <1>6, <1>7 DEF Stream

(* Taking a message leaves the rest of the stream, from where it leads.     *)
LEMMA ReceiveStream ==
  ASSUME Len(log) \in Nat, inbox \in Seq(1 .. Len(log)), inbox # <<>>, inbox' = Tail(inbox),
         UNCHANGED vars, NEW n \in 0 .. Len(log), Stream(n)
  PROVE  /\ Head(inbox) \in 1 .. Len(log) /\ inbox' \in Seq(1 .. Len(log'))
         /\ \A p \in 1 .. Len(log) : n < p /\ p < Head(inbox) => Noise(p)
         /\ \A c : c = Head(inbox) => Stream(c)'
<1>1. /\ log' = log /\ pc' = pc /\ next' = next
  BY DEF vars, ledgerVars, indexerVars, memVars
<1>2. /\ Len(inbox) \in Nat /\ Len(inbox) >= 1 /\ Len(inbox') = Len(inbox) - 1
      /\ Head(inbox) = inbox[1] /\ inbox[1] \in 1 .. Len(log)
      /\ \A i \in 1 .. Len(inbox') : inbox'[i] = inbox[i + 1]
      /\ inbox' \in Seq(1 .. Len(log))
  OBVIOUS
<1>3. ASSUME NEW i \in 0 .. Len(inbox') PROVE Told(inbox[1], inbox', i) = Told(n, inbox, i + 1)
  <2>1. CASE i = 0
    BY <1>2, <2>1 DEF Told
  <2>2. CASE i # 0
    BY <1>2, <2>2 DEF Told
  <2> QED BY <2>1, <2>2
<1>4. ASSUME NEW p \in 1 .. Len(log), n < p, p < inbox[1] PROVE Noise(p)
  <2>1. 1 \in 1 .. Len(inbox) /\ Told(n, inbox, 1 - 1) = n
    BY <1>2 DEF Told
  <2> QED BY <1>4, <2>1 DEF Stream
<1>5. ASSUME NEW i \in 1 .. Len(inbox'), NEW p \in 1 .. Len(log'),
             Told(inbox[1], inbox', i - 1) < p, p < inbox'[i]
      PROVE  Noise(p)'
  <2>1. /\ i - 1 \in 0 .. Len(inbox') /\ (i - 1) + 1 = i /\ (i + 1) - 1 = i
        /\ i + 1 \in 1 .. Len(inbox) /\ inbox'[i] = inbox[i + 1]
    BY <1>2
  <2>2. Told(n, inbox, i) < p /\ p < inbox[i + 1]
    BY <1>3, <1>5, <2>1
  <2>3. Noise(p)
    BY <1>1, <2>1, <2>2 DEF Stream
  <2> QED BY <1>1, <2>3 DEF Noise
<1>6. ASSUME NEW p \in 1 .. Len(log'), p > Told(inbox[1], inbox', Len(inbox'))
      PROVE  Noise(p)' \/ ToPublish(p)'
  <2>1. Len(inbox') \in 0 .. Len(inbox') /\ Len(inbox') + 1 = Len(inbox)
    BY <1>2
  <2>2. p > Told(n, inbox, Len(inbox))
    BY <1>3, <1>6, <2>1
  <2>3. Noise(p) \/ ToPublish(p)
    BY <1>1, <2>2 DEF Stream
  <2>4. Noise(p)' <=> Noise(p)
    BY <1>1 DEF Noise
  <2>5. ToPublish(p)' <=> ToPublish(p)
    BY <1>1 DEF ToPublish, Coming, IsPending, Wanted, FromLedger, FromOf,
       vars, indexerVars, memVars
  <2> QED BY <2>3, <2>4, <2>5
<1> DEFINE q == inbox[1]
<1>7. \A c : c = q => Stream(c)'
  <2> SUFFICES ASSUME NEW c, c = q PROVE Stream(c)'
    OBVIOUS
  <2> QED BY <1>5, <1>6 DEF Stream
<1> QED BY <1>1, <1>2, <1>4, <1>7
-----------------------------------------------------------------------------
(* A longer log and a stream that is kept: the slots go on following.       *)
LEMMA FollowsOn ==
  ASSUME NEW kinds, NEW rows, NEW kinds2, NEW rows2, NEW slots, Len(log) \in Nat,
         Len(log') \in Nat, Len(log) <= Len(log'),
         \A k \in Key, p \in 1 .. Len(log) : kinds2[k][p] = kinds[k][p] /\ rows2[p] = rows[p],
         \A n \in 0 .. Len(log) : Stream(n) => Stream(n)',
         Follows(kinds, rows, slots)
  PROVE  Follows(kinds2, rows2, slots)'
<1>1. PICK m \in 0 .. Len(log) : \E n \in 0 .. m :
        Stream(n) /\ \A k \in Key : Good(kinds[k], rows, n, m, slots[k])
  BY DEF Follows
<1>2. PICK n \in 0 .. m : Stream(n) /\ \A k \in Key : Good(kinds[k], rows, n, m, slots[k])
  BY <1>1
<1>3. m \in Nat /\ n \in 0 .. Len(log) /\ m \in 0 .. Len(log')
  OBVIOUS
<1>4. ASSUME NEW k \in Key PROVE Good(kinds2[k], rows2, n, m, slots[k])
  <2> DEFINE kd == kinds[k]
             kd2 == kinds2[k]
             r == slots[k]
  <2>1. \A p \in 1 .. m : kd2[p] = kd[p] /\ rows2[p] = rows[p]
    OBVIOUS
  <2>2. Good(kd, rows, n, m, r)
    BY <1>2
  <2> HIDE DEF kd, kd2, r
  <2>3. Good(kd2, rows2, n, m, r)
    BY <1>3, <2>1, <2>2, GoodPrefix
  <2> QED BY <2>3 DEF kd, kd2, r
<1> QED BY <1>2, <1>3, <1>4 DEF Follows

(* The log and its readings by slot grow together.                          *)
LEMMA ReadingsGrow ==
  ASSUME StepGrows
  PROVE  /\ \A k \in Key, p \in 1 .. Len(log) :
              TK(log')[k][p] = TK(log)[k][p] /\ TradeRows(log')[p] = TradeRows(log)[p]
         /\ \A k \in Key, p \in 1 .. Len(log) :
              LK(log')[k][p] = LK(log)[k][p] /\ LimitRows(log')[p] = LimitRows(log)[p]
<1> SUFFICES ASSUME NEW k \in Key, NEW p \in 1 .. Len(log)
             PROVE  /\ TK(log')[k][p] = TK(log)[k][p] /\ TradeRows(log')[p] = TradeRows(log)[p]
                    /\ LK(log')[k][p] = LK(log)[k][p] /\ LimitRows(log')[p] = LimitRows(log)[p]
  OBVIOUS
<1>1. log'[p] = log[p] /\ p \in 1 .. Len(log')
  BY DEF StepGrows
<1> QED BY <1>1 DEF TK, LK, TKinds, LKinds, TradeRows, LimitRows

(* A step under which the stream is kept keeps what follows it.             *)
LEMMA CopiesFollowOn ==
  ASSUME StepGrows, \A n \in 0 .. Len(log) : Stream(n) => Stream(n)',
         role' = role
  PROVE  /\ \A s, t \in TradeTable :
              /\ view'.trades = TradesOf(s) /\ Agree(unread'.trades, s, t)
              /\ Follows(TK(log), TradeRows(log), TradeSlots(t))
              => TradesFollow'
         /\ \A s, t \in LimitTable :
              /\ view'.limits = LimitsOf(s) /\ Agree(unread'.limits, s, t)
              /\ Follows(LK(log), LimitRows(log), LimitSlots(t))
              => LimitsFollow'
<1>0. /\ Len(log) \in Nat /\ Len(log') \in Nat /\ Len(log) <= Len(log')
  BY DEF StepGrows
<1>1. ASSUME NEW s \in TradeTable, NEW t \in TradeTable, view'.trades = TradesOf(s),
             Agree(unread'.trades, s, t), Follows(TK(log), TradeRows(log), TradeSlots(t))
      PROVE  TradesFollow'
  <2>1. \A k \in Key, p \in 1 .. Len(log) :
          TK(log')[k][p] = TK(log)[k][p] /\ TradeRows(log')[p] = TradeRows(log)[p]
    BY ReadingsGrow
  <2>2. PICK a, a2, b, b2, c : /\ a = TK(log) /\ a2 = TK(log')
                               /\ b = TradeRows(log) /\ b2 = TradeRows(log') /\ c = TradeSlots(t)
    OBVIOUS
  <2>3. /\ \A k \in Key, p \in 1 .. Len(log) : a2[k][p] = a[k][p] /\ b2[p] = b[p]
        /\ Follows(a, b, c)
    BY <1>1, <2>2, <2>1
  <2>4. Follows(a2, b2, c)'
    <3>1. \A n \in 0 .. Len(log) : Stream(n) => Stream(n)'
      OBVIOUS
    <3> QED BY <1>0, <2>3, <3>1, FollowsOn
  <2>5. \E m \in 0 .. Len(log') : \E n \in 0 .. m :
          Stream(n)' /\ \A k \in Key : Good(TK(log')[k], TradeRows(log'), n, m, TradeSlots(t)[k])
    BY <2>2, <2>4 DEF Follows
  <2> QED BY <1>1, <2>5 DEF TradesFollow, Follows, Agree
<1>2. ASSUME NEW s \in LimitTable, NEW t \in LimitTable, view'.limits = LimitsOf(s),
             Agree(unread'.limits, s, t), Follows(LK(log), LimitRows(log), LimitSlots(t))
      PROVE  LimitsFollow'
  <2>1. \A k \in Key, p \in 1 .. Len(log) :
          LK(log')[k][p] = LK(log)[k][p] /\ LimitRows(log')[p] = LimitRows(log)[p]
    BY ReadingsGrow
  <2>2. PICK a, a2, b, b2, c : /\ a = LK(log) /\ a2 = LK(log')
                               /\ b = LimitRows(log) /\ b2 = LimitRows(log') /\ c = LimitSlots(t)
    OBVIOUS
  <2>3. /\ \A k \in Key, p \in 1 .. Len(log) : a2[k][p] = a[k][p] /\ b2[p] = b[p]
        /\ Follows(a, b, c)
    BY <1>2, <2>2, <2>1
  <2>4. Follows(a2, b2, c)'
    <3>1. \A n \in 0 .. Len(log) : Stream(n) => Stream(n)'
      OBVIOUS
    <3> QED BY <1>0, <2>3, <3>1, FollowsOn
  <2>5. \E m \in 0 .. Len(log') : \E n \in 0 .. m :
          Stream(n)' /\ \A k \in Key : Good(LK(log')[k], LimitRows(log'), n, m, LimitSlots(t)[k])
    BY <2>2, <2>4 DEF Follows
  <2>6. view'.limits = LimitsOf(s)'
    BY <1>2 DEF LimitsOf, LimitEntry
  <2> QED BY <1>2, <2>5, <2>6 DEF LimitsFollow, Follows, Agree
<1> QED BY <1>1, <1>2

(* What is loaded from the tables follows the log from there.               *)
LEMMA LoadFollows ==
  ASSUME FullInv, TablesInv, Intact, inbox = <<>>
  PROVE  /\ Follows(TK(log), TradeRows(log), TradeSlots(db.trades))
         /\ Follows(LK(log), LimitRows(log), LimitSlots(db.limits))
<1>1. PICK m \in 0 .. Len(log) : \E n \in 0 .. m : Mirrored(n, m)
  BY DEF TablesInv
<1>2. PICK n \in 0 .. m : Mirrored(n, m)
  BY <1>1
<1>3. Stream(n)
  <2>1. Len(inbox) = 0 /\ Told(n, inbox, Len(inbox)) = n
    BY DEF Told
  <2>2. \A p \in 1 .. Len(log) : p > n => ToPublish(p)
    BY <1>2 DEF Mirrored, Position, ToPublish
  <2> QED BY <2>1, <2>2 DEF Stream
<1>4. ASSUME NEW k \in Key
      PROVE  /\ Good(TK(log)[k], TradeRows(log), n, m, TradeSlots(db.trades)[k])
             /\ Good(LK(log)[k], LimitRows(log), n, m, LimitSlots(db.limits)[k])
  <2>1. /\ TK(log)[k] = TKinds(log, k) /\ LK(log)[k] = LKinds(log, k)
        /\ TradeSlots(db.trades)[k] = TradeView(db.trades[k])
        /\ LimitSlots(db.limits)[k] = LimitView(db.limits[k])
    BY DEF TK, LK, TradeSlots, LimitSlots
  <2> QED BY <1>2, <2>1 DEF Mirrored, Mirror
<1> QED BY <1>3, <1>4 DEF Follows

(* A message changes the slots so that they follow the rest of the stream.  *)
LEMMA MessageFollows ==
  ASSUME Len(log) \in Nat, inbox \in Seq(1 .. Len(log)), inbox # <<>>, inbox' = Tail(inbox),
         UNCHANGED vars, NEW kinds, NEW rows, NEW slots, NEW slots2, NEW api,
         \A k \in Key : Alternates(kinds[k], Len(log)),
         \A k \in Key, p \in 1 .. Len(log) : Noise(p) => kinds[k][p] = "other",
         \A k \in Key : slots2[k] =
           CopyStep(api, kinds[k][Head(inbox)], rows[Head(inbox)], slots[k]),
         Follows(kinds, rows, slots)
  PROVE  Follows(kinds, rows, slots2)'
<1> DEFINE q == Head(inbox)
<1>1. PICK m \in 0 .. Len(log) : \E n \in 0 .. m :
        Stream(n) /\ \A k \in Key : Good(kinds[k], rows, n, m, slots[k])
  BY DEF Follows
<1>2. PICK n \in 0 .. m : Stream(n) /\ \A k \in Key : Good(kinds[k], rows, n, m, slots[k])
  BY <1>1
<1>3. n \in 0 .. Len(log) /\ log' = log
  BY DEF vars, ledgerVars
<1>4. /\ q \in 1 .. Len(log) /\ \A p \in 1 .. Len(log) : n < p /\ p < q => Noise(p)
      /\ \A c : c = q => Stream(c)'
  BY <1>2, <1>3, ReceiveStream
<1> DEFINE j == IF q <= m THEN m ELSE q
<1>5. ASSUME NEW k \in Key PROVE Good(kinds[k], rows, q, j, slots2[k])
  <2>1. \A p \in n + 1 .. q - 1 : kinds[k][p] = "other"
    BY <1>3, <1>4
  <2>2. j \in Nat
    BY <1>4
  <2>3. slots2[k] = CopyStep(api, kinds[k][q], rows[q], slots[k])
    OBVIOUS
  <2>4. j = IF q <= m THEN m ELSE q
    OBVIOUS
  <2> DEFINE kd == kinds[k]
             r == slots[k]
             len == Len(log)
  <2>5. Alternates(kd, len) /\ Good(kd, rows, n, m, r) /\ len \in Nat /\ m \in 0 .. len
        /\ q \in 1 .. len /\ \A p \in n + 1 .. q - 1 : kd[p] = "other"
    BY <1>2, <1>4, <2>1
  <2> HIDE DEF q, j, kd, r, len
  <2>6. Good(kd, rows, q, j, CopyStep(api, kd[q], rows[q], r))
    BY <2>2, <2>4, <2>5, MessageGood
  <2> QED BY <2>3, <2>6 DEF kd, r
<1>6. j \in 0 .. Len(log') /\ q \in 0 .. j
  BY <1>3, <1>4
<1>7. PICK c : c = q
  OBVIOUS
<1> HIDE DEF q, j
<1>8. Stream(c)' /\ c \in 0 .. j /\ \A k \in Key : Good(kinds[k], rows, c, j, slots2[k])
  BY <1>4, <1>5, <1>6, <1>7
<1> QED BY <1>6, <1>8 DEF Follows

(* The slots of the trades after a message.                                 *)
LEMMA TradeSlotsStep ==
  ASSUME NEW t \in TradeTable, NEW e \in Event, NEW u, u = [t EXCEPT ![e.key] = CopyTrade(@, e)]
  PROVE  /\ u \in TradeTable
         /\ \A k \in Key : TradeSlots(u)[k] =
              CopyStep(role = "api", TKind(e, k), TradeOf(e), TradeSlots(t)[k])
<1>1. e.key \in Key /\ (t[e.key] = NoRow \/ t[e.key] \in TradeRow)
  BY EventFields DEF TradeTable
<1> DEFINE x == t[e.key]
           y == CopyTrade(x, e)
<1>2. /\ y = NoRow \/ y \in TradeRow
      /\ TradeView(y) = CopyStep(role = "api", TKind(e, e.key), TradeOf(e), TradeView(x))
  BY <1>1, CopyTradeView
<1> HIDE DEF y
<1>3. u = [t EXCEPT ![e.key] = y]
  BY DEF y
<1>4. u \in TradeTable
  BY <1>1, <1>2, <1>3 DEF TradeTable
<1>5. ASSUME NEW k \in Key
      PROVE  TradeView(u[k]) = CopyStep(role = "api", TKind(e, k), TradeOf(e), TradeView(t[k]))
  <2>1. CASE k = e.key
    <3>1. u[k] = y
      BY <1>3, <2>1 DEF TradeTable
    <3> QED BY <1>2, <2>1, <3>1
  <2>2. CASE k # e.key
    <3>1. u[k] = t[k] /\ TKind(e, k) = "other"
      BY <1>3, <2>2 DEF TradeTable, TKind
    <3> QED BY <3>1 DEF CopyStep, Step
  <2> QED BY <2>1, <2>2
<1> QED BY <1>4, <1>5 DEF TradeSlots

(* The slots of the orders after a message.                                 *)
LEMMA LimitSlotsStep ==
  ASSUME NEW t \in LimitTable, NEW e \in Event, NEW u, u = [t EXCEPT ![e.key] = CopyLimit(@, e)]
  PROVE  /\ u \in LimitTable
         /\ \A k \in Key : LimitSlots(u)[k] =
              CopyStep(role = "api", LKind(e, k), LimitOf(e), LimitSlots(t)[k])
<1>1. e.key \in Key /\ (t[e.key] = NoRow \/ t[e.key] \in LimitRow)
  BY EventFields DEF LimitTable
<1> DEFINE x == t[e.key]
           y == CopyLimit(x, e)
<1>2. /\ y = NoRow \/ y \in LimitRow
      /\ LimitView(y) = CopyStep(role = "api", LKind(e, e.key), LimitOf(e), LimitView(x))
  BY <1>1, CopyLimitView
<1> HIDE DEF y
<1>3. u = [t EXCEPT ![e.key] = y]
  BY DEF y
<1>4. u \in LimitTable
  BY <1>1, <1>2, <1>3 DEF LimitTable
<1>5. ASSUME NEW k \in Key
      PROVE  LimitView(u[k]) = CopyStep(role = "api", LKind(e, k), LimitOf(e), LimitView(t[k]))
  <2>1. CASE k = e.key
    <3>1. u[k] = y
      BY <1>3, <2>1 DEF LimitTable
    <3> QED BY <1>2, <2>1, <3>1
  <2>2. CASE k # e.key
    <3>1. u[k] = t[k] /\ LKind(e, k) = "other"
      BY <1>3, <2>2 DEF LimitTable, LKind
    <3> QED BY <3>1 DEF CopyStep, Step
  <2> QED BY <2>1, <2>2
<1> QED BY <1>4, <1>5 DEF LimitSlots

(* Noise concerns no slot, and the log opens and closes slots in turn.      *)
LEMMA ReadingsOfLog ==
  ASSUME FullInv, TablesInv, Intact
  PROVE  /\ \A k \in Key : Alternates(TK(log)[k], Len(log)) /\ Alternates(LK(log)[k], Len(log))
         /\ \A k \in Key, p \in 1 .. Len(log) :
              /\ TK(log)[k][p] = TKind(log[p], k) /\ TradeRows(log)[p] = TradeOf(log[p])
              /\ LK(log)[k][p] = LKind(log[p], k) /\ LimitRows(log)[p] = LimitOf(log[p])
         /\ \A k \in Key, p \in 1 .. Len(log) :
              Noise(p) => TK(log)[k][p] = "other" /\ LK(log)[k][p] = "other"
<1>1. \A k \in Key : TK(log)[k] = TKinds(log, k) /\ LK(log)[k] = LKinds(log, k)
  BY DEF TK, LK
<1>2. ASSUME NEW k \in Key
      PROVE  Alternates(TK(log)[k], Len(log)) /\ Alternates(LK(log)[k], Len(log))
  <2>1. ChainOK(log, chain)
    BY IntactPlaced DEF TablesInv
  <2> QED BY <1>1, <2>1 DEF ChainOK, LogAlternates
<1>3. ASSUME NEW k \in Key, NEW p \in 1 .. Len(log)
      PROVE  /\ TK(log)[k][p] = TKind(log[p], k) /\ TradeRows(log)[p] = TradeOf(log[p])
             /\ LK(log)[k][p] = LKind(log[p], k) /\ LimitRows(log)[p] = LimitOf(log[p])
  BY <1>1 DEF TKinds, LKinds, TradeRows, LimitRows
<1>4. ASSUME NEW k \in Key, NEW p \in 1 .. Len(log), Noise(p)
      PROVE  TK(log)[k][p] = "other" /\ LK(log)[k][p] = "other"
  BY <1>3, <1>4 DEF Noise, TKind, LKind
<1> QED BY <1>2, <1>3, <1>4

(* The consumer takes a message: both halves of the copy go on following.   *)
LEMMA ReceiveFollows ==
  ASSUME FullInv, TablesInv, role \in {"api", "keeper"}, Copied, Intact, Receive
  PROVE  Copied'
<1>0. /\ Len(log) \in Nat /\ inbox \in Seq(1 .. Len(log)) /\ inbox # <<>>
      /\ inbox' = Tail(inbox) /\ UNCHANGED vars /\ role' = role /\ log' = log
      /\ role \in {"api", "keeper"}
  BY Basics DEF FullInv, Copied, Receive, vars, ledgerVars
<1>1. PICK t0, t \in TradeTable :
        /\ view.trades = TradesOf(t0) /\ Agree(unread.trades, t0, t)
        /\ Follows(TK(log), TradeRows(log), TradeSlots(t))
  BY DEF Copied, Receive, TradesFollow
<1>2. PICK l0, l \in LimitTable :
        /\ view.limits = LimitsOf(l0) /\ Agree(unread.limits, l0, l)
        /\ Follows(LK(log), LimitRows(log), LimitSlots(l))
  BY DEF Copied, Receive, LimitsFollow
<1>3. PICK q \in 1 .. Len(log) : q = Head(inbox)
  BY <1>0
<1>4. PICK e \in Event : e = log[q] /\ Projected(e)
  BY Basics DEF FullInv, Intact, Projected
<1>5. PICK t2, l2, t3, l3 : /\ t2 = TradesAfter(t, e) /\ l2 = LimitsAfter(l, e)
                            /\ t3 = TradesAfter(t0, e) /\ l3 = LimitsAfter(l0, e)
  OBVIOUS
<1>6. view' = [trades |-> TradesOf(t3), limits |-> LimitsOf(l3)]
  <2>1. view = [trades |-> TradesOf(t0), limits |-> LimitsOf(l0)]
    BY <1>1, <1>2 DEF Copied
  <2>2. view' = ApplyTo(view, e)
    BY <1>3, <1>4 DEF Receive
  <2>3. PICK v : v = view
    OBVIOUS
  <2>4. v = [trades |-> TradesOf(t0), limits |-> LimitsOf(l0)]
    BY <2>1, <2>3, Zenon
  <2>5. ApplyTo(v, e) = [trades |-> TradesOf(TradesAfter(t0, e)),
                         limits |-> LimitsOf(LimitsAfter(l0, e))]
    BY <1>0, <1>4, <2>4, ApplyToTables, Zenon
  <2> QED BY <1>5, <2>2, <2>3, <2>5, Zenon
<1>7. /\ t2 \in TradeTable
      /\ \A k \in Key : TradeSlots(t2)[k] =
           CopyStep(role = "api", TKind(e, k), TradeOf(e), TradeSlots(t)[k])
  BY <1>5, TradeSlotsStep DEF TradesAfter
<1>8. /\ l2 \in LimitTable
      /\ \A k \in Key : LimitSlots(l2)[k] =
           CopyStep(role = "api", LKind(e, k), LimitOf(e), LimitSlots(l)[k])
  BY <1>5, LimitSlotsStep DEF LimitsAfter
<1>a. /\ t3 \in TradeTable /\ l3 \in LimitTable /\ unread' = unread
      /\ Agree(unread.trades, t3, t2) /\ Agree(unread.limits, l3, l2)
  <2>1. t3 \in TradeTable /\ l3 \in LimitTable /\ unread' = unread
    BY <1>5, TradeSlotsStep, LimitSlotsStep DEF TradesAfter, LimitsAfter, Receive
  <2>2. Agree(unread.trades, t3, t2)
    BY <1>1, <1>5 DEF Agree, TradesAfter, TradeTable
  <2>3. Agree(unread.limits, l3, l2)
    BY <1>2, <1>5 DEF Agree, LimitsAfter, LimitTable
  <2> QED BY <2>1, <2>2, <2>3
<1>9. TradesFollow'
  <2>1. PICK a, b, c, d : /\ a = TK(log) /\ b = TradeRows(log)
                          /\ c = TradeSlots(t) /\ d = TradeSlots(t2)
    OBVIOUS
  <2>2. /\ \A k \in Key : Alternates(a[k], Len(log))
        /\ \A k \in Key, p \in 1 .. Len(log) : Noise(p) => a[k][p] = "other"
        /\ \A k \in Key : d[k] = CopyStep(role = "api", a[k][Head(inbox)], b[Head(inbox)], c[k])
        /\ Follows(a, b, c)
    BY <1>1, <1>3, <1>4, <1>7, <2>1, ReadingsOfLog
  <2>3. PICK api : api = (role = "api")
    OBVIOUS
  <2>4. Follows(a, b, d)'
    BY <1>0, <2>2, <2>3, MessageFollows
  <2>5. view'.trades = TradesOf(t3) /\ Agree(unread'.trades, t3, t2)
    BY <1>6, <1>a
  <2> QED BY <1>0, <1>7, <1>a, <2>1, <2>4, <2>5 DEF TradesFollow, Follows, Agree
<1>10. LimitsFollow'
  <2>1. PICK a, b, c, d : /\ a = LK(log) /\ b = LimitRows(log)
                          /\ c = LimitSlots(l) /\ d = LimitSlots(l2)
    OBVIOUS
  <2>2. /\ \A k \in Key : Alternates(a[k], Len(log))
        /\ \A k \in Key, p \in 1 .. Len(log) : Noise(p) => a[k][p] = "other"
        /\ \A k \in Key : d[k] = CopyStep(role = "api", a[k][Head(inbox)], b[Head(inbox)], c[k])
        /\ Follows(a, b, c)
    BY <1>2, <1>3, <1>4, <1>8, <2>1, ReadingsOfLog
  <2>3. PICK api : api = (role = "api")
    OBVIOUS
  <2>4. Follows(a, b, d)'
    BY <1>0, <2>2, <2>3, MessageFollows
  <2>5. view'.limits = LimitsOf(l3)' /\ Agree(unread'.limits, l3, l2)
    BY <1>0, <1>6, <1>a DEF LimitsOf, LimitEntry
  <2> QED BY <1>0, <1>8, <1>a, <2>1, <2>4, <2>5 DEF LimitsFollow, Follows, Agree
<1>11. inbox' \in Seq(1 .. Len(log'))
  BY <1>0
<1>12. view' = [trades |-> view'.trades, limits |-> view'.limits]
  BY <1>6
<1> QED BY <1>9, <1>10, <1>11, <1>12 DEF Copied
-----------------------------------------------------------------------------
(* A step of the consumer and the indexer is a step of the indexer or none. *)
LEMMA IndexerMoves ==
  ASSUME [ConsumerNext]_allVars
  PROVE  [Next]_vars /\ (~Publish => ~Fanout)
<1>1. CASE LoadTrades \/ LoadLimits \/ Subscribe \/ Receive \/ Restart \/ UNCHANGED allVars
  <2>1. UNCHANGED vars
    BY <1>1 DEF LoadTrades, LoadLimits, Subscribe, Receive, Restart, allVars
  <2>2. pc' = pc
    BY <2>1 DEF vars, indexerVars, memVars
  <2> QED BY <2>1, <2>2 DEF Fanout
<1>2. CASE Publish
  BY <1>2 DEF Publish, Next, IndexerStep
<1>3. CASE OtherIndexerStep \/ LedgerStep
  <2>1. [Next]_vars
    BY <1>3 DEF OtherIndexerStep, Next, IndexerStep
  <2>2. CASE LedgerStep
    <3>1. pc' = pc
      BY <2>2 DEF LedgerStep, indexerVars, memVars
    <3> QED BY <2>1, <3>1 DEF Fanout
  <2>3. CASE OtherIndexerStep
    <3>1. pc # "fanout" \/ pc' = "down"
      BY <2>3 DEF OtherIndexerStep, Boot, GetEvents, Clamp, RetryError, EventError,
         ApplyEvent, EndPage, Crash, InPage
    <3> QED BY <2>1, <3>1 DEF Fanout
  <2> QED BY <1>3, <2>2, <2>3
<1> QED BY <1>1, <1>2, <1>3 DEF ConsumerNext

(* The halves of the copy that a step leaves alone go on following when the *)
(* stream is kept.                                                          *)
LEMMA HalvesFollow ==
  ASSUME StepGrows, \A n \in 0 .. Len(log) : Stream(n) => Stream(n)', role' = role
  PROVE  /\ view'.trades = view.trades /\ unread'.trades = unread.trades /\ TradesFollow
           => TradesFollow'
         /\ view'.limits = view.limits /\ unread'.limits = unread.limits /\ LimitsFollow
           => LimitsFollow'
<1>1. ASSUME TradesFollow, view'.trades = view.trades, unread'.trades = unread.trades
      PROVE  TradesFollow'
  <2>1. PICK s, t \in TradeTable :
          /\ view.trades = TradesOf(s) /\ Agree(unread.trades, s, t)
          /\ Follows(TK(log), TradeRows(log), TradeSlots(t))
    BY <1>1 DEF TradesFollow
  <2> QED BY <1>1, <2>1, CopiesFollowOn
<1>2. ASSUME LimitsFollow, view'.limits = view.limits, unread'.limits = unread.limits
      PROVE  LimitsFollow'
  <2>1. PICK s, t \in LimitTable :
          /\ view.limits = LimitsOf(s) /\ Agree(unread.limits, s, t)
          /\ Follows(LK(log), LimitRows(log), LimitSlots(t))
    BY <1>2 DEF LimitsFollow
  <2> QED BY <1>2, <2>1, CopiesFollowOn
<1> QED BY <1>1, <1>2

(* A place in the log stays one.                                            *)
LEMMA InboxGrows ==
  ASSUME StepGrows, NEW box \in Seq(1 .. Len(log))
  PROVE  box \in Seq(1 .. Len(log'))
<1>1. /\ Len(log) \in Nat /\ Len(log') \in Nat /\ Len(log) <= Len(log')
  BY DEF StepGrows
<1>2. 1 .. Len(log) \subseteq 1 .. Len(log')
  BY <1>1
<1>3. \A S, T : S \subseteq T => Seq(S) \subseteq Seq(T)
  OBVIOUS
<1> QED BY <1>2, <1>3, Zenon

(* Under the steps that publish nothing, load nothing and take no message,  *)
(* the copy goes on following.                                              *)
LEMMA OtherKeepsCopy ==
  ASSUME FullInv, FullInv', TablesInv, Intact, Intact', [Next]_vars, ~Fanout, Copied,
         inbox' = inbox, view' = view, role' = role, unread' = unread,
         phase' = phase \/ Subscribe
  PROVE  Copied'
<1>1. StepGrows
  BY NextGrows
<1>2. /\ inbox \in Seq(1 .. Len(log))
      /\ view = [trades |-> view.trades, limits |-> view.limits]
  BY DEF Copied
<1>3. \A n \in 0 .. Len(log) : Stream(n) => Stream(n)'
  BY <1>2, StreamKept
<1>4. inbox' \in Seq(1 .. Len(log'))
  BY <1>1, <1>2, InboxGrows
<1>5. (TradesFollow => TradesFollow') /\ (LimitsFollow => LimitsFollow')
  BY <1>1, <1>3, HalvesFollow
<1>6. /\ phase' \in {"limits", "loaded", "live"} => phase \in {"limits", "loaded", "live"}
      /\ phase' \in {"loaded", "live"} => phase \in {"loaded", "live"}
  BY DEF Subscribe
<1> QED BY <1>2, <1>4, <1>5, <1>6 DEF Copied

(* A load that leaves rows out agrees with a complete one elsewhere.        *)
LEMMA WithoutTable ==
  ASSUME NEW gone
  PROVE  /\ \A t \in TradeTable : Without(t, gone) \in TradeTable /\ Agree(gone, Without(t, gone), t)
         /\ \A t \in LimitTable : Without(t, gone) \in LimitTable /\ Agree(gone, Without(t, gone), t)
  BY DEF Without, Agree, TradeTable, LimitTable

(* A load takes its half of the copy from the tables and leaves the other.  *)
LEMMA LoadKeepsCopy ==
  ASSUME unread = [trades |-> unread.trades, limits |-> unread.limits], FullInv, FullInv', TablesInv, Intact, Intact', Copied, inbox = <<>>,
         LoadTrades \/ LoadLimits
  PROVE  Copied'
<1>1. /\ UNCHANGED vars /\ inbox' = inbox /\ role' = role
      /\ view = [trades |-> view.trades, limits |-> view.limits]
      /\ db.trades \in TradeTable /\ db.limits \in LimitTable
  BY DEF LoadTrades, LoadLimits, Copied, FullInv, TypeOK, DBType
<1>2. StepGrows /\ pc' = pc /\ inbox \in Seq(1 .. Len(log))
  BY <1>1, NextGrows DEF vars, indexerVars, memVars, Copied
<1>3. ~Fanout
  BY <1>2 DEF Fanout
<1>4. \A n \in 0 .. Len(log) : Stream(n) => Stream(n)'
  BY <1>1, <1>2, <1>3, StreamKept
<1>5. inbox' \in Seq(1 .. Len(log'))
  BY <1>1, <1>2, InboxGrows
<1>6. CASE LoadTrades
  <2>0. PICK gone \in SUBSET Key :
          /\ unread' = [unread EXCEPT !.trades = gone]
          /\ view' = [view EXCEPT !.trades = TradesOf(Without(db.trades, gone))]
    BY <1>6 DEF LoadTrades
  <2>t. PICK s, t \in TradeTable : t = db.trades /\ s = Without(t, gone) /\ Agree(gone, s, t)
    BY <1>1, WithoutTable
  <2>1. /\ view' = [trades |-> TradesOf(s), limits |-> view.limits]
        /\ phase' = "limits"
    BY <1>1, <1>6, <2>0, <2>t DEF LoadTrades
  <2>2. view'.trades = TradesOf(s) /\ Agree(unread'.trades, s, t)
    <3>1. unread'.trades = gone
      BY <2>0
    <3> QED BY <2>1, <2>t, <3>1
  <2>4. TradesFollow'
    <3>1. Follows(TK(log), TradeRows(log), TradeSlots(t))
      BY <2>t, LoadFollows
    <3> QED BY <1>1, <1>2, <1>4, <2>2, <3>1, CopiesFollowOn
  <2> QED BY <1>5, <2>1, <2>4 DEF Copied
<1>7. CASE LoadLimits
  <2>0. PICK gone \in SUBSET Key :
          /\ unread' = [unread EXCEPT !.limits = gone]
          /\ view' = [view EXCEPT !.limits = LimitsOf(Without(db.limits, gone))]
    BY <1>7 DEF LoadLimits
  <2>t. PICK s, t \in LimitTable : t = db.limits /\ s = Without(t, gone) /\ Agree(gone, s, t)
    BY <1>1, WithoutTable
  <2>1. /\ view' = [trades |-> view.trades, limits |-> LimitsOf(s)]
        /\ phase = "limits" /\ phase' = "loaded"
    BY <1>1, <1>7, <2>0, <2>t DEF LoadLimits
  <2>2. /\ view'.limits = LimitsOf(s) /\ view'.trades = view.trades
        /\ Agree(unread'.limits, s, t) /\ unread'.trades = unread.trades
    <3>1. unread'.limits = gone /\ unread'.trades = unread.trades
      BY <2>0
    <3> QED BY <2>1, <2>t, <3>1
  <2>4. LimitsFollow'
    <3>1. Follows(LK(log), LimitRows(log), LimitSlots(t))
      BY <2>t, LoadFollows
    <3> QED BY <1>1, <1>2, <1>4, <2>2, <3>1, CopiesFollowOn
  <2>5. TradesFollow'
    BY <1>1, <1>2, <1>4, <2>1, <2>2, HalvesFollow DEF Copied
  <2> QED BY <1>5, <2>1, <2>4, <2>5 DEF Copied
<1> QED BY <1>6, <1>7

(* A message that reaches the subscriber goes to the end of its stream.     *)
LEMMA PublishKeepsCopy ==
  ASSUME FullInv, FullInv', TablesInv, Intact, Intact', [Next]_vars, Copied,
         CopyInv, Publish, missed = {}, missed' = {}
  PROVE  Copied'
<1>1. /\ Fanout /\ view' = view /\ role' = role /\ phase' = phase /\ unread' = unread
      /\ view = [trades |-> view.trades, limits |-> view.limits]
      /\ inbox \in Seq(1 .. Len(log))
  BY DEF Publish, Copied
<1>2. StepGrows
  BY NextGrows
<1>3. CASE phase = "down"
  <2>1. inbox' = inbox
    BY <1>3 DEF Publish
  <2>2. inbox' \in Seq(1 .. Len(log'))
    BY <1>1, <1>2, <2>1, InboxGrows
  <2> QED BY <1>1, <1>3, <2>2 DEF Copied
<1>4. CASE phase # "down"
  <2>1. phase = "live" /\ inbox' = Append(inbox, next)
    BY <1>4 DEF Publish, CopyInv
  <2>2. TradesFollow /\ LimitsFollow
    BY <2>1 DEF Copied
  <2>3. \A n \in 0 .. Len(log) : Stream(n) => Stream(n)' /\ inbox' \in Seq(1 .. Len(log'))
    BY <1>1, <2>1, PublishStream
  <2>4. \E n \in 0 .. Len(log) : Stream(n)
    <3>1. PICK m \in 0 .. Len(log) : \E n \in 0 .. m : Stream(n)
      BY <2>2 DEF TradesFollow, Follows
    <3> QED BY <3>1
  <2>5. inbox' \in Seq(1 .. Len(log'))
    BY <2>3, <2>4
  <2>6. TradesFollow' /\ LimitsFollow'
    BY <1>1, <1>2, <2>2, <2>3, HalvesFollow
  <2> QED BY <1>1, <2>5, <2>6 DEF Copied
<1> QED BY <1>3, <1>4
(* Whatever happens, the copy goes on following the log, unless a message   *)
(* was missed or the indexer lost something.                                *)
LEMMA CopyInvKept ==
  ASSUME FullInv, TablesInv, CopyInv, [ConsumerNext]_allVars
  PROVE  CopyInv'
<1>1. [Next]_vars /\ (~Publish => ~Fanout)
  BY IndexerMoves
<1>2. FullInv'
  BY <1>1, NextKeepsInv, OriginKept DEF FullInv
<1>3. /\ role' = role /\ phase' \in {"down", "limits", "loaded", "live"}
      /\ phase' # "live" => inbox' = <<>>
      /\ unread' = [trades |-> unread'.trades, limits |-> unread'.limits]
  BY DEF CopyInv, ConsumerNext, LoadTrades, LoadLimits, Subscribe, Publish, Receive, Restart,
     AllRead, allVars, consumerVars
<1>4. ASSUME Intact', missed' = {} PROVE Copied'
  <2>1. Intact
    BY <1>1, <1>4, IntactBefore
  <2>2. CASE Restart
    <3>1. /\ view' = NoView /\ inbox' = <<>> /\ phase' = "down"
      BY <2>2 DEF Restart
    <3>2. view' = [trades |-> view'.trades, limits |-> view'.limits]
      BY <3>1 DEF NoView
    <3> QED BY <3>1, <3>2 DEF Copied
  <2>3. CASE ~Restart
    <3>1. missed = {}
      BY <1>4, <2>3 DEF ConsumerNext, LoadTrades, LoadLimits, Subscribe, Publish, Receive,
         allVars, consumerVars
    <3>2. Copied
      BY <2>1, <3>1 DEF CopyInv
    <3>3. CASE LoadTrades \/ LoadLimits
      <4>1. inbox = <<>>
        BY <3>3 DEF LoadTrades, LoadLimits, CopyInv
      <4> QED BY <1>2, <1>4, <2>1, <3>2, <3>3, <4>1, LoadKeepsCopy DEF CopyInv
    <3>4. CASE Receive
      BY <2>1, <3>2, <3>4, ReceiveFollows DEF CopyInv
    <3>5. CASE Publish
      BY <1>1, <1>2, <1>4, <2>1, <3>1, <3>2, <3>5, PublishKeepsCopy
    <3>6. CASE Subscribe \/ UNCHANGED consumerVars
      <4>1. inbox' = inbox /\ view' = view /\ unread' = unread /\ (phase' = phase \/ Subscribe)
        BY <3>6 DEF Subscribe, consumerVars
      <4>2. CASE Publish
        BY <3>5, <4>2
      <4>3. CASE ~Publish
        BY <1>1, <1>2, <1>3, <1>4, <2>1, <3>2, <4>1, <4>3, OtherKeepsCopy
      <4> QED BY <4>2, <4>3
    <3>7. \/ LoadTrades \/ LoadLimits \/ Receive \/ Publish \/ Subscribe
          \/ UNCHANGED consumerVars
      BY <2>3 DEF ConsumerNext, allVars
    <3> QED BY <3>3, <3>4, <3>5, <3>6, <3>7
  <2> QED BY <2>2, <2>3
<1> QED BY <1>3, <1>4 DEF CopyInv

(* Nothing is loaded at the start.                                          *)
LEMMA InitCopy ==
  ASSUME ConsumerInit
  PROVE  CopyInv
<1>1. /\ view = [trades |-> view.trades, limits |-> view.limits]
      /\ unread = [trades |-> unread.trades, limits |-> unread.limits]
  BY DEF ConsumerInit, NoView, AllRead
<1> QED BY <1>1 DEF ConsumerInit, CopyInv, Copied

(* The indexer under a consumer is the indexer.                             *)
LEMMA IndexerRuns == ConsumerSpec => Spec
<1>1. ConsumerInit => Init
  BY DEF ConsumerInit
<1>2. [ConsumerNext]_allVars => [Next]_vars
  BY IndexerMoves
<1> QED BY <1>1, <1>2, PTL DEF ConsumerSpec, Spec

(* A table whose slots follow the log is the contracts' once everything is  *)
(* published and consumed.                                                  *)
LEMMA FollowedToTheEnd ==
  ASSUME FullInv, TablesInv, Quiet, NEW kinds, NEW rows, NEW slots, Follows(kinds, rows, slots),
         \A k \in Key, p \in 1 .. Len(log) : Noise(p) => kinds[k][p] = "other"
  PROVE  \A k \in Key : Good(kinds[k], rows, Len(log), Len(log), slots[k])
<1>1. PICK m \in 0 .. Len(log) : \E n \in 0 .. m :
        Stream(n) /\ \A k \in Key : Good(kinds[k], rows, n, m, slots[k])
  BY DEF Follows
<1>2. PICK n \in 0 .. m : Stream(n) /\ \A k \in Key : Good(kinds[k], rows, n, m, slots[k])
  BY <1>1
<1>3. /\ Len(log) \in Nat /\ cursor.pos = Len(log) /\ pc = "poll" /\ inbox = <<>>
      /\ n \in Nat /\ m \in Nat /\ n <= Len(log) /\ m <= Len(log)
  BY Basics DEF FullInv, Quiet, AtRest
<1>4. \A p \in 1 .. Len(log) : ~ToPublish(p)
  BY <1>3 DEF ToPublish, Coming, Wanted
<1>5. \A p \in n + 1 .. Len(log) : Noise(p)
  <2>1. Len(inbox) = 0 /\ Told(n, inbox, Len(inbox)) = n
    BY <1>3 DEF Told
  <2> QED BY <1>2, <1>3, <1>4, <2>1 DEF Stream
<1>6. ASSUME NEW k \in Key PROVE Good(kinds[k], rows, Len(log), Len(log), slots[k])
  <2> DEFINE kd == kinds[k]
             r == slots[k]
             len == Len(log)
  <2>1. /\ len \in Nat /\ n <= len /\ len = (IF len <= m THEN m ELSE len)
        /\ Good(kd, rows, n, m, r) /\ \A p \in n + 1 .. len : kd[p] = "other"
    BY <1>2, <1>3, <1>5
  <2> HIDE DEF kd, r, len
  <2>2. Good(kd, rows, len, len, r)
    BY <1>3, <2>1, SkipGood
  <2> QED BY <2>2 DEF kd, r, len
<1> QED BY <1>6

(* The copies in the API and in the keeper are the contracts' open trades   *)
(* and orders once everything is published and consumed, if no message was  *)
(* missed and the indexer lost nothing, in every slot whose row the load    *)
(* read (cache.go:127-168 and state.go:96-101 pass over rows they cannot    *)
(* scan): TradeCache and TradeState apply messages already in what they     *)
(* loaded, and messages sent again, without harm (cache.go applyEvent,      *)
(* state.go Apply).                                                         *)
THEOREM CopiesConverge == ConsumerSpec => []CopyConverges
<1>1. FullInv /\ TablesInv /\ CopyInv => CopyConverges
  <2> SUFFICES ASSUME FullInv, TablesInv, CopyInv, Quiet, Intact, missed = {}
               PROVE  Mirrors
    BY DEF CopyConverges
  <2>1. /\ view = [trades |-> view.trades, limits |-> view.limits]
        /\ TradesFollow /\ LimitsFollow
    BY DEF CopyInv, Copied, Quiet
  <2>2. PICK s, t \in TradeTable :
          view.trades = TradesOf(s) /\ Agree(unread.trades, s, t) /\ Follows(TK(log), TradeRows(log), TradeSlots(t))
    BY <2>1 DEF TradesFollow
  <2>3. PICK h, l \in LimitTable :
          view.limits = LimitsOf(h) /\ Agree(unread.limits, h, l) /\ Follows(LK(log), LimitRows(log), LimitSlots(l))
    BY <2>1 DEF LimitsFollow
  <2>4. \A k \in Key : Good(TK(log)[k], TradeRows(log), Len(log), Len(log), TradeSlots(t)[k])
    <3>1. PICK a, b, c : a = TK(log) /\ b = TradeRows(log) /\ c = TradeSlots(t)
      OBVIOUS
    <3>2. /\ \A k \in Key, p \in 1 .. Len(log) : Noise(p) => a[k][p] = "other"
          /\ Follows(a, b, c)
      BY <2>2, <3>1, ReadingsOfLog
    <3>3. \A k \in Key : Good(a[k], b, Len(log), Len(log), c[k])
      BY <3>2, FollowedToTheEnd
    <3> QED BY <3>1, <3>3
  <2>5. \A k \in Key : Good(LK(log)[k], LimitRows(log), Len(log), Len(log), LimitSlots(l)[k])
    <3>1. PICK a, b, c : a = LK(log) /\ b = LimitRows(log) /\ c = LimitSlots(l)
      OBVIOUS
    <3>2. /\ \A k \in Key, p \in 1 .. Len(log) : Noise(p) => a[k][p] = "other"
          /\ Follows(a, b, c)
      BY <2>3, <3>1, ReadingsOfLog
    <3>3. \A k \in Key : Good(a[k], b, Len(log), Len(log), c[k])
      BY <3>2, FollowedToTheEnd
    <3> QED BY <3>1, <3>3
  <2> DEFINE u == [trades |-> t, limits |-> l, rates |-> chain.rates]
  <2>6. u.trades = t /\ u.limits = l /\ u.rates = chain.rates
    OBVIOUS
  <2> HIDE DEF u
  <2>7. Mirror(log, Len(log), Len(log), chain)
    BY IntactPlaced DEF TablesInv, ChainOK
  <2>8. Mirror(log, Len(log), Len(log), u)
    BY <2>4, <2>5, <2>6, <2>7 DEF Mirror, TK, LK, TradeSlots, LimitSlots
  <2>9. /\ chain.trades \in TradeTable /\ chain.limits \in LimitTable
        /\ chain.rates \in [Key -> [Rate -> Nat]] /\ log \in Seq(Event)
        /\ Len(log) \in 0 .. Len(log)
    BY Basics DEF FullInv, TypeOK, LedgerTypeOK
  <2>10. chain.trades = t /\ chain.limits = l
    <3>1. PICK lg, m, c : lg = log /\ m = Len(log) /\ c = chain
      OBVIOUS
    <3>2. u.trades = c.trades /\ u.limits = c.limits
      BY <2>6, <2>7, <2>8, <2>9, <3>1, MirrorUnique
    <3> QED BY <2>6, <3>1, <3>2
  <2>11. ASSUME NEW k \in Key \ unread.trades PROVE view.trades[k] = TradesOf(chain.trades)[k]
    BY <2>2, <2>10 DEF Agree, TradesOf
  <2>12. ASSUME NEW k \in Key \ unread.limits PROVE view.limits[k] = LimitsOf(chain.limits)[k]
    BY <2>3, <2>10 DEF Agree, LimitsOf
  <2> QED BY <2>11, <2>12 DEF Mirrors
<1>2. FullInv /\ TablesInv /\ CopyInv /\ [ConsumerNext]_allVars => CopyInv'
  BY CopyInvKept
<1>3. ConsumerInit => CopyInv
  BY InitCopy
<1> QED BY <1>1, <1>2, <1>3, IndexerRuns, TablesInvariant, PTL DEF ConsumerSpec
=============================================================================
