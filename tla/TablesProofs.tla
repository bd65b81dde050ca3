---------------------------- MODULE TablesProofs ----------------------------
(***************************************************************************)
(* The tables the indexer keeps mirror the contracts, for every value of   *)
(* the constants and any number of crashes, restarts and pages delivered   *)
(* twice.                                                                  *)
(***************************************************************************)
EXTENDS IndexerProofs

(* A slot of a table, seen apart from the table it is in: an event at       *)
(* position p of the log opens, updates, closes or does not concern it      *)
(* (kind[p]); new[p] is the row the event would write.  A row keeps the     *)
(* transaction and the side it was opened with; an update replaces the rest.*)
NoSlot == [on |-> FALSE, tx |-> 0, fix |-> FALSE, var |-> <<>>]
Turn == {"open", "close"}

Step(kd, nw, r) ==
  CASE kd = "open" ->
         [on |-> TRUE, tx |-> IF r.on THEN r.tx ELSE nw.tx, fix |-> nw.fix, var |-> nw.var]
    [] kd = "update" /\ r.on ->
         [on |-> TRUE, tx |-> r.tx, fix |-> r.fix, var |-> nw.var]
    [] kd = "close" -> NoSlot
    [] OTHER -> r

Run(kind, new, r, p) == Step(kind[p], new[p], r)

(* No event in i+1..j opens or closes the slot; the last that does is at l. *)
Idle(kind, i, j) == \A p \in i + 1 .. j : kind[p] \notin Turn
Last(kind, i, j, l) == l \in i + 1 .. j /\ kind[l] \in Turn /\ Idle(kind, l, j)

(* The row is the one the log up to n leaves, but for the updates that      *)
(* another delivery of n+1..m will repeat.                                  *)
Near(kind, new, n, m, r) ==
  \/ /\ ~r.on
     /\ Idle(kind, 0, n) \/ \E l : Last(kind, 0, n, l) /\ kind[l] = "close"
  \/ /\ r.on
     /\ \E o : /\ Last(kind, 0, n, o) /\ kind[o] = "open"
               /\ r.tx = new[o].tx /\ r.fix = new[o].fix
               /\ \/ \E p \in n + 1 .. m : kind[p] = "update"
                  \/ \E u \in o .. m : /\ u = o \/ kind[u] = "update"
                                       /\ r.var = new[u].var
                                       /\ \A p \in u + 1 .. m : kind[p] # "update"

(* The row is the one the open at l wrote, but for updates up to m.         *)
Own(kind, new, l, m, r) ==
  /\ r.tx = new[l].tx /\ r.fix = new[l].fix
  /\ r.var = new[l].var \/ \E p \in l + 1 .. m : kind[p] = "update"

(* Delivering n+1..m again leaves the row that the log up to m leaves: the  *)
(* last event of n+1..m that opens or closes the slot decides, an open only *)
(* if it finds the slot empty or holding the row it had written itself.     *)
Good(kind, new, n, m, r) ==
  \/ \E l : Last(kind, n, m, l) /\ kind[l] = "close"
  \/ \E l : /\ Last(kind, n, m, l) /\ kind[l] = "open"
            /\ \/ ~r.on \/ Own(kind, new, l, m, r)
               \/ \E c \in n + 1 .. l - 1 : kind[c] = "close"
  \/ Idle(kind, n, m) /\ Near(kind, new, n, m, r)

(* The contracts open a slot again only after closing it, and update it     *)
(* only while it is open.                                                   *)
Alternates(kind, len) ==
  \A p \in 1 .. len :
    /\ kind[p] = "open" =>
         \A q \in 1 .. p - 1 : kind[q] = "open" =>
           \E c \in q + 1 .. p - 1 : kind[c] = "close"
    /\ kind[p] = "update" => \E o : Last(kind, 0, p - 1, o) /\ kind[o] = "open"

(* A restart at an earlier position leaves a good row good.                 *)
LEMMA RestartGood ==
  ASSUME NEW kind, NEW new, NEW m \in Nat, NEW n \in 0 .. m, NEW i \in 0 .. n, NEW r,
         Good(kind, new, n, m, r)
  PROVE  Good(kind, new, i, m, r)
<1>1. ASSUME NEW l, Last(kind, n, m, l)
      PROVE  Last(kind, i, m, l)
  BY <1>1 DEF Last
<1>2. CASE \E l : Last(kind, n, m, l) /\ kind[l] = "close"
  BY <1>1, <1>2 DEF Good
<1>3. CASE \E l : /\ Last(kind, n, m, l) /\ kind[l] = "open"
                  /\ \/ ~r.on \/ Own(kind, new, l, m, r)
                     \/ \E c \in n + 1 .. l - 1 : kind[c] = "close"
  <2>1. PICK l : /\ Last(kind, n, m, l) /\ kind[l] = "open"
                 /\ \/ ~r.on \/ Own(kind, new, l, m, r)
                    \/ \E c \in n + 1 .. l - 1 : kind[c] = "close"
    BY <1>3
  <2>2. (\E c \in n + 1 .. l - 1 : kind[c] = "close") =>
          \E c \in i + 1 .. l - 1 : kind[c] = "close"
    BY <2>1 DEF Last
  <2> QED BY <1>1, <2>1, <2>2 DEF Good
<1>4. CASE Idle(kind, n, m) /\ Near(kind, new, n, m, r)
  <2>1. CASE Idle(kind, i, n)
    <3>1. Idle(kind, i, m)
      BY <1>4, <2>1 DEF Idle
    <3>2. ASSUME NEW l, Last(kind, 0, n, l) PROVE Last(kind, 0, i, l)
      BY <2>1, <3>2 DEF Last, Idle
    <3>3. Idle(kind, 0, n) => Idle(kind, 0, i)
      BY DEF Idle
    <3>4. (\E p \in n + 1 .. m : kind[p] = "update") =>
            \E p \in i + 1 .. m : kind[p] = "update"
      OBVIOUS
    <3>5. Near(kind, new, i, m, r)
      <4>1. CASE ~r.on
        BY <1>4, <3>2, <3>3, <4>1 DEF Near
      <4>2. CASE r.on
        BY <1>4, <3>2, <3>4, <4>2 DEF Near
      <4> QED BY <4>1, <4>2
    <3> QED BY <3>1, <3>5 DEF Good
  <2>2. CASE ~Idle(kind, i, n)
    <3>1. PICK q \in i + 1 .. n : kind[q] \in Turn
      BY <2>2 DEF Idle
    <3>2. ~Idle(kind, 0, n)
      BY <3>1 DEF Idle
    <3>3. ASSUME NEW l, Last(kind, 0, n, l) PROVE Last(kind, i, m, l)
      <4>1. l >= q /\ l \in 1 .. n
        BY <3>1, <3>3 DEF Last, Idle
      <4>2. Idle(kind, l, m)
        BY <1>4, <3>3, <4>1 DEF Last, Idle
      <4> QED BY <3>1, <3>3, <4>1, <4>2 DEF Last
    <3>4. CASE ~r.on
      <4>1. PICK l : Last(kind, 0, n, l) /\ kind[l] = "close"
        BY <1>4, <3>2, <3>4 DEF Near
      <4> QED BY <3>3, <4>1 DEF Good
    <3>5. CASE r.on
      <4>1. PICK o : /\ Last(kind, 0, n, o) /\ kind[o] = "open"
                     /\ r.tx = new[o].tx /\ r.fix = new[o].fix
                     /\ \/ \E p \in n + 1 .. m : kind[p] = "update"
                        \/ \E u \in o .. m : /\ u = o \/ kind[u] = "update"
                                             /\ r.var = new[u].var
        BY <1>4, <3>5 DEF Near
      <4>o. o \in 1 .. n
        BY <4>1 DEF Last
      <4>2. Own(kind, new, o, m, r)
        <5>1. (\E p \in n + 1 .. m : kind[p] = "update") =>
                \E p \in o + 1 .. m : kind[p] = "update"
          BY <4>o
        <5>2. \A u \in o .. m : u = o \/ u \in o + 1 .. m
          BY <4>o
        <5> QED BY <4>1, <5>1, <5>2 DEF Own
      <4> QED BY <3>3, <4>1, <4>2 DEF Good
    <3> QED BY <3>4, <3>5
  <2> QED BY <2>1, <2>2
<1> QED BY <1>2, <1>3, <1>4 DEF Good

(* What one more event does to a row that is near.                          *)
LEMMA RunNear ==
  ASSUME NEW kind, NEW new, NEW n \in Nat, NEW m \in Nat, n + 1 <= m, NEW r,
         kind[n + 1] \notin Turn, Near(kind, new, n, m, r)
  PROVE  Near(kind, new, n + 1, m, Run(kind, new, r, n + 1))
<1> DEFINE s == Run(kind, new, r, n + 1)
<1> SUFFICES Near(kind, new, n + 1, m, s)
  OBVIOUS
<1>1. ASSUME NEW l, Last(kind, 0, n, l) PROVE Last(kind, 0, n + 1, l)
  BY <1>1 DEF Last, Idle
<1>2. CASE ~r.on
  <2>1. s = r
    BY <1>2 DEF Run, Step, Turn
  <2>2. Idle(kind, 0, n) => Idle(kind, 0, n + 1)
    BY DEF Idle
  <2> QED BY <1>1, <1>2, <2>1, <2>2 DEF Near
<1>3. CASE r.on
  <2>1. PICK o : /\ Last(kind, 0, n, o) /\ kind[o] = "open"
                 /\ r.tx = new[o].tx /\ r.fix = new[o].fix
                 /\ \/ \E p \in n + 1 .. m : kind[p] = "update"
                    \/ \E u \in o .. m : /\ u = o \/ kind[u] = "update"
                                         /\ r.var = new[u].var
                                         /\ \A p \in u + 1 .. m : kind[p] # "update"
    BY <1>3 DEF Near
  <2>o. o \in 1 .. n
    BY <2>1 DEF Last
  <2>2. CASE kind[n + 1] = "update"
    <3>1. s = [on |-> TRUE, tx |-> r.tx, fix |-> r.fix, var |-> new[n + 1].var]
      BY <1>3, <2>2 DEF Run, Step, Turn
    <3>2. s.on /\ s.tx = r.tx /\ s.fix = r.fix /\ s.var = new[n + 1].var
      BY <3>1
    <3>3. \/ \E p \in (n + 1) + 1 .. m : kind[p] = "update"
          \/ /\ n + 1 \in o .. m
             /\ \A p \in (n + 1) + 1 .. m : kind[p] # "update"
      BY <2>o
    <3> HIDE DEF s
    <3> QED BY <1>1, <2>1, <2>2, <3>2, <3>3 DEF Near
  <2>3. CASE kind[n + 1] # "update"
    <3>1. s = r
      BY <1>3, <2>3 DEF Run, Step, Turn
    <3>2. (\E p \in n + 1 .. m : kind[p] = "update") =>
            \E p \in (n + 1) + 1 .. m : kind[p] = "update"
      <4> SUFFICES ASSUME NEW p \in n + 1 .. m, kind[p] = "update"
                   PROVE  p \in (n + 1) + 1 .. m
        OBVIOUS
      <4>1. p # n + 1
        BY <2>3
      <4> QED BY <4>1
    <3> HIDE DEF s
    <3> QED BY <1>1, <1>3, <2>1, <3>1, <3>2 DEF Near
  <2> QED BY <2>2, <2>3
<1> QED BY <1>2, <1>3

(* After a close the slot is empty; after an open of an empty slot, or of   *)
(* one that holds the row of this open, it holds the row the open writes.   *)
LEMMA RunTurn ==
  ASSUME NEW kind, NEW new, NEW n \in Nat, NEW m \in Nat, n + 1 <= m, NEW r,
         kind[n + 1] \in Turn, Idle(kind, n + 1, m),
         kind[n + 1] = "open" => ~r.on \/ r.tx = new[n + 1].tx
  PROVE  Good(kind, new, n + 1, m, Run(kind, new, r, n + 1))
<1> DEFINE s == Run(kind, new, r, n + 1)
<1> SUFFICES Good(kind, new, n + 1, m, s)
  OBVIOUS
<1>1. Last(kind, 0, n + 1, n + 1)
  BY DEF Last, Idle
<1>2. CASE kind[n + 1] = "close"
  <2>1. s = NoSlot /\ ~NoSlot.on
    BY <1>2 DEF Run, Step, NoSlot
  <2> HIDE DEF s
  <2> QED BY <1>1, <1>2, <2>1 DEF Good, Near
<1>3. CASE kind[n + 1] = "open"
  <2>1. s.on /\ s.tx = new[n + 1].tx /\ s.fix = new[n + 1].fix /\ s.var = new[n + 1].var
    BY <1>3 DEF Run, Step
  <2>2. \/ \E p \in (n + 1) + 1 .. m : kind[p] = "update"
        \/ /\ n + 1 \in n + 1 .. m
           /\ \A p \in (n + 1) + 1 .. m : kind[p] # "update"
    OBVIOUS
  <2> HIDE DEF s
  <2>3. Near(kind, new, n + 1, m, s)
    BY <1>1, <1>3, <2>1, <2>2 DEF Near
  <2> QED BY <2>3 DEF Good
<1> QED BY <1>2, <1>3 DEF Turn

(* Delivering the next event again leaves a good row good.                  *)
LEMMA RedeliverGood ==
  ASSUME NEW kind, NEW new, NEW n \in Nat, NEW m \in Nat, n + 1 <= m, NEW r,
         Alternates(kind, m), Good(kind, new, n, m, r)
  PROVE  Good(kind, new, n + 1, m, Run(kind, new, r, n + 1))
<1> DEFINE s == Run(kind, new, r, n + 1)
<1> SUFFICES Good(kind, new, n + 1, m, s)
  OBVIOUS
<1>1. ASSUME NEW l, Last(kind, n, m, l), l # n + 1
      PROVE  Last(kind, n + 1, m, l)
  BY <1>1 DEF Last
<1>2. CASE \E l : Last(kind, n, m, l) /\ kind[l] = "close"
  <2>1. PICK l : Last(kind, n, m, l) /\ kind[l] = "close"
    BY <1>2
  <2>2. CASE l = n + 1
    <3>1. kind[n + 1] \in Turn /\ Idle(kind, n + 1, m) /\ kind[n + 1] # "open"
      BY <2>1, <2>2 DEF Last
    <3> QED BY <3>1, RunTurn
  <2>3. CASE l # n + 1
    BY <1>1, <2>1, <2>3 DEF Good
  <2> QED BY <2>2, <2>3
<1>3. CASE \E l : /\ Last(kind, n, m, l) /\ kind[l] = "open"
                  /\ \/ ~r.on \/ Own(kind, new, l, m, r)
                     \/ \E c \in n + 1 .. l - 1 : kind[c] = "close"
  <2>1. PICK l : /\ Last(kind, n, m, l) /\ kind[l] = "open"
                 /\ \/ ~r.on \/ Own(kind, new, l, m, r)
                    \/ \E c \in n + 1 .. l - 1 : kind[c] = "close"
    BY <1>3
  <2>l. l \in n + 1 .. m /\ kind[l] \in Turn /\ Idle(kind, l, m)
    BY <2>1 DEF Last
  <2>2. CASE l = n + 1
    <3>1. ~r.on \/ r.tx = new[n + 1].tx
      BY <2>1, <2>2 DEF Own
    <3> QED BY <2>l, <2>2, <3>1, RunTurn
  <2>3. CASE l # n + 1
    <3>1. Last(kind, n + 1, m, l)
      BY <1>1, <2>1, <2>3
    <3>2. \/ ~s.on \/ Own(kind, new, l, m, s)
          \/ \E c \in (n + 1) + 1 .. l - 1 : kind[c] = "close"
      <4>1. CASE kind[n + 1] = "close"
        BY <4>1 DEF Run, Step, NoSlot
      <4>2. CASE kind[n + 1] = "open"
        <5>1. l \in 1 .. m /\ n + 1 \in 1 .. l - 1
          BY <2>l, <2>3
        <5> QED BY <2>1, <4>2, <5>1 DEF Alternates
      <4>u. CASE kind[n + 1] = "update"
        <5>1. n + 1 \in 1 .. m /\ l \in 1 .. m /\ n = (n + 1) - 1
          BY <2>l
        <5>2. PICK o : Last(kind, 0, n, o) /\ kind[o] = "open"
          BY <4>u, <5>1 DEF Alternates
        <5>3. o \in 1 .. n /\ o \in 1 .. l - 1
          BY <2>l, <5>2 DEF Last
        <5>4. PICK c \in o + 1 .. l - 1 : kind[c] = "close"
          BY <2>1, <5>1, <5>2, <5>3 DEF Alternates
        <5>5. c # n + 1 /\ ~(c \in o + 1 .. n)
          BY <4>u, <5>2, <5>3, <5>4 DEF Last, Idle, Turn
        <5>6. c \in (n + 1) + 1 .. l - 1
          BY <2>l, <5>3, <5>4, <5>5
        <5> QED BY <5>4, <5>6
      <4>3. CASE kind[n + 1] \notin Turn \cup {"update"}
        <5>1. s = r
          BY <4>3 DEF Run, Step, Turn
        <5>2. (\E c \in n + 1 .. l - 1 : kind[c] = "close") =>
                \E c \in (n + 1) + 1 .. l - 1 : kind[c] = "close"
          <6> SUFFICES ASSUME NEW c \in n + 1 .. l - 1, kind[c] = "close"
                       PROVE  c \in (n + 1) + 1 .. l - 1
            OBVIOUS
          <6>1. c # n + 1
            BY <4>3 DEF Turn
          <6> QED BY <2>l, <6>1
        <5> HIDE DEF s
        <5> QED BY <2>1, <5>1, <5>2
      <4> QED BY <4>1, <4>2, <4>u, <4>3 DEF Turn
    <3> HIDE DEF s
    <3> QED BY <2>1, <3>1, <3>2 DEF Good
  <2> QED BY <2>2, <2>3
<1>4. CASE Idle(kind, n, m) /\ Near(kind, new, n, m, r)
  <2>1. kind[n + 1] \notin Turn /\ Idle(kind, n + 1, m)
    BY <1>4 DEF Idle
  <2>2. Near(kind, new, n + 1, m, s)
    BY <1>4, <2>1, RunNear
  <2> HIDE DEF s
  <2> QED BY <2>1, <2>2 DEF Good
<1> QED BY <1>2, <1>3, <1>4 DEF Good

(* At the front of the log a good row is the row the log leaves.            *)
LEMMA GoodAtFront ==
  ASSUME NEW kind, NEW new, NEW m \in Nat, NEW r, Good(kind, new, m, m, r)
  PROVE  Near(kind, new, m, m, r)
  BY DEF Good, Last

(* The first delivery of the next event leaves a good row good.             *)
LEMMA AdvanceGood ==
  ASSUME NEW kind, NEW new, NEW m \in Nat, NEW r, Good(kind, new, m, m, r),
         kind[m + 1] = "open" => ~r.on
  PROVE  Good(kind, new, m + 1, m + 1, Run(kind, new, r, m + 1))
<1>1. Near(kind, new, m, m, r)
  BY GoodAtFront
<1>2. Idle(kind, m + 1, m + 1)
  BY DEF Idle
<1>3. CASE kind[m + 1] \in Turn
  <2>1. m + 1 \in Nat /\ m + 1 <= m + 1
    OBVIOUS
  <2> QED BY <1>2, <1>3, <2>1, RunTurn
<1>4. CASE kind[m + 1] \notin Turn
  <2>1. Near(kind, new, m, m + 1, r)
    <3>1. CASE ~r.on
      BY <1>1, <3>1 DEF Near
    <3>2. CASE r.on
      <4>1. PICK o : /\ Last(kind, 0, m, o) /\ kind[o] = "open"
                     /\ r.tx = new[o].tx /\ r.fix = new[o].fix
                     /\ \/ \E p \in m + 1 .. m : kind[p] = "update"
                        \/ \E u \in o .. m : /\ u = o \/ kind[u] = "update"
                                             /\ r.var = new[u].var
                                             /\ \A p \in u + 1 .. m : kind[p] # "update"
        BY <1>1, <3>2 DEF Near
      <4>2. PICK u \in o .. m : /\ u = o \/ kind[u] = "update"
                                /\ r.var = new[u].var
                                /\ \A p \in u + 1 .. m : kind[p] # "update"
        BY <4>1
      <4>o. o \in 1 .. m
        BY <4>1 DEF Last
      <4>3. \/ \E p \in m + 1 .. m + 1 : kind[p] = "update"
            \/ u \in o .. m + 1 /\ \A p \in u + 1 .. m + 1 : kind[p] # "update"
        <5> SUFFICES ASSUME kind[m + 1] # "update"
                     PROVE  u \in o .. m + 1 /\ \A p \in u + 1 .. m + 1 : kind[p] # "update"
          BY <4>o
        <5>1. \A p \in u + 1 .. m + 1 : p \in u + 1 .. m \/ p = m + 1
          BY <4>o
        <5> QED BY <4>o, <4>2, <5>1
      <4> QED BY <3>2, <4>1, <4>2, <4>3 DEF Near
    <3> QED BY <3>1, <3>2
  <2>2. Near(kind, new, m + 1, m + 1, Run(kind, new, r, m + 1))
    BY <1>4, <2>1, RunNear
  <2> QED BY <1>2, <2>2 DEF Good
<1> QED BY <1>3, <1>4

(* The slot is empty where the contracts open it.                           *)
LEMMA EmptyBeforeOpen ==
  ASSUME NEW kind, NEW new, NEW m \in Nat, NEW r, Good(kind, new, m, m, r),
         Alternates(kind, m + 1), kind[m + 1] = "open"
  PROVE  ~r.on
<1> SUFFICES ASSUME r.on PROVE FALSE
  OBVIOUS
<1>1. PICK o : Last(kind, 0, m, o) /\ kind[o] = "open"
  BY GoodAtFront DEF Near
<1>2. o \in 1 .. m
  BY <1>1 DEF Last
<1>3. m + 1 \in 1 .. m + 1 /\ o \in 1 .. (m + 1) - 1
  BY <1>2
<1>4. PICK c \in o + 1 .. (m + 1) - 1 : kind[c] = "close"
  BY <1>1, <1>3 DEF Alternates
<1> QED BY <1>1, <1>2, <1>4 DEF Last, Idle, Turn

(* The contracts open only an empty slot and update only a taken one.       *)
LEMMA StillAlternates ==
  ASSUME NEW kind, NEW new, NEW m \in Nat, NEW r, Good(kind, new, m, m, r),
         Alternates(kind, m), kind[m + 1] = "open" => ~r.on, kind[m + 1] = "update" => r.on
  PROVE  Alternates(kind, m + 1)
<1>n. Near(kind, new, m, m, r)
  BY GoodAtFront
<1>u. kind[m + 1] = "update" => \E o : Last(kind, 0, m, o) /\ kind[o] = "open"
  BY <1>n DEF Near
<1> SUFFICES ASSUME kind[m + 1] = "open", NEW q \in 1 .. m, kind[q] = "open"
             PROVE  \E c \in q + 1 .. m : kind[c] = "close"
  <2>1. \A p \in 1 .. m + 1 : p \in 1 .. m \/ p = m + 1
    OBVIOUS
  <2>2. (m + 1) - 1 = m
    OBVIOUS
  <2> QED BY <1>u, <2>1, <2>2 DEF Alternates
<1>1. ~r.on /\ Near(kind, new, m, m, r)
  BY GoodAtFront
<1>2. ~Idle(kind, 0, m)
  BY DEF Idle, Turn
<1>3. PICK l : Last(kind, 0, m, l) /\ kind[l] = "close"
  BY <1>1, <1>2 DEF Near
<1>4. l \in 1 .. m /\ q <= l /\ q # l
  BY <1>3 DEF Last, Idle, Turn
<1> QED BY <1>3, <1>4

(* The log determines the row.                                              *)
LEMMA GoodUnique ==
  ASSUME NEW kind, NEW new, NEW m \in Nat, NEW r, NEW s,
         Good(kind, new, m, m, r), Good(kind, new, m, m, s)
  PROVE  /\ r.on <=> s.on
         /\ r.on => r.tx = s.tx /\ r.fix = s.fix /\ r.var = s.var
<1>1. Near(kind, new, m, m, r) /\ Near(kind, new, m, m, s)
  BY GoodAtFront
<1>2. \A a, b : Last(kind, 0, m, a) /\ Last(kind, 0, m, b) => a = b
  BY DEF Last, Idle
<1>3. \A a : Last(kind, 0, m, a) => ~Idle(kind, 0, m)
  BY DEF Last, Idle
<1>4. ASSUME r.on, s.on
      PROVE  r.tx = s.tx /\ r.fix = s.fix /\ r.var = s.var
  <2>1. PICK o : /\ Last(kind, 0, m, o) /\ kind[o] = "open"
                 /\ r.tx = new[o].tx /\ r.fix = new[o].fix
                 /\ \E u \in o .. m : /\ u = o \/ kind[u] = "update"
                                      /\ r.var = new[u].var
                                      /\ \A p \in u + 1 .. m : kind[p] # "update"
    BY <1>1, <1>4 DEF Near
  <2>2. PICK o2 : /\ Last(kind, 0, m, o2) /\ kind[o2] = "open"
                  /\ s.tx = new[o2].tx /\ s.fix = new[o2].fix
                  /\ \E u \in o2 .. m : /\ u = o2 \/ kind[u] = "update"
                                        /\ s.var = new[u].var
                                        /\ \A p \in u + 1 .. m : kind[p] # "update"
    BY <1>1, <1>4 DEF Near
  <2>3. o = o2 /\ o \in 1 .. m
    BY <1>2, <2>1, <2>2 DEF Last
  <2>4. PICK u \in o .. m : /\ u = o \/ kind[u] = "update"
                            /\ r.var = new[u].var
                            /\ \A p \in u + 1 .. m : kind[p] # "update"
    BY <2>1
  <2>5. PICK v \in o .. m : /\ v = o \/ kind[v] = "update"
                            /\ s.var = new[v].var
                            /\ \A p \in v + 1 .. m : kind[p] # "update"
    BY <2>2, <2>3
  <2>6. u = v
    <3>1. u \in Int /\ v \in Int /\ o \in Int /\ m \in Int
      BY <2>3
    <3>2. ~(u < v)
      <4> SUFFICES ASSUME u < v PROVE FALSE
        OBVIOUS
      <4>1. v \in u + 1 .. m /\ v # o
        BY <3>1
      <4> QED BY <2>4, <2>5, <4>1
    <3>3. ~(v < u)
      <4> SUFFICES ASSUME v < u PROVE FALSE
        OBVIOUS
      <4>1. u \in v + 1 .. m /\ u # o
        BY <3>1
      <4> QED BY <2>4, <2>5, <4>1
    <3> QED BY <3>1, <3>2, <3>3
  <2> QED BY <2>1, <2>2, <2>3, <2>4, <2>5, <2>6
<1>5. ASSUME r.on, ~s.on PROVE FALSE
  <2>1. PICK o : Last(kind, 0, m, o) /\ kind[o] = "open"
    BY <1>1, <1>5 DEF Near
  <2>2. PICK l : Last(kind, 0, m, l) /\ kind[l] = "close"
    BY <1>1, <1>3, <1>5, <2>1 DEF Near
  <2> QED BY <1>2, <2>1, <2>2
<1>6. ASSUME ~r.on, s.on PROVE FALSE
  <2>1. PICK o : Last(kind, 0, m, o) /\ kind[o] = "open"
    BY <1>1, <1>6 DEF Near
  <2>2. PICK l : Last(kind, 0, m, l) /\ kind[l] = "close"
    BY <1>1, <1>3, <1>6, <2>1 DEF Near
  <2> QED BY <1>2, <2>1, <2>2
<1> QED BY <1>4, <1>5, <1>6

(* Only the log up to m matters.                                            *)
LEMMA GoodPrefix ==
  ASSUME NEW kind, NEW new, NEW kind2, NEW new2, NEW m \in Nat, NEW n \in 0 .. m, NEW r,
         \A p \in 1 .. m : kind2[p] = kind[p] /\ new2[p] = new[p],
         Good(kind, new, n, m, r)
  PROVE  Good(kind2, new2, n, m, r)
<1>1. ASSUME NEW i \in 0 .. m, NEW j \in 0 .. m
      PROVE  Idle(kind2, i, j) <=> Idle(kind, i, j)
  BY DEF Idle
<1>2. ASSUME NEW i \in 0 .. m, NEW j \in 0 .. m, NEW l
      PROVE  Last(kind2, i, j, l) <=> Last(kind, i, j, l) 
  <2>1. l \in i + 1 .. j => l \in 0 .. m /\ kind2[l] = kind[l]
    OBVIOUS
  <2> QED BY <1>1, <2>1 DEF Last
<1>3. ASSUME NEW i \in 0 .. m, NEW j \in 0 .. m, NEW l, Last(kind, i, j, l)
      PROVE  kind2[l] = kind[l] /\ new2[l] = new[l] /\ l \in 1 .. m
  BY <1>3 DEF Last
<1>4. CASE \E l : Last(kind, n, m, l) /\ kind[l] = "close"
  BY <1>2, <1>3, <1>4 DEF Good
<1>5. CASE \E l : /\ Last(kind, n, m, l) /\ kind[l] = "open"
                  /\ \/ ~r.on \/ Own(kind, new, l, m, r)
                     \/ \E c \in n + 1 .. l - 1 : kind[c] = "close"
  <2>1. PICK l : /\ Last(kind, n, m, l) /\ kind[l] = "open"
                 /\ \/ ~r.on \/ Own(kind, new, l, m, r)
                    \/ \E c \in n + 1 .. l - 1 : kind[c] = "close"
    BY <1>5
  <2>2. Last(kind2, n, m, l) /\ kind2[l] = kind[l] /\ new2[l] = new[l] /\ l \in 1 .. m
    BY <1>2, <1>3, <2>1
  <2>3. \A c \in n + 1 .. l - 1 : kind2[c] = kind[c]
    BY <2>2
  <2>4. Own(kind, new, l, m, r) => Own(kind2, new2, l, m, r)
    BY <2>2 DEF Own
  <2> QED BY <2>1, <2>2, <2>3, <2>4 DEF Good
<1>6. CASE Idle(kind, n, m) /\ Near(kind, new, n, m, r)
  <2>1. Idle(kind2, n, m)
    BY <1>1, <1>6
  <2>2. CASE ~r.on
    <3>1. Near(kind2, new2, n, m, r)
      BY <1>1, <1>2, <1>3, <1>6, <2>2 DEF Near
    <3> QED BY <2>1, <3>1 DEF Good
  <2>3. CASE r.on
    <3>1. PICK o : /\ Last(kind, 0, n, o) /\ kind[o] = "open"
                   /\ r.tx = new[o].tx /\ r.fix = new[o].fix
                   /\ \/ \E p \in n + 1 .. m : kind[p] = "update"
                      \/ \E u \in o .. m : /\ u = o \/ kind[u] = "update"
                                           /\ r.var = new[u].var
                                           /\ \A p \in u + 1 .. m : kind[p] # "update"
      BY <1>6, <2>3 DEF Near
    <3>2. Last(kind2, 0, n, o) /\ kind2[o] = kind[o] /\ new2[o] = new[o] /\ o \in 1 .. m
      BY <1>2, <1>3, <3>1
    <3>3. \/ \E p \in n + 1 .. m : kind2[p] = "update"
          \/ \E u \in o .. m : /\ u = o \/ kind2[u] = "update"
                               /\ r.var = new2[u].var
                               /\ \A p \in u + 1 .. m : kind2[p] # "update"
      BY <3>1, <3>2
    <3>4. Near(kind2, new2, n, m, r)
      BY <2>3, <3>1, <3>2, <3>3 DEF Near
    <3> QED BY <2>1, <3>4 DEF Good
  <2> QED BY <2>2, <2>3
<1> QED BY <1>4, <1>5, <1>6 DEF Good

(* Events that do not concern the slot move the place in the log.           *)
LEMMA SkipGood ==
  ASSUME NEW kind, NEW new, NEW m \in Nat, NEW n \in 0 .. m, NEW r, NEW i \in Nat, n <= i,
         \A p \in n + 1 .. i : kind[p] = "other", Good(kind, new, n, m, r),
         NEW j \in Nat, j = IF i <= m THEN m ELSE i
  PROVE  Good(kind, new, i, j, r)
<1>1. \A p \in n + 1 .. i : kind[p] \notin Turn /\ kind[p] # "update"
  BY DEF Turn
<1>2. ASSUME NEW l, Last(kind, 0, n, l) PROVE Last(kind, 0, i, l)
  <2>1. l \in 1 .. n /\ kind[l] \in Turn /\ \A p \in l + 1 .. n : kind[p] \notin Turn
    BY <1>2 DEF Last, Idle
  <2>2. \A p \in l + 1 .. i : p \in l + 1 .. n \/ p \in n + 1 .. i
    BY <2>1
  <2> QED BY <1>1, <2>1, <2>2 DEF Last, Idle
<1>3. Idle(kind, 0, n) => Idle(kind, 0, i)
  <2>1. \A p \in 1 .. i : p \in 1 .. n \/ p \in n + 1 .. i
    OBVIOUS
  <2> QED BY <1>1, <2>1 DEF Idle
<1>4. CASE i <= m
  <2>1. ASSUME NEW l, Last(kind, n, m, l) PROVE Last(kind, i, m, l)
    BY <1>1, <2>1 DEF Last
  <2>2. CASE \E l : Last(kind, n, m, l) /\ kind[l] = "close"
    BY <1>4, <2>1, <2>2 DEF Good
  <2>3. CASE \E l : /\ Last(kind, n, m, l) /\ kind[l] = "open"
                    /\ \/ ~r.on \/ Own(kind, new, l, m, r)
                       \/ \E c \in n + 1 .. l - 1 : kind[c] = "close"
    <3>1. PICK l : /\ Last(kind, n, m, l) /\ kind[l] = "open"
                   /\ \/ ~r.on \/ Own(kind, new, l, m, r)
                      \/ \E c \in n + 1 .. l - 1 : kind[c] = "close"
      BY <2>3
    <3>2. l \in n + 1 .. m
      BY <3>1 DEF Last
    <3>3. (\E c \in n + 1 .. l - 1 : kind[c] = "close") =>
            \E c \in i + 1 .. l - 1 : kind[c] = "close"
      <4> SUFFICES ASSUME NEW c \in n + 1 .. l - 1, kind[c] = "close"
                   PROVE  c \in i + 1 .. l - 1
        OBVIOUS
      <4>1. ~(c \in n + 1 .. i)
        BY <1>1 DEF Turn
      <4> QED BY <3>2, <4>1
    <3> QED BY <1>4, <2>1, <3>1, <3>3 DEF Good
  <2>4. CASE Idle(kind, n, m) /\ Near(kind, new, n, m, r)
    <3>1. Idle(kind, i, m)
      BY <1>4, <2>4 DEF Idle
    <3>2. (\E p \in n + 1 .. m : kind[p] = "update") =>
            \E p \in i + 1 .. m : kind[p] = "update"
      <4> SUFFICES ASSUME NEW p \in n + 1 .. m, kind[p] = "update"
                   PROVE  p \in i + 1 .. m
        OBVIOUS
      <4> QED BY <1>1
    <3>3. Near(kind, new, i, m, r)
      <4>1. CASE ~r.on
        BY <1>2, <1>3, <2>4, <4>1 DEF Near
      <4>2. CASE r.on
        BY <1>2, <2>4, <3>2, <4>2 DEF Near
      <4> QED BY <4>1, <4>2
    <3> QED BY <1>4, <3>1, <3>3 DEF Good
  <2> QED BY <2>2, <2>3, <2>4 DEF Good
<1>5. CASE ~(i <= m)
  <2>1. \A p \in n + 1 .. m : kind[p] \notin Turn /\ kind[p] # "update"
    BY <1>1, <1>5
  <2>2. \A l : ~Last(kind, n, m, l)
    BY <2>1 DEF Last
  <2>3. Near(kind, new, n, m, r)
    BY <2>2 DEF Good
  <2>4. Near(kind, new, i, i, r)
    <3>1. CASE ~r.on
      BY <1>2, <1>3, <2>3, <3>1 DEF Near
    <3>2. CASE r.on
      <4>1. PICK o : /\ Last(kind, 0, n, o) /\ kind[o] = "open"
                     /\ r.tx = new[o].tx /\ r.fix = new[o].fix
                     /\ \/ \E p \in n + 1 .. m : kind[p] = "update"
                        \/ \E u \in o .. m : /\ u = o \/ kind[u] = "update"
                                             /\ r.var = new[u].var
                                             /\ \A p \in u + 1 .. m : kind[p] # "update"
        BY <2>3, <3>2 DEF Near
      <4>2. PICK u \in o .. m : /\ u = o \/ kind[u] = "update"
                                /\ r.var = new[u].var
                                /\ \A p \in u + 1 .. m : kind[p] # "update"
        BY <2>1, <4>1
      <4>3. o \in 1 .. n
        BY <4>1 DEF Last
      <4>4. u \in o .. i /\ \A p \in u + 1 .. i : p \in u + 1 .. m \/ p \in n + 1 .. i
        BY <1>5, <4>3
      <4>5. \A p \in u + 1 .. i : kind[p] # "update"
        BY <1>1, <4>2, <4>4
      <4> QED BY <1>2, <3>2, <4>1, <4>2, <4>4, <4>5 DEF Near
    <3> QED BY <3>1, <3>2
  <2>5. Idle(kind, i, i)
    BY DEF Idle
  <2> QED BY <1>5, <2>4, <2>5 DEF Good
<1> QED BY <1>4, <1>5

-----------------------------------------------------------------------------
(* The two tables of slots, as the events of a log drive them.              *)
TKind(e, k) ==
  IF e.key # k THEN "other"
  ELSE IF e.topic = "opened" THEN "open"
  ELSE IF e.topic = "updated_tp_sl" THEN "update"
  ELSE IF e.topic \in {"closed", "tp_sl_executed", "liq"} THEN "close"
  ELSE "other"

LKind(e, k) ==
  IF e.key # k THEN "other"
  ELSE IF e.topic = "placed" THEN "open"
  ELSE IF e.topic = "updated_limit" THEN "update"
  ELSE IF e.topic \in {"executed", "canceled"} THEN "close"
  ELSE "other"

TradeOf(e) == [tx |-> e.tx, fix |-> e.terms.long, var |-> <<e.terms.tp, e.terms.sl>>]
LimitOf(e) == [tx |-> e.tx, fix |-> e.terms.long, var |-> <<e.terms.tp, e.terms.sl, e.px>>]

TradeView(row) ==
  IF row = NoRow THEN NoSlot
  ELSE [on |-> TRUE, tx |-> row.tx, fix |-> row.terms.long,
        var |-> <<row.terms.tp, row.terms.sl>>]
LimitView(row) ==
  IF row = NoRow THEN NoSlot
  ELSE [on |-> TRUE, tx |-> row.tx, fix |-> row.terms.long,
        var |-> <<row.terms.tp, row.terms.sl, row.px>>]

TKinds(lg, k) == [p \in 1 .. Len(lg) |-> TKind(lg[p], k)]
LKinds(lg, k) == [p \in 1 .. Len(lg) |-> LKind(lg[p], k)]
TradeRows(lg) == [p \in 1 .. Len(lg) |-> TradeOf(lg[p])]
LimitRows(lg) == [p \in 1 .. Len(lg) |-> LimitOf(lg[p])]

(* A rate is the last one set, or one that a redelivery will set.           *)
Sets(lg, k, a, p) == lg[p].key = k /\ lg[p].topic = a
GoodRate(lg, k, a, n, m, v) ==
  \/ \E p \in n + 1 .. m : Sets(lg, k, a, p)
  \/ \E p \in 1 .. n : /\ Sets(lg, k, a, p) /\ v = lg[p].px
                       /\ \A q \in p + 1 .. m : ~Sets(lg, k, a, q)
  \/ v = 0 /\ \A q \in 1 .. m : ~Sets(lg, k, a, q)

(* Delivering n+1..m again makes the tables t those the log up to m leaves. *)
Mirror(lg, n, m, t) ==
  \A k \in Key :
    /\ Good(TKinds(lg, k), TradeRows(lg), n, m, TradeView(t.trades[k]))
    /\ Good(LKinds(lg, k), LimitRows(lg), n, m, LimitView(t.limits[k]))
    /\ \A a \in Rate : GoodRate(lg, k, a, n, m, t.rates[k][a])

LogAlternates(lg) ==
  \A k \in Key : Alternates(TKinds(lg, k), Len(lg)) /\ Alternates(LKinds(lg, k), Len(lg))

(* The tables u are the tables t after the event e.                         *)
TableStep(t, u, e) ==
  \A k \in Key :
    /\ TradeView(u.trades[k]) = Step(TKind(e, k), TradeOf(e), TradeView(t.trades[k]))
    /\ LimitView(u.limits[k]) = Step(LKind(e, k), LimitOf(e), LimitView(t.limits[k]))
    /\ \A a \in Rate : u.rates[k][a] = IF e.key = k /\ e.topic = a THEN e.px
                                       ELSE t.rates[k][a]

(* The event e opens only slots that are empty in t.                        *)
OpensEmpty(t, e) ==
  \A k \in Key : /\ TKind(e, k) = "open" => t.trades[k] = NoRow
                 /\ LKind(e, k) = "open" => t.limits[k] = NoRow

(* A row of a table is not the mark of an empty slot.                       *)
LEMMA RowIsSome ==
  /\ \A r \in TradeRow : r # NoRow
  /\ \A r \in LimitRow : r # NoRow
  BY DEF TradeRow, LimitRow, NoRow

(* Whether a slot is taken is what its view says.                           *)
LEMMA ViewOn ==
  ASSUME NEW row
  PROVE  (TradeView(row).on <=> row # NoRow) /\ (LimitView(row).on <=> row # NoRow)
  BY DEF TradeView, LimitView, NoSlot

(* Rows with the same view are the same row.                                *)
LEMMA TradesDiffer ==
  ASSUME NEW r \in TradeRow, NEW s \in TradeRow, r.tx = s.tx, r.terms.long = s.terms.long,
         <<r.terms.tp, r.terms.sl>> = <<s.terms.tp, s.terms.sl>>
  PROVE  r = s
<1>1. r.terms \in TermsType /\ s.terms \in TermsType
  BY DEF TradeRow
<1>2. r.terms = s.terms
  BY <1>1 DEF TermsType
<1> QED BY <1>2 DEF TradeRow

(* Orders that look alike are the same row.                                 *)
LEMMA LimitsDiffer ==
  ASSUME NEW r \in LimitRow, NEW s \in LimitRow, r.tx = s.tx, r.terms.long = s.terms.long,
         <<r.terms.tp, r.terms.sl, r.px>> = <<s.terms.tp, s.terms.sl, s.px>>
  PROVE  r = s
<1>1. r.terms \in TermsType /\ s.terms \in TermsType
  BY DEF LimitRow
<1>2. r.terms = s.terms
  BY <1>1 DEF TermsType
<1> QED BY <1>2 DEF LimitRow

(* A restart at an earlier position.                                        *)
LEMMA MirrorRestart ==
  ASSUME NEW lg \in Seq(Event), NEW m \in 0 .. Len(lg), NEW n \in 0 .. m, NEW i \in 0 .. n,
         NEW t, Mirror(lg, n, m, t)
  PROVE  Mirror(lg, i, m, t)
<1> SUFFICES ASSUME NEW k \in Key
             PROVE  /\ Good(TKinds(lg, k), TradeRows(lg), i, m, TradeView(t.trades[k]))
                    /\ Good(LKinds(lg, k), LimitRows(lg), i, m, LimitView(t.limits[k]))
                    /\ \A a \in Rate : GoodRate(lg, k, a, i, m, t.rates[k][a])
  BY DEF Mirror
<1>1. m \in Nat
  OBVIOUS
<1>2. /\ Good(TKinds(lg, k), TradeRows(lg), i, m, TradeView(t.trades[k]))
      /\ Good(LKinds(lg, k), LimitRows(lg), i, m, LimitView(t.limits[k]))
  BY <1>1, RestartGood DEF Mirror
<1>3. ASSUME NEW a \in Rate PROVE GoodRate(lg, k, a, i, m, t.rates[k][a])
  <2>1. GoodRate(lg, k, a, n, m, t.rates[k][a])
    BY DEF Mirror
  <2>2. \A p \in 1 .. n : p \in i + 1 .. m \/ p \in 1 .. i
    OBVIOUS
  <2>3. \A p \in n + 1 .. m : p \in i + 1 .. m
    OBVIOUS
  <2> QED BY <2>1, <2>2, <2>3 DEF GoodRate
<1> QED BY <1>2, <1>3

(* The next event, delivered again.                                         *)
LEMMA MirrorRedeliver ==
  ASSUME NEW lg \in Seq(Event), NEW m \in 0 .. Len(lg), NEW n \in Nat, n + 1 <= m,
         NEW t, NEW u, LogAlternates(lg), Mirror(lg, n, m, t), TableStep(t, u, lg[n + 1])
  PROVE  Mirror(lg, n + 1, m, u)
<1> SUFFICES ASSUME NEW k \in Key
             PROVE  /\ Good(TKinds(lg, k), TradeRows(lg), n + 1, m, TradeView(u.trades[k]))
                    /\ Good(LKinds(lg, k), LimitRows(lg), n + 1, m, LimitView(u.limits[k]))
                    /\ \A a \in Rate : GoodRate(lg, k, a, n + 1, m, u.rates[k][a])
  BY DEF Mirror
<1>1. m \in Nat /\ n + 1 \in 1 .. Len(lg) /\ m <= Len(lg) /\ Len(lg) \in Nat
  OBVIOUS
<1>2. Alternates(TKinds(lg, k), m) /\ Alternates(LKinds(lg, k), m)
  BY <1>1 DEF LogAlternates, Alternates
<1>3. /\ TradeView(u.trades[k]) = Run(TKinds(lg, k), TradeRows(lg), TradeView(t.trades[k]), n + 1)
      /\ LimitView(u.limits[k]) = Run(LKinds(lg, k), LimitRows(lg), LimitView(t.limits[k]), n + 1)
  BY <1>1 DEF TableStep, Run, TKinds, LKinds, TradeRows, LimitRows
<1>4. /\ Good(TKinds(lg, k), TradeRows(lg), n + 1, m, TradeView(u.trades[k]))
      /\ Good(LKinds(lg, k), LimitRows(lg), n + 1, m, LimitView(u.limits[k]))
  BY <1>1, <1>2, <1>3, RedeliverGood DEF Mirror
<1>5. ASSUME NEW a \in Rate PROVE GoodRate(lg, k, a, n + 1, m, u.rates[k][a])
  <2>1. GoodRate(lg, k, a, n, m, t.rates[k][a])
    BY DEF Mirror
  <2>2. CASE Sets(lg, k, a, n + 1)
    <3>1. u.rates[k][a] = lg[n + 1].px
      BY <2>2 DEF TableStep, Sets
    <3>2. n + 1 \in 1 .. n + 1
      BY <1>1
    <3> QED BY <2>2, <3>1, <3>2 DEF GoodRate
  <2>3. CASE ~Sets(lg, k, a, n + 1)
    <3>1. u.rates[k][a] = t.rates[k][a]
      BY <2>3 DEF TableStep, Sets
    <3>2. \A p \in n + 1 .. m : p = n + 1 \/ p \in (n + 1) + 1 .. m
      BY <1>1
    <3>3. \A p \in 1 .. n : p \in 1 .. n + 1
      OBVIOUS
    <3> QED BY <2>1, <2>3, <3>1, <3>2, <3>3 DEF GoodRate
  <2> QED BY <2>2, <2>3
<1> QED BY <1>4, <1>5

(* The next event, delivered for the first time.                            *)
LEMMA MirrorAdvance ==
  ASSUME NEW lg \in Seq(Event), NEW m \in Nat, m + 1 <= Len(lg),
         NEW t, NEW u, Mirror(lg, m, m, t), TableStep(t, u, lg[m + 1]),
         OpensEmpty(t, lg[m + 1])
  PROVE  Mirror(lg, m + 1, m + 1, u)
<1> SUFFICES ASSUME NEW k \in Key
             PROVE  /\ Good(TKinds(lg, k), TradeRows(lg), m + 1, m + 1, TradeView(u.trades[k]))
                    /\ Good(LKinds(lg, k), LimitRows(lg), m + 1, m + 1, LimitView(u.limits[k]))
                    /\ \A a \in Rate : GoodRate(lg, k, a, m + 1, m + 1, u.rates[k][a])
  BY DEF Mirror
<1>1. m + 1 \in 1 .. Len(lg) /\ Len(lg) \in Nat
  OBVIOUS
<1>2. /\ TKinds(lg, k)[m + 1] = TKind(lg[m + 1], k)
      /\ LKinds(lg, k)[m + 1] = LKind(lg[m + 1], k)
  BY <1>1 DEF TKinds, LKinds
<1>3. /\ TradeView(u.trades[k]) = Run(TKinds(lg, k), TradeRows(lg), TradeView(t.trades[k]), m + 1)
      /\ LimitView(u.limits[k]) = Run(LKinds(lg, k), LimitRows(lg), LimitView(t.limits[k]), m + 1)
  BY <1>1 DEF TableStep, Run, TKinds, LKinds, TradeRows, LimitRows
<1>4. /\ TKinds(lg, k)[m + 1] = "open" => ~TradeView(t.trades[k]).on
      /\ LKinds(lg, k)[m + 1] = "open" => ~LimitView(t.limits[k]).on
  BY <1>2, ViewOn DEF OpensEmpty
<1>5. /\ Good(TKinds(lg, k), TradeRows(lg), m + 1, m + 1, TradeView(u.trades[k]))
      /\ Good(LKinds(lg, k), LimitRows(lg), m + 1, m + 1, LimitView(u.limits[k]))
  BY <1>3, <1>4, AdvanceGood DEF Mirror
<1>6. ASSUME NEW a \in Rate PROVE GoodRate(lg, k, a, m + 1, m + 1, u.rates[k][a])
  <2>1. GoodRate(lg, k, a, m, m, t.rates[k][a])
    BY DEF Mirror
  <2>2. CASE Sets(lg, k, a, m + 1)
    <3>1. u.rates[k][a] = lg[m + 1].px
      BY <2>2 DEF TableStep, Sets
    <3>2. m + 1 \in 1 .. m + 1
      BY <1>1
    <3> QED BY <2>2, <3>1, <3>2 DEF GoodRate
  <2>3. CASE ~Sets(lg, k, a, m + 1)
    <3>1. u.rates[k][a] = t.rates[k][a]
      BY <2>3 DEF TableStep, Sets
    <3>2. CASE t.rates[k][a] = 0 /\ \A q \in 1 .. m : ~Sets(lg, k, a, q)
      <4>1. \A q \in 1 .. m + 1 : q \in 1 .. m \/ q = m + 1
        OBVIOUS
      <4> QED BY <2>3, <3>1, <3>2, <4>1 DEF GoodRate
    <3>3. CASE \E p \in 1 .. m : /\ Sets(lg, k, a, p) /\ t.rates[k][a] = lg[p].px
                                 /\ \A q \in p + 1 .. m : ~Sets(lg, k, a, q)
      <4>1. PICK p \in 1 .. m : /\ Sets(lg, k, a, p) /\ t.rates[k][a] = lg[p].px
                                /\ \A q \in p + 1 .. m : ~Sets(lg, k, a, q)
        BY <3>3
      <4>2. \A q \in p + 1 .. m + 1 : q \in p + 1 .. m \/ q = m + 1
        OBVIOUS
      <4>3. p \in 1 .. m + 1
        OBVIOUS
      <4> QED BY <2>3, <3>1, <4>1, <4>2, <4>3 DEF GoodRate
    <3> QED BY <2>1, <3>2, <3>3 DEF GoodRate
  <2> QED BY <2>2, <2>3
<1> QED BY <1>5, <1>6

(* A longer log changes nothing up to m.                                    *)
LEMMA MirrorPrefix ==
  ASSUME NEW lg \in Seq(Event), NEW lg2 \in Seq(Event), Len(lg) <= Len(lg2),
         \A p \in 1 .. Len(lg) : lg2[p] = lg[p],
         NEW m \in 0 .. Len(lg), NEW n \in 0 .. m, NEW t
  PROVE  Mirror(lg2, n, m, t) <=> Mirror(lg, n, m, t)
<1>1. \A p \in 1 .. m : lg2[p] = lg[p] /\ p \in 1 .. Len(lg) /\ p \in 1 .. Len(lg2)
  OBVIOUS
<1>2. ASSUME NEW k \in Key, NEW p \in 1 .. m
      PROVE  /\ TKinds(lg2, k)[p] = TKinds(lg, k)[p] /\ TradeRows(lg2)[p] = TradeRows(lg)[p]
             /\ LKinds(lg2, k)[p] = LKinds(lg, k)[p] /\ LimitRows(lg2)[p] = LimitRows(lg)[p]
  BY <1>1 DEF TKinds, LKinds, TradeRows, LimitRows
<1>3. m \in Nat
  OBVIOUS
<1>4. ASSUME NEW k \in Key, NEW r
      PROVE  /\ Good(TKinds(lg2, k), TradeRows(lg2), n, m, r)
                  <=> Good(TKinds(lg, k), TradeRows(lg), n, m, r)
             /\ Good(LKinds(lg2, k), LimitRows(lg2), n, m, r)
                  <=> Good(LKinds(lg, k), LimitRows(lg), n, m, r)
  <2>1. /\ \A p \in 1 .. m : TKinds(lg2, k)[p] = TKinds(lg, k)[p] /\ TradeRows(lg2)[p] = TradeRows(lg)[p]
        /\ \A p \in 1 .. m : TKinds(lg, k)[p] = TKinds(lg2, k)[p] /\ TradeRows(lg)[p] = TradeRows(lg2)[p]
        /\ \A p \in 1 .. m : LKinds(lg2, k)[p] = LKinds(lg, k)[p] /\ LimitRows(lg2)[p] = LimitRows(lg)[p]
        /\ \A p \in 1 .. m : LKinds(lg, k)[p] = LKinds(lg2, k)[p] /\ LimitRows(lg)[p] = LimitRows(lg2)[p]
    BY <1>2
  <2>2. Good(TKinds(lg2, k), TradeRows(lg2), n, m, r) => Good(TKinds(lg, k), TradeRows(lg), n, m, r)
    BY <1>3, <2>1, GoodPrefix, Zenon
  <2>3. Good(TKinds(lg, k), TradeRows(lg), n, m, r) => Good(TKinds(lg2, k), TradeRows(lg2), n, m, r)
    BY <1>3, <2>1, GoodPrefix, Zenon
  <2>4. Good(LKinds(lg2, k), LimitRows(lg2), n, m, r) => Good(LKinds(lg, k), LimitRows(lg), n, m, r)
    BY <1>3, <2>1, GoodPrefix, Zenon
  <2>5. Good(LKinds(lg, k), LimitRows(lg), n, m, r) => Good(LKinds(lg2, k), LimitRows(lg2), n, m, r)
    BY <1>3, <2>1, GoodPrefix, Zenon
  <2> QED BY <2>2, <2>3, <2>4, <2>5
<1>5. ASSUME NEW k \in Key, NEW a \in Rate, NEW v
      PROVE  GoodRate(lg2, k, a, n, m, v) <=> GoodRate(lg, k, a, n, m, v)
  <2>1. \A p \in 1 .. m : (Sets(lg2, k, a, p) <=> Sets(lg, k, a, p)) /\ lg2[p].px = lg[p].px
    BY <1>1 DEF Sets
  <2> QED BY <2>1 DEF GoodRate
<1> QED BY <1>4, <1>5 DEF Mirror

(* The log determines the tables.                                           *)
LEMMA MirrorUnique ==
  ASSUME NEW lg \in Seq(Event), NEW m \in 0 .. Len(lg), NEW t, NEW u,
         t.trades \in TradeTable, t.limits \in LimitTable, t.rates \in [Key -> [Rate -> Nat]],
         u.trades \in TradeTable, u.limits \in LimitTable, u.rates \in [Key -> [Rate -> Nat]],
         Mirror(lg, m, m, t), Mirror(lg, m, m, u)
  PROVE  t.trades = u.trades /\ t.limits = u.limits /\ t.rates = u.rates
<1>0. m \in Nat
  OBVIOUS
<1>1. ASSUME NEW k \in Key PROVE t.trades[k] = u.trades[k]
  <2> DEFINE x == t.trades[k]
             y == u.trades[k]
  <2>1. /\ TradeView(x).on <=> TradeView(y).on
        /\ TradeView(x).on => /\ TradeView(x).tx = TradeView(y).tx
                              /\ TradeView(x).fix = TradeView(y).fix
                              /\ TradeView(x).var = TradeView(y).var
    BY <1>0, GoodUnique DEF Mirror
  <2>2. (x # NoRow => x \in TradeRow) /\ (y # NoRow => y \in TradeRow)
    BY DEF TradeTable
  <2> HIDE DEF x, y
  <2>3. CASE x = NoRow
    BY <2>1, <2>3, ViewOn DEF x, y
  <2>4. CASE x # NoRow
    <3>1. y # NoRow
      BY <2>1, <2>4, ViewOn
    <3>2. /\ x.tx = y.tx /\ x.terms.long = y.terms.long
          /\ <<x.terms.tp, x.terms.sl>> = <<y.terms.tp, y.terms.sl>>
      BY <2>1, <2>4, <3>1 DEF TradeView
    <3> QED BY <2>2, <2>4, <3>1, <3>2, TradesDiffer DEF x, y
  <2> QED BY <2>3, <2>4
<1>2. ASSUME NEW k \in Key PROVE t.limits[k] = u.limits[k]
  <2> DEFINE x == t.limits[k]
             y == u.limits[k]
  <2>1. /\ LimitView(x).on <=> LimitView(y).on
        /\ LimitView(x).on => /\ LimitView(x).tx = LimitView(y).tx
                              /\ LimitView(x).fix = LimitView(y).fix
                              /\ LimitView(x).var = LimitView(y).var
    BY <1>0, GoodUnique DEF Mirror
  <2>2. (x # NoRow => x \in LimitRow) /\ (y # NoRow => y \in LimitRow)
    BY DEF LimitTable
  <2> HIDE DEF x, y
  <2>3. CASE x = NoRow
    BY <2>1, <2>3, ViewOn DEF x, y
  <2>4. CASE x # NoRow
    <3>1. y # NoRow
      BY <2>1, <2>4, ViewOn
    <3>2. /\ x.tx = y.tx /\ x.terms.long = y.terms.long
          /\ <<x.terms.tp, x.terms.sl, x.px>> = <<y.terms.tp, y.terms.sl, y.px>>
      BY <2>1, <2>4, <3>1 DEF LimitView
    <3> QED BY <2>2, <2>4, <3>1, <3>2, LimitsDiffer DEF x, y
  <2> QED BY <2>3, <2>4
<1>3. ASSUME NEW k \in Key, NEW a \in Rate PROVE t.rates[k][a] = u.rates[k][a]
  <2>1. GoodRate(lg, k, a, m, m, t.rates[k][a]) /\ GoodRate(lg, k, a, m, m, u.rates[k][a])
    BY DEF Mirror
  <2>2. \A p, q \in 1 .. m : p = q \/ p \in q + 1 .. m \/ q \in p + 1 .. m
    BY <1>0
  <2> QED BY <1>0, <2>1, <2>2 DEF GoodRate
<1>4. t.trades = u.trades
  BY <1>1 DEF TradeTable
<1>5. t.limits = u.limits
  BY <1>2 DEF LimitTable
<1>6. t.rates = u.rates
  <2>1. \A k \in Key : t.rates[k] = u.rates[k]
    <3> SUFFICES ASSUME NEW k \in Key PROVE t.rates[k] = u.rates[k]
      OBVIOUS
    <3>1. t.rates[k] \in [Rate -> Nat] /\ u.rates[k] \in [Rate -> Nat]
      OBVIOUS
    <3> QED BY <1>3, <3>1
  <2> QED BY <2>1
<1> QED BY <1>4, <1>5, <1>6

-----------------------------------------------------------------------------
(* What Repo.Apply does to each table.                                      *)
Projected(e) == e.topic \in {"placed", "updated_limit", "updated_tp_sl"} => e.full

TradeCloses == {"closed", "tp_sl_executed", "liq"}
LimitCloses == {"executed", "canceled"}

ReasonOf(row, e) ==
  IF e.topic = "closed" THEN "manual"
  ELSE IF e.topic = "liq" THEN "liquidation" ELSE closeReason(row, e)

SettledAs(row, e, reason) ==
  [key |-> e.key, terms |-> row.terms, openTx |-> row.tx, reason |-> reason, closeTx |-> e.tx]

ResolvedAs(row, e) == [key |-> e.key, row |-> row, how |-> e.topic, tx |-> e.tx]

Closes(d, e) ==
  /\ e.topic \in TradeCloses /\ d.trades[e.key] # NoRow
  /\ ~\E h \in d.history : h.key = e.key /\ h.closeTx = e.tx

HistoryStep(d, u, e) ==
  u.history = IF Closes(d, e)
              THEN d.history \cup {SettledAs(d.trades[e.key], e, ReasonOf(d.trades[e.key], e))}
              ELSE d.history

ResolveStep(d, u, e) ==
  u.limitHist = IF e.topic \in LimitCloses /\ d.limits[e.key] # NoRow
                THEN Append(d.limitHist, ResolvedAs(d.limits[e.key], e))
                ELSE d.limitHist

RestKept(d, u) ==
  u.rates = d.rates /\ u.vault = d.vault /\ u.oi = d.oi /\ u.audit = d.audit
HistoryKept(d, u) == u.history = d.history
ResolvedKept(d, u) == u.limitHist = d.limitHist
LimitsKept(d, u) == u.limits = d.limits /\ u.limitHist = d.limitHist
TradesKept(d, u) == u.trades = d.trades /\ u.history = d.history

(* "opened" writes its row over the slot, and its transaction too when the  *)
(* slot was empty.                                                          *)
LEMMA UpsertTradeStep ==
  ASSUME NEW d \in DBType, NEW e \in Event, NEW u, u = UpsertTrade(d, e)
  PROVE  /\ u.trades = [d.trades EXCEPT ![e.key] =
              [terms |-> e.terms, tx |-> IF @ = NoRow THEN e.tx ELSE @.tx]]
         /\ HistoryKept(d, u) /\ LimitsKept(d, u) /\ RestKept(d, u)
  BY DEF UpsertTrade, DBType, RestKept, LimitsKept, TradesKept, HistoryKept,
     ResolvedKept

(* "updated_tp_sl" replaces the take-profit and the stop-loss of a row.     *)
LEMMA UpdateTradeStep ==
  ASSUME NEW d \in DBType, NEW e \in Event, NEW u, u = UpdateTrade(d, e)
  PROVE  /\ u.trades = IF d.trades[e.key] = NoRow \/ ~e.full THEN d.trades
                       ELSE [d.trades EXCEPT ![e.key].terms = WithTpSl(@, e.terms)]
         /\ HistoryKept(d, u) /\ LimitsKept(d, u) /\ RestKept(d, u)
  BY DEF UpdateTrade, DBType, RestKept, LimitsKept, TradesKept, HistoryKept,
     ResolvedKept

(* A close empties the slot and records the row once.                       *)
LEMMA closeTradeStep ==
  ASSUME NEW d \in DBType, NEW e \in Event, e.topic \in TradeCloses, NEW u,
         u = closeTrade(d, e, ReasonOf(d.trades[e.key], e))
  PROVE  /\ u.trades = [d.trades EXCEPT ![e.key] = NoRow]
         /\ HistoryStep(d, u, e)
         /\ LimitsKept(d, u) /\ RestKept(d, u)
<1>1. d.trades \in TradeTable /\ e.key \in Key
  BY EventFields DEF DBType
<1>2. CASE d.trades[e.key] = NoRow
  <2>1. u = d /\ ~Closes(d, e)
    BY <1>2 DEF closeTrade, Closes
  <2>2. d.trades = [d.trades EXCEPT ![e.key] = NoRow]
    BY <1>1, <1>2 DEF TradeTable
  <2> QED BY <2>1, <2>2 DEF HistoryStep, RestKept, LimitsKept
<1>3. CASE d.trades[e.key] # NoRow
  <2> DEFINE h == SettledAs(d.trades[e.key], e, ReasonOf(d.trades[e.key], e))
             hs == IF \E x \in d.history : x.key = e.key /\ x.closeTx = e.tx
                   THEN d.history ELSE d.history \cup {h}
  <2>1. u = [d EXCEPT !.trades = [d.trades EXCEPT ![e.key] = NoRow], !.history = hs]
    BY <1>3 DEF closeTrade, SettledAs, DBType
  <2>2. hs = IF Closes(d, e) THEN d.history \cup {h} ELSE d.history
    BY <1>3 DEF Closes
  <2> HIDE DEF hs, h
  <2>3. u.history = hs
    BY <2>1 DEF DBType
  <2>4. HistoryStep(d, u, e)
    BY <2>2, <2>3 DEF HistoryStep, h
  <2> QED BY <2>1, <2>4 DEF DBType, RestKept, LimitsKept
<1> QED BY <1>2, <1>3

(* "placed" writes its row over the slot.                                   *)
LEMMA UpsertLimitStep ==
  ASSUME NEW d \in DBType, NEW e \in Event, e.full, NEW u, u = UpsertLimit(d, e)
  PROVE  /\ u.limits = [d.limits EXCEPT ![e.key] =
              [terms |-> e.terms, px |-> e.px, tx |-> IF @ = NoRow THEN e.tx ELSE @.tx]]
         /\ ResolvedKept(d, u) /\ TradesKept(d, u) /\ RestKept(d, u)
  BY DEF UpsertLimit, DBType, RestKept, LimitsKept, TradesKept, HistoryKept,
     ResolvedKept

(* "updated_limit" reprices a row.                                          *)
LEMMA UpdateLimitStep ==
  ASSUME NEW d \in DBType, NEW e \in Event, e.full, NEW u, u = UpdateLimitRow(d, e)
  PROVE  /\ u.limits = IF d.limits[e.key] = NoRow THEN d.limits
                       ELSE [d.limits EXCEPT ![e.key] = Repriced(@, e.terms, e.px)]
         /\ ResolvedKept(d, u) /\ TradesKept(d, u) /\ RestKept(d, u)
  BY DEF UpdateLimitRow, DBType, RestKept, LimitsKept, TradesKept, HistoryKept,
     ResolvedKept

(* "executed" and "canceled" empty the slot and record its row.             *)
LEMMA resolveLimitStep ==
  ASSUME NEW d \in DBType, NEW e \in Event, e.topic \in LimitCloses, NEW u,
         u = resolveLimit(d, e, e.topic)
  PROVE  /\ u.limits = [d.limits EXCEPT ![e.key] = NoRow]
         /\ ResolveStep(d, u, e)
         /\ TradesKept(d, u) /\ RestKept(d, u)
<1>1. d.limits \in LimitTable /\ e.key \in Key
  BY EventFields DEF DBType
<1>2. CASE d.limits[e.key] = NoRow
  <2>1. u = d
    BY <1>2 DEF resolveLimit
  <2>2. d.limits = [d.limits EXCEPT ![e.key] = NoRow]
    BY <1>1, <1>2 DEF LimitTable
  <2> QED BY <1>2, <2>1, <2>2 DEF ResolveStep, RestKept, TradesKept
<1>3. CASE d.limits[e.key] # NoRow
  <2> DEFINE hs == Append(d.limitHist, ResolvedAs(d.limits[e.key], e))
  <2>1. u = [d EXCEPT !.limits = [d.limits EXCEPT ![e.key] = NoRow], !.limitHist = hs]
    BY <1>3 DEF resolveLimit, ResolvedAs, DBType
  <2>2. u.limitHist = hs
    BY <2>1 DEF DBType
  <2>3. ResolveStep(d, u, e)
    BY <1>3, <2>2 DEF ResolveStep
  <2> HIDE DEF hs
  <2> QED BY <2>1, <2>3 DEF DBType, RestKept, TradesKept
<1> QED BY <1>2, <1>3

(* The trade slots and the history of a position event.                     *)
TradeStep(d, u, e) ==
  \A k \in Key :
    TradeView(u.trades[k]) = Step(TKind(e, k), TradeOf(e), TradeView(d.trades[k]))
LimitStep(d, u, e) ==
  \A k \in Key :
    LimitView(u.limits[k]) = Step(LKind(e, k), LimitOf(e), LimitView(d.limits[k]))

(* An event of another topic leaves the trade slots alone.                  *)
LEMMA OtherTopic ==
  ASSUME NEW e, NEW nw, NEW r, NEW k
  PROVE  /\ e.topic \notin TradeCloses \cup {"opened", "updated_tp_sl"}
              => Step(TKind(e, k), nw, r) = r
         /\ e.topic \notin LimitCloses \cup {"placed", "updated_limit"}
              => Step(LKind(e, k), nw, r) = r
         /\ e.key # k => Step(TKind(e, k), nw, r) = r /\ Step(LKind(e, k), nw, r) = r
  BY DEF TKind, LKind, TradeCloses, LimitCloses, Step

(* The row an open writes, seen as a slot.                                  *)
LEMMA OpenTradeView ==
  ASSUME NEW x, NEW e \in Event, x = NoRow \/ x \in TradeRow, NEW y,
         y = [terms |-> e.terms, tx |-> IF x = NoRow THEN e.tx ELSE x.tx]
  PROVE  TradeView(y) = Step("open", TradeOf(e), TradeView(x))
<1>1. y \in TradeRow
  BY EventFields DEF TradeRow
<1>2. y # NoRow
  BY <1>1, RowIsSome
<1>3. TradeView(y) = [on |-> TRUE, tx |-> IF x = NoRow THEN e.tx ELSE x.tx,
                      fix |-> e.terms.long, var |-> <<e.terms.tp, e.terms.sl>>]
  BY <1>2 DEF TradeView
<1>4. TradeView(x).on <=> x # NoRow
  BY ViewOn
<1>5. x # NoRow => TradeView(x).tx = x.tx
  BY DEF TradeView
<1>6. TradeOf(e).tx = e.tx /\ TradeOf(e).fix = e.terms.long
      /\ TradeOf(e).var = <<e.terms.tp, e.terms.sl>>
  BY DEF TradeOf
<1> QED BY <1>3, <1>4, <1>5, <1>6 DEF Step

(* What "placed" does to the row of its slot.                               *)
LEMMA OpenLimitView ==
  ASSUME NEW x, NEW e \in Event, x = NoRow \/ x \in LimitRow, NEW y,
         y = [terms |-> e.terms, px |-> e.px, tx |-> IF x = NoRow THEN e.tx ELSE x.tx]
  PROVE  LimitView(y) = Step("open", LimitOf(e), LimitView(x))
<1>1. y \in LimitRow
  BY EventFields DEF LimitRow
<1>2. y # NoRow
  BY <1>1, RowIsSome
<1>3. LimitView(y) = [on |-> TRUE, tx |-> IF x = NoRow THEN e.tx ELSE x.tx,
                      fix |-> e.terms.long, var |-> <<e.terms.tp, e.terms.sl, e.px>>]
  BY <1>2 DEF LimitView
<1>4. LimitView(x).on <=> x # NoRow
  BY ViewOn
<1>5. x # NoRow => LimitView(x).tx = x.tx
  BY DEF LimitView
<1>6. LimitOf(e).tx = e.tx /\ LimitOf(e).fix = e.terms.long
      /\ LimitOf(e).var = <<e.terms.tp, e.terms.sl, e.px>>
  BY DEF LimitOf
<1> QED BY <1>3, <1>4, <1>5, <1>6 DEF Step

(* The row an update leaves, seen as a slot.                                *)
LEMMA UpdateTradeView ==
  ASSUME NEW x \in TradeRow, NEW e \in Event, NEW y,
         y = [x EXCEPT !.terms = WithTpSl(@, e.terms)]
  PROVE  TradeView(y) = Step("update", TradeOf(e), TradeView(x))
<1>1. x.terms \in TermsType /\ e.terms \in TermsType
  BY EventFields DEF TradeRow
<1>2. y \in TradeRow /\ y.tx = x.tx /\ y.terms = WithTpSl(x.terms, e.terms)
  BY <1>1, WithTpSlType DEF TradeRow
<1>3. /\ y.terms.long = x.terms.long /\ y.terms.tp = e.terms.tp /\ y.terms.sl = e.terms.sl
  BY <1>1, <1>2 DEF WithTpSl, TermsType
<1>4. y # NoRow /\ x # NoRow
  BY <1>2, RowIsSome
<1>5. TradeView(y) = [on |-> TRUE, tx |-> x.tx, fix |-> x.terms.long,
                      var |-> <<e.terms.tp, e.terms.sl>>]
  BY <1>2, <1>3, <1>4 DEF TradeView
<1>6. TradeView(x).on /\ TradeView(x).tx = x.tx /\ TradeView(x).fix = x.terms.long
  BY <1>4 DEF TradeView
<1>7. TradeOf(e).var = <<e.terms.tp, e.terms.sl>>
  BY DEF TradeOf
<1> QED BY <1>5, <1>6, <1>7 DEF Step

(* What "updated_limit" does to it.                                         *)
LEMMA UpdateLimitView ==
  ASSUME NEW x \in LimitRow, NEW e \in Event, NEW y, y = Repriced(x, e.terms, e.px)
  PROVE  LimitView(y) = Step("update", LimitOf(e), LimitView(x))
<1>1. x.terms \in TermsType /\ e.terms \in TermsType /\ e.px \in Nat
  BY EventFields DEF LimitRow
<1>2. y \in LimitRow /\ y.tx = x.tx /\ y.terms = WithTpSl(x.terms, e.terms) /\ y.px = e.px
  BY <1>1, RepricedType DEF LimitRow, Repriced
<1>3. /\ y.terms.long = x.terms.long /\ y.terms.tp = e.terms.tp /\ y.terms.sl = e.terms.sl
  BY <1>1, <1>2 DEF WithTpSl, TermsType
<1>4. y # NoRow /\ x # NoRow
  BY <1>2, RowIsSome
<1>5. LimitView(y) = [on |-> TRUE, tx |-> x.tx, fix |-> x.terms.long,
                      var |-> <<e.terms.tp, e.terms.sl, e.px>>]
  BY <1>2, <1>3, <1>4 DEF LimitView
<1>6. LimitView(x).on /\ LimitView(x).tx = x.tx /\ LimitView(x).fix = x.terms.long
  BY <1>4 DEF LimitView
<1>7. LimitOf(e).var = <<e.terms.tp, e.terms.sl, e.px>>
  BY DEF LimitOf
<1> QED BY <1>5, <1>6, <1>7 DEF Step

(* Closing empties a slot, and so does an update of an empty one.           *)
LEMMA EmptyView ==
  ASSUME NEW nw, NEW r
  PROVE  /\ TradeView(NoRow) = NoSlot /\ LimitView(NoRow) = NoSlot
         /\ Step("close", nw, r) = NoSlot
         /\ ~r.on => Step("update", nw, r) = r
  BY DEF TradeView, LimitView, Step

(* An update of one slot, seen by slots.                                    *)
LEMMA TradeSlot ==
  ASSUME NEW d, NEW u, NEW e \in Event, NEW x, d.trades \in TradeTable,
         u.trades = [d.trades EXCEPT ![e.key] = x],
         TradeView(x) = Step(TKind(e, e.key), TradeOf(e), TradeView(d.trades[e.key]))
  PROVE  TradeStep(d, u, e)
<1> SUFFICES ASSUME NEW k \in Key
             PROVE  TradeView(u.trades[k]) = Step(TKind(e, k), TradeOf(e), TradeView(d.trades[k]))
  BY DEF TradeStep
<1>1. CASE k = e.key
  <2>1. u.trades[k] = x
    BY <1>1, EventFields DEF TradeTable
  <2> QED BY <1>1, <2>1
<1>2. CASE k # e.key
  <2>1. u.trades[k] = d.trades[k]
    BY <1>2 DEF TradeTable
  <2> QED BY <1>2, <2>1, OtherTopic
<1> QED BY <1>1, <1>2

(* One event on the order of one slot.                                      *)
LEMMA LimitSlot ==
  ASSUME NEW d, NEW u, NEW e \in Event, NEW x, d.limits \in LimitTable,
         u.limits = [d.limits EXCEPT ![e.key] = x],
         LimitView(x) = Step(LKind(e, e.key), LimitOf(e), LimitView(d.limits[e.key]))
  PROVE  LimitStep(d, u, e)
<1> SUFFICES ASSUME NEW k \in Key
             PROVE  LimitView(u.limits[k]) = Step(LKind(e, k), LimitOf(e), LimitView(d.limits[k]))
  BY DEF LimitStep
<1>1. CASE k = e.key
  <2>1. u.limits[k] = x
    BY <1>1, EventFields DEF LimitTable
  <2> QED BY <1>1, <2>1
<1>2. CASE k # e.key
  <2>1. u.limits[k] = d.limits[k]
    BY <1>2 DEF LimitTable
  <2> QED BY <1>2, <2>1, OtherTopic
<1> QED BY <1>1, <1>2

(* The slots of the two tables under a position event.                      *)
LEMMA SlotTypes ==
  ASSUME NEW d \in DBType, NEW e \in Event
  PROVE  /\ d.trades \in TradeTable /\ d.limits \in LimitTable /\ e.key \in Key
         /\ d.trades[e.key] # NoRow => d.trades[e.key] \in TradeRow
         /\ d.limits[e.key] # NoRow => d.limits[e.key] \in LimitRow
  BY EventFields, RowTypes DEF DBType

(* applyPM on the trade tables and the order tables, topic by topic.        *)
LEMMA applyPMStep ==
  ASSUME NEW d \in DBType, NEW e \in Event, Projected(e), NEW u, u = applyPM(d, e)
  PROVE  /\ TradeStep(d, u, e) /\ LimitStep(d, u, e)
         /\ HistoryStep(d, u, e) /\ ResolveStep(d, u, e)
         /\ RestKept(d, u)
<1>0. /\ d.trades \in TradeTable /\ d.limits \in LimitTable /\ e.key \in Key
      /\ d.trades[e.key] # NoRow => d.trades[e.key] \in TradeRow
      /\ d.limits[e.key] # NoRow => d.limits[e.key] \in LimitRow
  BY SlotTypes
<1>t. ASSUME u.trades = d.trades, e.topic \notin TradeCloses \cup {"opened", "updated_tp_sl"}
      PROVE  TradeStep(d, u, e)
  BY <1>t, OtherTopic DEF TradeStep
<1>l. ASSUME u.limits = d.limits, e.topic \notin LimitCloses \cup {"placed", "updated_limit"}
      PROVE  LimitStep(d, u, e)
  BY <1>l, OtherTopic DEF LimitStep
<1>h. ASSUME u.history = d.history, e.topic \notin TradeCloses PROVE HistoryStep(d, u, e)
  BY <1>h DEF HistoryStep, Closes
<1>r. ASSUME u.limitHist = d.limitHist, e.topic \notin LimitCloses PROVE ResolveStep(d, u, e)
  BY <1>r DEF ResolveStep
<1>1. CASE e.topic = "opened"
  <2>1. u = UpsertTrade(d, e)
    BY <1>1 DEF applyPM
  <2> DEFINE x == [terms |-> e.terms, tx |-> IF d.trades[e.key] = NoRow THEN e.tx
                                             ELSE d.trades[e.key].tx]
  <2>2. u.trades = [d.trades EXCEPT ![e.key] = x]
    BY <2>1, UpsertTradeStep
  <2>3. TradeView(x) = Step("open", TradeOf(e), TradeView(d.trades[e.key]))
    BY <1>0, OpenTradeView
  <2>4. TKind(e, e.key) = "open"
    BY <1>1 DEF TKind
  <2> HIDE DEF x
  <2>5. TradeStep(d, u, e)
    BY <1>0, <2>2, <2>3, <2>4, TradeSlot
  <2>6. /\ HistoryKept(d, u) /\ LimitsKept(d, u) /\ RestKept(d, u)
    BY <2>1, UpsertTradeStep
  <2>7. e.topic \notin TradeCloses \cup LimitCloses \cup {"placed", "updated_limit"}
    BY <1>1 DEF TradeCloses, LimitCloses
  <2> QED BY <1>l, <1>h, <1>r, <2>5, <2>6, <2>7 DEF LimitsKept, HistoryKept
<1>2. CASE e.topic = "updated_tp_sl"
  <2>1. u = UpdateTrade(d, e) /\ e.full
    BY <1>2 DEF applyPM, Projected
  <2>2. TKind(e, e.key) = "update"
    BY <1>2 DEF TKind
  <2>3. TradeStep(d, u, e)
    <3>1. CASE d.trades[e.key] = NoRow
      <4>1. u.trades = [d.trades EXCEPT ![e.key] = NoRow]
        <5>1. u.trades = d.trades
          BY <2>1, <3>1, UpdateTradeStep
        <5> QED BY <1>0, <3>1, <5>1 DEF TradeTable
      <4>2. TradeView(NoRow) = Step("update", TradeOf(e), TradeView(NoRow))
        BY EmptyView, ViewOn
      <4> QED BY <1>0, <2>2, <3>1, <4>1, <4>2, TradeSlot
    <3>2. CASE d.trades[e.key] # NoRow
      <4> DEFINE x == [d.trades[e.key] EXCEPT !.terms = WithTpSl(@, e.terms)]
      <4>1. u.trades = [d.trades EXCEPT ![e.key] = x]
        BY <1>0, <2>1, <3>2, UpdateTradeStep
      <4>2. TradeView(x) = Step("update", TradeOf(e), TradeView(d.trades[e.key]))
        BY <1>0, <3>2, UpdateTradeView
      <4> HIDE DEF x
      <4> QED BY <1>0, <2>2, <4>1, <4>2, TradeSlot
    <3> QED BY <3>1, <3>2
  <2>6. /\ HistoryKept(d, u) /\ LimitsKept(d, u) /\ RestKept(d, u)
    BY <2>1, UpdateTradeStep
  <2>7. e.topic \notin TradeCloses \cup LimitCloses \cup {"placed", "updated_limit"}
    BY <1>2 DEF TradeCloses, LimitCloses
  <2> QED BY <1>l, <1>h, <1>r, <2>3, <2>6, <2>7 DEF LimitsKept, HistoryKept
<1>3. CASE e.topic \in TradeCloses
  <2>1. u = closeTrade(d, e, ReasonOf(d.trades[e.key], e))
    BY <1>3 DEF applyPM, TradeCloses, ReasonOf, closeTradeUnknownReason
  <2>2. TKind(e, e.key) = "close"
    BY <1>3 DEF TKind, TradeCloses
  <2>3. u.trades = [d.trades EXCEPT ![e.key] = NoRow] /\ HistoryStep(d, u, e)
    BY <1>3, <2>1, closeTradeStep
  <2>4. TradeStep(d, u, e)
    BY <1>0, <2>2, <2>3, EmptyView, TradeSlot
  <2>5. LimitsKept(d, u) /\ RestKept(d, u)
    BY <1>3, <2>1, closeTradeStep
  <2>6. e.topic \notin LimitCloses \cup {"placed", "updated_limit"}
    BY <1>3 DEF TradeCloses, LimitCloses
  <2> QED BY <1>l, <1>r, <2>3, <2>4, <2>5, <2>6 DEF LimitsKept
<1>4. CASE e.topic = "placed"
  <2>1. u = UpsertLimit(d, e) /\ e.full
    BY <1>4 DEF applyPM, Projected
  <2> DEFINE x == [terms |-> e.terms, px |-> e.px,
                   tx |-> IF d.limits[e.key] = NoRow THEN e.tx ELSE d.limits[e.key].tx]
  <2>2. u.limits = [d.limits EXCEPT ![e.key] = x]
    BY <2>1, UpsertLimitStep
  <2>3. LimitView(x) = Step("open", LimitOf(e), LimitView(d.limits[e.key]))
    BY <1>0, OpenLimitView
  <2>4. LKind(e, e.key) = "open"
    BY <1>4 DEF LKind
  <2> HIDE DEF x
  <2>5. LimitStep(d, u, e)
    BY <1>0, <2>2, <2>3, <2>4, LimitSlot
  <2>6. /\ ResolvedKept(d, u) /\ TradesKept(d, u) /\ RestKept(d, u)
    BY <2>1, UpsertLimitStep
  <2>7. e.topic \notin TradeCloses \cup LimitCloses \cup {"opened", "updated_tp_sl"}
    BY <1>4 DEF TradeCloses, LimitCloses
  <2> QED BY <1>t, <1>h, <1>r, <2>5, <2>6, <2>7 DEF TradesKept, ResolvedKept
<1>5. CASE e.topic = "updated_limit"
  <2>1. u = UpdateLimitRow(d, e) /\ e.full
    BY <1>5 DEF applyPM, Projected
  <2>2. LKind(e, e.key) = "update"
    BY <1>5 DEF LKind
  <2>3. LimitStep(d, u, e)
    <3>1. CASE d.limits[e.key] = NoRow
      <4>1. u.limits = [d.limits EXCEPT ![e.key] = NoRow]
        <5>1. u.limits = d.limits
          BY <2>1, <3>1, UpdateLimitStep
        <5> QED BY <1>0, <3>1, <5>1 DEF LimitTable
      <4>2. LimitView(NoRow) = Step("update", LimitOf(e), LimitView(NoRow))
        BY EmptyView, ViewOn
      <4> QED BY <1>0, <2>2, <3>1, <4>1, <4>2, LimitSlot
    <3>2. CASE d.limits[e.key] # NoRow
      <4> DEFINE x == Repriced(d.limits[e.key], e.terms, e.px)
      <4>1. u.limits = [d.limits EXCEPT ![e.key] = x]
        BY <1>0, <2>1, <3>2, UpdateLimitStep
      <4>2. LimitView(x) = Step("update", LimitOf(e), LimitView(d.limits[e.key]))
        BY <1>0, <3>2, UpdateLimitView
      <4> HIDE DEF x
      <4> QED BY <1>0, <2>2, <4>1, <4>2, LimitSlot
    <3> QED BY <3>1, <3>2
  <2>6. /\ ResolvedKept(d, u) /\ TradesKept(d, u) /\ RestKept(d, u)
    BY <2>1, UpdateLimitStep
  <2>7. e.topic \notin TradeCloses \cup LimitCloses \cup {"opened", "updated_tp_sl"}
    BY <1>5 DEF TradeCloses, LimitCloses
  <2> QED BY <1>t, <1>h, <1>r, <2>3, <2>6, <2>7 DEF TradesKept, ResolvedKept
<1>6. CASE e.topic \in LimitCloses
  <2>1. u = resolveLimit(d, e, e.topic)
    BY <1>6 DEF applyPM, LimitCloses
  <2>2. LKind(e, e.key) = "close"
    BY <1>6 DEF LKind, LimitCloses
  <2>3. u.limits = [d.limits EXCEPT ![e.key] = NoRow] /\ ResolveStep(d, u, e)
    BY <1>6, <2>1, resolveLimitStep
  <2>4. LimitStep(d, u, e)
    BY <1>0, <2>2, <2>3, EmptyView, LimitSlot
  <2>5. TradesKept(d, u) /\ RestKept(d, u)
    BY <1>6, <2>1, resolveLimitStep
  <2>6. e.topic \notin TradeCloses \cup {"opened", "updated_tp_sl"}
    BY <1>6 DEF TradeCloses, LimitCloses
  <2> QED BY <1>t, <1>h, <2>3, <2>4, <2>5, <2>6 DEF TradesKept
<1>7. CASE e.topic \notin TradeCloses \cup LimitCloses
                           \cup {"opened", "updated_tp_sl", "placed", "updated_limit"}
  <2>1. u = d
    BY <1>7 DEF applyPM, TradeCloses, LimitCloses
  <2> QED BY <1>7, <1>t, <1>l, <1>h, <1>r, <2>1 DEF RestKept
<1> QED BY <1>1, <1>2, <1>3, <1>4, <1>5, <1>6, <1>7

(* Vault shares are added to and subtracted from; OI stops at zero.         *)
VaultStep(d, u, e) ==
  \A k \in Key :
    u.vault[k].shares =
      IF e.key # k THEN d.vault[k].shares
      ELSE IF e.topic = "deposit" THEN d.vault[k].shares + e.px
      ELSE IF e.topic = "withdraw" THEN d.vault[k].shares - e.px
      ELSE d.vault[k].shares

OiStep(d, u, e) ==
  \A k \in Key, b \in BOOLEAN :
    u.oi[k][b] =
      IF e.key # k \/ e.terms.long # b THEN d.oi[k][b]
      ELSE IF e.topic = "oi_add" THEN d.oi[k][b] + e.px
      ELSE IF e.topic = "oi_sub" THEN GreatestZero(d.oi[k][b] - e.px)
      ELSE d.oi[k][b]

RateStep(d, u, e) ==
  \A k \in Key, a \in Rate :
    u.rates[k][a] = IF e.key = k /\ e.topic = a THEN e.px ELSE d.rates[k][a]

(* The audit row leaves every projection alone.                             *)
LEMMA InsertAuditStep ==
  ASSUME NEW d \in DBType, NEW e \in Event, NEW i \in Nat, NEW u, u = InsertAudit(d, e, i)
  PROVE  /\ TradesKept(d, u) /\ LimitsKept(d, u)
         /\ u.rates = d.rates /\ u.vault = d.vault /\ u.oi = d.oi
  BY DEF InsertAudit, DBType, TradesKept, LimitsKept

(* applyVault moves the shares of one depositor.                            *)
LEMMA applyVaultStep ==
  ASSUME NEW d \in DBType, NEW e \in Event, NEW u, u = applyVault(d, e)
  PROVE  /\ TradesKept(d, u) /\ LimitsKept(d, u) /\ VaultStep(d, u, e)
         /\ u.rates = d.rates /\ u.oi = d.oi /\ u.audit = d.audit
<1>1. e.key \in Key /\ e.px \in Nat
  BY EventFields
<1>2. d.vault \in [Key -> [shares: Int, deposited: Nat, withdrawn: Nat]]
  BY DEF DBType
<1>3. /\ TradesKept(d, u) /\ LimitsKept(d, u)
      /\ u.rates = d.rates /\ u.oi = d.oi /\ u.audit = d.audit
  BY DEF applyVault, DBType, TradesKept, LimitsKept
<1>4. CASE e.topic = "deposit"
  <2>1. u.vault = [d.vault EXCEPT ![e.key].shares = @ + e.px, ![e.key].deposited = @ + e.px]
    BY <1>4 DEF applyVault, DBType
  <2> QED BY <1>1, <1>2, <1>3, <1>4, <2>1 DEF VaultStep
<1>5. CASE e.topic = "withdraw"
  <2>1. u.vault = [d.vault EXCEPT ![e.key].shares = @ - e.px, ![e.key].withdrawn = @ + e.px]
    BY <1>5 DEF applyVault, DBType
  <2> QED BY <1>1, <1>2, <1>3, <1>5, <2>1 DEF VaultStep
<1>6. CASE e.topic \notin {"deposit", "withdraw"}
  <2>1. u = d
    BY <1>6 DEF applyVault
  <2> QED BY <1>3, <1>6, <2>1 DEF VaultStep
<1> QED BY <1>4, <1>5, <1>6

(* applyRegistry moves one side's open interest or one rate.                *)
LEMMA applyRegistryStep ==
  ASSUME NEW d \in DBType, NEW e \in Event, NEW u, u = applyRegistry(d, e)
  PROVE  /\ TradesKept(d, u) /\ LimitsKept(d, u) /\ OiStep(d, u, e) /\ RateStep(d, u, e)
         /\ u.vault = d.vault /\ u.audit = d.audit
<1>1. e.key \in Key /\ e.px \in Nat /\ e.terms.long \in BOOLEAN
  BY EventFields
<1>2. d.oi \in [Key -> [BOOLEAN -> Nat]] /\ d.rates \in [Key -> [Rate -> Nat]]
  BY DEF DBType
<1>3. /\ TradesKept(d, u) /\ LimitsKept(d, u)
      /\ u.vault = d.vault /\ u.audit = d.audit
  BY DEF applyRegistry, DBType, TradesKept, LimitsKept
<1>4. CASE e.topic = "oi_add"
  <2>1. /\ u.oi = [d.oi EXCEPT ![e.key][e.terms.long] = @ + e.px]
        /\ u.rates = d.rates
    BY <1>4 DEF applyRegistry, DBType, Rate
  <2>2. OiStep(d, u, e)
    BY <1>1, <1>2, <1>4, <2>1 DEF OiStep
  <2>3. RateStep(d, u, e)
    BY <1>4, <2>1 DEF RateStep, Rate
  <2> QED BY <1>3, <2>2, <2>3
<1>5. CASE e.topic = "oi_sub"
  <2>1. /\ u.oi = [d.oi EXCEPT ![e.key][e.terms.long] = GreatestZero(@ - e.px)]
        /\ u.rates = d.rates
    BY <1>5 DEF applyRegistry, DBType, Rate
  <2>2. OiStep(d, u, e)
    BY <1>1, <1>2, <1>5, <2>1 DEF OiStep
  <2>3. RateStep(d, u, e)
    BY <1>5, <2>1 DEF RateStep, Rate
  <2> QED BY <1>3, <2>2, <2>3
<1>6. CASE e.topic \in Rate
  <2>1. /\ u.oi = d.oi
        /\ u.rates = [d.rates EXCEPT ![e.key][e.topic] = e.px]
    BY <1>6 DEF applyRegistry, DBType, Rate
  <2>2. OiStep(d, u, e)
    BY <1>6, <2>1 DEF OiStep, Rate
  <2>3. RateStep(d, u, e)
    BY <1>1, <1>2, <1>6, <2>1 DEF RateStep
  <2> QED BY <1>3, <2>2, <2>3
<1>7. CASE e.topic \notin Rate \cup {"oi_add", "oi_sub"}
  <2>1. u = d
    BY <1>7 DEF applyRegistry
  <2>2. OiStep(d, u, e)
    BY <1>7, <2>1 DEF OiStep
  <2>3. RateStep(d, u, e)
    BY <1>7, <2>1 DEF RateStep
  <2> QED BY <1>3, <2>2, <2>3
<1> QED BY <1>4, <1>5, <1>6, <1>7

(* What Repo.Apply does to the projections.                                 *)
DbStep(d, u, e) ==
  /\ TableStep(d, u, e) /\ HistoryStep(d, u, e) /\ ResolveStep(d, u, e)
  /\ VaultStep(d, u, e) /\ OiStep(d, u, e)

(* All of Repo.Apply.                                                       *)
LEMMA ApplyStep ==
  ASSUME NEW d \in DBType, NEW e \in Event, Projected(e), NEW i \in Nat, NEW u,
         u = Apply(d, e, i)
  PROVE  DbStep(d, u, e)
<1> DEFINE a == InsertAudit(d, e, i)
           b == applyPM(a, e)
           c == applyVault(b, e)
<1>1. u = applyRegistry(c, e)
  BY DEF Apply
<1>2. a \in DBType /\ b \in DBType /\ c \in DBType
  BY InsertAuditType, applyPMType, applyVaultType
<1>3. /\ TradesKept(d, a) /\ LimitsKept(d, a)
      /\ a.rates = d.rates /\ a.vault = d.vault /\ a.oi = d.oi
  BY InsertAuditStep
<1>4. /\ TradeStep(a, b, e) /\ LimitStep(a, b, e)
      /\ HistoryStep(a, b, e) /\ ResolveStep(a, b, e) /\ RestKept(a, b)
  BY <1>2, applyPMStep
<1>5. /\ TradesKept(b, c) /\ LimitsKept(b, c) /\ VaultStep(b, c, e)
      /\ c.rates = b.rates /\ c.oi = b.oi
  BY <1>2, applyVaultStep
<1>6. /\ TradesKept(c, u) /\ LimitsKept(c, u) /\ OiStep(c, u, e) /\ RateStep(c, u, e)
      /\ u.vault = c.vault
  BY <1>1, <1>2, applyRegistryStep
<1> HIDE DEF a, b, c
<1>7. /\ u.trades = b.trades /\ u.history = b.history /\ u.limits = b.limits
      /\ u.limitHist = b.limitHist
  BY <1>5, <1>6 DEF TradesKept, LimitsKept
<1>8. /\ a.trades = d.trades /\ a.history = d.history /\ a.limits = d.limits
      /\ a.limitHist = d.limitHist
  BY <1>3 DEF TradesKept, LimitsKept
<1>9. c.rates = d.rates /\ c.oi = d.oi /\ b.vault = d.vault
  BY <1>3, <1>4, <1>5 DEF RestKept
<1>10. TradeStep(d, u, e) /\ LimitStep(d, u, e)
  BY <1>4, <1>7, <1>8 DEF TradeStep, LimitStep
<1>11. HistoryStep(d, u, e)
  BY <1>4, <1>7, <1>8 DEF HistoryStep, Closes
<1>12. ResolveStep(d, u, e)
  BY <1>4, <1>7, <1>8 DEF ResolveStep
<1>13. VaultStep(d, u, e)
  BY <1>5, <1>6, <1>9 DEF VaultStep
<1>14. OiStep(d, u, e) /\ RateStep(d, u, e)
  BY <1>6, <1>9 DEF OiStep, RateStep
<1>15. TableStep(d, u, e)
  BY <1>10, <1>14 DEF TableStep, TradeStep, LimitStep, RateStep
<1> QED BY <1>11, <1>12, <1>13, <1>14, <1>15 DEF DbStep

-----------------------------------------------------------------------------
(* What an operation of the contracts does to the contracts' state, event   *)
(* by event.  A reason fits a close when the contract could have had it.    *)
Reasons == {"manual", "tp", "sl", "liquidation"}
Fits(reason, e, terms) ==
  /\ e.topic = "closed" => reason = "manual"
  /\ e.topic = "liq" => reason = "liquidation"
  /\ e.topic = "tp_sl_executed" =>
       \/ reason = "tp" /\ HitsTp(terms, e.px)
       \/ reason = "sl" /\ HitsSl(terms, e.px)

TradePart(c, d, e) ==
  /\ TradeStep(c, d, e)
  /\ \A k \in Key : /\ TKind(e, k) = "open" => c.trades[k] = NoRow
                    /\ TKind(e, k) = "update" => c.trades[k] # NoRow

LimitPart(c, d, e) ==
  /\ LimitStep(c, d, e)
  /\ \A k \in Key : /\ LKind(e, k) = "open" => c.limits[k] = NoRow
                    /\ LKind(e, k) = "update" => c.limits[k] # NoRow

SettledPart(c, d, e) ==
  IF e.topic \in TradeCloses
  THEN /\ c.trades[e.key] # NoRow
       /\ \E reason \in Reasons :
            /\ Fits(reason, e, c.trades[e.key].terms)
            /\ d.settled = c.settled \cup {SettledAs(c.trades[e.key], e, reason)}
  ELSE d.settled = c.settled

ResolvedPart(c, d, e) ==
  IF e.topic \in LimitCloses
  THEN /\ c.limits[e.key] # NoRow
       /\ d.resolved = Append(c.resolved, ResolvedAs(c.limits[e.key], e))
  ELSE d.resolved = c.resolved

SharesPart(c, d, e) ==
  \A k \in Key : ~Moves(e, k) =>
    d.shares[k] = IF e.key # k THEN c.shares[k]
                  ELSE IF e.topic = "deposit" THEN c.shares[k] + e.px
                  ELSE IF e.topic = "withdraw" THEN c.shares[k] - e.px
                  ELSE c.shares[k]

ChainStep(c, d, e) ==
  /\ TradePart(c, d, e) /\ LimitPart(c, d, e) /\ RateStep(c, d, e)
  /\ SettledPart(c, d, e) /\ ResolvedPart(c, d, e)
  /\ SharesPart(c, d, e) /\ OiStep(c, d, e)

(* The parts an operation does not touch.                                   *)
LEMMA Untouched ==
  ASSUME NEW c, NEW d, NEW e
  PROVE  /\ d.trades = c.trades /\ e.topic \notin TradeCloses \cup {"opened", "updated_tp_sl"}
              => TradePart(c, d, e)
         /\ d.limits = c.limits /\ e.topic \notin LimitCloses \cup {"placed", "updated_limit"}
              => LimitPart(c, d, e)
         /\ d.rates = c.rates /\ e.topic \notin Rate => RateStep(c, d, e)
         /\ d.settled = c.settled /\ e.topic \notin TradeCloses => SettledPart(c, d, e)
         /\ d.resolved = c.resolved /\ e.topic \notin LimitCloses => ResolvedPart(c, d, e)
         /\ d.shares = c.shares /\ e.topic \notin {"deposit", "withdraw"}
              => SharesPart(c, d, e)
         /\ d.oi = c.oi /\ e.topic \notin {"oi_add", "oi_sub"} => OiStep(c, d, e)
<1>1. d.trades = c.trades /\ e.topic \notin TradeCloses \cup {"opened", "updated_tp_sl"}
        => TradePart(c, d, e)
  <2>1. e.topic \notin {"opened", "updated_tp_sl"} =>
          \A k \in Key : TKind(e, k) \notin {"open", "update"}
    BY DEF TKind
  <2> QED BY <2>1, OtherTopic DEF TradePart, TradeStep
<1>2. d.limits = c.limits /\ e.topic \notin LimitCloses \cup {"placed", "updated_limit"}
        => LimitPart(c, d, e)
  <2>1. e.topic \notin {"placed", "updated_limit"} =>
          \A k \in Key : LKind(e, k) \notin {"open", "update"}
    BY DEF LKind
  <2> QED BY <2>1, OtherTopic DEF LimitPart, LimitStep
<1>3. d.rates = c.rates /\ e.topic \notin Rate => RateStep(c, d, e)
  BY DEF RateStep
<1>4. /\ d.settled = c.settled /\ e.topic \notin TradeCloses => SettledPart(c, d, e)
      /\ d.resolved = c.resolved /\ e.topic \notin LimitCloses => ResolvedPart(c, d, e)
  BY DEF SettledPart, ResolvedPart
<1>5. d.shares = c.shares /\ e.topic \notin {"deposit", "withdraw"} => SharesPart(c, d, e)
  BY DEF SharesPart
<1>6. d.oi = c.oi /\ e.topic \notin {"oi_add", "oi_sub"} => OiStep(c, d, e)
  BY DEF OiStep
<1> QED BY <1>1, <1>2, <1>3, <1>4, <1>5, <1>6

(* The fields of an event the contracts emit.                               *)
IsEv(e, topic, k, f, t, px) ==
  /\ e \in Event /\ e.topic = topic /\ e.key = k /\ e.tx = NextTx
  /\ e.full = f /\ e.terms = t /\ e.px = px

(* An event of the contracts has the fields it was made from.               *)
LEMMA EvAtFields ==
  ASSUME LedgerTypeOK, NEW topic \in AllTopics, NEW k \in Key, NEW j \in Key,
         NEW f \in BOOLEAN, NEW t \in TermsType, NEW px \in Nat
  PROVE  /\ IsEv(EvAt(topic, k, j, f, t, px), topic, k, f, t, px)
         /\ EvAt(topic, k, j, f, t, px).slot = j
  BY EvType DEF EvAt, IsEv

(* So has one that names no second slot.                                    *)
LEMMA EvFields ==
  ASSUME LedgerTypeOK, NEW topic \in AllTopics, NEW k \in Key, NEW f \in BOOLEAN,
         NEW t \in TermsType, NEW px \in Nat
  PROVE  IsEv(Ev(topic, k, f, t, px), topic, k, f, t, px)
<1>1. IsEv(EvAt(topic, k, k, f, t, px), topic, k, f, t, px)
  BY EvAtFields
<1> QED BY <1>1, Zenon DEF Ev

(* A close is filed under the slot it closed, unless it came without its    *)
(* pair.                                                                    *)
Placed(e) == e.topic \in TradeCloses => e.key = e.slot

(* A step of the contracts that emits one event.                            *)
EmitsOne ==
  \E e \in Event :
    /\ e.tx = NextTx /\ log' = log \o <<e>>
    /\ SharesPart(chain, chain', e) /\ OiStep(chain, chain', e)
    /\ chain.settled \subseteq chain'.settled
    /\ Placed(e) => ChainStep(chain, chain', e)

(* A step whose event says all there is to it.                              *)
LEMMA EmitsWhole ==
  ASSUME NEW e \in Event, e.tx = NextTx, log' = log \o <<e>>, ChainStep(chain, chain', e)
  PROVE  EmitsOne
<1>1. chain.settled \subseteq chain'.settled
  BY DEF ChainStep, SettledPart
<1>2. SharesPart(chain, chain', e) /\ OiStep(chain, chain', e)
  BY DEF ChainStep
<1> QED BY <1>1, <1>2, Zenon DEF EmitsOne

(* A step that emits the two events of an executed order; c is the state    *)
(* between them.                                                            *)
EmitsTwo ==
  \E e, f \in Event, c \in ChainType :
    /\ e.tx = NextTx /\ f.tx = NextTx /\ log' = log \o <<e, f>>
    /\ ChainStep(chain, c, e) /\ ChainStep(c, chain', f)
    /\ e.topic = "executed" /\ f.topic = "opened"

(* The types of the contracts' state.                                       *)
LEMMA ChainTyped ==
  ASSUME LedgerTypeOK
  PROVE  /\ chain \in ChainType
         /\ chain.trades \in TradeTable /\ chain.limits \in LimitTable
         /\ chain.shares \in [Key -> Nat] /\ chain.oi \in [Key -> [BOOLEAN -> Nat]]
         /\ chain.rates \in [Key -> [Rate -> Nat]]
  BY DEF LedgerTypeOK, ChainType

(* Each operation steps the contracts' state by what it emits: opening,     *)
LEMMA OpenTradeEmits ==
  ASSUME LedgerTypeOK, NEW k \in Key, NEW t \in Terms, OpenTrade(k, t)
  PROVE  EmitsOne
<1> DEFINE e == Ev("opened", k, TRUE, t, AnyPrice)
           x == [terms |-> t, tx |-> NextTx]
<1>1. t \in TermsType /\ AnyPrice \in Nat /\ "opened" \in AllTopics
  BY ConstTypes DEF AllTopics
<1>2. e \in Event /\ e.topic = "opened" /\ e.key = k /\ e.tx = NextTx /\ e.terms = t
  <2>1. IsEv(e, "opened", k, TRUE, t, AnyPrice)
    BY <1>1, EvFields, Zenon
  <2> HIDE DEF e
  <2> QED BY <2>1 DEF IsEv
<1>3. log' = log \o <<e>> /\ chain.trades[k] = NoRow
  BY DEF OpenTrade, Emit
<1>4. /\ chain'.trades = [chain.trades EXCEPT ![k] = x]
      /\ chain'.settled = chain.settled /\ chain'.limits = chain.limits
      /\ chain'.resolved = chain.resolved /\ chain'.shares = chain.shares
      /\ chain'.oi = chain.oi /\ chain'.rates = chain.rates
  BY ChainTyped DEF OpenTrade, ChainType
<1> HIDE DEF e
<1>5. x = [terms |-> e.terms, tx |-> IF chain.trades[e.key] = NoRow THEN e.tx
                                     ELSE chain.trades[e.key].tx]
  BY <1>2, <1>3
<1>6. TKind(e, e.key) = "open"
  BY <1>2 DEF TKind
<1> HIDE DEF x
<1>7. TradeView(x) = Step("open", TradeOf(e), TradeView(chain.trades[e.key]))
  BY <1>2, <1>3, <1>5, OpenTradeView
<1>8. TradeStep(chain, chain', e)
  BY <1>2, <1>4, <1>6, <1>7, ChainTyped, TradeSlot
<1>9. TradePart(chain, chain', e)
  BY <1>2, <1>3, <1>8 DEF TradePart, TKind
<1>10. ChainStep(chain, chain', e)
  BY <1>2, <1>4, <1>9, Untouched DEF ChainStep, TradeCloses, LimitCloses, Rate
<1> QED BY <1>2, <1>3, <1>10, EmitsWhole

(* an update of take-profit and stop-loss,                                  *)
LEMMA UpdateTpSlEmits ==
  ASSUME LedgerTypeOK, NEW k \in Key, NEW f \in BOOLEAN, NEW t \in Terms, UpdateTpSl(k, f, t)
  PROVE  EmitsOne
<1> DEFINE e == Ev("updated_tp_sl", k, f, t, AnyPrice)
<1>1. t \in TermsType /\ AnyPrice \in Nat /\ "updated_tp_sl" \in AllTopics
  BY ConstTypes DEF AllTopics
<1>2. e \in Event /\ e.topic = "updated_tp_sl" /\ e.key = k /\ e.tx = NextTx /\ e.terms = t /\ e.px = AnyPrice
  <2>1. IsEv(e, "updated_tp_sl", k, f, t, AnyPrice)
    BY <1>1, EvFields, Zenon
  <2> HIDE DEF e
  <2> QED BY <2>1 DEF IsEv
<1> DEFINE x == [chain.trades[k] EXCEPT !.terms = WithTpSl(@, t)]
<1>3. log' = log \o <<e>> /\ chain.trades[k] # NoRow
  BY DEF UpdateTpSl, Emit
<1>4. /\ chain'.trades = [chain.trades EXCEPT ![k] = x]
      /\ chain'.settled = chain.settled /\ chain'.limits = chain.limits
      /\ chain'.resolved = chain.resolved /\ chain'.shares = chain.shares
      /\ chain'.oi = chain.oi /\ chain'.rates = chain.rates
  BY ChainTyped DEF UpdateTpSl, ChainType
<1> HIDE DEF e
<1>5. chain.trades[k] \in TradeRow
  BY <1>3, ChainTyped, RowTypes
<1>6. TKind(e, e.key) = "update"
  BY <1>2 DEF TKind
<1>7. TradeView(x) = Step("update", TradeOf(e), TradeView(chain.trades[e.key]))
  BY <1>2, <1>5, UpdateTradeView
<1> HIDE DEF x
<1>8. TradeStep(chain, chain', e)
  BY <1>2, <1>4, <1>6, <1>7, ChainTyped, TradeSlot
<1>9. TradePart(chain, chain', e)
  BY <1>2, <1>3, <1>8 DEF TradePart, TKind
<1>10. ChainStep(chain, chain', e)
  BY <1>2, <1>4, <1>9, Untouched DEF ChainStep, TradeCloses, LimitCloses, Rate
<1> QED BY <1>2, <1>3, <1>10, EmitsWhole

(* a close, by whatever reason,                                             *)
LEMMA CloseTradeEmits ==
  ASSUME LedgerTypeOK, NEW topic, NEW reason, NEW k \in Key, NEW j \in Key,
         NEW f \in BOOLEAN, NEW px \in Prices,
         <<topic, reason>> \in {<<"closed", "manual">>, <<"tp_sl_executed", "tp">>,
                               <<"tp_sl_executed", "sl">>, <<"liq", "liquidation">>},
         CloseTrade(topic, reason, k, j, f, px)
  PROVE  EmitsOne
<1> DEFINE e == EvAt(topic, j, k, f, AnyTerms, px)
<1>1. px \in Nat /\ AnyTerms \in TermsType /\ topic \in AllTopics /\ topic \in TradeCloses
  BY ConstTypes DEF AllTopics, TradeCloses
<1>2. e \in Event /\ e.topic = topic /\ e.key = j /\ e.slot = k /\ e.tx = NextTx /\ e.px = px
  <2>1. e \in Event
    BY <1>1, EvType
  <2> QED BY <2>1 DEF EvAt
<1>3. /\ log' = log \o <<e>> /\ chain.trades[k] # NoRow
      /\ reason = "tp" => HitsTp(chain.trades[k].terms, px)
      /\ reason = "sl" => HitsSl(chain.trades[k].terms, px)
  BY DEF CloseTrade, Emit
<1>4. /\ chain'.trades = [chain.trades EXCEPT ![k] = NoRow]
      /\ chain'.limits = chain.limits /\ chain'.resolved = chain.resolved
      /\ chain'.shares = chain.shares /\ chain'.oi = chain.oi
      /\ chain'.rates = chain.rates
  BY ChainTyped DEF CloseTrade, ChainType
<1>5. chain'.settled = chain.settled \cup
        {[key |-> k, terms |-> chain.trades[k].terms, openTx |-> chain.trades[k].tx,
          reason |-> reason, closeTx |-> NextTx]}
  BY ChainTyped DEF CloseTrade, ChainType
<1> HIDE DEF e
<1>6. e.topic \notin LimitCloses \cup Rate
        \cup {"placed", "updated_limit", "deposit", "withdraw", "oi_add", "oi_sub"}
  BY <1>1, <1>2 DEF TradeCloses, LimitCloses, Rate
<1>7. SharesPart(chain, chain', e) /\ OiStep(chain, chain', e)
  BY <1>4, <1>6, Untouched
<1>8. ASSUME Placed(e) PROVE ChainStep(chain, chain', e)
  <2>0. e.key = k
    BY <1>1, <1>2, <1>8 DEF Placed
  <2>1. TKind(e, e.key) = "close"
    BY <1>1, <1>2 DEF TKind, TradeCloses
  <2>2. TradeView(NoRow) = Step("close", TradeOf(e), TradeView(chain.trades[e.key]))
    BY EmptyView
  <2>3. TradeStep(chain, chain', e)
    BY <1>2, <1>4, <2>0, <2>1, <2>2, ChainTyped, TradeSlot
  <2>4. TradePart(chain, chain', e)
    BY <1>1, <1>2, <2>3 DEF TradePart, TKind, TradeCloses
  <2>5. Fits(reason, e, chain.trades[e.key].terms) /\ reason \in Reasons
    BY <1>2, <1>3, <2>0 DEF Fits, Reasons
  <2>6. chain'.settled = chain.settled \cup {SettledAs(chain.trades[e.key], e, reason)}
    BY <1>2, <1>5, <2>0 DEF SettledAs
  <2>7. SettledPart(chain, chain', e)
    BY <1>1, <1>2, <1>3, <2>0, <2>5, <2>6 DEF SettledPart
  <2> QED BY <1>4, <1>6, <2>4, <2>7, Untouched DEF ChainStep
<1>9. chain.settled \subseteq chain'.settled
  BY <1>5
<1> QED BY <1>2, <1>3, <1>7, <1>8, <1>9, Zenon DEF EmitsOne

(* a new order,                                                             *)
LEMMA PlaceLimitEmits ==
  ASSUME LedgerTypeOK, NEW k \in Key, NEW f \in BOOLEAN, NEW t \in Terms,
         NEW px \in Prices, PlaceLimit(k, f, t, px)
  PROVE  EmitsOne
<1> DEFINE e == Ev("placed", k, f, t, px)
<1>1. t \in TermsType /\ px \in Nat /\ "placed" \in AllTopics
  BY ConstTypes DEF AllTopics
<1>2. e \in Event /\ e.topic = "placed" /\ e.key = k /\ e.tx = NextTx /\ e.terms = t /\ e.px = px
  <2>1. IsEv(e, "placed", k, f, t, px)
    BY <1>1, EvFields, Zenon
  <2> HIDE DEF e
  <2> QED BY <2>1 DEF IsEv
<1> DEFINE x == [terms |-> t, px |-> px, tx |-> NextTx]
<1>3. log' = log \o <<e>> /\ chain.limits[k] = NoRow
  BY DEF PlaceLimit, Emit
<1>4. /\ chain'.limits = [chain.limits EXCEPT ![k] = x]
      /\ chain'.trades = chain.trades /\ chain'.settled = chain.settled
      /\ chain'.resolved = chain.resolved /\ chain'.shares = chain.shares
      /\ chain'.oi = chain.oi /\ chain'.rates = chain.rates
  BY ChainTyped DEF PlaceLimit, ChainType
<1> HIDE DEF e
<1>5. x = [terms |-> e.terms, px |-> e.px, tx |-> IF chain.limits[e.key] = NoRow THEN e.tx
                                                  ELSE chain.limits[e.key].tx]
  BY <1>2, <1>3
<1>6. LKind(e, e.key) = "open"
  BY <1>2 DEF LKind
<1> HIDE DEF x
<1>7. LimitView(x) = Step("open", LimitOf(e), LimitView(chain.limits[e.key]))
  BY <1>2, <1>3, <1>5, OpenLimitView
<1>8. LimitStep(chain, chain', e)
  BY <1>2, <1>4, <1>6, <1>7, ChainTyped, LimitSlot
<1>9. LimitPart(chain, chain', e)
  BY <1>2, <1>3, <1>8 DEF LimitPart, LKind
<1>10. ChainStep(chain, chain', e)
  BY <1>2, <1>4, <1>9, Untouched DEF ChainStep, TradeCloses, LimitCloses, Rate
<1> QED BY <1>2, <1>3, <1>10, EmitsWhole

(* an update of an order,                                                   *)
LEMMA UpdateLimitEmits ==
  ASSUME LedgerTypeOK, NEW k \in Key, NEW f \in BOOLEAN, NEW t \in Terms,
         NEW px \in Prices, UpdateLimit(k, f, t, px)
  PROVE  EmitsOne
<1> DEFINE e == Ev("updated_limit", k, f, t, px)
<1>1. t \in TermsType /\ px \in Nat /\ "updated_limit" \in AllTopics
  BY ConstTypes DEF AllTopics
<1>2. e \in Event /\ e.topic = "updated_limit" /\ e.key = k /\ e.tx = NextTx /\ e.terms = t /\ e.px = px
  <2>1. IsEv(e, "updated_limit", k, f, t, px)
    BY <1>1, EvFields, Zenon
  <2> HIDE DEF e
  <2> QED BY <2>1 DEF IsEv
<1> DEFINE x == Repriced(chain.limits[k], t, px)
<1>3. log' = log \o <<e>> /\ chain.limits[k] # NoRow
  BY DEF UpdateLimit, Emit
<1>4. /\ chain'.limits = [chain.limits EXCEPT ![k] = x]
      /\ chain'.trades = chain.trades /\ chain'.settled = chain.settled
      /\ chain'.resolved = chain.resolved /\ chain'.shares = chain.shares
      /\ chain'.oi = chain.oi /\ chain'.rates = chain.rates
  BY ChainTyped DEF UpdateLimit, ChainType
<1> HIDE DEF e
<1>5. chain.limits[k] \in LimitRow
  BY <1>3, ChainTyped, RowTypes
<1>6. LKind(e, e.key) = "update"
  BY <1>2 DEF LKind
<1>7. LimitView(x) = Step("update", LimitOf(e), LimitView(chain.limits[e.key]))
  BY <1>2, <1>5, UpdateLimitView
<1> HIDE DEF x
<1>8. LimitStep(chain, chain', e)
  BY <1>2, <1>4, <1>6, <1>7, ChainTyped, LimitSlot
<1>9. LimitPart(chain, chain', e)
  BY <1>2, <1>3, <1>8 DEF LimitPart, LKind
<1>10. ChainStep(chain, chain', e)
  BY <1>2, <1>4, <1>9, Untouched DEF ChainStep, TradeCloses, LimitCloses, Rate
<1> QED BY <1>2, <1>3, <1>10, EmitsWhole

(* a canceled order,                                                        *)
LEMMA CancelLimitEmits ==
  ASSUME LedgerTypeOK, NEW k \in Key, CancelLimit(k)
  PROVE  EmitsOne
<1> DEFINE e == Ev("canceled", k, TRUE, AnyTerms, AnyPrice)
<1>1. AnyTerms \in TermsType /\ AnyPrice \in Nat /\ "canceled" \in AllTopics
  BY ConstTypes DEF AllTopics
<1>2. e \in Event /\ e.topic = "canceled" /\ e.key = k /\ e.tx = NextTx /\ e.terms = AnyTerms /\ e.px = AnyPrice
  <2>1. IsEv(e, "canceled", k, TRUE, AnyTerms, AnyPrice)
    BY <1>1, EvFields, Zenon
  <2> HIDE DEF e
  <2> QED BY <2>1 DEF IsEv
<1>3. log' = log \o <<e>> /\ chain.limits[k] # NoRow
  BY DEF CancelLimit, Emit
<1>4. /\ chain'.limits = [chain.limits EXCEPT ![k] = NoRow]
      /\ chain'.trades = chain.trades /\ chain'.settled = chain.settled
      /\ chain'.shares = chain.shares /\ chain'.oi = chain.oi
      /\ chain'.rates = chain.rates
  BY ChainTyped DEF CancelLimit, ChainType
<1>5. chain'.resolved = Append(chain.resolved, [key |-> k, row |-> chain.limits[k],
                                                how |-> "canceled", tx |-> NextTx])
  BY ChainTyped DEF CancelLimit, ChainType, Resolve
<1> HIDE DEF e
<1>6. LKind(e, e.key) = "close"
  BY <1>2 DEF LKind
<1>7. LimitStep(chain, chain', e)
  <2>1. LimitView(NoRow) = Step("close", LimitOf(e), LimitView(chain.limits[e.key]))
    BY EmptyView
  <2> QED BY <1>2, <1>4, <1>6, <2>1, ChainTyped, LimitSlot
<1>8. LimitPart(chain, chain', e)
  BY <1>2, <1>7 DEF LimitPart, LKind
<1>9. ResolvedPart(chain, chain', e)
  BY <1>2, <1>3, <1>5 DEF ResolvedPart, ResolvedAs, LimitCloses
<1>10. ChainStep(chain, chain', e)
  BY <1>2, <1>4, <1>8, <1>9, Untouched DEF ChainStep, TradeCloses, Rate
<1> QED BY <1>2, <1>3, <1>10, EmitsWhole

(* a deposit,                                                               *)
LEMMA DepositEmits ==
  ASSUME LedgerTypeOK, NEW k \in Key, NEW j \in Key, NEW px \in Prices, Deposit(k, j, px)
  PROVE  EmitsOne
<1> DEFINE e == EvAt("deposit", k, j, TRUE, AnyTerms, px)
<1>1. AnyTerms \in TermsType /\ px \in Nat /\ "deposit" \in AllTopics
  BY ConstTypes DEF AllTopics
<1>2. e \in Event /\ e.topic = "deposit" /\ e.key = k /\ e.slot = j /\ e.tx = NextTx /\ e.px = px
  <2>1. e \in Event
    BY <1>1, EvType
  <2> QED BY <2>1 DEF EvAt
<1>3. log' = log \o <<e>>
  BY DEF Deposit, Emit
<1>4. /\ chain'.shares = [chain.shares EXCEPT ![j] = @ + px]
      /\ chain'.trades = chain.trades /\ chain'.settled = chain.settled
      /\ chain'.limits = chain.limits /\ chain'.resolved = chain.resolved
      /\ chain'.oi = chain.oi /\ chain'.rates = chain.rates
  BY ChainTyped DEF Deposit, ChainType
<1> HIDE DEF e
<1>5. SharesPart(chain, chain', e)
  BY <1>2, <1>4, ChainTyped DEF SharesPart, Moves
<1>6. ChainStep(chain, chain', e)
  BY <1>2, <1>4, <1>5, Untouched DEF ChainStep, TradeCloses, LimitCloses, Rate
<1> QED BY <1>2, <1>3, <1>6, EmitsWhole

(* a withdrawal,                                                            *)
LEMMA WithdrawEmits ==
  ASSUME LedgerTypeOK, NEW k \in Key, NEW px \in Prices, Withdraw(k, px)
  PROVE  EmitsOne
<1> DEFINE e == Ev("withdraw", k, TRUE, AnyTerms, px)
<1>1. AnyTerms \in TermsType /\ px \in Nat /\ "withdraw" \in AllTopics
  BY ConstTypes DEF AllTopics
<1>2. e \in Event /\ e.topic = "withdraw" /\ e.key = k /\ e.tx = NextTx /\ e.terms = AnyTerms /\ e.px = px
  <2>1. IsEv(e, "withdraw", k, TRUE, AnyTerms, px)
    BY <1>1, EvFields, Zenon
  <2> HIDE DEF e
  <2> QED BY <2>1 DEF IsEv
<1>3. log' = log \o <<e>>
  BY DEF Withdraw, Emit
<1>4. /\ chain'.shares = [chain.shares EXCEPT ![k] = @ - px]
      /\ chain'.trades = chain.trades /\ chain'.settled = chain.settled
      /\ chain'.limits = chain.limits /\ chain'.resolved = chain.resolved
      /\ chain'.oi = chain.oi /\ chain'.rates = chain.rates
  BY ChainTyped DEF Withdraw, ChainType
<1> HIDE DEF e
<1>5. SharesPart(chain, chain', e)
  BY <1>2, <1>4, ChainTyped DEF SharesPart
<1>6. ChainStep(chain, chain', e)
  BY <1>2, <1>4, <1>5, Untouched DEF ChainStep, TradeCloses, LimitCloses, Rate
<1> QED BY <1>2, <1>3, <1>6, EmitsWhole

(* shares that change hands,                                                *)
LEMMA TransferEmits ==
  ASSUME LedgerTypeOK, NEW k \in Key, NEW j \in Key, NEW px \in Prices, Transfer(k, j, px)
  PROVE  EmitsOne
<1> DEFINE e == EvAt("transfer", k, j, TRUE, AnyTerms, px)
<1>1. AnyTerms \in TermsType /\ px \in Nat /\ "transfer" \in AllTopics
  BY ConstTypes DEF AllTopics
<1>2. e \in Event /\ e.topic = "transfer" /\ e.key = k /\ e.slot = j /\ e.tx = NextTx /\ e.px = px
  <2>1. e \in Event
    BY <1>1, EvType
  <2> QED BY <2>1 DEF EvAt
<1>3. log' = log \o <<e>>
  BY DEF Transfer, Emit
<1>4. /\ chain'.shares = [chain.shares EXCEPT ![k] = @ - px, ![j] = @ + px]
      /\ chain'.trades = chain.trades /\ chain'.settled = chain.settled
      /\ chain'.limits = chain.limits /\ chain'.resolved = chain.resolved
      /\ chain'.oi = chain.oi /\ chain'.rates = chain.rates
  BY ChainTyped DEF Transfer, ChainType
<1> HIDE DEF e
<1>5. SharesPart(chain, chain', e)
  BY <1>2, <1>4, ChainTyped DEF SharesPart, Moves
<1>6. ChainStep(chain, chain', e)
  BY <1>2, <1>4, <1>5, Untouched DEF ChainStep, TradeCloses, LimitCloses, Rate
<1> QED BY <1>2, <1>3, <1>6, EmitsWhole

(* shares that are burnt,                                                   *)
LEMMA BurnEmits ==
  ASSUME LedgerTypeOK, NEW k \in Key, NEW px \in Prices, Burn(k, px)
  PROVE  EmitsOne
<1> DEFINE e == Ev("burn", k, TRUE, AnyTerms, px)
<1>1. AnyTerms \in TermsType /\ px \in Nat /\ "burn" \in AllTopics
  BY ConstTypes DEF AllTopics
<1>2. e \in Event /\ e.topic = "burn" /\ e.key = k /\ e.slot = k /\ e.tx = NextTx /\ e.px = px
  <2>1. IsEv(e, "burn", k, TRUE, AnyTerms, px) /\ e.slot = k
    BY <1>1, EvAtFields, Zenon DEF Ev
  <2> HIDE DEF e
  <2> QED BY <2>1 DEF IsEv
<1>3. log' = log \o <<e>>
  BY DEF Burn, Emit
<1>4. /\ chain'.shares = [chain.shares EXCEPT ![k] = @ - px]
      /\ chain'.trades = chain.trades /\ chain'.settled = chain.settled
      /\ chain'.limits = chain.limits /\ chain'.resolved = chain.resolved
      /\ chain'.oi = chain.oi /\ chain'.rates = chain.rates
  BY ChainTyped DEF Burn, ChainType
<1> HIDE DEF e
<1>5. SharesPart(chain, chain', e)
  BY <1>2, <1>4, ChainTyped DEF SharesPart, Moves
<1>6. ChainStep(chain, chain', e)
  BY <1>2, <1>4, <1>5, Untouched DEF ChainStep, TradeCloses, LimitCloses, Rate
<1> QED BY <1>2, <1>3, <1>6, EmitsWhole

(* more open interest,                                                      *)
LEMMA AddOIEmits ==
  ASSUME LedgerTypeOK, NEW k \in Key, NEW long \in BOOLEAN, NEW px \in Prices, AddOI(k, long, px)
  PROVE  EmitsOne
<1> DEFINE e == Ev("oi_add", k, TRUE, Side(long), px)
<1>1. Side(long) \in TermsType /\ Side(long).long = long /\ px \in Nat /\ "oi_add" \in AllTopics
  BY ConstTypes DEF AllTopics
<1>2. e \in Event /\ e.topic = "oi_add" /\ e.key = k /\ e.tx = NextTx /\ e.terms.long = long /\ e.px = px
  <2>1. IsEv(e, "oi_add", k, TRUE, Side(long), px)
    BY <1>1, EvFields, Zenon
  <2> HIDE DEF e
  <2> QED BY <1>1, <2>1 DEF IsEv
<1>3. log' = log \o <<e>>
  BY DEF AddOI, Emit
<1>4. /\ chain'.oi = [chain.oi EXCEPT ![k][long] = @ + px]
      /\ chain'.trades = chain.trades /\ chain'.settled = chain.settled
      /\ chain'.limits = chain.limits /\ chain'.resolved = chain.resolved
      /\ chain'.shares = chain.shares /\ chain'.rates = chain.rates
  BY ChainTyped DEF AddOI, ChainType
<1>5. chain.oi[k][long] \in Nat
  BY <1>1, ChainTyped DEF TermsType
<1> HIDE DEF e
<1>6. OiStep(chain, chain', e)
  BY <1>1, <1>2, <1>3, <1>4, <1>5, ChainTyped DEF OiStep, GreatestZero
<1>7. ChainStep(chain, chain', e)
  BY <1>2, <1>4, <1>6, Untouched DEF ChainStep, TradeCloses, LimitCloses, Rate
<1> QED BY <1>2, <1>3, <1>7, EmitsWhole

(* less open interest,                                                      *)
LEMMA SubOIEmits ==
  ASSUME LedgerTypeOK, NEW k \in Key, NEW long \in BOOLEAN, NEW px \in Prices, SubOI(k, long, px)
  PROVE  EmitsOne
<1> DEFINE e == Ev("oi_sub", k, TRUE, Side(long), px)
<1>1. Side(long) \in TermsType /\ Side(long).long = long /\ px \in Nat /\ "oi_sub" \in AllTopics
  BY ConstTypes DEF AllTopics
<1>2. e \in Event /\ e.topic = "oi_sub" /\ e.key = k /\ e.tx = NextTx /\ e.terms.long = long /\ e.px = px
  <2>1. IsEv(e, "oi_sub", k, TRUE, Side(long), px)
    BY <1>1, EvFields, Zenon
  <2> HIDE DEF e
  <2> QED BY <1>1, <2>1 DEF IsEv
<1>3. log' = log \o <<e>> /\ px <= chain.oi[k][long]
  BY DEF SubOI, Emit
<1>4. /\ chain'.oi = [chain.oi EXCEPT ![k][long] = @ - px]
      /\ chain'.trades = chain.trades /\ chain'.settled = chain.settled
      /\ chain'.limits = chain.limits /\ chain'.resolved = chain.resolved
      /\ chain'.shares = chain.shares /\ chain'.rates = chain.rates
  BY ChainTyped DEF SubOI, ChainType
<1>5. chain.oi[k][long] \in Nat
  BY <1>1, ChainTyped DEF TermsType
<1> HIDE DEF e
<1>6. OiStep(chain, chain', e)
  BY <1>1, <1>2, <1>3, <1>4, <1>5, ChainTyped DEF OiStep, GreatestZero
<1>7. ChainStep(chain, chain', e)
  BY <1>2, <1>4, <1>6, Untouched DEF ChainStep, TradeCloses, LimitCloses, Rate
<1> QED BY <1>2, <1>3, <1>7, EmitsWhole

(* a new rate,                                                              *)
LEMMA SetRateEmits ==
  ASSUME LedgerTypeOK, NEW topic \in Rate, NEW k \in Key, NEW px \in Prices, SetRate(topic, k, px)
  PROVE  EmitsOne
<1> DEFINE e == Ev(topic, k, TRUE, AnyTerms, px)
<1>1. AnyTerms \in TermsType /\ px \in Nat /\ topic \in AllTopics
  BY ConstTypes DEF AllTopics, Rate
<1>2. e \in Event /\ e.topic = topic /\ e.key = k /\ e.tx = NextTx /\ e.terms = AnyTerms /\ e.px = px
  <2>1. IsEv(e, topic, k, TRUE, AnyTerms, px)
    BY <1>1, EvFields, Zenon
  <2> HIDE DEF e
  <2> QED BY <2>1 DEF IsEv
<1>3. log' = log \o <<e>>
  BY DEF SetRate, Emit
<1>4. /\ chain'.rates = [chain.rates EXCEPT ![k][topic] = px]
      /\ chain'.trades = chain.trades /\ chain'.settled = chain.settled
      /\ chain'.limits = chain.limits /\ chain'.resolved = chain.resolved
      /\ chain'.shares = chain.shares /\ chain'.oi = chain.oi
  BY ChainTyped DEF SetRate, ChainType
<1> HIDE DEF e
<1>5. RateStep(chain, chain', e)
  BY <1>2, <1>4, ChainTyped DEF RateStep
<1>6. ChainStep(chain, chain', e)
  BY <1>2, <1>4, <1>5, Untouched DEF ChainStep, TradeCloses, LimitCloses, Rate
<1> QED BY <1>2, <1>3, <1>6, EmitsWhole

(* an event without effect on the projections,                              *)
LEMMA OtherEventEmits ==
  ASSUME LedgerTypeOK, NEW topic \in {"settle", "undecodable"}, NEW k \in Key, OtherEvent(topic, k)
  PROVE  EmitsOne
<1> DEFINE e == Ev(topic, k, TRUE, AnyTerms, AnyPrice)
<1>1. AnyTerms \in TermsType /\ AnyPrice \in Nat /\ topic \in AllTopics
  BY ConstTypes DEF AllTopics
<1>2. e \in Event /\ e.topic = topic /\ e.key = k /\ e.tx = NextTx /\ e.terms = AnyTerms /\ e.px = AnyPrice
  <2>1. IsEv(e, topic, k, TRUE, AnyTerms, AnyPrice)
    BY <1>1, EvFields, Zenon
  <2> HIDE DEF e
  <2> QED BY <2>1 DEF IsEv
<1>3. log' = log \o <<e>> /\ chain' = chain
  BY DEF OtherEvent, Emit
<1> HIDE DEF e
<1>4. ChainStep(chain, chain', e)
  BY <1>2, <1>3, Untouched DEF ChainStep, TradeCloses, LimitCloses, Rate
<1> QED BY <1>2, <1>3, <1>4, EmitsWhole

(* and an executed order, which takes two steps.                            *)
LEMMA ExecuteLimitEmits ==
  ASSUME LedgerTypeOK, NEW k \in Key, NEW j \in Key, ExecuteLimit(k, j)
  PROVE  EmitsTwo
<1> DEFINE e == Ev("executed", k, TRUE, AnyTerms, AnyPrice)
           f == Ev("opened", j, TRUE, chain.limits[k].terms, AnyPrice)
           c == [chain EXCEPT !.limits[k] = NoRow,
                              !.resolved = Append(@, Resolve(k, "executed"))]
           x == [terms |-> chain.limits[k].terms, tx |-> NextTx]
<1>1. /\ log' = log \o <<e, f>> /\ chain.limits[k] # NoRow /\ chain.trades[j] = NoRow
  BY DEF ExecuteLimit, Emit
<1>2. chain.limits[k] \in LimitRow /\ chain.limits[k].terms \in TermsType
  BY <1>1, ChainTyped, RowTypes DEF LimitRow
<1>3. AnyTerms \in TermsType /\ AnyPrice \in Nat /\ "executed" \in AllTopics /\ "opened" \in AllTopics
  BY ConstTypes DEF AllTopics
<1>4. e \in Event /\ e.topic = "executed" /\ e.key = k /\ e.tx = NextTx
  <2>1. IsEv(e, "executed", k, TRUE, AnyTerms, AnyPrice)
    BY <1>3, EvFields, Zenon
  <2> HIDE DEF e
  <2> QED BY <2>1 DEF IsEv
<1>5. f \in Event /\ f.topic = "opened" /\ f.key = j /\ f.tx = NextTx
      /\ f.terms = chain.limits[k].terms
  <2>1. IsEv(f, "opened", j, TRUE, chain.limits[k].terms, AnyPrice)
    BY <1>2, <1>3, EvFields, Zenon
  <2> HIDE DEF f
  <2> QED BY <2>1 DEF IsEv
<1>6. Resolve(k, "executed") \in Resolution
  BY <1>2, <1>4, EventFields DEF Resolve, Resolution
<1>7. /\ c.limits = [chain.limits EXCEPT ![k] = NoRow]
      /\ c.resolved = Append(chain.resolved, Resolve(k, "executed"))
      /\ c.trades = chain.trades /\ c.settled = chain.settled /\ c.shares = chain.shares
      /\ c.oi = chain.oi /\ c.rates = chain.rates
  BY ChainTyped DEF ChainType
<1>8. c \in ChainType
  <2>1. c.limits \in LimitTable
    BY <1>7, ChainTyped DEF LimitTable
  <2>2. c.resolved \in Seq(Resolution)
    BY <1>6, <1>7, ChainTyped DEF ChainType
  <2> QED BY <2>1, <2>2, <1>7, ChainTyped DEF ChainType
<1>9. /\ chain'.trades = [c.trades EXCEPT ![j] = x]
      /\ chain'.settled = c.settled /\ chain'.limits = c.limits
      /\ chain'.resolved = c.resolved /\ chain'.shares = c.shares
      /\ chain'.oi = c.oi /\ chain'.rates = c.rates
  BY <1>7, ChainTyped DEF ExecuteLimit, ChainType
<1> HIDE DEF e, f, c
<1>10. ChainStep(chain, c, e)
  <2>1. LKind(e, e.key) = "close"
    BY <1>4 DEF LKind
  <2>2. LimitView(NoRow) = Step("close", LimitOf(e), LimitView(chain.limits[e.key]))
    BY EmptyView
  <2>3. LimitStep(chain, c, e)
    BY <1>4, <1>7, <2>1, <2>2, ChainTyped, LimitSlot
  <2>4. LimitPart(chain, c, e)
    BY <1>4, <2>3 DEF LimitPart, LKind
  <2>5. ResolvedPart(chain, c, e)
    BY <1>1, <1>4, <1>7 DEF ResolvedPart, ResolvedAs, LimitCloses, Resolve
  <2> QED BY <1>4, <1>7, <2>4, <2>5, Untouched DEF ChainStep, TradeCloses, Rate
<1>11. ChainStep(c, chain', f)
  <2>1. TKind(f, f.key) = "open"
    BY <1>5 DEF TKind
  <2>2. x = [terms |-> f.terms, tx |-> IF c.trades[f.key] = NoRow THEN f.tx
                                       ELSE c.trades[f.key].tx]
    BY <1>1, <1>5, <1>7
  <2>3. c.trades[f.key] = NoRow
    BY <1>1, <1>5, <1>7
  <2> HIDE DEF x
  <2>4. TradeView(x) = Step("open", TradeOf(f), TradeView(c.trades[f.key]))
    BY <1>5, <2>2, <2>3, OpenTradeView
  <2>5. c.trades \in TradeTable
    BY <1>7, ChainTyped
  <2>6. TradeStep(c, chain', f)
    BY <1>5, <1>9, <2>1, <2>4, <2>5, TradeSlot
  <2>7. TradePart(c, chain', f)
    BY <1>5, <2>3, <2>6 DEF TradePart, TKind
  <2> QED BY <1>5, <1>9, <2>7, Untouched DEF ChainStep, TradeCloses, LimitCloses, Rate
<1> QED BY <1>1, <1>4, <1>5, <1>8, <1>10, <1>11 DEF EmitsTwo

(* Every operation of the contracts is one of the two kinds of steps.       *)
LEMMA ContractsEmit ==
  ASSUME LedgerTypeOK, Contracts
  PROVE  EmitsOne \/ EmitsTwo
<1>1. ASSUME NEW k \in Key, NEW j \in Key, NEW f \in BOOLEAN, NEW px \in Prices,
             \/ CloseTrade("closed", "manual", k, j, f, px)
             \/ CloseTrade("tp_sl_executed", "tp", k, j, f, px)
             \/ CloseTrade("tp_sl_executed", "sl", k, j, f, px)
             \/ CloseTrade("liq", "liquidation", k, j, f, px)
      PROVE  EmitsOne
  BY <1>1, CloseTradeEmits
<1>2. CASE TradesAndOrders
  <2>1. PICK k \in Key : TradesAndOrders!(k)
    BY <1>2, ConstTypes DEF TradesAndOrders
  <2>2. \A t \in Terms : t.long \in BOOLEAN
    BY ConstTypes DEF TermsType
  <2> QED
    BY <1>1, <2>1, <2>2, ConstTypes, OpenTradeEmits, UpdateTpSlEmits, PlaceLimitEmits,
       UpdateLimitEmits, CancelLimitEmits, ExecuteLimitEmits, AddOIEmits, SubOIEmits,
       SetRateEmits, OtherEventEmits
<1>3. CASE Shares
  BY <1>3, ConstTypes, DepositEmits, TransferEmits, WithdrawEmits, BurnEmits DEF Shares
<1> QED BY <1>2, <1>3 DEF Contracts

-----------------------------------------------------------------------------
(* The row of slot k after the first n events.                              *)
Was(lg, k, n, row) == Good(TKinds(lg, k), TradeRows(lg), n, n, TradeView(row))

(* Every close in the log is settled with the row it found, and every       *)
(* settled row comes from one close.                                        *)
SettledOK(lg, c) ==
  /\ \A p \in 1 .. Len(lg) : lg[p].topic \in TradeCloses =>
       \E row \in TradeRow, reason \in Reasons :
         /\ Was(lg, lg[p].key, p - 1, row) /\ Fits(reason, lg[p], row.terms)
         /\ SettledAs(row, lg[p], reason) \in c.settled
  /\ \A h \in c.settled : \E p \in 1 .. Len(lg) :
       lg[p].topic \in TradeCloses /\ lg[p].key = h.key /\ lg[p].tx = h.closeTx
  /\ \A g, h \in c.settled : g.closeTx = h.closeTx => g = h

TxSorted(lg) == \A p \in 1 .. Len(lg) : lg[p].tx <= lg[Len(lg)].tx

ChainOK(lg, c) ==
  /\ Mirror(lg, Len(lg), Len(lg), c)
  /\ LogAlternates(lg)
  /\ SettledOK(lg, c)
  /\ TxSorted(lg)

(* Appending one event.                                                     *)
LEMMA AppendOne ==
  ASSUME NEW lg \in Seq(Event), NEW e \in Event, NEW lg2, lg2 = lg \o <<e>>
  PROVE  /\ lg2 \in Seq(Event) /\ Len(lg2) = Len(lg) + 1 /\ Len(lg) \in Nat
         /\ lg2[Len(lg) + 1] = e
         /\ \A p \in 1 .. Len(lg) : lg2[p] = lg[p]
         /\ \A p \in 1 .. Len(lg2) : p \in 1 .. Len(lg) \/ p = Len(lg) + 1
  OBVIOUS

(* Two events of one transaction are appended one after the other.          *)
LEMMA AppendTwo ==
  ASSUME NEW lg \in Seq(Event), NEW e \in Event, NEW f \in Event
  PROVE  lg \o <<e, f>> = (lg \o <<e>>) \o <<f>>
<1>1. <<e>> \in Seq(Event) /\ <<f>> \in Seq(Event) /\ <<e, f>> \in Seq(Event)
  OBVIOUS
<1>2. /\ <<e>> \o <<f>> \in Seq(Event) /\ Len(<<e>> \o <<f>>) = 2
      /\ (<<e>> \o <<f>>)[1] = e /\ (<<e>> \o <<f>>)[2] = f
  BY <1>1, ConcatProperties
<1>3. Len(<<e, f>>) = 2 /\ <<e, f>>[1] = e /\ <<e, f>>[2] = f
  OBVIOUS
<1>4. \A i \in 1 .. 2 : i = 1 \/ i = 2
  OBVIOUS
<1>5. \A i \in 1 .. 2 : (<<e>> \o <<f>>)[i] = <<e, f>>[i]
  BY <1>2, <1>3, <1>4
<1>6. <<e>> \o <<f>> = <<e, f>>
  BY <1>1, <1>2, <1>3, <1>5, SeqEqual
<1>7. \A t, u \in Seq(Event) : (lg \o t) \o u = lg \o (t \o u)
  BY ConcatAssociative
<1>8. (lg \o <<e>>) \o <<f>> = lg \o (<<e>> \o <<f>>)
  BY <1>1, <1>7, Zenon
<1> QED BY <1>6, <1>8, Zenon

(* The log determines the row a slot had at any time.                       *)
LEMMA WasUnique ==
  ASSUME NEW lg, NEW k, NEW n \in Nat, NEW x, NEW y, Was(lg, k, n, x), Was(lg, k, n, y),
         x = NoRow \/ x \in TradeRow, y = NoRow \/ y \in TradeRow
  PROVE  x = y
<1>1. /\ TradeView(x).on <=> TradeView(y).on
      /\ TradeView(x).on => /\ TradeView(x).tx = TradeView(y).tx
                            /\ TradeView(x).fix = TradeView(y).fix
                            /\ TradeView(x).var = TradeView(y).var
  BY GoodUnique DEF Was
<1>2. CASE x = NoRow
  BY <1>1, <1>2, ViewOn
<1>3. CASE x # NoRow
  <2>1. y # NoRow
    BY <1>1, <1>3, ViewOn
  <2>2. /\ x.tx = y.tx /\ x.terms.long = y.terms.long
        /\ <<x.terms.tp, x.terms.sl>> = <<y.terms.tp, y.terms.sl>>
    BY <1>1, <1>3, <2>1 DEF TradeView
  <2> QED BY <1>3, <2>1, <2>2, TradesDiffer
<1> QED BY <1>2, <1>3

(* A longer log has the same past.                                          *)
LEMMA WasPrefix ==
  ASSUME NEW lg \in Seq(Event), NEW lg2 \in Seq(Event), Len(lg) <= Len(lg2),
         \A p \in 1 .. Len(lg) : lg2[p] = lg[p],
         NEW n \in 0 .. Len(lg), NEW k, NEW row
  PROVE  Was(lg2, k, n, row) <=> Was(lg, k, n, row)
<1>1. ASSUME NEW p \in 1 .. n
      PROVE  TKinds(lg2, k)[p] = TKinds(lg, k)[p] /\ TradeRows(lg2)[p] = TradeRows(lg)[p]
  <2>1. lg2[p] = lg[p] /\ p \in 1 .. Len(lg) /\ p \in 1 .. Len(lg2)
    OBVIOUS
  <2> QED BY <2>1 DEF TKinds, TradeRows
<1>2. n \in Nat /\ n \in 0 .. n
  OBVIOUS
<1>3. /\ \A p \in 1 .. n : TKinds(lg2, k)[p] = TKinds(lg, k)[p] /\ TradeRows(lg2)[p] = TradeRows(lg)[p]
      /\ \A p \in 1 .. n : TKinds(lg, k)[p] = TKinds(lg2, k)[p] /\ TradeRows(lg)[p] = TradeRows(lg2)[p]
  BY <1>1
<1>4. Was(lg2, k, n, row) => Was(lg, k, n, row)
  BY <1>2, <1>3, GoodPrefix, Zenon DEF Was
<1>5. Was(lg, k, n, row) => Was(lg2, k, n, row)
  BY <1>2, <1>3, GoodPrefix, Zenon DEF Was
<1> QED BY <1>4, <1>5

(* So has the order of opening and closing.                                 *)
LEMMA AlternatesPrefix ==
  ASSUME NEW m \in Nat, NEW kind, NEW kind2, \A p \in 1 .. m : kind2[p] = kind[p],
         Alternates(kind, m)
  PROVE  Alternates(kind2, m)
<1>u. ASSUME NEW p \in 1 .. m, kind2[p] = "update"
      PROVE  \E o : Last(kind2, 0, p - 1, o) /\ kind2[o] = "open"
  <2>1. PICK o : Last(kind, 0, p - 1, o) /\ kind[o] = "open"
    BY <1>u DEF Alternates
  <2>2. o \in 1 .. p - 1 /\ kind[o] \in Turn /\ \A q \in o + 1 .. p - 1 : kind[q] \notin Turn
    BY <2>1 DEF Last, Idle
  <2>3. kind2[o] = kind[o] /\ \A q \in o + 1 .. p - 1 : kind2[q] = kind[q]
    BY <2>2
  <2>4. Last(kind2, 0, p - 1, o)
    BY <2>2, <2>3 DEF Last, Idle
  <2> QED BY <2>1, <2>3, <2>4
<1> SUFFICES ASSUME NEW p \in 1 .. m, kind2[p] = "open",
                    NEW q \in 1 .. p - 1, kind2[q] = "open"
             PROVE  \E c \in q + 1 .. p - 1 : kind2[c] = "close"
  BY <1>u DEF Alternates
<1>1. q \in 1 .. m /\ kind[p] = "open" /\ kind[q] = "open"
  OBVIOUS
<1>2. PICK c \in q + 1 .. p - 1 : kind[c] = "close"
  BY <1>1 DEF Alternates
<1>3. c \in 1 .. m
  OBVIOUS
<1> QED BY <1>2, <1>3

(* One more event keeps the contracts' state the one the log leaves.        *)
LEMMA ChainGrows ==
  ASSUME NEW lg \in Seq(Event), NEW e \in Event, NEW lg2, lg2 = lg \o <<e>>,
         NEW c \in ChainType, NEW d \in ChainType, ChainOK(lg, c), ChainStep(c, d, e),
         \A p \in 1 .. Len(lg) : lg[p].tx <= e.tx,
         e.topic \in TradeCloses => \A p \in 1 .. Len(lg) : lg[p].tx < e.tx
  PROVE  ChainOK(lg2, d)
<1> DEFINE m == Len(lg)
<1>0. /\ lg2 \in Seq(Event) /\ Len(lg2) = m + 1 /\ m \in Nat /\ lg2[m + 1] = e
      /\ \A p \in 1 .. m : lg2[p] = lg[p]
      /\ \A p \in 1 .. Len(lg2) : p \in 1 .. m \/ p = m + 1
  BY AppendOne
<1>t. \A p \in 1 .. m : lg[p] \in Event /\ lg[p].tx \in Nat /\ lg[p].key \in Key
  BY EventFields
<1> HIDE DEF m
<1>1. Mirror(lg2, m, m, c)
  <2>1. Mirror(lg, m, m, c)
    BY DEF ChainOK, m
  <2>2. Len(lg) <= Len(lg2) /\ m \in 0 .. Len(lg) /\ m \in 0 .. m
        /\ \A p \in 1 .. Len(lg) : lg2[p] = lg[p]
    BY <1>0 DEF m
  <2> QED BY <1>0, <2>1, <2>2, MirrorPrefix
<1>2. TableStep(c, d, e) /\ OpensEmpty(c, e)
  BY DEF ChainStep, TradePart, LimitPart, RateStep, TradeStep, LimitStep, TableStep, OpensEmpty
<1>3. Mirror(lg2, Len(lg2), Len(lg2), d)
  <2>1. m + 1 <= Len(lg2) /\ TableStep(c, d, lg2[m + 1]) /\ OpensEmpty(c, lg2[m + 1])
    BY <1>0, <1>2
  <2>2. Mirror(lg2, m + 1, m + 1, d)
    BY <1>0, <1>1, <2>1, MirrorAdvance
  <2> QED BY <1>0, <2>2
<1>4. LogAlternates(lg2)
  <2> SUFFICES ASSUME NEW k \in Key
               PROVE  Alternates(TKinds(lg2, k), m + 1) /\ Alternates(LKinds(lg2, k), m + 1)
    BY <1>0 DEF LogAlternates
  <2>1. \A p \in 1 .. m : /\ TKinds(lg2, k)[p] = TKinds(lg, k)[p]
                          /\ LKinds(lg2, k)[p] = LKinds(lg, k)[p]
    <3> SUFFICES ASSUME NEW p \in 1 .. m
                 PROVE  /\ TKinds(lg2, k)[p] = TKinds(lg, k)[p]
                        /\ LKinds(lg2, k)[p] = LKinds(lg, k)[p]
      OBVIOUS
    <3>1. p \in 1 .. Len(lg2) /\ p \in 1 .. Len(lg) /\ lg2[p] = lg[p]
      BY <1>0 DEF m
    <3> QED BY <3>1 DEF TKinds, LKinds
  <2>2. Alternates(TKinds(lg, k), m) /\ Alternates(LKinds(lg, k), m)
    BY DEF ChainOK, LogAlternates, m
  <2>3. Alternates(TKinds(lg2, k), m) /\ Alternates(LKinds(lg2, k), m)
    BY <1>0, <2>1, <2>2, AlternatesPrefix
  <2>4. m + 1 \in 1 .. Len(lg2)
    BY <1>0
  <2>5. /\ TKinds(lg2, k)[m + 1] = TKind(e, k) /\ LKinds(lg2, k)[m + 1] = LKind(e, k)
    BY <1>0, <2>4 DEF TKinds, LKinds
  <2>6. /\ TKinds(lg2, k)[m + 1] = "open" => ~TradeView(c.trades[k]).on
        /\ LKinds(lg2, k)[m + 1] = "open" => ~LimitView(c.limits[k]).on
    BY <1>2, <2>5, ViewOn DEF OpensEmpty
  <2>u. /\ TKinds(lg2, k)[m + 1] = "update" => TradeView(c.trades[k]).on
        /\ LKinds(lg2, k)[m + 1] = "update" => LimitView(c.limits[k]).on
    BY <2>5, ViewOn DEF ChainStep, TradePart, LimitPart
  <2>7. /\ Good(TKinds(lg2, k), TradeRows(lg2), m, m, TradeView(c.trades[k]))
        /\ Good(LKinds(lg2, k), LimitRows(lg2), m, m, LimitView(c.limits[k]))
    BY <1>1 DEF Mirror
  <2> QED BY <1>0, <2>3, <2>6, <2>u, <2>7, StillAlternates
<1>5. TxSorted(lg2)
  BY <1>0, <1>t, EventFields DEF TxSorted, m
<1>6. SettledOK(lg2, d)
  <2>0. /\ SettledOK(lg, c) /\ c.settled \subseteq d.settled
    BY DEF ChainOK, ChainStep, SettledPart
  <2>1. ASSUME NEW p \in 1 .. Len(lg2), lg2[p].topic \in TradeCloses
        PROVE  \E row \in TradeRow, reason \in Reasons :
                 /\ Was(lg2, lg2[p].key, p - 1, row) /\ Fits(reason, lg2[p], row.terms)
                 /\ SettledAs(row, lg2[p], reason) \in d.settled
    <3>1. CASE p \in 1 .. m
      <4>1. lg2[p] = lg[p] /\ p - 1 \in 0 .. Len(lg) /\ Len(lg) <= Len(lg2) /\ p \in 1 .. Len(lg)
            /\ \A q \in 1 .. Len(lg) : lg2[q] = lg[q]
        BY <1>0, <3>1 DEF m
      <4>2. PICK row \in TradeRow, reason \in Reasons :
              /\ Was(lg, lg[p].key, p - 1, row) /\ Fits(reason, lg[p], row.terms)
              /\ SettledAs(row, lg[p], reason) \in c.settled
        BY <2>0, <2>1, <4>1 DEF SettledOK
      <4>3. Was(lg2, lg2[p].key, p - 1, row)
        BY <1>0, <4>1, <4>2, WasPrefix
      <4> QED BY <2>0, <4>1, <4>2, <4>3
    <3>2. CASE p = m + 1
      <4>1. lg2[p] = e /\ p - 1 = m
        BY <1>0, <3>2
      <4>2. e.key \in Key /\ c.trades[e.key] # NoRow /\ c.trades[e.key] \in TradeRow
        <5>1. c.trades[e.key] # NoRow
          BY <2>1, <4>1 DEF ChainStep, SettledPart
        <5>2. c.trades \in TradeTable /\ e.key \in Key
          BY EventFields DEF ChainType
        <5> QED BY <5>1, <5>2 DEF TradeTable
      <4>3. Was(lg2, e.key, m, c.trades[e.key])
        BY <1>1, <4>2 DEF Mirror, Was
      <4>4. PICK reason \in Reasons :
              /\ Fits(reason, e, c.trades[e.key].terms)
              /\ d.settled = c.settled \cup {SettledAs(c.trades[e.key], e, reason)}
        BY <2>1, <4>1 DEF ChainStep, SettledPart
      <4> QED BY <4>1, <4>2, <4>3, <4>4
    <3> QED BY <1>0, <3>1, <3>2
  <2>2. ASSUME NEW h \in d.settled
        PROVE  \E p \in 1 .. Len(lg2) :
                 lg2[p].topic \in TradeCloses /\ lg2[p].key = h.key /\ lg2[p].tx = h.closeTx
    <3>1. CASE h \in c.settled
      <4>1. PICK p \in 1 .. Len(lg) :
              lg[p].topic \in TradeCloses /\ lg[p].key = h.key /\ lg[p].tx = h.closeTx
        BY <2>0, <3>1 DEF SettledOK
      <4>2. p \in 1 .. Len(lg2) /\ lg2[p] = lg[p]
        BY <1>0 DEF m
      <4> QED BY <4>1, <4>2
    <3>2. CASE h \notin c.settled
      <4>1. e.topic \in TradeCloses
        BY <2>2, <3>2 DEF ChainStep, SettledPart
      <4>2. PICK reason : d.settled = c.settled \cup {SettledAs(c.trades[e.key], e, reason)}
        BY <4>1 DEF ChainStep, SettledPart
      <4>3. h.key = e.key /\ h.closeTx = e.tx
        BY <2>2, <3>2, <4>2 DEF SettledAs
      <4>4. m + 1 \in 1 .. Len(lg2)
        BY <1>0
      <4> QED BY <1>0, <4>1, <4>3, <4>4
    <3> QED BY <3>1, <3>2
  <2>3. ASSUME NEW g \in d.settled, NEW h \in d.settled, g.closeTx = h.closeTx
        PROVE  g = h
    <3>1. CASE g \in c.settled /\ h \in c.settled
      BY <2>0, <2>3, <3>1 DEF SettledOK
    <3>2. CASE g \notin c.settled \/ h \notin c.settled
      <4>1. e.topic \in TradeCloses
        BY <2>3, <3>2 DEF ChainStep, SettledPart
      <4>2. PICK reason : d.settled = c.settled \cup {SettledAs(c.trades[e.key], e, reason)}
        BY <4>1 DEF ChainStep, SettledPart
      <4>3. ASSUME NEW x \in c.settled PROVE x.closeTx # e.tx
        <5>1. PICK p \in 1 .. Len(lg) : lg[p].tx = x.closeTx
          BY <2>0 DEF SettledOK
        <5>2. lg[p].tx < e.tx /\ lg[p].tx \in Nat /\ e.tx \in Nat
          BY <1>t, <4>1, EventFields DEF m
        <5> QED BY <5>1, <5>2
      <4>4. SettledAs(c.trades[e.key], e, reason).closeTx = e.tx
        BY DEF SettledAs
      <4> QED BY <2>3, <3>2, <4>2, <4>3, <4>4
    <3> QED BY <3>1, <3>2
  <2> QED BY <2>1, <2>2, <2>3 DEF SettledOK
<1> QED BY <1>3, <1>4, <1>5, <1>6 DEF ChainOK

(* The next transaction is none of those in the log.                        *)
LEMMA FreshTx ==
  ASSUME LedgerTypeOK, TxSorted(log)
  PROVE  /\ NextTx \in Nat
         /\ \A p \in 1 .. Len(log) : log[p].tx \in Nat /\ log[p].tx < NextTx
<1>1. log \in Seq(Event) /\ Len(log) \in Nat
  BY DEF LedgerTypeOK
<1>2. \A p \in 1 .. Len(log) : log[p].tx \in Nat
  BY <1>1, EventFields
<1>3. CASE log = <<>>
  BY <1>3 DEF NextTx
<1>4. CASE log # <<>>
  <2>1. Len(log) \in 1 .. Len(log)
    BY <1>1, <1>4
  <2>2. \A p \in 1 .. Len(log) : log[p].tx <= log[Len(log)].tx
    BY DEF TxSorted
  <2>3. NextTx = log[Len(log)].tx + 1
    BY <1>4 DEF NextTx
  <2> QED BY <1>2, <2>1, <2>2, <2>3
<1> QED BY <1>3, <1>4

(* The contracts' state is the one their log leaves, as long as no close    *)
(* was filed under another slot.                                            *)
AllPlaced(lg) == \A p \in 1 .. Len(lg) : Placed(lg[p])
ChainInv(lg, c) == TxSorted(lg) /\ (AllPlaced(lg) => ChainOK(lg, c))

(* Nothing lost means nothing misplaced.                                    *)
LEMMA IntactPlaced ==
  ASSUME Intact, ChainInv(log, chain)
  PROVE  ChainOK(log, chain)
  BY DEF Intact, ChainInv, AllPlaced, Placed, TradeCloses

(* Appending an event that is not older keeps the log sorted.               *)
LEMMA SortedGrows ==
  ASSUME NEW lg \in Seq(Event), NEW e \in Event, NEW lg2, lg2 = lg \o <<e>>,
         \A p \in 1 .. Len(lg) : lg[p].tx <= e.tx
  PROVE  TxSorted(lg2)
<1>1. /\ Len(lg2) = Len(lg) + 1 /\ Len(lg) \in Nat /\ lg2[Len(lg) + 1] = e
      /\ \A p \in 1 .. Len(lg) : lg2[p] = lg[p]
      /\ \A p \in 1 .. Len(lg2) : p \in 1 .. Len(lg) \/ p = Len(lg) + 1
  BY AppendOne
<1> QED BY <1>1, EventFields DEF TxSorted

(* Every operation of the contracts keeps that.                             *)
LEMMA ContractsKeepChain ==
  ASSUME LedgerTypeOK, ChainInv(log, chain), Contracts
  PROVE  ChainInv(log, chain)' /\ chain.settled \subseteq chain'.settled
<1>1. /\ log \in Seq(Event) /\ chain \in ChainType /\ chain' \in ChainType
      /\ Len(log) \in Nat
  BY ChainTyped, ContractsStep DEF LedgerTypeOK
<1>2. \A p \in 1 .. Len(log) : log[p].tx \in Nat
  BY <1>1, EventFields
<1>3. NextTx \in Nat /\ \A p \in 1 .. Len(log) : log[p].tx < NextTx
  BY FreshTx DEF ChainInv
<1>4. CASE EmitsOne
  <2>1. PICK e \in Event : /\ e.tx = NextTx /\ log' = log \o <<e>>
                           /\ chain.settled \subseteq chain'.settled
                           /\ Placed(e) => ChainStep(chain, chain', e)
    BY <1>4 DEF EmitsOne
  <2>2. \A p \in 1 .. Len(log) : log[p].tx <= e.tx /\ log[p].tx < e.tx
    BY <1>2, <1>3, <2>1
  <2>3. TxSorted(log')
    BY <1>1, <2>1, <2>2, SortedGrows
  <2>4. ASSUME AllPlaced(log') PROVE ChainOK(log', chain')
    <3>1. /\ Len(log') = Len(log) + 1 /\ log'[Len(log) + 1] = e
          /\ \A p \in 1 .. Len(log) : log'[p] = log[p]
      BY <1>1, <2>1, AppendOne
    <3>2. Placed(e) /\ AllPlaced(log)
      BY <1>1, <2>4, <3>1 DEF AllPlaced
    <3> QED BY <1>1, <2>1, <2>2, <3>2, ChainGrows DEF ChainInv
  <2> QED BY <2>1, <2>3, <2>4 DEF ChainInv
<1>5. CASE EmitsTwo
  <2>1. PICK e \in Event, f \in Event, c \in ChainType :
          /\ e.tx = NextTx /\ f.tx = NextTx /\ log' = log \o <<e, f>>
          /\ ChainStep(chain, c, e) /\ ChainStep(c, chain', f)
          /\ e.topic \notin TradeCloses /\ f.topic \notin TradeCloses
    BY <1>5 DEF EmitsTwo, TradeCloses
  <2> DEFINE lg == log \o <<e>>
  <2>2. \A p \in 1 .. Len(log) : log[p].tx <= e.tx
    BY <1>2, <1>3, <2>1
  <2>4. /\ lg \in Seq(Event) /\ Len(lg) = Len(log) + 1 /\ lg[Len(log) + 1] = e
        /\ \A p \in 1 .. Len(log) : lg[p] = log[p]
        /\ \A p \in 1 .. Len(lg) : p \in 1 .. Len(log) \/ p = Len(log) + 1
    BY <1>1, AppendOne
  <2>3. ChainOK(log, chain) => ChainOK(lg, c)
    BY <1>1, <2>1, <2>2, ChainGrows
  <2>5. log' = lg \o <<f>>
    BY <1>1, <2>1, AppendTwo
  <2> HIDE DEF lg
  <2>6. \A p \in 1 .. Len(lg) : lg[p].tx <= f.tx
    BY <1>2, <1>3, <2>1, <2>4
  <2>7. TxSorted(log')
    BY <2>4, <2>5, <2>6, SortedGrows
  <2>8. ASSUME AllPlaced(log') PROVE ChainOK(log', chain')
    <3>1. \A p \in 1 .. Len(log) : p \in 1 .. Len(log') /\ log'[p] = log[p]
      BY <1>1, <2>4, <2>5, AppendOne
    <3>2. AllPlaced(log)
      BY <2>8, <3>1 DEF AllPlaced
    <3>3. ChainOK(lg, c)
      BY <2>3, <3>2 DEF ChainInv
    <3> QED BY <1>1, <2>1, <2>4, <2>5, <2>6, <3>3, ChainGrows
  <2>9. chain.settled \subseteq chain'.settled
    BY <2>1 DEF ChainStep, SettledPart
  <2> QED BY <2>7, <2>8, <2>9 DEF ChainInv
<1> QED BY <1>4, <1>5, ContractsEmit

(* At the start the log is empty and so are all tables.                     *)
LEMMA EmptyMirror ==
  ASSUME NEW lg \in Seq(Event), Len(lg) = 0, NEW t,
         t.trades = [k \in Key |-> NoRow], t.limits = [k \in Key |-> NoRow],
         t.rates = [k \in Key |-> [r \in Rate |-> 0]]
  PROVE  Mirror(lg, 0, 0, t)
<1> SUFFICES ASSUME NEW k \in Key
             PROVE  /\ Good(TKinds(lg, k), TradeRows(lg), 0, 0, TradeView(t.trades[k]))
                    /\ Good(LKinds(lg, k), LimitRows(lg), 0, 0, LimitView(t.limits[k]))
                    /\ \A a \in Rate : GoodRate(lg, k, a, 0, 0, t.rates[k][a])
  BY DEF Mirror
<1>1. TradeView(t.trades[k]) = NoSlot /\ LimitView(t.limits[k]) = NoSlot /\ ~NoSlot.on
  BY DEF TradeView, LimitView, NoSlot
<1>2. \A kind : Idle(kind, 0, 0)
  BY DEF Idle
<1>3. \A kind, new : Good(kind, new, 0, 0, NoSlot)
  BY <1>1, <1>2 DEF Good, Near
<1>4. \A a \in Rate : GoodRate(lg, k, a, 0, 0, t.rates[k][a])
  BY DEF GoodRate
<1> QED BY <1>1, <1>3, <1>4

(* The contracts start empty.                                               *)
LEMMA InitChain ==
  ASSUME LedgerInit
  PROVE  ChainInv(log, chain)
<1>1. log = <<>> /\ log \in Seq(Event) /\ Len(log) = 0 /\ chain.settled = {}
      /\ chain.trades = [k \in Key |-> NoRow] /\ chain.limits = [k \in Key |-> NoRow]
      /\ chain.rates = [k \in Key |-> [r \in Rate |-> 0]]
  BY DEF LedgerInit
<1>2. Mirror(log, Len(log), Len(log), chain)
  BY <1>1, EmptyMirror
<1>3. LogAlternates(log)
  BY <1>1 DEF LogAlternates, Alternates
<1>4. SettledOK(log, chain) /\ TxSorted(log)
  BY <1>1 DEF SettledOK, TxSorted
<1> QED BY <1>2, <1>3, <1>4 DEF ChainOK, ChainInv

-----------------------------------------------------------------------------
(* Where the indexer is in the log: the events after n are still to come.   *)
Coming(p) ==
  \/ pc = "down" /\ IsPending(p)
  \/ pc \in {"poll", "retry"} /\ Wanted(p, cursor, FromLedger)
  \/ pc = "apply" /\ p >= next
  \/ pc = "fanout" /\ p > next

Position(n) == \A p \in 1 .. Len(log) : p > n <=> Coming(p)

(* A position without a cursor was written by a clamp.                      *)
ClampInv == dbCursor.row /\ dbCursor.cur = NoCursor => dbCursor.ledger <= Oldest

(* What no step takes back.                                                 *)
StepGrows ==
  /\ log' \in Seq(Event) /\ Len(log) \in Nat /\ Len(log') \in Nat /\ Len(log) <= Len(log')
  /\ \A p \in 1 .. Len(log) : log'[p] = log[p]
  /\ Oldest \in Nat /\ Oldest' \in Nat /\ Oldest <= Oldest'
  /\ origin \in Nat /\ origin' \in Nat /\ origin <= origin'
  /\ failed \subseteq failed'

(* Every step only adds to log, window, origin and failures.                *)
LEMMA NextGrows ==
  ASSUME FullInv, [Next]_vars
  PROVE  StepGrows
<1>1. TypeOK' /\ TypeOK
  BY NextKeepsInv DEF FullInv
<1>2. /\ Len(log) \in Nat /\ latest \in Nat \ {0} /\ origin \in Nat /\ StartLedger \in Nat
      /\ log' \in Seq(Event) /\ Len(log') \in Nat /\ latest' \in Nat \ {0} /\ origin' \in Nat
      /\ log \in Seq(Event)
  BY <1>1, IndexerAssumption, SMTT(20) DEF TypeOK, LedgerTypeOK
<1>3. CASE LedgerStep
  <2>1. Grows
    BY <1>1, <1>3, LedgerGrows DEF LedgerStep, TypeOK
  <2>2. Oldest \in Nat /\ Oldest' \in Nat /\ Oldest <= Oldest'
    BY <1>2, <2>1, OldestMonotone DEF Grows
  <2>3. origin' = origin /\ failed' = failed
    BY <1>3 DEF LedgerStep, indexerVars
  <2> QED BY <1>2, <2>1, <2>2, <2>3 DEF Grows, StepGrows
<1>4. CASE IndexerStep \/ UNCHANGED vars
  <2>1. UNCHANGED ledgerVars /\ failed \subseteq failed'
    BY <1>4 DEF IndexerStep, Boot, GetEvents, Clamp, RetryError, EventError, ApplyEvent,
       Fanout, EndPage, Crash, vars, indexerVars
  <2>2. log' = log /\ latest' = latest
    BY <2>1 DEF ledgerVars
  <2>3. Oldest \in Nat /\ Oldest' = Oldest
    <3>1. Oldest' = Oldest
      BY <2>1, SameLog
    <3>2. Oldest \in Nat
      BY <1>1, Basics
    <3> QED BY <3>1, <3>2
  <2>4. origin <= origin'
    <3>1. CASE Boot
      <4>1. origin' = origin \/ origin' = IF StartLedger > 0 THEN StartLedger ELSE latest
        BY <3>1 DEF Boot
      <4>2. /\ StartLedger > 0 => origin \in {0, StartLedger}
            /\ StartLedger = 0 => origin <= latest
        BY DEF FullInv, OriginInv
      <4> QED BY <1>2, <4>1, <4>2
    <3>2. CASE ~Boot
      <4>1. origin' = origin
        BY <1>4, <3>2 DEF IndexerStep, GetEvents, Clamp, RetryError, EventError, ApplyEvent,
           Fanout, EndPage, Crash, vars, indexerVars
      <4> QED BY <1>2, <4>1
    <3> QED BY <3>1, <3>2
  <2> QED BY <1>2, <2>1, <2>2, <2>3, <2>4 DEF StepGrows
<1> QED BY <1>3, <1>4 DEF Next

(* What was lost stays lost, and what was ambiguous stays ambiguous.        *)
LEMMA IntactBefore ==
  ASSUME FullInv, [Next]_vars, Intact'
  PROVE  Intact
<1>1. StepGrows
  BY NextGrows
<1>2. /\ failed \subseteq 1 .. Len(log) /\ \A p \in 1 .. Len(log) : log[p].ledger \in Nat
  BY Basics DEF FullInv, TypeOK
<1>3. \A p \in failed : log[p].topic = "undecodable"
  BY <1>1, <1>2 DEF Intact, StepGrows
<1>4. ASSUME NEW p \in 1 .. Len(log)
      PROVE  /\ log[p].ledger >= Oldest /\ log[p].ledger >= origin
             /\ log[p].topic \in {"placed", "updated_limit", "updated_tp_sl"} => log[p].full
             /\ log[p].topic \in {"closed", "tp_sl_executed", "liq"} => log[p].key = log[p].slot
  <2>1. p \in 1 .. Len(log') /\ log'[p] = log[p]
    BY <1>1 DEF StepGrows
  <2>2. /\ log[p].ledger >= Oldest' /\ log[p].ledger >= origin'
        /\ log[p].topic \in {"placed", "updated_limit", "updated_tp_sl"} => log[p].full
        /\ log[p].topic \in {"closed", "tp_sl_executed", "liq"} => log[p].key = log[p].slot
    BY <2>1 DEF Intact
  <2> QED BY <1>1, <1>2, <2>2 DEF StepGrows
<1> QED BY <1>3, <1>4 DEF Intact

(* In an intact state the events handled are the ones done or undecodable.  *)
LEMMA IntactHandled ==
  ASSUME TypeOK, Intact, NEW p \in 1 .. Len(log), Handled(p)
  PROVE  p \in done \cup failed
<1>1. log[p].ledger \in Nat /\ Oldest \in Nat /\ origin \in Nat
  BY Basics
<1>2. log[p].ledger >= Oldest /\ log[p].ledger >= origin
  BY DEF Intact
<1> QED BY <1>1, <1>2 DEF Handled, Expired

(* The events a running process has still to come to are all pending.       *)
LEMMA ComingIsPending ==
  ASSUME FullInv, NEW p \in 1 .. Len(log), Coming(p)
  PROVE  IsPending(p)
<1>1. CASE pc = "down"
  BY <1>1 DEF Coming
<1>2. CASE pc \in {"poll", "retry"}
  BY <1>2 DEF Coming, FullInv, IndInv, PollInv
<1>3. CASE pc \in {"apply", "fanout"}
  <2>1. p >= next /\ next \in Nat /\ page.lo \in Nat /\ page.lo <= next
    BY <1>3, Basics, SMTT(20) DEF Coming, FullInv, IndInv, PageInv
  <2>2. p >= page.lo
    BY <2>1
  <2> QED BY <1>3, <2>2 DEF FullInv, IndInv, PageInv
<1> QED BY <1>1, <1>2, <1>3 DEF Coming

(* An event that just happened is still to come.                            *)
LEMMA NewIsComing ==
  ASSUME FullInv, FullInv', Intact', LedgerStep, NEW p \in 1 .. Len(log'), p > Len(log)
  PROVE  Coming(p)'
<1>1. /\ pc' = pc /\ next' = next /\ page' = page /\ done' = done /\ failed' = failed
  BY DEF LedgerStep, indexerVars, memVars
<1>2. p \notin done' \cup failed'
  <2>1. Len(log) \in Nat /\ done \subseteq 1 .. Len(log) /\ failed \subseteq 1 .. Len(log)
    BY Basics DEF FullInv, TypeOK
  <2> QED BY <1>1, <2>1
<1>3. ~Handled(p)'
  <2>1. ASSUME Handled(p)' PROVE FALSE
    <3>1. log'[p].ledger \in Nat /\ Oldest' \in Nat /\ origin' \in Nat
      <4>1. StepGrows
        BY NextGrows DEF Next
      <4>2. log'[p] \in Event
        BY <4>1 DEF StepGrows
      <4> QED BY <4>1, <4>2 DEF StepGrows, Event
    <3>2. log'[p].ledger >= Oldest' /\ log'[p].ledger >= origin'
      BY DEF Intact
    <3> QED BY <1>2, <2>1, <3>1, <3>2 DEF Handled, Expired
  <2> QED BY <2>1
<1>4. CASE pc' = "down"
  BY <1>3, <1>4 DEF Coming, FullInv, IndInv, DurableInv
<1>5. CASE pc' \in {"poll", "retry"}
  BY <1>3, <1>5 DEF Coming, FullInv, IndInv, PollInv
<1>6. CASE pc' \in {"apply", "fanout"}
  <2>1. /\ pc \in {"apply", "fanout"} /\ next <= page.hi + 1 /\ page.hi <= Len(log)
        /\ pc = "fanout" => next <= page.hi
    BY <1>1, <1>6 DEF FullInv, IndInv, PageInv, CutsLog
  <2>2. next \in Nat /\ page.hi \in Nat /\ Len(log) \in Nat
    BY Basics DEF FullInv
  <2>3. p >= next /\ (pc = "fanout" => p > next)
    BY <2>1, <2>2
  <2> QED BY <1>1, <1>6, <2>3 DEF Coming
<1> QED
  <2>1. pc' \in {"down", "poll", "retry", "apply", "fanout"}
    BY DEF FullInv, TypeOK
  <2> QED BY <1>4, <1>5, <1>6, <2>1

(* The chain moves: what was still to come is still to come, and no more.   *)
LEMMA LedgerKeepsComing ==
  ASSUME FullInv, LedgerStep, NEW p \in 1 .. Len(log)
  PROVE  Coming(p)' <=> Coming(p)
<1>1. log'[p] = log[p]
  BY NextGrows DEF Next, StepGrows
<1>2. /\ pc' = pc /\ next' = next /\ page' = page /\ cursor' = cursor
      /\ startLedger' = startLedger /\ dbCursor' = dbCursor
  BY DEF LedgerStep, indexerVars, memVars
<1>3. FromLedger' = FromLedger
  BY <1>2 DEF FromLedger, FromOf
<1> QED BY <1>1, <1>2, <1>3 DEF Coming, IsPending, Wanted

(* The chain moves: the process keeps its place in the log.                 *)
LEMMA LedgerKeepsPosition ==
  ASSUME FullInv, FullInv', Intact', LedgerStep, NEW n \in 0 .. Len(log), Position(n)
  PROVE  Position(n)'
<1>1. StepGrows
  BY NextGrows DEF Next
<1>2. ASSUME NEW p \in 1 .. Len(log)
      PROVE  Coming(p)' <=> Coming(p)
  BY LedgerKeepsComing
<1>3. ASSUME NEW p \in 1 .. Len(log'), p > Len(log)
      PROVE  Coming(p)'
  BY <1>3, NewIsComing
<1>4. \A p \in 1 .. Len(log') : p \in 1 .. Len(log) \/ (p > Len(log) /\ p > n)
  BY <1>1 DEF StepGrows
<1> QED BY <1>2, <1>3, <1>4 DEF Position

(* The steps that go on where the process was.                              *)
LEMMA BootKeepsPosition ==
  ASSUME FullInv, Intact', Boot, NEW n \in 0 .. Len(log), Position(n)
  PROVE  Position(n)'
<1>1. /\ log' = log /\ dbCursor' = dbCursor /\ pc = "down" /\ pc' = "poll"
  BY DEF Boot, ledgerVars
<1>2. SUFFICES ASSUME NEW p \in 1 .. Len(log)
               PROVE  Wanted(p, cursor, FromLedger)' <=> IsPending(p)
  BY <1>1 DEF Position, Coming
<1>3. CASE dbCursor.ledger > 0 \/ dbCursor.cur # NoCursor
  <2>1. dbCursor.row /\ dbCursor.ledger \in Nat
    BY <1>3, Basics DEF FullInv, IndInv, DurableInv
  <2>2. startLedger' = dbCursor.ledger /\ cursor' = dbCursor.cur
    BY <1>3, <2>1 DEF Boot
  <2>3. FromLedger' = FromOf(dbCursor.cur, dbCursor.ledger)
    BY <2>2 DEF FromLedger, FromOf
  <2> QED BY <1>1, <2>1, <2>2, <2>3 DEF IsPending, Wanted
<1>4. CASE ~(dbCursor.ledger > 0 \/ dbCursor.cur # NoCursor)
  <2>1. dbCursor.ledger = 0 /\ dbCursor.cur = NoCursor
    BY <1>4 DEF Boot
  <2>2. ~dbCursor.row
    BY <2>1 DEF FullInv, IndInv, DurableInv
  <2>3. cursor' = NoCursor /\ origin' = startLedger'
    BY <1>4 DEF Boot
  <2>4. FromLedger' = origin'
    BY <2>3 DEF FromLedger, FromOf
  <2>5. log[p].ledger >= origin'
    BY <1>1 DEF Intact
  <2>6. p > NoCursor.pos
    BY NoCursorType
  <2> QED BY <1>1, <2>2, <2>3, <2>4, <2>5, <2>6 DEF IsPending, Wanted
<1> QED BY <1>3, <1>4

(* A page starts where the process was.                                     *)
LEMMA GetEventsKeepsPosition ==
  ASSUME FullInv, GetEvents, NEW n \in 0 .. Len(log), Position(n)
  PROVE  Position(n)'
<1>1. log' = log /\ pc \in {"poll", "retry"} /\ pc' = "apply"
  BY DEF GetEvents, ledgerVars
<1>2. \A p \in 1 .. Len(log) : p >= next' <=> Wanted(p, cursor, FromLedger)
  BY DEF GetEvents
<1> QED BY <1>1, <1>2 DEF Position, Coming

(* A clamp in an intact state: the process had everything still to come.    *)
LEMMA ClampKeepsPosition ==
  ASSUME FullInv, Intact, Clamp, NEW n \in 0 .. Len(log), Position(n)
  PROVE  Position(n)'
<1>1. /\ log' = log /\ pc = "poll" /\ pc' \in {"poll", "retry"} /\ ~InRange
      /\ startLedger' = Oldest /\ cursor' = NoCursor
  BY DEF Clamp, ledgerVars
<1>2. FromLedger' = Oldest
  BY <1>1 DEF FromLedger, FromOf
<1>3. SUFFICES ASSUME NEW p \in 1 .. Len(log)
               PROVE  Wanted(p, cursor, FromLedger)' /\ Wanted(p, cursor, FromLedger)
  BY <1>1 DEF Position, Coming
<1>4. /\ log[p].ledger \in Nat /\ Oldest \in Nat /\ origin \in Nat /\ latest \in Nat
      /\ startLedger \in Nat /\ cursor.ledger \in Nat /\ cursor.pos \in Nat
      /\ Oldest <= log[p].ledger /\ origin <= log[p].ledger
  BY Basics DEF FullInv, Intact
<1>5. Wanted(p, cursor, FromLedger)'
  BY <1>1, <1>2, <1>4, NoCursorType DEF Wanted
<1>6. CASE cursor = NoCursor
  <2>1. FromLedger = startLedger
    BY <1>6 DEF FromLedger, FromOf
  <2>2. startLedger <= latest \/ startLedger = origin
    BY <1>1 DEF FullInv, IndInv, MemInv
  <2>3. startLedger < Oldest \/ startLedger > latest
    BY <1>1, <1>4, <2>1 DEF InRange
  <2>4. log[p].ledger >= startLedger
    BY <1>4, <2>2, <2>3
  <2> QED BY <1>5, <1>6, <2>1, <2>4, NoCursorType DEF Wanted
<1>7. CASE cursor # NoCursor
  <2>1. FromLedger = cursor.ledger /\ CutsLog(cursor)
    BY <1>1, <1>7 DEF FromLedger, FromOf, FullInv, IndInv, MemInv
  <2>2. cursor.ledger < Oldest
    BY <1>1, <1>4, <2>1 DEF InRange, CutsLog
  <2>3. p > cursor.pos
    BY <1>4, <2>1, <2>2 DEF CutsLog
  <2> QED BY <1>4, <1>5, <2>1, <2>2, <2>3 DEF Wanted
<1> QED BY <1>6, <1>7

(* The next page starts where this one ended.                               *)
LEMMA EndPageKeepsPosition ==
  ASSUME FullInv, EndPage, NEW n \in 0 .. Len(log), Position(n)
  PROVE  Position(n)'
<1>1. /\ log' = log /\ pc = "apply" /\ pc' = "poll" /\ next > page.hi /\ cursor' = page.resp
  BY DEF EndPage, ledgerVars
<1>2. CutsLog(page.resp) /\ page.resp.pos = page.hi /\ next <= page.hi + 1
  BY <1>1 DEF FullInv, IndInv, PageInv
<1>3. /\ next \in Nat /\ page.hi \in Nat /\ page.resp.ledger \in Nat
      /\ \A p \in 1 .. Len(log) : log[p].ledger \in Nat
  BY Basics DEF FullInv
<1>4. page.resp # NoCursor
  BY <1>2, <1>3, NoCursorType DEF CutsLog
<1>5. FromLedger' = page.resp.ledger
  BY <1>1, <1>4 DEF FromLedger, FromOf
<1>6. SUFFICES ASSUME NEW p \in 1 .. Len(log)
               PROVE  Wanted(p, cursor, FromLedger)' <=> p >= next
  BY <1>1 DEF Position, Coming
<1>7. p >= next <=> p > page.hi
  BY <1>1, <1>2, <1>3
<1>8. p > page.hi => log[p].ledger >= page.resp.ledger
  BY <1>2 DEF CutsLog
<1> QED BY <1>1, <1>2, <1>5, <1>7, <1>8 DEF Wanted

(* Every step that applies no event and is no crash keeps the place in the  *)
(* log and the tables.                                                      *)
Goes == Boot \/ GetEvents \/ Clamp \/ RetryError \/ Fanout \/ EndPage

(* All of these steps keep the place in the log.                            *)
LEMMA GoesKeepsPosition ==
  ASSUME FullInv, Intact, Intact', Goes \/ UNCHANGED vars,
         NEW n \in 0 .. Len(log), Position(n)
  PROVE  Position(n)'
<1>1. CASE RetryError
  <2>1. /\ log' = log /\ cursor' = cursor /\ startLedger' = startLedger
        /\ pc = "retry" /\ pc' = "poll"
    BY <1>1 DEF RetryError, ledgerVars
  <2>2. FromLedger' = FromLedger
    BY <2>1 DEF FromLedger, FromOf
  <2> QED BY <2>1, <2>2 DEF Position, Coming, Wanted
<1>2. CASE Fanout
  <2>1. log' = log /\ pc = "fanout" /\ pc' = "apply" /\ next' = next + 1 /\ next \in Nat
    BY <1>2, Basics DEF Fanout, ledgerVars, FullInv
  <2>2. \A p \in 1 .. Len(log) : p > next <=> p >= next'
    BY <2>1
  <2> QED BY <2>1, <2>2 DEF Position, Coming
<1>3. CASE UNCHANGED vars
  <2>1. /\ log' = log /\ pc' = pc /\ cursor' = cursor /\ startLedger' = startLedger
        /\ next' = next /\ dbCursor' = dbCursor
    BY <1>3 DEF vars, ledgerVars, indexerVars, memVars
  <2>2. FromLedger' = FromLedger
    BY <2>1 DEF FromLedger, FromOf
  <2> QED BY <2>1, <2>2 DEF Position, Coming, Wanted, IsPending
<1> QED
  BY <1>1, <1>2, <1>3, BootKeepsPosition, GetEventsKeepsPosition, ClampKeepsPosition,
     EndPageKeepsPosition DEF Goes

(* An event passes through Apply, or cannot be decoded: the place moves on. *)
LEMMA EventMovesPosition ==
  ASSUME FullInv, Intact', EventError \/ ApplyEvent, NEW n \in 0 .. Len(log), Position(n)
  PROVE  /\ n + 1 \in 1 .. Len(log) /\ Position(n + 1)' /\ UNCHANGED ledgerVars
         /\ crashes' = crashes
         /\ \/ log[n + 1].topic = "undecodable" /\ db' = db
            \/ \E i \in Nat : db' = Apply(db, log[n + 1], i)
<1>1. InPage /\ UNCHANGED ledgerVars /\ log' = log /\ crashes' = crashes
  BY DEF EventError, ApplyEvent, ledgerVars, boundVars
<1>2. next \in 1 .. Len(log) /\ next - page.lo \in Nat
  BY <1>1, InPageFacts DEF InPage, FullInv
<1>3. \A p \in 1 .. Len(log) : p > n <=> p >= next
  BY <1>1 DEF Position, Coming, InPage
<1>4. n + 1 = next
  <2>1. next > n
    BY <1>2, <1>3
  <2>2. CASE next = 1
    BY <2>1, <2>2
  <2>3. CASE next # 1
    <3>1. next - 1 \in 1 .. Len(log)
      BY <1>2, <2>3
    <3>2. ~(next - 1 >= next)
      BY <1>2
    <3>3. ~(next - 1 > n)
      BY <1>3, <3>1, <3>2
    <3> QED BY <1>2, <2>1, <3>3
  <2> QED BY <2>2, <2>3
<1>5. Position(n + 1)'
  <2>1. CASE EventError
    <3>1. pc' = "apply" /\ next' = next + 1
      BY <2>1, <1>1 DEF EventError, InPage
    <3>2. \A p \in 1 .. Len(log) : p > n + 1 <=> p >= next'
      BY <1>2, <1>4, <3>1
    <3> QED BY <1>1, <3>1, <3>2 DEF Position, Coming
  <2>2. CASE ApplyEvent
    <3>1. pc' = "fanout" /\ next' = next
      BY <2>2 DEF ApplyEvent
    <3> QED BY <1>1, <1>4, <3>1 DEF Position, Coming
  <2> QED BY <2>1, <2>2
<1>6. \/ log[next].topic = "undecodable" /\ db' = db
      \/ \E i \in Nat : db' = Apply(db, log[next], i)
  <2>1. CASE EventError
    <3>1. next \in failed' /\ log' = log
      BY <1>1, <2>1 DEF EventError
    <3>2. log[next].topic = "undecodable"
      BY <3>1 DEF Intact
    <3> QED BY <2>1, <3>2 DEF EventError
  <2>2. CASE ApplyEvent
    BY <1>2, <2>2 DEF ApplyEvent
  <2> QED BY <2>1, <2>2
<1> QED BY <1>1, <1>2, <1>4, <1>5, <1>6

(* A crash: the next start resumes at the same event or an earlier one.     *)
LEMMA CrashMovesPosition ==
  ASSUME FullInv, ClampInv, Intact, Crash, NEW n \in 0 .. Len(log), Position(n)
  PROVE  \E i \in 0 .. n : Position(i)'
<1>1. log' = log /\ dbCursor' = dbCursor /\ pc' = "down"
  BY DEF Crash, ledgerVars
<1>2. \A i : Position(i)' <=> \A p \in 1 .. Len(log) : p > i <=> IsPending(p)
  BY <1>1 DEF Position, Coming, IsPending, Wanted
<1>3. \A p \in 1 .. Len(log) : p > n => IsPending(p)
  BY ComingIsPending DEF Position
<1>4. /\ Len(log) \in Nat /\ dbCursor.ledger \in Nat /\ Oldest \in Nat
      /\ dbCursor.cur.pos \in Nat /\ dbCursor.cur.ledger \in Nat
      /\ \A p \in 1 .. Len(log) : log[p].ledger \in Nat /\ log[p].ledger >= Oldest
  BY Basics DEF FullInv, Intact
<1>5. CASE ~dbCursor.row
  <2>1. Position(0)'
    BY <1>2, <1>5 DEF IsPending
  <2> QED BY <2>1
<1>6. CASE dbCursor.row /\ dbCursor.cur = NoCursor
  <2>1. dbCursor.ledger <= Oldest
    BY <1>6 DEF ClampInv
  <2>2. \A p \in 1 .. Len(log) : IsPending(p)
    BY <1>4, <1>6, <2>1, NoCursorType DEF IsPending, Wanted, FromOf
  <2>3. Position(0)'
    BY <1>2, <2>2
  <2> QED BY <2>3
<1>7. CASE dbCursor.row /\ dbCursor.cur # NoCursor
  <2> DEFINE i == dbCursor.cur.pos
  <2>1. CutsLog(dbCursor.cur)
    BY <1>7 DEF FullInv, IndInv, DurableInv
  <2>2. \A p \in 1 .. Len(log) : p > i <=> IsPending(p)
    BY <1>7, <2>1 DEF IsPending, Wanted, FromOf, CutsLog
  <2>3. i <= n
    <3>1. SUFFICES ASSUME i > n PROVE FALSE
      BY <1>4
    <3>2. i \in 1 .. Len(log)
      BY <1>4, <2>1, <3>1 DEF CutsLog
    <3> QED BY <1>3, <1>4, <2>2, <3>1, <3>2
  <2>4. i \in 0 .. n
    BY <1>4, <2>3
  <2> QED BY <1>2, <2>2, <2>4
<1> QED BY <1>5, <1>6, <1>7

(* Only a clamp writes a position without a cursor.                         *)
LEMMA ClampInvKept ==
  ASSUME FullInv, ClampInv, [Next]_vars
  PROVE  ClampInv'
<1>1. Oldest \in Nat /\ Oldest' \in Nat /\ Oldest <= Oldest' /\ dbCursor.ledger \in Nat
  BY NextGrows, Basics DEF StepGrows, FullInv
<1>2. CASE dbCursor' = dbCursor
  BY <1>1, <1>2 DEF ClampInv
<1>3. CASE dbCursor' # dbCursor
  <2>1. Clamp \/ EndPage
    BY <1>3 DEF Next, LedgerStep, IndexerStep, Boot, GetEvents, RetryError, EventError,
       ApplyEvent, Fanout, Crash, vars, indexerVars
  <2>2. CASE Clamp
    BY <1>1, <1>3, <2>2 DEF Clamp, ClampInv
  <2>3. CASE EndPage
    <3>1. dbCursor'.cur = page.resp
      BY <1>3, <2>3 DEF EndPage
    <3>2. page.resp.ledger >= 1 /\ page.resp.ledger \in Nat
      BY <2>3, Basics DEF EndPage, FullInv, IndInv, PageInv, CutsLog
    <3>3. page.resp # NoCursor
      BY <3>2, NoCursorType
    <3> QED BY <3>1, <3>3 DEF ClampInv
  <2> QED BY <2>1, <2>2, <2>3
<1> QED BY <1>2, <1>3

-----------------------------------------------------------------------------
(* An event that cannot be decoded would have changed nothing.              *)
LEMMA UndecodableStep ==
  ASSUME NEW d, NEW e, e.topic = "undecodable"
  PROVE  DbStep(d, d, e)
<1>1. \A k \in Key : TKind(e, k) = "other" /\ LKind(e, k) = "other"
  BY DEF TKind, LKind
<1>2. \A nw, r : Step("other", nw, r) = r
  BY DEF Step
<1>3. TableStep(d, d, e)
  BY <1>1, <1>2 DEF TableStep, Rate
<1>4. HistoryStep(d, d, e) /\ ResolveStep(d, d, e)
  BY DEF HistoryStep, Closes, TradeCloses, ResolveStep, LimitCloses
<1>5. VaultStep(d, d, e) /\ OiStep(d, d, e)
  BY DEF VaultStep, OiStep
<1> QED BY <1>3, <1>4, <1>5 DEF DbStep

(* The event in hand takes its effect on the tables.                        *)
LEMMA EventSteps ==
  ASSUME FullInv, Intact, Intact', EventError \/ ApplyEvent,
         NEW n \in 0 .. Len(log), Position(n)
  PROVE  /\ n + 1 \in 1 .. Len(log) /\ Position(n + 1)' /\ UNCHANGED ledgerVars
         /\ crashes' = crashes /\ DbStep(db, db', log[n + 1])
<1>1. /\ n + 1 \in 1 .. Len(log) /\ Position(n + 1)' /\ UNCHANGED ledgerVars
      /\ crashes' = crashes
      /\ \/ log[n + 1].topic = "undecodable" /\ db' = db
         \/ \E i \in Nat : db' = Apply(db, log[n + 1], i)
  BY EventMovesPosition
<1>2. db \in DBType /\ log[n + 1] \in Event /\ Projected(log[n + 1])
  BY <1>1, Basics DEF FullInv, TypeOK, Intact, Projected
<1>3. DbStep(db, db', log[n + 1])
  BY <1>1, <1>2, UndecodableStep, ApplyStep
<1> QED BY <1>1, <1>3

(* What was ambiguous stays ambiguous.                                      *)
LEMMA UnambiguousBefore ==
  ASSUME StepGrows, chain.settled \subseteq chain'.settled, Unambiguous'
  PROVE  Unambiguous
<1> SUFFICES ASSUME NEW p \in 1 .. Len(log), NEW h \in chain.settled,
                    log[p].topic = "tp_sl_executed", log[p].tx = h.closeTx
             PROVE  /\ log[p].full
                    /\ ~(HitsTp(h.terms, log[p].px) /\ HitsSl(h.terms, log[p].px))
                    /\ ScanHitsSl(h.terms, log[p].px) <=> HitsSl(h.terms, log[p].px)
  BY DEF Unambiguous
<1>1. p \in 1 .. Len(log') /\ log'[p] = log[p] /\ h \in chain'.settled
  BY DEF StepGrows
<1> QED BY <1>1 DEF Unambiguous

(* trade_history holds settled rows only, and one for every close up to m.  *)
HistoryOK(m, d) ==
  Unambiguous =>
    /\ d.history \subseteq chain.settled
    /\ \A p \in 1 .. m : log[p].topic \in TradeCloses =>
         \E h \in d.history : h.key = log[p].key /\ h.closeTx = log[p].tx

(* The inductive invariant: the log up to m was applied, and delivering     *)
(* n+1..m again, as the process is about to, leaves what the log up to m    *)
(* leaves.                                                                  *)
Mirrored(n, m) == Position(n) /\ Mirror(log, n, m, db) /\ HistoryOK(m, db)

TablesInv ==
  /\ ChainInv(log, chain) /\ ClampInv
  /\ Intact => \E m \in 0 .. Len(log) : \E n \in 0 .. m : Mirrored(n, m)

(* An event that closes a trade, on the row the log before it leaves: it    *)
(* finds the row the contracts settled, and the reason they had.            *)
LEMMA CloseFindsSettled ==
  ASSUME FullInv, ChainOK(log, chain), Unambiguous, NEW m \in Nat, m + 1 <= Len(log),
         NEW row, row = NoRow \/ row \in TradeRow, Was(log, log[m + 1].key, m, row),
         log[m + 1].topic \in TradeCloses
  PROVE  /\ row # NoRow
         /\ SettledAs(row, log[m + 1], ReasonOf(row, log[m + 1])) \in chain.settled
<1> DEFINE e == log[m + 1]
<1>1. m + 1 \in 1 .. Len(log) /\ (m + 1) - 1 = m /\ Len(log) \in Nat
  BY Basics DEF FullInv
<1>2. e \in Event /\ e.key \in Key /\ e.tx \in Nat
  BY <1>1, Basics, EventFields DEF FullInv
<1>3. PICK r \in TradeRow, reason \in Reasons :
        /\ Was(log, e.key, m, r) /\ Fits(reason, e, r.terms)
        /\ SettledAs(r, e, reason) \in chain.settled
  BY <1>1 DEF ChainOK, SettledOK
<1>5. row = r /\ row # NoRow
  BY <1>3, WasUnique, RowIsSome
<1>6. ReasonOf(row, e) = reason
  <2>1. CASE e.topic # "tp_sl_executed"
    BY <1>3, <2>1 DEF Fits, ReasonOf, TradeCloses
  <2>2. CASE e.topic = "tp_sl_executed"
    <3>1. SettledAs(r, e, reason).closeTx = e.tx /\ SettledAs(r, e, reason).terms = r.terms
      BY DEF SettledAs
    <3>2. /\ e.full /\ ~(HitsTp(r.terms, e.px) /\ HitsSl(r.terms, e.px))
          /\ ScanHitsSl(r.terms, e.px) <=> HitsSl(r.terms, e.px)
      BY <1>1, <1>3, <2>2, <3>1 DEF Unambiguous
    <3> HIDE DEF e
    <3> QED BY <1>3, <1>5, <2>2, <3>2 DEF Fits, ReasonOf, closeReason
  <2> QED BY <2>1, <2>2
<1> QED BY <1>3, <1>5, <1>6

(* So it is on a first delivery.                                            *)
LEMMA CloseIsSettled ==
  ASSUME FullInv, ChainOK(log, chain), Unambiguous, NEW d \in DBType,
         NEW m \in Nat, m + 1 <= Len(log), Mirror(log, m, m, d),
         log[m + 1].topic \in TradeCloses
  PROVE  LET row == d.trades[log[m + 1].key]
         IN  /\ row # NoRow
             /\ SettledAs(row, log[m + 1], ReasonOf(row, log[m + 1])) \in chain.settled
<1> DEFINE e == log[m + 1]
           row == d.trades[e.key]
<1>1. m + 1 \in 1 .. Len(log) /\ Len(log) \in Nat
  BY Basics DEF FullInv
<1>2. e.key \in Key
  BY <1>1, Basics, EventFields DEF FullInv
<1>3. Was(log, e.key, m, row) /\ (row = NoRow \/ row \in TradeRow)
  BY <1>2 DEF Mirror, Was, DBType, TradeTable
<1> HIDE DEF row
<1>4. /\ row # NoRow
      /\ SettledAs(row, log[m + 1], ReasonOf(row, log[m + 1])) \in chain.settled
  BY <1>3, CloseFindsSettled
<1> QED BY <1>4 DEF row

(* An event delivered again.                                                *)
LEMMA RedeliveryMirrors ==
  ASSUME FullInv, ChainOK(log, chain), NEW m \in 0 .. Len(log), NEW n \in 0 .. m, n < m,
         Mirror(log, n, m, db), HistoryOK(m, db), DbStep(db, db', log[n + 1])
  PROVE  Mirror(log, n + 1, m, db') /\ HistoryOK(m, db')
<1>1. log \in Seq(Event) /\ n \in Nat /\ n + 1 <= m /\ n + 1 \in 1 .. m
  BY DEF FullInv, TypeOK, LedgerTypeOK
<1>2. Mirror(log, n + 1, m, db')
  BY <1>1, MirrorRedeliver DEF ChainOK, DbStep
<1>3. HistoryOK(m, db')
  <2>1. SUFFICES ASSUME Unambiguous PROVE db'.history = db.history
    BY DEF HistoryOK
  <2>2. log[n + 1].topic \in TradeCloses =>
          \E h \in db.history : h.key = log[n + 1].key /\ h.closeTx = log[n + 1].tx
    BY <1>1, <2>1 DEF HistoryOK
  <2>3. ~Closes(db, log[n + 1])
    BY <2>2 DEF Closes
  <2> QED BY <2>3 DEF DbStep, HistoryStep
<1> QED BY <1>2, <1>3

(* An event delivered for the first time.                                   *)
LEMMA DeliveryMirrors ==
  ASSUME FullInv, ChainOK(log, chain), NEW m \in Nat, m + 1 <= Len(log),
         Mirror(log, m, m, db), HistoryOK(m, db), DbStep(db, db', log[m + 1])
  PROVE  Mirror(log, m + 1, m + 1, db') /\ HistoryOK(m + 1, db')
<1> DEFINE e == log[m + 1]
<1>1. log \in Seq(Event) /\ m + 1 \in 1 .. Len(log) /\ Len(log) \in Nat /\ db \in DBType
  BY DEF FullInv, TypeOK, LedgerTypeOK
<1>2. OpensEmpty(db, e)
  <2> SUFFICES ASSUME NEW k \in Key
               PROVE  /\ TKind(e, k) = "open" => db.trades[k] = NoRow
                      /\ LKind(e, k) = "open" => db.limits[k] = NoRow
    BY DEF OpensEmpty
  <2>1. TKinds(log, k)[m + 1] = TKind(e, k) /\ LKinds(log, k)[m + 1] = LKind(e, k)
    BY <1>1 DEF TKinds, LKinds
  <2>2. Alternates(TKinds(log, k), m + 1) /\ Alternates(LKinds(log, k), m + 1)
    BY <1>1 DEF ChainOK, LogAlternates, Alternates
  <2>3. /\ Good(TKinds(log, k), TradeRows(log), m, m, TradeView(db.trades[k]))
        /\ Good(LKinds(log, k), LimitRows(log), m, m, LimitView(db.limits[k]))
    BY DEF Mirror
  <2>4. /\ TKind(e, k) = "open" => ~TradeView(db.trades[k]).on
        /\ LKind(e, k) = "open" => ~LimitView(db.limits[k]).on
    BY <2>1, <2>2, <2>3, EmptyBeforeOpen
  <2> QED BY <2>4, ViewOn
<1>3. Mirror(log, m + 1, m + 1, db')
  BY <1>1, <1>2, MirrorAdvance DEF DbStep
<1>4. HistoryOK(m + 1, db')
  <2> SUFFICES ASSUME Unambiguous
               PROVE  /\ db'.history \subseteq chain.settled
                      /\ \A p \in 1 .. m + 1 : log[p].topic \in TradeCloses =>
                           \E h \in db'.history : h.key = log[p].key /\ h.closeTx = log[p].tx
    BY DEF HistoryOK
  <2>1. /\ db.history \subseteq chain.settled
        /\ \A p \in 1 .. m : log[p].topic \in TradeCloses =>
             \E h \in db.history : h.key = log[p].key /\ h.closeTx = log[p].tx
    BY DEF HistoryOK
  <2>2. \A p \in 1 .. m + 1 : p \in 1 .. m \/ p = m + 1
    OBVIOUS
  <2> DEFINE new == SettledAs(db.trades[e.key], e, ReasonOf(db.trades[e.key], e))
  <2>3. db'.history = IF Closes(db, e) THEN db.history \cup {new} ELSE db.history
    BY DEF DbStep, HistoryStep
  <2>4. new.key = e.key /\ new.closeTx = e.tx
    BY DEF SettledAs
  <2>5. e.topic \in TradeCloses => db.trades[e.key] # NoRow /\ new \in chain.settled
    BY <1>1, CloseIsSettled
  <2> HIDE DEF new
  <2>6. db'.history \subseteq chain.settled /\ db.history \subseteq db'.history
    BY <2>1, <2>3, <2>5 DEF Closes
  <2>7. e.topic \in TradeCloses => \E h \in db'.history : h.key = e.key /\ h.closeTx = e.tx
    BY <2>3, <2>4, <2>5 DEF Closes
  <2> QED BY <2>1, <2>2, <2>6, <2>7
<1> QED BY <1>3, <1>4

(* The contracts' state is the one their log leaves; only they settle.      *)
LEMMA ChainKept ==
  ASSUME FullInv, ChainInv(log, chain), [Next]_vars
  PROVE  ChainInv(log, chain)' /\ chain.settled \subseteq chain'.settled
<1>1. CASE LedgerStep
  <2>1. CASE Contracts
    BY <2>1, ContractsKeepChain DEF FullInv, TypeOK
  <2>2. CASE CloseLedger
    BY <2>2 DEF CloseLedger
  <2> QED BY <1>1, <2>1, <2>2 DEF LedgerStep
<1>2. CASE IndexerStep \/ UNCHANGED vars
  <2>1. log' = log /\ chain' = chain
    BY <1>2 DEF IndexerStep, Boot, GetEvents, Clamp, RetryError, EventError, ApplyEvent,
       Fanout, EndPage, Crash, vars, ledgerVars
  <2> QED BY <2>1
<1> QED BY <1>1, <1>2 DEF Next

(* Every step keeps the invariant.                                          *)
LEMMA TablesInvKept ==
  ASSUME FullInv, TablesInv, [Next]_vars
  PROVE  TablesInv'
<1>1. FullInv'
  BY NextKeepsInv, OriginKept DEF FullInv
<1>2. StepGrows /\ ClampInv' /\ ChainInv(log, chain)' /\ chain.settled \subseteq chain'.settled
  BY NextGrows, ClampInvKept, ChainKept DEF TablesInv
<1>3. SUFFICES ASSUME Intact' PROVE \E m \in 0 .. Len(log') : \E n \in 0 .. m : Mirrored(n, m)'
  BY <1>2 DEF TablesInv
<1>4. Intact /\ ChainOK(log, chain)
  BY <1>3, IntactBefore, IntactPlaced DEF TablesInv
<1>5. PICK m \in 0 .. Len(log) : \E n \in 0 .. m : Mirrored(n, m)
  BY <1>4 DEF TablesInv
<1>6. PICK n \in 0 .. m : Mirrored(n, m)
  BY <1>5
<1>7. /\ log \in Seq(Event) /\ Len(log) \in Nat /\ m \in Nat /\ n \in Nat
      /\ n \in 0 .. Len(log) /\ m \in 0 .. Len(log')
      /\ Position(n) /\ Mirror(log, n, m, db) /\ HistoryOK(m, db)
  BY <1>2, <1>6 DEF FullInv, TypeOK, LedgerTypeOK, Mirrored, StepGrows
<1>8. CASE LedgerStep
  <2>1. Position(n)'
    BY <1>1, <1>3, <1>7, <1>8, LedgerKeepsPosition
  <2>2. db' = db
    BY <1>8 DEF LedgerStep, indexerVars
  <2>3. Mirror(log', n, m, db)
    BY <1>2, <1>7, MirrorPrefix DEF StepGrows
  <2>4. Unambiguous' => Unambiguous
    BY <1>2, UnambiguousBefore
  <2>5. \A p \in 1 .. m : log'[p] = log[p]
    BY <1>2, <1>7 DEF StepGrows
  <2>6. HistoryOK(m, db)'
    BY <1>2, <1>7, <2>2, <2>4, <2>5 DEF HistoryOK
  <2> QED BY <1>7, <2>1, <2>2, <2>3, <2>6 DEF Mirrored
<1>9. CASE Goes \/ UNCHANGED vars
  <2>1. UNCHANGED ledgerVars /\ db' = db
    BY <1>9 DEF Goes, Boot, GetEvents, Clamp, RetryError, Fanout, EndPage, vars, indexerVars
  <2>2. Position(n)'
    BY <1>3, <1>4, <1>7, <1>9, GoesKeepsPosition
  <2>3. HistoryOK(m, db)'
    BY <1>7, <2>1 DEF ledgerVars, HistoryOK, Unambiguous
  <2> QED BY <1>7, <2>1, <2>2, <2>3 DEF Mirrored, ledgerVars
<1>10. CASE EventError \/ ApplyEvent
  <2>1. /\ n + 1 \in 1 .. Len(log) /\ Position(n + 1)' /\ UNCHANGED ledgerVars
        /\ DbStep(db, db', log[n + 1])
    BY <1>3, <1>4, <1>7, <1>10, EventSteps
  <2>2. CASE n < m
    <3>1. Mirror(log, n + 1, m, db') /\ HistoryOK(m, db')
      BY <1>4, <1>7, <2>1, <2>2, RedeliveryMirrors
    <3>2. Mirrored(n + 1, m)'
      BY <2>1, <3>1 DEF ledgerVars, HistoryOK, Unambiguous, Mirrored
    <3> QED BY <1>7, <2>2, <3>2
  <2>3. CASE n = m
    <3>1. Mirror(log, m + 1, m + 1, db') /\ HistoryOK(m + 1, db')
      BY <1>4, <1>7, <2>1, <2>3, DeliveryMirrors
    <3>2. Mirrored(m + 1, m + 1)'
      BY <2>1, <2>3, <3>1 DEF ledgerVars, HistoryOK, Unambiguous, Mirrored
    <3>3. m + 1 \in 0 .. Len(log') /\ m + 1 \in 0 .. m + 1
      BY <1>7, <2>1, <2>3 DEF ledgerVars
    <3> QED BY <3>2, <3>3
  <2> QED BY <1>7, <2>2, <2>3
<1>11. CASE Crash
  <2>1. UNCHANGED ledgerVars /\ db' = db
    BY <1>11 DEF Crash
  <2>2. PICK i \in 0 .. n : Position(i)'
    BY <1>4, <1>7, <1>11, CrashMovesPosition DEF TablesInv
  <2>3. Mirror(log, i, m, db)
    BY <1>7, MirrorRestart
  <2>4. Mirrored(i, m)'
    BY <1>7, <2>1, <2>2, <2>3 DEF ledgerVars, HistoryOK, Unambiguous, Mirrored
  <2>5. i \in 0 .. m
    BY <1>7
  <2> QED BY <1>7, <2>4, <2>5
<1> QED BY <1>8, <1>9, <1>10, <1>11 DEF Next, IndexerStep, Goes

(* The tables start empty.                                                  *)
LEMMA InitTables ==
  ASSUME Init
  PROVE  TablesInv
<1>1. log = <<>> /\ log \in Seq(Event) /\ Len(log) = 0 /\ db = EmptyDB /\ ~dbCursor.row
  BY DEF Init, LedgerInit
<1>2. /\ db.trades = [k \in Key |-> NoRow] /\ db.limits = [k \in Key |-> NoRow]
      /\ db.rates = [k \in Key |-> [r \in Rate |-> 0]] /\ db.history = {}
  BY <1>1 DEF EmptyDB
<1>3. Mirror(log, 0, 0, db)
  BY <1>1, <1>2, EmptyMirror
<1>4. Position(0) /\ HistoryOK(0, db)
  BY <1>1, <1>2 DEF Position, HistoryOK
<1>5. ChainInv(log, chain) /\ ClampInv
  BY <1>1, InitChain DEF Init, ClampInv
<1>6. 0 \in 0 .. Len(log) /\ 0 \in 0 .. 0
  BY <1>1
<1> QED BY <1>3, <1>4, <1>5, <1>6 DEF TablesInv, Mirrored

(* The tables' invariant holds in every state.                              *)
LEMMA TablesInvariant == Spec => [](FullInv /\ TablesInv)
<1>1. Init => TablesInv
  BY InitTables
<1>2. FullInv /\ TablesInv /\ [Next]_vars => TablesInv'
  BY TablesInvKept
<1> QED BY <1>1, <1>2, FullInvariant, PTL DEF Spec

(* At rest nothing is to come: the place is the end of the log.             *)
LEMMA RestIsEnd ==
  ASSUME FullInv, AtRest, NEW n \in 0 .. Len(log), Position(n)
  PROVE  n = Len(log)
<1>1. Len(log) \in Nat /\ cursor.pos = Len(log) /\ pc = "poll"
  BY Basics DEF FullInv, AtRest
<1>2. \A p \in 1 .. Len(log) : ~Coming(p)
  BY <1>1 DEF Coming, Wanted
<1>3. \A p \in 1 .. Len(log) : ~(p > n)
  BY <1>2 DEF Position
<1>4. SUFFICES ASSUME n < Len(log) PROVE FALSE
  BY <1>1
<1>5. Len(log) \in 1 .. Len(log)
  BY <1>1, <1>4
<1> QED BY <1>1, <1>3, <1>4, <1>5

(* What TablesInv says of a mirror that has caught up, and of the history.  *)
LEMMA TablesAtRest ==
  ASSUME FullInv, TablesInv
  PROVE  LiveTablesMirror /\ HistoryFaithful
<1>1. LiveTablesMirror
  <2> SUFFICES ASSUME Intact, AtRest
               PROVE  /\ db.trades = chain.trades /\ db.limits = chain.limits
                      /\ db.rates = chain.rates
    BY DEF LiveTablesMirror
  <2>1. PICK m \in 0 .. Len(log) : \E n \in 0 .. m : Mirrored(n, m)
    BY DEF TablesInv
  <2>2. PICK n \in 0 .. m : Mirrored(n, m)
    BY <2>1
  <2>3. Len(log) \in Nat /\ log \in Seq(Event) /\ Len(log) \in 0 .. Len(log)
    BY DEF FullInv, TypeOK, LedgerTypeOK
  <2>4. n \in 0 .. Len(log) /\ Position(n)
    BY <2>2, <2>3 DEF Mirrored
  <2>5. n = Len(log) /\ m = Len(log)
    BY <2>3, <2>4, RestIsEnd
  <2>6. Mirror(log, Len(log), Len(log), db) /\ Mirror(log, Len(log), Len(log), chain)
    BY <2>2, <2>5, IntactPlaced DEF Mirrored, TablesInv, ChainOK
  <2>7. /\ db.trades \in TradeTable /\ db.limits \in LimitTable
        /\ db.rates \in [Key -> [Rate -> Nat]]
        /\ chain.trades \in TradeTable /\ chain.limits \in LimitTable
        /\ chain.rates \in [Key -> [Rate -> Nat]]
    BY DEF FullInv, TypeOK, LedgerTypeOK, DBType
  <2> QED BY <2>3, <2>6, <2>7, MirrorUnique
<1>2. HistoryFaithful
  <2> SUFFICES ASSUME Intact, Unambiguous
               PROVE  /\ db.history \subseteq chain.settled
                      /\ AtRest => db.history = chain.settled
    BY DEF HistoryFaithful
  <2>0. SettledOK(log, chain)
    BY IntactPlaced DEF TablesInv, ChainOK
  <2>1. PICK m \in 0 .. Len(log) : \E n \in 0 .. m : Mirrored(n, m)
    BY DEF TablesInv
  <2>2. PICK n \in 0 .. m : Mirrored(n, m)
    BY <2>1
  <2>3. /\ db.history \subseteq chain.settled
        /\ \A p \in 1 .. m : log[p].topic \in TradeCloses =>
             \E h \in db.history : h.key = log[p].key /\ h.closeTx = log[p].tx
    BY <2>2 DEF Mirrored, HistoryOK
  <2>4. ASSUME AtRest, NEW g \in chain.settled PROVE g \in db.history
    <3>1. Len(log) \in Nat /\ n \in 0 .. Len(log) /\ Position(n)
      BY <2>2 DEF FullInv, TypeOK, LedgerTypeOK, Mirrored
    <3>2. m = Len(log)
      BY <2>4, <3>1, RestIsEnd
    <3>3. PICK p \in 1 .. Len(log) :
            log[p].topic \in TradeCloses /\ log[p].key = g.key /\ log[p].tx = g.closeTx
      BY <2>0 DEF SettledOK
    <3>4. PICK h \in db.history : h.closeTx = g.closeTx
      BY <2>3, <3>2, <3>3
    <3>5. h = g
      BY <2>0, <2>3, <3>4 DEF SettledOK
    <3> QED BY <3>5
  <2> QED BY <2>3, <2>4
<1> QED BY <1>1, <1>2

(* The live tables the API serves (trades_open, limit_orders and the fee    *)
(* rates) are the contracts' own, slot by slot, whenever the indexer has    *)
(* caught up: however often it crashed, and whatever pages it was delivered *)
(* twice (Repo.Apply store.go:55-98, pollOnce), if no event was lost.       *)
THEOREM TablesMirrorTheContracts == Spec => []LiveTablesMirror
<1>1. FullInv /\ TablesInv => LiveTablesMirror
  BY TablesAtRest
<1> QED BY <1>1, TablesInvariant, PTL

(* If no event was lost and every price tells the two reasons of a          *)
(* tp_sl_executed apart after rounding to float64 (store.go:257-276):       *)
(* trade_history never holds a row the contracts did not settle, with the   *)
(* terms, the opening and the reason they settled it with, while pages are  *)
(* delivered again (closeTrade, closeTradeUnknownReason), and it holds all  *)
(* of them once the indexer has caught up.                                  *)
THEOREM HistoryIsTheContracts == Spec => []HistoryFaithful
<1>1. FullInv /\ TablesInv => HistoryFaithful
  BY TablesAtRest
<1> QED BY <1>1, TablesInvariant, PTL

-----------------------------------------------------------------------------
(* The tables that add, and the history without a key, can only be right if *)
(* every event is applied once.  past[p] is the contracts' state after the  *)
(* first p events.                                                          *)
Past(lg, past, c) ==
  /\ past \in [0 .. Len(lg) -> ChainType] /\ past[Len(lg)] = c
  /\ \A p \in 1 .. Len(lg) : ChainStep(past[p - 1], past[p], lg[p])

(* The holders with no transfer, burn or foreign deposit in the log.        *)
Still(lg, k) == \A p \in 1 .. Len(lg) : ~Moves(lg[p], k)

SameCounts(d, c, lg) ==
  /\ d.limits = c.limits /\ d.limitHist = c.resolved /\ d.oi = c.oi
  /\ \A k \in Key : Still(lg, k) => d.vault[k].shares = c.shares[k]

CountInv ==
  Intact /\ crashes = 0 =>
    \E past : /\ Past(log, past, chain)
              /\ \E n \in 0 .. Len(log) : Position(n) /\ SameCounts(db, past[n], log)

Extends(past, past2, m) == \A p \in 0 .. m : past2[p] = past[p]

(* One more event, one more state.                                          *)
LEMMA PastGrows ==
  ASSUME NEW lg \in Seq(Event), NEW past, NEW c, NEW d \in ChainType, NEW e \in Event,
         NEW lg2, lg2 = lg \o <<e>>, Past(lg, past, c), ChainStep(c, d, e)
  PROVE  \E past2 : Past(lg2, past2, d) /\ Extends(past, past2, Len(lg))
<1> DEFINE m == Len(lg)
           past2 == [p \in 0 .. m + 1 |-> IF p = m + 1 THEN d ELSE past[p]]
<1>1. /\ lg2 \in Seq(Event) /\ Len(lg2) = m + 1 /\ m \in Nat /\ lg2[m + 1] = e
      /\ \A p \in 1 .. m : lg2[p] = lg[p]
      /\ \A p \in 1 .. Len(lg2) : p \in 1 .. m \/ p = m + 1
  BY AppendOne
<1>2. past \in [0 .. m -> ChainType] /\ past[m] = c
  BY DEF Past
<1>3. past2 \in [0 .. Len(lg2) -> ChainType] /\ past2[Len(lg2)] = d
      /\ \A p \in 0 .. m : past2[p] = past[p]
  <2>1. \A p \in 0 .. m + 1 : p = m + 1 \/ p \in 0 .. m
    BY <1>1
  <2>2. m + 1 \in 0 .. m + 1 /\ \A p \in 0 .. m : p \in 0 .. m + 1 /\ p # m + 1
    BY <1>1
  <2> HIDE DEF m
  <2> QED BY <1>1, <1>2, <2>1, <2>2
<1> HIDE DEF past2
<1>4. ASSUME NEW p \in 1 .. Len(lg2) PROVE ChainStep(past2[p - 1], past2[p], lg2[p])
  <2>1. CASE p = m + 1
    <3>1. p - 1 = m /\ m \in 0 .. m
      BY <1>1, <2>1
    <3>2. past2[p - 1] = c /\ past2[p] = d /\ lg2[p] = e
      BY <1>1, <1>2, <1>3, <2>1, <3>1
    <3> QED BY <3>2
  <2>2. CASE p \in 1 .. m
    <3>1. p - 1 \in 0 .. m /\ p \in 0 .. m /\ p \in 1 .. Len(lg)
      BY <1>1, <2>2
    <3>2. past2[p - 1] = past[p - 1] /\ past2[p] = past[p] /\ lg2[p] = lg[p]
      BY <1>1, <1>3, <2>2, <3>1
    <3> QED BY <3>1, <3>2 DEF Past
  <2> QED BY <1>1, <2>1, <2>2
<1>5. Past(lg2, past2, d)
  BY <1>3, <1>4 DEF Past
<1>6. Extends(past, past2, Len(lg))
  BY <1>3 DEF Extends
<1> QED BY <1>5, <1>6

(* Equal views are equal rows.                                              *)
LEMMA SameLimitView ==
  ASSUME NEW x \in LimitRow \cup {NoRow}, NEW y \in LimitRow \cup {NoRow},
         LimitView(x) = LimitView(y)
  PROVE  x = y
<1>1. CASE x = NoRow
  BY <1>1, ViewOn
<1>2. CASE x # NoRow
  <2>1. y # NoRow
    BY <1>2, ViewOn
  <2>2. /\ x.tx = y.tx /\ x.terms.long = y.terms.long
        /\ <<x.terms.tp, x.terms.sl, x.px>> = <<y.terms.tp, y.terms.sl, y.px>>
    BY <1>2, <2>1 DEF LimitView
  <2> QED BY <1>2, <2>1, <2>2, LimitsDiffer
<1> QED BY <1>1, <1>2

(* Applied once, an event counts as it does for the contracts.              *)
LEMMA CountsStep ==
  ASSUME NEW d \in DBType, NEW u \in DBType, NEW c \in ChainType, NEW b \in ChainType,
         NEW lg, NEW p \in 1 .. Len(lg), NEW e \in Event, e = lg[p],
         SameCounts(d, c, lg), DbStep(d, u, e), ChainStep(c, b, e)
  PROVE  SameCounts(u, b, lg)
<1>1. /\ d.limits = c.limits /\ d.limitHist = c.resolved /\ d.oi = c.oi
      /\ \A k \in Key : Still(lg, k) => d.vault[k].shares = c.shares[k] /\ ~Moves(e, k)
  BY DEF SameCounts, Still
<1>2. u.limits = b.limits
  <2>1. u.limits \in LimitTable /\ b.limits \in LimitTable
    BY DEF DBType, ChainType
  <2>2. ASSUME NEW k \in Key PROVE u.limits[k] = b.limits[k]
    <3>1. LimitView(u.limits[k]) = Step(LKind(e, k), LimitOf(e), LimitView(d.limits[k]))
      BY DEF DbStep, TableStep
    <3>2. LimitView(b.limits[k]) = Step(LKind(e, k), LimitOf(e), LimitView(c.limits[k]))
      BY DEF ChainStep, LimitPart, LimitStep
    <3>3. u.limits[k] \in LimitRow \cup {NoRow} /\ b.limits[k] \in LimitRow \cup {NoRow}
      BY <2>1 DEF LimitTable
    <3> QED BY <1>1, <3>1, <3>2, <3>3, SameLimitView
  <2> QED BY <2>1, <2>2 DEF LimitTable
<1>3. u.limitHist = b.resolved
  BY <1>1 DEF DbStep, ResolveStep, ChainStep, ResolvedPart
<1>4. \A k \in Key : Still(lg, k) => u.vault[k].shares = b.shares[k]
  BY <1>1 DEF DbStep, VaultStep, ChainStep, SharesPart
<1>5. u.oi = b.oi
  <2>1. u.oi \in [Key -> [BOOLEAN -> Nat]] /\ b.oi \in [Key -> [BOOLEAN -> Nat]]
    BY DEF DBType, ChainType
  <2>2. \A k \in Key, a \in BOOLEAN : u.oi[k][a] = b.oi[k][a]
    BY <1>1 DEF DbStep, ChainStep, OiStep
  <2>3. ASSUME NEW k \in Key PROVE u.oi[k] = b.oi[k]
    <3>1. u.oi[k] \in [BOOLEAN -> Nat] /\ b.oi[k] \in [BOOLEAN -> Nat]
      BY <2>1
    <3> QED BY <2>2, <3>1
  <2> QED BY <2>1, <2>3
<1> QED BY <1>2, <1>3, <1>4, <1>5 DEF SameCounts

(* What the contracts do extends the past and leaves it as it was.          *)
LEMMA ContractsExtendPast ==
  ASSUME LedgerTypeOK, Contracts, AllPlaced(log'), NEW past, Past(log, past, chain)
  PROVE  \E past2 : Past(log', past2, chain') /\ Extends(past, past2, Len(log))
<1>1. log \in Seq(Event) /\ chain \in ChainType /\ chain' \in ChainType /\ Len(log) \in Nat
  BY ChainTyped, ContractsStep DEF LedgerTypeOK
<1>2. CASE EmitsOne
  <2>1. PICK e \in Event : log' = log \o <<e>> /\ (Placed(e) => ChainStep(chain, chain', e))
    BY <1>2 DEF EmitsOne
  <2>2. Len(log) + 1 \in 1 .. Len(log') /\ log'[Len(log) + 1] = e
    BY <1>1, <2>1, AppendOne
  <2>3. ChainStep(chain, chain', e)
    BY <2>1, <2>2 DEF AllPlaced
  <2> QED BY <1>1, <2>1, <2>3, PastGrows, Zenon
<1>3. CASE EmitsTwo
  <2>1. PICK e \in Event, f \in Event, c \in ChainType :
          log' = log \o <<e, f>> /\ ChainStep(chain, c, e) /\ ChainStep(c, chain', f)
    BY <1>3 DEF EmitsTwo
  <2> DEFINE lg == log \o <<e>>
  <2>2. PICK past1 : Past(lg, past1, c) /\ Extends(past, past1, Len(log))
    BY <1>1, <2>1, PastGrows, Zenon
  <2>3. lg \in Seq(Event) /\ Len(lg) = Len(log) + 1
    BY <1>1, AppendOne
  <2>4. log' = lg \o <<f>>
    BY <1>1, <2>1, AppendTwo
  <2> HIDE DEF lg
  <2>5. PICK past2 : Past(log', past2, chain') /\ Extends(past1, past2, Len(lg))
    BY <1>1, <2>1, <2>2, <2>3, <2>4, PastGrows, Zenon
  <2>6. Extends(past, past2, Len(log))
    BY <1>1, <2>2, <2>3, <2>5 DEF Extends
  <2> QED BY <2>5, <2>6
<1> QED BY <1>2, <1>3, ContractsEmit

(* Every step keeps the counts those of the contracts' past.                *)
LEMMA CountInvKept ==
  ASSUME FullInv, CountInv, [Next]_vars
  PROVE  CountInv'
<1>1. FullInv' /\ StepGrows
  BY NextKeepsInv, OriginKept, NextGrows DEF FullInv
<1>2. SUFFICES ASSUME Intact', crashes' = 0
               PROVE  \E past : /\ Past(log', past, chain')
                                /\ \E n \in 0 .. Len(log') : Position(n)' /\ SameCounts(db', past[n], log')
  BY DEF CountInv
<1>3. Intact /\ crashes = 0 /\ ~Crash
  <2>1. crashes \in Nat
    BY IndexerAssumption DEF FullInv, TypeOK
  <2>2. ~Crash
    BY <1>2, <2>1 DEF Crash
  <2>3. crashes' = crashes
    BY <2>2 DEF Next, LedgerStep, IndexerStep, Boot, GetEvents, Clamp, RetryError, EventError,
       ApplyEvent, Fanout, EndPage, vars, indexerVars, boundVars
  <2> QED BY <1>2, <2>2, <2>3, IntactBefore
<1>4. PICK past : /\ Past(log, past, chain)
                  /\ \E n \in 0 .. Len(log) : Position(n) /\ SameCounts(db, past[n], log)
  BY <1>3 DEF CountInv
<1>5. PICK n \in 0 .. Len(log) : Position(n) /\ SameCounts(db, past[n], log)
  BY <1>4
<1>6. Len(log) \in Nat /\ n \in 0 .. Len(log') /\ db \in DBType /\ db' \in DBType
  BY <1>1 DEF StepGrows, FullInv, TypeOK
<1>7. CASE LedgerStep
  <2>1. Position(n)' /\ db' = db
    BY <1>1, <1>2, <1>5, <1>7, LedgerKeepsPosition DEF LedgerStep, indexerVars
  <2>2. CASE Contracts
    <3>1. PICK past2 : Past(log', past2, chain') /\ Extends(past, past2, Len(log))
      <4>1. AllPlaced(log')
        BY <1>2 DEF Intact, AllPlaced, Placed, TradeCloses
      <4> QED BY <1>4, <2>2, <4>1, ContractsExtendPast DEF FullInv, TypeOK
    <3>2. past2[n] = past[n]
      BY <3>1 DEF Extends
    <3>3. \A k : Still(log', k) => Still(log, k)
      BY <1>1 DEF Still, StepGrows
    <3>4. SameCounts(db', past2[n], log')
      BY <1>5, <2>1, <3>2, <3>3 DEF SameCounts
    <3> QED BY <1>6, <2>1, <3>1, <3>4
  <2>3. CASE CloseLedger
    <3>1. log' = log /\ chain' = chain
      BY <2>3 DEF CloseLedger
    <3> QED BY <1>4, <1>5, <2>1, <3>1
  <2> QED BY <1>7, <2>2, <2>3 DEF LedgerStep
<1>8. CASE Goes \/ UNCHANGED vars
  <2>1. log' = log /\ chain' = chain /\ db' = db
    BY <1>8 DEF Goes, Boot, GetEvents, Clamp, RetryError, Fanout, EndPage, vars, indexerVars,
       ledgerVars
  <2>2. Position(n)'
    BY <1>2, <1>3, <1>5, <1>8, GoesKeepsPosition
  <2> QED BY <1>4, <1>5, <2>1, <2>2
<1>9. CASE EventError \/ ApplyEvent
  <2>1. /\ n + 1 \in 1 .. Len(log) /\ Position(n + 1)' /\ log' = log /\ chain' = chain
        /\ DbStep(db, db', log[n + 1])
    BY <1>2, <1>3, <1>5, <1>9, EventSteps DEF ledgerVars
  <2>2. /\ past[n] \in ChainType /\ past[n + 1] \in ChainType
        /\ ChainStep(past[n], past[n + 1], log[n + 1])
    <3>1. (n + 1) - 1 = n /\ n + 1 \in 0 .. Len(log)
      BY <1>6, <2>1
    <3> QED BY <1>4, <2>1, <3>1 DEF Past
  <2>3. log[n + 1] \in Event
    BY <2>1, Basics DEF FullInv
  <2>4. SameCounts(db', past[n + 1], log)
    BY <1>5, <1>6, <2>1, <2>2, <2>3, CountsStep
  <2>5. n + 1 \in 0 .. Len(log')
    BY <2>1
  <2> QED BY <1>4, <2>1, <2>4, <2>5
<1> QED BY <1>3, <1>7, <1>8, <1>9 DEF Next, IndexerStep, Goes

(* The counts start at zero.                                                *)
LEMMA InitCount ==
  ASSUME Init
  PROVE  CountInv
<1>1. log = <<>> /\ Len(log) = 0 /\ db = EmptyDB /\ chain \in ChainType
  BY InitInv, ChainTyped DEF Init, LedgerInit, TypeOK
<1> DEFINE past == [p \in 0 .. 0 |-> chain]
<1>2. Past(log, past, chain)
  BY <1>1 DEF Past
<1>3. Position(0)
  BY <1>1 DEF Position
<1>4. SameCounts(db, past[0], log)
  <2>1. /\ chain.limits = [k \in Key |-> NoRow] /\ chain.resolved = <<>>
        /\ chain.oi = [k \in Key |-> [long \in BOOLEAN |-> 0]]
        /\ chain.shares = [k \in Key |-> 0]
    BY DEF Init, LedgerInit
  <2>2. SameCounts(db, chain, log)
    BY <1>1, <2>1 DEF SameCounts, EmptyDB
  <2> QED BY <2>2
<1>5. 0 \in 0 .. Len(log)
  BY <1>1
<1> QED BY <1>2, <1>3, <1>4, <1>5 DEF CountInv

(* Without a crash, and if no event was lost, no deposit, withdrawal, OI    *)
(* change or resolved order is counted twice or missed: open interest and   *)
(* order history agree with the contracts whenever the indexer has caught   *)
(* up, and so do the shares of every holder who never transferred, burnt or *)
(* was given any (decode.go:320, 355-356 leave those out), whatever         *)
(* WriteCursor calls failed (main.go:221-229).                              *)
THEOREM NothingCountedTwice == Spec => []CountedOnce
<1>1. Init => CountInv
  BY InitCount
<1>2. FullInv /\ CountInv /\ [Next]_vars => CountInv'
  BY CountInvKept
<1>3. FullInv /\ CountInv => CountedOnce
  <2> SUFFICES ASSUME FullInv, CountInv, Intact, crashes = 0, AtRest
               PROVE  /\ \A k \in Key : Unmoved(k) => db.vault[k].shares = chain.shares[k]
                      /\ db.oi = chain.oi /\ db.limitHist = chain.resolved
    BY DEF CountedOnce, AdditiveTablesMirror
  <2>1. PICK past : /\ Past(log, past, chain)
                    /\ \E n \in 0 .. Len(log) : Position(n) /\ SameCounts(db, past[n], log)
    BY DEF CountInv
  <2>2. PICK n \in 0 .. Len(log) : Position(n) /\ SameCounts(db, past[n], log)
    BY <2>1
  <2>3. past[n] = chain
    BY <2>1, <2>2, RestIsEnd DEF Past
  <2> QED BY <2>2, <2>3 DEF SameCounts, Still, Unmoved
<1> QED BY <1>1, <1>2, <1>3, FullInvariant, PTL DEF Spec

-----------------------------------------------------------------------------
(* The audit log.  Its key is the transaction and the index in the page, so *)
(* the two events of one transaction must never get the same index.  They   *)
(* stand next to each other in the log.                                     *)
TxPairs(lg) ==
  \A p, q \in 1 .. Len(lg) :
    p < q /\ lg[p].tx = lg[q].tx => q = p + 1 /\ lg[p].ledger = lg[q].ledger

(* A page ends because it is full, or at the end of a ledger.               *)
PageWhole ==
  pc \in {"apply", "fanout"} =>
    \/ page.hi - page.lo + 1 = PageLimit
    \/ \A p \in 1 .. Len(log) : p > page.hi => log[p].ledger > page.resp.ledger

InHand(q) == pc \in {"apply", "fanout"} /\ q >= page.lo

(* The row of event q.  A second event of its transaction that is still to  *)
(* come has another index: it follows in the same page, or it will be the   *)
(* first of a page, which q was not.                                        *)
RowAt(a, q) ==
  /\ a.ev = log[q] /\ a.tx = log[q].tx /\ ~Coming(q)
  /\ InHand(q) => a.idx = q - page.lo
  /\ ~InHand(q) => \A p \in 1 .. Len(log) :
       p = q + 1 /\ log[p].tx = log[q].tx /\ Coming(p) => a.idx >= 1

NothingApplied == pc = "down" \/ (pc \in {"poll", "retry"} /\ startLedger > latest)

RowsInv ==
  crashes = 0 => /\ NothingApplied => db.audit = {}
                 /\ \A a \in db.audit : \E q \in 1 .. Len(log) : RowAt(a, q)

OnRecord(p) == \E a \in db.audit : a.tx = log[p].tx /\ (crashes = 0 => a.ev = log[p])

RecordInv ==
  /\ \A p \in done : OnRecord(p)
  /\ pc = "fanout" => OnRecord(next)

AuditInv == TxPairs(log) /\ PageWhole /\ RowsInv /\ RecordInv

(* The projection of an event leaves the audit log alone.                   *)
LEMMA applyPMAudit ==
  ASSUME NEW d \in DBType, NEW e \in Event
  PROVE  applyPM(d, e).audit = d.audit
<1>1. /\ UpsertTrade(d, e).audit = d.audit /\ UpdateTrade(d, e).audit = d.audit
      /\ UpsertLimit(d, e).audit = d.audit /\ UpdateLimitRow(d, e).audit = d.audit
  BY DEF UpsertTrade, UpdateTrade, UpsertLimit, UpdateLimitRow, DBType
<1>2. \A reason : closeTrade(d, e, reason).audit = d.audit
  BY DEF closeTrade, DBType
<1>3. closeTradeUnknownReason(d, e).audit = d.audit
  BY <1>2 DEF closeTradeUnknownReason
<1>4. \A how : resolveLimit(d, e, how).audit = d.audit
  BY DEF resolveLimit, DBType
<1> QED BY <1>1, <1>2, <1>3, <1>4 DEF applyPM

(* Repo.Apply adds the audit row, unless its key is taken.                  *)
KeyTaken(d, e, i) == \E a \in d.audit : a.tx = e.tx /\ a.idx = i

(* What Repo.Apply leaves in the audit log.                                 *)
LEMMA ApplyAudits ==
  ASSUME NEW d \in DBType, NEW e \in Event, NEW i \in Nat, NEW u, u = Apply(d, e, i)
  PROVE  /\ KeyTaken(d, e, i) => u.audit = d.audit
         /\ ~KeyTaken(d, e, i) =>
              u.audit = d.audit \cup {[tx |-> e.tx, idx |-> i, ev |-> e]}
<1> DEFINE a == InsertAudit(d, e, i)
           b == applyPM(a, e)
           c == applyVault(b, e)
<1>1. u = applyRegistry(c, e)
  BY DEF Apply
<1>2. a \in DBType /\ b \in DBType /\ c \in DBType
  BY InsertAuditType, applyPMType, applyVaultType
<1>3. u.audit = c.audit
  BY <1>1, <1>2, applyRegistryStep
<1>4. c.audit = b.audit
  BY <1>2, applyVaultStep
<1>5. b.audit = a.audit
  BY <1>2, applyPMAudit
<1>6. /\ KeyTaken(d, e, i) => a.audit = d.audit
      /\ ~KeyTaken(d, e, i) => a.audit = d.audit \cup {[tx |-> e.tx, idx |-> i, ev |-> e]}
  BY DEF InsertAudit, KeyTaken, DBType
<1> QED BY <1>3, <1>4, <1>5, <1>6

(* What is new in the log is of the next transaction; if it is two events,  *)
(* they are those of an executed order.                                     *)
LEMMA NewTx ==
  ASSUME LedgerTypeOK, TxSorted(log), Contracts
  PROVE  \A p \in 1 .. Len(log') :
           p > Len(log) => /\ log'[p].tx = NextTx /\ p <= Len(log) + 2
                           /\ p = Len(log) + 2 => /\ log'[p - 1].topic = "executed"
                                                 /\ log'[p].topic = "opened"
<1>1. log \in Seq(Event) /\ Len(log) \in Nat
  BY DEF LedgerTypeOK
<1>2. CASE EmitsOne
  <2>1. PICK e \in Event : e.tx = NextTx /\ log' = log \o <<e>>
    BY <1>2 DEF EmitsOne
  <2>2. /\ log'[Len(log) + 1] = e
        /\ \A p \in 1 .. Len(log') : p \in 1 .. Len(log) \/ p = Len(log) + 1
    BY <1>1, <2>1, AppendOne
  <2> QED BY <1>1, <2>1, <2>2
<1>3. CASE EmitsTwo
  <2>1. PICK e \in Event, f \in Event :
          /\ e.tx = NextTx /\ f.tx = NextTx /\ log' = log \o <<e, f>>
          /\ e.topic = "executed" /\ f.topic = "opened"
    BY <1>3 DEF EmitsTwo
  <2> DEFINE lg == log \o <<e>>
  <2>2. /\ lg \in Seq(Event) /\ Len(lg) = Len(log) + 1 /\ lg[Len(log) + 1] = e
        /\ \A p \in 1 .. Len(lg) : p \in 1 .. Len(log) \/ p = Len(log) + 1
    BY <1>1, AppendOne
  <2>3. log' = lg \o <<f>>
    BY <1>1, <2>1, AppendTwo
  <2> HIDE DEF lg
  <2>4. /\ log'[Len(lg) + 1] = f /\ \A p \in 1 .. Len(lg) : log'[p] = lg[p]
        /\ \A p \in 1 .. Len(log') : p \in 1 .. Len(lg) \/ p = Len(lg) + 1
    BY <2>2, <2>3, AppendOne
  <2>5. Len(lg) \in 1 .. Len(lg) /\ log'[Len(lg)] = e /\ log'[Len(log) + 1] = e
    BY <1>1, <2>2, <2>4
  <2> QED BY <1>1, <2>1, <2>2, <2>4, <2>5
<1> QED BY <1>2, <1>3, ContractsEmit

(* A transaction's events stay together.                                    *)
LEMMA PairsKept ==
  ASSUME LedgerTypeOK, TxSorted(log), TxPairs(log), Contracts
  PROVE  TxPairs(log')
<1> SUFFICES ASSUME NEW p \in 1 .. Len(log'), NEW q \in 1 .. Len(log'), p < q,
                    log'[p].tx = log'[q].tx
             PROVE  q = p + 1 /\ log'[p].ledger = log'[q].ledger
  BY DEF TxPairs
<1>1. /\ Len(log) \in Nat /\ Len(log') \in Nat
      /\ \A r \in 1 .. Len(log) : log'[r] = log[r]
      /\ \A r \in 1 .. Len(log') : r > Len(log) => log'[r].ledger = latest + 1
  BY LedgerGrows DEF Grows, LedgerTypeOK
<1>2. \A r \in 1 .. Len(log') : r > Len(log) => log'[r].tx = NextTx /\ r <= Len(log) + 2
  BY NewTx
<1>3. CASE q <= Len(log)
  <2>1. p \in 1 .. Len(log) /\ q \in 1 .. Len(log)
    BY <1>1, <1>3
  <2> QED BY <1>1, <2>1 DEF TxPairs
<1>4. CASE q > Len(log) /\ p <= Len(log)
  <2>1. p \in 1 .. Len(log)
    BY <1>1, <1>4
  <2>2. log'[p].tx \in Nat /\ log'[p].tx < NextTx /\ NextTx \in Nat
    BY <1>1, <2>1, FreshTx
  <2> QED BY <1>2, <1>4, <2>2
<1>5. CASE q > Len(log) /\ p > Len(log)
  BY <1>1, <1>2, <1>5
<1> QED BY <1>1, <1>3, <1>4, <1>5

(* Without a crash nothing comes again: once something was applied, what is *)
(* behind the process stays behind it, a clamp included.                    *)
LEMMA ComingShrinks ==
  ASSUME FullInv, [Next]_vars, ~Crash, ~NothingApplied, NEW p \in 1 .. Len(log), Coming(p)'
  PROVE  Coming(p)
<1>1. /\ Len(log) \in Nat /\ next \in Nat /\ page.hi \in Nat /\ log[p].ledger \in Nat
      /\ Oldest \in Nat /\ latest \in Nat /\ startLedger \in Nat
      /\ cursor.ledger \in Nat /\ cursor.pos \in Nat
      /\ pc \in {"poll", "retry", "apply", "fanout"}
  BY Basics DEF FullInv, NothingApplied, TypeOK
<1>2. CASE LedgerStep
  BY <1>2, LedgerKeepsComing
<1>3. CASE GetEvents
  <2>1. /\ log' = log /\ pc \in {"poll", "retry"} /\ pc' = "apply"
        /\ \A r \in 1 .. Len(log) : r >= next' <=> Wanted(r, cursor, FromLedger)
    BY <1>3 DEF GetEvents, ledgerVars
  <2> QED BY <2>1 DEF Coming
<1>4. CASE Clamp
  <2>1. /\ log' = log /\ pc = "poll" /\ pc' \in {"poll", "retry"} /\ ~InRange
        /\ startLedger' = Oldest /\ cursor' = NoCursor
    BY <1>4 DEF Clamp, ledgerVars
  <2>2. log[p].ledger >= Oldest
    BY <2>1 DEF Coming, Wanted, FromLedger, FromOf
  <2>3. CASE cursor = NoCursor
    <3>1. FromLedger = startLedger /\ startLedger <= latest
      BY <1>1, <2>1, <2>3 DEF FromLedger, FromOf, NothingApplied
    <3>2. startLedger < Oldest
      BY <1>1, <2>1, <3>1 DEF InRange
    <3> QED BY <1>1, <2>1, <2>2, <2>3, <3>1, <3>2, NoCursorType DEF Coming, Wanted
  <2>4. CASE cursor # NoCursor
    <3>1. FromLedger = cursor.ledger /\ CutsLog(cursor)
      BY <2>1, <2>4 DEF FromLedger, FromOf, FullInv, IndInv, MemInv
    <3>2. cursor.ledger < Oldest
      BY <1>1, <2>1, <3>1 DEF InRange, CutsLog
    <3>3. p > cursor.pos
      BY <1>1, <2>2, <3>1, <3>2 DEF CutsLog
    <3> QED BY <1>1, <2>1, <2>2, <3>1, <3>2, <3>3 DEF Coming, Wanted
  <2> QED BY <2>3, <2>4
<1>5. CASE RetryError \/ UNCHANGED vars
  <2>1. /\ log' = log /\ cursor' = cursor /\ startLedger' = startLedger /\ next' = next
        /\ pc' = pc \/ (pc = "retry" /\ pc' = "poll")
    BY <1>5 DEF RetryError, vars, ledgerVars, indexerVars, memVars
  <2>2. FromLedger' = FromLedger
    BY <2>1 DEF FromLedger, FromOf
  <2> QED BY <1>1, <2>1, <2>2 DEF Coming, Wanted
<1>6. CASE EventError \/ ApplyEvent \/ Fanout
  <2>1. \/ pc = "apply" /\ pc' = "apply" /\ next' = next + 1
        \/ pc = "apply" /\ pc' = "fanout" /\ next' = next
        \/ pc = "fanout" /\ pc' = "apply" /\ next' = next + 1
    BY <1>6 DEF EventError, ApplyEvent, Fanout, InPage
  <2>2. \/ pc = "apply" /\ p >= next
        \/ pc = "fanout" /\ p > next
    BY <1>1, <2>1 DEF Coming
  <2> QED BY <2>2 DEF Coming
<1>7. CASE EndPage
  <2>1. /\ log' = log /\ pc = "apply" /\ pc' = "poll" /\ next > page.hi /\ cursor' = page.resp
        /\ page.resp.pos = page.hi /\ next <= page.hi + 1
    BY <1>7 DEF EndPage, ledgerVars, FullInv, IndInv, PageInv
  <2>2. p > page.hi
    BY <2>1 DEF Coming, Wanted
  <2> QED BY <1>1, <2>1, <2>2 DEF Coming
<1>8. ~Boot
  BY <1>1 DEF Boot
<1> QED BY <1>2, <1>3, <1>4, <1>5, <1>6, <1>7, <1>8 DEF Next, IndexerStep

(* getEvents answers with whole pages.                                      *)
LEMMA PageWholeKept ==
  ASSUME FullInv, FullInv', PageWhole, [Next]_vars
  PROVE  PageWhole'
<1>1. StepGrows
  BY NextGrows
<1>2. CASE LedgerStep
  <2> SUFFICES ASSUME pc \in {"apply", "fanout"}, page.hi - page.lo + 1 # PageLimit,
                      NEW p \in 1 .. Len(log'), p > page.hi
               PROVE  log'[p].ledger > page.resp.ledger
    BY <1>2 DEF PageWhole, LedgerStep, indexerVars, memVars
  <2>1. Grows
    BY <1>2, LedgerGrows DEF LedgerStep, FullInv, TypeOK
  <2>2. page.resp.ledger <= latest /\ page.resp.ledger \in Nat /\ latest \in Nat
    BY Basics DEF FullInv, IndInv, PageInv, CutsLog
  <2>3. CASE p > Len(log)
    BY <2>1, <2>2, <2>3 DEF Grows
  <2>4. CASE p <= Len(log)
    <3>1. p \in 1 .. Len(log) /\ log'[p] = log[p]
      BY <1>1, <2>4 DEF StepGrows
    <3> QED BY <3>1 DEF PageWhole
  <2> QED BY <1>1, <2>3, <2>4 DEF StepGrows
<1>3. CASE GetEvents
  <2>1. PICK lo \in 1 .. Len(log) + 1, last \in 0 .. Len(log) :
          /\ \A p \in 1 .. Len(log) : p <= last <=> log[p].ledger <= ScanEnd
          /\ page' = Response(lo, last)
    BY <1>3 DEF GetEvents
  <2> DEFINE hi == MinOf(last, lo + PageLimit - 1)
             full == hi - lo + 1 = PageLimit
  <2>2. /\ page'.lo = lo /\ page'.hi = hi
        /\ page'.resp.ledger = IF full THEN log[hi].ledger ELSE ScanEnd
    BY <2>1 DEF Response
  <2>3. ~full => hi = last
    BY IndexerAssumption DEF MinOf
  <2>4. log' = log /\ \A p \in 1 .. Len(log) : log[p].ledger \in Nat
    BY <1>3, Basics DEF GetEvents, ledgerVars, FullInv
  <2> HIDE DEF hi
  <2>5. ASSUME ~full, NEW p \in 1 .. Len(log), p > hi
        PROVE  log[p].ledger > ScanEnd
    <3>1. ~(log[p].ledger <= ScanEnd)
      BY <2>1, <2>3, <2>5
    <3>2. page'.resp.ledger = ScanEnd /\ page'.resp.ledger \in Nat
      BY <2>2, <2>5, Basics DEF FullInv, TypeOK, Cursor
    <3> QED BY <2>4, <3>1, <3>2
  <2> QED BY <2>2, <2>4, <2>5 DEF PageWhole
<1>4. CASE ~LedgerStep /\ ~GetEvents
  <2>1. /\ log' = log
        /\ pc' \in {"apply", "fanout"} => pc \in {"apply", "fanout"} /\ page' = page
    BY <1>4 DEF Next, IndexerStep, Boot, Clamp, RetryError, EventError, ApplyEvent, Fanout,
       EndPage, Crash, InPage, vars, ledgerVars, indexerVars, memVars
  <2> QED BY <2>1 DEF PageWhole
<1> QED BY <1>2, <1>3, <1>4

(* A row stays in its place while the process goes on.  At the end of a     *)
(* page the last event leaves the process' hand: it had an index of at      *)
(* least one if the page was full, or its ledger ended with the page.       *)
LEMMA RowStays ==
  ASSUME PageLimit > 1, FullInv, FullInv', TxSorted(log), TxPairs(log), PageWhole,
         [Next]_vars, ~Crash, ~NothingApplied,
         NEW a, NEW q \in 1 .. Len(log), RowAt(a, q)
  PROVE  q \in 1 .. Len(log') /\ RowAt(a, q)'
<1>1. StepGrows /\ log'[q] = log[q] /\ q \in 1 .. Len(log')
  BY NextGrows DEF StepGrows
<1>2. \A p \in 1 .. Len(log) : Coming(p)' => Coming(p)
  BY ComingShrinks
<1>3. a.ev = log'[q] /\ a.tx = log'[q].tx /\ ~Coming(q)'
  BY <1>1, <1>2 DEF RowAt
<1>4. /\ Len(log) \in Nat /\ next \in Nat /\ page.lo \in Nat /\ page.hi \in Nat
      /\ page.resp.ledger \in Nat /\ \A p \in 1 .. Len(log) : log[p].ledger \in Nat
      /\ PageLimit \in Nat
  BY Basics, IndexerAssumption DEF FullInv
<1>5. ASSUME NEW p \in 1 .. Len(log'), p = q + 1, log'[p].tx = log'[q].tx, Coming(p)',
             ~EndPage \/ ~InHand(q)
      PROVE  (~InHand(q) => a.idx >= 1) /\ p \in 1 .. Len(log)
  <2>1. p \in 1 .. Len(log)
    <3>1. CASE Contracts
      <4>1. p > Len(log) => log'[p].tx = NextTx
        BY <3>1, NewTx DEF FullInv, TypeOK
      <4>2. log[q].tx \in Nat /\ log[q].tx < NextTx /\ NextTx \in Nat
        BY FreshTx DEF FullInv, TypeOK
      <4> QED BY <1>1, <1>4, <1>5, <4>1, <4>2
    <3>2. CASE ~Contracts
      <4>1. log' = log
        BY <3>2 DEF Next, LedgerStep, CloseLedger, IndexerStep, Boot, GetEvents, Clamp,
           RetryError, EventError, ApplyEvent, Fanout, EndPage, Crash, vars, ledgerVars
      <4> QED BY <4>1
    <3> QED BY <3>1, <3>2
  <2>2. log'[p] = log[p] /\ Coming(p)
    BY <1>1, <1>2, <1>5, <2>1 DEF StepGrows
  <2> QED BY <1>1, <1>5, <2>1, <2>2 DEF RowAt
<1>o. ASSUME ~InHand(q), ~InHand(q)' PROVE RowAt(a, q)'
  <2> SUFFICES ASSUME NEW p \in 1 .. Len(log'), p = q + 1, log'[p].tx = log'[q].tx, Coming(p)'
               PROVE  a.idx >= 1
    BY <1>3, <1>o DEF RowAt
  <2> QED BY <1>5, <1>o
<1>6. CASE EndPage
  <2>1. /\ log' = log /\ pc = "apply" /\ pc' = "poll" /\ next > page.hi /\ cursor' = page.resp
        /\ page.resp.pos = page.hi /\ next <= page.hi + 1 /\ CutsLog(page.resp)
    BY <1>6 DEF EndPage, ledgerVars, FullInv, IndInv, PageInv
  <2>2. ~InHand(q)'
    BY <2>1 DEF InHand
  <2>3. ASSUME InHand(q), NEW p \in 1 .. Len(log), p = q + 1, log[p].tx = log[q].tx, Coming(p)'
        PROVE  a.idx >= 1
    <3>1. p > page.hi
      BY <2>1, <2>3 DEF Coming, Wanted
    <3>2. q <= page.hi /\ a.idx = q - page.lo
      BY <1>4, <2>1, <2>3 DEF RowAt, Coming
    <3>3. q = page.hi
      BY <1>4, <2>3, <3>1, <3>2
    <3>4. log[q].ledger = log[p].ledger /\ log[q].ledger <= page.resp.ledger
      BY <1>4, <2>1, <2>3, <3>3 DEF TxPairs, CutsLog
    <3>5. page.hi - page.lo + 1 = PageLimit
      BY <1>4, <2>1, <3>1, <3>4 DEF PageWhole
    <3> QED BY <1>4, <3>2, <3>3, <3>5
  <2> QED BY <1>3, <1>5, <2>1, <2>2, <2>3 DEF RowAt
<1>7. CASE GetEvents
  <2>1. /\ log' = log /\ pc \in {"poll", "retry"} /\ pc' = "apply" /\ page'.lo = next'
        /\ \A r \in 1 .. Len(log) : r >= next' <=> Wanted(r, cursor, FromLedger)
    BY <1>7 DEF GetEvents, ledgerVars, Response
  <2>2. ~InHand(q) /\ ~InHand(q)'
    BY <2>1 DEF InHand, RowAt, Coming
  <2> QED BY <1>1, <1>o, <2>2
<1>8. CASE ~EndPage /\ ~GetEvents
  <2>1. \/ pc \in {"apply", "fanout"} /\ pc' \in {"apply", "fanout"} /\ page' = page
        \/ pc \notin {"apply", "fanout"} /\ pc' \notin {"apply", "fanout"}
    BY <1>8 DEF Next, LedgerStep, IndexerStep, Boot, Clamp, RetryError, EventError, ApplyEvent,
       Fanout, InPage, vars, indexerVars, memVars
  <2>2. InHand(q)' <=> InHand(q)
    BY <2>1 DEF InHand
  <2>3. InHand(q) => page' = page
    BY <2>1 DEF InHand
  <2>4. CASE InHand(q)
    <3>1. a.idx = q - page'.lo /\ InHand(q)'
      BY <2>2, <2>3, <2>4 DEF RowAt
    <3> QED BY <1>1, <1>3, <3>1 DEF RowAt
  <2> QED BY <1>1, <1>o, <2>2, <2>4
<1> QED BY <1>6, <1>7, <1>8

(* Without a crash the key of the event in hand is free.                    *)
LEMMA KeyIsFree ==
  ASSUME FullInv, TxPairs(log), RowsInv, crashes = 0, InPage
  PROVE  ~KeyTaken(db, log[next], next - page.lo)
<1> SUFFICES ASSUME NEW a \in db.audit, a.tx = log[next].tx, a.idx = next - page.lo
             PROVE  FALSE
  BY DEF KeyTaken
<1>1. /\ pc = "apply" /\ next \in 1 .. Len(log) /\ Len(log) \in Nat /\ page.lo \in Nat
      /\ page.lo <= next
  BY InPageFacts, Basics DEF InPage, FullInv, IndInv, PageInv
<1>2. PICK q \in 1 .. Len(log) : RowAt(a, q)
  BY DEF RowsInv
<1>3. q < next /\ log[q].tx = log[next].tx
  BY <1>1, <1>2 DEF RowAt, Coming
<1>4. next = q + 1 /\ Coming(next)
  BY <1>1, <1>3 DEF TxPairs, Coming
<1>5. CASE InHand(q)
  BY <1>1, <1>2, <1>4, <1>5 DEF RowAt
<1>6. CASE ~InHand(q)
  <2>1. a.idx >= 1
    BY <1>1, <1>2, <1>3, <1>4, <1>6 DEF RowAt
  <2>2. next = page.lo
    BY <1>1, <1>4, <1>6 DEF InHand
  <2> QED BY <1>1, <2>1, <2>2
<1> QED BY <1>5, <1>6

(* Applying the event in hand puts it on record and takes nothing away.     *)
LEMMA ApplyRecords ==
  ASSUME FullInv, AuditInv, InPage, db' = Apply(db, log[next], next - page.lo)
  PROVE  /\ db.audit \subseteq db'.audit
         /\ \E a \in db'.audit : a.tx = log[next].tx /\ (crashes = 0 => a.ev = log[next])
         /\ crashes = 0 => db'.audit = db.audit \cup
              {[tx |-> log[next].tx, idx |-> next - page.lo, ev |-> log[next]]}
<1>1. next \in 1 .. Len(log) /\ next - page.lo \in Nat /\ log[next] \in Event /\ db \in DBType
  BY InPageFacts DEF InPage, FullInv, TypeOK
<1> DEFINE row == [tx |-> log[next].tx, idx |-> next - page.lo, ev |-> log[next]]
           Taken == KeyTaken(db, log[next], next - page.lo)
<1>2. (Taken => db'.audit = db.audit) /\ (~Taken => db'.audit = db.audit \cup {row})
  BY <1>1, ApplyAudits
<1>3. crashes = 0 => ~Taken
  BY KeyIsFree DEF AuditInv
<1>4. row.tx = log[next].tx /\ row.ev = log[next]
  OBVIOUS
<1>5. CASE Taken
  BY <1>2, <1>3, <1>5 DEF KeyTaken
<1>6. CASE ~Taken
  <2>1. db'.audit = db.audit \cup {row}
    BY <1>2, <1>6
  <2> HIDE DEF row
  <2> QED BY <1>4, <2>1 DEF row
<1> QED BY <1>5, <1>6

(* The one step that writes to the audit log.                               *)
Audits == InPage /\ db' = Apply(db, log[next], next - page.lo)

(* No other step does.                                                      *)
LEMMA OnlyApplyAudits ==
  ASSUME [Next]_vars
  PROVE  db' = db \/ (Audits /\ (EventError \/ ApplyEvent))
  BY DEF Audits, Next, LedgerStep, IndexerStep, Boot, GetEvents, Clamp, RetryError, EventError,
     ApplyEvent, Fanout, EndPage, Crash, vars, indexerVars

(* What is on record stays on record.                                       *)
LEMMA RecordStays ==
  ASSUME FullInv, AuditInv, [Next]_vars, NEW p \in 1 .. Len(log), OnRecord(p)
  PROVE  OnRecord(p)'
<1>1. db.audit \subseteq db'.audit
  BY OnlyApplyAudits, ApplyRecords DEF Audits
<1>2. log'[p] = log[p]
  BY NextGrows DEF StepGrows
<1>3. crashes' = 0 => crashes = 0
  <2>1. crashes \in Nat
    BY IndexerAssumption DEF FullInv, TypeOK
  <2>2. crashes' = crashes \/ crashes' = crashes + 1
    BY DEF Next, LedgerStep, IndexerStep, Boot, GetEvents, Clamp, RetryError, EventError,
       ApplyEvent, Fanout, EndPage, Crash, vars, indexerVars, boundVars
  <2> QED BY <2>1, <2>2
<1>4. PICK a \in db.audit : a.tx = log[p].tx /\ (crashes = 0 => a.ev = log[p])
  BY DEF OnRecord
<1> QED BY <1>1, <1>2, <1>3, <1>4 DEF OnRecord

(* Everything applied is on record.                                         *)
LEMMA RecordInvKept ==
  ASSUME FullInv, FullInv', AuditInv, [Next]_vars
  PROVE  RecordInv'
<1>1. /\ done \subseteq 1 .. Len(log) /\ \A p \in done : OnRecord(p)
      /\ pc = "fanout" => OnRecord(next)
  BY DEF FullInv, TypeOK, AuditInv, RecordInv
<1>2. \A p \in done : OnRecord(p)'
  BY <1>1, RecordStays
<1>3. PICK n : n = next
  OBVIOUS
<1>4. pc = "fanout" => OnRecord(n)'
  <2>1. pc = "fanout" => n \in 1 .. Len(log)
    BY <1>3, InPageFacts DEF FullInv, IndInv, PageInv
  <2>2. pc = "fanout" => OnRecord(n)
    BY <1>1, <1>3
  <2> QED BY <2>1, <2>2, RecordStays
<1>5. CASE Fanout
  <2>1. pc = "fanout" /\ pc' = "apply" /\ done' = done \cup {n}
    BY <1>3, <1>5 DEF Fanout
  <2> QED BY <1>2, <1>4, <2>1 DEF RecordInv
<1>6. CASE ApplyEvent
  <2>1. /\ pc' = "fanout" /\ done' = done /\ next' = next /\ log' = log /\ crashes' = crashes
        /\ InPage /\ db' = Apply(db, log[next], next - page.lo)
    BY <1>6 DEF ApplyEvent, ledgerVars, boundVars
  <2>2. \E a \in db'.audit : a.tx = log[next].tx /\ (crashes = 0 => a.ev = log[next])
    BY <2>1, ApplyRecords
  <2>3. OnRecord(next)'
    BY <2>1, <2>2 DEF OnRecord
  <2> QED BY <1>2, <2>1, <2>3 DEF RecordInv
<1>7. CASE ~Fanout /\ ~ApplyEvent
  <2>1. done' = done /\ (pc' = "fanout" => pc = "fanout" /\ next' = next)
    BY <1>7 DEF Next, LedgerStep, IndexerStep, Boot, GetEvents, Clamp, RetryError, EventError,
       EndPage, Crash, InPage, vars, indexerVars, memVars
  <2>2. pc' = "fanout" => OnRecord(next)'
    BY <1>3, <1>4, <2>1 DEF OnRecord
  <2> QED BY <1>2, <2>1, <2>2 DEF RecordInv
<1> QED BY <1>5, <1>6, <1>7

(* Every row has its place.                                                 *)
LEMMA RowsInvKept ==
  ASSUME PageLimit > 1, FullInv, FullInv', TxSorted(log), AuditInv, [Next]_vars
  PROVE  RowsInv'
<1> SUFFICES ASSUME crashes' = 0
             PROVE  /\ NothingApplied' => db'.audit = {}
                    /\ \A a \in db'.audit : \E q \in 1 .. Len(log') : RowAt(a, q)'
  BY DEF RowsInv
<1>1. crashes = 0 /\ ~Crash
  <2>1. crashes \in Nat
    BY IndexerAssumption DEF FullInv, TypeOK
  <2>2. ~Crash
    BY <2>1 DEF Crash
  <2>3. crashes' = crashes
    BY <2>2 DEF Next, LedgerStep, IndexerStep, Boot, GetEvents, Clamp, RetryError, EventError,
       ApplyEvent, Fanout, EndPage, vars, indexerVars, boundVars
  <2> QED BY <2>2, <2>3
<1>2. /\ NothingApplied => db.audit = {}
      /\ \A a \in db.audit : \E q \in 1 .. Len(log) : RowAt(a, q)
  BY <1>1 DEF AuditInv, RowsInv
<1>3. CASE NothingApplied
  <2>1. ~InPage
    BY <1>3 DEF NothingApplied, InPage
  <2>2. db' = db
    BY <2>1, OnlyApplyAudits DEF Audits
  <2> QED BY <1>2, <1>3, <2>2
<1>4. CASE ~NothingApplied
  <2>1. ~NothingApplied'
    <3>1. /\ startLedger \in Nat /\ latest \in Nat /\ Oldest <= latest /\ Oldest \in Nat
          /\ page.resp.ledger \in Nat /\ pc # "down"
          /\ pc \in {"poll", "retry", "apply", "fanout"}
      BY <1>4, Basics DEF FullInv, NothingApplied, TypeOK
    <3>2. CASE LedgerStep
      <4>1. latest' \in Nat /\ latest <= latest' /\ pc' = pc /\ startLedger' = startLedger
        BY <3>2, LedgerGrows DEF LedgerStep, FullInv, TypeOK, Grows, indexerVars, memVars
      <4> QED BY <1>4, <3>1, <4>1 DEF NothingApplied
    <3>3. CASE Clamp
      BY <3>1, <3>3 DEF Clamp, ledgerVars, NothingApplied
    <3>4. CASE EndPage
      <4>1. startLedger <= page.resp.ledger /\ page.resp.ledger <= latest
        BY <3>4 DEF EndPage, FullInv, IndInv, PageInv, CutsLog
      <4>2. /\ startLedger' = MaxOf(startLedger, page.resp.ledger) /\ latest' = latest
            /\ pc' = "poll"
        BY <3>4 DEF EndPage, ledgerVars
      <4> QED BY <3>1, <4>1, <4>2 DEF NothingApplied, MaxOf
    <3>5. CASE RetryError \/ UNCHANGED vars
      <4>1. /\ startLedger' = startLedger /\ latest' = latest
            /\ pc' = pc \/ (pc = "retry" /\ pc' = "poll")
        BY <3>5 DEF RetryError, vars, ledgerVars, indexerVars, memVars
      <4> QED BY <1>4, <3>1, <4>1 DEF NothingApplied
    <3>6. CASE GetEvents \/ EventError \/ ApplyEvent \/ Fanout
      <4>1. pc' \in {"apply", "fanout"}
        BY <3>6 DEF GetEvents, EventError, ApplyEvent, Fanout, InPage
      <4> QED BY <4>1 DEF NothingApplied
    <3>7. ~Boot
      BY <3>1 DEF Boot
    <3> QED BY <1>1, <3>2, <3>3, <3>4, <3>5, <3>6, <3>7 DEF Next, IndexerStep
  <2>2. ASSUME NEW a \in db.audit PROVE \E q \in 1 .. Len(log') : RowAt(a, q)'
    <3>1. PICK q \in 1 .. Len(log) : RowAt(a, q)
      BY <1>2
    <3>2. q \in 1 .. Len(log') /\ RowAt(a, q)'
      BY <1>1, <1>4, <3>1, RowStays DEF AuditInv
    <3> QED BY <3>2
  <2>3. CASE db' = db
    BY <2>1, <2>2, <2>3
  <2>4. CASE Audits /\ (EventError \/ ApplyEvent)
    <3>1. PICK n : n = next
      OBVIOUS
    <3>2. PICK row : row = [tx |-> log[n].tx, idx |-> n - page.lo, ev |-> log[n]]
      OBVIOUS
    <3>3. db'.audit = db.audit \cup {row}
      BY <1>1, <2>4, <3>1, <3>2, ApplyRecords DEF Audits
    <3>4. /\ log' = log /\ page' = page /\ pc' \in {"apply", "fanout"} /\ n \in Nat
          /\ (pc' = "apply" => next' = n + 1) /\ (pc' = "fanout" => next' = n)
      BY <2>4, <3>1, Basics DEF EventError, ApplyEvent, InPage, ledgerVars, FullInv
    <3>5. n \in 1 .. Len(log') /\ page.lo \in Nat /\ page.lo <= n
      BY <2>4, <3>1, <3>4, InPageFacts, Basics DEF Audits, InPage, FullInv, IndInv, PageInv
    <3>6. ~Coming(n)'
      BY <3>4 DEF Coming
    <3>7. InHand(n)'
      BY <3>4, <3>5 DEF InHand
    <3>8. row.ev = log'[n] /\ row.tx = log'[n].tx /\ row.idx = n - page'.lo
      BY <3>2, <3>4
    <3>9. RowAt(row, n)'
      BY <3>6, <3>7, <3>8 DEF RowAt
    <3> QED BY <2>1, <2>2, <3>3, <3>5, <3>9
  <2> QED BY <2>3, <2>4, OnlyApplyAudits
<1> QED BY <1>3, <1>4

(* The invariant behind the audit log is inductive.                         *)
LEMMA AuditInvKept ==
  ASSUME PageLimit > 1, FullInv, TablesInv, AuditInv, [Next]_vars
  PROVE  AuditInv'
<1>1. FullInv' /\ TxSorted(log)
  BY NextKeepsInv, OriginKept DEF FullInv, TablesInv, ChainInv
<1>2. TxPairs(log')
  <2>1. CASE Contracts
    BY <1>1, <2>1, PairsKept DEF FullInv, TypeOK, AuditInv
  <2>2. CASE ~Contracts
    <3>1. log' = log
      BY <2>2 DEF Next, LedgerStep, CloseLedger, IndexerStep, Boot, GetEvents, Clamp,
         RetryError, EventError, ApplyEvent, Fanout, EndPage, Crash, vars, ledgerVars
    <3> QED BY <3>1 DEF AuditInv
  <2> QED BY <2>1, <2>2
<1>3. PageWhole'
  BY <1>1, PageWholeKept DEF AuditInv
<1>4. RowsInv' /\ RecordInv'
  BY <1>1, RowsInvKept, RecordInvKept
<1> QED BY <1>2, <1>3, <1>4 DEF AuditInv

(* Whatever the indexer applied is on record in trade_events (Repo.Apply,   *)
(* store.go:67-79), event by event until the first crash and transaction by *)
(* transaction after it, although the index in the page is its key          *)
(* (main.go:204).  A page must hold two events for that; the code asks for  *)
(* 200.                                                                     *)
THEOREM AppliedIsOnRecord ==
  ASSUME PageLimit > 1
  PROVE  Spec => []AuditComplete
<1>1. Init => AuditInv
  <2> SUFFICES ASSUME Init PROVE AuditInv
    OBVIOUS
  <2>1. log = <<>> /\ Len(log) = 0 /\ pc = "down" /\ done = {} /\ db.audit = {}
    BY DEF Init, LedgerInit, EmptyDB
  <2> QED BY <2>1 DEF AuditInv, TxPairs, PageWhole, RowsInv, RecordInv
<1>2. FullInv /\ TablesInv /\ AuditInv /\ [Next]_vars => AuditInv'
  BY AuditInvKept
<1>3. AuditInv => AuditComplete
  BY DEF AuditInv, RecordInv, OnRecord, AuditComplete
<1> QED BY <1>1, <1>2, <1>3, TablesInvariant, PTL DEF Spec
=============================================================================
