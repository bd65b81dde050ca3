---------------------------- MODULE KeeperProofs ----------------------------
(***************************************************************************)
(* Proofs about the keeper for every set of keys, terms and prices and     *)
(* every bound: its types, that the executor only touches queued actions,  *)
(* and that the watch list loses an open slot in one way only.             *)
(***************************************************************************)
EXTENDS Keeper, TLAPS

(* An action's slot is a slot.                                              *)
LEMMA SlotOfType == ASSUME NEW a \in Action PROVE SlotOf(a) \in Slot
BY DEF SlotOf, Action, Slot

(* Appending to, reading and shortening a queue of elements of S.           *)
LEMMA QueueType ==
  ASSUME NEW S, NEW q \in Seq(S)
  PROVE  /\ \A e \in S : Append(q, e) \in Seq(S)
         /\ q # <<>> => Head(q) \in S /\ Tail(q) \in Seq(S)
OBVIOUS

(* The elements of a queue, and what is left of it without its head.        *)
LEMMA QueueElements ==
  ASSUME NEW S, NEW q \in Seq(S)
  PROVE  /\ \A i \in 1 .. Len(q) : q[i] \in S
         /\ q # <<>> => /\ Len(q) \in Nat \ {0} /\ Len(Tail(q)) = Len(q) - 1
                        /\ \A i \in 1 .. Len(Tail(q)) : Tail(q)[i] = q[i + 1]
                        /\ Head(q) = q[1]
OBVIOUS

(* The initial state is well typed.                                         *)
LEMMA InitType == Init => KeeperTypeOK
<1> SUFFICES ASSUME Init PROVE KeeperTypeOK
  OBVIOUS
<1> USE KeeperAssumption DEF Init
<1>1. slots \in [Slot -> Row] /\ state \in [Slot -> Row] /\ opens \in [Slot -> 0 .. MaxOpens]
  BY DEF Row
<1>2. oracle \in Prices /\ market \in Prices /\ moves \in 0 .. MaxMoves /\ seq \in Nat
  OBVIOUS
<1>3. pending \in [Action -> -1 .. maxRetries - 1]
  BY DEF NotQueued
<1>4. feed \in Seq([slot: Slot, row: Row])
  OBVIOUS
<1>5. step \in {Idle} /\ faults \in 0 .. MaxFaults
  OBVIOUS
<1> QED
  BY <1>1, <1>2, <1>3, <1>4, <1>5 DEF KeeperTypeOK

(* Queue updates keep the retry counts below the limit.                     *)
LEMMA PendingType ==
  ASSUME KeeperTypeOK, NEW a \in Action
  PROVE  /\ Drop(a) => pending' \in [Action -> -1 .. maxRetries - 1]
         /\ Retry(a) => pending' \in [Action -> -1 .. maxRetries - 1]
<1>1. pending \in [Action -> -1 .. maxRetries - 1] /\ maxRetries \in Nat \ {0}
  BY KeeperAssumption DEF KeeperTypeOK
<1> DEFINE v == IF pending[a] + 1 >= maxRetries THEN NotQueued ELSE pending[a] + 1
<1>2. v \in -1 .. maxRetries - 1 /\ NotQueued \in -1 .. maxRetries - 1
  BY <1>1 DEF NotQueued
<1>3. Retry(a) => pending' = [pending EXCEPT ![a] = v]
  BY <1>1 DEF Retry
<1> HIDE DEF v
<1> QED
  BY <1>1, <1>2, <1>3 DEF Drop

(* A submission is a well-formed transaction.                               *)
LEMMA TxType ==
  ASSUME KeeperTypeOK, NEW a \in Action
  PROVE  Tx(a) \in [act: Action, seq: Nat]
BY DEF KeeperTypeOK, Tx
(* What carries over from one state to the next for a step that leaves it   *)
(* alone: used for the variables an action does not touch.                  *)
LEMMA StutterType == KeeperTypeOK /\ UNCHANGED vars => KeeperTypeOK'
BY DEF KeeperTypeOK, vars, externalVars

(* Opening and closing slots, market and oracle, inclusion and expiry.      *)
LEMMA ExternalType == KeeperTypeOK /\ External => KeeperTypeOK'
<1> SUFFICES ASSUME KeeperTypeOK, External PROVE KeeperTypeOK'
  OBVIOUS
<1> USE KeeperAssumption DEF KeeperTypeOK
<1>1. ASSUME NEW s \in Slot, CloseSlot(s) PROVE KeeperTypeOK'
  <2>1. None \in Row /\ Resolved(s) \in [slot: Slot, row: Row]
    BY DEF Row, Resolved
  <2>2. slots' \in [Slot -> Row]
    BY <1>1, <2>1 DEF CloseSlot
  <2>3. feed' \in Seq([slot: Slot, row: Row])
    BY <1>1, <2>1, QueueType DEF CloseSlot
  <2> QED
    BY <1>1, <2>2, <2>3 DEF CloseSlot
<1>2. ASSUME NEW s \in Slot, NEW t \in Terms(s), OpenSlot(s, t) PROVE KeeperTypeOK'
  <2>1. t \in TradeTerms \cup LimitTerms
    BY DEF Terms
  <2>2. opens' \in [Slot -> 0 .. MaxOpens] /\ opens'[s] \in 1 .. MaxOpens
    BY <1>2, SMTT(20) DEF OpenSlot
  <2>3. [n |-> opens'[s], terms |-> t] \in Row
    BY <2>1, <2>2 DEF Row
  <2>4. Opened(s, opens'[s], t) \in [slot: Slot, row: Row]
    BY <2>3 DEF Opened
  <2>5. slots' \in [Slot -> Row] /\ feed' \in Seq([slot: Slot, row: Row])
    BY <1>2, <2>3, <2>4 DEF OpenSlot
  <2> QED
    BY <1>2, <2>2, <2>5 DEF OpenSlot
<1>3. ASSUME NEW p \in Prices, MarketMoves(p) PROVE KeeperTypeOK'
  <2>1. market' \in Prices /\ moves' \in 0 .. MaxMoves
    BY <1>3, SMTT(20) DEF MarketMoves
  <2> QED
    BY <1>3, <2>1 DEF MarketMoves
<1>4. ASSUME OracleFollows PROVE KeeperTypeOK'
  BY <1>4 DEF OracleFollows
<1>5. ASSUME NEW tx \in mempool, Include(tx) PROVE KeeperTypeOK'
  <2> DEFINE s == SlotOf(tx.act)
  <2>1. s \in Slot
    BY SlotOfType
  <2> HIDE DEF s
  <2>2. None \in Row /\ Resolved(s) \in [slot: Slot, row: Row]
    BY <2>1 DEF Row, Resolved
  <2>3. \/ slots' = [slots EXCEPT ![s] = None] /\ feed' = Append(feed, Resolved(s))
        \/ UNCHANGED <<slots, feed>>
    BY <1>5 DEF Include, s
  <2>4. slots' \in [Slot -> Row] /\ feed' \in Seq([slot: Slot, row: Row])
    <3>1. CASE slots' = [slots EXCEPT ![s] = None] /\ feed' = Append(feed, Resolved(s))
      <4>1. slots' \in [Slot -> Row]
        BY <2>1, <2>2, <3>1
      <4>2. feed' \in Seq([slot: Slot, row: Row])
        BY <2>2, <3>1, QueueType
      <4> QED
        BY <4>1, <4>2
    <3>2. CASE UNCHANGED <<slots, feed>>
      BY <3>2
    <3> QED
      BY <2>3, <3>1, <3>2
  <2>5. seq' \in Nat /\ mempool' \subseteq [act: Action, seq: Nat]
    BY <1>5 DEF Include
  <2> QED
    BY <1>5, <2>4, <2>5 DEF Include
<1>6. ASSUME NEW tx \in mempool, Expire(tx) PROVE KeeperTypeOK'
  BY <1>6 DEF Expire
<1> QED
  BY <1>1, <1>2, <1>3, <1>4, <1>5, <1>6 DEF External

(* The subscriber and the price loop.                                       *)
LEMMA LoopType == KeeperTypeOK /\ (ApplyFeed \/ PriceTick \/ Enqueue) => KeeperTypeOK'
<1> SUFFICES ASSUME KeeperTypeOK PROVE ApplyFeed \/ PriceTick \/ Enqueue => KeeperTypeOK'
  OBVIOUS
<1> USE KeeperAssumption DEF KeeperTypeOK
<1>1. ASSUME ApplyFeed PROVE KeeperTypeOK'
  <2>1. Head(feed) \in [slot: Slot, row: Row] /\ Tail(feed) \in Seq([slot: Slot, row: Row])
    BY <1>1, QueueType DEF ApplyFeed
  <2> QED
    BY <1>1, <2>1 DEF ApplyFeed, externalVars
<1>2. ASSUME PriceTick PROVE KeeperTypeOK'
  BY <1>2 DEF PriceTick, Detect, externalVars
<1>3. ASSUME Enqueue PROVE KeeperTypeOK'
  <2>1. pending' \in [Action -> -1 .. maxRetries - 1]
    BY <1>3 DEF Enqueue, NotQueued
  <2> QED
    BY <1>3, <2>1 DEF Enqueue, externalVars
<1> QED
  BY <1>1, <1>2, <1>3

(* The fields of what the executor is doing.                                *)
LEMMA StepFields ==
  ASSUME KeeperTypeOK
  PROVE  /\ step.do \in {"send", "remove"} => step.act \in Action
         /\ step.do = "remove" => step.n \in 0 .. MaxOpens
         /\ step.do \in {"idle", "send", "remove"}
         /\ Idle.do = "idle"
BY DEF KeeperTypeOK, Idle

(* The executor.                                                            *)
LEMMA ExecutorType == KeeperTypeOK /\ Executor => KeeperTypeOK'
<1> SUFFICES ASSUME KeeperTypeOK, Executor PROVE KeeperTypeOK'
  OBVIOUS
<1> USE KeeperAssumption DEF KeeperTypeOK
<1>1. ASSUME ExecutorTick PROVE KeeperTypeOK'
  BY <1>1 DEF ExecutorTick, externalVars
<1>2. ASSUME RemoveStale PROVE KeeperTypeOK'
  <2> DEFINE s == SlotOf(step.act)
  <2>1. s \in Slot
    BY <1>2, StepFields, SlotOfType DEF RemoveStale
  <2> HIDE DEF s
  <2>2. state' = [state EXCEPT ![s] = None] /\ (raced' = raced \cup {s} \/ raced' = raced)
    BY <1>2 DEF RemoveStale, s
  <2>3. state' \in [Slot -> Row] /\ raced' \subseteq Slot
    BY <2>1, <2>2 DEF Row
  <2> QED
    BY <1>2, <2>3 DEF RemoveStale, externalVars
<1>3. ASSUME SendAccepted PROVE KeeperTypeOK'
  <2>1. step.act \in Action
    BY <1>3, StepFields DEF SendAccepted
  <2>2. Tx(step.act) \in [act: Action, seq: Nat]
    BY <2>1, TxType
  <2>3. pending' \in [Action -> -1 .. maxRetries - 1]
    BY <1>3, <2>1, PendingType DEF SendAccepted
  <2>4. mempool' \subseteq [act: Action, seq: Nat] /\ faults' \in 0 .. MaxFaults
    BY <1>3, <2>2 DEF SendAccepted, Fault
  <2> QED
    BY <1>3, <2>3, <2>4 DEF SendAccepted
<1>4. ASSUME SendFails PROVE KeeperTypeOK'
  <2>1. step.act \in Action
    BY <1>4, StepFields DEF SendFails
  <2>2. Tx(step.act) \in [act: Action, seq: Nat]
    BY <2>1, TxType
  <2>3. pending' \in [Action -> -1 .. maxRetries - 1]
    BY <1>4, <2>1, PendingType DEF SendFails
  <2>4. mempool' \subseteq [act: Action, seq: Nat] /\ faults' \in 0 .. MaxFaults
    BY <1>4, <2>2 DEF SendFails, Fault
  <2> QED
    BY <1>4, <2>3, <2>4 DEF SendFails
<1>5. ASSUME PrepareFails PROVE KeeperTypeOK'
  <2>1. step.act \in Action
    BY <1>5, StepFields DEF PrepareFails
  <2>2. pending' \in [Action -> -1 .. maxRetries - 1]
    BY <1>5, <2>1, PendingType DEF PrepareFails
  <2> QED
    BY <1>5, <2>2 DEF PrepareFails, Fault, externalVars
<1>6. ASSUME NEW a \in Action, Simulate(a) PROVE KeeperTypeOK'
  <2>1. pending' \in [Action -> -1 .. maxRetries - 1]
    BY <1>6, PendingType DEF Simulate
  <2>2. opens[SlotOf(a)] \in 0 .. MaxOpens
    BY SlotOfType
  <2>3. step' = step \/ step' = Send(a) \/ step' = Remove(a)
    BY <1>6 DEF Simulate
  <2>4. (step \in {Idle} \cup [do: {"send"}, act: Action]
                     \cup [do: {"remove"}, act: Action, n: 0 .. MaxOpens])'
    BY <2>2, <2>3 DEF Send, Remove
  <2> QED
    BY <1>6, <2>1, <2>4 DEF Simulate, externalVars
<1>7. ASSUME NEW a \in Action, SimulateFails(a) PROVE KeeperTypeOK'
  <2>1. pending' \in [Action -> -1 .. maxRetries - 1]
    BY <1>7, PendingType DEF SimulateFails
  <2> QED
    BY <1>7, <2>1, SMTT(20) DEF SimulateFails, Fault, externalVars
<1> QED
  BY <1>1, <1>2, <1>3, <1>4, <1>5, <1>6, <1>7 DEF Executor

(* A step of any goroutine, or none, keeps the types.                       *)
LEMMA NextType == KeeperTypeOK /\ [Next]_vars => KeeperTypeOK'
BY StutterType, ExternalType, LoopType, ExecutorType DEF Next

(* The keeper's variables keep their types; in particular no retry count    *)
(* reaches KEEPER_MAX_RETRIES, whatever the RPC node does.                  *)
THEOREM KeeperTypeCorrect == Spec => []KeeperTypeOK
<1> QED
  BY InitType, NextType, PTL DEF Spec

-----------------------------------------------------------------------------
(* The queue: Retry and Drop change the action in hand only.                *)
LEMMA OthersStayQueued ==
  ASSUME KeeperTypeOK, NEW a \in Action, Drop(a) \/ Retry(a), NEW b \in Action, b # a
  PROVE  pending'[b] = pending[b]
BY DEF KeeperTypeOK, Drop, Retry

(* Every step keeps what is in hand queued.                                 *)
LEMMA NextQueued ==
  KeeperTypeOK /\ InHandIsQueued /\ [Next]_vars => InHandIsQueued'
<1> SUFFICES ASSUME KeeperTypeOK, InHandIsQueued, [Next]_vars PROVE InHandIsQueued'
  OBVIOUS
<1> USE DEF InHandIsQueued
<1>0. round \subseteq Action /\ pending \in [Action -> -1 .. maxRetries - 1]
  BY DEF KeeperTypeOK
<1>1. CASE UNCHANGED <<pending, round, step>>
  BY <1>1
<1>2. ASSUME Enqueue PROVE InHandIsQueued'
  <2>1. \A a \in Action : pending[a] # NotQueued => pending'[a] # NotQueued
    BY <1>2 DEF Enqueue
  <2>2. step.do = "send" => step.act \in Action
    BY StepFields
  <2> QED
    BY <1>0, <1>2, <2>1, <2>2 DEF Enqueue
<1>3. ASSUME ExecutorTick PROVE InHandIsQueued'
  BY <1>3, StepFields DEF ExecutorTick
<1>4. ASSUME RemoveStale PROVE InHandIsQueued'
  BY <1>4, StepFields DEF RemoveStale
<1>5. ASSUME SendAccepted PROVE InHandIsQueued'
  BY <1>5, StepFields DEF SendAccepted
<1>6. ASSUME SendFails \/ PrepareFails PROVE InHandIsQueued'
  <2>1. step.act \in Action /\ step.do = "send" /\ (Drop(step.act) \/ Retry(step.act))
    BY <1>6, StepFields DEF SendFails, PrepareFails
  <2>2. round' = round /\ step' = Idle
    BY <1>6 DEF SendFails, PrepareFails
  <2>3. \A b \in round : pending'[b] = pending[b]
    BY <1>0, <2>1, OthersStayQueued
  <2> QED
    BY <2>2, <2>3, StepFields
<1>7. ASSUME NEW a \in Action, Simulate(a) PROVE InHandIsQueued'
  <2>1. round' = round \ {a} /\ a \in round /\ step = Idle
    BY <1>7 DEF Simulate
  <2>2. CASE Drop(a) \/ Retry(a)
    <3>1. \A b \in round' : pending'[b] = pending[b]
      BY <1>0, <2>1, <2>2, OthersStayQueued
    <3>2. step' \in {Idle, Remove(a)} \/ pending' = pending
      BY <1>7, <2>1 DEF Simulate
    <3>3. CASE step' \in {Idle, Remove(a)}
      BY <2>1, <3>1, <3>3, StepFields DEF Remove
    <3>4. CASE pending' = pending
      <4>1. step' \in {Idle, Send(a), Remove(a)}
        BY <1>7, <2>1 DEF Simulate
      <4> QED
        BY <2>1, <3>4, <4>1, StepFields DEF Send, Remove
    <3> QED
      BY <3>2, <3>3, <3>4
  <2>3. CASE pending' = pending
    <3>1. step' \in {Idle, Send(a), Remove(a)}
      BY <1>7, <2>1 DEF Simulate
    <3> QED
      BY <2>1, <2>3, <3>1, StepFields DEF Send, Remove
  <2> QED
    BY <1>7, <2>2, <2>3 DEF Simulate
<1>8. ASSUME NEW a \in Action, SimulateFails(a) PROVE InHandIsQueued'
  <2>1. round' = round \ {a} /\ step' = Idle /\ (Drop(a) \/ Retry(a))
    BY <1>8 DEF SimulateFails
  <2>2. \A b \in round' : pending'[b] = pending[b]
    BY <1>0, <2>1, OthersStayQueued
  <2> QED
    BY <2>1, <2>2, StepFields
<1>9. CASE External
  BY <1>1, <1>9 DEF External, OpenSlot, CloseSlot, MarketMoves, OracleFollows, Include, Expire
<1>10. CASE ApplyFeed \/ PriceTick \/ UNCHANGED vars
  BY <1>1, <1>10 DEF ApplyFeed, PriceTick, vars
<1> QED
  BY <1>2, <1>3, <1>4, <1>5, <1>6, <1>7, <1>8, <1>9, <1>10 DEF Next, Executor

(* What the executor has in hand is queued, for every interleaving of       *)
(* Enqueue with processPending and tryExecute: no action is tried twice in  *)
(* a tick and no retry count lands on a later detection.                    *)
THEOREM InHandStaysQueued == Spec => []InHandIsQueued
<1>1. Init => InHandIsQueued
  BY DEF Init, InHandIsQueued, Idle
<1> QED
  BY <1>1, KeeperTypeCorrect, NextQueued, PTL DEF Spec

-----------------------------------------------------------------------------
(* An event joins the feed: only its own slot is concerned.                 *)
LEMMA FeedGrows ==
  ASSUME KeeperTypeOK, WatchInv, NEW s \in Slot, NEW row \in Row,
         slots' = [slots EXCEPT ![s] = row],
         feed' = Append(feed, [slot |-> s, row |-> row]),
         UNCHANGED <<state, raced>>
  PROVE  LastEventIsCurrent' /\ UpToDate'
<1> DEFINE E == [slot: Slot, row: Row]
<1>1. feed \in Seq(E) /\ [slot |-> s, row |-> row] \in E /\ slots \in [Slot -> Row]
  BY DEF KeeperTypeOK
<1>2. /\ Len(feed') = Len(feed) + 1 /\ Len(feed) \in Nat
      /\ \A i \in 1 .. Len(feed) : feed'[i] = feed[i]
      /\ feed'[Len(feed) + 1] = [slot |-> s, row |-> row]
  BY <1>1
<1>3. LastEventIsCurrent'
  <2> SUFFICES ASSUME NEW i \in 1 .. Len(feed'),
                      \A j \in i + 1 .. Len(feed') : feed'[j].slot # feed'[i].slot
               PROVE  feed'[i].row = slots'[feed'[i].slot]
    BY DEF LastEventIsCurrent
  <2>1. CASE i = Len(feed) + 1
    BY <1>1, <1>2, <2>1
  <2>2. CASE i \in 1 .. Len(feed)
    <3>1. feed'[i] = feed[i] /\ feed[i].slot # s
      BY <1>2, <2>2
    <3>2. \A j \in i + 1 .. Len(feed) : feed[j].slot # feed[i].slot
      BY <1>2, <2>2
    <3>3. feed[i].row = slots[feed[i].slot]
      BY <2>2, <3>2 DEF WatchInv, LastEventIsCurrent
    <3>4. feed[i].slot \in Slot
      <4>1. feed[i] \in E
        BY <1>1, <2>2, QueueElements
      <4> QED
        BY <4>1
    <3> QED
      BY <1>1, <3>1, <3>3, <3>4
  <2> QED
    BY <1>2, <2>1, <2>2
<1>4. UpToDate'
  <2> SUFFICES ASSUME NEW r \in Slot, \A i \in 1 .. Len(feed') : feed'[i].slot # r
               PROVE  slots'[r] = state'[r] \/ r \in raced'
    BY DEF UpToDate
  <2>1. r # s /\ \A i \in 1 .. Len(feed) : feed[i].slot # r
    BY <1>2
  <2> QED
    BY <1>1, <2>1 DEF WatchInv, UpToDate
<1> QED
  BY <1>3, <1>4

(* An event leaves the feed and is applied.                                 *)
LEMMA FeedApplied ==
  ASSUME KeeperTypeOK, WatchInv, ApplyFeed
  PROVE  LastEventIsCurrent' /\ UpToDate'
<1> DEFINE E == [slot: Slot, row: Row]
<1>1. feed \in Seq(E) /\ feed # <<>> /\ state \in [Slot -> Row] /\ feed' = Tail(feed)
  BY DEF KeeperTypeOK, ApplyFeed
<1>2. /\ Len(feed) \in Nat \ {0} /\ Len(feed') = Len(feed) - 1
      /\ \A i \in 1 .. Len(feed') : feed'[i] = feed[i + 1]
      /\ Head(feed) = feed[1] /\ feed[1] \in E
  <2> HIDE DEF E
  <2>1. /\ Len(feed) \in Nat \ {0} /\ Len(Tail(feed)) = Len(feed) - 1
        /\ \A i \in 1 .. Len(Tail(feed)) : Tail(feed)[i] = feed[i + 1]
        /\ Head(feed) = feed[1]
    BY <1>1, QueueElements
  <2>2. 1 \in 1 .. Len(feed)
    BY <2>1
  <2>3. feed[1] \in E
    BY <1>1, <2>2, QueueElements
  <2> QED
    BY <1>1, <2>1, <2>3
<1>3. /\ slots' = slots
      /\ state' = [state EXCEPT ![feed[1].slot] = feed[1].row]
      /\ raced' = raced \ {feed[1].slot}
  BY <1>2 DEF ApplyFeed, externalVars
<1>4. LastEventIsCurrent'
  <2> SUFFICES ASSUME NEW i \in 1 .. Len(feed'),
                      \A j \in i + 1 .. Len(feed') : feed'[j].slot # feed'[i].slot
               PROVE  feed'[i].row = slots'[feed'[i].slot]
    BY DEF LastEventIsCurrent
  <2>1. i + 1 \in 1 .. Len(feed) /\ feed'[i] = feed[i + 1]
    BY <1>2
  <2>2. ASSUME NEW j \in i + 2 .. Len(feed) PROVE feed[j].slot # feed[i + 1].slot
    <3>1. j - 1 \in i + 1 .. Len(feed') /\ j - 1 \in 1 .. Len(feed') /\ (j - 1) + 1 = j
      BY <1>2
    <3> QED
      BY <1>2, <2>1, <3>1
  <2>3. \A j \in (i + 1) + 1 .. Len(feed) : feed[j].slot # feed[i + 1].slot
    BY <2>2
  <2> QED
    BY <1>3, <2>1, <2>3 DEF WatchInv, LastEventIsCurrent
<1>5. UpToDate'
  <2> SUFFICES ASSUME NEW r \in Slot, \A i \in 1 .. Len(feed') : feed'[i].slot # r
               PROVE  slots'[r] = state'[r] \/ r \in raced'
    BY DEF UpToDate
  <2>1. ASSUME NEW j \in 2 .. Len(feed) PROVE feed[j].slot # r
    <3>1. j - 1 \in 1 .. Len(feed') /\ (j - 1) + 1 = j
      BY <1>2
    <3> QED
      BY <1>2, <3>1
  <2>2. CASE feed[1].slot = r
    <3>1. \A j \in 1 + 1 .. Len(feed) : feed[j].slot # feed[1].slot
      BY <2>1, <2>2
    <3>2. feed[1].row = slots[feed[1].slot]
      BY <1>2, <3>1 DEF WatchInv, LastEventIsCurrent
    <3> QED
      BY <1>1, <1>3, <2>2, <3>2
  <2>3. CASE feed[1].slot # r
    <3>1. \A j \in 1 .. Len(feed) : feed[j].slot # r
      BY <1>2, <2>1, <2>3
    <3> QED
      BY <1>1, <1>3, <2>3, <3>1 DEF WatchInv, UpToDate
  <2> QED
    BY <2>2, <2>3
<1> QED
  BY <1>4, <1>5

(* A slot is closed, by the trader or by an executed transaction.           *)
LEMMA ClosingKeepsNumbers ==
  ASSUME KeeperTypeOK, WatchInv, NEW s \in Slot,
         slots' = [slots EXCEPT ![s] = None], UNCHANGED <<opens, step>>
  PROVE  Numbered' /\ NotFoundWasClosed'
<1>1. \A r \in Slot : slots'[r] = slots[r] \/ slots'[r] = None
  BY DEF KeeperTypeOK
<1>2. step.do = "remove" => SlotOf(step.act) \in Slot
  BY StepFields, SlotOfType
<1>3. Numbered'
  BY <1>1 DEF WatchInv, Numbered
<1>4. NotFoundWasClosed'
  BY <1>1, <1>2 DEF WatchInv, NotFoundWasClosed, SlotOf
<1> QED
  BY <1>3, <1>4

(* Every step keeps the watch list's invariant.                             *)
LEMMA NextWatch == KeeperTypeOK /\ WatchInv /\ [Next]_vars => WatchInv'
<1> SUFFICES ASSUME KeeperTypeOK, WatchInv, [Next]_vars PROVE WatchInv'
  OBVIOUS
<1>a. slots \in [Slot -> Row] /\ opens \in [Slot -> 0 .. MaxOpens] /\ state \in [Slot -> Row]
  BY DEF KeeperTypeOK
<1>b. step.do = "remove" => SlotOf(step.act) \in Slot
  BY StepFields, SlotOfType
<1>1. ASSUME NEW s \in Slot, CloseSlot(s) PROVE WatchInv'
  <2>1. None \in Row /\ Resolved(s) = [slot |-> s, row |-> None]
    BY DEF Row, Resolved
  <2>2. LastEventIsCurrent' /\ UpToDate'
    BY <1>1, <2>1, FeedGrows DEF CloseSlot
  <2>3. Numbered' /\ NotFoundWasClosed'
    BY <1>1, ClosingKeepsNumbers DEF CloseSlot
  <2> QED
    BY <2>2, <2>3 DEF WatchInv
<1>2. ASSUME NEW s \in Slot, NEW t \in Terms(s), OpenSlot(s, t) PROVE WatchInv'
  <2> DEFINE row == [n |-> opens'[s], terms |-> t]
  <2>1. opens'[s] = opens[s] + 1 /\ opens'[s] \in 1 .. MaxOpens
    BY <1>2, <1>a, KeeperAssumption DEF OpenSlot
  <2>2. row \in Row /\ row.n = opens'[s]
    BY <2>1 DEF Row, Terms
  <2>3. slots' = [slots EXCEPT ![s] = row] /\ feed' = Append(feed, [slot |-> s, row |-> row])
    BY <1>2 DEF OpenSlot, Opened
  <2>4. /\ UNCHANGED <<state, raced, step>>
        /\ \A r \in Slot : r # s => opens'[r] = opens[r] /\ slots'[r] = slots[r]
        /\ slots'[s] = row
    BY <1>2, <1>a, <2>3 DEF OpenSlot
  <2> HIDE DEF row
  <2>5. LastEventIsCurrent' /\ UpToDate'
    BY <2>2, <2>3, <2>4, FeedGrows
  <2>6. Numbered'
    BY <2>2, <2>4 DEF WatchInv, Numbered
  <2>7. NotFoundWasClosed'
    <3> SUFFICES ASSUME step.do = "remove"
                 PROVE  LET r == SlotOf(step.act) IN
                          step.n <= opens'[r] /\ (slots'[r] # None => slots'[r].n > step.n)
      BY <2>4 DEF NotFoundWasClosed, SlotOf
    <3> DEFINE r == SlotOf(step.act)
    <3>1. r \in Slot /\ step.n <= opens[r] /\ (slots[r] # None => slots[r].n > step.n)
      BY <1>b DEF WatchInv, NotFoundWasClosed
    <3>2. step.n \in Nat /\ opens[r] \in Nat
      BY <1>a, <3>1, StepFields, KeeperAssumption
    <3> HIDE DEF r
    <3>3. r = s => step.n <= opens'[r] /\ slots'[r].n > step.n
      BY <2>1, <2>2, <2>4, <3>1, <3>2
    <3>4. r # s => step.n <= opens'[r] /\ (slots'[r] # None => slots'[r].n > step.n)
      BY <2>4, <3>1
    <3>5. step.n <= opens'[r] /\ (slots'[r] # None => slots'[r].n > step.n)
      BY <3>3, <3>4
    <3> QED
      BY <3>5 DEF r
  <2> QED
    BY <2>5, <2>6, <2>7 DEF WatchInv
<1>3. ASSUME NEW tx \in mempool, Include(tx) PROVE WatchInv'
  <2> DEFINE s == SlotOf(tx.act)
  <2>1. s \in Slot
    BY SlotOfType DEF KeeperTypeOK
  <2>2. None \in Row /\ Resolved(s) = [slot |-> s, row |-> None]
    BY DEF Row, Resolved
  <2>3. UNCHANGED <<state, raced, opens, step>>
    BY <1>3 DEF Include
  <2>4. \/ slots' = [slots EXCEPT ![s] = None] /\ feed' = Append(feed, Resolved(s))
        \/ UNCHANGED <<slots, feed>>
    BY <1>3 DEF Include
  <2> HIDE DEF s
  <2>5. CASE slots' = [slots EXCEPT ![s] = None] /\ feed' = Append(feed, Resolved(s))
    <3>1. LastEventIsCurrent' /\ UpToDate'
      BY <2>1, <2>2, <2>3, <2>5, FeedGrows
    <3>2. Numbered' /\ NotFoundWasClosed'
      BY <2>1, <2>3, <2>5, ClosingKeepsNumbers
    <3> QED
      BY <3>1, <3>2 DEF WatchInv
  <2>6. CASE UNCHANGED <<slots, feed>>
    BY <2>3, <2>6 DEF WatchInv, LastEventIsCurrent, UpToDate, Numbered, NotFoundWasClosed, SlotOf
  <2> QED
    BY <2>4, <2>5, <2>6
<1>4. ASSUME ApplyFeed PROVE WatchInv'
  <2>1. LastEventIsCurrent' /\ UpToDate'
    BY <1>4, FeedApplied
  <2>2. Numbered' /\ NotFoundWasClosed'
    BY <1>4 DEF ApplyFeed, externalVars, WatchInv, Numbered, NotFoundWasClosed, SlotOf
  <2> QED
    BY <2>1, <2>2 DEF WatchInv
<1>5. ASSUME RemoveStale PROVE WatchInv'
  <2> DEFINE s == SlotOf(step.act)
  <2>1. /\ s \in Slot /\ state' = [state EXCEPT ![s] = None]
        /\ raced \subseteq raced'
        /\ slots[s] # None /\ slots[s].n > step.n /\ state[s] = slots[s] => s \in raced'
    BY <1>5, <1>b DEF RemoveStale
  <2>2. slots[s] # None => slots[s].n > step.n
    BY <1>5 DEF RemoveStale, WatchInv, NotFoundWasClosed
  <2>3. UNCHANGED <<slots, feed, opens>> /\ step' = Idle
    BY <1>5 DEF RemoveStale, externalVars
  <2> HIDE DEF s
  <2>4. UpToDate'
    <3> SUFFICES ASSUME NEW r \in Slot, \A i \in 1 .. Len(feed') : feed'[i].slot # r
                 PROVE  slots'[r] = state'[r] \/ r \in raced'
      BY DEF UpToDate
    <3>1. slots[r] = state[r] \/ r \in raced
      BY <2>3 DEF WatchInv, UpToDate
    <3>2. CASE r = s
      BY <1>a, <2>1, <2>2, <2>3, <3>1, <3>2
    <3>3. CASE r # s
      BY <1>a, <2>1, <2>3, <3>1, <3>3
    <3> QED
      BY <3>2, <3>3
  <2>5. LastEventIsCurrent' /\ Numbered'
    BY <2>3 DEF WatchInv, LastEventIsCurrent, Numbered
  <2>6. NotFoundWasClosed'
    BY <2>3, StepFields DEF NotFoundWasClosed
  <2> QED
    BY <2>4, <2>5, <2>6 DEF WatchInv
<1>6. ASSUME NEW a \in Action, Simulate(a) PROVE WatchInv'
  <2> DEFINE s == SlotOf(a)
  <2>1. UNCHANGED <<slots, feed, opens, state, raced>>
    BY <1>6 DEF Simulate, externalVars
  <2>2. \/ step' \in {Idle, Send(a)}
        \/ step' = Remove(a) /\ Gate(a, slots[s]) = "not_found"
    BY <1>6 DEF Simulate
  <2>3. Gate(a, slots[s]) = "not_found" => slots[s] = None
    BY DEF Gate, Action
  <2>4. NotFoundWasClosed'
    <3>1. CASE step' \in {Idle, Send(a)}
      BY <3>1, StepFields DEF NotFoundWasClosed, Send
    <3>2. CASE step' = Remove(a) /\ slots[s] = None
      <4>1. step'.n = opens[s] /\ step'.act = a
        BY <3>2 DEF Remove
      <4>2. opens[s] \in Nat
        BY <1>a, SlotOfType
      <4> QED
        BY <2>1, <3>2, <4>1, <4>2 DEF NotFoundWasClosed, SlotOf
    <3> QED
      BY <2>2, <2>3, <3>1, <3>2
  <2> QED
    BY <2>1, <2>4 DEF WatchInv, LastEventIsCurrent, UpToDate, Numbered
<1>7. ASSUME UNCHANGED <<slots, feed, opens, state, raced>>, step' \in {step, Idle}
      PROVE  WatchInv'
  <2>1. NotFoundWasClosed'
    BY <1>7, StepFields DEF WatchInv, NotFoundWasClosed, SlotOf
  <2> QED
    BY <1>7, <2>1 DEF WatchInv, LastEventIsCurrent, UpToDate, Numbered
<1>8. ASSUME \/ \E p \in Prices : MarketMoves(p)
             \/ OracleFollows
             \/ \E tx \in mempool : Expire(tx)
             \/ PriceTick \/ Enqueue \/ ExecutorTick \/ SendAccepted \/ SendFails
             \/ PrepareFails \/ (\E a \in Action : SimulateFails(a)) \/ UNCHANGED vars
      PROVE  WatchInv'
  BY <1>7, <1>8 DEF MarketMoves, OracleFollows, Expire, PriceTick, Enqueue, ExecutorTick,
       SendAccepted, SendFails, PrepareFails, SimulateFails, vars, externalVars
<1> QED
  BY <1>1, <1>2, <1>3, <1>4, <1>5, <1>6, <1>8 DEF Next, External, Executor

(* The watch list's invariant holds in every state.                         *)
THEOREM WatchInvariant == Spec => []WatchInv
<1>1. Init => WatchInv
  BY DEF Init, WatchInv, LastEventIsCurrent, UpToDate, Numbered, NotFoundWasClosed, Idle
<1> QED
  BY <1>1, KeeperTypeCorrect, NextWatch, PTL DEF Spec

(* With nothing on its way, the keeper watches exactly what is open, except *)
(* a slot that was reopened between the simulation that did not find it and *)
(* RemoveStale: the one way an open trade leaves the watch list.            *)
THEOREM WatchListComplete == Spec => []WatchesWhatIsOpen
<1>1. WatchInv => WatchesWhatIsOpen
  BY DEF WatchInv, UpToDate, WatchesWhatIsOpen
<1> QED
  BY <1>1, WatchInvariant, PTL
=============================================================================
