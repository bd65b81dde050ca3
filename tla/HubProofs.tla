------------------------------ MODULE HubProofs -----------------------------
(* Proofs about the WebSocket hub, for any number of clients, traders and  *)
(* channels and for every channel capacity.                                *)
EXTENDS Hub, SequenceTheorems, TLAPS

-----------------------------------------------------------------------------
(* The types of the messages.                                              *)

(* The bounds and channel names the constants' assumptions give.           *)
LEMMA HubConstTypes ==
  /\ SendCap \in Nat /\ SendCap >= 1 /\ BroadcastCap \in Nat
  /\ MaxChanges \in Nat /\ MaxTicks \in Nat /\ MaxCommands \in Nat
  /\ Trader \subseteq Snapshots /\ Snapshots \subseteq Channel
  /\ AllTrades \in Channel /\ PricesCh \in Channel
  BY HubAssumption DEF Snapshots, Channel

(* A snapshot of bounded versions is a message.                            *)
LEMMA MessageType ==
  ASSUME NEW ch \in Channel, NEW v \in [Trader -> 0 .. MaxChanges]
  PROVE  Message(ch, v) \in AnyMessage
<1>1. Snapshot(ch, v) \in [Trader -> 0 .. MaxChanges]
  BY HubConstTypes DEF Snapshot
<1> QED BY <1>1 DEF Message, AnyMessage

(* So is a price.                                                          *)
LEMMA TickType == Tick \in AnyMessage
  BY HubConstTypes DEF Tick, AnyMessage

(* Adding to a queue with room and taking from a queue keep its bound.     *)
LEMMA QueueAppend ==
  ASSUME NEW q \in Seq(AnyMessage), NEW m \in AnyMessage
  PROVE  Append(q, m) \in Seq(AnyMessage) /\ Len(Append(q, m)) = Len(q) + 1
  BY AppendProperties

(* Reading and shortening a queue of messages.                              *)
LEMMA QueueTail ==
  ASSUME NEW q \in Seq(AnyMessage), q # <<>>
  PROVE  /\ Head(q) \in AnyMessage /\ Tail(q) \in Seq(AnyMessage)
         /\ Len(Tail(q)) = Len(q) - 1 /\ Len(q) \in Nat
  BY HeadTailProperties, LenProperties

-----------------------------------------------------------------------------
(* Type correctness.                                                       *)

(* The initial state is well typed.                                         *)
LEMMA HubTypeInit == Init => HubTypeOK
<1> SUFFICES ASSUME Init PROVE HubTypeOK OBVIOUS
<1>1. <<>> \in Seq(AnyMessage) /\ Len(<<>>) = 0
  BY EmptySeq
<1> QED BY <1>1, HubConstTypes, TickType DEF Init, HubTypeOK, Stage

(* The steps that do not touch a queue of a client.                        *)
LEMMA HubTypeRest ==
  ASSUME HubTypeOK,
         \/ NewHub \/ BroadcastPanics \/ Shutdown
         \/ \E c \in Client :
              \/ Unregister(c) \/ SubscribeAdd(c) \/ SubscribePanics(c)
              \/ ReadEnd(c) \/ PumpExit(c)
              \/ \E ch \in Channel :
                   Register(c, ch) \/ ReadSubscribe(c, ch) \/ ReadUnsubscribe(c, ch)
  PROVE  HubTypeOK'
<1> USE DEF HubTypeOK, Stage, ghostVars, clientVars, bounds
<1>1. CASE NewHub BY <1>1 DEF NewHub
<1>2. CASE BroadcastPanics BY <1>2 DEF BroadcastPanics
<1>3. CASE Shutdown BY <1>3 DEF Shutdown
<1>4. ASSUME NEW c \in Client, Unregister(c) PROVE HubTypeOK'
  BY <1>4 DEF Unregister
<1>5. ASSUME NEW c \in Client, SubscribeAdd(c) PROVE HubTypeOK'
  <2>1. seen' \in [Client -> SUBSET Channel] /\ skipped' \in [Client -> SUBSET Channel]
    BY <1>5 DEF SubscribeAdd
  <2>2. subs' \in [Channel -> SUBSET Client]
    BY <1>5 DEF SubscribeAdd
  <2>3. stage' \in [Client -> Stage] /\ pump' \in [Client -> {"off", "on", "done"}]
    BY <1>5 DEF SubscribeAdd, Subscribed, Initial
  <2> QED BY <1>5, <2>1, <2>2, <2>3 DEF SubscribeAdd
<1>6. ASSUME NEW c \in Client, SubscribePanics(c) \/ ReadEnd(c) \/ PumpExit(c)
      PROVE HubTypeOK'
  BY <1>6 DEF SubscribePanics, ReadEnd, PumpExit
<1>7. ASSUME NEW c \in Client, NEW ch \in Channel, Register(c, ch) PROVE HubTypeOK'
  BY <1>7 DEF Register
<1>8. ASSUME NEW c \in Client, NEW ch \in Channel, ReadSubscribe(c, ch)
      PROVE HubTypeOK'
  BY <1>8, HubConstTypes DEF ReadSubscribe
<1>9. ASSUME NEW c \in Client, NEW ch \in Channel, ReadUnsubscribe(c, ch)
      PROVE HubTypeOK'
  BY <1>9, HubConstTypes DEF ReadUnsubscribe
<1> QED BY <1>1, <1>2, <1>3, <1>4, <1>5, <1>6, <1>7, <1>8, <1>9

(* Every step keeps the types, and no queue grows past its capacity.       *)
LEMMA HubTypeNext == HubTypeOK /\ [Next]_vars => HubTypeOK'
<1> SUFFICES ASSUME HubTypeOK, [Next]_vars PROVE HubTypeOK' OBVIOUS
<1> USE DEF HubTypeOK, ghostVars, clientVars, bounds
<1>1. CASE Notify
  <2>1. /\ broadcast' \in Seq(AnyMessage) /\ Len(broadcast') <= BroadcastCap
        /\ notify' \in Seq(AnyMessage) /\ Len(notify') <= 2
    <3>1. /\ Head(notify) \in AnyMessage /\ Tail(notify) \in Seq(AnyMessage)
          /\ Len(Tail(notify)) = Len(notify) - 1 /\ Len(notify) \in Nat
      BY <1>1, QueueTail DEF Notify
    <3>2. /\ Append(broadcast, Head(notify)) \in Seq(AnyMessage)
          /\ Len(Append(broadcast, Head(notify))) = Len(broadcast) + 1
          /\ Len(broadcast) \in Nat
      BY <3>1, QueueAppend, LenProperties
    <3> QED BY <1>1, <3>1, <3>2, HubConstTypes DEF Notify
  <2> QED BY <1>1, <2>1 DEF Notify
<1>2. CASE PriceTick
  <2>1. /\ Append(broadcast, Tick) \in Seq(AnyMessage)
        /\ Len(Append(broadcast, Tick)) = Len(broadcast) + 1
        /\ Len(broadcast) \in Nat
    BY TickType, QueueAppend, LenProperties
  <2>2. broadcast' \in Seq(AnyMessage) /\ Len(broadcast') <= BroadcastCap
    BY <1>2, <2>1, HubConstTypes DEF PriceTick
  <2>3. ticks' \in 0 .. MaxTicks
    BY <1>2, HubConstTypes DEF PriceTick
  <2> QED BY <1>2, <2>2, <2>3 DEF PriceTick
<1>3. CASE Broadcast
  <2>1. /\ Head(broadcast) \in AnyMessage /\ Tail(broadcast) \in Seq(AnyMessage)
        /\ Len(Tail(broadcast)) <= BroadcastCap
    BY <1>3, QueueTail, HubConstTypes DEF Broadcast
  <2>2. \A c \in Client : /\ Append(send[c], Head(broadcast)) \in Seq(AnyMessage)
                          /\ Len(Append(send[c], Head(broadcast))) = Len(send[c]) + 1
                          /\ Len(send[c]) \in Nat
    BY <2>1, QueueAppend, LenProperties
  <2>3. send' \in [Client -> Seq(AnyMessage)]
    BY <1>3, <2>2 DEF Broadcast
  <2>4. \A c \in Client : Len(send'[c]) <= SendCap
    BY <1>3, <2>2, HubConstTypes DEF Broadcast, Full
  <2>5. Subscribers \subseteq Client
    BY <2>1 DEF Subscribers, AnyMessage
  <2>6. closed' \subseteq Client /\ clients' \subseteq Client /\ overflowed' \subseteq Client
    BY <1>3, <2>5 DEF Broadcast
  <2>7. broadcast' \in Seq(AnyMessage) /\ Len(broadcast') <= BroadcastCap
    BY <1>3, <2>1 DEF Broadcast
  <2> QED BY <1>3, <2>3, <2>4, <2>6, <2>7 DEF Broadcast
<1>4. ASSUME NEW t \in Trader, Change(t) PROVE HubTypeOK'
  <2>1. ver' \in [Trader -> 0 .. MaxChanges]
    BY <1>4, HubConstTypes DEF Change
  <2>2. Message(t, ver') \in AnyMessage /\ Message(AllTrades, ver') \in AnyMessage
    BY <2>1, MessageType, HubConstTypes
  <2>3. /\ <<>> \in Seq(AnyMessage) /\ Len(<<>>) = 0
        /\ <<Message(t, ver'), Message(AllTrades, ver')>> \in Seq(AnyMessage)
        /\ Len(<<Message(t, ver'), Message(AllTrades, ver')>>) = 2
    BY <2>2
  <2>4. notify' \in Seq(AnyMessage) /\ Len(notify') <= 2
    <3>1. CASE hub = "off"
      BY <3>1, <1>4, <2>3 DEF Change
    <3>2. CASE hub # "off"
      BY <3>2, <1>4, <2>3 DEF Change
    <3> QED BY <3>1, <3>2
  <2>5. seen' \in [Client -> SUBSET Channel] /\ skipped' \in [Client -> SUBSET Channel]
    BY <1>4 DEF Change
  <2> QED BY <1>4, <2>1, <2>4, <2>5 DEF Change
<1>5. ASSUME NEW c \in Client, SubscribeSnap(c) PROVE HubTypeOK'
  <2>1. Message(sub[c], ver) \in AnyMessage
    BY MessageType
  <2> QED BY <1>5, <2>1 DEF SubscribeSnap, Stage
<1>6. ASSUME NEW c \in Client, SubscribeSend(c) PROVE HubTypeOK'
  <2>1. /\ Append(send[c], snap[c]) \in Seq(AnyMessage)
        /\ Len(Append(send[c], snap[c])) = Len(send[c]) + 1
        /\ Len(send[c]) \in Nat
    BY QueueAppend, LenProperties
  <2>2. /\ send' \in [Client -> Seq(AnyMessage)]
        /\ \A d \in Client : Len(send'[d]) <= SendCap
    <3>1. CASE send' = send
      BY <3>1
    <3>2. CASE ~Full(c) /\ send' = [send EXCEPT ![c] = Append(@, snap[c])]
      BY <3>2, <2>1, HubConstTypes DEF Full
    <3> QED BY <1>6, <3>1, <3>2 DEF SubscribeSend
  <2>3. skipped' \in [Client -> SUBSET Channel]
    <3>1. CASE skipped' = skipped
      BY <3>1
    <3>2. CASE skipped' = [skipped EXCEPT ![c] = @ \cup {sub[c]}]
      BY <3>2
    <3> QED BY <1>6, <3>1, <3>2 DEF SubscribeSend
  <2>4. stage' \in [Client -> Stage] /\ pump' \in [Client -> {"off", "on", "done"}]
    BY <1>6 DEF SubscribeSend, Subscribed, Initial, Stage
  <2> QED BY <1>6, <2>2, <2>3, <2>4 DEF SubscribeSend
<1>7. ASSUME NEW c \in Client, Deliver(c) PROVE HubTypeOK'
  <2>1. /\ Head(send[c]) \in AnyMessage /\ Tail(send[c]) \in Seq(AnyMessage)
        /\ Len(Tail(send[c])) <= SendCap
    BY <1>7, QueueTail, HubConstTypes DEF Deliver
  <2>2. /\ send' \in [Client -> Seq(AnyMessage)]
        /\ \A d \in Client : Len(send'[d]) <= SendCap
    BY <1>7, <2>1 DEF Deliver
  <2>3. Head(send[c]).ch \in Channel
    BY <2>1 DEF AnyMessage
  <2>4. seen' \in [Client -> SUBSET Channel] /\ skipped' \in [Client -> SUBSET Channel]
    <3> DEFINE ch == Head(send[c]).ch
    <3> HIDE DEF ch
    <3>1. /\ ch \in Channel
          /\ seen' \in {seen, [seen EXCEPT ![c] = @ \cup {ch}]}
          /\ skipped' = skipped
      BY <1>7, <2>3 DEF Deliver, ch
    <3>2. /\ seen \in [Client -> SUBSET Channel] /\ skipped \in [Client -> SUBSET Channel]
          /\ [seen EXCEPT ![c] = @ \cup {ch}] \in [Client -> SUBSET Channel]
      BY <3>1
    <3> QED BY <3>1, <3>2
  <2> QED BY <1>7, <2>2, <2>4 DEF Deliver
<1>8. CASE UNCHANGED vars
  BY <1>8 DEF vars
<1> QED BY <1>1, <1>2, <1>3, <1>4, <1>5, <1>6, <1>7, <1>8, HubTypeRest DEF Next

(* The hub, the pumps and their queues keep their types: no channel holds  *)
(* more than its capacity, whoever sends on it.                            *)
THEOREM HubTypeCorrect == Spec => []HubTypeOK
  BY HubTypeInit, HubTypeNext, PTL DEF Spec

-----------------------------------------------------------------------------
(* Why the hub does not die.                                               *)

HubInv == OnlyOverflowPanics /\ ClosedIsForgotten

(* The empty hub satisfies the invariant.                                  *)
LEMMA HubInitInv == Init => HubInv
  BY DEF Init, HubInv, OnlyOverflowPanics, ClosedIsForgotten

(* A step of a handler goroutine's Subscribe or ReadPump: it concerns one  *)
(* client whose handler is still there, hence one whose channel is open.   *)
LEMMA HandlerKeepsInv ==
  ASSUME HubTypeOK, HubInv, NEW c \in Client,
         \/ SubscribeAdd(c) \/ SubscribeSnap(c) \/ SubscribeSend(c) \/ SubscribePanics(c)
         \/ ReadEnd(c)
         \/ \E ch \in Channel :
              Register(c, ch) \/ ReadSubscribe(c, ch) \/ ReadUnsubscribe(c, ch)
  PROVE  HubInv'
<1>0. /\ closed \subseteq Client /\ stage \in [Client -> Stage]
      /\ subs \in [Channel -> SUBSET Client] /\ sub \in [Client -> Channel]
  BY DEF HubTypeOK
<1> USE <1>0 DEF HubInv, OnlyOverflowPanics, ClosedIsForgotten, Stage
<1>1. CASE SubscribeAdd(c)
  BY <1>1 DEF SubscribeAdd, Subscribed, Alive
<1>2. CASE SubscribeSnap(c)
  BY <1>2 DEF SubscribeSnap, Alive, ghostVars
<1>3. CASE SubscribeSend(c)
  BY <1>3 DEF SubscribeSend, Subscribed, Alive, ghostVars
<1>4. CASE SubscribePanics(c)
  BY <1>4 DEF SubscribePanics, Alive, ghostVars
<1>5. CASE ReadEnd(c)
  BY <1>5 DEF ReadEnd, Alive, ghostVars
<1>6. ASSUME NEW ch \in Channel, Register(c, ch) PROVE HubInv'
  BY <1>6 DEF Register, ghostVars
<1>7. ASSUME NEW ch \in Channel, ReadSubscribe(c, ch) PROVE HubInv'
  BY <1>7 DEF ReadSubscribe, Alive, ghostVars
<1>8. ASSUME NEW ch \in Channel, ReadUnsubscribe(c, ch) PROVE HubInv'
  BY <1>8 DEF ReadUnsubscribe, Alive, ghostVars, clientVars
<1> QED BY <1>1, <1>2, <1>3, <1>4, <1>5, <1>6, <1>7, <1>8

(* Every step preserves the invariant.  Run is the only one that closes a  *)
(* channel: for an overflow, which the ghost records, for a client it      *)
(* unregisters and purges, or for everyone when it stops.                  *)
LEMMA HubNextInv == HubTypeOK /\ HubInv /\ [Next]_vars => HubInv'
<1> SUFFICES ASSUME HubTypeOK, HubInv, [Next]_vars PROVE HubInv' OBVIOUS
<1>0. /\ closed \subseteq Client /\ stage \in [Client -> Stage]
      /\ subs \in [Channel -> SUBSET Client]
  BY DEF HubTypeOK
<1> USE <1>0 DEF HubInv, OnlyOverflowPanics, ClosedIsForgotten, Stage
<1>1. CASE NewHub
  BY <1>1 DEF NewHub, ghostVars, clientVars
<1>2. CASE Notify
  BY <1>2 DEF Notify, ghostVars, clientVars
<1>3. CASE PriceTick
  BY <1>3 DEF PriceTick, ghostVars, clientVars
<1>4. CASE Broadcast
  BY <1>4 DEF Broadcast, clientVars
<1>5. CASE BroadcastPanics
  <2>1. Head(broadcast).ch \in Channel
    BY <1>5, QueueTail DEF BroadcastPanics, HubTypeOK, AnyMessage
  <2>2. overflowed # {}
    BY <1>5, <2>1 DEF BroadcastPanics, Subscribers
  <2> QED BY <1>5, <2>2 DEF BroadcastPanics, ghostVars, clientVars
<1>6. CASE Shutdown
  BY <1>6 DEF Shutdown, ghostVars, clientVars
<1>7. ASSUME NEW t \in Trader, Change(t) PROVE HubInv'
  BY <1>7 DEF Change, clientVars
<1>8. ASSUME NEW c \in Client, Unregister(c) PROVE HubInv'
  BY <1>8 DEF Unregister, ghostVars
<1>9. ASSUME NEW c \in Client, Deliver(c) \/ PumpExit(c) PROVE HubInv'
  BY <1>9 DEF Deliver, PumpExit, Alive, ghostVars, clientVars
<1>10. CASE UNCHANGED vars
  BY <1>10 DEF vars, ghostVars, clientVars
<1> QED
  BY <1>1, <1>2, <1>3, <1>4, <1>5, <1>6, <1>7, <1>8, <1>9, <1>10, HandlerKeepsInv
  DEF Next

(* Hub.Run dies of a send on a closed channel only after it has dropped a  *)
(* subscriber whose channel was full, for every capacity, every number of  *)
(* clients and every interleaving of handlers, pumps, cache and feed.      *)
THEOREM PanicNeedsOverflow == Spec => []OnlyOverflowPanics
<1>1. HubInv => OnlyOverflowPanics BY DEF HubInv
<1> QED BY HubTypeCorrect, HubInitInv, HubNextInv, <1>1, PTL DEF Spec

(* As long as no subscriber was dropped, a closed channel belongs to a     *)
(* client Run has forgotten completely.                                    *)
THEOREM ClosedClientsForgotten == Spec => []ClosedIsForgotten
<1>1. HubInv => ClosedIsForgotten BY DEF HubInv
<1> QED BY HubTypeCorrect, HubInitInv, HubNextInv, <1>1, PTL DEF Spec

-----------------------------------------------------------------------------
(* Why a subscriber is sent the current state.                             *)

Queued(q, m) == \E i \in 1 .. Len(q) : q[i] = m

(* The current state of a channel has reached the client, or it is on its  *)
(* way: with onChange, with Run, in the client's channel, or with the      *)
(* Subscribe that is still to take it or to send it.                       *)
OnItsWay(c, ch) ==
  \/ ch \in seen[c] \cup skipped[c]
  \/ Queued(notify, Message(ch, ver)) \/ Queued(broadcast, Message(ch, ver))
  \/ Queued(send[c], Message(ch, ver))
  \/ stage[c] = "snapping" /\ sub[c] = ch
  \/ stage[c] = "sending" /\ sub[c] = ch /\ snap[c] = Message(ch, ver)

SentInv ==
  /\ hub = "off" => \A ch \in Channel : subs[ch] = {}
  /\ hub = "running" => \A ch \in Snapshots : \A c \in subs[ch] \ closed : OnItsWay(c, ch)

(* What is queued stays queued behind a new message ...                    *)
LEMMA QueuedAppend ==
  ASSUME NEW q \in Seq(AnyMessage), NEW x \in AnyMessage
  PROVE  /\ Queued(Append(q, x), x)
         /\ \A m : Queued(q, m) => Queued(Append(q, x), m)
<1>1. /\ Len(Append(q, x)) = Len(q) + 1 /\ Len(q) \in Nat
      /\ Append(q, x)[Len(q) + 1] = x
      /\ \A i \in 1 .. Len(q) : Append(q, x)[i] = q[i]
  BY AppendProperties, LenProperties
<1> QED BY <1>1 DEF Queued

(* ... and until it is the first.                                          *)
LEMMA QueuedTail ==
  ASSUME NEW q \in Seq(AnyMessage), q # <<>>, NEW m, Queued(q, m)
  PROVE  m = Head(q) \/ Queued(Tail(q), m)
<1>1. /\ Head(q) = q[1] /\ Len(q) \in Nat /\ Len(Tail(q)) = Len(q) - 1
      /\ \A i \in 1 .. Len(q) - 1 : Tail(q)[i] = q[i + 1]
  BY HeadTailProperties, LenProperties
<1>2. PICK i \in 1 .. Len(q) : q[i] = m
  BY DEF Queued
<1>3. CASE i = 1
  BY <1>1, <1>2, <1>3
<1>4. CASE i # 1
  <2>1. i - 1 \in 1 .. Len(Tail(q)) /\ Tail(q)[i - 1] = m
    BY <1>1, <1>2, <1>4
  <2> QED BY <2>1 DEF Queued
<1> QED BY <1>3, <1>4

(* Nothing is queued in an empty channel.                                   *)
LEMMA QueuedEmpty == \A m : ~Queued(<<>>, m)
  BY EmptySeq DEF Queued

(* A change concerns the snapshots of its trader and of all of them.       *)
LEMMA OtherSnapshots ==
  ASSUME NEW t \in Trader, NEW ch \in Snapshots, ch # t, ch # AllTrades, HubTypeOK,
         ver' = [ver EXCEPT ![t] = @ + 1]
  PROVE  Message(ch, ver)' = Message(ch, ver)
<1>1. \A u \in Trader : ch \in {u, AllTrades} => ver'[u] = ver[u]
  BY DEF HubTypeOK
<1>2. Snapshot(ch, ver') = Snapshot(ch, ver)
  BY <1>1 DEF Snapshot
<1> QED BY <1>2 DEF Message

(* Steps that leave the queues and the client's Subscribe alone.           *)
LEMMA StillOnItsWay ==
  ASSUME NEW c, NEW ch, OnItsWay(c, ch), UNCHANGED <<ver, notify, broadcast>>,
         send'[c] = send[c], snap'[c] = snap[c],
         ch \in seen[c] \cup skipped[c] => ch \in seen'[c] \cup skipped'[c],
         stage[c] \in {"snapping", "sending"} => stage'[c] = stage[c] /\ sub'[c] = sub[c]
  PROVE  OnItsWay(c, ch)'
<1>1. Message(ch, ver)' = Message(ch, ver)
  OBVIOUS
<1> HIDE DEF Message
<1> QED BY <1>1 DEF OnItsWay

(* Nothing is owed to a subscriber initially.                               *)
LEMMA SentInit == Init => SentInv
  BY DEF Init, SentInv

(* The handlers' steps.                                                    *)
LEMMA HandlerSends ==
  ASSUME HubTypeOK, SentInv, NEW d \in Client,
         \/ Unregister(d) \/ SubscribeAdd(d) \/ SubscribeSnap(d) \/ SubscribeSend(d)
         \/ SubscribePanics(d) \/ ReadEnd(d) \/ Deliver(d) \/ PumpExit(d)
         \/ \E ch \in Channel :
              Register(d, ch) \/ ReadSubscribe(d, ch) \/ ReadUnsubscribe(d, ch),
         hub = "running", NEW ch \in Snapshots, NEW c \in subs'[ch] \ closed'
  PROVE  OnItsWay(c, ch)'
<1>1. /\ subs \in [Channel -> SUBSET Client] /\ ch \in Channel /\ closed \subseteq Client
      /\ stage \in [Client -> Stage] /\ sub \in [Client -> Channel]
      /\ snap \in [Client -> AnyMessage] /\ send \in [Client -> Seq(AnyMessage)]
      /\ seen \in [Client -> SUBSET Channel] /\ skipped \in [Client -> SUBSET Channel]
  BY HubConstTypes DEF HubTypeOK
<1>2. \A e \in subs[ch] \ closed : OnItsWay(e, ch) /\ e \in Client
  BY <1>1 DEF SentInv
<1> USE DEF clientVars, ghostVars, bounds
<1>3. CASE \/ SubscribePanics(d) \/ ReadEnd(d) \/ PumpExit(d)
           \/ \E x \in Channel : Register(d, x) \/ ReadSubscribe(d, x) \/ ReadUnsubscribe(d, x)
  <2>1. c \in subs[ch] \ closed
    BY <1>1, <1>3 DEF SubscribePanics, ReadEnd, PumpExit, Register, ReadSubscribe, ReadUnsubscribe
  <2>2. stage[c] \in {"snapping", "sending"} => stage'[c] = stage[c] /\ sub'[c] = sub[c]
    BY <1>1, <1>2, <1>3, <2>1
    DEF SubscribePanics, ReadEnd, PumpExit, Register, ReadSubscribe, ReadUnsubscribe
  <2>3. UNCHANGED <<ver, notify, broadcast, send, snap, seen, skipped>>
    BY <1>3 DEF SubscribePanics, ReadEnd, PumpExit, Register, ReadSubscribe, ReadUnsubscribe
  <2> QED BY <1>2, <2>1, <2>2, <2>3, StillOnItsWay
<1>4. CASE Unregister(d)
  <2>1. c \in subs[ch] \ closed
    BY <1>1, <1>4 DEF Unregister
  <2>2. stage[c] \in {"snapping", "sending"} => stage'[c] = stage[c] /\ sub'[c] = sub[c]
    BY <1>1, <1>2, <1>4, <2>1 DEF Unregister
  <2>3. UNCHANGED <<ver, notify, broadcast, send, snap, seen, skipped>>
    BY <1>4 DEF Unregister
  <2> QED BY <1>2, <2>1, <2>2, <2>3, StillOnItsWay
<1>5. CASE SubscribeAdd(d)
  <2>1. CASE c = d /\ ch = sub[d]
    BY <1>1, <1>5, <2>1 DEF SubscribeAdd, OnItsWay
  <2>2. CASE ~(c = d /\ ch = sub[d])
    <3>1. c \in subs[ch] \ closed /\ c \in Client
      BY <1>1, <1>2, <1>5, <2>2 DEF SubscribeAdd
    <3>2. ch \in seen[c] \cup skipped[c] => ch \in seen'[c] \cup skipped'[c]
      BY <1>1, <1>5, <2>2, <3>1 DEF SubscribeAdd
    <3>3. stage[c] \in {"snapping", "sending"} => stage'[c] = stage[c] /\ sub'[c] = sub[c]
      BY <1>1, <1>5, <3>1 DEF SubscribeAdd, Subscribed
    <3>4. UNCHANGED <<ver, notify, broadcast, send, snap>>
      BY <1>5 DEF SubscribeAdd
    <3> QED BY <1>2, <3>1, <3>2, <3>3, <3>4, StillOnItsWay
  <2> QED BY <2>1, <2>2
<1>6. CASE SubscribeSnap(d)
  <2>0. c \in subs[ch] \ closed /\ c \in Client
    BY <1>1, <1>2, <1>6 DEF SubscribeSnap
  <2>1. CASE c = d /\ ch = sub[d]
    <3>1. /\ stage'[c] = "sending" /\ sub'[c] = ch /\ snap'[c] = Message(ch, ver) /\ ver' = ver
      BY <1>1, <1>6, <2>1 DEF SubscribeSnap
    <3> QED BY <3>1 DEF OnItsWay, Message
  <2>2. CASE c = d /\ ch # sub[d]
    <3>1. UNCHANGED <<ver, notify, broadcast, send, seen, skipped>> /\ stage[c] = "snapping"
      BY <1>6, <2>2 DEF SubscribeSnap
    <3>2. Message(ch, ver)' = Message(ch, ver)
      BY <3>1 DEF Message
    <3> QED BY <1>2, <2>0, <2>2, <3>1, <3>2 DEF OnItsWay
  <2>3. CASE c # d
    <3>1. /\ UNCHANGED <<ver, notify, broadcast, send, seen, skipped>> /\ snap'[c] = snap[c]
          /\ stage'[c] = stage[c] /\ sub'[c] = sub[c]
      BY <1>1, <1>6, <2>0, <2>3 DEF SubscribeSnap
    <3> QED BY <1>2, <2>0, <3>1, StillOnItsWay
  <2> QED BY <2>1, <2>2, <2>3
<1>7. CASE SubscribeSend(d)
  <2>0. /\ c \in subs[ch] \ closed /\ c \in Client
        /\ UNCHANGED <<ver, notify, broadcast, snap, sub, seen>> /\ stage[d] = "sending"
    BY <1>1, <1>2, <1>7 DEF SubscribeSend
  <2>1. Message(ch, ver)' = Message(ch, ver)
    BY <2>0 DEF Message
  <2>2. CASE c = d
    <3>1. CASE send' = [send EXCEPT ![c] = Append(@, snap[c])] /\ skipped' = skipped
      <4>1. send'[c] = Append(send[c], snap[c]) /\ send[c] \in Seq(AnyMessage) /\ snap[c] \in AnyMessage
        BY <1>1, <2>0, <3>1
      <4>2. /\ Queued(send'[c], snap[c])
            /\ Queued(send[c], Message(ch, ver)) => Queued(send'[c], Message(ch, ver))
        BY <4>1, QueuedAppend
      <4> QED BY <1>2, <2>0, <2>1, <2>2, <3>1, <4>2 DEF OnItsWay
    <3>2. CASE skipped' = [skipped EXCEPT ![c] = @ \cup {sub[c]}] /\ send' = send
      <4>1. skipped'[c] = skipped[c] \cup {sub[c]}
        BY <1>1, <2>0, <3>2
      <4> QED BY <1>2, <2>0, <2>1, <2>2, <3>2, <4>1 DEF OnItsWay
    <3> QED BY <1>7, <2>2, <3>1, <3>2 DEF SubscribeSend
  <2>3. CASE c # d
    <3>1. /\ send'[c] = send[c] /\ skipped'[c] = skipped[c] /\ stage'[c] = stage[c]
      BY <1>1, <1>7, <2>0, <2>3 DEF SubscribeSend, Subscribed
    <3> QED BY <1>2, <2>0, <3>1, StillOnItsWay
  <2> QED BY <2>2, <2>3
<1>8. CASE Deliver(d)
  <2>0. /\ c \in subs[ch] \ closed /\ c \in Client
        /\ UNCHANGED <<ver, notify, broadcast, snap, sub, stage, skipped>>
    BY <1>1, <1>2, <1>8 DEF Deliver
  <2>1. Message(ch, ver)' = Message(ch, ver)
    BY <2>0 DEF Message
  <2>2. ch \in seen[c] \cup skipped[c] => ch \in seen'[c] \cup skipped'[c]
    BY <1>1, <1>8, <2>0 DEF Deliver
  <2>3. Queued(send[c], Message(ch, ver)) => Queued(send'[c], Message(ch, ver)) \/ ch \in seen'[c]
    <3>1. CASE c # d
      BY <1>1, <1>8, <2>0, <3>1 DEF Deliver
    <3>2. CASE c = d
      <4> SUFFICES ASSUME Queued(send[c], Message(ch, ver))
                   PROVE  Queued(send'[c], Message(ch, ver)) \/ ch \in seen'[c]
        OBVIOUS
      <4>1. send'[c] = Tail(send[c]) /\ send[c] \in Seq(AnyMessage) /\ send[c] # <<>>
        BY <1>1, <1>8, <2>0, <3>2 DEF Deliver
      <4>2. CASE Message(ch, ver) = Head(send[c])
        <5>1. IsCurrent(Head(send[c])) /\ Head(send[c]).ch = ch
          BY <4>2 DEF IsCurrent, Message
        <5> QED BY <1>1, <1>8, <2>0, <3>2, <5>1 DEF Deliver
      <4> QED BY <4>1, <4>2, QueuedTail
    <3> QED BY <3>1, <3>2
  <2> QED BY <1>2, <2>0, <2>1, <2>2, <2>3 DEF OnItsWay
<1> QED BY <1>3, <1>4, <1>5, <1>6, <1>7, <1>8

(* The cache's, the feed's and the hub's.                                  *)
LEMMA ChangeIsSent ==
  ASSUME HubTypeOK, SentInv, hub = "running", NEW t \in Trader, Change(t),
         NEW ch \in Snapshots, NEW c \in subs'[ch] \ closed'
  PROVE  OnItsWay(c, ch)'
<1>1. /\ UNCHANGED <<broadcast, send, snap, sub, stage, subs, closed>>
      /\ notify = <<>> /\ ver' = [ver EXCEPT ![t] = @ + 1]
      /\ notify' = <<Message(t, ver'), Message(AllTrades, ver')>>
  BY DEF Change, clientVars
<1>2. OnItsWay(c, ch) /\ c \in Client
  <2>1. ch \in Channel
    BY HubConstTypes
  <2> QED BY <1>1, <2>1 DEF SentInv, HubTypeOK
<1>3. CASE ch \in {t, AllTrades}
  <2>1. Queued(notify', Message(ch, ver'))
    <3>1. PICK a, b : a = Message(t, ver') /\ b = Message(AllTrades, ver')
      OBVIOUS
    <3>2. Len(notify') = 2 /\ notify'[1] = a /\ notify'[2] = b
      BY <1>1, <3>1
    <3> QED BY <1>3, <3>1, <3>2 DEF Queued
  <2> QED BY <2>1 DEF OnItsWay, Message
<1>4. CASE ch \notin {t, AllTrades}
  <2>1. Message(ch, ver)' = Message(ch, ver)
    BY <1>1, <1>4, OtherSnapshots
  <2>2. ~Queued(notify, Message(ch, ver))
    BY <1>1, QueuedEmpty
  <2>3. ch \in seen[c] \cup skipped[c] => ch \in seen'[c] \cup skipped'[c]
    BY <1>2, <1>4 DEF Change
  <2> QED BY <1>1, <1>2, <2>1, <2>2, <2>3 DEF OnItsWay
<1> QED BY <1>3, <1>4

(* While the hub runs, a message leaves a queue only for the next one.      *)
LEMMA RunSends ==
  ASSUME HubTypeOK, SentInv, hub = "running", Notify \/ PriceTick \/ Broadcast,
         NEW ch \in Snapshots, NEW c \in subs'[ch] \ closed'
  PROVE  OnItsWay(c, ch)'
<1>1. /\ UNCHANGED <<snap, sub, stage, subs, ver, seen, skipped>> /\ closed \subseteq closed'
  BY DEF Notify, PriceTick, Broadcast, clientVars, ghostVars
<1>2. /\ OnItsWay(c, ch) /\ c \in Client /\ c \in subs[ch]
      /\ broadcast \in Seq(AnyMessage) /\ notify \in Seq(AnyMessage) /\ send \in [Client -> Seq(AnyMessage)]
  <2>1. ch \in Channel
    BY HubConstTypes
  <2> QED BY <1>1, <2>1 DEF SentInv, HubTypeOK
<1>3. PICK m : m = Message(ch, ver) /\ m = Message(ch, ver)' /\ m.ch = ch
  <2>1. Message(ch, ver)' = Message(ch, ver) /\ Message(ch, ver).ch = ch
    BY <1>1 DEF Message
  <2> QED BY <2>1
<1>4. CASE Notify
  <2>1. /\ notify # <<>> /\ notify' = Tail(notify) /\ broadcast' = Append(broadcast, Head(notify))
        /\ send' = send
    BY <1>4 DEF Notify
  <2>2. Head(notify) \in AnyMessage
    BY <1>2, <2>1, QueueTail
  <2>3. Queued(broadcast, m) => Queued(broadcast', m)
    BY <1>2, <2>1, <2>2, QueuedAppend
  <2>4. Queued(notify, m) => Queued(notify', m) \/ Queued(broadcast', m)
    BY <1>2, <2>1, <2>2, QueuedAppend, QueuedTail
  <2> QED BY <1>1, <1>2, <1>3, <2>1, <2>3, <2>4 DEF OnItsWay
<1>5. CASE PriceTick
  <2>1. UNCHANGED <<notify, send>> /\ broadcast' \in {broadcast, Append(broadcast, Tick)}
    BY <1>5 DEF PriceTick
  <2>2. Queued(broadcast, m) => Queued(broadcast', m)
    BY <1>2, <2>1, TickType, QueuedAppend
  <2> QED BY <1>1, <1>2, <1>3, <2>1, <2>2 DEF OnItsWay
<1>6. CASE Broadcast
  <2>1. broadcast # <<>> /\ broadcast' = Tail(broadcast) /\ notify' = notify
    BY <1>6 DEF Broadcast
  <2>2. Head(broadcast) \in AnyMessage
    BY <1>2, <2>1, QueueTail
  <2>3. send'[c] = IF c \in Subscribers THEN Append(send[c], Head(broadcast)) ELSE send[c]
    BY <1>2, <1>6 DEF Broadcast
  <2>4. send[c] \in Seq(AnyMessage)
    BY <1>2
  <2>5. Queued(send[c], m) => Queued(send'[c], m)
    BY <2>2, <2>3, <2>4, QueuedAppend
  <2>6. m = Head(broadcast) => Queued(send'[c], m)
    BY <1>2, <1>3, <2>2, <2>3, <2>4, QueuedAppend DEF Subscribers
  <2>7. Queued(broadcast, m) => Queued(broadcast', m) \/ Queued(send'[c], m)
    BY <1>2, <2>1, <2>6, QueuedTail
  <2> QED BY <1>1, <1>2, <1>3, <2>1, <2>5, <2>7 DEF OnItsWay
<1> QED BY <1>4, <1>5, <1>6

(* Every step keeps what a subscriber is owed on its way.                   *)
LEMMA SentStep == HubTypeOK /\ SentInv /\ [Next]_vars => SentInv'
<1> SUFFICES ASSUME HubTypeOK, SentInv, [Next]_vars PROVE SentInv' OBVIOUS
<1> USE DEF clientVars, ghostVars, bounds
<1>1. CASE UNCHANGED vars
  BY <1>1 DEF vars, SentInv, OnItsWay, Message, Snapshot
<1>2. CASE Next
  <2>1. hub' = "off" => hub = "off" /\ subs' = subs
    BY <1>2 DEF Next, NewHub, Notify, PriceTick, Broadcast, BroadcastPanics, Shutdown, Change,
                Unregister, SubscribeAdd, SubscribeSnap, SubscribeSend, SubscribePanics, ReadEnd,
                Deliver, PumpExit, Register, ReadSubscribe, ReadUnsubscribe, Alive
  <2>2. ASSUME hub' = "running", NEW ch \in Snapshots, NEW c \in subs'[ch] \ closed'
        PROVE  OnItsWay(c, ch)'
    <3>1. hub = "running"
      <4>1. ~NewHub
        <5>1. ch \in Channel
          BY HubConstTypes
        <5> QED BY <2>2, <5>1 DEF NewHub, SentInv
      <4> QED BY <1>2, <2>2, <4>1
              DEF Next, Notify, PriceTick, Broadcast, BroadcastPanics, Shutdown, Change,
                  Unregister, SubscribeAdd, SubscribeSnap, SubscribeSend, SubscribePanics, ReadEnd,
                  Deliver, PumpExit, Register, ReadSubscribe, ReadUnsubscribe, Alive
    <3>2. ~NewHub /\ ~BroadcastPanics /\ ~Shutdown
      BY <2>2, <3>1 DEF NewHub, BroadcastPanics, Shutdown
    <3> QED BY <1>2, <2>2, <3>1, <3>2, HandlerSends, ChangeIsSent, RunSends DEF Next
  <2> QED BY <2>1, <2>2 DEF SentInv
<1> QED BY <1>1, <1>2

(* With the queues drained, what was on its way was sent or skipped.        *)
LEMMA SentImplies == HubTypeOK /\ SentInv => CurrentStateIsSent
<1> SUFFICES ASSUME SentInv, NEW c \in Client, NEW ch \in Snapshots, Settled(c, ch)
             PROVE  ch \in seen[c] \cup skipped[c]
  BY DEF CurrentStateIsSent
<1>1. OnItsWay(c, ch)
  BY DEF SentInv, Settled
<1> QED BY <1>1, QueuedEmpty DEF OnItsWay, Settled

(* Once nothing is on its way, a connected subscriber has been sent the    *)
(* current state of a channel, or its channel was full when a snapshot or  *)
(* broadcast of it came (skipped, hub.go:126; nothing is sent again before *)
(* the next change), for any number of clients, traders and changes, every *)
(* capacity and every interleaving of Subscribe with the broadcasts.       *)
THEOREM SubscribersAreSent == Spec => []CurrentStateIsSent
  BY HubTypeCorrect, SentInit, SentStep, SentImplies, PTL DEF Spec
=============================================================================
