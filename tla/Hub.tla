--------------------------------- MODULE Hub --------------------------------
(***************************************************************************)
(* internal/wsgateway: the hub goroutine, the pumps of every WebSocket     *)
(* client, the cache goroutine that announces changes and the price feed,  *)
(* interleaved at their channel operations and mutex sections.             *)
(*                                                                         *)
(* The content of the cache is a version per trader; Consumer models how   *)
(* events change it.                                                       *)
(***************************************************************************)
EXTENDS Integers, Sequences, FiniteSets

CONSTANTS
  Client,       \* connections
  Trader,
  SendCap,      \* capacity of client.send (256 in the code)
  BroadcastCap, \* capacity of hub.broadcast (256 in the code)
  MaxChanges,   \* bound on changes of one trader's state
  MaxTicks,     \* bound on price messages
  MaxCommands   \* bound on commands read by all the ReadPumps together

AllTrades == "trades:all"
PricesCh  == "prices"
Snapshots == Trader \cup {AllTrades}   \* channels that carry snapshots
Channel   == Snapshots \cup {PricesCh}

ASSUME HubAssumption ==
  /\ SendCap \in Nat \ {0} /\ BroadcastCap \in Nat \ {0}
  /\ MaxChanges \in Nat /\ MaxTicks \in Nat /\ MaxCommands \in Nat
  /\ AllTrades \notin Trader /\ PricesCh \notin Trader

VARIABLES
  hub,        \* Hub.Run: "off" before NewHub, "running", "panicked", "stopped"
  clients,    \* h.clients
  subs,       \* h.subscriptions
  broadcast,  \* the h.broadcast channel
  send,       \* the client.send channels ...
  closed,     \* ... and the clients whose channel is closed
  stage,      \* what the client's handler goroutine is doing
  sub,        \* the channel it is subscribing to ...
  snap,       \* ... and the snapshot it is about to send
  pump,       \* the client's WritePump: "off", "on", "done"
  ver,        \* cache content: a version per trader
  notify,     \* messages onChange still has to send
  ticks,      \* price messages ...
  commands,   \* ... and commands so far (bounds)
  overflowed, \* ghost: clients dropped because their channel was full
  seen,       \* ghost: channels whose current snapshot the client received
  skipped     \* ghost: channels whose snapshot was dropped for want of room,
              \*        until the next change

clientVars == <<stage, sub, snap, pump>>
ghostVars  == <<overflowed, seen, skipped>>
bounds     == <<ticks, commands>>
vars == <<hub, clients, subs, broadcast, send, closed, clientVars, ver, notify,
          bounds, ghostVars>>

-----------------------------------------------------------------------------
(* GetSnapshot and GetAllSnapshot: the versions a channel's snapshot shows. *)
Snapshot(ch, v) == [t \in Trader |-> IF ch \in {t, AllTrades} THEN v[t] ELSE 0]

Message(ch, v) == [ch |-> ch, body |-> Snapshot(ch, v)]
Tick == [ch |-> PricesCh, body |-> [t \in Trader |-> 0]]

IsCurrent(m) == m.body = Snapshot(m.ch, ver)

Alive == hub \in {"running", "stopped"}   \* the process; a panic in Run kills it
Full(c) == Len(send[c]) >= SendCap

Init ==
  /\ hub = "off" /\ clients = {} /\ subs = [ch \in Channel |-> {}]
  /\ broadcast = <<>>
  /\ send = [c \in Client |-> <<>>] /\ closed = {}
  /\ stage = [c \in Client |-> "new"] /\ sub = [c \in Client |-> AllTrades]
  /\ snap = [c \in Client |-> Tick] /\ pump = [c \in Client |-> "off"]
  /\ ver = [t \in Trader |-> 0] /\ notify = <<>> /\ ticks = 0 /\ commands = 0
  /\ overflowed = {} /\ seen = [c \in Client |-> {}] /\ skipped = [c \in Client |-> {}]

-----------------------------------------------------------------------------
(* The cache goroutine, the price feed.                                     *)

(* main starts the cache goroutine before it creates the hub.               *)
NewHub ==
  /\ hub = "off"
  /\ hub' = "running"
  /\ UNCHANGED <<clients, subs, broadcast, send, closed, clientVars, ver, notify,
                 bounds, ghostVars>>

(* applyEvent changes the trader's state and calls onChange, if it is set.  *)
(* The same goroutine takes both snapshots, so nothing changes in between.  *)
Change(t) ==
  /\ hub \in {"off", "running"}
  /\ notify = <<>>
  /\ ver[t] < MaxChanges
  /\ ver' = [ver EXCEPT ![t] = @ + 1]
  /\ notify' = IF hub = "off" THEN <<>>
               ELSE <<Message(t, ver'), Message(AllTrades, ver')>>
  /\ seen' = [c \in Client |-> seen[c] \ {t, AllTrades}]
  /\ skipped' = [c \in Client |-> skipped[c] \ {t, AllTrades}]
  /\ UNCHANGED <<hub, clients, subs, broadcast, send, closed, clientVars, bounds,
                 overflowed>>

(* onChange's blocking sends.                                               *)
Notify ==
  /\ hub = "running"
  /\ notify # <<>>
  /\ Len(broadcast) < BroadcastCap
  /\ broadcast' = Append(broadcast, Head(notify))
  /\ notify' = Tail(notify)
  /\ UNCHANGED <<hub, clients, subs, send, closed, clientVars, ver, bounds, ghostVars>>

(* PriceFeed.handleMessage: a price that finds the channel full is dropped. *)
PriceTick ==
  /\ hub = "running"
  /\ ticks < MaxTicks
  /\ ticks' = ticks + 1
  /\ broadcast' = IF Len(broadcast) < BroadcastCap THEN Append(broadcast, Tick)
                  ELSE broadcast
  /\ UNCHANGED <<hub, clients, subs, send, closed, clientVars, ver, notify, commands,
                 ghostVars>>

-----------------------------------------------------------------------------
(* Hub.Run.                                                                 *)

(* Register, a rendezvous with the handler of a new connection.             *)
Register(c, ch) ==
  /\ hub = "running"
  /\ stage[c] = "new"
  /\ clients' = clients \cup {c}
  /\ stage' = [stage EXCEPT ![c] = "adding"]
  /\ sub' = [sub EXCEPT ![c] = ch]
  /\ UNCHANGED <<hub, subs, broadcast, send, closed, snap, pump, ver, notify, bounds,
                 ghostVars>>

(* Mutant: the subscriptions are not purged.                                *)
Unregister_KeepsSubs(c) ==
  /\ hub = "running"
  /\ stage[c] = "leaving"
  /\ stage' = [stage EXCEPT ![c] = "gone"]
  /\ clients' = clients \ {c}
  /\ closed' = IF c \in clients THEN closed \cup {c} ELSE closed
  /\ UNCHANGED <<hub, subs, broadcast, send, sub, snap, pump, ver, notify, bounds,
                 ghostVars>>

(* A client that is no longer in h.clients keeps its subscriptions.         *)
Unregister(c) ==
  /\ hub = "running"
  /\ stage[c] = "leaving"
  /\ stage' = [stage EXCEPT ![c] = "gone"]
  /\ \/ /\ c \in clients
        /\ clients' = clients \ {c}
        /\ closed' = closed \cup {c}
        /\ subs' = [ch \in Channel |-> subs[ch] \ {c}]
     \/ /\ c \notin clients
        /\ UNCHANGED <<clients, closed, subs>>
  /\ UNCHANGED <<hub, broadcast, send, sub, snap, pump, ver, notify, bounds, ghostVars>>

Subscribers == subs[Head(broadcast).ch]

(* Mutant: the hub waits for room in every subscriber's channel.            *)
Broadcast_Waits ==
  /\ hub = "running"
  /\ broadcast # <<>>
  /\ Subscribers \cap closed = {}
  /\ \A c \in Subscribers : ~Full(c)
  /\ send' = [c \in Client |->
                IF c \in Subscribers THEN Append(send[c], Head(broadcast)) ELSE send[c]]
  /\ broadcast' = Tail(broadcast)
  /\ UNCHANGED <<hub, clients, subs, closed, clientVars, ver, notify, bounds, ghostVars>>

(* A message goes to every subscriber with room; the others are dropped     *)
(* from h.clients and their channel is closed.                              *)
Broadcast ==
  /\ hub = "running"
  /\ broadcast # <<>>
  /\ Subscribers \cap closed = {}
  /\ LET slow == {c \in Subscribers : Full(c)} IN
       /\ send' = [c \in Client |->
                     IF c \in Subscribers \ slow THEN Append(send[c], Head(broadcast))
                     ELSE send[c]]
       /\ closed' = closed \cup slow
       /\ clients' = clients \ slow
       /\ overflowed' = overflowed \cup slow
  /\ broadcast' = Tail(broadcast)
  /\ UNCHANGED <<hub, subs, clientVars, ver, notify, bounds, seen, skipped>>

(* A send on a closed channel panics, select and default or not.            *)
BroadcastPanics ==
  /\ hub = "running"
  /\ broadcast # <<>>
  /\ Subscribers \cap closed # {}
  /\ hub' = "panicked"
  /\ UNCHANGED <<clients, subs, broadcast, send, closed, clientVars, ver, notify,
                 bounds, ghostVars>>

(* ctx is canceled: closeAll.                                               *)
Shutdown ==
  /\ hub = "running"
  /\ hub' = "stopped"
  /\ closed' = closed \cup clients
  /\ clients' = {}
  /\ subs' = [ch \in Channel |-> {}]
  /\ UNCHANGED <<broadcast, send, clientVars, ver, notify, bounds, ghostVars>>

-----------------------------------------------------------------------------
(* The handler goroutine of a client: Subscribe, then ReadPump.             *)

Initial(c) == pump[c] = "off"   \* the handler has not started the pumps yet

(* Where a Subscribe call ends: the first one starts the pumps.             *)
Subscribed(c) ==
  /\ stage' = [stage EXCEPT ![c] = "reading"]
  /\ pump' = [pump EXCEPT ![c] = IF Initial(c) THEN "on" ELSE @]

(* Subscribe under h.mu: the client joins the channel's set.                *)
SubscribeAdd(c) ==
  /\ Alive
  /\ stage[c] = "adding"
  /\ subs' = [subs EXCEPT ![sub[c]] = @ \cup {c}]
  /\ seen' = [seen EXCEPT ![c] = @ \ {sub[c]}]
  /\ skipped' = [skipped EXCEPT ![c] = @ \ {sub[c]}]
  /\ \/ /\ sub[c] \in Snapshots
        /\ stage' = [stage EXCEPT ![c] = "snapping"]
        /\ UNCHANGED pump
     \/ /\ sub[c] \notin Snapshots
        /\ Subscribed(c)
  /\ UNCHANGED <<hub, clients, broadcast, send, closed, sub, snap, ver, notify, bounds,
                 overflowed>>

(* Subscribe, without h.mu: GetSnapshot ...                                 *)
SubscribeSnap(c) ==
  /\ Alive
  /\ stage[c] = "snapping"
  /\ snap' = [snap EXCEPT ![c] = Message(sub[c], ver)]
  /\ stage' = [stage EXCEPT ![c] = "sending"]
  /\ UNCHANGED <<hub, clients, subs, broadcast, send, closed, sub, pump, ver, notify,
                 bounds, ghostVars>>

(* Mutant: a Subscribe from ReadPump sends no snapshot.                     *)
SubscribeSend_FirstOnly(c) ==
  /\ Alive
  /\ stage[c] = "sending"
  /\ c \notin closed
  /\ send' = IF Full(c) \/ ~Initial(c) THEN send
             ELSE [send EXCEPT ![c] = Append(@, snap[c])]
  /\ Subscribed(c)
  /\ UNCHANGED <<hub, clients, subs, broadcast, closed, sub, snap, ver, notify, bounds,
                 ghostVars>>

(* Mutant: the snapshot is queued whether or not there is room.             *)
SubscribeSend_Unbounded(c) ==
  /\ Alive
  /\ stage[c] = "sending"
  /\ c \notin closed
  /\ send' = [send EXCEPT ![c] = Append(@, snap[c])]
  /\ Subscribed(c)
  /\ UNCHANGED <<hub, clients, subs, broadcast, closed, sub, snap, ver, notify, bounds,
                 ghostVars>>

(* ... and the send, which a full channel turns into nothing.               *)
SubscribeSend(c) ==
  /\ Alive
  /\ stage[c] = "sending"
  /\ c \notin closed
  /\ \/ /\ ~Full(c)
        /\ send' = [send EXCEPT ![c] = Append(@, snap[c])]
        /\ UNCHANGED skipped
     \/ /\ Full(c)
        /\ skipped' = [skipped EXCEPT ![c] = @ \cup {sub[c]}]
        /\ UNCHANGED send
  /\ Subscribed(c)
  /\ UNCHANGED <<hub, clients, subs, broadcast, closed, sub, snap, ver, notify, bounds,
                 overflowed, seen>>

(* The same send on a closed channel panics; the HTTP server recovers it.   *)
(* ReadPump's deferred call unregisters, the handler itself does not.       *)
SubscribePanics(c) ==
  /\ Alive
  /\ stage[c] = "sending"
  /\ c \in closed
  /\ stage' = [stage EXCEPT ![c] = IF Initial(c) THEN "gone" ELSE "leaving"]
  /\ UNCHANGED <<hub, clients, subs, broadcast, send, closed, sub, snap, pump, ver,
                 notify, bounds, ghostVars>>

(* ReadPump: a subscribe or an unsubscribe command, the end of the stream.  *)
ReadSubscribe(c, ch) ==
  /\ Alive
  /\ stage[c] = "reading"
  /\ commands < MaxCommands
  /\ commands' = commands + 1
  /\ stage' = [stage EXCEPT ![c] = "adding"]
  /\ sub' = [sub EXCEPT ![c] = ch]
  /\ UNCHANGED <<hub, clients, subs, broadcast, send, closed, snap, pump, ver, notify,
                 ticks, ghostVars>>

ReadUnsubscribe(c, ch) ==
  /\ Alive
  /\ stage[c] = "reading"
  /\ commands < MaxCommands
  /\ commands' = commands + 1
  /\ c \in subs[ch]
  /\ subs' = [subs EXCEPT ![ch] = @ \ {c}]
  /\ UNCHANGED <<hub, clients, broadcast, send, closed, clientVars, ver, notify, ticks,
                 ghostVars>>

ReadEnd(c) ==
  /\ Alive
  /\ stage[c] = "reading"
  /\ stage' = [stage EXCEPT ![c] = "leaving"]
  /\ UNCHANGED <<hub, clients, subs, broadcast, send, closed, sub, snap, pump, ver,
                 notify, bounds, ghostVars>>

-----------------------------------------------------------------------------
(* WritePump.                                                               *)
Deliver(c) ==
  /\ Alive
  /\ pump[c] = "on"
  /\ send[c] # <<>>
  /\ send' = [send EXCEPT ![c] = Tail(@)]
  /\ LET m == Head(send[c]) IN
       seen' = IF IsCurrent(m) THEN [seen EXCEPT ![c] = @ \cup {m.ch}] ELSE seen
  /\ UNCHANGED <<hub, clients, subs, broadcast, closed, clientVars, ver, notify, bounds,
                 overflowed, skipped>>

(* The channel is closed and drained, a write or a ping fails, or the       *)
(* handler returned: WritePump closes the connection.                       *)
PumpExit(c) ==
  /\ Alive
  /\ pump[c] = "on"
  /\ pump' = [pump EXCEPT ![c] = "done"]
  /\ UNCHANGED <<hub, clients, subs, broadcast, send, closed, stage, sub, snap, ver,
                 notify, bounds, ghostVars>>

Next ==
  \/ NewHub \/ Notify \/ PriceTick \/ Broadcast \/ BroadcastPanics \/ Shutdown
  \/ \E t \in Trader : Change(t)
  \/ \E c \in Client :
       \/ Unregister(c) \/ SubscribeAdd(c) \/ SubscribeSnap(c) \/ SubscribeSend(c)
       \/ SubscribePanics(c) \/ ReadEnd(c) \/ Deliver(c) \/ PumpExit(c)
       \/ \E ch \in Channel :
            Register(c, ch) \/ ReadSubscribe(c, ch) \/ ReadUnsubscribe(c, ch)

Spec == Init /\ [][Next]_vars

(* Run's select picks among the ready cases at random, so a message that    *)
(* waits is taken; nothing is assumed of the pumps or of the clients.       *)
FairSpec == Spec /\ WF_vars(Notify) /\ WF_vars(Broadcast \/ BroadcastPanics)

-----------------------------------------------------------------------------
Stage == {"new", "adding", "snapping", "sending", "reading", "leaving", "gone"}
AnyMessage == [ch: Channel, body: [Trader -> 0 .. MaxChanges]]

HubTypeOK ==
  /\ hub \in {"off", "running", "panicked", "stopped"}
  /\ clients \subseteq Client /\ subs \in [Channel -> SUBSET Client]
  /\ closed \subseteq Client /\ overflowed \subseteq Client
  /\ stage \in [Client -> Stage] /\ sub \in [Client -> Channel]
  /\ pump \in [Client -> {"off", "on", "done"}]
  /\ ver \in [Trader -> 0 .. MaxChanges] /\ ticks \in 0 .. MaxTicks
  /\ commands \in 0 .. MaxCommands
  /\ broadcast \in Seq(AnyMessage) /\ Len(broadcast) <= BroadcastCap
  /\ notify \in Seq(AnyMessage) /\ Len(notify) <= 2
  /\ send \in [Client -> Seq(AnyMessage)] /\ snap \in [Client -> AnyMessage]
  /\ \A c \in Client : Len(send[c]) <= SendCap
  /\ seen \in [Client -> SUBSET Channel] /\ skipped \in [Client -> SUBSET Channel]

(* Hub.Run sends on a closed client.send only after it has itself dropped a *)
(* slow subscriber: no order of Register, Subscribe, Unregister and         *)
(* broadcasts alone leads there.                                            *)
OnlyOverflowPanics == hub = "panicked" => overflowed # {}

(* Its strengthening: as long as no subscriber was dropped, a closed channel *)
(* belongs to a client that Run has unregistered and purged from every      *)
(* subscription, and whose handler cannot subscribe again.                  *)
ClosedIsForgotten ==
  /\ hub = "off" => closed = {}
  /\ hub = "running" /\ overflowed = {} =>
       \A c \in closed : stage[c] = "gone" /\ \A ch \in Channel : c \notin subs[ch]

(* Run "Blocks until ctx is canceled" (hub.go:66): it does not die.         *)
RunsUntilCanceled == hub # "panicked"

(* A connected client with nothing on its way to it.                        *)
Settled(c, ch) ==
  /\ hub = "running" /\ notify = <<>> /\ broadcast = <<>> /\ send[c] = <<>>
  /\ stage[c] = "reading" /\ pump[c] = "on" /\ c \in subs[ch] /\ c \notin closed

(* Whatever the order of Subscribe's unlock, snapshot and send and of a     *)
(* change's broadcast, a subscriber is sent the current state at least once *)
(* (hub.go:109-140); if its snapshot found no room, with the next change.   *)
CurrentStateIsSent ==
  \A c \in Client, ch \in Snapshots :
    Settled(c, ch) => ch \in seen[c] \cup skipped[c]

(* The cache goroutine never stays blocked in onChange, however slow the    *)
(* clients are: their pumps have no fairness here.                          *)
CacheNeverBlocked == notify # <<>> ~> notify = <<>> \/ hub # "running"
=============================================================================
