------------------------------ MODULE PriceFeed -----------------------------
(***************************************************************************)
(* The two clients of the exchange's trade stream: BinanceClient of the    *)
(* keeper, whose ticks the hot path of cmd/keeper evaluates, and PriceFeed *)
(* of the gateway, whose ticks the hub broadcasts.  Both reconnect with a  *)
(* growing delay and drop a tick that finds their channel full; only the   *)
(* keeper's has a deadline on each read, and neither has one on the dial.  *)
(***************************************************************************)
EXTENDS Integers, Sequences

CONSTANTS
  Symbols,    \* the symbols of PAIR_SYMBOL_MAP, one per pair
  Quotes,     \* the prices a symbol trades at, in order, in the exchange's unit
  Excess,     \* the exchange's units in one of the keeper's (1e14) scale
  ChanCap,    \* 1024 in the keeper, 256 in the hub
  MaxWire,    \* bound on messages on a connection
  MaxFaults   \* bound on failed dials and writes, broken, silent and slow streams

ASSUME PriceFeedAssumption ==
  /\ Quotes \in Seq(Nat) /\ Quotes # <<>> /\ Excess \in Nat \ {0}
  /\ ChanCap \in Nat \ {0} /\ MaxWire \in Nat \ {0} /\ MaxFaults \in Nat

VARIABLES
  client,    \* which of the two it is
  market,    \* external: index in Quotes of a symbol's last trade
  peer,      \* external: "live", or "silent" when nothing arrives any more
  faults,    \* bound
  phase,     \* where Run and connect are
  delay,     \* backoff, in seconds
  wire,      \* external: messages of the connection, not read yet
  inHand,    \* what conn.Read returned, until handleMessage is done
  ticks,     \* b.out, or the hub's broadcast
  reader,    \* the hot path or the hub: "runs" or "left"
  seen,      \* the price the reader last had of a symbol
  canceled   \* the context

vars == <<client, market, peer, faults, phase, delay, wire, inHand, ticks, reader,
          seen, canceled>>

None == -1
Ack == [ack |-> TRUE]    \* the answer to SUBSCRIBE, and any other message

-----------------------------------------------------------------------------
(* parsePriceToScale cuts the digits the scale has no place for, and has no *)
(* value for zero; the gateway passes the string on.                        *)
Parsed(quote) == IF quote \div Excess > 0 THEN quote \div Excess ELSE None

Tick(quote) == IF client = "keeper" THEN Parsed(quote) ELSE quote

(* Mutant: the delay triples.                                               *)
NextBackoff_Triples(current) == IF current = 0 THEN 1 ELSE 3 * current

NextBackoff(current) ==
  IF current = 0 THEN 1 ELSE IF 2 * current > 30 THEN 30 ELSE 2 * current

(* connect returned an error.                                               *)
Reconnects ==
  /\ phase' = "wait" /\ delay' = NextBackoff(delay)
  /\ wire' = <<>> /\ peer' = "live"

Fault == faults < MaxFaults /\ faults' = faults + 1

-----------------------------------------------------------------------------
(* External: a trade, at the same price or at the next one.                 *)
Trade(s, i) ==
  /\ phase \in {"read", "handle"} /\ peer = "live" => Len(wire) < MaxWire
  /\ market' = [market EXCEPT ![s] = i]
  /\ wire' = IF phase \in {"read", "handle"} /\ peer = "live"
             THEN Append(wire, [symbol |-> s, quote |-> Quotes[i]]) ELSE wire
  /\ UNCHANGED <<client, peer, faults, phase, delay, inHand, ticks, reader, seen, canceled>>

TradesOn(s) == Trade(s, market[s])
Moves(s) == market[s] < Len(Quotes) /\ Trade(s, market[s] + 1)

(* External: the connection stays open, and nothing arrives any more: no    *)
(* answer to the upgrade request, or no message of the stream.              *)
GoesSilent ==
  /\ phase \in {"dial", "subscribe", "read", "handle"} /\ peer = "live" /\ peer' = "silent"
  /\ Fault
  /\ UNCHANGED <<client, market, phase, delay, wire, inHand, ticks, reader, seen, canceled>>

-----------------------------------------------------------------------------
(* websocket.Dial, under the process's context: it returns when the upgrade *)
(* is answered, and waits as long as it takes.                              *)
Dial ==
  /\ phase = "dial" /\ peer = "live" /\ ~canceled
  /\ phase' = "subscribe"
  /\ UNCHANGED <<client, market, peer, faults, delay, wire, inHand, ticks, reader, seen, canceled>>

Subscribe ==
  /\ phase = "subscribe" /\ ~canceled
  /\ phase' = "read" /\ wire' = IF peer = "live" THEN <<Ack>> ELSE <<>>
  /\ UNCHANGED <<client, market, peer, faults, delay, inHand, ticks, reader, seen, canceled>>

(* The dial is refused, the write fails or reaches its deadline, or the     *)
(* connection breaks.                                                       *)
ConnectFails ==
  /\ phase \in {"dial", "subscribe", "read"} /\ Fault
  /\ Reconnects
  /\ UNCHANGED <<client, market, inHand, ticks, reader, seen, canceled>>

Read ==
  /\ phase = "read" /\ wire # <<>> /\ ~canceled
  /\ phase' = "handle" /\ inHand' = Head(wire) /\ wire' = Tail(wire)
  /\ UNCHANGED <<client, market, peer, faults, delay, ticks, reader, seen, canceled>>

(* Mutant: no deadline.                                                     *)
ReadTimesOut_Never == FALSE /\ UNCHANGED vars

(* The deadline of a read passes: on a silent connection, or in a spell     *)
(* without trades.                                                          *)
ReadTimesOut ==
  /\ client = "keeper" /\ phase = "read" /\ wire = <<>>
  /\ \/ peer = "silent" /\ UNCHANGED faults
     \/ peer = "live" /\ Fault
  /\ Reconnects
  /\ UNCHANGED <<client, market, inHand, ticks, reader, seen, canceled>>

(* Mutant: the send waits for room.                                         *)
HandleMessage_Waits ==
  /\ phase = "handle" /\ phase' = "read" /\ inHand' = Ack
  /\ Len(ticks) < ChanCap
  /\ ticks' = IF inHand # Ack /\ Tick(inHand.quote) # None
              THEN Append(ticks, [symbol |-> inHand.symbol, price |-> Tick(inHand.quote)])
              ELSE ticks
  /\ UNCHANGED <<client, market, peer, faults, delay, wire, reader, seen, canceled>>

(* A message that is no trade or has no price is skipped, a tick dropped    *)
(* when the channel is full.                                                *)
HandleMessage ==
  /\ phase = "handle" /\ phase' = "read" /\ inHand' = Ack
  /\ ticks' = IF inHand # Ack /\ Tick(inHand.quote) # None /\ Len(ticks) < ChanCap
              THEN Append(ticks, [symbol |-> inHand.symbol, price |-> Tick(inHand.quote)])
              ELSE ticks
  /\ UNCHANGED <<client, market, peer, faults, delay, wire, reader, seen, canceled>>

Waited ==
  /\ phase = "wait" /\ ~canceled
  /\ phase' = "dial"
  /\ UNCHANGED <<client, market, peer, faults, delay, wire, inHand, ticks, reader, seen, canceled>>

(* Every call and every wait of Run returns when the context is canceled.   *)
RunStops ==
  /\ canceled /\ phase \in {"dial", "subscribe", "read", "wait"}
  /\ phase' = "stopped" /\ wire' = <<>>
  /\ UNCHANGED <<client, market, peer, faults, delay, inHand, ticks, reader, seen, canceled>>

-----------------------------------------------------------------------------
(* The keeper evaluates the tick, the hub broadcasts it.                    *)
Consume ==
  /\ reader = "runs" /\ ticks # <<>>
  /\ seen' = [seen EXCEPT ![Head(ticks).symbol] = Head(ticks).price]
  /\ ticks' = Tail(ticks)
  /\ UNCHANGED <<client, market, peer, faults, phase, delay, wire, inHand, reader, canceled>>

(* The context is canceled, or the keeper's channel closed and drained.     *)
ReaderLeaves ==
  /\ reader = "runs"
  /\ canceled \/ (client = "keeper" /\ phase = "stopped" /\ ticks = <<>>)
  /\ reader' = "left"
  /\ UNCHANGED <<client, market, peer, faults, phase, delay, wire, inHand, ticks, seen, canceled>>

Cancel ==
  /\ ~canceled /\ canceled' = TRUE
  /\ UNCHANGED <<client, market, peer, faults, phase, delay, wire, inHand, ticks, reader, seen>>

-----------------------------------------------------------------------------
Init ==
  /\ client \in {"keeper", "gateway"}
  /\ market = [s \in Symbols |-> 1] /\ peer = "live" /\ faults = 0
  /\ phase = "dial" /\ delay = 0 /\ wire = <<>> /\ inHand = Ack /\ ticks = <<>>
  /\ reader = "runs" /\ seen = [s \in Symbols |-> None] /\ canceled = FALSE

Runs == Dial \/ Subscribe \/ Read \/ ReadTimesOut \/ HandleMessage \/ Waited \/ RunStops

Next ==
  \/ \E s \in Symbols : TradesOn(s) \/ Moves(s)
  \/ GoesSilent \/ ConnectFails \/ Runs \/ Consume \/ ReaderLeaves \/ Cancel

Spec == Init /\ [][Next]_vars

(* The goroutines run, an exchange that answers does so, a silent stream    *)
(* reaches its deadline where it has one, and every symbol is traded again  *)
(* and again; nothing is assumed of faults.                                 *)
FairSpec ==
  /\ Spec
  /\ WF_vars(Runs) /\ WF_vars(Consume) /\ WF_vars(ReaderLeaves)
  /\ \A s \in Symbols : SF_vars(TradesOn(s))

-----------------------------------------------------------------------------
(* The type invariant.                                                      *)
PriceFeedTypeOK ==
  /\ market \in [Symbols -> 1 .. Len(Quotes)] /\ peer \in {"live", "silent"}
  /\ phase \in {"dial", "subscribe", "read", "handle", "wait", "stopped"}
  /\ delay \in {0, 1, 2, 4, 8, 16, 30} /\ faults \in 0 .. MaxFaults
  /\ Len(wire) <= MaxWire /\ Len(ticks) <= ChanCap
  /\ reader \in {"runs", "left"} /\ seen \in [Symbols -> Nat \cup {None}]

(* A tick of the symbol finds the channel full.                             *)
Drops(s) == phase = "handle" /\ inHand # Ack /\ inHand.symbol = s
              /\ Len(ticks) = ChanCap /\ phase' = "read"

(* The reader has the latest price, or cannot have it.                      *)
Fresh(s) ==
  \/ Tick(Quotes[market[s]]) \in {seen[s], None}
  \/ canceled
  \/ peer = "silent" /\ (client = "gateway" \/ phase = "dial")

(* Broken, silent and slow connections and the delays between them never    *)
(* leave a reader on an old price for good: again and again it has the      *)
(* symbol's latest one, unless that price parses to nothing, the process    *)
(* ends, or it hangs in a call without a deadline: the dial of either       *)
(* client (binance.go:83, pricefeed.go:76) while the exchange leaves the    *)
(* upgrade unanswered, or the gateway's read on a silent connection.        *)
(* Dropped ticks do so only if the channel is full again and again when a   *)
(* tick of the symbol arrives.                                              *)
FreshPrice ==
  \A s \in Symbols : []<>Fresh(s) \/ []<><<Drops(s)>>_vars

(* A canceled context ends Run and the reader, although the reader may      *)
(* leave while a tick is on its way into a full channel.                    *)
StopsWhenCanceled == canceled ~> phase = "stopped" /\ reader = "left"
=============================================================================
