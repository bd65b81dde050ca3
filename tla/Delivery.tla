------------------------------ MODULE Delivery ------------------------------
(***************************************************************************)
(* What the indexer promises whoever reads its tables and its Redis        *)
(* channels: at-least-once delivery.  Positions of the event log are       *)
(* offered by the RPC node; each is handled (applied and fanned out, or    *)
(* its error reported) while it is pending, and stops being pending only   *)
(* once it was handled, or is excused: the node no longer has it, or it    *)
(* lies before the ledger a start without a cursor chose.                  *)
(*                                                                         *)
(* Indexer implements this specification.                                  *)
(***************************************************************************)
EXTENDS Naturals

CONSTANT Position   \* positions of the event log

VARIABLES
  offered,  \* positions in closed ledgers
  pending,  \* offered positions a restart would fetch
  handled,  \* positions applied and fanned out, or reported
  expired,  \* offered positions out of the node's retention window
  skipped   \* positions before the ledger a first start chose

deliveryVars == <<offered, pending, handled, expired, skipped>>

Init == deliveryVars = <<{}, {}, {}, {}, {}>>

(* A ledger closes: its events are pending, and older ones may expire.  The *)
(* chosen start may lie in the future.                                      *)
Offer ==
  /\ offered \subseteq offered' /\ offered' \subseteq Position
  /\ pending' = pending \cup (offered' \ offered)
  /\ expired \subseteq expired' /\ expired' \subseteq offered'
  /\ skipped \subseteq skipped' /\ skipped' \ skipped \subseteq offered' \ offered
  /\ UNCHANGED handled

(* An event is handled only while a restart would still fetch it, and may   *)
(* be handled again.                                                        *)
Handle ==
  /\ \E p \in pending : handled' = handled \cup {p}
  /\ UNCHANGED <<offered, pending, expired, skipped>>

(* The resume point moves forward, over nothing that was not accounted for. *)
Commit ==
  /\ pending' \subseteq pending
  /\ pending \ pending' \subseteq handled \cup expired \cup skipped
  /\ UNCHANGED <<offered, handled, expired, skipped>>

(* A start may choose a later ledger only while nothing was committed.      *)
ChooseStart ==
  /\ pending = offered
  /\ skipped \subseteq skipped' /\ skipped' \subseteq offered
  /\ UNCHANGED <<offered, pending, handled, expired>>

Next == Offer \/ Handle \/ Commit \/ ChooseStart

Safe == Init /\ [][Next]_deliveryVars

(* Nothing stays pending for ever.                                          *)
Drains == \A p \in Position : []<>(p \notin pending)
=============================================================================
