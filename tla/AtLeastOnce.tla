---------------------------- MODULE AtLeastOnce ----------------------------
(****************************************************************************)
(* What a reliable channel promises, in each direction. Once a payload is   *)
(* accepted the sender owes it, and lets go of it only when the other side  *)
(* has it. The other side gets what was accepted and nothing else, in any   *)
(* order and as often as it is repeated. A payload is excused when its      *)
(* sequence number no longer tells it from another one.                     *)
(****************************************************************************)
CONSTANT Payload

VARIABLES accepted, owed, delivered, excused

Init == accepted = {} /\ owed = {} /\ delivered = {} /\ excused = {}

(* A payload is accepted once, and at that moment others may be excused. *)
Accept(p) ==
  /\ p \notin accepted
  /\ accepted' = accepted \union {p} /\ owed' = owed \union {p}
  /\ excused \subseteq excused'
  /\ UNCHANGED delivered

Deliver(p) ==
  /\ p \in accepted
  /\ delivered' = delivered \union {p}
  /\ UNCHANGED <<accepted, owed, excused>>

(* The sender lets go of what has arrived, as far as numbers tell. *)
Settle ==
  /\ owed' \subseteq owed /\ excused \subseteq excused'
  /\ owed \ owed' \subseteq delivered \union excused'
  /\ UNCHANGED <<accepted, delivered>>

Next == Settle \/ \E p \in Payload : Accept(p) \/ Deliver(p)

Spec == Init /\ [][Next]_<<accepted, owed, delivered, excused>>
=============================================================================
