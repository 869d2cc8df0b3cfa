---------------------------- MODULE PeerTableIds ----------------------------
(* PeerTable implements PeerIds: the phase of an id follows from the table, *)
(* queue or thread that has it.                                              *)
EXTENDS PeerTable

PhaseAt ==
  [map     |-> "claimed", insert   |-> "claimed",
   restore |-> "held",    reinsert |-> "held",
   unmap   |-> "closing", retire   |-> "closing", announce |-> "retired",
   cleanup |-> "cleaning", recycle |-> "cleaning"]

Carrier(i) == thr[CHOOSE x \in Threads : x \in Carriers(i)]

PhaseOf(i) ==
  IF Live(i)                             THEN "live"
  ELSE IF closures[i] > 0                THEN "told"
  ELSE IF Carriers(i) # {}               THEN PhaseAt[Carrier(i).pc]
  ELSE IF Queued(i) \/ ~(i < fetched)    THEN "free"
  ELSE "lost"

ConnOf(i) == IF PhaseOf(i) = "held" THEN Carrier(i).held ELSE peers[i]

Ids == INSTANCE PeerIds WITH phase <- [i \in Id |-> PhaseOf(i)],
                             conn  <- [i \in Id |-> ConnOf(i)]

(* Whatever threads compete for the table, each id goes through the phases  *)
(* that PeerIds allows, in its order, and keeps its connection meanwhile.   *)
Lifecycle == Ids!Spec
=============================================================================
