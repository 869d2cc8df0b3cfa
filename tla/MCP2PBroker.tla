----------------------------- MODULE MCP2PBroker -----------------------------
(* Two players that ask each other for a link, each with a token of its own. *)
EXTENDS P2PBroker, TLC
CONSTANTS p1, p2, t1, t2
MCInitiator == [t \in Token |-> IF t = t1 THEN p1 ELSE p2]
MCTarget    == [t \in Token |-> IF t = t1 THEN p2 ELSE p1]

\* The tasks are alike, and so are the two players with their tokens.
Swap == (p1 :> p2) @@ (p2 :> p1) @@ (t1 :> t2) @@ (t2 :> t1)
Symmetry == Permutations(Task) \union {Swap @@ f : f \in Permutations(Task)}
=============================================================================
