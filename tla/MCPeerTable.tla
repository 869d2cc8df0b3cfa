---------------------------- MODULE MCPeerTable ----------------------------
(* Instances of PeerTable for model checking. *)
EXTENDS PeerTableIds, TLC

Symmetry == Permutations(Workers) \cup Permutations(Handlers) \cup Permutations(Addr)
=============================================================================
