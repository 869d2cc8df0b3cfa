--------------------------- MODULE MCPeerSession ---------------------------
(* Instances of PeerSession for model checking. *)
EXTENDS PeerSession, TLC

Symmetry == Permutations(Workers) \cup Permutations(Handlers) \cup Permutations(Addr)
=============================================================================
