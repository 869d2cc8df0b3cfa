--------------------------- MODULE MCSharedScene ---------------------------
(* The instance of SharedScene for model checking. *)
EXTENDS SharedScene, TLC

CONSTANTS p1, p2, k1, k2

\* A locked scene to preload, a prop that persists
MCKinds ==
  {[scene |-> TRUE, persist |-> FALSE, locked |-> TRUE, preload |-> TRUE],
   [scene |-> FALSE, persist |-> TRUE, locked |-> FALSE, preload |-> FALSE]}

Symmetry == Permutations(Peer) \cup Permutations(Task) \cup Permutations(Name)
=============================================================================
