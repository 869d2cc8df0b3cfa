----------------------------- MODULE MCPresence -----------------------------
(* Instances of Presence for model checking. *)
EXTENDS Presence, TLC

Symmetry == Permutations(Player) \cup Permutations(Task)
=============================================================================
