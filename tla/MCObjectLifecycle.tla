------------------------- MODULE MCObjectLifecycle -------------------------
(* Instances of ObjectLifecycle for TLC. *)
EXTENDS ObjectLifecycle, TLC

Symmetry == Permutations(Ids) \cup Permutations(Instances)
=============================================================================
