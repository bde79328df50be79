---------------------------- MODULE MCChildSpawn ----------------------------
(* ChildSpawn for TLC: originals and children are interchangeable. *)
EXTENDS ChildSpawn, TLC

Symmetry == Permutations(Originals) \cup Permutations(Children)
=============================================================================
