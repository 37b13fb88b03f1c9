---------------------------- MODULE MCHoareSlots ----------------------------
(* Small instances of HoareSlots for TLC. *)
EXTENDS HoareSlots, TLC

Symmetry == Permutations(Students)
=============================================================================
