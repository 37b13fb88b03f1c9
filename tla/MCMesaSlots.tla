---------------------------- MODULE MCMesaSlots ----------------------------
(* Small instances of MesaSlots for TLC. *)
EXTENDS MesaSlots, TLC

Symmetry == Permutations(Students)
=============================================================================
