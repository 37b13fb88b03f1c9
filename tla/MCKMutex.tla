------------------------------ MODULE MCKMutex ------------------------------
(* Small instances of KMutex for TLC. *)
EXTENDS KMutex, TLC

Symmetry == Permutations(Threads)
=============================================================================
