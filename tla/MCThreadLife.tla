---------------------------- MODULE MCThreadLife ----------------------------
(* A small instance of ThreadLife for TLC. *)
EXTENDS ThreadLife
=============================================================================
