------------------------------- MODULE MCBflt -------------------------------
(***************************************************************************)
(* Bflt for TLC.  The addresses are interchangeable; with a liveness       *)
(* property no symmetry is used.                                           *)
(***************************************************************************)
EXTENDS Bflt, TLC

Symmetry == Permutations(Addr)
=============================================================================
