------------------------------ MODULE MCLoader ------------------------------
(***************************************************************************)
(* Loader for TLC.  The addresses are interchangeable.                     *)
(***************************************************************************)
EXTENDS Loader, TLC

Symmetry == Permutations(Addr)
=============================================================================
