------------------------------ MODULE MCLuaExt ------------------------------
(***************************************************************************)
(* LuaExt for TLC.  Addresses and interpreters are interchangeable.        *)
(***************************************************************************)
EXTENDS LuaExt, TLC

Symmetry == Permutations(Addr) \cup Permutations(LuaStates)
=============================================================================
