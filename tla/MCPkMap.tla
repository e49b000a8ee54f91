------------------------------ MODULE MCPkMap ------------------------------
(* An instance of PkMap for TLC. *)
EXTENDS PkMap, TLC

KeySymmetry == Permutations(Keys)
=============================================================================
