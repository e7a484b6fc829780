------------------------------ MODULE MCPairing -------------------------------
(* Instances of Pairing for TLC. *)
EXTENDS Pairing, TLC

Symmetry == Permutations(Central) \union Permutations(Token)
=============================================================================
