-------------------------------- MODULE MCBle ---------------------------------
(* The instances of Ble for TLC. *)
EXTENDS Ble
CONSTANTS c1, c2
Symmetry == Permutations(Central)
=============================================================================
