----------------------------- MODULE MCPeerStore ------------------------------
(* The instance of PeerStore for TLC: t1 is in a legacy file, t2 is not. *)
EXTENDS PeerStore, TLC
CONSTANTS t1, t2
MCToken == {t1, t2}
MCLegacy == {t1}
Symmetry == Permutations(Saver)
=============================================================================
