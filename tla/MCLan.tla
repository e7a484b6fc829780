-------------------------------- MODULE MCLan ---------------------------------
(* Instances of Lan for TLC.  Connections are interchangeable.  The whole     *)
(* instance is one connection and a second generation of the listener, or two *)
(* connections that compete for one slot.                                     *)
EXTENDS Lan, TLC

Symmetry == Permutations(Conn)

Used == {c \in Conn : phase[c] # "unborn"}
BoundedNext == Next /\ (generation' > 1 => Cardinality(Used') <= 1)
BoundedSpec == Init /\ [][BoundedNext]_vars
=============================================================================
