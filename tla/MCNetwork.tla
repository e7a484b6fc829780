------------------------------ MODULE MCNetwork -------------------------------
(* The instances of Network for TLC: a device that connects twice, or once. *)
EXTENDS Network
CONSTANTS d1, k1, k2
MCDevice == {d1}
MCConn == {k1, k2}
MCRemoteId == [k \in MCConn |-> d1]
OneConn == {k1}
OneRemoteId == [k \in OneConn |-> d1]
=============================================================================
