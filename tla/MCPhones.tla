-------------------------------- MODULE MCPhones --------------------------------
(* The instance of Network and BleAuth for TLC: a phone with two connections of *)
(* the network, and a phone over BLE.  They share no state, so one behaviour    *)
(* moves one of them, and the other stays as it starts.  The bounds of BleAuth  *)
(* may end its behaviours; those of Network have no end, and a deadlock of its  *)
(* mutexes would be one of the run.                                             *)
EXTENDS Network, BleAuth

CONSTANTS d1, k1, k2
MCDevice == {d1}
MCConn == {k1, k2}
MCRemoteId == [k \in MCConn |-> d1]

VARIABLE part
phonesVars == <<part, vars, authVars>>

PhonesInit ==
  /\ part \in {"network", "ble"}
  /\ Init
  /\ BleAuthInit /\ (part = "network" => requests = 0)

PhonesNext ==
  /\ \/ part = "network" /\ Next /\ UNCHANGED authVars
     \/ part = "ble" /\ (BleAuthNext \/ UNCHANGED authVars) /\ UNCHANGED vars
  /\ UNCHANGED part

PhonesSpec == PhonesInit /\ [][PhonesNext]_phonesVars
=============================================================================
