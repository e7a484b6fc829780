------------------------------- MODULE MCOutput --------------------------------
(* The instance of Mirror, Switches, Discovery and LanTimers for TLC.  The    *)
(* components share no state, so one behaviour moves one of them, and the     *)
(* others stay as they start: one run checks the sum of their states.         *)
EXTENDS Mirror, Switches, Discovery, LanTimers

BleAndLan == <<"ble", "lan">>
TwoChoices == <<"5 min", "1 min">>

VARIABLE part
outputVars == <<part, mirrorVars, switchesVars, discoveryVars, timersVars>>

OutputInit ==
  /\ part \in {"mirror", "switches", "discovery", "timers"}
  /\ MirrorInit /\ (part # "mirror" => via = "lan" /\ content = "a" /\ ~others)
  /\ SwitchesInit /\ DiscoveryInit
  /\ LanTimersInit /\ (part # "timers" => opened = Never)

OutputNext ==
  /\ \/ part = "mirror" /\ MirrorNext /\ UNCHANGED <<switchesVars, discoveryVars, timersVars>>
     \/ part = "switches" /\ SwitchesNext /\ UNCHANGED <<mirrorVars, discoveryVars, timersVars>>
     \/ part = "discovery" /\ DiscoveryNext /\ UNCHANGED <<mirrorVars, switchesVars, timersVars>>
     \/ part = "timers" /\ LanTimersNext /\ UNCHANGED <<mirrorVars, switchesVars, discoveryVars>>
  /\ UNCHANGED part

OutputSpec == OutputInit /\ [][OutputNext]_outputVars

\* A label is valid and not empty, and a valid name of one label stays as it is.
ASSUME LabelIsValid ==
  \A n \in 0 .. 5 : \A raw \in [1 .. n -> Allowed \union {" ", "."}] :
    LET label == Label(raw)
        valid(s) == /\ Len(s) \in 1 .. MaxLabel /\ \A i \in DOMAIN s : s[i] \in Allowed
                    /\ s[1] # "-" /\ s[Len(s)] # "-"
    IN  valid(label) /\ (valid(raw) => label = raw)
=============================================================================
