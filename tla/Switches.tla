------------------------------- MODULE Switches -------------------------------
(***************************************************************************)
(* What the app keeps of the user's choices, from one start to the next:   *)
(* the three switches and the other settings in settings.json (settings.rs *)
(* and the commands of lib.rs that change them), and the network's key     *)
(* (network/identity.rs).  Both files are replaced by a rename.            *)
(*                                                                         *)
(* A switch command changes the bridge under one lock and the settings     *)
(* under another, so commands and the restore at the start interleave.     *)
(* What a bridge and the pairing manager do is in Ble, Network and Lan.    *)
(* `choice' stands for enabled_agents and the poll interval alike.         *)
(***************************************************************************)
EXTENDS Integers, Sequences, FiniteSets

CONSTANTS SwitchOrder,  \* the switches, in the order the restore takes them
          MaxCommands,  \* bound: commands under way at a time
          Choice,       \* the first is the default
          MaxStarts,    \* bound: starts of the app
          MaxFaults     \* bound: writes and reads that fail, damaged files

ASSUME SwitchesAssumption ==
  /\ SwitchOrder \in Seq({"ble", "network", "lan"})
  /\ Choice \in Seq(STRING) /\ Choice # <<>>
  /\ MaxCommands \in Nat /\ MaxStarts \in Nat /\ MaxFaults \in Nat

Switch == {SwitchOrder[i] : i \in DOMAIN SwitchOrder}
Options == {Choice[i] : i \in DOMAIN Choice}
Defaults == [on |-> [t \in Switch |-> FALSE], choice |-> Choice[1]]
NoFile == <<>>
KeyMissing == 0

VARIABLES
  up,          \* the app is running
  settings,    \* AppSettings in memory
  saved,       \* settings.json: <<its contents>>, or NoFile
  inForce,     \* antigravity_poll_interval, which the poller reads
  bridge,      \* switch -> enabled
  commands,    \* under way: the switch, the way it goes, and the next step
  restoring,   \* the switches that the restore has yet to look at, and its copy
  key,         \* network-identity.key, or KeyMissing: missing or of a wrong length
  identity,    \* the key the endpoint was bound with
  \* history
  starts, faults,
  accepted,    \* the last choice the user was told is made
  failed,      \* the Bluetooth switch could not be turned on
  unsaved,     \* the last write of the settings failed
  crossed,     \* switches that two commands, or one and the restore, changed at a time
  unread,      \* the settings in memory are the defaults, for the file could not be read
  known        \* the first key, until its file was damaged or could not be read

switchesVars == <<up, settings, saved, inForce, bridge, commands, restoring, key, identity,
                  starts, faults, accepted, failed, unsaved, crossed, unread, known>>
fileVars == <<saved, key>>
keyVars == <<key, identity, known>>
readVars == <<keyVars, unread>>

NotRestoring == [todo |-> <<>>, copy |-> Defaults]

SwitchesInit ==
  /\ up = FALSE
  /\ settings = Defaults /\ saved = NoFile /\ inForce = Choice[1]
  /\ bridge = Defaults.on
  /\ commands = {}
  /\ restoring = NotRestoring
  /\ key = KeyMissing /\ identity = KeyMissing
  /\ starts = 0 /\ faults = 0
  /\ accepted = Choice[1] /\ failed = FALSE /\ unsaved = FALSE /\ crossed = {}
  /\ unread = FALSE /\ known = KeyMissing

Faulty == faults < MaxFaults /\ faults' = faults + 1

-------------------------------------------------------------------------------
(* Starting and ending *)

\* What the file holds, and the defaults if there is none or it is damaged.
Loaded == IF saved = NoFile THEN Defaults ELSE saved[1]

\* load_from takes the defaults too, and says nothing, when the file cannot be read.
ReadSettings ==
  \/ /\ settings' = Loaded
     /\ accepted' = IF unread THEN Loaded.choice ELSE accepted
     /\ unread' = FALSE /\ UNCHANGED faults
  \/ /\ saved # NoFile /\ Faulty
     /\ settings' = Defaults /\ accepted' = Choice[1] /\ unread' = TRUE

\* Mutant: a key that was read is replaced all the same.
KeyDrawnAlways == \E n \in {starts + 1} : key' = n /\ identity' = n

\* load_or_create: a key that cannot be read is replaced; if the new one cannot be
\* written, the app does not start.
KeyLoaded ==
  IF key # KeyMissing THEN key' = key /\ identity' = key
                 ELSE key' = starts + 1 /\ identity' = starts + 1

\* The restore has its copy of the settings before anyone can change them.
Start ==
  /\ ~up /\ starts < MaxStarts
  /\ starts' = starts + 1
  /\ up' = TRUE
  /\ ReadSettings /\ inForce' = settings'.choice
  /\ KeyLoaded
  /\ known' = IF known = KeyMissing THEN identity' ELSE known
  /\ restoring' = [todo |-> SwitchOrder, copy |-> settings']
  /\ unsaved' = FALSE /\ crossed' = {} /\ failed' = FALSE
  /\ UNCHANGED <<saved, bridge, commands>>

\* Everything but the files is gone; a write is done or not, never half done.
End ==
  /\ up
  /\ up' = FALSE
  /\ bridge' = Defaults.on
  /\ commands' = {}
  /\ restoring' = NotRestoring
  /\ settings' = Defaults /\ inForce' = Choice[1] /\ identity' = KeyMissing
  /\ failed' = FALSE /\ unsaved' = FALSE /\ crossed' = {}
  /\ UNCHANGED <<fileVars, starts, faults, accepted, unread, known>>

\* The key's file is damaged or lost, or reading it fails at the next start.
DamageKey ==
  /\ ~up /\ key # KeyMissing /\ Faulty
  /\ key' = KeyMissing /\ known' = KeyMissing
  /\ UNCHANGED <<up, settings, saved, inForce, bridge, commands, restoring, identity, starts,
                 accepted, failed, unsaved, crossed, unread>>

\* So is settings.json, and the app is as it was first found.
DamageSettings ==
  /\ ~up /\ saved # NoFile /\ Faulty
  /\ saved' = NoFile
  /\ accepted' = Choice[1] /\ unread' = FALSE
  /\ UNCHANGED <<up, settings, inForce, bridge, commands, restoring, keyVars, starts,
                 failed, unsaved, crossed>>

UnderWay(t) == {cmd \in commands : cmd.switch = t}
Restores(t) == \E i \in DOMAIN restoring.todo : restoring.todo[i] = t

\* A bridge is told to be on or off.  Bluetooth may fail to start, and stays off.
Told(t, v) ==
  \/ bridge' = [bridge EXCEPT ![t] = v] /\ failed' = (failed /\ t # "ble")
  \/ t = "ble" /\ v /\ ~bridge[t] /\ failed' = TRUE /\ UNCHANGED bridge

\* Mutant: the restore forgets the last of the three.
RestoreTwo ==
  LET t == Head(restoring.todo) IN
  /\ up /\ restoring.todo # <<>>
  /\ restoring' = [restoring EXCEPT !.todo = Tail(@)]
  /\ IF restoring.copy.on[t] /\ t # "lan" THEN Told(t, TRUE) ELSE UNCHANGED <<bridge, failed>>
  /\ UNCHANGED <<up, settings, saved, inForce, commands, readVars, starts, faults, accepted, unsaved, crossed>>

\* The switches that were on are turned on, one after the other; none is turned off.
Restore ==
  LET t == Head(restoring.todo) IN
  /\ up /\ restoring.todo # <<>>
  /\ restoring' = [restoring EXCEPT !.todo = Tail(@)]
  /\ IF restoring.copy.on[t] THEN Told(t, TRUE) ELSE UNCHANGED <<bridge, failed>>
  /\ UNCHANGED <<up, settings, saved, inForce, commands, readVars, starts, faults, accepted, unsaved, crossed>>

-------------------------------------------------------------------------------
(* Commands *)

Click(t, v) ==
  /\ up /\ Cardinality(commands) < MaxCommands
  /\ commands' = commands \union {[switch |-> t, to |-> v, step |-> "flip"]}
  /\ crossed' = IF UnderWay(t) # {} \/ Restores(t) THEN crossed \union {t} ELSE crossed
  /\ UNCHANGED <<up, settings, saved, inForce, bridge, restoring, readVars, starts, faults, accepted,
                 failed, unsaved>>

\* If the bridge does not start, the command ends here.
Flip(cmd) ==
  /\ cmd.step = "flip"
  /\ Told(cmd.switch, cmd.to)
  /\ commands' = (commands \ {cmd}) \union
       {next \in {[cmd EXCEPT !.step = "save"]} : bridge'[cmd.switch] = cmd.to}
  /\ UNCHANGED <<up, settings, saved, inForce, restoring, readVars, starts, faults, accepted, unsaved, crossed>>

\* The settings are saved whole; that it failed is ignored.
SaveSwitch(cmd) ==
  /\ cmd.step = "save"
  /\ settings' = [settings EXCEPT !.on[cmd.switch] = cmd.to]
  /\ \/ saved' = <<settings'>> /\ unsaved' = FALSE /\ unread' = FALSE /\ UNCHANGED faults
     \/ Faulty /\ unsaved' = TRUE /\ UNCHANGED <<saved, unread>>
  /\ commands' = commands \ {cmd}
  /\ UNCHANGED <<up, inForce, bridge, restoring, keyVars, starts, accepted, failed, crossed>>

\* Mutant: the choice takes effect before it is saved.
ChooseFirst(v) ==
  /\ up /\ v # settings.choice
  /\ settings' = [settings EXCEPT !.choice = v]
  /\ \/ /\ saved' = <<settings'>> /\ inForce' = v /\ accepted' = v
        /\ unsaved' = FALSE /\ unread' = FALSE /\ UNCHANGED faults
     \/ Faulty /\ UNCHANGED <<saved, inForce, accepted, unsaved, unread>>
  /\ UNCHANGED <<up, bridge, commands, restoring, keyVars, starts, failed, crossed>>

\* A choice that cannot be saved is not made, and the user is told so.
Choose(v) ==
  /\ up /\ v # settings.choice
  /\ \/ /\ settings' = [settings EXCEPT !.choice = v]
        /\ saved' = <<settings'>> /\ inForce' = v /\ accepted' = v
        /\ unsaved' = FALSE /\ unread' = FALSE /\ UNCHANGED faults
     \/ Faulty /\ UNCHANGED <<settings, saved, inForce, accepted, unsaved, unread>>
  /\ UNCHANGED <<up, bridge, commands, restoring, keyVars, starts, failed, crossed>>

SwitchesNext ==
  \/ Start \/ End \/ DamageKey \/ DamageSettings \/ Restore
  \/ \E t \in Switch, v \in BOOLEAN : Click(t, v)
  \/ \E cmd \in commands : Flip(cmd) \/ SaveSwitch(cmd)
  \/ \E v \in Options : Choose(v)

SwitchesSpec == SwitchesInit /\ [][SwitchesNext]_switchesVars

-------------------------------------------------------------------------------
(* Properties *)

\* The user finds the app as it was left.  When nothing is under way, what runs, what
\* memory holds and what the next start will read agree, also if the app was ended
\* amid a command or amid the restore, or a write failed: a switch is on as it was
\* last set, unless Bluetooth did not start; a choice that was refused does not
\* come back with the next save; and the Mac keeps the identity its phones know.
\* After a start that could not read settings.json memory has the defaults, all of
\* which the next save writes over what the file held (settings.rs:57-63).
\* Not for a switch that two commands, or one and the restore, changed at a time
\* (lib.rs:513).
RestartFindsAll ==
  /\ up /\ (\A t \in Switch : UnderWay(t) = {}) /\ restoring.todo = <<>> =>
       /\ \A t \in Switch \ crossed :
            \/ bridge[t] = settings.on[t]
            \/ t = "ble" /\ failed /\ settings.on[t]
       /\ ~unsaved /\ ~unread => Loaded = settings
  /\ ~unread => Loaded.choice = accepted
  /\ up => settings.choice = accepted /\ inForce = accepted
  /\ up /\ known # KeyMissing => identity = known

=============================================================================
