----------------------------- MODULE SharingProofs -----------------------------
(***************************************************************************)
(* How sharing is switched, announced and timed: that the user finds the   *)
(* app as it was left (RestartFindsAll of Switches), that an announcement  *)
(* is withdrawn (AdvertIsWithdrawn of Discovery), and that the timers of a *)
(* LAN connection are fair (TimersAreFair of LanTimers), for any number of *)
(* switches, commands, starts and faults, and for all periods and waits    *)
(* that the assumptions of the modules allow.                              *)
(*                                                                         *)
(* What the first says of an app at rest is not inductive.  A switch that  *)
(* the restore has yet to reach is off or as the copy has it, and the copy *)
(* is what the settings still say; a command that was carried out has the  *)
(* bridge where it wants it, before the settings say so; and only one      *)
(* command is under way for a switch, unless they crossed.                 *)
(*                                                                         *)
(* Of the announcement: which commands a daemon has left to serve follows  *)
(* from the step of its teardown, and what it has registered and said      *)
(* goodbye for from the commands left.  The repeat that is due is due      *)
(* within Resend, so it is not due any more after ResendWait.              *)
(***************************************************************************)
EXTENDS Switches, Discovery, LanTimers, SequenceTheorems, TLAPS

-------------------------------------------------------------------------------
(* The switches *)

Settings == [on : [Switch -> BOOLEAN], choice : Options]
Command == [switch : Switch, to : BOOLEAN, step : {"flip", "save"}]

SwitchesTypes ==
  /\ up \in BOOLEAN
  /\ settings \in Settings
  /\ saved \in {NoFile} \union {<<s>> : s \in Settings}
  /\ inForce \in Options /\ accepted \in Options
  /\ bridge \in [Switch -> BOOLEAN]
  /\ commands \subseteq Command
  /\ restoring \in [todo : Seq(Switch), copy : Settings]
  /\ {failed, unsaved, unread} \subseteq BOOLEAN
  /\ crossed \subseteq Switch

\* Nothing runs in an app that is not up.
DownInv == ~up => bridge = Defaults.on /\ commands = {} /\ restoring.todo = <<>>

\* The choice: on disk, and in memory while there is one.
ChoiceInv ==
  /\ ~unread => Loaded.choice = accepted
  /\ up => settings.choice = accepted /\ inForce = accepted

\* The key that the phones know is the one in the file, which is the one in use.
KeyInv ==
  /\ known \in {KeyMissing, key}
  /\ up => identity = key

\* The switch is as it was last set, unless Bluetooth did not start.
AsSet(t) == bridge[t] = settings.on[t] \/ (t = "ble" /\ failed /\ settings.on[t])

\* A switch that nothing crossed.
Followed(t) ==
  /\ Restores(t) => /\ UnderWay(t) = {}
                    /\ settings.on[t] = restoring.copy.on[t]
                    /\ bridge[t] => restoring.copy.on[t]
  /\ \A c, d \in UnderWay(t) : c = d
  /\ \A c \in UnderWay(t) : c.step = "save" => bridge[t] = c.to
  /\ ~Restores(t) /\ (\A c \in UnderWay(t) : c.step = "flip") => AsSet(t)

SwitchInv ==
  /\ up => \A t \in Switch \ crossed : Followed(t)
  /\ up /\ ~unsaved /\ ~unread => Loaded = settings

SwitchesInv == SwitchesTypes /\ DownInv /\ ChoiceInv /\ KeyInv /\ SwitchInv

-------------------------------------------------------------------------------
(* The switches: the data *)

LEMMA OptionIs == \A i \in DOMAIN Choice : Choice[i] \in Options
  BY DEF Options

LEMMA DefaultsAre == Defaults \in Settings /\ Defaults.on \in [Switch -> BOOLEAN] /\ Choice[1] \in Options
<1>1. 1 \in DOMAIN Choice
  BY SwitchesAssumption
<1>2. Choice[1] \in Options
  BY <1>1 DEF Options
<1>3. QED
  BY <1>2 DEF Defaults, Settings

LEMMA LoadedIs == ASSUME SwitchesTypes PROVE Loaded \in Settings
<1>1. CASE saved = NoFile
  BY <1>1, DefaultsAre DEF Loaded
<1>2. ASSUME NEW s \in Settings, saved = <<s>> PROVE Loaded \in Settings
  BY <1>2 DEF Loaded, NoFile
<1>3. QED
  BY <1>1, <1>2 DEF SwitchesTypes

\* What a start has for the settings.
LEMMA ReadIs ==
  ASSUME SwitchesTypes, ReadSettings
  PROVE  /\ settings' \in Settings /\ accepted' \in Options /\ unread' \in BOOLEAN
         /\ ~unread' => settings' = Loaded /\ accepted' = IF unread THEN Loaded.choice ELSE accepted
         /\ unread' => accepted' = settings'.choice
<1>1. Loaded \in Settings /\ Loaded.choice \in Options
  BY LoadedIs DEF Settings
<1>2. CASE settings' = Loaded /\ unread' = FALSE /\ accepted' = IF unread THEN Loaded.choice ELSE accepted
  BY <1>1, <1>2 DEF SwitchesTypes
<1>3. CASE settings' = Defaults /\ unread' = TRUE /\ accepted' = Choice[1]
  BY <1>3, DefaultsAre DEF Defaults
<1>4. QED
  BY <1>2, <1>3 DEF ReadSettings

\* After a write that succeeds the file holds the settings.
LEMMA SavedIs == ASSUME saved' = <<settings'>> PROVE Loaded' = settings'
  BY DEF Loaded, NoFile

LEMMA OrderIs ==
  /\ SwitchOrder \in Seq(Switch)
  /\ \A t \in Switch : \E i \in DOMAIN SwitchOrder : SwitchOrder[i] = t
  /\ Switch \subseteq {"ble", "network", "lan"}
  BY SwitchesAssumption, ElementOfSeq DEF Switch

\* What is told of one switch is told of it only, and leaves it on or off as told
\* unless Bluetooth fails to start.
LEMMA ToldIs ==
  ASSUME SwitchesTypes, NEW t \in Switch, NEW v \in BOOLEAN, Told(t, v)
  PROVE  /\ bridge' \in [Switch -> BOOLEAN] /\ failed' \in BOOLEAN
         /\ \A u \in Switch \ {t} : bridge'[u] = bridge[u]
         /\ t # "ble" => failed' = failed
         /\ \/ bridge'[t] = v
            \/ t = "ble" /\ v /\ ~bridge'[t] /\ ~bridge[t] /\ failed'
<1>1. CASE bridge' = [bridge EXCEPT ![t] = v] /\ failed' = (failed /\ t # "ble")
  BY <1>1 DEF SwitchesTypes
<1>2. CASE t = "ble" /\ v /\ ~bridge[t] /\ failed' = TRUE /\ UNCHANGED bridge
  BY <1>2 DEF SwitchesTypes
<1>3. QED
  BY <1>1, <1>2 DEF Told

\* What is left to restore after the next one.
LEMMA TodoTail ==
  ASSUME restoring \in [todo : Seq(Switch), copy : Settings], restoring.todo # <<>>,
         restoring' = [restoring EXCEPT !.todo = Tail(@)]
  PROVE  /\ restoring' \in [todo : Seq(Switch), copy : Settings]
         /\ Head(restoring.todo) \in Switch
         /\ restoring'.copy = restoring.copy
         /\ \A t : Restores(t)' => Restores(t)
         /\ \A t : Restores(t) /\ t # Head(restoring.todo) => Restores(t)'
<1> DEFINE s == restoring.todo
           r == Tail(s)
<1>1. s \in Seq(Switch) /\ s # <<>> /\ restoring'.todo = r /\ restoring'.copy = restoring.copy
  OBVIOUS
<1>2. /\ r \in Seq(Switch) /\ Head(s) \in Switch /\ Head(s) = s[1] /\ Len(s) \in Nat \ {0}
      /\ Len(r) = Len(s) - 1
      /\ \A i \in 1 .. Len(r) : r[i] = s[i + 1]
  BY <1>1, HeadTailProperties, LenProperties, EmptySeq
<1>3. \A t : Restores(t)' => Restores(t)
  BY <1>1, <1>2 DEF Restores
<1>4. ASSUME NEW t, Restores(t), t # Head(restoring.todo) PROVE Restores(t)'
  <2>1. PICK i \in 1 .. Len(s) : s[i] = t
    BY <1>1, <1>4 DEF Restores
  <2>2. i - 1 \in 1 .. Len(r) /\ r[i - 1] = t
    BY <1>2, <1>4, <2>1
  <2>3. QED
    BY <1>1, <1>2, <2>2 DEF Restores
<1>5. restoring' \in [todo : Seq(Switch), copy : Settings]
  BY <1>2
<1>6. QED
  BY <1>1, <1>2, <1>3, <1>4, <1>5

-------------------------------------------------------------------------------
(* The switches: types, an app that is down, the choice and the key *)

LEMMA SwitchesTypesInit == SwitchesInit => SwitchesTypes
<1> SUFFICES ASSUME SwitchesInit PROVE SwitchesTypes
  OBVIOUS
<1>1. NotRestoring \in [todo : Seq(Switch), copy : Settings]
  BY DefaultsAre DEF NotRestoring
<1>2. QED
  BY <1>1, DefaultsAre DEF SwitchesInit, SwitchesTypes

LEMMA SwitchesTypesNext == SwitchesTypes /\ SwitchesNext => SwitchesTypes'
<1> SUFFICES ASSUME SwitchesTypes, SwitchesNext PROVE SwitchesTypes'
  OBVIOUS
<1> USE DEF SwitchesTypes
<1>1. CASE Start
  <2>1. settings' \in Settings /\ accepted' \in Options /\ unread' \in BOOLEAN
    BY <1>1, ReadIs DEF Start
  <2>2. inForce' \in Options
    BY <1>1, <2>1 DEF Start, Settings
  <2>3. restoring' \in [todo : Seq(Switch), copy : Settings]
    BY <1>1, <2>1, OrderIs DEF Start
  <2>4. QED
    BY <1>1, <2>1, <2>2, <2>3 DEF Start
<1>2. CASE End
  <2>1. NotRestoring \in [todo : Seq(Switch), copy : Settings]
    BY DefaultsAre DEF NotRestoring
  <2>2. QED
    BY <1>2, <2>1, DefaultsAre DEF End, fileVars
<1>3. CASE DamageKey \/ DamageSettings
  BY <1>3, DefaultsAre DEF DamageKey, DamageSettings, readVars, keyVars
<1>4. CASE Restore
  <2>1. /\ restoring' \in [todo : Seq(Switch), copy : Settings]
        /\ Head(restoring.todo) \in Switch
    BY <1>4, TodoTail DEF Restore
  <2>2. bridge' \in [Switch -> BOOLEAN] /\ failed' \in BOOLEAN
    BY <1>4, <2>1, ToldIs DEF Restore
  <2>3. QED
    BY <1>4, <2>1, <2>2 DEF Restore, readVars
<1>5. ASSUME NEW t \in Switch, NEW v \in BOOLEAN, Click(t, v) PROVE SwitchesTypes'
  BY <1>5 DEF Click, Command, readVars
<1>6. ASSUME NEW cmd \in commands, Flip(cmd) PROVE SwitchesTypes'
  <2>1. cmd \in Command /\ cmd.switch \in Switch /\ cmd.to \in BOOLEAN /\ [cmd EXCEPT !.step = "save"] \in Command
    BY DEF Command
  <2>2. bridge' \in [Switch -> BOOLEAN] /\ failed' \in BOOLEAN
    BY <1>6, <2>1, ToldIs DEF Flip
  <2>3. commands' \subseteq Command
    BY <1>6, <2>1 DEF Flip
  <2>4. QED
    BY <1>6, <2>2, <2>3 DEF Flip, readVars
<1>7. ASSUME NEW cmd \in commands, SaveSwitch(cmd) PROVE SwitchesTypes'
  <2>1. settings' \in Settings
    BY <1>7 DEF SaveSwitch, Command, Settings
  <2>2. QED
    BY <1>7, <2>1 DEF SaveSwitch
<1>8. ASSUME NEW v \in Options, Choose(v) PROVE SwitchesTypes'
  <2>1. settings' \in Settings
    BY <1>8 DEF Choose, Settings
  <2>2. QED
    BY <1>8, <2>1 DEF Choose
<1>9. QED
  BY <1>1, <1>2, <1>3, <1>4, <1>5, <1>6, <1>7, <1>8 DEF SwitchesNext

LEMMA FilesNext ==
  ASSUME SwitchesTypes, SwitchesTypes', DownInv, ChoiceInv, KeyInv, SwitchesNext
  PROVE  DownInv' /\ ChoiceInv' /\ KeyInv'
<1>1. CASE Start
  <2>1. Loaded' = Loaded
    BY <1>1 DEF Start, Loaded
  <2>2. ChoiceInv'
    BY <1>1, <2>1, ReadIs DEF Start, ChoiceInv
  <2>3. DownInv' /\ KeyInv'
    BY <1>1 DEF Start, DownInv, KeyInv, KeyLoaded
  <2>4. QED
    BY <2>2, <2>3
<1>2. CASE End
  <2>1. Loaded' = Loaded
    BY <1>2 DEF End, Loaded, fileVars
  <2>2. QED
    BY <1>2, <2>1 DEF End, DownInv, ChoiceInv, KeyInv, fileVars, NotRestoring
<1>3. CASE DamageKey
  <2>1. Loaded' = Loaded
    BY <1>3 DEF DamageKey, Loaded
  <2>2. QED
    BY <1>3, <2>1 DEF DamageKey, DownInv, ChoiceInv, KeyInv
<1>4. CASE DamageSettings
  <2>1. Loaded'.choice = Choice[1]
    BY <1>4 DEF DamageSettings, Loaded, Defaults
  <2>2. QED
    BY <1>4, <2>1 DEF DamageSettings, DownInv, ChoiceInv, KeyInv, keyVars
<1>5. ASSUME up, UNCHANGED <<up, inForce, keyVars, accepted>>, settings'.choice = settings.choice,
             ~unread' => (Loaded'.choice = Loaded.choice /\ ~unread) \/ Loaded' = settings'
      PROVE  DownInv' /\ ChoiceInv' /\ KeyInv'
  BY <1>5 DEF DownInv, ChoiceInv, KeyInv, keyVars
<1>6. CASE Restore
  BY <1>5, <1>6 DEF Restore, Loaded, readVars
<1>7. ASSUME NEW t \in Switch, NEW v \in BOOLEAN, Click(t, v) PROVE DownInv' /\ ChoiceInv' /\ KeyInv'
  BY <1>5, <1>7 DEF Click, Loaded, readVars
<1>8. ASSUME NEW cmd \in commands PROVE up
  BY DEF DownInv, SwitchesTypes
<1>9. ASSUME NEW cmd \in commands, Flip(cmd) PROVE DownInv' /\ ChoiceInv' /\ KeyInv'
  BY <1>5, <1>8, <1>9 DEF Flip, Loaded, readVars
<1>10. ASSUME NEW cmd \in commands, SaveSwitch(cmd) PROVE DownInv' /\ ChoiceInv' /\ KeyInv'
  <2>1. settings'.choice = settings.choice
    BY <1>10 DEF SaveSwitch, SwitchesTypes, Settings
  <2>2. ~unread' => (Loaded'.choice = Loaded.choice /\ ~unread) \/ Loaded' = settings'
    <3>1. CASE saved' = <<settings'>>
      BY <3>1, SavedIs
    <3>2. CASE UNCHANGED <<saved, unread>>
      BY <3>2 DEF Loaded
    <3>3. QED
      BY <1>10, <3>1, <3>2 DEF SaveSwitch
  <2>3. QED
    BY <1>5, <1>8, <1>10, <2>1, <2>2 DEF SaveSwitch
<1>11. ASSUME NEW v \in Options, Choose(v) PROVE DownInv' /\ ChoiceInv' /\ KeyInv'
  <2>1. UNCHANGED <<up, keyVars>> /\ up
    BY <1>11 DEF Choose
  <2>2. DownInv' /\ KeyInv'
    BY <2>1 DEF DownInv, KeyInv, keyVars
  <2>3. ChoiceInv'
    <3>1. CASE settings' = [settings EXCEPT !.choice = v] /\ saved' = <<settings'>> /\ inForce' = v /\ accepted' = v
      BY <3>1, SavedIs DEF ChoiceInv, SwitchesTypes, Settings
    <3>2. CASE UNCHANGED <<settings, saved, inForce, accepted, unread>>
      BY <2>1, <3>2 DEF ChoiceInv, Loaded
    <3>3. QED
      BY <1>11, <3>1, <3>2 DEF Choose
  <2>4. QED
    BY <2>2, <2>3
<1>12. QED
  BY <1>1, <1>2, <1>3, <1>6, <1>7, <1>9, <1>10, <1>11, <1>4 DEF SwitchesNext

-------------------------------------------------------------------------------
(* The switches: one that nothing crossed *)

\* The commands for one switch before and after a command of another.
LEMMA OthersWay ==
  ASSUME NEW t, NEW gone, NEW next, commands' = (commands \ gone) \union next,
         \A c \in gone \union next : c.switch # t
  PROVE  UnderWay(t)' = UnderWay(t)
  BY DEF UnderWay

\* A step that leaves of a switch all that matters to it.
LEMMA FollowedStill ==
  ASSUME NEW t \in Switch, Followed(t),
         UnderWay(t)' = UnderWay(t), Restores(t)' <=> Restores(t),
         restoring'.copy = restoring.copy,
         settings'.on[t] = settings.on[t], bridge'[t] = bridge[t],
         t = "ble" => failed' = failed
  PROVE  Followed(t)'
<1>1. AsSet(t)' <=> AsSet(t)
  BY DEF AsSet
<1>2. QED
  BY <1>1 DEF Followed

LEMMA RestoreFollowed ==
  ASSUME SwitchesTypes, Restore, NEW t \in Switch, Followed(t)
  PROVE  Followed(t)'
<1> DEFINE h == Head(restoring.todo)
<1>1. /\ restoring.todo # <<>> /\ restoring' = [restoring EXCEPT !.todo = Tail(@)]
      /\ UNCHANGED <<settings, commands>>
      /\ IF restoring.copy.on[h] THEN Told(h, TRUE) ELSE UNCHANGED <<bridge, failed>>
  BY DEF Restore
<1>2. /\ h \in Switch /\ restoring'.copy = restoring.copy /\ restoring.copy \in Settings
      /\ Restores(t)' => Restores(t)
      /\ t # h => (Restores(t) => Restores(t)')
  BY <1>1, TodoTail DEF SwitchesTypes
<1>3. UnderWay(t)' = UnderWay(t)
  BY <1>1 DEF UnderWay
<1>4. CASE t # h
  <2>1. bridge'[t] = bridge[t] /\ (t = "ble" => failed' = failed)
    BY <1>1, <1>2, <1>4, ToldIs
  <2>2. QED
    BY <1>1, <1>2, <1>3, <1>4, <2>1, FollowedStill
<1>5. CASE t = h
  <2>1. Restores(t)
    <3>1. restoring.todo \in Seq(Switch)
      BY DEF SwitchesTypes
    <3>2. 1 \in DOMAIN restoring.todo /\ restoring.todo[1] = h
      BY <1>1, <3>1, EmptySeq, LenProperties
    <3>3. QED
      BY <1>5, <3>2 DEF Restores
  <2>2. UnderWay(t) = {} /\ settings.on[t] = restoring.copy.on[t] /\ (bridge[t] => restoring.copy.on[t])
    BY <2>1 DEF Followed
  <2>3. restoring.copy.on[t] \in BOOLEAN /\ bridge[t] \in BOOLEAN
    BY <1>2 DEF Settings, SwitchesTypes
  <2>4. CASE restoring.copy.on[t]
    <3>1. bridge'[t] = TRUE \/ (t = "ble" /\ failed')
      BY <1>1, <1>2, <1>5, <2>4, ToldIs
    <3>2. AsSet(t)'
      BY <1>1, <2>2, <2>3, <2>4, <3>1 DEF AsSet, SwitchesTypes, Settings
    <3>3. QED
      BY <1>1, <1>2, <1>3, <2>2, <2>4, <3>2 DEF Followed
  <2>5. CASE ~restoring.copy.on[t]
    <3>1. bridge'[t] = bridge[t]
      BY <1>1, <1>5, <2>5
    <3>2. AsSet(t)'
      BY <1>1, <2>2, <2>3, <2>5, <3>1 DEF AsSet
    <3>3. QED
      BY <1>1, <1>2, <1>3, <2>2, <3>1, <3>2 DEF Followed
  <2>6. QED
    BY <2>4, <2>5
<1>6. QED
  BY <1>4, <1>5

LEMMA ClickFollowed ==
  ASSUME SwitchesTypes, NEW u \in Switch, NEW v \in BOOLEAN, Click(u, v),
         NEW t \in Switch \ crossed', Followed(t)
  PROVE  Followed(t)'
<1> DEFINE new == [switch |-> u, to |-> v, step |-> "flip"]
<1>1. /\ commands' = commands \union {new}
      /\ UNCHANGED <<settings, bridge, restoring, failed>>
      /\ t = u => UnderWay(t) = {} /\ ~Restores(t)
  BY DEF Click
<1>2. Restores(t)' <=> Restores(t)
  BY <1>1 DEF Restores
<1>3. CASE t # u
  <2>1. UnderWay(t)' = UnderWay(t)
    BY <1>1, <1>3 DEF UnderWay
  <2>2. QED
    BY <1>1, <1>2, <2>1, FollowedStill
<1>4. CASE t = u
  <2>1. UnderWay(t)' = {new}
    BY <1>1, <1>4 DEF UnderWay
  <2>2. AsSet(t)'
    BY <1>1, <1>4 DEF Followed, AsSet
  <2>3. QED
    BY <1>1, <1>2, <1>4, <2>1, <2>2 DEF Followed
<1>5. QED
  BY <1>3, <1>4

\* The one command under way for a switch that the restore has done with.
LEMMA OnlyCommand ==
  ASSUME NEW cmd \in commands, Followed(cmd.switch)
  PROVE  UnderWay(cmd.switch) = {cmd} /\ ~Restores(cmd.switch)
<1>1. cmd \in UnderWay(cmd.switch)
  BY DEF UnderWay
<1>2. QED
  BY <1>1 DEF Followed

LEMMA FlipFollowed ==
  ASSUME SwitchesTypes, NEW cmd \in commands, Flip(cmd), NEW t \in Switch, Followed(t)
  PROVE  Followed(t)'
<1> DEFINE next == {n \in {[cmd EXCEPT !.step = "save"]} : bridge'[cmd.switch] = cmd.to}
<1>1. /\ cmd.step = "flip" /\ Told(cmd.switch, cmd.to)
      /\ commands' = (commands \ {cmd}) \union next
      /\ UNCHANGED <<settings, restoring>>
  BY DEF Flip
<1>2. cmd \in Command /\ cmd.switch \in Switch /\ cmd.to \in BOOLEAN
  BY DEF SwitchesTypes, Command
<1>3. \A n \in next : n.switch = cmd.switch /\ n.step = "save" /\ n.to = cmd.to /\ bridge'[cmd.switch] = cmd.to
  BY <1>2 DEF Command
<1>4. Restores(t)' <=> Restores(t)
  BY <1>1 DEF Restores
<1>5. CASE t # cmd.switch
  <2>1. UnderWay(t)' = UnderWay(t)
    BY <1>1, <1>3, <1>5 DEF UnderWay
  <2>2. bridge'[t] = bridge[t] /\ (t = "ble" => failed' = failed)
    BY <1>1, <1>2, <1>5, ToldIs
  <2>3. QED
    BY <1>1, <1>4, <2>1, <2>2, FollowedStill
<1>6. CASE t = cmd.switch
  <2>1. UnderWay(t) = {cmd} /\ ~Restores(t)
    BY <1>6, OnlyCommand
  <2>2. UnderWay(t)' = next
    BY <1>1, <1>3, <1>6, <2>1 DEF UnderWay
  <2>3. AsSet(t)
    BY <1>1, <2>1 DEF Followed
  <2>4. next = {} => AsSet(t)'
    <3>1. SUFFICES ASSUME next = {} PROVE AsSet(t)'
      OBVIOUS
    <3>2. bridge'[t] # cmd.to
      BY <1>6, <3>1
    <3>3. t = "ble" /\ cmd.to /\ ~bridge'[t] /\ ~bridge[t] /\ failed'
      BY <1>1, <1>2, <1>6, <3>2, ToldIs
    <3>4. bridge'[t] \in BOOLEAN /\ bridge[t] \in BOOLEAN
      BY <1>1, <1>2, ToldIs DEF SwitchesTypes
    <3>5. QED
      BY <1>1, <2>3, <3>3, <3>4 DEF AsSet
  <2>5. next # {} => \E c \in next : c.step = "save"
    BY <1>3
  <2>6. \A c, d \in next : c = d
    OBVIOUS
  <2>7. QED
    BY <1>3, <1>4, <1>6, <2>1, <2>2, <2>4, <2>5, <2>6 DEF Followed
<1>7. QED
  BY <1>5, <1>6

LEMMA SaveFollowed ==
  ASSUME SwitchesTypes, NEW cmd \in commands, SaveSwitch(cmd), NEW t \in Switch, Followed(t)
  PROVE  Followed(t)'
<1>1. /\ cmd.step = "save" /\ commands' = commands \ {cmd}
      /\ settings' = [settings EXCEPT !.on[cmd.switch] = cmd.to]
      /\ UNCHANGED <<restoring, bridge, failed>>
  BY DEF SaveSwitch
<1>2. cmd \in Command /\ cmd.switch \in Switch /\ cmd.to \in BOOLEAN /\ settings \in Settings
  BY DEF SwitchesTypes, Command
<1>3. settings'.on[cmd.switch] = cmd.to /\ \A u \in Switch \ {cmd.switch} : settings'.on[u] = settings.on[u]
  BY <1>1, <1>2 DEF Settings
<1>4. Restores(t)' <=> Restores(t)
  BY <1>1 DEF Restores
<1>5. CASE t # cmd.switch
  <2>1. UnderWay(t)' = UnderWay(t)
    BY <1>1, <1>5 DEF UnderWay
  <2>2. QED
    BY <1>1, <1>3, <1>4, <1>5, <2>1, FollowedStill
<1>6. CASE t = cmd.switch
  <2>1. UnderWay(t) = {cmd} /\ ~Restores(t)
    BY <1>6, OnlyCommand
  <2>2. UnderWay(t)' = {}
    BY <1>1, <2>1 DEF UnderWay
  <2>3. AsSet(t)'
    BY <1>1, <1>3, <1>6, <2>1 DEF Followed, AsSet
  <2>4. QED
    BY <1>4, <2>1, <2>2, <2>3 DEF Followed
<1>7. QED
  BY <1>5, <1>6

LEMMA SwitchStep ==
  ASSUME SwitchesTypes, SwitchesTypes', DownInv, SwitchInv, SwitchesNext
  PROVE  SwitchInv'
<1>1. CASE Start
  <2>1. restoring' = [todo |-> SwitchOrder, copy |-> settings']
        /\ commands' = {} /\ bridge' = Defaults.on /\ saved' = saved
    BY <1>1 DEF Start, DownInv
  <2>2. ASSUME NEW t \in Switch PROVE Followed(t)'
    <3>1. Restores(t)' /\ restoring'.copy = settings'
      BY <2>1, OrderIs DEF Restores
    <3>2. UnderWay(t)' = {}
      BY <2>1 DEF UnderWay
    <3>3. bridge'[t] = FALSE
      BY <2>1 DEF Defaults
    <3>4. QED
      BY <2>1, <3>1, <3>2, <3>3 DEF Followed
  <2>3. ~unread' => Loaded' = settings'
    BY <1>1, <2>1, ReadIs DEF Start, Loaded
  <2>4. QED
    BY <2>2, <2>3 DEF SwitchInv
<1>2. CASE End \/ DamageKey \/ DamageSettings
  <2>1. ~up'
    BY <1>2 DEF End, DamageKey, DamageSettings
  <2>2. QED
    BY <2>1 DEF SwitchInv
<1>3. CASE Restore
  BY <1>3, RestoreFollowed DEF Restore, SwitchInv, Loaded, readVars
<1>4. ASSUME NEW u \in Switch, NEW v \in BOOLEAN, Click(u, v) PROVE SwitchInv'
  <2>1. UNCHANGED <<up, settings, saved, unsaved, unread>> /\ crossed \subseteq crossed'
    BY <1>4 DEF Click, readVars
  <2>2. \A t \in Switch \ crossed' : Followed(t) => Followed(t)'
    BY <1>4, ClickFollowed
  <2>3. QED
    BY <2>1, <2>2 DEF SwitchInv, Loaded
<1>5. ASSUME NEW cmd \in commands, Flip(cmd) PROVE SwitchInv'
  <2>1. \A t \in Switch : Followed(t) => Followed(t)'
    BY <1>5, FlipFollowed
  <2>2. QED
    BY <1>5, <2>1 DEF Flip, SwitchInv, Loaded, readVars
<1>6. ASSUME NEW cmd \in commands, SaveSwitch(cmd) PROVE SwitchInv'
  <2>1. \A t \in Switch : Followed(t) => Followed(t)'
    BY <1>6, SaveFollowed
  <2>2. unsaved' \/ Loaded' = settings'
    BY <1>6, SavedIs DEF SaveSwitch
  <2>3. QED
    BY <1>6, <2>1, <2>2 DEF SaveSwitch, SwitchInv
<1>7. ASSUME NEW v \in Options, Choose(v) PROVE SwitchInv'
  <2>1. UNCHANGED <<up, bridge, commands, restoring, failed, crossed>> /\ settings'.on = settings.on
    BY <1>7 DEF Choose, SwitchesTypes, Settings
  <2>2. \A t \in Switch : Followed(t) => Followed(t)'
    <3>1. TAKE t \in Switch
    <3>2. UnderWay(t)' = UnderWay(t) /\ (Restores(t)' <=> Restores(t))
      BY <2>1 DEF UnderWay, Restores
    <3>3. QED
      BY <2>1, <3>2, FollowedStill
  <2>3. up' /\ ~unsaved' /\ ~unread' => Loaded' = settings'
    <3>1. CASE saved' = <<settings'>>
      BY <3>1, SavedIs
    <3>2. CASE UNCHANGED <<settings, saved, unsaved, unread>>
      BY <2>1, <3>2 DEF SwitchInv, Loaded
    <3>3. QED
      BY <1>7, <3>1, <3>2 DEF Choose
  <2>4. QED
    BY <2>1, <2>2, <2>3 DEF SwitchInv
<1>8. QED
  BY <1>1, <1>2, <1>3, <1>4, <1>5, <1>6, <1>7 DEF SwitchesNext

-------------------------------------------------------------------------------
(* The switches: the theorems *)

LEMMA SwitchesStart == SwitchesInit => SwitchesInv
<1> SUFFICES ASSUME SwitchesInit PROVE SwitchesInv
  OBVIOUS
<1>1. SwitchesTypes
  BY SwitchesTypesInit
<1>2. ChoiceInv
  BY DEF SwitchesInit, ChoiceInv, Loaded, Defaults
<1>3. DownInv /\ KeyInv /\ SwitchInv
  BY DEF SwitchesInit, DownInv, KeyInv, SwitchInv, NotRestoring
<1>4. QED
  BY <1>1, <1>2, <1>3 DEF SwitchesInv

LEMMA SwitchesStep == SwitchesInv /\ [SwitchesNext]_switchesVars => SwitchesInv'
<1>1. ASSUME SwitchesInv, SwitchesNext PROVE SwitchesInv'
  BY <1>1, SwitchesTypesNext, FilesNext, SwitchStep DEF SwitchesInv
<1>2. ASSUME SwitchesInv, UNCHANGED switchesVars PROVE SwitchesInv'
  <2>1. UNCHANGED <<up, settings, saved, inForce, bridge, commands, restoring, key, identity,
                    starts, faults, accepted, failed, unsaved, crossed, unread, known>>
    BY <1>2 DEF switchesVars
  <2>2. SwitchesTypes' /\ DownInv' /\ KeyInv'
    BY <1>2, <2>1 DEF SwitchesInv, SwitchesTypes, DownInv, KeyInv
  <2>3. ChoiceInv'
    BY <1>2, <2>1 DEF SwitchesInv, ChoiceInv, Loaded
  <2>4. SwitchInv'
    BY <1>2, <2>1 DEF SwitchesInv, SwitchInv, Followed, AsSet, Restores, UnderWay, Loaded
  <2>5. QED
    BY <2>2, <2>3, <2>4 DEF SwitchesInv
<1>3. QED
  BY <1>1, <1>2

\* The settings, the bridges and the commands under way have the types they should
\* (AppSettings of settings.rs:17-46; the commands of lib.rs:107-125).
THEOREM SwitchesAreTyped == SwitchesSpec => []SwitchesTypes
<1>1. SwitchesInv => SwitchesTypes
  BY DEF SwitchesInv
<1>2. QED
  BY <1>1, SwitchesStart, SwitchesStep, PTL DEF SwitchesSpec

\* The user finds the app as it was left, whenever nothing is under way: whatever
\* commands, failed writes, ends and starts came before (lib.rs:107-125, 1443-1464;
\* settings.rs:57-78; network/identity.rs:10-30).
THEOREM RestartAlwaysFindsAll == SwitchesSpec => []RestartFindsAll
<1>1. SwitchesInv => RestartFindsAll
  <2> SUFFICES ASSUME SwitchesInv PROVE RestartFindsAll
    OBVIOUS
  <2>1. ASSUME up, \A t \in Switch : UnderWay(t) = {}, restoring.todo = <<>>, NEW t \in Switch \ crossed
        PROVE  AsSet(t)
    <3>1. ~Restores(t) /\ UnderWay(t) = {}
      BY <2>1 DEF Restores
    <3>2. QED
      BY <2>1, <3>1 DEF SwitchesInv, SwitchInv, Followed
  <2>2. up => settings.choice = accepted /\ inForce = accepted
    BY DEF SwitchesInv, ChoiceInv
  <2>3. up /\ known # KeyMissing => identity = known
    BY DEF SwitchesInv, KeyInv
  <2>4. QED
    BY <2>1, <2>2, <2>3 DEF RestartFindsAll, AsSet, SwitchesInv, SwitchInv, ChoiceInv
<1>2. QED
  BY <1>1, SwitchesStart, SwitchesStep, PTL DEF SwitchesSpec

-------------------------------------------------------------------------------
(* The timers of a connection *)

TimersTypeOK ==
  /\ instant \in Nat
  /\ ended \in {"no", "silent", "deadline"}
  /\ endedAt \in Int
  /\ lastSeen \in Nat /\ nextPing \in Nat
  /\ unanswered \in Nat \union {Never}
  /\ lifted \in BOOLEAN /\ marked \in BOOLEAN
  /\ vanished \in Nat \union {Never}
  /\ opened \in Int

\* While the connection is open its clock is between the last ping and the next.
\* At the last ping the device had not been silent for Idle.
PingInv ==
  Open =>
    /\ lastSeen <= instant
    /\ instant <= nextPing /\ nextPing <= instant + Ping
    /\ nextPing - Ping < lastSeen + Idle
    /\ ~Present => lastSeen <= vanished /\ vanished <= instant

\* A device that is there has answered the last ping, or is within its time for the
\* oldest ping without an answer, before which it had answered them all.
AnswerInv ==
  Open /\ Present =>
    IF unanswered = Never
    THEN lastSeen >= nextPing - Ping
    ELSE /\ unanswered <= nextPing - Ping
         /\ lastSeen >= unanswered - Ping
         /\ instant <= unanswered + AnswerTime

\* The deadline is met on time, and lifted only for who was authorized.
DeadlineInv ==
  /\ Open /\ ~lifted => instant <= AuthTime
  /\ lifted => marked

EndInv ==
  /\ ended = "silent" => ~Present
  /\ ended = "deadline" => ~marked /\ endedAt >= AuthTime

TimersInv == TimersTypeOK /\ PingInv /\ AnswerInv /\ DeadlineInv /\ EndInv
-------------------------------------------------------------------------------
(* The timers: the invariant is inductive *)

LEMMA Periods ==
  /\ Ping \in Nat /\ Ping > 0
  /\ Idle \in Nat /\ Idle > Ping
  /\ CodeTime \in Nat /\ CodeTime > 0
  /\ AuthTime \in Nat /\ AuthTime > CodeTime
  /\ MaxInstant \in Nat
<1>1. \A p \in {Ping, Idle, AuthTime, CodeTime, MaxInstant} : p \in Nat \ {0}
  BY LanTimersAssumption
<1>2. QED
  BY <1>1, LanTimersAssumption

LEMMA TimersStart == LanTimersInit => TimersInv
<1>1. SUFFICES ASSUME LanTimersInit PROVE TimersInv
  OBVIOUS
<1>2. TimersTypeOK
  <2>1. Never \in Int
    BY DEF Never
  <2>2. opened \in {Never} \union -CodeTime .. 0
    BY <1>1 DEF LanTimersInit
  <2>3. opened \in Int
    BY <2>1, <2>2, Periods
  <2>4. QED
    BY <1>1, <2>1, <2>3, Periods DEF LanTimersInit, TimersTypeOK
<1>3. PingInv /\ AnswerInv /\ DeadlineInv /\ EndInv
  BY <1>1, Periods
  DEF LanTimersInit, PingInv, AnswerInv, DeadlineInv, EndInv, Open, Present, Never
<1>4. QED
  BY <1>2, <1>3 DEF TimersInv

LEMMA TimersStep == TimersInv /\ [LanTimersNext]_timersVars => TimersInv'
<1> SUFFICES ASSUME TimersInv, [LanTimersNext]_timersVars PROVE TimersInv'
  OBVIOUS
<1> USE Periods
<1>1. CASE Talk /\ unanswered' = unanswered
  BY <1>1 DEF Talk,
         TimersInv, TimersTypeOK, PingInv, AnswerInv, DeadlineInv, EndInv,
         Open, Present, Never, AnswerTime
<1>2. CASE Talk /\ unanswered' = Never
  BY <1>2 DEF Talk,
         TimersInv, TimersTypeOK, PingInv, AnswerInv, DeadlineInv, EndInv,
         Open, Present, Never, AnswerTime
<1>3. CASE Vanish
  BY <1>3 DEF Vanish,
         TimersInv, TimersTypeOK, PingInv, AnswerInv, DeadlineInv, EndInv,
         Open, Present, Never, AnswerTime
<1>4. CASE OpenWindow
  BY <1>4 DEF OpenWindow,
         TimersInv, TimersTypeOK, PingInv, AnswerInv, DeadlineInv, EndInv,
         Open, Present, Never, AnswerTime
<1>5. CASE Authenticate
  BY <1>5 DEF Authenticate,
         TimersInv, TimersTypeOK, PingInv, AnswerInv, DeadlineInv, EndInv,
         Open, Present, Never, AnswerTime
<1>6. CASE PingDue /\ Silent
  BY <1>6 DEF PingDue, Silent,
         TimersInv, TimersTypeOK, PingInv, AnswerInv, DeadlineInv, EndInv,
         Open, Present, Never, AnswerTime
<1>7. CASE PingDue /\ ~Silent
  BY <1>7 DEF PingDue, Silent,
         TimersInv, TimersTypeOK, PingInv, AnswerInv, DeadlineInv, EndInv,
         Open, Present, Never, AnswerTime
<1>8. CASE MeetDeadline
  <2>1. CASE MeetDeadline /\ marked
    BY <2>1 DEF MeetDeadline, DeadlineDue,
           TimersInv, TimersTypeOK, PingInv, AnswerInv, DeadlineInv, EndInv,
           Open, Present, Never, AnswerTime
  <2>2. CASE MeetDeadline /\ ~marked
    BY <2>2 DEF MeetDeadline, DeadlineDue,
           TimersInv, TimersTypeOK, PingInv, AnswerInv, DeadlineInv, EndInv,
           Open, Present, Never, AnswerTime
  <2>3. QED
    BY <1>8, <2>1, <2>2
<1>9. CASE PassInstant
  BY <1>9 DEF PassInstant, DeadlineDue,
         TimersInv, TimersTypeOK, PingInv, AnswerInv, DeadlineInv, EndInv,
         Open, Present, Never, AnswerTime
<1>10. CASE UNCHANGED timersVars
  BY <1>10 DEF timersVars,
         TimersInv, TimersTypeOK, PingInv, AnswerInv, DeadlineInv, EndInv,
         Open, Present, Never, AnswerTime
<1>11. CASE Talk
  <2>1. unanswered' = unanswered \/ unanswered' = Never
    BY <1>11 DEF Talk
  <2>2. QED
    BY <1>1, <1>2, <1>11, <2>1
<1>12. QED
  BY <1>3, <1>4, <1>5, <1>6, <1>7, <1>8, <1>9, <1>10, <1>11 DEF LanTimersNext

\* Who vanished is noticed within Idle + Ping, who answers is not cut off, a stranger
\* leaves at the deadline, and not while a code may still be typed.
THEOREM TimersFair == LanTimersSpec => []TimersAreFair
<1>1. TimersInv => TimersAreFair
  BY Periods
  DEF TimersInv, TimersTypeOK, PingInv, AnswerInv, DeadlineInv, EndInv, TimersAreFair, Open, Present, Never
<1>2. QED
  BY <1>1, TimersStart, TimersStep, PTL DEF LanTimersSpec
-------------------------------------------------------------------------------
(* The announcement: the invariant *)

Step == {"none", "spawned", "unspawned", "asked", "acked", "unacked", "done", "done unacked"}

\* What may be left of the commands that a daemon was given.
None == <<>>
R == <<"register">>
U == <<"unregister">>
S == <<"shutdown">>
RU == <<"register", "unregister">>
RS == <<"register", "shutdown">>
US == <<"unregister", "shutdown">>
RUS == <<"register", "unregister", "shutdown">>

Queues == {None, R, U, S, RU, RS, US, RUS}
Daemon == [commands : Queues, up : BOOLEAN, registered : BOOLEAN,
           repeatAt : Nat \union {NotDue}, answered : BOOLEAN, announced : BOOLEAN, goodbyes : Nat]
Teardown == [step : Step, at : Nat]

\* The commands left at a step of the teardown; held: the advertiser has the publication.
Left(step, held) ==
  CASE step = "none" -> IF held THEN {None, R} ELSE {None, S, RS}
    [] step = "spawned" -> {None, R}
    [] step = "unspawned" -> {None, S, RS}
    [] step \in {"asked", "unacked"} -> {None, U, RU}
    [] step = "acked" -> {None}
    [] step = "done" -> {None, S}
    [] step = "done unacked" -> {None, S, US, RUS}

\* The daemon has been told to end.
Ending(step, held) == step \in {"done", "done unacked", "unspawned"} \/ (step = "none" /\ ~held)

\* A daemon d whose teardown is at t.
InOrder(d, t, held) ==
  /\ held => t.step = "none"
  /\ d.commands \in Left(t.step, held)
  /\ d.up <=> (d.commands # None \/ ~Ending(t.step, held))
  /\ d.registered => d.up
  /\ d.commands \in {R, RU, RS, RUS} => ~d.registered /\ ~d.announced
  /\ d.commands \in {U, US} => d.registered
  /\ t.step \in {"none", "spawned"} /\ d.up /\ d.commands = None => d.registered
  /\ d.answered => /\ t.step \notin {"none", "spawned", "unspawned"}
                   /\ d.commands \in {None, S} /\ ~d.registered
  /\ t.step = "asked" /\ d.commands = None => d.answered
  /\ t.step \in {"acked", "done"} => d.answered

\* What it has said goodbye for, and how often; clock: the clock.
Said(d, t, clock) ==
  /\ d.announced => d.registered \/ d.goodbyes >= 1
  /\ d.answered /\ d.announced => d.goodbyes >= IF d.repeatAt = NotDue THEN 2 ELSE 1
  /\ d.up /\ d.repeatAt # NotDue => d.repeatAt \in clock .. clock + Resend
  /\ t.step = "acked" /\ d.repeatAt # NotDue => d.repeatAt <= t.at + Resend
  /\ t.step = "done" => d.repeatAt = NotDue

DiscoveryTypes ==
  /\ moment \in Nat /\ advertising \in BOOLEAN
  /\ daemons \in Seq(Daemon) /\ teardown \in Seq(Teardown)
  /\ Len(teardown) = Len(daemons) /\ live \in 0 .. Len(daemons)

Orderly(p) ==
  InOrder(daemons[p], teardown[p], p = live) /\ Said(daemons[p], teardown[p], moment)

DiscoveryInv ==
  /\ DiscoveryTypes
  /\ advertising <=> live # NoPub
  /\ \A p \in Pubs : Orderly(p)

-------------------------------------------------------------------------------
(* The announcement: the words of commands *)

\* No two are the same word.
LEMMA Words ==
  /\ None \notin {R, U, S, RU, RS, US, RUS}
  /\ R \notin {U, S, RU, RS, US, RUS} /\ U \notin {S, RU, RS, US, RUS} /\ S \notin {RU, RS, US, RUS}
  /\ RU \notin {RS, US, RUS} /\ RS \notin {US, RUS} /\ US # RUS
<1>1. /\ Len(None) = 0 /\ Len(R) = 1 /\ Len(U) = 1 /\ Len(S) = 1 /\ Len(RU) = 2 /\ Len(RS) = 2
      /\ Len(US) = 2 /\ Len(RUS) = 3
      /\ R[1] = "register" /\ U[1] = "unregister" /\ S[1] = "shutdown"
      /\ RU[1] = "register" /\ RU[2] = "unregister" /\ RS[1] = "register" /\ RS[2] = "shutdown"
      /\ US[1] = "unregister"
  BY DEF None, R, U, S, RU, RS, US, RUS
<1>2. None \notin {R, U, S, RU, RS, US, RUS}
  BY <1>1
<1>3. R \notin {U, S, RU, RS, US, RUS} /\ U \notin {S, RU, RS, US, RUS}
  BY <1>1
<1>4. S \notin {RU, RS, US, RUS} /\ RU \notin {RS, US, RUS} /\ RS \notin {US, RUS} /\ US # RUS
  BY <1>1
<1>5. QED
  BY <1>2, <1>3, <1>4

LEMMA Heads ==
  /\ \A q \in {R, RU, RS, RUS} : Head(q) = "register"
  /\ \A q \in {U, US} : Head(q) = "unregister"
  /\ Head(S) = "shutdown"
  BY DEF R, U, S, RU, RS, US, RUS

LEMMA Tails ==
  /\ Tail(R) = None /\ Tail(U) = None /\ Tail(S) = None
  /\ Tail(RU) = U /\ Tail(RS) = S /\ Tail(US) = S /\ Tail(RUS) = US
  BY DEF None, R, U, S, RU, RS, US, RUS

LEMMA AppendIs ==
  ASSUME NEW T, NEW q \in Seq(T), NEW w \in Seq(T), NEW e \in T,
         Len(w) = Len(q) + 1, w[Len(w)] = e, \A i \in 1 .. Len(q) : w[i] = q[i]
  PROVE  Append(q, e) = w
<1> DEFINE n == Len(q)
           a == Append(q, e)
<1>1. n \in Nat
  BY LenProperties
<1>2. a \in Seq(T) /\ Len(a) = n + 1 /\ a[n + 1] = e /\ \A i \in 1 .. n : a[i] = q[i]
  BY AppendProperties
<1>3. \A i \in 1 .. n + 1 : a[i] = w[i]
  <2>1. \A i \in 1 .. n + 1 : i \in 1 .. n \/ i = n + 1
    BY <1>1
  <2>2. QED
    BY <1>2, <2>1
<1>4. QED
  BY <1>2, <1>3, SeqEqual

LEMMA Appends ==
  /\ Append(None, "shutdown") = S /\ Append(R, "shutdown") = RS /\ Append(U, "shutdown") = US
  /\ Append(RU, "shutdown") = RUS
  /\ Append(None, "unregister") = U /\ Append(R, "unregister") = RU
<1> DEFINE Word == {"register", "unregister", "shutdown"}
<1>1. Append(None, "shutdown") = S /\ Append(None, "unregister") = U
  BY DEF None, S, U
<1>2. {R, U, RS, US, RU, RUS} \subseteq Seq(Word)
  BY DEF R, U, RS, US, RU, RUS
<1>3. /\ Len(R) = 1 /\ Len(U) = 1 /\ Len(RS) = 2 /\ Len(US) = 2 /\ Len(RU) = 2 /\ Len(RUS) = 3
      /\ R[1] = "register" /\ U[1] = "unregister"
      /\ RS[1] = "register" /\ RS[2] = "shutdown" /\ US[1] = "unregister" /\ US[2] = "shutdown"
      /\ RU[1] = "register" /\ RU[2] = "unregister"
      /\ RUS[1] = "register" /\ RUS[2] = "unregister" /\ RUS[3] = "shutdown"
  BY DEF R, U, RS, US, RU, RUS
<1>4. Append(R, "shutdown") = RS
  <2>1. Len(RS) = Len(R) + 1 /\ RS[Len(RS)] = "shutdown" /\ \A i \in 1 .. Len(R) : RS[i] = R[i]
    BY <1>3
  <2>2. R \in Seq(Word) /\ RS \in Seq(Word) /\ "shutdown" \in Word
    BY <1>2
  <2>3. QED
    BY <2>1, <2>2, AppendIs
<1>5. Append(U, "shutdown") = US
  <2>1. Len(US) = Len(U) + 1 /\ US[Len(US)] = "shutdown" /\ \A i \in 1 .. Len(U) : US[i] = U[i]
    BY <1>3
  <2>2. U \in Seq(Word) /\ US \in Seq(Word) /\ "shutdown" \in Word
    BY <1>2
  <2>3. QED
    BY <2>1, <2>2, AppendIs
<1>6. Append(R, "unregister") = RU
  <2>1. Len(RU) = Len(R) + 1 /\ RU[Len(RU)] = "unregister" /\ \A i \in 1 .. Len(R) : RU[i] = R[i]
    BY <1>3
  <2>2. R \in Seq(Word) /\ RU \in Seq(Word) /\ "unregister" \in Word
    BY <1>2
  <2>3. QED
    BY <2>1, <2>2, AppendIs
<1>7. Append(RU, "shutdown") = RUS
  <2>1. Len(RUS) = Len(RU) + 1 /\ RUS[Len(RUS)] = "shutdown" /\ \A i \in 1 .. Len(RU) : RUS[i] = RU[i]
    BY <1>3
  <2>2. RU \in Seq(Word) /\ RUS \in Seq(Word) /\ "shutdown" \in Word
    BY <1>2
  <2>3. QED
    BY <2>1, <2>2, AppendIs
<1>8. QED
  BY <1>1, <1>4, <1>5, <1>6, <1>7

\* Which commands are in a word.
LEMMA Within ==
  /\ \A q \in Queues : (\E i \in DOMAIN q : q[i] = "register") => q \in {R, RU, RS, RUS}
  /\ \A q \in Queues : (\E i \in DOMAIN q : q[i] = "shutdown") <=> q \in {S, RS, US, RUS}
<1>1. ASSUME NEW q \in {S, RS, US, RUS} PROVE \E i \in DOMAIN q : q[i] = "shutdown"
  <2>1. CASE q = S
    BY <2>1 DEF S
  <2>2. CASE q \in {RS, US}
    <3>1. 2 \in DOMAIN q /\ q[2] = "shutdown"
      BY <2>2 DEF RS, US
    <3>2. QED
      BY <3>1
  <2>3. CASE q = RUS
    <3>1. 3 \in DOMAIN q /\ q[3] = "shutdown"
      BY <2>3 DEF RUS
    <3>2. QED
      BY <3>1
  <2>4. QED
    BY <2>1, <2>2, <2>3
<1>2. ASSUME NEW q \in {None, R, U, RU}, NEW i \in DOMAIN q, q[i] = "shutdown" PROVE FALSE
  BY <1>2 DEF None, R, U, RU
<1>3. ASSUME NEW q \in {None, U, S, US}, NEW i \in DOMAIN q, q[i] = "register" PROVE FALSE
  BY <1>3 DEF None, U, S, US
<1>4. QED
  BY <1>1, <1>2, <1>3 DEF Queues

LEMMA Waits ==
  /\ AckWait \in Nat /\ Resend \in Nat /\ ResendWait \in Nat /\ ResendWait > Resend /\ NotDue = -1
  BY DiscoveryAssumption DEF NotDue

-------------------------------------------------------------------------------
(* The announcement: what a step does to a daemon or to a teardown *)

Served(d, clock) ==
  LET bye == IF d.registered THEN d.goodbyes + 1 ELSE d.goodbyes
      rest == [d EXCEPT !.commands = Tail(@)]
  IN  CASE Head(d.commands) = "register" ->
             [rest EXCEPT !.registered = TRUE, !.announced = TRUE]
        [] Head(d.commands) = "unregister" ->
             [rest EXCEPT !.registered = FALSE, !.goodbyes = bye, !.answered = TRUE,
                          !.repeatAt = IF d.registered THEN clock + Resend ELSE NotDue]
        [] Head(d.commands) = "shutdown" ->
             [rest EXCEPT !.up = FALSE, !.registered = FALSE, !.goodbyes = bye]

LEMMA ServedInOrder ==
  ASSUME NEW d \in Daemon, NEW t \in Teardown, NEW held \in BOOLEAN, NEW clock \in Nat,
         d.up, d.commands # None, InOrder(d, t, held), Said(d, t, clock)
  PROVE  /\ Served(d, clock) \in Daemon
         /\ InOrder(Served(d, clock), t, held) /\ Said(Served(d, clock), t, clock)
<1> DEFINE s == Served(d, clock)
           q == d.commands
<1>1. /\ q \in {R, U, S, RU, RS, US, RUS} /\ q \in Left(t.step, held)
      /\ t.step \in Step
      /\ held => t.step = "none"
  BY DEF Daemon, Queues, Teardown, InOrder
<1>2. /\ {d.registered, d.answered, d.announced} \subseteq BOOLEAN
      /\ d.goodbyes \in Nat /\ d.repeatAt \in Nat \union {NotDue}
  BY DEF Daemon
<1>3. CASE q \in {R, RU, RS, RUS}
  <2>1. s = [d EXCEPT !.commands = Tail(q), !.registered = TRUE, !.announced = TRUE]
    BY <1>3, Heads DEF Served, Daemon
  <2>2. Tail(q) \in {None, U, S, US}
    BY <1>3, Tails
  <2>3. /\ s \in Daemon /\ s.commands = Tail(q) /\ s.registered /\ s.announced
        /\ s.up = d.up /\ s.repeatAt = d.repeatAt /\ s.answered = d.answered /\ s.goodbyes = d.goodbyes
    BY <2>1, <2>2 DEF Daemon, Queues
  <2>4. ~d.answered
    BY <1>3, Words DEF InOrder
  <2>5. Tail(q) \in Left(t.step, held) /\ (t.step = "asked" => Tail(q) = U)
        /\ t.step \notin {"acked", "done"}
        /\ (Tail(q) = None => ~Ending(t.step, held))
    BY <1>1, <1>3, Tails, Words DEF Left, Ending, Step
  <2>6. InOrder(s, t, held)
    BY <1>1, <2>2, <2>3, <2>4, <2>5, Words DEF InOrder
  <2>7. Said(s, t, clock)
    BY <2>3, <2>4, <2>5 DEF Said
  <2>8. QED
    BY <2>3, <2>6, <2>7
<1>4. CASE q \in {U, US}
  <2>1. d.registered
    BY <1>4 DEF InOrder
  <2> PICK g \in Nat, due \in Nat : g = d.goodbyes + 1 /\ due = clock + Resend
    BY <1>2, Waits
  <2>2. s = [d EXCEPT !.commands = Tail(q), !.registered = FALSE, !.goodbyes = g,
                      !.answered = TRUE, !.repeatAt = due]
    BY <1>4, <2>1, Heads DEF Served, Daemon
  <2>3. Tail(q) \in {None, S}
    BY <1>4, Tails
  <2>4. /\ s \in Daemon /\ s.commands = Tail(q) /\ ~s.registered /\ s.goodbyes = d.goodbyes + 1
        /\ s.answered /\ s.repeatAt = clock + Resend /\ s.up = d.up /\ s.announced = d.announced
    BY <1>2, <2>2, <2>3, Waits DEF Daemon, Queues
  <2>5. Tail(q) \in Left(t.step, held) /\ t.step \in {"asked", "unacked", "done unacked"}
        /\ (Tail(q) = None => ~Ending(t.step, held))
    BY <1>1, <1>4, Tails, Words DEF Left, Ending, Step
  <2>6. InOrder(s, t, held)
    BY <1>1, <2>3, <2>4, <2>5, Words DEF InOrder
  <2>7. clock + Resend # NotDue /\ clock + Resend \in clock .. clock + Resend
    BY Waits
  <2>8. Said(s, t, clock)
    <3>1. s.repeatAt # NotDue /\ s.repeatAt \in clock .. clock + Resend
      BY <2>4, <2>7
    <3>2. s.goodbyes >= 1
      BY <1>2, <2>4
    <3>3. QED
      BY <2>5, <3>1, <3>2 DEF Said
  <2>9. QED
    BY <2>4, <2>6, <2>8
<1>5. CASE q = S
  <2> PICK g \in Nat : g = IF d.registered THEN d.goodbyes + 1 ELSE d.goodbyes
    BY <1>2
  <2>1. s = [d EXCEPT !.commands = None, !.up = FALSE, !.registered = FALSE, !.goodbyes = g]
    BY <1>5, Heads, Tails DEF Served, Daemon
  <2>2. /\ s \in Daemon /\ s.commands = None /\ ~s.up /\ ~s.registered
        /\ s.goodbyes = g /\ g >= d.goodbyes /\ (d.registered => g >= 1)
        /\ s.repeatAt = d.repeatAt /\ s.answered = d.answered /\ s.announced = d.announced
    <3>1. g >= d.goodbyes /\ (d.registered => g >= 1)
      BY <1>2
    <3>2. QED
      BY <2>1, <3>1 DEF Daemon, Queues
  <2>3. None \in Left(t.step, held) /\ Ending(t.step, held) /\ t.step \notin {"asked", "acked"}
    BY <1>1, <1>5, Words DEF Left, Ending, Step
  <2>4. InOrder(s, t, held)
    BY <2>2, <2>3, Words DEF InOrder
  <2>5. d.answered => ~d.registered
    BY DEF InOrder
  <2>6. Said(s, t, clock)
    BY <1>2, <2>2, <2>3, <2>5 DEF Said
  <2>7. QED
    BY <2>2, <2>4, <2>6
<1>6. QED
  BY <1>1, <1>3, <1>4, <1>5

\* The goodbye that was due.
LEMMA GoodbyeSaid ==
  ASSUME NEW d \in Daemon, NEW t \in Teardown, NEW held \in BOOLEAN, NEW clock \in Nat, NEW s,
         d.repeatAt \in 0 .. clock, InOrder(d, t, held), Said(d, t, clock),
         s = [d EXCEPT !.repeatAt = NotDue, !.goodbyes = @ + 1]
  PROVE  s \in Daemon /\ InOrder(s, t, held) /\ Said(s, t, clock)
<1>1. d.goodbyes \in Nat /\ d.repeatAt # NotDue
  BY Waits DEF Daemon
<1> PICK g \in Nat : g = d.goodbyes + 1
  BY <1>1
<1>2. /\ s \in Daemon /\ s.repeatAt = NotDue /\ s.goodbyes = d.goodbyes + 1
      /\ s.commands = d.commands /\ s.up = d.up /\ s.registered = d.registered
      /\ s.answered = d.answered /\ s.announced = d.announced
  BY <1>1 DEF Daemon
<1>3. InOrder(s, t, held)
  BY <1>2 DEF InOrder
<1>4. Said(s, t, clock)
  BY <1>1, <1>2 DEF Said
<1>5. QED
  BY <1>2, <1>3, <1>4

\* A command that a daemon is given.
LEMMA GivenIs ==
  ASSUME NEW d \in Daemon, NEW command, Append(d.commands, command) \in Queues
  PROVE  LET s == [d EXCEPT !.commands = Append(@, command)] IN
         /\ s \in Daemon /\ s.commands = Append(d.commands, command) /\ s.up = d.up
         /\ s.registered = d.registered /\ s.repeatAt = d.repeatAt /\ s.answered = d.answered
         /\ s.announced = d.announced /\ s.goodbyes = d.goodbyes
  BY DEF Daemon, Queues

-------------------------------------------------------------------------------
(* The announcement: the invariant is inductive *)

LEMMA PubIs ==
  ASSUME DiscoveryTypes
  PROVE  /\ Pubs = 1 .. Len(daemons) /\ Len(daemons) \in Nat
         /\ \A p \in Pubs : /\ daemons[p] \in Daemon /\ teardown[p] \in Teardown
                            /\ [daemons EXCEPT ![p] = daemons[p]] = daemons
                            /\ [teardown EXCEPT ![p] = teardown[p]] = teardown
<1>1. /\ daemons \in [1 .. Len(daemons) -> Daemon] /\ teardown \in [1 .. Len(daemons) -> Teardown]
      /\ Len(daemons) \in Nat
  BY LenProperties DEF DiscoveryTypes
<1>2. QED
  BY <1>1 DEF Pubs

\* One publication moves, or is let go.
LEMMA OneMoves ==
  ASSUME DiscoveryInv, NEW p \in Pubs, NEW d \in Daemon, NEW t \in Teardown,
         daemons' = [daemons EXCEPT ![p] = d], teardown' = [teardown EXCEPT ![p] = t],
         moment' = moment, advertising' \in BOOLEAN,
         live' \in {live, NoPub}, live' # live => p = live, advertising' <=> live' # NoPub,
         InOrder(d, t, p = live'), Said(d, t, moment)
  PROVE  DiscoveryInv'
<1>1. DiscoveryTypes /\ \A q \in Pubs : Orderly(q)
  BY DEF DiscoveryInv
<1>2. p \in 1 .. Len(daemons) /\ p \in 1 .. Len(teardown) /\ Len(daemons) \in Nat
  BY <1>1, PubIs DEF DiscoveryTypes
<1>3. /\ daemons' \in Seq(Daemon) /\ teardown' \in Seq(Teardown)
      /\ Len(daemons') = Len(daemons) /\ Len(teardown') = Len(teardown)
  BY <1>1, <1>2, ExceptSeq DEF DiscoveryTypes
<1>4. DiscoveryTypes'
  BY <1>1, <1>2, <1>3 DEF DiscoveryTypes, NoPub
<1>5. Pubs' = Pubs
  BY <1>1, <1>3, <1>4, PubIs DEF Pubs
<1>6. ASSUME NEW q \in Pubs' PROVE Orderly(q)'
  <2>1. q \in Pubs /\ Orderly(q)
    BY <1>1, <1>5
  <2>2. q \in 1 .. Len(daemons)
    BY <1>1, <2>1, PubIs
  <2>3. CASE q = p
    <3>1. daemons'[q] = d /\ teardown'[q] = t
      BY <1>1, <1>2, <2>3, PubIs DEF DiscoveryTypes
    <3>2. QED
      BY <2>3, <3>1 DEF Orderly
  <2>4. CASE q # p
    <3>1. daemons'[q] = daemons[q] /\ teardown'[q] = teardown[q]
      BY <1>1, <2>1, <2>2, <2>4, PubIs DEF DiscoveryTypes
    <3>2. (q = live') <=> (q = live)
      BY <2>2, <2>4 DEF NoPub
    <3>3. (q = live') = (q = live)
      BY <3>2
    <3>4. QED
      BY <2>1, <3>1, <3>3 DEF Orderly
  <2>5. QED
    BY <2>3, <2>4
<1>7. QED
  BY <1>4, <1>6 DEF DiscoveryInv

\* A publication is begun.
LEMMA OneMore ==
  ASSUME DiscoveryInv, NEW d \in Daemon, NEW t \in Teardown, NEW held \in BOOLEAN,
         daemons' = Append(daemons, d), teardown' = Append(teardown, t), moment' = moment,
         ~advertising, advertising' = held, live' = IF held THEN Len(daemons') ELSE live,
         InOrder(d, t, held), Said(d, t, moment)
  PROVE  DiscoveryInv'
<1> PICK n \in Nat : n = Len(daemons)
  BY PubIs DEF DiscoveryInv
<1>1. DiscoveryTypes /\ live = NoPub /\ (\A q \in Pubs : Orderly(q)) /\ Pubs = 1 .. n
  BY PubIs DEF DiscoveryInv
<1>2. /\ daemons' \in Seq(Daemon) /\ Len(daemons') = n + 1 /\ daemons'[n + 1] = d
      /\ \A q \in 1 .. n : daemons'[q] = daemons[q]
  BY <1>1, AppendProperties DEF DiscoveryTypes
<1>3. /\ teardown' \in Seq(Teardown) /\ Len(teardown') = n + 1 /\ teardown'[n + 1] = t
      /\ \A q \in 1 .. n : teardown'[q] = teardown[q]
  BY <1>1, AppendProperties DEF DiscoveryTypes
<1>4. live' = IF held THEN n + 1 ELSE 0
  BY <1>1, <1>2 DEF NoPub
<1>5. DiscoveryTypes'
  BY <1>1, <1>2, <1>3, <1>4 DEF DiscoveryTypes
<1>6. Pubs' = 1 .. n + 1
  BY <1>2, <1>5, LenProperties DEF Pubs
<1>7. ASSUME NEW q \in 1 .. n PROVE Orderly(q)'
  <2>1. (q = live') <=> (q = live)
    BY <1>1, <1>4 DEF NoPub
  <2>2. (q = live') = (q = live)
    BY <2>1
  <2>3. QED
    BY <1>1, <1>2, <1>3, <2>2 DEF Orderly
<1>8. Orderly(n + 1)'
  <2>1. (n + 1 = live') <=> held
    BY <1>1, <1>4
  <2>2. (n + 1 = live') = held
    BY <2>1
  <2>3. QED
    BY <1>2, <1>3, <2>2 DEF Orderly
<1>9. \A q \in Pubs' : Orderly(q)'
  BY <1>1, <1>6, <1>7, <1>8
<1>10. advertising' <=> live' # NoPub
  BY <1>1, <1>4 DEF NoPub
<1>11. QED
  BY <1>5, <1>9, <1>10 DEF DiscoveryInv

\* A daemon is given a command, and its publication moves on with it.
LEMMA GivenMoves ==
  ASSUME DiscoveryInv, NEW p \in Pubs, NEW command, NEW t \in Teardown,
         Append(daemons[p].commands, command) \in Queues,
         daemons' = Commanded(p, command), teardown' = [teardown EXCEPT ![p] = t],
         moment' = moment, advertising' \in BOOLEAN,
         live' \in {live, NoPub}, live' # live => p = live, advertising' <=> live' # NoPub,
         NEW d, d = [daemons[p] EXCEPT !.commands = Append(@, command)],
         InOrder(d, t, p = live'), Said(d, t, moment)
  PROVE  DiscoveryInv'
<1>1. daemons[p] \in Daemon
  BY PubIs DEF DiscoveryInv
<1>2. d \in Daemon
  BY <1>1, GivenIs
<1>3. daemons' = [daemons EXCEPT ![p] = d]
  BY DEF Commanded
<1>4. QED
  BY <1>2, <1>3, OneMoves

LEMMA DaemonNext ==
  ASSUME DiscoveryInv, NEW p \in Pubs, Serve(p) \/ Goodbye(p)
  PROVE  DiscoveryInv'
<1>1. /\ daemons[p] \in Daemon /\ teardown[p] \in Teardown /\ moment \in Nat
      /\ [teardown EXCEPT ![p] = teardown[p]] = teardown
      /\ InOrder(daemons[p], teardown[p], p = live) /\ Said(daemons[p], teardown[p], moment)
  BY PubIs DEF DiscoveryInv, Orderly, DiscoveryTypes
<1>2. UNCHANGED <<moment, advertising, live, teardown>>
  BY DEF Serve, Goodbye
<1>3. advertising \in BOOLEAN /\ (advertising <=> live # NoPub)
  BY DEF DiscoveryInv, DiscoveryTypes
<1>4. CASE Serve(p)
  <2> DEFINE d == Served(daemons[p], moment)
  <2>1. daemons' = [daemons EXCEPT ![p] = d] /\ daemons[p].up /\ daemons[p].commands # None
    BY <1>4 DEF Serve, Served, None
  <2>2. d \in Daemon /\ InOrder(d, teardown[p], p = live) /\ Said(d, teardown[p], moment)
    BY <1>1, <2>1, ServedInOrder
  <2>3. QED
    BY <1>1, <1>2, <1>3, <2>1, <2>2, OneMoves
<1>5. CASE Goodbye(p)
  <2> PICK d : d = [daemons[p] EXCEPT !.repeatAt = NotDue, !.goodbyes = @ + 1]
    OBVIOUS
  <2>1. daemons' = [daemons EXCEPT ![p] = d] /\ daemons[p].repeatAt \in 0 .. moment
    BY <1>5 DEF Goodbye
  <2>2. d \in Daemon /\ InOrder(d, teardown[p], p = live) /\ Said(d, teardown[p], moment)
    <3>1. ASSUME NEW e \in Daemon, e = daemons[p], NEW held \in BOOLEAN, held = (p = live)
          PROVE  d \in Daemon /\ InOrder(d, teardown[p], held) /\ Said(d, teardown[p], moment)
      <4>1. InOrder(e, teardown[p], held) /\ Said(e, teardown[p], moment) /\ e.repeatAt \in 0 .. moment
        BY <1>1, <2>1, <3>1
      <4>2. d = [e EXCEPT !.repeatAt = NotDue, !.goodbyes = @ + 1]
        BY <3>1
      <4>3. QED
        BY <1>1, <4>1, <4>2, GoodbyeSaid
    <3>2. QED
      BY <1>1, <3>1
  <2>3. QED
    BY <1>1, <1>2, <1>3, <2>1, <2>2, OneMoves
<1>6. QED
  BY <1>4, <1>5

\* A thread's step, and the one that begins it.
LEMMA AskedNext ==
  ASSUME DiscoveryInv, NEW p \in Pubs, Unregister(p)
  PROVE  DiscoveryInv'
<1> PICK e \in Daemon, t \in Teardown : e = daemons[p] /\ t = teardown[p]
  BY PubIs DEF DiscoveryInv
<1> DEFINE d == [e EXCEPT !.commands = Append(@, "unregister")]
           after == [step |-> "asked", at |-> moment]
<1>1. /\ t.step = "spawned" /\ p # live /\ moment \in Nat /\ InOrder(e, t, FALSE) /\ Said(e, t, moment)
      /\ daemons' = Commanded(p, "unregister") /\ teardown' = [teardown EXCEPT ![p] = after]
      /\ UNCHANGED <<moment, advertising, live>>
  <2>1. t.step = "spawned" /\ InOrder(e, t, p = live) /\ Said(e, t, moment) /\ moment \in Nat
    BY DEF Unregister, DiscoveryInv, DiscoveryTypes, Orderly
  <2>2. p # live
    BY <2>1 DEF InOrder
  <2>3. (p = live) = FALSE
    BY <2>2
  <2>4. QED
    BY <2>1, <2>2, <2>3 DEF Unregister
<1>2. e.commands \in {None, R} /\ Append(e.commands, "unregister") \in {U, RU}
  BY <1>1, Appends DEF InOrder, Left
<1>3. /\ d.commands = Append(e.commands, "unregister") /\ d.up = e.up
      /\ d.registered = e.registered /\ d.repeatAt = e.repeatAt /\ d.answered = e.answered
      /\ d.announced = e.announced /\ d.goodbyes = e.goodbyes
  BY <1>2, GivenIs DEF Queues
<1>4. after \in Teardown
  BY <1>1 DEF Teardown, Step
<1>5. e.up /\ ~e.answered
  BY <1>1 DEF InOrder, Ending
<1>6. InOrder(d, after, FALSE)
  <2>1. d.commands \in {U, RU} /\ d.up /\ ~d.answered
    BY <1>2, <1>3, <1>5
  <2>2. d.commands = U => e.commands = None
    BY <1>2, <1>3, Appends, Words
  <2>3. d.commands = RU => e.commands = R
    BY <1>2, <1>3, Appends, Words
  <2>4. (d.commands = U => d.registered) /\ (d.commands = RU => ~d.registered /\ ~d.announced)
    BY <1>1, <1>3, <1>5, <2>2, <2>3 DEF InOrder
  <2>5. after.step = "asked"
    OBVIOUS
  <2>6. d.registered => d.up
    BY <2>1
  <2> HIDE DEF d, after
  <2>7. QED
    BY <2>1, <2>4, <2>5, <2>6, Words DEF InOrder, Left, Ending
<1>7. Said(d, after, moment)
  BY <1>1, <1>3 DEF Said
<1>8. (p = live') = FALSE
  BY <1>1
<1>9. advertising' \in BOOLEAN /\ (advertising' <=> live' # NoPub)
  BY <1>1 DEF DiscoveryInv, DiscoveryTypes
<1>10. QED
  BY <1>1, <1>2, <1>4, <1>6, <1>7, <1>8, <1>9, GivenMoves DEF Queues

LEMMA AcknowledgedNext ==
  ASSUME DiscoveryInv, NEW p \in Pubs, Acknowledged(p)
  PROVE  DiscoveryInv'
<1> PICK d \in Daemon, t \in Teardown : d = daemons[p] /\ t = teardown[p]
  BY PubIs DEF DiscoveryInv
<1>1. /\ t.step = "asked" /\ moment \in Nat /\ InOrder(d, t, p = live) /\ Said(d, t, moment)
      /\ UNCHANGED <<moment, advertising, live, daemons>>
      /\ daemons = [daemons EXCEPT ![p] = d]
  BY PubIs DEF Acknowledged, DiscoveryInv, DiscoveryTypes, Orderly
<1>2. p # live /\ (p = live') = FALSE /\ (p = live) = FALSE
  BY <1>1 DEF InOrder
<1>3. InOrder(d, t, FALSE)
  BY <1>1, <1>2
<1>4. d.up /\ d.commands \in {None, U, RU} /\ (d.commands = None => d.answered)
  BY <1>1, <1>3 DEF InOrder, Ending, Left
<1>5. ASSUME NEW s \in {"acked", "unacked"}, s = "acked" <=> d.answered,
             teardown' = [teardown EXCEPT ![p] = [step |-> s, at |-> moment]]
      PROVE  DiscoveryInv'
  <2> DEFINE after == [step |-> s, at |-> moment]
  <2>1. after \in Teardown
    BY <1>1 DEF Teardown, Step
  <2>2. InOrder(d, after, FALSE)
    BY <1>1, <1>3, <1>4, <1>5, Words DEF InOrder, Left, Ending
  <2>3. Said(d, after, moment)
    <3>1. d.repeatAt # NotDue => d.repeatAt <= moment + Resend
      BY <1>1, <1>4, Waits DEF Said, Daemon
    <3>2. QED
      BY <1>1, <3>1 DEF Said
  <2>4. advertising' \in BOOLEAN /\ (advertising' <=> live' # NoPub)
    BY <1>1 DEF DiscoveryInv, DiscoveryTypes
  <2>5. QED
    BY <1>1, <1>2, <1>5, <2>1, <2>2, <2>3, <2>4, OneMoves
<1>6. QED
  BY <1>5 DEF Acknowledged

LEMMA ShutdownNext ==
  ASSUME DiscoveryInv, NEW p \in Pubs, Shutdown(p)
  PROVE  DiscoveryInv'
<1> PICK e \in Daemon, t \in Teardown : e = daemons[p] /\ t = teardown[p]
  BY PubIs DEF DiscoveryInv
<1> DEFINE d == [e EXCEPT !.commands = Append(@, "shutdown")]
           after == [step |-> IF t.step = "acked" THEN "done" ELSE "done unacked", at |-> moment]
<1>1. /\ t.step \in {"acked", "unacked"} /\ moment >= t.at + ResendWait
      /\ moment \in Nat /\ t.at \in Nat /\ InOrder(e, t, p = live) /\ Said(e, t, moment)
      /\ daemons' = Commanded(p, "shutdown")
      /\ UNCHANGED <<moment, advertising, live>>
  BY DEF Shutdown, DiscoveryInv, DiscoveryTypes, Orderly, Teardown
<1>2. teardown' = [teardown EXCEPT ![p] = after]
  BY PubIs DEF Shutdown, DiscoveryInv
<1>3. p # live /\ (p = live') = FALSE /\ (p = live) = FALSE
  BY <1>1 DEF InOrder
<1>4. InOrder(e, t, FALSE)
  BY <1>1, <1>3
<1>5. e.up /\ e.commands \in {None, U, RU} /\ (t.step = "acked" => e.commands = None /\ e.answered)
  BY <1>1, <1>4 DEF InOrder, Ending, Left
<1>6. Append(e.commands, "shutdown") \in {S, US, RUS}
  BY <1>5, Appends
<1>7. /\ d.commands = Append(e.commands, "shutdown") /\ d.up = e.up
      /\ d.registered = e.registered /\ d.repeatAt = e.repeatAt /\ d.answered = e.answered
      /\ d.announced = e.announced /\ d.goodbyes = e.goodbyes
  BY <1>6, GivenIs DEF Queues
<1>8. after \in Teardown
  BY <1>1 DEF Teardown, Step
<1>9. InOrder(d, after, FALSE)
  <2>1. /\ d.commands = S => e.commands = None
        /\ d.commands = US => e.commands = U
        /\ d.commands = RUS => e.commands = RU
    BY <1>5, <1>7, Appends, Words
  <2>2. d.up /\ d.commands \in {S, US, RUS}
    BY <1>5, <1>6, <1>7
  <2>3. /\ d.answered => d.commands = S /\ ~d.registered
        /\ t.step = "acked" => d.commands = S /\ d.answered
        /\ d.commands = US => d.registered
        /\ d.commands = RUS => ~d.registered /\ ~d.announced
    BY <1>4, <1>5, <1>7, <2>1, Appends, Words DEF InOrder
  <2> DEFINE s == after.step
  <2>4. s = IF t.step = "acked" THEN "done" ELSE "done unacked"
    OBVIOUS
  <2> HIDE DEF d, after
  <2>5. CASE t.step = "acked"
    BY <2>2, <2>3, <2>4, <2>5, Words DEF InOrder, Left, Ending
  <2>6. CASE t.step # "acked"
    BY <2>2, <2>3, <2>4, <2>6, Words DEF InOrder, Left, Ending
  <2>7. QED
    BY <2>5, <2>6
\* By now the goodbye that was to be repeated has been.
<1>10. t.step = "acked" => e.repeatAt = NotDue
  <2>1. ASSUME t.step = "acked", e.repeatAt # NotDue PROVE FALSE
    <3>1. e.repeatAt \in Nat
      BY <2>1 DEF Daemon
    <3>2. e.repeatAt <= t.at + Resend /\ moment <= e.repeatAt
      BY <1>1, <1>5, <2>1, <3>1, Waits DEF Said
    <3>3. QED
      BY <1>1, <3>1, <3>2, Waits
  <2>2. QED
    BY <2>1
<1>11. Said(d, after, moment)
  BY <1>1, <1>7, <1>10 DEF Said
<1>12. advertising' \in BOOLEAN /\ (advertising' <=> live' # NoPub)
  BY <1>1 DEF DiscoveryInv, DiscoveryTypes
<1>13. Append(e.commands, "shutdown") \in Queues
  BY <1>6 DEF Queues
<1>14. QED
  BY <1>1, <1>2, <1>3, <1>8, <1>9, <1>11, <1>12, <1>13, GivenMoves

LEMMA AdvertiseOffNext ==
  ASSUME DiscoveryInv, AdvertiseOff
  PROVE  DiscoveryInv'
<1>1. live \in Pubs /\ live # NoPub /\ advertising
  BY PubIs DEF AdvertiseOff, DiscoveryInv, DiscoveryTypes, NoPub
<1> PICK p \in Pubs, e \in Daemon, t \in Teardown : p = live /\ e = daemons[p] /\ t = teardown[p]
  BY <1>1, PubIs DEF DiscoveryInv
<1>2. /\ StopPub(p) /\ live' = NoPub /\ advertising' = FALSE /\ moment' = moment
      /\ moment \in Nat /\ InOrder(e, t, TRUE) /\ Said(e, t, moment)
  <2>1. InOrder(e, t, p = live) /\ (p = live) = TRUE
    BY DEF DiscoveryInv, Orderly
  <2>2. QED
    BY <2>1 DEF AdvertiseOff, DiscoveryInv, DiscoveryTypes, Orderly
<1>3. (p = live') = FALSE
  BY <1>1, <1>2
<1>4. e.up /\ e.commands \in {None, R} /\ t.step = "none" /\ ~e.answered /\ (e.commands = None => e.registered)
  BY <1>2 DEF InOrder, Ending, Left
<1>5. CASE teardown' = [teardown EXCEPT ![p] = [step |-> "spawned", at |-> moment]] /\ UNCHANGED daemons
  <2> DEFINE after == [step |-> "spawned", at |-> moment]
  <2>1. after \in Teardown
    BY <1>2 DEF Teardown, Step
  <2>2. InOrder(e, after, FALSE)
    BY <1>2, <1>4 DEF InOrder, Left, Ending
  <2>3. Said(e, after, moment)
    BY <1>2 DEF Said
  <2>4. daemons' = [daemons EXCEPT ![p] = e]
    BY <1>5, PubIs DEF DiscoveryInv
  <2>5. QED
    BY <1>2, <1>3, <1>5, <2>1, <2>2, <2>3, <2>4, OneMoves
<1>6. CASE /\ daemons' = Commanded(p, "shutdown")
           /\ teardown' = [teardown EXCEPT ![p] = [step |-> "unspawned", at |-> moment]]
  <2> DEFINE after == [step |-> "unspawned", at |-> moment]
             d == [e EXCEPT !.commands = Append(@, "shutdown")]
  <2>1. after \in Teardown
    BY <1>2 DEF Teardown, Step
  <2>2. Append(e.commands, "shutdown") \in {S, RS} /\ Append(e.commands, "shutdown") \in Queues
    BY <1>4, Appends DEF Queues
  <2>3. /\ d.commands = Append(e.commands, "shutdown") /\ d.up = e.up
        /\ d.registered = e.registered /\ d.repeatAt = e.repeatAt /\ d.answered = e.answered
        /\ d.announced = e.announced /\ d.goodbyes = e.goodbyes
    BY <2>2, GivenIs
  <2>4. InOrder(d, after, FALSE)
    <3>1. d.commands = RS => e.commands = R
      BY <1>4, <2>3, Appends, Words
    <3>2. d.up /\ ~d.answered /\ d.commands \in {S, RS} /\ (d.commands = RS => ~d.registered /\ ~d.announced)
      BY <1>2, <1>4, <2>2, <2>3, <3>1 DEF InOrder
    <3>3. after.step = "unspawned"
      OBVIOUS
    <3> HIDE DEF d, after
    <3>4. QED
      BY <3>2, <3>3, Words DEF InOrder, Left, Ending
  <2>5. Said(d, after, moment)
    BY <1>2, <2>3 DEF Said
  <2>6. QED
    BY <1>2, <1>3, <1>6, <2>1, <2>2, <2>4, <2>5, GivenMoves
<1>7. QED
  BY <1>2, <1>5, <1>6 DEF StopPub

LEMMA AdvertiseOnNext ==
  ASSUME DiscoveryInv, AdvertiseOn
  PROVE  DiscoveryInv'
<1> DEFINE t == [step |-> "none", at |-> moment]
<1>1. t \in Teardown /\ ~advertising /\ moment' = moment /\ moment \in Nat
  BY DEF AdvertiseOn, DiscoveryInv, DiscoveryTypes, Teardown, Step
<1>2. ASSUME UNCHANGED discoveryVars PROVE DiscoveryInv'
  BY <1>2 DEF discoveryVars, DiscoveryInv, DiscoveryTypes, Pubs, Orderly
<1>3. ASSUME NEW q \in Queues
      PROVE  LET d == NewDaemon(q) IN
             /\ d \in Daemon /\ d.commands = q /\ d.up /\ ~d.registered /\ ~d.answered /\ ~d.announced
             /\ Said(d, t, moment)
  <2>1. NewDaemon(q) \in Daemon
    BY Waits DEF NewDaemon, Daemon
  <2>2. QED
    BY <2>1 DEF NewDaemon, Said
<1>4. ASSUME NEW first \in {<<>>, <<"register">>}, PublishFailed(first), teardown' = Append(teardown, t),
             UNCHANGED <<live, advertising>>
      PROVE  DiscoveryInv'
  <2>1. PICK q \in {S, RS} : q = Append(first, "shutdown")
    BY <1>4, Appends DEF None, R
  <2>2. q \in Queues /\ daemons' = Append(daemons, NewDaemon(q))
    BY <1>4, <2>1 DEF PublishFailed, Queues
  <2>3. InOrder(NewDaemon(q), t, FALSE)
    BY <1>3, <2>1, <2>2, Words DEF InOrder, Left, Ending
  <2>4. advertising' = FALSE /\ live' = live
    BY <1>1, <1>4 DEF DiscoveryInv, DiscoveryTypes
  <2>5. QED
    BY <1>1, <1>3, <1>4, <2>2, <2>3, <2>4, OneMore
<1>5. ASSUME daemons' = Append(daemons, NewDaemon(R)), live' = Len(daemons'), advertising' = TRUE,
             teardown' = Append(teardown, t)
      PROVE  DiscoveryInv'
  <2>1. R \in Queues
    BY DEF Queues
  <2>2. InOrder(NewDaemon(R), t, TRUE)
    BY <1>3, <2>1, Words DEF InOrder, Left, Ending
  <2>3. QED
    BY <1>1, <1>3, <1>5, <2>1, <2>2, OneMore
<1>6. QED
  BY <1>2, <1>4, <1>5 DEF AdvertiseOn, R

LEMMA MomentNext ==
  ASSUME DiscoveryInv, PassMoment
  PROVE  DiscoveryInv'
<1>1. moment \in Nat /\ moment' = moment + 1 /\ UNCHANGED <<advertising, live, daemons, teardown>>
  BY DEF PassMoment, DiscoveryInv, DiscoveryTypes
<1>2. DiscoveryTypes' /\ (advertising' <=> live' # NoPub) /\ Pubs' = Pubs
  BY <1>1 DEF DiscoveryInv, DiscoveryTypes, Pubs
<1>3. ASSUME NEW p \in Pubs PROVE Orderly(p)'
  <2> PICK d \in Daemon, t \in Teardown : d = daemons[p] /\ t = teardown[p]
    BY PubIs DEF DiscoveryInv
  <2>1. InOrder(d, t, p = live) /\ Said(d, t, moment) /\ (d.up => d.repeatAt \notin 0 .. moment)
    BY DEF DiscoveryInv, Orderly, PassMoment
  <2>2. d.up /\ d.repeatAt # NotDue => d.repeatAt \in moment + 1 .. moment + 1 + Resend
    BY <1>1, <2>1, Waits DEF Said, Daemon
  <2>3. Said(d, t, moment + 1)
    BY <2>1, <2>2 DEF Said
  <2>4. QED
    BY <1>1, <2>1, <2>3 DEF Orderly
<1>4. QED
  BY <1>2, <1>3 DEF DiscoveryInv

LEMMA DiscoveryStart == DiscoveryInit => DiscoveryInv
<1> SUFFICES ASSUME DiscoveryInit PROVE DiscoveryInv
  OBVIOUS
<1>1. DiscoveryTypes
  <2>1. daemons = <<>> /\ teardown = <<>> /\ <<>> \in Seq(Daemon) /\ <<>> \in Seq(Teardown) /\ Len(<<>>) = 0
    BY EmptySeq DEF DiscoveryInit
  <2>2. /\ daemons \in Seq(Daemon) /\ teardown \in Seq(Teardown)
        /\ Len(teardown) = Len(daemons) /\ Len(daemons) = 0
    BY <2>1
  <2>3. moment = 0 /\ live = 0 /\ advertising = FALSE
    BY DEF DiscoveryInit, NoPub
  <2>4. live \in 0 .. Len(daemons)
    BY <2>2, <2>3
  <2>5. moment \in Nat /\ advertising \in BOOLEAN
    BY <2>3
  <2>6. QED
    BY <2>2, <2>4, <2>5 DEF DiscoveryTypes
<1>2. Pubs = {}
  BY <1>1, PubIs, EmptySeq DEF DiscoveryInit
<1>3. QED
  BY <1>1, <1>2 DEF DiscoveryInit, DiscoveryInv

LEMMA DiscoveryStep == DiscoveryInv /\ [DiscoveryNext]_discoveryVars => DiscoveryInv'
<1> SUFFICES ASSUME DiscoveryInv, [DiscoveryNext]_discoveryVars PROVE DiscoveryInv'
  OBVIOUS
<1>1. CASE UNCHANGED discoveryVars
  BY <1>1 DEF discoveryVars, DiscoveryInv, DiscoveryTypes, Pubs, Orderly
<1>2. QED
  BY <1>1, AdvertiseOnNext, AdvertiseOffNext, MomentNext, DaemonNext, AskedNext, AcknowledgedNext,
     ShutdownNext DEF DiscoveryNext

\* Whatever failed, and whatever came late, no announcement is left behind that
\* nobody can withdraw, and a daemon that had announced ended with a goodbye, with
\* two if the first was acknowledged in time: for all waits with ResendWait > Resend
\* (UNREGISTER_ACK_WAIT, GOODBYE_RESEND_WAIT; Publication::stop of lan/discovery.rs).
THEOREM AdvertIsAlwaysWithdrawn == DiscoverySpec => []AdvertIsWithdrawn
<1>1. DiscoveryInv => AdvertIsWithdrawn
  <2> SUFFICES ASSUME DiscoveryInv PROVE AdvertIsWithdrawn
    OBVIOUS
  <2>1. ASSUME NEW p \in Pubs
        PROVE  /\ Announces(p) => p = live \/ Withdrawing(p)
               /\ p = live => daemons[p].up /\ ~Withdrawing(p)
               /\ ~daemons[p].up /\ daemons[p].announced =>
                    daemons[p].goodbyes >= IF teardown[p].step = "done" THEN 2 ELSE 1
    <3> PICK d \in Daemon, t \in Teardown : d = daemons[p] /\ t = teardown[p]
      BY PubIs DEF DiscoveryInv
    <3>1. InOrder(d, t, p = live) /\ Said(d, t, moment) /\ d.commands \in Queues /\ t.step \in Step
      BY DEF DiscoveryInv, Orderly, Daemon, Teardown
    <3>2. Withdrawing(p) <=> \/ t.step \in {"spawned", "asked", "acked", "unacked"}
                             \/ d.commands \in {S, RS, US, RUS}
      BY <3>1, Within DEF Withdrawing
    <3>3. CASE p = live
      <4>1. (p = live) = TRUE
        BY <3>3
      <4>2. InOrder(d, t, TRUE)
        BY <3>1, <4>1
      <4>3. d.up /\ t.step = "none" /\ d.commands \in {None, R}
        BY <4>2 DEF InOrder, Left, Ending
      <4>4. QED
        BY <3>2, <3>3, <4>3, Words
    <3>4. CASE p # live
      <4>1. (p = live) = FALSE
        BY <3>4
      <4>2. InOrder(d, t, FALSE)
        BY <3>1, <4>1
      <4>3. d.up => Withdrawing(p)
        <5>1. CASE t.step \in {"spawned", "asked", "acked", "unacked"}
          BY <3>2, <5>1
        <5>2. CASE t.step \in {"none", "unspawned", "done", "done unacked"}
          BY <3>2, <4>2, <5>2 DEF InOrder, Left, Ending
        <5>3. QED
          BY <3>1, <5>1, <5>2 DEF Step
      <4>4. ~d.up /\ d.announced => d.goodbyes >= IF t.step = "done" THEN 2 ELSE 1
        BY <3>1, <4>2 DEF InOrder, Said
      <4>5. Announces(p) => d.up
        BY DEF Announces
      <4>6. QED
        BY <3>4, <4>3, <4>4, <4>5
    <3>5. QED
      BY <3>3, <3>4
  <2>2. QED
    BY <2>1 DEF AdvertIsWithdrawn, DiscoveryInv
<1>2. QED
  BY <1>1, DiscoveryStart, DiscoveryStep, PTL DEF DiscoverySpec
===============================================================================
