------------------------------- MODULE PeerStore ------------------------------
(***************************************************************************)
(* paired-peers.json: how the tokens of PairingManager reach the disk and  *)
(* come back (peers.rs, and save_paired_peers, persist_and_drop and the    *)
(* start-up block of lib.rs).                                              *)
(*                                                                         *)
(* save_paired_peers copies the token list under the pairing mutex and     *)
(* writes it after releasing it.  The BLE loop, every network connection,  *)
(* the LAN loop and the unpair commands call it from tasks of one          *)
(* multi-threaded runtime: a Saver is such a task.  The temporary file is  *)
(* named after the process, so savers share the name.  A file is an inode: *)
(* create and write follow the handle, rename and unlink the name.         *)
(* paired_at is left out.  The app may be killed between any two steps.    *)
(***************************************************************************)
EXTENDS Naturals

CONSTANTS Saver, Token,
          Legacy,       \* tokens in ble-peers.json and network-peers.json
          NoFile,       \* a name that does not exist
          MaxInode,     \* bound: files created
          MaxFaults,    \* bound: I/O errors
          MaxCrashes,   \* bound: times the app is killed
          Unreadable    \* whether an existing store may fail to be read

ASSUME StoreAssumption ==
  /\ Legacy \subseteq Token
  /\ MaxInode \in Nat \ {0} /\ MaxFaults \in Nat /\ MaxCrashes \in Nat
  /\ Unreadable \in BOOLEAN
  /\ NoFile \notin 0 .. MaxInode

Inode == 0 .. MaxInode         \* 0: the store found at the first start, if any

VARIABLES
  up,        \* the app is running
  tokens,    \* PairingManager.tokens
  minted,    \* every token ever issued
  path,      \* paired-peers.json
  tmp,       \* paired-peers.json.<pid>.tmp
  body,      \* inode -> what was written to it
  pc,        \* saver -> next step of save_paired_peers
  change,    \* saver -> the tokens it saves for, while it is the last to change them
  list,      \* saver -> the copy it took
  file,      \* saver -> the inode it has open
  next,      \* inodes created so far
  faults, crashes,
  told,      \* token -> what the last completed save told the user
  overlap    \* history: two saves were under way at once

vars == <<up, tokens, minted, path, tmp, body, pc, change, list, file, next, faults, crashes, told, overlap>>
disk == <<path, tmp, body>>
saver == <<pc, change, list, file>>
counts == <<next, faults, crashes>>

Written(ts) == [whole |-> TRUE, peers |-> ts]
Empty == [whole |-> FALSE, peers |-> {}]

Idle == [s \in Saver |-> "idle"]

\* The store of an earlier run, or none yet.
Init ==
  /\ up = TRUE
  /\ \E ts \in SUBSET Token :
       \/ path = 0 /\ body = [i \in Inode |-> IF i = 0 THEN Written(ts) ELSE Empty] /\ tokens = ts
       \/ path = NoFile /\ body = [i \in Inode |-> Empty] /\ tokens = Legacy /\ ts = {}
  /\ minted = tokens \union Legacy
  /\ tmp = NoFile
  /\ pc = Idle
  /\ change = [s \in Saver |-> {}]
  /\ list = [s \in Saver |-> {}]
  /\ file = [s \in Saver |-> 0]
  /\ next = 0 /\ faults = 0 /\ crashes = 0
  /\ told = [t \in Token |-> "nothing"]
  /\ overlap = FALSE

-------------------------------------------------------------------------------
(* The operations that end in a save.  The token set changes under the mutex; *)
(* unpair drops the sessions on every bridge before it saves. *)

Change(s, ts) ==
  /\ up /\ pc[s] = "idle" /\ next < MaxInode
  /\ pc' = [pc EXCEPT ![s] = "collect"]
  /\ change' = [r \in Saver |-> IF r = s THEN ts ELSE change[r] \ ts]
  /\ told' = [t \in Token |-> IF t \in ts THEN "nothing" ELSE told[t]]
  /\ overlap' = (overlap \/ pc # Idle)
  /\ UNCHANGED <<up, disk, list, file, counts>>

\* A grant mints a token of its own.
GrantPeer(s, t) ==
  /\ t \notin minted
  /\ tokens' = tokens \union {t}
  /\ minted' = minted \union {t}
  /\ Change(s, {t})

\* One device, none of which the id is known, or all.
Revocable == {{t} : t \in tokens} \union {{}, tokens}

Unpair(s, ts) ==
  /\ ts \in Revocable
  /\ tokens' = tokens \ ts
  /\ UNCHANGED minted
  /\ Change(s, ts)

-------------------------------------------------------------------------------
(* save_paired_peers *)

Goto(s, label) == pc' = [pc EXCEPT ![s] = label]

Collect(s) ==
  /\ up /\ pc[s] = "collect"
  /\ list' = [list EXCEPT ![s] = tokens]
  /\ Goto(s, "probe")
  /\ UNCHANGED <<up, tokens, minted, disk, change, file, counts, told, overlap>>

\* Mutant: a leftover temporary file is not looked for.
ProbeSkipped(s) ==
  /\ up /\ pc[s] = "probe"
  /\ Goto(s, "create")
  /\ UNCHANGED <<up, tokens, minted, disk, change, list, file, counts, told, overlap>>

Probe(s) ==
  /\ up /\ pc[s] = "probe"
  /\ Goto(s, IF tmp = NoFile THEN "create" ELSE "remove")
  /\ UNCHANGED <<up, tokens, minted, disk, change, list, file, counts, told, overlap>>

Remove(s) ==
  /\ up /\ pc[s] = "remove" /\ tmp # NoFile
  /\ tmp' = NoFile
  /\ Goto(s, "create")
  /\ UNCHANGED <<up, tokens, minted, path, body, change, list, file, counts, told, overlap>>

\* Mutant: the store is written in place, without a temporary file.
CreateInPlace(s) ==
  /\ up /\ pc[s] = "create" /\ next < MaxInode
  /\ next' = next + 1
  /\ path' = next + 1
  /\ file' = [file EXCEPT ![s] = next + 1]
  /\ Goto(s, "write")
  /\ UNCHANGED <<up, tokens, minted, tmp, body, change, list, faults, crashes, told, overlap>>

Create(s) ==
  /\ up /\ pc[s] = "create" /\ tmp = NoFile /\ next < MaxInode
  /\ next' = next + 1
  /\ tmp' = next + 1
  /\ file' = [file EXCEPT ![s] = next + 1]
  /\ Goto(s, "write")
  /\ UNCHANGED <<up, tokens, minted, path, body, change, list, faults, crashes, told, overlap>>

\* Mutant: the file is opened again under its name.
WriteByName(s) ==
  /\ up /\ pc[s] = "write"
  /\ \/ tmp # NoFile /\ body' = [body EXCEPT ![tmp] = Written(list[s])] /\ UNCHANGED <<tmp, next>>
     \/ /\ tmp = NoFile /\ next < MaxInode
        /\ next' = next + 1
        /\ tmp' = next + 1
        /\ body' = [body EXCEPT ![next + 1] = Written(list[s])]
  /\ Goto(s, "rename")
  /\ UNCHANGED <<up, tokens, minted, path, change, list, file, faults, crashes, told, overlap>>

Write(s) ==
  /\ up /\ pc[s] = "write"
  /\ body' = [body EXCEPT ![file[s]] = Written(list[s])]
  /\ Goto(s, "rename")
  /\ UNCHANGED <<up, tokens, minted, path, tmp, change, list, file, counts, told, overlap>>

\* The save succeeded, and its caller reports no error.
Report(s) ==
  /\ told' = [t \in Token |-> IF t \notin change[s] THEN told[t]
                            ELSE IF t \in list[s] THEN "paired" ELSE "unpaired"]
  /\ Goto(s, "idle")

\* Mutant: success is reported without replacing the store.
RenameForgotten(s) ==
  /\ up /\ pc[s] = "rename" /\ tmp # NoFile
  /\ Report(s)
  /\ UNCHANGED <<up, tokens, minted, disk, change, list, file, counts, overlap>>

Rename(s) ==
  /\ up /\ pc[s] = "rename" /\ tmp # NoFile
  /\ path' = tmp
  /\ tmp' = NoFile
  /\ Report(s)
  /\ UNCHANGED <<up, tokens, minted, body, change, list, file, counts, overlap>>

\* A step whose file is not as expected returns its error: the name went away
\* under Remove or Rename, or appeared under create_new.
NameError(s) ==
  /\ up
  /\ \/ pc[s] \in {"remove", "rename"} /\ tmp = NoFile
     \/ pc[s] = "create" /\ tmp # NoFile
  /\ Goto(s, "idle")
  /\ UNCHANGED <<up, tokens, minted, disk, change, list, file, counts, told, overlap>>

\* The disk is full or refuses; the temporary file stays behind.
IoError(s) ==
  /\ up /\ pc[s] \in {"remove", "create", "write", "rename"}
  /\ faults < MaxFaults
  /\ faults' = faults + 1
  /\ Goto(s, "idle")
  /\ UNCHANGED <<up, tokens, minted, disk, change, list, file, next, crashes, told, overlap>>

-------------------------------------------------------------------------------
(* Crash and restart *)

\* The next process has another pid and so another temporary name.
Crash ==
  /\ up /\ crashes < MaxCrashes
  /\ up' = FALSE
  /\ crashes' = crashes + 1
  /\ tokens' = {}
  /\ tmp' = NoFile
  /\ pc' = Idle
  /\ UNCHANGED <<minted, path, body, change, list, file, next, faults, told, overlap>>

\* Mutant: the legacy lists are merged into whatever is there.
StartMerging ==
  /\ ~up /\ path # NoFile /\ next < MaxInode
  /\ up' = TRUE
  /\ next' = next + 1
  /\ path' = next + 1
  /\ tokens' = Legacy \union body[path].peers
  /\ body' = [body EXCEPT ![next + 1] = Written(tokens')]
  /\ UNCHANGED <<minted, tmp, saver, faults, crashes, told, overlap>>

\* load_or_migrate found a store: a whole one is loaded, a broken one is
\* reported and starts the list afresh.
StartLoaded ==
  /\ ~up /\ path # NoFile
  /\ up' = TRUE
  /\ tokens' = IF body[path].whole THEN body[path].peers ELSE {}
  /\ UNCHANGED <<minted, disk, saver, counts, told, overlap>>

\* It found none, or could not read it as text: both are Missing.  The legacy lists
\* are merged and saved; a failed save is only logged.
StartMissing ==
  /\ ~up
  /\ path = NoFile \/ (Unreadable /\ faults < MaxFaults)
  /\ faults' = IF path = NoFile THEN faults ELSE faults + 1
  /\ up' = TRUE
  /\ tokens' = Legacy
  /\ \/ /\ Legacy # {} /\ next < MaxInode
        /\ next' = next + 1
        /\ path' = next + 1
        /\ body' = [body EXCEPT ![next + 1] = Written(Legacy)]
     \/ UNCHANGED <<next, path, body>>
  /\ UNCHANGED <<minted, tmp, saver, crashes, told, overlap>>

Next ==
  \/ \E s \in Saver : (\E t \in Token : GrantPeer(s, t)) \/ \E ts \in Revocable : Unpair(s, ts)
  \/ \E s \in Saver :
       \/ Collect(s) \/ Probe(s) \/ Remove(s) \/ Create(s) \/ Write(s) \/ Rename(s)
       \/ NameError(s) \/ IoError(s)
  \/ Crash \/ StartLoaded \/ StartMissing

Spec == Init /\ [][Next]_vars

-------------------------------------------------------------------------------
(* Properties *)

TypeOK ==
  /\ up \in BOOLEAN
  /\ minted \in SUBSET Token /\ tokens \subseteq minted
  /\ path \in Inode \union {NoFile} /\ tmp \in Inode \union {NoFile}
  /\ body \in [Inode -> [whole : BOOLEAN, peers : SUBSET Token]]
  /\ pc \in [Saver -> {"idle", "collect", "probe", "remove", "create", "write", "rename"}]
  /\ change \in [Saver -> SUBSET Token] /\ list \in [Saver -> SUBSET Token]
  /\ file \in [Saver -> Inode]
  /\ next \in Inode /\ faults \in 0 .. MaxFaults /\ crashes \in 0 .. MaxCrashes
  /\ told \in [Token -> {"nothing", "paired", "unpaired"}]
  /\ tmp # NoFile => tmp # path
  /\ overlap \in BOOLEAN

\* As long as no two saves overlap: whenever the app may die, the store on disk
\* is complete, "a half-written file is never visible" (peers.rs:8-13, 175-176).
StoreNeverTorn == ~overlap /\ path # NoFile => body[path].whole

\* As long as no two saves overlap: a pairing whose save was reported as done
\* survives from then on, in memory and, across crashes and failed saves, in
\* the store (the saves of a grant: lib.rs 1236, 1342, 1420).
PairedIsKept ==
  ~overlap => \A t \in Token : told[t] = "paired" =>
    /\ up => t \in tokens
    /\ path # NoFile /\ t \in body[path].peers

\* A device whose unpairing was reported as done is neither in the store nor,
\* whatever is saved, crashes or is migrated later, in memory again
\* (unpair and unpair_all, lib.rs 465-488; ble/pairing.rs:442-443).
RevocationLasts ==
  \A t \in Token : told[t] = "unpaired" =>
    /\ t \notin tokens
    /\ path # NoFile => t \notin body[path].peers

\* So it is as long as no two saves overlap.
UnpairedStaysOut == ~overlap => RevocationLasts

\* What the user was told of a device, paired or unpaired, holds from then on, as long
\* as no two saves overlap (lib.rs 325, 452-488).
ToldIsStored == PairedIsKept /\ UnpairedStaysOut

\* No save spoils the next.  As long as no two overlap, a temporary file left by a
\* failed save never makes the next one fail (peers.rs:150-153: otherwise create_new
\* fails until the app is restarted).  Even when they overlap, a torn store is one
\* whose writer has it open and makes it whole: a handle follows the inode, not the
\* name (peers.rs:159-173).  An I/O error or a kill at that moment would leave it torn.
SavesRecover ==
  /\ ~overlap => \A s \in Saver : pc[s] = "create" => tmp = NoFile
  /\ faults = 0 /\ crashes = 0 /\ path # NoFile /\ ~body[path].whole =>
       \E s \in Saver : pc[s] = "write" /\ file[s] = path

\* No save spoils the store, nor the next save (peers.rs:143-179).
SavesAreSafe == StoreNeverTorn /\ SavesRecover
=============================================================================
