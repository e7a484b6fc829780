---------------------------- MODULE PeerStoreProofs -----------------------------
(***************************************************************************)
(* Of paired-peers.json, for any number of savers, tokens, failures and    *)
(* crashes: what the user was told of a device stays true, and no save     *)
(* spoils the store or the next save, as long as no two saves overlap.     *)
(*                                                                         *)
(* A save alone has the temporary name to itself: the file it has open is  *)
(* the one the name stands for (AloneInv), the list it copied is still the *)
(* list in memory, and what it writes is what it renames.  What was told   *)
(* of a token then only has to agree with memory and store (ToldInv).      *)
(***************************************************************************)
EXTENDS PeerStore, TLAPS

\* Names, inodes and tokens there can be.
StoreInv ==
  /\ path # NoFile => path <= next
  /\ tmp # NoFile => tmp <= next
  /\ Legacy \subseteq minted
  /\ \A i \in Inode : body[i].peers \subseteq minted
  /\ \A s \in Saver : list[s] \subseteq minted
  /\ ~up => pc = Idle /\ tmp = NoFile /\ crashes # 0

\* A file that is not whole is being written, unless something failed.
WriterInv ==
  faults = 0 /\ crashes = 0 =>
    \A i \in {path, tmp} \ {NoFile} :
      ~body[i].whole => \E s \in Saver : pc[s] = "write" /\ file[s] = i

\* The one save under way.
AloneInv ==
  /\ \A r, s \in Saver : pc[r] # "idle" /\ pc[s] # "idle" => r = s
  /\ \A s \in Saver :
       /\ pc[s] \in {"probe", "remove", "create", "write", "rename"} => list[s] = tokens
       /\ pc[s] = "create" => tmp = NoFile
       /\ pc[s] \in {"write", "rename"} => tmp = file[s]
       /\ pc[s] = "rename" => body[tmp] = Written(list[s])
  /\ path # NoFile => body[path].whole

ToldInv ==
  \A t \in Token :
    /\ told[t] = "paired" => path # NoFile /\ t \in body[path].peers /\ (up => t \in tokens)
    /\ told[t] = "unpaired" => path # NoFile /\ t \notin body[path].peers /\ t \notin tokens

SaveInv == TypeOK /\ StoreInv /\ WriterInv /\ (~overlap => AloneInv)
PeerStoreInv == SaveInv /\ (~overlap => ToldInv)

-------------------------------------------------------------------------------
(* Types, names and inodes *)

Labels == {"idle", "collect", "probe", "remove", "create", "write", "rename"}

LEMMA PeerStoreStart == Init => PeerStoreInv
<1> SUFFICES ASSUME Init PROVE PeerStoreInv
  OBVIOUS
<1> USE StoreAssumption
<1>1. /\ tokens \subseteq Token /\ path \in {0, NoFile}
      /\ body \in [Inode -> [whole : BOOLEAN, peers : SUBSET Token]]
      /\ \A i \in Inode : body[i].peers \subseteq tokens \union Legacy
      /\ path # NoFile => body[path].whole
  <2>1. 0 \in Inode
    BY DEF Inode
  <2>2. Empty \in [whole : BOOLEAN, peers : SUBSET Token]
    BY DEF Empty
  <2>3. PICK ts \in SUBSET Token :
          \/ path = 0 /\ body = [i \in Inode |-> IF i = 0 THEN Written(ts) ELSE Empty] /\ tokens = ts
          \/ path = NoFile /\ body = [i \in Inode |-> Empty] /\ tokens = Legacy
    BY DEF Init
  <2>4. Written(ts) \in [whole : BOOLEAN, peers : SUBSET Token]
    BY <2>3 DEF Written
  <2>5. CASE path = 0 /\ body = [i \in Inode |-> IF i = 0 THEN Written(ts) ELSE Empty] /\ tokens = ts
    <3>1. \A i \in Inode : body[i] \in {Written(ts), Empty}
      BY <2>5
    <3>2. body[0] = Written(ts)
      BY <2>1, <2>5
    <3>3. QED
      BY <2>1, <2>2, <2>4, <2>5, <3>1, <3>2 DEF Written, Empty
  <2>6. CASE path = NoFile /\ body = [i \in Inode |-> Empty] /\ tokens = Legacy
    BY <2>2, <2>6 DEF Empty
  <2>7. QED
    BY <2>3, <2>5, <2>6
<1>2. TypeOK
  <2>1. 0 \in Inode /\ tmp = NoFile /\ path \in Inode \union {NoFile}
    BY <1>1 DEF Init, Inode
  <2>2. minted \in SUBSET Token /\ tokens \subseteq minted
    BY <1>1 DEF Init
  <2>3. pc \in [Saver -> Labels] /\ told \in [Token -> {"nothing", "paired", "unpaired"}]
    BY DEF Init, Idle, Labels
  <2>4. /\ change \in [Saver -> SUBSET Token] /\ list \in [Saver -> SUBSET Token]
        /\ file \in [Saver -> Inode]
    BY <2>1 DEF Init
  <2>5. up \in BOOLEAN /\ overlap \in BOOLEAN /\ next = 0 /\ faults = 0 /\ crashes = 0
    BY DEF Init
  <2>6. QED
    BY <1>1, <2>1, <2>2, <2>3, <2>4, <2>5 DEF TypeOK, Labels
<1>3. StoreInv
  <2>1. path # NoFile => path <= next
    BY <1>1 DEF Init
  <2>2. tmp = NoFile /\ Legacy \subseteq minted /\ tokens \subseteq minted /\ up
    BY DEF Init
  <2>3. \A i \in Inode : body[i].peers \subseteq minted
    BY <1>1, <2>2
  <2>4. \A s \in Saver : list[s] \subseteq minted
    BY DEF Init
  <2>5. QED
    BY <2>1, <2>2, <2>3, <2>4 DEF StoreInv
<1>4. WriterInv
  BY <1>1 DEF Init, WriterInv
<1>5. AloneInv
  BY <1>1 DEF Init, AloneInv, Idle
<1>6. ToldInv
  BY DEF Init, ToldInv
<1>7. QED
  BY <1>2, <1>3, <1>4, <1>5, <1>6 DEF PeerStoreInv, SaveInv

\* The next inode is one, and no name stands for it yet.
LEMMA NextInode ==
  ASSUME TypeOK, StoreInv, next < MaxInode
  PROVE  /\ next + 1 \in Inode /\ next + 1 # NoFile
         /\ next + 1 # path /\ next + 1 # tmp
  BY StoreAssumption DEF TypeOK, StoreInv, Inode

\* The operations that end in a save, by the tokens they change.
Changes(s, ts) == (\E t \in Token : ts = {t} /\ GrantPeer(s, t)) \/ Unpair(s, ts)

LEMMA NextIs ==
  ASSUME TypeOK, Next
  PROVE  \/ \E s \in Saver, ts \in SUBSET Token : Changes(s, ts)
         \/ \E s \in Saver : \/ Collect(s) \/ Probe(s) \/ Remove(s) \/ Create(s) \/ Write(s)
                              \/ Rename(s) \/ NameError(s) \/ IoError(s)
         \/ Crash \/ StartLoaded \/ StartMissing
<1>1. Revocable \subseteq SUBSET Token
  BY DEF TypeOK, Revocable
<1>2. QED
  BY <1>1 DEF Next, Changes

LEMMA ChangeStore ==
  ASSUME TypeOK, StoreInv, NEW s \in Saver, NEW ts \in SUBSET Token, Changes(s, ts)
  PROVE  TypeOK' /\ StoreInv'
<1> USE DEF TypeOK, StoreInv
<1>1. Change(s, ts) /\ tokens' \subseteq minted' /\ minted \subseteq minted' /\ minted' \subseteq Token
  BY DEF Changes, GrantPeer, Unpair
<1>2. /\ up /\ UNCHANGED <<up, path, tmp, body, list, file, next, faults, crashes>>
      /\ pc' = [pc EXCEPT ![s] = "collect"]
      /\ change' \in [Saver -> SUBSET Token]
      /\ told' \in [Token -> {"nothing", "paired", "unpaired"}]
      /\ overlap' \in BOOLEAN
  BY <1>1 DEF Change, disk, counts
<1>3. QED
  BY <1>1, <1>2

LEMMA SaveStore ==
  ASSUME TypeOK, StoreInv, NEW s \in Saver,
         Collect(s) \/ Probe(s) \/ Remove(s) \/ Create(s) \/ Write(s) \/ Rename(s) \/ NameError(s) \/ IoError(s)
  PROVE  TypeOK' /\ StoreInv'
<1> USE StoreAssumption DEF TypeOK, StoreInv, Goto, disk, counts, saver
<1>1. CASE Collect(s)
  BY <1>1 DEF Collect
<1>2. CASE Probe(s) \/ Remove(s) \/ NameError(s)
  BY <1>2 DEF Probe, Remove, NameError
<1>3. CASE Create(s)
  <2>1. next' = next + 1 /\ next' \in Inode
    BY <1>3, NextInode DEF Create
  <2>2. tmp' = next' /\ tmp' # path' /\ file' \in [Saver -> Inode]
    BY <1>3, <2>1, NextInode DEF Create
  <2>3. next <= next' /\ (path # NoFile => path <= next') /\ tmp' <= next'
    BY <2>1, <2>2 DEF Inode
  <2>4. QED
    BY <1>3, <2>1, <2>2, <2>3 DEF Create
<1>4. CASE Write(s)
  BY <1>4 DEF Write, Written
<1>5. CASE Rename(s)
  BY <1>5 DEF Rename, Report
<1>6. CASE IoError(s)
  BY <1>6 DEF IoError
<1>7. QED
  BY <1>1, <1>2, <1>3, <1>4, <1>5, <1>6

LEMMA RestartStore ==
  ASSUME TypeOK, StoreInv, Crash \/ StartLoaded \/ StartMissing
  PROVE  TypeOK' /\ StoreInv'
<1> USE StoreAssumption DEF TypeOK, StoreInv, disk, counts, saver
<1>1. CASE Crash
  <2>1. crashes + 1 \in 0 .. MaxCrashes /\ crashes + 1 # 0
    BY <1>1 DEF Crash
  <2>2. pc' \in [Saver -> Labels] /\ pc' = Idle' /\ tmp' = NoFile /\ ~up'
    BY <1>1 DEF Crash, Idle, Labels
  <2>3. tokens' = {} /\ crashes' = crashes + 1
    BY <1>1 DEF Crash
  <2>4. QED
    BY <1>1, <2>1, <2>2, <2>3 DEF Crash, Labels
<1>2. CASE StartLoaded
  BY <1>2 DEF StartLoaded
<1>3. CASE StartMissing
  <2>1. faults' \in 0 .. MaxFaults /\ up' /\ tokens' \subseteq minted
    BY <1>3 DEF StartMissing
  <2>2. CASE UNCHANGED <<next, path, body>>
    BY <1>3, <2>1, <2>2 DEF StartMissing
  <2>3. CASE /\ next < MaxInode
             /\ next' = next + 1 /\ path' = next + 1
             /\ body' = [body EXCEPT ![next + 1] = Written(Legacy)]
    <3>1. next' \in Inode /\ path' \in Inode /\ path' <= next'
      BY <2>3, NextInode DEF Inode
    <3>2. /\ body' \in [Inode -> [whole : BOOLEAN, peers : SUBSET Token]]
          /\ \A i \in Inode : body'[i].peers \subseteq minted
      BY <2>3 DEF Written
    <3>3. QED
      BY <1>3, <2>1, <3>1, <3>2 DEF StartMissing
  <2>4. QED
    BY <1>3, <2>2, <2>3 DEF StartMissing
<1>4. QED
  BY <1>1, <1>2, <1>3

-------------------------------------------------------------------------------
(* Who makes a torn file whole *)

LEMMA WriterStep ==
  ASSUME TypeOK, StoreInv, WriterInv, Next
  PROVE  WriterInv'
<1> USE DEF TypeOK, StoreInv, WriterInv, Goto, disk, counts, saver
<1>1. ASSUME NEW s \in Saver, NEW ts \in SUBSET Token, Changes(s, ts) PROVE WriterInv'
  BY <1>1 DEF Changes, GrantPeer, Unpair, Change
<1>2. ASSUME NEW s \in Saver, Collect(s) \/ Probe(s) \/ Remove(s) \/ NameError(s) PROVE WriterInv'
  BY <1>2 DEF Collect, Probe, Remove, NameError
<1>3. ASSUME NEW s \in Saver, Create(s) PROVE WriterInv'
  BY <1>3, NextInode DEF Create
<1>4. ASSUME NEW s \in Saver, Write(s) PROVE WriterInv'
  BY <1>4 DEF Write, Written
<1>5. ASSUME NEW s \in Saver, Rename(s) PROVE WriterInv'
  BY <1>5 DEF Rename, Report
<1>6. ASSUME NEW s \in Saver, IoError(s) PROVE WriterInv'
  BY <1>6, StoreAssumption DEF IoError
<1>7. CASE Crash \/ StartLoaded \/ StartMissing
  <2>1. crashes' # 0
    BY <1>7, StoreAssumption DEF Crash, StartLoaded, StartMissing
  <2>2. QED
    BY <2>1
<1>8. QED
  BY <1>1, <1>2, <1>3, <1>4, <1>5, <1>6, <1>7, NextIs

-------------------------------------------------------------------------------
(* The save that is alone *)

LEMMA ChangeAlone ==
  ASSUME TypeOK, StoreInv, ~overlap', AloneInv,
         NEW s \in Saver, NEW ts \in SUBSET Token, Changes(s, ts)
  PROVE  AloneInv'
  BY DEF TypeOK, AloneInv, Changes, GrantPeer, Unpair, Change, Idle, disk, counts

LEMMA SaveAlone ==
  ASSUME TypeOK, StoreInv, AloneInv, NEW s \in Saver,
         Collect(s) \/ Probe(s) \/ Remove(s) \/ Create(s) \/ Write(s) \/ Rename(s) \/ NameError(s) \/ IoError(s)
  PROVE  AloneInv'
<1> USE DEF TypeOK, AloneInv, Goto, disk, counts
<1>1. CASE Collect(s) \/ Probe(s)
  BY <1>1 DEF Collect, Probe
<1>2. CASE Remove(s) \/ NameError(s) \/ IoError(s)
  BY <1>2 DEF Remove, NameError, IoError
<1>3. CASE Create(s)
  BY <1>3, NextInode DEF Create
<1>4. CASE Write(s)
  <2>1. file[s] = tmp /\ file[s] \in Inode /\ tmp # NoFile /\ tmp # path
    BY <1>4, StoreAssumption DEF Write, Inode
  <2>2. body'[tmp] = Written(list[s]) /\ (path # NoFile => body'[path] = body[path])
    BY <1>4, <2>1 DEF Write
  <2>3. /\ UNCHANGED <<tokens, path, tmp, list, file>>
        /\ pc' = [pc EXCEPT ![s] = "rename"] /\ pc[s] = "write"
    BY <1>4 DEF Write
  <2>4. QED
    BY <2>1, <2>2, <2>3
<1>5. CASE Rename(s)
  <2>1. body[tmp].whole
    <3>1. body[tmp] = Written(list[s])
      BY <1>5 DEF Rename
    <3>2. QED
      BY <3>1 DEF Written
  <2>2. /\ UNCHANGED <<tokens, body, list, file>> /\ path' = tmp
        /\ pc' = [pc EXCEPT ![s] = "idle"] /\ pc[s] = "rename"
    BY <1>5 DEF Rename, Report
  <2>3. \A r \in Saver : r # s => pc[r] = "idle" /\ pc'[r] = "idle"
    BY <2>2
  <2>4. pc'[s] = "idle"
    BY <2>2
  <2>5. path' # NoFile => body'[path'].whole
    BY <2>1, <2>2
  <2>6. QED
    BY <2>3, <2>4, <2>5
<1>6. QED
  BY <1>1, <1>2, <1>3, <1>4, <1>5

LEMMA RestartAlone ==
  ASSUME TypeOK, StoreInv, AloneInv, Crash \/ StartLoaded \/ StartMissing
  PROVE  AloneInv'
<1> USE DEF TypeOK, AloneInv, disk, counts, saver
<1>1. CASE Crash
  BY <1>1 DEF Crash, Idle
<1>2. CASE StartLoaded
  BY <1>2 DEF StartLoaded, StoreInv, Idle
<1>3. CASE StartMissing
  BY <1>3, NextInode DEF StartMissing, StoreInv, Idle, Written
<1>4. QED
  BY <1>1, <1>2, <1>3

-------------------------------------------------------------------------------
(* What the user was told *)

LEMMA ChangeTold ==
  ASSUME TypeOK, ToldInv, NEW s \in Saver, NEW ts \in SUBSET Token, Changes(s, ts)
  PROVE  ToldInv'
<1>1. /\ UNCHANGED <<up, path, tmp, body>>
      /\ told' = [t \in Token |-> IF t \in ts THEN "nothing" ELSE told[t]]
      /\ tokens' \in {tokens \union ts, tokens \ ts}
  BY DEF Changes, GrantPeer, Unpair, Change, disk
<1>2. QED
  BY <1>1 DEF TypeOK, ToldInv

LEMMA SaveTold ==
  ASSUME TypeOK, AloneInv, ToldInv, NEW s \in Saver,
         Collect(s) \/ Probe(s) \/ Remove(s) \/ Create(s) \/ Write(s) \/ Rename(s) \/ NameError(s) \/ IoError(s)
  PROVE  ToldInv'
<1> USE DEF TypeOK, AloneInv, ToldInv
<1>1. CASE Write(s)
  \* The file is the temporary one, not the store.
  <2>1. file[s] # path
    BY <1>1, StoreAssumption DEF Write, Inode
  <2>2. path # NoFile => body'[path] = body[path]
    BY <1>1, <2>1 DEF Write
  <2>3. QED
    BY <1>1, <2>2 DEF Write, counts
<1>2. CASE Rename(s)
  <2>1. /\ path' = tmp /\ path' # NoFile /\ body'[path'] = Written(list[s])
        /\ UNCHANGED <<up, tokens>> /\ up /\ list[s] = tokens
    BY <1>2 DEF Rename
  <2>2. told' = [t \in Token |-> IF t \notin change[s] THEN told[t]
                                ELSE IF t \in list[s] THEN "paired" ELSE "unpaired"]
    BY <1>2 DEF Rename, Report
  <2>3. QED
    BY <2>1, <2>2 DEF Written
<1>3. CASE UNCHANGED <<up, tokens, path, body, told>>
  BY <1>3
<1>4. QED
  BY <1>1, <1>2, <1>3 DEF Collect, Probe, Remove, Create, NameError, IoError, disk

\* A store that cannot be read counts as missing, and what was unpaired comes
\* back with the legacy lists: for that there is no theorem.
LEMMA RestartTold ==
  ASSUME ~Unreadable, TypeOK, AloneInv, ToldInv, Crash \/ StartLoaded \/ StartMissing
  PROVE  ToldInv'
<1> USE DEF TypeOK, AloneInv, ToldInv, disk
<1>1. CASE Crash
  BY <1>1 DEF Crash
<1>2. CASE StartLoaded
  BY <1>2 DEF StartLoaded
<1>3. CASE StartMissing
  BY <1>3 DEF StartMissing
<1>4. QED
  BY <1>1, <1>2, <1>3

-------------------------------------------------------------------------------
(* Theorems *)

LEMMA OverlapStays == Next /\ ~overlap' => ~overlap
  BY DEF Next, GrantPeer, Unpair, Change, Collect, Probe, Remove, Create, Write, Rename,
         NameError, IoError, Crash, StartLoaded, StartMissing

LEMMA SaveStep == SaveInv /\ [Next]_vars => SaveInv'
<1> SUFFICES ASSUME SaveInv, [Next]_vars PROVE SaveInv'
  OBVIOUS
<1> USE DEF SaveInv
<1>1. CASE UNCHANGED vars
  BY <1>1 DEF vars, disk, saver, counts, TypeOK, StoreInv, WriterInv, AloneInv
<1>2. CASE Next
  <2>1. TypeOK' /\ StoreInv'
    BY <1>2, ChangeStore, SaveStore, RestartStore, NextIs DEF SaveInv
  <2>2. WriterInv'
    BY <1>2, WriterStep
  <2>3. ASSUME ~overlap' PROVE AloneInv'
    <3>1. AloneInv
      BY <1>2, <2>3, OverlapStays
    <3>2. QED
      BY <1>2, <2>3, <3>1, ChangeAlone, SaveAlone, RestartAlone, NextIs
  <2>4. QED
    BY <2>1, <2>2, <2>3
<1>3. QED
  BY <1>1, <1>2

LEMMA ToldStep ==
  ASSUME ~Unreadable
  PROVE  SaveInv /\ (~overlap => ToldInv) /\ [Next]_vars => (~overlap => ToldInv)'
<1> SUFFICES ASSUME SaveInv, ~overlap => ToldInv, [Next]_vars, ~overlap' PROVE ToldInv'
  OBVIOUS
<1>1. CASE UNCHANGED vars
  BY <1>1 DEF vars, disk, ToldInv
<1>2. CASE Next
  <2>1. ToldInv /\ AloneInv /\ TypeOK
    BY <1>2, OverlapStays DEF SaveInv
  <2>2. QED
    BY <1>2, <2>1, ChangeTold, SaveTold, RestartTold, NextIs
<1>3. QED
  BY <1>1, <1>2

\* The types of the store and its savers.
THEOREM PeerStoreTypes == Spec => []TypeOK
<1>1. Init => SaveInv
  BY PeerStoreStart DEF PeerStoreInv
<1>2. SaveInv => TypeOK
  BY DEF SaveInv
<1>3. QED
  BY <1>1, <1>2, SaveStep, PTL DEF Spec

\* No save spoils the store or the next save: while saves do not overlap the
\* store is whole whenever the app may die and a leftover temporary file stops
\* nobody; even while they do, a torn store is being written to its end.
THEOREM SavesAreSafeAlways == Spec => []SavesAreSafe
<1>1. Init => SaveInv
  BY PeerStoreStart DEF PeerStoreInv
<1>2. SaveInv => SavesAreSafe
  <2>1. SaveInv => StoreNeverTorn
    BY DEF SaveInv, AloneInv, StoreNeverTorn
  <2>2. SaveInv => SavesRecover
    BY DEF SaveInv, AloneInv, WriterInv, SavesRecover
  <2>3. QED
    BY <2>1, <2>2 DEF SavesAreSafe
<1>3. QED
  BY <1>1, <1>2, SaveStep, PTL DEF Spec

\* Where an existing store can be read, what the user was told of a device,
\* paired or unpaired, holds from then on in memory and, across crashes and
\* failed saves, in the store, as long as no two saves overlap.
THEOREM ToldIsKept ==
  ASSUME ~Unreadable PROVE Spec => []ToldIsStored
<1>1. Init => PeerStoreInv
  BY PeerStoreStart
<1>2. PeerStoreInv /\ [Next]_vars => PeerStoreInv'
  BY SaveStep, ToldStep DEF PeerStoreInv
<1>3. PeerStoreInv => ToldIsStored
  <2>1. PeerStoreInv => PairedIsKept
    BY DEF PeerStoreInv, ToldInv, PairedIsKept
  <2>2. PeerStoreInv => UnpairedStaysOut
    BY DEF PeerStoreInv, ToldInv, UnpairedStaysOut, RevocationLasts
  <2>3. QED
    BY <2>1, <2>2 DEF ToldIsStored
<1>4. QED
  BY <1>1, <1>2, <1>3, PTL DEF Spec
===============================================================================
