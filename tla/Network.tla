------------------------------- MODULE Network --------------------------------
(***************************************************************************)
(* The iroh transport: NetworkBridge (network/mod.rs), the task that       *)
(* serves one QUIC connection, the commands network_set_enabled and        *)
(* unpair, and the part of the 250 ms tick that feeds it (lib.rs).         *)
(*                                                                         *)
(* A central is the endpoint id of a device, so all connections of one     *)
(* device share one CentralId, one authorization and one place in          *)
(* snapshot_senders.  The two mutexes are explicit: the pairing mutex is   *)
(* shared with the other transports, the bridge mutex is taken for each    *)
(* call and by the tick for as long as it writes.  A step that takes and   *)
(* releases a mutex without waiting in between is one action.              *)
(***************************************************************************)
EXTENDS FiniteSets, Naturals

CONSTANTS Device, Conn,
          RemoteId,       \* connection -> device (conn.remote_id)
          Free, Tick      \* owners of a mutex that are not connections

ASSUME NetworkAssumption ==
  /\ RemoteId \in [Conn -> Device]
  /\ Free \notin Conn /\ Tick \notin Conn /\ Free # Tick

VARIABLES
  enabled,
  senders,     \* snapshot_senders: device -> connection of its stream, or Free
  authorized,  \* PairingManager.authorized, this transport's part
  at,          \* connection -> where its task is
  link,        \* connections that are alive
  mutex,       \* "pairing", "bridge" -> who holds it
  tick,        \* where the tick is, its lines and the streams that failed
  served,      \* network_set_enabled(false) under way: the sessions each will end
  revoked,     \* unpair under way: the sessions each will drop
  late         \* history: frames written to a device since it lost its authorization

commands == <<served, revoked>>
vars == <<enabled, senders, authorized, at, link, mutex, tick, commands, late>>

Owner == Conn \union {Free, Tick}

Init ==
  /\ enabled = FALSE
  /\ senders = [d \in Device |-> Free]
  /\ authorized = {}
  /\ at = [k \in Conn |-> "unborn"]
  /\ link = {}
  /\ mutex = [m \in {"pairing", "bridge"} |-> Free]
  /\ tick = [at |-> "idle", lines |-> {}, dead |-> {}]
  /\ served = {} /\ revoked = {}
  /\ late = [d \in Device |-> 0]

Registered == {d \in Device : senders[d] # Free}
Drop(ds) == [d \in Device |-> IF d \in ds THEN Free ELSE senders[d]]

\* A call that holds one mutex for its own time only.
Briefly(m) == mutex[m] = Free /\ UNCHANGED mutex

\* Mutant: the connection tasks take the bridge first.
FirstMutexOfTask(task) == IF task = Tick THEN "pairing" ELSE "bridge"

\* The mutex to take first when both are needed.
FirstMutex(task) == "pairing"
SecondMutex(task) == CHOOSE m \in {"pairing", "bridge"} : m # FirstMutex(task)

-------------------------------------------------------------------------------
(* The task of a connection *)

Step(k, from, to) == at[k] = from /\ at' = [at EXCEPT ![k] = to]

Incoming(k) ==
  /\ Step(k, "unborn", "admit")
  /\ link' = link \union {k}
  /\ UNCHANGED <<enabled, senders, authorized, mutex, tick, commands, late>>

\* Before anything else: is sharing on?  If not, close and return.
Admit(k) ==
  /\ Briefly("bridge")
  /\ \/ enabled /\ Step(k, "admit", "accept") /\ UNCHANGED link
     \/ ~enabled /\ Step(k, "admit", "gone") /\ link' = link \ {k}
  /\ UNCHANGED <<enabled, senders, authorized, tick, commands, late>>

\* The peer opens a control stream, or the connection is lost.
AcceptBi(k) ==
  /\ \/ k \in link /\ Step(k, "accept", "recheck")
     \/ k \notin link /\ Step(k, "accept", "forget")
  /\ UNCHANGED <<enabled, senders, authorized, link, mutex, tick, commands, late>>

\* Mutant: return where the loop should be left.
RecheckReturns(k) ==
  /\ Briefly("bridge")
  /\ \/ enabled /\ Step(k, "recheck", "read") /\ UNCHANGED link
     \/ ~enabled /\ Step(k, "recheck", "gone") /\ link' = link \ {k}
  /\ UNCHANGED <<enabled, senders, authorized, tick, commands, late>>

Recheck(k) ==
  /\ Briefly("bridge")
  /\ \/ enabled /\ Step(k, "recheck", "read") /\ UNCHANGED link
     \/ ~enabled /\ Step(k, "recheck", "forget") /\ link' = link \ {k}
  /\ UNCHANGED <<enabled, senders, authorized, tick, commands, late>>

\* read_to_end waits for the peer; too long a request is an error as well.
Read(k) ==
  /\ \/ k \in link /\ Step(k, "read", "auth")
     \/ Step(k, "read", "forget")
  /\ UNCHANGED <<enabled, senders, authorized, link, mutex, tick, commands, late>>

LockFirst(k) ==
  /\ mutex[FirstMutex(k)] = Free
  /\ Step(k, "auth", "handle")
  /\ mutex' = [mutex EXCEPT ![FirstMutex(k)] = k]
  /\ UNCHANGED <<enabled, senders, authorized, link, tick, commands, late>>

\* NetworkBridge::handle_auth: PairingManager.handle decides (Pairing.tla).
HandleAuth(k) ==
  /\ mutex[SecondMutex(k)] = Free
  /\ mutex' = [mutex EXCEPT ![FirstMutex(k)] = Free]
  /\ \/ /\ Step(k, "handle", "reply") /\ UNCHANGED <<authorized, late>>
     \/ /\ Step(k, "handle", "reply_authorized") \/ Step(k, "handle", "reply_granted")
        /\ authorized' = authorized \union {RemoteId[k]}
        /\ late' = [late EXCEPT ![RemoteId[k]] = 0]
  /\ UNCHANGED <<enabled, senders, link, tick, commands>>

\* An error of the write is ignored.
Reply(k) ==
  /\ \/ Step(k, "reply", "accept")
     \/ Step(k, "reply_authorized", "gate")
     \/ Step(k, "reply_granted", "save")
  /\ UNCHANGED <<enabled, senders, authorized, link, mutex, tick, commands, late>>

Save(k) ==
  /\ Briefly("pairing")
  /\ Step(k, "save", "gate")
  /\ UNCHANGED <<enabled, senders, authorized, link, tick, commands, late>>

IsEnabled(k) ==
  /\ Briefly("bridge")
  /\ Step(k, "gate", IF enabled THEN "probe" ELSE "accept")
  /\ UNCHANGED <<enabled, senders, authorized, link, tick, commands, late>>

HasSender(k) ==
  /\ Briefly("bridge")
  /\ Step(k, "probe", IF senders[RemoteId[k]] = Free THEN "open" ELSE "accept")
  /\ UNCHANGED <<enabled, senders, authorized, link, tick, commands, late>>

OpenUni(k) ==
  /\ \/ k \in link /\ Step(k, "open", "register")
     \/ k \notin link /\ Step(k, "open", "accept")
  /\ UNCHANGED <<enabled, senders, authorized, link, mutex, tick, commands, late>>

RegisterSender(k) ==
  /\ Briefly("bridge")
  /\ Step(k, "register", "accept")
  /\ senders' = [senders EXCEPT ![RemoteId[k]] = k]
  /\ UNCHANGED <<enabled, authorized, link, tick, commands, late>>

ForgetCentral(k) ==
  /\ Briefly("bridge")
  /\ Step(k, "forget", "gone")
  /\ senders' = Drop({RemoteId[k]})
  /\ link' = link \ {k}
  /\ UNCHANGED <<enabled, authorized, tick, commands, late>>

\* The peer closes, or is not heard of for the idle timeout.
LinkLost(k) ==
  /\ k \in link
  /\ link' = link \ {k}
  /\ UNCHANGED <<enabled, senders, authorized, at, mutex, tick, commands, late>>

-------------------------------------------------------------------------------
(* The tick *)

TickStart ==
  /\ tick.at = "idle" /\ mutex[FirstMutex(Tick)] = Free
  /\ tick' = [tick EXCEPT !.at = "prepare"]
  /\ mutex' = [mutex EXCEPT ![FirstMutex(Tick)] = Tick]
  /\ UNCHANGED <<enabled, senders, authorized, at, link, commands, late>>

Prepared(lines) ==
  /\ tick.at = "prepare" /\ mutex[SecondMutex(Tick)] = Free
  /\ mutex' = [mutex EXCEPT ![FirstMutex(Tick)] = Free]
  /\ tick' = [tick EXCEPT !.at = "send", !.lines = lines]

\* Off, nobody registered, or held back by the EmitGate.
PrepareNothing ==
  /\ Prepared({})
  /\ UNCHANGED <<enabled, senders, authorized, at, link, commands, late>>

\* Mutant: whoever is registered gets a line.
PrepareForRegistered ==
  /\ enabled /\ Registered # {}
  /\ Prepared(Registered)
  /\ UNCHANGED <<enabled, senders, authorized, at, link, commands, late>>

\* Mutant: the streams of unauthorized devices stay.
PrepareKeepsStreams ==
  /\ enabled /\ Registered # {}
  /\ Prepared(Registered \intersect authorized)
  /\ UNCHANGED <<enabled, senders, authorized, at, link, commands, late>>

\* The EmitGate lets the snapshot through: a line for everybody who is still
\* authorized, and the others lose their stream.
PrepareSnapshot ==
  /\ enabled /\ Registered # {}
  /\ Prepared(Registered \intersect authorized)
  /\ senders' = Drop(Registered \ authorized)
  /\ UNCHANGED <<enabled, authorized, at, link, commands, late>>

StartSending ==
  /\ tick.at = "send" /\ mutex["bridge"] = Free
  /\ mutex' = [mutex EXCEPT !["bridge"] = Tick]
  /\ tick' = [tick EXCEPT !.at = "write"]
  /\ UNCHANGED <<enabled, senders, authorized, at, link, commands, late>>

\* A write waits for the peer to read, and fails at the latest when the
\* connection times out.
WriteLine(d) ==
  /\ tick.at = "write" /\ d \in tick.lines
  /\ \/ /\ senders[d] = Free
        /\ tick' = [tick EXCEPT !.lines = @ \ {d}] /\ UNCHANGED late
     \/ /\ senders[d] # Free /\ senders[d] \in link
        /\ tick' = [tick EXCEPT !.lines = @ \ {d}]
        /\ late' = [late EXCEPT ![d] = IF d \in authorized \/ @ = 2 THEN @ ELSE @ + 1]
     \/ /\ senders[d] # Free
        /\ tick' = [tick EXCEPT !.lines = @ \ {d}, !.dead = @ \union {d}] /\ UNCHANGED late
  /\ UNCHANGED <<enabled, senders, authorized, at, link, mutex, commands>>

FinishSending ==
  /\ tick.at = "write" /\ tick.lines = {}
  /\ senders' = Drop(tick.dead)
  /\ mutex' = [mutex EXCEPT !["bridge"] = Free]
  /\ tick' = [at |-> "idle", lines |-> {}, dead |-> {}]
  /\ UNCHANGED <<enabled, authorized, at, link, commands, late>>

-------------------------------------------------------------------------------
(* The commands *)

ToggleOn ==
  /\ ~enabled /\ Briefly("bridge")
  /\ enabled' = TRUE
  /\ UNCHANGED <<senders, authorized, at, link, tick, commands, late>>

\* The served devices are read before the map is cleared; turned off twice,
\* only that is done again.
ToggleOff ==
  /\ enabled \/ Registered # {}
  /\ Briefly("bridge")
  /\ enabled' = FALSE
  /\ served' = served \union ({Registered} \ {{}})
  /\ senders' = IF enabled THEN Drop(Device) ELSE senders
  /\ UNCHANGED <<authorized, at, link, tick, revoked, late>>

EndServed(ds) ==
  /\ ds \in served /\ Briefly("pairing")
  /\ served' = served \ {ds}
  /\ authorized' = authorized \ ds
  /\ UNCHANGED <<enabled, senders, at, link, tick, revoked, late>>

Revoke(ds) ==
  /\ ds # {} /\ ds \subseteq authorized /\ Briefly("pairing")
  /\ authorized' = authorized \ ds
  /\ revoked' = revoked \union {ds}
  /\ UNCHANGED <<enabled, senders, at, link, tick, served, late>>

DropSessions(ds) ==
  /\ ds \in revoked /\ Briefly("bridge")
  /\ revoked' = revoked \ {ds}
  /\ senders' = Drop(ds)
  /\ UNCHANGED <<enabled, authorized, at, link, tick, served, late>>

-------------------------------------------------------------------------------
Serve(k) ==
  \/ Admit(k) \/ Recheck(k) \/ LockFirst(k) \/ HandleAuth(k) \/ Reply(k) \/ Save(k)
  \/ IsEnabled(k) \/ HasSender(k) \/ OpenUni(k) \/ RegisterSender(k) \/ ForgetCentral(k)

Peer(k) == Incoming(k) \/ AcceptBi(k) \/ Read(k) \/ LinkLost(k)

Mirror ==
  \/ TickStart \/ PrepareNothing \/ PrepareSnapshot \/ StartSending \/ FinishSending
  \/ \E d \in Device : WriteLine(d)

User == ToggleOn \/ ToggleOff \/ \E ds \in SUBSET authorized : Revoke(ds)

Commands ==
  \/ \E ds \in served : EndServed(ds)
  \/ \E ds \in revoked : DropSessions(ds)

Next ==
  \/ \E k \in Conn : Serve(k) \/ Peer(k)
  \/ Mirror \/ User \/ Commands

Spec == Init /\ [][Next]_vars

\* tokio's mutexes are first come, first served, so whoever waits for one gets
\* it: strong fairness.  The EmitGate opens again after five seconds at the
\* latest, so the tick prepares lines again and again while it can.  A write ends,
\* at the latest with the idle timeout of the connection (network/mod.rs:142-147).
Fairness ==
  /\ \A k \in Conn : SF_vars(Serve(k))
  /\ SF_vars(Mirror) /\ SF_vars(PrepareSnapshot)
  /\ \A ds \in SUBSET Device : SF_vars(EndServed(ds)) /\ SF_vars(DropSessions(ds))
FairSpec == Spec /\ Fairness

-------------------------------------------------------------------------------
(* Properties *)

\* Besides the types: a mutex is held by a task that is between taking and
\* releasing it, and the tick seals with the pairing mutex and writes without.
TypeOK ==
  /\ enabled \in BOOLEAN
  /\ senders \in [Device -> Conn \union {Free}]
  /\ authorized \subseteq Device
  /\ at \in [Conn -> {"unborn", "admit", "accept", "recheck", "read", "auth", "handle",
                      "reply", "reply_authorized", "reply_granted", "save", "gate", "probe",
                      "open", "register", "forget", "gone"}]
  /\ link \subseteq {k \in Conn : at[k] \notin {"unborn", "gone"}}
  /\ mutex \in [{"pairing", "bridge"} -> Owner]
  /\ tick \in [at : {"idle", "prepare", "send", "write"}, lines : SUBSET Device, dead : SUBSET Device]
  /\ mutex["pairing"] # Free => IF mutex["pairing"] = Tick THEN tick.at = "prepare"
                                ELSE at[mutex["pairing"]] = "handle"
  /\ mutex["bridge"] = IF tick.at = "write" THEN Tick ELSE Free
  /\ served \subseteq SUBSET Device /\ revoked \subseteq SUBSET Device
  /\ late \in [Device -> 0 .. 2]

\* A stream is registered only while the task of its connection lives, which
\* will take it off again (lib.rs:1254): none is kept for ever.
NoOrphanStream ==
  \A d \in Registered : at[senders[d]] \notin {"unborn", "gone"} /\ RemoteId[senders[d]] = d

\* Between a revocation and the next authorization a device gets at most the one
\* line that was sealed before (network/mod.rs:195-202, lib.rs:425-442): the tick is one
\* task, and asks for the authorization whenever it seals (lib.rs:1486-1497).
OneLateLine == \A d \in Device : late[d] <= 1

\* Whoever waits for the mutexes to have a request handled gets its answer: the
\* tasks take them in one order (lib.rs:1584-1589).
AuthIsHandled ==
  \A k \in Conn : at[k] \in {"auth", "handle"} ~> at[k] \notin {"auth", "handle"}

\* A stream whose device has lost its authorization does not stay: the unpair,
\* the switch or the next line the tick seals takes it off (network/mod.rs:173-189).
StaleStreamGoes ==
  \A d \in Device : senders[d] # Free /\ d \notin authorized
                    ~> senders[d] = Free \/ d \in authorized \/ ~enabled

\* No authorization outlives the connections of its device: on the end of a
\* connection "the session's authorization is now removed by the app, in the shared
\* PairingManager" (network/mod.rs:93-94, ble/pairing.rs:427-430).
NoGhost ==
  \A d \in authorized : \E k \in Conn : RemoteId[k] = d /\ at[k] # "gone"
=============================================================================
