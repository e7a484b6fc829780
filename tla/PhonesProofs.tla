----------------------------- MODULE PhonesProofs -----------------------------
(***************************************************************************)
(* Of the iroh transport, for any devices and connections: the tasks hold  *)
(* the pairing mutex one at a time, no snapshot stream outlives the task   *)
(* that will take it off, and a device that lost its authorization gets at *)
(* most the one line that was sealed before.                               *)
(*                                                                         *)
(* For the streams one must know that a task that is turned away at the    *)
(* start has none yet; for the late line, that whoever is authorized, or   *)
(* has a line waiting, was sent nothing late so far.                       *)
(*                                                                         *)
(* Of a phone over BLE, for any bounds: it never waits where nothing can   *)
(* move it on.  For this one must know that behind the word that the       *)
(* service changed nothing comes until the phone has rediscovered, and     *)
(* that while it subscribes it awaits no answer, but in a hurry.           *)
(*                                                                         *)
(* The sessions of the two sides match because requests and answers stay   *)
(* in order: the key that the phone agreed on is older than any that is on *)
(* its way still, and the Mac's own is not.  A code or a proof is right    *)
(* only under the Mac's present key, so where it is, no other key is on    *)
(* the way, and the answer finds the phone at the same exchange.           *)
(*                                                                         *)
(* What the user did is not wasted because, as long as no answer was       *)
(* misread, a code or a proof stands under the exchange just before it,    *)
(* and the Mac keeps what it drew for that: only its end of a link could   *)
(* take it away, and this comes before what was asked over the next link.  *)
(***************************************************************************)
EXTENDS Network, BleAuth, SequenceTheorems, TLAPS

\* The pairing mutex is held exactly where the code holds it.
HoldInv ==
  /\ \A k \in Conn : at[k] = "handle" <=> mutex["pairing"] = k
  /\ tick.at = "prepare" <=> mutex["pairing"] = Tick

StreamInv ==
  \A d \in Registered : at[senders[d]] \notin {"unborn", "admit", "gone"} /\ RemoteId[senders[d]] = d

LateInv == \A d \in authorized \union tick.lines : late[d] = 0

NetworkInv == TypeOK /\ HoldInv /\ StreamInv /\ LateInv /\ OneLateLine

-------------------------------------------------------------------------------
(* The mutexes *)

LEMMA MutexOrder ==
  ASSUME NEW task PROVE FirstMutex(task) = "pairing" /\ SecondMutex(task) = "bridge"
<1>1. \E m \in {"pairing", "bridge"} : m # "pairing"
  OBVIOUS
<1>2. SecondMutex(task) = CHOOSE m \in {"pairing", "bridge"} : m # "pairing"
  BY DEF SecondMutex, FirstMutex
<1>3. SecondMutex(task) \in {"pairing", "bridge"} /\ SecondMutex(task) # "pairing"
  BY <1>1, <1>2
<1>4. QED
  BY <1>3 DEF FirstMutex

LEMMA NetworkStart == Init => NetworkInv
<1> SUFFICES ASSUME Init PROVE NetworkInv
  OBVIOUS
<1> USE NetworkAssumption DEF Init
<1>1. mutex["pairing"] = Free /\ mutex["bridge"] = Free
  OBVIOUS
<1>2. mutex \in [{"pairing", "bridge"} -> Owner]
  BY DEF Owner
<1>3. tick \in [at : {"idle", "prepare", "send", "write"}, lines : SUBSET Device, dead : SUBSET Device]
  OBVIOUS
<1>4. senders \in [Device -> Conn \union {Free}] /\ late \in [Device -> 0 .. 2]
  OBVIOUS
<1>5. TypeOK
  BY <1>1, <1>2, <1>3, <1>4 DEF TypeOK
<1>6. HoldInv /\ StreamInv /\ LateInv /\ OneLateLine
  BY DEF HoldInv, StreamInv, Registered, LateInv, OneLateLine
<1>7. QED
  BY <1>5, <1>6 DEF NetworkInv

-------------------------------------------------------------------------------
(* Types and mutexes *)

LEMMA DropTypes ==
  ASSUME TypeOK, NEW ds
  PROVE  /\ Drop(ds) \in [Device -> Conn \union {Free}]
         /\ \A d \in Device : Drop(ds)[d] = IF d \in ds THEN Free ELSE senders[d]
  BY DEF Drop, TypeOK

\* What a task of a connection does to types and mutexes.
LEMMA ServeTypes ==
  ASSUME TypeOK, HoldInv, NEW k \in Conn, Serve(k) \/ Peer(k)
  PROVE  TypeOK' /\ HoldInv'
<1> USE NetworkAssumption, MutexOrder DEF TypeOK, HoldInv, Owner, commands
<1>1. CASE Incoming(k) \/ AcceptBi(k) \/ Read(k) \/ LinkLost(k)
  BY <1>1 DEF Incoming, AcceptBi, Read, LinkLost, Step
<1>2. CASE Admit(k) \/ Recheck(k)
  BY <1>2 DEF Admit, Recheck, Step, Briefly
<1>3. CASE LockFirst(k)
  BY <1>3 DEF LockFirst, Step
<1>4. CASE HandleAuth(k)
  BY <1>4 DEF HandleAuth, Step
<1>5. CASE Reply(k) \/ Save(k) \/ IsEnabled(k) \/ HasSender(k) \/ OpenUni(k)
  BY <1>5 DEF Reply, Save, IsEnabled, HasSender, OpenUni, Step, Briefly
<1>6. CASE RegisterSender(k)
  BY <1>6 DEF RegisterSender, Step, Briefly
<1>7. CASE ForgetCentral(k)
  BY <1>7, DropTypes DEF ForgetCentral, Step, Briefly
<1>8. QED
  BY <1>1, <1>2, <1>3, <1>4, <1>5, <1>6, <1>7 DEF Serve, Peer

\* What one line does to the tick, and that the line is gone afterwards.
LEMMA LineWritten ==
  ASSUME TypeOK, NEW d \in Device, WriteLine(d)
  PROVE  /\ tick.at = "write" /\ d \in tick.lines
         /\ \E dead \in SUBSET Device : tick' = [at |-> "write", lines |-> tick.lines \ {d}, dead |-> dead]
         /\ \/ late' = late
            \/ late' = [late EXCEPT ![d] = IF d \in authorized \/ @ = 2 THEN @ ELSE @ + 1]
<1>1. tick = [at |-> tick.at, lines |-> tick.lines, dead |-> tick.dead] /\ tick.at = "write"
  BY DEF TypeOK, WriteLine
<1>2. tick.lines \subseteq Device /\ tick.dead \subseteq Device /\ tick.dead \union {d} \subseteq Device
  BY DEF TypeOK
<1>3. CASE tick' = [tick EXCEPT !.lines = @ \ {d}]
  <2>1. tick' = [at |-> "write", lines |-> tick.lines \ {d}, dead |-> tick.dead]
    BY <1>1, <1>3
  <2>2. QED
    BY <1>2, <2>1 DEF WriteLine
<1>4. CASE tick' = [tick EXCEPT !.lines = @ \ {d}, !.dead = @ \union {d}]
  <2>1. tick' = [at |-> "write", lines |-> tick.lines \ {d}, dead |-> tick.dead \union {d}]
    BY <1>1, <1>4
  <2>2. QED
    BY <1>2, <2>1 DEF WriteLine
<1>5. QED
  BY <1>3, <1>4 DEF WriteLine

LEMMA MirrorTypes ==
  ASSUME TypeOK, HoldInv, LateInv, OneLateLine, Mirror
  PROVE  TypeOK' /\ HoldInv'
<1> USE NetworkAssumption, MutexOrder DEF TypeOK, HoldInv, Owner, commands
<1>1. CASE TickStart
  BY <1>1 DEF TickStart
<1>2. CASE PrepareNothing
  BY <1>2 DEF PrepareNothing, Prepared
<1>3. CASE PrepareSnapshot
  <2>1. Registered \intersect authorized \in SUBSET Device
    BY DEF Registered
  <2>2. senders' \in [Device -> Conn \union {Free}]
    BY <1>3, DropTypes DEF PrepareSnapshot
  <2>3. tick' = [tick EXCEPT !.at = "send", !.lines = Registered \intersect authorized]
    BY <1>3 DEF PrepareSnapshot, Prepared
  <2>4. tick' \in [at : {"idle", "prepare", "send", "write"}, lines : SUBSET Device, dead : SUBSET Device]
    BY <2>1, <2>3
  <2>5. tick.at = "prepare" /\ tick'.at = "send"
    BY <1>3, <2>3 DEF PrepareSnapshot, Prepared
  <2>6. mutex' = [mutex EXCEPT !["pairing"] = Free]
    BY <1>3 DEF PrepareSnapshot, Prepared
  <2>7. UNCHANGED <<enabled, authorized, at, link, served, revoked, late>>
    BY <1>3 DEF PrepareSnapshot
  <2>8. QED
    BY <2>2, <2>4, <2>5, <2>6, <2>7
<1>4. CASE StartSending
  BY <1>4 DEF StartSending
<1>5. CASE FinishSending
  BY <1>5, DropTypes DEF FinishSending
<1>6. ASSUME NEW d \in Device, WriteLine(d) PROVE TypeOK' /\ HoldInv'
  <2>1. late' \in [Device -> 0 .. 2]
    BY <1>6 DEF WriteLine
  <2>2. /\ tick' \in [at : {"idle", "prepare", "send", "write"}, lines : SUBSET Device, dead : SUBSET Device]
        /\ tick.at = "write" /\ tick'.at = "write"
    BY <1>6, LineWritten
  <2>3. UNCHANGED <<enabled, senders, authorized, at, link, mutex, served, revoked>>
    BY <1>6 DEF WriteLine
  <2>4. QED
    BY <2>1, <2>2, <2>3
<1>7. QED
  BY <1>1, <1>2, <1>3, <1>4, <1>5, <1>6 DEF Mirror

LEMMA CommandTypes ==
  ASSUME TypeOK, HoldInv, User \/ Commands
  PROVE  TypeOK' /\ HoldInv'
<1> USE NetworkAssumption DEF TypeOK, HoldInv, Briefly
<1>1. CASE ToggleOn
  BY <1>1 DEF ToggleOn, commands
<1>2. CASE ToggleOff
  BY <1>2, DropTypes DEF ToggleOff, Registered
<1>3. ASSUME NEW ds \in SUBSET authorized, Revoke(ds) PROVE TypeOK' /\ HoldInv'
  BY <1>3 DEF Revoke
<1>4. ASSUME NEW ds \in served, EndServed(ds) PROVE TypeOK' /\ HoldInv'
  BY <1>4 DEF EndServed
<1>5. ASSUME NEW ds \in revoked, DropSessions(ds) PROVE TypeOK' /\ HoldInv'
  BY <1>5, DropTypes DEF DropSessions
<1>6. QED
  BY <1>1, <1>2, <1>3, <1>4, <1>5 DEF User, Commands

-------------------------------------------------------------------------------
(* The streams *)

\* A device that had no stream, or keeps its own.
LEMMA FewerStreams ==
  ASSUME TypeOK, StreamInv,
         NEW k \in Conn,
         \A j \in Conn : j # k => at'[j] = at[j],
         at[k] \in {"unborn", "admit"} \/ at'[k] \notin {"unborn", "admit", "gone"},
         \A d \in Device : senders'[d] = senders[d] \/ senders'[d] = Free
  PROVE  StreamInv'
  BY DEF StreamInv, Registered, TypeOK

LEMMA SameTasks ==
  ASSUME TypeOK, StreamInv, UNCHANGED at,
         \A d \in Device : senders'[d] = senders[d] \/ senders'[d] = Free
  PROVE  StreamInv'
  BY DEF StreamInv, Registered, TypeOK

LEMMA ServeStreams ==
  ASSUME TypeOK, StreamInv, NEW k \in Conn, Serve(k) \/ Peer(k)
  PROVE  StreamInv'
<1> USE NetworkAssumption
<1>1. CASE RegisterSender(k)
  BY <1>1 DEF RegisterSender, Step, StreamInv, Registered, TypeOK
<1>2. CASE ForgetCentral(k)
  BY <1>2, DropTypes DEF ForgetCentral, Step, StreamInv, Registered, TypeOK
<1>3. CASE LinkLost(k)
  BY <1>3, SameTasks DEF LinkLost
<1>4. CASE Incoming(k) \/ AcceptBi(k) \/ Read(k)
  BY <1>4, FewerStreams DEF Incoming, AcceptBi, Read, Step, TypeOK
<1>5. CASE Admit(k) \/ Recheck(k)
  BY <1>5, FewerStreams DEF Admit, Recheck, Step, TypeOK
<1>6. CASE LockFirst(k) \/ HandleAuth(k) \/ Reply(k) \/ Save(k)
  BY <1>6, FewerStreams DEF LockFirst, HandleAuth, Reply, Save, Step, TypeOK
<1>7. CASE IsEnabled(k) \/ HasSender(k) \/ OpenUni(k)
  BY <1>7, FewerStreams DEF IsEnabled, HasSender, OpenUni, Step, TypeOK
<1>8. QED
  BY <1>1, <1>2, <1>3, <1>4, <1>5, <1>6, <1>7 DEF Serve, Peer

LEMMA MirrorStreams ==
  ASSUME TypeOK, StreamInv, Mirror
  PROVE  StreamInv'
<1>1. UNCHANGED at
  BY DEF Mirror, TickStart, PrepareNothing, PrepareSnapshot, StartSending, FinishSending, WriteLine
<1>2. \/ UNCHANGED senders
      \/ \E ds \in {Registered \ authorized, tick.dead} : senders' = Drop(ds)
  BY DEF Mirror, TickStart, PrepareNothing, PrepareSnapshot, StartSending, FinishSending, WriteLine
<1>3. QED
  BY <1>1, <1>2, SameTasks, DropTypes

LEMMA CommandStreams ==
  ASSUME TypeOK, StreamInv, User \/ Commands
  PROVE  StreamInv'
<1>1. UNCHANGED at
  BY DEF User, Commands, ToggleOn, ToggleOff, Revoke, EndServed, DropSessions
<1>2. \A d \in Device : senders'[d] = senders[d] \/ senders'[d] = Free
  BY DropTypes DEF User, Commands, ToggleOn, ToggleOff, Revoke, EndServed, DropSessions
<1>3. QED
  BY <1>1, <1>2, SameTasks

-------------------------------------------------------------------------------
(* Late lines *)

LEMMA ServeLate ==
  ASSUME TypeOK, LateInv, OneLateLine, NEW k \in Conn, Serve(k) \/ Peer(k)
  PROVE  LateInv' /\ OneLateLine'
<1> USE NetworkAssumption DEF LateInv, OneLateLine, TypeOK
<1>1. CASE HandleAuth(k)
  BY <1>1 DEF HandleAuth
<1>2. CASE UNCHANGED <<authorized, tick, late>>
  BY <1>2
<1>3. HandleAuth(k) \/ UNCHANGED <<authorized, tick, late>>
  BY DEF Serve, Peer, Incoming, Admit, AcceptBi, Recheck, Read, LockFirst, Reply, Save, IsEnabled,
         HasSender, OpenUni, RegisterSender, ForgetCentral, LinkLost
<1>4. QED
  BY <1>1, <1>2, <1>3

LEMMA MirrorLate ==
  ASSUME TypeOK, LateInv, OneLateLine, Mirror
  PROVE  LateInv' /\ OneLateLine'
<1> USE DEF LateInv, OneLateLine, TypeOK
<1>1. CASE TickStart \/ StartSending \/ FinishSending
  BY <1>1 DEF TickStart, StartSending, FinishSending
<1>2. CASE PrepareNothing \/ PrepareSnapshot
  <2>1. tick'.lines \subseteq authorized
    <3>1. PICK lines \in SUBSET authorized : tick' = [tick EXCEPT !.at = "send", !.lines = lines]
      BY <1>2 DEF PrepareNothing, PrepareSnapshot, Prepared
    <3>2. tick = [at |-> tick.at, lines |-> tick.lines, dead |-> tick.dead]
      OBVIOUS
    <3>3. tick' = [at |-> "send", lines |-> lines, dead |-> tick.dead]
      BY <3>1, <3>2
    <3>4. QED
      BY <3>3
  <2>2. UNCHANGED <<authorized, late>>
    BY <1>2 DEF PrepareNothing, PrepareSnapshot
  <2>3. QED
    BY <2>1, <2>2
<1>3. ASSUME NEW d \in Device, WriteLine(d) PROVE LateInv' /\ OneLateLine'
  <2>1. tick'.lines = tick.lines \ {d} /\ late[d] = 0 /\ authorized' = authorized
    BY <1>3, LineWritten DEF WriteLine
  <2>2. late' = late \/ late' = [late EXCEPT ![d] = IF d \in authorized THEN @ ELSE @ + 1]
    BY <1>3, <2>1, LineWritten
  <2>3. QED
    BY <2>1, <2>2
<1>4. QED
  BY <1>1, <1>2, <1>3 DEF Mirror

LEMMA CommandLate ==
  ASSUME TypeOK, LateInv, OneLateLine, User \/ Commands
  PROVE  LateInv' /\ OneLateLine'
<1>1. UNCHANGED <<tick, late>> /\ authorized' \subseteq authorized
  BY DEF User, Commands, ToggleOn, ToggleOff, Revoke, EndServed, DropSessions
<1>2. QED
  BY <1>1 DEF LateInv, OneLateLine

-------------------------------------------------------------------------------
(* Theorems *)

LEMMA NetworkStep == NetworkInv /\ [Next]_vars => NetworkInv'
<1> SUFFICES ASSUME NetworkInv, [Next]_vars PROVE NetworkInv'
  OBVIOUS
<1> USE DEF NetworkInv
<1>1. ASSUME NEW k \in Conn, Serve(k) \/ Peer(k) PROVE NetworkInv'
  BY <1>1, ServeTypes, ServeStreams, ServeLate
<1>2. CASE Mirror
  BY <1>2, MirrorTypes, MirrorStreams, MirrorLate
<1>3. CASE User \/ Commands
  BY <1>3, CommandTypes, CommandStreams, CommandLate
<1>4. CASE UNCHANGED vars
  BY <1>4 DEF vars, commands, TypeOK, HoldInv, StreamInv, Registered, LateInv, OneLateLine
<1>5. QED
  BY <1>1, <1>2, <1>3, <1>4 DEF Next

\* The types of the iroh transport, and what a held mutex says of its holder.
THEOREM NetworkTypes == Spec => []TypeOK
<1>1. NetworkInv => TypeOK
  BY DEF NetworkInv
<1>2. QED
  BY <1>1, NetworkStart, NetworkStep, PTL DEF Spec

\* No stream is kept in snapshot_senders after the task of its connection has
\* ended, whatever the switch, an unpair or the loss of the connection did meanwhile.
THEOREM StreamsEnd == Spec => []NoOrphanStream
<1>1. NetworkInv => NoOrphanStream
  BY DEF NetworkInv, StreamInv, NoOrphanStream
<1>2. QED
  BY <1>1, NetworkStart, NetworkStep, PTL DEF Spec

\* Between the loss of its authorization and the next one a device is sent at
\* most the one line that was sealed before.
THEOREM AtMostOneLateLine == Spec => []OneLateLine
<1>1. NetworkInv => OneLateLine
  BY DEF NetworkInv
<1>2. QED
  BY <1>1, NetworkStart, NetworkStep, PTL DEF Spec

\* One at a time: while a task handles a request no other does, and the tick
\* does not seal.
AuthAlone ==
  \A k \in Conn : at[k] = "handle" => tick.at # "prepare" /\ \A j \in Conn \ {k} : at[j] # "handle"

\* A request is never handled while another one is, nor while the tick seals:
\* both work on the one PairingManager (lib.rs:1219-1232, 1486-1497).
THEOREM OneAtTheManager == Spec => []AuthAlone
<1>1. NetworkInv => AuthAlone
  BY NetworkAssumption DEF NetworkInv, HoldInv, AuthAlone
<1>2. QED
  BY <1>1, NetworkStart, NetworkStep, PTL DEF Spec
-------------------------------------------------------------------------------
(* A phone over BLE *)

\* What the two sides send.  What is granted is a token.
Verb == {"hello2", "code2", "auth2", "proof2"}
ReplyKind == {"await", "nonce", "rejected", "denied", "granted", "authorized", "junk"}
BleReply == {r \in [kind : ReplyKind, re : Int, key : Int, token : Int] : r.kind = "granted" => r.token # Nothing}
Packet == [kind : {"packet"}, of : BleReply, idx : {0, 1}, count : {1, 2}]
Post == Packet \union {Stop, Publish}
Down == Packet \union {Modified}
AuthRequest == [verb : Verb, re : Nat \ {0}, code : Int, token : Int, keys : Seq(Int)]
Event == AuthRequest \union {Here, Gone}

AuthTypes ==
  /\ window \in [code : Int, left : Int] /\ handshake \in Int /\ nonce \in Int
  /\ events \in Seq(Event) /\ posts \in Seq(Post) /\ down \in Seq(Down)
  /\ subscribed \in BOOLEAN /\ published \in BOOLEAN /\ sharing \in BOOLEAN
  /\ sheet \in BOOLEAN /\ timer \in BOOLEAN /\ discovering \in BOOLEAN /\ subscribing \in BOOLEAN
  /\ screen \in {"scanning", "connecting", "needsPairing", "streaming", "failed"}
  /\ v2 \in [sent : Verb \union {"none"}, awaiting : BOOLEAN, pending : Int]
  /\ mine \in Int /\ agreed \in Int /\ stored \in Int /\ half \in BleReply \union {NoReply}
  /\ requests \in Nat /\ windows \in Nat

\* Behind the word that the service has changed nothing comes from it, until what it
\* is now has been discovered.
OnlyChanges(q) == \A i \in 1 .. Len(q) : q[i] = Modified
ChangesLast(q) == \A i, j \in 1 .. Len(q) : i < j /\ q[i] = Modified => q[j] = Modified

DeviceInv ==
  /\ DeviceGivesUp
  /\ screen = "scanning" =>
       down = <<>> /\ v2.sent = "none" /\ ~subscribed /\ ~discovering /\ ~subscribing
  /\ discovering => /\ screen = "connecting" \/ sheet
                    /\ ~subscribing /\ ~subscribed /\ OnlyChanges(down)
  /\ subscribing => hurried \/ (v2.sent = "none" /\ stored # Nothing)
  /\ ChangesLast(down)
  /\ (\E i \in 1 .. Len(down) : down[i] = Modified) => ~subscribed

LEMMA NumbersOfAuth == Nothing \in Int /\ Garbled \in Int /\ NoCode \in Int /\ WrongCode \in Int
  BY DEF Nothing, Garbled, NoCode, WrongCode

LEMMA NewV2Is == NewV2 \in [sent : Verb \union {"none"}, awaiting : BOOLEAN, pending : Int] /\ NewV2.sent = "none"
  BY DEF NewV2, NoCode, Verb

LEMMA PacketsAre ==
  ASSUME NEW reply \in BleReply, NEW packets \in Packets(reply)
  PROVE  packets \in Seq(Post)
<1>1. \A i \in {0, 1}, n \in {1, 2} : [kind |-> "packet", of |-> reply, idx |-> i, count |-> n] \in Post
  BY DEF Packet, Post
<1>2. CASE packets = <<[kind |-> "packet", of |-> reply, idx |-> 0, count |-> 1]>>
  <2>1. PICK p : p = [kind |-> "packet", of |-> reply, idx |-> 0, count |-> 1]
    OBVIOUS
  <2>2. p \in Post /\ packets = <<p>>
    BY <1>1, <1>2, <2>1
  <2>3. QED
    BY <2>2
<1>3. CASE packets = [i \in 1 .. 2 |-> [kind |-> "packet", of |-> reply, idx |-> i - 1, count |-> 2]]
  <2>1. PICK p, q : /\ p = [kind |-> "packet", of |-> reply, idx |-> 0, count |-> 2]
                    /\ q = [kind |-> "packet", of |-> reply, idx |-> 1, count |-> 2]
    OBVIOUS
  <2>2. p \in Post /\ q \in Post /\ <<p, q>> \in Seq(Post)
    BY <1>1, <2>1
  <2>3. packets = [i \in 1 .. 2 |-> IF i = 1 THEN p ELSE q]
    BY <1>3, <2>1
  <2>4. packets = <<p, q>>
    BY <2>3
  <2>5. QED
    BY <2>2, <2>4
<1>4. QED
  BY <1>2, <1>3 DEF Packets

\* The Mac's answer to a request.
LEMMA AnswerTypes ==
  ASSUME AuthTypes, events # <<>>, Head(events) \in AuthRequest, NEW kind \in ReplyKind, NEW key \in Int,
         NEW token \in Int, kind = "granted" => token # Nothing, Answer(Head(events), kind, key, token)
  PROVE  /\ events' \in Seq(Event) /\ posts' \in Seq(Post)
         /\ UNCHANGED <<subscribed, published, switchVars, down, viewVars, deviceVars, boundVars, hurried>>
<1>1. [kind |-> kind, re |-> Head(events).re, key |-> key, token |-> token] \in BleReply
  BY DEF BleReply, AuthRequest
<1>2. PICK packets \in Packets([kind |-> kind, re |-> Head(events).re, key |-> key, token |-> token]) :
        posts' = posts \o packets
  BY DEF Answer
<1>3. packets \in Seq(Post)
  BY <1>1, <1>2, PacketsAre
<1>4. posts' \in Seq(Post)
  BY <1>2, <1>3 DEF AuthTypes
<1>5. events' \in Seq(Event)
  BY DEF Answer, AuthTypes
<1>6. QED
  BY <1>4, <1>5 DEF Answer

LEMMA RequestIs ==
  ASSUME AuthTypes, NEW verb \in Verb, Requested(verb)
  PROVE  events # <<>> /\ Head(events) \in AuthRequest /\ Head(events).re \in Nat \ {0}
<1>1. events # <<>> /\ Head(events) \in Event /\ Head(events).verb = verb
  BY DEF Requested, AuthTypes
<1>2. Head(events) # Here /\ Head(events) # Gone
  BY <1>1 DEF Here, Gone, Verb
<1>3. QED
  BY <1>1, <1>2 DEF Event, AuthRequest

LEMMA MacTypes ==
  ASSUME AuthTypes, AnswerHello \/ AnswerCode \/ AnswerAuth \/ AnswerProof
  PROVE  /\ AuthTypes'
         /\ UNCHANGED <<subscribed, down, viewVars, deviceVars, hurried>>
<1>1. \E verb \in Verb : Requested(verb)
  BY DEF Verb, AnswerHello, AnswerCode, AnswerAuth, AnswerProof
<1>2. Head(events) \in AuthRequest /\ events # <<>> /\ Head(events).re \in Nat \ {0}
  BY <1>1, RequestIs
<1>3. \E kind \in ReplyKind, key \in Int, token \in Int :
        (kind = "granted" => token # Nothing) /\ Answer(Head(events), kind, key, token)
  <2>1. CASE AnswerHello
    <3>1. \/ Answer(Head(events), "rejected", Nothing, Nothing)
          \/ Answer(Head(events), "await", Head(events).re, Nothing)
      BY <2>1 DEF AnswerHello, Reject
    <3>2. Head(events).re \in Int
      BY <1>2
    <3>3. QED
      BY <3>1, <3>2, NumbersOfAuth DEF ReplyKind
  <2>2. CASE AnswerCode
    <3>1. handshake \in Int /\ Head(events).re \in Int /\ Head(events).re # Nothing
      BY <1>2 DEF AuthTypes, Nothing
    <3>2. \/ Answer(Head(events), "rejected", Nothing, Nothing)
          \/ Answer(Head(events), "denied", Nothing, Nothing)
          \/ Answer(Head(events), "granted", handshake, Head(events).re)
      BY <2>2 DEF AnswerCode, Reject
    <3>3. QED
      BY <3>1, <3>2, NumbersOfAuth DEF ReplyKind
  <2>3. CASE AnswerAuth
    <3>1. Answer(Head(events), "nonce", Head(events).re, Nothing)
      BY <2>3 DEF AnswerAuth
    <3>2. Head(events).re \in Int
      BY <1>2
    <3>3. QED
      BY <3>1, <3>2, NumbersOfAuth DEF ReplyKind
  <2>4. CASE AnswerProof
    <3>1. \/ Answer(Head(events), "rejected", Nothing, Nothing)
          \/ Answer(Head(events), "authorized", Nothing, Nothing)
      BY <2>4 DEF AnswerProof, Reject
    <3>2. QED
      BY <3>1, NumbersOfAuth DEF ReplyKind
  <2>5. QED
    BY <2>1, <2>2, <2>3, <2>4
<1>4. /\ events' \in Seq(Event) /\ posts' \in Seq(Post)
      /\ UNCHANGED <<subscribed, published, switchVars, down, viewVars, deviceVars, boundVars, hurried>>
  BY <1>2, <1>3, AnswerTypes
<1>5. window' \in [code : Int, left : Int] /\ handshake' \in Int /\ nonce' \in Int
  <2>1. window' = window \/ window' = NoWindow \/ window' = [window EXCEPT !.left = @ - 1]
    BY Zenon DEF AnswerHello, AnswerCode, AnswerAuth, AnswerProof
  <2>2. /\ handshake' = handshake \/ handshake' = Nothing \/ handshake' = Head(events).re
        /\ nonce' = nonce \/ nonce' = Nothing \/ nonce' = Head(events).re
    BY DEF AnswerHello, AnswerCode, AnswerAuth, AnswerProof
  <2>3. handshake' \in Int /\ nonce' \in Int
    BY <1>2, <2>2, NumbersOfAuth DEF AuthTypes
  <2>4. NoWindow \in [code : Int, left : Int] /\ [window EXCEPT !.left = @ - 1] \in [code : Int, left : Int]
    <3>1. PICK w \in [code : Int, left : Int] : w = window
      BY DEF AuthTypes
    <3>2. w.left - 1 \in Int
      OBVIOUS
    <3>3. [w EXCEPT !.left = @ - 1] \in [code : Int, left : Int]
      BY <3>2
    <3>4. NoWindow \in [code : Int, left : Int]
      BY NumbersOfAuth DEF NoWindow
    <3>5. QED
      BY <3>1, <3>3, <3>4
  <2>5. QED
    BY <2>1, <2>3, <2>4 DEF AuthTypes
<1>6. QED
  BY <1>4, <1>5 DEF AuthTypes, switchVars, viewVars, deviceVars, boundVars

\* The rest of what the Mac does before its main thread comes to it.
LEMMA MacOwn ==
  ASSUME AuthTypes,
         \/ TakeHere \/ TakeGone \/ OpenWindow \/ CloseWindow \/ Sweep \/ UnpairAll
         \/ SwitchOff \/ SwitchOn \/ FinishOff \/ FinishOn
  PROVE  /\ AuthTypes'
         /\ UNCHANGED <<subscribed, down, viewVars, deviceVars, hurried>>
<1>1. UNCHANGED <<subscribed, published, down, viewVars, deviceVars, hurried, requests>>
  BY DEF TakeHere, TakeGone, OpenWindow, CloseWindow, Sweep, UnpairAll, SwitchOff, SwitchOn, FinishOff,
         FinishOn, Ended, Opened, Break, linkVars, boundVars, ghostVars
<1>2. events' \in Seq(Event) /\ posts' \in Seq(Post)
  <2>1. posts' = posts \/ posts' = Append(posts, Stop) \/ posts' = Append(posts, Publish)
    BY DEF TakeHere, TakeGone, OpenWindow, CloseWindow, Sweep, UnpairAll, SwitchOff, SwitchOn,
           FinishOff, FinishOn, linkVars
  <2>2. Stop \in Post /\ Publish \in Post
    BY DEF Post
  <2>3. events' = events \/ (events # <<>> /\ events' = Tail(events))
    BY DEF TakeHere, TakeGone, OpenWindow, CloseWindow, Sweep, UnpairAll, SwitchOff, SwitchOn,
           FinishOff, FinishOn, linkVars, Requested
  <2>4. Append(posts, Stop) \in Seq(Post) /\ Append(posts, Publish) \in Seq(Post)
    BY <2>2, AppendProperties DEF AuthTypes
  <2>5. events # <<>> => Tail(events) \in Seq(Event)
    BY HeadTailProperties, EmptySeq DEF AuthTypes
  <2>6. QED
    BY <2>1, <2>3, <2>4, <2>5 DEF AuthTypes
<1>3. windows' \in Nat /\ window' \in [code : Int, left : Int]
  <2>1. \/ windows' = windows /\ (window' = window \/ window' = NoWindow)
        \/ Opened
    BY DEF TakeHere, TakeGone, OpenWindow, CloseWindow, Sweep, UnpairAll, SwitchOff, SwitchOn,
           FinishOff, FinishOn, Break, boundVars, macVars
  <2>2. NoWindow \in [code : Int, left : Int]
    BY NumbersOfAuth DEF NoWindow
  <2>3. CASE Opened
    BY <2>3, BleAuthAssumption DEF Opened, AuthTypes
  <2>4. QED
    BY <2>1, <2>2, <2>3 DEF AuthTypes
<1>4. handshake' \in Int /\ nonce' \in Int
  <2>1. (handshake' = handshake \/ handshake' = Nothing) /\ (nonce' = nonce \/ nonce' = Nothing)
    BY DEF TakeHere, TakeGone, OpenWindow, CloseWindow, Sweep, UnpairAll, SwitchOff, SwitchOn,
           FinishOff, FinishOn, Ended, macVars
  <2>2. QED
    BY <2>1, NumbersOfAuth DEF AuthTypes
<1>5. sharing' \in BOOLEAN
  BY DEF TakeHere, TakeGone, OpenWindow, CloseWindow, Sweep, UnpairAll, SwitchOff, SwitchOn,
         FinishOff, FinishOn, linkVars, switchVars, AuthTypes
<1>6. QED
  BY <1>1, <1>2, <1>3, <1>4, <1>5 DEF AuthTypes, viewVars, deviceVars

\* What only the Mac keeps does not matter to the device.
LEMMA DeviceUntouched ==
  ASSUME DeviceInv, UNCHANGED <<subscribed, down, viewVars, deviceVars, hurried>>
  PROVE  DeviceInv'
<1>1. UNCHANGED <<screen, sheet, timer, discovering, subscribing, v2, stored, subscribed, down, hurried>>
  BY DEF viewVars, deviceVars
<1>2. QED
  BY <1>1 DEF DeviceInv, DeviceGivesUp, OnlyChanges, ChangesLast

LEMMA KindsDiffer ==
  /\ \A p \in Packet : p.kind = "packet" /\ p # Modified /\ p # Stop /\ p # Publish
  /\ Modified.kind = "modified" /\ Stop # Publish
<1>1. Modified.kind = "modified" /\ Stop.kind = "stop" /\ Publish.kind = "publish"
  BY DEF Modified, Stop, Publish
<1>2. \A p \in Packet : p.kind = "packet"
  BY DEF Packet
<1>3. QED
  BY <1>1, <1>2

\* One more behind the queue of the link, and one less.
LEMMA DownQueue ==
  ASSUME NEW q \in Seq(Down)
  PROVE  /\ Len(q) \in Nat
         /\ \A m \in Down : /\ Append(q, m) \in Seq(Down)
                            /\ Append(q, m)[Len(q) + 1] = m /\ Len(Append(q, m)) = Len(q) + 1
                            /\ \A i \in 1 .. Len(q) : Append(q, m)[i] = q[i]
         /\ q # <<>> => /\ Tail(q) \in Seq(Down) /\ Len(Tail(q)) = Len(q) - 1
                        /\ Len(q) \in Nat \ {0} /\ Head(q) = q[1] /\ Head(q) \in Down
                        /\ \A i \in 1 .. Len(q) - 1 : Tail(q)[i] = q[i + 1]
<1>1. Len(q) \in Nat
  BY LenProperties
<1>2. ASSUME NEW m \in Down
      PROVE  /\ Append(q, m) \in Seq(Down)
             /\ Append(q, m)[Len(q) + 1] = m /\ Len(Append(q, m)) = Len(q) + 1
             /\ \A i \in 1 .. Len(q) : Append(q, m)[i] = q[i]
  BY AppendProperties
<1>3. ASSUME q # <<>>
      PROVE  /\ Tail(q) \in Seq(Down) /\ Len(Tail(q)) = Len(q) - 1
             /\ Len(q) \in Nat \ {0} /\ Head(q) = q[1] /\ Head(q) \in Down
             /\ \A i \in 1 .. Len(q) - 1 : Tail(q)[i] = q[i + 1]
  <2>1. Tail(q) \in Seq(Down) /\ Len(Tail(q)) = Len(q) - 1 /\ Head(q) = q[1] /\ Len(q) \in Nat \ {0}
    BY <1>3, HeadTailProperties, EmptySeq, LenProperties
  <2>2. Head(q) \in Down
    BY <2>1, ElementOfSeq
  <2>3. \A i \in 1 .. Len(q) - 1 : Tail(q)[i] = q[i + 1]
    BY <1>3, <2>1, HeadTailProperties
  <2>4. QED
    BY <2>1, <2>2, <2>3
<1>4. QED
  BY <1>1, <1>2, <1>3

LEMMA NotifyKeeps ==
  ASSUME AuthTypes, DeviceInv, Notify PROVE AuthTypes' /\ DeviceInv'
<1>1. PICK p \in Packet : p = Head(posts)
  <2>1. Head(posts) \in Post
    BY DEF Notify, AuthTypes
  <2>2. Stop.kind # "packet" /\ Publish.kind # "packet"
    BY DEF Stop, Publish
  <2>3. QED
    BY <2>1, <2>2 DEF Notify, Post
<1>2. /\ UNCHANGED <<macVars, events, subscribed, published, switchVars, viewVars, deviceVars, boundVars, hurried>>
      /\ posts' = Tail(posts) /\ posts # <<>>
      /\ down' = down \/ (subscribed /\ down' = Append(down, p))
  BY <1>1 DEF Notify
<1>3. down' \in Seq(Down) /\ p \in Down /\ p # Modified
  <2>1. p \in Down /\ p # Modified /\ down \in Seq(Down)
    BY <1>1, KindsDiffer DEF AuthTypes, Down
  <2>2. Append(down, p) \in Seq(Down)
    BY <2>1, DownQueue
  <2>3. QED
    BY <1>2, <2>1, <2>2
<1>4. AuthTypes'
  BY <1>2, <1>3 DEF AuthTypes, macVars, switchVars, viewVars, deviceVars, boundVars
<1>5. ASSUME down' = down PROVE DeviceInv'
  <2>1. UNCHANGED <<subscribed, down, viewVars, deviceVars, hurried>>
    BY <1>2, <1>5
  <2>2. QED
    BY <2>1, DeviceUntouched
<1>6. ASSUME subscribed, down' = Append(down, p) PROVE DeviceInv'
  <2>1. screen # "scanning" /\ ~discovering /\ \A i \in 1 .. Len(down) : down[i] # Modified
    BY <1>6 DEF DeviceInv
  <2>2. \A i \in 1 .. Len(down') : down'[i] # Modified
    <3>1. /\ Len(down) \in Nat /\ Len(down') = Len(down) + 1 /\ down'[Len(down) + 1] = p
          /\ \A i \in 1 .. Len(down) : down'[i] = down[i]
      BY <1>3, <1>6, DownQueue DEF AuthTypes
    <3>2. ASSUME NEW i \in 1 .. Len(down') PROVE i \in 1 .. Len(down) \/ i = Len(down) + 1
      BY <3>1
    <3>3. QED
      BY <1>3, <2>1, <3>1, <3>2
  <2>3. UNCHANGED <<screen, sheet, timer, discovering, subscribing, v2, stored, subscribed, hurried>>
    BY <1>2 DEF viewVars, deviceVars
  <2>4. DeviceGivesUp' /\ ChangesLast(down')
    BY <2>2, <2>3 DEF DeviceInv, DeviceGivesUp, ChangesLast
  <2>5. subscribing => hurried \/ (v2.sent = "none" /\ stored # Nothing)
    BY DEF DeviceInv
  <2>6. QED
    BY <2>1, <2>2, <2>3, <2>4, <2>5 DEF DeviceInv
<1>7. QED
  BY <1>2, <1>4, <1>5, <1>6

LEMMA RepublishKeeps ==
  ASSUME AuthTypes, DeviceInv, Republish PROVE AuthTypes' /\ DeviceInv'
<1>1. /\ UNCHANGED <<macVars, events, switchVars, viewVars, deviceVars, boundVars, hurried>>
      /\ posts' = Tail(posts) /\ posts # <<>>
      /\ published' \in BOOLEAN /\ subscribed' = (subscribed /\ published')
      /\ \/ down' = down
         \/ ~published' /\ screen # "scanning" /\ down' = Append(down, Modified)
  BY Zenon DEF Republish, ghostVars
<1>2. down' \in Seq(Down) /\ Modified \in Down /\ subscribed' \in BOOLEAN
  <2>1. Modified \in Down /\ down \in Seq(Down)
    BY DEF Down, AuthTypes
  <2>2. Append(down, Modified) \in Seq(Down)
    BY <2>1, DownQueue
  <2>3. subscribed' \in BOOLEAN
    BY <1>1, Zenon DEF AuthTypes
  <2>4. QED
    BY <1>1, <2>1, <2>2, <2>3
<1>3. AuthTypes'
  BY <1>1, <1>2 DEF AuthTypes, macVars, switchVars, viewVars, deviceVars, boundVars
<1>4. UNCHANGED <<screen, sheet, timer, discovering, subscribing, v2, stored, hurried>>
  BY <1>1 DEF viewVars, deviceVars
<1>5. ASSUME down' = down PROVE DeviceInv'
  <2>1. DeviceGivesUp' /\ ChangesLast(down') /\ (OnlyChanges(down) => OnlyChanges(down'))
    BY <1>4, <1>5 DEF DeviceInv, DeviceGivesUp, OnlyChanges, ChangesLast
  <2>2. ~subscribed => ~subscribed'
    BY <1>1
  <2>3. QED
    BY <1>4, <1>5, <2>1, <2>2 DEF DeviceInv
<1>6. ASSUME ~published', screen # "scanning", down' = Append(down, Modified) PROVE DeviceInv'
  <2>1. ~subscribed'
    BY <1>1, <1>6
  <2>2. /\ Len(down) \in Nat /\ Len(down') = Len(down) + 1 /\ down'[Len(down) + 1] = Modified
        /\ \A i \in 1 .. Len(down) : down'[i] = down[i]
    BY <1>2, <1>6, DownQueue DEF AuthTypes
  <2>3. \A i \in 1 .. Len(down') : i \in 1 .. Len(down) \/ i = Len(down) + 1
    BY <2>2
  <2>4. ChangesLast(down')
    <3> SUFFICES ASSUME NEW i \in 1 .. Len(down'), NEW j \in 1 .. Len(down'), i < j, down'[i] = Modified
                 PROVE  down'[j] = Modified
      BY DEF ChangesLast
    <3>1. CASE j = Len(down) + 1
      BY <2>2, <3>1
    <3>2. CASE j # Len(down) + 1
      <4>1. j \in 1 .. Len(down) /\ i \in 1 .. Len(down)
        BY <2>2, <2>3, <3>2
      <4>2. QED
        BY <2>2, <4>1 DEF DeviceInv, ChangesLast
    <3>3. QED
      BY <3>1, <3>2
  <2>5. discovering => OnlyChanges(down')
    BY <2>2, <2>3 DEF DeviceInv, OnlyChanges
  <2>6. DeviceGivesUp'
    BY <1>4 DEF DeviceInv, DeviceGivesUp
  <2>7. QED
    BY <1>4, <1>6, <2>1, <2>4, <2>5, <2>6 DEF DeviceInv
<1>7. QED
  BY <1>1, <1>3, <1>5, <1>6

LEMMA RescanKeeps ==
  ASSUME AuthTypes, Rescan, boundVars' = boundVars \/ Break PROVE AuthTypes' /\ DeviceInv'
<1>1. /\ UNCHANGED <<macVars, posts, published, switchVars, stored, hurried, requests, windows>>
      /\ screen' = "scanning" /\ sheet' = FALSE /\ timer' = FALSE /\ discovering' = FALSE
      /\ subscribing' = FALSE /\ v2' = [NewV2 EXCEPT !.pending = v2.pending]
      /\ mine' = Nothing /\ agreed' = Nothing /\ half' = NoReply /\ down' = <<>> /\ subscribed' = FALSE
      /\ events' = IF subscribed THEN Append(events, Gone) ELSE events
  BY DEF Rescan, Break, boundVars
<1>2. v2' \in [sent : Verb \union {"none"}, awaiting : BOOLEAN, pending : Int] /\ v2'.sent = "none"
  <2>1. v2.pending \in Int
    BY DEF AuthTypes
  <2>2. PICK n \in [sent : Verb \union {"none"}, awaiting : BOOLEAN, pending : Int] :
          n = NewV2 /\ n.sent = "none"
    BY NewV2Is
  <2>3. QED
    BY <1>1, <2>1, <2>2
<1>3. events' \in Seq(Event)
  <2>1. Gone \in Event
    BY DEF Event
  <2>2. Append(events, Gone) \in Seq(Event)
    BY <2>1, AppendProperties DEF AuthTypes
  <2>3. QED
    BY <1>1, <2>2 DEF AuthTypes
<1>4. down' \in Seq(Down) /\ Len(down') = 0
  BY <1>1, EmptySeq
<1>5. AuthTypes'
  BY <1>1, <1>2, <1>3, <1>4, NumbersOfAuth DEF AuthTypes, macVars, switchVars
<1>6. DeviceInv'
  BY <1>1, <1>2, <1>4 DEF DeviceInv, DeviceGivesUp, ChangesLast
<1>7. QED
  BY <1>5, <1>6

LEMMA DiscoverKeeps == ASSUME AuthTypes, DeviceInv, Discover PROVE AuthTypes' /\ DeviceInv'
<1>1. /\ UNCHANGED <<macVars, linkVars, sheet, subscribing, deviceVars, boundVars, hurried>>
      /\ screen = "scanning" /\ screen' = "connecting" /\ timer' = TRUE /\ discovering' = TRUE
  BY DEF Discover, ghostVars
<1>2. UNCHANGED <<down, subscribed, v2, stored>> /\ down = <<>> /\ ~subscribed /\ ~subscribing
  BY <1>1 DEF DeviceInv, linkVars, deviceVars
<1>3. AuthTypes'
  BY <1>1 DEF AuthTypes, macVars, linkVars, switchVars, deviceVars, boundVars
<1>4. DeviceInv'
  BY <1>1, <1>2 DEF DeviceInv, DeviceGivesUp, ChangesLast, OnlyChanges
<1>5. QED
  BY <1>3, <1>4

LEMMA TimerKeeps == ASSUME AuthTypes, DeviceInv, TimerPasses PROVE AuthTypes' /\ DeviceInv'
<1>1. /\ UNCHANGED <<macVars, linkVars, screen, sheet, discovering, subscribing, deviceVars, boundVars, hurried>>
      /\ screen # "connecting" /\ timer' = FALSE
  BY DEF TimerPasses, ghostVars
<1>2. UNCHANGED <<down, subscribed, v2, stored>>
  BY <1>1 DEF linkVars, deviceVars
<1>3. AuthTypes'
  BY <1>1 DEF AuthTypes, macVars, linkVars, switchVars, deviceVars, boundVars
<1>4. DeviceInv'
  BY <1>1, <1>2 DEF DeviceInv, DeviceGivesUp, ChangesLast, OnlyChanges
<1>5. QED
  BY <1>3, <1>4

\* What is left on the link when the first of it has been heard.
LEMMA HeardOne ==
  ASSUME AuthTypes, DeviceInv, down # <<>>, down' = Tail(down)
  PROVE  /\ down' \in Seq(Down) /\ Head(down) \in Down /\ ChangesLast(down')
         /\ (\E i \in 1 .. Len(down') : down'[i] = Modified) => ~subscribed
         /\ Head(down) = Modified => OnlyChanges(down') /\ ~subscribed
         /\ Head(down) # Modified => ~discovering
         /\ screen # "scanning"
<1>1. /\ down' \in Seq(Down) /\ Len(down') = Len(down) - 1 /\ Len(down) \in Nat \ {0}
      /\ Head(down) = down[1] /\ Head(down) \in Down
      /\ \A i \in 1 .. Len(down) - 1 : down'[i] = down[i + 1]
  BY DownQueue DEF AuthTypes
<1>2. \A i \in 1 .. Len(down') : i + 1 \in 1 .. Len(down) /\ down'[i] = down[i + 1] /\ 1 < i + 1
  BY <1>1
<1>3. 1 \in 1 .. Len(down)
  BY <1>1
<1>4. ChangesLast(down')
  <2> SUFFICES ASSUME NEW i \in 1 .. Len(down'), NEW j \in 1 .. Len(down'), i < j, down'[i] = Modified
               PROVE  down'[j] = Modified
    BY DEF ChangesLast
  <2>1. i + 1 < j + 1
    BY <1>1
  <2>2. QED
    BY <1>2, <2>1 DEF DeviceInv, ChangesLast
<1>5. (\E i \in 1 .. Len(down') : down'[i] = Modified) => ~subscribed
  BY <1>2 DEF DeviceInv
<1>6. Head(down) = Modified => OnlyChanges(down') /\ ~subscribed
  BY <1>1, <1>2, <1>3 DEF DeviceInv, ChangesLast, OnlyChanges
<1>7. (Head(down) # Modified => ~discovering) /\ screen # "scanning"
  BY <1>1, <1>3 DEF DeviceInv, OnlyChanges
<1>8. QED
  BY <1>1, <1>4, <1>5, <1>6, <1>7

LEMMA ModifiedKeeps == ASSUME AuthTypes, DeviceInv, HearModified PROVE AuthTypes' /\ DeviceInv'
<1>1. /\ UNCHANGED <<macVars, events, posts, subscribed, published, switchVars>>
      /\ UNCHANGED <<sheet, half, stored, boundVars, hurried>>
      /\ down # <<>> /\ Head(down) = Modified /\ down' = Tail(down)
      /\ screen' = "connecting" /\ timer' = TRUE /\ discovering' = TRUE /\ subscribing' = FALSE
      /\ v2' = [NewV2 EXCEPT !.pending = v2.pending] /\ mine' = Nothing /\ agreed' = Nothing
  BY DEF HearModified, ghostVars
<1>2. v2' \in [sent : Verb \union {"none"}, awaiting : BOOLEAN, pending : Int] /\ v2'.sent = "none"
  <2>1. v2.pending \in Int
    BY DEF AuthTypes
  <2>2. PICK n \in [sent : Verb \union {"none"}, awaiting : BOOLEAN, pending : Int] :
          n = NewV2 /\ n.sent = "none"
    BY NewV2Is
  <2>3. QED
    BY <1>1, <2>1, <2>2
<1>3. down' \in Seq(Down) /\ ChangesLast(down') /\ OnlyChanges(down') /\ ~subscribed
  BY <1>1, HeardOne
<1>4. AuthTypes'
  BY <1>1, <1>2, <1>3, NumbersOfAuth DEF AuthTypes, macVars, switchVars, boundVars
<1>5. DeviceInv'
  BY <1>1, <1>2, <1>3 DEF DeviceInv, DeviceGivesUp
<1>6. QED
  BY <1>4, <1>5

-------------------------------------------------------------------------------
(* What the device sends *)

LEMMA SendTypes ==
  ASSUME AuthTypes, NEW request \in AuthRequest, Send(request)
  PROVE  events' \in Seq(Event) /\ requests' \in Nat
<1>1. requests' \in Nat
  BY DEF Send, AuthTypes
<1>2. PICK q \in Seq(Event) : q = IF subscribed THEN events ELSE Append(events, Here)
  <2>1. Here \in Event
    BY DEF Event
  <2>2. Append(events, Here) \in Seq(Event)
    BY <2>1, AppendProperties DEF AuthTypes
  <2>3. QED
    BY <2>2 DEF AuthTypes
<1>3. <<request>> \in Seq(Event)
  BY DEF Event
<1>4. q \o <<request>> \in Seq(Event)
  BY <1>3, ConcatProperties
<1>5. events' = events \/ events' = q \o <<request>>
  BY <1>2 DEF Send
<1>6. QED
  BY <1>1, <1>4, <1>5 DEF AuthTypes

LEMMA RequestTyped ==
  ASSUME AuthTypes, NEW verb \in Verb, NEW code \in Int, NEW token \in Int, NEW keys \in Seq(Int)
  PROVE  Request(verb, code, token, keys) \in AuthRequest
<1>1. requests + 1 \in Nat \ {0}
  BY DEF AuthTypes
<1>2. QED
  BY <1>1 DEF Request, AuthRequest

LEMMA BeginTypes ==
  ASSUME AuthTypes, NEW code \in Int, Begin(code)
  PROVE  /\ events' \in Seq(Event) /\ requests' \in Nat /\ mine' \in Int /\ agreed' \in Int
         /\ v2' \in [sent : Verb \union {"none"}, awaiting : BOOLEAN, pending : Int]
<1>1. PICK verb \in Verb : /\ Send(Request(verb, NoCode, Nothing, <<>>))
                           /\ v2' = [sent |-> verb, awaiting |-> FALSE, pending |-> code]
  BY DEF Begin, Verb
<1>2. <<>> \in Seq(Int)
  OBVIOUS
<1>3. Request(verb, NoCode, Nothing, <<>>) \in AuthRequest
  BY <1>2, RequestTyped, NumbersOfAuth
<1>4. events' \in Seq(Event) /\ requests' \in Nat
  BY <1>1, <1>3, SendTypes
<1>5. mine' \in Int /\ agreed' \in Int
  BY NumbersOfAuth DEF Begin, AuthTypes
<1>6. QED
  BY <1>1, <1>4, <1>5

LEMMA SendCodeTypes ==
  ASSUME AuthTypes, NEW code \in Int, NEW theirs \in Int, SendCode(code, theirs)
  PROVE  /\ events' \in Seq(Event) /\ requests' \in Nat /\ v2'.sent = "code2"
         /\ v2' \in [sent : Verb \union {"none"}, awaiting : BOOLEAN, pending : Int]
<1>1. <<mine, theirs>> \in Seq(Int) /\ "code2" \in Verb
  BY DEF AuthTypes, Verb
<1>2. Request("code2", code, Nothing, <<mine, theirs>>) \in AuthRequest
  BY <1>1, RequestTyped, NumbersOfAuth
<1>3. events' \in Seq(Event) /\ requests' \in Nat
  BY <1>2, SendTypes DEF SendCode
<1>4. v2' = [sent |-> "code2", awaiting |-> FALSE, pending |-> NoCode]
  BY DEF SendCode
<1>5. QED
  BY <1>1, <1>3, <1>4, NumbersOfAuth

LEMMA StartKeeps == ASSUME AuthTypes, DeviceInv, Start PROVE AuthTypes' /\ DeviceInv'
<1>1. /\ UNCHANGED <<macVars, posts, published, switchVars, down, screen, sheet, timer, subscribing>>
      /\ UNCHANGED <<half, stored, windows, hurried>>
      /\ discovering /\ discovering' = FALSE /\ subscribed' = TRUE /\ Begin(v2.pending)
      /\ \A i \in DOMAIN down : down[i] # Modified
  BY DEF Start, ghostVars
<1>2. v2.pending \in Int /\ DOMAIN down = 1 .. Len(down)
  BY LenProperties DEF AuthTypes
<1>3. /\ events' \in Seq(Event) /\ requests' \in Nat /\ mine' \in Int /\ agreed' \in Int
      /\ v2' \in [sent : Verb \union {"none"}, awaiting : BOOLEAN, pending : Int]
  BY <1>1, <1>2, BeginTypes
<1>4. AuthTypes'
  BY <1>1, <1>3 DEF AuthTypes, macVars, switchVars
<1>5. screen # "scanning" /\ (screen = "connecting" \/ sheet) /\ ~subscribing
  BY <1>1 DEF DeviceInv
<1>6. DeviceGivesUp' /\ ChangesLast(down')
  BY <1>1, <1>5 DEF DeviceInv, DeviceGivesUp, ChangesLast
<1>7. DeviceInv'
  BY <1>1, <1>2, <1>5, <1>6 DEF DeviceInv
<1>8. QED
  BY <1>4, <1>7

LEMMA SubmitKeeps == ASSUME AuthTypes, DeviceInv, Submit PROVE AuthTypes' /\ DeviceInv'
<1>1. /\ UNCHANGED <<macVars, posts, subscribed, published, switchVars, down, viewVars>>
      /\ UNCHANGED <<half, stored, windows>> /\ sheet /\ screen # "scanning"
      /\ hurried' = (hurried \/ stored # Nothing \/ (v2.sent # "none" /\ ~v2.awaiting))
  BY DEF Submit
<1>2. PICK code \in {window.code, WrongCode} :
        IF v2.awaiting THEN SendCode(code, agreed) /\ UNCHANGED <<mine, agreed, channel>>
                       ELSE Begin(code)
  BY DEF Submit
<1>3. code \in Int /\ agreed \in Int /\ mine \in Int
  BY <1>2, NumbersOfAuth DEF AuthTypes
<1>4. /\ events' \in Seq(Event) /\ requests' \in Nat /\ mine' \in Int /\ agreed' \in Int
      /\ v2' \in [sent : Verb \union {"none"}, awaiting : BOOLEAN, pending : Int]
  <2>1. CASE v2.awaiting
    BY <1>2, <1>3, <2>1, SendCodeTypes
  <2>2. CASE ~v2.awaiting
    BY <1>2, <1>3, <2>2, BeginTypes
  <2>3. QED
    BY <2>1, <2>2
<1>5. AuthTypes'
  BY <1>1, <1>4 DEF AuthTypes, macVars, switchVars, viewVars
<1>6. UNCHANGED <<screen, sheet, timer, discovering, subscribing, subscribed, down, stored>>
  BY <1>1 DEF viewVars
<1>7. subscribing => hurried'
  BY <1>1 DEF DeviceInv
<1>8. DeviceInv'
  BY <1>1, <1>6, <1>7 DEF DeviceInv, DeviceGivesUp, ChangesLast, OnlyChanges
<1>9. QED
  BY <1>5, <1>8

LEMMA StreamKeeps == ASSUME AuthTypes, DeviceInv, Stream PROVE AuthTypes' /\ DeviceInv'
<1>1. /\ UNCHANGED <<macVars, linkVars, discovering, deviceVars, boundVars, hurried>>
      /\ subscribing /\ subscribing' = FALSE /\ screen' = "streaming" /\ timer' = FALSE /\ sheet' = FALSE
  BY DEF Stream, ghostVars
<1>2. UNCHANGED <<down, subscribed, v2, stored>> /\ ~discovering /\ (v2.sent # "none" => hurried)
  BY <1>1 DEF DeviceInv, linkVars, deviceVars
<1>3. AuthTypes'
  BY <1>1 DEF AuthTypes, macVars, linkVars, switchVars, deviceVars, boundVars
<1>4. DeviceInv'
  BY <1>1, <1>2 DEF DeviceInv, DeviceGivesUp, ChangesLast, OnlyChanges
<1>5. QED
  BY <1>3, <1>4

-------------------------------------------------------------------------------
(* What the device hears *)

LEMMA ArrivedIs ==
  ASSUME AuthTypes, NEW packet \in Packet, NEW reply \in Arrived(packet)
  PROVE  reply \in BleReply \/ reply = NoReply
<1>1. packet.of \in BleReply
  BY DEF Packet
<1>2. CASE half \in BleReply
  <2>1. PICK r \in BleReply : r = half
    BY <1>2
  <2>2. r.kind \in ReplyKind /\ r.re \in Int /\ r.key \in Int /\ r.token \in Int
        /\ (r.kind = "granted" => r.token # Nothing) /\ "junk" \in ReplyKind
    BY DEF BleReply, ReplyKind
  <2>3. PICK a : a = [r EXCEPT !.kind = "junk"]
    OBVIOUS
  <2>4. a \in [kind : ReplyKind, re : Int, key : Int, token : Int] /\ a.kind = "junk"
    BY <2>2, <2>3 DEF BleReply
  <2>5. PICK b : b = [r EXCEPT !.key = Garbled]
    OBVIOUS
  <2>6. b \in [kind : ReplyKind, re : Int, key : Int, token : Int] /\ b.kind = r.kind /\ b.token = r.token
    BY <2>2, <2>5, NumbersOfAuth DEF BleReply
  <2>7. a \in BleReply /\ b \in BleReply
    BY <2>2, <2>4, <2>6 DEF BleReply
  <2>8. reply \in {packet.of, NoReply, half, a, b}
    BY <2>1, <2>3, <2>5 DEF Arrived
  <2>9. QED
    BY <1>1, <1>2, <2>7, <2>8
<1>3. CASE half = NoReply
  <2>1. reply \in {packet.of, NoReply}
    BY <1>3 DEF Arrived
  <2>2. QED
    BY <1>1, <2>1
<1>4. QED
  BY <1>2, <1>3 DEF AuthTypes

\* An answer moves the device on: to the code's sheet, to the next request, which the
\* timer or the sheet goes on guarding, or to the snapshots with a token in store.
LEMMA AdvanceKeeps ==
  ASSUME AuthTypes, DeviceInv, NEW reply \in BleReply, v2.sent # "none", Advance(reply),
         UNCHANGED <<timer, mine, hurried>>
  PROVE  /\ events' \in Seq(Event) /\ requests' \in Nat /\ agreed' \in Int /\ stored' \in Int
         /\ v2' \in [sent : Verb \union {"none"}, awaiting : BOOLEAN, pending : Int]
         /\ sheet' \in BOOLEAN /\ subscribing' \in BOOLEAN
         /\ screen' = screen \/ screen' \in {"needsPairing", "failed"}
         /\ DeviceGivesUp' /\ (subscribing' => hurried' \/ (v2'.sent = "none" /\ stored' # Nothing))
<1> DEFINE Moved == /\ events' \in Seq(Event) /\ requests' \in Nat /\ agreed' \in Int /\ stored' \in Int
                    /\ v2' \in [sent : Verb \union {"none"}, awaiting : BOOLEAN, pending : Int]
                    /\ sheet' \in BOOLEAN /\ subscribing' \in BOOLEAN
                    /\ screen' = screen \/ screen' \in {"needsPairing", "failed"}
                    /\ DeviceGivesUp'
                    /\ (subscribing' => hurried' \/ (v2'.sent = "none" /\ stored' # Nothing))
<1>1. /\ screen = "connecting" => timer
      /\ screen = "connecting" \/ sheet \/ hurried
      /\ subscribing => hurried
  BY DEF DeviceInv, DeviceGivesUp
<1>2. reply.key \in Int /\ reply.token \in Int /\ (reply.kind = "granted" => reply.token # Nothing)
  BY DEF BleReply
<1>3. /\ v2.pending \in Int /\ mine \in Int /\ stored \in Int
      /\ v2 \in [sent : Verb \union {"none"}, awaiting : BOOLEAN, pending : Int]
  BY DEF AuthTypes
<1>4. PICK n \in [sent : Verb \union {"none"}, awaiting : BOOLEAN, pending : Int] :
        n = NewV2 /\ n.sent = "none"
  BY NewV2Is
<1>5. ASSUME Denied PROVE Moved
  <2>1. /\ v2' = n /\ screen' = "failed" /\ sheet' = TRUE
        /\ UNCHANGED <<events, agreed, stored, subscribing, requests>>
    BY <1>4, <1>5 DEF Denied
  <2>2. DeviceGivesUp'
    BY <2>1 DEF DeviceGivesUp
  <2>3. QED
    BY <1>1, <1>4, <2>1, <2>2 DEF AuthTypes
<1>6. ASSUME StopV2 PROVE Moved
  <2>1. /\ v2' = n /\ stored' = Nothing /\ screen' = "needsPairing" /\ sheet' = TRUE
        /\ UNCHANGED <<events, agreed, subscribing, requests>>
    BY <1>4, <1>6 DEF StopV2
  <2>2. DeviceGivesUp'
    BY <2>1 DEF DeviceGivesUp
  <2>3. QED
    BY <1>1, <1>4, <2>1, <2>2, NumbersOfAuth DEF AuthTypes
<1>7. ASSUME Bind(reply) PROVE Moved
  <2>1. agreed' = reply.key /\ UNCHANGED <<stored, subscribing>>
    BY <1>7 DEF Bind
  <2>2. CASE v2.pending # NoCode
    <3>1. SendCode(v2.pending, reply.key) /\ UNCHANGED <<screen, sheet>>
      BY <1>7, <2>2 DEF Bind
    <3>2. /\ events' \in Seq(Event) /\ requests' \in Nat
          /\ v2' \in [sent : Verb \union {"none"}, awaiting : BOOLEAN, pending : Int]
      BY <1>2, <1>3, <3>1, SendCodeTypes
    <3>3. DeviceGivesUp'
      BY <1>1, <3>1 DEF DeviceGivesUp
    <3>4. QED
      BY <1>1, <1>2, <2>1, <3>1, <3>2, <3>3 DEF AuthTypes
  <2>3. CASE ~(v2.pending # NoCode)
    <3>1. /\ v2' = [v2 EXCEPT !.awaiting = TRUE] /\ screen' = "needsPairing" /\ sheet' = TRUE
          /\ UNCHANGED <<events, requests>>
      BY <1>7, <2>3 DEF Bind
    <3>2. v2' \in [sent : Verb \union {"none"}, awaiting : BOOLEAN, pending : Int]
      BY <1>3, <3>1
    <3>3. DeviceGivesUp'
      BY <3>1 DEF DeviceGivesUp
    <3>4. QED
      BY <1>1, <1>2, <2>1, <3>1, <3>2, <3>3 DEF AuthTypes
  <2>4. QED
    BY <2>2, <2>3
<1>8. ASSUME Sign(reply) PROVE Moved
  <2>1. /\ agreed' = reply.key /\ v2' = [v2 EXCEPT !.sent = "proof2"]
        /\ Send(Request("proof2", NoCode, stored, <<mine, reply.key>>))
        /\ UNCHANGED <<screen, sheet, stored, subscribing>>
    BY <1>8 DEF Sign
  <2>2. <<mine, reply.key>> \in Seq(Int) /\ "proof2" \in Verb
    BY <1>2, <1>3 DEF Verb
  <2>3. Request("proof2", NoCode, stored, <<mine, reply.key>>) \in AuthRequest
    BY <1>3, <2>2, RequestTyped, NumbersOfAuth
  <2>4. events' \in Seq(Event) /\ requests' \in Nat
    BY <2>1, <2>3, SendTypes
  <2>5. v2' \in [sent : Verb \union {"none"}, awaiting : BOOLEAN, pending : Int]
    BY <1>3, <2>1, <2>2
  <2>6. DeviceGivesUp'
    BY <1>1, <2>1 DEF DeviceGivesUp
  <2>7. QED
    BY <1>1, <1>2, <2>1, <2>4, <2>5, <2>6 DEF AuthTypes
<1>9. ASSUME NEW token \in Int, token # Nothing, NEW pending \in Int, Open(token, pending) PROVE Moved
  <2>1. /\ stored' = token /\ v2' = [n EXCEPT !.pending = pending] /\ subscribing' = TRUE
        /\ UNCHANGED <<events, agreed, requests, screen, sheet>>
    BY <1>4, <1>9 DEF Open
  <2>2. v2' \in [sent : Verb \union {"none"}, awaiting : BOOLEAN, pending : Int] /\ v2'.sent = "none"
    BY <1>4, <2>1
  <2>3. DeviceGivesUp'
    BY <1>1, <2>1, <2>2 DEF DeviceGivesUp
  <2>4. QED
    BY <1>9, <2>1, <2>2, <2>3 DEF AuthTypes
<1>10. \/ Denied \/ StopV2 \/ Bind(reply) \/ Sign(reply)
       \/ reply.kind = "granted" /\ Open(reply.token, NoCode)
       \/ stored # Nothing /\ Open(stored, v2.pending)
  BY DEF Advance
<1>11. Moved
  <2>1. ASSUME reply.kind = "granted", Open(reply.token, NoCode) PROVE Moved
    BY <1>2, <1>9, <2>1, NumbersOfAuth
  <2>2. ASSUME stored # Nothing, Open(stored, v2.pending) PROVE Moved
    BY <1>3, <1>9, <2>2
  <2> HIDE DEF Moved
  <2>3. QED
    BY <1>5, <1>6, <1>7, <1>8, <1>10, <2>1, <2>2
<1>12. QED
  BY <1>11

LEMMA HearKeeps == ASSUME AuthTypes, DeviceInv, Hear PROVE AuthTypes' /\ DeviceInv'
<1>1. /\ UNCHANGED <<macVars, posts, subscribed, published, switchVars, timer, discovering, mine>>
      /\ UNCHANGED <<windows, hurried>>
      /\ down # <<>> /\ Head(down).kind = "packet" /\ down' = Tail(down)
  BY DEF Hear
<1>2. /\ down' \in Seq(Down) /\ ChangesLast(down')
      /\ (\E i \in 1 .. Len(down') : down'[i] = Modified) => ~subscribed
      /\ Head(down) \in Down /\ (Head(down) # Modified => ~discovering) /\ screen # "scanning"
  BY <1>1, HeardOne
<1>3. Head(down) # Modified
  BY <1>1, KindsDiffer
<1>4. PICK packet \in Packet : packet = Head(down)
  BY <1>2, <1>3 DEF Down
<1>5. half' \in BleReply \union {NoReply}
  <2>1. packet.of \in BleReply
    BY DEF Packet
  <2>2. half' = half \/ half' = packet.of \/ half' = NoReply
    BY <1>4 DEF Hear
  <2>3. QED
    BY <2>1, <2>2 DEF AuthTypes
<1>6. PICK reply \in Arrived(packet) :
        IF reply = NoReply \/ v2.sent = "none"
        THEN UNCHANGED <<events, screen, sheet, subscribing, v2, agreed, stored, requests>>
        ELSE Advance(reply)
  BY <1>4 DEF Hear
<1>7. ~discovering
  BY <1>2, <1>3
<1>8. CASE reply = NoReply \/ v2.sent = "none"
  <2>1. UNCHANGED <<events, screen, sheet, subscribing, v2, agreed, stored, requests>>
    BY <1>6, <1>8
  <2>2. AuthTypes'
    BY <1>1, <1>2, <1>5, <2>1 DEF AuthTypes, macVars, switchVars
  <2>3. DeviceGivesUp'
    BY <1>1, <2>1 DEF DeviceInv, DeviceGivesUp
  <2>4. DeviceInv'
    BY <1>1, <1>2, <1>7, <2>1, <2>3 DEF DeviceInv
  <2>5. QED
    BY <2>2, <2>4
<1>9. CASE ~(reply = NoReply \/ v2.sent = "none")
  <2>1. reply \in BleReply /\ v2.sent # "none" /\ Advance(reply)
    BY <1>6, <1>9, ArrivedIs
  <2>2. UNCHANGED <<timer, mine, hurried>>
    BY <1>1
  <2>3. /\ events' \in Seq(Event) /\ requests' \in Nat /\ agreed' \in Int /\ stored' \in Int
        /\ v2' \in [sent : Verb \union {"none"}, awaiting : BOOLEAN, pending : Int]
        /\ sheet' \in BOOLEAN /\ subscribing' \in BOOLEAN
        /\ screen' = screen \/ screen' \in {"needsPairing", "failed"}
        /\ DeviceGivesUp' /\ (subscribing' => hurried' \/ (v2'.sent = "none" /\ stored' # Nothing))
    BY <2>1, <2>2, AdvanceKeeps
  <2>4. AuthTypes'
    BY <1>1, <1>2, <1>5, <2>3 DEF AuthTypes, macVars, switchVars
  <2>5. screen' # "scanning"
    BY <1>2, <2>3
  <2>6. DeviceInv'
    BY <1>1, <1>2, <1>7, <2>3, <2>5 DEF DeviceInv
  <2>7. QED
    BY <2>4, <2>6
<1>10. QED
  BY <1>8, <1>9

LEMMA DeviceStart == BleAuthInit => AuthTypes /\ DeviceInv
<1> SUFFICES ASSUME BleAuthInit PROVE AuthTypes /\ DeviceInv
  OBVIOUS
<1>1. v2 \in [sent : Verb \union {"none"}, awaiting : BOOLEAN, pending : Int] /\ v2.sent = "none"
  BY NewV2Is DEF BleAuthInit
<1>2. window \in [code : Int, left : Int]
  BY NumbersOfAuth DEF BleAuthInit, NoWindow
<1>3. events \in Seq(Event) /\ posts \in Seq(Post) /\ down \in Seq(Down) /\ Len(down) = 0
  BY EmptySeq DEF BleAuthInit
<1>4. AuthTypes
  <2>1. requests \in Nat /\ stored \in Int /\ windows \in Nat
    BY DEF BleAuthInit
  <2>2. handshake \in Int /\ nonce \in Int /\ mine \in Int /\ agreed \in Int
        /\ half \in BleReply \union {NoReply}
    BY NumbersOfAuth DEF BleAuthInit
  <2>3. /\ subscribed \in BOOLEAN /\ published \in BOOLEAN /\ sharing \in BOOLEAN
        /\ sheet \in BOOLEAN /\ timer \in BOOLEAN /\ discovering \in BOOLEAN /\ subscribing \in BOOLEAN
        /\ screen = "scanning"
    BY DEF BleAuthInit
  <2>4. QED
    BY <1>1, <1>2, <1>3, <2>1, <2>2, <2>3 DEF AuthTypes
<1>5. DeviceInv
  BY <1>1, <1>3 DEF BleAuthInit, DeviceInv, DeviceGivesUp, ChangesLast
<1>6. QED
  BY <1>4, <1>5

LEMMA DeviceStep == AuthTypes /\ DeviceInv /\ [BleAuthNext]_authVars => AuthTypes' /\ DeviceInv'
<1> SUFFICES ASSUME AuthTypes, DeviceInv, [BleAuthNext]_authVars PROVE AuthTypes' /\ DeviceInv'
  OBVIOUS
<1>1. CASE AnswerHello \/ AnswerCode \/ AnswerAuth \/ AnswerProof
  <2>1. AuthTypes' /\ UNCHANGED <<subscribed, down, viewVars, deviceVars, hurried>>
    BY <1>1, MacTypes
  <2>2. QED
    BY <2>1, DeviceUntouched
<1>2. CASE \/ TakeHere \/ TakeGone \/ OpenWindow \/ CloseWindow \/ Sweep \/ UnpairAll
           \/ SwitchOff \/ SwitchOn \/ FinishOff \/ FinishOn
  <2>1. AuthTypes' /\ UNCHANGED <<subscribed, down, viewVars, deviceVars, hurried>>
    BY <1>2, MacOwn
  <2>2. QED
    BY <2>1, DeviceUntouched
<1>3. CASE LoseLink \/ GiveUp
  <2>1. Rescan /\ (boundVars' = boundVars \/ Break)
    BY <1>3 DEF LoseLink, GiveUp
  <2>2. QED
    BY <2>1, RescanKeeps
<1>4. CASE UNCHANGED authVars
  <2>1. AuthTypes' /\ UNCHANGED <<subscribed, down, viewVars, deviceVars, hurried>>
    BY <1>4 DEF authVars, macVars, linkVars, switchVars, viewVars, deviceVars, boundVars, ghostVars, AuthTypes
  <2>2. QED
    BY <2>1, DeviceUntouched
<1>5. QED
  BY <1>1, <1>2, <1>3, <1>4, NotifyKeeps, RepublishKeeps, DiscoverKeeps, TimerKeeps, ModifiedKeeps,
     StartKeeps, SubmitKeeps, StreamKeeps, HearKeeps DEF BleAuthNext

\* Whatever the Mac, its user and the radio do, the device does not wait where nothing
\* can move it on (BLEClient.swift:269-274): on its screen a timer runs or the code can
\* be entered.
THEOREM DeviceNeverHangs == BleAuthSpec => []DeviceGivesUp
<1>1. DeviceInv => DeviceGivesUp
  BY DEF DeviceInv
<1>2. QED
  BY <1>1, DeviceStart, DeviceStep, PTL DEF BleAuthSpec

-------------------------------------------------------------------------------
(* Requests and answers: the order in which they are under way *)

\* Requests that wait for the Mac, and packets of answers that are in flight.
Elements(q) == {q[i] : i \in 1 .. Len(q)}
AskedOf(q) == Elements(q) \cap AuthRequest
PacketsOf(q) == Elements(q) \cap Packet
Asked == AskedOf(events)
InFlight == PacketsOf(down) \union PacketsOf(posts)

\* Their order: a packet that completes an answer comes behind the one before it.
Last(p) == p.count = 1 \/ p.idx = 1
Rank(p) == 2 * p.of.re + (IF Last(p) THEN 1 ELSE 0)

AskedInOrder(q) ==
  \A i, j \in 1 .. Len(q) : i < j /\ q[i] \in AuthRequest /\ q[j] \in AuthRequest => q[i].re < q[j].re
SentInOrder(q) ==
  \A i, j \in 1 .. Len(q) : i < j /\ q[i] \in Packet /\ q[j] \in Packet => Rank(q[i]) < Rank(q[j])

AnswersInOrder ==
  /\ SentInOrder(down) /\ SentInOrder(posts)
  /\ \A p \in PacketsOf(down), r \in PacketsOf(posts) : Rank(p) < Rank(r)

OrderInv ==
  /\ AskedInOrder(events) /\ AnswersInOrder
  /\ \A p \in InFlight : p.of.re <= requests /\ \A d \in Asked : p.of.re < d.re
  /\ \A d \in Asked : d.re <= requests

LEMMA ElementsOfTail ==
  ASSUME NEW S, NEW q \in Seq(S), q # <<>>
  PROVE  /\ Elements(q) = {Head(q)} \union Elements(Tail(q)) /\ Head(q) = q[1]
         /\ Len(q) \in Nat \ {0} /\ Len(Tail(q)) = Len(q) - 1
         /\ \A i \in 1 .. Len(Tail(q)) : Tail(q)[i] = q[i + 1] /\ i + 1 \in 1 .. Len(q)
<1>1. /\ Len(q) \in Nat \ {0} /\ Len(Tail(q)) = Len(q) - 1 /\ Head(q) = q[1]
      /\ \A i \in 1 .. Len(Tail(q)) : Tail(q)[i] = q[i + 1]
  BY HeadTailProperties, EmptySeq, LenProperties
<1>2. \A i \in 1 .. Len(Tail(q)) : i + 1 \in 1 .. Len(q)
  BY <1>1
<1>3. ASSUME NEW x \in Elements(q) PROVE x = Head(q) \/ x \in Elements(Tail(q))
  <2>1. PICK i \in 1 .. Len(q) : x = q[i]
    BY DEF Elements
  <2>2. CASE i = 1
    BY <1>1, <2>1, <2>2
  <2>3. CASE i # 1
    <3>1. i - 1 \in 1 .. Len(Tail(q)) /\ (i - 1) + 1 = i
      BY <1>1, <2>1, <2>3
    <3>2. Tail(q)[i - 1] = x
      BY <1>1, <2>1, <3>1
    <3>3. QED
      BY <3>1, <3>2 DEF Elements
  <2>4. QED
    BY <2>2, <2>3
<1>4. 1 \in 1 .. Len(q)
  BY <1>1
<1>5. Head(q) \in Elements(q) /\ Elements(Tail(q)) \subseteq Elements(q)
  BY <1>1, <1>2, <1>4 DEF Elements
<1>6. QED
  BY <1>1, <1>2, <1>3, <1>5

LEMMA ElementsOfAppend ==
  ASSUME NEW S, NEW q \in Seq(S), NEW x \in S
  PROVE  /\ Elements(Append(q, x)) = Elements(q) \union {x}
         /\ Len(q) \in Nat /\ Len(Append(q, x)) = Len(q) + 1 /\ Append(q, x)[Len(q) + 1] = x
         /\ \A i \in 1 .. Len(q) : Append(q, x)[i] = q[i]
<1>1. /\ Len(q) \in Nat /\ Len(Append(q, x)) = Len(q) + 1 /\ Append(q, x)[Len(q) + 1] = x
      /\ \A i \in 1 .. Len(q) : Append(q, x)[i] = q[i]
  BY AppendProperties, LenProperties
<1>2. 1 .. Len(Append(q, x)) = 1 .. Len(q) \union {Len(q) + 1}
  BY <1>1
<1>3. QED
  BY <1>1, <1>2 DEF Elements

LEMMA AskedTail ==
  ASSUME NEW q \in Seq(Event), q # <<>>, AskedInOrder(q)
  PROVE  /\ AskedInOrder(Tail(q))
         /\ AskedOf(q) = ({Head(q)} \cap AuthRequest) \union AskedOf(Tail(q))
         /\ Head(q) \in AuthRequest => \A c \in AskedOf(Tail(q)) : Head(q).re < c.re
<1>1. /\ Elements(q) = {Head(q)} \union Elements(Tail(q)) /\ Head(q) = q[1]
      /\ Len(q) \in Nat \ {0} /\ Len(Tail(q)) = Len(q) - 1
      /\ \A i \in 1 .. Len(Tail(q)) : Tail(q)[i] = q[i + 1] /\ i + 1 \in 1 .. Len(q)
  BY ElementsOfTail
<1>2. ASSUME NEW i \in 1 .. Len(Tail(q)), NEW j \in 1 .. Len(Tail(q)), i < j,
             Tail(q)[i] \in AuthRequest, Tail(q)[j] \in AuthRequest
      PROVE  Tail(q)[i].re < Tail(q)[j].re
  <2>1. i + 1 \in 1 .. Len(q) /\ j + 1 \in 1 .. Len(q) /\ i + 1 < j + 1
    BY <1>1, <1>2
  <2>2. QED
    BY <1>1, <1>2, <2>1 DEF AskedInOrder
<1>3. ASSUME Head(q) \in AuthRequest, NEW c \in AskedOf(Tail(q)) PROVE Head(q).re < c.re
  <2>1. PICK i \in 1 .. Len(Tail(q)) : c = Tail(q)[i]
    BY DEF AskedOf, Elements
  <2>2. 1 \in 1 .. Len(q) /\ i + 1 \in 1 .. Len(q) /\ 1 < i + 1 /\ c = q[i + 1] /\ c \in AuthRequest
    BY <1>1, <2>1 DEF AskedOf
  <2>3. QED
    BY <1>1, <1>3, <2>2 DEF AskedInOrder
<1>4. AskedInOrder(Tail(q))
  BY <1>2 DEF AskedInOrder
<1>5. AskedOf(q) = ({Head(q)} \cap AuthRequest) \union AskedOf(Tail(q))
  BY <1>1 DEF AskedOf
<1>6. QED
  BY <1>3, <1>4, <1>5

LEMMA AskedAppend ==
  ASSUME NEW q \in Seq(Event), NEW e \in Event, AskedInOrder(q),
         e \in AuthRequest => \A c \in AskedOf(q) : c.re < e.re
  PROVE  AskedInOrder(Append(q, e)) /\ AskedOf(Append(q, e)) = AskedOf(q) \union ({e} \cap AuthRequest)
<1>1. /\ Elements(Append(q, e)) = Elements(q) \union {e}
      /\ Len(q) \in Nat /\ Len(Append(q, e)) = Len(q) + 1 /\ Append(q, e)[Len(q) + 1] = e
      /\ \A i \in 1 .. Len(q) : Append(q, e)[i] = q[i]
  BY ElementsOfAppend
<1>2. ASSUME NEW i \in 1 .. Len(Append(q, e)), NEW j \in 1 .. Len(Append(q, e)), i < j,
             Append(q, e)[i] \in AuthRequest, Append(q, e)[j] \in AuthRequest
      PROVE  Append(q, e)[i].re < Append(q, e)[j].re
  <2>1. i \in 1 .. Len(q) /\ (j \in 1 .. Len(q) \/ j = Len(q) + 1)
    BY <1>1, <1>2
  <2>2. CASE j \in 1 .. Len(q)
    BY <1>1, <1>2, <2>1, <2>2 DEF AskedInOrder
  <2>3. CASE j = Len(q) + 1
    <3>1. q[i] \in AskedOf(q)
      BY <1>1, <1>2, <2>1 DEF AskedOf, Elements
    <3>2. QED
      BY <1>1, <1>2, <2>1, <2>3, <3>1
  <2>4. QED
    BY <2>1, <2>2, <2>3
<1>3. AskedInOrder(Append(q, e))
  BY <1>2 DEF AskedInOrder
<1>4. QED
  BY <1>1, <1>3 DEF AskedOf

LEMMA SentTail ==
  ASSUME NEW S, NEW q \in Seq(S), q # <<>>, SentInOrder(q)
  PROVE  /\ SentInOrder(Tail(q))
         /\ PacketsOf(q) = ({Head(q)} \cap Packet) \union PacketsOf(Tail(q))
         /\ Head(q) \in Packet => \A r \in PacketsOf(Tail(q)) : Rank(Head(q)) < Rank(r)
<1>1. /\ Elements(q) = {Head(q)} \union Elements(Tail(q)) /\ Head(q) = q[1]
      /\ Len(q) \in Nat \ {0} /\ Len(Tail(q)) = Len(q) - 1
      /\ \A i \in 1 .. Len(Tail(q)) : Tail(q)[i] = q[i + 1] /\ i + 1 \in 1 .. Len(q)
  BY ElementsOfTail
<1>2. ASSUME NEW i \in 1 .. Len(Tail(q)), NEW j \in 1 .. Len(Tail(q)), i < j,
             Tail(q)[i] \in Packet, Tail(q)[j] \in Packet
      PROVE  Rank(Tail(q)[i]) < Rank(Tail(q)[j])
  <2>1. i + 1 \in 1 .. Len(q) /\ j + 1 \in 1 .. Len(q) /\ i + 1 < j + 1
    BY <1>1, <1>2
  <2>2. QED
    BY <1>1, <1>2, <2>1 DEF SentInOrder
<1>3. ASSUME Head(q) \in Packet, NEW r \in PacketsOf(Tail(q)) PROVE Rank(Head(q)) < Rank(r)
  <2>1. PICK i \in 1 .. Len(Tail(q)) : r = Tail(q)[i]
    BY DEF PacketsOf, Elements
  <2>2. 1 \in 1 .. Len(q) /\ i + 1 \in 1 .. Len(q) /\ 1 < i + 1 /\ r = q[i + 1] /\ r \in Packet
    BY <1>1, <2>1 DEF PacketsOf
  <2>3. QED
    BY <1>1, <1>3, <2>2 DEF SentInOrder
<1>4. SentInOrder(Tail(q))
  BY <1>2 DEF SentInOrder
<1>5. PacketsOf(q) = ({Head(q)} \cap Packet) \union PacketsOf(Tail(q))
  BY <1>1 DEF PacketsOf
<1>6. QED
  BY <1>3, <1>4, <1>5

LEMMA SentAppend ==
  ASSUME NEW S, NEW q \in Seq(S), NEW e \in S, SentInOrder(q),
         e \in Packet => \A r \in PacketsOf(q) : Rank(r) < Rank(e)
  PROVE  SentInOrder(Append(q, e)) /\ PacketsOf(Append(q, e)) = PacketsOf(q) \union ({e} \cap Packet)
<1>1. /\ Elements(Append(q, e)) = Elements(q) \union {e}
      /\ Len(q) \in Nat /\ Len(Append(q, e)) = Len(q) + 1 /\ Append(q, e)[Len(q) + 1] = e
      /\ \A i \in 1 .. Len(q) : Append(q, e)[i] = q[i]
  BY ElementsOfAppend
<1>2. ASSUME NEW i \in 1 .. Len(Append(q, e)), NEW j \in 1 .. Len(Append(q, e)), i < j,
             Append(q, e)[i] \in Packet, Append(q, e)[j] \in Packet
      PROVE  Rank(Append(q, e)[i]) < Rank(Append(q, e)[j])
  <2>1. i \in 1 .. Len(q) /\ (j \in 1 .. Len(q) \/ j = Len(q) + 1)
    BY <1>1, <1>2
  <2>2. CASE j \in 1 .. Len(q)
    BY <1>1, <1>2, <2>1, <2>2 DEF SentInOrder
  <2>3. CASE j = Len(q) + 1
    <3>1. q[i] \in PacketsOf(q)
      BY <1>1, <1>2, <2>1 DEF PacketsOf, Elements
    <3>2. QED
      BY <1>1, <1>2, <2>1, <2>3, <3>1
  <2>4. QED
    BY <2>1, <2>2, <2>3
<1>3. SentInOrder(Append(q, e))
  BY <1>2 DEF SentInOrder
<1>4. QED
  BY <1>1, <1>3 DEF PacketsOf

LEMMA EventsDiffer ==
  /\ Here \notin AuthRequest /\ Gone \notin AuthRequest
  /\ \A e \in AuthRequest : e.verb \in Verb /\ e.re \in Nat \ {0} /\ e.keys \in Seq(Int) /\ e.token \in Int
<1>1. \A e \in AuthRequest : e.verb \in Verb /\ e.re \in Nat \ {0} /\ e.keys \in Seq(Int) /\ e.token \in Int
  BY DEF AuthRequest
<1>2. Here.verb \notin Verb /\ Gone.verb \notin Verb
  BY DEF Here, Gone, Verb
<1>3. QED
  BY <1>1, <1>2

LEMMA PacketIs ==
  ASSUME NEW p \in Packet
  PROVE  /\ p.of \in BleReply /\ p.of.re \in Int /\ p.of.key \in Int /\ p.of.token \in Int /\ p.of.kind \in ReplyKind
         /\ Rank(p) \in Int /\ Rank(p) \in {2 * p.of.re, 2 * p.of.re + 1}
         /\ Last(p) <=> Rank(p) = 2 * p.of.re + 1
<1>1. p.of \in BleReply
  BY DEF Packet
<1>2. p.of.re \in Int /\ p.of.key \in Int /\ p.of.token \in Int /\ p.of.kind \in ReplyKind
  BY <1>1 DEF BleReply
<1>3. PICK n \in Int : n = p.of.re
  BY <1>2
<1>4. Rank(p) = 2 * n + (IF Last(p) THEN 1 ELSE 0)
  BY <1>3 DEF Rank
<1>5. QED
  BY <1>1, <1>2, <1>3, <1>4

\* Ranks order the answers, and what completes one comes last of it.
LEMMA RanksOrder ==
  ASSUME NEW p \in Packet, NEW r \in Packet, Rank(p) < Rank(r)
  PROVE  p.of.re <= r.of.re /\ (Last(p) => p.of.re < r.of.re)
<1>1. PICK m \in Int, n \in Int, x \in Int, y \in Int : m = p.of.re /\ n = r.of.re /\ x = Rank(p) /\ y = Rank(r)
  BY PacketIs
<1>2. x \in {2 * m, 2 * m + 1} /\ y \in {2 * n, 2 * n + 1} /\ x < y /\ (Last(p) <=> x = 2 * m + 1)
  BY <1>1, PacketIs
<1>3. m <= n /\ (x = 2 * m + 1 => m < n)
  BY <1>2
<1>4. QED
  BY <1>1, <1>2, <1>3

\* The first event is taken.
LEMMA TakenFirst ==
  ASSUME AuthTypes, OrderInv, events # <<>>, events' = Tail(events)
  PROVE  /\ AskedInOrder(events') /\ events' \in Seq(Event)
         /\ Asked = ({Head(events)} \cap AuthRequest) \union Asked'
         /\ Head(events) \in AuthRequest => /\ Head(events) \in Asked /\ Head(events) \notin Asked'
                                           /\ \A c \in Asked' : Head(events).re < c.re
<1>1. /\ AskedInOrder(Tail(events)) /\ Tail(events) \in Seq(Event)
      /\ AskedOf(events) = ({Head(events)} \cap AuthRequest) \union AskedOf(Tail(events))
      /\ Head(events) \in AuthRequest => \A c \in AskedOf(Tail(events)) : Head(events).re < c.re
  BY AskedTail, HeadTailProperties DEF AuthTypes, OrderInv
<1>2. Asked = AskedOf(events) /\ Asked' = AskedOf(Tail(events))
  BY DEF Asked
<1>3. Head(events) \in AuthRequest => Head(events).re \in Nat
  BY EventsDiffer
<1>4. QED
  BY <1>1, <1>2, <1>3

\* An answer is handed over: behind all others, to the first of the requests.
LEMMA AnswerOrder ==
  ASSUME AuthTypes, OrderInv, events # <<>>, Head(events) \in AuthRequest, NEW kind \in ReplyKind, NEW key \in Int,
         NEW token \in Int, kind = "granted" => token # Nothing, Answer(Head(events), kind, key, token)
  PROVE  LET d == Head(events)
             reply == [kind |-> kind, re |-> d.re, key |-> key, token |-> token]
         IN  /\ OrderInv'
             /\ d \in Asked /\ d.re <= requests /\ Asked = {d} \union Asked' /\ d \notin Asked'
             /\ \A c \in Asked' : d.re < c.re
             /\ PacketsOf(posts) \subseteq PacketsOf(posts')
             /\ \A p \in PacketsOf(posts') \ PacketsOf(posts) : p.of = reply
             /\ \E p \in PacketsOf(posts') : Last(p) /\ p.of = reply
<1> DEFINE d == Head(events)
<1> DEFINE reply == [kind |-> kind, re |-> d.re, key |-> key, token |-> token]
<1>1. /\ d \in AuthRequest /\ d \in Asked /\ d \notin Asked' /\ Asked = {d} \union Asked'
      /\ \A c \in Asked' : d.re < c.re
      /\ AskedInOrder(events') /\ UNCHANGED <<down, requests>>
  BY TakenFirst DEF Answer, boundVars
<1>2. reply \in BleReply /\ d.re \in Nat /\ reply.re = d.re
  BY DEF BleReply, AuthRequest
<1>3. PICK n \in Nat : n = d.re
  BY <1>2
<1>4. /\ n <= requests /\ \A r \in InFlight : r \in Packet /\ r.of.re < n
      /\ PacketsOf(posts) \subseteq InFlight /\ PacketsOf(down) \subseteq InFlight
  BY <1>1, <1>3 DEF OrderInv, InFlight, PacketsOf
<1>5. \A r \in InFlight : Rank(r) < 2 * n
  <2> SUFFICES ASSUME NEW r \in InFlight PROVE Rank(r) < 2 * n
    OBVIOUS
  <2>1. PICK m \in Int, x \in Int : m = r.of.re /\ x = Rank(r) /\ x \in {2 * m, 2 * m + 1} /\ m < n
    BY <1>4, PacketIs
  <2>2. QED
    BY <2>1
<1>6. PICK whole, first, second :
        /\ whole = [kind |-> "packet", of |-> reply, idx |-> 0, count |-> 1]
        /\ first = [kind |-> "packet", of |-> reply, idx |-> 0, count |-> 2]
        /\ second = [kind |-> "packet", of |-> reply, idx |-> 1, count |-> 2]
  OBVIOUS
<1>7. /\ {whole, first, second} \subseteq Packet
      /\ whole.of = reply /\ first.of = reply /\ second.of = reply
      /\ Last(whole) /\ Last(second) /\ ~Last(first)
  <2> HIDE DEF reply
  <2>1. QED
    BY <1>2, <1>6 DEF Packet, Last
<1>8. Rank(whole) = 2 * n + 1 /\ Rank(first) = 2 * n /\ Rank(second) = 2 * n + 1
  <2>1. \A p \in {whole, first, second} : p.of.re = n
    BY <1>2, <1>3, <1>7
  <2>2. QED
    BY <1>7, <2>1 DEF Rank
<1>9. posts' = Append(posts, whole) \/ posts' = Append(Append(posts, first), second)
  <2>1. PICK packets \in Packets(reply) : posts' = posts \o packets
    BY DEF Answer
  <2>2. packets = <<whole>> \/ packets = <<first, second>>
    <3>1. packets = <<whole>> \/ packets = [i \in 1 .. 2 |-> [kind |-> "packet", of |-> reply, idx |-> i - 1, count |-> 2]]
      BY <1>6, <2>1 DEF Packets
    <3>2. [i \in 1 .. 2 |-> [kind |-> "packet", of |-> reply, idx |-> i - 1, count |-> 2]]
            = [i \in 1 .. 2 |-> IF i = 1 THEN first ELSE second]
      BY <1>6
    <3>3. QED
      BY <3>1, <3>2
  <2>3. posts \in Seq(Post) /\ whole \in Post /\ first \in Post /\ second \in Post
    BY <1>7 DEF AuthTypes, Post
  <2>4. posts \o <<whole>> = Append(posts, whole) /\ posts \o <<first, second>> = Append(Append(posts, first), second)
    BY <2>3
  <2>5. QED
    BY <2>1, <2>2, <2>4
<1>10. /\ SentInOrder(posts') /\ PacketsOf(posts) \subseteq PacketsOf(posts')
       /\ \A p \in PacketsOf(posts') \ PacketsOf(posts) : p \in {whole, first, second}
       /\ \E p \in PacketsOf(posts') : Last(p) /\ p.of = reply
  <2>1. posts \in Seq(Post) /\ SentInOrder(posts) /\ whole \in Post /\ first \in Post /\ second \in Post
    BY <1>7 DEF AuthTypes, Post, OrderInv, AnswersInOrder
  <2>2. \A r \in PacketsOf(posts) : Rank(r) < Rank(whole) /\ Rank(r) < Rank(first) /\ Rank(r) < Rank(second)
    <3> SUFFICES ASSUME NEW r \in PacketsOf(posts) PROVE Rank(r) < Rank(whole) /\ Rank(r) < Rank(first)
      BY <1>8
    <3>1. PICK x \in Int : x = Rank(r) /\ x < 2 * n
      BY <1>4, <1>5, PacketIs
    <3>2. QED
      BY <1>8, <3>1
  <2>3. CASE posts' = Append(posts, whole)
    <3>1. SentInOrder(posts') /\ PacketsOf(posts') = PacketsOf(posts) \union {whole}
      BY <1>7, <2>1, <2>2, <2>3, SentAppend
    <3>2. QED
      BY <1>7, <3>1
  <2>4. CASE posts' = Append(Append(posts, first), second)
    <3>1. PICK q \in Seq(Post) : q = Append(posts, first)
      BY <2>1, AppendProperties
    <3>2. SentInOrder(q) /\ PacketsOf(q) = PacketsOf(posts) \union {first}
      BY <1>7, <2>1, <2>2, <3>1, SentAppend
    <3>3. \A r \in PacketsOf(q) : Rank(r) < Rank(second)
      BY <1>8, <2>2, <3>2
    <3>4. /\ SentInOrder(Append(q, second))
          /\ PacketsOf(Append(q, second)) = PacketsOf(q) \union ({second} \cap Packet)
      BY <2>1, <3>2, <3>3, SentAppend
    <3>5. posts' = Append(q, second)
      BY <2>4, <3>1
    <3>6. QED
      BY <1>7, <3>2, <3>4, <3>5
  <2>5. QED
    BY <1>9, <2>3, <2>4
<1>11. \A p \in PacketsOf(posts') \ PacketsOf(posts) : p \in Packet /\ p.of = reply /\ p.of.re = n /\ 2 * n <= Rank(p)
  BY <1>2, <1>3, <1>7, <1>8, <1>10
<1>12. \A p \in PacketsOf(down), r \in PacketsOf(posts') : Rank(p) < Rank(r)
  <2> SUFFICES ASSUME NEW p \in PacketsOf(down), NEW r \in PacketsOf(posts'), r \notin PacketsOf(posts)
               PROVE  Rank(p) < Rank(r)
    BY DEF OrderInv, AnswersInOrder
  <2>1. PICK x \in Int, y \in Int : x = Rank(p) /\ y = Rank(r) /\ x < 2 * n /\ 2 * n <= y
    BY <1>4, <1>5, <1>11, PacketIs
  <2>2. QED
    BY <2>1
<1>13. \A p \in InFlight' : p.of.re <= requests /\ \A c \in Asked' : p.of.re < c.re
  <2> SUFFICES ASSUME NEW p \in InFlight' PROVE p.of.re <= requests /\ \A c \in Asked' : p.of.re < c.re
    OBVIOUS
  <2>1. p \in InFlight \/ p.of.re = n
    BY <1>1, <1>11 DEF InFlight
  <2>2. QED
    BY <1>1, <1>3, <1>4, <2>1 DEF OrderInv
<1>14. OrderInv'
  <2>1. PacketsOf(down') = PacketsOf(down) /\ SentInOrder(down')
    BY <1>1 DEF OrderInv, AnswersInOrder
  <2>2. \A c \in Asked' : c.re <= requests
    BY <1>1 DEF OrderInv
  <2>3. QED
    BY <1>1, <1>10, <1>12, <1>13, <2>1, <2>2 DEF OrderInv, AnswersInOrder
<1>15. QED
  BY <1>1, <1>3, <1>4, <1>10, <1>11, <1>14

\* Of the answers some are gone, and no request is new.
LEMMA FewerAnswers ==
  ASSUME AuthTypes, OrderInv, AnswersInOrder', InFlight' \subseteq InFlight, AskedInOrder(events'), Asked' \subseteq Asked,
         requests' = requests
  PROVE  OrderInv'
  BY DEF OrderInv

\* The first of the answers on the link is heard.
LEMMA HeardFirst ==
  ASSUME AuthTypes, OrderInv, down # <<>>, down' = Tail(down), posts' = posts
  PROVE  /\ AnswersInOrder'
         /\ InFlight = ({Head(down)} \cap Packet) \union InFlight'
         /\ PacketsOf(down) = ({Head(down)} \cap Packet) \union PacketsOf(down')
         /\ Head(down) \in Packet => /\ Head(down) \in InFlight
                                    /\ \A r \in InFlight' : r \in Packet /\ Rank(Head(down)) < Rank(r)
<1>1. /\ SentInOrder(down')
      /\ PacketsOf(down) = ({Head(down)} \cap Packet) \union PacketsOf(down')
      /\ Head(down) \in Packet => \A r \in PacketsOf(down') : Rank(Head(down)) < Rank(r)
  BY SentTail DEF AuthTypes, OrderInv, AnswersInOrder
<1>2. PacketsOf(posts') = PacketsOf(posts) /\ SentInOrder(posts')
  BY DEF OrderInv, AnswersInOrder
<1>3. AnswersInOrder'
  BY <1>1, <1>2 DEF OrderInv, AnswersInOrder
<1>4. \A r \in InFlight' : r \in Packet
  BY DEF InFlight, PacketsOf
<1>5. QED
  BY <1>1, <1>2, <1>3, <1>4 DEF InFlight, OrderInv, AnswersInOrder

LEMMA MainThread ==
  ASSUME AuthTypes, OrderInv, Notify \/ Republish
  PROVE  /\ OrderInv' /\ Asked' = Asked /\ InFlight' \subseteq InFlight
         /\ PacketsOf(posts') \subseteq PacketsOf(posts)
         /\ PacketsOf(down') \subseteq PacketsOf(down) \union (IF subscribed THEN PacketsOf(posts) ELSE {})
         /\ ~dropped' => InFlight' = InFlight
<1>1. /\ UNCHANGED <<events, requests>> /\ posts # <<>> /\ posts' = Tail(posts)
      /\ \/ Notify /\ Head(posts).kind = "packet"
         \/ Republish /\ Head(posts).kind \in {"stop", "publish"}
  BY DEF Notify, Republish, boundVars
<1>2. /\ SentInOrder(posts') /\ Head(posts) \in Post
      /\ PacketsOf(posts) = ({Head(posts)} \cap Packet) \union PacketsOf(posts')
      /\ Head(posts) \in Packet => \A r \in PacketsOf(posts') : Rank(Head(posts)) < Rank(r)
  BY <1>1, SentTail, HeadTailProperties DEF AuthTypes, OrderInv, AnswersInOrder
<1>3. down \in Seq(Down) /\ SentInOrder(down) /\ \A p \in PacketsOf(down), r \in PacketsOf(posts) : Rank(p) < Rank(r)
  BY DEF AuthTypes, OrderInv, AnswersInOrder
<1>4. ASSUME down' = down \/ down' = Append(down, Modified)
      PROVE  PacketsOf(down') = PacketsOf(down) /\ AnswersInOrder'
  <2>1. Modified \in Down /\ Modified \notin Packet
    BY KindsDiffer DEF Down
  <2>2. /\ SentInOrder(Append(down, Modified))
        /\ PacketsOf(Append(down, Modified)) = PacketsOf(down) \union ({Modified} \cap Packet)
    BY <1>3, <2>1, SentAppend
  <2>3. SentInOrder(down') /\ PacketsOf(down') = PacketsOf(down)
    BY <1>3, <1>4, <2>1, <2>2
  <2>4. QED
    BY <1>2, <1>3, <2>3 DEF AnswersInOrder
<1>5. ASSUME Head(posts) \in Packet, subscribed, down' = Append(down, Head(posts))
      PROVE  PacketsOf(down') = PacketsOf(down) \union {Head(posts)} /\ AnswersInOrder'
  <2>1. Head(posts) \in Down /\ \A r \in PacketsOf(down) : Rank(r) < Rank(Head(posts))
    BY <1>2, <1>3, <1>5 DEF Down
  <2>2. SentInOrder(down') /\ PacketsOf(down') = PacketsOf(down) \union ({Head(posts)} \cap Packet)
    BY <1>3, <1>5, <2>1, SentAppend
  <2>3. QED
    BY <1>2, <1>3, <1>5, <2>2 DEF AnswersInOrder
<1>6. \/ Head(posts) \in Packet /\ subscribed /\ down' = Append(down, Head(posts))
      \/ Head(posts) \in Packet /\ down' = down /\ dropped'
      \/ Head(posts) \notin Packet /\ (down' = down \/ down' = Append(down, Modified))
  <2>1. Stop.kind = "stop" /\ Publish.kind = "publish"
    BY DEF Stop, Publish
  <2>2. CASE Notify
    <3>1. Head(posts) \in Packet
      BY <1>1, <1>2, <2>1, <2>2 DEF Post, Notify
    <3>2. QED
      BY <2>2, <3>1 DEF Notify
  <2>3. CASE Republish
    <3>1. Head(posts) \notin Packet
      BY <2>3, KindsDiffer DEF Republish
    <3>2. QED
      BY <2>3, <3>1 DEF Republish
  <2>4. QED
    BY <2>2, <2>3
<1>7. /\ AnswersInOrder'
      /\ PacketsOf(down') \subseteq PacketsOf(down) \union (IF subscribed THEN PacketsOf(posts) ELSE {})
      /\ InFlight' \subseteq InFlight
      /\ ~dropped' => InFlight' = InFlight
  BY <1>2, <1>4, <1>5, <1>6 DEF InFlight
<1>8. Asked' = Asked /\ AskedInOrder(events')
  BY <1>1 DEF Asked, OrderInv
<1>9. OrderInv'
  BY <1>1, <1>7, <1>8, FewerAnswers
<1>10. QED
  BY <1>2, <1>7, <1>8, <1>9

\* A closure that is no answer is posted, or an event that is no request is taken.
LEMMA NoneAnswered ==
  ASSUME AuthTypes, OrderInv, UNCHANGED <<down, requests>>,
         posts' \in {posts, Append(posts, Stop), Append(posts, Publish)},
         events' = events \/ (events # <<>> /\ Head(events) \notin AuthRequest /\ events' = Tail(events))
  PROVE  /\ OrderInv' /\ Asked' = Asked /\ InFlight' = InFlight
         /\ PacketsOf(posts') = PacketsOf(posts) /\ PacketsOf(down') = PacketsOf(down)
<1>1. Stop \in Post \ Packet /\ Publish \in Post \ Packet
  BY KindsDiffer DEF Post
<1>2. posts \in Seq(Post) /\ SentInOrder(posts)
  BY DEF AuthTypes, OrderInv, AnswersInOrder
<1>3. \A x \in {Stop, Publish} : SentInOrder(Append(posts, x)) /\ PacketsOf(Append(posts, x)) = PacketsOf(posts)
  <2> SUFFICES ASSUME NEW x \in {Stop, Publish}
               PROVE  SentInOrder(Append(posts, x)) /\ PacketsOf(Append(posts, x)) = PacketsOf(posts)
    OBVIOUS
  <2>1. x \in Post /\ x \notin Packet
    BY <1>1
  <2>2. SentInOrder(Append(posts, x)) /\ PacketsOf(Append(posts, x)) = PacketsOf(posts) \union ({x} \cap Packet)
    BY <1>2, <2>1, SentAppend
  <2>3. QED
    BY <2>1, <2>2
<1>4. SentInOrder(posts') /\ PacketsOf(posts') = PacketsOf(posts) /\ PacketsOf(down') = PacketsOf(down)
  BY <1>2, <1>3
<1>5. AnswersInOrder' /\ InFlight' = InFlight
  BY <1>4 DEF AnswersInOrder, OrderInv, InFlight
<1>6. AskedInOrder(events') /\ Asked' = Asked
  <2>1. CASE events' = events
    BY <2>1 DEF OrderInv, Asked
  <2>2. CASE events # <<>> /\ Head(events) \notin AuthRequest /\ events' = Tail(events)
    BY <2>2, TakenFirst
  <2>3. QED
    BY <2>1, <2>2
<1>7. QED
  BY <1>4, <1>5, <1>6, FewerAnswers

\* A request is sent: it is the last of all, if it reaches the Mac at all.
LEMMA SentLast ==
  ASSUME AuthTypes, OrderInv, NEW request \in AuthRequest, request.re = requests + 1, Send(request),
         AnswersInOrder', InFlight' \subseteq InFlight
  PROVE  /\ OrderInv' /\ requests' = requests + 1
         /\ Asked' = Asked \/ Asked' = Asked \union {request}
         /\ subscribed' => request \in Asked'
<1>1. requests \in Nat /\ requests' = requests + 1 /\ events \in Seq(Event)
  BY DEF Send, AuthTypes
<1>2. PICK q : q = IF subscribed THEN events ELSE Append(events, Here)
  OBVIOUS
<1>3. q \in Seq(Event) /\ AskedInOrder(q) /\ AskedOf(q) = Asked
  <2>1. Here \in Event /\ Here \notin AuthRequest
    BY EventsDiffer DEF Event
  <2>2. Append(events, Here) \in Seq(Event)
    BY <1>1, <2>1, AppendProperties
  <2>3. /\ AskedInOrder(Append(events, Here))
        /\ AskedOf(Append(events, Here)) = AskedOf(events) \union ({Here} \cap AuthRequest)
    BY <1>1, <2>1, AskedAppend DEF OrderInv
  <2>4. QED
    BY <1>1, <1>2, <2>1, <2>2, <2>3 DEF OrderInv, Asked
<1>4. events' = events \/ events' = Append(q, request)
  <2>1. events' = events \/ events' = q \o <<request>>
    BY <1>2 DEF Send
  <2>2. q \o <<request>> = Append(q, request)
    BY <1>3
  <2>3. QED
    BY <2>1, <2>2
<1>5. subscribed' => events' = Append(q, request)
  <2>1. subscribed' => events' = q \o <<request>>
    BY <1>2 DEF Send
  <2>2. q \o <<request>> = Append(q, request)
    BY <1>3
  <2>3. QED
    BY <2>1, <2>2
<1>6. AskedInOrder(Append(q, request)) /\ AskedOf(Append(q, request)) = Asked \union {request}
  <2>1. \A c \in AskedOf(q) : c.re < request.re
    <3> SUFFICES ASSUME NEW c \in Asked PROVE c.re < request.re
      BY <1>3
    <3>1. c.re \in Nat /\ c.re <= requests
      BY EventsDiffer DEF OrderInv, Asked, AskedOf
    <3>2. QED
      BY <1>1, <3>1
  <2>2. request \in Event
    BY DEF Event
  <2>3. QED
    BY <1>3, <2>1, <2>2, AskedAppend
<1>7. /\ AskedInOrder(events') /\ (Asked' = Asked \/ Asked' = Asked \union {request})
      /\ subscribed' => request \in Asked'
  BY <1>4, <1>5, <1>6 DEF OrderInv, Asked
<1>8. ASSUME NEW p \in InFlight' PROVE p.of.re <= requests' /\ \A d \in Asked' : p.of.re < d.re
  <2>1. PICK n \in Int : n = p.of.re /\ n <= requests
    BY PacketIs DEF OrderInv, InFlight, PacketsOf
  <2>2. QED
    BY <1>1, <1>7, <1>8, <2>1 DEF OrderInv
<1>9. ASSUME NEW d \in Asked' PROVE d.re <= requests'
  <2>1. d = request \/ (d.re \in Nat /\ d.re <= requests)
    BY <1>7, EventsDiffer DEF OrderInv, Asked, AskedOf
  <2>2. QED
    BY <1>1, <2>1
<1>10. QED
  BY <1>1, <1>7, <1>8, <1>9 DEF OrderInv

-------------------------------------------------------------------------------
(* The sessions of the two sides *)

Coded == {d \in Asked : d.verb \in {"code2", "proof2"}}
Keyed(p) == p.of.kind \in {"await", "nonce"}
Granted(p) == p.of.kind = "granted"
Ok(p) == p.of.kind \in {"granted", "authorized"}

\* Who is known by what: a key is named by a request that was answered, and so is a token.
AnswerIs(p) ==
  /\ p.of.re > 0
  /\ Keyed(p) => p.of.key = p.of.re
  /\ Granted(p) => p.of.token = p.of.re /\ p.of.key \in 1 .. p.of.re - 1
  /\ ~Granted(p) => p.of.token = Nothing

NumberInv ==
  /\ handshake \in 0 .. requests /\ agreed \in -1 .. requests /\ mine \in 0 .. requests /\ stored \in 0 .. requests
  /\ \A d \in Asked : handshake < d.re /\ agreed < d.re /\ stored < d.re
  /\ \A p \in InFlight : AnswerIs(p)

\* The key that the device agreed on is older than those on the way, and the Mac's is not.
KeyInv ==
  /\ \A p \in InFlight : Keyed(p) => agreed < p.of.re /\ (handshake = Nothing \/ p.of.re <= handshake)
  /\ \A o, p \in InFlight : Ok(o) /\ Keyed(p) => o.of.re < p.of.re

\* Only the last request may bear the device's present key.
OfThisKey(key, re) ==
  mine # Nothing => key <= mine /\ (key = mine => re = requests /\ v2.sent \notin {"hello2", "auth2"})

CodedInv ==
  \A d \in Coded : /\ d.keys \in Int \X Int /\ d.keys[1] < d.re
                   /\ \A c \in Asked : d.keys[2] < c.re
                   /\ \A p \in InFlight : Keyed(p) => d.keys[2] < p.of.re
                   /\ OfThisKey(d.keys[1], d.re)

GrantedInv ==
  \A o \in InFlight : Granted(o) =>
    /\ stored < o.of.token
    /\ handshake = Nothing \/ o.of.key < handshake
    /\ OfThisKey(o.of.key, o.of.re)
    /\ session = NoSession \/ o.of.key < session.key[1] \/ session = NewSession(o.of.token, o.of.key)

StandingInv ==
  session # NoSession =>
    /\ session = NewSession(session.token, session.key[1]) /\ session.key[1] \in 1 .. requests
    /\ mine # Nothing => session.key[1] <= mine

Answers(sent) == CASE sent = "hello2" -> {"await", "rejected"}
                   [] sent = "auth2"  -> {"nonce"}
                   [] sent = "code2"  -> {"rejected", "denied", "granted"}
                   [] sent = "proof2" -> {"authorized", "rejected"}

\* What the last request is, and what may answer it.
LastInv ==
  v2.sent # "none" =>
    /\ mine # Nothing /\ channel = NoSession
    /\ \A d \in Asked : d.re = requests =>
         /\ d.verb = v2.sent
         /\ d.verb = "proof2" => d.token = stored
         /\ d.verb \in {"code2", "proof2"} => d.keys = <<mine, agreed>>
    /\ \A p \in InFlight : p.of.re = requests => p.of.kind \in Answers(v2.sent)

SentInv ==
  /\ v2.awaiting => v2.sent = "hello2"
  /\ v2.sent \in {"hello2", "auth2"} => mine = requests
  /\ v2.sent = "auth2" \/ (v2.sent = "hello2" /\ ~v2.awaiting) => agreed = Nothing
  /\ v2.sent \in {"auth2", "proof2"} => stored # Nothing

\* A proof that was sent is the only one that can still be right.
ProofInv ==
  ~mixed /\ v2.sent = "proof2" =>
    /\ handshake = Nothing \/ agreed <= handshake
    /\ \A d \in Coded : d.re # requests => d.keys[2] < agreed
    /\ \A o \in InFlight : Ok(o) =>
         o.of.re = requests /\ session \in {NoSession, [token |-> stored, key |-> <<mine, agreed>>]}

ChannelInv ==
  channel # NoSession /\ ~mixed => Asked = {} /\ session \in {NoSession, channel}

MatchInv ==
  /\ NumberInv /\ KeyInv /\ CodedInv /\ GrantedInv /\ StandingInv
  /\ LastInv /\ SentInv /\ ProofInv /\ ChannelInv

LEMMA Members ==
  /\ \A d \in Asked \union Asked' : d \in AuthRequest /\ d.re \in Nat \ {0} /\ d.verb \in Verb
  /\ \A p \in InFlight \union InFlight' :
       p \in Packet /\ p.of \in BleReply /\ p.of.re \in Int /\ p.of.key \in Int /\ p.of.token \in Int
  BY EventsDiffer, PacketIs DEF Asked, AskedOf, InFlight, PacketsOf

\* Answers are lost or go on, or a session or handshake ends.
LEMMA LessKeeps ==
  ASSUME MatchInv, requests \in Nat, UNCHANGED <<requests, v2, mine, agreed, stored, channel, mixed>>,
         Asked' = Asked, InFlight' \subseteq InFlight, handshake' \in {handshake, Nothing}, session' \in {session, NoSession}
  PROVE  MatchInv'
<1>1. NumberInv'
  BY Members DEF MatchInv, NumberInv, Nothing
<1>2. KeyInv'
  BY DEF MatchInv, KeyInv, Keyed, Ok
<1>3. CodedInv'
  BY DEF MatchInv, CodedInv, Coded, OfThisKey, Keyed
<1>4. GrantedInv'
  BY DEF MatchInv, GrantedInv, OfThisKey, Granted, NewSession
<1>5. StandingInv'
  BY DEF MatchInv, StandingInv, NewSession
<1>6. LastInv' /\ SentInv'
  BY DEF MatchInv, LastInv, SentInv, Answers
<1>7. ProofInv'
  BY DEF MatchInv, ProofInv, Coded, Ok
<1>8. ChannelInv'
  BY DEF MatchInv, ChannelInv
<1>9. QED
  BY <1>1, <1>2, <1>3, <1>4, <1>5, <1>6, <1>7, <1>8 DEF MatchInv

\* The device starts anew, with the link or without it.
LEMMA ResetKeeps ==
  ASSUME MatchInv, requests \in Nat, UNCHANGED <<requests, stored, mixed, handshake, session>>,
         v2'.sent = "none", ~v2'.awaiting, mine' = Nothing, agreed' = Nothing, channel' = NoSession,
         Asked' = Asked, InFlight' \subseteq InFlight
  PROVE  MatchInv'
<1>1. NumberInv'
  BY Members DEF MatchInv, NumberInv, Nothing
<1>2. KeyInv'
  BY Members DEF MatchInv, KeyInv, Keyed, Ok, NumberInv, AnswerIs, Nothing
<1>3. CodedInv'
  BY DEF MatchInv, CodedInv, Coded, OfThisKey, Keyed
<1>4. GrantedInv'
  BY DEF MatchInv, GrantedInv, OfThisKey, Granted, NewSession
<1>5. StandingInv'
  BY DEF MatchInv, StandingInv, NewSession
<1>6. LastInv' /\ SentInv' /\ ProofInv' /\ ChannelInv'
  BY DEF LastInv, SentInv, ProofInv, ChannelInv
<1>7. QED
  BY <1>1, <1>2, <1>3, <1>4, <1>5, <1>6 DEF MatchInv

\* A handshake begins.
LEMMA BeginKeeps ==
  ASSUME MatchInv, OrderInv, OrderInv', requests \in Nat, UNCHANGED <<stored, mixed, handshake, session>>,
         NEW d \in AuthRequest, d.verb \in {"hello2", "auth2"}, d.re = requests + 1, d.verb = "auth2" => stored # Nothing,
         requests' = requests + 1, Asked' = Asked \/ Asked' = Asked \union {d}, InFlight' = InFlight,
         v2'.sent = d.verb, ~v2'.awaiting, mine' = requests + 1, agreed' = Nothing, channel' = NoSession
  PROVE  MatchInv'
<1>1. \A p \in InFlight : p.of.re \in Int /\ p.of.re <= requests
  BY Members DEF OrderInv
<1>2. \A c \in Asked : c.re \in Nat /\ c.re <= requests
  BY Members DEF OrderInv
<1>3. Coded' = Coded
  BY DEF Coded
<1>4. NumberInv'
  BY <1>1, <1>2, Members DEF MatchInv, NumberInv, Nothing, AnswerIs, Keyed, Granted
<1>5. KeyInv'
  BY Members DEF MatchInv, KeyInv, Keyed, Ok, NumberInv, AnswerIs, Nothing
<1>6. CodedInv'
  <2> SUFFICES ASSUME NEW c \in Coded
               PROVE  /\ c.keys \in Int \X Int /\ c.keys[1] < c.re
                      /\ \A e \in Asked' : c.keys[2] < e.re
                      /\ \A p \in InFlight' : Keyed(p) => c.keys[2] < p.of.re
                      /\ OfThisKey(c.keys[1], c.re)'
    BY <1>3 DEF CodedInv, Keyed
  <2>1. c \in Asked /\ c.re \in Nat /\ c.re <= requests
    BY <1>2 DEF Coded
  <2>2. PICK x \in Int, y \in Int : x = c.keys[1] /\ y = c.keys[2] /\ x < c.re /\ y < c.re
    BY <2>1 DEF MatchInv, CodedInv
  <2>3. OfThisKey(c.keys[1], c.re)'
    BY <2>1, <2>2 DEF OfThisKey
  <2>4. \A e \in Asked' : c.keys[2] < e.re
    BY <2>1, <2>2 DEF MatchInv, CodedInv
  <2>5. QED
    BY <2>3, <2>4 DEF MatchInv, CodedInv, Keyed
<1>7. GrantedInv'
  <2> SUFFICES ASSUME NEW o \in InFlight, Granted(o) PROVE OfThisKey(o.of.key, o.of.re)'
    BY DEF MatchInv, GrantedInv, Granted, NewSession
  <2>1. o.of.key < requests + 1 /\ o.of.key \in Int
    BY <1>1 DEF MatchInv, NumberInv, AnswerIs
  <2>2. QED
    BY <2>1 DEF OfThisKey
<1>8. StandingInv'
  BY DEF MatchInv, StandingInv, NewSession
<1>9. LastInv'
  <2>1. \A p \in InFlight' : p.of.re # requests'
    BY <1>1
  <2>2. \A c \in Asked' : c.re = requests' => c = d
    BY <1>2
  <2>3. mine' # Nothing /\ d.verb \notin {"code2", "proof2"}
    BY DEF Nothing
  <2>4. QED
    BY <2>1, <2>2, <2>3 DEF LastInv
<1>10. SentInv' /\ ProofInv' /\ ChannelInv'
  BY DEF SentInv, ProofInv, ChannelInv
<1>11. QED
  BY <1>4, <1>5, <1>6, <1>7, <1>8, <1>9, <1>10 DEF MatchInv

\* A key of the Mac's is heard, and agreed on: behind it no older one can come.
Agrees(key) ==
  /\ key \in -1 .. requests
  /\ \A p \in InFlight' : Keyed(p) => key < p.of.re
  /\ \A c \in Asked : key < c.re

LEMMA AwaitKeeps ==
  ASSUME MatchInv, requests \in Nat, UNCHANGED <<requests, mine, stored, channel, handshake, session>>, mixed => mixed',
         Asked' = Asked, InFlight' \subseteq InFlight, Agrees(agreed'),
         v2.sent = "hello2", v2'.sent = "hello2", v2'.awaiting
  PROVE  MatchInv'
<1>1. NumberInv'
  BY Members DEF MatchInv, NumberInv, Agrees
<1>2. KeyInv'
  BY DEF MatchInv, KeyInv, Keyed, Ok, Agrees
<1>3. CodedInv'
  BY DEF MatchInv, CodedInv, Coded, OfThisKey, Keyed
<1>4. GrantedInv'
  BY DEF MatchInv, GrantedInv, OfThisKey, Granted, NewSession
<1>5. StandingInv'
  BY DEF MatchInv, StandingInv, NewSession
<1>6. LastInv' /\ SentInv'
  BY DEF MatchInv, LastInv, SentInv, Answers
<1>7. ProofInv' /\ ChannelInv'
  BY DEF MatchInv, ProofInv, ChannelInv, LastInv
<1>8. QED
  BY <1>1, <1>2, <1>3, <1>4, <1>5, <1>6, <1>7 DEF MatchInv

\* The code or the proof is sent, under the key that was agreed on.
LEMMA BoundKeeps ==
  ASSUME MatchInv, OrderInv, OrderInv', requests \in Nat,
         UNCHANGED <<mine, stored, channel, handshake, session>>, mixed => mixed',
         v2.sent \in {"hello2", "auth2"}, Agrees(agreed'),
         NEW d \in AuthRequest, d.verb \in {"code2", "proof2"}, d.re = requests + 1, d.keys = <<mine, agreed'>>,
         d.verb = "proof2" => d.token = stored /\ stored # Nothing,
         requests' = requests + 1, Asked' = Asked \/ Asked' = Asked \union {d}, InFlight' \subseteq InFlight,
         v2'.sent = d.verb, ~v2'.awaiting,
         d.verb = "proof2" /\ ~mixed' =>
           /\ handshake = Nothing \/ agreed' <= handshake
           /\ \A c \in Coded : c.keys[2] < agreed'
           /\ \A o \in InFlight' : ~Ok(o)
  PROVE  MatchInv'
<1>1. \A p \in InFlight' : p.of.re \in Int /\ p.of.re <= requests
  BY Members DEF OrderInv
<1>2. \A c \in Asked : c.re \in Nat /\ c.re <= requests
  BY Members DEF OrderInv
<1>3. mine # Nothing /\ mine \in 1 .. requests /\ channel = NoSession /\ agreed' \in Int /\ agreed' <= requests
  BY DEF MatchInv, LastInv, NumberInv, Agrees, Nothing
<1>4. NumberInv'
  <2>1. \A c \in Asked' : handshake < c.re /\ agreed' < c.re /\ stored < c.re
    BY <1>2, <1>3 DEF MatchInv, NumberInv, Agrees
  <2>2. QED
    BY <1>3, <2>1 DEF MatchInv, NumberInv, Agrees
<1>5. KeyInv'
  BY DEF MatchInv, KeyInv, Keyed, Ok, Agrees
<1>6. CodedInv'
  <2> SUFFICES ASSUME NEW c \in Coded'
               PROVE  /\ c.keys \in Int \X Int /\ c.keys[1] < c.re
                      /\ \A e \in Asked' : c.keys[2] < e.re
                      /\ \A p \in InFlight' : Keyed(p) => c.keys[2] < p.of.re
                      /\ OfThisKey(c.keys[1], c.re)'
    BY DEF CodedInv, Keyed
  <2>1. CASE c = d
    <3>1. d.keys[1] = mine /\ d.keys[2] = agreed' /\ d.keys \in Int \X Int
      BY <1>3
    <3>2. \A e \in Asked' : agreed' < e.re
      <4>1. agreed' < d.re
        BY <1>3
      <4>2. QED
        BY <4>1 DEF Agrees
    <3>3. \A p \in InFlight' : Keyed(p) => agreed' < p.of.re
      BY DEF Agrees
    <3>4. OfThisKey(mine, d.re)'
      BY <1>3 DEF OfThisKey
    <3>5. mine < d.re
      BY <1>3
    <3>6. QED
      BY <2>1, <3>1, <3>2, <3>3, <3>4, <3>5
  <2>2. CASE c # d
    <3>1. c \in Coded /\ c.re \in Nat /\ c.re <= requests
      BY <1>2, <2>2 DEF Coded
    <3>2. PICK x \in Int, y \in Int : x = c.keys[1] /\ y = c.keys[2] /\ x < c.re /\ y < c.re
      BY <3>1 DEF MatchInv, CodedInv, Coded
    <3>3. OfThisKey(c.keys[1], c.re)'
      BY <1>3, <3>1 DEF MatchInv, CodedInv, OfThisKey
    <3>4. \A e \in Asked' : c.keys[2] < e.re
      BY <3>1, <3>2 DEF MatchInv, CodedInv
    <3>5. QED
      BY <3>1, <3>3, <3>4 DEF MatchInv, CodedInv, Keyed
  <2>3. QED
    BY <2>1, <2>2
<1>7. GrantedInv'
  <2> SUFFICES ASSUME NEW o \in InFlight', Granted(o) PROVE OfThisKey(o.of.key, o.of.re)'
    BY DEF MatchInv, GrantedInv, Granted, NewSession
  <2>1. OfThisKey(o.of.key, o.of.re)
    BY DEF MatchInv, GrantedInv
  <2>2. QED
    BY <1>3, <2>1 DEF OfThisKey
<1>8. StandingInv'
  <2>1. session # NoSession => session.key[1] \in 1 .. requests + 1
    BY DEF MatchInv, StandingInv
  <2>2. QED
    BY <2>1 DEF MatchInv, StandingInv, NewSession
<1>9. LastInv'
  <2>1. \A p \in InFlight' : p.of.re # requests'
    BY <1>1
  <2>2. \A c \in Asked' : c.re = requests' => c = d
    BY <1>2
  <2>3. QED
    BY <1>3, <2>1, <2>2 DEF LastInv
<1>10. SentInv' /\ ChannelInv'
  BY <1>3 DEF MatchInv, SentInv, ChannelInv
<1>11. ProofInv'
  <2> SUFFICES ASSUME ~mixed', d.verb = "proof2"
               PROVE  /\ handshake = Nothing \/ agreed' <= handshake
                      /\ \A c \in Coded' : c.re # requests' => c.keys[2] < agreed'
                      /\ \A o \in InFlight' : ~Ok(o)
    BY DEF ProofInv, Ok
  <2>1. \A c \in Coded' : c.re # requests' => c \in Coded
    BY DEF Coded
  <2>2. QED
    BY <2>1
<1>12. QED
  BY <1>4, <1>5, <1>6, <1>7, <1>8, <1>9, <1>10, <1>11 DEF MatchInv

\* The device stops.
LEMMA StopKeeps ==
  ASSUME MatchInv, requests \in Nat, UNCHANGED <<requests, mine, agreed, channel, handshake, session>>, mixed => mixed',
         Asked' = Asked, InFlight' \subseteq InFlight, v2.sent # "none",
         v2'.sent = "none", ~v2'.awaiting, stored' \in {stored, Nothing}
  PROVE  MatchInv'
<1>1. NumberInv'
  BY Members DEF MatchInv, NumberInv, Nothing
<1>2. KeyInv'
  BY DEF MatchInv, KeyInv, Keyed, Ok
<1>3. CodedInv'
  BY DEF MatchInv, CodedInv, Coded, OfThisKey, Keyed
<1>4. GrantedInv'
  <2>1. \A o \in InFlight : Granted(o) => Nothing < o.of.token
    BY Members DEF MatchInv, NumberInv, AnswerIs, Nothing
  <2>2. QED
    BY <2>1 DEF MatchInv, GrantedInv, OfThisKey, Granted, NewSession
<1>5. StandingInv'
  BY DEF MatchInv, StandingInv, NewSession
<1>6. LastInv' /\ SentInv' /\ ProofInv' /\ ChannelInv'
  BY DEF MatchInv, LastInv, SentInv, ProofInv, ChannelInv
<1>7. QED
  BY <1>1, <1>2, <1>3, <1>4, <1>5, <1>6 DEF MatchInv

\* The device has a session.
LEMMA OpenKeeps ==
  ASSUME MatchInv, requests \in Nat, UNCHANGED <<requests, mine, agreed, handshake, session>>, mixed => mixed',
         Asked' = Asked, InFlight' \subseteq InFlight, v2.sent # "none", v2'.sent = "none", ~v2'.awaiting,
         stored' \in 0 .. requests, \A c \in Asked : stored' < c.re,
         \A o \in InFlight' : Granted(o) => stored' < o.of.token,
         ~mixed' => Asked = {} /\ session \in {NoSession, channel'}
  PROVE  MatchInv'
<1>1. NumberInv'
  BY Members DEF MatchInv, NumberInv
<1>2. KeyInv'
  BY DEF MatchInv, KeyInv, Keyed, Ok
<1>3. CodedInv'
  BY DEF MatchInv, CodedInv, Coded, OfThisKey, Keyed
<1>4. GrantedInv'
  BY DEF MatchInv, GrantedInv, OfThisKey, Granted, NewSession
<1>5. StandingInv'
  BY DEF MatchInv, StandingInv, NewSession
<1>6. LastInv' /\ SentInv' /\ ProofInv' /\ ChannelInv'
  BY DEF MatchInv, LastInv, SentInv, ProofInv, ChannelInv
<1>7. QED
  BY <1>1, <1>2, <1>3, <1>4, <1>5, <1>6 DEF MatchInv

\* The Mac answers the first request, which is then gone, and nothing else is new.
FirstAnswered(d, reply) ==
  /\ d \in Asked /\ Asked = {d} \union Asked' /\ d \notin Asked'
  /\ \A c \in Asked' : d.re < c.re
  /\ \A p \in InFlight' : p \in InFlight \/ p.of = reply
  /\ reply.re = d.re
  /\ UNCHANGED <<requests, v2, mine, agreed, stored, channel, mixed>>

LEMMA RejectKeeps ==
  ASSUME MatchInv, OrderInv, requests \in Nat, NEW d, NEW reply, FirstAnswered(d, reply), reply.token = Nothing,
         \/ reply.kind = "rejected" /\ d.verb # "auth2"
         \/ reply.kind = "denied" /\ d.verb = "code2",
         handshake' \in {handshake, Nothing}, session' = session
  PROVE  MatchInv'
<1> USE DEF FirstAnswered
<1>1. d.re \in Nat \ {0} /\ d.re <= requests
  BY Members DEF OrderInv
<1>2. ASSUME NEW p \in InFlight', p \notin InFlight
      PROVE  p.of = reply /\ p.of.re = d.re /\ ~Keyed(p) /\ ~Granted(p) /\ ~Ok(p) /\ AnswerIs(p)
  BY <1>1, <1>2 DEF Keyed, Granted, Ok, AnswerIs
<1>3. NumberInv'
  BY <1>2, Members DEF MatchInv, NumberInv, Nothing
<1>4. KeyInv'
  BY <1>2 DEF MatchInv, KeyInv, Keyed, Ok
<1>5. CodedInv'
  BY <1>2 DEF MatchInv, CodedInv, Coded, OfThisKey, Keyed
<1>6. GrantedInv'
  BY <1>2 DEF MatchInv, GrantedInv, OfThisKey, Granted, NewSession
<1>7. StandingInv'
  BY DEF MatchInv, StandingInv, NewSession
<1>8. LastInv'
  <2>1. ASSUME v2.sent # "none", NEW p \in InFlight', p \notin InFlight, p.of.re = requests
        PROVE  p.of.kind \in Answers(v2.sent)
    <3>1. d.verb = v2.sent /\ p.of.kind = reply.kind
      BY <1>2, <2>1 DEF MatchInv, LastInv
    <3>2. d.verb \in {"hello2", "code2", "auth2", "proof2"}
      BY Members DEF Verb
    <3>3. QED
      BY <3>1, <3>2 DEF Answers
  <2>2. QED
    BY <2>1 DEF MatchInv, LastInv, Answers
<1>9. SentInv' /\ ChannelInv'
  BY DEF MatchInv, SentInv, ChannelInv
<1>10. ProofInv'
  BY <1>2 DEF MatchInv, ProofInv, Coded, Ok
<1>11. QED
  BY <1>3, <1>4, <1>5, <1>6, <1>7, <1>8, <1>9, <1>10 DEF MatchInv

LEMMA ChallengeKeeps ==
  ASSUME MatchInv, OrderInv, requests \in Nat, NEW d, NEW reply, FirstAnswered(d, reply), reply.token = Nothing,
         \/ reply.kind = "await" /\ d.verb = "hello2"
         \/ reply.kind = "nonce" /\ d.verb = "auth2",
         reply.key = d.re, handshake' = d.re, session' = session
  PROVE  MatchInv'
<1> USE DEF FirstAnswered
<1>1. d.re \in Nat \ {0} /\ d.re <= requests /\ \A p \in InFlight : p.of.re \in Int /\ p.of.re < d.re
  BY Members DEF OrderInv
<1>2. ASSUME NEW p \in InFlight', p \notin InFlight
      PROVE  p.of = reply /\ p.of.re = d.re /\ ~Granted(p) /\ ~Ok(p) /\ AnswerIs(p)
  BY <1>1, <1>2 DEF Keyed, Granted, Ok, AnswerIs
<1>3. NumberInv'
  BY <1>1, <1>2, Members DEF MatchInv, NumberInv, Nothing
<1>4. KeyInv'
  <2>1. ASSUME NEW p \in InFlight', Keyed(p) PROVE agreed < p.of.re /\ p.of.re <= d.re
    BY <1>1, <1>2, <2>1 DEF MatchInv, KeyInv, NumberInv
  <2>2. ASSUME NEW o \in InFlight', NEW p \in InFlight', Ok(o), Keyed(p) PROVE o.of.re < p.of.re
    BY <1>1, <1>2, <2>2 DEF MatchInv, KeyInv
  <2>3. QED
    BY <2>1, <2>2 DEF KeyInv, Keyed, Ok
<1>5. CodedInv'
  <2>1. ASSUME NEW c \in Coded' PROVE c \in Coded /\ \A p \in InFlight' : Keyed(p) => c.keys[2] < p.of.re
    BY <1>2 DEF MatchInv, CodedInv, Coded
  <2>2. QED
    BY <2>1 DEF MatchInv, CodedInv, OfThisKey, Keyed
<1>6. GrantedInv'
  <2>1. ASSUME NEW o \in InFlight', Granted(o) PROVE o \in InFlight /\ o.of.key < d.re
    BY <1>1, <1>2, <2>1 DEF MatchInv, NumberInv, AnswerIs
  <2>2. QED
    BY <2>1 DEF MatchInv, GrantedInv, OfThisKey, Granted, NewSession
<1>7. StandingInv'
  BY DEF MatchInv, StandingInv, NewSession
<1>8. LastInv'
  <2>1. ASSUME v2.sent # "none", NEW p \in InFlight', p \notin InFlight, p.of.re = requests
        PROVE  p.of.kind \in Answers(v2.sent)
    <3>1. d.verb = v2.sent /\ p.of.kind = reply.kind
      BY <1>2, <2>1 DEF MatchInv, LastInv
    <3>2. QED
      BY <3>1 DEF Answers
  <2>2. QED
    BY <2>1 DEF MatchInv, LastInv, Answers
<1>9. SentInv' /\ ChannelInv'
  BY DEF MatchInv, SentInv, ChannelInv
<1>10. ProofInv'
  <2>1. agreed < d.re /\ agreed \in Int
    BY DEF MatchInv, NumberInv
  <2>2. agreed <= d.re
    BY <1>1, <2>1
  <2>3. QED
    BY <1>2, <2>2 DEF MatchInv, ProofInv, Coded, Ok
<1>11. QED
  BY <1>3, <1>4, <1>5, <1>6, <1>7, <1>8, <1>9, <1>10 DEF MatchInv

\* A code or a proof is right: it bears the last key that the Mac sent, so the device
\* has heard them all.
LEMMA RightIsLast ==
  ASSUME MatchInv, OrderInv, NEW d \in Coded, d.keys = <<handshake, handshake>>, handshake # Nothing
  PROVE  /\ \A p \in InFlight : ~Keyed(p)
         /\ handshake \in 1 .. requests /\ handshake < d.re /\ OfThisKey(handshake, d.re)
         /\ \A o \in InFlight : Granted(o) => o.of.key < handshake
         /\ ~mixed /\ v2.sent = "proof2" =>
              d.re = requests /\ d.verb = "proof2" /\ d.token = stored /\ d.keys = <<mine, agreed>>
         /\ ~mixed => channel = NoSession
<1>1. /\ d \in Asked /\ d.keys[1] = handshake /\ d.keys[2] = handshake
      /\ \A p \in InFlight : Keyed(p) => d.keys[2] < p.of.re
      /\ d.keys[1] < d.re /\ OfThisKey(d.keys[1], d.re)
  BY DEF MatchInv, CodedInv, Coded
<1>2. handshake \in 1 .. requests
  BY DEF MatchInv, NumberInv, Nothing
<1>3. ASSUME NEW p \in InFlight, Keyed(p) PROVE FALSE
  <2>1. p.of.re \in Int /\ p.of.re <= handshake /\ handshake < p.of.re
    BY <1>1, <1>3, Members DEF MatchInv, KeyInv
  <2>2. QED
    BY <1>2, <2>1
<1>4. ASSUME ~mixed, v2.sent = "proof2"
      PROVE  d.re = requests /\ d.verb = "proof2" /\ d.token = stored /\ d.keys = <<mine, agreed>>
  <2>1. agreed \in Int /\ agreed <= handshake
    BY <1>4 DEF MatchInv, ProofInv, NumberInv
  <2>2. d.re # requests => handshake < agreed
    BY <1>1, <1>4 DEF MatchInv, ProofInv
  <2>3. d.re = requests
    BY <1>2, <2>1, <2>2
  <2>4. QED
    BY <1>1, <1>4, <2>3 DEF MatchInv, LastInv, Coded
<1>5. QED
  BY <1>1, <1>2, <1>3, <1>4 DEF MatchInv, GrantedInv, ChannelInv

LEMMA AcceptKeeps ==
  ASSUME MatchInv, OrderInv, requests \in Nat, NEW d, NEW reply, FirstAnswered(d, reply),
         d.keys = <<handshake, handshake>>, handshake # Nothing, handshake' = Nothing,
         \/ /\ d.verb = "code2" /\ reply.kind = "granted" /\ reply.token = d.re /\ reply.key = handshake
            /\ session' = NewSession(d.re, handshake)
         \/ /\ d.verb = "proof2" /\ reply.kind = "authorized" /\ reply.token = Nothing
            /\ session' = NewSession(d.token, handshake)
  PROVE  MatchInv'
<1> USE DEF FirstAnswered
<1>1. d.re \in Nat \ {0} /\ d.re <= requests /\ \A p \in InFlight : p.of.re \in Int /\ p.of.re < d.re
  BY Members DEF OrderInv
<1>2. d \in Coded
  BY DEF Coded
<1>3. /\ \A p \in InFlight : ~Keyed(p)
      /\ handshake \in 1 .. requests /\ handshake < d.re /\ OfThisKey(handshake, d.re)
      /\ \A o \in InFlight : Granted(o) => o.of.key < handshake
      /\ ~mixed /\ v2.sent = "proof2" =>
              d.re = requests /\ d.verb = "proof2" /\ d.token = stored /\ d.keys = <<mine, agreed>>
      /\ ~mixed => channel = NoSession
  BY <1>2, RightIsLast
<1>4. ASSUME NEW p \in InFlight', p \notin InFlight
      PROVE  /\ p.of = reply /\ p.of.re = d.re /\ ~Keyed(p) /\ AnswerIs(p)
             /\ Granted(p) => p.of.token = d.re /\ p.of.key = handshake /\ session' = NewSession(p.of.token, p.of.key)
  <2>1. handshake \in 1 .. d.re - 1
    BY <1>1, <1>3
  <2>2. QED
    BY <1>1, <1>4, <2>1 DEF Keyed, Granted, AnswerIs
<1>5. session'.key[1] = handshake /\ session' = NewSession(session'.token, session'.key[1])
  BY DEF NewSession
<1>6. NumberInv'
  BY <1>1, <1>4, Members DEF MatchInv, NumberInv, Nothing
<1>7. KeyInv'
  BY <1>3, <1>4 DEF KeyInv, Keyed, Ok
<1>8. CodedInv'
  BY <1>3, <1>4 DEF MatchInv, CodedInv, Coded, OfThisKey, Keyed
<1>9. GrantedInv'
  <2> SUFFICES ASSUME NEW o \in InFlight', Granted(o)
               PROVE  /\ stored < o.of.token /\ OfThisKey(o.of.key, o.of.re)
                      /\ o.of.key < session'.key[1] \/ session' = NewSession(o.of.token, o.of.key)
    BY DEF GrantedInv, Granted, OfThisKey, NewSession
  <2>1. CASE o \in InFlight
    BY <1>3, <1>5, <2>1 DEF MatchInv, GrantedInv
  <2>2. CASE o \notin InFlight
    BY <1>3, <1>4, <2>2 DEF MatchInv, NumberInv
  <2>3. QED
    BY <2>1, <2>2
<1>10. StandingInv'
  BY <1>3, <1>5 DEF StandingInv, OfThisKey
<1>11. LastInv'
  <2>1. ASSUME v2.sent # "none", NEW p \in InFlight', p \notin InFlight, p.of.re = requests
        PROVE  p.of.kind \in Answers(v2.sent)
    <3>1. d.verb = v2.sent /\ p.of.kind = reply.kind
      BY <1>4, <2>1 DEF MatchInv, LastInv
    <3>2. QED
      BY <3>1 DEF Answers
  <2>2. QED
    BY <2>1 DEF MatchInv, LastInv, Answers
<1>12. SentInv' /\ ChannelInv'
  BY <1>3 DEF MatchInv, SentInv, ChannelInv
<1>13. ProofInv'
  <2> SUFFICES ASSUME ~mixed, v2.sent = "proof2" PROVE ProofInv'
    BY DEF ProofInv
  <2>1. d.re = requests /\ d.verb = "proof2" /\ d.token = stored /\ d.keys = <<mine, agreed>>
    BY <1>3
  <2>2. session' = [token |-> stored, key |-> <<mine, agreed>>]
    BY <2>1 DEF NewSession
  <2>3. \A o \in InFlight' : Ok(o) => o.of.re = requests
    <3>1. \A o \in InFlight : Ok(o) => FALSE
      BY <1>1, <2>1 DEF MatchInv, ProofInv
    <3>2. QED
      BY <1>4, <2>1, <3>1
  <2>4. \A c \in Coded' : c.re # requests => c.keys[2] < agreed
    BY DEF MatchInv, ProofInv, Coded
  <2>5. QED
    BY <2>2, <2>3, <2>4 DEF ProofInv, Ok
<1>14. QED
  BY <1>6, <1>7, <1>8, <1>9, <1>10, <1>11, <1>12, <1>13 DEF MatchInv

\* Steps that neither answer nor ask anything.
LEMMA QuietMatch ==
  ASSUME AuthTypes, OrderInv, MatchInv,
         \/ TakeHere \/ TakeGone \/ OpenWindow \/ CloseWindow \/ Sweep \/ UnpairAll
         \/ SwitchOff \/ SwitchOn \/ FinishOff \/ FinishOn
         \/ Discover \/ TimerPasses \/ Stream
  PROVE  OrderInv' /\ MatchInv'
<1>1. UNCHANGED <<down, requests, v2, mine, agreed, stored, channel, mixed>>
  BY DEF TakeHere, TakeGone, OpenWindow, CloseWindow, Sweep, UnpairAll, SwitchOff, SwitchOn, FinishOff, FinishOn,
         Discover, TimerPasses, Stream, Opened, Break, linkVars, deviceVars, boundVars, ghostVars
<1>2. posts' \in {posts, Append(posts, Stop), Append(posts, Publish)}
  BY DEF TakeHere, TakeGone, OpenWindow, CloseWindow, Sweep, UnpairAll, SwitchOff, SwitchOn, FinishOff, FinishOn,
         Discover, TimerPasses, Stream, linkVars
<1>3. handshake' \in {handshake, Nothing} /\ session' \in {session, NoSession}
  BY DEF TakeHere, TakeGone, OpenWindow, CloseWindow, Sweep, UnpairAll, SwitchOff, SwitchOn, FinishOff, FinishOn,
         Discover, TimerPasses, Stream, Ended, macVars
<1>4. events' = events \/ (events # <<>> /\ Head(events) \notin AuthRequest /\ events' = Tail(events))
  <2>1. \/ events' = events
        \/ events # <<>> /\ Head(events).verb \in {"here", "gone"} /\ events' = Tail(events)
    BY DEF TakeHere, TakeGone, OpenWindow, CloseWindow, Sweep, UnpairAll, SwitchOff, SwitchOn, FinishOff, FinishOn,
           Discover, TimerPasses, Stream, Requested, linkVars
  <2>2. \A e \in AuthRequest : e.verb \notin {"here", "gone"}
    BY EventsDiffer DEF Verb
  <2>3. QED
    BY <2>1, <2>2
<1>5. OrderInv' /\ Asked' = Asked /\ InFlight' = InFlight
  BY <1>1, <1>2, <1>4, NoneAnswered
<1>6. requests \in Nat
  BY DEF AuthTypes
<1>7. MatchInv'
  BY <1>1, <1>3, <1>5, <1>6, LessKeeps
<1>8. QED
  BY <1>5, <1>7

LEMMA MainMatch ==
  ASSUME AuthTypes, OrderInv, MatchInv, Notify \/ Republish
  PROVE  OrderInv' /\ MatchInv'
<1>1. OrderInv' /\ Asked' = Asked /\ InFlight' \subseteq InFlight
  BY MainThread
<1>2. UNCHANGED <<requests, v2, mine, agreed, stored, channel, mixed, handshake, session>>
  BY DEF Notify, Republish, macVars, deviceVars, boundVars, ghostVars
<1>3. requests \in Nat
  BY DEF AuthTypes
<1>4. MatchInv'
  BY <1>1, <1>2, <1>3, LessKeeps
<1>5. QED
  BY <1>1, <1>4

LEMMA EmptyQueue ==
  /\ Elements(<<>>) = {} /\ AskedOf(<<>>) = {} /\ PacketsOf(<<>>) = {}
  /\ AskedInOrder(<<>>) /\ SentInOrder(<<>>)
<1>1. Len(<<>>) = 0 /\ 1 .. 0 = {}
  BY EmptySeq
<1>2. QED
  BY <1>1 DEF Elements, AskedOf, PacketsOf, AskedInOrder, SentInOrder

LEMMA RescanMatch ==
  ASSUME AuthTypes, OrderInv, MatchInv, LoseLink \/ GiveUp
  PROVE  OrderInv' /\ MatchInv'
<1>1. /\ UNCHANGED <<posts, requests, stored, mixed, handshake, session>>
      /\ v2' = [NewV2 EXCEPT !.pending = v2.pending]
      /\ mine' = Nothing /\ agreed' = Nothing /\ channel' = NoSession /\ down' = <<>>
      /\ events' = events \/ events' = Append(events, Gone)
  BY DEF LoseLink, GiveUp, Rescan, Break, boundVars, macVars
<1>2. v2'.sent = "none" /\ ~v2'.awaiting
  BY <1>1 DEF NewV2
<1>3. AskedInOrder(events') /\ Asked' = Asked
  <2>1. Gone \in Event /\ Gone \notin AuthRequest /\ events \in Seq(Event) /\ AskedInOrder(events)
    BY EventsDiffer DEF Event, AuthTypes, OrderInv
  <2>2. /\ AskedInOrder(Append(events, Gone))
        /\ AskedOf(Append(events, Gone)) = AskedOf(events) \union ({Gone} \cap AuthRequest)
    BY <2>1, AskedAppend
  <2>3. QED
    BY <1>1, <2>1, <2>2 DEF Asked
<1>4. AnswersInOrder' /\ InFlight' \subseteq InFlight
  BY <1>1, EmptyQueue DEF OrderInv, AnswersInOrder, InFlight
<1>5. OrderInv'
  BY <1>1, <1>3, <1>4, FewerAnswers
<1>6. requests \in Nat
  BY DEF AuthTypes
<1>7. MatchInv'
  BY <1>1, <1>2, <1>3, <1>4, <1>6, ResetKeeps
<1>8. QED
  BY <1>5, <1>7

LEMMA ModifiedMatch ==
  ASSUME AuthTypes, OrderInv, MatchInv, HearModified
  PROVE  OrderInv' /\ MatchInv'
<1>1. /\ UNCHANGED <<events, posts, requests, stored, mixed, handshake, session>>
      /\ v2' = [NewV2 EXCEPT !.pending = v2.pending]
      /\ mine' = Nothing /\ agreed' = Nothing /\ channel' = NoSession
      /\ down # <<>> /\ down' = Tail(down)
  BY DEF HearModified, boundVars, macVars, ghostVars
<1>2. v2'.sent = "none" /\ ~v2'.awaiting
  BY <1>1 DEF NewV2
<1>3. AnswersInOrder' /\ InFlight' \subseteq InFlight
  BY <1>1, HeardFirst
<1>4. AskedInOrder(events') /\ Asked' = Asked
  BY <1>1 DEF Asked, OrderInv
<1>5. OrderInv'
  BY <1>1, <1>3, <1>4, FewerAnswers
<1>6. requests \in Nat
  BY DEF AuthTypes
<1>7. MatchInv'
  BY <1>1, <1>2, <1>3, <1>4, <1>6, ResetKeeps
<1>8. QED
  BY <1>5, <1>7

-------------------------------------------------------------------------------
(* Requests *)

LEMMA RequestSays ==
  ASSUME NEW verb, NEW code, NEW token, NEW keys
  PROVE  LET d == Request(verb, code, token, keys) IN
         d.verb = verb /\ d.re = requests + 1 /\ d.token = token /\ d.keys = keys
  BY DEF Request

LEMMA BeginMatch ==
  ASSUME AuthTypes, OrderInv, MatchInv, NEW code \in Int, Begin(code),
         UNCHANGED <<posts, down, stored, mixed, handshake, session>>
  PROVE  OrderInv' /\ MatchInv'
<1>1. PICK verb \in {"hello2", "auth2"} :
        /\ verb = "auth2" => stored # Nothing
        /\ Send(Request(verb, NoCode, Nothing, <<>>))
        /\ v2' = [sent |-> verb, awaiting |-> FALSE, pending |-> code]
  BY DEF Begin
<1>2. mine' = requests + 1 /\ agreed' = Nothing /\ channel' = NoSession /\ v2'.sent = verb /\ ~v2'.awaiting
  BY <1>1 DEF Begin
<1>3. PICK d \in AuthRequest : d = Request(verb, NoCode, Nothing, <<>>)
  <2>1. <<>> \in Seq(Int) /\ verb \in Verb
    BY DEF Verb
  <2>2. QED
    BY <2>1, RequestTyped, NumbersOfAuth
<1>4. d.verb = verb /\ d.re = requests + 1
  BY <1>3, RequestSays
<1>5. InFlight' = InFlight /\ AnswersInOrder'
  BY DEF InFlight, AnswersInOrder, OrderInv
<1>6. /\ OrderInv' /\ requests' = requests + 1
      /\ Asked' = Asked \/ Asked' = Asked \union {d}
  BY <1>1, <1>3, <1>4, <1>5, SentLast
<1>7. requests \in Nat
  BY DEF AuthTypes
<1>8. MatchInv'
  BY <1>1, <1>2, <1>4, <1>5, <1>6, <1>7, BeginKeeps
<1>9. QED
  BY <1>6, <1>8

LEMMA StartMatch ==
  ASSUME AuthTypes, OrderInv, MatchInv, Start
  PROVE  OrderInv' /\ MatchInv'
<1>1. Begin(v2.pending) /\ UNCHANGED <<posts, down, stored, mixed, handshake, session>>
  BY DEF Start, macVars, ghostVars
<1>2. v2.pending \in Int
  BY DEF AuthTypes
<1>3. QED
  BY <1>1, <1>2, BeginMatch

\* A code or a proof is sent under the key that has been agreed on.
LEMMA BoundMatch ==
  ASSUME AuthTypes, OrderInv, MatchInv, AnswersInOrder', InFlight' \subseteq InFlight,
         UNCHANGED <<mine, stored, channel, handshake, session>>, mixed => mixed',
         v2.sent \in {"hello2", "auth2"}, Agrees(agreed'), NEW verb \in {"code2", "proof2"}, NEW code \in Int,
         NEW token \in Int, Send(Request(verb, code, token, <<mine, agreed'>>)), v2'.sent = verb, ~v2'.awaiting,
         verb = "proof2" => token = stored /\ stored # Nothing,
         verb = "proof2" /\ ~mixed' =>
           /\ handshake = Nothing \/ agreed' <= handshake
           /\ \A c \in Coded : c.keys[2] < agreed'
           /\ \A o \in InFlight' : ~Ok(o)
  PROVE  OrderInv' /\ MatchInv'
<1>1. requests \in Nat /\ mine \in Int /\ agreed' \in Int
  BY DEF AuthTypes, Agrees
<1>2. PICK d \in AuthRequest : d = Request(verb, code, token, <<mine, agreed'>>)
  <2>1. <<mine, agreed'>> \in Seq(Int) /\ verb \in Verb
    BY <1>1 DEF Verb
  <2>2. QED
    BY <2>1, RequestTyped
<1>3. d.verb = verb /\ d.re = requests + 1 /\ d.token = token /\ d.keys = <<mine, agreed'>>
  BY <1>2, RequestSays
<1>4. /\ OrderInv' /\ requests' = requests + 1
      /\ Asked' = Asked \/ Asked' = Asked \union {d}
  BY <1>2, <1>3, SentLast
<1>5. d.verb = "proof2" /\ ~mixed' =>
        /\ handshake = Nothing \/ agreed' <= handshake
        /\ \A c \in Coded : c.keys[2] < agreed'
        /\ \A o \in InFlight' : ~Ok(o)
  BY <1>3
<1>6. MatchInv'
  BY <1>1, <1>3, <1>4, <1>5, BoundKeeps
<1>7. QED
  BY <1>4, <1>6

LEMMA SubmitMatch ==
  ASSUME AuthTypes, OrderInv, MatchInv, Submit
  PROVE  OrderInv' /\ MatchInv'
<1>1. UNCHANGED <<posts, down, stored, mixed, handshake, session>>
  BY DEF Submit, macVars
<1>2. PICK code \in {window.code, WrongCode} :
        IF v2.awaiting THEN SendCode(code, agreed) /\ UNCHANGED <<mine, agreed, channel>>
                       ELSE Begin(code)
  BY DEF Submit
<1>3. code \in Int
  BY <1>2, NumbersOfAuth DEF AuthTypes
<1>4. CASE ~v2.awaiting
  BY <1>1, <1>2, <1>3, <1>4, BeginMatch
<1>5. CASE v2.awaiting
  <2>1. /\ Send(Request("code2", code, Nothing, <<mine, agreed'>>)) /\ UNCHANGED <<mine, agreed, channel>>
        /\ v2' = [sent |-> "code2", awaiting |-> FALSE, pending |-> NoCode]
    BY <1>2, <1>5 DEF SendCode
  <2>2. v2'.sent = "code2" /\ ~v2'.awaiting
    BY <2>1
  <2>3. v2.sent = "hello2"
    BY <1>5 DEF MatchInv, SentInv
  <2>4. Agrees(agreed')
    BY <1>1, <2>1 DEF MatchInv, NumberInv, KeyInv, Agrees, InFlight, Keyed
  <2>5. InFlight' = InFlight /\ AnswersInOrder'
    BY <1>1 DEF InFlight, AnswersInOrder, OrderInv
  <2>6. QED
    BY <1>1, <1>3, <2>1, <2>2, <2>3, <2>4, <2>5, BoundMatch, NumbersOfAuth
<1>6. QED
  BY <1>4, <1>5

\* The Mac answers the first request that waits.
LEMMA AnswerIsFirst ==
  ASSUME AuthTypes, OrderInv, events # <<>>, Head(events) \in AuthRequest, NEW kind \in ReplyKind, NEW key \in Int,
         NEW token \in Int, kind = "granted" => token # Nothing, Answer(Head(events), kind, key, token)
  PROVE  /\ OrderInv' /\ requests \in Nat
         /\ FirstAnswered(Head(events), [kind |-> kind, re |-> Head(events).re, key |-> key, token |-> token])
<1> DEFINE d == Head(events)
<1> DEFINE reply == [kind |-> kind, re |-> d.re, key |-> key, token |-> token]
<1>1. /\ OrderInv'
      /\ d \in Asked /\ Asked = {d} \union Asked' /\ d \notin Asked'
      /\ \A c \in Asked' : d.re < c.re
      /\ \A p \in PacketsOf(posts') \ PacketsOf(posts) : p.of = reply
  BY AnswerOrder
<1>2. UNCHANGED <<down, requests, v2, mine, agreed, stored, channel, mixed>>
  BY DEF Answer, deviceVars, boundVars
<1>3. reply.re = d.re
  OBVIOUS
<1> HIDE DEF reply, d
<1>4. \A p \in InFlight' : p \in InFlight \/ p.of = reply
  BY <1>1, <1>2 DEF InFlight
<1>5. FirstAnswered(d, reply)
  BY <1>1, <1>2, <1>3, <1>4 DEF FirstAnswered
<1>6. QED
  BY <1>1, <1>5 DEF AuthTypes, d, reply

LEMMA HelloMatch ==
  ASSUME AuthTypes, OrderInv, MatchInv, AnswerHello
  PROVE  OrderInv' /\ MatchInv'
<1>1. PICK d \in AuthRequest : d = Head(events) /\ events # <<>> /\ d.verb = "hello2" /\ d.re \in Int
  <2>1. Requested("hello2") /\ "hello2" \in Verb
    BY DEF AnswerHello, Verb
  <2>2. QED
    BY <2>1, RequestIs DEF Requested
<1>2. session' = session
  BY DEF AnswerHello
<1>3. CASE Answer(d, "rejected", Nothing, Nothing) /\ UNCHANGED handshake
  <2>1. PICK reply : reply = [kind |-> "rejected", re |-> d.re, key |-> Nothing, token |-> Nothing]
    OBVIOUS
  <2>2. OrderInv' /\ requests \in Nat /\ FirstAnswered(d, reply)
    BY <1>1, <1>3, <2>1, AnswerIsFirst, NumbersOfAuth DEF ReplyKind
  <2>3. reply.kind = "rejected" /\ reply.token = Nothing /\ d.verb # "auth2"
    BY <1>1, <2>1
  <2>4. QED
    BY <1>2, <1>3, <2>2, <2>3, RejectKeeps
<1>4. CASE Answer(d, "await", d.re, Nothing) /\ handshake' = d.re
  <2>1. PICK reply : reply = [kind |-> "await", re |-> d.re, key |-> d.re, token |-> Nothing]
    OBVIOUS
  <2>2. OrderInv' /\ requests \in Nat /\ FirstAnswered(d, reply)
    BY <1>1, <1>4, <2>1, AnswerIsFirst, NumbersOfAuth DEF ReplyKind
  <2>3. reply.kind = "await" /\ reply.token = Nothing /\ reply.key = d.re
    BY <2>1
  <2>4. QED
    BY <1>1, <1>2, <1>4, <2>2, <2>3, ChallengeKeeps
<1>5. QED
  BY <1>1, <1>3, <1>4 DEF AnswerHello, Reject

LEMMA AuthMatch ==
  ASSUME AuthTypes, OrderInv, MatchInv, AnswerAuth
  PROVE  OrderInv' /\ MatchInv'
<1>1. PICK d \in AuthRequest : d = Head(events) /\ events # <<>> /\ d.verb = "auth2" /\ d.re \in Int
  <2>1. Requested("auth2") /\ "auth2" \in Verb
    BY DEF AnswerAuth, Verb
  <2>2. QED
    BY <2>1, RequestIs DEF Requested
<1>2. session' = session /\ handshake' = d.re /\ Answer(d, "nonce", d.re, Nothing)
  BY <1>1 DEF AnswerAuth
<1>3. PICK reply : reply = [kind |-> "nonce", re |-> d.re, key |-> d.re, token |-> Nothing]
  OBVIOUS
<1>4. OrderInv' /\ requests \in Nat /\ FirstAnswered(d, reply)
  BY <1>1, <1>2, <1>3, AnswerIsFirst, NumbersOfAuth DEF ReplyKind
<1>5. reply.kind = "nonce" /\ reply.token = Nothing /\ reply.key = d.re
  BY <1>3
<1>6. QED
  BY <1>1, <1>2, <1>4, <1>5, ChallengeKeeps

LEMMA CodeMatch ==
  ASSUME AuthTypes, OrderInv, MatchInv, AnswerCode
  PROVE  OrderInv' /\ MatchInv'
<1>1. PICK d \in AuthRequest : /\ d = Head(events) /\ events # <<>> /\ d.verb = "code2"
                               /\ d.re \in Int /\ d.re # Nothing
  <2>1. Requested("code2") /\ "code2" \in Verb
    BY DEF AnswerCode, Verb
  <2>2. Head(events).re \in Nat \ {0}
    BY <2>1, RequestIs
  <2>3. Head(events).re \in Int /\ Head(events).re # Nothing
    BY <2>2 DEF Nothing
  <2>4. QED
    BY <2>1, <2>3, RequestIs DEF Requested
<1>2. handshake' = Nothing /\ handshake \in Int
  BY DEF AnswerCode, AuthTypes
<1>3. ASSUME NEW kind \in {"rejected", "denied"}, Answer(d, kind, Nothing, Nothing), session' = session
      PROVE  OrderInv' /\ MatchInv'
  <2>1. PICK reply : reply = [kind |-> kind, re |-> d.re, key |-> Nothing, token |-> Nothing]
    OBVIOUS
  <2>2. kind \in ReplyKind /\ kind # "granted"
    BY DEF ReplyKind
  <2>3. OrderInv' /\ requests \in Nat /\ FirstAnswered(d, reply)
    BY <1>1, <1>3, <2>1, <2>2, AnswerIsFirst, NumbersOfAuth
  <2>4. reply.kind = kind /\ reply.token = Nothing
    BY <2>1
  <2>5. QED
    BY <1>1, <1>2, <1>3, <2>3, <2>4, RejectKeeps
<1>4. ASSUME d.keys = <<handshake, handshake>>, handshake # Nothing, Answer(d, "granted", handshake, d.re),
             session' = NewSession(d.re, handshake)
      PROVE  OrderInv' /\ MatchInv'
  <2>1. PICK reply : reply = [kind |-> "granted", re |-> d.re, key |-> handshake, token |-> d.re]
    OBVIOUS
  <2>2. OrderInv' /\ requests \in Nat /\ FirstAnswered(d, reply)
    BY <1>1, <1>2, <1>4, <2>1, AnswerIsFirst DEF ReplyKind
  <2>3. reply.kind = "granted" /\ reply.token = d.re /\ reply.key = handshake
    BY <2>1
  <2>4. QED
    BY <1>1, <1>2, <1>4, <2>2, <2>3, AcceptKeeps
<1>5. \/ Answer(d, "rejected", Nothing, Nothing) /\ session' = session
      \/ Answer(d, "denied", Nothing, Nothing) /\ session' = session
      \/ /\ d.keys = <<handshake, handshake>> /\ handshake # Nothing /\ Answer(d, "granted", handshake, d.re)
         /\ session' = NewSession(d.re, handshake)
  BY <1>1 DEF AnswerCode, Reject
<1>6. QED
  BY <1>3, <1>4, <1>5

LEMMA ProofMatch ==
  ASSUME AuthTypes, OrderInv, MatchInv, AnswerProof
  PROVE  OrderInv' /\ MatchInv'
<1>1. PICK d \in AuthRequest : d = Head(events) /\ events # <<>> /\ d.verb = "proof2"
  <2>1. Requested("proof2") /\ "proof2" \in Verb
    BY DEF AnswerProof, Verb
  <2>2. QED
    BY <2>1, RequestIs DEF Requested
<1>2. handshake' \in {handshake, Nothing}
  BY DEF AnswerProof
<1>3. ASSUME Answer(d, "rejected", Nothing, Nothing), session' = session
      PROVE  OrderInv' /\ MatchInv'
  <2>1. PICK reply : reply = [kind |-> "rejected", re |-> d.re, key |-> Nothing, token |-> Nothing]
    OBVIOUS
  <2>2. OrderInv' /\ requests \in Nat /\ FirstAnswered(d, reply)
    BY <1>1, <1>3, <2>1, AnswerIsFirst, NumbersOfAuth DEF ReplyKind
  <2>3. reply.kind = "rejected" /\ reply.token = Nothing
    BY <2>1
  <2>4. QED
    BY <1>1, <1>2, <1>3, <2>2, <2>3, RejectKeeps
<1>4. ASSUME d.keys = <<handshake, handshake>>, handshake # Nothing, handshake' = Nothing,
             Answer(d, "authorized", Nothing, Nothing), session' = NewSession(d.token, handshake)
      PROVE  OrderInv' /\ MatchInv'
  <2>1. PICK reply : reply = [kind |-> "authorized", re |-> d.re, key |-> Nothing, token |-> Nothing]
    OBVIOUS
  <2>2. OrderInv' /\ requests \in Nat /\ FirstAnswered(d, reply)
    BY <1>1, <1>4, <2>1, AnswerIsFirst, NumbersOfAuth DEF ReplyKind
  <2>3. reply.kind = "authorized" /\ reply.token = Nothing
    BY <2>1
  <2>4. QED
    BY <1>1, <1>4, <2>2, <2>3, AcceptKeeps
<1>5. \/ Answer(d, "rejected", Nothing, Nothing) /\ session' = session
      \/ /\ d.keys = <<handshake, handshake>> /\ handshake # Nothing /\ handshake' = Nothing
         /\ Answer(d, "authorized", Nothing, Nothing) /\ session' = NewSession(d.token, handshake)
  BY <1>1 DEF AnswerProof, Reject
<1>6. QED
  BY <1>3, <1>4, <1>5

-------------------------------------------------------------------------------
(* Answers *)

\* What is heard: an answer whose last packet has come, unless it was put together
\* from two; behind it are answers to later requests.
Heard(packet, reply) ==
  /\ packet \in Packet /\ packet \in InFlight /\ packet \in PacketsOf(down)
  /\ AnswersInOrder' /\ InFlight = {packet} \union InFlight' /\ PacketsOf(down') \subseteq PacketsOf(down)
  /\ UNCHANGED <<posts, subscribed, paired, mine, nonce, handshake, session, hurried, swept, misheard>>
  /\ \/ /\ UNCHANGED <<events, v2, agreed, channel, stored, requests, mixed, crossed, thrown>>
        /\ (dropped => dropped') /\ (~dropped' => ~Last(packet))
     \/ /\ v2.sent # "none" /\ Advance(reply)
        /\ \A r \in InFlight' : packet.of.re < r.of.re
        /\ (mixed => mixed') /\ (crossed => crossed') /\ dropped' = dropped
        /\ ~crossed' => ~mixed' /\ reply.re = requests
        /\ reply = packet.of \/ (mixed' /\ (reply.kind = "junk" \/ reply.key = Garbled))

LEMMA HeardIs ==
  ASSUME AuthTypes, OrderInv, Hear
  PROVE  \E packet, reply : Heard(packet, reply)
<1>1. /\ UNCHANGED <<posts, subscribed, paired, mine, nonce, handshake, session, hurried, swept, misheard>>
      /\ down # <<>> /\ Head(down).kind = "packet" /\ down' = Tail(down)
  BY DEF Hear, macVars
<1>2. PICK packet \in Packet : packet = Head(down)
  <2>1. Head(down) \in Down
    BY <1>1, DownQueue DEF AuthTypes
  <2>2. QED
    BY <1>1, <2>1, KindsDiffer DEF Down
<1>3. /\ AnswersInOrder' /\ packet \in InFlight /\ InFlight = {packet} \union InFlight'
      /\ packet \in PacketsOf(down) /\ PacketsOf(down') \subseteq PacketsOf(down)
      /\ \A r \in InFlight' : r \in Packet /\ Rank(packet) < Rank(r)
  BY <1>1, <1>2, HeardFirst
<1>4. PICK reply \in Arrived(packet) :
        \/ /\ UNCHANGED <<events, v2, agreed, channel, stored, requests, mixed, crossed, thrown>>
           /\ dropped' = (dropped \/ reply # NoReply \/ packet.idx = 1)
        \/ /\ reply # NoReply /\ v2.sent # "none" /\ Advance(reply) /\ dropped' = dropped
           /\ mixed' = (mixed \/ reply.key = Garbled \/ reply.kind = "junk")
           /\ crossed' = (crossed \/ mixed' \/ reply.re # requests)
  BY <1>2 DEF Hear
<1>5. ASSUME reply # NoReply
      PROVE  Last(packet) /\ (reply = packet.of \/ reply.kind = "junk" \/ reply.key = Garbled)
  <2>1. CASE packet.count = 1
    BY <2>1 DEF Arrived, Last
  <2>2. CASE packet.count # 1
    <3>1. packet.idx = 1 /\ half # NoReply
      BY <1>5, <2>2 DEF Arrived, Packet
    <3>2. PICK h \in BleReply : h = half
      BY <3>1 DEF AuthTypes
    <3>3. reply = packet.of \/ reply = [h EXCEPT !.kind = "junk"] \/ reply = [h EXCEPT !.key = Garbled]
      BY <1>5, <2>2, <3>1, <3>2 DEF Arrived
    <3>4. [h EXCEPT !.kind = "junk"].kind = "junk" /\ [h EXCEPT !.key = Garbled].key = Garbled
      BY DEF BleReply
    <3>5. QED
      BY <3>1, <3>3, <3>4 DEF Last
  <2>3. QED
    BY <2>1, <2>2
<1>6. Last(packet) => \A r \in InFlight' : packet.of.re < r.of.re
  BY <1>3, RanksOrder
<1>7. ASSUME reply = NoReply, packet.idx # 1 PROVE ~Last(packet)
  <2>1. packet.of \in BleReply /\ NoReply.kind = "none" /\ packet.of.kind \in ReplyKind
    BY PacketIs DEF NoReply
  <2>2. packet.of # NoReply
    BY <2>1 DEF ReplyKind
  <2>3. QED
    BY <1>7, <2>2 DEF Last, Arrived
<1>8. CASE /\ UNCHANGED <<events, v2, agreed, channel, stored, requests, mixed, crossed, thrown>>
           /\ dropped' = (dropped \/ reply # NoReply \/ packet.idx = 1)
  <2>1. (dropped => dropped') /\ (~dropped' => ~Last(packet))
    BY <1>7, <1>8
  <2>2. QED
    BY <1>1, <1>3, <1>8, <2>1 DEF Heard
<1>9. CASE /\ reply # NoReply /\ v2.sent # "none" /\ Advance(reply) /\ dropped' = dropped
           /\ mixed' = (mixed \/ reply.key = Garbled \/ reply.kind = "junk")
           /\ crossed' = (crossed \/ mixed' \/ reply.re # requests)
  <2>1. /\ (mixed => mixed') /\ (crossed => crossed')
        /\ ~crossed' => ~mixed' /\ reply.re = requests
        /\ reply.kind = "junk" \/ reply.key = Garbled => mixed'
    BY <1>9
  <2>2. QED
    BY <1>1, <1>3, <1>5, <1>6, <1>9, <2>1 DEF Heard
<1>10. QED
  BY <1>4, <1>8, <1>9

\* An answer is read in one of six ways, and is a failure only where it is no other.
LEMMA Ways ==
  ASSUME NEW reply, Advance(reply)
  PROVE  LET keyed == reply.kind \in {"await", "nonce"} /\ agreed = Nothing
             granted == /\ reply.kind = "granted" /\ v2.sent = "code2"
                        /\ <<reply.key, reply.key>> = <<mine, agreed>>
             ok == reply.kind \in {"granted", "authorized"} /\ v2.sent = "proof2" /\ stored # Nothing
         IN  \/ reply.kind = "denied" /\ Denied
             \/ keyed /\ v2.sent = "hello2" /\ Bind(reply)
             \/ keyed /\ v2.sent = "auth2" /\ stored # Nothing /\ Sign(reply)
             \/ granted /\ Open(reply.token, NoCode)
             \/ ok /\ Open(stored, v2.pending)
             \/ /\ StopV2 /\ ~granted /\ ~ok
                /\ ~(keyed /\ v2.sent = "hello2") /\ ~(keyed /\ v2.sent = "auth2" /\ stored # Nothing)
  BY DEF Advance

\* What the device does on an answer keeps the two sides together.
LEMMA AdvanceMatch ==
  ASSUME AuthTypes, OrderInv, MatchInv, NEW packet \in InFlight, packet \in Packet, NEW reply,
         InFlight' \subseteq InFlight, AnswersInOrder', UNCHANGED <<mine, handshake, session>>,
         v2.sent # "none", Advance(reply), mixed => mixed',
         \A r \in InFlight' : packet.of.re < r.of.re,
         reply = packet.of \/ (mixed' /\ (reply.kind = "junk" \/ reply.key = Garbled))
  PROVE  OrderInv' /\ MatchInv'
<1>1. requests \in Nat /\ stored \in Int /\ v2.pending \in Int
  BY DEF AuthTypes
<1>2. /\ packet.of.re \in Int /\ packet.of.re <= requests /\ 0 < packet.of.re
      /\ \A c \in Asked : packet.of.re < c.re /\ c.re <= requests
      /\ AnswerIs(packet)
  BY Members DEF OrderInv, MatchInv, NumberInv, AnswerIs
<1>3. mine # Nothing /\ channel = NoSession /\ mine \in 1 .. requests
  BY DEF MatchInv, LastInv, NumberInv, Nothing
<1>4. ASSUME UNCHANGED <<events, requests>> PROVE Asked' = Asked /\ OrderInv'
  <2>1. AskedInOrder(events') /\ Asked' = Asked
    BY <1>4 DEF Asked, OrderInv
  <2>2. QED
    BY <1>4, <2>1, FewerAnswers
<1>5. CASE Denied
  <2>1. v2' = NewV2 /\ UNCHANGED <<events, agreed, stored, channel, requests>>
    BY <1>5 DEF Denied
  <2>2. v2'.sent = "none" /\ ~v2'.awaiting
    BY <2>1 DEF NewV2
  <2>3. QED
    BY <1>1, <1>4, <2>1, <2>2, StopKeeps
<1>6. CASE StopV2
  <2>1. v2' = NewV2 /\ stored' = Nothing /\ UNCHANGED <<events, agreed, channel, requests>>
    BY <1>6 DEF StopV2
  <2>2. v2'.sent = "none" /\ ~v2'.awaiting
    BY <2>1 DEF NewV2
  <2>3. QED
    BY <1>1, <1>4, <2>1, <2>2, StopKeeps
<1>7. ASSUME reply.kind \in {"await", "nonce"}, agreed' = reply.key
      PROVE  /\ Agrees(agreed')
             /\ ~mixed' => Keyed(packet) /\ agreed' = packet.of.re
  <2>1. ASSUME reply = packet.of PROVE Keyed(packet) /\ agreed' = packet.of.re
    BY <1>2, <1>7, <2>1 DEF Keyed, AnswerIs
  <2>2. ASSUME agreed' = packet.of.re PROVE Agrees(agreed')
    BY <1>2, <2>2 DEF Agrees
  <2>3. ASSUME agreed' = Garbled PROVE Agrees(agreed')
    <3>1. -1 < packet.of.re
      BY <1>2
    <3>2. \A p \in InFlight' : -1 < p.of.re
      BY Members DEF MatchInv, NumberInv, AnswerIs
    <3>3. \A c \in Asked : -1 < c.re
      BY Members
    <3>4. QED
      BY <1>1, <2>3, <3>2, <3>3 DEF Agrees, Garbled
  <2>4. reply = packet.of \/ agreed' = Garbled
    BY <1>7
  <2>5. QED
    BY <2>1, <2>2, <2>3, <2>4
<1>8. ASSUME Bind(reply), reply.kind \in {"await", "nonce"}, v2.sent = "hello2" PROVE OrderInv' /\ MatchInv'
  <2>1. agreed' = reply.key /\ UNCHANGED <<stored, channel>>
    BY <1>8 DEF Bind
  <2>2. Agrees(agreed')
    BY <1>7, <1>8, <2>1
  <2>3. CASE v2.pending = NoCode
    <3>1. v2' = [v2 EXCEPT !.awaiting = TRUE] /\ UNCHANGED <<events, requests>>
      BY <1>8, <2>3 DEF Bind
    <3>2. v2'.sent = "hello2" /\ v2'.awaiting
      BY <1>8, <3>1 DEF AuthTypes
    <3>3. QED
      BY <1>1, <1>4, <1>8, <2>1, <2>2, <3>1, <3>2, AwaitKeeps
  <2>4. CASE v2.pending # NoCode
    <3>1. /\ Send(Request("code2", v2.pending, Nothing, <<mine, agreed'>>))
          /\ v2' = [sent |-> "code2", awaiting |-> FALSE, pending |-> NoCode]
      BY <1>8, <2>1, <2>4 DEF Bind, SendCode
    <3>2. v2'.sent = "code2" /\ ~v2'.awaiting
      BY <3>1
    <3>3. QED
      BY <1>1, <1>8, <2>1, <2>2, <3>1, <3>2, BoundMatch, NumbersOfAuth
  <2>5. QED
    BY <2>3, <2>4
<1>9. ASSUME Sign(reply), reply.kind \in {"await", "nonce"}, v2.sent = "auth2", stored # Nothing
      PROVE  OrderInv' /\ MatchInv'
  <2>1. /\ agreed' = reply.key /\ UNCHANGED <<stored, channel>>
        /\ Send(Request("proof2", NoCode, stored, <<mine, agreed'>>))
        /\ v2' = [v2 EXCEPT !.sent = "proof2"]
    BY <1>9 DEF Sign
  <2>2. v2'.sent = "proof2" /\ ~v2'.awaiting
    BY <1>9, <2>1 DEF AuthTypes, MatchInv, SentInv
  <2>3. Agrees(agreed')
    BY <1>7, <1>9, <2>1
  <2>4. ASSUME ~mixed'
        PROVE  /\ handshake = Nothing \/ agreed' <= handshake
               /\ \A c \in Coded : c.keys[2] < agreed'
               /\ \A o \in InFlight' : ~Ok(o)
    <3>1. Keyed(packet) /\ agreed' = packet.of.re
      BY <1>7, <1>9, <2>1, <2>4
    <3>2. ASSUME NEW o \in InFlight', Ok(o) PROVE FALSE
      <4>1. o.of.re < packet.of.re /\ packet.of.re < o.of.re /\ o.of.re \in Int
        BY <3>1, <3>2, Members DEF MatchInv, KeyInv
      <4>2. QED
        BY <1>2, <4>1
    <3>3. QED
      BY <3>1, <3>2 DEF MatchInv, KeyInv, CodedInv
  <2>5. QED
    BY <1>1, <1>9, <2>1, <2>2, <2>3, <2>4, BoundMatch, NumbersOfAuth
<1>10. ASSUME packet.of.re = requests PROVE Asked = {}
  <2>1. \A c \in Asked : FALSE
    BY <1>2, <1>10, Members
  <2>2. QED
    BY <2>1
<1>11. ASSUME Open(reply.token, NoCode), reply.kind = "granted", <<reply.key, reply.key>> = <<mine, agreed>>
       PROVE  OrderInv' /\ MatchInv'
  <2>1. /\ stored' = reply.token /\ channel' = [token |-> reply.token, key |-> <<mine, agreed>>]
        /\ v2' = [NewV2 EXCEPT !.pending = NoCode] /\ UNCHANGED <<events, agreed, requests>>
    BY <1>11 DEF Open
  <2>2. v2'.sent = "none" /\ ~v2'.awaiting
    BY <2>1 DEF NewV2
  <2>3. reply = packet.of /\ reply.key = mine /\ agreed = mine
    BY <1>3, <1>11 DEF Garbled
  <2>4. Granted(packet) /\ stored' = packet.of.re /\ packet.of.token = packet.of.re
    BY <1>2, <1>11, <2>1, <2>3 DEF Granted, AnswerIs
  <2>5. packet.of.re = requests
    BY <1>3, <2>3, <2>4 DEF MatchInv, GrantedInv, OfThisKey
  <2>6. channel' = NewSession(packet.of.token, packet.of.key)
    BY <2>1, <2>3 DEF NewSession
  <2>7. session \in {NoSession, channel'}
    <3>1. session = NoSession \/ mine < session.key[1] \/ session = channel'
      BY <2>3, <2>4, <2>6 DEF MatchInv, GrantedInv
    <3>2. session # NoSession => session.key[1] \in 1 .. requests /\ session.key[1] <= mine
      BY <1>3 DEF MatchInv, StandingInv
    <3>3. QED
      BY <1>3, <3>1, <3>2
  <2>8. /\ stored' \in 0 .. requests /\ \A c \in Asked : stored' < c.re
        /\ \A o \in InFlight' : Granted(o) => stored' < o.of.token
    BY <1>1, <1>2, <2>4, Members DEF MatchInv, NumberInv, AnswerIs
  <2>9. QED
    BY <1>1, <1>4, <1>10, <2>1, <2>2, <2>5, <2>7, <2>8, OpenKeeps
<1>12. ASSUME Open(stored, v2.pending), reply.kind \in {"granted", "authorized"}, v2.sent = "proof2"
       PROVE  OrderInv' /\ MatchInv'
  <2>1. /\ stored' = stored /\ channel' = [token |-> stored, key |-> <<mine, agreed>>]
        /\ v2' = [NewV2 EXCEPT !.pending = v2.pending] /\ UNCHANGED <<events, agreed, requests>>
    BY <1>12 DEF Open
  <2>2. v2'.sent = "none" /\ ~v2'.awaiting
    BY <2>1 DEF NewV2
  <2>3. ASSUME ~mixed' PROVE Asked = {} /\ session \in {NoSession, channel'}
    <3>1. ~mixed /\ Ok(packet)
      BY <1>12, <2>3 DEF Ok
    <3>2. packet.of.re = requests /\ session \in {NoSession, channel'}
      BY <1>12, <2>1, <3>1 DEF MatchInv, ProofInv
    <3>3. QED
      BY <1>10, <3>2
  <2>4. /\ stored' \in 0 .. requests /\ \A c \in Asked : stored' < c.re
        /\ \A o \in InFlight' : Granted(o) => stored' < o.of.token
    BY <2>1 DEF MatchInv, NumberInv, GrantedInv
  <2>5. QED
    BY <1>1, <1>4, <1>12, <2>1, <2>2, <2>3, <2>4, OpenKeeps
<1>13. \/ Denied \/ StopV2
       \/ Bind(reply) /\ reply.kind \in {"await", "nonce"} /\ v2.sent = "hello2"
       \/ Sign(reply) /\ reply.kind \in {"await", "nonce"} /\ v2.sent = "auth2" /\ stored # Nothing
       \/ Open(reply.token, NoCode) /\ reply.kind = "granted" /\ <<reply.key, reply.key>> = <<mine, agreed>>
       \/ Open(stored, v2.pending) /\ reply.kind \in {"granted", "authorized"} /\ v2.sent = "proof2"
  BY Ways
<1>14. QED
  BY <1>5, <1>6, <1>8, <1>9, <1>11, <1>12, <1>13

LEMMA HearMatch ==
  ASSUME AuthTypes, OrderInv, MatchInv, Hear
  PROVE  OrderInv' /\ MatchInv'
<1>1. PICK packet, reply : Heard(packet, reply)
  BY HeardIs
<1>2. InFlight' \subseteq InFlight /\ AnswersInOrder' /\ UNCHANGED <<mine, handshake, session>>
  BY <1>1 DEF Heard
<1>3. CASE UNCHANGED <<events, v2, agreed, channel, stored, requests, mixed>>
  <2>1. AskedInOrder(events') /\ Asked' = Asked /\ requests \in Nat
    BY <1>3 DEF Asked, OrderInv, AuthTypes
  <2>2. OrderInv'
    BY <1>2, <1>3, <2>1, FewerAnswers
  <2>3. MatchInv'
    BY <1>2, <1>3, <2>1, LessKeeps
  <2>4. QED
    BY <2>2, <2>3
<1>4. CASE ~UNCHANGED <<events, v2, agreed, channel, stored, requests, mixed>>
  BY <1>1, <1>2, <1>4, AdvanceMatch DEF Heard
<1>5. QED
  BY <1>3, <1>4

LEMMA MatchStart == BleAuthInit => OrderInv /\ MatchInv
<1> SUFFICES ASSUME BleAuthInit PROVE OrderInv /\ MatchInv
  OBVIOUS
<1>1. Asked = {} /\ InFlight = {} /\ Coded = {}
  BY EmptyQueue DEF BleAuthInit, Asked, InFlight, Coded
<1>2. OrderInv
  BY <1>1, EmptyQueue DEF BleAuthInit, OrderInv, AnswersInOrder
<1>3. v2.sent = "none" /\ ~v2.awaiting
  BY DEF BleAuthInit, NewV2
<1>4. NumberInv
  BY <1>1 DEF BleAuthInit, NumberInv, Nothing
<1>5. KeyInv /\ CodedInv /\ GrantedInv
  BY <1>1 DEF KeyInv, CodedInv, GrantedInv
<1>6. StandingInv /\ LastInv /\ SentInv /\ ProofInv /\ ChannelInv
  BY <1>3 DEF BleAuthInit, StandingInv, LastInv, SentInv, ProofInv, ChannelInv
<1>7. QED
  BY <1>2, <1>4, <1>5, <1>6 DEF MatchInv

LEMMA MatchStep == AuthTypes /\ OrderInv /\ MatchInv /\ [BleAuthNext]_authVars => OrderInv' /\ MatchInv'
<1> SUFFICES ASSUME AuthTypes, OrderInv, MatchInv, [BleAuthNext]_authVars PROVE OrderInv' /\ MatchInv'
  OBVIOUS
<1>1. CASE UNCHANGED authVars
  <2>1. /\ UNCHANGED <<events, posts, down, requests, v2, mine, agreed, stored, channel, mixed, handshake, session>>
    BY <1>1 DEF authVars, macVars, linkVars, switchVars, viewVars, deviceVars, boundVars, ghostVars
  <2>2. Asked' = Asked /\ InFlight' = InFlight /\ AskedInOrder(events') /\ AnswersInOrder' /\ requests \in Nat
    BY <2>1 DEF Asked, InFlight, OrderInv, AnswersInOrder, AuthTypes
  <2>3. OrderInv'
    BY <2>1, <2>2, FewerAnswers
  <2>4. MatchInv'
    BY <2>1, <2>2, LessKeeps
  <2>5. QED
    BY <2>3, <2>4
<1>2. QED
  BY <1>1, QuietMatch, MainMatch, RescanMatch, ModifiedMatch, StartMatch, SubmitMatch, HearMatch,
     HelloMatch, CodeMatch, AuthMatch, ProofMatch DEF BleAuthNext

\* For any number of requests, windows, codes and links lost: when both sides have a
\* session, it is made from one token and from the keys of one exchange
\* (BLEClient.swift:131-132, 265-267; pairing.rs:752-756, 842-846), unless an answer was
\* put together from halves of two.
THEOREM SidesAgree == BleAuthSpec => []SessionsMatch
<1>1. MatchInv => SessionsMatch
  BY DEF MatchInv, ChannelInv, SessionsMatch
<1>2. QED
  BY <1>1, DeviceStart, DeviceStep, MatchStart, MatchStep, PTL DEF BleAuthSpec

-------------------------------------------------------------------------------
(* What the user did to pair is not wasted *)

\* As long as no answer was misread, a code or a proof is under the keys of the exchange
\* just before it.
UncrossedInv ==
  ~crossed =>
    /\ ~mixed
    /\ v2.awaiting => agreed = mine /\ Asked = {} /\ handshake \in {Nothing, requests}
    /\ v2.sent \in {"code2", "proof2"} =>
         mine = requests - 1 /\ agreed = mine /\ \A c \in Asked : c.re = requests
    /\ \A d \in Coded : /\ d.keys = <<d.re - 1, d.re - 1>> /\ handshake \in {Nothing, d.re - 1}
                        /\ \A c \in Asked : d.re <= c.re
    /\ \A o \in InFlight : Granted(o) => o.of.key = o.of.re - 1

\* A code is asked for where there is no token.
TokenInv ==
  ~hurried /\ (v2.pending # NoCode \/ v2.sent \in {"hello2", "code2"}) => stored = Nothing

\* The end of a link is taken before what was asked over the next one.
NoGone(q) == \A i \in 1 .. Len(q) : q[i] # Gone
GoneBefore(q, n) ==
  \A i \in 1 .. Len(q) : q[i] = Gone => \E j \in 1 .. Len(q) : i < j /\ q[j] \in AuthRequest /\ q[j].re = n

GoneInv == subscribed /\ v2.sent # "none" => GoneBefore(events, requests)

\* The Mac keeps what it has drawn until the proof comes, unless it does not know the token.
Fresh(n) == nonce = n /\ (handshake = n \/ stored \notin paired)
Replied == \E p \in InFlight : p.of.re = requests
Coming == PacketsOf(down) \union (IF subscribed THEN PacketsOf(posts) ELSE {})

KeepInv ==
  ~crossed /\ ~hurried /\ ~swept =>
    /\ subscribed /\ v2.sent = "auth2" /\ Replied => Fresh(requests)
    /\ subscribed /\ v2.sent = "proof2" /\ Asked # {} => Fresh(requests - 1) /\ NoGone(events)
    /\ v2.sent = "proof2" =>
         \A p \in Coming : p.of.re = requests /\ p.of.kind = "rejected" => stored \notin paired

\* A token that was granted is on its way, or superseded by one that the device has had.
GrantInv ==
  /\ \A t \in paired : t \in Nat \ {0} /\ (t <= stored => stored \in paired)
  /\ \A t \in paired : \A o \in InFlight : Granted(o) /\ t <= o.of.token => o.of.token \in paired
  /\ ~crossed /\ ~dropped =>
       \A t \in paired : \/ \E u \in thrown \union {stored} : t <= u
                         \/ \E o \in InFlight : Last(o) /\ o.of.token = t

WasteInv ==
  UncrossedInv /\ TokenInv /\ GoneInv /\ KeepInv /\ GrantInv /\ CodeIsHeard /\ TokenIsKept

LEMMA GoneTail ==
  ASSUME NEW q \in Seq(Event), q # <<>>
  PROVE  /\ NoGone(q) => NoGone(Tail(q)) /\ Head(q) # Gone
         /\ \A n : GoneBefore(q, n) => GoneBefore(Tail(q), n)
<1>1. /\ Head(q) = q[1] /\ Len(q) \in Nat \ {0} /\ Len(Tail(q)) = Len(q) - 1
      /\ \A i \in 1 .. Len(Tail(q)) : Tail(q)[i] = q[i + 1] /\ i + 1 \in 1 .. Len(q)
  BY ElementsOfTail
<1>2. NoGone(q) => NoGone(Tail(q)) /\ Head(q) # Gone
  <2>1. 1 \in 1 .. Len(q)
    BY <1>1
  <2>2. QED
    BY <1>1, <2>1 DEF NoGone
<1>3. ASSUME NEW n, GoneBefore(q, n), NEW i \in 1 .. Len(Tail(q)), Tail(q)[i] = Gone
      PROVE  \E j \in 1 .. Len(Tail(q)) : i < j /\ Tail(q)[j] \in AuthRequest /\ Tail(q)[j].re = n
  <2>1. PICK j \in 1 .. Len(q) : i + 1 < j /\ q[j] \in AuthRequest /\ q[j].re = n
    BY <1>1, <1>3 DEF GoneBefore
  <2>2. PICK k : k = j - 1
    OBVIOUS
  <2>3. k \in 1 .. Len(Tail(q)) /\ i < k /\ k + 1 = j
    BY <1>1, <2>1, <2>2
  <2>4. Tail(q)[k] = q[j]
    BY <1>1, <2>3
  <2>5. QED
    BY <2>1, <2>3, <2>4
<1>4. QED
  BY <1>2, <1>3 DEF GoneBefore

LEMMA NoneBefore ==
  ASSUME NEW q, NEW n, GoneBefore(q, n), \A c \in AskedOf(q) : c.re # n
  PROVE  NoGone(q)
<1>1. ASSUME NEW i \in 1 .. Len(q), q[i] = Gone PROVE FALSE
  <2>1. PICK j \in 1 .. Len(q) : q[j] \in AuthRequest /\ q[j].re = n
    BY <1>1 DEF GoneBefore
  <2>2. q[j] \in AskedOf(q)
    BY <2>1 DEF AskedOf, Elements
  <2>3. QED
    BY <2>1, <2>2
<1>2. QED
  BY <1>1 DEF NoGone

LEMMA GoneAppend ==
  ASSUME NEW q \in Seq(Event), NEW e \in Event, e # Gone
  PROVE  /\ NoGone(q) => NoGone(Append(q, e))
         /\ e \in AuthRequest => GoneBefore(Append(q, e), e.re)
<1>1. /\ Len(q) \in Nat /\ Len(Append(q, e)) = Len(q) + 1 /\ Append(q, e)[Len(q) + 1] = e
      /\ \A i \in 1 .. Len(q) : Append(q, e)[i] = q[i]
  BY ElementsOfAppend
<1>2. \A i \in 1 .. Len(Append(q, e)) : i \in 1 .. Len(q) \/ i = Len(q) + 1
  BY <1>1
<1>3. NoGone(q) => NoGone(Append(q, e))
  BY <1>1, <1>2 DEF NoGone
<1>4. ASSUME e \in AuthRequest, NEW i \in 1 .. Len(Append(q, e)), Append(q, e)[i] = Gone
      PROVE  \E j \in 1 .. Len(Append(q, e)) :
               i < j /\ Append(q, e)[j] \in AuthRequest /\ Append(q, e)[j].re = e.re
  <2>1. i < Len(q) + 1 /\ Len(q) + 1 \in 1 .. Len(Append(q, e))
    BY <1>1, <1>2, <1>4
  <2>2. QED
    BY <1>1, <1>4, <2>1
<1>5. QED
  BY <1>3, <1>4 DEF GoneBefore

LEMMA SentBehind ==
  ASSUME AuthTypes, NEW request \in AuthRequest, Send(request), subscribed'
  PROVE  /\ GoneBefore(events', request.re)
         /\ subscribed /\ NoGone(events) => NoGone(events')
<1>1. PICK q : q = IF subscribed THEN events ELSE Append(events, Here)
  OBVIOUS
<1>2. q \in Seq(Event)
  <2>1. Here \in Event
    BY DEF Event
  <2>2. Append(events, Here) \in Seq(Event)
    BY <2>1, AppendProperties DEF AuthTypes
  <2>3. QED
    BY <1>1, <2>2 DEF AuthTypes
<1>3. events' = Append(q, request)
  <2>1. events' = q \o <<request>>
    BY <1>1 DEF Send
  <2>2. q \o <<request>> = Append(q, request)
    BY <1>2
  <2>3. QED
    BY <2>1, <2>2
<1>4. request \in Event /\ request # Gone
  BY EventsDiffer DEF Event
<1>5. QED
  BY <1>1, <1>2, <1>3, <1>4, GoneAppend

\* Steps that neither answer nor ask anything.
LEMMA QuietWaste ==
  ASSUME AuthTypes, OrderInv, WasteInv,
         \/ TakeHere \/ TakeGone \/ OpenWindow \/ CloseWindow \/ Sweep \/ UnpairAll
         \/ SwitchOff \/ SwitchOn \/ FinishOff \/ FinishOn
         \/ Discover \/ TimerPasses \/ Stream
  PROVE  WasteInv'
<1>1. /\ UNCHANGED <<down, subscribed, requests, v2, mine, agreed, stored>>
      /\ UNCHANGED <<crossed, mixed, hurried, dropped, misheard, thrown>> /\ (swept => swept')
  <2>1. UNCHANGED <<down, subscribed, requests, v2, mine, agreed, stored>>
    BY DEF TakeHere, TakeGone, OpenWindow, CloseWindow, Sweep, UnpairAll, SwitchOff, SwitchOn, FinishOff, FinishOn,
           Discover, TimerPasses, Stream, Opened, Break, linkVars, deviceVars, boundVars
  <2>2. UNCHANGED <<crossed, mixed, hurried, dropped, misheard, thrown>>
    BY DEF TakeHere, TakeGone, OpenWindow, CloseWindow, Sweep, UnpairAll, SwitchOff, SwitchOn, FinishOff, FinishOn,
           Discover, TimerPasses, Stream, ghostVars
  <2>3. swept => swept'
    <3>1. swept' = swept \/ swept' = TRUE \/ swept' = (swept \/ subscribed)
      BY DEF TakeHere, TakeGone, OpenWindow, CloseWindow, Sweep, UnpairAll, SwitchOff, SwitchOn, FinishOff, FinishOn,
             Discover, TimerPasses, Stream, ghostVars
    <3>2. QED
      BY <3>1, Zenon
  <2>4. QED
    BY <2>1, <2>2, <2>3
<1>2. posts' \in {posts, Append(posts, Stop), Append(posts, Publish)}
  BY DEF TakeHere, TakeGone, OpenWindow, CloseWindow, Sweep, UnpairAll, SwitchOff, SwitchOn, FinishOff, FinishOn,
         Discover, TimerPasses, Stream, linkVars
<1>3. \/ UNCHANGED <<events, nonce, handshake, paired>>
      \/ UNCHANGED <<events, nonce>> /\ paired' = {} /\ handshake' = Nothing
      \/ UNCHANGED <<events, paired>> /\ handshake' \in {handshake, Nothing} /\ (swept' \/ ~subscribed)
      \/ /\ events # <<>> /\ Head(events) \in {Here, Gone} /\ events' = Tail(events) /\ paired' = paired
         /\ Head(events) = Here => UNCHANGED <<nonce, handshake>>
         /\ handshake' \in {handshake, Nothing}
  <2>1. CASE TakeHere \/ TakeGone
    <3>1. events # <<>> /\ Head(events).verb \in {"here", "gone"} /\ Head(events) \in Event /\ events' = Tail(events)
      BY <2>1 DEF TakeHere, TakeGone, Requested, AuthTypes
    <3>2. Head(events) \in {Here, Gone}
      BY <3>1, EventsDiffer DEF Event, Verb
    <3>3. paired' = paired /\ handshake' \in {handshake, Nothing}
      BY <2>1 DEF TakeHere, TakeGone, Ended, macVars
    <3>4. Head(events) = Here => UNCHANGED <<nonce, handshake>>
      BY <2>1 DEF TakeHere, TakeGone, Requested, Here, macVars
    <3>5. QED
      BY <3>1, <3>2, <3>3, <3>4
  <2>2. CASE OpenWindow \/ CloseWindow \/ SwitchOff \/ SwitchOn \/ FinishOn \/ Discover \/ TimerPasses \/ Stream
    BY <2>2 DEF OpenWindow, CloseWindow, SwitchOff, SwitchOn, FinishOn, Discover, TimerPasses, Stream,
                linkVars, macVars
  <2>3. CASE Sweep \/ FinishOff
    BY <2>3 DEF Sweep, FinishOff, Ended, linkVars
  <2>4. CASE UnpairAll
    BY <2>4 DEF UnpairAll, linkVars
  <2>5. QED
    BY <2>1, <2>2, <2>3, <2>4
<1>4. events' = events \/ (events # <<>> /\ Head(events) \notin AuthRequest /\ events' = Tail(events))
  BY <1>3, EventsDiffer
<1>5. /\ Asked' = Asked /\ InFlight' = InFlight
      /\ PacketsOf(posts') = PacketsOf(posts) /\ PacketsOf(down') = PacketsOf(down)
  BY <1>1, <1>2, <1>4, NoneAnswered
<1>6. handshake' \in {handshake, Nothing} /\ (paired' = paired \/ paired' = {})
  BY <1>3
<1>7. UncrossedInv'
  BY <1>1, <1>5, <1>6 DEF WasteInv, UncrossedInv, Coded
<1>8. TokenInv' /\ CodeIsHeard' /\ TokenIsKept'
  BY <1>1 DEF WasteInv, TokenInv, CodeIsHeard, TokenIsKept
<1>9. GoneInv'
  <2>1. GoneBefore(events, requests) => GoneBefore(events', requests)
    BY <1>4, GoneTail DEF AuthTypes
  <2>2. QED
    BY <1>1, <2>1 DEF WasteInv, GoneInv
<1>10. GrantInv'
  BY <1>1, <1>5, <1>6 DEF WasteInv, GrantInv
<1>11. KeepInv'
  <2> SUFFICES ASSUME ~crossed, ~hurried, ~swept, ~swept' PROVE KeepInv'
    BY <1>1 DEF KeepInv
  <2>1. /\ subscribed /\ v2.sent = "auth2" /\ Replied => Fresh(requests)
        /\ subscribed /\ v2.sent = "proof2" /\ Asked # {} => Fresh(requests - 1) /\ NoGone(events)
        /\ v2.sent = "proof2" =>
             \A p \in Coming : p.of.re = requests /\ p.of.kind = "rejected" => stored \notin paired
    BY DEF WasteInv, KeepInv
  <2>2. subscribed /\ v2.sent = "auth2" /\ Replied => NoGone(events)
    <3> SUFFICES ASSUME subscribed, v2.sent = "auth2", NEW p \in InFlight, p.of.re = requests
                 PROVE  NoGone(events)
      BY DEF Replied
    <3>1. \A c \in AskedOf(events) : c.re # requests
      <4>1. requests \in Nat
        BY DEF AuthTypes
      <4>2. QED
        BY <4>1 DEF OrderInv, Asked
    <3>2. QED
      BY <3>1, NoneBefore DEF WasteInv, GoneInv
  <2>3. ASSUME subscribed, NoGone(events) PROVE NoGone(events') /\ \A n : Fresh(n) => Fresh(n)'
    <3>1. NoGone(events') /\ (events # <<>> => Head(events) # Gone)
      BY <1>4, <2>3, GoneTail DEF AuthTypes
    <3>2. UNCHANGED <<nonce, handshake, paired>> \/ (nonce' = nonce /\ paired' = {})
      BY <1>3, <2>3, <3>1
    <3>3. QED
      BY <1>1, <3>1, <3>2 DEF Fresh
  <2>4. Replied' = Replied /\ Coming' = Coming
    BY <1>1, <1>5 DEF Replied, Coming
  <2>5. QED
    BY <1>1, <1>5, <1>6, <2>1, <2>2, <2>3, <2>4 DEF KeepInv
<1>12. QED
  BY <1>7, <1>8, <1>9, <1>10, <1>11 DEF WasteInv

LEMMA MainWaste ==
  ASSUME AuthTypes, OrderInv, WasteInv, Notify \/ Republish
  PROVE  WasteInv'
<1>1. /\ UNCHANGED <<events, requests, v2, mine, agreed, stored, paired, nonce, handshake>>
      /\ UNCHANGED <<crossed, mixed, hurried, swept, misheard, thrown>> /\ (dropped => dropped')
      /\ subscribed' => subscribed
  <2>1. UNCHANGED <<events, requests, v2, mine, agreed, stored, paired, nonce, handshake>>
    BY DEF Notify, Republish, macVars, deviceVars, boundVars
  <2>2. UNCHANGED <<crossed, mixed, hurried, swept, misheard, thrown>>
    BY DEF Notify, Republish, ghostVars
  <2>3. dropped' = dropped \/ dropped' = TRUE
    BY DEF Notify, Republish, ghostVars
  <2>4. subscribed' => subscribed
    BY DEF Notify, Republish, AuthTypes
  <2>5. QED
    BY <2>1, <2>2, <2>3, <2>4
<1>2. /\ Asked' = Asked /\ InFlight' \subseteq InFlight
      /\ PacketsOf(posts') \subseteq PacketsOf(posts)
      /\ PacketsOf(down') \subseteq PacketsOf(down) \union (IF subscribed THEN PacketsOf(posts) ELSE {})
      /\ ~dropped' => InFlight' = InFlight
  BY MainThread
<1>3. UncrossedInv'
  BY <1>1, <1>2 DEF WasteInv, UncrossedInv, Coded
<1>4. TokenInv' /\ CodeIsHeard' /\ TokenIsKept'
  BY <1>1 DEF WasteInv, TokenInv, CodeIsHeard, TokenIsKept
<1>5. GoneInv'
  BY <1>1 DEF WasteInv, GoneInv
<1>6. GrantInv'
  BY <1>1, <1>2 DEF WasteInv, GrantInv
<1>7. Coming' \subseteq Coming /\ (Replied' => Replied)
  BY <1>1, <1>2 DEF Coming, Replied
<1>8. KeepInv'
  BY <1>1, <1>2, <1>7 DEF WasteInv, KeepInv, Fresh
<1>9. QED
  BY <1>3, <1>4, <1>5, <1>6, <1>8 DEF WasteInv

\* The device starts anew, with the link or without it.
LEMMA ResetWaste ==
  ASSUME AuthTypes, OrderInv, WasteInv, LoseLink \/ GiveUp \/ HearModified
  PROVE  WasteInv'
<1>1. /\ UNCHANGED <<posts, requests, stored, paired, nonce, handshake>>
      /\ UNCHANGED <<crossed, mixed, hurried, swept, misheard, thrown>>
      /\ v2' = [NewV2 EXCEPT !.pending = v2.pending]
      /\ events' = events \/ events' = Append(events, Gone)
  BY DEF LoseLink, GiveUp, Rescan, HearModified, Break, boundVars, macVars, ghostVars
<1>2. v2'.sent = "none" /\ ~v2'.awaiting /\ v2'.pending = v2.pending
  BY <1>1 DEF NewV2
<1>3. Asked' = Asked
  <2>1. Gone \in Event /\ Gone \notin AuthRequest /\ events \in Seq(Event) /\ AskedInOrder(events)
    BY EventsDiffer DEF Event, AuthTypes, OrderInv
  <2>2. AskedOf(Append(events, Gone)) = AskedOf(events) \union ({Gone} \cap AuthRequest)
    BY <2>1, AskedAppend
  <2>3. QED
    BY <1>1, <2>1, <2>2 DEF Asked
<1>4. InFlight' \subseteq InFlight /\ (dropped => dropped') /\ (~dropped' => InFlight' = InFlight)
  <2>1. CASE HearModified
    <3>1. down # <<>> /\ down' = Tail(down) /\ Head(down) \notin Packet
      BY <2>1, KindsDiffer DEF HearModified
    <3>2. dropped' = dropped
      BY <2>1 DEF HearModified, ghostVars
    <3>3. InFlight' = InFlight
      BY <1>1, <3>1, HeardFirst
    <3>4. QED
      BY <3>2, <3>3
  <2>2. CASE LoseLink \/ GiveUp
    <3>1. down' = <<>> /\ dropped' = (dropped \/ down # <<>> \/ half # NoReply)
      BY <2>2 DEF LoseLink, GiveUp, Rescan
    <3>2. QED
      BY <1>1, <3>1, EmptyQueue DEF InFlight
  <2>3. QED
    BY <2>1, <2>2
<1>5. UncrossedInv'
  BY <1>1, <1>2, <1>3, <1>4 DEF WasteInv, UncrossedInv, Coded
<1>6. TokenInv' /\ CodeIsHeard' /\ TokenIsKept'
  BY <1>1, <1>2 DEF WasteInv, TokenInv, CodeIsHeard, TokenIsKept
<1>7. GoneInv' /\ KeepInv'
  BY <1>2 DEF GoneInv, KeepInv
<1>8. GrantInv'
  BY <1>1, <1>4 DEF WasteInv, GrantInv
<1>9. QED
  BY <1>5, <1>6, <1>7, <1>8 DEF WasteInv

\* The Mac answers the first request that waits.
LEMMA AnswerWaste ==
  ASSUME AuthTypes, OrderInv, MatchInv, WasteInv, events # <<>>, NEW d \in AuthRequest, d = Head(events),
         NEW kind \in ReplyKind, NEW key \in Int, NEW token \in Int, kind = "granted" => token # Nothing,
         Answer(d, kind, key, token),
         handshake' = d.re \/ handshake' \in {handshake, Nothing},
         kind = "granted" => /\ d.verb = "code2" /\ d.keys = <<handshake, handshake>> /\ handshake # Nothing
                             /\ key = handshake /\ token = d.re /\ paired' = paired \union {d.re},
         kind # "granted" => paired' = paired,
         misheard' => misheard \/ crossed,
         d.verb = "auth2" => nonce' = d.re /\ handshake' = d.re,
         d.verb = "proof2" /\ kind = "rejected" =>
           ~(/\ nonce # Nothing /\ handshake # Nothing /\ d.token \in paired
             /\ d.keys = <<handshake, handshake>> /\ handshake = nonce)
  PROVE  WasteInv'
<1>1. PICK reply : reply = [kind |-> kind, re |-> d.re, key |-> key, token |-> token]
  OBVIOUS
<1>2. reply.kind = kind /\ reply.re = d.re /\ reply.key = key /\ reply.token = token
  BY <1>1
<1>3. /\ OrderInv'
      /\ d \in Asked /\ d.re <= requests /\ Asked = {d} \union Asked' /\ d \notin Asked'
      /\ \A c \in Asked' : d.re < c.re
      /\ PacketsOf(posts) \subseteq PacketsOf(posts')
      /\ \A p \in PacketsOf(posts') \ PacketsOf(posts) : p.of = reply
      /\ \E p \in PacketsOf(posts') : Last(p) /\ p.of = reply
  BY <1>1, AnswerOrder
<1>4. /\ UNCHANGED <<subscribed, down, requests, v2, mine, agreed, stored>> /\ events' = Tail(events)
      /\ UNCHANGED <<crossed, mixed, hurried, dropped, swept, thrown>>
  BY DEF Answer, deviceVars, boundVars
<1>5. d.re \in Nat \ {0} /\ requests \in Nat /\ stored \in Int /\ stored < d.re
  BY <1>3, EventsDiffer DEF AuthTypes, MatchInv, NumberInv
<1>6. InFlight \subseteq InFlight' /\ \A p \in InFlight' \ InFlight : p.of = reply
  BY <1>3, <1>4 DEF InFlight
<1>7. \A p \in InFlight : p.of.re \in Int /\ p.of.re < d.re
  BY <1>3, Members DEF OrderInv
<1>8. TokenInv' /\ TokenIsKept' /\ CodeIsHeard'
  BY <1>4 DEF WasteInv, TokenInv, TokenIsKept, CodeIsHeard
<1>9. GoneInv'
  BY <1>4, GoneTail DEF WasteInv, GoneInv, AuthTypes
<1>10. UncrossedInv'
  <2> SUFFICES ASSUME ~crossed
               PROVE  /\ ~mixed
                      /\ ~v2.awaiting
                      /\ v2.sent \in {"code2", "proof2"} =>
                           mine = requests - 1 /\ agreed = mine /\ \A c \in Asked' : c.re = requests
                      /\ \A c \in Coded' : /\ c.keys = <<c.re - 1, c.re - 1>> /\ handshake' \in {Nothing, c.re - 1}
                                           /\ \A e \in Asked' : c.re <= e.re
                      /\ \A o \in InFlight' : Granted(o) => o.of.key = o.of.re - 1
    BY <1>4 DEF UncrossedInv, Granted
  <2>1. ~mixed /\ ~v2.awaiting
    BY <1>3 DEF WasteInv, UncrossedInv
  <2>2. v2.sent \in {"code2", "proof2"} => mine = requests - 1 /\ agreed = mine /\ \A c \in Asked' : c.re = requests
    BY <1>3 DEF WasteInv, UncrossedInv
  <2>3. ASSUME NEW c \in Coded'
        PROVE  /\ c.keys = <<c.re - 1, c.re - 1>> /\ handshake' \in {Nothing, c.re - 1}
               /\ \A e \in Asked' : c.re <= e.re
    <3>1. c \in Coded /\ c \in Asked'
      BY <1>3 DEF Coded
    <3>2. c.re <= d.re /\ d.re < c.re /\ c.re \in Nat
      BY <1>3, <3>1, Members DEF WasteInv, UncrossedInv
    <3>3. QED
      BY <1>5, <3>2
  <2>4. ASSUME NEW o \in InFlight', Granted(o) PROVE o.of.key = o.of.re - 1
    <3>1. CASE o \in InFlight
      BY <2>4, <3>1 DEF WasteInv, UncrossedInv
    <3>2. CASE o \notin InFlight
      <4>1. o.of = reply /\ kind = "granted"
        BY <1>2, <1>6, <2>4, <3>2 DEF Granted
      <4>2. d \in Coded /\ key = handshake /\ handshake # Nothing
        BY <1>3, <4>1 DEF Coded
      <4>3. handshake = d.re - 1
        BY <4>2 DEF WasteInv, UncrossedInv
      <4>4. QED
        BY <1>2, <4>1, <4>2, <4>3
    <3>3. QED
      BY <3>1, <3>2
  <2>5. QED
    BY <2>1, <2>2, <2>3, <2>4
<1>11. GrantInv'
  <2>1. \A t \in paired' : t \in paired \/ (t = d.re /\ kind = "granted" /\ token = d.re)
    OBVIOUS
  <2>2. \A t \in paired : t \in Nat \ {0}
    BY DEF WasteInv, GrantInv
  <2>3. ASSUME NEW t \in paired' PROVE t \in Nat \ {0} /\ (t <= stored => stored \in paired')
    BY <1>5, <2>1, <2>3 DEF WasteInv, GrantInv
  <2>4. ASSUME NEW t \in paired', NEW o \in InFlight', Granted(o), t <= o.of.token PROVE o.of.token \in paired'
    <3>1. CASE o \notin InFlight
      BY <1>2, <1>6, <2>4, <3>1 DEF Granted
    <3>2. CASE o \in InFlight
      <4>1. o.of.token < d.re /\ o.of.token \in Int
        BY <1>7, <2>4, <3>2 DEF MatchInv, NumberInv, AnswerIs
      <4>2. t \in paired
        BY <1>5, <2>1, <2>4, <4>1
      <4>3. QED
        BY <2>4, <3>2, <4>2 DEF WasteInv, GrantInv
    <3>3. QED
      BY <3>1, <3>2
  <2>5. ASSUME ~crossed, ~dropped, NEW t \in paired'
        PROVE  \/ \E u \in thrown \union {stored} : t <= u
               \/ \E o \in InFlight' : Last(o) /\ o.of.token = t
    <3>1. CASE t \in paired
      BY <1>6, <2>5, <3>1 DEF WasteInv, GrantInv
    <3>2. CASE t \notin paired
      <4>1. t = token
        BY <2>1, <3>2
      <4>2. QED
        BY <1>2, <1>3, <4>1 DEF InFlight
    <3>3. QED
      BY <3>1, <3>2
  <2>6. QED
    BY <1>4, <2>3, <2>4, <2>5 DEF GrantInv, Granted, Last
<1>12. KeepInv'
  <2> SUFFICES ASSUME ~crossed, ~hurried, ~swept
               PROVE  /\ subscribed /\ v2.sent = "auth2" /\ Replied' => Fresh(requests)'
                      /\ subscribed /\ v2.sent = "proof2" => Asked' = {}
                      /\ v2.sent = "proof2" =>
                           \A p \in Coming' : p.of.re = requests /\ p.of.kind = "rejected" => stored \notin paired'
    BY <1>4 DEF KeepInv
  <2>1. ASSUME v2.sent = "auth2", Replied' PROVE Fresh(requests)'
    <3>1. PICK p \in InFlight' : p.of.re = requests
      BY <1>4, <2>1 DEF Replied
    <3>2. p \notin InFlight
      BY <1>3, <1>5, <1>7, <3>1
    <3>3. d.re = requests
      BY <1>2, <1>6, <3>1, <3>2
    <3>4. d.verb = "auth2"
      BY <1>3, <2>1, <3>3 DEF MatchInv, LastInv
    <3>5. QED
      BY <1>4, <3>3, <3>4 DEF Fresh
  <2>2. ASSUME v2.sent = "proof2"
        PROVE  d.re = requests /\ Asked' = {} /\ d.verb = "proof2" /\ d.token = stored /\ mine = requests - 1
    <3>1. d.re = requests /\ mine = requests - 1 /\ \A c \in Asked' : c.re = requests
      BY <1>3, <2>2 DEF WasteInv, UncrossedInv
    <3>2. Asked' = {}
      BY <1>3, <1>5, <3>1
    <3>3. QED
      BY <1>3, <2>2, <3>1, <3>2 DEF MatchInv, LastInv
  <2>3. ASSUME v2.sent = "proof2", NEW p \in Coming', p.of.re = requests, p.of.kind = "rejected"
        PROVE  stored \notin paired'
    <3>1. d.re = requests /\ d.verb = "proof2" /\ d.token = stored /\ mine = requests - 1 /\ paired' = paired
      BY <2>2, <2>3
    <3>2. CASE p \in Coming
      BY <2>3, <3>1, <3>2 DEF WasteInv, KeepInv
    <3>3. CASE p \notin Coming
      <4>1. subscribed /\ p.of = reply /\ kind = "rejected"
        BY <1>2, <1>3, <1>4, <2>3, <3>3 DEF Coming
      <4>2. nonce = requests - 1 /\ (handshake = requests - 1 \/ stored \notin paired)
        BY <1>3, <2>3, <4>1 DEF WasteInv, KeepInv, Fresh
      <4>3. mine # Nothing /\ d.keys = <<d.re - 1, d.re - 1>>
        <5>1. d \in Coded
          BY <1>3, <3>1 DEF Coded
        <5>2. QED
          BY <2>3, <5>1 DEF MatchInv, LastInv, WasteInv, UncrossedInv
      <4>4. QED
        BY <3>1, <4>1, <4>2, <4>3
    <3>4. QED
      BY <3>2, <3>3
  <2>4. QED
    BY <2>1, <2>2, <2>3
<1>13. QED
  BY <1>8, <1>9, <1>10, <1>11, <1>12 DEF WasteInv

LEMMA MacWaste ==
  ASSUME AuthTypes, OrderInv, MatchInv, WasteInv, AnswerHello \/ AnswerCode \/ AnswerAuth \/ AnswerProof
  PROVE  WasteInv'
<1>1. \E verb \in Verb : Requested(verb)
  BY DEF Verb, AnswerHello, AnswerCode, AnswerAuth, AnswerProof
<1>2. PICK d \in AuthRequest : d = Head(events) /\ events # <<>> /\ d.re \in Int /\ d.re # Nothing
  <2>1. Head(events) \in AuthRequest /\ events # <<>> /\ Head(events).re \in Nat \ {0}
    BY <1>1, RequestIs
  <2>2. QED
    BY <2>1 DEF Nothing
<1>3. d \in Asked
  <2>1. events' = Tail(events)
    BY DEF AnswerHello, AnswerCode, AnswerAuth, AnswerProof, Reject, Answer
  <2>2. QED
    BY <1>2, <2>1, TakenFirst
<1>4. CASE AnswerHello
  <2>1. /\ d.verb = "hello2" /\ UNCHANGED <<paired, misheard>> /\ (handshake' = d.re \/ handshake' = handshake)
        /\ Answer(d, "rejected", Nothing, Nothing) \/ Answer(d, "await", d.re, Nothing)
    BY <1>2, <1>4 DEF AnswerHello, Requested, Reject
  <2>2. QED
    BY <1>2, <2>1, AnswerWaste, NumbersOfAuth DEF ReplyKind
<1>5. CASE AnswerAuth
  <2>1. /\ d.verb = "auth2" /\ UNCHANGED <<paired, misheard>> /\ handshake' = d.re /\ nonce' = d.re
        /\ Answer(d, "nonce", d.re, Nothing)
    BY <1>2, <1>5 DEF AnswerAuth, Requested
  <2>2. QED
    BY <1>2, <2>1, AnswerWaste, NumbersOfAuth DEF ReplyKind
<1>6. CASE AnswerCode
  <2>1. d.verb = "code2" /\ handshake' = Nothing /\ handshake \in Int /\ d \in Coded
    BY <1>2, <1>3, <1>6 DEF AnswerCode, Requested, AuthTypes, Coded
  <2>2. \/ Answer(d, "rejected", Nothing, Nothing) /\ UNCHANGED <<paired, misheard>>
        \/ /\ Answer(d, "denied", Nothing, Nothing) /\ paired' = paired
           /\ handshake # Nothing /\ (misheard' => misheard \/ d.keys # <<handshake, handshake>>)
        \/ /\ d.keys = <<handshake, handshake>> /\ handshake # Nothing /\ Answer(d, "granted", handshake, d.re)
           /\ paired' = paired \union {d.re} /\ misheard' = misheard
    BY <1>2, <1>6 DEF AnswerCode, Reject
  <2>3. ~crossed /\ handshake # Nothing => d.keys = <<handshake, handshake>>
    BY <2>1 DEF WasteInv, UncrossedInv
  <2>4. CASE Answer(d, "rejected", Nothing, Nothing) /\ UNCHANGED <<paired, misheard>>
    BY <1>2, <2>1, <2>4, AnswerWaste, NumbersOfAuth DEF ReplyKind
  <2>5. ASSUME Answer(d, "denied", Nothing, Nothing), paired' = paired, misheard' => misheard \/ crossed
        PROVE  WasteInv'
    BY <1>2, <2>1, <2>5, AnswerWaste, NumbersOfAuth DEF ReplyKind
  <2>6. ASSUME d.keys = <<handshake, handshake>>, handshake # Nothing, Answer(d, "granted", handshake, d.re),
               paired' = paired \union {d.re}, misheard' = misheard
        PROVE  WasteInv'
    BY <1>2, <2>1, <2>6, AnswerWaste DEF ReplyKind
  <2>7. QED
    BY <2>2, <2>3, <2>4, <2>5, <2>6
<1>7. CASE AnswerProof
  <2>1. /\ d.verb = "proof2" /\ UNCHANGED <<paired, misheard>> /\ handshake' \in {handshake, Nothing}
        /\ \/ Answer(d, "authorized", Nothing, Nothing)
           \/ /\ Answer(d, "rejected", Nothing, Nothing)
              /\ ~(/\ nonce # Nothing /\ handshake # Nothing /\ d.token \in paired
                   /\ d.keys = <<handshake, handshake>> /\ d.keys[2] = nonce)
    BY <1>2, <1>7 DEF AnswerProof, Requested, Reject
  <2>2. d.keys = <<handshake, handshake>> => d.keys[2] = handshake
    OBVIOUS
  <2>3. QED
    BY <1>2, <2>1, <2>2, AnswerWaste, NumbersOfAuth DEF ReplyKind
<1>8. QED
  BY <1>4, <1>5, <1>6, <1>7

\* A handshake begins.
LEMMA BeginWaste ==
  ASSUME AuthTypes, OrderInv, WasteInv, NEW code \in Int, Begin(code), ~hurried' /\ code # NoCode => stored = Nothing,
         UNCHANGED <<posts, down, stored, handshake, nonce, paired, crossed, mixed, dropped, swept, misheard, thrown>>,
         hurried => hurried'
  PROVE  WasteInv'
<1>1. PICK verb \in {"hello2", "auth2"} :
        /\ verb = "hello2" => code # NoCode \/ stored = Nothing
        /\ Send(Request(verb, NoCode, Nothing, <<>>))
        /\ v2' = [sent |-> verb, awaiting |-> FALSE, pending |-> code]
  BY DEF Begin
<1>2. v2'.sent = verb /\ ~v2'.awaiting /\ v2'.pending = code
  BY <1>1
<1>3. PICK d \in AuthRequest : d = Request(verb, NoCode, Nothing, <<>>)
  <2>1. <<>> \in Seq(Int) /\ verb \in Verb
    BY DEF Verb
  <2>2. QED
    BY <2>1, RequestTyped, NumbersOfAuth
<1>4. d.verb = verb /\ d.re = requests + 1
  BY <1>3, RequestSays
<1>5. InFlight' = InFlight /\ AnswersInOrder'
  BY DEF InFlight, AnswersInOrder, OrderInv
<1>6. requests' = requests + 1 /\ (Asked' = Asked \/ Asked' = Asked \union {d}) /\ requests \in Nat
  BY <1>1, <1>3, <1>4, <1>5, SentLast DEF AuthTypes
<1>7. UncrossedInv'
  <2>1. Coded' = Coded
    BY <1>4, <1>6 DEF Coded
  <2>2. \A c \in Coded : c.re <= requests /\ c.re \in Nat
    BY Members DEF OrderInv, Coded
  <2>3. \A c \in Coded : c.re <= d.re
    BY <1>4, <1>6, <2>2
  <2>4. QED
    BY <1>2, <1>5, <1>6, <2>1, <2>3 DEF WasteInv, UncrossedInv
<1>8. TokenInv'
  BY <1>1, <1>2 DEF TokenInv
<1>9. GoneInv'
  BY <1>1, <1>3, <1>4, <1>6, SentBehind DEF GoneInv
<1>10. KeepInv'
  <2>1. ~Replied'
    <3>1. \A p \in InFlight : p.of.re \in Int /\ p.of.re <= requests
      BY Members DEF OrderInv
    <3>2. \A p \in InFlight : p.of.re # requests + 1
      BY <1>6, <3>1
    <3>3. QED
      BY <1>5, <1>6, <3>2 DEF Replied
  <2>2. QED
    BY <1>2, <2>1 DEF KeepInv
<1>11. GrantInv'
  BY <1>5 DEF WasteInv, GrantInv
<1>12. CodeIsHeard' /\ TokenIsKept'
  BY DEF WasteInv, CodeIsHeard, TokenIsKept
<1>13. QED
  BY <1>7, <1>8, <1>9, <1>10, <1>11, <1>12 DEF WasteInv

\* A code or a proof is sent under the key that has been agreed on.
LEMMA BoundWaste ==
  ASSUME AuthTypes, OrderInv, MatchInv, WasteInv, AnswersInOrder', InFlight' \subseteq InFlight,
         UNCHANGED <<mine, stored, handshake, nonce, paired, subscribed, swept>>,
         hurried => hurried', crossed => crossed',
         NEW verb \in {"code2", "proof2"}, NEW code \in Int, NEW token \in Int, agreed' \in Int,
         Send(Request(verb, code, token, <<mine, agreed'>>)), v2'.sent = verb, ~v2'.awaiting,
         ~hurried' /\ (v2'.pending # NoCode \/ verb = "code2") => stored = Nothing,
         ~crossed' => /\ ~mixed' /\ mine = requests /\ agreed' = mine /\ Asked = {}
                      /\ handshake \in {Nothing, requests},
         verb = "proof2" => v2.sent = "auth2" /\ (~crossed' => Replied)
  PROVE  UncrossedInv' /\ TokenInv' /\ GoneInv' /\ KeepInv'
<1>1. requests \in Nat /\ mine \in Int
  BY DEF AuthTypes
<1>2. PICK d \in AuthRequest : d = Request(verb, code, token, <<mine, agreed'>>)
  <2>1. <<mine, agreed'>> \in Seq(Int) /\ verb \in Verb
    BY <1>1 DEF Verb
  <2>2. QED
    BY <2>1, RequestTyped
<1>3. d.verb = verb /\ d.re = requests + 1 /\ d.keys = <<mine, agreed'>>
  BY <1>2, RequestSays
<1>4. requests' = requests + 1 /\ (Asked' = Asked \/ Asked' = Asked \union {d})
  BY <1>2, <1>3, SentLast
<1>5. UncrossedInv'
  <2> SUFFICES ASSUME ~crossed'
               PROVE  /\ ~mixed' /\ mine = requests' - 1 /\ agreed' = mine /\ \A c \in Asked' : c.re = requests'
                      /\ \A c \in Coded' : /\ c.keys = <<c.re - 1, c.re - 1>> /\ handshake \in {Nothing, c.re - 1}
                                           /\ \A e \in Asked' : c.re <= e.re
                      /\ \A o \in InFlight' : Granted(o) => o.of.key = o.of.re - 1
    BY DEF UncrossedInv, Granted
  <2>1. ~mixed' /\ mine = requests /\ agreed' = mine /\ Asked' \subseteq {d} /\ handshake \in {Nothing, requests}
    BY <1>4
  <2>2. Coded' \subseteq {d}
    BY <2>1 DEF Coded
  <2>3. d.re - 1 = requests /\ requests' - 1 = requests /\ d.re <= d.re
    BY <1>1, <1>3, <1>4
  <2>4. \A o \in InFlight' : Granted(o) => o.of.key = o.of.re - 1
    BY DEF WasteInv, UncrossedInv
  <2>5. QED
    BY <1>3, <1>4, <2>1, <2>2, <2>3, <2>4
<1>6. TokenInv'
  BY DEF TokenInv
<1>7. GoneInv'
  BY <1>2, <1>3, <1>4, SentBehind DEF GoneInv
<1>8. KeepInv'
  <2> SUFFICES ASSUME ~crossed', ~hurried', ~swept, verb = "proof2" PROVE KeepInv'
    BY DEF KeepInv
  <2>1. ASSUME NEW p \in InFlight' PROVE p.of.re # requests'
    <3>1. p.of.re \in Int /\ p.of.re <= requests
      BY Members DEF OrderInv
    <3>2. QED
      BY <1>1, <1>4, <3>1
  <2>2. Coming' \subseteq InFlight'
    BY DEF Coming, InFlight
  <2>3. ASSUME subscribed
        PROVE  nonce' = requests' - 1 /\ (handshake' = requests' - 1 \/ stored' \notin paired') /\ NoGone(events')
    <3>1. nonce = requests /\ (handshake = requests \/ stored \notin paired)
      BY <2>3 DEF WasteInv, KeepInv, Fresh
    <3>2. requests' - 1 = requests
      BY <1>1, <1>4
    <3>3. NoGone(events)
      BY <2>3, NoneBefore DEF WasteInv, GoneInv, Asked
    <3>4. NoGone(events')
      BY <1>2, <2>3, <3>3, SentBehind
    <3>5. QED
      BY <3>1, <3>2, <3>4
  <2>4. subscribed' = subscribed
    OBVIOUS
  <2>5. QED
    BY <2>1, <2>2, <2>3, <2>4 DEF KeepInv, Fresh
<1>9. QED
  BY <1>5, <1>6, <1>7, <1>8

\* A packet is heard: what was granted is on its way still, or the device has it.
LEMMA GrantHeard ==
  ASSUME GrantInv, UNCHANGED paired, NEW packet, InFlight = {packet} \union InFlight',
         dropped => dropped', crossed => crossed',
         \A t \in paired : t <= stored' => stored' \in paired,
         ~crossed' => \A t \in paired, u \in thrown \union {stored} : t <= u => \E w \in thrown' \union {stored'} : t <= w,
         ~crossed' /\ ~dropped' /\ Last(packet) /\ packet.of.token \in paired =>
           \E w \in thrown' \union {stored'} : packet.of.token <= w
  PROVE  GrantInv'
<1>1. InFlight' \subseteq InFlight
  OBVIOUS
<1>2. /\ \A t \in paired : t \in Nat \ {0} /\ (t <= stored' => stored' \in paired)
      /\ \A t \in paired : \A o \in InFlight' : Granted(o) /\ t <= o.of.token => o.of.token \in paired
  BY <1>1 DEF GrantInv
<1>3. ASSUME ~crossed', ~dropped', NEW t \in paired
      PROVE  \/ \E u \in thrown' \union {stored'} : t <= u
             \/ \E o \in InFlight' : Last(o) /\ o.of.token = t
  <2>1. \/ \E u \in thrown \union {stored} : t <= u
        \/ \E o \in InFlight : Last(o) /\ o.of.token = t
    BY <1>3 DEF GrantInv
  <2>2. CASE \E u \in thrown \union {stored} : t <= u
    BY <1>3, <2>2
  <2>3. CASE \E o \in InFlight : Last(o) /\ o.of.token = t
    BY <1>3, <2>3
  <2>4. QED
    BY <2>1, <2>2, <2>3
<1>4. QED
  BY <1>2, <1>3 DEF GrantInv, Granted, Last

\* Where nothing is asked nor answered, what holds of the Mac's side holds still.
LEMMA HeardQuiet ==
  ASSUME WasteInv, NEW packet, NEW reply, Heard(packet, reply),
         UNCHANGED <<events, v2, agreed, channel, stored, requests, mixed, crossed, thrown>>,
         dropped => dropped', ~dropped' => ~Last(packet)
  PROVE  WasteInv'
<1>1. /\ InFlight = {packet} \union InFlight' /\ InFlight' \subseteq InFlight /\ Coming' \subseteq Coming /\ Asked' = Asked
      /\ UNCHANGED <<subscribed, paired, mine, nonce, handshake, hurried, swept, misheard>>
      /\ (dropped => dropped') /\ (~dropped' => ~Last(packet))
  <2>1. /\ InFlight = {packet} \union InFlight' /\ PacketsOf(down') \subseteq PacketsOf(down) /\ posts' = posts
        /\ UNCHANGED <<subscribed, paired, mine, nonce, handshake, hurried, swept, misheard>>
    BY DEF Heard
  <2>2. Coming' \subseteq Coming /\ Asked' = Asked
    BY <2>1 DEF Coming, Asked
  <2>4. QED
    BY <2>1, <2>2
<1>2. UncrossedInv'
  BY <1>1 DEF WasteInv, UncrossedInv, Coded
<1>3. TokenInv' /\ CodeIsHeard' /\ TokenIsKept' /\ GoneInv'
  BY <1>1 DEF WasteInv, TokenInv, CodeIsHeard, TokenIsKept, GoneInv
<1>4. KeepInv'
  <2>1. Replied' => Replied
    BY <1>1 DEF Replied
  <2>2. QED
    BY <1>1, <2>1 DEF WasteInv, KeepInv, Fresh
<1>5. GrantInv'
  <2>1. \A t \in paired : t <= stored' => stored' \in paired
    BY DEF WasteInv, GrantInv
  <2>2. QED
    BY <1>1, <2>1, GrantHeard DEF WasteInv
<1>6. QED
  BY <1>2, <1>3, <1>4, <1>5 DEF WasteInv

\* What an answer says that was not misread.
LEMMA HeardRight ==
  ASSUME AuthTypes, OrderInv, MatchInv, WasteInv, NEW packet, NEW reply, Heard(packet, reply), v2.sent # "none",
         ~crossed', reply = packet.of \/ mixed', ~crossed' => ~mixed' /\ reply.re = requests, crossed => crossed'
  PROVE  /\ ~crossed /\ ~mixed' /\ reply = packet.of /\ packet.of.re = requests /\ AnswerIs(packet)
         /\ Asked = {} /\ packet.of.kind \in Answers(v2.sent) /\ packet \in InFlight
<1>1. ~crossed /\ ~mixed' /\ reply = packet.of /\ packet.of.re = requests /\ packet \in InFlight
  BY DEF Heard
<1>2. AnswerIs(packet) /\ packet.of.kind \in Answers(v2.sent)
  BY <1>1 DEF MatchInv, NumberInv, LastInv
<1>3. ASSUME NEW c \in Asked PROVE FALSE
  <2>1. requests < c.re /\ c.re <= requests /\ c.re \in Nat /\ requests \in Nat
    BY <1>1, Members DEF OrderInv, AuthTypes
  <2>2. QED
    BY <2>1
<1>4. QED
  BY <1>1, <1>2, <1>3

\* The Mac's key is heard.
LEMMA KeyHeard ==
  ASSUME AuthTypes, OrderInv, MatchInv, WasteInv, NEW packet, NEW reply, Heard(packet, reply), v2.sent # "none",
         ~crossed' => ~mixed' /\ reply.re = requests, crossed => crossed',
         reply = packet.of \/ (mixed' /\ (reply.kind = "junk" \/ reply.key = Garbled)),
         reply.kind \in {"await", "nonce"}, agreed' = reply.key, v2.sent \in {"hello2", "auth2"}
  PROVE  /\ agreed' \in Int /\ InFlight' \subseteq InFlight /\ AnswersInOrder'
         /\ ~crossed' => /\ ~mixed' /\ mine = requests /\ agreed' = mine /\ Asked = {}
                         /\ handshake \in {Nothing, requests} /\ Replied
<1>1. /\ packet \in Packet /\ InFlight' \subseteq InFlight /\ AnswersInOrder'
  BY DEF Heard
<1>2. agreed' \in Int
  BY <1>1, PacketIs, NumbersOfAuth
<1>3. ASSUME ~crossed'
      PROVE  /\ ~mixed' /\ mine = requests /\ agreed' = mine /\ Asked = {}
             /\ handshake \in {Nothing, requests} /\ Replied
  <2>1. /\ ~mixed' /\ reply = packet.of /\ packet.of.re = requests /\ AnswerIs(packet)
        /\ Asked = {} /\ packet \in InFlight
    BY <1>3, HeardRight
  <2>2. Keyed(packet) /\ packet.of.key = requests
    BY <2>1 DEF Keyed, AnswerIs
  <2>3. handshake = Nothing \/ (requests <= handshake /\ handshake <= requests /\ handshake \in Int /\ requests \in Int)
    BY <2>1, <2>2 DEF MatchInv, KeyInv, NumberInv, AuthTypes
  <2>4. mine = requests
    BY DEF MatchInv, SentInv
  <2>5. QED
    BY <2>1, <2>2, <2>3, <2>4 DEF Replied
<1>4. QED
  BY <1>1, <1>2, <1>3

\* The device stops on an answer: what it discards the Mac does not know.
LEMMA StopWaste ==
  ASSUME AuthTypes, OrderInv, MatchInv, WasteInv, NEW packet, NEW reply, Heard(packet, reply), v2.sent # "none",
         ~crossed' => ~mixed' /\ reply.re = requests, crossed => crossed', reply = packet.of \/ mixed',
         ~crossed', ~hurried, ~swept,
         ~(reply.kind \in {"granted", "authorized"} /\ v2.sent = "proof2" /\ stored # Nothing),
         ~(reply.kind \in {"await", "nonce"} /\ agreed = Nothing /\ v2.sent = "auth2" /\ stored # Nothing)
  PROVE  stored \notin paired
<1>1. /\ ~crossed /\ reply = packet.of /\ packet.of.re = requests /\ packet.of.kind \in Answers(v2.sent)
  BY HeardRight
<1>2. Nothing \notin paired
  BY DEF WasteInv, GrantInv, Nothing
<1>3. CASE v2.sent \in {"hello2", "code2"}
  BY <1>2, <1>3 DEF WasteInv, TokenInv
<1>4. CASE v2.sent = "auth2"
  <2>1. packet.of.kind = "nonce" /\ agreed = Nothing /\ stored # Nothing
    BY <1>1, <1>4 DEF Answers, MatchInv, SentInv
  <2>2. QED
    BY <1>1, <1>4, <2>1
<1>5. CASE v2.sent = "proof2"
  <2>1. packet.of.kind \in {"authorized", "rejected"} /\ stored # Nothing
    BY <1>1, <1>5 DEF Answers, MatchInv, SentInv
  <2>2. packet.of.kind = "rejected" /\ packet \in Coming
    BY <1>1, <1>5, <2>1 DEF Heard, Coming
  <2>3. QED
    BY <1>1, <1>5, <2>2 DEF WasteInv, KeepInv
<1>6. QED
  BY <1>3, <1>4, <1>5 DEF AuthTypes, Verb

\* The device asks nothing on an answer, and awaits the code at most.
LEMMA HeardRest ==
  ASSUME AuthTypes, OrderInv, MatchInv, WasteInv, NEW packet, NEW reply, Heard(packet, reply),
         crossed => crossed', UNCHANGED <<events, requests>>,
         ~crossed' => ~mixed',
         \/ v2'.sent = "none" /\ ~v2'.awaiting
         \/ /\ v2.sent = "hello2" /\ v2'.sent = "hello2"
            /\ ~crossed' => agreed' = mine /\ Asked = {} /\ handshake \in {Nothing, requests},
         v2'.pending = NoCode \/ (v2'.pending = v2.pending /\ stored' = stored),
         v2'.sent = "hello2" => stored' = stored,
         ~crossed' /\ ~hurried /\ ~swept => thrown' = thrown,
         GrantInv'
  PROVE  WasteInv'
<1>1. /\ InFlight' \subseteq InFlight /\ Asked' = Asked
      /\ UNCHANGED <<subscribed, paired, mine, nonce, handshake, hurried, swept, misheard>>
  BY DEF Heard, Asked
<1>2. v2'.sent \notin {"code2", "auth2", "proof2"}
  OBVIOUS
<1>3. UncrossedInv'
  <2>1. \A o \in InFlight' : ~crossed /\ Granted(o) => o.of.key = o.of.re - 1
    BY <1>1 DEF WasteInv, UncrossedInv
  <2>2. ~crossed => \A d \in Coded : /\ d.keys = <<d.re - 1, d.re - 1>> /\ handshake \in {Nothing, d.re - 1}
                                     /\ \A c \in Asked : d.re <= c.re
    BY DEF WasteInv, UncrossedInv
  <2>3. v2'.awaiting /\ ~crossed' => agreed' = mine /\ Asked = {} /\ handshake \in {Nothing, requests}
    OBVIOUS
  <2>4. Coded' = Coded
    BY <1>1 DEF Coded
  <2>5. QED
    BY <1>1, <1>2, <2>1, <2>2, <2>3, <2>4 DEF UncrossedInv, Granted
<1>4. TokenInv'
  BY <1>1, <1>2 DEF WasteInv, TokenInv
<1>5. GoneInv' /\ KeepInv'
  BY <1>1, <1>2 DEF WasteInv, GoneInv, KeepInv
<1>6. CodeIsHeard' /\ TokenIsKept'
  BY <1>1 DEF WasteInv, CodeIsHeard, TokenIsKept
<1>7. QED
  BY <1>3, <1>4, <1>5, <1>6 DEF WasteInv

\* What the device does on an answer wastes nothing.
LEMMA AdvanceWaste ==
  ASSUME AuthTypes, OrderInv, MatchInv, WasteInv, NEW packet, NEW reply, Heard(packet, reply), v2.sent # "none",
         Advance(reply), mixed => mixed', crossed => crossed', dropped' = dropped,
         ~crossed' => ~mixed' /\ reply.re = requests,
         reply = packet.of \/ (mixed' /\ (reply.kind = "junk" \/ reply.key = Garbled))
  PROVE  WasteInv'
<1>1. /\ packet \in InFlight /\ InFlight = {packet} \union InFlight' /\ InFlight' \subseteq InFlight
      /\ UNCHANGED <<subscribed, paired, mine, nonce, handshake, hurried, swept, misheard>>
  BY DEF Heard
<1>2. requests \in Nat /\ stored \in Int /\ v2.pending \in Int
  BY DEF AuthTypes
<1>3. Answers(v2.sent) \subseteq ReplyKind
  BY DEF Answers, ReplyKind, AuthTypes, Verb
<1>4. ASSUME ~crossed', packet.of.token \in paired
      PROVE  reply = packet.of /\ reply.kind = "granted" /\ v2.sent = "code2" /\ <<reply.key, reply.key>> = <<mine, agreed>>
  <2>1. /\ ~crossed /\ reply = packet.of /\ packet.of.re = requests /\ AnswerIs(packet)
        /\ packet.of.kind \in Answers(v2.sent)
    BY <1>4, HeardRight
  <2>2. packet.of.token # Nothing
    BY <1>4 DEF WasteInv, GrantInv, Nothing
  <2>3. Granted(packet)
    BY <2>1, <2>2 DEF AnswerIs
  <2>4. v2.sent = "code2"
    BY <2>1, <2>3 DEF Answers, Granted, AuthTypes, Verb
  <2>5. packet.of.key = requests - 1 /\ mine = requests - 1 /\ agreed = mine
    BY <1>1, <2>1, <2>3, <2>4 DEF WasteInv, UncrossedInv
  <2>6. QED
    BY <2>1, <2>3, <2>4, <2>5 DEF Granted
<1>5. ASSUME stored' = stored, thrown' = thrown, ~crossed' => packet.of.token \notin paired
      PROVE  GrantInv'
  <2>1. \A t \in paired : t <= stored' => stored' \in paired
    BY <1>5 DEF WasteInv, GrantInv
  <2>2. QED
    BY <1>1, <1>5, <2>1, GrantHeard DEF WasteInv
<1>6. CASE reply.kind = "denied" /\ Denied
  <2>1. v2' = NewV2 /\ UNCHANGED <<events, stored, thrown, requests>>
    BY <1>6 DEF Denied
  <2>2. v2'.sent = "none" /\ ~v2'.awaiting /\ v2'.pending = NoCode
    BY <2>1 DEF NewV2
  <2>3. GrantInv'
    BY <1>4, <1>5, <1>6, <2>1
  <2>4. QED
    BY <2>1, <2>2, <2>3, HeardRest
<1>7. CASE reply.kind \in {"await", "nonce"} /\ agreed = Nothing /\ v2.sent = "hello2" /\ Bind(reply)
  <2>1. agreed' = reply.key /\ UNCHANGED <<stored, thrown>>
    BY <1>7 DEF Bind
  <2>2. /\ agreed' \in Int /\ AnswersInOrder'
        /\ ~crossed' => /\ ~mixed' /\ mine = requests /\ agreed' = mine /\ Asked = {}
                        /\ handshake \in {Nothing, requests} /\ Replied
    BY <1>7, <2>1, KeyHeard
  <2>3. GrantInv'
    BY <1>4, <1>5, <1>7, <2>1
  <2>4. CASE v2.pending = NoCode
    <3>1. v2' = [v2 EXCEPT !.awaiting = TRUE] /\ UNCHANGED <<events, requests>>
      BY <1>7, <2>4 DEF Bind
    <3>2. v2'.sent = "hello2" /\ v2'.pending = v2.pending
      BY <1>7, <3>1 DEF AuthTypes
    <3>3. QED
      BY <1>7, <2>1, <2>2, <2>3, <3>1, <3>2, HeardRest
  <2>5. CASE v2.pending # NoCode
    <3>1. /\ Send(Request("code2", v2.pending, Nothing, <<mine, agreed'>>))
          /\ v2' = [sent |-> "code2", awaiting |-> FALSE, pending |-> NoCode]
      BY <1>7, <2>1, <2>5 DEF Bind, SendCode
    <3>2. v2'.sent = "code2" /\ ~v2'.awaiting
      BY <3>1
    <3>3. ~hurried' => stored = Nothing
      BY <1>1, <1>7 DEF WasteInv, TokenInv
    <3>4. UncrossedInv' /\ TokenInv' /\ GoneInv' /\ KeepInv'
      BY <1>1, <1>2, <2>1, <2>2, <3>1, <3>2, <3>3, BoundWaste, NumbersOfAuth
    <3>5. QED
      BY <1>1, <2>1, <2>3, <3>4 DEF WasteInv, CodeIsHeard, TokenIsKept
  <2>6. QED
    BY <2>4, <2>5
<1>8. CASE reply.kind \in {"await", "nonce"} /\ agreed = Nothing /\ v2.sent = "auth2" /\ stored # Nothing /\ Sign(reply)
  <2>1. /\ agreed' = reply.key /\ UNCHANGED <<stored, thrown>>
        /\ Send(Request("proof2", NoCode, stored, <<mine, agreed'>>))
        /\ v2' = [v2 EXCEPT !.sent = "proof2"]
    BY <1>8 DEF Sign
  <2>2. v2'.sent = "proof2" /\ ~v2'.awaiting /\ v2'.pending = v2.pending
    BY <1>8, <2>1 DEF AuthTypes, MatchInv, SentInv
  <2>3. /\ agreed' \in Int /\ AnswersInOrder'
        /\ ~crossed' => /\ ~mixed' /\ mine = requests /\ agreed' = mine /\ Asked = {}
                        /\ handshake \in {Nothing, requests} /\ Replied
    BY <1>8, <2>1, KeyHeard
  <2>4. GrantInv'
    BY <1>4, <1>5, <1>8, <2>1
  <2>5. ~hurried' /\ v2'.pending # NoCode => stored = Nothing
    BY <1>1, <2>2 DEF WasteInv, TokenInv
  <2>6. UncrossedInv' /\ TokenInv' /\ GoneInv' /\ KeepInv'
    BY <1>1, <1>2, <1>8, <2>1, <2>2, <2>3, <2>5, BoundWaste, NumbersOfAuth
  <2>7. QED
    BY <1>1, <2>1, <2>4, <2>6 DEF WasteInv, CodeIsHeard, TokenIsKept
<1>9. CASE reply.kind = "granted" /\ <<reply.key, reply.key>> = <<mine, agreed>> /\ Open(reply.token, NoCode)
  <2>1. /\ stored' = reply.token /\ v2' = [NewV2 EXCEPT !.pending = NoCode]
        /\ UNCHANGED <<events, requests, thrown>>
    BY <1>9 DEF Open
  <2>2. v2'.sent = "none" /\ ~v2'.awaiting /\ v2'.pending = NoCode
    BY <2>1 DEF NewV2
  <2>3. reply = packet.of /\ Granted(packet) /\ stored < stored' /\ stored' \in Int
    <3>1. mine # Garbled
      BY DEF MatchInv, NumberInv, Garbled
    <3>2. reply = packet.of
      BY <1>9, <3>1
    <3>3. QED
      BY <1>1, <1>9, <2>1, <3>2, Members DEF MatchInv, GrantedInv, Granted
  <2>4. GrantInv'
    <3>1. \A t \in paired : t <= stored' => stored' \in paired
      BY <1>1, <2>1, <2>3 DEF WasteInv, GrantInv
    <3>2. \A t \in paired : t \in Nat
      BY DEF WasteInv, GrantInv
    <3>3. \A t \in paired : t <= stored => t <= stored'
      BY <1>2, <2>3, <3>2
    <3>4. packet.of.token <= stored'
      BY <2>1, <2>3
    <3>5. QED
      BY <1>1, <2>1, <3>1, <3>3, <3>4, GrantHeard DEF WasteInv
  <2>5. QED
    BY <2>1, <2>2, <2>4, HeardRest
<1>10. CASE v2.sent = "proof2" /\ Open(stored, v2.pending)
  <2>1. /\ stored' = stored /\ v2' = [NewV2 EXCEPT !.pending = v2.pending]
        /\ UNCHANGED <<events, requests, thrown>>
    BY <1>10 DEF Open
  <2>2. v2'.sent = "none" /\ ~v2'.awaiting /\ v2'.pending = v2.pending
    BY <2>1 DEF NewV2
  <2>3. GrantInv'
    BY <1>4, <1>5, <1>10, <2>1
  <2>4. QED
    BY <2>1, <2>2, <2>3, HeardRest
<1>11. CASE /\ StopV2
            /\ ~(reply.kind = "granted" /\ v2.sent = "code2" /\ <<reply.key, reply.key>> = <<mine, agreed>>)
            /\ ~(reply.kind \in {"granted", "authorized"} /\ v2.sent = "proof2" /\ stored # Nothing)
            /\ ~(reply.kind \in {"await", "nonce"} /\ agreed = Nothing /\ v2.sent = "auth2" /\ stored # Nothing)
  <2>1. /\ v2' = NewV2 /\ stored' = Nothing /\ thrown' = thrown \union ({stored} \cap paired)
        /\ UNCHANGED <<events, requests>>
    BY <1>11 DEF StopV2
  <2>2. v2'.sent = "none" /\ ~v2'.awaiting /\ v2'.pending = NoCode
    BY <2>1 DEF NewV2
  <2>3. ~crossed' /\ ~hurried /\ ~swept => thrown' = thrown
    BY <1>11, <2>1, StopWaste
  <2>4. GrantInv'
    <3>1. \A t \in paired : t \in Nat \ {0} /\ (t <= stored => stored \in paired)
      BY DEF WasteInv, GrantInv
    <3>2. \A t \in paired : t <= stored' => stored' \in paired
      BY <2>1, <3>1 DEF Nothing
    <3>3. \A t \in paired, u \in thrown \union {stored} : t <= u => \E w \in thrown' \union {stored'} : t <= w
      BY <2>1, <3>1
    <3>4. ~crossed' => packet.of.token \notin paired
      BY <1>4, <1>11
    <3>5. QED
      BY <1>1, <3>2, <3>3, <3>4, GrantHeard DEF WasteInv
  <2>5. QED
    BY <2>1, <2>2, <2>3, <2>4, HeardRest
<1>12. QED
  BY <1>6, <1>7, <1>8, <1>9, <1>10, <1>11, Ways

LEMMA HearWaste ==
  ASSUME AuthTypes, OrderInv, MatchInv, WasteInv, Hear
  PROVE  WasteInv'
<1>1. PICK packet, reply : Heard(packet, reply)
  BY HeardIs
<1>2. CASE /\ UNCHANGED <<events, v2, agreed, channel, stored, requests, mixed, crossed, thrown>>
           /\ (dropped => dropped') /\ (~dropped' => ~Last(packet))
  BY <1>1, <1>2, HeardQuiet
<1>3. CASE /\ v2.sent # "none" /\ Advance(reply)
           /\ \A r \in InFlight' : packet.of.re < r.of.re
           /\ (mixed => mixed') /\ (crossed => crossed') /\ dropped' = dropped
           /\ ~crossed' => ~mixed' /\ reply.re = requests
           /\ reply = packet.of \/ (mixed' /\ (reply.kind = "junk" \/ reply.key = Garbled))
  BY <1>1, <1>3, AdvanceWaste
<1>4. QED
  BY <1>1, <1>2, <1>3 DEF Heard

LEMMA StartWaste ==
  ASSUME AuthTypes, OrderInv, WasteInv, Start
  PROVE  WasteInv'
<1>1. /\ Begin(v2.pending)
      /\ UNCHANGED <<posts, down, stored, handshake, nonce, paired>>
      /\ UNCHANGED <<crossed, mixed, dropped, swept, misheard, thrown, hurried>>
  BY DEF Start, macVars, ghostVars
<1>2. v2.pending \in Int
  BY DEF AuthTypes
<1>3. ~hurried' /\ v2.pending # NoCode => stored = Nothing
  BY <1>1 DEF WasteInv, TokenInv
<1>4. QED
  BY <1>1, <1>2, <1>3, BeginWaste

LEMMA SubmitWaste ==
  ASSUME AuthTypes, OrderInv, MatchInv, WasteInv, Submit
  PROVE  WasteInv'
<1>1. /\ UNCHANGED <<posts, down, stored, handshake, nonce, paired, subscribed>>
      /\ UNCHANGED <<crossed, mixed, dropped, swept, misheard, thrown>>
  BY DEF Submit, macVars
<1>2. (hurried => hurried') /\ (~hurried' => stored = Nothing)
  BY DEF Submit
<1>3. PICK code \in {window.code, WrongCode} :
        IF v2.awaiting THEN SendCode(code, agreed) /\ UNCHANGED <<mine, agreed, channel>>
                       ELSE Begin(code)
  BY DEF Submit
<1>4. code \in Int
  BY <1>3, NumbersOfAuth DEF AuthTypes
<1>5. CASE ~v2.awaiting
  BY <1>1, <1>2, <1>3, <1>4, <1>5, BeginWaste
<1>6. CASE v2.awaiting
  <2>1. /\ Send(Request("code2", code, Nothing, <<mine, agreed'>>)) /\ UNCHANGED <<mine, agreed, channel>>
        /\ v2' = [sent |-> "code2", awaiting |-> FALSE, pending |-> NoCode]
    BY <1>3, <1>6 DEF SendCode
  <2>2. v2'.sent = "code2" /\ ~v2'.awaiting /\ v2.sent = "hello2" /\ agreed' \in Int
    BY <1>6, <2>1 DEF MatchInv, SentInv, AuthTypes
  <2>3. InFlight' = InFlight /\ AnswersInOrder'
    BY <1>1 DEF InFlight, AnswersInOrder, OrderInv
  <2>4. ~crossed' => /\ ~mixed' /\ mine = requests /\ agreed' = mine /\ Asked = {}
                     /\ handshake \in {Nothing, requests}
    BY <1>1, <1>6, <2>1, <2>2 DEF WasteInv, UncrossedInv, MatchInv, SentInv
  <2>5. UncrossedInv' /\ TokenInv' /\ GoneInv' /\ KeepInv'
    BY <1>1, <1>2, <1>4, <2>1, <2>2, <2>3, <2>4, BoundWaste, NumbersOfAuth
  <2>6. GrantInv'
    BY <1>1, <2>3 DEF WasteInv, GrantInv
  <2>7. CodeIsHeard' /\ TokenIsKept'
    BY <1>1, <1>2 DEF WasteInv, CodeIsHeard, TokenIsKept
  <2>8. QED
    BY <2>5, <2>6, <2>7 DEF WasteInv
<1>7. QED
  BY <1>5, <1>6

LEMMA WasteStart == BleAuthInit => WasteInv
<1> SUFFICES ASSUME BleAuthInit PROVE WasteInv
  OBVIOUS
<1>1. Asked = {} /\ InFlight = {} /\ Coded = {}
  BY EmptyQueue DEF BleAuthInit, Asked, InFlight, Coded
<1>2. v2.sent = "none" /\ ~v2.awaiting /\ v2.pending = NoCode
  BY DEF BleAuthInit, NewV2
<1>3. UncrossedInv /\ TokenInv /\ GoneInv /\ KeepInv
  BY <1>1, <1>2 DEF BleAuthInit, UncrossedInv, TokenInv, GoneInv, KeepInv
<1>4. GrantInv
  <2>1. requests \in {0, 1} /\ paired = 1 .. requests /\ stored = requests
    BY DEF BleAuthInit
  <2>2. QED
    BY <1>1, <2>1 DEF GrantInv
<1>5. CodeIsHeard /\ TokenIsKept
  BY DEF BleAuthInit, CodeIsHeard, TokenIsKept
<1>6. QED
  BY <1>3, <1>4, <1>5 DEF WasteInv

LEMMA WasteStep ==
  AuthTypes /\ OrderInv /\ MatchInv /\ WasteInv /\ [BleAuthNext]_authVars => WasteInv'
<1> SUFFICES ASSUME AuthTypes, OrderInv, MatchInv, WasteInv, [BleAuthNext]_authVars PROVE WasteInv'
  OBVIOUS
<1>1. CASE UNCHANGED authVars
  <2>1. /\ UNCHANGED <<events, posts, down, subscribed, requests, v2, mine, agreed, stored, paired, nonce, handshake>>
        /\ UNCHANGED <<crossed, mixed, hurried, dropped, swept, misheard, thrown>>
    BY <1>1 DEF authVars, macVars, linkVars, switchVars, deviceVars, boundVars, ghostVars
  <2>2. Asked' = Asked /\ InFlight' = InFlight /\ Coming' = Coming
    BY <2>1 DEF Asked, InFlight, Coming
  <2>3. UncrossedInv' /\ TokenInv' /\ GoneInv'
    BY <2>1, <2>2 DEF WasteInv, UncrossedInv, TokenInv, GoneInv, Coded
  <2>4. KeepInv'
    BY <2>1, <2>2 DEF WasteInv, KeepInv, Fresh, Replied
  <2>5. GrantInv'
    BY <2>1, <2>2 DEF WasteInv, GrantInv
  <2>6. CodeIsHeard' /\ TokenIsKept'
    BY <2>1 DEF WasteInv, CodeIsHeard, TokenIsKept
  <2>7. QED
    BY <2>3, <2>4, <2>5, <2>6 DEF WasteInv
<1>2. QED
  BY <1>1, QuietWaste, MainWaste, ResetWaste, MacWaste, StartWaste, SubmitWaste, HearWaste DEF BleAuthNext

\* An answer that is in flight is under way.
LEMMA FlightIsUnderWay ==
  ASSUME AuthTypes, NEW o \in InFlight
  PROVE  UnderWay(o.of.token)
<1>1. PICK queue \in {posts, down} : o \in PacketsOf(queue)
  BY DEF InFlight
<1>2. PICK i \in 1 .. Len(queue) : o = queue[i]
  BY <1>1 DEF PacketsOf, Elements
<1>3. i \in DOMAIN queue
  BY <1>1, <1>2 DEF AuthTypes
<1>4. o.kind = "packet"
  BY <1>1 DEF PacketsOf, Packet
<1>5. QED
  BY <1>2, <1>3, <1>4 DEF UnderWay

\* For any number of requests, windows, codes and links lost: the right code is not
\* counted as a wrong one (pairing.rs:736-739), the device keeps the token by which the
\* Mac knows it (BLEClient.swift:777-780), and a token that was granted reaches it
\* (BLEClient.swift:751-760), unless something happened that each of the three names.
THEOREM PairingIsNotWasted == BleAuthSpec => []NothingIsWasted
<1>1. ASSUME AuthTypes, WasteInv PROVE NothingIsWasted
  <2>1. ASSUME NEW t \in paired, ~dropped, ~crossed
        PROVE  (\E u \in thrown \union {stored} : t <= u) \/ UnderWay(t)
    <3>1. (\E u \in thrown \union {stored} : t <= u) \/ (\E o \in InFlight : o.of.token = t)
      BY <1>1, <2>1 DEF WasteInv, GrantInv
    <3>2. QED
      BY <1>1, <3>1, FlightIsUnderWay
  <2>2. QED
    BY <1>1, <2>1 DEF NothingIsWasted, GrantArrives, WasteInv
<1>2. QED
  BY <1>1, DeviceStart, DeviceStep, MatchStart, MatchStep, WasteStart, WasteStep, PTL DEF BleAuthSpec
===============================================================================
