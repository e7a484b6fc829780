------------------------------- MODULE LanProofs --------------------------------
(***************************************************************************)
(* Of the LAN transport, for any number of connections and listeners and   *)
(* any size of the queues: the handle the bridge keeps is that of the      *)
(* listener last switched on, an authorization outlives its link only      *)
(* through an unpair, and the server knows of every authorization or will. *)
(*                                                                         *)
(* What the event loop does is right only because of what the queue may    *)
(* hold: a notice in it says of its listener or connection what was true   *)
(* when it was sent and has not been undone since (HandleInv, LinkInv).    *)
(* That nothing is lost when a message is not sent, for want of a handle,  *)
(* is because every listener without a handle is being stopped.            *)
(***************************************************************************)
EXTENDS Lan, FiniteSetTheorems, SequenceTheorems, TLAPS

ListenerState == {"none", "waiting", "failing", "bound", "serving", "done"}
Phase == {"unborn", "http", "upgrading", "announcing", "open", "leaving", "gone"}
HoldsSlot == {"upgrading", "announcing", "open", "leaving"}
LoopState == [at : {"idle"}]
             \union [at : {"ending", "auth", "reply", "reply_authorized", "mark", "save"}, id : Conn]

\* TypeOK without its bounds on listeners and slots, and what a record or a function is.
ServerTypes ==
  /\ events \in Seq(Event) /\ Len(events) <= EventQueue
  /\ listener \in [Gen -> ListenerState]
  /\ stopped \subseteq Gen
  /\ outbound \in [Gen -> Seq(Message)]
  /\ phase \in [Conn -> Phase]
  /\ home \in [Conn -> Gen]
  /\ sinks \subseteq {c \in Conn : phase[c] \in {"announcing", "open"}}
  /\ queue \in [Conn -> Seq({"data", "close"})] /\ \A c \in Conn : Len(queue[c]) <= SinkQueue
  /\ writer \in [Conn -> {"running", "closed", "ended"}]
  /\ flag \in [Conn -> BOOLEAN] /\ lifted \in [Conn -> BOOLEAN]

BridgeTypes ==
  /\ enabled \in BOOLEAN /\ advertising \in BOOLEAN /\ lastError \in BOOLEAN
  /\ centrals \subseteq Conn /\ authorized \subseteq Conn
  /\ generation \in 0 .. MaxGen /\ server \in {NoServer, generation}
  /\ loop \in LoopState
  /\ served \subseteq SUBSET Conn /\ revoked \subseteq SUBSET Conn /\ dropped \subseteq Conn

LanTypes == ServerTypes /\ BridgeTypes

\* The connections there have been, a finite number at any time.
Born == {c \in Conn : phase[c] # "unborn"}

CountInv ==
  /\ IsFiniteSet(Born)
  /\ \A g, h \in Gen : Bound(g) /\ Bound(h) => g = h
  /\ \A g \in Gen : Held(g, HoldsSlot) <= MaxSlots

\* The handle, the listeners and what the queue says of them.
HandleInv ==
  /\ \A g \in Gen : listener[g] = "none" <=> g > generation
  /\ \A g \in Gen : g <= generation /\ g # server => g \in stopped
  /\ \A g \in stopped : g <= generation
  /\ server # NoServer => enabled /\ server \notin stopped
  /\ enabled => generation # 0
  /\ enabled /\ server = NoServer => listener[generation] = "done" /\ lastError
  /\ advertising => server # NoServer /\ listener[server] = "serving"
  /\ \A g \in Gen : BindFailed(g) \in Range(events) => listener[g] = "done"
  /\ \A g \in Gen : Listening(g) \in Range(events) => listener[g] = "serving" \/ g \in stopped

\* Only what was announced is served or authorized.
LinkInv ==
  /\ \A c \in centrals \union authorized : phase[c] \in {"open", "leaving", "gone"}
  /\ \A c \in Conn : Connected(c) \in Range(events) => phase[c] \in {"open", "leaving", "gone"}
  /\ \A c \in Conn : phase[c] # "unborn" => home[c] <= generation

LanInv ==
  LanTypes /\ CountInv /\ HandleInv /\ LinkInv /\ GhostOnlyFromUnpair /\ AuthorizedIsMarked

-------------------------------------------------------------------------------
(* Sequences *)

LEMMA RangeAppend ==
  ASSUME NEW S, NEW q \in Seq(S), NEW e \in S
  PROVE  /\ Append(q, e) \in Seq(S) /\ Len(Append(q, e)) = Len(q) + 1
         /\ Range(Append(q, e)) = Range(q) \union {e}
<1>1. Append(q, e) \in Seq(S) /\ Len(Append(q, e)) = Len(q) + 1
  BY AppendProperties
<1>2. Append(q, e) = q \o <<e>> /\ <<e>> \in Seq(S)
  BY AppendIsConcat
<1>3. Range(<<e>>) = {e}
  <2>1. Range(<<e>>) = {<<e>>[i] : i \in 1 .. Len(<<e>>)}
    BY <1>2, RangeEquality
  <2>2. Len(<<e>>) = 1 /\ <<e>>[1] = e
    OBVIOUS
  <2>3. QED
    BY <2>1, <2>2
<1>4. Range(q \o <<e>>) = Range(q) \union Range(<<e>>)
  BY <1>2, RangeConcatenation
<1>5. QED
  BY <1>1, <1>2, <1>3, <1>4

LEMMA RangeTail ==
  ASSUME NEW S, NEW q \in Seq(S), q # <<>>
  PROVE  /\ Head(q) \in S /\ Tail(q) \in Seq(S) /\ Len(Tail(q)) = Len(q) - 1
         /\ Range(q) = {Head(q)} \union Range(Tail(q))
<1>1. Head(q) \in S /\ Tail(q) \in Seq(S) /\ Len(Tail(q)) = Len(q) - 1
  BY HeadTailProperties
<1>2. PICK n \in Nat : Len(q) = n + 1
  <2>1. Len(q) \in Nat \ {0}
    BY EmptySeq
  <2>2. Len(q) - 1 \in Nat /\ Len(q) = (Len(q) - 1) + 1
    BY <2>1
  <2>3. QED
    BY <2>2
<1>3. Range(q) = {q[i] : i \in 1 .. n + 1} /\ Range(Tail(q)) = {Tail(q)[i] : i \in 1 .. n}
  <2>1. Range(q) = {q[i] : i \in 1 .. Len(q)} /\ Range(Tail(q)) = {Tail(q)[i] : i \in 1 .. Len(Tail(q))}
    BY <1>1, RangeEquality
  <2>2. Len(Tail(q)) = n
    BY <1>1, <1>2
  <2>3. QED
    BY <1>2, <2>1, <2>2
<1>4. Head(q) = q[1] /\ \A i \in 1 .. n : Tail(q)[i] = q[i + 1]
  BY <1>1, <1>2, HeadTailProperties
<1>5. ASSUME NEW i \in 1 .. n + 1, i # 1 PROVE q[i] \in Range(Tail(q))
  <2>1. i - 1 \in 1 .. n /\ (i - 1) + 1 = i
    BY <1>5
  <2>2. Tail(q)[i - 1] = q[i]
    BY <1>4, <2>1
  <2>3. QED
    BY <1>3, <2>1, <2>2
<1>6. ASSUME NEW i \in 1 .. n PROVE Tail(q)[i] \in Range(q)
  <2>1. i + 1 \in 1 .. n + 1
    BY <1>6
  <2>2. QED
    BY <1>3, <1>4, <1>6, <2>1
<1>7. Head(q) \in Range(q)
  BY <1>3, <1>4
<1>8. \A x \in Range(q) : x = Head(q) \/ x \in Range(Tail(q))
  BY <1>3, <1>4, <1>5
<1>9. \A x \in Range(Tail(q)) : x \in Range(q)
  BY <1>3, <1>6
<1>10. QED
  BY <1>1, <1>7, <1>8, <1>9

LEMMA SetToSeqType ==
  ASSUME NEW S, IsFiniteSet(S)
  PROVE  SetToSeq(S) \in Seq(S)
<1> DEFINE n == Cardinality(S)
<1>1. n \in Nat /\ ExistsBijection(1 .. n, S)
  BY FS_CardinalityType
<1>2. PICK f \in Bijection(1 .. n, S) : TRUE
  BY <1>1 DEF ExistsBijection
<1>3. f \in [1 .. n -> S] /\ IsInjective(f)
  BY DEF Bijection, Injection
<1>4. SetToSeq(S) \in [1 .. n -> S] /\ IsInjective(SetToSeq(S))
  BY <1>3 DEF SetToSeq
<1>5. SetToSeq(S) \in Seq(S)
  BY <1>1, <1>4, SeqDef
<1>6. QED
  BY <1>5

LEMMA ToAllType ==
  ASSUME NEW cs \in SUBSET Conn, IsFiniteSet(cs), NEW kind \in {"data", "close", "authorized"}
  PROVE  ToAll(cs, kind) \in Seq(Message)
<1> DEFINE S == {[to |-> c, kind |-> kind] : c \in cs}
           f == [c \in cs |-> [to |-> c, kind |-> kind]]
<1>1. S \in SUBSET Message
  BY DEF Message
<1>2. f \in Surjection(cs, S)
  BY DEF Surjection
<1>3. IsFiniteSet(S)
  BY <1>2, FS_Surjection
<1>4. SetToSeq(S) \in Seq(S)
  BY <1>3, SetToSeqType
<1>5. QED
  BY <1>1, <1>4, SeqMonotonic DEF ToAll

-------------------------------------------------------------------------------
(* Events and messages *)

OfConn(c) == {Connected(c), Disconnected(c), Frame(c)}
OfListener(g) == {Listening(g), BindFailed(g), AdvertiseFailed(g)}

LEMMA EventSets ==
  ASSUME NEW e
  PROVE  e \in Event <=> (\E c \in Conn : e \in OfConn(c)) \/ (\E g \in Gen : e \in OfListener(g))
<1> DEFINE ofConns == UNION {OfConn(c) : c \in Conn}
           ofListeners == UNION {OfListener(g) : g \in Gen}
<1>1. Event = ofConns \union ofListeners
  <2>1. ofConns = UNION {{Connected(c), Disconnected(c), Frame(c)} : c \in Conn}
    BY DEF OfConn
  <2>2. ofListeners = UNION {{Listening(g), BindFailed(g), AdvertiseFailed(g)} : g \in Gen}
    BY DEF OfListener
  <2> HIDE DEF ofConns, ofListeners
  <2>3. QED
    BY <2>1, <2>2 DEF Event
<1>2. e \in ofConns <=> \E c \in Conn : e \in OfConn(c)
  OBVIOUS
<1>3. e \in ofListeners <=> \E g \in Gen : e \in OfListener(g)
  OBVIOUS
<1> HIDE DEF ofConns, ofListeners
<1>4. QED
  BY <1>1, <1>2, <1>3

LEMMA EventOf ==
  /\ \A c \in Conn : Connected(c) \in Event /\ Disconnected(c) \in Event /\ Frame(c) \in Event
  /\ \A g \in Gen : Listening(g) \in Event /\ BindFailed(g) \in Event /\ AdvertiseFailed(g) \in Event
  BY EventSets DEF OfConn, OfListener

LEMMA EventIs ==
  ASSUME NEW e \in Event
  PROVE  \/ \E c \in Conn : e = Connected(c) \/ e = Disconnected(c) \/ e = Frame(c)
         \/ \E g \in Gen : e = Listening(g) \/ e = BindFailed(g) \/ e = AdvertiseFailed(g)
  BY EventSets DEF OfConn, OfListener

LEMMA EventFields ==
  /\ \A c : /\ Connected(c).type = "connected" /\ Connected(c).id = c
            /\ Disconnected(c).type = "disconnected" /\ Disconnected(c).id = c
            /\ Frame(c).type = "frame" /\ Frame(c).id = c
  /\ \A g : /\ Listening(g).type = "listening" /\ Listening(g).gen = g
            /\ BindFailed(g).type = "bind_failed" /\ BindFailed(g).gen = g
            /\ AdvertiseFailed(g).type = "advertise_failed" /\ AdvertiseFailed(g).gen = g
  BY DEF Connected, Disconnected, Frame, Listening, BindFailed, AdvertiseFailed

\* Which event it is, by its type.
LEMMA EventByType ==
  ASSUME NEW e \in Event
  PROVE  /\ e.type \in {"connected", "disconnected", "frame"} => e.id \in Conn
         /\ e.type \in {"listening", "bind_failed", "advertise_failed"} => e.gen \in Gen
         /\ e.type = "connected" => e = Connected(e.id)
         /\ e.type = "listening" => e = Listening(e.gen)
         /\ e.type = "bind_failed" => e = BindFailed(e.gen)
  BY EventIs, EventFields

LEMMA Raised ==
  ASSUME ServerTypes, NEW e \in Event, Raise(e)
  PROVE  /\ events' \in Seq(Event) /\ Len(events') <= EventQueue
         /\ Range(events') = Range(events) \union {e}
<1>1. Len(events) \in Nat /\ Len(events) < EventQueue /\ events' = Append(events, e)
  BY LenProperties DEF ServerTypes, Raise, Room
<1>2. /\ events' \in Seq(Event) /\ Len(events') = Len(events) + 1
      /\ Range(events') = Range(events) \union {e}
  BY <1>1, RangeAppend DEF ServerTypes
<1>3. QED
  BY <1>1, <1>2, LanAssumption

LEMMA Taken ==
  ASSUME ServerTypes, NEW type, Take(type)
  PROVE  /\ events' \in Seq(Event) /\ Len(events') <= EventQueue
         /\ Head(events) \in Event /\ Head(events).type = type
         /\ Range(events) = Range(events') \union {Head(events)}
         /\ loop.at = "idle"
<1>1. events # <<>> /\ events' = Tail(events) /\ Head(events).type = type /\ loop.at = "idle"
  BY DEF Take
<1>2. /\ Head(events) \in Event /\ events' \in Seq(Event) /\ Len(events') = Len(events) - 1
      /\ Range(events) = Range(events') \union {Head(events)}
  BY <1>1, RangeTail DEF ServerTypes
<1>3. Len(events) \in Nat /\ Len(events) <= EventQueue
  BY LenProperties DEF ServerTypes
<1>4. QED
  BY <1>1, <1>2, <1>3, LanAssumption

\* What is sent joins what the pump of the current listener has to do.
LEMMA Sent ==
  ASSUME LanTypes, NEW ms \in Seq(Message), Send(ms)
  PROVE  /\ outbound' \in [Gen -> Seq(Message)]
         /\ \A g \in Gen : Range(outbound[g]) \subseteq Range(outbound'[g])
         /\ server # NoServer => server \in Gen /\ Range(ms) \subseteq Range(outbound'[server])
<1>1. CASE server = NoServer
  BY <1>1 DEF Send, LanTypes, ServerTypes
<1>2. CASE server # NoServer
  <2>1. server \in Gen
    BY <1>2, LanAssumption DEF LanTypes, BridgeTypes, NoServer, Gen
  <2>2. outbound[server] \in Seq(Message)
    BY <2>1 DEF LanTypes, ServerTypes
  <2>3. /\ outbound[server] \o ms \in Seq(Message)
        /\ Range(outbound[server] \o ms) = Range(outbound[server]) \union Range(ms)
    BY <2>2, RangeConcatenation, ConcatProperties
  <2>4. outbound' = [outbound EXCEPT ![server] = outbound[server] \o ms]
    BY <1>2 DEF Send
  <2>5. outbound'[server] = outbound[server] \o ms
    BY <2>1, <2>4 DEF LanTypes, ServerTypes
  <2>6. \A g \in Gen : g # server => outbound'[g] = outbound[g]
    BY <2>4 DEF LanTypes, ServerTypes
  <2>7. outbound' \in [Gen -> Seq(Message)]
    BY <2>3, <2>4 DEF LanTypes, ServerTypes
  <2>8. QED
    BY <2>1, <2>3, <2>5, <2>6, <2>7
<1>3. QED
  BY <1>1, <1>2

LEMMA OneMessage ==
  ASSUME NEW m \in Message PROVE <<m>> \in Seq(Message) /\ m \in Range(<<m>>)
<1>1. <<m>> \in Seq(Message) /\ Len(<<m>>) = 1 /\ <<m>>[1] = m
  OBVIOUS
<1>2. Range(<<m>>) = {<<m>>[i] : i \in 1 .. Len(<<m>>)}
  BY <1>1, RangeEquality
<1>3. QED
  BY <1>1, <1>2

-------------------------------------------------------------------------------
(* Types *)

LEMMA GenFacts == 1 \in Gen /\ \A g \in Gen : g \in Nat /\ g # 0 /\ g <= MaxGen
  BY LanAssumption DEF Gen

LEMMA LanStartTypes == Init => LanTypes
<1> SUFFICES ASSUME Init PROVE LanTypes
  OBVIOUS
<1> USE LanAssumption, GenFacts DEF Init, ServerInit
<1>1. /\ events \in Seq(Event) /\ Len(events) <= EventQueue
      /\ outbound \in [Gen -> Seq(Message)]
      /\ queue \in [Conn -> Seq({"data", "close"})] /\ \A c \in Conn : Len(queue[c]) <= SinkQueue
  OBVIOUS
<1>2. /\ listener \in [Gen -> ListenerState] /\ stopped \subseteq Gen
      /\ phase \in [Conn -> Phase] /\ home \in [Conn -> Gen]
  BY DEF ListenerState, Phase
<1>3. /\ sinks \subseteq {c \in Conn : phase[c] \in {"announcing", "open"}}
      /\ writer \in [Conn -> {"running", "closed", "ended"}]
      /\ flag \in [Conn -> BOOLEAN] /\ lifted \in [Conn -> BOOLEAN]
  OBVIOUS
<1>4. loop \in LoopState
  BY DEF LoopState
<1>5. BridgeTypes
  <2>1. generation = 0 /\ server = 0 /\ 0 \in 0 .. MaxGen
    BY DEF NoServer
  <2>2. /\ enabled \in BOOLEAN /\ advertising \in BOOLEAN /\ lastError \in BOOLEAN
        /\ centrals = {} /\ authorized = {} /\ served = {} /\ revoked = {} /\ dropped = {}
    OBVIOUS
  <2>3. QED
    BY <1>4, <2>1, <2>2 DEF BridgeTypes, NoServer
<1>6. QED
  BY <1>1, <1>2, <1>3, <1>5 DEF LanTypes, ServerTypes

LEMMA ListenerTypes ==
  ASSUME ServerTypes, NEW g \in Gen,
         Bind(g) \/ ReportBindFailed(g) \/ ReportListening(g) \/ StopServing(g) \/ DaemonFails(g)
  PROVE  ServerTypes'
<1>1. /\ listener' \in [Gen -> ListenerState] /\ outbound' \in [Gen -> Seq(Message)]
      /\ UNCHANGED <<stopped, conns>>
  <2>1. CASE Bind(g) \/ ReportBindFailed(g) \/ ReportListening(g)
    <3>1. \E to \in ListenerState : listener' = [listener EXCEPT ![g] = to]
      BY <2>1 DEF Bind, ReportBindFailed, ReportListening, ListenerAt, ListenerState
    <3>2. UNCHANGED <<outbound, stopped, conns>>
      BY <2>1 DEF Bind, ReportBindFailed, ReportListening
    <3>3. QED
      BY <3>1, <3>2 DEF ServerTypes
  <2>2. CASE StopServing(g)
    <3>1. listener' = [listener EXCEPT ![g] = "done"] /\ outbound' = [outbound EXCEPT ![g] = <<>>]
      BY <2>2 DEF StopServing, ListenerAt
    <3>2. <<>> \in Seq(Message) /\ UNCHANGED <<stopped, conns>>
      BY <2>2 DEF StopServing
    <3>3. QED
      BY <3>1, <3>2 DEF ServerTypes, ListenerState
  <2>3. CASE DaemonFails(g)
    BY <2>3 DEF DaemonFails, listeners, ServerTypes
  <2>4. QED
    BY <2>1, <2>2, <2>3
<1>2. events' \in Seq(Event) /\ Len(events') <= EventQueue
  <2>1. CASE UNCHANGED events
    BY <2>1 DEF ServerTypes
  <2>2. ASSUME NEW e \in Event, Raise(e) PROVE events' \in Seq(Event) /\ Len(events') <= EventQueue
    BY <2>2, Raised
  <2>3. QED
    BY <2>1, <2>2, EventOf DEF Bind, ReportBindFailed, ReportListening, StopServing, DaemonFails
<1>3. QED
  BY <1>1, <1>2 DEF ServerTypes, conns, sending

\* Where there is room a queue may grow, and it may always shrink.
LEMMA QueueTypes ==
  ASSUME ServerTypes, NEW c \in Conn
  PROVE  /\ \A kind \in {"data", "close"} :
              Len(queue[c]) < SinkQueue =>
                /\ [queue EXCEPT ![c] = Append(@, kind)] \in [Conn -> Seq({"data", "close"})]
                /\ \A d \in Conn : Len([queue EXCEPT ![c] = Append(@, kind)][d]) <= SinkQueue
         /\ queue[c] # <<>> =>
                /\ [queue EXCEPT ![c] = Tail(@)] \in [Conn -> Seq({"data", "close"})]
                /\ \A d \in Conn : Len([queue EXCEPT ![c] = Tail(@)][d]) <= SinkQueue
         /\ /\ [queue EXCEPT ![c] = <<>>] \in [Conn -> Seq({"data", "close"})]
            /\ \A d \in Conn : Len([queue EXCEPT ![c] = <<>>][d]) <= SinkQueue
<1> DEFINE Q == Seq({"data", "close"})
<1>1. queue \in [Conn -> Q] /\ queue[c] \in Q /\ Len(queue[c]) \in Nat /\ Len(queue[c]) <= SinkQueue
  BY LenProperties DEF ServerTypes
<1>2. ASSUME NEW q \in Q, Len(q) <= SinkQueue
      PROVE  /\ [queue EXCEPT ![c] = q] \in [Conn -> Q]
             /\ \A d \in Conn : Len([queue EXCEPT ![c] = q][d]) <= SinkQueue
  <2> HIDE DEF Q
  <2>1. \A d \in Conn : [queue EXCEPT ![c] = q][d] = IF d = c THEN q ELSE queue[d]
    BY <1>1
  <2>2. QED
    BY <1>1, <1>2, <2>1 DEF ServerTypes
<1>3. ASSUME NEW kind \in {"data", "close"}, Len(queue[c]) < SinkQueue
      PROVE  Append(queue[c], kind) \in Q /\ Len(Append(queue[c], kind)) <= SinkQueue
  BY <1>1, <1>3, AppendProperties, LanAssumption
<1>4. ASSUME queue[c] # <<>> PROVE Tail(queue[c]) \in Q /\ Len(Tail(queue[c])) <= SinkQueue
  BY <1>1, <1>4, HeadTailProperties, LanAssumption
<1>5. <<>> \in Q /\ Len(<<>>) <= SinkQueue
  BY LanAssumption
<1>6. QED
  BY <1>2, <1>3, <1>4, <1>5

LEMMA PushTypes ==
  ASSUME ServerTypes, NEW c \in Conn, NEW kind \in {"data", "close"}, Push(c, kind)
  PROVE  /\ queue' \in [Conn -> Seq({"data", "close"})] /\ \A d \in Conn : Len(queue'[d]) <= SinkQueue
         /\ sinks' \subseteq sinks
<1>1. CASE UNCHANGED queue
  BY <1>1 DEF Push, ServerTypes
<1>2. CASE Len(queue[c]) < SinkQueue /\ queue' = [queue EXCEPT ![c] = Append(@, kind)]
  BY <1>2, QueueTypes DEF Push
<1>3. QED
  BY <1>1, <1>2 DEF Push

LEMMA PumpTypes ==
  ASSUME ServerTypes, NEW g \in Gen, Pump(g)
  PROVE  /\ ServerTypes'
         /\ Head(outbound[g]) \in Message
         /\ Range(outbound[g]) = Range(outbound'[g]) \union {Head(outbound[g])}
<1>1. outbound[g] \in Seq(Message) /\ outbound[g] # <<>> /\ outbound' = [outbound EXCEPT ![g] = Tail(@)]
  BY DEF ServerTypes, Pump
<1>2. /\ Head(outbound[g]) \in Message /\ Tail(outbound[g]) \in Seq(Message)
      /\ Range(outbound[g]) = Range(Tail(outbound[g])) \union {Head(outbound[g])}
  BY <1>1, RangeTail
<1>3. outbound' \in [Gen -> Seq(Message)] /\ outbound'[g] = Tail(outbound[g])
  BY <1>1, <1>2 DEF ServerTypes
<1>4. PICK m \in Message : m = Head(outbound[g])
  BY <1>2
<1>5. /\ m.to \in Conn
      /\ \/ m.kind \in {"data", "close"} /\ Push(m.to, m.kind) /\ UNCHANGED flag
         \/ flag' = [flag EXCEPT ![m.to] = @ \/ m.to \in sinks] /\ UNCHANGED <<sinks, queue>>
  BY <1>4 DEF Pump, Message
<1>6. /\ queue' \in [Conn -> Seq({"data", "close"})] /\ \A d \in Conn : Len(queue'[d]) <= SinkQueue
      /\ sinks' \subseteq sinks
  BY <1>5, PushTypes DEF ServerTypes
<1>7. flag' \in [Conn -> BOOLEAN]
  BY <1>5 DEF ServerTypes
<1>8. UNCHANGED <<events, listener, stopped, phase, home, writer, lifted>>
  BY DEF Pump
<1>9. QED
  BY <1>2, <1>3, <1>6, <1>7, <1>8 DEF ServerTypes

LEMMA LeaveTypes ==
  ASSUME ServerTypes, NEW c \in Conn, Leave(c), UNCHANGED <<listeners, stopped, home>>,
         events' \in Seq(Event) /\ Len(events') <= EventQueue
  PROVE  ServerTypes'
<1>1. queue' \in [Conn -> Seq({"data", "close"})] /\ \A d \in Conn : Len(queue'[d]) <= SinkQueue
  BY QueueTypes DEF Leave
<1>2. phase' \in [Conn -> Phase] /\ \A d \in Conn : d # c => phase'[d] = phase[d]
  BY DEF Leave, ConnAt, ServerTypes, Phase
<1>3. sinks' \subseteq {d \in Conn : phase'[d] \in {"announcing", "open"}}
  BY <1>2 DEF Leave, ServerTypes
<1>4. /\ writer' \in [Conn -> {"running", "closed", "ended"}]
      /\ flag' \in [Conn -> BOOLEAN] /\ lifted' \in [Conn -> BOOLEAN]
  BY DEF Leave, ServerTypes
<1>5. QED
  BY <1>1, <1>2, <1>3, <1>4 DEF ServerTypes, listeners

\* A connection that is on its way in or is told to the event loop.
LEMMA EntryTypes ==
  ASSUME ServerTypes, NEW c \in Conn,
         \/ \E g \in Gen : Accept(c, g)
         \/ Upgrade(c) \/ UpgradeFails(c) \/ Register(c) \/ Announce(c) \/ Report(c)
  PROVE  ServerTypes'
<1>1. events' \in Seq(Event) /\ Len(events') <= EventQueue
  <2>1. CASE UNCHANGED events
    BY <2>1 DEF ServerTypes
  <2>2. ASSUME NEW e \in Event, Raise(e) PROVE events' \in Seq(Event) /\ Len(events') <= EventQueue
    BY <2>2, Raised
  <2>3. QED
    BY <2>1, <2>2, EventOf DEF Accept, Upgrade, UpgradeFails, Register, Announce, Report
<1>2. PICK from, to \in Phase :
        /\ ConnAt(c, from, to)
        /\ from = "announcing" => to = "open"
        /\ from # "open"
  BY DEF Accept, Upgrade, UpgradeFails, Register, Announce, Report, Phase
<1>3. phase' \in [Conn -> Phase] /\ phase'[c] = to /\ \A d \in Conn : d # c => phase'[d] = phase[d]
  BY <1>2 DEF ConnAt, ServerTypes
<1>4. sinks' = sinks \/ (to = "announcing" /\ sinks' = sinks \union {c})
  BY <1>2 DEF Accept, Upgrade, UpgradeFails, Register, Announce, Report, ConnAt, ServerTypes, sending
<1>5. sinks' \subseteq {d \in Conn : phase'[d] \in {"announcing", "open"}}
  BY <1>2, <1>3, <1>4 DEF ConnAt, ServerTypes
<1>6. home' \in [Conn -> Gen] /\ UNCHANGED <<listeners, stopped, queue, writer, flag, lifted>>
  BY DEF Accept, Upgrade, UpgradeFails, Register, Announce, Report, ServerTypes, sending
<1>7. QED
  BY <1>1, <1>3, <1>5, <1>6 DEF ServerTypes, listeners

LEMMA HandleTypes ==
  ASSUME ServerTypes, NEW c \in Conn,
         \/ Text(c) \/ PeerEnds(c) \/ PingTick(c) \/ WriterSends(c) \/ WriterEnds(c) \/ WriterEnded(c)
         \/ Deadline(c) \/ Shutdown(c)
  PROVE  ServerTypes'
<1>1. CASE Text(c) /\ Raise(Frame(c)) /\ UNCHANGED <<phase, sending, lifted>>
  BY <1>1, Raised, EventOf DEF Text, ServerTypes, sending, listeners
<1>2. CASE Leave(c) /\ UNCHANGED <<events, listeners, stopped, home>>
  BY <1>2, LeaveTypes DEF ServerTypes
<1>3. CASE Push(c, "data") /\ UNCHANGED <<phase, writer, flag, lifted, events, listeners, stopped, home>>
  BY <1>3, PushTypes DEF ServerTypes, listeners
<1>4. CASE WriterSends(c)
  <2>1. queue' \in [Conn -> Seq({"data", "close"})] /\ \A d \in Conn : Len(queue'[d]) <= SinkQueue
    BY <1>4, QueueTypes DEF WriterSends
  <2>2. writer' \in [Conn -> {"running", "closed", "ended"}]
    BY <1>4 DEF WriterSends, ServerTypes
  <2>3. QED
    BY <1>4, <2>1, <2>2 DEF WriterSends, ServerTypes, listeners
<1>5. CASE WriterEnds(c)
  BY <1>5 DEF WriterEnds, ServerTypes, listeners
<1>6. CASE Deadline(c) /\ lifted' = [lifted EXCEPT ![c] = TRUE] /\ UNCHANGED <<phase, sending>>
  BY <1>6 DEF Deadline, ServerTypes, listeners, sending
<1>7. QED
  BY <1>1, <1>2, <1>3, <1>4, <1>5, <1>6 DEF Text, PeerEnds, PingTick, WriterEnded, Deadline, Shutdown

LEMMA ServerStepTypes ==
  ASSUME LanTypes, Server
  PROVE  LanTypes'
<1>1. BridgeTypes'
  BY DEF Server, LanTypes, BridgeTypes, bridge, commands
<1>2. ServerTypes'
  BY ListenerTypes, PumpTypes, EntryTypes, HandleTypes DEF Server, Tasks, Peers, LanTypes
<1>3. QED
  BY <1>1, <1>2 DEF LanTypes

\* What the loop may be at, by the shape of its record.
LEMMA LoopIs ==
  ASSUME NEW l \in LoopState
  PROVE  /\ l.at \in {"idle", "ending", "auth", "reply", "reply_authorized", "mark", "save"}
         /\ l.at # "idle" => l.id \in Conn
  BY DEF LoopState

LEMMA LoopEnds == [at |-> "idle"] \in LoopState /\ [at |-> "idle"].at = "idle"
  BY DEF LoopState

LEMMA LoopStarts ==
  ASSUME NEW c \in Conn, NEW to \in {"ending", "auth"}
  PROVE  /\ [at |-> to, id |-> c] \in LoopState
         /\ [at |-> to, id |-> c].at = to /\ [at |-> to, id |-> c].id = c
  BY DEF LoopState

LEMMA LoopGoesOn ==
  ASSUME NEW l \in LoopState, l.at # "idle", NEW to \in {"reply", "reply_authorized", "mark", "save"}
  PROVE  /\ [l EXCEPT !.at = to] \in LoopState
         /\ [l EXCEPT !.at = to].at = to /\ [l EXCEPT !.at = to].id = l.id
  BY DEF LoopState

LEMMA TakeTypes ==
  ASSUME LanTypes,
         \/ TakeConnected \/ TakeDisconnected \/ TakeListening \/ TakeAdvertiseFailed
         \/ TakeBindFailed \/ TakeFrame
  PROVE  LanTypes'
<1>1. PICK type : Take(type) /\ type \in {"connected", "disconnected", "listening", "advertise_failed",
                                          "bind_failed", "frame"}
  BY DEF TakeConnected, TakeDisconnected, TakeListening, TakeAdvertiseFailed, TakeBindFailed, TakeFrame
<1>2. /\ events' \in Seq(Event) /\ Len(events') <= EventQueue
      /\ Head(events) \in Event /\ Head(events).type = type /\ loop.at = "idle"
  BY <1>1, Taken DEF LanTypes
<1>3. UNCHANGED <<listener, outbound, conns, enabled, generation, authorized, commands>>
  BY <1>1 DEF Take
<1>4. server \in Gen \/ server = NoServer
  BY LanAssumption DEF LanTypes, BridgeTypes, NoServer, Gen
<1>5. stopped' \subseteq Gen
  <2>1. \A g \in Gen : g # NoServer
    BY GenFacts DEF NoServer
  <2>2. CASE TakeBindFailed /\ Current(Head(events).gen)
    <3>1. type = "bind_failed" /\ Head(events).gen \in Gen
      BY <1>2, <2>2, EventByType DEF TakeBindFailed, Take
    <3>2. server \in Gen
      BY <2>2, <3>1 DEF Current
    <3>3. QED
      BY <2>2, <3>1, <3>2 DEF TakeBindFailed, Current, LanTypes, ServerTypes
  <2>3. CASE UNCHANGED stopped
    BY <2>3 DEF LanTypes, ServerTypes
  <2>4. QED
    BY <2>2, <2>3 DEF TakeConnected, TakeDisconnected, TakeListening, TakeAdvertiseFailed, TakeBindFailed, TakeFrame
<1>6. ServerTypes'
  BY <1>2, <1>3, <1>5 DEF LanTypes, ServerTypes, conns, sending
<1>7. centrals' \subseteq Conn /\ loop' \in LoopState
  <2>1. CASE TakeConnected \/ TakeDisconnected \/ TakeFrame
    <3>1. Head(events).id \in Conn
      BY <1>2, <2>1, EventByType DEF TakeConnected, TakeDisconnected, TakeFrame, Take
    <3>2. centrals' \in {centrals, centrals \union {Head(events).id}, centrals \ {Head(events).id}}
      BY <2>1 DEF TakeConnected, TakeDisconnected, TakeFrame
    <3>3. loop' = loop \/ \E to \in {"ending", "auth"} : loop' = [at |-> to, id |-> Head(events).id]
      BY <2>1 DEF TakeConnected, TakeDisconnected, TakeFrame
    <3>4. centrals' \subseteq Conn
      BY <3>1, <3>2 DEF LanTypes, BridgeTypes
    <3>5. loop' \in LoopState
      BY <3>1, <3>3, LoopStarts DEF LanTypes, BridgeTypes
    <3>6. QED
      BY <3>4, <3>5
  <2>2. CASE TakeListening \/ TakeAdvertiseFailed \/ TakeBindFailed
    BY <2>2 DEF TakeListening, TakeAdvertiseFailed, TakeBindFailed, LanTypes, BridgeTypes
  <2>3. QED
    BY <2>1, <2>2
<1>8. /\ advertising' \in BOOLEAN /\ lastError' \in BOOLEAN /\ server' \in {NoServer, generation}
  BY DEF TakeConnected, TakeDisconnected, TakeListening, TakeAdvertiseFailed, TakeBindFailed, TakeFrame,
         LanTypes, BridgeTypes, Current
<1>9. BridgeTypes'
  BY <1>3, <1>7, <1>8 DEF LanTypes, BridgeTypes, commands
<1>10. QED
  BY <1>6, <1>9 DEF LanTypes

LEMMA AnswerTypes ==
  ASSUME LanTypes,
         EndSession \/ HandleAuth \/ IgnoreFrame \/ SendAuthReply \/ MarkAuthorized \/ SaveGrant
  PROVE  LanTypes'
<1>1. loop.at # "idle" /\ loop.id \in Conn /\ loop' \in LoopState
  <2>1. loop.at # "idle"
    BY DEF EndSession, HandleAuth, IgnoreFrame, SendAuthReply, MarkAuthorized, SaveGrant
  <2>2. \/ loop' = [at |-> "idle"]
        \/ \E to \in {"reply", "reply_authorized", "mark", "save"} : loop' = [loop EXCEPT !.at = to]
    BY DEF EndSession, HandleAuth, IgnoreFrame, SendAuthReply, MarkAuthorized, SaveGrant
  <2>3. loop \in LoopState /\ loop.id \in Conn
    BY <2>1, LoopIs DEF LanTypes, BridgeTypes
  <2>4. loop' \in LoopState
    <3>1. CASE loop' = [at |-> "idle"]
      BY <3>1, LoopEnds
    <3>2. ASSUME NEW to \in {"reply", "reply_authorized", "mark", "save"}, loop' = [loop EXCEPT !.at = to]
          PROVE  loop' \in LoopState
      BY <2>1, <2>3, <3>2, LoopGoesOn
    <3>3. QED
      BY <2>2, <3>1, <3>2
  <2>5. QED
    BY <2>1, <2>3, <2>4
<1>2. /\ authorized' \subseteq Conn /\ lastError' \in BOOLEAN
      /\ UNCHANGED <<events, listener, stopped, conns, enabled, centrals, server, generation, advertising, commands>>
  BY <1>1 DEF EndSession, HandleAuth, IgnoreFrame, SendAuthReply, MarkAuthorized, SaveGrant,
              LanTypes, BridgeTypes, serverVars, bridge
<1>3. outbound' \in [Gen -> Seq(Message)]
  <2>1. CASE SendAuthReply \/ MarkAuthorized
    <3>1. PICK m \in Message : Send(<<m>>)
      BY <1>1, <2>1 DEF SendAuthReply, MarkAuthorized, Message
    <3>2. QED
      BY <3>1, OneMessage, Sent
  <2>2. CASE UNCHANGED outbound
    BY <2>2 DEF LanTypes, ServerTypes
  <2>3. QED
    BY <2>1, <2>2 DEF EndSession, HandleAuth, IgnoreFrame, SaveGrant, serverVars
<1>4. QED
  BY <1>1, <1>2, <1>3 DEF LanTypes, ServerTypes, BridgeTypes, conns, sending, commands

LEMMA CommandTypes ==
  ASSUME LanTypes, CountInv, centrals \subseteq Born, Commands \/ User
  PROVE  LanTypes'
<1> USE DEF LanTypes
<1>1. CASE ToggleOn
  <2>1. generation + 1 \in Gen /\ generation' = generation + 1 /\ server' = generation + 1
    BY <1>1, LanAssumption DEF ToggleOn, BridgeTypes, Gen
  <2>2. generation' \in 0 .. MaxGen
    BY <2>1 DEF Gen
  <2>3. listener' \in [Gen -> ListenerState]
    BY <1>1, <2>1 DEF ToggleOn, ListenerAt, ServerTypes, ListenerState
  <2>4. ServerTypes'
    BY <1>1, <2>3 DEF ToggleOn, ServerTypes, conns, sending
  <2>5. BridgeTypes'
    BY <1>1, <2>1, <2>2 DEF ToggleOn, BridgeTypes, commands
  <2>6. QED
    BY <2>4, <2>5
<1>2. CASE ToggleOff
  <2>1. server \in Gen \/ server = NoServer
    BY LanAssumption DEF BridgeTypes, NoServer, Gen
  <2>2. stopped' \subseteq Gen
    BY <1>2, <2>1 DEF ToggleOff, ServerTypes
  <2>3. ServerTypes'
    BY <1>2, <2>2 DEF ToggleOff, ServerTypes, listeners, conns, sending
  <2>4. BridgeTypes'
    BY <1>2 DEF ToggleOff, BridgeTypes
  <2>5. QED
    BY <2>3, <2>4
<1>3. ASSUME NEW cs \in SUBSET authorized, Revoke(cs) PROVE LanTypes'
  BY <1>3 DEF Revoke, ServerTypes, BridgeTypes, serverVars, conns, sending, bridge
<1>4. ASSUME NEW cs \in served, EndServed(cs) PROVE LanTypes'
  BY <1>4 DEF EndServed, ServerTypes, BridgeTypes, serverVars, conns, sending, bridge
<1>5. ASSUME NEW cs \in revoked, DropSessions(cs) PROVE LanTypes'
  <2>1. cs \intersect centrals \in SUBSET Conn /\ IsFiniteSet(cs \intersect centrals)
    BY FS_Subset DEF CountInv, BridgeTypes
  <2>2. ToAll(cs \intersect centrals, "close") \in Seq(Message)
    BY <2>1, ToAllType
  <2>3. outbound' \in [Gen -> Seq(Message)]
    BY <1>5, <2>2, Sent DEF DropSessions
  <2>4. QED
    BY <1>5, <2>3 DEF DropSessions, ServerTypes, BridgeTypes, conns, sending
<1>6. QED
  BY <1>1, <1>2, <1>3, <1>4, <1>5 DEF Commands, User

LEMMA LanStepTypes ==
  ASSUME LanTypes, CountInv, centrals \subseteq Born, Next
  PROVE  LanTypes'
  BY ServerStepTypes, TakeTypes, AnswerTypes, CommandTypes DEF Next, EventLoop

-------------------------------------------------------------------------------
(* Listeners and slots, counted *)

Holding(g) == {c \in Conn : home[c] = g /\ phase[c] \in HoldsSlot}

LEMMA HoldingFinite ==
  ASSUME CountInv, NEW g \in Gen
  PROVE  /\ IsFiniteSet(Holding(g)) /\ Cardinality(Holding(g)) \in Nat
         /\ Cardinality(Holding(g)) <= MaxSlots
<1>1. Holding(g) \in SUBSET Born
  BY DEF Born, Holding, HoldsSlot
<1>2. IsFiniteSet(Holding(g))
  BY <1>1, FS_Subset DEF CountInv
<1>3. QED
  BY <1>2, FS_CardinalityType DEF CountInv, Held, Holding

\* Fewer connections hold a slot.
LEMMA FewerSlots ==
  ASSUME CountInv,
         \A c \in Conn : phase'[c] \in HoldsSlot => phase[c] \in HoldsSlot /\ home'[c] = home[c]
  PROVE  (\A g \in Gen : Held(g, HoldsSlot) <= MaxSlots)'
<1> SUFFICES ASSUME NEW g \in Gen PROVE Held(g, HoldsSlot)' <= MaxSlots
  BY DEF Gen
<1>1. Holding(g)' \in SUBSET Holding(g)
  BY DEF Holding
<1>2. Cardinality(Holding(g)') <= Cardinality(Holding(g)) /\ Cardinality(Holding(g)') \in Nat
  BY <1>1, HoldingFinite, FS_Subset, FS_CardinalityType
<1>3. Held(g, HoldsSlot)' = Cardinality(Holding(g)')
  BY DEF Held, Holding
<1>4. QED
  BY <1>2, <1>3, HoldingFinite, LanAssumption

LEMMA BornGrows ==
  ASSUME CountInv, NEW c \in Conn, \A d \in Conn : d # c => phase'[d] = phase[d]
  PROVE  IsFiniteSet(Born')
<1>1. Born' \subseteq Born \union {c}
  BY DEF Born
<1>2. IsFiniteSet(Born \union {c})
  BY FS_AddElement DEF CountInv
<1>3. QED
  BY <1>1, <1>2, FS_Subset

\* upgrade takes a slot only while one is free.
LEMMA UpgradeSlots ==
  ASSUME LanTypes, CountInv, NEW c \in Conn, Upgrade(c)
  PROVE  (\A g \in Gen : Held(g, HoldsSlot) <= MaxSlots)'
<1>1. CASE phase' = [phase EXCEPT ![c] = "gone"]
  BY <1>1, FewerSlots DEF Upgrade, LanTypes, ServerTypes, HoldsSlot
<1>2. CASE /\ Held(home[c], HoldsSlot) < MaxSlots
           /\ phase' = [phase EXCEPT ![c] = "upgrading"]
  <2> SUFFICES ASSUME NEW g \in Gen PROVE Held(g, HoldsSlot)' <= MaxSlots
    BY DEF Gen
  <2> DEFINE n == Cardinality(Holding(g))
  <2>1. /\ IsFiniteSet(Holding(g)) /\ n \in Nat /\ n <= MaxSlots
        /\ Held(g, HoldsSlot)' = Cardinality(Holding(g)')
    BY HoldingFinite DEF Held, Holding
  <2>2. home' = home
    BY DEF Upgrade
  <2>3. CASE g = home[c]
    <3>1. Holding(g)' \in SUBSET (Holding(g) \union {c})
      BY <1>2, <2>2 DEF LanTypes, ServerTypes, Holding
    <3>2. IsFiniteSet(Holding(g) \union {c}) /\ Cardinality(Holding(g) \union {c}) \in {n, n + 1}
      BY <2>1, FS_AddElement
    <3>3. Cardinality(Holding(g)') <= Cardinality(Holding(g) \union {c}) /\ Cardinality(Holding(g)') \in Nat
      BY <3>1, <3>2, FS_Subset, FS_CardinalityType
    <3>4. n < MaxSlots
      BY <1>2, <2>3 DEF Held, Holding
    <3>5. QED
      BY <2>1, <3>2, <3>3, <3>4, LanAssumption
  <2>4. CASE g # home[c]
    <3>1. Holding(g)' = Holding(g)
      BY <1>2, <2>2, <2>4 DEF LanTypes, ServerTypes, Holding
    <3>2. QED
      BY <2>1, <3>1
  <2>5. QED
    BY <2>3, <2>4
<1>3. QED
  BY <1>1, <1>2 DEF Upgrade, ConnAt, HoldsSlot

\* Who moves a listener.
LEMMA ListenerMoves ==
  ASSUME Next
  PROVE  \/ UNCHANGED listener
         \/ ToggleOn
         \/ \E g \in Gen : Bind(g) \/ ReportBindFailed(g) \/ ReportListening(g) \/ StopServing(g)
<1>1. CASE Server
  BY <1>1 DEF Server, Tasks, Peers, listeners, serverVars, Pump, DaemonFails, Accept, Upgrade, UpgradeFails,
     Register, Announce, Text, PeerEnds, PingTick, WriterSends, WriterEnds, WriterEnded, Deadline, Shutdown, Report
<1>2. CASE EventLoop
  BY <1>2 DEF EventLoop, Take, TakeConnected, TakeDisconnected, TakeListening, TakeAdvertiseFailed,
     TakeBindFailed, TakeFrame, EndSession, HandleAuth, IgnoreFrame, SendAuthReply, MarkAuthorized, SaveGrant,
     serverVars
<1>3. CASE Commands \/ User
  BY <1>3 DEF Commands, User, ToggleOff, EndServed, Revoke, DropSessions, listeners, serverVars
<1>4. QED
  BY <1>1, <1>2, <1>3 DEF Next

LEMMA OneBound ==
  ASSUME LanTypes, CountInv, Next
  PROVE  (\A g, h \in Gen : Bound(g) /\ Bound(h) => g = h)'
<1>1. ASSUME NEW b \in Gen, Bind(b) PROVE \A g, h \in Gen : Bound(g)' /\ Bound(h)' => g = h
  <2>1. CASE (\A h \in Gen : ~Bound(h)) /\ listener' = [listener EXCEPT ![b] = "bound"]
    <3>1. \A g \in Gen : Bound(g)' => g = b
      BY <2>1 DEF Bound, LanTypes, ServerTypes
    <3>2. QED
      BY <3>1
  <2>2. CASE listener' = [listener EXCEPT ![b] = "failing"]
    <3>1. \A g \in Gen : Bound(g)' => Bound(g)
      BY <2>2 DEF Bound, LanTypes, ServerTypes
    <3>2. QED
      BY <3>1 DEF CountInv
  <2>3. QED
    BY <1>1, <2>1, <2>2 DEF Bind, ListenerAt
<1>2. CASE \A g \in Gen : Bound(g)' => Bound(g)
  BY <1>2 DEF CountInv
<1>3. (\E b \in Gen : Bind(b)) \/ \A g \in Gen : Bound(g)' => Bound(g)
  <2>1. CASE UNCHANGED listener
    BY <2>1 DEF Bound
  <2>2. ASSUME NEW b \in Gen, ReportBindFailed(b) \/ ReportListening(b) \/ StopServing(b)
        PROVE  \A g \in Gen : Bound(g)' => Bound(g)
    BY <2>2 DEF ReportBindFailed, ReportListening, StopServing, ListenerAt, Bound, LanTypes, ServerTypes
  <2>3. CASE ToggleOn
    BY <2>3 DEF ToggleOn, ListenerAt, Bound, LanTypes, ServerTypes
  <2>4. QED
    BY <2>1, <2>2, <2>3, ListenerMoves
<1>4. QED
  BY <1>1, <1>2, <1>3 DEF Bound, Gen

\* How one step moves the connections.
Moved(c) ==
  /\ \A d \in Conn : d # c => phase'[d] = phase[d]
  /\ phase'[c] # "unborn"
  /\ phase'[c] \in HoldsSlot /\ phase[c] \notin HoldsSlot => Upgrade(c)
  /\ phase[c] \in {"open", "leaving", "gone"} => phase'[c] \in {"open", "leaving", "gone"}
  /\ phase[c] = "unborn" => \E g \in Gen : Accept(c, g)

LEMMA PhaseMoves ==
  ASSUME LanTypes, Next
  PROVE  UNCHANGED phase \/ \E c \in Conn : Moved(c)
<1>1. CASE Server
  <2> DEFINE Way(c, from, to) ==
        /\ ConnAt(c, from, to)
        /\ to # "unborn"
        /\ to \in HoldsSlot /\ from \notin HoldsSlot => Upgrade(c)
        /\ from \in {"open", "leaving", "gone"} => to \in {"open", "leaving", "gone"}
        /\ from = "unborn" => \E g \in Gen : Accept(c, g)
  <2>1. UNCHANGED phase \/ \E c \in Conn, from, to \in Phase : Way(c, from, to)
    <3>1. ASSUME NEW c \in Conn
          PROVE  /\ Upgrade(c) => ConnAt(c, "http", "upgrading") \/ ConnAt(c, "http", "gone")
                 /\ UpgradeFails(c) => ConnAt(c, "upgrading", "gone")
                 /\ Register(c) => ConnAt(c, "upgrading", "announcing")
                 /\ Announce(c) => ConnAt(c, "announcing", "open")
                 /\ Report(c) => ConnAt(c, "leaving", "gone")
                 /\ Text(c) \/ PeerEnds(c) \/ PingTick(c) \/ WriterEnded(c) \/ Deadline(c) \/ Shutdown(c) =>
                      UNCHANGED phase \/ ConnAt(c, "open", "leaving")
                 /\ WriterSends(c) \/ WriterEnds(c) => UNCHANGED phase
                 /\ \A g \in Gen : Accept(c, g) => ConnAt(c, "unborn", "http")
      BY DEF Upgrade, UpgradeFails, Register, Announce, Report, Text, PeerEnds, PingTick, WriterEnded, Deadline,
             Shutdown, WriterSends, WriterEnds, Accept, Leave
    <3>2. ASSUME NEW g \in Gen
          PROVE  Bind(g) \/ ReportBindFailed(g) \/ ReportListening(g) \/ StopServing(g) \/ Pump(g) \/ DaemonFails(g)
                   => UNCHANGED phase
      BY DEF Bind, ReportBindFailed, ReportListening, StopServing, Pump, DaemonFails, conns
    <3>3. QED
      BY <1>1, <3>1, <3>2 DEF Server, Tasks, Peers, Phase, HoldsSlot
  <2>2. QED
    BY <2>1 DEF ConnAt, LanTypes, ServerTypes, Moved
<1>2. CASE EventLoop
  BY <1>2 DEF EventLoop, Take, TakeConnected, TakeDisconnected, TakeListening, TakeAdvertiseFailed,
     TakeBindFailed, TakeFrame, EndSession, HandleAuth, IgnoreFrame, SendAuthReply, MarkAuthorized, SaveGrant,
     serverVars, conns
<1>3. CASE Commands \/ User
  BY <1>3 DEF Commands, User, ToggleOn, ToggleOff, EndServed, Revoke, DropSessions, serverVars, conns
<1>4. QED
  BY <1>1, <1>2, <1>3 DEF Next

\* A connection keeps its listener from the time it is accepted.
LEMMA HomeStays ==
  ASSUME LanTypes, Next
  PROVE  \A c \in Conn : home'[c] = home[c] \/ (phase[c] = "unborn" /\ phase'[c] = "http"
                                                /\ listener[home'[c]] = "serving")
<1>1. CASE UNCHANGED home
  BY <1>1
<1>2. ASSUME NEW c \in Conn, NEW g \in Gen, Accept(c, g)
      PROVE  \A d \in Conn : home'[d] = home[d] \/ (phase[d] = "unborn" /\ phase'[d] = "http"
                                                     /\ listener[home'[d]] = "serving")
  BY <1>2 DEF Accept, ConnAt, LanTypes, ServerTypes
<1>3. UNCHANGED home \/ \E c \in Conn, g \in Gen : Accept(c, g)
  <2>1. CASE Server
    BY <2>1 DEF Server, Tasks, Peers, Bind, ReportBindFailed, ReportListening, StopServing, Pump, DaemonFails,
       Upgrade, UpgradeFails, Register, Announce, Text, PeerEnds, PingTick, WriterSends, WriterEnds, WriterEnded,
       Deadline, Shutdown, Report, conns
  <2>2. CASE EventLoop
    BY <2>2 DEF EventLoop, Take, TakeConnected, TakeDisconnected, TakeListening, TakeAdvertiseFailed,
       TakeBindFailed, TakeFrame, EndSession, HandleAuth, IgnoreFrame, SendAuthReply, MarkAuthorized, SaveGrant,
       serverVars, conns
  <2>3. CASE Commands \/ User
    BY <2>3 DEF Commands, User, ToggleOn, ToggleOff, EndServed, Revoke, DropSessions, serverVars, conns
  <2>4. QED
    BY <2>1, <2>2, <2>3 DEF Next
<1>4. QED
  BY <1>1, <1>2, <1>3

LEMMA CountStep ==
  ASSUME LanTypes, CountInv, Next
  PROVE  CountInv'
<1>1. (\A g, h \in Gen : Bound(g) /\ Bound(h) => g = h)'
  BY OneBound
<1>2. IsFiniteSet(Born')
  <2>1. CASE UNCHANGED phase
    BY <2>1 DEF Born, CountInv
  <2>2. QED
    BY <2>1, PhaseMoves, BornGrows DEF Moved
<1>3. (\A g \in Gen : Held(g, HoldsSlot) <= MaxSlots)'
  <2>1. CASE \E c \in Conn : Upgrade(c)
    BY <2>1, UpgradeSlots
  <2>2. CASE ~\E c \in Conn : Upgrade(c)
    <3>1. \A c \in Conn : phase'[c] \in HoldsSlot => phase[c] \in HoldsSlot
      BY <2>2, PhaseMoves DEF Moved
    <3>2. \A c \in Conn : phase'[c] \in HoldsSlot => home'[c] = home[c]
      BY HomeStays DEF HoldsSlot
    <3>3. QED
      BY <3>1, <3>2, FewerSlots
  <2>3. QED
    BY <2>1, <2>2
<1>4. QED
  BY <1>1, <1>2, <1>3 DEF CountInv, Born

-------------------------------------------------------------------------------
(* The handle *)

LEMMA Different ==
  /\ \A g, h : Listening(g) = Listening(h) => g = h
  /\ \A g, h : BindFailed(g) = BindFailed(h) => g = h
  /\ \A g, h : /\ Listening(g) # BindFailed(h)
               /\ Listening(g) # AdvertiseFailed(h) /\ BindFailed(g) # AdvertiseFailed(h)
  /\ \A g, c : /\ Listening(g) \notin OfConn(c) /\ BindFailed(g) \notin OfConn(c)
  /\ \A c, d : /\ Connected(c) = Connected(d) => c = d
               /\ Connected(c) # Disconnected(d) /\ Connected(c) # Frame(d)
  /\ \A c, g : Connected(c) \notin OfListener(g)
<1>1. /\ \A g, h : Listening(g) = Listening(h) => g = h
      /\ \A g, h : BindFailed(g) = BindFailed(h) => g = h
      /\ \A c, d : Connected(c) = Connected(d) => c = d
  BY EventFields
<1>2. \A g, h : /\ Listening(g) # BindFailed(h)
               /\ Listening(g) # AdvertiseFailed(h) /\ BindFailed(g) # AdvertiseFailed(h)
  BY EventFields
<1>3. \A g, c : Listening(g) \notin OfConn(c) /\ BindFailed(g) \notin OfConn(c)
  BY EventFields DEF OfConn
<1>4. \A c, d : Connected(c) # Disconnected(d) /\ Connected(c) # Frame(d)
  BY EventFields
<1>5. \A c, g : Connected(c) \notin OfListener(g)
  BY EventFields DEF OfListener
<1>6. QED
  BY <1>1, <1>2, <1>3, <1>4, <1>5

\* A step that moves no listener and no handle, and tells of none.
LEMMA HandleKept ==
  ASSUME LanTypes, HandleInv,
         UNCHANGED <<listener, stopped, enabled, server, generation, advertising>>,
         lastError => lastError',
         \A g \in Gen : /\ BindFailed(g) \in Range(events') => BindFailed(g) \in Range(events)
                        /\ Listening(g) \in Range(events') => Listening(g) \in Range(events)
  PROVE  HandleInv'
  BY DEF HandleInv

LEMMA ListenerHandle ==
  ASSUME LanTypes, HandleInv, UNCHANGED bridge, NEW g \in Gen,
         Bind(g) \/ ReportBindFailed(g) \/ ReportListening(g) \/ StopServing(g)
  PROVE  HandleInv'
<1> USE DEF HandleInv, bridge, LanTypes, ServerTypes, BridgeTypes, NoServer, Gen
<1>1. CASE Bind(g)
  <2>1. PICK to \in {"bound", "failing"} : listener' = [listener EXCEPT ![g] = to]
    BY <1>1 DEF Bind, ListenerAt
  <2>2. listener[g] = "waiting" /\ UNCHANGED <<events, stopped>>
    BY <1>1 DEF Bind, ListenerAt
  <2>3. \A h \in Gen : h # g => listener'[h] = listener[h]
    BY <2>1
  <2>4. listener'[g] \in {"bound", "failing"}
    BY <2>1
  <2>5. server # g \/ ~advertising
    BY <2>2
  <2>6. \A h \in Gen : listener[h] = "serving" \/ listener[h] = "done" => listener'[h] = listener[h]
    BY <2>2, <2>3
  <2>7. enabled /\ server = NoServer => listener'[generation] = "done" /\ lastError
    BY <2>6
  <2>8. QED
    BY <2>2, <2>3, <2>4, <2>5, <2>6, <2>7
<1>2. CASE ReportBindFailed(g)
  <2>1. Range(events') = Range(events) \union {BindFailed(g)}
    BY <1>2, Raised, EventOf DEF ReportBindFailed
  <2>2. \A h \in Gen : /\ BindFailed(h) \in Range(events') => h = g \/ BindFailed(h) \in Range(events)
                       /\ Listening(h) \in Range(events') => Listening(h) \in Range(events)
    BY <2>1, Different
  <2>3. /\ listener[g] = "failing" /\ listener' = [listener EXCEPT ![g] = "done"] /\ UNCHANGED stopped
    BY <1>2 DEF ReportBindFailed, ListenerAt
  <2>4. QED
    BY <2>2, <2>3
<1>3. CASE ReportListening(g)
  <2>1. Range(events') = Range(events) \union {Listening(g)}
    BY <1>3, Raised, EventOf DEF ReportListening
  <2>2. \A h \in Gen : /\ BindFailed(h) \in Range(events') => BindFailed(h) \in Range(events)
                       /\ Listening(h) \in Range(events') => h = g \/ Listening(h) \in Range(events)
    BY <2>1, Different
  <2>3. /\ listener[g] = "bound" /\ listener' = [listener EXCEPT ![g] = "serving"] /\ UNCHANGED stopped
    BY <1>3 DEF ReportListening, ListenerAt
  <2>4. QED
    BY <2>2, <2>3
<1>4. CASE StopServing(g)
  BY <1>4 DEF StopServing, ListenerAt
<1>5. QED
  BY <1>1, <1>2, <1>3, <1>4

\* Connections and pumps say nothing of listeners.
LEMMA ConnectionHandle ==
  ASSUME LanTypes, HandleInv, Server,
         ~\E g \in Gen : Bind(g) \/ ReportBindFailed(g) \/ ReportListening(g) \/ StopServing(g)
  PROVE  HandleInv'
<1>1. UNCHANGED <<listener, stopped, enabled, server, generation, advertising, lastError>>
  BY DEF Server, bridge, Tasks, Peers, listeners, Pump, DaemonFails, Accept, Upgrade, UpgradeFails,
     Register, Announce, Text, PeerEnds, PingTick, WriterSends, WriterEnds, WriterEnded, Deadline, Shutdown, Report
<1>2. \/ UNCHANGED events
      \/ \E g \in Gen : Raise(AdvertiseFailed(g))
      \/ \E c \in Conn, e \in Event : e \in OfConn(c) /\ Raise(e)
  BY EventOf DEF OfConn, Server, Tasks, Peers, Pump, DaemonFails, Accept, Upgrade, UpgradeFails,
     Register, Announce, Text, PeerEnds, PingTick, WriterSends, WriterEnds, WriterEnded, Deadline, Shutdown, Report
<1>3. \A g \in Gen : /\ BindFailed(g) \in Range(events') => BindFailed(g) \in Range(events)
                     /\ Listening(g) \in Range(events') => Listening(g) \in Range(events)
  <2>1. CASE UNCHANGED events
    BY <2>1
  <2>2. ASSUME NEW g \in Gen, Raise(AdvertiseFailed(g)) PROVE Range(events') = Range(events) \union {AdvertiseFailed(g)}
    BY <2>2, Raised, EventOf DEF LanTypes
  <2>3. ASSUME NEW c \in Conn, NEW e \in Event, e \in OfConn(c), Raise(e) PROVE Range(events') = Range(events) \union {e}
    BY <2>3, Raised DEF LanTypes
  <2>4. QED
    BY <1>2, <2>1, <2>2, <2>3, Different
<1>4. QED
  BY <1>1, <1>3, HandleKept

LEMMA TakeHandle ==
  ASSUME LanTypes, HandleInv,
         \/ TakeConnected \/ TakeDisconnected \/ TakeListening \/ TakeAdvertiseFailed
         \/ TakeBindFailed \/ TakeFrame
  PROVE  HandleInv'
<1>1. PICK type : Take(type)
  BY DEF TakeConnected, TakeDisconnected, TakeListening, TakeAdvertiseFailed, TakeBindFailed, TakeFrame
<1>2. \A e : e \in Range(events') => e \in Range(events)
  BY <1>1, Taken DEF LanTypes
<1>3. UNCHANGED <<listener, enabled, generation>>
  BY <1>1 DEF Take
<1>4. CASE TakeListening /\ Current(Head(events).gen) /\ advertising'
  <2>1. Head(events) = Listening(server) /\ server \in Gen /\ Head(events) \in Range(events)
    BY <1>4, Taken, EventByType DEF TakeListening, LanTypes, Current
  <2>2. server # NoServer
    BY <2>1, GenFacts DEF NoServer
  <2>3. listener[server] = "serving"
    BY <2>1, <2>2 DEF HandleInv
  <2>4. UNCHANGED <<stopped, server>>
    BY <1>4 DEF TakeListening
  <2>5. lastError => lastError'
    BY <1>4 DEF TakeListening, LanTypes, BridgeTypes
  <2>6. \A g \in Gen : /\ BindFailed(g) \in Range(events') => listener'[g] = "done"
                       /\ Listening(g) \in Range(events') => listener'[g] = "serving" \/ g \in stopped'
    BY <1>2, <1>3, <2>4 DEF HandleInv
  <2>7. listener'[server'] = "serving" /\ server' # NoServer
    BY <1>3, <2>2, <2>3, <2>4
  <2>8. QED
    BY <1>3, <2>4, <2>5, <2>6, <2>7 DEF HandleInv
<1>5. CASE TakeBindFailed /\ Current(Head(events).gen)
  <2>1. Head(events) = BindFailed(server) /\ server \in Gen /\ Head(events) \in Range(events)
    BY <1>5, Taken, EventByType DEF TakeBindFailed, LanTypes, Current
  <2>2. server = generation /\ server # NoServer
    BY <2>1, GenFacts DEF NoServer, LanTypes, BridgeTypes
  <2>3. listener[generation] = "done"
    BY <2>1, <2>2 DEF HandleInv
  <2>4. /\ lastError' = TRUE /\ stopped' = stopped \union {server} /\ server' = NoServer /\ advertising' = FALSE
    BY <1>5, <2>1, <2>2 DEF TakeBindFailed, Current
  <2>5. \A g \in Gen : g <= generation => g \in stopped'
    BY <2>4 DEF HandleInv
  <2>6. \A g \in stopped' : g <= generation
    BY <2>2, <2>4, GenFacts, <2>1 DEF HandleInv
  <2>7. QED
    BY <1>2, <1>3, <2>3, <2>4, <2>5, <2>6 DEF HandleInv
<1>6. CASE UNCHANGED <<stopped, server, advertising>> /\ (lastError => lastError')
  BY <1>2, <1>3, <1>6, HandleKept
<1>7. QED
  BY <1>4, <1>5, <1>6 DEF TakeConnected, TakeDisconnected, TakeListening, TakeAdvertiseFailed, TakeBindFailed,
     TakeFrame, LanTypes, BridgeTypes

LEMMA CommandHandle ==
  ASSUME LanTypes, HandleInv, Commands \/ User
  PROVE  HandleInv'
<1> USE DEF LanTypes, ServerTypes, BridgeTypes
<1>1. CASE ToggleOn
  <2>1. /\ generation' = generation + 1 /\ server' = generation + 1
        /\ enabled' = TRUE /\ ~enabled /\ generation + 1 \in Gen
        /\ listener' = [listener EXCEPT ![generation + 1] = "waiting"]
        /\ UNCHANGED <<events, stopped, advertising>>
    BY <1>1, LanAssumption DEF ToggleOn, ListenerAt, Gen
  <2>2. server = NoServer /\ advertising = FALSE
    BY <2>1 DEF HandleInv
  <2>3. \A g \in Gen : g \in Nat
    BY GenFacts
  <2>4. \A g \in Gen : g <= generation => g \in stopped
    BY <2>2, GenFacts DEF HandleInv, NoServer
  <2>5. generation + 1 \notin stopped /\ \A g \in stopped : g <= generation + 1
    BY <2>3 DEF HandleInv
  <2>6. \A g \in Gen : listener'[g] = "none" <=> g > generation + 1
    BY <2>1, <2>3 DEF HandleInv
  <2>7. \A g \in Gen : g <= generation + 1 /\ g # generation + 1 => g \in stopped
    BY <2>3, <2>4
  <2>8. \A g \in Gen : /\ BindFailed(g) \in Range(events) => listener'[g] = "done"
                       /\ Listening(g) \in Range(events) => listener'[g] = "serving" \/ g \in stopped
    <3>1. listener[generation + 1] = "none" /\ generation + 1 \notin stopped
      BY <2>1, <2>5 DEF HandleInv
    <3>2. QED
      BY <2>1, <3>1 DEF HandleInv
  <2>9. generation' # 0 /\ server' \notin stopped' /\ server' # NoServer
    BY <2>1, <2>5, GenFacts DEF NoServer
  <2>10. QED
    BY <2>1, <2>2, <2>5, <2>6, <2>7, <2>8, <2>9 DEF HandleInv
<1>2. CASE ToggleOff /\ enabled
  <2>1. /\ enabled' = FALSE /\ advertising' = FALSE /\ server' = NoServer
        /\ stopped' = stopped \union ({server} \ {NoServer})
        /\ UNCHANGED <<events, listener, generation>>
    BY <1>2 DEF ToggleOff, listeners
  <2>2. \A g \in Gen : g <= generation => g \in stopped'
    BY <2>1, GenFacts DEF HandleInv, NoServer
  <2>3. \A g \in stopped' : g <= generation
    BY <2>1 DEF HandleInv, NoServer
  <2>4. \A g \in Gen : Listening(g) \in Range(events) => listener[g] = "serving" \/ g \in stopped'
    BY <2>1 DEF HandleInv
  <2>5. QED
    BY <2>1, <2>2, <2>3, <2>4 DEF HandleInv
<1>3. CASE ToggleOff /\ ~enabled
  BY <1>3 DEF ToggleOff, HandleInv, listeners
<1>4. CASE UNCHANGED <<events, listener, stopped, bridge>>
  BY <1>4, HandleKept DEF bridge
<1>5. ASSUME NEW cs \in revoked, DropSessions(cs) PROVE HandleInv'
  BY <1>5, HandleKept DEF DropSessions
<1>6. QED
  BY <1>1, <1>2, <1>3, <1>4, <1>5 DEF Commands, User, EndServed, Revoke, serverVars

LEMMA HandleStep ==
  ASSUME LanTypes, HandleInv, Next
  PROVE  HandleInv'
<1>1. CASE Server
  BY <1>1, ListenerHandle, ConnectionHandle DEF Server
<1>2. CASE EndSession \/ HandleAuth \/ IgnoreFrame \/ SendAuthReply \/ MarkAuthorized \/ SaveGrant
  <2>1. UNCHANGED <<events, listener, stopped, enabled, server, generation, advertising>> /\ (lastError => lastError')
    BY <1>2 DEF EndSession, HandleAuth, IgnoreFrame, SendAuthReply, MarkAuthorized, SaveGrant, serverVars, bridge,
                LanTypes, BridgeTypes
  <2>2. QED
    BY <2>1, HandleKept
<1>3. QED
  BY <1>1, <1>2, TakeHandle, CommandHandle DEF Next, EventLoop

-------------------------------------------------------------------------------
(* Connections that were announced *)

\* Who is served was announced, and who is authorized is served or was authorized.
LEMMA SessionsFrom ==
  ASSUME LanTypes, Next
  PROVE  /\ \A c \in centrals' : c \in centrals \/ Connected(c) \in Range(events)
         /\ \A c \in authorized' : c \in authorized \/ c \in centrals
<1>1. CASE Server
  BY <1>1 DEF Server, bridge
<1>2. CASE TakeConnected
  <2>1. Head(events) = Connected(Head(events).id) /\ Head(events) \in Range(events)
    BY <1>2, Taken, EventByType DEF TakeConnected, LanTypes
  <2>2. QED
    BY <1>2, <2>1 DEF TakeConnected, Take
<1>3. CASE TakeDisconnected \/ TakeListening \/ TakeAdvertiseFailed \/ TakeBindFailed \/ TakeFrame
  BY <1>3 DEF TakeDisconnected, TakeListening, TakeAdvertiseFailed, TakeBindFailed, TakeFrame, Take
<1>4. CASE EndSession \/ HandleAuth \/ IgnoreFrame \/ SendAuthReply \/ MarkAuthorized \/ SaveGrant
  BY <1>4 DEF EndSession, HandleAuth, IgnoreFrame, SendAuthReply, MarkAuthorized, SaveGrant, bridge, Serves
<1>5. CASE Commands \/ User
  BY <1>5 DEF Commands, User, ToggleOn, ToggleOff, EndServed, Revoke, DropSessions, bridge
<1>6. QED
  BY <1>1, <1>2, <1>3, <1>4, <1>5 DEF Next, EventLoop

LEMMA AnnouncedFrom ==
  ASSUME LanTypes, Next
  PROVE  \A c \in Conn : Connected(c) \in Range(events') => Connected(c) \in Range(events) \/ phase'[c] = "open"
<1>1. CASE UNCHANGED events
  BY <1>1
<1>2. ASSUME NEW d \in Conn, Announce(d)
      PROVE  \A c \in Conn : Connected(c) \in Range(events') => Connected(c) \in Range(events) \/ phase'[c] = "open"
  <2>1. Range(events') = Range(events) \union {Connected(d)} /\ phase'[d] = "open"
    BY <1>2, Raised, EventOf DEF Announce, ConnAt, LanTypes, ServerTypes
  <2>2. QED
    BY <2>1, Different
<1>3. ASSUME NEW e \in Event, Raise(e), \A c \in Conn : e # Connected(c)
      PROVE  \A c \in Conn : Connected(c) \in Range(events') => Connected(c) \in Range(events)
  BY <1>3, Raised DEF LanTypes
<1>4. ASSUME NEW type, Take(type)
      PROVE  \A c \in Conn : Connected(c) \in Range(events') => Connected(c) \in Range(events)
  BY <1>4, Taken DEF LanTypes
<1>5. \A c, d \in Conn : Disconnected(d) # Connected(c) /\ Frame(d) # Connected(c)
  BY Different
<1>6. \A c \in Conn, g \in Gen :
        BindFailed(g) # Connected(c) /\ Listening(g) # Connected(c) /\ AdvertiseFailed(g) # Connected(c)
  BY Different DEF OfListener
<1>7. CASE Server
  <2>1. ASSUME NEW g \in Gen, ReportBindFailed(g) \/ ReportListening(g) \/ DaemonFails(g)
        PROVE  \A c \in Conn : Connected(c) \in Range(events') => Connected(c) \in Range(events)
    BY <1>3, <1>6, <2>1, EventOf DEF ReportBindFailed, ReportListening, DaemonFails
  <2>2. ASSUME NEW d \in Conn, Report(d) \/ (Text(d) /\ Raise(Frame(d)))
        PROVE  \A c \in Conn : Connected(c) \in Range(events') => Connected(c) \in Range(events)
    BY <1>3, <1>5, <2>2, EventOf DEF Report
  <2>3. \/ UNCHANGED events \/ \E d \in Conn : Announce(d) \/ Report(d) \/ (Text(d) /\ Raise(Frame(d)))
        \/ \E g \in Gen : ReportBindFailed(g) \/ ReportListening(g) \/ DaemonFails(g)
    BY <1>7 DEF Server, Tasks, Peers, Bind, StopServing, Pump, Accept, Upgrade, UpgradeFails,
       Register, Text, PeerEnds, PingTick, WriterSends, WriterEnds, WriterEnded, Deadline, Shutdown
  <2>4. QED
    BY <1>1, <1>2, <2>1, <2>2, <2>3
<1>8. CASE EventLoop
  <2>1. UNCHANGED events \/ \E type : Take(type)
    BY <1>8 DEF EventLoop, TakeConnected, TakeDisconnected, TakeListening, TakeAdvertiseFailed, TakeBindFailed,
       TakeFrame, EndSession, HandleAuth, IgnoreFrame, SendAuthReply, MarkAuthorized, SaveGrant, serverVars
  <2>2. QED
    BY <1>1, <1>4, <2>1
<1>9. CASE Commands \/ User
  BY <1>1, <1>9 DEF Commands, User, ToggleOn, ToggleOff, EndServed, Revoke, DropSessions, serverVars
<1>10. QED
  BY <1>7, <1>8, <1>9 DEF Next

LEMMA LinkStep ==
  ASSUME LanTypes, LanTypes', HandleInv, LinkInv, Next
  PROVE  LinkInv'
<1>1. \A c \in Conn : phase[c] \in {"open", "leaving", "gone"} => phase'[c] \in {"open", "leaving", "gone"}
  BY PhaseMoves DEF Moved
<1>2. \A c \in centrals' \union authorized' : phase'[c] \in {"open", "leaving", "gone"}
  BY <1>1, SessionsFrom DEF LinkInv, LanTypes, BridgeTypes
<1>3. \A c \in Conn : Connected(c) \in Range(events') => phase'[c] \in {"open", "leaving", "gone"}
  BY <1>1, AnnouncedFrom DEF LinkInv
<1>4. \A c \in Conn : phase'[c] # "unborn" => home'[c] <= generation'
  <2>1. generation' \in Nat /\ generation \in Nat /\ generation <= generation'
    <3>1. generation' = generation \/ generation' = generation + 1
      BY DEF Next, Server, EventLoop, Commands, User, Take, TakeConnected, TakeDisconnected, TakeListening,
         TakeAdvertiseFailed, TakeBindFailed, TakeFrame, EndSession, HandleAuth, IgnoreFrame, SendAuthReply,
         MarkAuthorized, SaveGrant, ToggleOn, ToggleOff, EndServed, Revoke, DropSessions, bridge
    <3>2. generation \in Nat
      BY LanAssumption DEF LanTypes, BridgeTypes
    <3>3. QED
      BY <3>1, <3>2
  <2>2. \A g \in Gen : listener[g] = "serving" => g <= generation
    BY <2>1, GenFacts DEF HandleInv
  <2>3. ASSUME NEW c \in Conn, phase'[c] # "unborn" PROVE home'[c] <= generation'
    <3>1. home'[c] \in Nat
      BY GenFacts DEF LanTypes, ServerTypes
    <3>2. CASE phase[c] = "unborn"
      <4>1. PICK g \in Gen : Accept(c, g)
        BY <2>3, <3>2, PhaseMoves DEF Moved
      <4>2. home'[c] = g /\ listener[g] = "serving"
        BY <4>1 DEF Accept, LanTypes, ServerTypes
      <4>3. QED
        BY <2>1, <2>2, <3>1, <4>2
    <3>3. CASE phase[c] # "unborn"
      <4>1. home'[c] = home[c] /\ home[c] <= generation
        BY <3>3, HomeStays DEF LinkInv
      <4>2. QED
        BY <2>1, <3>1, <4>1
    <3>4. QED
      BY <3>2, <3>3
  <2>4. QED
    BY <2>3
<1>5. QED
  BY <1>2, <1>3, <1>4 DEF LinkInv

-------------------------------------------------------------------------------
(* Authorizations and their links *)

LEMMA GhostStep ==
  ASSUME LanTypes, GhostOnlyFromUnpair, Next
  PROVE  GhostOnlyFromUnpair'
<1> USE DEF GhostOnlyFromUnpair
<1>1. CASE Server
  BY <1>1 DEF Server, bridge, commands
<1>2. CASE TakeConnected \/ TakeListening \/ TakeAdvertiseFailed \/ TakeBindFailed
  BY <1>2 DEF TakeConnected, TakeListening, TakeAdvertiseFailed, TakeBindFailed, Take, commands
<1>3. CASE TakeDisconnected
  <2>1. /\ loop.at = "idle" /\ UNCHANGED <<authorized, served, dropped>>
        /\ centrals' = centrals \ {Head(events).id}
        /\ loop' = IF Head(events).id \in centrals THEN [at |-> "ending", id |-> Head(events).id] ELSE loop
    BY <1>3 DEF TakeDisconnected, Take, commands
  <2>2. Head(events).id \in Conn
    BY <1>3, Taken, EventByType DEF TakeDisconnected, LanTypes
  <2>3. ASSUME Head(events).id \in centrals PROVE loop'.at = "ending" /\ loop'.id = Head(events).id
    BY <2>1, <2>2, <2>3, LoopStarts
  <2>4. QED
    BY <2>1, <2>3
<1>4. CASE TakeFrame
  BY <1>4 DEF TakeFrame, Take, commands
<1>5. CASE EndSession
  BY <1>5 DEF EndSession, bridge, commands
<1>6. CASE HandleAuth
  BY <1>6 DEF HandleAuth, Serves, bridge, commands
<1>7. CASE IgnoreFrame \/ SendAuthReply \/ MarkAuthorized \/ SaveGrant
  BY <1>7 DEF IgnoreFrame, SendAuthReply, MarkAuthorized, SaveGrant, bridge, commands
<1>8. CASE Commands \/ User
  <2>1. CASE ToggleOn
    BY <2>1 DEF ToggleOn, commands
  <2>2. CASE ToggleOff
    <3>1. /\ served' = served \union ({centrals} \ {{}}) /\ UNCHANGED <<authorized, loop, dropped>>
      BY <2>2 DEF ToggleOff
    <3>2. \A c \in centrals : centrals \in served'
      BY <3>1
    <3>3. QED
      BY <3>1, <3>2
  <2>3. ASSUME NEW cs \in SUBSET authorized, Revoke(cs) PROVE GhostOnlyFromUnpair'
    BY <2>3 DEF Revoke, bridge
  <2>4. ASSUME NEW cs \in served, EndServed(cs) PROVE GhostOnlyFromUnpair'
    BY <2>4 DEF EndServed, bridge
  <2>5. ASSUME NEW cs \in revoked, DropSessions(cs) PROVE GhostOnlyFromUnpair'
    BY <2>5 DEF DropSessions
  <2>6. QED
    BY <1>8, <2>1, <2>2, <2>3, <2>4, <2>5 DEF Commands, User
<1>9. QED
  BY <1>1, <1>2, <1>3, <1>4, <1>5, <1>6, <1>7, <1>8 DEF Next, EventLoop

-------------------------------------------------------------------------------
(* What the server knows of authorizations *)

Mark(c) == [to |-> c, kind |-> "authorized"]

\* The server knows of c, will be told, or is being stopped.
Marked(c) ==
  \/ flag[c] \/ home[c] \in stopped
  \/ loop.at \in {"reply_authorized", "mark"} /\ loop.id = c
  \/ Mark(c) \in Range(outbound[home[c]])

LEMMA MarkedIs == AuthorizedIsMarked <=> \A c \in authorized \intersect sinks : Marked(c)
  BY DEF AuthorizedIsMarked, Marked, Mark

\* A step after which the same are in question and whoever was known of is.
LEMMA MarkedStill ==
  ASSUME AuthorizedIsMarked,
         \A c \in authorized' \intersect sinks' : c \in authorized \intersect sinks /\ (Marked(c) => Marked(c)')
  PROVE  AuthorizedIsMarked'
<1>1. \A c \in (authorized \intersect sinks)' : Marked(c)'
  BY MarkedIs
<1>2. QED
  BY <1>1 DEF AuthorizedIsMarked, Marked, Mark

\* A pump hands on what it takes, and whoever is known of stays so.
LEMMA PumpMarked ==
  ASSUME LanTypes, NEW g \in Gen, Pump(g), UNCHANGED <<authorized, loop>>,
         NEW c \in Conn, c \in sinks, Marked(c)
  PROVE  Marked(c)'
<1>1. UNCHANGED <<home, stopped>>
  BY DEF Pump
<1>2. /\ Head(outbound[g]) \in Message
      /\ Range(outbound[g]) = Range(outbound'[g]) \union {Head(outbound[g])}
  BY PumpTypes DEF LanTypes
<1>3. \A h \in Gen : h # g => outbound'[h] = outbound[h]
  BY DEF Pump, LanTypes, ServerTypes
<1>4. flag[c] => flag'[c]
  BY DEF Pump, LanTypes, ServerTypes
<1>5. CASE Mark(c) \in Range(outbound[home[c]])
  <2>1. CASE home[c] = g /\ Mark(c) = Head(outbound[g])
    <3>1. Head(outbound[g]).to = c /\ Head(outbound[g]).kind = "authorized"
      BY <2>1 DEF Mark
    <3>2. flag' = [flag EXCEPT ![c] = flag[c] \/ c \in sinks]
      BY <3>1 DEF Pump
    <3>3. flag'[c] = (flag[c] \/ c \in sinks)
      BY <3>2 DEF LanTypes, ServerTypes
    <3>4. QED
      BY <3>3 DEF Marked
  <2>2. CASE home[c] # g \/ Mark(c) # Head(outbound[g])
    <3>1. home[c] \in Gen
      BY DEF LanTypes, ServerTypes
    <3>2. Mark(c) \in Range(outbound'[home[c]])
      BY <1>2, <1>3, <1>5, <2>2, <3>1
    <3>3. QED
      BY <1>1, <3>2 DEF Marked, Mark
  <2>3. QED
    BY <2>1, <2>2
<1>6. CASE flag[c] \/ home[c] \in stopped \/ (loop.at \in {"reply_authorized", "mark"} /\ loop.id = c)
  BY <1>1, <1>4, <1>6 DEF Marked
<1>7. QED
  BY <1>5, <1>6 DEF Marked

LEMMA ServerMarked ==
  ASSUME LanTypes, LinkInv, AuthorizedIsMarked, Server
  PROVE  AuthorizedIsMarked'
<1>1. UNCHANGED <<authorized, loop>>
  BY DEF Server
<1>2. ASSUME NEW g \in Gen, Pump(g) PROVE AuthorizedIsMarked'
  <2>1. sinks' \subseteq sinks
    BY <1>2, PushTypes, PumpTypes DEF Pump, LanTypes, Push
  <2>2. QED
    BY <1>1, <1>2, <2>1, PumpMarked, MarkedStill DEF LanTypes, BridgeTypes
<1>3. ASSUME NEW g \in Gen, StopServing(g) PROVE AuthorizedIsMarked'
  <2>1. /\ g \in stopped /\ outbound' = [outbound EXCEPT ![g] = <<>>]
        /\ UNCHANGED <<stopped, home, flag, sinks>>
    BY <1>3 DEF StopServing, conns, sending
  <2>2. ASSUME NEW c \in Conn, Marked(c) PROVE Marked(c)'
    <3>1. CASE home[c] = g
      BY <2>1, <3>1 DEF Marked
    <3>2. CASE home[c] # g
      <4>1. outbound'[home[c]] = outbound[home[c]]
        BY <2>1, <3>2 DEF LanTypes, ServerTypes
      <4>2. QED
        BY <1>1, <2>1, <2>2, <4>1 DEF Marked, Mark
    <3>3. QED
      BY <3>1, <3>2
  <2>3. QED
    BY <1>1, <2>1, <2>2, MarkedStill DEF LanTypes, BridgeTypes
<1>4. ASSUME NEW g \in Gen, Bind(g) \/ ReportBindFailed(g) \/ ReportListening(g) \/ DaemonFails(g)
      PROVE  AuthorizedIsMarked'
  <2>1. UNCHANGED <<stopped, outbound, home, flag, sinks>>
    BY <1>4 DEF Bind, ReportBindFailed, ReportListening, DaemonFails, conns, sending, listeners
  <2>2. QED
    BY <1>1, <2>1, MarkedStill DEF Marked, Mark
<1>5. ASSUME NEW c \in Conn,
             \/ Leave(c) /\ UNCHANGED home
             \/ UNCHANGED <<sinks, flag, home>>
             \/ Register(c)
             \/ \E g \in Gen : Accept(c, g),
             UNCHANGED <<stopped, outbound>>
      PROVE  AuthorizedIsMarked'
  <2>1. \A d \in sinks' : d \in sinks \/ (Register(c) /\ d = c)
    BY <1>5 DEF Leave, Accept, Register, sending
  <2>2. Register(c) => c \notin authorized
    BY DEF Register, ConnAt, LinkInv
  <2>3. \A d \in sinks' : d \in sinks => flag'[d] = flag[d] /\ home'[d] = home[d]
    <3>1. ASSUME NEW g \in Gen, Accept(c, g) PROVE c \notin sinks
      BY <3>1 DEF Accept, ConnAt, LanTypes, ServerTypes
    <3>2. QED
      BY <1>5, <3>1 DEF Leave, Accept, Register, sending, LanTypes, ServerTypes
  <2>4. \A d \in authorized \intersect sinks' : d \in sinks /\ (Marked(d) => Marked(d)')
    BY <1>1, <1>5, <2>1, <2>2, <2>3 DEF Marked, Mark
  <2>5. QED
    BY <1>1, <2>4, MarkedStill
<1>6. ASSUME NEW c \in Conn,
             \/ Register(c) \/ Announce(c) \/ PingTick(c) \/ WriterEnds(c)
             \/ WriterEnded(c) \/ Deadline(c) \/ Shutdown(c) \/ Report(c)
             \/ Upgrade(c) \/ UpgradeFails(c) \/ Text(c) \/ PeerEnds(c) \/ WriterSends(c)
             \/ \E g \in Gen : Accept(c, g)
      PROVE  AuthorizedIsMarked'
  <2>1. UNCHANGED <<stopped, outbound>>
    BY <1>6 DEF listeners, Register, Announce, PingTick, WriterEnds, WriterEnded, Deadline, Shutdown, Report,
       Upgrade, UpgradeFails, Text, PeerEnds, WriterSends, Accept
  <2>2. \/ Leave(c) /\ UNCHANGED home
        \/ UNCHANGED <<sinks, flag, home>>
        \/ Register(c)
        \/ \E g \in Gen : Accept(c, g)
    BY <1>6 DEF sending, Register, Announce, PingTick, Push, WriterEnds, WriterEnded, Deadline, Shutdown, Report,
       Upgrade, UpgradeFails, Text, PeerEnds, WriterSends
  <2>3. QED
    BY <1>5, <2>1, <2>2
<1>7. QED
  BY <1>2, <1>3, <1>4, <1>6 DEF Server, Tasks, Peers

\* A step that takes back nothing the server was told or will be.
LEMMA MarkedKept ==
  ASSUME AuthorizedIsMarked, LanTypes,
         authorized' \subseteq authorized, UNCHANGED <<sinks, flag, home>>, stopped \subseteq stopped',
         \A g \in Gen : Range(outbound[g]) \subseteq Range(outbound'[g]),
         \/ loop' = loop \/ loop.at \notin {"reply_authorized", "mark"}
         \/ loop'.at \in {"reply_authorized", "mark"} /\ loop'.id = loop.id
  PROVE  AuthorizedIsMarked'
<1>1. ASSUME NEW c \in authorized' \intersect sinks', Marked(c) PROVE Marked(c)'
  <2>1. home[c] \in Gen
    BY <1>1 DEF LanTypes, BridgeTypes, ServerTypes
  <2>2. QED
    BY <1>1, <2>1 DEF Marked, Mark
<1>2. QED
  BY <1>1, MarkedStill

LEMMA LoopMarked ==
  ASSUME LanTypes, HandleInv, LinkInv, AuthorizedIsMarked, EventLoop
  PROVE  AuthorizedIsMarked'
<1>1. CASE \/ TakeConnected \/ TakeDisconnected \/ TakeListening \/ TakeAdvertiseFailed
           \/ TakeBindFailed \/ TakeFrame
  <2>1. UNCHANGED <<authorized, sinks, flag, home, outbound>> /\ loop.at = "idle"
    BY <1>1 DEF TakeConnected, TakeDisconnected, TakeListening, TakeAdvertiseFailed, TakeBindFailed, TakeFrame,
                Take, conns, sending
  <2>2. stopped \subseteq stopped'
    BY <1>1 DEF TakeConnected, TakeDisconnected, TakeListening, TakeAdvertiseFailed, TakeBindFailed, TakeFrame
  <2>3. QED
    BY <2>1, <2>2, MarkedKept
<1>2. CASE EndSession \/ IgnoreFrame \/ SaveGrant
  <2>1. UNCHANGED <<sinks, flag, home, outbound, stopped>> /\ authorized' \subseteq authorized
    BY <1>2 DEF EndSession, IgnoreFrame, SaveGrant, serverVars, conns, sending
  <2>2. loop.at \notin {"reply_authorized", "mark"}
    BY <1>2 DEF EndSession, IgnoreFrame, SaveGrant
  <2>3. QED
    BY <2>1, <2>2, MarkedKept
<1>3. CASE HandleAuth
  <2>1. /\ UNCHANGED <<sinks, flag, home, outbound, stopped>>
        /\ loop.at = "auth" /\ loop \in LoopState
    BY <1>3 DEF HandleAuth, serverVars, conns, sending, LanTypes, BridgeTypes
  <2>2. CASE authorized' = authorized
    BY <2>1, <2>2, MarkedKept
  <2>3. CASE authorized' = authorized \union {loop.id} /\ loop' = [loop EXCEPT !.at = "reply_authorized"]
    <3>1. loop'.at = "reply_authorized" /\ loop'.id = loop.id
      BY <2>1, <2>3, LoopGoesOn
    <3>2. \A c \in (authorized \intersect sinks)' : Marked(c)'
      BY <2>1, <2>3, <3>1, MarkedIs DEF Marked, Mark
    <3>3. QED
      BY <3>2 DEF AuthorizedIsMarked, Marked, Mark
  <2>4. QED
    BY <1>3, <2>2, <2>3 DEF HandleAuth
<1>4. CASE SendAuthReply
  <2>1. /\ UNCHANGED <<authorized, sinks, flag, home, stopped>>
        /\ loop.at \in {"reply", "reply_authorized"} /\ loop \in LoopState
        /\ Send(<<[to |-> loop.id, kind |-> "data"]>>)
    BY <1>4 DEF SendAuthReply, conns, sending, LanTypes, BridgeTypes
  <2>2. [to |-> loop.id, kind |-> "data"] \in Message
    BY <2>1, LoopIs DEF Message
  <2>3. \A g \in Gen : Range(outbound[g]) \subseteq Range(outbound'[g])
    BY <2>1, <2>2, OneMessage, Sent
  <2>4. loop.at = "reply_authorized" => loop'.at = "mark" /\ loop'.id = loop.id
    BY <1>4, <2>1, LoopGoesOn DEF SendAuthReply
  <2>5. QED
    BY <2>1, <2>3, <2>4, MarkedKept
<1>5. CASE MarkAuthorized
  <2>1. /\ UNCHANGED <<authorized, sinks, flag, home, stopped>>
        /\ loop.at = "mark" /\ loop \in LoopState /\ Send(<<Mark(loop.id)>>)
    BY <1>5 DEF MarkAuthorized, conns, sending, LanTypes, BridgeTypes, Mark
  <2>2. PICK b \in Conn : b = loop.id
    BY <2>1, LoopIs
  <2>3. /\ \A g \in Gen : Range(outbound[g]) \subseteq Range(outbound'[g])
        /\ server # NoServer => Mark(b) \in Range(outbound'[server])
    <3>1. Mark(b) \in Message
      BY DEF Message, Mark
    <3>2. Send(<<Mark(b)>>)
      BY <2>1, <2>2
    <3>3. QED
      BY <3>1, <3>2, OneMessage, Sent
  <2>4. ASSUME NEW c \in authorized \intersect sinks, Marked(c), c # b PROVE Marked(c)'
    <3>1. home[c] \in Gen
      BY DEF LanTypes, BridgeTypes, ServerTypes
    <3>2. QED
      BY <2>1, <2>2, <2>3, <2>4, <3>1 DEF Marked, Mark
  <2>5. ASSUME b \in authorized \intersect sinks PROVE Marked(b)'
    <3>1. home[b] \in Gen /\ phase[b] # "unborn"
      BY <2>5 DEF LanTypes, BridgeTypes, ServerTypes
    <3>2. home[b] <= generation
      BY <2>5, <3>1 DEF LinkInv, LanTypes, BridgeTypes
    \* What is not sent to the listener of the connection finds it stopped.
    <3>3. home[b] # server => home[b] \in stopped
      BY <3>1, <3>2 DEF HandleInv
    <3>4. home[b] = server => server # NoServer
      BY <3>1, GenFacts DEF NoServer
    <3>5. CASE home[b] \in stopped
      BY <2>1, <3>5 DEF Marked
    <3>6. CASE home[b] = server
      <4>1. Mark(b) \in Range(outbound'[home'[b]])
        BY <2>1, <2>3, <3>4, <3>6
      <4>2. QED
        BY <4>1 DEF Marked, Mark
    <3>7. QED
      BY <3>3, <3>5, <3>6
  <2>6. \A c \in authorized \intersect sinks : Marked(c)'
    <3>1. \A c \in authorized \intersect sinks : Marked(c)
      BY MarkedIs
    <3>2. QED
      BY <2>4, <2>5, <3>1
  <2>7. \A c \in (authorized \intersect sinks)' : Marked(c)'
    BY <2>1, <2>6
  <2>8. QED
    BY <2>7 DEF AuthorizedIsMarked, Marked, Mark
<1>6. QED
  BY <1>1, <1>2, <1>3, <1>4, <1>5 DEF EventLoop

LEMMA CommandMarked ==
  ASSUME LanTypes, CountInv, centrals \subseteq Born, AuthorizedIsMarked, Commands \/ User
  PROVE  AuthorizedIsMarked'
<1>1. /\ authorized' \subseteq authorized /\ UNCHANGED <<sinks, flag, home, loop>> /\ stopped \subseteq stopped'
  BY DEF Commands, User, ToggleOn, ToggleOff, EndServed, Revoke, DropSessions, serverVars, conns, sending
<1>2. \A g \in Gen : Range(outbound[g]) \subseteq Range(outbound'[g])
  <2>1. ASSUME NEW cs \in revoked, DropSessions(cs) PROVE \A g \in Gen : Range(outbound[g]) \subseteq Range(outbound'[g])
    <3>1. cs \intersect centrals \in SUBSET Conn /\ IsFiniteSet(cs \intersect centrals)
      BY FS_Subset DEF CountInv, LanTypes, BridgeTypes
    <3>2. ToAll(cs \intersect centrals, "close") \in Seq(Message)
      BY <3>1, ToAllType
    <3>3. QED
      BY <2>1, <3>2, Sent DEF DropSessions
  <2>2. CASE UNCHANGED outbound
    BY <2>2
  <2>3. QED
    BY <2>1, <2>2 DEF Commands, User, ToggleOn, ToggleOff, EndServed, Revoke, serverVars, listeners
<1>3. QED
  BY <1>1, <1>2, MarkedKept

-------------------------------------------------------------------------------
(* Theorems *)

LEMMA LanStart == Init => LanInv
<1> SUFFICES ASSUME Init PROVE LanInv
  OBVIOUS
<1>1. LanTypes
  BY LanStartTypes
<1>2. CountInv
  <2>1. Born = {} /\ IsFiniteSet(Born)
    BY FS_EmptySet DEF Init, ServerInit, Born
  <2>2. \A g \in Gen : Holding(g) = {}
    BY DEF Init, ServerInit, Holding, HoldsSlot
  <2>3. \A g \in Gen : Held(g, HoldsSlot) = 0
    BY <2>2, FS_EmptySet DEF Held, Holding
  <2>4. QED
    BY <2>1, <2>3, LanAssumption DEF CountInv, Init, ServerInit, Bound
<1>3. Range(events) = {}
  <2>1. events = <<>> /\ DOMAIN events = {}
    BY DEF Init, ServerInit
  <2>2. QED
    BY <2>1 DEF Range
<1>4. HandleInv
  BY <1>3, GenFacts DEF HandleInv, Init, ServerInit, NoServer
<1>5. LinkInv
  BY <1>3 DEF LinkInv, Init, ServerInit
<1>6. GhostOnlyFromUnpair /\ AuthorizedIsMarked
  BY DEF GhostOnlyFromUnpair, AuthorizedIsMarked, Init
<1>7. QED
  BY <1>1, <1>2, <1>4, <1>5, <1>6 DEF LanInv

LEMMA LanStep == LanInv /\ [Next]_vars => LanInv'
<1> SUFFICES ASSUME LanInv, [Next]_vars PROVE LanInv'
  OBVIOUS
<1>1. CASE UNCHANGED vars
  BY <1>1 DEF LanInv, vars, serverVars, listeners, conns, sending, bridge, commands, LanTypes, ServerTypes, BridgeTypes,
     CountInv, Born, Bound, Held, HandleInv, LinkInv, GhostOnlyFromUnpair, AuthorizedIsMarked
<1>2. CASE Next
  <2>1. LanTypes /\ CountInv /\ HandleInv /\ LinkInv /\ GhostOnlyFromUnpair /\ AuthorizedIsMarked
    BY DEF LanInv
  <2>2. centrals \subseteq Born
    BY <2>1 DEF LinkInv, Born, LanTypes, BridgeTypes
  <2>3. LanTypes' /\ CountInv' /\ HandleInv'
    BY <1>2, <2>1, <2>2, LanStepTypes, CountStep, HandleStep
  <2>4. LinkInv' /\ GhostOnlyFromUnpair'
    BY <1>2, <2>1, <2>3, LinkStep, GhostStep
  <2>5. AuthorizedIsMarked'
    BY <1>2, <2>1, <2>2, ServerMarked, LoopMarked, CommandMarked DEF Next
  <2>6. QED
    BY <2>3, <2>4, <2>5 DEF LanInv
<1>3. QED
  BY <1>1, <1>2

\* The types, at most one listener that holds the port, and no more connections
\* of a listener than it has slots.
THEOREM LanTypesOK == Spec => []TypeOK
<1>1. LanInv => TypeOK
  <2> SUFFICES ASSUME LanInv PROVE TypeOK
    OBVIOUS
  <2>1. Cardinality({g \in Gen : Bound(g)}) <= 1
    <3>1. CASE \E g \in Gen : Bound(g)
      <4>1. PICK g \in Gen : {h \in Gen : Bound(h)} = {g}
        BY <3>1 DEF LanInv, CountInv
      <4>2. QED
        BY <4>1, FS_Singleton
    <3>2. CASE ~\E g \in Gen : Bound(g)
      <4>1. {g \in Gen : Bound(g)} = {}
        BY <3>2
      <4>2. QED
        BY <4>1, FS_EmptySet
    <3>3. QED
      BY <3>1, <3>2
  <2>2. ServerTypeOK
    BY <2>1 DEF LanInv, CountInv, LanTypes, ServerTypes, ServerTypeOK, ListenerState, Phase, HoldsSlot
  <2>3. /\ loop.at \in {"idle", "ending", "auth", "reply", "reply_authorized", "mark", "save"}
        /\ loop.at # "idle" => loop.id \in Conn
    BY LoopIs DEF LanInv, LanTypes, BridgeTypes
  <2>4. QED
    BY <2>2, <2>3 DEF LanInv, LanTypes, BridgeTypes, TypeOK
<1>2. QED
  BY <1>1, LanStart, LanStep, PTL DEF Spec

\* The handle is that of the listener last switched on; without one the last did
\* fail to bind and the panel says so; only a listener that serves is advertised.
THEOREM HandleIsCurrent == Spec => []ListenerIsCurrent
<1>1. LanInv => ListenerIsCurrent
  BY DEF LanInv, HandleInv, ListenerIsCurrent, LanTypes, BridgeTypes
<1>2. QED
  BY <1>1, LanStart, LanStep, PTL DEF Spec

\* No end of a link, switch or late frame leaves an authorization without its link.
THEOREM NoOtherGhost == Spec => []GhostOnlyFromUnpair
<1>1. LanInv => GhostOnlyFromUnpair
  BY DEF LanInv
<1>2. QED
  BY <1>1, LanStart, LanStep, PTL DEF Spec

\* The server knows of every authorized connection, or will be told.
THEOREM ServerIsTold == Spec => []AuthorizedIsMarked
<1>1. LanInv => AuthorizedIsMarked
  BY DEF LanInv
<1>2. QED
  BY <1>1, LanStart, LanStep, PTL DEF Spec
===============================================================================
