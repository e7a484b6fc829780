------------------------------- MODULE BleProofs -------------------------------
(***************************************************************************)
(* That a queue of the BLE transport is never forgotten and belongs to an  *)
(* authorized subscriber, that an authorization ends with the link, and    *)
(* that what a device puts together is whole (WaitingIsOwed,               *)
(* QueueIsAuthorized, GhostOnlyFromSwitch and FramesAreWhole of Ble), for  *)
(* any centrals, frames, chunks and lengths of the two queues.             *)
(*                                                                         *)
(* What makes the second and the third inductive is said of the two queues *)
(* between the parties.  After a closure that offers a frame to a central  *)
(* that may not be sent to any more comes one that drops its queue, or one *)
(* that ends all links before that.  After an event that authorizes a      *)
(* central, or in place of it, comes the event that ends its session; that *)
(* power was lost is such an event only if the central will be counted     *)
(* among the subscribers by then.                                          *)
(*                                                                         *)
(* For the frames, a device is in step with the front of its queue (Agree): *)
(* it holds just the chunks of the current frame that went out, or missed   *)
(* the first of them.  That needs the order of the frames, in the queue and *)
(* in the closures that still offer some (Ascending, Fresh); and what is    *)
(* heard is a fold over the chunks that pump hands to the radio, of any     *)
(* number, so the step is proved by induction (Inductive).                  *)
(***************************************************************************)
EXTENDS Ble, FiniteSetTheorems, SequenceTheorems, WellFoundedInduction, TLAPS

\* The events that the callbacks report.
Event == (UNION {{Subscribed(c), Gone(c), AuthWrite(c)} : c \in Central}) \union {PoweredOff}

Closure == {OfferTo(c, f) : c \in Central, f \in Frame}
           \union {Revoke(cs) : cs \in SUBSET Central} \union {Start, Stop}

BleTypes ==
  /\ enabled \in BOOLEAN /\ mirror \subseteq Central /\ authorized \subseteq Central
  /\ frames \in 0 .. MaxFrames /\ loop \in Moments
  /\ served \subseteq SUBSET Central /\ revoked \subseteq SUBSET Central
  /\ events \in Seq(Event) /\ posts \in Seq(Closure)
  /\ power \in BOOLEAN /\ published \in BOOLEAN /\ subs \subseteq Central /\ owed \in BOOLEAN
  /\ queue \in [Central -> Queues(Frame) \union {NoQueue}]
  /\ link \in [Central -> {"away", "auth", "both"}]
  /\ outrun \subseteq Central /\ cut \subseteq Central /\ spilt \in BOOLEAN

Linked(c) == link[c] # "away"

\* The service is about to be taken down.
StopIn(ps) == \E i \in 1 .. Len(ps) : ps[i] = Stop

Stopping == StopIn(posts)

\* A central is subscribed by its link, and has a queue by its subscription.
LinkInv ==
  \A c \in Central : /\ c \in subs => Linked(c)
                     /\ queue[c] # NoQueue => c \in subs

\* A link that did not outrun the end of the one before has no end before it.
EndInv ==
  \A c \in Central \ outrun : Linked(c) =>
    /\ ~Ending(c)
    /\ \A cs \in served : c \in cs => Stopping

\* The closure i of ps offers c a frame.
Offered(ps, i, c) == \E f \in Frame : ps[i] = OfferTo(c, f)

\* A closure of ps after i drops the queue of c.
DropIn(ps, c, i) ==
  \E j \in 1 .. Len(ps) : j > i /\ \E cs \in SUBSET Central : ps[j] = Revoke(cs) /\ c \in cs

\* The queue of c will be dropped by a closure that is not posted yet, or with the service.
WillDrop(c) ==
  \/ \E cs \in revoked : c \in cs
  \/ At("forget") /\ c \in loop.ids
  \/ Stopping

\* A frame is offered to whom it may be sent, or a drop follows it.
OfferInv ==
  \A c \in Central \ outrun : \A i \in 1 .. Len(posts) :
    Offered(posts, i, c) /\ Linked(c) => c \in authorized \/ WillDrop(c) \/ DropIn(posts, c, i)

\* No event of es from i on, up to n, ends a link of c.
NoEnd(es, c, i, n) == \A k \in Nat : i <= k /\ k <= n => es[k] \notin {Gone(c), PoweredOff}

\* With the subscribers m, c is among them once the first n events of es are dealt with.
WillBeIn(es, m, c, n) ==
  \/ c \in m /\ NoEnd(es, c, 1, n)
  \/ \E i \in 1 .. n : es[i] = Subscribed(c) /\ NoEnd(es, c, i + 1, n)

\* The event j ends the session of c.
Ends(es, m, c, j) == es[j] = Gone(c) \/ (es[j] = PoweredOff /\ WillBeIn(es, m, c, j - 1))

\* An event after i does.
EndsAfter(es, m, c, i) == \E j \in 1 .. Len(es) : j > i /\ Ends(es, m, c, j)

EndFollows(c, i) == Linked(c) \/ EndsAfter(events, mirror, c, i)

\* One central at a time is authorized.
AuthInv == At("auth") => \E c \in Central : loop = [at |-> "auth", ids |-> {c}]

\* What may authorize c, or has, is followed by what ends its session.
SessionInv ==
  \A c \in Central \ cut :
    /\ Linked(c) => WillBeIn(events, mirror, c, Len(events))
    /\ \A i \in 1 .. Len(events) : events[i] = AuthWrite(c) => EndFollows(c, i)
    /\ At("auth") /\ c \in loop.ids => EndFollows(c, 0)
    /\ c \in authorized => \/ EndFollows(c, 0)
                           \/ loop.at \in {"ending", "leaving"} /\ c \in loop.ids
                           \/ \E cs \in served : c \in cs

BleInv ==
  /\ BleTypes /\ LinkInv /\ EndInv /\ OfferInv /\ QueueIsAuthorized
  /\ AuthInv /\ SessionInv /\ WaitingIsOwed

-------------------------------------------------------------------------------
(* Sequences *)

LEMMA Joined ==
  ASSUME NEW T, NEW q \in Seq(T), NEW r \in Seq(T)
  PROVE  /\ q \o r \in Seq(T) /\ Len(q) \in Nat /\ Len(r) \in Nat
         /\ Len(q \o r) = Len(q) + Len(r)
         /\ \A i \in 1 .. Len(q) : (q \o r)[i] = q[i]
         /\ \A i \in 1 .. Len(r) : (q \o r)[Len(q) + i] = r[i]
         /\ \A i \in 1 .. Len(q \o r) : i \in 1 .. Len(q) \/ i - Len(q) \in 1 .. Len(r)
<1>1. Len(q) \in Nat /\ Len(r) \in Nat
  BY LenProperties
<1>2. /\ q \o r \in Seq(T) /\ Len(q \o r) = Len(q) + Len(r)
      /\ \A i \in 1 .. Len(q) + Len(r) : (q \o r)[i] = IF i <= Len(q) THEN q[i] ELSE r[i - Len(q)]
  BY ConcatProperties
<1>3. ASSUME NEW i \in 1 .. Len(r) PROVE (q \o r)[Len(q) + i] = r[i]
  <2>1. Len(q) + i \in 1 .. Len(q) + Len(r) /\ ~(Len(q) + i <= Len(q)) /\ Len(q) + i - Len(q) = i
    BY <1>1
  <2>2. QED
    BY <1>2, <2>1
<1>4. \A i \in 1 .. Len(q) : (q \o r)[i] = q[i]
  BY <1>1, <1>2
<1>5. \A i \in 1 .. Len(q \o r) : i \in 1 .. Len(q) \/ i - Len(q) \in 1 .. Len(r)
  BY <1>1, <1>2
<1>6. QED
  BY <1>1, <1>2, <1>3, <1>4, <1>5

LEMMA Added ==
  ASSUME NEW T, NEW q \in Seq(T), NEW e \in T
  PROVE  /\ q \o <<e>> \in Seq(T) /\ Len(q) \in Nat /\ Len(q \o <<e>>) = Len(q) + 1
         /\ \A i \in 1 .. Len(q) : (q \o <<e>>)[i] = q[i]
         /\ (q \o <<e>>)[Len(q) + 1] = e
<1>1. <<e>> \in Seq(T) /\ Len(<<e>>) = 1 /\ <<e>>[1] = e
  OBVIOUS
<1>2. QED
  BY <1>1, Joined

LEMMA Shifted ==
  ASSUME NEW T, NEW q \in Seq(T), q # <<>>
  PROVE  /\ Tail(q) \in Seq(T) /\ Len(q) \in Nat /\ Len(q) > 0 /\ Len(Tail(q)) = Len(q) - 1
         /\ Head(q) = q[1] /\ Head(q) \in T
         /\ \A i \in 1 .. Len(Tail(q)) : Tail(q)[i] = q[i + 1] /\ i + 1 \in 1 .. Len(q)
<1>1. Len(q) \in Nat \ {0}
  BY EmptySeq
<1>2. /\ Tail(q) \in Seq(T) /\ Len(Tail(q)) = Len(q) - 1 /\ Head(q) \in T
      /\ \A i \in 1 .. Len(Tail(q)) : Tail(q)[i] = q[i + 1]
  BY HeadTailProperties
<1>3. QED
  BY <1>1, <1>2

\* SetToSeq lists every element, and none twice.
LEMMA SetToSeqIs ==
  ASSUME NEW T, IsFiniteSet(T)
  PROVE  /\ SetToSeq(T) \in Seq(T) /\ Cardinality(T) \in Nat /\ Len(SetToSeq(T)) = Cardinality(T)
         /\ \A i \in 1 .. Cardinality(T) : SetToSeq(T)[i] \in T
         /\ \A i, j \in 1 .. Cardinality(T) : SetToSeq(T)[i] = SetToSeq(T)[j] => i = j
         /\ \A x \in T : \E i \in 1 .. Cardinality(T) : SetToSeq(T)[i] = x
<1> DEFINE n == Cardinality(T)
           f == SetToSeq(T)
<1>1. n \in Nat /\ ExistsBijection(1 .. n, T)
  BY FS_CardinalityType
<1>2. f \in [1 .. n -> T] /\ IsInjective(f)
  <2>1. PICK g \in Bijection(1 .. n, T) : TRUE
    BY <1>1 DEF ExistsBijection
  <2>2. g \in [1 .. n -> T] /\ IsInjective(g)
    BY DEF Bijection, Injection
  <2>3. QED
    BY <2>2 DEF SetToSeq
<1>3. f \in Injection(1 .. n, T)
  BY <1>2 DEF Injection
<1>4. IsFiniteSet(1 .. n) /\ Cardinality(1 .. n) = n
  BY <1>1, FS_Interval
<1>5. f \in Surjection(1 .. n, T)
  BY <1>3, <1>4, FS_Injection
<1> HIDE DEF f
<1>6. \A x \in T : \E i \in 1 .. n : f[i] = x
  BY <1>5 DEF Surjection, Range
<1>7. f \in Seq(T) /\ Len(f) = n
  BY <1>1, <1>2, SeqDef
<1>8. \A i, j \in 1 .. n : f[i] = f[j] => i = j
  BY <1>2 DEF IsInjective
<1>9. QED
  BY <1>1, <1>2, <1>6, <1>7, <1>8 DEF f

-------------------------------------------------------------------------------
(* The queue of one central *)

Chunk == [frame : Frame, idx : 0 .. Chunks - 1]

LEMMA ChunksFromIs ==
  ASSUME NEW f \in Frame \union {Absent}, NEW k \in 0 .. Chunks - 1
  PROVE  ChunksFrom(f, k) \in Seq(Chunk)
<1>1. CASE f = Absent
  BY <1>1, EmptySeq DEF ChunksFrom
<1>2. CASE f # Absent
  <2>1. Chunks - k \in Nat
    BY ChunksAssumption
  <2>2. \A i \in 1 .. Chunks - k : [frame |-> f, idx |-> k + i - 1] \in Chunk
    BY <1>2, ChunksAssumption DEF Chunk
  <2>3. ChunksFrom(f, k) = [i \in 1 .. Chunks - k |-> [frame |-> f, idx |-> k + i - 1]]
    BY <1>2 DEF ChunksFrom
  <2>4. ChunksFrom(f, k) \in [1 .. Chunks - k -> Chunk]
    BY <2>2, <2>3
  <2>5. QED
    BY <2>1, <2>4, SeqDef
<1>3. QED
  BY <1>1, <1>2

LEMMA AheadIs == ASSUME NEW q \in Queues(Frame) PROVE Ahead(q) \in Seq(Chunk) /\ Len(Ahead(q)) \in Nat
<1>1. CASE q.paused
  BY <1>1, EmptySeq DEF Ahead
<1>2. CASE ~q.paused
  <2>1. 0 \in 0 .. Chunks - 1
    BY ChunksAssumption
  <2>2. ChunksFrom(q.current, q.sent) \in Seq(Chunk) /\ ChunksFrom(q.next, 0) \in Seq(Chunk)
    BY <2>1, ChunksFromIs DEF Queues
  <2>3. Ahead(q) = ChunksFrom(q.current, q.sent) \o ChunksFrom(q.next, 0)
    BY <1>2 DEF Ahead
  <2>4. QED
    BY <2>2, <2>3, Joined, LenProperties
<1>3. QED
  BY <1>1, <1>2

LEMMA EmptyIs == Empty \in Queues(Frame) /\ ~Empty.paused
  BY ChunksAssumption DEF Empty, Queues

LEMMA OfferIs ==
  ASSUME NEW q \in Queues(Frame), NEW f \in Frame
  PROVE  Offer(q, f) \in Queues(Frame) /\ ~Offer(q, f).paused
<1>1. CASE Started(q)
  BY <1>1 DEF Offer, Queues
<1>2. CASE ~Started(q)
  <2>1. Offer(q, f) = [current |-> f, sent |-> 0, next |-> Absent, paused |-> FALSE]
    BY <1>2 DEF Offer, Empty
  <2>2. 0 \in 0 .. Chunks - 1
    BY ChunksAssumption
  <2>3. QED
    BY <2>1, <2>2 DEF Queues
<1>3. QED
  BY <1>1, <1>2

LEMMA OnReadyIs == \A q \in Queues(Frame) : OnReady(q) \in Queues(Frame) /\ ~OnReady(q).paused
  BY DEF OnReady, Queues

\* A queue that was pumped has nothing left, or waits for the radio that refused.
LEMMA PumpedIs ==
  ASSUME NEW q \in Queues(Frame), NEW n \in Nat, n <= Len(Ahead(q))
  PROVE  /\ Pumped(q, n) \in Queues(Frame)
         /\ ~q.paused => Pumped(q, n) = Empty \/ (Pumped(q, n).paused /\ n < Len(Ahead(q)))
         /\ q.paused => Pumped(q, n) = q
<1> DEFINE a == Ahead(q)
           left == SubSeq(a, n + 1, Len(a))
<1>1. a \in Seq(Chunk) /\ Len(a) \in Nat
  BY AheadIs
<1>2. CASE q.paused
  BY <1>2 DEF Pumped
<1>3. CASE ~q.paused /\ left = <<>>
  BY <1>3, EmptyIs DEF Pumped
<1>4. CASE ~q.paused /\ left # <<>>
  <2>1. left \in Seq(Chunk) /\ Len(left) = IF n + 1 <= Len(a) THEN Len(a) - (n + 1) + 1 ELSE 0
    <3>1. \A i \in n + 1 .. Len(a) : a[i] \in Chunk
      BY <1>1, ElementOfSeq
    <3>2. QED
      BY <1>1, <3>1, SubSeqProperties
  <2>2. Len(left) # 0
    BY <1>4, <2>1, EmptySeq
  <2>3. n < Len(a)
    BY <1>1, <2>1, <2>2
  <2>4. Head(left) \in Chunk
    BY <1>4, <2>1, HeadTailProperties
  <2>5. Pumped(q, n) = [current |-> Head(left).frame, sent |-> Head(left).idx, paused |-> TRUE,
                        next |-> IF Head(left).frame = q.current THEN q.next ELSE Absent]
    BY <1>4 DEF Pumped
  <2>6. Pumped(q, n) \in Queues(Frame) /\ Pumped(q, n).paused
    <3>1. PICK nx \in Frame \union {Absent} : nx = IF Head(left).frame = q.current THEN q.next ELSE Absent
      BY DEF Queues
    <3>2. PICK f \in Frame, k \in 0 .. Chunks - 1 : f = Head(left).frame /\ k = Head(left).idx
      BY <2>4 DEF Chunk
    <3>3. Pumped(q, n) = [current |-> f, sent |-> k, paused |-> TRUE, next |-> nx]
      BY <2>5, <3>1, <3>2
    <3>4. QED
      BY <3>3 DEF Queues
  <2>7. QED
    BY <1>4, <2>3, <2>6
<1>5. QED
  BY <1>2, <1>3, <1>4

\* What pump does to all the queues.
LEMMA PumpAllIs ==
  ASSUME NEW q \in [Central -> Queues(Frame) \union {NoQueue}], NEW cs \in SUBSET Central,
         NEW n \in Takes(cs), NEW spills, NEW was \in BOOLEAN,
         PumpAll(q, cs, n, spills, was)
  PROVE  /\ queue' \in [Central -> Queues(Frame) \union {NoQueue}]
         /\ owed' \in BOOLEAN /\ (was => owed')
         /\ \A c \in Central : queue'[c] = NoQueue <=> q[c] = NoQueue
         /\ \A c \in Central \ cs : queue'[c] = q[c]
         /\ \A c \in cs : \/ queue'[c] \in {NoQueue, Empty}
                          \/ q[c].paused /\ queue'[c] = q[c]
                          \/ queue'[c].paused /\ owed'
<1>1. /\ queue' = [c \in Central |-> IF c \in cs /\ q[c] # NoQueue THEN Pumped(q[c], n[c]) ELSE q[c]]
      /\ owed' = (was \/ \E c \in cs : n[c] < Len(QueueAhead(q, c)) \/ spills[c] # {})
      /\ \A c \in cs : n[c] <= Len(QueueAhead(q, c))
  BY DEF PumpAll
<1>2. ASSUME NEW c \in cs, q[c] # NoQueue
      PROVE  /\ Pumped(q[c], n[c]) \in Queues(Frame)
             /\ \/ Pumped(q[c], n[c]) = Empty
                \/ q[c].paused /\ Pumped(q[c], n[c]) = q[c]
                \/ Pumped(q[c], n[c]).paused /\ owed'
  <2>1. q[c] \in Queues(Frame) /\ QueueAhead(q, c) = Ahead(q[c])
    BY <1>2 DEF QueueAhead
  <2>2. n[c] \in Nat /\ n[c] <= Len(Ahead(q[c]))
    BY <1>1, <2>1, ChunksAssumption DEF Takes
  <2>3. QED
    BY <1>1, <2>1, <2>2, PumpedIs DEF Queues
<1>3. \A c \in Central : queue'[c] = IF c \in cs /\ q[c] # NoQueue THEN Pumped(q[c], n[c]) ELSE q[c]
  BY <1>1
<1>4. NoQueue \notin Queues(Frame)
  BY BleAssumption DEF Frame
<1>5. \A c \in Central : queue'[c] \in Queues(Frame) \union {NoQueue}
  BY <1>2, <1>3
<1>6. queue' \in [Central -> Queues(Frame) \union {NoQueue}]
  BY <1>1, <1>5
<1>7. owed' \in BOOLEAN /\ (was => owed')
  BY <1>1
<1>8. \A c \in Central : queue'[c] = NoQueue <=> q[c] = NoQueue
  BY <1>2, <1>3, <1>4
<1>9. QED
  BY <1>2, <1>3, <1>6, <1>7, <1>8

-------------------------------------------------------------------------------
(* Events and closures *)

LEMMA EventIs ==
  /\ PoweredOff \in Event /\ PoweredOff.type = "off" /\ PoweredOff.ids = {}
  /\ \A c \in Central : /\ Subscribed(c) \in Event /\ Gone(c) \in Event /\ AuthWrite(c) \in Event
                        /\ Subscribed(c).type = "subscribed" /\ Subscribed(c).ids = {c}
                        /\ Gone(c).type = "gone" /\ Gone(c).ids = {c}
                        /\ AuthWrite(c).type = "auth" /\ AuthWrite(c).ids = {c}
  BY DEF Event, PoweredOff, Subscribed, Gone, AuthWrite

LEMMA EventOf ==
  ASSUME NEW e \in Event
  PROVE  e = PoweredOff \/ \E c \in Central : e \in {Subscribed(c), Gone(c), AuthWrite(c)}
  BY DEF Event

LEMMA EventByType ==
  ASSUME NEW e \in Event
  PROVE  /\ e.type = "subscribed" => \E c \in Central : e = Subscribed(c)
         /\ e.type = "gone" => \E c \in Central : e = Gone(c)
         /\ e.type = "off" => e = PoweredOff
         /\ e.type = "auth" => \E c \in Central : e = AuthWrite(c)
  BY EventOf, EventIs

LEMMA EventsApart ==
  \A c, d \in Central :
    /\ Subscribed(c) \notin {Gone(d), AuthWrite(d), PoweredOff}
    /\ Gone(c) \notin {AuthWrite(d), PoweredOff} /\ AuthWrite(c) # PoweredOff
    /\ Subscribed(c) = Subscribed(d) => c = d
    /\ Gone(c) = Gone(d) => c = d
    /\ AuthWrite(c) = AuthWrite(d) => c = d
<1>1. \A c, d : {c} = {d} => c = d
  OBVIOUS
<1>2. QED
  BY <1>1, EventIs

LEMMA ClosureIs ==
  /\ Start \in Closure /\ Stop \in Closure /\ Start.type = "start" /\ Stop.type = "stop"
  /\ \A cs \in SUBSET Central :
       Revoke(cs) \in Closure /\ Revoke(cs).type = "revoke" /\ Revoke(cs).ids = cs
  /\ \A c \in Central, f \in Frame :
       /\ OfferTo(c, f) \in Closure /\ OfferTo(c, f).type = "offer"
       /\ OfferTo(c, f).ids = {c} /\ OfferTo(c, f).frame = f
<1>1. Start \in Closure /\ Stop \in Closure /\ Start.type = "start" /\ Stop.type = "stop"
  BY DEF Closure, Start, Stop
<1>2. ASSUME NEW cs \in SUBSET Central
      PROVE  Revoke(cs) \in Closure /\ Revoke(cs).type = "revoke" /\ Revoke(cs).ids = cs
  BY DEF Closure, Revoke
<1>3. ASSUME NEW c \in Central, NEW f \in Frame
      PROVE  /\ OfferTo(c, f) \in Closure /\ OfferTo(c, f).type = "offer"
             /\ OfferTo(c, f).ids = {c} /\ OfferTo(c, f).frame = f
  <2>1. OfferTo(c, f) \in Closure
    BY DEF Closure
  <2>2. QED
    BY <2>1 DEF OfferTo
<1>4. QED
  BY <1>1, <1>2, <1>3

LEMMA ClosureByType ==
  ASSUME NEW p \in Closure
  PROVE  /\ p.type = "offer" => \E c \in Central, f \in Frame : p = OfferTo(c, f)
         /\ p.type = "revoke" => \E cs \in SUBSET Central : p = Revoke(cs)
         /\ p.type = "start" => p = Start
         /\ p.type = "stop" => p = Stop
<1>1. \/ \E c \in Central, f \in Frame : p = OfferTo(c, f)
      \/ \E cs \in SUBSET Central : p = Revoke(cs)
      \/ p = Start \/ p = Stop
  BY DEF Closure
<1>2. QED
  BY <1>1, ClosureIs

LEMMA LoopIs ==
  /\ Idle \in Moments /\ Idle.at = "idle"
  /\ \A at \in {"ending", "leaving", "forget", "auth"}, cs \in SUBSET Central :
       LET l == [at |-> at, ids |-> cs] IN l \in Moments /\ l.at = at /\ l.ids = cs
  /\ \A l \in Moments : l.ids \subseteq Central
  BY DEF Moments, Idle

\* The head of the events when one of a type is taken.
LEMMA TakenIs ==
  ASSUME BleTypes, NEW type, Take(type)
  PROVE  /\ events # <<>> /\ events' = Tail(events) /\ events' \in Seq(Event)
         /\ Head(events) \in Event /\ Head(events).type = type /\ loop.at = "idle"
  BY Shifted DEF Take, At, BleTypes

\* The head of the closures when one of a type is run.
LEMMA RunIs ==
  ASSUME BleTypes, NEW type, Run(type)
  PROVE  /\ posts # <<>> /\ posts' = Tail(posts) /\ posts' \in Seq(Closure)
         /\ Head(posts) \in Closure /\ Head(posts).type = type
  BY Shifted DEF Run, BleTypes

LEMMA ReportedOne ==
  ASSUME BleTypes, NEW e \in Event, Report(<<e>>)
  PROVE  events' = events \o <<e>> /\ events' \in Seq(Event)
  BY Added DEF Report, BleTypes

LEMMA PostedOne ==
  ASSUME BleTypes, NEW p \in Closure, Post(<<p>>)
  PROVE  posts' = posts \o <<p>> /\ posts' \in Seq(Closure)
  BY Added DEF Post, BleTypes

\* The closures that offer one frame to each of its targets.
LEMMA OffersAre ==
  ASSUME BleTypes, OnSnapshot
  PROVE  /\ frames + 1 \in Frame /\ frames' = frames + 1
         /\ \E ps \in Seq(Closure) :
              /\ posts' = posts \o ps
              /\ \A i \in 1 .. Len(ps) : \E c \in Targets : ps[i] = OfferTo(c, frames + 1)
              /\ \A i, j \in 1 .. Len(ps) : ps[i] = ps[j] => i = j
<1> DEFINE f == frames + 1
           n == Cardinality(Targets)
           ps == [i \in 1 .. n |-> OfferTo(SetToSeq(Targets)[i], f)]
<1>1. f \in Frame /\ frames' = f /\ Targets \subseteq Central /\ posts' = posts \o ps
  BY BleAssumption DEF OnSnapshot, BleTypes, Frame, Targets, Post
<1>2. IsFiniteSet(Targets)
  BY <1>1, BleAssumption, FS_Subset
<1>3. /\ n \in Nat /\ \A i \in 1 .. n : SetToSeq(Targets)[i] \in Targets
      /\ \A i, j \in 1 .. n : SetToSeq(Targets)[i] = SetToSeq(Targets)[j] => i = j
  BY <1>2, SetToSeqIs
<1>4. \A i \in 1 .. n : ps[i] \in Closure /\ \E c \in Targets : ps[i] = OfferTo(c, f)
  BY <1>1, <1>3, ClosureIs
<1>5. ps \in [1 .. n -> Closure]
  BY <1>4
<1>6. ps \in Seq(Closure) /\ Len(ps) = n
  BY <1>3, <1>5, SeqDef
<1>7. ASSUME NEW i \in 1 .. n, NEW j \in 1 .. n, ps[i] = ps[j] PROVE i = j
  <2>1. OfferTo(SetToSeq(Targets)[i], f).ids = OfferTo(SetToSeq(Targets)[j], f).ids
    BY <1>7
  <2>2. {SetToSeq(Targets)[i]} = {SetToSeq(Targets)[j]}
    BY <2>1 DEF OfferTo
  <2>3. \A x, y : {x} = {y} => x = y
    OBVIOUS
  <2>4. QED
    BY <1>3, <2>2, <2>3
<1>8. QED
  BY <1>1, <1>4, <1>6, <1>7

\* What is still told of the links that end with the service.
LEMMA GoneReports ==
  ASSUME BleTypes, StopService
  PROVE  \E es \in Seq(Event) :
           /\ events' = events \o es
           /\ \A i \in 1 .. Len(es) : \E c \in Central : Linked(c) /\ es[i] = Gone(c)
<1>1. PICK cs \in SUBSET {c \in Central : link[c] # "away"} :
        Report([i \in 1 .. Cardinality(cs) |-> Gone(SetToSeq(cs)[i])])
  BY DEF StopService
<1> DEFINE n == Cardinality(cs)
           es == [i \in 1 .. n |-> Gone(SetToSeq(cs)[i])]
<1>2. cs \in SUBSET Central /\ \A c \in cs : Linked(c)
  BY DEF Linked
<1>3. IsFiniteSet(cs)
  BY <1>2, BleAssumption, FS_Subset
<1>4. n \in Nat /\ \A i \in 1 .. n : SetToSeq(cs)[i] \in cs
  BY <1>3, SetToSeqIs
<1>5. \A i \in 1 .. n : es[i] \in Event /\ \E c \in cs : es[i] = Gone(c)
  BY <1>2, <1>4, EventIs
<1>6. es \in Seq(Event) /\ Len(es) = n
  <2>1. es \in [1 .. n -> Event]
    BY <1>5
  <2>2. QED
    BY <1>4, <2>1, SeqDef
<1>7. events' = events \o es
  BY <1>1 DEF Report
<1>8. QED
  BY <1>2, <1>5, <1>6, <1>7

-------------------------------------------------------------------------------
(* Types *)

LEMMA LinksEndIs ==
  ASSUME BleTypes, NEW cs \in SUBSET Central, LinksEnd(cs)
  PROVE  /\ link' \in [Central -> {"away", "auth", "both"}]
         /\ \A c \in Central : link'[c] = IF c \in cs THEN "away" ELSE link[c]
         /\ outrun' = outrun \ cs /\ subs' = subs \ cs
  BY DEF LinksEnd, BleTypes

LEMMA DropQueuesIs ==
  ASSUME BleTypes, NEW cs \in SUBSET Central, queue' = DropQueues(cs)
  PROVE  /\ queue' \in [Central -> Queues(Frame) \union {NoQueue}]
         /\ \A c \in Central : queue'[c] = IF c \in cs THEN NoQueue ELSE queue[c]
  BY DEF DropQueues, BleTypes

LEMMA EnqueuedIs ==
  ASSUME BleTypes, NEW c \in Central, NEW f \in Frame, c \in subs
  PROVE  /\ Enqueued(c, f) \in [Central -> Queues(Frame) \union {NoQueue}]
         /\ Enqueued(c, f)[c] \in Queues(Frame) /\ ~Enqueued(c, f)[c].paused
         /\ \A d \in Central \ {c} : Enqueued(c, f)[d] = queue[d]
<1> DEFINE was == IF queue[c] = NoQueue THEN Empty ELSE queue[c]
           o == Offer(was, f)
<1>1. was \in Queues(Frame)
  BY EmptyIs DEF BleTypes
<1>2. o \in Queues(Frame) /\ ~o.paused
  BY <1>1, OfferIs
<1>3. Enqueued(c, f) = [queue EXCEPT ![c] = o]
  BY DEF Enqueued
<1> HIDE DEF o
<1>4. QED
  BY <1>2, <1>3 DEF BleTypes

\* What OfferFrame does: the queue of the one central is pumped, or there is none.
LEMMA OfferFrameIs ==
  ASSUME BleTypes, OfferFrame
  PROVE  \E c \in Central, f \in Frame :
           /\ Head(posts) = OfferTo(c, f)
           /\ queue' \in [Central -> Queues(Frame) \union {NoQueue}] /\ owed' \in BOOLEAN
           /\ spilt' \in BOOLEAN /\ (owed => owed')
           /\ \A d \in Central : c \notin subs \/ d # c => queue'[d] = queue[d]
           /\ c \in subs => queue'[c] = Empty \/ (queue'[c].paused /\ owed')
<1>1. PICK c \in Central, f \in Frame : Head(posts) = OfferTo(c, f)
  BY RunIs, ClosureByType DEF OfferFrame
<1> DEFINE q == Enqueued(c, f)
<1>2. IF c \in subs
      THEN \E n \in Takes({c}), spills \in Spills({c}) : PumpAll(q, {c}, n, spills, owed)
      ELSE queue' = q /\ UNCHANGED <<owed, rx, spilt>>
  <2>1. Head(posts).ids = {c} /\ Head(posts).frame = f
    BY <1>1, ClosureIs
  <2>2. QED
    BY <2>1 DEF OfferFrame
<1>3. CASE c \notin subs
  <2>1. queue' = queue /\ UNCHANGED <<owed, spilt>>
    BY <1>2, <1>3 DEF Enqueued
  <2>2. QED
    BY <1>1, <1>3, <2>1 DEF BleTypes
<1>4. CASE c \in subs
  <2>1. PICK n \in Takes({c}), spills \in Spills({c}) : PumpAll(q, {c}, n, spills, owed)
    BY <1>2, <1>4
  <2>2. /\ q \in [Central -> Queues(Frame) \union {NoQueue}] /\ q[c] \in Queues(Frame) /\ ~q[c].paused
        /\ \A d \in Central \ {c} : q[d] = queue[d]
    BY <1>4, EnqueuedIs
  <2>3. NoQueue \notin Queues(Frame)
    BY BleAssumption DEF Frame
  <2> HIDE DEF q
  <2>4. /\ queue' \in [Central -> Queues(Frame) \union {NoQueue}] /\ owed' \in BOOLEAN /\ (owed => owed')
        /\ queue'[c] = NoQueue <=> q[c] = NoQueue
        /\ \A d \in Central \ {c} : queue'[d] = q[d]
        /\ \/ queue'[c] \in {NoQueue, Empty}
           \/ q[c].paused /\ queue'[c] = q[c]
           \/ queue'[c].paused /\ owed'
    <3>1. owed \in BOOLEAN /\ {c} \in SUBSET Central
      BY DEF BleTypes
    <3>2. QED
      BY <2>1, <2>2, <3>1, PumpAllIs
  <2>5. spilt' \in BOOLEAN
    BY <2>1 DEF PumpAll, BleTypes
  <2>6. queue'[c] = Empty \/ (queue'[c].paused /\ owed')
    BY <2>2, <2>3, <2>4
  <2>7. QED
    BY <1>1, <1>4, <2>2, <2>4, <2>5, <2>6
<1>5. QED
  BY <1>3, <1>4

LEMMA ReadyIs ==
  ASSUME BleTypes, NEW n \in Takes(Central), NEW spills, Ready(n, spills)
  PROVE  /\ queue' \in [Central -> Queues(Frame) \union {NoQueue}] /\ owed' \in BOOLEAN /\ spilt' \in BOOLEAN
         /\ \A c \in Central : /\ queue'[c] = NoQueue <=> queue[c] = NoQueue
                               /\ queue'[c] \in {NoQueue, Empty} \/ (queue'[c].paused /\ owed')
<1> DEFINE q == [c \in Central |-> IF queue[c] = NoQueue THEN NoQueue ELSE OnReady(queue[c])]
<1>1. NoQueue \notin Queues(Frame)
  BY BleAssumption DEF Frame
<1>2. /\ q \in [Central -> Queues(Frame) \union {NoQueue}]
      /\ \A c \in Central : (q[c] = NoQueue <=> queue[c] = NoQueue) /\ (q[c] # NoQueue => ~q[c].paused)
  BY <1>1, OnReadyIs DEF BleTypes
<1>3. PumpAll(q, Central, n, spills, FALSE)
  BY DEF Ready
<1> HIDE DEF q
<1>4. /\ queue' \in [Central -> Queues(Frame) \union {NoQueue}] /\ owed' \in BOOLEAN
      /\ \A c \in Central : queue'[c] = NoQueue <=> q[c] = NoQueue
      /\ \A c \in Central : \/ queue'[c] \in {NoQueue, Empty}
                            \/ q[c].paused /\ queue'[c] = q[c]
                            \/ queue'[c].paused /\ owed'
  BY <1>2, <1>3, PumpAllIs
<1>5. spilt' \in BOOLEAN
  BY <1>3 DEF PumpAll, BleTypes
<1>6. QED
  BY <1>2, <1>4, <1>5

LEMMA BleTypesInit == Init => BleTypes
<1> SUFFICES ASSUME Init PROVE BleTypes
  OBVIOUS
<1>1. loop \in Moments /\ events \in Seq(Event) /\ posts \in Seq(Closure)
  BY LoopIs, EmptySeq DEF Init
<1>2. queue \in [Central -> Queues(Frame) \union {NoQueue}] /\ link \in [Central -> {"away", "auth", "both"}]
  BY DEF Init
<1>3. frames \in 0 .. MaxFrames
  BY BleAssumption DEF Init
<1>4. /\ enabled \in BOOLEAN /\ power \in BOOLEAN /\ published \in BOOLEAN /\ owed \in BOOLEAN /\ spilt \in BOOLEAN
      /\ mirror = {} /\ authorized = {} /\ served = {} /\ revoked = {} /\ subs = {} /\ outrun = {} /\ cut = {}
  BY DEF Init
<1>5. QED
  BY <1>1, <1>2, <1>3, <1>4 DEF BleTypes

\* The commands and the tick.
Command ==
  \/ ToggleOn \/ ToggleOff \/ OnSnapshot
  \/ \E cs \in served : EndServed(cs)
  \/ \E cs \in SUBSET authorized : Unpair(cs)
  \/ \E cs \in revoked : DropSessions(cs)

LEMMA CommandTypes == ASSUME BleTypes, Command PROVE BleTypes'
<1>1. CASE ToggleOn
  <2>1. posts' \in Seq(Closure)
    BY <1>1, ClosureIs, PostedOne DEF ToggleOn
  <2>2. QED
    BY <1>1, <2>1 DEF ToggleOn, BleTypes, mainVars, centralVars
<1>2. CASE ToggleOff
  <2>1. posts' \in Seq(Closure)
    BY <1>2, ClosureIs, PostedOne DEF ToggleOff
  <2>2. cut' \subseteq Central /\ served' \subseteq SUBSET Central /\ mirror' \subseteq Central
    BY <1>2 DEF ToggleOff, BleTypes
  <2>3. QED
    BY <1>2, <2>1, <2>2 DEF ToggleOff, BleTypes, mainVars
<1>3. CASE OnSnapshot
  <2>1. posts' \in Seq(Closure)
    <3>1. PICK ps \in Seq(Closure) : posts' = posts \o ps
      BY <1>3, OffersAre
    <3>2. posts \in Seq(Closure)
      BY DEF BleTypes
    <3>3. QED
      BY <3>1, <3>2, Joined
  <2>2. frames' \in 0 .. MaxFrames
    BY <1>3, BleAssumption DEF OnSnapshot, BleTypes
  <2>3. QED
    BY <1>3, <2>1, <2>2 DEF OnSnapshot, BleTypes, mainVars, centralVars
<1>4. ASSUME NEW cs \in served, EndServed(cs) PROVE BleTypes'
  BY <1>4 DEF EndServed, BleTypes, mainVars, centralVars
<1>5. ASSUME NEW cs \in SUBSET authorized, Unpair(cs) PROVE BleTypes'
  BY <1>5 DEF Unpair, BleTypes, mainVars, centralVars
<1>6. ASSUME NEW cs \in revoked, DropSessions(cs) PROVE BleTypes'
  <2>1. cs \in SUBSET Central
    BY DEF BleTypes
  <2>2. posts' \in Seq(Closure)
    BY <1>6, <2>1, ClosureIs, PostedOne DEF DropSessions
  <2>3. QED
    BY <1>6, <2>2 DEF DropSessions, BleTypes, mainVars, centralVars
<1>7. QED
  BY <1>1, <1>2, <1>3, <1>4, <1>5, <1>6 DEF Command

LEMMA LoopTypes == ASSUME BleTypes, Loop PROVE BleTypes'
<1>1. ASSUME NEW type, Take(type) PROVE Head(events).ids \subseteq Central /\ events' \in Seq(Event)
  BY <1>1, TakenIs, EventOf, EventIs
<1>2. CASE TakeSubscribed
  <2>1. mirror' \subseteq Central /\ events' \in Seq(Event)
    BY <1>1, <1>2 DEF TakeSubscribed, BleTypes
  <2>2. QED
    BY <1>2, <2>1 DEF TakeSubscribed, BleTypes, mainVars, centralVars
<1>3. CASE TakePoweredOff
  <2>1. mirror' \subseteq Central /\ events' \in Seq(Event) /\ loop' \in Moments
    BY <1>1, <1>3, LoopIs DEF TakePoweredOff, GoTo, BleTypes
  <2>2. QED
    BY <1>3, <2>1 DEF TakePoweredOff, BleTypes, mainVars, centralVars
<1>4. CASE TakeGone
  <2>1. mirror' \subseteq Central /\ events' \in Seq(Event) /\ loop' \in Moments
    BY <1>1, <1>4, LoopIs DEF TakeGone, GoTo, BleTypes
  <2>2. QED
    BY <1>4, <2>1 DEF TakeGone, BleTypes, mainVars, centralVars
<1>5. CASE EndSession
  <2>1. loop' \in Moments
    BY <1>5, LoopIs DEF EndSession, BleTypes, Moments
  <2>2. QED
    BY <1>5, <2>1 DEF EndSession, BleTypes, mainVars, centralVars
<1>6. CASE ForgetCentral
  <2>1. loop.ids \in SUBSET Central
    BY LoopIs DEF BleTypes
  <2>2. posts' \in Seq(Closure) /\ loop' \in Moments
    BY <1>6, <2>1, LoopIs, ClosureIs, PostedOne DEF ForgetCentral
  <2>3. QED
    BY <1>6, <2>2 DEF ForgetCentral, BleTypes, mainVars, centralVars
<1>7. CASE TakeAuthWrite
  <2>1. events' \in Seq(Event) /\ loop' \in Moments
    BY <1>1, <1>7, LoopIs DEF TakeAuthWrite, GoTo, BleTypes
  <2>2. QED
    BY <1>7, <2>1 DEF TakeAuthWrite, BleTypes, mainVars, centralVars
<1>8. CASE HandleAuth
  <2>1. loop' \in Moments /\ authorized' \subseteq Central
    BY <1>8, LoopIs DEF HandleAuth, BleTypes
  <2>2. QED
    BY <1>8, <2>1 DEF HandleAuth, BleTypes, mainVars, centralVars
<1>9. QED
  BY <1>2, <1>3, <1>4, <1>5, <1>6, <1>7, <1>8 DEF Loop

LEMMA ClosureTypes == ASSUME BleTypes, Closures PROVE BleTypes'
<1>1. ASSUME NEW type, Run(type) PROVE Head(posts).ids \subseteq Central /\ posts' \in Seq(Closure)
  <2>1. Head(posts) \in Closure /\ posts' \in Seq(Closure)
    BY <1>1, RunIs
  <2>2. \/ \E d \in Central, f \in Frame : Head(posts) = OfferTo(d, f)
        \/ \E cs \in SUBSET Central : Head(posts) = Revoke(cs)
        \/ Head(posts) \in {Start, Stop}
    BY <2>1 DEF Closure
  <2>3. Start.ids = {} /\ Stop.ids = {}
    BY DEF Start, Stop
  <2>4. Head(posts).ids \subseteq Central
    BY <2>2, <2>3, ClosureIs
  <2>5. QED
    BY <2>1, <2>4
<1>2. CASE OfferFrame
  <2>1. PICK c \in Central, f \in Frame :
          queue' \in [Central -> Queues(Frame) \union {NoQueue}] /\ owed' \in BOOLEAN /\ spilt' \in BOOLEAN
    BY <1>2, OfferFrameIs
  <2>2. posts' \in Seq(Closure)
    BY <1>1, <1>2 DEF OfferFrame
  <2>3. QED
    BY <1>2, <2>1, <2>2 DEF OfferFrame, BleTypes, runtimeVars
<1>3. CASE RevokeTargets
  <2>1. posts' \in Seq(Closure) /\ queue' \in [Central -> Queues(Frame) \union {NoQueue}]
    BY <1>1, <1>3, DropQueuesIs DEF RevokeTargets
  <2>2. QED
    BY <1>3, <2>1 DEF RevokeTargets, BleTypes, runtimeVars
<1>4. CASE StartService
  <2>1. posts' \in Seq(Closure) /\ published' \in BOOLEAN
    BY <1>1, <1>4 DEF StartService, BleTypes
  <2>2. QED
    BY <1>4, <2>1 DEF StartService, BleTypes, runtimeVars, centralVars
<1>5. CASE StopService
  <2>1. posts' \in Seq(Closure) /\ queue' \in [Central -> Queues(Frame) \union {NoQueue}]
    BY <1>1, <1>5, DropQueuesIs DEF StopService
  <2>2. /\ link' \in [Central -> {"away", "auth", "both"}]
        /\ outrun' = outrun \ Central /\ subs' = subs \ Central
    BY <1>5, LinksEndIs DEF StopService
  <2>3. events' \in Seq(Event)
    <3>1. PICK es \in Seq(Event) : events' = events \o es
      BY <1>5, GoneReports
    <3>2. events \in Seq(Event)
      BY DEF BleTypes
    <3>3. QED
      BY <3>1, <3>2, Joined
  <2>4. published' = FALSE /\ owed' = FALSE /\ cut' \subseteq Central
    BY <1>5 DEF StopService, BleTypes
  <2>5. QED
    BY <1>5, <2>1, <2>2, <2>3, <2>4 DEF StopService, BleTypes, runtimeVars
<1>6. QED
  BY <1>2, <1>3, <1>4, <1>5 DEF Closures

\* The callbacks of one central.
Callback ==
  \E c \in Central : SubscribeAuth(c) \/ SubscribeSnapshot(c) \/ Unsubscribe(c) \/ WriteAuth(c)

LEMMA CallbackTypes == ASSUME BleTypes, Callback PROVE BleTypes'
<1>1. PICK c \in Central : SubscribeAuth(c) \/ SubscribeSnapshot(c) \/ Unsubscribe(c) \/ WriteAuth(c)
  BY DEF Callback
<1>2. CASE SubscribeAuth(c)
  <2>1. events' \in Seq(Event)
    BY <1>2, EventIs, ReportedOne DEF SubscribeAuth
  <2>2. /\ link' \in [Central -> {"away", "auth", "both"}] /\ subs' \subseteq Central
        /\ cut' \subseteq Central /\ outrun' \subseteq Central
    BY <1>2 DEF SubscribeAuth, BleTypes
  <2>3. QED
    BY <1>2, <2>1, <2>2 DEF SubscribeAuth, BleTypes, runtimeVars
<1>3. CASE SubscribeSnapshot(c)
  <2>1. events' \in Seq(Event)
    BY <1>3, EventIs, ReportedOne DEF SubscribeSnapshot
  <2>2. link' \in [Central -> {"away", "auth", "both"}] /\ subs' \subseteq Central
    BY <1>3 DEF SubscribeSnapshot, BleTypes
  <2>3. QED
    BY <1>3, <2>1, <2>2 DEF SubscribeSnapshot, BleTypes, runtimeVars
<1>4. CASE Unsubscribe(c)
  <2>1. events' \in Seq(Event)
    BY <1>4, EventIs, ReportedOne DEF Unsubscribe
  <2>2. /\ link' \in [Central -> {"away", "auth", "both"}]
        /\ outrun' = outrun \ {c} /\ subs' = subs \ {c}
    BY <1>4, LinksEndIs DEF Unsubscribe
  <2>3. queue' \in [Central -> Queues(Frame) \union {NoQueue}]
    BY <1>4, DropQueuesIs DEF Unsubscribe
  <2>4. QED
    BY <1>4, <2>1, <2>2, <2>3 DEF Unsubscribe, BleTypes, runtimeVars
<1>5. CASE WriteAuth(c)
  <2>1. events' \in Seq(Event)
    BY <1>5, EventIs, ReportedOne DEF WriteAuth
  <2>2. QED
    BY <1>5, <2>1 DEF WriteAuth, BleTypes, runtimeVars, mainVars, centralVars
<1>6. QED
  BY <1>1, <1>2, <1>3, <1>4, <1>5

LEMMA RadioTypes == ASSUME BleTypes, PowerOff \/ PowerOn \/ RadioReady PROVE BleTypes'
<1>1. CASE PowerOff
  <2>1. events' \in Seq(Event)
    BY <1>1, EventIs, ReportedOne DEF PowerOff
  <2>2. /\ link' \in [Central -> {"away", "auth", "both"}]
        /\ outrun' = outrun \ Central /\ subs' = subs \ Central
    BY <1>1, LinksEndIs DEF PowerOff
  <2>3. queue' \in [Central -> Queues(Frame) \union {NoQueue}]
    BY <1>1, DropQueuesIs DEF PowerOff
  <2>4. power' = FALSE /\ published' = FALSE /\ owed' = FALSE
    BY <1>1 DEF PowerOff
  <2>5. QED
    BY <1>1, <2>1, <2>2, <2>3, <2>4 DEF PowerOff, BleTypes, runtimeVars
<1>2. CASE PowerOn
  BY <1>2 DEF PowerOn, BleTypes, runtimeVars, centralVars
<1>3. CASE RadioReady
  <2>1. PICK n \in Takes(Central), spills \in Spills(Central) : Ready(n, spills)
    BY <1>3 DEF RadioReady
  <2>2. queue' \in [Central -> Queues(Frame) \union {NoQueue}] /\ owed' \in BOOLEAN /\ spilt' \in BOOLEAN
    BY <2>1, ReadyIs
  <2>3. QED
    BY <2>1, <2>2 DEF Ready, BleTypes, runtimeVars
<1>4. QED
  BY <1>1, <1>2, <1>3

LEMMA NextIs ==
  ASSUME Next
  PROVE  Command \/ Loop \/ Closures \/ Callback \/ PowerOff \/ PowerOn \/ RadioReady
  BY DEF Next, Command, Callback

LEMMA NextTypes == ASSUME BleTypes, [Next]_vars PROVE BleTypes'
<1>1. CASE UNCHANGED vars
  BY <1>1 DEF vars, runtimeVars, mainVars, centralVars, BleTypes
<1>2. CASE Next
  BY <1>2, NextIs, CommandTypes, LoopTypes, ClosureTypes, CallbackTypes, RadioTypes
<1>3. QED
  BY <1>1, <1>2

-------------------------------------------------------------------------------
(* The queues *)

\* The runtime and the event loop touch neither the radio nor the queues.
LEMMA RuntimeLeaves ==
  ASSUME Command \/ Loop
  PROVE  UNCHANGED <<power, published, subs, queue, owed, link, outrun>>
<1>1. CASE ToggleOn \/ ToggleOff \/ OnSnapshot
  BY <1>1 DEF ToggleOn, ToggleOff, OnSnapshot, mainVars, centralVars
<1>2. CASE (\E cs \in served : EndServed(cs)) \/ (\E cs \in SUBSET authorized : Unpair(cs))
           \/ \E cs \in revoked : DropSessions(cs)
  BY <1>2 DEF EndServed, Unpair, DropSessions, mainVars, centralVars
<1>3. CASE TakeSubscribed \/ TakePoweredOff \/ TakeGone \/ EndSession
  BY <1>3 DEF TakeSubscribed, TakePoweredOff, TakeGone, EndSession, mainVars, centralVars
<1>4. CASE ForgetCentral \/ TakeAuthWrite \/ HandleAuth
  BY <1>4 DEF ForgetCentral, TakeAuthWrite, HandleAuth, mainVars, centralVars
<1>5. QED
  BY <1>1, <1>2, <1>3, <1>4 DEF Command, Loop

\* The links, the subscriptions and the queues, by action.
LEMMA QueuesStep ==
  ASSUME BleTypes, LinkInv, WaitingIsOwed, Next
  PROVE  LinkInv' /\ WaitingIsOwed'
<1> USE DEF LinkInv, WaitingIsOwed, Linked
<1>1. CASE UNCHANGED <<subs, queue, owed, link>>
  BY <1>1
<1>2. CASE Command \/ Loop
  BY <1>1, <1>2, RuntimeLeaves
<1>3. CASE OfferFrame
  <2>1. UNCHANGED <<subs, link>>
    BY <1>3 DEF OfferFrame
  <2>2. PICK c \in Central, f \in Frame :
          /\ owed => owed'
          /\ \A d \in Central : c \notin subs \/ d # c => queue'[d] = queue[d]
          /\ c \in subs => queue'[c] = Empty \/ (queue'[c].paused /\ owed')
    BY <1>3, OfferFrameIs
  <2>3. LinkInv'
    BY <2>1, <2>2
  <2>4. ASSUME NEW d \in Central, queue'[d] \notin {NoQueue, Empty} PROVE queue'[d].paused /\ owed'
    <3>1. CASE queue'[d] = queue[d]
      BY <2>2, <2>4, <3>1
    <3>2. CASE d = c /\ c \in subs
      BY <2>2, <2>4, <3>2
    <3>3. QED
      BY <2>2, <3>1, <3>2
  <2>5. QED
    BY <2>3, <2>4
<1>4. CASE RevokeTargets
  <2>1. Head(posts).ids \in SUBSET Central
    <3>1. Head(posts) \in Closure /\ Head(posts).type = "revoke"
      BY <1>4, RunIs DEF RevokeTargets
    <3>2. QED
      BY <3>1, ClosureByType, ClosureIs
  <2>2. \A c \in Central : queue'[c] \in {NoQueue, queue[c]}
    BY <1>4, <2>1, DropQueuesIs DEF RevokeTargets
  <2>3. UNCHANGED <<subs, owed, link>>
    BY <1>4 DEF RevokeTargets
  <2>4. QED
    BY <2>2, <2>3
<1>5. CASE StartService
  BY <1>1, <1>5 DEF StartService, centralVars
<1>6. CASE StopService \/ PowerOff
  <2>1. LinksEnd(Central) /\ queue' = DropQueues(Central)
    BY <1>6 DEF StopService, PowerOff
  <2>2. \A c \in Central : queue'[c] = NoQueue /\ c \notin subs'
    BY <2>1, LinksEndIs, DropQueuesIs
  <2>3. QED
    BY <2>2
<1>7. ASSUME NEW c \in Central, SubscribeAuth(c) \/ SubscribeSnapshot(c) PROVE LinkInv' /\ WaitingIsOwed'
  <2>1. /\ \A d \in Central : d # c => link'[d] = link[d]
        /\ link'[c] # "away" /\ subs' = subs \union {c} /\ UNCHANGED <<queue, owed>>
    BY <1>7 DEF SubscribeAuth, SubscribeSnapshot, BleTypes
  <2>2. QED
    BY <2>1
<1>8. ASSUME NEW c \in Central, Unsubscribe(c) PROVE LinkInv' /\ WaitingIsOwed'
  <2>1. LinksEnd({c}) /\ queue' = DropQueues({c}) /\ UNCHANGED owed
    BY <1>8 DEF Unsubscribe
  <2>2. /\ \A d \in Central : link'[d] = IF d \in {c} THEN "away" ELSE link[d]
        /\ subs' = subs \ {c}
        /\ \A d \in Central : queue'[d] = IF d \in {c} THEN NoQueue ELSE queue[d]
    <3>1. {c} \in SUBSET Central
      OBVIOUS
    <3>2. QED
      BY <2>1, <3>1, LinksEndIs, DropQueuesIs
  <2>3. QED
    BY <2>1, <2>2
<1>9. ASSUME NEW c \in Central, WriteAuth(c) PROVE LinkInv' /\ WaitingIsOwed'
  BY <1>1, <1>9 DEF WriteAuth, mainVars, centralVars
<1>10. CASE PowerOn
  BY <1>1, <1>10 DEF PowerOn, centralVars
<1>11. CASE RadioReady
  <2>1. PICK n \in Takes(Central), spills \in Spills(Central) : Ready(n, spills)
    BY <1>11 DEF RadioReady
  <2>2. \A c \in Central : /\ queue'[c] = NoQueue <=> queue[c] = NoQueue
                           /\ queue'[c] \in {NoQueue, Empty} \/ (queue'[c].paused /\ owed')
    BY <2>1, ReadyIs
  <2>3. UNCHANGED <<subs, link>>
    BY <2>1 DEF Ready
  <2>4. QED
    BY <2>2, <2>3
<1>12. QED
  BY NextIs, <1>2, <1>3, <1>4, <1>5, <1>6, <1>7, <1>8, <1>9, <1>10, <1>11 DEF Closures, Callback

-------------------------------------------------------------------------------
(* Links and closures, step by step *)

\* Who gets a link, who loses one, and what is remembered of it.
LEMMA LinkStep ==
  ASSUME BleTypes, Next, NEW c \in Central
  PROVE  /\ Linked(c)' => Linked(c) \/ SubscribeAuth(c)
         /\ Linked(c) /\ ~Linked(c)' => StopService \/ Unsubscribe(c) \/ PowerOff
         /\ c \in cut => c \in cut' \/ SubscribeAuth(c)
         /\ Linked(c)' /\ c \notin outrun' => c \notin outrun
<1> USE DEF Linked
<1>1. CASE UNCHANGED <<link, outrun>> /\ cut \subseteq cut'
  BY <1>1
<1>2. CASE Command \/ Loop
  <2>1. cut \subseteq cut'
    <3>1. CASE ToggleOn \/ ToggleOff \/ OnSnapshot
      BY <3>1 DEF ToggleOn, ToggleOff, OnSnapshot, centralVars
    <3>2. CASE (\E cs \in served : EndServed(cs)) \/ (\E cs \in SUBSET authorized : Unpair(cs))
               \/ \E cs \in revoked : DropSessions(cs)
      BY <3>2 DEF EndServed, Unpair, DropSessions, centralVars
    <3>3. CASE Loop
      BY <3>3 DEF Loop, TakeSubscribed, TakePoweredOff, TakeGone, EndSession, ForgetCentral, TakeAuthWrite,
                  HandleAuth, centralVars
    <3>4. QED
      BY <1>2, <3>1, <3>2, <3>3 DEF Command
  <2>2. QED
    BY <1>1, <1>2, <2>1, RuntimeLeaves
<1>3. CASE OfferFrame \/ RevokeTargets \/ StartService \/ PowerOn
  BY <1>1, <1>3 DEF OfferFrame, RevokeTargets, StartService, PowerOn, centralVars
<1>4. CASE StopService \/ PowerOff
  <2>1. LinksEnd(Central)
    BY <1>4 DEF StopService, PowerOff
  <2>2. link'[c] = "away" /\ cut \subseteq cut'
    BY <1>4, <2>1, LinksEndIs DEF StopService, PowerOff
  <2>3. QED
    BY <1>4, <2>2
<1>5. ASSUME NEW d \in Central, SubscribeAuth(d)
      PROVE  /\ Linked(c)' => Linked(c) \/ SubscribeAuth(c)
             /\ Linked(c) => Linked(c)'
             /\ c \in cut => c \in cut' \/ SubscribeAuth(c)
             /\ Linked(c)' /\ c \notin outrun' => c \notin outrun
  <2>1. /\ link'[c] = IF c = d THEN "auth" ELSE link[c]
        /\ cut' = cut \ {d} /\ outrun \subseteq outrun'
    BY <1>5 DEF SubscribeAuth, BleTypes
  <2>2. QED
    BY <1>5, <2>1
<1>6. ASSUME NEW d \in Central, SubscribeSnapshot(d)
      PROVE  /\ Linked(c)' => Linked(c)
             /\ Linked(c) => Linked(c)'
             /\ c \in cut => c \in cut'
             /\ Linked(c)' /\ c \notin outrun' => c \notin outrun
  <2>1. /\ link'[c] = IF c = d THEN "both" ELSE link[c]
        /\ UNCHANGED <<cut, outrun>> /\ link[d] = "auth"
    BY <1>6 DEF SubscribeSnapshot, BleTypes
  <2>2. QED
    BY <2>1
<1>7. ASSUME NEW d \in Central, Unsubscribe(d)
      PROVE  /\ Linked(c)' => Linked(c)
             /\ Linked(c) /\ ~Linked(c)' => Unsubscribe(c)
             /\ c \in cut => c \in cut'
             /\ Linked(c)' /\ c \notin outrun' => c \notin outrun
  <2>1. {d} \in SUBSET Central /\ LinksEnd({d})
    BY <1>7 DEF Unsubscribe
  <2>2. link'[c] = (IF c \in {d} THEN "away" ELSE link[c]) /\ cut' = cut /\ outrun' = outrun \ {d}
    BY <1>7, <2>1, LinksEndIs DEF Unsubscribe
  <2>3. QED
    BY <1>7, <2>2
<1>8. ASSUME NEW d \in Central, WriteAuth(d) PROVE UNCHANGED <<link, outrun>> /\ cut \subseteq cut'
  BY <1>8 DEF WriteAuth, centralVars
<1>9. CASE RadioReady
  BY <1>1, <1>9 DEF RadioReady, Ready
<1>10. QED
  BY NextIs, <1>1, <1>2, <1>3, <1>4, <1>5, <1>6, <1>7, <1>8, <1>9 DEF Closures, Callback

\* What is posted: the end of the service by a switch-off only, an offer only to the
\* authorized.
Postable(ps) ==
  \A i \in 1 .. Len(ps) :
    \/ ps[i] \in {Start, Stop}
    \/ \E cs \in SUBSET Central : ps[i] = Revoke(cs)
    \/ \E c \in authorized, f \in Frame : ps[i] = OfferTo(c, f)

\* A closure of ps offers a frame.
HasOffer(ps) == \E i \in 1 .. Len(ps), c \in Central, f \in Frame : ps[i] = OfferTo(c, f)

LEMMA PostsGrow ==
  ASSUME BleTypes, Next
  PROVE  \/ posts' = posts
         \/ Closures /\ posts # <<>> /\ posts' = Tail(posts)
         \/ /\ authorized' = authorized
            /\ \E ps \in Seq(Closure) : /\ posts' = posts \o ps /\ Postable(ps) /\ (StopIn(ps) => ToggleOff)
                                        /\ HasOffer(ps) => OnSnapshot
<1>1. ASSUME NEW p \in Closure, Post(<<p>>), p \in {Start, Stop} \/ \E cs \in SUBSET Central : p = Revoke(cs)
      PROVE  \E ps \in Seq(Closure) : /\ posts' = posts \o ps /\ Postable(ps) /\ (StopIn(ps) => p = Stop)
                                      /\ ~HasOffer(ps)
  <2>1. <<p>> \in Seq(Closure) /\ Len(<<p>>) = 1 /\ <<p>>[1] = p
    OBVIOUS
  <2>2. Postable(<<p>>)
    BY <1>1, <2>1 DEF Postable
  <2>3. StopIn(<<p>>) => p = Stop
    BY <2>1 DEF StopIn
  <2>4. ~HasOffer(<<p>>)
    <3>1. \A c \in Central, f \in Frame : p # OfferTo(c, f)
      BY <1>1, ClosureIs
    <3>2. QED
      BY <2>1, <3>1 DEF HasOffer
  <2>5. QED
    BY <1>1, <2>1, <2>2, <2>3, <2>4 DEF Post
<1>2. CASE ToggleOn
  BY <1>1, <1>2, ClosureIs DEF ToggleOn
<1>3. CASE ToggleOff
  BY <1>1, <1>3, ClosureIs DEF ToggleOff
<1>4. CASE OnSnapshot
  <2>1. PICK ps \in Seq(Closure) :
          /\ posts' = posts \o ps
          /\ \A i \in 1 .. Len(ps) : \E c \in Targets : ps[i] = OfferTo(c, frames + 1)
    BY <1>4, OffersAre
  <2>2. frames + 1 \in Frame
    BY <1>4, OffersAre
  <2>3. Postable(ps)
    BY <2>1, <2>2 DEF Postable, Targets
  <2>4. ~StopIn(ps)
    <3>1. Targets \subseteq Central
      BY DEF Targets, BleTypes
    <3>2. QED
      BY <2>1, <2>2, <3>1, ClosureIs DEF StopIn
  <2>5. QED
    BY <1>4, <2>1, <2>3, <2>4 DEF OnSnapshot
<1>5. ASSUME NEW cs \in revoked, DropSessions(cs)
      PROVE  /\ authorized' = authorized
             /\ \E ps \in Seq(Closure) : /\ posts' = posts \o ps /\ Postable(ps) /\ (StopIn(ps) => ToggleOff)
                                         /\ HasOffer(ps) => OnSnapshot
  <2>1. cs \in SUBSET Central /\ Post(<<Revoke(cs)>>)
    BY <1>5 DEF DropSessions, BleTypes
  <2>2. QED
    BY <1>1, <1>5, <2>1, ClosureIs DEF DropSessions
<1>6. CASE ForgetCentral
  <2>1. loop.ids \in SUBSET Central /\ Post(<<Revoke(loop.ids)>>)
    BY <1>6, LoopIs DEF ForgetCentral, BleTypes
  <2>2. QED
    BY <1>1, <1>6, <2>1, ClosureIs DEF ForgetCentral
<1>7. CASE Closures
  <2>1. \E type \in {"offer", "revoke", "start", "stop"} : Run(type)
    BY <1>7 DEF Closures, OfferFrame, RevokeTargets, StartService, StopService
  <2>2. QED
    BY <1>7, <2>1, RunIs
<1>8. CASE (\E cs \in served : EndServed(cs)) \/ \E cs \in SUBSET authorized : Unpair(cs)
  BY <1>8 DEF EndServed, Unpair
<1>9. CASE Loop /\ ~ForgetCentral
  BY <1>9 DEF Loop, TakeSubscribed, TakePoweredOff, TakeGone, EndSession, TakeAuthWrite, HandleAuth
<1>10. CASE Callback
  BY <1>10 DEF Callback, SubscribeAuth, SubscribeSnapshot, Unsubscribe, WriteAuth
<1>11. CASE PowerOff \/ PowerOn \/ RadioReady
  BY <1>11 DEF PowerOff, PowerOn, RadioReady, Ready
<1>12. QED
  BY NextIs, <1>2, <1>3, <1>4, <1>5, <1>6, <1>7, <1>8, <1>9, <1>10, <1>11 DEF Command

LEMMA PostsStep ==
  ASSUME BleTypes, Next
  PROVE  \/ posts' = posts
         \/ Closures /\ posts # <<>> /\ posts' = Tail(posts)
         \/ /\ authorized' = authorized
            /\ \E ps \in Seq(Closure) : posts' = posts \o ps /\ Postable(ps) /\ (StopIn(ps) => ToggleOff)
  BY PostsGrow

\* What was to come still comes when more is posted, and when the first has run.
LEMMA PostKeeps ==
  ASSUME NEW ps \in Seq(Closure), NEW qs \in Seq(Closure)
  PROVE  /\ StopIn(ps) \/ StopIn(qs) <=> StopIn(ps \o qs)
         /\ \A c, i : DropIn(ps, c, i) => DropIn(ps \o qs, c, i)
<1> DEFINE both == ps \o qs
<1>1. /\ both \in Seq(Closure) /\ Len(ps) \in Nat /\ Len(qs) \in Nat /\ Len(both) = Len(ps) + Len(qs)
      /\ \A i \in 1 .. Len(ps) : both[i] = ps[i]
      /\ \A i \in 1 .. Len(qs) : both[Len(ps) + i] = qs[i]
      /\ \A i \in 1 .. Len(both) : i \in 1 .. Len(ps) \/ i - Len(ps) \in 1 .. Len(qs)
  BY Joined
<1> HIDE DEF both
<1>2. \A i \in 1 .. Len(ps) : i \in 1 .. Len(both)
  BY <1>1
<1>3. \A i \in 1 .. Len(qs) : Len(ps) + i \in 1 .. Len(both)
  BY <1>1
<1>4. \A i \in 1 .. Len(both) : i \in 1 .. Len(ps) \/ \E k \in 1 .. Len(qs) : i = Len(ps) + k
  <2>1. \A i \in 1 .. Len(both) : i = Len(ps) + (i - Len(ps))
    BY <1>1
  <2>2. QED
    BY <1>1, <2>1
<1>5. StopIn(ps) \/ StopIn(qs) => StopIn(both)
  BY <1>1, <1>2, <1>3 DEF StopIn
<1>6. StopIn(both) => StopIn(ps) \/ StopIn(qs)
  BY <1>1, <1>4 DEF StopIn
<1>7. \A c, i : DropIn(ps, c, i) => DropIn(both, c, i)
  BY <1>1, <1>2 DEF DropIn
<1>8. QED
  BY <1>5, <1>6, <1>7 DEF both

LEMMA PostedOneKeeps ==
  ASSUME NEW ps \in Seq(Closure), NEW p \in Closure
  PROVE  /\ StopIn(ps \o <<p>>) <=> StopIn(ps) \/ p = Stop
         /\ \A cs \in SUBSET Central : \A c \in cs, i \in 0 .. Len(ps) :
              p = Revoke(cs) => DropIn(ps \o <<p>>, c, i)
<1>1. <<p>> \in Seq(Closure) /\ Len(<<p>>) = 1 /\ <<p>>[1] = p
  OBVIOUS
<1>2. StopIn(<<p>>) <=> p = Stop
  BY <1>1 DEF StopIn
<1>3. Len(ps) \in Nat /\ Len(ps \o <<p>>) = Len(ps) + 1 /\ (ps \o <<p>>)[Len(ps) + 1] = p
  BY Added
<1>4. ASSUME NEW cs \in SUBSET Central, NEW c \in cs, NEW i \in 0 .. Len(ps), p = Revoke(cs)
      PROVE  DropIn(ps \o <<p>>, c, i)
  <2>1. Len(ps) + 1 \in 1 .. Len(ps \o <<p>>) /\ Len(ps) + 1 > i
    BY <1>3
  <2>2. QED
    BY <1>3, <1>4, <2>1 DEF DropIn
<1>5. QED
  BY <1>1, <1>2, <1>4, PostKeeps

LEMMA RunKeeps ==
  ASSUME NEW ps \in Seq(Closure), ps # <<>>
  PROVE  /\ StopIn(Tail(ps)) => StopIn(ps)
         /\ StopIn(ps) => StopIn(Tail(ps)) \/ Head(ps) = Stop
         /\ \A c, i : i \in Nat /\ DropIn(ps, c, i + 1) => DropIn(Tail(ps), c, i)
         /\ \A c : DropIn(ps, c, 0) =>
              DropIn(Tail(ps), c, 0) \/ \E cs \in SUBSET Central : Head(ps) = Revoke(cs) /\ c \in cs
<1> DEFINE rest == Tail(ps)
<1>1. /\ Len(ps) \in Nat /\ Len(ps) > 0 /\ Len(rest) = Len(ps) - 1 /\ Head(ps) = ps[1]
      /\ \A i \in 1 .. Len(rest) : rest[i] = ps[i + 1] /\ i + 1 \in 1 .. Len(ps)
  BY Shifted
<1> HIDE DEF rest
<1>2. ASSUME NEW j \in 1 .. Len(ps), j # 1
      PROVE  j - 1 \in 1 .. Len(rest) /\ rest[j - 1] = ps[j]
  <2>1. j - 1 \in 1 .. Len(rest) /\ j - 1 + 1 = j
    BY <1>1, <1>2
  <2>2. QED
    BY <1>1, <2>1
<1>3. StopIn(rest) => StopIn(ps)
  BY <1>1 DEF StopIn
<1>4. StopIn(ps) => StopIn(rest) \/ Head(ps) = Stop
  BY <1>1, <1>2 DEF StopIn
<1>5. ASSUME NEW c, NEW i \in Nat, DropIn(ps, c, i + 1) PROVE DropIn(rest, c, i)
  <2>1. PICK j \in 1 .. Len(ps) : j > i + 1 /\ \E cs \in SUBSET Central : ps[j] = Revoke(cs) /\ c \in cs
    BY <1>5 DEF DropIn
  <2>2. j # 1 /\ j - 1 > i
    BY <1>1, <2>1
  <2>3. j - 1 \in 1 .. Len(rest) /\ rest[j - 1] = ps[j]
    BY <1>2, <2>2
  <2>4. QED
    BY <2>1, <2>2, <2>3 DEF DropIn
<1>6. ASSUME NEW c, DropIn(ps, c, 0)
      PROVE  DropIn(rest, c, 0) \/ \E cs \in SUBSET Central : Head(ps) = Revoke(cs) /\ c \in cs
  <2>1. PICK j \in 1 .. Len(ps) : \E cs \in SUBSET Central : ps[j] = Revoke(cs) /\ c \in cs
    BY <1>6 DEF DropIn
  <2>2. CASE j = 1
    BY <1>1, <2>1, <2>2
  <2>3. CASE j # 1
    <3>1. j - 1 \in 1 .. Len(rest) /\ rest[j - 1] = ps[j]
      BY <1>2, <2>3
    <3>2. j - 1 > 0
      BY <1>1, <2>3
    <3>3. QED
      BY <2>1, <3>1, <3>2 DEF DropIn
  <2>4. QED
    BY <2>2, <2>3
<1>7. QED
  BY <1>3, <1>4, <1>5, <1>6 DEF rest

\* The service is taken down by a switch-off, and by its closure.
LEMMA StopStep ==
  ASSUME BleTypes, Next
  PROVE  /\ Stopping' => Stopping \/ ToggleOff
         /\ Stopping => Stopping' \/ StopService
         /\ ToggleOff => Stopping'
<1> USE DEF Stopping
<1>1. CASE posts' = posts /\ ~ToggleOff
  BY <1>1
<1>2. CASE Closures /\ posts # <<>> /\ posts' = Tail(posts) /\ ~ToggleOff
  <2>1. /\ StopIn(Tail(posts)) => StopIn(posts)
        /\ StopIn(posts) => StopIn(Tail(posts)) \/ Head(posts) = Stop
    BY <1>2, RunKeeps DEF BleTypes
  <2>2. Head(posts) = Stop => StopService
    <3>1. Stop.type = "stop"
      BY ClosureIs
    <3>2. QED
      BY <1>2, <3>1 DEF Closures, OfferFrame, RevokeTargets, StartService, Run
  <2>3. QED
    BY <1>2, <2>1, <2>2
<1>3. CASE ~ToggleOff /\ \E ps \in Seq(Closure) : posts' = posts \o ps /\ (StopIn(ps) => ToggleOff)
  <2>1. PICK ps \in Seq(Closure) : posts' = posts \o ps /\ ~StopIn(ps)
    BY <1>3
  <2>2. StopIn(posts) <=> StopIn(posts \o ps)
    BY <2>1, PostKeeps DEF BleTypes
  <2>3. QED
    BY <1>3, <2>1, <2>2
<1>4. CASE ToggleOff
  <2>1. posts' = posts \o <<Stop>> /\ posts \in Seq(Closure)
    BY <1>4 DEF ToggleOff, Post, BleTypes
  <2>2. StopIn(posts \o <<Stop>>)
    BY <2>1, ClosureIs, PostedOneKeeps
  <2>3. QED
    BY <1>4, <2>1, <2>2
<1>5. QED
  BY PostsStep, <1>1, <1>2, <1>3, <1>4

\* An event that ends a link of c comes with the end of that link.
LEMMA EndingStep ==
  ASSUME BleTypes, Next, NEW c \in Central, Ending(c)'
  PROVE  Ending(c) \/ ~Linked(c)'
<1> DEFINE Ended(es) == \E i \in DOMAIN es : es[i] \in {PoweredOff, Gone(c)}
<1>1. CASE UNCHANGED <<loop, events>>
  BY <1>1 DEF Ending
<1>2. ASSUME NEW type, Take(type), loop'.at \in {"ending", "leaving"} /\ c \in loop'.ids =>
               Head(events) \in {PoweredOff, Gone(c)}
      PROVE  Ending(c)
  <2>1. /\ events # <<>> /\ events' = Tail(events)
    BY <1>2, TakenIs
  <2>2. /\ Len(events) \in Nat /\ Len(events) > 0 /\ Head(events) = events[1]
        /\ Tail(events) \in Seq(Event)
        /\ \A i \in 1 .. Len(Tail(events)) : Tail(events)[i] = events[i + 1] /\ i + 1 \in 1 .. Len(events)
    BY <2>1, Shifted DEF BleTypes
  <2>3. DOMAIN events = 1 .. Len(events) /\ DOMAIN Tail(events) = 1 .. Len(Tail(events))
    BY <2>2, LenProperties DEF BleTypes
  <2>4. CASE \E i \in DOMAIN events' : events'[i] \in {PoweredOff, Gone(c)}
    <3>1. PICK i \in 1 .. Len(Tail(events)) : Tail(events)[i] \in {PoweredOff, Gone(c)}
      BY <2>1, <2>3, <2>4
    <3>2. QED
      BY <2>2, <2>3, <3>1 DEF Ending
  <2>5. CASE loop'.at \in {"ending", "leaving"} /\ c \in loop'.ids
    <3>1. 1 \in DOMAIN events /\ events[1] \in {PoweredOff, Gone(c)}
      BY <1>2, <2>2, <2>3, <2>5
    <3>2. QED
      BY <3>1 DEF Ending
  <2>6. QED
    BY <2>4, <2>5 DEF Ending, Gone, PoweredOff
<1>3. CASE TakeSubscribed \/ TakeAuthWrite
  <2>1. loop'.at \notin {"ending", "leaving"}
    BY <1>3, TakenIs, LoopIs DEF TakeSubscribed, TakeAuthWrite, GoTo
  <2>2. QED
    BY <1>2, <1>3, <2>1 DEF TakeSubscribed, TakeAuthWrite
<1>4. CASE TakePoweredOff
  <2>1. Head(events) = PoweredOff /\ Take("off")
    BY <1>4, TakenIs, EventByType DEF TakePoweredOff
  <2>2. QED
    BY <1>2, <2>1
<1>5. CASE TakeGone
  <2>1. Take("gone") /\ loop'.ids = Head(events).ids
    BY <1>5 DEF TakeGone, GoTo
  <2>2. PICK d \in Central : Head(events) = Gone(d)
    BY <2>1, TakenIs, EventByType
  <2>3. c \in loop'.ids => Head(events) = Gone(c)
    BY <2>1, <2>2, EventIs
  <2>4. QED
    BY <1>2, <2>1, <2>3
<1>6. CASE EndSession \/ ForgetCentral \/ HandleAuth
  <2>1. loop'.at \notin {"ending", "leaving"} /\ events' = events
    BY <1>6, LoopIs DEF EndSession, ForgetCentral, HandleAuth, At, BleTypes, Moments
  <2>2. QED
    BY <2>1 DEF Ending, Gone, PoweredOff
<1>7. CASE Command
  BY <1>1, <1>7 DEF Command, ToggleOn, ToggleOff, OnSnapshot, EndServed, Unpair, DropSessions
<1>8. CASE OfferFrame \/ RevokeTargets \/ StartService \/ PowerOn \/ RadioReady
  BY <1>1, <1>8 DEF OfferFrame, RevokeTargets, StartService, PowerOn, RadioReady, Ready, runtimeVars
<1>9. CASE StopService \/ PowerOff
  <2>1. LinksEnd(Central)
    BY <1>9 DEF StopService, PowerOff
  <2>2. link'[c] = "away"
    BY <2>1, LinksEndIs
  <2>3. QED
    BY <2>2 DEF Linked
<1>10. ASSUME NEW e \in Event, Report(<<e>>), loop' = loop, e \notin {PoweredOff, Gone(c)}
       PROVE  Ending(c)
  <2>1. /\ events' = events \o <<e>> /\ Len(events) \in Nat /\ Len(events \o <<e>>) = Len(events) + 1
        /\ events \o <<e>> \in Seq(Event)
        /\ \A i \in 1 .. Len(events) : (events \o <<e>>)[i] = events[i]
        /\ (events \o <<e>>)[Len(events) + 1] = e
    BY <1>10, Added DEF Report, BleTypes
  <2>2. DOMAIN events = 1 .. Len(events) /\ DOMAIN (events \o <<e>>) = 1 .. Len(events \o <<e>>)
    BY <2>1, LenProperties DEF BleTypes
  <2>3. \A i \in DOMAIN events' : events'[i] \in {PoweredOff, Gone(c)} =>
          i \in DOMAIN events /\ events[i] \in {PoweredOff, Gone(c)}
    BY <1>10, <2>1, <2>2
  <2>4. QED
    BY <1>10, <2>3 DEF Ending, Gone, PoweredOff
<1>11. ASSUME NEW d \in Central, SubscribeAuth(d) \/ SubscribeSnapshot(d) PROVE Ending(c)
  <2>1. Report(<<Subscribed(d)>>) /\ loop' = loop
    BY <1>11 DEF SubscribeAuth, SubscribeSnapshot, runtimeVars
  <2>2. QED
    BY <1>10, <2>1, EventIs, EventsApart
<1>12. ASSUME NEW d \in Central, WriteAuth(d) PROVE Ending(c)
  <2>1. Report(<<AuthWrite(d)>>) /\ loop' = loop
    BY <1>12 DEF WriteAuth, runtimeVars
  <2>2. QED
    BY <1>10, <2>1, EventIs, EventsApart
<1>13. ASSUME NEW d \in Central, Unsubscribe(d) PROVE Ending(c) \/ ~Linked(c)'
  <2>1. Report(<<Gone(d)>>) /\ loop' = loop /\ LinksEnd({d}) /\ {d} \in SUBSET Central
    BY <1>13 DEF Unsubscribe, runtimeVars
  <2>2. CASE d = c
    BY <2>1, <2>2, LinksEndIs DEF Linked
  <2>3. CASE d # c
    BY <1>10, <2>1, <2>3, EventIs, EventsApart
  <2>4. QED
    BY <2>2, <2>3
<1>14. QED
  BY NextIs, <1>3, <1>4, <1>5, <1>6, <1>7, <1>8, <1>9, <1>11, <1>12, <1>13 DEF Loop, Closures, Callback

LEMMA ServedStep ==
  ASSUME BleTypes, Next, NEW cs \in served' PROVE cs \in served \/ ToggleOff
<1>1. CASE Command
  BY <1>1 DEF Command, ToggleOn, OnSnapshot, EndServed, Unpair, DropSessions
<1>2. CASE Loop
  BY <1>2 DEF Loop, TakeSubscribed, TakePoweredOff, TakeGone, EndSession, ForgetCentral, TakeAuthWrite, HandleAuth
<1>3. CASE Closures
  BY <1>3 DEF Closures, OfferFrame, RevokeTargets, StartService, StopService, runtimeVars
<1>4. CASE Callback
  BY <1>4 DEF Callback, SubscribeAuth, SubscribeSnapshot, Unsubscribe, WriteAuth, runtimeVars
<1>5. CASE PowerOff \/ PowerOn \/ RadioReady
  BY <1>5 DEF PowerOff, PowerOn, RadioReady, Ready, runtimeVars
<1>6. QED
  BY NextIs, <1>1, <1>2, <1>3, <1>4, <1>5

LEMMA EndInvStep == ASSUME BleTypes, EndInv, Next PROVE EndInv'
<1> SUFFICES ASSUME NEW c \in Central, c \notin outrun', Linked(c)'
             PROVE  /\ ~Ending(c)'
                    /\ \A cs \in served' : c \in cs => Stopping'
  BY DEF EndInv
<1>1. CASE SubscribeAuth(c)
  <2>1. ~Ending(c) /\ c \notin UNION served /\ UNCHANGED served
    BY <1>1 DEF SubscribeAuth, runtimeVars
  <2>2. QED
    BY <2>1, EndingStep
<1>2. CASE ~SubscribeAuth(c)
  <2>1. Linked(c) /\ c \notin outrun
    BY <1>2, LinkStep
  <2>2. ~Ending(c) /\ \A cs \in served : c \in cs => Stopping
    BY <2>1 DEF EndInv
  <2>3. ~Ending(c)'
    BY <2>2, EndingStep
  <2>4. Stopping => Stopping'
    <3>1. ~StopService
      <4>1. StopService => LinksEnd(Central)
        BY DEF StopService
      <4>2. QED
        BY <4>1, LinksEndIs DEF Linked
    <3>2. QED
      BY <3>1, StopStep
  <2>5. QED
    BY <2>2, <2>3, <2>4, ServedStep, StopStep
<1>3. QED
  BY <1>1, <1>2

-------------------------------------------------------------------------------
(* Who may be sent to *)

\* The authorization of a linked central goes only where its queue will, too.
LEMMA AuthorizedStep ==
  ASSUME BleTypes, EndInv, Next, NEW c \in Central, c \notin outrun, Linked(c), c \in authorized
  PROVE  c \in authorized' \/ WillDrop(c)'
<1>1. ~Ending(c) /\ \A cs \in served : c \in cs => Stopping
  BY DEF EndInv
<1>2. ASSUME NEW cs \in served, EndServed(cs) PROVE c \in authorized' \/ WillDrop(c)'
  <2>1. authorized' = authorized \ cs /\ posts' = posts
    BY <1>2 DEF EndServed
  <2>2. c \in cs => Stopping'
    BY <1>1, <2>1 DEF Stopping
  <2>3. QED
    BY <2>1, <2>2 DEF WillDrop
<1>3. ASSUME NEW cs \in SUBSET authorized, Unpair(cs) PROVE c \in authorized' \/ WillDrop(c)'
  BY <1>3 DEF Unpair, WillDrop
<1>4. CASE EndSession
  BY <1>1, <1>4 DEF EndSession, Ending
<1>5. CASE HandleAuth
  BY <1>5 DEF HandleAuth
<1>6. CASE ToggleOn \/ ToggleOff \/ OnSnapshot \/ \E cs \in revoked : DropSessions(cs)
  BY <1>6 DEF ToggleOn, ToggleOff, OnSnapshot, DropSessions
<1>7. CASE TakeSubscribed \/ TakePoweredOff \/ TakeGone \/ ForgetCentral \/ TakeAuthWrite
  BY <1>7 DEF TakeSubscribed, TakePoweredOff, TakeGone, ForgetCentral, TakeAuthWrite
<1>8. CASE Closures
  BY <1>8 DEF Closures, OfferFrame, RevokeTargets, StartService, StopService, runtimeVars
<1>9. CASE Callback
  BY <1>9 DEF Callback, SubscribeAuth, SubscribeSnapshot, Unsubscribe, WriteAuth, runtimeVars
<1>10. CASE PowerOff \/ PowerOn \/ RadioReady
  BY <1>10 DEF PowerOff, PowerOn, RadioReady, Ready, runtimeVars
<1>11. QED
  BY NextIs, <1>2, <1>3, <1>4, <1>5, <1>6, <1>7, <1>8, <1>9, <1>10 DEF Command, Loop

\* A drop that is not posted yet stays so, or is posted.
LEMMA WillDropStep ==
  ASSUME BleTypes, Next, NEW c \in Central, Linked(c)', WillDrop(c)
  PROVE  \/ WillDrop(c)'
         \/ \E cs \in SUBSET Central : c \in cs /\ posts' = posts \o <<Revoke(cs)>>
<1>1. CASE Stopping
  <2>1. ~StopService
    <3>1. StopService => LinksEnd(Central)
      BY DEF StopService
    <3>2. QED
      BY <3>1, LinksEndIs DEF Linked
  <2>2. QED
    BY <1>1, <2>1, StopStep DEF WillDrop
<1>2. ASSUME NEW cs \in revoked, c \in cs
      PROVE  \/ cs \in revoked'
             \/ \E ds \in SUBSET Central : c \in ds /\ posts' = posts \o <<Revoke(ds)>>
  <2>1. cs \in SUBSET Central
    BY DEF BleTypes
  <2>2. ASSUME NEW ds \in revoked, DropSessions(ds)
        PROVE  cs \in revoked' \/ posts' = posts \o <<Revoke(cs)>>
    BY <2>2 DEF DropSessions, Post
  <2>3. CASE ToggleOn \/ ToggleOff \/ OnSnapshot \/ (\E ds \in served : EndServed(ds))
             \/ \E ds \in SUBSET authorized : Unpair(ds)
    BY <2>3 DEF ToggleOn, ToggleOff, OnSnapshot, EndServed, Unpair
  <2>4. CASE Loop
    BY <2>4 DEF Loop, TakeSubscribed, TakePoweredOff, TakeGone, EndSession, ForgetCentral, TakeAuthWrite, HandleAuth
  <2>5. CASE Closures
    BY <2>5 DEF Closures, OfferFrame, RevokeTargets, StartService, StopService, runtimeVars
  <2>6. CASE Callback
    BY <2>6 DEF Callback, SubscribeAuth, SubscribeSnapshot, Unsubscribe, WriteAuth, runtimeVars
  <2>7. CASE PowerOff \/ PowerOn \/ RadioReady
    BY <2>7 DEF PowerOff, PowerOn, RadioReady, Ready, runtimeVars
  <2>8. QED
    BY NextIs, <1>2, <2>1, <2>2, <2>3, <2>4, <2>5, <2>6, <2>7 DEF Command
<1>3. CASE At("forget") /\ c \in loop.ids
  <2>1. CASE ForgetCentral
    <3>1. loop.ids \in SUBSET Central /\ posts' = posts \o <<Revoke(loop.ids)>>
      BY <2>1, LoopIs DEF ForgetCentral, Post, BleTypes
    <3>2. QED
      BY <1>3, <3>1
  <2>2. CASE loop' = loop
    BY <1>3, <2>2 DEF WillDrop, At
  <2>3. CASE Loop /\ ~ForgetCentral
    BY <1>3, <2>3 DEF Loop, TakeSubscribed, TakePoweredOff, TakeGone, EndSession, TakeAuthWrite, HandleAuth, Take, At
  <2>4. CASE Command
    BY <2>2, <2>4 DEF Command, ToggleOn, ToggleOff, OnSnapshot, EndServed, Unpair, DropSessions
  <2>5. CASE Closures
    BY <2>2, <2>5 DEF Closures, OfferFrame, RevokeTargets, StartService, StopService, runtimeVars
  <2>6. CASE Callback
    BY <2>2, <2>6 DEF Callback, SubscribeAuth, SubscribeSnapshot, Unsubscribe, WriteAuth, runtimeVars
  <2>7. CASE PowerOff \/ PowerOn \/ RadioReady
    BY <2>2, <2>7 DEF PowerOff, PowerOn, RadioReady, Ready, runtimeVars
  <2>8. QED
    BY NextIs, <2>1, <2>3, <2>4, <2>5, <2>6, <2>7
<1>4. QED
  BY <1>1, <1>2, <1>3 DEF WillDrop

\* A linked central that may be sent to, or whose queue will be dropped after the
\* closure i, still is so after any step, in which i becomes k.
LEMMA SendableStep ==
  ASSUME BleTypes, EndInv, Next, NEW c \in Central, c \notin outrun, Linked(c), Linked(c)',
         NEW i \in 0 .. Len(posts), NEW k \in Nat,
         \/ k = i /\ \E ps \in Seq(Closure) : posts' = posts \o ps
         \/ /\ posts # <<>> /\ posts' = Tail(posts)
            /\ \/ i = k + 1
               \/ i = 0 /\ k = 0 /\ ~\E cs \in SUBSET Central : Head(posts) = Revoke(cs) /\ c \in cs,
         c \in authorized \/ WillDrop(c) \/ DropIn(posts, c, i)
  PROVE  c \in authorized' \/ WillDrop(c)' \/ DropIn(posts', c, k)
<1>0. posts \in Seq(Closure) /\ Len(posts) \in Nat
  BY LenProperties DEF BleTypes
<1>1. CASE c \in authorized
  BY <1>1, AuthorizedStep
<1>2. CASE WillDrop(c) /\ ~WillDrop(c)'
  <2>1. PICK cs \in SUBSET Central : c \in cs /\ posts' = posts \o <<Revoke(cs)>>
    BY <1>2, WillDropStep
  <2>2. Revoke(cs) \in Closure
    BY ClosureIs
  <2>3. DropIn(posts \o <<Revoke(cs)>>, c, i)
    BY <1>0, <2>1, <2>2, PostedOneKeeps
  <2>4. CASE k = i
    BY <2>1, <2>3, <2>4
  <2>5. CASE posts # <<>> /\ posts' = Tail(posts)
    <3>1. Len(posts') = Len(posts) - 1
      BY <1>0, <2>5, Shifted
    <3>2. Len(posts') = Len(posts) + 1
      BY <1>0, <2>1, <2>2, Added
    <3>3. QED
      BY <1>0, <3>1, <3>2
  <2>6. QED
    BY <2>4, <2>5
<1>3. CASE DropIn(posts, c, i)
  <2>1. CASE k = i /\ \E ps \in Seq(Closure) : posts' = posts \o ps
    BY <1>0, <1>3, <2>1, PostKeeps
  <2>2. CASE posts # <<>> /\ posts' = Tail(posts) /\ i = k + 1
    BY <1>0, <1>3, <2>2, RunKeeps
  <2>3. CASE /\ posts # <<>> /\ posts' = Tail(posts) /\ i = 0 /\ k = 0
             /\ ~\E cs \in SUBSET Central : Head(posts) = Revoke(cs) /\ c \in cs
    BY <1>0, <1>3, <2>3, RunKeeps
  <2>4. QED
    BY <2>1, <2>2, <2>3
<1>4. QED
  BY <1>1, <1>2, <1>3

\* Posting nothing is posting the empty sequence.
LEMMA PostsNothing == ASSUME BleTypes PROVE <<>> \in Seq(Closure) /\ posts = posts \o <<>>
  BY EmptySeq, ConcatEmptySeq DEF BleTypes

\* What was offered to an earlier link is dropped, unless it is left over.
LEMMA NotLeftOver ==
  ASSUME BleTypes, NEW c \in Central, ~Leftover(c), NEW i \in 1 .. Len(posts), Offered(posts, i, c)
  PROVE  WillDrop(c) \/ DropIn(posts, c, i)
<1>0. DOMAIN posts = 1 .. Len(posts) /\ Len(posts) \in Nat /\ \A j \in 1 .. Len(posts) : posts[j] \in Closure
  BY LenProperties, ElementOfSeq DEF BleTypes
<1>1. posts[i].type = "offer" /\ c \in posts[i].ids
  BY ClosureIs DEF Offered
<1>2. CASE Stop \in Range(posts)
  BY <1>0, <1>2 DEF Range, WillDrop, Stopping, StopIn
<1>3. CASE c \in UNION revoked \/ (loop.at = "forget" /\ c \in loop.ids)
  BY <1>3 DEF WillDrop, At
<1>4. ASSUME NEW j \in 1 .. Len(posts), j > i, posts[j].type = "revoke", c \in posts[j].ids
      PROVE  DropIn(posts, c, i)
  <2>1. PICK cs \in SUBSET Central : posts[j] = Revoke(cs)
    BY <1>0, <1>4, ClosureByType
  <2>2. c \in cs
    BY <1>4, <2>1, ClosureIs
  <2>3. QED
    BY <1>4, <2>1, <2>2 DEF DropIn
<1>5. QED
  BY <1>0, <1>1, <1>2, <1>3, <1>4 DEF Leftover

LEMMA OfferInvStep == ASSUME BleTypes, EndInv, OfferInv, Next PROVE OfferInv'
<1> SUFFICES ASSUME NEW c \in Central, c \notin outrun', NEW i \in 1 .. Len(posts'),
                    Offered(posts', i, c), Linked(c)'
             PROVE  c \in authorized' \/ WillDrop(c)' \/ DropIn(posts', c, i)
  BY DEF OfferInv
<1>0. posts \in Seq(Closure) /\ Len(posts) \in Nat /\ i \in Nat
  BY LenProperties DEF BleTypes
<1>1. CASE SubscribeAuth(c)
  <2>1. ~Leftover(c) /\ UNCHANGED <<posts, loop, revoked>>
    BY <1>1 DEF SubscribeAuth, runtimeVars
  <2>2. WillDrop(c) \/ DropIn(posts, c, i)
    BY <1>0, <2>1, NotLeftOver
  <2>3. QED
    BY <2>1, <2>2 DEF WillDrop, Stopping, At
<1>2. CASE ~SubscribeAuth(c)
  <2>1. Linked(c) /\ c \notin outrun
    BY <1>2, LinkStep
  <2>2. \A j \in 1 .. Len(posts) : Offered(posts, j, c) => c \in authorized \/ WillDrop(c) \/ DropIn(posts, c, j)
    BY <2>1 DEF OfferInv
  <2>3. CASE posts' = posts
    <3>1. \E ps \in Seq(Closure) : posts' = posts \o ps
      BY <2>3, PostsNothing
    <3>2. i \in 0 .. Len(posts) /\ (c \in authorized \/ WillDrop(c) \/ DropIn(posts, c, i))
      BY <1>0, <2>2, <2>3
    <3>3. QED
      BY <1>0, <2>1, <3>1, <3>2, SendableStep
  <2>4. CASE posts # <<>> /\ posts' = Tail(posts)
    <3>1. posts'[i] = posts[i + 1] /\ i + 1 \in 1 .. Len(posts)
      BY <1>0, <2>4, Shifted
    <3>2. Offered(posts, i + 1, c)
      BY <3>1 DEF Offered
    <3>3. i + 1 \in 0 .. Len(posts) /\ (c \in authorized \/ WillDrop(c) \/ DropIn(posts, c, i + 1))
      BY <1>0, <2>2, <3>1, <3>2
    <3>4. QED
      BY <1>0, <2>1, <2>4, <3>3, SendableStep
  <2>5. CASE authorized' = authorized /\ \E ps \in Seq(Closure) : posts' = posts \o ps /\ Postable(ps)
    <3>1. PICK ps \in Seq(Closure) : posts' = posts \o ps /\ Postable(ps)
      BY <2>5
    <3>2. /\ Len(ps) \in Nat
          /\ \A j \in 1 .. Len(posts) : posts'[j] = posts[j]
          /\ \A j \in 1 .. Len(ps) : posts'[Len(posts) + j] = ps[j]
          /\ i \in 1 .. Len(posts) \/ i - Len(posts) \in 1 .. Len(ps)
      BY <1>0, <3>1, Joined
    <3>3. CASE i \in 1 .. Len(posts)
      <4>1. Offered(posts, i, c)
        BY <3>2, <3>3 DEF Offered
      <4>2. i \in 0 .. Len(posts) /\ (c \in authorized \/ WillDrop(c) \/ DropIn(posts, c, i))
        BY <1>0, <2>2, <3>3, <4>1
      <4>3. QED
        BY <1>0, <2>1, <3>1, <4>2, SendableStep
    <3>4. CASE i - Len(posts) \in 1 .. Len(ps)
      <4>1. PICK j \in 1 .. Len(ps) : j = i - Len(posts)
        BY <3>4
      <4>2. i = Len(posts) + j
        BY <1>0, <4>1
      <4>3. posts'[i] = ps[j]
        BY <3>2, <4>2
      <4>4. PICK f \in Frame : ps[j] = OfferTo(c, f)
        BY <4>3 DEF Offered
      <4>5. \E d \in authorized, g \in Frame : ps[j] = OfferTo(d, g)
        <5>1. ps[j] \notin {Start, Stop} /\ ~\E cs \in SUBSET Central : ps[j] = Revoke(cs)
          BY <4>4, ClosureIs
        <5>2. QED
          BY <3>1, <5>1 DEF Postable
      <4>6. PICK d \in authorized, g \in Frame : ps[j] = OfferTo(d, g)
        BY <4>5
      <4>7. d = c
        <5>1. d \in Central
          BY DEF BleTypes
        <5>2. OfferTo(c, f).ids = {c} /\ OfferTo(d, g).ids = {d}
          BY <5>1, ClosureIs
        <5>3. {d} = {c}
          BY <4>4, <4>6, <5>2
        <5>4. QED
          BY <5>3
      <4>8. QED
        BY <2>5, <4>6, <4>7
    <3>5. QED
      BY <3>2, <3>3, <3>4
  <2>6. QED
    BY <2>3, <2>4, <2>5, PostsStep
<1>3. QED
  BY <1>1, <1>2

\* What runs after i drops a queue, in the words of Dropping.
LEMMA DropInIs ==
  ASSUME NEW ps \in Seq(Closure), NEW c \in Central
  PROVE  DropIn(ps, c, 0) <=> \E i \in DOMAIN ps : ps[i].type = "revoke" /\ c \in ps[i].ids
<1>1. DOMAIN ps = 1 .. Len(ps)
  BY LenProperties
<1>2. ASSUME NEW i \in 1 .. Len(ps)
      PROVE  ps[i].type = "revoke" /\ c \in ps[i].ids
               <=> \E cs \in SUBSET Central : ps[i] = Revoke(cs) /\ c \in cs
  <2>1. ps[i] \in Closure
    BY <1>1, ElementOfSeq
  <2>2. QED
    BY <2>1, ClosureByType, ClosureIs
<1>3. QED
  BY <1>1, <1>2 DEF DropIn

\* Only an offer makes a queue.
LEMMA QueueAppears ==
  ASSUME BleTypes, Next, NEW c \in Central, queue[c] = NoQueue, queue'[c] # NoQueue
  PROVE  \E f \in Frame : OfferFrame /\ c \in subs /\ Head(posts) = OfferTo(c, f)
<1>1. ~UNCHANGED queue
  OBVIOUS
<1>2. ~(Command \/ Loop)
  BY <1>1, RuntimeLeaves
<1>3. ASSUME NEW cs \in SUBSET Central, queue' = DropQueues(cs) PROVE FALSE
  BY <1>3, DropQueuesIs
<1>4. ~RevokeTargets
  <2>1. SUFFICES ASSUME RevokeTargets PROVE FALSE
    OBVIOUS
  <2>2. Head(posts) \in Closure /\ Head(posts).type = "revoke" /\ queue' = DropQueues(Head(posts).ids)
    BY <2>1, RunIs DEF RevokeTargets
  <2>3. Head(posts).ids \in SUBSET Central
    BY <2>2, ClosureByType, ClosureIs
  <2>4. QED
    BY <1>3, <2>2, <2>3
<1>5. ~StartService /\ ~StopService /\ ~PowerOff /\ ~PowerOn
  BY <1>1, <1>3 DEF StartService, StopService, PowerOff, PowerOn
<1>6. ~Callback
  <2>1. ASSUME NEW d \in Central, Unsubscribe(d) PROVE FALSE
    <3>1. {d} \in SUBSET Central /\ queue' = DropQueues({d})
      BY <2>1 DEF Unsubscribe
    <3>2. QED
      BY <1>3, <3>1
  <2>2. QED
    BY <1>1, <2>1 DEF Callback, SubscribeAuth, SubscribeSnapshot, WriteAuth, mainVars
<1>7. ~RadioReady
  BY ReadyIs DEF RadioReady
<1>8. OfferFrame
  BY NextIs, <1>2, <1>4, <1>5, <1>6, <1>7 DEF Closures
<1>9. QED
  BY <1>8, OfferFrameIs

\* A queue that is left after a step was there before, or a frame was offered; in either
\* case its central may be sent to, or it will be dropped.
LEMMA QueueIsAuthorizedStep ==
  ASSUME BleTypes, LinkInv, EndInv, OfferInv, QueueIsAuthorized, Next, BleTypes', LinkInv'
  PROVE  QueueIsAuthorized'
<1> SUFFICES ASSUME NEW c \in Central, c \notin outrun', queue'[c] # NoQueue
             PROVE  c \in subs' /\ (c \in authorized' \/ Dropping(c)')
  BY DEF QueueIsAuthorized
<1>1. /\ posts \in Seq(Closure) /\ Len(posts) \in Nat /\ 0 \in 0 .. Len(posts)
      /\ posts' \in Seq(Closure) /\ DOMAIN posts' = 1 .. Len(posts')
      /\ c \in subs' /\ Linked(c)'
  BY LenProperties DEF BleTypes, LinkInv
<1>2. WillDrop(c)' \/ DropIn(posts', c, 0) => Dropping(c)'
  <2>1. DropIn(posts', c, 0) => \E i \in DOMAIN posts' : posts'[i].type = "revoke" /\ c \in posts'[i].ids
    BY <1>1, DropInIs
  <2>2. QED
    BY <1>1, <2>1 DEF Dropping, WillDrop, Stopping, StopIn, At, Stop
<1>3. SUFFICES c \in authorized' \/ WillDrop(c)' \/ DropIn(posts', c, 0)
  BY <1>1, <1>2
<1>4. CASE queue[c] # NoQueue /\ c \notin outrun /\ Linked(c)
  <2>1. c \in authorized \/ WillDrop(c) \/ DropIn(posts, c, 0)
    <3>1. c \in authorized \/ Dropping(c)
      BY <1>4 DEF QueueIsAuthorized
    <3>2. Dropping(c) => (\E cs \in served : c \in cs) \/ WillDrop(c) \/ DropIn(posts, c, 0)
      <4>1. DOMAIN posts = 1 .. Len(posts)
        BY <1>1, LenProperties
      <4>2. DropIn(posts, c, 0) <=> \E i \in DOMAIN posts : posts[i].type = "revoke" /\ c \in posts[i].ids
        BY <1>1, DropInIs
      <4>3. QED
        BY <4>1, <4>2 DEF Dropping, WillDrop, Stopping, StopIn
    <3>3. (\E cs \in served : c \in cs) => WillDrop(c)
      BY <1>4 DEF EndInv, WillDrop
    <3>4. QED
      BY <3>1, <3>2, <3>3
  <2>2. CASE posts' = posts
    <3>1. \E ps \in Seq(Closure) : posts' = posts \o ps
      BY <2>2, PostsNothing
    <3>2. QED
      BY <1>1, <1>4, <2>1, <3>1, SendableStep
  <2>3. CASE \E ps \in Seq(Closure) : posts' = posts \o ps
    BY <1>1, <1>4, <2>1, <2>3, SendableStep
  <2>4. CASE posts # <<>> /\ posts' = Tail(posts) /\ Closures
    <3>1. ~\E cs \in SUBSET Central : Head(posts) = Revoke(cs) /\ c \in cs
      <4>1. SUFFICES ASSUME NEW cs \in SUBSET Central, Head(posts) = Revoke(cs), c \in cs PROVE FALSE
        OBVIOUS
      <4>2. Head(posts).type = "revoke" /\ Head(posts).ids = cs
        BY <4>1, ClosureIs
      <4>3. queue' = DropQueues(cs)
        BY <2>4, <4>2 DEF Closures, OfferFrame, RevokeTargets, StartService, StopService, Run
      <4>4. QED
        BY <4>1, <4>3, DropQueuesIs
    <3>2. QED
      BY <1>1, <1>4, <2>1, <2>4, <3>1, SendableStep
  <2>5. QED
    BY <2>2, <2>3, <2>4, PostsStep
<1>5. CASE queue[c] # NoQueue /\ ~(c \notin outrun /\ Linked(c))
  <2>1. Linked(c)
    BY <1>5 DEF LinkInv
  <2>2. QED
    BY <1>1, <1>5, <2>1, LinkStep
<1>6. CASE queue[c] = NoQueue
  <2>1. PICK f \in Frame : OfferFrame /\ c \in subs /\ Head(posts) = OfferTo(c, f)
    BY <1>6, QueueAppears
  <2>2. /\ posts # <<>> /\ posts' = Tail(posts)
        /\ UNCHANGED <<outrun, link, authorized>>
    BY <2>1, RunIs DEF OfferFrame, runtimeVars
  <2>3. Len(posts) > 0 /\ Head(posts) = posts[1]
    BY <1>1, <2>2, Shifted
  <2>4. Linked(c) /\ c \notin outrun
    BY <2>1, <2>2 DEF LinkInv
  <2>5. 1 \in 0 .. Len(posts) /\ (c \in authorized \/ WillDrop(c) \/ DropIn(posts, c, 1))
    <3>1. 1 \in 1 .. Len(posts) /\ Offered(posts, 1, c)
      BY <1>1, <2>1, <2>3 DEF Offered
    <3>2. QED
      BY <2>4, <3>1 DEF OfferInv
  <2>6. QED
    BY <1>1, <2>2, <2>4, <2>5, SendableStep
<1>7. QED
  BY <1>4, <1>5, <1>6

-------------------------------------------------------------------------------
(* Who will be counted among the subscribers, and whose session will end *)

\* More events change nothing about the first ones.
LEMMA ReportKeeps ==
  ASSUME NEW es \in Seq(Event), NEW fs \in Seq(Event), NEW m, NEW c
  PROVE  /\ \A n \in 0 .. Len(es) : WillBeIn(es, m, c, n) => WillBeIn(es \o fs, m, c, n)
         /\ \A i \in Nat : EndsAfter(es, m, c, i) => EndsAfter(es \o fs, m, c, i)
<1> DEFINE all == es \o fs
<1>1. /\ Len(es) \in Nat /\ Len(fs) \in Nat /\ Len(all) = Len(es) + Len(fs)
      /\ \A i \in 1 .. Len(es) : all[i] = es[i]
  BY Joined
<1> HIDE DEF all
<1>2. ASSUME NEW i \in Nat \ {0}, NEW n \in 0 .. Len(es), NoEnd(es, c, i, n)
      PROVE  NoEnd(all, c, i, n)
  <2>1. \A k \in Nat : i <= k /\ k <= n => all[k] = es[k]
    BY <1>1
  <2>2. QED
    BY <1>2, <2>1 DEF NoEnd
<1>3. ASSUME NEW n \in 0 .. Len(es), WillBeIn(es, m, c, n) PROVE WillBeIn(all, m, c, n)
  <2>1. CASE c \in m /\ NoEnd(es, c, 1, n)
    BY <1>2, <2>1 DEF WillBeIn
  <2>2. ASSUME NEW i \in 1 .. n, es[i] = Subscribed(c), NoEnd(es, c, i + 1, n) PROVE WillBeIn(all, m, c, n)
    <3>1. all[i] = Subscribed(c) /\ i + 1 \in Nat \ {0}
      BY <1>1, <2>2
    <3>2. NoEnd(all, c, i + 1, n)
      BY <1>2, <2>2, <3>1
    <3>3. QED
      BY <3>1, <3>2 DEF WillBeIn
  <2>3. QED
    BY <1>3, <2>1, <2>2 DEF WillBeIn
<1>4. ASSUME NEW i \in Nat, EndsAfter(es, m, c, i) PROVE EndsAfter(all, m, c, i)
  <2>1. PICK j \in 1 .. Len(es) : j > i /\ Ends(es, m, c, j)
    BY <1>4 DEF EndsAfter
  <2>2. j \in 1 .. Len(all) /\ all[j] = es[j] /\ j - 1 \in 0 .. Len(es)
    BY <1>1
  <2>3. Ends(all, m, c, j)
    BY <1>3, <2>1, <2>2 DEF Ends
  <2>4. QED
    BY <2>1, <2>2, <2>3 DEF EndsAfter
<1>5. QED
  BY <1>3, <1>4 DEF all

\* What becomes of the subscribers m when the event e is dealt with.
Moves(e, m, m2, c) ==
  /\ c \in m /\ e \notin {Gone(c), PoweredOff} => c \in m2
  /\ e = Subscribed(c) => c \in m2

\* Dealing with the first event changes nothing about the others.
LEMMA TakeKeeps ==
  ASSUME NEW es \in Seq(Event), es # <<>>, NEW m, NEW m2, NEW c, Moves(Head(es), m, m2, c)
  PROVE  /\ \A n \in 1 .. Len(es) : WillBeIn(es, m, c, n) => WillBeIn(Tail(es), m2, c, n - 1)
         /\ \A i \in Nat : EndsAfter(es, m, c, i + 1) => EndsAfter(Tail(es), m2, c, i)
<1> DEFINE rest == Tail(es)
<1>1. /\ Len(es) \in Nat /\ Len(es) > 0 /\ Len(rest) = Len(es) - 1 /\ Head(es) = es[1]
      /\ \A i \in 1 .. Len(rest) : rest[i] = es[i + 1] /\ i + 1 \in 1 .. Len(es)
  BY Shifted
<1> HIDE DEF rest
<1>2. ASSUME NEW i \in Nat \ {0}, NEW n \in 1 .. Len(es), NoEnd(es, c, i + 1, n)
      PROVE  NoEnd(rest, c, i, n - 1)
  <2>1. ASSUME NEW k \in Nat, i <= k, k <= n - 1 PROVE rest[k] \notin {Gone(c), PoweredOff}
    <3>1. k \in 1 .. Len(rest) /\ k + 1 \in Nat /\ i + 1 <= k + 1 /\ k + 1 <= n
      BY <1>1, <2>1
    <3>2. rest[k] = es[k + 1]
      BY <1>1, <3>1
    <3>3. QED
      BY <1>2, <3>1, <3>2 DEF NoEnd
  <2>2. QED
    BY <2>1 DEF NoEnd
<1>3. ASSUME NEW n \in 1 .. Len(es), WillBeIn(es, m, c, n) PROVE WillBeIn(rest, m2, c, n - 1)
  <2>1. CASE c \in m /\ NoEnd(es, c, 1, n)
    <3>1. es[1] \notin {Gone(c), PoweredOff}
      BY <2>1 DEF NoEnd
    <3>2. c \in m2
      BY <1>1, <2>1, <3>1 DEF Moves
    <3>3. NoEnd(es, c, 2, n)
      BY <2>1 DEF NoEnd
    <3>4. NoEnd(rest, c, 1, n - 1)
      BY <1>2, <3>3
    <3>5. QED
      BY <3>2, <3>4 DEF WillBeIn
  <2>2. ASSUME NEW i \in 1 .. n, es[i] = Subscribed(c), NoEnd(es, c, i + 1, n)
        PROVE  WillBeIn(rest, m2, c, n - 1)
    <3>1. NoEnd(rest, c, i, n - 1)
      BY <1>2, <2>2
    <3>2. CASE i = 1
      BY <1>1, <2>2, <3>1, <3>2 DEF Moves, WillBeIn
    <3>3. CASE i # 1
      <4>1. PICK k \in 1 .. n - 1 : i = k + 1
        <5>1. i - 1 \in 1 .. n - 1 /\ i = i - 1 + 1
          BY <3>3
        <5>2. QED
          BY <5>1
      <4>2. rest[k] = Subscribed(c) /\ NoEnd(rest, c, k + 1, n - 1)
        BY <1>1, <2>2, <3>1, <4>1
      <4>3. QED
        BY <4>2 DEF WillBeIn
    <3>4. QED
      BY <3>2, <3>3
  <2>3. QED
    BY <1>3, <2>1, <2>2 DEF WillBeIn
<1>4. ASSUME NEW i \in Nat, EndsAfter(es, m, c, i + 1) PROVE EndsAfter(rest, m2, c, i)
  <2>1. PICK j \in 1 .. Len(es) : j > i + 1 /\ Ends(es, m, c, j)
    BY <1>4 DEF EndsAfter
  <2>2. PICK k \in 1 .. Len(rest) : j = k + 1 /\ k > i /\ k \in 1 .. Len(es)
    <3>1. j - 1 \in 1 .. Len(rest) /\ j = j - 1 + 1 /\ j - 1 > i /\ j - 1 \in 1 .. Len(es)
      BY <1>1, <2>1
    <3>2. QED
      BY <3>1
  <2>3. rest[k] = es[j] /\ j - 1 = k
    BY <1>1, <2>2
  <2>4. WillBeIn(es, m, c, k) => WillBeIn(rest, m2, c, k - 1)
    BY <1>3, <2>2
  <2>5. Ends(rest, m2, c, k)
    BY <2>1, <2>3, <2>4 DEF Ends
  <2>6. QED
    BY <2>2, <2>5 DEF EndsAfter
<1>5. QED
  BY <1>3, <1>4 DEF rest

\* That the set of subscribers is cleared does not matter to one that is not in it.
LEMMA ClearKeeps ==
  ASSUME NEW es \in Seq(Event), NEW m, NEW c, c \notin m, NEW i \in Nat, EndsAfter(es, m, c, i)
  PROVE  EndsAfter(es, {}, c, i)
<1>1. \A n : WillBeIn(es, m, c, n) => WillBeIn(es, {}, c, n)
  BY DEF WillBeIn
<1>2. QED
  BY <1>1 DEF EndsAfter, Ends

\* Events that end no link of c leave it among the subscribers.
LEMMA ReportKeepsIn ==
  ASSUME NEW es \in Seq(Event), NEW fs \in Seq(Event), NEW m, NEW c, WillBeIn(es, m, c, Len(es)),
         \A i \in 1 .. Len(fs) : fs[i] \notin {Gone(c), PoweredOff}
  PROVE  WillBeIn(es \o fs, m, c, Len(es \o fs))
<1> DEFINE all == es \o fs
<1>1. /\ Len(es) \in Nat /\ Len(fs) \in Nat /\ Len(all) = Len(es) + Len(fs)
      /\ \A i \in 1 .. Len(es) : all[i] = es[i]
      /\ \A i \in 1 .. Len(fs) : all[Len(es) + i] = fs[i]
      /\ \A i \in 1 .. Len(all) : i \in 1 .. Len(es) \/ i - Len(es) \in 1 .. Len(fs)
  BY Joined
<1> HIDE DEF all
<1>2. ASSUME NEW i \in Nat \ {0}, NoEnd(es, c, i, Len(es)) PROVE NoEnd(all, c, i, Len(all))
  <2>1. ASSUME NEW k \in Nat, i <= k, k <= Len(all) PROVE all[k] \notin {Gone(c), PoweredOff}
    <3>1. CASE k \in 1 .. Len(es)
      BY <1>1, <1>2, <2>1, <3>1 DEF NoEnd
    <3>2. CASE k \notin 1 .. Len(es)
      <4>1. PICK j \in 1 .. Len(fs) : j = k - Len(es)
        BY <1>1, <2>1, <3>2
      <4>2. k = Len(es) + j
        BY <1>1, <2>1, <4>1
      <4>3. QED
        BY <1>1, <4>2
    <3>3. QED
      BY <3>1, <3>2
  <2>2. QED
    BY <2>1 DEF NoEnd
<1>3. CASE c \in m /\ NoEnd(es, c, 1, Len(es))
  BY <1>2, <1>3 DEF WillBeIn, all
<1>4. ASSUME NEW i \in 1 .. Len(es), es[i] = Subscribed(c), NoEnd(es, c, i + 1, Len(es))
      PROVE  WillBeIn(all, m, c, Len(all))
  <2>1. NoEnd(all, c, i + 1, Len(all))
    BY <1>1, <1>2, <1>4
  <2>2. i \in 1 .. Len(all) /\ all[i] = Subscribed(c)
    BY <1>1, <1>4
  <2>3. QED
    BY <2>1, <2>2 DEF WillBeIn
<1>5. QED
  BY <1>3, <1>4 DEF WillBeIn, all

\* One event more, which ends the session of c or lets it begin.
LEMMA ReportedEnds ==
  ASSUME NEW es \in Seq(Event), NEW m, NEW c \in Central
  PROVE  /\ \A i \in 0 .. Len(es) : EndsAfter(es \o <<Gone(c)>>, m, c, i)
         /\ WillBeIn(es, m, c, Len(es)) => \A i \in 0 .. Len(es) : EndsAfter(es \o <<PoweredOff>>, m, c, i)
         /\ WillBeIn(es \o <<Subscribed(c)>>, m, c, Len(es \o <<Subscribed(c)>>))
<1>0. Gone(c) \in Event /\ PoweredOff \in Event /\ Subscribed(c) \in Event
  BY EventIs
<1>1. ASSUME NEW e \in Event, NEW i \in 0 .. Len(es), Ends(es \o <<e>>, m, c, Len(es) + 1)
      PROVE  EndsAfter(es \o <<e>>, m, c, i)
  <2>1. Len(es) \in Nat /\ Len(es \o <<e>>) = Len(es) + 1
    BY Added
  <2>2. Len(es) + 1 \in 1 .. Len(es \o <<e>>) /\ Len(es) + 1 > i
    BY <2>1
  <2>3. QED
    BY <1>1, <2>2 DEF EndsAfter
<1>2. Ends(es \o <<Gone(c)>>, m, c, Len(es) + 1)
  <2>1. (es \o <<Gone(c)>>)[Len(es) + 1] = Gone(c)
    BY <1>0, Added
  <2>2. QED
    BY <2>1 DEF Ends
<1>3. ASSUME WillBeIn(es, m, c, Len(es)) PROVE Ends(es \o <<PoweredOff>>, m, c, Len(es) + 1)
  <2>1. Len(es) \in Nat /\ (es \o <<PoweredOff>>)[Len(es) + 1] = PoweredOff /\ <<PoweredOff>> \in Seq(Event)
    BY <1>0, Added
  <2>2. Len(es) \in 0 .. Len(es) /\ Len(es) + 1 - 1 = Len(es)
    BY <2>1
  <2>3. WillBeIn(es \o <<PoweredOff>>, m, c, Len(es))
    BY <1>3, <2>1, <2>2, ReportKeeps
  <2>4. QED
    BY <2>1, <2>2, <2>3 DEF Ends
<1>4. WillBeIn(es \o <<Subscribed(c)>>, m, c, Len(es \o <<Subscribed(c)>>))
  <2>1. PICK all : all = es \o <<Subscribed(c)>>
    OBVIOUS
  <2>2. PICK n \in Nat : n = Len(es) + 1
    BY LenProperties
  <2>3. n \in 1 .. n /\ Len(all) = n /\ all[n] = Subscribed(c)
    BY <1>0, <2>1, <2>2, Added
  <2>4. NoEnd(all, c, n + 1, n)
    BY <2>2 DEF NoEnd
  <2>5. QED
    BY <2>1, <2>3, <2>4 DEF WillBeIn
<1>5. QED
  BY <1>0, <1>1, <1>2, <1>3, <1>4

\* The event loop takes an event: what that is to c.
Dealt(c) ==
  /\ events # <<>> /\ events' = Tail(events) /\ Moves(Head(events), mirror, mirror', c)
  /\ UNCHANGED <<authorized, served>> /\ loop.at = "idle"
  /\ loop'.at = "auth" /\ c \in loop'.ids => Head(events) = AuthWrite(c)
  /\ Head(events) = Gone(c) => loop'.at = "leaving" /\ c \in loop'.ids
  /\ Head(events) = PoweredOff /\ c \in mirror => loop'.at = "ending" /\ c \in loop'.ids

\* The callbacks report; that a link of c ended only when it does.
Told(c) ==
  /\ \E es \in Seq(Event) :
       /\ events' = events \o es
       /\ \A i \in 1 .. Len(es) : /\ es[i] = AuthWrite(c) => Linked(c)'
                                  /\ es[i] \in {Gone(c), PoweredOff} => ~Linked(c)'
  /\ UNCHANGED <<mirror, loop, authorized, served>>

LEMMA TakeStep ==
  ASSUME BleTypes, NEW c \in Central, TakeSubscribed \/ TakePoweredOff \/ TakeGone \/ TakeAuthWrite
  PROVE  Dealt(c)
<1>1. \A type : Take(type) => /\ events # <<>> /\ events' = Tail(events) /\ loop.at = "idle"
                              /\ Head(events) \in Event /\ Head(events).type = type
  BY TakenIs
<1>2. UNCHANGED <<authorized, served>>
  BY DEF TakeSubscribed, TakePoweredOff, TakeGone, TakeAuthWrite
<1>3. CASE TakeSubscribed
  <2>1. mirror' = mirror \union Head(events).ids /\ loop' = loop /\ Take("subscribed")
    BY <1>3 DEF TakeSubscribed
  <2>2. PICK d \in Central : Head(events) = Subscribed(d)
    BY <1>1, <2>1, EventByType
  <2>3. Moves(Head(events), mirror, mirror', c)
    BY <2>1, <2>2, EventIs, EventsApart DEF Moves
  <2>4. Head(events) \notin {Gone(c), PoweredOff}
    BY <2>2, EventsApart
  <2>5. QED
    BY <1>1, <1>2, <2>1, <2>3, <2>4 DEF Dealt
<1>4. CASE TakePoweredOff
  <2>1. mirror' = {} /\ loop' = [at |-> "ending", ids |-> mirror] /\ Take("off")
    BY <1>4 DEF TakePoweredOff, GoTo
  <2>2. Head(events) = PoweredOff
    BY <1>1, <2>1, EventByType
  <2>3. Head(events) # Subscribed(c) /\ Head(events) # Gone(c)
    BY <2>2, EventsApart
  <2>4. QED
    BY <1>1, <1>2, <2>1, <2>2, <2>3 DEF Dealt, Moves
<1>5. CASE TakeGone
  <2>1. mirror' = mirror \ Head(events).ids /\ loop' = [at |-> "leaving", ids |-> Head(events).ids] /\ Take("gone")
    BY <1>5 DEF TakeGone, GoTo
  <2>2. PICK d \in Central : Head(events) = Gone(d)
    BY <1>1, <2>1, EventByType
  <2>3. Head(events).ids = {d} /\ Head(events) # Subscribed(c) /\ Head(events) # PoweredOff
        /\ (Head(events) = Gone(c) <=> c = d)
    BY <2>2, EventIs, EventsApart
  <2>4. QED
    BY <1>1, <1>2, <2>1, <2>3 DEF Dealt, Moves
<1>6. CASE TakeAuthWrite
  <2>1. mirror' = mirror /\ loop' = [at |-> "auth", ids |-> Head(events).ids] /\ Take("auth")
    BY <1>6 DEF TakeAuthWrite, GoTo
  <2>2. PICK d \in Central : Head(events) = AuthWrite(d)
    BY <1>1, <2>1, EventByType
  <2>3. Head(events).ids = {d} /\ Head(events) \notin {Subscribed(c), Gone(c), PoweredOff}
        /\ (Head(events) = AuthWrite(c) <=> c = d)
    BY <2>2, EventIs, EventsApart
  <2>4. QED
    BY <1>1, <1>2, <2>1, <2>3 DEF Dealt, Moves
<1>7. QED
  BY <1>3, <1>4, <1>5, <1>6

LEMMA TellStep ==
  ASSUME BleTypes, NEW c \in Central, StopService \/ PowerOff \/ Callback
  PROVE  Told(c)
<1>1. UNCHANGED <<mirror, loop, authorized, served>>
  BY DEF StopService, PowerOff, Callback, SubscribeAuth, SubscribeSnapshot, Unsubscribe, WriteAuth, runtimeVars
<1>2. ASSUME NEW e \in Event, Report(<<e>>), e = AuthWrite(c) => Linked(c)',
             e \in {Gone(c), PoweredOff} => ~Linked(c)'
      PROVE  Told(c)
  <2>1. <<e>> \in Seq(Event) /\ Len(<<e>>) = 1 /\ <<e>>[1] = e /\ events' = events \o <<e>>
    BY <1>2 DEF Report
  <2>2. \A i \in 1 .. Len(<<e>>) : <<e>>[i] = e
    BY <2>1
  <2>3. QED
    BY <1>1, <1>2, <2>1, <2>2 DEF Told
<1>3. CASE StopService
  <2>1. PICK es \in Seq(Event) :
          /\ events' = events \o es
          /\ \A i \in 1 .. Len(es) : \E d \in Central : Linked(d) /\ es[i] = Gone(d)
    BY <1>3, GoneReports
  <2>2. \A i \in 1 .. Len(es) : es[i] # AuthWrite(c)
    BY <2>1, EventsApart
  <2>3. ~Linked(c)'
    <3>1. LinksEnd(Central)
      BY <1>3 DEF StopService
    <3>2. QED
      BY <3>1, LinksEndIs DEF Linked
  <2>4. QED
    BY <1>1, <2>1, <2>2, <2>3 DEF Told
<1>4. CASE PowerOff
  <2>1. LinksEnd(Central) /\ Report(<<PoweredOff>>)
    BY <1>4 DEF PowerOff
  <2>2. ~Linked(c)'
    BY <2>1, LinksEndIs DEF Linked
  <2>3. QED
    BY <1>2, <2>1, <2>2, EventIs, EventsApart
<1>5. ASSUME NEW d \in Central, SubscribeAuth(d) \/ SubscribeSnapshot(d) PROVE Told(c)
  <2>1. Report(<<Subscribed(d)>>)
    BY <1>5 DEF SubscribeAuth, SubscribeSnapshot
  <2>2. QED
    BY <1>2, <2>1, EventIs, EventsApart
<1>6. ASSUME NEW d \in Central, Unsubscribe(d) PROVE Told(c)
  <2>1. Report(<<Gone(d)>>) /\ LinksEnd({d}) /\ {d} \in SUBSET Central
    BY <1>6 DEF Unsubscribe
  <2>2. d = c => ~Linked(c)'
    BY <2>1, LinksEndIs DEF Linked
  <2>3. QED
    BY <1>2, <2>1, <2>2, EventIs, EventsApart
<1>7. ASSUME NEW d \in Central, WriteAuth(d) PROVE Told(c)
  <2>1. Report(<<AuthWrite(d)>>) /\ Linked(d)'
    BY <1>7 DEF WriteAuth, centralVars, Linked
  <2>2. QED
    BY <1>2, <2>1, EventIs, EventsApart
<1>8. QED
  BY <1>3, <1>4, <1>5, <1>6, <1>7 DEF Callback

\* Whatever else happens, the events and the subscribers stay.
LEMMA EventsStep ==
  ASSUME BleTypes, Next, NEW c \in Central
  PROVE  ToggleOff \/ Dealt(c) \/ Told(c) \/ UNCHANGED <<events, mirror>>
<1>1. CASE ToggleOn \/ OnSnapshot \/ (\E cs \in served : EndServed(cs))
           \/ (\E cs \in SUBSET authorized : Unpair(cs)) \/ \E cs \in revoked : DropSessions(cs)
  BY <1>1 DEF ToggleOn, OnSnapshot, EndServed, Unpair, DropSessions
<1>2. CASE EndSession \/ ForgetCentral \/ HandleAuth
  BY <1>2 DEF EndSession, ForgetCentral, HandleAuth
<1>3. CASE OfferFrame \/ RevokeTargets \/ StartService \/ PowerOn \/ RadioReady
  BY <1>3 DEF OfferFrame, RevokeTargets, StartService, PowerOn, RadioReady, Ready, runtimeVars
<1>4. QED
  BY NextIs, <1>1, <1>2, <1>3, TakeStep, TellStep DEF Command, Loop, Closures

\* Only the end of the service, which cuts them, ends links that are not told of.
LEMMA LostIsEnded ==
  ASSUME BleTypes, SessionInv, Next, NEW c \in Central, c \notin cut, c \notin cut', Linked(c), ~Linked(c)'
  PROVE  /\ \A i \in 0 .. Len(events) : EndsAfter(events', mirror', c, i)
         /\ \E e \in Event : events' = events \o <<e>> /\ e # AuthWrite(c)
<1>1. events \in Seq(Event) /\ WillBeIn(events, mirror, c, Len(events))
  BY DEF BleTypes, SessionInv
<1>2. CASE StopService
  BY <1>2 DEF StopService, Linked
<1>3. CASE Unsubscribe(c)
  <2>1. events' = events \o <<Gone(c)>> /\ mirror' = mirror
    BY <1>3 DEF Unsubscribe, Report, runtimeVars
  <2>2. Gone(c) \in Event /\ Gone(c) # AuthWrite(c)
    BY EventIs, EventsApart
  <2>3. QED
    BY <1>1, <2>1, <2>2, ReportedEnds
<1>4. CASE PowerOff
  <2>1. events' = events \o <<PoweredOff>> /\ mirror' = mirror
    BY <1>4 DEF PowerOff, Report, runtimeVars
  <2>2. PoweredOff \in Event /\ PoweredOff # AuthWrite(c)
    BY EventIs, EventsApart
  <2>3. QED
    BY <1>1, <2>1, <2>2, ReportedEnds
<1>5. QED
  BY <1>2, <1>3, <1>4, LinkStep

\* Once there is an event that ends the session of c, it stays, until it is dealt with.
LEMMA EndsStep ==
  ASSUME BleTypes, Next, NEW c \in Central, ~ToggleOff, NEW i \in Nat, NEW k \in Nat,
         EndsAfter(events, mirror, c, i), IF Dealt(c) THEN i = k + 1 ELSE k = i
  PROVE  EndsAfter(events', mirror', c, k)
<1>1. events \in Seq(Event)
  BY DEF BleTypes
<1>2. CASE Dealt(c)
  BY <1>1, <1>2, TakeKeeps DEF Dealt
<1>3. CASE ~Dealt(c) /\ Told(c)
  BY <1>1, <1>3, ReportKeeps DEF Told
<1>4. CASE ~Dealt(c) /\ UNCHANGED <<events, mirror>>
  BY <1>4
<1>5. QED
  BY <1>2, <1>3, <1>4, EventsStep

\* With the switch-off, a central that is not counted among those that it cuts off had no
\* link and no request waiting.
LEMMA ToggleOffIs ==
  ASSUME BleTypes, AuthInv, ToggleOff, NEW c \in Central, c \notin cut'
  PROVE  /\ ~Linked(c) /\ c \notin cut
         /\ \A i \in 1 .. Len(events) : events[i] # AuthWrite(c)
         /\ ~(At("auth") /\ c \in loop.ids)
         /\ mirror' = {} /\ served' = served \union {mirror}
         /\ UNCHANGED <<events, loop, link, authorized>>
<1>1. /\ cut' = cut \union {d \in Central : link[d] # "away" \/ Requesting(d)}
      /\ mirror' = {} /\ served' = served \union {mirror}
      /\ UNCHANGED <<events, loop, link, authorized>>
  BY DEF ToggleOff
<1>2. ~Linked(c) /\ c \notin cut /\ ~Requesting(c)
  BY <1>1 DEF Linked
<1>3. \A i \in 1 .. Len(events) : events[i] # AuthWrite(c)
  <2>1. DOMAIN events = 1 .. Len(events)
    BY LenProperties DEF BleTypes
  <2>2. QED
    BY <1>2, <2>1 DEF Requesting, Range
<1>4. ~(At("auth") /\ c \in loop.ids)
  BY <1>2 DEF AuthInv, Requesting
<1>5. QED
  BY <1>1, <1>2, <1>3, <1>4

\* What becomes of an authorization when no event is dealt with.
LEMMA QuietStep ==
  ASSUME BleTypes, Next, NEW c \in Central, ~ToggleOff, ~Dealt(c)
  PROVE  /\ loop' = loop \/ loop'.at # "auth"
         /\ c \in authorized' => c \in authorized \/ (At("auth") /\ c \in loop.ids)
         /\ c \in authorized' /\ loop.at \in {"ending", "leaving"} /\ c \in loop.ids => loop' = loop
         /\ c \in authorized' => \A cs \in served : c \in cs => cs \in served'
<1>1. CASE UNCHANGED <<loop, authorized, served>>
  BY <1>1
<1>2. CASE ToggleOn \/ OnSnapshot \/ \E cs \in revoked : DropSessions(cs)
  BY <1>1, <1>2 DEF ToggleOn, OnSnapshot, DropSessions
<1>3. CASE (\E cs \in served : EndServed(cs)) \/ \E cs \in SUBSET authorized : Unpair(cs)
  BY <1>3 DEF EndServed, Unpair
<1>4. CASE EndSession
  <2>1. loop'.at # "auth"
    BY <1>4, LoopIs DEF EndSession, BleTypes, Moments
  <2>2. QED
    BY <1>4, <2>1 DEF EndSession
<1>5. CASE ForgetCentral \/ HandleAuth
  <2>1. loop'.at # "auth"
    BY <1>5, LoopIs DEF ForgetCentral, HandleAuth
  <2>2. QED
    BY <1>5, <2>1 DEF ForgetCentral, HandleAuth, At
<1>6. CASE OfferFrame \/ RevokeTargets \/ StartService \/ PowerOn \/ RadioReady
  BY <1>1, <1>6 DEF OfferFrame, RevokeTargets, StartService, PowerOn, RadioReady, Ready, runtimeVars
<1>7. CASE StopService \/ PowerOff \/ Callback
  BY <1>1, <1>7, TellStep DEF Told
<1>8. QED
  BY NextIs, TakeStep, <1>2, <1>3, <1>4, <1>5, <1>6, <1>7 DEF Command, Loop, Closures

LEMMA AuthInvStep == ASSUME BleTypes, AuthInv, Next PROVE AuthInv'
<1>1. CASE TakeAuthWrite
  <2>1. Take("auth") /\ loop' = [at |-> "auth", ids |-> Head(events).ids]
    BY <1>1 DEF TakeAuthWrite, GoTo
  <2>2. PICK d \in Central : Head(events) = AuthWrite(d)
    BY <2>1, TakenIs, EventByType
  <2>3. QED
    BY <2>1, <2>2, EventIs DEF AuthInv
<1>2. CASE loop' = loop
  BY <1>2 DEF AuthInv, At
<1>3. CASE TakePoweredOff \/ TakeGone \/ EndSession \/ ForgetCentral \/ HandleAuth
  <2>1. loop'.at # "auth"
    <3>1. CASE TakePoweredOff \/ TakeGone
      BY <3>1 DEF TakePoweredOff, TakeGone, GoTo
    <3>2. CASE EndSession \/ ForgetCentral \/ HandleAuth
      BY <3>2, LoopIs DEF EndSession, ForgetCentral, HandleAuth, BleTypes, Moments
    <3>3. QED
      BY <1>3, <3>1, <3>2
  <2>2. QED
    BY <2>1 DEF AuthInv, At
<1>4. CASE Command \/ TakeSubscribed
  <2>1. loop' = loop
    BY <1>4 DEF Command, ToggleOn, ToggleOff, OnSnapshot, EndServed, Unpair, DropSessions, TakeSubscribed
  <2>2. QED
    BY <1>2, <2>1
<1>5. CASE Closures
  BY <1>2, <1>5 DEF Closures, OfferFrame, RevokeTargets, StartService, StopService, runtimeVars
<1>6. CASE Callback \/ PowerOff \/ PowerOn \/ RadioReady
  BY <1>2, <1>6 DEF Callback, SubscribeAuth, SubscribeSnapshot, Unsubscribe, WriteAuth, PowerOff, PowerOn,
                    RadioReady, Ready, runtimeVars
<1>7. QED
  BY NextIs, <1>1, <1>3, <1>4, <1>5, <1>6 DEF Loop

LEMMA SessionInvStep ==
  ASSUME BleTypes, AuthInv, SessionInv, Next
  PROVE  SessionInv'
<1> SUFFICES ASSUME NEW c \in Central, c \notin cut'
             PROVE  /\ Linked(c)' => WillBeIn(events', mirror', c, Len(events'))
                    /\ \A i \in 1 .. Len(events') : events'[i] = AuthWrite(c) =>
                         Linked(c)' \/ EndsAfter(events', mirror', c, i)
                    /\ At("auth")' /\ c \in loop'.ids => Linked(c)' \/ EndsAfter(events', mirror', c, 0)
                    /\ c \in authorized' => \/ Linked(c)' \/ EndsAfter(events', mirror', c, 0)
                                            \/ loop'.at \in {"ending", "leaving"} /\ c \in loop'.ids
                                            \/ \E cs \in served' : c \in cs
  BY DEF SessionInv, EndFollows
<1>0. events \in Seq(Event) /\ Len(events) \in Nat
  BY LenProperties DEF BleTypes
<1>1. CASE ToggleOff
  <2>1. /\ ~Linked(c) /\ c \notin cut
        /\ \A i \in 1 .. Len(events) : events[i] # AuthWrite(c)
        /\ ~(At("auth") /\ c \in loop.ids)
        /\ mirror' = {} /\ served' = served \union {mirror}
        /\ UNCHANGED <<events, loop, link, authorized>>
    BY <1>1, ToggleOffIs
  <2>2. ~Linked(c)'
    BY <2>1 DEF Linked
  <2>3. c \in authorized => \/ EndsAfter(events, mirror, c, 0)
                            \/ loop.at \in {"ending", "leaving"} /\ c \in loop.ids
                            \/ \E cs \in served : c \in cs
    BY <2>1 DEF SessionInv, EndFollows
  <2>4. EndsAfter(events, mirror, c, 0) => c \in mirror \/ EndsAfter(events, {}, c, 0)
    BY <1>0, ClearKeeps
  <2>5. QED
    BY <2>1, <2>2, <2>3, <2>4 DEF At
<1>2. CASE SubscribeAuth(c) \/ SubscribeSnapshot(c)
  <2>1. events' = events \o <<Subscribed(c)>> /\ mirror' = mirror
    BY <1>2 DEF SubscribeAuth, SubscribeSnapshot, Report, runtimeVars
  <2>2. WillBeIn(events', mirror', c, Len(events'))
    BY <1>0, <2>1, ReportedEnds
  <2>3. Linked(c)'
    BY <1>2 DEF SubscribeAuth, SubscribeSnapshot, Linked, BleTypes
  <2>4. QED
    BY <2>2, <2>3
<1>3. CASE ~ToggleOff /\ ~SubscribeAuth(c) /\ Linked(c)'
  <2>1. Linked(c) /\ c \notin cut
    BY <1>3, LinkStep
  <2>2. WillBeIn(events, mirror, c, Len(events))
    BY <2>1 DEF SessionInv
  <2>3. CASE Dealt(c)
    <3>1. /\ events # <<>> /\ events' = Tail(events) /\ Moves(Head(events), mirror, mirror', c)
      BY <2>3 DEF Dealt
    <3>2. Len(events) \in 1 .. Len(events) /\ Len(events') = Len(events) - 1
      BY <1>0, <3>1, Shifted
    <3>3. QED
      BY <1>0, <1>3, <2>2, <3>1, <3>2, TakeKeeps
  <2>4. CASE Told(c)
    <3>1. PICK es \in Seq(Event) : /\ events' = events \o es
                                   /\ \A i \in 1 .. Len(es) : es[i] \notin {Gone(c), PoweredOff}
      BY <1>3, <2>4 DEF Told
    <3>2. mirror' = mirror
      BY <2>4 DEF Told
    <3>3. QED
      BY <1>0, <1>3, <2>2, <3>1, <3>2, ReportKeepsIn
  <2>5. CASE UNCHANGED <<events, mirror>>
    BY <1>3, <2>2, <2>5
  <2>6. QED
    BY <1>3, <2>3, <2>4, <2>5, EventsStep
<1>4. CASE ~ToggleOff /\ ~SubscribeAuth(c) /\ ~Linked(c)' /\ Linked(c)
  <2>1. c \notin cut
    BY <1>4, LinkStep
  <2>2. /\ \A i \in 0 .. Len(events) : EndsAfter(events', mirror', c, i)
        /\ \E e \in Event : events' = events \o <<e>> /\ e # AuthWrite(c)
    BY <1>4, <2>1, LostIsEnded
  <2>3. ASSUME NEW i \in 1 .. Len(events'), events'[i] = AuthWrite(c) PROVE i \in 0 .. Len(events)
    <3>1. PICK e \in Event : events' = events \o <<e>> /\ e # AuthWrite(c)
      BY <2>2
    <3>2. Len(events') = Len(events) + 1 /\ events'[Len(events) + 1] = e
      BY <1>0, <3>1, Added
    <3>3. QED
      BY <1>0, <2>3, <3>1, <3>2
  <2>4. 0 \in 0 .. Len(events)
    BY <1>0
  <2>5. QED
    BY <1>4, <2>2, <2>3, <2>4
<1>5. CASE ~ToggleOff /\ ~SubscribeAuth(c) /\ ~Linked(c)' /\ ~Linked(c)
  <2>1. c \notin cut
    BY <1>5, LinkStep
  <2>2. /\ \A i \in 1 .. Len(events) : events[i] = AuthWrite(c) => EndsAfter(events, mirror, c, i)
        /\ At("auth") /\ c \in loop.ids => EndsAfter(events, mirror, c, 0)
        /\ c \in authorized => \/ EndsAfter(events, mirror, c, 0)
                               \/ loop.at \in {"ending", "leaving"} /\ c \in loop.ids
                               \/ \E cs \in served : c \in cs
    BY <1>5, <2>1 DEF SessionInv, EndFollows
  <2>3. CASE Dealt(c)
    <3>1. /\ events # <<>> /\ events' = Tail(events) /\ UNCHANGED <<authorized, served>> /\ loop.at = "idle"
          /\ loop'.at = "auth" /\ c \in loop'.ids => Head(events) = AuthWrite(c)
          /\ Head(events) = Gone(c) => loop'.at = "leaving" /\ c \in loop'.ids
          /\ Head(events) = PoweredOff /\ c \in mirror => loop'.at = "ending" /\ c \in loop'.ids
      BY <2>3 DEF Dealt
    <3>2. /\ Head(events) = events[1] /\ 1 \in 1 .. Len(events) /\ Len(events') \in Nat
          /\ \A i \in 1 .. Len(events') : events'[i] = events[i + 1] /\ i + 1 \in 1 .. Len(events)
      BY <1>0, <3>1, Shifted, LenProperties
    <3>3. \A k \in Nat : EndsAfter(events, mirror, c, k + 1) => EndsAfter(events', mirror', c, k)
      BY <1>5, <2>3, EndsStep
    <3>4. ASSUME NEW i \in 1 .. Len(events'), events'[i] = AuthWrite(c) PROVE EndsAfter(events', mirror', c, i)
      BY <2>2, <3>2, <3>3, <3>4
    <3>5. EndsAfter(events, mirror, c, 1) => EndsAfter(events', mirror', c, 0)
      BY <3>3
    <3>6. At("auth")' /\ c \in loop'.ids => EndsAfter(events', mirror', c, 0)
      BY <2>2, <3>1, <3>2, <3>5 DEF At
    <3>7. ASSUME EndsAfter(events, mirror, c, 0)
          PROVE  \/ EndsAfter(events', mirror', c, 0)
                 \/ loop'.at \in {"ending", "leaving"} /\ c \in loop'.ids
      <4>1. PICK j \in 1 .. Len(events) : Ends(events, mirror, c, j)
        BY <3>7 DEF EndsAfter
      <4>2. CASE j > 1
        BY <3>5, <4>1, <4>2 DEF EndsAfter
      <4>3. CASE j = 1
        <5>1. WillBeIn(events, mirror, c, 0) => c \in mirror
          BY DEF WillBeIn
        <5>2. QED
          BY <3>1, <3>2, <4>1, <4>3, <5>1 DEF Ends
      <4>4. QED
        BY <4>2, <4>3
    <3>8. QED
      BY <1>5, <2>2, <3>1, <3>4, <3>6, <3>7
  <2>4. CASE ~Dealt(c)
    <3>1. \A k \in Nat : EndsAfter(events, mirror, c, k) => EndsAfter(events', mirror', c, k)
      BY <1>5, <2>4, EndsStep
    <3>2. ASSUME NEW i \in 1 .. Len(events'), events'[i] = AuthWrite(c) PROVE EndsAfter(events', mirror', c, i)
      <4>1. i \in 1 .. Len(events) /\ events[i] = AuthWrite(c)
        <5>1. CASE Told(c)
          <6>1. PICK es \in Seq(Event) : /\ events' = events \o es
                                         /\ \A j \in 1 .. Len(es) : es[j] = AuthWrite(c) => Linked(c)'
            BY <5>1 DEF Told
          <6>2. /\ \A j \in 1 .. Len(events) : events'[j] = events[j]
                /\ \A j \in 1 .. Len(es) : events'[Len(events) + j] = es[j]
                /\ i \in 1 .. Len(events) \/ i - Len(events) \in 1 .. Len(es)
            BY <1>0, <6>1, Joined
          <6>3. CASE i \in 1 .. Len(events)
            BY <3>2, <6>2, <6>3
          <6>4. CASE i - Len(events) \in 1 .. Len(es)
            <7>1. PICK j \in 1 .. Len(es) : j = i - Len(events)
              BY <6>4
            <7>2. i = Len(events) + j
              BY <1>0, <7>1
            <7>3. es[j] = AuthWrite(c)
              BY <3>2, <6>2, <7>2
            <7>4. QED
              BY <1>5, <6>1, <7>3
          <6>5. QED
            BY <6>2, <6>3, <6>4
        <5>2. CASE UNCHANGED events
          BY <3>2, <5>2
        <5>3. QED
          BY <1>5, <2>4, <5>1, <5>2, EventsStep
      <4>2. i \in Nat
        OBVIOUS
      <4>3. QED
        BY <2>2, <3>1, <4>1, <4>2
    <3>3. EndsAfter(events, mirror, c, 0) => EndsAfter(events', mirror', c, 0)
      BY <3>1
    <3>4. /\ loop' = loop \/ loop'.at # "auth"
          /\ c \in authorized' => c \in authorized \/ (At("auth") /\ c \in loop.ids)
          /\ c \in authorized' /\ loop.at \in {"ending", "leaving"} /\ c \in loop.ids => loop' = loop
          /\ c \in authorized' => \A cs \in served : c \in cs => cs \in served'
      BY <1>5, <2>4, QuietStep
    <3>5. At("auth")' /\ c \in loop'.ids => EndsAfter(events', mirror', c, 0)
      BY <2>2, <3>3, <3>4 DEF At
    <3>6. QED
      BY <1>5, <2>2, <3>2, <3>3, <3>4, <3>5
  <2>5. QED
    BY <1>5, <2>3, <2>4
<1>6. QED
  BY <1>1, <1>2, <1>3, <1>4, <1>5

-------------------------------------------------------------------------------
(* The theorems *)

LEMMA BleInvInit == Init => BleInv
<1> SUFFICES ASSUME Init PROVE BleInv
  OBVIOUS
<1>1. BleTypes
  BY BleTypesInit
<1>2. /\ events = <<>> /\ posts = <<>> /\ Len(<<>>) = 0
      /\ loop = Idle /\ authorized = {} /\ \A c \in Central : link[c] = "away" /\ queue[c] = NoQueue
  BY EmptySeq DEF Init
<1>3. OfferInv
  BY <1>2 DEF OfferInv
<1>4. LinkInv /\ EndInv /\ QueueIsAuthorized /\ WaitingIsOwed
  BY <1>2 DEF Init, LinkInv, EndInv, Linked, QueueIsAuthorized, WaitingIsOwed
<1>5. AuthInv /\ SessionInv
  BY <1>2, LoopIs DEF AuthInv, SessionInv, At, Linked
<1>6. QED
  BY <1>1, <1>3, <1>4, <1>5 DEF BleInv

LEMMA BleInvStep == BleInv /\ [Next]_vars => BleInv'
<1> SUFFICES ASSUME BleInv, [Next]_vars PROVE BleInv'
  OBVIOUS
<1>1. BleTypes'
  BY NextTypes DEF BleInv
<1>2. CASE Next
  <2>1. LinkInv' /\ WaitingIsOwed'
    BY <1>2, QueuesStep DEF BleInv
  <2>2. EndInv' /\ OfferInv'
    BY <1>2, EndInvStep, OfferInvStep DEF BleInv
  <2>3. QueueIsAuthorized'
    BY <1>1, <1>2, <2>1, QueueIsAuthorizedStep DEF BleInv
  <2>4. AuthInv' /\ SessionInv'
    BY <1>2, AuthInvStep, SessionInvStep DEF BleInv
  <2>5. QED
    BY <1>1, <2>1, <2>2, <2>3, <2>4 DEF BleInv
<1>3. CASE UNCHANGED vars
  BY <1>1, <1>3 DEF vars, runtimeVars, mainVars, centralVars, BleInv, LinkInv, Linked, Stopping, EndInv,
       Ending, OfferInv, WillDrop, At, QueueIsAuthorized, Dropping, AuthInv, SessionInv, EndFollows, WaitingIsOwed
<1>4. QED
  BY <1>2, <1>3

LEMMA BleInvHolds == Spec => []BleInv
  BY BleInvInit, BleInvStep, PTL DEF Spec

\* Every variable of the BLE transport keeps to its range: a queue is never more than a
\* frame under way and one that waits (SendQueue, ble/send_queue.rs).
THEOREM BleIsTyped == Spec => []BleTypes
<1>1. BleInv => BleTypes
  BY DEF BleInv
<1>2. QED
  BY <1>1, BleInvHolds, PTL

\* No queue is forgotten: whenever chunks are left in one, the radio refused one and
\* still owes the call that goes on with it (macos.rs:115-203, 328-341), for
\* any number of centrals, frames and chunks.
THEOREM NoQueueIsForgotten == Spec => []WaitingIsOwed
<1>1. BleInv => WaitingIsOwed
  BY DEF BleInv
<1>2. QED
  BY <1>1, BleInvHolds, PTL

\* That there is a queue means that its central may be sent to, or that its drop is on
\* the way: an offer overtaken by a revocation is followed by the closure that drops
\* what it left (macos.rs:82-85; ble/mod.rs, on_snapshot, forget_central, drop_sessions).
THEOREM OnlyAuthorizedAreQueued == Spec => []QueueIsAuthorized
<1>1. BleInv => QueueIsAuthorized
  BY DEF BleInv
<1>2. QED
  BY <1>1, BleInvHolds, PTL

\* An authorization ends with the link, whichever way that is lost, for every central
\* that no switch-off cut off (lib.rs:1375-1440; ble/mod.rs, sessions_to_end_before).
THEOREM NoGhostOfALink == Spec => []GhostOnlyFromSwitch
<1>1. BleInv => GhostOnlyFromSwitch
  <2> SUFFICES ASSUME BleInv, NEW c \in authorized, c \notin cut,
                      ~Linked(c), ~\E cs \in served : c \in cs
               PROVE  Ending(c)
    BY DEF GhostOnlyFromSwitch, Linked
  <2>1. c \in Central /\ DOMAIN events = 1 .. Len(events)
    BY LenProperties DEF BleInv, BleTypes
  <2>2. EndsAfter(events, mirror, c, 0) \/ (loop.at \in {"ending", "leaving"} /\ c \in loop.ids)
    BY <2>1 DEF BleInv, SessionInv, EndFollows
  <2>3. QED
    BY <2>1, <2>2 DEF EndsAfter, Ends, Ending
<1>2. QED
  BY <1>1, BleInvHolds, PTL

-------------------------------------------------------------------------------
(* Induction over the natural numbers, of a set *)

LEMMA Least ==
  ASSUME NEW T, T \subseteq Nat, T # {}
  PROVE \E x \in T : \A y \in T : ~(y < x)
<1>1. IsWellFoundedOn(OpToRel(<, Nat), Nat)
  BY NatLessThanWellFounded
<1>2. PICK x \in T : \A y \in T : ~(<<y, x>> \in OpToRel(<, Nat))
  BY <1>1, WFMin
<1>3. \A y \in T : <<y, x>> \in OpToRel(<, Nat) <=> y < x
  BY DEF OpToRel
<1>4. QED
  BY <1>2, <1>3

LEMMA Inductive ==
  ASSUME NEW S, 0 \in S, \A n \in Nat : n \in S => n + 1 \in S
  PROVE  Nat \subseteq S
<1> DEFINE T == Nat \ S
<1> SUFFICES ASSUME T # {} PROVE FALSE
  OBVIOUS
<1>1. PICK x \in T : \A y \in T : ~(y < x)
  BY Least
<1>2. x \in Nat \ {0}
  OBVIOUS
<1>3. x - 1 \in Nat /\ x - 1 < x /\ x - 1 + 1 = x
  BY <1>2
<1>4. QED
  BY <1>1, <1>2, <1>3

-------------------------------------------------------------------------------
(* What a device hears, chunk by chunk: the folds of Heard *)

LEMMA MaxIs ==
  ASSUME NEW n \in Nat, NEW t \in SUBSET (1 .. n + 1), n + 1 \in t
  PROVE  Max(t) = n + 1
<1>1. \A y \in t : n + 1 >= y /\ y \in Nat
  OBVIOUS
<1>2. \A x \in t : (\A y \in t : x >= y) => x = n + 1
  BY <1>1
<1>3. QED
  BY <1>1, <1>2 DEF Max

\* The function by which FoldLeft is defined exists.
HearsStep(d, r0, s, f, t) == IF t = {} THEN r0 ELSE Hear(d, f[t \ {Max(t)}], s[Max(t)])

IsHearing(d, r0, s, n, f) == f = [t \in SUBSET (1 .. n) |-> HearsStep(d, r0, s, f, t)]

LEMMA FoldExists ==
  ASSUME NEW d, NEW r0, NEW s, NEW n \in Nat
  PROVE  \E f : IsHearing(d, r0, s, n, f)
<1> USE DEF IsHearing
<1> DEFINE S == {k \in Nat : \E f : f = [t \in SUBSET (1 .. k) |-> HearsStep(d, r0, s, f, t)]}
<1>1. 0 \in S
  <2> DEFINE f == [t \in SUBSET (1 .. 0) |-> r0]
  <2>1. \A t \in SUBSET (1 .. 0) : t = {}
    OBVIOUS
  <2>2. f = [t \in SUBSET (1 .. 0) |-> HearsStep(d, r0, s, f, t)]
    BY <2>1 DEF HearsStep
  <2>3. QED
    BY <2>2
<1>2. ASSUME NEW k \in Nat, k \in S PROVE k + 1 \in S
  <2>1. PICK f : f = [t \in SUBSET (1 .. k) |-> HearsStep(d, r0, s, f, t)]
    BY <1>2
  <2> DEFINE g == [t \in SUBSET (1 .. k + 1) |->
                     IF k + 1 \in t THEN Hear(d, f[t \ {k + 1}], s[k + 1]) ELSE f[t]]
  <2>2. ASSUME NEW t \in SUBSET (1 .. k + 1) PROVE g[t] = HearsStep(d, r0, s, g, t)
    <3>1. CASE k + 1 \in t
      <4>1. Max(t) = k + 1 /\ t # {}
        BY <3>1, MaxIs
      <4>2. t \ {k + 1} \in SUBSET (1 .. k + 1) /\ k + 1 \notin t \ {k + 1}
        OBVIOUS
      <4>3. g[t \ {k + 1}] = f[t \ {k + 1}]
        BY <4>2
      <4>4. g[t] = Hear(d, f[t \ {k + 1}], s[k + 1])
        BY <3>1
      <4> HIDE DEF g
      <4>5. QED
        BY <4>1, <4>3, <4>4 DEF HearsStep
    <3>2. CASE k + 1 \notin t
      <4>0. \A i \in 1 .. k + 1 : i # k + 1 => i \in 1 .. k
        OBVIOUS
      <4>1. /\ t \subseteq 1 .. k
            /\ t \ {Max(t)} \in SUBSET (1 .. k) /\ t \ {Max(t)} \in SUBSET (1 .. k + 1)
            /\ k + 1 \notin t \ {Max(t)}
        BY <3>2, <4>0
      <4>2. g[t] = f[t] /\ g[t \ {Max(t)}] = f[t \ {Max(t)}]
        BY <3>2, <4>1
      <4>3. f[t] = HearsStep(d, r0, s, f, t)
        BY <2>1, <4>1
      <4> HIDE DEF g
      <4>4. QED
        BY <4>2, <4>3 DEF HearsStep
    <3>3. QED
      BY <3>1, <3>2
  <2>3. g = [t \in SUBSET (1 .. k + 1) |-> HearsStep(d, r0, s, g, t)]
    BY <2>2
  <2> HIDE DEF g
  <2>4. QED
    BY <2>3
<1>3. Nat \subseteq S
  <2> HIDE DEF S
  <2>1. QED
    BY <1>1, <1>2, Inductive
<1>4. QED
  BY <1>3

HearAll(d, r0, s) == FoldLeft(LAMBDA r, chunk : Hear(d, r, chunk), r0, s)

\* g is what d has heard, by the number of chunks of s.
Hearing(g, d, r0, s, n) == g[0] = r0 /\ \A k \in 1 .. n : g[k] = Hear(d, g[k - 1], s[k])

LEMMA FoldIs ==
  ASSUME NEW d, NEW r0, NEW s, NEW n \in Nat, DOMAIN s = 1 .. n
  PROVE  \E g : Hearing(g, d, r0, s, n) /\ HearAll(d, r0, s) = g[n]
<1> DEFINE D == SUBSET DOMAIN s
           it == CHOOSE f : f = [t \in D |-> IF t = {} THEN r0 ELSE Hear(d, f[t \ {Max(t)}], s[Max(t)])]
           g == [k \in 0 .. n |-> it[1 .. k]]
<1>1. HearAll(d, r0, s) = it[DOMAIN s]
  BY DEF HearAll, FoldLeft, MapThenFoldSet
<1>2. it = [t \in D |-> IF t = {} THEN r0 ELSE Hear(d, it[t \ {Max(t)}], s[Max(t)])]
  <2>1. PICK f : IsHearing(d, r0, s, n, f)
    BY FoldExists
  <2>2. f = [t \in D |-> IF t = {} THEN r0 ELSE Hear(d, f[t \ {Max(t)}], s[Max(t)])]
    BY <2>1, Zenon DEF IsHearing, HearsStep
  <2>3. QED
    BY <2>2
<1> HIDE DEF it
<1>3. g[0] = r0
  <2>1. {} \in D /\ 1 .. 0 = {}
    OBVIOUS
  <2>2. it[{}] = r0
    BY <1>2, <2>1
  <2>3. QED
    BY <2>1, <2>2
<1>4. ASSUME NEW k \in 1 .. n PROVE g[k] = Hear(d, g[k - 1], s[k])
  <2>1. k - 1 \in Nat /\ k - 1 + 1 = k /\ 1 .. k \in D /\ k \in 1 .. k
    OBVIOUS
  <2>2. Max(1 .. k) = k
    BY <2>1, MaxIs
  <2>3. (1 .. k) \ {k} = 1 .. (k - 1)
    OBVIOUS
  <2>4. it[1 .. k] = Hear(d, it[(1 .. k) \ {Max(1 .. k)}], s[Max(1 .. k)])
    BY <1>2, <2>1
  <2>5. it[1 .. k] = Hear(d, it[1 .. (k - 1)], s[k])
    BY <2>2, <2>3, <2>4
  <2>6. g[k] = it[1 .. k] /\ g[k - 1] = it[1 .. (k - 1)]
    OBVIOUS
  <2>7. QED
    BY <2>5, <2>6
<1>5. g[n] = it[DOMAIN s]
  OBVIOUS
<1> HIDE DEF g
<1>6. Hearing(g, d, r0, s, n)
  BY <1>3, <1>4 DEF Hearing
<1>7. QED
  BY <1>1, <1>5, <1>6

\* Sequences of which at most one is not empty, one after the other.
LEMMA FlattenOne ==
  ASSUME NEW T, NEW m \in Nat, NEW seqs \in [1 .. m -> Seq(T)], NEW j, NEW out \in Seq(T),
         \A i \in 1 .. m : seqs[i] = IF i = j THEN out ELSE <<>>
  PROVE  FlattenSeq(seqs) = IF j \in 1 .. m THEN out ELSE <<>>
<1>1. seqs \in Seq(Seq(T)) /\ Len(seqs) = m
  BY SeqDef
<1>2. CASE m = 0
  <2>1. seqs = <<>>
    BY <1>1, <1>2, EmptySeq
  <2>2. FlattenSeq(seqs) = seqs
    BY <1>1, <1>2 DEF FlattenSeq
  <2>3. QED
    BY <1>2, <2>1, <2>2
<1>3. CASE m # 0
  <2> DEFINE fl == CHOOSE f : f = [i \in 1 .. m |-> IF i = 1 THEN seqs[i] ELSE f[i - 1] \o seqs[i]]
             w == [i \in 1 .. m |-> IF j \in 1 .. i THEN out ELSE <<>>]
             S == {k \in Nat : k + 1 \in 1 .. m => fl[k + 1] = w[k + 1]}
  <2>1. FlattenSeq(seqs) = fl[m]
    BY <1>1, <1>3 DEF FlattenSeq
  <2>2. \A s \in Seq(T) : s \o <<>> = s /\ <<>> \o s = s
    BY ConcatEmptySeq
  <2>3. <<>> \in Seq(T)
    BY EmptySeq
  <2>4. ASSUME NEW i \in 1 .. m PROVE w[i] = IF i = 1 THEN seqs[i] ELSE w[i - 1] \o seqs[i]
    <3>1. CASE i = 1
      BY <3>1
    <3>2. CASE i # 1
      <4>1. i - 1 \in 1 .. m /\ \A l : l \in 1 .. i <=> l \in 1 .. (i - 1) \/ l = i
        BY <3>2
      <4>2. w[i] = (IF j \in 1 .. i THEN out ELSE <<>>) /\ w[i - 1] = IF j \in 1 .. (i - 1) THEN out ELSE <<>>
        BY <4>1
      <4>3. i \notin 1 .. (i - 1)
        OBVIOUS
      <4> HIDE DEF w
      <4>4. QED
        BY <2>2, <2>3, <3>2, <4>1, <4>2, <4>3
    <3>3. QED
      BY <3>1, <3>2
  <2>5. fl = [i \in 1 .. m |-> IF i = 1 THEN seqs[i] ELSE fl[i - 1] \o seqs[i]]
    <3>1. w = [i \in 1 .. m |-> IF i = 1 THEN seqs[i] ELSE w[i - 1] \o seqs[i]]
      BY <2>4
    <3> HIDE DEF w
    <3>2. QED
      BY <3>1
  <2> HIDE DEF fl, w
  <2>6. 0 \in S
    BY <2>4, <2>5
  <2>7. ASSUME NEW k \in Nat, k \in S PROVE k + 1 \in S
    <3>1. SUFFICES ASSUME k + 1 + 1 \in 1 .. m PROVE fl[k + 1 + 1] = w[k + 1 + 1]
      OBVIOUS
    <3>2. k + 1 \in 1 .. m /\ k + 1 + 1 # 1 /\ k + 1 + 1 - 1 = k + 1
      BY <3>1
    <3>3. fl[k + 1] = w[k + 1]
      BY <2>7, <3>2
    <3>4. PICK i \in 1 .. m : i = k + 1 + 1
      BY <3>1
    <3>5. i # 1 /\ i - 1 = k + 1
      BY <3>4
    <3>6. fl[i] = fl[i - 1] \o seqs[i]
      BY <2>5, <3>5
    <3>7. w[i] = w[i - 1] \o seqs[i]
      BY <2>4, <3>5
    <3>8. QED
      BY <3>3, <3>4, <3>5, <3>6, <3>7
  <2>8. Nat \subseteq S
    <3> HIDE DEF S
    <3>1. QED
      BY <2>6, <2>7, Inductive
  <2>9. m - 1 \in Nat /\ m - 1 + 1 = m /\ m \in 1 .. m
    BY <1>3
  <2>10. fl[m] = w[m]
    BY <2>8, <2>9
  <2>11. QED
    BY <2>1, <2>9, <2>10 DEF w
<1>4. QED
  BY <1>2, <1>3

Part == [to : Central, frame : Frame, part : 0 .. Chunks - 1]

Air == [id : Frame, idx : 0 .. Chunks - 1, count : {Chunks}, of : Part]

LEMMA OnAirIs == ASSUME NEW c \in Central, NEW x \in Chunk PROVE OnAir(c, x) \in Air
  BY DEF OnAir, Air, Part, Chunk

QueueMap == [Central -> Queues(Frame) \union {NoQueue}]

LEMMA QueueAheadIs ==
  ASSUME NEW q \in QueueMap, NEW c \in Central
  PROVE  QueueAhead(q, c) \in Seq(Chunk) /\ Len(QueueAhead(q, c)) \in Nat
<1>1. CASE q[c] = NoQueue
  BY <1>1, EmptySeq DEF QueueAhead
<1>2. CASE q[c] # NoQueue
  BY <1>2, AheadIs DEF QueueAhead, QueueMap
<1>3. QED
  BY <1>1, <1>2

\* Without a spill a central is sent its own chunks and no other.
OwnStream(q, c, k) == [i \in 1 .. k |-> OnAir(c, QueueAhead(q, c)[i])]

LEMMA OwnStreamIs ==
  ASSUME NEW q \in QueueMap, NEW c \in Central, NEW k \in Nat, k <= Len(QueueAhead(q, c))
  PROVE  /\ OwnStream(q, c, k) \in Seq(Air) /\ DOMAIN OwnStream(q, c, k) = 1 .. k
         /\ \A i \in 1 .. k : OwnStream(q, c, k)[i] = OnAir(c, QueueAhead(q, c)[i])
<1>1. \A i \in 1 .. k : QueueAhead(q, c)[i] \in Chunk
  BY QueueAheadIs, ElementOfSeq
<1>2. \A i \in 1 .. k : OnAir(c, QueueAhead(q, c)[i]) \in Air
  BY <1>1, OnAirIs
<1>3. OwnStream(q, c, k) \in [1 .. k -> Air]
  BY <1>2 DEF OwnStream
<1>4. QED
  BY <1>3, SeqDef DEF OwnStream

LEMMA StreamIs ==
  ASSUME NEW q, NEW c, NEW d, NEW k
  PROVE  Stream(q, c, d, k, {}) = IF c = d THEN OwnStream(q, d, k) ELSE <<>>
<1>1. CASE c = d
  BY <1>1, Zenon DEF Stream, OwnStream
<1>2. CASE c # d
  <2> DEFINE out == [i \in 1 .. k |-> OnAir(c, QueueAhead(q, c)[i])]
             none == [i \in 1 .. Cardinality({}) |-> out[SetToSortSeq({}, <)[i]]]
  <2>1. Stream(q, c, d, k, {}) = none
    BY <1>2, Zenon DEF Stream
  <2>2. none = <<>>
    <3>1. Cardinality({}) = 0 /\ 1 .. 0 = {}
      BY FS_EmptySet
    <3>2. \A g : [i \in {} |-> g[i]] = <<>>
      OBVIOUS
    <3>3. none = [i \in {} |-> none[i]]
      BY <3>1, Zenon
    <3> HIDE DEF none
    <3>4. QED
      BY <3>2, <3>3
  <2>3. QED
    BY <1>2, <2>1, <2>2
<1>3. QED
  BY <1>1, <1>2

\* What d hears of it, chunk by chunk.
LEMMA HeardIs ==
  ASSUME NEW q \in QueueMap, NEW cs \in SUBSET Central, NEW n \in [cs -> Nat],
         \A c \in cs : n[c] <= Len(QueueAhead(q, c)),
         NEW spills, \A c \in cs : spills[c] = {},
         NEW d \in Central
  PROVE  /\ d \notin cs \/ ~Hears(d) => Heard(d, q, cs, n, spills) = rx[d]
         /\ d \in cs /\ Hears(d) =>
              \E g : /\ Hearing(g, d, rx[d], OwnStream(q, d, n[d]), n[d])
                     /\ Heard(d, q, cs, n, spills) = g[n[d]]
<1> DEFINE order == SetToSeq(cs)
           seqs == [i \in 1 .. Len(order) |-> Stream(q, order[i], d, n[order[i]], spills[order[i]])]
           stream == FlattenSeq(seqs)
<1>1. Heard(d, q, cs, n, spills) =
        IF Hears(d) THEN HearAll(d, rx[d], stream) ELSE rx[d]
  BY Zenon DEF Heard, HearAll
<1>2. IsFiniteSet(cs)
  BY BleAssumption, FS_Subset
<1>3. /\ order \in Seq(cs) /\ Len(order) \in Nat /\ \A i \in 1 .. Len(order) : order[i] \in cs
      /\ \A i, j \in 1 .. Len(order) : order[i] = order[j] => i = j
      /\ \A x \in cs : \E i \in 1 .. Len(order) : order[i] = x
  BY <1>2, SetToSeqIs, ElementOfSeq
<1> HIDE DEF order
<1>4. \A i \in 1 .. Len(order) : seqs[i] = IF order[i] = d THEN OwnStream(q, d, n[d]) ELSE <<>>
  <2>1. ASSUME NEW i \in 1 .. Len(order)
        PROVE  Stream(q, order[i], d, n[order[i]], spills[order[i]])
               = IF order[i] = d THEN OwnStream(q, d, n[d]) ELSE <<>>
    <3>1. spills[order[i]] = {}
      BY <1>3
    <3>2. QED
      BY <3>1, StreamIs
  <2>2. QED
    BY <2>1
<1>5. <<>> \in Seq(Air)
  BY EmptySeq
<1>6. CASE d \in cs
  <2> DEFINE out == OwnStream(q, d, n[d])
  <2>1. out \in Seq(Air) /\ DOMAIN out = 1 .. n[d]
        /\ \A i \in 1 .. n[d] : out[i] = OnAir(d, QueueAhead(q, d)[i])
    BY <1>6, OwnStreamIs
  <2> HIDE DEF out
  <2>2. PICK j \in 1 .. Len(order) : order[j] = d
    BY <1>3, <1>6
  <2>3. \A i \in 1 .. Len(order) : seqs[i] = IF i = j THEN out ELSE <<>>
    BY <1>3, <1>4, <2>2 DEF out
  <2>4. seqs \in [1 .. Len(order) -> Seq(Air)]
    <3>1. \A i \in 1 .. Len(order) : seqs[i] \in Seq(Air)
      BY <1>5, <2>1, <2>3
    <3>2. QED
      BY <3>1
  <2> HIDE DEF seqs
  <2>5. stream = out
    <3>1. out \in Seq(Air)
      BY <2>1
    <3>2. PICK m \in Nat : m = Len(order)
      BY <1>3
    <3>3. seqs \in [1 .. m -> Seq(Air)] /\ \A i \in 1 .. m : seqs[i] = IF i = j THEN out ELSE <<>>
      BY <2>3, <2>4, <3>2
    <3>4. FlattenSeq(seqs) = IF j \in 1 .. m THEN out ELSE <<>>
      BY <3>1, <3>3, FlattenOne
    <3>5. QED
      BY <2>2, <3>2, <3>4
  <2>6. PICK g : Hearing(g, d, rx[d], out, n[d]) /\ HearAll(d, rx[d], out) = g[n[d]]
    <3>1. PICK k \in Nat : k = n[d]
      BY <1>6
    <3>2. DOMAIN out = 1 .. k
      BY <2>1, <3>1
    <3>3. \E g : Hearing(g, d, rx[d], out, k) /\ HearAll(d, rx[d], out) = g[k]
      BY <3>2, FoldIs
    <3>4. QED
      BY <3>1, <3>3
  <2>7. Hears(d) => Heard(d, q, cs, n, spills) = g[n[d]]
    BY <1>1, <2>5, <2>6
  <2>8. ~Hears(d) => Heard(d, q, cs, n, spills) = rx[d]
    BY <1>1
  <2>9. QED
    BY <1>6, <2>6, <2>7, <2>8 DEF out
<1>7. CASE d \notin cs
  <2>1. \A i \in 1 .. Len(order) : seqs[i] = <<>>
    <3> HIDE DEF seqs
    <3>1. QED
      BY <1>3, <1>4, <1>7
  <2>2. seqs \in [1 .. Len(order) -> Seq(Air)]
    <3>1. \A i \in 1 .. Len(order) : seqs[i] \in Seq(Air)
      BY <1>5, <2>1
    <3>2. QED
      BY <3>1
  <2> HIDE DEF seqs
  <2>3. stream = <<>>
    <3>1. \A i \in 1 .. Len(order) : seqs[i] = IF i = 0 THEN <<>> ELSE <<>>
      BY <2>1
    <3>2. FlattenSeq(seqs) = IF 0 \in 1 .. Len(order) THEN <<>> ELSE <<>>
      BY <1>3, <1>5, <2>2, <3>1, FlattenOne
    <3>3. QED
      BY <3>2
  <2>4. DOMAIN <<>> = 1 .. 0
    OBVIOUS
  <2>5. HearAll(d, rx[d], <<>>) = rx[d]
    <3>1. \E g : Hearing(g, d, rx[d], <<>>, 0) /\ HearAll(d, rx[d], <<>>) = g[0]
      BY <2>4, FoldIs
    <3>2. QED
      BY <3>1 DEF Hearing
  <2>6. QED
    BY <1>1, <1>7, <2>3, <2>5
<1>8. QED
  BY <1>6, <1>7

-------------------------------------------------------------------------------
(* A device puts the chunks of a queue together *)

\* What a device has put together of its frame f, and what it knows.
Assembly == [id : Frame \union {Absent}, expected : Nat, count : Nat, from : SUBSET Part, aborted : BOOLEAN]

Receiver == [asm : Assembly, last : Nat, torn : BOOLEAN, lost : BOOLEAN]

Parts(c, f, s) == {[to |-> c, frame |-> f, part |-> i] : i \in 0 .. s - 1}

Begun(c, f, s) == [id |-> f, expected |-> s, count |-> Chunks, aborted |-> FALSE, from |-> Parts(c, f, s)]

\* The device c, which missed a part of the frame m only, is in step with a queue of
\* whose frame f the first s chunks went out.
Follows(c, r, f, s, m) ==
  /\ r \in Receiver /\ ~r.torn /\ ~r.lost
  /\ r.asm.aborted => r.asm.id = m
  /\ IF f # Absent /\ s > 0
     THEN \/ r.asm = Begun(c, f, s)
          \/ f = m /\ r.asm.expected = 0 /\ (r.asm.id = m => r.asm.aborted)
     ELSE r.asm.expected > 0 => r.asm.id = m

LEMMA BegunIs ==
  ASSUME NEW c \in Central, NEW f \in Frame, NEW s \in 0 .. Chunks
  PROVE  Begun(c, f, s) \in Assembly
<1>1. Parts(c, f, s) \in SUBSET Part
  BY ChunksAssumption DEF Parts, Part
<1>2. s \in Nat /\ Chunks \in Nat
  BY ChunksAssumption
<1>3. QED
  BY <1>1, <1>2 DEF Begun, Assembly

LEMMA NewReassemblerIs == NewReassembler \in Assembly
  BY DEF NewReassembler, Assembly, Absent

\* The chunk s of the frame f, pushed onto the s before it.
LEMMA PushNext ==
  ASSUME NEW c \in Central, NEW f \in Frame, NEW s \in 0 .. Chunks - 1, NEW a \in Assembly,
         s = 0 \/ a = Begun(c, f, s)
  PROVE  Push(a, OnAir(c, [frame |-> f, idx |-> s])) = Begun(c, f, s + 1)
<1> DEFINE x == [id |-> f, idx |-> s, count |-> Chunks, of |-> [to |-> c, frame |-> f, part |-> s]]
           b == StartedAt(a, x)
<1>1. OnAir(c, [frame |-> f, idx |-> s]) = x
  BY DEF OnAir
<1>2. Parts(c, f, s + 1) = Parts(c, f, s) \union {[to |-> c, frame |-> f, part |-> s]}
  <2>1. 0 .. s + 1 - 1 = (0 .. s - 1) \union {s}
    BY ChunksAssumption
  <2>2. QED
    BY <2>1 DEF Parts
<1>3. b = Begun(c, f, s)
  <2>1. CASE s = 0
    <3>1. 0 .. s - 1 = {}
      BY <2>1
    <3>2. Parts(c, f, s) = {}
      BY <3>1 DEF Parts
    <3>3. b = [id |-> f, expected |-> 0, count |-> Chunks, from |-> {}, aborted |-> FALSE]
      BY <2>1 DEF StartedAt, NewReassembler
    <3>4. QED
      BY <2>1, <3>2, <3>3 DEF Begun
  <2>2. CASE s # 0
    BY <2>2 DEF StartedAt
  <2>3. QED
    BY <2>1, <2>2
<1>4. b.aborted = FALSE /\ b.expected = s /\ b.count = Chunks /\ b.from = Parts(c, f, s) /\ b.id = f
  BY <1>3 DEF Begun
<1>5. IsNext(b, x)
  BY <1>4 DEF IsNext
<1>6. ~(x.idx # 0 /\ a.id # x.id)
  BY DEF Begun
<1>7. Push(a, x) = [b EXCEPT !.expected = @ + 1, !.from = @ \union {x.of}]
  BY <1>5, <1>6 DEF Push
<1>8. x.of = [to |-> c, frame |-> f, part |-> s]
  OBVIOUS
<1> HIDE DEF x, b
<1>9. Push(a, x) = [Begun(c, f, s) EXCEPT !.expected = @ + 1, !.from = @ \union {[to |-> c, frame |-> f, part |-> s]}]
  BY <1>3, <1>7, <1>8
<1>10. QED
  BY <1>1, <1>2, <1>9 DEF Begun

\* A chunk in the middle of a frame of which the first one was missed.
LEMMA PushMissed ==
  ASSUME NEW c \in Central, NEW f \in Frame, NEW s \in 1 .. Chunks - 1, NEW a \in Assembly,
         a.id = f => a.aborted,
         NEW b, b = Push(a, OnAir(c, [frame |-> f, idx |-> s]))
  PROVE  b \in Assembly /\ b.id = f /\ b.aborted /\ b.expected = a.expected
<1> DEFINE x == [id |-> f, idx |-> s, count |-> Chunks, of |-> [to |-> c, frame |-> f, part |-> s]]
<1>1. OnAir(c, [frame |-> f, idx |-> s]) = x /\ x.idx # 0 /\ x.id = f
  BY DEF OnAir
<1> HIDE DEF x
<1>2. CASE a.id # f
  <2>1. b = [a EXCEPT !.id = f, !.aborted = TRUE]
    BY <1>1, <1>2 DEF Push
  <2>2. QED
    BY <2>1 DEF Assembly
<1>3. CASE a.id = f
  <2>1. StartedAt(a, x) = a
    BY <1>1 DEF StartedAt
  <2>2. ~IsNext(a, x)
    BY <1>3 DEF IsNext
  <2>3. b = [a EXCEPT !.aborted = TRUE]
    BY <1>1, <1>3, <2>1, <2>2 DEF Push
  <2>4. QED
    BY <1>3, <2>3 DEF Assembly
<1>4. QED
  BY <1>2, <1>3

LEMMA HearNext ==
  ASSUME NEW c \in Central, NEW r, NEW f \in Frame, NEW s \in 0 .. Chunks - 1,
         Follows(c, r, f, s, missed[c]), r.last < f,
         NEW h, h = Hear(c, r, OnAir(c, [frame |-> f, idx |-> s]))
  PROVE  /\ s + 1 < Chunks => Follows(c, h, f, s + 1, missed[c]) /\ h.last = r.last
         /\ s + 1 = Chunks => (\A g : Follows(c, h, g, 0, missed[c])) /\ h.last \in {r.last, f}
<1> DEFINE x == OnAir(c, [frame |-> f, idx |-> s])
           m == missed[c]
           asm == Push(r.asm, x)
           gaveUp == x.idx = 0 /\ r.asm.expected > 0 /\ r.asm.id # m
<1>1. r \in Receiver /\ ~r.torn /\ ~r.lost /\ r.asm \in Assembly /\ r.last \in Nat
  BY DEF Follows, Receiver
<1>2. x.idx = s
  BY DEF OnAir
<1>3. ~gaveUp
  BY <1>2 DEF Follows
<1>4. h = IF ~Complete(asm) THEN [r EXCEPT !.asm = asm, !.lost = @ \/ gaveUp]
          ELSE [asm  |-> Taken(asm),
                last |-> asm.id,
                torn |-> r.torn \/ asm.from # WholeFrame(c, asm.id) \/ asm.id <= r.last,
                lost |-> r.lost \/ gaveUp]
  BY DEF Hear
<1> HIDE DEF gaveUp
<1>5. CASE s = 0 \/ r.asm = Begun(c, f, s)
  <2>1. asm = Begun(c, f, s + 1)
    BY <1>1, <1>5, PushNext
  <2>2. asm \in Assembly
    <3>1. s + 1 \in 0 .. Chunks
      BY ChunksAssumption
    <3>2. QED
      BY <2>1, <3>1, BegunIs
  <2>3. /\ asm.aborted = FALSE /\ asm.expected = s + 1 /\ asm.count = Chunks /\ asm.id = f
        /\ asm.from = Parts(c, f, s + 1)
    BY <2>1 DEF Begun
  <2> HIDE DEF asm
  <2>4. CASE s + 1 < Chunks
    <3>1. ~Complete(asm)
      BY <2>3, <2>4, ChunksAssumption DEF Complete
    <3>2. h = [r EXCEPT !.asm = asm, !.lost = @ \/ gaveUp]
      BY <1>4, <3>1
    <3>3. h \in Receiver /\ ~h.torn /\ ~h.lost /\ h.asm = asm /\ h.last = r.last
      BY <1>1, <1>3, <2>2, <3>2 DEF Receiver
    <3>4. Follows(c, h, f, s + 1, m)
      BY <2>1, <2>3, <3>3, ChunksAssumption DEF Follows, Frame, Absent
    <3>5. QED
      BY <2>4, <3>3, <3>4
  <2>5. CASE s + 1 = Chunks
    <3>1. Complete(asm)
      BY <2>3, <2>5, ChunksAssumption DEF Complete
    <3>2. Taken(asm) = NewReassembler
      BY <3>1 DEF Taken
    <3>3. asm.from = WholeFrame(c, asm.id) /\ ~(asm.id <= r.last)
      <4>1. f \in Nat
        BY BleAssumption DEF Frame
      <4>2. QED
        BY <1>1, <2>3, <2>5, <4>1 DEF Parts, WholeFrame
    <3>4. h = [asm |-> NewReassembler, last |-> f, torn |-> FALSE, lost |-> FALSE]
      BY <1>1, <1>3, <1>4, <2>3, <3>1, <3>2, <3>3
    <3>5. h \in Receiver
      <4>1. f \in Nat
        BY BleAssumption DEF Frame
      <4>2. \A a \in Assembly, l \in Nat, t, o \in BOOLEAN :
              [asm |-> a, last |-> l, torn |-> t, lost |-> o] \in Receiver
        BY DEF Receiver
      <4>3. QED
        BY <3>4, <4>1, <4>2, NewReassemblerIs
    <3>6. \A g : Follows(c, h, g, 0, m)
      BY <3>4, <3>5 DEF Follows, NewReassembler
    <3>7. QED
      BY <2>5, <3>4, <3>6
  <2>6. QED
    BY <2>4, <2>5, ChunksAssumption
<1>6. CASE ~(s = 0 \/ r.asm = Begun(c, f, s))
  <2>1. f = m /\ r.asm.expected = 0 /\ (r.asm.id = m => r.asm.aborted) /\ s \in 1 .. Chunks - 1
    BY <1>6 DEF Follows, Frame, Absent
  <2>2. PICK a \in Assembly : a = r.asm
    BY <1>1
  <2>3. asm \in Assembly /\ asm.id = f /\ asm.aborted /\ asm.expected = 0
    <3>1. asm = Push(a, OnAir(c, [frame |-> f, idx |-> s])) /\ (a.id = f => a.aborted) /\ a.expected = 0
      BY <2>1, <2>2
    <3> HIDE DEF asm
    <3>2. QED
      BY <2>1, <3>1, PushMissed
  <2> HIDE DEF asm
  <2>4. ~Complete(asm)
    BY <2>3 DEF Complete
  <2>5. h = [r EXCEPT !.asm = asm, !.lost = @ \/ gaveUp]
    BY <1>4, <2>4
  <2>6. h \in Receiver /\ ~h.torn /\ ~h.lost /\ h.asm = asm /\ h.last = r.last
    BY <1>1, <1>3, <2>3, <2>5 DEF Receiver
  <2>7. QED
    BY <2>1, <2>3, <2>6 DEF Follows
<1>7. QED
  BY <1>5, <1>6

\* The frames of a queue are in order, and newer than the last that was heard.
Ordered(f, g, last) == (f # Absent => f > last) /\ (g # Absent => f # Absent /\ g > f)

\* How many chunks of the current frame are left.
OfCurrent(q) == IF q.current = Absent THEN 0 ELSE Chunks - q.sent
OfNext(q) == IF q.next = Absent THEN 0 ELSE Chunks

LEMMA ChunksFromAre ==
  ASSUME NEW f \in Frame \union {Absent}, NEW k \in 0 .. Chunks - 1
  PROVE  /\ ChunksFrom(f, k) \in Seq(Chunk)
         /\ Len(ChunksFrom(f, k)) = IF f = Absent THEN 0 ELSE Chunks - k
         /\ \A i \in 1 .. Len(ChunksFrom(f, k)) : ChunksFrom(f, k)[i] = [frame |-> f, idx |-> k + i - 1]
<1>1. CASE f = Absent
  <2>1. ChunksFrom(f, k) = <<>>
    BY <1>1 DEF ChunksFrom
  <2>2. QED
    BY <1>1, <2>1, EmptySeq
<1>2. CASE f # Absent
  <2>1. Chunks - k \in Nat
    BY ChunksAssumption
  <2>2. ChunksFrom(f, k) = [i \in 1 .. Chunks - k |-> [frame |-> f, idx |-> k + i - 1]]
    BY <1>2 DEF ChunksFrom
  <2>3. ChunksFrom(f, k) \in Seq(Chunk)
    BY ChunksFromIs
  <2>4. Len(ChunksFrom(f, k)) = Chunks - k
    BY <2>1, <2>2, <2>3, LenProperties
  <2>5. QED
    BY <1>2, <2>2, <2>3, <2>4
<1>3. QED
  BY <1>1, <1>2

LEMMA AheadAre ==
  ASSUME NEW q \in Queues(Frame), ~q.paused
  PROVE  /\ Ahead(q) \in Seq(Chunk) /\ OfCurrent(q) \in Nat /\ OfNext(q) \in Nat
         /\ Len(Ahead(q)) = OfCurrent(q) + OfNext(q)
         /\ \A i \in 1 .. OfCurrent(q) : Ahead(q)[i] = [frame |-> q.current, idx |-> q.sent + i - 1]
         /\ \A i \in 1 .. OfNext(q) : Ahead(q)[OfCurrent(q) + i] = [frame |-> q.next, idx |-> i - 1]
<1> DEFINE a == ChunksFrom(q.current, q.sent)
           b == ChunksFrom(q.next, 0)
<1>1. /\ q.current \in Frame \union {Absent} /\ q.next \in Frame \union {Absent}
      /\ q.sent \in 0 .. Chunks - 1 /\ 0 \in 0 .. Chunks - 1
  BY ChunksAssumption DEF Queues
<1>2. /\ a \in Seq(Chunk) /\ Len(a) = OfCurrent(q)
      /\ \A i \in 1 .. Len(a) : a[i] = [frame |-> q.current, idx |-> q.sent + i - 1]
  BY <1>1, ChunksFromAre DEF OfCurrent
<1>3. /\ b \in Seq(Chunk) /\ Len(b) = OfNext(q)
      /\ \A i \in 1 .. Len(b) : b[i] = [frame |-> q.next, idx |-> i - 1]
  <2>1. \A i \in Nat : 0 + i - 1 = i - 1
    OBVIOUS
  <2>2. /\ b \in Seq(Chunk) /\ Len(b) = OfNext(q)
        /\ \A i \in 1 .. Len(b) : b[i] = [frame |-> q.next, idx |-> 0 + i - 1]
    <3>1. /\ b \in Seq(Chunk) /\ Len(b) = IF q.next = Absent THEN 0 ELSE Chunks - 0
          /\ \A i \in 1 .. Len(b) : b[i] = [frame |-> q.next, idx |-> 0 + i - 1]
      BY <1>1, ChunksFromAre
    <3>2. Chunks - 0 = Chunks
      BY ChunksAssumption
    <3> HIDE DEF b
    <3>3. QED
      BY <3>1, <3>2 DEF OfNext
  <2>3. Len(b) \in Nat
    BY <2>2, LenProperties
  <2> HIDE DEF b
  <2>4. QED
    BY <2>2, <2>3
<1>4. Ahead(q) = a \o b
  BY DEF Ahead
<1> HIDE DEF a, b
<1>5. /\ a \o b \in Seq(Chunk) /\ Len(a) \in Nat /\ Len(b) \in Nat /\ Len(a \o b) = Len(a) + Len(b)
      /\ \A i \in 1 .. Len(a) : (a \o b)[i] = a[i]
      /\ \A i \in 1 .. Len(b) : (a \o b)[Len(a) + i] = b[i]
  <2>1. a \in Seq(Chunk) /\ b \in Seq(Chunk)
    BY <1>2, <1>3
  <2>2. QED
    BY <2>1, Joined
<1>6. QED
  BY <1>2, <1>3, <1>4, <1>5

\* The queue of which k chunks went out: its front is the next chunk.
LEMMA PumpedAt ==
  ASSUME NEW q \in Queues(Frame), ~q.paused, NEW k \in Nat, k <= Len(Ahead(q))
  PROVE  /\ k = Len(Ahead(q)) => Pumped(q, k) = Empty
         /\ k < Len(Ahead(q)) =>
              Pumped(q, k) = [current |-> Ahead(q)[k + 1].frame, sent |-> Ahead(q)[k + 1].idx, paused |-> TRUE,
                              next |-> IF Ahead(q)[k + 1].frame = q.current THEN q.next ELSE Absent]
<1> DEFINE a == Ahead(q)
           left == SubSeq(a, k + 1, Len(a))
<1>1. a \in Seq(Chunk) /\ Len(a) \in Nat
  BY AheadIs
<1>2. /\ left \in Seq(Chunk) /\ Len(left) = IF k + 1 <= Len(a) THEN Len(a) - (k + 1) + 1 ELSE 0
      /\ \A i \in 1 .. Len(a) - (k + 1) + 1 : left[i] = a[k + 1 + i - 1]
  <2>1. \A i \in k + 1 .. Len(a) : a[i] \in Chunk
    BY <1>1, ElementOfSeq
  <2> HIDE DEF a
  <2>2. QED
    BY <1>1, <2>1, SubSeqProperties
<1>3. CASE k = Len(a)
  <2>1. Len(left) = 0
    BY <1>1, <1>2, <1>3
  <2>2. left = <<>>
    BY <1>2, <2>1, EmptySeq
  <2>3. QED
    BY <1>3, <2>2 DEF Pumped
<1>4. CASE k < Len(a)
  <2>1. Len(left) # 0 /\ k + 1 + 1 - 1 = k + 1 /\ 1 \in 1 .. Len(a) - (k + 1) + 1
    BY <1>1, <1>2, <1>4
  <2>2. left # <<>> /\ left[1] = a[k + 1]
    BY <1>2, <2>1, EmptySeq
  <2> HIDE DEF left
  <2>3. Head(left) = a[k + 1]
    BY <1>2, <2>2, Shifted
  <2>4. Pumped(q, k) = IF left = <<>> THEN Empty
                       ELSE [current |-> Head(left).frame, sent |-> Head(left).idx, paused |-> TRUE,
                             next |-> IF Head(left).frame = q.current THEN q.next ELSE Absent]
    BY DEF Pumped, left
  <2>5. Pumped(q, k) = [current |-> a[k + 1].frame, sent |-> a[k + 1].idx, paused |-> TRUE,
                        next |-> IF a[k + 1].frame = q.current THEN q.next ELSE Absent]
    BY <2>2, <2>3, <2>4
  <2>6. k # Len(a)
    BY <1>1, <1>4
  <2>7. QED
    BY <2>5, <2>6 DEF a
<1> HIDE DEF left
<1>5. k = Len(a) \/ k < Len(a)
  BY <1>1 DEF a
<1>6. QED
  BY <1>3, <1>4, <1>5

\* One chunk further.
LEMMA PumpedNext ==
  ASSUME NEW q \in Queues(Frame), ~q.paused, Ordered(q.current, q.next, 0),
         NEW k \in Nat, k < Len(Ahead(q)),
         NEW p, p = Pumped(q, k), NEW p1, p1 = Pumped(q, k + 1)
  PROVE  /\ Ahead(q)[k + 1] = [frame |-> p.current, idx |-> p.sent]
         /\ p.current \in Frame /\ p.sent \in 0 .. Chunks - 1
         /\ p.sent + 1 < Chunks => p1.current = p.current /\ p1.sent = p.sent + 1 /\ p1.next = p.next
         /\ p.sent + 1 = Chunks => p1.current = p.next /\ p1.sent = 0 /\ p1.next = Absent
<1> DEFINE a == Ahead(q)
           c == OfCurrent(q)
           d == OfNext(q)
           At1(i) == [current |-> a[i].frame, sent |-> a[i].idx, paused |-> TRUE,
                      next |-> IF a[i].frame = q.current THEN q.next ELSE Absent]
<1>0. Frame \subseteq Nat /\ q.current \in Frame \union {Absent} /\ q.next \in Frame \union {Absent}
      /\ q.sent \in 0 .. Chunks - 1 /\ Chunks \in Nat /\ Absent \notin Frame
  BY ChunksAssumption, BleAssumption DEF Queues, Frame, Absent
<1>1. /\ a \in Seq(Chunk) /\ c \in Nat /\ d \in Nat /\ Len(a) = c + d
      /\ \A i \in 1 .. c : a[i] = [frame |-> q.current, idx |-> q.sent + i - 1]
      /\ \A i \in 1 .. d : a[c + i] = [frame |-> q.next, idx |-> i - 1]
  BY AheadAre
<1>2. /\ q.current = Absent => c = 0
      /\ q.current # Absent => c = Chunks - q.sent
      /\ q.next = Absent => d = 0
      /\ q.next # Absent => d = Chunks /\ q.current # Absent /\ q.next # q.current
  <2>1. q.next # Absent => q.current # Absent /\ q.next > q.current
    BY DEF Ordered
  <2>2. q.next # Absent => q.next # q.current
    <3>1. \A f, g \in Nat : g > f => g # f
      OBVIOUS
    <3>2. q.next # Absent => q.current \in Nat /\ q.next \in Nat
      BY <1>0, <2>1
    <3>3. QED
      BY <2>1, <3>1, <3>2
  <2>3. QED
    BY <2>1, <2>2 DEF OfCurrent, OfNext
<1>3. p = At1(k + 1)
  BY PumpedAt
<1>4. k + 1 < Len(a) => p1 = At1(k + 1 + 1)
  <2>1. PICK j \in Nat : j = k + 1
    OBVIOUS
  <2>2. j < Len(a) => Pumped(q, j) = At1(j + 1)
    BY PumpedAt
  <2>3. QED
    BY <2>1, <2>2
<1>5. k + 1 = Len(a) => p1 = Empty
  <2>1. PICK j \in Nat : j = k + 1
    OBVIOUS
  <2>2. j = Len(a) => Pumped(q, j) = Empty
    BY PumpedAt
  <2>3. QED
    BY <2>1, <2>2
<1> HIDE DEF a, c, d
<1>6. CASE k < c
  <2>1. k + 1 \in 1 .. c /\ q.current # Absent
    BY <1>1, <1>2, <1>6
  <2>2. a[k + 1] = [frame |-> q.current, idx |-> q.sent + (k + 1) - 1]
    BY <1>1, <2>1
  <2>3. p.current = q.current /\ p.sent = q.sent + k /\ p.next = q.next
    BY <1>0, <1>3, <2>2
  <2>4. CASE k + 1 < c
    <3>1. k + 1 + 1 \in 1 .. c
      BY <1>1, <2>4
    <3>2. a[k + 1 + 1] = [frame |-> q.current, idx |-> q.sent + (k + 1 + 1) - 1]
      BY <1>1, <3>1
    <3>3. p1.current = q.current /\ p1.sent = q.sent + k + 1 /\ p1.next = q.next
      <4>1. k + 1 < Len(a)
        BY <1>1, <2>4
      <4>2. p1 = At1(k + 1 + 1) /\ a[k + 1 + 1].frame = q.current /\ a[k + 1 + 1].idx = q.sent + (k + 1 + 1) - 1
        BY <1>4, <3>2, <4>1
      <4>3. p1.current = q.current /\ p1.sent = q.sent + (k + 1 + 1) - 1 /\ p1.next = q.next
        BY <4>2
      <4>4. QED
        BY <1>0, <4>3
    <3>4. QED
      BY <1>0, <1>2, <2>1, <2>2, <2>3, <2>4, <3>3 DEF a
  <2>5. CASE k + 1 = c
    <3>1. q.sent + k + 1 = Chunks
      BY <1>0, <1>2, <2>1, <2>5
    <3>2. CASE d = 0
      <4>1. p1 = Empty /\ q.next = Absent
        BY <1>0, <1>1, <1>2, <1>5, <2>5, <3>2, ChunksAssumption
      <4>2. QED
        BY <1>0, <2>1, <2>2, <2>3, <3>1, <4>1 DEF Empty, a
    <3>3. CASE d # 0
      <4>1. 1 \in 1 .. d /\ k + 1 + 1 = c + 1 /\ k + 1 < Len(a)
        BY <1>1, <2>5, <3>3
      <4>2. a[k + 1 + 1] = [frame |-> q.next, idx |-> 1 - 1]
        BY <1>1, <4>1
      <4>3. q.next # q.current
        BY <1>2, <3>3
      <4>4. p1.current = q.next /\ p1.sent = 0 /\ p1.next = Absent
        BY <1>4, <4>1, <4>2, <4>3
      <4>5. QED
        BY <1>0, <2>1, <2>2, <2>3, <3>1, <4>4 DEF a
    <3>4. QED
      BY <3>2, <3>3
  <2>6. QED
    BY <1>1, <1>6, <2>4, <2>5
<1>7. CASE k >= c
  <2>1. PICK i \in 1 .. d : k + 1 = c + i
    <3>1. k + 1 - c \in 1 .. d /\ k + 1 = c + (k + 1 - c)
      BY <1>1, <1>7 DEF a
    <3>2. QED
      BY <3>1
  <2>2. q.next # Absent /\ d = Chunks /\ q.next # q.current
    BY <1>1, <1>2, <2>1
  <2>3. a[k + 1] = [frame |-> q.next, idx |-> i - 1]
    BY <1>1, <2>1
  <2>4. p.current = q.next /\ p.sent = i - 1 /\ p.next = Absent
    BY <1>3, <2>2, <2>3
  <2>5. CASE i < d
    <3>1. i + 1 \in 1 .. d /\ k + 1 + 1 = c + (i + 1) /\ k + 1 < Len(a)
      BY <1>1, <2>1, <2>5
    <3>2. PICK j \in 1 .. d : j = i + 1
      BY <3>1
    <3>3. a[c + j] = [frame |-> q.next, idx |-> j - 1]
      BY <1>1
    <3>4. a[k + 1 + 1] = [frame |-> q.next, idx |-> i]
      BY <1>1, <3>1, <3>2, <3>3
    <3>5. p1.current = q.next /\ p1.sent = i /\ p1.next = Absent
      BY <1>4, <2>2, <3>1, <3>4
    <3>6. QED
      BY <1>0, <2>2, <2>3, <2>4, <2>5, <3>5 DEF a
  <2>6. CASE i = d
    <3>1. p1 = Empty
      BY <1>1, <1>5, <2>1, <2>6
    <3>2. QED
      BY <1>0, <2>2, <2>3, <2>4, <2>6, <3>1 DEF Empty, a
  <2>7. QED
    BY <1>1, <2>5, <2>6
<1>8. QED
  BY <1>1, <1>6, <1>7

\* The device and the front of the queue, after k chunks.
InStepAt(c, r, p, m) == Follows(c, r, p.current, p.sent, m) /\ Ordered(p.current, p.next, r.last)

LEMMA HearAllStep ==
  ASSUME NEW c \in Central, NEW q \in QueueMap, q[c] # NoQueue, ~q[c].paused,
         NEW n \in Nat, n <= Len(Ahead(q[c])),
         NEW r, InStepAt(c, r, q[c], missed[c]),
         NEW g, Hearing(g, c, r, OwnStream(q, c, n), n)
  PROVE  /\ InStepAt(c, g[n], Pumped(q[c], n), missed[c])
         /\ {g[n].last, Pumped(q[c], n).current, Pumped(q[c], n).next}
              \subseteq {r.last, q[c].current, q[c].next, Absent}
<1> DEFINE Q == q[c]
           m == missed[c]
           a == Ahead(Q)
           Here(k) == /\ InStepAt(c, g[k], Pumped(Q, k), m)
                      /\ {g[k].last, Pumped(Q, k).current, Pumped(Q, k).next}
                           \subseteq {r.last, Q.current, Q.next, Absent}
           S == {k \in Nat : k <= n => Here(k)}
<1>1. Q \in Queues(Frame)
  BY DEF QueueMap
<1>2. /\ Q.current \in Frame \union {Absent} /\ Q.next \in Frame \union {Absent}
      /\ Q.sent \in 0 .. Chunks - 1 /\ Frame \subseteq Nat /\ Absent \notin Frame /\ Absent \in Nat
  BY <1>1, BleAssumption DEF Queues, Frame, Absent
<1>3. r \in Receiver /\ r.last \in Nat
  BY DEF InStepAt, Follows, Receiver
<1>4. Ordered(Q.current, Q.next, r.last) /\ Ordered(Q.current, Q.next, 0)
  <2>1. Ordered(Q.current, Q.next, r.last)
    BY DEF InStepAt
  <2> HIDE DEF Q
  <2>2. \A f \in Frame : f > 0
    BY DEF Frame
  <2>3. QED
    BY <1>2, <2>1, <2>2 DEF Ordered
<1>5. Len(a) \in Nat
  BY <1>1, AheadIs
<1>6. QueueAhead(q, c) = a
  BY DEF QueueAhead
<1> HIDE DEF Q, a
<1>7. 0 \in S
  <2>1. g[0] = r
    BY DEF Hearing
  <2>2. CASE Len(a) = 0
    <3>1. Pumped(Q, 0) = Empty
      BY <1>1, <1>5, <2>2, PumpedAt DEF a, Q
    <3>2. Q.current = Absent
      <4>1. OfCurrent(Q) \in Nat /\ OfNext(Q) \in Nat /\ Len(a) = OfCurrent(Q) + OfNext(Q)
        BY <1>1, AheadAre DEF a, Q
      <4>2. OfCurrent(Q) = 0
        BY <2>2, <4>1
      <4>3. QED
        BY <1>2, <4>2, ChunksAssumption DEF OfCurrent
    <3>3. Follows(c, r, Absent, 0, m) /\ Ordered(Absent, Absent, r.last)
      BY <3>2 DEF InStepAt, Follows, Ordered, Q
    <3>4. QED
      BY <2>1, <3>1, <3>3 DEF Empty, InStepAt
  <2>3. CASE Len(a) # 0
    <3>1. OfCurrent(Q) # 0 /\ OfCurrent(Q) \in Nat
      <4>1. OfCurrent(Q) \in Nat /\ OfNext(Q) \in Nat /\ Len(a) = OfCurrent(Q) + OfNext(Q)
        BY <1>1, AheadAre DEF a, Q
      <4>2. Q.current = Absent => OfNext(Q) = 0
        BY <1>4 DEF Ordered, OfNext
      <4>3. Q.current # Absent => OfCurrent(Q) # 0
        BY <1>2, ChunksAssumption DEF OfCurrent
      <4>4. QED
        BY <2>3, <4>1, <4>2, <4>3
    <3>2. a[1] = [frame |-> Q.current, idx |-> Q.sent + 1 - 1]
      BY <1>1, <3>1, AheadAre DEF a, Q
    <3>3. Pumped(Q, 0) = [current |-> a[0 + 1].frame, sent |-> a[0 + 1].idx, paused |-> TRUE,
                          next |-> IF a[0 + 1].frame = Q.current THEN Q.next ELSE Absent]
      <4>1. PICK k \in Nat : k = 0
        OBVIOUS
      <4>2. k <= Len(Ahead(Q)) /\ k < Len(Ahead(Q))
        BY <1>5, <2>3, <4>1 DEF a
      <4>3. Q \in Queues(Frame) /\ ~Q.paused
        BY <1>1 DEF Q
      <4>4. Pumped(Q, k) = [current |-> Ahead(Q)[k + 1].frame, sent |-> Ahead(Q)[k + 1].idx, paused |-> TRUE,
                            next |-> IF Ahead(Q)[k + 1].frame = Q.current THEN Q.next ELSE Absent]
        BY <4>2, <4>3, PumpedAt
      <4>5. QED
        BY <4>1, <4>4 DEF a
    <3>4. Pumped(Q, 0).current = Q.current /\ Pumped(Q, 0).sent = Q.sent /\ Pumped(Q, 0).next = Q.next
      BY <1>2, <3>2, <3>3
    <3>5. QED
      BY <2>1, <3>4 DEF InStepAt, Q
  <2>4. QED
    BY <2>2, <2>3
<1>8. ASSUME NEW k \in Nat, k \in S PROVE k + 1 \in S
  <2> SUFFICES ASSUME k + 1 <= n PROVE Here(k + 1)
    OBVIOUS
  <2>1. k < Len(a) /\ k + 1 \in 1 .. n /\ k + 1 - 1 = k /\ Here(k)
    BY <1>5, <1>8 DEF a, Q
  <2> DEFINE p == Pumped(Q, k)
             p1 == Pumped(Q, k + 1)
             h == g[k + 1]
  <2>2. /\ a[k + 1] = [frame |-> p.current, idx |-> p.sent]
        /\ p.current \in Frame /\ p.sent \in 0 .. Chunks - 1
        /\ p.sent + 1 < Chunks => p1.current = p.current /\ p1.sent = p.sent + 1 /\ p1.next = p.next
        /\ p.sent + 1 = Chunks => p1.current = p.next /\ p1.sent = 0 /\ p1.next = Absent
    BY <1>1, <1>4, <2>1, PumpedNext DEF a, Q
  <2>3. h = Hear(c, g[k], OnAir(c, [frame |-> p.current, idx |-> p.sent]))
    <3>1. OwnStream(q, c, n)[k + 1] = OnAir(c, a[k + 1])
      BY <1>6, <2>1 DEF OwnStream
    <3>2. h = Hear(c, g[k + 1 - 1], OwnStream(q, c, n)[k + 1])
      BY <2>1 DEF Hearing
    <3>3. QED
      BY <2>1, <2>2, <3>1, <3>2
  <2>4. /\ Follows(c, g[k], p.current, p.sent, m) /\ Ordered(p.current, p.next, g[k].last)
        /\ {g[k].last, p.current, p.next} \subseteq {r.last, Q.current, Q.next, Absent}
    BY <2>1 DEF InStepAt
  <2> HIDE DEF p, p1, h
  <2>5. g[k].last < p.current /\ p.current \in Nat
    BY <1>2, <2>2, <2>4 DEF Ordered
  <2>6. /\ p.sent + 1 < Chunks => Follows(c, h, p.current, p.sent + 1, m) /\ h.last = g[k].last
        /\ p.sent + 1 = Chunks => (\A f : Follows(c, h, f, 0, m)) /\ h.last \in {g[k].last, p.current}
    BY <2>2, <2>3, <2>4, <2>5, HearNext
  <2>7. CASE p.sent + 1 < Chunks
    <3>1. InStepAt(c, h, p1, m)
      BY <2>2, <2>4, <2>6, <2>7 DEF InStepAt
    <3>2. {h.last, p1.current, p1.next} \subseteq {r.last, Q.current, Q.next, Absent}
      BY <2>2, <2>4, <2>6, <2>7
    <3>3. QED
      BY <3>1, <3>2 DEF h, p1
  <2>8. CASE p.sent + 1 = Chunks
    <3>1. Ordered(p1.current, p1.next, h.last)
      <4>1. p1.current = p.next /\ p1.next = Absent /\ h.last \in {g[k].last, p.current}
        BY <2>2, <2>6, <2>8
      <4>2. p.next # Absent => p.next > p.current /\ p.next \in Nat
        BY <1>2, <1>3, <2>4 DEF Ordered
      <4>3. g[k].last \in Nat
        BY <2>4 DEF Follows, Receiver
      <4>4. QED
        BY <2>5, <4>1, <4>2, <4>3 DEF Ordered
    <3>2. InStepAt(c, h, p1, m)
      BY <2>2, <2>6, <2>8, <3>1 DEF InStepAt
    <3>3. {h.last, p1.current, p1.next} \subseteq {r.last, Q.current, Q.next, Absent}
      BY <2>2, <2>4, <2>6, <2>8
    <3>4. QED
      BY <3>2, <3>3 DEF h, p1
  <2>9. QED
    BY <2>2, <2>7, <2>8, ChunksAssumption
<1>9. Nat \subseteq S
  <2> HIDE DEF S
  <2>1. QED
    BY <1>7, <1>8, Inductive
<1>10. Here(n)
  BY <1>9
<1>11. QED
  BY <1>10 DEF Q

-------------------------------------------------------------------------------
(* A device and its queue, by step *)

Current(q) == IF q = NoQueue THEN Absent ELSE q.current
NextUp(q) == IF q = NoQueue THEN Absent ELSE q.next
SentOf(q) == IF q = NoQueue THEN 0 ELSE q.sent

\* The device c and its queue q agree.
Agree(c, r, q, m) ==
  /\ IF Hears(c) THEN Follows(c, r, Current(q), SentOf(q), m) ELSE r = NothingHeard
  /\ Ordered(Current(q), NextUp(q), r.last)

FramesOf(r, q) == {r.last, Current(q), NextUp(q)}

LEMMA NothingHeardIs ==
  /\ NothingHeard \in Receiver /\ NothingHeard.last = 0 /\ NothingHeard.asm = NewReassembler
  /\ ~NothingHeard.torn /\ ~NothingHeard.lost
<1>1. \A a \in Assembly : [asm |-> a, last |-> 0, torn |-> FALSE, lost |-> FALSE] \in Receiver
  BY DEF Receiver
<1>2. NothingHeard \in Receiver
  BY <1>1, NewReassemblerIs DEF NothingHeard
<1>3. QED
  BY <1>2 DEF NothingHeard

\* What is left of a queue is of the same frames, in the same order.
LEMMA PumpedOrder ==
  ASSUME NEW q \in Queues(Frame), ~q.paused, NEW n \in Nat, n <= Len(Ahead(q)),
         NEW last \in Nat, Ordered(q.current, q.next, last)
  PROVE  /\ Ordered(Pumped(q, n).current, Pumped(q, n).next, last)
         /\ {Pumped(q, n).current, Pumped(q, n).next} \subseteq {q.current, q.next, Absent}
<1> DEFINE a == Ahead(q)
           p == Pumped(q, n)
<1>1. Len(a) \in Nat
  BY AheadIs
<1>2. CASE n = Len(a)
  <2>1. p = Empty
    BY <1>1, <1>2, PumpedAt
  <2>2. QED
    BY <2>1 DEF Empty, Ordered
<1>3. CASE n < Len(a)
  <2>1. p = [current |-> a[n + 1].frame, sent |-> a[n + 1].idx, paused |-> TRUE,
             next |-> IF a[n + 1].frame = q.current THEN q.next ELSE Absent]
    BY <1>3, PumpedAt
  <2>2. /\ OfCurrent(q) \in Nat /\ OfNext(q) \in Nat /\ Len(a) = OfCurrent(q) + OfNext(q)
        /\ \A i \in 1 .. OfCurrent(q) : a[i] = [frame |-> q.current, idx |-> q.sent + i - 1]
        /\ \A i \in 1 .. OfNext(q) : a[OfCurrent(q) + i] = [frame |-> q.next, idx |-> i - 1]
    BY AheadAre
  <2> HIDE DEF a, p
  <2>3. a[n + 1].frame \in {q.current, q.next}
    <3>1. CASE n + 1 <= OfCurrent(q)
      <4>1. n + 1 \in 1 .. OfCurrent(q)
        BY <2>2, <3>1
      <4>2. a[n + 1] = [frame |-> q.current, idx |-> q.sent + (n + 1) - 1]
        BY <2>2, <4>1
      <4>3. QED
        BY <4>2
    <3>2. CASE n + 1 > OfCurrent(q)
      <4>1. PICK i \in 1 .. OfNext(q) : n + 1 = OfCurrent(q) + i
        <5>1. n + 1 - OfCurrent(q) \in 1 .. OfNext(q) /\ n + 1 = OfCurrent(q) + (n + 1 - OfCurrent(q))
          BY <1>1, <1>3, <2>2, <3>2
        <5>2. QED
          BY <5>1
      <4>2. a[n + 1] = [frame |-> q.next, idx |-> i - 1]
        BY <2>2, <4>1
      <4>3. QED
        BY <4>2
    <3>3. QED
      BY <2>2, <3>1, <3>2
  <2>4. p.current = a[n + 1].frame /\ p.next = IF p.current = q.current THEN q.next ELSE Absent
    BY <2>1
  <2>5. {p.current, p.next} \subseteq {q.current, q.next, Absent}
    BY <2>3, <2>4
  <2>6. Ordered(p.current, p.next, last)
    <3>1. CASE p.current = q.current
      BY <2>4, <3>1 DEF Ordered
    <3>2. CASE p.current # q.current
      <4>1. p.current = q.next /\ p.next = Absent
        BY <2>3, <2>4, <3>2
      <4>2. q.next # Absent => q.current > last /\ q.next > q.current
        BY DEF Ordered
      <4>3. q.next # Absent => q.current \in Nat /\ q.next \in Nat
        BY BleAssumption DEF Queues, Frame, Ordered
      <4>4. q.next # Absent => q.next > last
        BY <4>2, <4>3
      <4>5. QED
        BY <4>1, <4>4 DEF Ordered
    <3>3. QED
      BY <3>1, <3>2
  <2>7. QED
    BY <2>5, <2>6 DEF p
<1>4. QED
  BY <1>1, <1>2, <1>3

\* A device whose queue is pumped, no chunk being repeated for all subscribers.
LEMMA PumpAgrees ==
  ASSUME NEW q \in QueueMap, NEW cs \in SUBSET Central, NEW n \in Takes(cs), NEW spills \in Spills(cs),
         NEW was, PumpAll(q, cs, n, spills, was), ~spilt',
         \A x \in cs : q[x] # NoQueue => ~q[x].paused,
         NEW c \in Central, Agree(c, rx[c], q[c], missed[c])
  PROVE  /\ Agree(c, rx'[c], queue'[c], missed[c])
         /\ FramesOf(rx'[c], queue'[c]) \subseteq FramesOf(rx[c], q[c]) \union {Absent}
<1>1. /\ \A x \in cs : n[x] <= Len(QueueAhead(q, x)) /\ spills[x] = {}
      /\ queue' = [x \in Central |-> IF x \in cs /\ q[x] # NoQueue THEN Pumped(q[x], n[x]) ELSE q[x]]
      /\ rx' = [d \in Central |-> Heard(d, q, cs, n, spills)]
  BY DEF PumpAll
<1>2. n \in [cs -> Nat]
  <2>1. \A x \in cs : n[x] \in Nat
    BY ChunksAssumption DEF Takes
  <2>2. QED
    BY <2>1 DEF Takes
<1>3. /\ c \notin cs \/ ~Hears(c) => rx'[c] = rx[c]
      /\ c \in cs /\ Hears(c) =>
           \E g : Hearing(g, c, rx[c], OwnStream(q, c, n[c]), n[c]) /\ rx'[c] = g[n[c]]
  BY <1>1, <1>2, HeardIs
<1>4. queue'[c] = IF c \in cs /\ q[c] # NoQueue THEN Pumped(q[c], n[c]) ELSE q[c]
  BY <1>1
<1>5. CASE c \notin cs
  BY <1>3, <1>4, <1>5 DEF FramesOf
<1>6. CASE c \in cs /\ q[c] = NoQueue
  <2>1. PICK k \in Nat : k = n[c] /\ k <= Len(QueueAhead(q, c))
    BY <1>1, <1>2, <1>6
  <2>2. k = 0
    <3>1. QueueAhead(q, c) = <<>>
      BY <1>6 DEF QueueAhead
    <3>2. Len(<<>>) = 0
      BY EmptySeq
    <3>3. QED
      BY <2>1, <3>1, <3>2
  <2>3. rx'[c] = rx[c]
    BY <1>3, <1>6, <2>1, <2>2 DEF Hearing
  <2>4. QED
    BY <1>4, <1>6, <2>3 DEF FramesOf
<1>7. CASE c \in cs /\ q[c] # NoQueue
  <2>1. NoQueue \notin Queues(Frame)
    BY BleAssumption DEF Frame
  <2>2. q[c] \in Queues(Frame) /\ ~q[c].paused
    BY <1>7 DEF QueueMap
  <2>3. PICK k \in Nat : k = n[c] /\ k <= Len(Ahead(q[c]))
    BY <1>1, <1>2, <1>7 DEF QueueAhead
  <2>4. Pumped(q[c], k) \in Queues(Frame)
    BY <2>2, <2>3, PumpedIs
  <2>5. PICK p \in Queues(Frame) : p = Pumped(q[c], k) /\ queue'[c] = p /\ p # NoQueue
    BY <1>4, <1>7, <2>1, <2>3, <2>4
  <2>6. Current(p) = p.current /\ NextUp(p) = p.next /\ SentOf(p) = p.sent
    BY <2>5 DEF Current, NextUp, SentOf
  <2>7. Current(q[c]) = q[c].current /\ NextUp(q[c]) = q[c].next /\ SentOf(q[c]) = q[c].sent
    BY <1>7 DEF Current, NextUp, SentOf
  <2>8. CASE Hears(c)
    <3>1. PICK g : Hearing(g, c, rx[c], OwnStream(q, c, k), k) /\ rx'[c] = g[k]
      BY <1>3, <1>7, <2>3, <2>8
    <3>2. InStepAt(c, rx[c], q[c], missed[c])
      BY <2>7, <2>8 DEF Agree, InStepAt
    <3>3. PICK r : r = rx[c]
      OBVIOUS
    <3>4. /\ InStepAt(c, g[k], Pumped(q[c], k), missed[c])
          /\ {g[k].last, Pumped(q[c], k).current, Pumped(q[c], k).next}
               \subseteq {r.last, q[c].current, q[c].next, Absent}
      BY <1>7, <2>2, <2>3, <3>1, <3>2, <3>3, HearAllStep
    <3>5. InStepAt(c, rx'[c], p, missed[c])
      BY <2>5, <3>1, <3>4
    <3>6. Agree(c, rx'[c], p, missed[c])
      BY <2>6, <2>8, <3>5 DEF Agree, InStepAt
    <3>7. FramesOf(rx'[c], p) \subseteq FramesOf(rx[c], q[c]) \union {Absent}
      BY <2>5, <2>6, <2>7, <3>1, <3>3, <3>4 DEF FramesOf
    <3>8. QED
      BY <2>5, <3>6, <3>7
  <2>9. CASE ~Hears(c)
    <3>1. rx'[c] = rx[c] /\ rx[c] = NothingHeard
      BY <1>3, <2>9 DEF Agree
    <3>2. rx[c].last = 0
      BY <3>1, NothingHeardIs
    <3>3. Ordered(q[c].current, q[c].next, 0)
      BY <2>7, <3>2 DEF Agree
    <3>4. /\ Ordered(Pumped(q[c], k).current, Pumped(q[c], k).next, 0)
          /\ {Pumped(q[c], k).current, Pumped(q[c], k).next} \subseteq {q[c].current, q[c].next, Absent}
      BY <2>2, <2>3, <3>3, PumpedOrder
    <3>5. Agree(c, rx'[c], p, missed[c])
      BY <2>5, <2>6, <2>9, <3>1, <3>2, <3>4 DEF Agree
    <3>6. FramesOf(rx'[c], p) \subseteq FramesOf(rx[c], q[c]) \union {Absent}
      BY <2>5, <2>6, <2>7, <3>1, <3>4 DEF FramesOf
    <3>7. QED
      BY <2>5, <3>5, <3>6
  <2>10. QED
    BY <2>8, <2>9
<1>8. QED
  BY <1>5, <1>6, <1>7

\* A device to which a newer frame is offered.
LEMMA OfferAgrees ==
  ASSUME NEW c \in Central, NEW r, NEW q \in Queues(Frame) \union {NoQueue}, NEW m, Agree(c, r, q, m),
         NEW f \in Frame, \A k \in FramesOf(r, q) : k < f,
         NEW o, o = Offer(IF q = NoQueue THEN Empty ELSE q, f)
  PROVE  Agree(c, r, o, m) /\ FramesOf(r, o) \subseteq FramesOf(r, q) \union {f, Absent}
<1>1. PICK w \in Queues(Frame) : w = IF q = NoQueue THEN Empty ELSE q
  BY EmptyIs
<1>2. Current(q) = w.current /\ NextUp(q) = w.next /\ SentOf(q) = w.sent
  BY <1>1 DEF Current, NextUp, SentOf, Empty
<1>3. NoQueue \notin Queues(Frame)
  BY BleAssumption DEF Frame
<1>4. o \in Queues(Frame) /\ o # NoQueue /\ o = Offer(w, f)
  BY <1>1, <1>3, OfferIs
<1>5. Current(o) = o.current /\ NextUp(o) = o.next /\ SentOf(o) = o.sent
  BY <1>4 DEF Current, NextUp, SentOf
<1>6. r.last < f /\ w.current < f /\ w.next < f
  BY <1>2 DEF FramesOf
<1>7. CASE Started(w)
  <2>1. o.current = w.current /\ o.sent = w.sent /\ o.next = f
    BY <1>4, <1>7 DEF Offer, Queues
  <2>2. w.current # Absent /\ f > w.current /\ f # Absent
    BY <1>6, <1>7, BleAssumption DEF Started, Queues, Frame, Absent
  <2>3. Ordered(o.current, o.next, r.last)
    BY <1>2, <2>1, <2>2 DEF Agree, Ordered
  <2>4. QED
    BY <1>2, <1>5, <2>1, <2>3 DEF Agree, FramesOf
<1>8. CASE ~Started(w)
  <2>1. o.current = f /\ o.sent = 0 /\ o.next = Absent
    BY <1>4, <1>8 DEF Offer, Empty
  <2>2. Ordered(o.current, o.next, r.last)
    <3>1. f > r.last
      <4>1. f \in Nat
        BY DEF Frame
      <4>2. r.last \in Nat
        BY NothingHeardIs DEF Agree, Follows, Receiver
      <4>3. QED
        BY <1>6, <4>1, <4>2
    <3>2. QED
      BY <2>1, <3>1 DEF Ordered
  <2>3. w.current # Absent => w.sent = 0
    BY <1>8, ChunksAssumption DEF Started, Queues
  <2>4. Hears(c) => Follows(c, r, o.current, o.sent, m)
    BY <1>2, <2>1, <2>3 DEF Agree, Follows
  <2>5. Agree(c, r, o, m)
    BY <1>5, <2>2, <2>4 DEF Agree
  <2>6. QED
    BY <1>5, <2>1, <2>5 DEF FramesOf
<1>9. QED
  BY <1>7, <1>8

-------------------------------------------------------------------------------
(* The frames that are offered *)

OfferedIn(ps, c, f) == \E i \in 1 .. Len(ps) : ps[i] = OfferTo(c, f)

\* What ps offers to c comes in the order it was made.
Ascending(ps, c, last) ==
  /\ \A f \in Frame : OfferedIn(ps, c, f) => f <= last
  /\ \A i, j \in 1 .. Len(ps) : \A f, g \in Frame :
       i < j /\ ps[i] = OfferTo(c, f) /\ ps[j] = OfferTo(c, g) => f < g

LEMMA OffersApart == \A c, d \in Central, f, g \in Frame : OfferTo(c, f) = OfferTo(d, g) => c = d /\ f = g
<1>1. \A x, y : {x} = {y} => x = y
  OBVIOUS
<1>2. QED
  BY <1>1, ClosureIs

LEMMA AscendingGrows ==
  ASSUME NEW c \in Central, NEW ps \in Seq(Closure), NEW qs \in Seq(Closure), NEW last \in Nat, NEW now \in Nat,
         last <= now, Ascending(ps, c, last),
         \A f \in Frame : OfferedIn(qs, c, f) => last < f /\ f <= now,
         \A i, j \in 1 .. Len(qs) : \A f, g \in Frame : qs[i] = OfferTo(c, f) /\ qs[j] = OfferTo(c, g) => i = j
  PROVE  /\ Ascending(ps \o qs, c, now)
         /\ \A f \in Frame : OfferedIn(ps \o qs, c, f) => OfferedIn(ps, c, f) \/ last < f
<1> DEFINE b == ps \o qs
<1>1. /\ b \in Seq(Closure) /\ Len(ps) \in Nat /\ Len(qs) \in Nat /\ Len(b) = Len(ps) + Len(qs)
      /\ \A i \in 1 .. Len(ps) : b[i] = ps[i]
      /\ \A i \in 1 .. Len(qs) : b[Len(ps) + i] = qs[i]
      /\ \A i \in 1 .. Len(b) : i \in 1 .. Len(ps) \/ i - Len(ps) \in 1 .. Len(qs)
  BY Joined
<1> HIDE DEF b
<1>2. \A i \in 1 .. Len(b) : i \in 1 .. Len(ps) \/ \E k \in 1 .. Len(qs) : i = Len(ps) + k
  <2>1. \A i \in 1 .. Len(b) : i = Len(ps) + (i - Len(ps))
    BY <1>1
  <2>2. QED
    BY <1>1, <2>1
<1>3. ASSUME NEW f \in Frame, OfferedIn(b, c, f) PROVE OfferedIn(ps, c, f) \/ OfferedIn(qs, c, f)
  <2>1. PICK i \in 1 .. Len(b) : b[i] = OfferTo(c, f)
    BY <1>3 DEF OfferedIn
  <2>2. CASE i \in 1 .. Len(ps)
    BY <1>1, <2>1, <2>2 DEF OfferedIn
  <2>3. CASE \E k \in 1 .. Len(qs) : i = Len(ps) + k
    BY <1>1, <2>1, <2>3 DEF OfferedIn
  <2>4. QED
    BY <1>2, <2>2, <2>3
<1>4. Frame \subseteq Nat
  BY BleAssumption DEF Frame
<1>5. \A f \in Frame : OfferedIn(b, c, f) => f <= now /\ (OfferedIn(ps, c, f) \/ last < f)
  <2>1. \A f \in Frame : f <= last => f <= now
    BY <1>4
  <2>2. QED
    BY <1>3, <2>1 DEF Ascending
<1>6. ASSUME NEW i \in 1 .. Len(b), NEW j \in 1 .. Len(b), NEW f \in Frame, NEW g \in Frame,
             i < j, b[i] = OfferTo(c, f), b[j] = OfferTo(c, g)
      PROVE  f < g
  <2>1. CASE j \in 1 .. Len(ps)
    <3>1. i \in 1 .. Len(ps)
      BY <1>1, <1>6, <2>1
    <3>2. QED
      BY <1>1, <1>6, <2>1, <3>1 DEF Ascending
  <2>2. CASE \E k \in 1 .. Len(qs) : j = Len(ps) + k
    <3>1. PICK k \in 1 .. Len(qs) : j = Len(ps) + k
      BY <2>2
    <3>2. qs[k] = OfferTo(c, g) /\ last < g
      BY <1>1, <1>6, <3>1 DEF OfferedIn
    <3>3. CASE i \in 1 .. Len(ps)
      <4>1. OfferedIn(ps, c, f)
        BY <1>1, <1>6, <3>3 DEF OfferedIn
      <4>2. f <= last
        BY <4>1 DEF Ascending
      <4>3. QED
        BY <1>4, <3>2, <4>2
    <3>4. CASE \E l \in 1 .. Len(qs) : i = Len(ps) + l
      <4>1. PICK l \in 1 .. Len(qs) : i = Len(ps) + l
        BY <3>4
      <4>2. qs[l] = OfferTo(c, f)
        BY <1>1, <1>6, <4>1
      <4>3. l = k
        BY <3>2, <4>2
      <4>4. QED
        BY <1>1, <1>6, <3>1, <4>1, <4>3
    <3>5. QED
      BY <1>2, <3>3, <3>4
  <2>3. QED
    BY <1>2, <2>1, <2>2
<1>7. QED
  BY <1>5, <1>6 DEF Ascending, b

LEMMA AscendingRuns ==
  ASSUME NEW c \in Central, NEW ps \in Seq(Closure), ps # <<>>, NEW last, Ascending(ps, c, last)
  PROVE  /\ Ascending(Tail(ps), c, last)
         /\ \A f \in Frame : OfferedIn(Tail(ps), c, f) => OfferedIn(ps, c, f)
         /\ \A f, g \in Frame : Head(ps) = OfferTo(c, g) => OfferedIn(ps, c, g)
                                                            /\ (OfferedIn(Tail(ps), c, f) => g < f)
<1> DEFINE rest == Tail(ps)
<1>1. /\ Len(ps) \in Nat /\ Len(ps) > 0 /\ Len(rest) = Len(ps) - 1 /\ Head(ps) = ps[1]
      /\ \A i \in 1 .. Len(rest) : rest[i] = ps[i + 1] /\ i + 1 \in 1 .. Len(ps)
  BY Shifted
<1> HIDE DEF rest
<1>2. \A f \in Frame : OfferedIn(rest, c, f) => OfferedIn(ps, c, f)
  BY <1>1 DEF OfferedIn
<1>3. ASSUME NEW i \in 1 .. Len(rest), NEW j \in 1 .. Len(rest), NEW f \in Frame, NEW g \in Frame,
             i < j, rest[i] = OfferTo(c, f), rest[j] = OfferTo(c, g)
      PROVE  f < g
  <2>1. i + 1 < j + 1
    BY <1>1, <1>3
  <2>2. QED
    BY <1>1, <1>3, <2>1 DEF Ascending
<1>4. ASSUME NEW f \in Frame, NEW g \in Frame, Head(ps) = OfferTo(c, g)
      PROVE  OfferedIn(ps, c, g) /\ (OfferedIn(rest, c, f) => g < f)
  <2>1. 1 \in 1 .. Len(ps) /\ ps[1] = OfferTo(c, g)
    BY <1>1, <1>4
  <2>2. ASSUME NEW i \in 1 .. Len(rest), rest[i] = OfferTo(c, f) PROVE g < f
    <3>1. 1 < i + 1 /\ ps[i + 1] = OfferTo(c, f) /\ i + 1 \in 1 .. Len(ps)
      BY <1>1, <2>2
    <3>2. QED
      BY <2>1, <3>1 DEF Ascending
  <2>3. QED
    BY <2>1, <2>2 DEF OfferedIn
<1>5. Ascending(rest, c, last)
  BY <1>2, <1>3 DEF Ascending
<1>6. QED
  BY <1>2, <1>4, <1>5 DEF rest

\* What is offered to c is older than what the next snapshot will be.
LEMMA AscendingStep ==
  ASSUME BleTypes, Next, NEW c \in Central, Ascending(posts, c, frames)
  PROVE  /\ Ascending(posts', c, frames') /\ frames' \in Nat /\ frames <= frames'
         /\ \A f \in Frame : OfferedIn(posts', c, f) => OfferedIn(posts, c, f) \/ frames < f
<1>1. posts \in Seq(Closure) /\ frames \in Nat
  BY DEF BleTypes
<1>2. ~OnSnapshot => frames' = frames
  <2>1. CASE Command
    BY <2>1 DEF Command, ToggleOn, ToggleOff, EndServed, Unpair, DropSessions
  <2>2. CASE Loop
    BY <2>2 DEF Loop, TakeSubscribed, TakePoweredOff, TakeGone, EndSession, ForgetCentral, TakeAuthWrite, HandleAuth
  <2>3. CASE Closures
    BY <2>3 DEF Closures, OfferFrame, RevokeTargets, StartService, StopService, runtimeVars
  <2>4. CASE Callback
    BY <2>4 DEF Callback, SubscribeAuth, SubscribeSnapshot, Unsubscribe, WriteAuth, runtimeVars
  <2>5. CASE PowerOff \/ PowerOn \/ RadioReady
    BY <2>5 DEF PowerOff, PowerOn, RadioReady, Ready, runtimeVars
  <2>6. QED
    BY NextIs, <2>1, <2>2, <2>3, <2>4, <2>5
<1>3. CASE OnSnapshot
  <2>1. frames + 1 \in Frame /\ frames' = frames + 1
    BY <1>3, OffersAre
  <2>2. PICK ps \in Seq(Closure) :
          /\ posts' = posts \o ps
          /\ \A i \in 1 .. Len(ps) : \E x \in Targets : ps[i] = OfferTo(x, frames + 1)
          /\ \A i, j \in 1 .. Len(ps) : ps[i] = ps[j] => i = j
    BY <1>3, OffersAre
  <2>3. Targets \subseteq Central
    BY DEF Targets, BleTypes
  <2>4. \A i \in 1 .. Len(ps) : \A f \in Frame : ps[i] = OfferTo(c, f) => f = frames + 1
    BY <2>1, <2>2, <2>3, OffersApart
  <2>5. \A f \in Frame : OfferedIn(ps, c, f) => frames < f /\ f <= frames'
    BY <1>1, <2>1, <2>4 DEF OfferedIn
  <2>6. \A i, j \in 1 .. Len(ps) : \A f, g \in Frame : ps[i] = OfferTo(c, f) /\ ps[j] = OfferTo(c, g) => i = j
    <3>1. \A i, j \in 1 .. Len(ps) : \A f, g \in Frame :
            ps[i] = OfferTo(c, f) /\ ps[j] = OfferTo(c, g) => ps[i] = ps[j]
      BY <2>4
    <3>2. QED
      BY <2>2, <3>1
  <2>7. PICK now \in Nat : now = frames' /\ frames <= now
    BY <1>1, <2>1
  <2>8. /\ Ascending(posts \o ps, c, now)
        /\ \A f \in Frame : OfferedIn(posts \o ps, c, f) => OfferedIn(posts, c, f) \/ frames < f
    BY <1>1, <2>5, <2>6, <2>7, AscendingGrows
  <2>9. QED
    BY <2>2, <2>7, <2>8
<1>4. CASE posts' = posts /\ ~OnSnapshot
  BY <1>1, <1>2, <1>4
<1>5. CASE posts # <<>> /\ posts' = Tail(posts) /\ ~OnSnapshot
  BY <1>1, <1>2, <1>5, AscendingRuns
<1>6. CASE ~OnSnapshot /\ \E ps \in Seq(Closure) : posts' = posts \o ps /\ ~HasOffer(ps)
  <2>1. PICK ps \in Seq(Closure) : posts' = posts \o ps /\ ~HasOffer(ps)
    BY <1>6
  <2>2. \A i \in 1 .. Len(ps) : \A f \in Frame : ps[i] # OfferTo(c, f)
    BY <2>1 DEF HasOffer
  <2>3. \A f \in Frame : ~OfferedIn(ps, c, f)
    BY <2>2 DEF OfferedIn
  <2>4. frames <= frames
    BY <1>1
  <2>5. /\ Ascending(posts \o ps, c, frames)
        /\ \A f \in Frame : OfferedIn(posts \o ps, c, f) => OfferedIn(posts, c, f) \/ frames < f
    BY <1>1, <2>2, <2>3, <2>4, AscendingGrows
  <2>6. QED
    BY <1>1, <1>2, <1>6, <2>1, <2>4, <2>5
<1>7. QED
  <2>1. ~OnSnapshot /\ posts' # posts /\ ~(posts # <<>> /\ posts' = Tail(posts)) =>
          \E ps \in Seq(Closure) : posts' = posts \o ps /\ ~HasOffer(ps)
    BY PostsGrow
  <2>2. QED
    BY <1>3, <1>4, <1>5, <1>6, <2>1

-------------------------------------------------------------------------------
(* Whole frames *)

AgreeInv == \A c \in Central : Agree(c, rx[c], queue[c], missed[c])

\* The frames that c and its queue know of were made before those it is still offered.
Fresh(c) ==
  \A k \in FramesOf(rx[c], queue[c]) :
    k \in Nat /\ k <= frames /\ \A f \in Frame : OfferedIn(posts, c, f) => k < f

FrameInv ==
  /\ missed \in [Central -> Frame \union {Absent}]
  /\ \A c \in Central : Ascending(posts, c, frames)
  /\ ~spilt => AgreeInv /\ \A c \in Central : Fresh(c)

\* The frame that c is about to be offered.
Due(c) == {f \in Frame : posts # <<>> /\ posts' = Tail(posts) /\ Head(posts) = OfferTo(c, f)}

\* What a step does to c.
Moved(c) ==
  /\ Agree(c, rx[c], queue[c], missed[c])'
  /\ FramesOf(rx[c], queue[c])' \subseteq FramesOf(rx[c], queue[c]) \union Due(c) \union {Absent}

LEMMA Unmoved ==
  ASSUME NEW c \in Central, Agree(c, rx[c], queue[c], missed[c]),
         rx'[c] = rx[c], queue'[c] = queue[c], missed'[c] = missed[c], Hears(c)' <=> Hears(c)
  PROVE  Moved(c)
<1>1. Agree(c, rx[c], queue[c], missed[c])'
  BY DEF Agree, Follows
<1>2. FramesOf(rx[c], queue[c])' = FramesOf(rx[c], queue[c])
  BY DEF FramesOf, Current, NextUp
<1>3. QED
  BY <1>1, <1>2 DEF Moved

\* Steps that touch neither a device nor a queue.
LEMMA QuietLeaves ==
  ASSUME BleTypes, Command \/ Loop \/ StartService \/ PowerOn \/ \E c \in Central : WriteAuth(c) \/ SubscribeAuth(c)
  PROVE  rx' = rx /\ missed' = missed /\ queue' = queue /\ \A c \in Central : Hears(c)' <=> Hears(c)
<1>1. CASE Command
  BY <1>1 DEF Command, ToggleOn, ToggleOff, OnSnapshot, EndServed, Unpair, DropSessions, mainVars, centralVars, Hears
<1>2. CASE Loop
  BY <1>2 DEF Loop, TakeSubscribed, TakePoweredOff, TakeGone, EndSession, ForgetCentral, TakeAuthWrite, HandleAuth,
     mainVars, centralVars, Hears
<1>3. CASE StartService \/ PowerOn
  BY <1>3 DEF StartService, PowerOn, centralVars, Hears
<1>4. CASE \E c \in Central : WriteAuth(c)
  BY <1>4 DEF WriteAuth, mainVars, centralVars, Hears
<1>5. ASSUME NEW c \in Central, SubscribeAuth(c)
      PROVE  rx' = rx /\ missed' = missed /\ queue' = queue /\ \A d \in Central : Hears(d)' <=> Hears(d)
  <2>1. rx' = rx /\ missed' = missed /\ queue' = queue /\ link' = [link EXCEPT ![c] = "auth"] /\ link[c] = "away"
    BY <1>5 DEF SubscribeAuth
  <2>2. QED
    BY <2>1 DEF BleTypes, Hears
<1>6. QED
  BY <1>1, <1>2, <1>3, <1>4, <1>5

\* A link that ends takes the queue with it.
LEMMA EndMoves ==
  ASSUME BleTypes, NEW cs \in SUBSET Central, LinksEnd(cs), queue' = DropQueues(cs),
         missed \in [Central -> Frame \union {Absent}],
         NEW c \in Central, Agree(c, rx[c], queue[c], missed[c])
  PROVE  Moved(c)
<1>1. /\ link'[c] = IF c \in cs THEN "away" ELSE link[c]
      /\ rx'[c] = IF c \in cs THEN NothingHeard ELSE rx[c]
      /\ missed'[c] = IF c \in cs THEN Absent ELSE missed[c]
      /\ queue'[c] = IF c \in cs THEN NoQueue ELSE queue[c]
  BY DEF LinksEnd, DropQueues
<1>2. CASE c \notin cs
  <2>1. Hears(c)' <=> Hears(c)
    BY <1>1, <1>2 DEF Hears
  <2>2. QED
    BY <1>1, <1>2, <2>1, Unmoved
<1>3. CASE c \in cs
  <2>1. rx'[c] = NothingHeard /\ queue'[c] = NoQueue /\ ~Hears(c)'
    BY <1>1, <1>3 DEF Hears
  <2>2. Current(queue'[c]) = Absent /\ NextUp(queue'[c]) = Absent
    BY <2>1 DEF Current, NextUp
  <2>3. rx'[c].last = Absent
    BY <2>1, NothingHeardIs DEF Absent
  <2>4. Agree(c, rx[c], queue[c], missed[c])'
    BY <2>1, <2>2 DEF Agree, Ordered
  <2>5. FramesOf(rx[c], queue[c])' = {Absent}
    BY <2>2, <2>3 DEF FramesOf
  <2>6. QED
    BY <2>4, <2>5 DEF Moved
<1>4. QED
  BY <1>2, <1>3

\* A queue that is dropped leaves the device with the frame under way.
LEMMA RevokeMoves ==
  ASSUME BleTypes, RevokeTargets, NEW c \in Central, Agree(c, rx[c], queue[c], missed[c])
  PROVE  Moved(c)
<1> DEFINE cs == Head(posts).ids
<1>1. /\ rx' = rx /\ Hears(c)' = Hears(c)
      /\ queue'[c] = IF c \in cs THEN NoQueue ELSE queue[c]
      /\ missed'[c] = IF c \in cs THEN UnderWay(c) ELSE missed[c]
  BY DEF RevokeTargets, DropQueues, Hears
<1>2. CASE c \notin cs
  BY <1>1, <1>2, Unmoved
<1>3. CASE c \in cs
  <2>1. queue'[c] = NoQueue /\ missed'[c] = UnderWay(c) /\ rx'[c] = rx[c]
    BY <1>1, <1>3
  <2>2. Current(queue'[c]) = Absent /\ NextUp(queue'[c]) = Absent /\ SentOf(queue'[c]) = 0
    BY <2>1 DEF Current, NextUp, SentOf
  <2>3. ASSUME Hears(c) PROVE Follows(c, rx[c], Absent, 0, UnderWay(c))
    <3>1. Follows(c, rx[c], Current(queue[c]), SentOf(queue[c]), missed[c])
      BY <2>3 DEF Agree
    <3>2. CASE queue[c] # NoQueue /\ Started(queue[c])
      <4>1. /\ Current(queue[c]) # Absent /\ SentOf(queue[c]) > 0
            /\ UnderWay(c) = Current(queue[c])
        BY <3>2 DEF Started, UnderWay, Current, SentOf
      <4>2. CASE rx[c].asm = Begun(c, Current(queue[c]), SentOf(queue[c]))
        BY <3>1, <4>1, <4>2 DEF Follows, Begun
      <4>3. CASE Current(queue[c]) = missed[c] /\ rx[c].asm.expected = 0
        BY <3>1, <4>1, <4>3 DEF Follows
      <4>4. QED
        BY <3>1, <4>1, <4>2, <4>3 DEF Follows
    <3>3. CASE queue[c] = NoQueue \/ ~Started(queue[c])
      <4>1. UnderWay(c) = missed[c]
        BY <3>3 DEF UnderWay
      <4>2. ~(Current(queue[c]) # Absent /\ SentOf(queue[c]) > 0)
        BY <3>3 DEF Started, Current, SentOf
      <4>3. QED
        BY <3>1, <4>1, <4>2 DEF Follows
    <3>4. QED
      BY <3>2, <3>3
  <2>4. Agree(c, rx[c], queue[c], missed[c])'
    <3>1. Hears(c) => Follows(c, rx'[c], Absent, 0, missed'[c])
      BY <2>1, <2>3
    <3>2. QED
      BY <1>1, <2>1, <2>2, <3>1 DEF Agree, Ordered
  <2>5. FramesOf(rx[c], queue[c])' \subseteq FramesOf(rx[c], queue[c]) \union {Absent}
    BY <2>1, <2>2 DEF FramesOf
  <2>6. QED
    BY <2>4, <2>5 DEF Moved
<1>4. QED
  BY <1>2, <1>3

\* Who begins to listen has missed what is under way.
LEMMA SubscribeMoves ==
  ASSUME BleTypes, NEW d \in Central, SubscribeSnapshot(d), missed \in [Central -> Frame \union {Absent}],
         NEW c \in Central, Agree(c, rx[c], queue[c], missed[c])
  PROVE  Moved(c)
<1>1. /\ rx' = rx /\ queue' = queue /\ link[d] = "auth" /\ link'[d] = "both" /\ missed'[d] = UnderWay(d)
      /\ \A x \in Central \ {d} : missed'[x] = missed[x] /\ link'[x] = link[x]
  BY DEF SubscribeSnapshot, BleTypes
<1>2. CASE c # d
  <2>1. Hears(c)' <=> Hears(c)
    BY <1>1, <1>2 DEF Hears
  <2>2. QED
    BY <1>1, <1>2, <2>1, Unmoved
<1>3. CASE c = d
  <2>1. rx[c] = NothingHeard
    BY <1>1, <1>3 DEF Agree, Hears
  <2>2. Follows(c, NothingHeard, Current(queue[c]), SentOf(queue[c]), UnderWay(c))
    <3>1. NothingHeard.asm.expected = 0 /\ NothingHeard.asm.id = Absent /\ NothingHeard.asm.aborted = FALSE
      BY NothingHeardIs DEF NewReassembler, Absent
    <3>2. Current(queue[c]) # Absent /\ SentOf(queue[c]) > 0 => UnderWay(c) = Current(queue[c])
      BY DEF Current, SentOf, UnderWay, Started
    <3>3. QED
      BY <3>1, <3>2, NothingHeardIs DEF Follows
  <2>3. Hears(c)'
    BY <1>1, <1>3 DEF Hears
  <2>4. Agree(c, rx[c], queue[c], missed[c])'
    BY <1>1, <1>3, <2>1, <2>2, <2>3 DEF Agree
  <2>5. FramesOf(rx[c], queue[c])' = FramesOf(rx[c], queue[c])
    BY <1>1 DEF FramesOf
  <2>6. QED
    BY <2>4, <2>5 DEF Moved
<1>4. QED
  BY <1>2, <1>3

LEMMA PumpMoves ==
  ASSUME NEW q \in QueueMap, NEW cs \in SUBSET Central, NEW n \in Takes(cs), NEW spills \in Spills(cs),
         NEW was, PumpAll(q, cs, n, spills, was), ~spilt', link' = link, missed' = missed,
         \A x \in cs : q[x] # NoQueue => ~q[x].paused,
         NEW c \in Central, Agree(c, rx[c], q[c], missed[c]),
         FramesOf(rx[c], q[c]) \subseteq FramesOf(rx[c], queue[c]) \union Due(c) \union {Absent}
  PROVE  Moved(c)
<1>1. /\ Agree(c, rx'[c], queue'[c], missed[c])
      /\ FramesOf(rx'[c], queue'[c]) \subseteq FramesOf(rx[c], q[c]) \union {Absent}
  BY PumpAgrees
<1>2. Agree(c, rx[c], queue[c], missed[c])'
  BY <1>1 DEF Agree, Follows, Hears
<1>3. FramesOf(rx[c], queue[c])' = FramesOf(rx'[c], queue'[c])
  BY DEF FramesOf, Current, NextUp
<1>4. QED
  BY <1>1, <1>2, <1>3 DEF Moved

LEMMA OfferMoves ==
  ASSUME BleTypes, OfferFrame, ~spilt', NEW c \in Central, Agree(c, rx[c], queue[c], missed[c]),
         Fresh(c), Ascending(posts, c, frames)
  PROVE  Moved(c)
<1>1. /\ posts # <<>> /\ posts' = Tail(posts) /\ posts \in Seq(Closure) /\ Head(posts) \in Closure
      /\ Head(posts).type = "offer" /\ link' = link /\ missed' = missed
  BY RunIs DEF OfferFrame, BleTypes
<1>2. PICK d \in Central, f \in Frame : Head(posts) = OfferTo(d, f)
  BY <1>1, ClosureByType
<1> DEFINE q == Enqueued(d, f)
<1>3. IF d \in subs
      THEN \E n \in Takes({d}), spills \in Spills({d}) : PumpAll(q, {d}, n, spills, owed)
      ELSE queue' = q /\ UNCHANGED <<owed, rx, spilt>>
  <2>1. Head(posts).ids = {d} /\ Head(posts).frame = f
    BY <1>2, ClosureIs
  <2>2. QED
    BY <2>1 DEF OfferFrame
<1>4. CASE d \notin subs
  <2>1. queue' = queue /\ rx' = rx
    BY <1>3, <1>4 DEF Enqueued
  <2>2. QED
    BY <1>1, <2>1, Unmoved DEF Hears
<1>5. CASE d \in subs
  <2>1. PICK n \in Takes({d}), spills \in Spills({d}) : PumpAll(q, {d}, n, spills, owed)
    BY <1>3, <1>5
  <2>2. /\ q \in QueueMap /\ q[d] \in Queues(Frame) /\ ~q[d].paused
        /\ \A x \in Central \ {d} : q[x] = queue[x]
    BY <1>5, EnqueuedIs DEF QueueMap
  <2>3. q[d] = Offer(IF queue[d] = NoQueue THEN Empty ELSE queue[d], f)
    BY <1>5 DEF Enqueued, BleTypes
  <2> HIDE DEF q
  <2>4. /\ Agree(c, rx[c], q[c], missed[c])
        /\ FramesOf(rx[c], q[c]) \subseteq FramesOf(rx[c], queue[c]) \union Due(c) \union {Absent}
    <3>1. CASE c # d
      BY <2>2, <3>1 DEF FramesOf
    <3>2. CASE c = d
      <4>1. OfferedIn(posts, c, f)
        BY <1>1, <1>2, <3>2, AscendingRuns
      <4>2. \A k \in FramesOf(rx[c], queue[c]) : k < f
        BY <4>1 DEF Fresh
      <4>3. queue[c] \in Queues(Frame) \union {NoQueue}
        BY DEF BleTypes
      <4>4. q[c] = Offer(IF queue[c] = NoQueue THEN Empty ELSE queue[c], f)
        BY <2>3, <3>2
      <4>5. /\ Agree(c, rx[c], q[c], missed[c])
            /\ FramesOf(rx[c], q[c]) \subseteq FramesOf(rx[c], queue[c]) \union {f, Absent}
        BY <4>2, <4>3, <4>4, OfferAgrees
      <4>6. f \in Due(c)
        BY <1>1, <1>2, <3>2 DEF Due
      <4>7. QED
        BY <4>5, <4>6
    <3>3. QED
      BY <3>1, <3>2
  <2>5. {d} \in SUBSET Central
    OBVIOUS
  <2>6. QED
    BY <1>1, <2>1, <2>2, <2>4, <2>5, PumpMoves
<1>6. QED
  BY <1>4, <1>5

LEMMA ReadyMoves ==
  ASSUME BleTypes, RadioReady, ~spilt', NEW c \in Central, Agree(c, rx[c], queue[c], missed[c])
  PROVE  Moved(c)
<1>1. PICK n \in Takes(Central), spills \in Spills(Central) : Ready(n, spills)
  BY DEF RadioReady
<1> DEFINE q == [x \in Central |-> IF queue[x] = NoQueue THEN NoQueue ELSE OnReady(queue[x])]
<1>2. PumpAll(q, Central, n, spills, FALSE) /\ link' = link /\ missed' = missed
  BY <1>1 DEF Ready
<1>3. NoQueue \notin Queues(Frame)
  BY BleAssumption DEF Frame
<1>4. q \in QueueMap /\ \A x \in Central : q[x] # NoQueue => ~q[x].paused
  BY <1>3, OnReadyIs DEF BleTypes, QueueMap
<1>5. Current(q[c]) = Current(queue[c]) /\ NextUp(q[c]) = NextUp(queue[c]) /\ SentOf(q[c]) = SentOf(queue[c])
  <2>1. CASE queue[c] = NoQueue
    BY <2>1 DEF Current, NextUp, SentOf
  <2>2. CASE queue[c] # NoQueue
    <3>1. queue[c] \in Queues(Frame)
      BY <2>2 DEF BleTypes
    <3>2. q[c] = OnReady(queue[c]) /\ q[c] \in Queues(Frame)
      BY <2>2, <3>1, OnReadyIs
    <3> HIDE DEF q
    <3>3. q[c].current = queue[c].current /\ q[c].next = queue[c].next /\ q[c].sent = queue[c].sent
      BY <3>1, <3>2 DEF OnReady, Queues
    <3>4. QED
      BY <1>3, <2>2, <3>2, <3>3 DEF Current, NextUp, SentOf
  <2>3. QED
    BY <2>1, <2>2
<1> HIDE DEF q
<1>6. Agree(c, rx[c], q[c], missed[c]) /\ FramesOf(rx[c], q[c]) = FramesOf(rx[c], queue[c])
  BY <1>5 DEF Agree, FramesOf
<1>7. QED
  BY <1>2, <1>4, <1>6, PumpMoves

LEMMA StepMoves ==
  ASSUME BleTypes, FrameInv, Next, ~spilt', ~spilt, NEW c \in Central
  PROVE  Moved(c)
<1>1. Agree(c, rx[c], queue[c], missed[c]) /\ Fresh(c) /\ Ascending(posts, c, frames)
      /\ missed \in [Central -> Frame \union {Absent}]
  BY DEF FrameInv, AgreeInv
<1>2. CASE Command \/ Loop \/ StartService \/ PowerOn \/ \E d \in Central : WriteAuth(d) \/ SubscribeAuth(d)
  BY <1>1, <1>2, QuietLeaves, Unmoved
<1>3. CASE OfferFrame
  BY <1>1, <1>3, OfferMoves
<1>4. CASE RevokeTargets
  BY <1>1, <1>4, RevokeMoves
<1>5. CASE StopService \/ PowerOff
  <2>1. LinksEnd(Central) /\ queue' = DropQueues(Central)
    BY <1>5 DEF StopService, PowerOff
  <2>2. QED
    BY <1>1, <2>1, EndMoves
<1>6. CASE \E d \in Central : Unsubscribe(d)
  <2>1. PICK d \in Central : LinksEnd({d}) /\ queue' = DropQueues({d})
    BY <1>6 DEF Unsubscribe
  <2>2. {d} \in SUBSET Central
    OBVIOUS
  <2>3. QED
    BY <1>1, <2>1, <2>2, EndMoves
<1>7. CASE \E d \in Central : SubscribeSnapshot(d)
  BY <1>1, <1>7, SubscribeMoves
<1>8. CASE RadioReady
  BY <1>1, <1>8, ReadyMoves
<1>9. QED
  BY NextIs, <1>2, <1>3, <1>4, <1>5, <1>6, <1>7, <1>8 DEF Closures, Callback

\* That a chunk was repeated for all is not forgotten.
LEMMA SpiltStays == ASSUME Next, spilt PROVE spilt'
<1>1. CASE Command
  BY <1>1 DEF Command, ToggleOn, ToggleOff, OnSnapshot, EndServed, Unpair, DropSessions, centralVars
<1>2. CASE Loop
  BY <1>2 DEF Loop, TakeSubscribed, TakePoweredOff, TakeGone, EndSession, ForgetCentral, TakeAuthWrite, HandleAuth,
     centralVars
<1>3. CASE OfferFrame
  BY <1>3 DEF OfferFrame, PumpAll
<1>4. CASE RevokeTargets \/ StartService \/ StopService
  BY <1>4 DEF RevokeTargets, StartService, StopService, centralVars
<1>5. CASE Callback
  BY <1>5 DEF Callback, SubscribeAuth, SubscribeSnapshot, Unsubscribe, WriteAuth, centralVars
<1>6. CASE PowerOff \/ PowerOn \/ RadioReady
  BY <1>6 DEF PowerOff, PowerOn, RadioReady, Ready, PumpAll, centralVars
<1>7. QED
  BY NextIs, <1>1, <1>2, <1>3, <1>4, <1>5, <1>6 DEF Closures

LEMMA MissedStep ==
  ASSUME BleTypes, Next, missed \in [Central -> Frame \union {Absent}]
  PROVE  missed' \in [Central -> Frame \union {Absent}]
<1>1. \A c \in Central : UnderWay(c) \in Frame \union {Absent}
  BY DEF UnderWay, BleTypes, Queues
<1>2. CASE Command \/ Loop \/ StartService \/ PowerOn \/ \E d \in Central : WriteAuth(d) \/ SubscribeAuth(d)
  BY <1>2, QuietLeaves
<1>3. CASE OfferFrame \/ RadioReady
  BY <1>3 DEF OfferFrame, RadioReady, Ready
<1>4. CASE RevokeTargets
  BY <1>1, <1>4 DEF RevokeTargets
<1>5. CASE StopService \/ PowerOff \/ \E d \in Central : Unsubscribe(d)
  BY <1>5 DEF StopService, PowerOff, Unsubscribe, LinksEnd
<1>6. CASE \E d \in Central : SubscribeSnapshot(d)
  BY <1>1, <1>6 DEF SubscribeSnapshot
<1>7. QED
  BY NextIs, <1>2, <1>3, <1>4, <1>5, <1>6 DEF Closures, Callback

LEMMA FrameInvStep == ASSUME BleTypes, FrameInv, Next PROVE FrameInv'
<1>1. missed' \in [Central -> Frame \union {Absent}]
  BY MissedStep DEF FrameInv
<1>2. ASSUME NEW c \in Central
      PROVE  /\ Ascending(posts', c, frames') /\ frames' \in Nat /\ frames <= frames'
             /\ \A f \in Frame : OfferedIn(posts', c, f) => OfferedIn(posts, c, f) \/ frames < f
  BY AscendingStep DEF FrameInv
<1>3. ASSUME ~spilt', NEW c \in Central PROVE Agree(c, rx[c], queue[c], missed[c])' /\ Fresh(c)'
  <2>1. ~spilt
    BY <1>3, SpiltStays
  <2>2. Moved(c) /\ Fresh(c) /\ Ascending(posts, c, frames)
    BY <1>3, <2>1, StepMoves DEF FrameInv
  <2>3. Frame \subseteq Nat /\ frames \in Nat
    BY BleAssumption DEF Frame, BleTypes
  <2>4. ASSUME NEW k \in FramesOf(rx[c], queue[c])'
        PROVE  k \in Nat /\ k <= frames' /\ \A f \in Frame : OfferedIn(posts', c, f) => k < f
    <3>1. k \in FramesOf(rx[c], queue[c]) \/ k \in Due(c) \/ k = Absent
      BY <2>2, <2>4 DEF Moved
    <3>2. CASE k \in FramesOf(rx[c], queue[c])
      <4>1. k \in Nat /\ k <= frames /\ \A f \in Frame : OfferedIn(posts, c, f) => k < f
        BY <2>2, <3>2 DEF Fresh
      <4>2. k <= frames'
        BY <1>2, <2>3, <4>1
      <4>3. ASSUME NEW f \in Frame, OfferedIn(posts', c, f) PROVE k < f
        <5>1. f \in Nat /\ (OfferedIn(posts, c, f) \/ frames < f)
          BY <1>2, <2>3, <4>3
        <5>2. QED
          BY <2>3, <4>1, <5>1
      <4>4. QED
        BY <4>1, <4>2, <4>3
    <3>3. CASE k \in Due(c)
      <4>1. k \in Frame /\ posts # <<>> /\ posts' = Tail(posts) /\ Head(posts) = OfferTo(c, k)
        BY <3>3 DEF Due
      <4>2. posts \in Seq(Closure)
        BY DEF BleTypes
      <4>3. OfferedIn(posts, c, k) /\ \A f \in Frame : OfferedIn(Tail(posts), c, f) => k < f
        BY <2>2, <4>1, <4>2, AscendingRuns
      <4>4. k <= frames
        BY <2>2, <4>1, <4>3 DEF Ascending
      <4>5. k <= frames'
        BY <1>2, <2>3, <4>1, <4>4
      <4>6. QED
        BY <2>3, <4>1, <4>3, <4>5
    <3>4. CASE k = Absent
      <4>1. k = 0 /\ \A f \in Frame : 0 < f
        BY <3>4 DEF Absent, Frame
      <4>2. QED
        BY <1>2, <4>1
    <3>5. QED
      BY <3>1, <3>2, <3>3, <3>4
  <2>5. Fresh(c)'
    BY <2>4 DEF Fresh
  <2>6. QED
    BY <2>2, <2>5 DEF Moved
<1>4. QED
  BY <1>1, <1>2, <1>3 DEF FrameInv, AgreeInv

LEMMA FrameInvInit == Init => FrameInv
<1> SUFFICES ASSUME Init PROVE FrameInv
  OBVIOUS
<1>1. /\ posts = <<>> /\ Len(<<>>) = 0 /\ frames = 0 /\ missed = [c \in Central |-> Absent]
      /\ \A c \in Central : rx[c] = NothingHeard /\ queue[c] = NoQueue /\ link[c] = "away"
  BY EmptySeq DEF Init
<1>2. ASSUME NEW c \in Central
      PROVE  Ascending(posts, c, frames) /\ Agree(c, rx[c], queue[c], missed[c]) /\ Fresh(c)
  <2>1. \A i : i \notin 1 .. Len(posts)
    BY <1>1
  <2>2. Ascending(posts, c, frames) /\ \A f \in Frame : ~OfferedIn(posts, c, f)
    BY <2>1 DEF Ascending, OfferedIn
  <2>3. Current(queue[c]) = Absent /\ NextUp(queue[c]) = Absent /\ rx[c].last = 0
    BY <1>1, NothingHeardIs DEF Current, NextUp
  <2>4. Agree(c, rx[c], queue[c], missed[c])
    BY <1>1, <2>3 DEF Agree, Ordered, Hears
  <2>5. Fresh(c)
    BY <1>1, <2>2, <2>3 DEF Fresh, FramesOf, Absent
  <2>6. QED
    BY <2>2, <2>4, <2>5
<1>3. QED
  BY <1>1, <1>2 DEF FrameInv, AgreeInv

LEMMA FrameInvStutter == ASSUME FrameInv, UNCHANGED vars PROVE FrameInv'
<1>1. UNCHANGED <<missed, posts, frames, spilt, rx, queue, link>>
  BY DEF vars, runtimeVars, mainVars, centralVars
<1>2. \A c \in Central : Agree(c, rx[c], queue[c], missed[c])' <=> Agree(c, rx[c], queue[c], missed[c])
  BY <1>1 DEF Agree, Hears
<1>3. \A c \in Central : Fresh(c)' <=> Fresh(c)
  BY <1>1 DEF Fresh
<1>4. QED
  BY <1>1, <1>2, <1>3 DEF FrameInv, AgreeInv

\* Whatever a device puts together is one frame made for it, whole, and newer than the
\* one before, and none breaks off but the one under way when it subscribed or was
\* dropped (send_queue.rs:25-59, framing.rs:65-104; macos.rs:115-203): for any number of
\* centrals, frames and chunks of a frame, as long as no chunk was repeated for all
\* subscribers.
THEOREM FramesStayWhole == Spec => []FramesAreWhole
<1>1. FrameInv => FramesAreWhole
  <2> SUFFICES ASSUME FrameInv, ~spilt, NEW c \in Central
               PROVE  ~rx[c].torn /\ ~rx[c].lost /\ (rx[c].asm.aborted => rx[c].asm.id = missed[c])
    BY DEF FramesAreWhole
  <2>1. Agree(c, rx[c], queue[c], missed[c])
    BY DEF FrameInv, AgreeInv
  <2>2. CASE Hears(c)
    BY <2>1, <2>2 DEF Agree, Follows
  <2>3. CASE ~Hears(c)
    BY <2>1, <2>3, NothingHeardIs DEF Agree, NewReassembler
  <2>4. QED
    BY <2>2, <2>3
<1>2. Init => FrameInv
  BY FrameInvInit
<1>3. BleTypes /\ FrameInv /\ [Next]_vars => FrameInv'
  BY FrameInvStep, FrameInvStutter
<1>4. QED
  BY <1>1, <1>2, <1>3, BleIsTyped, PTL DEF Spec
===============================================================================
