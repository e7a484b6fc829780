------------------------------ MODULE MirrorProofs ------------------------------
(***************************************************************************)
(* Of the way of a snapshot to its device, for any bounds, contents and    *)
(* periods of the gate: no key seals twice with one counter, and every     *)
(* frame of the device's own key opens when it comes.                      *)
(*                                                                         *)
(* A key is made once, by the renewal with its number, and everything that *)
(* was sealed with it carries a counter below the channel's.  The rest is  *)
(* order: the one frame that waits to be written is newer than all on the  *)
(* link, which are in order and newer than what the device has accepted.   *)
(***************************************************************************)
EXTENDS Mirror, SequenceTheorems, TLAPS

SendKey(n) == KeysOf(n).s2c
SendKeys == {SendKey(n) : n \in Nat}
Frames == [key : SendKeys \union {NoKey}, counter : Nat, body : Content]

\* Made by a renewal so far.
Made(key) == \A n \in Nat : key = SendKey(n) => n <= session

MirrorTypes ==
  /\ session \in Nat
  /\ content \in Content
  /\ link \in Seq(Frames) /\ batches \in SUBSET Frames

ChannelInv ==
  /\ channel.counter \in Nat
  /\ channel = Plain \/ channel.send = SendKey(session)
  /\ device.last \in Int
  /\ device = Plain \/ (device.recv \in SendKeys /\ Made(device.recv))

\* What a key has sealed.
SealedInv ==
  /\ ~reused
  /\ \A p \in sealed : p[1] # NoKey =>
       /\ Made(p[1]) /\ p[1] \in SendKeys /\ p[2] \in Nat
       /\ p[1] = channel.send => p[2] < channel.counter

\* A frame under way is older than those its channel has still to seal.
Older(f) == f.key # NoKey => Made(f.key) /\ (f.key = channel.send => f.counter < channel.counter)
\* The device will accept it.
Fresh(f) == device # Plain /\ f.key = device.recv => f.counter > device.last
Before(f, g) == f.key = g.key /\ f.key # NoKey => f.counter < g.counter

OrderInv ==
  /\ \A f \in batches : Older(f) /\ Fresh(f)
  /\ \A f, g \in batches : f = g
  /\ \A i \in DOMAIN link : Older(link[i]) /\ Fresh(link[i])
  /\ \A i \in DOMAIN link, f \in batches : Before(link[i], f)
  /\ \A i, j \in DOMAIN link : i < j => Before(link[i], link[j])
  /\ device # Plain /\ device.recv = channel.send => device.last < channel.counter

MirrorInv == MirrorTypes /\ ChannelInv /\ SealedInv /\ OrderInv
-------------------------------------------------------------------------------
(* Keys *)

\* Keys of different renewals differ, and none is the key of plain text.
LEMMA KeysDiffer ==
  /\ \A m, n \in Nat : SendKey(m) = SendKey(n) => m = n
  /\ \A n \in Nat : SendKey(n) # NoKey
<1>1. ASSUME NEW m \in Nat, NEW n \in Nat, SendKey(m) = SendKey(n) PROVE m = n
  BY <1>1 DEF SendKey, KeysOf, SessionKeys
<1>2. ASSUME NEW n \in Nat PROVE SendKey(n) # NoKey
  BY DEF SendKey, KeysOf, SessionKeys, NoKey
<1>3. QED
  BY <1>1, <1>2

LEMMA PlainEnds == Plain.send = NoKey /\ Plain.recv = NoKey /\ Plain.counter = 0 /\ Plain.last = -1
  BY DEF Plain

\* Both ends of a renewal.
LEMMA EndsOf ==
  ASSUME NEW n \in Nat
  PROVE  /\ MacEnd(n).send = SendKey(n) /\ MacEnd(n).counter = 0
         /\ DeviceEnd(n).recv = SendKey(n) /\ DeviceEnd(n).last = -1
         /\ MacEnd(n) # Plain /\ DeviceEnd(n) # Plain
<1>1. /\ MacEnd(n).send = SendKey(n) /\ MacEnd(n).counter = 0
      /\ DeviceEnd(n).recv = SendKey(n) /\ DeviceEnd(n).last = -1
  BY DEF MacEnd, DeviceEnd, NewChannel, SendKey
<1>2. QED
  BY <1>1, PlainEnds, KeysDiffer

LEMMA MirrorStart == MirrorInit => MirrorInv
<1>1. SUFFICES ASSUME MirrorInit PROVE MirrorInv
  OBVIOUS
<1>2. MirrorTypes
  BY <1>1 DEF MirrorInit, MirrorTypes
<1>3. ChannelInv
  <2>1. channel = Plain /\ device = Plain
    BY <1>1 DEF MirrorInit
  <2>2. QED
    BY <2>1, PlainEnds DEF ChannelInv
<1>4. SealedInv
  BY <1>1 DEF MirrorInit, SealedInv
<1>5. OrderInv
  <2>1. DOMAIN link = {} /\ batches = {} /\ device = Plain
    BY <1>1 DEF MirrorInit
  <2>2. QED
    BY <2>1 DEF OrderInv
<1>6. QED
  BY <1>2, <1>3, <1>4, <1>5 DEF MirrorInv
-------------------------------------------------------------------------------
(* Steps *)

\* The frame that the tick seals is newer than all its key has sealed.
LEMMA SealStep ==
  ASSUME MirrorInv, TickServed \/ TickUnchunked
  PROVE  LET frame == SealedFrame(channel, content) IN
         /\ frame \in Frames
         /\ frame.key = channel.send /\ frame.counter = channel.counter
         /\ channel'.send = channel.send /\ channel'.counter \in Nat
         /\ channel = Plain => channel' = Plain
         /\ channel # Plain => channel'.counter = channel.counter + 1
         /\ UNCHANGED <<session, device, content>>
         /\ Count(frame)
<1> DEFINE frame == SealedFrame(channel, content)
<1>1. frame = [key |-> channel.send, counter |-> channel.counter, body |-> content]
  BY DEF SealedFrame
<1>2. channel.send \in SendKeys \union {NoKey}
  BY PlainEnds DEF MirrorInv, MirrorTypes, ChannelInv, SendKeys
<1>3. frame \in Frames
  BY <1>1, <1>2 DEF MirrorInv, MirrorTypes, ChannelInv, Frames
<1>4. channel' = IF channel = Plain THEN Plain ELSE AfterSeal(channel)
  BY DEF TickServed, TickUnchunked
<1>5. UNCHANGED <<session, device, content>> /\ Count(frame)
  BY DEF TickServed, TickUnchunked
<1>6. CASE channel = Plain
  BY <1>1, <1>3, <1>4, <1>5, <1>6, PlainEnds
<1>7. CASE channel # Plain
  <2>1. channel' = [channel EXCEPT !.counter = @ + 1]
    BY <1>4, <1>7 DEF AfterSeal
  <2>2. QED
    BY <1>1, <1>3, <1>5, <1>7, <2>1 DEF MirrorInv, ChannelInv
<1>8. QED
  BY <1>6, <1>7

\* What touches neither keys nor frames.
LEMMA QuietStep ==
  ASSUME MirrorInv, content' \in Content,
         UNCHANGED <<session, channel, device, batches, link, sealed, reused>>
  PROVE  MirrorInv'
<1>1. MirrorTypes'
  BY DEF MirrorInv, MirrorTypes
<1>2. ChannelInv'
  BY DEF MirrorInv, ChannelInv, Made
<1>3. SealedInv'
  BY DEF MirrorInv, SealedInv, Made
<1>4. OrderInv'
  BY DEF MirrorInv, OrderInv, Older, Fresh, Before, Made
<1>5. QED
  BY <1>1, <1>2, <1>3, <1>4 DEF MirrorInv

LEMMA TailOfLink ==
  ASSUME MirrorInv, link # <<>>, link' = Tail(link)
  PROVE  /\ link' \in Seq(Frames)
         /\ Head(link) = link[1] /\ 1 \in DOMAIN link
         /\ \A i \in DOMAIN link' : i + 1 \in DOMAIN link /\ 1 < i + 1 /\ link'[i] = link[i + 1]
<1>1. link \in Seq(Frames)
  BY DEF MirrorInv, MirrorTypes
<1>2. /\ Len(link) \in Nat \ {0} /\ link' \in Seq(Frames) /\ Len(link') = Len(link) - 1
      /\ \A i \in 1 .. Len(link') : link'[i] = link[i + 1]
      /\ Head(link) = link[1]
  BY <1>1, HeadTailProperties, EmptySeq, LenProperties
<1>3. DOMAIN link = 1 .. Len(link) /\ DOMAIN link' = 1 .. Len(link')
  BY <1>1, <1>2, LenProperties
<1>4. QED
  BY <1>2, <1>3

\* A frame is lost; nothing else changes.
LEMMA LoseStep ==
  ASSUME MirrorInv, link # <<>>, link' = Tail(link),
         UNCHANGED <<session, channel, device, batches, sealed, reused, content>>
  PROVE  MirrorInv'
<1>1. MirrorTypes'
  BY TailOfLink DEF MirrorInv, MirrorTypes
<1>2. ChannelInv'
  BY DEF MirrorInv, ChannelInv, Made
<1>3. SealedInv'
  BY DEF MirrorInv, SealedInv, Made
<1>4. OrderInv'
  <2>1. \A f \in batches' : Older(f)' /\ Fresh(f)'
    BY DEF MirrorInv, OrderInv, Older, Fresh, Made
  <2>2. \A i \in DOMAIN link' : Older(link[i])' /\ Fresh(link[i])'
    BY TailOfLink DEF MirrorInv, OrderInv, Older, Fresh, Made
  <2>3. /\ \A i \in DOMAIN link', f \in batches' : Before(link'[i], f)
        /\ \A i, j \in DOMAIN link' : i < j => Before(link'[i], link'[j])
    BY TailOfLink DEF MirrorInv, OrderInv
  <2>4. QED
    BY <2>1, <2>2, <2>3 DEF MirrorInv, OrderInv
<1>5. QED
  BY <1>1, <1>2, <1>3, <1>4 DEF MirrorInv

\* A frame comes: if the device accepts it, those behind it are newer.
LEMMA DeliverStep ==
  ASSUME MirrorInv, Deliver
  PROVE  MirrorInv'
<1>1. /\ link # <<>> /\ link' = Tail(link)
      /\ UNCHANGED <<session, channel, batches, sealed, reused, content>>
  BY DEF Deliver
<1>2. CASE UNCHANGED device
  BY <1>1, <1>2, LoseStep
<1>3. CASE device' # device
  <2>1. /\ device # Plain /\ Opens(device, link[1])
        /\ device' = [device EXCEPT !.last = link[1].counter]
    BY <1>1, <1>3, TailOfLink DEF Deliver, AfterOpen
  <2>2. /\ link[1] \in Frames /\ link[1].key = device.recv /\ device.recv \in SendKeys
        /\ device'.last = link[1].counter /\ device'.recv = device.recv /\ Made(device.recv)
    BY <1>1, <2>1, TailOfLink DEF Opens, MirrorInv, MirrorTypes, ChannelInv
  <2>3. device.recv # NoKey /\ link[1].counter \in Nat
    BY <2>2, KeysDiffer DEF SendKeys, Frames
  <2>4. MirrorTypes'
    BY <1>1, TailOfLink DEF MirrorInv, MirrorTypes
  <2>5. ChannelInv'
    BY <1>1, <2>2, <2>3 DEF MirrorInv, ChannelInv, Made
  <2>6. SealedInv'
    BY <1>1 DEF MirrorInv, SealedInv, Made
  <2>7. \A f \in batches' : Older(f)' /\ Fresh(f)'
    BY <1>1, <2>2, <2>3, TailOfLink DEF MirrorInv, OrderInv, Older, Fresh, Before, Made
  <2>8. \A i \in DOMAIN link' : Older(link[i])' /\ Fresh(link[i])'
    BY <1>1, <2>2, <2>3, TailOfLink DEF MirrorInv, OrderInv, Older, Fresh, Before, Made
  <2>9. /\ \A i \in DOMAIN link', f \in batches' : Before(link'[i], f)
        /\ \A i, j \in DOMAIN link' : i < j => Before(link'[i], link'[j])
    BY <1>1, TailOfLink DEF MirrorInv, OrderInv
  <2>10. device'.recv = channel'.send => device'.last < channel'.counter
    BY <1>1, <2>2, <2>3, TailOfLink DEF MirrorInv, OrderInv, Older
  <2>11. OrderInv'
    BY <1>1, <2>7, <2>8, <2>9, <2>10 DEF MirrorInv, OrderInv
  <2>12. QED
    BY <2>4, <2>5, <2>6, <2>11 DEF MirrorInv
<1>4. QED
  BY <1>2, <1>3

\* The session ends.
LEMMA EndStep ==
  ASSUME MirrorInv, EndMirror
  PROVE  MirrorInv'
<1>1. channel' = Plain /\ UNCHANGED <<session, device, batches, link, sealed, reused, content>>
  BY DEF EndMirror
<1>2. MirrorTypes'
  BY <1>1 DEF MirrorInv, MirrorTypes
<1>3. ChannelInv'
  BY <1>1, PlainEnds DEF MirrorInv, ChannelInv, Made
<1>4. SealedInv'
  BY <1>1, PlainEnds DEF MirrorInv, SealedInv, Made
<1>5. device # Plain => device.recv # NoKey
  BY KeysDiffer DEF MirrorInv, ChannelInv, SendKeys
<1>6. OrderInv'
  BY <1>1, <1>5, PlainEnds DEF MirrorInv, OrderInv, Older, Fresh, Before, Made
<1>7. QED
  BY <1>2, <1>3, <1>4, <1>6 DEF MirrorInv

\* The device learns its session's keys; it has accepted nothing under them.
LEMMA AdoptStep ==
  ASSUME MirrorInv, Adopt
  PROVE  MirrorInv'
<1>1. /\ device' = IF channel = Plain THEN Plain ELSE DeviceEnd(session)
      /\ UNCHANGED <<session, channel, batches, link, sealed, reused, content>>
  BY DEF Adopt
<1>2. session \in Nat
  BY DEF MirrorInv, MirrorTypes
<1>3. /\ device'.last = -1
      /\ device' # Plain => channel # Plain /\ device'.recv = SendKey(session)
  BY <1>1, <1>2, EndsOf, PlainEnds
<1>4. MirrorTypes'
  BY <1>1 DEF MirrorInv, MirrorTypes
<1>5. Made(SendKey(session)) /\ SendKey(session) \in SendKeys
  BY <1>2, KeysDiffer DEF Made, SendKeys
<1>6. ChannelInv'
  BY <1>1, <1>3, <1>5 DEF MirrorInv, ChannelInv, Made
<1>7. SealedInv'
  BY <1>1 DEF MirrorInv, SealedInv, Made
<1>8. \A f \in Frames : Fresh(f)'
  BY <1>3 DEF Fresh, Frames
<1>9. \A i \in DOMAIN link : link[i] \in Frames
  BY DEF MirrorInv, MirrorTypes
<1>10. OrderInv'
  BY <1>1, <1>3, <1>8, <1>9 DEF MirrorInv, MirrorTypes, ChannelInv, OrderInv, Older, Before, Made
<1>11. QED
  BY <1>4, <1>6, <1>7, <1>10 DEF MirrorInv

\* A renewal makes a key that nothing has been sealed with.
LEMMA AuthorizeStep ==
  ASSUME MirrorInv, NEW n \in 1 .. MaxSessions, NEW v2 \in BOOLEAN, Authorize(n, v2)
  PROVE  MirrorInv'
<1>1. /\ session' = session + 1 /\ session \in Nat /\ session' \in Nat
      /\ channel' = IF v2 THEN MacEnd(session') ELSE Plain
      /\ UNCHANGED <<device, batches, link, sealed, reused, content>>
  BY DEF Authorize, MirrorInv, MirrorTypes
<1>2. \A key : Made(key) => Made(key)'
  BY <1>1 DEF Made
<1>3. /\ channel'.counter = 0
      /\ channel' = Plain \/ channel'.send = SendKey(session')
      /\ channel'.send = NoKey \/ channel'.send = SendKey(session')
  BY <1>1, EndsOf, PlainEnds
\* The new key is not one of those made before.
<1>4. \A key : Made(key) /\ key # NoKey => key # channel'.send
  <2>1. \A key : Made(key) => key # SendKey(session')
    BY <1>1 DEF Made
  <2>2. QED
    BY <1>3, <2>1
<1>5. MirrorTypes'
  BY <1>1 DEF MirrorInv, MirrorTypes
<1>6. ChannelInv'
  BY <1>1, <1>2, <1>3 DEF MirrorInv, ChannelInv
<1>7. SealedInv'
  BY <1>1, <1>2, <1>4 DEF MirrorInv, SealedInv
<1>8. \A f : Older(f) => Older(f)'
  BY <1>2, <1>4 DEF Older
<1>9. \A f : Fresh(f) => Fresh(f)'
  BY <1>1 DEF Fresh
<1>10. device # Plain => device.recv # channel'.send
  <2>1. device # Plain => Made(device.recv) /\ device.recv # NoKey
    BY KeysDiffer DEF MirrorInv, ChannelInv, SendKeys
  <2>2. QED
    BY <1>4, <2>1
<1>11. OrderInv'
  BY <1>1, <1>8, <1>9, <1>10 DEF MirrorInv, OrderInv, Before
<1>12. QED
  BY <1>5, <1>6, <1>7, <1>11 DEF MirrorInv

LEMMA AppendToLink ==
  ASSUME MirrorInv, NEW frame \in Frames, link' = Append(link, frame)
  PROVE  /\ link' \in Seq(Frames)
         /\ \A i \in DOMAIN link' :
              \/ i \in DOMAIN link /\ link'[i] = link[i]
              \/ i = Len(link) + 1 /\ link'[i] = frame
         /\ \A i \in DOMAIN link : i \in Nat /\ i < Len(link) + 1
<1>1. link \in Seq(Frames)
  BY DEF MirrorInv, MirrorTypes
<1>2. /\ link' \in Seq(Frames) /\ Len(link') = Len(link) + 1 /\ Len(link) \in Nat
      /\ \A i \in 1 .. Len(link) : link'[i] = link[i]
      /\ link'[Len(link) + 1] = frame
  BY <1>1, AppendProperties, LenProperties
<1>3. DOMAIN link = 1 .. Len(link) /\ DOMAIN link' = 1 .. Len(link')
  BY <1>1, <1>2, LenProperties
<1>4. QED
  BY <1>2, <1>3

\* The frame that waited is written, or skipped.
LEMMA SendStep ==
  ASSUME MirrorInv, SendPrepared
  PROVE  MirrorInv'
<1>1. PICK frame \in batches :
        /\ batches' = batches \ {frame}
        /\ link' = IF listed THEN Append(link, frame) ELSE link
        /\ UNCHANGED <<session, channel, device, sealed, reused, content>>
  BY DEF SendPrepared, sessionVars
<1>2. frame \in Frames /\ batches' = {}
  BY <1>1 DEF MirrorInv, MirrorTypes, OrderInv
<1>3. ChannelInv' /\ SealedInv'
  BY <1>1 DEF MirrorInv, ChannelInv, SealedInv, Made
<1>4. CASE UNCHANGED link
  <2>1. MirrorTypes'
    BY <1>1, <1>2, <1>4 DEF MirrorInv, MirrorTypes
  <2>2. OrderInv'
    BY <1>1, <1>2, <1>4 DEF MirrorInv, OrderInv, Older, Fresh, Before, Made
  <2>3. QED
    BY <1>3, <2>1, <2>2 DEF MirrorInv
<1>5. CASE link' = Append(link, frame)
  <2>1. MirrorTypes'
    BY <1>1, <1>2, <1>5, AppendToLink DEF MirrorInv, MirrorTypes
  <2>2. \A i \in DOMAIN link' : Older(link[i])' /\ Fresh(link[i])'
    BY <1>1, <1>2, <1>5, AppendToLink DEF MirrorInv, OrderInv, Older, Fresh, Made
  <2>3. \A i, j \in DOMAIN link' : i < j => Before(link'[i], link'[j])
    BY <1>1, <1>2, <1>5, AppendToLink DEF MirrorInv, OrderInv
  <2>4. OrderInv'
    BY <1>1, <1>2, <2>2, <2>3 DEF MirrorInv, OrderInv
  <2>5. QED
    BY <1>3, <2>1, <2>4 DEF MirrorInv
<1>6. QED
  BY <1>1, <1>4, <1>5

\* The tick seals a frame, and puts it on the link, among what waits, or nowhere.
LEMMA TickStep ==
  ASSUME MirrorInv, TickServed \/ TickUnchunked
  PROVE  MirrorInv'
<1>1. PICK frame \in Frames :
      /\ frame.key = channel.send /\ frame.counter = channel.counter
      /\ channel'.send = channel.send /\ channel'.counter \in Nat
      /\ channel = Plain => channel' = Plain
      /\ channel # Plain => channel'.counter = channel.counter + 1
      /\ UNCHANGED <<session, device, content>>
      /\ frame = SealedFrame(channel, content) /\ Count(frame)
  BY SealStep
<1>2. batches = {}
  BY DEF TickServed, TickUnchunked, MayTick
<1>3. \/ link' = Append(link, frame) /\ batches' = {}
      \/ UNCHANGED link /\ batches' = {frame}
      \/ UNCHANGED link /\ batches' = {}
  BY <1>1, <1>2 DEF TickServed, TickUnchunked
<1>4. channel.counter \in Nat
  BY DEF MirrorInv, ChannelInv
<1>5. channel.send # NoKey => channel # Plain /\ channel.send = SendKey(session) /\ session \in Nat
  BY PlainEnds DEF MirrorInv, MirrorTypes, ChannelInv
<1>6. channel.send # NoKey => Made(channel.send) /\ channel.send \in SendKeys
  BY <1>5, KeysDiffer DEF Made, SendKeys
<1>7. MirrorTypes'
  BY <1>1, <1>3, AppendToLink DEF MirrorInv, MirrorTypes
<1>8. ChannelInv'
  BY <1>1 DEF MirrorInv, ChannelInv, Made
<1>9. SealedInv'
  <2>1. ~reused'
    <3>1. ~(frame.key # NoKey /\ <<frame.key, frame.counter>> \in sealed)
      BY <1>1, <1>4 DEF MirrorInv, SealedInv
    <3>2. ~reused
      BY DEF MirrorInv, SealedInv
    <3>3. QED
      BY <1>1, <3>1, <3>2 DEF Count
  <2>2. ASSUME NEW p \in sealed', p[1] # NoKey
        PROVE  /\ Made(p[1])' /\ p[1] \in SendKeys /\ p[2] \in Nat
               /\ p[1] = channel'.send => p[2] < channel'.counter
    <3>1. CASE p \in sealed
      BY <1>1, <1>4, <1>5, <2>2, <3>1 DEF MirrorInv, SealedInv, Made
    <3>2. CASE p = <<frame.key, frame.counter>>
      BY <1>1, <1>4, <1>5, <1>6, <2>2, <3>2 DEF Made
    <3>3. QED
      BY <1>1, <3>1, <3>2 DEF Count
  <2>3. QED
    BY <2>1, <2>2 DEF SealedInv
<1>10. OrderInv'
  <2>1. \A f \in Frames : Older(f) => Older(f)' /\ Before(f, frame)
    BY <1>1, <1>4, <1>5 DEF Older, Before, Made, Frames
  <2>2. \A f \in Frames : Fresh(f) => Fresh(f)'
    BY <1>1 DEF Fresh
  <2>3. Older(frame)' /\ Fresh(frame)'
    BY <1>1, <1>4, <1>5, <1>6 DEF MirrorInv, OrderInv, Older, Fresh, Made
  <2>4. \A i \in DOMAIN link : link[i] \in Frames
    BY DEF MirrorInv, MirrorTypes
  <2>5. \A f \in batches' : Older(f)' /\ Fresh(f)'
    BY <1>3, <2>3
  <2>6. \A i \in DOMAIN link' : Older(link[i])' /\ Fresh(link[i])'
    BY <1>1, <1>3, <2>1, <2>2, <2>3, <2>4, AppendToLink DEF MirrorInv, OrderInv
  <2>7. \A i \in DOMAIN link', f \in batches' : Before(link'[i], f)
    BY <1>3, <2>1, <2>4 DEF MirrorInv, OrderInv
  <2>8. \A i, j \in DOMAIN link' : i < j => Before(link'[i], link'[j])
    BY <1>1, <1>3, <2>1, <2>4, AppendToLink DEF MirrorInv, OrderInv
  <2>9. device' # Plain /\ device'.recv = channel'.send => device'.last < channel'.counter
    BY <1>1, <1>4, <1>5, KeysDiffer DEF MirrorInv, ChannelInv, OrderInv, SendKeys
  <2>10. \A f, g \in batches' : f = g
    BY <1>3
  <2>11. QED
    BY <2>5, <2>6, <2>7, <2>8, <2>9, <2>10 DEF OrderInv
<1>11. QED
  BY <1>7, <1>8, <1>9, <1>10 DEF MirrorInv
-------------------------------------------------------------------------------
(* Theorems *)

LEMMA MirrorStep == MirrorInv /\ [MirrorNext]_mirrorVars => MirrorInv'
<1> SUFFICES ASSUME MirrorInv, [MirrorNext]_mirrorVars PROVE MirrorInv'
  OBVIOUS
<1>1. content \in Content
  BY DEF MirrorInv, MirrorTypes
<1>2. CASE TickIdle
  BY <1>1, <1>2, QuietStep DEF TickIdle, sessionVars, pathVars
<1>3. CASE TickUnserved
  BY <1>1, <1>3, QuietStep DEF TickUnserved
<1>4. CASE TickServed \/ TickUnchunked
  BY <1>4, TickStep
<1>5. CASE SendPrepared
  BY <1>5, SendStep
<1>6. CASE Deliver
  BY <1>6, DeliverStep
<1>7. CASE Lose
  BY <1>7, LoseStep DEF Lose, sessionVars
<1>8. CASE \E n \in 1 .. MaxSessions, v2 \in BOOLEAN : Authorize(n, v2)
  BY <1>8, AuthorizeStep
<1>9. CASE Adopt
  BY <1>9, AdoptStep
<1>10. CASE EndMirror
  BY <1>10, EndStep
<1>11. CASE Change
  BY <1>11, QuietStep DEF Change, sessionVars
<1>12. CASE Advance \/ TurnBack
  BY <1>1, <1>12, QuietStep DEF Advance, TurnBack, sessionVars, pathVars
<1>13. CASE UNCHANGED mirrorVars
  BY <1>1, <1>13, QuietStep DEF mirrorVars
<1>14. QED
  BY <1>2, <1>3, <1>4, <1>5, <1>6, <1>7, <1>8, <1>9, <1>10, <1>11, <1>12, <1>13 DEF MirrorNext

LEMMA MirrorInvariance == MirrorSpec => []MirrorInv
  BY MirrorStart, MirrorStep, PTL DEF MirrorSpec

\* However sessions are renewed and frames lost, refused by their chunks or written
\* late, no key of a SealedChannel seals two frames with one counter.
THEOREM CountersUsedOnce == MirrorSpec => []NoNonceReuse
<1>1. MirrorInv => NoNonceReuse
  BY DEF MirrorInv, SealedInv, NoNonceReuse
<1>2. QED
  BY <1>1, MirrorInvariance, PTL

\* Frames are written after the lock they were sealed under is released, and still
\* none comes behind a newer one of its key: all that reach the device open.
THEOREM OrderIsKept == MirrorSpec => []OwnFramesOpen
<1>1. ASSUME MirrorInv PROVE OwnFramesOpen
  <2>1. /\ \A i \in DOMAIN link : link[i] \in Frames /\ i \in Nat
        /\ \A i \in DOMAIN link : \A j \in 1 .. i - 1 : j \in DOMAIN link /\ j < i
        /\ \A f \in batches : f \in Frames
    BY <1>1, LenProperties DEF MirrorInv, MirrorTypes
  <2>2. device # Plain => device.recv # NoKey
    BY <1>1, KeysDiffer DEF MirrorInv, ChannelInv, SendKeys
  <2>3. \A i \in DOMAIN link : link[i].key = device.recv /\ device # Plain =>
          /\ link[i].counter > device.last
          /\ \A j \in 1 .. i - 1 : link[j].key = link[i].key => link[j].counter < link[i].counter
    BY <1>1, <2>1, <2>2 DEF MirrorInv, OrderInv, Fresh, Before
  <2>4. \A f \in batches, i \in DOMAIN link :
          f.key = link[i].key /\ f.key # NoKey => f.counter > link[i].counter
    BY <1>1, <2>1 DEF MirrorInv, OrderInv, Before, Frames
  <2>5. QED
    BY <2>3, <2>4 DEF OwnFramesOpen
<1>2. QED
  BY <1>1, MirrorInvariance, PTL
-------------------------------------------------------------------------------
(* Nothing is withheld *)

\* The device's authorization, its keys and the transport's list agree.
InStep ==
  /\ authorized /\ listed /\ device.recv = channel.send
  /\ via = "lan" => channel # Plain

\* The last frame under way is one of the content under the session's key; if there
\* is none, the device shows the content.
Coming ==
  /\ \A f \in batches : f.key = channel.send /\ f.body = content
  /\ batches = {} => IF link = <<>> THEN shown = content
                     ELSE link[Len(link)].key = channel.send /\ link[Len(link)].body = content

GateInv ==
  /\ now \in Nat /\ since \in Nat /\ gate.at \in Nat \union {-1}
  /\ gate = [hash |-> gate.hash, at |-> gate.at]
  /\ ~setBack => since <= now /\ gate.at <= now

\* What was emitted after the last disturbance comes; and a tick that was not
\* disturbed leaves the gate with an emission of less than Repeat ago.
ShownInv ==
  ~setBack =>
    /\ InStep /\ gate.at > since => Coming
    /\ InStep /\ ticked /\ since < now => gate.at # -1 /\ now - gate.at < Repeat

LEMMA ShownStart == MirrorInit => GateInv /\ ShownInv
  BY DEF MirrorInit, GateInv, ShownInv, InStep, NewGate

\* A disturbance: nothing has been emitted after it.
LEMMA Disturbed ==
  ASSUME GateInv, since' = now, now' = now, setBack' = setBack,
         gate'.at \in {gate.at, now}, gate' = [hash |-> gate'.hash, at |-> gate'.at]
  PROVE  GateInv' /\ ShownInv'
<1>1. GateInv'
  BY DEF GateInv
<1>2. ~setBack => ~(gate'.at > since') /\ ~(since' < now')
  BY DEF GateInv
<1>3. QED
  BY <1>1, <1>2 DEF ShownInv

\* The tick has looked at the gate.
LEMMA GateShut ==
  ASSUME GateInv, ~setBack, ~ShouldEmit(gate, content, now)
  PROVE  gate.at # -1 /\ now - gate.at < Repeat
  BY GateAssumption DEF GateInv, ShouldEmit, Since

LEMMA ShownStep == MirrorInv /\ GateInv /\ ShownInv /\ [MirrorNext]_mirrorVars => GateInv' /\ ShownInv'
<1> SUFFICES ASSUME MirrorInv, GateInv, ShownInv, [MirrorNext]_mirrorVars PROVE GateInv' /\ ShownInv'
  OBVIOUS
<1>0. /\ link \in Seq(Frames) /\ (link # <<>> => Len(link) \in Nat \ {0}) /\ DOMAIN link = 1 .. Len(link)
      /\ Len(link) \in Nat
  BY LenProperties, EmptySeq DEF MirrorInv, MirrorTypes
<1>1. CASE TickIdle
  <2>1. /\ UNCHANGED <<now, gate, since, setBack, authorized, listed, device, channel, via, link, batches,
                       shown, content>>
        /\ ~(HasTargets /\ ShouldEmit(gate, content, now))
    BY <1>1 DEF TickIdle, sessionVars, pathVars
  <2>2. GateInv'
    BY <2>1 DEF GateInv
  <2>3. InStep => HasTargets
    BY DEF InStep, HasTargets
  <2>4. ~setBack /\ InStep => gate.at # -1 /\ now - gate.at < Repeat
    BY <2>1, <2>3, GateShut
  <2>5. QED
    BY <2>1, <2>2, <2>4 DEF ShownInv, InStep, Coming
<1>2. CASE TickUnserved
  <2>1. /\ gate'.at = now /\ gate' = [hash |-> gate'.hash, at |-> gate'.at]
        /\ UNCHANGED <<now, since, setBack, authorized, device, channel, via>>
        /\ ~Served /\ listed' = (listed /\ (via = "network" => authorized))
    BY <1>2 DEF TickUnserved, Emitted
  <2>2. GateInv'
    BY <2>1 DEF GateInv
  <2>3. ~InStep'
    BY <2>1 DEF InStep, Served
  <2>4. QED
    BY <2>2, <2>3 DEF ShownInv
<1>3. CASE TickServed
  <2>1. PICK frame :
        /\ frame = [key |-> channel.send, counter |-> channel.counter, body |-> content]
        /\ IF via = "ble" THEN link' = Append(link, frame) /\ UNCHANGED batches
                          ELSE batches' = batches \union {frame} /\ UNCHANGED link
    BY <1>3 DEF TickServed, SealedFrame
  <2>2. /\ gate'.at = now /\ gate' = [hash |-> gate'.hash, at |-> gate'.at]
        /\ UNCHANGED <<now, since, setBack, content>> /\ batches = {}
    BY <1>3 DEF TickServed, Emitted, MayTick
  <2>3. channel'.send = channel.send
    BY <1>3, SealStep
  <2>4. GateInv'
    BY <2>2 DEF GateInv
  <2>5. Coming'
    <3>1. CASE via = "ble"
      <4>1. link' # <<>> /\ link'[Len(link')] = frame /\ batches' = {}
        BY <1>0, <2>1, <2>2, <3>1
      <4>2. QED
        BY <2>1, <2>2, <2>3, <4>1 DEF Coming
    <3>2. CASE via # "ble"
      BY <2>1, <2>2, <2>3, <3>2 DEF Coming
    <3>3. QED
      BY <3>1, <3>2
  <2>6. gate'.at # -1 /\ now' - gate'.at < Repeat
    BY <2>2, GateAssumption DEF GateInv
  <2>7. QED
    BY <2>4, <2>5, <2>6 DEF ShownInv
<1>4. CASE TickUnchunked
  <2>1. since' = now /\ now' = now /\ setBack' = setBack
    BY <1>4 DEF TickUnchunked
  <2>2. gate'.at = now /\ gate' = [hash |-> gate'.hash, at |-> gate'.at]
    BY <1>4 DEF TickUnchunked, Emitted, Reset
  <2>3. QED
    BY <2>1, <2>2, Disturbed
<1>5. CASE SendPrepared
  <2>1. PICK frame \in batches :
        /\ batches' = batches \ {frame}
        /\ link' = IF listed THEN Append(link, frame) ELSE link
        /\ UNCHANGED <<now, ticked, gate, since, setBack, authorized, listed, device, channel, via,
                       shown, content>>
    BY <1>5 DEF SendPrepared, sessionVars
  <2>2. batches' = {} /\ frame \in Frames
    BY <2>1 DEF MirrorInv, MirrorTypes, OrderInv
  <2>3. GateInv'
    BY <2>1 DEF GateInv
  <2>4. InStep' => InStep /\ listed
    BY <2>1 DEF InStep
  <2>5. Coming /\ listed => Coming'
    <3>1. listed => link' # <<>> /\ link'[Len(link')] = frame
      BY <1>0, <2>1, <2>2
    <3>2. QED
      BY <2>1, <2>2, <3>1 DEF Coming
  <2>6. QED
    BY <2>1, <2>3, <2>4, <2>5 DEF ShownInv
<1>6. CASE Deliver
  <2>1. /\ link # <<>> /\ link' = Tail(link)
        /\ UNCHANGED <<now, ticked, gate, since, setBack, authorized, listed, channel, via, batches, content>>
    BY <1>6 DEF Deliver
  <2>2. GateInv'
    BY <2>1 DEF GateInv
  <2>3. device'.recv = device.recv
    <3>1. CASE device' = [device EXCEPT !.last = Head(link).counter]
      BY <3>1
    <3>2. CASE device' = device
      BY <3>2
    <3>3. QED
      BY <1>6, <3>1, <3>2 DEF Deliver, AfterOpen
  <2>4. InStep' => InStep
    BY <2>1, <2>3 DEF InStep
  <2>5. ASSUME InStep, Coming PROVE Coming'
    <3>1. CASE Len(link) = 1 /\ batches = {}
      <4>1. link' = <<>> /\ Head(link) = link[1] /\ 1 \in DOMAIN link
        BY <1>0, <2>1, <3>1
      <4>2. link[1].key = channel.send /\ link[1].body = content
        BY <2>1, <2>5, <3>1 DEF Coming
      <4>3. link[1] \in Frames /\ Fresh(link[1])
        BY <4>1 DEF MirrorInv, MirrorTypes, OrderInv
      <4>4. device = Plain => link[1].key = NoKey
        BY <2>5, <4>2, PlainEnds DEF InStep
      <4>5. device # Plain => Opens(device, link[1])
        BY <2>5, <4>2, <4>3 DEF InStep, Fresh, Opens, Frames, MirrorInv, ChannelInv
      <4>6. shown' = content
        BY <1>6, <4>1, <4>2, <4>4, <4>5 DEF Deliver
      <4>7. QED
        BY <2>1, <3>1, <4>1, <4>6 DEF Coming
    <3>2. CASE Len(link) # 1 /\ batches = {}
      <4>1. /\ Len(link) > 1 /\ Len(link') = Len(link) - 1
            /\ \A i \in 1 .. Len(link') : link'[i] = link[i + 1]
        BY <1>0, <2>1, <3>2, HeadTailProperties
      <4>2. link' # <<>> /\ link'[Len(link')] = link[Len(link)]
        BY <1>0, <4>1, EmptySeq
      <4>3. QED
        BY <2>1, <2>5, <3>2, <4>2 DEF Coming
    <3>3. CASE batches # {}
      BY <2>1, <2>5, <3>3 DEF Coming
    <3>4. QED
      BY <3>1, <3>2, <3>3
  <2>6. QED
    BY <2>1, <2>2, <2>4, <2>5 DEF ShownInv
<1>7. CASE Lose
  <2>1. since' = now /\ now' = now /\ setBack' = setBack /\ gate' = gate
    BY <1>7 DEF Lose
  <2>2. gate'.at = gate.at /\ gate' = [hash |-> gate'.hash, at |-> gate'.at]
    BY <2>1 DEF GateInv
  <2>3. QED
    BY <2>1, <2>2, Disturbed
<1>8. CASE \E n \in 1 .. MaxSessions, v2 \in BOOLEAN : Authorize(n, v2)
  <2>1. since' = now /\ now' = now /\ setBack' = setBack 
    BY <1>8 DEF Authorize
  <2>2. gate'.at = gate.at /\ gate' = [hash |-> gate'.hash, at |-> gate'.at]
    BY <1>8 DEF Authorize, Reset, GateInv
  <2>3. QED
    BY <2>1, <2>2, Disturbed
<1>9. CASE Adopt \/ EndMirror \/ Change
  <2>1. since' = now /\ now' = now /\ setBack' = setBack /\ gate' = gate
    BY <1>9 DEF Adopt, EndMirror, Change
  <2>2. gate'.at = gate.at /\ gate' = [hash |-> gate'.hash, at |-> gate'.at]
    BY <2>1 DEF GateInv
  <2>3. QED
    BY <2>1, <2>2, Disturbed
<1>10. CASE Advance
  <2>1. /\ now' = now + 1 /\ ticked' = FALSE /\ since' \in {since, now'}
        /\ UNCHANGED <<gate, setBack, authorized, listed, device, channel, via, link, batches, shown, content>>
    BY <1>10 DEF Advance, sessionVars, pathVars
  <2>2. GateInv'
    BY <2>1 DEF GateInv
  <2>3. ~setBack /\ gate'.at > since' => gate.at > since
    BY <2>1 DEF GateInv
  <2>4. QED
    BY <2>1, <2>2, <2>3 DEF ShownInv, InStep, Coming
<1>11. CASE TurnBack
  BY <1>11 DEF TurnBack, pathVars, GateInv, ShownInv
<1>12. CASE UNCHANGED mirrorVars
  BY <1>12 DEF mirrorVars, GateInv, ShownInv, InStep, Coming
<1>13. QED
  BY <1>1, <1>2, <1>3, <1>4, <1>5, <1>6, <1>7, <1>8, <1>9, <1>10, <1>11, <1>12 DEF MirrorNext

\* Once nothing has disturbed content, session and link for the repeat interval, the
\* device shows the current content, unless the clock was set back: the gate's repeat
\* makes good what was lost after it had taken it for sent (emitter.rs, lib.rs:1486-1614).
THEOREM NothingWithheld == MirrorSpec => []ShownInTime
<1>1. GateInv /\ ShownInv => ShownInTime
  BY GateAssumption DEF GateInv, ShownInv, ShownInTime, InStep, Coming
<1>2. QED
  BY <1>1, ShownStart, ShownStep, MirrorStart, MirrorStep, PTL DEF MirrorSpec
=============================================================================
