-------------------------------- MODULE Mirror --------------------------------
(***************************************************************************)
(* The way of a snapshot to one device: the tick of lib.rs, the transport's *)
(* EmitGate, the seal, the write outside the pairing lock, the link, and   *)
(* the device that opens it.  Meanwhile the session may be renewed, revoked *)
(* or replaced by one without a channel (v1).  The lists, queues and locks  *)
(* of the transports are in Ble, Network and Lan; here is what the three   *)
(* have in common, and where they differ in it.                            *)
(***************************************************************************)
EXTENDS Integers, Sequences, FiniteSets, EmitGate, SealedChannel

CONSTANTS Transport,    \* which of "ble", "network", "lan"
          Content,      \* what hash_snapshot tells apart
          MaxTick,      \* bound: the clock, in ticks
          MaxSessions,  \* bound: sessions opened
          MaxLink       \* bound: frames under way when the clock advances

VARIABLES
  via,        \* the device's transport
  now, ticked,
  content,
  gate,
  others,     \* the transport serves another device as well
  listed,     \* in snapshot_senders, centrals or the subscribers
  session,    \* the number of the latest session
  authorized,
  channel,    \* its SealedChannel, or Plain for v1
  batches,    \* frames prepared and not written yet, one batch per tick under way
  link,       \* frames on their way
  device,     \* the device's end of the channel, or Plain
  shown,      \* what it displays
  \* history
  sealed,     \* the keys and counters of the frames sealed so far
  reused,     \* a key has sealed twice with one counter
  since,      \* the last time something other than the tick was at work
  setBack     \* the clock was set back

mirrorVars == <<via, now, ticked, content, gate, others, listed, session, authorized, channel,
                batches, link, device, shown, sealed, reused, since, setBack>>
sessionVars == <<via, listed, session, authorized, channel, device>>
pathVars == <<gate, batches, link, shown, sealed, reused>>

NoKey == <<"plain">>
Plain == [send |-> NoKey, recv |-> NoKey, counter |-> 0, last |-> -1]

\* Each renewal has new ephemeral keys at both ends and a new nonce.
KeysOf(n) == SessionKeys(Agree(<<"device", n>>, <<"mac", n>>), "token", n)
MacEnd(n) == NewChannel(KeysOf(n).s2c, KeysOf(n).c2s)
DeviceEnd(n) == NewChannel(KeysOf(n).c2s, KeysOf(n).s2c)

MirrorInit ==
  /\ via \in Transport
  /\ now = 0 /\ ticked = FALSE
  /\ content \in Content
  /\ gate = NewGate
  /\ others \in BOOLEAN
  /\ listed = FALSE /\ session = 0 /\ authorized = FALSE /\ channel = Plain /\ device = Plain
  /\ batches = {} /\ link = <<>>
  /\ shown = NoHash
  /\ sealed = {} /\ reused = FALSE /\ since = 0 /\ setBack = FALSE

-------------------------------------------------------------------------------
(* The tick *)

\* Mutant: the writes are moved to a task of their own.
MayTickAnyTime == ~ticked

\* One sequential task: the next tick waits for the writes of this one.
MayTick == ~ticked /\ batches = {}

\* BLE and LAN count authorized devices only, the network its streams.
HasTargets ==
  \/ others
  \/ listed /\ (via = "network" \/ authorized)

\* LAN has no v1: a session without a channel is skipped.
Served == listed /\ authorized /\ (via = "lan" => channel # Plain)

TickIdle ==
  /\ MayTick
  /\ ~(HasTargets /\ ShouldEmit(gate, content, now))
  /\ ticked' = TRUE
  /\ UNCHANGED <<now, content, others, sessionVars, pathVars, since, setBack>>

\* Others only, or a stream whose device lost its authorization and is dropped.
TickUnserved ==
  /\ MayTick /\ HasTargets /\ ShouldEmit(gate, content, now)
  /\ ~Served
  /\ ticked' = TRUE
  /\ gate' = Emitted(gate, content, now)
  /\ listed' = (listed /\ (via = "network" => authorized))
  /\ UNCHANGED <<via, now, content, others, session, authorized, channel, device, batches, link,
                 shown, sealed, reused, since, setBack>>

\* History: the counters each key has sealed with, and whether one came twice.
Count(frame) ==
  /\ sealed' = sealed \union {<<frame.key, frame.counter>>}
  /\ reused' = (reused \/ (frame.key # NoKey /\ <<frame.key, frame.counter>> \in sealed))

TickServed ==
  LET frame == SealedFrame(channel, content) IN
  /\ MayTick /\ HasTargets /\ ShouldEmit(gate, content, now)
  /\ Served
  /\ ticked' = TRUE
  /\ gate' = Emitted(gate, content, now)
  /\ channel' = IF channel = Plain THEN Plain ELSE AfterSeal(channel)
  /\ Count(frame)
  /\ IF via = "ble" THEN link' = Append(link, frame) /\ UNCHANGED batches
                    ELSE batches' = batches \union {frame} /\ UNCHANGED link
  /\ UNCHANGED <<via, now, content, others, listed, session, authorized, device, shown, since, setBack>>

\* BLE: the frame does not fit its chunks, after it was sealed.  If nobody was
\* served, the gate is reset.
TickUnchunked ==
  LET frame == SealedFrame(channel, content) IN
  /\ via = "ble"
  /\ MayTick /\ HasTargets /\ ShouldEmit(gate, content, now)
  /\ Served
  /\ ticked' = TRUE
  /\ gate' = IF others THEN Emitted(gate, content, now) ELSE Reset(Emitted(gate, content, now))
  /\ channel' = IF channel = Plain THEN Plain ELSE AfterSeal(channel)
  /\ Count(frame)
  /\ since' = now
  /\ UNCHANGED <<via, now, content, others, listed, session, authorized, device, batches, link,
                 shown, setBack>>

\* send_prepared, outside the pairing lock; a device no longer listed is skipped.
SendPrepared ==
  \E frame \in batches :
    /\ batches' = batches \ {frame}
    /\ link' = IF listed THEN Append(link, frame) ELSE link
    /\ UNCHANGED <<now, ticked, content, gate, others, sessionVars, shown, sealed, reused,
                   since, setBack>>

-------------------------------------------------------------------------------
(* The device *)

Deliver ==
  LET frame == Head(link) IN
  /\ link # <<>>
  /\ link' = Tail(link)
  /\ IF device = Plain
     THEN /\ shown' = IF frame.key = NoKey THEN frame.body ELSE shown
          /\ UNCHANGED device
     ELSE /\ shown' = IF Opens(device, frame) THEN frame.body ELSE shown
          /\ device' = AfterOpen(device, frame)
  /\ UNCHANGED <<via, now, ticked, content, gate, others, listed, session, authorized, channel,
                 batches, sealed, reused, since, setBack>>

\* A radio that drops a chunk, a queue that is cut.
Lose ==
  /\ link # <<>>
  /\ link' = Tail(link)
  /\ since' = now
  /\ UNCHANGED <<now, ticked, content, gate, others, sessionVars, batches, shown, sealed, reused, setBack>>

-------------------------------------------------------------------------------
(* Everything else *)

\* A device that pairs or authenticates (again).  The manager installs the
\* channel at once; the network registers the stream, BLE resets the gate when
\* the device subscribes, LAN and network do not.
Authorize(n, v2) ==
  /\ n <= MaxSessions /\ n = session + 1
  /\ session' = n /\ authorized' = TRUE
  /\ channel' = IF v2 THEN MacEnd(n) ELSE Plain
  /\ listed' = TRUE
  /\ gate' = IF via = "ble" THEN Reset(gate) ELSE gate
  /\ since' = now
  /\ UNCHANGED <<via, now, ticked, content, others, device, batches, link, shown, sealed, reused, setBack>>

\* The reply reaches the device, ahead of or behind the frames on the link.
Adopt ==
  LET end == IF channel = Plain THEN Plain ELSE DeviceEnd(session) IN
  /\ authorized /\ device.recv # end.recv
  /\ device' = end
  /\ since' = now
  /\ UNCHANGED <<via, now, ticked, content, gate, others, listed, session, authorized, channel, batches,
                 link, shown, sealed, reused, setBack>>

\* Unpaired, switched off or disconnected; the network's stream may still be listed.
EndMirror ==
  /\ authorized
  /\ authorized' = FALSE /\ channel' = Plain
  /\ listed' \in IF via = "network" THEN BOOLEAN ELSE {FALSE}
  /\ since' = now
  /\ UNCHANGED <<via, now, ticked, content, gate, others, session, device, batches, link,
                 shown, sealed, reused, setBack>>

Change ==
  /\ content' \in Content \ {content}
  /\ since' = now
  /\ UNCHANGED <<now, ticked, gate, others, sessionVars, batches, link, shown, sealed, reused, setBack>>

\* Time passes; if it does so while a write or the link is blocked, or no tick
\* ran, that counts as a disturbance.
Advance ==
  /\ now < MaxTick /\ Len(link) + Cardinality(batches) < MaxLink
  /\ now' = now + 1
  /\ ticked' = FALSE
  /\ since' = IF ticked /\ batches = {} /\ link = <<>> THEN since ELSE now'
  /\ UNCHANGED <<content, others, sessionVars, pathVars, setBack>>

TurnBack ==
  /\ ~setBack /\ now > 0
  /\ now' = 0 /\ setBack' = TRUE /\ ticked' = FALSE
  /\ UNCHANGED <<content, others, sessionVars, pathVars, since>>

MirrorNext ==
  \/ TickIdle \/ TickUnserved \/ TickServed \/ TickUnchunked \/ SendPrepared
  \/ Deliver \/ Lose
  \/ \E n \in 1 .. MaxSessions, v2 \in BOOLEAN : Authorize(n, v2)
  \/ Adopt \/ EndMirror \/ Change \/ Advance \/ TurnBack

MirrorSpec == MirrorInit /\ [][MirrorNext]_mirrorVars

-------------------------------------------------------------------------------
(* Properties *)

\* No key seals two frames with one counter, whatever was lost, refused or renewed
\* in between: two frames under one (key, nonce) would give both away.
NoNonceReuse == ~reused

\* "If frames are turned around the receiver silently drops all of them" (lib.rs:
\* 1493-1497): every frame under the device's own key that is still to come is
\* newer than all it accepted, so it opens; neither a lost frame nor one sealed
\* for the session before the renewal, nor one for the session after it, spoils those behind it.
OwnFramesOpen ==
  /\ \A i \in DOMAIN link : link[i].key = device.recv /\ device # Plain =>
       /\ link[i].counter > device.last
       /\ \A j \in 1 .. i - 1 : link[j].key = link[i].key => link[j].counter < link[i].counter
  /\ \A f \in batches, i \in DOMAIN link :
       f.key = link[i].key /\ f.key # NoKey => f.counter > link[i].counter

\* Nothing is withheld: once content, session and link have been left alone for the
\* repeat interval, the device shows the current content, even if an earlier frame
\* was lost after the gate had taken it for sent.  (Not if the clock is set back:
\* then the gate waits until it has caught up.)
ShownInTime ==
  ~setBack /\ authorized /\ listed /\ device.recv = channel.send /\ (via = "lan" => channel # Plain)
  /\ ticked /\ batches = {} /\ link = <<>>
  /\ now - since >= Repeat
  => shown = content
=============================================================================
