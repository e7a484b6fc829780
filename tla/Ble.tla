--------------------------------- MODULE Ble ----------------------------------
(***************************************************************************)
(* The BLE transport: BleBridge (ble/mod.rs), MacPeripheral and its         *)
(* CoreBluetooth delegate (ble/macos.rs), the commands ble_set_enabled and  *)
(* unpair, and the BLE event loop (lib.rs).                                 *)
(*                                                                         *)
(* Three parties.  The main thread runs the delegate's callbacks and the    *)
(* closures posted to it (`posts'), one at a time.  The tasks of the        *)
(* runtime call the bridge under its mutex.  The event loop takes what the  *)
(* callbacks report (`events'); both queues are unbounded and in order.     *)
(* A step that takes and releases a mutex without waiting in between is     *)
(* one action.                                                              *)
(*                                                                         *)
(* Left out: the replies on the Auth characteristic, advertising and its    *)
(* flag, and the throttle of EmitGate (a snapshot may come at any time).    *)
(***************************************************************************)
EXTENDS Naturals, Sequences, FiniteSets, SequencesExt, SendQueue, Framing

CONSTANTS Central, NoQueue,
          MaxFrames,    \* bound: frames made
          MaxEvents,    \* bound: events waiting when something happens
          MaxPosts      \* bound: closures waiting when one is posted

ASSUME BleAssumption ==
  /\ IsFiniteSet(Central)
  /\ MaxFrames \in Nat /\ MaxEvents \in Nat \ {0} /\ MaxPosts \in Nat \ {0}
  /\ NoQueue \notin Queues(1 .. MaxFrames)

VARIABLES
  \* runtime
  enabled,     \* BleBridge.enabled, and SHARING_WANTED
  mirror,      \* subs_mirror
  authorized,  \* PairingManager.authorized, this transport's part
  frames,      \* frames made so far (next_frame_id)
  loop,        \* where the event loop is, and with whom
  served,      \* ble_set_enabled(false) under way: the sessions each will end
  revoked,     \* unpair under way: the sessions each will drop
  events, posts,
  \* main thread and radio
  power,
  published,   \* the service is up
  subs,        \* MainState.subs
  queue,       \* MainState.queues, of the Snapshot characteristic
  owed,        \* the radio refused a chunk and owes a "ready"
  \* the centrals
  link,        \* central -> "away", "auth" or "both", the characteristics it subscribes to
  rx,          \* central -> its Reassembler; history of this link: the last frame it
               \* completed, whether it completed one not its own, whole and newer,
               \* whether it began one that broke off
  \* history
  outrun,      \* centrals whose link came back before the end of the last one was dealt with
  cut,         \* centrals that had a request waiting or a link when sharing was switched off,
               \* or a link when the service went down for it
  missed,      \* central -> the frame under way when it subscribed or was dropped
  spilt        \* a chunk went to centrals it was not made for

runtimeVars == <<enabled, mirror, authorized, frames, loop, served, revoked>>
mainVars == <<power, published, subs, queue, owed>>
centralVars == <<link, rx, cut, outrun, missed, spilt>>
vars == <<runtimeVars, events, posts, mainVars, centralVars>>

Subscribed(c) == [type |-> "subscribed", ids |-> {c}]
\* Unsubscribed and Disconnected, which are sent together.
Gone(c)       == [type |-> "gone", ids |-> {c}]
PoweredOff    == [type |-> "off", ids |-> {}]
AuthWrite(c)  == [type |-> "auth", ids |-> {c}]

OfferTo(c, f) == [type |-> "offer", ids |-> {c}, frame |-> f]
Revoke(cs)    == [type |-> "revoke", ids |-> cs, frame |-> Absent]
Start         == [type |-> "start", ids |-> {}, frame |-> Absent]
Stop          == [type |-> "stop", ids |-> {}, frame |-> Absent]

Report(es) == Len(events) < MaxEvents /\ events' = events \o es
Post(ps) == Len(posts) < MaxPosts /\ posts' = posts \o ps

Idle == [at |-> "idle", ids |-> {}]

NothingHeard == [asm |-> NewReassembler, last |-> 0, torn |-> FALSE, lost |-> FALSE]

\* The event loop has yet to see the end of a link of c.
Ending(c) ==
  \/ loop.at \in {"ending", "leaving"} /\ c \in loop.ids
  \/ \E i \in DOMAIN events : events[i] \in {PoweredOff, Gone(c)}

Requesting(c) == loop = [at |-> "auth", ids |-> {c}] \/ AuthWrite(c) \in Range(events)

\* A frame was offered to an earlier link of c, and nothing will drop it.
Leftover(c) ==
  /\ Stop \notin Range(posts) /\ c \notin UNION revoked
  /\ ~(loop.at = "forget" /\ c \in loop.ids)
  /\ \E i \in DOMAIN posts :
       /\ posts[i].type = "offer" /\ c \in posts[i].ids
       /\ \A j \in DOMAIN posts : j > i /\ posts[j].type = "revoke" => c \notin posts[j].ids

\* The links of cs end; a client starts over with a new Reassembler.
LinksEnd(cs) ==
  /\ link' = [c \in Central |-> IF c \in cs THEN "away" ELSE link[c]]
  /\ rx' = [c \in Central |-> IF c \in cs THEN NothingHeard ELSE rx[c]]
  /\ missed' = [c \in Central |-> IF c \in cs THEN Absent ELSE missed[c]]
  /\ outrun' = outrun \ cs
  /\ subs' = subs \ cs

Init ==
  /\ enabled = FALSE /\ mirror = {} /\ authorized = {} /\ frames = 0
  /\ loop = Idle /\ served = {} /\ revoked = {}
  /\ events = <<>> /\ posts = <<>>
  /\ power = TRUE /\ published = FALSE /\ subs = {}
  /\ queue = [c \in Central |-> NoQueue] /\ owed = FALSE
  /\ link = [c \in Central |-> "away"]
  /\ rx = [c \in Central |-> NothingHeard]
  /\ outrun = {} /\ cut = {} /\ missed = [c \in Central |-> Absent] /\ spilt = FALSE

-------------------------------------------------------------------------------
(* The runtime: commands and the tick *)

ToggleOn ==
  /\ ~enabled /\ enabled' = TRUE
  /\ Post(<<Start>>)
  /\ UNCHANGED <<mirror, authorized, frames, loop, served, revoked, events, mainVars, centralVars>>

\* served_centrals, then set_enabled(false), under the bridge mutex.
ToggleOff ==
  /\ enabled /\ enabled' = FALSE
  /\ served' = served \union {mirror}
  /\ mirror' = {}
  /\ Post(<<Stop>>)
  /\ cut' = cut \union {c \in Central : link[c] # "away" \/ Requesting(c)}
  /\ UNCHANGED <<authorized, frames, loop, revoked, events, mainVars, link, rx, outrun, missed, spilt>>

EndServed(cs) ==
  /\ cs \in served /\ served' = served \ {cs}
  /\ authorized' = authorized \ cs
  /\ UNCHANGED <<enabled, mirror, frames, loop, revoked, events, posts, mainVars, centralVars>>

\* unpair and unpair_all: revoke under the pairing mutex ...
Unpair(cs) ==
  /\ cs # {} /\ cs \subseteq authorized
  /\ authorized' = authorized \ cs
  /\ revoked' = revoked \union {cs}
  /\ UNCHANGED <<enabled, mirror, frames, loop, served, events, posts, mainVars, centralVars>>

\* ... and drop the queues under the bridge mutex.
DropSessions(cs) ==
  /\ cs \in revoked /\ revoked' = revoked \ {cs}
  /\ Post(<<Revoke(cs)>>)
  /\ UNCHANGED <<enabled, mirror, authorized, frames, loop, served, events, mainVars, centralVars>>

\* Mutant: every subscriber is sent the snapshot.
TargetsUnfiltered == mirror

Targets == mirror \intersect authorized

\* One frame id for all, one frame for each: its bytes are sealed for it alone.
OnSnapshot ==
  /\ enabled /\ Targets # {}
  /\ frames < MaxFrames /\ frames' = frames + 1
  /\ Post([i \in 1 .. Cardinality(Targets) |-> OfferTo(SetToSeq(Targets)[i], frames + 1)])
  /\ UNCHANGED <<enabled, mirror, authorized, loop, served, revoked, events, mainVars, centralVars>>

-------------------------------------------------------------------------------
(* The event loop *)

At(where) == loop.at = where
Take(type) == At("idle") /\ events # <<>> /\ Head(events).type = type /\ events' = Tail(events)
GoTo(where, ids) == loop' = [at |-> where, ids |-> ids]

TakeSubscribed ==
  /\ Take("subscribed")
  /\ mirror' = mirror \union Head(events).ids
  /\ UNCHANGED <<enabled, authorized, frames, loop, served, revoked, posts, mainVars, centralVars>>

\* Mutant: the subscribers are read after they were cleared.
TakePoweredOffLate ==
  /\ Take("off")
  /\ mirror' = {}
  /\ GoTo("ending", {})
  /\ UNCHANGED <<enabled, authorized, frames, served, revoked, posts, mainVars, centralVars>>

\* sessions_to_end_before comes before apply_event clears the subscribers.
TakePoweredOff ==
  /\ Take("off")
  /\ mirror' = {}
  /\ GoTo("ending", mirror)
  /\ UNCHANGED <<enabled, authorized, frames, served, revoked, posts, mainVars, centralVars>>

TakeGone ==
  /\ Take("gone")
  /\ mirror' = mirror \ Head(events).ids
  /\ GoTo("leaving", Head(events).ids)
  /\ UNCHANGED <<enabled, authorized, frames, served, revoked, posts, mainVars, centralVars>>

EndSession ==
  /\ loop.at \in {"ending", "leaving"}
  /\ authorized' = authorized \ loop.ids
  /\ loop' = IF At("leaving") THEN [loop EXCEPT !.at = "forget"] ELSE Idle
  /\ UNCHANGED <<enabled, mirror, frames, served, revoked, events, posts, mainVars, centralVars>>

ForgetCentral ==
  /\ At("forget") /\ loop' = Idle
  /\ Post(<<Revoke(loop.ids)>>)
  /\ UNCHANGED <<enabled, mirror, authorized, frames, served, revoked, events, mainVars, centralVars>>

TakeAuthWrite ==
  /\ Take("auth")
  /\ GoTo("auth", Head(events).ids)
  /\ UNCHANGED <<enabled, mirror, authorized, frames, served, revoked, posts, mainVars, centralVars>>

\* The reply authorizes the central, or not; the switch is not looked at.
HandleAuth ==
  /\ At("auth") /\ loop' = Idle
  /\ authorized' \in {authorized, authorized \union loop.ids}
  /\ UNCHANGED <<enabled, mirror, frames, served, revoked, events, posts, mainVars, centralVars>>

Loop ==
  TakeSubscribed \/ TakePoweredOff \/ TakeGone \/ EndSession \/ ForgetCentral
  \/ TakeAuthWrite \/ HandleAuth

-------------------------------------------------------------------------------
(* The radio.  A refused chunk is at once tried again for all subscribers, and *)
(* may then be taken: `spills' are the chunks that go out in this way.        *)

OnAir(c, chunk) ==
  [id |-> chunk.frame, idx |-> chunk.idx, count |-> Chunks,
   of |-> [to |-> c, frame |-> chunk.frame, part |-> chunk.idx]]

\* What d puts together if nothing goes wrong.
WholeFrame(d, f) == {[to |-> d, frame |-> f, part |-> i] : i \in 0 .. Chunks - 1}

\* Central d hears a chunk.
Hear(d, r, chunk) ==
  LET asm == Push(r.asm, chunk)
      gaveUp == chunk.idx = 0 /\ r.asm.expected > 0 /\ r.asm.id # missed[d]
  IN
  IF ~Complete(asm) THEN [r EXCEPT !.asm = asm, !.lost = @ \/ gaveUp]
  ELSE [asm  |-> Taken(asm),
        last |-> asm.id,
        torn |-> r.torn \/ asm.from # WholeFrame(d, asm.id) \/ asm.id <= r.last,
        lost |-> r.lost \/ gaveUp]

Hears(d) == link[d] = "both"
Others(c) == {d \in Central \ {c} : Hears(d)}

QueueAhead(q, c) == IF q[c] = NoQueue THEN <<>> ELSE Ahead(q[c])

\* What d hears when n chunks of c's queue go out.
Stream(q, c, d, n, spills) ==
  LET out == [i \in 1 .. n |-> OnAir(c, QueueAhead(q, c)[i])] IN
  IF d = c THEN out
  ELSE [i \in 1 .. Cardinality(spills) |-> out[SetToSortSeq(spills, <)[i]]]

\* What d has heard once n[c] chunks of the queue of each c of cs went out.
Heard(d, q, cs, n, spills) ==
  LET order == SetToSeq(cs)
      stream == FlattenSeq([i \in 1 .. Len(order) |->
                  Stream(q, order[i], d, n[order[i]], spills[order[i]])])
  IN  IF Hears(d) THEN FoldLeft(LAMBDA r, chunk : Hear(d, r, chunk), rx[d], stream) ELSE rx[d]

\* pump for each of cs, on the queues q: n[c] chunks are taken and, unless the
\* queue is empty then, one is refused.
PumpAll(q, cs, n, spills, wasOwed) ==
  /\ \A c \in cs :
       /\ n[c] <= Len(QueueAhead(q, c))
       /\ spills[c] \subseteq 1 .. n[c]
       /\ Others(c) = {} => spills[c] = {}      \* then it makes no difference
  /\ queue' = [c \in Central |-> IF c \in cs /\ q[c] # NoQueue THEN Pumped(q[c], n[c]) ELSE q[c]]
  /\ owed' = (wasOwed \/ \E c \in cs : n[c] < Len(QueueAhead(q, c)) \/ spills[c] # {})
  /\ rx' = [d \in Central |-> Heard(d, q, cs, n, spills)]
  /\ spilt' = (spilt \/ \E c \in cs : spills[c] # {})

Takes(cs) == [cs -> 0 .. 2 * Chunks]
Spills(cs) == [cs -> SUBSET (1 .. 2 * Chunks)]

-------------------------------------------------------------------------------
(* The main thread: closures *)

Run(type) == posts # <<>> /\ Head(posts).type = type /\ posts' = Tail(posts)

\* enqueue makes a queue only for a subscriber.
Enqueued(c, f) ==
  IF c \in subs
  THEN [queue EXCEPT ![c] = Offer(IF queue[c] = NoQueue THEN Empty ELSE queue[c], f)]
  ELSE queue

OfferFrame ==
  /\ Run("offer")
  /\ \E c \in Head(posts).ids :
       LET q == Enqueued(c, Head(posts).frame) IN
       IF c \in subs
       THEN \E n \in Takes({c}), spills \in Spills({c}) : PumpAll(q, {c}, n, spills, owed)
       ELSE queue' = q /\ UNCHANGED <<owed, rx, spilt>>
  /\ UNCHANGED <<runtimeVars, events, power, published, subs, link, cut, outrun, missed>>

\* The frame of which c was sent a part.
UnderWay(c) ==
  IF queue[c] # NoQueue /\ Started(queue[c]) THEN queue[c].current ELSE missed[c]

DropQueues(cs) == [c \in Central |-> IF c \in cs THEN NoQueue ELSE queue[c]]

RevokeTargets ==
  /\ Run("revoke")
  /\ queue' = DropQueues(Head(posts).ids)
  /\ missed' = [c \in Central |-> IF c \in Head(posts).ids THEN UnderWay(c) ELSE missed[c]]
  /\ UNCHANGED <<runtimeVars, events, power, published, subs, owed, link, rx, cut, outrun, spilt>>

StartService ==
  /\ Run("start")
  /\ published' = power
  /\ UNCHANGED <<runtimeVars, events, power, subs, queue, owed, centralVars>>

\* The service is taken down; of whom the callback still tells is up to the system.
StopService ==
  /\ Run("stop")
  /\ published' = FALSE /\ owed' = FALSE
  /\ queue' = DropQueues(Central)
  /\ LinksEnd(Central)
  /\ cut' = cut \union {c \in Central : link[c] # "away"}
  /\ \E cs \in SUBSET {c \in Central : link[c] # "away"} :
       Report([i \in 1 .. Cardinality(cs) |-> Gone(SetToSeq(cs)[i])])
  /\ UNCHANGED <<runtimeVars, power, spilt>>

(* The main thread: callbacks *)

SubscribeAuth(c) ==
  /\ published /\ link[c] = "away"
  /\ link' = [link EXCEPT ![c] = "auth"]
  /\ cut' = cut \ {c}
  /\ outrun' = IF Ending(c) \/ c \in UNION served \/ Leftover(c) THEN outrun \union {c} ELSE outrun
  /\ subs' = subs \union {c}
  /\ Report(<<Subscribed(c)>>)
  /\ UNCHANGED <<runtimeVars, posts, power, published, queue, owed, rx, missed, spilt>>

SubscribeSnapshot(c) ==
  /\ published /\ link[c] = "auth"
  /\ link' = [link EXCEPT ![c] = "both"]
  /\ subs' = subs \union {c}
  /\ missed' = [missed EXCEPT ![c] = UnderWay(c)]
  /\ Report(<<Subscribed(c)>>)
  /\ UNCHANGED <<runtimeVars, posts, power, published, queue, owed, rx, cut, outrun, spilt>>

\* Mutant: the queue of a central that left is kept.
UnsubscribeKeepingQueue(c) ==
  /\ link[c] # "away"
  /\ LinksEnd({c})
  /\ Report(<<Gone(c)>>)
  /\ UNCHANGED <<runtimeVars, posts, power, published, queue, owed, cut, spilt>>

\* The link is lost: the callback comes for each characteristic, the second one
\* changes nothing more.
Unsubscribe(c) ==
  /\ link[c] # "away"
  /\ LinksEnd({c})
  /\ queue' = DropQueues({c})
  /\ Report(<<Gone(c)>>)
  /\ UNCHANGED <<runtimeVars, posts, power, published, owed, cut, spilt>>

WriteAuth(c) ==
  /\ link[c] # "away"
  /\ Report(<<AuthWrite(c)>>)
  /\ UNCHANGED <<runtimeVars, posts, mainVars, centralVars>>

\* No link tells that it is lost.
PowerOff ==
  /\ power /\ power' = FALSE
  /\ published' = FALSE /\ owed' = FALSE
  /\ queue' = DropQueues(Central)
  /\ LinksEnd(Central)
  /\ Report(<<PoweredOff>>)
  /\ UNCHANGED <<runtimeVars, posts, cut, spilt>>

\* The service comes back only if sharing is wanted.
PowerOn ==
  /\ ~power /\ power' = TRUE
  /\ published' = enabled
  /\ UNCHANGED <<runtimeVars, events, posts, subs, queue, owed, centralVars>>

\* Mutant: the radio is ready again, but no queue hears of it.
ReadyUnheard(n, spills) ==
  /\ owed
  /\ UNCHANGED <<runtimeVars, events, posts, power, published, subs, link, cut, outrun, missed>>
  /\ PumpAll(queue, Central, n, spills, FALSE)

Ready(n, spills) ==
  /\ owed
  /\ UNCHANGED <<runtimeVars, events, posts, power, published, subs, link, cut, outrun, missed>>
  /\ PumpAll([c \in Central |-> IF queue[c] = NoQueue THEN NoQueue ELSE OnReady(queue[c])],
             Central, n, spills, FALSE)

-------------------------------------------------------------------------------
Closures == OfferFrame \/ RevokeTargets \/ StartService \/ StopService

RadioReady == \E n \in Takes(Central), spills \in Spills(Central) : Ready(n, spills)

Next ==
  \/ ToggleOn \/ ToggleOff \/ OnSnapshot
  \/ \E cs \in served : EndServed(cs)
  \/ \E cs \in SUBSET authorized : Unpair(cs)
  \/ \E cs \in revoked : DropSessions(cs)
  \/ Loop \/ Closures
  \/ \E c \in Central : SubscribeAuth(c) \/ SubscribeSnapshot(c) \/ Unsubscribe(c) \/ WriteAuth(c)
  \/ PowerOff \/ PowerOn \/ RadioReady

Spec == Init /\ [][Next]_vars

-------------------------------------------------------------------------------
(* Properties *)

Frame == 1 .. MaxFrames

Moments == [at : {"idle", "ending", "leaving", "forget", "auth"}, ids : SUBSET Central]

Reports == [type : {"subscribed", "gone", "off", "auth"}, ids : SUBSET Central]

Tasks == [type : {"offer"}, ids : SUBSET Central, frame : Frame]
         \union [type : {"revoke", "start", "stop"}, ids : SUBSET Central, frame : {Absent}]

\* Every variable keeps to its range; a queue never holds more than two frames
\* nor an older frame behind a newer one.
TypeOK ==
  /\ enabled \in BOOLEAN /\ mirror \subseteq Central /\ authorized \subseteq Central
  /\ frames \in 0 .. MaxFrames /\ loop \in Moments
  /\ served \subseteq SUBSET Central /\ revoked \subseteq SUBSET Central
  /\ events \in Seq(Reports) /\ posts \in Seq(Tasks)
  /\ power \in BOOLEAN /\ published \in BOOLEAN /\ subs \subseteq Central /\ owed \in BOOLEAN
  /\ \A c \in Central :
       \/ queue[c] = NoQueue
       \/ /\ queue[c] \in Queues(Frame)
          /\ queue[c].next # Absent => queue[c].next > queue[c].current
  /\ link \in [Central -> {"away", "auth", "both"}]
  /\ \A c \in Central : rx[c].last \in 0 .. MaxFrames
  /\ outrun \subseteq Central /\ cut \subseteq Central /\ spilt \in BOOLEAN
  /\ missed \in [Central -> Frame \union {Absent}]

\* Whatever a device puts together from the chunks it hears is one frame made for
\* it, whole, and newer than the one before: SendQueue.offer and pump never mix two
\* frames or send an older one later (send_queue.rs:25-59, framing.rs:65-104).  Nor
\* does one break off, but for the frame under way when the device subscribed or was
\* dropped: a refusal loses no chunk, and what was started is sent to its end
\* (send_queue.rs:3-8).  Not promised once a chunk was repeated for all subscribers.
FramesAreWhole ==
  ~spilt => \A c \in Central :
    /\ ~rx[c].torn /\ ~rx[c].lost
    /\ rx[c].asm.aborted => rx[c].asm.id = missed[c]

\* The queue of c is about to be dropped.
Dropping(c) ==
  \/ \E cs \in served \union revoked : c \in cs
  \/ At("forget") /\ c \in loop.ids
  \/ \E i \in DOMAIN posts : posts[i] = Stop \/ (posts[i].type = "revoke" /\ c \in posts[i].ids)

\* "That there is a queue means that this central may be sent to" (macos.rs:82-85):
\* it belongs to a subscriber, and to an authorized one but for the moment in which a
\* drop is under way.  Not so for a central that came back before the end of its last
\* link was dealt with, which then takes the new session's authorization, or before a
\* frame offered to that link was put into a queue.
QueueIsAuthorized ==
  \A c \in Central \ outrun : queue[c] # NoQueue => c \in subs /\ (c \in authorized \/ Dropping(c))

\* An authorization lasts as long as the link, whichever way that is lost, power
\* included (lib.rs:1384-1397, 1431-1435); what is left behind is left by a switch-off:
\* of a central that had a link or a request waiting at that moment, or that subscribed
\* before the main thread came to the stop (lib.rs:121-128, macos.rs:498-524).
GhostOnlyFromSwitch ==
  \A c \in authorized \ cut :
    \/ link[c] # "away"
    \/ Ending(c)
    \/ \E cs \in served : c \in cs

\* "Only authorized centrals are notified", for what is offered names its one receiver
\* (peripheral.rs:64-66): no device hears a chunk of a frame made for another.
OwnChunksOnly == \A c \in Central : \A o \in rx[c].asm.from : o.to = c

\* No queue is forgotten: whenever chunks are left in one, it is because the radio
\* refused, and the radio still owes the call that goes on with it (macos.rs:330-339);
\* stopping, losing power and coming back leave none paused for ever.
WaitingIsOwed ==
  \A c \in Central :
    queue[c] \notin {NoQueue, Empty} => queue[c].paused /\ owed
=============================================================================
