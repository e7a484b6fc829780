------------------------------ MODULE LanServer -------------------------------
(***************************************************************************)
(* The LAN mirror server (lan/server.rs): listener tasks, one per time the *)
(* toggle was switched on, the connection tasks they accept, the pump that *)
(* moves the bridge's messages to the connections, and the event channel   *)
(* all of them write to.  Lan.tla adds the bridge at the other end.        *)
(*                                                                         *)
(* A connection is named once and for all (next_central_id), so Conn is    *)
(* the set of connections of the whole run.  Frame contents are left out:  *)
(* a queue holds "data" (a reply, a mirror frame, a ping) or "close".      *)
(***************************************************************************)
EXTENDS Naturals, Sequences, FiniteSets

CONSTANTS Conn,
          MaxGen,       \* bound: listeners started
          MaxSlots,     \* MAX_CONNECTIONS
          EventQueue,   \* EVENT_QUEUE
          SinkQueue,    \* SINK_QUEUE
          MaxOut        \* bound: messages waiting for the pump when a frame comes or is handled

ASSUME LanAssumption ==
  /\ MaxGen \in Nat \ {0} /\ MaxSlots \in Nat \ {0}
  /\ EventQueue \in Nat \ {0} /\ SinkQueue \in Nat \ {0} /\ MaxOut \in Nat \ {0}

Gen == 1 .. MaxGen

VARIABLES
  events,     \* the channel to the event loop
  listener,   \* generation -> where its task is
  stopped,    \* generations whose handle was stopped or dropped
  outbound,   \* generation -> messages from the bridge
  phase,      \* connection -> where its task is
  home,       \* connection -> generation of its listener
  sinks,      \* connections registered in Sinks
  queue,      \* connection -> its send queue
  writer,     \* connection -> its writer task
  flag,       \* connection -> Conn.authorized
  lifted      \* connection -> deadline_lifted

listeners == <<listener, outbound>>
sending == <<sinks, queue, writer, flag>>
conns == <<phase, home, sending, lifted>>
serverVars == <<events, listener, stopped, outbound, conns>>

Connected(c) == [type |-> "connected", id |-> c]
Disconnected(c) == [type |-> "disconnected", id |-> c]
Frame(c) == [type |-> "frame", id |-> c]
Listening(g) == [type |-> "listening", gen |-> g]
BindFailed(g) == [type |-> "bind_failed", gen |-> g]
AdvertiseFailed(g) == [type |-> "advertise_failed", gen |-> g]
Event == (UNION {{Connected(c), Disconnected(c), Frame(c)} : c \in Conn})
         \union (UNION {{Listening(g), BindFailed(g), AdvertiseFailed(g)} : g \in Gen})

Message == [to : Conn, kind : {"data", "close", "authorized"}]

\* `events.send(..).await` waits for room, try_send does not.
Room == Len(events) < EventQueue
Raise(e) == Room /\ events' = Append(events, e)

ServerInit ==
  /\ events = <<>>
  /\ listener = [g \in Gen |-> "none"]
  /\ stopped = {}
  /\ outbound = [g \in Gen |-> <<>>]
  /\ phase = [c \in Conn |-> "unborn"]
  /\ home = [c \in Conn |-> 1]
  /\ sinks = {}
  /\ queue = [c \in Conn |-> <<>>]
  /\ writer = [c \in Conn |-> "running"]
  /\ flag = [c \in Conn |-> FALSE]
  /\ lifted = [c \in Conn |-> FALSE]

-------------------------------------------------------------------------------
(* The listener task: run *)

ListenerAt(g, from, to) == listener[g] = from /\ listener' = [listener EXCEPT ![g] = to]

Bound(g) == listener[g] \in {"bound", "serving"}

\* What a listener waits for before it binds, but for PREVIOUS_LISTENER_GRACE
\* at most: that may run out at any time, so this is no guard of Bind.
PreviousEnded(g) == \A h \in Gen : h + 1 = g => listener[h] = "done"

\* The port may be held by another program, or still by the listener before.
Bind(g) ==
  /\ \/ (\A h \in Gen : ~Bound(h)) /\ ListenerAt(g, "waiting", "bound")
     \/ ListenerAt(g, "waiting", "failing")
  /\ UNCHANGED <<events, stopped, outbound, conns>>

ReportBindFailed(g) ==
  /\ ListenerAt(g, "failing", "done")
  /\ Raise(BindFailed(g))
  /\ UNCHANGED <<stopped, outbound, conns>>

\* Mutant: the notice is offered like those of the daemon, not sent.
OfferListening(g) ==
  /\ ListenerAt(g, "bound", "serving")
  /\ Raise(Listening(g)) \/ (~Room /\ UNCHANGED events)
  /\ UNCHANGED <<stopped, outbound, conns>>

ReportListening(g) ==
  /\ ListenerAt(g, "bound", "serving")
  /\ Raise(Listening(g))
  /\ UNCHANGED <<stopped, outbound, conns>>

\* Leaving the accept loop closes the socket and aborts the pump.
StopServing(g) ==
  /\ g \in stopped
  /\ ListenerAt(g, "serving", "done")
  /\ outbound' = [outbound EXCEPT ![g] = <<>>]
  /\ UNCHANGED <<events, stopped, conns>>

\* push_to_sink: a queue that is full loses its place in Sinks.
Push(c, kind) ==
  \/ /\ c \in sinks /\ Len(queue[c]) < SinkQueue
     /\ queue' = [queue EXCEPT ![c] = Append(@, kind)]
     /\ UNCHANGED sinks
  \/ /\ c \in sinks /\ Len(queue[c]) = SinkQueue
     /\ sinks' = sinks \ {c}
     /\ UNCHANGED queue
  \/ /\ c \notin sinks
     /\ UNCHANGED <<sinks, queue>>

Pump(g) ==
  /\ listener[g] = "serving" /\ outbound[g] # <<>>
  /\ outbound' = [outbound EXCEPT ![g] = Tail(@)]
  /\ LET m == Head(outbound[g]) IN
       \/ /\ m.kind # "authorized" /\ Push(m.to, m.kind)
          /\ UNCHANGED flag
       \/ /\ m.kind = "authorized"
          /\ flag' = [flag EXCEPT ![m.to] = @ \/ m.to \in sinks]
          /\ UNCHANGED <<sinks, queue>>
  /\ UNCHANGED <<events, listener, stopped, phase, home, writer, lifted>>

\* The mDNS daemon reports a failure with try_send, which a full channel loses.
DaemonFails(g) ==
  /\ listener[g] = "serving"
  /\ Raise(AdvertiseFailed(g))
  /\ UNCHANGED <<listeners, stopped, conns>>

-------------------------------------------------------------------------------
(* The connection task: upgrade and handle *)

ConnAt(c, from, to) == phase[c] = from /\ phase' = [phase EXCEPT ![c] = to]

Held(g, phases) == Cardinality({c \in Conn : home[c] = g /\ phase[c] \in phases})

Accept(c, g) ==
  /\ listener[g] = "serving"
  /\ Held(g, {"http"}) < MaxSlots
  /\ ConnAt(c, "unborn", "http")
  /\ home' = [home EXCEPT ![c] = g]
  /\ UNCHANGED <<events, listeners, stopped, sending, lifted>>

\* Mutant: the number of live connections is not looked at.
UpgradeUnbounded(c) ==
  /\ ConnAt(c, "http", "upgrading")
  /\ UNCHANGED <<events, listeners, stopped, home, sending, lifted>>

\* upgrade takes a slot or refuses; a header that is late is cut off.
Upgrade(c) ==
  /\ \/ Held(home[c], {"upgrading", "announcing", "open", "leaving"}) < MaxSlots
        /\ ConnAt(c, "http", "upgrading")
     \/ ConnAt(c, "http", "gone")
  /\ UNCHANGED <<events, listeners, stopped, home, sending, lifted>>

UpgradeFails(c) ==
  /\ ConnAt(c, "upgrading", "gone")
  /\ UNCHANGED <<events, listeners, stopped, home, sending, lifted>>

Register(c) ==
  /\ ConnAt(c, "upgrading", "announcing")
  /\ sinks' = sinks \union {c}
  /\ UNCHANGED <<events, listeners, stopped, home, queue, writer, flag, lifted>>

Announce(c) ==
  /\ ConnAt(c, "announcing", "open")
  /\ Raise(Connected(c))
  /\ UNCHANGED <<listeners, stopped, home, sending, lifted>>

\* Every way out of the loop of `handle`; what the task owned goes with it.
Leave(c) ==
  /\ ConnAt(c, "open", "leaving")
  /\ sinks' = sinks \ {c}
  /\ queue' = [queue EXCEPT ![c] = <<>>]
  /\ writer' = [writer EXCEPT ![c] = "running"]
  /\ flag' = [flag EXCEPT ![c] = FALSE]
  /\ lifted' = [lifted EXCEPT ![c] = FALSE]

Text(c) ==
  /\ phase[c] = "open" /\ \A g \in Gen : Len(outbound[g]) < MaxOut
  /\ \/ Raise(Frame(c)) /\ UNCHANGED <<phase, sending, lifted>>
     \/ ~Room /\ Leave(c) /\ UNCHANGED events
  /\ UNCHANGED <<listeners, stopped, home>>

\* The peer closes, errs or has been silent for IDLE_TIMEOUT.
PeerEnds(c) ==
  /\ Leave(c)
  /\ UNCHANGED <<events, listeners, stopped, home>>

PingTick(c) ==
  /\ phase[c] = "open"
  /\ \/ /\ c \in sinks /\ Len(queue[c]) < SinkQueue
        /\ Push(c, "data")
        /\ UNCHANGED <<phase, writer, flag, lifted>>
     \/ (c \notin sinks \/ Len(queue[c]) = SinkQueue) /\ Leave(c)
  /\ UNCHANGED <<events, listeners, stopped, home>>

\* The writer task.  Nothing can be written after a close frame.  It ends on
\* an error, or when its queue is empty and no longer registered.
WriterSends(c) ==
  /\ phase[c] = "open" /\ queue[c] # <<>> /\ writer[c] # "ended"
  /\ queue' = [queue EXCEPT ![c] = Tail(@)]
  /\ writer' = [writer EXCEPT ![c] = IF @ = "closed" THEN "ended"
                                     ELSE IF Head(queue[c]) = "close" THEN "closed" ELSE @]
  /\ UNCHANGED <<events, listeners, stopped, phase, home, sinks, flag, lifted>>

WriterEnds(c) ==
  /\ phase[c] = "open" /\ writer[c] # "ended"
  /\ c \notin sinks /\ queue[c] = <<>>
  /\ writer' = [writer EXCEPT ![c] = "ended"]
  /\ UNCHANGED <<events, listeners, stopped, phase, home, sinks, queue, flag, lifted>>

WriterEnded(c) ==
  /\ writer[c] = "ended"
  /\ Leave(c)
  /\ UNCHANGED <<events, listeners, stopped, home>>

\* Mutant: the deadline counts from the last message and never comes.
DeadlineExtended(c) == FALSE /\ UNCHANGED serverVars

\* AUTH_DEADLINE has passed.
Deadline(c) ==
  /\ phase[c] = "open" /\ ~lifted[c]
  /\ \/ flag[c] /\ lifted' = [lifted EXCEPT ![c] = TRUE] /\ UNCHANGED <<phase, sending>>
     \/ ~flag[c] /\ Leave(c)
  /\ UNCHANGED <<events, listeners, stopped, home>>

Shutdown(c) ==
  /\ home[c] \in stopped
  /\ Leave(c)
  /\ UNCHANGED <<events, listeners, stopped, home>>

\* The slot is returned once the event loop is told.
Report(c) ==
  /\ ConnAt(c, "leaving", "gone")
  /\ Raise(Disconnected(c))
  /\ UNCHANGED <<listeners, stopped, home, sending, lifted>>

-------------------------------------------------------------------------------
\* What the tasks do by themselves, and what peers and other programs do.
Tasks ==
  \/ \E g \in Gen : Bind(g) \/ ReportBindFailed(g) \/ ReportListening(g) \/ StopServing(g) \/ Pump(g)
  \/ \E c \in Conn : \/ Register(c) \/ Announce(c) \/ PingTick(c) \/ WriterEnds(c)
                     \/ WriterEnded(c) \/ Deadline(c) \/ Shutdown(c) \/ Report(c)

Peers ==
  \/ \E g \in Gen : DaemonFails(g)
  \/ \E c \in Conn : \/ Upgrade(c) \/ UpgradeFails(c) \/ Text(c) \/ PeerEnds(c) \/ WriterSends(c)
                     \/ \E g \in Gen : Accept(c, g)

ServerTypeOK ==
  /\ events \in Seq(Event) /\ Len(events) <= EventQueue
  /\ listener \in [Gen -> {"none", "waiting", "failing", "bound", "serving", "done"}]
  /\ stopped \subseteq Gen
  /\ outbound \in [Gen -> Seq(Message)]
  /\ phase \in [Conn -> {"unborn", "http", "upgrading", "announcing", "open", "leaving", "gone"}]
  /\ home \in [Conn -> Gen]
  /\ sinks \subseteq {c \in Conn : phase[c] \in {"announcing", "open"}}
  /\ \A c \in Conn : queue[c] \in Seq({"data", "close"}) /\ Len(queue[c]) <= SinkQueue
  /\ writer \in [Conn -> {"running", "closed", "ended"}]
  /\ flag \in [Conn -> BOOLEAN] /\ lifted \in [Conn -> BOOLEAN]
  /\ Cardinality({g \in Gen : Bound(g)}) <= 1
  /\ \A g \in Gen : Held(g, {"upgrading", "announcing", "open", "leaving"}) <= MaxSlots
=============================================================================
