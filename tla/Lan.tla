--------------------------------- MODULE Lan ----------------------------------
(***************************************************************************)
(* The LAN transport: LanBridge (lan/mod.rs) and the tasks of lib.rs that  *)
(* drive it, on top of the server of LanServer.tla.                        *)
(*                                                                         *)
(* The bridge has a mutex, the shared PairingManager another.  A step here *)
(* is what one task does under its locks; between two steps of one task    *)
(* the others run.  The tasks are the event loop and the commands          *)
(* lan_set_enabled and unpair, any number of which may be under way.  Of   *)
(* the PairingManager only the authorized LAN sessions matter here         *)
(* (Pairing.tla is about how one gets there).  The tick sends to them and  *)
(* changes none of this; it is left out.                                   *)
(***************************************************************************)
EXTENDS LanServer, SequencesExt

VARIABLES
  enabled, centrals, server, generation, advertising,
  lastError,   \* the panel shows an error
  authorized,  \* PairingManager.authorized
  loop,        \* event loop: where it is, and the connection it is about
  served,      \* lan_set_enabled(false) under way: the sessions each will end
  revoked,     \* unpair under way: the sessions each will drop
  dropped      \* history: connections drop_sessions has closed

bridge == <<enabled, centrals, server, generation, advertising, lastError>>
commands == <<served, revoked, dropped>>
vars == <<serverVars, bridge, authorized, loop, commands>>

NoServer == 0

Init ==
  /\ ServerInit
  /\ enabled = FALSE /\ centrals = {} /\ server = NoServer /\ generation = 0
  /\ advertising = FALSE /\ lastError = FALSE
  /\ authorized = {}
  /\ loop = [at |-> "idle"]
  /\ served = {} /\ revoked = {} /\ dropped = {}

\* A send on the handle's channel: nothing without a handle.
Send(messages) ==
  outbound' = IF server = NoServer THEN outbound
              ELSE [outbound EXCEPT ![server] = @ \o messages]
ToAll(cs, kind) == SetToSeq({[to |-> c, kind |-> kind] : c \in cs})

-------------------------------------------------------------------------------
(* lan_set_enabled *)

ToggleOn ==
  /\ ~enabled /\ generation < MaxGen
  /\ enabled' = TRUE
  /\ lastError' = FALSE
  /\ generation' = generation + 1
  /\ server' = generation + 1
  /\ ListenerAt(generation + 1, "none", "waiting")
  /\ UNCHANGED <<events, stopped, outbound, conns,
                 centrals, advertising, authorized, loop, commands>>

\* The served connections are read before the list is cleared.  With a switch
\* that is off already nothing else happens.
ToggleOff ==
  /\ enabled \/ centrals # {}
  /\ served' = served \union ({centrals} \ {{}})
  /\ enabled' = FALSE
  /\ IF ~enabled THEN UNCHANGED <<centrals, lastError, advertising, stopped, server>>
     ELSE /\ centrals' = {} /\ lastError' = FALSE /\ advertising' = FALSE
          /\ stopped' = stopped \union ({server} \ {NoServer})
          /\ server' = NoServer
  /\ UNCHANGED <<events, listeners, conns, generation, authorized, loop,
                 revoked, dropped>>

EndServed(cs) ==
  /\ cs \in served
  /\ served' = served \ {cs}
  /\ authorized' = authorized \ cs
  /\ UNCHANGED <<serverVars, bridge, loop, revoked, dropped>>

-------------------------------------------------------------------------------
(* unpair and unpair_all: revoke, then persist_and_drop *)

Revoke(cs) ==
  /\ cs # {} /\ cs \subseteq authorized
  /\ authorized' = authorized \ cs
  /\ revoked' = revoked \union {cs}
  /\ UNCHANGED <<serverVars, bridge, loop, served, dropped>>

\* Mutant: the connection is forgotten but not closed.
ForgetSessions(cs) ==
  /\ cs \in revoked
  /\ revoked' = revoked \ {cs}
  /\ centrals' = centrals \ cs
  /\ dropped' = dropped \union (cs \intersect centrals)
  /\ UNCHANGED <<serverVars, enabled, server, generation, advertising, lastError,
                 authorized, loop, served>>

DropSessions(cs) ==
  /\ cs \in revoked
  /\ revoked' = revoked \ {cs}
  /\ centrals' = centrals \ cs
  /\ dropped' = dropped \union (cs \intersect centrals)
  /\ Send(ToAll(cs \intersect centrals, "close"))
  /\ UNCHANGED <<events, listener, stopped, conns, enabled, server, generation,
                 advertising, lastError, authorized, loop, served>>

-------------------------------------------------------------------------------
(* The event loop *)

\* Mutant: the notice of an older listener is believed.
CurrentOrOlder(g) == server # NoServer

Serves(c) == enabled /\ c \in centrals
Current(g) == server = g

Take(type) ==
  /\ loop.at = "idle" /\ events # <<>> /\ Head(events).type = type
  /\ events' = Tail(events)
  /\ UNCHANGED <<listener, outbound, conns, enabled, generation,
                 authorized, commands>>

TakeConnected ==
  /\ Take("connected")
  /\ centrals' = centrals \union {Head(events).id}
  /\ UNCHANGED <<stopped, server, advertising, lastError, loop>>

\* Mutant: the ending sessions are asked for after the event was applied.
TakeDisconnectedLate ==
  /\ Take("disconnected")
  /\ centrals' = centrals \ {Head(events).id}
  /\ UNCHANGED <<stopped, server, advertising, lastError, loop>>

\* sessions_to_end before apply_event.
TakeDisconnected ==
  /\ Take("disconnected")
  /\ LET c == Head(events).id IN
       /\ centrals' = centrals \ {c}
       /\ loop' = IF c \in centrals THEN [at |-> "ending", id |-> c] ELSE loop
  /\ UNCHANGED <<stopped, server, advertising, lastError>>

EndSession ==
  /\ loop.at = "ending"
  /\ authorized' = authorized \ {loop.id}
  /\ loop' = [at |-> "idle"]
  /\ UNCHANGED <<serverVars, bridge, commands>>

\* advertise(true): the daemon may not start.
TakeListening ==
  /\ Take("listening")
  /\ \/ /\ Current(Head(events).gen)
        /\ \/ advertising' = TRUE /\ UNCHANGED lastError
           \/ ~advertising /\ lastError' = TRUE /\ UNCHANGED advertising
     \/ ~Current(Head(events).gen) /\ UNCHANGED <<advertising, lastError>>
  /\ UNCHANGED <<stopped, centrals, server, loop>>

TakeAdvertiseFailed ==
  /\ Take("advertise_failed")
  /\ lastError' = (lastError \/ Current(Head(events).gen))
  /\ UNCHANGED <<stopped, centrals, server, advertising, loop>>

\* Dropping the handle ends its watch channel, which the tasks take for a stop.
TakeBindFailed ==
  /\ Take("bind_failed")
  /\ \/ /\ Current(Head(events).gen)
        /\ lastError' = TRUE
        /\ stopped' = stopped \union {server}
        /\ server' = NoServer
        /\ advertising' = FALSE
     \/ ~Current(Head(events).gen) /\ UNCHANGED <<lastError, stopped, server, advertising>>
  /\ UNCHANGED <<centrals, loop>>

TakeFrame ==
  /\ Take("frame")
  /\ server # NoServer /\ listener[server] = "serving" => Len(outbound[server]) < MaxOut
  /\ loop' = [at |-> "auth", id |-> Head(events).id]
  /\ UNCHANGED <<stopped, centrals, server, advertising, lastError>>

\* Mutant: every frame is handed to the pairing manager.
HandleAuthOfAnyone ==
  /\ loop.at = "auth"
  /\ \/ authorized' = authorized \union {loop.id} /\ loop' = [loop EXCEPT !.at = "reply_authorized"]
     \/ loop' = [loop EXCEPT !.at = "reply"] /\ UNCHANGED authorized
  /\ UNCHANGED <<serverVars, bridge, commands>>

\* handle_auth: a served connection's frame goes to PairingManager.handle.
HandleAuth ==
  /\ loop.at = "auth" /\ Serves(loop.id)
  /\ \/ /\ authorized' = authorized \union {loop.id}
        /\ loop' = [loop EXCEPT !.at = "reply_authorized"]
     \/ /\ loop' = [loop EXCEPT !.at = "reply"]
        /\ UNCHANGED <<authorized>>
  /\ UNCHANGED <<serverVars, bridge, commands>>

IgnoreFrame ==
  /\ loop.at = "auth" /\ ~Serves(loop.id)
  /\ loop' = [at |-> "idle"]
  /\ UNCHANGED <<serverVars, bridge, authorized, commands>>

\* Mutant: the server is not told that the connection is authorized.
SendReplyOnly ==
  /\ loop.at \in {"reply", "reply_authorized"}
  /\ Send(<<[to |-> loop.id, kind |-> "data"]>>)
  /\ loop' \in {[loop EXCEPT !.at = "save"], [at |-> "idle"]}
  /\ UNCHANGED <<events, listener, stopped, conns, bridge, authorized, commands>>

SendAuthReply ==
  /\ loop.at \in {"reply", "reply_authorized"}
  /\ Send(<<[to |-> loop.id, kind |-> "data"]>>)
  /\ loop' = IF loop.at = "reply" THEN [at |-> "idle"] ELSE [loop EXCEPT !.at = "mark"]
  /\ UNCHANGED <<events, listener, stopped, conns, bridge, authorized, commands>>

MarkAuthorized ==
  /\ loop.at = "mark"
  /\ Send(<<[to |-> loop.id, kind |-> "authorized"]>>)
  /\ loop' \in {[loop EXCEPT !.at = "save"], [at |-> "idle"]}
  /\ UNCHANGED <<events, listener, stopped, conns, bridge, authorized, commands>>

\* A grant is saved (PeerStore.tla); an error goes to the panel.
SaveGrant ==
  /\ loop.at = "save"
  /\ lastError' \in {lastError, TRUE}
  /\ loop' = [at |-> "idle"]
  /\ UNCHANGED <<serverVars, enabled, centrals, server, generation, advertising,
                 authorized, commands>>

-------------------------------------------------------------------------------
EventLoop ==
  \/ TakeConnected \/ TakeDisconnected \/ TakeListening \/ TakeAdvertiseFailed
  \/ TakeBindFailed \/ TakeFrame
  \/ EndSession \/ HandleAuth \/ IgnoreFrame \/ SendAuthReply \/ MarkAuthorized \/ SaveGrant

Commands ==
  \/ \E cs \in served : EndServed(cs)
  \/ \E cs \in revoked : DropSessions(cs)

User == ToggleOn \/ ToggleOff \/ \E cs \in SUBSET authorized : Revoke(cs)

Server == (Tasks \/ Peers) /\ UNCHANGED <<bridge, authorized, loop, commands>>

Next == Server \/ EventLoop \/ Commands \/ User

Spec == Init /\ [][Next]_vars

\* The runtime runs every task that can go on.  Nobody has to connect, speak,
\* read, or touch a switch, and a listener need not lose patience with the one
\* before it.
Own(A) == A /\ UNCHANGED <<bridge, authorized, loop, commands>>
Fairness ==
  /\ WF_vars(EventLoop)
  /\ \A cs \in SUBSET Conn : WF_vars(EndServed(cs)) /\ WF_vars(DropSessions(cs))
  /\ \A g \in Gen : /\ WF_vars(Own(PreviousEnded(g) /\ Bind(g)))
                    /\ WF_vars(Own(ReportBindFailed(g) \/ ReportListening(g) \/ StopServing(g)))
                    /\ WF_vars(Own(Pump(g)))
  /\ \A c \in Conn : /\ SF_vars(Own(Register(c) \/ Announce(c)))
                     /\ SF_vars(Own(Report(c)))
                     /\ WF_vars(Own(PingTick(c))) /\ WF_vars(Own(Deadline(c)))
                     /\ WF_vars(Own(WriterEnds(c))) /\ WF_vars(Own(WriterEnded(c)))
                     /\ WF_vars(Own(Shutdown(c)))
FairSpec == Spec /\ Fairness

-------------------------------------------------------------------------------
(* Properties *)

TypeOK ==
  /\ ServerTypeOK
  /\ enabled \in BOOLEAN /\ advertising \in BOOLEAN
  /\ centrals \subseteq Conn /\ authorized \subseteq Conn
  /\ generation \in 0 .. MaxGen /\ server \in {NoServer, generation}
  /\ lastError \in BOOLEAN
  /\ loop.at \in {"idle", "ending", "auth", "reply", "reply_authorized", "mark", "save"}
  /\ loop.at # "idle" => loop.id \in Conn
  /\ served \subseteq SUBSET Conn /\ revoked \subseteq SUBSET Conn
  /\ dropped \subseteq Conn

\* The handle is that of the listener last switched on, as long as that one
\* lives: a notice of an older listener never takes it down (lan/mod.rs:613-621).
\* With the switch on and no handle the last listener did fail to bind, and the
\* panel shows an error.  Only a listener that serves is advertised (216-226).
ListenerIsCurrent ==
  /\ server # NoServer => enabled /\ server = generation /\ server \notin stopped
  /\ enabled /\ server = NoServer => listener[generation] = "done" /\ lastError
  /\ advertising => server # NoServer /\ listener[server] = "serving"

\* An authorization outlives its link only through an unpair: the end of a
\* link, a switch that goes off and a frame that comes late never leave one
\* behind (lan/mod.rs:348-358, 385-390; lib.rs:1281-1294).
GhostOnlyFromUnpair ==
  \A c \in authorized \ dropped :
    \/ c \in centrals
    \/ loop.at = "ending" /\ loop.id = c
    \/ \E cs \in served : c \in cs

\* The deadline spares every authorized connection: the server is told, or will
\* be by a message on its way (lan/mod.rs:428-438, lan/server.rs:728-731).
AuthorizedIsMarked ==
  \A c \in authorized \intersect sinks :
    \/ flag[c] \/ home[c] \in stopped
    \/ loop.at \in {"reply_authorized", "mark"} /\ loop.id = c
    \/ [to |-> c, kind |-> "authorized"] \in Range(outbound[home[c]])

\* A switch that was turned on does not stay without an answer: its listener is
\* advertised, the panel shows an error, or it is turned off again, however the
\* listener before it ends, whatever the port is held by and though the events of
\* both go through one full channel (lan/server.rs:494-497, lan/mod.rs:613-621).
SwitchSettles == enabled ~> advertising \/ lastError \/ ~enabled

\* A connection that is never authorized gives its slot back, whatever its peer
\* does (lan/server.rs:58-69).
StrangersLeave ==
  \A c \in Conn : phase[c] \in {"announcing", "open"} ~> phase[c] = "gone" \/ c \in authorized

\* So does one whose device was unpaired, even when the deadline is lifted and
\* the peer does not read (lan/mod.rs:294-300).
UnpairedLeave == \A c \in Conn : c \in dropped ~> phase[c] = "gone"

\* The end of a link ends its session (lan/server.rs:856), but for an unpaired one.
LinkEndsSession ==
  \A c \in Conn : phase[c] = "gone" ~> c \notin authorized \/ c \in dropped
=============================================================================
