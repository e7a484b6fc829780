-------------------------------- MODULE BleAuth --------------------------------
(***************************************************************************)
(* An iPhone pairs and authenticates over BLE: the client's own machine    *)
(* (BLEClient.swift), which reads an answer by what it sent last, against  *)
(* the Mac's (ble/pairing.rs), whose answers go out as notifications of    *)
(* the Auth characteristic and are not sent again (ble/macos.rs).  Between *)
(* them are the events of the main thread, the closures posted to it, and  *)
(* the link, any of which may outlive the connection they belong to.       *)
(*                                                                         *)
(* A request has a number, its place among all that were sent.  A number   *)
(* also names what is drawn for it: the ephemeral keys of HELLO2 and AUTH2 *)
(* and of their answers, and the token that answers CODE2.                 *)
(***************************************************************************)
EXTENDS Integers, Sequences

CONSTANTS MaxRequests,  \* bound: requests the device sends
          MaxWindows,   \* bound: pairing windows
          MaxTyped,     \* bound: codes typed
          MaxBreaks,    \* bound: links lost, switches and windows closed
          Attempts      \* MAX_ATTEMPTS

ASSUME BleAuthAssumption ==
  /\ {MaxRequests, MaxWindows, MaxTyped, MaxBreaks} \subseteq Nat
  /\ Attempts \in Nat \ {0}

Nothing == 0     \* no request, no key, no token
Garbled == -1    \* a key put together from two
WrongCode == 0   \* a code is the number of its window
NoCode == -1
NoSession == [token |-> Nothing, key |-> <<Nothing, Nothing>>]
NoReply == [kind |-> "none"]

\* What the client keeps of a connection (V2ClientState).
NewV2 == [sent |-> "none", awaiting |-> FALSE, pending |-> NoCode]

VARIABLES
  \* the Mac
  window,      \* [code, left], the pairing window
  paired,      \* tokens
  nonce, handshake,
  session,     \* authorized, and the keys of the channel
  events,      \* from the main thread to the event loop
  posts,       \* closures for the main thread
  subscribed, published, sharing,
  listed,      \* subs_mirror has the device
  switching,   \* second halves of ble_set_enabled that are to come
  down,        \* notifications on the link
  \* the device
  screen,      \* ConnectionState
  sheet,       \* the code can be entered
  timer,       \* connectTimeout
  discovering, subscribing,
  v2, mine, agreed,   \* the handshake: its own key, and the Mac's
  half,        \* authReassembler: the answer whose first chunk has come
  channel, stored,
  \* history
  requests, windows, typed, breaks,
  crossed,     \* an answer was read as the answer to another request
  mixed,       \* an answer was read that was put together from halves of two
  hurried,     \* a code was entered while the last one was being dealt with, or had been granted
  dropped,     \* an answer did not go out whole, was lost with its link, or found nobody
  swept,       \* a handshake expired, or was ended by a switch thrown before it began
  misheard,    \* the right code was counted as a wrong one
  thrown       \* tokens discarded by the device

macVars == <<window, paired, nonce, handshake, session>>
switchVars == <<sharing, listed, switching>>
linkVars == <<events, posts, subscribed, published, switchVars, down>>
viewVars == <<screen, sheet, timer, discovering, subscribing>>
deviceVars == <<v2, mine, agreed, half, channel, stored>>
boundVars == <<requests, windows, typed, breaks>>
ghostVars == <<crossed, mixed, hurried, dropped, swept, misheard, thrown>>
authVars == <<macVars, linkVars, viewVars, deviceVars, boundVars, ghostVars>>

NoWindow == [code |-> Nothing, left |-> 0]
Here == [verb |-> "here"]
Gone == [verb |-> "gone"]
Stop == [kind |-> "stop"]
Publish == [kind |-> "publish"]
Modified == [kind |-> "modified"]

BleAuthInit ==
  /\ requests \in {0, 1}   \* 1: the two have been paired before
  /\ paired = 1 .. requests /\ stored = requests
  /\ window = NoWindow /\ nonce = Nothing /\ handshake = Nothing /\ session = NoSession
  /\ events = <<>> /\ posts = <<>> /\ down = <<>>
  /\ subscribed = FALSE /\ published = TRUE /\ sharing = TRUE /\ listed = FALSE /\ switching = {}
  /\ screen = "scanning" /\ sheet = FALSE /\ timer = FALSE
  /\ discovering = FALSE /\ subscribing = FALSE
  /\ v2 = NewV2 /\ mine = Nothing /\ agreed = Nothing /\ half = NoReply
  /\ channel = NoSession
  /\ windows = 0 /\ typed = 0 /\ breaks = 0
  /\ crossed = FALSE /\ mixed = FALSE /\ hurried = FALSE /\ dropped = FALSE /\ swept = FALSE
  /\ misheard = FALSE /\ thrown = {}

-------------------------------------------------------------------------------
(* The Mac: requests, in the event loop *)

\* An answer that may be longer than a packet of the link is sent in one or in two.
Packets(reply) ==
  LET long == reply.kind \in {"await", "nonce", "granted"} IN
  {<<[kind |-> "packet", of |-> reply, idx |-> 0, count |-> 1]>>}
    \union IF long THEN {[i \in 1 .. 2 |-> [kind |-> "packet", of |-> reply, idx |-> i - 1, count |-> 2]]}
           ELSE {}

\* handle_auth: the event is taken, and the answer handed to the main thread.
Answer(request, kind, key, token) ==
  /\ events' = Tail(events)
  /\ \E packets \in Packets([kind |-> kind, re |-> request.re, key |-> key, token |-> token]) :
       posts' = posts \o packets
  /\ UNCHANGED <<subscribed, published, switchVars, down, viewVars, deviceVars, boundVars>>
  /\ UNCHANGED <<crossed, mixed, hurried, dropped, swept, thrown>>

Reject(request) == Answer(request, "rejected", Nothing, Nothing)

Requested(verb) == events # <<>> /\ Head(events).verb = verb
Windowed == window.left > 0
NewSession(token, key) == [token |-> token, key |-> <<key, key>>]

\* Mutant: a handshake that is under way is not replaced.
AnswerHelloKeeping ==
  /\ Requested("hello2")
  /\ \/ ~Windowed /\ Reject(Head(events)) /\ UNCHANGED handshake
     \/ /\ Windowed
        /\ handshake' = IF handshake = Nothing THEN Head(events).re ELSE handshake
        /\ Answer(Head(events), "await", Head(events).re, Nothing)
  /\ UNCHANGED <<window, paired, nonce, session, misheard>>

\* HELLO2 needs an open window.
AnswerHello ==
  /\ Requested("hello2")
  /\ \/ ~Windowed /\ Reject(Head(events)) /\ UNCHANGED handshake
     \/ /\ Windowed
        /\ handshake' = Head(events).re
        /\ Answer(Head(events), "await", Head(events).re, Nothing)
  /\ UNCHANGED <<window, paired, nonce, session, misheard>>

\* CODE2 spends the handshake; its binding is of the code and of both keys.
AnswerCode ==
  /\ Requested("code2")
  /\ LET request == Head(events)
         right == request.code = window.code /\ request.keys = <<handshake, handshake>>
     IN  \/ /\ handshake = Nothing \/ ~Windowed
            /\ Reject(request) /\ UNCHANGED <<window, paired, session, misheard>>
         \/ /\ handshake # Nothing /\ Windowed /\ ~right
            /\ window' = [window EXCEPT !.left = @ - 1]
            /\ misheard' = (misheard \/ request.code = window.code)
            /\ Answer(request, "denied", Nothing, Nothing)
            /\ UNCHANGED <<paired, session>>
         \/ /\ handshake # Nothing /\ Windowed /\ right
            /\ paired' = paired \union {request.re}
            /\ session' = NewSession(request.re, handshake)
            /\ window' = NoWindow
            /\ Answer(request, "granted", handshake, request.re)
            /\ UNCHANGED misheard
  /\ handshake' = Nothing
  /\ UNCHANGED nonce

AnswerAuth ==
  /\ Requested("auth2")
  /\ nonce' = Head(events).re /\ handshake' = Head(events).re
  /\ Answer(Head(events), "nonce", Head(events).re, Nothing)
  /\ UNCHANGED <<window, paired, session, misheard>>

\* Mutant: a session that stands keeps its keys.
AnswerProofKeepingKeys ==
  /\ Requested("proof2")
  /\ LET request == Head(events)
         right == /\ handshake # Nothing /\ request.token \in paired
                  /\ request.keys = <<handshake, handshake>> /\ request.keys[2] = nonce
     IN  IF nonce # Nothing /\ right
         THEN /\ session' = IF session.token = request.token THEN session
                            ELSE NewSession(request.token, handshake)
              /\ Answer(request, "authorized", Nothing, Nothing)
         ELSE Reject(request) /\ UNCHANGED session
  /\ nonce' = Nothing /\ handshake' = IF nonce = Nothing THEN handshake ELSE Nothing
  /\ UNCHANGED <<window, paired, misheard>>

\* PROOF2 spends the nonce and the handshake; its proof is of the token and of both keys.
AnswerProof ==
  /\ Requested("proof2")
  /\ LET request == Head(events)
         right == /\ handshake # Nothing /\ request.token \in paired
                  /\ request.keys = <<handshake, handshake>> /\ request.keys[2] = nonce
     IN  IF nonce # Nothing /\ right
         THEN /\ session' = NewSession(request.token, handshake)
              /\ Answer(request, "authorized", Nothing, Nothing)
         ELSE Reject(request) /\ UNCHANGED session
  /\ nonce' = Nothing /\ handshake' = IF nonce = Nothing THEN handshake ELSE Nothing
  /\ UNCHANGED <<window, paired, misheard>>

\* end_session
Ended == session' = NoSession /\ nonce' = Nothing /\ handshake' = Nothing

\* The copy of the subscribers that the runtime reads.
TakeHere ==
  /\ Requested("here")
  /\ events' = Tail(events)
  /\ listed' = TRUE
  /\ UNCHANGED <<macVars, posts, subscribed, published, sharing, switching, down>>
  /\ UNCHANGED <<viewVars, deviceVars, boundVars, ghostVars>>

\* Unsubscribed and Disconnected, which are sent together.
TakeGone ==
  /\ Requested("gone")
  /\ events' = Tail(events)
  /\ listed' = FALSE
  /\ Ended
  /\ UNCHANGED <<window, paired, posts, subscribed, published, sharing, switching, down>>
  /\ UNCHANGED <<viewVars, deviceVars, boundVars, ghostVars>>

-------------------------------------------------------------------------------
(* The Mac: its user, and time *)

\* begin_pairing
Opened ==
  /\ windows < MaxWindows /\ windows' = windows + 1
  /\ window' = [code |-> windows', left |-> Attempts]

OpenWindow ==
  /\ Opened
  /\ UNCHANGED <<paired, nonce, handshake, session, requests, typed, breaks>>
  /\ UNCHANGED <<linkVars, viewVars, deviceVars, ghostVars>>

Break == breaks < MaxBreaks /\ breaks' = breaks + 1 /\ UNCHANGED <<requests, windows, typed>>

\* Closed by the user, or expired.
CloseWindow ==
  /\ window # NoWindow /\ window' = NoWindow
  /\ Break
  /\ UNCHANGED <<paired, nonce, handshake, session, linkVars, viewVars, deviceVars, ghostVars>>

\* What was not answered in time; a nonce lives shorter than the handshake of HELLO2.
Sweep ==
  /\ nonce # Nothing \/ handshake # Nothing
  /\ nonce' = Nothing
  /\ \/ handshake' = Nothing
     \/ nonce # Nothing /\ handshake # nonce /\ UNCHANGED handshake
  /\ swept' = TRUE
  /\ Break
  /\ UNCHANGED <<window, paired, session, linkVars, viewVars, deviceVars>>
  /\ UNCHANGED <<crossed, mixed, hurried, dropped, misheard, thrown>>

\* revoke_all
UnpairAll ==
  /\ paired # {} /\ paired' = {}
  /\ session' = NoSession /\ handshake' = Nothing
  /\ Break
  /\ UNCHANGED <<window, nonce, linkVars, viewVars, deviceVars, ghostVars>>

\* ble_set_enabled, under the bridge mutex: served_centrals and set_enabled ...
SwitchOff ==
  /\ sharing /\ sharing' = FALSE
  /\ posts' = Append(posts, Stop)
  /\ listed' = FALSE
  /\ switching' = switching \union {IF listed THEN "end" ELSE "off"}
  /\ Break
  /\ UNCHANGED <<macVars, events, subscribed, published, down, viewVars, deviceVars, ghostVars>>

SwitchOn ==
  /\ ~sharing /\ sharing' = TRUE
  /\ posts' = Append(posts, Publish)
  /\ switching' = switching \union {"on"}
  /\ UNCHANGED <<macVars, events, subscribed, published, listed, down>>
  /\ UNCHANGED <<viewVars, deviceVars, boundVars, ghostVars>>

\* ... and, under the pairing mutex, the sessions are ended and the window closed, or
\* one opened.
FinishOff ==
  /\ \E rest \in switching \ {"on"} :
       /\ switching' = switching \ {rest}
       /\ IF rest = "end" THEN Ended /\ swept' = (swept \/ subscribed)
                           ELSE UNCHANGED <<nonce, handshake, session, swept>>
  /\ window' = NoWindow
  /\ UNCHANGED <<paired, events, posts, subscribed, published, sharing, listed, down>>
  /\ UNCHANGED <<viewVars, deviceVars, boundVars, crossed, mixed, hurried, dropped, misheard, thrown>>

FinishOn ==
  /\ "on" \in switching /\ switching' = switching \ {"on"}
  /\ Opened
  /\ UNCHANGED <<paired, nonce, handshake, session, requests, typed, breaks>>
  /\ UNCHANGED <<events, posts, subscribed, published, sharing, listed, down>>
  /\ UNCHANGED <<viewVars, deviceVars, ghostVars>>

-------------------------------------------------------------------------------
(* The Mac: the main thread *)

\* notify_auth: a packet goes out, or is refused by the radio; nobody sends it again.
Notify ==
  /\ posts # <<>> /\ Head(posts).kind = "packet"
  /\ \/ subscribed /\ down' = Append(down, Head(posts)) /\ UNCHANGED dropped
     \/ UNCHANGED down /\ dropped' = TRUE
  /\ posts' = Tail(posts)
  /\ UNCHANGED <<macVars, events, subscribed, published, switchVars>>
  /\ UNCHANGED <<viewVars, deviceVars, boundVars, crossed, mixed, hurried, swept, misheard, thrown>>

\* start and stop: the service is put up, or taken down and the list of subscribers cleared.
Republish ==
  /\ posts # <<>> /\ Head(posts).kind \in {"stop", "publish"}
  /\ published' = (Head(posts) = Publish)
  /\ subscribed' = (subscribed /\ published')
  /\ down' = IF published /\ ~published' /\ screen # "scanning" THEN Append(down, Modified) ELSE down
  /\ posts' = Tail(posts)
  /\ UNCHANGED <<macVars, events, switchVars, viewVars, deviceVars, boundVars, ghostVars>>

-------------------------------------------------------------------------------
(* The device: the link *)

\* didDiscover: advertised, so connected, with a timer.
Discover ==
  /\ screen = "scanning" /\ published
  /\ screen' = "connecting" /\ timer' = TRUE /\ discovering' = TRUE
  /\ UNCHANGED <<macVars, linkVars, sheet, subscribing, deviceVars, boundVars, ghostVars>>

\* The link ends, on which both sides clean up: the Mac's main thread tells of it; the
\* client forgets all but a code that was typed, and scans again.
Rescan ==
  /\ screen' = "scanning" /\ sheet' = FALSE /\ timer' = FALSE
  /\ discovering' = FALSE /\ subscribing' = FALSE
  /\ v2' = [NewV2 EXCEPT !.pending = v2.pending]
  /\ mine' = Nothing /\ agreed' = Nothing /\ half' = NoReply /\ channel' = NoSession
  /\ down' = <<>> /\ dropped' = (dropped \/ down # <<>> \/ half # NoReply)
  /\ subscribed' = FALSE
  /\ events' = IF subscribed THEN Append(events, Gone) ELSE events
  /\ UNCHANGED <<macVars, posts, published, switchVars, stored>>
  /\ UNCHANGED <<crossed, mixed, hurried, swept, misheard, thrown>>

LoseLink == screen # "scanning" /\ Rescan /\ Break

\* connectTimeout, didDiscoverServices without the service, didUpdateNotificationState
\* with an error: the connection is cancelled.
GiveUp ==
  /\ \/ timer /\ screen = "connecting"
     \/ discovering /\ ~published
     \/ subscribing /\ ~subscribed
  /\ Rescan
  /\ UNCHANGED boundVars

\* The timer looks whether the client is still connecting.
TimerPasses ==
  /\ timer /\ screen # "connecting" /\ timer' = FALSE
  /\ UNCHANGED <<macVars, linkVars, screen, sheet, discovering, subscribing>>
  /\ UNCHANGED <<deviceVars, boundVars, ghostVars>>

\* Mutant: the timer is not started again.
HearModifiedUntimed ==
  /\ down # <<>> /\ Head(down) = Modified /\ down' = Tail(down)
  /\ screen' = "connecting" /\ discovering' = TRUE /\ subscribing' = FALSE
  /\ v2' = [NewV2 EXCEPT !.pending = v2.pending]
  /\ mine' = Nothing /\ agreed' = Nothing /\ channel' = NoSession
  /\ UNCHANGED <<macVars, events, posts, subscribed, published, switchVars>>
  /\ UNCHANGED <<sheet, timer, half, stored, boundVars, ghostVars>>

\* didModifyServices: the service is gone, the link is not.  authReassembler is kept.
HearModified ==
  /\ down # <<>> /\ Head(down) = Modified /\ down' = Tail(down)
  /\ screen' = "connecting" /\ timer' = TRUE /\ discovering' = TRUE /\ subscribing' = FALSE
  /\ v2' = [NewV2 EXCEPT !.pending = v2.pending]
  /\ mine' = Nothing /\ agreed' = Nothing /\ channel' = NoSession
  /\ UNCHANGED <<macVars, events, posts, subscribed, published, switchVars>>
  /\ UNCHANGED <<sheet, half, stored, boundVars, ghostVars>>

-------------------------------------------------------------------------------
(* The device: requests *)

\* A write reaches the Mac while the service is the one that was discovered, and
\* behind the subscription.
Send(request) ==
  /\ requests < MaxRequests /\ requests' = requests + 1
  /\ events' = IF ~subscribed' THEN events
                ELSE (IF subscribed THEN events ELSE Append(events, Here)) \o <<request>>

Request(verb, code, token, keys) ==
  [verb |-> verb, re |-> requests + 1, code |-> code, token |-> token, keys |-> keys]

\* beginV2Handshake: a code that was typed goes before a token that is stored.
Begin(code) ==
  LET verb == IF code # NoCode \/ stored = Nothing THEN "hello2" ELSE "auth2" IN
  /\ Send(Request(verb, NoCode, Nothing, <<>>))
  /\ v2' = [sent |-> verb, awaiting |-> FALSE, pending |-> code]
  /\ mine' = requests + 1 /\ agreed' = Nothing /\ channel' = NoSession

\* sendCode2
SendCode(code, theirs) ==
  /\ Send(Request("code2", code, Nothing, <<mine, theirs>>))
  /\ v2' = [sent |-> "code2", awaiting |-> FALSE, pending |-> NoCode]

\* didDiscoverCharacteristics: subscribed to the answers, and the first request written.
\* What was discovered comes behind the word that the service had changed.
Start ==
  /\ discovering /\ published /\ discovering' = FALSE
  /\ \A i \in DOMAIN down : down[i] # Modified
  /\ subscribed' = TRUE
  /\ Begin(v2.pending)
  /\ UNCHANGED <<macVars, posts, published, switchVars, down, screen, sheet, timer, subscribing>>
  /\ UNCHANGED <<half, stored, windows, typed, breaks, ghostVars>>

\* submitPairingCode: without a handshake that waits for it, the code waits for one.
Submit ==
  /\ sheet /\ screen # "scanning"
  /\ typed < MaxTyped /\ typed' = typed + 1
  /\ UNCHANGED <<macVars, posts, subscribed, published, switchVars, down, viewVars>>
  /\ \E code \in {window.code, WrongCode} :
       IF v2.awaiting THEN SendCode(code, agreed) /\ UNCHANGED <<mine, agreed, channel>>
                      ELSE Begin(code)
  /\ hurried' = (hurried \/ stored # Nothing \/ (v2.sent # "none" /\ ~v2.awaiting))
  /\ UNCHANGED <<half, stored, windows, breaks, crossed, mixed, dropped, swept, misheard, thrown>>

\* The snapshots are subscribed to.
Stream ==
  /\ subscribing /\ subscribed
  /\ subscribing' = FALSE /\ screen' = "streaming" /\ timer' = FALSE /\ sheet' = FALSE
  /\ UNCHANGED <<macVars, linkVars, discovering, deviceVars, boundVars, ghostVars>>

-------------------------------------------------------------------------------
(* The device: answers *)

\* What a packet completes.  All frames of answers have one number, so the second
\* half of an answer completes whatever first half came last: what that says is
\* unreadable, or lacks a part, or has a key that is nobody's.
Arrived(packet) ==
  IF packet.count = 1 THEN {packet.of}
  ELSE IF packet.idx = 0 \/ half = NoReply THEN {NoReply}
  ELSE IF half = packet.of THEN {half}
  ELSE {NoReply, [half EXCEPT !.kind = "junk"], [half EXCEPT !.key = Garbled]}

\* stop, failV2: the token is discarded, and nothing is sent.
StopV2 ==
  /\ v2' = NewV2
  /\ stored' = Nothing /\ thrown' = thrown \union ({stored} \cap paired)
  /\ screen' = "needsPairing" /\ sheet' = TRUE
  /\ UNCHANGED <<events, agreed, channel, subscribing, requests>>

\* The Mac's key is agreed on once, and the code is sent if there is one.
Bind(reply) ==
  /\ agreed' = reply.key
  /\ IF v2.pending # NoCode
     THEN SendCode(v2.pending, reply.key) /\ UNCHANGED <<screen, sheet>>
     ELSE /\ v2' = [v2 EXCEPT !.awaiting = TRUE]
          /\ screen' = "needsPairing" /\ sheet' = TRUE
          /\ UNCHANGED <<events, requests>>
  /\ UNCHANGED <<stored, thrown, channel, subscribing>>

\* Mutant: the client does not note that it has sent PROOF2.
SignUnnoted(reply) ==
  /\ agreed' = reply.key
  /\ Send(Request("proof2", NoCode, stored, <<mine, reply.key>>))
  /\ UNCHANGED <<v2, screen, sheet, stored, thrown, channel, subscribing>>

Sign(reply) ==
  /\ agreed' = reply.key
  /\ Send(Request("proof2", NoCode, stored, <<mine, reply.key>>))
  /\ v2' = [v2 EXCEPT !.sent = "proof2"]
  /\ UNCHANGED <<screen, sheet, stored, thrown, channel, subscribing>>

Open(token, pending) ==
  /\ stored' = token /\ channel' = [token |-> token, key |-> <<mine, agreed>>]
  /\ v2' = [NewV2 EXCEPT !.pending = pending]
  /\ subscribing' = TRUE
  /\ UNCHANGED <<events, agreed, requests, screen, sheet, thrown>>

Denied ==
  /\ v2' = NewV2 /\ screen' = "failed" /\ sheet' = TRUE
  /\ UNCHANGED <<events, agreed, stored, thrown, channel, subscribing, requests>>

\* decideV2 and advance: the answer is read by what was sent last.
Advance(reply) ==
  LET sent == v2.sent
      ok == reply.kind \in {"granted", "authorized"}
      keyed == reply.kind \in {"await", "nonce"} /\ agreed = Nothing
  IN  CASE reply.kind = "denied" -> Denied
        [] keyed /\ sent = "hello2" -> Bind(reply)
        [] keyed /\ sent = "auth2" /\ stored # Nothing -> Sign(reply)
        [] reply.kind = "granted" /\ sent = "code2" /\ <<reply.key, reply.key>> = <<mine, agreed>>
             -> Open(reply.token, NoCode)
        [] ok /\ sent = "proof2" /\ stored # Nothing -> Open(stored, v2.pending)
        [] OTHER -> StopV2

\* didUpdateValueFor and handleAuthReply.
Hear ==
  /\ down # <<>> /\ Head(down).kind = "packet" /\ down' = Tail(down)
  /\ UNCHANGED <<macVars, posts, subscribed, published, switchVars, timer, discovering, mine>>
  /\ LET packet == Head(down) IN
     /\ half' = IF packet.count = 1 THEN half ELSE IF packet.idx = 0 THEN packet.of ELSE NoReply
     /\ \E reply \in Arrived(packet) :
          IF reply = NoReply \/ v2.sent = "none"
          THEN /\ dropped' = (dropped \/ reply # NoReply \/ packet.idx = 1)
               /\ UNCHANGED <<events, screen, sheet, subscribing, v2, agreed, channel, stored>>
               /\ UNCHANGED <<requests, crossed, mixed, thrown>>
          ELSE /\ mixed' = (mixed \/ reply.key = Garbled \/ reply.kind = "junk")
               /\ crossed' = (crossed \/ mixed' \/ reply.re # requests)
               /\ Advance(reply)
               /\ UNCHANGED dropped
  /\ UNCHANGED <<windows, typed, breaks, hurried, swept, misheard>>

BleAuthNext ==
  \/ AnswerHello \/ AnswerCode \/ AnswerAuth \/ AnswerProof \/ TakeHere \/ TakeGone
  \/ OpenWindow \/ CloseWindow \/ Sweep \/ UnpairAll
  \/ SwitchOff \/ SwitchOn \/ FinishOff \/ FinishOn
  \/ Notify \/ Republish
  \/ Discover \/ LoseLink \/ GiveUp \/ TimerPasses \/ HearModified
  \/ Start \/ Submit \/ Stream \/ Hear

BleAuthSpec == BleAuthInit /\ [][BleAuthNext]_authVars

-------------------------------------------------------------------------------
(* Properties *)

\* When both sides have a session, it is the same one, made from one token and from the
\* keys of one exchange, unless an answer was put together from halves of two.
\* Otherwise no snapshot can be opened, and nobody is told (BLEClient.swift:131-132,
\* 265-267; pairing.rs:752-756, 842-846).
SessionsMatch == channel # NoSession /\ session # NoSession => channel = session \/ mixed

\* The right code is not counted as a wrong one, unless an answer was read as that to
\* another request (pairing.rs:736-739; BLEClient.swift:711-716).
CodeIsHeard == misheard => crossed

\* The device does not discard a token by which the Mac knows it, unless an answer was
\* misread so, a code was entered that was not asked for, or the handshake went away
\* on the Mac (BLEClient.swift:777-780).
TokenIsKept == thrown # {} => crossed \/ hurried \/ swept

UnderWay(token) ==
  \E queue \in {posts, down} : \E i \in DOMAIN queue :
    queue[i].kind = "packet" /\ queue[i].of.token = token

\* A token that was granted reaches the device's store, or a later one does, unless its
\* answer was lost or misread (BLEClient.swift:751-760).
GrantArrives ==
  \A t \in paired : (\E u \in thrown \union {stored} : t <= u) \/ UnderWay(t) \/ dropped \/ crossed

\* What the user did to pair is not wasted: the code, the token the device holds, and
\* the token it is granted.
NothingIsWasted == CodeIsHeard /\ TokenIsKept /\ GrantArrives

\* The device never waits where nothing can move it on: while it connects a timer runs
\* (BLEClient.swift:269-274), and while it waits for an answer a timer runs or the user
\* can enter a code, unless one was entered in a hurry.
DeviceGivesUp ==
  /\ screen = "connecting" => timer
  /\ v2.sent # "none" => screen = "connecting" \/ sheet \/ hurried
=============================================================================
