------------------------------- MODULE Pairing --------------------------------
(***************************************************************************)
(* PairingManager of ble/pairing.rs: the one object, behind one mutex, that *)
(* BLE, network and LAN share.  Every operation runs under that mutex, so  *)
(* each is one action.                                                     *)
(*                                                                         *)
(* Data.  Cryptography is symbolic.  A request draws its fresh values (a   *)
(* nonce, an ephemeral key pair) as one serial number; HMAC(token, nonce,  *)
(* transcript) is the tuple of what was signed, so a proof verifies        *)
(* exactly when every part matches; a code is right or wrong.  Random      *)
(* tokens do not collide with tokens ever in use.                          *)
(*                                                                         *)
(* Time.  `now' is the SystemTime passed by the caller.  It is a wall      *)
(* clock: unless Monotonic it may be set back, and then duration_since     *)
(* yields an error that the code reads as zero elapsed time.               *)
(***************************************************************************)
EXTENDS Naturals

CONSTANTS Central, Token, NoToken,
          None,          \* an absent map entry
          MaxAttempts,   \* MAX_ATTEMPTS
          CodeTTL,       \* CODE_TTL
          NonceTTL,      \* NONCE_TTL
          Monotonic,     \* the wall clock is never set back
          MaxTime,       \* bound: the clock stays in 0..MaxTime
          MaxSerial,     \* bound: random draws
          MaxOpened      \* bound: begin_pairing calls

ASSUME ConstantsAssumption ==
  /\ NoToken \notin Token
  /\ MaxAttempts \in Nat \ {0}
  /\ CodeTTL \in Nat /\ NonceTTL \in Nat
  /\ Monotonic \in BOOLEAN
  /\ MaxTime \in Nat /\ MaxSerial \in Nat /\ MaxOpened \in Nat

Time   == 0 .. MaxTime
Serial == 1 .. MaxSerial

Window    == [left : 0 .. MaxAttempts, at : Time]
Nonce     == [id : Serial, at : Time]
\* id names the ephemeral key, the transcript and the nonce of one HELLO2 or
\* AUTH2; win is a ghost: the window a HELLO2 was answered in, 0 for AUTH2.
Handshake == [id : Serial, at : Time, ttl : {CodeTTL, NonceTTL}, win : 0 .. MaxOpened]
\* What the session keys are derived from; a new channel counts from zero.
Channel   == [hs : Serial, token : Token, nonce : Serial]

ASSUME NoneAssumption ==
  None \notin Window \union Nonce \union Handshake \union Channel

VARIABLES
  now,
  pending,       \* the pairing window, or None
  tokens,
  authorized,    \* central -> token, or NoToken
  nonces,        \* central -> Nonce, or None
  handshakes,    \* central -> Handshake, or None
  channels,      \* central -> Channel, or None
  \* history
  serial,        \* random draws so far
  opened,        \* begin_pairing calls so far
  misses,        \* wrong codes answered with Denied so far
  grants,        \* tokens granted so far
  revoked,       \* tokens revoked so far
  uses,          \* nonce -> proofs accepted for it
  installs       \* handshake -> channels derived from it

managerVars == <<pending, tokens, authorized, nonces, handshakes, channels>>
historyVars == <<serial, opened, misses, grants, revoked, uses, installs>>
vars == <<now, managerVars, historyVars>>

-------------------------------------------------------------------------------
(* Expiry *)

Elapsed(at) == IF now >= at THEN now - at ELSE 0

Expired(w) == Elapsed(w.at) > CodeTTL

\* open_window drops an expired window, and keeps an exhausted one on display.
LivePending == IF pending # None /\ Expired(pending) THEN None ELSE pending

\* Mutant: a window whose attempts are used up still takes codes.
UsableWhileOpen(w) == w # None

Usable(w) == w # None /\ w.left > 0

\* sweep_expired, which every request runs first.
LiveNonces ==
  [c \in Central |-> IF nonces[c] # None /\ Elapsed(nonces[c].at) <= NonceTTL
                     THEN nonces[c] ELSE None]

LiveHandshakes ==
  [c \in Central |-> IF handshakes[c] # None /\ Elapsed(handshakes[c].at) <= handshakes[c].ttl
                     THEN handshakes[c] ELSE None]

-------------------------------------------------------------------------------
Init ==
  /\ now \in Time
  /\ pending = None
  /\ tokens \in SUBSET Token                \* load_peers at start-up
  /\ authorized = [c \in Central |-> NoToken]
  /\ nonces = [c \in Central |-> None]
  /\ handshakes = [c \in Central |-> None]
  /\ channels = [c \in Central |-> None]
  /\ serial = 0 /\ opened = 0 /\ misses = 0 /\ grants = 0
  /\ revoked = {}
  /\ uses = [n \in Serial |-> 0] /\ installs = [h \in Serial |-> 0]

SetClock ==
  /\ now' \in Time
  /\ Monotonic => now' >= now
  /\ UNCHANGED <<managerVars, historyVars>>

(* The user's operations *)

BeginPairing ==
  /\ opened < MaxOpened
  /\ pending' = [left |-> MaxAttempts, at |-> now]
  /\ opened' = opened + 1
  /\ UNCHANGED <<now, tokens, authorized, nonces, handshakes, channels,
                 serial, misses, grants, revoked, uses, installs>>

ResetPairingWindow ==
  /\ pending' = None
  /\ UNCHANGED <<now, tokens, authorized, nonces, handshakes, channels, historyVars>>

\* Mutant: a closed link keeps its sealed channel.
EndSessionsKeepingChannels(cs) ==
  /\ authorized' = [c \in Central |-> IF c \in cs THEN NoToken ELSE authorized[c]]
  /\ nonces'     = [c \in Central |-> IF c \in cs THEN None ELSE nonces[c]]
  /\ handshakes' = [c \in Central |-> IF c \in cs THEN None ELSE handshakes[c]]
  /\ UNCHANGED <<now, pending, tokens, channels, historyVars>>

\* end_session for each listed central; a link that closes lists itself.
EndSessions(cs) ==
  /\ authorized' = [c \in Central |-> IF c \in cs THEN NoToken ELSE authorized[c]]
  /\ nonces'     = [c \in Central |-> IF c \in cs THEN None ELSE nonces[c]]
  /\ channels'   = [c \in Central |-> IF c \in cs THEN None ELSE channels[c]]
  /\ handshakes' = [c \in Central |-> IF c \in cs THEN None ELSE handshakes[c]]
  /\ UNCHANGED <<now, pending, tokens, historyVars>>

\* end_all_sessions leaves the nonces alone.
EndAllSessions ==
  /\ authorized' = [c \in Central |-> NoToken]
  /\ channels'   = [c \in Central |-> None]
  /\ handshakes' = [c \in Central |-> None]
  /\ UNCHANGED <<now, pending, tokens, nonces, historyVars>>

\* Mutant: revoking a token leaves the sessions it opened.
RevokeTokenOnly(t) ==
  /\ t \in tokens
  /\ tokens' = tokens \ {t}
  /\ revoked' = revoked \union {t}
  /\ UNCHANGED <<now, pending, authorized, channels, handshakes, nonces,
                 serial, opened, misses, grants, uses, installs>>

\* revoke_peer: the centrals of the token lose all but their nonces.
RevokeToken(t) ==
  LET dropped == {c \in Central : authorized[c] = t} IN
  /\ t \in tokens
  /\ tokens' = tokens \ {t}
  /\ authorized' = [c \in Central |-> IF c \in dropped THEN NoToken ELSE authorized[c]]
  /\ channels'   = [c \in Central |-> IF c \in dropped THEN None ELSE channels[c]]
  /\ handshakes' = [c \in Central |-> IF c \in dropped THEN None ELSE handshakes[c]]
  /\ revoked' = revoked \union {t}
  /\ UNCHANGED <<now, pending, nonces, serial, opened, misses, grants, uses, installs>>

\* Mutant: revoke_all forgets the channels.
RevokeAllKeepingChannels ==
  /\ tokens' = {}
  /\ authorized' = [c \in Central |-> NoToken]
  /\ handshakes' = [c \in Central |-> None]
  /\ revoked' = revoked \union tokens
  /\ UNCHANGED <<now, pending, nonces, channels,
                 serial, opened, misses, grants, uses, installs>>

RevokeAll ==
  /\ tokens' = {}
  /\ authorized' = [c \in Central |-> NoToken]
  /\ channels'   = [c \in Central |-> None]
  /\ handshakes' = [c \in Central |-> None]
  /\ revoked' = revoked \union tokens
  /\ UNCHANGED <<now, pending, nonces, serial, opened, misses, grants, uses, installs>>

-------------------------------------------------------------------------------
(* handle: the requests a central can make.  Each sweeps first. *)

SweepNonces == nonces' = LiveNonces
SweepHandshakes == handshakes' = LiveHandshakes
Sweep == SweepNonces /\ SweepHandshakes

\* A request that changes nothing but what has expired.
Refuse ==
  /\ Sweep
  /\ UNCHANGED <<now, pending, tokens, authorized, channels, historyVars>>

\* The same, for a request that looked at the window first.
RefuseAtWindow ==
  /\ Sweep
  /\ pending' = LivePending
  /\ UNCHANGED <<now, tokens, authorized, channels, historyVars>>

Malformed(c) == Refuse

\* HELLO only reports whether the window is usable.
Hello(c) == RefuseAtWindow

\* A wrong code costs the window, whoever opened it, one attempt.
Miss ==
  /\ Usable(LivePending)
  /\ pending' = [LivePending EXCEPT !.left = @ - 1]
  /\ misses' = misses + 1
  /\ UNCHANGED <<now, tokens, authorized, channels,
                 serial, opened, grants, revoked, uses, installs>>

\* Mutant: the window stays open after a grant.
GrantKeepingWindow(c, t) ==
  /\ Usable(LivePending)
  /\ t \notin tokens \union revoked
  /\ tokens' = tokens \union {t}
  /\ authorized' = [authorized EXCEPT ![c] = t]
  /\ pending' = LivePending
  /\ grants' = grants + 1
  /\ UNCHANGED <<now, serial, opened, misses, revoked, uses>>

\* Mutant: the right code is taken even when no attempts are left.
GrantWithoutBudget(c, t) ==
  /\ LivePending # None
  /\ t \notin tokens \union revoked
  /\ tokens' = tokens \union {t}
  /\ authorized' = [authorized EXCEPT ![c] = t]
  /\ pending' = None
  /\ grants' = grants + 1
  /\ UNCHANGED <<now, serial, opened, misses, revoked, uses>>

\* The right code mints a token and closes the window.
Grant(c, t) ==
  /\ Usable(LivePending)
  /\ t \notin tokens \union revoked
  /\ tokens' = tokens \union {t}
  /\ authorized' = [authorized EXCEPT ![c] = t]
  /\ pending' = None
  /\ grants' = grants + 1
  /\ UNCHANGED <<now, serial, opened, misses, revoked, uses>>

CodeRefused(c) == ~Usable(LivePending) /\ RefuseAtWindow

CodeWrong(c) == Miss /\ Sweep

\* Mutant: pairing over v1 keeps the channel of an earlier v2 session.
CodeRightKeepingChannel(c, t) ==
  /\ Grant(c, t)
  /\ SweepNonces
  /\ handshakes' = [LiveHandshakes EXCEPT ![c] = None]
  /\ UNCHANGED <<channels, installs>>

\* v1 has no channel: one left over from an earlier v2 session must go.
CodeRight(c, t) ==
  /\ Grant(c, t)
  /\ SweepNonces
  /\ channels' = [channels EXCEPT ![c] = None]
  /\ handshakes' = [LiveHandshakes EXCEPT ![c] = None]
  /\ UNCHANGED installs

Code(c) == CodeRefused(c) \/ CodeWrong(c) \/ \E t \in Token : CodeRight(c, t)

Auth(c) ==
  /\ serial < MaxSerial
  /\ serial' = serial + 1
  /\ nonces' = [LiveNonces EXCEPT ![c] = [id |-> serial + 1, at |-> now]]
  /\ SweepHandshakes
  /\ UNCHANGED <<now, pending, tokens, authorized, channels,
                 opened, misses, grants, revoked, uses, installs>>

\* The nonce is consumed whatever the proof turns out to be.  The proof is
\* token t's signature of nonce n; NoToken signs a malformed or unknown one.
ProofRefused(c, t, n) ==
  /\ LiveNonces[c] # None => ~(t \in tokens /\ n = LiveNonces[c].id)
  /\ nonces' = [LiveNonces EXCEPT ![c] = None]
  /\ SweepHandshakes
  /\ UNCHANGED <<now, pending, tokens, authorized, channels, historyVars>>

\* Mutant: an accepted proof leaves its nonce in place.
ProofAcceptedKeepingNonce(c, t, n) ==
  /\ LiveNonces[c] # None /\ t \in tokens /\ n = LiveNonces[c].id
  /\ nonces' = LiveNonces
  /\ authorized' = [authorized EXCEPT ![c] = t]
  /\ channels' = [channels EXCEPT ![c] = None]
  /\ handshakes' = [LiveHandshakes EXCEPT ![c] = None]
  /\ uses' = [uses EXCEPT ![n] = @ + 1]
  /\ UNCHANGED <<now, pending, tokens, serial, opened, misses, grants, revoked, installs>>

ProofAccepted(c, t, n) ==
  /\ LiveNonces[c] # None /\ t \in tokens /\ n = LiveNonces[c].id
  /\ nonces' = [LiveNonces EXCEPT ![c] = None]
  /\ authorized' = [authorized EXCEPT ![c] = t]
  /\ channels' = [channels EXCEPT ![c] = None]
  /\ handshakes' = [LiveHandshakes EXCEPT ![c] = None]
  /\ uses' = [uses EXCEPT ![n] = @ + 1]
  /\ UNCHANGED <<now, pending, tokens, serial, opened, misses, grants, revoked, installs>>

Proof(c, t, n) == ProofRefused(c, t, n) \/ ProofAccepted(c, t, n)

\* Mutant: a pairing handshake lives only as long as a nonce.
Hello2AtMachinePace(c) ==
  /\ serial < MaxSerial
  /\ Usable(LivePending)
  /\ serial' = serial + 1
  /\ pending' = LivePending
  /\ handshakes' = [LiveHandshakes EXCEPT ![c] =
                      [id |-> serial + 1, at |-> now, ttl |-> NonceTTL, win |-> opened]]
  /\ SweepNonces
  /\ UNCHANGED <<now, tokens, authorized, channels,
                 opened, misses, grants, revoked, uses, installs>>

\* A malformed key is refused before the window is looked at, a low-order
\* key after; the handshake outlives the window it was answered in.
Hello2(c) ==
  /\ serial < MaxSerial
  /\ Usable(LivePending)
  /\ serial' = serial + 1
  /\ pending' = LivePending
  /\ handshakes' = [LiveHandshakes EXCEPT ![c] =
                      [id |-> serial + 1, at |-> now, ttl |-> CodeTTL, win |-> opened]]
  /\ SweepNonces
  /\ UNCHANGED <<now, tokens, authorized, channels,
                 opened, misses, grants, revoked, uses, installs>>

Hello2BadKey(c) == Refuse \/ RefuseAtWindow

\* CODE2 consumes the handshake in every case.
Code2Refused(c) ==
  \/ LiveHandshakes[c] = None /\ Refuse
  \/ /\ LiveHandshakes[c] # None /\ ~Usable(LivePending)
     /\ handshakes' = [LiveHandshakes EXCEPT ![c] = None]
     /\ SweepNonces
     /\ pending' = LivePending
     /\ UNCHANGED <<now, tokens, authorized, channels, historyVars>>

Code2Wrong(c) ==
  /\ LiveHandshakes[c] # None
  /\ Miss
  /\ handshakes' = [LiveHandshakes EXCEPT ![c] = None]
  /\ SweepNonces

Install(c, h, t, n) ==
  /\ channels' = [channels EXCEPT ![c] = [hs |-> h, token |-> t, nonce |-> n]]
  /\ installs' = [installs EXCEPT ![h] = @ + 1]

\* Mutant: a granted CODE2 leaves its handshake for the next window.
Code2RightKeepingHandshake(c, t) ==
  LET hs == LiveHandshakes[c] IN
  /\ hs # None
  /\ Grant(c, t)
  /\ Install(c, hs.id, t, hs.id)
  /\ SweepHandshakes
  /\ SweepNonces

\* The keys come from the handshake's own nonce; one stored by AUTH stays.
Code2Right(c, t) ==
  LET hs == LiveHandshakes[c] IN
  /\ hs # None
  /\ Grant(c, t)
  /\ Install(c, hs.id, t, hs.id)
  /\ handshakes' = [LiveHandshakes EXCEPT ![c] = None]
  /\ SweepNonces

Code2(c) == Code2Refused(c) \/ Code2Wrong(c) \/ \E t \in Token : Code2Right(c, t)

\* One draw serves as the nonce and as the handshake, which live equally long.
Auth2(c) ==
  /\ serial < MaxSerial
  /\ serial' = serial + 1
  /\ nonces' = [LiveNonces EXCEPT ![c] = [id |-> serial + 1, at |-> now]]
  /\ handshakes' = [LiveHandshakes EXCEPT ![c] =
                      [id |-> serial + 1, at |-> now, ttl |-> NonceTTL, win |-> 0]]
  /\ UNCHANGED <<now, pending, tokens, authorized, channels,
                 opened, misses, grants, revoked, uses, installs>>

Auth2BadKey(c) == Refuse

\* Without a nonce the handshake is left alone; with one both are consumed.
Proof2Refused(c, t, n, h) ==
  \/ LiveNonces[c] = None /\ Refuse
  \/ /\ LiveNonces[c] # None
     /\ LiveHandshakes[c] # None =>
          ~(t \in tokens /\ n = LiveNonces[c].id /\ h = LiveHandshakes[c].id)
     /\ nonces' = [LiveNonces EXCEPT ![c] = None]
     /\ handshakes' = [LiveHandshakes EXCEPT ![c] = None]
     /\ UNCHANGED <<now, pending, tokens, authorized, channels, historyVars>>

Proof2Accepted(c, t, n, h) ==
  /\ LiveNonces[c] # None /\ LiveHandshakes[c] # None
  /\ t \in tokens /\ n = LiveNonces[c].id /\ h = LiveHandshakes[c].id
  /\ nonces' = [LiveNonces EXCEPT ![c] = None]
  /\ handshakes' = [LiveHandshakes EXCEPT ![c] = None]
  /\ Install(c, h, t, n)
  /\ authorized' = [authorized EXCEPT ![c] = t]
  /\ uses' = [uses EXCEPT ![n] = @ + 1]
  /\ UNCHANGED <<now, pending, tokens, serial, opened, misses, grants, revoked>>

Proof2(c, t, n, h) == Proof2Refused(c, t, n, h) \/ Proof2Accepted(c, t, n, h)

Handle(c) ==
  \/ Hello(c) \/ Code(c) \/ Auth(c)
  \/ Hello2(c) \/ Hello2BadKey(c) \/ Code2(c) \/ Auth2(c) \/ Auth2BadKey(c)
  \/ \E t \in Token \union {NoToken}, n \in Serial :
       Proof(c, t, n) \/ \E h \in Serial : Proof2(c, t, n, h)
  \/ Malformed(c)

Next ==
  \/ SetClock
  \/ BeginPairing \/ ResetPairingWindow
  \/ \E cs \in SUBSET Central : EndSessions(cs)
  \/ EndAllSessions
  \/ \E t \in Token : RevokeToken(t)
  \/ RevokeAll
  \/ \E c \in Central : Handle(c)

Spec == Init /\ [][Next]_vars

-------------------------------------------------------------------------------
(* Properties *)

TypeOK ==
  /\ now \in Time
  /\ pending \in Window \union {None}
  /\ tokens \in SUBSET Token
  /\ authorized \in [Central -> Token \union {NoToken}]
  /\ nonces \in [Central -> Nonce \union {None}]
  /\ handshakes \in [Central -> Handshake \union {None}]
  /\ channels \in [Central -> Channel \union {None}]
  /\ serial \in 0 .. MaxSerial
  /\ opened \in 0 .. MaxOpened
  /\ misses \in Nat /\ grants \in Nat
  /\ revoked \in SUBSET Token
  /\ uses \in [Serial -> Nat] /\ installs \in [Serial -> Nat]

\* A session stands on a token that is still paired, and its sealed channel, if
\* any, is keyed with that very token: no re-pairing, downgrade to v1, revocation
\* or disconnect, in any order, leaves a channel behind (the `channels' field
\* "has the lifetime of authorized").
SessionSound ==
  \A c \in Central :
    /\ authorized[c] # NoToken => authorized[c] \in tokens
    /\ channels[c] # None => authorized[c] = channels[c].token

\* A window is worth MAX_ATTEMPTS guesses and one token, however the centrals share
\* it over v1 and v2: the wrong codes answered never exceed the attempts of the
\* begin_pairings so far, and every token handed out is paid for by one of its own.
WindowBudget ==
  /\ misses <= MaxAttempts * opened
  /\ grants <= opened

\* A revoked token opens no session again, not even with a nonce or a
\* handshake issued before the revocation, which revoke_token does not clear.
RevokedStaysOut ==
  /\ tokens \intersect revoked = {}
  /\ \A c \in Central : authorized[c] \notin revoked

\* What is fresh is used once, delivered twice or replayed after a reconnection: a
\* nonce authorizes at most once, and a handshake yields at most one channel.  Each
\* SealedChannel counts from zero, so a second one under the same key would repeat
\* AEAD nonces.
UsedOnce ==
  /\ \A n \in Serial : uses[n] <= 1
  /\ \A h \in Serial : installs[h] <= 1

\* The person typing the code is never cut off early: while the window is
\* open, a handshake begun in it has not expired, so CODE2 is judged on the
\* code.  Needs a clock that is not set back.
HandshakeOutlivesWindow ==
  \A c \in Central :
    /\ handshakes[c] # None /\ handshakes[c].win = opened
    /\ pending # None /\ ~Expired(pending)
    => LiveHandshakes[c] = handshakes[c]

-------------------------------------------------------------------------------
(* The inductive invariant.  The budgets count what the open window may still *)
(* spend; fresh values are in use by one central, unspent, and drawn already. *)

BudgetInv ==
  /\ misses + (IF pending = None THEN 0 ELSE pending.left) <= MaxAttempts * opened
  /\ grants + (IF pending = None THEN 0 ELSE 1) <= opened

NonceInv ==
  /\ \A c \in Central : nonces[c] # None =>
       nonces[c].id <= serial /\ uses[nonces[c].id] = 0
  /\ \A c, d \in Central :
       c # d /\ nonces[c] # None /\ nonces[d] # None => nonces[c].id # nonces[d].id
  /\ \A n \in Serial : uses[n] <= 1 /\ (n > serial => uses[n] = 0)

HandshakeInv ==
  /\ \A c \in Central : handshakes[c] # None =>
       handshakes[c].id <= serial /\ installs[handshakes[c].id] = 0
  /\ \A c, d \in Central :
       c # d /\ handshakes[c] # None /\ handshakes[d] # None =>
         handshakes[c].id # handshakes[d].id
  /\ \A h \in Serial : installs[h] <= 1 /\ (h > serial => installs[h] = 0)

\* With a clock that is not set back, a handshake of the window is no older
\* than the window and lives as long.
ClockInv ==
  /\ pending # None => pending.at <= now /\ opened > 0
  /\ \A c \in Central : handshakes[c] # None =>
       /\ handshakes[c].win <= opened
       /\ handshakes[c].win = opened /\ pending # None =>
            handshakes[c].ttl = CodeTTL /\ pending.at <= handshakes[c].at

\* What is proved inductive; it implies every invariant above.
IInv ==
  /\ TypeOK
  /\ SessionSound
  /\ BudgetInv
  /\ RevokedStaysOut
  /\ NonceInv
  /\ HandshakeInv
  /\ Monotonic => ClockInv

-------------------------------------------------------------------------------
(* Refinement *)

\* The window of Access is one that a code may still be tried in.
Promise == INSTANCE Access WITH
  window  <- Usable(pending),
  paired  <- tokens,
  retired <- revoked,
  session <- authorized

\* Pairing keeps every promise of Access: whatever requests the centrals make, in
\* whatever order, a token is minted only from an open window, a session is
\* opened only by a paired token, and a revoked token is gone for good.
ImplementsAccess == Promise!AccessSpec

=============================================================================
