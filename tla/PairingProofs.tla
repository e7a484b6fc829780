---------------------------- MODULE PairingProofs -----------------------------
(***************************************************************************)
(* Theorems about PairingManager (module Pairing), for any number of       *)
(* centrals and tokens, any TTLs, attempt budget and bounds.               *)
(*                                                                         *)
(* Every invariant follows from IInv.  The proof that a step preserves it  *)
(* is cut by conjunct: for each, a few step shapes that preserve it, and   *)
(* one step per action saying which shape it has.                          *)
(***************************************************************************)
EXTENDS Pairing, TLAPS

-------------------------------------------------------------------------------
(* Types *)

\* Sweeping keeps entries or drops them.
LEMMA SweepShrinks ==
  ASSUME TypeOK
  PROVE  /\ LiveNonces \in [Central -> Nonce \union {None}]
         /\ LiveHandshakes \in [Central -> Handshake \union {None}]
         /\ LivePending \in {pending, None}
         /\ \A c \in Central : LiveNonces[c] \in {nonces[c], None}
         /\ \A c \in Central : LiveHandshakes[c] \in {handshakes[c], None}
  BY DEF TypeOK, LiveNonces, LiveHandshakes, LivePending

\* An entry of a map is not the absent one.
LEMMA EntriesArePresent ==
  /\ \A w \in Window : w # None
  /\ \A n \in Nonce : n # None
  /\ \A h \in Handshake : h # None
  /\ \A ch \in Channel : ch # None
  BY NoneAssumption

LEMMA InitType == Init => TypeOK
  BY ConstantsAssumption DEF Init, TypeOK, Time, Serial

\* A request of one central keeps the types.
LEMMA HandleType ==
  ASSUME TypeOK, NEW c \in Central, Handle(c)
  PROVE  TypeOK'
<1> USE ConstantsAssumption, SweepShrinks
<1>1. ASSUME Refuse PROVE TypeOK'
  BY <1>1 DEF Refuse, Sweep, SweepNonces, SweepHandshakes, historyVars, TypeOK
<1>2. ASSUME RefuseAtWindow PROVE TypeOK'
  BY <1>2 DEF RefuseAtWindow, Sweep, SweepNonces, SweepHandshakes, historyVars, TypeOK
<1>3. ASSUME Miss PROVE pending' \in Window \union {None} /\ misses' \in Nat
  <2>1. LivePending \in Window /\ LivePending.left > 0
    BY <1>3 DEF Miss, Usable, TypeOK
  <2>2. LivePending.left - 1 \in 0 .. MaxAttempts
    BY <2>1 DEF Window
  <2>3. QED BY <1>3, <2>1, <2>2 DEF Miss, Window, TypeOK
<1>4. ASSUME CodeWrong(c) PROVE TypeOK'
  BY <1>3, <1>4 DEF CodeWrong, Miss, Sweep, SweepNonces, SweepHandshakes, TypeOK
<1>5. ASSUME NEW t \in Token, CodeRight(c, t) PROVE TypeOK'
  BY <1>5 DEF CodeRight, Grant, SweepNonces, TypeOK
<1>6. ASSUME serial < MaxSerial
      PROVE  /\ serial + 1 \in Serial /\ serial + 1 \in 0 .. MaxSerial
             /\ [id |-> serial + 1, at |-> now] \in Nonce
             /\ \A ttl \in {CodeTTL, NonceTTL}, win \in 0 .. MaxOpened :
                  [id |-> serial + 1, at |-> now, ttl |-> ttl, win |-> win] \in Handshake
  <2>1. serial + 1 \in Serial /\ serial + 1 \in 0 .. MaxSerial
    BY <1>6 DEF TypeOK, Serial
  <2>2. QED BY <2>1 DEF TypeOK, Nonce, Handshake
<1>7. ASSUME Auth(c) PROVE TypeOK'
  BY <1>6, <1>7 DEF Auth, SweepHandshakes, TypeOK
<1>8. ASSUME Hello2(c) PROVE TypeOK'
  BY <1>6, <1>8 DEF Hello2, SweepNonces, TypeOK
<1>9. ASSUME Auth2(c) PROVE TypeOK'
  BY <1>6, <1>9 DEF Auth2, TypeOK
<1>10. ASSUME Code2Refused(c) PROVE TypeOK'
  BY <1>1, <1>10 DEF Code2Refused, SweepNonces, historyVars, TypeOK
<1>11. ASSUME Code2Wrong(c) PROVE TypeOK'
  BY <1>3, <1>11 DEF Code2Wrong, Miss, SweepNonces, TypeOK
<1>12. ASSUME NEW h \in Serial, NEW t \in Token, NEW n \in Serial, Install(c, h, t, n)
       PROVE  channels' \in [Central -> Channel \union {None}] /\ installs' \in [Serial -> Nat]
  <2>1. [hs |-> h, token |-> t, nonce |-> n] \in Channel
    BY DEF Channel
  <2>2. QED BY <1>12, <2>1 DEF Install, TypeOK
<1>13. ASSUME NEW t \in Token, Code2Right(c, t) PROVE TypeOK'
  <2>1. LiveHandshakes[c].id \in Serial
    BY <1>13 DEF Code2Right, Handshake
  <2>2. channels' \in [Central -> Channel \union {None}] /\ installs' \in [Serial -> Nat]
    BY <1>12, <1>13, <2>1 DEF Code2Right
  <2>3. /\ nonces' = LiveNonces /\ handshakes' = [LiveHandshakes EXCEPT ![c] = None]
        /\ Grant(c, t)
    BY <1>13 DEF Code2Right, SweepNonces
  <2>4. nonces' \in [Central -> Nonce \union {None}]
        /\ handshakes' \in [Central -> Handshake \union {None}]
    BY <2>3
  <2>5. QED BY <2>2, <2>3, <2>4 DEF Grant, TypeOK
<1>14. ASSUME NEW t \in Token \union {NoToken}, NEW n \in Serial, Proof(c, t, n)
       PROVE  TypeOK'
  <2>1. CASE ProofRefused(c, t, n)
    BY <2>1 DEF ProofRefused, SweepHandshakes, historyVars, TypeOK
  <2>2. CASE ProofAccepted(c, t, n)
    BY <2>2 DEF ProofAccepted, TypeOK
  <2>3. QED BY <1>14, <2>1, <2>2 DEF Proof
<1>15. ASSUME NEW t \in Token \union {NoToken}, NEW n \in Serial, NEW h \in Serial,
              Proof2(c, t, n, h)
       PROVE  TypeOK'
  <2>1. CASE Proof2Refused(c, t, n, h)
    BY <1>1, <2>1 DEF Proof2Refused, historyVars, TypeOK
  <2>2. CASE Proof2Accepted(c, t, n, h)
    <3>1. t \in Token
      BY <2>2 DEF Proof2Accepted, TypeOK
    <3>2. channels' \in [Central -> Channel \union {None}] /\ installs' \in [Serial -> Nat]
      BY <1>12, <2>2, <3>1 DEF Proof2Accepted
    <3>3. nonces' \in [Central -> Nonce \union {None}]
          /\ handshakes' \in [Central -> Handshake \union {None}]
      BY <2>2 DEF Proof2Accepted
    <3>4. authorized' \in [Central -> Token \union {NoToken}] /\ uses' \in [Serial -> Nat]
      BY <2>2, <3>1 DEF Proof2Accepted, TypeOK
    <3>5. UNCHANGED <<now, pending, tokens, serial, opened, misses, grants, revoked>>
      BY <2>2 DEF Proof2Accepted
    <3>6. QED BY <3>2, <3>3, <3>4, <3>5 DEF TypeOK
  <2>3. QED BY <1>15, <2>1, <2>2 DEF Proof2
<1>16. QED
  BY <1>1, <1>2, <1>4, <1>5, <1>7, <1>8, <1>9, <1>10, <1>11, <1>13, <1>14, <1>15
     DEF Handle, Hello, Hello2BadKey, Auth2BadKey, Malformed, Code, CodeRefused, Code2

LEMMA NextType == TypeOK /\ [Next]_vars => TypeOK'
<1> SUFFICES ASSUME TypeOK, [Next]_vars PROVE TypeOK'
  OBVIOUS
<1> USE ConstantsAssumption
<1>1. CASE SetClock
  BY <1>1 DEF SetClock, managerVars, historyVars, TypeOK
<1>2. CASE BeginPairing
  <2>1. [left |-> MaxAttempts, at |-> now] \in Window
    BY DEF Window, TypeOK
  <2>2. QED BY <1>2, <2>1 DEF BeginPairing, TypeOK
<1>3. CASE ResetPairingWindow
  BY <1>3 DEF ResetPairingWindow, historyVars, TypeOK
<1>4. ASSUME NEW cs \in SUBSET Central, EndSessions(cs) PROVE TypeOK'
  BY <1>4 DEF EndSessions, historyVars, TypeOK
<1>5. CASE EndAllSessions
  BY <1>5 DEF EndAllSessions, historyVars, TypeOK
<1>6. ASSUME NEW t \in Token, RevokeToken(t) PROVE TypeOK'
  BY <1>6 DEF RevokeToken, TypeOK
<1>7. CASE RevokeAll
  BY <1>7 DEF RevokeAll, TypeOK
<1>8. CASE UNCHANGED vars
  BY <1>8 DEF vars, managerVars, historyVars, TypeOK
<1>9. QED
  BY <1>1, <1>2, <1>3, <1>4, <1>5, <1>6, <1>7, <1>8, HandleType DEF Next

\* The type invariant, for every value of the constants.
THEOREM TypeCorrect == Spec => []TypeOK
<1>1. QED BY InitType, NextType, PTL DEF Spec

-------------------------------------------------------------------------------
(* Sessions *)

LEMMA SessionStep ==
  ASSUME TypeOK, SessionSound, RevokedStaysOut, [Next]_vars
  PROVE  SessionSound' /\ RevokedStaysOut'
<1> USE ConstantsAssumption DEF SessionSound, RevokedStaysOut
<1>1. ASSUME UNCHANGED <<tokens, authorized, channels, revoked>>
      PROVE  SessionSound' /\ RevokedStaysOut'
  BY <1>1
<1>2. ASSUME NEW cs \in SUBSET Central, UNCHANGED <<tokens, revoked>>,
             authorized' = [c \in Central |-> IF c \in cs THEN NoToken ELSE authorized[c]],
             channels' = [c \in Central |-> IF c \in cs THEN None ELSE channels[c]]
      PROVE  SessionSound' /\ RevokedStaysOut'
  BY <1>2, TypeOK DEF TypeOK
<1>3. CASE EndAllSessions
  BY <1>3 DEF EndAllSessions, historyVars, TypeOK
<1>4. ASSUME NEW t \in Token, RevokeToken(t) PROVE SessionSound' /\ RevokedStaysOut'
  BY <1>4, EntriesArePresent DEF RevokeToken, TypeOK
<1>5. CASE RevokeAll
  BY <1>5 DEF RevokeAll, TypeOK
<1>6. ASSUME NEW c \in Central, NEW t \in Token, Grant(c, t),
             \/ channels' = [channels EXCEPT ![c] = None]
             \/ \E h \in Serial, n \in Serial : Install(c, h, t, n)
      PROVE  SessionSound' /\ RevokedStaysOut'
  BY <1>6 DEF Grant, Install, TypeOK
<1>7. ASSUME NEW c \in Central, NEW t \in Token, t \in tokens,
             UNCHANGED <<tokens, revoked>>, authorized' = [authorized EXCEPT ![c] = t],
             \/ channels' = [channels EXCEPT ![c] = None]
             \/ \E h \in Serial, n \in Serial : Install(c, h, t, n)
      PROVE  SessionSound' /\ RevokedStaysOut'
  BY <1>7 DEF Install, TypeOK
<1>8. ASSUME NEW c \in Central, Handle(c) PROVE SessionSound' /\ RevokedStaysOut'
  <2>1. CASE Hello(c) \/ Hello2BadKey(c) \/ Auth2BadKey(c) \/ Malformed(c)
    BY <1>1, <2>1 DEF Hello, Hello2BadKey, Auth2BadKey, Malformed, Refuse, RefuseAtWindow,
                      historyVars
  <2>2. CASE CodeRefused(c) \/ CodeWrong(c) \/ Code2Refused(c) \/ Code2Wrong(c)
    BY <1>1, <2>2 DEF CodeRefused, CodeWrong, Code2Refused, Code2Wrong, Miss, Refuse,
                      RefuseAtWindow, historyVars
  <2>3. CASE Auth(c) \/ Hello2(c) \/ Auth2(c)
    BY <1>1, <2>3 DEF Auth, Hello2, Auth2
  <2>4. ASSUME NEW t \in Token, CodeRight(c, t) PROVE SessionSound' /\ RevokedStaysOut'
    BY <1>6, <2>4 DEF CodeRight
  <2>5. ASSUME NEW t \in Token, Code2Right(c, t) PROVE SessionSound' /\ RevokedStaysOut'
    <3>1. LiveHandshakes[c].id \in Serial
      BY <2>5, SweepShrinks DEF Code2Right, Handshake
    <3>2. QED BY <1>6, <2>5, <3>1 DEF Code2Right
  <2>6. ASSUME NEW t \in Token \union {NoToken}, NEW n \in Serial, Proof(c, t, n)
        PROVE  SessionSound' /\ RevokedStaysOut'
    <3>1. CASE ProofRefused(c, t, n)
      BY <1>1, <3>1 DEF ProofRefused, historyVars
    <3>2. CASE ProofAccepted(c, t, n)
      BY <1>7, <3>2 DEF ProofAccepted, TypeOK
    <3>3. QED BY <2>6, <3>1, <3>2 DEF Proof
  <2>7. ASSUME NEW t \in Token \union {NoToken}, NEW n \in Serial, NEW h \in Serial,
               Proof2(c, t, n, h)
        PROVE  SessionSound' /\ RevokedStaysOut'
    <3>1. CASE Proof2Refused(c, t, n, h)
      BY <1>1, <3>1 DEF Proof2Refused, Refuse, historyVars
    <3>2. CASE Proof2Accepted(c, t, n, h)
      BY <1>7, <3>2 DEF Proof2Accepted, TypeOK
    <3>3. QED BY <2>7, <3>1, <3>2 DEF Proof2
  <2>8. QED
    BY <1>8, <2>1, <2>2, <2>3, <2>4, <2>5, <2>6, <2>7 DEF Handle, Code, Code2
<1>9. CASE SetClock \/ BeginPairing \/ ResetPairingWindow \/ UNCHANGED vars
  BY <1>1, <1>9 DEF SetClock, BeginPairing, ResetPairingWindow, vars, managerVars, historyVars
<1>10. ASSUME NEW cs \in SUBSET Central, EndSessions(cs)
       PROVE  SessionSound' /\ RevokedStaysOut'
  BY <1>2, <1>10 DEF EndSessions, historyVars
<1>11. QED
  BY <1>3, <1>4, <1>5, <1>8, <1>9, <1>10 DEF Next

-------------------------------------------------------------------------------
(* Budgets *)

LEMMA BudgetStep ==
  ASSUME TypeOK, BudgetInv, [Next]_vars
  PROVE  BudgetInv'
<1> USE ConstantsAssumption DEF BudgetInv
<1>1. MaxAttempts * (opened + 1) = MaxAttempts * opened + MaxAttempts
      /\ MaxAttempts * opened \in Nat
  BY DEF TypeOK
<1>2. ASSUME UNCHANGED <<opened, misses, grants>>, pending' \in {pending, None}
      PROVE  BudgetInv'
  BY <1>1, <1>2 DEF TypeOK, Window
<1>3. CASE BeginPairing
  <2>1. /\ pending' # None /\ pending'.left = MaxAttempts
        /\ opened' = opened + 1 /\ UNCHANGED <<misses, grants>>
    BY <1>3, EntriesArePresent DEF BeginPairing, TypeOK, Window
  <2>2. QED BY <1>1, <2>1 DEF TypeOK, Window
<1>4. ASSUME Miss PROVE BudgetInv'
  <2>1. LivePending = pending /\ pending \in Window /\ pending.left > 0
    BY <1>4 DEF Miss, Usable, LivePending, TypeOK
  <2>2. pending' # None /\ pending'.left = pending.left - 1
    <3>1. pending' = [pending EXCEPT !.left = @ - 1]
      BY <1>4, <2>1 DEF Miss
    <3>2. pending.left - 1 \in 0 .. MaxAttempts
      BY <2>1 DEF Window
    <3>3. pending' \in Window
      BY <2>1, <3>1, <3>2 DEF Window
    <3>4. QED BY <2>1, <3>1, <3>3, EntriesArePresent DEF Window
  <2>3. misses' = misses + 1 /\ UNCHANGED <<opened, grants>>
    BY <1>4 DEF Miss
  <2>4. QED BY <1>1, <2>1, <2>2, <2>3, EntriesArePresent DEF TypeOK, Window
<1>5. ASSUME NEW c \in Central, NEW t \in Token, Grant(c, t) PROVE BudgetInv'
  <2>1. pending # None /\ pending.left \in Nat
    BY <1>5 DEF Grant, Usable, LivePending, TypeOK, Window
  <2>2. pending' = None /\ grants' = grants + 1 /\ UNCHANGED <<opened, misses>>
    BY <1>5 DEF Grant
  <2>3. QED BY <1>1, <2>1, <2>2 DEF TypeOK
<1>6. ASSUME NEW c \in Central, Handle(c) PROVE BudgetInv'
  <2> USE SweepShrinks
  <2>1. CASE Hello(c) \/ Hello2BadKey(c) \/ Auth2BadKey(c) \/ Malformed(c)
    BY <1>2, <2>1 DEF Hello, Hello2BadKey, Auth2BadKey, Malformed, Refuse, RefuseAtWindow,
                      historyVars
  <2>2. CASE CodeRefused(c) \/ Code2Refused(c)
    BY <1>2, <2>2 DEF CodeRefused, Code2Refused, Refuse, RefuseAtWindow, historyVars
  <2>3. CASE CodeWrong(c) \/ Code2Wrong(c)
    BY <1>4, <2>3 DEF CodeWrong, Code2Wrong
  <2>4. CASE Auth(c) \/ Hello2(c) \/ Auth2(c)
    BY <1>2, <2>4 DEF Auth, Hello2, Auth2
  <2>5. ASSUME NEW t \in Token, CodeRight(c, t) \/ Code2Right(c, t) PROVE BudgetInv'
    BY <1>5, <2>5 DEF CodeRight, Code2Right
  <2>6. ASSUME NEW t \in Token \union {NoToken}, NEW n \in Serial, Proof(c, t, n)
        PROVE  BudgetInv'
    BY <1>2, <2>6 DEF Proof, ProofRefused, ProofAccepted, historyVars
  <2>7. ASSUME NEW t \in Token \union {NoToken}, NEW n \in Serial, NEW h \in Serial,
               Proof2(c, t, n, h)
        PROVE  BudgetInv'
    BY <1>2, <2>7 DEF Proof2, Proof2Refused, Proof2Accepted, Refuse, historyVars
  <2>8. QED
    BY <1>6, <2>1, <2>2, <2>3, <2>4, <2>5, <2>6, <2>7 DEF Handle, Code, Code2
<1>7. CASE SetClock \/ ResetPairingWindow \/ EndAllSessions \/ RevokeAll \/ UNCHANGED vars
  BY <1>2, <1>7 DEF SetClock, ResetPairingWindow, EndAllSessions, RevokeAll,
                    vars, managerVars, historyVars
<1>8. ASSUME NEW cs \in SUBSET Central, EndSessions(cs) PROVE BudgetInv'
  BY <1>2, <1>8 DEF EndSessions, historyVars
<1>9. ASSUME NEW t \in Token, RevokeToken(t) PROVE BudgetInv'
  BY <1>2, <1>9 DEF RevokeToken
<1>10. QED
  BY <1>3, <1>6, <1>7, <1>8, <1>9 DEF Next

-------------------------------------------------------------------------------
(* Fresh values.  Nonces and handshakes are kept alike: entries are dropped, *)
(* drawn from serial, or consumed with a use counted. *)

LEMMA NonceShrink ==
  ASSUME TypeOK, NonceInv, serial' \in Nat, serial <= serial', UNCHANGED uses,
         \A c \in Central : nonces'[c] \in {nonces[c], None}
  PROVE  NonceInv'
<1>1. serial \in Nat /\ \A n \in Serial : n \in Nat
  BY ConstantsAssumption DEF TypeOK, Serial
<1>2. \A c \in Central : nonces[c] # None => nonces[c].id \in Serial
  BY DEF TypeOK, Nonce
<1>3. \A c \in Central : nonces'[c] # None =>
        nonces'[c].id <= serial' /\ uses'[nonces'[c].id] = 0
  BY <1>1, <1>2 DEF NonceInv
<1>4. \A c, d \in Central : c # d /\ nonces'[c] # None /\ nonces'[d] # None =>
        nonces'[c].id # nonces'[d].id
  BY DEF NonceInv
<1>5. \A n \in Serial : uses'[n] <= 1 /\ (n > serial' => uses'[n] = 0)
  BY <1>1 DEF NonceInv
<1>6. QED BY <1>3, <1>4, <1>5 DEF NonceInv

LEMMA NonceDraw ==
  ASSUME TypeOK, NonceInv, NEW c \in Central, serial < MaxSerial,
         serial' = serial + 1, UNCHANGED uses,
         nonces' = [LiveNonces EXCEPT ![c] = [id |-> serial + 1, at |-> now]]
  PROVE  NonceInv'
<1>1. /\ \A d \in Central \ {c} : nonces'[d] \in {nonces[d], None}
      /\ nonces'[c].id = serial + 1
  BY SweepShrinks
<1>2. serial + 1 \in Serial /\ serial \in Nat
  BY ConstantsAssumption DEF TypeOK, Serial
<1>3. \A d \in Central : nonces[d] # None => nonces[d].id \in Serial
  BY DEF TypeOK, Nonce
<1>4. QED BY <1>1, <1>2, <1>3 DEF TypeOK, NonceInv, Serial

LEMMA NonceUse ==
  ASSUME TypeOK, NonceInv, NEW c \in Central, LiveNonces[c] # None,
         UNCHANGED serial, uses' = [uses EXCEPT ![LiveNonces[c].id] = @ + 1],
         nonces' = [LiveNonces EXCEPT ![c] = None]
  PROVE  NonceInv'
<1> DEFINE n == nonces[c].id
<1>1. nonces[c] # None /\ LiveNonces[c] = nonces[c] /\ n \in Serial
  BY DEF TypeOK, Nonce, LiveNonces
<1>2. nonces'[c] = None /\ \A d \in Central \ {c} : nonces'[d] \in {nonces[d], None}
  BY SweepShrinks
<1>3. uses' = [uses EXCEPT ![n] = @ + 1] /\ uses[n] = 0 /\ n <= serial
  BY <1>1 DEF NonceInv
<1>4. uses'[n] = 1 /\ \A m \in Serial \ {n} : uses'[m] = uses[m]
  BY <1>1, <1>3 DEF TypeOK
<1>5. \A d \in Central \ {c} : nonces[d] # None => nonces[d].id # n /\ nonces[d].id \in Serial
  BY <1>1 DEF NonceInv, TypeOK, Nonce
<1>6. serial \in Nat /\ \A m \in Serial : m \in Nat
  BY ConstantsAssumption DEF TypeOK, Serial
<1> HIDE DEF n
<1>7. \A d \in Central : nonces'[d] # None =>
        nonces'[d].id <= serial' /\ uses'[nonces'[d].id] = 0
  <2> SUFFICES ASSUME NEW d \in Central, nonces'[d] # None
               PROVE  nonces'[d].id <= serial' /\ uses'[nonces'[d].id] = 0
    OBVIOUS
  <2>1. d # c /\ nonces'[d] = nonces[d] /\ nonces[d] # None
    BY <1>2
  <2>2. nonces[d].id <= serial /\ uses[nonces[d].id] = 0
    BY <2>1 DEF NonceInv
  <2>3. uses'[nonces[d].id] = uses[nonces[d].id]
    BY <1>4, <1>5, <2>1
  <2>4. QED BY <2>1, <2>2, <2>3
<1>8. \A d, e \in Central : d # e /\ nonces'[d] # None /\ nonces'[e] # None =>
        nonces'[d].id # nonces'[e].id
  BY <1>2 DEF NonceInv
<1>9. \A m \in Serial : uses'[m] <= 1 /\ (m > serial' => uses'[m] = 0)
  BY <1>1, <1>3, <1>4, <1>6 DEF NonceInv
<1>10. QED BY <1>7, <1>8, <1>9 DEF NonceInv

LEMMA HandshakeShrink ==
  ASSUME TypeOK, HandshakeInv, serial' \in Nat, serial <= serial', UNCHANGED installs,
         \A c \in Central : handshakes'[c] \in {handshakes[c], None}
  PROVE  HandshakeInv'
<1>1. serial \in Nat /\ \A n \in Serial : n \in Nat
  BY ConstantsAssumption DEF TypeOK, Serial
<1>2. \A c \in Central : handshakes[c] # None => handshakes[c].id \in Serial
  BY DEF TypeOK, Handshake
<1>3. \A c \in Central : handshakes'[c] # None =>
        handshakes'[c].id <= serial' /\ installs'[handshakes'[c].id] = 0
  BY <1>1, <1>2 DEF HandshakeInv
<1>4. \A c, d \in Central : c # d /\ handshakes'[c] # None /\ handshakes'[d] # None =>
        handshakes'[c].id # handshakes'[d].id
  BY DEF HandshakeInv
<1>5. \A n \in Serial : installs'[n] <= 1 /\ (n > serial' => installs'[n] = 0)
  BY <1>1 DEF HandshakeInv
<1>6. QED BY <1>3, <1>4, <1>5 DEF HandshakeInv

LEMMA HandshakeDraw ==
  ASSUME TypeOK, HandshakeInv, NEW c \in Central, NEW h, h.id = serial + 1,
         serial < MaxSerial, serial' = serial + 1, UNCHANGED installs,
         handshakes' = [LiveHandshakes EXCEPT ![c] = h]
  PROVE  HandshakeInv'
<1>1. /\ \A d \in Central \ {c} : handshakes'[d] \in {handshakes[d], None}
      /\ handshakes'[c].id = serial + 1
  BY SweepShrinks
<1>2. serial + 1 \in Serial /\ serial \in Nat
  BY ConstantsAssumption DEF TypeOK, Serial
<1>3. \A d \in Central : handshakes[d] # None => handshakes[d].id \in Serial
  BY DEF TypeOK, Handshake
<1>4. QED BY <1>1, <1>2, <1>3 DEF TypeOK, HandshakeInv, Serial

LEMMA HandshakeUse ==
  ASSUME TypeOK, HandshakeInv, NEW c \in Central, LiveHandshakes[c] # None,
         UNCHANGED serial, installs' = [installs EXCEPT ![LiveHandshakes[c].id] = @ + 1],
         handshakes' = [LiveHandshakes EXCEPT ![c] = None]
  PROVE  HandshakeInv'
<1> DEFINE h == handshakes[c].id
<1>1. handshakes[c] # None /\ LiveHandshakes[c] = handshakes[c] /\ h \in Serial
  BY DEF TypeOK, Handshake, LiveHandshakes
<1>2. handshakes'[c] = None
      /\ \A d \in Central \ {c} : handshakes'[d] \in {handshakes[d], None}
  BY SweepShrinks
<1>3. installs' = [installs EXCEPT ![h] = @ + 1] /\ installs[h] = 0 /\ h <= serial
  BY <1>1 DEF HandshakeInv
<1>4. installs'[h] = 1 /\ \A m \in Serial \ {h} : installs'[m] = installs[m]
  BY <1>1, <1>3 DEF TypeOK
<1>5. \A d \in Central \ {c} : handshakes[d] # None =>
        handshakes[d].id # h /\ handshakes[d].id \in Serial
  BY <1>1 DEF HandshakeInv, TypeOK, Handshake
<1>6. serial \in Nat /\ \A m \in Serial : m \in Nat
  BY ConstantsAssumption DEF TypeOK, Serial
<1> HIDE DEF h
<1>7. \A d \in Central : handshakes'[d] # None =>
        handshakes'[d].id <= serial' /\ installs'[handshakes'[d].id] = 0
  <2> SUFFICES ASSUME NEW d \in Central, handshakes'[d] # None
               PROVE  handshakes'[d].id <= serial' /\ installs'[handshakes'[d].id] = 0
    OBVIOUS
  <2>1. d # c /\ handshakes'[d] = handshakes[d] /\ handshakes[d] # None
    BY <1>2
  <2>2. handshakes[d].id <= serial /\ installs[handshakes[d].id] = 0
    BY <2>1 DEF HandshakeInv
  <2>3. installs'[handshakes[d].id] = installs[handshakes[d].id]
    BY <1>4, <1>5, <2>1
  <2>4. QED BY <2>1, <2>2, <2>3
<1>8. \A d, e \in Central : d # e /\ handshakes'[d] # None /\ handshakes'[e] # None =>
        handshakes'[d].id # handshakes'[e].id
  BY <1>2 DEF HandshakeInv
<1>9. \A m \in Serial : installs'[m] <= 1 /\ (m > serial' => installs'[m] = 0)
  BY <1>1, <1>3, <1>4, <1>6 DEF HandshakeInv
<1>10. QED BY <1>7, <1>8, <1>9 DEF HandshakeInv

\* Whatever a central asks, the sweep and its request treat both maps alike.
LEMMA HandleFresh ==
  ASSUME TypeOK, NonceInv, HandshakeInv, NEW c \in Central, Handle(c)
  PROVE  NonceInv' /\ HandshakeInv'
<1> USE SweepShrinks, ConstantsAssumption
<1>1. serial \in Nat /\ serial <= serial + 1 /\ serial + 1 \in Nat
  BY DEF TypeOK
<1>2. ASSUME UNCHANGED <<serial, uses>>, nonces' = LiveNonces
                                     \/ nonces' = [LiveNonces EXCEPT ![c] = None]
      PROVE  NonceInv'
  BY <1>1, <1>2, NonceShrink
<1>3. ASSUME UNCHANGED <<serial, installs>>,
             \/ handshakes' = LiveHandshakes
             \/ handshakes' = [LiveHandshakes EXCEPT ![c] = None]
      PROVE  HandshakeInv'
  BY <1>1, <1>3, HandshakeShrink
<1>4. CASE Refuse \/ RefuseAtWindow
  BY <1>2, <1>3, <1>4 DEF Refuse, RefuseAtWindow, Sweep, SweepNonces, SweepHandshakes,
                          historyVars
<1>5. CASE CodeWrong(c) \/ Code2Wrong(c)
  BY <1>2, <1>3, <1>5 DEF CodeWrong, Code2Wrong, Miss, Sweep, SweepNonces, SweepHandshakes
<1>6. ASSUME NEW t \in Token, CodeRight(c, t) PROVE NonceInv' /\ HandshakeInv'
  BY <1>2, <1>3, <1>6 DEF CodeRight, Grant, SweepNonces
<1>7. CASE Auth(c)
  <2>1. NonceInv'
    BY <1>7, NonceDraw DEF Auth
  <2>2. HandshakeInv'
    BY <1>1, <1>7, HandshakeShrink DEF Auth, SweepHandshakes
  <2>3. QED BY <2>1, <2>2
<1>8. CASE Hello2(c)
  <2>1. NonceInv'
    BY <1>1, <1>8, NonceShrink DEF Hello2, SweepNonces
  <2>2. HandshakeInv'
    BY <1>8, HandshakeDraw DEF Hello2
  <2>3. QED BY <2>1, <2>2
<1>9. CASE Auth2(c)
  <2>1. NonceInv'
    BY <1>9, NonceDraw DEF Auth2
  <2>2. HandshakeInv'
    BY <1>9, HandshakeDraw DEF Auth2
  <2>3. QED BY <2>1, <2>2
<1>10. CASE Code2Refused(c)
  BY <1>2, <1>3, <1>4, <1>10 DEF Code2Refused, SweepNonces, historyVars
<1>11. ASSUME NEW t \in Token, Code2Right(c, t) PROVE NonceInv' /\ HandshakeInv'
  <2>1. NonceInv'
    BY <1>2, <1>11 DEF Code2Right, Grant, SweepNonces
  <2>2. HandshakeInv'
    BY <1>11, HandshakeUse DEF Code2Right, Grant, Install
  <2>3. QED BY <2>1, <2>2
<1>12. ASSUME NEW t \in Token \union {NoToken}, NEW n \in Serial, Proof(c, t, n)
       PROVE  NonceInv' /\ HandshakeInv'
  <2>1. CASE ProofRefused(c, t, n)
    BY <1>2, <1>3, <2>1 DEF ProofRefused, SweepHandshakes, historyVars
  <2>2. CASE ProofAccepted(c, t, n)
    <3>1. NonceInv'
      BY <2>2, NonceUse DEF ProofAccepted
    <3>2. HandshakeInv'
      BY <1>3, <2>2 DEF ProofAccepted
    <3>3. QED BY <3>1, <3>2
  <2>3. QED BY <1>12, <2>1, <2>2 DEF Proof
<1>13. ASSUME NEW t \in Token \union {NoToken}, NEW n \in Serial, NEW h \in Serial,
              Proof2(c, t, n, h)
       PROVE  NonceInv' /\ HandshakeInv'
  <2>1. CASE Proof2Refused(c, t, n, h)
    BY <1>2, <1>3, <1>4, <2>1 DEF Proof2Refused, historyVars
  <2>2. CASE Proof2Accepted(c, t, n, h)
    <3>1. NonceInv'
      BY <2>2, NonceUse DEF Proof2Accepted
    <3>2. HandshakeInv'
      BY <2>2, HandshakeUse DEF Proof2Accepted, Install
    <3>3. QED BY <3>1, <3>2
  <2>3. QED BY <1>13, <2>1, <2>2 DEF Proof2
<1>14. QED
  BY <1>4, <1>5, <1>6, <1>7, <1>8, <1>9, <1>10, <1>11, <1>12, <1>13
     DEF Handle, Hello, Hello2BadKey, Auth2BadKey, Malformed, Code, CodeRefused, Code2

LEMMA FreshStep ==
  ASSUME TypeOK, NonceInv, HandshakeInv, [Next]_vars
  PROVE  NonceInv' /\ HandshakeInv'
<1>1. ASSUME UNCHANGED <<serial, uses, installs>>,
             \A c \in Central : nonces'[c] \in {nonces[c], None},
             \A c \in Central : handshakes'[c] \in {handshakes[c], None}
      PROVE  NonceInv' /\ HandshakeInv'
  <2>1. serial' \in Nat /\ serial <= serial'
    BY <1>1 DEF TypeOK
  <2>2. QED BY <1>1, <2>1, NonceShrink, HandshakeShrink
<1>2. CASE SetClock \/ BeginPairing \/ ResetPairingWindow \/ UNCHANGED vars
  BY <1>1, <1>2 DEF SetClock, BeginPairing, ResetPairingWindow, vars, managerVars, historyVars
<1>3. ASSUME NEW cs \in SUBSET Central, EndSessions(cs) PROVE NonceInv' /\ HandshakeInv'
  BY <1>1, <1>3 DEF EndSessions, historyVars, TypeOK
<1>4. CASE EndAllSessions \/ RevokeAll
  BY <1>1, <1>4 DEF EndAllSessions, RevokeAll, historyVars, TypeOK
<1>5. ASSUME NEW t \in Token, RevokeToken(t) PROVE NonceInv' /\ HandshakeInv'
  BY <1>1, <1>5 DEF RevokeToken, TypeOK
<1>6. QED BY <1>2, <1>3, <1>4, <1>5, HandleFresh DEF Next

-------------------------------------------------------------------------------
(* The clock *)

\* Steps that leave the window, or close it, and at most drop handshakes.
LEMMA ClockKeep ==
  ASSUME TypeOK, ClockInv, now <= now', now' \in Nat, UNCHANGED opened,
         pending' # None => pending # None /\ pending'.at = pending.at,
         \A c \in Central : handshakes'[c] \in {handshakes[c], None}
  PROVE  ClockInv'
<1>1. now \in Nat /\ (pending # None => pending.at \in Nat)
  BY ConstantsAssumption DEF TypeOK, Window, Time
<1>2. QED BY <1>1 DEF ClockInv

LEMMA ClockHandle ==
  ASSUME TypeOK, ClockInv, NEW c \in Central, Handle(c)
  PROVE  ClockInv'
<1> USE SweepShrinks, ConstantsAssumption
<1>1. now \in Nat /\ opened \in Nat
      /\ (pending # None => pending \in Window /\ pending.at \in Nat)
  BY DEF TypeOK, Window, Time
<1>2. ASSUME UNCHANGED <<now, opened>>, pending' \in {pending, None},
             \/ handshakes' = LiveHandshakes
             \/ handshakes' = [LiveHandshakes EXCEPT ![c] = None]
      PROVE  ClockInv'
  BY <1>1, <1>2, ClockKeep
<1>3. CASE Refuse \/ RefuseAtWindow
  BY <1>2, <1>3 DEF Refuse, RefuseAtWindow, Sweep, SweepHandshakes, historyVars
<1>4. CASE CodeWrong(c) \/ Code2Wrong(c)
  <2>1. pending # None /\ pending' = [pending EXCEPT !.left = @ - 1]
        /\ UNCHANGED <<now, opened>>
    BY <1>4 DEF CodeWrong, Code2Wrong, Miss, Usable, LivePending
  <2>2. pending'.at = pending.at
    BY <1>1, <2>1 DEF Window
  <2>3. \A d \in Central : handshakes'[d] \in {handshakes[d], None}
    BY <1>4 DEF CodeWrong, Code2Wrong, Sweep, SweepHandshakes
  <2>4. QED BY <1>1, <2>1, <2>2, <2>3, ClockKeep
<1>5. ASSUME NEW t \in Token, CodeRight(c, t) \/ Code2Right(c, t) PROVE ClockInv'
  BY <1>2, <1>5 DEF CodeRight, Code2Right, Grant
<1>6. CASE Auth(c)
  BY <1>2, <1>6 DEF Auth, SweepHandshakes
<1>7. CASE Hello2(c)
  <2>1. pending' = pending /\ pending # None /\ UNCHANGED <<now, opened>>
    BY <1>7 DEF Hello2, Usable, LivePending
  <2>2. /\ handshakes'[c].win = opened /\ handshakes'[c].ttl = CodeTTL
        /\ handshakes'[c].at = now
        /\ \A d \in Central \ {c} : handshakes'[d] \in {handshakes[d], None}
    BY <1>7 DEF Hello2
  <2>3. QED BY <1>1, <2>1, <2>2 DEF ClockInv
<1>8. CASE Auth2(c)
  <2>1. UNCHANGED <<now, opened, pending>>
    BY <1>8 DEF Auth2
  <2>2. /\ handshakes'[c].win = 0
        /\ \A d \in Central \ {c} : handshakes'[d] \in {handshakes[d], None}
    BY <1>8 DEF Auth2
  <2>3. QED BY <1>1, <2>1, <2>2 DEF ClockInv
<1>9. CASE Code2Refused(c)
  BY <1>2, <1>3, <1>9 DEF Code2Refused, historyVars
<1>10. ASSUME NEW t \in Token \union {NoToken}, NEW n \in Serial, Proof(c, t, n)
       PROVE  ClockInv'
  BY <1>2, <1>10 DEF Proof, ProofRefused, ProofAccepted, SweepHandshakes, historyVars
<1>11. ASSUME NEW t \in Token \union {NoToken}, NEW n \in Serial, NEW h \in Serial,
              Proof2(c, t, n, h)
       PROVE  ClockInv'
  BY <1>2, <1>3, <1>11 DEF Proof2, Proof2Refused, Proof2Accepted, historyVars
<1>12. QED
  BY <1>3, <1>4, <1>5, <1>6, <1>7, <1>8, <1>9, <1>10, <1>11
     DEF Handle, Hello, Hello2BadKey, Auth2BadKey, Malformed, Code, CodeRefused, Code2

LEMMA ClockStep ==
  ASSUME TypeOK, Monotonic, ClockInv, [Next]_vars
  PROVE  ClockInv'
<1> USE ConstantsAssumption
<1>1. now \in Nat /\ opened \in Nat
  BY DEF TypeOK, Time
<1>2. CASE SetClock
  <2>1. now <= now' /\ now' \in Nat
    BY <1>1, <1>2 DEF SetClock, Time
  <2>2. UNCHANGED <<opened, pending, handshakes>>
    BY <1>2 DEF SetClock, managerVars, historyVars
  <2>3. QED BY <2>1, <2>2, ClockKeep
<1>3. CASE BeginPairing
  <2>1. /\ pending' # None /\ pending'.at = now
        /\ opened' = opened + 1 /\ UNCHANGED <<now, handshakes>>
    BY <1>3, EntriesArePresent DEF BeginPairing, TypeOK, Window
  <2>2. \A c \in Central : handshakes[c] # None => handshakes[c].win \in Nat
    BY DEF TypeOK, Handshake
  <2>3. QED BY <1>1, <2>1, <2>2 DEF ClockInv
<1>4. CASE ResetPairingWindow
  BY <1>1, <1>4, ClockKeep DEF ResetPairingWindow, historyVars
<1>5. ASSUME NEW cs \in SUBSET Central, EndSessions(cs) PROVE ClockInv'
  BY <1>1, <1>5, ClockKeep DEF EndSessions, historyVars, TypeOK
<1>6. CASE EndAllSessions
  BY <1>1, <1>6, ClockKeep DEF EndAllSessions, historyVars, TypeOK
<1>7. ASSUME NEW t \in Token, RevokeToken(t) PROVE ClockInv'
  BY <1>1, <1>7, ClockKeep DEF RevokeToken, TypeOK
<1>8. CASE RevokeAll
  BY <1>1, <1>8, ClockKeep DEF RevokeAll, TypeOK
<1>9. CASE UNCHANGED vars
  BY <1>9 DEF vars, managerVars, historyVars, ClockInv
<1>10. QED
  BY <1>2, <1>3, <1>4, <1>5, <1>6, <1>7, <1>8, <1>9, ClockHandle DEF Next

-------------------------------------------------------------------------------
(* The inductive invariant and what follows from it *)

LEMMA InitInv == Init => IInv
<1> SUFFICES ASSUME Init PROVE IInv
  OBVIOUS
<1>1. TypeOK
  BY InitType
<1>2. SessionSound /\ RevokedStaysOut
  BY ConstantsAssumption DEF Init, SessionSound, RevokedStaysOut
<1>3. BudgetInv /\ (Monotonic => ClockInv)
  <2>1. MaxAttempts * 0 = 0
    BY ConstantsAssumption
  <2>2. QED BY <2>1 DEF Init, BudgetInv, ClockInv
<1>4. NonceInv /\ HandshakeInv
  BY DEF Init, NonceInv, HandshakeInv
<1>5. QED BY <1>1, <1>2, <1>3, <1>4 DEF IInv

LEMMA NextInv == IInv /\ [Next]_vars => IInv'
  BY NextType, SessionStep, BudgetStep, FreshStep, ClockStep DEF IInv

\* IInv is inductive.
THEOREM Invariance == Spec => []IInv
<1>1. QED BY InitInv, NextInv, PTL DEF Spec

\* A session stands on a paired token and is sealed with its key.
THEOREM SessionsSound == Spec => []SessionSound
<1>1. IInv => SessionSound
  BY DEF IInv
<1>2. QED BY <1>1, Invariance, PTL

\* Revocation is final: no revoked token opens a session again.
THEOREM RevocationFinal == Spec => []RevokedStaysOut
<1>1. IInv => RevokedStaysOut
  BY DEF IInv
<1>2. QED BY <1>1, Invariance, PTL

\* No more than MAX_ATTEMPTS wrong codes, and no more than one grant, for each
\* time the user opened the window.
THEOREM WindowBudgets == Spec => []WindowBudget
<1>1. IInv => WindowBudget
  BY ConstantsAssumption DEF IInv, BudgetInv, TypeOK, Window, WindowBudget
<1>2. QED BY <1>1, Invariance, PTL

\* A nonce authorizes once and a handshake yields one channel.
THEOREM FreshnessUsedOnce == Spec => []UsedOnce
<1>1. IInv => UsedOnce
  BY DEF IInv, NonceInv, HandshakeInv, UsedOnce
<1>2. QED BY <1>1, Invariance, PTL

\* If the clock is never set back, CODE2 is never refused for lack of a
\* handshake while the window it was begun in is open.
THEOREM HumanPaceRespected ==
  ASSUME Monotonic
  PROVE  Spec => []HandshakeOutlivesWindow
<1>1. IInv => HandshakeOutlivesWindow
  <2> SUFFICES ASSUME IInv, NEW c \in Central,
                      handshakes[c] # None, handshakes[c].win = opened,
                      pending # None, ~Expired(pending)
               PROVE  LiveHandshakes[c] = handshakes[c]
    BY DEF HandshakeOutlivesWindow
  <2>1. handshakes[c].ttl = CodeTTL /\ pending.at <= handshakes[c].at /\ pending.at <= now
    BY DEF IInv, ClockInv
  <2>2. now \in Nat /\ pending.at \in Nat /\ handshakes[c].at \in Nat
    BY ConstantsAssumption DEF IInv, TypeOK, Window, Handshake, Time
  <2>3. Elapsed(handshakes[c].at) <= CodeTTL
    BY <2>1, <2>2, ConstantsAssumption DEF Expired, Elapsed
  <2>4. QED BY <2>1, <2>3 DEF LiveHandshakes
<1>2. QED BY <1>1, Invariance, PTL

-------------------------------------------------------------------------------
(* Refinement: every step is a step of Access or leaves its variables alone *)

\* What Access can see.
Seen == <<Usable(pending), tokens, revoked, authorized>>

\* A request that grants nothing can only close the window.
LEMMA WindowCloses ==
  ASSUME UNCHANGED <<tokens, revoked, authorized>>, ~Usable(pending)'
  PROVE  Promise!CloseWindow
  BY DEF Promise!CloseWindow, Usable

LEMMA WindowKept ==
  ASSUME TypeOK, UNCHANGED <<tokens, revoked, authorized>>, pending' \in {pending, None}
  PROVE  Promise!CloseWindow \/ UNCHANGED Seen
  BY WindowCloses DEF Usable, Seen

LEMMA HandleRefines ==
  ASSUME TypeOK, NEW c \in Central, Handle(c)
  PROVE  Promise!AccessNext \/ UNCHANGED Seen
<1> USE SweepShrinks, ConstantsAssumption
<1>1. ASSUME UNCHANGED <<tokens, revoked, authorized>>, pending' \in {pending, None}
      PROVE  Promise!AccessNext \/ UNCHANGED Seen
  BY <1>1, WindowKept DEF Promise!AccessNext
<1>2. CASE Refuse \/ RefuseAtWindow
  BY <1>1, <1>2 DEF Refuse, RefuseAtWindow, historyVars
<1>3. CASE CodeWrong(c) \/ Code2Wrong(c)
  <2>1. Usable(pending) /\ UNCHANGED <<tokens, revoked, authorized>>
    BY <1>3 DEF CodeWrong, Code2Wrong, Miss, Usable, LivePending
  <2>2. CASE Usable(pending)'
    BY <2>1, <2>2 DEF Seen, Usable
  <2>3. CASE ~Usable(pending)'
    BY <2>1, <2>3, WindowCloses DEF Promise!AccessNext
  <2>4. QED BY <2>2, <2>3
<1>4. ASSUME NEW t \in Token, Grant(c, t) PROVE Promise!AccessNext
  <2>1. Usable(pending) /\ ~Usable(pending)'
    BY <1>4 DEF Grant, Usable, LivePending
  <2>2. Promise!Pair(c, t)
    BY <1>4, <2>1 DEF Promise!Pair, Grant, Usable
  <2>3. QED BY <2>2 DEF Promise!AccessNext
<1>5. ASSUME NEW t \in Token, CodeRight(c, t) \/ Code2Right(c, t) PROVE Promise!AccessNext
  BY <1>4, <1>5 DEF CodeRight, Code2Right
<1>6. CASE Auth(c) \/ Hello2(c) \/ Auth2(c)
  BY <1>1, <1>6 DEF Auth, Hello2, Auth2
<1>7. CASE Code2Refused(c)
  BY <1>1, <1>2, <1>7 DEF Code2Refused, historyVars
<1>8. ASSUME NEW t \in Token, t \in tokens, authorized' = [authorized EXCEPT ![c] = t],
             UNCHANGED <<pending, tokens, revoked>>
      PROVE  Promise!AccessNext
  <2>1. Promise!Resume(c, t)
    BY <1>8 DEF Promise!Resume, Usable
  <2>2. QED BY <2>1 DEF Promise!AccessNext
<1>9. ASSUME NEW t \in Token \union {NoToken}, NEW n \in Serial, Proof(c, t, n)
      PROVE  Promise!AccessNext \/ UNCHANGED Seen
  <2>1. CASE ProofRefused(c, t, n)
    BY <1>1, <2>1 DEF ProofRefused, historyVars
  <2>2. CASE ProofAccepted(c, t, n)
    BY <1>8, <2>2 DEF ProofAccepted, TypeOK
  <2>3. QED BY <1>9, <2>1, <2>2 DEF Proof
<1>10. ASSUME NEW t \in Token \union {NoToken}, NEW n \in Serial, NEW h \in Serial,
              Proof2(c, t, n, h)
       PROVE  Promise!AccessNext \/ UNCHANGED Seen
  <2>1. CASE Proof2Refused(c, t, n, h)
    BY <1>1, <1>2, <2>1 DEF Proof2Refused, historyVars
  <2>2. CASE Proof2Accepted(c, t, n, h)
    BY <1>8, <2>2 DEF Proof2Accepted, TypeOK
  <2>3. QED BY <1>10, <2>1, <2>2 DEF Proof2
<1>11. QED
  BY <1>2, <1>3, <1>5, <1>6, <1>7, <1>9, <1>10
     DEF Handle, Hello, Hello2BadKey, Auth2BadKey, Malformed, Code, CodeRefused, Code2

LEMMA NextRefines ==
  ASSUME TypeOK, SessionSound, [Next]_vars
  PROVE  Promise!AccessNext \/ UNCHANGED Seen
<1>1. CASE SetClock \/ UNCHANGED vars
  BY <1>1 DEF SetClock, vars, managerVars, historyVars, Seen, Usable
<1>2. CASE BeginPairing
  <2>1. Usable(pending)'
    BY <1>2, ConstantsAssumption, EntriesArePresent
       DEF BeginPairing, Usable, Window, TypeOK
  <2>2. Promise!OpenWindow
    BY <1>2, <2>1 DEF BeginPairing, Promise!OpenWindow, Usable
  <2>3. QED BY <2>2 DEF Promise!AccessNext
<1>3. CASE ResetPairingWindow
  BY <1>3, WindowKept DEF ResetPairingWindow, historyVars, Promise!AccessNext
<1>4. ASSUME NEW cs \in SUBSET Central, EndSessions(cs) PROVE Promise!AccessNext
  <2>1. Promise!EndSessions(cs)
    BY <1>4 DEF EndSessions, Promise!EndSessions, historyVars, Usable
  <2>2. QED BY <2>1 DEF Promise!AccessNext
<1>5. CASE EndAllSessions
  <2>1. Promise!EndSessions(Central)
    BY <1>5 DEF EndAllSessions, Promise!EndSessions, historyVars, Usable
  <2>2. QED BY <2>1 DEF Promise!AccessNext
<1>6. ASSUME NEW t \in Token, RevokeToken(t) PROVE Promise!AccessNext
  <2>1. Promise!Revoke({t})
    BY <1>6 DEF RevokeToken, Promise!Revoke, Usable
  <2>2. QED BY <2>1 DEF Promise!AccessNext
<1>7. CASE RevokeAll
  <2>1. Promise!Revoke(tokens)
    BY <1>7, ConstantsAssumption
       DEF RevokeAll, Promise!Revoke, SessionSound, TypeOK, Usable
  <2>2. QED BY <2>1 DEF Promise!AccessNext, TypeOK
<1>8. QED
  BY <1>1, <1>2, <1>3, <1>4, <1>5, <1>6, <1>7, HandleRefines DEF Next

\* PairingManager implements Access.
THEOREM Refinement == Spec => ImplementsAccess
<1>1. Init => Promise!AccessInit
  BY ConstantsAssumption DEF Init, Promise!AccessInit, Usable
<1>2. IInv /\ [Next]_vars => [Promise!AccessNext]_Promise!accessVars
  BY NextRefines DEF IInv, Seen, Promise!accessVars
<1>3. QED BY <1>1, <1>2, Invariance, PTL DEF Spec, ImplementsAccess, Promise!AccessSpec

=============================================================================
