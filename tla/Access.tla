-------------------------------- MODULE Access --------------------------------
(***************************************************************************)
(* What the pairing service promises, without codes, nonces, keys, time or *)
(* transports: a device becomes paired only through a window the user      *)
(* opened, each window pairs at most one device, a session always stands   *)
(* on a paired token, and revoking a token is final and ends its sessions. *)
(* PairingManager (module Pairing) implements this specification, and the  *)
(* transport modules are written against it.                               *)
(***************************************************************************)
CONSTANTS Central,   \* link identities, CentralId
          Token,     \* pairing tokens
          NoToken    \* "not authorized"

VARIABLES window,    \* a pairing may be granted
          paired,    \* tokens that may open a session
          retired,   \* tokens revoked so far
          session    \* the token each central is authorized with

accessVars == <<window, paired, retired, session>>

AccessInit ==
  /\ window = FALSE
  /\ paired \in SUBSET Token
  /\ retired = {}
  /\ session = [c \in Central |-> NoToken]

OpenWindow == window' = TRUE /\ UNCHANGED <<paired, retired, session>>

CloseWindow == window' = FALSE /\ UNCHANGED <<paired, retired, session>>

\* A grant consumes the window and mints a token never seen before.
Pair(c, t) ==
  /\ window
  /\ t \notin paired \union retired
  /\ window' = FALSE
  /\ paired' = paired \union {t}
  /\ session' = [session EXCEPT ![c] = t]
  /\ UNCHANGED retired

\* A known token reopens a session; no window is needed.
Resume(c, t) ==
  /\ t \in paired
  /\ session' = [session EXCEPT ![c] = t]
  /\ UNCHANGED <<window, paired, retired>>

EndSessions(cs) ==
  /\ session' = [c \in Central |-> IF c \in cs THEN NoToken ELSE session[c]]
  /\ UNCHANGED <<window, paired, retired>>

\* Unpairing reaches the live sessions of the token as well.
Revoke(ts) ==
  /\ paired' = paired \ ts
  /\ retired' = retired \union (ts \intersect paired)
  /\ session' = [c \in Central |-> IF session[c] \in ts THEN NoToken ELSE session[c]]
  /\ UNCHANGED window

AccessNext ==
  \/ OpenWindow
  \/ CloseWindow
  \/ \E c \in Central, t \in Token : Pair(c, t) \/ Resume(c, t)
  \/ \E cs \in SUBSET Central : EndSessions(cs)
  \/ \E ts \in SUBSET Token : Revoke(ts)

AccessSpec == AccessInit /\ [][AccessNext]_accessVars

=============================================================================
