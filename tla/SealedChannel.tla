---------------------------- MODULE SealedChannel -----------------------------
(***************************************************************************)
(* SealedChannel of crypto/channel.rs and the key agreement it is keyed    *)
(* by, with symbolic cryptography: a ciphertext opens under the key and    *)
(* the counter it was sealed with and under no others.                     *)
(***************************************************************************)
EXTENDS Integers

LowOrder == "low order"

\* agree: both ends get the same secret, and none from a low-order point.
Agree(mine, theirs) == IF theirs = LowOrder THEN {} ELSE {mine, theirs}

\* derive_session_keys: both the shared secret and the token are needed; the two
\* directions have keys of their own.
SessionKeys(secret, token, nonce) ==
  [s2c |-> <<"s2c", secret, token, nonce>>, c2s |-> <<"c2s", secret, token, nonce>>]

\* last = -1: no frame accepted so far, so that a frame numbered 0 is not a replay.
NewChannel(send, recv) == [send |-> send, recv |-> recv, counter |-> 0, last |-> -1]

SealedFrame(ch, body) == [key |-> ch.send, counter |-> ch.counter, body |-> body]

\* Mutant: the counter of a frame that could not be queued is used again.
SealedAgain(ch) == ch

\* The channel after seal; what becomes of the frame does not matter.
AfterSeal(ch) == [ch EXCEPT !.counter = @ + 1]

Opens(ch, frame) == frame.counter > ch.last /\ frame.key = ch.recv

\* Mutant: the counter advances before the tag is verified.
AfterOpenUnverified(ch, frame) ==
  IF frame.counter > ch.last THEN [ch EXCEPT !.last = frame.counter] ELSE ch

\* A frame that does not verify leaves the counter alone.
AfterOpen(ch, frame) == IF Opens(ch, frame) THEN [ch EXCEPT !.last = frame.counter] ELSE ch
=============================================================================
