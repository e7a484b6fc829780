------------------------------ MODULE EmitGate --------------------------------
(***************************************************************************)
(* EmitGate of emitter.rs, as operators on a record.  hash is what of the  *)
(* snapshot hash_snapshot looks at: the agents with their totals, quotas   *)
(* and errors, the projects with path, rate, status and model; it is blind *)
(* to reset times and to the rest of a session.                            *)
(***************************************************************************)
EXTENDS Integers

CONSTANTS Throttle,   \* the gate's throttle: 500 ms for the front end, 1 s for a mirror
          Repeat      \* the 5 s after which an unchanged snapshot is sent again

\* 1 s and 5 s: an unchanged snapshot is not sent more often than a changed one.
ASSUME GateAssumption == Throttle \in Nat /\ Repeat \in Nat \ {0} /\ Throttle <= Repeat

NoHash == "none"
NewGate == [hash |-> NoHash, at |-> -1]      \* at = -1: nothing emitted so far

\* A clock that was set back has not advanced at all.
Since(gate, now) == IF now >= gate.at THEN now - gate.at ELSE 0

\* Mutant: an unchanged snapshot is never sent again.
ShouldEmitOnce(gate, hash, now) ==
  \/ gate.at = -1
  \/ Since(gate, now) >= Throttle /\ gate.hash # hash

ShouldEmit(gate, hash, now) ==
  \/ gate.at = -1
  \/ /\ Since(gate, now) >= Throttle
     /\ gate.hash # hash \/ Since(gate, now) >= Repeat

Emitted(gate, hash, now) == [hash |-> hash, at |-> now]

\* The hash is forgotten, the time is not: the throttle still holds.
Reset(gate) == [gate EXCEPT !.hash = NoHash]
=============================================================================
