------------------------------ MODULE MCLanFair -------------------------------
(* The instance of Lan for liveness: a single listener with connections that  *)
(* do anything, or several listeners with connections that never speak.       *)
EXTENDS Lan

VARIABLE quiet
QuietInit == Init /\ quiet \in BOOLEAN
QuietNext ==
  /\ Next /\ UNCHANGED quiet
  /\ IF quiet THEN \A i \in DOMAIN events' : events'[i].type # "frame" ELSE generation' <= 1
QuietSpec == QuietInit /\ [][QuietNext]_<<vars, quiet>> /\ Fairness
=============================================================================
