------------------------------ MODULE Discovery -------------------------------
(***************************************************************************)
(* The announcement of the LAN listener by mDNS: LanBridge::advertise, the *)
(* MdnsAdvertiser of lan/discovery.rs and the threads that tear an old     *)
(* publication down, each with a daemon of its own (the mdns-sd crate,     *)
(* external).  When the listener wants to be announced is in Lan.          *)
(*                                                                         *)
(* A daemon serves its commands in order and in its own time; it repeats a *)
(* goodbye after Resend, if it still runs.  What a record contains is left *)
(* out but for the label of the host, an operator of its own.              *)
(***************************************************************************)
EXTENDS Integers, Sequences, FiniteSets, FiniteSetsExt

CONSTANTS AckWait,     \* UNREGISTER_ACK_WAIT
          ResendWait,  \* GOODBYE_RESEND_WAIT
          Resend,      \* after which mdns-sd repeats a goodbye
          MaxLabel,    \* MAX_LABEL_LEN
          MaxPubs,     \* bound: daemons started
          MaxMoment    \* bound: the clock

ASSUME DiscoveryAssumption ==
  /\ {AckWait, Resend, MaxPubs, MaxMoment} \subseteq Nat /\ MaxLabel \in Nat \ {0}
  /\ ResendWait \in Nat /\ ResendWait > Resend

VARIABLES
  moment,
  advertising,   \* LanBridge::advertising
  live,          \* the Publication the advertiser holds, or NoPub
  daemons,       \* the daemons started, in order
  teardown       \* publication -> the step of its teardown thread, and since when

discoveryVars == <<moment, advertising, live, daemons, teardown>>

NoPub == 0
NotDue == -1
Pubs == DOMAIN daemons

DiscoveryInit ==
  /\ moment = 0
  /\ advertising = FALSE /\ live = NoPub
  /\ daemons = <<>> /\ teardown = <<>>

-------------------------------------------------------------------------------
(* The label of the host *)

Allowed == {"a", "7", "-"}   \* a letter, a digit and the hyphen; "." ends the label

FirstPart(raw) ==   \* up to the first dot
  LET dots == {i \in DOMAIN raw : raw[i] = "."}
  IN  IF dots = {} THEN raw ELSE SubSeq(raw, 1, Min(dots) - 1)

\* A character that may not be used becomes a hyphen, unless one is there already.
Folded[raw \in Seq(Allowed \union {" ", "."})] ==
  IF raw = <<>> THEN <<>>
  ELSE LET front == Folded[SubSeq(raw, 1, Len(raw) - 1)]
           ch == raw[Len(raw)]
       IN  IF ch \in Allowed THEN Append(front, ch)
           ELSE IF front # <<>> /\ front[Len(front)] = "-" THEN front
           ELSE Append(front, "-")

Trimmed(s, ends) ==
  LET inner == {i \in DOMAIN s : s[i] # "-"}
  IN  IF inner = {} THEN <<>>
      ELSE SubSeq(s, IF "start" \in ends THEN Min(inner) ELSE 1, Max(inner))

\* sanitize_label: cutting may leave a hyphen at the end once more.
Label(raw) ==
  LET whole == Trimmed(Folded[FirstPart(raw)], {"start", "end"})
      cut == SubSeq(whole, 1, Min({Len(whole), MaxLabel}))
      label == Trimmed(cut, {"end"})
  IN  IF label = <<>> THEN <<"a">> ELSE label     \* FALLBACK_LABEL

-------------------------------------------------------------------------------
(* The daemons *)

NewDaemon(commands) ==
  [commands |-> commands, up |-> TRUE, registered |-> FALSE, repeatAt |-> NotDue,
   answered |-> FALSE,   \* the acknowledgement of unregister
   announced |-> FALSE, goodbyes |-> 0]  \* history

Commanded(p, command) == [daemons EXCEPT ![p].commands = Append(@, command)]

\* A goodbye that is due goes out before the next command is served.
Goodbye(p) ==
  /\ daemons[p].up /\ daemons[p].repeatAt \in 0 .. moment
  /\ daemons' = [daemons EXCEPT ![p].repeatAt = NotDue, ![p].goodbyes = @ + 1]
  /\ UNCHANGED <<moment, advertising, live, teardown>>

Serve(p) ==
  LET d == daemons[p]
      bye == IF d.registered THEN d.goodbyes + 1 ELSE d.goodbyes
      rest == [d EXCEPT !.commands = Tail(@)]
  IN
  /\ d.up /\ d.commands # <<>> /\ d.repeatAt \notin 0 .. moment
  /\ daemons' = [daemons EXCEPT ![p] =
       CASE Head(d.commands) = "register" ->
              [rest EXCEPT !.registered = TRUE, !.announced = TRUE]
         [] Head(d.commands) = "unregister" ->
              [rest EXCEPT !.registered = FALSE, !.goodbyes = bye, !.answered = TRUE,
                           !.repeatAt = IF d.registered THEN moment + Resend ELSE NotDue]
         [] Head(d.commands) = "shutdown" ->   \* cleanup says goodbye for what is registered
              [rest EXCEPT !.up = FALSE, !.registered = FALSE, !.goodbyes = bye]]
  /\ UNCHANGED <<moment, advertising, live, teardown>>

-------------------------------------------------------------------------------
(* Publication::stop *)

\* Mutant: the daemon is shut down without waiting for the repeated goodbye.
StopAtOnce(p) ==
  /\ daemons' = [daemons EXCEPT ![p].commands = @ \o <<"unregister", "shutdown">>]
  /\ teardown' = [teardown EXCEPT ![p] = [step |-> "done", at |-> moment]]

\* A thread does the waiting; if there is none to be had, the daemon ends at once.
StopPub(p) ==
  \/ /\ teardown' = [teardown EXCEPT ![p] = [step |-> "spawned", at |-> moment]]
     /\ UNCHANGED daemons
  \/ /\ daemons' = Commanded(p, "shutdown")
     /\ teardown' = [teardown EXCEPT ![p] = [step |-> "unspawned", at |-> moment]]

Unregister(p) ==
  /\ teardown[p].step = "spawned"
  /\ daemons' = Commanded(p, "unregister")
  /\ teardown' = [teardown EXCEPT ![p] = [step |-> "asked", at |-> moment]]
  /\ UNCHANGED <<moment, advertising, live>>

\* The acknowledgement came in time, or the thread goes on without it.
Acknowledged(p) ==
  /\ teardown[p].step = "asked"
  /\ \/ /\ daemons[p].answered
        /\ teardown' = [teardown EXCEPT ![p] = [step |-> "acked", at |-> moment]]
     \/ /\ ~daemons[p].answered /\ moment >= teardown[p].at + AckWait
        /\ teardown' = [teardown EXCEPT ![p] = [step |-> "unacked", at |-> moment]]
  /\ UNCHANGED <<moment, advertising, live, daemons>>

Shutdown(p) ==
  /\ teardown[p].step \in {"acked", "unacked"} /\ moment >= teardown[p].at + ResendWait
  /\ daemons' = Commanded(p, "shutdown")
  /\ teardown' = [teardown EXCEPT ![p] =
       [step |-> IF @.step = "acked" THEN "done" ELSE "done unacked", at |-> moment]]
  /\ UNCHANGED <<moment, advertising, live>>

-------------------------------------------------------------------------------
(* LanBridge::advertise *)

\* Mutant: a publication that failed midway leaves its daemon running.
PublishLeaving(commands) == daemons' = Append(daemons, NewDaemon(commands))

\* register_on failed before or after it registered: publish shuts the daemon down.
PublishFailed(commands) == daemons' = Append(daemons, NewDaemon(Append(commands, "shutdown")))

\* The listener serves.  If nothing could be published, the next one tries again.
\* MdnsAdvertiser::start stops a publication that is still live; advertise has seen
\* to it that there is none.
AdvertiseOn ==
  /\ ~advertising
  /\ \/ UNCHANGED discoveryVars                      \* the daemon does not start
     \/ /\ Len(daemons) < MaxPubs
        /\ teardown' = Append(teardown, [step |-> "none", at |-> moment])
        /\ \/ \E commands \in {<<>>, <<"register">>} :
                PublishFailed(commands) /\ UNCHANGED <<live, advertising>>
           \/ /\ daemons' = Append(daemons, NewDaemon(<<"register">>))
              /\ live' = Len(daemons') /\ advertising' = TRUE
  /\ UNCHANGED moment

\* Switched off, or the listener did not come up.
AdvertiseOff ==
  /\ advertising
  /\ StopPub(live)
  /\ live' = NoPub /\ advertising' = FALSE
  /\ UNCHANGED moment

\* The threads and timers are punctual, but a daemon may take its time over a command.
PassMoment ==
  /\ moment < MaxMoment
  /\ \A p \in Pubs :
       /\ teardown[p].step # "spawned"
       /\ teardown[p].step = "asked" => ~daemons[p].answered /\ moment < teardown[p].at + AckWait
       /\ teardown[p].step \in {"acked", "unacked"} => moment < teardown[p].at + ResendWait
       /\ daemons[p].up => daemons[p].repeatAt \notin 0 .. moment
  /\ moment' = moment + 1
  /\ UNCHANGED <<advertising, live, daemons, teardown>>

DiscoveryNext ==
  \/ AdvertiseOn \/ AdvertiseOff \/ PassMoment
  \/ \E p \in Pubs : Serve(p) \/ Goodbye(p) \/ Unregister(p) \/ Acknowledged(p) \/ Shutdown(p)

DiscoverySpec == DiscoveryInit /\ [][DiscoveryNext]_discoveryVars

-------------------------------------------------------------------------------
(* Properties *)

Announces(p) == daemons[p].up /\ (daemons[p].registered \/ \E i \in DOMAIN daemons[p].commands :
                                                             daemons[p].commands[i] = "register")
Withdrawing(p) ==
  \/ teardown[p].step \in {"spawned", "asked", "acked", "unacked"}
  \/ \E i \in DOMAIN daemons[p].commands : daemons[p].commands[i] = "shutdown"

\* No announcement is left behind that nobody can withdraw any more ("nobody could
\* take that advertisement down", lan/discovery.rs:202-208): whatever failed, a
\* publication that announces is the live one while advertising, or is being torn
\* down.  Devices forget a port that is gone (104-116): the end of a daemon that had
\* announced said goodbye, and said it twice if the first was acknowledged in time.
AdvertIsWithdrawn ==
  /\ advertising <=> live # NoPub
  /\ \A p \in Pubs :
       /\ Announces(p) => p = live \/ Withdrawing(p)
       /\ p = live => daemons[p].up /\ ~Withdrawing(p)
       /\ ~daemons[p].up /\ daemons[p].announced =>
            daemons[p].goodbyes >= IF teardown[p].step = "done" THEN 2 ELSE 1

=============================================================================
