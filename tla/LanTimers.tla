------------------------------- MODULE LanTimers ------------------------------
(***************************************************************************)
(* The timers of one LAN connection (lan/server.rs): the heartbeat, which  *)
(* tells a device that vanished from one that is silent, and the deadline, *)
(* which ends a connection that was not authorized in time, while a person *)
(* may still be typing the code.  The connection is made at instant 0; all *)
(* else that can end it is in LanServer, which has no clock.               *)
(***************************************************************************)
EXTENDS Integers

CONSTANTS Ping,       \* PING_INTERVAL
          Idle,       \* IDLE_TIMEOUT
          AuthTime,   \* AUTH_DEADLINE
          CodeTime,   \* CODE_TTL of the pairing window
          MaxInstant  \* bound: the clock

ASSUME LanTimersAssumption ==
  /\ {Ping, Idle, AuthTime, CodeTime, MaxInstant} \subseteq Nat \ {0}
  /\ Idle > Ping /\ AuthTime > CodeTime

\* How long a device may take over a Pong.
AnswerTime == Idle - Ping - 1

Never == -1000

VARIABLES
  instant,
  ended,       \* "no" while open, then why it ended
  endedAt,     \* history
  lastSeen, nextPing,
  unanswered,  \* the oldest ping without an answer
  lifted,      \* deadline_lifted
  marked,      \* the atomic that says the device was authorized
  vanished,    \* when the device was unplugged
  opened       \* when the pairing window was opened

timersVars == <<instant, ended, endedAt, lastSeen, nextPing, unanswered, lifted, marked, vanished, opened>>

LanTimersInit ==
  /\ instant = 0 /\ ended = "no" /\ endedAt = Never
  /\ lastSeen = 0 /\ nextPing = Ping /\ unanswered = Never
  /\ lifted = FALSE /\ marked = FALSE
  /\ vanished = Never
  /\ opened \in {Never} \union -CodeTime .. 0

Open == ended = "no"
Present == vanished = Never

\* Whatever arrives counts, the Pong included.
Talk ==
  /\ Open /\ Present
  /\ lastSeen' = instant
  /\ unanswered' \in {unanswered, Never}
  /\ UNCHANGED <<instant, ended, endedAt, nextPing, lifted, marked, vanished, opened>>

Vanish ==
  /\ Present /\ vanished' = instant
  /\ UNCHANGED <<instant, ended, endedAt, lastSeen, nextPing, unanswered, lifted, marked, opened>>

OpenWindow ==
  /\ opened = Never /\ opened' = instant
  /\ UNCHANGED <<instant, ended, endedAt, lastSeen, nextPing, unanswered, lifted, marked, vanished>>

\* A person types the code, or the device knows its token.
Authenticate ==
  /\ Open /\ Present /\ ~marked
  /\ marked' = TRUE /\ lastSeen' = instant
  /\ UNCHANGED <<instant, ended, endedAt, nextPing, unanswered, lifted, vanished, opened>>

\* Mutant: one missed ping is enough.
SilentAtOnce == instant - lastSeen >= Ping

\* heartbeat
Silent == instant - lastSeen >= Idle

PingDue ==
  /\ Open /\ instant = nextPing
  /\ IF Silent THEN ended' = "silent" /\ endedAt' = instant ELSE UNCHANGED <<ended, endedAt>>
  /\ unanswered' = IF unanswered = Never THEN instant ELSE unanswered
  /\ nextPing' = nextPing + Ping
  /\ UNCHANGED <<instant, lastSeen, lifted, marked, vanished, opened>>

\* Mutant: the deadline is counted from the last message.
DeadlineFromLastSeen == instant >= lastSeen + AuthTime

\* Mutant: the deadline is as long as a code.
DeadlineTooShort == instant >= CodeTime

\* An absolute time, whatever the device sends.
DeadlineDue == instant >= AuthTime

MeetDeadline ==
  /\ Open /\ ~lifted /\ DeadlineDue
  /\ IF marked THEN lifted' = TRUE /\ UNCHANGED <<ended, endedAt>>
               ELSE ended' = "deadline" /\ endedAt' = instant /\ UNCHANGED lifted
  /\ UNCHANGED <<instant, lastSeen, nextPing, unanswered, marked, vanished, opened>>

\* Timers are punctual, and a device that is there answers in time.
PassInstant ==
  /\ instant < MaxInstant
  /\ Open => instant < nextPing /\ (DeadlineDue => lifted)
  /\ Open /\ Present /\ unanswered # Never => instant < unanswered + AnswerTime
  /\ instant' = instant + 1
  /\ UNCHANGED <<ended, endedAt, lastSeen, nextPing, unanswered, lifted, marked, vanished, opened>>

LanTimersNext ==
  Talk \/ Vanish \/ OpenWindow \/ Authenticate \/ PingDue \/ MeetDeadline \/ PassInstant

LanTimersSpec == LanTimersInit /\ [][LanTimersNext]_timersVars

-------------------------------------------------------------------------------
(* Property *)

\* The timers take a slot back in time, and never from somebody who is entitled to
\* it: a device that vanished is noticed within the two periods (its authorization
\* does not outlive it for longer); one that is there and answers is never taken for
\* silent; a stranger stays for the deadline at most, however much it talks; and the
\* deadline does not come while a person may still type the code, if the window was
\* opened before the connection was AuthTime - CodeTime old (lan/server.rs:199-215).
TimersAreFair ==
  /\ Open /\ ~Present => instant <= vanished + Idle + Ping
  /\ ended = "silent" => ~Present
  /\ Open /\ ~marked => instant <= AuthTime
  /\ ended = "deadline" =>
       /\ ~marked
       /\ opened # Never /\ opened <= AuthTime - CodeTime => endedAt >= opened + CodeTime
=============================================================================
