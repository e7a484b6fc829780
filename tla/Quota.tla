-------------------------------- MODULE Quota ---------------------------------
(***************************************************************************)
(* The quota of one agent: the slots that lib.rs' tick shows on its card,  *)
(* and those who fill them.  Claude's are filled from the headers of the   *)
(* requests that pass quota_proxy.rs and by `claude -p /usage`; Codex' by   *)
(* the rollouts (watchers/codex.rs) and by an RPC (codex_rpc.rs);          *)
(* Antigravity's by `agy -p /usage`.  One behaviour has one agent.         *)
(*                                                                         *)
(* A vendor's window is a span of the clock, and a percentage is known by  *)
(* the number of the window it was measured in: what is shown is right if  *)
(* that window is the present one.  Each slot has a mutex of its own, so   *)
(* what one answer brings is written slot by slot, other writers between.  *)
(* The kind and wording of an error are left out.                          *)
(***************************************************************************)
EXTENDS Integers, Sequences, FiniteSets, FiniteSetsExt

CONSTANTS Agent,       \* which of "claude", "codex", "antigravity"
          Length,      \* window -> its length
          Stale,       \* QUOTA_STALE_AFTER, in periods of the ticker
          WeeklyStale, \* QUOTA_WEEKLY_STALE_AFTER
          QueryTime,   \* the longest a query takes: its timeout; Antigravity's has none
          Responses,   \* bound: the windows whose utilization, and those whose reset,
                       \* are among the headers of a response to a request
          MaxNow       \* bound: the clock

Window == {"5h", "weekly"}

ASSUME QuotaAssumption ==
  /\ Agent \subseteq {"claude", "codex", "antigravity"}
  /\ Length \in [Window -> Nat \ {0}]
  /\ Responses \subseteq (SUBSET Window) \X (SUBSET Window)
  /\ Stale \in Nat /\ WeeklyStale \in Nat \ {0} /\ QueryTime \in Nat /\ MaxNow \in Nat

Caller == {"button", "ticker"}    \* who asks; the query at the start is one more button
Writer == Caller \union {"traffic"}

VARIABLES
  agent, today,
  pct, reset,      \* window -> used_pct and reset_at of QuotaState and its like
  updated, weeklyUpdated, error,
  cache,           \* claude-quota.json
  running,         \* the in-flight guard
  phase,           \* caller -> "idle", "asked" or "answered"
  asked,           \* caller -> when it asked
  answer,          \* caller -> window -> what the answer says of it
  writes,          \* writer -> the slots it still has to write
  owed,            \* the ticker has not had its turn yet
  \* history
  spoilt,          \* two writers wrote at a time, the app ended between two slots, or
                   \* a query was answered in another window than it was applied in
  halved,          \* windows of which a response brought one half, beside a half of another window
  excused          \* the last time a weekly value came, a query brought none, or the app started

slots == <<pct, reset, updated, weeklyUpdated, error>>
queries == <<running, phase, asked, answer>>
quotaVars == <<agent, today, slots, cache, queries, writes, owed, spoilt, halved, excused>>

None == -1
Zero == -2
Period(w, t) == t \div Length[w]
End(w, n) == (n + 1) * Length[w]

NoSlots == [w \in Window |-> None]
NoFile == [pct |-> NoSlots, reset |-> NoSlots]   \* none, or one that does not parse
Idle == [c \in Caller |-> "idle"]

QuotaInit ==
  /\ agent \in Agent
  /\ today = 0
  /\ pct = NoSlots /\ reset = NoSlots
  /\ updated = None /\ weeklyUpdated = None /\ error = FALSE
  /\ cache = NoFile
  /\ running = FALSE /\ phase = Idle
  /\ asked = [c \in Caller |-> 0] /\ answer = [c \in Caller |-> NoSlots]
  /\ writes = [x \in Writer |-> <<>>]
  /\ owed = TRUE
  /\ spoilt = FALSE /\ halved = {} /\ excused = 0

-------------------------------------------------------------------------------
(* The slots *)

Put(slot, w, v) == [slot |-> slot, w |-> w, v |-> v]
Pair(w, n, end) == <<Put("pct", w, n), Put("reset", w, end)>>

Both(ops) == ops["5h"] \o ops["weekly"]
Measured(a, ops) == Both([w \in Window |-> IF a[w] = None THEN <<>> ELSE ops[w]])

\* Writing "done" clears the error; for Claude it also notes the time and saves the file.
Done == <<Put("done", "", None)>>

\* Mutant: a reset that is past stays beside the percentage just read.
UsagePctKeepingReset(a) ==
  Measured(a, [w \in Window |-> <<Put("pct", w, a[w])>>]) \o Done

\* apply_usage_pct: percentages only; a reset that is past by now is deleted.
UsagePct(a) ==
  Measured(a, [w \in Window |-> <<Put("pct", w, a[w]), Put("past", w, None)>>]) \o Done

\* observe: the utilization of the windows us and the reset of those of rs are there,
\* each a header of its own; a reset that is past stays.
Observed(us, rs) ==
  Both([w \in Window |->
    (IF w \in us THEN <<Put("pct", w, Period(w, today))>> ELSE <<>>)
    \o (IF w \in rs THEN <<Put("reset", w, End(w, Period(w, today)))>> ELSE <<>>)]) \o Done

\* apply_rate_limits, and the snapshot that deletes the windows it does not have.
RateLimits(a) == Measured(a, [w \in Window |-> Pair(w, a[w], End(w, a[w]))])
RateLimitsSnapshot(a) ==
  Both([w \in Window |-> IF a[w] = None THEN Pair(w, None, None) ELSE <<>>]) \o RateLimits(a) \o Done

Answered(a) ==
  CASE agent = "claude"      -> UsagePct(a)
    [] agent = "codex"       -> RateLimitsSnapshot(a)
    [] agent = "antigravity" -> RateLimits(a) \o Done

\* What the card shows: nothing is known of the window after the one that ended.
Shown(w) == IF reset[w] # None /\ reset[w] <= today THEN Zero ELSE pct[w]

\* The tick puts both windows on the agent's card.
Card == [w \in Window |-> Shown(w)]

EndQuery(c) ==
  /\ phase' = [phase EXCEPT ![c] = "idle"]
  /\ asked' = [asked EXCEPT ![c] = 0]
  /\ answer' = [answer EXCEPT ![c] = NoSlots]

\* One slot is written.  A query is over when all are: only then is the guard released.
WriteSlot(x) ==
  LET op == Head(writes[x])
      weekly == agent = "claude" /\ op.slot = "pct" /\ op.w = "weekly"
      done == agent = "claude" /\ op.slot = "done"
  IN
  /\ writes[x] # <<>>
  /\ writes' = [writes EXCEPT ![x] = Tail(@)]
  /\ pct' = IF op.slot = "pct" THEN [pct EXCEPT ![op.w] = op.v] ELSE pct
  /\ reset' = CASE op.slot = "reset" -> [reset EXCEPT ![op.w] = op.v]
                [] op.slot = "past" -> [reset EXCEPT ![op.w] = IF @ <= today THEN None ELSE @]
                [] OTHER -> reset
  /\ weeklyUpdated' = IF weekly THEN today ELSE weeklyUpdated
  /\ excused' = IF weekly THEN today ELSE excused
  /\ updated' = IF done THEN today ELSE updated
  /\ error' = (error /\ op.slot # "done")
  /\ cache' = IF done THEN [pct |-> pct, reset |-> reset] ELSE cache
  /\ IF Len(writes[x]) = 1 /\ x \in Caller
     THEN EndQuery(x) /\ running' = FALSE
     ELSE UNCHANGED queries
  /\ spoilt' = (spoilt \/ \E y \in Writer \ {x} : writes[y] # <<>>)
  /\ UNCHANGED <<agent, today, owed, halved>>

-------------------------------------------------------------------------------
(* A query *)

\* Mutant: there is no clock of its own for the weekly value.
MustAskEither == agent = "claude" => updated = None \/ today - updated >= Stale

\* The ticker's condition; Codex and Antigravity ask every time.
MustAsk ==
  \/ agent # "claude"
  \/ updated = None \/ today - updated >= Stale
  \/ weeklyUpdated = None \/ today - weeklyUpdated >= WeeklyStale

\* Antigravity has no guard.
MayAsk == agent = "antigravity" \/ ~running

Ask(c) ==
  /\ phase[c] = "idle"
  /\ c = "ticker" => owed /\ MustAsk
  /\ owed' = (owed /\ c # "ticker")
  /\ IF MayAsk
     THEN /\ running' = TRUE
          /\ phase' = [phase EXCEPT ![c] = "asked"]
          /\ asked' = [asked EXCEPT ![c] = today]
     ELSE UNCHANGED <<running, phase, asked>>
  /\ UNCHANGED <<agent, today, slots, cache, answer, writes, spoilt, halved, excused>>

TickerPasses ==
  /\ owed /\ phase["ticker"] = "idle" /\ ~MustAsk
  /\ owed' = FALSE
  /\ UNCHANGED <<agent, today, slots, cache, queries, writes, spoilt, halved, excused>>

Present(ws) == [w \in Window |-> IF w \in ws THEN Period(w, today) ELSE None]

\* What the program printed: of /usage any of the two lines, of `agy` both; of
\* Codex the windows of its single view or, if that has none, of its bucket,
\* and even none, if what looks like a window has no percentage.
Answers ==
  CASE agent = "claude"      -> (SUBSET Window) \ {{}}
    [] agent = "codex"       -> SUBSET Window
    [] agent = "antigravity" -> {Window}

Answer(c) ==
  /\ phase[c] = "asked"
  /\ \E ws \in Answers : answer' = [answer EXCEPT ![c] = Present(ws)]
  /\ phase' = [phase EXCEPT ![c] = "answered"]
  /\ UNCHANGED <<agent, today, slots, cache, running, asked, writes, owed, spoilt, halved, excused>>

\* The answer is read, and the process is gone.
Apply(c) ==
  /\ phase[c] = "answered" /\ writes[c] = <<>>
  /\ writes' = [writes EXCEPT ![c] = Answered(answer[c])]
  /\ spoilt' = (spoilt \/ \E w \in Window : answer[c][w] \notin {None, Period(w, today)})
  /\ halved' = {w \in halved : answer[c][w] = None}
  /\ excused' = IF agent = "claude" /\ answer[c]["weekly"] = None THEN today ELSE excused
  /\ UNCHANGED <<agent, today, slots, cache, queries, owed>>

\* Mutant: the guard is not released if the query fails.
FailHoldingGuard(c) ==
  /\ phase[c] # "idle" /\ writes[c] = <<>>
  /\ EndQuery(c) /\ UNCHANGED running
  /\ error' = TRUE
  /\ excused' = IF agent = "claude" THEN today ELSE excused
  /\ UNCHANGED <<agent, today, pct, reset, updated, weeklyUpdated, cache, writes, owed, spoilt, halved>>

\* It does not start, ends with an error, says nothing that can be read, or takes
\* too long; then it is killed, with whatever it had found out.
Fail(c) ==
  /\ phase[c] # "idle" /\ writes[c] = <<>>
  /\ EndQuery(c) /\ running' = FALSE
  /\ error' = TRUE
  /\ excused' = IF agent = "claude" THEN today ELSE excused
  /\ UNCHANGED <<agent, today, pct, reset, updated, weeklyUpdated, cache, writes, owed, spoilt, halved>>

-------------------------------------------------------------------------------
(* Traffic *)

\* A utilization comes without its reset beside one that is past, or a reset without
\* its utilization beside that of another window.
Halves(us, rs) ==
  {w \in us \ rs : reset[w] # None /\ reset[w] <= today}
    \union {w \in rs \ us : pct[w] \notin {None, Period(w, today)}}

\* The answer to a request that passed the proxy has some header of the limits, maybe
\* none of the four that are read.
Proxied ==
  /\ agent = "claude" /\ writes["traffic"] = <<>>
  /\ \E us, rs \in SUBSET Window :
       /\ <<us, rs>> \in Responses
       /\ writes' = [writes EXCEPT !["traffic"] = Observed(us, rs)]
       /\ halved' = (halved \ (us \union rs)) \union Halves(us, rs)
  /\ UNCHANGED <<agent, today, slots, cache, queries, owed, spoilt, excused>>

\* A line of a rollout, maybe an old one.
RolloutLine ==
  /\ agent = "codex" /\ writes["traffic"] = <<>>
  /\ \E t \in 0 .. today, ws \in (SUBSET Window) \ {{}} :
       writes' = [writes EXCEPT !["traffic"] =
         RateLimits([w \in Window |-> IF w \in ws THEN Period(w, t) ELSE None])]
  /\ UNCHANGED <<agent, today, slots, cache, queries, owed, spoilt, halved, excused>>

-------------------------------------------------------------------------------
\* Writing a slot takes no time, a query at most QueryTime, but for Antigravity's, which
\* nothing ends (antigravity.rs:74); the ticker does not miss its turn, but waits for
\* the query that it asked itself.
Pass ==
  /\ today < MaxNow
  /\ \A x \in Writer : writes[x] = <<>>
  /\ owed => phase["ticker"] # "idle"
  /\ \A c \in Caller : phase[c] # "idle" /\ agent # "antigravity" => today < asked[c] + QueryTime
  /\ today' = today + 1
  /\ owed' = TRUE
  /\ UNCHANGED <<agent, slots, cache, queries, writes, spoilt, halved, excused>>

\* The app ends, perhaps in the middle of writing its file, and starts again.
Restart ==
  /\ \E kept \in {cache} \union
                 {NoFile : x \in {x \in Writer : writes[x] # <<>> /\ Head(writes[x]) = Done[1]}} :
       /\ cache' = kept /\ pct' = kept.pct /\ reset' = kept.reset
  /\ updated' = None /\ weeklyUpdated' = None /\ error' = FALSE
  /\ running' = FALSE /\ phase' = Idle
  /\ asked' = [c \in Caller |-> 0] /\ answer' = [c \in Caller |-> NoSlots]
  /\ writes' = [x \in Writer |-> <<>>]
  /\ owed' = TRUE
  /\ spoilt' = (spoilt \/ \E x \in Writer : writes[x] # <<>>)
  /\ excused' = IF agent = "claude" THEN today ELSE excused
  /\ UNCHANGED <<agent, today, halved>>

QuotaNext ==
  \/ \E x \in Writer : WriteSlot(x)
  \/ \E c \in Caller : Ask(c) \/ Answer(c) \/ Apply(c) \/ Fail(c)
  \/ TickerPasses \/ Proxied \/ RolloutLine \/ Pass \/ Restart

QuotaSpec == QuotaInit /\ [][QuotaNext]_quotaVars

-------------------------------------------------------------------------------
(* Properties *)

QuotaTypeOK ==
  /\ today \in 0 .. MaxNow
  /\ \A slot \in {pct, cache.pct} : \A w \in Window : slot[w] \in {None} \union 0 .. Period(w, today)
  /\ \A slot \in {reset, cache.reset} :
       \A w \in Window : slot[w] \in {None} \union {End(w, n) : n \in 0 .. Period(w, today)}
  /\ {updated, weeklyUpdated} \subseteq {None} \union 0 .. today
  /\ \A c \in Caller : phase[c] \in {"idle", "asked", "answered"}

\* "If reset_at has passed, it is the value of a window that ended: show 0 %"
\* (lib.rs:239-241), and a value read in the present window is never shown as 0
\* (quota_proxy.rs:96-105): whatever the headers, the queries and restarts left in
\* the slots.  But for two writers whose slots are mixed, for a query that was
\* under way when its window ended, and for a window of which the last response told
\* half, beside a half of another window (quota_proxy.rs:252-279).
ShownIsOfThisWindow ==
  (\A x \in Writer : writes[x] = <<>>) /\ ~spoilt =>
    \A w \in Window \ halved : pct[w] # None =>
      IF pct[w] = Period(w, today) THEN Card[w] = pct[w]
                                   ELSE Card[w] = Zero \/ reset[w] = None

\* observe always updates the percentage and the reset together (quota_proxy.rs:96-98),
\* and a past reset means that the value is of a window that ended (lib.rs:239-241): a
\* percentage of the present window is shown as it is.  The code does not keep to it:
\* a response with a utilization and no reset leaves a past reset where it is.
FreshIsShown ==
  (\A x \in Writer : writes[x] = <<>>) /\ ~spoilt =>
    \A w \in Window : pct[w] = Period(w, today) => Card[w] = pct[w]

\* The weekly value is not starved by traffic that refreshes only the other window
\* (quota_proxy.rs:158-164), nor by a guard that nobody releases: it is never older
\* than the ticker's patience and one query, as long as queries bring it.
WeeklyComes ==
  agent = "claude" =>
    today - excused <= WeeklyStale + QueryTime

=============================================================================
