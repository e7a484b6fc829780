-------------------------------- MODULE Usage ---------------------------------
(***************************************************************************)
(* One agent's AgentBucket in aggregator/: the five-hour totals in a ring  *)
(* of cells, the window they are counted in, the token rate and the list   *)
(* of sessions.  Events arrive in any order, since the watchers replay     *)
(* whole files at the start; the aggregator is behind one mutex, so push   *)
(* and snapshot are one action each.                                       *)
(*                                                                         *)
(* An event counts one token; the four counters of TokenCounts are one.    *)
(* The smoothing of the rate, names and models are left out.  Properties   *)
(* compare the pruned, overwritten state with the log of all events.       *)
(***************************************************************************)
EXTENDS Integers, Sequences, FiniteSets, FiniteSetsExt, SequencesExt

CONSTANTS Session,
          Bucket,      \* BUCKET, and RETENTION and PROJECT_PRUNE_AFTER, which are as long
          NumBuckets,  \* NUM_BUCKETS
          Lookback,    \* ANCHOR_LOOKBACK
          RateWindow,  \* WINDOW_SECS
          CounterMax,  \* u32::MAX
          MaxTime,     \* bound: the clock stays in 0..MaxTime
          MaxEvents    \* bound: events pushed

ASSUME UsageAssumption ==
  /\ Bucket \in Nat \ {0} /\ NumBuckets \in Nat \ {0}
  /\ Lookback \in Nat /\ Lookback >= Bucket * NumBuckets
  /\ RateWindow \in 0 .. Bucket
  /\ CounterMax \in Nat /\ MaxTime \in Nat /\ MaxEvents \in Nat

QuotaWindow == Bucket * NumBuckets   \* QUOTA_WINDOW, and the reach of sum_5h
Clock == 0 .. MaxTime

VARIABLES
  clock,
  cells,     \* slot -> the start of the bucket it holds and its tokens
  times,     \* event_times, as a set: they are sorted before use
  ring,      \* the stamps in the EventRing, in order of arrival
  sessions,  \* projects: session -> its last event and whether it has a preview
  \* history
  log,       \* every event pushed: session, stamp, preview or usage
  wentBack   \* the clock was set back

usageVars == <<clock, cells, times, ring, sessions, log, wentBack>>

Empty == [last |-> -1, preview |-> FALSE]   \* no entry for the session

\* Counters saturate.
Saturated(n) == IF n > CounterMax THEN CounterMax ELSE n

-------------------------------------------------------------------------------
(* rotating.rs *)

Slot(ts) == (ts \div Bucket) % NumBuckets
BucketStart(ts) == (ts \div Bucket) * Bucket

\* Mutant: a cell is not cleared when a new bucket takes it over.
AddWithoutReset(ts) ==
  [cells EXCEPT ![Slot(ts)] =
     [start |-> BucketStart(ts), tokens |-> Saturated(@.tokens + 1)]]

\* A bucket that maps to a taken slot replaces what is there, newer or older.
Add(ts) ==
  [cells EXCEPT ![Slot(ts)] =
     [start |-> BucketStart(ts),
      tokens |-> IF @.start = BucketStart(ts) THEN Saturated(@.tokens + 1) ELSE Saturated(1)]]

Sum5h ==
  LET counted == {i \in DOMAIN cells :
                    cells[i].start >= clock - QuotaWindow /\ cells[i].start <= clock}
  IN  Saturated(MapThenSumSet(LAMBDA i : cells[i].tokens, counted))

-------------------------------------------------------------------------------
(* ring.rs *)

\* prune drops from the front, and stops at the first event that is young
\* enough: an older one behind it stays.
Pruned(evs, at) ==
  LET young == {i \in DOMAIN evs : evs[i] >= at - Bucket}
  IN  IF young = {} THEN <<>> ELSE SubSeq(evs, Min(young), Len(evs))

Rate == Cardinality({i \in DOMAIN ring : ring[i] >= clock - RateWindow})

-------------------------------------------------------------------------------
(* current_window_anchor *)

Kept(at) == {t \in times : t >= at - Lookback /\ t <= at}

\* Mutant: the anchor is the first message of the trailing five hours.
TrailingAnchor(stamps) == Min({t \in stamps : t >= clock - QuotaWindow} \union {clock})

\* From the oldest on, the newest last, a stamp a window's length after the anchor is
\* the next.
Anchor(stamps) ==
  MapThenFoldSet(LAMBDA t, a : IF t - a >= QuotaWindow THEN t ELSE a,
                 Min(stamps), LAMBDA t : t, Max, stamps)

-------------------------------------------------------------------------------
UsageInit ==
  /\ clock \in Clock
  /\ cells = [i \in 0 .. NumBuckets - 1 |-> [start |-> 0, tokens |-> 0]]
  /\ times = {} /\ ring = <<>>
  /\ sessions = [s \in Session |-> Empty]
  /\ log = <<>> /\ wentBack = FALSE

Age(t) == IF clock >= t THEN clock - t ELSE 0

SetUsageClock ==
  /\ clock' \in Clock \ {clock}
  /\ wentBack' = (wentBack \/ clock' < clock)
  /\ UNCHANGED <<cells, times, ring, sessions, log>>

Logged(s, ts, usage) ==
  /\ Len(log) < MaxEvents
  /\ log' = Append(log, [s |-> s, ts |-> ts, usage |-> usage])

\* Mutant: a preview counts as a sign of life of its session.
PushPreviewRefreshing(s, ts) ==
  /\ Logged(s, ts, FALSE)
  /\ sessions' = [sessions EXCEPT ![s] = [last |-> ts, preview |-> TRUE]]
  /\ UNCHANGED <<clock, cells, times, ring, wentBack>>

\* A prompt preview only labels its session, which it creates if need be.
PushPreview(s, ts) ==
  /\ Logged(s, ts, FALSE)
  /\ sessions' = [sessions EXCEPT ![s] =
       [last |-> IF @ = Empty THEN ts ELSE @.last, preview |-> TRUE]]
  /\ UNCHANGED <<clock, cells, times, ring, wentBack>>

PushUsage(s, ts) ==
  /\ Logged(s, ts, TRUE)
  /\ cells' = Add(ts)
  /\ times' = times \union {ts}
  /\ ring' = Pruned(Append(ring, ts), ts)
  /\ sessions' = [sessions EXCEPT ![s].last = ts]
  /\ UNCHANGED <<clock, wentBack>>

\* What snapshot forgets is forgotten for good, stamps of the future included.
TakeSnapshot ==
  /\ times' = Kept(clock)
  /\ ring' = Pruned(ring, clock)
  /\ sessions' = [s \in Session |->
                    IF Age(sessions[s].last) < Bucket THEN sessions[s] ELSE Empty]
  /\ UNCHANGED <<clock, cells, log, wentBack>>

UsageNext ==
  \/ SetUsageClock
  \/ \E s \in Session, ts \in 0 .. clock : PushPreview(s, ts) \/ PushUsage(s, ts)
  \/ TakeSnapshot

UsageSpec == UsageInit /\ [][UsageNext]_usageVars

-------------------------------------------------------------------------------
(* Properties *)

UsageTypeOK ==
  /\ clock \in Clock
  /\ cells \in [0 .. NumBuckets - 1 -> [start : Clock, tokens : 0 .. CounterMax]]
  /\ times \in SUBSET Clock
  /\ ring \in Seq(Clock) /\ Len(ring) <= MaxEvents
  /\ sessions \in [Session -> [last : Clock \union {-1}, preview : BOOLEAN]]
  /\ wentBack \in BOOLEAN

Usages == {i \in DOMAIN log : log[i].usage}

\* No event comes after one of a newer bucket that shares its slot: only files
\* replayed in any order (watchers/claude.rs:173-183) bring such an event.
NoneTooLate ==
  \A i, j \in Usages : i < j /\ Slot(log[i].ts) = Slot(log[j].ts) =>
    BucketStart(log[j].ts) >= BucketStart(log[i].ts)

\* The five-hour total and the rate are exact: they count every event of their reach
\* once, whatever was pruned, overwritten or set back in between, but for a bucket
\* whose slot a newer one has taken.
TotalsAreExact ==
  LET start(i) == BucketStart(log[i].ts)
      taken(i) == \E j \in Usages : Slot(log[j].ts) = Slot(log[i].ts) /\ start(j) > start(i)
      counted == {i \in Usages : start(i) \in clock - QuotaWindow .. clock /\ ~taken(i)}
  IN  /\ NoneTooLate => Sum5h = Saturated(Cardinality(counted))
      /\ ~wentBack => Rate = Cardinality({i \in Usages : log[i].ts >= clock - RateWindow})

\* The windows of the agent's vendor: one opens with the first message at or after
\* the end of the one before.  Defined over all events, none forgotten.
WindowStarts(stamps) ==
  CHOOSE W \in SUBSET stamps :
    \A t \in stamps : t \in W <=> \A u \in W : u < t => t - u >= QuotaWindow

\* The countdown shown belongs to the window that the full history yields, although
\* only a day of stamps is kept, as long as the oldest stamp kept opened a window.
\* (The clock must not be set back, or snapshot drops stamps it should keep.)
AnchorOpensWindow ==
  LET starts == WindowStarts({log[i].ts : i \in Usages}) IN
  /\ ~wentBack /\ Kept(clock) # {} /\ Min(Kept(clock)) \in starts
  => Anchor(Kept(clock)) = Max(starts)

Uses(s) == {i \in Usages : log[i].s = s}
Recent(is) == \E i \in is : Age(log[i].ts) < Bucket
ListedNow(s) == sessions[s] # Empty /\ Age(sessions[s].last) < Bucket

\* The usages of s came in the order of their stamps.
InOrder(s) == \A i, j \in Uses(s) : i < j => log[i].ts <= log[j].ts

\* Whatever previews and earlier snapshots came in between, a snapshot lists every
\* session with a recent usage, as long as its usages come in the order of their
\* stamps: push notes the stamp that came last, not the newest (aggregator/mod.rs:104),
\* and an older usage that comes later hides the session.  In any order, nothing is
\* listed that had neither a recent usage nor a recent preview.
ListIsRecent ==
  ~wentBack =>
    \A s \in Session :
      /\ InOrder(s) /\ Recent(Uses(s)) => ListedNow(s)
      /\ ListedNow(s) => Recent({i \in DOMAIN log : log[i].s = s})

\* A session used less than the idle window ago "must still be there"
\* (aggregator/mod.rs:271-280), whatever came after that use.  The code does not keep
\* to it: see ListIsRecent.
UsedIsListed == ~wentBack => \A s \in Session : Recent(Uses(s)) => ListedNow(s)
=============================================================================
