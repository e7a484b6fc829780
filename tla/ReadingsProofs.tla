---------------------------- MODULE ReadingsProofs -----------------------------
(***************************************************************************)
(* Of the quota slots, for windows of any length and any patience of the   *)
(* ticker: the card shows the present window (ShownIsOfThisWindow), and    *)
(* the weekly value is not starved (WeeklyComes).  Of the aggregator: a    *)
(* snapshot lists the sessions it should (ListIsRecent), the totals and    *)
(* the rate count each usage once (TotalsAreExact), and the window counted *)
(* down is the present one (AnchorOpensWindow).  Of the watchers: what is  *)
(* written to a file reaches the aggregator once (EachLineOnce).           *)
(*                                                                         *)
(* The slots of a window are in agreement, or what the only writer has yet *)
(* to write will bring them to, in whatever order it does; but for windows *)
(* of which a response told half.  For the weekly value: whoever asks      *)
(* does so before the patience is over, so the query that runs when it is  *)
(* over was asked in time, and it ends in time.  And a session that does   *)
(* not bear the stamp of its last usage has not had any for long.          *)
(* A cell counts the usages of the newest bucket of its slot, so the sum   *)
(* over the cells is that of disjoint sets of usages; and from the start   *)
(* of what prune keeps on, the ring has as many stamps as the log.  What   *)
(* is kept for the anchor is all there is from some stamp on; if that one  *)
(* opened a window, the walk that follows finds every later window.  And   *)
(* an undamaged file is always read up to the end of a line, just the      *)
(* lines before it were sent, and a newline after it has a notice, a place *)
(* in the list of files to be read, or a next poll to wait for.            *)
(*                                                                         *)
(* The type invariants of the three come last: their ranges follow from    *)
(* these invariants and from a few more facts that each step keeps.        *)
(***************************************************************************)
EXTENDS Quota, Usage, Watchers, SequenceTheorems, FiniteSetTheorems, WellFoundedInduction, TLAPS

Op == [slot : {"pct", "reset", "past"}, w : Window, v : Int] \union {Done[1]}
Values == [Window -> Int]

QuotaTypes ==
  /\ agent \in {"claude", "codex", "antigravity"} /\ today \in Nat
  /\ pct \in Values /\ reset \in Values /\ cache \in [pct : Values, reset : Values]
  /\ updated \in Int /\ weeklyUpdated \in Int /\ error \in BOOLEAN
  /\ running \in BOOLEAN /\ phase \in [Caller -> {"idle", "asked", "answered"}]
  /\ asked \in [Caller -> Nat] /\ answer \in [Caller -> Values]
  /\ writes \in [Writer -> Seq(Op)]
  /\ owed \in BOOLEAN /\ spoilt \in BOOLEAN /\ halved \in SUBSET Window /\ excused \in Nat

\* A write of the weekly percentage is among them.
HasWeekly(ops) == \E i \in 1 .. Len(ops) : ops[i].slot = "pct" /\ ops[i].w = "weekly"

\* One query at a time, asked before the patience was over, and over in time.
WeeklyInv ==
  agent = "claude" =>
    /\ weeklyUpdated <= excused /\ excused <= today
    /\ running <=> \E c \in Caller : phase[c] # "idle"
    /\ \A c, d \in Caller : phase[c] # "idle" /\ phase[d] # "idle" => c = d
    /\ \A c \in Caller : phase[c] # "idle" =>
         asked[c] <= excused + WeeklyStale /\ today <= asked[c] + QueryTime
    /\ ~running => today <= excused + WeeklyStale
    /\ ~running /\ ~owed => today < excused + WeeklyStale
    /\ \A c \in Caller : writes[c] # <<>> =>
         phase[c] = "answered" /\ (excused = today \/ HasWeekly(writes[c]))

\* A percentage and a reset that can be known of w at t.
PctAt(w, v, t) == v = None \/ v \in 0 .. Period(w, t)
EndAt(w, v, t) == v = None \/ \E n \in 0 .. Period(w, t) : v = End(w, n)

OpAt(op, t) ==
  /\ op.slot = "pct" => PctAt(op.w, op.v, t)
  /\ op.slot = "reset" => EndAt(op.w, op.v, t)

\* The writes of a list.
All(ops) == {ops[i] : i \in 1 .. Len(ops)}
AllAt(ops, t) == \A op \in All(ops) : OpAt(op, t)

\* Nothing is in the slots, in the file, in an answer or about to be written that is
\* not known yet.
QuotaRange ==
  /\ today <= MaxNow /\ {updated, weeklyUpdated} \subseteq {None} \cup 0 .. today
  /\ \A w \in Window : /\ PctAt(w, pct[w], today) /\ EndAt(w, reset[w], today)
                       /\ PctAt(w, cache.pct[w], today) /\ EndAt(w, cache.reset[w], today)
                       /\ \A c \in Caller : PctAt(w, answer[c][w], today)
  /\ \A x \in Writer : AllAt(writes[x], today)

Agree(w, p, r) == p = None \/ r = None \/ r = End(w, p)

\* A reset that is past is deleted.
Cleared(r, t) == IF r <= t THEN None ELSE r

\* Once the writes of P are done, the slots p and r of w are in agreement.
Leads(P, w, p, r, t) ==
  \E p2 \in Int, r2 \in Int :
    /\ Agree(w, p2, r2)
    /\ \A op \in P : op.w = w => /\ op.slot = "pct" => op.v = p2
                                 /\ op.slot = "reset" => op.v = r2
                                 /\ op.slot = "past" => r2 = Cleared(r, t)
    /\ p2 = p \/ \E op \in P : op.w = w /\ op.slot = "pct"
    /\ r2 = r \/ \E op \in P : op.w = w /\ op.slot \in {"reset", "past"}

Resting == \A x \in Writer : writes[x] = <<>>
Alone(x) == \A y \in Writer \ {x} : writes[y] = <<>>

\* The slots agree, or the only writer is about to bring them to; the file agrees; and
\* it is Claude's alone, whose writers save it last.
SlotInv ==
  /\ Resting => \A w \in Window \ halved : Agree(w, pct[w], reset[w])
  /\ \A x \in Writer : writes[x] # <<>> /\ Alone(x) =>
       \A w \in Window \ halved : Leads(All(writes[x]), w, pct[w], reset[w], today)
FileInv ==
  /\ agent # "claude" => cache = NoFile
  /\ agent = "claude" =>
       \A x \in Writer : writes[x] # <<>> => writes[x][Len(writes[x])].slot = "done"
  /\ Resting => \A w \in Window \ halved : Agree(w, cache.pct[w], cache.reset[w])

CardInv == ~spoilt => SlotInv /\ FileInv

-------------------------------------------------------------------------------
(* Lists of writes *)

LEMMA OpsConcat ==
  ASSUME NEW s \in Seq(Op), NEW t \in Seq(Op)
  PROVE  /\ s \o t \in Seq(Op) /\ Len(s) \in Nat /\ Len(t) \in Nat /\ Len(s \o t) = Len(s) + Len(t)
         /\ \A i \in 1 .. Len(s) : (s \o t)[i] = s[i]
         /\ \A i \in 1 .. Len(t) : (s \o t)[Len(s) + i] = t[i]
<1>1. Len(s) \in Nat /\ Len(t) \in Nat
  BY LenProperties
<1>2. /\ s \o t \in Seq(Op) /\ Len(s \o t) = Len(s) + Len(t)
      /\ \A i \in 1 .. Len(s) + Len(t) : (s \o t)[i] = IF i <= Len(s) THEN s[i] ELSE t[i - Len(s)]
  BY ConcatProperties
<1>3. ASSUME NEW i \in 1 .. Len(t) PROVE (s \o t)[Len(s) + i] = t[i]
  <2>1. Len(s) + i \in 1 .. Len(s) + Len(t) /\ ~(Len(s) + i <= Len(s)) /\ Len(s) + i - Len(s) = i
    BY <1>1
  <2>2. QED
    BY <1>2, <2>1
<1>4. \A i \in 1 .. Len(s) : (s \o t)[i] = s[i]
  BY <1>1, <1>2
<1>5. QED
  BY <1>1, <1>2, <1>3, <1>4

LEMMA OpsTail ==
  ASSUME NEW s \in Seq(Op), s # <<>>
  PROVE  /\ Tail(s) \in Seq(Op) /\ Len(s) \in Nat \ {0} /\ Len(Tail(s)) = Len(s) - 1
         /\ \A i \in 1 .. Len(Tail(s)) : Tail(s)[i] = s[i + 1]
         /\ Head(s) = s[1] /\ Head(s) \in Op
         /\ Tail(s) = <<>> <=> Len(s) = 1
<1>1. /\ Tail(s) \in Seq(Op) /\ Len(Tail(s)) = Len(s) - 1
      /\ \A i \in 1 .. Len(Tail(s)) : Tail(s)[i] = s[i + 1]
      /\ Head(s) = s[1] /\ Len(s) \in Nat \ {0}
  BY HeadTailProperties, EmptySeq, LenProperties
<1>2. Head(s) \in Op
  BY <1>1, ElementOfSeq
<1>3. Tail(s) = <<>> <=> Len(s) = 1
  BY <1>1, EmptySeq
<1>4. QED
  BY <1>1, <1>2, <1>3

LEMMA WeeklyConcat ==
  ASSUME NEW s \in Seq(Op), NEW t \in Seq(Op), HasWeekly(s) \/ HasWeekly(t)
  PROVE  HasWeekly(s \o t)
<1>1. CASE HasWeekly(s)
  <2>1. PICK i \in 1 .. Len(s) : s[i].slot = "pct" /\ s[i].w = "weekly"
    BY <1>1 DEF HasWeekly
  <2>2. i \in 1 .. Len(s \o t) /\ (s \o t)[i] = s[i]
    BY OpsConcat
  <2>3. QED
    BY <2>1, <2>2 DEF HasWeekly
<1>2. CASE HasWeekly(t)
  <2>1. PICK i \in 1 .. Len(t) : t[i].slot = "pct" /\ t[i].w = "weekly"
    BY <1>2 DEF HasWeekly
  <2>2. Len(s) + i \in 1 .. Len(s \o t) /\ (s \o t)[Len(s) + i] = t[i]
    BY OpsConcat
  <2>3. QED
    BY <2>1, <2>2 DEF HasWeekly
<1>3. QED
  BY <1>1, <1>2

\* The one write that clears the error.
LEMMA DoneIs ==
  /\ Done \in Seq(Op) /\ Len(Done) = 1 /\ Done[1] \in Op
  /\ Done[1].slot = "done" /\ Done[1].v = None /\ Done[1].w \notin Window
<1> DEFINE put == Put("done", "", None)
<1>1. put.slot = "done" /\ put.v = None /\ put.w \notin Window
  BY DEF Put, Window
<1> HIDE DEF put
<1>2. Done = <<put>>
  BY DEF Done, put
<1>3. Done[1] = put /\ put \in Op
  BY <1>2 DEF Op
<1>4. QED
  BY <1>1, <1>2, <1>3

LEMMA PutIs ==
  ASSUME NEW slot \in {"pct", "reset", "past"}, NEW w \in Window, NEW v \in Int
  PROVE  Put(slot, w, v) \in Op /\ Put(slot, w, v).slot = slot /\ Put(slot, w, v).w = w
         /\ Put(slot, w, v).v = v
  BY DEF Put, Op

LEMMA TwoOps ==
  ASSUME NEW p \in Op, NEW q \in Op
  PROVE  /\ <<p, q>> \in Seq(Op) /\ Len(<<p, q>>) = 2
         /\ <<p, q>>[1] = p /\ <<p, q>>[2] = q
  OBVIOUS

(* Lists of writes, as sets *)

LEMMA AllConcat ==
  ASSUME NEW s \in Seq(Op), NEW u \in Seq(Op)
  PROVE  s \o u \in Seq(Op) /\ All(s \o u) = All(s) \union All(u)
<1> DEFINE r == s \o u
<1>1. /\ r \in Seq(Op) /\ Len(s) \in Nat /\ Len(u) \in Nat /\ Len(r) = Len(s) + Len(u)
      /\ \A i \in 1 .. Len(s) : r[i] = s[i]
      /\ \A i \in 1 .. Len(u) : r[Len(s) + i] = u[i]
  BY OpsConcat
<1> HIDE DEF r
<1>2. ASSUME NEW op \in All(r) PROVE op \in All(s) \union All(u)
  <2>1. PICK i \in 1 .. Len(r) : op = r[i]
    BY <1>2 DEF All
  <2>2. CASE i \in 1 .. Len(s)
    BY <1>1, <2>1, <2>2 DEF All
  <2>3. CASE ~(i \in 1 .. Len(s))
    <3>1. PICK j \in 1 .. Len(u) : i = Len(s) + j
      <4>1. i - Len(s) \in 1 .. Len(u) /\ i = Len(s) + (i - Len(s))
        BY <1>1, <2>3
      <4>2. QED
        BY <4>1
    <3>2. QED
      BY <1>1, <2>1, <3>1 DEF All
  <2>4. QED
    BY <2>2, <2>3
<1>3. ASSUME NEW op \in All(s) PROVE op \in All(r)
  <2>1. PICK i \in 1 .. Len(s) : op = s[i]
    BY DEF All
  <2>2. i \in 1 .. Len(r) /\ r[i] = op
    BY <1>1, <2>1
  <2>3. QED
    BY <2>2 DEF All
<1>4. ASSUME NEW op \in All(u) PROVE op \in All(r)
  <2>1. PICK i \in 1 .. Len(u) : op = u[i]
    BY DEF All
  <2>2. Len(s) + i \in 1 .. Len(r) /\ r[Len(s) + i] = op
    BY <1>1, <2>1
  <2>3. QED
    BY <2>2 DEF All
<1>5. QED
  BY <1>1, <1>2, <1>3, <1>4 DEF r

LEMMA AllOf ==
  /\ All(<<>>) = {} /\ All(Done) = {Done[1]}
  /\ \A p \in Op : <<p>> \in Seq(Op) /\ All(<<p>>) = {p}
  /\ \A p, q \in Op : <<p, q>> \in Seq(Op) /\ All(<<p, q>>) = {p, q}
<1>1. All(<<>>) = {} /\ All(Done) = {Done[1]}
  BY DoneIs, EmptySeq DEF All
<1>2. ASSUME NEW p \in Op PROVE <<p>> \in Seq(Op) /\ All(<<p>>) = {p}
  BY DEF All
<1>3. ASSUME NEW p \in Op, NEW q \in Op PROVE <<p, q>> \in Seq(Op) /\ All(<<p, q>>) = {p, q}
  <2> DEFINE s == <<p, q>>
  <2>1. s \in Seq(Op) /\ Len(s) = 2 /\ s[1] = p /\ s[2] = q
    BY TwoOps
  <2> HIDE DEF s
  <2>2. 1 .. Len(s) = {1, 2}
    BY <2>1
  <2>3. QED
    BY <2>1, <2>2 DEF All, s
<1>4. QED
  BY <1>1, <1>2, <1>3

LEMMA AllTail ==
  ASSUME NEW s \in Seq(Op), s # <<>> PROVE All(s) = {Head(s)} \union All(Tail(s))
<1>1. PICK u \in Seq(Op) :
        /\ u = Tail(s) /\ Len(s) \in Nat \ {0} /\ Len(u) = Len(s) - 1
        /\ \A i \in 1 .. Len(u) : u[i] = s[i + 1]
        /\ Head(s) = s[1]
  BY OpsTail
<1>2. ASSUME NEW i \in 1 .. Len(s) PROVE s[i] \in {s[1]} \union All(u)
  <2>1. CASE i = 1
    BY <2>1
  <2>2. CASE i # 1
    <3>1. PICK j \in 1 .. Len(u) : i = j + 1
      <4>1. i - 1 \in 1 .. Len(u) /\ i = (i - 1) + 1
        BY <1>1, <2>2
      <4>2. QED
        BY <4>1
    <3>2. QED
      BY <1>1, <3>1 DEF All
  <2>3. QED
    BY <2>1, <2>2
<1>3. ASSUME NEW i \in 1 .. Len(u) PROVE u[i] \in All(s)
  <2>1. i + 1 \in 1 .. Len(s) /\ u[i] = s[i + 1]
    BY <1>1
  <2>2. QED
    BY <2>1 DEF All
<1>4. 1 \in 1 .. Len(s)
  BY <1>1
<1>5. s[1] \in All(s)
  BY <1>4 DEF All
<1>6. QED
  BY <1>1, <1>2, <1>3, <1>5 DEF All

LEMMA BothAll ==
  ASSUME NEW ops \in [Window -> Seq(Op)]
  PROVE  Both(ops) \in Seq(Op) /\ All(Both(ops)) = UNION {All(ops[w]) : w \in Window}
<1>1. Window = {"5h", "weekly"}
  BY DEF Window
<1>2. All(ops["5h"] \o ops["weekly"]) = All(ops["5h"]) \union All(ops["weekly"])
      /\ ops["5h"] \o ops["weekly"] \in Seq(Op)
  BY <1>1, AllConcat
<1>3. UNION {All(ops[w]) : w \in Window} = All(ops["5h"]) \union All(ops["weekly"])
  BY <1>1
<1>4. QED
  BY <1>2, <1>3 DEF Both

\* A list of writes to both windows, and what is known of one that ends with "done".
LEMMA ThenDone ==
  ASSUME NEW s \in Seq(Op)
  PROVE  \E r \in Seq(Op) : /\ r = s \o Done /\ r # <<>> /\ r[Len(r)].slot = "done"
                            /\ All(r) = All(s) \union {Done[1]}
<1>1. PICK d \in Seq(Op), one \in Op :
        d = Done /\ one = Done[1] /\ Len(d) = 1 /\ d[1] = one /\ one.slot = "done" /\ All(d) = {one}
  BY DoneIs, AllOf
<1> DEFINE r == s \o d
<1>2. r \in Seq(Op) /\ All(r) = All(s) \union {one}
  BY <1>1, AllConcat
<1>3. Len(r) = Len(s) + 1 /\ Len(s) \in Nat /\ \A i \in 1 .. Len(d) : r[Len(s) + i] = d[i]
  <2>1. Len(r) = Len(s) + Len(d) /\ Len(s) \in Nat /\ \A i \in 1 .. Len(d) : r[Len(s) + i] = d[i]
    BY OpsConcat
  <2> HIDE DEF r
  <2>2. QED
    BY <1>1, <2>1
<1> HIDE DEF r
<1>4. r # <<>> /\ r[Len(r)] = one
  <2>1. 1 \in 1 .. Len(d)
    BY <1>1
  <2>2. r[Len(s) + 1] = one
    BY <1>1, <1>3, <2>1
  <2>3. QED
    BY <1>3, <2>2, EmptySeq
<1>5. QED
  BY <1>1, <1>2, <1>4 DEF r

\* What is written to w by a percentage with what follows it.
Paired(w, p, second) == {Put("pct", w, p), second}

WithEnd(a, w) == IF a[w] = None THEN {} ELSE Paired(w, a[w], Put("reset", w, End(w, a[w])))
WithPast(a, w) == IF a[w] = None THEN {} ELSE Paired(w, a[w], Put("past", w, None))
WithNone(a, w) == IF a[w] = None THEN Paired(w, None, Put("reset", w, None)) ELSE {}

LEMMA RateLimitsAre ==
  ASSUME NEW a \in Values
  PROVE  RateLimits(a) \in Seq(Op) /\ All(RateLimits(a)) = UNION {WithEnd(a, w) : w \in Window}
<1> DEFINE pairs == [w \in Window |-> Pair(w, a[w], End(w, a[w]))]
           part == [w \in Window |-> IF a[w] = None THEN <<>> ELSE pairs[w]]
<1>1. ASSUME NEW w \in Window PROVE part[w] \in Seq(Op) /\ All(part[w]) = WithEnd(a, w)
  <2>1. a[w] \in Int /\ End(w, a[w]) \in Int
    BY QuotaAssumption DEF Values, End
  <2>2. PICK p \in Op, q \in Op : p = Put("pct", w, a[w]) /\ q = Put("reset", w, End(w, a[w]))
    BY <2>1, PutIs
  <2>3. part[w] = IF a[w] = None THEN <<>> ELSE <<p, q>>
    BY <2>2 DEF Pair
  <2> HIDE DEF part, pairs
  <2>4. WithEnd(a, w) = IF a[w] = None THEN {} ELSE {p, q}
    BY <2>2 DEF WithEnd, Paired
  <2>5. QED
    BY <2>3, <2>4, AllOf, EmptySeq
<1>2. part \in [Window -> Seq(Op)] /\ \A w \in Window : All(part[w]) = WithEnd(a, w)
  BY <1>1
<1>3. RateLimits(a) = Both(part)
  BY DEF RateLimits, Measured
<1> HIDE DEF part
<1>4. Both(part) \in Seq(Op) /\ All(Both(part)) = UNION {All(part[w]) : w \in Window}
  BY <1>2, BothAll
<1>5. UNION {All(part[w]) : w \in Window} = UNION {WithEnd(a, w) : w \in Window}
  BY <1>2
<1>6. QED
  BY <1>3, <1>4, <1>5

LEMMA UsagePctAre ==
  ASSUME NEW a \in Values
  PROVE  \E s \in Seq(Op) : UsagePct(a) = s \o Done /\ All(s) = UNION {WithPast(a, w) : w \in Window}
<1> DEFINE pairs == [w \in Window |-> <<Put("pct", w, a[w]), Put("past", w, None)>>]
           part == [w \in Window |-> IF a[w] = None THEN <<>> ELSE pairs[w]]
<1>1. ASSUME NEW w \in Window PROVE part[w] \in Seq(Op) /\ All(part[w]) = WithPast(a, w)
  <2>1. a[w] \in Int /\ None \in Int
    BY DEF Values, None
  <2>2. PICK p \in Op, q \in Op : p = Put("pct", w, a[w]) /\ q = Put("past", w, None)
    BY <2>1, PutIs
  <2>3. part[w] = IF a[w] = None THEN <<>> ELSE <<p, q>>
    BY <2>2
  <2> HIDE DEF part, pairs
  <2>4. WithPast(a, w) = IF a[w] = None THEN {} ELSE {p, q}
    BY <2>2 DEF WithPast, Paired
  <2>5. QED
    BY <2>3, <2>4, AllOf, EmptySeq
<1>2. part \in [Window -> Seq(Op)] /\ \A w \in Window : All(part[w]) = WithPast(a, w)
  BY <1>1
<1>3. UsagePct(a) = Both(part) \o Done
  BY DEF UsagePct, Measured
<1> HIDE DEF part
<1>4. Both(part) \in Seq(Op) /\ All(Both(part)) = UNION {All(part[w]) : w \in Window}
  BY <1>2, BothAll
<1>5. UNION {All(part[w]) : w \in Window} = UNION {WithPast(a, w) : w \in Window}
  BY <1>2
<1>6. QED
  BY <1>3, <1>4, <1>5

LEMMA SnapshotAre ==
  ASSUME NEW a \in Values
  PROVE  \E s \in Seq(Op) :
           /\ RateLimitsSnapshot(a) = s \o Done
           /\ All(s) = UNION {WithNone(a, w) \union WithEnd(a, w) : w \in Window}
<1> DEFINE gone == [w \in Window |-> IF a[w] = None THEN Pair(w, None, None) ELSE <<>>]
<1>1. ASSUME NEW w \in Window PROVE gone[w] \in Seq(Op) /\ All(gone[w]) = WithNone(a, w)
  <2>1. PICK p \in Op, q \in Op : p = Put("pct", w, None) /\ q = Put("reset", w, None)
    BY PutIs DEF None
  <2>2. gone[w] = IF a[w] = None THEN <<p, q>> ELSE <<>>
    BY <2>1 DEF Pair
  <2> HIDE DEF gone
  <2>3. WithNone(a, w) = IF a[w] = None THEN {p, q} ELSE {}
    BY <2>1 DEF WithNone, Paired
  <2>4. CASE a[w] = None
    BY <2>2, <2>3, <2>4, AllOf
  <2>5. CASE a[w] # None
    BY <2>2, <2>3, <2>5, AllOf, EmptySeq
  <2>6. QED
    BY <2>4, <2>5
<1>2. gone \in [Window -> Seq(Op)] /\ \A w \in Window : All(gone[w]) = WithNone(a, w)
  BY <1>1
<1>3. RateLimitsSnapshot(a) = (Both(gone) \o RateLimits(a)) \o Done
  BY DEF RateLimitsSnapshot
<1> HIDE DEF gone
<1>4. Both(gone) \in Seq(Op) /\ All(Both(gone)) = UNION {All(gone[w]) : w \in Window}
  BY <1>2, BothAll
<1>5. UNION {All(gone[w]) : w \in Window} = UNION {WithNone(a, w) : w \in Window}
  BY <1>2
<1>6. PICK g \in Seq(Op), m \in Seq(Op) :
        /\ g = Both(gone) /\ All(g) = UNION {WithNone(a, w) : w \in Window}
        /\ m = RateLimits(a) /\ All(m) = UNION {WithEnd(a, w) : w \in Window}
  BY <1>4, <1>5, RateLimitsAre
<1>7. g \o m \in Seq(Op) /\ All(g \o m) = UNION {WithNone(a, w) \union WithEnd(a, w) : w \in Window}
  <2>1. g \o m \in Seq(Op) /\ All(g \o m) = All(g) \union All(m)
    BY AllConcat
  <2>2. \A o : o \in All(g) \union All(m) <=> \E w \in Window : o \in WithNone(a, w) \union WithEnd(a, w)
    BY <1>6
  <2>3. QED
    BY <2>1, <2>2
<1>8. QED
  BY <1>3, <1>6, <1>7

\* What a response writes to w: any half, or both.
HeadersOf(us, rs, w) ==
  (IF w \in us THEN {Put("pct", w, Period(w, today))} ELSE {})
  \union (IF w \in rs THEN {Put("reset", w, End(w, Period(w, today)))} ELSE {})

LEMMA ObservedAre ==
  ASSUME today \in Nat, NEW us \in SUBSET Window, NEW rs \in SUBSET Window
  PROVE  \E s \in Seq(Op) :
           Observed(us, rs) = s \o Done /\ All(s) = UNION {HeadersOf(us, rs, w) : w \in Window}
<1> DEFINE p(w) == IF w \in us THEN <<Put("pct", w, Period(w, today))>> ELSE <<>>
           q(w) == IF w \in rs THEN <<Put("reset", w, End(w, Period(w, today)))>> ELSE <<>>
           part == [w \in Window |-> p(w) \o q(w)]
<1>1. ASSUME NEW w \in Window PROVE part[w] \in Seq(Op) /\ All(part[w]) = HeadersOf(us, rs, w)
  <2>1. Period(w, today) \in Int /\ End(w, Period(w, today)) \in Int
    BY QuotaAssumption DEF Period, End
  <2>2. PICK o \in Op, e \in Op :
          o = Put("pct", w, Period(w, today)) /\ e = Put("reset", w, End(w, Period(w, today)))
    BY <2>1, PutIs
  <2>3. p(w) \in Seq(Op) /\ All(p(w)) = (IF w \in us THEN {o} ELSE {})
    BY <2>2, AllOf, EmptySeq
  <2>4. q(w) \in Seq(Op) /\ All(q(w)) = (IF w \in rs THEN {e} ELSE {})
    BY <2>2, AllOf, EmptySeq
  <2>5. part[w] = p(w) \o q(w)
    OBVIOUS
  <2> HIDE DEF part, p, q
  <2>6. QED
    BY <2>2, <2>3, <2>4, <2>5, AllConcat DEF HeadersOf
<1>2. part \in [Window -> Seq(Op)] /\ \A w \in Window : All(part[w]) = HeadersOf(us, rs, w)
  BY <1>1
<1>3. Observed(us, rs) = Both(part) \o Done
  BY DEF Observed
<1> HIDE DEF part
<1>4. Both(part) \in Seq(Op) /\ All(Both(part)) = UNION {All(part[w]) : w \in Window}
  BY <1>2, BothAll
<1>5. UNION {All(part[w]) : w \in Window} = UNION {HeadersOf(us, rs, w) : w \in Window}
  BY <1>2
<1>6. QED
  BY <1>3, <1>4, <1>5

\* The answer of any agent.
AnswerOf(a, w) ==
  CASE agent = "claude"      -> WithPast(a, w)
    [] agent = "codex"       -> WithNone(a, w) \union WithEnd(a, w)
    [] agent = "antigravity" -> WithEnd(a, w)

LEMMA AnsweredAre ==
  ASSUME QuotaTypes, NEW a \in Values
  PROVE  \E s \in Seq(Op) : Answered(a) = s \o Done /\ All(s) = UNION {AnswerOf(a, w) : w \in Window}
<1>1. CASE agent = "claude"
  BY <1>1, UsagePctAre DEF Answered, AnswerOf
<1>2. CASE agent = "codex"
  BY <1>2, SnapshotAre DEF Answered, AnswerOf
<1>3. CASE agent = "antigravity"
  BY <1>3, RateLimitsAre DEF Answered, AnswerOf
<1>4. QED
  BY <1>1, <1>2, <1>3 DEF QuotaTypes

LEMMA UsagePctIs ==
  ASSUME NEW a \in Values
  PROVE  UsagePct(a) \in Seq(Op) /\ UsagePct(a) # <<>> /\ (a["weekly"] # None => HasWeekly(UsagePct(a)))
<1>1. PICK s \in Seq(Op) : UsagePct(a) = s \o Done /\ All(s) = UNION {WithPast(a, w) : w \in Window}
  BY UsagePctAre
<1>2. PICK ops \in Seq(Op) : ops = UsagePct(a) /\ ops # <<>> /\ All(ops) = All(s) \union {Done[1]}
  BY <1>1, ThenDone
<1>3. ASSUME a["weekly"] # None PROVE HasWeekly(ops)
  <2>1. Put("pct", "weekly", a["weekly"]) \in All(ops) /\ "weekly" \in Window
    BY <1>1, <1>2, <1>3 DEF WithPast, Paired, Window
  <2>2. PICK i \in 1 .. Len(ops) : ops[i] = Put("pct", "weekly", a["weekly"])
    BY <2>1 DEF All
  <2>3. ops[i].slot = "pct" /\ ops[i].w = "weekly"
    BY <2>2 DEF Put
  <2>4. QED
    BY <2>3 DEF HasWeekly
<1>4. QED
  BY <1>2, <1>3

-------------------------------------------------------------------------------
(* Types *)

LEMMA PresentIs ==
  ASSUME NEW ws \in SUBSET Window, today \in Nat
  PROVE  Present(ws) \in Values /\ \A w \in Window : Present(ws)[w] \in {None, Period(w, today)}
<1>1. \A w \in Window : Period(w, today) \in Nat
  BY QuotaAssumption DEF Period
<1>2. QED
  BY <1>1 DEF Present, Values, None

LEMMA QuotaTypesStart == QuotaInit => QuotaTypes
<1>1. NoSlots \in Values /\ None \in Int
  BY DEF NoSlots, Values, None
<1>2. SUFFICES ASSUME QuotaInit PROVE QuotaTypes
  OBVIOUS
<1>3. /\ agent \in {"claude", "codex", "antigravity"} /\ today \in Nat /\ excused \in Nat
      /\ running \in BOOLEAN /\ owed \in BOOLEAN /\ spoilt \in BOOLEAN /\ error \in BOOLEAN
      /\ updated \in Int /\ weeklyUpdated \in Int /\ halved \in SUBSET Window
  BY <1>1, <1>2, QuotaAssumption DEF QuotaInit
<1>4. pct \in Values /\ reset \in Values /\ cache \in [pct : Values, reset : Values]
  BY <1>1, <1>2 DEF QuotaInit, NoFile
<1>5. /\ phase \in [Caller -> {"idle", "asked", "answered"}] /\ asked \in [Caller -> Nat]
      /\ answer \in [Caller -> Values] /\ writes \in [Writer -> Seq(Op)]
  BY <1>1, <1>2 DEF QuotaInit, Idle
<1>6. QED
  BY <1>3, <1>4, <1>5 DEF QuotaTypes

LEMMA QuotaTypesStep == QuotaTypes /\ [QuotaNext]_quotaVars => QuotaTypes'
<1> SUFFICES ASSUME QuotaTypes, [QuotaNext]_quotaVars PROVE QuotaTypes'
  OBVIOUS
<1>0. NoSlots \in Values /\ None \in Int
  BY DEF NoSlots, Values, None
<1>1. ASSUME NEW x \in Writer, WriteSlot(x) PROVE QuotaTypes'
  <2>1. writes[x] \in Seq(Op) /\ writes[x] # <<>>
    BY <1>1 DEF WriteSlot, QuotaTypes
  <2>2. PICK op \in Op : op = Head(writes[x])
    BY <2>1, OpsTail
  <2>3. op.v \in Int /\ (op.slot \in {"pct", "reset", "past"} => op.w \in Window)
    BY <2>2, <1>0, DoneIs DEF Op
  <2>4. writes' \in [Writer -> Seq(Op)]
    BY <1>1, <2>1, OpsTail DEF WriteSlot, QuotaTypes
  <2>5. pct' \in Values /\ reset' \in Values
    <3>1. pct' = pct \/ (op.slot = "pct" /\ pct' = [pct EXCEPT ![op.w] = op.v])
      BY <1>1, <2>2 DEF WriteSlot
    <3>2. \/ reset' = reset
          \/ op.slot = "reset" /\ reset' = [reset EXCEPT ![op.w] = op.v]
          \/ op.slot = "past" /\ reset' = [reset EXCEPT ![op.w] = IF @ <= today THEN None ELSE @]
      BY <1>1, <2>2 DEF WriteSlot
    <3>3. pct \in [Window -> Int] /\ reset \in [Window -> Int]
      BY DEF QuotaTypes, Values
    <3>4. pct' \in [Window -> Int]
      BY <2>3, <3>1, <3>3
    <3>5. reset' \in [Window -> Int]
      BY <1>0, <2>3, <3>2, <3>3
    <3>6. QED
      BY <3>4, <3>5 DEF Values
  <2>6. /\ weeklyUpdated' \in {today, weeklyUpdated} /\ excused' \in {today, excused}
        /\ updated' \in {today, updated}
        /\ cache' \in {[pct |-> pct, reset |-> reset], cache}
        /\ UNCHANGED <<agent, today, owed, halved>>
    BY <1>1 DEF WriteSlot, QuotaTypes
  <2>7. /\ running' \in BOOLEAN /\ phase' \in [Caller -> {"idle", "asked", "answered"}]
        /\ asked' \in [Caller -> Nat] /\ answer' \in [Caller -> Values]
    <3>1. CASE UNCHANGED queries
      BY <3>1 DEF queries, QuotaTypes
    <3>2. CASE x \in Caller /\ EndQuery(x) /\ running' = FALSE
      BY <1>0, <3>2 DEF EndQuery, QuotaTypes
    <3>3. QED
      BY <1>1, <3>1, <3>2 DEF WriteSlot
  <2>8. error' \in BOOLEAN /\ spoilt' \in BOOLEAN
    BY <1>1, Zenon DEF WriteSlot
  <2>9. QED
    BY <2>4, <2>5, <2>6, <2>7, <2>8 DEF QuotaTypes
<1>2. ASSUME NEW c \in Caller, Ask(c) PROVE QuotaTypes'
  BY <1>2 DEF Ask, QuotaTypes, slots
<1>3. ASSUME NEW c \in Caller, Answer(c) PROVE QuotaTypes'
  <2>1. PICK ws \in SUBSET Window : answer' = [answer EXCEPT ![c] = Present(ws)]
    BY <1>3 DEF Answer, Answers, QuotaTypes
  <2>2. Present(ws) \in Values
    BY PresentIs DEF QuotaTypes
  <2>3. answer' \in [Caller -> Values] /\ phase' \in [Caller -> {"idle", "asked", "answered"}]
    BY <1>3, <2>1, <2>2 DEF Answer, QuotaTypes
  <2>4. QED
    BY <1>3, <2>3 DEF Answer, QuotaTypes, slots
<1>4. ASSUME NEW c \in Caller, Apply(c) PROVE QuotaTypes'
  <2>1. c \in Writer /\ Answered(answer[c]) \in Seq(Op)
    <3>1. PICK a \in Values : a = answer[c]
      BY DEF QuotaTypes
    <3>2. PICK s \in Seq(Op) : Answered(a) = s \o Done
      BY AnsweredAre
    <3>3. QED
      BY <3>1, <3>2, ThenDone DEF Writer
  <2>2. writes' \in [Writer -> Seq(Op)]
    BY <1>4, <2>1 DEF Apply, QuotaTypes
  <2>3. QED
    BY <1>4, <2>2 DEF Apply, QuotaTypes, slots, queries
<1>5. ASSUME NEW c \in Caller, Fail(c) PROVE QuotaTypes'
  BY <1>0, <1>5 DEF Fail, EndQuery, QuotaTypes
<1>6. CASE TickerPasses
  BY <1>6 DEF TickerPasses, QuotaTypes, slots, queries
<1>7. CASE Proxied \/ RolloutLine
  <2>1. PICK ops \in Seq(Op) : writes' = [writes EXCEPT !["traffic"] = ops]
    <3>1. CASE Proxied
      <4>1. PICK us \in SUBSET Window, rs \in SUBSET Window :
              writes' = [writes EXCEPT !["traffic"] = Observed(us, rs)]
        BY <3>1 DEF Proxied
      <4>2. PICK s \in Seq(Op) : Observed(us, rs) = s \o Done
        BY ObservedAre DEF QuotaTypes
      <4>3. QED
        BY <4>1, <4>2, ThenDone
    <3>2. CASE RolloutLine
      <4>1. PICK t \in 0 .. today, ws \in SUBSET Window :
              writes' = [writes EXCEPT !["traffic"] =
                           RateLimits([w \in Window |-> IF w \in ws THEN Period(w, t) ELSE None])]
        BY <3>2 DEF RolloutLine
      <4>2. t \in Nat
        BY <4>1 DEF QuotaTypes
      <4>3. \A w \in Window : Period(w, t) \in Int
        BY <4>2, QuotaAssumption DEF Period
      <4>4. [w \in Window |-> IF w \in ws THEN Period(w, t) ELSE None] \in Values
        BY <1>0, <4>3 DEF Values
      <4>5. QED
        BY <4>1, <4>4, RateLimitsAre
    <3>3. QED
      BY <1>7, <3>1, <3>2
  <2>2. writes' \in [Writer -> Seq(Op)]
    BY <2>1 DEF QuotaTypes
  <2>3. halved' \in SUBSET Window
    BY <1>7 DEF Proxied, RolloutLine, Halves, QuotaTypes
  <2>4. QED
    BY <1>7, <2>2, <2>3 DEF Proxied, RolloutLine, QuotaTypes, slots, queries
<1>8. CASE Pass
  BY <1>8 DEF Pass, QuotaTypes, slots, queries
<1>9. CASE Restart
  <2>1. NoFile \in [pct : Values, reset : Values]
    BY <1>0 DEF NoFile
  <2>2. PICK kept \in [pct : Values, reset : Values] :
          cache' = kept /\ pct' = kept.pct /\ reset' = kept.reset
    BY <1>9, <2>1 DEF Restart, QuotaTypes
  <2>3. /\ running' \in BOOLEAN /\ owed' \in BOOLEAN /\ error' \in BOOLEAN
        /\ updated' \in Int /\ weeklyUpdated' \in Int /\ excused' \in Nat
        /\ UNCHANGED <<agent, today, halved>>
    BY <1>0, <1>9 DEF Restart, QuotaTypes
  <2>4. spoilt' \in BOOLEAN
    BY <1>9, Zenon DEF Restart
  <2>5. /\ phase' \in [Caller -> {"idle", "asked", "answered"}] /\ asked' \in [Caller -> Nat]
        /\ answer' \in [Caller -> Values] /\ writes' \in [Writer -> Seq(Op)]
    BY <1>0, <1>9 DEF Restart, Idle
  <2>6. QED
    BY <2>2, <2>3, <2>4, <2>5 DEF QuotaTypes
<1>10. CASE UNCHANGED quotaVars
  BY <1>10 DEF quotaVars, slots, queries, QuotaTypes
<1>11. QED
  BY <1>1, <1>2, <1>3, <1>4, <1>5, <1>6, <1>7, <1>8, <1>9, <1>10 DEF QuotaNext
-------------------------------------------------------------------------------
(* The weekly value comes *)

LEMMA Patience == WeeklyStale \in Nat \ {0} /\ QueryTime \in Nat
  BY QuotaAssumption

LEMMA WeeklyStart == QuotaInit => WeeklyInv
  BY Patience DEF QuotaInit, WeeklyInv, None, Idle, Caller, Writer

\* The last write of a query: the weekly value has come, or the query brought none.
LEMMA LastWrite ==
  ASSUME QuotaTypes, WeeklyInv, agent = "claude", NEW x \in Writer, WriteSlot(x)
  PROVE  /\ weeklyUpdated' <= excused' /\ excused' \in {excused, today}
         /\ x \in Caller => excused' = today \/ HasWeekly(writes'[x])
<1> DEFINE op == Head(writes[x])
<1>1. writes[x] \in Seq(Op) /\ writes[x] # <<>> /\ writes'[x] = Tail(writes[x])
  BY DEF WriteSlot, QuotaTypes
<1>2. /\ weeklyUpdated' = IF op.slot = "pct" /\ op.w = "weekly" THEN today ELSE weeklyUpdated
      /\ excused' = IF op.slot = "pct" /\ op.w = "weekly" THEN today ELSE excused
  BY DEF WriteSlot
<1>3. weeklyUpdated' <= excused' /\ excused' \in {excused, today}
  BY <1>2 DEF WeeklyInv, QuotaTypes
<1>4. ASSUME x \in Caller, excused' # today PROVE HasWeekly(writes'[x])
  <2>1. ~(op.slot = "pct" /\ op.w = "weekly") /\ excused # today
    BY <1>2, <1>4
  <2>2. HasWeekly(writes[x])
    BY <1>1, <1>4, <2>1 DEF WeeklyInv
  <2>3. PICK i \in 1 .. Len(writes[x]) : writes[x][i].slot = "pct" /\ writes[x][i].w = "weekly"
    BY <2>2 DEF HasWeekly
  <2>4. i # 1 /\ i \in Nat
    BY <1>1, <2>1, <2>3, OpsTail
  <2>5. i - 1 \in 1 .. Len(Tail(writes[x])) /\ Tail(writes[x])[i - 1] = writes[x][i]
    BY <1>1, <2>3, <2>4, OpsTail
  <2>6. QED
    BY <1>1, <2>3, <2>5 DEF HasWeekly
<1>5. QED
  BY <1>3, <1>4

LEMMA WeeklyWrite ==
  ASSUME QuotaTypes, WeeklyInv, NEW x \in Writer, WriteSlot(x)
  PROVE  WeeklyInv'
<1> SUFFICES ASSUME agent = "claude", agent' = agent PROVE WeeklyInv'
  BY DEF WeeklyInv, WriteSlot
<1>1. /\ weeklyUpdated' <= excused' /\ excused' \in {excused, today}
      /\ x \in Caller => excused' = today \/ HasWeekly(writes'[x])
  BY LastWrite
<1>2. /\ UNCHANGED <<today, owed>>
      /\ writes' = [writes EXCEPT ![x] = Tail(@)] /\ writes[x] # <<>> /\ writes[x] \in Seq(Op)
  BY DEF WriteSlot, QuotaTypes
<1>3. today \in Nat /\ excused \in Nat /\ excused <= today /\ excused' <= today /\ excused' \in Nat
      /\ excused <= excused'
  BY <1>1 DEF QuotaTypes, WeeklyInv
<1>4. \A c \in Caller : c \in Writer /\ asked[c] \in Nat
  BY DEF Writer, QuotaTypes
<1>5. \A c \in Caller : c # x => writes'[c] = writes[c]
  BY <1>2, <1>4 DEF QuotaTypes
<1>6. CASE Len(writes[x]) = 1 /\ x \in Caller
  <2>1. writes'[x] = <<>>
    BY <1>2, <1>6, OpsTail DEF QuotaTypes
  <2>2. excused' = today
    <3>1. Len(writes'[x]) = 0
      BY <2>1
    <3>2. ~HasWeekly(writes'[x])
      BY <3>1 DEF HasWeekly
    <3>3. QED
      BY <1>1, <1>6, <3>2
  <2>3. phase' = [phase EXCEPT ![x] = "idle"] /\ running' = FALSE
    BY <1>6 DEF WriteSlot, EndQuery
  <2>4. phase[x] = "answered"
    BY <1>2, <1>6 DEF WeeklyInv
  <2>5. \A c \in Caller : phase'[c] = "idle"
    BY <1>6, <2>3, <2>4 DEF WeeklyInv, QuotaTypes
  <2>6. \A c \in Caller : writes'[c] = <<>>
    BY <1>5, <2>1, <2>4, <1>6 DEF WeeklyInv
  <2>7. QED
    BY <1>1, <1>2, <1>3, <2>2, <2>3, <2>5, <2>6, Patience DEF WeeklyInv
<1>7. CASE ~(Len(writes[x]) = 1 /\ x \in Caller)
  <2>1. UNCHANGED <<running, phase, asked>>
    BY <1>7 DEF WriteSlot, queries
  <2>2. \A c \in Caller : writes'[c] # <<>> =>
          phase'[c] = "answered" /\ (excused' = today' \/ HasWeekly(writes'[c]))
    <3>1. ASSUME NEW c \in Caller, writes'[c] # <<>> PROVE writes[c] # <<>>
      BY <1>2, <1>5, <3>1
    <3>2. ASSUME NEW c \in Caller, writes'[c] # <<>> PROVE excused' = today' \/ HasWeekly(writes'[c])
      <4>1. CASE c = x
        BY <1>1, <1>2, <4>1
      <4>2. CASE c # x
        BY <1>1, <1>2, <1>5, <3>1, <3>2, <4>2 DEF WeeklyInv
      <4>3. QED
        BY <4>1, <4>2
    <3>3. QED
      BY <2>1, <3>1, <3>2 DEF WeeklyInv
  <2>3. \A c \in Caller : phase'[c] # "idle" =>
         asked'[c] <= excused' + WeeklyStale /\ today' <= asked'[c] + QueryTime
    BY <1>2, <1>3, <1>4, <2>1, Patience DEF WeeklyInv
  <2>4. /\ weeklyUpdated' <= excused' /\ excused' <= today'
        /\ running' <=> \E c \in Caller : phase'[c] # "idle"
        /\ \A c, d \in Caller : phase'[c] # "idle" /\ phase'[d] # "idle" => c = d
    BY <1>1, <1>2, <1>3, <2>1 DEF WeeklyInv
  <2>5. /\ ~running' => today' <= excused' + WeeklyStale
        /\ ~running' /\ ~owed' => today' < excused' + WeeklyStale
    BY <1>2, <1>3, <2>1, Patience DEF WeeklyInv
  <2>6. QED
    BY <2>2, <2>3, <2>4, <2>5 DEF WeeklyInv
<1>8. QED
  BY <1>6, <1>7

LEMMA WeeklyStep == QuotaTypes /\ WeeklyInv /\ [QuotaNext]_quotaVars => WeeklyInv'
<1> SUFFICES ASSUME QuotaTypes, WeeklyInv, [QuotaNext]_quotaVars PROVE WeeklyInv'
  OBVIOUS
<1>1. agent' = agent
  BY DEF QuotaNext, quotaVars, WriteSlot, Ask, Answer, Apply, Fail, TickerPasses, Proxied, RolloutLine,
     Pass, Restart
<1>2. SUFFICES ASSUME agent = "claude" PROVE WeeklyInv'
  BY <1>1 DEF WeeklyInv
<1>3. /\ today \in Nat /\ excused \in Nat /\ WeeklyStale \in Nat \ {0} /\ QueryTime \in Nat
      /\ weeklyUpdated \in Int /\ \A c \in Caller : asked[c] \in Nat
  BY Patience DEF QuotaTypes
<1>4. ASSUME NEW x \in Writer, WriteSlot(x) PROVE WeeklyInv'
  BY <1>4, WeeklyWrite
<1>5. ASSUME NEW c \in Caller, Ask(c) PROVE WeeklyInv'
  <2>1. UNCHANGED <<today, weeklyUpdated, excused, writes>>
    BY <1>5 DEF Ask, slots
  <2>2. CASE MayAsk
    <3>1. ~running /\ \A d \in Caller : phase[d] = "idle" /\ writes[d] = <<>>
      BY <1>2, <2>2 DEF MayAsk, WeeklyInv, QuotaTypes
    <3>2. /\ running' = TRUE /\ phase' = [phase EXCEPT ![c] = "asked"]
          /\ asked' = [asked EXCEPT ![c] = today]
      BY <1>5, <2>2 DEF Ask
    <3>3. \A d \in Caller : d # c => phase'[d] = "idle"
      BY <3>1, <3>2 DEF QuotaTypes
    <3>4. phase'[c] = "asked" /\ asked'[c] = today
      BY <3>2 DEF QuotaTypes
    <3>5. today <= excused + WeeklyStale
      BY <1>2, <3>1 DEF WeeklyInv
    <3>6. QED
      BY <1>2, <1>3, <2>1, <3>1, <3>2, <3>3, <3>4, <3>5 DEF WeeklyInv
  <2>3. CASE ~MayAsk
    <3>1. running = TRUE /\ UNCHANGED <<running, phase, asked>>
      BY <1>5, <2>3 DEF Ask, MayAsk, QuotaTypes
    <3>2. QED
      BY <1>2, <2>1, <3>1 DEF WeeklyInv
  <2>4. QED
    BY <2>2, <2>3
<1>6. ASSUME NEW c \in Caller, Answer(c) PROVE WeeklyInv'
  <2>1. /\ UNCHANGED <<today, weeklyUpdated, excused, writes, running, asked, owed>>
        /\ phase[c] = "asked" /\ phase' = [phase EXCEPT ![c] = "answered"]
    BY <1>6 DEF Answer, slots
  <2>2. \A d \in Caller : /\ phase'[d] # "idle" <=> phase[d] # "idle"
                          /\ phase[d] = "answered" => phase'[d] = "answered"
    BY <2>1 DEF QuotaTypes
  <2>3. QED
    BY <1>2, <2>1, <2>2 DEF WeeklyInv
<1>7. ASSUME NEW c \in Caller, Apply(c) PROVE WeeklyInv'
  <2>1. /\ UNCHANGED <<today, weeklyUpdated, running, phase, asked, owed>>
        /\ phase[c] = "answered" /\ writes' = [writes EXCEPT ![c] = UsagePct(answer[c])]
        /\ excused' = IF answer[c]["weekly"] = None THEN today ELSE excused
    BY <1>2, <1>7 DEF Apply, slots, queries, Answered
  <2>2. answer[c] \in Values /\ \A d \in Caller : d \in Writer
    BY DEF QuotaTypes, Writer
  <2>3. excused' \in {excused, today} /\ (excused' = today \/ HasWeekly(UsagePct(answer[c])))
    BY <2>1, <2>2, UsagePctIs
  <2>4. \A d \in Caller : writes'[d] # <<>> =>
          phase'[d] = "answered" /\ (excused' = today' \/ HasWeekly(writes'[d]))
    <3>1. ASSUME NEW d \in Caller, d # c PROVE writes'[d] = writes[d]
      BY <2>1, <2>2, <3>1 DEF QuotaTypes
    <3>2. writes'[c] = UsagePct(answer[c])
      BY <2>1, <2>2 DEF QuotaTypes
    <3>3. QED
      BY <1>2, <2>1, <2>3, <3>1, <3>2 DEF WeeklyInv
  <2>5. excused <= today /\ excused' \in Nat /\ excused <= excused' /\ excused' <= today
    BY <1>2, <1>3, <2>3 DEF WeeklyInv
  <2>6. \A d \in Caller : phase'[d] # "idle" =>
         asked'[d] <= excused' + WeeklyStale /\ today' <= asked'[d] + QueryTime
    BY <1>2, <1>3, <2>1, <2>5 DEF WeeklyInv
  <2>7. /\ weeklyUpdated' <= excused' /\ excused' <= today'
        /\ running' <=> \E d \in Caller : phase'[d] # "idle"
        /\ \A d, e \in Caller : phase'[d] # "idle" /\ phase'[e] # "idle" => d = e
    BY <1>2, <1>3, <2>1, <2>5 DEF WeeklyInv
  <2>8. /\ ~running' => today' <= excused' + WeeklyStale
        /\ ~running' /\ ~owed' => today' < excused' + WeeklyStale
    BY <1>2, <1>3, <2>1, <2>5 DEF WeeklyInv
  <2>9. QED
    BY <2>4, <2>6, <2>7, <2>8 DEF WeeklyInv
<1>8. ASSUME NEW c \in Caller, Fail(c) PROVE WeeklyInv'
  <2>1. /\ UNCHANGED <<today, weeklyUpdated, writes, owed>> /\ writes[c] = <<>> /\ running' = FALSE
        /\ phase[c] # "idle" /\ phase' = [phase EXCEPT ![c] = "idle"] /\ excused' = today
    BY <1>2, <1>8 DEF Fail, EndQuery
  <2>2. \A d \in Caller : phase'[d] = "idle" /\ writes'[d] = <<>>
    BY <1>2, <2>1 DEF WeeklyInv, QuotaTypes
  <2>3. weeklyUpdated <= today
    BY <1>2, <1>3 DEF WeeklyInv
  <2>4. QED
    BY <1>3, <2>1, <2>2, <2>3 DEF WeeklyInv
<1>9. CASE TickerPasses
  <2>1. /\ UNCHANGED <<today, weeklyUpdated, excused, writes, running, phase, asked>> /\ ~MustAsk
    BY <1>9 DEF TickerPasses, slots, queries
  <2>2. today - weeklyUpdated < WeeklyStale
    BY <1>3, <2>1 DEF MustAsk
  <2>3. QED
    BY <1>2, <1>3, <2>1, <2>2 DEF WeeklyInv
<1>10. CASE Proxied
  <2>1. /\ UNCHANGED <<today, weeklyUpdated, excused, running, phase, asked, owed>>
        /\ \E ops : writes' = [writes EXCEPT !["traffic"] = ops]
    BY <1>10 DEF Proxied, slots, queries
  <2>2. \A d \in Caller : writes'[d] = writes[d]
    BY <2>1 DEF Caller, Writer, QuotaTypes
  <2>3. QED
    BY <1>2, <2>1, <2>2 DEF WeeklyInv
<1>11. CASE Pass
  <2>1. /\ today' = today + 1 /\ owed' = TRUE
        /\ UNCHANGED <<weeklyUpdated, excused, writes, running, phase, asked>>
        /\ owed => phase["ticker"] # "idle"
        /\ \A c \in Caller : phase[c] # "idle" => today < asked[c] + QueryTime
        /\ \A c \in Caller : writes[c] = <<>>
    BY <1>2, <1>11 DEF Pass, slots, queries, Writer
  <2>2. ~running => ~owed
    BY <1>2, <2>1 DEF WeeklyInv, Caller, QuotaTypes
  <2>3. QED
    BY <1>2, <1>3, <2>1, <2>2 DEF WeeklyInv, QuotaTypes
<1>12. CASE Restart
  <2>1. /\ today' = today /\ excused' = today /\ weeklyUpdated' = -1 /\ running' = FALSE
        /\ phase' = Idle /\ owed' = TRUE /\ \A c \in Caller : writes'[c] = <<>>
    BY <1>2, <1>12 DEF Restart, None, Writer
  <2>2. \A c \in Caller : phase'[c] = "idle"
    BY <2>1 DEF Idle
  <2>3. QED
    BY <1>3, <2>1, <2>2 DEF WeeklyInv
<1>13. CASE UNCHANGED quotaVars
  BY <1>13 DEF quotaVars, slots, queries, WeeklyInv
<1>14. ~RolloutLine
  BY <1>2 DEF RolloutLine
<1>15. QED
  BY <1>4, <1>5, <1>6, <1>7, <1>8, <1>9, <1>10, <1>11, <1>12, <1>13, <1>14 DEF QuotaNext

\* The types of the slots, the queries and what is left to write.
LEMMA QuotaTyped == QuotaSpec => []QuotaTypes
  BY QuotaTypesStart, QuotaTypesStep, PTL DEF QuotaSpec

\* Traffic that refreshes only the other window, and queries that fail, answer late or
\* come twice, starve the weekly value no longer than the ticker's patience and one
\* query, whatever these are (quota_proxy.rs:158-164; the ticker of lib.rs).
THEOREM WeeklyIsNotStarved == QuotaSpec => []WeeklyComes
<1>1. QuotaTypes /\ WeeklyInv => WeeklyComes
  <2> SUFFICES ASSUME QuotaTypes, WeeklyInv, agent = "claude"
               PROVE  today - excused <= WeeklyStale + QueryTime
    BY DEF WeeklyComes
  <2>1. CASE running
    <3>1. PICK c \in Caller : phase[c] # "idle"
      BY <2>1 DEF WeeklyInv
    <3>2. QED
      BY <3>1, Patience DEF WeeklyInv, QuotaTypes
  <2>2. CASE ~running
    BY <2>2, Patience DEF WeeklyInv, QuotaTypes
  <2>3. QED
    BY <2>1, <2>2
<1>2. QED
  BY <1>1, QuotaTypesStart, QuotaTypesStep, WeeklyStart, WeeklyStep, PTL DEF QuotaSpec
-------------------------------------------------------------------------------
(* The windows of a vendor *)

LEMMA Multiples ==
  ASSUME NEW a \in Nat, NEW b \in Nat, NEW l \in Nat, a <= b
  PROVE  a * l \in Nat /\ b * l \in Nat /\ a * l <= b * l
<1>1. PICK d \in Nat : b = a + d
  <2>1. b - a \in Nat /\ b = a + (b - a)
    OBVIOUS
  <2>2. QED
    BY <2>1
<1>2. b * l = a * l + d * l /\ d * l \in Nat /\ a * l \in Nat
  BY <1>1
<1>3. QED
  BY <1>2

\* The window of a moment: it has not ended, all before it have.
LEMMA WindowOf ==
  ASSUME NEW w \in Window, NEW t \in Nat
  PROVE  /\ Period(w, t) \in Nat
         /\ \A n \in Nat : End(w, n) \in Nat /\ (End(w, n) > t <=> n >= Period(w, t))
<1> DEFINE l == Length[w]
           q == t \div l
<1>1. l \in Nat \ {0}
  BY QuotaAssumption
<1>2. q \in Nat /\ q * l <= t /\ t < (q + 1) * l
  <2> HIDE DEF l
  <2>1. t \div l \in Nat
    BY <1>1
  <2>2. t = (t \div l) * l + (t % l) /\ t % l \in 0 .. l - 1
    BY <1>1
  <2>3. ((t \div l) + 1) * l = (t \div l) * l + l /\ (t \div l) * l \in Nat
    BY <1>1, <2>1
  <2>4. QED
    BY <1>1, <2>1, <2>2, <2>3
<1> HIDE DEF l, q
<1>3. ASSUME NEW n \in Nat PROVE End(w, n) \in Nat /\ (End(w, n) > t <=> n >= q)
  <2>1. End(w, n) = (n + 1) * l
    BY DEF End, l
  <2>2. CASE n >= q
    <3>1. (q + 1) * l <= (n + 1) * l /\ (n + 1) * l \in Nat /\ (q + 1) * l \in Nat
      BY <1>1, <1>2, <2>2, Multiples
    <3>2. QED
      BY <1>2, <2>1, <2>2, <3>1
  <2>3. CASE n < q
    <3>1. (n + 1) * l <= q * l /\ (n + 1) * l \in Nat /\ q * l \in Nat
      BY <1>1, <1>2, <2>3, Multiples
    <3>2. QED
      BY <1>2, <2>1, <2>3, <3>1
  <2>4. QED
    BY <1>2, <2>2, <2>3
<1>4. QED
  BY <1>2, <1>3 DEF Period, l, q

LEMMA LaterWindow ==
  ASSUME NEW w \in Window, NEW t \in Nat, NEW u \in Nat, t <= u
  PROVE  Period(w, t) <= Period(w, u)
<1>1. Period(w, t) \in Nat /\ Period(w, u) \in Nat
  BY WindowOf
<1>2. End(w, Period(w, u)) > u /\ End(w, Period(w, u)) \in Nat
  BY <1>1, WindowOf
<1>3. End(w, Period(w, u)) > t
  BY <1>2
<1>4. QED
  BY <1>1, <1>3, WindowOf

\* What is known stays within what can be known.
LEMMA KnownLater ==
  ASSUME NEW w \in Window, NEW v, NEW t \in Nat, NEW u \in Nat, t <= u
  PROVE  (PctAt(w, v, t) => PctAt(w, v, u)) /\ (EndAt(w, v, t) => EndAt(w, v, u))
<1>1. Period(w, t) \in Nat /\ Period(w, u) \in Nat /\ Period(w, t) <= Period(w, u)
  BY WindowOf, LaterWindow
<1>2. 0 .. Period(w, t) \subseteq 0 .. Period(w, u)
  BY <1>1
<1>3. QED
  BY <1>2 DEF PctAt, EndAt

\* A reset that is not past belongs to the present window.
LEMMA PresentEnd ==
  ASSUME NEW w \in Window, NEW t \in Nat, NEW v, EndAt(w, v, t), v # None, ~(v <= t)
  PROVE  v = End(w, Period(w, t))
<1>1. PICK n \in 0 .. Period(w, t) : v = End(w, n)
  BY DEF EndAt
<1>2. Period(w, t) \in Nat /\ n \in Nat /\ n <= Period(w, t)
  BY <1>1, WindowOf
<1>3. End(w, n) \in Nat /\ End(w, n) > t
  BY <1>1, <1>2, WindowOf
<1>4. n >= Period(w, t)
  BY <1>2, <1>3, WindowOf
<1>5. n = Period(w, t)
  BY <1>2, <1>4
<1>6. QED
  BY <1>1, <1>5
-------------------------------------------------------------------------------
(* The ranges of the slots *)

\* What is brought for a window was known when it was.
LEMMA BroughtAt ==
  ASSUME NEW a \in Values, NEW t \in Nat, NEW w \in Window, PctAt(w, a[w], t)
  PROVE  \A op \in WithEnd(a, w) \union WithPast(a, w) \union WithNone(a, w) : OpAt(op, t)
<1>1. PICK none \in Int, v \in Int, e \in Int : none = None /\ v = a[w] /\ e = End(w, v)
  BY QuotaAssumption DEF None, Values, End
<1>2. OpAt(Put("past", w, none), t) /\ OpAt(Put("pct", w, none), t) /\ OpAt(Put("reset", w, none), t)
  BY <1>1, PutIs DEF OpAt, PctAt, EndAt
<1>3. ASSUME v # none PROVE OpAt(Put("pct", w, v), t) /\ OpAt(Put("reset", w, e), t)
  <2>1. v \in 0 .. Period(w, t)
    BY <1>1, <1>3 DEF PctAt
  <2>2. EndAt(w, e, t)
    BY <1>1, <2>1 DEF EndAt
  <2>3. QED
    BY <1>1, <2>2, PutIs DEF OpAt
<1>4. QED
  BY <1>1, <1>2, <1>3 DEF WithEnd, WithPast, WithNone, Paired

\* What an answer brings was known when it was given.
LEMMA AnsweredAt ==
  ASSUME QuotaTypes, NEW a \in Values, NEW t \in Nat, \A w \in Window : PctAt(w, a[w], t)
  PROVE  AllAt(Answered(a), t)
<1>1. PICK s \in Seq(Op) : Answered(a) = s \o Done /\ All(s) = UNION {AnswerOf(a, w) : w \in Window}
  BY AnsweredAre
<1>2. \A w \in Window : AnswerOf(a, w) \subseteq WithEnd(a, w) \union WithPast(a, w) \union WithNone(a, w)
  BY DEF AnswerOf, QuotaTypes
<1>3. \A op \in All(s) : OpAt(op, t)
  BY <1>1, <1>2, BroughtAt
<1>4. OpAt(Done[1], t)
  BY DoneIs DEF OpAt
<1>5. QED
  BY <1>1, <1>3, <1>4, ThenDone DEF AllAt

\* A writer gets a new list.
LEMMA RangeList ==
  ASSUME QuotaTypes, QuotaRange, NEW x \in Writer, NEW ops, AllAt(ops, today), writes' = [writes EXCEPT ![x] = ops],
         UNCHANGED <<today, updated, weeklyUpdated, pct, reset, cache, answer>>
  PROVE  QuotaRange'
<1>1. \A y \in Writer : writes'[y] = IF y = x THEN ops ELSE writes[y]
  BY DEF QuotaTypes
<1>2. \A y \in Writer : AllAt(writes'[y], today)
  BY <1>1 DEF QuotaRange
<1>3. QED
  BY <1>2 DEF QuotaRange, AllAt, All

LEMMA RangeWrite ==
  ASSUME QuotaTypes, QuotaRange, NEW x \in Writer, WriteSlot(x)
  PROVE  QuotaRange'
<1>1. PICK s \in Seq(Op) : s = writes[x] /\ s # <<>> /\ AllAt(s, today)
  BY DEF WriteSlot, QuotaTypes, QuotaRange
<1>2. PICK op \in Op, u \in Seq(Op) : op = Head(s) /\ u = Tail(s)
  BY <1>1, OpsTail
<1>3. OpAt(op, today) /\ AllAt(u, today)
  BY <1>1, <1>2, AllTail DEF AllAt
<1>4. (op.slot \in {"pct", "reset", "past"} /\ op.w \in Window) \/ op.slot = "done"
  BY DoneIs DEF Op
<1>5. /\ today' = today
      /\ cache' = cache \/ cache' = [pct |-> pct, reset |-> reset]
      /\ answer' = answer \/ \E c \in Caller : answer' = [answer EXCEPT ![c] = NoSlots]
      /\ updated' \in {updated, today} /\ weeklyUpdated' \in {weeklyUpdated, today}
      /\ writes' = [writes EXCEPT ![x] = u]
      /\ pct' = IF op.slot = "pct" THEN [pct EXCEPT ![op.w] = op.v] ELSE pct
  BY <1>1, <1>2 DEF WriteSlot, queries, EndQuery
<1>6. \/ op.slot = "reset" /\ reset' = [reset EXCEPT ![op.w] = op.v]
      \/ op.slot = "past" /\ reset' = [reset EXCEPT ![op.w] = IF @ <= today THEN None ELSE @]
      \/ reset' = reset
  BY <1>1, <1>2 DEF WriteSlot
<1>7. ASSUME NEW w \in Window PROVE PctAt(w, pct'[w], today) /\ EndAt(w, reset'[w], today)
  <2>1. pct'[w] = pct[w] \/ (op.slot = "pct" /\ op.w = w /\ pct'[w] = op.v)
    BY <1>4, <1>5 DEF QuotaTypes, Values
  <2>2. reset'[w] \in {reset[w], None} \/ (op.slot = "reset" /\ op.w = w /\ reset'[w] = op.v)
    BY <1>4, <1>6 DEF QuotaTypes, Values
  <2>3. QED
    BY <1>3, <2>1, <2>2 DEF QuotaRange, OpAt, EndAt
<1>8. ASSUME NEW w \in Window PROVE PctAt(w, cache'.pct[w], today) /\ EndAt(w, cache'.reset[w], today)
  BY <1>5 DEF QuotaRange
<1>9. ASSUME NEW w \in Window, NEW c \in Caller PROVE PctAt(w, answer'[c][w], today)
  <2>1. answer'[c] = answer[c] \/ answer'[c] = NoSlots
    BY <1>5 DEF QuotaTypes
  <2>2. QED
    BY <2>1 DEF QuotaRange, NoSlots, PctAt
<1>10. ASSUME NEW y \in Writer PROVE AllAt(writes'[y], today)
  BY <1>3, <1>5 DEF QuotaRange, QuotaTypes
<1>11. {updated', weeklyUpdated'} \subseteq {None} \cup 0 .. today
  BY <1>5 DEF QuotaRange, QuotaTypes
<1>12. QED
  BY <1>5, <1>7, <1>8, <1>9, <1>10, <1>11 DEF QuotaRange, AllAt, All

LEMMA QuotaRangeStart == QuotaInit => QuotaRange
<1> SUFFICES ASSUME QuotaInit PROVE QuotaRange
  OBVIOUS
<1>1. today <= MaxNow /\ updated = None /\ weeklyUpdated = None
  BY QuotaAssumption DEF QuotaInit
<1>2. ASSUME NEW w \in Window
      PROVE  /\ pct[w] = None /\ reset[w] = None /\ cache.pct[w] = None /\ cache.reset[w] = None
             /\ \A c \in Caller : answer[c][w] = None
  BY <1>2 DEF QuotaInit, NoSlots, NoFile
<1>3. \A x \in Writer : AllAt(writes[x], today)
  BY AllOf DEF QuotaInit, AllAt
<1>4. QED
  BY <1>1, <1>2, <1>3 DEF QuotaRange, PctAt, EndAt

LEMMA QuotaRangeStep == QuotaTypes /\ QuotaRange /\ [QuotaNext]_quotaVars => QuotaRange'
<1> SUFFICES ASSUME QuotaTypes, QuotaRange, [QuotaNext]_quotaVars PROVE QuotaRange'
  OBVIOUS
<1>1. today \in Nat /\ "traffic" \in Writer /\ Caller \subseteq Writer
  BY DEF QuotaTypes, Writer
<1>2. ASSUME NEW x \in Writer, WriteSlot(x) PROVE QuotaRange'
  BY <1>2, RangeWrite
<1>3. ASSUME NEW c \in Caller, Apply(c) PROVE QuotaRange'
  <2>1. PICK a \in Values : a = answer[c] /\ \A w \in Window : PctAt(w, a[w], today)
    BY DEF QuotaTypes, QuotaRange
  <2>2. /\ writes' = [writes EXCEPT ![c] = Answered(a)]
        /\ UNCHANGED <<today, updated, weeklyUpdated, pct, reset, cache, answer>>
    BY <1>3, <2>1 DEF Apply, slots, queries
  <2>3. QED
    BY <1>1, <2>1, <2>2, AnsweredAt, RangeList
<1>4. CASE Proxied
  <2>1. PICK us \in SUBSET Window, rs \in SUBSET Window :
          /\ writes' = [writes EXCEPT !["traffic"] = Observed(us, rs)]
          /\ UNCHANGED <<today, updated, weeklyUpdated, pct, reset, cache, answer>>
    BY <1>4 DEF Proxied, slots, queries
  <2>2. PICK s \in Seq(Op) : Observed(us, rs) = s \o Done /\ All(s) = UNION {HeadersOf(us, rs, w) : w \in Window}
    BY <1>1, ObservedAre
  <2>3. ASSUME NEW w \in Window
        PROVE OpAt(Put("pct", w, Period(w, today)), today) /\ OpAt(Put("reset", w, End(w, Period(w, today))), today)
    <3>1. PICK n \in Nat : n = Period(w, today)
      BY <1>1, WindowOf
    <3>2. End(w, n) \in Int /\ PctAt(w, n, today) /\ EndAt(w, End(w, n), today)
      BY <1>1, <3>1, WindowOf DEF PctAt, EndAt
    <3>3. QED
      BY <3>1, <3>2, PutIs DEF OpAt
  <2>4. \A op \in All(s) : OpAt(op, today)
    BY <2>2, <2>3 DEF HeadersOf
  <2>5. OpAt(Done[1], today)
    BY DoneIs DEF OpAt
  <2>6. AllAt(Observed(us, rs), today)
    BY <2>2, <2>4, <2>5, ThenDone DEF AllAt
  <2>7. QED
    BY <1>1, <2>1, <2>6, RangeList
<1>5. CASE RolloutLine
  <2>1. PICK t \in 0 .. today, ws \in SUBSET Window :
          /\ writes' = [writes EXCEPT !["traffic"] =
                          RateLimits([w \in Window |-> IF w \in ws THEN Period(w, t) ELSE None])]
          /\ UNCHANGED <<today, updated, weeklyUpdated, pct, reset, cache, answer>>
    BY <1>5 DEF RolloutLine, slots, queries
  <2>2. \A w \in Window : Period(w, t) \in 0 .. Period(w, today)
    BY <1>1, WindowOf, LaterWindow
  <2>3. PICK a : a = [w \in Window |-> IF w \in ws THEN Period(w, t) ELSE None]
    OBVIOUS
  <2>4. a \in Values /\ \A w \in Window : PctAt(w, a[w], today)
    BY <2>2, <2>3 DEF Values, None, PctAt
  <2>5. AllAt(RateLimits(a), today)
    BY <1>1, <2>4, RateLimitsAre, BroughtAt DEF AllAt
  <2>6. QED
    BY <1>1, <2>1, <2>3, <2>5, RangeList
<1>6. ASSUME NEW c \in Caller, Answer(c) \/ Fail(c) PROVE QuotaRange'
  <2>1. UNCHANGED <<today, updated, weeklyUpdated, pct, reset, cache, writes>>
    BY <1>6 DEF Answer, Fail, slots
  <2>2. PICK a : answer' = [answer EXCEPT ![c] = a] /\ \A w \in Window : PctAt(w, a[w], today)
    <3>1. CASE Answer(c)
      <4>1. PICK ws \in SUBSET Window : answer' = [answer EXCEPT ![c] = Present(ws)]
        BY <3>1 DEF Answer, Answers, QuotaTypes
      <4>2. \A w \in Window : Present(ws)[w] \in {None, Period(w, today)} /\ Period(w, today) \in Nat
        BY <1>1, PresentIs, WindowOf
      <4>3. \A w \in Window : PctAt(w, Present(ws)[w], today)
        BY <4>2 DEF PctAt
      <4>4. QED
        BY <4>1, <4>3
    <3>2. CASE Fail(c)
      <4>1. \A w \in Window : PctAt(w, NoSlots[w], today)
        BY DEF PctAt, NoSlots
      <4>2. QED
        BY <3>2, <4>1 DEF Fail, EndQuery
    <3>3. QED
      BY <1>6, <3>1, <3>2
  <2>3. \A d \in Caller : answer'[d] = IF d = c THEN a ELSE answer[d]
    BY <2>2 DEF QuotaTypes
  <2>4. \A d \in Caller : \A w \in Window : PctAt(w, answer'[d][w], today)
    BY <2>2, <2>3 DEF QuotaRange
  <2>5. QED
    BY <2>1, <2>4 DEF QuotaRange, AllAt, All
<1>7. CASE Pass
  <2>1. /\ today < MaxNow /\ today' = today + 1 /\ \A x \in Writer : writes'[x] = <<>>
        /\ UNCHANGED <<updated, weeklyUpdated, pct, reset, cache, answer>>
    BY <1>7 DEF Pass, slots, queries
  <2>2. PICK t \in Nat : t = today' /\ today <= t /\ t <= MaxNow /\ 0 .. today \subseteq 0 .. t
    BY <1>1, <2>1, QuotaAssumption
  <2>3. \A w \in Window : \A v : (PctAt(w, v, today) => PctAt(w, v, t)) /\ (EndAt(w, v, today) => EndAt(w, v, t))
    BY <1>1, <2>2, KnownLater
  <2>4. ASSUME NEW w \in Window
        PROVE  /\ PctAt(w, pct[w], t) /\ EndAt(w, reset[w], t)
               /\ PctAt(w, cache.pct[w], t) /\ EndAt(w, cache.reset[w], t)
               /\ \A c \in Caller : PctAt(w, answer[c][w], t)
    BY <2>3 DEF QuotaRange
  <2>5. {updated, weeklyUpdated} \subseteq {None} \cup 0 .. t
    BY <2>2 DEF QuotaRange
  <2>6. \A x \in Writer : AllAt(writes'[x], t)
    BY <2>1, AllOf DEF AllAt
  <2>7. QED
    BY <2>1, <2>2, <2>4, <2>5, <2>6 DEF QuotaRange, AllAt, All
<1>8. CASE Restart
  <2>1. PICK kept \in {cache, NoFile} : cache' = kept /\ pct' = kept.pct /\ reset' = kept.reset
    BY <1>8 DEF Restart
  <2>2. /\ today' = today /\ updated' = None /\ weeklyUpdated' = None
        /\ (\A c \in Caller : answer'[c] = NoSlots) /\ \A x \in Writer : writes'[x] = <<>>
    BY <1>8 DEF Restart
  <2>3. \A w \in Window : /\ NoFile.pct[w] = None /\ NoFile.reset[w] = None /\ NoSlots[w] = None
    BY DEF NoFile, NoSlots
  <2>4. ASSUME NEW w \in Window PROVE PctAt(w, kept.pct[w], today) /\ EndAt(w, kept.reset[w], today)
    BY <2>1, <2>3 DEF QuotaRange, PctAt, EndAt
  <2>5. \A w \in Window : \A c \in Caller : PctAt(w, answer'[c][w], today)
    BY <2>2, <2>3 DEF PctAt
  <2>6. \A x \in Writer : AllAt(writes'[x], today)
    BY <2>2, AllOf DEF AllAt
  <2>7. QED
    BY <2>1, <2>2, <2>4, <2>5, <2>6 DEF QuotaRange, AllAt, All
<1>9. ASSUME NEW c \in Caller, Ask(c) PROVE QuotaRange'
  BY <1>9 DEF Ask, slots, QuotaRange, AllAt, All
<1>10. CASE TickerPasses
  BY <1>10 DEF TickerPasses, slots, queries, QuotaRange, AllAt, All
<1>11. CASE UNCHANGED quotaVars
  BY <1>11 DEF quotaVars, slots, queries, QuotaRange, AllAt, All
<1>12. QED
  BY <1>2, <1>3, <1>4, <1>5, <1>6, <1>7, <1>8, <1>9, <1>10, <1>11 DEF QuotaNext

\* Whoever writes the slots in whatever order, spoilt or not: nothing is ever in them or
\* in the file of a window that has not begun (quota_proxy.rs:89-135, codex_rpc.rs).
THEOREM QuotaIsTyped == QuotaSpec => []QuotaTypeOK
<1>1. QuotaTypes /\ QuotaRange => QuotaTypeOK
  <2> SUFFICES ASSUME QuotaTypes, QuotaRange PROVE QuotaTypeOK
    OBVIOUS
  <2>1. today \in 0 .. MaxNow
    BY QuotaAssumption DEF QuotaTypes, QuotaRange
  <2>2. \A slot \in {pct, cache.pct} : \A w \in Window : slot[w] \in {None} \cup 0 .. Period(w, today)
    BY DEF QuotaRange, PctAt
  <2>3. \A slot \in {reset, cache.reset} :
          \A w \in Window : slot[w] \in {None} \cup {End(w, n) : n \in 0 .. Period(w, today)}
    BY DEF QuotaRange, EndAt
  <2>4. \A c \in Caller : phase[c] \in {"idle", "asked", "answered"}
    BY DEF QuotaTypes
  <2>5. QED
    BY <2>1, <2>2, <2>3, <2>4 DEF QuotaRange, QuotaTypeOK
<1>2. QED
  BY QuotaTypesStart, QuotaTypesStep, QuotaRangeStart, QuotaRangeStep, <1>1, PTL DEF QuotaSpec

-------------------------------------------------------------------------------
(* The slots of a window agree *)

LEMMA CardStart == QuotaInit => CardInv
<1> SUFFICES ASSUME QuotaInit PROVE SlotInv /\ FileInv
  BY DEF CardInv
<1>1. ASSUME NEW w \in Window PROVE pct[w] = None /\ cache.pct[w] = None
  BY <1>1 DEF QuotaInit, NoSlots, NoFile
<1>2. \A x \in Writer : writes[x] = <<>>
  BY DEF QuotaInit
<1>3. cache = NoFile
  BY DEF QuotaInit
<1>4. QED
  BY <1>1, <1>2, <1>3 DEF SlotInv, FileInv, Agree

\* A writer that had nothing to write gets a list that ends in agreement.
LEMMA CardList ==
  ASSUME QuotaTypes, SlotInv, FileInv, NEW x \in Writer, writes[x] = <<>>,
         NEW ops \in Seq(Op), ops # <<>>, agent = "claude" => ops[Len(ops)].slot = "done",
         \A w \in Window \ halved' :
           w \in halved \/ Agree(w, pct[w], reset[w]) => Leads(All(ops), w, pct[w], reset[w], today),
         writes' = [writes EXCEPT ![x] = ops],
         UNCHANGED <<agent, today, pct, reset, cache>>
  PROVE  SlotInv' /\ FileInv'
<1>1. writes'[x] = ops /\ \A y \in Writer : y # x => writes'[y] = writes[y]
  BY DEF QuotaTypes
<1>2. ~Resting'
  BY <1>1 DEF Resting
<1>3. ASSUME NEW y \in Writer, writes'[y] # <<>>, Alone(y)' PROVE y = x /\ Resting
  <2>1. y = x
    BY <1>1, <1>3 DEF Alone
  <2>2. QED
    BY <1>1, <1>3, <2>1 DEF Alone, Resting
<1>4. SlotInv'
  <2> SUFFICES ASSUME NEW y \in Writer, writes'[y] # <<>>, Alone(y)', NEW w \in Window \ halved'
               PROVE  Leads(All(writes'[y]), w, pct[w], reset[w], today)
    BY <1>2 DEF SlotInv
  <2>1. y = x /\ Resting
    BY <1>3
  <2>2. w \in halved \/ Agree(w, pct[w], reset[w])
    BY <2>1 DEF SlotInv
  <2>3. QED
    BY <1>1, <2>1, <2>2
<1>5. FileInv'
  BY <1>1, <1>2 DEF FileInv
<1>6. QED
  BY <1>4, <1>5

\* A write of a list that leads to agreement does, with the rest of the list.
LEMMA LeadsOn ==
  ASSUME NEW s \in Seq(Op), s # <<>>, NEW op \in Op, op = Head(s), NEW w \in Window, NEW t \in Nat,
         NEW p \in Int, NEW r \in Int, Leads(All(s), w, p, r, t),
         NEW p1, p1 = IF op.slot = "pct" /\ op.w = w THEN op.v ELSE p,
         NEW r1, r1 = IF op.slot = "reset" /\ op.w = w THEN op.v
                      ELSE IF op.slot = "past" /\ op.w = w THEN Cleared(r, t) ELSE r
  PROVE  Leads(All(Tail(s)), w, p1, r1, t)
<1> DEFINE P == All(s)
           Q == All(Tail(s))
<1>1. P = {op} \union Q
  BY AllTail
<1>2. PICK p2 \in Int, r2 \in Int :
        /\ Agree(w, p2, r2)
        /\ \A o \in P : o.w = w => /\ o.slot = "pct" => o.v = p2
                                   /\ o.slot = "reset" => o.v = r2
                                   /\ o.slot = "past" => r2 = Cleared(r, t)
        /\ p2 = p \/ \E o \in P : o.w = w /\ o.slot = "pct"
        /\ r2 = r \/ \E o \in P : o.w = w /\ o.slot \in {"reset", "past"}
  BY DEF Leads
<1> HIDE DEF P, Q
<1>3. Cleared(Cleared(r, t), t) = Cleared(r, t)
  BY DEF Cleared, None
<1>4. p2 = p1 \/ \E o \in Q : o.w = w /\ o.slot = "pct"
  BY <1>1, <1>2
<1>5. r2 = r1 \/ \E o \in Q : o.w = w /\ o.slot \in {"reset", "past"}
  BY <1>1, <1>2
<1>6. ASSUME NEW o \in Q, o.w = w, o.slot = "past" PROVE r2 = Cleared(r1, t)
  BY <1>1, <1>2, <1>3, <1>6
<1>7. QED
  BY <1>1, <1>2, <1>4, <1>5, <1>6 DEF Leads, Q

\* With nothing left to write the slots agree.
LEMMA LeadsNowhere ==
  ASSUME NEW w, NEW p, NEW r, NEW t, Leads({}, w, p, r, t) PROVE Agree(w, p, r)
  BY DEF Leads

\* The only writer writes the first slot of its list.
LEMMA CardWrite ==
  ASSUME QuotaTypes, SlotInv, FileInv, NEW x \in Writer, WriteSlot(x), ~spoilt'
  PROVE  SlotInv' /\ FileInv'
<1>1. PICK s \in Seq(Op) : s = writes[x] /\ s # <<>>
  BY DEF WriteSlot, QuotaTypes
<1>2. PICK op \in Op, u \in Seq(Op) : op = Head(s) /\ u = Tail(s)
  BY <1>1, OpsTail
<1>3. writes'[x] = u /\ Alone(x) /\ \A y \in Writer : y # x => writes'[y] = <<>>
  BY <1>1, <1>2 DEF WriteSlot, QuotaTypes, Alone
<1>4. (op.slot \in {"pct", "reset", "past"} /\ op.w \in Window) \/ op.slot = "done"
  BY DoneIs DEF Op
<1>5. /\ today' = today /\ agent' = agent /\ halved' = halved /\ today \in Nat
      /\ cache' = IF agent = "claude" /\ op.slot = "done" THEN [pct |-> pct, reset |-> reset] ELSE cache
  BY <1>1, <1>2 DEF WriteSlot, QuotaTypes
<1>6. ASSUME NEW w \in Window
      PROVE  /\ pct'[w] = IF op.slot = "pct" /\ op.w = w THEN op.v ELSE pct[w]
             /\ reset'[w] = IF op.slot = "reset" /\ op.w = w THEN op.v
                            ELSE IF op.slot = "past" /\ op.w = w THEN Cleared(reset[w], today)
                            ELSE reset[w]
  <2>1. pct' = IF op.slot = "pct" THEN [pct EXCEPT ![op.w] = op.v] ELSE pct
    BY <1>1, <1>2 DEF WriteSlot
  <2>2. CASE op.slot = "reset"
    <3>1. reset' = [reset EXCEPT ![op.w] = op.v]
      BY <1>1, <1>2, <2>2 DEF WriteSlot
    <3>2. QED
      BY <2>1, <2>2, <3>1 DEF QuotaTypes, Values
  <2>3. CASE op.slot = "past"
    <3>1. reset' = [reset EXCEPT ![op.w] = IF @ <= today THEN None ELSE @]
      BY <1>1, <1>2, <2>3 DEF WriteSlot
    <3>2. QED
      BY <2>1, <2>3, <3>1 DEF QuotaTypes, Values, Cleared
  <2>4. CASE op.slot \notin {"reset", "past"}
    <3>1. reset' = reset
      BY <1>1, <1>2, <2>4 DEF WriteSlot
    <3>2. QED
      BY <2>1, <2>4, <3>1 DEF QuotaTypes, Values
  <2>5. QED
    BY <2>2, <2>3, <2>4
<1>7. ASSUME NEW w \in Window \ halved PROVE Leads(All(u), w, pct'[w], reset'[w], today)
  <2>1. Leads(All(s), w, pct[w], reset[w], today) /\ pct[w] \in Int /\ reset[w] \in Int
    BY <1>1, <1>3 DEF SlotInv, QuotaTypes, Values
  <2>2. PICK p1, r1 : /\ p1 = pct'[w] /\ p1 = IF op.slot = "pct" /\ op.w = w THEN op.v ELSE pct[w]
                      /\ r1 = reset'[w]
                      /\ r1 = IF op.slot = "reset" /\ op.w = w THEN op.v
                              ELSE IF op.slot = "past" /\ op.w = w THEN Cleared(reset[w], today) ELSE reset[w]
    BY <1>6
  <2>3. Leads(All(Tail(s)), w, p1, r1, today)
    <3>1. PICK p \in Int, r \in Int, t \in Nat : p = pct[w] /\ r = reset[w] /\ t = today
      BY <1>5, <2>1
    <3>2. Leads(All(s), w, p, r, t) /\ w \in Window
      BY <2>1, <3>1
    <3>3. QED
      BY <1>1, <1>2, <2>2, <3>1, <3>2, LeadsOn
  <2>4. QED
    BY <1>2, <2>2, <2>3
<1>8. ASSUME u = <<>>, NEW w \in Window \ halved PROVE Agree(w, pct'[w], reset'[w])
  <2>1. All(u) = {} /\ Leads(All(u), w, pct'[w], reset'[w], today)
    BY <1>7, <1>8, AllOf
  <2>2. PICK p, r : p = pct'[w] /\ r = reset'[w]
    OBVIOUS
  <2>3. Leads({}, w, p, r, today)
    BY <2>1, <2>2
  <2>4. QED
    BY <2>2, <2>3, LeadsNowhere
<1>9. SlotInv'
  <2>1. Resting' => u = <<>>
    BY <1>3 DEF Resting
  <2>2. \A y \in Writer : writes'[y] # <<>> => y = x
    BY <1>3
  <2>3. QED
    BY <1>3, <1>5, <1>7, <1>8, <2>1, <2>2 DEF SlotInv
<1>10. FileInv'
  <2>1. agent # "claude" => cache' = NoFile
    BY <1>5 DEF FileInv
  <2>2. ASSUME agent = "claude" PROVE s[Len(s)].slot = "done"
    BY <1>1, <2>2 DEF FileInv
  <2>3. ASSUME agent = "claude", u # <<>> PROVE u[Len(u)].slot = "done"
    <3>1. /\ Len(s) \in Nat \ {0} /\ Len(u) = Len(s) - 1 /\ Len(u) # 0
          /\ \A i \in 1 .. Len(u) : u[i] = s[i + 1]
      BY <1>1, <1>2, <2>3, OpsTail, EmptySeq
    <3>2. Len(u) \in 1 .. Len(u) /\ Len(u) + 1 = Len(s)
      BY <3>1
    <3>3. QED
      BY <2>2, <2>3, <3>1, <3>2
  <2>4. ASSUME Resting', NEW w \in Window \ halved PROVE Agree(w, cache'.pct[w], cache'.reset[w])
    <3>1. u = <<>>
      BY <1>3, <2>4 DEF Resting
    <3>2. CASE agent # "claude"
      BY <2>1, <3>2 DEF NoFile, NoSlots, Agree
    <3>3. CASE agent = "claude"
      <4>1. Len(s) = 1 /\ op = s[1]
        BY <1>1, <1>2, <3>1, OpsTail
      <4>2. op.slot = "done"
        BY <2>2, <3>3, <4>1
      <4>3. cache'.pct = pct /\ cache'.reset = reset /\ pct'[w] = pct[w] /\ reset'[w] = reset[w]
        BY <1>5, <1>6, <3>3, <4>2
      <4>4. QED
        BY <1>8, <3>1, <4>3
    <3>4. QED
      BY <3>2, <3>3
  <2>5. \A y \in Writer : writes'[y] # <<>> => y = x
    BY <1>3
  <2>6. QED
    BY <1>3, <1>5, <2>1, <2>3, <2>4, <2>5 DEF FileInv
<1>11. QED
  BY <1>9, <1>10

\* A list of writes leads to agreement that brings both slots of each window, and of one
\* whose slots agree, none; a percentage of the present window also with the deletion of
\* a past reset.
LEMMA BothLead ==
  ASSUME NEW a \in Values, NEW w \in Window, NEW t \in Nat, NEW p \in Int, NEW r \in Int, EndAt(w, r, t),
         NEW P, \A op \in P : op.w = w => op \in WithEnd(a, w) \union WithPast(a, w) \union WithNone(a, w),
         \/ a[w] # None /\ WithEnd(a, w) \subseteq P /\ \A op \in P : op.slot # "past"
         \/ a[w] = Period(w, t) /\ WithPast(a, w) \subseteq P /\ \A op \in P : op.slot # "reset"
         \/ a[w] = None /\ WithNone(a, w) \subseteq P
         \/ a[w] = None /\ Agree(w, p, r) /\ \A op \in P : op.w # w
  PROVE  Leads(P, w, p, r, t)
<1>1. PICK none \in Int, v \in Int, e \in Int : none = None /\ v = a[w] /\ e = End(w, v)
  BY QuotaAssumption DEF None, Values, End
<1>2. PICK o1 \in Op, o2 \in Op, o3 \in Op, o4 \in Op, o5 \in Op :
        /\ o1 = Put("pct", w, v) /\ o1.slot = "pct" /\ o1.w = w /\ o1.v = v
        /\ o2 = Put("reset", w, e) /\ o2.slot = "reset" /\ o2.w = w /\ o2.v = e
        /\ o3 = Put("past", w, none) /\ o3.slot = "past" /\ o3.w = w
        /\ o4 = Put("pct", w, none) /\ o4.slot = "pct" /\ o4.w = w /\ o4.v = none
        /\ o5 = Put("reset", w, none) /\ o5.slot = "reset" /\ o5.w = w /\ o5.v = none
  BY <1>1, PutIs
<1>3. /\ WithEnd(a, w) = IF v = none THEN {} ELSE {o1, o2}
      /\ WithPast(a, w) = IF v = none THEN {} ELSE {o1, o3}
      /\ WithNone(a, w) = IF v = none THEN {o4, o5} ELSE {}
  BY <1>1, <1>2 DEF WithEnd, WithPast, WithNone, Paired
<1>4. CASE a[w] # None /\ WithEnd(a, w) \subseteq P /\ \A op \in P : op.slot # "past"
  <2>1. Agree(w, v, e)
    BY <1>1 DEF Agree
  <2>2. QED
    BY <1>1, <1>2, <1>3, <1>4, <2>1 DEF Leads
<1>5. CASE a[w] = Period(w, t) /\ WithPast(a, w) \subseteq P /\ \A op \in P : op.slot # "reset"
  <2>1. PICK r2 \in Int : r2 = Cleared(r, t) /\ (r2 = None \/ r2 = e)
    <3>1. Cleared(r, t) = None \/ (Cleared(r, t) = r /\ r # None /\ ~(r <= t))
      BY DEF Cleared, None
    <3>2. r # None /\ ~(r <= t) => r = End(w, Period(w, t))
      BY PresentEnd
    <3>3. QED
      BY <1>1, <1>5, <3>1, <3>2
  <2>2. Agree(w, v, r2) /\ v # none
    <3>1. Period(w, t) \in Nat
      BY WindowOf
    <3>2. QED
      BY <1>1, <1>5, <2>1, <3>1 DEF Agree, None
  <2>3. QED
    BY <1>1, <1>2, <1>3, <1>5, <2>1, <2>2 DEF Leads
<1>6. CASE a[w] = None /\ WithNone(a, w) \subseteq P
  <2>1. Agree(w, none, none)
    BY <1>1 DEF Agree
  <2>2. QED
    BY <1>1, <1>2, <1>3, <1>6, <2>1 DEF Leads
<1>7. CASE a[w] = None /\ Agree(w, p, r) /\ \A op \in P : op.w # w
  BY <1>7 DEF Leads
<1>8. QED
  BY <1>4, <1>5, <1>6, <1>7

\* So do the headers of a response, but for a half beside a half of another window.
LEMMA HeadersLead ==
  ASSUME NEW us \in SUBSET Window, NEW rs \in SUBSET Window, NEW w \in Window, today \in Nat,
         NEW p \in Int, NEW r \in Int, EndAt(w, r, today),
         w \in us \ rs => r = None \/ ~(r <= today),
         w \in rs \ us => p \in {None, Period(w, today)},
         w \notin us \union rs => Agree(w, p, r),
         NEW P, HeadersOf(us, rs, w) \subseteq P, \A op \in P : op.w = w => op \in HeadersOf(us, rs, w)
  PROVE  Leads(P, w, p, r, today)
<1>1. PICK v \in Int, e \in Int : v = Period(w, today) /\ e = End(w, v)
  BY QuotaAssumption DEF Period, End
<1>2. PICK o1 \in Op, o2 \in Op :
        /\ o1 = Put("pct", w, v) /\ o1.slot = "pct" /\ o1.w = w /\ o1.v = v
        /\ o2 = Put("reset", w, e) /\ o2.slot = "reset" /\ o2.w = w /\ o2.v = e
  BY <1>1, PutIs
<1>3. HeadersOf(us, rs, w) = (IF w \in us THEN {o1} ELSE {}) \union (IF w \in rs THEN {o2} ELSE {})
  BY <1>1, <1>2 DEF HeadersOf
<1>4. CASE w \in us /\ w \in rs
  <2>1. Agree(w, v, e)
    BY <1>1 DEF Agree
  <2>2. QED
    BY <1>2, <1>3, <1>4, <2>1 DEF Leads
<1>5. CASE w \in us /\ w \notin rs
  <2>1. r = None \/ r = e
    BY <1>1, <1>5, PresentEnd
  <2>2. Agree(w, v, r)
    BY <1>1, <2>1 DEF Agree
  <2>3. QED
    BY <1>2, <1>3, <1>5, <2>2 DEF Leads
<1>6. CASE w \notin us /\ w \in rs
  <2>1. Agree(w, p, e)
    BY <1>1, <1>6 DEF Agree
  <2>2. QED
    BY <1>2, <1>3, <1>6, <2>1 DEF Leads
<1>7. CASE w \notin us /\ w \notin rs
  BY <1>3, <1>7 DEF Leads
<1>8. QED
  BY <1>4, <1>5, <1>6, <1>7

\* What is written to a window is only among what is brought for it.
LEMMA OfWindow ==
  ASSUME NEW a \in Values, NEW w \in Window, NEW u \in Window, u # w
  PROVE  \A op \in WithEnd(a, u) \union WithPast(a, u) \union WithNone(a, u) : op.w # w
<1>1. ASSUME NEW slot \in {"pct", "reset", "past"}, NEW v \in Int PROVE Put(slot, u, v).w = u
  BY PutIs
<1>2. a[u] \in Int /\ End(u, a[u]) \in Int /\ None \in Int
  BY QuotaAssumption DEF Values, End, None
<1>3. QED
  BY <1>1, <1>2 DEF WithEnd, WithPast, WithNone, Paired

\* An answer is read, or traffic is.
LEMMA CardApply ==
  ASSUME QuotaTypes, QuotaRange, SlotInv, FileInv, ~spoilt',
         (\E c \in Caller : Apply(c)) \/ Proxied \/ RolloutLine
  PROVE  SlotInv' /\ FileInv'
<1>1. today \in Nat /\ "traffic" \in Writer /\ UNCHANGED <<agent, today, pct, reset, cache>>
  BY DEF QuotaTypes, Writer, Apply, Proxied, RolloutLine, slots, queries
<1>2. \A w \in Window : pct[w] \in Int /\ reset[w] \in Int /\ EndAt(w, reset[w], today)
  BY DEF QuotaTypes, QuotaRange, Values
<1>3. ASSUME NEW c \in Caller, Apply(c) PROVE SlotInv' /\ FileInv'
  <2>1. PICK a \in Values : a = answer[c]
    BY DEF QuotaTypes
  <2>2. /\ c \in Writer /\ writes[c] = <<>> /\ writes' = [writes EXCEPT ![c] = Answered(a)]
        /\ \A w \in Window : a[w] \in {None, Period(w, today)}
        /\ \A w \in Window \ halved' : w \in halved => a[w] # None
    BY <1>3, <2>1 DEF Apply, Writer
  <2>3. PICK s \in Seq(Op) : Answered(a) = s \o Done /\ All(s) = UNION {AnswerOf(a, w) : w \in Window}
    BY AnsweredAre
  <2>4. PICK ops \in Seq(Op) :
          /\ ops = Answered(a) /\ ops # <<>> /\ ops[Len(ops)].slot = "done"
          /\ All(ops) = (UNION {AnswerOf(a, w) : w \in Window}) \union {Done[1]}
    BY <2>3, ThenDone
  <2>5. \A op \in All(ops) : (op.slot = "done" /\ op.w \notin Window) \/ \E u \in Window : op \in AnswerOf(a, u)
    BY <2>4, DoneIs
  <2>6. ASSUME NEW w \in Window \ halved', w \in halved \/ Agree(w, pct[w], reset[w])
        PROVE  Leads(All(ops), w, pct[w], reset[w], today)
    <3>1. \A u \in Window : AnswerOf(a, u) \subseteq WithEnd(a, u) \union WithPast(a, u) \union WithNone(a, u)
      BY DEF AnswerOf, QuotaTypes
    <3>2. \A op \in All(ops) : op.w = w => op \in AnswerOf(a, w)
      <4>1. \A u \in Window : u # w => \A op \in AnswerOf(a, u) : op.w # w
        BY <3>1, OfWindow
      <4>2. QED
        BY <2>5, <4>1
    <3>3. AnswerOf(a, w) \subseteq All(ops)
      BY <2>4
    <3>4. a[w] = None => Agree(w, pct[w], reset[w])
      BY <2>2, <2>6
    <3>5. CASE agent = "claude"
      <4>1. \A u \in Window : AnswerOf(a, u) = WithPast(a, u)
        BY <3>5 DEF AnswerOf
      <4>2. \A op \in All(ops) : op.slot # "reset"
        <5>1. \A u \in Window : \A op \in WithPast(a, u) : op.slot # "reset"
          <6>1. \A u \in Window : Put("pct", u, a[u]).slot = "pct" /\ Put("past", u, None).slot = "past"
            BY DEF Put
          <6>2. QED
            BY <6>1 DEF WithPast, Paired
        <5>2. QED
          BY <2>5, <4>1, <5>1
      <4>3. a[w] = None => \A op \in All(ops) : op.w # w
        BY <3>2, <4>1 DEF WithPast
      <4>4. QED
        BY <1>1, <1>2, <2>2, <3>1, <3>2, <3>3, <3>4, <4>1, <4>2, <4>3, BothLead
    <3>6. CASE agent # "claude"
      <4>1. /\ \A u \in Window : WithEnd(a, u) \subseteq AnswerOf(a, u)
            /\ \A u \in Window : AnswerOf(a, u) \subseteq WithEnd(a, u) \union WithNone(a, u)
            /\ WithNone(a, w) \subseteq AnswerOf(a, w) \/ AnswerOf(a, w) = WithEnd(a, w)
        BY <3>6 DEF AnswerOf, QuotaTypes
      <4>2. \A op \in All(ops) : op.slot # "past"
        <5>1. \A u \in Window : \A op \in WithEnd(a, u) \union WithNone(a, u) : op.slot # "past"
          <6>1. \A u \in Window : \A v : Put("pct", u, v).slot = "pct" /\ Put("reset", u, v).slot = "reset"
            BY DEF Put
          <6>2. QED
            BY <6>1 DEF WithEnd, WithNone, Paired
        <5>2. QED
          BY <2>5, <4>1, <5>1
      <4>3. a[w] = None /\ AnswerOf(a, w) = WithEnd(a, w) => \A op \in All(ops) : op.w # w
        BY <3>2 DEF WithEnd
      <4>4. QED
        BY <1>1, <1>2, <2>2, <3>1, <3>2, <3>3, <3>4, <4>1, <4>2, <4>3, BothLead
    <3>7. QED
      BY <3>5, <3>6
  <2>7. QED
    BY <1>1, <2>2, <2>4, <2>6, CardList
<1>4. CASE Proxied
  <2>1. PICK us \in SUBSET Window, rs \in SUBSET Window :
          /\ writes' = [writes EXCEPT !["traffic"] = Observed(us, rs)]
          /\ halved' = (halved \ (us \union rs)) \union Halves(us, rs)
    BY <1>4 DEF Proxied
  <2>2. writes["traffic"] = <<>>
    BY <1>4 DEF Proxied
  <2>3. PICK s \in Seq(Op) : Observed(us, rs) = s \o Done /\ All(s) = UNION {HeadersOf(us, rs, w) : w \in Window}
    BY <1>1, ObservedAre
  <2>4. PICK ops \in Seq(Op) :
          /\ ops = Observed(us, rs) /\ ops # <<>> /\ ops[Len(ops)].slot = "done"
          /\ All(ops) = (UNION {HeadersOf(us, rs, w) : w \in Window}) \union {Done[1]}
    BY <2>3, ThenDone
  <2>5. \A op \in All(ops) : op.w \notin Window \/ \E u \in Window : op \in HeadersOf(us, rs, u)
    BY <2>4, DoneIs
  <2>6. \A w \in Window : \A op \in HeadersOf(us, rs, w) : op.w = w
    <3>1. \A w, v : Put("pct", w, v).w = w /\ Put("reset", w, v).w = w
      BY DEF Put
    <3>2. QED
      BY <3>1 DEF HeadersOf
  <2>7. ASSUME NEW w \in Window \ halved', w \in halved \/ Agree(w, pct[w], reset[w])
        PROVE  Leads(All(ops), w, pct[w], reset[w], today)
    <3>1. \A op \in All(ops) : op.w = w => op \in HeadersOf(us, rs, w)
      BY <2>5, <2>6
    <3>2. HeadersOf(us, rs, w) \subseteq All(ops)
      BY <2>4
    <3>3. w \in us \ rs => reset[w] = None \/ ~(reset[w] <= today)
      BY <2>1, <2>7 DEF Halves
    <3>4. w \in rs \ us => pct[w] \in {None, Period(w, today)}
      BY <2>1, <2>7 DEF Halves
    <3>5. w \notin us \union rs => Agree(w, pct[w], reset[w])
      BY <2>1, <2>7
    <3>6. QED
      BY <1>1, <1>2, <3>1, <3>2, <3>3, <3>4, <3>5, HeadersLead
  <2>8. QED
    BY <1>1, <2>1, <2>2, <2>4, <2>7, CardList
<1>5. CASE RolloutLine
  <2>1. PICK t \in 0 .. today, ws \in (SUBSET Window) \ {{}} :
          writes' = [writes EXCEPT !["traffic"] =
                       RateLimits([w \in Window |-> IF w \in ws THEN Period(w, t) ELSE None])]
    BY <1>5 DEF RolloutLine
  <2>2. writes["traffic"] = <<>> /\ halved' = halved /\ agent # "claude"
    BY <1>5 DEF RolloutLine
  <2>3. \A w \in Window : Period(w, t) \in Nat
    BY <1>1, WindowOf
  <2>4. PICK a : a = [w \in Window |-> IF w \in ws THEN Period(w, t) ELSE None]
    OBVIOUS
  <2>5. a \in Values /\ \A w \in ws : a[w] # None
    BY <2>3, <2>4 DEF Values, None
  <2>6. PICK ops \in Seq(Op) : ops = RateLimits(a) /\ All(ops) = UNION {WithEnd(a, w) : w \in Window}
    BY <2>5, RateLimitsAre
  <2>7. ops # <<>>
    <3>1. PICK w \in Window : w \in ws
      BY <2>1
    <3>2. Put("pct", w, a[w]) \in WithEnd(a, w) /\ WithEnd(a, w) \subseteq All(ops)
      BY <2>5, <2>6, <3>1 DEF WithEnd, Paired
    <3>3. QED
      BY <3>2, AllOf
  <2>8. ASSUME NEW w \in Window \ halved', w \in halved \/ Agree(w, pct[w], reset[w])
        PROVE  Leads(All(ops), w, pct[w], reset[w], today)
    <3>1. Agree(w, pct[w], reset[w])
      BY <2>2, <2>8
    <3>2. \A op \in All(ops) : op.w = w => op \in WithEnd(a, w)
      BY <2>5, <2>6, OfWindow
    <3>3. WithEnd(a, w) \subseteq All(ops) /\ (a[w] = None => WithEnd(a, w) = {})
      BY <2>6 DEF WithEnd
    <3>4. \A op \in All(ops) : op.slot # "past"
      <4>1. \A u \in Window : \A v : Put("pct", u, v).slot = "pct" /\ Put("reset", u, v).slot = "reset"
        BY DEF Put
      <4>2. QED
        BY <2>6, <4>1 DEF WithEnd, Paired
    <3>5. a[w] = None => \A op \in All(ops) : op.w # w
      BY <3>2, <3>3
    <3>6. QED
      BY <1>1, <1>2, <2>5, <3>1, <3>2, <3>3, <3>4, <3>5, BothLead
  <2>9. QED
    BY <1>1, <2>1, <2>2, <2>4, <2>6, <2>7, <2>8, CardList
<1>6. QED
  BY <1>3, <1>4, <1>5

LEMMA CardStep == QuotaTypes /\ QuotaRange /\ CardInv /\ [QuotaNext]_quotaVars => CardInv'
<1> SUFFICES ASSUME QuotaTypes, QuotaRange, CardInv, [QuotaNext]_quotaVars, ~spoilt'
             PROVE  SlotInv' /\ FileInv'
  BY DEF CardInv
<1>1. SlotInv /\ FileInv
  <2>1. ~spoilt
    BY DEF QuotaNext, WriteSlot, Ask, Answer, Apply, Fail, TickerPasses, Proxied, RolloutLine, Pass, Restart,
           quotaVars, QuotaTypes
  <2>2. QED
    BY <2>1 DEF CardInv
<1>2. ASSUME NEW x \in Writer, WriteSlot(x) PROVE SlotInv' /\ FileInv'
  BY <1>1, <1>2, CardWrite
<1>3. CASE (\E c \in Caller : Apply(c)) \/ Proxied \/ RolloutLine
  BY <1>1, <1>3, CardApply
<1>4. ASSUME UNCHANGED <<agent, today, pct, reset, cache, writes, halved>> PROVE SlotInv' /\ FileInv'
  BY <1>1, <1>4 DEF SlotInv, FileInv, Resting, Alone
<1>5. ASSUME NEW c \in Caller, Ask(c) \/ Answer(c) \/ Fail(c) PROVE SlotInv' /\ FileInv'
  BY <1>4, <1>5 DEF Ask, Answer, Fail, slots
<1>6. CASE TickerPasses \/ UNCHANGED quotaVars
  BY <1>4, <1>6 DEF TickerPasses, quotaVars, slots, queries
<1>7. CASE Pass
  <2>1. Resting /\ UNCHANGED <<agent, pct, reset, cache, writes, halved>>
    BY <1>7 DEF Pass, slots, queries, Resting
  <2>2. QED
    BY <1>1, <2>1 DEF SlotInv, FileInv, Resting
<1>8. CASE Restart
  <2>1. Resting /\ \A x \in Writer : writes'[x] = <<>>
    BY <1>8 DEF Restart, Resting
  <2>2. /\ cache' = cache /\ pct' = cache.pct /\ reset' = cache.reset
        /\ agent' = agent /\ halved' = halved
    BY <1>8, <2>1 DEF Restart, Resting
  <2>3. \A w \in Window \ halved : Agree(w, cache.pct[w], cache.reset[w])
    BY <1>1, <2>1 DEF FileInv
  <2>4. QED
    BY <1>1, <2>1, <2>2, <2>3 DEF SlotInv, FileInv, Resting
<1>9. QED
  BY <1>2, <1>3, <1>5, <1>6, <1>7, <1>8 DEF QuotaNext

\* For windows of any length and any patience, whichever headers a response carries:
\* whatever queries, rollouts and restarts left in the slots, a value of the present
\* window is shown as it is, and one of a window that ended as 0 (lib.rs:239-241,
\* quota_proxy.rs:96-105) or, if its end is not known, as it is.  A window of which the
\* last response told half, beside a half of another window, is left out: there it is not so.
THEOREM CardShowsThisWindow == QuotaSpec => []ShownIsOfThisWindow
<1>1. QuotaTypes /\ QuotaRange /\ CardInv => ShownIsOfThisWindow
  <2> SUFFICES ASSUME QuotaTypes, QuotaRange, CardInv, ~spoilt, \A x \in Writer : writes[x] = <<>>,
                      NEW w \in Window \ halved, pct[w] # None
               PROVE  IF pct[w] = Period(w, today) THEN Card[w] = pct[w]
                                                   ELSE Card[w] = Zero \/ reset[w] = None
    BY DEF ShownIsOfThisWindow
  <2>1. SlotInv /\ Resting
    BY DEF CardInv, Resting
  <2>2. today \in Nat /\ Period(w, today) \in Nat /\ pct[w] \in 0 .. Period(w, today)
    BY WindowOf DEF QuotaTypes, QuotaRange, PctAt
  <2>3. reset[w] = None \/ reset[w] = End(w, pct[w])
    BY <2>1 DEF SlotInv, Agree
  <2>4. End(w, pct[w]) \in Nat /\ (End(w, pct[w]) > today <=> pct[w] >= Period(w, today))
    <3>1. pct[w] \in Nat
      BY <2>2
    <3>2. QED
      BY <2>2, <3>1, WindowOf
  <2>5. Card[w] = IF reset[w] # None /\ reset[w] <= today THEN Zero ELSE pct[w]
    BY DEF Card, Shown
  <2>6. CASE pct[w] = Period(w, today)
    <3>1. ~(reset[w] # None /\ reset[w] <= today)
      BY <2>2, <2>3, <2>4, <2>6
    <3>2. QED
      BY <2>5, <2>6, <3>1
  <2>7. CASE pct[w] # Period(w, today) /\ reset[w] # None
    <3>1. reset[w] <= today
      BY <2>2, <2>3, <2>4, <2>7
    <3>2. QED
      BY <2>5, <2>7, <3>1
  <2>8. QED
    BY <2>6, <2>7
<1>2. QED
  BY <1>1, QuotaTypesStart, QuotaTypesStep, QuotaRangeStart, QuotaRangeStep, CardStart, CardStep, PTL
  DEF QuotaSpec

-------------------------------------------------------------------------------
(* Least and greatest elements *)

LEMMA Least ==
  ASSUME NEW T, T \subseteq Nat, T # {}
  PROVE \E x \in T : \A y \in T : ~(y < x)
<1>1. IsWellFoundedOn(OpToRel(<, Nat), Nat)
  BY NatLessThanWellFounded
<1>2. PICK x \in T : \A y \in T : ~(<<y, x>> \in OpToRel(<, Nat))
  BY <1>1, WFMin
<1>3. \A y \in T : <<y, x>> \in OpToRel(<, Nat) <=> y < x
  BY DEF OpToRel
<1>4. QED
  BY <1>2, <1>3

LEMMA MaxIs ==
  ASSUME NEW S, S \subseteq Nat, S # {}, NEW b \in Nat, \A t \in S : t <= b
  PROVE  Max(S) \in S /\ \A t \in S : t <= Max(S)
<1> DEFINE T == {n \in Nat : b - n \in S}
<1>1. PICK t \in S : t \in Nat /\ t <= b
  OBVIOUS
<1>2. b - t \in Nat /\ b - (b - t) = t
  BY <1>1
<1>3. T \subseteq Nat /\ T # {}
  BY <1>1, <1>2
<1>4. PICK n \in T : \A m \in T : ~(m < n)
  <2> HIDE DEF T
  <2>1. QED
    BY <1>3, Least
<1>5. \A u \in S : u <= b - n
  <2> SUFFICES ASSUME NEW u \in S PROVE u <= b - n
    OBVIOUS
  <2>1. u \in Nat /\ b - u \in Nat /\ b - (b - u) = u
    OBVIOUS
  <2>2. b - u \in T
    BY <2>1
  <2>3. ~(b - u < n) /\ n \in Nat
    BY <1>4, <2>2
  <2>4. QED
    BY <2>1, <2>3
<1>6. \E x \in S : \A y \in S : x >= y
  <2>1. b - n \in S
    BY <1>4
  <2>2. QED
    BY <1>5, <2>1
<1>7. Max(S) \in S /\ \A y \in S : Max(S) >= y
  BY <1>6 DEF Max
<1>8. QED
  BY <1>7

-------------------------------------------------------------------------------
(* The sessions of the aggregator *)

Event == [s : Session, ts : Nat, usage : BOOLEAN]

UsageTypes ==
  /\ clock \in Nat /\ wentBack \in BOOLEAN /\ log \in Seq(Event)
  /\ sessions \in [Session -> [last : Int, preview : BOOLEAN]]

\* i is the last usage of s, and a preview of s bears the stamp t.
LastOf(s, i, evs) ==
  /\ i \in 1 .. Len(evs) /\ evs[i].s = s /\ evs[i].usage
  /\ \A j \in 1 .. Len(evs) : evs[j].s = s /\ evs[j].usage => j <= i
PreviewOf(s, t, evs) == \E j \in 1 .. Len(evs) : evs[j].s = s /\ ~evs[j].usage /\ evs[j].ts = t

\* A session bears the stamp of its last usage or of a preview, and one that does not
\* bear that of its last usage has not had any for long.
SessionIs(entry, s, evs, now) ==
  /\ entry # Empty =>
       \/ \E i \in 1 .. Len(evs) : LastOf(s, i, evs) /\ entry.last = evs[i].ts
       \/ PreviewOf(s, entry.last, evs)
  /\ \A i \in 1 .. Len(evs) : LastOf(s, i, evs) =>
       now - evs[i].ts >= Bucket \/ (entry # Empty /\ entry.last = evs[i].ts)

SessionInv == ~wentBack => \A s \in Session : SessionIs(sessions[s], s, log, clock)

LEMMA Appended ==
  ASSUME NEW evs \in Seq(Event), NEW e \in Event
  PROVE  /\ Append(evs, e) \in Seq(Event) /\ Len(evs) \in Nat /\ Len(Append(evs, e)) = Len(evs) + 1
         /\ Append(evs, e)[Len(evs) + 1] = e
         /\ \A i \in 1 .. Len(evs) : Append(evs, e)[i] = evs[i]
  BY AppendProperties, LenProperties

LEMMA EventAppended ==
  ASSUME NEW evs \in Seq(Event), NEW e \in Event, NEW s
  PROVE  LET new == Append(evs, e) IN
         /\ \A t : PreviewOf(s, t, evs) => PreviewOf(s, t, new)
         /\ e.s = s /\ ~e.usage => PreviewOf(s, e.ts, new)
         /\ e.s = s /\ e.usage => /\ LastOf(s, Len(new), new)
                                  /\ \A i : LastOf(s, i, new) => i = Len(new)
         /\ e.s # s \/ ~e.usage => \A i : LastOf(s, i, new) <=> LastOf(s, i, evs)
<1> DEFINE new == Append(evs, e)
<1>1. /\ Len(evs) \in Nat /\ Len(new) = Len(evs) + 1 /\ new[Len(evs) + 1] = e
      /\ \A i \in 1 .. Len(evs) : new[i] = evs[i] /\ i \in 1 .. Len(new)
  BY Appended
<1> HIDE DEF new
<1>2. \A t : PreviewOf(s, t, evs) => PreviewOf(s, t, new)
  BY <1>1 DEF PreviewOf
<1>3. Len(new) \in 1 .. Len(new) /\ new[Len(new)] = e
  BY <1>1
<1>4. e.s = s /\ ~e.usage => PreviewOf(s, e.ts, new)
  BY <1>3 DEF PreviewOf
<1>5. ASSUME e.s = s, e.usage
      PROVE  LastOf(s, Len(new), new) /\ \A i : LastOf(s, i, new) => i = Len(new)
  <2>1. LastOf(s, Len(new), new)
    BY <1>1, <1>3, <1>5 DEF LastOf
  <2>2. ASSUME NEW i, LastOf(s, i, new) PROVE i = Len(new)
    <3>1. i \in 1 .. Len(new) /\ Len(new) <= i
      BY <1>3, <1>5, <2>2 DEF LastOf
    <3>2. QED
      BY <1>1, <3>1
  <2>3. QED
    BY <2>1, <2>2
<1>6. ASSUME e.s # s \/ ~e.usage, NEW i PROVE LastOf(s, i, new) <=> LastOf(s, i, evs)
  <2>1. \A j \in 1 .. Len(new) : new[j].s = s /\ new[j].usage => j \in 1 .. Len(evs) /\ new[j] = evs[j]
    BY <1>1, <1>6
  <2>2. QED
    BY <1>1, <2>1 DEF LastOf
<1>7. QED
  BY <1>2, <1>4, <1>5, <1>6 DEF new

LEMMA UsageTypesStart == UsageInit => UsageTypes
<1> SUFFICES ASSUME UsageInit PROVE UsageTypes
  OBVIOUS
<1>1. clock \in Nat /\ wentBack \in BOOLEAN
  BY UsageAssumption DEF UsageInit, Clock
<1>2. log \in Seq(Event)
  BY EmptySeq DEF UsageInit
<1>3. sessions \in [Session -> [last : Int, preview : BOOLEAN]]
  BY DEF UsageInit, Empty
<1>4. QED
  BY <1>1, <1>2, <1>3 DEF UsageTypes

LEMMA UsageTypesStep == UsageTypes /\ [UsageNext]_usageVars => UsageTypes'
<1> SUFFICES ASSUME UsageTypes, [UsageNext]_usageVars PROVE UsageTypes'
  OBVIOUS
<1>1. CASE SetUsageClock
  <2>1. clock' \in Nat
    BY <1>1, UsageAssumption DEF SetUsageClock, Clock
  <2>2. wentBack' \in BOOLEAN
    BY <1>1, Zenon DEF SetUsageClock
  <2>3. QED
    BY <1>1, <2>1, <2>2 DEF SetUsageClock, UsageTypes
<1>2. ASSUME NEW s \in Session, NEW ts \in 0 .. clock, PushPreview(s, ts) \/ PushUsage(s, ts) PROVE UsageTypes'
  <2>1. ts \in Nat /\ ts \in Int
    BY DEF UsageTypes
  <2>2. PICK e \in Event : log' = Append(log, e)
    <3>1. \A usage \in BOOLEAN : [s |-> s, ts |-> ts, usage |-> usage] \in Event
      BY <2>1 DEF Event
    <3>2. QED
      BY <1>2, <3>1 DEF PushPreview, PushUsage, Logged
  <2>3. log' \in Seq(Event)
    BY <2>2, Appended DEF UsageTypes
  <2>4. sessions' \in [Session -> [last : Int, preview : BOOLEAN]]
    <3>1. CASE PushPreview(s, ts)
      BY <2>1, <3>1 DEF PushPreview, UsageTypes
    <3>2. CASE PushUsage(s, ts)
      BY <2>1, <3>2 DEF PushUsage, UsageTypes
    <3>3. QED
      BY <1>2, <3>1, <3>2
  <2>5. QED
    BY <1>2, <2>3, <2>4 DEF PushPreview, PushUsage, UsageTypes
<1>3. CASE TakeSnapshot
  BY <1>3 DEF TakeSnapshot, UsageTypes, Empty
<1>4. CASE UNCHANGED usageVars
  BY <1>4 DEF usageVars, UsageTypes
<1>5. QED
  BY <1>1, <1>2, <1>3, <1>4 DEF UsageNext

LEMMA SessionStart == UsageInit => SessionInv
<1> SUFFICES ASSUME UsageInit, NEW s \in Session PROVE SessionIs(sessions[s], s, log, clock)
  BY DEF SessionInv
<1>1. Len(log) = 0 /\ sessions[s] = Empty
  BY DEF UsageInit
<1>2. QED
  BY <1>1 DEF SessionIs, LastOf

LEMMA SessionLater ==
  ASSUME NEW entry, NEW s, NEW evs \in Seq(Event), NEW now \in Nat, NEW later \in Nat,
         now <= later, SessionIs(entry, s, evs, now)
  PROVE  SessionIs(entry, s, evs, later)
<1>1. Bucket \in Nat
  BY UsageAssumption
<1>2. ASSUME NEW i \in 1 .. Len(evs), now - evs[i].ts >= Bucket PROVE later - evs[i].ts >= Bucket
  <2>1. evs[i] \in Event
    BY ElementOfSeq
  <2>2. PICK t \in Nat : t = evs[i].ts
    BY <2>1 DEF Event
  <2>3. QED
    BY <1>1, <1>2, <2>2
<1>3. QED
  BY <1>2 DEF SessionIs

\* The entry after an event, as push makes it.
LEMMA SessionEvent ==
  ASSUME NEW entry, NEW next, NEW s, NEW evs \in Seq(Event), NEW e \in Event, NEW now,
         SessionIs(entry, s, evs, now),
         \/ e.s # s /\ next = entry
         \/ e.s = s /\ e.usage /\ next # Empty /\ next.last = e.ts
         \/ e.s = s /\ ~e.usage /\ next # Empty /\ next.last = IF entry = Empty THEN e.ts ELSE entry.last
  PROVE  SessionIs(next, s, Append(evs, e), now)
<1>1. PICK new \in Seq(Event) : new = Append(evs, e)
  BY Appended
<1>2. /\ Len(evs) \in Nat /\ Len(new) = Len(evs) + 1 /\ new[Len(new)] = e
      /\ \A i \in 1 .. Len(evs) : i \in 1 .. Len(new) /\ new[i] = evs[i]
      /\ Len(new) \in 1 .. Len(new)
  BY <1>1, Appended
<1>3. /\ \A t : PreviewOf(s, t, evs) => PreviewOf(s, t, new)
      /\ e.s = s /\ ~e.usage => PreviewOf(s, e.ts, new)
      /\ e.s = s /\ e.usage => /\ LastOf(s, Len(new), new)
                               /\ \A i : LastOf(s, i, new) => i = Len(new)
      /\ e.s # s \/ ~e.usage => \A i : LastOf(s, i, new) <=> LastOf(s, i, evs)
  BY <1>1, EventAppended
<1>4. CASE e.s = s /\ e.usage
  <2>1. next # Empty /\ next.last = e.ts
    BY <1>4
  <2>2. QED
    BY <1>1, <1>2, <1>3, <1>4, <2>1 DEF SessionIs
<1>5. CASE e.s # s \/ ~e.usage
  <2>1. \A i : LastOf(s, i, new) => i \in 1 .. Len(evs) /\ LastOf(s, i, evs) /\ new[i] = evs[i]
    BY <1>2, <1>3, <1>5 DEF LastOf
  <2>2. \A i \in 1 .. Len(new) : LastOf(s, i, new) =>
          now - new[i].ts >= Bucket \/ (next # Empty /\ next.last = new[i].ts)
    BY <1>5, <2>1 DEF SessionIs
  <2>3. ASSUME next # Empty
        PROVE  \/ \E i \in 1 .. Len(new) : LastOf(s, i, new) /\ next.last = new[i].ts
               \/ PreviewOf(s, next.last, new)
    <3>1. CASE entry = Empty
      BY <1>3, <1>5, <2>3, <3>1
    <3>2. CASE entry # Empty
      <4>1. next.last = entry.last
        BY <1>5, <3>2
      <4>2. QED
        BY <1>2, <1>3, <1>5, <3>2, <4>1 DEF SessionIs
    <3>3. QED
      BY <3>1, <3>2
  <2>4. QED
    BY <1>1, <2>2, <2>3 DEF SessionIs
<1>6. QED
  BY <1>4, <1>5

\* What snapshot forgets has been silent for long.
LEMMA SessionForgotten ==
  ASSUME NEW entry, NEW s, NEW evs, NEW now, now - entry.last >= Bucket, SessionIs(entry, s, evs, now)
  PROVE  SessionIs(Empty, s, evs, now)
  BY DEF SessionIs

LEMMA AgeIs == ASSUME UsageTypes, NEW t \in Int PROVE Age(t) >= Bucket <=> clock - t >= Bucket
  BY UsageAssumption DEF Age, UsageTypes

LEMMA SessionStep == UsageTypes /\ SessionInv /\ [UsageNext]_usageVars => SessionInv'
<1> SUFFICES ASSUME UsageTypes, SessionInv, [UsageNext]_usageVars, ~wentBack', NEW s \in Session
             PROVE  SessionIs(sessions'[s], s, log', clock')
  BY DEF SessionInv
<1>1. SessionIs(sessions[s], s, log, clock)
  <2>1. ~wentBack
    BY Zenon DEF UsageNext, usageVars, SetUsageClock, PushPreview, PushUsage, TakeSnapshot
  <2>2. QED
    BY <2>1 DEF SessionInv
<1>2. CASE SetUsageClock
  <2>1. clock \in Nat /\ clock' \in Nat /\ UNCHANGED <<sessions, log>> /\ log \in Seq(Event)
    BY <1>2, UsageAssumption DEF SetUsageClock, UsageTypes, Clock
  <2>2. ~(clock' < clock)
    BY <1>2, Zenon DEF SetUsageClock
  <2>3. clock <= clock'
    BY <2>1, <2>2
  <2>4. QED
    BY <1>1, <2>1, <2>3, SessionLater
<1>3. ASSUME NEW r \in Session, NEW ts \in 0 .. clock, PushPreview(r, ts) \/ PushUsage(r, ts)
      PROVE  SessionIs(sessions'[s], s, log', clock')
  <2>1. ts \in Nat /\ clock' = clock /\ log \in Seq(Event)
    <3>1. clock' = clock
      BY <1>3 DEF PushPreview, PushUsage
    <3>2. ts \in Nat /\ log \in Seq(Event)
      BY DEF UsageTypes
    <3>3. QED
      BY <3>1, <3>2
  <2>2. sessions[s].last \in Int /\ Empty.last = -1 /\ Empty.preview = FALSE
    BY DEF UsageTypes, Empty
  <2>3. CASE PushPreview(r, ts)
    <3>1. PICK e \in Event : e.s = r /\ e.ts = ts /\ e.usage = FALSE /\ log' = Append(log, e)
      <4>1. [s |-> r, ts |-> ts, usage |-> FALSE] \in Event
        BY <2>1 DEF Event
      <4>2. QED
        BY <2>3, <4>1 DEF PushPreview, Logged
    <3>2. CASE r # s
      <4>1. sessions'[s] = sessions[s]
        BY <2>3, <3>2 DEF PushPreview, UsageTypes
      <4>2. QED
        BY <1>1, <2>1, <3>1, <3>2, <4>1, SessionEvent
    <3>3. CASE r = s
      <4>1. sessions'[s] = [last |-> IF sessions[s] = Empty THEN ts ELSE sessions[s].last, preview |-> TRUE]
        BY <2>3, <3>3 DEF PushPreview, UsageTypes
      <4>2. sessions'[s] # Empty /\ sessions'[s].last = IF sessions[s] = Empty THEN ts ELSE sessions[s].last
        BY <2>2, <4>1
      <4>3. QED
        BY <1>1, <2>1, <3>1, <3>3, <4>2, SessionEvent
    <3>4. QED
      BY <3>2, <3>3
  <2>4. CASE PushUsage(r, ts)
    <3>1. PICK e \in Event : e.s = r /\ e.ts = ts /\ e.usage = TRUE /\ log' = Append(log, e)
      <4>1. [s |-> r, ts |-> ts, usage |-> TRUE] \in Event
        BY <2>1 DEF Event
      <4>2. QED
        BY <2>4, <4>1 DEF PushUsage, Logged
    <3>2. CASE r # s
      <4>1. sessions'[s] = sessions[s]
        BY <2>4, <3>2 DEF PushUsage, UsageTypes
      <4>2. QED
        BY <1>1, <2>1, <3>1, <3>2, <4>1, SessionEvent
    <3>3. CASE r = s
      <4>1. sessions'[s].last = ts
        BY <2>4, <3>3 DEF PushUsage, UsageTypes
      <4>2. sessions'[s] # Empty
        BY <2>1, <2>2, <4>1
      <4>3. QED
        BY <1>1, <2>1, <3>1, <3>3, <4>1, <4>2, SessionEvent
    <3>4. QED
      BY <3>2, <3>3
  <2>5. QED
    BY <1>3, <2>3, <2>4
<1>4. CASE TakeSnapshot
  <2>1. UNCHANGED <<clock, log>> /\ sessions[s].last \in Int
    BY <1>4 DEF TakeSnapshot, UsageTypes
  <2>2. sessions'[s] = IF Age(sessions[s].last) < Bucket THEN sessions[s] ELSE Empty
    BY <1>4 DEF TakeSnapshot
  <2>3. Age(sessions[s].last) \in Int /\ Bucket \in Int
    BY <2>1, UsageAssumption DEF Age, UsageTypes
  <2>4. Age(sessions[s].last) >= Bucket => clock - sessions[s].last >= Bucket
    BY <2>1, AgeIs
  <2>5. sessions'[s] = sessions[s] \/ (sessions'[s] = Empty /\ clock - sessions[s].last >= Bucket)
    BY <2>2, <2>3, <2>4
  <2>6. QED
    BY <1>1, <2>1, <2>5, SessionForgotten
<1>5. CASE UNCHANGED usageVars
  BY <1>1, <1>5 DEF usageVars
<1>6. QED
  BY <1>2, <1>3, <1>4, <1>5 DEF UsageNext

LEMMA UsesAre ==
  ASSUME UsageTypes, NEW s
  PROVE  /\ DOMAIN log = 1 .. Len(log) /\ Len(log) \in Nat
         /\ Uses(s) = {i \in 1 .. Len(log) : log[i].s = s /\ log[i].usage}
         /\ \A i \in 1 .. Len(log) : log[i].ts \in Nat
<1>1. DOMAIN log = 1 .. Len(log) /\ Len(log) \in Nat
  BY LenProperties DEF UsageTypes
<1>2. ASSUME NEW i \in 1 .. Len(log) PROVE log[i].ts \in Nat
  <2>1. log[i] \in Event
    BY ElementOfSeq DEF UsageTypes
  <2>2. QED
    BY <2>1 DEF Event
<1>3. QED
  BY <1>1, <1>2 DEF Uses, Usages

\* Where the usages came in order the last to come is recent, if any is.
LEMMA LastIsRecent ==
  ASSUME UsageTypes, NEW s, InOrder(s), NEW i \in Uses(s), Age(log[i].ts) < Bucket
  PROVE  \E l \in 1 .. Len(log) : LastOf(s, l, log) /\ ~(clock - log[l].ts >= Bucket)
<1>1. PICK S : S = Uses(s)
  OBVIOUS
<1>2. Len(log) \in Nat /\ S \subseteq Nat /\ S # {} /\ \A t \in S : t <= Len(log)
  BY <1>1, UsesAre
<1>3. PICK l \in S : \A t \in S : t <= l
  BY <1>2, MaxIs
<1>4. l \in 1 .. Len(log) /\ LastOf(s, l, log)
  BY <1>1, <1>3, UsesAre DEF LastOf
<1>5. log[i].ts \in Nat /\ log[l].ts \in Nat /\ log[i].ts <= log[l].ts
  <2>1. i \in 1 .. Len(log) /\ log[i].ts \in Nat /\ log[l].ts \in Nat
    BY <1>4, UsesAre
  <2>2. CASE i = l
    BY <2>1, <2>2
  <2>3. CASE i # l
    <3>1. i < l
      BY <1>1, <1>2, <1>3, <2>3
    <3>2. QED
      BY <1>1, <2>1, <3>1 DEF InOrder
  <2>4. QED
    BY <2>2, <2>3
<1>6. ~(clock - log[i].ts >= Bucket)
  <2>1. Age(log[i].ts) \in Int /\ Bucket \in Int
    BY <1>5, UsageAssumption DEF Age, UsageTypes
  <2>2. QED
    BY <1>5, <2>1, AgeIs
<1>7. ~(clock - log[l].ts >= Bucket)
  BY <1>5, <1>6, UsageAssumption DEF UsageTypes
<1>8. QED
  BY <1>4, <1>7

\* For any number of sessions and events: as long as its usages come in the order of
\* their stamps a session is listed while its newest is recent, however previews and
\* snapshots come in between, and whatever the order nothing is listed without a recent
\* usage or preview (aggregator/mod.rs:74-107 and 109-118: push and snapshot).
THEOREM OnlyTheRecentAreListed == UsageSpec => []ListIsRecent
<1>1. UsageTypes /\ SessionInv => ListIsRecent
  <2> SUFFICES ASSUME UsageTypes, SessionInv, ~wentBack, NEW s \in Session
               PROVE  /\ InOrder(s) /\ Recent(Uses(s)) => ListedNow(s)
                      /\ ListedNow(s) => Recent({i \in DOMAIN log : log[i].s = s})
    BY DEF ListIsRecent
  <2>1. SessionIs(sessions[s], s, log, clock)
    BY DEF SessionInv
  <2>2. ASSUME InOrder(s), NEW i \in Uses(s), Age(log[i].ts) < Bucket
        PROVE  ListedNow(s)
    <3>1. PICK l \in 1 .. Len(log) : LastOf(s, l, log) /\ ~(clock - log[l].ts >= Bucket)
      BY <2>2, LastIsRecent
    <3>2. sessions[s] # Empty /\ sessions[s].last = log[l].ts
      BY <2>1, <3>1 DEF SessionIs
    <3>3. log[l].ts \in Int /\ Age(log[l].ts) \in Int /\ Bucket \in Int
      BY UsesAre, UsageAssumption DEF Age, UsageTypes
    <3>4. Age(log[l].ts) < Bucket
      BY <3>1, <3>3, AgeIs
    <3>5. QED
      BY <3>2, <3>4 DEF ListedNow
  <2>3. ASSUME ListedNow(s)
        PROVE  \E i \in {i \in DOMAIN log : log[i].s = s} : Age(log[i].ts) < Bucket
    <3>1. PICK i \in 1 .. Len(log) : log[i].s = s /\ log[i].ts = sessions[s].last
      BY <2>1, <2>3 DEF ListedNow, SessionIs, LastOf, PreviewOf
    <3>2. QED
      BY <2>3, <3>1, UsesAre DEF ListedNow
  <2>4. QED
    BY <2>2, <2>3 DEF Recent
<1>2. QED
  BY <1>1, UsageTypesStart, UsageTypesStep, SessionStart, SessionStep, PTL DEF UsageSpec

-------------------------------------------------------------------------------
(* Induction over the numbers, and sums over the cells *)

LEMMA Inductive ==
  ASSUME NEW S, 0 \in S, \A n \in Nat : n \in S => n + 1 \in S
  PROVE  Nat \subseteq S
<1> DEFINE T == Nat \ S
<1> SUFFICES ASSUME T # {} PROVE FALSE
  OBVIOUS
<1>1. PICK x \in T : \A y \in T : ~(y < x)
  BY Least
<1>2. x \in Nat \ {0}
  OBVIOUS
<1>3. x - 1 \in Nat /\ x - 1 < x /\ x - 1 + 1 = x
  BY <1>2
<1>4. QED
  BY <1>1, <1>2, <1>3

\* The function by which MapThenSumSet is defined exists.
SumStep(cs, f, s) ==
  IF s = {} THEN 0 ELSE cs[CHOOSE x \in s : TRUE].tokens + f[s \ {CHOOSE x \in s : TRUE}]

IsSum(cs, S, f) == f = [s \in SUBSET S |-> SumStep(cs, f, s)]

LEMMA SumExists ==
  ASSUME NEW cs, NEW S, IsFiniteSet(S)
  PROVE  \E f : IsSum(cs, S, f)
<1> DEFINE D(n) == {s \in SUBSET S : Cardinality(s) <= n}
           N == {n \in Nat : \E f : f = [s \in D(n) |-> SumStep(cs, f, s)]}
<1>1. \A s \in SUBSET S : IsFiniteSet(s) /\ Cardinality(s) \in Nat
  BY FS_Subset, FS_CardinalityType
<1>2. 0 \in N
  <2> DEFINE f == [s \in D(0) |-> 0]
  <2>1. \A s \in D(0) : s = {}
    BY <1>1, FS_EmptySet
  <2>2. f = [s \in D(0) |-> SumStep(cs, f, s)]
    BY <2>1 DEF SumStep
  <2>3. QED
    BY <2>2
<1>3. ASSUME NEW n \in Nat, n \in N PROVE n + 1 \in N
  <2>1. PICK f : f = [s \in D(n) |-> SumStep(cs, f, s)]
    BY <1>3
  <2> DEFINE g == [s \in D(n + 1) |-> SumStep(cs, f, s)]
  <2>2. D(n) \subseteq D(n + 1)
    BY <1>1
  <2>3. \A s \in D(n) : g[s] = f[s]
    BY <2>1, <2>2
  <2>4. ASSUME NEW s \in D(n + 1) PROVE g[s] = SumStep(cs, g, s)
    <3>1. CASE s = {}
      BY <3>1 DEF SumStep
    <3>2. CASE s # {}
      <4>1. PICK x \in s : x = CHOOSE y \in s : TRUE
        BY <3>2
      <4>2. s \ {x} \in D(n)
        <5>1. Cardinality(s \ {x}) = Cardinality(s) - 1
          BY <1>1, FS_RemoveElement
        <5>2. QED
          BY <1>1, <5>1
      <4>3. f[s \ {x}] = g[s \ {x}]
        BY <2>3, <4>2
      <4>4. SumStep(cs, f, s) = SumStep(cs, g, s)
        <5> HIDE DEF g
        <5>1. QED
          BY <4>1, <4>3 DEF SumStep
      <4>5. QED
        BY <4>4
    <3>3. QED
      BY <3>1, <3>2
  <2>5. g = [s \in D(n + 1) |-> SumStep(cs, g, s)]
    BY <2>4
  <2> HIDE DEF g
  <2>6. QED
    BY <2>5
<1>4. Nat \subseteq N
  <2> HIDE DEF N
  <2>1. QED
    BY <1>2, <1>3, Inductive
<1>5. Cardinality(S) \in Nat /\ D(Cardinality(S)) = SUBSET S
  BY <1>1, FS_Subset
<1>6. PICK f : f = [s \in D(Cardinality(S)) |-> SumStep(cs, f, s)]
  BY <1>4, <1>5
<1>7. IsSum(cs, S, f)
  <2> HIDE DEF D
  <2>1. QED
    BY <1>5, <1>6 DEF IsSum
<1>8. QED
  BY <1>7

Total(cs, S) == MapThenSumSet(LAMBDA i : cs[i].tokens, S)

LEMMA TotalIs ==
  ASSUME NEW cs, NEW S, IsFiniteSet(S)
  PROVE  \E f : IsSum(cs, S, f) /\ Total(cs, S) = f[S]
<1> DEFINE it == CHOOSE f : f = [s \in SUBSET S |->
                    IF s = {} THEN 0 ELSE cs[CHOOSE x \in s : TRUE].tokens + f[s \ {CHOOSE x \in s : TRUE}]]
<1>1. Total(cs, S) = it[S]
  BY DEF Total, MapThenSumSet, MapThenFoldSet
<1>2. it = [s \in SUBSET S |->
              IF s = {} THEN 0 ELSE cs[CHOOSE x \in s : TRUE].tokens + it[s \ {CHOOSE x \in s : TRUE}]]
  <2>1. PICK f : IsSum(cs, S, f)
    BY SumExists
  <2>2. f = [s \in SUBSET S |->
              IF s = {} THEN 0 ELSE cs[CHOOSE x \in s : TRUE].tokens + f[s \ {CHOOSE x \in s : TRUE}]]
    BY <2>1, Zenon DEF IsSum, SumStep
  <2>3. QED
    BY <2>2
<1> HIDE DEF it
<1>3. IsSum(cs, S, it)
  BY <1>2, Zenon DEF IsSum, SumStep
<1>4. QED
  BY <1>1, <1>3

LEMMA DisjointUnion ==
  ASSUME NEW A, NEW B, IsFiniteSet(A), IsFiniteSet(B), A \cap B = {}
  PROVE  Cardinality(A \cup B) = Cardinality(A) + Cardinality(B)
<1>1. Cardinality(A \cup B) = Cardinality(A) + Cardinality(B) - Cardinality(A \cap B)
  BY FS_Union
<1>2. Cardinality(A \cap B) = 0
  BY FS_EmptySet
<1>3. Cardinality(A) \in Nat /\ Cardinality(B) \in Nat
  BY FS_CardinalityType
<1>4. QED
  BY <1>1, <1>2, <1>3

LEMMA SaturatedSum ==
  ASSUME NEW a \in Nat, NEW b \in Nat, NEW t \in Nat, Saturated(t) = Saturated(b)
  PROVE  Saturated(a) + t \in Nat /\ Saturated(Saturated(a) + t) = Saturated(b + a)
BY UsageAssumption DEF Saturated

Joined(C, S) == UNION {C[i] : i \in S}

\* Cells that each count their own, up to the limit, together count all, up to the limit.
LEMMA TotalCounts ==
  ASSUME NEW cs, NEW S, IsFiniteSet(S), NEW C, IsFiniteSet(Joined(C, S)),
         \A i \in S : cs[i].tokens = Saturated(Cardinality(C[i])),
         \A i, j \in S : i # j => C[i] \cap C[j] = {}
  PROVE  Saturated(Total(cs, S)) = Saturated(Cardinality(Joined(C, S)))
<1> DEFINE U(s) == UNION {C[i] : i \in s}
<1>0. Joined(C, S) = U(S)
  BY DEF Joined
<1>1. PICK f : IsSum(cs, S, f) /\ Total(cs, S) = f[S]
  BY TotalIs
<1> DEFINE N == {n \in Nat : \A s \in SUBSET S : Cardinality(s) = n =>
                   f[s] \in Nat /\ Saturated(f[s]) = Saturated(Cardinality(U(s)))}
<1>2. \A s \in SUBSET S : IsFiniteSet(s) /\ Cardinality(s) \in Nat
  BY FS_Subset, FS_CardinalityType
<1>3. \A s \in SUBSET S : f[s] = SumStep(cs, f, s)
  BY <1>1 DEF IsSum
<1>4. \A s \in SUBSET S : IsFiniteSet(U(s)) /\ Cardinality(U(s)) \in Nat
  <2>1. \A s \in SUBSET S : U(s) \in SUBSET U(S)
    OBVIOUS
  <2>2. QED
    BY <1>0, <2>1, FS_Subset, FS_CardinalityType
<1>5. 0 \in N
  <2>1. \A s \in SUBSET S : Cardinality(s) = 0 => s = {}
    BY <1>2, FS_EmptySet
  <2>2. f[{}] = 0 /\ U({}) = {}
    <3>1. {} \in SUBSET S /\ U({}) = {}
      OBVIOUS
    <3>2. SumStep(cs, f, {}) = 0
      BY DEF SumStep
    <3>3. QED
      <4> HIDE DEF U
      <4>1. QED
        BY <1>3, <3>1, <3>2
  <2>3. Cardinality(U({})) = 0
    BY <2>2, FS_EmptySet
  <2>4. QED
    BY <2>1, <2>2, <2>3
<1>6. ASSUME NEW n \in Nat, n \in N PROVE n + 1 \in N
  <2> SUFFICES ASSUME NEW s \in SUBSET S, Cardinality(s) = n + 1
               PROVE  f[s] \in Nat /\ Saturated(f[s]) = Saturated(Cardinality(U(s)))
    OBVIOUS
  <2>1. s # {}
    BY FS_EmptySet
  <2>2. PICK x \in s : x = CHOOSE y \in s : TRUE
    BY <2>1
  <2> DEFINE r == s \ {x}
  <2>3. r \in SUBSET S /\ Cardinality(r) = n
    <3>1. IsFiniteSet(s) /\ x \in s
      BY <1>2
    <3>2. Cardinality(s \ {x}) = Cardinality(s) - 1
      BY <3>1, FS_RemoveElement
    <3>3. n + 1 - 1 = n
      OBVIOUS
    <3>4. QED
      BY <3>2, <3>3
  <2>4. f[s] = cs[x].tokens + f[r]
    BY <1>3, <2>1, <2>2 DEF SumStep
  <2>5. f[r] \in Nat /\ Saturated(f[r]) = Saturated(Cardinality(U(r)))
    BY <1>6, <2>3
  <2>6. U(s) = U(r) \cup C[x]
    OBVIOUS
  <2>7. C[x] \in SUBSET U(S)
    OBVIOUS
  <2>8. IsFiniteSet(C[x]) /\ Cardinality(C[x]) \in Nat
    BY <1>0, <2>7, FS_Subset, FS_CardinalityType
  <2>9. U(r) \cap C[x] = {}
    OBVIOUS
  <2>10. IsFiniteSet(U(r)) /\ Cardinality(U(r)) \in Nat
    BY <1>4, <2>3
  <2> HIDE DEF r, U
  <2>11. Cardinality(U(s)) = Cardinality(U(r)) + Cardinality(C[x])
    BY <2>6, <2>8, <2>9, <2>10, DisjointUnion
  <2>12. cs[x].tokens = Saturated(Cardinality(C[x]))
    OBVIOUS
  <2>13. PICK a \in Nat, b \in Nat, t \in Nat : a = Cardinality(C[x]) /\ b = Cardinality(U(r)) /\ t = f[r]
    BY <2>5, <2>8, <2>10
  <2>14. Saturated(a) + t \in Nat /\ Saturated(Saturated(a) + t) = Saturated(b + a)
    <3>1. Saturated(t) = Saturated(b)
      BY <2>5, <2>13
    <3>2. QED
      BY <3>1, SaturatedSum
  <2>15. f[s] = Saturated(a) + t /\ Cardinality(U(s)) = b + a
    BY <2>4, <2>11, <2>12, <2>13
  <2>16. QED
    BY <2>14, <2>15
<1>7. Nat \subseteq N
  <2> HIDE DEF N
  <2>1. QED
    BY <1>5, <1>6, Inductive
<1>8. QED
  BY <1>0, <1>1, <1>2, <1>7
-------------------------------------------------------------------------------
(* The cells of the five-hour total *)

CountTypes ==
  /\ ring \in Seq(Nat)
  /\ cells \in [0 .. NumBuckets - 1 -> [start : Int, tokens : Nat]]

\* The usages of evs in the slot k; those among them whose bucket starts at b.
InSlot(evs, k) == {i \in 1 .. Len(evs) : evs[i].usage /\ Slot(evs[i].ts) = k}
OfBucket(evs, k, b) == {i \in InSlot(evs, k) : BucketStart(evs[i].ts) = b}

\* A cell holds the newest bucket of its slot and counts its usages.
CellIs(cell, k, evs) ==
  /\ \A i \in InSlot(evs, k) : BucketStart(evs[i].ts) <= cell.start
  /\ InSlot(evs, k) # {} => OfBucket(evs, k, cell.start) # {}
  /\ cell.tokens = Saturated(Cardinality(OfBucket(evs, k, cell.start)))
CellInv == NoneTooLate => \A k \in 0 .. NumBuckets - 1 : CellIs(cells[k], k, log)

LEMMA StampIs ==
  ASSUME NEW ts \in Nat
  PROVE  Slot(ts) \in 0 .. NumBuckets - 1 /\ BucketStart(ts) \in Int
<1>1. ts \div Bucket \in Int
  BY UsageAssumption
<1>2. PICK q \in Int : q = ts \div Bucket
  BY <1>1
<1>3. q % NumBuckets \in 0 .. NumBuckets - 1 /\ q * Bucket \in Int
  BY UsageAssumption
<1>4. QED
  BY <1>2, <1>3 DEF Slot, BucketStart

LEMMA EventStamp ==
  ASSUME NEW evs \in Seq(Event), NEW i \in 1 .. Len(evs)
  PROVE  evs[i].ts \in Nat /\ evs[i].usage \in BOOLEAN
<1>1. evs[i] \in Event
  BY ElementOfSeq
<1>2. QED
  BY <1>1 DEF Event

LEMMA InSlotFinite ==
  ASSUME NEW evs \in Seq(Event), NEW T, T \subseteq 1 .. Len(evs)
  PROVE  IsFiniteSet(T) /\ Cardinality(T) \in Nat
<1>1. Len(evs) \in Nat
  BY LenProperties
<1>2. IsFiniteSet(1 .. Len(evs))
  BY <1>1, FS_Interval
<1>3. QED
  BY <1>2, FS_Subset, FS_CardinalityType

LEMMA CountTypesStart == UsageInit => CountTypes
<1>1. UsageInit => ring \in Seq(Nat)
  BY EmptySeq DEF UsageInit
<1>2. UsageInit => cells \in [0 .. NumBuckets - 1 -> [start : Int, tokens : Nat]]
  BY DEF UsageInit
<1>3. QED
  BY <1>1, <1>2 DEF CountTypes

\* prune drops from the front, and nothing that is young enough.
LEMMA PrunedIs ==
  ASSUME NEW evs \in Seq(Nat), NEW at \in Int
  PROVE  /\ Pruned(evs, at) \in Seq(Nat)
         /\ \E m \in 1 .. Len(evs) + 1 :
              /\ \A i \in 1 .. m - 1 : evs[i] < at - Bucket
              /\ Len(Pruned(evs, at)) = Len(evs) - m + 1
              /\ \A i \in 1 .. Len(evs) - m + 1 : Pruned(evs, at)[i] = evs[i + m - 1]
<1> DEFINE young == {i \in DOMAIN evs : evs[i] >= at - Bucket}
<1>1. DOMAIN evs = 1 .. Len(evs) /\ Len(evs) \in Nat /\ \A i \in 1 .. Len(evs) : evs[i] \in Nat
  BY LenProperties, ElementOfSeq
<1>2. Bucket \in Nat
  BY UsageAssumption
<1>3. Pruned(evs, at) = IF young = {} THEN <<>> ELSE SubSeq(evs, Min(young), Len(evs))
  BY DEF Pruned
<1>4. young \subseteq 1 .. Len(evs) /\ \A i \in 1 .. Len(evs) : i \notin young => evs[i] < at - Bucket
  BY <1>1, <1>2
<1> HIDE DEF young
<1>5. CASE young = {}
  <2>1. Pruned(evs, at) = <<>>
    BY <1>3, <1>5
  <2>2. <<>> \in Seq(Nat) /\ Len(<<>>) = 0
    BY EmptySeq
  <2>3. Len(evs) + 1 \in 1 .. Len(evs) + 1 /\ Len(evs) - (Len(evs) + 1) + 1 = 0 /\ Len(evs) + 1 - 1 = Len(evs)
    BY <1>1
  <2>4. \A i \in 1 .. Len(evs) : evs[i] < at - Bucket
    BY <1>4, <1>5
  <2>5. QED
    BY <2>1, <2>2, <2>3, <2>4
<1>6. CASE young # {}
  <2>1. \E x \in young : \A y \in young : x <= y
    <3>1. young \subseteq Nat
      BY <1>4
    <3>2. PICK x \in young : \A y \in young : ~(y < x)
      BY <1>6, <3>1, Least
    <3>3. QED
      BY <3>1, <3>2
  <2>2. PICK m : m = Min(young)
    OBVIOUS
  <2>3. m \in young /\ \A y \in young : m <= y
    BY <2>1, <2>2 DEF Min
  <2>4. m \in 1 .. Len(evs) /\ \A i \in 1 .. m - 1 : evs[i] < at - Bucket
    <3>1. m \in 1 .. Len(evs)
      BY <1>4, <2>3
    <3>2. ASSUME NEW i \in 1 .. m - 1 PROVE i \in 1 .. Len(evs) /\ i \notin young
      BY <1>1, <2>3, <3>1
    <3>3. QED
      BY <1>4, <3>1, <3>2
  <2>5. Pruned(evs, at) = SubSeq(evs, m, Len(evs))
    BY <1>3, <1>6, <2>2
  <2>6. /\ SubSeq(evs, m, Len(evs)) \in Seq(Nat)
        /\ Len(SubSeq(evs, m, Len(evs))) = IF m <= Len(evs) THEN Len(evs) - m + 1 ELSE 0
        /\ \A i \in 1 .. Len(evs) - m + 1 : SubSeq(evs, m, Len(evs))[i] = evs[m + i - 1]
    <3>1. m \in Int /\ Len(evs) \in Int /\ \A i \in m .. Len(evs) : evs[i] \in Nat
      BY <1>1, <2>4
    <3>2. QED
      BY <3>1, SubSeqProperties
  <2>7. m <= Len(evs) /\ m \in 1 .. Len(evs) + 1 /\ \A i \in 1 .. Len(evs) - m + 1 : m + i - 1 = i + m - 1
    BY <1>1, <2>4
  <2>8. QED
    BY <2>4, <2>5, <2>6, <2>7
<1>7. QED
  BY <1>5, <1>6

LEMMA CountTypesStep == UsageTypes /\ CountTypes /\ [UsageNext]_usageVars => CountTypes'
<1> SUFFICES ASSUME UsageTypes, CountTypes, [UsageNext]_usageVars PROVE CountTypes'
  OBVIOUS
<1>1. ASSUME NEW s \in Session, NEW ts \in 0 .. clock, PushUsage(s, ts) PROVE CountTypes'
  <2>1. ts \in Nat /\ ts \in Int
    BY DEF UsageTypes
  <2>2. Append(ring, ts) \in Seq(Nat)
    BY <2>1, AppendProperties DEF CountTypes
  <2>3. ring' \in Seq(Nat)
    BY <1>1, <2>1, <2>2, PrunedIs DEF PushUsage
  <2>4. cells' = Add(ts)
    BY <1>1 DEF PushUsage
  <2>5. PICK k \in 0 .. NumBuckets - 1, b \in Int : k = Slot(ts) /\ b = BucketStart(ts)
    BY <2>1, StampIs
  <2>6. \A n \in Nat : Saturated(n) \in Nat
    BY UsageAssumption DEF Saturated
  <2>7. cells' = [cells EXCEPT ![k] = [start |-> b,
                    tokens |-> IF @.start = b THEN Saturated(@.tokens + 1) ELSE Saturated(1)]]
    BY <2>4, <2>5 DEF Add
  <2>8. cells[k].tokens + 1 \in Nat
    BY DEF CountTypes
  <2>9. cells' \in [0 .. NumBuckets - 1 -> [start : Int, tokens : Nat]]
    BY <2>6, <2>7, <2>8 DEF CountTypes
  <2>10. QED
    BY <2>3, <2>9 DEF CountTypes
<1>2. CASE TakeSnapshot
  <2>1. clock \in Int
    BY DEF UsageTypes
  <2>2. Pruned(ring, clock) \in Seq(Nat)
    BY <2>1, PrunedIs DEF CountTypes
  <2>3. QED
    BY <1>2, <2>2 DEF TakeSnapshot, CountTypes
<1>3. CASE UNCHANGED <<cells, ring>>
  BY <1>3 DEF CountTypes
<1>4. QED
  BY <1>1, <1>2, <1>3 DEF UsageNext, usageVars, SetUsageClock, PushPreview

\* Positions that an event adds to those of its slot and its bucket.
LEMMA PositionsKept ==
  ASSUME NEW evs \in Seq(Event), NEW e \in Event, NEW k, NEW new, new = Append(evs, e)
  PROVE  /\ \A i \in InSlot(evs, k) : new[i] = evs[i] /\ i \in 1 .. Len(new)
         /\ 1 .. Len(new) = 1 .. Len(evs) \cup {Len(new)} /\ Len(new) \notin 1 .. Len(evs)
         /\ new[Len(new)] = e
<1>1. /\ Len(evs) \in Nat /\ Len(new) = Len(evs) + 1 /\ new[Len(evs) + 1] = e
      /\ \A i \in 1 .. Len(evs) : new[i] = evs[i] /\ i \in 1 .. Len(new)
  BY Appended
<1>2. QED
  BY <1>1 DEF InSlot

LEMMA SlotKept ==
  ASSUME NEW evs \in Seq(Event), NEW e \in Event, NEW k, NEW new, new = Append(evs, e),
         ~(e.usage = TRUE /\ Slot(e.ts) = k)
  PROVE  InSlot(new, k) = InSlot(evs, k)
<1>1. /\ \A i \in InSlot(evs, k) : new[i] = evs[i] /\ i \in 1 .. Len(new)
      /\ 1 .. Len(new) = 1 .. Len(evs) \cup {Len(new)} /\ new[Len(new)] = e
  BY PositionsKept
<1>2. \A i \in 1 .. Len(evs) : new[i] = evs[i]
  BY Appended
<1>3. e.usage \in BOOLEAN
  BY DEF Event
<1>4. QED
  BY <1>1, <1>2, <1>3 DEF InSlot

\* A usage of a bucket that is not older than those before it in its slot, as add counts it.
LEMMA CellCounts ==
  ASSUME NEW cell \in [start : Int, tokens : Nat], NEW next, NEW k, NEW evs \in Seq(Event), NEW e \in Event,
         CellIs(cell, k, evs), e.usage = TRUE, Slot(e.ts) = k,
         \A i \in InSlot(evs, k) : BucketStart(evs[i].ts) <= BucketStart(e.ts),
         next.start = BucketStart(e.ts),
         next.tokens = IF cell.start = BucketStart(e.ts) THEN Saturated(cell.tokens + 1) ELSE Saturated(1)
  PROVE  CellIs(next, k, Append(evs, e))
<1>1. PICK new \in Seq(Event) : new = Append(evs, e)
  BY Appended
<1>2. PICK b \in Int : b = BucketStart(e.ts)
  <2>1. e.ts \in Nat
    BY DEF Event
  <2>2. QED
    BY <2>1, StampIs
<1>3. /\ \A i \in InSlot(evs, k) : new[i] = evs[i] /\ i \in 1 .. Len(new)
      /\ 1 .. Len(new) = 1 .. Len(evs) \cup {Len(new)} /\ Len(new) \notin 1 .. Len(evs)
      /\ new[Len(new)] = e
      /\ \A i \in 1 .. Len(evs) : new[i] = evs[i]
  <2>1. /\ \A i \in InSlot(evs, k) : new[i] = evs[i] /\ i \in 1 .. Len(new)
        /\ 1 .. Len(new) = 1 .. Len(evs) \cup {Len(new)} /\ Len(new) \notin 1 .. Len(evs)
        /\ new[Len(new)] = e
    BY <1>1, PositionsKept
  <2>2. \A i \in 1 .. Len(evs) : new[i] = evs[i]
    BY <1>1, Appended
  <2>3. QED
    BY <2>1, <2>2
<1>4. /\ InSlot(new, k) = InSlot(evs, k) \cup {Len(new)}
      /\ OfBucket(new, k, b) = OfBucket(evs, k, b) \cup {Len(new)}
      /\ Len(new) \notin OfBucket(evs, k, b) /\ OfBucket(evs, k, b) \subseteq 1 .. Len(evs)
  <2>1. InSlot(new, k) = InSlot(evs, k) \cup {Len(new)}
    BY <1>3 DEF InSlot
  <2>2. OfBucket(new, k, b) = OfBucket(evs, k, b) \cup {Len(new)}
    BY <1>2, <1>3, <2>1 DEF OfBucket
  <2>3. Len(new) \notin OfBucket(evs, k, b) /\ OfBucket(evs, k, b) \subseteq 1 .. Len(evs)
    BY <1>3 DEF OfBucket, InSlot
  <2>4. QED
    BY <2>1, <2>2, <2>3
<1>5. PICK n \in Nat : n = Cardinality(OfBucket(evs, k, b)) /\ IsFiniteSet(OfBucket(evs, k, b))
  BY <1>4, InSlotFinite
<1>6. Cardinality(OfBucket(new, k, b)) = n + 1
  <2>1. Cardinality(OfBucket(evs, k, b) \cup {Len(new)})
          = IF Len(new) \in OfBucket(evs, k, b) THEN n ELSE n + 1
    BY <1>5, FS_AddElement
  <2>2. QED
    BY <1>4, <2>1
<1>7. \A i \in InSlot(new, k) : BucketStart(new[i].ts) <= next.start
  BY <1>2, <1>3, <1>4
<1>8. OfBucket(new, k, next.start) # {}
  BY <1>2, <1>4
<1>9. next.tokens = Saturated(n + 1)
  <2>1. CASE cell.start = b
    <3>1. cell.tokens = Saturated(n)
      BY <1>5, <2>1 DEF CellIs
    <3>2. Saturated(Saturated(n) + 1) = Saturated(n + 1)
      BY UsageAssumption DEF Saturated
    <3>3. QED
      BY <1>2, <2>1, <3>1, <3>2
  <2>2. CASE cell.start # b
    <3>1. OfBucket(evs, k, b) = {}
      <4> SUFFICES ASSUME NEW i \in OfBucket(evs, k, b) PROVE FALSE
        OBVIOUS
      <4>1. i \in InSlot(evs, k) /\ BucketStart(evs[i].ts) = b
        BY DEF OfBucket
      <4>2. PICK j \in InSlot(evs, k) : BucketStart(evs[j].ts) = cell.start
        BY <4>1 DEF CellIs, OfBucket
      <4>3. cell.start <= b /\ b <= cell.start
        BY <1>2, <4>1, <4>2 DEF CellIs
      <4>4. QED
        BY <1>2, <2>2, <4>3
    <3>2. n = 0
      BY <1>5, <3>1, FS_EmptySet
    <3>3. QED
      BY <1>2, <2>2, <3>2
  <2>3. QED
    BY <2>1, <2>2
<1>10. QED
  BY <1>1, <1>2, <1>6, <1>7, <1>8, <1>9 DEF CellIs

LEMMA CellStart == UsageInit => CellInv
<1> SUFFICES ASSUME UsageInit, NEW k \in 0 .. NumBuckets - 1 PROVE CellIs(cells[k], k, log)
  BY DEF CellInv
<1>1. Len(log) = 0 /\ cells[k] = [start |-> 0, tokens |-> 0]
  BY DEF UsageInit
<1>2. InSlot(log, k) = {} /\ OfBucket(log, k, 0) = {}
  BY <1>1 DEF InSlot, OfBucket
<1>3. Cardinality(OfBucket(log, k, 0)) = 0 /\ Saturated(0) = 0
  BY <1>2, FS_EmptySet, UsageAssumption DEF Saturated
<1>4. QED
  BY <1>1, <1>2, <1>3 DEF CellIs

LEMMA UsagesAre == ASSUME UsageTypes PROVE Usages = {i \in 1 .. Len(log) : log[i].usage}
<1>1. DOMAIN log = 1 .. Len(log)
  BY LenProperties DEF UsageTypes
<1>2. QED
  BY <1>1 DEF Usages

\* What was not too late before an event is not too late after it.
LEMMA TooLateStays ==
  ASSUME UsageTypes, UsageTypes', NEW e \in Event, log' = Append(log, e), NoneTooLate'
  PROVE  /\ NoneTooLate
         /\ e.usage => \A i \in InSlot(log, Slot(e.ts)) : BucketStart(log[i].ts) <= BucketStart(e.ts)
<1>1. /\ Len(log) \in Nat /\ Len(log') = Len(log) + 1 /\ log'[Len(log) + 1] = e
      /\ \A i \in 1 .. Len(log) : log'[i] = log[i]
  BY Appended DEF UsageTypes
<1>2. /\ Usages = {i \in 1 .. Len(log) : log[i].usage}
      /\ Usages' = {i \in 1 .. Len(log') : log'[i].usage}
  <2>1. DOMAIN log' = 1 .. Len(log')
    BY LenProperties DEF UsageTypes
  <2>2. QED
    BY <2>1, UsagesAre DEF Usages
<1>3. \A i \in Usages : i \in Usages' /\ log'[i] = log[i]
  BY <1>1, <1>2
<1>4. NoneTooLate
  BY <1>3 DEF NoneTooLate
<1>5. ASSUME e.usage, NEW i \in InSlot(log, Slot(e.ts)) PROVE BucketStart(log[i].ts) <= BucketStart(e.ts)
  <2>1. i \in 1 .. Len(log) /\ log[i].usage /\ Slot(log[i].ts) = Slot(e.ts)
    BY DEF InSlot
  <2>2. i \in Usages' /\ Len(log) + 1 \in Usages' /\ i < Len(log) + 1
    BY <1>1, <1>2, <1>5, <2>1
  <2>3. BucketStart(log'[Len(log) + 1].ts) >= BucketStart(log'[i].ts)
    BY <1>1, <2>1, <2>2 DEF NoneTooLate
  <2>4. log[i].ts \in Nat /\ e.ts \in Nat
    BY <2>1, EventStamp DEF UsageTypes, Event
  <2>5. QED
    BY <1>1, <2>1, <2>3, <2>4, StampIs
<1>6. QED
  BY <1>4, <1>5

LEMMA CellOther ==
  ASSUME NEW cell, NEW k, NEW evs \in Seq(Event), NEW e \in Event, CellIs(cell, k, evs),
         ~(e.usage = TRUE /\ Slot(e.ts) = k)
  PROVE  CellIs(cell, k, Append(evs, e))
<1>1. PICK new : new = Append(evs, e)
  OBVIOUS
<1>2. InSlot(new, k) = InSlot(evs, k)
  BY <1>1, SlotKept
<1>3. \A i \in InSlot(evs, k) : new[i] = evs[i]
  BY <1>1, PositionsKept
<1>4. OfBucket(new, k, cell.start) = OfBucket(evs, k, cell.start)
  BY <1>2, <1>3 DEF OfBucket
<1>5. CellIs(cell, k, new)
  BY <1>2, <1>3, <1>4 DEF CellIs
<1>6. QED
  BY <1>1, <1>5

LEMMA CellStep == UsageTypes /\ UsageTypes' /\ CountTypes /\ CellInv /\ [UsageNext]_usageVars => CellInv'
<1> SUFFICES ASSUME UsageTypes, UsageTypes', CountTypes, CellInv, [UsageNext]_usageVars, NoneTooLate',
                    NEW k \in 0 .. NumBuckets - 1
             PROVE  CellIs(cells'[k], k, log')
  BY DEF CellInv
<1>1. ASSUME NEW s \in Session, NEW ts \in 0 .. clock, PushUsage(s, ts) PROVE CellIs(cells'[k], k, log')
  <2>1. ts \in Nat /\ log \in Seq(Event)
    BY DEF UsageTypes
  <2>2. PICK e \in Event : e.ts = ts /\ e.usage = TRUE /\ log' = Append(log, e)
    <3>1. [s |-> s, ts |-> ts, usage |-> TRUE] \in Event
      BY <2>1 DEF Event
    <3>2. QED
      BY <1>1, <3>1 DEF PushUsage, Logged
  <2>3. /\ NoneTooLate
        /\ e.usage => \A i \in InSlot(log, Slot(e.ts)) : BucketStart(log[i].ts) <= BucketStart(e.ts)
    BY <2>2, TooLateStays
  <2>4. CellIs(cells[k], k, log)
    BY <2>3 DEF CellInv
  <2>5. PICK h \in 0 .. NumBuckets - 1, b \in Int : h = Slot(ts) /\ b = BucketStart(ts)
    BY <2>1, StampIs
  <2>6. cells' = [cells EXCEPT ![h] = [start |-> b,
                    tokens |-> IF @.start = b THEN Saturated(@.tokens + 1) ELSE Saturated(1)]]
    BY <1>1, <2>5 DEF PushUsage, Add
  <2>7. CASE k = h
    <3>1. cells'[k] = [start |-> b, tokens |-> IF cells[k].start = b THEN Saturated(cells[k].tokens + 1)
                                                                    ELSE Saturated(1)]
      BY <2>6, <2>7 DEF CountTypes
    <3>2. /\ cells'[k].start = BucketStart(e.ts)
          /\ cells'[k].tokens = IF cells[k].start = BucketStart(e.ts) THEN Saturated(cells[k].tokens + 1)
                                                                     ELSE Saturated(1)
      BY <2>2, <2>5, <3>1
    <3>3. Slot(e.ts) = k /\ e.usage = TRUE
      BY <2>2, <2>5, <2>7
    <3>4. \A i \in InSlot(log, k) : BucketStart(log[i].ts) <= BucketStart(e.ts)
      BY <2>3, <3>3
    <3>5. cells[k] \in [start : Int, tokens : Nat]
      BY DEF CountTypes
    <3>6. CellIs(cells'[k], k, Append(log, e))
      <4>1. PICK next : next = cells'[k]
        OBVIOUS
      <4>2. PICK cell \in [start : Int, tokens : Nat] : cell = cells[k]
        BY <3>5
      <4>3. CellIs(next, k, Append(log, e))
        BY <2>1, <2>4, <3>2, <3>3, <3>4, <4>1, <4>2, CellCounts
      <4>4. QED
        BY <4>1, <4>3
    <3>7. QED
      BY <2>2, <3>6
  <2>8. CASE k # h
    <3>1. cells'[k] = cells[k]
      BY <2>6, <2>8 DEF CountTypes
    <3>2. Slot(e.ts) # k
      BY <2>2, <2>5, <2>8
    <3>3. CellIs(cells[k], k, Append(log, e))
      BY <2>1, <2>4, <3>2, CellOther
    <3>4. QED
      BY <2>2, <3>1, <3>3
  <2>9. QED
    BY <2>7, <2>8
<1>2. ASSUME NEW s \in Session, NEW ts \in 0 .. clock, PushPreview(s, ts) PROVE CellIs(cells'[k], k, log')
  <2>1. ts \in Nat /\ log \in Seq(Event)
    BY DEF UsageTypes
  <2>2. PICK e \in Event : e.usage = FALSE /\ log' = Append(log, e)
    <3>1. [s |-> s, ts |-> ts, usage |-> FALSE] \in Event
      BY <2>1 DEF Event
    <3>2. QED
      BY <1>2, <3>1 DEF PushPreview, Logged
  <2>3. NoneTooLate
    BY <2>2, TooLateStays
  <2>4. CellIs(cells[k], k, log)
    BY <2>3 DEF CellInv
  <2>5. CellIs(cells[k], k, Append(log, e))
    BY <2>1, <2>2, <2>4, CellOther
  <2>6. cells' = cells
    BY <1>2 DEF PushPreview
  <2>7. QED
    BY <2>2, <2>5, <2>6
<1>3. CASE UNCHANGED <<cells, log>>
  <2>1. NoneTooLate
    BY <1>3 DEF NoneTooLate, Usages
  <2>2. QED
    BY <1>3, <2>1 DEF CellInv
<1>4. QED
  BY <1>1, <1>2, <1>3 DEF UsageNext, usageVars, SetUsageClock, TakeSnapshot

\* The total of the cells is that of the usages no newer bucket has pushed out.
LEMMA TotalIsExact ==
  ASSUME UsageTypes, CountTypes, CellInv, NoneTooLate
  PROVE  LET start(i) == BucketStart(log[i].ts)
             taken(i) == \E j \in Usages : Slot(log[j].ts) = Slot(log[i].ts) /\ start(j) > start(i)
             counted == {i \in Usages : start(i) \in clock - QuotaWindow .. clock /\ ~taken(i)}
         IN  Sum5h = Saturated(Cardinality(counted))
<1> DEFINE start(i) == BucketStart(log[i].ts)
           taken(i) == \E j \in Usages : Slot(log[j].ts) = Slot(log[i].ts) /\ start(j) > start(i)
           counted == {i \in Usages : start(i) \in clock - QuotaWindow .. clock /\ ~taken(i)}
           live == {k \in DOMAIN cells : cells[k].start >= clock - QuotaWindow /\ cells[k].start <= clock}
           C == [k \in 0 .. NumBuckets - 1 |-> OfBucket(log, k, cells[k].start)]
           all == Joined(C, live)
<1>1. Sum5h = Saturated(Total(cells, live))
  BY DEF Sum5h, Total
<1>2. live \subseteq 0 .. NumBuckets - 1 /\ IsFiniteSet(live)
  <2>1. DOMAIN cells = 0 .. NumBuckets - 1
    BY DEF CountTypes
  <2>2. IsFiniteSet(0 .. NumBuckets - 1)
    BY UsageAssumption, FS_Interval
  <2>3. live \subseteq 0 .. NumBuckets - 1
    BY <2>1
  <2>4. QED
    BY <2>2, <2>3, FS_Subset
<1>3. all \subseteq 1 .. Len(log)
  BY <1>2 DEF Joined, OfBucket, InSlot
<1>4. \A k \in 0 .. NumBuckets - 1 : CellIs(cells[k], k, log) /\ C[k] = OfBucket(log, k, cells[k].start)
  BY DEF CellInv
<1>5. \A k \in live : cells[k].tokens = Saturated(Cardinality(C[k]))
  BY <1>2, <1>4 DEF CellIs
<1>6. \A j, k \in live : j # k => C[j] \cap C[k] = {}
  BY <1>2 DEF OfBucket, InSlot
<1>7. all = counted
  <2>1. \A i \in Usages : i \in InSlot(log, Slot(log[i].ts)) /\ Slot(log[i].ts) \in 0 .. NumBuckets - 1
                          /\ start(i) \in Int
    BY UsagesAre, EventStamp, StampIs DEF InSlot, UsageTypes
  <2>2. \A k \in 0 .. NumBuckets - 1 : InSlot(log, k) = {i \in Usages : Slot(log[i].ts) = k}
    BY UsagesAre DEF InSlot
  <2>3. \A k \in 0 .. NumBuckets - 1 : cells[k].start \in Int
    BY DEF CountTypes
  <2>4. \A i \in Usages : ~taken(i) <=> start(i) = cells[Slot(log[i].ts)].start
    <3> SUFFICES ASSUME NEW i \in Usages PROVE ~taken(i) <=> start(i) = cells[Slot(log[i].ts)].start
      OBVIOUS
    <3>1. PICK k \in 0 .. NumBuckets - 1 : k = Slot(log[i].ts)
      BY <2>1
    <3>2. \A j \in InSlot(log, k) : start(j) <= cells[k].start
      BY <1>4 DEF CellIs
    <3>3. PICK j \in InSlot(log, k) : start(j) = cells[k].start
      BY <1>4, <2>1, <3>1 DEF CellIs, OfBucket
    <3>4. taken(i) <=> \E h \in InSlot(log, k) : start(h) > start(i)
      BY <2>2, <3>1
    <3>5. i \in InSlot(log, k) /\ start(i) \in Int /\ cells[k].start \in Int
          /\ \A h \in InSlot(log, k) : start(h) \in Int
      BY <2>1, <2>2, <2>3, <3>1
    <3> HIDE DEF taken, start
    <3>6. QED
      BY <3>1, <3>2, <3>3, <3>4, <3>5
  <2>5. \A i : i \in all <=> \E k \in live : i \in OfBucket(log, k, cells[k].start)
    BY <1>2, <1>4 DEF Joined
  <2>6. \A i, k : k \in 0 .. NumBuckets - 1 =>
          (i \in OfBucket(log, k, cells[k].start) <=>
             i \in Usages /\ Slot(log[i].ts) = k /\ start(i) = cells[k].start)
    BY <2>2 DEF OfBucket
  <2>7. \A k \in 0 .. NumBuckets - 1 : k \in live <=> cells[k].start \in clock - QuotaWindow .. clock
    <3>1. DOMAIN cells = 0 .. NumBuckets - 1
      BY DEF CountTypes
    <3>2. clock \in Int /\ QuotaWindow \in Int
      BY UsageAssumption DEF UsageTypes, QuotaWindow
    <3>3. QED
      BY <2>3, <3>1, <3>2
  <2>8. \A i \in Usages : i \in counted <=> start(i) \in clock - QuotaWindow .. clock /\ ~taken(i)
    OBVIOUS
  <2>9. counted \subseteq Usages /\ live \subseteq 0 .. NumBuckets - 1
    BY <1>2
  <2> HIDE DEF all, counted, live, taken, start, C
  <2>10. ASSUME NEW i \in all PROVE i \in counted
    <3>1. PICK k \in live : i \in OfBucket(log, k, cells[k].start)
      BY <2>5
    <3>2. k \in 0 .. NumBuckets - 1
      BY <2>9
    <3>3. i \in Usages /\ Slot(log[i].ts) = k /\ start(i) = cells[k].start
      BY <2>6, <3>1, <3>2
    <3>4. start(i) \in clock - QuotaWindow .. clock /\ ~taken(i)
      BY <2>4, <2>7, <3>1, <3>2, <3>3
    <3>5. QED
      BY <2>8, <3>3, <3>4
  <2>11. ASSUME NEW i \in counted PROVE i \in all
    BY <2>1, <2>4, <2>5, <2>6, <2>7, <2>8, <2>9
  <2>12. QED
    BY <2>10, <2>11
<1>8. IsFiniteSet(all)
  BY <1>3, InSlotFinite DEF UsageTypes
<1>9. Saturated(Total(cells, live)) = Saturated(Cardinality(all))
  <2> HIDE DEF live, C
  <2>1. IsFiniteSet(Joined(C, live))
    BY <1>8
  <2>2. QED
    BY <1>2, <1>5, <1>6, <2>1, TotalCounts
<1>10. QED
  BY <1>1, <1>7, <1>9
-------------------------------------------------------------------------------
(* The ring of the rate *)

\* The stamps of the ring, and the usages of the log, from x on.
Above(evs, x) == {i \in 1 .. Len(evs) : evs[i] >= x}
UsedFrom(evs, x) == {i \in 1 .. Len(evs) : evs[i].usage /\ evs[i].ts >= x}

\* Of what is young enough to be kept, the ring has as many as the log.
RingInv ==
  ~wentBack => \A x \in Int : x >= clock - Bucket => Cardinality(Above(ring, x)) = Cardinality(UsedFrom(log, x))

LEMMA AboveFinite ==
  ASSUME NEW evs \in Seq(Nat), NEW x
  PROVE  IsFiniteSet(Above(evs, x)) /\ Cardinality(Above(evs, x)) \in Nat
<1>1. Len(evs) \in Nat
  BY LenProperties
<1>2. IsFiniteSet(1 .. Len(evs)) /\ Above(evs, x) \subseteq 1 .. Len(evs)
  BY <1>1, FS_Interval DEF Above
<1>3. QED
  BY <1>2, FS_Subset, FS_CardinalityType

LEMMA AboveAppended ==
  ASSUME NEW evs \in Seq(Nat), NEW t \in Nat, NEW x \in Int
  PROVE  Cardinality(Above(Append(evs, t), x)) = Cardinality(Above(evs, x)) + IF t >= x THEN 1 ELSE 0
<1>1. PICK new : new = Append(evs, t)
  OBVIOUS
<1>2. /\ Len(evs) \in Nat /\ Len(new) = Len(evs) + 1 /\ new[Len(evs) + 1] = t
      /\ \A i \in 1 .. Len(evs) : new[i] = evs[i]
  BY <1>1, AppendProperties, LenProperties
<1>3. 1 .. Len(new) = 1 .. Len(evs) \cup {Len(new)} /\ Len(new) \notin 1 .. Len(evs) /\ new[Len(new)] = t
  BY <1>2
<1>4. PICK n \in Nat : n = Cardinality(Above(evs, x)) /\ IsFiniteSet(Above(evs, x))
  BY AboveFinite
<1>5. CASE t >= x
  <2>1. Above(new, x) = Above(evs, x) \cup {Len(new)} /\ Len(new) \notin Above(evs, x)
    BY <1>2, <1>3, <1>5 DEF Above
  <2>2. Cardinality(Above(evs, x) \cup {Len(new)}) = IF Len(new) \in Above(evs, x) THEN n ELSE n + 1
    BY <1>4, FS_AddElement
  <2>3. QED
    BY <1>1, <1>4, <1>5, <2>1, <2>2
<1>6. CASE ~(t >= x)
  <2>1. Above(new, x) = Above(evs, x)
    BY <1>2, <1>3, <1>6 DEF Above
  <2>2. QED
    BY <1>1, <1>4, <1>6, <2>1
<1>7. QED
  BY <1>5, <1>6

LEMMA UsedAppended ==
  ASSUME NEW evs \in Seq(Event), NEW e \in Event, NEW x \in Int
  PROVE  Cardinality(UsedFrom(Append(evs, e), x))
           = Cardinality(UsedFrom(evs, x)) + IF e.usage /\ e.ts >= x THEN 1 ELSE 0
<1>1. PICK new : new = Append(evs, e)
  OBVIOUS
<1>2. /\ Len(evs) \in Nat /\ Len(new) = Len(evs) + 1 /\ new[Len(evs) + 1] = e
      /\ \A i \in 1 .. Len(evs) : new[i] = evs[i]
  BY <1>1, Appended
<1>3. 1 .. Len(new) = 1 .. Len(evs) \cup {Len(new)} /\ Len(new) \notin 1 .. Len(evs) /\ new[Len(new)] = e
  BY <1>2
<1>4. PICK n \in Nat : n = Cardinality(UsedFrom(evs, x)) /\ IsFiniteSet(UsedFrom(evs, x))
  <2>1. UsedFrom(evs, x) \subseteq 1 .. Len(evs)
    BY DEF UsedFrom
  <2>2. QED
    BY <2>1, InSlotFinite
<1>5. CASE e.usage /\ e.ts >= x
  <2>1. UsedFrom(new, x) = UsedFrom(evs, x) \cup {Len(new)} /\ Len(new) \notin UsedFrom(evs, x)
    BY <1>2, <1>3, <1>5 DEF UsedFrom
  <2>2. Cardinality(UsedFrom(evs, x) \cup {Len(new)}) = IF Len(new) \in UsedFrom(evs, x) THEN n ELSE n + 1
    BY <1>4, FS_AddElement
  <2>3. QED
    BY <1>1, <1>4, <1>5, <2>1, <2>2
<1>6. CASE ~(e.usage /\ e.ts >= x)
  <2>1. UsedFrom(new, x) = UsedFrom(evs, x)
    BY <1>2, <1>3, <1>6 DEF UsedFrom
  <2>2. QED
    BY <1>1, <1>4, <1>6, <2>1
<1>7. QED
  BY <1>5, <1>6

\* What prune drops is too old to be asked for.
LEMMA AbovePruned ==
  ASSUME NEW evs \in Seq(Nat), NEW at \in Int, NEW x \in Int, x >= at - Bucket
  PROVE  Cardinality(Above(Pruned(evs, at), x)) = Cardinality(Above(evs, x))
<1>1. PICK p \in Seq(Nat) : p = Pruned(evs, at)
  BY PrunedIs
<1>2. PICK m \in 1 .. Len(evs) + 1 :
        /\ \A i \in 1 .. m - 1 : evs[i] < at - Bucket
        /\ Len(p) = Len(evs) - m + 1
        /\ \A i \in 1 .. Len(evs) - m + 1 : p[i] = evs[i + m - 1]
  BY <1>1, PrunedIs
<1>3. Len(evs) \in Nat /\ Bucket \in Nat /\ \A i \in 1 .. Len(evs) : evs[i] \in Nat
  BY LenProperties, ElementOfSeq, UsageAssumption
<1> DEFINE f == [i \in Above(p, x) |-> i + m - 1]
<1>4. \A i \in Above(p, x) : f[i] = i + m - 1 /\ i \in 1 .. Len(p) /\ f[i] \in Above(evs, x)
  <2>1. ASSUME NEW i \in Above(p, x) PROVE i \in 1 .. Len(p) /\ i + m - 1 \in Above(evs, x)
    <3>1. i \in 1 .. Len(p) /\ p[i] >= x
      BY DEF Above
    <3>2. p[i] = evs[i + m - 1] /\ i + m - 1 \in 1 .. Len(evs)
      BY <1>2, <1>3, <3>1
    <3>3. QED
      BY <3>1, <3>2 DEF Above
  <2>2. QED
    BY <2>1
<1>5. \A j \in Above(evs, x) : j - m + 1 \in Above(p, x) /\ f[j - m + 1] = j
  <2> SUFFICES ASSUME NEW j \in Above(evs, x) PROVE j - m + 1 \in Above(p, x) /\ f[j - m + 1] = j
    OBVIOUS
  <2>1. j \in 1 .. Len(evs) /\ evs[j] >= x /\ evs[j] \in Nat
    BY <1>3 DEF Above
  <2>2. ~(j \in 1 .. m - 1)
    <3>1. j \in 1 .. m - 1 => evs[j] < at - Bucket
      BY <1>2
    <3>2. QED
      BY <1>3, <2>1, <3>1
  <2>3. j - m + 1 \in 1 .. Len(evs) - m + 1 /\ j - m + 1 + m - 1 = j
    BY <1>2, <1>3, <2>1, <2>2
  <2>4. p[j - m + 1] = evs[j]
    BY <1>2, <2>3
  <2>5. j - m + 1 \in Above(p, x)
    BY <1>2, <2>1, <2>3, <2>4 DEF Above
  <2>6. QED
    BY <2>3, <2>5
<1>6. f \in [Above(p, x) -> Above(evs, x)]
  BY <1>4
<1>7. \A i, j \in Above(p, x) : f[i] = f[j] => i = j
  <2>1. \A i, j \in Int : i + m - 1 = j + m - 1 => i = j
    OBVIOUS
  <2>2. \A i \in Above(p, x) : i \in Int
    BY <1>4
  <2>3. QED
    BY <1>4, <2>1, <2>2
<1>8. f \in Bijection(Above(p, x), Above(evs, x))
  <2> HIDE DEF f
  <2>1. f \in Injection(Above(p, x), Above(evs, x))
    BY <1>6, <1>7 DEF Injection, IsInjective
  <2>2. f \in Surjection(Above(p, x), Above(evs, x))
    BY <1>5, <1>6 DEF Surjection
  <2>3. QED
    BY <2>1, <2>2 DEF Bijection
<1>9. ExistsBijection(Above(p, x), Above(evs, x)) /\ IsFiniteSet(Above(p, x))
  BY <1>8, AboveFinite DEF ExistsBijection
<1>10. QED
  BY <1>1, <1>9, FS_Bijection

LEMMA RingStart == UsageInit => RingInv
<1> SUFFICES ASSUME UsageInit, NEW x \in Int PROVE Cardinality(Above(ring, x)) = Cardinality(UsedFrom(log, x))
  BY DEF RingInv
<1>1. ring = <<>> /\ log = <<>>
  BY DEF UsageInit
<1>2. Above(ring, x) = {} /\ UsedFrom(log, x) = {}
  BY <1>1 DEF Above, UsedFrom
<1>3. QED
  BY <1>2

LEMMA RingStep == UsageTypes /\ CountTypes /\ RingInv /\ [UsageNext]_usageVars => RingInv'
<1> SUFFICES ASSUME UsageTypes, CountTypes, RingInv, [UsageNext]_usageVars, ~wentBack',
                    NEW x \in Int, x >= clock' - Bucket
             PROVE  Cardinality(Above(ring', x)) = Cardinality(UsedFrom(log', x))
  BY DEF RingInv
<1>0. Bucket \in Nat /\ clock \in Nat /\ ring \in Seq(Nat) /\ log \in Seq(Event)
  BY UsageAssumption DEF UsageTypes, CountTypes
<1>1. ~wentBack
  BY Zenon DEF UsageNext, usageVars, SetUsageClock, PushPreview, PushUsage, TakeSnapshot
<1>2. x >= clock - Bucket => Cardinality(Above(ring, x)) = Cardinality(UsedFrom(log, x))
  BY <1>1 DEF RingInv
<1>3. CASE SetUsageClock
  <2>1. clock' \in Nat
    BY <1>3, UsageAssumption DEF SetUsageClock, Clock
  <2>2. ~(clock' < clock) /\ UNCHANGED <<ring, log>>
    BY <1>3, Zenon DEF SetUsageClock
  <2>3. x >= clock - Bucket
    <3>1. PICK now \in Nat, later \in Nat : now = clock /\ later = clock'
      BY <1>0, <2>1
    <3>2. now <= later /\ x >= later - Bucket
      BY <2>2, <3>1
    <3>3. \A b \in Nat : x >= later - b => x >= now - b
      BY <3>2
    <3>4. QED
      BY <1>0, <3>1, <3>2, <3>3
  <2>4. QED
    BY <1>2, <2>2, <2>3
<1>4. ASSUME NEW s \in Session, NEW ts \in 0 .. clock, PushPreview(s, ts)
      PROVE  Cardinality(Above(ring', x)) = Cardinality(UsedFrom(log', x))
  <2>1. ts \in Nat /\ clock' = clock /\ ring' = ring
    BY <1>0, <1>4 DEF PushPreview
  <2>2. PICK e \in Event : e.usage = FALSE /\ log' = Append(log, e)
    <3>1. [s |-> s, ts |-> ts, usage |-> FALSE] \in Event
      BY <2>1 DEF Event
    <3>2. QED
      BY <1>4, <3>1 DEF PushPreview, Logged
  <2>3. Cardinality(UsedFrom(log', x)) = Cardinality(UsedFrom(log, x)) + 0
    BY <1>0, <2>2, UsedAppended
  <2>4. Cardinality(Above(ring, x)) \in Nat
    BY <1>0, AboveFinite
  <2>5. QED
    BY <1>2, <2>1, <2>3, <2>4
<1>5. ASSUME NEW s \in Session, NEW ts \in 0 .. clock, PushUsage(s, ts)
      PROVE  Cardinality(Above(ring', x)) = Cardinality(UsedFrom(log', x))
  <2>1. ts \in Nat /\ clock' = clock /\ ring' = Pruned(Append(ring, ts), ts)
    BY <1>0, <1>5 DEF PushUsage
  <2>2. PICK e \in Event : e.usage = TRUE /\ e.ts = ts /\ log' = Append(log, e)
    <3>1. [s |-> s, ts |-> ts, usage |-> TRUE] \in Event
      BY <2>1 DEF Event
    <3>2. QED
      BY <1>5, <3>1 DEF PushUsage, Logged
  <2>3. Cardinality(UsedFrom(log', x)) = Cardinality(UsedFrom(log, x)) + IF ts >= x THEN 1 ELSE 0
    BY <1>0, <2>2, UsedAppended
  <2>4. Cardinality(Above(Append(ring, ts), x)) = Cardinality(Above(ring, x)) + IF ts >= x THEN 1 ELSE 0
    BY <1>0, <2>1, AboveAppended
  <2>5. Cardinality(Above(Pruned(Append(ring, ts), ts), x)) = Cardinality(Above(Append(ring, ts), x))
    <3>1. PICK more \in Seq(Nat) : more = Append(ring, ts)
      BY <1>0, <2>1, AppendProperties
    <3>2. x >= ts - Bucket
      BY <1>0, <2>1
    <3>3. Cardinality(Above(Pruned(more, ts), x)) = Cardinality(Above(more, x))
      BY <3>2, AbovePruned
    <3>4. QED
      BY <3>1, <3>3
  <2>6. QED
    BY <1>2, <2>1, <2>3, <2>4, <2>5
<1>6. CASE TakeSnapshot
  <2>1. clock' = clock /\ log' = log /\ ring' = Pruned(ring, clock)
    BY <1>6 DEF TakeSnapshot
  <2>2. Cardinality(Above(Pruned(ring, clock), x)) = Cardinality(Above(ring, x))
    BY <1>0, <2>1, AbovePruned
  <2>3. QED
    BY <1>2, <2>1, <2>2
<1>7. CASE UNCHANGED usageVars
  BY <1>2, <1>7 DEF usageVars
<1>8. QED
  BY <1>3, <1>4, <1>5, <1>6, <1>7 DEF UsageNext

\* For any number of cells, of events and of set-backs of the clock: the five-hour total
\* counts every usage of its reach whose bucket no newer one has pushed out of its cell,
\* each once, and while the clock goes forward the rate counts every usage of its window,
\* whatever prune has dropped (aggregator/rotating.rs: add, sum_5h; ring.rs: push, prune).
THEOREM TotalsStayExact == UsageSpec => []TotalsAreExact
<1> DEFINE Inv == UsageTypes /\ CountTypes /\ CellInv /\ RingInv
<1>1. UsageInit => Inv
  BY UsageTypesStart, CountTypesStart, CellStart, RingStart
<1>2. Inv /\ [UsageNext]_usageVars => Inv'
  <2>1. UsageTypes /\ [UsageNext]_usageVars => UsageTypes'
    BY UsageTypesStep
  <2>2. QED
    BY <2>1, CountTypesStep, CellStep, RingStep
<1>3. Inv => TotalsAreExact
  <2> SUFFICES ASSUME Inv PROVE TotalsAreExact
    OBVIOUS
  <2>1. ASSUME ~wentBack PROVE Rate = Cardinality({i \in Usages : log[i].ts >= clock - RateWindow})
    <3> DEFINE x == clock - RateWindow
    <3>1. x \in Int /\ x >= clock - Bucket
      BY UsageAssumption DEF UsageTypes
    <3>2. DOMAIN ring = 1 .. Len(ring)
      BY LenProperties DEF CountTypes
    <3>3. Rate = Cardinality(Above(ring, x))
      BY <3>2 DEF Rate, Above
    <3>4. {i \in Usages : log[i].ts >= x} = UsedFrom(log, x)
      BY UsagesAre DEF UsedFrom
    <3> HIDE DEF x
    <3>5. QED
      BY <2>1, <3>1, <3>3, <3>4 DEF RingInv, x
  <2>2. QED
    BY <2>1, TotalIsExact DEF TotalsAreExact
<1> HIDE DEF Inv
<1>4. QED
  BY <1>1, <1>2, <1>3, PTL DEF UsageSpec
-------------------------------------------------------------------------------
(* The window that is counted down *)

\* The stamps kept are stamps of usages, and while the clock goes forward none is
\* missing of those that the lookback reaches.
TimesInv ==
  /\ times \subseteq Nat
  /\ ~wentBack => /\ \A t \in times : \E i \in 1 .. Len(log) : log[i].usage /\ log[i].ts = t
                  /\ \A i \in 1 .. Len(log) : log[i].usage =>
                       log[i].ts <= clock /\ (log[i].ts >= clock - Lookback => log[i].ts \in times)

LEMMA TimesStart == UsageInit => TimesInv
<1> SUFFICES ASSUME UsageInit PROVE TimesInv
  OBVIOUS
<1>1. times = {} /\ Len(log) = 0
  BY DEF UsageInit
<1>2. QED
  BY <1>1 DEF TimesInv

LEMMA TimesStep == UsageTypes /\ TimesInv /\ [UsageNext]_usageVars => TimesInv'
<1> SUFFICES ASSUME UsageTypes, TimesInv, [UsageNext]_usageVars PROVE TimesInv'
  OBVIOUS
<1>0. Lookback \in Nat /\ clock \in Nat /\ log \in Seq(Event) /\ times \subseteq Nat
      /\ \A i \in 1 .. Len(log) : log[i].ts \in Nat
  BY UsageAssumption, EventStamp DEF UsageTypes, TimesInv
<1>1. ~wentBack' => ~wentBack
  BY Zenon DEF UsageNext, usageVars, SetUsageClock, PushPreview, PushUsage, TakeSnapshot
<1>2. CASE SetUsageClock
  <2>1. PICK later \in Nat : later = clock'
    BY <1>2, UsageAssumption DEF SetUsageClock, Clock
  <2>2. UNCHANGED <<times, log>> /\ (~wentBack' => ~(clock' < clock))
    BY <1>2, Zenon DEF SetUsageClock
  <2>3. ASSUME ~wentBack', NEW i \in 1 .. Len(log), log[i].usage
        PROVE  log[i].ts <= later /\ (log[i].ts >= later - Lookback => log[i].ts \in times)
    <3>1. log[i].ts <= clock /\ (log[i].ts >= clock - Lookback => log[i].ts \in times)
      BY <1>1, <2>3 DEF TimesInv
    <3>2. clock <= later
      BY <1>0, <2>1, <2>2, <2>3
    <3>3. PICK t \in Nat : t = log[i].ts
      BY <1>0
    <3>4. QED
      BY <1>0, <3>1, <3>2, <3>3
  <2>4. ~wentBack' => \A t \in times : \E i \in 1 .. Len(log) : log[i].usage /\ log[i].ts = t
    BY <1>1 DEF TimesInv
  <2>5. QED
    BY <1>0, <2>1, <2>2, <2>3, <2>4 DEF TimesInv
<1>3. ASSUME NEW s \in Session, NEW ts \in 0 .. clock, PushPreview(s, ts) PROVE TimesInv'
  <2>1. ts \in Nat /\ clock' = clock /\ times' = times
    BY <1>0, <1>3 DEF PushPreview
  <2>2. PICK e \in Event : e.usage = FALSE /\ log' = Append(log, e)
    <3>1. [s |-> s, ts |-> ts, usage |-> FALSE] \in Event
      BY <2>1 DEF Event
    <3>2. QED
      BY <1>3, <3>1 DEF PushPreview, Logged
  <2>3. /\ Len(log) \in Nat /\ Len(log') = Len(log) + 1 /\ log'[Len(log) + 1] = e
        /\ \A i \in 1 .. Len(log) : log'[i] = log[i] /\ i \in 1 .. Len(log')
    BY <1>0, <2>2, Appended
  <2>4. \A i \in 1 .. Len(log') : log'[i].usage => i \in 1 .. Len(log) /\ log'[i] = log[i]
    BY <2>2, <2>3
  <2>5. QED
    BY <1>0, <1>1, <2>1, <2>3, <2>4 DEF TimesInv
<1>4. ASSUME NEW s \in Session, NEW ts \in 0 .. clock, PushUsage(s, ts) PROVE TimesInv'
  <2>1. ts \in Nat /\ ts <= clock /\ clock' = clock /\ times' = times \cup {ts}
    BY <1>0, <1>4 DEF PushUsage
  <2>2. PICK e \in Event : e.usage = TRUE /\ e.ts = ts /\ log' = Append(log, e)
    <3>1. [s |-> s, ts |-> ts, usage |-> TRUE] \in Event
      BY <2>1 DEF Event
    <3>2. QED
      BY <1>4, <3>1 DEF PushUsage, Logged
  <2>3. /\ Len(log) \in Nat /\ Len(log') = Len(log) + 1 /\ log'[Len(log) + 1] = e
        /\ \A i \in 1 .. Len(log) : log'[i] = log[i] /\ i \in 1 .. Len(log')
        /\ Len(log) + 1 \in 1 .. Len(log')
    BY <1>0, <2>2, Appended
  <2>4. \A i \in 1 .. Len(log') : (i \in 1 .. Len(log) /\ log'[i] = log[i]) \/ log'[i] = e
    BY <2>3
  <2>5. ASSUME ~wentBack', NEW t \in times' PROVE \E i \in 1 .. Len(log') : log'[i].usage /\ log'[i].ts = t
    <3>1. CASE t = ts
      BY <2>2, <2>3, <3>1
    <3>2. CASE t \in times
      BY <1>1, <2>3, <2>5, <3>2 DEF TimesInv
    <3>3. QED
      BY <2>1, <2>5, <3>1, <3>2
  <2>6. ASSUME ~wentBack', NEW i \in 1 .. Len(log'), log'[i].usage
        PROVE  log'[i].ts <= clock /\ (log'[i].ts >= clock - Lookback => log'[i].ts \in times')
    <3>1. CASE log'[i] = e
      BY <2>1, <2>2, <3>1
    <3>2. CASE i \in 1 .. Len(log) /\ log'[i] = log[i]
      BY <1>1, <2>1, <2>6, <3>2 DEF TimesInv
    <3>3. QED
      BY <2>4, <3>1, <3>2
  <2>7. times' \subseteq Nat
    BY <1>0, <2>1
  <2>8. QED
    BY <2>1, <2>5, <2>6, <2>7 DEF TimesInv
<1>5. CASE TakeSnapshot
  <2>1. UNCHANGED <<clock, log>> /\ times' = {t \in times : t >= clock - Lookback /\ t <= clock}
    BY <1>5 DEF TakeSnapshot, Kept
  <2>2. times' \subseteq times
    BY <2>1
  <2>3. QED
    BY <1>0, <1>1, <2>1, <2>2 DEF TimesInv
<1>6. CASE UNCHANGED usageVars
  BY <1>6 DEF usageVars, TimesInv
<1>7. QED
  BY <1>2, <1>3, <1>4, <1>5, <1>6 DEF UsageNext

\* W are the windows' starts among S.
Windows(W, S) == /\ W \subseteq S
                 /\ \A t \in S : t \in W <=> \A u \in W : u < t => t - u >= QuotaWindow

LEMMA WindowStartsAre ==
  ASSUME NEW S, S \subseteq Nat, NEW b \in Nat, \A t \in S : t <= b
  PROVE  Windows(WindowStarts(S), S)
<1> DEFINE N == {n \in Nat : \E W : Windows(W, {t \in S : t < n})}
<1>0. QuotaWindow \in Nat
  BY UsageAssumption DEF QuotaWindow
<1>1. 0 \in N
  <2>1. {t \in S : t < 0} = {}
    <3>1. \A t \in Nat : ~(t < 0)
      OBVIOUS
    <3>2. QED
      BY <3>1
  <2>2. Windows({}, {t \in S : t < 0})
    BY <2>1 DEF Windows
  <2>3. QED
    BY <2>2
<1>2. ASSUME NEW n \in Nat, n \in N PROVE n + 1 \in N
  <2>1. PICK W : Windows(W, {t \in S : t < n})
    BY <1>2
  <2>2. W \subseteq S /\ \A u \in W : u \in Nat /\ u < n
    BY <2>1 DEF Windows
  <2>3. \A t \in S : t < n + 1 <=> t < n \/ t = n
    OBVIOUS
  <2> DEFINE opens == n \in S /\ \A u \in W : n - u >= QuotaWindow
             V == IF opens THEN W \cup {n} ELSE W
  <2>4. \A u : u \in V /\ u # n => u \in W
    OBVIOUS
  <2>5. W \subseteq V /\ V \subseteq {t \in S : t < n + 1}
    BY <2>2, <2>3
  <2>6. ASSUME NEW t \in S, t < n + 1 PROVE t \in V <=> \A u \in V : u < t => t - u >= QuotaWindow
    <3>1. CASE t = n
      <4>1. t \in V <=> opens
        BY <2>2, <3>1
      <4>2. \A u \in V : u < t <=> u \in W
        BY <2>2, <2>4, <3>1
      <4>3. opens <=> \A u \in V : u < t => t - u >= QuotaWindow
        BY <2>5, <3>1, <4>2
      <4>4. QED
        BY <4>1, <4>3
    <3>2. CASE t < n
      <4>1. t \in V <=> t \in W
        BY <2>4, <3>2
      <4>2. \A u \in V : u < t => u \in W
        BY <2>4, <3>2
      <4>3. t \in W <=> \A u \in W : u < t => t - u >= QuotaWindow
        BY <2>1, <3>2 DEF Windows
      <4>4. QED
        BY <2>5, <4>1, <4>2, <4>3
    <3>3. QED
      BY <2>3, <2>6, <3>1, <3>2
  <2>7. Windows(V, {t \in S : t < n + 1})
    <3> HIDE DEF V
    <3>1. QED
      BY <2>5, <2>6 DEF Windows
  <2>8. PICK U : Windows(U, {t \in S : t < n + 1})
    BY <2>7
  <2>9. QED
    BY <2>8
<1>3. Nat \subseteq N
  <2> HIDE DEF N
  <2>1. QED
    BY <1>1, <1>2, Inductive
<1>4. {t \in S : t < b + 1} = S
  <2>1. \A t \in Nat : t <= b => t < b + 1
    OBVIOUS
  <2>2. QED
    BY <2>1
<1>5. \E W : Windows(W, {t \in S : t < b + 1})
  BY <1>3
<1>6. \E W \in SUBSET S : \A t \in S : t \in W <=> \A u \in W : u < t => t - u >= QuotaWindow
  BY <1>4, <1>5 DEF Windows
<1>7. QED
  BY <1>6 DEF WindowStarts, Windows

\* The function by which the fold of Anchor is defined: it exists.
WalkStep(base, f, s) ==
  IF s = {} THEN base ELSE IF Max(s) - f[s \ {Max(s)}] >= QuotaWindow THEN Max(s) ELSE f[s \ {Max(s)}]

IsWalk(base, S, f) == f = [s \in SUBSET S |-> WalkStep(base, f, s)]

LEMMA WalkExists ==
  ASSUME NEW base, NEW S, S \subseteq Nat, NEW b \in Nat, \A t \in S : t <= b
  PROVE  \E f : IsWalk(base, S, f)
<1>1. IsFiniteSet(S)
  BY FS_BoundedSetOfNaturals
<1> DEFINE D(n) == {s \in SUBSET S : Cardinality(s) <= n}
           N == {n \in Nat : \E f : f = [s \in D(n) |-> WalkStep(base, f, s)]}
<1>2. \A s \in SUBSET S : IsFiniteSet(s) /\ Cardinality(s) \in Nat
  BY <1>1, FS_Subset, FS_CardinalityType
<1>3. 0 \in N
  <2> DEFINE f == [s \in D(0) |-> base]
  <2>1. \A s \in D(0) : s = {}
    BY <1>2, FS_EmptySet
  <2>2. f = [s \in D(0) |-> WalkStep(base, f, s)]
    BY <2>1 DEF WalkStep
  <2>3. QED
    BY <2>2
<1>4. ASSUME NEW n \in Nat, n \in N PROVE n + 1 \in N
  <2>1. PICK f : f = [s \in D(n) |-> WalkStep(base, f, s)]
    BY <1>4
  <2> DEFINE g == [s \in D(n + 1) |-> WalkStep(base, f, s)]
  <2>2. D(n) \subseteq D(n + 1)
    BY <1>2
  <2>3. \A s \in D(n) : g[s] = f[s]
    BY <2>1, <2>2
  <2>4. ASSUME NEW s \in D(n + 1) PROVE g[s] = WalkStep(base, g, s)
    <3>1. CASE s = {}
      BY <3>1 DEF WalkStep
    <3>2. CASE s # {}
      <4>1. PICK x \in s : x = Max(s)
        <5>1. s \subseteq Nat /\ \A t \in s : t <= b
          OBVIOUS
        <5>2. Max(s) \in s
          BY <3>2, <5>1, MaxIs
        <5>3. QED
          BY <5>2
      <4>2. s \ {x} \in D(n)
        <5>1. Cardinality(s \ {x}) = Cardinality(s) - 1
          BY <1>2, FS_RemoveElement
        <5>2. QED
          BY <1>2, <5>1
      <4>3. f[s \ {x}] = g[s \ {x}]
        BY <2>3, <4>2
      <4>4. WalkStep(base, f, s) = WalkStep(base, g, s)
        <5> HIDE DEF g
        <5>1. QED
          BY <4>1, <4>3 DEF WalkStep
      <4>5. QED
        BY <4>4
    <3>3. QED
      BY <3>1, <3>2
  <2>5. g = [s \in D(n + 1) |-> WalkStep(base, g, s)]
    BY <2>4
  <2> HIDE DEF g
  <2>6. QED
    BY <2>5
<1>5. Nat \subseteq N
  <2> HIDE DEF N
  <2>1. QED
    BY <1>3, <1>4, Inductive
<1>6. Cardinality(S) \in Nat /\ D(Cardinality(S)) = SUBSET S
  BY <1>1, <1>2, FS_Subset
<1>7. PICK f : f = [s \in D(Cardinality(S)) |-> WalkStep(base, f, s)]
  BY <1>5, <1>6
<1>8. IsWalk(base, S, f)
  <2> HIDE DEF D
  <2>1. QED
    BY <1>6, <1>7 DEF IsWalk
<1>9. QED
  BY <1>8

LEMMA AnchorIs ==
  ASSUME NEW S, S \subseteq Nat, NEW b \in Nat, \A t \in S : t <= b
  PROVE  \E f : IsWalk(Min(S), S, f) /\ Anchor(S) = f[S]
<1> DEFINE it == CHOOSE f : f = [s \in SUBSET S |->
                    IF s = {} THEN Min(S)
                    ELSE IF Max(s) - f[s \ {Max(s)}] >= QuotaWindow THEN Max(s) ELSE f[s \ {Max(s)}]]
<1>1. Anchor(S) = it[S]
  BY DEF Anchor, MapThenFoldSet
<1>2. it = [s \in SUBSET S |->
              IF s = {} THEN Min(S)
              ELSE IF Max(s) - it[s \ {Max(s)}] >= QuotaWindow THEN Max(s) ELSE it[s \ {Max(s)}]]
  <2>1. PICK f : IsWalk(Min(S), S, f)
    BY WalkExists
  <2>2. f = [s \in SUBSET S |->
              IF s = {} THEN Min(S)
              ELSE IF Max(s) - f[s \ {Max(s)}] >= QuotaWindow THEN Max(s) ELSE f[s \ {Max(s)}]]
    BY <2>1, Zenon DEF IsWalk, WalkStep
  <2>3. QED
    BY <2>2
<1> HIDE DEF it
<1>3. IsWalk(Min(S), S, it)
  BY <1>2, Zenon DEF IsWalk, WalkStep
<1>4. QED
  BY <1>1, <1>3

LEMMA MinIs ==
  ASSUME NEW S, S \subseteq Nat, S # {}
  PROVE  Min(S) \in S /\ \A t \in S : Min(S) <= t
<1>1. PICK x \in S : \A y \in S : ~(y < x)
  BY Least
<1>2. \E m \in S : \A y \in S : m <= y
  BY <1>1
<1>3. QED
  BY <1>2 DEF Min

\* Walking the stamps of an upper part of S whose oldest opens a window: the anchor
\* after each is the last window's start so far.
LEMMA AnchorIsLast ==
  ASSUME NEW S, S \subseteq Nat, NEW b \in Nat, \A t \in S : t <= b,
         NEW W, Windows(W, S), NEW K, K \subseteq S, K # {}, Min(K) \in W,
         \A t \in S, k \in K : t >= k => t \in K
  PROVE  Anchor(K) \in W /\ \A w \in W : w <= Anchor(K)
<1>0. QuotaWindow \in Nat
  BY UsageAssumption DEF QuotaWindow
<1>1. K \subseteq Nat /\ \A t \in K : t <= b
  OBVIOUS
<1>2. PICK f : IsWalk(Min(K), K, f) /\ Anchor(K) = f[K]
  BY <1>1, AnchorIs
<1>3. PICK m \in Nat : m = Min(K) /\ m \in K /\ \A t \in K : m <= t
  BY <1>1, MinIs
<1>4. \A s \in SUBSET K : f[s] = WalkStep(m, f, s)
  BY <1>2, <1>3 DEF IsWalk
<1>5. W \subseteq S /\ W \subseteq Nat /\ \A t \in S : t \in W <=> \A u \in W : u < t => t - u >= QuotaWindow
  BY DEF Windows
<1> DEFINE B(n) == {t \in K : t < n}
           Reached(n) == IF B(n) = {} THEN f[B(n)] = m
                         ELSE f[B(n)] \in W /\ f[B(n)] < n /\ \A w \in W : w < n => w <= f[B(n)]
           N == {n \in Nat : Reached(n)}
<1>6. 0 \in N
  <2>1. B(0) = {}
    <3>1. \A t \in Nat : ~(t < 0)
      OBVIOUS
    <3>2. QED
      BY <1>1, <3>1
  <2>2. f[{}] = m
    BY <1>4 DEF WalkStep
  <2>3. QED
    BY <2>1, <2>2
<1>7. ASSUME NEW n \in Nat, n \in N PROVE n + 1 \in N
  <2>1. Reached(n)
    BY <1>7
  <2>2. \A t \in Nat : t < n + 1 <=> t < n \/ t = n
    OBVIOUS
  <2>3. CASE n \notin K
    <3>1. B(n + 1) = B(n)
      BY <1>1, <2>2, <2>3
    <3>2. B(n) # {} => n \notin W
      <4> SUFFICES ASSUME NEW k \in B(n), n \in W PROVE FALSE
        OBVIOUS
      <4>1. n \in S /\ k \in K /\ n >= k
        BY <1>1, <1>5
      <4>2. QED
        BY <2>3, <4>1
    <3>3. Reached(n + 1)
      <4>1. CASE B(n) = {}
        BY <2>1, <3>1, <4>1
      <4>2. CASE B(n) # {}
        <5>1. PICK a \in Nat : a = f[B(n)] /\ a \in W /\ a < n /\ \A w \in W : w < n => w <= a
          BY <1>5, <2>1, <4>2
        <5>2. a < n + 1 /\ \A w \in W : w < n + 1 => w <= a
          BY <1>5, <2>2, <3>2, <4>2, <5>1
        <5> HIDE DEF B
        <5>3. QED
          BY <3>1, <4>2, <5>1, <5>2
      <4>3. QED
        BY <4>1, <4>2
    <3>4. QED
      BY <3>3
  <2>4. CASE n \in K
    <3>1. B(n + 1) = B(n) \cup {n} /\ n \notin B(n) /\ B(n + 1) \in SUBSET K /\ B(n) \in SUBSET K
      <4>1. B(n + 1) = B(n) \cup {n}
        BY <1>1, <2>2, <2>4
      <4>2. n \notin B(n)
        OBVIOUS
      <4>3. QED
        BY <4>1, <4>2
    <3>2. Max(B(n + 1)) = n
      <4>1. /\ B(n + 1) \subseteq Nat /\ B(n + 1) # {} /\ (\A t \in B(n + 1) : t <= n)
            /\ n \in B(n + 1)
        <5>1. \A t \in B(n) : t \in Nat /\ t <= n
          BY <1>1
        <5> HIDE DEF B
        <5>2. QED
          BY <1>1, <3>1, <5>1
      <4>2. PICK X : X = B(n + 1)
        OBVIOUS
      <4>3. Max(X) \in X /\ \A t \in X : t <= Max(X)
        <5> HIDE DEF B
        <5>1. QED
          BY <4>1, <4>2, MaxIs
      <4>4. Max(X) \in Nat /\ Max(X) <= n /\ n <= Max(X)
        BY <4>1, <4>2, <4>3
      <4>5. QED
        BY <4>2, <4>4
    <3>3. B(n + 1) \ {n} = B(n) /\ B(n + 1) # {}
      BY <3>1
    <3> HIDE DEF B
    <3>4. f[B(n + 1)] = IF n - f[B(n)] >= QuotaWindow THEN n ELSE f[B(n)]
      BY <1>4, <3>1, <3>2, <3>3 DEF WalkStep
    <3>5. CASE B(n) = {}
      <4>1. m = n
        <5>1. m \in B(n + 1)
          <6>1. m < n + 1
            BY <1>3, <2>4
          <6>2. QED
            BY <1>3, <6>1 DEF B
        <5>2. QED
          BY <3>1, <3>5, <5>1
      <4>2. f[B(n)] = n
        BY <2>1, <3>5, <4>1
      <4>3. f[B(n + 1)] = n
        BY <3>4, <4>2
      <4>4. n \in W
        BY <1>3, <4>1
      <4>5. \A w \in W : w < n + 1 => w <= n
        BY <1>5
      <4>6. QED
        BY <3>3, <4>3, <4>4, <4>5
    <3>6. CASE B(n) # {}
      <4>1. PICK a \in Nat : a = f[B(n)] /\ a \in W /\ a < n /\ \A w \in W : w < n => w <= a
        BY <1>5, <2>1, <3>6
      <4>2. n \in S
        BY <2>4
      <4>3. CASE n - a >= QuotaWindow
        <5>1. \A u \in W : u < n => n - u >= QuotaWindow
          BY <1>0, <1>5, <4>1, <4>3
        <5>2. n \in W
          BY <1>5, <4>2, <5>1
        <5>3. f[B(n + 1)] = n
          BY <3>4, <4>1, <4>3
        <5>4. \A w \in W : w < n + 1 => w <= n
          BY <1>5
        <5>5. QED
          BY <3>3, <5>2, <5>3, <5>4
      <4>4. CASE ~(n - a >= QuotaWindow)
        <5>1. n \notin W
          BY <1>5, <4>1, <4>2, <4>4
        <5>2. f[B(n + 1)] = a
          BY <3>4, <4>1, <4>4
        <5>3. a < n + 1 /\ \A w \in W : w < n + 1 => w <= a
          BY <1>5, <2>2, <4>1, <5>1
        <5>4. QED
          BY <3>3, <4>1, <5>2, <5>3
      <4>5. QED
        BY <4>3, <4>4
    <3>7. QED
      BY <3>5, <3>6
  <2>5. QED
    BY <2>3, <2>4
<1>8. Nat \subseteq N
  <2> HIDE DEF N
  <2>1. QED
    BY <1>6, <1>7, Inductive
<1>9. Reached(b + 1)
  <2>1. b + 1 \in N
    BY <1>8
  <2>2. QED
    BY <2>1
<1>10. B(b + 1) = K
  <2>1. \A t \in Nat : t <= b => t < b + 1
    OBVIOUS
  <2>2. QED
    BY <1>1, <2>1
<1>11. \A w \in W : w < b + 1
  BY <1>5
<1> HIDE DEF B
<1>12. QED
  BY <1>2, <1>9, <1>10, <1>11

\* For windows of any length, any lookback and any number of events: while the clock
\* goes forward, and the oldest stamp kept opened a window, the anchor found among the
\* stamps kept is the start of the last window of all events ever seen (aggregator/mod.rs:
\* push, snapshot, current_window_anchor).
THEOREM AnchorStaysRight == UsageSpec => []AnchorOpensWindow
<1>1. UsageTypes /\ TimesInv => AnchorOpensWindow
  <2> DEFINE S == {log[i].ts : i \in Usages}
             K == Kept(clock)
             W == WindowStarts(S)
  <2> SUFFICES ASSUME UsageTypes, TimesInv, ~wentBack, K # {}, Min(K) \in W PROVE Anchor(K) = Max(W)
    BY DEF AnchorOpensWindow
  <2>1. clock \in Nat /\ Lookback \in Nat /\ \A i \in 1 .. Len(log) : log[i].ts \in Nat
    BY UsageAssumption, EventStamp DEF UsageTypes
  <2>2. \A t : t \in S <=> \E i \in 1 .. Len(log) : log[i].usage /\ log[i].ts = t
    BY UsagesAre
  <2>3. S \subseteq Nat /\ \A t \in S : t <= clock
    <3>1. \A i \in 1 .. Len(log) : log[i].usage => log[i].ts \in Nat /\ log[i].ts <= clock
      BY <2>1 DEF TimesInv
    <3> HIDE DEF S
    <3>2. QED
      BY <2>2, <3>1
  <2>4. \A t : t \in K <=> t \in times /\ t >= clock - Lookback /\ t <= clock
    BY DEF Kept
  <2>5. K \subseteq S
    BY <2>2, <2>4 DEF TimesInv
  <2>6. \A t \in S : t >= clock - Lookback => t \in K
    <3>1. \A i \in 1 .. Len(log) : log[i].usage /\ log[i].ts >= clock - Lookback => log[i].ts \in times
      BY DEF TimesInv
    <3> HIDE DEF S, K
    <3>2. ASSUME NEW t \in S, t >= clock - Lookback PROVE t \in K
      <4>1. PICK i \in 1 .. Len(log) : log[i].usage /\ log[i].ts = t
        BY <2>2
      <4>2. t \in times /\ t <= clock
        BY <2>3, <3>1, <3>2, <4>1
      <4>3. QED
        BY <2>4, <3>2, <4>2
    <3>3. QED
      BY <3>2
  <2>7. \A t \in S, k \in K : t >= k => t \in K
    <3> SUFFICES ASSUME NEW t \in S, NEW k \in K, t >= k PROVE t \in K
      OBVIOUS
    <3>1. t \in Nat /\ k \in Nat /\ k >= clock - Lookback
      BY <2>3, <2>4, <2>5
    <3>2. t >= clock - Lookback
      BY <2>1, <3>1
    <3>3. QED
      BY <2>6, <3>2
  <2> HIDE DEF S, K
  <2>8. Windows(W, S)
    BY <2>1, <2>3, WindowStartsAre
  <2> HIDE DEF W
  <2>9. Anchor(K) \in W /\ \A w \in W : w <= Anchor(K)
    BY <2>1, <2>3, <2>5, <2>7, <2>8, AnchorIsLast
  <2>10. W \subseteq Nat /\ W # {}
    BY <2>3, <2>8, <2>9 DEF Windows
  <2>11. \A w \in W : w <= clock
    BY <2>3, <2>8 DEF Windows
  <2>12. Max(W) \in W /\ \A w \in W : w <= Max(W)
    BY <2>1, <2>10, <2>11, MaxIs
  <2>13. Anchor(K) \in Nat /\ Max(W) \in Nat /\ Anchor(K) <= Max(W) /\ Max(W) <= Anchor(K)
    BY <2>9, <2>10, <2>12
  <2>14. QED
    BY <2>13
<1>2. QED
  BY <1>1, UsageTypesStart, UsageTypesStep, TimesStart, TimesStep, PTL DEF UsageSpec

-------------------------------------------------------------------------------
(* The watchers: each line once *)

Cell == Nat \X {1, 2}

WatchersTypes ==
  /\ kind \in {"claude", "codex", "antigravity"} /\ written \in Nat /\ limits \in Nat
  /\ file \in [File -> Seq(Cell)] /\ offsets \in [File -> Nat \cup {Unknown}]
  /\ sent \in Seq(Nat) /\ todo \in Seq(File)

\* A newline ends the line at this place.
IsEnd(c, k) == k \in 1 .. Len(c) /\ c[k][2] = 2

\* A file that was never cut: each newline follows its text, each text is followed by
\* its newline, and the lines are in the order in which they were written.
Shape(c) ==
  /\ \A k \in 1 .. Len(c) : c[k][2] = 2 => k > 1 /\ c[k - 1] = Text(c[k][1])
  /\ \A k \in 1 .. Len(c) : c[k][2] = 1 /\ k # Len(c) => c[k + 1] = Newline(c[k][1])
  /\ \A k, h \in 1 .. Len(c) : k < h /\ c[k][2] = 2 => c[k][1] < c[h][1]

\* The offset is at the end of a line.
AtEnd(c, o) == o \in {-1, 0} \/ IsEnd(c, o)

LEMMA CellIsPair ==
  ASSUME NEW c \in Seq(Cell), NEW k \in 1 .. Len(c)
  PROVE  c[k] = <<c[k][1], c[k][2]>> /\ c[k][1] \in Nat /\ c[k][2] \in {1, 2}
<1>1. c[k] \in Cell
  BY ElementOfSeq
<1>2. QED
  BY <1>1 DEF Cell

LEMMA LengthIs == ASSUME NEW S, NEW c \in Seq(S) PROVE Len(c) \in Nat /\ DOMAIN c = 1 .. Len(c)
  BY LenProperties

-------------------------------------------------------------------------------
(* What a fold that appends yields *)

GatherStep(c, f, s) == IF s = {} THEN <<>> ELSE Append(f[s \ {Max(s)}], c[Max(s)][1])
IsGather(c, S, f) == f = [s \in SUBSET S |-> GatherStep(c, f, s)]

LEMMA GatherExists ==
  ASSUME NEW c, NEW S, S \subseteq Nat, NEW b \in Nat, \A t \in S : t <= b
  PROVE  \E f : IsGather(c, S, f)
<1>1. IsFiniteSet(S)
  BY FS_BoundedSetOfNaturals
<1> DEFINE D(n) == {s \in SUBSET S : Cardinality(s) <= n}
           N == {n \in Nat : \E f : f = [s \in D(n) |-> GatherStep(c, f, s)]}
<1>2. \A s \in SUBSET S : IsFiniteSet(s) /\ Cardinality(s) \in Nat
  BY <1>1, FS_Subset, FS_CardinalityType
<1>3. 0 \in N
  <2> DEFINE f == [s \in D(0) |-> <<>>]
  <2>1. \A s \in D(0) : s = {}
    BY <1>2, FS_EmptySet
  <2>2. f = [s \in D(0) |-> GatherStep(c, f, s)]
    BY <2>1 DEF GatherStep
  <2>3. QED
    BY <2>2
<1>4. ASSUME NEW n \in Nat, n \in N PROVE n + 1 \in N
  <2>1. PICK f : f = [s \in D(n) |-> GatherStep(c, f, s)]
    BY <1>4
  <2> DEFINE g == [s \in D(n + 1) |-> GatherStep(c, f, s)]
  <2>2. D(n) \subseteq D(n + 1)
    BY <1>2
  <2>3. \A s \in D(n) : g[s] = f[s]
    BY <2>1, <2>2
  <2>4. ASSUME NEW s \in D(n + 1) PROVE g[s] = GatherStep(c, g, s)
    <3>1. CASE s = {}
      BY <3>1 DEF GatherStep
    <3>2. CASE s # {}
      <4>1. PICK x \in s : x = Max(s)
        <5>1. s \subseteq Nat /\ \A t \in s : t <= b
          OBVIOUS
        <5>2. Max(s) \in s
          BY <3>2, <5>1, MaxIs
        <5>3. QED
          BY <5>2
      <4>2. s \ {x} \in D(n)
        <5>1. Cardinality(s \ {x}) = Cardinality(s) - 1
          BY <1>2, FS_RemoveElement
        <5>2. QED
          BY <1>2, <5>1
      <4>3. f[s \ {x}] = g[s \ {x}]
        BY <2>3, <4>2
      <4>4. GatherStep(c, f, s) = GatherStep(c, g, s)
        <5> HIDE DEF g
        <5>1. QED
          BY <4>1, <4>3 DEF GatherStep
      <4>5. QED
        BY <4>4
    <3>3. QED
      BY <3>1, <3>2
  <2>5. g = [s \in D(n + 1) |-> GatherStep(c, g, s)]
    BY <2>4
  <2> HIDE DEF g
  <2>6. QED
    BY <2>5
<1>5. Nat \subseteq N
  <2> HIDE DEF N
  <2>1. QED
    BY <1>3, <1>4, Inductive
<1>6. Cardinality(S) \in Nat /\ D(Cardinality(S)) = SUBSET S
  BY <1>1, <1>2, FS_Subset
<1>7. PICK f : f = [s \in D(Cardinality(S)) |-> GatherStep(c, f, s)]
  BY <1>5, <1>6
<1>8. IsGather(c, S, f)
  <2> HIDE DEF D
  <2>1. QED
    BY <1>6, <1>7 DEF IsGather
<1>9. QED
  BY <1>8

LEMMA LinesAtIs ==
  ASSUME NEW f, NEW S, S \subseteq Nat, NEW b \in Nat, \A t \in S : t <= b
  PROVE  \E g : IsGather(file[f], S, g) /\ LinesAt(f, S) = g[S]
<1> DEFINE it == CHOOSE g : g = [s \in SUBSET S |->
                    IF s = {} THEN <<>> ELSE Append(g[s \ {Max(s)}], file[f][Max(s)][1])]
<1>1. LinesAt(f, S) = it[S]
  BY DEF LinesAt, MapThenFoldSet
<1>2. it = [s \in SUBSET S |-> IF s = {} THEN <<>> ELSE Append(it[s \ {Max(s)}], file[f][Max(s)][1])]
  <2>1. PICK g : IsGather(file[f], S, g)
    BY GatherExists
  <2>2. g = [s \in SUBSET S |-> IF s = {} THEN <<>> ELSE Append(g[s \ {Max(s)}], file[f][Max(s)][1])]
    BY <2>1, Zenon DEF IsGather, GatherStep
  <2>3. QED
    BY <2>2
<1> HIDE DEF it
<1>3. IsGather(file[f], S, it)
  BY <1>2, Zenon DEF IsGather, GatherStep
<1>4. QED
  BY <1>1, <1>3

\* The lines gathered at the places S of c: one for each place, in their order.
Gathered(new, c, S) ==
  /\ new \in Seq(Nat)
  /\ \A k \in S : \E a \in 1 .. Len(new) : new[a] = c[k][1]
  /\ \A a \in 1 .. Len(new) : \E k \in S : new[a] = c[k][1]
  /\ \A a, b \in 1 .. Len(new) : a < b => \E h, k \in S : h < k /\ new[a] = c[h][1] /\ new[b] = c[k][1]

LEMMA GatheredOne ==
  ASSUME NEW new, NEW c, NEW S, S \subseteq Nat, NEW n \in Nat, \A k \in S : k < n,
         Gathered(new, c, S), c[n][1] \in Nat
  PROVE  Gathered(Append(new, c[n][1]), c, S \cup {n})
<1>1. PICK i \in Nat : i = c[n][1]
  OBVIOUS
<1>2. PICK more : more = Append(new, i)
  OBVIOUS
<1>3. new \in Seq(Nat)
  BY DEF Gathered
<1>4. /\ more \in Seq(Nat) /\ Len(new) \in Nat /\ Len(more) = Len(new) + 1 /\ more[Len(new) + 1] = i
      /\ \A a \in 1 .. Len(new) : more[a] = new[a]
  BY <1>2, <1>3, AppendProperties, LenProperties
<1>5. \A a \in 1 .. Len(more) : a \in 1 .. Len(new) \/ (a = Len(new) + 1 /\ more[a] = i)
  BY <1>4
<1>6. ASSUME NEW k \in S \cup {n} PROVE \E a \in 1 .. Len(more) : more[a] = c[k][1]
  <2>1. CASE k = n
    <3>1. Len(new) + 1 \in 1 .. Len(more)
      BY <1>4
    <3>2. QED
      BY <1>1, <1>4, <2>1, <3>1
  <2>2. CASE k \in S
    <3>1. PICK a \in 1 .. Len(new) : new[a] = c[k][1]
      BY <2>2 DEF Gathered
    <3>2. a \in 1 .. Len(more) /\ more[a] = new[a]
      BY <1>4
    <3>3. QED
      BY <3>1, <3>2
  <2>3. QED
    BY <2>1, <2>2
<1>7. ASSUME NEW a \in 1 .. Len(more) PROVE \E k \in S \cup {n} : more[a] = c[k][1]
  <2>1. CASE a \in 1 .. Len(new)
    <3>1. PICK k \in S : new[a] = c[k][1]
      BY <2>1 DEF Gathered
    <3>2. more[a] = new[a] /\ k \in S \cup {n}
      BY <1>4, <2>1
    <3>3. QED
      BY <3>1, <3>2
  <2>2. CASE more[a] = i
    <3>1. n \in S \cup {n}
      OBVIOUS
    <3>2. QED
      BY <1>1, <2>2, <3>1
  <2>3. QED
    BY <1>5, <2>1, <2>2
<1>8. ASSUME NEW a \in 1 .. Len(more), NEW b \in 1 .. Len(more), a < b
      PROVE  \E h, k \in S \cup {n} : h < k /\ more[a] = c[h][1] /\ more[b] = c[k][1]
  <2>1. a \in 1 .. Len(new) /\ more[a] = new[a]
    BY <1>4, <1>8
  <2>2. CASE b \in 1 .. Len(new)
    <3>1. more[b] = new[b]
      BY <1>4, <2>2
    <3>2. PICK h \in S, k \in S : h < k /\ new[a] = c[h][1] /\ new[b] = c[k][1]
      BY <1>8, <2>1, <2>2 DEF Gathered
    <3>3. QED
      BY <2>1, <3>1, <3>2
  <2>3. CASE more[b] = i
    <3>1. PICK h \in S : new[a] = c[h][1]
      BY <2>1 DEF Gathered
    <3>2. h < n /\ n \in S \cup {n} /\ h \in S \cup {n}
      OBVIOUS
    <3>3. QED
      BY <1>1, <2>1, <2>3, <3>1, <3>2
  <2>4. QED
    BY <1>5, <2>2, <2>3
<1>9. \A k \in S \cup {n} : \E a \in 1 .. Len(more) : more[a] = c[k][1]
  BY <1>6
<1>10. \A a \in 1 .. Len(more) : \E k \in S \cup {n} : more[a] = c[k][1]
  BY <1>7
<1>11. \A a, b \in 1 .. Len(more) : a < b => \E h, k \in S \cup {n} : h < k /\ more[a] = c[h][1] /\ more[b] = c[k][1]
  BY <1>8
<1>12. Gathered(more, c, S \cup {n})
  BY <1>4, <1>9, <1>10, <1>11, Zenon DEF Gathered
<1>13. QED
  BY <1>1, <1>2, <1>12

LEMMA LinesAreGathered ==
  ASSUME WatchersTypes, NEW f \in File, NEW S, S \subseteq 1 .. Len(file[f])
  PROVE  Gathered(LinesAt(f, S), file[f], S)
<1>1. PICK c \in Seq(Cell) : c = file[f]
  BY DEF WatchersTypes
<1>2. PICK b \in Nat : b = Len(c)
  BY LenProperties
<1>3. S \subseteq Nat /\ (\A t \in S : t <= b) /\ \A k \in S : c[k][1] \in Nat
  <2>1. S \subseteq 1 .. b
    BY <1>1, <1>2
  <2>2. \A k \in 1 .. Len(c) : c[k][1] \in Nat
    BY CellIsPair, Zenon
  <2>3. \A k \in S : c[k][1] \in Nat
    BY <1>2, <2>1, <2>2, Zenon
  <2>4. S \subseteq Nat /\ \A t \in S : t <= b
    BY <2>1
  <2>5. QED
    BY <2>3, <2>4
<1>4. PICK g : IsGather(c, S, g) /\ LinesAt(f, S) = g[S]
  BY <1>1, <1>3, LinesAtIs
<1>5. \A s \in SUBSET S : g[s] = GatherStep(c, g, s)
  BY <1>4 DEF IsGather
<1> DEFINE B(n) == {k \in S : k < n}
           N == {n \in Nat : Gathered(g[B(n)], c, B(n))}
<1>6. 0 \in N
  <2>1. B(0) = {}
    <3>1. \A t \in Nat : ~(t < 0)
      OBVIOUS
    <3>2. QED
      BY <1>3, <3>1
  <2>2. g[{}] = <<>>
    BY <1>5 DEF GatherStep
  <2>3. Gathered(<<>>, c, {})
    BY EmptySeq DEF Gathered
  <2>4. QED
    BY <2>1, <2>2, <2>3
<1>7. ASSUME NEW n \in Nat, n \in N PROVE n + 1 \in N
  <2>1. Gathered(g[B(n)], c, B(n))
    BY <1>7
  <2>2. \A t \in Nat : t < n + 1 <=> t < n \/ t = n
    OBVIOUS
  <2>3. CASE n \notin S
    <3>1. B(n + 1) = B(n)
      BY <1>3, <2>2, <2>3
    <3> HIDE DEF B
    <3>2. Gathered(g[B(n + 1)], c, B(n + 1))
      BY <2>1, <3>1
    <3>3. QED
      BY <3>2
  <2>4. CASE n \in S
    <3>1. B(n + 1) = B(n) \cup {n}
      BY <1>3, <2>2, <2>4
    <3>2. n \notin B(n) /\ B(n) \subseteq Nat /\ (\A k \in B(n) : k < n) /\ B(n + 1) \in SUBSET S
      <4>1. n \notin B(n)
        OBVIOUS
      <4>2. B(n) \subseteq Nat /\ \A k \in B(n) : k < n
        BY <1>3
      <4>3. B(n + 1) \in SUBSET S
        OBVIOUS
      <4>4. QED
        BY <4>1, <4>2, <4>3
    <3> HIDE DEF B
    <3>3. B(n + 1) \ {n} = B(n) /\ B(n + 1) # {}
      BY <3>1, <3>2
    <3>4. Max(B(n + 1)) = n
      <4>1. PICK X : X = B(n + 1)
        OBVIOUS
      <4>2. X \subseteq Nat /\ n \in X /\ X # {} /\ \A t \in X : t <= n
        BY <3>1, <3>2, <4>1
      <4>3. Max(X) \in X /\ \A t \in X : t <= Max(X)
        BY <4>2, MaxIs
      <4>4. Max(X) \in Nat /\ Max(X) <= n /\ n <= Max(X)
        BY <4>2, <4>3
      <4>5. QED
        BY <4>1, <4>4
    <3>5. g[B(n + 1)] = Append(g[B(n)], c[n][1])
      BY <1>5, <3>2, <3>3, <3>4 DEF GatherStep
    <3>6. Gathered(Append(g[B(n)], c[n][1]), c, B(n) \cup {n})
      BY <1>3, <2>1, <2>4, <3>2, GatheredOne
    <3>7. Gathered(g[B(n + 1)], c, B(n + 1))
      BY <3>1, <3>5, <3>6
    <3>8. QED
      BY <3>7
  <2>5. QED
    BY <2>3, <2>4
<1>8. Nat \subseteq N
  <2> HIDE DEF N
  <2>1. QED
    BY <1>6, <1>7, Inductive
<1>9. Gathered(g[B(b + 1)], c, B(b + 1))
  <2>1. b + 1 \in N
    BY <1>8
  <2>2. QED
    BY <2>1
<1>10. B(b + 1) = S
  <2>1. \A t \in Nat : t <= b => t < b + 1
    OBVIOUS
  <2>2. QED
    BY <1>3, <2>1
<1> HIDE DEF B
<1>11. QED
  BY <1>1, <1>4, <1>9, <1>10

\* A file with the cells c, read up to o, when s was sent: of the lines u that are
\* passed on, just those read were sent, in order; half a line was neither sent nor
\* found by the poll that found d.
InStep(c, o, s, u, d) ==
  /\ Shape(c) /\ AtEnd(c, o)
  /\ \A k \in 1 .. Len(c) : IsEnd(c, k) /\ Contains(s, c[k][1]) => k <= o
  /\ \A k \in 1 .. Len(c) : IsEnd(c, k) /\ k <= o /\ c[k][1] \in u => Contains(s, c[k][1])
  /\ \A k \in 1 .. Len(c) : c[k][2] = 1 /\ k = Len(c) => ~Contains(s, c[k][1]) /\ c[k][1] \notin d
  /\ \A a, b \in 1 .. Len(s), h, k \in 1 .. Len(c) :
       a < b /\ IsEnd(c, h) /\ IsEnd(c, k) /\ s[a] = c[h][1] /\ s[b] = c[k][1] => h < k

LEMMA TwoParts ==
  ASSUME NEW T, NEW s \in Seq(T), NEW new \in Seq(T), NEW both, both = s \o new
  PROVE  /\ both \in Seq(T) /\ Len(s) \in Nat /\ Len(new) \in Nat /\ Len(both) = Len(s) + Len(new)
         /\ \A a \in 1 .. Len(s) : a \in 1 .. Len(both) /\ both[a] = s[a]
         /\ \A a \in 1 .. Len(new) : Len(s) + a \in 1 .. Len(both) /\ both[Len(s) + a] = new[a]
         /\ \A a \in 1 .. Len(both) :
              \/ a \in 1 .. Len(s) /\ both[a] = s[a]
              \/ a > Len(s) /\ a - Len(s) \in 1 .. Len(new) /\ both[a] = new[a - Len(s)]
<1>1. /\ both \in Seq(T) /\ Len(both) = Len(s) + Len(new)
      /\ \A a \in 1 .. Len(s) + Len(new) : both[a] = IF a <= Len(s) THEN s[a] ELSE new[a - Len(s)]
  BY ConcatProperties
<1>2. Len(s) \in Nat /\ Len(new) \in Nat
  BY LenProperties
<1>3. PICK m \in Nat, n \in Nat : m = Len(s) /\ n = Len(new)
  BY <1>2
<1>4. \A a \in 1 .. m : a \in 1 .. m + n /\ a <= m
  OBVIOUS
<1>5. \A a \in 1 .. n : m + a \in 1 .. m + n /\ ~(m + a <= m) /\ m + a - m = a
  OBVIOUS
<1>6. \A a \in 1 .. m + n : \/ a \in 1 .. m /\ a <= m
                            \/ a > m /\ a - m \in 1 .. n /\ ~(a <= m)
  OBVIOUS
<1>7. \A a \in 1 .. Len(s) : a \in 1 .. Len(both) /\ both[a] = s[a]
  BY <1>1, <1>3, <1>4
<1>8. \A a \in 1 .. Len(new) : Len(s) + a \in 1 .. Len(both) /\ both[Len(s) + a] = new[a]
  BY <1>1, <1>3, <1>5
<1>9. \A a \in 1 .. Len(both) :
        \/ a \in 1 .. Len(s) /\ both[a] = s[a]
        \/ a > Len(s) /\ a - Len(s) \in 1 .. Len(new) /\ both[a] = new[a - Len(s)]
  BY <1>1, <1>3, <1>6
<1>10. QED
  BY <1>1, <1>2, <1>7, <1>8, <1>9

LEMMA ContainedInEither ==
  ASSUME NEW T, NEW s \in Seq(T), NEW new \in Seq(T), NEW both, both = s \o new, NEW i
  PROVE  Contains(both, i) <=> Contains(s, i) \/ Contains(new, i)
<1>1. ASSUME Contains(both, i) PROVE Contains(s, i) \/ Contains(new, i)
  BY <1>1, TwoParts DEF Contains
<1>2. ASSUME Contains(s, i) PROVE Contains(both, i)
  BY <1>2, TwoParts DEF Contains
<1>3. ASSUME Contains(new, i) PROVE Contains(both, i)
  <2>1. PICK a \in 1 .. Len(new) : new[a] = i
    BY <1>3 DEF Contains
  <2>2. Len(s) + a \in 1 .. Len(both) /\ both[Len(s) + a] = new[a]
    BY TwoParts
  <2>3. QED
    BY <2>1, <2>2 DEF Contains
<1>4. QED
  BY <1>1, <1>2, <1>3

\* The numbers of an undamaged file: the line that a newline ends has a lesser number
\* than all that comes later.
LEMMA EndsAreUnique ==
  ASSUME NEW c \in Seq(Cell), Shape(c), NEW h \in 1 .. Len(c), NEW k \in 1 .. Len(c),
         IsEnd(c, h), c[h][1] = c[k][1], IsEnd(c, k) \/ k = Len(c)
  PROVE  h = k
<1>1. c[h][1] \in Nat /\ c[k][1] \in Nat /\ Len(c) \in Nat
  BY CellIsPair, LenProperties
<1>2. CASE h < k
  BY <1>1, <1>2 DEF Shape, IsEnd
<1>3. CASE k < h
  <2>1. IsEnd(c, k)
    BY <1>1, <1>3
  <2>2. QED
    BY <1>1, <1>3, <2>1 DEF Shape, IsEnd
<1>4. QED
  BY <1>1, <1>2, <1>3

\* The file is read up to the end of a line.
LEMMA ReadFurther ==
  ASSUME NEW c \in Seq(Cell), NEW o \in Int, NEW s \in Seq(Nat), NEW u, NEW d, InStep(c, o, s, u, d),
         NEW S, NEW new, Gathered(new, c, S), NEW p \in Nat, AtEnd(c, p), o <= p,
         \A k \in S : k \in 1 .. Len(c) /\ IsEnd(c, k) /\ k > o /\ k <= p,
         \A k \in 1 .. Len(c) : IsEnd(c, k) /\ k > o /\ k <= p /\ c[k][1] \in u => k \in S,
         NEW both, both = s \o new
  PROVE  InStep(c, p, both, u, d)
<1>1. new \in Seq(Nat)
  BY DEF Gathered
<1>2. /\ Len(s) \in Nat /\ Len(new) \in Nat
      /\ \A a \in 1 .. Len(both) :
           \/ a \in 1 .. Len(s) /\ both[a] = s[a]
           \/ a > Len(s) /\ a - Len(s) \in 1 .. Len(new) /\ both[a] = new[a - Len(s)]
  BY <1>1, TwoParts
<1>3. \A i : Contains(both, i) <=> Contains(s, i) \/ Contains(new, i)
  BY <1>1, ContainedInEither
<1>4. Shape(c)
  BY DEF InStep
<1>5. Len(c) \in Nat
  BY LenProperties
<1>6. ASSUME NEW k \in 1 .. Len(c), IsEnd(c, k), k <= p, c[k][1] \in u PROVE Contains(both, c[k][1])
  <2>1. CASE k <= o
    BY <1>3, <1>6, <2>1 DEF InStep
  <2>2. CASE k > o
    <3>1. k \in S
      BY <1>6, <2>2
    <3>2. Contains(new, c[k][1])
      BY <3>1 DEF Gathered, Contains
    <3>3. QED
      BY <1>3, <3>2
  <2>3. QED
    BY <2>1, <2>2
<1>7. ASSUME NEW k \in 1 .. Len(c), c[k][2] = 1, k = Len(c) PROVE ~Contains(both, c[k][1]) /\ c[k][1] \notin d
  <2>1. ~Contains(s, c[k][1]) /\ c[k][1] \notin d
    BY <1>7 DEF InStep
  <2>2. ASSUME Contains(new, c[k][1]) PROVE FALSE
    <3>1. PICK a \in 1 .. Len(new) : new[a] = c[k][1]
      BY <2>2 DEF Contains
    <3>2. PICK h \in S : new[a] = c[h][1]
      BY <3>1 DEF Gathered
    <3>3. h \in 1 .. Len(c) /\ IsEnd(c, h) /\ c[h][1] = c[k][1]
      BY <3>1, <3>2
    <3>4. h = k
      BY <1>4, <1>7, <3>3, EndsAreUnique
    <3>5. QED
      BY <1>7, <3>3, <3>4 DEF IsEnd
  <2>3. QED
    BY <1>3, <2>1, <2>2
<1>8. ASSUME NEW a \in 1 .. Len(both), NEW b \in 1 .. Len(both), NEW h \in 1 .. Len(c), NEW k \in 1 .. Len(c),
             a < b, IsEnd(c, h), IsEnd(c, k), both[a] = c[h][1], both[b] = c[k][1]
      PROVE  h < k
  <2>1. CASE b \in 1 .. Len(s) /\ both[b] = s[b]
    <3>1. a \in 1 .. Len(s) /\ both[a] = s[a]
      BY <1>2, <1>8, <2>1
    <3>2. QED
      BY <1>8, <2>1, <3>1 DEF InStep
  <2>2. CASE b > Len(s) /\ b - Len(s) \in 1 .. Len(new) /\ both[b] = new[b - Len(s)]
    <3>1. CASE a \in 1 .. Len(s) /\ both[a] = s[a]
      <4>1. h <= o
        <5>1. Contains(s, c[h][1])
          BY <1>8, <3>1 DEF Contains
        <5>2. QED
          BY <1>8, <5>1 DEF InStep
      <4>2. PICK g \in S : both[b] = c[g][1]
        <5>1. \A e \in 1 .. Len(new) : \E g \in S : new[e] = c[g][1]
          BY DEF Gathered
        <5>2. QED
          BY <2>2, <5>1
      <4>3. g \in 1 .. Len(c) /\ IsEnd(c, g) /\ g > o /\ c[g][1] = c[k][1]
        BY <1>8, <4>2
      <4>4. g = k
        BY <1>4, <1>8, <4>3, EndsAreUnique
      <4>5. QED
        BY <4>1, <4>3, <4>4
    <3>2. CASE a > Len(s) /\ a - Len(s) \in 1 .. Len(new) /\ both[a] = new[a - Len(s)]
      <4>1. a - Len(s) < b - Len(s)
        BY <1>2, <1>8
      <4>2. PICK f \in S, g \in S : f < g /\ both[a] = c[f][1] /\ both[b] = c[g][1]
        <5>1. \A e, m \in 1 .. Len(new) : e < m =>
                \E f, g \in S : f < g /\ new[e] = c[f][1] /\ new[m] = c[g][1]
          BY DEF Gathered
        <5>2. PICK e \in 1 .. Len(new), m \in 1 .. Len(new) : e = a - Len(s) /\ m = b - Len(s)
          BY <2>2, <3>2
        <5>3. e < m /\ both[a] = new[e] /\ both[b] = new[m]
          BY <2>2, <3>2, <4>1, <5>2
        <5>4. PICK f \in S, g \in S : f < g /\ new[e] = c[f][1] /\ new[m] = c[g][1]
          BY <5>1, <5>3
        <5>5. QED
          BY <5>3, <5>4
      <4>3. f \in 1 .. Len(c) /\ IsEnd(c, f) /\ g \in 1 .. Len(c) /\ IsEnd(c, g)
        BY <4>2
      <4>4. f = h
        BY <1>4, <1>8, <4>2, <4>3, EndsAreUnique
      <4>5. g = k
        BY <1>4, <1>8, <4>2, <4>3, EndsAreUnique
      <4>6. QED
        BY <4>2, <4>4, <4>5
    <3>3. QED
      BY <1>2, <3>1, <3>2
  <2>3. QED
    BY <1>2, <2>1, <2>2
<1>9. ASSUME NEW k \in 1 .. Len(c), IsEnd(c, k), Contains(both, c[k][1]) PROVE k <= p
  <2>1. CASE Contains(s, c[k][1])
    <3>1. k <= o
      BY <1>9, <2>1 DEF InStep
    <3>2. QED
      BY <3>1
  <2>2. CASE Contains(new, c[k][1])
    <3>1. PICK a \in 1 .. Len(new) : new[a] = c[k][1]
      BY <2>2 DEF Contains
    <3>2. PICK h \in S : new[a] = c[h][1]
      BY <3>1 DEF Gathered
    <3>3. h \in 1 .. Len(c) /\ IsEnd(c, h) /\ c[h][1] = c[k][1] /\ h <= p
      BY <3>1, <3>2
    <3>4. h = k
      BY <1>4, <1>9, <3>3, EndsAreUnique
    <3>5. QED
      BY <3>3, <3>4
  <2>3. QED
    BY <1>3, <1>9, <2>1, <2>2
<1>10. QED
  BY <1>4, <1>6, <1>7, <1>8, <1>9 DEF InStep

\* What is sent of other files changes nothing.
LEMMA OthersRead ==
  ASSUME NEW c, NEW o, NEW s \in Seq(Nat), NEW u, NEW d, InStep(c, o, s, u, d),
         NEW new \in Seq(Nat), \A a \in 1 .. Len(new), k \in 1 .. Len(c) : new[a] # c[k][1],
         NEW both, both = s \o new
  PROVE  InStep(c, o, both, u, d)
<1>1. \A a \in 1 .. Len(both), k \in 1 .. Len(c) : both[a] = c[k][1] => a \in 1 .. Len(s) /\ both[a] = s[a]
  <2>1. \A a \in 1 .. Len(both) :
          \/ a \in 1 .. Len(s) /\ both[a] = s[a]
          \/ a > Len(s) /\ a - Len(s) \in 1 .. Len(new) /\ both[a] = new[a - Len(s)]
    BY TwoParts
  <2>2. QED
    BY <2>1
<1>2. \A k \in 1 .. Len(c) : Contains(both, c[k][1]) <=> Contains(s, c[k][1])
  <2>1. \A k \in 1 .. Len(c) : ~Contains(new, c[k][1])
    BY DEF Contains
  <2>2. \A i : Contains(both, i) <=> Contains(s, i) \/ Contains(new, i)
    BY ContainedInEither
  <2>3. QED
    BY <2>1, <2>2
<1>3. \A k \in 1 .. Len(c) : IsEnd(c, k) /\ Contains(both, c[k][1]) => k <= o
  BY <1>2 DEF InStep
<1>4. \A k \in 1 .. Len(c) : IsEnd(c, k) /\ k <= o /\ c[k][1] \in u => Contains(both, c[k][1])
  BY <1>2 DEF InStep
<1>5. \A k \in 1 .. Len(c) : c[k][2] = 1 /\ k = Len(c) => ~Contains(both, c[k][1]) /\ c[k][1] \notin d
  BY <1>2 DEF InStep
<1>6. \A a, b \in 1 .. Len(both), h, k \in 1 .. Len(c) :
        a < b /\ IsEnd(c, h) /\ IsEnd(c, k) /\ both[a] = c[h][1] /\ both[b] = c[k][1] => h < k
  <2>1. \A a, b \in 1 .. Len(s), h, k \in 1 .. Len(c) :
          a < b /\ IsEnd(c, h) /\ IsEnd(c, k) /\ s[a] = c[h][1] /\ s[b] = c[k][1] => h < k
    BY DEF InStep
  <2>2. ASSUME NEW a \in 1 .. Len(both), NEW b \in 1 .. Len(both), NEW h \in 1 .. Len(c), NEW k \in 1 .. Len(c),
               a < b, IsEnd(c, h), IsEnd(c, k), both[a] = c[h][1], both[b] = c[k][1]
        PROVE  h < k
    <3>1. a \in 1 .. Len(s) /\ both[a] = s[a] /\ b \in 1 .. Len(s) /\ both[b] = s[b]
      BY <1>1, <2>2
    <3>2. s[a] = c[h][1] /\ s[b] = c[k][1]
      BY <2>2, <3>1
    <3>3. QED
      BY <2>1, <2>2, <3>1, <3>2
  <2>3. QED
    BY <2>2
<1>7. Shape(c) /\ AtEnd(c, o)
  BY DEF InStep
<1>8. QED
  BY <1>3, <1>4, <1>5, <1>6, <1>7 DEF InStep

\* Another poll may have found less or more, but no half line.
LEMMA OthersFound ==
  ASSUME NEW c, NEW o, NEW s, NEW u, NEW d, InStep(c, o, s, u, d), NEW e,
         \A k \in 1 .. Len(c) : c[k][2] = 1 /\ k = Len(c) => c[k][1] \notin e
  PROVE  InStep(c, o, s, u, e)
  BY DEF InStep

LEMMA OneMoreCell ==
  ASSUME NEW c \in Seq(Cell), NEW x \in Cell, NEW more, more = Append(c, x)
  PROVE  /\ more \in Seq(Cell) /\ Len(c) \in Nat /\ Len(more) = Len(c) + 1 /\ more[Len(c) + 1] = x
         /\ \A k \in 1 .. Len(c) : k \in 1 .. Len(more) /\ more[k] = c[k] /\ (IsEnd(more, k) <=> IsEnd(c, k))
         /\ \A k \in 1 .. Len(more) : k \in 1 .. Len(c) \/ k = Len(c) + 1
<1>1. more \in Seq(Cell) /\ Len(c) \in Nat /\ Len(more) = Len(c) + 1 /\ more[Len(c) + 1] = x
  BY AppendProperties, LenProperties
<1>2. \A k \in 1 .. Len(c) : k \in 1 .. Len(more) /\ more[k] = c[k]
  BY <1>1, AppendProperties
<1>3. \A k \in 1 .. Len(c) : IsEnd(more, k) <=> IsEnd(c, k)
  BY <1>2 DEF IsEnd
<1>4. \A k \in 1 .. Len(more) : k \in 1 .. Len(c) \/ k = Len(c) + 1
  BY <1>1
<1>5. QED
  BY <1>1, <1>2, <1>3, <1>4

\* The newline of a line whose text stood alone.
LEMMA HalfEnds ==
  ASSUME NEW c \in Seq(Cell), NEW o \in Int, NEW s, NEW u, NEW d, InStep(c, o, s, u, d),
         c # <<>>, c[Len(c)][2] = 1, NEW more, more = Append(c, Newline(c[Len(c)][1]))
  PROVE  InStep(more, o, s, u, d)
<1>1. PICK n \in Nat : n = Len(c)
  BY LenProperties
<1>2. n \in 1 .. n
  BY <1>1, EmptySeq
<1>3. PICK i \in Nat : i = c[n][1] /\ c[n] = <<i, 1>>
  BY <1>1, <1>2, CellIsPair
<1>4. PICK x \in Cell : x = <<i, 2>>
  BY DEF Cell
<1>5. more = Append(c, x)
  BY <1>1, <1>3, <1>4 DEF Newline
<1>6. /\ Len(more) = n + 1 /\ more[n + 1] = x
      /\ \A k \in 1 .. n : k \in 1 .. n + 1 /\ more[k] = c[k] /\ (IsEnd(more, k) <=> IsEnd(c, k))
      /\ \A k \in 1 .. n + 1 : k \in 1 .. n \/ k = n + 1
  <2>1. /\ more \in Seq(Cell) /\ Len(c) \in Nat /\ Len(more) = Len(c) + 1 /\ more[Len(c) + 1] = x
        /\ \A k \in 1 .. Len(c) : k \in 1 .. Len(more) /\ more[k] = c[k] /\ (IsEnd(more, k) <=> IsEnd(c, k))
        /\ \A k \in 1 .. Len(more) : k \in 1 .. Len(c) \/ k = Len(c) + 1
    BY <1>5, OneMoreCell, Zenon
  <2>2. QED
    BY <1>1, <2>1
<1>7. x[1] = i /\ x[2] = 2 /\ x = Newline(i) /\ c[n] = Text(i) /\ c[n][2] = 1
  BY <1>3, <1>4 DEF Newline, Text
<1>8. ~Contains(s, i) /\ Shape(c) /\ AtEnd(c, o)
  BY <1>1, <1>2, <1>3, <1>7 DEF InStep
<1>9. o <= n
  BY <1>1, <1>8 DEF AtEnd, IsEnd
<1>10. Shape(more)
  <2>1. ASSUME NEW k \in 1 .. n + 1, more[k][2] = 2 PROVE k > 1 /\ more[k - 1] = Text(more[k][1])
    <3>1. CASE k \in 1 .. n
      <4>1. k > 1 /\ c[k - 1] = Text(c[k][1]) /\ k - 1 \in 1 .. n
        BY <1>1, <1>6, <1>8, <2>1, <3>1 DEF Shape
      <4>2. QED
        BY <1>6, <3>1, <4>1
    <3>2. CASE k = n + 1
      <4>1. k > 1 /\ k - 1 = n
        BY <1>2, <3>2
      <4>2. QED
        BY <1>2, <1>6, <1>7, <3>2, <4>1
    <3>3. QED
      BY <1>6, <3>1, <3>2
  <2>2. ASSUME NEW k \in 1 .. n + 1, more[k][2] = 1, k # n + 1 PROVE more[k + 1] = Newline(more[k][1])
    <3>1. k \in 1 .. n /\ more[k] = c[k]
      BY <1>6, <2>2
    <3>2. CASE k = n
      BY <1>3, <1>6, <1>7, <3>1, <3>2
    <3>3. CASE k # n
      <4>1. c[k + 1] = Newline(c[k][1]) /\ k + 1 \in 1 .. n
        BY <1>1, <1>8, <2>2, <3>1, <3>3 DEF Shape
      <4>2. QED
        BY <1>6, <3>1, <4>1
    <3>4. QED
      BY <3>2, <3>3
  <2>3. ASSUME NEW k \in 1 .. n + 1, NEW h \in 1 .. n + 1, k < h, more[k][2] = 2 PROVE more[k][1] < more[h][1]
    <3>1. k \in 1 .. n /\ more[k] = c[k] /\ k # n
      BY <1>6, <1>7, <2>3
    <3>2. CASE h \in 1 .. n
      BY <1>1, <1>6, <1>8, <2>3, <3>1, <3>2 DEF Shape
    <3>3. CASE h = n + 1
      <4>1. c[k][1] < c[n][1]
        BY <1>1, <1>2, <1>8, <2>3, <3>1 DEF Shape
      <4>2. QED
        BY <1>3, <1>6, <1>7, <3>1, <3>3, <4>1
    <3>4. QED
      BY <1>6, <3>2, <3>3
  <2>4. QED
    BY <1>6, <2>1, <2>2, <2>3 DEF Shape
<1>11. AtEnd(more, o)
  BY <1>1, <1>6, <1>8 DEF AtEnd, IsEnd
<1>12. \A k \in 1 .. n + 1 : IsEnd(more, k) /\ Contains(s, more[k][1]) => k \in 1 .. n
  BY <1>6, <1>7, <1>8
<1>13. \A k \in 1 .. n + 1 : IsEnd(more, k) /\ Contains(s, more[k][1]) => k <= o
  BY <1>1, <1>6, <1>12 DEF InStep
<1>14. \A k \in 1 .. n + 1 : IsEnd(more, k) /\ k <= o /\ more[k][1] \in u => Contains(s, more[k][1])
  <2>1. \A k \in 1 .. n + 1 : k <= o => k \in 1 .. n
    BY <1>9
  <2>2. QED
    BY <1>1, <1>6, <2>1 DEF InStep
<1>15. \A k \in 1 .. n + 1 : more[k][2] = 1 /\ k = n + 1 => ~Contains(s, more[k][1]) /\ more[k][1] \notin d
  BY <1>6, <1>7
<1>16. ASSUME NEW a \in 1 .. Len(s), NEW b \in 1 .. Len(s), NEW h \in 1 .. n + 1, NEW k \in 1 .. n + 1,
              a < b, IsEnd(more, h), IsEnd(more, k), s[a] = more[h][1], s[b] = more[k][1]
       PROVE  h < k
  <2>1. Contains(s, more[h][1]) /\ Contains(s, more[k][1])
    BY <1>16 DEF Contains
  <2>2. h \in 1 .. n /\ k \in 1 .. n
    BY <1>12, <1>16, <2>1
  <2>3. QED
    BY <1>1, <1>6, <1>16, <2>2 DEF InStep
<1>17. QED
  BY <1>6, <1>10, <1>11, <1>13, <1>14, <1>15, <1>16 DEF InStep

\* The text of a new line.
LEMMA LineBegins ==
  ASSUME NEW c \in Seq(Cell), NEW o \in Int, NEW s, NEW u, NEW d, InStep(c, o, s, u, d),
         c # <<>> => c[Len(c)][2] = 2, NEW i \in Nat, ~Contains(s, i), i \notin d,
         \A k \in 1 .. Len(c) : c[k][1] < i, NEW more, more = Append(c, Text(i))
  PROVE  InStep(more, o, s, u, d)
<1>1. PICK n \in Nat : n = Len(c)
  BY LenProperties
<1>2. PICK x \in Cell : x = <<i, 1>>
  BY DEF Cell
<1>3. more = Append(c, x)
  BY <1>2 DEF Text
<1>4. /\ Len(more) = n + 1 /\ more[n + 1] = x
      /\ \A k \in 1 .. n : k \in 1 .. n + 1 /\ more[k] = c[k] /\ (IsEnd(more, k) <=> IsEnd(c, k))
      /\ \A k \in 1 .. n + 1 : k \in 1 .. n \/ k = n + 1
  <2>1. /\ more \in Seq(Cell) /\ Len(c) \in Nat /\ Len(more) = Len(c) + 1 /\ more[Len(c) + 1] = x
        /\ \A k \in 1 .. Len(c) : k \in 1 .. Len(more) /\ more[k] = c[k] /\ (IsEnd(more, k) <=> IsEnd(c, k))
        /\ \A k \in 1 .. Len(more) : k \in 1 .. Len(c) \/ k = Len(c) + 1
    BY <1>3, OneMoreCell, Zenon
  <2>2. QED
    BY <1>1, <2>1
<1>5. x[1] = i /\ x[2] = 1
  BY <1>2
<1>6. Shape(c) /\ AtEnd(c, o)
  BY DEF InStep
<1>7. n \in 1 .. n => c[n][2] = 2
  BY <1>1, EmptySeq
<1>8. \A k \in 1 .. n + 1 : more[k][2] = 2 => k \in 1 .. n
  BY <1>4, <1>5
<1>9. Shape(more)
  <2>1. ASSUME NEW k \in 1 .. n + 1, more[k][2] = 2 PROVE k > 1 /\ more[k - 1] = Text(more[k][1])
    <3>1. k > 1 /\ c[k - 1] = Text(c[k][1]) /\ k - 1 \in 1 .. n
      BY <1>1, <1>4, <1>6, <1>8, <2>1 DEF Shape
    <3>2. QED
      BY <1>4, <1>8, <2>1, <3>1
  <2>2. ASSUME NEW k \in 1 .. n + 1, more[k][2] = 1, k # n + 1 PROVE more[k + 1] = Newline(more[k][1])
    <3>1. k \in 1 .. n /\ more[k] = c[k]
      BY <1>4, <2>2
    <3>2. k # n
      BY <1>7, <2>2, <3>1
    <3>3. c[k + 1] = Newline(c[k][1]) /\ k + 1 \in 1 .. n
      BY <1>1, <1>6, <2>2, <3>1, <3>2 DEF Shape
    <3>4. QED
      BY <1>4, <3>1, <3>3
  <2>3. ASSUME NEW k \in 1 .. n + 1, NEW h \in 1 .. n + 1, k < h, more[k][2] = 2 PROVE more[k][1] < more[h][1]
    <3>1. k \in 1 .. n /\ more[k] = c[k]
      BY <1>4, <1>8, <2>3
    <3>2. CASE h \in 1 .. n
      BY <1>1, <1>4, <1>6, <2>3, <3>1, <3>2 DEF Shape
    <3>3. CASE h = n + 1
      BY <1>1, <1>4, <1>5, <3>1, <3>3
    <3>4. QED
      BY <1>4, <3>2, <3>3
  <2>4. QED
    BY <1>4, <2>1, <2>2, <2>3 DEF Shape
<1>10. AtEnd(more, o)
  BY <1>1, <1>4, <1>6 DEF AtEnd, IsEnd
<1>11. \A k \in 1 .. n + 1 : IsEnd(more, k) => k \in 1 .. n /\ IsEnd(c, k) /\ more[k] = c[k]
  BY <1>4, <1>8 DEF IsEnd
<1>12. \A k \in 1 .. n + 1 : more[k][2] = 1 /\ k = n + 1 => ~Contains(s, more[k][1]) /\ more[k][1] \notin d
  BY <1>4, <1>5
<1>13. \A k \in 1 .. n + 1 : IsEnd(more, k) /\ Contains(s, more[k][1]) => k <= o
  BY <1>1, <1>11 DEF InStep
<1>14. \A k \in 1 .. n + 1 : IsEnd(more, k) /\ k <= o /\ more[k][1] \in u => Contains(s, more[k][1])
  BY <1>1, <1>11 DEF InStep
<1>15. \A a, b \in 1 .. Len(s), h, k \in 1 .. n + 1 :
         a < b /\ IsEnd(more, h) /\ IsEnd(more, k) /\ s[a] = more[h][1] /\ s[b] = more[k][1] => h < k
  BY <1>1, <1>11 DEF InStep
<1>16. QED
  BY <1>4, <1>9, <1>10, <1>12, <1>13, <1>14, <1>15 DEF InStep

\* The lines of f that are to be passed on.
Owed(f) == {i \in Nat : IF kind = "claude" THEN f \notin PingFile ELSE i \notin old}

Numbered ==
  /\ \A f \in File : \A k \in 1 .. Len(file[f]) : file[f][k][1] \in 1 .. written
  /\ \A a \in 1 .. Len(sent) : sent[a] <= written
  /\ \A i \in due : i \in Nat /\ i <= written

\* A line is in one file.
Disjoint ==
  \A f, g \in File : \A h \in 1 .. Len(file[f]), k \in 1 .. Len(file[g]) :
    file[f][h][1] = file[g][k][1] => f = g

FilesInStep == \A f \in File \ cuts : InStep(file[f], offsets[f], sent, Owed(f), due)

\* Codex' limits are those of the last line read of some thread.
LimitsAreRead ==
  /\ kind # "codex" => limits = 0
  /\ cuts = {} => limits = 0 \/ \E f \in File : offsets[f] >= 1 /\ limits = file[f][offsets[f]][1]

LEMMA FromIs ==
  ASSUME WatchersTypes, NEW f \in File
  PROVE  /\ From(f) \in Nat /\ From(f) <= Len(file[f])
         /\ AtEnd(file[f], offsets[f]) => From(f) = IF offsets[f] = Unknown THEN 0 ELSE offsets[f]
<1>1. file[f] \in Seq(Cell) /\ offsets[f] \in Nat \cup {Unknown}
  BY DEF WatchersTypes
<1>2. Len(file[f]) \in Nat
  BY <1>1, LenProperties
<1>3. From(f) \in Nat /\ From(f) <= Len(file[f])
  BY <1>1, <1>2 DEF From, Unknown
<1>4. AtEnd(file[f], offsets[f]) => From(f) = IF offsets[f] = Unknown THEN 0 ELSE offsets[f]
  BY <1>1, <1>2 DEF From, Unknown, AtEnd, IsEnd
<1>5. QED
  BY <1>3, <1>4

LEMMA ReadUpToIs ==
  ASSUME WatchersTypes, NEW f \in File
  PROVE  /\ ReadUpTo(f) \in Nat /\ From(f) <= ReadUpTo(f) /\ ReadUpTo(f) <= Len(file[f])
         /\ ReadUpTo(f) = From(f) \/ IsEnd(file[f], ReadUpTo(f))
         /\ \A k \in 1 .. Len(file[f]) : IsEnd(file[f], k) => k <= ReadUpTo(f)
<1>1. PICK n \in Nat, r \in Nat : n = Len(file[f]) /\ r = From(f) /\ r <= n
  <2>1. Len(file[f]) \in Nat
    BY LenProperties DEF WatchersTypes
  <2>2. QED
    BY <2>1, FromIs
<1>2. PICK S : S = {k \in r + 1 .. n : file[f][k][2] = 2} \union {r}
  OBVIOUS
<1>3. S \subseteq Nat /\ S # {} /\ r \in S /\ \A t \in S : t <= n
  BY <1>1, <1>2
<1>4. Max(S) \in S /\ \A t \in S : t <= Max(S)
  BY <1>3, MaxIs
<1>5. Max(S) \in Nat /\ r <= Max(S) /\ Max(S) <= n
  BY <1>3, <1>4
<1>6. Max(S) = r \/ IsEnd(file[f], Max(S))
  BY <1>1, <1>2, <1>4 DEF IsEnd
<1>7. ASSUME NEW k \in 1 .. n, IsEnd(file[f], k) PROVE k <= Max(S)
  <2>1. CASE k <= r
    BY <1>5, <2>1
  <2>2. CASE k > r
    <3>1. k \in S
      BY <1>2, <1>7, <2>2 DEF IsEnd
    <3>2. QED
      BY <1>4, <3>1
  <2>3. QED
    BY <2>1, <2>2
<1>8. ReadUpTo(f) = Max(S)
  BY <1>1, <1>2 DEF ReadUpTo
<1>9. QED
  BY <1>1, <1>5, <1>6, <1>7, <1>8

\* The places where reading on may stop.
StopsAt(f, p) == p \in Nat /\ From(f) <= p /\ p <= ReadUpTo(f) /\ (p = From(f) \/ IsEnd(file[f], p))

\* A file is read to its last newline or less far, or not at all.
LEMMA TailedIs ==
  ASSUME WatchersTypes, NEW f \in File, Tailed(f)
  PROVE  \/ StopsAt(f, ReadUpTo(f)) /\ ReadTo(f, ReadUpTo(f)) /\ broken' = broken \ {f}
         \/ (\E p \in Nat : StopsAt(f, p) /\ ReadTo(f, p)) /\ broken' = broken \union {f}
         \/ CannotRead(f) /\ broken' = broken \union {f}
<1>1. StopsAt(f, ReadUpTo(f))
  BY ReadUpToIs DEF StopsAt
<1>2. ASSUME BreaksOff(f) PROVE \E p \in Nat : StopsAt(f, p) /\ ReadTo(f, p)
  <2>1. PICK n \in Nat, r \in Nat, e \in Nat : n = Len(file[f]) /\ r = From(f) /\ e = ReadUpTo(f) /\ e <= n
    <3>1. Len(file[f]) \in Nat
      BY LenProperties DEF WatchersTypes
    <3>2. QED
      BY <3>1, FromIs, ReadUpToIs
  <2>2. PICK p \in {r} \union {k \in r + 1 .. e : file[f][k][2] = 2} : p < e /\ ReadTo(f, p)
    BY <1>2, <2>1 DEF BreaksOff
  <2>3. p \in Nat /\ r <= p /\ p <= e
    BY <2>1, <2>2
  <2>4. p # r => p \in 1 .. n /\ file[f][p][2] = 2
    BY <2>1, <2>2
  <2>5. StopsAt(f, p)
    BY <2>1, <2>3, <2>4 DEF StopsAt, IsEnd
  <2>6. QED
    BY <2>2, <2>3, <2>5
<1>3. QED
  BY <1>1, <1>2 DEF Tailed

LEMMA ParsedAreEnds ==
  ASSUME WatchersTypes, NEW f \in File, NEW p, StopsAt(f, p), NEW k \in Parsed(f, p)
  PROVE  k \in 1 .. Len(file[f]) /\ IsEnd(file[f], k) /\ k > From(f) /\ k <= p
<1>1. PICK n \in Nat, r \in Nat : n = Len(file[f]) /\ r = From(f) /\ p \in Nat /\ p <= n
  <2>1. Len(file[f]) \in Nat
    BY LenProperties DEF WatchersTypes
  <2>2. QED
    BY <2>1, FromIs, ReadUpToIs DEF StopsAt
<1>2. k \in r + 2 .. p /\ file[f][k][2] = 2
  BY <1>1 DEF Parsed
<1>3. k \in 1 .. n /\ k > r /\ k <= p
  BY <1>1, <1>2
<1>4. QED
  BY <1>1, <1>2, <1>3 DEF IsEnd

\* In an undamaged file every newline after the offset makes a line that parses.
LEMMA EndsAreParsed ==
  ASSUME WatchersTypes, NEW f \in File, Shape(file[f]), AtEnd(file[f], offsets[f]),
         NEW p, StopsAt(f, p), NEW k \in 1 .. Len(file[f]), IsEnd(file[f], k), k > From(f), k <= p
  PROVE  k \in Parsed(f, p)
<1>1. PICK c \in Seq(Cell) : c = file[f]
  BY DEF WatchersTypes
<1>2. PICK n \in Nat, r \in Nat : n = Len(c) /\ r = From(f) /\ p \in Nat /\ p <= n /\ k <= p
  <2>1. Len(c) \in Nat
    BY LenProperties
  <2>2. QED
    BY <1>1, <2>1, FromIs, ReadUpToIs DEF StopsAt
<1>3. k \in 1 .. n /\ c[k][2] = 2 /\ k > r
  BY <1>1, <1>2 DEF IsEnd
<1>4. k > 1 /\ c[k - 1] = Text(c[k][1])
  BY <1>1, <1>2, <1>3 DEF Shape
<1>5. c[k - 1][2] = 1
  BY <1>4 DEF Text
<1>6. r = 0 \/ c[r][2] = 2
  BY <1>1, <1>2, FromIs DEF AtEnd, IsEnd, Unknown, WatchersTypes
<1>7. k # r + 1
  BY <1>3, <1>4, <1>5, <1>6
<1>8. ASSUME k - 2 > r PROVE c[k - 2][2] = 2
  <2>1. k - 2 \in 1 .. n /\ k - 2 # n /\ (k - 2) + 1 = k - 1
    BY <1>2, <1>3, <1>8
  <2>2. c[k - 2][2] = 1 => c[k - 1] = Newline(c[k - 2][1])
    BY <1>1, <1>2, <2>1 DEF Shape
  <2>3. c[k - 2][2] # 1
    BY <1>5, <2>2 DEF Newline
  <2>4. QED
    BY <1>2, <2>1, <2>3, CellIsPair
<1>9. k \in r + 2 .. p
  BY <1>2, <1>3, <1>7
<1>10. QED
  BY <1>1, <1>2, <1>3, <1>4, <1>8, <1>9 DEF Parsed

-------------------------------------------------------------------------------
(* One file is read on *)

\* The lines that are sent when f is read on up to p.
Sendable(f, p) == {k \in Parsed(f, p) : Passes(f, file[f][k][1])}

LEMMA SentIsGathered ==
  ASSUME WatchersTypes, NEW f \in File, NEW p, StopsAt(f, p), ReadTo(f, p)
  PROVE  \E new : Gathered(new, file[f], Sendable(f, p)) /\ sent' = sent \o new
<1>1. Sendable(f, p) \subseteq 1 .. Len(file[f])
  BY ParsedAreEnds DEF Sendable
<1>2. Gathered(LinesAt(f, Sendable(f, p)), file[f], Sendable(f, p))
  BY <1>1, LinesAreGathered
<1>3. sent' = sent \o LinesAt(f, Sendable(f, p))
  BY DEF ReadTo, Sendable
<1>4. QED
  BY <1>2, <1>3

LEMMA ReadIsInStep ==
  ASSUME WatchersTypes, NEW f \in File, NEW d, InStep(file[f], offsets[f], sent, Owed(f), d),
         kind \in {"claude", "codex", "antigravity"}, NEW p, StopsAt(f, p),
         NEW new, Gathered(new, file[f], Sendable(f, p)), NEW both, both = sent \o new
  PROVE  InStep(file[f], p, both, Owed(f), d)
<1>1. Shape(file[f]) /\ AtEnd(file[f], offsets[f])
  BY DEF InStep
<1>2. PICK c \in Seq(Cell), o \in Int, r \in Nat :
        c = file[f] /\ o = offsets[f] /\ r = From(f) /\ p \in Nat /\ r <= p
  <2>1. file[f] \in Seq(Cell) /\ offsets[f] \in Int
    BY DEF WatchersTypes, Unknown
  <2>2. From(f) \in Nat
    BY FromIs
  <2>3. QED
    BY <2>1, <2>2 DEF StopsAt
<1>3. r = (IF o = Unknown THEN 0 ELSE o) /\ o \in Nat \cup {Unknown}
  BY <1>1, <1>2, FromIs DEF WatchersTypes
<1>4. (\A k \in Nat \ {0} : k > r <=> k > o) /\ o <= p
  BY <1>2, <1>3 DEF Unknown
<1>5. Len(c) \in Nat
  BY LenProperties
<1>6. AtEnd(c, p)
  <2>1. p = r \/ IsEnd(c, p)
    BY <1>2 DEF StopsAt
  <2>2. AtEnd(c, r)
    BY <1>1, <1>2, <1>3 DEF AtEnd
  <2>3. QED
    BY <2>1, <2>2 DEF AtEnd
<1>7. \A k \in Sendable(f, p) : k \in 1 .. Len(c) /\ IsEnd(c, k) /\ k > o /\ k <= p
  BY <1>2, <1>4, <1>5, ParsedAreEnds DEF Sendable
<1>8. ASSUME NEW k \in 1 .. Len(c), IsEnd(c, k), k > o, k <= p, c[k][1] \in Owed(f) PROVE k \in Sendable(f, p)
  <2>1. k \in Parsed(f, p)
    BY <1>1, <1>2, <1>4, <1>5, <1>8, EndsAreParsed
  <2>2. Passes(f, c[k][1])
    BY <1>8 DEF Passes, Owed
  <2>3. QED
    BY <1>2, <2>1, <2>2 DEF Sendable
<1>9. sent \in Seq(Nat)
  BY DEF WatchersTypes
<1>10. InStep(c, p, both, Owed(f), d)
  BY <1>2, <1>4, <1>6, <1>7, <1>8, <1>9, ReadFurther
<1>11. QED
  BY <1>2, <1>10

\* What reading a file does not touch.
Elsewhere == <<kind, file, written, old, cuts, missed, due>>

LEMMA LastParsed ==
  ASSUME WatchersTypes, NEW f \in File, NEW p, StopsAt(f, p), Parsed(f, p) # {}
  PROVE  Max(Parsed(f, p)) \in Parsed(f, p) /\ \A k \in Parsed(f, p) : k <= Max(Parsed(f, p))
<1>1. Len(file[f]) \in Nat
  BY LenProperties DEF WatchersTypes
<1>2. Parsed(f, p) \subseteq Nat /\ \A k \in Parsed(f, p) : k <= Len(file[f])
  BY <1>1, ParsedAreEnds
<1>3. QED
  BY <1>1, <1>2, MaxIs

LEMMA ReadTyped ==
  ASSUME WatchersTypes, NEW f \in File, NEW p, StopsAt(f, p), ReadTo(f, p)
  PROVE  sent' \in Seq(Nat) /\ offsets' \in [File -> Nat \cup {Unknown}] /\ limits' \in Nat
<1>1. sent' \in Seq(Nat)
  <2>1. PICK new : Gathered(new, file[f], Sendable(f, p)) /\ sent' = sent \o new
    BY SentIsGathered
  <2>2. new \in Seq(Nat) /\ sent \in Seq(Nat)
    BY <2>1 DEF Gathered, WatchersTypes
  <2>3. QED
    BY <2>1, <2>2, ConcatProperties
<1>2. offsets' \in [File -> Nat \cup {Unknown}]
  BY DEF ReadTo, StopsAt, WatchersTypes
<1>3. limits' \in Nat
  <2>1. CASE kind = "codex" /\ Parsed(f, p) # {}
    <3>1. Max(Parsed(f, p)) \in 1 .. Len(file[f])
      BY <2>1, LastParsed, ParsedAreEnds
    <3>2. file[f][Max(Parsed(f, p))][1] \in Nat
      BY <3>1, CellIsPair DEF WatchersTypes
    <3>3. QED
      BY <2>1, <3>2 DEF ReadTo
  <2>2. CASE ~(kind = "codex" /\ Parsed(f, p) # {})
    BY <2>2 DEF ReadTo, WatchersTypes
  <2>3. QED
    BY <2>1, <2>2
<1>4. QED
  BY <1>1, <1>2, <1>3

LEMMA ReadNumbered ==
  ASSUME WatchersTypes, Numbered, NEW f \in File, NEW p, StopsAt(f, p), ReadTo(f, p), UNCHANGED Elsewhere
  PROVE  Numbered'
<1>1. PICK new : Gathered(new, file[f], Sendable(f, p)) /\ sent' = sent \o new
  BY SentIsGathered
<1>2. PICK both : both = sent \o new
  OBVIOUS
<1>3. new \in Seq(Nat) /\ sent \in Seq(Nat)
  BY <1>1 DEF Gathered, WatchersTypes
<1>4. \A a \in 1 .. Len(new) : new[a] <= written
  <2>1. ASSUME NEW a \in 1 .. Len(new) PROVE new[a] <= written
    <3>1. PICK k \in Sendable(f, p) : new[a] = file[f][k][1]
      BY <1>1 DEF Gathered
    <3>2. k \in 1 .. Len(file[f])
      BY <3>1, ParsedAreEnds DEF Sendable
    <3>3. QED
      BY <3>1, <3>2 DEF Numbered
  <2>2. QED
    BY <2>1
<1>5. \A a \in 1 .. Len(both) : both[a] <= written
  <2>1. \A a \in 1 .. Len(both) :
          \/ a \in 1 .. Len(sent) /\ both[a] = sent[a]
          \/ a > Len(sent) /\ a - Len(sent) \in 1 .. Len(new) /\ both[a] = new[a - Len(sent)]
    BY <1>2, <1>3, TwoParts
  <2>2. QED
    BY <1>4, <2>1 DEF Numbered
<1>6. sent' = both
  BY <1>1, <1>2
<1>7. QED
  BY <1>5, <1>6 DEF Numbered, Elsewhere

LEMMA ReadKeepsStep ==
  ASSUME WatchersTypes, Disjoint, FilesInStep, NEW f \in File, NEW p, StopsAt(f, p), ReadTo(f, p),
         UNCHANGED Elsewhere, kind \in {"claude", "codex", "antigravity"}
  PROVE  FilesInStep'
<1>1. PICK new : Gathered(new, file[f], Sendable(f, p)) /\ sent' = sent \o new
  BY SentIsGathered
<1>2. PICK both : both = sent \o new /\ sent' = both
  BY <1>1
<1>3. new \in Seq(Nat) /\ sent \in Seq(Nat)
  BY <1>1 DEF Gathered, WatchersTypes
<1>4. ASSUME NEW g \in File \ cuts PROVE InStep(file[g], offsets'[g], both, Owed(g), due)
  <2>1. InStep(file[g], offsets[g], sent, Owed(g), due)
    BY DEF FilesInStep
  <2>2. CASE g = f
    <3>1. InStep(file[f], p, both, Owed(f), due)
      BY <1>1, <1>2, <2>1, <2>2, ReadIsInStep
    <3>2. offsets'[f] = p
      BY DEF ReadTo, WatchersTypes
    <3>3. QED
      BY <2>2, <3>1, <3>2
  <2>3. CASE g # f
    <3>1. ASSUME NEW a \in 1 .. Len(new), NEW k \in 1 .. Len(file[g]) PROVE new[a] # file[g][k][1]
      <4>1. PICK h \in Sendable(f, p) : new[a] = file[f][h][1]
        BY <1>1 DEF Gathered
      <4>2. h \in 1 .. Len(file[f])
        BY <4>1, ParsedAreEnds DEF Sendable
      <4>3. QED
        BY <2>3, <4>1, <4>2 DEF Disjoint
    <3>2. InStep(file[g], offsets[g], both, Owed(g), due)
      BY <1>2, <1>3, <2>1, <3>1, OthersRead
    <3>3. offsets'[g] = offsets[g]
      BY <2>3 DEF ReadTo, WatchersTypes
    <3>4. QED
      BY <3>2, <3>3
  <2>4. QED
    BY <2>2, <2>3
<1>5. \A g : Owed(g)' = Owed(g)
  BY DEF Elsewhere, Owed
<1>6. ASSUME NEW g \in File \ cuts PROVE InStep(file'[g], offsets'[g], sent', Owed(g)', due')
  BY <1>2, <1>4, <1>5 DEF Elsewhere
<1>7. QED
  BY <1>6 DEF FilesInStep, Elsewhere

LEMMA ReadLimits ==
  ASSUME WatchersTypes, FilesInStep, LimitsAreRead, NEW f \in File, NEW p, StopsAt(f, p), ReadTo(f, p),
         UNCHANGED Elsewhere
  PROVE  LimitsAreRead'
<1>1. kind # "codex" => limits' = 0
  BY DEF ReadTo, LimitsAreRead
<1>2. /\ offsets' = [offsets EXCEPT ![f] = p] /\ offsets \in [File -> Nat \cup {Unknown}]
      /\ file[f] \in Seq(Cell)
  BY DEF ReadTo, WatchersTypes
<1>3. ASSUME cuts = {} PROVE limits' = 0 \/ \E g \in File : offsets'[g] >= 1 /\ limits' = file[g][offsets'[g]][1]
  <2>1. Shape(file[f]) /\ AtEnd(file[f], offsets[f])
    BY <1>3 DEF FilesInStep, InStep
  <2>2. PICK r \in Nat : r = From(f) /\ p \in Nat /\ r <= p /\ (p = r \/ IsEnd(file[f], p))
    BY FromIs DEF StopsAt
  <2>3. CASE kind = "codex" /\ Parsed(f, p) # {}
    <3>1. PICK m : m = Max(Parsed(f, p))
      OBVIOUS
    <3>2. m \in Parsed(f, p) /\ \A k \in Parsed(f, p) : k <= m
      BY <2>3, <3>1, LastParsed
    <3>3. m \in 1 .. Len(file[f]) /\ IsEnd(file[f], m) /\ m > r /\ m <= p
      BY <2>2, <3>2, ParsedAreEnds
    <3>4. Len(file[f]) \in Nat
      BY <1>2, LenProperties
    <3>5. p > r /\ IsEnd(file[f], p)
      BY <2>2, <3>3, <3>4
    <3>6. p \in Parsed(f, p)
      <4>1. p \in 1 .. Len(file[f])
        BY <3>5 DEF IsEnd
      <4>2. p <= p /\ p > From(f)
        BY <2>2, <3>5
      <4>3. QED
        BY <2>1, <3>5, <4>1, <4>2, EndsAreParsed
    <3>7. p = m
      BY <2>2, <3>2, <3>3, <3>4, <3>6
    <3>8. limits' = file[f][p][1] /\ offsets'[f] = p /\ p >= 1
      BY <1>2, <2>2, <2>3, <3>1, <3>3, <3>4, <3>7 DEF ReadTo
    <3>9. QED
      BY <3>8
  <2>4. CASE kind # "codex"
    BY <1>1, <2>4
  <2>5. CASE kind = "codex" /\ Parsed(f, p) = {}
    <3>1. limits' = limits
      BY <2>5 DEF ReadTo
    <3>2. p = r
      <4>1. ASSUME p # r PROVE FALSE
        <5>1. p > From(f) /\ p <= p /\ IsEnd(file[f], p) /\ p \in 1 .. Len(file[f])
          BY <2>2, <4>1 DEF IsEnd
        <5>2. p \in Parsed(f, p)
          BY <2>1, <5>1, EndsAreParsed
        <5>3. QED
          BY <2>5, <5>2
      <4>2. QED
        BY <4>1
    <3>3. offsets[f] >= 1 => offsets'[f] = offsets[f]
      BY <1>2, <2>1, <2>2, <3>2, FromIs DEF Unknown
    <3>4. \A g \in File : offsets[g] >= 1 => offsets'[g] = offsets[g]
      BY <1>2, <3>3
    <3>5. QED
      BY <1>3, <3>1, <3>4 DEF LimitsAreRead
  <2>6. QED
    BY <2>3, <2>4, <2>5
<1>4. QED
  BY <1>1, <1>3 DEF LimitsAreRead, Elsewhere

\* A file that was not read: at most its offset is noted.
LEMMA NotReadIs ==
  ASSUME WatchersTypes, NEW f \in File, CannotRead(f)
  PROVE  /\ UNCHANGED <<sent, limits>> /\ offsets' \in [File -> Nat \cup {Unknown}]
         /\ \A g \in File : offsets'[g] = offsets[g] \/ (g = f /\ offsets[g] = Unknown /\ offsets'[g] = 0)
<1>1. offsets \in [File -> Nat \cup {Unknown}]
  BY DEF WatchersTypes
<1>2. \/ offsets' = offsets
      \/ offsets' = [offsets EXCEPT ![f] = IF offsets[f] = Unknown THEN 0 ELSE offsets[f]]
  BY DEF CannotRead
<1>3. QED
  BY <1>1, <1>2 DEF CannotRead

LEMMA NotReadKeepsStep ==
  ASSUME WatchersTypes, FilesInStep, NEW f \in File, CannotRead(f), UNCHANGED Elsewhere
  PROVE  FilesInStep'
<1>1. ASSUME NEW g \in File \ cuts PROVE InStep(file[g], offsets'[g], sent, Owed(g), due)
  <2>1. InStep(file[g], offsets[g], sent, Owed(g), due)
    BY DEF FilesInStep
  <2>2. CASE offsets'[g] = offsets[g]
    BY <2>1, <2>2
  <2>3. CASE offsets[g] = Unknown /\ offsets'[g] = 0
    <3>1. InStep(file[g], Unknown, sent, Owed(g), due)
      BY <2>1, <2>3
    <3>2. \A k \in 1 .. Len(file[g]) : k <= Unknown <=> k <= 0
      <4>1. Len(file[g]) \in Nat
        BY LenProperties DEF WatchersTypes
      <4>2. QED
        BY <4>1 DEF Unknown
    <3>3. AtEnd(file[g], 0)
      BY DEF AtEnd
    <3>4. InStep(file[g], 0, sent, Owed(g), due)
      BY <3>1, <3>2, <3>3 DEF InStep
    <3>5. QED
      BY <2>3, <3>4
  <2>4. QED
    BY <2>2, <2>3, NotReadIs
<1>2. \A g : Owed(g)' = Owed(g)
  BY DEF Elsewhere, Owed
<1>3. sent' = sent
  BY NotReadIs
<1>4. QED
  BY <1>1, <1>2, <1>3 DEF FilesInStep, Elsewhere

LEMMA NotReadLimits ==
  ASSUME WatchersTypes, LimitsAreRead, NEW f \in File, CannotRead(f), UNCHANGED Elsewhere
  PROVE  LimitsAreRead'
<1>1. limits' = limits /\ \A g \in File : offsets[g] >= 1 => offsets'[g] = offsets[g]
  BY NotReadIs DEF Unknown
<1>2. QED
  BY <1>1 DEF LimitsAreRead, Elsewhere

\* A read, whether it fails, breaks off or succeeds.
LEMMA TailedKeeps ==
  ASSUME WatchersTypes, Numbered, Disjoint, FilesInStep, LimitsAreRead, NEW f \in File, Tailed(f),
         UNCHANGED Elsewhere
  PROVE  /\ sent' \in Seq(Nat) /\ offsets' \in [File -> Nat \cup {Unknown}] /\ limits' \in Nat
         /\ Numbered' /\ FilesInStep' /\ LimitsAreRead'
         /\ \A k \in 1 .. Len(file[f]) : IsEnd(file[f], k) => k <= offsets'[f] \/ f \in broken'
         /\ \A g \in File \ {f} : offsets'[g] = offsets[g] /\ (g \in broken => g \in broken')
<1>1. kind \in {"claude", "codex", "antigravity"} /\ offsets \in [File -> Nat \cup {Unknown}]
  BY DEF WatchersTypes
<1>2. ASSUME NEW p, StopsAt(f, p), ReadTo(f, p)
      PROVE  /\ sent' \in Seq(Nat) /\ offsets' \in [File -> Nat \cup {Unknown}] /\ limits' \in Nat
             /\ Numbered' /\ FilesInStep' /\ LimitsAreRead'
             /\ offsets'[f] = p /\ \A g \in File \ {f} : offsets'[g] = offsets[g]
  <2>1. sent' \in Seq(Nat) /\ offsets' \in [File -> Nat \cup {Unknown}] /\ limits' \in Nat
    BY <1>2, ReadTyped
  <2>2. Numbered' /\ FilesInStep' /\ LimitsAreRead'
    BY <1>1, <1>2, ReadNumbered, ReadKeepsStep, ReadLimits
  <2>3. offsets'[f] = p /\ \A g \in File \ {f} : offsets'[g] = offsets[g]
    BY <1>1, <1>2 DEF ReadTo
  <2>4. QED
    BY <2>1, <2>2, <2>3
<1>3. CASE StopsAt(f, ReadUpTo(f)) /\ ReadTo(f, ReadUpTo(f)) /\ broken' = broken \ {f}
  <2>1. \A k \in 1 .. Len(file[f]) : IsEnd(file[f], k) => k <= offsets'[f]
    BY <1>2, <1>3, ReadUpToIs
  <2>2. QED
    BY <1>2, <1>3, <2>1
<1>4. CASE (\E p \in Nat : StopsAt(f, p) /\ ReadTo(f, p)) /\ broken' = broken \union {f}
  <2>1. PICK p \in Nat : StopsAt(f, p) /\ ReadTo(f, p)
    BY <1>4
  <2>2. QED
    BY <1>2, <1>4, <2>1
<1>5. CASE CannotRead(f) /\ broken' = broken \union {f}
  <2>1. sent' = sent /\ limits' = limits /\ offsets' \in [File -> Nat \cup {Unknown}]
    BY <1>5, NotReadIs
  <2>2. Numbered'
    BY <2>1 DEF Numbered, Elsewhere
  <2>3. FilesInStep' /\ LimitsAreRead'
    BY <1>5, NotReadKeepsStep, NotReadLimits
  <2>4. \A g \in File \ {f} : offsets'[g] = offsets[g] /\ (g \in broken => g \in broken')
    BY <1>5, NotReadIs
  <2>5. QED
    BY <1>5, <2>1, <2>2, <2>3, <2>4 DEF WatchersTypes
<1>6. QED
  BY <1>3, <1>4, <1>5, TailedIs

\* A newline was read, or its file will be; or the file could not be read to the end,
\* or it is one that Claude's scan left out; Codex' next poll will look again.
Reached(f, k) ==
  \/ k <= offsets[f] \/ Contains(todo, f)
  \/ kind = "codex" /\ file[f][k][1] \notin due
  \/ kind # "codex" /\ f \in notices
  \/ kind = "antigravity" /\ file[f][k][1] \in missed
  \/ f \in broken \/ (kind = "claude" /\ f \in DeepFile /\ offsets[f] = Unknown)

WillBeRead ==
  stage \in {"scan", "live"} =>
    \A f \in File \ cuts : \A k \in 1 .. Len(file[f]) : IsEnd(file[f], k) => Reached(f, k)

\* When there are notices, and what is never cut and never half written.
Staged ==
  /\ stage = "live" => todo = <<>>
  /\ kind = "claude" => watched = (stage # "start")
  /\ kind = "claude" /\ stage \in {"start", "watching"} => \A f \in File : offsets[f] = Unknown
  /\ kind = "antigravity" /\ stage = "live" => watched = TRUE
  /\ kind = "antigravity" => cuts = {} /\ \A f \in File : file[f] # <<>> => file[f][Len(file[f])][2] = 2

WatchersInv ==
  /\ WatchersTypes /\ File # {} /\ Numbered /\ Disjoint /\ FilesInStep
  /\ WillBeRead /\ Staged /\ LimitsAreRead

\* A file is read: its notice is taken, or it leaves the list of those to be read.
LEMMA ReadKeepsAll ==
  ASSUME WatchersInv, NEW f \in File, Tailed(f), UNCHANGED <<Elsewhere, stage, watched>>,
         stage \in {"scan", "live"}, todo' \in Seq(File), todo = <<>> => todo' = <<>>,
         \A g \in File \ {f} : (Contains(todo, g) => Contains(todo', g)) /\ (g \in notices => g \in notices')
  PROVE  WatchersInv'
<1>1. WatchersTypes /\ UNCHANGED Elsewhere
  BY DEF WatchersInv
<1>2. /\ sent' \in Seq(Nat) /\ offsets' \in [File -> Nat \cup {Unknown}] /\ limits' \in Nat
      /\ Numbered' /\ FilesInStep' /\ LimitsAreRead'
      /\ \A k \in 1 .. Len(file[f]) : IsEnd(file[f], k) => k <= offsets'[f] \/ f \in broken'
      /\ \A g \in File \ {f} : offsets'[g] = offsets[g] /\ (g \in broken => g \in broken')
  BY <1>1, TailedKeeps DEF WatchersInv
<1>3. WatchersTypes'
  BY <1>1, <1>2 DEF Elsewhere, WatchersTypes
<1>4. Disjoint'
  BY DEF WatchersInv, Disjoint, Elsewhere
<1>5. WillBeRead'
  <2>1. ASSUME NEW g \in File \ cuts, NEW k \in 1 .. Len(file[g]), IsEnd(file[g], k)
        PROVE  \/ k <= offsets'[g] \/ Contains(todo', g)
               \/ kind = "codex" /\ file[g][k][1] \notin due
               \/ kind # "codex" /\ g \in notices'
               \/ kind = "antigravity" /\ file[g][k][1] \in missed
               \/ g \in broken' \/ (kind = "claude" /\ g \in DeepFile /\ offsets'[g] = Unknown)
    <3>1. CASE g = f
      BY <1>2, <2>1, <3>1
    <3>2. CASE g # f
      <4>1. Reached(g, k)
        BY <2>1 DEF WatchersInv, WillBeRead
      <4>2. QED
        BY <1>2, <3>2, <4>1 DEF Reached
    <3>3. QED
      BY <3>1, <3>2
  <2>2. QED
    BY <2>1 DEF WillBeRead, Reached, Elsewhere
<1>6. Staged'
  BY DEF WatchersInv, Staged, Elsewhere
<1>7. QED
  BY <1>2, <1>3, <1>4, <1>5, <1>6 DEF WatchersInv

LEMMA TakeNoticeKeeps == ASSUME WatchersInv, NEW f \in File, TakeNotice(f) PROVE WatchersInv'
<1>1. Tailed(f) /\ UNCHANGED <<Elsewhere, stage, watched>> /\ todo' = todo /\ stage \in {"scan", "live"}
  BY DEF TakeNotice, Elsewhere
<1>2. todo' \in Seq(File)
  BY <1>1 DEF WatchersInv, WatchersTypes
<1>3. \A g \in File \ {f} : g \in notices => g \in notices'
  BY DEF TakeNotice
<1>4. QED
  BY <1>1, <1>2, <1>3, ReadKeepsAll

LEMMA HeadReadKeeps ==
  ASSUME WatchersInv, todo # <<>>, Tailed(Head(todo)), todo' = Tail(todo), stage \in {"scan", "live"},
         UNCHANGED <<Elsewhere, stage, watched, notices>>
  PROVE  WatchersInv'
<1>1. todo \in Seq(File)
  BY DEF WatchersInv, WatchersTypes
<1>2. PICK f \in File : f = Head(todo)
  BY <1>1, HeadTailProperties
<1>3. todo[1] = f
  BY <1>2
<1>4. PICK rest : rest = Tail(todo)
  OBVIOUS
<1>5. /\ rest \in Seq(File) /\ Len(todo) \in Nat /\ Len(rest) = Len(todo) - 1
      /\ \A i \in 1 .. Len(rest) : rest[i] = todo[i + 1]
  BY <1>1, <1>4, HeadTailProperties, LenProperties
<1>6. ASSUME NEW g \in File \ {f}, Contains(todo, g) PROVE Contains(rest, g)
  <2>1. PICK i \in 1 .. Len(todo) : todo[i] = g
    BY <1>6 DEF Contains
  <2>2. i # 1
    BY <1>3, <2>1
  <2>3. PICK j \in 1 .. Len(rest) : j + 1 = i
    <3>1. i - 1 \in 1 .. Len(rest) /\ (i - 1) + 1 = i
      BY <1>5, <2>1, <2>2
    <3>2. QED
      BY <3>1
  <2>4. QED
    BY <1>5, <2>1, <2>3 DEF Contains
<1>7. todo' = rest
  BY <1>4
<1>8. Tailed(f) /\ UNCHANGED <<Elsewhere, stage, watched>>
  BY <1>2
<1>9. \A g \in File \ {f} : (Contains(todo, g) => Contains(todo', g)) /\ (g \in notices => g \in notices')
  BY <1>6, <1>7
<1>10. QED
  BY <1>5, <1>7, <1>8, <1>9, ReadKeepsAll

LEMMA ReadStepsKeep == ASSUME WatchersInv, ScanNext \/ PollNext PROVE WatchersInv'
  BY HeadReadKeeps DEF ScanNext, PollNext, Elsewhere

Content == <<kind, file, written, old, offsets, sent, limits, cuts, broken>>

\* Where nothing is read or written, only what is found and what is to be read count.
LEMMA NothingRead ==
  ASSUME WatchersInv, UNCHANGED Content, todo' \in Seq(File), WillBeRead', Staged',
         \A i \in due' : i \in Nat /\ i <= written,
         \A f \in File \ cuts : \A k \in 1 .. Len(file[f]) :
           file[f][k][2] = 1 /\ k = Len(file[f]) => file[f][k][1] \notin due'
  PROVE  WatchersInv'
<1>1. WatchersTypes'
  BY DEF WatchersInv, WatchersTypes, Content
<1>2. Numbered' /\ Disjoint' /\ LimitsAreRead'
  BY DEF WatchersInv, Numbered, Disjoint, LimitsAreRead, Content
<1>3. FilesInStep'
  <2>1. PICK e : e = due'
    OBVIOUS
  <2>2. ASSUME NEW f \in File \ cuts PROVE InStep(file[f], offsets[f], sent, Owed(f), e)
    <3>1. InStep(file[f], offsets[f], sent, Owed(f), due)
      BY DEF WatchersInv, FilesInStep
    <3>2. QED
      BY <2>1, <3>1, OthersFound
  <2>3. \A f : Owed(f)' = Owed(f)
    BY DEF Content, Owed
  <2>4. QED
    BY <2>1, <2>2, <2>3 DEF FilesInStep, Content
<1>4. QED
  BY <1>1, <1>2, <1>3 DEF WatchersInv

LEMMA StageKeeps ==
  ASSUME WatchersInv, UNCHANGED <<Content, due>>, todo' \in Seq(File), WillBeRead', Staged'
  PROVE  WatchersInv'
<1>1. \A i \in due : i \in Nat /\ i <= written
  BY DEF WatchersInv, Numbered
<1>2. ASSUME NEW f \in File \ cuts, NEW k \in 1 .. Len(file[f]), file[f][k][2] = 1, k = Len(file[f])
      PROVE  file[f][k][1] \notin due
  BY <1>2 DEF WatchersInv, FilesInStep, InStep
<1>3. QED
  BY <1>1, <1>2, NothingRead

LEMMA RegisterKeeps == ASSUME WatchersInv, Register PROVE WatchersInv'
<1>1. UNCHANGED <<Content, due>> /\ todo' = todo /\ todo' \in Seq(File)
  BY DEF Register, Content, WatchersInv, WatchersTypes
<1>2. Staged'
  BY DEF WatchersInv, Staged, Register, MayRegister
<1>3. WillBeRead'
  BY DEF WatchersInv, WillBeRead, Reached, Register, MayRegister
<1>4. QED
  BY <1>1, <1>2, <1>3, StageKeeps

LEMMA DoneKeeps == ASSUME WatchersInv, ScanDone \/ PollDone PROVE WatchersInv'
<1>1. UNCHANGED <<Content, due>> /\ todo' = todo /\ todo' \in Seq(File)
  BY DEF ScanDone, PollDone, Content, WatchersInv, WatchersTypes
<1>2. Staged'
  BY DEF WatchersInv, Staged, ScanDone, PollDone
<1>3. WillBeRead'
  BY DEF WatchersInv, WillBeRead, Reached, ScanDone, PollDone
<1>4. QED
  BY <1>1, <1>2, <1>3, StageKeeps

\* Every member of a set is in every sequence of the set.
LEMMA AllAreListed ==
  ASSUME NEW S, IsFiniteSet(S), NEW s \in SetToSeqs(S)
  PROVE  s \in Seq(S) /\ \A x \in S : Contains(s, x)
<1>1. PICK n \in Nat : n = Cardinality(S)
  BY FS_CardinalityType
<1>2. s \in [1 .. n -> S] /\ \A i, j \in 1 .. n : i # j => s[i] # s[j]
  BY <1>1 DEF SetToSeqs
<1>3. s \in Seq(S) /\ Len(s) = n
  BY <1>2, LenProperties, SeqDef
<1>4. s \in Injection(1 .. n, S)
  BY <1>2 DEF Injection, IsInjective
<1>5. Cardinality(1 .. n) = n
  BY FS_Interval
<1>6. s \in Surjection(1 .. n, S)
  BY <1>1, <1>4, <1>5, FS_Injection
<1>7. \A x \in S : \E i \in 1 .. n : s[i] = x
  BY <1>6 DEF Surjection
<1>8. QED
  BY <1>3, <1>7 DEF Contains

LEMMA StartScanKeeps == ASSUME WatchersInv, StartScan PROVE WatchersInv'
<1>1. UNCHANGED <<Content, due>>
  BY DEF StartScan, Content
<1>2. PICK S : S = Listed /\ S \subseteq File
  BY DEF Listed
<1>3. IsFiniteSet(S)
  BY <1>2, WatchersAssumption, FS_Subset
<1>4. PICK s : s = todo' /\ s \in SetToSeqs(S)
  BY <1>2 DEF StartScan
<1>5. s \in Seq(S) /\ \A x \in S : Contains(s, x)
  BY <1>3, <1>4, AllAreListed
<1>6. s \in Seq(File)
  BY <1>2, <1>5, SeqDef
<1>7. WillBeRead'
  <2>1. ASSUME NEW f \in File, NEW k \in 1 .. Len(file[f])
        PROVE  Contains(s, f) \/ (kind = "claude" /\ f \in DeepFile /\ offsets[f] = Unknown)
    <3>1. file[f] # <<>>
      BY <2>1
    <3>2. CASE f \in Listed
      BY <1>2, <1>5, <3>2
    <3>3. CASE f \notin Listed
      <4>1. kind = "claude" /\ f \in DeepFile
        BY <3>1, <3>3 DEF Listed
      <4>2. stage = "watching"
        BY <4>1 DEF StartScan, MayScan
      <4>3. QED
        BY <4>1, <4>2 DEF WatchersInv, Staged
    <3>4. QED
      BY <3>2, <3>3
  <2>2. QED
    BY <1>1, <1>4, <2>1 DEF WillBeRead, Reached, Content
<1>8. Staged'
  BY DEF WatchersInv, Staged, StartScan, MayScan
<1>9. QED
  BY <1>1, <1>4, <1>6, <1>7, <1>8, StageKeeps

\* What the poll lists.
LEMMA NewestAreFiles ==
  ASSUME NEW s \in Newest(Limit)
  PROVE  s \in Seq(File)
<1>1. PICK S : S = {f \in File : file[f] # <<>>}
  OBVIOUS
<1>2. PICK w \in SetToSeqs(S) : s = SubSeq(w, 1, IF Len(w) < Limit THEN Len(w) ELSE Limit)
  BY <1>1, Zenon DEF Newest
<1>3. w \in Seq(S)
  BY <1>1, <1>2, WatchersAssumption, FS_Subset, AllAreListed
<1>4. w \in Seq(File) /\ Len(w) \in Nat /\ Limit \in Nat
  BY <1>1, <1>3, SeqDef, WatchersAssumption, LenProperties
<1>5. PICK n \in Nat : n = (IF Len(w) < Limit THEN Len(w) ELSE Limit) /\ n <= Len(w)
  BY <1>4
<1>6. \A i \in 1 .. n : w[i] \in File
  BY <1>4, <1>5, ElementOfSeq
<1>7. SubSeq(w, 1, n) \in Seq(File)
  BY <1>6, SubSeqProperties
<1>8. QED
  BY <1>2, <1>5, <1>7

LEMMA PollKeeps == ASSUME WatchersInv, Poll PROVE WatchersInv'
<1>1. UNCHANGED Content /\ kind = "codex" /\ stage' = "scan"
  BY DEF Poll, Content
<1>2. PICK s : s = todo' /\ s \in Newest(Limit) /\ s \in Seq(File)
  BY NewestAreFiles DEF Poll
<1>3. PICK e : e = due' /\ e = UNION {Lines(f) : f \in Range(s)}
  BY <1>2 DEF Poll
<1>4. \A i \in e : \E f \in Range(s) : i \in Lines(f)
  BY <1>3
<1>5. ASSUME NEW f \in Range(s) PROVE f \in File /\ Contains(s, f)
  <2>1. PICK i \in DOMAIN s : s[i] = f
    BY <1>5 DEF Range
  <2>2. i \in 1 .. Len(s)
    BY <1>2, <2>1, LengthIs
  <2>3. QED
    BY <1>2, <2>1, <2>2, ElementOfSeq DEF Contains
<1>6. \A i \in e : i \in Nat /\ i <= written
  BY <1>4 DEF Lines, WatchersInv, WatchersTypes
<1>7. ASSUME NEW f \in File, NEW k \in 1 .. Len(file[f]), file[f][k][1] \in e
      PROVE  Contains(s, f) /\ \E h \in 1 .. Len(file[f]) : IsEnd(file[f], h) /\ file[f][h][1] = file[f][k][1]
  <2>1. PICK g \in Range(s) : file[f][k][1] \in Lines(g)
    BY <1>4, <1>7
  <2>2. g \in File /\ Contains(s, g)
    BY <1>5
  <2>3. PICK h \in DOMAIN file[g] : file[g][h] = Newline(file[f][k][1])
    BY <2>1 DEF Lines
  <2>4. h \in 1 .. Len(file[g])
    BY <2>2, <2>3, LengthIs DEF WatchersInv, WatchersTypes
  <2>5. file[g][h][1] = file[f][k][1] /\ file[g][h][2] = 2
    BY <2>3 DEF Newline
  <2>6. g = f
    BY <2>2, <2>4, <2>5 DEF WatchersInv, Disjoint
  <2>7. QED
    BY <2>2, <2>4, <2>5, <2>6 DEF IsEnd
<1>8. ASSUME NEW f \in File \ cuts, NEW k \in 1 .. Len(file[f]), file[f][k][2] = 1, k = Len(file[f])
      PROVE  file[f][k][1] \notin e
  <2>1. ASSUME file[f][k][1] \in e PROVE FALSE
    <3>1. PICK h \in 1 .. Len(file[f]) : IsEnd(file[f], h) /\ file[f][h][1] = file[f][k][1]
      BY <1>7, <2>1
    <3>2. Shape(file[f]) /\ file[f] \in Seq(Cell)
      BY DEF WatchersInv, FilesInStep, InStep, WatchersTypes
    <3>3. h = k
      BY <1>8, <3>1, <3>2, EndsAreUnique
    <3>4. QED
      BY <1>8, <3>1, <3>3 DEF IsEnd
  <2>2. QED
    BY <2>1
<1>9. WillBeRead'
  <2>1. ASSUME NEW f \in File, NEW k \in 1 .. Len(file[f]) PROVE Contains(s, f) \/ file[f][k][1] \notin e
    BY <1>7
  <2>2. QED
    BY <1>1, <1>2, <1>3, <2>1 DEF WillBeRead, Reached, Content
<1>10. Staged'
  BY <1>1 DEF WatchersInv, Staged, Content
<1>11. QED
  BY <1>1, <1>2, <1>3, <1>6, <1>8, <1>9, <1>10, NothingRead

\* A file was written: it holds what it held, and what came is in step with the reader.
Grown(f, more, i) ==
  /\ more \in Seq(Cell) /\ Len(file[f]) <= Len(more)
  /\ \A k \in 1 .. Len(file[f]) : more[k] = file[f][k]
  /\ \A k \in 1 .. Len(more) : more[k][1] \in 1 .. i /\ (k \in 1 .. Len(file[f]) \/ more[k][1] > written
       \/ \E h \in 1 .. Len(file[f]) : file[f][h][1] = more[k][1])
  /\ f \notin cuts => InStep(more, offsets[f], sent, Owed(f), due)
  /\ f \notin cuts => \A k \in 1 .. Len(more) : more[k][2] = 2 /\ k \notin 1 .. Len(file[f]) =>
       (kind = "codex" => more[k][1] \notin due) /\ (kind = "antigravity" => more[k][1] = i)
  /\ kind = "antigravity" => more[Len(more)][2] = 2

LEMMA OneCell ==
  ASSUME NEW c \in Seq(Cell), NEW x \in Cell
  PROVE  c \o <<x>> = Append(c, x)
  BY AppendIsConcat

LEMMA TwoCells ==
  ASSUME NEW c \in Seq(Cell), NEW x \in Cell, NEW y \in Cell
  PROVE  c \o <<x, y>> = Append(Append(c, x), y)
<1>1. PICK m \in Seq(Cell) : m = Append(c, x)
  BY AppendProperties
<1>2. <<x>> \in Seq(Cell) /\ <<y>> \in Seq(Cell) /\ <<x>> \o <<y>> = <<x, y>>
  <2>1. <<x>> \in Seq(Cell) /\ <<y>> \in Seq(Cell)
    OBVIOUS
  <2>2. Append(<<x>>, y) = <<x>> \o <<y>>
    BY <2>1, AppendIsConcat
  <2>3. Append(<<x>>, y) = <<x, y>>
    <3>1. PICK s \in Seq(Cell) : s = <<x>> /\ Len(s) = 1 /\ s[1] = x
      BY <2>1
    <3>2. PICK t \in Seq(Cell) : t = Append(s, y)
      BY AppendProperties
    <3>3. Len(t) = 2 /\ t[1] = x /\ t[2] = y
      BY <3>1, <3>2, AppendProperties
    <3>4. PICK w \in Seq(Cell) : w = <<x, y>> /\ Len(w) = 2 /\ w[1] = x /\ w[2] = y
      <4>1. <<x, y>> \in Seq(Cell)
        OBVIOUS
      <4>2. Len(<<x, y>>) = 2 /\ <<x, y>>[1] = x /\ <<x, y>>[2] = y
        OBVIOUS
      <4>3. QED
        BY <4>1, <4>2
    <3>5. t = w
      BY <3>3, <3>4, SeqEqual
    <3>6. QED
      BY <3>1, <3>2, <3>4, <3>5
  <2>4. QED
    BY <2>1, <2>2, <2>3
<1>3. m \o <<y>> = Append(m, y) /\ c \o <<x>> = m
  BY <1>1, OneCell
<1>4. (c \o <<x>>) \o <<y>> = c \o (<<x>> \o <<y>>)
  BY <1>2, ConcatAssociative
<1>5. QED
  BY <1>1, <1>2, <1>3, <1>4

LEMMA NewlineGrows ==
  ASSUME WatchersInv, NEW f \in File, file[f] # <<>>, file[f][Len(file[f])][2] = 1,
         NEW more, more = file[f] \o <<Newline(file[f][Len(file[f])][1])>>
  PROVE  Grown(f, more, written)
<1>1. PICK c \in Seq(Cell), n \in Nat : c = file[f] /\ n = Len(c) /\ n \in 1 .. n
  <2>1. file[f] \in Seq(Cell)
    BY DEF WatchersInv, WatchersTypes
  <2>2. Len(file[f]) \in Nat /\ Len(file[f]) \in 1 .. Len(file[f])
    BY <2>1, LenProperties, EmptySeq
  <2>3. QED
    BY <2>1, <2>2
<1>2. PICK i \in Nat : i = c[n][1] /\ i \in 1 .. written
  BY <1>1 DEF WatchersInv, Numbered
<1>3. PICK x \in Cell : x = <<i, 2>>
  BY DEF Cell
<1>4. x[1] = i /\ x[2] = 2 /\ x = Newline(i)
  BY <1>3 DEF Newline
<1>5. more = Append(c, x)
  BY <1>1, <1>2, <1>4, OneCell
<1>6. /\ more \in Seq(Cell) /\ Len(more) = n + 1 /\ more[n + 1] = x
      /\ \A k \in 1 .. n : more[k] = c[k]
      /\ \A k \in 1 .. n + 1 : k \in 1 .. n \/ k = n + 1
  BY <1>1, <1>5, OneMoreCell
<1>7. ASSUME f \notin cuts PROVE InStep(more, offsets[f], sent, Owed(f), due) /\ i \notin due
  <2>1. InStep(c, offsets[f], sent, Owed(f), due)
    BY <1>1, <1>7 DEF WatchersInv, FilesInStep
  <2>2. offsets[f] \in Int
    BY DEF WatchersInv, WatchersTypes, Unknown
  <2>3. InStep(more, offsets[f], sent, Owed(f), due)
    BY <1>1, <1>2, <1>4, <1>5, <2>1, <2>2, HalfEnds
  <2>4. i \notin due
    BY <1>1, <1>2, <2>1 DEF InStep
  <2>5. QED
    BY <2>3, <2>4
<1>8. kind # "antigravity"
  BY DEF WatchersInv, Staged
<1>9. \A k \in 1 .. n : more[k][1] \in 1 .. written
  BY <1>1, <1>6 DEF WatchersInv, Numbered
<1>10. \A k \in 1 .. n + 1 : more[k][1] \in 1 .. written /\ (k \in 1 .. n \/ \E h \in 1 .. n : c[h][1] = more[k][1])
  <2>1. more[n + 1][1] \in 1 .. written /\ \E h \in 1 .. n : c[h][1] = more[n + 1][1]
    BY <1>1, <1>2, <1>4, <1>6
  <2>2. QED
    BY <1>6, <1>9, <2>1
<1>11. f \notin cuts => \A k \in 1 .. n + 1 : more[k][2] = 2 /\ k \notin 1 .. n => more[k][1] \notin due
  BY <1>4, <1>6, <1>7
<1>12. \A k \in 1 .. Len(more) : more[k][1] \in 1 .. written /\ (k \in 1 .. Len(file[f]) \/ more[k][1] > written
         \/ \E h \in 1 .. Len(file[f]) : file[f][h][1] = more[k][1])
  BY <1>1, <1>6, <1>10
<1>13. more \in Seq(Cell) /\ Len(file[f]) <= Len(more) /\ \A k \in 1 .. Len(file[f]) : more[k] = file[f][k]
  BY <1>1, <1>6
<1>14. f \notin cuts => \A k \in 1 .. Len(more) : more[k][2] = 2 /\ k \notin 1 .. Len(file[f]) =>
         (kind = "codex" => more[k][1] \notin due) /\ (kind = "antigravity" => more[k][1] = written)
  BY <1>1, <1>6, <1>8, <1>11
<1>15. QED
  BY <1>7, <1>8, <1>12, <1>13, <1>14, Zenon DEF Grown

LEMMA FreshIsInStep ==
  ASSUME WatchersInv, NEW f \in File \ cuts, file[f] # <<>> => file[f][Len(file[f])][2] = 2,
         NEW i \in Nat, i = written + 1, NEW more, more = Append(file[f], Text(i))
  PROVE  InStep(more, offsets[f], sent, Owed(f), due)
<1>1. PICK c \in Seq(Cell) : c = file[f]
  BY DEF WatchersInv, WatchersTypes
<1>2. InStep(c, offsets[f], sent, Owed(f), due) /\ offsets[f] \in Int
  BY <1>1 DEF WatchersInv, FilesInStep, WatchersTypes, Unknown
<1>3. written \in Nat /\ i > written
  BY DEF WatchersInv, WatchersTypes
<1>4. ~Contains(sent, i)
  <2>1. ASSUME NEW a \in 1 .. Len(sent), sent[a] = i PROVE FALSE
    BY <1>3, <2>1 DEF WatchersInv, Numbered
  <2>2. QED
    BY <2>1 DEF Contains
<1>5. i \notin due
  BY <1>3 DEF WatchersInv, Numbered
<1>6. \A k \in 1 .. Len(c) : c[k][1] < i
  BY <1>1, <1>3 DEF WatchersInv, Numbered
<1>7. QED
  BY <1>1, <1>2, <1>4, <1>5, <1>6, LineBegins

LEMMA TextGrows ==
  ASSUME WatchersInv, NEW f \in File, file[f] # <<>> /\ f \notin cuts => file[f][Len(file[f])][2] = 2,
         kind # "antigravity", NEW i \in Nat, i = written + 1, NEW more, more = file[f] \o <<Text(i)>>
  PROVE  Grown(f, more, i)
<1>1. PICK c \in Seq(Cell), n \in Nat : c = file[f] /\ n = Len(c)
  BY LenProperties DEF WatchersInv, WatchersTypes
<1>2. PICK x \in Cell : x = <<i, 1>>
  BY DEF Cell
<1>3. x[1] = i /\ x[2] = 1 /\ x = Text(i)
  BY <1>2 DEF Text
<1>4. more = Append(c, x)
  BY <1>1, <1>3, OneCell
<1>5. /\ more \in Seq(Cell) /\ Len(more) = n + 1 /\ more[n + 1] = x
      /\ \A k \in 1 .. n : more[k] = c[k]
      /\ \A k \in 1 .. n + 1 : k \in 1 .. n \/ k = n + 1
  BY <1>1, <1>4, OneMoreCell
<1>6. written \in Nat
  BY DEF WatchersInv, WatchersTypes
<1>7. f \notin cuts => InStep(more, offsets[f], sent, Owed(f), due)
  BY <1>1, <1>3, <1>4, FreshIsInStep
<1>8. \A k \in 1 .. n : more[k][1] \in 1 .. i
  BY <1>1, <1>5, <1>6 DEF WatchersInv, Numbered
<1>9. \A k \in 1 .. n + 1 : more[k][1] \in 1 .. i /\ (k \in 1 .. n \/ more[k][1] > written)
  BY <1>3, <1>5, <1>6, <1>8
<1>10. \A k \in 1 .. n + 1 : more[k][2] = 2 => k \in 1 .. n
  BY <1>3, <1>5
<1>11. \A k \in 1 .. Len(more) : more[k][1] \in 1 .. i /\ (k \in 1 .. Len(file[f]) \/ more[k][1] > written
         \/ \E h \in 1 .. Len(file[f]) : file[f][h][1] = more[k][1])
  BY <1>1, <1>5, <1>9
<1>12. more \in Seq(Cell) /\ Len(file[f]) <= Len(more) /\ \A k \in 1 .. Len(file[f]) : more[k] = file[f][k]
  BY <1>1, <1>5
<1>13. \A k \in 1 .. Len(more) : ~(more[k][2] = 2 /\ k \notin 1 .. Len(file[f]))
  BY <1>1, <1>5, <1>10
<1>14. QED
  BY <1>7, <1>11, <1>12, <1>13, Zenon DEF Grown

TwoMore(c, n, x, y, mid, more) ==
  /\ mid = Append(c, x) /\ more = Append(mid, y) /\ mid # <<>> /\ mid[Len(mid)] = x
  /\ n <= Len(more) /\ more[Len(more)] = y
  /\ \A k \in 1 .. n : more[k] = c[k]
  /\ \A k \in 1 .. Len(more) : k \in 1 .. n \/ (k \notin 1 .. n /\ more[k] \in {x, y})

LEMMA TwoMoreCells ==
  ASSUME NEW c \in Seq(Cell), NEW n \in Nat, n = Len(c), NEW x \in Cell, NEW y \in Cell
  PROVE  \E mid, more \in Seq(Cell) :
           TwoMore(c, n, x, y, mid, more)
<1>1. PICK mid \in Seq(Cell) : mid = Append(c, x)
  BY AppendProperties
<1>2. /\ Len(mid) = n + 1 /\ mid[n + 1] = x
      /\ \A k \in 1 .. n : k \in 1 .. n + 1 /\ mid[k] = c[k]
      /\ \A k \in 1 .. n + 1 : k \in 1 .. n \/ k = n + 1
  BY <1>1, OneMoreCell
<1>3. PICK m \in Nat : m = n + 1 /\ m = Len(mid)
  BY <1>2
<1>4. PICK more : more = Append(mid, y)
  OBVIOUS
<1>5. /\ more \in Seq(Cell) /\ Len(more) = m + 1 /\ more[m + 1] = y
      /\ \A k \in 1 .. m : more[k] = mid[k]
      /\ \A k \in 1 .. m + 1 : k \in 1 .. m \/ k = m + 1
  BY <1>3, <1>4, OneMoreCell
<1>6. mid # <<>> /\ mid[Len(mid)] = x
  BY <1>2, <1>3, EmptySeq
<1>7. n <= Len(more) /\ more[Len(more)] = y
  BY <1>3, <1>5
<1>8. \A k \in 1 .. n : more[k] = c[k]
  BY <1>2, <1>3, <1>5
<1>9. \A k \in 1 .. Len(more) : k \in 1 .. n \/ (k \notin 1 .. n /\ more[k] \in {x, y})
  BY <1>2, <1>3, <1>5
<1>10. TwoMore(c, n, x, y, mid, more)
  BY <1>1, <1>4, <1>6, <1>7, <1>8, <1>9, Zenon DEF TwoMore
<1>11. QED
  BY <1>5, <1>10

LEMMA LineGrows ==
  ASSUME WatchersInv, NEW f \in File, file[f] # <<>> /\ f \notin cuts => file[f][Len(file[f])][2] = 2,
         NEW i \in Nat, i = written + 1
  PROVE  Grown(f, file[f] \o LineOf(i), i)
<1>1. PICK c \in Seq(Cell), n \in Nat : c = file[f] /\ n = Len(c)
  BY LenProperties DEF WatchersInv, WatchersTypes
<1>2. PICK x \in Cell, y \in Cell : x = <<i, 1>> /\ y = <<i, 2>>
  BY DEF Cell
<1>3. x[1] = i /\ x[2] = 1 /\ x = Text(i) /\ y[1] = i /\ y[2] = 2 /\ y = Newline(i)
  BY <1>2 DEF Text, Newline
<1>4. PICK mid \in Seq(Cell), more \in Seq(Cell) : TwoMore(c, n, x, y, mid, more)
  BY <1>1, TwoMoreCells
<1>5. file[f] \o LineOf(i) = more
  <2>1. c \o <<x, y>> = Append(Append(c, x), y)
    BY TwoCells
  <2>2. LineOf(i) = <<x, y>>
    BY <1>3 DEF LineOf
  <2>3. QED
    BY <1>1, <1>4, <2>1, <2>2 DEF TwoMore
<1>6. ASSUME f \notin cuts PROVE InStep(more, offsets[f], sent, Owed(f), due)
  <2>1. InStep(mid, offsets[f], sent, Owed(f), due)
    BY <1>1, <1>3, <1>4, <1>6, FreshIsInStep DEF TwoMore
  <2>2. mid # <<>> /\ mid[Len(mid)][2] = 1 /\ y = Newline(mid[Len(mid)][1])
    BY <1>3, <1>4 DEF TwoMore
  <2>3. offsets[f] \in Int
    BY DEF WatchersInv, WatchersTypes, Unknown
  <2>4. QED
    BY <1>4, <2>1, <2>2, <2>3, HalfEnds DEF TwoMore
<1>7. written \in Nat /\ \A j \in due : j <= written
  BY DEF WatchersInv, WatchersTypes, Numbered
<1>8. \A k \in 1 .. n : c[k][1] \in 1 .. i
  BY <1>1, <1>7 DEF WatchersInv, Numbered
<1>9. \A k \in 1 .. Len(more) : (k \in 1 .. n /\ more[k] = c[k]) \/ (k \notin 1 .. n /\ more[k][1] = i)
  BY <1>3, <1>4, Zenon DEF TwoMore
<1>10. \A k \in 1 .. Len(more) : more[k][1] \in 1 .. i /\ (k \in 1 .. n \/ more[k][1] > written)
  BY <1>7, <1>8, <1>9
<1>11. \A k \in 1 .. Len(more) : k \notin 1 .. n => more[k][1] = i /\ more[k][1] \notin due
  BY <1>7, <1>9
<1>12. Grown(f, more, i)
  BY <1>1, <1>3, <1>4, <1>6, <1>10, <1>11 DEF TwoMore, Grown
<1>13. QED
  BY <1>5, <1>12

Reader == <<kind, old, stage, watched, todo, offsets, sent, limits, due, broken>>

\* A file is written or cut: the invariant is kept where the new cells bear known
\* numbers or a new one, and an undamaged file has only grown.
LEMMA FileChanges ==
  ASSUME WatchersInv, UNCHANGED Reader, NEW f \in File, NEW more \in Seq(Cell), NEW i \in Nat, written <= i,
         file' = [file EXCEPT ![f] = more], written' = i, cuts \subseteq cuts',
         \A k \in 1 .. Len(more) : more[k][1] \in 1 .. i /\ (more[k][1] > written
            \/ \E h \in 1 .. Len(file[f]) : file[f][h][1] = more[k][1]),
         f \notin cuts' => InStep(more, offsets[f], sent, Owed(f), due)
            /\ \A k \in 1 .. Len(file[f]) : more[k] = file[f][k],
         WillBeRead', Staged'
  PROVE  WatchersInv'
<1>1. WatchersTypes
  BY DEF WatchersInv
<1>2. /\ file' \in [File -> Seq(Cell)] /\ file'[f] = more /\ \A g \in File \ {f} : file'[g] = file[g]
      /\ written \in Nat
  BY <1>1 DEF WatchersTypes
<1>3. WatchersTypes'
  BY <1>1, <1>2 DEF WatchersTypes, Reader
<1>4. Numbered'
  <2>1. ASSUME NEW g \in File, NEW k \in 1 .. Len(file'[g]) PROVE file'[g][k][1] \in 1 .. i
    <3>1. CASE g = f
      BY <1>2, <2>1, <3>1
    <3>2. CASE g # f
      <4>1. file[g][k][1] \in 1 .. written
        BY <1>2, <2>1, <3>2 DEF WatchersInv, Numbered
      <4>2. QED
        BY <1>2, <3>2, <4>1
    <3>3. QED
      BY <3>1, <3>2
  <2>2. \A a \in 1 .. Len(sent) : sent[a] <= i
    <3>1. ASSUME NEW a \in 1 .. Len(sent) PROVE sent[a] <= i
      <4>1. sent[a] \in Nat /\ sent[a] <= written
        BY <1>1, ElementOfSeq DEF WatchersInv, WatchersTypes, Numbered
      <4>2. QED
        BY <1>2, <4>1
    <3>2. QED
      BY <3>1
  <2>3. \A j \in due : j \in Nat /\ j <= i
    BY <1>2 DEF WatchersInv, Numbered
  <2>4. QED
    BY <2>1, <2>2, <2>3 DEF Numbered, Reader
<1>5. Disjoint'
  <2>1. ASSUME NEW g \in File \ {f}, NEW h \in 1 .. Len(more), NEW k \in 1 .. Len(file[g]), more[h][1] = file[g][k][1]
        PROVE  FALSE
    <3>1. file[g][k][1] \in 1 .. written
      BY DEF WatchersInv, Numbered
    <3>2. PICK l \in 1 .. Len(file[f]) : file[f][l][1] = more[h][1]
      <4>1. ~(more[h][1] > written)
        BY <1>2, <2>1, <3>1
      <4>2. QED
        BY <4>1
    <3>3. QED
      BY <2>1, <3>2 DEF WatchersInv, Disjoint
  <2>2. ASSUME NEW e \in File, NEW g \in File, NEW h \in 1 .. Len(file'[e]), NEW k \in 1 .. Len(file'[g]),
               file'[e][h][1] = file'[g][k][1]
        PROVE  e = g
    <3>1. CASE e = f /\ g # f
      BY <1>2, <2>1, <2>2, <3>1
    <3>2. CASE e # f /\ g = f
      BY <1>2, <2>1, <2>2, <3>2
    <3>3. CASE e # f /\ g # f
      BY <1>2, <2>2, <3>3 DEF WatchersInv, Disjoint
    <3>4. QED
      BY <3>1, <3>2, <3>3
  <2>3. QED
    BY <2>2 DEF Disjoint
<1>6. FilesInStep'
  <2>1. ASSUME NEW g \in File \ cuts' PROVE InStep(file'[g], offsets[g], sent, Owed(g), due)
    <3>1. CASE g = f
      BY <1>2, <3>1
    <3>2. CASE g # f
      <4>1. InStep(file[g], offsets[g], sent, Owed(g), due)
        BY DEF WatchersInv, FilesInStep
      <4>2. QED
        BY <1>2, <3>2, <4>1
    <3>3. QED
      BY <3>1, <3>2
  <2>2. \A g : Owed(g)' = Owed(g)
    BY DEF Reader, Owed
  <2>3. QED
    BY <2>1, <2>2 DEF FilesInStep, Reader
<1>7. LimitsAreRead'
  <2>1. ASSUME cuts' = {}, limits # 0 PROVE \E g \in File : offsets[g] >= 1 /\ limits = file'[g][offsets[g]][1]
    <3>1. PICK g \in File : offsets[g] >= 1 /\ limits = file[g][offsets[g]][1]
      BY <2>1 DEF WatchersInv, LimitsAreRead
    <3>2. CASE g # f
      BY <1>2, <3>1, <3>2
    <3>3. CASE g = f
      <4>1. InStep(file[f], offsets[f], sent, Owed(f), due)
        BY <2>1 DEF WatchersInv, FilesInStep
      <4>2. offsets[f] \in 1 .. Len(file[f])
        BY <3>1, <3>3, <4>1 DEF InStep, AtEnd, IsEnd
      <4>3. more[offsets[f]] = file[f][offsets[f]]
        BY <2>1, <4>2
      <4>4. QED
        BY <1>2, <3>1, <3>3, <4>3
    <3>4. QED
      BY <3>2, <3>3
  <2>2. QED
    BY <2>1 DEF WatchersInv, LimitsAreRead, Reader
<1>8. QED
  BY <1>3, <1>4, <1>5, <1>6, <1>7 DEF WatchersInv

LEMMA GrownKeeps ==
  ASSUME WatchersInv, UNCHANGED <<Reader, cuts>>, NEW f \in File, NEW more,
         NEW i \in Nat, i \in {written, written + 1},
         Grown(f, more, i), file' = [file EXCEPT ![f] = more], written' = i, Noticed(f),
         missed' = IF kind = "antigravity" /\ stage = "scan" /\ ~Contains(todo, f)
                   THEN missed \cup {i} ELSE missed
  PROVE  WatchersInv'
<1>1. WatchersTypes /\ file \in [File -> Seq(Cell)] /\ written \in Nat
  BY DEF WatchersInv, WatchersTypes
<1>2. file'[f] = more /\ \A g \in File \ {f} : file'[g] = file[g]
  BY <1>1
<1>3. more \in Seq(Cell) /\ \A k \in 1 .. Len(file[f]) : more[k] = file[f][k]
  BY DEF Grown
<1>4. \A k \in 1 .. Len(more) : more[k][1] \in 1 .. i /\ (more[k][1] > written
         \/ \E h \in 1 .. Len(file[f]) : file[f][h][1] = more[k][1])
  <2>1. ASSUME NEW k \in 1 .. Len(more)
        PROVE  more[k][1] > written \/ \E h \in 1 .. Len(file[f]) : file[f][h][1] = more[k][1]
    BY <1>3, <2>1 DEF Grown
  <2>2. \A k \in 1 .. Len(more) : more[k][1] \in 1 .. i
    BY DEF Grown
  <2>3. QED
    BY <2>1, <2>2
<1>5. WillBeRead'
  <2>1. /\ notices \subseteq notices'
        /\ watched = TRUE => f \in notices'
        /\ missed \subseteq missed'
        /\ kind = "antigravity" /\ stage = "scan" /\ ~Contains(todo, f) => i \in missed'
    BY DEF Noticed
  <2>2. ASSUME stage \in {"scan", "live"}, NEW g \in File \ cuts, NEW k \in 1 .. Len(file'[g]), IsEnd(file'[g], k)
        PROVE  \/ k <= offsets[g] \/ Contains(todo, g)
               \/ kind = "codex" /\ file'[g][k][1] \notin due
               \/ kind # "codex" /\ g \in notices'
               \/ kind = "antigravity" /\ file'[g][k][1] \in missed'
               \/ g \in broken \/ (kind = "claude" /\ g \in DeepFile /\ offsets[g] = Unknown)
    <3>1. CASE g # f
      <4>1. Reached(g, k)
        BY <1>2, <2>2, <3>1 DEF WatchersInv, WillBeRead
      <4>2. QED
        BY <1>2, <2>1, <3>1, <4>1 DEF Reached
    <3>2. CASE g = f /\ k \in 1 .. Len(file[f])
      <4>1. more[k] = file[f][k] /\ IsEnd(file[f], k)
        BY <1>2, <1>3, <2>2, <3>2 DEF IsEnd
      <4>2. Reached(f, k)
        BY <2>2, <3>2, <4>1 DEF WatchersInv, WillBeRead
      <4>3. QED
        BY <1>2, <2>1, <3>2, <4>1, <4>2 DEF Reached
    <3>3. CASE g = f /\ k \notin 1 .. Len(file[f])
      <4>1. (kind = "codex" => more[k][1] \notin due) /\ (kind = "antigravity" => more[k][1] = i)
        BY <1>2, <2>2, <3>3 DEF Grown, IsEnd
      <4>2. CASE kind = "codex"
        BY <1>2, <3>3, <4>1, <4>2
      <4>3. CASE kind = "claude"
        <5>1. watched = TRUE
          BY <2>2, <4>3 DEF WatchersInv, Staged
        <5>2. QED
          BY <2>1, <3>3, <4>3, <5>1
      <4>4. CASE kind = "antigravity"
        BY <1>2, <2>1, <2>2, <3>3, <4>1, <4>4 DEF WatchersInv, Staged
      <4>5. QED
        BY <1>1, <4>2, <4>3, <4>4 DEF WatchersTypes
    <3>4. QED
      BY <3>1, <3>2, <3>3
  <2>3. QED
    BY <2>2 DEF WillBeRead, Reached, Reader
<1>6. Staged'
  <2>1. kind = "antigravity" => \A g \in File : file'[g] # <<>> => file'[g][Len(file'[g])][2] = 2
    <3>1. ASSUME kind = "antigravity", NEW g \in File, file'[g] # <<>> PROVE file'[g][Len(file'[g])][2] = 2
      <4>1. CASE g = f
        BY <1>2, <3>1, <4>1 DEF Grown
      <4>2. CASE g # f
        BY <1>2, <3>1, <4>2 DEF WatchersInv, Staged
      <4>3. QED
        BY <4>1, <4>2
    <3>2. QED
      BY <3>1
  <2>2. QED
    BY <2>1 DEF WatchersInv, Staged, Reader
<1>7. UNCHANGED Reader /\ cuts \subseteq cuts' /\ written <= i
  BY <1>1
<1>8. f \notin cuts' => /\ InStep(more, offsets[f], sent, Owed(f), due)
                        /\ \A k \in 1 .. Len(file[f]) : more[k] = file[f][k]
  BY <1>3 DEF Grown
<1>9. QED
  BY <1>3, <1>4, <1>5, <1>6, <1>7, <1>8, FileChanges

LEMMA WriteKeeps == ASSUME WatchersInv, NEW f \in File, Write(f) PROVE WatchersInv'
<1> DEFINE last == file[f][Len(file[f])]
           open == file[f] # <<>> /\ last[2] = 1
           closed == ~open \/ f \in cuts
           Added(new, i) ==
             /\ file' = [file EXCEPT ![f] = file[f] \o new] /\ written' = i
             /\ missed' = IF kind = "antigravity" /\ stage = "scan" /\ ~Contains(todo, f)
                          THEN missed \cup {i} ELSE missed
<1>1. /\ UNCHANGED <<Reader, cuts>> /\ Noticed(f)
      /\ \/ open /\ Added(<<Newline(last[1])>>, written)
         \/ closed /\ Added(LineOf(written + 1), written + 1)
         \/ closed /\ kind # "antigravity" /\ Added(<<Text(written + 1)>>, written + 1)
  BY DEF Write, Last, Reader
<1>2. written \in Nat /\ written + 1 \in Nat
  BY DEF WatchersInv, WatchersTypes
<1>3. closed => (file[f] # <<>> /\ f \notin cuts => last[2] = 2)
  <2>1. ASSUME file[f] # <<>> PROVE last[2] \in {1, 2}
    <3>1. file[f] \in Seq(Cell)
      BY DEF WatchersInv, WatchersTypes
    <3>2. Len(file[f]) \in 1 .. Len(file[f])
      BY <2>1, <3>1, LenProperties, EmptySeq
    <3>3. QED
      BY <3>1, <3>2, CellIsPair
  <2>2. QED
    BY <2>1
<1>4. CASE open /\ Added(<<Newline(last[1])>>, written)
  <2>1. PICK more : more = file[f] \o <<Newline(last[1])>>
    OBVIOUS
  <2>2. Grown(f, more, written)
    BY <1>4, <2>1, NewlineGrows
  <2>3. /\ file' = [file EXCEPT ![f] = more] /\ written' = written
        /\ missed' = IF kind = "antigravity" /\ stage = "scan" /\ ~Contains(todo, f)
                     THEN missed \cup {written} ELSE missed
    BY <1>4, <2>1
  <2>4. QED
    BY <1>1, <1>2, <2>2, <2>3, GrownKeeps
<1>5. CASE closed /\ Added(LineOf(written + 1), written + 1)
  <2>1. PICK i \in Nat : i = written + 1
    BY <1>2
  <2>2. PICK more : more = file[f] \o LineOf(i)
    OBVIOUS
  <2>3. Grown(f, more, i)
    BY <1>3, <1>5, <2>1, <2>2, LineGrows
  <2>4. /\ file' = [file EXCEPT ![f] = more] /\ written' = i
        /\ missed' = IF kind = "antigravity" /\ stage = "scan" /\ ~Contains(todo, f)
                     THEN missed \cup {i} ELSE missed
    BY <1>5, <2>1, <2>2
  <2>5. QED
    BY <1>1, <2>1, <2>3, <2>4, GrownKeeps
<1>6. CASE closed /\ kind # "antigravity" /\ Added(<<Text(written + 1)>>, written + 1)
  <2>1. PICK i \in Nat : i = written + 1
    BY <1>2
  <2>2. PICK more : more = file[f] \o <<Text(i)>>
    OBVIOUS
  <2>3. Grown(f, more, i)
    BY <1>3, <1>6, <2>1, <2>2, TextGrows
  <2>4. /\ file' = [file EXCEPT ![f] = more] /\ written' = i
        /\ missed' = IF kind = "antigravity" /\ stage = "scan" /\ ~Contains(todo, f)
                     THEN missed \cup {i} ELSE missed
    BY <1>6, <2>1, <2>2
  <2>5. QED
    BY <1>1, <2>1, <2>3, <2>4, GrownKeeps
<1>7. QED
  BY <1>1, <1>4, <1>5, <1>6

LEMMA CutKeeps == ASSUME WatchersInv, NEW f \in File, Cut(f) PROVE WatchersInv'
<1>1. WatchersTypes /\ file[f] \in Seq(Cell) /\ Len(file[f]) \in Nat /\ written \in Nat
  BY LenProperties DEF WatchersInv, WatchersTypes
<1>2. PICK n \in 0 .. Len(file[f]) - 1 : file' = [file EXCEPT ![f] = SubSeq(file[f], 1, n)]
  BY DEF Cut
<1>3. n \in Nat /\ n <= Len(file[f])
  BY <1>1, <1>2
<1>4. \A k \in 1 .. n : file[f][k] \in Cell
  BY <1>1, <1>3, ElementOfSeq
<1>5. PICK more : more = SubSeq(file[f], 1, n)
  OBVIOUS
<1>6. more \in Seq(Cell) /\ Len(more) = n /\ \A k \in 1 .. n : more[k] = file[f][k]
  <2>1. /\ more \in Seq(Cell) /\ Len(more) = IF 1 <= n THEN n - 1 + 1 ELSE 0
        /\ \A k \in 1 .. n - 1 + 1 : more[k] = file[f][1 + k - 1]
    BY <1>3, <1>4, <1>5, SubSeqProperties
  <2>2. n - 1 + 1 = n /\ (~(1 <= n) => n = 0) /\ \A k \in 1 .. n : 1 + k - 1 = k
    BY <1>3
  <2>3. QED
    BY <2>1, <2>2
<1>7. /\ UNCHANGED Reader /\ written' = written /\ cuts' = cuts \cup {f} /\ missed' = missed
      /\ file' = [file EXCEPT ![f] = more] /\ kind # "antigravity" /\ Noticed(f)
  BY <1>2, <1>5 DEF Cut, Reader
<1>8. \A k \in 1 .. Len(more) : more[k][1] \in 1 .. written /\ \E h \in 1 .. Len(file[f]) : file[f][h][1] = more[k][1]
  <2>1. ASSUME NEW k \in 1 .. Len(more)
        PROVE  more[k][1] \in 1 .. written /\ \E h \in 1 .. Len(file[f]) : file[f][h][1] = more[k][1]
    <3>1. k \in 1 .. Len(file[f]) /\ more[k] = file[f][k]
      BY <1>1, <1>3, <1>6
    <3>2. QED
      BY <3>1 DEF WatchersInv, Numbered
  <2>2. QED
    BY <2>1
<1>9. WillBeRead'
  <2>1. notices \subseteq notices'
    BY <1>7 DEF Noticed
  <2>2. ASSUME stage \in {"scan", "live"}, NEW g \in File \ cuts', NEW k \in 1 .. Len(file'[g]), IsEnd(file'[g], k)
        PROVE  \/ k <= offsets[g] \/ Contains(todo, g)
               \/ kind = "codex" /\ file'[g][k][1] \notin due
               \/ kind # "codex" /\ g \in notices'
               \/ g \in broken \/ (kind = "claude" /\ g \in DeepFile /\ offsets[g] = Unknown)
    <3>1. g # f /\ g \in File \ cuts /\ file'[g] = file[g]
      BY <1>1, <1>7 DEF WatchersTypes
    <3>2. Reached(g, k)
      BY <2>2, <3>1 DEF WatchersInv, WillBeRead
    <3>3. QED
      BY <1>7, <2>1, <3>1, <3>2 DEF Reached
  <2>3. QED
    BY <1>7, <2>2 DEF WillBeRead, Reached, Reader
<1>10. Staged'
  BY <1>7 DEF WatchersInv, Staged, Reader
<1>11. cuts \subseteq cuts' /\ f \in cuts' /\ written <= written
  BY <1>1, <1>7
<1>12. QED
  BY <1>1, <1>6, <1>7, <1>8, <1>9, <1>10, <1>11, FileChanges

LEMMA FirstInStep ==
  ASSUME NEW c, c = <<>> \/ c = LineOf(1), NEW u, NEW d
  PROVE  InStep(c, Unknown, <<>>, u, d)
<1>1. Len(<<>>) = 0
  OBVIOUS
<1>2. ~\E a \in 1 .. 0 : TRUE
  OBVIOUS
<1>3. \A i : ~Contains(<<>>, i)
  BY <1>1, <1>2 DEF Contains
<1>4. CASE c = <<>>
  BY <1>1, <1>2, <1>3, <1>4 DEF InStep, Shape, AtEnd, Unknown
<1>5. CASE c = LineOf(1)
  <2>1. c = <<<<1, 1>>, <<1, 2>>>>
    BY <1>5 DEF LineOf, Text, Newline
  <2>2. Len(c) = 2 /\ c[1] = <<1, 1>> /\ c[2] = <<1, 2>> /\ \A k \in 1 .. 2 : k = 1 \/ k = 2
    BY <2>1
  <2>3. c[1][1] = 1 /\ c[1][2] = 1 /\ c[2][1] = 1 /\ c[2][2] = 2
    BY <2>2
  <2>4. Text(1) = c[1] /\ Newline(1) = c[2]
    BY <2>2 DEF Text, Newline
  <2>5. Shape(c)
    <3>1. \A k \in 1 .. 2 : c[k][2] = 2 => k = 2
      BY <2>2, <2>3
    <3>2. \A k \in 1 .. 2 : c[k][2] = 1 => k = 1
      BY <2>2, <2>3
    <3>3. QED
      BY <2>2, <2>3, <2>4, <3>1, <3>2 DEF Shape
  <2>6. \A k \in 1 .. 2 : ~(k <= Unknown)
    BY DEF Unknown
  <2>7. \A k \in 1 .. 2 : ~(c[k][2] = 1 /\ k = 2)
    BY <2>3
  <2>8. AtEnd(c, Unknown)
    BY DEF AtEnd, Unknown
  <2>9. QED
    BY <1>1, <1>2, <1>3, <2>2, <2>5, <2>6, <2>7, <2>8 DEF InStep
<1>6. QED
  BY <1>4, <1>5

LEMMA WatchersStart == WatchersInit => WatchersInv
<1> SUFFICES ASSUME WatchersInit PROVE WatchersInv
  OBVIOUS
<1>1. PICK f0 \in File : file = [f \in File |-> IF f = f0 /\ written = 1 THEN LineOf(1) ELSE <<>>]
  BY DEF WatchersInit
<1>2. /\ written \in 0 .. 1 /\ stage = "start" /\ watched = FALSE /\ todo = <<>> /\ sent = <<>> /\ limits = 0
      /\ offsets = [f \in File |-> Unknown] /\ cuts = {} /\ due = {} /\ kind \in {"claude", "codex", "antigravity"}
  BY WatchersAssumption DEF WatchersInit
<1>3. \A f \in File : file[f] = <<>> \/ (f = f0 /\ written = 1 /\ file[f] = LineOf(1))
  BY <1>1
<1>4. PICK x \in Cell, y \in Cell : x = <<1, 1>> /\ y = <<1, 2>>
  BY DEF Cell
<1>5. LineOf(1) = <<x, y>>
  BY <1>4 DEF LineOf, Text, Newline
<1>6. LineOf(1) \in Seq(Cell) /\ Len(LineOf(1)) = 2 /\ LineOf(1)[1] = x /\ LineOf(1)[2] = y
  <2>1. <<x, y>> \in Seq(Cell)
    OBVIOUS
  <2>2. Len(<<x, y>>) = 2 /\ <<x, y>>[1] = x /\ <<x, y>>[2] = y
    OBVIOUS
  <2>3. QED
    BY <1>5, <2>1, <2>2
<1>7. x[1] = 1 /\ y[1] = 1 /\ y[2] = 2 /\ \A k \in 1 .. 2 : k = 1 \/ k = 2
  BY <1>4
<1>8. Len(<<>>) = 0 /\ (~\E k \in 1 .. 0 : TRUE)
  OBVIOUS
<1>9. WatchersTypes
  <2>1. \A f \in File : file[f] \in Seq(Cell)
    BY <1>3, <1>6, EmptySeq
  <2>2. file \in [File -> Seq(Cell)]
    BY <1>1, <2>1
  <2>3. written \in Nat
    BY <1>2
  <2>4. QED
    BY <1>2, <2>2, <2>3, EmptySeq DEF WatchersTypes
<1>10. \A f \in File : \A k \in 1 .. Len(file[f]) : f = f0 /\ file[f][k][1] = 1 /\ written = 1
  BY <1>3, <1>6, <1>7, <1>8
<1>11. Numbered
  BY <1>2, <1>8, <1>10 DEF Numbered
<1>12. Disjoint
  BY <1>10 DEF Disjoint
<1>13. FilesInStep
  <2>1. ASSUME NEW f \in File PROVE InStep(file[f], offsets[f], sent, Owed(f), due)
    <3>1. offsets[f] = Unknown
      BY <1>2
    <3>2. InStep(file[f], Unknown, <<>>, Owed(f), due)
      BY <1>3, FirstInStep
    <3>3. QED
      BY <1>2, <3>1, <3>2
  <2>2. QED
    BY <2>1 DEF FilesInStep
<1>14. WillBeRead
  BY <1>2 DEF WillBeRead
<1>15. Staged
  BY <1>2, <1>3, <1>6, <1>7 DEF Staged
<1>16. LimitsAreRead
  BY <1>2 DEF LimitsAreRead
<1>17. QED
  BY <1>1, <1>9, <1>11, <1>12, <1>13, <1>14, <1>15, <1>16 DEF WatchersInv

LEMMA WatchersStep == WatchersInv /\ [WatchersNext]_watchersVars => WatchersInv'
<1> SUFFICES ASSUME WatchersInv, [WatchersNext]_watchersVars PROVE WatchersInv'
  OBVIOUS
<1>1. ASSUME NEW f \in File, Write(f) PROVE WatchersInv'
  BY <1>1, WriteKeeps
<1>2. ASSUME NEW f \in File, Cut(f) PROVE WatchersInv'
  BY <1>2, CutKeeps
<1>3. ASSUME NEW f \in File, TakeNotice(f) PROVE WatchersInv'
  BY <1>3, TakeNoticeKeeps
<1>4. CASE Register
  BY <1>4, RegisterKeeps
<1>5. CASE StartScan
  BY <1>5, StartScanKeeps
<1>6. CASE ScanNext \/ PollNext
  BY <1>6, ReadStepsKeep
<1>7. CASE ScanDone \/ PollDone
  BY <1>7, DoneKeeps
<1>8. CASE Poll
  BY <1>8, PollKeeps
<1>9. CASE UNCHANGED watchersVars
  BY <1>9 DEF watchersVars, watcherVars, WatchersInv, WatchersTypes, Numbered, Disjoint, FilesInStep, Owed,
              WillBeRead, Reached, Staged, LimitsAreRead
<1>10. QED
  BY <1>1, <1>2, <1>3, <1>4, <1>5, <1>6, <1>7, <1>8, <1>9 DEF WatchersNext

\* The number at the offset is that of the last line read.
LEMMA LastReadIs ==
  ASSUME WatchersInv, NEW f \in File \ cuts, offsets[f] >= 1
  PROVE  LastRead(f) = file[f][offsets[f]][1]
<1>1. PICK c \in Seq(Cell), o \in Nat : c = file[f] /\ o = offsets[f] /\ o \in 1 .. Len(c) /\ IsEnd(c, o) /\ Shape(c)
  <2>1. file[f] \in Seq(Cell) /\ offsets[f] \in Nat
    BY DEF WatchersInv, WatchersTypes, Unknown
  <2>2. InStep(file[f], offsets[f], sent, Owed(f), due)
    BY DEF WatchersInv, FilesInStep
  <2>3. QED
    BY <2>1, <2>2 DEF InStep, AtEnd, IsEnd
<1>2. DOMAIN c = 1 .. Len(c) /\ written \in Nat /\ Len(c) \in Nat
  BY LengthIs DEF WatchersInv, WatchersTypes
<1>3. PICK i \in 1 .. written : i = c[o][1]
  BY <1>1 DEF WatchersInv, Numbered
<1>4. c[o] = Newline(i)
  BY <1>1, <1>3, CellIsPair DEF IsEnd, Newline
<1>5. PICK S : S = {0} \cup {j \in Lines(f) : \E k \in 1 .. o : c[k] = Newline(j)}
  OBVIOUS
<1>6. i \in S
  <2>1. o \in 1 .. o /\ o \in DOMAIN file[f]
    BY <1>1, <1>2
  <2>2. i \in Lines(f)
    BY <1>1, <1>3, <1>4, <2>1 DEF Lines
  <2>3. QED
    BY <1>4, <1>5, <2>1, <2>2
<1>7. ASSUME NEW j \in S PROVE j \in Nat /\ j <= i
  <2>1. CASE j = 0
    BY <1>3, <2>1
  <2>2. ASSUME j # 0 PROVE j \in Nat /\ j <= i
    <3>1. PICK k \in 1 .. o : c[k] = Newline(j)
      BY <1>5, <2>2
    <3>2. j \in 1 .. written
      BY <1>5, <2>2 DEF Lines
    <3>3. c[k][1] = j /\ c[k][2] = 2
      BY <3>1 DEF Newline
    <3>4. k \in 1 .. Len(c)
      BY <1>1, <1>2
    <3>5. CASE k = o
      BY <1>3, <3>2, <3>3, <3>5
    <3>6. CASE k < o
      <4>1. c[k][1] < c[o][1]
        BY <1>1, <3>3, <3>4, <3>6 DEF Shape
      <4>2. QED
        BY <1>3, <3>2, <3>3, <4>1
    <3>7. QED
      BY <1>1, <3>5, <3>6
  <2>3. QED
    BY <2>1, <2>2
<1>8. S \subseteq Nat /\ S # {} /\ i \in Nat /\ \A t \in S : t <= i
  BY <1>3, <1>6, <1>7
<1>9. Max(S) \in S /\ \A t \in S : t <= Max(S)
  BY <1>8, MaxIs
<1>10. Max(S) \in Nat /\ Max(S) <= i /\ i <= Max(S)
  BY <1>6, <1>8, <1>9
<1>11. LastRead(f) = Max(S)
  BY <1>1, <1>5 DEF LastRead
<1>12. QED
  BY <1>1, <1>3, <1>8, <1>10, <1>11

LEMMA LineIsAt ==
  ASSUME WatchersInv, NEW f \in File, NEW i \in Lines(f)
  PROVE  \E k \in 1 .. Len(file[f]) : IsEnd(file[f], k) /\ file[f][k][1] = i /\ i \in Nat
<1>1. PICK k \in DOMAIN file[f] : file[f][k] = Newline(i)
  BY DEF Lines
<1>2. k \in 1 .. Len(file[f])
  BY <1>1, LengthIs DEF WatchersInv, WatchersTypes
<1>3. i \in Nat
  BY DEF Lines
<1>4. QED
  BY <1>1, <1>2, <1>3 DEF IsEnd, Newline

LEMMA InStepCountsOnce ==
  ASSUME WatchersInv
  PROVE  EachLineOnce
<1>1. sent \in Seq(Nat) /\ DOMAIN sent = 1 .. Len(sent) /\ kind \in {"claude", "codex", "antigravity"}
  BY LengthIs DEF WatchersInv, WatchersTypes
<1>2. \A i : Contains(sent, i) => i \in Range(sent)
  BY <1>1 DEF Contains, Range
<1>3. ASSUME NEW f \in File \ cuts, NEW i \in DOMAIN sent, NEW j \in DOMAIN sent, i < j,
             {sent[i], sent[j]} \subseteq Lines(f)
      PROVE  sent[i] < sent[j]
  <2>1. InStep(file[f], offsets[f], sent, Owed(f), due)
    BY DEF WatchersInv, FilesInStep
  <2>2. PICK h \in 1 .. Len(file[f]) : IsEnd(file[f], h) /\ file[f][h][1] = sent[i]
    BY <1>3, LineIsAt
  <2>3. PICK k \in 1 .. Len(file[f]) : IsEnd(file[f], k) /\ file[f][k][1] = sent[j]
    BY <1>3, LineIsAt
  <2>4. h < k
    BY <1>1, <1>3, <2>1, <2>2, <2>3 DEF InStep
  <2>5. QED
    BY <2>1, <2>2, <2>3, <2>4 DEF InStep, Shape, IsEnd
<1>4. ASSUME stage = "live", NEW f \in File \ cuts, NEW i \in Lines(f), i \in Owed(f),
             kind = "codex" => i \in due, kind # "codex" => f \notin notices,
             kind = "antigravity" => i \notin missed, f \notin broken,
             kind = "claude" => f \notin DeepFile \/ offsets[f] # Unknown
      PROVE  i \in Range(sent)
  <2>1. InStep(file[f], offsets[f], sent, Owed(f), due)
    BY DEF WatchersInv, FilesInStep
  <2>2. PICK k \in 1 .. Len(file[f]) : IsEnd(file[f], k) /\ file[f][k][1] = i
    BY LineIsAt
  <2>3. Reached(f, k)
    BY <1>4, <2>2 DEF WatchersInv, WillBeRead
  <2>4. ~Contains(todo, f)
    BY <1>4 DEF WatchersInv, Staged, Contains
  <2>5. k <= offsets[f]
    BY <1>4, <2>2, <2>3, <2>4 DEF Reached
  <2>6. Contains(sent, i)
    BY <1>4, <2>1, <2>2, <2>5 DEF InStep
  <2>7. QED
    BY <1>2, <2>6
<1>5. ASSUME stage = "live", NEW f \in File \ (cuts \union broken), kind = "codex"
      PROVE  (Lines(f) \intersect due) \ old \subseteq Range(sent)
  <2>1. ASSUME NEW i \in Lines(f), i \in due, i \notin old PROVE i \in Range(sent)
    <3>1. i \in Owed(f)
      BY <1>5, <2>1, LineIsAt DEF Owed
    <3>2. QED
      BY <1>4, <1>5, <2>1, <3>1
  <2>2. QED
    BY <2>1
<1>6. ASSUME stage = "live", NEW f \in File \ (cuts \union broken), kind # "codex", f \notin notices \union PingFile,
             ~(kind = "claude" /\ f \in DeepFile /\ offsets[f] = Unknown)
      PROVE  Lines(f) \ (IF kind = "claude" THEN {} ELSE old \union missed) \subseteq Range(sent)
  <2>1. ASSUME NEW i \in Lines(f), kind = "claude" \/ i \notin old \union missed PROVE i \in Range(sent)
    <3>1. i \in Owed(f)
      BY <1>6, <2>1, LineIsAt DEF Owed
    <3>2. QED
      BY <1>4, <1>6, <2>1, <3>1
  <2>2. QED
    BY <2>1
<1>7. ASSUME cuts = {} PROVE \E f \in File : limits \in {0, LastRead(f)}
  <2>1. CASE limits = 0
    BY <2>1 DEF WatchersInv
  <2>2. CASE limits # 0
    <3>1. PICK f \in File : offsets[f] >= 1 /\ limits = file[f][offsets[f]][1]
      BY <1>7, <2>2 DEF WatchersInv, LimitsAreRead
    <3>2. LastRead(f) = limits
      BY <1>7, <3>1, LastReadIs
    <3>3. QED
      BY <3>2
  <2>3. QED
    BY <2>1, <2>2
<1>8. QED
  BY <1>3, <1>5, <1>6, <1>7 DEF EachLineOnce

\* Whatever is written while the watcher starts, scans or polls, in whole lines or in
\* halves, however often a notice comes for what was read already, and wherever a read
\* fails or breaks off, each line of a file that was not cut is sent once and in order
\* (walk_jsonl and tail_file, watchers/claude.rs:209-261; tail_rollout,
\* watchers/codex.rs:272-342; tail_conversation_db, watchers/antigravity.rs:456-541).
THEOREM EveryLineOnce == WatchersSpec => []EachLineOnce
<1>1. WatchersInv => EachLineOnce
  BY InStepCountsOnce
<1>2. QED
  BY WatchersStart, WatchersStep, <1>1, PTL DEF WatchersSpec

-------------------------------------------------------------------------------
(* The ranges of the aggregator *)

LEMMA SeqNarrowed ==
  ASSUME NEW S, NEW T, NEW s \in Seq(S), \A k \in 1 .. Len(s) : s[k] \in T
  PROVE  s \in Seq(T)
  BY IsASeq, LenProperties

\* What the types say besides UsageTypes, and that the ring is not longer than the log.
UsageRange ==
  /\ clock \in Clock /\ Len(log) <= MaxEvents /\ Len(ring) <= Len(log) /\ ring \in Seq(Nat)
  /\ (\A i \in 1 .. Len(ring) : ring[i] <= MaxTime)
  /\ cells \in [0 .. NumBuckets - 1 -> [start : Clock, tokens : 0 .. CounterMax]]
  /\ times \subseteq Clock
  /\ sessions \in [Session -> [last : Clock \cup {-1}, preview : BOOLEAN]]

LEMMA UsageRangeStart == UsageInit => UsageRange
<1> SUFFICES ASSUME UsageInit PROVE UsageRange
  OBVIOUS
<1>1. MaxTime \in Nat /\ MaxEvents \in Nat /\ CounterMax \in Nat /\ 0 \in Clock
  BY UsageAssumption DEF Clock
<1>2. log = <<>> /\ ring = <<>> /\ Len(log) = 0 /\ Len(ring) = 0 /\ ring \in Seq(Nat)
  BY EmptySeq DEF UsageInit
<1>3. cells \in [0 .. NumBuckets - 1 -> [start : Clock, tokens : 0 .. CounterMax]]
  BY <1>1 DEF UsageInit
<1>4. QED
  BY <1>1, <1>2, <1>3 DEF UsageInit, UsageRange, Empty

\* The start of the bucket of a stamp is not after it.
LEMMA BucketStartIs ==
  ASSUME NEW ts \in Clock
  PROVE  BucketStart(ts) \in Clock
<1>1. PICK q \in Int : q = ts \div Bucket
  BY UsageAssumption DEF Clock
<1>2. ts \in Nat /\ Bucket \in Nat \ {0} /\ MaxTime \in Nat /\ ts <= MaxTime
  BY UsageAssumption DEF Clock
<1>3. q >= 0 /\ q * Bucket <= ts /\ q * Bucket >= 0
  BY <1>1, <1>2
<1>4. QED
  BY <1>1, <1>2, <1>3 DEF BucketStart, Clock

LEMMA PrunedStays ==
  ASSUME NEW evs \in Seq(Nat), NEW at \in Int, \A i \in 1 .. Len(evs) : evs[i] <= MaxTime
  PROVE  /\ Pruned(evs, at) \in Seq(Nat) /\ Len(Pruned(evs, at)) <= Len(evs)
         /\ \A i \in 1 .. Len(Pruned(evs, at)) : Pruned(evs, at)[i] <= MaxTime
<1>1. PICK left : left = Pruned(evs, at)
  OBVIOUS
<1>2. Len(evs) \in Nat
  BY LenProperties
<1>3. /\ left \in Seq(Nat)
      /\ \E m \in 1 .. Len(evs) + 1 :
           /\ Len(left) = Len(evs) - m + 1
           /\ \A i \in 1 .. Len(evs) - m + 1 : left[i] = evs[i + m - 1]
  BY <1>1, PrunedIs
<1>4. PICK m \in 1 .. Len(evs) + 1 :
        Len(left) = Len(evs) - m + 1 /\ \A i \in 1 .. Len(evs) - m + 1 : left[i] = evs[i + m - 1]
  BY <1>3
<1>5. \A i \in 1 .. Len(left) : i + m - 1 \in 1 .. Len(evs)
  BY <1>2, <1>4
<1>6. Len(left) <= Len(evs)
  BY <1>2, <1>4
<1>7. \A i \in 1 .. Len(left) : left[i] <= MaxTime
  BY <1>4, <1>5
<1>8. QED
  BY <1>1, <1>3, <1>6, <1>7

LEMMA UsageRangeStep == UsageTypes /\ UsageRange /\ [UsageNext]_usageVars => UsageRange'
<1> SUFFICES ASSUME UsageTypes, UsageRange, [UsageNext]_usageVars PROVE UsageRange'
  OBVIOUS
<1>1. MaxTime \in Nat /\ MaxEvents \in Nat /\ CounterMax \in Nat
  BY UsageAssumption
<1>2. CASE SetUsageClock
  BY <1>2 DEF SetUsageClock, UsageRange
<1>3. ASSUME NEW s \in Session, NEW ts \in 0 .. clock, PushPreview(s, ts) \/ PushUsage(s, ts) PROVE UsageRange'
  <2>1. ts \in Clock /\ ts \in Nat /\ ts \in Int /\ ts <= MaxTime
    BY <1>1 DEF UsageRange, UsageTypes, Clock
  <2>2. PICK e \in Event : log' = Append(log, e) /\ Len(log) < MaxEvents
    <3>1. \A usage \in BOOLEAN : [s |-> s, ts |-> ts, usage |-> usage] \in Event
      BY <2>1 DEF Event
    <3>2. QED
      BY <1>3, <3>1 DEF PushPreview, PushUsage, Logged
  <2>3. Len(log) \in Nat /\ Len(log') = Len(log) + 1 /\ Len(log') <= MaxEvents /\ Len(log) <= Len(log')
    BY <1>1, <2>2, Appended DEF UsageTypes
  <2>4. Len(ring) \in Nat /\ ring \in Seq(Nat)
    BY LenProperties DEF UsageRange
  <2>5. sessions' \in [Session -> [last : Clock \cup {-1}, preview : BOOLEAN]]
    <3>1. CASE PushPreview(s, ts)
      BY <2>1, <3>1 DEF PushPreview, UsageRange
    <3>2. CASE PushUsage(s, ts)
      BY <2>1, <3>2 DEF PushUsage, UsageRange
    <3>3. QED
      BY <1>3, <3>1, <3>2
  <2>6. CASE PushPreview(s, ts)
    <3>1. UNCHANGED <<clock, cells, times, ring>>
      BY <2>6 DEF PushPreview
    <3>2. QED
      BY <2>3, <2>4, <2>5, <3>1 DEF UsageRange
  <2>7. CASE PushUsage(s, ts)
    <3>1. cells' = Add(ts) /\ times' = times \cup {ts} /\ ring' = Pruned(Append(ring, ts), ts) /\ clock' = clock
      BY <2>7 DEF PushUsage
    <3>2. PICK longer : longer = Append(ring, ts)
      OBVIOUS
    <3>3. /\ longer \in Seq(Nat) /\ Len(longer) = Len(ring) + 1
          /\ \A i \in 1 .. Len(longer) : longer[i] <= MaxTime
      <4>1. /\ longer \in Seq(Nat) /\ Len(longer) = Len(ring) + 1 /\ longer[Len(ring) + 1] = ts
            /\ \A i \in 1 .. Len(ring) : longer[i] = ring[i]
        BY <2>1, <2>4, <3>2, AppendProperties
      <4>2. \A i \in 1 .. Len(longer) : i \in 1 .. Len(ring) \/ i = Len(ring) + 1
        BY <2>4, <4>1
      <4>3. QED
        BY <2>1, <4>1, <4>2 DEF UsageRange
    <3>4. ring' \in Seq(Nat) /\ Len(ring') <= Len(longer) /\ \A i \in 1 .. Len(ring') : ring'[i] <= MaxTime
      BY <2>1, <3>1, <3>2, <3>3, PrunedStays
    <3>5. Len(ring') <= Len(log')
      <4>1. Len(ring') \in Nat /\ Len(ring) <= Len(log)
        BY <3>4, LenProperties DEF UsageRange
      <4>2. QED
        BY <2>3, <2>4, <3>3, <3>4, <4>1
    <3>6. cells' \in [0 .. NumBuckets - 1 -> [start : Clock, tokens : 0 .. CounterMax]]
      <4>1. PICK k \in 0 .. NumBuckets - 1, b \in Clock : k = Slot(ts) /\ b = BucketStart(ts)
        BY <2>1, StampIs, BucketStartIs
      <4>2. \A n \in Nat : Saturated(n) \in 0 .. CounterMax
        BY <1>1 DEF Saturated
      <4>3. cells' = [cells EXCEPT ![k] = [start |-> b,
                        tokens |-> IF @.start = b THEN Saturated(@.tokens + 1) ELSE Saturated(1)]]
        BY <3>1, <4>1 DEF Add
      <4>4. cells[k].tokens + 1 \in Nat
        BY <1>1 DEF UsageRange
      <4>5. QED
        BY <4>2, <4>3, <4>4 DEF UsageRange
    <3>7. times' \subseteq Clock
      BY <2>1, <3>1 DEF UsageRange
    <3>8. QED
      BY <2>3, <2>5, <3>1, <3>4, <3>5, <3>6, <3>7 DEF UsageRange
  <2>8. QED
    BY <1>3, <2>6, <2>7
<1>4. CASE TakeSnapshot
  <2>1. /\ times' = Kept(clock) /\ ring' = Pruned(ring, clock) /\ UNCHANGED <<clock, cells, log>>
        /\ sessions' = [s \in Session |-> IF Age(sessions[s].last) < Bucket THEN sessions[s] ELSE Empty]
    BY <1>4 DEF TakeSnapshot
  <2>2. times' \subseteq times
    BY <2>1 DEF Kept
  <2>3. ring' \in Seq(Nat) /\ Len(ring') <= Len(ring) /\ \A i \in 1 .. Len(ring') : ring'[i] <= MaxTime
    BY <2>1, PrunedStays DEF UsageRange, UsageTypes
  <2>4. Len(ring') <= Len(log)
    <3>1. Len(ring') \in Nat /\ Len(ring) \in Nat /\ Len(log) \in Nat /\ Len(ring) <= Len(log)
      BY <2>3, LenProperties DEF UsageRange, UsageTypes
    <3>2. QED
      BY <2>3, <3>1
  <2>5. sessions' \in [Session -> [last : Clock \cup {-1}, preview : BOOLEAN]]
    BY <2>1 DEF Empty, UsageRange
  <2>6. QED
    BY <2>1, <2>2, <2>3, <2>4, <2>5 DEF UsageRange
<1>5. CASE UNCHANGED usageVars
  BY <1>5 DEF usageVars, UsageRange
<1>6. QED
  BY <1>2, <1>3, <1>4, <1>5 DEF UsageNext

\* The cells, the stamps, the ring and the sessions keep to their ranges: counters
\* saturate, and the ring is not longer than the events pushed (rotating.rs, ring.rs).
THEOREM UsageIsTyped == UsageSpec => []UsageTypeOK
<1>1. UsageTypes /\ UsageRange => UsageTypeOK
  <2> SUFFICES ASSUME UsageTypes, UsageRange PROVE UsageTypeOK
    OBVIOUS
  <2>1. MaxTime \in Nat /\ MaxEvents \in Nat /\ Len(ring) \in Nat /\ Len(log) \in Nat
    BY UsageAssumption, LenProperties DEF UsageTypes, UsageRange
  <2>2. \A i \in 1 .. Len(ring) : ring[i] \in Clock
    <3>1. \A i \in 1 .. Len(ring) : ring[i] \in Nat /\ ring[i] <= MaxTime
      BY ElementOfSeq DEF UsageRange
    <3>2. QED
      BY <2>1, <3>1 DEF Clock
  <2>3. ring \in Seq(Clock) /\ Len(ring) <= MaxEvents
    BY <2>1, <2>2, SeqNarrowed DEF UsageRange
  <2>4. QED
    BY <2>3 DEF UsageTypes, UsageRange, UsageTypeOK
<1>2. QED
  BY UsageTypesStart, UsageTypesStep, UsageRangeStart, UsageRangeStep, <1>1, PTL DEF UsageSpec

-------------------------------------------------------------------------------
(* The ranges of the watchers *)

\* What the types say besides WatchersInv.
WatchersRange ==
  /\ kind \in Kind /\ written <= MaxLines /\ old \subseteq 1 .. MaxLines
  /\ (\A a \in 1 .. Len(sent) : sent[a] >= 1) /\ limits <= written
  /\ stage \in {"start", "watching", "scan", "live"} /\ watched \in BOOLEAN
  /\ notices \subseteq File /\ cuts \subseteq File /\ missed \subseteq 1 .. written /\ broken \subseteq File

LEMMA FirstInRange == WatchersInit => WatchersRange
<1> SUFFICES ASSUME WatchersInit PROVE WatchersRange
  OBVIOUS
<1>1. MaxLines \in Nat \ {0}
  BY WatchersAssumption
<1>2. written \in 0 .. 1 /\ old \subseteq 1 .. written /\ limits = 0 /\ sent = <<>>
  BY DEF WatchersInit
<1>3. written <= MaxLines /\ limits <= written /\ 1 .. written \subseteq 1 .. MaxLines
  BY <1>1, <1>2
<1>4. \A a \in 1 .. Len(sent) : sent[a] >= 1
  BY <1>2, EmptySeq
<1>5. QED
  BY <1>2, <1>3, <1>4 DEF WatchersInit, WatchersRange

\* What is sent is numbered from one, and a line carries the limits.
LEMMA ReadToInRange ==
  ASSUME WatchersInv, WatchersRange, NEW f \in File, NEW p, StopsAt(f, p), ReadTo(f, p)
  PROVE  (\A a \in 1 .. Len(sent') : sent'[a] >= 1) /\ limits' <= written
<1>1. WatchersTypes /\ Numbered
  BY DEF WatchersInv
<1>2. PICK new : Gathered(new, file[f], Sendable(f, p)) /\ sent' = sent \o new
  BY <1>1, SentIsGathered
<1>3. PICK both : both = sent \o new
  OBVIOUS
<1>4. new \in Seq(Nat) /\ sent \in Seq(Nat)
  BY <1>1, <1>2 DEF Gathered, WatchersTypes
<1>5. \A k \in Parsed(f, p) : file[f][k][1] \in 1 .. written
  BY <1>1, ParsedAreEnds DEF Numbered
<1>6. \A a \in 1 .. Len(new) : new[a] >= 1
  <2>1. ASSUME NEW a \in 1 .. Len(new) PROVE new[a] >= 1
    <3>1. PICK k \in Sendable(f, p) : new[a] = file[f][k][1]
      BY <1>2 DEF Gathered
    <3>2. QED
      BY <1>5, <3>1 DEF Sendable
  <2>2. QED
    BY <2>1
<1>7. \A a \in 1 .. Len(both) : both[a] >= 1
  <2>1. \A a \in 1 .. Len(both) :
          \/ a \in 1 .. Len(sent) /\ both[a] = sent[a]
          \/ a > Len(sent) /\ a - Len(sent) \in 1 .. Len(new) /\ both[a] = new[a - Len(sent)]
    BY <1>3, <1>4, TwoParts
  <2>2. QED
    BY <1>6, <2>1 DEF WatchersRange
<1>8. limits' <= written
  <2>1. CASE kind = "codex" /\ Parsed(f, p) # {}
    <3>1. Max(Parsed(f, p)) \in Parsed(f, p)
      BY <1>1, <2>1, LastParsed
    <3>2. file[f][Max(Parsed(f, p))][1] <= written
      BY <1>5, <3>1
    <3>3. QED
      BY <2>1, <3>2 DEF ReadTo
  <2>2. CASE ~(kind = "codex" /\ Parsed(f, p) # {})
    BY <2>2 DEF ReadTo, WatchersRange
  <2>3. QED
    BY <2>1, <2>2
<1>9. sent' = both
  BY <1>2, <1>3
<1>10. QED
  BY <1>7, <1>8, <1>9

LEMMA ReadInRange ==
  ASSUME WatchersInv, WatchersRange, NEW f \in File, Tailed(f), UNCHANGED <<Elsewhere, watched>>,
         stage' = stage, notices' \subseteq notices
  PROVE  WatchersRange'
<1>1. (\A a \in 1 .. Len(sent') : sent'[a] >= 1) /\ limits' <= written
  <2>1. ASSUME CannotRead(f) PROVE sent' = sent /\ limits' = limits
    BY <2>1 DEF CannotRead
  <2>2. QED
    BY <2>1, TailedIs, ReadToInRange DEF WatchersInv, WatchersRange
<1>2. broken' \subseteq File
  BY DEF Tailed, WatchersRange
<1>3. QED
  BY <1>1, <1>2 DEF WatchersRange, Elsewhere

LEMMA WriteInRange ==
  ASSUME WatchersInv, WatchersRange, NEW f \in File, Write(f)
  PROVE  WatchersRange'
<1>1. written \in Nat /\ MaxLines \in Nat /\ \A n \in Nat : 1 .. n \subseteq 1 .. n + 1
  BY WatchersAssumption DEF WatchersInv, WatchersTypes
<1>2. PICK i \in Nat : /\ i = written \/ (i = written + 1 /\ written < MaxLines)
                       /\ i = written => file[f] # <<>>
                       /\ written' = i /\ missed' \subseteq missed \cup {i}
  <2>1. (written' = written /\ file[f] # <<>>) \/ (written' = written + 1 /\ written < MaxLines)
    BY DEF Write
  <2>2. missed' \subseteq missed \cup {written'}
    BY DEF Write
  <2>3. QED
    BY <1>1, <2>1, <2>2
<1>3. i >= 1 /\ i <= MaxLines /\ written <= i
  <2>1. CASE i = written
    <3>1. file[f] \in Seq(Cell) /\ Len(file[f]) \in 1 .. Len(file[f])
      BY <1>2, <2>1, LenProperties, EmptySeq DEF WatchersInv, WatchersTypes
    <3>2. file[f][Len(file[f])][1] \in 1 .. written
      BY <3>1 DEF WatchersInv, Numbered
    <3>3. QED
      BY <1>1, <2>1, <3>2 DEF WatchersRange
  <2>2. QED
    BY <1>1, <1>2, <2>1
<1>4. 1 .. written \subseteq 1 .. i /\ i \in 1 .. i
  BY <1>1, <1>3
<1>5. missed' \subseteq 1 .. i
  BY <1>2, <1>4 DEF WatchersRange
<1>6. notices' \subseteq File
  BY DEF Write, Noticed, WatchersRange
<1>7. limits \in Nat /\ limits <= i
  BY <1>1, <1>3 DEF WatchersRange, WatchersInv, WatchersTypes
<1>8. UNCHANGED <<kind, old, stage, watched, sent, limits, cuts, broken>>
  BY DEF Write
<1>9. QED
  BY <1>2, <1>3, <1>5, <1>6, <1>7, <1>8 DEF WatchersRange

LEMMA RangeKept == WatchersInv /\ WatchersRange /\ [WatchersNext]_watchersVars => WatchersRange'
<1> SUFFICES ASSUME WatchersInv, WatchersRange, [WatchersNext]_watchersVars PROVE WatchersRange'
  OBVIOUS
<1>1. ASSUME NEW f \in File, Write(f) PROVE WatchersRange'
  BY <1>1, WriteInRange
<1>2. ASSUME NEW f \in File, Cut(f) PROVE WatchersRange'
  BY <1>2 DEF Cut, Noticed, WatchersRange
<1>3. ASSUME NEW f \in File, TakeNotice(f) PROVE WatchersRange'
  BY <1>3, ReadInRange DEF TakeNotice, Elsewhere
<1>4. CASE ScanNext \/ PollNext
  <2>1. todo # <<>> /\ Tailed(Head(todo)) /\ UNCHANGED <<Elsewhere, stage, watched, notices>>
    BY <1>4 DEF ScanNext, PollNext, Elsewhere
  <2>2. Head(todo) \in File
    BY <2>1, HeadTailProperties DEF WatchersInv, WatchersTypes
  <2>3. QED
    BY <2>1, <2>2, ReadInRange
<1>5. CASE Register \/ StartScan \/ ScanDone \/ Poll \/ PollDone
  BY <1>5 DEF Register, StartScan, ScanDone, Poll, PollDone, WatchersRange
<1>6. CASE UNCHANGED watchersVars
  BY <1>6 DEF watchersVars, watcherVars, WatchersRange
<1>7. QED
  BY <1>1, <1>2, <1>3, <1>4, <1>5, <1>6 DEF WatchersNext

\* The files hold lines that were written, each file is read up to a place or unknown,
\* and only lines that were written are sent, are missed or give limits, whatever the
\* writers and the watchers do (watchers/claude.rs, codex.rs, antigravity.rs).
THEOREM WatchersAreTyped == WatchersSpec => []WatchersTypeOK
<1>1. WatchersInv /\ WatchersRange => WatchersTypeOK
  <2> SUFFICES ASSUME WatchersInv, WatchersRange PROVE WatchersTypeOK
    OBVIOUS
  <2>1. WatchersTypes /\ Numbered /\ MaxLines \in Nat
    BY WatchersAssumption DEF WatchersInv
  <2>2. ASSUME NEW f \in File PROVE file[f] \in Seq((1 .. written) \X {1, 2})
    <3>1. file[f] \in Seq(Cell)
      BY <2>1 DEF WatchersTypes
    <3>2. \A k \in 1 .. Len(file[f]) : file[f][k] \in (1 .. written) \X {1, 2}
      <4>1. ASSUME NEW k \in 1 .. Len(file[f]) PROVE file[f][k] \in (1 .. written) \X {1, 2}
        <5>1. file[f][k] = <<file[f][k][1], file[f][k][2]>> /\ file[f][k][2] \in {1, 2}
          BY <3>1, CellIsPair
        <5>2. file[f][k][1] \in 1 .. written
          BY <2>1 DEF Numbered
        <5>3. QED
          BY <5>1, <5>2
      <4>2. QED
        BY <4>1
    <3>3. QED
      BY <3>1, <3>2, SeqNarrowed
  <2>3. sent \in Seq(1 .. written)
    <3>1. sent \in Seq(Nat) /\ written \in Nat
      BY <2>1 DEF WatchersTypes
    <3>2. \A a \in 1 .. Len(sent) : sent[a] \in Nat
      BY <3>1, ElementOfSeq, LenProperties
    <3>3. \A a \in 1 .. Len(sent) : sent[a] \in 1 .. written
      BY <2>1, <3>1, <3>2 DEF Numbered, WatchersRange
    <3>4. QED
      BY <3>1, <3>3, SeqNarrowed
  <2>4. QED
    BY <2>1, <2>2, <2>3 DEF WatchersTypes, WatchersRange, WatchersTypeOK
<1>2. QED
  BY WatchersStart, WatchersStep, FirstInRange, RangeKept, <1>1, PTL DEF WatchersSpec
=============================================================================
