------------------------------- MODULE Protobuf -------------------------------
(***************************************************************************)
(* The parser of watchers/antigravity.rs for the blobs in a conversation   *)
(* database: varints, the walk over the fields of a message, and the three *)
(* messages read out of it.  All four loops of the code walk alike and     *)
(* differ in what they do when the walk breaks off.                        *)
(*                                                                         *)
(* Words have WordBits bits instead of 64 and counts CountBits instead of  *)
(* 32.  Text is a sequence of bytes and always valid UTF-8, the key        *)
(* "last_step_index" is StepKey, its value one digit, and fractions of a   *)
(* second are left out.  A panic of the watcher's thread is an outcome.    *)
(***************************************************************************)
EXTENDS Integers, Sequences, FiniteSets, FiniteSetsExt, SequencesExt

CONSTANTS WordBits,   \* u64 and usize
          CountBits,  \* u32
          MaxSeconds  \* the latest SystemTime

ASSUME ProtobufAssumption ==
  WordBits \in Nat /\ CountBits \in 1 .. WordBits /\ MaxSeconds \in Nat

Byte == 0 .. 255
Word == 2 ^ WordBits
AsCount(n) == n % 2 ^ CountBits

\* A varint that would need more bytes than a word has is refused; of the last byte
\* that may come, the bits that do not fit are lost.
MaxBytes == (WordBits + 6) \div 7

ReadVarint(buf, pos) ==
  LET ends == {i \in pos .. Len(buf) : buf[i] < 128}
      last == Min(ends)
  IN  IF ends = {} \/ last - pos >= MaxBytes THEN [ok |-> FALSE, val |-> 0, next |-> pos]
      ELSE [ok |-> TRUE, next |-> last + 1,
            val |-> MapThenSumSet(LAMBDA i : (buf[i] % 128) * 128 ^ (i - pos), pos .. last) % Word]

\* One field: its number, wire type, value and contents, and where the next one is.
\* `end' says why there is none.
NoField(why) == [end |-> why, num |-> 0, wire |-> 0, val |-> 0, sub |-> <<>>, next |-> 0]
Field(num, wire, val, sub, next) ==
  [end |-> "", num |-> num, wire |-> wire, val |-> val, sub |-> sub, next |-> next]

\* A length is added to the position before it is compared: a sum beyond the word
\* makes a slice that ends before it starts.
NextField(buf, pos) ==
  LET tag == ReadVarint(buf, pos)
      num == AsCount(tag.val \div 8)
      wire == tag.val % 8
      v == ReadVarint(buf, tag.next)
      Skip(n) == IF tag.next - 1 + n > Len(buf) THEN NoField("bad")
                 ELSE Field(num, wire, 0, <<>>, tag.next + n)
  IN  CASE ~tag.ok -> NoField("cut")
        [] wire = 0 -> IF v.ok THEN Field(num, 0, v.val, <<>>, v.next) ELSE NoField("cut")
        [] wire = 1 -> Skip(8)
        [] wire = 5 -> Skip(4)
        [] wire = 2 -> IF ~v.ok THEN NoField("bad")
                       ELSE IF v.next - 1 + v.val >= Word THEN NoField("panic")
                       ELSE IF v.next - 1 + v.val > Len(buf) THEN NoField("bad")
                       ELSE Field(num, 2, 0, SubSeq(buf, v.next, v.next + v.val - 1), v.next + v.val)
        [] OTHER -> NoField("bad")

\* The fields up to the end of the message or to where the walk breaks off.
Walk(buf) ==
  LET From[pos \in 1 .. Len(buf) + 1] ==
        IF pos > Len(buf) THEN [fields |-> <<>>, end |-> "whole"]
        ELSE LET f == NextField(buf, pos)
                 rest == From[f.next]
             IN  IF f.end # "" THEN [fields |-> <<>>, end |-> f.end]
                 ELSE [fields |-> <<f>> \o rest.fields, end |-> rest.end]
  IN  From[1]

-------------------------------------------------------------------------------
(* gen_metadata *)

Turns == [model : Seq(Byte), in : Nat, out : Nat, cache : Nat, step : Int, panic : BOOLEAN]
NewTurn == [model |-> <<>>, in |-> 0, out |-> 0, cache |-> 0, step |-> -1, panic |-> FALSE]
Panics(turn, w) == [turn EXCEPT !.panic = @ \/ w.end = "panic"]

\* The counts may be nested in field 2 of their own kind; the last one found counts.
TokenUsage[buf \in Seq(Byte), turn \in Turns] ==
  LET w == Walk(buf)
      Counted(t, f) ==
        CASE f.wire = 0 /\ f.num = 1 -> [t EXCEPT !.out = AsCount(f.val)]
          [] f.wire = 0 /\ f.num = 2 -> [t EXCEPT !.in = AsCount(f.val)]
          [] f.wire = 0 /\ f.num = 3 -> [t EXCEPT !.cache = AsCount(f.val)]
          [] f.wire = 2 /\ f.num = 2 -> TokenUsage[f.sub, t]
          [] OTHER -> t
  IN  Panics(FoldLeft(Counted, turn, w.fields), w)

StepKey == <<75>>
Digit(text) == Len(text) = 1 /\ text[1] \in 48 .. 57

\* A pair of a key and a value, in any order, the last of each.
KeyValue(buf, turn) ==
  LET w == Walk(buf)
      text(n) == LET fs == SelectSeq(w.fields, LAMBDA f : f.wire = 2 /\ f.num = n)
                 IN  IF fs = <<>> THEN <<>> ELSE Last(fs).sub
  IN  Panics(IF text(1) = StepKey /\ Digit(text(2)) THEN [turn EXCEPT !.step = text(2)[1] - 48]
                                                    ELSE turn, w)

TurnExecution(buf, turn) ==
  LET w == Walk(buf)
      Read(t, f) ==
        CASE f.wire = 2 /\ f.num = 19 -> [t EXCEPT !.model = f.sub]
          [] f.wire = 2 /\ f.num \in {4, 17} -> TokenUsage[f.sub, t]
          [] f.wire = 2 /\ f.num = 20 -> KeyValue(f.sub, t)
          [] OTHER -> t
  IN  Panics(FoldLeft(Read, turn, w.fields), w)

\* <<turn>>, or <<>>: here a message that breaks off counts for nothing.
GenMetadata(buf) ==
  LET w == Walk(buf)
      Read(t, f) == IF f.wire = 2 /\ f.num = 1 THEN TurnExecution(f.sub, t) ELSE t
      turn == Panics(FoldLeft(Read, NewTurn, w.fields), w)
  IN  IF turn.panic THEN <<turn>>
      ELSE IF w.end = "whole" /\ (turn.in > 0 \/ turn.out > 0 \/ turn.model # <<>>)
      THEN <<turn>> ELSE <<>>

-------------------------------------------------------------------------------
(* steps.metadata *)

\* <<seconds>> of the first time stamp that has them, <<-1>> for a panic, or <<>>.
StepTimestamp(buf) ==
  LET w == Walk(buf)
      stamp(f) == Walk(f.sub)
      seconds(f) == SelectSeq(stamp(f).fields, LAMBDA g : g.wire = 0 /\ g.num = 1)
      \* Reading stops at a stamp that has seconds, is cut, or panics.
      stops == {i \in DOMAIN w.fields : LET f == w.fields[i] IN
                  f.wire = 2 /\ f.num = 1 /\ (seconds(f) # <<>> \/ stamp(f).end \in {"cut", "panic"})}
      f == w.fields[Min(stops)]
  IN  IF stops = {} THEN IF w.end = "panic" THEN <<-1>> ELSE <<>>
      ELSE CASE stamp(f).end = "panic" -> <<-1>>
             [] stamp(f).end = "cut" -> <<>>
             [] OTHER -> LET s == Last(seconds(f)).val IN IF s > MaxSeconds THEN <<-1>> ELSE <<s>>

-------------------------------------------------------------------------------
(* decode_file_uri, after the scheme: each escape is one character *)

Percent == 37
HexValue == [c \in 48 .. 57 \union 65 .. 70 \union 97 .. 102 |->
               IF c < 58 THEN c - 48 ELSE IF c < 71 THEN c - 55 ELSE c - 87]
Hex == DOMAIN HexValue

DecodeUri[uri \in Seq(Byte)] ==
  IF uri = <<>> THEN <<>>
  ELSE LET two == SubSeq(uri, 2, Min({Len(uri), 3}))
       IN  IF Head(uri) # Percent THEN <<Head(uri)>> \o DecodeUri[Tail(uri)]
           ELSE IF Len(two) = 2 /\ two[2] \in Hex /\ two[1] \in Hex \union {43}   \* "+" is a sign
                THEN <<(IF two[1] = 43 THEN 0 ELSE 16 * HexValue[two[1]]) + HexValue[two[2]]>>
                     \o DecodeUri[SubSeq(uri, 4, Len(uri))]
                ELSE <<Percent>> \o two \o DecodeUri[SubSeq(uri, 2 + Len(two), Len(uri))]
=============================================================================
