------------------------------ MODULE MCReadings -------------------------------
(* The instance of Usage, Watchers and Quota for TLC, and the checks of       *)
(* Protobuf's operators.  The components share no state, so one behaviour     *)
(* moves one of them, and the others stay as they start: one run checks the   *)
(* sum of the states of its parts, not the product.                           *)
EXTENDS Usage, Watchers, Quota, Protobuf

CONSTANT Parts \* those that move

SomeResponses == {<<Window, Window>>, <<{"5h"}, {"weekly"}>>}
Lengths == [w \in Window |-> IF w = "5h" THEN 2 ELSE 3]

VARIABLE part
readingsVars == <<part, usageVars, watchersVars, quotaVars>>

ReadingsInit ==
  /\ part \in Parts
  /\ UsageInit /\ (part # "usage" => clock = 0)
  /\ WatchersInit /\ (part # "watchers" => kind = "codex" /\ written = 0 /\ file = [f \in File |-> <<>>])
  /\ QuotaInit /\ (part # "quota" => agent = CHOOSE a \in Agent : TRUE)

ReadingsNext ==
  /\ \/ part = "usage" /\ UsageNext /\ UNCHANGED <<watchersVars, quotaVars>>
     \/ part = "watchers" /\ WatchersNext /\ UNCHANGED <<usageVars, quotaVars>>
     \/ part = "quota" /\ QuotaNext /\ UNCHANGED <<usageVars, watchersVars>>
  /\ UNCHANGED part

ReadingsSpec == ReadingsInit /\ [][ReadingsNext]_readingsVars

-------------------------------------------------------------------------------
(* An encoder, as the reference for the parser of the blobs. *)

Varint(n) ==
  LET V[k \in Nat] == IF k < 128 THEN <<k>> ELSE <<128 + (k % 128)>> \o V[k \div 128] IN V[n]
Num(f, n) == Varint(8 * f) \o Varint(n)
Msg(f, body) == Varint(8 * f + 2) \o Varint(Len(body)) \o body
Odd == {<<>>, <<9>> \o [i \in 1 .. 8 |-> 255], <<13, 1, 2, 3, 4>>, Msg(7, <<255>>), Num(9, 300)}

Counts(t) == Num(1, t.out) \o Num(2, t.in) \o Num(3, t.cache)
Turn(t, odd, deep) ==
  Msg(1, Msg(19, t.model) \o odd \o (IF deep THEN Msg(17, Msg(2, Counts(t))) ELSE Msg(4, Counts(t)))
         \o (IF t.step < 0 THEN <<>> ELSE Msg(20, Msg(1, StepKey) \o Msg(2, <<48 + t.step>>))))
SomeTurns == [model : {<<>>, <<65>>}, in : {0, 1, 200, 16383}, out : {0, 5}, cache : {0, 129},
              step : {-1, 0, 7}, panic : {FALSE}]
Counted(t) == t.in > 0 \/ t.out > 0 \/ t.model # <<>>

\* What was written is read, also among fields that the parser does not know.
ASSUME TurnIsRead ==
  \A t \in SomeTurns, odd \in Odd, deep \in BOOLEAN :
    GenMetadata(odd \o Turn(t, odd, deep) \o odd) = IF Counted(t) THEN <<t>> ELSE <<>>

\* Of a turn that is cut anywhere nothing is counted, nor of one with half a field after it.
ASSUME NothingOfHalfATurn ==
  \A t \in SomeTurns, deep \in BOOLEAN, odd \in Odd :
    LET turn == Turn(t, <<>>, deep)
        blob == turn \o odd
    IN  \A n \in (0 .. Len(blob) - 1) \ {Len(turn)} : GenMetadata(SubSeq(blob, 1, n)) = <<>>

ASSUME StampIsRead ==
  \A s \in {0, 1, 127, 128, 20000}, odd \in Odd, nanos \in {0, 999} :
    /\ StepTimestamp(odd \o Msg(1, odd \o Num(1, s) \o Num(2, nanos)) \o odd) = <<s>>
    /\ \A n \in 0 .. Len(Num(1, s)) - 1 : StepTimestamp(Msg(1, SubSeq(Num(1, s), 1, n))) = <<>>

\* Numbers are cut to their width; only a length or a time beyond all words panics.
ASSUME WidthsAreKept ==
  /\ \A n \in {0, 2 ^ CountBits - 1, 2 ^ CountBits, Word - 1} :
       TokenUsage[Num(2, n), NewTurn].in = n % 2 ^ CountBits
  /\ \A n \in {0, 1, 2, 127, 128, Word - 3, Word - 1} :
       GenMetadata(<<10>> \o Varint(n)) = <<>> <=> n < Word - Len(Varint(n)) - 1
  /\ ~ReadVarint([i \in 1 .. MaxBytes |-> 128] \o <<1>>, 1).ok

\* Whatever the bytes, the walk ends within the buffer.
ASSUME WalkStaysInside ==
  \A n \in 0 .. 4 : \A buf \in [1 .. n -> {0, 1, 2, 8, 10, 13, 127, 128, 255}] :
    LET w == Walk(buf) IN \A i \in DOMAIN w.fields : w.fields[i].next \in 2 .. n + 1

Escaped(b) == <<Percent, 48 + b \div 16, 48 + (b % 16)>>
ASSUME UriIsDecoded ==
  \A path \in UNION {[1 .. n -> {47, 65, 37, 32}] : n \in 0 .. 3} :
    DecodeUri[FlattenSeq([i \in DOMAIN path |->
                IF path[i] \in {37, 32} THEN Escaped(path[i]) ELSE <<path[i]>>])] = path
=============================================================================
