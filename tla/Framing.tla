------------------------------- MODULE Framing --------------------------------
(***************************************************************************)
(* Putting the chunks of a frame together again (Reassembler, ble/framing.rs, *)
(* the reference of the clients' own).  A chunk is [id, idx, count, of]:    *)
(* its header and, in place of its bytes, which part of whose frame they are. *)
(* id 0 stands for "no frame yet".                                          *)
(***************************************************************************)
EXTENDS Naturals

NewReassembler == [id |-> 0, expected |-> 0, count |-> 0, from |-> {}, aborted |-> FALSE]

\* Rules 1 and 2: another frame, or a chunk 0, starts anew.
StartedAt(r, chunk) ==
  IF chunk.idx = 0 THEN [NewReassembler EXCEPT !.id = chunk.id, !.count = chunk.count]
  ELSE r

\* Chunks are taken in order only.
IsNext(r, chunk) == ~r.aborted /\ chunk.idx = r.expected /\ chunk.count = r.count

\* Mutant: a frame is taken up in the middle.
PushMidway(r, chunk) ==
  LET s == StartedAt(IF r.id = chunk.id THEN r
                     ELSE [NewReassembler EXCEPT !.id = chunk.id, !.count = chunk.count,
                                                 !.expected = chunk.idx], chunk) IN
  IF IsNext(s, chunk)
  THEN [s EXCEPT !.expected = @ + 1, !.from = @ \union {chunk.of}]
  ELSE [s EXCEPT !.aborted = TRUE]

\* Rule 3: a frame whose first chunk was missed is dropped as a whole.
Push(r, chunk) ==
  LET s == StartedAt(r, chunk) IN
  IF chunk.idx # 0 /\ r.id # chunk.id
  THEN [r EXCEPT !.id = chunk.id, !.aborted = TRUE]
  ELSE IF IsNext(s, chunk)
  THEN [s EXCEPT !.expected = @ + 1, !.from = @ \union {chunk.of}]
  ELSE [s EXCEPT !.aborted = TRUE]

Complete(r) == ~r.aborted /\ r.expected > 0 /\ r.expected = r.count

\* A complete message is handed over, and the next chunk starts another.
Taken(r) == IF Complete(r) THEN NewReassembler ELSE r
=============================================================================
