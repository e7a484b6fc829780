------------------------------ MODULE SendQueue -------------------------------
(***************************************************************************)
(* The send queue of one central (ble/send_queue.rs).  Its chunks are those *)
(* of at most two frames: the current one, of which `sent' chunks went out, *)
(* and the newest one after it.  Frames are numbered from 1 in the order    *)
(* they are made; every frame has Chunks chunks, counted from 0.            *)
(***************************************************************************)
EXTENDS Naturals, Sequences

CONSTANT Chunks     \* chunks of a frame: payload over the central's MTU

ASSUME ChunksAssumption == Chunks \in Nat \ {0}

Absent == 0         \* no frame

Queues(Frame) == [current : Frame \union {Absent}, sent : 0 .. Chunks - 1,
                  next : Frame \union {Absent}, paused : BOOLEAN]

Empty == [current |-> Absent, sent |-> 0, next |-> Absent, paused |-> FALSE]

Started(q) == q.current # Absent /\ q.sent > 0

\* Mutant: the newest frame replaces one of which chunks went out.
OfferReplacingStarted(q, frame) == [Empty EXCEPT !.current = frame]

\* The newest frame replaces one that waits, never one that was started.
Offer(q, frame) ==
  IF Started(q) THEN [q EXCEPT !.next = frame, !.paused = FALSE]
  ELSE [Empty EXCEPT !.current = frame]

ChunksFrom(frame, idx) ==
  IF frame = Absent THEN <<>>
  ELSE [i \in 1 .. Chunks - idx |-> [frame |-> frame, idx |-> idx + i - 1]]

\* What pump hands to the radio, in order, until the radio refuses a chunk.
Ahead(q) ==
  IF q.paused THEN <<>> ELSE ChunksFrom(q.current, q.sent) \o ChunksFrom(q.next, 0)

\* The queue after the radio took n of these chunks and refused the next one.
Pumped(q, n) ==
  LET left == SubSeq(Ahead(q), n + 1, Len(Ahead(q))) IN
  IF q.paused THEN q
  ELSE IF left = <<>> THEN Empty
  ELSE [current |-> Head(left).frame, sent |-> Head(left).idx, paused |-> TRUE,
        next |-> IF Head(left).frame = q.current THEN q.next ELSE Absent]

OnReady(q) == [q EXCEPT !.paused = FALSE]
=============================================================================
