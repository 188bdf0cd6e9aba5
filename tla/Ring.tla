-------------------------------- MODULE Ring --------------------------------
(***************************************************************************)
(* The ring buffer of terminal output (pkg/buffer/ring.go) as a record and *)
(* operators on it.  A byte is a record: its number in the output, and     *)
(* whether it is a UTF-8 continuation byte (but not 0x9B, the CSI), the    *)
(* one thing the eviction looks at.  Positions count from 0, as in the     *)
(* code.                                                                   *)
(***************************************************************************)
EXTENDS Integers, Sequences

CONSTANT SearchLimit   \* how far back findEvictPosition looks; 32

Byte(n, cont) == [n |-> n, cont |-> cont]
Zero == Byte(0, FALSE)   \* make([]byte, capacity)

NewRingBuffer(capacity) ==
  [data |-> [i \in 0 .. capacity - 1 |-> Zero], head |-> 0, length |-> 0, capacity |-> capacity]

(* Only a continuation byte is no boundary. *)
isANSIBoundary(b) == ~b.cont

(* The last position, of the SearchLimit before the head, whose            *)
(* predecessor is a boundary.                                              *)
findEvictPosition(rb, head) ==
  LET limit == IF SearchLimit > rb.length THEN rb.length ELSE SearchLimit
      Back(p, i) == (p - i + rb.capacity) % rb.capacity
      Pos(i) == Back(Back(head, 1), i)
      safe == {i \in 0 .. limit - 1 : isANSIBoundary(rb.data[Back(Pos(i), 1)])}
  IN  IF safe # {}
      THEN Pos(CHOOSE i \in safe : \A j \in safe : i <= j)
      ELSE Back(head, limit)

(* One turn of the loop in Write. *)
WriteByte(rb, b) ==
  LET put  == [rb EXCEPT !.data = [@ EXCEPT ![rb.head] = b]]
      head == (rb.head + 1) % rb.capacity
  IN  IF rb.length < rb.capacity
      THEN [put EXCEPT !.head = head, !.length = @ + 1]
      ELSE [put EXCEPT !.head = findEvictPosition(put, head)]

(* Faulty: a buffer that has not wrapped is taken to start at the head. *)
OldestAtHead(rb) == rb.head

(* Where the oldest byte is. *)
Oldest(rb) == (rb.head - rb.length + rb.capacity) % rb.capacity

Piece(rb, start, len) == [i \in 1 .. len |-> rb.data[start + i - 1]]

(* Snapshot, SnapshotWithLen *)
Snapshot(rb) ==
  LET start == Oldest(rb)
  IN  IF rb.length = 0 THEN <<>>
      ELSE IF start + rb.length <= rb.capacity
      THEN Piece(rb, start, rb.length)
      ELSE Piece(rb, start, rb.capacity - start) \o Piece(rb, 0, rb.head)

Reset(rb) == [rb EXCEPT !.head = 0, !.length = 0]

BinarySnapshot(rb) == [length |-> rb.length, capacity |-> rb.capacity, data |-> Snapshot(rb)]

HeadOf(bin) == bin.length % bin.capacity

(* ReadFromBinary keeps an array that is large enough; slots beyond the new *)
(* capacity are never used again and are left out.                         *)
ReadFromBinary(rb, bin) ==
  LET old  == [i \in 0 .. bin.capacity - 1 |-> IF rb.capacity < bin.capacity THEN Zero ELSE rb.data[i]]
  IN  [data |-> [i \in 0 .. bin.capacity - 1 |-> IF i < bin.length THEN bin.data[i + 1] ELSE old[i]],
       head |-> HeadOf(bin), length |-> bin.length, capacity |-> bin.capacity]
=============================================================================
