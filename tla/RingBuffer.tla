----------------------------- MODULE RingBuffer -----------------------------
(***************************************************************************)
(* The life of one ring buffer.  Every operation runs under the buffer's   *)
(* lock.  A Write of several bytes is that many WriteByte steps, whose     *)
(* states are those of writes of one byte each.                            *)
(***************************************************************************)
EXTENDS Ring

CONSTANTS Capacity,
          Spare,     \* capacity of the buffer that a snapshot is read into
          MaxBytes   \* bound: bytes written

ASSUME CapacityAssumption == {Capacity, Spare} \subseteq Nat \ {0} /\ MaxBytes \in Nat /\ SearchLimit \in Nat

VARIABLES rb,      \* the buffer
          written, \* bytes written since NewRingBuffer or Reset
          total    \* bytes written in all

vars == <<rb, written, total>>

Bytes == [n : Nat, cont : BOOLEAN]

Rings == [data : [0 .. Capacity - 1 -> Bytes], head : 0 .. Capacity - 1,
          length : 0 .. Capacity, capacity : {Capacity}]

(* Type correctness; the buffer holds no more than its capacity. *)
TypeOK ==
  /\ rb \in Rings
  /\ written \in Seq(Bytes) /\ total \in Nat

Init == rb = NewRingBuffer(Capacity) /\ written = <<>> /\ total = 0

Write(cont) ==
  /\ total < MaxBytes
  /\ total' = total + 1
  /\ LET b == Byte(total + 1, cont)
     IN  rb' = WriteByte(rb, b) /\ written' = Append(written, b)

Clear == rb' = Reset(rb) /\ written' = <<>> /\ UNCHANGED total

(* The contents move to another buffer by way of a binary snapshot. *)
Hydrate ==
  /\ rb' = ReadFromBinary(NewRingBuffer(Spare), BinarySnapshot(rb))
  /\ UNCHANGED <<written, total>>

Next == (\E cont \in BOOLEAN : Write(cont)) \/ Clear \/ Hydrate

Spec == Init /\ [][Next]_vars
-----------------------------------------------------------------------------
(* Until the buffer has been filled, a snapshot is all that was written,   *)
(* in order, also after the contents moved to another buffer and after     *)
(* the head has come back to 0.                                            *)
KeepsAll == Len(written) <= Capacity => Snapshot(rb) = written

(* A buffer read from a binary snapshot has the contents of the original,  *)
(* wherever the head was (satellite_test.go:525).                          *)
HydratedMatches ==
  Snapshot(ReadFromBinary(NewRingBuffer(Spare), BinarySnapshot(rb))) = Snapshot(rb)

(* A full buffer holds the newest bytes, in order: Write "appends data to  *)
(* the ring buffer, evicting old data if necessary" (ring.go:37).          *)
(* The code does not keep this (README, Departures).                       *)
KeepsNewest ==
  LET snap == Snapshot(rb)
  IN  snap = SubSeq(written, Len(written) - Len(snap) + 1, Len(written))

(* The oldest byte of a snapshot is not in the middle of a character, if   *)
(* the output does not begin there: the buffer "evicts only at ANSI escape *)
(* sequence boundaries" (ring.go:13).                                      *)
(* The code does not keep this (README, Departures).                       *)
EvictsAtBoundary ==
  LET snap == Snapshot(rb)
  IN  snap # <<>> /\ ~written[1].cont => isANSIBoundary(snap[1])
=============================================================================
