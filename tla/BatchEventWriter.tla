-------------------------- MODULE BatchEventWriter --------------------------
(***************************************************************************)
(* The writer that batches the frequent events of an agent run             *)
(* (internal/database/batch_writer.go), for one run: the gateway's handler *)
(* appends and, at agent_end, closes; the goroutines of the flush timer    *)
(* take the buffer under the lock and write it out without.                *)
(*                                                                         *)
(* The buffer is a Go slice.  Taking it keeps its backing array            *)
(* (events[:0]), which the next appends fill again while the batch that    *)
(* was taken is still being read, so the arrays are modelled: mem[a] holds *)
(* the slots of array a.  A slot is read whole, before or after a racing   *)
(* append; nothing that is shown to hold depends on what a slot contains.  *)
(* An insert that fails is only logged; failures are left out.             *)
(***************************************************************************)
EXTENDS Naturals, Sequences, Functions

CONSTANTS MaxEvents,  \* bound: events appended
          MaxFlushes, \* bound: timer goroutines writing at the same time
          MaxCloses   \* bound: calls of Close

ASSUME BoundsAssumption == {MaxEvents, MaxFlushes, MaxCloses} \subseteq Nat

Handler == 0                          \* the gateway's handler, in Close
Goroutines == 1 .. MaxFlushes         \* goroutines of the timer
Threads == {Handler} \cup Goroutines

VARIABLES mem,      \* mem[a]: slots of backing array a; its length is the capacity
          buf,      \* the run's buffer: its array and length, or NoBuffer
          armed,    \* the buffer's timer runs
          fired,    \* timers that have fired and wait for the lock
          batch,    \* batch[t]: the slice thread t writes out and what it has read
          appended, \* events appended so far; event i is the i-th
          rows,     \* events of the inserted rows, in order
          closes,   \* calls of Close so far
          due       \* events appended before the last Close

vars == <<mem, buf, armed, fired, batch, appended, rows, closes, due>>

NoBuffer == [arr |-> 0, len |-> 0]
Idle == [arr |-> 0, len |-> 0, read |-> <<>>]
Empty == 0   \* a slot never written

(* Type correctness; a slice never exceeds its array. *)
TypeOK ==
  /\ mem \in Seq(Seq(0 .. MaxEvents))
  /\ buf \in [arr : 0 .. Len(mem), len : 0 .. MaxEvents]
  /\ buf.arr # 0 => buf.len <= Len(mem[buf.arr])
  /\ armed \in BOOLEAN /\ fired \in Nat
  /\ batch \in [Threads -> [arr : 0 .. Len(mem), len : 0 .. MaxEvents, read : Seq(1 .. MaxEvents)]]
  /\ {appended, due} \subseteq 0 .. MaxEvents /\ closes \in 0 .. MaxCloses
  /\ rows \in Seq(1 .. MaxEvents)

(* NewBatchEventWriter *)
Init ==
  /\ mem = <<>> /\ buf = NoBuffer /\ armed = FALSE /\ fired = 0
  /\ batch = [t \in Threads |-> Idle]
  /\ appended = 0 /\ rows = <<>> /\ closes = 0 /\ due = 0
-----------------------------------------------------------------------------
(* append(buf.events, e): in place while the array has room, else in a new  *)
(* array of twice the capacity that holds a copy.                           *)
AppendToSlice(e) ==
  LET full == buf.arr = 0 \/ buf.len = Len(mem[buf.arr])
      copy == IF buf.len = 0 THEN <<e>>
              ELSE mem[buf.arr] \o <<e>> \o [i \in 1 .. buf.len - 1 |-> Empty]
  IN IF full THEN /\ mem' = Append(mem, copy)
                  /\ buf' = [arr |-> Len(mem) + 1, len |-> buf.len + 1]
             ELSE /\ mem' = [mem EXCEPT ![buf.arr][buf.len + 1] = e]
                  /\ buf' = [buf EXCEPT !.len = @ + 1]

(* Faulty: the timer is started with the buffer only. *)
RestartTimerOnce == armed' = (armed \/ buf.arr = 0)

(* The old timer is stopped and a new one started. *)
RestartTimer == armed' = TRUE

(* Append, called by the handler when it is not in Close. *)
AppendEvent ==
  /\ batch[Handler] = Idle /\ appended < MaxEvents
  /\ appended' = appended + 1
  /\ AppendToSlice(appended')
  /\ RestartTimer
  /\ UNCHANGED <<fired, batch, rows, closes, due>>

(* The timer fires; its goroutine has yet to get the lock. *)
TimerFires ==
  /\ armed /\ armed' = FALSE /\ fired' = fired + 1
  /\ UNCHANGED <<mem, buf, batch, appended, rows, closes, due>>

Taken == [arr |-> buf.arr, len |-> buf.len, read |-> <<>>]

(* buf.events = buf.events[:0] *)
Reset == buf' = [buf EXCEPT !.len = 0]

(* flushInternal: the goroutine of a timer takes the events. *)
Flush(t) ==
  /\ fired > 0 /\ batch[t] = Idle
  /\ fired' = fired - 1
  /\ IF buf.len = 0 THEN UNCHANGED <<buf, armed, batch>>
     ELSE /\ armed' = FALSE
          /\ batch' = [batch EXCEPT ![t] = Taken]
          /\ Reset
  /\ UNCHANGED <<mem, appended, rows, closes, due>>

(* takeEvents: the buffer is deleted. *)
TakeEvents ==
  /\ armed' = FALSE
  /\ buf' = NoBuffer
  /\ batch' = [batch EXCEPT ![Handler] = IF buf.len = 0 THEN Idle ELSE Taken]

(* Close, called by the handler at agent_end. *)
Close ==
  /\ batch[Handler] = Idle /\ closes < MaxCloses
  /\ closes' = closes + 1 /\ due' = appended
  /\ TakeEvents
  /\ UNCHANGED <<mem, fired, appended, rows>>

(* executeBatch copies the events out of the slice one by one, ...          *)
ReadSlot(t) ==
  LET b == batch[t]
      i == Len(b.read) + 1
  IN /\ i <= b.len
     /\ batch' = [batch EXCEPT ![t].read = Append(@, mem[b.arr][i])]
     /\ UNCHANGED <<mem, buf, armed, fired, appended, rows, closes, due>>

(* ... then sends them and waits for the inserts.                           *)
SendBatch(t) ==
  /\ batch[t].len > 0 /\ Len(batch[t].read) = batch[t].len
  /\ rows' = rows \o batch[t].read
  /\ batch' = [batch EXCEPT ![t] = Idle]
  /\ UNCHANGED <<mem, buf, armed, fired, appended, closes, due>>

Timer == TimerFires \/ \E t \in Goroutines : Flush(t)
Write(t) == ReadSlot(t) \/ SendBatch(t)

Next == AppendEvent \/ Close \/ Timer \/ \E t \in Threads : Write(t)

Spec == Init /\ [][Next]_vars

(* Timers fire, and the goroutines and the inserts make progress.           *)
FairSpec == Spec /\ WF_vars(Timer) /\ \A t \in Threads : WF_vars(Write(t))
-----------------------------------------------------------------------------
(* "flushes them in bulk using pgx.Batch every 100ms" (batch_writer.go:28): *)
(* no event waits in a buffer for which no timer runs or has fired, though  *)
(* every flush stops the timer that a later Append may have started.        *)
BufferHasTimer == buf.len > 0 => armed \/ fired > 0

(* "ensure no events are lost" (batch_writer.go:69): once nothing is        *)
(* buffered or being written, every event has a row.                        *)
(* The code does not keep this (README, Departures).                        *)
NoEventLost ==
  buf.len = 0 /\ (\A t \in Threads : batch[t] = Idle) => Range(rows) = 1 .. appended

(* "flush remaining events before updating run summary" (gateway.go:794):   *)
(* when Close has returned, the events appended before it have rows.        *)
(* The code does not keep this (README, Departures).                        *)
ClosedIsWritten ==
  closes > 0 /\ batch[Handler] = Idle => 1 .. due \subseteq Range(rows)
=============================================================================
