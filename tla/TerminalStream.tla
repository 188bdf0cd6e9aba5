--------------------------- MODULE TerminalStream ---------------------------
(***************************************************************************)
(* Terminal output of one session, from the PTY to the browsers: the       *)
(* satellite's pump, ring buffer, channels and stream writer               *)
(* (cmd/daao/daemon.go), the gateway and its buffer pool                   *)
(* (internal/grpc/gateway.go, internal/session/buffer_pool.go), and the    *)
(* handlers that poll a buffer for a viewer                                *)
(* (internal/transport/websocket.go).  The session registry, the event log *)
(* and the agent run that the gateway also updates are in SatelliteLink,   *)
(* SessionLifecycle and AgentRun; recordings are in Recording.             *)
(*                                                                         *)
(* A chunk of output is one byte.  A stream writer is taken to have        *)
(* returned before the satellite, which sleeps for at least                *)
(* ReconnectBaseDelay, connects again.                                     *)
(***************************************************************************)
EXTENDS Ring, FiniteSets

CONSTANTS Viewers,
          Capacity,    \* of a ring buffer; 5 MB
          ChanCap,     \* of sendCh; 256 (sendPriorityCh, 64, does not fill)
          MaxBytes,    \* bound: chunks of output
          MaxStreams,  \* bound: connections to Nexus
          MaxRestarts, \* bound: restarts of Nexus
          MaxViews     \* bound: times a viewer connects

VARIABLES sat,      \* the satellite's session: ring, pump, state ...; lost records
                    \* that a full channel has dropped a message
          prioCh,   \* sendPriorityCh: session states
          sendCh,   \* sendCh: pieces of output
          writer,   \* streamWriter: "none", "check" or "select"
          replay,   \* replayActiveSessions: where it is and its snapshot
          wires,    \* for every stream, what Nexus has yet to receive
          up,       \* is the last stream up?
          bufs,     \* the ring buffers Nexus has made for the session
          pool,     \* the one in the pool, or 0
          db,       \* the session's state in the database
          view,     \* the handler of every viewer
          restarts

vars == <<sat, prioCh, sendCh, writer, replay, wires, up, bufs, pool, db, view, restarts>>
satellite == <<sat, prioCh, sendCh, writer, replay>>
nexus == <<bufs, pool, db>>

SetOf(s) == {s[i] : i \in DOMAIN s}
Nums(s) == [i \in DOMAIN s |-> s[i].n]
Closed(k) == [pc |-> "closed", rb |-> 0, lastLen |-> 0, got |-> <<>>, views |-> k]

Chunks == UNION {[1 .. k -> [n : 1 .. MaxBytes, cont : {FALSE}]] : k \in 0 .. Capacity}
Msg(bytes) == [state |-> "", data |-> bytes]
State(st) == [state |-> st, data |-> <<>>]

(* Type correctness. *)
TypeOK ==
  /\ sat.total \in 0 .. MaxBytes /\ sat.mark \in 0 .. sat.total
  /\ sat.pump \in {"read", "send", "done"} /\ {sat.closed, sat.lost} \subseteq BOOLEAN
  /\ sat.state \in {"RUNNING", "TERMINATED"}
  /\ SetOf(prioCh) \subseteq {"RUNNING", "TERMINATED"}
  /\ SetOf(sendCh) \subseteq Chunks /\ Len(sendCh) <= ChanCap
  /\ writer \in {"none", "check", "select"} /\ (writer # "none" <=> up)
  /\ replay.pc \in {"idle", "announce", "snapshot", "queue"} /\ replay.data \in Chunks
  /\ Len(wires) \in 1 .. MaxStreams
  /\ up \in BOOLEAN /\ pool \in 0 .. Len(bufs) /\ db \in {"ACTIVE", "TERMINATED"}
  /\ \A v \in Viewers :
       /\ view[v].pc \in {"closed", "checked", "open"}
       /\ view[v].rb \in 0 .. Len(bufs) /\ view[v].lastLen \in 0 .. Capacity
  /\ restarts \in 0 .. MaxRestarts

Init ==
  /\ sat = [ring |-> NewRingBuffer(Capacity), total |-> 0, mark |-> 0,
            pump |-> "read", closed |-> FALSE, state |-> "RUNNING", lost |-> FALSE]
  /\ prioCh = <<>> /\ sendCh = <<>> /\ writer = "check"
  /\ replay = [pc |-> "idle", data |-> <<>>]
  /\ wires = << <<>> >> /\ up = TRUE
  /\ bufs = <<>> /\ pool = 0 /\ db = "ACTIVE"
  /\ view = [v \in Viewers |-> Closed(0)] /\ restarts = 0
-----------------------------------------------------------------------------
(* The satellite. *)

(* sendToNexus: a full channel drops the message. *)
Queue(ch, bytes) == IF Len(ch) < ChanCap THEN Append(ch, bytes) ELSE ch
Full(ch) == ~(Len(ch) < ChanCap)

(* forwardPtyOutput reads output and writes it to the ring buffer ... *)
PtyRead ==
  /\ sat.pump = "read" /\ ~sat.closed /\ sat.total < MaxBytes
  /\ sat' = [sat EXCEPT !.total = @ + 1, !.pump = "send",
                        !.ring = WriteByte(@, Byte(sat.total + 1, FALSE))]
  /\ UNCHANGED <<prioCh, sendCh, writer, replay, wires, up, nexus, view, restarts>>

(* ... and sends it. *)
PtySend ==
  /\ sat.pump = "send"
  /\ sat' = [sat EXCEPT !.pump = "read", !.lost = @ \/ Full(sendCh)]
  /\ sendCh' = Queue(sendCh, <<Byte(sat.total, FALSE)>>)
  /\ UNCHANGED <<prioCh, writer, replay, wires, up, nexus, view, restarts>>

PtyEnds ==
  /\ sat.pump = "read" /\ sat.closed
  /\ sat' = [sat EXCEPT !.pump = "done"]
  /\ UNCHANGED <<prioCh, sendCh, writer, replay, wires, up, nexus, view, restarts>>

(* The goroutine that waits for the process closes the PTY, ... *)
Exit ==
  /\ ~sat.closed
  /\ sat' = [sat EXCEPT !.closed = TRUE]
  /\ UNCHANGED <<prioCh, sendCh, writer, replay, wires, up, nexus, view, restarts>>

(* ... makes the session TERMINATED and tells Nexus by the priority        *)
(* channel.  A replay holds sessionsMu, which the change of state needs.   *)
Terminate ==
  /\ sat.closed /\ sat.state = "RUNNING" /\ replay.pc \notin {"snapshot", "queue"}
  /\ sat' = [sat EXCEPT !.state = "TERMINATED"]
  /\ prioCh' = Append(prioCh, "TERMINATED")
  /\ UNCHANGED <<sendCh, writer, replay, wires, up, nexus, view, restarts>>

Put(m) == wires' = [wires EXCEPT ![Len(wires)] = Append(@, m)]

(* streamWriter finds no priority message, and goes on to the second       *)
(* select, ...                                                             *)
WriterCheck ==
  /\ writer = "check" /\ prioCh = <<>>
  /\ writer' = "select"
  /\ UNCHANGED <<sat, prioCh, sendCh, replay, wires, up, nexus, view, restarts>>

(* ... which takes any message that is there. *)
SendPriority ==
  /\ writer # "none" /\ prioCh # <<>>
  /\ Put(State(Head(prioCh)))
  /\ prioCh' = Tail(prioCh) /\ writer' = "check"
  /\ UNCHANGED <<sat, sendCh, replay, up, nexus, view, restarts>>

SendData ==
  /\ writer = "select" /\ sendCh # <<>>
  /\ Put(Msg(Head(sendCh)))
  /\ sendCh' = Tail(sendCh) /\ writer' = "check"
  /\ UNCHANGED <<sat, prioCh, replay, up, nexus, view, restarts>>

(* The stream breaks: Nexus receives only some of what was on it, and the  *)
(* writer may take one more message, which it fails to send.               *)
Broken ==
  /\ up' = FALSE /\ writer' = "none"
  /\ \/ UNCHANGED <<prioCh, sendCh>>
     \/ prioCh # <<>> /\ prioCh' = Tail(prioCh) /\ UNCHANGED sendCh
     \/ sendCh # <<>> /\ sendCh' = Tail(sendCh) /\ UNCHANGED prioCh

Drop ==
  /\ up /\ Len(wires) < MaxStreams
  /\ Broken
  /\ \E k \in 0 .. Len(wires[Len(wires)]) :
       wires' = [wires EXCEPT ![Len(wires)] = SubSeq(@, 1, k)]
  /\ UNCHANGED <<sat, replay, nexus, view, restarts>>

(* connectToNexus: a new stream, its writer, and replayActiveSessions. *)
Connect ==
  /\ ~up /\ replay.pc = "idle"
  /\ up' = TRUE /\ writer' = "check" /\ wires' = Append(wires, <<>>)
  /\ replay' = [replay EXCEPT !.pc = "announce"]
  /\ sat' = [sat EXCEPT !.mark = sat.total]
  /\ UNCHANGED <<prioCh, sendCh, nexus, view, restarts>>

(* A live session is announced, ... *)
ReplayAnnounce ==
  /\ replay.pc = "announce"
  /\ IF sat.state = "TERMINATED"
     THEN replay' = [replay EXCEPT !.pc = "idle"] /\ UNCHANGED prioCh
     ELSE /\ replay' = [replay EXCEPT !.pc = "snapshot"]
          /\ prioCh' = Append(prioCh, "RUNNING")
  /\ UNCHANGED <<sat, sendCh, writer, wires, up, nexus, view, restarts>>

(* ... its ring buffer is copied, if it is not empty, ... *)
ReplaySnapshot ==
  /\ replay.pc = "snapshot"
  /\ LET snap == Snapshot(sat.ring)
     IN  replay' = IF snap = <<>> THEN [replay EXCEPT !.pc = "idle"]
                   ELSE [pc |-> "queue", data |-> snap]
  /\ UNCHANGED <<sat, prioCh, sendCh, writer, wires, up, nexus, view, restarts>>

(* ... and sent. *)
ReplayQueue ==
  /\ replay.pc = "queue"
  /\ sendCh' = Queue(sendCh, replay.data)
  /\ replay' = [pc |-> "idle", data |-> <<>>]
  /\ sat' = [sat EXCEPT !.lost = @ \/ Full(sendCh)]
  /\ UNCHANGED <<prioCh, writer, wires, up, nexus, view, restarts>>
-----------------------------------------------------------------------------
(* Nexus. *)

(* Write, byte by byte. *)
WriteAll(rb, bytes) ==
  LET After[k \in 0 .. Len(bytes)] == IF k = 0 THEN rb ELSE WriteByte(After[k - 1], bytes[k])
  IN  After[Len(bytes)]

(* Faulty: only the first byte of a message is written. *)
GatewayDataFirst(bytes) ==
  /\ bufs' = IF pool = 0 THEN Append(bufs, WriteByte(NewRingBuffer(Capacity), Head(bytes)))
             ELSE [bufs EXCEPT ![pool] = WriteByte(@, Head(bytes))]
  /\ pool' = IF pool = 0 THEN Len(bufs) + 1 ELSE pool
  /\ UNCHANGED db

(* Faulty: the buffer is written anew by every message. *)
GatewayDataAnew(bytes) ==
  /\ bufs' = Append(bufs, WriteAll(NewRingBuffer(Capacity), bytes))
  /\ pool' = Len(bufs) + 1
  /\ UNCHANGED db

(* TerminalData and BufferReplay: GetOrCreateBuffer, then Write. *)
GatewayData(bytes) ==
  /\ bufs' = IF pool = 0 THEN Append(bufs, WriteAll(NewRingBuffer(Capacity), bytes))
             ELSE [bufs EXCEPT ![pool] = WriteAll(@, bytes)]
  /\ pool' = IF pool = 0 THEN Len(bufs) + 1 ELSE pool
  /\ UNCHANGED db

(* SessionStateUpdate: the database may fail; RemoveBuffer is called all   *)
(* the same.                                                               *)
GatewayState(state) ==
  /\ IF state = "TERMINATED"
     THEN pool' = 0 /\ db' \in {db, "TERMINATED"}
     ELSE UNCHANGED <<pool, db>>
  /\ UNCHANGED bufs

(* The handler of stream i receives a message. *)
Receive(i) ==
  /\ wires[i] # <<>>
  /\ wires' = [wires EXCEPT ![i] = Tail(@)]
  /\ LET m == Head(wires[i])
     IN  IF m.state = "" THEN GatewayData(m.data) ELSE GatewayState(m.state)
  /\ UNCHANGED <<satellite, up, view, restarts>>

(* Nexus restarts: streams, buffers and viewers are gone, the database     *)
(* stays.                                                                  *)
Restart ==
  /\ restarts < MaxRestarts /\ Len(wires) < MaxStreams
  /\ IF up THEN Broken ELSE UNCHANGED <<up, writer, prioCh, sendCh>>
  /\ wires' = [i \in DOMAIN wires |-> <<>>]
  /\ pool' = 0 /\ restarts' = restarts + 1
  /\ view' = [v \in Viewers |-> Closed(view[v].views)]
  /\ UNCHANGED <<sat, replay, bufs, db>>
-----------------------------------------------------------------------------
(* HandleTerminalStream, for one viewer. *)

Unviewed == <<satellite, wires, up, nexus, restarts>>

Open(v) ==
  /\ view[v].pc = "closed" /\ view[v].views < MaxViews
  /\ db # "TERMINATED"
  /\ view' = [view EXCEPT ![v] = [Closed(view[v].views + 1) EXCEPT !.pc = "checked"]]
  /\ UNCHANGED Unviewed

(* The buffer, if there is one, is looked up and its contents are sent. *)
Flush(v) ==
  /\ view[v].pc = "checked"
  /\ LET snap == IF pool = 0 THEN <<>> ELSE Snapshot(bufs[pool])
     IN  view' = [view EXCEPT ![v] = [@ EXCEPT !.pc = "open", !.rb = pool,
                                       !.lastLen = Len(snap), !.got = Nums(snap)]]
  /\ UNCHANGED Unviewed

(* Faulty: one more byte is not noticed. *)
ChangedMuch(snap, last) == Len(snap) > last + 1

Changed(snap, last) == Len(snap) # last

(* What is sent when the length has changed. *)
Unsent(snap, last) == IF Len(snap) > last THEN SubSeq(snap, last + 1, Len(snap)) ELSE snap

(* The 20 ms ticker: only a change of length is noticed. *)
Poll(v) ==
  /\ view[v].pc = "open"
  /\ IF view[v].rb = 0
     THEN /\ pool # 0
          /\ view' = [view EXCEPT ![v].rb = pool]
     ELSE LET snap == Snapshot(bufs[view[v].rb])
              last == view[v].lastLen
          IN  /\ Changed(snap, last)
              /\ view' = [view EXCEPT ![v] = [@ EXCEPT !.got = @ \o Nums(Unsent(snap, last)),
                                                       !.lastLen = Len(snap)]]
  /\ UNCHANGED Unviewed

(* The 2 s ticker: a viewer of a terminated session is told and closed. *)
StateTick(v) ==
  /\ view[v].pc = "open" /\ db = "TERMINATED"
  /\ view' = [view EXCEPT ![v] = Closed(@.views)]
  /\ UNCHANGED Unviewed

(* The viewer goes away, or a write to it or a read of the session fails. *)
Leave(v) ==
  /\ view[v].pc = "open"
  /\ view' = [view EXCEPT ![v] = Closed(@.views)]
  /\ UNCHANGED Unviewed
-----------------------------------------------------------------------------
Deliver == PtySend \/ WriterCheck \/ SendPriority \/ SendData \/ \E i \in DOMAIN wires : Receive(i)

Next ==
  \/ PtyRead \/ PtyEnds \/ Exit \/ Terminate \/ Deliver
  \/ Drop \/ Connect \/ ReplayAnnounce \/ ReplaySnapshot \/ ReplayQueue \/ Restart
  \/ \E v \in Viewers : Open(v) \/ Flush(v) \/ Poll(v) \/ StateTick(v) \/ Leave(v)

Spec == Init /\ [][Next]_vars

(* The goroutines and tickers run; nobody has to type, leave or break a    *)
(* stream.                                                                 *)
FairSpec ==
  /\ Spec /\ WF_vars(Deliver)
  /\ \A v \in Viewers : WF_vars(Flush(v)) /\ WF_vars(Poll(v)) /\ WF_vars(StateTick(v))
-----------------------------------------------------------------------------
Held(rb) == {Snapshot(rb)[i].n : i \in DOMAIN Snapshot(rb)}

(* The session is live and nothing is on its way. *)
Quiet ==
  /\ up /\ replay.pc = "idle" /\ sat.pump = "read" /\ sat.state = "RUNNING"
  /\ prioCh = <<>> /\ sendCh = <<>> /\ \A i \in DOMAIN wires : wires[i] = <<>>

(* Once nothing is on its way, Nexus's buffer "mirrors satellite ring      *)
(* buffer for WebSocket replay" (docs/SCALING.md:21), byte for byte, even  *)
(* where the buffers have wrapped, unless a full channel dropped output.   *)
Mirrors ==
  Quiet /\ sat.total > 0 /\ ~sat.lost => pool # 0 /\ Snapshot(bufs[pool]) = Snapshot(sat.ring)

(* What the satellite had when it connected last is with Nexus once        *)
(* nothing is on its way: streams that break and restarts of Nexus lose    *)
(* none of it (daemon.go:790, docs/PROGRESS.md:132), unless a full channel *)
(* dropped output or the replays have filled Nexus's buffer.               *)
Rehydrated ==
  Quiet /\ ~sat.lost /\ (pool # 0 => bufs[pool].length < Capacity)
  => \A n \in 1 .. sat.mark : n \in Held(sat.ring) => pool # 0 /\ n \in Held(bufs[pool])

(* A viewer receives output in order and no byte twice, wherever it joins, *)
(* although it is shown by comparing lengths of snapshots of a buffer that *)
(* can be removed and made again meanwhile.                                *)
ViewerInOrder ==
  \A v \in Viewers : LET got == view[v].got
                     IN  \A i, j \in DOMAIN got : i < j => got[i] < got[j]

(* A buffer is destroyed "on session termination" (buffer_pool.go:11):     *)
(* when a terminated session's messages have all arrived, none is left.    *)
(* The code does not keep this (README, Departures).                       *)
BufferFreed ==
  db = "TERMINATED" /\ sat.pump = "done" /\ sat.state = "TERMINATED"
    /\ prioCh = <<>> /\ sendCh = <<>> /\ (\A i \in DOMAIN wires : wires[i] = <<>>)
  => pool = 0

(* Every byte that stays in the buffer a viewer watches reaches the viewer *)
(* unless it leaves: new output is sent, and on a "Buffer wrapped          *)
(* (eviction)" the whole content again (websocket.go:368).                 *)
CaughtUp ==
  \A v \in Viewers : \A n \in 1 .. MaxBytes :
    LET watched == view[v].pc = "open" /\ view[v].rb # 0 /\ n \in Held(bufs[view[v].rb])
    IN  watched ~> (~watched \/ n \in SetOf(view[v].got))

(* The viewer of a terminated session is told and closed, also one that    *)
(* passed the check on connecting just before the session terminated.      *)
TerminatedTold ==
  \A v \in Viewers : (db = "TERMINATED" /\ view[v].pc # "closed") ~> (view[v].pc = "closed")
=============================================================================
