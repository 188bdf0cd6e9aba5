----------------------------- MODULE MCTerminal -----------------------------
(***************************************************************************)
(* Terminal output: the ring buffer, the stream from the satellite to the  *)
(* viewers, recordings and local terminals.  A behaviour is one of a       *)
(* single part, chosen at the start.                                       *)
(***************************************************************************)
EXTENDS RingBuffer

CONSTANTS Parts, v1, None,
          MirrorCap, MirrorChan, MirrorBytes,     \* of the stream that does not break
          ReplayCap, ReplayChan, ReplayBytes,     \* of the streams that break
          MaxStreams, MaxRestarts,
          Recorded, h1, Handlers,                 \* sessions recorded, and requests
          MaxRecordings, MaxChunks,
          Terminals, MaxOut, RingCap, SockCap, MaxInput   \* of LocalAttach

ASSUME StreamAssumption ==
  /\ {MirrorCap, ReplayCap} \subseteq Nat \ {0}
  /\ {MirrorBytes, MirrorChan, ReplayBytes, ReplayChan, MaxStreams} \subseteq Nat

(* None is no session, no recording and no row. *)
ASSUME RecordedAssumption ==
  /\ MaxRecordings \in Nat /\ None \notin Recorded /\ None \notin 1 .. MaxRecordings
  /\ None \notin [session : Recorded \cup {None}, size : Nat, stopped : BOOLEAN]

VARIABLES part,
          sat, prioCh, sendCh, sender, replay, wires, up, bufs, mirror, db, view, restarts,
          nexus, starts, sessions, pool, writer, file, rows, made, request, chunks,
          write, listed, todo,
          printed, exited, pump, scroll, localClients, attach, sock, term, typed

streamVars == <<sat, prioCh, sendCh, sender, replay, wires, up, bufs, mirror, db, view, restarts>>
recordingVars == <<nexus, starts, sessions, pool, writer, file, rows, made, request, chunks,
                   write, listed, todo>>
attachVars == <<printed, exited, pump, scroll, localClients, attach, sock, term, typed>>
allVars == <<part, vars, streamVars, recordingVars, attachVars>>

(* A session's output, within the bounds k.                                *)
Stream(k) == INSTANCE TerminalStream WITH
  Viewers <- {v1}, Capacity <- k.cap, ChanCap <- k.chan, MaxBytes <- k.bytes,
  MaxStreams <- k.streams, MaxRestarts <- k.restarts, MaxViews <- k.views,
  writer <- sender, pool <- mirror

(* One stream, whose buffers wrap; streams that break, and restarts; a     *)
(* viewer, with a channel that overflows.                                  *)
Unbroken == [cap |-> MirrorCap, chan |-> MirrorChan, bytes |-> MirrorBytes,
             streams |-> 1, restarts |-> 0, views |-> 0]
Broken == [cap |-> ReplayCap, chan |-> ReplayChan, bytes |-> ReplayBytes,
           streams |-> MaxStreams, restarts |-> MaxRestarts, views |-> 0]
Watched == [cap |-> 3, chan |-> 2, bytes |-> 3, streams |-> 1, restarts |-> 0, views |-> 1]

(* The recordings, with so many requests at a time, chunks, and starts of  *)
(* Nexus: one request at a time; and several, with a restart.              *)
Record(k) == INSTANCE Recording WITH
  Sessions <- Recorded, Handlers <- k.handlers, MaxChunks <- k.chunks, MaxStarts <- k.starts
Serial == [handlers |-> {h1}, chunks |-> MaxChunks, starts |-> 1]
Restarted == [handlers |-> Handlers, chunks |-> 1, starts |-> 2]

Attach == INSTANCE LocalAttach WITH ring <- scroll
-----------------------------------------------------------------------------
PartInit ==
  /\ part \in Parts
  /\ Init
  /\ CASE part = "mirror" -> Stream(Unbroken)!Init
       [] part = "rehydrate" -> Stream(Broken)!Init
       [] OTHER -> Stream(Watched)!Init
  /\ IF part = "serial" THEN Record(Serial)!Init ELSE Record(Restarted)!Init
  /\ Attach!Init

RingPart == part = "ring" /\ Next /\ UNCHANGED <<part, streamVars, recordingVars, attachVars>>

StreamPart ==
  /\ \/ part = "mirror" /\ Stream(Unbroken)!Next
     \/ part = "rehydrate" /\ Stream(Broken)!Next
     \/ part = "live" /\ Stream(Watched)!Next
  /\ UNCHANGED <<part, vars, recordingVars, attachVars>>

RecordingPart ==
  /\ \/ part = "serial" /\ Record(Serial)!Next
     \/ part = "restarted" /\ Record(Restarted)!Next
  /\ UNCHANGED <<part, vars, streamVars, attachVars>>

AttachPart == part = "attach" /\ Attach!Next /\ UNCHANGED <<part, vars, streamVars, recordingVars>>

PartNext == RingPart \/ StreamPart \/ RecordingPart \/ AttachPart

(* The fairness of the parts with viewers, where they are what runs.       *)
AttachFair ==
  /\ WF_attachVars(part = "attach" /\ Attach!Pump)
  /\ \A t \in Terminals : /\ WF_attachVars(part = "attach" /\ Attach!Handler(t))
                          /\ WF_attachVars(part = "attach" /\ Attach!Show(t))

PartSpec ==
  /\ PartInit /\ [][PartNext]_allVars
  /\ WF_streamVars(part = "live" /\ Stream(Watched)!Deliver)
  /\ WF_streamVars(part = "live" /\ Stream(Watched)!Flush(v1))
  /\ WF_streamVars(part = "live" /\ Stream(Watched)!Poll(v1))
  /\ WF_streamVars(part = "live" /\ Stream(Watched)!StateTick(v1))
  /\ AttachFair
-----------------------------------------------------------------------------
(* As long as the stream does not break and no full channel drops output,  *)
(* Nexus's buffer is the satellite's, byte for byte, once nothing is on    *)
(* its way, even where the buffers have wrapped (docs/SCALING.md:21).      *)
Mirrors == part = "mirror" => Stream(Unbroken)!Mirrors

(* What the satellite had when it connected last is with Nexus once        *)
(* nothing is on its way, although streams break and Nexus restarts, if no *)
(* full channel dropped output and Nexus's buffer is not full              *)
(* (daemon.go:790).                                                        *)
Rehydrated == part = "rehydrate" => Stream(Broken)!Rehydrated

(* Every byte that stays in the buffer a viewer watches reaches the        *)
(* viewer, while the buffer has not wrapped (websocket.go:350-376).        *)
CaughtUp == part = "live" => Stream(Watched)!CaughtUp

(* Where requests do not overlap, a row that says a recording is stopped   *)
(* has the recording's size (recorder.go:3).                               *)
RowDescribesFile == part = "serial" => Record(Serial)!RowDescribesFile

(* An attached terminal shows the output in order, without gaps but at the *)
(* end of its scrollback (control.go:211-246).                             *)
OneSeam == Attach!OneSeam

(* Output gets past the attached terminals (daemon.go:1418-1423).          *)
FanOutEnds == part = "attach" => Attach!FanOutEnds
=============================================================================
