------------------------------ MODULE AgentRun ------------------------------
(***************************************************************************)
(* One agent run, from the events its process emits on the satellite to    *)
(* the run's row, its stored events and the pages that watch it: the       *)
(* daemon's agent event channel (cmd/daao/daemon.go), the gateway's        *)
(* AgentEvent and TERMINATED handlers (internal/grpc/gateway.go), the      *)
(* batching writer, the run event hub (internal/agentstream/hub.go), the   *)
(* SSE endpoint (internal/api/agent_run_stream.go) and the cockpit hook    *)
(* that reads it (useAgents.ts).                                           *)
(*                                                                         *)
(* Event e of the run has kind Script[e]; the gateway numbers events       *)
(* itself.  BatchEventWriter models how a batch is taken from the buffer;  *)
(* here a batch is taken whole.  Database errors are left out.             *)
(***************************************************************************)
EXTENDS Naturals, Sequences, Functions

CONSTANTS Script,    \* the kinds of the run's events, in order
          Viewers,   \* open pages
          MaxConns,  \* bound: connections of the satellite
          AgentCap,  \* capacity of agentEventCh (512)
          ChanCap    \* capacity of a subscriber's channel (128)

Kinds == {"start", "update", "end", "endError"}
Events == 1 .. Len(Script)
Conns == 1 .. MaxConns

VARIABLES emitted,    \* events the process has emitted
          exited,     \* the process has ended
          agentQ,     \* agentEventCh
          prioQ,      \* is TERMINATED waiting in sendPriorityCh?
          wire,       \* messages sent on the current connection
          conn,       \* the current connection
          seqno,      \* agentSeq of this connection
          mapped,     \* has sessionRunMap of this connection the run?
          status,     \* status of the agent_runs row
          published,  \* events handed to the hub, in order
          buffer,     \* buffer[c]: the batch writer's buffer of connection c
          batches,    \* batches being written
          inserts,    \* single inserts on their way
          finishing,  \* final statuses on their way
          stored,     \* rows of agent_run_events: <<event, sequence>>
          page, sub, chan, dropped,  \* per viewer: place in the handler, subscription, channel, overflow
          knew,       \* per viewer: the run was over when it was looked up
          shown,      \* per viewer: the <<event, sequence>> pairs displayed
          base        \* per viewer: events published before it subscribed

satVars == <<emitted, exited, agentQ, prioQ>>
gwVars == <<wire, conn, seqno, mapped>>
dbVars == <<status, buffer, batches, inserts, finishing, stored>>
viewVars == <<page, knew, shown, base>>
hubVars == <<sub, chan, dropped>>
vars == <<satVars, gwVars, dbVars, published, viewVars, hubVars>>

Terminated == 0   \* the TERMINATED report among the messages
Rows == Events \X Nat

(* Type correctness. *)
TypeOK ==
  /\ emitted \in 0 .. Len(Script) /\ {exited, prioQ, mapped} \subseteq BOOLEAN
  /\ agentQ \in Seq(Events) /\ Len(agentQ) <= AgentCap
  /\ wire \in Seq({Terminated} \cup Events) /\ conn \in Conns
  /\ seqno \in 0 .. Len(Script) /\ status \in {"running", "completed", "failed"}
  /\ published \in Seq(Events) /\ buffer \in [Conns -> Seq(Rows)]
  /\ batches \subseteq Seq(Rows) /\ inserts \subseteq Rows /\ stored \subseteq Rows
  /\ finishing \subseteq {"completed", "failed"}
  /\ page \in [Viewers -> {"out", "checked", "subscribed", "live", "done"}]
  /\ sub \in [Viewers -> {"no", "open", "closed"}]
  /\ \A v \in Viewers : chan[v] \in Seq(Rows) /\ Len(chan[v]) <= ChanCap
  /\ {dropped, knew} \subseteq [Viewers -> BOOLEAN]
  /\ shown \in [Viewers -> SUBSET Rows] /\ base \in [Viewers -> Nat]

(* HandleDeployAgent has created the run and the process has started. *)
Init ==
  /\ emitted = 0 /\ exited = FALSE /\ agentQ = <<>> /\ prioQ = FALSE
  /\ wire = <<>> /\ conn = 1 /\ seqno = 0 /\ mapped = FALSE
  /\ status = "running" /\ published = <<>>
  /\ buffer = [c \in Conns |-> <<>>] /\ batches = {} /\ inserts = {} /\ finishing = {}
  /\ stored = {}
  /\ page = [v \in Viewers |-> "out"] /\ sub = [v \in Viewers |-> "no"]
  /\ chan = [v \in Viewers |-> <<>>] /\ dropped = [v \in Viewers |-> FALSE]
  /\ knew = [v \in Viewers |-> FALSE] /\ shown = [v \in Viewers |-> {}]
  /\ base = [v \in Viewers |-> 0]
-----------------------------------------------------------------------------
(* The satellite. *)

(* The process emits its next event; sendToNexusAgent drops it when the     *)
(* channel is full.                                                         *)
Emit ==
  /\ ~exited /\ emitted < Len(Script)
  /\ emitted' = emitted + 1
  /\ agentQ' = IF Len(agentQ) < AgentCap THEN Append(agentQ, emitted') ELSE agentQ
  /\ UNCHANGED <<exited, prioQ, gwVars, dbVars, published, viewVars, hubVars>>

(* The process ends, possibly early; TERMINATED is reported once its events *)
(* are in the channel.                                                      *)
Exit ==
  /\ ~exited /\ exited' = TRUE /\ prioQ' = TRUE
  /\ UNCHANGED <<emitted, agentQ, gwVars, dbVars, published, viewVars, hubVars>>

(* streamWriter prefers the priority channel, but its second select may     *)
(* take an event although a report has just been queued.                    *)
SendReport ==
  /\ prioQ /\ prioQ' = FALSE /\ wire' = Append(wire, Terminated)
  /\ UNCHANGED <<emitted, exited, agentQ, conn, seqno, mapped, dbVars, published, viewVars, hubVars>>

SendEvent ==
  /\ agentQ # <<>> /\ agentQ' = Tail(agentQ) /\ wire' = Append(wire, Head(agentQ))
  /\ UNCHANGED <<emitted, exited, prioQ, conn, seqno, mapped, dbVars, published, viewVars, hubVars>>

(* The connection breaks: what was not received is lost, and the handler of *)
(* the next connection starts with empty maps and a writer of its own.      *)
Reconnect ==
  /\ conn < MaxConns /\ conn' = conn + 1
  /\ wire' = <<>> /\ seqno' = 0 /\ mapped' = FALSE
  /\ UNCHANGED <<satVars, dbVars, published, viewVars, hubVars>>
-----------------------------------------------------------------------------
(* The hub. *)

Publish(row) ==
  LET open == {v \in Viewers : sub[v] = "open"}
      fits == {v \in open : Len(chan[v]) < ChanCap}
  IN /\ chan' = [v \in Viewers |-> IF v \in fits THEN Append(chan[v], row) ELSE chan[v]]
     /\ dropped' = [v \in Viewers |-> dropped[v] \/ v \in open \ fits]
     /\ sub' = sub

CloseHub ==
  /\ sub' = [v \in Viewers |-> IF sub[v] = "open" THEN "closed" ELSE sub[v]]
  /\ UNCHANGED <<chan, dropped>>
-----------------------------------------------------------------------------
(* The gateway. *)

Finals == {"end", "endError"}

(* agentSeq[session]++ *)
NextSeq == seqno + 1

(* The frequent kinds are buffered, the others inserted by a goroutine.     *)
Persist(e, row) ==
  IF Script[e] = "update"
  THEN buffer' = [buffer EXCEPT ![conn] = Append(@, row)] /\ UNCHANGED <<inserts, stored, finishing>>
  ELSE inserts' = inserts \cup {row} /\ UNCHANGED <<buffer, stored, finishing>>

(* Faulty: the buffer is thrown away at agent_end. *)
PersistEndDiscards(e, row) ==
  /\ inserts' = inserts \cup {row}
  /\ buffer' = [buffer EXCEPT ![conn] = <<>>]
  /\ finishing' = finishing \cup {IF Script[e] = "end" THEN "completed" ELSE "failed"}
  /\ stored' = stored

(* agent_end: Close writes the buffer out, then the final status follows.   *)
PersistEnd(e, row) ==
  /\ inserts' = inserts \cup {row}
  /\ stored' = stored \cup Range(buffer[conn])
  /\ buffer' = [buffer EXCEPT ![conn] = <<>>]
  /\ finishing' = finishing \cup {IF Script[e] = "end" THEN "completed" ELSE "failed"}

(* AgentEvent: number the event, look the run up (running ones only),       *)
(* publish it and store it.                                                 *)
ReceiveEvent(e) ==
  LET row == <<e, NextSeq>>
      known == mapped \/ status = "running"
  IN /\ seqno' = NextSeq
     /\ mapped' = known
     /\ IF ~known THEN UNCHANGED <<dbVars, published, hubVars>>
        ELSE /\ Publish(row) /\ published' = Append(published, e)
             /\ IF Script[e] \in Finals THEN PersistEnd(e, row) ELSE Persist(e, row)
             /\ UNCHANGED <<status, batches>>

(* Faulty: only a run this connection has mapped is closed. *)
ReceiveTerminatedMapped ==
  IF mapped THEN status' = "failed" /\ CloseHub
            ELSE UNCHANGED <<status, hubVars>>

(* TERMINATED: the mapped run, or else the session's running run, fails.    *)
ReceiveTerminated ==
  IF mapped \/ status = "running" THEN status' = "failed" /\ CloseHub
                                  ELSE UNCHANGED <<status, hubVars>>

Receive ==
  /\ wire # <<>> /\ wire' = Tail(wire)
  /\ \/ /\ Head(wire) = Terminated /\ ReceiveTerminated
        /\ UNCHANGED <<seqno, mapped, buffer, batches, inserts, finishing, stored, published>>
     \/ Head(wire) # Terminated /\ ReceiveEvent(Head(wire))
  /\ UNCHANGED <<satVars, conn, viewVars>>

(* The goroutines it starts, and the batch writer's timer. *)
FlushTimer(c) ==
  /\ buffer[c] # <<>>
  /\ batches' = batches \cup {buffer[c]} /\ buffer' = [buffer EXCEPT ![c] = <<>>]
  /\ UNCHANGED <<status, inserts, finishing, stored, satVars, gwVars, published, viewVars, hubVars>>

ExecuteBatch(b) ==
  /\ batches' = batches \ {b} /\ stored' = stored \cup Range(b)
  /\ UNCHANGED <<status, buffer, inserts, finishing, satVars, gwVars, published, viewVars, hubVars>>

InsertEvent(row) ==
  /\ inserts' = inserts \ {row} /\ stored' = stored \cup {row}
  /\ UNCHANGED <<status, buffer, batches, finishing, satVars, gwVars, published, viewVars, hubVars>>

(* UpdateAgentRun has no condition on the old status. *)
Finish(st) ==
  /\ finishing' = finishing \ {st} /\ status' = st /\ CloseHub
  /\ UNCHANGED <<buffer, batches, inserts, stored, satVars, gwVars, published, viewVars>>
-----------------------------------------------------------------------------
(* The SSE endpoint and the page that reads it. *)

Unsubscribe(v) ==
  /\ sub' = [sub EXCEPT ![v] = "no"] /\ chan' = [chan EXCEPT ![v] = <<>>]
  /\ dropped' = [dropped EXCEPT ![v] = FALSE]

(* The page shows a row unless it has shown that sequence number. *)
NewTo(v, rows) == {r \in rows : \A s \in shown[v] : s[2] # r[2]}
IsEnd(r) == Script[r[1]] \in Finals

CheckRun(v) ==
  /\ page[v] = "out" /\ page' = [page EXCEPT ![v] = "checked"]
  /\ knew' = [knew EXCEPT ![v] = status # "running"]
  /\ UNCHANGED <<shown, base, hubVars, satVars, gwVars, dbVars, published>>

Subscribe(v) ==
  /\ page[v] = "checked" /\ page' = [page EXCEPT ![v] = "subscribed"]
  /\ sub' = [sub EXCEPT ![v] = "open"]
  /\ base' = [base EXCEPT ![v] = Len(published)]
  /\ UNCHANGED <<knew, shown, chan, dropped, satVars, gwVars, dbVars, published>>

(* The rows of the history, one for each sequence number the page has not   *)
(* seen; it closes the stream when it sees agent_end, and the browser       *)
(* reconnects when the server ends it.                                      *)
History(v) ==
  LET fresh == NewTo(v, stored)
  IN {S \in SUBSET fresh : /\ \A r, s \in S : r[2] = s[2] => r = s
                           /\ \A r \in fresh : \E s \in S : s[2] = r[2]}

(* Faulty: what was queued during the replay is thrown away. *)
ReplayDiscards(v) ==
  /\ page[v] = "subscribed"
  /\ shown' = [shown EXCEPT ![v] = @ \cup NewTo(v, stored)]
  /\ page' = [page EXCEPT ![v] = "live"]
  /\ chan' = [chan EXCEPT ![v] = <<>>]
  /\ UNCHANGED <<sub, dropped, knew, base, satVars, gwVars, dbVars, published>>

Replay(v) ==
  /\ page[v] = "subscribed"
  /\ \E rows \in History(v) :
       /\ shown' = [shown EXCEPT ![v] = @ \cup rows]
       /\ IF \E r \in rows : IsEnd(r)
          THEN page' = [page EXCEPT ![v] = "done"] /\ Unsubscribe(v)
          ELSE IF knew[v]
          THEN page' = [page EXCEPT ![v] = "out"] /\ Unsubscribe(v)
          ELSE page' = [page EXCEPT ![v] = "live"] /\ UNCHANGED hubVars
  /\ UNCHANGED <<knew, base, satVars, gwVars, dbVars, published>>

Deliver(v) ==
  /\ page[v] = "live" /\ chan[v] # <<>>
  /\ LET row == Head(chan[v])
         fresh == NewTo(v, {row})
     IN /\ shown' = [shown EXCEPT ![v] = @ \cup fresh]
        /\ IF \E r \in fresh : IsEnd(r)
           THEN page' = [page EXCEPT ![v] = "done"] /\ Unsubscribe(v)
           ELSE page' = page /\ chan' = [chan EXCEPT ![v] = Tail(@)] /\ UNCHANGED <<sub, dropped>>
  /\ UNCHANGED <<knew, base, satVars, gwVars, dbVars, published>>

EndOfStream(v) ==
  /\ page[v] = "live" /\ chan[v] = <<>> /\ sub[v] = "closed"
  /\ page' = [page EXCEPT ![v] = "out"] /\ Unsubscribe(v)
  /\ UNCHANGED <<knew, shown, base, satVars, gwVars, dbVars, published>>
-----------------------------------------------------------------------------
Background ==
  \/ \E c \in Conns : FlushTimer(c)
  \/ \E b \in batches : ExecuteBatch(b)
  \/ \E r \in inserts : InsertEvent(r)
  \/ \E st \in finishing : Finish(st)

View(v) == CheckRun(v) \/ Subscribe(v) \/ Replay(v) \/ Deliver(v) \/ EndOfStream(v)

Next ==
  \/ Emit \/ Exit \/ SendReport \/ SendEvent \/ Reconnect \/ Receive \/ Background
  \/ \E v \in Viewers : View(v)

Spec == Init /\ [][Next]_vars

(* Goroutines run, timers fire and the process ends; connections may break  *)
(* or not.                                                                  *)
Fairness ==
  /\ WF_vars(Exit) /\ WF_vars(SendReport) /\ WF_vars(SendEvent) /\ WF_vars(Receive)
  /\ WF_vars(Background) /\ \A v \in Viewers : WF_vars(View(v))

FairSpec == Spec /\ Fairness
-----------------------------------------------------------------------------
(* "ordered by sequence ASC" (agent_run_events.go:39): the stored events in *)
(* the order of their numbers are in the order they were emitted.           *)
SequenceIsOrder == \A r, s \in stored : r[1] < s[1] <=> r[2] < s[2]

(* "Subscribe BEFORE replay to avoid missing live events during replay"     *)
(* (agent_run_stream.go:221): whatever was published since a page           *)
(* subscribed is on the page or in its channel, unless the channel          *)
(* overflowed.                                                              *)
LiveFeedComplete ==
  \A v \in Viewers : page[v] \in {"subscribed", "live"} /\ sub[v] = "open" /\ ~dropped[v] =>
    \A i \in base[v] + 1 .. Len(published) :
      \E r \in shown[v] \cup Range(chan[v]) : r[1] = published[i]

(* Every event the gateway accepted for the run is stored in the end: the   *)
(* timer, agent_end and later connections lose none of the buffered ones.   *)
AcceptedIsStored ==
  \A e \in Events : e \in Range(published) ~> \E r \in stored : r[1] = e

(* "This covers the case where Pi exits without emitting an agent_end       *)
(* event" (gateway.go:502): the run of a process that ended is not left     *)
(* running, whatever it emitted and in whichever order the reports arrive.  *)
EndedRunIsClosed == exited ~> status # "running"

(* "Mark any still-running agent_run for this session as failed"            *)
(* (gateway.go:501): a run that completed is not marked failed afterwards.  *)
(* The code does not keep this (README, Departures).                        *)
CompletedStays == [][status = "completed" => status' = "completed"]_vars

(* "the server subscribes to the hub before replaying history to avoid      *)
(* gaps" (useAgents.ts:520): a page that has shown agent_end has shown      *)
(* every event accepted before it.                                          *)
(* The code does not keep this (README, Departures).                        *)
PageHasNoGap ==
  \A v \in Viewers : page[v] = "done" =>
    \A i \in 1 .. Len(published) : \E r \in shown[v] : r[1] = published[i]

(* "return // hub closed (agent_end)" (agent_run_stream.go:265): a page     *)
(* that watches a run is told when the run is over.                         *)
(* The code does not keep this (README, Departures).                        *)
WatcherIsTold ==
  \A v \in Viewers : page[v] = "live" /\ status # "running" ~> page[v] # "live"
=============================================================================
