---------------------------- MODULE MCAgentEvents ----------------------------
(***************************************************************************)
(* The events of agent runs: BatchEventWriter, and AgentRun for a run that *)
(* pages watch and for one whose satellite reconnects.  A behaviour is one *)
(* of a single part, chosen at the start.                                  *)
(***************************************************************************)
EXTENDS BatchEventWriter

CONSTANTS Parts,
          Script, Viewers,         \* of the run that is watched
          OtherScript, MaxConns,   \* of the run whose satellite reconnects
          AgentCap, ChanCap        \* of both

VARIABLES part,
          emitted, exited, agentQ, prioQ, wire, conn, seqno, mapped, status, published,
          buffer, batches, inserts, finishing, stored,
          page, sub, chan, dropped, knew, shown, base

runVars == <<emitted, exited, agentQ, prioQ, wire, conn, seqno, mapped, status, published,
             buffer, batches, inserts, finishing, stored,
             page, sub, chan, dropped, knew, shown, base>>
allVars == <<part, vars, runVars>>

(* A run that is watched over a single connection, and one that nobody     *)
(* watches, over several.                                                  *)
Watched == INSTANCE AgentRun WITH MaxConns <- 1
Reconnected == INSTANCE AgentRun WITH Script <- OtherScript, Viewers <- {}

(* Scripts of a run that completes and of one that fails.                  *)
Completes == <<"start", "update", "end">>
Fails == <<"update", "endError">>
-----------------------------------------------------------------------------
PartInit ==
  /\ part \in Parts
  /\ Init
  /\ IF part = "reconnected" THEN Reconnected!Init ELSE Watched!Init

WriterPart == part = "writer" /\ Next /\ UNCHANGED <<part, runVars>>

RunPart ==
  /\ \/ part = "watched" /\ Watched!Next
     \/ part = "reconnected" /\ Reconnected!Next
  /\ UNCHANGED <<part, vars>>

PartNext == WriterPart \/ RunPart

(* The fairness of the parts, each where it is the part that runs.         *)
RunFair ==
  /\ WF_runVars(part = "watched" /\ Watched!Exit)
  /\ WF_runVars(part = "watched" /\ Watched!SendReport)
  /\ WF_runVars(part = "watched" /\ Watched!SendEvent)
  /\ WF_runVars(part = "watched" /\ Watched!Receive)
  /\ WF_runVars(part = "watched" /\ Watched!Background)
  /\ \A v \in Viewers : WF_runVars(part = "watched" /\ Watched!View(v))
  /\ WF_runVars(part = "reconnected" /\ Reconnected!Exit)
  /\ WF_runVars(part = "reconnected" /\ Reconnected!SendReport)
  /\ WF_runVars(part = "reconnected" /\ Reconnected!SendEvent)
  /\ WF_runVars(part = "reconnected" /\ Reconnected!Receive)
  /\ WF_runVars(part = "reconnected" /\ Reconnected!Background)

PartSpec ==
  /\ PartInit /\ [][PartNext]_allVars /\ RunFair
  /\ WF_vars(part = "writer" /\ Timer)
  /\ \A t \in Threads : WF_vars(part = "writer" /\ Write(t))
-----------------------------------------------------------------------------
(* Whatever was published since a page subscribed is on the page or in its *)
(* channel, unless the channel overflowed (agent_run_stream.go:221).       *)
LiveFeedComplete == part = "watched" => Watched!LiveFeedComplete

(* Every event the gateway accepted for the run is stored in the end, also *)
(* when connections break (gateway.go:794).                                *)
AcceptedIsStored ==
  /\ part = "watched" => Watched!AcceptedIsStored
  /\ part = "reconnected" => Reconnected!AcceptedIsStored

(* The run of a process that ended is not left running (gateway.go:502).   *)
EndedRunIsClosed == part = "watched" => Watched!EndedRunIsClosed
=============================================================================
