---------------------------- MODULE AgentBridge -----------------------------
(***************************************************************************)
(* The agent processes of one session on a satellite: the PiBridge that    *)
(* runs a process and turns its output into events                         *)
(* (internal/satellite/pi_bridge.go), and the daemon's handler that        *)
(* deploys agents, keeps the bridges in a map and forwards the events      *)
(* (cmd/daao/daemon.go).                                                   *)
(*                                                                         *)
(* Every deployment makes a new bridge.  Four callers may be in Stop of a  *)
(* bridge: the next deployment, the guardrail timer, the forwarding        *)
(* goroutine and the daemon's Stop.  p.mu is held only for single steps;   *)
(* bridgesMu is held by a deployment while it stops the old bridge.        *)
(***************************************************************************)
EXTENDS Naturals

CONSTANTS MaxDeploys, \* bound: deployments for the session
          Lines,      \* bound: event lines a process prints
          EventCap,   \* capacity of a bridge's events channel (100)
          Timeouts    \* may a deployment have a guardrail timeout?

Bridges == 1 .. MaxDeploys
NoBridge == 0
Callers == {"deploy", "timer", "forward", "daemon"}

VARIABLES proc,     \* proc[b]: the process
          printed,  \* lines printed so far
          pipe,     \* lines in the stdout pipe
          open,     \* is the read end of the pipe open?
          lost,     \* lines that were in the pipe when it was closed
          reader,   \* readStdoutLoop
          life,     \* the lifecycle goroutine
          cmd,      \* is p.cmd set?
          closed,   \* p.closed
          closings, \* times <<done, events>> were closed
          queue,    \* events in the channel
          timer,    \* is the guardrail timer running?
          killed,   \* has Process.Kill been called?
          stop,     \* stop[b][c]: caller c in b.Stop
          fwd,      \* the forwarding goroutine
          deploy,   \* the deploy handler: "idle", "started", "locked"
          used,     \* deployments so far
          current,  \* d.bridges[session]
          report,   \* the state last reported for the session
          ctx       \* has the daemon been stopped?

procVars == <<proc, printed, pipe, open, lost, reader>>
bridgeVars == <<life, cmd, closed, closings, timer, killed, stop>>
daemonVars == <<fwd, deploy, used, current, report, ctx>>
vars == <<procVars, queue, bridgeVars, daemonVars>>

(* Type correctness. *)
TypeOK ==
  /\ proc \in [Bridges -> {"none", "running", "exited"}]
  /\ {printed, pipe, lost} \subseteq [Bridges -> 0 .. Lines]
  /\ {open, cmd, closed, timer, killed} \subseteq [Bridges -> BOOLEAN]
  /\ reader \in [Bridges -> {"none", "reading", "done"}]
  /\ life \in [Bridges -> {"none", "waiting", "draining", "closing", "done"}]
  /\ closings \in [Bridges -> Nat \X Nat]
  /\ queue \in [Bridges -> 0 .. EventCap]
  /\ stop \in [Bridges -> [Callers -> {"idle", "waiting", "killing", "returned"}]]
  /\ fwd \in [Bridges -> {"none", "forwarding", "stopping", "ending", "reporting", "done"}]
  /\ deploy \in {"idle", "started", "locked"} /\ used \in 0 .. MaxDeploys
  /\ current \in {NoBridge} \cup Bridges
  /\ report \in {"none", "RUNNING", "TERMINATED"} /\ ctx \in BOOLEAN

Init ==
  /\ proc = [b \in Bridges |-> "none"] /\ reader = [b \in Bridges |-> "none"]
  /\ life = [b \in Bridges |-> "none"] /\ fwd = [b \in Bridges |-> "none"]
  /\ printed = [b \in Bridges |-> 0] /\ pipe = printed /\ lost = printed /\ queue = printed
  /\ open = [b \in Bridges |-> FALSE] /\ cmd = open /\ closed = open
  /\ timer = open /\ killed = open
  /\ closings = [b \in Bridges |-> <<0, 0>>]
  /\ stop = [b \in Bridges |-> [c \in Callers |-> "idle"]]
  /\ deploy = "idle" /\ used = 0 /\ current = NoBridge /\ report = "none" /\ ctx = FALSE
-----------------------------------------------------------------------------
(* The process and the goroutines of its bridge. *)

ProcessPrints(b) ==
  /\ proc[b] = "running" /\ printed[b] < Lines
  /\ printed' = [printed EXCEPT ![b] = @ + 1]
  /\ IF open[b] THEN pipe' = [pipe EXCEPT ![b] = @ + 1] /\ lost' = lost
                ELSE lost' = [lost EXCEPT ![b] = @ + 1] /\ pipe' = pipe
  /\ UNCHANGED <<proc, open, reader, queue, bridgeVars, daemonVars>>

(* By itself, on abort, or killed. *)
ProcessExits(b) ==
  /\ proc[b] = "running" /\ proc' = [proc EXCEPT ![b] = "exited"]
  /\ UNCHANGED <<printed, pipe, open, lost, reader, queue, bridgeVars, daemonVars>>

(* An event is dropped when the channel is full. *)
ReadLine(b) ==
  /\ reader[b] = "reading" /\ open[b] /\ pipe[b] > 0
  /\ pipe' = [pipe EXCEPT ![b] = @ - 1]
  /\ queue' = [queue EXCEPT ![b] = IF @ < EventCap THEN @ + 1 ELSE @]
  /\ UNCHANGED <<proc, printed, open, lost, reader, bridgeVars, daemonVars>>

(* End of file, or the read end has been closed. *)
ReaderEnds(b) ==
  /\ reader[b] = "reading"
  /\ ~open[b] \/ (pipe[b] = 0 /\ proc[b] = "exited")
  /\ reader' = [reader EXCEPT ![b] = "done"]
  /\ UNCHANGED <<proc, printed, pipe, open, lost, queue, bridgeVars, daemonVars>>

(* Closing the read end loses what is in the pipe. *)
CloseStdout(b) ==
  /\ open' = [open EXCEPT ![b] = FALSE] /\ pipe' = [pipe EXCEPT ![b] = 0]
  /\ lost' = [lost EXCEPT ![b] = @ + pipe[b]]

(* cmd.Wait: when the process has exited it closes the pipe, whether or not *)
(* the reader has come to its end.                                          *)
WaitReturns(b) ==
  /\ life[b] = "waiting" /\ proc[b] = "exited"
  /\ life' = [life EXCEPT ![b] = "draining"]
  /\ CloseStdout(b)
  /\ UNCHANGED <<proc, printed, reader, queue, cmd, closed, closings, timer, killed, stop, daemonVars>>

(* if !p.closed { close(p.done); p.closed = true } *)
CloseDone(b) ==
  /\ closed' = [closed EXCEPT ![b] = TRUE]
  /\ closings' = [closings EXCEPT ![b][1] = IF closed[b] THEN @ ELSE @ + 1]

(* Faulty: the lifecycle goroutine does not wait for the readers. *)
DrainedEarly(b) == TRUE

(* ioWg.Wait() *)
Drained(b) == reader[b] = "done"

(* Faulty: a bridge that Stop has closed is left as it is. *)
DrainEndsIfOpen(b) ==
  /\ life[b] = "draining" /\ Drained(b)
  /\ life' = [life EXCEPT ![b] = IF closed[b] THEN "done" ELSE "closing"]
  /\ CloseDone(b)
  /\ UNCHANGED <<procVars, queue, cmd, timer, killed, stop, daemonVars>>

DrainEnds(b) ==
  /\ life[b] = "draining" /\ Drained(b)
  /\ life' = [life EXCEPT ![b] = "closing"]
  /\ CloseDone(b)
  /\ UNCHANGED <<procVars, queue, cmd, timer, killed, stop, daemonVars>>

CloseEvents(b) ==
  /\ life[b] = "closing" /\ life' = [life EXCEPT ![b] = "done"]
  /\ closings' = [closings EXCEPT ![b][2] = @ + 1]
  /\ UNCHANGED <<procVars, queue, cmd, closed, timer, killed, stop, daemonVars>>
-----------------------------------------------------------------------------
(* Stop. *)

IsDone(b) == closings[b][1] > 0

(* The abort is written to stdin unless there is no process to stop. *)
BeginStop(b, c) ==
  stop' = [stop EXCEPT ![b][c] = IF ~cmd[b] \/ closed[b] THEN "returned" ELSE "waiting"]

Cleanup(b, c) ==
  /\ timer' = [timer EXCEPT ![b] = FALSE]
  /\ IF open[b] THEN CloseStdout(b) ELSE UNCHANGED <<open, pipe, lost>>
  /\ CloseDone(b)
  /\ cmd' = [cmd EXCEPT ![b] = FALSE]
  /\ stop' = [stop EXCEPT ![b][c] = "returned"]
  /\ UNCHANGED <<proc, printed, reader, queue, life, killed, daemonVars>>

(* The process is done within 10 seconds, ...                               *)
StopSeesDone(b, c) == stop[b][c] = "waiting" /\ IsDone(b) /\ Cleanup(b, c)

(* Faulty: the timeout only gives up waiting. *)
StopGivesUp(b, c) ==
  /\ stop[b][c] = "waiting"
  /\ stop' = [stop EXCEPT ![b][c] = "killing"]
  /\ UNCHANGED <<procVars, queue, life, cmd, closed, closings, timer, killed, daemonVars>>

(* ... or it is killed, ...                                                 *)
StopKills(b, c) ==
  /\ stop[b][c] = "waiting"
  /\ stop' = [stop EXCEPT ![b][c] = "killing"]
  /\ killed' = [killed EXCEPT ![b] = @ \/ cmd[b]]
  /\ UNCHANGED <<procVars, queue, life, cmd, closed, closings, timer, daemonVars>>

(* ... which is waited for, but no longer than 5 seconds.                   *)
StopEnds(b, c) == stop[b][c] = "killing" /\ Cleanup(b, c)

TimerFires(b) ==
  /\ timer[b] /\ timer' = [timer EXCEPT ![b] = FALSE]
  /\ BeginStop(b, "timer")
  /\ UNCHANGED <<procVars, queue, life, cmd, closed, closings, killed, daemonVars>>
-----------------------------------------------------------------------------
(* The daemon. *)

(* No runtime, or Start fails. *)
DeployFails ==
  /\ deploy = "idle" /\ ~ctx /\ used < MaxDeploys
  /\ used' = used + 1 /\ report' = "TERMINATED"
  /\ UNCHANGED <<procVars, queue, bridgeVars, fwd, deploy, current, ctx>>

(* Start, and the report that the session runs. *)
DeployStarts ==
  /\ deploy = "idle" /\ ~ctx /\ used < MaxDeploys
  /\ used' = used + 1 /\ deploy' = "started"
  /\ proc' = [proc EXCEPT ![used'] = "running"] /\ open' = [open EXCEPT ![used'] = TRUE]
  /\ reader' = [reader EXCEPT ![used'] = "reading"] /\ life' = [life EXCEPT ![used'] = "waiting"]
  /\ cmd' = [cmd EXCEPT ![used'] = TRUE]
  /\ \E t \in {FALSE, Timeouts} : timer' = [timer EXCEPT ![used'] = t]
  /\ report' = "RUNNING"
  /\ UNCHANGED <<printed, pipe, lost, queue, closed, closings, killed, stop, fwd, current, ctx>>

(* bridgesMu is taken and the session's old bridge, if any, is stopped. *)
DeployLocks ==
  /\ deploy = "started" /\ deploy' = "locked"
  /\ IF current = NoBridge THEN stop' = stop ELSE BeginStop(current, "deploy")
  /\ UNCHANGED <<procVars, queue, life, cmd, closed, closings, timer, killed, fwd, used, current, report, ctx>>

DeployReplaces ==
  /\ deploy = "locked"
  /\ current # NoBridge => stop[current]["deploy"] = "returned"
  /\ deploy' = "idle" /\ current' = used
  /\ fwd' = [fwd EXCEPT ![used] = "forwarding"]
  /\ UNCHANGED <<procVars, queue, bridgeVars, used, report, ctx>>

Forward(b) ==
  /\ fwd[b] = "forwarding" /\ queue[b] > 0
  /\ queue' = [queue EXCEPT ![b] = @ - 1]
  /\ UNCHANGED <<procVars, bridgeVars, daemonVars>>

(* The events channel is closed and empty. *)
ForwardEnds(b) ==
  /\ fwd[b] = "forwarding" /\ queue[b] = 0 /\ closings[b][2] > 0
  /\ fwd' = [fwd EXCEPT ![b] = "ending"]
  /\ UNCHANGED <<procVars, queue, bridgeVars, deploy, used, current, report, ctx>>

(* The daemon has been stopped: the goroutine stops the bridge. *)
ForwardStops(b) ==
  /\ fwd[b] = "forwarding" /\ ctx
  /\ fwd' = [fwd EXCEPT ![b] = "stopping"] /\ BeginStop(b, "forward")
  /\ UNCHANGED <<procVars, queue, life, cmd, closed, closings, timer, killed, deploy, used, current, report, ctx>>

ForwardStopped(b) ==
  /\ fwd[b] = "stopping" /\ stop[b]["forward"] = "returned"
  /\ fwd' = [fwd EXCEPT ![b] = "ending"]
  /\ UNCHANGED <<procVars, queue, bridgeVars, deploy, used, current, report, ctx>>

(* delete(d.bridges, sessionID), whichever bridge is there. *)
ForwardDeletes(b) ==
  /\ fwd[b] = "ending" /\ deploy # "locked"
  /\ fwd' = [fwd EXCEPT ![b] = "reporting"] /\ current' = NoBridge
  /\ UNCHANGED <<procVars, queue, bridgeVars, deploy, used, report, ctx>>

ForwardReports(b) ==
  /\ fwd[b] = "reporting" /\ fwd' = [fwd EXCEPT ![b] = "done"]
  /\ report' = "TERMINATED"
  /\ UNCHANGED <<procVars, queue, bridgeVars, deploy, used, current, ctx>>

(* Daemon.Stop cancels the context, ...                                     *)
DaemonStops ==
  /\ ~ctx /\ ctx' = TRUE
  /\ UNCHANGED <<procVars, queue, bridgeVars, fwd, deploy, used, current, report>>

(* ... and stops the bridge it finds in the map.                            *)
DaemonStopsBridge ==
  /\ ctx /\ current # NoBridge /\ deploy # "locked" /\ stop[current]["daemon"] = "idle"
  /\ BeginStop(current, "daemon")
  /\ UNCHANGED <<procVars, queue, life, cmd, closed, closings, timer, killed, daemonVars>>
-----------------------------------------------------------------------------
Goroutine(b) == ReadLine(b) \/ ReaderEnds(b) \/ WaitReturns(b) \/ DrainEnds(b) \/ CloseEvents(b)
StopStep(b, c) == StopSeesDone(b, c) \/ StopKills(b, c) \/ StopEnds(b, c)
Forwarding(b) ==
  \/ Forward(b) \/ ForwardEnds(b) \/ ForwardStops(b) \/ ForwardStopped(b)
  \/ ForwardDeletes(b) \/ ForwardReports(b)

Next ==
  \/ \E b \in Bridges :
       \/ ProcessPrints(b) \/ ProcessExits(b) \/ Goroutine(b) \/ TimerFires(b) \/ Forwarding(b)
       \/ \E c \in Callers : StopStep(b, c)
  \/ DeployFails \/ DeployStarts \/ DeployLocks \/ DeployReplaces
  \/ DaemonStops \/ DaemonStopsBridge

Spec == Init /\ [][Next]_vars

(* Goroutines run, timers fire, and a killed process exits.  A process may  *)
(* ignore the abort, and never end by itself.  Behaviours take finitely     *)
(* many steps, so fairness of the whole is fairness of each part.           *)
Progress ==
  \/ \E b \in Bridges :
       \/ Goroutine(b) \/ TimerFires(b) \/ Forwarding(b) \/ (killed[b] /\ ProcessExits(b))
       \/ \E c \in Callers : StopStep(b, c)
  \/ DeployLocks \/ DeployReplaces

Fairness == WF_vars(Progress)

FairSpec == Spec /\ Fairness
-----------------------------------------------------------------------------
(* The channels of a bridge are closed once, and the events channel only    *)
(* after the last send: the lifecycle goroutine and up to four callers of   *)
(* Stop never close twice, and no send meets a closed channel (a panic).    *)
ChannelsSafe ==
  \A b \in Bridges :
    /\ closings[b][1] <= 1 /\ closings[b][2] <= 1
    /\ closings[b][2] > 0 => reader[b] = "done"

(* Every agent that finishes is reported, although its output may end       *)
(* before or after the process, and the daemon may be stopping.             *)
FinishedIsReported == \A b \in Bridges : proc[b] = "exited" ~> fwd[b] = "done"

(* Stopping the daemon ends every agent: its process exits and its          *)
(* goroutine reports and returns, although a deployment may be under way    *)
(* and an agent may ignore the abort.                                       *)
AgentsEndWithDaemon ==
  \A b \in Bridges : (ctx /\ proc[b] # "none") ~> (proc[b] = "exited" /\ fwd[b] = "done")

(* Every caller of Stop gets an answer.                                     *)
StopReturns ==
  \A b \in Bridges, c \in Callers : stop[b][c] = "waiting" ~> stop[b][c] = "returned"

(* "Stop any existing bridge for this session before replacing it"          *)
(* (daemon.go:1071): between deployments a session has at most one agent    *)
(* process.                                                                 *)
(* The code does not keep this (README, Departures).                        *)
OneAgent ==
  deploy = "idle" =>
    \A b1, b2 \in Bridges : cmd[b1] /\ cmd[b2] /\ ~closed[b1] /\ ~closed[b2] => b1 = b2

(* "Agent finished -> TERMINATED" (daemon.go:1102): a session whose agent   *)
(* runs was not last reported as TERMINATED.                                *)
(* The code does not keep this (README, Departures).                        *)
RunningIsReported ==
  (\E b \in Bridges : proc[b] = "running" /\ fwd[b] = "forwarding") /\ deploy = "idle" =>
    report = "RUNNING"

(* "all events have been read" (pi_bridge.go:563): nothing the process  *)
(* printed is lost when done is closed.                                     *)
(* The code does not keep this (README, Departures).                        *)
AllRead == \A b \in Bridges : life[b] \in {"closing", "done"} => lost[b] = 0
=============================================================================
