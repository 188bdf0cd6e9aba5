----------------------------- MODULE MCSatellite -----------------------------
(***************************************************************************)
(* The daemon's goroutines: the Dead Man's Switch, the agent bridges and   *)
(* Stop.  They share no state that the modules model, so a behaviour is    *)
(* one of a single part, chosen at the start.                              *)
(***************************************************************************)
EXTENDS Naturals

CONSTANTS Parts,             \* the parts to check
          Requests, TTL,     \* of DeadManSwitch
          LiveRequests,      \* those of Requests that wait for no lock
          MaxDeploys, Lines, EventCap,   \* of AgentBridge
          Sessions, Clients  \* of DaemonStop

ASSUME DeploysAssumption == MaxDeploys \in Nat

VARIABLES part,
          state, shown, idle, cancelled, starts, mon, suspended, suspendCh, resumeCh,
          signalled, mu, sessMu, ctl, resuming,
          proc, printed, pipe, open, lost, reader, life, cmd, closed, closings, queue,
          timer, killed, stopping, fwd, deploy, used, current, report, ended,
          stop, snap, todo, called, ctx, locked, loops, recv, accept, client,
          entry, process, pty, pump, waiter

switchVars == <<state, shown, idle, cancelled, starts, mon, suspended, suspendCh, resumeCh,
                signalled, mu, sessMu, ctl, resuming>>
agentVars == <<proc, printed, pipe, open, lost, reader, life, cmd, closed, closings, queue,
               timer, killed, stopping, fwd, deploy, used, current, report, ended>>
daemonVars == <<stop, snap, todo, called, ctx, locked, loops, recv, accept, client,
                entry, process, pty, pump, waiter>>
allVars == <<part, switchVars, agentVars, daemonVars>>

(* The switch, started once, with signals that may fail; and with the      *)
(* transitions that take no lock twice, and signals that do not fail.      *)
Switch == INSTANCE DeadManSwitch WITH MaxMons <- 1, SignalsFail <- TRUE, proc <- signalled
SwitchLive == INSTANCE DeadManSwitch WITH
  Requests <- LiveRequests, MaxMons <- 1, SignalsFail <- FALSE, proc <- signalled

(* The agents of a session: so many deployments, so many lines of output,  *)
(* and whether there is a timeout.                                         *)
Bridge(deploys, lines, timeouts) == INSTANCE AgentBridge WITH
  MaxDeploys <- deploys, Lines <- lines, Timeouts <- timeouts, stop <- stopping, ctx <- ended

(* Stop with local terminals and both callers; and called by main alone.   *)
Daemon == INSTANCE DaemonStop WITH
  Callers <- {"main", "signal"}, mu <- locked, proc <- process
DaemonLive == INSTANCE DaemonStop WITH
  Clients <- {}, Callers <- {"main"}, mu <- locked, proc <- process
-----------------------------------------------------------------------------
PartInit ==
  /\ part \in Parts
  /\ IF part = "switch" THEN Switch!Init ELSE SwitchLive!Init
  /\ CASE part = "agent" -> Bridge(1, Lines, TRUE)!Init
       [] part = "redeploy" -> Bridge(MaxDeploys, 0, FALSE)!Init
       [] OTHER -> Bridge(1, 1, TRUE)!Init
  /\ IF part = "daemon" THEN Daemon!Init ELSE DaemonLive!Init

SwitchPart ==
  /\ \/ part = "switch" /\ Switch!Next
     \/ part = "switchLive" /\ SwitchLive!Next
  /\ UNCHANGED <<part, agentVars, daemonVars>>

AgentPart ==
  /\ \/ part = "agent" /\ Bridge(1, Lines, TRUE)!Next
     \/ part = "redeploy" /\ Bridge(MaxDeploys, 0, FALSE)!Next
     \/ part = "agentLive" /\ Bridge(1, 1, TRUE)!Next
  /\ UNCHANGED <<part, switchVars, daemonVars>>

DaemonPart ==
  /\ \/ part = "daemon" /\ Daemon!Next
     \/ part = "daemonLive" /\ DaemonLive!Next
  /\ UNCHANGED <<part, switchVars, agentVars>>

PartNext == SwitchPart \/ AgentPart \/ DaemonPart

PartSpec == PartInit /\ [][PartNext]_allVars

(* The fairness of the parts, each where it is the part that runs.         *)
SwitchFair(m) ==
  /\ SF_switchVars(part = "switchLive" /\ SwitchLive!SelectDone(m))
  /\ SF_switchVars(part = "switchLive" /\ SwitchLive!SelectTick(m))
  /\ SF_switchVars(part = "switchLive" /\ SwitchLive!SelectSuspend(m))
  /\ SF_switchVars(part = "switchLive" /\ SwitchLive!SelectResume(m))
  /\ WF_switchVars(part = "switchLive" /\ SwitchLive!MonitorStep(m))

FairSpec ==
  /\ PartSpec
  /\ \A m \in SwitchLive!Mons : SwitchFair(m)
  /\ WF_switchVars(part = "switchLive" /\ SwitchLive!Tick)
  /\ WF_switchVars(part = "switchLive" /\ SwitchLive!StopReturns)
  /\ WF_switchVars(part = "switchLive" /\ SwitchLive!ResumeReturns)
  /\ WF_switchVars(part = "switchLive" /\ SwitchLive!ResumeRecords)
  /\ WF_agentVars(part = "agentLive" /\ Bridge(1, 1, TRUE)!Progress)
  /\ WF_daemonVars(part = "daemonLive" /\ DaemonLive!Progress)
-----------------------------------------------------------------------------
(* Whenever the switch's flag is up and no signal is under way, the        *)
(* process is stopped (dms.go:215-225).                                    *)
SuspendedIsStopped == part = "switch" => Switch!SuspendedIsStopped

(* The channels of a bridge are closed once, and not before the last send  *)
(* (pi_bridge.go:540-573, 744-760), also when a deployment replaces it.    *)
ChannelsSafe ==
  /\ part = "agent" => Bridge(1, Lines, TRUE)!ChannelsSafe
  /\ part = "redeploy" => Bridge(MaxDeploys, 0, FALSE)!ChannelsSafe

(* A session set back to RUNNING gets its stopped process back             *)
(* (daemon.go:1300, dms.go:258-273).                                       *)
ResumeReachesProcess == part = "switchLive" => SwitchLive!ResumeReachesProcess

(* A session that stays detached and idle ends up suspended                *)
(* (daemon.go:502).                                                        *)
DetachedIsSuspended == part = "switchLive" => SwitchLive!DetachedIsSuspended

(* Stopping the daemon ends every agent, although one may ignore the abort *)
(* (pi_bridge.go:689-740).                                                 *)
AgentsEndWithDaemon == part = "agentLive" => Bridge(1, 1, TRUE)!AgentsEndWithDaemon

(* Every agent that finishes is reported (daemon.go:1085-1110).            *)
FinishedIsReported == part = "agentLive" => Bridge(1, 1, TRUE)!FinishedIsReported

(* The daemon's Stop returns (daemon.go:212-260).                          *)
StopReturns == part = "daemonLive" => DaemonLive!StopReturns
=============================================================================
