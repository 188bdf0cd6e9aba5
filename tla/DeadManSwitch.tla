--------------------------- MODULE DeadManSwitch ---------------------------
(***************************************************************************)
(* The Dead Man's Switch of one session (pkg/lifecycle/dms.go) inside the  *)
(* daemon that uses it (cmd/daao/daemon.go): the monitor goroutines, the   *)
(* two one-slot signal channels, terminal input, the suspend and resume    *)
(* commands, and TransitionSessionState with the locks both sides take.    *)
(* mu is the switch's lock, sessMu the daemon's sessionsMu; only critical  *)
(* sections that wait for something are more than one step.                *)
(*                                                                         *)
(* Requests are the states TransitionSessionState is called with.  The     *)
(* daemon's only call passes TERMINATED; with the other states the module  *)
(* describes the function as it is written and documented.                 *)
(***************************************************************************)
EXTENDS SessionStore, Naturals

CONSTANTS Requests,   \* states TransitionSessionState is called with
          MaxMons,    \* bound: calls of Start
          TTL,        \* idle ticks after which the switch fires
          SignalsFail \* may SIGSTOP and SIGCONT fail?

Mons == 1 .. MaxMons
Free == 0
Ctl == MaxMons + 1   \* the goroutine in TransitionSessionState, as a lock holder

VARIABLES state,      \* sess.State
          shown,      \* has the user detached the session at Nexus?
          idle,       \* ticks since lastActivity, up to TTL
          cancelled,  \* the switch's context is cancelled
          starts,     \* calls of Start so far
          mon,        \* mon[m]: what monitor goroutine m is doing
          suspended,  \* the suspended flag
          suspendCh, resumeCh,   \* a signal is pending
          proc,       \* the process: "running" or "stopped"
          mu, sessMu, \* holders of the two locks
          ctl,        \* what TransitionSessionState is doing
          resuming    \* a resume command has set the state only

locks == <<mu, sessMu>>
chans == <<suspendCh, resumeCh>>
vars == <<state, shown, idle, cancelled, starts, mon, suspended, chans, proc, locks, ctl, resuming>>

(* Type correctness. *)
TypeOK ==
  /\ state \in States /\ shown \in BOOLEAN
  /\ idle \in 0 .. TTL /\ starts \in 0 .. MaxMons
  /\ mon \in [Mons -> {"off", "select", "check", "holdsMu", "suspend", "onSuspend", "resume", "onResume", "gone"}]
  /\ {cancelled, resuming, suspended, suspendCh, resumeCh} \subseteq BOOLEAN
  /\ proc \in {"running", "stopped"}
  /\ {mu, sessMu} \subseteq {Free, Ctl} \cup Mons
  /\ ctl \in {"idle", "stopping", "resuming"}

Init ==
  /\ state = "RUNNING" /\ shown = FALSE /\ idle = 0
  /\ cancelled = FALSE /\ starts = 0 /\ mon = [m \in Mons |-> "off"]
  /\ suspended = FALSE /\ suspendCh = FALSE /\ resumeCh = FALSE
  /\ proc = "running" /\ mu = Free /\ sessMu = Free /\ ctl = "idle" /\ resuming = FALSE
-----------------------------------------------------------------------------
(* The switch. *)

At(m, from, to) == mon[m] = from /\ mon' = [mon EXCEPT ![m] = to]

SelectDone(m) ==
  /\ cancelled /\ At(m, "select", "gone")
  /\ UNCHANGED <<state, shown, idle, cancelled, starts, suspended, chans, proc, locks, ctl, resuming>>

(* Faulty: the tick finds the session idle only once the TTL is exceeded.   *)
SelectTickLater(m) ==
  /\ mu = Free /\ ~suspended /\ idle > TTL
  /\ At(m, "select", "check")
  /\ UNCHANGED <<state, shown, idle, cancelled, starts, suspended, chans, proc, locks, ctl, resuming>>

(* checkAndSuspend reads under mu and goes on only if the switch is not     *)
(* suspended and the session was idle for the TTL ...                       *)
SelectTick(m) ==
  /\ mu = Free /\ ~suspended /\ idle >= TTL
  /\ At(m, "select", "check")
  /\ UNCHANGED <<state, shown, idle, cancelled, starts, suspended, chans, proc, locks, ctl, resuming>>

(* ... and then asks for the session's state (the idle time is not read     *)
(* again).                                                                  *)
CheckState(m) ==
  /\ sessMu = Free
  /\ At(m, "check", "select")
  /\ suspendCh' = (suspendCh \/ state # "RUNNING")
  /\ UNCHANGED <<state, shown, idle, cancelled, starts, suspended, resumeCh, proc, locks, ctl, resuming>>

(* doSuspend takes mu; it keeps it while it asks for the state again.       *)
SelectSuspend(m) ==
  /\ suspendCh /\ mu = Free
  /\ suspendCh' = FALSE
  /\ IF suspended THEN At(m, "select", "select") /\ mu' = mu
                  ELSE At(m, "select", "holdsMu") /\ mu' = m
  /\ UNCHANGED <<state, shown, idle, cancelled, starts, suspended, resumeCh, proc, sessMu, ctl, resuming>>

DecideSuspend(m) ==
  /\ mon[m] = "holdsMu" /\ sessMu = Free
  /\ mu' = Free
  /\ suspended' = (state # "RUNNING")
  /\ mon' = [mon EXCEPT ![m] = IF state = "RUNNING" THEN "select" ELSE "suspend"]
  /\ UNCHANGED <<state, shown, idle, cancelled, starts, chans, proc, sessMu, ctl, resuming>>

(* Faulty: the flag stays up when process.Suspend fails. *)
SuspendKeepsFlag(m) ==
  /\ \/ proc' = "stopped" /\ At(m, "suspend", "onSuspend")
     \/ SignalsFail /\ mu = Free /\ At(m, "suspend", "select") /\ proc' = proc
  /\ UNCHANGED <<state, shown, idle, cancelled, starts, suspended, chans, locks, ctl, resuming>>

(* process.Suspend succeeds, or fails and the flag is taken back. *)
SuspendProcess(m) ==
  /\ \/ proc' = "stopped" /\ At(m, "suspend", "onSuspend") /\ suspended' = suspended
     \/ SignalsFail /\ mu = Free /\ suspended' = FALSE /\ At(m, "suspend", "select") /\ proc' = proc
  /\ UNCHANGED <<state, shown, idle, cancelled, starts, chans, locks, ctl, resuming>>

OnSuspend(m) ==
  /\ sessMu = Free
  /\ At(m, "onSuspend", "select")
  /\ state' = "SUSPENDED"
  /\ UNCHANGED <<shown, idle, cancelled, starts, suspended, chans, proc, locks, ctl, resuming>>

(* doResume clears the flag and restarts the idle time under mu. *)
SelectResume(m) ==
  /\ resumeCh /\ mu = Free
  /\ resumeCh' = FALSE
  /\ IF suspended THEN At(m, "select", "resume") /\ suspended' = FALSE /\ idle' = 0
                  ELSE At(m, "select", "select") /\ UNCHANGED <<suspended, idle>>
  /\ UNCHANGED <<state, shown, cancelled, starts, suspendCh, proc, locks, ctl, resuming>>

(* process.Resume succeeds, or fails and nothing is taken back. *)
ResumeProcess(m) ==
  /\ \/ proc' = "running" /\ At(m, "resume", "onResume")
     \/ SignalsFail /\ proc' = proc /\ At(m, "resume", "select")
  /\ UNCHANGED <<state, shown, idle, cancelled, starts, suspended, chans, locks, ctl, resuming>>

OnResume(m) ==
  /\ sessMu = Free
  /\ At(m, "onResume", "select")
  /\ state' = "RUNNING"
  /\ UNCHANGED <<shown, idle, cancelled, starts, suspended, chans, proc, locks, ctl, resuming>>

(* RecordActivity. *)
Touch == mu = Free /\ idle' = 0 /\ resumeCh' = (resumeCh \/ suspended)
-----------------------------------------------------------------------------
(* The daemon. *)

(* Time passes; ticks past the TTL are not told apart. *)
Tick ==
  /\ idle < TTL /\ idle' = idle + 1
  /\ UNCHANGED <<state, shown, cancelled, starts, mon, suspended, chans, proc, locks, ctl, resuming>>

HandleTerminalInput ==
  /\ Touch
  /\ UNCHANGED <<state, shown, cancelled, starts, mon, suspended, suspendCh, proc, locks, ctl, resuming>>

HandleSuspendCommand ==
  /\ ~resuming /\ sessMu = Free /\ state' = "SUSPENDED"
  /\ UNCHANGED <<shown, idle, cancelled, starts, mon, suspended, chans, proc, locks, ctl, resuming>>

(* The resume command sets the state, then records activity; commands are   *)
(* handled one at a time.                                                   *)
HandleResumeCommand ==
  /\ ~resuming /\ sessMu = Free
  /\ state' = "RUNNING" /\ resuming' = TRUE
  /\ UNCHANGED <<shown, idle, cancelled, starts, mon, suspended, chans, proc, locks, ctl>>

(* Faulty: the command leaves the switch alone. *)
ResumeForgets ==
  /\ resuming /\ resuming' = FALSE
  /\ UNCHANGED <<state, shown, idle, cancelled, starts, mon, suspended, chans, proc, locks, ctl>>

ResumeRecords ==
  /\ resuming /\ Touch /\ resuming' = FALSE
  /\ UNCHANGED <<state, shown, cancelled, starts, mon, suspended, suspendCh, proc, locks, ctl>>

(* HandleDetachSession at Nexus: the row is DETACHED, no command is sent.   *)
UserDetaches ==
  /\ ~shown /\ shown' = TRUE
  /\ UNCHANGED <<state, idle, cancelled, starts, mon, suspended, chans, proc, locks, ctl, resuming>>

(* TransitionSessionState: the new state, under sessMu, whatever the old    *)
(* one was.  Stop and IsSuspended are called with sessMu held.              *)
TransitionSessionState(to) ==
  /\ ctl = "idle" /\ sessMu = Free
  /\ state' = to
  /\ to = "DETACHED" => starts < MaxMons
  /\ starts' = IF to = "DETACHED" THEN starts + 1 ELSE starts
  /\ mon' = IF to = "DETACHED" THEN [mon EXCEPT ![starts + 1] = "select"] ELSE mon
  /\ cancelled' = (cancelled \/ to = "RE_ATTACHING")
  /\ ctl' = CASE to = "RE_ATTACHING" -> "stopping"
              [] to = "RUNNING"      -> "resuming"
              [] OTHER               -> "idle"
  /\ sessMu' = IF ctl' = "idle" THEN Free ELSE Ctl
  /\ UNCHANGED <<shown, idle, suspended, chans, proc, mu, resuming>>

(* Stop returns when no monitor goroutine is left. *)
StopReturns ==
  /\ ctl = "stopping" /\ \A m \in Mons : mon[m] \in {"off", "gone"}
  /\ ctl' = "idle" /\ sessMu' = Free
  /\ UNCHANGED <<state, shown, idle, cancelled, starts, mon, suspended, chans, proc, mu, resuming>>

ResumeReturns ==
  /\ ctl = "resuming" /\ mu = Free
  /\ IF suspended THEN Touch ELSE UNCHANGED <<idle, resumeCh>>
  /\ ctl' = "idle" /\ sessMu' = Free
  /\ UNCHANGED <<state, shown, cancelled, starts, mon, suspended, suspendCh, proc, mu, resuming>>
-----------------------------------------------------------------------------
MonitorStep(m) ==
  \/ SelectDone(m) \/ SelectTick(m) \/ SelectSuspend(m) \/ SelectResume(m)
  \/ CheckState(m) \/ DecideSuspend(m) \/ SuspendProcess(m) \/ OnSuspend(m)
  \/ ResumeProcess(m) \/ OnResume(m)

Next ==
  \/ \E m \in Mons : MonitorStep(m)
  \/ Tick \/ HandleTerminalInput \/ HandleSuspendCommand \/ HandleResumeCommand \/ ResumeRecords
  \/ UserDetaches
  \/ \E to \in Requests : TransitionSessionState(to)
  \/ StopReturns \/ ResumeReturns

Spec == Init /\ [][Next]_vars

(* Go's select picks among the ready cases at random, so a case that is     *)
(* ready again and again is taken; goroutines run and time passes.  Nothing is assumed of the user.  *)
Fairness ==
  /\ \A m \in Mons :
       /\ SF_vars(SelectDone(m)) /\ SF_vars(SelectTick(m))
       /\ SF_vars(SelectSuspend(m)) /\ SF_vars(SelectResume(m))
       /\ WF_vars(MonitorStep(m))
  /\ WF_vars(Tick) /\ WF_vars(StopReturns) /\ WF_vars(ResumeReturns) /\ WF_vars(ResumeRecords)

FairSpec == Spec /\ Fairness
-----------------------------------------------------------------------------
(* No monitor is between raising or clearing the flag and its signal. *)
AtRest == \A m \in Mons : mon[m] \notin {"suspend", "resume"}

(* The flag promises a stopped process (dms.go:215-225): activity wakes a   *)
(* session only while the flag is up, so a flag left up over a running      *)
(* process, after a failed signal or any interleaving of activity,          *)
(* commands and transitions, would also keep the switch from firing.        *)
SuspendedIsStopped == AtRest /\ suspended => proc = "stopped"

(* "IsSuspended returns whether the process is currently suspended"         *)
(* (dms.go:137): a stopped process is flagged, so that activity wakes it.   *)
(* The code does not keep this (README, Departures).                        *)
StoppedIsSuspended == AtRest /\ proc = "stopped" => suspended

(* A session set back to RUNNING gets its stopped process back, whatever   *)
(* the monitor was doing when the resume command came (daemon.go:1300,      *)
(* dms.go:258-273), unless the switch was stopped.                          *)
ResumeReachesProcess ==
  state = "RUNNING" /\ proc = "stopped" ~> proc = "running" \/ cancelled

(* Input wakes a stopped process (dms.go:121-127): a stopped process whose  *)
(* session gets input again and again runs again and again, unless the      *)
(* switch was stopped.                                                      *)
InputResumes ==
  ([]<>(idle = 0)) => [](proc = "stopped" => <>(proc = "running" \/ cancelled))

(* "automatically suspends the process when the idle TTL is exceeded"       *)
(* (dms.go:59): the flag is raised only after TTL ticks without activity.   *)
(* The code does not keep this (README, Departures).                        *)
SuspendsOnlyIdle == [][~suspended /\ suspended' => idle >= TTL]_vars

(* "only suspends when the session is DETACHED" (dms.go:61).                *)
(* The code does not keep this (README, Departures).                        *)
SuspendsOnlyDetached == [][~suspended /\ suspended' => state = "DETACHED"]_vars

(* "DETACHED: Start DMS monitoring" (daemon.go:502): a session that stays   *)
(* detached and idle ends up suspended.                                     *)
DetachedIsSuspended ==
  <>[](state = "DETACHED" /\ idle = TTL) => <>(proc = "stopped")

(* "TransitionSessionState transitions a session to a new state and handles *)
(* DMS" (daemon.go:484): the call returns.                                  *)
(* The code does not keep this (README, Departures).                        *)
TransitionReturns == ctl # "idle" ~> ctl = "idle"

(* Detach "starts DMS" (API_REFERENCE.md:172): after a detach at Nexus a    *)
(* session that stays idle ends up suspended.                               *)
(* The code does not keep this (README, Departures).                        *)
DetachStartsSwitch ==
  <>[](shown /\ idle = TTL /\ state # "TERMINATED") => <>(proc = "stopped")
=============================================================================
