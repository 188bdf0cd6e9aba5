---------------------------- MODULE SessionControl ----------------------------
(***************************************************************************)
(* Sessions from the REST request to the process on one satellite and      *)
(* back: the REST handlers commit a row and then dispatch a command        *)
(* (internal/api/handlers.go), the command waits in the outbound channel   *)
(* of the connection the registry names (internal/stream/registry.go), the *)
(* daemon starts and stops processes and queues state updates on its       *)
(* priority channel (cmd/daao/daemon.go), and the gateway handler of each  *)
(* connection applies them (internal/grpc/gateway.go).  Connections break, *)
(* Nexus and the daemon restart; after a reconnect the daemon re-announces *)
(* its sessions and Nexus sends the list of those it considers active.     *)
(*                                                                         *)
(* A row is its state alone; SessionLifecycle has its other columns and    *)
(* the read before each handler's transaction.  The liveness checker is in *)
(* SatelliteLink; all it could do here is refuse more creations.           *)
(***************************************************************************)
EXTENDS SessionStore, Integers, FiniteSets, Sequences, Functions

CONSTANTS Sessions,
          Clients,        \* goroutines of HTTP requests
          MaxConns,       \* bound: connections the daemon opens
          OutCap,         \* slots of outboundCh (100 in the code)
          PrioCap,        \* slots of sendPriorityCh (64 in the code)
          NetCap,         \* bound: updates in flight on a connection
          MaxSessions,    \* DAAO_MAX_SESSIONS, 0 for no limit
          MaxRequests,    \* bound: REST requests
          MaxRestarts     \* bound: restarts of Nexus and of the daemon

ASSUME CapsAssumption ==
  /\ {MaxConns, OutCap, PrioCap, NetCap} \subseteq Nat \ {0}
  /\ {MaxSessions, MaxRequests, MaxRestarts} \subseteq Nat
  /\ \A S \in SUBSET Sessions : Cardinality(S) \in Nat   \* Sessions is finite

Conns == 1 .. MaxConns
None == 0

VARIABLES rows,      \* rows[s]: state of the row, or "none", or "deleted"
          asked,     \* REST requests so far
          req,       \* req[c]: commands HTTP goroutine c still has to dispatch
          status,    \* is satellites.status 'active'?
          stream,    \* satelliteStreams: the registered connection, or None
          gw,        \* gw[g]: the gateway handler of connection g
          out,       \* out[g]: commands on their way to the daemon
          up,        \* up[g]: messages on their way to the gateway
          used,      \* connections opened so far
          conn,      \* the connection the daemon is on, or None
          sat,       \* sat[s]: State of the daemon's entry, or "none"
          alive,     \* sessions whose process runs
          prio,      \* sendPriorityCh: updates not yet sent
          restarts,  \* restarts so far
          ended,     \* history: ended[s], connections opened when s was last terminated
          begun,     \* history: begun[s], connections opened when s was started
          spilled    \* history: connections on which a full channel dropped a report
                     \* of the daemon or the list of sessions

nexus == <<rows, asked, req, status, stream, gw, ended>>
daemon == <<sat, alive, prio, begun, spilled>>
vars == <<nexus, out, up, used, conn, daemon, restarts>>

Cmd(c, s) == [cmd |-> c, sid |-> s]
Register == [msg |-> "register"]
Update(s, to) == [msg |-> "state", sid |-> s, to |-> to]
Updates == [msg : {"state"}, sid : Sessions, to : {"RUNNING", "SUSPENDED", "TERMINATED"}]
Requests == [cmd : {"start", "suspend", "resume", "kill"}, sid : Sessions]
Commands == Requests \cup [cmd : {"reconcile"}, active : SUBSET Sessions]

(* Nothing or one of S. *)
Optional(S) == {<<>>} \cup {<<x>> : x \in S}

(* The orders in which a Go map with the keys S may be walked through. *)
Orders(S) == {q \in [1 .. Cardinality(S) -> S] : Range(q) = S}

Handlers == [pc : {"unused", "recv", "marked", "registered", "listed", "apply", "removed", "done"},
             reg : BOOLEAN, active : SUBSET Sessions, upd : Optional(Updates)]

Handler(pc, reg) == [pc |-> pc, reg |-> reg, active |-> {}, upd |-> <<>>]

(* Type correctness; a queue never exceeds its channel. *)
TypeOK ==
  /\ rows \in [Sessions -> States \cup {"none", "deleted"}]
  /\ asked \in 0 .. MaxRequests
  /\ req \in [Clients -> Optional(Requests)]
  /\ status \in BOOLEAN /\ stream \in Conns \cup {None}
  /\ gw \in [Conns -> Handlers]
  /\ out \in [Conns -> Seq(Commands)] /\ up \in [Conns -> Seq(Updates \cup {Register})]
  /\ \A g \in Conns : Len(out[g]) <= OutCap /\ Len(up[g]) <= NetCap
  /\ used \in 0 .. MaxConns /\ conn \in Conns \cup {None}
  /\ sat \in [Sessions -> {"none", "RUNNING", "SUSPENDED", "TERMINATED"}]
  /\ alive \subseteq Sessions
  /\ prio \in Seq(Updates) /\ Len(prio) <= PrioCap
  /\ restarts \in 0 .. MaxRestarts
  /\ ended \in [Sessions -> 0 .. used] /\ begun \in [Sessions -> 0 .. used]
  /\ spilled \subseteq Conns \cup {None}

Init ==
  /\ rows = [s \in Sessions |-> "none"]
  /\ asked = 0 /\ req = [c \in Clients |-> <<>>]
  /\ status = FALSE /\ stream = None
  /\ gw = [g \in Conns |-> Handler("unused", FALSE)]
  /\ out = [g \in Conns |-> <<>>] /\ up = [g \in Conns |-> <<>>]
  /\ used = 0 /\ conn = None
  /\ sat = [s \in Sessions |-> "none"] /\ alive = {} /\ prio = <<>>
  /\ restarts = 0
  /\ ended = [s \in Sessions |-> 0] /\ begun = [s \in Sessions |-> 0]
  /\ spilled = {}
-----------------------------------------------------------------------------
(* Nexus: REST handlers. *)

SetRow(s, to) ==
  /\ rows' = [rows EXCEPT ![s] = to]
  /\ ended' = IF to = "TERMINATED" THEN [ended EXCEPT ![s] = used] ELSE ended

Stored(s) == rows[s] \in States

Ask == asked < MaxRequests /\ asked' = asked + 1

HandleCreateSession(c, s) ==
  /\ Ask /\ req[c] = <<>> /\ rows[s] = "none" /\ status
  /\ SetRow(s, "PROVISIONING")
  /\ req' = [req EXCEPT ![c] = <<Cmd("start", s)>>]
  /\ UNCHANGED <<status, stream, gw, out, up, used, conn, daemon, restarts>>

(* An accepted TransitionSession; the command, if any, is dispatched later. *)
Transition(c, s, to, cmds) ==
  /\ Ask /\ req[c] = <<>>
  /\ Stored(s) /\ IsTransitionValid(rows[s], to)
  /\ SetRow(s, to)
  /\ req' = [req EXCEPT ![c] = cmds]
  /\ UNCHANGED <<status, stream, gw, out, up, used, conn, daemon, restarts>>

HandleKillSession(c, s) == Transition(c, s, "TERMINATED", <<Cmd("kill", s)>>)
HandleSuspendSession(c, s) == Transition(c, s, "SUSPENDED", <<Cmd("suspend", s)>>)
HandleResumeSession(c, s) == Transition(c, s, "RUNNING", <<Cmd("resume", s)>>)
HandleAttachSession(c, s) == Transition(c, s, "RUNNING", <<>>)
HandleDetachSession(c, s) == Transition(c, s, "DETACHED", <<>>)

HandleDeleteSession(s) ==
  /\ Ask /\ rows[s] \in {"TERMINATED", "PROVISIONING"}
  /\ SetRow(s, "deleted")
  /\ UNCHANGED <<req, status, stream, gw, out, up, used, conn, daemon, restarts>>

(* A send on a channel of the given capacity that drops when it is full. *)
Enqueue(q, m, cap) == IF Len(q) < cap THEN Append(q, m) ELSE q

(* SendToSatellite: without a registered stream the command is dropped. *)
Dispatch(c) ==
  /\ req[c] # <<>>
  /\ out' = IF stream = None THEN out
                             ELSE [out EXCEPT ![stream] = Enqueue(@, Head(req[c]), OutCap)]
  /\ req' = [req EXCEPT ![c] = <<>>]
  /\ UNCHANGED <<rows, asked, status, stream, gw, ended, up, used, conn, daemon, restarts>>
-----------------------------------------------------------------------------
(* Nexus: the gateway handler of connection g, one message at a time. *)

Receives(g, kind) == gw[g].pc = "recv" /\ up[g] # <<>> /\ Head(up[g]).msg = kind

(* RegisterRequest: the satellite becomes active ...                        *)
RegisterRequest(g) ==
  /\ Receives(g, "register")
  /\ status' = TRUE
  /\ gw' = [gw EXCEPT ![g] = Handler("marked", TRUE)]
  /\ up' = [up EXCEPT ![g] = Tail(@)]
  /\ UNCHANGED <<rows, asked, req, stream, ended, out, used, conn, daemon, restarts>>

(* ... its stream is registered ...                                         *)
RegisterSatelliteStream(g) ==
  /\ gw[g].pc = "marked"
  /\ stream' = g
  /\ gw' = [gw EXCEPT ![g].pc = "registered"]
  /\ UNCHANGED <<rows, asked, req, status, ended, out, up, used, conn, daemon, restarts>>

(* Faulty: the query forgets to leave out terminated sessions. *)
ListAllSessions(g) ==
  /\ gw[g].pc = "registered"
  /\ gw' = [gw EXCEPT ![g].pc = "listed", ![g].active = {s \in Sessions : Stored(s)}]
  /\ UNCHANGED <<rows, asked, req, status, stream, ended, out, up, used, conn, daemon, restarts>>

(* ... the sessions that are not terminated are listed ...                  *)
ListActiveSessions(g) ==
  /\ gw[g].pc = "registered"
  /\ gw' = [gw EXCEPT ![g].pc = "listed",
                      ![g].active = {s \in Sessions : Stored(s) /\ rows[s] # "TERMINATED"}]
  /\ UNCHANGED <<rows, asked, req, status, stream, ended, out, up, used, conn, daemon, restarts>>

(* ... and the list is queued for the daemon.                               *)
SendReconciliation(g) ==
  /\ gw[g].pc = "listed"
  /\ out' = [out EXCEPT ![g] = Enqueue(@, [cmd |-> "reconcile", active |-> gw[g].active], OutCap)]
  /\ spilled' = IF Len(out[g]) < OutCap THEN spilled ELSE spilled \cup {g}
  /\ gw' = [gw EXCEPT ![g] = Handler("recv", TRUE)]
  /\ UNCHANGED <<rows, asked, req, status, stream, ended, up, used, conn, sat, alive, prio, begun, restarts>>

(* SessionStateUpdate: validated against the row as read ...                *)
ReceiveStateUpdate(g) ==
  /\ Receives(g, "state")
  /\ LET m == Head(up[g]) IN
       gw' = IF Stored(m.sid) /\ IsTransitionValid(rows[m.sid], m.to)
               THEN [gw EXCEPT ![g].pc = "apply", ![g].upd = <<m>>] ELSE gw
  /\ up' = [up EXCEPT ![g] = Tail(@)]
  /\ UNCHANGED <<rows, asked, req, status, stream, ended, out, used, conn, daemon, restarts>>

(* ... and written with UpdateState.                                        *)
ApplyStateUpdate(g) ==
  /\ gw[g].pc = "apply"
  /\ LET m == Head(gw[g].upd) IN
       IF Stored(m.sid) THEN SetRow(m.sid, m.to) ELSE UNCHANGED <<rows, ended>>
  /\ gw' = [gw EXCEPT ![g].pc = "recv", ![g].upd = <<>>]
  /\ UNCHANGED <<asked, req, status, stream, out, up, used, conn, daemon, restarts>>

(* A heartbeat of the daemon, over a connection that serves. *)
HeartbeatPing(g) ==
  /\ gw[g].pc = "recv" /\ gw[g].reg /\ conn = g
  /\ status' = TRUE
  /\ UNCHANGED <<rows, asked, req, stream, gw, ended, out, up, used, conn, daemon, restarts>>

(* Recv fails once what had arrived is handled; the deferred clean-up       *)
(* removes the stream, whichever connection it names, ...                   *)
RecvFails(g) ==
  /\ gw[g].pc = "recv" /\ conn # g /\ up[g] = <<>>
  /\ stream' = IF gw[g].reg THEN None ELSE stream
  /\ gw' = [gw EXCEPT ![g] = Handler(IF gw[g].reg THEN "removed" ELSE "done", FALSE)]
  /\ UNCHANGED <<rows, asked, req, status, ended, out, up, used, conn, daemon, restarts>>

(* ... and sets the satellite offline.                                      *)
SetOffline(g) ==
  /\ gw[g].pc = "removed"
  /\ status' = FALSE
  /\ gw' = [gw EXCEPT ![g].pc = "done"]
  /\ UNCHANGED <<rows, asked, req, stream, ended, out, up, used, conn, daemon, restarts>>
-----------------------------------------------------------------------------
(* The connection. *)

(* The daemon loses its connection: what it has not received is lost, and   *)
(* so is any tail of what it sent.                                          *)
Break ==
  /\ conn # None /\ used < MaxConns
  /\ \E n \in 0 .. Len(up[conn]) : up' = [up EXCEPT ![conn] = SubSeq(@, 1, n)]
  /\ out' = [out EXCEPT ![conn] = <<>>]
  /\ conn' = None
  /\ UNCHANGED <<nexus, used, daemon, restarts>>

(* Sends one after the other on the priority channel. *)
EnqueueAll(q, ms) ==
  LET all == q \o ms
  IN  SubSeq(all, 1, IF Len(all) <= PrioCap THEN Len(all) ELSE PrioCap)

ReportAll(ms) ==
  /\ prio' = EnqueueAll(prio, ms)
  /\ spilled' = IF Len(prio) + Len(ms) <= PrioCap THEN spilled ELSE spilled \cup {conn}

Report(s, to) == ReportAll(<<Update(s, to)>>)

(* connectToNexus: RegisterRequest first, then replayActiveSessions queues  *)
(* the state of every session not terminated, in the order of a Go map.     *)
ConnectToNexus ==
  /\ conn = None /\ used < MaxConns
  /\ used' = used + 1 /\ conn' = used + 1
  /\ gw' = [gw EXCEPT ![used + 1] = Handler("recv", FALSE)]
  /\ up' = [up EXCEPT ![used + 1] = <<Register>>]
  /\ \E order \in Orders({s \in Sessions : sat[s] \notin {"none", "TERMINATED"}}) :
       prio' = EnqueueAll(prio, [i \in DOMAIN order |-> Update(order[i], sat[order[i]])])
  /\ UNCHANGED <<rows, asked, req, status, stream, ended, out, sat, alive, begun, spilled, restarts>>

(* streamWriter: the head of the priority channel goes out. *)
StreamWriter ==
  /\ conn # None /\ prio # <<>> /\ Len(up[conn]) < NetCap
  /\ up' = [up EXCEPT ![conn] = Append(@, Head(prio))]
  /\ prio' = Tail(prio)
  /\ UNCHANGED <<nexus, out, used, conn, sat, alive, begun, spilled, restarts>>

(* Nexus stops with all its goroutines and starts again with                *)
(* recoverActiveSessions; the daemon loses its connection.                  *)
NexusRestart ==
  /\ restarts < MaxRestarts /\ used < MaxConns
  /\ restarts' = restarts + 1
  /\ rows' = [s \in Sessions |-> IF rows[s] \in {"RUNNING", "RE_ATTACHING"} THEN "DETACHED" ELSE rows[s]]
  /\ req' = [c \in Clients |-> <<>>]
  /\ stream' = None
  /\ gw' = [g \in Conns |-> IF g <= used THEN Handler("done", FALSE) ELSE gw[g]]
  /\ out' = [g \in Conns |-> <<>>] /\ up' = [g \in Conns |-> <<>>]
  /\ conn' = None
  /\ UNCHANGED <<asked, status, ended, used, daemon>>

(* The daemon stops; its processes lose their terminals and end with it.    *)
DaemonRestart ==
  /\ restarts < MaxRestarts /\ used < MaxConns
  /\ restarts' = restarts + 1
  /\ sat' = [s \in Sessions |-> "none"] /\ alive' = {} /\ prio' = <<>>
  /\ conn' = None
  /\ out' = IF conn = None THEN out ELSE [out EXCEPT ![conn] = <<>>]
  /\ UNCHANGED <<nexus, up, used, begun, spilled>>
-----------------------------------------------------------------------------
(* The daemon: one command at a time, from the connection it is on. *)

Gets(c) == conn # None /\ out[conn] # <<>> /\ Head(out[conn]).cmd = c

Consume == out' = [out EXCEPT ![conn] = Tail(@)]

Entries == {s \in Sessions : sat[s] # "none"}

AtLimit == MaxSessions > 0 /\ Cardinality(Entries) >= MaxSessions

(* CreateSession fails: at the session limit, or the process or its IPC     *)
(* server does not start.                                                   *)
StartFails ==
  /\ Gets("start") /\ Consume
  /\ Report(Head(out[conn]).sid, "TERMINATED")
  /\ UNCHANGED <<nexus, up, used, conn, sat, alive, begun, restarts>>

(* Faulty: the new session is not announced. *)
StartSilently ==
  /\ Gets("start") /\ ~AtLimit /\ Consume
  /\ LET s == Head(out[conn]).sid IN
       /\ sat' = [sat EXCEPT ![s] = "RUNNING"]
       /\ alive' = alive \cup {s}
       /\ begun' = [begun EXCEPT ![s] = used]
       /\ UNCHANGED <<prio, spilled>>
  /\ UNCHANGED <<nexus, up, used, conn, restarts>>

StartSession ==
  /\ Gets("start") /\ ~AtLimit /\ Consume
  /\ LET s == Head(out[conn]).sid IN
       /\ sat' = [sat EXCEPT ![s] = "RUNNING"]
       /\ alive' = alive \cup {s}
       /\ begun' = [begun EXCEPT ![s] = used]
       /\ Report(s, "RUNNING")
  /\ UNCHANGED <<nexus, up, used, conn, restarts>>

(* handleSuspendCommand, handleResumeCommand: the entry's state is set      *)
(* whatever it was; the process is left alone.                              *)
SetState(c, to) ==
  /\ Gets(c) /\ Consume
  /\ LET s == Head(out[conn]).sid IN
       IF sat[s] = "none" THEN UNCHANGED <<sat, prio, spilled>>
       ELSE sat' = [sat EXCEPT ![s] = to] /\ Report(s, to)
  /\ UNCHANGED <<nexus, up, used, conn, alive, begun, restarts>>

Suspend == SetState("suspend", "SUSPENDED")
Resume == SetState("resume", "RUNNING")

(* Session.Close waits for the exit goroutine, which reports TERMINATED if  *)
(* the process still ran.                                                   *)
CloseReports(s) == IF s \in alive THEN <<Update(s, "TERMINATED")>> ELSE <<>>

(* handleKillCommand: close, remove the entry, report once more. *)
Kill ==
  /\ Gets("kill") /\ Consume
  /\ LET s == Head(out[conn]).sid IN
       IF sat[s] = "none" THEN UNCHANGED <<sat, alive, prio, spilled>>
       ELSE /\ sat' = [sat EXCEPT ![s] = "none"]
            /\ alive' = alive \ {s}
            /\ ReportAll(CloseReports(s) \o <<Update(s, "TERMINATED")>>)
  /\ UNCHANGED <<nexus, up, used, conn, begun, restarts>>

Orphans(active) == {s \in Entries : sat[s] # "TERMINATED" /\ s \notin active}

(* handleSessionReconciliation: close and remove what Nexus did not list. *)
Reconcile ==
  /\ Gets("reconcile") /\ Consume
  /\ LET gone == Orphans(Head(out[conn]).active) IN
       /\ sat' = [s \in Sessions |-> IF s \in gone THEN "none" ELSE sat[s]]
       /\ alive' = alive \ gone
       /\ \E order \in Orders(gone \cap alive) :
            ReportAll([i \in DOMAIN order |-> Update(order[i], "TERMINATED")])
  /\ UNCHANGED <<nexus, up, used, conn, begun, restarts>>

(* Faulty: the exit is noted locally only. *)
ProcessExitSilent(s) ==
  /\ s \in alive
  /\ alive' = alive \ {s}
  /\ sat' = [sat EXCEPT ![s] = "TERMINATED"]
  /\ UNCHANGED <<nexus, out, up, used, conn, prio, begun, spilled, restarts>>

(* The process ends by itself: its entry stays, as TERMINATED. *)
ProcessExit(s) ==
  /\ s \in alive
  /\ alive' = alive \ {s}
  /\ sat' = [sat EXCEPT ![s] = "TERMINATED"]
  /\ Report(s, "TERMINATED")
  /\ UNCHANGED <<nexus, out, up, used, conn, begun, restarts>>
-----------------------------------------------------------------------------
ApiStep ==
  \E c \in Clients, s \in Sessions :
    \/ HandleCreateSession(c, s) \/ HandleKillSession(c, s)
    \/ HandleSuspendSession(c, s) \/ HandleResumeSession(c, s)
    \/ HandleAttachSession(c, s) \/ HandleDetachSession(c, s)
    \/ HandleDeleteSession(s)

GatewayStep(g) ==
  \/ RegisterRequest(g) \/ RegisterSatelliteStream(g)
  \/ ListActiveSessions(g) \/ SendReconciliation(g)
  \/ ReceiveStateUpdate(g) \/ ApplyStateUpdate(g)
  \/ RecvFails(g) \/ SetOffline(g)

HandleNexusMessage == StartFails \/ StartSession \/ Suspend \/ Resume \/ Kill \/ Reconcile

Next ==
  \/ ApiStep
  \/ \E c \in Clients : Dispatch(c)
  \/ \E g \in Conns : GatewayStep(g) \/ HeartbeatPing(g)
  \/ ConnectToNexus \/ Break \/ NexusRestart \/ DaemonRestart
  \/ StreamWriter \/ HandleNexusMessage
  \/ \E s \in Sessions : ProcessExit(s)

Spec == Init /\ [][Next]_vars

(* Every goroutine with something to do gets to do it, and the reconnect    *)
(* loop retries for ever.  Nothing is assumed of clients or processes.      *)
Fairness ==
  /\ \A c \in Clients : WF_vars(Dispatch(c))
  /\ \A g \in Conns : WF_vars(GatewayStep(g))
  /\ WF_vars(ConnectToNexus) /\ WF_vars(StreamWriter) /\ WF_vars(HandleNexusMessage)

FairSpec == Spec /\ Fairness
-----------------------------------------------------------------------------
(* Connected and registered, and nothing on its way in either direction. *)
Quiet ==
  /\ conn # None /\ stream = conn /\ prio = <<>> /\ out[conn] = <<>>
  /\ \A c \in Clients : req[c] = <<>>
  /\ \A g \in Conns : /\ up[g] = <<>>
                      /\ gw[g].pc \in {"recv", "done", "unused"}
                      /\ gw[g].pc = "recv" => g = conn

(* State updates are "never dropped" (ARCHITECTURE.md:390): when all is     *)
(* quiet, a session that was started over the present connection and that   *)
(* Nexus shows as neither provisioning nor terminated has a process, unless *)
(* the priority channel was full.                                           *)
ActiveHasProcess ==
  Quiet /\ conn \notin spilled => \A s \in Sessions :
    begun[s] = conn /\ rows[s] \in {"RUNNING", "DETACHED", "RE_ATTACHING", "SUSPENDED"} => s \in alive

(* Kill is to "Terminate a session" (API_REFERENCE.md:175): when all is     *)
(* quiet, no process runs for a session that Nexus shows as terminated.     *)
(* The code does not keep this (README, Departures).                        *)
TerminatedHasNoProcess ==
  Quiet => \A s \in Sessions : rows[s] = "TERMINATED" => s \notin alive

(* Reconciliation handles "lost KillCommands during reconnects"             *)
(* (daemon.go:1138): a process that runs for a terminated session, when all *)
(* is quiet, was started, or its session terminated, since the last         *)
(* reconnect began, unless the list of sessions was dropped.                *)
OrphansEndAtReconnect ==
  Quiet /\ conn \notin spilled => \A s \in Sessions :
    rows[s] = "TERMINATED" /\ s \in alive => ended[s] >= conn \/ begun[s] >= conn

(* The daemon "prunes any orphans (sessions Nexus considers terminated or   *)
(* doesn't know about)" (daemon.go:1137): it prunes no other session.       *)
(* The code does not keep this (README, Departures).                        *)
PrunesOnlyOrphans ==
  [][Reconcile => \A s \in alive \ alive' : rows[s] \in {"TERMINATED", "deleted"}]_vars

(* The daemon rejects a start "when N sessions are already active"          *)
(* (SCALING.md:63): sessions that have ended take no room.                  *)
(* The code does not keep this (README, Departures).                        *)
LimitCountsActive == AtLimit => Cardinality(alive) >= MaxSessions

(* A start that was dispatched is answered: the session leaves              *)
(* PROVISIONING, because it runs or because it failed (daemon.go:1198),     *)
(* unless the connection breaks or the answer is dropped.                   *)
StartAnswered ==
  \A s \in Sessions, g \in Conns :
    Cmd("start", s) \in Range(out[g]) ~> rows[s] # "PROVISIONING" \/ conn # g \/ g \in spilled
=============================================================================
