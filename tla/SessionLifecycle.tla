-------------------------- MODULE SessionLifecycle --------------------------
(***************************************************************************)
(* The session rows of Nexus and everything in the Nexus process that      *)
(* changes their state: the REST handlers of internal/api/handlers.go, the *)
(* state updates the gRPC gateway applies (internal/grpc/gateway.go) and   *)
(* the recovery step at start-up (cmd/nexus/main.go).  Every HTTP request  *)
(* and every gateway connection runs in its own goroutine.                 *)
(*                                                                         *)
(* A handler first reads the row (GetSession) and acts in a second step.   *)
(* For the REST handlers that step is one action although it is a          *)
(* transaction: the row is locked (SELECT ... FOR UPDATE) from its read to *)
(* its commit, and every other writer is a single statement that waits for *)
(* the lock.  The gateway has no such transaction: it validates against    *)
(* the row of its first read and then writes the state column.  What a     *)
(* handler sends to the satellite is modelled in SessionControl.           *)
(***************************************************************************)
EXTENDS SessionStore

CONSTANTS Sessions,     \* ids of session rows
          Clients,      \* goroutines of HTTP requests
          Conns,        \* goroutines of gateway connections
          Reports,      \* states a satellite may report
          NoSession     \* "no session" in an idle goroutine

ASSUME ReportsAssumption == Reports \subseteq States
ASSUME NoSessionAssumption == NoSession \notin Sessions

VARIABLES life,         \* life[s]: is there a row for s?
          rows,         \* rows[s]: the row, while life[s] = "stored"
          req,          \* req[c]: what HTTP goroutine c has read and will do
          gw            \* gw[g]: what gateway goroutine g has read and will do

vars == <<life, rows, req, gw>>

Targets == [attach |-> "RUNNING", detach |-> "DETACHED", suspend |-> "SUSPENDED",
            resume |-> "RUNNING", kill |-> "TERMINATED"]

IdleReq == [op |-> "idle", sid |-> NoSession, saw |-> "PROVISIONING"]
IdleGw == [sid |-> NoSession, saw |-> "PROVISIONING", to |-> "PROVISIONING"]

(* Type correctness. *)
TypeOK ==
  /\ life \in [Sessions -> {"unused", "stored", "deleted"}]
  /\ rows \in [Sessions -> Rows]
  /\ req \in [Clients -> [op : DOMAIN Targets \cup {"idle", "delete"},
                          sid : Sessions \cup {NoSession}, saw : States]]
  /\ gw \in [Conns -> [sid : Sessions \cup {NoSession}, saw : States, to : States]]

Init ==
  /\ life = [s \in Sessions |-> "unused"]
  /\ rows = [s \in Sessions |-> NewRow]
  /\ req = [c \in Clients |-> IdleReq]
  /\ gw = [g \in Conns |-> IdleGw]
-----------------------------------------------------------------------------
(* REST handlers. *)

HandleCreateSession(s) ==
  /\ life[s] = "unused"
  /\ life' = [life EXCEPT ![s] = "stored"]
  /\ rows' = [rows EXCEPT ![s] = NewRow]
  /\ UNCHANGED <<req, gw>>

(* The GetSession at the head of every handler; no row, no further step. *)
Lookup(c, op, s) ==
  /\ req[c].op = "idle"
  /\ life[s] = "stored"
  /\ req' = [req EXCEPT ![c] = [op |-> op, sid |-> s, saw |-> rows[s].state]]
  /\ UNCHANGED <<life, rows, gw>>

HandleAttachSession(c, s) == Lookup(c, "attach", s)
HandleDetachSession(c, s) == Lookup(c, "detach", s)
HandleSuspendSession(c, s) == Lookup(c, "suspend", s)
HandleResumeSession(c, s) == Lookup(c, "resume", s)
HandleKillSession(c, s) == Lookup(c, "kill", s)

HandleDeleteSession(c, s) ==
  /\ rows[s].state \in {"TERMINATED", "PROVISIONING"}
  /\ Lookup(c, "delete", s)

(* Attach of a session read as RUNNING transitions nothing. *)
AttachesRunning(c) == req[c].op = "attach" /\ req[c].saw = "RUNNING"

(* Faulty: a terminated session may be resumed and is then like a new one. *)
TransitionRestarts(s, to) ==
  IF life[s] = "stored" /\ (IsTransitionValid(rows[s].state, to) \/ to = "RUNNING")
    THEN rows' = [rows EXCEPT ![s] = [Transitioned(@, to) EXCEPT !.terminatedAt = to = "TERMINATED"]]
    ELSE rows' = rows

(* SessionStore.TransitionSession: the check and the write of one locked row. *)
TransitionSession(s, to) ==
  IF life[s] = "stored" /\ IsTransitionValid(rows[s].state, to)
    THEN rows' = [rows EXCEPT ![s] = Transitioned(@, to)]
    ELSE rows' = rows

FinishTransition(c) ==
  /\ req[c].op \in DOMAIN Targets
  /\ IF AttachesRunning(c) THEN rows' = rows
                           ELSE TransitionSession(req[c].sid, Targets[req[c].op])
  /\ req' = [req EXCEPT ![c] = IdleReq]
  /\ UNCHANGED <<life, gw>>

FinishDelete(c) ==
  /\ req[c].op = "delete"
  /\ life' = [life EXCEPT ![req[c].sid] = "deleted"]
  /\ req' = [req EXCEPT ![c] = IdleReq]
  /\ UNCHANGED <<rows, gw>>
-----------------------------------------------------------------------------
(* Gateway: a SessionStateUpdate of the satellite, read and then written. *)

(* Faulty: the reported state is taken over unchecked. *)
ReceiveUnchecked(g, s, to) ==
  /\ gw[g] = IdleGw
  /\ life[s] = "stored"
  /\ gw' = [gw EXCEPT ![g] = [sid |-> s, saw |-> rows[s].state, to |-> to]]
  /\ UNCHANGED <<life, rows, req>>

(* Without a row, or when the row as read admits no such transition, the    *)
(* store is left alone.                                                     *)
ReceiveStateUpdate(g, s, to) ==
  /\ gw[g] = IdleGw
  /\ life[s] = "stored"
  /\ IsTransitionValid(rows[s].state, to)
  /\ gw' = [gw EXCEPT ![g] = [sid |-> s, saw |-> rows[s].state, to |-> to]]
  /\ UNCHANGED <<life, rows, req>>

(* UpdateState: an UPDATE of a row deleted meanwhile affects nothing. *)
ApplyStateUpdate(g) ==
  /\ gw[g] # IdleGw
  /\ rows' = IF life[gw[g].sid] = "stored"
               THEN [rows EXCEPT ![gw[g].sid] = WithState(@, gw[g].to)]
               ELSE rows
  /\ gw' = [gw EXCEPT ![g] = IdleGw]
  /\ UNCHANGED <<life, req>>

(* Nexus stops at any point, its goroutines are lost, and the next start    *)
(* runs recoverActiveSessions before it serves anyone.                      *)
Restart ==
  /\ rows' = [s \in Sessions |->
                IF life[s] = "stored" /\ rows[s].state \in {"RUNNING", "RE_ATTACHING"}
                  THEN WithState(rows[s], "DETACHED") ELSE rows[s]]
  /\ req' = [c \in Clients |-> IdleReq]
  /\ gw' = [g \in Conns |-> IdleGw]
  /\ UNCHANGED life

Next ==
  \/ \E s \in Sessions : HandleCreateSession(s)
  \/ \E c \in Clients, s \in Sessions :
       \/ HandleAttachSession(c, s)
       \/ HandleDetachSession(c, s)
       \/ HandleSuspendSession(c, s)
       \/ HandleResumeSession(c, s)
       \/ HandleKillSession(c, s)
       \/ HandleDeleteSession(c, s)
  \/ \E c \in Clients : FinishTransition(c) \/ FinishDelete(c)
  \/ \E g \in Conns, s \in Sessions, to \in Reports : ReceiveStateUpdate(g, s, to)
  \/ \E g \in Conns : ApplyStateUpdate(g)
  \/ Restart

Spec == Init /\ [][Next]_vars
-----------------------------------------------------------------------------
(* The state of s moves in this step although ValidTransitions forbids it. *)
IllegalMove(s) ==
  /\ rows'[s].state # rows[s].state
  /\ ~IsTransitionValid(rows[s].state, rows'[s].state)

(* Every transition ValidTransitions forbids is the doing of a gateway      *)
(* goroutine that checked an older state of the row (gateway.go:445-451);   *)
(* REST handlers and start-up recovery never make one, in any interleaving. *)
IllegalOnlyFromStaleRead ==
  [][\A s \in Sessions : IllegalMove(s) =>
       \E g \in Conns : /\ gw[g].sid = s
                        /\ gw[g].saw # rows[s].state
                        /\ IsTransitionValid(gw[g].saw, rows'[s].state)]_vars

(* "Terminal state - no transitions out" (store.go:70): a terminated row    *)
(* stays terminated until it is deleted.                                    *)
TerminalIsFinal ==
  [][\A s \in Sessions : rows[s].state = "TERMINATED" => rows'[s].state = "TERMINATED"]_vars

(* The timestamps tell the story of the state (store.go:688-703), whatever  *)
(* handlers ran side by side.  detached_at is exempt: recovery at start-up  *)
(* leaves it unset.                                                         *)
TimestampsAgree ==
  \A s \in Sessions : life[s] = "stored" =>
    /\ rows[s].terminatedAt <=> rows[s].state = "TERMINATED"
    /\ rows[s].state = "SUSPENDED" => rows[s].suspendedAt
    /\ rows[s].state = "RUNNING" =>
         rows[s].startedAt /\ ~rows[s].detachedAt /\ ~rows[s].suspendedAt
    /\ ~(rows[s].detachedAt /\ rows[s].suspendedAt)

(* terminated_at is "When process terminated" (docs/DATABASE.md:144): a     *)
(* terminated row has it.                                                   *)
(* The code does not keep this (README, Departures).                        *)
TerminatedHasTimestamp ==
  \A s \in Sessions :
    life[s] = "stored" /\ rows[s].state = "TERMINATED" => rows[s].terminatedAt

(* HandleDeleteSession (handlers.go:1207) allows "deletion of non-active    *)
(* sessions (terminated or failed provisioning)": the row it removes is one.*)
(* The code does not keep this (README, Departures).                        *)
DeletesOnlyInactive ==
  [][\A s \in Sessions : life[s] = "stored" /\ life'[s] = "deleted" =>
       rows[s].state \in {"TERMINATED", "PROVISIONING"}]_vars

(* HandleDeleteSession checks an unlocked read and then deletes: without    *)
(* satellites the row it removes is TERMINATED unless it was PROVISIONING   *)
(* when it was read (handlers.go:1208), as only that half of the check can  *)
(* be outrun by another request.                                            *)
DeletesTerminated ==
  [][\A s \in Sessions : life[s] = "stored" /\ life'[s] = "deleted" =>
       \/ rows[s].state = "TERMINATED"
       \/ \E c \in Clients : req[c].op = "delete" /\ req[c].sid = s /\ req[c].saw = "PROVISIONING"]_vars
-----------------------------------------------------------------------------
(* The rows as the sessions of SessionMachine, and the deletions under way  *)
(* that read PROVISIONING as the removals promised there.                   *)
MachineState ==
  [s \in Sessions |-> CASE life[s] = "unused" -> "absent"
                       [] life[s] = "stored" -> rows[s].state
                       [] life[s] = "deleted" -> "gone"]

Promised == {s \in Sessions :
  \E c \in Clients : req[c].op = "delete" /\ req[c].sid = s /\ req[c].saw = "PROVISIONING"}

Machine == INSTANCE SessionMachine WITH state <- MachineState, doomed <- Promised

(* While no satellite is connected, the handlers that run side by side do   *)
(* what the state machine of store.go:50-71 does, with one reservation: a   *)
(* deletion that read PROVISIONING (handlers.go:1208) removes the session   *)
(* whatever it has become.                                                  *)
ImplementsMachine == Machine!Spec
=============================================================================
