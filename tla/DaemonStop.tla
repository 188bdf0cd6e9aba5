----------------------------- MODULE DaemonStop -----------------------------
(***************************************************************************)
(* How the satellite daemon shuts down (cmd/daao/daemon.go, control.go,    *)
(* service_other.go): Stop cancels the context, stops the control server,  *)
(* closes a snapshot of the sessions, stops the agents and waits for the   *)
(* goroutines counted in d.wg, while the receive loop may be starting a    *)
(* session, processes exit, local terminals are attached and the signal    *)
(* handler may call Stop itself.  AgentBridge models the agents.           *)
(***************************************************************************)
EXTENDS Naturals

CONSTANTS Sessions, \* sessions Nexus may start
          Clients,  \* local terminals (daao attach)
          Callers   \* callers of Stop: "main", "signal" or both

VARIABLES stop,    \* step of Stop's body
          snap,    \* the sessions Stop has copied
          todo,    \* those of them that are still to be closed
          called,  \* called[c]: "no", "inside", "returned"
          ctx,     \* is d.ctx cancelled?
          mu,      \* does Stop hold sessionsMu?
          loops,   \* goroutines of d.wg that run: the watcher, the gRPC loop, the signal handler
          recv,    \* the receive goroutine
          accept,  \* does the control server's accept loop run?
          client,  \* client[k]: a local terminal
          entry,   \* sessions in d.sessions
          proc,    \* proc[s]: the session's process
          pty,     \* sessions whose PTY is open
          pump,    \* sessions whose forwardPtyOutput runs
          waiter   \* sessions whose exit goroutine runs

stopVars == <<stop, snap, todo, called, ctx, mu>>
sessVars == <<entry, proc, pty, pump, waiter>>
vars == <<stopVars, loops, recv, accept, client, sessVars>>

Loops == {"watcher", "grpc", "signal"}

(* Type correctness; Stop closes sessions of its copy only. *)
TypeOK ==
  /\ stop \in {"none", "control", "sessions", "closing", "waiting", "done"}
  /\ {snap, todo, entry, pty, pump, waiter} \subseteq SUBSET Sessions
  /\ todo \subseteq snap /\ snap \subseteq entry
  /\ called \in [Callers -> {"no", "inside", "returned"}]
  /\ {ctx, mu, accept} \subseteq BOOLEAN /\ loops \subseteq Loops
  /\ recv \in {<<"idle">>, <<"ended">>} \cup ({"creating", "stored"} \X Sessions)
  /\ client \in [Clients -> {"away", "attached", "gone"}]
  /\ proc \in [Sessions -> {"none", "running", "killed", "exited"}]

(* Start has run. *)
Init ==
  /\ stop = "none" /\ snap = {} /\ todo = {} /\ called = [c \in Callers |-> "no"]
  /\ ctx = FALSE /\ mu = FALSE /\ accept = TRUE
  /\ loops = Loops /\ recv = <<"idle">>
  /\ client = [k \in Clients |-> "away"]
  /\ entry = {} /\ proc = [s \in Sessions |-> "none"]
  /\ pty = {} /\ pump = {} /\ waiter = {}
-----------------------------------------------------------------------------
(* Sessions. *)

(* StartSessionCommand is received; CreateSession does not look at ctx.     *)
ReceiveStart(s) ==
  /\ recv = <<"idle">> /\ ~ctx /\ proc[s] = "none"
  /\ recv' = <<"creating", s>>
  /\ UNCHANGED <<stopVars, loops, accept, client, sessVars>>

(* The process is started and the session stored, ...                       *)
StoreSession(s) ==
  /\ recv = <<"creating", s>> /\ ~mu
  /\ recv' = <<"stored", s>>
  /\ proc' = [proc EXCEPT ![s] = "running"]
  /\ entry' = entry \cup {s} /\ pty' = pty \cup {s}
  /\ UNCHANGED <<stopVars, loops, accept, client, pump, waiter>>

(* ... then its goroutines are started.                                     *)
StartPump(s) ==
  /\ recv = <<"stored", s>>
  /\ recv' = <<"idle">>
  /\ pump' = pump \cup {s} /\ waiter' = waiter \cup {s}
  /\ UNCHANGED <<stopVars, loops, accept, client, entry, proc, pty>>

(* Of itself, or killed. *)
ProcessExits(s) ==
  /\ proc[s] \in {"running", "killed"} /\ proc' = [proc EXCEPT ![s] = "exited"]
  /\ UNCHANGED <<stopVars, loops, recv, accept, client, entry, pty, pump, waiter>>

(* The exit goroutine closes the PTY and enters TERMINATED, for which it    *)
(* needs sessionsMu.                                                        *)
ExitHandled(s) ==
  /\ s \in waiter /\ proc[s] = "exited" /\ ~mu
  /\ waiter' = waiter \ {s} /\ pty' = pty \ {s}
  /\ UNCHANGED <<stopVars, loops, recv, accept, client, entry, proc, pump>>

(* The read fails, or one returns after the context was cancelled.          *)
PumpEnds(s) ==
  /\ s \in pump /\ (s \notin pty \/ ctx)
  /\ pump' = pump \ {s}
  /\ UNCHANGED <<stopVars, loops, recv, accept, client, entry, proc, pty, waiter>>

(* A local terminal attaches; it stays until it hangs up.                   *)
Attach(k) ==
  /\ accept /\ stop = "none" /\ entry # {} /\ client[k] = "away"
  /\ client' = [client EXCEPT ![k] = "attached"]
  /\ UNCHANGED <<stopVars, loops, recv, accept, sessVars>>

HangUp(k) ==
  /\ client[k] = "attached" /\ client' = [client EXCEPT ![k] = "gone"]
  /\ UNCHANGED <<stopVars, loops, recv, accept, sessVars>>
-----------------------------------------------------------------------------
(* The goroutines counted in d.wg. *)

LoopEnds(l) ==
  /\ l \in loops /\ ctx /\ (l = "signal" /\ l \in Callers => called[l] # "inside")
  /\ loops' = loops \ {l}
  /\ UNCHANGED <<stopVars, recv, accept, client, sessVars>>

(* The stream is cancelled with the context. *)
ReceiveEnds ==
  /\ recv = <<"idle">> /\ ctx /\ recv' = <<"ended">>
  /\ UNCHANGED <<stopVars, loops, accept, client, sessVars>>

AcceptEnds ==
  /\ accept /\ stop # "none" /\ accept' = FALSE
  /\ UNCHANGED <<stopVars, loops, recv, client, sessVars>>
-----------------------------------------------------------------------------
(* Stop. *)

(* The signal handler calls Stop on an interrupt, unless it has seen the    *)
(* context cancelled; main calls it when its service or window is closed.   *)
(* stopOnce: the first caller runs the body, which begins by cancelling the *)
(* context and closing the listener; the others wait for its end.           *)
CallStop(c) ==
  /\ called[c] = "no" /\ (c = "signal" => "signal" \in loops)
  /\ called' = [called EXCEPT ![c] = "inside"]
  /\ IF stop = "none" THEN stop' = "control" /\ ctx' = TRUE ELSE UNCHANGED <<stop, ctx>>
  /\ UNCHANGED <<snap, todo, mu, loops, recv, accept, client, sessVars>>

(* controlServer.Stop waits for the accept loop and for every connection.   *)
ControlStopped ==
  /\ stop = "control" /\ ~accept /\ \A k \in Clients : client[k] # "attached"
  /\ stop' = "sessions"
  /\ UNCHANGED <<snap, todo, called, ctx, mu, loops, recv, accept, client, sessVars>>

(* Faulty: the lock is kept while the sessions are closed. *)
SnapshotLocked == snap' = entry /\ todo' = entry /\ mu' = TRUE

(* The sessions are copied and the lock is released. *)
Snapshot == snap' = entry /\ todo' = entry /\ mu' = FALSE

TakeSnapshot ==
  /\ stop = "sessions" /\ stop' = "closing"
  /\ Snapshot
  /\ UNCHANGED <<called, ctx, loops, recv, accept, client, sessVars>>

(* s.Process.Kill() *)
Killed(s) == [proc EXCEPT ![s] = IF @ = "running" THEN "killed" ELSE @]

(* Session.Close: the PTY is closed and the process killed, ...             *)
CloseSession(s) ==
  /\ stop = "closing" /\ s \in todo /\ s \in pty
  /\ pty' = pty \ {s} /\ proc' = Killed(s)
  /\ UNCHANGED <<stopVars, loops, recv, accept, client, entry, pump, waiter>>

(* ... and its goroutines are waited for.                                   *)
SessionClosed(s) ==
  /\ stop = "closing" /\ s \in todo /\ s \notin pty \cup pump \cup waiter
  /\ todo' = todo \ {s}
  /\ UNCHANGED <<stop, snap, called, ctx, mu, loops, recv, accept, client, sessVars>>

(* The agents are stopped and the gRPC connection is closed. *)
SessionsClosed ==
  /\ stop = "closing" /\ todo = {}
  /\ stop' = "waiting" /\ mu' = FALSE
  /\ UNCHANGED <<snap, todo, called, ctx, loops, recv, accept, client, sessVars>>

(* d.wg.Wait() *)
AllDone == loops = {} /\ recv = <<"ended">>

WaitEnds ==
  /\ stop = "waiting" /\ AllDone
  /\ stop' = "done" /\ called' = [c \in Callers |-> IF called[c] = "inside" THEN "returned" ELSE called[c]]
  /\ UNCHANGED <<snap, todo, ctx, mu, loops, recv, accept, client, sessVars>>
-----------------------------------------------------------------------------
Session(s) == ReceiveStart(s) \/ StoreSession(s) \/ StartPump(s) \/ ProcessExits(s) \/ ExitHandled(s) \/ PumpEnds(s)
StopBody ==
  \/ ControlStopped \/ TakeSnapshot \/ SessionsClosed \/ WaitEnds
  \/ \E s \in Sessions : CloseSession(s) \/ SessionClosed(s)

Next ==
  \/ \E s \in Sessions : Session(s)
  \/ \E k \in Clients : Attach(k) \/ HangUp(k)
  \/ \E l \in Loops : LoopEnds(l)
  \/ ReceiveEnds \/ AcceptEnds
  \/ \E c \in Callers : CallStop(c)
  \/ StopBody

Spec == Init /\ [][Next]_vars

(* Goroutines run, and a process whose session is closed ends: it has been  *)
(* killed.  No process need end by itself and no terminal need hang up.     *)
(* Behaviours take finitely many steps, so fairness of the whole is         *)
(* fairness of each part.                                                   *)
Progress ==
  \/ \E s \in Sessions :
       \/ StoreSession(s) \/ StartPump(s) \/ ExitHandled(s)
       \/ (proc[s] = "killed" /\ ProcessExits(s)) \/ (s \notin pty /\ PumpEnds(s))
  \/ ReceiveEnds \/ AcceptEnds \/ StopBody
  \/ \E l \in Loops : LoopEnds(l)

FairSpec == Spec /\ WF_vars(Progress)
-----------------------------------------------------------------------------
(* "Holding RLock while calling sess.Close() ... deadlocks because          *)
(* goroutines inside forwardPtyOutput call TransitionSessionState"          *)
(* (daemon.go:224): as it is, Stop returns, although processes exit and a   *)
(* session is being started meanwhile.                                      *)
StopReturns == \A c \in Callers : called[c] = "inside" ~> called[c] = "returned"

(* When Stop has closed the sessions it copied, none of their processes     *)
(* goes on, though one may just have been stored without goroutines yet.    *)
SnapshotStopped ==
  stop \in {"waiting", "done"} => \A s \in snap : proc[s] \in {"killed", "exited"}

(* "Stop stops the daemon and all sessions" (daemon.go:212): no process of  *)
(* a session runs when Stop has returned.                                   *)
(* The code does not keep this (README, Departures).                        *)
StopsAllSessions == stop = "done" => \A s \in Sessions : proc[s] # "running"

(* "Press Ctrl+C to exit." (service_other.go:68): the Stop that the signal  *)
(* handler calls on an interrupt comes to its end.                          *)
(* The code does not keep this (README, Departures).                        *)
InterruptStops == called["signal"] = "inside" ~> stop = "done"

(* "Stop shuts down the control server." (control.go:86): it does, though   *)
(* a local terminal is attached.                                            *)
(* The code does not keep this (README, Departures).                        *)
ControlServerStops == stop = "control" ~> stop # "control"
=============================================================================
