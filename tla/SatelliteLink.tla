---------------------------- MODULE SatelliteLink ----------------------------
(***************************************************************************)
(* The connections of one satellite to Nexus: the reconnect loop and the   *)
(* heartbeat of the daemon (cmd/daao/daemon.go), one gateway handler per   *)
(* connection (internal/grpc/gateway.go), the stream registry they share   *)
(* (internal/stream/registry.go), the status column of the satellite and   *)
(* the liveness checker (cmd/nexus/main.go).                               *)
(*                                                                         *)
(* A connection breaks at one moment; the daemon and the handler notice it *)
(* independently, so the daemon may be on its next connection while the    *)
(* handler of the last one still runs.  Time advances in ticks of 15s, the *)
(* period of the liveness checker.                                         *)
(***************************************************************************)
EXTENDS Naturals

CONSTANTS MaxConns,      \* bound: connections the daemon opens
          Sessions,      \* sessions whose messages the connections carry
          MaxLost        \* lost heartbeats are counted up to here

ASSUME MaxConnsAssumption == MaxConns \in Nat
ASSUME MaxLostAssumption == MaxLost \in Nat

Conns == 1 .. MaxConns
None == 0

BeatTicks == 2    \* HeartbeatInterval, 30s
StaleTicks == 3   \* the checker's limit, 45s

VARIABLES used,      \* connections opened so far
          satConn,   \* the connection the daemon is on, or None
          broken,    \* the connections that have broken
          gw,        \* gw[c]: the point the handler of c has reached
          own,       \* own[c]: sessionIDs of the handler of c
          satStream, \* satelliteStreams: the connection registered for the satellite
          sessStream,\* sessionStreams[s]: the connection registered for s
          status,    \* satellites.status
          age,       \* ticks since satellites.updated_at
          beat,      \* ticks since the daemon's last heartbeat
          lost       \* heartbeats lost since the last one Nexus saw

link == <<used, satConn, broken>>
registry == <<own, satStream, sessStream>>
clock == <<status, age, beat, lost>>
vars == <<link, gw, registry, clock>>

(* Type correctness. *)
TypeOK ==
  /\ used \in 0 .. MaxConns
  /\ satConn \in Conns \cup {None}
  /\ broken \subseteq Conns
  /\ gw \in [Conns -> {"unused", "accepted", "marked", "serving", "ending", "unlisted", "removed", "done"}]
  /\ own \in [Conns -> SUBSET Sessions]
  /\ satStream \in Conns \cup {None}
  /\ sessStream \in [Sessions -> Conns \cup {None}]
  /\ status \in {"pending", "active", "offline"}
  /\ age \in 0 .. StaleTicks
  /\ beat \in 0 .. BeatTicks
  /\ lost \in 0 .. MaxLost

Init ==
  /\ used = 0 /\ satConn = None /\ broken = {}
  /\ gw = [c \in Conns |-> "unused"]
  /\ own = [c \in Conns |-> {}]
  /\ satStream = None
  /\ sessStream = [s \in Sessions |-> None]
  /\ status = "pending" /\ age = 0 /\ beat = 0 /\ lost = 0
-----------------------------------------------------------------------------
(* The daemon and the network. *)

(* connectToNexus: a new stream, its RegisterRequest first, a new heartbeat *)
(* ticker.                                                                  *)
ConnectToNexus ==
  /\ satConn = None /\ used < MaxConns
  /\ used' = used + 1
  /\ satConn' = used + 1
  /\ gw' = [gw EXCEPT ![used + 1] = "accepted"]
  /\ beat' = 0
  /\ UNCHANGED <<broken, registry, status, age, lost>>

Break(c) ==
  /\ c <= used /\ c \notin broken
  /\ broken' = broken \cup {c}
  /\ UNCHANGED <<used, satConn, gw, registry, clock>>

(* receiveMessages returns; heartbeat and telemetry loops end with it. *)
DaemonNotices ==
  /\ satConn \in broken
  /\ satConn' = None
  /\ UNCHANGED <<used, broken, gw, registry, clock>>
-----------------------------------------------------------------------------
(* The gateway handler of connection c. *)

At(c, from, to) == gw[c] = from /\ gw' = [gw EXCEPT ![c] = to]

(* RegisterRequest: the row becomes active ...                              *)
MarkActive(c) ==
  /\ At(c, "accepted", "marked")
  /\ status' = "active" /\ age' = 0
  /\ UNCHANGED <<link, registry, beat, lost>>

(* ... and then the stream is registered.                                   *)
RegisterSatelliteStream(c) ==
  /\ At(c, "marked", "serving")
  /\ satStream' = c
  /\ UNCHANGED <<link, own, sessStream, clock>>

(* registerSession, for any message that names session s. *)
RegisterSession(c, s) ==
  /\ gw[c] = "serving" /\ s \notin own[c]
  /\ own' = [own EXCEPT ![c] = @ \cup {s}]
  /\ sessStream' = [sessStream EXCEPT ![s] = c]
  /\ UNCHANGED <<link, gw, satStream, clock>>

(* Faulty: the session is forgotten before its stream is unregistered. *)
SessionTerminatedForgets(c, s) ==
  /\ gw[c] = "serving"
  /\ own' = [own EXCEPT ![c] = @ \ {s}]
  /\ UNCHANGED <<link, gw, satStream, sessStream, clock>>

(* A TERMINATED report: registerSession, and at its end the clean-up. *)
SessionTerminated(c, s) ==
  /\ gw[c] = "serving"
  /\ own' = [own EXCEPT ![c] = @ \ {s}]
  /\ sessStream' = [sessStream EXCEPT ![s] = None]
  /\ UNCHANGED <<link, gw, satStream, clock>>

(* Recv fails.  A handler that never saw a RegisterRequest has nothing to   *)
(* clean up.                                                                *)
RecvFails(c) ==
  /\ c \in broken
  /\ gw[c] \in {"accepted", "serving"}
  /\ gw' = [gw EXCEPT ![c] = IF gw[c] = "serving" THEN "ending" ELSE "done"]
  /\ UNCHANGED <<link, registry, clock>>

UnregisterAll(c) ==
  /\ At(c, "ending", "unlisted")
  /\ sessStream' = [s \in Sessions |-> IF s \in own[c] THEN None ELSE sessStream[s]]
  /\ UNCHANGED <<link, own, satStream, clock>>

(* The entry is removed whichever connection it names. *)
UnregisterSatelliteStream(c) ==
  /\ At(c, "unlisted", "removed")
  /\ satStream' = None
  /\ UNCHANGED <<link, own, sessStream, clock>>

SetOffline(c) ==
  /\ At(c, "removed", "done")
  /\ status' = "offline" /\ age' = 0
  /\ UNCHANGED <<link, registry, beat, lost>>
-----------------------------------------------------------------------------
(* Heartbeats and the liveness checker. *)

(* The ticker fires before time passes on. *)
Tick ==
  /\ satConn = None \/ beat < BeatTicks
  /\ age' = IF age < StaleTicks THEN age + 1 ELSE age
  /\ beat' = IF satConn = None THEN beat ELSE beat + 1
  /\ UNCHANGED <<link, gw, registry, status, lost>>

Serves(c) == c # None /\ c \notin broken /\ gw[c] = "serving"

(* Faulty: a heartbeat does not bring an offline satellite back. *)
HeartbeatNoRevive ==
  /\ satConn # None /\ beat = BeatTicks
  /\ beat' = 0
  /\ \/ /\ Serves(satConn)
        /\ age' = 0 /\ lost' = 0 /\ status' = status
     \/ /\ lost' = IF lost < MaxLost THEN lost + 1 ELSE lost
        /\ UNCHANGED <<status, age>>
  /\ UNCHANGED <<link, gw, registry>>

(* The heartbeat reaches the handler at once, or is lost: the priority      *)
(* channel is full, or the connection does not serve.                       *)
Heartbeat ==
  /\ satConn # None /\ beat = BeatTicks
  /\ beat' = 0
  /\ \/ /\ Serves(satConn)
        /\ status' = "active" /\ age' = 0 /\ lost' = 0
     \/ /\ lost' = IF lost < MaxLost THEN lost + 1 ELSE lost
        /\ UNCHANGED <<status, age>>
  /\ UNCHANGED <<link, gw, registry>>

(* Faulty: the comparison is strict at the wrong place, nothing is ever stale. *)
LivenessCheckNever ==
  /\ status = "active" /\ age > StaleTicks
  /\ status' = "offline" /\ age' = 0
  /\ UNCHANGED <<link, gw, registry, beat, lost>>

LivenessCheck ==
  /\ status = "active" /\ age >= StaleTicks
  /\ status' = "offline" /\ age' = 0
  /\ UNCHANGED <<link, gw, registry, beat, lost>>
-----------------------------------------------------------------------------
HandlerStep(c) ==
  \/ MarkActive(c) \/ RegisterSatelliteStream(c)
  \/ RecvFails(c) \/ UnregisterAll(c) \/ UnregisterSatelliteStream(c) \/ SetOffline(c)

Next ==
  \/ ConnectToNexus \/ DaemonNotices
  \/ \E c \in Conns : Break(c) \/ HandlerStep(c)
  \/ \E c \in Conns, s \in Sessions : RegisterSession(c, s) \/ SessionTerminated(c, s)
  \/ Tick \/ Heartbeat \/ LivenessCheck

Spec == Init /\ [][Next]_vars

(* Every goroutine runs, the reconnect loop retries for ever, a broken      *)
(* connection is noticed (Recv returns an error), tickers fire.             *)
Fairness ==
  /\ WF_vars(ConnectToNexus) /\ WF_vars(DaemonNotices)
  /\ \A c \in Conns : WF_vars(HandlerStep(c))
  /\ WF_vars(Tick) /\ WF_vars(Heartbeat) /\ WF_vars(LivenessCheck)

FairSpec == Spec /\ Fairness
-----------------------------------------------------------------------------
(* "HasStream returns true if the satellite has an active stream            *)
(* registered" (registry.go:105): an entry of either map of the registry    *)
(* names a handler that has not yet run the clean-up for that map, so no    *)
(* command is queued for a connection that has ended.                       *)
RegistryNamesServing ==
  /\ satStream # None => gw[satStream] \in {"serving", "ending", "unlisted"}
  /\ \A s \in Sessions : sessStream[s] # None =>
       gw[sessStream[s]] \in {"serving", "ending"}

(* The daemon is connected, its handler serves, every earlier one is done. *)
Settled ==
  Serves(satConn) /\ \A c \in Conns : c < satConn => gw[c] = "done"

(* "StreamRegistry manages active gRPC streams for sending messages to      *)
(* satellites" (registry.go:10): once the handlers of earlier connections   *)
(* have ended, the stream of a connected satellite is the registered one.   *)
(* The code does not keep this (README, Departures).                        *)
ConnectedIsRegistered == Settled => satStream = satConn

(* "3 missed heartbeats = offline" (main.go:852): the checker does not give *)
(* up a connected satellite before three heartbeats in a row were lost.     *)
(* The code does not keep this (README, Departures).                        *)
OfflineAfterThreeMisses ==
  [][LivenessCheck /\ Settled => lost >= 3]_vars

(* A satellite that is gone for good, or whose heartbeats no longer get     *)
(* through a connection that never breaks, is eventually shown offline and  *)
(* stays so (gateway.go:163, main.go:850).                                  *)
SilentIsOffline ==
  <>[](satConn = None \/ lost > 0) => <>[](status # "active")

(* A satellite that stays connected and whose heartbeats get through again  *)
(* and again is shown active again and again: the clean-up of an earlier    *)
(* connection may set it offline, a heartbeat repairs that (gateway.go:596).*)
ConnectedIsActive ==
  <>[]Serves(satConn) /\ []<>(lost = 0) => []<>(status = "active")
=============================================================================
