-------------------------------- MODULE MCHost --------------------------------
(***************************************************************************)
(* The satellite beside its sessions: SatelliteLink, the context files     *)
(* that go over the stream, the server on the local socket, Pi's runtime   *)
(* and the daemon's binary.  They share no state that the modules model,   *)
(* so a behaviour is one of a single part, chosen at the start.            *)
(***************************************************************************)
EXTENDS SatelliteLink

CONSTANTS Parts,           \* the parts to check
          Absent,          \* no file, no row
          Contents, Starter, Clients, EventCap, SendCap, MaxEdits, MaxVersion,
          MaxBreaks,       \* of ContextFiles
          Peers,           \* programs that connect to the local socket
          MaxConnections,  \* of IpcServer
          program,         \* the one provisioner, and the one command, at a time
          MaxRelease       \* bound on the versions of the daemon

(* make(chan ...) with a capacity: 32 and 256 in the code. *)
ASSUME CapacityAssumption == EventCap \in Nat /\ SendCap \in Nat \ {0}

(* Absent is none of the things it may stand in the place of. *)
ASSUME AbsentAssumption ==
  /\ Absent \notin Contents \cup {Starter, "write", "delete"}
  /\ Absent \notin [deleted : BOOLEAN, content : Contents \cup {Starter, Absent}]
  /\ Absent \notin [content : Contents \cup {Starter, "deleted"}, version : Nat]
  /\ Absent \notin [version : Nat, exec : BOOLEAN]

VARIABLES part,
          disk, fs, pending, flush, events, sendCh, up, down, connected, row, history,
          req, dropped, had, edits, breaks,
          socket, listening, cancelled, acceptor, closer, peer, queued, serve, conns,
          active, spoiled, shut,
          system, target, extracted, archive, prov,
          file, tmp, cmd, latest

contextVars == <<disk, fs, pending, flush, events, sendCh, up, down, connected, row, history,
                 req, dropped, had, edits, breaks>>
ipcVars == <<socket, listening, cancelled, acceptor, closer, peer, queued, serve, conns,
             active, spoiled, shut>>
runtimeVars == <<system, target, extracted, archive, prov>>
updateVars == <<file, tmp, cmd, latest>>
diskVars == <<runtimeVars, updateVars>>
allVars == <<part, vars, contextVars, ipcVars, diskVars>>

Context == INSTANCE ContextFiles WITH None <- Absent, lost <- dropped

Ipc == INSTANCE IpcServer WITH broken <- spoiled

(* One attempt at a time: two that overlap leave a runtime that counts as  *)
(* installed and is not complete.                                          *)
Runtime == INSTANCE RuntimeBootstrap WITH Provisioners <- {program}

(* One command at a time.                                                  *)
Update == INSTANCE BinaryUpdate WITH Commands <- {program}, MaxVersion <- MaxRelease, None <- Absent
-----------------------------------------------------------------------------
PartInit ==
  /\ part \in Parts
  /\ Init /\ Context!Init /\ Ipc!Init /\ Update!Init
  /\ Runtime!Init /\ (part # "runtime" => ~system)

LinkPart ==
  /\ part = "link" /\ Next
  /\ UNCHANGED <<part, contextVars, ipcVars, diskVars>>

ContextPart ==
  /\ part = "context" /\ Context!Next
  /\ UNCHANGED <<part, vars, ipcVars, diskVars>>

IpcPart ==
  /\ part = "ipc" /\ Ipc!Next
  /\ UNCHANGED <<part, vars, contextVars, diskVars>>

DiskPart ==
  /\ \/ part = "runtime" /\ Runtime!Next /\ UNCHANGED updateVars
     \/ part = "update" /\ Update!Next /\ UNCHANGED runtimeVars
  /\ UNCHANGED <<part, vars, contextVars, ipcVars>>

PartNext == LinkPart \/ ContextPart \/ IpcPart \/ DiskPart

(* The fairness of the parts, each where it is the part that runs.         *)
LinkFair ==
  /\ WF_vars(part = "link" /\ ConnectToNexus) /\ WF_vars(part = "link" /\ DaemonNotices)
  /\ \A c \in Conns : WF_vars(part = "link" /\ HandlerStep(c))
  /\ WF_vars(part = "link" /\ Tick)
  /\ WF_vars(part = "link" /\ Heartbeat)
  /\ WF_vars(part = "link" /\ LivenessCheck)

ContextFair ==
  /\ WF_contextVars(part = "context" /\ Context!Carry)
  /\ WF_contextVars(part = "context" /\ Context!Connect)

IpcFair ==
  /\ WF_ipcVars(part = "ipc" /\ Ipc!AcceptLoop)
  /\ WF_ipcVars(part = "ipc" /\ Ipc!Close)
  /\ \A p \in Peers :
        /\ WF_ipcVars(part = "ipc" /\ Ipc!ServeLoop(p))
        /\ WF_ipcVars(part = "ipc" /\ (peer[p] = "gone" \/ p \in shut) /\ Ipc!SendResponse(p))

PartSpec == PartInit /\ [][PartNext]_allVars /\ LinkFair /\ ContextFair /\ IpcFair
-----------------------------------------------------------------------------
(* When nothing is under way and nothing was dropped since the satellite's *)
(* last full report, a context file on both sides has one content          *)
(* (context_watcher.go:246-273, gateway.go:690-712).                       *)
QuietAgrees == part = "context" => Context!QuietAgrees

(* Edits of context files settle: a pushed file that is reported back does *)
(* not go round for ever (daemon.go:1600-1622, gateway.go:690-712).         *)
EditsSettle == part = "context" => Context!EditsSettle

(* Close of the local server returns and leaves no socket behind           *)
(* (server.go:140-167).                                                    *)
CloseReturns == part = "ipc" => Ipc!CloseReturns

(* A runtime that counts as installed is complete, wherever the daemon was *)
(* killed (bootstrap.go:253-309).                                          *)
InstalledIsComplete == part = "runtime" => Runtime!InstalledIsComplete

(* A binary that can be run stays in one of its places, wherever update or *)
(* rollback is killed (update.go:88-109, 138-155).                         *)
RunnableKept == part = "update" => Update!RunnableKept
=============================================================================
