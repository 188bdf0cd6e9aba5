------------------------------ MODULE HostProofs ------------------------------
(***************************************************************************)
(* Theorems about the parts of MCHost, for any number of connections,      *)
(* sessions, edits, requests, versions, breaks, crashes and restarts, and  *)
(* channels of any capacity.  A step of one part leaves the variables of   *)
(* the others alone, so what the steps of a part preserve holds of every   *)
(* behaviour of PartSpec.                                                  *)
(***************************************************************************)
EXTENDS MCHost, Sequences, TLAPS

(* A step of the composition is a step of each part or leaves it alone.     *)
LEMMA PartSteps ==
  ASSUME [PartNext]_allVars
  PROVE  /\ [Context!Next]_(Context!vars)
         /\ [Runtime!Next]_(Runtime!vars)
         /\ [Update!Next]_(Update!vars)
  BY DEF PartNext, LinkPart, ContextPart, IpcPart, DiskPart, allVars, contextVars, diskVars,
         runtimeVars, updateVars, Context!vars, Runtime!vars, Update!vars
-----------------------------------------------------------------------------

(***************************************************************************)
(* The link.  RegistryNamesServing is not inductive: that the clean-up of  *)
(* a connection reaches every entry of the session map that names it rests *)
(* on the sessionIDs of the handler (own), and that a fresh connection is  *)
(* in no entry rests on handlers being unused until the daemon opens them. *)
(***************************************************************************)

(* The handler owns every session entry that names it, and the clean-up of  *)
(* neither map has passed the entries of that map.                          *)
RegistryInv ==
  /\ satStream # None => gw[satStream] \in {"serving", "ending", "unlisted"}
  /\ \A s \in Sessions : sessStream[s] # None =>
       s \in own[sessStream[s]] /\ gw[sessStream[s]] \in {"serving", "ending"}
  /\ \A c \in Conns : c > used => gw[c] = "unused"

(* Every reachable state of the link is well typed.                         *)
THEOREM LinkTypes == Spec => []TypeOK
<1> USE MaxConnsAssumption, MaxLostAssumption DEF Conns, None, BeatTicks, StaleTicks
<1>1. Init => TypeOK
  BY DEF Init, TypeOK
<1>2. TypeOK /\ [Next]_vars => TypeOK'
  <2> SUFFICES ASSUME TypeOK, [Next]_vars PROVE TypeOK'
    OBVIOUS
  <2> USE DEF TypeOK
  <2>1. CASE ConnectToNexus
    BY <2>1 DEF ConnectToNexus, registry
  <2>2. CASE DaemonNotices
    BY <2>2 DEF DaemonNotices, registry, clock
  <2>3. ASSUME NEW c \in Conns, Break(c) PROVE TypeOK'
    BY <2>3 DEF Break, registry, clock
  <2>4. ASSUME NEW c \in Conns, HandlerStep(c) PROVE TypeOK'
    <3>1. CASE MarkActive(c)
      BY <3>1 DEF MarkActive, At, link, registry
    <3>2. CASE RegisterSatelliteStream(c)
      BY <3>2 DEF RegisterSatelliteStream, At, link, clock
    <3>3. CASE RecvFails(c)
      BY <3>3 DEF RecvFails, link, registry, clock
    <3>4. CASE UnregisterAll(c)
      BY <3>4 DEF UnregisterAll, At, link, clock
    <3>5. CASE UnregisterSatelliteStream(c)
      BY <3>5 DEF UnregisterSatelliteStream, At, link, clock
    <3>6. CASE SetOffline(c)
      BY <3>6 DEF SetOffline, At, link, registry
    <3> QED BY <2>4, <3>1, <3>2, <3>3, <3>4, <3>5, <3>6 DEF HandlerStep
  <2>5. ASSUME NEW c \in Conns, NEW s \in Sessions, RegisterSession(c, s) PROVE TypeOK'
    BY <2>5 DEF RegisterSession, link, clock
  <2>6. ASSUME NEW c \in Conns, NEW s \in Sessions, SessionTerminated(c, s) PROVE TypeOK'
    BY <2>6 DEF SessionTerminated, link, clock
  <2>7. CASE Tick
    BY <2>7 DEF Tick, link, registry
  <2>8. CASE Heartbeat
    BY <2>8 DEF Heartbeat, link, registry
  <2>9. CASE LivenessCheck
    BY <2>9 DEF LivenessCheck, link, registry
  <2>10. CASE UNCHANGED vars
    BY <2>10 DEF vars, link, registry, clock
  <2> QED BY <2>1, <2>2, <2>3, <2>4, <2>5, <2>6, <2>7, <2>8, <2>9, <2>10 DEF Next
<1> QED BY <1>1, <1>2, PTL DEF Spec

(* The invariant behind RegistryNamesServing holds initially and is         *)
(* preserved by every step.                                                 *)
LEMMA RegistryInductive == Spec => []RegistryInv
<1> USE MaxConnsAssumption DEF Conns, None
<1>1. Init => RegistryInv
  BY DEF Init, RegistryInv
<1>2. TypeOK /\ RegistryInv /\ [Next]_vars => RegistryInv'
  <2> SUFFICES ASSUME TypeOK, RegistryInv, [Next]_vars PROVE RegistryInv'
    OBVIOUS
  <2> USE DEF TypeOK, RegistryInv
  <2>1. CASE ConnectToNexus
    (* An entry that named the new connection would name an unused handler. *)
    <3>1. gw[used + 1] = "unused" /\ used + 1 \in Conns
      BY <2>1 DEF ConnectToNexus
    <3> QED BY <2>1, <3>1 DEF ConnectToNexus, registry
  <2>2. CASE DaemonNotices
    BY <2>2 DEF DaemonNotices, registry, clock
  <2>3. ASSUME NEW c \in Conns, Break(c) PROVE RegistryInv'
    BY <2>3 DEF Break, registry, clock
  <2>4. ASSUME NEW c \in Conns, HandlerStep(c) PROVE RegistryInv'
    <3>1. CASE MarkActive(c)
      BY <3>1 DEF MarkActive, At, link, registry
    <3>2. CASE RegisterSatelliteStream(c)
      BY <3>2 DEF RegisterSatelliteStream, At, link, clock
    <3>3. CASE RecvFails(c)
      BY <3>3 DEF RecvFails, link, registry, clock
    <3>4. CASE UnregisterAll(c)
      BY <3>4 DEF UnregisterAll, At, link, clock
    <3>5. CASE UnregisterSatelliteStream(c)
      BY <3>5 DEF UnregisterSatelliteStream, At, link, clock
    <3>6. CASE SetOffline(c)
      BY <3>6 DEF SetOffline, At, link, registry
    <3> QED BY <2>4, <3>1, <3>2, <3>3, <3>4, <3>5, <3>6 DEF HandlerStep
  <2>5. ASSUME NEW c \in Conns, NEW s \in Sessions, RegisterSession(c, s) PROVE RegistryInv'
    BY <2>5 DEF RegisterSession, link, clock
  <2>6. ASSUME NEW c \in Conns, NEW s \in Sessions, SessionTerminated(c, s) PROVE RegistryInv'
    BY <2>6 DEF SessionTerminated, link, clock
  <2>7. CASE Tick \/ Heartbeat \/ LivenessCheck
    BY <2>7 DEF Tick, Heartbeat, LivenessCheck, link, registry
  <2>8. CASE UNCHANGED vars
    BY <2>8 DEF vars, link, registry
  <2> QED BY <2>1, <2>2, <2>3, <2>4, <2>5, <2>6, <2>7, <2>8 DEF Next
<1> QED BY <1>1, <1>2, LinkTypes, PTL DEF Spec

(* However many connections overlap, no map of the stream registry names a  *)
(* handler that has cleaned that map up (gateway.go:145-170,                *)
(* registry.go:26-52).                                                      *)
THEOREM RegistryNeverStale == Spec => []RegistryNamesServing
<1>1. RegistryInv => RegistryNamesServing
  BY DEF RegistryInv, RegistryNamesServing
<1> QED BY <1>1, RegistryInductive, PTL

-----------------------------------------------------------------------------
(* The statements of BootstrapRuntime between its check and the link.      *)
Working == {"download", "downloading", "extract", "remove", "rename", "copy", "verify", "install", "link"}
RuntimePCs == {"idle", "check", "done"} \cup Working

(* InstalledIsComplete made inductive: Pi's link is in the directory only   *)
(* with everything else, it is not there while a provisioner works, and     *)
(* where the system has Node.js, none is ever unpacked.                     *)
RuntimeInv ==
  /\ system \in BOOLEAN /\ prov \in [{program} -> RuntimePCs]
  /\ target \subseteq Runtime!Files /\ extracted \subseteq Runtime!Dist
  /\ system => "node" \notin target /\ prov[program] \in {"idle", "check", "install", "link", "done"}
  /\ ~system => ("pi" \in target => Runtime!Files \subseteq target)
  /\ ~system /\ prov[program] \in Working => "pi" \notin target
  /\ ~system /\ prov[program] = "link" => Runtime!Dist \cup {"packages"} \subseteq target

(* One step of the provisioner, or a crash, keeps the directory in order. *)
LEMMA RuntimeStep ==
  ASSUME RuntimeInv, [Runtime!Next]_(Runtime!vars)
  PROVE  RuntimeInv'
<1> USE DEF RuntimeInv, Runtime!Files, Runtime!Dist, RuntimePCs, Working, Runtime!At, Runtime!Goto
<1>1. ASSUME NEW force \in BOOLEAN, Runtime!Provision(program, force)
      PROVE  RuntimeInv'
  BY <1>1 DEF Runtime!Provision
<1>2. CASE Runtime!Check(program)
  BY <1>2 DEF Runtime!Check, Runtime!IsRuntimeInstalled
<1>3. CASE Runtime!DownloadStart(program)
  BY <1>3 DEF Runtime!DownloadStart
<1>4. ASSUME NEW ok \in BOOLEAN, Runtime!Download(program, ok)
      PROVE  RuntimeInv'
  BY <1>4 DEF Runtime!Download
<1>5. CASE Runtime!Extract(program)
  BY <1>5, Zenon DEF Runtime!Extract, Runtime!Return
<1>6. CASE Runtime!RemoveTarget(program)
  BY <1>6, Zenon DEF Runtime!RemoveTarget
<1>7. CASE Runtime!Rename(program)
  BY <1>7, Zenon DEF Runtime!Rename
<1>8. CASE Runtime!copyDir(program)
  BY <1>8, Zenon DEF Runtime!copyDir, Runtime!Return
<1>9. CASE Runtime!VerifyNode(program)
  BY <1>9 DEF Runtime!VerifyNode, Runtime!Return
<1>10. CASE Runtime!installPiCLI(program)
  BY <1>10, Zenon DEF Runtime!installPiCLI, Runtime!Return
<1>11. CASE Runtime!LinkPi(program)
  BY <1>11, Zenon DEF Runtime!LinkPi, Runtime!Return
<1>12. CASE Runtime!VerifyPi(program)
  BY <1>12 DEF Runtime!VerifyPi, Runtime!Return
<1>13. CASE Runtime!Crash
  BY <1>13 DEF Runtime!Crash
<1>14. CASE UNCHANGED Runtime!vars
  BY <1>14 DEF Runtime!vars
<1> QED
  BY <1>1, <1>2, <1>3, <1>4, <1>5, <1>6, <1>7, <1>8, <1>9, <1>10, <1>11, <1>12, <1>13, <1>14, Zenon
  DEF Runtime!Next

(* A runtime that IsRuntimeInstalled finds, and that no later deployment    *)
(* therefore provisions again, is complete, wherever earlier attempts       *)
(* failed or the daemon was killed, as long as attempts do not overlap.     *)
THEOREM RuntimeComplete == PartSpec => []InstalledIsComplete
<1>1. PartInit => RuntimeInv
  BY DEF PartInit, Runtime!Init, RuntimeInv, Runtime!Files, Runtime!Dist, RuntimePCs, Working
<1>2. RuntimeInv /\ [PartNext]_allVars => RuntimeInv'
  BY PartSteps, RuntimeStep
<1>3. RuntimeInv => InstalledIsComplete
  BY DEF RuntimeInv, InstalledIsComplete, Runtime!InstalledIsComplete, Runtime!IsRuntimeInstalled
<1> QED BY <1>1, <1>2, <1>3, PTL DEF PartSpec

-----------------------------------------------------------------------------
(* The binaries, and those that can be run. *)
Binary == [version : Nat, exec : BOOLEAN]
Good == [version : Nat, exec : {TRUE}]

UpdatePCs == {"idle", "unlink", "backup", "install", "restore", "chmod", "aside", "back", "keep", "undo"}

BinariesOK ==
  /\ file \in [Update!Paths -> Binary \cup {Absent}]
  /\ tmp \in [{program} -> Binary \cup {Absent}]
  /\ cmd \in [{program} -> UpdatePCs]
  /\ latest \in Nat

(* RunnableKept made inductive: where the binary that can be run is, at each *)
(* statement of the command.                                                *)
Kept ==
  /\ \E n \in Update!Paths : file[n] \in Good
  /\ cmd[program] \in {"unlink", "backup", "aside"} => file["current"] \in Good
  /\ cmd[program] \in {"install", "restore", "chmod"} => file["bak"] \in Good
  /\ cmd[program] \in {"back", "keep", "undo"} => file["new"] \in Good

(* Good is what Runnable means of a binary. *)
LEMMA GoodRuns ==
  ASSUME NEW f \in Binary \cup {Absent}
  PROVE  /\ f \in Good <=> (f # Absent /\ f.exec)
         /\ Absent \notin Good
         /\ f \in Good => f # Absent
<1>1. ASSUME f \in Binary
      PROVE  f \in Good <=> f.exec
  BY <1>1, Zenon DEF Binary, Good
<1>2. Good \subseteq Binary
  BY Zenon DEF Binary, Good
<1>3. Absent \notin Binary
  BY AbsentAssumption DEF Binary
<1> QED BY <1>1, <1>2, <1>3

(* What a download leaves is a file, and with its mode set a file that runs. *)
LEMMA Downloads ==
  ASSUME NEW v \in Nat
  PROVE  [version |-> v, exec |-> FALSE] \in Binary /\ [version |-> v, exec |-> TRUE] \in Good
  BY DEF Binary, Good

(* os.Chmod makes a file one that runs, unless there is none. *)
LEMMA MadeExecutable ==
  ASSUME NEW f \in Binary
  PROVE  [f EXCEPT !.exec = TRUE] \in Binary
  BY Zenon DEF Binary

(* One step keeps the types and the binary. *)
LEMMA KeptStep ==
  ASSUME BinariesOK, Kept, [Update!Next]_(Update!vars)
  PROVE  BinariesOK' /\ Kept'
<1> USE DEF BinariesOK, Kept, Update!Paths, Update!At, Update!Goto, UpdatePCs
<1>. Absent \notin Binary
  BY AbsentAssumption DEF Binary
<1>0. \A n \in Update!Paths : Update!Runnable(n) <=> file[n] \in Good
  BY GoodRuns DEF Update!Runnable
<1>1. CASE Update!Release
  BY <1>1 DEF Update!Release
<1>2. ASSUME NEW force \in BOOLEAN, Update!Update(program, force)
      PROVE  BinariesOK' /\ Kept'
  BY <1>0, <1>2, Downloads, Zenon DEF Update!Update
<1>3. CASE Update!RemoveBackup(program)
  BY <1>3 DEF Update!RemoveBackup
<1>4. CASE Update!Backup(program)
  BY <1>4 DEF Update!Backup, Update!Renamed, Update!Return
<1>5. CASE Update!Install(program)
  BY <1>5 DEF Update!Install
<1>6. CASE Update!Restore(program)
  BY <1>6 DEF Update!Restore, Update!Renamed, Update!Return
<1>7. CASE Update!Chmod(program)
  <2>1. file' = IF file["current"] = Absent THEN file
                ELSE [file EXCEPT !["current"] = [file["current"] EXCEPT !.exec = TRUE]]
    BY <1>7 DEF Update!Chmod
  <2>2. file["current"] # Absent => [file["current"] EXCEPT !.exec = TRUE] \in Binary
    BY MadeExecutable
  <2> QED BY <1>7, <2>1, <2>2 DEF Update!Chmod, Update!Return
<1>8. CASE Update!Rollback(program)
  BY <1>0, <1>8 DEF Update!Rollback
<1>9. CASE Update!MoveAside(program)
  BY <1>9 DEF Update!MoveAside, Update!Renamed
<1>10. CASE Update!MoveBack(program)
  BY <1>10 DEF Update!MoveBack, Update!Renamed
<1>11. CASE Update!KeepNew(program, "keep", "bak")
  BY <1>11 DEF Update!KeepNew, Update!Renamed
<1>12. CASE Update!KeepNew(program, "undo", "current")
  BY <1>12 DEF Update!KeepNew, Update!Renamed
<1>13. CASE Update!Kill(program)
  BY <1>13 DEF Update!Kill, Update!Return
<1>14. CASE UNCHANGED Update!vars
  BY <1>14 DEF Update!vars
<1> QED
  BY <1>1, <1>2, <1>3, <1>4, <1>5, <1>6, <1>7, <1>8, <1>9, <1>10, <1>11, <1>12, <1>13, <1>14, Zenon
  DEF Update!Next

(* Wherever an update or a rollback is killed, and whichever rename fails,  *)
(* the machine keeps a binary of the daemon that can be run, as long as     *)
(* commands do not overlap.                                                 *)
THEOREM BinaryKept == PartSpec => []RunnableKept
<1> DEFINE I == BinariesOK /\ Kept
<1>1. PartInit => I
  <2> SUFFICES ASSUME PartInit PROVE I
    OBVIOUS
  <2>1. /\ file = [n \in Update!Paths |-> IF n = "current" THEN [version |-> 1, exec |-> TRUE] ELSE Absent]
        /\ tmp = [c \in {program} |-> Absent] /\ cmd = [c \in {program} |-> "idle"] /\ latest = 1
    BY DEF PartInit, Update!Init
  <2>2. /\ [version |-> 1, exec |-> TRUE] \in Good /\ Good \subseteq Binary
        /\ "current" \in Update!Paths /\ "idle" \in UpdatePCs
    BY DEF Good, Binary, Update!Paths, UpdatePCs
  <2>3. BinariesOK
    BY <2>1, <2>2 DEF BinariesOK
  <2>4. file["current"] \in Good /\ cmd[program] = "idle"
    BY <2>1, <2>2
  <2> QED BY <2>2, <2>3, <2>4 DEF Kept
<1>2. I /\ [PartNext]_allVars => I'
  BY PartSteps, KeptStep
<1>3. I => RunnableKept
  BY GoodRuns, Zenon DEF BinariesOK, Kept, RunnableKept, Update!RunnableKept, Update!Runnable
<1> QED BY <1>1, <1>2, <1>3, PTL DEF PartSpec

-----------------------------------------------------------------------------
(***************************************************************************)
(* Context files.  A change of the disk is on its way to Nexus as an event *)
(* of fsnotify, in the watcher's map, in a flush, or as a content in one   *)
(* of three queues, and the first of these places that holds anything,     *)
(* from the disk on, says how the disk is now.                             *)
(***************************************************************************)

(* What may be on the disk, what a report may carry, and what may be a row. *)
DiskContent == Contents \cup {Starter}
Reported == DiskContent \cup {Context!Deleted}
FileRow == [content : Reported, version : Nat]
FlushOf == [deleted : BOOLEAN, content : DiskContent \cup {Absent}]
Asked == [pc : {"idle", "version", "history", "update", "push"}, content : Contents \cup {Absent}]

ContextTypes ==
  /\ disk \in DiskContent \cup {Absent}
  /\ fs \in Seq({"write", "delete"})
  /\ pending \in {"write", "delete", Absent}
  /\ flush \in FlushOf \cup {Absent}
  /\ events \in Seq(Reported) /\ sendCh \in Seq(Reported) /\ up \in Seq(Reported)
  /\ Len(events) <= EventCap /\ Len(sendCh) <= SendCap
  /\ down \in Seq(Contents)
  /\ row \in FileRow \cup {Absent}
  /\ req \in [Clients -> Asked]
  /\ \A c \in Clients : req[c].pc # "idle" => req[c].content \in Contents
  /\ edits \in Nat /\ breaks \in Nat

Newest(q) == q[Len(q)]

(* The watcher knows whether the file is there, or will learn it.           *)
WatcherKnows ==
  /\ fs # <<>> => (Newest(fs) = "write" <=> disk # Absent)
  /\ fs = <<>> /\ pending # Absent => (pending = "write" <=> disk # Absent)
  /\ fs = <<>> /\ pending = Absent /\ flush # Absent =>
       /\ flush.deleted <=> disk = Absent
       /\ ~flush.deleted /\ flush.content # Absent => flush.content = disk

(* A PUT has changed the row and its content has not reached the disk.      *)
PushUnderWay == down # <<>> \/ \E c \in Clients : req[c].pc = "push"

(* With nothing dropped and no event or flush left, the newest report       *)
(* carries what is on the disk, and with no report left the row has it,     *)
(* unless the content of a PUT is still on its way.                         *)
ReportsDisk ==
  (~dropped /\ fs = <<>> /\ pending = Absent /\ flush = Absent /\ disk # Absent) =>
    IF events # <<>> THEN Newest(events) = disk
    ELSE IF sendCh # <<>> THEN Newest(sendCh) = disk
    ELSE IF up # <<>> THEN Newest(up) = disk
    ELSE row # Absent /\ (row.content = disk \/ PushUnderWay)

ContextInv == ContextTypes /\ WatcherKnows /\ ReportsDisk

(* What AbsentAssumption says of these sets. *)
LEMMA AbsentIsNone ==
  /\ Absent \notin DiskContent /\ Absent \notin FlushOf /\ Absent \notin FileRow
  /\ Absent # "write" /\ Absent # "delete"
  BY AbsentAssumption DEF DiskContent, FlushOf, FileRow, Reported, Context!Deleted

(* Sending to a queue makes the content its newest. *)
LEMMA SendsNewest ==
  ASSUME NEW S, NEW q \in Seq(S), NEW x \in S
  PROVE  /\ Append(q, x) \in Seq(S) /\ Append(q, x) # <<>>
         /\ Newest(Append(q, x)) = x /\ Len(Append(q, x)) = Len(q) + 1
  BY DEF Newest

(* Receiving from a queue leaves its newest, or was of the newest. *)
LEMMA ReceivesOldest ==
  ASSUME NEW S, NEW q \in Seq(S), q # <<>>
  PROVE  /\ Tail(q) \in Seq(S) /\ Head(q) \in S
         /\ Tail(q) # <<>> => Newest(Tail(q)) = Newest(q)
         /\ Tail(q) = <<>> => Newest(q) = Head(q)
         /\ Len(Tail(q)) = Len(q) - 1
<1>1. Len(q) \in Nat /\ Len(q) # 0
  OBVIOUS
<1>2. Tail(q) \in Seq(S) /\ Head(q) \in S /\ Len(Tail(q)) = Len(q) - 1
  BY <1>1
<1>3. ASSUME Tail(q) # <<>> PROVE Newest(Tail(q)) = Newest(q)
  <2>1. Len(Tail(q)) \in 1 .. Len(q) - 1
    BY <1>1, <1>2, <1>3
  <2>2. Tail(q)[Len(Tail(q))] = q[Len(Tail(q)) + 1]
    BY <1>1, <2>1
  <2>3. Len(Tail(q)) + 1 = Len(q)
    BY <1>1, <1>2
  <2> QED BY <2>2, <2>3, Zenon DEF Newest
<1>4. ASSUME Tail(q) = <<>> PROVE Newest(q) = Head(q)
  <2>1. Len(q) = 1
    BY <1>1, <1>2, <1>4
  <2>2. Head(q) = q[1]
    BY <2>1
  <2> QED BY <2>1, <2>2 DEF Newest
<1> QED BY <1>2, <1>3, <1>4


(* A request that goes on keeps its content. *)
LEMMA RequestMoves ==
  ASSUME ContextTypes, NEW c \in Clients,
         NEW pc \in {"history", "update", "push"}, Context!Goto(c, pc)
  PROVE  /\ req' \in [Clients -> Asked]
         /\ \A d \in Clients : req'[d].content = req[d].content
         /\ \A d \in Clients : req'[d].pc = IF d = c THEN pc ELSE req[d].pc
<1>1. req[c] \in Asked
  BY DEF ContextTypes
<1>2. /\ [req[c] EXCEPT !.pc = pc] \in Asked
      /\ [req[c] EXCEPT !.pc = pc].pc = pc /\ [req[c] EXCEPT !.pc = pc].content = req[c].content
  BY <1>1 DEF Asked
<1>3. req' = [req EXCEPT ![c] = [req[c] EXCEPT !.pc = pc]]
  BY DEF Context!Goto
<1> QED BY <1>2, <1>3 DEF ContextTypes

(* A request that is answered ends, and no other moves. *)
LEMMA RequestEnds ==
  ASSUME ContextTypes, NEW c \in Clients, Context!Answer(c)
  PROVE  /\ req' \in [Clients -> Asked]
         /\ \A d \in Clients : req'[d].pc # "idle" => d # c
         /\ \A d \in Clients : d # c => req'[d] = req[d]
<1>1. Context!Idle \in Asked /\ Context!Idle.pc = "idle"
  BY DEF Context!Idle, Asked
<1> QED BY <1>1 DEF ContextTypes, Context!Answer

(* One step keeps the order of the places a change goes through. *)
LEMMA ContextStep ==
  ASSUME ContextInv, [Context!Next]_(Context!vars)
  PROVE  ContextInv'
<1> USE AbsentIsNone, CapacityAssumption
    DEF ContextInv, PushUnderWay, Context!nvars, Context!dvars
<1>1. CASE Context!WatcherEvent
  <2>1. /\ Tail(fs) \in Seq({"write", "delete"}) /\ Head(fs) \in {"write", "delete"}
        /\ Tail(fs) # <<>> => Newest(Tail(fs)) = Newest(fs)
        /\ Tail(fs) = <<>> => Newest(fs) = Head(fs)
    BY <1>1, ReceivesOldest, Zenon DEF Context!WatcherEvent, ContextTypes
  <2>2. ContextTypes'
    BY <1>1, <2>1 DEF Context!WatcherEvent, ContextTypes
  <2>3. WatcherKnows' /\ ReportsDisk'
    BY <1>1, <2>1 DEF Context!WatcherEvent, WatcherKnows, ReportsDisk
  <2> QED BY <2>2, <2>3
<1>2. CASE Context!FlushTake
  <2>1. flush' \in FlushOf /\ flush'.deleted = (pending = "delete") /\ flush'.content = Absent
    BY <1>2, Zenon DEF Context!FlushTake, FlushOf
  <2>2. ContextTypes'
    BY <1>2, <2>1 DEF Context!FlushTake, ContextTypes
  <2>3. WatcherKnows' /\ ReportsDisk'
    BY <1>2, <2>1, Zenon DEF Context!FlushTake, ContextTypes, WatcherKnows, ReportsDisk
  <2> QED BY <2>2, <2>3
<1>3. CASE Context!FlushRead
  <2>1. \/ disk = Absent /\ flush' = Absent
        \/ /\ disk # Absent /\ flush' \in FlushOf
           /\ flush'.deleted = FALSE /\ flush'.content = disk
    BY <1>3, Zenon DEF Context!FlushRead, FlushOf, ContextTypes
  <2>2. ContextTypes'
    BY <1>3, <2>1 DEF Context!FlushRead, ContextTypes
  <2>3. WatcherKnows' /\ ReportsDisk'
    BY <1>3, <2>1, Zenon DEF Context!FlushRead, ContextTypes, WatcherKnows, ReportsDisk
  <2> QED BY <2>2, <2>3
<1>4. CASE Context!FlushSend
  <2> DEFINE x == IF flush.deleted THEN Context!Deleted ELSE flush.content
  <2>1. x \in Reported
    BY <1>4 DEF Context!FlushSend, ContextTypes, FlushOf, Reported
  <2>2. /\ Append(events, x) \in Seq(Reported) /\ Append(events, x) # <<>>
        /\ Newest(Append(events, x)) = x /\ Len(Append(events, x)) = Len(events) + 1
    <3>1. events \in Seq(Reported)
      BY DEF ContextTypes
    <3> QED BY <2>1, <3>1, SendsNewest
  <2>3. events' = (IF Len(events) < EventCap THEN Append(events, x) ELSE events) /\ Len(events) \in Nat
    BY <1>4 DEF Context!FlushSend, Context!Enqueue, ContextTypes
  <2> HIDE DEF x
  <2>4. ContextTypes'
    <3>1. events' \in Seq(Reported) /\ Len(events') <= EventCap
      BY <2>2, <2>3 DEF ContextTypes
    <3> QED BY <1>4, <3>1 DEF Context!FlushSend, ContextTypes
  <2>5. WatcherKnows'
    BY <1>4 DEF Context!FlushSend, WatcherKnows
  <2>6. ReportsDisk'
    <3> SUFFICES ASSUME ~dropped', fs = <<>>, pending = Absent, disk # Absent
                 PROVE  events' # <<>> /\ Newest(events)' = disk
      BY <1>4 DEF Context!FlushSend, ReportsDisk
    <3>1. x = disk
      BY <1>4 DEF Context!FlushSend, WatcherKnows, ContextTypes, FlushOf, x
    <3>2. Len(events) # EventCap
      BY <1>4, Zenon DEF Context!FlushSend
    <3>3. Len(events) < EventCap
      BY <2>3, <3>2 DEF ContextTypes
    <3> QED BY <3>1, <3>3, <2>2, <2>3
  <2> QED BY <2>4, <2>5, <2>6
<1>5. CASE Context!SendContextUpdate
  <2>1. /\ Tail(events) \in Seq(Reported) /\ Head(events) \in Reported
        /\ Tail(events) # <<>> => Newest(Tail(events)) = Newest(events)
        /\ Tail(events) = <<>> => Newest(events) = Head(events)
        /\ Len(Tail(events)) = Len(events) - 1
    BY <1>5, ReceivesOldest DEF Context!SendContextUpdate, ContextTypes
  <2>2. /\ Append(sendCh, Head(events)) \in Seq(Reported) /\ Append(sendCh, Head(events)) # <<>>
        /\ Newest(Append(sendCh, Head(events))) = Head(events)
        /\ Len(Append(sendCh, Head(events))) = Len(sendCh) + 1
    BY <2>1, SendsNewest DEF ContextTypes
  <2>3. Len(events) \in Nat /\ Len(sendCh) \in Nat
    BY DEF ContextTypes
  <2>4. ContextTypes'
    BY <1>5, <2>1, <2>2, <2>3 DEF Context!SendContextUpdate, Context!Enqueue, ContextTypes
  <2>5. WatcherKnows'
    BY <1>5 DEF Context!SendContextUpdate, WatcherKnows
  <2>6. ReportsDisk'
    <3>1. ~dropped' => Len(sendCh) # SendCap
      BY <1>5, Zenon DEF Context!SendContextUpdate
    <3>2. ~dropped' => Len(sendCh) < SendCap
      BY <2>3, <3>1 DEF ContextTypes
    <3>3. ~dropped' => sendCh' = Append(sendCh, Head(events))
      BY <1>5, <3>2 DEF Context!SendContextUpdate, Context!Enqueue
    <3> QED BY <1>5, <2>1, <2>2, <3>3, Zenon DEF Context!SendContextUpdate, ReportsDisk
  <2> QED BY <2>4, <2>5, <2>6
<1>6. CASE Context!StreamWriter
  <2>1. /\ Tail(sendCh) \in Seq(Reported) /\ Head(sendCh) \in Reported
        /\ Tail(sendCh) # <<>> => Newest(Tail(sendCh)) = Newest(sendCh)
        /\ Tail(sendCh) = <<>> => Newest(sendCh) = Head(sendCh)
        /\ Len(Tail(sendCh)) = Len(sendCh) - 1
    BY <1>6, ReceivesOldest, Zenon DEF Context!StreamWriter, ContextTypes
  <2>2. /\ Append(up, Head(sendCh)) \in Seq(Reported) /\ Append(up, Head(sendCh)) # <<>>
        /\ Newest(Append(up, Head(sendCh))) = Head(sendCh)
    <3>1. up \in Seq(Reported)
      BY DEF ContextTypes
    <3> QED BY <2>1, <3>1, SendsNewest
  <2>3. Len(sendCh) \in Nat
    BY DEF ContextTypes
  <2>4. ContextTypes'
    BY <1>6, <2>1, <2>2, <2>3 DEF Context!StreamWriter, ContextTypes
  <2>5. WatcherKnows' /\ ReportsDisk'
    BY <1>6, <2>1, <2>2 DEF Context!StreamWriter, WatcherKnows, ReportsDisk
  <2> QED BY <2>4, <2>5
<1>7. CASE Context!ContextFilePush
  <2>1. Tail(down) \in Seq(Contents) /\ Head(down) \in Contents
    BY <1>7, ReceivesOldest DEF Context!ContextFilePush, ContextTypes
  <2>2. /\ Append(fs, "write") \in Seq({"write", "delete"}) /\ Append(fs, "write") # <<>>
        /\ Newest(Append(fs, "write")) = "write"
    BY SendsNewest DEF ContextTypes
  <2>3. Head(down) # Absent
    BY <2>1 DEF DiskContent
  <2>4. ContextTypes'
    BY <1>7, <2>1, <2>2 DEF Context!ContextFilePush, Context!WriteDisk, ContextTypes, DiskContent
  <2>5. WatcherKnows' /\ ReportsDisk'
    BY <1>7, <2>2, <2>3 DEF Context!ContextFilePush, Context!WriteDisk, WatcherKnows, ReportsDisk
  <2> QED BY <2>4, <2>5
<1>8. CASE Context!ContextFileUpdate
  <2>1. /\ Tail(up) \in Seq(Reported) /\ Head(up) \in Reported
        /\ Tail(up) # <<>> => Newest(Tail(up)) = Newest(up)
        /\ Tail(up) = <<>> => Newest(up) = Head(up)
    BY <1>8, ReceivesOldest, Zenon DEF Context!ContextFileUpdate, ContextTypes
  <2>2. row' \in FileRow /\ row'.content = Head(up)
    BY <1>8, <2>1 DEF Context!ContextFileUpdate, Context!SetRow, ContextTypes, FileRow
  <2>3. ContextTypes'
    BY <1>8, <2>1, <2>2 DEF Context!ContextFileUpdate, ContextTypes
  <2>4. WatcherKnows' /\ ReportsDisk'
    BY <1>8, <2>1, <2>2 DEF Context!ContextFileUpdate, WatcherKnows, ReportsDisk
  <2> QED BY <2>3, <2>4
<1>9. ASSUME NEW c \in Clients, Context!UpdateVersion(c)
      PROVE  ContextInv'
  <2>1. ContextTypes' /\ \A d \in Clients : req'[d].pc = "push" <=> req[d].pc = "push"
    <3>1. CASE row = Absent
      BY <1>9, <3>1, RequestEnds, Zenon DEF Context!UpdateVersion, ContextTypes
    <3>2. CASE row # Absent
      BY <1>9, <3>2, RequestMoves, Zenon DEF Context!UpdateVersion, ContextTypes
    <3> QED BY <3>1, <3>2
  <2>2. WatcherKnows' /\ ReportsDisk'
    BY <1>9, <2>1, Zenon DEF Context!UpdateVersion, WatcherKnows, ReportsDisk
  <2> QED BY <2>1, <2>2
<1>10. ASSUME NEW c \in Clients, Context!UpdateHistory(c)
       PROVE  ContextInv'
  <2>1. ContextTypes' /\ \A d \in Clients : req'[d].pc = "push" <=> req[d].pc = "push"
    BY <1>10, RequestMoves, Zenon DEF Context!UpdateHistory, ContextTypes
  <2>2. WatcherKnows' /\ ReportsDisk'
    BY <1>10, <2>1 DEF Context!UpdateHistory, WatcherKnows, ReportsDisk
  <2> QED BY <2>1, <2>2
<1>11. ASSUME NEW c \in Clients, Context!UpdateRow(c)
       PROVE  ContextInv'
  <2>1. CASE row = Absent
    <3>1. ContextTypes' /\ \A d \in Clients : req[d].pc = "push" => req'[d].pc = "push"
      BY <1>11, <2>1, RequestEnds, Zenon DEF Context!UpdateRow, ContextTypes
    <3>2. WatcherKnows' /\ ReportsDisk'
      BY <1>11, <2>1, <3>1 DEF Context!UpdateRow, WatcherKnows, ReportsDisk
    <3> QED BY <3>1, <3>2
  <2>2. CASE row # Absent
    <3>1. row' \in FileRow
      <4>1. row \in FileRow /\ req[c].content \in Contents
        BY <1>11, <2>2 DEF Context!UpdateRow, ContextTypes
      <4>2. row' = [content |-> req[c].content, version |-> row.version + 1]
        BY <1>11, <2>2 DEF Context!UpdateRow, Context!SetRow
      <4>3. req[c].content \in Reported /\ row.version + 1 \in Nat
        BY <4>1 DEF Reported, DiskContent, FileRow
      <4> QED BY <4>2, <4>3 DEF FileRow
    <3>2. ContextTypes' /\ req'[c].pc = "push"
      BY <1>11, <2>2, <3>1, RequestMoves, Zenon DEF Context!UpdateRow, ContextTypes
    <3>3. WatcherKnows' /\ ReportsDisk'
      BY <1>11, <2>2, <3>1, <3>2 DEF Context!UpdateRow, WatcherKnows, ReportsDisk
    <3> QED BY <3>2, <3>3
  <2> QED BY <2>1, <2>2
<1>12. ASSUME NEW c \in Clients, Context!UpdatePush(c)
       PROVE  ContextInv'
  <2>1. /\ req' \in [Clients -> Asked]
        /\ \A d \in Clients : req'[d].pc # "idle" => req'[d] = req[d]
    BY <1>12, RequestEnds, Zenon DEF Context!UpdatePush
  <2>2. Append(down, req[c].content) \in Seq(Contents) /\ Append(down, req[c].content) # <<>>
    <3>1. down \in Seq(Contents) /\ req[c].content \in Contents
      BY <1>12 DEF Context!UpdatePush, ContextTypes
    <3> QED BY <3>1, SendsNewest
  <2>3. ContextTypes'
    BY <1>12, <2>1, <2>2 DEF Context!UpdatePush, ContextTypes
  <2>4. WatcherKnows' /\ ReportsDisk'
    BY <1>12, <2>2, Zenon DEF Context!UpdatePush, WatcherKnows, ReportsDisk
  <2> QED BY <2>3, <2>4
<1>13. CASE Context!Connect
  BY <1>13, Zenon DEF Context!Connect, ContextTypes, WatcherKnows, ReportsDisk
<1>14. CASE Context!Break
  <2>1. <<>> \in Seq(Reported) /\ <<>> \in Seq(Contents)
    OBVIOUS
  <2>2. ContextTypes'
    BY <1>14, <2>1 DEF Context!Break, ContextTypes
  <2>3. WatcherKnows' /\ ReportsDisk'
    BY <1>14, Zenon DEF Context!Break, WatcherKnows, ReportsDisk
  <2> QED BY <2>2, <2>3
<1>15. CASE Context!Restart
  <2>1. disk' \in DiskContent
    BY <1>15 DEF Context!Restart, ContextTypes, DiskContent
  <2>2. sendCh' \in Seq(Reported) /\ sendCh' # <<>> /\ Newest(sendCh') = disk' /\ Len(sendCh') = 1
    BY <1>15, <2>1 DEF Context!Restart, Reported, Newest
  <2>3. /\ <<>> \in Seq(Reported) /\ <<>> \in Seq(Contents) /\ <<>> \in Seq({"write", "delete"})
        /\ Len(<<>>) = 0
    OBVIOUS
  <2>4. ContextTypes'
    BY <1>15, <2>1, <2>2, <2>3 DEF Context!Restart, ContextTypes
  <2>5. WatcherKnows' /\ ReportsDisk'
    BY <1>15, <2>2 DEF Context!Restart, WatcherKnows, ReportsDisk
  <2> QED BY <2>4, <2>5
<1>16. CASE Context!LocalDelete
  <2>1. /\ Append(fs, "delete") \in Seq({"write", "delete"}) /\ Append(fs, "delete") # <<>>
        /\ Newest(Append(fs, "delete")) = "delete"
    BY SendsNewest DEF ContextTypes
  <2>2. ContextTypes'
    BY <1>16, <2>1 DEF Context!LocalDelete, ContextTypes
  <2>3. WatcherKnows' /\ ReportsDisk'
    BY <1>16, <2>1 DEF Context!LocalDelete, WatcherKnows, ReportsDisk
  <2> QED BY <2>2, <2>3
<1>17. CASE Context!DeleteContextFile
  <2>1. /\ UNCHANGED <<disk, fs, pending, flush, events, sendCh, up, down, req>> /\ row' = Absent /\ dropped' = TRUE
        /\ edits' = edits + 1 /\ breaks' = breaks
    BY <1>17 DEF Context!DeleteContextFile, Context!dvars
  <2>2. ContextTypes'
    BY <2>1 DEF ContextTypes
  <2>3. WatcherKnows'
    BY <2>1, Zenon DEF WatcherKnows
  <2>4. ReportsDisk'
    BY <2>1, Zenon DEF ReportsDisk
  <2> QED BY <2>2, <2>3, <2>4
<1>18. ASSUME NEW x \in Contents, Context!LocalWrite(x)
       PROVE  ContextInv'
  <2>1. /\ Append(fs, "write") \in Seq({"write", "delete"}) /\ Append(fs, "write") # <<>>
        /\ Newest(Append(fs, "write")) = "write"
    BY SendsNewest DEF ContextTypes
  <2>2. x \in DiskContent /\ x # Absent
    BY DEF DiskContent
  <2>3. ContextTypes'
    BY <1>18, <2>1, <2>2 DEF Context!LocalWrite, Context!WriteDisk, ContextTypes
  <2>4. WatcherKnows' /\ ReportsDisk'
    BY <1>18, <2>1, <2>2 DEF Context!LocalWrite, Context!WriteDisk, WatcherKnows, ReportsDisk
  <2> QED BY <2>3, <2>4
<1>19. ASSUME NEW x \in Contents, Context!CreateContextFile(x)
       PROVE  ContextInv'
  <2>1. row' \in FileRow
    BY <1>19 DEF Context!CreateContextFile, Context!SetRow, FileRow, Reported, DiskContent
  <2>2. ContextTypes'
    BY <1>19, <2>1 DEF Context!CreateContextFile, ContextTypes
  <2>3. WatcherKnows' /\ ReportsDisk'
    BY <1>19 DEF Context!CreateContextFile, WatcherKnows, ReportsDisk
  <2> QED BY <2>2, <2>3
<1>20. ASSUME NEW x \in Contents, NEW c \in Clients, Context!UpdateGet(c, x)
       PROVE  ContextInv'
  <2> DEFINE new == [pc |-> "version", content |-> x]
  <2>1. new \in Asked /\ new.pc = "version" /\ new.content \in Contents
    BY DEF Asked
  <2>2. req' = [req EXCEPT ![c] = new]
    BY <1>20 DEF Context!UpdateGet
  <2> HIDE DEF new
  <2>3. ContextTypes' /\ \A d \in Clients : req'[d].pc = "push" <=> req[d].pc = "push"
    BY <1>20, <2>1, <2>2 DEF Context!UpdateGet, ContextTypes
  <2>4. WatcherKnows' /\ ReportsDisk'
    BY <1>20, <2>3 DEF Context!UpdateGet, WatcherKnows, ReportsDisk
  <2> QED BY <2>3, <2>4
<1>21. CASE UNCHANGED Context!vars
  BY <1>21, Zenon DEF Context!vars, ContextTypes, WatcherKnows, ReportsDisk
<1> QED
  BY <1>1, <1>2, <1>3, <1>4, <1>5, <1>6, <1>7, <1>8, <1>9, <1>10, <1>11, <1>12, <1>13, <1>14,
     <1>15, <1>16, <1>17, <1>18, <1>19, <1>20, <1>21
  DEF Context!Next, Context!Carry

(* Whatever edits of the two sides cross, in however many requests, and     *)
(* wherever the stream breaks or the daemon restarts: once nothing is under *)
(* way, and unless a full channel, a break or a push to a satellite that    *)
(* was away dropped a change, a context file that both sides have has one   *)
(* content (context_watcher.go:246-273, gateway.go:690-712).                *)
THEOREM FilesAgree == PartSpec => []QuietAgrees
<1>1. PartInit => ContextInv
  <2>1. /\ <<>> \in Seq(Reported) /\ <<>> \in Seq(Contents) /\ <<>> \in Seq({"write", "delete"})
        /\ Len(<<>>) = 0
    OBVIOUS
  <2>2. Starter \in DiskContent /\ Starter \in Reported
    BY DEF DiskContent, Reported
  <2>3. <<Starter>> \in Seq(Reported) /\ Len(<<Starter>>) = 1 /\ Newest(<<Starter>>) = Starter /\ <<Starter>> # <<>>
    BY <2>2 DEF Newest
  <2>4. Context!Idle \in Asked /\ Context!Idle.pc = "idle"
    BY DEF Context!Idle, Asked
  <2> SUFFICES ASSUME Context!Init PROVE ContextInv
    BY DEF PartInit
  <2>5. ContextTypes
    <3>1. /\ disk = Starter /\ fs = <<>> /\ pending = Absent /\ flush = Absent /\ events = <<>>
          /\ sendCh = <<Starter>> /\ up = <<>> /\ down = <<>> /\ row = Absent
          /\ req = [c \in Clients |-> Context!Idle] /\ edits = 0 /\ breaks = 0
      BY DEF Context!Init
    <3>2. req \in [Clients -> Asked] /\ \A c \in Clients : req[c].pc = "idle"
      BY <2>4, <3>1
    <3>3. Len(events) <= EventCap /\ Len(sendCh) <= SendCap
      BY <2>1, <2>3, <3>1, CapacityAssumption
    <3>4. events \in Seq(Reported) /\ sendCh \in Seq(Reported) /\ up \in Seq(Reported) /\ down \in Seq(Contents)
      BY <2>1, <2>3, <3>1, Zenon
    <3>5. fs \in Seq({"write", "delete"})
      BY <2>1, <3>1, Zenon
    <3> QED BY <2>2, <3>1, <3>2, <3>3, <3>4, <3>5 DEF ContextTypes
  <2>6. WatcherKnows /\ ReportsDisk
    BY <2>3 DEF Context!Init, WatcherKnows, ReportsDisk
  <2> QED BY <2>5, <2>6 DEF ContextInv
<1>2. ContextInv /\ [PartNext]_allVars => ContextInv'
  BY PartSteps, ContextStep
<1>3. ContextInv => QuietAgrees
  BY DEF ContextInv, ReportsDisk, PushUnderWay, QuietAgrees, Context!QuietAgrees, Context!Quiet
<1> QED BY <1>1, <1>2, <1>3, PTL DEF PartSpec
=============================================================================
