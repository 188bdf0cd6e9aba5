--------------------------- MODULE RuntimeBootstrap ---------------------------
(***************************************************************************)
(* How a satellite installs Node.js and the agent program Pi               *)
(* (internal/satellite/bootstrap.go), on a ProvisionRuntimeCommand or      *)
(* before the first agent: a directory is filled file by file, any step    *)
(* may fail, and the daemon may be killed anywhere.                        *)
(***************************************************************************)
EXTENDS FiniteSets

CONSTANT Provisioners   \* goroutines that may provision at the same time

VARIABLES system,    \* node and npm are in the system's PATH
          target,    \* what is in the directory "node"
          extracted, \* what is in the directory the archive is unpacked to
          archive,   \* the downloaded archive
          prov       \* prov[p]: where provisioner p is

vars == <<system, target, extracted, archive, prov>>

Dist == {"node", "lib"}               \* what Node.js consists of
Files == Dist \cup {"packages", "pi"} \* Pi's packages, and the link npm makes last

TypeOK ==
    /\ target \subseteq Files /\ extracted \subseteq Dist
    /\ archive \in {"none", "part", "whole"}

Init ==
    /\ system \in BOOLEAN
    /\ target = {} /\ extracted = {} /\ archive = "none"
    /\ prov = [p \in Provisioners |-> "idle"]

At(p, pc) == prov[p] = pc
Goto(p, pc) == prov' = [prov EXCEPT ![p] = pc]

\* In the runtime directory; Pi is never in the system's PATH here.
IsRuntimeInstalled == {"node", "pi"} \subseteq target

\* The provisioner returns; the archive is removed if it had been downloaded.
Return(p) == Goto(p, "idle") /\ archive' = IF system THEN archive ELSE "none"

-----------------------------------------------------------------------------
\* handleProvisionRuntimeCommand skips an installed runtime unless forced to;
\* handleDeployAgentCommand calls only when it is not installed.
Provision(p, force) ==
    /\ At(p, "idle") /\ (force \/ ~IsRuntimeInstalled)
    /\ Goto(p, "check")
    /\ UNCHANGED <<system, target, extracted, archive>>

\* Faulty: a runtime that is there is provisioned again.
CheckNever(p) ==
    /\ At(p, "check")
    /\ Goto(p, IF system THEN "install" ELSE "download")
    /\ UNCHANGED <<system, target, extracted, archive>>

\* BootstrapRuntime, step 1.
Check(p) ==
    /\ At(p, "check")
    /\ Goto(p, IF IsRuntimeInstalled THEN "idle" ELSE IF system THEN "install" ELSE "download")
    /\ UNCHANGED <<system, target, extracted, archive>>

\* downloadFile: the file is created, then filled; a failure leaves it.
DownloadStart(p) ==
    /\ At(p, "download")
    /\ archive' = "part" /\ Goto(p, "downloading")
    /\ UNCHANGED <<system, target, extracted>>

Download(p, ok) ==
    /\ At(p, "downloading")
    /\ archive' = (IF ok THEN "whole" ELSE archive)
    /\ Goto(p, IF ok THEN "extract" ELSE "idle")
    /\ UNCHANGED <<system, target, extracted>>

\* ExtractFunc: one more file, or all are there, or tar fails.
Extract(p) ==
    /\ At(p, "extract")
    /\ \/ /\ archive = "whole"
          /\ \E f \in Dist \ extracted : extracted' = extracted \cup {f}
          /\ UNCHANGED <<prov, archive>>
       \/ archive = "whole" /\ extracted = Dist /\ Goto(p, "remove") /\ UNCHANGED <<archive, extracted>>
       \/ Return(p) /\ UNCHANGED extracted
    /\ UNCHANGED <<system, target>>

\* os.RemoveAll of an old target, file by file in any order.
RemoveTarget(p) ==
    /\ At(p, "remove")
    /\ IF target = {} THEN Goto(p, "rename") /\ UNCHANGED target
       ELSE (\E f \in target : target' = target \ {f}) /\ UNCHANGED prov
    /\ UNCHANGED <<system, extracted, archive>>

\* os.Rename; over a directory with files, or across devices, it fails.
Rename(p) ==
    /\ At(p, "rename")
    /\ \/ /\ target = {} /\ extracted # {}
          /\ target' = extracted /\ extracted' = {} /\ Goto(p, "verify")
       \/ Goto(p, "copy") /\ UNCHANGED <<target, extracted>>
    /\ UNCHANGED <<system, archive>>

\* copyDir: one more file, or all are there, or an error.
copyDir(p) ==
    /\ At(p, "copy")
    /\ \/ /\ \E f \in extracted \ target : target' = target \cup {f}
          /\ UNCHANGED <<prov, archive, extracted>>
       \/ /\ extracted # {} /\ extracted \subseteq target
          /\ extracted' = {} /\ Goto(p, "verify") /\ UNCHANGED <<target, archive>>
       \/ Return(p) /\ UNCHANGED <<target, extracted>>
    /\ UNCHANGED system

VerifyNode(p) ==
    /\ At(p, "verify")
    /\ IF "node" \in target THEN Goto(p, "install") /\ UNCHANGED archive ELSE Return(p)
    /\ UNCHANGED <<system, target, extracted>>

\* installPiCLI, or the system's npm: the packages, then the link; npm may fail.
installPiCLI(p) ==
    /\ At(p, "install")
    /\ \/ /\ system \/ Dist \subseteq target
          /\ target' = target \cup {"packages"}
          /\ Goto(p, "link") /\ UNCHANGED archive
       \/ Return(p) /\ UNCHANGED target
    /\ UNCHANGED <<system, extracted>>

LinkPi(p) ==
    /\ At(p, "link")
    /\ \/ target' = target \cup {"pi"} /\ Goto(p, "done") /\ UNCHANGED archive
       \/ Return(p) /\ UNCHANGED target
    /\ UNCHANGED <<system, extracted>>

\* Whether Pi is found or not, the call is over.
VerifyPi(p) ==
    /\ At(p, "done") /\ Return(p)
    /\ UNCHANGED <<system, target, extracted>>

\* The daemon is killed; no deferred call runs.
Crash ==
    /\ prov' = [p \in Provisioners |-> "idle"]
    /\ UNCHANGED <<system, target, extracted, archive>>

-----------------------------------------------------------------------------
Next ==
    \/ \E p \in Provisioners :
          \/ \E force \in BOOLEAN : Provision(p, force)
          \/ \E ok \in BOOLEAN : Download(p, ok)
          \/ Check(p) \/ DownloadStart(p) \/ Extract(p) \/ RemoveTarget(p) \/ Rename(p) \/ copyDir(p)
          \/ VerifyNode(p) \/ installPiCLI(p) \/ LinkPi(p) \/ VerifyPi(p)
    \/ Crash

Spec == Init /\ [][Next]_vars

-----------------------------------------------------------------------------
\* A runtime that counts as installed, and so is never provisioned again, is
\* complete, wherever the daemon was killed and whatever failed.  With two
\* provisioners at a time it may not be.
InstalledIsComplete == IsRuntimeInstalled => Files \subseteq target
=============================================================================
