---------------------------- MODULE BinaryUpdate ----------------------------
(***************************************************************************)
(* `daao update` and `daao rollback` (cmd/daao/update.go): the program     *)
(* replaces its own file by renames.  Every rename may fail, and the       *)
(* command may be killed between any two steps.                            *)
(***************************************************************************)
EXTENDS Naturals

CONSTANTS Commands,   \* update or rollback commands that may run at the same time
          MaxVersion, \* bound on the versions the hub offers
          None

VARIABLES file,   \* file[n]: the binary at path n, [version, exec], or None
          tmp,    \* tmp[c]: the file command c downloaded
          cmd,    \* cmd[c]: where command c is
          latest  \* what /releases/version.txt says

vars == <<file, tmp, cmd, latest>>

Paths == {"current", "bak", "new"}

TypeOK ==
    \A f \in {file[n] : n \in Paths} \cup {tmp[c] : c \in Commands} :
        f = None \/ f \in [version : 1..MaxVersion, exec : BOOLEAN]

Init ==
    /\ file = [n \in Paths |-> IF n = "current" THEN [version |-> 1, exec |-> TRUE] ELSE None]
    /\ tmp = [c \in Commands |-> None]
    /\ cmd = [c \in Commands |-> "idle"]
    /\ latest = 1

At(c, pc) == cmd[c] = pc
Goto(c, pc) == cmd' = [cmd EXCEPT ![c] = pc]

\* The deferred os.Remove of the download.
Return(c) == Goto(c, "idle") /\ tmp' = [tmp EXCEPT ![c] = None]

Runnable(n) == file[n] # None /\ file[n].exec

Renamed(from, to) == [file EXCEPT ![to] = file[from], ![from] = None]

\* A new version is released.
Release ==
    /\ latest < MaxVersion
    /\ latest' = latest + 1
    /\ UNCHANGED <<file, tmp, cmd>>

-----------------------------------------------------------------------------
(* updateCommand.                                                          *)

\* Up to date, or no answer, ends it; else the download, with CreateTemp's mode.
Update(c, force) ==
    /\ At(c, "idle") /\ Runnable("current")
    /\ force \/ file["current"].version # latest
    /\ tmp' = [tmp EXCEPT ![c] = [version |-> latest, exec |-> FALSE]]
    /\ Goto(c, "unlink")
    /\ UNCHANGED <<file, latest>>

\* The old backup is removed.
RemoveBackup(c) ==
    /\ At(c, "unlink")
    /\ file' = [file EXCEPT !["bak"] = None]
    /\ Goto(c, "backup")
    /\ UNCHANGED <<tmp, latest>>

\* Faulty: the old binary makes room for the new one, and no backup is kept.
BackupRemoves(c) ==
    /\ At(c, "backup")
    /\ file' = [file EXCEPT !["current"] = None]
    /\ Goto(c, "install")
    /\ UNCHANGED <<tmp, latest>>

Backup(c) ==
    /\ At(c, "backup")
    /\ \/ file["current"] # None /\ file' = Renamed("current", "bak") /\ Goto(c, "install") /\ UNCHANGED tmp
       \/ Return(c) /\ UNCHANGED file
    /\ UNCHANGED latest

Install(c) ==
    /\ At(c, "install")
    /\ \/ /\ file' = [file EXCEPT !["current"] = tmp[c]]
          /\ tmp' = [tmp EXCEPT ![c] = None] /\ Goto(c, "chmod")
       \/ Goto(c, "restore") /\ UNCHANGED <<file, tmp>>
    /\ UNCHANGED latest

\* After a failed Install; whether it works is not looked at.
Restore(c) ==
    /\ At(c, "restore")
    /\ (file["bak"] # None /\ file' = Renamed("bak", "current")) \/ UNCHANGED file
    /\ Return(c)
    /\ UNCHANGED latest

Chmod(c) ==
    /\ At(c, "chmod")
    /\ file' = IF file["current"] = None THEN file ELSE [file EXCEPT !["current"].exec = TRUE]
    /\ Return(c)
    /\ UNCHANGED latest

-----------------------------------------------------------------------------
(* rollbackCommand.                                                        *)

\* With a backup; a stale ".new" is removed.
Rollback(c) ==
    /\ At(c, "idle") /\ Runnable("current") /\ file["bak"] # None
    /\ file' = [file EXCEPT !["new"] = None]
    /\ Goto(c, "aside")
    /\ UNCHANGED <<tmp, latest>>

MoveAside(c) ==
    /\ At(c, "aside")
    /\ \/ file["current"] # None /\ file' = Renamed("current", "new") /\ Goto(c, "back")
       \/ Goto(c, "idle") /\ UNCHANGED file
    /\ UNCHANGED <<tmp, latest>>

MoveBack(c) ==
    /\ At(c, "back")
    /\ \/ file["bak"] # None /\ file' = Renamed("bak", "current") /\ Goto(c, "keep")
       \/ Goto(c, "undo") /\ UNCHANGED file
    /\ UNCHANGED <<tmp, latest>>

\* The last rename of either way, its result ignored.
KeepNew(c, pc, to) ==
    /\ At(c, pc)
    /\ (file["new"] # None /\ file' = Renamed("new", to)) \/ UNCHANGED file
    /\ Goto(c, "idle")
    /\ UNCHANGED <<tmp, latest>>

\* The command is killed.
Kill(c) ==
    /\ ~At(c, "idle")
    /\ Return(c)
    /\ UNCHANGED <<file, latest>>

-----------------------------------------------------------------------------
Next ==
    \/ Release
    \/ \E c \in Commands :
          \/ \E force \in BOOLEAN : Update(c, force)
          \/ RemoveBackup(c) \/ Backup(c) \/ Install(c) \/ Restore(c) \/ Chmod(c)
          \/ Rollback(c) \/ MoveAside(c) \/ MoveBack(c)
          \/ KeepNew(c, "keep", "bak") \/ KeepNew(c, "undo", "current")
          \/ Kill(c)

Spec == Init /\ [][Next]_vars

-----------------------------------------------------------------------------
\* Wherever a command is killed and whichever renames fail, a binary that can
\* be run stays at the path, its backup or the place rollback puts it.  Two
\* commands at a time may remove the last one.
RunnableKept == \E n \in Paths : Runnable(n)
=============================================================================
