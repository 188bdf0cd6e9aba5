----------------------------- MODULE ContextFiles -----------------------------
(***************************************************************************)
(* One context file of a satellite: the copy on the satellite's disk, the  *)
(* row of satellite_context_files in Nexus, and everything that carries a  *)
(* change from one to the other.  A change of the disk, whoever made it,   *)
(* goes through fsnotify, the watcher's debounce map, the watcher's event  *)
(* channel, the daemon's send channel and the stream, and becomes an upsert*)
(* of the row.  A PUT of the API updates the row, in several statements,   *)
(* and pushes the content to the disk, which reports it back.  POST and    *)
(* DELETE of the API change the row only.                                  *)
(***************************************************************************)
EXTENDS Naturals, Sequences, FiniteSets

CONSTANTS Contents,     \* contents a user may write, locally or by the API
          Starter,      \* what SeedStandardFiles writes
          Clients,      \* requests the API serves at the same time
          None,
          EventCap,     \* capacity of ContextWatcher.events (32)
          SendCap,      \* capacity of Daemon.sendCh
          MaxEdits,     \* bound on the edits of users
          MaxVersion,   \* bound on the version of a row
          MaxBreaks     \* bound on breaks of the stream and restarts

VARIABLES disk,       \* the file's content, or None
          fs,         \* fsnotify events not yet seen by the watcher
          pending,    \* the watcher's map: "write", "delete" or None (timer armed)
          flush,      \* the flush under way: [deleted, content] or None
          events,     \* ContextWatcher.events
          sendCh,     \* Daemon.sendCh, the context updates in it
          up, down,   \* the stream: updates to Nexus, pushes to the satellite
          connected,
          row,        \* [content, version], or None
          history,    \* rows of context_file_history, as a set
          req,        \* req[c]: the PUT client c waits for
          lost,       \* a change was dropped or not sent since the last full report
          had,        \* every [version, content] the present row has had
          edits, breaks

dvars == <<disk, fs, pending, flush, events, sendCh>>
nvars == <<row, history, req, had>>
vars == <<disk, fs, pending, flush, events, sendCh, up, down, connected,
          row, history, req, lost, had, edits, breaks>>

\* The content sent for a file that was deleted.
Deleted == "deleted"

Sendable == Contents \cup {Starter, Deleted}

Idle == [pc |-> "idle", content |-> None]

TypeOK ==
    /\ disk \in Contents \cup {Starter, None}
    /\ pending \in {"write", "delete", None}
    /\ events \in Seq(Sendable) /\ Len(events) <= EventCap
    /\ sendCh \in Seq(Sendable) /\ Len(sendCh) <= SendCap
    /\ row = None \/ (row.content \in Sendable /\ row.version \in 1..MaxVersion)

Init ==
    /\ disk = Starter          \* Start seeds the standard files
    /\ fs = <<>> /\ pending = None /\ flush = None
    /\ events = <<>> /\ sendCh = <<Starter>> /\ up = <<>> /\ down = <<>>
    /\ connected = FALSE
    /\ row = None /\ history = {} /\ had = {}
    /\ req = [c \in Clients |-> Idle]
    /\ lost = FALSE /\ edits = 0 /\ breaks = 0

-----------------------------------------------------------------------------
(* The satellite.                                                          *)

Enqueue(q, cap, m) == IF Len(q) < cap THEN Append(q, m) ELSE q

\* os.WriteFile, by an editor or by handleContextFilePush: fsnotify reports it.
WriteDisk(x) == disk' = x /\ fs' = Append(fs, "write")

LocalWrite(x) ==
    /\ edits < MaxEdits /\ edits' = edits + 1
    /\ WriteDisk(x)
    /\ UNCHANGED <<pending, flush, events, sendCh, up, down, connected, nvars, lost, breaks>>

LocalDelete ==
    /\ edits < MaxEdits /\ edits' = edits + 1
    /\ disk # None
    /\ disk' = None /\ fs' = Append(fs, "delete")
    /\ UNCHANGED <<pending, flush, events, sendCh, up, down, connected, nvars, lost, breaks>>

\* Faulty: an event that comes while the timer runs is taken for the same change.
WatcherEventFirst ==
    /\ fs # <<>>
    /\ pending' = (IF pending = None THEN Head(fs) ELSE pending) /\ fs' = Tail(fs)
    /\ UNCHANGED <<disk, flush, events, sendCh, up, down, connected, nvars, lost, edits, breaks>>

\* loop: the latest event of the file replaces the earlier one, and the timer
\* is started again.
WatcherEvent ==
    /\ fs # <<>>
    /\ pending' = Head(fs) /\ fs' = Tail(fs)
    /\ UNCHANGED <<disk, flush, events, sendCh, up, down, connected, nvars, lost, edits, breaks>>

\* The debounce timer fires: flush takes the map.  A flush is assumed to end
\* before the timer fires again, 300 ms later.
FlushTake ==
    /\ pending # None /\ flush = None
    /\ flush' = [deleted |-> pending = "delete", content |-> None]
    /\ pending' = None
    /\ UNCHANGED <<disk, fs, events, sendCh, up, down, connected, nvars, lost, edits, breaks>>

\* Faulty: a file that is gone is tried again.
FlushReadAgain ==
    /\ flush # None /\ ~flush.deleted /\ flush.content = None
    /\ flush' = IF disk = None THEN None ELSE [flush EXCEPT !.content = disk]
    /\ pending' = IF disk = None THEN "write" ELSE pending
    /\ UNCHANGED <<disk, fs, events, sendCh, up, down, connected, nvars, lost, edits, breaks>>

\* flush reads the file; one that is gone is skipped.
FlushRead ==
    /\ flush # None /\ ~flush.deleted /\ flush.content = None
    /\ flush' = IF disk = None THEN None ELSE [flush EXCEPT !.content = disk]
    /\ UNCHANGED <<disk, fs, pending, events, sendCh, up, down, connected, nvars, lost, edits, breaks>>

\* flush offers the event, and drops it when the channel is full.
FlushSend ==
    /\ flush # None /\ (flush.deleted \/ flush.content # None)
    /\ events' = Enqueue(events, EventCap, IF flush.deleted THEN Deleted ELSE flush.content)
    /\ lost' = (lost \/ Len(events) = EventCap)
    /\ flush' = None
    /\ UNCHANGED <<disk, fs, pending, sendCh, up, down, connected, nvars, edits, breaks>>

\* runContextWatcher: sendContextUpdate offers the update to the send channel.
SendContextUpdate ==
    /\ events # <<>>
    /\ events' = Tail(events)
    /\ sendCh' = Enqueue(sendCh, SendCap, Head(events))
    /\ lost' = (lost \/ Len(sendCh) = SendCap)
    /\ UNCHANGED <<disk, fs, pending, flush, up, down, connected, nvars, edits, breaks>>

\* handleContextFilePush.
ContextFilePush ==
    /\ down # <<>>
    /\ WriteDisk(Head(down))
    /\ down' = Tail(down)
    /\ UNCHANGED <<pending, flush, events, sendCh, up, connected, nvars, lost, edits, breaks>>

\* The daemon restarts: what it had queued is gone, the standard file is there
\* again, and the files on disk are reported as they are.
Restart ==
    /\ breaks < MaxBreaks /\ breaks' = breaks + 1
    /\ disk' = IF disk = None THEN Starter ELSE disk
    /\ fs' = <<>> /\ pending' = None /\ flush' = None /\ events' = <<>>
    /\ sendCh' = <<disk'>>
    /\ up' = <<>> /\ down' = <<>> /\ connected' = FALSE
    /\ lost' = FALSE
    /\ UNCHANGED <<nvars, edits>>

-----------------------------------------------------------------------------
(* The stream.                                                             *)

Connect ==
    /\ ~connected /\ connected' = TRUE
    /\ UNCHANGED <<dvars, up, down, nvars, lost, edits, breaks>>

\* The stream breaks and loses what is on it; the send channel stays.
Break ==
    /\ connected /\ breaks < MaxBreaks
    /\ breaks' = breaks + 1 /\ connected' = FALSE
    /\ up' = <<>> /\ down' = <<>>
    /\ lost' = (lost \/ up # <<>> \/ down # <<>>)
    /\ UNCHANGED <<dvars, nvars, edits>>

StreamWriter ==
    /\ connected /\ sendCh # <<>>
    /\ up' = Append(up, Head(sendCh)) /\ sendCh' = Tail(sendCh)
    /\ UNCHANGED <<disk, fs, pending, flush, events, down, connected, nvars, lost, edits, breaks>>

-----------------------------------------------------------------------------
(* Nexus.                                                                  *)

SetRow(x, v) ==
    /\ row' = [content |-> x, version |-> v]
    /\ had' = had \cup {[content |-> x, version |-> v]}

\* The gateway upserts the row: a new version, and no history row.
ContextFileUpdate ==
    /\ up # <<>>
    /\ row # None => row.version < MaxVersion
    /\ SetRow(Head(up), IF row = None THEN 1 ELSE row.version + 1)
    /\ up' = Tail(up)
    /\ UNCHANGED <<dvars, down, connected, history, req, lost, edits, breaks>>

\* handleCreateContextFile: UNIQUE (satellite_id, file_path).
CreateContextFile(x) ==
    /\ edits < MaxEdits /\ edits' = edits + 1
    /\ row = None
    /\ SetRow(x, 1)
    /\ UNCHANGED <<dvars, up, down, connected, history, req, lost, breaks>>

\* handleDeleteContextFile: the history goes along (ON DELETE CASCADE); the
\* satellite is not told.
DeleteContextFile ==
    /\ edits < MaxEdits /\ edits' = edits + 1
    /\ row # None
    /\ row' = None /\ history' = {} /\ had' = {}
    /\ lost' = TRUE
    /\ UNCHANGED <<dvars, up, down, connected, req, breaks>>

Goto(c, pc) == req' = [req EXCEPT ![c].pc = pc]

Answer(c) == req' = [req EXCEPT ![c] = Idle]

\* handleUpdateContextFile finds the row ...
UpdateGet(c, x) ==
    /\ edits < MaxEdits /\ edits' = edits + 1
    /\ req[c].pc = "idle" /\ row # None
    /\ req' = [req EXCEPT ![c] = [pc |-> "version", content |-> x]]
    /\ UNCHANGED <<dvars, up, down, connected, row, history, lost, had, breaks>>

\* ... UpdateContextFile looks for its version: a row that is gone is no error
\* there, and the handler then dereferences nil ...
UpdateVersion(c) ==
    /\ req[c].pc = "version"
    /\ IF row = None THEN Answer(c) ELSE Goto(c, "history")
    /\ UNCHANGED <<dvars, up, down, connected, row, history, lost, had, edits, breaks>>

\* ... copies the row, as it is now, to the history ...
UpdateHistory(c) ==
    /\ req[c].pc = "history"
    /\ history' = history \cup ({row} \ {None})
    /\ Goto(c, "update")
    /\ UNCHANGED <<dvars, up, down, connected, row, lost, had, edits, breaks>>

\* ... and updates it.
UpdateRow(c) ==
    /\ req[c].pc = "update"
    /\ IF row = None
       THEN Answer(c) /\ UNCHANGED <<row, had>>
       ELSE row.version < MaxVersion /\ SetRow(req[c].content, row.version + 1) /\ Goto(c, "push")
    /\ UNCHANGED <<dvars, up, down, connected, history, lost, edits, breaks>>

\* The content the request wrote is pushed to the satellite, or dropped when
\* it is not connected.
UpdatePush(c) ==
    /\ req[c].pc = "push"
    /\ down' = IF connected THEN Append(down, req[c].content) ELSE down
    /\ lost' = (lost \/ ~connected)
    /\ Answer(c)
    /\ UNCHANGED <<dvars, up, connected, row, history, had, edits, breaks>>

-----------------------------------------------------------------------------
Carry ==
    \/ WatcherEvent \/ FlushTake \/ FlushRead \/ FlushSend \/ SendContextUpdate
    \/ StreamWriter \/ ContextFilePush \/ ContextFileUpdate
    \/ \E c \in Clients : UpdateVersion(c) \/ UpdateHistory(c) \/ UpdateRow(c) \/ UpdatePush(c)

Next ==
    \/ Carry \/ Connect \/ Break \/ Restart
    \/ LocalDelete \/ DeleteContextFile
    \/ \E x \in Contents : LocalWrite(x) \/ CreateContextFile(x) \/ \E c \in Clients : UpdateGet(c, x)

Spec == Init /\ [][Next]_vars

\* The goroutines of the daemon, the stream handler and the API keep running,
\* and runGrpcLoop keeps trying to connect.
Fairness == WF_vars(Carry) /\ WF_vars(Connect)

FairSpec == Spec /\ Fairness

-----------------------------------------------------------------------------
Quiet ==
    /\ fs = <<>> /\ pending = None /\ flush = None /\ events = <<>> /\ sendCh = <<>>
    /\ up = <<>> /\ down = <<>> /\ connected
    /\ \A c \in Clients : req[c].pc = "idle"

\* When nothing is under way and every change since the satellite's last full
\* report was sent and carried, a file that is on both sides has one content, whatever edits
\* of both sides crossed on the way.
QuietAgrees ==
    (Quiet /\ ~lost /\ disk # None /\ row # None) => row.content = disk

\* A history row is a content the file had in that version, although the
\* version was looked up before and other writers come in between.
HistoryIsTrue == history \subseteq had

\* Reporting a pushed file back does not go round for ever: edits settle.
EditsSettle == []<>Quiet

\* An edit made while the satellite is away reaches its disk after the
\* reconnection.
\* The code does not keep this (README, Departures).
SyncsOnReconnect == (Quiet /\ disk # None /\ row # None) => row.content = disk

\* Every version the row had before the present one is in the history.
\* The code does not keep this (README, Departures).
FullHistory == \A h \in had : h = row \/ h \in history
=============================================================================
