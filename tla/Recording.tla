------------------------------ MODULE Recording ------------------------------
(***************************************************************************)
(* Session recordings: the pool of writers (internal/recording/            *)
(* recorder.go), the requests that start and stop a recording              *)
(* (internal/api/recording_handlers.go), the rows that describe the files, *)
(* the gateway that feeds terminal output to the pool, and the             *)
(* reconciliation that Nexus starts, beside everything else, when it       *)
(* comes up.                                                               *)
(*                                                                         *)
(* A request is a sequence of steps; between two of them any other step    *)
(* may happen.  A chunk of output is its number; sizes count chunks, and   *)
(* the size of a file counts its header too.  Refused requests change      *)
(* nothing and are left out, except where a step before had an effect.     *)
(***************************************************************************)
EXTENDS Naturals, Sequences

CONSTANTS Sessions, Handlers,
          MaxRecordings, \* bound: recordings made
          MaxChunks,     \* bound: chunks of output
          MaxStarts      \* bound: starts of Nexus

CONSTANT None

Recordings == 1 .. MaxRecordings

VARIABLES nexus,    \* "up", "stopped" by a signal or "crashed"
          starts,   \* times Nexus started
          sessions, \* sessions that have a row
          pool,     \* pool[s]: the recording of session s in writers, or None
          writer,   \* writer[r]: "none", "open" or "closed"
          file,     \* file[r]: chunks in the .cast file
          rows,     \* rows[r]: the row of session_recordings, or None
          made,     \* recordings made so far
          request,  \* request[h]: the step handler h is at and its locals
          chunks,   \* chunks of output so far
          write,    \* the chunk being written and the writer looked up, or None
          listed,   \* files ReconcileRecordings found, None before it has
          todo      \* those it has not looked at

vars == <<nexus, starts, sessions, pool, writer, file, rows, made, request, chunks, write, listed, todo>>

Idle == [at |-> "idle"]
Steps == {"start", "insert", "close", "update"}

(* Type correctness; a writer in the pool is open. *)
TypeOK ==
  /\ nexus \in {"up", "stopped", "crashed"} /\ starts \in 1 .. MaxStarts
  /\ sessions \subseteq Sessions
  /\ writer \in [Recordings -> {"none", "open", "closed"}]
  /\ pool \in [Sessions -> {None} \cup {r \in Recordings : writer[r] = "open"}]
  /\ file \in [Recordings -> Seq(1 .. MaxChunks)]
  /\ \A r \in Recordings :
       rows[r] \in {None} \cup [session : Sessions \cup {None}, size : 0 .. MaxChunks + 1, stopped : BOOLEAN]
  /\ made \in 0 .. MaxRecordings /\ chunks \in 0 .. MaxChunks
  /\ \A h \in Handlers : request[h] # Idle => request[h].at \in Steps /\ request[h].session \in Sessions
  /\ write \in {None} \cup [rec : Recordings \cup {None}, chunk : 1 .. MaxChunks]
  /\ listed \in SUBSET Recordings \cup {None} /\ todo \subseteq Recordings

(* Nexus is up for the first time, on an empty directory. *)
Init ==
  /\ nexus = "up" /\ starts = 1 /\ sessions = Sessions
  /\ pool = [s \in Sessions |-> None]
  /\ writer = [r \in Recordings |-> "none"]
  /\ file = [r \in Recordings |-> <<>>]
  /\ rows = [r \in Recordings |-> None]
  /\ made = 0 /\ chunks = 0 /\ write = None
  /\ request = [h \in Handlers |-> Idle]
  /\ listed = None /\ todo = {}

Files == {r \in Recordings : writer[r] # "none"}

nexusVars == <<nexus, starts>>
reconcileVars == <<listed, todo>>
outputVars == <<chunks, write>>
-----------------------------------------------------------------------------
(* HandleStartRecording, the checks: the session exists and is not being   *)
(* recorded.                                                               *)
StartChecked(h, s) ==
  /\ nexus = "up" /\ request[h] = Idle
  /\ s \in sessions /\ pool[s] = None
  /\ request' = [request EXCEPT ![h] = [at |-> "start", session |-> s]]
  /\ UNCHANGED <<nexusVars, sessions, pool, writer, file, rows, made, outputVars, reconcileVars>>

(* RecordingPool.StartRecording: the file with its header, and the writer. *)
StartRecording(h) ==
  /\ request[h].at = "start"
  /\ LET s == request[h].session
         r == made + 1
     IN  IF pool[s] # None
         THEN /\ request' = [request EXCEPT ![h] = Idle]
              /\ UNCHANGED <<pool, writer, made>>
         ELSE /\ made < MaxRecordings
              /\ made' = r
              /\ writer' = [writer EXCEPT ![r] = "open"]
              /\ pool' = [pool EXCEPT ![s] = r]
              /\ request' = [request EXCEPT ![h] = [at |-> "insert", session |-> s, rec |-> r]]
  /\ UNCHANGED <<nexusVars, sessions, file, rows, outputVars, reconcileVars>>

(* The file cannot be created, or its header not written: it is removed. *)
StartFails(h) ==
  /\ request[h].at = "start"
  /\ request' = [request EXCEPT ![h] = Idle]
  /\ UNCHANGED <<nexusVars, sessions, pool, writer, file, rows, made, outputVars, reconcileVars>>

(* The row is inserted.  The insert fails when the row is there or the     *)
(* session is not; the recording goes on all the same.                     *)
InsertRow(h) ==
  /\ request[h].at = "insert"
  /\ LET s == request[h].session
         r == request[h].rec
     IN  rows' = IF rows[r] = None /\ s \in sessions
                 THEN [rows EXCEPT ![r] = [session |-> s, size |-> 0, stopped |-> FALSE]]
                 ELSE rows
  /\ request' = [request EXCEPT ![h] = Idle]
  /\ UNCHANGED <<nexusVars, sessions, pool, writer, file, made, outputVars, reconcileVars>>

(* HandleStopRecording, RecordingPool.StopRecording: the writer leaves the *)
(* pool under the lock ...                                                 *)
StopRecording(h, s) ==
  /\ nexus = "up" /\ request[h] = Idle
  /\ pool[s] # None
  /\ request' = [request EXCEPT ![h] = [at |-> "close", session |-> s, rec |-> pool[s]]]
  /\ pool' = [pool EXCEPT ![s] = None]
  /\ UNCHANGED <<nexusVars, sessions, writer, file, rows, made, outputVars, reconcileVars>>

(* Faulty: Close does not mark the writer. *)
StaysOpen(r) == writer

(* RecordingWriter.Close marks the writer. *)
Closed(r) == [writer EXCEPT ![r] = "closed"]

(* ... and is closed without it. *)
CloseWriter(h) ==
  /\ request[h].at = "close"
  /\ LET r == request[h].rec
     IN  /\ writer' = Closed(r)
         /\ request' = [request EXCEPT ![h] = [at |-> "update", session |-> @.session, size |-> Len(file[r])]]
  /\ UNCHANGED <<nexusVars, sessions, pool, file, rows, made, outputVars, reconcileVars>>

(* The UPDATE of every row of the session that is not stopped. *)
UpdateRows(h) ==
  /\ request[h].at = "update"
  /\ rows' = [r \in Recordings |->
                IF rows[r] # None /\ rows[r].session = request[h].session /\ ~rows[r].stopped
                THEN [rows[r] EXCEPT !.size = request[h].size, !.stopped = TRUE]
                ELSE rows[r]]
  /\ request' = [request EXCEPT ![h] = Idle]
  /\ UNCHANGED <<nexusVars, sessions, pool, writer, file, made, outputVars, reconcileVars>>
-----------------------------------------------------------------------------
(* The gateway, WriteIfRecording: the writer is looked up under the read   *)
(* lock ...                                                                *)
LookUpWriter(s) ==
  /\ nexus = "up" /\ write = None /\ chunks < MaxChunks
  /\ chunks' = chunks + 1
  /\ write' = [rec |-> pool[s], chunk |-> chunks + 1]
  /\ UNCHANGED <<nexusVars, sessions, pool, writer, file, rows, made, request, reconcileVars>>

(* ... and written to without it; a closed writer ignores the chunk. *)
WriteChunk ==
  /\ write # None
  /\ file' = IF write.rec # None /\ writer[write.rec] = "open"
             THEN [file EXCEPT ![write.rec] = Append(@, write.chunk)]
             ELSE file
  /\ write' = None
  /\ UNCHANGED <<nexusVars, sessions, pool, writer, rows, made, request, chunks, reconcileVars>>

(* DELETE FROM sessions: the rows keep the recording, without the session  *)
(* (ON DELETE SET NULL).                                                   *)
DeleteSession(s) ==
  /\ nexus = "up" /\ s \in sessions
  /\ sessions' = sessions \ {s}
  /\ rows' = [r \in Recordings |->
                IF rows[r] # None /\ rows[r].session = s THEN [rows[r] EXCEPT !.session = None] ELSE rows[r]]
  /\ UNCHANGED <<nexusVars, pool, writer, file, made, request, outputVars, reconcileVars>>
-----------------------------------------------------------------------------
(* ReconcileRecordings lists the files ... *)
ListFiles ==
  /\ nexus = "up" /\ listed = None
  /\ listed' = Files /\ todo' = Files
  /\ UNCHANGED <<nexusVars, sessions, pool, writer, file, rows, made, request, outputVars>>

(* INSERT ... ON CONFLICT (id) DO NOTHING inserts when there is no row. *)
Orphan(r) == rows[r] = None

(* ... and makes a row, of no session, for each that has none. *)
ReconcileFile(r) ==
  /\ nexus = "up" /\ r \in todo
  /\ rows' = IF Orphan(r)
             THEN [rows EXCEPT ![r] = [session |-> None, size |-> 1 + Len(file[r]), stopped |-> FALSE]]
             ELSE rows
  /\ todo' = todo \ {r}
  /\ UNCHANGED <<nexusVars, sessions, pool, writer, file, made, request, outputVars, listed>>

(* NexusServer.Stop: the requests and the gateway are drained.  Nothing    *)
(* stops the recordings.                                                   *)
Stop ==
  /\ nexus = "up" /\ write = None
  /\ \A h \in Handlers : request[h] = Idle
  /\ nexus' = "stopped" /\ listed' = None /\ todo' = {}
  /\ UNCHANGED <<starts, sessions, pool, writer, file, rows, made, request, outputVars>>

(* A crash ends every request where it is. *)
Crash ==
  /\ nexus = "up"
  /\ nexus' = "crashed" /\ listed' = None /\ todo' = {}
  /\ request' = [h \in Handlers |-> Idle] /\ write' = None
  /\ UNCHANGED <<starts, sessions, pool, writer, file, rows, made, chunks>>

(* A new process starts with an empty pool; the system closed the files of *)
(* the old one.                                                            *)
Restart ==
  /\ nexus # "up" /\ starts < MaxStarts
  /\ nexus' = "up" /\ starts' = starts + 1
  /\ pool' = [s \in Sessions |-> None]
  /\ writer' = [r \in Recordings |-> IF writer[r] = "none" THEN "none" ELSE "closed"]
  /\ UNCHANGED <<sessions, file, rows, made, request, outputVars, reconcileVars>>

Next ==
  \/ \E h \in Handlers : \/ StartRecording(h) \/ StartFails(h) \/ InsertRow(h)
                         \/ CloseWriter(h) \/ UpdateRows(h)
                         \/ \E s \in Sessions : StartChecked(h, s) \/ StopRecording(h, s)
  \/ \E s \in Sessions : LookUpWriter(s) \/ DeleteSession(s)
  \/ WriteChunk \/ ListFiles \/ (\E r \in Recordings : ReconcileFile(r))
  \/ Stop \/ Crash \/ Restart

Spec == Init /\ [][Next]_vars
-----------------------------------------------------------------------------
(* A row that says a recording is stopped has the recording's size: Close  *)
(* took the size of a file that no late chunk changes, and the UPDATE      *)
(* found the row of that recording.  The row is the metadata of its file   *)
(* (recorder.go:3).                                                        *)
RowDescribesFile ==
  \A r \in Recordings : rows[r] # None /\ rows[r].stopped => rows[r].size = Len(file[r])

(* When ReconcileRecordings is through, every file it found on the disk    *)
(* has a row, whatever happened to the request that made the file or to    *)
(* its session (recorder.go:253).                                          *)
FilesDiscoverable ==
  listed # None /\ todo = {} => \A r \in listed : rows[r] # None

(* The recordings are stopped when Nexus shuts down: StopAll is "called    *)
(* during shutdown" (recorder.go:232).                                     *)
(* The code does not keep this (README, Departures).                       *)
ShutdownStopsRecordings ==
  nexus = "stopped" => \A r \in Recordings : writer[r] # "open"
=============================================================================
