------------------------------- MODULE Listing -------------------------------
(***************************************************************************)
(* Reading a table page by page through the API while rows come and go:    *)
(* sessions and agents behind a cursor that is an id, notifications behind *)
(* one that is a time, the audit log, the runs of agents and of a pipeline *)
(* and the pipelines by offset, and the lists that are answered at once.   *)
(* One client walks over one list.                                         *)
(***************************************************************************)
EXTENDS Integers, FiniteSets, Sequences

CONSTANTS MaxRows,      \* bound on the rows ever inserted
          MaxTime,      \* bound on the clock
          Limits,       \* what clients ask for: a number, negative for nonsense, or None
          DefaultLimit, \* 50 (20 for pipelines)
          MaxLimit,     \* 200, 500 or 100
          ExportLimit,  \* 10000, what the export of the audit log asks for
          None

VARIABLES kind,  \* the list
          rows,  \* the rows: [id, at], at: created_at, started_at, or an agent's display_name
          used,  \* the ids of all rows ever
          clock,
          walk   \* the client

vars == <<kind, rows, used, clock, walk>>

\* seen: what it got; twice: something a second time; stay: what was there all
\* the time; lost: it used the cursor of a row that is gone.
Fresh == [on |-> FALSE, done |-> FALSE, cursor |-> None, offset |-> 0, seen |-> {},
          twice |-> FALSE, stay |-> {}, lost |-> FALSE]

Row == [id : 1..MaxRows, at : 0..MaxTime]

TypeOK ==
    /\ rows \subseteq Row
    /\ walk.stay \subseteq rows
    /\ {r.id : r \in rows} \subseteq used /\ \A r, s \in rows : r.id = s.id => r = s

Init ==
    /\ kind \in {"sessions", "agents", "notifications", "audit", "runs", "pipelines", "pipeline runs",
                "export", "agent runs", "versions", "recordings", "satellites"}
    /\ rows = {} /\ used = {} /\ clock = 0 /\ walk = Fresh

-----------------------------------------------------------------------------
(* The table.  Ids are random; names, unlike times, come in any order.     *)

Insert(id, at) ==
    /\ id \notin used /\ used' = used \cup {id}
    /\ kind = "agents" \/ at = clock
    /\ rows' = rows \cup {[id |-> id, at |-> at]}
    /\ UNCHANGED <<kind, clock, walk>>

\* Nothing deletes entries of the audit log, runs, versions or recordings (a
\* pipeline or an agent takes all of its own along, and the walk is answered 404).
Logs == {"audit", "runs", "pipeline runs", "agent runs", "versions"}
Kept == Logs \cup {"export", "recordings"}

Delete(r) ==
    /\ kind \notin Kept
    /\ rows' = rows \ {r}
    /\ walk' = [walk EXCEPT !.stay = @ \ {r}]
    /\ UNCHANGED <<kind, used, clock>>

Tick ==
    /\ clock < MaxTime
    /\ clock' = clock + 1
    /\ UNCHANGED <<kind, rows, used, walk>>

-----------------------------------------------------------------------------
(* The pages.                                                              *)

\* ORDER BY: all the rows, none of them behind one that it is before.
Ordered(S, before(_, _)) ==
    {q \in [1..Cardinality(S) -> S] :
        /\ \A r \in S : \E i \in DOMAIN q : q[i] = r
        /\ \A i, j \in DOMAIN q : i < j => ~before(q[j], q[i])}

\* A single column leaves rows with equal values in any order.
Later(r, s) == r.at > s.at
Earlier(r, s) == r.at < s.at

Newest(S) == Ordered(S, Later)

Upto(q, n) == SubSeq(q, 1, IF n < Len(q) THEN n ELSE Len(q))

LastOf(page, full) == IF full /\ page # <<>> THEN page[Len(page)] ELSE None

\* The client receives a page; without a cursor for the next one it is done.
Receive(page, next, offset, gone) ==
    LET got == {page[i] : i \in DOMAIN page}
        was == IF walk.on THEN walk ELSE [Fresh EXCEPT !.stay = rows]
    IN walk' = [on |-> TRUE, done |-> next = None, cursor |-> next, offset |-> offset,
                seen |-> was.seen \cup got, twice |-> was.twice \/ got \cap was.seen # {},
                stay |-> was.stay, lost |-> was.lost \/ gone]

Asks == ~walk.done /\ UNCHANGED <<kind, rows, used, clock>>

ParsePaginationParams(limit) ==
    IF limit = None \/ limit <= 0 THEN DefaultLimit ELSE IF limit > MaxLimit THEN MaxLimit ELSE limit

\* Faulty: created_at alone.
SessionOlder(r, s) == r.at > s.at

\* (created_at, id), descending.
SessionBefore(r, s) == r.at > s.at \/ (r.at = s.at /\ r.id > s.id)

\* That leaves no choice.
SessionPages(S, limit) == {Upto(q, limit) : q \in Ordered(S, SessionBefore)}

ListActiveSessionsWithLimit(limit) == SessionPages(rows, limit)

\* When the row of the cursor is gone the comparison is with NULL.
ListActiveSessionsAfter(cursor, limit) ==
    IF cursor \notin rows THEN {<<>>}
    ELSE SessionPages({r \in rows : SessionBefore(cursor, r)}, limit)

HandleListSessions(asked) ==
    /\ kind = "sessions" /\ Asks
    /\ LET limit == ParsePaginationParams(asked) IN
       \E page \in IF walk.cursor = None THEN ListActiveSessionsWithLimit(limit)
                   ELSE ListActiveSessionsAfter(walk.cursor, limit) :
          Receive(page, LastOf(page, Len(page) >= limit), 0, walk.cursor # None /\ walk.cursor \notin rows)

\* ORDER BY display_name; the filters leave a list of the same form.
ListAgentDefinitions == Ordered(rows, Earlier)

\* The whole list is read, and cut in memory: after a cursor the page has one
\* row less than the limit, and so no next cursor.
HandleListAgents(asked) ==
    /\ kind = "agents" /\ Asks
    /\ LET limit == ParsePaginationParams(asked) IN
       \E agents \in ListAgentDefinitions :
          LET at == {i \in DOMAIN agents : agents[i] = walk.cursor}
              page == IF walk.cursor = None THEN Upto(agents, limit)
                      ELSE IF at = {} THEN <<>>
                      ELSE LET i == CHOOSE i \in at : TRUE
                           IN SubSeq(agents, i + 1, IF i - 1 + limit < Len(agents) THEN i - 1 + limit ELSE Len(agents))
          IN Receive(page, LastOf(page, Len(page) >= limit), 0, walk.cursor # None /\ at = {})

\* ListByUser: older than the time of the last one.
ListByUser(limit) ==
    {Upto(q, limit) : q \in Newest({r \in rows : walk.cursor # None => r.at < walk.cursor.at})}

HandleListNotifications(asked) ==
    /\ kind = "notifications" /\ Asks
    /\ LET limit == IF asked = None \/ asked <= 0 \/ asked > MaxLimit THEN DefaultLimit ELSE asked IN
       \E page \in ListByUser(limit) : Receive(page, LastOf(page, Len(page) = limit), 0, FALSE)

OffsetPages(offset, limit) == {Upto(SubSeq(q, offset + 1, Len(q)), limit) : q \in Newest(rows)}

ListAuditLogs(offset, limit) ==
    OffsetPages(offset, IF limit <= 0 THEN DefaultLimit ELSE IF limit > MaxLimit THEN MaxLimit ELSE limit)

ListAgentRunsWithContext(offset, limit) ==
    OffsetPages(offset, IF limit <= 0 THEN DefaultLimit ELSE IF limit > MaxLimit THEN MaxLimit ELSE limit)

ListPipelines(offset, limit) == OffsetPages(offset, limit)

\* The client asks for what follows until a page is empty.
ReceiveOffset(page) == Receive(page, LastOf(page, TRUE), walk.offset + Len(page), FALSE)

\* Nonsense is refused here, and read as the default by the others.
HandleListAuditLog(asked) ==
    /\ kind = "audit" /\ Asks
    /\ asked # None => asked >= 0
    /\ \E page \in ListAuditLogs(walk.offset, IF asked = None THEN DefaultLimit ELSE asked) : ReceiveOffset(page)

handleListAllRuns(asked) ==
    /\ kind = "runs" /\ Asks
    /\ \E page \in ListAgentRunsWithContext(walk.offset, IF asked = None THEN DefaultLimit ELSE asked) :
          ReceiveOffset(page)

parseLimitOffset(asked) ==
    IF asked = None \/ asked <= 0 THEN DefaultLimit ELSE IF asked > MaxLimit THEN MaxLimit ELSE asked

HandleListPipelines(asked) ==
    /\ kind = "pipelines" /\ Asks
    /\ \E page \in ListPipelines(walk.offset, parseLimitOffset(asked)) : ReceiveOffset(page)

ListPipelineRuns(offset, limit) == OffsetPages(offset, limit)

HandleListPipelineRuns(asked) ==
    /\ kind = "pipeline runs" /\ Asks
    /\ \E page \in ListPipelineRuns(walk.offset, parseLimitOffset(asked)) : ReceiveOffset(page)

\* One answer and no cursor.
Once(page) == Receive(page, None, 0, FALSE)

\* The export asks ListAuditLogs for more than it ever returns.
HandleExportAuditLog ==
    /\ kind = "export" /\ Asks
    /\ \E page \in ListAuditLogs(0, ExportLimit) : Once(page)

ListAgentRuns == Newest(rows)

HandleListAgentRuns == kind = "agent runs" /\ Asks /\ \E page \in ListAgentRuns : Once(page)

ListAgentVersions == Newest(rows)

HandleListAgentVersions == kind = "versions" /\ Asks /\ \E page \in ListAgentVersions : Once(page)

HandleListAllRecordings ==
    /\ kind = "recordings" /\ Asks
    /\ \E q \in Newest(rows) : Once(Upto(q, MaxLimit))

HandleListSatellites == kind = "satellites" /\ Asks /\ \E page \in Newest(rows) : Once(page)

-----------------------------------------------------------------------------
Next ==
    \/ \E id \in 1..MaxRows, at \in 0..MaxTime : Insert(id, at)
    \/ \E r \in rows : Delete(r)
    \/ Tick
    \/ \E asked \in Limits :
          \/ HandleListSessions(asked) \/ HandleListAgents(asked) \/ HandleListNotifications(asked)
          \/ HandleListAuditLog(asked) \/ handleListAllRuns(asked) \/ HandleListPipelines(asked)
          \/ HandleListPipelineRuns(asked)
    \/ HandleExportAuditLog \/ HandleListAgentRuns \/ HandleListAgentVersions
    \/ HandleListAllRecordings \/ HandleListSatellites

Spec == Init /\ [][Next]_vars

-----------------------------------------------------------------------------
\* Walking over the sessions, whatever comes and goes meanwhile and however
\* many have the same time, shows no session twice, and shows every session
\* that was there all the time, unless the session of a cursor was deleted.
SessionsListedOnce ==
    kind = "sessions" =>
        /\ ~walk.twice
        /\ walk.done /\ ~walk.lost => walk.stay \subseteq walk.seen

\* Walking over the audit log, a list of runs or an agent's versions while entries
\* are added shows every entry that was there at the start, if its time is its own.
LogWalkComplete ==
    kind \in Logs /\ walk.done =>
        \A r \in walk.stay : (\A s \in rows \ {r} : s.at # r.at) => r \in walk.seen
=============================================================================
