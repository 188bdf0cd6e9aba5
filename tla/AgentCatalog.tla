----------------------------- MODULE AgentCatalog -----------------------------
(***************************************************************************)
(* The catalogue of agent definitions: the rows of agent_definitions and   *)
(* the snapshots of agent_versions, and the handlers of the HTTP API that  *)
(* create, import, update, roll back and delete an agent.  A handler is    *)
(* several statements on the database, none of them in a transaction, so   *)
(* the statements of two requests interleave.                              *)
(*                                                                         *)
(* A row keeps what the properties tell apart.  "plain" stands for the     *)
(* columns whose Go field has one word (Description, Type, Provider, Model,*)
(* Guardrails ...), "tools" for those whose Go field has two (DisplayName, *)
(* SystemPrompt, ToolsConfig, OutputConfig), "routing" for the routing     *)
(* column, which neither the snapshot's reader nor the YAML file has, and  *)
(* "schedule" for the column the schedule and the trigger of an agent both *)
(* are stored in.                                                          *)
(***************************************************************************)
EXTENDS Naturals

CONSTANTS Agents,          \* ids of agent_definitions rows
          Seeded,          \* the ids of the rows migration 028 inserts
          Names, Versions, Values,
          DefaultVersion,  \* "1.0.0"
          Bodies,          \* rows POST requests ask for
          Patches,         \* bodies of PUT requests: some fields of a row
          Clients,         \* requests the API serves at the same time
          MaxSchedules,    \* bound on the requests to the schedule handlers
          None

VARIABLES agents,    \* agents[a]: the row, or None
          versions,  \* the rows of agent_versions
          used,      \* the agents some agent_runs or pipeline_steps row names
          sets,      \* how many schedule requests there were
          req,       \* req[c]: the request client c waits for
          was        \* was[a]: every content row a has had, but for the schedule

vars == <<agents, versions, used, sets, req, was>>

\* The empty string: what decoding leaves in a field the JSON does not name.
Empty == "empty"

Row == [name : Names, builtin : BOOLEAN, version : Versions,
        plain : Values, tools : Values, routing : Values \cup {None},
        schedule : {None, "cron", "trigger"}]

\* A row without its schedule.
Content(r) == [r EXCEPT !.schedule = None]

Codes == {200, 201, 400, 403, 404, 409, 500}

Idle == [op |-> "none", pc |-> "idle", id |-> None, row |-> None,
         body |-> None]

\* The core pack: builtin agents with names of their own.
SeedRow(a) ==
    LET n == CHOOSE f \in [Seeded -> Names] : \A b, d \in Seeded : b # d => f[b] # f[d]
        x == CHOOSE v \in Values : TRUE
    IN [name |-> n[a], builtin |-> TRUE, version |-> DefaultVersion,
        plain |-> x, tools |-> x, routing |-> None, schedule |-> None]

Init ==
    /\ agents = [a \in Agents |-> IF a \in Seeded THEN SeedRow(a) ELSE None]
    /\ versions = {}
    /\ used = {} /\ sets = 0
    /\ req = [c \in Clients |-> Idle]
    /\ was = [a \in Agents |-> IF agents[a] = None THEN {} ELSE {Content(agents[a])}]

-----------------------------------------------------------------------------
(* The statements.                                                         *)

NameTaken(n, a) == \E b \in Agents \ {a} : agents[b] # None /\ agents[b].name = n

\* The columns are refused by the table when the name is another row's (UNIQUE)
\* or when tools_config is the empty string, which is not JSON.
Accepted(a, r) == ~NameTaken(r.name, a) /\ r.tools # Empty

SetRow(a, r) ==
    /\ agents' = [agents EXCEPT ![a] = r]
    /\ was' = [was EXCEPT ![a] = @ \cup {Content(r)}]

\* CreateAgentVersion: UNIQUE (agent_id, version) and the foreign key on the
\* agent refuse the row, and the caller does not look at the error.
CreateAgentVersion(a, r) ==
    versions' = IF agents[a] = None \/ \E s \in versions : s.agent = a /\ s.version = r.version
                THEN versions
                ELSE versions \cup {[agent |-> a, version |-> r.version, row |-> r]}

\* The request is answered; of the answers only a rollback's is kept (below).
Answer(c, code) == code \in Codes /\ req' = [req EXCEPT ![c] = Idle]

At(c, op, pc) == req[c].op = op /\ req[c].pc = pc

\* A request for an agent that exists or existed.
Start(c, op, a, b) ==
    /\ req[c].pc \in {"idle", "done"}
    /\ was[a] # {}
    /\ req' = [req EXCEPT ![c] = [Idle EXCEPT !.op = op, !.pc = "start", !.id = a, !.body = b]]
    /\ UNCHANGED <<agents, versions, used, sets, was>>

Goto(c, pc, r) == req' = [req EXCEPT ![c].pc = pc, ![c].row = r]

-----------------------------------------------------------------------------
(* Creation: the API and the import of a YAML file.                        *)

\* A row nobody has used yet: ids are fresh UUIDs.
Fresh(a) == was[a] = {}

\* CreateAgentDefinition: the INSERT, under a fresh id, of a row the table takes.
CreateAgentDefinition(a, r) == Fresh(a) /\ Accepted(a, r) /\ SetRow(a, r)

\* HandleCreateAgent: one INSERT, of a body that passes validation.  Guardrails that are absent are sent as NULL
\* to a NOT NULL column.
CreateAgent(c, r, guardrails) ==
    /\ req[c].pc \in {"idle", "done"}
    /\ \/ guardrails /\ (\E a \in Agents : CreateAgentDefinition(a, r)) /\ Answer(c, 201)
       \/ NameTaken(r.name, None) /\ Answer(c, 409) /\ UNCHANGED <<agents, was>>
       \/ ~guardrails /\ Answer(c, 500) /\ UNCHANGED <<agents, was>>
    /\ UNCHANGED <<versions, used, sets>>

\* What export writes to the file and import reads back: no routing, and the
\* new row is never builtin.
convertAgentToYAML(r) ==
    [name |-> r.name, version |-> r.version, plain |-> r.plain, tools |-> r.tools, schedule |-> r.schedule]

convertYAMLToAgent(y) ==
    [name |-> y.name, builtin |-> FALSE, version |-> y.version,
     plain |-> y.plain, tools |-> y.tools, routing |-> None, schedule |-> y.schedule]

\* HandleExportAgent, with the file handed to the same client's import; the
\* name may be edited in between.
ExportAgent(c, a, n) ==
    /\ req[c].pc \in {"idle", "done"}
    /\ agents[a] # None
    /\ req' = [req EXCEPT ![c] = [Idle EXCEPT !.op = "import", !.pc = "start",
                    !.body = [convertAgentToYAML(agents[a]) EXCEPT !.name = n]]]
    /\ UNCHANGED <<agents, versions, used, sets, was>>

\* HandleImportAgent looks for the name ...
ImportLookup(c) ==
    /\ At(c, "import", "start")
    /\ IF NameTaken(req[c].body.name, None)
       THEN Answer(c, 409)
       ELSE Goto(c, "insert", None)
    /\ UNCHANGED <<agents, versions, used, sets, was>>

\* ... and inserts: a name taken in between is an internal error here.
ImportInsert(c) ==
    /\ At(c, "import", "insert")
    /\ LET r == convertYAMLToAgent(req[c].body) IN
       \/ (\E a \in Agents : CreateAgentDefinition(a, r)) /\ Answer(c, 201)
       \/ ~Accepted(None, r) /\ Answer(c, 500) /\ UNCHANGED <<agents, was>>
    /\ UNCHANGED <<versions, used, sets>>

-----------------------------------------------------------------------------
(* HandleUpdateAgent.                                                      *)

\* The row is read for the snapshot, before the request is looked at.
UpdateSnapshotRead(c) ==
    /\ At(c, "update", "start")
    /\ Goto(c, IF agents[req[c].id] = None THEN "read" ELSE "snapshot", agents[req[c].id])
    /\ UNCHANGED <<agents, versions, used, sets, was>>

\* Faulty: the snapshot is filed under the version the row has by now.
UpdateSnapshotWriteRelabelled(c) ==
    /\ At(c, "update", "snapshot")
    /\ CreateAgentVersion(req[c].id, IF agents[req[c].id] = None THEN req[c].row
                                     ELSE [req[c].row EXCEPT !.version = agents[req[c].id].version])
    /\ Goto(c, "read", None)
    /\ UNCHANGED <<agents, used, sets, was>>

UpdateSnapshotWrite(c) ==
    /\ At(c, "update", "snapshot")
    /\ CreateAgentVersion(req[c].id, req[c].row)
    /\ Goto(c, "read", None)
    /\ UNCHANGED <<agents, used, sets, was>>

\* The fields the body names, and the existing row's for the others.
merge(body, r) == [f \in DOMAIN r |-> IF f \in DOMAIN body THEN body[f] ELSE r[f]]

\* The row is read again for the update: 404, 403 for a builtin agent, 400 for
\* a body that does not pass validation (valid = FALSE), or the merged row.
UpdateRead(c, valid) ==
    /\ At(c, "update", "read")
    /\ LET r == agents[req[c].id] IN
       \/ r = None /\ Answer(c, 404)
       \/ r # None /\ r.builtin /\ Answer(c, 403)
       \/ r # None /\ ~r.builtin /\ ~valid /\ Answer(c, 400)
       \/ r # None /\ ~r.builtin /\ valid /\ Goto(c, "exists", merge(req[c].body, r))
    /\ UNCHANGED <<agents, versions, used, sets, was>>

\* UpdateAgentDefinition (update and rollback): a row that is gone is no error,
\* and the handler then dereferences the nil row: no answer is written.
DefinitionExists(c) ==
    /\ req[c].op \in {"update", "rollback"} /\ req[c].pc = "exists"
    /\ IF agents[req[c].id] = None
       THEN req' = [req EXCEPT ![c] = Idle]
       ELSE Goto(c, "write", req[c].row)
    /\ UNCHANGED <<agents, versions, used, sets, was>>

\* The UPDATE of every column.
UpdateWrite(c) ==
    /\ At(c, "update", "write")
    /\ IF agents[req[c].id] # None /\ Accepted(req[c].id, req[c].row)
       THEN SetRow(req[c].id, req[c].row) /\ Answer(c, 200)
       ELSE UNCHANGED <<agents, was>> /\ Answer(c, 500)
    /\ UNCHANGED <<versions, used, sets>>

-----------------------------------------------------------------------------
(* HandleRollbackAgent.  The snapshot is the JSON of the Go struct, whose   *)
(* keys are the Go names; it is read into fields tagged with the column     *)
(* names.  The decoder ignores case but not the underscore, so the fields   *)
(* with two words stay empty, and routing is not among them.                *)

fromSnapshot(r) == [r EXCEPT !.tools = Empty, !.routing = None]

RollbackRead(c) ==
    /\ At(c, "rollback", "start")
    /\ LET r == agents[req[c].id] IN
       \/ r = None /\ Answer(c, 404)
       \/ r # None /\ r.builtin /\ Answer(c, 403)
       \/ r # None /\ ~r.builtin /\ Goto(c, "version", r)
    /\ UNCHANGED <<agents, versions, used, sets, was>>

\* The builtin flag is the row's, the rest the snapshot's.
RollbackVersion(c) ==
    /\ At(c, "rollback", "version")
    /\ LET found == {s \in versions : s.agent = req[c].id /\ s.version = req[c].body} IN
       IF found = {}
       THEN Answer(c, 404)
       ELSE \E s \in found :
              req' = [req EXCEPT ![c].pc = "exists", ![c].body = s.row,
                        ![c].row = [fromSnapshot(s.row) EXCEPT !.builtin = req[c].row.builtin]]
    /\ UNCHANGED <<agents, versions, used, sets, was>>

\* The answer to a rollback is kept with the snapshot it was asked to restore.
RollbackWrite(c) ==
    /\ At(c, "rollback", "write")
    /\ LET ok == agents[req[c].id] # None /\ Accepted(req[c].id, req[c].row) IN
       /\ IF ok THEN SetRow(req[c].id, req[c].row) ELSE UNCHANGED <<agents, was>>
       /\ req' = [req EXCEPT ![c].pc = "done", ![c].row = None]
    /\ UNCHANGED <<versions, used, sets>>

-----------------------------------------------------------------------------
(* HandleDeleteAgent, and the rows that name an agent.                     *)

DeleteRead(c) ==
    /\ At(c, "delete", "start")
    /\ LET r == agents[req[c].id] IN
       \/ r = None /\ Answer(c, 404)
       \/ r # None /\ r.builtin /\ Answer(c, 403)
       \/ r # None /\ ~r.builtin /\ Goto(c, "write", r)
    /\ UNCHANGED <<agents, versions, used, sets, was>>

\* agent_runs and pipeline_steps refuse the DELETE; agent_versions goes along.
DeleteWrite(c) ==
    /\ At(c, "delete", "write")
    /\ IF req[c].id \in used
       THEN Answer(c, 500) /\ UNCHANGED <<agents, versions>>
       ELSE /\ agents' = [agents EXCEPT ![req[c].id] = None]
            /\ versions' = {s \in versions : s.agent # req[c].id}
            /\ Answer(c, 200)
    /\ UNCHANGED <<used, sets, was>>

\* A deployment inserts a run that names the agent.
CreateAgentRun(a) ==
    /\ agents[a] # None
    /\ used' = used \cup {a}
    /\ UNCHANGED <<agents, versions, sets, req, was>>

-----------------------------------------------------------------------------
(* The schedule handlers: one UPDATE each, builtin or not, and no row is no *)
(* error.  The scheduler they would tell is not part of this build.         *)

SetScheduleColumn(a, x) ==
    /\ agents[a] # None /\ sets < MaxSchedules
    /\ sets' = sets + 1
    /\ SetRow(a, [agents[a] EXCEPT !.schedule = x])
    /\ UNCHANGED <<versions, used, req>>

\* An expression is accepted when it parses and next fires a minute from now
\* or later.
validateCronExpression(parses, next) == parses /\ next >= 60

HandleSetSchedule(a, parses, next) == validateCronExpression(parses, next) /\ SetScheduleColumn(a, "cron")

HandleDeleteSchedule(a) == SetScheduleColumn(a, None)

HandleSetTrigger(a) == SetScheduleColumn(a, "trigger")

HandleDeleteTrigger(a) == SetScheduleColumn(a, None)

-----------------------------------------------------------------------------
Next ==
    \/ \E c \in Clients, a \in Agents :
          \/ \E n \in Names : ExportAgent(c, a, n)
          \/ \E p \in Patches : Start(c, "update", a, p)
          \/ \E v \in Versions : Start(c, "rollback", a, v)
          \/ Start(c, "delete", a, None)
    \/ \E c \in Clients :
          \/ \E r \in Bodies, guardrails \in BOOLEAN : CreateAgent(c, r, guardrails)
          \/ ImportLookup(c) \/ ImportInsert(c)
          \/ UpdateSnapshotRead(c) \/ UpdateSnapshotWrite(c)
          \/ \E valid \in BOOLEAN : UpdateRead(c, valid)
          \/ DefinitionExists(c) \/ UpdateWrite(c)
          \/ RollbackRead(c) \/ RollbackVersion(c) \/ RollbackWrite(c)
          \/ DeleteRead(c) \/ DeleteWrite(c)
    \/ \E a \in Agents :
          \/ CreateAgentRun(a)
          \/ \E parses \in BOOLEAN, next \in {59, 60} : HandleSetSchedule(a, parses, next)
          \/ HandleSetTrigger(a) \/ HandleDeleteSchedule(a) \/ HandleDeleteTrigger(a)

Spec == Init /\ [][Next]_vars

-----------------------------------------------------------------------------
\* A snapshot stored for version v is a content the agent's row really had
\* while its version was v, whatever was written between the read and the
\* INSERT, and its agent still exists.
SnapshotsAreTrue ==
    \A s \in versions :
        /\ Content(s.row) \in was[s.agent]
        /\ s.row.version = s.version
        /\ agents[s.agent] # None

\* A row of the core pack keeps its content for good, but for the schedule:
\* the checks of update, rollback, delete and import are made on a row read
\* earlier.
BuiltinUnchanged ==
    [][\A a \in Agents : agents[a] # None /\ agents[a].builtin =>
          agents'[a] # None /\ Content(agents'[a]) = Content(agents[a])]_vars

\* "Restores an agent to a previous version's snapshot"
\* (agent_versions.go:142): a rollback leaves the agent as the snapshot has it.
\* The code does not keep this (README, Departures).
RollbackRestores ==
    \A c \in Clients :
        (req[c].op = "rollback" /\ req[c].pc = "done") => agents[req[c].id] = req[c].body
=============================================================================
