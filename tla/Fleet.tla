-------------------------------- MODULE Fleet --------------------------------
(***************************************************************************)
(* The satellites as the REST API manages them, the choice of a satellite  *)
(* for an agent (internal/dispatch), and the deployment of the agent.  The *)
(* dispatcher reads the rows in one query and then asks the registry, row  *)
(* by row, whether the satellite has a stream; HandleDeployAgent goes on   *)
(* with the satellite it was given while everything may change.            *)
(***************************************************************************)
EXTENDS Naturals, FiniteSets

CONSTANTS MaxSatellites, \* bound on the rows ever inserted; ids are given in order
          Names,
          Tags,
          Loads,       \* telemetry: [cpu, mem, disk], in percent
          Orders,      \* what deployments ask for: [require, prefer] and a target or None
          Clients,     \* deployments at the same time
          MaxSessions, \* bound on the sessions of deployments
          None

VARIABLES sat,       \* sat[s]: [name, status, tags], or None
          born,      \* how many rows were inserted so far
          telemetry, \* telemetry[s]: the load last reported, None when 60 s old or missing
          stream,    \* the satellites the registry has a stream for
          sessions,  \* the sessions deployments inserted: [id, sat, run], run: has a row in agent_runs
          req        \* req[c]: the deployment of client c

vars == <<sat, born, telemetry, stream, sessions, req>>

Satellites == 1..MaxSatellites

Idle == [pc |-> "idle", order |-> None, rows |-> None, todo |-> {},
         chosen |-> None, session |-> 0]

TypeOK ==
    /\ \A s \in Satellites : sat[s] = None \/ sat[s] \in
          [name : Names, status : {"pending", "active", "offline"}, tags : SUBSET Tags]
    /\ \A s, t \in Satellites : sat[s] # None /\ sat[t] # None /\ sat[s].name = sat[t].name => s = t
    /\ \A x \in sessions : sat[x.sat] # None

Init ==
    /\ sat = [s \in Satellites |-> None]
    /\ born = 0
    /\ telemetry = [s \in Satellites |-> None]
    /\ stream = {} /\ sessions = {}
    /\ req = [c \in Clients |-> Idle]

fleet == <<sat, born, telemetry, stream>>
deploys == <<sessions, req>>

-----------------------------------------------------------------------------
(* The rows.                                                               *)

Here == {s \in Satellites : sat[s] # None}

Named(n) == {s \in Here : sat[s].name = n}

\* HandleCreateSatellite: a satellite of that name starts over as pending.
HandleCreateSatellite(n) ==
    /\ IF Named(n) # {}
       THEN /\ sat' = [s \in Satellites |-> IF s \in Named(n) THEN [sat[s] EXCEPT !.status = "pending"] ELSE sat[s]]
            /\ UNCHANGED born
       ELSE /\ born < MaxSatellites
            /\ born' = born + 1
            /\ sat' = [sat EXCEPT ![born'] = [name |-> n, status |-> "pending", tags |-> {}]]
    /\ UNCHANGED <<telemetry, stream>> /\ UNCHANGED deploys

\* HandleDeleteSatellite: refused while agent_runs name the satellite; its
\* sessions and telemetry go along.
HandleDeleteSatellite(s) ==
    /\ sat[s] # None
    /\ \A x \in sessions : x.run => x.sat # s
    /\ sat' = [sat EXCEPT ![s] = None]
    /\ telemetry' = [telemetry EXCEPT ![s] = None]
    /\ sessions' = {x \in sessions : x.sat # s}
    /\ UNCHANGED <<born, stream, req>>

\* HandleRenameSatellite: names are UNIQUE.
HandleRenameSatellite(s, n) ==
    /\ sat[s] # None /\ Named(n) \subseteq {s}
    /\ sat' = [sat EXCEPT ![s].name = n]
    /\ UNCHANGED <<born, telemetry, stream>> /\ UNCHANGED deploys

HandleUpdateSatelliteTags(s, tags) ==
    /\ sat[s] # None
    /\ sat' = [sat EXCEPT ![s].tags = tags]
    /\ UNCHANGED <<born, telemetry, stream>> /\ UNCHANGED deploys

\* HandleSatelliteHeartbeat: the satellite with that id or name is active; if
\* there is none, the newest pending one is.
HandleSatelliteHeartbeat(known) ==
    LET pending == {s \in Here : sat[s].status = "pending"}
        newest == {s \in pending : \A t \in pending : t <= s}
        hit == IF known # {} THEN known ELSE newest
    IN /\ sat' = [s \in Satellites |-> IF s \in hit THEN [sat[s] EXCEPT !.status = "active"] ELSE sat[s]]
       /\ UNCHANGED <<born, telemetry, stream>> /\ UNCHANGED deploys

\* The liveness checker, for a satellite it has not heard of for 45 s.
MarkOffline(s) ==
    /\ sat[s] # None /\ sat[s].status = "active"
    /\ sat' = [sat EXCEPT ![s].status = "offline"]
    /\ UNCHANGED <<born, telemetry, stream>> /\ UNCHANGED deploys

\* The gateway stores a telemetry report; without a new one it grows old.
TelemetryReport(s, load) ==
    /\ s \in stream /\ sat[s] # None
    /\ telemetry' = [telemetry EXCEPT ![s] = load]
    /\ UNCHANGED <<sat, born, stream>> /\ UNCHANGED deploys

TelemetryAges(s) ==
    /\ telemetry[s] # None
    /\ telemetry' = [telemetry EXCEPT ![s] = None]
    /\ UNCHANGED <<sat, born, stream>> /\ UNCHANGED deploys

\* RegisterStream and UnregisterStream of the stream registry.
RegisterStream(s) ==
    /\ sat[s] # None
    /\ stream' = stream \cup {s}
    /\ UNCHANGED <<sat, born, telemetry>> /\ UNCHANGED deploys

UnregisterStream(s) ==
    /\ s \in stream
    /\ stream' = stream \ {s}
    /\ UNCHANGED <<sat, born, telemetry>> /\ UNCHANGED deploys

-----------------------------------------------------------------------------
(* The dispatcher.                                                         *)

hasAllRequiredTags(tags, require) == require \subseteq tags

countMatchedTags(tags, prefer) == Cardinality(tags \cap prefer)

\* scoreSatellite, in ten-thousandths: half the weight is the idle processor,
\* 3/10 the free memory, 2/10 the free disk; a preferred tag adds 5/100.
\* Faulty: busy processors count in favour of a satellite.
scoreBusy(r, prefer) ==
    50 * r.load.cpu + 30 * (100 - r.load.mem) + 20 * (100 - r.load.disk)
      + 500 * countMatchedTags(r.tags, prefer)

scoreSatellite(r, prefer) ==
    50 * (100 - r.load.cpu) + 30 * (100 - r.load.mem) + 20 * (100 - r.load.disk)
      + 500 * countMatchedTags(r.tags, prefer)

\* candidates: the query reads the active rows with their latest telemetry
\* (none counts as too old).  What filterCandidate asks of a row alone is
\* decided by what was read: telemetry of the last 60 s and the required tags.
QueryCandidates(c) ==
    /\ req[c].pc = "query"
    /\ LET left == {s \in Here : /\ sat[s].status = "active" /\ telemetry[s] # None
                                /\ hasAllRequiredTags(sat[s].tags, req[c].order.require)}
       IN req' = [req EXCEPT ![c].pc = "filter", ![c].todo = left,
                    ![c].rows = [s \in left |-> [tags |-> sat[s].tags, load |-> telemetry[s]]]]
    /\ UNCHANGED fleet /\ UNCHANGED sessions

\* filterCandidate, for the next row: HasStream looks at the registry now.
filterCandidate(c, s) ==
    /\ req[c].pc = "filter" /\ s \in req[c].todo
    /\ \A t \in req[c].todo : s <= t
    /\ req' = [req EXCEPT ![c].todo = @ \ {s},
                 ![c].rows = IF s \in stream THEN @ ELSE [t \in DOMAIN @ \ {s} |-> @[t]]]
    /\ UNCHANGED fleet /\ UNCHANGED sessions

\* Dispatch: a candidate with the highest score (the sort leaves open which of
\* several), or none and the request is answered.
Dispatch(c) ==
    /\ req[c].pc = "filter" /\ req[c].todo = {}
    /\ LET score(s) == scoreSatellite(req[c].rows[s], req[c].order.prefer)
           fit == DOMAIN req[c].rows
           best == {s \in fit : \A t \in fit : score(t) <= score(s)}
       IN IF best = {} THEN req' = [req EXCEPT ![c] = Idle]
          ELSE \E s \in best : req' = [req EXCEPT ![c].pc = "verify", ![c].chosen = s]
    /\ UNCHANGED fleet /\ UNCHANGED sessions

-----------------------------------------------------------------------------
(* HandleDeployAgent.                                                      *)

\* The agent was found; a satellite the request names needs no dispatcher.
DeployAgent(c, order) ==
    /\ req[c].pc = "idle" /\ Cardinality(sessions) < MaxSessions
    /\ req' = [req EXCEPT ![c] = [Idle EXCEPT !.order = order,
                 !.pc = IF order.target = None THEN "query" ELSE "verify", !.chosen = order.target]]
    /\ UNCHANGED fleet /\ UNCHANGED sessions

\* The satellite must exist and be active.
VerifySatellite(c) ==
    /\ req[c].pc = "verify"
    /\ req' = IF sat[req[c].chosen] # None /\ sat[req[c].chosen].status = "active"
              THEN [req EXCEPT ![c] = [Idle EXCEPT !.pc = "session", !.chosen = req[c].chosen]]
              ELSE [req EXCEPT ![c] = Idle]
    /\ UNCHANGED fleet /\ UNCHANGED sessions

\* A session in PROVISIONING, unless the satellite is gone (foreign key).
InsertSession(c) ==
    /\ req[c].pc = "session" /\ Cardinality(sessions) < MaxSessions
    /\ IF sat[req[c].chosen] = None THEN req' = [req EXCEPT ![c] = Idle] /\ UNCHANGED sessions
       ELSE \E id \in 1..MaxSessions :
              /\ id \notin {x.id : x \in sessions}
              /\ sessions' = sessions \cup {[id |-> id, sat |-> req[c].chosen, run |-> FALSE]}
              /\ req' = [req EXCEPT ![c].pc = "run", ![c].session = id]
    /\ UNCHANGED fleet

\* CreateAgentRun: refused when the session went with its satellite, or the
\* agent is gone; then the session stays alone.
CreateAgentRun(c, agentThere) ==
    /\ req[c].pc = "run"
    /\ LET mine == {x \in sessions : x.id = req[c].session} IN
       IF agentThere /\ mine # {}
       THEN /\ sessions' = (sessions \ mine) \cup {[x EXCEPT !.run = TRUE] : x \in mine}
            /\ req' = [req EXCEPT ![c].pc = "send"]
       ELSE req' = [req EXCEPT ![c] = Idle] /\ UNCHANGED sessions
    /\ UNCHANGED fleet

\* SendToSatellite; without a stream that is logged, and 201 answered anyway.
SendDeploy(c) ==
    /\ req[c].pc = "send"
    /\ req' = [req EXCEPT ![c] = Idle]
    /\ UNCHANGED fleet /\ UNCHANGED sessions

-----------------------------------------------------------------------------
Next ==
    \/ \E n \in Names : HandleCreateSatellite(n)
    \/ \E s \in Satellites :
          \/ HandleDeleteSatellite(s) \/ MarkOffline(s) \/ TelemetryAges(s)
          \/ RegisterStream(s) \/ UnregisterStream(s)
          \/ \E n \in Names : HandleRenameSatellite(s, n)
          \/ \E tags \in SUBSET Tags : HandleUpdateSatelliteTags(s, tags)
          \/ \E load \in Loads : TelemetryReport(s, load)
    \/ \E known \in {{}} \cup {{s} : s \in Here} : HandleSatelliteHeartbeat(known)
    \/ \E c \in Clients :
          \/ \E o \in Orders : DeployAgent(c, o)
          \/ QueryCandidates(c) \/ Dispatch(c) \/ VerifySatellite(c) \/ InsertSession(c)
          \/ SendDeploy(c) \/ \E there \in BOOLEAN : CreateAgentRun(c, there)
          \/ \E s \in Satellites : filterCandidate(c, s)

Spec == Init /\ [][Next]_vars

-----------------------------------------------------------------------------
\* t was at least as good a choice as s in everything, and better in something.
Dominates(t, s, prefer) ==
    /\ t.load.cpu <= s.load.cpu /\ t.load.mem <= s.load.mem /\ t.load.disk <= s.load.disk
    /\ s.tags \cap prefer \subseteq t.tags
    /\ t.load # s.load \/ ~(t.tags \cap prefer \subseteq s.tags)

\* The satellite the dispatcher picks has the required tags, and no satellite
\* that was active and had a stream, fresh telemetry and the required tags when
\* the dispatcher looked at it was better in every respect.
NotDominated ==
    \A c \in Clients :
        LET o == req[c].order
            rows == req[c].rows
        IN req[c].pc = "verify" /\ o.target = None =>
              /\ o.require \subseteq rows[req[c].chosen].tags
              /\ \A t \in DOMAIN rows : ~Dominates(rows[t], rows[req[c].chosen], o.prefer)
=============================================================================
