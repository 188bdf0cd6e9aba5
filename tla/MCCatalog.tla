------------------------------ MODULE MCCatalog ------------------------------
(***************************************************************************)
(* What Nexus keeps beside sessions: the agent definitions, the pipelines, *)
(* the accounts, the lists, and the notifications.  They share no state    *)
(* that the modules model, so a behaviour is one of a single part, chosen  *)
(* at the start.                                                           *)
(***************************************************************************)
EXTENDS Integers, Sequences

CONSTANTS Parts,                                      \* the parts to check
          None,
          Clients,                                    \* requests served at the same time
          Agents, Seeded, Names, Versions, Values,    \* of AgentCatalog
          DefaultVersion, Bodies, Patches, MaxSchedules,
          Ids, Heads, Lists, Refused, MaxRuns,        \* of Pipelines
          MaxUsers, Emails, OwnerEmail, Passwords,    \* of Accounts
          MaxRows, MaxTime, Limits,                   \* of Listing
          DefaultLimit, MaxLimit, ExportLimit,
          Tabs, Emitters, Kinds, Settings,            \* of Notifications
          ChanCap, MaxEvents

VARIABLES part,
          agents, versions, named, sets, agentReq, was,
          pipe, steps, runs, pipeReq, ids, last, torn,
          sso, users, members, tokens, userReq, overlap, resigned,
          kind, entries, used, clock, walk,
          notes, prefs, clients, closed, chan, em, events, skipped

agentVars == <<agents, versions, named, sets, agentReq, was>>
pipeVars == <<pipe, steps, runs, pipeReq, ids, last, torn>>
userVars == <<sso, users, members, tokens, userReq, overlap, resigned>>
listVars == <<kind, entries, used, clock, walk>>
noteVars == <<notes, prefs, clients, closed, chan, em, events, skipped>>
vars == <<part, agentVars, pipeVars, userVars, listVars, noteVars>>

Agent == INSTANCE AgentCatalog WITH used <- named, req <- agentReq

Pipe == INSTANCE Pipelines WITH req <- pipeReq, used <- ids

User == INSTANCE Accounts WITH born <- members, req <- userReq

List == INSTANCE Listing WITH rows <- entries

Note == INSTANCE Notifications WITH rows <- notes

(* Values for the constants that are sets of records or of sequences: a     *)
(* request for a name that may be taken, one that changes the version, step *)
(* lists of which one has a step the table refuses, and events and          *)
(* preferences of which some match.                                         *)
OneBody == {[name |-> "n", builtin |-> FALSE, version |-> "v1", plain |-> "x", tools |-> "x",
             routing |-> "x", schedule |-> None]}

OnePatch == {[version |-> "v2", tools |-> "y"]}

ThreeLists == {<<"a", "b">>, <<"b", "a">>, <<"a", "bad">>}

TwoKinds == {[type |-> "SATELLITE_OFFLINE", priority |-> "CRITICAL"],
             [type |-> "SESSION_TERMINATED", priority |-> "INFO"]}

OneSetting == {[min |-> "WARNING", browser |-> TRUE,
                on |-> {"SESSION_TERMINATED", "SESSION_SUSPENDED", "SESSION_ERROR", "SATELLITE_OFFLINE"}]}

(* The rows of the core pack have names of their own, what requests ask for *)
(* and what they leave are rows, and no row is the value for none.  The     *)
(* owner created at the start has an address.  A step list has steps.  The  *)
(* limits of a page are positive, and there are finitely many rows.         *)
ASSUME AgentsAssumption ==
  /\ \E f \in [Seeded -> Names] : \A b, d \in Seeded : b # d => f[b] # f[d]
  /\ Values # {} /\ DefaultVersion \in Versions
  /\ Bodies \subseteq Agent!Row /\ None \notin Agent!Row
  /\ \A p \in Patches, r \in Agent!Row : Agent!merge(p, r) \in Agent!Row

ASSUME UsersAssumption == MaxUsers \in Nat /\ OwnerEmail \in Emails /\ None \notin User!Row

ASSUME ListsAssumption == \A l \in Lists : Len(l) \in Nat \ {0} /\ DOMAIN l = 1 .. Len(l)

ASSUME PagesAssumption ==
  /\ {MaxRows, MaxTime} \subseteq Nat /\ {DefaultLimit, MaxLimit} \subseteq Nat \ {0}
  /\ Limits \ {None} \subseteq Int /\ None \notin List!Row
  /\ \A S \in SUBSET List!Row : List!Cardinality(S) \in Nat
-----------------------------------------------------------------------------
Init ==
  /\ part \in Parts
  /\ Agent!Init /\ Pipe!Init /\ Note!Init
  /\ User!Init /\ (part # "users" => ~sso)
  /\ List!Init /\ (part # "lists" => kind = "sessions")

AgentPart ==
  /\ part = "agents" /\ Agent!Next
  /\ UNCHANGED <<part, pipeVars, userVars, listVars, noteVars>>

PipePart ==
  /\ part = "pipelines" /\ Pipe!Next
  /\ UNCHANGED <<part, agentVars, userVars, listVars, noteVars>>

UserPart ==
  /\ part = "users" /\ User!Next
  /\ UNCHANGED <<part, agentVars, pipeVars, listVars, noteVars>>

ListPart ==
  /\ part = "lists" /\ List!Next
  /\ UNCHANGED <<part, agentVars, pipeVars, userVars, noteVars>>

NotePart ==
  /\ part = "notifications" /\ Note!Next
  /\ UNCHANGED <<part, agentVars, pipeVars, userVars, listVars>>

Next == AgentPart \/ PipePart \/ UserPart \/ ListPart \/ NotePart

Spec == Init /\ [][Next]_vars
-----------------------------------------------------------------------------
(* A snapshot stored for a version is a content the agent had in that      *)
(* version, although it is read before it is written (agents.go:418-423).  *)
SnapshotsAreTrue == Agent!SnapshotsAreTrue

(* The steps of a pipeline are those of one request, unless requests that  *)
(* overlap or fail wrote them (pipelines.go:662-690).                      *)
StepsAreOneRequest == Pipe!StepsAreOneRequest

(* An owner remains unless one resigns or requests overlap                 *)
(* (user_handlers.go:431-474, main.go:1026).                               *)
OwnerRemains == User!OwnerRemains

(* A walk over the pages of sessions misses and repeats none that stays    *)
(* (store.go:434-465).                                                     *)
SessionsListedOnce == List!SessionsListedOnce

(* A tab that does not read costs the other tabs nothing (sse.go:61-77).   *)
SlowTabHurtsNobody == Note!SlowTabHurtsNobody
=============================================================================
