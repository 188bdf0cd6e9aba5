----------------------------- MODULE CatalogProofs -----------------------------
(***************************************************************************)
(* Theorems about the parts of MCCatalog, for any number of concurrent     *)
(* requests, agents, pipelines, accounts, tabs and events.                 *)
(***************************************************************************)
EXTENDS MCCatalog, TLAPS

-----------------------------------------------------------------------------
(***************************************************************************)
(* The notifications.                                                      *)
(***************************************************************************)

Emitter == [pc : {"idle", "prefs", "broadcast", "walk", "send"}, id : Nat, kind : Kinds \cup {None},
            left : SUBSET Tabs, cur : Tabs \cup {None}, owed : SUBSET Tabs, parted : BOOLEAN]

NoteTypes ==
  /\ em \in [Emitters -> Emitter] /\ events \in Nat
  /\ clients \subseteq Tabs /\ clients \cap closed = {}

(* A walk still comes to every tab it owes the notification, and its        *)
(* entries are open; the channel it sends to is closed only if a tab was    *)
(* closed meanwhile.                                                        *)
WalkOK(w) ==
  /\ w.pc \in {"walk", "send"} => w.left \cap closed = {}
  /\ w.pc = "walk" => w.owed \subseteq w.left
  /\ w.pc = "send" => w.owed \subseteq w.left \cup {w.cur} /\ w.cur \in Tabs
  /\ w.pc = "send" /\ w.cur \in closed => w.parted = TRUE

(* SlowTabHurtsNobody made inductive. *)
NoteInv ==
  /\ NoteTypes
  /\ \A e \in Emitters : WalkOK(em[e])
  /\ \A s \in skipped : s.parted = TRUE

(* An emitter goes on as w. *)
LEMMA EmitterMoves ==
  ASSUME NoteInv, NEW e \in Emitters, NEW w \in Emitter, WalkOK(w),
         em' = [em EXCEPT ![e] = w], events' \in Nat,
         \A s \in skipped' : s.parted = TRUE, UNCHANGED <<clients, closed>>
  PROVE  NoteInv'
<1>1. em' \in [Emitters -> Emitter]
  BY DEF NoteInv, NoteTypes
<1>2. ASSUME NEW f \in Emitters PROVE WalkOK(em[f])'
  <2>1. WalkOK(em'[f])
    BY DEF NoteInv, NoteTypes
  <2> QED BY <2>1 DEF WalkOK
<1> QED BY <1>1, <1>2 DEF NoteInv, NoteTypes

(* One step of an emitter, a tab or the API. *)
LEMMA NoteStep ==
  ASSUME NoteInv, [Note!Next]_(Note!vars)
  PROVE  NoteInv'
<1>1. /\ em \in [Emitters -> Emitter] /\ events \in Nat
      /\ clients \subseteq Tabs /\ clients \cap closed = {}
      /\ \A s \in skipped : s.parted = TRUE
  BY DEF NoteInv, NoteTypes
<1>2. Note!Idle \in Emitter /\ Note!Idle.pc = "idle"
  BY DEF Note!Idle, Emitter
<1>3. ASSUME NEW e \in Emitters, NEW k \in Kinds, Note!Emit(e, k)
      PROVE  NoteInv'
  <2> DEFINE w == [Note!Idle EXCEPT !.pc = "prefs", !.id = events + 1, !.kind = k]
  <2>1. /\ em' = [em EXCEPT ![e] = w] /\ events' = events + 1
        /\ UNCHANGED <<clients, closed, skipped>>
    BY <1>3 DEF Note!Emit
  <2>2. w \in Emitter /\ w.pc = "prefs"
    <3>1. events + 1 \in Nat
      BY <1>1
    <3> QED BY <1>2, <3>1, Zenon DEF Emitter
  <2> HIDE DEF w
  <2>3. WalkOK(w)
    BY <2>2 DEF WalkOK
  <2>4. events' \in Nat
    BY <1>1, <2>1
  <2> QED BY <1>1, <2>1, <2>2, <2>3, <2>4, EmitterMoves, Zenon
<1>4. ASSUME NEW e \in Emitters, Note!ReadPreferences(e)
      PROVE  NoteInv'
  <2> DEFINE w == [em[e] EXCEPT !.pc = "broadcast"]
  <2>1. /\ em' = [em EXCEPT ![e] = w] \/ em' = [em EXCEPT ![e] = Note!Idle]
        /\ UNCHANGED <<clients, closed, skipped, events>>
    BY <1>4, Zenon DEF Note!ReadPreferences
  <2>2. w \in Emitter /\ w.pc = "broadcast"
    <3>1. em[e] \in Emitter
      BY <1>1
    <3> QED BY <3>1 DEF Emitter
  <2> HIDE DEF w
  <2>3. WalkOK(w) /\ WalkOK(Note!Idle)
    BY <1>2, <2>2 DEF WalkOK
  <2> QED BY <1>1, <1>2, <2>1, <2>2, <2>3, EmitterMoves, Zenon
<1>5. ASSUME NEW e \in Emitters, Note!Broadcast(e)
      PROVE  NoteInv'
  <2> DEFINE w == [em[e] EXCEPT !.pc = "walk", !.left = clients, !.owed = clients]
  <2>1. em' = [em EXCEPT ![e] = w] /\ UNCHANGED <<clients, closed, skipped, events>>
    BY <1>1, <1>5, Zenon DEF Note!Broadcast
  <2>2. w \in Emitter /\ w.pc = "walk" /\ w.left = clients /\ w.owed = clients
    <3>1. em[e] \in Emitter
      BY <1>1
    <3> QED BY <1>1, <3>1, Zenon DEF Emitter
  <2> HIDE DEF w
  <2>3. WalkOK(w)
    BY <1>1, <2>2 DEF WalkOK
  <2> QED BY <1>1, <2>1, <2>2, <2>3, EmitterMoves, Zenon
<1>6. ASSUME NEW e \in Emitters, Note!NextClient(e)
      PROVE  NoteInv'
  <2>1. em[e].pc = "walk" /\ em[e] \in Emitter /\ WalkOK(em[e])
        /\ UNCHANGED <<clients, closed, skipped, events>>
    BY <1>1, <1>6 DEF Note!NextClient, NoteInv
  <2>2. PICK t \in em[e].left :
          em' = [em EXCEPT ![e] = [em[e] EXCEPT !.pc = "send", !.cur = t, !.left = @ \ {t}]]
    BY <1>1, <1>6, Zenon DEF Note!NextClient
  <2> DEFINE w == [em[e] EXCEPT !.pc = "send", !.cur = t, !.left = @ \ {t}]
  <2>3. t \in Tabs
    BY <2>1 DEF Emitter
  <2>4. /\ w \in Emitter /\ w.pc = "send" /\ w.cur = t
        /\ w.left = em[e].left \ {t} /\ w.owed = em[e].owed
    BY <2>1, <2>3, Zenon DEF Emitter
  <2> HIDE DEF w
  <2>5. WalkOK(w)
    BY <2>1, <2>3, <2>4 DEF WalkOK
  <2> QED BY <1>1, <2>1, <2>2, <2>4, <2>5, EmitterMoves, Zenon DEF w
<1>7. ASSUME NEW e \in Emitters, Note!SendToClient(e)
      PROVE  NoteInv'
  <2> DEFINE w == [em[e] EXCEPT !.pc = "walk", !.cur = None, !.owed = @ \ {em[e].cur}]
  <2>1. em[e].pc = "send" /\ em[e] \in Emitter /\ WalkOK(em[e])
        /\ UNCHANGED <<clients, closed, skipped, events>>
    BY <1>1, <1>7 DEF Note!SendToClient, NoteInv
  <2>2. em' = [em EXCEPT ![e] = w]
    BY <1>1, <1>7, Zenon DEF Note!SendToClient
  <2>3. /\ w \in Emitter /\ w.pc = "walk"
        /\ w.left = em[e].left /\ w.owed = em[e].owed \ {em[e].cur}
    BY <2>1, Zenon DEF Emitter
  <2> HIDE DEF w
  <2>4. WalkOK(w)
    BY <2>1, <2>3 DEF WalkOK
  <2> QED BY <1>1, <2>1, <2>2, <2>3, <2>4, EmitterMoves, Zenon
<1>8. ASSUME NEW e \in Emitters, Note!Finish(e), em[e].owed = {} \/ em[e].parted = TRUE,
             UNCHANGED <<clients, closed, events>>
      PROVE  NoteInv'
  <2>1. \A s \in skipped' : s.parted = TRUE
    BY <1>1, <1>8 DEF Note!Finish
  <2>2. em' = [em EXCEPT ![e] = Note!Idle] /\ WalkOK(Note!Idle)
    BY <1>2, <1>8 DEF Note!Finish, WalkOK
  <2> QED BY <1>1, <1>2, <1>8, <2>1, <2>2, EmitterMoves, Zenon
<1>9. ASSUME NEW e \in Emitters, Note!SendPanics(e)
      PROVE  NoteInv'
  <2>1. em[e].parted = TRUE
    BY <1>9 DEF Note!SendPanics, NoteInv, WalkOK
  <2> QED BY <1>8, <1>9, <2>1, Zenon DEF Note!SendPanics
<1>10. ASSUME NEW e \in Emitters, Note!WalkEnds(e)
       PROVE  NoteInv'
  <2>1. em[e].owed = {}
    BY <1>10 DEF Note!WalkEnds, NoteInv, WalkOK
  <2> QED BY <1>8, <1>10, <2>1, Zenon DEF Note!WalkEnds
<1>11. ASSUME NEW t \in Tabs, Note!Subscribe(t)
       PROVE  NoteInv'
  <2>1. PICK S \in SUBSET {e \in Emitters : em[e].pc \in {"walk", "send"}} :
          em' = [e \in Emitters |-> IF e \in S THEN [em[e] EXCEPT !.left = @ \cup {t}] ELSE em[e]]
    BY <1>11, Zenon DEF Note!Subscribe
  <2>2. t \notin closed /\ clients' = clients \cup {t} /\ UNCHANGED <<closed, skipped, events>>
    BY <1>11 DEF Note!Subscribe
  <2>3. ASSUME NEW e \in Emitters
        PROVE  em'[e] \in Emitter /\ WalkOK(em[e])'
    <3> DEFINE w == [em[e] EXCEPT !.left = @ \cup {t}]
    <3>1. em[e] \in Emitter /\ WalkOK(em[e])
      BY <1>1 DEF NoteInv
    <3>2. /\ w \in Emitter /\ w.pc = em[e].pc /\ w.left = em[e].left \cup {t}
          /\ w.owed = em[e].owed /\ w.cur = em[e].cur /\ w.parted = em[e].parted
      BY <3>1 DEF Emitter
    <3>3. em'[e] = w \/ em'[e] = em[e]
      BY <2>1
    <3> HIDE DEF w
    <3>4. em'[e] \in Emitter
      BY <3>1, <3>2, <3>3
    <3>5. CASE em'[e] = em[e]
      BY <2>2, <3>1, <3>5 DEF WalkOK
    <3>6. CASE em'[e] = w
      BY <2>2, <3>1, <3>2, <3>6 DEF WalkOK
    <3> QED BY <3>3, <3>4, <3>5, <3>6
  <2>4. em' \in [Emitters -> Emitter]
    BY <2>1, <2>3
  <2> QED BY <1>1, <2>2, <2>3, <2>4 DEF NoteInv, NoteTypes
<1>12. ASSUME NEW t \in Tabs, Note!Unsubscribe(t)
       PROVE  NoteInv'
  <2>1. /\ em' = [e \in Emitters |->
                    IF em[e].pc \in {"walk", "send"}
                    THEN [em[e] EXCEPT !.left = @ \ {t}, !.owed = @ \ {t}, !.parted = TRUE]
                    ELSE em[e]]
        /\ clients' = clients \ {t} /\ closed' = closed \cup {t} /\ UNCHANGED <<skipped, events>>
    BY <1>12, Zenon DEF Note!Unsubscribe
  <2>2. ASSUME NEW e \in Emitters
        PROVE  em'[e] \in Emitter /\ WalkOK(em[e])'
    <3> DEFINE w == [em[e] EXCEPT !.left = @ \ {t}, !.owed = @ \ {t}, !.parted = TRUE]
    <3>1. em[e] \in Emitter /\ WalkOK(em[e])
      BY <1>1 DEF NoteInv
    <3>2. /\ w \in Emitter /\ w.pc = em[e].pc /\ w.left = em[e].left \ {t}
          /\ w.owed = em[e].owed \ {t} /\ w.cur = em[e].cur /\ w.parted = TRUE
      BY <3>1, Zenon DEF Emitter
    <3>3. em'[e] = IF em[e].pc \in {"walk", "send"} THEN w ELSE em[e]
      BY <2>1, Zenon
    <3> HIDE DEF w
    <3>4. em'[e] \in Emitter
      BY <3>1, <3>2, <3>3
    <3>5. CASE em[e].pc \in {"walk", "send"}
      BY <2>1, <3>1, <3>2, <3>3, <3>5, Zenon DEF WalkOK
    <3>6. CASE em[e].pc \notin {"walk", "send"}
      <4>1. em'[e].pc \notin {"walk", "send"}
        BY <3>3, <3>6
      <4> QED BY <3>4, <4>1 DEF WalkOK
    <3> QED BY <3>4, <3>5, <3>6
  <2>3. em' \in [Emitters -> Emitter]
    BY <2>1, <2>2, Zenon
  <2> QED BY <1>1, <2>1, <2>2, <2>3, Zenon DEF NoteInv, NoteTypes
<1>13. CASE Note!ConcurrentMapWrite
  <2>1. /\ em' = [e \in Emitters |-> Note!Idle] /\ clients' = {}
        /\ UNCHANGED <<skipped, events>>
    BY <1>13 DEF Note!ConcurrentMapWrite
  <2>2. \A e \in Emitters : em'[e] = Note!Idle /\ WalkOK(em[e])'
    BY <1>2, <2>1 DEF WalkOK
  <2> QED BY <1>1, <1>2, <2>1, <2>2 DEF NoteInv, NoteTypes
<1>14. CASE UNCHANGED <<em, clients, closed, skipped, events>>
  BY <1>14 DEF NoteInv, NoteTypes, WalkOK
<1>15. ASSUME \/ \E t \in Tabs : Note!StreamNotification(t)
              \/ \E id \in 1 .. MaxEvents : Note!MarkRead(id)
              \/ \E p \in Settings : Note!UpdatePreferences(p)
              \/ Note!MarkAllRead \/ UNCHANGED Note!vars
       PROVE  UNCHANGED <<em, clients, closed, skipped, events>>
  BY <1>15 DEF Note!StreamNotification, Note!MarkRead, Note!UpdatePreferences, Note!MarkAllRead, Note!vars
<1> QED
  BY <1>3, <1>4, <1>5, <1>6, <1>7, <1>9, <1>10, <1>11, <1>12, <1>13, <1>14, <1>15 DEF Note!Next

(* A notification passes over no tab for the sake of another one: a walk    *)
(* ends with every tab served that was there at its start and stayed, or a  *)
(* tab was closed during it (SSEHub.Broadcast).                             *)
THEOREM SlowTabsDoNotMatter == Spec => []SlowTabHurtsNobody
<1>1. Init => NoteInv
  <2> SUFFICES ASSUME Init PROVE NoteInv
    OBVIOUS
  <2>1. /\ em = [e \in Emitters |-> Note!Idle] /\ events = 0 /\ clients = {} /\ closed = {}
        /\ skipped = {}
    BY DEF Init, Note!Init
  <2>2. Note!Idle \in Emitter /\ Note!Idle.pc = "idle"
    BY DEF Note!Idle, Emitter
  <2> QED BY <2>1, <2>2 DEF NoteInv, NoteTypes, WalkOK
<1>2. NoteInv /\ [Next]_vars => NoteInv'
  <2> SUFFICES ASSUME NoteInv, [Next]_vars PROVE NoteInv'
    OBVIOUS
  <2>1. [Note!Next]_(Note!vars)
    BY DEF Next, AgentPart, PipePart, UserPart, ListPart, NotePart, vars, noteVars, Note!vars
  <2> QED BY <2>1, NoteStep
<1>3. NoteInv => SlowTabHurtsNobody
  BY DEF NoteInv, SlowTabHurtsNobody, Note!SlowTabHurtsNobody
<1> QED BY <1>1, <1>2, <1>3, PTL DEF Spec

-----------------------------------------------------------------------------
(***************************************************************************)
(* The accounts.                                                           *)
(***************************************************************************)

Caller == [pc : {"idle", "handler"}, caller : User!Users \cup {None},
           role : User!ValidRoles \cup {None}, email : Emails \cup {None}]

UserRows ==
  /\ users \in [User!Users -> User!Row \cup {None}]
  /\ members \in Nat /\ \A u \in User!Here : u <= members

UserTypes ==
  /\ UserRows
  /\ userReq \in [Clients -> Caller]
  /\ tokens \subseteq User!Users

(* OwnerRemains made inductive: a handler runs for a row that was read. *)
UserInv ==
  /\ UserTypes
  /\ OwnerRemains
  /\ \A c \in Clients : userReq[c].pc = "handler" =>
       userReq[c].caller \in User!Users /\ userReq[c].role \in User!ValidRoles

(* Only an owner has an owner's permissions (HasPermission). *)
LEMMA OwnersPermission ==
  ASSUME NEW r \in User!ValidRoles, User!HasPermission(r, "owner")
  PROVE  r = "owner"
BY DEF User!HasPermission, User!RoleLevel, User!ValidRoles

(* CreateWithPassword gives a row or changes the password of one: it takes  *)
(* no role from anybody, and the first row it inserts has the role it is    *)
(* given.                                                                   *)
LEMMA CreateKeepsRoles ==
  ASSUME UserRows, NEW e \in Emails, NEW r \in User!ValidRoles, NEW p \in Passwords,
         User!CreateWithPassword(e, r, p)
  PROVE  /\ UserRows'
         /\ User!Owners \subseteq User!Owners'
         /\ User!Here = {} /\ r = "owner" => User!Owners' # {}
<1>1. CASE \E u \in User!Here : users[u].email = e
  <2>1. /\ users' = [u \in User!Users |->
                       IF u \in User!Here /\ users[u].email = e
                       THEN [users[u] EXCEPT !.password = p, !.provider = "local"] ELSE users[u]]
        /\ UNCHANGED members
    BY <1>1, Zenon DEF User!CreateWithPassword
  <2>2. ASSUME NEW u \in User!Users
        PROVE  /\ u \notin User!Here => users'[u] = None
               /\ u \in User!Here => users'[u] \in User!Row /\ users'[u].role = users[u].role
    <3>1. u \in User!Here => users[u] \in User!Row
      BY DEF UserRows, User!Here
    <3> QED BY <2>1, <3>1, Zenon DEF User!Row, User!Here
  <2>3. UserRows'
    BY <2>1, <2>2, UsersAssumption, Zenon DEF UserRows, User!Here
  <2>4. User!Owners \subseteq User!Owners'
    BY <2>2, UsersAssumption DEF User!Owners, User!Here
  <2> QED BY <1>1, <2>3, <2>4
<1>2. CASE ~ \E u \in User!Here : users[u].email = e
  <2> DEFINE w == [email |-> e, role |-> r, password |-> p, provider |-> "local"]
  <2>1. /\ members < MaxUsers /\ members' = members + 1
        /\ users' = [users EXCEPT ![members + 1] = w]
    BY <1>2 DEF User!CreateWithPassword
  <2>2. w \in User!Row /\ w.role = r
    BY DEF User!Row
  <2> HIDE DEF w
  <2>3. members + 1 \in User!Users /\ members + 1 \notin User!Here
    BY <2>1, UsersAssumption DEF UserRows, User!Users
  <2>4. UserRows'
    BY <2>1, <2>2, <2>3, UsersAssumption DEF UserRows, User!Here, User!Users
  <2>5. users'[members + 1] = w /\ w # None
    BY <2>1, <2>2, <2>3, UsersAssumption DEF UserRows
  <2>6. \A u \in User!Here : users'[u] = users[u]
    BY <2>1, <2>3 DEF UserRows, User!Here
  <2>7. User!Owners \subseteq User!Owners'
    BY <2>6 DEF User!Owners, User!Here
  <2>8. r = "owner" => members + 1 \in User!Owners'
    BY <2>2, <2>3, <2>5 DEF User!Owners, User!Here
  <2> QED BY <2>4, <2>7, <2>8
<1> QED BY <1>1, <1>2

(* The single sign-on keeps the table in form (UpsertFromOIDC). *)
LEMMA UpsertKeepsRows ==
  ASSUME UserRows, NEW known \in {{}} \cup {{u} : u \in User!Here}, User!UpsertFromOIDC(known)
  PROVE  UserRows'
<1>1. CASE UNCHANGED <<users, members>>
  BY <1>1 DEF UserRows, User!Here
<1>2. CASE /\ users' = [u \in User!Users |-> IF u \in known THEN [users[u] EXCEPT !.email = None] ELSE users[u]]
           /\ UNCHANGED members
  <2>1. known \subseteq User!Here
    OBVIOUS
  <2>2. ASSUME NEW u \in User!Users
        PROVE  /\ u \notin User!Here => users'[u] = None
               /\ u \in User!Here => users'[u] \in User!Row
    <3>1. u \in User!Here => users[u] \in User!Row
      BY DEF UserRows, User!Here
    <3> QED BY <1>2, <2>1, <3>1 DEF User!Row, User!Here
  <2> QED BY <1>2, <2>2, UsersAssumption DEF UserRows, User!Here
<1>3. CASE /\ members < MaxUsers /\ members' = members + 1
           /\ users' = [users EXCEPT ![members + 1] = [email |-> None, role |-> "viewer",
                                                       password |-> None, provider |-> "oidc"]]
  <2> DEFINE w == [email |-> None, role |-> "viewer", password |-> None, provider |-> "oidc"]
  <2>1. w \in User!Row
    BY DEF User!Row, User!ValidRoles
  <2>2. users' = [users EXCEPT ![members + 1] = w]
    BY <1>3
  <2> HIDE DEF w
  <2> QED BY <1>3, <2>1, <2>2, UsersAssumption DEF UserRows, User!Here, User!Users
<1> QED BY <1>1, <1>2, <1>3 DEF User!UpsertFromOIDC

(* A caller that answers without an overlap is an owner when the handler    *)
(* asked for an owner's permissions.                                        *)
LEMMA CallerIsOwner ==
  ASSUME UserInv, NEW c \in Clients, userReq[c].pc = "handler",
         User!HasPermission(userReq[c].role, "owner"), User!Answer(c), ~overlap'
  PROVE  userReq[c].caller \in User!Owners
<1>1. userReq[c].caller \in User!Users /\ userReq[c].role = "owner"
  BY OwnersPermission DEF UserInv
<1>2. users[userReq[c].caller] # None /\ users[userReq[c].caller].role = userReq[c].role
  BY Zenon DEF User!Answer
<1> QED BY <1>1, <1>2 DEF User!Owners, User!Here

(* An answered request leaves the others as they are. *)
LEMMA AnswerKeepsCallers ==
  ASSUME UserInv, NEW c \in Clients, userReq' = [userReq EXCEPT ![c] = User!Idle]
  PROVE  /\ userReq' \in [Clients -> Caller]
         /\ (\A d \in Clients : userReq[d].pc = "handler" =>
               userReq[d].caller \in User!Users /\ userReq[d].role \in User!ValidRoles)'
<1>1. User!Idle \in Caller /\ User!Idle.pc = "idle"
  BY DEF User!Idle, Caller
<1> QED BY <1>1 DEF UserInv, UserTypes

(* One step of a request, of the sign-in or of a start of Nexus. *)
LEMMA UserStep ==
  ASSUME UserInv, [User!Next]_(User!vars)
  PROVE  UserInv'
<1> DEFINE Callers == \A c \in Clients : userReq[c].pc = "handler" =>
                        userReq[c].caller \in User!Users /\ userReq[c].role \in User!ValidRoles
<1>1. /\ UserRows /\ userReq \in [Clients -> Caller] /\ tokens \subseteq User!Users
      /\ OwnerRemains /\ Callers
  BY DEF UserInv, UserTypes
<1>2. ASSUME UserRows', userReq' \in [Clients -> Caller], tokens' \subseteq User!Users,
             OwnerRemains', Callers'
      PROVE  UserInv'
  BY <1>2 DEF UserInv, UserTypes
<1> HIDE DEF Callers
<1>3. CASE User!Bootstrap
  <2>1. userReq' = [c \in Clients |-> User!Idle] /\ UNCHANGED <<sso, tokens, overlap, resigned>>
    BY <1>3 DEF User!Bootstrap
  <2>2. userReq' \in [Clients -> Caller] /\ Callers'
    <3>1. User!Idle \in Caller /\ User!Idle.pc = "idle"
      BY DEF User!Idle, Caller
    <3> QED BY <2>1, <3>1 DEF Callers
  <2>3. CASE User!Owners = {}
    <3>1. PICK p \in Passwords : User!CreateWithPassword(OwnerEmail, "owner", p)
      BY <1>3, <2>3 DEF User!Bootstrap
    <3>2. UserRows' /\ (User!Here = {} => User!Owners' # {})
      BY <1>1, <3>1, CreateKeepsRoles, UsersAssumption DEF User!ValidRoles
    <3>3. members = 0 => User!Here = {}
      BY <1>1, UsersAssumption DEF UserRows, User!Here, User!Users
    <3>4. OwnerRemains'
      BY <1>1, <2>1, <2>3, <3>2, <3>3 DEF OwnerRemains, User!OwnerRemains
    <3> QED BY <1>1, <1>2, <2>1, <2>2, <3>2, <3>4
  <2>4. CASE User!Owners # {}
    <3>1. UNCHANGED <<users, members>>
      BY <1>3, <2>4 DEF User!Bootstrap
    <3>2. UserRows' /\ OwnerRemains'
      BY <1>1, <2>1, <3>1 DEF UserRows, OwnerRemains, User!OwnerRemains, User!Owners, User!Here
    <3> QED BY <1>1, <1>2, <2>1, <2>2, <3>2
  <2> QED BY <2>3, <2>4
<1>4. ASSUME UNCHANGED <<sso, users, members, overlap, resigned>>, tokens' \subseteq User!Users,
             userReq' \in [Clients -> Caller], Callers'
      PROVE  UserInv'
  <2>1. UserRows' /\ OwnerRemains'
    BY <1>1, <1>4 DEF UserRows, OwnerRemains, User!OwnerRemains, User!Owners, User!Here
  <2> QED BY <1>2, <1>4, <2>1
<1>5. ASSUME NEW u \in User!Users, User!Login(u) \/ User!Expire(u)
      PROVE  UserInv'
  <2>1. /\ UNCHANGED <<sso, users, members, userReq, overlap, resigned>>
        /\ tokens' \subseteq User!Users
    BY <1>1, <1>5 DEF User!Login, User!Expire
  <2> QED BY <1>1, <1>4, <2>1 DEF Callers
<1>6. ASSUME NEW known \in {{}} \cup {{u} : u \in User!Here}, User!SignOn(known)
      PROVE  UserInv'
  <2>1. sso /\ UNCHANGED <<sso, tokens, userReq, overlap, resigned>> /\ User!UpsertFromOIDC(known)
    BY <1>6 DEF User!SignOn
  <2>2. UserRows'
    BY <1>1, <2>1, UpsertKeepsRows
  <2>3. OwnerRemains'
    BY <2>1 DEF OwnerRemains, User!OwnerRemains
  <2> QED BY <1>1, <1>2, <2>1, <2>2, <2>3 DEF Callers
<1>7. ASSUME NEW c \in Clients, User!AuthMiddleware(c)
      PROVE  UserInv'
  <2>1. UNCHANGED <<sso, users, members, tokens, overlap, resigned>>
    BY <1>7 DEF User!AuthMiddleware
  <2>2. PICK u \in (tokens \cap User!Here) \cup User!NewestOwner :
          userReq' = [userReq EXCEPT ![c] = [pc |-> "handler", caller |-> u, role |-> users[u].role,
                                             email |-> users[u].email]]
    BY <1>7, Zenon DEF User!AuthMiddleware
  <2> DEFINE w == [pc |-> "handler", caller |-> u, role |-> users[u].role, email |-> users[u].email]
  <2>3. u \in User!Users /\ users[u] \in User!Row
    BY <1>1 DEF UserRows, User!Here, User!NewestOwner, User!Owners
  <2>4. w \in Caller /\ w.caller = u /\ w.role \in User!ValidRoles
    BY <2>3 DEF Caller, User!Row
  <2>5. userReq' = [userReq EXCEPT ![c] = w]
    BY <2>2
  <2> HIDE DEF w
  <2>6. userReq' \in [Clients -> Caller] /\ Callers'
    BY <1>1, <2>3, <2>4, <2>5 DEF Callers
  <2> QED BY <1>1, <1>4, <2>1, <2>6
<1>8. ASSUME NEW c \in Clients, User!Refuse(c)
      PROVE  UserInv'
  <2>1. /\ userReq' = [userReq EXCEPT ![c] = User!Idle]
        /\ UNCHANGED <<sso, users, members, tokens, overlap, resigned>>
    BY <1>8 DEF User!Refuse
  <2> QED BY <1>1, <1>4, <2>1, AnswerKeepsCallers, Zenon DEF Callers
<1>9. ASSUME NEW c \in Clients, User!Answer(c), UNCHANGED <<sso, tokens>>, UserRows',
             ~overlap' /\ ~resigned' =>
               User!Owners' # {} \/ (User!Owners' = User!Owners /\ members' = members),
             resigned => resigned'
      PROVE  UserInv'
  <2>1. userReq' = [userReq EXCEPT ![c] = User!Idle] /\ (overlap => overlap')
    BY <1>9, Zenon DEF User!Answer
  <2>2. OwnerRemains'
    BY <1>1, <1>9, <2>1 DEF OwnerRemains, User!OwnerRemains
  <2> QED BY <1>1, <1>2, <1>9, <2>1, <2>2, AnswerKeepsCallers, Zenon DEF Callers
<1>10. ASSUME NEW c \in Clients, NEW e \in Emails, NEW r \in User!ValidRoles, NEW p \in Passwords,
              User!handleInviteUser(c, e, r, p)
       PROVE  UserInv'
  <2>1. /\ userReq[c].pc = "handler" /\ User!HasPermission(userReq[c].role, "owner")
        /\ User!CreateWithPassword(e, r, p) /\ User!Answer(c) /\ UNCHANGED <<sso, tokens, resigned>>
    BY <1>10 DEF User!handleInviteUser
  <2>2. UserRows' /\ User!Owners \subseteq User!Owners'
    BY <1>1, <2>1, CreateKeepsRoles
  <2>3. ~overlap' => userReq[c].caller \in User!Owners'
    BY <2>1, <2>2, CallerIsOwner
  <2> QED BY <1>9, <2>1, <2>2, <2>3
<1>11. ASSUME NEW c \in Clients, NEW u \in User!Users, NEW r \in User!ValidRoles,
              User!handleChangeRole(c, u, r)
       PROVE  UserInv'
  <2>1. /\ userReq[c].pc = "handler" /\ User!HasPermission(userReq[c].role, "owner")
        /\ users' = IF u \in User!Here THEN [users EXCEPT ![u] = [users[u] EXCEPT !.role = r]] ELSE users
        /\ User!Answer(c) /\ UNCHANGED <<sso, tokens, members>>
    BY <1>1, <1>11 DEF User!handleChangeRole, UserRows
  <2>2. (resigned => resigned') /\ (u = userReq[c].caller => resigned')
    BY <1>11, Zenon DEF User!handleChangeRole
  <2>3. users \in [User!Users -> User!Row \cup {None}]
    BY <1>1 DEF UserRows
  <2>4. u \in User!Here => [users[u] EXCEPT !.role = r] \in User!Row
    <3>1. u \in User!Here => users[u] \in User!Row
      BY <2>3 DEF User!Here
    <3> QED BY <3>1 DEF User!Row
  <2>5. UserRows'
    <3>1. users' \in [User!Users -> User!Row \cup {None}]
      BY <2>1, <2>3, <2>4
    <3>2. User!Here' = User!Here
      BY <2>1, <2>3, <2>4, UsersAssumption DEF User!Here
    <3> QED BY <1>1, <2>1, <3>1, <3>2 DEF UserRows
  <2>6. \A v \in User!Users : v # u => users'[v] = users[v]
    BY <2>1, <2>3
  <2>7. ~overlap' /\ ~resigned' => userReq[c].caller \in User!Owners'
    <3>1. ~overlap' => userReq[c].caller \in User!Owners
      BY <2>1, CallerIsOwner
    <3> QED BY <2>2, <2>6, <3>1 DEF User!Owners, User!Here
  <2> QED BY <1>9, <2>1, <2>2, <2>5, <2>7
<1>12. ASSUME NEW c \in Clients, NEW u \in User!Users, User!handleDeleteUser(c, u)
       PROVE  UserInv'
  <2>1. /\ userReq[c].pc = "handler" /\ User!HasPermission(userReq[c].role, "owner")
        /\ u # userReq[c].caller /\ users' = [users EXCEPT ![u] = None]
        /\ User!Answer(c) /\ UNCHANGED <<sso, tokens, members, resigned>>
    BY <1>12 DEF User!handleDeleteUser
  <2>2. UserRows'
    BY <1>1, <2>1 DEF UserRows, User!Here
  <2>3. \A v \in User!Users : v # u => users'[v] = users[v]
    BY <1>1, <2>1 DEF UserRows
  <2>4. ~overlap' => userReq[c].caller \in User!Owners'
    <3>1. ~overlap' => userReq[c].caller \in User!Owners
      BY <2>1, CallerIsOwner
    <3> QED BY <2>1, <2>3, <3>1 DEF User!Owners, User!Here
  <2> QED BY <1>9, <2>1, <2>2, <2>4
<1>13. ASSUME NEW c \in Clients, NEW p \in Passwords, User!handleChangePassword(c, p)
       PROVE  UserInv'
  <2> DEFINE u == userReq[c].caller
  <2>1. /\ users' = IF u \in User!Here THEN [users EXCEPT ![u] = [users[u] EXCEPT !.password = p]] ELSE users
        /\ User!Answer(c) /\ UNCHANGED <<sso, tokens, members, resigned>>
    BY <1>1, <1>13 DEF User!handleChangePassword, UserRows
  <2>2. users \in [User!Users -> User!Row \cup {None}]
    BY <1>1 DEF UserRows
  <2>3. u \in User!Here => /\ [users[u] EXCEPT !.password = p] \in User!Row
                           /\ [users[u] EXCEPT !.password = p].role = users[u].role
    <3>1. u \in User!Here => users[u] \in User!Row
      BY <2>2 DEF User!Here
    <3> QED BY <3>1 DEF User!Row
  <2> HIDE DEF u
  <2>4. User!Here' = User!Here /\ users' \in [User!Users -> User!Row \cup {None}]
    BY <2>1, <2>2, <2>3, UsersAssumption DEF User!Here
  <2>5. UserRows'
    BY <1>1, <2>1, <2>4 DEF UserRows
  <2>6. \A v \in User!Here : users'[v].role = users[v].role
    BY <2>1, <2>2, <2>3 DEF User!Here
  <2>7. User!Owners' = User!Owners
    BY <2>4, <2>6 DEF User!Owners
  <2> QED BY <1>9, <2>1, <2>5, <2>7
<1>14. CASE UNCHANGED User!vars
  <2>1. UNCHANGED <<sso, users, members, tokens, userReq, overlap, resigned>>
    BY <1>14 DEF User!vars
  <2> QED BY <1>1, <1>4, <2>1 DEF Callers
<1> QED
  BY <1>3, <1>5, <1>6, <1>7, <1>8, <1>10, <1>11, <1>12, <1>13, <1>14 DEF User!Next

(* Once there has been an owner there is one, unless an owner gave up the   *)
(* own role, a request acted on a row read before it changed, or the        *)
(* accounts come from a single sign-on (handleDeleteUser, handleChangeRole, *)
(* bootstrapOwner).                                                         *)
THEOREM OwnersRemain == Spec => []OwnerRemains
<1>1. Init => UserInv
  <2> SUFFICES ASSUME Init PROVE UserInv
    OBVIOUS
  <2>1. /\ users = [u \in User!Users |-> None] /\ members = 0 /\ tokens = {}
        /\ userReq = [c \in Clients |-> User!Idle]
    BY DEF Init, User!Init
  <2>2. User!Idle \in Caller /\ User!Idle.pc = "idle"
    BY DEF User!Idle, Caller
  <2>3. User!Here = {} /\ UserRows
    BY <2>1 DEF User!Here, UserRows
  <2> QED BY <2>1, <2>2, <2>3 DEF UserInv, UserTypes, OwnerRemains, User!OwnerRemains
<1>2. UserInv /\ [Next]_vars => UserInv'
  <2> SUFFICES ASSUME UserInv, [Next]_vars PROVE UserInv'
    OBVIOUS
  <2>1. [User!Next]_(User!vars)
    BY DEF Next, AgentPart, PipePart, UserPart, ListPart, NotePart, vars, userVars, User!vars
  <2> QED BY <2>1, UserStep
<1>3. UserInv => OwnerRemains
  BY DEF UserInv
<1> QED BY <1>1, <1>2, <1>3, PTL DEF Spec

-----------------------------------------------------------------------------
(***************************************************************************)
(* The agent definitions.                                                  *)
(***************************************************************************)

(* A request has these fields. *)
AgentRequest(q) == q \in [op : {q.op}, pc : {q.pc}, id : {q.id}, row : {q.row}, body : {q.body}]

(* The row of a request may be what a snapshot was decoded to. *)
DecodedRow == [name : Names, builtin : BOOLEAN, version : Versions,
               plain : Values, tools : Values \cup {Agent!Empty}, routing : Values \cup {None},
               schedule : {None, "cron", "trigger"}]

(* What export writes and import reads. *)
Yaml == [name : Names, version : Versions, plain : Values, tools : Values,
         schedule : {None, "cron", "trigger"}]

(* What a request has read, when w is what the rows have been: an update    *)
(* that is about to write a snapshot read a content the row had.            *)
RequestOK(q, w) ==
  /\ AgentRequest(q)
  /\ q.op \in {"update", "rollback", "delete"} => q.id \in Agents
  /\ q.op = "update" => q.body \in Patches
  /\ q.op = "update" /\ q.pc = "snapshot" => q.row \in Agent!Row /\ Agent!Content(q.row) \in w[q.id]
  /\ q.op \in {"update", "rollback"} /\ q.pc \in {"exists", "write"} => q.row \in DecodedRow
  /\ q.op = "rollback" /\ q.pc = "version" => q.row \in Agent!Row
  /\ q.op = "import" => q.body \in Yaml

AgentRows ==
  /\ agents \in [Agents -> Agent!Row \cup {None}]
  /\ was = [a \in Agents |-> was[a]]
  /\ \A a \in Agents : agents[a] # None => Agent!Content(agents[a]) \in was[a]

AgentRequests ==
  /\ agentReq = [c \in Clients |-> agentReq[c]]
  /\ \A c \in Clients : RequestOK(agentReq[c], was)

(* SnapshotsAreTrue made inductive: what is in a row is a content it had,   *)
(* and so is what an update read for its snapshot.                          *)
AgentInv ==
  /\ AgentRows /\ AgentRequests
  /\ \A s \in versions : s.agent \in Agents /\ s.row \in Agent!Row
  /\ SnapshotsAreTrue

(* A request that goes on as q, while the rows keep what they were. *)
LEMMA RequestMoves ==
  ASSUME AgentRequests, NEW c \in Clients, NEW q, RequestOK(q, was'),
         \A a \in Agents : was[a] \subseteq was'[a],
         agentReq' = [agentReq EXCEPT ![c] = q]
  PROVE  AgentRequests'
<1>1. agentReq' = [d \in Clients |-> agentReq'[d]] /\ \A d \in Clients : agentReq'[d] = q \/ agentReq'[d] = agentReq[d]
  BY DEF AgentRequests
<1>2. \A d \in Clients : RequestOK(agentReq[d], was')
  BY DEF AgentRequests, RequestOK
<1>3. \A d \in Clients : RequestOK(agentReq'[d], was')
  BY <1>1, <1>2
<1> QED BY <1>1, <1>3 DEF AgentRequests

(* A request that only reads goes on as q. *)
LEMMA RequestReads ==
  ASSUME AgentInv, NEW c \in Clients, NEW q, RequestOK(q, was),
         agentReq' = [agentReq EXCEPT ![c] = q], UNCHANGED <<agents, versions, was>>
  PROVE  AgentInv'
<1>1. AgentRequests'
  BY RequestMoves, Zenon DEF AgentInv
<1> QED
  BY <1>1 DEF AgentInv, AgentRows, SnapshotsAreTrue, Agent!SnapshotsAreTrue

(* A statement that writes row r (SetRow): what was is kept, and snapshots  *)
(* stay true.                                                               *)
LEMMA RowWritten ==
  ASSUME AgentInv, NEW a \in Agents, NEW r \in Agent!Row, Agent!SetRow(a, r), UNCHANGED versions
  PROVE  /\ AgentRows' /\ SnapshotsAreTrue'
         /\ \A b \in Agents : was[b] \subseteq was'[b]
<1>1. /\ agents' = [agents EXCEPT ![a] = r]
      /\ was' = [was EXCEPT ![a] = was[a] \cup {Agent!Content(r)}]
  BY DEF Agent!SetRow
<1>2. /\ agents \in [Agents -> Agent!Row \cup {None}] /\ was = [b \in Agents |-> was[b]]
      /\ \A b \in Agents : agents[b] # None => Agent!Content(agents[b]) \in was[b]
  BY DEF AgentInv, AgentRows
<1>3. was' = [b \in Agents |-> was'[b]] /\ \A b \in Agents : was[b] \subseteq was'[b]
  BY <1>1, <1>2, Zenon
<1>4. \A b \in Agents : agents[b] # None => agents'[b] # None
  BY <1>1, <1>2, AgentsAssumption
<1>5. AgentRows'
  BY <1>1, <1>2, <1>3 DEF AgentRows
<1>6. SnapshotsAreTrue'
  BY <1>3, <1>4 DEF AgentInv, SnapshotsAreTrue, Agent!SnapshotsAreTrue
<1> QED BY <1>3, <1>5, <1>6

(* The request of c goes on at p with the row r (Goto). *)
Goes(c, p, r, q) ==
  /\ AgentRequest(q) /\ q.op = agentReq[c].op /\ q.id = agentReq[c].id /\ q.body = agentReq[c].body
  /\ q.pc = p /\ q.row = r
  /\ agentReq' = [agentReq EXCEPT ![c] = q]

(* One statement of a request. *)
LEMMA AgentStep ==
  ASSUME AgentInv, [Agent!Next]_(Agent!vars)
  PROVE  AgentInv'
<1>1. /\ AgentRows /\ AgentRequests /\ SnapshotsAreTrue
      /\ \A s \in versions : s.agent \in Agents /\ s.row \in Agent!Row
  BY DEF AgentInv
<1>2. \A w : RequestOK(Agent!Idle, w)
  BY DEF Agent!Idle, RequestOK, AgentRequest
<1>3. agents \in [Agents -> Agent!Row \cup {None}]
  BY <1>1 DEF AgentRows
<1>4. ASSUME NEW c \in Clients
      PROVE  RequestOK(agentReq[c], was) /\ AgentRequest(agentReq[c])
  BY <1>1 DEF AgentRequests, RequestOK
<1>5. ASSUME NEW c \in Clients, NEW code, Agent!Answer(c, code), UNCHANGED <<agents, versions, was>>
      PROVE  AgentInv'
  BY <1>2, <1>5, RequestReads, Zenon DEF Agent!Answer
<1>6. ASSUME NEW c \in Clients, NEW p, NEW r, Agent!Goto(c, p, r)
      PROVE  \E q : Goes(c, p, r, q)
  <2> DEFINE o == agentReq[c]
             q == [o EXCEPT !.pc = p, !.row = r]
  <2>1. agentReq' = [agentReq EXCEPT ![c] = q]
    BY <1>1, <1>6, Zenon DEF Agent!Goto, AgentRequests
  <2>2. /\ AgentRequest(q) /\ q.op = o.op /\ q.id = o.id /\ q.body = o.body
        /\ q.pc = p /\ q.row = r
    <3>1. AgentRequest(o)
      BY <1>4
    <3> HIDE DEF o
    <3> QED BY <3>1, Zenon DEF AgentRequest
  <2> HIDE DEF q
  <2> QED BY <2>1, <2>2, Zenon DEF Goes
<1>7. ASSUME NEW c \in Clients, NEW a \in Agents, NEW op \in {"update", "rollback", "delete"}, NEW b,
             op = "update" => b \in Patches, Agent!Start(c, op, a, b)
      PROVE  AgentInv'
  <2> DEFINE q == [Agent!Idle EXCEPT !.op = op, !.pc = "start", !.id = a, !.body = b]
  <2>1. agentReq' = [agentReq EXCEPT ![c] = q] /\ UNCHANGED <<agents, versions, was>>
    BY <1>7 DEF Agent!Start
  <2>2. AgentRequest(q) /\ q.op = op /\ q.pc = "start" /\ q.id = a /\ q.body = b
    BY Zenon DEF AgentRequest, Agent!Idle
  <2> HIDE DEF q
  <2>3. RequestOK(q, was)
    BY <1>7, <2>2 DEF RequestOK
  <2> QED BY <2>1, <2>3, RequestReads, Zenon
<1>8. ASSUME NEW c \in Clients, NEW a \in Agents, NEW n \in Names, Agent!ExportAgent(c, a, n)
      PROVE  AgentInv'
  <2> DEFINE y == [Agent!convertAgentToYAML(agents[a]) EXCEPT !.name = n]
             q == [Agent!Idle EXCEPT !.op = "import", !.pc = "start", !.body = y]
  <2>1. agents[a] \in Agent!Row
    BY <1>3, <1>8 DEF Agent!ExportAgent
  <2>2. y \in Yaml
    BY <2>1 DEF Agent!Row, Yaml, Agent!convertAgentToYAML
  <2> HIDE DEF y
  <2>3. agentReq' = [agentReq EXCEPT ![c] = q] /\ UNCHANGED <<agents, versions, was>>
    BY <1>8 DEF Agent!ExportAgent, y
  <2>4. AgentRequest(q) /\ q.op = "import" /\ q.pc = "start" /\ q.body = y
    BY Zenon DEF AgentRequest, Agent!Idle
  <2> HIDE DEF q
  <2>5. RequestOK(q, was)
    BY <2>2, <2>4, Zenon DEF RequestOK
  <2> QED BY <2>3, <2>5, RequestReads, Zenon
<1>9. ASSUME NEW c \in Clients, NEW a \in Agents, NEW r \in Agent!Row, NEW code,
             Agent!SetRow(a, r), Agent!Answer(c, code), UNCHANGED versions
      PROVE  AgentInv'
  <2>1. AgentRows' /\ SnapshotsAreTrue' /\ \A b \in Agents : was[b] \subseteq was'[b]
    BY <1>9, RowWritten, Zenon
  <2>2. AgentRequests'
    BY <1>1, <1>2, <1>9, <2>1, RequestMoves, Zenon DEF Agent!Answer
  <2> QED BY <1>1, <1>9, <2>1, <2>2, Zenon DEF AgentInv
<1>10. ASSUME NEW c \in Clients, NEW r \in Bodies, NEW guardrails \in BOOLEAN,
              Agent!CreateAgent(c, r, guardrails)
       PROVE  AgentInv'
  <2>1. /\ UNCHANGED versions /\ r \in Agent!Row
        /\ \/ (\E a \in Agents : Agent!SetRow(a, r)) /\ Agent!Answer(c, 201)
           \/ Agent!Answer(c, 409) /\ UNCHANGED <<agents, was>>
           \/ Agent!Answer(c, 500) /\ UNCHANGED <<agents, was>>
    BY <1>10, AgentsAssumption, ZenonT(60) DEF Agent!CreateAgent, Agent!CreateAgentDefinition
  <2> QED BY <1>5, <1>9, <2>1, ZenonT(60)
<1>11. ASSUME NEW c \in Clients, Agent!ImportLookup(c)
       PROVE  AgentInv'
  <2>1. agentReq[c].op = "import" /\ agentReq[c].body \in Yaml /\ UNCHANGED <<agents, versions, was>>
    BY <1>4, <1>11, Zenon DEF Agent!ImportLookup, Agent!At, RequestOK
  <2>2. CASE Agent!Answer(c, 409)
    BY <1>5, <2>1, <2>2, ZenonT(60)
  <2>3. CASE Agent!Goto(c, "insert", None)
    <3>1. PICK q : Goes(c, "insert", None, q)
      BY <1>6, <2>3
    <3>2. RequestOK(q, was)
      BY <2>1, <3>1 DEF RequestOK, Goes
    <3> QED BY <2>1, <3>1, <3>2, RequestReads, Zenon DEF Goes
  <2> QED BY <1>11, <2>2, <2>3 DEF Agent!ImportLookup
<1>12. ASSUME NEW c \in Clients, Agent!ImportInsert(c)
       PROVE  AgentInv'
  <2>1. agentReq[c].body \in Yaml /\ UNCHANGED versions
    BY <1>4, <1>12, Zenon DEF Agent!ImportInsert, Agent!At, RequestOK
  <2>2. Agent!convertYAMLToAgent(agentReq[c].body) \in Agent!Row
    BY <2>1 DEF Yaml, Agent!Row, Agent!convertYAMLToAgent
  <2> QED BY <1>5, <1>9, <1>12, <2>1, <2>2 DEF Agent!ImportInsert, Agent!CreateAgentDefinition
<1>13. ASSUME NEW c \in Clients, Agent!UpdateSnapshotRead(c)
       PROVE  AgentInv'
  <2> DEFINE r == agents[agentReq[c].id]
             p == IF r = None THEN "read" ELSE "snapshot"
  <2>1. /\ agentReq[c].op = "update" /\ agentReq[c].id \in Agents /\ agentReq[c].body \in Patches
        /\ UNCHANGED <<agents, versions, was>>
    BY <1>4, <1>13, Zenon DEF Agent!UpdateSnapshotRead, Agent!At, RequestOK
  <2>2. r # None => r \in Agent!Row /\ Agent!Content(r) \in was[agentReq[c].id]
    BY <1>1, <1>3, <2>1 DEF AgentRows
  <2>3. PICK q : Goes(c, p, r, q)
    BY <1>6, <1>13, Zenon DEF Agent!UpdateSnapshotRead
  <2>4. RequestOK(q, was)
    BY <2>1, <2>2, <2>3 DEF RequestOK, Goes
  <2> QED BY <2>1, <2>3, <2>4, RequestReads, Zenon DEF Goes
<1>14. ASSUME NEW c \in Clients, Agent!UpdateSnapshotWrite(c)
       PROVE  AgentInv'
  <2> DEFINE id == agentReq[c].id
             r == agentReq[c].row
  <2>1. /\ agentReq[c].op = "update" /\ id \in Agents /\ agentReq[c].body \in Patches
        /\ r \in Agent!Row /\ Agent!Content(r) \in was[id] /\ UNCHANGED <<agents, was>>
    BY <1>4, <1>14, Zenon DEF Agent!UpdateSnapshotWrite, Agent!At, RequestOK
  <2>2. PICK q : Goes(c, "read", None, q)
    BY <1>6, <1>14 DEF Agent!UpdateSnapshotWrite
  <2>3. RequestOK(q, was) /\ agentReq' = [agentReq EXCEPT ![c] = q]
    BY <2>1, <2>2 DEF RequestOK, Goes
  <2>4. versions' = IF agents[id] = None \/ \E s \in versions : s.agent = id /\ s.version = r.version
                    THEN versions ELSE versions \cup {[agent |-> id, version |-> r.version, row |-> r]}
    BY <1>14, Zenon DEF Agent!UpdateSnapshotWrite, Agent!CreateAgentVersion
  <2> HIDE DEF id, r
  <2>5. AgentRequests' /\ AgentRows'
    BY <1>1, <2>1, <2>3, RequestMoves, Zenon DEF AgentRows
  <2>6. ASSUME NEW s \in versions'
        PROVE  /\ s.agent \in Agents /\ s.row \in Agent!Row /\ Agent!Content(s.row) \in was[s.agent]
               /\ s.row.version = s.version /\ agents[s.agent] # None
    <3>1. CASE s \in versions
      BY <1>1, <3>1 DEF SnapshotsAreTrue, Agent!SnapshotsAreTrue
    <3>2. CASE s \notin versions
      <4>1. s = [agent |-> id, version |-> r.version, row |-> r] /\ agents[id] # None
        BY <2>4, <3>2
      <4> QED BY <2>1, <4>1
    <3> QED BY <3>1, <3>2
  <2> QED BY <2>1, <2>5, <2>6 DEF AgentInv, SnapshotsAreTrue, Agent!SnapshotsAreTrue
<1>15. ASSUME NEW c \in Clients, NEW valid \in BOOLEAN, Agent!UpdateRead(c, valid)
       PROVE  AgentInv'
  <2> DEFINE id == agentReq[c].id
             r == Agent!merge(agentReq[c].body, agents[id])
  <2>1. /\ agentReq[c].op = "update" /\ id \in Agents /\ agentReq[c].body \in Patches
        /\ UNCHANGED <<agents, versions, was>>
    BY <1>4, <1>15, Zenon DEF Agent!UpdateRead, Agent!At, RequestOK
  <2>2. CASE \E code : Agent!Answer(c, code)
    BY <1>5, <2>1, <2>2, Zenon
  <2>3. CASE agents[id] # None /\ Agent!Goto(c, "exists", r)
    <3>1. agents[id] \in Agent!Row
      BY <1>3, <2>1, <2>3, Zenon
    <3>2. r \in Agent!Row
      BY <2>1, <3>1, AgentsAssumption
    <3> HIDE DEF r
    <3>3. r \in DecodedRow
      BY <3>2 DEF Agent!Row, DecodedRow
    <3>4. PICK q : Goes(c, "exists", r, q)
      BY <1>6, <2>3
    <3>5. RequestOK(q, was)
      BY <2>1, <3>3, <3>4 DEF RequestOK, Goes
    <3> QED BY <2>1, <3>4, <3>5, RequestReads, Zenon DEF Goes
  <2> QED BY <1>15, <2>2, <2>3, ZenonT(60) DEF Agent!UpdateRead
<1>16. ASSUME NEW c \in Clients, Agent!DefinitionExists(c)
       PROVE  AgentInv'
  <2>1. /\ agentReq[c].op \in {"update", "rollback"} /\ agentReq[c].pc = "exists"
        /\ UNCHANGED <<agents, versions, was>>
        /\ agentReq' = [agentReq EXCEPT ![c] = Agent!Idle] \/ Agent!Goto(c, "write", agentReq[c].row)
    BY <1>16 DEF Agent!DefinitionExists
  <2>2. CASE agentReq' = [agentReq EXCEPT ![c] = Agent!Idle]
    BY <1>2, <2>1, <2>2, RequestReads, Zenon
  <2>3. CASE Agent!Goto(c, "write", agentReq[c].row)
    <3>1. PICK q : Goes(c, "write", agentReq[c].row, q)
      BY <1>6, <2>3
    <3>2. RequestOK(q, was)
      BY <1>4, <2>1, <3>1, Zenon DEF RequestOK, Goes
    <3> QED BY <2>1, <3>1, <3>2, RequestReads, Zenon DEF Goes
  <2> QED BY <2>1, <2>2, <2>3
<1>17. ASSUME NEW c \in Clients, Agent!UpdateWrite(c)
       PROVE  AgentInv'
  <2> DEFINE r == agentReq[c].row
  <2>1. agentReq[c].id \in Agents /\ r \in DecodedRow /\ UNCHANGED versions
    BY <1>4, <1>17, Zenon DEF Agent!UpdateWrite, Agent!At, RequestOK
  <2>2. CASE UNCHANGED <<agents, was>> /\ Agent!Answer(c, 500)
    BY <1>5, <2>1, <2>2
  <2>3. CASE /\ Agent!Accepted(agentReq[c].id, r) /\ Agent!SetRow(agentReq[c].id, r)
             /\ Agent!Answer(c, 200)
    <3>1. r \in Agent!Row
      BY <2>1, <2>3, Zenon DEF Agent!Accepted, DecodedRow, Agent!Row
    <3> QED BY <1>9, <2>1, <2>3, <3>1
  <2> QED BY <1>17, <2>2, <2>3, ZenonT(60) DEF Agent!UpdateWrite
<1>18. ASSUME NEW c \in Clients, NEW p, NEW r, Agent!Goto(c, p, r), UNCHANGED <<agents, versions, was>>,
              \/ agentReq[c].op = "delete"
              \/ agentReq[c].op = "rollback" /\ p = "version" /\ r \in Agent!Row
       PROVE  AgentInv'
  <2>1. PICK q : Goes(c, p, r, q)
    BY <1>6, <1>18, Zenon
  <2>2. RequestOK(q, was)
    BY <1>4, <1>18, <2>1, Zenon DEF RequestOK, Goes
  <2> QED BY <1>18, <2>1, <2>2, RequestReads, Zenon DEF Goes
<1>19. ASSUME NEW c \in Clients, Agent!RollbackRead(c)
       PROVE  AgentInv'
  <2> DEFINE r == agents[agentReq[c].id]
  <2>1. /\ agentReq[c].op = "rollback" /\ agentReq[c].id \in Agents
        /\ UNCHANGED <<agents, versions, was>>
    BY <1>4, <1>19, Zenon DEF Agent!RollbackRead, Agent!At, RequestOK
  <2>2. CASE \E code : Agent!Answer(c, code)
    BY <1>5, <2>1, <2>2, Zenon
  <2>3. CASE r # None /\ Agent!Goto(c, "version", r)
    BY <1>3, <1>18, <2>1, <2>3, Zenon
  <2> QED BY <1>19, <2>2, <2>3, ZenonT(60) DEF Agent!RollbackRead
<1>20. ASSUME NEW c \in Clients, Agent!RollbackVersion(c)
       PROVE  AgentInv'
  <2> DEFINE o == agentReq[c]
             row(s) == [Agent!fromSnapshot(s.row) EXCEPT !.builtin = o.row.builtin]
             q(s) == [o EXCEPT !.pc = "exists", !.body = s.row, !.row = row(s)]
  <2>1. /\ o.op = "rollback" /\ o.id \in Agents /\ o.row \in Agent!Row /\ AgentRequest(o)
        /\ UNCHANGED <<agents, versions, was>>
    BY <1>4, <1>20, Zenon DEF Agent!RollbackVersion, Agent!At, RequestOK
  <2>2. CASE Agent!Answer(c, 404)
    BY <1>5, <2>1, <2>2
  <2>3. CASE \E s \in versions : agentReq' = [agentReq EXCEPT ![c].pc = "exists", ![c].body = s.row, ![c].row = row(s)]
    <3>1. PICK s \in versions : agentReq' = [agentReq EXCEPT ![c].pc = "exists", ![c].body = s.row, ![c].row = row(s)]
      BY <2>3, Zenon
    <3>2. row(s) \in DecodedRow
      <4>1. s.row \in Agent!Row
        BY <1>1
      <4> QED BY <2>1, <4>1, Zenon DEF Agent!Row, DecodedRow, Agent!fromSnapshot
    <3> HIDE DEF row
    <3>3. agentReq' = [agentReq EXCEPT ![c] = q(s)]
      BY <1>1, <3>1, Zenon DEF AgentRequests
    <3>4. AgentRequest(q(s)) /\ q(s).op = o.op /\ q(s).id = o.id /\ q(s).pc = "exists" /\ q(s).row = row(s)
      <4> HIDE DEF o
      <4> QED BY <2>1, Zenon DEF AgentRequest
    <3> HIDE DEF q
    <3>5. RequestOK(q(s), was)
      BY <2>1, <3>2, <3>4, Zenon DEF RequestOK
    <3> QED BY <2>1, <3>3, <3>5, RequestReads, Zenon
  <2> QED BY <1>20, <2>2, <2>3, Zenon DEF Agent!RollbackVersion
<1>21. ASSUME NEW c \in Clients, Agent!RollbackWrite(c)
       PROVE  AgentInv'
  <2> DEFINE r == agentReq[c].row
             q == [agentReq[c] EXCEPT !.pc = "done", !.row = None]
  <2>1. /\ agentReq[c].op = "rollback" /\ agentReq[c].id \in Agents /\ r \in DecodedRow
        /\ UNCHANGED versions /\ AgentRequest(agentReq[c])
    BY <1>4, <1>21 DEF Agent!RollbackWrite, Agent!At, RequestOK
  <2>2. agentReq' = [agentReq EXCEPT ![c] = q]
    BY <1>1, <1>21, Zenon DEF Agent!RollbackWrite, AgentRequests
  <2>3. AgentRequest(q) /\ q.op = "rollback" /\ q.id = agentReq[c].id /\ q.pc = "done"
    BY <2>1, Zenon DEF AgentRequest
  <2> HIDE DEF q
  <2>4. \A w : RequestOK(q, w)
    BY <2>1, <2>3, Zenon DEF RequestOK
  <2>5. CASE UNCHANGED <<agents, was>>
    BY <2>1, <2>2, <2>4, <2>5, RequestReads, Zenon
  <2>6. CASE Agent!Accepted(agentReq[c].id, r) /\ Agent!SetRow(agentReq[c].id, r)
    <3>1. r \in Agent!Row
      BY <2>1, <2>6 DEF Agent!Accepted, DecodedRow, Agent!Row
    <3>2. AgentRows' /\ SnapshotsAreTrue' /\ \A b \in Agents : was[b] \subseteq was'[b]
      BY <2>1, <2>6, <3>1, RowWritten, Zenon
    <3>3. AgentRequests'
      BY <1>1, <2>2, <2>4, <3>2, RequestMoves, Zenon
    <3> QED BY <1>1, <2>1, <3>2, <3>3 DEF AgentInv
  <2> QED BY <1>21, <2>5, <2>6 DEF Agent!RollbackWrite
<1>22. ASSUME NEW c \in Clients, Agent!DeleteRead(c)
       PROVE  AgentInv'
  <2>1. agentReq[c].op = "delete" /\ UNCHANGED <<agents, versions, was>>
    BY <1>22, Zenon DEF Agent!DeleteRead, Agent!At
  <2> QED BY <1>5, <1>18, <1>22, <2>1, ZenonT(60) DEF Agent!DeleteRead
<1>23. ASSUME NEW c \in Clients, Agent!DeleteWrite(c)
       PROVE  AgentInv'
  <2>1. UNCHANGED was /\ agentReq[c].id \in Agents
    BY <1>4, <1>23, Zenon DEF Agent!DeleteWrite, Agent!At, RequestOK
  <2>2. CASE Agent!Answer(c, 500) /\ UNCHANGED <<agents, versions>>
    BY <1>5, <2>1, <2>2
  <2>3. CASE /\ agents' = [agents EXCEPT ![agentReq[c].id] = None]
             /\ versions' = {s \in versions : s.agent # agentReq[c].id}
             /\ Agent!Answer(c, 200)
    <3>1. AgentRequests'
      BY <1>1, <1>2, <2>1, <2>3, RequestMoves, Zenon DEF Agent!Answer
    <3>2. AgentRows'
      BY <1>1, <2>1, <2>3 DEF AgentRows
    <3>3. \A b \in Agents : b # agentReq[c].id => agents'[b] = agents[b]
      BY <1>3, <2>3
    <3>4. SnapshotsAreTrue' /\ \A s \in versions' : s.agent \in Agents /\ s.row \in Agent!Row
      BY <1>1, <2>1, <2>3, <3>3 DEF SnapshotsAreTrue, Agent!SnapshotsAreTrue
    <3> QED BY <3>1, <3>2, <3>4 DEF AgentInv
  <2> QED BY <1>23, <2>2, <2>3, ZenonT(60) DEF Agent!DeleteWrite
<1>24. ASSUME NEW a \in Agents, NEW x \in {None, "cron", "trigger"}, Agent!SetScheduleColumn(a, x)
       PROVE  AgentInv'
  <2> DEFINE r == [agents[a] EXCEPT !.schedule = x]
  <2>1. Agent!SetRow(a, r) /\ UNCHANGED <<versions, agentReq>> /\ agents[a] \in Agent!Row
    BY <1>3, <1>24 DEF Agent!SetScheduleColumn
  <2>2. r \in Agent!Row
    BY <2>1 DEF Agent!Row
  <2> HIDE DEF r
  <2>3. AgentRows' /\ SnapshotsAreTrue' /\ \A b \in Agents : was[b] \subseteq was'[b]
    BY <2>1, <2>2, RowWritten, Zenon
  <2>4. AgentRequests'
    BY <1>1, <2>1, <2>3 DEF AgentRequests, RequestOK
  <2> QED BY <1>1, <2>1, <2>3, <2>4, Zenon DEF AgentInv
<1>25. ASSUME UNCHANGED <<agents, versions, agentReq, was>>
       PROVE  AgentInv'
  BY <1>25 DEF AgentInv, AgentRows, AgentRequests, SnapshotsAreTrue, Agent!SnapshotsAreTrue
<1>26. ASSUME NEW a \in Agents,
              \/ \E parses \in BOOLEAN, next \in {59, 60} : Agent!HandleSetSchedule(a, parses, next)
              \/ Agent!HandleSetTrigger(a) \/ Agent!HandleDeleteSchedule(a) \/ Agent!HandleDeleteTrigger(a)
              \/ Agent!CreateAgentRun(a)
       PROVE  AgentInv'
  BY <1>24, <1>25, <1>26 DEF Agent!HandleSetSchedule, Agent!HandleSetTrigger, Agent!HandleDeleteSchedule,
       Agent!HandleDeleteTrigger, Agent!CreateAgentRun
<1>27. CASE UNCHANGED Agent!vars
  BY <1>25, <1>27 DEF Agent!vars
<1>28. ASSUME NEW c \in Clients, NEW a \in Agents,
              \/ \E n \in Names : Agent!ExportAgent(c, a, n)
              \/ \E p \in Patches : Agent!Start(c, "update", a, p)
              \/ \E v \in Versions : Agent!Start(c, "rollback", a, v)
              \/ Agent!Start(c, "delete", a, None)
       PROVE  AgentInv'
  BY <1>7, <1>8, <1>28
<1> QED
  BY <1>10, <1>11, <1>12, <1>13, <1>14, <1>15, <1>16, <1>17, <1>19, <1>20, <1>21, <1>22, <1>23,
     <1>26, <1>27, <1>28 DEF Agent!Next

(* A snapshot that is stored for a version of an agent is a content that    *)
(* the agent had in that version, and its agent is there, however the       *)
(* statements of concurrent updates, rollbacks and deletions interleave     *)
(* (HandleUpdateAgent reads the row before it writes the snapshot).         *)
THEOREM SnapshotsTrue == Spec => []SnapshotsAreTrue
<1>1. Init => AgentInv
  <2> SUFFICES ASSUME Init PROVE AgentInv
    OBVIOUS
  <2>1. /\ agents = [a \in Agents |-> IF a \in Seeded THEN Agent!SeedRow(a) ELSE None]
        /\ versions = {} /\ agentReq = [c \in Clients |-> Agent!Idle]
        /\ was = [a \in Agents |-> IF agents[a] = None THEN {} ELSE {Agent!Content(agents[a])}]
    BY DEF Init, Agent!Init
  <2>2. ASSUME NEW a \in Seeded PROVE Agent!SeedRow(a) \in Agent!Row
    <3> DEFINE n == CHOOSE f \in [Seeded -> Names] : \A b, d \in Seeded : b # d => f[b] # f[d]
               x == CHOOSE v \in Values : TRUE
    <3>1. n \in [Seeded -> Names] /\ x \in Values
      BY AgentsAssumption
    <3>2. Agent!SeedRow(a) = [name |-> n[a], builtin |-> TRUE, version |-> DefaultVersion, plain |-> x,
                              tools |-> x, routing |-> None, schedule |-> None]
      BY DEF Agent!SeedRow
    <3> HIDE DEF n, x
    <3> QED BY <3>1, <3>2, AgentsAssumption DEF Agent!Row
  <2>3. AgentRows
    BY <2>1, <2>2 DEF AgentRows
  <2>4. AgentRequests
    BY <2>1 DEF AgentRequests, RequestOK, AgentRequest, Agent!Idle
  <2> QED BY <2>1, <2>3, <2>4 DEF AgentInv, SnapshotsAreTrue, Agent!SnapshotsAreTrue
<1>2. AgentInv /\ [Next]_vars => AgentInv'
  <2> SUFFICES ASSUME AgentInv, [Next]_vars PROVE AgentInv'
    OBVIOUS
  <2>1. [Agent!Next]_(Agent!vars)
    BY DEF Next, AgentPart, PipePart, UserPart, ListPart, NotePart, vars, agentVars, Agent!vars
  <2> QED BY <2>1, AgentStep
<1>3. AgentInv => SnapshotsAreTrue
  BY DEF AgentInv
<1> QED BY <1>1, <1>2, <1>3, PTL DEF Spec

-----------------------------------------------------------------------------
(***************************************************************************)
(* The pipelines.                                                          *)
(***************************************************************************)

(* A request has these fields; one that is under way is for a pipeline that *)
(* was there, and its list, when it writes one, has a step to write.        *)
PipeRequest(q, given) ==
  /\ q \in [op : {q.op}, pc : {q.pc}, id : {q.id}, list : {q.list}, next : {q.next},
            head : {q.head}, row : {q.row}, alone : BOOLEAN]
  /\ q.pc # "idle" => q.id \in Ids /\ q.id \in given
  /\ q.pc \in {"update", "clear"} => q.list \in Lists \cup {<<>>} /\ q.next = 1
  /\ q.pc = "clear" => q.list # <<>>
  /\ q.pc = "insert" => q.list \in Lists /\ q.next \in 1 .. Len(q.list)

PipeTypes ==
  /\ pipe = [p \in Ids |-> pipe[p]] /\ steps = [p \in Ids |-> steps[p]]
  /\ last = [p \in Ids |-> last[p]]
  /\ pipeReq = [c \in Clients |-> pipeReq[c]]

(* The first n rows of a step list. *)
First(l, n) == {[order |-> i, step |-> l[i]] : i \in 1 .. n}

(* With the requests R, the pipelines P and the steps S: if c writes the    *)
(* steps alone, it is the only request that writes them, and the rows there *)
(* are are those it has written.                                            *)
Alone(R, P, S, c) ==
  R[c].pc = "insert" /\ R[c].alone = TRUE =>
    /\ \A d \in Clients : R[d].pc = "insert" /\ R[d].id = R[c].id => d = c
    /\ P[R[c].id] # None => S[R[c].id] = First(R[c].list, R[c].next - 1)

(* StepsAreOneRequest, for p. *)
OneRequest(R, P, S, L, T, p) ==
  (/\ P[p] # None /\ p \notin T
   /\ \A c \in Clients : R[c].id = p => R[c].pc \notin {"insert", "undo"})
  => S[p] = Pipe!Rows(L[p])

(* StepsAreOneRequest made inductive. *)
PipeInv ==
  /\ PipeTypes
  /\ \A c \in Clients : PipeRequest(pipeReq[c], ids)
  /\ \A c \in Clients : Alone(pipeReq, pipe, steps, c)
  /\ \A p \in Ids : p \notin ids => steps[p] = {} /\ pipe[p] = None
  /\ \A p \in Ids : OneRequest(pipeReq, pipe, steps, last, torn, p)

(* The rows of a list, one by one. *)
LEMMA FirstGrows ==
  ASSUME NEW l, NEW i \in Nat \ {0}
  PROVE  First(l, i) = First(l, i - 1) \cup {[order |-> i, step |-> l[i]]}
<1>1. 1 .. i = (1 .. (i - 1)) \cup {i}
  OBVIOUS
<1> QED BY <1>1, Zenon DEF First

(* Before the first insert none of the list is in the table. *)
LEMMA FirstEmpty ==
  ASSUME NEW l
  PROVE  First(l, 1 - 1) = {}
<1>1. 1 .. (1 - 1) = {}
  OBVIOUS
<1> QED BY <1>1, Zenon DEF First

(* A step of request c about pipeline p leaves the other pipelines alone:   *)
(* what is left to show is about p.                                         *)
LEMMA PipeFrame ==
  ASSUME PipeInv, PipeTypes', NEW c \in Clients, NEW p \in Ids, NEW q, PipeRequest(q, ids'),
         pipeReq' = [pipeReq EXCEPT ![c] = q],
         pipeReq[c].pc = "idle" \/ pipeReq[c].id = p, q.pc = "idle" \/ q.id = p,
         ids \subseteq ids', ids' \subseteq ids \cup {p}, p \in ids',
         \A o \in Ids \ {p} : /\ pipe'[o] = pipe[o] /\ steps'[o] = steps[o] /\ last'[o] = last[o]
                              /\ o \in torn' <=> o \in torn,
         \A d \in Clients : pipeReq'[d].id = p => Alone(pipeReq', pipe', steps', d),
         OneRequest(pipeReq', pipe', steps', last', torn', p)
  PROVE  PipeInv'
<1>1. /\ \A d \in Clients : pipeReq'[d] = IF d = c THEN q ELSE pipeReq[d]
  BY DEF PipeInv, PipeTypes
<1>2. ASSUME NEW d \in Clients PROVE PipeRequest(pipeReq'[d], ids')
  <2>1. CASE d = c
    BY <1>1, <2>1, Zenon
  <2>2. CASE d # c
    <3>1. pipeReq'[d] = pipeReq[d] /\ PipeRequest(pipeReq[d], ids)
      BY <1>1, <2>2, Zenon DEF PipeInv
    <3>2. pipeReq[d].id \in ids => pipeReq[d].id \in ids'
      BY Zenon
    <3> DEFINE x == pipeReq[d]
    <3> HIDE DEF x
    <3>3. PipeRequest(x, ids) /\ (x.id \in ids => x.id \in ids')
      BY <3>1, <3>2, Zenon DEF x
    <3>4. PipeRequest(x, ids')
      BY <3>3 DEF PipeRequest
    <3> QED BY <3>1, <3>4, Zenon DEF x
  <2> QED BY <2>1, <2>2, Zenon
<1>3. ASSUME NEW d \in Clients PROVE Alone(pipeReq', pipe', steps', d)
  <2>1. CASE pipeReq'[d].pc = "insert" /\ pipeReq'[d].id # p
    <3>1. d # c /\ pipeReq'[d] = pipeReq[d] /\ pipeReq[d].id \in Ids \ {p}
      BY <1>1, <2>1, Zenon DEF PipeInv, PipeRequest
    <3>2. Alone(pipeReq, pipe, steps, d)
      BY DEF PipeInv
    <3>3. ASSUME NEW e \in Clients, pipeReq'[e].pc = "insert", pipeReq'[e].id = pipeReq'[d].id
          PROVE  pipeReq'[e] = pipeReq[e]
      BY <1>1, <2>1, <3>3, Zenon
    <3>4. pipe'[pipeReq[d].id] = pipe[pipeReq[d].id] /\ steps'[pipeReq[d].id] = steps[pipeReq[d].id]
      BY <3>1, Zenon
    <3>5. ASSUME NEW e \in Clients, pipeReq'[e].pc = "insert", pipeReq'[e].id = pipeReq'[d].id, pipeReq[d].alone = TRUE
          PROVE  e = d
      BY <2>1, <3>1, <3>2, <3>3, <3>5, ZenonT(60) DEF Alone
    <3>6. pipeReq[d].alone = TRUE /\ pipe[pipeReq[d].id] # None
          => steps[pipeReq[d].id] = First(pipeReq[d].list, pipeReq[d].next - 1)
      BY <2>1, <3>1, <3>2, Zenon DEF Alone
    <3> QED BY <3>1, <3>4, <3>5, <3>6, Zenon DEF Alone
  <2> QED BY <2>1, Zenon DEF Alone
<1>4. ASSUME NEW o \in Ids \ {p} PROVE OneRequest(pipeReq', pipe', steps', last', torn', o)
  <2>1. OneRequest(pipeReq, pipe, steps, last, torn, o)
    BY DEF PipeInv
  <2>2. ASSUME NEW d \in Clients, pipeReq[d].id = o, pipeReq[d].pc \in {"insert", "undo"}
        PROVE  pipeReq'[d] = pipeReq[d]
    BY <1>1, <2>2, Zenon
  <2> QED BY <2>1, <2>2, Zenon DEF OneRequest
<1>5. \A o \in Ids : o \notin ids' => steps'[o] = {} /\ pipe'[o] = None
  BY DEF PipeInv
<1> QED BY <1>2, <1>3, <1>4, <1>5, Zenon DEF PipeInv

(* A request that neither was writing steps nor is now, and changes none. *)
LEMMA PipeReads ==
  ASSUME PipeInv, PipeTypes', NEW c \in Clients, NEW p \in Ids, NEW q, PipeRequest(q, ids), p \in ids,
         pipeReq' = [pipeReq EXCEPT ![c] = q],
         pipeReq[c].pc = "idle" \/ pipeReq[c].id = p, q.pc = "idle" \/ q.id = p,
         pipeReq[c].pc \notin {"insert", "undo"}, q.pc \notin {"insert", "undo"},
         UNCHANGED <<steps, ids, last>>,
         \A o \in Ids \ {p} : pipe'[o] = pipe[o] /\ (o \in torn' <=> o \in torn),
         pipe'[p] # None => pipe[p] # None /\ (p \in torn => p \in torn')
  PROVE  PipeInv'
<1>1. \A d \in Clients : pipeReq'[d] = IF d = c THEN q ELSE pipeReq[d]
  BY DEF PipeInv, PipeTypes
<1>2. ASSUME NEW d \in Clients, pipeReq'[d].id = p PROVE Alone(pipeReq', pipe', steps', d)
  <2>1. Alone(pipeReq, pipe, steps, d)
    BY DEF PipeInv
  <2>2. \A e \in Clients : pipeReq'[e].pc = "insert" => pipeReq'[e] = pipeReq[e]
    BY <1>1, Zenon
  <2> QED BY <1>2, <2>1, <2>2, Zenon DEF Alone
<1>3. OneRequest(pipeReq', pipe', steps', last', torn', p)
  <2>1. OneRequest(pipeReq, pipe, steps, last, torn, p)
    BY DEF PipeInv
  <2>2. \A e \in Clients : pipeReq[e].pc \in {"insert", "undo"} => pipeReq'[e] = pipeReq[e]
    BY <1>1
  <2> QED BY <2>1, <2>2 DEF OneRequest
<1> QED BY <1>2, <1>3, PipeFrame, Zenon

(* The pipeline of request c is deleted, and the request is answered. *)
LEMMA PipeDeleted ==
  ASSUME PipeInv, NEW c \in Clients, pipeReq[c].pc # "idle",
         Pipe!DeletePipeline(pipeReq[c].id), torn' = torn \ {pipeReq[c].id},
         Pipe!Answer(c), UNCHANGED <<ids, last>>
  PROVE  PipeInv'
<1> DEFINE p == pipeReq[c].id
<1>1. /\ PipeTypes /\ p \in Ids /\ p \in ids
      /\ pipe' = [pipe EXCEPT ![p] = None] /\ steps' = [steps EXCEPT ![p] = {}]
      /\ pipeReq' = [pipeReq EXCEPT ![c] = Pipe!Idle]
  BY DEF PipeInv, PipeRequest, Pipe!DeletePipeline, Pipe!Answer
<1>2. PipeRequest(Pipe!Idle, ids) /\ Pipe!Idle.pc = "idle"
  BY Zenon DEF PipeRequest, Pipe!Idle
<1> HIDE DEF p
<1>3. PipeTypes'
  BY <1>1, Zenon DEF PipeTypes
<1>4. /\ pipe'[p] = None
      /\ \A o \in Ids \ {p} : pipe'[o] = pipe[o] /\ steps'[o] = steps[o]
      /\ \A d \in Clients : pipeReq'[d] = IF d = c THEN Pipe!Idle ELSE pipeReq[d]
  BY <1>1 DEF PipeTypes
<1>5. ASSUME NEW d \in Clients, pipeReq'[d].id = p PROVE Alone(pipeReq', pipe', steps', d)
  <2>1. Alone(pipeReq, pipe, steps, d)
    BY Zenon DEF PipeInv
  <2>2. \A e \in Clients : pipeReq'[e].pc = "insert" => pipeReq'[e] = pipeReq[e]
    BY <1>2, <1>4, Zenon
  <2> QED BY <1>4, <1>5, <2>1, <2>2, Zenon DEF Alone
<1>6. OneRequest(pipeReq', pipe', steps', last', torn', p)
  BY <1>4, Zenon DEF OneRequest
<1>7. \A o \in Ids \ {p} : /\ pipe'[o] = pipe[o] /\ steps'[o] = steps[o] /\ last'[o] = last[o]
                           /\ o \in torn' <=> o \in torn
  BY <1>4 DEF p
<1>8. pipeReq[c].id = p
  BY DEF p
<1>9. PICK q : /\ PipeRequest(q, ids') /\ q.pc = "idle"
               /\ pipeReq' = [pipeReq EXCEPT ![c] = q]
  BY <1>1, <1>2, Zenon
<1> QED BY <1>1, <1>3, <1>5, <1>6, <1>7, <1>8, <1>9, PipeFrame, ZenonT(60)

(* Request c inserts a step, or is refused (InsertStep). *)
LEMMA InsertKeeps ==
  ASSUME PipeInv, NEW c \in Clients, Pipe!InsertStep(c)
  PROVE  PipeInv'
<1> DEFINE o == pipeReq[c]
           p == o.id
           i == o.next
           l == o.list
           q == IF i < Len(l) THEN [o EXCEPT !.next = i + 1] ELSE Pipe!Idle
           new == [order |-> i, step |-> l[i]]
<1>1. /\ PipeTypes /\ PipeRequest(o, ids) /\ o.pc = "insert" /\ p \in Ids /\ p \in ids
      /\ l \in Lists /\ i \in 1 .. Len(l) /\ UNCHANGED <<pipe, ids>>
  BY DEF PipeInv, PipeRequest, Pipe!InsertStep, Pipe!At
<1>2. Len(l) \in Nat \ {0} /\ DOMAIN l = 1 .. Len(l) /\ i \in Nat \ {0}
  <2>1. \A n \in Nat : \A m \in 1 .. n : m \in Nat \ {0}
    OBVIOUS
  <2> HIDE DEF i, l
  <2>2. Len(l) \in Nat \ {0} /\ DOMAIN l = 1 .. Len(l) /\ Len(l) \in Nat
    BY <1>1, ListsAssumption, Zenon
  <2> QED BY <1>1, <2>1, <2>2, Zenon
<1>3. PipeRequest(Pipe!Idle, ids) /\ Pipe!Idle.pc = "idle"
  BY DEF PipeRequest, Pipe!Idle
<1>4. CASE Pipe!StepAccepted(p, i, l[i])
  <2>1. steps' = [steps EXCEPT ![p] = steps[p] \cup {new}]
    BY <1>4 DEF Pipe!InsertStep
  <2>2. CASE i < Len(l)
    <3> DEFINE r == [o EXCEPT !.next = i + 1]
    <3>1. pipeReq' = [pipeReq EXCEPT ![c] = r] /\ UNCHANGED <<last, torn>>
      BY <1>1, <1>4, <2>2 DEF Pipe!InsertStep, PipeTypes
    <3>2. r.pc = "insert" /\ r.id = p /\ r.list = l /\ r.next = i + 1 /\ r.alone = o.alone
      <4> HIDE DEF o, i
      <4> QED BY <1>1 DEF PipeRequest
    <3>3. PipeRequest(r, ids)
      <4>1. \A m, n \in Nat \ {0} : m < n => m + 1 \in 1 .. n
        OBVIOUS
      <4> HIDE DEF o, i, l
      <4>2. i + 1 \in 1 .. Len(l)
        BY <1>2, <2>2, <4>1, Zenon
      <4> QED BY <1>1, <3>2, <4>2 DEF PipeRequest
    <3> HIDE DEF o, p, i, l, r, new
    <3>4. PipeTypes'
      BY <1>1, <2>1, <3>1, Zenon DEF PipeTypes
    <3>5. /\ \A d \in Clients : pipeReq'[d] = IF d = c THEN r ELSE pipeReq[d]
          /\ steps'[p] = steps[p] \cup {new} /\ \A e \in Ids \ {p} : steps'[e] = steps[e]
      BY <1>1, <2>1, <3>1 DEF PipeTypes
    <3>6. ASSUME NEW d \in Clients, pipeReq'[d].id = p PROVE Alone(pipeReq', pipe', steps', d)
      <4>1. Alone(pipeReq, pipe, steps, d) /\ pipeReq[c].pc = "insert" /\ pipeReq[c].id = p
        BY <1>1, Zenon DEF PipeInv, o, p
      <4>2. \A e \in Clients : /\ pipeReq'[e].pc = pipeReq[e].pc /\ pipeReq'[e].id = pipeReq[e].id
                               /\ pipeReq'[e].alone = pipeReq[e].alone
        BY <1>1, <3>2, <3>5, Zenon DEF o, p
      <4>3. CASE d # c
        BY <3>6, <4>1, <4>2, <4>3, Zenon DEF Alone
      <4>4. CASE d = c
        <5>1. First(l, i) = First(l, i - 1) \cup {new}
          BY <1>2, FirstGrows DEF new
        <5>2. r.next - 1 = i
          <6>1. (i + 1) - 1 = i
            BY <1>2
          <6> QED BY <3>2, <6>1, Zenon
        <5>3. o.alone = TRUE /\ pipe[p] # None => steps[p] = First(l, i - 1)
          BY <4>1, <4>4 DEF Alone, o, p, i, l
        <5>4. pipeReq'[c] = r
          BY <3>5
        <5> QED BY <1>1, <3>2, <3>5, <4>1, <4>2, <4>4, <5>1, <5>2, <5>3, <5>4, ZenonT(60) DEF Alone
      <4> QED BY <4>3, <4>4
    <3>7. OneRequest(pipeReq', pipe', steps', last', torn', p)
      BY <3>2, <3>5 DEF OneRequest
    <3>8. pipeReq[c].id = p
      BY DEF o, p
    <3> QED BY <1>1, <3>1, <3>2, <3>3, <3>4, <3>5, <3>6, <3>7, <3>8, PipeFrame, Zenon
  <2>3. CASE ~(i < Len(l))
    <3>1. /\ pipeReq' = [pipeReq EXCEPT ![c] = Pipe!Idle] /\ last' = [last EXCEPT ![p] = l]
          /\ torn' = IF o.alone THEN torn \ {p} ELSE torn \cup {p}
      BY <1>4, <2>3 DEF Pipe!InsertStep, Pipe!Answer
    <3> HIDE DEF o, p, i, l, new
    <3>2. i = Len(l)
      <4>1. i \in 1 .. Len(l)
        BY <1>1, Zenon
      <4>2. \A m, n \in Nat : m \in 1 .. n /\ ~(m < n) => m = n
        OBVIOUS
      <4> QED BY <1>2, <2>3, <4>1, <4>2, Zenon
    <3>3. PipeTypes'
      BY <1>1, <2>1, <3>1, Zenon DEF PipeTypes
    <3>4. /\ \A d \in Clients : pipeReq'[d] = IF d = c THEN Pipe!Idle ELSE pipeReq[d]
          /\ steps'[p] = steps[p] \cup {new} /\ last'[p] = l
          /\ \A e \in Ids \ {p} : steps'[e] = steps[e] /\ last'[e] = last[e]
      BY <1>1, <2>1, <3>1 DEF PipeTypes
    <3>5. pipeReq[c].id = p /\ pipeReq[c].pc = "insert"
      BY <1>1 DEF o, p
    <3>6. ASSUME NEW d \in Clients, pipeReq'[d].id = p PROVE Alone(pipeReq', pipe', steps', d)
      <4>1. Alone(pipeReq, pipe, steps, d)
        BY Zenon DEF PipeInv
      <4> QED BY <1>3, <3>4, <3>5, <3>6, <4>1, Zenon DEF Alone
    <3>7. OneRequest(pipeReq', pipe', steps', last', torn', p)
      <4>1. CASE o.alone = TRUE
        <5>1. pipe[p] # None => steps[p] = First(l, i - 1)
          BY <1>1, <4>1, Zenon DEF PipeInv, Alone, o, p, i, l
        <5>2. First(l, i) = First(l, i - 1) \cup {new}
          BY <1>2, FirstGrows DEF new
        <5>3. First(l, i) = Pipe!Rows(l)
          BY <1>2, <3>2 DEF First, Pipe!Rows
        <5> QED BY <1>1, <3>4, <5>1, <5>2, <5>3, Zenon DEF OneRequest
      <4>2. CASE o.alone # TRUE
        <5>1. o.alone = FALSE
          BY <1>1, <4>2, Zenon DEF PipeRequest
        <5>2. p \in torn'
          BY <3>1, <5>1
        <5> QED BY <5>2 DEF OneRequest
      <4> QED BY <4>1, <4>2, Zenon
    <3>8. \A e \in Ids \ {p} : /\ pipe'[e] = pipe[e] /\ steps'[e] = steps[e] /\ last'[e] = last[e]
                               /\ e \in torn' <=> e \in torn
      BY <1>1, <3>1, <3>4, Zenon
    <3>9. PICK w : PipeRequest(w, ids') /\ w.pc = "idle" /\ pipeReq' = [pipeReq EXCEPT ![c] = w]
      BY <1>1, <1>3, <3>1, Zenon
    <3> QED BY <1>1, <3>3, <3>4, <3>5, <3>6, <3>7, <3>8, <3>9, PipeFrame, Zenon
  <2> QED BY <2>2, <2>3
<1>5. CASE ~Pipe!StepAccepted(p, i, l[i])
  <2>1. /\ \/ o.op = "create" /\ pipeReq' = [pipeReq EXCEPT ![c].pc = "undo"]
           \/ pipeReq' = [pipeReq EXCEPT ![c] = Pipe!Idle]
        /\ torn' = IF pipe[p] = None THEN torn ELSE torn \cup {p}
        /\ UNCHANGED <<steps, last>>
    BY <1>5 DEF Pipe!InsertStep, Pipe!Answer, Pipe!Goto
  <2> DEFINE r == [o EXCEPT !.pc = "undo"]
  <2>2. PipeRequest(r, ids) /\ r.pc = "undo" /\ r.id = p
    <3>1. r.pc = "undo" /\ r.id = p /\ r.alone = o.alone
      BY <1>1 DEF PipeRequest
    <3> QED BY <1>1, <3>1 DEF PipeRequest
  <2>3. PICK w \in {r, Pipe!Idle} : pipeReq' = [pipeReq EXCEPT ![c] = w]
    BY <1>1, <2>1 DEF PipeTypes
  <2>4. PipeRequest(w, ids) /\ w.pc # "insert" /\ (w.pc = "idle" \/ w.id = p)
    BY <1>3, <2>2, Zenon
  <2> HIDE DEF o, p, i, l, r
  <2>5. PipeTypes'
    BY <1>1, <2>1, <2>3, Zenon DEF PipeTypes
  <2>6. \A d \in Clients : pipeReq'[d] = IF d = c THEN w ELSE pipeReq[d]
    BY <1>1, <2>3 DEF PipeTypes
  <2>7. pipeReq[c].id = p
    BY DEF o, p
  <2>8. ASSUME NEW d \in Clients, pipeReq'[d].id = p PROVE Alone(pipeReq', pipe', steps', d)
    <3>1. Alone(pipeReq, pipe, steps, d)
      BY Zenon DEF PipeInv
    <3> QED BY <1>1, <2>1, <2>4, <2>6, <2>8, <3>1 DEF Alone
  <2>9. OneRequest(pipeReq', pipe', steps', last', torn', p)
    BY <1>1, <2>1 DEF OneRequest
  <2>10. \A e \in Ids \ {p} : e \in torn' <=> e \in torn
    BY <2>1
  <2> QED BY <1>1, <2>1, <2>3, <2>4, <2>5, <2>7, <2>8, <2>9, <2>10, PipeFrame, Zenon
<1> QED BY <1>4, <1>5

(* Request c deletes the steps and is about to write its own: no request    *)
(* that is writing some is alone any more (DeletePipelineSteps).            *)
LEMMA ClearKeeps ==
  ASSUME PipeInv, NEW c \in Clients, Pipe!DeletePipelineSteps(c)
  PROVE  PipeInv'
<1> DEFINE o == pipeReq[c]
           p == o.id
           W == Pipe!Writers(c)
           q == [o EXCEPT !.pc = "insert", !.alone = W = {}]
           f(d) == [pipeReq[d] EXCEPT !.alone = FALSE]
<1>1. /\ PipeTypes /\ PipeRequest(o, ids) /\ o.pc = "clear" /\ p \in Ids /\ p \in ids
      /\ o.list \in Lists /\ o.next = 1 /\ UNCHANGED <<pipe, ids, last, torn>>
      /\ steps' = [steps EXCEPT ![p] = {}]
  BY Zenon DEF PipeInv, PipeRequest, Pipe!DeletePipelineSteps, Pipe!At
<1>2. pipeReq' = [d \in Clients |-> IF d = c THEN q ELSE IF d \in W THEN f(d) ELSE pipeReq[d]]
  BY Zenon DEF Pipe!DeletePipelineSteps
<1>3. W = {d \in Clients \ {c} : pipeReq[d].id = p /\ pipeReq[d].pc = "insert"}
  BY DEF Pipe!Writers
<1>4. /\ q.pc = "insert" /\ q.id = p /\ q.list = o.list /\ q.next = 1 /\ q.alone \in BOOLEAN
      /\ PipeRequest(q, ids)
  <2>1. 1 \in 1 .. Len(o.list)
    BY <1>1, ListsAssumption
  <2>2. (W = {}) \in BOOLEAN
    OBVIOUS
  <2> HIDE DEF o, W
  <2> QED BY <1>1, <2>1, <2>2, Zenon DEF PipeRequest, p
<1>5. q.alone = TRUE => W = {}
  <2>1. q.alone = (W = {})
    <3> HIDE DEF o, W
    <3> QED BY <1>1 DEF PipeRequest
  <2> HIDE DEF q, W
  <2> QED BY <2>1, Zenon
<1>6. ASSUME NEW d \in W
      PROVE  /\ PipeRequest(f(d), ids) /\ f(d).pc = "insert" /\ f(d).id = p /\ f(d).alone = FALSE
  <2>1. PipeRequest(pipeReq[d], ids) /\ pipeReq[d].pc = "insert" /\ pipeReq[d].id = p
    BY <1>3, Zenon DEF PipeInv
  <2> HIDE DEF p
  <2> QED BY <2>1, Zenon DEF PipeRequest
<1> HIDE DEF o, p, W, q, f
<1>7. /\ pipeReq'[c] = q /\ \A d \in W : pipeReq'[d] = f(d)
      /\ \A d \in Clients : d # c /\ d \notin W => pipeReq'[d] = pipeReq[d]
      /\ PipeTypes'
  BY <1>1, <1>2, <1>3, Zenon DEF PipeTypes
<1>8. steps'[p] = {} /\ \A e \in Ids \ {p} : steps'[e] = steps[e]
  BY <1>1 DEF PipeTypes
<1>9. \A d \in Clients : PipeRequest(pipeReq'[d], ids')
  BY <1>1, <1>4, <1>6, <1>7, Zenon DEF PipeInv
<1>10. ASSUME NEW d \in Clients PROVE Alone(pipeReq', pipe', steps', d)
  <2>1. CASE d = c /\ q.alone = TRUE
    <3>1. W = {}
      BY <1>5, <2>1
    <3>2. \A e \in Clients : pipeReq'[e].pc = "insert" /\ pipeReq'[e].id = p => e = c
      BY <1>3, <1>7, <3>1
    <3>3. First(q.list, q.next - 1) = {}
      BY <1>4, FirstEmpty, Zenon
    <3> QED BY <1>4, <1>7, <1>8, <2>1, <3>2, <3>3, Zenon DEF Alone
  <2>2. CASE d = c /\ q.alone # TRUE
    BY <1>7, <2>2, Zenon DEF Alone
  <2>3. CASE d \in W
    BY <1>6, <1>7, <2>3, Zenon DEF Alone
  <2>4. CASE d # c /\ d \notin W /\ pipeReq[d].pc = "insert"
    <3>1. Alone(pipeReq, pipe, steps, d) /\ pipeReq[d].id \in Ids
      BY <2>4, Zenon DEF PipeInv, PipeRequest
    <3>2. pipeReq[d].id # p /\ pipeReq'[d] = pipeReq[d]
      BY <1>3, <1>7, <2>4, Zenon
    <3>3. ASSUME NEW e \in Clients, pipeReq'[e].id # p
          PROVE  pipeReq'[e] = pipeReq[e]
      BY <1>4, <1>6, <1>7, <3>3, Zenon
    <3>4. pipe'[pipeReq[d].id] = pipe[pipeReq[d].id] /\ steps'[pipeReq[d].id] = steps[pipeReq[d].id]
      BY <1>1, <1>8, <3>1, <3>2, Zenon
    <3> QED BY <3>1, <3>2, <3>3, <3>4, Zenon DEF Alone
  <2>5. CASE d # c /\ d \notin W /\ pipeReq[d].pc # "insert"
    BY <1>7, <2>5 DEF Alone
  <2> QED BY <2>1, <2>2, <2>3, <2>4, <2>5, Zenon
<1>11. ASSUME NEW e \in Ids PROVE OneRequest(pipeReq', pipe', steps', last', torn', e)
  <2>1. CASE e = p
    BY <1>4, <1>7, <2>1, Zenon DEF OneRequest
  <2>2. CASE e # p
    <3>1. OneRequest(pipeReq, pipe, steps, last, torn, e)
      BY Zenon DEF PipeInv
    <3>2. pipeReq[c].id = p /\ \A d \in W : pipeReq[d].id = p
      BY <1>3 DEF o, p
    <3>3. ASSUME NEW d \in Clients, pipeReq[d].id = e PROVE pipeReq'[d] = pipeReq[d]
      BY <1>7, <2>2, <3>2, <3>3, Zenon
    <3> QED BY <1>1, <1>8, <2>2, <3>1, <3>3, Zenon DEF OneRequest
  <2> QED BY <2>1, <2>2
<1>12. \A e \in Ids : e \notin ids' => steps'[e] = {} /\ pipe'[e] = None
  BY <1>1, <1>8 DEF PipeInv
<1> QED BY <1>7, <1>9, <1>10, <1>11, <1>12, Zenon DEF PipeInv

(* One statement of a request. *)
LEMMA PipeStep ==
  ASSUME PipeInv, [Pipe!Next]_(Pipe!vars)
  PROVE  PipeInv'
<1>1. /\ PipeTypes /\ \A c \in Clients : PipeRequest(pipeReq[c], ids)
      /\ \A p \in Ids : p \notin ids => steps[p] = {} /\ pipe[p] = None
  BY Zenon DEF PipeInv
<1>2. \A given : PipeRequest(Pipe!Idle, given) /\ Pipe!Idle.pc = "idle"
  BY Zenon DEF PipeRequest, Pipe!Idle
<1>3. ASSUME NEW c \in Clients, NEW p \in Ids, NEW h \in Heads, NEW l \in Lists,
             Pipe!HandleCreatePipeline(c, p, h, l)
      PROVE  PipeInv'
  <2> DEFINE q == [Pipe!Idle EXCEPT !.op = "create", !.pc = "insert", !.id = p, !.list = l]
  <2>1. /\ pipeReq[c].pc = "idle" /\ p \notin ids /\ ids' = ids \cup {p}
        /\ pipe' = [pipe EXCEPT ![p] = [head |-> h, schedule |-> None]]
        /\ pipeReq' = [pipeReq EXCEPT ![c] = q] /\ UNCHANGED <<steps, last, torn>>
    BY <1>3 DEF Pipe!HandleCreatePipeline, Pipe!CreatePipeline, Pipe!At
  <2>2. /\ q.pc = "insert" /\ q.id = p /\ q.list = l /\ q.next = 1
        /\ PipeRequest(q, ids')
    <3>1. 1 \in 1 .. Len(l)
      BY ListsAssumption
    <3> QED BY <2>1, <3>1, Zenon DEF PipeRequest, Pipe!Idle
  <2> HIDE DEF q
  <2>3. PipeTypes'
    BY <1>1, <2>1 DEF PipeTypes
  <2>4. /\ \A d \in Clients : pipeReq'[d] = IF d = c THEN q ELSE pipeReq[d]
        /\ \A o \in Ids \ {p} : pipe'[o] = pipe[o]
    BY <1>1, <2>1 DEF PipeTypes
  <2>5. ASSUME NEW d \in Clients, pipeReq'[d].id = p PROVE Alone(pipeReq', pipe', steps', d)
    <3>1. \A e \in Clients : pipeReq'[e].pc = "insert" /\ pipeReq'[e].id = p => e = c
      <4>1. \A e \in Clients : pipeReq[e].pc = "insert" => pipeReq[e].id # p
        BY <1>1, <2>1, Zenon DEF PipeRequest
      <4> QED BY <2>4, <4>1, Zenon
    <3>2. First(q.list, q.next - 1) = {} /\ steps[p] = {}
      BY <1>1, <2>1, <2>2, FirstEmpty, Zenon
    <3> QED BY <2>1, <2>2, <2>4, <2>5, <3>1, <3>2, Zenon DEF Alone
  <2>6. OneRequest(pipeReq', pipe', steps', last', torn', p)
    BY <2>2, <2>4 DEF OneRequest
  <2>7. \A o \in Ids \ {p} : /\ pipe'[o] = pipe[o] /\ steps'[o] = steps[o] /\ last'[o] = last[o]
                             /\ o \in torn' <=> o \in torn
    BY <2>1, <2>4
  <2> QED BY <2>1, <2>2, <2>3, <2>5, <2>6, <2>7, PipeFrame, Zenon
<1>4. ASSUME NEW c \in Clients, NEW p \in Ids, NEW h, NEW l \in Lists \cup {<<>>},
             NEW op \in {"update", "delete", "run", "schedule", "unschedule"},
             Pipe!GetPipeline(c, op, p, h, l)
      PROVE  PipeInv'
  <2> DEFINE q == [Pipe!Idle EXCEPT !.op = op, !.pc = op, !.id = p,
                                     !.row = pipe[p], !.head = h, !.list = l]
  <2>1. /\ pipeReq[c].pc = "idle" /\ p \in ids /\ pipeReq' = [pipeReq EXCEPT ![c] = q]
        /\ UNCHANGED <<pipe, steps, ids, last, torn>>
    BY <1>1, <1>4 DEF Pipe!GetPipeline, Pipe!At
  <2>2. q.pc = op /\ q.id = p /\ PipeRequest(q, ids)
    BY <2>1, Zenon DEF PipeRequest, Pipe!Idle
  <2> HIDE DEF q
  <2>3. PipeTypes'
    BY <1>1, <2>1 DEF PipeTypes
  <2> QED BY <2>1, <2>2, <2>3, PipeReads, Zenon
<1>5. ASSUME NEW c \in Clients, Pipe!InsertStep(c)
      PROVE  PipeInv'
  BY <1>5, InsertKeeps
<1>6. ASSUME NEW c \in Clients, Pipe!UndoCreate(c) \/ Pipe!HandleDeletePipeline(c)
      PROVE  PipeInv'
  BY <1>6, PipeDeleted, Zenon DEF Pipe!UndoCreate, Pipe!HandleDeletePipeline, Pipe!At
<1>7. ASSUME NEW c \in Clients, Pipe!DeletePipelineSteps(c)
      PROVE  PipeInv'
  BY <1>7, ClearKeeps
<1>8. ASSUME NEW c \in Clients, pipeReq[c].pc \notin {"idle", "insert", "undo"}, Pipe!Answer(c),
             UNCHANGED <<steps, ids, last, torn>>,
             \/ UNCHANGED pipe
             \/ pipe[pipeReq[c].id] # None /\ \E row : pipe' = [pipe EXCEPT ![pipeReq[c].id] = row]
      PROVE  PipeInv'
  <2>1. PICK q : PipeRequest(q, ids) /\ q.pc = "idle" /\ pipeReq' = [pipeReq EXCEPT ![c] = q]
    BY <1>2, <1>8, Zenon DEF Pipe!Answer
  <2>2. PICK p \in Ids : p = pipeReq[c].id /\ p \in ids
    BY <1>1, <1>8, Zenon DEF PipeRequest
  <2>3. PipeTypes' /\ \A o \in Ids \ {p} : pipe'[o] = pipe[o] /\ (o \in torn' <=> o \in torn)
    BY <1>1, <1>8, <2>1, <2>2 DEF PipeTypes
  <2>4. pipe'[p] # None => pipe[p] # None /\ (p \in torn => p \in torn')
    BY <1>8, <2>2, Zenon
  <2> QED BY <1>8, <2>1, <2>2, <2>3, <2>4, PipeReads, Zenon
<1>9. ASSUME NEW c \in Clients, Pipe!UpdateRow(c)
      PROVE  PipeInv'
  <2> DEFINE o == pipeReq[c]
             q == [o EXCEPT !.pc = "clear"]
  <2>1. /\ o.pc = "update" /\ UNCHANGED <<steps, ids, last, torn>>
        /\ \/ UNCHANGED pipe
           \/ pipe[o.id] # None /\ \E row : pipe' = [pipe EXCEPT ![o.id] = row]
        /\ \/ Pipe!Answer(c)
           \/ pipeReq' = [pipeReq EXCEPT ![c].pc = "clear"] /\ o.list # <<>>
    BY <1>9, Zenon DEF Pipe!UpdateRow, Pipe!At, Pipe!UpdateAccepted, Pipe!UpdatePipeline, Pipe!Goto
  <2>2. CASE Pipe!Answer(c)
    BY <1>8, <2>1, <2>2
  <2>3. CASE pipeReq' = [pipeReq EXCEPT ![c].pc = "clear"] /\ o.list # <<>>
    <3>1. pipeReq' = [pipeReq EXCEPT ![c] = q]
      BY <1>1, <2>3 DEF PipeTypes
    <3>2. PipeRequest(o, ids)
      BY <1>1, Zenon
    <3> HIDE DEF o
    <3>3. q.pc = "clear" /\ q.id = o.id /\ PipeRequest(q, ids)
      BY <2>1, <2>3, <3>2 DEF PipeRequest
    <3>4. PICK p \in Ids : p = o.id /\ p \in ids
      BY <2>1, <3>2 DEF PipeRequest
    <3> HIDE DEF q
    <3>5. PipeTypes' /\ \A e \in Ids \ {p} : pipe'[e] = pipe[e] /\ (e \in torn' <=> e \in torn)
      BY <1>1, <2>1, <3>1, <3>4 DEF PipeTypes
    <3>6. pipe'[p] # None => pipe[p] # None /\ (p \in torn => p \in torn')
      BY <2>1, <3>4
    <3>7. pipeReq[c].id = p /\ pipeReq[c].pc = "update"
      BY <2>1, <3>4 DEF o
    <3> QED BY <2>1, <3>1, <3>3, <3>4, <3>5, <3>6, <3>7, PipeReads, ZenonT(60)
  <2> QED BY <2>1, <2>2, <2>3
<1>10. ASSUME NEW c \in Clients,
              \/ Pipe!HandleRunPipeline(c)
              \/ Pipe!HandleSetPipelineSchedule(c) \/ Pipe!HandleDeletePipelineSchedule(c)
       PROVE  PipeInv'
  BY <1>8, <1>10 DEF Pipe!HandleRunPipeline, Pipe!HandleSetPipelineSchedule, Pipe!HandleDeletePipelineSchedule,
       Pipe!WriteSchedule, Pipe!UpdateAccepted, Pipe!UpdatePipeline, Pipe!At
<1>11. ASSUME NEW c \in Clients, Pipe!ClientGone(c)
       PROVE  PipeInv'
  <2>1. PICK q : PipeRequest(q, ids) /\ q.pc = "idle" /\ pipeReq' = [pipeReq EXCEPT ![c] = q]
    BY <1>2, <1>11, Zenon DEF Pipe!ClientGone, Pipe!Answer
  <2>2. PICK p \in Ids : p = pipeReq[c].id /\ p \in ids /\ pipeReq[c].pc # "idle"
    BY <1>1, <1>11, Zenon DEF PipeRequest, Pipe!ClientGone, Pipe!At
  <2>3. /\ torn' = IF pipeReq[c].pc \in {"insert", "undo"} /\ pipe[p] # None THEN torn \cup {p} ELSE torn
        /\ UNCHANGED <<pipe, steps, ids, last>>
    BY <1>11, <2>2, Zenon DEF Pipe!ClientGone
  <2>4. PipeTypes' /\ \A d \in Clients : pipeReq'[d] = IF d = c THEN q ELSE pipeReq[d]
    BY <1>1, <2>1, <2>3 DEF PipeTypes
  <2>5. CASE pipeReq[c].pc \notin {"insert", "undo"}
    BY <2>1, <2>2, <2>3, <2>4, <2>5, PipeReads, Zenon
  <2>6. CASE pipeReq[c].pc \in {"insert", "undo"}
    <3>1. ASSUME NEW d \in Clients, pipeReq'[d].id = p PROVE Alone(pipeReq', pipe', steps', d)
      <4>1. Alone(pipeReq, pipe, steps, d)
        BY Zenon DEF PipeInv
      <4> QED BY <2>1, <2>3, <2>4, <3>1, <4>1, ZenonT(60) DEF Alone
    <3>2. OneRequest(pipeReq', pipe', steps', last', torn', p)
      BY <2>3, <2>6, Zenon DEF OneRequest
    <3>3. \A o \in Ids \ {p} : /\ pipe'[o] = pipe[o] /\ steps'[o] = steps[o] /\ last'[o] = last[o]
                               /\ o \in torn' <=> o \in torn
      BY <2>3, Zenon
    <3> QED BY <2>1, <2>2, <2>3, <2>4, <3>1, <3>2, <3>3, PipeFrame, Zenon
  <2> QED BY <2>5, <2>6
<1>12. CASE UNCHANGED Pipe!vars
  BY <1>12 DEF Pipe!vars, PipeInv, PipeTypes
<1>13. ASSUME NEW c \in Clients, NEW p \in Ids,
              \/ \E h \in Heads \cup {None}, l \in Lists \cup {<<>>} : Pipe!GetPipeline(c, "update", p, h, l)
              \/ \E op \in {"delete", "run", "schedule", "unschedule"} : Pipe!GetPipeline(c, op, p, None, <<>>)
       PROVE  PipeInv'
  BY <1>4, <1>13
<1> QED
  BY <1>3, <1>5, <1>6, <1>7, <1>9, <1>10, <1>11, <1>12, <1>13, Zenon DEF Pipe!Next

(* The steps of a pipeline that no request is writing are those of the last *)
(* request that stored its steps to the end, unless requests overlapped or  *)
(* stopped in the middle (CreatePipelineSteps, HandleUpdatePipeline), for   *)
(* any number of requests, pipelines and steps.                             *)
THEOREM StepsOfOneRequest == Spec => []StepsAreOneRequest
<1>1. Init => PipeInv
  <2> SUFFICES ASSUME Init PROVE PipeInv
    OBVIOUS
  <2>1. /\ pipe = [p \in Ids |-> None] /\ steps = [p \in Ids |-> {}] /\ last = [p \in Ids |-> <<>>]
        /\ pipeReq = [c \in Clients |-> Pipe!Idle]
    BY DEF Init, Pipe!Init
  <2>2. PipeRequest(Pipe!Idle, ids) /\ Pipe!Idle.pc = "idle"
    BY DEF PipeRequest, Pipe!Idle
  <2>3. PipeTypes
    BY <2>1 DEF PipeTypes
  <2> QED BY <2>1, <2>2, <2>3 DEF PipeInv, Alone, OneRequest
<1>2. PipeInv /\ [Next]_vars => PipeInv'
  <2> SUFFICES ASSUME PipeInv, [Next]_vars PROVE PipeInv'
    OBVIOUS
  <2>1. [Pipe!Next]_(Pipe!vars)
    BY DEF Next, AgentPart, PipePart, UserPart, ListPart, NotePart, vars, pipeVars, Pipe!vars
  <2> QED BY <2>1, PipeStep
<1>3. PipeInv => StepsAreOneRequest
  BY Zenon DEF PipeInv, OneRequest, StepsAreOneRequest, Pipe!StepsAreOneRequest
<1> QED BY <1>1, <1>2, <1>3, PTL DEF Spec
-----------------------------------------------------------------------------
(***************************************************************************)
(* The pages of the sessions.                                              *)
(***************************************************************************)

Walks == [on : BOOLEAN, done : BOOLEAN, cursor : List!Row \cup {None}, offset : {0},
          seen : SUBSET List!Row, twice : BOOLEAN, stay : SUBSET List!Row, lost : BOOLEAN]

(* The client has what is up to the cursor c, and nothing that follows it. *)
UpTo(w, c) ==
  /\ \A r \in w.seen : r = c \/ List!SessionBefore(r, c)
  /\ \A r \in w.stay : r \in w.seen \/ List!SessionBefore(c, r)

WalkInv(w) ==
  /\ w \in Walks /\ w.stay \subseteq entries /\ w.twice = FALSE
  /\ w.on = FALSE => w.seen = {} /\ w.cursor = None /\ w.done = FALSE
  /\ w.on = TRUE /\ w.done = FALSE => w.cursor # None /\ UpTo(w, w.cursor)
  /\ w.done = TRUE /\ w.lost = FALSE => w.stay \subseteq w.seen

(* The rows of a page, and the cursor that goes with it. *)
Got(page) == {page[i] : i \in DOMAIN page}
Following(page, limit) == List!LastOf(page, Len(page) >= limit)

(* The rows got of a page of the rows S, and the cursor next. *)
Divides(S, got, next) ==
  /\ got \subseteq S
  /\ next = None => got = S
  /\ next # None => /\ next \in got
                    /\ \A r \in got : r = next \/ List!SessionBefore(r, next)
                    /\ \A r \in S : r \in got \/ List!SessionBefore(next, r)

(* SessionsListedOnce made inductive. *)
ListInv ==
  /\ entries \subseteq List!Row
  /\ kind = "sessions" => WalkInv(walk)

(* (created_at, id) orders the rows. *)
LEMMA OneBeforeTheOther ==
  ASSUME NEW r \in List!Row, NEW s \in List!Row
  PROVE  /\ r = s \/ List!SessionBefore(r, s) \/ List!SessionBefore(s, r)
         /\ ~(List!SessionBefore(r, s) /\ List!SessionBefore(s, r)) /\ ~List!SessionBefore(r, r)
  BY PagesAssumption DEF List!Row, List!SessionBefore

(* And so does the relation between three of them. *)
LEMMA BeforeAll ==
  ASSUME NEW r \in List!Row, NEW s \in List!Row, NEW t \in List!Row,
         List!SessionBefore(r, s), List!SessionBefore(s, t)
  PROVE  List!SessionBefore(r, t)
  BY PagesAssumption DEF List!Row, List!SessionBefore

(* ParsePaginationParams never asks the table for an empty page. *)
LEMMA LimitPositive ==
  ASSUME NEW asked \in Limits
  PROVE  List!ParsePaginationParams(asked) \in Nat \ {0}
  BY PagesAssumption DEF List!ParsePaginationParams

(* How many of n rows LIMIT leaves. *)
LEMMA PageSize ==
  ASSUME NEW limit \in Nat \ {0}, NEW n \in Nat, NEW m, m = IF limit < n THEN limit ELSE n
  PROVE  m \in 0 .. n /\ (m < limit => m = n) /\ (m = 0 => n = 0) /\ (m >= limit \/ m < limit)
  OBVIOUS

(* ORDER BY created_at, id and LIMIT: a page has the first of the rows S.  *)
(* When it is not the last one, its last row is the next cursor, which     *)
(* divides S into the page and what is to follow.                          *)
LEMMA PageDivides ==
  ASSUME NEW S, S \subseteq List!Row, NEW limit \in Nat \ {0}, NEW page \in List!SessionPages(S, limit),
         NEW got, got = Got(page), NEW next, next = Following(page, limit)
  PROVE  Divides(S, got, next)
<1>1. PICK n \in Nat : n = List!Cardinality(S)
  BY PagesAssumption
<1>2. PICK q \in [1 .. n -> S] :
        /\ \A r \in S : \E i \in DOMAIN q : q[i] = r
        /\ \A i, j \in DOMAIN q : i < j => ~List!SessionBefore(q[j], q[i])
        /\ page = List!Upto(q, limit)
  BY <1>1 DEF List!SessionPages, List!Ordered
<1>3. PICK m : m = IF limit < n THEN limit ELSE n
  OBVIOUS
<1>4. m \in 0 .. n /\ (m < limit => m = n) /\ (m = 0 => n = 0) /\ (m >= limit \/ m < limit)
  BY <1>3, PageSize, Zenon
<1>5. Len(q) = n /\ DOMAIN q = 1 .. n
  BY <1>2, <1>1
<1>6. page = SubSeq(q, 1, m)
  BY <1>2, <1>5, <1>3 DEF List!Upto
<1>7. Len(page) = m /\ DOMAIN page = 1 .. m /\ \A i \in 1 .. m : page[i] = q[i] /\ q[i] \in S
  BY <1>2, <1>1, <1>4, <1>5, <1>6
<1>8. got = {q[i] : i \in 1 .. m} /\ got \subseteq S
  BY <1>7 DEF Got
<1>9. CASE m = n /\ next = None
  BY <1>2, <1>5, <1>8, <1>9 DEF Divides
<1>10. CASE m >= limit
  <2>1. m \in 1 .. n /\ m \in 1 .. m /\ page # <<>>
    BY <1>1, <1>4, <1>7, <1>10
  <2>2. next = q[m] /\ q[m] \in S /\ next # None
    BY <1>7, <1>10, <2>1, PagesAssumption DEF List!LastOf, Following
  <2>3. \A i \in 1 .. n : q[i] \in List!Row
    BY <1>2
  <2>4. ASSUME NEW i \in 1 .. n, i <= m PROVE q[i] = q[m] \/ List!SessionBefore(q[i], q[m])
    <3>1. CASE i = m
      BY <3>1
    <3>2. CASE i < m
      BY <1>2, <1>5, <2>1, <2>3, <3>2, OneBeforeTheOther, Zenon
    <3> QED BY <2>1, <2>4, <3>1, <3>2
  <2>5. ASSUME NEW i \in 1 .. n, i > m PROVE q[i] = q[m] \/ List!SessionBefore(q[m], q[i])
    <3>1. m < i
      BY <2>1, <2>5
    <3> QED BY <1>2, <1>5, <2>1, <2>3, <3>1, OneBeforeTheOther, Zenon
  <2>6. \A r \in got : r = next \/ List!SessionBefore(r, next)
    <3>1. \A i \in 1 .. m : i \in 1 .. n /\ i <= m
      BY <1>1, <1>4
    <3> QED BY <1>8, <2>2, <2>4, <3>1, Zenon
  <2>7. \A i \in 1 .. m : q[i] \in got
    BY <1>8
  <2>8. next \in got
    BY <2>1, <2>2, <2>7, Zenon
  <2>9. ASSUME NEW r \in S PROVE r \in got \/ List!SessionBefore(next, r)
    <3>1. PICK i \in 1 .. n : q[i] = r
      BY <1>2, <1>5, Zenon
    <3>2. i \in 1 .. m \/ i > m
      BY <1>1, <1>4
    <3> QED BY <2>2, <2>5, <2>7, <2>8, <3>1, <3>2, Zenon
  <2> QED BY <1>8, <2>2, <2>6, <2>8, <2>9, Zenon DEF Divides
<1>11. CASE m < limit
  <2>1. next = None
    BY <1>7, <1>11 DEF List!LastOf, Following
  <2> QED BY <1>4, <1>9, <1>11, <2>1, Zenon
<1> QED BY <1>4, <1>10, <1>11, Zenon

(* What one page does to the walk: on the first request it starts with the *)
(* rows there are, later it continues behind the cursor.                   *)
LEMMA PageKeeps ==
  ASSUME ListInv, NEW asked \in Limits, List!HandleListSessions(asked)
  PROVE  WalkInv(walk')
<1>1. PICK limit \in Nat \ {0} : limit = List!ParsePaginationParams(asked)
  BY LimitPositive
<1>2. /\ WalkInv(walk) /\ walk.done = FALSE /\ walk \in Walks /\ entries \subseteq List!Row
      /\ entries' = entries
  BY DEF ListInv, WalkInv, List!HandleListSessions, List!Asks, Walks
<1>3. PICK page \in IF walk.cursor = None THEN List!ListActiveSessionsWithLimit(limit)
                    ELSE List!ListActiveSessionsAfter(walk.cursor, limit) :
        List!Receive(page, List!LastOf(page, Len(page) >= limit), 0,
                     walk.cursor # None /\ walk.cursor \notin entries)
  BY <1>1 DEF List!HandleListSessions
<1>4. PICK got, next : got = Got(page) /\ next = Following(page, limit)
  OBVIOUS
<1>5. PICK gone \in BOOLEAN : gone = (walk.cursor # None /\ walk.cursor \notin entries)
  BY Zenon
<1>6. PICK old : old = IF walk.on THEN walk ELSE [List!Fresh EXCEPT !.stay = entries]
  BY Zenon
<1>7. walk' = [on |-> TRUE, done |-> next = None, cursor |-> next, offset |-> 0,
               seen |-> old.seen \cup got, twice |-> old.twice \/ got \cap old.seen # {},
               stay |-> old.stay, lost |-> old.lost \/ gone]
  BY <1>3, <1>4, <1>5, <1>6, Zenon DEF List!Receive, Got, Following
<1>8. /\ old \in Walks /\ old.twice = FALSE /\ old.stay \subseteq entries
      /\ walk.cursor = None => old.seen = {} /\ old.stay = entries
      /\ walk.cursor # None => UpTo(old, walk.cursor)
  <2>1. CASE walk.on = TRUE
    BY <1>2, <1>6, <2>1 DEF WalkInv, Walks
  <2>2. CASE walk.on = FALSE
    <3>1. /\ walk.cursor = None
          /\ old = [on |-> FALSE, done |-> FALSE, cursor |-> None, offset |-> 0, seen |-> {},
                    twice |-> FALSE, stay |-> entries, lost |-> FALSE]
      BY <1>2, <1>6, <2>2, Zenon DEF WalkInv, List!Fresh
    <3> QED BY <1>2, <3>1, Zenon DEF Walks
  <2> QED BY <1>2, <2>1, <2>2, Zenon DEF Walks
<1>9. ASSUME got \subseteq List!Row, next \in List!Row \cup {None}, got \cap old.seen = {},
             next # None => UpTo(walk', next),
             next = None => walk'.lost = TRUE \/ old.stay \subseteq old.seen \cup got
      PROVE  WalkInv(walk')
  <2>1. walk' \in Walks
    BY <1>7, <1>8, <1>9, Zenon DEF Walks
  <2> QED BY <1>7, <1>8, <1>9, <1>2, <2>1, Zenon DEF WalkInv
<1>10. CASE walk.cursor = None
  <2>1. page \in List!SessionPages(entries, limit)
    BY <1>3, <1>10 DEF List!ListActiveSessionsWithLimit
  <2>2. Divides(entries, got, next)
    BY <1>2, <1>4, <2>1, PageDivides
  <2> USE DEF Divides
  <2>3. next # None => UpTo(walk', next)
    BY <1>7, <1>8, <1>10, <2>2, Zenon DEF UpTo
  <2>4. got \subseteq List!Row /\ next \in List!Row \cup {None}
    BY <1>2, <2>2
  <2>5. got \cap old.seen = {} /\ (next = None => old.stay \subseteq old.seen \cup got)
    BY <1>8, <1>10, <2>2
  <2> QED BY <1>9, <2>3, <2>4, <2>5, Zenon
<1>11. CASE walk.cursor \in entries
  <2>1. PICK c \in List!Row : c = walk.cursor /\ c # None
    BY <1>2, <1>11, PagesAssumption
  <2>2. PICK S : S = {r \in entries : List!SessionBefore(c, r)}
    BY Zenon
  <2>3. page \in List!SessionPages(S, limit) /\ S \subseteq List!Row
    BY <1>2, <1>3, <1>11, <2>1, <2>2 DEF List!ListActiveSessionsAfter
  <2>4. Divides(S, got, next)
    BY <1>4, <2>3, PageDivides
  <2> USE DEF Divides
  <2>5. /\ \A r \in old.seen : r \in List!Row /\ (r = c \/ List!SessionBefore(r, c))
        /\ \A r \in old.stay : r \in entries /\ (r \in old.seen \/ List!SessionBefore(c, r))
    BY <1>8, <2>1 DEF UpTo, Walks
  <2>6. got \cap old.seen = {}
    <3> SUFFICES ASSUME NEW r \in got, r \in old.seen PROVE FALSE
      BY Zenon
    <3>1. r \in List!Row /\ List!SessionBefore(c, r) /\ (r = c \/ List!SessionBefore(r, c))
      BY <2>2, <2>4, <2>5, Zenon
    <3> QED BY <2>1, <3>1, OneBeforeTheOther, Zenon
  <2>7. old.stay \subseteq old.seen \cup S
    BY <2>2, <2>5
  <2>8. ASSUME next # None PROVE UpTo(walk', next)
    <3>1. next \in List!Row /\ List!SessionBefore(c, next)
      BY <2>2, <2>3, <2>4, <2>8
    <3>2. \A r \in old.seen : List!SessionBefore(r, next)
      BY <2>1, <2>5, <3>1, BeforeAll, Zenon
    <3>3. /\ \A r \in old.seen \cup got : r = next \/ List!SessionBefore(r, next)
          /\ \A r \in old.stay : r \in old.seen \cup got \/ List!SessionBefore(next, r)
      BY <2>4, <2>7, <2>8, <3>2
    <3> QED BY <1>7, <3>3, Zenon DEF UpTo
  <2>9. got \subseteq List!Row /\ next \in List!Row \cup {None}
    BY <2>3, <2>4
  <2>10. next = None => old.stay \subseteq old.seen \cup got
    BY <2>4, <2>7, Zenon
  <2> QED BY <1>9, <2>6, <2>8, <2>9, <2>10, Zenon
<1>12. CASE walk.cursor # None /\ walk.cursor \notin entries
  <2>1. page = <<>>
    BY <1>3, <1>12 DEF List!ListActiveSessionsAfter
  <2>2. got = {} /\ next = None
    BY <1>4, <2>1 DEF List!LastOf, Got, Following
  <2>3. walk'.lost = TRUE
    BY <1>5, <1>7, <1>8, <1>12, Zenon DEF Walks
  <2> QED BY <1>9, <2>2, <2>3, Zenon
<1> QED BY <1>10, <1>11, <1>12

(* A step of the list, and of everything else, keeps ListInv. *)
LEMMA ListStep == ListInv /\ [List!Next]_(List!vars) => ListInv'
<1> SUFFICES ASSUME ListInv, [List!Next]_(List!vars) PROVE ListInv'
  OBVIOUS
<1>1. entries \subseteq List!Row /\ (kind = "sessions" => WalkInv(walk) /\ walk \in Walks)
  BY DEF ListInv, WalkInv
<1>2. ASSUME NEW id \in 1 .. MaxRows, NEW at \in 0 .. MaxTime, List!Insert(id, at) PROVE ListInv'
  <2>1. [id |-> id, at |-> at] \in List!Row
    BY DEF List!Row
  <2>2. entries' = entries \cup {[id |-> id, at |-> at]} /\ UNCHANGED <<kind, walk>>
    BY <1>2 DEF List!Insert
  <2> QED BY <1>1, <2>1, <2>2, Zenon DEF ListInv, WalkInv
<1>3. ASSUME NEW r \in entries, List!Delete(r) PROVE ListInv'
  <2>1. entries' = entries \ {r} /\ kind' = kind /\ walk' = [walk EXCEPT !.stay = @ \ {r}]
    BY <1>3 DEF List!Delete
  <2>2. ASSUME kind = "sessions" PROVE WalkInv(walk)'
    <3>1. walk' \in Walks /\ walk'.stay = walk.stay \ {r}
      BY <1>1, <2>1, <2>2 DEF Walks
    <3>2. /\ walk'.on = walk.on /\ walk'.done = walk.done /\ walk'.cursor = walk.cursor
          /\ walk'.seen = walk.seen /\ walk'.twice = walk.twice /\ walk'.lost = walk.lost
      BY <1>1, <2>1, <2>2 DEF Walks
    <3> QED BY <1>1, <2>1, <2>2, <3>1, <3>2 DEF WalkInv, UpTo
  <2> QED BY <1>1, <2>1, <2>2 DEF ListInv
<1>4. CASE List!Tick \/ UNCHANGED List!vars
  BY <1>1, <1>4, Zenon DEF List!Tick, List!vars, ListInv, WalkInv
<1>5. ASSUME NEW asked \in Limits, List!HandleListSessions(asked) PROVE ListInv'
  <2>1. WalkInv(walk') /\ UNCHANGED <<kind, entries>>
    BY <1>5, PageKeeps DEF List!HandleListSessions, List!Asks
  <2> QED BY <1>1, <2>1, Zenon DEF ListInv, WalkInv
<1>6. ASSUME kind # "sessions", UNCHANGED <<kind, entries>> PROVE ListInv'
  BY <1>1, <1>6 DEF ListInv
<1>7. ASSUME NEW asked \in Limits,
             \/ List!HandleListAgents(asked) \/ List!HandleListNotifications(asked)
             \/ List!HandleListAuditLog(asked) \/ List!handleListAllRuns(asked)
             \/ List!HandleListPipelines(asked) \/ List!HandleListPipelineRuns(asked)
      PROVE  ListInv'
  BY <1>6, <1>7, Zenon
  DEF List!HandleListAgents, List!HandleListNotifications, List!HandleListAuditLog, List!handleListAllRuns,
      List!HandleListPipelines, List!HandleListPipelineRuns, List!Asks
<1>8. CASE \/ List!HandleExportAuditLog \/ List!HandleListAgentRuns \/ List!HandleListAgentVersions
           \/ List!HandleListAllRecordings \/ List!HandleListSatellites
  BY <1>6, <1>8, Zenon
  DEF List!HandleExportAuditLog, List!HandleListAgentRuns, List!HandleListAgentVersions,
      List!HandleListAllRecordings, List!HandleListSatellites, List!Asks
<1> QED BY <1>2, <1>3, <1>4, <1>5, <1>7, <1>8, Zenon DEF List!Next

(* Walking over the pages of the sessions shows no session twice, and       *)
(* shows each one that stays, unless the session of a cursor is deleted     *)
(* (ListActiveSessionsAfter, HandleListSessions), for any number of rows,   *)
(* equal times, and page sizes.                                             *)
THEOREM SessionsAreListedOnce == Spec => []SessionsListedOnce
<1>1. Init => ListInv
  <2> SUFFICES ASSUME Init PROVE ListInv
    OBVIOUS
  <2>1. entries = {} /\ walk = List!Fresh
    BY Zenon DEF Init, List!Init
  <2> QED BY <2>1 DEF ListInv, WalkInv, Walks, UpTo, List!Fresh
<1>2. ListInv /\ [Next]_vars => ListInv'
  <2> SUFFICES ASSUME ListInv, [Next]_vars PROVE ListInv'
    OBVIOUS
  <2>1. [List!Next]_(List!vars)
    BY DEF Next, AgentPart, PipePart, UserPart, ListPart, NotePart, vars, listVars, List!vars
  <2> QED BY <2>1, ListStep
<1>3. ListInv => SessionsListedOnce
  BY DEF ListInv, WalkInv, Walks, SessionsListedOnce, List!SessionsListedOnce
<1> QED BY <1>1, <1>2, <1>3, PTL DEF Spec
=============================================================================
