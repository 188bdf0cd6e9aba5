------------------------------- MODULE Accounts -------------------------------
(***************************************************************************)
(* User accounts: the rows of the users table, the bootstrap of an owner   *)
(* when Nexus starts, sign-in and change of password, and the handlers     *)
(* that invite a user, change a role and delete an account.  The auth      *)
(* middleware looks the caller's row up once; the handler then works with  *)
(* what it read, while the requests of others change the table.            *)
(***************************************************************************)
EXTENDS Naturals

CONSTANTS MaxUsers,    \* bound on the rows ever inserted; rows are 1, 2, ... in that order
          Emails,
          OwnerEmail,  \* DAAO_OWNER_EMAIL
          Passwords,   \* passwords people choose or are given
          Clients,     \* requests served at the same time
          None

VARIABLES sso,      \* whether OIDC_ISSUER_URL is set
          users,    \* users[u]: the row, or None
          born,     \* the number of rows ever inserted
          tokens,   \* the users tokens have been issued to and not expired
          req,      \* req[c]: the request of client c
          overlap,  \* whether a request acted on a caller's row changed since it was read
          resigned  \* whether an owner gave up the role by an own request

vars == <<sso, users, born, tokens, req, overlap, resigned>>

Users == 1..MaxUsers

ValidRoles == {"owner", "admin", "viewer"}

RoleLevel == [r \in ValidRoles |-> CASE r = "viewer" -> 0 [] r = "admin" -> 1 [] r = "owner" -> 2]

HasPermission(role, required) == RoleLevel[role] >= RoleLevel[required]

Row == [email : Emails \cup {None}, role : ValidRoles, password : Passwords \cup {None},
        provider : {"local", "oidc"}]

Idle == [pc |-> "idle", caller |-> None, role |-> None, email |-> None]

Here == {u \in Users : users[u] # None}

Owners == {u \in Here : users[u].role = "owner"}

TypeOK ==
    /\ \A u \in Here : users[u] \in Row
    /\ \A u, v \in Here : users[u].email = users[v].email => u = v
    /\ born \in 0..MaxUsers /\ tokens \subseteq 1..born /\ Here \subseteq 1..born

Init ==
    /\ sso \in BOOLEAN
    /\ users = [u \in Users |-> None]
    /\ born = 0 /\ tokens = {}
    /\ req = [c \in Clients |-> Idle]
    /\ overlap = FALSE /\ resigned = FALSE

-----------------------------------------------------------------------------
(* The store.                                                              *)

\* CreateWithPassword: a row with the e-mail address gets the password and the
\* local provider, and keeps its role; otherwise a row is inserted.
CreateWithPassword(email, role, password) ==
    IF \E u \in Here : users[u].email = email
    THEN /\ users' = [u \in Users |-> IF u \in Here /\ users[u].email = email
                                      THEN [users[u] EXCEPT !.password = password, !.provider = "local"]
                                      ELSE users[u]]
         /\ UNCHANGED born
    ELSE /\ born < MaxUsers /\ born' = born + 1
         /\ users' = [users EXCEPT ![born + 1] = [email |-> email, role |-> role,
                                                  password |-> password, provider |-> "local"]]

\* UpsertFromOIDC is called with an empty e-mail address, so a second person
\* who has no row is refused.  The row comes back without the password column
\* scanUser expects: the statement has its effect and the caller gets an error.
UpsertFromOIDC(known) ==
    LET others == {v \in Here \ known : users[v].email = None} IN
    IF others # {} THEN UNCHANGED <<users, born>>
    ELSE IF known # {}
    THEN users' = [u \in Users |-> IF u \in known THEN [users[u] EXCEPT !.email = None] ELSE users[u]]
         /\ UNCHANGED born
    ELSE /\ born < MaxUsers /\ born' = born + 1
         /\ users' = [users EXCEPT ![born + 1] = [email |-> None, role |-> "viewer",
                                                  password |-> None, provider |-> "oidc"]]

-----------------------------------------------------------------------------
(* main and the auth handlers.                                             *)

\* Nexus starts: without an owner one is created.  Requests under way are gone.
Bootstrap ==
    /\ req' = [c \in Clients |-> Idle]
    /\ IF Owners = {}
       THEN \E p \in Passwords : CreateWithPassword(OwnerEmail, "owner", p)
       ELSE UNCHANGED <<users, born>>
    /\ UNCHANGED <<sso, tokens, overlap, resigned>>

\* handleLogin, VerifyPassword: the token names the row.
Login(u) ==
    /\ u \in Here /\ users[u].password # None
    /\ tokens' = tokens \cup {u}
    /\ UNCHANGED <<sso, users, born, req, overlap, resigned>>

\* Tokens expire after a day.
Expire(u) ==
    /\ u \in tokens
    /\ tokens' = tokens \ {u}
    /\ UNCHANGED <<sso, users, born, req, overlap, resigned>>

\* The first owner of the list, which has the newest row first.
NewestOwner == {u \in Owners : \A v \in Owners : v <= u}

\* AuthMiddleware, without single sign-on: the row of the token's subject, if
\* there is one; for a request without a token the newest owner.
AuthMiddleware(c) ==
    /\ req[c].pc = "idle" /\ ~sso
    /\ \E u \in (tokens \cap Here) \cup NewestOwner :
          /\ req' = [req EXCEPT ![c] = [pc |-> "handler", caller |-> u, role |-> users[u].role,
                                        email |-> users[u].email]]
    /\ UNCHANGED <<sso, users, born, tokens, overlap, resigned>>

\* With single sign-on the row is upserted and the request goes on without a user.
SignOn(known) ==
    /\ sso
    /\ \A u \in known : users[u].provider = "oidc"
    /\ UpsertFromOIDC(known)
    /\ UNCHANGED <<sso, tokens, req, overlap, resigned>>

-----------------------------------------------------------------------------
(* The handlers.                                                           *)

\* The request is answered.  The row of the caller may have changed since the
\* middleware read it.
Answer(c) ==
    /\ req' = [req EXCEPT ![c] = Idle]
    /\ overlap' = (overlap \/ users[req[c].caller] = None \/ users[req[c].caller].role # req[c].role)

Refuse(c) ==
    /\ req[c].pc = "handler"
    /\ req' = [req EXCEPT ![c] = Idle]
    /\ UNCHANGED <<sso, users, born, tokens, overlap, resigned>>

handleInviteUser(c, email, role, password) ==
    /\ req[c].pc = "handler" /\ HasPermission(req[c].role, "owner")
    /\ CreateWithPassword(email, role, password)
    /\ Answer(c)
    /\ UNCHANGED <<sso, tokens, resigned>>

handleChangeRole(c, u, role) ==
    /\ req[c].pc = "handler" /\ HasPermission(req[c].role, "owner")
    /\ users' = IF u \in Here THEN [users EXCEPT ![u].role = role] ELSE users
    /\ resigned' = (resigned \/ u = req[c].caller)
    /\ Answer(c)
    /\ UNCHANGED <<sso, born, tokens>>

\* Faulty: nothing keeps the caller from deleting the own account.
DeleteAnyUser(c, u) ==
    /\ req[c].pc = "handler" /\ HasPermission(req[c].role, "owner")
    /\ users' = [users EXCEPT ![u] = None]
    /\ Answer(c)
    /\ UNCHANGED <<sso, born, tokens, resigned>>

handleDeleteUser(c, u) ==
    /\ req[c].pc = "handler" /\ HasPermission(req[c].role, "owner")
    /\ u # req[c].caller
    /\ users' = [users EXCEPT ![u] = None]
    /\ Answer(c)
    /\ UNCHANGED <<sso, born, tokens, resigned>>

\* handleChangePassword: the current password is verified for the e-mail
\* address read, the new one set for the id read.
handleChangePassword(c, password) ==
    /\ req[c].pc = "handler"
    /\ \E u \in Here : users[u].email = req[c].email /\ users[u].password # None
    /\ users' = IF req[c].caller \in Here
                THEN [users EXCEPT ![req[c].caller].password = password] ELSE users
    /\ Answer(c)
    /\ UNCHANGED <<sso, born, tokens, resigned>>

-----------------------------------------------------------------------------
Next ==
    \/ Bootstrap
    \/ \E u \in Users : Login(u) \/ Expire(u)
    \/ \E known \in {{}} \cup {{u} : u \in Here} : SignOn(known)
    \/ \E c \in Clients :
          \/ AuthMiddleware(c) \/ Refuse(c)
          \/ \E e \in Emails, r \in ValidRoles, p \in Passwords : handleInviteUser(c, e, r, p)
          \/ \E u \in Users, r \in ValidRoles : handleChangeRole(c, u, r)
          \/ \E u \in Users : handleDeleteUser(c, u)
          \/ \E p \in Passwords : handleChangePassword(c, p)

Spec == Init /\ [][Next]_vars

-----------------------------------------------------------------------------
\* Once there has been an owner there is one, and so somebody who can invite,
\* unless an owner changed the own role or a request acted for a caller whose
\* row had changed since the middleware read it.  The guard against deleting
\* oneself is what it rests on.
OwnerRemains == (Owners = {} /\ ~sso /\ ~overlap /\ ~resigned) => born = 0
=============================================================================
