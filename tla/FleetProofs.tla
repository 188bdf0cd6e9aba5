------------------------------ MODULE FleetProofs ------------------------------
(***************************************************************************)
(* Theorems about the parts of MCFleet: enrolment, for any number of       *)
(* machines, keys, rows and logins killed, and the dispatcher, for any     *)
(* satellites, tags, loads and deployments.                                *)
(***************************************************************************)
EXTENDS MCFleet, TLAPS

(* The statements of login, and those that write the pair. *)
PCs == {"idle", "keys", "public", "private", "check", "post", "save"}
Writing == {"public", "private"}

Logins == [pc : PCs, key : Keys \cup {None}, id : Rows \cup {None}]

(* The types of what login reads and writes. *)
FilesOK ==
  /\ pub \in [Machines -> Keys \cup {"torn", None}]
  /\ priv \in [Machines -> Keys \cup {"torn", None}]
  /\ login \in [Machines -> Logins]
  /\ \A m \in Machines : login[m].pc \in Writing => login[m].key \in Keys

(* KeysSurvive made inductive: a login writes a pair only where there is no *)
(* private key, and when it comes to the private key, the public key beside *)
(* it is the new one.                                                       *)
PairInv ==
  /\ KeysSurvive
  /\ \A m \in Machines : login[m].pc \in Writing => priv[m] = None
  /\ \A m \in Machines : login[m].pc = "private" => pub[m] = login[m].key

(* The login on m goes to pc, and those on other machines stay where they   *)
(* are.                                                                     *)
Moves(m, pc) ==
  /\ login' \in [Machines -> Logins]
  /\ login'[m].pc = pc
  /\ \A n \in Machines \ {m} : login'[n] = login[n]

(* What Goto and Return make of a login. *)
LEMMA LoginMoves ==
  ASSUME FilesOK, NEW m \in Machines
  PROVE  /\ \A pc \in PCs : Goto(m, pc) => Moves(m, pc) /\ login'[m].key = login[m].key
         /\ Return(m) => Moves(m, "idle") /\ login'[m].key = None
<1>1. login \in [Machines -> Logins]
  BY DEF FilesOK
<1>2. NoLogin \in Logins /\ NoLogin.pc = "idle" /\ NoLogin.key = None
  BY DEF NoLogin, Logins, PCs
<1>3. ASSUME NEW pc \in PCs, Goto(m, pc)
      PROVE  Moves(m, pc) /\ login'[m].key = login[m].key
  <2>1. login' = [login EXCEPT ![m] = [login[m] EXCEPT !.pc = pc]]
    BY <1>3 DEF Goto
  <2>2. login[m] \in Logins
    BY <1>1
  <2> DEFINE l == [login[m] EXCEPT !.pc = pc]
  <2>3. l \in Logins /\ l.pc = pc /\ l.key = login[m].key
    BY <2>2 DEF Logins
  <2> HIDE DEF l
  <2> QED BY <1>1, <2>1, <2>3 DEF Moves, l
<1>4. ASSUME Return(m)
      PROVE  Moves(m, "idle") /\ login'[m].key = None
  BY <1>1, <1>2, <1>4 DEF Return, Moves
<1> QED BY <1>3, <1>4

(* The statements of login that leave the key files alone. *)
LEMMA LoginElsewhere ==
  ASSUME FilesOK, NEW m \in Machines,
         \/ loadOrTOFUNexusCA(m) \/ LoginLoads(m) \/ loadLocalRegistration(m)
         \/ createSatelliteViaAPI(m) \/ PostFails(m) \/ SaveRegistration(m)
  PROVE  /\ UNCHANGED <<pub, priv>> /\ login'[m].key \in {login[m].key, None}
         /\ \E pc \in PCs \ Writing : Moves(m, pc)
<1>1. UNCHANGED <<pub, priv>>
  BY DEF loadOrTOFUNexusCA, LoginLoads, loadLocalRegistration, createSatelliteViaAPI,
         PostFails, SaveRegistration, files
<1>2. {"idle", "keys", "check", "post", "save"} \subseteq PCs \ Writing
  BY DEF PCs, Writing
<1>3. ASSUME HandleCreateSatellite(m)
      PROVE  Moves(m, "save") /\ login'[m].key = login[m].key
  <2> DEFINE old == Upserted(m)
             r == IF old = {} THEN born + 1 ELSE CHOOSE x \in old : TRUE
  <2>1. r \in Rows /\ login' = [login EXCEPT ![m].pc = "save", ![m].id = r]
    BY <1>3 DEF HandleCreateSatellite
  <2> HIDE DEF r
  <2>2. login \in [Machines -> Logins]
    BY DEF FilesOK
  <2> DEFINE l == [login[m] EXCEPT !.pc = "save", !.id = r]
  <2>3. l \in Logins /\ l.pc = "save" /\ l.key = login[m].key
    BY <2>1, <2>2, Zenon DEF Logins, PCs
  <2>4. login' = [login EXCEPT ![m] = l]
    BY <2>1, <2>2, Zenon
  <2> HIDE DEF l
  <2> QED BY <2>2, <2>3, <2>4 DEF Moves
<1> QED
  BY <1>1, <1>2, <1>3, LoginMoves
  DEF loadOrTOFUNexusCA, LoginLoads, loadLocalRegistration, createSatelliteViaAPI,
      PostFails, SaveRegistration

(* One step of a machine or of Nexus keeps the types and the pair. *)
LEMMA PairStep ==
  ASSUME FilesOK, PairInv, [Next]_vars
  PROVE  FilesOK' /\ PairInv'
<1> USE KeysAssumption DEF FilesOK, PairInv, KeysSurvive, Writing
<1>1. ASSUME NEW m \in Machines, NEW pc \in PCs \ Writing, Moves(m, pc), UNCHANGED <<pub, priv>>
      PROVE  FilesOK' /\ PairInv'
  BY <1>1 DEF Moves
<1>2. ASSUME NEW m \in Machines, GenerateEd25519KeyPair(m)
      PROVE  FilesOK' /\ PairInv'
  <2>1. PICK k \in Keys : login' = [login EXCEPT ![m].pc = "public", ![m].key = k]
    BY <1>2, Zenon DEF GenerateEd25519KeyPair, UnusedKeys
  <2>2. UNCHANGED <<pub, priv>> /\ priv[m] = None
    BY <1>2 DEF GenerateEd25519KeyPair, HasKeys, files
  <2> DEFINE l == [login[m] EXCEPT !.pc = "public", !.key = k]
  <2>3. l \in Logins /\ l.pc = "public" /\ l.key = k
    <3>1. login[m] \in Logins
      OBVIOUS
    <3> HIDE DEF FilesOK, PairInv
    <3> QED BY <3>1, Zenon DEF Logins, PCs
  <2>4. login' = [login EXCEPT ![m] = l]
    BY <2>1, Zenon
  <2> HIDE DEF l
  <2> QED BY <2>2, <2>3, <2>4
<1>3. ASSUME NEW m \in Machines, SavePublic(m)
      PROVE  FilesOK' /\ PairInv'
  <2>1. Moves(m, "private") /\ login'[m].key = login[m].key
    BY <1>3, LoginMoves DEF SavePublic, PCs
  <2>2. priv' = priv /\ pub' = [pub EXCEPT ![m] = login[m].key] /\ login[m].pc = "public"
    BY <1>3 DEF SavePublic
  <2> QED BY <2>1, <2>2 DEF Moves
<1>4. ASSUME NEW m \in Machines, SavePrivate(m)
      PROVE  FilesOK' /\ PairInv'
  <2>1. Moves(m, "check")
    BY <1>4, LoginMoves DEF SavePrivate, PCs
  <2>2. pub' = pub /\ priv' = [priv EXCEPT ![m] = login[m].key] /\ login[m].pc = "private"
    BY <1>4 DEF SavePrivate
  <2> QED BY <2>1, <2>2 DEF Moves
<1>5. ASSUME NEW m \in Machines, LoginKilled(m)
      PROVE  FilesOK' /\ PairInv'
  <2>1. PICK x \in IF login[m].pc = "public" THEN Cut(pub[m], login[m].key) ELSE {pub[m]} :
          pub' = [pub EXCEPT ![m] = x]
    BY <1>5, Zenon DEF LoginKilled
  <2>2. PICK y \in IF login[m].pc = "private" THEN Cut(priv[m], login[m].key) ELSE {priv[m]} :
          priv' = [priv EXCEPT ![m] = y]
    BY <1>5, Zenon DEF LoginKilled
  <2>3. Moves(m, "idle")
    BY <1>5, LoginMoves DEF LoginKilled
  <2>4. FilesOK'
    BY <2>1, <2>2, <2>3, Zenon DEF Cut, Moves
  <2>5. y \in Keys => x = y
    BY <2>1, <2>2 DEF Cut
  <2>6. PairInv'
    BY <2>1, <2>2, <2>3, <2>5 DEF Moves
  <2> QED BY <2>4, <2>6
<1>6. CASE UNCHANGED <<pub, priv, login>>
  BY <1>6
<1>7. ASSUME NEW m \in Machines, DaemonStep(m)
      PROVE  UNCHANGED <<pub, priv, login>>
  BY <1>7 DEF DaemonStep, runStart, Connect, RegisterUpdate, RegisterPending, RegisterInsert,
              HeartbeatPing, Break, StopDaemon, files
<1>8. ASSUME NEW r \in Rows, HandleDeleteSatellite(r)
      PROVE  UNCHANGED <<pub, priv, login>>
  BY <1>8 DEF HandleDeleteSatellite, files
<1>9. ASSUME NEW m \in Machines, LoginStep(m)
      PROVE  FilesOK' /\ PairInv'
  BY <1>1, <1>2, <1>3, <1>4, <1>9, LoginElsewhere DEF LoginStep
<1> QED BY <1>5, <1>6, <1>7, <1>8, <1>9 DEF Next, vars

(* On every machine, however many logins are killed in the middle of a      *)
(* write, a private key that is whole has its own public key beside it.     *)
THEOREM PairsMatch == Spec => []KeysSurvive
<1>1. Init => FilesOK /\ PairInv
  BY KeysAssumption DEF Init, FilesOK, PairInv, KeysSurvive, NoLogin, Writing, Logins, PCs
<1>2. FilesOK /\ PairInv /\ [Next]_vars => (FilesOK /\ PairInv)'
  BY PairStep
<1>3. PairInv => KeysSurvive
  BY DEF PairInv
<1> QED BY <1>1, <1>2, <1>3, PTL DEF Spec
-----------------------------------------------------------------------------
(***************************************************************************)
(* The row of a machine.                                                   *)
(***************************************************************************)

(* The types of what Nexus and the daemons have.                            *)
Connections == [pc : {"none", "update", "pending", "open"}, row : Rows \cup {None}]

RecordsOK ==
  /\ reg \in [Machines -> Rows \cup {None}]
  /\ rows \in [Rows -> Record \cup {None}]
  /\ daemon \in [Machines -> Identity \cup {None}]
  /\ conn \in [Machines -> Connections]
  /\ born \in Nat /\ \A r \in Here : r <= born

(* The keys of a machine are its own. *)
KeysOf(m) == {login[m].key, pub[m], priv[m]} \cap Keys

KeysApart == \A m, n \in Machines : m # n => KeysOf(m) \cap KeysOf(n) = {}

(* A row is the one that the login of the machine it is named after was     *)
(* given.  It is pending until that machine's daemon has registered, and    *)
(* has that daemon's fingerprint from then on.                              *)
RowOf(r) ==
  LET m == rows[r].name IN
  /\ m \in Machines
  /\ rows[r].status = "pending" <=> rows[r].fingerprint = None
  /\ rows[r].fingerprint # None =>
       reg[m] = r /\ rows[r].fingerprint = pub[m] /\ priv[m] \in Keys

(* A login that asks Nexus for a row has none saved. *)
LoginOf(m) ==
  /\ login[m].pc \in {"post", "save"} => reg[m] = None
  /\ login[m].pc = "save" => login[m].id \in Here /\ rows[login[m].id].name = m

(* The id saved on a machine is that of its row; its daemon was built from  *)
(* its files, and the connection is on its way to that row.                 *)
DaemonOf(m) ==
  /\ reg[m] # None => reg[m] \in Here /\ rows[reg[m]].name = m
  /\ daemon[m] # None =>
       /\ reg[m] # None /\ priv[m] \in Keys
       /\ daemon[m].id = (IF m \in Windows THEN reg[m] ELSE None) /\ daemon[m].fp = pub[m]
  /\ conn[m].pc # "none" => daemon[m] # None
  /\ conn[m].pc = "pending" => rows[reg[m]].status = "pending"
  /\ conn[m].pc = "open" => conn[m].row = reg[m] /\ rows[reg[m]].fingerprint # None

(* What holds when machines are enrolled one after the other. *)
Orderly ==
  /\ RecordsOK
  /\ \A r, s \in Here : rows[r].name = rows[s].name => r = s
  /\ \A r, s \in Pending : r = s
  /\ \A r \in Here : RowOf(r)
  /\ \A m \in Machines : LoginOf(m) /\ DaemonOf(m)

(* OwnRecord made inductive. *)
EnrolInv ==
  /\ FilesOK /\ PairInv
  /\ KeysApart
  /\ ~irregular /\ ~early => Orderly

(* A new key pair is nobody's, and login writes no key but the one it has.  *)
LEMMA KeysStayApart ==
  ASSUME FilesOK, KeysApart, [Next]_vars
  PROVE  KeysApart'
<1>1. ASSUME NEW m \in Machines, NEW k \in Keys,
             \A n \in Machines \ {m} : k \notin KeysOf(n),
             KeysOf(m)' \subseteq KeysOf(m) \cup {k},
             \A n \in Machines \ {m} : KeysOf(n)' = KeysOf(n)
      PROVE  KeysApart'
  BY <1>1 DEF KeysApart
<1>2. ASSUME NEW m \in Machines, KeysOf(m)' \subseteq KeysOf(m),
             \A n \in Machines \ {m} : KeysOf(n)' = KeysOf(n)
      PROVE  KeysApart'
  BY <1>2 DEF KeysApart
<1>3. ASSUME NEW m \in Machines, NEW pc \in PCs, Moves(m, pc), UNCHANGED <<pub, priv>>,
             login'[m].key \in {login[m].key, None}
      PROVE  KeysApart'
  BY <1>2, <1>3, KeysAssumption DEF Moves, KeysOf
<1>4. ASSUME NEW m \in Machines, GenerateEd25519KeyPair(m)
      PROVE  KeysApart'
  <2>1. PICK k \in UnusedKeys : login' = [login EXCEPT ![m] = [login[m] EXCEPT !.pc = "public", !.key = k]]
    BY <1>4, Zenon DEF GenerateEd25519KeyPair
  <2>2. k \in Keys /\ \A n \in Machines : k \notin KeysOf(n)
    BY DEF UnusedKeys, KeysOf
  <2>3. UNCHANGED <<pub, priv>>
    BY <1>4 DEF GenerateEd25519KeyPair, files
  <2>4. login[m] \in Logins /\ login \in [Machines -> Logins]
    BY DEF FilesOK
  <2> DEFINE l == [login[m] EXCEPT !.pc = "public", !.key = k]
  <2>5. l.key = k
    BY <2>4 DEF Logins
  <2> HIDE DEF l
  <2>6. login'[m].key = k /\ \A n \in Machines \ {m} : login'[n] = login[n]
    BY <2>1, <2>4, <2>5 DEF l
  <2> QED BY <1>1, <2>2, <2>3, <2>6 DEF KeysOf
<1>5. ASSUME NEW m \in Machines, SavePublic(m)
      PROVE  KeysApart'
  <2>1. Moves(m, "private") /\ login'[m].key = login[m].key
    BY <1>5, LoginMoves DEF SavePublic, PCs
  <2>2. priv' = priv /\ pub' = [pub EXCEPT ![m] = login[m].key]
    BY <1>5 DEF SavePublic
  <2> QED BY <1>2, <2>1, <2>2 DEF Moves, KeysOf, FilesOK
<1>6. ASSUME NEW m \in Machines, SavePrivate(m)
      PROVE  KeysApart'
  <2>1. Moves(m, "check") /\ login'[m].key = login[m].key
    BY <1>6, LoginMoves DEF SavePrivate, PCs
  <2>2. pub' = pub /\ priv' = [priv EXCEPT ![m] = login[m].key]
    BY <1>6 DEF SavePrivate
  <2> QED BY <1>2, <2>1, <2>2 DEF Moves, KeysOf, FilesOK
<1>7. ASSUME NEW m \in Machines, LoginKilled(m)
      PROVE  KeysApart'
  <2>1. PICK x \in {pub[m], "torn", login[m].key} : pub' = [pub EXCEPT ![m] = x]
    BY <1>7, Zenon DEF LoginKilled, Cut
  <2>2. PICK y \in {priv[m], "torn", login[m].key} : priv' = [priv EXCEPT ![m] = y]
    BY <1>7, Zenon DEF LoginKilled, Cut
  <2>3. Moves(m, "idle") /\ login'[m].key = None
    BY <1>7, LoginMoves DEF LoginKilled
  <2> QED BY <1>2, <2>1, <2>2, <2>3, KeysAssumption DEF Moves, KeysOf, FilesOK
<1>8. CASE UNCHANGED <<pub, priv, login>>
  BY <1>8 DEF KeysApart, KeysOf
<1>9. ASSUME NEW m \in Machines, DaemonStep(m)
      PROVE  UNCHANGED <<pub, priv, login>>
  BY <1>9 DEF DaemonStep, runStart, Connect, RegisterUpdate, RegisterPending, RegisterInsert,
              HeartbeatPing, Break, StopDaemon, files
<1>10. ASSUME NEW r \in Rows, HandleDeleteSatellite(r)
       PROVE  UNCHANGED <<pub, priv, login>>
  BY <1>10 DEF HandleDeleteSatellite, files
<1>11. ASSUME NEW m \in Machines, LoginStep(m)
       PROVE  KeysApart'
  BY <1>3, <1>4, <1>5, <1>6, <1>11, LoginElsewhere DEF LoginStep
<1> QED BY <1>7, <1>8, <1>9, <1>10, <1>11 DEF Next, vars

(* The steps of login before it asks for a row, and its end, leave the      *)
(* rows, the ids and the daemons alone, and the keys that are in use.       *)
LEMMA LoginKeepsOrder ==
  ASSUME FilesOK, Orderly, NEW m \in Machines, NEW pc \in PCs, Moves(m, pc),
         pc # "save", pc = "post" => reg[m] = None,
         UNCHANGED <<reg, rows, daemon, conn, born>>,
         \A n \in Machines : priv[n] \in Keys => pub'[n] = pub[n] /\ priv'[n] = priv[n]
  PROVE  Orderly'
<1>1. RecordsOK' /\ Here' = Here /\ Pending' = Pending
  BY DEF Orderly, RecordsOK, Here, Pending
<1>2. ASSUME NEW r \in Here PROVE RowOf(r)'
  BY <1>1 DEF Orderly, RowOf
<1>3. ASSUME NEW n \in Machines PROVE LoginOf(n)'
  BY <1>1 DEF Orderly, LoginOf, Moves
<1>4. ASSUME NEW n \in Machines PROVE DaemonOf(n)'
  BY <1>1 DEF Orderly, DaemonOf
<1> QED BY <1>1, <1>2, <1>3, <1>4 DEF Orderly

(* Of the rows that the daemon of m may mean, there is only its own: the    *)
(* names are those of machines, and nobody else has its fingerprint.        *)
LEMMA OnlyOwnRow ==
  ASSUME FilesOK, Orderly, KeysApart, NEW m \in Machines, daemon[m] # None
  PROVE  /\ reg[m] \in Here /\ rows[reg[m]].name = m /\ rows[reg[m]] \in Record
         /\ pub[m] \in Keys /\ priv[m] \in Keys /\ daemon[m].fp = pub[m]
         /\ \A r \in Here : rows[r].fingerprint = pub[m] => r = reg[m]
         /\ Matches(m) \subseteq {reg[m]}
         /\ Matches(m) = {} => rows[reg[m]].status = "pending"
         /\ \A n \in Machines : n # m /\ reg[n] # None => reg[n] # reg[m]
<1>1. DaemonOf(m) /\ RecordsOK
  BY DEF Orderly
<1>2. /\ reg[m] \in Here /\ rows[reg[m]].name = m /\ rows[reg[m]] \in Record
      /\ priv[m] \in Keys /\ daemon[m].fp = pub[m] /\ reg[m] \in Rows
  BY <1>1 DEF DaemonOf, RecordsOK, Here
<1>3. daemon[m] \in Identity
  BY <1>1 DEF RecordsOK
<1>4. pub[m] \in Keys
  BY <1>2, <1>3 DEF Identity
<1>5. ASSUME NEW r \in Here, rows[r].fingerprint = pub[m]
      PROVE  r = reg[m]
  <2>1. RowOf(r)
    BY DEF Orderly
  <2>2. rows[r].name \in Machines /\ reg[rows[r].name] = r /\ pub[rows[r].name] = pub[m]
    BY <1>4, <1>5, <2>1, KeysAssumption DEF RowOf
  <2>3. rows[r].name = m
    BY <1>4, <2>2 DEF KeysApart, KeysOf
  <2> QED BY <2>2, <2>3
<1>6. \A r \in Here : rows[r].name # daemon[m].fp
  BY <1>2, <1>4, NamesAssumption DEF Orderly, RowOf
<1>7. daemon[m].id = IF m \in Windows THEN reg[m] ELSE None
  BY <1>1 DEF DaemonOf
<1>8. \A r \in Here : r \in Rows /\ r # None
  BY NoneAssumption DEF Here
<1>9. Matches(m) \subseteq {reg[m]}
  BY <1>2, <1>5, <1>6, <1>7, <1>8 DEF Matches
<1>10. ASSUME Matches(m) = {} PROVE rows[reg[m]].status = "pending"
  <2>1. rows[reg[m]].fingerprint # pub[m]
    BY <1>2, <1>10 DEF Matches
  <2>2. RowOf(reg[m])
    BY <1>2 DEF Orderly
  <2> QED BY <1>2, <2>1, <2>2 DEF RowOf
<1>11. ASSUME NEW n \in Machines, n # m, reg[n] # None PROVE reg[n] # reg[m]
  <2>1. rows[reg[n]].name = n
    BY <1>11 DEF Orderly, DaemonOf
  <2> QED BY <1>2, <1>11, <2>1
<1> QED BY <1>2, <1>4, <1>5, <1>9, <1>10, <1>11

(* The row of m has met its daemon, which is connected to it or no longer   *)
(* connected (Resolve, HeartbeatPing, Break).                               *)
LEMMA RowServed ==
  ASSUME FilesOK, Orderly, KeysApart, NEW m \in Machines, daemon[m] # None,
         NEW x \in Record, x.name = m, x.status # "pending", x.fingerprint = pub[m],
         rows' = [rows EXCEPT ![reg[m]] = x],
         NEW k \in Connections, k.pc \in {"none", "open"}, k.pc = "open" => k.row = reg[m],
         conn' = [conn EXCEPT ![m] = k],
         UNCHANGED <<files, login, daemon, born>>
  PROVE  Orderly'
<1> DEFINE r == reg[m]
<1>1. /\ r \in Here /\ rows[r].name = m /\ pub[m] \in Keys /\ priv[m] \in Keys
      /\ \A n \in Machines : n # m /\ reg[n] # None => reg[n] # r
  BY OnlyOwnRow
<1>2. RecordsOK /\ r \in Rows
  BY <1>1 DEF Orderly, Here
<1> HIDE DEF r
<1>3. rows' = [rows EXCEPT ![r] = x] /\ UNCHANGED <<reg, pub, priv>>
  BY DEF r, files
<1>4. rows'[r] = x /\ \A s \in Rows \ {r} : rows'[s] = rows[s]
  BY <1>2, <1>3 DEF RecordsOK
<1>5. x # None
  BY NoneAssumption
<1>6. Here' = Here
  BY <1>1, <1>4, <1>5 DEF Here
<1>7. Pending' \subseteq Pending
  BY <1>4, <1>6 DEF Pending, Here
<1>8. conn'[m] = k /\ \A n \in Machines \ {m} : conn'[n] = conn[n]
  BY <1>2 DEF RecordsOK
<1>9. RecordsOK'
  <2>1. rows' \in [Rows -> Record \cup {None}] /\ conn' \in [Machines -> Connections]
    BY <1>2, <1>3, Zenon DEF RecordsOK
  <2> QED BY <1>2, <1>3, <1>6, <2>1 DEF RecordsOK
<1>10. \A s, t \in Here' : rows'[s].name = rows'[t].name => s = t
  <2>1. \A s \in Here : rows'[s].name = rows[s].name
    BY <1>1, <1>4 DEF Here
  <2>2. \A s, t \in Here : rows[s].name = rows[t].name => s = t
    BY DEF Orderly
  <2> QED BY <1>6, <2>1, <2>2
<1>11. \A s, t \in Pending' : s = t
  BY <1>7 DEF Orderly
<1>12. ASSUME NEW s \in Here' PROVE RowOf(s)'
  <2>1. CASE s = r
    BY <1>1, <1>3, <1>4, <2>1, KeysAssumption DEF RowOf, r
  <2>2. CASE s # r
    <3>1. RowOf(s) /\ rows'[s] = rows[s]
      BY <1>4, <1>6, <2>2 DEF Orderly, Here
    <3> QED BY <1>3, <3>1 DEF RowOf
  <2> QED BY <2>1, <2>2
<1>13. ASSUME NEW n \in Machines PROVE LoginOf(n)'
  <2>1. LoginOf(n)
    BY DEF Orderly
  <2>2. \A s \in Here : s \in Rows /\ rows'[s].name = rows[s].name
    BY <1>1, <1>4 DEF Here
  <2> QED BY <1>3, <1>6, <2>1, <2>2 DEF LoginOf
<1>14. ASSUME NEW n \in Machines PROVE DaemonOf(n)'
  <2>1. DaemonOf(n)
    BY DEF Orderly
  <2>2. CASE n = m
    BY <1>1, <1>3, <1>4, <1>6, <1>8, <2>1, <2>2, KeysAssumption DEF DaemonOf, r
  <2>3. CASE n # m
    <3>1. reg[n] # None => reg[n] \in Here /\ rows'[reg[n]] = rows[reg[n]]
      BY <1>1, <1>4, <2>1, <2>3 DEF DaemonOf, Here
    <3> QED BY <1>3, <1>6, <1>8, <2>1, <2>3, <3>1 DEF DaemonOf
  <2> QED BY <2>2, <2>3
<1> QED BY <1>9, <1>10, <1>11, <1>12, <1>13, <1>14 DEF Orderly

(* The row that createSatelliteViaAPI is given is new or pending already,   *)
(* and is no other machine's.                                               *)
LEMMA CreateKeepsOrder ==
  ASSUME FilesOK, Orderly, NEW m \in Machines, createSatelliteViaAPI(m), ~irregular'
  PROVE  Orderly'
<1> DEFINE old == Upserted(m)
           r == IF old = {} THEN born + 1 ELSE CHOOSE x \in old : TRUE
           x == [name |-> m, fingerprint |-> None, status |-> "pending"]
<1>1. /\ login[m].pc = "post" /\ r \in Rows
      /\ rows' = [rows EXCEPT ![r] = x]
      /\ born' = (IF old = {} THEN r ELSE born)
      /\ login' = [login EXCEPT ![m] = [login[m] EXCEPT !.pc = "save", !.id = r]]
      /\ UNCHANGED <<reg, pub, priv, daemon, conn>>
  BY Zenon DEF createSatelliteViaAPI, HandleCreateSatellite, files
<1>2. Pending \subseteq {r}
  BY Zenon DEF createSatelliteViaAPI, HandleCreateSatellite
<1>3. RecordsOK /\ reg[m] = None
  BY <1>1 DEF Orderly, LoginOf
<1>4. old \subseteq Here /\ \A s \in old : rows[s].name = m
  BY DEF Upserted
<1>5. r \in Here => r \in old
  <2>1. CASE old = {}
    BY <1>3, <2>1 DEF RecordsOK
  <2>2. CASE old # {}
    BY <2>2
  <2> QED BY <2>1, <2>2
<1>6. born' \in Nat /\ r <= born' /\ \A s \in Here : s <= born'
  BY <1>1, <1>3, <1>4, RowsAssumption DEF RecordsOK, Here, Rows
<1>7. \A s \in Here : rows[s].name = m => s = r
  BY <1>4, <1>5 DEF Upserted, Orderly
<1> HIDE DEF r, old
<1>8. x \in Record /\ x # None
  BY NoneAssumption DEF Record, Name
<1>9. x.name = m /\ x.fingerprint = None /\ x.status = "pending"
  OBVIOUS
<1> HIDE DEF x
<1>10. rows'[r] = x /\ \A s \in Rows \ {r} : rows'[s] = rows[s]
  BY <1>1, <1>3 DEF RecordsOK
<1>11. Here' = Here \cup {r}
  BY <1>1, <1>8, <1>10 DEF Here
<1>12. \A s \in Here \ {r} : s \in Rows /\ rows'[s] = rows[s]
  BY <1>10 DEF Here
<1>13. \A n \in Machines : reg[n] # None => reg[n] \in Here \ {r}
  BY <1>3, <1>4, <1>5 DEF Orderly, DaemonOf
<1>14. RecordsOK'
  <2>1. rows' \in [Rows -> Record \cup {None}]
    BY <1>1, <1>3, <1>8 DEF RecordsOK
  <2> QED BY <1>1, <1>3, <1>6, <1>11, <2>1 DEF RecordsOK
<1>15. \A s, t \in Here' : rows'[s].name = rows'[t].name => s = t
  BY <1>7, <1>9, <1>10, <1>11, <1>12 DEF Orderly
<1>16. \A s, t \in Pending' : s = t
  BY <1>2, <1>11, <1>12 DEF Pending
<1>17. ASSUME NEW s \in Here' PROVE RowOf(s)'
  <2>1. CASE s = r
    BY <1>9, <1>10, <2>1 DEF RowOf
  <2>2. CASE s # r
    <3>1. RowOf(s) /\ rows'[s] = rows[s]
      BY <1>11, <1>12, <2>2 DEF Orderly
    <3> QED BY <1>1, <3>1 DEF RowOf
  <2> QED BY <2>1, <2>2
<1>18. ASSUME NEW n \in Machines PROVE LoginOf(n)'
  <2>1. login \in [Machines -> Logins]
    BY DEF FilesOK
  <2>2. CASE n = m
    <3>1. login'[m].id = r
      BY <1>1, <2>1 DEF Logins
    <3>2. reg'[m] = None /\ r \in Here' /\ rows'[r].name = m
      BY <1>1, <1>3, <1>9, <1>10, <1>11
    <3> QED BY <2>2, <3>1, <3>2 DEF LoginOf
  <2>3. CASE n # m
    <3>1. login'[n] = login[n] /\ LoginOf(n)
      BY <1>1, <2>1, <2>3 DEF Orderly
    <3>2. login[n].pc = "save" => login[n].id \in Here \ {r}
      BY <1>4, <1>5, <2>3, <3>1 DEF LoginOf
    <3>3. login[n].pc = "save" => login[n].id \in Here' /\ rows'[login[n].id].name = n
      BY <1>11, <1>12, <3>1, <3>2 DEF LoginOf
    <3>4. reg' = reg
      BY <1>1
    <3> QED BY <3>1, <3>3, <3>4 DEF LoginOf
  <2> QED BY <2>2, <2>3
<1>19. ASSUME NEW n \in Machines PROVE DaemonOf(n)'
  <2>1. DaemonOf(n)
    BY DEF Orderly
  <2> QED BY <1>1, <1>11, <1>12, <1>13, <2>1 DEF DaemonOf
<1> QED BY <1>14, <1>15, <1>16, <1>17, <1>18, <1>19 DEF Orderly

(* The id that SaveRegistration writes is that of the machine's row. *)
LEMMA SaveKeepsOrder ==
  ASSUME FilesOK, Orderly, NEW m \in Machines, SaveRegistration(m)
  PROVE  Orderly'
<1>1. /\ login[m].pc = "save" /\ reg' = [reg EXCEPT ![m] = login[m].id]
      /\ UNCHANGED <<pub, priv, daemon, conn, rows, born>>
  BY DEF SaveRegistration, nexus
<1>2. Moves(m, "idle")
  BY LoginMoves DEF SaveRegistration
<1>3. /\ RecordsOK /\ reg[m] = None
      /\ login[m].id \in Here /\ rows[login[m].id].name = m
  BY <1>1 DEF Orderly, LoginOf
<1>4. /\ reg'[m] = login[m].id /\ reg'[m] # None
      /\ \A n \in Machines \ {m} : reg'[n] = reg[n]
  BY <1>1, <1>3, NoneAssumption DEF RecordsOK, Here
<1>5. Here' = Here /\ Pending' = Pending
  BY <1>1 DEF Here, Pending
<1>6. RecordsOK'
  <2>1. reg' \in [Machines -> Rows \cup {None}]
    BY <1>1, <1>3 DEF RecordsOK, Here
  <2> QED BY <1>1, <1>3, <1>5, <2>1 DEF RecordsOK
<1>7. ASSUME NEW s \in Here PROVE RowOf(s)'
  <2>1. RowOf(s)
    BY DEF Orderly
  <2>2. rows[s].fingerprint # None => rows[s].name # m
    BY <1>3, <2>1, NoneAssumption DEF RowOf, Here
  <2> QED BY <1>1, <1>4, <2>1, <2>2 DEF RowOf
<1>8. ASSUME NEW n \in Machines PROVE LoginOf(n)'
  <2>1. LoginOf(n)
    BY DEF Orderly
  <2> QED BY <1>1, <1>2, <1>4, <1>5, <2>1 DEF LoginOf, Moves
<1>9. ASSUME NEW n \in Machines PROVE DaemonOf(n)'
  <2>1. DaemonOf(n)
    BY DEF Orderly
  <2>2. CASE n = m
    BY <1>1, <1>3, <1>4, <1>5, <2>1, <2>2 DEF DaemonOf
  <2>3. CASE n # m
    <3>1. reg'[n] = reg[n]
      BY <1>4, <2>3
    <3> QED BY <1>1, <1>5, <2>1, <3>1 DEF DaemonOf
  <2> QED BY <2>2, <2>3
<1> QED BY <1>1, <1>5, <1>6, <1>7, <1>8, <1>9 DEF Orderly

(* A daemon starts, stops or gets on with its connection, and the rows stay *)
(* as they are.                                                             *)
LEMMA DaemonMoves ==
  ASSUME Orderly, NEW m \in Machines,
         NEW d \in Identity \cup {None}, daemon' = [daemon EXCEPT ![m] = d],
         NEW k \in Connections, conn' = [conn EXCEPT ![m] = k],
         UNCHANGED <<files, login, rows, born>>,
         d # None =>
           /\ reg[m] # None /\ priv[m] \in Keys
           /\ d.id = (IF m \in Windows THEN reg[m] ELSE None) /\ d.fp = pub[m],
         k.pc # "none" => d # None,
         k.pc = "pending" => rows[reg[m]].status = "pending",
         k.pc # "open"
  PROVE  Orderly'
<1>1. UNCHANGED <<reg, pub, priv>>
  BY DEF files
<1>2. RecordsOK /\ Here' = Here /\ Pending' = Pending
  BY DEF Orderly, Here, Pending
<1>3. /\ daemon'[m] = d /\ conn'[m] = k
      /\ \A n \in Machines \ {m} : daemon'[n] = daemon[n] /\ conn'[n] = conn[n]
  BY <1>2 DEF RecordsOK
<1>4. RecordsOK'
  <2>1. daemon' \in [Machines -> Identity \cup {None}] /\ conn' \in [Machines -> Connections]
    BY <1>2 DEF RecordsOK
  <2> QED BY <1>1, <1>2, <2>1 DEF RecordsOK
<1>5. ASSUME NEW r \in Here PROVE RowOf(r)'
  BY <1>1, <1>2 DEF Orderly, RowOf
<1>6. ASSUME NEW n \in Machines PROVE LoginOf(n)'
  BY <1>1, <1>2 DEF Orderly, LoginOf
<1>7. ASSUME NEW n \in Machines PROVE DaemonOf(n)'
  <2>1. DaemonOf(n)
    BY DEF Orderly
  <2>2. CASE n = m
    BY <1>1, <1>2, <1>3, <2>1, <2>2 DEF DaemonOf
  <2>3. CASE n # m
    BY <1>1, <1>2, <1>3, <2>1, <2>3 DEF DaemonOf
  <2> QED BY <2>2, <2>3
<1> QED BY <1>2, <1>4, <1>5, <1>6, <1>7 DEF Orderly

(* The steps of a daemon and of its connection, while no daemon is started  *)
(* too early.                                                               *)
LEMMA DaemonKeepsOrder ==
  ASSUME FilesOK, PairInv, Orderly, KeysApart, NEW m \in Machines, DaemonStep(m), ~early'
  PROVE  Orderly'
<1>1. RecordsOK /\ DaemonOf(m) /\ conn[m] \in Connections
  BY DEF Orderly, RecordsOK
<1>2. daemon = [daemon EXCEPT ![m] = daemon[m]] /\ conn = [conn EXCEPT ![m] = conn[m]]
  BY <1>1 DEF RecordsOK
<1>3. Closed \in Connections /\ Closed.pc = "none"
  BY DEF Closed, Connections
<1>4. ASSUME NEW pc \in {"update", "pending"}
      PROVE  /\ [conn[m] EXCEPT !.pc = pc] \in Connections
             /\ [conn[m] EXCEPT !.pc = pc].pc = pc
  BY <1>1 DEF Connections
<1>5. daemon[m] # None =>
        /\ reg[m] # None /\ priv[m] \in Keys
        /\ daemon[m].id = (IF m \in Windows THEN reg[m] ELSE None) /\ daemon[m].fp = pub[m]
  BY <1>1 DEF DaemonOf
<1>6. ASSUME runStart(m) PROVE Orderly'
  <2> DEFINE d == buildDaemonConfig(m)
  <2>1. reg[m] # None
    BY Zenon, <1>6 DEF runStart
  <2>2. pub[m] \in Keys /\ priv[m] \in Keys /\ LoadKeyPair(m) = pub[m]
    BY <1>6 DEF runStart, LoadKeyPair
  <2>3. /\ daemon[m] = None /\ daemon' = [daemon EXCEPT ![m] = d]
        /\ UNCHANGED <<files, login, conn, rows, born>>
    BY <1>6 DEF runStart
  <2>4. conn[m].pc = "none"
    BY <1>1, <2>3 DEF DaemonOf
  <2>5. d.id = (IF m \in Windows THEN reg[m] ELSE None) /\ d.fp = pub[m] /\ d \in Identity
    BY <1>1, <2>2, Zenon DEF buildDaemonConfig, Identity, RecordsOK
  <2> HIDE DEF d
  <2>6. conn' = [conn EXCEPT ![m] = conn[m]]
    BY <1>2, <2>3
  <2> QED BY <1>1, <2>1, <2>2, <2>3, <2>4, <2>5, <2>6, DaemonMoves, Zenon
<1>7. ASSUME NEW k \in Connections, k.pc = "none" \/ k.pc = "update" \/ k.pc = "pending",
             conn' = [conn EXCEPT ![m] = k], daemon[m] # None,
             k.pc = "pending" => rows[reg[m]].status = "pending",
             UNCHANGED <<files, login, daemon, rows, born>>
      PROVE  Orderly'
  <2>1. daemon' = [daemon EXCEPT ![m] = daemon[m]] /\ daemon[m] \in Identity \cup {None}
    BY <1>1, <1>2, <1>7 DEF RecordsOK
  <2>2. k.pc # "open"
    BY <1>7
  <2> QED BY <1>5, <1>7, <2>1, <2>2, DaemonMoves, Zenon
<1>8. ASSUME Connect(m) PROVE Orderly'
  <2>1. /\ daemon[m] # None /\ conn' = [conn EXCEPT ![m] = [conn[m] EXCEPT !.pc = "update"]]
        /\ UNCHANGED <<files, login, daemon, rows, born>>
    BY <1>8 DEF Connect, nexus
  <2> QED BY <1>4, <1>7, <2>1, Zenon
<1>9. ASSUME Resolve(m, reg[m]), daemon[m] # None, UNCHANGED <<files, login, daemon, born>>
      PROVE  Orderly'
  <2> DEFINE x == [rows[reg[m]] EXCEPT !.status = "active", !.fingerprint = pub[m]]
             k == [pc |-> "open", row |-> reg[m]]
  <2>1. rows[reg[m]] \in Record /\ rows[reg[m]].name = m /\ reg[m] \in Rows
        /\ pub[m] \in Keys /\ daemon[m].fp = pub[m]
    BY <1>9, OnlyOwnRow, Zenon DEF Here
  <2>2. rows' = [rows EXCEPT ![reg[m]] = x] /\ conn' = [conn EXCEPT ![m] = k]
    BY <1>9, <2>1, Zenon DEF Resolve
  <2>3. x \in Record /\ x.name = m /\ x.status = "active" /\ x.fingerprint = pub[m]
    BY <2>1, Zenon DEF Record
  <2>4. k \in Connections /\ k.pc = "open" /\ k.row = reg[m]
    BY <2>1 DEF Connections
  <2> HIDE DEF x, k
  <2> QED BY <1>9, <2>2, <2>3, <2>4, RowServed, Zenon
<1>10. ASSUME RegisterUpdate(m) PROVE Orderly'
  <2>1. conn[m].pc = "update" /\ daemon[m] # None /\ UNCHANGED <<files, login, daemon, born>>
    BY <1>1, <1>10 DEF RegisterUpdate, DaemonOf
  <2>2. /\ Matches(m) \subseteq {reg[m]}
        /\ Matches(m) = {} => rows[reg[m]].status = "pending"
    BY <2>1, OnlyOwnRow
  <2>3. CASE Matches(m) = {}
    <3>1. conn' = [conn EXCEPT ![m] = [conn[m] EXCEPT !.pc = "pending"]] /\ UNCHANGED rows
      BY <1>10, <2>3 DEF RegisterUpdate
    <3> QED BY <1>4, <1>7, <2>1, <2>2, <2>3, <3>1, Zenon
  <2>4. CASE Matches(m) = {reg[m]}
    <3>1. Resolve(m, reg[m])
      BY <1>1, <1>10, <2>4 DEF RegisterUpdate, RecordsOK, Matches, Here
    <3> QED BY <1>9, <2>1, <3>1
  <2> QED BY <2>2, <2>3, <2>4
<1>11. ASSUME RegisterPending(m) PROVE Orderly'
  <2>1. /\ conn[m].pc = "pending" /\ daemon[m] # None /\ rows[reg[m]].status = "pending"
        /\ UNCHANGED <<files, login, daemon, born>>
    BY <1>1, <1>11 DEF RegisterPending, DaemonOf
  <2>2. Pending = {reg[m]} /\ reg[m] \in Rows
    <3>1. reg[m] \in Here
      BY <2>1, OnlyOwnRow
    <3>2. reg[m] \in Pending /\ reg[m] \in Rows
      BY <2>1, <3>1 DEF Pending, Here
    <3>3. \A r, s \in Pending : r = s
      BY DEF Orderly
    <3> QED BY <3>2, <3>3, Zenon
  <2>3. Newest = reg[m]
    BY <2>2, RowsAssumption DEF Newest, Rows
  <2>4. Unique(m, reg[m])
    BY <2>1, OnlyOwnRow DEF Unique
  <2>5. Resolve(m, reg[m])
    BY <1>11, <2>2, <2>3, <2>4 DEF RegisterPending
  <2> QED BY <1>9, <2>1, <2>5
<1>12. ~ RegisterInsert(m)
  BY <1>1 DEF RegisterInsert, Connections
<1>13. ASSUME conn[m].pc = "open", NEW st \in {"active", "offline"}, NEW k \in Connections,
              rows' = [rows EXCEPT ![reg[m]] = [rows[reg[m]] EXCEPT !.status = st]],
              k.pc \in {"none", "open"}, k.pc = "open" => k.row = reg[m],
              conn' = [conn EXCEPT ![m] = k],
              UNCHANGED <<files, login, daemon, born>>
       PROVE  Orderly'
  <2>1. daemon[m] # None /\ rows[reg[m]].fingerprint # None
    BY <1>1, <1>13 DEF DaemonOf
  <2>2. rows[reg[m]] \in Record /\ rows[reg[m]].name = m /\ reg[m] \in Here
    BY <2>1, OnlyOwnRow
  <2>3. rows[reg[m]].fingerprint = pub[m]
    BY <2>1, <2>2 DEF Orderly, RowOf
  <2> DEFINE x == [rows[reg[m]] EXCEPT !.status = st]
  <2>4. x \in Record /\ x.name = m /\ x.status # "pending" /\ x.fingerprint = pub[m]
    BY <2>2, <2>3 DEF Record
  <2>5. rows' = [rows EXCEPT ![reg[m]] = x]
    BY <1>13
  <2> HIDE DEF x
  <2> QED BY <1>13, <2>1, <2>4, <2>5, RowServed, Zenon
<1>14. ASSUME HeartbeatPing(m) PROVE Orderly'
  <2>1. conn[m].pc = "open" /\ conn[m].row = reg[m]
    BY <1>1, <1>14 DEF HeartbeatPing, DaemonOf
  <2>2. /\ rows' = [rows EXCEPT ![reg[m]] = [rows[reg[m]] EXCEPT !.status = "active"]]
        /\ UNCHANGED <<files, login, daemon, conn, born>>
    BY <1>14, <2>1 DEF HeartbeatPing
  <2>3. conn' = [conn EXCEPT ![m] = conn[m]]
    BY <1>2, <2>2
  <2> QED BY <1>1, <1>13, <2>1, <2>2, <2>3, Zenon
<1>15. ASSUME Break(m) PROVE Orderly'
  <2>1. /\ rows' = [r \in Rows |-> IF r \in Served(m) THEN [rows[r] EXCEPT !.status = "offline"] ELSE rows[r]]
        /\ conn' = [conn EXCEPT ![m] = Closed] /\ UNCHANGED <<files, login, daemon, born>>
        /\ conn[m] # Closed
    BY <1>15 DEF Break
  <2>2. CASE conn[m].pc = "open"
    <3>1. conn[m].row = reg[m] /\ daemon[m] # None
      BY <1>1, <2>2 DEF DaemonOf
    <3>2. reg[m] \in Here
      BY <3>1, OnlyOwnRow
    <3>3. Served(m) = {reg[m]}
      BY <2>2, <3>1, <3>2 DEF Served
    <3>4. rows' = [rows EXCEPT ![reg[m]] = [rows[reg[m]] EXCEPT !.status = "offline"]]
      BY <1>1, <2>1, <3>3, Zenon DEF RecordsOK
    <3> QED BY <1>3, <1>13, <2>1, <2>2, <3>4, Zenon
  <2>3. CASE conn[m].pc # "open"
    <3>1. Served(m) = {}
      BY <1>1, <2>3 DEF Served, Connections
    <3>2. rows' = rows
      BY <1>1, <2>1, <3>1 DEF RecordsOK
    <3>3. daemon' = [daemon EXCEPT ![m] = daemon[m]] /\ daemon[m] \in Identity \cup {None}
      BY <1>1, <1>2, <2>1 DEF RecordsOK
    <3> QED BY <1>3, <1>5, <2>1, <3>2, <3>3, DaemonMoves, Zenon
  <2> QED BY <2>2, <2>3
<1>16. ASSUME StopDaemon(m) PROVE Orderly'
  <2>1. /\ daemon' = [daemon EXCEPT ![m] = None] /\ conn[m] = Closed
        /\ UNCHANGED <<files, login, conn, rows, born>>
    BY <1>16 DEF StopDaemon, nexus
  <2>2. conn' = [conn EXCEPT ![m] = Closed]
    BY <1>2, <2>1
  <2> QED BY <1>3, <2>1, <2>2, DaemonMoves, Zenon
<1> QED BY <1>6, <1>8, <1>10, <1>11, <1>12, <1>14, <1>15, <1>16 DEF DaemonStep

(* The steps of a login, whole or killed. *)
LEMMA LoginKeepsAll ==
  ASSUME FilesOK, PairInv, Orderly, NEW m \in Machines, LoginStep(m) \/ LoginKilled(m), ~irregular'
  PROVE  Orderly'
<1> USE DEF nexus, files, PCs
<1>1. ASSUME NEW pc \in PCs, Moves(m, pc), pc # "save", pc = "post" => reg[m] = None,
             UNCHANGED <<reg, rows, daemon, conn, born, pub, priv>>
      PROVE  Orderly'
  BY <1>1, LoginKeepsOrder
<1>2. ASSUME loadOrTOFUNexusCA(m) PROVE Orderly'
  BY <1>1, <1>2, LoginMoves DEF loadOrTOFUNexusCA
<1>3. ASSUME LoginLoads(m) PROVE Orderly'
  BY <1>1, <1>3, LoginMoves DEF LoginLoads
<1>4. ASSUME loadLocalRegistration(m) PROVE Orderly'
  BY <1>1, <1>4, LoginMoves DEF loadLocalRegistration
<1>5. ASSUME PostFails(m) PROVE Orderly'
  BY <1>1, <1>5, LoginMoves DEF PostFails
<1>6. ASSUME GenerateEd25519KeyPair(m) PROVE Orderly'
  <2>1. PICK k \in Keys : login' = [login EXCEPT ![m] = [login[m] EXCEPT !.pc = "public", !.key = k]]
    BY <1>6, Zenon DEF GenerateEd25519KeyPair, UnusedKeys
  <2>2. login \in [Machines -> Logins]
    BY DEF FilesOK
  <2> DEFINE l == [login[m] EXCEPT !.pc = "public", !.key = k]
  <2>3. l \in Logins /\ l.pc = "public"
    BY <2>2, Zenon DEF Logins
  <2>4. login' = [login EXCEPT ![m] = l]
    BY <2>1
  <2> HIDE DEF l
  <2>5. Moves(m, "public")
    BY <2>2, <2>3, <2>4 DEF Moves
  <2> QED BY <1>1, <1>6, <2>5 DEF GenerateEd25519KeyPair
<1>7. ASSUME SavePublic(m) PROVE Orderly'
  <2>1. Moves(m, "private")
    BY <1>7, LoginMoves DEF SavePublic
  <2>2. /\ pub' = [pub EXCEPT ![m] = login[m].key] /\ login[m].pc = "public"
        /\ UNCHANGED <<reg, rows, daemon, conn, born, priv>>
    BY <1>7 DEF SavePublic
  <2>3. priv[m] \notin Keys
    BY <2>2, KeysAssumption DEF PairInv, Writing
  <2>4. \A n \in Machines : priv[n] \in Keys => pub'[n] = pub[n] /\ priv'[n] = priv[n]
    BY <2>2, <2>3 DEF FilesOK
  <2> QED BY <2>1, <2>2, <2>4, LoginKeepsOrder
<1>8. ASSUME SavePrivate(m) PROVE Orderly'
  <2>1. Moves(m, "check")
    BY <1>8, LoginMoves DEF SavePrivate
  <2>2. /\ priv' = [priv EXCEPT ![m] = login[m].key] /\ login[m].pc = "private"
        /\ UNCHANGED <<reg, rows, daemon, conn, born, pub>>
    BY <1>8 DEF SavePrivate
  <2>3. priv[m] \notin Keys
    BY <2>2, KeysAssumption DEF PairInv, Writing
  <2>4. \A n \in Machines : priv[n] \in Keys => pub'[n] = pub[n] /\ priv'[n] = priv[n]
    BY <2>2, <2>3 DEF FilesOK
  <2> QED BY <2>1, <2>2, <2>4, LoginKeepsOrder
<1>9. ASSUME LoginKilled(m) PROVE Orderly'
  <2>1. Moves(m, "idle") /\ UNCHANGED <<reg, rows, daemon, conn, born>>
    BY <1>9, LoginMoves DEF LoginKilled
  <2>2. priv[m] \in Keys => login[m].pc \notin {"public", "private"}
    BY KeysAssumption DEF PairInv, Writing
  <2>3. /\ \E x : pub' = [pub EXCEPT ![m] = x] /\ (login[m].pc # "public" => x = pub[m])
        /\ \E y : priv' = [priv EXCEPT ![m] = y] /\ (login[m].pc # "private" => y = priv[m])
    BY <1>9, Zenon DEF LoginKilled
  <2>4. \A n \in Machines : priv[n] \in Keys => pub'[n] = pub[n] /\ priv'[n] = priv[n]
    BY <2>2, <2>3 DEF FilesOK
  <2> QED BY <2>1, <2>4, LoginKeepsOrder
<1> QED
  BY <1>2, <1>3, <1>4, <1>5, <1>6, <1>7, <1>8, <1>9, CreateKeepsOrder, SaveKeepsOrder DEF LoginStep

(* As long as rows are neither deleted nor pending two at a time and no     *)
(* daemon starts too early, one step keeps the order; and what has happened *)
(* stays so.                                                                *)
LEMMA EnrolStep ==
  ASSUME EnrolInv, [Next]_vars
  PROVE  EnrolInv'
<1>1. FilesOK' /\ PairInv' /\ KeysApart'
  BY PairStep, KeysStayApart DEF EnrolInv
<1>2. ASSUME ~irregular', ~early' PROVE ~irregular /\ ~early
  <2>1. ASSUME NEW m \in Machines, LoginStep(m) \/ LoginKilled(m) PROVE ~irregular /\ ~early
    <3>1. CASE createSatelliteViaAPI(m)
      BY Zenon, <1>2, <3>1 DEF createSatelliteViaAPI, HandleCreateSatellite
    <3>2. CASE ~ createSatelliteViaAPI(m)
      <4>1. UNCHANGED <<irregular, early>>
        BY <2>1, <3>2
        DEF LoginStep, loadOrTOFUNexusCA, LoginLoads, GenerateEd25519KeyPair, SavePublic, SavePrivate,
            loadLocalRegistration, PostFails, SaveRegistration, LoginKilled, nexus
      <4> QED BY <1>2, <4>1
    <3> QED BY <3>1, <3>2
  <2>2. ASSUME NEW m \in Machines, DaemonStep(m) PROVE ~irregular /\ ~early
    <3>1. CASE runStart(m)
      BY Zenon, <1>2, <3>1 DEF runStart
    <3>2. CASE ~ runStart(m)
      <4>1. UNCHANGED <<irregular, early>>
        BY <2>2, <3>2
        DEF DaemonStep, Connect, RegisterUpdate, RegisterPending, RegisterInsert,
            HeartbeatPing, Break, StopDaemon, nexus
      <4> QED BY <1>2, <4>1
    <3> QED BY <3>1, <3>2
  <2>3. ASSUME NEW r \in Rows, HandleDeleteSatellite(r) PROVE FALSE
    BY <1>2, <2>3 DEF HandleDeleteSatellite
  <2>4. CASE UNCHANGED vars
    BY <1>2, <2>4 DEF vars
  <2> QED BY <2>1, <2>2, <2>3, <2>4 DEF Next
<1>3. ASSUME ~irregular', ~early' PROVE Orderly'
  <2>1. FilesOK /\ PairInv /\ KeysApart /\ Orderly
    BY <1>2, <1>3 DEF EnrolInv
  <2>2. ASSUME NEW m \in Machines, LoginStep(m) \/ LoginKilled(m) PROVE Orderly'
    BY <1>3, <2>1, <2>2, LoginKeepsAll
  <2>3. ASSUME NEW m \in Machines, DaemonStep(m) PROVE Orderly'
    BY <1>3, <2>1, <2>3, DaemonKeepsOrder
  <2>4. ASSUME NEW r \in Rows, HandleDeleteSatellite(r) PROVE FALSE
    BY <1>3, <2>4 DEF HandleDeleteSatellite
  <2>5. CASE UNCHANGED vars
    <3>1. Here' = Here /\ Pending' = Pending
      BY <2>5 DEF vars, Here, Pending
    <3>2. RecordsOK' /\ \A r \in Here : RowOf(r)'
      BY <2>1, <2>5, <3>1, Zenon DEF vars, Orderly, RecordsOK, RowOf
    <3>3. \A m \in Machines : LoginOf(m)' /\ DaemonOf(m)'
      BY <2>1, <2>5, <3>1 DEF vars, Orderly, LoginOf, DaemonOf
    <3> QED BY <2>1, <2>5, <3>1, <3>2, <3>3 DEF vars, Orderly
  <2> QED BY <2>2, <2>3, <2>4, <2>5 DEF Next
<1> QED BY <1>1, <1>3 DEF EnrolInv

(* When machines are enrolled one after the other, a connected daemon is    *)
(* served by the row that its own machine's login was given, for any number *)
(* of machines, whatever connections break and logins are killed and        *)
(* repeated (login.go:122-167, gateway.go:234-271).                         *)
THEOREM ServedByOwnRow == Spec => []OwnRecord
<1>1. Init => EnrolInv
  <2> SUFFICES ASSUME Init PROVE EnrolInv
    OBVIOUS
  <2>1. FilesOK /\ PairInv
    BY KeysAssumption DEF Init, FilesOK, PairInv, KeysSurvive, NoLogin, Writing, Logins, PCs
  <2>2. KeysApart
    BY KeysAssumption DEF Init, KeysApart, KeysOf, NoLogin
  <2>3. Here = {} /\ Pending = {}
    BY DEF Init, Here, Pending
  <2>4. RecordsOK
    BY <2>3 DEF Init, RecordsOK, Connections, Closed
  <2>5. \A m \in Machines : LoginOf(m) /\ DaemonOf(m)
    BY DEF Init, LoginOf, DaemonOf, NoLogin, Closed
  <2> QED BY <2>1, <2>2, <2>3, <2>4, <2>5 DEF EnrolInv, Orderly
<1>2. EnrolInv /\ [Next]_vars => EnrolInv'
  BY EnrolStep
<1>3. EnrolInv => OwnRecord
  BY Zenon DEF EnrolInv, OwnRecord, Orderly, DaemonOf
<1> QED BY <1>1, <1>2, <1>3, PTL DEF Spec

-----------------------------------------------------------------------------
(***************************************************************************)
(* The dispatcher.                                                         *)
(***************************************************************************)

Load == [cpu : Cpus, mem : Mems, disk : Disks]
Order == [require : SUBSET Tags, prefer : SUBSET Tags, target : Targets \cup {None}]

(* A row of satellites, one that the dispatcher read with its telemetry,    *)
(* and what is left of those.                                               *)
SatRow == [name : Names, status : {"pending", "active", "offline"}, tags : SUBSET Tags]
Read == [tags : SUBSET Tags, load : Load]
Candidates == UNION {[D -> Read] : D \in SUBSET Sats!Satellites}

Deployment == [pc : {"idle", "query", "filter", "verify", "session", "run", "send"},
               order : Order \cup {None}, rows : Candidates \cup {None},
               todo : SUBSET Sats!Satellites, chosen : Sats!Satellites \cup Targets \cup {None},
               session : {0} \cup 1 .. MaxSessions]

FleetTypes ==
  /\ sat \in [Sats!Satellites -> SatRow \cup {None}]
  /\ telemetry \in [Sats!Satellites -> Load \cup {None}]
  /\ req \in [Clients -> Deployment]

(* What was read has the required tags. *)
Fit(q) == q.order \in Order /\ q.rows \in Candidates
          /\ \A s \in DOMAIN q.rows : q.order.require \subseteq q.rows[s].tags

(* The satellite chosen is one of those read, and none has a higher score.  *)
Best(q) ==
  /\ q.chosen \in DOMAIN q.rows
  /\ \A t \in DOMAIN q.rows :
       Sats!scoreSatellite(q.rows[t], q.order.prefer) <= Sats!scoreSatellite(q.rows[q.chosen], q.order.prefer)

(* NotDominated made inductive: what the dispatcher read, until it has      *)
(* chosen.                                                                  *)
Dispatched(q) ==
  /\ q.pc = "query" => q.order \in Order
  /\ q.pc = "filter" => Fit(q)
  /\ q.pc = "verify" /\ q.order.target = None => Fit(q) /\ Best(q)

FleetInv == FleetTypes /\ \A c \in Clients : Dispatched(req[c])

(* The deployment of c goes on as q. *)
LEMMA DeploymentMoves ==
  ASSUME FleetInv, NEW c \in Clients, NEW q \in Deployment, Dispatched(q),
         req' = [req EXCEPT ![c] = q], UNCHANGED <<sat, telemetry>>
  PROVE  FleetInv'
<1>1. req' \in [Clients -> Deployment]
  BY DEF FleetInv, FleetTypes
<1>2. ASSUME NEW d \in Clients PROVE Dispatched(req'[d])
  BY DEF FleetInv, FleetTypes
<1> QED BY <1>1, <1>2 DEF FleetInv, FleetTypes

(* A deployment that is refused or done is no longer a deployment. *)
LEMMA IdleIsIdle == Sats!Idle \in Deployment /\ Dispatched(Sats!Idle)
BY DEF Sats!Idle, Deployment, Dispatched

(* The rows that a step of the API, of the liveness checker or of the       *)
(* gateway changes stay rows.                                               *)
LEMMA RowsStay ==
  ASSUME FleetInv, sat' \in [Sats!Satellites -> SatRow \cup {None}],
         telemetry' \in [Sats!Satellites -> Load \cup {None}], UNCHANGED req
  PROVE  FleetInv'
BY DEF FleetInv, FleetTypes

(* One step of the API, the gateway or a deployment.                        *)
LEMMA FleetStep ==
  ASSUME FleetInv, [Sats!Next]_(Sats!vars)
  PROVE  FleetInv'
<1>1. /\ sat \in [Sats!Satellites -> SatRow \cup {None}]
      /\ telemetry \in [Sats!Satellites -> Load \cup {None}]
      /\ req \in [Clients -> Deployment]
  BY DEF FleetInv, FleetTypes
<1>2. ASSUME NEW n \in Names, Sats!HandleCreateSatellite(n)
      PROVE  FleetInv'
  <2>1. [name |-> n, status |-> "pending", tags |-> {}] \in SatRow
    BY DEF SatRow
  <2>2. ASSUME NEW s \in Sats!Named(n) PROVE [sat[s] EXCEPT !.status = "pending"] \in SatRow
    <3>1. sat[s] \in SatRow
      BY <1>1 DEF Sats!Named, Sats!Here
    <3> QED BY <3>1 DEF SatRow
  <2>3. sat' \in [Sats!Satellites -> SatRow \cup {None}] /\ UNCHANGED <<telemetry, req>>
    <3> DEFINE fresh == [name |-> n, status |-> "pending", tags |-> {}]
               again == [s \in Sats!Satellites |->
                           IF s \in Sats!Named(n) THEN [sat[s] EXCEPT !.status = "pending"] ELSE sat[s]]
    <3>1. /\ sat' = again \/ sat' = [sat EXCEPT ![made'] = fresh]
          /\ UNCHANGED <<telemetry, req>>
      BY <1>2 DEF Sats!HandleCreateSatellite, Sats!deploys
    <3>2. again \in [Sats!Satellites -> SatRow \cup {None}]
      BY <1>1, <2>2
    <3> HIDE DEF fresh, again
    <3>3. fresh \in SatRow
      BY <2>1, Zenon DEF fresh
    <3> QED BY <1>1, <3>1, <3>2, <3>3
  <2> QED BY <1>1, <2>3, RowsStay
<1>3. ASSUME NEW s \in Sats!Satellites,
             \/ Sats!HandleDeleteSatellite(s) \/ Sats!TelemetryAges(s)
             \/ Sats!RegisterStream(s) \/ Sats!UnregisterStream(s)
      PROVE  FleetInv'
  <2>1. /\ sat' \in [Sats!Satellites -> SatRow \cup {None}]
        /\ telemetry' \in [Sats!Satellites -> Load \cup {None}] /\ UNCHANGED req
    BY <1>1, <1>3 DEF Sats!HandleDeleteSatellite, Sats!TelemetryAges, Sats!RegisterStream,
                      Sats!UnregisterStream, Sats!deploys
  <2> QED BY <2>1, RowsStay
<1>4. ASSUME NEW s \in Sats!Satellites, NEW row \in SatRow,
             sat' = [sat EXCEPT ![s] = row], UNCHANGED <<telemetry, req>>
      PROVE  FleetInv'
  <2>1. sat' \in [Sats!Satellites -> SatRow \cup {None}]
    BY <1>1, <1>4
  <2> QED BY <1>1, <1>4, <2>1, RowsStay
<1>5. ASSUME NEW s \in Sats!Satellites, Sats!MarkOffline(s)
      PROVE  FleetInv'
  <2>1. sat[s] \in SatRow /\ sat' = [sat EXCEPT ![s] = [sat[s] EXCEPT !.status = "offline"]]
        /\ UNCHANGED <<telemetry, req>>
    BY <1>1, <1>5 DEF Sats!MarkOffline, Sats!deploys
  <2>2. [sat[s] EXCEPT !.status = "offline"] \in SatRow
    BY <2>1 DEF SatRow
  <2> QED BY <1>4, <2>1, <2>2, Zenon
<1>6. ASSUME NEW s \in Sats!Satellites, NEW n \in Names, Sats!HandleRenameSatellite(s, n)
      PROVE  FleetInv'
  <2>1. sat[s] \in SatRow /\ sat' = [sat EXCEPT ![s] = [sat[s] EXCEPT !.name = n]]
        /\ UNCHANGED <<telemetry, req>>
    BY <1>1, <1>6 DEF Sats!HandleRenameSatellite, Sats!deploys
  <2>2. [sat[s] EXCEPT !.name = n] \in SatRow
    BY <2>1 DEF SatRow
  <2> QED BY <1>4, <2>1, <2>2, Zenon
<1>7. ASSUME NEW s \in Sats!Satellites, NEW tags \in SUBSET Tags, Sats!HandleUpdateSatelliteTags(s, tags)
      PROVE  FleetInv'
  <2>1. sat[s] \in SatRow /\ sat' = [sat EXCEPT ![s] = [sat[s] EXCEPT !.tags = tags]]
        /\ UNCHANGED <<telemetry, req>>
    BY <1>1, <1>7 DEF Sats!HandleUpdateSatelliteTags, Sats!deploys
  <2>2. [sat[s] EXCEPT !.tags = tags] \in SatRow
    BY <2>1 DEF SatRow
  <2> QED BY <1>4, <2>1, <2>2, Zenon
<1>8. ASSUME NEW s \in Sats!Satellites, NEW load \in Load, Sats!TelemetryReport(s, load)
      PROVE  FleetInv'
  <2>1. telemetry' \in [Sats!Satellites -> Load \cup {None}] /\ UNCHANGED <<sat, req>>
    BY <1>1, <1>8 DEF Sats!TelemetryReport, Sats!deploys
  <2> QED BY <1>1, <2>1, RowsStay
<1>9. ASSUME NEW known \in {{}} \cup {{s} : s \in Sats!Here}, Sats!HandleSatelliteHeartbeat(known)
      PROVE  FleetInv'
  <2> DEFINE pending == {s \in Sats!Here : sat[s].status = "pending"}
             newest == {s \in pending : \A t \in pending : t <= s}
             hit == IF known # {} THEN known ELSE newest
  <2>1. hit \subseteq Sats!Here
    OBVIOUS
  <2>2. sat' = [s \in Sats!Satellites |-> IF s \in hit THEN [sat[s] EXCEPT !.status = "active"] ELSE sat[s]]
        /\ UNCHANGED <<telemetry, req>>
    BY <1>9 DEF Sats!HandleSatelliteHeartbeat, Sats!deploys
  <2> HIDE DEF hit
  <2>3. ASSUME NEW s \in hit PROVE [sat[s] EXCEPT !.status = "active"] \in SatRow
    <3>1. sat[s] \in SatRow
      BY <1>1, <2>1 DEF Sats!Here
    <3> QED BY <3>1 DEF SatRow
  <2>4. sat' \in [Sats!Satellites -> SatRow \cup {None}]
    BY <1>1, <2>2, <2>3
  <2> QED BY <1>1, <2>2, <2>4, RowsStay
<1>10. ASSUME NEW c \in Clients, NEW o \in Order, Sats!DeployAgent(c, o)
       PROVE  FleetInv'
  <2> DEFINE q == [Sats!Idle EXCEPT !.order = o, !.pc = IF o.target = None THEN "query" ELSE "verify",
                                    !.chosen = o.target]
  <2>1. req' = [req EXCEPT ![c] = q] /\ UNCHANGED <<sat, telemetry>>
    BY <1>10 DEF Sats!DeployAgent, Sats!fleet
  <2>2. q \in Deployment /\ Dispatched(q)
    BY IdleIsIdle, Zenon DEF Deployment, Dispatched, Order, Sats!Idle
  <2> HIDE DEF q
  <2> QED BY <2>1, <2>2, DeploymentMoves, Zenon
<1>11. ASSUME NEW c \in Clients, Sats!QueryCandidates(c)
       PROVE  FleetInv'
  <2> DEFINE left == {s \in Sats!Here : /\ sat[s].status = "active" /\ telemetry[s] # None
                                       /\ Sats!hasAllRequiredTags(sat[s].tags, req[c].order.require)}
             found == [s \in left |-> [tags |-> sat[s].tags, load |-> telemetry[s]]]
             q == [req[c] EXCEPT !.pc = "filter", !.todo = left, !.rows = found]
  <2>1. req[c].pc = "query" /\ req' = [req EXCEPT ![c] = q] /\ UNCHANGED <<sat, telemetry>>
    BY <1>1, <1>11, Zenon DEF Sats!QueryCandidates, Sats!fleet
  <2>2. ASSUME NEW s \in left
        PROVE  /\ [tags |-> sat[s].tags, load |-> telemetry[s]] \in Read
               /\ req[c].order.require \subseteq sat[s].tags
    <3>1. sat[s] \in SatRow /\ telemetry[s] \in Load
      BY <1>1, <2>2 DEF Sats!Here
    <3> QED BY <2>2, <3>1 DEF SatRow, Read, Sats!hasAllRequiredTags
  <2>3. left \in SUBSET Sats!Satellites
    BY DEF Sats!Here
  <2>4. found \in Candidates /\ DOMAIN found = left
    <3>1. found \in [left -> Read]
      BY <2>2
    <3> HIDE DEF found, left
    <3> QED BY <2>3, <3>1 DEF Candidates
  <2>5. \A s \in DOMAIN found : req[c].order.require \subseteq found[s].tags
    BY <2>2, Zenon
  <2>6. req[c] \in Deployment /\ req[c].order \in Order
    BY <1>1, <2>1 DEF FleetInv, Dispatched
  <2> HIDE DEF found, left
  <2>7. /\ q \in Deployment /\ q.pc = "filter"
        /\ q.order = req[c].order /\ q.rows = found
    BY <2>3, <2>4, <2>6, Zenon DEF Deployment
  <2> HIDE DEF q
  <2>8. Dispatched(q)
    BY <2>4, <2>5, <2>6, <2>7 DEF Dispatched, Fit
  <2> QED BY <2>1, <2>7, <2>8, DeploymentMoves, Zenon
<1>12. ASSUME NEW c \in Clients, NEW s \in Sats!Satellites, Sats!filterCandidate(c, s)
       PROVE  FleetInv'
  <2> DEFINE old == req[c].rows
             rest == IF s \in stream THEN old ELSE [t \in DOMAIN old \ {s} |-> old[t]]
             q == [req[c] EXCEPT !.todo = @ \ {s}, !.rows = rest]
  <2>1. req[c].pc = "filter" /\ req' = [req EXCEPT ![c] = q] /\ UNCHANGED <<sat, telemetry>>
    BY <1>1, <1>12, Zenon DEF Sats!filterCandidate, Sats!fleet
  <2>2. req[c] \in Deployment /\ Fit(req[c])
    BY <1>1, <2>1 DEF FleetInv, Dispatched
  <2>3. PICK D \in SUBSET Sats!Satellites : old \in [D -> Read]
    BY <2>2 DEF Fit, Candidates
  <2>4. DOMAIN rest \subseteq DOMAIN old /\ \A t \in DOMAIN rest : rest[t] = old[t]
    OBVIOUS
  <2>5. rest \in [D -> Read] \/ rest \in [D \ {s} -> Read]
    BY <2>3
  <2>6. rest \in Candidates
    BY <2>5 DEF Candidates
  <2> HIDE DEF rest
  <2>7. /\ q \in Deployment /\ q.pc = "filter"
        /\ q.order = req[c].order /\ q.rows = rest
    BY <2>1, <2>2, <2>6, Zenon DEF Deployment
  <2> HIDE DEF q
  <2>8. Dispatched(q)
    BY <2>2, <2>4, <2>6, <2>7 DEF Dispatched, Fit
  <2> QED BY <2>1, <2>7, <2>8, DeploymentMoves, Zenon
<1>13. ASSUME NEW c \in Clients, Sats!Dispatch(c)
       PROVE  FleetInv'
  <2> DEFINE score(s) == Sats!scoreSatellite(req[c].rows[s], req[c].order.prefer)
             fit == DOMAIN req[c].rows
             best == {s \in fit : \A t \in fit : score(t) <= score(s)}
  <2>1. req[c].pc = "filter" /\ UNCHANGED <<sat, telemetry>>
    BY <1>13 DEF Sats!Dispatch, Sats!fleet
  <2>2. \/ req' = [req EXCEPT ![c] = Sats!Idle]
        \/ \E s \in best : req' = [req EXCEPT ![c] = [req[c] EXCEPT !.pc = "verify", !.chosen = s]]
    BY <1>1, <1>13, Zenon DEF Sats!Dispatch
  <2>3. req[c] \in Deployment /\ Fit(req[c])
    BY <1>1, <2>1 DEF FleetInv, Dispatched
  <2>4. ASSUME NEW s \in best, req' = [req EXCEPT ![c] = [req[c] EXCEPT !.pc = "verify", !.chosen = s]]
        PROVE  FleetInv'
    <3> DEFINE q == [req[c] EXCEPT !.pc = "verify", !.chosen = s]
    <3>1. s \in Sats!Satellites
      BY <2>3 DEF Fit, Candidates
    <3>2. /\ q \in Deployment /\ q.pc = "verify" /\ q.chosen = s
          /\ q.order = req[c].order /\ q.rows = req[c].rows
      BY <2>3, <3>1, Zenon DEF Deployment
    <3>3. /\ s \in DOMAIN req[c].rows
          /\ \A t \in DOMAIN req[c].rows :
               Sats!scoreSatellite(req[c].rows[t], req[c].order.prefer)
                 <= Sats!scoreSatellite(req[c].rows[s], req[c].order.prefer)
      BY <2>4
    <3> HIDE DEF q
    <3>4. Dispatched(q)
      BY <2>3, <3>2, <3>3 DEF Dispatched, Fit, Best
    <3> QED BY <2>1, <2>4, <3>2, <3>4, DeploymentMoves, Zenon DEF q
  <2> HIDE DEF best
  <2> QED BY <2>1, <2>2, <2>4, IdleIsIdle, DeploymentMoves, Zenon
<1>14. ASSUME NEW c \in Clients, NEW q \in Deployment, q.pc \in {"idle", "session", "run", "send"},
              req' = [req EXCEPT ![c] = q], UNCHANGED <<sat, telemetry>>
       PROVE  FleetInv'
  BY <1>14, DeploymentMoves, Zenon DEF Dispatched
<1>15. ASSUME NEW c \in Clients,
              \/ Sats!VerifySatellite(c) \/ Sats!InsertSession(c) \/ Sats!SendDeploy(c)
              \/ \E there \in BOOLEAN : Sats!CreateAgentRun(c, there)
       PROVE  FleetInv'
  <2>1. req[c] \in Deployment
    BY <1>1
  <2> DEFINE p == [Sats!Idle EXCEPT !.pc = "session", !.chosen = req[c].chosen]
             r == [req[c] EXCEPT !.pc = "send"]
  <2>2. p \in Deployment /\ p.pc = "session" /\ r \in Deployment /\ r.pc = "send"
        /\ Sats!Idle \in Deployment /\ Sats!Idle.pc = "idle"
    BY <2>1, IdleIsIdle, Zenon DEF Sats!Idle, Deployment
  <2>3. ASSUME NEW id \in 1 .. MaxSessions
        PROVE  /\ [req[c] EXCEPT !.pc = "run", !.session = id] \in Deployment
               /\ [req[c] EXCEPT !.pc = "run", !.session = id].pc = "run"
    BY <2>1, Zenon DEF Deployment
  <2>4. UNCHANGED <<sat, telemetry>>
    BY <1>15 DEF Sats!VerifySatellite, Sats!InsertSession, Sats!SendDeploy, Sats!CreateAgentRun, Sats!fleet
  <2>5. \/ req' = [req EXCEPT ![c] = Sats!Idle] \/ req' = [req EXCEPT ![c] = p]
        \/ req' = [req EXCEPT ![c] = r]
        \/ \E id \in 1 .. MaxSessions : req' = [req EXCEPT ![c] = [req[c] EXCEPT !.pc = "run", !.session = id]]
    BY <1>1, <1>15, Zenon DEF Sats!VerifySatellite, Sats!InsertSession, Sats!SendDeploy, Sats!CreateAgentRun
  <2> HIDE DEF p, r
  <2> QED BY <1>14, <2>2, <2>3, <2>4, <2>5, Zenon
<1>16. CASE UNCHANGED Sats!vars
  BY <1>1, <1>16, RowsStay DEF Sats!vars
<1> QED
  BY <1>2, <1>3, <1>5, <1>6, <1>7, <1>8, <1>9, <1>10, <1>11, <1>12, <1>13, <1>15, <1>16
  DEF Sats!Next, Load, Order

(* Facts about the number of tags that match. *)
Facts == INSTANCE FiniteSetTheorems

(* The score is monotone: less load in every respect and all the preferred  *)
(* tags give a score that is at least as high, and higher if anything is    *)
(* better (scoreSatellite, dispatcher.go:288-305).                          *)
LEMMA ScoreIsMonotone ==
  ASSUME NEW s \in Read, NEW t \in Read, NEW prefer \in SUBSET Tags,
         Sats!scoreSatellite(t, prefer) <= Sats!scoreSatellite(s, prefer)
  PROVE  ~ Sats!Dominates(t, s, prefer)
<1> SUFFICES ASSUME Sats!Dominates(t, s, prefer) PROVE FALSE
  OBVIOUS
<1> DEFINE a == s.tags \cap prefer
           b == t.tags \cap prefer
<1>1. Facts!IsFiniteSet(b) /\ a \subseteq b
  <2>1. b \subseteq Tags
    BY DEF Read
  <2>2. Facts!IsFiniteSet(Tags)
    BY TagsAssumption DEF IsFiniteSet, Facts!IsFiniteSet
  <2> QED BY <2>1, <2>2, Facts!FS_Subset DEF Sats!Dominates
<1>2. /\ Facts!IsFiniteSet(a) /\ Facts!Cardinality(a) <= Facts!Cardinality(b)
      /\ Facts!Cardinality(a) = Facts!Cardinality(b) => a = b
  BY <1>1, Facts!FS_Subset
<1>3. Facts!Cardinality(a) \in Nat /\ Facts!Cardinality(b) \in Nat
  BY <1>1, <1>2, Facts!FS_CardinalityType
<1>4. /\ s.load.cpu \in 0 .. 100 /\ s.load.mem \in 0 .. 100 /\ s.load.disk \in 0 .. 100
      /\ t.load.cpu \in 0 .. 100 /\ t.load.mem \in 0 .. 100 /\ t.load.disk \in 0 .. 100
  BY LoadsAssumption DEF Read, Load
<1>5. t.load # s.load =>
        t.load.cpu # s.load.cpu \/ t.load.mem # s.load.mem \/ t.load.disk # s.load.disk
  <2>1. s.load \in Load /\ t.load \in Load
    BY DEF Read
  <2> QED BY <2>1 DEF Load
<1>6. /\ t.load.cpu <= s.load.cpu /\ t.load.mem <= s.load.mem /\ t.load.disk <= s.load.disk
      /\ t.load # s.load \/ ~ b \subseteq s.tags
  BY DEF Sats!Dominates
<1>7. Sats!Cardinality(a) = Facts!Cardinality(a) /\ Sats!Cardinality(b) = Facts!Cardinality(b)
  BY Zenon DEF Sats!Cardinality, Facts!Cardinality
<1>8. 50 * (100 - t.load.cpu) + 30 * (100 - t.load.mem) + 20 * (100 - t.load.disk) + 500 * Facts!Cardinality(b)
        <= 50 * (100 - s.load.cpu) + 30 * (100 - s.load.mem) + 20 * (100 - s.load.disk) + 500 * Facts!Cardinality(a)
  BY <1>7 DEF Sats!scoreSatellite, Sats!countMatchedTags
<1> HIDE DEF a, b
<1>9. /\ s.load.cpu = t.load.cpu /\ s.load.mem = t.load.mem /\ s.load.disk = t.load.disk
      /\ Facts!Cardinality(a) = Facts!Cardinality(b)
  <2> DEFINE c1 == s.load.cpu  m1 == s.load.mem  d1 == s.load.disk  n1 == Facts!Cardinality(a)
             c2 == t.load.cpu  m2 == t.load.mem  d2 == t.load.disk  n2 == Facts!Cardinality(b)
  <2>1. /\ c1 \in 0 .. 100 /\ m1 \in 0 .. 100 /\ d1 \in 0 .. 100 /\ n1 \in Nat
        /\ c2 \in 0 .. 100 /\ m2 \in 0 .. 100 /\ d2 \in 0 .. 100 /\ n2 \in Nat
        /\ c2 <= c1 /\ m2 <= m1 /\ d2 <= d1 /\ n1 <= n2
    BY <1>2, <1>3, <1>4, <1>6, Zenon
  <2>2. 50 * (100 - c2) + 30 * (100 - m2) + 20 * (100 - d2) + 500 * n2
          <= 50 * (100 - c1) + 30 * (100 - m1) + 20 * (100 - d1) + 500 * n1
    BY <1>8
  <2> HIDE DEF c1, m1, d1, n1, c2, m2, d2, n2
  <2>3. c1 = c2 /\ m1 = m2 /\ d1 = d2 /\ n1 = n2
    BY <2>1, <2>2
  <2> QED BY <2>3 DEF c1, m1, d1, n1, c2, m2, d2, n2
<1>10. b \subseteq s.tags
  BY <1>2, <1>9 DEF a
<1> QED BY <1>5, <1>6, <1>9, <1>10

(* Whatever the satellites, their tags and loads and the deployments, the   *)
(* dispatcher never gives an agent to a satellite without the tags it       *)
(* requires, nor to one that another it looked at beats in every respect    *)
(* (dispatcher.go:85-111, 288-305).                                         *)
THEOREM BestIsChosen == PartSpec => []NotDominated
<1>1. PartInit => FleetInv
  BY IdleIsIdle DEF PartInit, Sats!Init, FleetInv, FleetTypes
<1>2. FleetInv /\ [PartNext]_allVars => FleetInv'
  BY FleetStep, RowsStay
  DEF PartNext, EnrolPart, FleetPart, allVars, fleetVars, Sats!vars, FleetInv, FleetTypes
<1>3. FleetInv => NotDominated
  <2> SUFFICES ASSUME FleetInv, NEW c \in Clients, req[c].pc = "verify", req[c].order.target = None
               PROVE  /\ req[c].order.require \subseteq req[c].rows[req[c].chosen].tags
                      /\ \A t \in DOMAIN req[c].rows :
                           ~ Sats!Dominates(req[c].rows[t], req[c].rows[req[c].chosen], req[c].order.prefer)
    BY DEF NotDominated, Sats!NotDominated
  <2>1. Fit(req[c]) /\ Best(req[c])
    BY DEF FleetInv, Dispatched
  <2>2. \A t \in DOMAIN req[c].rows : req[c].rows[t] \in Read
    BY <2>1 DEF Fit, Candidates
  <2>3. req[c].order.prefer \in SUBSET Tags
    BY <2>1 DEF Fit, Order
  <2> QED BY <2>1, <2>2, <2>3, ScoreIsMonotone, Zenon DEF Fit, Best
<1> QED BY <1>1, <1>2, <1>3, PTL DEF PartSpec
=============================================================================
