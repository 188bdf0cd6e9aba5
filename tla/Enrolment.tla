------------------------------ MODULE Enrolment ------------------------------
(***************************************************************************)
(* How a machine becomes a satellite: daao login, which pins Nexus's       *)
(* certificate, writes a key pair, asks Nexus for a row and saves its id,  *)
(* and which may be killed at any moment; daao start, which builds the     *)
(* daemon's identity from those files; and the statements by which Nexus   *)
(* finds the row of a daemon that registers.                               *)
(***************************************************************************)
EXTENDS Naturals, FiniteSets

CONSTANTS Machines,
          Windows,   \* the machines that run the Windows build
          Keys,      \* the Ed25519 pairs that may be generated; a key also names its fingerprint
          MaxRows,   \* bound on the rows ever inserted; a row's id is its place in that order
          MaxKills,  \* bound on the logins killed
          None

(* A key is neither the absence of one nor a torn file, and no machine is   *)
(* called like one.                                                         *)
ASSUME KeysAssumption == None \notin Keys /\ "torn" \notin Keys
ASSUME RowsAssumption == MaxRows \in Nat
ASSUME NamesAssumption == Machines \cap Keys = {}

VARIABLES ca,      \* ca[m]: whether nexus-ca.crt is there and parses
          pub,     \* pub[m], priv[m]: the key files: a key, "torn" or None
          priv,
          reg,     \* reg[m]: the id in registration.json; None when absent or malformed
          login,   \* login[m]: the login that runs on m
          daemon,  \* daemon[m]: the identity the running daemon was built with, or None
          conn,    \* conn[m]: its connection to Nexus
          rows,    \* rows[r]: the row of satellites, or None
          born,    \* the number of rows ever inserted
          kills,
          irregular, \* whether two rows were pending at once or a row was deleted
          early    \* whether a daemon was started before a login of its machine saved an id

vars == <<ca, pub, priv, reg, login, daemon, conn, rows, born, kills, irregular, early>>

files == <<ca, pub, priv, reg>>
nexus == <<rows, born, irregular, early>>

Rows == 1..MaxRows

\* The name given to a row made for a daemon whose identity is a row's id; the
\* machines of the model run the same operating system.
DefaultName == "satellite-os"

\* hostnames differ, and no key's prefix is a hostname
Name == Machines \cup Keys \cup {DefaultName}

Here == {r \in Rows : rows[r] # None}

Pending == {r \in Here : rows[r].status = "pending"}

\* pc is the statement Nexus runs next for the connection, "open" when it has found
\* the row, "raw" when it goes by the identity the daemon sent.
Closed == [pc |-> "none", row |-> None]

NoLogin == [pc |-> "idle", key |-> None, id |-> None]

\* A row, and the identity a daemon registers with.
Record == [name : Name, fingerprint : Keys \cup {None}, status : {"pending", "active", "offline"}]
Identity == [id : Rows \cup {None}, fp : Keys]

ASSUME NoneAssumption == None \notin Rows \cup Record \cup Identity

TypeOK ==
    /\ \A m \in Machines : {pub[m], priv[m]} \subseteq Keys \cup {"torn", None}
    /\ \A r \in Here : rows[r] \in Record
    /\ \A r, s \in Here : r # s => /\ rows[r].name # rows[s].name
                                   /\ rows[r].fingerprint = None \/ rows[r].fingerprint # rows[s].fingerprint
    /\ Here \subseteq 1..born /\ born \in 0..MaxRows

Init ==
    /\ ca = [m \in Machines |-> FALSE]
    /\ pub = [m \in Machines |-> None] /\ priv = [m \in Machines |-> None]
    /\ reg = [m \in Machines |-> None]
    /\ login = [m \in Machines |-> NoLogin]
    /\ daemon = [m \in Machines |-> None] /\ conn = [m \in Machines |-> Closed]
    /\ rows = [r \in Rows |-> None] /\ born = 0
    /\ kills = 0 /\ irregular = FALSE /\ early = FALSE

-----------------------------------------------------------------------------
(* daao login                                                              *)

Goto(m, pc) == login' = [login EXCEPT ![m].pc = pc]
Return(m) == login' = [login EXCEPT ![m] = NoLogin]

\* A certificate already pinned is kept; otherwise it is taken from --ca-cert or
\* from the server's chain.  Failing that, login warns and goes on.
loadOrTOFUNexusCA(m) ==
    /\ login[m].pc = "idle"
    /\ \E ok \in BOOLEAN : ca' = [ca EXCEPT ![m] = @ \/ ok]
    /\ Goto(m, "keys")
    /\ UNCHANGED <<pub, priv, reg, daemon, conn, nexus, kills>>

\* LoadKeyPair: both files are read and parsed; that they belong together is not
\* looked at, and the fingerprint is the public key's.
LoadKeyPair(m) == IF pub[m] \in Keys /\ priv[m] \in Keys THEN pub[m] ELSE None

\* Faulty: keys count from the time the machine is registered.
HasKeysOnceRegistered(m) == reg[m] # None /\ priv[m] # None

\* Whether login takes the pair on disk for the machine's, instead of making one.
HasKeys(m) == priv[m] # None

LoginLoads(m) ==
    /\ login[m].pc = "keys" /\ HasKeys(m)
    /\ IF LoadKeyPair(m) = None THEN Return(m) ELSE Goto(m, "check")
    /\ UNCHANGED <<files, daemon, conn, nexus, kills>>

UnusedKeys == Keys \ ({login[m].key : m \in Machines} \cup {pub[m] : m \in Machines} \cup {priv[m] : m \in Machines}
                      \cup {daemon[m].fp : m \in {n \in Machines : daemon[n] # None}}
                      \cup {rows[r].fingerprint : r \in Here} \cup {rows[r].name : r \in Here})

GenerateEd25519KeyPair(m) ==
    /\ login[m].pc = "keys" /\ ~HasKeys(m)
    /\ \E k \in UnusedKeys : login' = [login EXCEPT ![m].pc = "public", ![m].key = k]
    /\ UNCHANGED <<files, daemon, conn, nexus, kills>>

\* SaveKeyPair writes the public key first, the private key last.
SavePublic(m) ==
    /\ login[m].pc = "public"
    /\ pub' = [pub EXCEPT ![m] = login[m].key]
    /\ Goto(m, "private")
    /\ UNCHANGED <<ca, priv, reg, daemon, conn, nexus, kills>>

SavePrivate(m) ==
    /\ login[m].pc = "private"
    /\ priv' = [priv EXCEPT ![m] = login[m].key]
    /\ Goto(m, "check")
    /\ UNCHANGED <<ca, pub, reg, daemon, conn, nexus, kills>>

loadLocalRegistration(m) ==
    /\ login[m].pc = "check"
    /\ IF reg[m] # None THEN Return(m) ELSE Goto(m, "post")
    /\ UNCHANGED <<files, daemon, conn, nexus, kills>>

\* The upsert of HandleCreateSatellite: a row of that name is reset to pending and
\* keeps its id and its place.
Upserted(name) == {r \in Here : rows[r].name = name}

HandleCreateSatellite(m) ==
    LET old == Upserted(m)
        r == IF old = {} THEN born + 1 ELSE CHOOSE x \in old : TRUE IN
    /\ r \in Rows
    /\ rows' = [rows EXCEPT ![r] = [name |-> m, fingerprint |-> None, status |-> "pending"]]
    /\ born' = IF old = {} THEN r ELSE born
    /\ irregular' = (irregular \/ Pending \ {r} # {})
    /\ login' = [login EXCEPT ![m].pc = "save", ![m].id = r]

createSatelliteViaAPI(m) ==
    /\ login[m].pc = "post" /\ ca[m]
    /\ HandleCreateSatellite(m)
    /\ UNCHANGED <<files, daemon, conn, early, kills>>

\* No certificate, no answer, or an answer that is not a success (or is lost on its
\* way): login warns and ends well.
PostFails(m) ==
    /\ login[m].pc = "post"
    /\ Return(m)
    /\ UNCHANGED <<files, daemon, conn, nexus, kills>>

SaveRegistration(m) ==
    /\ login[m].pc = "save"
    /\ reg' = [reg EXCEPT ![m] = login[m].id]
    /\ Return(m)
    /\ UNCHANGED <<ca, pub, priv, daemon, conn, nexus, kills>>

\* What os.WriteFile may leave behind when it is cut short: the old content, a torn
\* file, or the new content.
Cut(old, new) == {old, "torn", new}

\* The process is killed in the middle of whatever it does.
LoginKilled(m) ==
    /\ login[m].pc # "idle" /\ kills < MaxKills
    /\ kills' = kills + 1
    /\ Return(m)
    /\ \E x \in IF login[m].pc = "public" THEN Cut(pub[m], login[m].key) ELSE {pub[m]} :
         pub' = [pub EXCEPT ![m] = x]
    /\ \E x \in IF login[m].pc = "private" THEN Cut(priv[m], login[m].key) ELSE {priv[m]} :
         priv' = [priv EXCEPT ![m] = x]
    /\ UNCHANGED <<ca, reg, daemon, conn, nexus>>

-----------------------------------------------------------------------------
(* daao start, and the registration of its daemon with Nexus               *)

\* The Windows build goes by the id that login saved, the others by the beginning of
\* the fingerprint.
buildDaemonConfig(m) ==
    [id |-> IF m \in Windows THEN reg[m] ELSE None, fp |-> LoadKeyPair(m)]

runStart(m) ==
    /\ daemon[m] = None /\ LoadKeyPair(m) # None
    /\ daemon' = [daemon EXCEPT ![m] = buildDaemonConfig(m)]
    /\ early' = (early \/ reg[m] = None)
    /\ UNCHANGED <<files, login, conn, rows, born, irregular, kills>>

Connect(m) ==
    /\ daemon[m] # None /\ conn[m] = Closed /\ ca[m]
    /\ conn' = [conn EXCEPT ![m].pc = "update"]
    /\ UNCHANGED <<files, login, daemon, nexus, kills>>

\* Faulty: the fingerprint is not stored.
ResolveForgets(m, r) ==
    /\ rows' = [rows EXCEPT ![r].status = "active"]
    /\ conn' = [conn EXCEPT ![m] = [pc |-> "open", row |-> r]]

\* The connection has its row and goes on with the canonical id.
Resolve(m, r) ==
    /\ rows' = [rows EXCEPT ![r].status = "active", ![r].fingerprint = daemon[m].fp]
    /\ conn' = [conn EXCEPT ![m] = [pc |-> "open", row |-> r]]

\* fingerprint is unique among the rows that have one
Unique(m, r) == \A s \in Here \ {r} : rows[s].fingerprint # daemon[m].fp

\* The rows whose id, name or fingerprint is what the daemon sent.
Matches(m) == {r \in Here : \/ r = daemon[m].id
                            \/ daemon[m].id = None /\ rows[r].name = daemon[m].fp
                            \/ rows[r].fingerprint = daemon[m].fp}

\* Two rows would get the same fingerprint: the statement fails and changes nothing.
RegisterUpdate(m) ==
    /\ conn[m].pc = "update"
    /\ IF \E r \in Rows : Matches(m) = {r}
         THEN \E r \in Matches(m) : Resolve(m, r)
         ELSE conn' = [conn EXCEPT ![m].pc = "pending"] /\ UNCHANGED rows
    /\ UNCHANGED <<files, login, daemon, born, irregular, early, kills>>

\* the row that has been waiting for a daemon for the shortest time
Newest == CHOOSE r \in Pending : \A s \in Pending : s <= r

RegisterPending(m) ==
    /\ conn[m].pc = "pending"
    /\ IF Pending # {} /\ Unique(m, Newest)
         THEN Resolve(m, Newest)
         ELSE conn' = [conn EXCEPT ![m].pc = "insert"] /\ UNCHANGED rows
    /\ UNCHANGED <<files, login, daemon, born, irregular, early, kills>>

InsertName(m) == IF daemon[m].id = None THEN daemon[m].fp ELSE DefaultName

\* INSERT ... ON CONFLICT (fingerprint): a row that has the fingerprint becomes
\* active; a name that is taken makes the statement fail.
RegisterInsert(m) ==
    LET same == {r \in Here : rows[r].fingerprint = daemon[m].fp} IN
    /\ conn[m].pc = "insert"
    /\ \/ \E r \in same : Resolve(m, r) /\ UNCHANGED born
       \/ /\ same = {} /\ \A r \in Here : rows[r].name # InsertName(m)
          /\ born < MaxRows /\ born' = born + 1
          /\ rows' = [rows EXCEPT ![born + 1] =
                        [name |-> InsertName(m), fingerprint |-> daemon[m].fp, status |-> "active"]]
          /\ conn' = [conn EXCEPT ![m] = [pc |-> "open", row |-> born + 1]]
       \/ /\ same = {} /\ \E r \in Here : rows[r].name = InsertName(m)
          /\ conn' = [conn EXCEPT ![m].pc = "raw"]
          /\ UNCHANGED <<rows, born>>
    /\ UNCHANGED <<files, login, daemon, irregular, early, kills>>

\* Heartbeats go by the id alone; a raw identity is no row's id.
HeartbeatPing(m) ==
    /\ conn[m].pc = "open" /\ conn[m].row \in Here
    /\ rows' = [rows EXCEPT ![conn[m].row].status = "active"]
    /\ UNCHANGED <<files, login, daemon, conn, born, irregular, early, kills>>

\* The rows the end of a connection marks offline: by id, by name or by fingerprint.
Served(m) == {r \in Here : \/ conn[m].pc = "open" /\ r = conn[m].row
                           \/ conn[m].pc = "raw" /\ daemon[m].id = None /\ rows[r].name = daemon[m].fp}

Break(m) ==
    /\ conn[m] # Closed
    /\ rows' = [r \in Rows |-> IF r \in Served(m) THEN [rows[r] EXCEPT !.status = "offline"] ELSE rows[r]]
    /\ conn' = [conn EXCEPT ![m] = Closed]
    /\ UNCHANGED <<files, login, daemon, born, irregular, early, kills>>

StopDaemon(m) ==
    /\ daemon[m] # None /\ conn[m] = Closed
    /\ daemon' = [daemon EXCEPT ![m] = None]
    /\ UNCHANGED <<files, login, conn, nexus, kills>>

HandleDeleteSatellite(r) ==
    /\ r \in Here
    /\ rows' = [rows EXCEPT ![r] = None]
    /\ irregular' = TRUE
    /\ UNCHANGED <<files, login, daemon, conn, born, early, kills>>

LoginStep(m) ==
    \/ loadOrTOFUNexusCA(m) \/ LoginLoads(m) \/ GenerateEd25519KeyPair(m) \/ SavePublic(m)
    \/ SavePrivate(m) \/ loadLocalRegistration(m) \/ createSatelliteViaAPI(m) \/ PostFails(m)
    \/ SaveRegistration(m)

DaemonStep(m) ==
    \/ runStart(m) \/ Connect(m) \/ RegisterUpdate(m) \/ RegisterPending(m) \/ RegisterInsert(m)
    \/ HeartbeatPing(m) \/ Break(m) \/ StopDaemon(m)

Next ==
    \/ \E m \in Machines : LoginStep(m) \/ LoginKilled(m) \/ DaemonStep(m)
    \/ \E r \in Rows : HandleDeleteSatellite(r)

Spec == Init /\ [][Next]_vars

-----------------------------------------------------------------------------
(* Properties                                                              *)

\* Whenever login is killed, a private key that is whole has its own public key
\* beside it: LoadKeyPair does not compare the two, login takes the private key's
\* presence for the pair's, and only the order of SaveKeyPair's writes keeps a
\* daemon from registering under the fingerprint of a key it does not hold, or from
\* having half a pair that no later login repairs.
KeysSurvive == \A m \in Machines : priv[m] \in Keys => pub[m] = priv[m]

\* When machines are enrolled one after the other (no two rows pending at once, no
\* row deleted, no daemon started before its login has saved an id), a connected
\* daemon is served by the row that its machine's login was given, across lost
\* connections, restarts and logins killed and repeated: RegisterRequest finds a
\* Linux machine's row by elimination the first time and by fingerprint afterwards.
OwnRecord ==
    ~irregular /\ ~early => \A m \in Machines : conn[m].pc = "open" /\ reg[m] # None => conn[m].row = reg[m]

\* What HandleCreateSatellite promises (handlers.go:1069: "return the same ID so the
\* daemon reuses the record"): when every daemon is started after its login, it is
\* served by the row of that login as long as the row is there.
\* The code does not keep this (README, Departures).
DaemonReusesRecord ==
    ~early => \A m \in Machines :
        conn[m].pc = "open" /\ reg[m] # None /\ reg[m] \in Here => conn[m].row = reg[m]
=============================================================================
