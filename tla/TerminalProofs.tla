--------------------------- MODULE TerminalProofs ---------------------------
(***************************************************************************)
(* Proofs about terminal output: recordings that are started and stopped   *)
(* one request at a time describe their files, a terminal attached on the  *)
(* satellite's own machine shows the output in order, and the ring buffers *)
(* of a satellite and of Nexus agree once everything has arrived.          *)
(***************************************************************************)
EXTENDS MCTerminal, TLAPS

Recs == 1 .. MaxRecordings
RecordingRow == [session : Recorded \cup {None}, size : Nat, stopped : BOOLEAN]

RecordingTypes ==
  /\ starts = 1 /\ made \in Nat /\ made <= MaxRecordings /\ chunks \in Nat
  /\ pool \in [Recorded -> Recs \cup {None}]
  /\ writer \in [Recs -> {"none", "open", "closed"}]
  /\ file \in [Recs -> Seq(Nat)]
  /\ rows \in [Recs -> RecordingRow \cup {None}]
  /\ write # None => write.rec \in Recs \cup {None} /\ write.chunk \in Nat
  /\ request = [h \in {h1} |-> request[h]]
  /\ todo \subseteq 1 .. made

(* Where the request q is. *)
RequestTyped(q) ==
  /\ q.at \in {"idle", "start", "insert", "close", "update"}
  /\ q.at # "idle" => q.session \in Recorded
  /\ q.at \in {"insert", "close"} => q.rec \in Recs
  /\ q.at = "update" => q.size \in Nat

(* With the request q, the pool P, the writers W and the files F: the row x *)
(* of recording r is of a recording that is being made, or of the one that  *)
(* q is stopping.                                                           *)
Accounted(q, P, W, F, x, r) ==
  \/ P[x.session] = r
  \/ q.at = "close" /\ q.session = x.session /\ q.rec = r
  \/ q.at = "update" /\ q.session = x.session /\ W[r] = "closed" /\ q.size = Len(F[r])

(* RowDescribesFile made inductive. *)
RecordingInv ==
  /\ RecordingTypes
  /\ RequestTyped(request[h1])
  /\ nexus # "up" => request[h1].at = "idle"
  /\ \A s \in Recorded : pool[s] # None => pool[s] <= made /\ writer[pool[s]] = "open"
  /\ \A r \in Recs : r > made => rows[r] = None /\ writer[r] = "none"
  /\ request[h1].at \in {"close", "update"} => pool[request[h1].session] = None
  /\ request[h1].at = "insert" => pool[request[h1].session] = request[h1].rec
  /\ \A s, t \in Recorded : pool[s] # None /\ pool[s] = pool[t] => s = t
  /\ request[h1].at = "close" => request[h1].rec <= made /\ \A s \in Recorded : pool[s] # request[h1].rec
  /\ \A r \in Recs : rows[r] # None /\ rows[r].stopped = TRUE =>
       writer[r] = "closed" /\ rows[r].size = Len(file[r])
  /\ nexus = "up" => \A r \in Recs :
       rows[r] # None /\ rows[r].session \in Recorded /\ rows[r].stopped = FALSE =>
         Accounted(request[h1], pool, writer, file, rows[r], r)

(* It holds when Nexus starts. *)
LEMMA RecordingInit ==
  ASSUME Record(Serial)!Init
  PROVE  RecordingInv
<1>1. /\ nexus = "up" /\ starts = 1 /\ made = 0 /\ chunks = 0 /\ write = None /\ todo = {}
      /\ pool = [s \in Recorded |-> None] /\ writer = [r \in Recs |-> "none"]
      /\ file = [r \in Recs |-> <<>>] /\ rows = [r \in Recs |-> None]
      /\ request = [h \in {h1} |-> [at |-> "idle"]]
  BY DEF Record!Init, Record!Recordings, Record!Idle, Recs, Serial
<1>2. request[h1].at = "idle"
  BY <1>1
<1>3. RecordingTypes
  BY <1>1, RecordedAssumption DEF RecordingTypes
<1>4. RequestTyped(request[h1])
  BY <1>2 DEF RequestTyped
<1> QED BY <1>1, <1>2, <1>3, <1>4, Zenon DEF RecordingInv

(* A step of the request that writes neither files nor rows. *)
LEMMA RequestMoves ==
  ASSUME RecordingInv, NEW q, request' = [request EXCEPT ![h1] = q], RequestTyped(q),
         UNCHANGED <<nexus, starts, made, file, rows, chunks, write, todo, pool, writer>>,
         nexus = "up" \/ q.at = "idle",
         q.at \in {"idle", "start"}, request[h1].at \in {"idle", "start", "insert"}
  PROVE  RecordingInv'
<1>1. request'[h1] = q /\ request' = [h \in {h1} |-> request'[h]]
  BY Zenon DEF RecordingInv, RecordingTypes
<1>2. RecordingTypes'
  BY <1>1, Zenon DEF RecordingInv, RecordingTypes
<1>3. ASSUME NEW r \in Recs, nexus = "up", rows[r] # None, rows[r].session \in Recorded, rows[r].stopped = FALSE
      PROVE  Accounted(request'[h1], pool, writer, file, rows[r], r)
  BY <1>1, <1>3, Zenon DEF RecordingInv, Accounted
<1> QED BY <1>1, <1>2, <1>3, Zenon DEF RecordingInv, RequestTyped

(* A step of the output or of the reconciliation, which no request sees:    *)
(* files that are open grow, and rows of no session are made.               *)
LEMMA BehindRequests ==
  ASSUME RecordingInv, RecordingTypes', UNCHANGED <<nexus, made, pool, writer, request>>,
         \A r \in Recs : file'[r] = file[r] \/ writer[r] = "open",
         \A r \in Recs : \/ rows'[r] = rows[r]
                         \/ rows'[r] # None /\ rows'[r].session = None /\ rows'[r].stopped = FALSE /\ r <= made
                         \/ /\ rows[r] # None /\ rows'[r] # None /\ rows'[r].session = None
                            /\ rows'[r].stopped = rows[r].stopped /\ rows'[r].size = rows[r].size
  PROVE  RecordingInv'
<1>1. None \notin Recorded
  BY RecordedAssumption
<1>2. \A r \in Recs : r > made => rows'[r] = None
  BY DEF RecordingInv, RecordingTypes, Recs
<1>3. ASSUME NEW r \in Recs, rows'[r] # None, rows'[r].stopped = TRUE
      PROVE  writer[r] = "closed" /\ rows'[r].size = Len(file'[r])
  <2>1. writer[r] = "closed" /\ rows'[r].size = Len(file[r])
    BY <1>3 DEF RecordingInv
  <2> QED BY <2>1
<1>4. ASSUME NEW r \in Recs, nexus = "up", rows'[r] # None, rows'[r].session \in Recorded, rows'[r].stopped = FALSE
      PROVE  Accounted(request[h1], pool, writer, file', rows'[r], r)
  <2>1. rows'[r] = rows[r]
    BY <1>1, <1>4
  <2>2. Accounted(request[h1], pool, writer, file, rows[r], r)
    BY <1>4, <2>1, Zenon DEF RecordingInv
  <2>3. writer[r] = "closed" => file'[r] = file[r]
    OBVIOUS
  <2> QED BY <2>1, <2>2, <2>3, Zenon DEF Accounted
<1> QED BY <1>2, <1>3, <1>4, Zenon DEF RecordingInv

(* StartRecording: a recording with the next number. *)
LEMMA StartKeeps ==
  ASSUME RecordingInv, Record(Serial)!StartRecording(h1)
  PROVE  RecordingInv'
<1> USE DEF Record!nexusVars, Record!outputVars, Record!reconcileVars
<1> DEFINE s == request[h1].session
           n == made + 1
<1>1. /\ RecordingTypes /\ RequestTyped(request[h1]) /\ request[h1].at = "start" /\ nexus = "up" /\ s \in Recorded
      /\ UNCHANGED <<nexus, starts, file, rows, chunks, write, todo>>
  BY Zenon DEF RecordingInv, RequestTyped, Record!StartRecording
<1>2. CASE pool[s] # None
  <2>1. request' = [request EXCEPT ![h1] = Record(Serial)!Idle] /\ UNCHANGED <<pool, writer, made>>
    BY <1>2 DEF Record!StartRecording
  <2>2. Record(Serial)!Idle.at = "idle" /\ RequestTyped(Record(Serial)!Idle)
    BY DEF Record!Idle, RequestTyped
  <2> QED BY <1>1, <2>1, <2>2, RequestMoves, Zenon
<1>3. CASE pool[s] = None
  <2> DEFINE q == [at |-> "insert", session |-> s, rec |-> n]
  <2>1. /\ made < MaxRecordings /\ made' = n /\ writer' = [writer EXCEPT ![n] = "open"]
        /\ pool' = [pool EXCEPT ![s] = n] /\ request' = [request EXCEPT ![h1] = q]
    BY <1>3 DEF Record!StartRecording
  <2>2. /\ n \in Recs /\ n \in Nat /\ n # None /\ RequestTyped(q)
        /\ q.at = "insert" /\ q.session = s /\ q.rec = n
    BY <1>1, <2>1, RecordedAssumption DEF RecordingTypes, RequestTyped, Recs
  <2> HIDE DEF q, n, s
  <2>3. request'[h1] = q /\ request' = [h \in {h1} |-> request'[h]]
    BY <1>1, <2>1, Zenon DEF RecordingTypes
  <2>4. 1 .. made \subseteq 1 .. made'
    BY <1>1, <2>1 DEF RecordingTypes, n
  <2>5. made' \in Nat /\ made' <= MaxRecordings
    BY <1>1, <2>1, RecordedAssumption DEF RecordingTypes, n
  <2>6. RecordingTypes'
    BY <1>1, <2>1, <2>2, <2>3, <2>4, <2>5, Zenon DEF RecordingTypes
  <2>7. /\ \A t \in Recorded : pool'[t] = IF t = s THEN n ELSE pool[t]
        /\ \A r \in Recs : writer'[r] = IF r = n THEN "open" ELSE writer[r]
    BY <1>1, <2>1 DEF RecordingTypes
  <2>8. \A r \in Recs : r <= made => r # n /\ r <= made'
    BY <1>1, <2>1 DEF RecordingTypes, Recs, n
  <2>9. ASSUME NEW t \in Recorded, pool'[t] # None PROVE pool'[t] <= made' /\ writer'[pool'[t]] = "open"
    <3>1. CASE t = s
      BY <1>1, <2>1, <2>2, <2>5, <2>7, <3>1
    <3>2. CASE t # s
      <4>1. pool[t] \in Recs /\ pool[t] <= made /\ writer[pool[t]] = "open"
        BY <1>1, <2>7, <2>9, <3>2 DEF RecordingInv, RecordingTypes
      <4> QED BY <2>7, <2>8, <3>2, <4>1
    <3> QED BY <3>1, <3>2
  <2>10. \A r \in Recs : r > made' => rows[r] = None /\ writer'[r] = "none"
    <3>1. \A r \in Recs : r > made' => r > made /\ r # n
      BY <1>1, <2>1, <2>2 DEF RecordingTypes, Recs, n
    <3> QED BY <2>7, <3>1 DEF RecordingInv
  <2>11. rows[n] = None
    <3>1. n > made
      BY <1>1 DEF RecordingTypes, n
    <3> QED BY <2>2, <3>1, Zenon DEF RecordingInv
  <2>12. ASSUME NEW r \in Recs, rows[r] # None, rows[r].session \in Recorded, rows[r].stopped = FALSE
         PROVE  Accounted(q, pool', writer', file, rows[r], r)
    <3>1. pool[rows[r].session] = r
      BY <1>1, <2>12, Zenon DEF RecordingInv, Accounted
    <3>2. rows[r].session # s
      BY <1>3, <2>12, <3>1, RecordedAssumption DEF Recs
    <3> QED BY <2>7, <2>12, <3>1, <3>2 DEF Accounted
  <2>13. ASSUME NEW r \in Recs, rows[r] # None, rows[r].stopped = TRUE
         PROVE  writer'[r] = "closed" /\ rows[r].size = Len(file[r])
    BY <2>7, <2>11, <2>13 DEF RecordingInv
  <2>14. pool'[q.session] = q.rec
    BY <1>1, <2>2, <2>7, Zenon
  <2>15. ASSUME NEW t \in Recorded, NEW u \in Recorded, pool'[t] # None, pool'[t] = pool'[u] PROVE t = u
    <3>1. \A w \in Recorded : pool[w] # None => pool[w] # n
      BY <1>1, <2>8 DEF RecordingInv, RecordingTypes
    <3> QED BY <2>2, <2>7, <2>15, <3>1 DEF RecordingInv
  <2> QED BY <1>1, <2>2, <2>3, <2>6, <2>9, <2>10, <2>12, <2>13, <2>14, <2>15, Zenon DEF RecordingInv
<1> QED BY <1>2, <1>3

(* The insert of the row. *)
LEMMA InsertKeeps ==
  ASSUME RecordingInv, Record(Serial)!InsertRow(h1)
  PROVE  RecordingInv'
<1> USE DEF Record!nexusVars, Record!outputVars, Record!reconcileVars
<1> DEFINE s == request[h1].session
           n == request[h1].rec
           x == [session |-> s, size |-> 0, stopped |-> FALSE]
<1>1. /\ RecordingTypes /\ request[h1].at = "insert" /\ nexus = "up" /\ s \in Recorded /\ n \in Recs /\ pool[s] = n
      /\ UNCHANGED <<nexus, starts, made, pool, writer, file, chunks, write, todo>>
      /\ request' = [request EXCEPT ![h1] = Record(Serial)!Idle]
      /\ rows' = rows \/ rows' = [rows EXCEPT ![n] = x]
  BY Zenon DEF RecordingInv, RequestTyped, Record!InsertRow
<1>2. x \in RecordingRow /\ x.session = s /\ x.stopped = FALSE
  BY <1>1, Zenon DEF RecordingRow
<1> HIDE DEF x, s, n
<1>3. request'[h1].at = "idle" /\ request' = [h \in {h1} |-> request'[h]]
  BY <1>1, Zenon DEF RecordingTypes, Record!Idle
<1>4. RequestTyped(request'[h1])
  BY <1>3 DEF RequestTyped
<1>5. RecordingTypes'
  <2>1. rows' \in [Recs -> RecordingRow \cup {None}]
    BY <1>1, <1>2, Zenon DEF RecordingTypes
  <2> QED BY <1>1, <1>3, <2>1, Zenon DEF RecordingTypes
<1>6. \A r \in Recs : rows'[r] = rows[r] \/ (r = n /\ rows'[r] = x)
  BY <1>1, Zenon DEF RecordingTypes
<1>7. n <= made
  BY <1>1, RecordedAssumption, Zenon DEF RecordingInv, Recs
<1>8. \A r \in Recs : r > made => rows'[r] = None
  BY <1>1, <1>6, <1>7 DEF RecordingInv, RecordingTypes, Recs
<1>9. ASSUME NEW r \in Recs, rows'[r] # None, rows'[r].session \in Recorded, rows'[r].stopped = FALSE
      PROVE  pool[rows'[r].session] = r
  <2>1. CASE rows'[r] = rows[r]
    BY <1>1, <1>9, <2>1, Zenon DEF RecordingInv, Accounted
  <2>2. CASE r = n /\ rows'[r] = x
    BY <1>1, <1>2, <2>2, Zenon
  <2> QED BY <1>6, <2>1, <2>2, Zenon
<1>10. ASSUME NEW r \in Recs, rows'[r] # None, rows'[r].stopped = TRUE
       PROVE  writer[r] = "closed" /\ rows'[r].size = Len(file[r])
  BY <1>2, <1>6, <1>10, Zenon DEF RecordingInv
<1> QED BY <1>1, <1>3, <1>4, <1>5, <1>8, <1>9, <1>10, Zenon DEF RecordingInv, Accounted

(* StopRecording: the writer leaves the pool. *)
LEMMA StopKeeps ==
  ASSUME RecordingInv, NEW s \in Recorded, Record(Serial)!StopRecording(h1, s)
  PROVE  RecordingInv'
<1> USE DEF Record!nexusVars, Record!outputVars, Record!reconcileVars
<1> DEFINE q == [at |-> "close", session |-> s, rec |-> pool[s]]
<1>1. /\ RecordingTypes /\ request[h1].at = "idle" /\ nexus = "up" /\ pool[s] # None /\ pool[s] \in Recs
      /\ UNCHANGED <<nexus, starts, made, writer, file, rows, chunks, write, todo>>
      /\ request' = [request EXCEPT ![h1] = q] /\ pool' = [pool EXCEPT ![s] = None]
  BY DEF RecordingInv, RecordingTypes, Record!StopRecording, Record!Idle
<1>2. RequestTyped(q) /\ q.at = "close" /\ q.session = s /\ q.rec = pool[s]
  BY <1>1, Zenon DEF RequestTyped
<1> HIDE DEF q
<1>3. /\ request'[h1] = q /\ request' = [h \in {h1} |-> request'[h]]
      /\ \A t \in Recorded : pool'[t] = IF t = s THEN None ELSE pool[t]
  BY <1>1, Zenon DEF RecordingTypes
<1>4. RecordingTypes'
  BY <1>1, <1>3, Zenon DEF RecordingTypes
<1>5. ASSUME NEW r \in Recs, rows[r] # None, rows[r].session \in Recorded, rows[r].stopped = FALSE
      PROVE  Accounted(q, pool', writer, file, rows[r], r)
  <2>1. pool[rows[r].session] = r
    BY <1>1, <1>5, Zenon DEF RecordingInv, Accounted
  <2>2. CASE rows[r].session = s
    BY <1>2, <2>1, <2>2, Zenon DEF Accounted
  <2>3. CASE rows[r].session # s
    BY <1>3, <1>5, <2>1, <2>3, Zenon DEF Accounted
  <2> QED BY <2>2, <2>3, Zenon
<1>6. q.rec <= made /\ \A t \in Recorded : pool'[t] # q.rec
  BY <1>1, <1>2, <1>3, RecordedAssumption DEF RecordingInv, Recs
<1>7. \A t \in Recorded : pool'[t] # None => pool'[t] <= made /\ writer[pool'[t]] = "open"
  BY <1>3, Zenon DEF RecordingInv
<1>8. \A t, u \in Recorded : pool'[t] # None /\ pool'[t] = pool'[u] => t = u
  BY <1>3 DEF RecordingInv
<1>9. /\ \A r \in Recs : r > made => rows[r] = None /\ writer[r] = "none"
      /\ \A r \in Recs : rows[r] # None /\ rows[r].stopped = TRUE => writer[r] = "closed" /\ rows[r].size = Len(file[r])
  BY Zenon DEF RecordingInv
<1>10. pool'[q.session] = None
  BY <1>2, <1>3
<1>11. (/\ RecordingTypes /\ RequestTyped(request[h1])
        /\ nexus # "up" => request[h1].at = "idle"
        /\ request[h1].at \in {"close", "update"} => pool[request[h1].session] = None
        /\ request[h1].at = "insert" => pool[request[h1].session] = request[h1].rec
        /\ request[h1].at = "close" => request[h1].rec <= made /\ \A t \in Recorded : pool[t] # request[h1].rec)'
  BY <1>1, <1>2, <1>3, <1>4, <1>6, <1>10, Zenon
<1>12. (/\ \A r \in Recs : rows[r] # None /\ rows[r].stopped = TRUE => writer[r] = "closed" /\ rows[r].size = Len(file[r])
        /\ \A r \in Recs : rows[r] # None /\ rows[r].session \in Recorded /\ rows[r].stopped = FALSE =>
             Accounted(request[h1], pool, writer, file, rows[r], r))'
  BY <1>1, <1>3, <1>5, <1>9, Zenon
<1> QED BY <1>1, <1>7, <1>8, <1>9, <1>11, <1>12, Zenon DEF RecordingInv

(* Close of the writer that left the pool: its file grows no more. *)
LEMMA CloseKeeps ==
  ASSUME RecordingInv, Record(Serial)!CloseWriter(h1)
  PROVE  RecordingInv'
<1> USE DEF Record!nexusVars, Record!outputVars, Record!reconcileVars
<1> DEFINE s == request[h1].session
           n == request[h1].rec
           q == [at |-> "update", session |-> s, size |-> Len(file[n])]
<1>1. /\ RecordingTypes /\ request[h1].at = "close" /\ s \in Recorded /\ n \in Recs
      /\ n <= made /\ pool[s] = None /\ \A t \in Recorded : pool[t] # n
      /\ UNCHANGED <<nexus, starts, made, pool, file, rows, chunks, write, todo>>
      /\ request' = [request EXCEPT ![h1] = q] /\ writer' = [writer EXCEPT ![n] = "closed"]
  BY Zenon DEF RecordingInv, RecordingTypes, RequestTyped, Record!CloseWriter, Record!Closed
<1>2. Len(file[n]) \in Nat
  BY <1>1 DEF RecordingTypes
<1>3. RequestTyped(q) /\ q.at = "update" /\ q.session = s /\ q.size = Len(file[n])
  BY <1>1, <1>2, Zenon DEF RequestTyped
<1> HIDE DEF q, s, n
<1>4. /\ request'[h1] = q /\ request' = [h \in {h1} |-> request'[h]]
      /\ \A r \in Recs : writer'[r] = IF r = n THEN "closed" ELSE writer[r]
  BY <1>1, Zenon DEF RecordingTypes
<1>5. RecordingTypes'
  BY <1>1, <1>4, Zenon DEF RecordingTypes
<1>6. \A t \in Recorded : pool[t] # None => pool[t] <= made /\ writer'[pool[t]] = "open"
  BY <1>1, <1>4 DEF RecordingInv, RecordingTypes
<1>7. \A r \in Recs : r > made => rows[r] = None /\ writer'[r] = "none"
  <2>1. \A r \in Recs : r > made => r # n
    BY <1>1 DEF RecordingTypes, Recs
  <2> QED BY <1>4, <2>1, Zenon DEF RecordingInv
<1>8. ASSUME NEW r \in Recs, rows[r] # None, rows[r].stopped = TRUE
      PROVE  writer'[r] = "closed" /\ rows[r].size = Len(file[r])
  BY <1>4, <1>8, Zenon DEF RecordingInv
<1>9. ASSUME NEW r \in Recs, nexus = "up", rows[r] # None, rows[r].session \in Recorded, rows[r].stopped = FALSE
      PROVE  Accounted(q, pool, writer', file, rows[r], r)
  <2>1. Accounted(request[h1], pool, writer, file, rows[r], r)
    BY <1>9, Zenon DEF RecordingInv
  <2>2. pool[rows[r].session] = r \/ (s = rows[r].session /\ n = r)
    BY <1>1, <2>1, Zenon DEF Accounted, n, s
  <2>3. CASE pool[rows[r].session] = r
    BY <2>3, Zenon DEF Accounted
  <2>4. CASE s = rows[r].session /\ n = r
    BY <1>3, <1>4, <2>4 DEF Accounted
  <2> QED BY <2>2, <2>3, <2>4, Zenon
<1>10. nexus = "up" /\ \A t, u \in Recorded : pool[t] # None /\ pool[t] = pool[u] => t = u
  BY <1>1, Zenon DEF RecordingInv
<1>11. pool[q.session] = None
  BY <1>1, <1>3, Zenon
<1>12. (/\ RecordingTypes /\ RequestTyped(request[h1])
        /\ nexus # "up" => request[h1].at = "idle"
        /\ request[h1].at \in {"close", "update"} => pool[request[h1].session] = None
        /\ request[h1].at = "insert" => pool[request[h1].session] = request[h1].rec
        /\ request[h1].at = "close" => request[h1].rec <= made /\ \A t \in Recorded : pool[t] # request[h1].rec)'
  BY <1>1, <1>3, <1>4, <1>5, <1>10, <1>11, Zenon
<1>13. (/\ \A r \in Recs : rows[r] # None /\ rows[r].stopped = TRUE => writer[r] = "closed" /\ rows[r].size = Len(file[r])
        /\ \A r \in Recs : rows[r] # None /\ rows[r].session \in Recorded /\ rows[r].stopped = FALSE =>
             Accounted(request[h1], pool, writer, file, rows[r], r))'
  BY <1>1, <1>4, <1>8, <1>9, <1>10, Zenon
<1>14. (/\ \A t \in Recorded : pool[t] # None => pool[t] <= made /\ writer[pool[t]] = "open"
        /\ \A r \in Recs : r > made => rows[r] = None /\ writer[r] = "none"
        /\ \A t, u \in Recorded : pool[t] # None /\ pool[t] = pool[u] => t = u)'
  BY <1>1, <1>6, <1>7, <1>10, Zenon
<1> QED BY <1>12, <1>13, <1>14, Zenon DEF RecordingInv

(* The UPDATE of the session's rows: the only one that is not stopped is of *)
(* the recording that was closed.                                           *)
LEMMA UpdateKeeps ==
  ASSUME RecordingInv, Record(Serial)!UpdateRows(h1)
  PROVE  RecordingInv'
<1> USE DEF Record!nexusVars, Record!outputVars, Record!reconcileVars
<1> DEFINE s == request[h1].session
           z == request[h1].size
<1>1. /\ RecordingTypes /\ request[h1].at = "update" /\ s \in Recorded /\ z \in Nat
      /\ pool[s] = None
      /\ UNCHANGED <<nexus, starts, made, pool, writer, file, chunks, write, todo>>
      /\ request' = [request EXCEPT ![h1] = Record(Serial)!Idle]
  BY Zenon DEF RecordingInv, RecordingTypes, RequestTyped, Record!UpdateRows
<1>2. /\ request'[h1] = Record(Serial)!Idle /\ request'[h1].at = "idle"
      /\ request' = [h \in {h1} |-> request'[h]]
  BY <1>1, Zenon DEF RecordingTypes, Record!Idle
<1>3. /\ rows' = [r \in Recs |-> rows'[r]]
      /\ \A r \in Recs : rows'[r] = IF rows[r] # None /\ rows[r].session = s /\ ~rows[r].stopped
                                    THEN [rows[r] EXCEPT !.size = z, !.stopped = TRUE] ELSE rows[r]
  BY Zenon DEF Record!UpdateRows, Record!Recordings, Recs
<1>4. nexus = "up"
  BY <1>1, Zenon DEF RecordingInv
<1> HIDE DEF s, z
<1>5. ASSUME NEW r \in Recs
      PROVE  \/ rows'[r] = rows[r] /\ ~(rows[r] # None /\ rows[r].session = s /\ rows[r].stopped = FALSE)
             \/ /\ rows[r] # None /\ rows[r].session = s /\ rows[r].stopped = FALSE
                /\ rows'[r] \in RecordingRow /\ rows'[r].stopped = TRUE /\ rows'[r].size = z
  <2>1. rows[r] \in RecordingRow \/ rows[r] = None
    BY <1>1, Zenon DEF RecordingTypes
  <2>2. CASE rows[r] = None
    BY <1>3, <2>2, Zenon
  <2>3. CASE rows[r] \in RecordingRow
    BY <1>1, <1>3, <2>3, Zenon DEF RecordingRow
  <2> QED BY <2>1, <2>2, <2>3, Zenon
<1>6. \A r \in Recs : rows'[r] \in RecordingRow \cup {None}
  BY <1>1, <1>5, Zenon DEF RecordingTypes
<1>7. RecordingTypes'
  BY <1>1, <1>2, <1>3, <1>6, Zenon DEF RecordingTypes
<1>8. ASSUME NEW r \in Recs, rows'[r] # None, rows'[r].stopped = TRUE
      PROVE  writer[r] = "closed" /\ rows'[r].size = Len(file[r])
  <2>1. CASE rows'[r] = rows[r]
    BY <1>8, <2>1, Zenon DEF RecordingInv
  <2>2. CASE rows[r] # None /\ rows[r].session = s /\ rows[r].stopped = FALSE /\ rows'[r].size = z
    <3>1. Accounted(request[h1], pool, writer, file, rows[r], r)
      BY <1>1, <1>4, <2>2, Zenon DEF RecordingInv
    <3> QED BY <1>1, <2>2, <3>1, RecordedAssumption, Zenon DEF Accounted, Recs, s, z
  <2> QED BY <1>5, <2>1, <2>2, Zenon
<1>9. ASSUME NEW r \in Recs, rows'[r] # None, rows'[r].session \in Recorded, rows'[r].stopped = FALSE
      PROVE  Accounted(request'[h1], pool, writer, file, rows'[r], r)
  <2>1. rows'[r] = rows[r] /\ rows[r].session # s
    BY <1>5, <1>9, Zenon
  <2>2. Accounted(request[h1], pool, writer, file, rows[r], r)
    BY <1>4, <1>9, <2>1, Zenon DEF RecordingInv
  <2> QED BY <1>1, <2>1, <2>2, Zenon DEF Accounted, s
<1>10. \A r \in Recs : r > made => rows'[r] = None
  BY <1>5, Zenon DEF RecordingInv
<1>11. RequestTyped(request'[h1])
  BY <1>2 DEF RequestTyped
<1> QED BY <1>1, <1>2, <1>4, <1>7, <1>8, <1>9, <1>10, <1>11, Zenon DEF RecordingInv

(* RecordingInv is kept by every step.  Nexus is not started again. *)
LEMMA RecordingStep ==
  ASSUME RecordingInv, [Record(Serial)!Next]_(Record(Serial)!vars)
  PROVE  RecordingInv'
<1> USE DEF Record!nexusVars, Record!outputVars, Record!reconcileVars
<1>1. /\ RecordingTypes /\ RequestTyped(request[h1]) /\ (nexus # "up" => request[h1].at = "idle")
      /\ Record(Serial)!Idle.at = "idle" /\ RequestTyped(Record(Serial)!Idle)
  BY Zenon DEF RecordingInv, RequestTyped, Record!Idle
<1>2. ASSUME NEW s \in Recorded, Record(Serial)!StartChecked(h1, s) PROVE RecordingInv'
  <2> DEFINE q == [at |-> "start", session |-> s]
  <2>1. /\ request[h1].at = "idle" /\ nexus = "up" /\ request' = [request EXCEPT ![h1] = q]
        /\ UNCHANGED <<nexus, starts, made, file, rows, chunks, write, todo, pool, writer>>
    BY <1>1, <1>2, Zenon DEF Record!StartChecked
  <2>2. q.at = "start" /\ RequestTyped(q)
    BY Zenon DEF RequestTyped
  <2> QED BY <2>1, <2>2, RequestMoves, Zenon
<1>3. ASSUME Record(Serial)!StartFails(h1) PROVE RecordingInv'
  <2>1. /\ request[h1].at = "start" /\ request' = [request EXCEPT ![h1] = Record(Serial)!Idle]
        /\ UNCHANGED <<nexus, starts, made, file, rows, chunks, write, todo, pool, writer>>
    BY <1>3, Zenon DEF Record!StartFails
  <2> QED BY <1>1, <2>1, RequestMoves, Zenon
<1>4. ASSUME NEW s \in Recorded, Record(Serial)!LookUpWriter(s) PROVE RecordingInv'
  <2>1. /\ write' = [rec |-> pool[s], chunk |-> chunks + 1] /\ chunks' = chunks + 1
        /\ UNCHANGED <<nexus, starts, made, file, rows, todo, pool, writer, request>>
    BY <1>4, Zenon DEF Record!LookUpWriter
  <2>2. RecordingTypes'
    BY <1>1, <2>1 DEF RecordingTypes
  <2> QED BY <2>1, <2>2, BehindRequests, Zenon
<1>5. ASSUME Record(Serial)!WriteChunk PROVE RecordingInv'
  <2>1. /\ write # None /\ write' = None
        /\ UNCHANGED <<nexus, starts, made, rows, todo, pool, writer, request, chunks>>
        /\ \/ file' = file
           \/ /\ write.rec # None /\ writer[write.rec] = "open"
              /\ file' = [file EXCEPT ![write.rec] = Append(@, write.chunk)]
    BY <1>5, Zenon DEF Record!WriteChunk
  <2>2. file' \in [Recs -> Seq(Nat)] /\ \A r \in Recs : file'[r] = file[r] \/ writer[r] = "open"
    <3>1. CASE file' = file
      BY <1>1, <3>1, Zenon DEF RecordingTypes
    <3>2. CASE write.rec # None /\ writer[write.rec] = "open" /\ file' = [file EXCEPT ![write.rec] = Append(@, write.chunk)]
      <4>1. write.rec \in Recs /\ write.chunk \in Nat /\ file[write.rec] \in Seq(Nat)
        BY <1>1, <2>1, <3>2, Zenon DEF RecordingTypes
      <4>2. Append(file[write.rec], write.chunk) \in Seq(Nat)
        BY <4>1
      <4> QED BY <1>1, <3>2, <4>1, <4>2, Zenon DEF RecordingTypes
    <3> QED BY <2>1, <3>1, <3>2, Zenon
  <2>3. RecordingTypes'
    BY <1>1, <2>1, <2>2, Zenon DEF RecordingTypes
  <2> QED BY <2>1, <2>2, <2>3, BehindRequests, Zenon
<1>6. ASSUME NEW s \in Recorded, Record(Serial)!DeleteSession(s) PROVE RecordingInv'
  <2>1. /\ UNCHANGED <<nexus, starts, made, file, chunks, write, todo, pool, writer, request>>
        /\ rows' = [r \in Recs |-> rows'[r]]
        /\ \A r \in Recs : rows'[r] = IF rows[r] # None /\ rows[r].session = s
                                      THEN [rows[r] EXCEPT !.session = None] ELSE rows[r]
    BY <1>6 DEF Record!DeleteSession, Record!Recordings, Recs
  <2>2. ASSUME NEW r \in Recs
        PROVE  \/ rows'[r] = rows[r]
               \/ /\ rows[r] # None /\ rows'[r] \in RecordingRow /\ rows'[r].session = None
                  /\ rows'[r].stopped = rows[r].stopped /\ rows'[r].size = rows[r].size
    <3>1. rows[r] \in RecordingRow \/ rows[r] = None
      BY <1>1, Zenon DEF RecordingTypes
    <3> QED BY <2>1, <3>1 DEF RecordingRow
  <2>3. \A r \in Recs : rows'[r] \in RecordingRow \cup {None}
    BY <1>1, <2>2, Zenon DEF RecordingTypes
  <2>4. RecordingTypes'
    BY <1>1, <2>1, <2>3 DEF RecordingTypes
  <2>5. None \notin RecordingRow
    BY RecordedAssumption, Zenon DEF RecordingRow
  <2> QED BY <2>1, <2>2, <2>4, <2>5, BehindRequests, Zenon
<1>7. ASSUME Record(Serial)!ListFiles PROVE RecordingInv'
  <2>1. /\ UNCHANGED <<nexus, starts, made, file, rows, chunks, write, pool, writer, request>>
        /\ todo' = {r \in Recs : writer[r] # "none"}
    BY <1>7, Zenon DEF Record!ListFiles, Record!Files, Record!Recordings, Recs
  <2>2. \A r \in Recs : writer[r] # "none" => r \in 1 .. made
    BY <1>1 DEF RecordingInv, RecordingTypes, Recs
  <2>3. RecordingTypes'
    BY <1>1, <2>1, <2>2, Zenon DEF RecordingTypes
  <2> QED BY <2>1, <2>3, BehindRequests, Zenon
<1>8. ASSUME NEW r \in Recs, Record(Serial)!ReconcileFile(r) PROVE RecordingInv'
  <2> DEFINE x == [session |-> None, size |-> 1 + Len(file[r]), stopped |-> FALSE]
  <2>1. /\ UNCHANGED <<nexus, starts, made, file, chunks, write, pool, writer, request>>
        /\ r \in todo /\ todo' = todo \ {r} /\ (rows' = rows \/ rows' = [rows EXCEPT ![r] = x])
    BY <1>8, Zenon DEF Record!ReconcileFile, Record!Orphan
  <2>2. Len(file[r]) \in Nat
    BY <1>1 DEF RecordingTypes
  <2>3. x \in RecordingRow /\ x.session = None /\ x.stopped = FALSE
    BY <2>2 DEF RecordingRow
  <2> HIDE DEF x
  <2>4. rows' \in [Recs -> RecordingRow \cup {None}] /\ \A t \in Recs : rows'[t] = rows[t] \/ (t = r /\ rows'[t] = x)
    <3>1. rows \in [Recs -> RecordingRow \cup {None}]
      BY <1>1, Zenon DEF RecordingTypes
    <3>2. CASE rows' = rows
      BY <3>1, <3>2
    <3>3. CASE rows' = [rows EXCEPT ![r] = x]
      BY <2>3, <3>1, <3>3, Zenon
    <3> QED BY <2>1, <3>2, <3>3, Zenon
  <2>5. RecordingTypes'
    BY <1>1, <2>1, <2>4, Zenon DEF RecordingTypes
  <2>6. r <= made /\ x # None
    BY <1>1, <2>1, <2>3, RecordedAssumption DEF RecordingTypes, RecordingRow
  <2> QED BY <2>1, <2>3, <2>4, <2>5, <2>6, BehindRequests, Zenon
<1>9. ASSUME Record(Serial)!Stop \/ Record(Serial)!Crash PROVE RecordingInv'
  <2>1. /\ UNCHANGED <<starts, made, file, rows, chunks, pool, writer>> /\ todo' = {} /\ nexus' # "up"
        /\ write' = write \/ write' = None
        /\ request' = request \/ request' = [h \in {h1} |-> Record(Serial)!Idle]
        /\ request'[h1] = Record(Serial)!Idle
    BY <1>9, Zenon DEF Record!Stop, Record!Crash, Serial
  <2>2. request' = [h \in {h1} |-> request'[h]]
    BY <1>1, <2>1, Zenon DEF RecordingTypes
  <2>3. RecordingTypes'
    BY <1>1, <2>1, <2>2, Zenon DEF RecordingTypes
  <2> QED BY <1>1, <2>1, <2>3, Zenon DEF RecordingInv
<1>10. ~Record(Serial)!Restart
  BY <1>1 DEF RecordingTypes, Record!Restart, Serial
<1>11. ASSUME UNCHANGED Record(Serial)!vars PROVE RecordingInv'
  <2>1. UNCHANGED <<nexus, starts, made, file, rows, chunks, write, todo, pool, writer, request>>
    BY <1>11, Zenon DEF Record!vars
  <2>2. RecordingTypes'
    BY <1>1, <2>1, Zenon DEF RecordingTypes
  <2> QED BY <2>1, <2>2, BehindRequests, Zenon
<1>12. CASE Record(Serial)!Next
  <2>1. \/ Record(Serial)!StartRecording(h1) \/ Record(Serial)!StartFails(h1) \/ Record(Serial)!InsertRow(h1)
        \/ Record(Serial)!CloseWriter(h1) \/ Record(Serial)!UpdateRows(h1)
        \/ \E s \in Recorded : Record(Serial)!StartChecked(h1, s) \/ Record(Serial)!StopRecording(h1, s)
        \/ \E s \in Recorded : Record(Serial)!LookUpWriter(s) \/ Record(Serial)!DeleteSession(s)
        \/ Record(Serial)!WriteChunk \/ Record(Serial)!ListFiles \/ (\E r \in Recs : Record(Serial)!ReconcileFile(r))
        \/ Record(Serial)!Stop \/ Record(Serial)!Crash
    BY <1>10, <1>12, Zenon DEF Record!Next, Record!Recordings, Recs, Serial
  <2> QED BY <1>2, <1>3, <1>4, <1>5, <1>6, <1>7, <1>8, <1>9, <2>1,
             StartKeeps, InsertKeeps, StopKeeps, CloseKeeps, UpdateKeeps, Zenon
<1> QED BY <1>11, <1>12

(* RecordingPool and the handlers of recordings, one request at a time: a   *)
(* row that says the recording is stopped has the size of the file, for any *)
(* number of sessions, recordings and chunks of output, with chunks that    *)
(* come late, deleted sessions, the reconciliation and a crash between any  *)
(* two steps.                                                               *)
THEOREM RowsDescribeFiles == PartSpec => []RowDescribesFile
<1> DEFINE I == part = "serial" => RecordingInv
<1>1. PartInit => I
  BY RecordingInit DEF PartInit
<1>2. I /\ [PartNext]_allVars => I'
  <2> SUFFICES ASSUME part = "serial" => RecordingInv, [PartNext]_allVars, part' = "serial" PROVE RecordingInv'
    OBVIOUS
  <2>1. part = "serial"
    BY Zenon DEF PartNext, RingPart, StreamPart, RecordingPart, AttachPart, allVars
  <2>2. Record(Serial)!Next \/ UNCHANGED recordingVars
    BY <2>1, Zenon DEF PartNext, RingPart, StreamPart, RecordingPart, AttachPart, allVars
  <2>3. [Record(Serial)!Next]_(Record(Serial)!vars)
    BY <2>2, Zenon DEF recordingVars, Record!vars
  <2> QED BY <2>1, <2>3, RecordingStep, Zenon
<1>3. I => RowDescribesFile
  BY Zenon DEF RecordingInv, RowDescribesFile, Record!RowDescribesFile, Record!Recordings, Recs, RecordingTypes, RecordingRow
<1> QED BY <1>1, <1>2, <1>3, PTL DEF PartSpec
-----------------------------------------------------------------------------
(* daao attach: OneSeam made inductive.                                     *)

TermRecord == [open : BOOLEAN, need : Nat, held : Seq(Nat), seam : Nat, shown : Seq(Nat)]
HandlerRecord == [pc : {"none", "snapshot", "hydrate", "bridge", "remove"}, hydration : Seq(Nat)]
PumpRecord == [pc : {"read", "lock", "fan", "ended"}, chunk : Nat, left : Seq(Terminals)]

(* The chunks of s are consecutive but at k, where some may be missing or   *)
(* one may come twice.                                                      *)
Seamed(s, k) == \A i \in 1 .. (Len(s) - 1) : IF i = k THEN s[i + 1] >= s[i] ELSE s[i + 1] = s[i] + 1

Distinct(s) == \A i, j \in 1 .. Len(s) : s[i] = s[j] => i = j

(* What terminal x shows and holds back, what is in its connection s and    *)
(* what its handler a has yet to send of the scrollback.                    *)
All(x, s, a) == ((x.shown \o x.held) \o s) \o a.hydration

(* The chunk that the goroutine writes next to a terminal on the list. *)
Coming(t) == IF pump.pc = "lock" \/ t \in Attach!Range(pump.left) THEN printed ELSE printed + 1

(* Terminal x with its connection s and its handler a, when p chunks have   *)
(* been printed and the next that it is sent is n: its screen goes on from  *)
(* what has been sent to it.                                                *)
Attached(x, s, a, p, n) ==
  /\ a.pc # "hydrate" => a.hydration = <<>>
  /\ ~x.open => x = Attach!Off /\ s = <<>>
  /\ a.pc = "none" => ~x.open
  /\ a.pc = "snapshot" => x.shown = <<>> /\ x.held = <<>> /\ x.seam = 0 /\ s = <<>>
  /\ x.open => LET u == All(x, s, a) IN
       /\ Seamed(u, x.seam) /\ Len(u) >= x.seam
       /\ a.pc \in {"snapshot", "hydrate"} => Len(u) = x.seam
       /\ Len(u) = x.seam /\ u # <<>> => u[Len(u)] <= p
       /\ Len(u) > x.seam => u[Len(u)] + 1 = n

AttachTypes ==
  /\ printed \in Nat /\ scroll \in Seq(Nat) /\ pump \in PumpRecord /\ localClients \in Seq(Terminals)
  /\ attach \in [Terminals -> HandlerRecord] /\ sock \in [Terminals -> Seq(Nat)]
  /\ term \in [Terminals -> TermRecord]

(* The goroutine copies the last chunk that was printed, to connections     *)
(* that are on the list once.                                               *)
PumpOK ==
  /\ pump.pc \in {"lock", "fan"} => pump.chunk = printed
  /\ pump.pc # "fan" => pump.left = <<>>
  /\ Seamed(scroll, 0) /\ (scroll # <<>> => scroll[Len(scroll)] = printed)
  /\ Distinct(localClients) /\ Distinct(pump.left) /\ Attach!Range(pump.left) \subseteq Attach!Range(localClients)
  /\ \A t \in Terminals : t \in Attach!Range(localClients) <=> attach[t].pc \in {"bridge", "remove"}

AttachInv ==
  /\ AttachTypes /\ PumpOK
  /\ \A t \in Terminals : Attached(term[t], sock[t], attach[t], printed, Coming(t))

(* Sequences of the same length with the same elements are equal. *)
LEMMA SameSequence ==
  ASSUME NEW S, NEW a \in Seq(S), NEW b \in Seq(S), Len(a) = Len(b), \A i \in 1 .. Len(a) : a[i] = b[i]
  PROVE  a = b
  OBVIOUS

(* Concatenation. *)
LEMMA Regroup ==
  ASSUME NEW a \in Seq(Nat), NEW b \in Seq(Nat), NEW c \in Seq(Nat)
  PROVE  (a \o b) \o c = a \o (b \o c)
<1> DEFINE u == (a \o b) \o c
           v == a \o (b \o c)
<1>1. u \in Seq(Nat) /\ v \in Seq(Nat) /\ Len(u) = Len(v)
  OBVIOUS
<1>2. \A i \in 1 .. Len(u) : u[i] = v[i]
  OBVIOUS
<1> HIDE DEF u, v
<1>3. u = v
  BY <1>1, <1>2, SameSequence, Zenon
<1> QED BY <1>3 DEF u, v

(* What leaves the front of one sequence joins the end of another. *)
LEMMA HeadMoves ==
  ASSUME NEW S, NEW a \in Seq(S), NEW b \in Seq(S), b # <<>>
  PROVE  Append(a, Head(b)) \o Tail(b) = a \o b
<1> DEFINE u == Append(a, Head(b)) \o Tail(b)
           v == a \o b
<1>1. u \in Seq(S) /\ v \in Seq(S) /\ Len(u) = Len(v)
  OBVIOUS
<1>2. \A i \in 1 .. Len(u) : u[i] = v[i]
  OBVIOUS
<1> HIDE DEF u, v
<1>3. u = v
  BY <1>1, <1>2, SameSequence, Zenon
<1> QED BY <1>3, Zenon DEF u, v

(* The same behind another sequence. *)
LEMMA HeadMovesBehind ==
  ASSUME NEW w \in Seq(Nat), NEW q \in Seq(Nat), NEW h \in Seq(Nat), h # <<>>
  PROVE  (w \o Append(q, Head(h))) \o Tail(h) = (w \o q) \o h
<1> DEFINE z == Append(q, Head(h))
           k == Tail(h)
<1>1. z \in Seq(Nat) /\ k \in Seq(Nat)
  OBVIOUS
<1>2. z \o k = q \o h
  BY HeadMoves, Zenon
<1> HIDE DEF z, k
<1>3. (w \o z) \o k = w \o (z \o k)
  BY <1>1, Regroup, Zenon
<1>4. (w \o q) \o h = w \o (q \o h)
  BY Regroup, Zenon
<1>5. (w \o z) \o k = (w \o q) \o h
  BY <1>2, <1>3, <1>4, Zenon
<1> QED BY <1>5, Zenon DEF z, k

(* A sequence that is longer by its last element; the empty one adds nothing. *)
LEMMA Extends ==
  ASSUME NEW S, NEW a \in Seq(S), NEW b \in Seq(S), NEW x \in S
  PROVE  /\ a \o Append(b, x) = Append(a \o b, x) /\ a \o <<>> = a /\ <<>> \o a = a
<1> DEFINE u == a \o Append(b, x)
           v == Append(a \o b, x)
<1>1. u \in Seq(S) /\ v \in Seq(S) /\ Len(u) = Len(v)
  OBVIOUS
<1>2. \A i \in 1 .. Len(u) : u[i] = v[i]
  OBVIOUS
<1> HIDE DEF u, v
<1>3. u = v
  BY <1>1, <1>2, SameSequence, Zenon
<1>4. a \o <<>> = a /\ <<>> \o a = a
  OBVIOUS
<1> QED BY <1>3, <1>4 DEF u, v

(* A chunk more. *)
LEMMA SeamGrows ==
  ASSUME NEW s \in Seq(Nat), NEW k \in Nat, NEW x \in Nat, Seamed(s, k),
         s # <<>> => IF Len(s) = k THEN x >= s[Len(s)] ELSE x = s[Len(s)] + 1
  PROVE  /\ Append(s, x) \in Seq(Nat) /\ Seamed(Append(s, x), k)
         /\ Len(Append(s, x)) = Len(s) + 1 /\ Append(s, x)[Len(s) + 1] = x
<1>1. Len(s) \in Nat /\ Len(Append(s, x)) = Len(s) + 1 /\ Append(s, x)[Len(s) + 1] = x /\ Append(s, x) \in Seq(Nat)
  OBVIOUS
<1>2. \A i \in 1 .. Len(s) : Append(s, x)[i] = s[i]
  OBVIOUS
<1>3. ASSUME NEW i \in 1 .. Len(s)
      PROVE  IF i = k THEN Append(s, x)[i + 1] >= Append(s, x)[i] ELSE Append(s, x)[i + 1] = Append(s, x)[i] + 1
  <2>1. CASE i = Len(s)
    BY <1>1, <1>2, <2>1
  <2>2. CASE i # Len(s)
    <3>1. i \in 1 .. (Len(s) - 1) /\ i + 1 \in 1 .. Len(s)
      BY <1>1, <2>2
    <3> QED BY <1>2, <3>1, Zenon DEF Seamed
  <2> QED BY <2>1, <2>2, Zenon
<1>4. Len(Append(s, x)) - 1 = Len(s)
  BY <1>1
<1> QED BY <1>1, <1>3, <1>4, Zenon DEF Seamed

(* The oldest chunk leaves the ring buffer. *)
LEMMA SeamShrinks ==
  ASSUME NEW s \in Seq(Nat), s # <<>>, Seamed(s, 0)
  PROVE  Seamed(Tail(s), 0) /\ Tail(s) \in Seq(Nat) /\ (Tail(s) # <<>> => Tail(s)[Len(Tail(s))] = s[Len(s)])
  BY DEF Seamed

(* What a terminal shows comes before what it has yet to show. *)
LEMMA Prefix ==
  ASSUME NEW a \in Seq(Nat), NEW b \in Seq(Nat), NEW k \in Nat, Seamed(a \o b, k)
  PROVE  Seamed(a, k)
<1>1. Len(a) \in Nat /\ Len(b) \in Nat /\ Len(a \o b) = Len(a) + Len(b) /\ \A i \in 1 .. Len(a) : (a \o b)[i] = a[i]
  OBVIOUS
<1>2. \A i \in 1 .. (Len(a) - 1) : i \in 1 .. (Len(a \o b) - 1) /\ i \in 1 .. Len(a) /\ i + 1 \in 1 .. Len(a)
  BY <1>1
<1> QED BY <1>1, <1>2, Zenon DEF Seamed

(* A list with each connection once, and one of them taken out. *)
LEMMA TakenOut ==
  ASSUME NEW s \in Seq(Terminals), Distinct(s), NEW i \in 1 .. Len(s), NEW w \in Seq(Terminals), Len(w) = Len(s) - 1,
         \A j \in 1 .. Len(w) : w[j] = IF j < i THEN s[j] ELSE s[j + 1]
  PROVE  Distinct(w) /\ Attach!Range(w) = Attach!Range(s) \ {s[i]}
<1>1. Len(s) \in Nat /\ Len(w) \in Nat
  OBVIOUS
<1>5. Distinct(w)
  <2> SUFFICES ASSUME NEW j \in 1 .. Len(w), NEW m \in 1 .. Len(w), w[j] = w[m] PROVE j = m
    BY Zenon DEF Distinct
  <2> DEFINE at(x) == IF x < i THEN x ELSE x + 1
  <2>1. at(j) \in 1 .. Len(s) /\ at(m) \in 1 .. Len(s) /\ (at(j) = at(m) => j = m)
    BY <1>1
  <2>2. w[j] = s[at(j)] /\ w[m] = s[at(m)]
    BY Zenon
  <2> HIDE DEF at
  <2> QED BY <2>1, <2>2, Zenon DEF Distinct
<1>6. \A j \in 1 .. Len(s) : j # i => \E m \in 1 .. Len(w) : w[m] = s[j]
  <2> SUFFICES ASSUME NEW j \in 1 .. Len(s), j # i PROVE \E m \in 1 .. Len(w) : w[m] = s[j]
    BY Zenon
  <2>1. CASE j < i
    <3>1. j \in 1 .. Len(w)
      BY <1>1, <2>1
    <3>2. w[j] = s[j]
      BY <2>1, <3>1, Zenon
    <3> QED BY <3>1, <3>2, Zenon
  <2>2. CASE j > i
    <3>1. j - 1 \in 1 .. Len(w) /\ ~(j - 1 < i) /\ (j - 1) + 1 = j
      BY <1>1, <2>2
    <3>2. w[j - 1] = s[j]
      BY <3>1, Zenon
    <3> QED BY <3>1, <3>2, Zenon
  <2> QED BY <1>1, <2>1, <2>2
<1>7. DOMAIN s = 1 .. Len(s) /\ DOMAIN w = 1 .. Len(w)
  OBVIOUS
<1>8. \A m \in 1 .. Len(w) : \E j \in 1 .. Len(s) : j # i /\ w[m] = s[j]
  <2> SUFFICES ASSUME NEW m \in 1 .. Len(w) PROVE \E j \in 1 .. Len(s) : j # i /\ w[m] = s[j]
    BY Zenon
  <2>1. m \in 1 .. Len(s) /\ m + 1 \in 1 .. Len(s)
    BY <1>1
  <2>2. CASE m < i
    BY <2>1, <2>2
  <2>3. CASE ~(m < i)
    <3>1. m + 1 # i /\ w[m] = s[m + 1]
      BY <2>1, <2>3
    <3> QED BY <2>1, <3>1, Zenon
  <2> QED BY <2>2, <2>3, Zenon
<1>9. \A j \in 1 .. Len(s) : s[j] = s[i] => j = i
  BY Zenon DEF Distinct
<1>10. Attach!Range(w) = Attach!Range(s) \ {s[i]}
  <2>1. \A y \in Attach!Range(w) : y \in Attach!Range(s) /\ y # s[i]
    <3> SUFFICES ASSUME NEW m \in 1 .. Len(w) PROVE w[m] \in Attach!Range(s) /\ w[m] # s[i]
      BY <1>7, Zenon DEF Attach!Range
    <3>1. PICK j \in 1 .. Len(s) : j # i /\ w[m] = s[j]
      BY <1>8, Zenon
    <3> QED BY <1>7, <1>9, <3>1, Zenon DEF Attach!Range
  <2>2. \A y \in Attach!Range(s) : y # s[i] => y \in Attach!Range(w)
    <3> SUFFICES ASSUME NEW j \in 1 .. Len(s), s[j] # s[i] PROVE s[j] \in Attach!Range(w)
      BY <1>7, Zenon DEF Attach!Range
    <3>1. PICK m \in 1 .. Len(w) : w[m] = s[j]
      BY <1>6, Zenon
    <3> QED BY <1>7, <3>1, Zenon DEF Attach!Range
  <2> QED BY <2>1, <2>2, Zenon
<1> QED BY <1>5, <1>10, Zenon

(* A connection that is added to the list. *)
LEMMA OnList ==
  ASSUME NEW S, NEW s \in Seq(S), NEW x \in S
  PROVE  /\ Append(s, x) \in Seq(S) /\ Attach!Range(Append(s, x)) = Attach!Range(s) \cup {x}
         /\ Distinct(s) /\ x \notin Attach!Range(s) => Distinct(Append(s, x))
<1>1. /\ Append(s, x) \in Seq(S) /\ Len(s) \in Nat /\ Len(Append(s, x)) = Len(s) + 1
      /\ DOMAIN s = 1 .. Len(s) /\ DOMAIN Append(s, x) = 1 .. (Len(s) + 1)
      /\ Append(s, x)[Len(s) + 1] = x /\ \A i \in 1 .. Len(s) : Append(s, x)[i] = s[i]
  OBVIOUS
<1>2. \A i \in 1 .. (Len(s) + 1) : i \in 1 .. Len(s) \/ i = Len(s) + 1
  BY <1>1
<1>3. Attach!Range(Append(s, x)) = Attach!Range(s) \cup {x}
  BY <1>1, <1>2 DEF Attach!Range
<1>4. ASSUME Distinct(s), x \notin Attach!Range(s) PROVE Distinct(Append(s, x))
  <2>1. \A i \in 1 .. Len(s) : s[i] # x
    BY <1>1, <1>4, Zenon DEF Attach!Range
  <2> QED BY <1>1, <1>2, <1>4, <2>1, Zenon DEF Distinct
<1> QED BY <1>1, <1>3, <1>4, Zenon

(* The first connection of a list. *)
LEMMA OffList ==
  ASSUME NEW S, NEW s \in Seq(S), s # <<>>, Distinct(s)
  PROVE  /\ Tail(s) \in Seq(S) /\ Head(s) \in S /\ Attach!Range(Tail(s)) = Attach!Range(s) \ {Head(s)}
         /\ Distinct(Tail(s)) /\ Head(s) \in Attach!Range(s)
<1>1. /\ Tail(s) \in Seq(S) /\ Head(s) = s[1] /\ Len(s) \in Nat \ {0} /\ Len(Tail(s)) = Len(s) - 1
      /\ DOMAIN s = 1 .. Len(s) /\ DOMAIN Tail(s) = 1 .. (Len(s) - 1)
      /\ \A i \in 1 .. (Len(s) - 1) : Tail(s)[i] = s[i + 1]
  OBVIOUS
<1>2. Distinct(Tail(s))
  BY <1>1 DEF Distinct
<1>3. ASSUME NEW i \in 1 .. Len(s), i # 1 PROVE s[i] # s[1] /\ s[i] \in Attach!Range(Tail(s))
  <2>1. i - 1 \in 1 .. (Len(s) - 1) /\ (i - 1) + 1 = i
    BY <1>1, <1>3
  <2>2. s[i] # s[1]
    BY <1>1, <1>3 DEF Distinct
  <2>3. Tail(s)[i - 1] = s[i]
    BY <1>1, <2>1, Zenon
  <2> QED BY <1>1, <2>1, <2>2, <2>3, Zenon DEF Attach!Range
<1>4. ASSUME NEW i \in 1 .. (Len(s) - 1) PROVE Tail(s)[i] \in Attach!Range(s) /\ Tail(s)[i] # s[1]
  BY <1>1, <1>3 DEF Attach!Range
<1>5. s[1] \in Attach!Range(s) /\ s[1] \in S
  BY <1>1 DEF Attach!Range
<1> QED BY <1>1, <1>2, <1>3, <1>4, <1>5 DEF Attach!Range

(* The fields of a terminal and its handler are sequences. *)
LEMMA AllTyped ==
  ASSUME NEW x \in TermRecord, NEW s \in Seq(Nat), NEW a \in HandlerRecord
  PROVE  /\ x.shown \in Seq(Nat) /\ x.held \in Seq(Nat) /\ a.hydration \in Seq(Nat)
         /\ x.need \in Nat /\ x.seam \in Nat /\ x.open \in BOOLEAN
         /\ x.shown \o x.held \in Seq(Nat) /\ (x.shown \o x.held) \o s \in Seq(Nat) /\ All(x, s, a) \in Seq(Nat)
<1>1. /\ x.shown \in Seq(Nat) /\ x.held \in Seq(Nat) /\ a.hydration \in Seq(Nat)
      /\ x.need \in Nat /\ x.seam \in Nat /\ x.open \in BOOLEAN
  BY Zenon DEF TermRecord, HandlerRecord
<1> QED BY <1>1 DEF All

(* Output goes on.  The next chunk does not matter to a terminal that is    *)
(* not on the list.                                                         *)
LEMMA OutputGoesOn ==
  ASSUME NEW x \in TermRecord, NEW s \in Seq(Nat), NEW a \in HandlerRecord,
         NEW p \in Nat, NEW q \in Nat, p <= q, NEW n \in Nat, NEW m \in Nat,
         n = m \/ a.pc \notin {"bridge", "remove"}, Attached(x, s, a, p, n)
  PROVE  Attached(x, s, a, q, m)
<1> DEFINE u == All(x, s, a)
<1>1. u \in Seq(Nat) /\ x.seam \in Nat /\ Len(u) \in Nat
  BY AllTyped
<1>2. u # <<>> => u[Len(u)] \in Nat
  BY <1>1
<1>3. a.pc \in {"none", "snapshot", "hydrate", "bridge", "remove"}
  BY Zenon DEF HandlerRecord
<1> HIDE DEF u
<1>4. ASSUME x.open
      PROVE  /\ Seamed(u, x.seam) /\ Len(u) >= x.seam
             /\ a.pc \in {"snapshot", "hydrate"} => Len(u) = x.seam
             /\ Len(u) = x.seam /\ u # <<>> => u[Len(u)] <= p
             /\ Len(u) > x.seam => u[Len(u)] + 1 = n
             /\ a.pc # "none"
  BY <1>4, Zenon DEF Attached, u
<1>5. ASSUME x.open, Len(u) > x.seam PROVE u[Len(u)] + 1 = m
  BY <1>1, <1>3, <1>4, <1>5
<1>6. ASSUME x.open, Len(u) = x.seam, u # <<>> PROVE u[Len(u)] <= q
  BY <1>1, <1>2, <1>4, <1>6
<1> QED BY <1>4, <1>5, <1>6, Zenon DEF Attached, u

(* A terminal that has hung up. *)
LEMMA HungUp ==
  ASSUME NEW a, NEW p, NEW n, a.pc # "hydrate" => a.hydration = <<>>
  PROVE  Attached(Attach!Off, <<>>, a, p, n)
  BY Zenon DEF Attached, Attach!Off

(* What was sent to a terminal moves on towards its screen. *)
LEMMA MovesOn ==
  ASSUME NEW x, NEW s, NEW a, NEW y, NEW t, NEW b, NEW p, NEW n, Attached(x, s, a, p, n),
         x.open, y.open, y.seam = x.seam, All(y, t, b) = All(x, s, a),
         b.pc \in {"hydrate", "bridge", "remove"}, b.pc = "hydrate" => a.pc = "hydrate",
         b.pc # "hydrate" => b.hydration = <<>>
  PROVE  Attached(y, t, b, p, n)
<1> DEFINE u == All(x, s, a)
<1> HIDE DEF u
<1>1. /\ Seamed(u, x.seam) /\ Len(u) >= x.seam
      /\ a.pc \in {"snapshot", "hydrate"} => Len(u) = x.seam
      /\ Len(u) = x.seam /\ u # <<>> => u[Len(u)] <= p
      /\ Len(u) > x.seam => u[Len(u)] + 1 = n
  BY Zenon DEF Attached, u
<1>2. All(y, t, b) = u
  BY Zenon DEF u
<1> QED BY <1>1, <1>2, Zenon DEF Attached

(* The goroutine writes the next chunk to a terminal on the list. *)
LEMMA ChunkSent ==
  ASSUME NEW x \in TermRecord, NEW s \in Seq(Nat), NEW a \in HandlerRecord, NEW p \in Nat,
         x.open, a.pc \in {"bridge", "remove"}, Attached(x, s, a, p, p)
  PROVE  Attached(x, Append(s, p), a, p, p + 1)
<1> DEFINE u == All(x, s, a)
           v == All(x, Append(s, p), a)
<1>1. u \in Seq(Nat) /\ x.seam \in Nat /\ Len(u) \in Nat /\ (x.shown \o x.held) \in Seq(Nat) /\ (x.shown \o x.held) \o s \in Seq(Nat)
  BY AllTyped
<1>2. a.hydration = <<>>
  BY Zenon DEF Attached
<1>3. v = Append(u, p)
  <2>1. u = (x.shown \o x.held) \o s
    BY <1>1, <1>2, Extends, Zenon DEF All
  <2>2. Append((x.shown \o x.held) \o s, p) \in Seq(Nat)
    BY <1>1
  <2>3. v = (x.shown \o x.held) \o Append(s, p)
    <3>1. (x.shown \o x.held) \o Append(s, p) \in Seq(Nat)
      BY <1>1, <2>2, Extends
    <3>2. ((x.shown \o x.held) \o Append(s, p)) \o <<>> = (x.shown \o x.held) \o Append(s, p)
      BY <3>1
    <3>3. v = ((x.shown \o x.held) \o Append(s, p)) \o a.hydration
      BY Zenon DEF All
    <3> HIDE DEF v
    <3> QED BY <1>2, <3>2, <3>3, Zenon
  <2>4. (x.shown \o x.held) \o Append(s, p) = Append((x.shown \o x.held) \o s, p)
    <3> DEFINE w == x.shown \o x.held
    <3>1. w \in Seq(Nat)
      BY <1>1, Zenon
    <3> HIDE DEF w
    <3>2. w \o Append(s, p) = Append(w \o s, p)
      BY <3>1, Extends
    <3> QED BY <3>2, Zenon DEF w
  <2> QED BY <2>1, <2>3, <2>4, Zenon
<1> HIDE DEF u, v
<1>4. /\ Seamed(u, x.seam) /\ Len(u) >= x.seam
      /\ Len(u) = x.seam /\ u # <<>> => u[Len(u)] <= p
      /\ Len(u) > x.seam => u[Len(u)] + 1 = p
  BY Zenon DEF Attached, u
<1>5. u # <<>> => u[Len(u)] \in Nat
  BY <1>1
<1>6. u # <<>> => IF Len(u) = x.seam THEN p >= u[Len(u)] ELSE p = u[Len(u)] + 1
  BY <1>1, <1>4, <1>5
<1>7. Seamed(v, x.seam) /\ Len(v) = Len(u) + 1 /\ v[Len(v)] = p
  BY <1>1, <1>3, <1>4, <1>6, SeamGrows
<1>8. Len(v) > x.seam /\ v[Len(v)] + 1 = p + 1
  BY <1>1, <1>4, <1>7
<1>9. Len(v) >= x.seam /\ Len(v) # x.seam
  BY <1>1, <1>4, <1>7
<1>10. a.pc \notin {"none", "snapshot", "hydrate"}
  BY Zenon
<1> QED BY <1>2, <1>7, <1>8, <1>9, <1>10, Zenon DEF Attached, v

(* A terminal that has just dialled. *)
LEMMA Dialled ==
  ASSUME NEW x, NEW a, NEW p, NEW n, x.shown = <<>>, x.held = <<>>, x.seam = 0, x.open,
         a.pc = "snapshot", a.hydration = <<>>
  PROVE  Attached(x, <<>>, a, p, n)
<1>1. All(x, <<>>, a) = <<>>
  BY DEF All
<1>2. Seamed(<<>>, 0) /\ Len(<<>>) = 0
  BY DEF Seamed
<1> QED BY <1>1, <1>2 DEF Attached

(* A terminal that the scrollback r is to be sent to. *)
LEMMA Hydrated ==
  ASSUME NEW x, NEW a, NEW p \in Nat, NEW n, NEW r \in Seq(Nat), x.shown = <<>>, x.held = <<>>, x.seam = Len(r), x.open,
         a.pc = "hydrate", a.hydration = r, Seamed(r, 0), r # <<>> => r[Len(r)] = p
  PROVE  Attached(x, <<>>, a, p, n)
<1>1. All(x, <<>>, a) = r
  BY DEF All
<1>2. Len(r) \in Nat /\ \A i \in 1 .. (Len(r) - 1) : i # 0 /\ i # Len(r)
  OBVIOUS
<1>3. Seamed(r, Len(r))
  BY <1>2, Zenon DEF Seamed
<1> QED BY <1>1, <1>2, <1>3 DEF Attached

(* A step of one terminal or of its handler. *)
LEMMA OneTerminal ==
  ASSUME AttachInv, NEW t \in Terminals, AttachTypes', PumpOK', printed' = printed, pump' = pump,
         \A u \in Terminals \ {t} : term'[u] = term[u] /\ sock'[u] = sock[u] /\ attach'[u] = attach[u],
         Attached(term'[t], sock'[t], attach'[t], printed, Coming(t))
  PROVE  AttachInv'
<1>1. \A u \in Terminals : Coming(u)' = Coming(u)
  BY Zenon DEF Coming
<1>2. \A u \in Terminals : Attached(term'[u], sock'[u], attach'[u], printed', Coming(u)')
  BY <1>1, Zenon DEF AttachInv
<1> QED BY <1>2, Zenon DEF AttachInv

(* A step that leaves the list as it is. *)
LEMMA SameList ==
  ASSUME PumpOK, UNCHANGED <<printed, pump, scroll, localClients>>,
         \A t \in Terminals : attach'[t].pc \in {"bridge", "remove"} <=> attach[t].pc \in {"bridge", "remove"}
  PROVE  PumpOK'
  BY Zenon DEF PumpOK

(* The number of the chunk after one that the PTY has printed. *)
LEMMA NextChunk == \A n \in Nat : n + 1 \in Nat
  OBVIOUS

(* A step of the goroutine that writes to no connection. *)
LEMMA PumpMoves ==
  ASSUME AttachInv, AttachTypes', PumpOK', UNCHANGED <<term, sock, attach>>, printed <= printed',
         \A t \in Terminals : Coming(t)' = Coming(t) \/ attach[t].pc \notin {"bridge", "remove"}
  PROVE  AttachInv'
<1>1. printed \in Nat /\ printed' \in Nat
  BY Zenon DEF AttachInv, AttachTypes
<1>2. ASSUME NEW t \in Terminals PROVE Attached(term[t], sock[t], attach[t], printed', Coming(t)')
  <2>1. Coming(t) \in Nat /\ Coming(t)' \in Nat
    BY <1>1, NextChunk, Zenon DEF Coming
  <2>2. /\ term[t] \in TermRecord /\ sock[t] \in Seq(Nat) /\ attach[t] \in HandlerRecord
        /\ Attached(term[t], sock[t], attach[t], printed, Coming(t))
    BY Zenon DEF AttachInv, AttachTypes
  <2> QED BY <1>1, <2>1, <2>2, OutputGoesOn, Zenon
<1> QED BY <1>2, Zenon DEF AttachInv

(* AttachInv holds before any terminal attaches. *)
LEMMA AttachInit ==
  ASSUME Attach!Init
  PROVE  AttachInv
<1>1. /\ printed = 0 /\ pump = [pc |-> "read", chunk |-> 0, left |-> <<>>] /\ scroll = <<>> /\ localClients = <<>>
      /\ attach = [t \in Terminals |-> Attach!NoAttach] /\ sock = [t \in Terminals |-> <<>>]
      /\ term = [t \in Terminals |-> Attach!Off]
  BY Zenon DEF Attach!Init
<1>2. Attach!NoAttach \in HandlerRecord /\ Attach!Off \in TermRecord /\ Attach!NoAttach.pc = "none" /\ Attach!NoAttach.hydration = <<>>
  BY DEF Attach!NoAttach, Attach!Off, HandlerRecord, TermRecord
<1>3. AttachTypes
  BY <1>1, <1>2 DEF AttachTypes, PumpRecord
<1>4. Attach!Range(<<>>) = {} /\ Distinct(<<>>) /\ Seamed(<<>>, 0)
  BY DEF Attach!Range, Distinct, Seamed
<1>5. PumpOK
  BY <1>1, <1>2, <1>4, Zenon DEF PumpOK
<1>6. \A t \in Terminals : Attached(term[t], sock[t], attach[t], printed, Coming(t))
  BY <1>1, <1>2, HungUp, Zenon
<1> QED BY <1>3, <1>5, <1>6, Zenon DEF AttachInv

(* The goroutine that reads the PTY. *)
LEMMA PumpKeeps ==
  ASSUME AttachInv, Attach!Pump
  PROVE  AttachInv'
<1>1. AttachTypes /\ PumpOK /\ pump.pc \in {"read", "lock", "fan", "ended"} /\ pump.left \in Seq(Terminals) /\ pump.chunk \in Nat
  BY Zenon DEF AttachInv, AttachTypes, PumpRecord
<1>2. Attach!Range(<<>>) = {} /\ Distinct(<<>>)
  BY DEF Attach!Range, Distinct
<1>3. CASE Attach!PtyRead
  <2> DEFINE r == Append(scroll, printed + 1)
             p == [pc |-> "lock", chunk |-> printed + 1, left |-> <<>>]
  <2>1. /\ pump.pc = "read" /\ pump.left = <<>> /\ printed' = printed + 1 /\ pump' = p
        /\ scroll' = (IF Len(r) > RingCap THEN Tail(r) ELSE r)
        /\ UNCHANGED <<localClients, attach, sock, term>>
    BY <1>1, <1>3, Zenon DEF Attach!PtyRead, PumpOK
  <2>2. printed \in Nat /\ scroll \in Seq(Nat) /\ Seamed(scroll, 0) /\ (scroll # <<>> => scroll[Len(scroll)] = printed)
    BY <1>1, Zenon DEF AttachTypes, PumpOK
  <2>3. /\ r \in Seq(Nat) /\ Seamed(r, 0) /\ r[Len(r)] = printed + 1 /\ r # <<>>
    <3>1. scroll # <<>> => Len(scroll) # 0
      BY <2>2
    <3>3. scroll # <<>> => IF Len(scroll) = 0 THEN printed + 1 >= scroll[Len(scroll)] ELSE printed + 1 = scroll[Len(scroll)] + 1
      BY <2>2, <3>1, Zenon
    <3>4. printed + 1 \in Nat /\ 0 \in Nat
      BY <2>2
    <3>5. r \in Seq(Nat) /\ Seamed(r, 0) /\ Len(r) = Len(scroll) + 1 /\ r[Len(scroll) + 1] = printed + 1
      BY <2>2, <3>3, <3>4, SeamGrows, Zenon
    <3>6. r # <<>>
      BY <2>2
    <3> QED BY <3>5, <3>6, Zenon
  <2> HIDE DEF r
  <2>4. scroll' \in Seq(Nat) /\ Seamed(scroll', 0) /\ (scroll' # <<>> => scroll'[Len(scroll')] = printed')
    BY <2>1, <2>3, SeamShrinks, Zenon
  <2>5. p \in PumpRecord /\ p.pc = "lock" /\ p.left = <<>> /\ p.chunk = printed + 1
    BY <2>2 DEF PumpRecord
  <2> HIDE DEF p
  <2>6. AttachTypes'
    BY <1>1, <2>1, <2>2, <2>4, <2>5 DEF AttachTypes
  <2>7. PumpOK'
    BY <1>1, <1>2, <2>1, <2>4, <2>5, Zenon DEF PumpOK
  <2>8. \A t \in Terminals : Coming(t)' = Coming(t)
    BY <1>2, <2>1, <2>5, Zenon DEF Coming
  <2>9. printed <= printed'
    BY <2>1, <2>2
  <2> QED BY <2>1, <2>6, <2>7, <2>8, <2>9, PumpMoves, Zenon
<1>4. CASE Attach!PtyEnds
  <2> DEFINE p == [pump EXCEPT !.pc = "ended"]
  <2>1. pump.pc = "read" /\ pump' = p /\ UNCHANGED <<printed, scroll, localClients, attach, sock, term>>
    BY <1>4 DEF Attach!PtyEnds
  <2>2. p \in PumpRecord /\ p.pc = "ended" /\ p.left = pump.left
    BY <1>1, Zenon DEF AttachTypes, PumpRecord
  <2> HIDE DEF p
  <2>3. AttachTypes'
    BY <1>1, <2>1, <2>2, Zenon DEF AttachTypes
  <2>4. PumpOK'
    BY <1>1, <2>1, <2>2, Zenon DEF PumpOK
  <2>5. \A t \in Terminals : Coming(t)' = Coming(t)
    BY <2>1, <2>2, Zenon DEF Coming
  <2>6. printed <= printed'
    BY <1>1, <2>1 DEF AttachTypes
  <2> QED BY <2>1, <2>3, <2>4, <2>5, <2>6, PumpMoves, Zenon
<1>5. CASE Attach!RLock
  <2> DEFINE p == [pump EXCEPT !.pc = "fan", !.left = localClients]
  <2>1. pump.pc = "lock" /\ pump' = p /\ UNCHANGED <<printed, scroll, localClients, attach, sock, term>>
    BY <1>5 DEF Attach!RLock
  <2>2. p \in PumpRecord /\ p.pc = "fan" /\ p.left = localClients /\ p.chunk = pump.chunk
    BY <1>1, Zenon DEF AttachTypes, PumpRecord
  <2> HIDE DEF p
  <2>3. AttachTypes'
    BY <1>1, <2>1, <2>2, Zenon DEF AttachTypes
  <2>4. PumpOK'
    BY <1>1, <2>1, <2>2, Zenon DEF PumpOK
  <2>5. \A t \in Terminals : Coming(t)' = Coming(t) \/ attach[t].pc \notin {"bridge", "remove"}
    BY <1>1, <2>1, <2>2, Zenon DEF Coming, PumpOK
  <2>6. printed <= printed'
    BY <1>1, <2>1 DEF AttachTypes
  <2> QED BY <2>1, <2>3, <2>4, <2>5, <2>6, PumpMoves, Zenon
<1>6. CASE Attach!FanOutDone
  <2> DEFINE p == [pump EXCEPT !.pc = "read"]
  <2>1. pump.pc = "fan" /\ pump.left = <<>> /\ pump' = p /\ UNCHANGED <<printed, scroll, localClients, attach, sock, term>>
    BY <1>6 DEF Attach!FanOutDone
  <2>2. p \in PumpRecord /\ p.pc = "read" /\ p.left = pump.left
    BY <1>1, Zenon DEF AttachTypes, PumpRecord
  <2> HIDE DEF p
  <2>3. AttachTypes'
    BY <1>1, <2>1, <2>2, Zenon DEF AttachTypes
  <2>4. PumpOK'
    BY <1>1, <2>1, <2>2, Zenon DEF PumpOK
  <2>5. \A t \in Terminals : Coming(t)' = Coming(t)
    BY <2>1, <2>2, Zenon DEF Coming
  <2>6. printed <= printed'
    BY <1>1, <2>1 DEF AttachTypes
  <2> QED BY <2>1, <2>3, <2>4, <2>5, <2>6, PumpMoves, Zenon
<1>7. CASE Attach!FanOut
  <2> DEFINE p == [pump EXCEPT !.left = Tail(@)]
  <2>1. Head(pump.left) \in Terminals
    BY <1>1, <1>7, OffList, Zenon DEF Attach!FanOut, PumpOK
  <2>2. PICK t \in Terminals : t = Head(pump.left)
    BY <2>1, Zenon
  <2>3. /\ pump.pc = "fan" /\ pump.left # <<>> /\ pump' = p
        /\ sock' = (IF term[t].open THEN [sock EXCEPT ![t] = Append(@, pump.chunk)] ELSE sock)
        /\ UNCHANGED <<printed, scroll, localClients, attach, term>>
    BY <1>7, <2>2, Zenon DEF Attach!FanOut
  <2>4. /\ Tail(pump.left) \in Seq(Terminals) /\ t \in Terminals /\ Distinct(Tail(pump.left))
        /\ Attach!Range(Tail(pump.left)) = Attach!Range(pump.left) \ {t} /\ t \in Attach!Range(pump.left)
    BY <1>1, <2>3, <2>2, OffList, Zenon DEF PumpOK
  <2>5. p \in PumpRecord /\ p.pc = "fan" /\ p.left = Tail(pump.left) /\ p.chunk = pump.chunk
    BY <1>1, <2>3, <2>4, Zenon DEF AttachTypes, PumpRecord
  <2>6. pump.chunk = printed /\ printed \in Nat /\ attach[t].pc \in {"bridge", "remove"}
    BY <1>1, <2>3, <2>4, Zenon DEF PumpOK, AttachTypes
  <2>7. /\ term[t] \in TermRecord /\ sock[t] \in Seq(Nat) /\ attach[t] \in HandlerRecord
        /\ Append(sock[t], printed) \in Seq(Nat)
    BY <1>1, <2>4, <2>6 DEF AttachTypes
  <2> HIDE DEF p
  <2>8. /\ sock'[t] = IF term[t].open THEN Append(sock[t], printed) ELSE sock[t]
        /\ \A u \in Terminals \ {t} : sock'[u] = sock[u]
        /\ sock' \in [Terminals -> Seq(Nat)]
    BY <1>1, <2>3, <2>4, <2>6, <2>7, Zenon DEF AttachTypes
  <2>9. AttachTypes'
    BY <1>1, <2>3, <2>5, <2>8, Zenon DEF AttachTypes
  <2>10. PumpOK'
    BY <1>1, <2>3, <2>4, <2>5, Zenon DEF PumpOK
  <2>11. Coming(t) = printed /\ Coming(t)' = printed + 1 /\ \A u \in Terminals \ {t} : Coming(u)' = Coming(u)
    <3>1. \A u \in Terminals : u \in Attach!Range(pump'.left) <=> u \in Attach!Range(pump.left) /\ u # t
      BY <2>3, <2>4, <2>5, Zenon
    <3>2. pump.pc # "lock" /\ pump'.pc # "lock" /\ printed' = printed
      BY <2>3, <2>5, Zenon
    <3>3. Coming(t) = printed
      BY <2>4, Zenon DEF Coming
    <3>4. Coming(t)' = printed + 1
      BY <2>4, <3>1, <3>2, Zenon DEF Coming
    <3>5. ASSUME NEW u \in Terminals \ {t} PROVE Coming(u)' = Coming(u)
      BY <3>1, <3>2, <3>5, Zenon DEF Coming
    <3> QED BY <3>3, <3>4, <3>5, Zenon
  <2>12. Attached(term[t], sock[t], attach[t], printed, printed)
    BY <2>4, <2>11, Zenon DEF AttachInv
  <2>13. Attached(term[t], sock'[t], attach[t], printed, printed + 1)
    <3>1. CASE term[t].open
      BY <2>6, <2>7, <2>8, <2>12, <3>1, ChunkSent, Zenon
    <3>2. CASE ~term[t].open
      <4>1. term[t] = Attach!Off /\ sock'[t] = <<>> /\ (attach[t].pc # "hydrate" => attach[t].hydration = <<>>)
        BY <2>8, <2>12, <3>2, Zenon DEF Attached
      <4> QED BY <4>1, HungUp, Zenon
    <3> QED BY <3>1, <3>2, Zenon
  <2>14. ASSUME NEW u \in Terminals PROVE Attached(term'[u], sock'[u], attach'[u], printed', Coming(u)')
    <3>1. CASE u = t
      <4>1. Coming(u)' = printed + 1 /\ term'[u] = term[u] /\ attach'[u] = attach[u] /\ printed' = printed
        BY <2>3, <2>11, <3>1, Zenon
      <4> QED BY <2>13, <3>1, <4>1, Zenon
    <3>2. CASE u # t
      BY <2>3, <2>8, <2>11, <3>2, Zenon DEF AttachInv
    <3> QED BY <3>1, <3>2, Zenon
  <2> QED BY <2>9, <2>10, <2>14, Zenon DEF AttachInv
<1> QED BY <1>3, <1>4, <1>5, <1>6, <1>7, Zenon DEF Attach!Pump

(* The handler of an attach. *)
LEMMA HandlerKeeps ==
  ASSUME AttachInv, NEW t \in Terminals, Attach!Handler(t) \/ Attach!Type(t)
  PROVE  AttachInv'
<1> DEFINE x == term[t]
           a == attach[t]
<1>1. /\ AttachTypes /\ PumpOK /\ Attached(x, sock[t], a, printed, Coming(t))
      /\ x \in TermRecord /\ sock[t] \in Seq(Nat) /\ a \in HandlerRecord /\ scroll \in Seq(Nat) /\ printed \in Nat
  BY Zenon DEF AttachInv, AttachTypes
<1>2. /\ a.pc # "hydrate" => a.hydration = <<>>
      /\ ~x.open => x = Attach!Off /\ sock[t] = <<>>
      /\ a.pc = "snapshot" => x.shown = <<>> /\ x.held = <<>> /\ sock[t] = <<>>
      /\ a.hydration \in Seq(Nat) /\ x.open \in BOOLEAN
  BY <1>1, AllTyped, Zenon DEF Attached
(* A step after which the handler is at b and nothing but it has changed. *)
<1>3. ASSUME NEW b \in HandlerRecord, attach' = [attach EXCEPT ![t] = b],
             UNCHANGED <<printed, pump, scroll, localClients, sock, term>>,
             b.pc \in {"bridge", "remove"} <=> a.pc \in {"bridge", "remove"},
             Attached(x, sock[t], b, printed, Coming(t))
      PROVE  AttachInv'
  <2>1. attach'[t] = b /\ (\A u \in Terminals \ {t} : attach'[u] = attach[u]) /\ attach' \in [Terminals -> HandlerRecord]
    BY <1>1, <1>3, Zenon DEF AttachTypes
  <2> HIDE DEF x, a
  <2>2. AttachTypes'
    BY <1>1, <1>3, <2>1, Zenon DEF AttachTypes
  <2>3. \A u \in Terminals : attach'[u].pc \in {"bridge", "remove"} <=> attach[u].pc \in {"bridge", "remove"}
    BY <1>3, <2>1, Zenon DEF a
  <2>4. PumpOK'
    BY <1>1, <1>3, <2>3, SameList, Zenon
  <2>5. Attached(term'[t], sock'[t], attach'[t], printed, Coming(t))
    BY <1>3, <2>1, Zenon DEF x
  <2> QED BY <1>3, <2>1, <2>2, <2>4, <2>5, OneTerminal, Zenon
<1>4. CASE Attach!Snapshot(t)
  <2>1. CASE x.open
    <3> DEFINE b == [pc |-> "hydrate", hydration |-> scroll]
               y == [x EXCEPT !.need = Len(scroll), !.seam = Len(scroll)]
    <3>1. /\ attach' = [attach EXCEPT ![t] = b] /\ term' = [term EXCEPT ![t] = y] /\ a.pc = "snapshot"
          /\ UNCHANGED <<printed, pump, scroll, localClients, sock>>
      BY <1>4, <2>1, Zenon DEF Attach!Snapshot, Attach!At
    <3>2. b \in HandlerRecord /\ b.pc = "hydrate" /\ b.hydration = scroll
      BY <1>1, Zenon DEF HandlerRecord
    <3>3. y \in TermRecord /\ y.shown = x.shown /\ y.held = x.held /\ y.seam = Len(scroll) /\ y.open = x.open
      <4>1. Len(scroll) \in Nat
        BY <1>1
      <4> HIDE DEF x
      <4> QED BY <1>1, <4>1, Zenon DEF TermRecord
    <3> HIDE DEF b, y
    <3>4. /\ attach'[t] = b /\ (\A u \in Terminals \ {t} : attach'[u] = attach[u]) /\ attach' \in [Terminals -> HandlerRecord]
          /\ term'[t] = y /\ (\A u \in Terminals \ {t} : term'[u] = term[u]) /\ term' \in [Terminals -> TermRecord]
      BY <1>1, <3>1, <3>2, <3>3, Zenon DEF AttachTypes
    <3>5. AttachTypes'
      BY <1>1, <3>1, <3>4, Zenon DEF AttachTypes
    <3>6. \A u \in Terminals : attach'[u].pc \in {"bridge", "remove"} <=> attach[u].pc \in {"bridge", "remove"}
      BY <3>1, <3>2, <3>4, Zenon
    <3>7. PumpOK'
      BY <1>1, <3>1, <3>6, SameList, Zenon
    <3>8. Attached(y, <<>>, b, printed, Coming(t))
      BY <1>1, <1>2, <2>1, <3>1, <3>2, <3>3, Hydrated, Zenon DEF PumpOK
    <3>9. Attached(term'[t], sock'[t], attach'[t], printed, Coming(t))
      BY <1>2, <3>1, <3>4, <3>8, Zenon
    <3> QED BY <3>1, <3>4, <3>5, <3>7, <3>9, OneTerminal, Zenon
  <2>2. CASE ~x.open
    <3> DEFINE b == [a EXCEPT !.pc = "none"]
    <3>1. /\ attach' = [attach EXCEPT ![t] = b] /\ a.pc = "snapshot"
          /\ UNCHANGED <<printed, pump, scroll, localClients, sock, term>>
      BY <1>4, <2>2 DEF Attach!Snapshot, Attach!At, Attach!Goto
    <3>2. b \in HandlerRecord /\ b.pc = "none" /\ b.hydration = a.hydration
      BY <1>1, Zenon DEF HandlerRecord
    <3> HIDE DEF b
    <3>3. Attached(x, sock[t], b, printed, Coming(t))
      BY <1>2, <2>2, <3>1, <3>2, HungUp, Zenon
    <3> QED BY <1>3, <3>1, <3>2, <3>3, Zenon
  <2> QED BY <2>1, <2>2, Zenon
<1>5. CASE Attach!Hydrate(t)
  <2>1. CASE x.open
    <3> DEFINE b == [a EXCEPT !.hydration = Tail(a.hydration)]
               z == Append(sock[t], Head(a.hydration))
    <3>1. /\ attach' = [attach EXCEPT ![t] = b] /\ sock' = [sock EXCEPT ![t] = z] /\ a.pc = "hydrate" /\ a.hydration # <<>>
          /\ UNCHANGED <<printed, pump, scroll, localClients, term>>
      BY <1>5, <2>1, Zenon DEF Attach!Hydrate, Attach!At
    <3>2. Tail(a.hydration) \in Seq(Nat) /\ Head(a.hydration) \in Nat /\ z \in Seq(Nat)
      BY <1>1, <1>2, <3>1
    <3>3. b \in HandlerRecord /\ b.pc = "hydrate" /\ b.hydration = Tail(a.hydration)
      BY <1>1, <3>1, <3>2, Zenon DEF HandlerRecord
    <3>4. All(x, z, b) = All(x, sock[t], a)
      <4> DEFINE w == x.shown \o x.held
      <4>1. w \in Seq(Nat)
        BY <1>1, AllTyped, Zenon
      <4> DEFINE q == sock[t]
                 h == a.hydration
      <4>2. q \in Seq(Nat) /\ h \in Seq(Nat) /\ h # <<>>
        BY <1>1, <1>2, <3>1, Zenon
      <4> HIDE DEF w, q, h
      <4>3. (w \o Append(q, Head(h))) \o Tail(h) = (w \o q) \o h
        BY <4>1, <4>2, HeadMovesBehind, Zenon
      <4>4. (w \o z) \o Tail(a.hydration) = (w \o sock[t]) \o a.hydration
        BY <4>3, Zenon DEF q, h
      <4> QED BY <3>3, <4>4, Zenon DEF All, w
    <3> HIDE DEF b, z
    <3>5. /\ attach'[t] = b /\ (\A u \in Terminals \ {t} : attach'[u] = attach[u]) /\ attach' \in [Terminals -> HandlerRecord]
          /\ sock'[t] = z /\ (\A u \in Terminals \ {t} : sock'[u] = sock[u]) /\ sock' \in [Terminals -> Seq(Nat)]
      BY <1>1, <3>1, <3>2, <3>3, Zenon DEF AttachTypes
    <3>6. AttachTypes'
      BY <1>1, <3>1, <3>5, Zenon DEF AttachTypes
    <3>7. \A u \in Terminals : attach'[u].pc \in {"bridge", "remove"} <=> attach[u].pc \in {"bridge", "remove"}
      BY <3>1, <3>3, <3>5, Zenon
    <3>8. PumpOK'
      BY <1>1, <3>1, <3>7, SameList, Zenon
    <3>9. Attached(x, z, b, printed, Coming(t))
      BY <1>1, <2>1, <3>1, <3>3, <3>4, MovesOn, Zenon
    <3>10. Attached(term'[t], sock'[t], attach'[t], printed, Coming(t))
      BY <3>1, <3>5, <3>9, Zenon
    <3> QED BY <3>1, <3>5, <3>6, <3>8, <3>10, OneTerminal, Zenon
  <2>2. CASE ~x.open
    <3>1. /\ attach' = [attach EXCEPT ![t] = Attach!NoAttach] /\ a.pc = "hydrate"
          /\ UNCHANGED <<printed, pump, scroll, localClients, sock, term>>
      BY <1>5, <2>2, Zenon DEF Attach!Hydrate, Attach!At
    <3>2. Attach!NoAttach \in HandlerRecord /\ Attach!NoAttach.pc = "none" /\ Attach!NoAttach.hydration = <<>>
      BY SMTT(30) DEF HandlerRecord, Attach!NoAttach
    <3>3. Attached(x, sock[t], Attach!NoAttach, printed, Coming(t))
      BY <1>2, <2>2, <3>2, HungUp, Zenon
    <3> QED BY <1>3, <3>1, <3>2, <3>3, Zenon
  <2> QED BY <2>1, <2>2
<1>6. CASE Attach!addLocalClient(t)
  <2> DEFINE b == [a EXCEPT !.pc = "bridge"]
  <2>1. /\ attach' = [attach EXCEPT ![t] = b] /\ localClients' = Append(localClients, t)
        /\ a.pc = "hydrate" /\ a.hydration = <<>> /\ pump.pc # "fan"
        /\ UNCHANGED <<printed, pump, scroll, sock, term>>
    BY <1>6 DEF Attach!addLocalClient, Attach!At, Attach!Goto, Attach!Locked
  <2>2. b \in HandlerRecord /\ b.pc = "bridge" /\ b.hydration = a.hydration
    BY <1>1, Zenon DEF HandlerRecord
  <2> HIDE DEF b
  <2>3. attach'[t] = b /\ (\A u \in Terminals \ {t} : attach'[u] = attach[u]) /\ attach' \in [Terminals -> HandlerRecord]
    BY <1>1, <2>1, <2>2, Zenon DEF AttachTypes
  <2>4. t \notin Attach!Range(localClients) /\ pump.left = <<>> /\ localClients \in Seq(Terminals) /\ Distinct(localClients)
    BY <1>1, <2>1, Zenon DEF PumpOK, AttachTypes
  <2>5. /\ localClients' \in Seq(Terminals) /\ Distinct(localClients')
        /\ Attach!Range(localClients') = Attach!Range(localClients) \cup {t}
    BY <2>1, <2>4, OnList, Zenon
  <2>6. AttachTypes'
    BY <1>1, <2>1, <2>3, <2>5, Zenon DEF AttachTypes
  <2>7. \A u \in Terminals : u \in Attach!Range(localClients') <=> attach'[u].pc \in {"bridge", "remove"}
    BY <1>1, <2>2, <2>3, <2>5, Zenon DEF PumpOK
  <2>8. PumpOK'
    BY <1>1, <2>1, <2>5, <2>7, Zenon DEF PumpOK
  <2>9. Attached(x, sock[t], b, printed, Coming(t))
    <3>1. CASE x.open
      <4>1. All(x, sock[t], b) = All(x, sock[t], a)
        BY <2>2, Zenon DEF All
      <4> QED BY <1>1, <2>1, <2>2, <3>1, <4>1, MovesOn, Zenon
    <3>2. CASE ~x.open
      BY <1>2, <2>1, <2>2, <3>2, HungUp, Zenon
    <3> QED BY <3>1, <3>2, Zenon
  <2>10. Attached(term'[t], sock'[t], attach'[t], printed, Coming(t))
    BY <2>1, <2>3, <2>9, Zenon
  <2> QED BY <2>1, <2>3, <2>6, <2>8, <2>10, OneTerminal, Zenon
<1>7. CASE Attach!ReadEnds(t)
  <2> DEFINE b == [a EXCEPT !.pc = "remove"]
  <2>1. /\ attach' = [attach EXCEPT ![t] = b] /\ a.pc = "bridge" /\ ~x.open
        /\ UNCHANGED <<printed, pump, scroll, localClients, sock, term>>
    BY <1>7 DEF Attach!ReadEnds, Attach!At, Attach!Goto
  <2>2. b \in HandlerRecord /\ b.pc = "remove" /\ b.hydration = a.hydration
    BY <1>1, Zenon DEF HandlerRecord
  <2> HIDE DEF b
  <2>3. Attached(x, sock[t], b, printed, Coming(t))
    BY <1>2, <2>1, <2>2, HungUp, Zenon
  <2> QED BY <1>3, <2>1, <2>2, <2>3, Zenon
<1>8. CASE Attach!Type(t)
  <2> DEFINE b == IF exited THEN [a EXCEPT !.pc = "remove"] ELSE a
  <2>1. /\ attach' = [attach EXCEPT ![t] = b] /\ a.pc = "bridge" /\ x.open
        /\ UNCHANGED <<printed, pump, scroll, localClients, sock, term>>
    BY <1>1, <1>8 DEF Attach!Type, Attach!At, Attach!Goto, AttachTypes
  <2>2. b \in HandlerRecord /\ b.pc \in {"bridge", "remove"} /\ b.hydration = a.hydration
    BY <1>1, <2>1, Zenon DEF HandlerRecord
  <2> HIDE DEF b
  <2>3. All(x, sock[t], b) = All(x, sock[t], a)
    BY <2>2, Zenon DEF All
  <2>4. Attached(x, sock[t], b, printed, Coming(t))
    BY <1>1, <1>2, <2>1, <2>2, <2>3, MovesOn
  <2> QED BY <1>3, <2>1, <2>2, <2>4, Zenon
<1>9. CASE Attach!removeLocalClient(t)
  <2> DEFINE b == [a EXCEPT !.pc = "none"]
             s == localClients
             i == CHOOSE i \in DOMAIN s : s[i] = t /\ \A j \in 1 .. i - 1 : s[j] # t
             w == [j \in 1 .. (Len(s) - 1) |-> IF j < i THEN s[j] ELSE s[j + 1]]
  <2>1. /\ attach' = [attach EXCEPT ![t] = b] /\ localClients' = Attach!Without(localClients, t)
        /\ term' = [term EXCEPT ![t] = Attach!Off] /\ sock' = [sock EXCEPT ![t] = <<>>]
        /\ a.pc = "remove" /\ pump.pc # "fan" /\ UNCHANGED <<printed, pump, scroll>>
    BY <1>9, Zenon DEF Attach!removeLocalClient, Attach!At, Attach!Goto, Attach!Locked, Attach!HangUp
  <2>2. b \in HandlerRecord /\ b.pc = "none" /\ b.hydration = a.hydration
    BY <1>1 DEF HandlerRecord
  <2>3. Attach!Off \in TermRecord /\ <<>> \in Seq(Nat)
    BY DEF Attach!Off, TermRecord
  <2>4. t \in Attach!Range(s) /\ s \in Seq(Terminals) /\ Distinct(s)
    BY <1>1, <2>1, Zenon DEF PumpOK, AttachTypes
  <2>5. localClients' = w
    BY <2>1, <2>4, Zenon DEF Attach!Without
  <2>6. i \in 1 .. Len(s) /\ s[i] = t
    <3>1. PICK k \in 1 .. Len(s) : s[k] = t
      BY <2>4 DEF Attach!Range
    <3>2. \A j \in 1 .. k - 1 : s[j] # t
      BY <2>4, <3>1 DEF Distinct
    <3>3. DOMAIN s = 1 .. Len(s)
      BY <2>4
    <3>4. \E k2 \in DOMAIN s : s[k2] = t /\ \A j \in 1 .. k2 - 1 : s[j] # t
      BY <3>1, <3>2, <3>3, Zenon
    <3> QED BY <3>3, <3>4, Zenon
  <2> HIDE DEF b, i
  <2>7. w \in Seq(Terminals) /\ Len(w) = Len(s) - 1 /\ \A j \in 1 .. Len(w) : w[j] = IF j < i THEN s[j] ELSE s[j + 1]
    <3>1. Len(s) \in Nat \ {0} /\ i \in Nat
      BY <2>4, <2>6
    <3>2. \A j \in 1 .. (Len(s) - 1) : j \in 1 .. Len(s) /\ j + 1 \in 1 .. Len(s)
      BY <3>1
    <3>3. \A j \in 1 .. (Len(s) - 1) : s[j] \in Terminals /\ s[j + 1] \in Terminals
      BY <2>4, <3>2
    <3> QED BY <3>1, <3>3
  <2> HIDE DEF w
  <2>8. Distinct(w) /\ Attach!Range(w) = Attach!Range(s) \ {t}
    <3>1. \A j \in 1 .. Len(w) : w[j] = IF j < i THEN s[j] ELSE s[j + 1]
      BY <2>7, Zenon
    <3> HIDE DEF s
    <3>2. Distinct(w) /\ Attach!Range(w) = Attach!Range(s) \ {s[i]}
      BY <2>4, <2>6, <2>7, <3>1, TakenOut, Zenon
    <3> QED BY <2>6, <3>2, Zenon
  <2>9. /\ attach'[t] = b /\ (\A u \in Terminals \ {t} : attach'[u] = attach[u]) /\ attach' \in [Terminals -> HandlerRecord]
        /\ term'[t] = Attach!Off /\ (\A u \in Terminals \ {t} : term'[u] = term[u]) /\ term' \in [Terminals -> TermRecord]
        /\ sock'[t] = <<>> /\ (\A u \in Terminals \ {t} : sock'[u] = sock[u]) /\ sock' \in [Terminals -> Seq(Nat)]
    BY <1>1, <2>1, <2>2, <2>3, Zenon DEF AttachTypes
  <2>10. AttachTypes'
    BY <1>1, <2>1, <2>5, <2>7, <2>9, Zenon DEF AttachTypes
  <2>11. \A u \in Terminals : u \in Attach!Range(localClients') <=> attach'[u].pc \in {"bridge", "remove"}
    BY <1>1, <2>2, <2>5, <2>8, <2>9, Zenon DEF PumpOK
  <2>12. pump.left = <<>> /\ Attach!Range(<<>>) = {}
    BY <1>1, <2>1 DEF PumpOK, Attach!Range
  <2>13. PumpOK'
    BY <1>1, <2>1, <2>5, <2>8, <2>11, <2>12, Zenon DEF PumpOK
  <2>14. Attached(term'[t], sock'[t], attach'[t], printed, Coming(t))
    BY <1>2, <2>1, <2>2, <2>9, HungUp, Zenon
  <2> QED BY <2>1, <2>9, <2>10, <2>13, <2>14, OneTerminal, Zenon
<1> QED BY <1>4, <1>5, <1>6, <1>7, <1>8, <1>9, Zenon DEF Attach!Handler

(* The process daao attach: it dials, shows what it reads and detaches. *)
LEMMA TerminalKeeps ==
  ASSUME AttachInv, NEW t \in Terminals, Attach!attachCommand(t) \/ Attach!Show(t) \/ Attach!Detach(t)
  PROVE  AttachInv'
<1> DEFINE x == term[t]
           a == attach[t]
<1>1. /\ AttachTypes /\ PumpOK /\ Attached(x, sock[t], a, printed, Coming(t))
      /\ x \in TermRecord /\ sock[t] \in Seq(Nat) /\ a \in HandlerRecord /\ printed \in Nat
  BY Zenon DEF AttachInv, AttachTypes
<1>2. /\ a.pc # "hydrate" => a.hydration = <<>>
      /\ ~x.open => x = Attach!Off /\ sock[t] = <<>>
      /\ a.pc = "snapshot" => sock[t] = <<>>
      /\ a.pc = "none" => ~x.open
      /\ a.hydration \in Seq(Nat) /\ x.open \in BOOLEAN
  BY <1>1, AllTyped, Zenon DEF Attached
(* A step after which the terminal is y and its connection z. *)
<1>3. ASSUME NEW y \in TermRecord, NEW z \in Seq(Nat), NEW b \in HandlerRecord,
             term' = [term EXCEPT ![t] = y], sock' = [sock EXCEPT ![t] = z], attach' = [attach EXCEPT ![t] = b],
             UNCHANGED <<printed, pump, scroll, localClients>>,
             b.pc \in {"bridge", "remove"} <=> a.pc \in {"bridge", "remove"},
             Attached(y, z, b, printed, Coming(t))
      PROVE  AttachInv'
  <2>1. /\ attach'[t] = b /\ (\A u \in Terminals \ {t} : attach'[u] = attach[u]) /\ attach' \in [Terminals -> HandlerRecord]
        /\ term'[t] = y /\ (\A u \in Terminals \ {t} : term'[u] = term[u]) /\ term' \in [Terminals -> TermRecord]
        /\ sock'[t] = z /\ (\A u \in Terminals \ {t} : sock'[u] = sock[u]) /\ sock' \in [Terminals -> Seq(Nat)]
    BY <1>1, <1>3, Zenon DEF AttachTypes
  <2> HIDE DEF x, a
  <2>2. AttachTypes'
    BY <1>1, <1>3, <2>1, Zenon DEF AttachTypes
  <2>3. \A u \in Terminals : attach'[u].pc \in {"bridge", "remove"} <=> attach[u].pc \in {"bridge", "remove"}
    BY <1>3, <2>1, Zenon DEF a
  <2>4. PumpOK'
    BY <1>1, <1>3, <2>3, SameList, Zenon
  <2> QED BY <1>3, <2>1, <2>2, <2>4, OneTerminal, Zenon
<1>4. /\ attach = [attach EXCEPT ![t] = a] /\ sock = [sock EXCEPT ![t] = sock[t]]
  BY <1>1, Zenon DEF AttachTypes
<1>5. CASE Attach!attachCommand(t)
  <2> DEFINE y == [x EXCEPT !.open = TRUE]
             b == [a EXCEPT !.pc = "snapshot"]
  <2>1. /\ term' = [term EXCEPT ![t] = y] /\ attach' = [attach EXCEPT ![t] = b] /\ ~x.open /\ a.pc = "none"
        /\ UNCHANGED <<printed, pump, scroll, localClients, sock>>
    BY <1>5, Zenon DEF Attach!attachCommand, Attach!At, Attach!Goto
  <2>2. b \in HandlerRecord /\ b.pc = "snapshot" /\ b.hydration = a.hydration
    BY <1>1, Zenon DEF HandlerRecord
  <2>3. y \in TermRecord /\ y.open /\ y.shown = <<>> /\ y.held = <<>> /\ y.seam = 0
    <3>1. x = Attach!Off
      BY <1>2, <2>1, Zenon
    <3> HIDE DEF x
    <3> QED BY <1>1, <3>1, Zenon DEF TermRecord, Attach!Off
  <2> HIDE DEF y, b
  <2>4. Attached(y, sock[t], b, printed, Coming(t))
    BY <1>2, <2>1, <2>2, <2>3, Dialled, Zenon
  <2> QED BY <1>1, <1>3, <1>4, <2>1, <2>2, <2>3, <2>4, Zenon
<1>6. CASE Attach!Detach(t)
  <2>1. /\ term' = [term EXCEPT ![t] = Attach!Off] /\ sock' = [sock EXCEPT ![t] = <<>>]
        /\ UNCHANGED <<printed, pump, scroll, localClients, attach>>
    BY <1>6, Zenon DEF Attach!Detach, Attach!HangUp
  <2>2. Attach!Off \in TermRecord /\ <<>> \in Seq(Nat)
    BY DEF Attach!Off, TermRecord
  <2>3. Attached(Attach!Off, <<>>, a, printed, Coming(t))
    BY <1>2, HungUp, Zenon
  <2> QED BY <1>1, <1>3, <1>4, <2>1, <2>2, <2>3, Zenon
<1>7. CASE Attach!Show(t)
  <2> DEFINE h == Head(sock[t])
             held == Append(x.held, h)
             y == IF Len(held) < x.need THEN [x EXCEPT !.held = held]
                  ELSE [x EXCEPT !.need = 0, !.held = <<>>, !.shown = @ \o held]
             z == Tail(sock[t])
  <2>1. /\ term' = [term EXCEPT ![t] = y] /\ sock' = [sock EXCEPT ![t] = z] /\ x.open /\ sock[t] # <<>>
        /\ UNCHANGED <<printed, pump, scroll, localClients, attach>>
    BY <1>7, Zenon DEF Attach!Show
  <2>2. x.shown \in Seq(Nat) /\ x.held \in Seq(Nat) /\ x.need \in Nat
    BY <1>1, Zenon DEF TermRecord
  <2>3. h \in Nat /\ z \in Seq(Nat)
    BY <1>1, <2>1
  <2> HIDE DEF h, z
  <2>4. held \in Seq(Nat) /\ x.shown \o held \in Seq(Nat)
    BY <2>2, <2>3
  <2> HIDE DEF held
  <2>5. y \in TermRecord /\ y.open = x.open /\ y.seam = x.seam
    <3> DEFINE v == x.shown \o held
    <3>1. v \in Seq(Nat) /\ <<>> \in Seq(Nat)
      BY <2>4
    <3> HIDE DEF x, v
    <3>2. CASE Len(held) < x.need
      BY <1>1, <2>4, <3>2, Zenon DEF TermRecord
    <3>3. CASE ~(Len(held) < x.need)
      <4> DEFINE g == [x EXCEPT !.need = 0, !.held = <<>>, !.shown = v]
      <4>1. g \in TermRecord /\ g.open = x.open /\ g.seam = x.seam
        BY <1>1, <3>1, Zenon DEF TermRecord
      <4>2. y = g
        BY <3>3, Zenon DEF v
      <4> HIDE DEF y, g
      <4> QED BY <4>1, <4>2, Zenon
    <3> QED BY <3>2, <3>3
  <2>6. y.shown \o y.held = x.shown \o held
    <3> DEFINE v == x.shown \o held
    <3>1. v \in Seq(Nat)
      BY <2>4, Zenon
    <3>2. v \o <<>> = v
      BY <3>1, Extends, Zenon
    <3>3. \/ y.shown = x.shown /\ y.held = held
          \/ y.shown = x.shown \o held /\ y.held = <<>>
      <4> HIDE DEF x
      <4> QED BY <1>1, <2>4, Zenon DEF TermRecord
    <3> QED BY <3>2, <3>3, Zenon
  <2> HIDE DEF y
  <2>7. All(y, z, a) = All(x, sock[t], a)
    <3> DEFINE w == x.shown \o x.held
    <3>1. w \in Seq(Nat) /\ Append(w, h) \in Seq(Nat)
      BY <1>1, <2>3, AllTyped
    <3>2. x.shown \o held = Append(w, h)
      <4> DEFINE p == x.shown
                 g == x.held
      <4> HIDE DEF p, g
      <4>1. p \in Seq(Nat) /\ g \in Seq(Nat)
        BY <2>2 DEF p, g
      <4>2. p \o Append(g, h) = Append(p \o g, h)
        BY <2>3, <4>1, Extends
      <4> QED BY <4>2, Zenon DEF p, g, held
    <3> HIDE DEF w
    <3>3. Append(w, h) \o z = w \o sock[t]
      BY <1>1, <2>1, <3>1, HeadMoves, Zenon DEF h, z
    <3> QED BY <2>6, <3>2, <3>3, Zenon DEF All, w
  <2>8. a.pc \in {"hydrate", "bridge", "remove"}
    BY <1>1, <1>2, <2>1 DEF HandlerRecord
  <2>9. Attached(y, z, a, printed, Coming(t))
    BY <1>1, <1>2, <2>1, <2>5, <2>7, <2>8, MovesOn, Zenon
  <2> QED BY <1>1, <1>3, <1>4, <2>1, <2>3, <2>5, <2>9, Zenon
<1> QED BY <1>5, <1>6, <1>7, Zenon

(* AttachInv is kept by every step. *)
LEMMA AttachStep ==
  ASSUME AttachInv, [Attach!Next]_attachVars
  PROVE  AttachInv'
<1>1. CASE Attach!ProcessExits \/ UNCHANGED attachVars
  <2>1. UNCHANGED <<printed, pump, scroll, localClients, attach, sock, term>>
    BY <1>1 DEF Attach!ProcessExits, attachVars
  <2>2. AttachTypes' /\ PumpOK'
    BY <2>1 DEF AttachInv, AttachTypes, PumpOK
  <2>3. printed <= printed' /\ \A t \in Terminals : Coming(t)' = Coming(t)
    BY <2>1 DEF AttachInv, AttachTypes, Coming
  <2> QED BY <2>1, <2>2, <2>3, PumpMoves
<1>2. CASE Attach!Pump
  BY <1>2, PumpKeeps
<1>3. ASSUME NEW t \in Terminals,
             Attach!attachCommand(t) \/ Attach!Handler(t) \/ Attach!Type(t) \/ Attach!Show(t) \/ Attach!Detach(t)
      PROVE  AttachInv'
  BY <1>3, HandlerKeeps, TerminalKeeps
<1> QED BY <1>1, <1>2, <1>3 DEF Attach!Next

(* forwardPtyOutput and handleAttach: for any number of terminals, any size *)
(* of ring buffer and of connection and any amount of output, an attached   *)
(* terminal shows the chunks in order and without gaps but at the end of    *)
(* its scrollback, where chunks may be missing or one may come twice,       *)
(* whatever terminals attach, stall, hang up and leave meanwhile.           *)
THEOREM ScreensInOrder == PartSpec => []OneSeam
<1>1. PartInit => AttachInv
  BY AttachInit DEF PartInit
<1>2. AttachInv /\ [PartNext]_allVars => AttachInv'
  <2> SUFFICES ASSUME AttachInv, [PartNext]_allVars PROVE AttachInv'
    OBVIOUS
  <2>1. [Attach!Next]_attachVars
    BY DEF PartNext, RingPart, StreamPart, RecordingPart, AttachPart, allVars
  <2> QED BY <2>1, AttachStep
<1>3. AttachInv => OneSeam
  <2> SUFFICES ASSUME AttachInv, NEW t \in Terminals PROVE Seamed(term[t].shown, term[t].seam)
    BY DEF OneSeam, Attach!OneSeam, Seamed
  <2> DEFINE x == term[t]
             a == attach[t]
             w == x.shown \o x.held
             v == w \o sock[t]
  <2>1. Attached(x, sock[t], a, printed, Coming(t)) /\ x \in TermRecord /\ sock[t] \in Seq(Nat) /\ a \in HandlerRecord
    BY DEF AttachInv, AttachTypes
  <2>2. x.shown \in Seq(Nat) /\ x.held \in Seq(Nat) /\ a.hydration \in Seq(Nat) /\ x.seam \in Nat /\ x.open \in BOOLEAN
    BY <2>1 DEF TermRecord, HandlerRecord
  <2>3. CASE x.open
    <3>1. Seamed(v \o a.hydration, x.seam)
      BY <2>1, <2>3, Zenon DEF Attached, All
    <3>2. w \in Seq(Nat) /\ v \in Seq(Nat)
      BY <2>1, <2>2
    <3> HIDE DEF v
    <3>3. Seamed(v, x.seam)
      BY <2>2, <3>1, <3>2, Prefix, Zenon
    <3> HIDE DEF w
    <3>4. Seamed(w, x.seam)
      BY <2>1, <2>2, <3>2, <3>3, Prefix, Zenon DEF v
    <3> QED BY <2>2, <3>4, Prefix, Zenon DEF w
  <2>4. CASE ~x.open
    <3>1. x = Attach!Off
      BY <2>1, <2>4, Zenon DEF Attached
    <3>2. Attach!Off.shown = <<>> /\ Seamed(<<>>, Attach!Off.seam)
      BY DEF Attach!Off, Seamed
    <3> QED BY <3>1, <3>2, Zenon
  <2> QED BY <2>2, <2>3, <2>4
<1> QED BY <1>1, <1>2, <1>3, PTL DEF PartSpec
-----------------------------------------------------------------------------
(* A stream that does not break: Mirrors made inductive.                    *)

Output(n) == <<Stream(Unbroken)!Byte(n, FALSE)>>
Outputs == {Output(n) : n \in Nat}
Messages == {Stream(Unbroken)!Msg(x) : x \in Outputs}

(* f[k] is a ring buffer after the first k bytes of output, up to n. *)
Written(f, n) ==
  /\ f[0] = Stream(Unbroken)!NewRingBuffer(Unbroken.cap)
  /\ \A k \in 1 .. n : f[k] = Stream(Unbroken)!WriteByte(f[k - 1], Stream(Unbroken)!Byte(k, FALSE))

(* Nexus has written the first d bytes of output.  Those that follow are on *)
(* the stream w, in the channel ch and, if the pump is sending, with it, in *)
(* that order.                                                              *)
OnItsWay(d, w, ch, p, n) ==
  /\ w \in Seq(Messages) /\ \A i \in 1 .. Len(w) : w[i] = Stream(Unbroken)!Msg(Output(d + i))
  /\ ch \in Seq(Outputs) /\ \A i \in 1 .. Len(ch) : ch[i] = Output(d + Len(w) + i)
  /\ n = d + Len(w) + Len(ch) + (IF p = "send" THEN 1 ELSE 0)

(* The buffers b and the pool q of Nexus. *)
AtNexus(f, d, b, q) ==
  IF d = 0 THEN b = <<>> /\ q = 0 ELSE b = <<f[d]>> /\ q = 1

SatShape ==
  /\ sat = [ring |-> sat.ring, total |-> sat.total, mark |-> sat.mark,
            pump |-> sat.pump, closed |-> sat.closed, state |-> sat.state, lost |-> sat.lost]
  /\ sat.state \in {"RUNNING", "TERMINATED"} /\ sat.lost \in BOOLEAN

(* The session lives, and no output has been dropped. *)
Whole == sat.state = "RUNNING" /\ ~sat.lost

(* While the session lives, nothing has gone before the output.             *)
Streaming(f, d) ==
  /\ up = TRUE /\ replay.pc = "idle" /\ prioCh = <<>> /\ wires = <<wires[1]>>
  /\ sat.total \in Nat /\ sat.total <= Unbroken.bytes
  /\ Written(f, sat.total) /\ sat.ring = f[sat.total]
  /\ OnItsWay(d, wires[1], sendCh, sat.pump, sat.total)
  /\ AtNexus(f, d, bufs, mirror)

MirrorInv ==
  /\ SatShape
  /\ Whole => \E d \in Nat : \E f : Streaming(f, d)

(* Write of one byte is one turn of its loop. *)
LEMMA OneByte ==
  ASSUME NEW b, NEW n \in Nat
  PROVE  Stream(Unbroken)!WriteAll(b, Output(n)) = Stream(Unbroken)!WriteByte(b, Stream(Unbroken)!Byte(n, FALSE))
<1> DEFINE x == Stream(Unbroken)!Byte(n, FALSE)
           Step(h) == [k \in 0 .. 1 |-> IF k = 0 THEN b ELSE Stream(Unbroken)!WriteByte(h[k - 1], <<x>>[k])]
           g == CHOOSE h : h = Step(h)
           e == [k \in 0 .. 1 |-> IF k = 0 THEN b ELSE Stream(Unbroken)!WriteByte(b, x)]
<1>1. Len(<<x>>) = 1 /\ <<x>>[1] = x
  OBVIOUS
<1>2. \A k \in 0 .. 1 : k # 0 => k = 1 /\ k - 1 = 0
  OBVIOUS
<1>3. e = Step(e)
  <2>1. 0 \in 0 .. 1 /\ e[0] = b
    OBVIOUS
  <2>2. \A k \in 0 .. 1 : (IF k = 0 THEN b ELSE Stream(Unbroken)!WriteByte(e[k - 1], <<x>>[k])) =
                          (IF k = 0 THEN b ELSE Stream(Unbroken)!WriteByte(b, x))
    BY <1>1, <1>2, <2>1, Zenon
  <2> QED BY <2>2, Zenon
<1>4. g = Step(g)
  BY <1>3, Zenon
<1>5. g[1] = Stream(Unbroken)!WriteByte(b, x)
  <2> HIDE DEF g, x
  <2>1. 0 \in 0 .. 1 /\ 1 \in 0 .. 1 /\ 1 # 0 /\ 1 - 1 = 0
    OBVIOUS
  <2>2. /\ g[0] = IF 0 = 0 THEN b ELSE Stream(Unbroken)!WriteByte(g[0 - 1], <<x>>[0])
        /\ g[1] = IF 1 = 0 THEN b ELSE Stream(Unbroken)!WriteByte(g[1 - 1], <<x>>[1])
    BY <1>4, <2>1, Zenon
  <2> QED BY <1>1, <2>1, <2>2, Zenon
<1>6. Stream(Unbroken)!WriteAll(b, <<x>>) = g[1]
  BY <1>1 DEF Stream!WriteAll
<1> QED BY <1>5, <1>6, Zenon DEF Output

(* The message that carries one byte. *)
LEMMA Carried ==
  ASSUME NEW n \in Nat
  PROVE  /\ Output(n) \in Outputs /\ Stream(Unbroken)!Msg(Output(n)) \in Messages
         /\ Stream(Unbroken)!Msg(Output(n)).state = "" /\ Stream(Unbroken)!Msg(Output(n)).data = Output(n)
  BY DEF Outputs, Messages, Stream!Msg

(* The pump reads a byte. *)
LEMMA ByteRead ==
  ASSUME NEW d \in Nat, NEW w, NEW ch, NEW p, NEW n, OnItsWay(d, w, ch, p, n), p # "send"
  PROVE  OnItsWay(d, w, ch, "send", n + 1)
<1>1. Len(w) \in Nat /\ Len(ch) \in Nat
  BY DEF OnItsWay
<1> QED BY <1>1 DEF OnItsWay

(* It puts the byte in the channel, where there is room. *)
LEMMA ByteQueued ==
  ASSUME NEW d \in Nat, NEW w, NEW ch, NEW n, OnItsWay(d, w, ch, "send", n), ~Stream(Unbroken)!Full(ch)
  PROVE  Stream(Unbroken)!Queue(ch, Output(n)) = Append(ch, Output(n)) /\ OnItsWay(d, w, Append(ch, Output(n)), "read", n)
<1>1. /\ w \in Seq(Messages) /\ ch \in Seq(Outputs) /\ Len(w) \in Nat /\ Len(ch) \in Nat
      /\ n = d + Len(w) + Len(ch) + 1 /\ \A i \in 1 .. Len(ch) : ch[i] = Output(d + Len(w) + i)
  BY DEF OnItsWay
<1>2. Len(ch) < Unbroken.chan /\ n \in Nat /\ n = d + Len(w) + (Len(ch) + 1)
  BY <1>1 DEF Stream!Full
<1>3. Output(n) \in Outputs
  BY <1>2, Carried
<1> DEFINE x == Output(n)
           c == Append(ch, x)
<1> HIDE DEF x
<1>4. /\ c \in Seq(Outputs) /\ Len(c) = Len(ch) + 1 /\ c[Len(ch) + 1] = x
      /\ \A i \in 1 .. Len(ch) : c[i] = ch[i]
  BY <1>1, <1>3 DEF x
<1> HIDE DEF c
<1>5. \A i \in 1 .. Len(c) : c[i] = Output(d + Len(w) + i)
  <2> SUFFICES ASSUME NEW i \in 1 .. Len(c) PROVE c[i] = Output(d + Len(w) + i)
    OBVIOUS
  <2>1. i \in 1 .. Len(ch) \/ i = Len(ch) + 1
    BY <1>1, <1>4
  <2> QED BY <1>1, <1>2, <1>4, <2>1, Zenon DEF x
<1>6. n = d + Len(w) + Len(c) + 0
  BY <1>1, <1>2, <1>4
<1>7. OnItsWay(d, w, c, "read", n)
  BY <1>4, <1>5, <1>6 DEF OnItsWay
<1> QED BY <1>2, <1>7 DEF Stream!Queue, c, x

(* The stream writer takes a byte from the channel. *)
LEMMA ByteSent ==
  ASSUME NEW d \in Nat, NEW w, NEW ch, NEW p, NEW n, OnItsWay(d, w, ch, p, n), ch # <<>>
  PROVE  OnItsWay(d, Append(w, Stream(Unbroken)!Msg(Head(ch))), Tail(ch), p, n)
<1> DEFINE k == IF p = "send" THEN 1 ELSE 0
           m == Stream(Unbroken)!Msg(Head(ch))
           v == Append(w, m)
           c == Tail(ch)
<1>1. /\ w \in Seq(Messages) /\ ch \in Seq(Outputs) /\ Len(w) \in Nat /\ Len(ch) \in Nat \ {0}
      /\ n = d + Len(w) + Len(ch) + k /\ k \in Nat
      /\ \A i \in 1 .. Len(w) : w[i] = Stream(Unbroken)!Msg(Output(d + i))
      /\ \A i \in 1 .. Len(ch) : ch[i] = Output(d + Len(w) + i)
  BY DEF OnItsWay
<1> HIDE DEF k
<1>2. Head(ch) = ch[1] /\ c \in Seq(Outputs) /\ Len(c) = Len(ch) - 1 /\ \A i \in 1 .. Len(c) : c[i] = ch[i + 1]
  BY <1>1
<1>3. m = Stream(Unbroken)!Msg(Output(d + (Len(w) + 1))) /\ d + (Len(w) + 1) \in Nat
  <2>1. 1 \in 1 .. Len(ch) /\ d + Len(w) + 1 = d + (Len(w) + 1) /\ d + (Len(w) + 1) \in Nat
    BY <1>1
  <2> QED BY <1>1, <1>2, <2>1
<1>4. m \in Messages
  BY <1>3, Carried, Zenon
<1> HIDE DEF m, c
<1>5. v \in Seq(Messages) /\ Len(v) = Len(w) + 1 /\ v[Len(w) + 1] = m /\ \A i \in 1 .. Len(w) : v[i] = w[i]
  BY <1>1, <1>4
<1> HIDE DEF v
<1>6. \A i \in 1 .. Len(v) : v[i] = Stream(Unbroken)!Msg(Output(d + i))
  <2> SUFFICES ASSUME NEW i \in 1 .. Len(v) PROVE v[i] = Stream(Unbroken)!Msg(Output(d + i))
    OBVIOUS
  <2>1. i \in 1 .. Len(w) \/ i = Len(w) + 1
    BY <1>1, <1>5
  <2> QED BY <1>1, <1>3, <1>5, <2>1, Zenon
<1>7. \A i \in 1 .. Len(c) : c[i] = Output(d + Len(v) + i)
  <2> SUFFICES ASSUME NEW i \in 1 .. Len(c) PROVE c[i] = Output(d + Len(v) + i)
    OBVIOUS
  <2>1. i + 1 \in 1 .. Len(ch) /\ d + Len(w) + (i + 1) = d + Len(v) + i
    BY <1>1, <1>2, <1>5
  <2> QED BY <1>1, <1>2, <2>1, Zenon
<1>8. n = d + Len(v) + Len(c) + k
  BY <1>1, <1>2, <1>5
<1> QED BY <1>2, <1>5, <1>6, <1>7, <1>8, Zenon DEF OnItsWay, k, v, c, m

(* Nexus receives a byte. *)
LEMMA ByteReceived ==
  ASSUME NEW d \in Nat, NEW w, NEW ch, NEW p, NEW n, OnItsWay(d, w, ch, p, n), w # <<>>
  PROVE  /\ Head(w) = Stream(Unbroken)!Msg(Output(d + 1)) /\ d + 1 \in 1 .. n
         /\ OnItsWay(d + 1, Tail(w), ch, p, n)
<1> DEFINE k == IF p = "send" THEN 1 ELSE 0
           v == Tail(w)
<1>1. /\ w \in Seq(Messages) /\ ch \in Seq(Outputs) /\ Len(ch) \in Nat /\ Len(w) \in Nat \ {0}
      /\ n = d + Len(w) + Len(ch) + k /\ k \in Nat
      /\ \A i \in 1 .. Len(w) : w[i] = Stream(Unbroken)!Msg(Output(d + i))
      /\ \A i \in 1 .. Len(ch) : ch[i] = Output(d + Len(w) + i)
  BY DEF OnItsWay
<1> HIDE DEF k
<1>2. Head(w) = w[1] /\ v \in Seq(Messages) /\ Len(v) = Len(w) - 1 /\ \A i \in 1 .. Len(v) : v[i] = w[i + 1]
  BY <1>1
<1> HIDE DEF v
<1>3. 1 \in 1 .. Len(w) /\ d + 1 \in 1 .. n
  BY <1>1
<1>4. \A i \in 1 .. Len(v) : i + 1 \in 1 .. Len(w) /\ d + (i + 1) = (d + 1) + i
  BY <1>1, <1>2
<1>5. \A i \in 1 .. Len(ch) : d + Len(w) + i = (d + 1) + Len(v) + i
  BY <1>1, <1>2
<1>6. n = (d + 1) + Len(v) + Len(ch) + k
  BY <1>1, <1>2
<1>7. \A i \in 1 .. Len(v) : v[i] = Stream(Unbroken)!Msg(Output((d + 1) + i))
  BY <1>1, <1>2, <1>4, Zenon
<1>8. \A i \in 1 .. Len(ch) : ch[i] = Output((d + 1) + Len(v) + i)
  BY <1>1, <1>5, Zenon
<1> QED BY <1>1, <1>2, <1>3, <1>6, <1>7, <1>8, Zenon DEF OnItsWay, k, v

(* MirrorInv holds when the stream is made. *)
LEMMA MirrorInit ==
  ASSUME Stream(Unbroken)!Init
  PROVE  MirrorInv
<1>1. /\ sat = [ring |-> Stream(Unbroken)!NewRingBuffer(Unbroken.cap), total |-> 0, mark |-> 0,
                pump |-> "read", closed |-> FALSE, state |-> "RUNNING", lost |-> FALSE]
      /\ prioCh = <<>> /\ sendCh = <<>> /\ replay = [pc |-> "idle", data |-> <<>>]
      /\ wires = << <<>> >> /\ up = TRUE /\ bufs = <<>> /\ mirror = 0
  BY DEF Stream!Init
<1> DEFINE e == Stream(Unbroken)!NewRingBuffer(Unbroken.cap)
           f == [k \in 0 .. 0 |-> e]
<1> HIDE DEF e
<1>2. f[0] = e
  OBVIOUS
<1> HIDE DEF f
<1>3. sat.ring = e /\ sat.total = 0 /\ sat.pump = "read" /\ sat.state = "RUNNING" /\ replay.pc = "idle" /\ SatShape
  BY <1>1 DEF e, SatShape
<1>4. wires[1] = <<>> /\ wires = <<wires[1]>>
  BY <1>1
<1>5. OnItsWay(0, wires[1], sendCh, sat.pump, sat.total)
  <2>1. OnItsWay(0, <<>>, <<>>, "read", 0)
    BY DEF OnItsWay
  <2> QED BY <1>1, <1>3, <1>4, <2>1, Zenon
<1>6. Written(f, sat.total) /\ sat.ring = f[sat.total] /\ AtNexus(f, 0, bufs, mirror)
  BY <1>1, <1>2, <1>3 DEF Written, AtNexus, e
<1>7. sat.total \in Nat /\ sat.total <= Unbroken.bytes /\ 0 \in Nat
  BY <1>3, StreamAssumption DEF Unbroken
<1>8. Streaming(f, 0)
  BY <1>1, <1>3, <1>4, <1>5, <1>6, <1>7, Zenon DEF Streaming
<1> QED BY <1>3, <1>7, <1>8, Zenon DEF MirrorInv

(* The satellite's session keeps its shape, and what it has lost stays lost. *)
LEMMA SatKeeps ==
  ASSUME SatShape, [Stream(Unbroken)!Next]_streamVars
  PROVE  SatShape' /\ (Whole' => Whole)
<1>1. \/ sat' = sat
      \/ \E b, n : sat' = [sat EXCEPT !.total = n, !.pump = "send", !.ring = b]
      \/ sat' = [sat EXCEPT !.pump = "done"]
      \/ sat' = [sat EXCEPT !.pump = "read", !.lost = sat.lost \/ Stream(Unbroken)!Full(sendCh)]
      \/ sat' = [sat EXCEPT !.lost = sat.lost \/ Stream(Unbroken)!Full(sendCh)]
      \/ sat' = [sat EXCEPT !.closed = TRUE]
      \/ sat' = [sat EXCEPT !.state = "TERMINATED"]
      \/ \E n : sat' = [sat EXCEPT !.mark = n]
  BY Zenon DEF Stream!Next, Stream!Deliver, streamVars, Stream!PtyRead, Stream!PtySend, Stream!PtyEnds, Stream!Exit,
     Stream!Terminate, Stream!WriterCheck, Stream!SendPriority, Stream!SendData, Stream!Drop, Stream!Connect,
     Stream!ReplayAnnounce, Stream!ReplaySnapshot, Stream!ReplayQueue, Stream!Receive, Stream!Restart, Stream!Open,
     Stream!Flush, Stream!Poll, Stream!StateTick, Stream!Leave, Stream!Unviewed, Stream!satellite
<1>2. Stream(Unbroken)!Full(sendCh) \in BOOLEAN
  BY DEF Stream!Full
<1> QED BY <1>1, <1>2, Zenon DEF SatShape, Whole

(* MirrorInv is kept by every step.  The stream does not break, so there is *)
(* no replay; the state of the session is the only other message, and it is *)
(* sent when the session ends.                                              *)
LEMMA MirrorStep ==
  ASSUME MirrorInv, [Stream(Unbroken)!Next]_streamVars
  PROVE  MirrorInv'
<1>1. SatShape /\ SatShape' /\ (Whole' => Whole)
  BY SatKeeps DEF MirrorInv
<1> SUFFICES ASSUME Whole, Whole'
             PROVE  \E d \in Nat : \E f : Streaming(f, d)'
  BY <1>1, Zenon DEF MirrorInv
<1>2. PICK d \in Nat : \E f : Streaming(f, d)
  BY Zenon DEF MirrorInv
<1>3. PICK f : Streaming(f, d)
  BY <1>2, Zenon
<1> DEFINE w == wires[1]
<1>4. /\ up = TRUE /\ replay.pc = "idle" /\ prioCh = <<>> /\ wires = <<w>>
      /\ sat.total \in Nat /\ sat.total <= Unbroken.bytes
      /\ Written(f, sat.total) /\ sat.ring = f[sat.total]
      /\ OnItsWay(d, w, sendCh, sat.pump, sat.total)
      /\ AtNexus(f, d, bufs, mirror)
  BY <1>3, Zenon DEF Streaming
<1>5. Len(wires) = 1 /\ DOMAIN wires = {1} /\ w \in Seq(Messages)
  BY <1>4 DEF OnItsWay
(* The satellite and Nexus go on with nothing on its way but bytes. *)
<1>6. ASSUME NEW g, NEW e \in Nat, UNCHANGED <<up, replay, prioCh>>, wires' = <<wires'[1]>>,
             sat'.total \in Nat, sat'.total <= Unbroken.bytes, Written(g, sat'.total), sat'.ring = g[sat'.total],
             OnItsWay(e, wires'[1], sendCh', sat'.pump, sat'.total), AtNexus(g, e, bufs', mirror')
      PROVE  \E d2 \in Nat : \E f2 : Streaming(f2, d2)'
  <2>1. Streaming(g, e)'
    BY <1>4, <1>6, Zenon DEF Streaming
  <2> QED BY <2>1, Zenon
<1>7. CASE Stream(Unbroken)!PtyRead
  <2> DEFINE n == sat.total
             b == Stream(Unbroken)!WriteByte(sat.ring, Stream(Unbroken)!Byte(n + 1, FALSE))
             g == [k \in 0 .. n + 1 |-> IF k = n + 1 THEN b ELSE f[k]]
  <2>1. /\ sat.pump = "read" /\ n < Unbroken.bytes /\ sat' = [sat EXCEPT !.total = n + 1, !.pump = "send", !.ring = b]
        /\ UNCHANGED <<prioCh, sendCh, replay, wires, up, bufs, mirror>>
    BY <1>7, Zenon DEF Stream!PtyRead, Stream!nexus
  <2> HIDE DEF b
  <2>2. sat'.total = n + 1 /\ sat'.pump = "send" /\ sat'.ring = b
    BY <1>1, <2>1 DEF SatShape
  <2>3. OnItsWay(d, w, sendCh, "send", n + 1)
    BY <1>4, <2>1, ByteRead
  <2>4. n \in Nat /\ Unbroken.bytes \in Nat
    BY <1>4, StreamAssumption DEF Unbroken
  <2> HIDE DEF n
  <2>5. n + 1 \in Nat /\ n + 1 <= Unbroken.bytes
    BY <2>1, <2>4
  <2>6. g[n + 1] = b /\ (\A k \in 0 .. n : g[k] = f[k])
    BY <2>4
  <2>7. Written(g, n + 1)
    <3> HIDE DEF g
    <3>1. 0 \in 0 .. n /\ n \in 0 .. n /\ (n + 1) - 1 = n
      BY <2>4
    <3>2. \A k \in 1 .. n + 1 : k = n + 1 \/ (k \in 1 .. n /\ k \in 0 .. n /\ k - 1 \in 0 .. n)
      BY <2>4
    <3>3. g[n + 1] = Stream(Unbroken)!WriteByte(g[(n + 1) - 1], Stream(Unbroken)!Byte(n + 1, FALSE))
      BY <1>4, <2>6, <3>1, Zenon DEF b, n
    <3>4. f[0] = Stream(Unbroken)!NewRingBuffer(Unbroken.cap) /\ \A k \in 1 .. n : f[k] = Stream(Unbroken)!WriteByte(f[k - 1], Stream(Unbroken)!Byte(k, FALSE))
      BY <1>4, Zenon DEF Written, n
    <3>5. \A k \in 1 .. n + 1 : g[k] = Stream(Unbroken)!WriteByte(g[k - 1], Stream(Unbroken)!Byte(k, FALSE))
      BY <2>6, <3>2, <3>3, <3>4, Zenon
    <3> QED BY <2>6, <3>1, <3>4, <3>5, Zenon DEF Written
  <2>8. AtNexus(g, d, bufs, mirror)
    <3>1. d \in 0 .. n
      BY <1>4, <1>5 DEF OnItsWay, n
    <3> HIDE DEF g
    <3> QED BY <1>4, <2>6, <3>1, Zenon DEF AtNexus
  <2> HIDE DEF g
  <2>9. /\ Written(g, sat'.total) /\ sat'.ring = g[sat'.total] /\ sat'.total \in Nat /\ sat'.total <= Unbroken.bytes
        /\ OnItsWay(d, wires'[1], sendCh', sat'.pump, sat'.total) /\ AtNexus(g, d, bufs', mirror')
    BY <2>1, <2>2, <2>3, <2>5, <2>6, <2>7, <2>8, Zenon
  <2> QED BY <1>4, <1>6, <2>1, <2>9, Zenon
<1>8. CASE Stream(Unbroken)!PtySend
  <2> DEFINE n == sat.total
  <2>1. /\ sat.pump = "send" /\ sat' = [sat EXCEPT !.pump = "read", !.lost = sat.lost \/ Stream(Unbroken)!Full(sendCh)]
        /\ sendCh' = Stream(Unbroken)!Queue(sendCh, Output(n))
        /\ UNCHANGED <<prioCh, replay, wires, up, bufs, mirror>>
    BY <1>8, Zenon DEF Stream!PtySend, Stream!nexus, Output
  <2>2. sat'.total = n /\ sat'.pump = "read" /\ sat'.ring = sat.ring /\ ~Stream(Unbroken)!Full(sendCh)
    BY <1>1, <2>1, Zenon DEF SatShape, Whole
  <2>3. OnItsWay(d, w, sendCh', "read", n)
    BY <1>4, <2>1, <2>2, ByteQueued, Zenon
  <2> QED BY <1>4, <1>6, <2>1, <2>2, <2>3, Zenon
<1>9. CASE Stream(Unbroken)!PtyEnds \/ Stream(Unbroken)!Exit \/ Stream(Unbroken)!WriterCheck \/ UNCHANGED streamVars
           \/ \E v \in {v1} : Stream(Unbroken)!Open(v) \/ Stream(Unbroken)!Flush(v) \/ Stream(Unbroken)!Poll(v) \/ Stream(Unbroken)!StateTick(v) \/ Stream(Unbroken)!Leave(v)
  <2>1. /\ UNCHANGED <<prioCh, sendCh, replay, wires, up, bufs, mirror>>
        /\ \/ sat' = sat
           \/ sat' = [sat EXCEPT !.closed = TRUE]
           \/ sat.pump = "read" /\ sat' = [sat EXCEPT !.pump = "done"]
    BY <1>9, Zenon DEF streamVars, Stream!PtyEnds, Stream!Exit, Stream!WriterCheck, Stream!Open, Stream!Flush, Stream!Poll,
       Stream!StateTick, Stream!Leave, Stream!Unviewed, Stream!satellite, Stream!nexus
  <2>2. /\ sat'.total = sat.total /\ sat'.ring = sat.ring
        /\ sat'.pump = sat.pump \/ (sat.pump = "read" /\ sat'.pump = "done")
    BY <1>1, <2>1 DEF SatShape
  <2>3. OnItsWay(d, w, sendCh, sat'.pump, sat.total)
    <3>1. OnItsWay(d, w, sendCh, "read", sat.total) => OnItsWay(d, w, sendCh, "done", sat.total)
      BY DEF OnItsWay
    <3> QED BY <1>4, <2>2, <3>1, Zenon
  <2> QED BY <1>4, <1>6, <2>1, <2>2, <2>3, Zenon
<1>10. CASE Stream(Unbroken)!SendData
  <2> DEFINE v == Append(w, Stream(Unbroken)!Msg(Head(sendCh)))
  <2>1. /\ sendCh # <<>> /\ sendCh' = Tail(sendCh) /\ wires' = [wires EXCEPT ![1] = v]
        /\ UNCHANGED <<sat, prioCh, replay, up, bufs, mirror>>
    BY <1>5, <1>10 DEF Stream!SendData, Stream!Put, Stream!nexus
  <2>2. OnItsWay(d, v, sendCh', sat.pump, sat.total)
    BY <1>4, <2>1, ByteSent
  <2> HIDE DEF v
  <2>3. wires' = <<v>> /\ wires'[1] = v
    <3> HIDE DEF w
    <3>1. wires = <<w>> /\ wires' = [wires EXCEPT ![1] = v]
      BY <1>4, <2>1, Zenon
    <3> QED BY <3>1
  <2> QED BY <1>4, <1>6, <2>1, <2>2, <2>3, Zenon
<1>11. ASSUME NEW i \in DOMAIN wires, Stream(Unbroken)!Receive(i)
       PROVE  \E d2 \in Nat : \E f2 : Streaming(f2, d2)'
  <2> DEFINE x == Stream(Unbroken)!Byte(d + 1, FALSE)
             y == Output(d + 1)
  <2>1. i = 1 /\ w # <<>> /\ wires' = [wires EXCEPT ![1] = Tail(w)]
        /\ (IF Head(w).state = "" THEN Stream(Unbroken)!GatewayData(Head(w).data) ELSE Stream(Unbroken)!GatewayState(Head(w).state))
        /\ UNCHANGED <<sat, prioCh, sendCh, replay, up>>
    BY <1>5, <1>11 DEF Stream!Receive, Stream!satellite
  <2>2. /\ Head(w) = Stream(Unbroken)!Msg(y) /\ d + 1 \in 1 .. sat.total /\ OnItsWay(d + 1, Tail(w), sendCh, sat.pump, sat.total)
    BY <1>4, <2>1, ByteReceived, Zenon
  <2>3. Stream(Unbroken)!GatewayData(y) /\ d + 1 \in Nat /\ d + 1 # 0 /\ (d + 1) - 1 = d
    <3>1. d + 1 \in Nat /\ d + 1 # 0 /\ (d + 1) - 1 = d
      OBVIOUS
    <3>2. Stream(Unbroken)!Msg(y).state = "" /\ Stream(Unbroken)!Msg(y).data = y
      BY <3>1, Carried, Zenon
    <3> QED BY <2>1, <2>2, <3>1, <3>2, Zenon
  <2>4. \A b : Stream(Unbroken)!WriteAll(b, y) = Stream(Unbroken)!WriteByte(b, x)
    BY <2>3, OneByte, Zenon
  <2>5. f[d + 1] = Stream(Unbroken)!WriteByte(f[d], x) /\ f[0] = Stream(Unbroken)!NewRingBuffer(Unbroken.cap)
    BY <1>4, <2>2, <2>3, Zenon DEF Written
  <2> HIDE DEF x, y
  <2>6. /\ bufs' = IF mirror = 0 THEN Append(bufs, Stream(Unbroken)!WriteByte(Stream(Unbroken)!NewRingBuffer(Unbroken.cap), x))
                   ELSE [bufs EXCEPT ![mirror] = Stream(Unbroken)!WriteByte(bufs[mirror], x)]
        /\ mirror' = IF mirror = 0 THEN Len(bufs) + 1 ELSE mirror
    <3>1. /\ bufs' = IF mirror = 0 THEN Append(bufs, Stream(Unbroken)!WriteAll(Stream(Unbroken)!NewRingBuffer(Unbroken.cap), y))
                     ELSE [bufs EXCEPT ![mirror] = Stream(Unbroken)!WriteAll(bufs[mirror], y)]
          /\ mirror' = IF mirror = 0 THEN Len(bufs) + 1 ELSE mirror
      BY <2>3, Zenon DEF Stream!GatewayData
    <3>2. /\ Stream(Unbroken)!WriteAll(Stream(Unbroken)!NewRingBuffer(Unbroken.cap), y) = Stream(Unbroken)!WriteByte(Stream(Unbroken)!NewRingBuffer(Unbroken.cap), x)
          /\ Stream(Unbroken)!WriteAll(bufs[mirror], y) = Stream(Unbroken)!WriteByte(bufs[mirror], x)
      BY <2>4, Zenon
    <3> QED BY <3>1, <3>2, Zenon
  <2>7. bufs' = <<f[d + 1]>> /\ mirror' = 1
    <3>1. CASE d = 0
      <4>1. bufs = <<>> /\ mirror = 0 /\ f[d] = f[0]
        BY <1>4, <3>1 DEF AtNexus
      <4>2. bufs' = Append(<<>>, f[d + 1]) /\ mirror' = Len(<<>>) + 1
        BY <2>5, <2>6, <4>1, Zenon
      <4> QED BY <4>2
    <3>2. CASE d # 0
      <4>1. bufs = <<f[d]>> /\ mirror = 1 /\ bufs[1] = f[d]
        BY <1>4, <3>2 DEF AtNexus
      <4>2. bufs' = [bufs EXCEPT ![1] = f[d + 1]] /\ mirror' = 1
        BY <2>5, <2>6, <4>1
      <4> QED BY <4>1, <4>2
    <3> QED BY <3>1, <3>2
  <2>8. AtNexus(f, d + 1, bufs', mirror')
    BY <2>3, <2>7, Zenon DEF AtNexus
  <2> DEFINE z == Tail(w)
  <2>9. OnItsWay(d + 1, z, sendCh, sat.pump, sat.total)
    BY <2>2
  <2> HIDE DEF z
  <2>10. wires' = <<z>> /\ wires'[1] = z
    <3>1. wires' = [wires EXCEPT ![1] = z]
      BY <2>1 DEF z
    <3> HIDE DEF w
    <3>2. wires = <<w>>
      BY <1>4, Zenon
    <3> QED BY <3>1, <3>2
  <2> QED BY <1>4, <1>6, <2>1, <2>3, <2>8, <2>9, <2>10, Zenon
(* Nothing else can happen to a live session on a stream that stays up. *)
<1>12. /\ ~Stream(Unbroken)!Terminate /\ ~Stream(Unbroken)!SendPriority /\ ~Stream(Unbroken)!Connect
       /\ ~Stream(Unbroken)!Drop /\ ~Stream(Unbroken)!Restart
       /\ ~Stream(Unbroken)!ReplayAnnounce /\ ~Stream(Unbroken)!ReplaySnapshot /\ ~Stream(Unbroken)!ReplayQueue
  <2>1. ASSUME Stream(Unbroken)!Terminate PROVE FALSE
    BY <1>1, <2>1 DEF Stream!Terminate, SatShape, Whole
  <2>2. ~(Len(wires) < 1)
    BY <1>5
  <2> QED BY <1>4, <2>1, <2>2 DEF Stream!SendPriority, Stream!Connect, Stream!Drop, Stream!Restart,
             Stream!ReplayAnnounce, Stream!ReplaySnapshot, Stream!ReplayQueue, Unbroken
<1> QED BY <1>7, <1>8, <1>9, <1>10, <1>11, <1>12, Zenon DEF Stream!Next, Stream!Deliver

(* forwardPtyOutput, sendToNexus, streamWriter and the gateway: for any     *)
(* capacity of the ring buffers and of the channel and any amount of        *)
(* output, on one stream that stays up, Nexus's buffer is the satellite's   *)
(* byte for byte whenever nothing is on its way, unless a full channel has  *)
(* dropped output.                                                          *)
THEOREM BuffersAgree == PartSpec => []Mirrors
<1> DEFINE I == part = "mirror" => MirrorInv
<1>1. PartInit => I
  BY MirrorInit DEF PartInit
<1>2. I /\ [PartNext]_allVars => I'
  <2> SUFFICES ASSUME part = "mirror" => MirrorInv, [PartNext]_allVars, part' = "mirror" PROVE MirrorInv'
    OBVIOUS
  <2>1. part = "mirror"
    BY DEF PartNext, RingPart, StreamPart, RecordingPart, AttachPart, allVars
  <2>2. [Stream(Unbroken)!Next]_streamVars
    BY <2>1 DEF PartNext, RingPart, StreamPart, RecordingPart, AttachPart, allVars
  <2> QED BY <2>1, <2>2, MirrorStep
<1>3. I => Mirrors
  <2> SUFFICES ASSUME MirrorInv, Stream(Unbroken)!Quiet, sat.total > 0, ~sat.lost
               PROVE  mirror # 0 /\ Stream(Unbroken)!Snapshot(bufs[mirror]) = Stream(Unbroken)!Snapshot(sat.ring)
    BY DEF Mirrors, Stream!Mirrors
  <2>1. sat.state = "RUNNING" /\ sat.pump = "read" /\ sendCh = <<>> /\ \A i \in DOMAIN wires : wires[i] = <<>>
    BY DEF Stream!Quiet
  <2>2. PICK d \in Nat : \E f : Streaming(f, d)
    BY <2>1, Zenon DEF MirrorInv, Whole
  <2>3. PICK f : Streaming(f, d)
    BY <2>2, Zenon
  <2>4. /\ wires = <<wires[1]>> /\ sat.ring = f[sat.total] /\ AtNexus(f, d, bufs, mirror)
        /\ OnItsWay(d, wires[1], sendCh, sat.pump, sat.total)
    BY <2>3, Zenon DEF Streaming
  <2>5. wires[1] = <<>>
    <3>1. 1 \in DOMAIN wires
      BY <2>4
    <3> QED BY <2>1, <3>1, Zenon
  <2>6. sat.total = d
    <3>1. OnItsWay(d, <<>>, <<>>, "read", sat.total)
      BY <2>1, <2>4, <2>5, Zenon
    <3> QED BY <3>1 DEF OnItsWay
  <2>7. bufs = <<f[d]>> /\ mirror = 1
    BY <2>4, <2>6 DEF AtNexus
  <2>8. bufs[mirror] = f[d]
    BY <2>7
  <2> QED BY <2>4, <2>6, <2>7, <2>8
<1> QED BY <1>1, <1>2, <1>3, PTL DEF PartSpec
=============================================================================
