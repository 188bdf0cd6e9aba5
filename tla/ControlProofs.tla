---------------------------- MODULE ControlProofs ----------------------------
(***************************************************************************)
(* Proofs about sessions between Nexus and one satellite: what Nexus shows *)
(* and which processes run agree once all is quiet, for any sessions,      *)
(* requests, breaks, restarts and channels.                                *)
(***************************************************************************)
EXTENDS SessionControl, TLAPS

(* Connections that have not been opened are empty, the daemon is on the   *)
(* last one, whose handler is there, and the registry names a handler that *)
(* has registered.                                                         *)
ConnsInv ==
  /\ \A g \in Conns : g > used => gw[g] = Handler("unused", FALSE) /\ out[g] = <<>> /\ up[g] = <<>>
  /\ conn # None => conn = used /\ gw[conn].pc \in {"recv", "marked", "registered", "listed", "apply"}
  /\ stream # None => stream <= used /\ gw[stream].reg
  /\ \A g \in Conns : /\ gw[g].pc = "apply" <=> gw[g].upd # <<>>
                      /\ gw[g].pc \in {"marked", "registered", "listed"} => gw[g].reg

(* The message m reports on session s. *)
About(m, s) == m.msg = "state" /\ m.sid = s

(* A report on s is with the handler of connection g or on its way to it. *)
Reaches(g, s) == \E m \in Range(up[g]) \cup Range(gw[g].upd) : About(m, s)

(* Nothing has been heard of s. *)
Unheard(s) ==
  /\ \A m \in Range(prio) : ~About(m, s)
  /\ \A g \in Conns : ~Reaches(g, s)

Starting(s) ==
  \/ \E c \in Clients : Cmd("start", s) \in Range(req[c])
  \/ \E g \in Conns : Cmd("start", s) \in Range(out[g])

OnceIn(q, x) == \A i, j \in DOMAIN q : q[i] = x /\ q[j] = x => i = j

(* A session is started once: there is one command at most, and while there *)
(* is one, or no row yet, the daemon has not met the session.               *)
StartsInv ==
  \A s \in Sessions :
    /\ rows[s] = "none" => ~Starting(s)
    /\ rows[s] = "none" \/ Starting(s) => sat[s] = "none" /\ s \notin alive /\ Unheard(s)
    /\ \A c, d \in Clients :
         Cmd("start", s) \in Range(req[c]) /\ Cmd("start", s) \in Range(req[d]) => c = d
    /\ \A c \in Clients, g \in Conns :
         Cmd("start", s) \in Range(req[c]) => Cmd("start", s) \notin Range(out[g])
    /\ \A g, h \in Conns :
         Cmd("start", s) \in Range(out[g]) /\ Cmd("start", s) \in Range(out[h]) => g = h
    /\ \A g \in Conns : OnceIn(out[g], Cmd("start", s))

(* A process has an entry that is not terminated, and no connection before *)
(* the one a session was started over has heard of it.                     *)
EntriesInv ==
  \A s \in Sessions :
    /\ s \in alive => sat[s] \in {"RUNNING", "SUSPENDED"}
    /\ \A g \in Conns : g < begun[s] => ~Reaches(g, s)

Final(s) == rows[s] \in {"TERMINATED", "deleted"}

(* The handler is about to write another state than TERMINATED. *)
Reviving(s) == \E m \in Range(gw[conn].upd) : m.sid = s /\ m.to # "TERMINATED"

Told(s) == Update(s, "TERMINATED") \in Range(prio) \cup Range(up[conn]) \cup Range(gw[conn].upd)

(* The end of a process that was started over the present connection has   *)
(* reached the row for good, or its report is on its way.                  *)
EndsInv ==
  \A s \in Sessions :
    begun[s] = conn /\ conn # None /\ conn \notin spilled /\ s \notin alive => (Final(s) /\ ~Reviving(s)) \/ Told(s)

(* No list of connection g has a session that was terminated before it was *)
(* opened.                                                                 *)
ListsInv ==
  \A s \in Sessions, g \in Conns :
    rows[s] = "TERMINATED" /\ ended[s] < g =>
      /\ gw[g].pc = "listed" => s \notin gw[g].active
      /\ \A m \in Range(out[g]) : m.cmd = "reconcile" => s \notin m.active

(* The list of the present connection is still to come. *)
ListComing ==
  \/ ~gw[conn].reg \/ gw[conn].pc \in {"marked", "registered", "listed"}
  \/ \E m \in Range(out[conn]) : m.cmd = "reconcile"

OrphansInv ==
  \A s \in Sessions :
    /\ conn # None /\ conn \notin spilled
    /\ rows[s] = "TERMINATED" /\ ended[s] < conn /\ begun[s] < conn /\ s \in alive
    => ListComing

-----------------------------------------------------------------------------
(* Queues. *)

(* A message is queued at the end of a channel. *)
LEMMA Appended ==
  ASSUME NEW S, NEW q \in Seq(S), NEW x \in S
  PROVE  /\ Append(q, x) \in Seq(S) /\ Len(Append(q, x)) = Len(q) + 1
         /\ Range(Append(q, x)) = Range(q) \cup {x}
         /\ \A y : OnceIn(q, y) /\ (x = y => y \notin Range(q)) => OnceIn(Append(q, x), y)
<1>1. /\ Append(q, x) \in Seq(S) /\ Len(Append(q, x)) = Len(q) + 1 /\ Len(q) \in Nat
      /\ \A i \in 1 .. Len(q) : Append(q, x)[i] = q[i]
      /\ Append(q, x)[Len(q) + 1] = x
  OBVIOUS
<1>2. DOMAIN q = 1 .. Len(q) /\ DOMAIN Append(q, x) = 1 .. (Len(q) + 1)
  BY <1>1
<1>3. 1 .. (Len(q) + 1) = (1 .. Len(q)) \cup {Len(q) + 1}
  BY <1>1
<1>4. Range(Append(q, x)) = Range(q) \cup {x}
  BY <1>1, <1>2, <1>3 DEF Range
<1>5. ASSUME NEW y, OnceIn(q, y), x = y => y \notin Range(q) PROVE OnceIn(Append(q, x), y)
  BY <1>1, <1>2, <1>3, <1>5 DEF OnceIn, Range
<1> QED BY <1>1, <1>4, <1>5

(* A message is taken from the front of a channel. *)
LEMMA Taken ==
  ASSUME NEW S, NEW q \in Seq(S), q # <<>>
  PROVE  /\ Head(q) \in S /\ Tail(q) \in Seq(S) /\ Len(Tail(q)) = Len(q) - 1 /\ Len(q) \in Nat
         /\ Range(q) = {Head(q)} \cup Range(Tail(q))
         /\ \A y : OnceIn(q, y) => OnceIn(Tail(q), y) /\ (Head(q) = y => y \notin Range(Tail(q)))
<1>1. /\ Head(q) = q[1] /\ Head(q) \in S /\ Tail(q) \in Seq(S) /\ Len(Tail(q)) = Len(q) - 1
      /\ Len(q) \in Nat /\ Len(q) >= 1 /\ DOMAIN q = 1 .. Len(q) /\ DOMAIN Tail(q) = 1 .. (Len(q) - 1)
      /\ \A i \in 1 .. (Len(q) - 1) : Tail(q)[i] = q[i + 1]
  OBVIOUS
<1>2. ASSUME NEW i \in 1 .. Len(q), i # 1 PROVE i - 1 \in 1 .. (Len(q) - 1) /\ Tail(q)[i - 1] = q[i]
  BY <1>1, <1>2
<1>3. ASSUME NEW i \in 1 .. (Len(q) - 1) PROVE i + 1 \in 1 .. Len(q) /\ i + 1 # 1
  BY <1>1
<1>4. Range(q) = {Head(q)} \cup Range(Tail(q))
  <2>1. ASSUME NEW i \in 1 .. Len(q) PROVE q[i] \in {Head(q)} \cup Range(Tail(q))
    BY <1>1, <1>2, Zenon DEF Range
  <2>2. ASSUME NEW i \in 1 .. (Len(q) - 1) PROVE Tail(q)[i] \in Range(q)
    BY <1>1, <1>3 DEF Range
  <2>3. Head(q) \in Range(q)
    BY <1>1 DEF Range
  <2> QED BY <1>1, <2>1, <2>2, <2>3, Zenon DEF Range
<1>5. ASSUME NEW y, OnceIn(q, y) PROVE OnceIn(Tail(q), y) /\ (Head(q) = y => y \notin Range(Tail(q)))
  <2>1. ASSUME NEW i \in DOMAIN Tail(q), NEW j \in DOMAIN Tail(q), Tail(q)[i] = y, Tail(q)[j] = y
        PROVE  i = j
    BY <1>1, <1>3, <1>5, <2>1 DEF OnceIn
  <2>2. ASSUME Head(q) = y, NEW i \in DOMAIN Tail(q), Tail(q)[i] = y PROVE FALSE
    BY <1>1, <1>3, <1>5, <2>2 DEF OnceIn
  <2> QED BY <2>1, <2>2 DEF OnceIn, Range
<1> QED BY <1>1, <1>4, <1>5

(* Of what was sent a part arrives (Break). *)
LEMMA CutOff ==
  ASSUME NEW S, NEW q \in Seq(S), NEW n \in 0 .. Len(q)
  PROVE  /\ SubSeq(q, 1, n) \in Seq(S) /\ Len(SubSeq(q, 1, n)) = n
         /\ Range(SubSeq(q, 1, n)) \subseteq Range(q)
<1>1. /\ SubSeq(q, 1, n) \in Seq(S) /\ Len(SubSeq(q, 1, n)) = n
      /\ DOMAIN SubSeq(q, 1, n) = 1 .. n /\ DOMAIN q = 1 .. Len(q) /\ Len(q) \in Nat
      /\ \A i \in 1 .. n : SubSeq(q, 1, n)[i] = q[i] /\ i \in 1 .. Len(q)
  OBVIOUS
<1> QED BY <1>1 DEF Range

(* A queue with nothing in it and one with one message. *)
LEMMA ShortQueues ==
  ASSUME NEW x
  PROVE  Range(<<>>) = {} /\ Range(<<x>>) = {x} /\ OnceIn(<<>>, x) /\ DOMAIN <<x>> = {1}
BY DEF Range, OnceIn

(* One queue after another. *)
LEMMA Joined ==
  ASSUME NEW S, NEW q \in Seq(S), NEW r \in Seq(S)
  PROVE  q \o r \in Seq(S) /\ Range(q \o r) = Range(q) \cup Range(r)
<1> DEFINE all == q \o r
<1>1. /\ all \in Seq(S) /\ Len(all) = Len(q) + Len(r) /\ Len(q) \in Nat /\ Len(r) \in Nat
      /\ DOMAIN q = 1 .. Len(q) /\ DOMAIN r = 1 .. Len(r) /\ DOMAIN all = 1 .. Len(all)
  OBVIOUS
<1>2. \A i \in 1 .. Len(q) : i \in 1 .. Len(all) /\ all[i] = q[i]
  BY <1>1
<1>3. \A i \in 1 .. Len(r) : Len(q) + i \in 1 .. Len(all) /\ all[Len(q) + i] = r[i]
  BY <1>1
<1> HIDE DEF all
<1>4. \A i \in 1 .. Len(all) : all[i] \in Range(q) \cup Range(r)
  <2> SUFFICES ASSUME NEW i \in 1 .. Len(all) PROVE all[i] \in Range(q) \cup Range(r)
    OBVIOUS
  <2>1. CASE i <= Len(q)
    BY <1>1, <1>2, <2>1 DEF Range
  <2>2. CASE i > Len(q)
    <3>1. i - Len(q) \in 1 .. Len(r) /\ Len(q) + (i - Len(q)) = i
      BY <1>1, <2>2
    <3> QED BY <1>1, <1>3, <3>1, Zenon DEF Range
  <2> QED BY <1>1, <2>1, <2>2
<1>5. Range(q) \subseteq Range(all)
  BY <1>1, <1>2 DEF Range
<1>6. Range(r) \subseteq Range(all)
  <2> SUFFICES ASSUME NEW i \in 1 .. Len(r) PROVE r[i] \in Range(all)
    BY <1>1 DEF Range
  <2> DEFINE k == Len(q) + i
  <2>1. k \in DOMAIN all /\ all[k] = r[i]
    BY <1>1, <1>3
  <2> HIDE DEF k
  <2> QED BY <2>1, Zenon DEF Range
<1>7. Range(all) \subseteq Range(q) \cup Range(r)
  BY <1>1, <1>4 DEF Range
<1> QED BY <1>1, <1>5, <1>6, <1>7 DEF all

(* Reports are queued one after the other while there is room (EnqueueAll). *)
LEMMA Reported ==
  ASSUME NEW q \in Seq(Updates), Len(q) <= PrioCap, NEW ms \in Seq(Updates)
  PROVE  /\ EnqueueAll(q, ms) \in Seq(Updates) /\ Len(EnqueueAll(q, ms)) <= PrioCap
         /\ Range(q) \subseteq Range(EnqueueAll(q, ms))
         /\ Range(EnqueueAll(q, ms)) \subseteq Range(q) \cup Range(ms)
         /\ Len(q) + Len(ms) <= PrioCap => Range(ms) \subseteq Range(EnqueueAll(q, ms))
<1> DEFINE all == q \o ms
           n == IF Len(all) <= PrioCap THEN Len(all) ELSE PrioCap
           r == SubSeq(all, 1, n)
<1>1. /\ all \in Seq(Updates) /\ Len(all) = Len(q) + Len(ms) /\ Len(q) \in Nat /\ Len(ms) \in Nat
      /\ \A i \in 1 .. Len(q) : all[i] = q[i]
      /\ \A i \in 1 .. Len(ms) : all[Len(q) + i] = ms[i]
      /\ DOMAIN q = 1 .. Len(q) /\ DOMAIN ms = 1 .. Len(ms) /\ PrioCap \in Nat
  BY CapsAssumption
<1>2. \A i \in 1 .. Len(all) : all[i] \in Range(q) \cup Range(ms)
  <2> SUFFICES ASSUME NEW i \in 1 .. Len(all) PROVE all[i] \in Range(q) \cup Range(ms)
    OBVIOUS
  <2>1. CASE i <= Len(q)
    BY <1>1, <2>1 DEF Range
  <2>2. CASE i > Len(q)
    <3>1. i - Len(q) \in 1 .. Len(ms) /\ Len(q) + (i - Len(q)) = i
      BY <1>1, <2>2
    <3> QED BY <1>1, <3>1, Zenon DEF Range
  <2> QED BY <1>1, <2>1, <2>2
<1>3. n \in Nat /\ n <= Len(all) /\ n <= PrioCap /\ Len(q) <= n
      /\ (Len(q) + Len(ms) <= PrioCap => n = Len(q) + Len(ms))
  BY <1>1
<1> HIDE DEF all, n
<1>4. /\ r \in Seq(Updates) /\ Len(r) = n /\ DOMAIN r = 1 .. n
      /\ \A i \in 1 .. n : r[i] = all[i]
  BY <1>1, <1>3
<1>5. EnqueueAll(q, ms) = r
  BY DEF EnqueueAll, all, n
<1> HIDE DEF r
<1>6. Range(q) \subseteq Range(r)
  <2>1. \A i \in 1 .. Len(q) : i \in 1 .. n /\ r[i] = q[i]
    BY <1>1, <1>3, <1>4
  <2> QED BY <1>1, <1>4, <2>1 DEF Range
<1>7. Range(r) \subseteq Range(q) \cup Range(ms)
  <2>1. \A i \in 1 .. n : i \in 1 .. Len(all)
    BY <1>1, <1>3
  <2> QED BY <1>2, <1>4, <2>1, Zenon DEF Range
<1>8. ASSUME Len(q) + Len(ms) <= PrioCap PROVE Range(ms) \subseteq Range(r)
  <2>1. \A i \in 1 .. Len(ms) : Len(q) + i \in 1 .. n /\ r[Len(q) + i] = ms[i]
    BY <1>1, <1>3, <1>4, <1>8
  <2> SUFFICES ASSUME NEW i \in 1 .. Len(ms) PROVE ms[i] \in Range(r)
    BY <1>1 DEF Range
  <2> DEFINE k == Len(q) + i
  <2>2. k \in DOMAIN r /\ r[k] = ms[i]
    BY <1>4, <2>1
  <2> HIDE DEF k
  <2> QED BY <2>2, Zenon DEF Range
<1> QED BY <1>3, <1>4, <1>5, <1>6, <1>7, <1>8

(* A Go map is walked through in some order: each of its keys once. *)
LEMMA Ordered ==
  ASSUME NEW S, S \subseteq Sessions, NEW order \in Orders(S)
  PROVE  /\ Cardinality(S) \in Nat /\ DOMAIN order = 1 .. Cardinality(S)
         /\ \A i \in DOMAIN order : order[i] \in S
         /\ \A s \in S : \E i \in DOMAIN order : order[i] = s
<1>1. Cardinality(S) \in Nat
  BY CapsAssumption
<1>2. order \in [1 .. Cardinality(S) -> S] /\ Range(order) = S
  BY DEF Orders
<1> QED BY <1>1, <1>2 DEF Range

ControlInv == TypeOK /\ ConnsInv /\ StartsInv /\ EntriesInv /\ EndsInv /\ ListsInv /\ OrphansInv
-----------------------------------------------------------------------------
(* What the daemon queues when it reports sessions in some order. *)
LEMMA OrderReported ==
  ASSUME NEW S, S \subseteq Sessions, NEW order \in Orders(S), NEW ms \in [DOMAIN order -> Updates],
         \A i \in DOMAIN order : ms[i].sid = order[i]
  PROVE  /\ ms \in Seq(Updates)
         /\ \A m \in Range(ms) : m.sid \in S
         /\ \A s \in S : \E m \in Range(ms) : m.sid = s
<1>1. /\ Cardinality(S) \in Nat /\ DOMAIN order = 1 .. Cardinality(S)
      /\ \A i \in DOMAIN order : order[i] \in S
      /\ \A s \in S : \E i \in DOMAIN order : order[i] = s
  BY Ordered
<1>2. ms \in Seq(Updates)
  BY <1>1
<1>3. \A m \in Range(ms) : m.sid \in S
  BY <1>1 DEF Range
<1>4. \A s \in S : \E m \in Range(ms) : m.sid = s
  BY <1>1 DEF Range
<1> QED BY <1>2, <1>3, <1>4

(* The forms of messages, commands and handlers. *)
LEMMA Forms ==
  /\ \A m \in Updates : m.msg = "state" /\ m.sid \in Sessions /\ m.to \in {"RUNNING", "SUSPENDED", "TERMINATED"}
                        /\ m = Update(m.sid, m.to) /\ \A s : About(m, s) <=> m.sid = s
  /\ Register.msg = "register" /\ Register \notin Updates /\ \A s : ~About(Register, s)
  /\ \A m \in Commands : /\ m.cmd = "reconcile" => m.active \subseteq Sessions
                         /\ m.cmd # "reconcile" => m.sid \in Sessions /\ m = Cmd(m.cmd, m.sid)
                         /\ m.cmd \in {"start", "suspend", "resume", "kill", "reconcile"}
  /\ \A m \in Requests : m \in Commands /\ m.cmd # "reconcile"
<1>1. \A m \in Updates : m.msg = "state" /\ m.sid \in Sessions /\ m.to \in {"RUNNING", "SUSPENDED", "TERMINATED"}
  BY DEF Updates
<1>2. \A m \in Updates : m = Update(m.sid, m.to)
  BY DEF Updates, Update
<1>3. Register.msg = "register"
  BY DEF Register
<1>4. \A m \in Commands : /\ m.cmd = "reconcile" => m.active \subseteq Sessions
                          /\ m.cmd \in {"start", "suspend", "resume", "kill", "reconcile"}
                          /\ m.cmd # "reconcile" => m.sid \in Sessions
  BY DEF Commands, Requests
<1>5. \A m \in Commands : m.cmd # "reconcile" => m = Cmd(m.cmd, m.sid)
  BY DEF Commands, Requests, Cmd
<1>6. \A m \in Requests : m \in Commands /\ m.cmd # "reconcile"
  BY DEF Commands, Requests
<1> QED BY <1>1, <1>2, <1>3, <1>4, <1>5, <1>6 DEF About

(* The commands and reports that the code builds have their types. *)
LEMMA Made ==
  /\ \A s \in Sessions : \A c \in {"start", "suspend", "resume", "kill"} :
       Cmd(c, s) \in Requests /\ Cmd(c, s).cmd = c /\ Cmd(c, s).sid = s
  /\ \A s \in Sessions : \A to \in {"RUNNING", "SUSPENDED", "TERMINATED"} :
       Update(s, to) \in Updates /\ Update(s, to).sid = s /\ Update(s, to).to = to
  /\ \A a \in SUBSET Sessions : [cmd |-> "reconcile", active |-> a] \in Commands
  /\ \A pc \in {"unused", "recv", "marked", "registered", "listed", "apply", "removed", "done"} :
       \A reg \in BOOLEAN : /\ Handler(pc, reg) \in Handlers
                            /\ Handler(pc, reg).pc = pc /\ Handler(pc, reg).reg = reg
                            /\ Handler(pc, reg).upd = <<>>
<1>1. \A s \in Sessions : \A c \in {"start", "suspend", "resume", "kill"} :
       Cmd(c, s) \in Requests /\ Cmd(c, s).cmd = c /\ Cmd(c, s).sid = s
  BY DEF Cmd, Requests
<1>2. \A s \in Sessions : \A to \in {"RUNNING", "SUSPENDED", "TERMINATED"} :
       Update(s, to) \in Updates /\ Update(s, to).sid = s /\ Update(s, to).to = to
  BY DEF Update, Updates
<1>3. \A a \in SUBSET Sessions : [cmd |-> "reconcile", active |-> a] \in Commands
  BY DEF Commands, Requests
<1>4. <<>> \in Optional(Updates)
  BY DEF Optional
<1>5. ASSUME NEW pc \in {"unused", "recv", "marked", "registered", "listed", "apply", "removed", "done"},
             NEW reg \in BOOLEAN
      PROVE  /\ Handler(pc, reg) \in Handlers /\ Handler(pc, reg).pc = pc /\ Handler(pc, reg).reg = reg
             /\ Handler(pc, reg).upd = <<>>
  BY <1>4 DEF Handler, Handlers
<1> QED BY <1>1, <1>2, <1>3, <1>5

(* A report of one session. *)
LEMMA OneReport ==
  ASSUME NEW s \in Sessions, NEW to \in {"RUNNING", "SUSPENDED", "TERMINATED"}
  PROVE  /\ <<Update(s, to)>> \in Seq(Updates) /\ Range(<<Update(s, to)>>) = {Update(s, to)}
         /\ Update(s, to).sid = s
<1>1. PICK u : u = Update(s, to)
  OBVIOUS
<1>2. u \in Updates /\ u.sid = s
  BY <1>1, Made, Zenon
<1>3. <<u>> \in Seq(Updates) /\ Range(<<u>>) = {u}
  BY <1>2, ShortQueues
<1> QED BY <1>1, <1>2, <1>3

(* Connections are numbered. *)
LEMMA Counted ==
  ASSUME TypeOK
  PROVE  /\ used \in Nat /\ None \in Int /\ conn \in Int /\ stream \in Int
         /\ \A g \in Conns : g \in Int /\ g # None /\ g > 0
         /\ \A s \in Sessions : ended[s] \in Int /\ begun[s] \in Int /\ ended[s] <= used /\ begun[s] <= used
<1>1. MaxConns \in Nat /\ used \in Nat /\ None = 0
  BY CapsAssumption DEF TypeOK, None
<1>2. \A g \in Conns : g \in Int /\ g # None /\ g > 0
  BY <1>1 DEF Conns
<1>3. conn \in Int /\ stream \in Int
  BY <1>1, <1>2 DEF TypeOK
<1>4. \A s \in Sessions : ended[s] \in 0 .. used /\ begun[s] \in 0 .. used
  BY DEF TypeOK
<1> QED BY <1>1, <1>2, <1>3, <1>4

(* Nothing or one of S. *)
LEMMA Options ==
  ASSUME NEW S
  PROVE  /\ <<>> \in Optional(S) /\ \A x \in S : <<x>> \in Optional(S)
         /\ \A o \in Optional(S) : o # <<>> => Head(o) \in S /\ o = <<Head(o)>> /\ Range(o) = {Head(o)}
<1>1. <<>> \in Optional(S) /\ \A x \in S : <<x>> \in Optional(S)
  BY DEF Optional
<1>2. ASSUME NEW o \in Optional(S), o # <<>> PROVE Head(o) \in S /\ o = <<Head(o)>> /\ Range(o) = {Head(o)}
  <2>1. PICK x \in S : o = <<x>>
    BY <1>2 DEF Optional
  <2> QED BY <2>1, ShortQueues
<1> QED BY <1>1, <1>2
-----------------------------------------------------------------------------
(* What keeps each conjunct of the invariant. *)

Begins(q, s) == Cmd("start", s) \in Range(q)

(* No new start command appears, and no report on a session that is still  *)
(* to be started.                                                          *)
LEMMA StartsKept ==
  ASSUME StartsInv,
         \A s \in Sessions : rows'[s] = "none" => rows[s] = "none",
         \A s \in Sessions : \A c \in Clients : Begins(req'[c], s) => Begins(req[c], s),
         \A s \in Sessions : \A g \in Conns : Begins(out'[g], s) => Begins(out[g], s),
         \A s \in Sessions : \A g \in Conns : OnceIn(out[g], Cmd("start", s)) => OnceIn(out'[g], Cmd("start", s)),
         \A s \in Sessions : sat[s] = "none" => sat'[s] = "none",
         alive' \subseteq alive,
         \A s \in Sessions : Unheard(s) /\ (rows'[s] = "none" \/ Starting(s)') => Unheard(s)'
  PROVE  StartsInv'
<1> SUFFICES ASSUME NEW s \in Sessions
             PROVE  /\ rows'[s] = "none" => ~Starting(s)'
                    /\ rows'[s] = "none" \/ Starting(s)' => sat'[s] = "none" /\ s \notin alive' /\ Unheard(s)'
                    /\ \A c, d \in Clients : Begins(req'[c], s) /\ Begins(req'[d], s) => c = d
                    /\ \A c \in Clients, g \in Conns : Begins(req'[c], s) => ~Begins(out'[g], s)
                    /\ \A g, h \in Conns : Begins(out'[g], s) /\ Begins(out'[h], s) => g = h
                    /\ \A g \in Conns : OnceIn(out'[g], Cmd("start", s))
  BY Zenon DEF StartsInv, Begins
<1>1. Starting(s)' => Starting(s)
  BY Zenon DEF Starting, Begins
<1>2. /\ rows[s] = "none" => ~Starting(s)
      /\ rows[s] = "none" \/ Starting(s) => sat[s] = "none" /\ s \notin alive /\ Unheard(s)
      /\ \A c, d \in Clients : Begins(req[c], s) /\ Begins(req[d], s) => c = d
      /\ \A c \in Clients, g \in Conns : Begins(req[c], s) => ~Begins(out[g], s)
      /\ \A g, h \in Conns : Begins(out[g], s) /\ Begins(out[h], s) => g = h
      /\ \A g \in Conns : OnceIn(out[g], Cmd("start", s))
  BY Zenon DEF StartsInv, Begins
<1> QED BY <1>1, <1>2, Zenon

(* No process starts, and only the present connection hears more. *)
LEMMA EntriesKept ==
  ASSUME EntriesInv, begun' = begun, alive' \subseteq alive,
         \A s \in alive' : sat'[s] \in {"RUNNING", "SUSPENDED"},
         \A s \in Sessions : \A g \in Conns : g < begun[s] /\ Reaches(g, s)' => Reaches(g, s)
  PROVE  EntriesInv'
BY DEF EntriesInv

(* The end of a process is reported, and neither the report nor the final  *)
(* row is lost.                                                            *)
LEMMA EndsKept ==
  ASSUME EndsInv, begun' = begun, conn' = conn, spilled \subseteq spilled',
         \A s \in Sessions : begun[s] = conn /\ conn # None =>
           /\ s \in alive /\ s \notin alive' /\ conn \notin spilled' => Told(s)'
           /\ Final(s) /\ ~Reviving(s) => (Final(s)' /\ ~Reviving(s)') \/ Told(s)'
           /\ Told(s) => (Final(s)' /\ ~Reviving(s)') \/ Told(s)'
  PROVE  EndsInv'
BY DEF EndsInv

(* A row that is shown as terminated was so before, or is so as of now. *)
OldEnds ==
  \A s \in Sessions : rows'[s] = "TERMINATED" =>
    (rows[s] = "TERMINATED" /\ ended'[s] = ended[s]) \/ ended'[s] = used

(* No list is made or sent. *)
LEMMA ListsKept ==
  ASSUME TypeOK, ConnsInv, ListsInv, OldEnds,
         \A g \in Conns : g <= used /\ gw'[g].pc = "listed" => gw[g].pc = "listed" /\ gw'[g].active = gw[g].active,
         \A g \in Conns : g > used => gw'[g].pc # "listed",
         \A g \in Conns : \A m \in Range(out'[g]) : m.cmd = "reconcile" => m \in Range(out[g])
  PROVE  ListsInv'
<1> SUFFICES ASSUME NEW s \in Sessions, NEW g \in Conns, rows'[s] = "TERMINATED", ended'[s] < g
             PROVE  /\ gw'[g].pc = "listed" => s \notin gw'[g].active
                    /\ \A m \in Range(out'[g]) : m.cmd = "reconcile" => s \notin m.active
  BY DEF ListsInv
<1>1. used \in Int /\ g \in Int
  BY CapsAssumption DEF TypeOK, Conns
<1>2. CASE g <= used
  <2>1. rows[s] = "TERMINATED" /\ ended[s] < g
    BY <1>1, <1>2 DEF OldEnds
  <2> QED BY <1>2, <2>1, Zenon DEF ListsInv
<1>3. CASE g > used
  <2>1. Range(out[g]) = {}
    BY <1>3, ShortQueues, Zenon DEF ConnsInv
  <2> QED BY <1>3, <2>1
<1> QED BY <1>1, <1>2, <1>3

(* No process starts, and the list that is to come still is, or no process *)
(* is left that it would end.                                              *)
LEMMA OrphansKept ==
  ASSUME TypeOK, ConnsInv, OrphansInv, OldEnds, conn' = conn, begun' = begun, alive' \subseteq alive,
         spilled \subseteq spilled',
         \A s \in Sessions : /\ conn # None /\ conn \notin spilled' /\ rows'[s] = "TERMINATED" /\ rows[s] = "TERMINATED"
                             /\ ended[s] < conn /\ s \in alive' /\ ListComing
                             => ListComing'
  PROVE  OrphansInv'
<1> SUFFICES ASSUME NEW s \in Sessions, conn # None, conn \notin spilled', rows'[s] = "TERMINATED",
                    ended'[s] < conn, begun[s] < conn, s \in alive'
             PROVE  ListComing'
  BY DEF OrphansInv
<1>1. conn = used /\ used \in Int
  BY CapsAssumption DEF ConnsInv, TypeOK
<1>2. rows[s] = "TERMINATED" /\ ended'[s] = ended[s]
  BY <1>1 DEF OldEnds
<1>3. conn \notin spilled /\ s \in alive
  OBVIOUS
<1>4. ListComing
  BY <1>2, <1>3 DEF OrphansInv
<1> QED BY <1>2, <1>4
-----------------------------------------------------------------------------
(* The REST handlers. *)

ApiOf(c, s) ==
  \/ HandleCreateSession(c, s) \/ HandleKillSession(c, s)
  \/ HandleSuspendSession(c, s) \/ HandleResumeSession(c, s)
  \/ HandleAttachSession(c, s) \/ HandleDetachSession(c, s)
  \/ HandleDeleteSession(s)

(* A row is written and at most one command is to be dispatched, a start   *)
(* for a new row only; a final row stays final.                            *)
LEMMA ApiEffect ==
  ASSUME TypeOK, NEW c \in Clients, NEW s \in Sessions, ApiOf(c, s)
  PROVE  /\ \E to \in States \cup {"deleted"} :
              /\ SetRow(s, to)
              /\ rows[s] = "none" => to = "PROVISIONING"
              /\ rows[s] \in {"TERMINATED", "deleted"} => to = "deleted"
         /\ asked' \in 0 .. MaxRequests
         /\ \/ req' = req /\ rows[s] # "none"
            \/ /\ req[c] = <<>>
               /\ \E o \in Optional(Requests) :
                    /\ req' = [req EXCEPT ![c] = o]
                    /\ \A t \in Sessions : Begins(o, t) => t = s /\ rows[s] = "none"
         /\ UNCHANGED <<status, stream, gw, out, up, used, conn, daemon, restarts>>
<1>0. ASSUME NEW t \in Sessions, NEW cmd \in {"start", "suspend", "resume", "kill"}
      PROVE  /\ <<Cmd(cmd, s)>> \in Optional(Requests)
             /\ Begins(<<Cmd(cmd, s)>>, t) => cmd = "start" /\ t = s
             /\ ~Begins(<<>>, t) /\ <<>> \in Optional(Requests)
  <2>1. Cmd(cmd, s) \in Requests /\ Cmd(cmd, s).cmd = cmd /\ Cmd(cmd, s).sid = s
    BY Made, Zenon
  <2>2. Cmd("start", t).cmd = "start" /\ Cmd("start", t).sid = t
    BY Made, Zenon
  <2>3. Range(<<Cmd(cmd, s)>>) = {Cmd(cmd, s)} /\ Range(<<>>) = {}
    BY ShortQueues
  <2> QED BY <2>1, <2>2, <2>3, Options DEF Begins
<1>1. ASSUME Ask PROVE asked' \in 0 .. MaxRequests
  BY <1>1, CapsAssumption DEF Ask, TypeOK
<1>2. CASE HandleCreateSession(c, s)
  BY <1>0, <1>1, <1>2, Zenon DEF HandleCreateSession, States
<1>3. ASSUME NEW to \in States \ {"PROVISIONING"}, NEW o \in Optional(Requests), \A t \in Sessions : ~Begins(o, t),
             Transition(c, s, to, o)
      PROVE  /\ \E x \in States \cup {"deleted"} :
                  /\ SetRow(s, x)
                  /\ rows[s] = "none" => x = "PROVISIONING"
                  /\ rows[s] \in {"TERMINATED", "deleted"} => x = "deleted"
             /\ asked' \in 0 .. MaxRequests
             /\ req[c] = <<>> /\ req' = [req EXCEPT ![c] = o]
             /\ UNCHANGED <<status, stream, gw, out, up, used, conn, daemon, restarts>>
  <2>1. rows[s] \in States /\ rows[s] # "TERMINATED"
    BY <1>3 DEF Transition, Stored, IsTransitionValid, ValidTransitions, States
  <2> QED BY <1>1, <1>3, <2>1 DEF Transition, States
<1>4. CASE HandleKillSession(c, s)
  <2>1. \A t \in Sessions : ~Begins(<<Cmd("kill", s)>>, t) /\ <<Cmd("kill", s)>> \in Optional(Requests)
    BY <1>0
  <2> QED BY <1>3, <1>4, <2>1, Zenon DEF HandleKillSession, States
<1>5. CASE HandleSuspendSession(c, s)
  <2>1. \A t \in Sessions : ~Begins(<<Cmd("suspend", s)>>, t) /\ <<Cmd("suspend", s)>> \in Optional(Requests)
    BY <1>0
  <2> QED BY <1>3, <1>5, <2>1, Zenon DEF HandleSuspendSession, States
<1>6. CASE HandleResumeSession(c, s)
  <2>1. \A t \in Sessions : ~Begins(<<Cmd("resume", s)>>, t) /\ <<Cmd("resume", s)>> \in Optional(Requests)
    BY <1>0
  <2> QED BY <1>3, <1>6, <2>1, Zenon DEF HandleResumeSession, States
<1>7. CASE HandleAttachSession(c, s) \/ HandleDetachSession(c, s)
  <2>1. \A t \in Sessions : ~Begins(<<>>, t) /\ <<>> \in Optional(Requests)
    BY <1>0
  <2> QED BY <1>3, <1>7, <2>1, Zenon DEF HandleAttachSession, HandleDetachSession, States
<1>8. CASE HandleDeleteSession(s)
  BY <1>1, <1>8 DEF HandleDeleteSession, States
<1> QED BY <1>2, <1>4, <1>5, <1>6, <1>7, <1>8, Zenon DEF ApiOf

(* A written row: SetRow keeps the types, final rows of others and lists. *)
LEMMA RowSet ==
  ASSUME TypeOK, NEW s \in Sessions, NEW to \in States \cup {"deleted"}, SetRow(s, to), used' = used
  PROVE  /\ rows' \in [Sessions -> States \cup {"none", "deleted"}] /\ ended' \in [Sessions -> 0 .. used]
         /\ rows'[s] = to /\ \A t \in Sessions : t # s => rows'[t] = rows[t]
         /\ OldEnds
<1>1. /\ rows' \in [Sessions -> States \cup {"none", "deleted"}] /\ ended' \in [Sessions -> 0 .. used]
      /\ rows'[s] = to /\ \A t \in Sessions : t # s => rows'[t] = rows[t]
      /\ to = "TERMINATED" => ended'[s] = used
      /\ \A t \in Sessions : t # s => ended'[t] = ended[t]
  <2>1. used \in 0 .. used
    BY CapsAssumption DEF TypeOK
  <2>2. CASE to = "TERMINATED"
    BY <2>1, <2>2, Zenon DEF SetRow, TypeOK, States
  <2>3. CASE to # "TERMINATED"
    BY <2>3, Zenon DEF SetRow, TypeOK
  <2> QED BY <2>2, <2>3, Zenon
<1> QED BY <1>1 DEF OldEnds

(* A REST handler commits a row.  A new row is of a session the daemon has    *)
(* not met; a row that is terminated is terminated on the present connection. *)
LEMMA ApiKeeps ==
  ASSUME ControlInv, NEW c \in Clients, NEW s \in Sessions, ApiOf(c, s)
  PROVE  ControlInv'
<1> USE DEF ControlInv
<1>1. PICK to \in States \cup {"deleted"} :
        /\ SetRow(s, to)
        /\ rows[s] = "none" => to = "PROVISIONING"
        /\ rows[s] \in {"TERMINATED", "deleted"} => to = "deleted"
  BY ApiEffect, Zenon
<1>2. /\ asked' \in 0 .. MaxRequests
      /\ UNCHANGED <<status, stream, gw, out, up, used, conn, sat, alive, prio, begun, spilled, restarts>>
  BY ApiEffect, Zenon DEF daemon
<1>3. /\ rows' \in [Sessions -> States \cup {"none", "deleted"}] /\ ended' \in [Sessions -> 0 .. used]
      /\ rows'[s] = to /\ \A t \in Sessions : t # s => rows'[t] = rows[t]
      /\ OldEnds
  BY <1>1, <1>2, RowSet
<1>4. /\ req' \in [Clients -> Optional(Requests)]
      /\ \A d \in Clients, t \in Sessions : Begins(req'[d], t) =>
           Begins(req[d], t) \/ (t = s /\ d = c /\ rows[s] = "none")
  <2>1. CASE req' = req
    BY <2>1, Zenon DEF TypeOK
  <2>2. ASSUME NEW o \in Optional(Requests), req' = [req EXCEPT ![c] = o],
               \A t \in Sessions : Begins(o, t) => t = s /\ rows[s] = "none"
        PROVE  /\ req' \in [Clients -> Optional(Requests)]
               /\ \A d \in Clients, t \in Sessions : Begins(req'[d], t) =>
                    Begins(req[d], t) \/ (t = s /\ d = c /\ rows[s] = "none")
    BY <2>2, Zenon DEF TypeOK
  <2> QED BY <2>1, <2>2, ApiEffect, Zenon
<1>5. TypeOK'
  BY <1>2, <1>3, <1>4, Zenon DEF TypeOK
<1>6. ConnsInv'
  BY <1>2, Zenon DEF ConnsInv
<1>7. StartsInv'
  <2>1. CASE rows[s] # "none"
    <3>1. \A t \in Sessions : rows'[t] = "none" => rows[t] = "none"
      BY <1>3, <2>1, <1>1 DEF States
    <3>2. \A t \in Sessions : Unheard(t) => Unheard(t)'
      BY <1>2, Zenon DEF Unheard, Reaches
    <3> QED BY <1>2, <1>4, <2>1, <3>1, <3>2, StartsKept, Zenon
  <2>2. CASE rows[s] = "none"
    <3> SUFFICES ASSUME NEW t \in Sessions
                 PROVE  /\ rows'[t] = "none" => ~Starting(t)'
                        /\ rows'[t] = "none" \/ Starting(t)' => sat'[t] = "none" /\ t \notin alive' /\ Unheard(t)'
                        /\ \A b, d \in Clients : Begins(req'[b], t) /\ Begins(req'[d], t) => b = d
                        /\ \A d \in Clients, g \in Conns : Begins(req'[d], t) => ~Begins(out'[g], t)
                        /\ \A g, h \in Conns : Begins(out'[g], t) /\ Begins(out'[h], t) => g = h
                        /\ \A g \in Conns : OnceIn(out'[g], Cmd("start", t))
      BY Zenon DEF StartsInv, Begins
    <3>1. /\ rows[t] = "none" => ~Starting(t)
          /\ rows[t] = "none" \/ Starting(t) => sat[t] = "none" /\ t \notin alive /\ Unheard(t)
          /\ \A b, d \in Clients : Begins(req[b], t) /\ Begins(req[d], t) => b = d
          /\ \A d \in Clients, g \in Conns : Begins(req[d], t) => ~Begins(out[g], t)
          /\ \A g, h \in Conns : Begins(out[g], t) /\ Begins(out[h], t) => g = h
          /\ \A g \in Conns : OnceIn(out[g], Cmd("start", t))
      BY Zenon DEF StartsInv, Begins
    <3>2. Unheard(t)' <=> Unheard(t)
      BY <1>2, Zenon DEF Unheard, Reaches
    <3>3. Starting(t) <=> (\E d \in Clients : Begins(req[d], t)) \/ (\E g \in Conns : Begins(out[g], t))
      BY Zenon DEF Starting, Begins
    <3>4. Starting(t)' <=> (\E d \in Clients : Begins(req'[d], t)) \/ (\E g \in Conns : Begins(out[g], t))
      BY <1>2, Zenon DEF Starting, Begins
    <3> HIDE DEF ControlInv
    <3>5. CASE t # s
      BY <1>2, <1>3, <1>4, <3>1, <3>2, <3>3, <3>4, <3>5, Zenon
    <3>6. CASE t = s
      BY <1>1, <1>2, <1>3, <1>4, <2>2, <3>1, <3>2, <3>3, <3>4, <3>6, Zenon
    <3> QED BY <3>5, <3>6, Zenon
  <2> QED BY <2>1, <2>2
<1>8. EntriesInv'
  BY <1>2, Zenon DEF EntriesInv, Reaches
<1>9. EndsInv'
  <2>1. \A t \in Sessions : (Final(t) => Final(t)') /\ (Told(t) <=> Told(t)') /\ (Reviving(t) <=> Reviving(t)')
    BY <1>1, <1>2, <1>3, Zenon DEF Final, Told, Reviving
  <2> QED BY <1>2, <2>1, EndsKept, Zenon
<1>10. ListsInv'
  <2>1. \A g \in Conns : g > used => gw[g].pc # "listed"
    BY Made, Zenon DEF ConnsInv
  <2> QED BY <1>2, <1>3, <2>1, ListsKept, Zenon
<1>11. OrphansInv'
  <2>1. ListComing => ListComing'
    BY <1>2, Zenon DEF ListComing
  <2> QED BY <1>2, <1>3, <2>1, OrphansKept, Zenon
<1> QED BY <1>5, <1>6, <1>7, <1>8, <1>9, <1>10, <1>11

(* A command is queued on the outbound channel of connection g. *)
LEMMA Queued ==
  ASSUME TypeOK, NEW g \in Conns, NEW m \in Commands, out' = [out EXCEPT ![g] = Enqueue(@, m, OutCap)]
  PROVE  /\ out' \in [Conns -> Seq(Commands)] /\ \A h \in Conns : Len(out'[h]) <= OutCap
         /\ \A h \in Conns : h # g => out'[h] = out[h]
         /\ Range(out[g]) \subseteq Range(out'[g]) /\ Range(out'[g]) \subseteq Range(out[g]) \cup {m}
         /\ Len(out[g]) < OutCap => m \in Range(out'[g])
         /\ \A y : OnceIn(out[g], y) /\ (m = y => y \notin Range(out[g])) => OnceIn(out'[g], y)
<1>1. /\ out[g] \in Seq(Commands) /\ Len(out[g]) <= OutCap /\ OutCap \in Nat /\ Len(out[g]) \in Nat
      /\ out'[g] = Enqueue(out[g], m, OutCap) /\ \A h \in Conns : h # g => out'[h] = out[h]
  BY CapsAssumption DEF TypeOK
<1>2. CASE Len(out[g]) < OutCap
  <2>1. out'[g] = Append(out[g], m)
    BY <1>1, <1>2 DEF Enqueue
  <2>2. out' \in [Conns -> Seq(Commands)]
    BY <1>1, <1>2, Appended, Zenon DEF TypeOK, Enqueue
  <2>3. \A h \in Conns : Len(out'[h]) <= OutCap
    BY <1>1, <1>2, <2>1, Appended DEF TypeOK
  <2> QED BY <1>1, <1>2, <2>1, <2>2, <2>3, Appended
<1>3. CASE ~(Len(out[g]) < OutCap)
  <2>1. out' = out
    BY <1>1, <1>3, Zenon DEF Enqueue, TypeOK
  <2> QED BY <1>1, <1>3, <2>1, Zenon DEF TypeOK
<1> QED BY <1>2, <1>3, Zenon

(* SendToSatellite queues a command on the registered connection, or drops *)
(* it: a start command moves, it is not copied.                            *)
LEMMA DispatchKeeps ==
  ASSUME ControlInv, NEW c \in Clients, Dispatch(c)
  PROVE  ControlInv'
<1> USE DEF ControlInv
<1> DEFINE m == Head(req[c])
<1>1. /\ req' = [req EXCEPT ![c] = <<>>] /\ req[c] # <<>>
      /\ UNCHANGED <<rows, asked, status, stream, gw, ended, up, used, conn, sat, alive, prio, begun, spilled, restarts>>
  BY Zenon DEF Dispatch, daemon
<1>2. /\ m \in Requests /\ m \in Commands /\ m.cmd # "reconcile" /\ Range(req[c]) = {m}
      /\ req' \in [Clients -> Optional(Requests)]
      /\ \A d \in Clients : d # c => req'[d] = req[d]
      /\ Range(req'[c]) = {}
  BY <1>1, Options, ShortQueues, Forms, Zenon DEF TypeOK
<1> HIDE DEF m
<1>3. /\ out' \in [Conns -> Seq(Commands)] /\ \A h \in Conns : Len(out'[h]) <= OutCap
      /\ \A h \in Conns : h # stream => out'[h] = out[h]
      /\ \A h \in Conns : Range(out[h]) \subseteq Range(out'[h]) /\ Range(out'[h]) \subseteq Range(out[h]) \cup {m}
      /\ \A h \in Conns : \A y : OnceIn(out[h], y) /\ (m = y => y \notin Range(out[h])) => OnceIn(out'[h], y)
  <2>1. CASE stream = None
    BY <2>1, Zenon DEF Dispatch, TypeOK
  <2>2. CASE stream # None
    <3>1. stream \in Conns /\ out' = [out EXCEPT ![stream] = Enqueue(@, m, OutCap)]
      BY <2>2, Zenon DEF Dispatch, TypeOK, m
    <3> QED BY <1>2, <3>1, Queued, ZenonT(40)
  <2> QED BY <2>1, <2>2, Zenon
<1>4. TypeOK'
  BY <1>1, <1>2, <1>3, Zenon DEF TypeOK
<1>5. ConnsInv'
  <2>1. \A h \in Conns : h > used => h # stream
    BY CapsAssumption, SMTT(30) DEF ConnsInv, TypeOK, Conns, None
  <2> QED BY <1>1, <1>3, <2>1, Zenon DEF ConnsInv
<1>6. StartsInv'
  <2> SUFFICES ASSUME NEW t \in Sessions
               PROVE  /\ rows'[t] = "none" => ~Starting(t)'
                      /\ rows'[t] = "none" \/ Starting(t)' => sat'[t] = "none" /\ t \notin alive' /\ Unheard(t)'
                      /\ \A b, d \in Clients : Begins(req'[b], t) /\ Begins(req'[d], t) => b = d
                      /\ \A d \in Clients, g \in Conns : Begins(req'[d], t) => ~Begins(out'[g], t)
                      /\ \A g, h \in Conns : Begins(out'[g], t) /\ Begins(out'[h], t) => g = h
                      /\ \A g \in Conns : OnceIn(out'[g], Cmd("start", t))
    BY Zenon DEF StartsInv, Begins
  <2>1. /\ rows[t] = "none" => ~Starting(t)
        /\ rows[t] = "none" \/ Starting(t) => sat[t] = "none" /\ t \notin alive /\ Unheard(t)
        /\ \A b, d \in Clients : Begins(req[b], t) /\ Begins(req[d], t) => b = d
        /\ \A d \in Clients, g \in Conns : Begins(req[d], t) => ~Begins(out[g], t)
        /\ \A g, h \in Conns : Begins(out[g], t) /\ Begins(out[h], t) => g = h
        /\ \A g \in Conns : OnceIn(out[g], Cmd("start", t))
    BY Zenon DEF StartsInv, Begins
  <2>2. Unheard(t)' <=> Unheard(t)
    BY <1>1, Zenon DEF Unheard, Reaches
  <2>3. /\ \A d \in Clients : Begins(req'[d], t) => Begins(req[d], t) /\ d # c
        /\ \A g \in Conns : Begins(out'[g], t) => Begins(out[g], t) \/ (g = stream /\ m = Cmd("start", t))
        /\ m = Cmd("start", t) => Begins(req[c], t)
        /\ \A g \in Conns : m = Cmd("start", t) => Cmd("start", t) \notin Range(out[g])
    <3> HIDE DEF ControlInv
    <3>1. \A d \in Clients : Begins(req'[d], t) => Begins(req[d], t) /\ d # c
      BY <1>2 DEF Begins
    <3>2. \A g \in Conns : Begins(out'[g], t) => Begins(out[g], t) \/ (g = stream /\ m = Cmd("start", t))
      BY <1>3, Zenon DEF Begins
    <3>3. m = Cmd("start", t) => Begins(req[c], t)
      BY <1>2 DEF Begins
    <3> QED BY <2>1, <3>1, <3>2, <3>3, Zenon DEF Begins
  <2>4. Starting(t)' => Starting(t)
    BY <2>3, Zenon DEF Starting, Begins
  <2>5. \A g \in Conns : OnceIn(out'[g], Cmd("start", t))
    BY <1>3, <2>1, <2>3, Zenon
  <2> HIDE DEF ControlInv
  <2> QED BY <1>1, <2>1, <2>2, <2>3, <2>4, <2>5, Zenon
<1>7. EntriesInv'
  BY <1>1, Zenon DEF EntriesInv, Reaches
<1>8. EndsInv'
  BY <1>1, Zenon DEF EndsInv, Final, Told, Reviving
<1>9. OldEnds
  BY <1>1, Zenon DEF OldEnds
<1>10. ListsInv'
  <2>1. \A g \in Conns : g > used => gw[g].pc # "listed"
    BY Made, Zenon DEF ConnsInv
  <2> QED BY <1>1, <1>2, <1>3, <1>9, <2>1, ListsKept, Zenon
<1>11. OrphansInv'
  <2>1. conn # None /\ ListComing => ListComing'
    BY <1>1, <1>3, Zenon DEF ListComing, TypeOK
  <2> QED BY <1>1, <1>9, <2>1, OrphansKept, Zenon
<1> QED BY <1>4, <1>5, <1>6, <1>7, <1>8, <1>10, <1>11
-----------------------------------------------------------------------------
(* The gateway handlers. *)

(* A message is taken from connection g. *)
LEMMA Received ==
  ASSUME TypeOK, NEW g \in Conns, up[g] # <<>>, up' = [up EXCEPT ![g] = Tail(@)]
  PROVE  /\ Head(up[g]) \in Updates \cup {Register}
         /\ up' \in [Conns -> Seq(Updates \cup {Register})] /\ \A h \in Conns : Len(up'[h]) <= NetCap
         /\ Range(up[g]) = {Head(up[g])} \cup Range(up'[g])
         /\ \A h \in Conns : h # g => up'[h] = up[h]
<1> DEFINE M == Updates \cup {Register}
<1>1. /\ up[g] \in Seq(M) /\ Len(up[g]) <= NetCap /\ NetCap \in Nat
      /\ up'[g] = Tail(up[g]) /\ \A h \in Conns : h # g => up'[h] = up[h]
  BY CapsAssumption, Zenon DEF TypeOK
<1> HIDE DEF M
<1>2. /\ Head(up[g]) \in M /\ up'[g] \in Seq(M) /\ Len(up'[g]) = Len(up[g]) - 1 /\ Len(up[g]) \in Nat
      /\ Range(up[g]) = {Head(up[g])} \cup Range(up'[g])
  <2>1. \A q \in Seq(M) : q # <<>> =>
          /\ Head(q) \in M /\ Tail(q) \in Seq(M) /\ Len(Tail(q)) = Len(q) - 1 /\ Len(q) \in Nat
          /\ Range(q) = {Head(q)} \cup Range(Tail(q))
    BY Taken, Zenon
  <2> QED BY <1>1, <2>1, Zenon
<1>3. up' \in [Conns -> Seq(M)]
  BY <1>1, <1>2, Zenon DEF TypeOK, M
<1>4. \A h \in Conns : Len(up'[h]) <= NetCap
  BY <1>1, <1>2 DEF TypeOK
<1> QED BY <1>1, <1>2, <1>3, <1>4, Zenon DEF M

(* A handler with nothing to apply goes on, and nothing but a registration *)
(* is taken from its connection.                                           *)
HandlerOnly(g) ==
  /\ UNCHANGED <<rows, asked, req, ended, out, used, conn, sat, alive, prio, begun, spilled, restarts>>
  /\ gw[g].upd = <<>> /\ gw[g].pc # "unused"
  /\ \E h \in Handlers : gw' = [gw EXCEPT ![g] = h] /\ h.upd = <<>> /\ h.pc # "apply"
  /\ status' \in BOOLEAN
  /\ \/ up' = up
     \/ up[g] # <<>> /\ Head(up[g]) = Register /\ up' = [up EXCEPT ![g] = Tail(@)]

(* A handler that only changes its own position leaves alone what is on its *)
(* way, except for the registration that it takes.                          *)
LEMMA HandlerOnlyKeeps ==
  ASSUME TypeOK, ConnsInv, StartsInv, EntriesInv, EndsInv, NEW g \in Conns, HandlerOnly(g)
  PROVE  /\ g <= used
         /\ gw' \in [Conns -> Handlers]
         /\ up' \in [Conns -> Seq(Updates \cup {Register})] /\ \A h \in Conns : Len(up'[h]) <= NetCap
         /\ \A h \in Conns : h > used => up'[h] = <<>>
         /\ \A h \in Conns : gw'[h].pc = "apply" <=> gw'[h].upd # <<>>
         /\ StartsInv' /\ EntriesInv' /\ EndsInv' /\ OldEnds
<1>1. PICK h \in Handlers : gw' = [gw EXCEPT ![g] = h] /\ h.upd = <<>> /\ h.pc # "apply"
  BY Zenon DEF HandlerOnly
<1>2. /\ UNCHANGED <<rows, asked, req, ended, out, used, conn, sat, alive, prio, begun, spilled, restarts>>
      /\ gw[g].upd = <<>> /\ gw[g].pc # "unused"
  BY Zenon DEF HandlerOnly
<1>3. /\ gw' \in [Conns -> Handlers]
      /\ \A k \in Conns : gw'[k].upd = gw[k].upd /\ (k # g => gw'[k] = gw[k])
      /\ gw'[g] = h
  BY <1>1, <1>2, Zenon DEF TypeOK
<1>4. g <= used
  <2>1. Handler("unused", FALSE).pc = "unused"
    BY Made, Zenon
  <2>2. ~(g > used)
    BY <1>2, <2>1, Zenon DEF ConnsInv
  <2>3. g \in Int /\ used \in Int
    BY CapsAssumption DEF TypeOK, Conns
  <2> QED BY <2>2, <2>3
<1>5. /\ up' \in [Conns -> Seq(Updates \cup {Register})] /\ \A k \in Conns : Len(up'[k]) <= NetCap
      /\ \A k \in Conns : k # g => up'[k] = up[k]
      /\ Range(up[g]) = Range(up'[g]) \/ Range(up[g]) = {Register} \cup Range(up'[g])
  <2>1. CASE up' = up
    BY <2>1, Zenon DEF TypeOK
  <2>2. CASE up[g] # <<>> /\ Head(up[g]) = Register /\ up' = [up EXCEPT ![g] = Tail(@)]
    BY <2>2, Received, Zenon
  <2> QED BY <2>1, <2>2, Zenon DEF HandlerOnly
<1>6. \A k \in Conns : k > used => up'[k] = <<>>
  <2>1. \A k \in Conns : k > used => k # g
    BY <1>4, CapsAssumption DEF TypeOK, Conns
  <2> QED BY <1>5, <2>1, Zenon DEF ConnsInv
<1>7. \A k \in Conns, s \in Sessions : Reaches(k, s)' <=> Reaches(k, s)
  <2> SUFFICES ASSUME NEW k \in Conns, NEW s \in Sessions PROVE Reaches(k, s)' <=> Reaches(k, s)
    OBVIOUS
  <2>1. ~About(Register, s)
    BY Forms, Zenon
  <2>2. Range(up[k]) = Range(up'[k]) \/ Range(up[k]) = {Register} \cup Range(up'[k])
    BY <1>5, Zenon
  <2>3. Range(gw'[k].upd) = Range(gw[k].upd)
    BY <1>3, Zenon
  <2> HIDE DEF Conns
  <2> QED BY <2>1, <2>2, <2>3, Zenon DEF Reaches
<1>8. \A s \in Sessions : Unheard(s) => Unheard(s)'
  BY <1>2, <1>7, Zenon DEF Unheard
<1>9. StartsInv'
  BY <1>2, <1>8, StartsKept, Zenon
<1>10. EntriesInv'
  BY <1>2, <1>7, Zenon DEF EntriesInv
<1>11. EndsInv'
  <2>1. ASSUME NEW s \in Sessions, conn # None
        PROVE  (Final(s) => Final(s)') /\ (Told(s) => Told(s)') /\ (Reviving(s) <=> Reviving(s)')
    <3>1. conn \in Conns /\ Update(s, "TERMINATED") # Register
      BY <2>1, Made, Forms, ZenonT(40) DEF TypeOK
    <3> QED BY <1>2, <1>3, <1>5, <3>1, Zenon DEF Final, Told, Reviving
  <2> QED BY <1>2, <2>1, EndsKept, Zenon
<1>12. \A k \in Conns : gw'[k].pc = "apply" <=> gw'[k].upd # <<>>
  BY <1>1, <1>3, Zenon DEF ConnsInv
<1> QED BY <1>2, <1>3, <1>4, <1>5, <1>6, <1>9, <1>10, <1>11, <1>12, Zenon DEF OldEnds

(* Such a step keeps ControlInv, when the registry still names a registered *)
(* handler and the list is not lost.                                        *)
LEMMA HandlerStepKeeps ==
  ASSUME ControlInv, NEW g \in Conns, HandlerOnly(g),
         stream' \in Conns \cup {None}, stream' # None => stream' <= used /\ gw'[stream'].reg,
         conn = g => gw'[g].pc \in {"recv", "marked", "registered", "listed", "apply"},
         gw'[g].pc = "listed" => \A s \in Sessions : rows[s] = "TERMINATED" => s \notin gw'[g].active,
         gw'[g].pc \in {"marked", "registered", "listed"} => gw'[g].reg,
         conn = g /\ ListComing => ListComing'
  PROVE  ControlInv'
<1> USE DEF ControlInv
<1>1. /\ g <= used
      /\ gw' \in [Conns -> Handlers]
      /\ up' \in [Conns -> Seq(Updates \cup {Register})] /\ \A h \in Conns : Len(up'[h]) <= NetCap
      /\ \A h \in Conns : h > used => up'[h] = <<>>
      /\ \A h \in Conns : gw'[h].pc = "apply" <=> gw'[h].upd # <<>>
      /\ StartsInv' /\ EntriesInv' /\ EndsInv' /\ OldEnds
  BY HandlerOnlyKeeps, Zenon
<1>2. /\ UNCHANGED <<rows, asked, req, ended, out, used, conn, sat, alive, prio, begun, spilled, restarts>>
      /\ status' \in BOOLEAN
      /\ \A h \in Conns : h # g => gw'[h] = gw[h]
  BY Zenon DEF HandlerOnly, TypeOK
<1>3. TypeOK'
  BY <1>1, <1>2, Zenon DEF TypeOK
<1>4. ConnsInv'
  <2>1. \A h \in Conns : h > used => h # g
    BY <1>1, CapsAssumption DEF TypeOK, Conns
  <2>2. conn # None => conn \in Conns
    BY Zenon DEF TypeOK
  <2> QED BY <1>1, <1>2, <2>1, <2>2, Zenon DEF ConnsInv
<1>5. ListsInv'
  <2> SUFFICES ASSUME NEW s \in Sessions, NEW h \in Conns, rows[s] = "TERMINATED", ended[s] < h
               PROVE  /\ gw'[h].pc = "listed" => s \notin gw'[h].active
                      /\ \A m \in Range(out[h]) : m.cmd = "reconcile" => s \notin m.active
    BY <1>2, Zenon DEF ListsInv
  <2> QED BY <1>2, Zenon DEF ListsInv
<1>6. OrphansInv'
  <2>1. conn # g /\ conn # None /\ ListComing => ListComing'
    BY <1>2, Zenon DEF ListComing, TypeOK
  <2> QED BY <1>1, <1>2, <2>1, OrphansKept, Zenon
<1> QED BY <1>1, <1>3, <1>4, <1>5, <1>6, Zenon

(* Registration of a connection: marked active, registered, sessions listed; *)
(* and heartbeats.                                                           *)
LEMMA RegistrationKeeps ==
  ASSUME ControlInv, NEW g \in Conns,
         RegisterRequest(g) \/ RegisterSatelliteStream(g) \/ ListActiveSessions(g) \/ HeartbeatPing(g)
  PROVE  ControlInv'
<1>0. /\ TypeOK /\ ConnsInv /\ gw[g] \in Handlers /\ gw[g].upd \in Optional(Updates)
      /\ stream \in Conns \cup {None} /\ status \in BOOLEAN
      /\ gw[g].pc # "apply" => gw[g].upd = <<>>
      /\ gw[g].pc \in {"marked", "registered", "listed"} => gw[g].reg
      /\ up[g] # <<>> => Head(up[g]) \in Updates \cup {Register}
      /\ g <= used \/ gw[g].pc = "unused"
  <2>1. TypeOK /\ ConnsInv
    BY DEF ControlInv
  <2>2. gw[g] \in Handlers /\ stream \in Conns \cup {None} /\ status \in BOOLEAN
    BY <2>1, Zenon DEF TypeOK
  <2>3. gw[g].upd \in Optional(Updates)
    BY <2>2, Zenon DEF Handlers
  <2>4. up[g] # <<>> => Head(up[g]) \in Updates \cup {Register}
    <3> DEFINE M == Updates \cup {Register}
    <3>1. up[g] \in Seq(M)
      BY <2>1, Zenon DEF TypeOK
    <3> HIDE DEF M
    <3>2. up[g] # <<>> => Head(up[g]) \in M
      BY <3>1
    <3> QED BY <3>2, Zenon DEF M
  <2>5. /\ gw[g].pc # "apply" => gw[g].upd = <<>>
        /\ gw[g].pc \in {"marked", "registered", "listed"} => gw[g].reg
    BY <2>1, Zenon DEF ConnsInv
  <2>6. g <= used \/ gw[g].pc = "unused"
    <3>1. Handler("unused", FALSE).pc = "unused"
      BY Made, Zenon
    <3>2. g > used => gw[g].pc = "unused"
      BY <2>1, <3>1, Zenon DEF ConnsInv
    <3>3. g \in Int /\ used \in Int
      BY <2>1, Counted, SMTT(30)
    <3> QED BY <3>2, <3>3
  <2> QED BY <2>1, <2>2, <2>3, <2>4, <2>5, <2>6, Zenon
<1>1. CASE RegisterRequest(g)
  <2>1. /\ UNCHANGED <<rows, asked, req, stream, ended, out, used, conn, sat, alive, prio, begun, spilled, restarts>>
        /\ status' = TRUE /\ gw' = [gw EXCEPT ![g] = Handler("marked", TRUE)]
        /\ up' = [up EXCEPT ![g] = Tail(@)] /\ up[g] # <<>> /\ Head(up[g]).msg = "register" /\ gw[g].pc = "recv"
    BY <1>1, Zenon DEF RegisterRequest, Receives, daemon
  <2>2. Head(up[g]) = Register
    BY <1>0, <2>1, Forms, Zenon
  <2>3. /\ Handler("marked", TRUE) \in Handlers /\ Handler("marked", TRUE).pc = "marked"
        /\ Handler("marked", TRUE).reg = TRUE /\ Handler("marked", TRUE).upd = <<>>
    BY Made, Zenon
  <2>4. HandlerOnly(g)
    BY <1>0, <2>1, <2>2, <2>3, Zenon DEF HandlerOnly
  <2>5. gw'[g].pc = "marked" /\ gw'[g].reg /\ \A h \in Conns : h # g => gw'[h] = gw[h]
    BY <1>0, <2>1, <2>3, Zenon DEF TypeOK
  <2>6. stream' # None => stream' <= used /\ gw'[stream'].reg
    BY <1>0, <2>1, <2>5, Zenon DEF ConnsInv
  <2>7. conn = g => ListComing'
    BY <2>1, <2>5, Zenon DEF ListComing
  <2> QED BY <1>0, <2>1, <2>4, <2>5, <2>6, <2>7, HandlerStepKeeps, Zenon
<1>2. CASE RegisterSatelliteStream(g)
  <2>1. /\ UNCHANGED <<rows, asked, req, status, ended, out, up, used, conn, sat, alive, prio, begun, spilled, restarts>>
        /\ gw[g].pc = "marked" /\ stream' = g /\ gw' = [gw EXCEPT ![g] = [gw[g] EXCEPT !.pc = "registered"]]
    BY <1>2 DEF RegisterSatelliteStream, daemon
  <2>2. /\ [gw[g] EXCEPT !.pc = "registered"] \in Handlers /\ [gw[g] EXCEPT !.pc = "registered"].upd = <<>>
        /\ [gw[g] EXCEPT !.pc = "registered"].pc = "registered"
        /\ [gw[g] EXCEPT !.pc = "registered"].reg = gw[g].reg
    BY <1>0, <2>1 DEF Handlers
  <2>3. HandlerOnly(g)
    BY <1>0, <2>1, <2>2, Zenon DEF HandlerOnly
  <2>4. gw'[g].pc = "registered" /\ gw'[g].reg = gw[g].reg
    BY <1>0, <2>1, <2>2, Zenon DEF TypeOK
  <2>5. conn = g => ListComing'
    BY <2>1, <2>4 DEF ListComing
  <2> QED BY <1>0, <2>1, <2>3, <2>4, <2>5, HandlerStepKeeps, Zenon
<1>3. CASE ListActiveSessions(g)
  <2> DEFINE a == {s \in Sessions : Stored(s) /\ rows[s] # "TERMINATED"}
             h == [gw[g] EXCEPT !.pc = "listed", !.active = a]
  <2>1. /\ UNCHANGED <<rows, asked, req, status, stream, ended, out, up, used, conn, sat, alive, prio, begun, spilled, restarts>>
        /\ gw[g].pc = "registered" /\ gw' = [gw EXCEPT ![g] = h]
    BY <1>0, <1>3, Zenon DEF ListActiveSessions, daemon, TypeOK
  <2>2. a \subseteq Sessions /\ \A s \in Sessions : rows[s] = "TERMINATED" => s \notin a
    BY Zenon
  <2> HIDE DEF a
  <2>3. h \in Handlers /\ h.upd = <<>> /\ h.pc = "listed" /\ h.reg = gw[g].reg /\ h.active = a
    BY <1>0, <2>1, <2>2, Zenon DEF Handlers
  <2> HIDE DEF h
  <2>4. HandlerOnly(g)
    BY <1>0, <2>1, <2>3, Zenon DEF HandlerOnly
  <2>5. gw'[g] = h /\ \A k \in Conns : k # g => gw'[k] = gw[k]
    BY <1>0, <2>1, Zenon DEF TypeOK
  <2>6. stream' # None => stream' <= used /\ gw'[stream'].reg
    BY <1>0, <2>1, <2>3, <2>5, Zenon DEF ConnsInv
  <2>7. conn = g => ListComing'
    BY <2>1, <2>3, <2>5, Zenon DEF ListComing
  <2> QED BY <1>0, <2>1, <2>2, <2>3, <2>4, <2>5, <2>6, <2>7, HandlerStepKeeps, Zenon
<1>4. CASE HeartbeatPing(g)
  <2>1. /\ UNCHANGED <<rows, asked, req, stream, gw, ended, out, up, used, conn, sat, alive, prio, begun, spilled, restarts>>
        /\ gw[g].pc = "recv" /\ status' = TRUE /\ conn = g
    BY <1>4, Zenon DEF HeartbeatPing, daemon
  <2>2. gw' = [gw EXCEPT ![g] = gw[g]]
    BY <1>0, <2>1, Zenon DEF TypeOK
  <2>3. HandlerOnly(g)
    BY <1>0, <2>1, <2>2, Zenon DEF HandlerOnly
  <2>4. ListComing => ListComing'
    BY <2>1, Zenon DEF ListComing
  <2> QED BY <1>0, <2>1, <2>3, <2>4, HandlerStepKeeps, Zenon DEF ConnsInv
<1> QED BY <1>1, <1>2, <1>3, <1>4

(* The deferred clean-up of a handler whose connection is gone. *)
LEMMA CleanUpKeeps ==
  ASSUME ControlInv, NEW g \in Conns, RecvFails(g) \/ SetOffline(g)
  PROVE  ControlInv'
<1>0. /\ TypeOK /\ ConnsInv /\ gw[g] \in Handlers /\ gw[g].upd \in Optional(Updates) /\ gw[g].reg \in BOOLEAN
      /\ stream \in Conns \cup {None} /\ status \in BOOLEAN
      /\ gw[g].pc # "apply" => gw[g].upd = <<>>
  <2>1. TypeOK /\ ConnsInv
    BY DEF ControlInv
  <2>2. gw[g] \in Handlers /\ stream \in Conns \cup {None} /\ status \in BOOLEAN
    BY <2>1, Zenon DEF TypeOK
  <2>3. gw[g].upd \in Optional(Updates) /\ gw[g].reg \in BOOLEAN
    BY <2>2, Zenon DEF Handlers
  <2> QED BY <2>1, <2>2, <2>3, Zenon DEF ConnsInv
<1>1. CASE RecvFails(g)
  <2> DEFINE pc == IF gw[g].reg THEN "removed" ELSE "done"
             h == Handler(pc, FALSE)
  <2>1. /\ UNCHANGED <<rows, asked, req, status, ended, out, up, used, conn, sat, alive, prio, begun, spilled, restarts>>
        /\ gw[g].pc = "recv" /\ conn # g /\ gw' = [gw EXCEPT ![g] = h]
        /\ stream' = IF gw[g].reg THEN None ELSE stream
    BY <1>1, Zenon DEF RecvFails, daemon
  <2>2. h \in Handlers /\ h.upd = <<>> /\ h.pc \in {"removed", "done"}
    BY Made, Zenon
  <2> HIDE DEF h
  <2>3. HandlerOnly(g)
    BY <1>0, <2>1, <2>2, Zenon DEF HandlerOnly
  <2>4. gw'[g] = h /\ \A k \in Conns : k # g => gw'[k] = gw[k]
    BY <1>0, <2>1, Zenon DEF TypeOK
  <2>5. stream' # None => stream' <= used /\ gw'[stream'].reg
    BY <1>0, <2>1, <2>4, Zenon DEF ConnsInv
  <2> QED BY <1>0, <2>1, <2>2, <2>3, <2>4, <2>5, HandlerStepKeeps, Zenon
<1>2. CASE SetOffline(g)
  <2> DEFINE h == [gw[g] EXCEPT !.pc = "done"]
  <2>1. /\ UNCHANGED <<rows, asked, req, stream, ended, out, up, used, conn, sat, alive, prio, begun, spilled, restarts>>
        /\ gw[g].pc = "removed" /\ gw' = [gw EXCEPT ![g] = h] /\ status' = FALSE
    BY <1>2 DEF SetOffline, daemon
  <2>2. h \in Handlers /\ h.upd = <<>> /\ h.pc = "done" /\ h.reg = gw[g].reg
    BY <1>0, <2>1 DEF Handlers
  <2> HIDE DEF h
  <2>3. HandlerOnly(g)
    BY <1>0, <2>1, <2>2, Zenon DEF HandlerOnly
  <2>4. gw'[g] = h /\ \A k \in Conns : k # g => gw'[k] = gw[k]
    BY <1>0, <2>1, Zenon DEF TypeOK
  <2>5. stream' # None => stream' <= used /\ gw'[stream'].reg
    BY <1>0, <2>1, <2>2, <2>4, Zenon DEF ConnsInv
  <2>6. conn # g
    BY <1>0, <2>1 DEF ConnsInv, TypeOK, Conns, None
  <2> QED BY <1>0, <2>1, <2>2, <2>3, <2>4, <2>5, <2>6, HandlerStepKeeps, Zenon
<1> QED BY <1>1, <1>2

(* The handler of a connection that was not opened is "unused". *)
LEMMA Opened ==
  ASSUME TypeOK, ConnsInv, NEW g \in Conns
  PROVE  /\ gw[g] \in Handlers /\ gw[g].active \subseteq Sessions
         /\ gw[g].upd \in Optional(Updates) /\ gw[g].reg \in BOOLEAN
         /\ gw[g].pc # "unused" => g <= used
         /\ gw[g].pc # "apply" => gw[g].upd = <<>>
         /\ g > used => gw[g].pc # "listed"
<1>1. gw[g] \in Handlers
  BY Zenon DEF TypeOK
<1>2. gw[g].active \subseteq Sessions /\ gw[g].upd \in Optional(Updates) /\ gw[g].reg \in BOOLEAN
  BY <1>1, Zenon DEF Handlers
<1>3. Handler("unused", FALSE).pc = "unused"
  BY Made, Zenon
<1>4. g > used => gw[g].pc = "unused"
  BY <1>3, Zenon DEF ConnsInv
<1>5. g \in Int /\ used \in Int
  BY Counted
<1>6. gw[g].pc # "apply" => gw[g].upd = <<>>
  BY Zenon DEF ConnsInv
<1> QED BY <1>1, <1>2, <1>4, <1>5, <1>6

(* The list of active sessions is queued, or the connection has spilled. *)
LEMMA SendReconciliationKeeps ==
  ASSUME ControlInv, NEW g \in Conns, SendReconciliation(g)
  PROVE  ControlInv'
<1> USE DEF ControlInv
<1> DEFINE m == [cmd |-> "reconcile", active |-> gw[g].active]
           h == Handler("recv", TRUE)
<1>1. /\ UNCHANGED <<rows, asked, req, status, stream, ended, up, used, conn, sat, alive, prio, begun, restarts>>
      /\ gw[g].pc = "listed" /\ gw' = [gw EXCEPT ![g] = h]
      /\ out' = [out EXCEPT ![g] = Enqueue(@, m, OutCap)]
      /\ spilled' = IF Len(out[g]) < OutCap THEN spilled ELSE spilled \cup {g}
  BY Zenon DEF SendReconciliation
<1>2. m \in Commands /\ g <= used /\ gw[g].upd = <<>>
  BY <1>1, Opened, Made, Zenon
<1>3. m.cmd = "reconcile" /\ m.active = gw[g].active
  BY Zenon
<1>4. h \in Handlers /\ h.pc = "recv" /\ h.reg = TRUE /\ h.upd = <<>>
  BY Made, Zenon
<1> HIDE DEF m, h
<1>5. /\ out' \in [Conns -> Seq(Commands)] /\ \A k \in Conns : Len(out'[k]) <= OutCap
      /\ \A k \in Conns : k # g => out'[k] = out[k]
      /\ Range(out[g]) \subseteq Range(out'[g]) /\ Range(out'[g]) \subseteq Range(out[g]) \cup {m}
      /\ Len(out[g]) < OutCap => m \in Range(out'[g])
      /\ \A y : OnceIn(out[g], y) /\ (m = y => y \notin Range(out[g])) => OnceIn(out'[g], y)
  BY <1>1, <1>2, Queued, Zenon
<1>6. gw' \in [Conns -> Handlers] /\ gw'[g] = h /\ \A k \in Conns : k # g => gw'[k] = gw[k]
  BY <1>1, <1>4, Zenon DEF TypeOK
<1>7. TypeOK'
  BY <1>1, <1>5, <1>6, Zenon DEF TypeOK
<1>8. ConnsInv'
  <2>1. \A k \in Conns : k > used => k # g
    BY <1>2, Counted
  <2> QED BY <1>1, <1>4, <1>5, <1>6, <2>1, ZenonT(40) DEF ConnsInv, TypeOK
<1>9. \A k \in Conns : gw'[k].upd = gw[k].upd
  BY <1>2, <1>4, <1>6, Zenon
<1>10. \A k \in Conns, s \in Sessions : Reaches(k, s)' <=> Reaches(k, s)
  BY <1>1, <1>9, Zenon DEF Reaches
<1>11. StartsInv'
  <2>1. \A s \in Sessions : Cmd("start", s) # m
    BY <1>3, Made, Zenon
  <2>2. \A s \in Sessions : Unheard(s) => Unheard(s)'
    BY <1>1, <1>10, Zenon DEF Unheard
  <2>3. \A s \in Sessions, k \in Conns : Begins(out'[k], s) => Begins(out[k], s)
    BY <1>5, <2>1 DEF Begins
  <2>4. \A s \in Sessions, k \in Conns : OnceIn(out[k], Cmd("start", s)) => OnceIn(out'[k], Cmd("start", s))
    BY <1>5, <2>1, Zenon
  <2> QED BY <1>1, <2>2, <2>3, <2>4, StartsKept, Zenon
<1>12. EntriesInv'
  BY <1>1, <1>10, Zenon DEF EntriesInv
<1>13. EndsInv'
  <2>1. \A s \in Sessions : conn # None => (Final(s) => Final(s)') /\ (Told(s) => Told(s)') /\ (Reviving(s) <=> Reviving(s)')
    BY <1>1, <1>9, Zenon DEF Final, Told, Reviving, TypeOK
  <2> QED BY <1>1, <2>1, EndsKept, Zenon
<1>14. ListsInv'
  <2> SUFFICES ASSUME NEW s \in Sessions, NEW k \in Conns, rows[s] = "TERMINATED", ended[s] < k
               PROVE  /\ gw'[k].pc = "listed" => s \notin gw'[k].active
                      /\ \A x \in Range(out'[k]) : x.cmd = "reconcile" => s \notin x.active
    BY <1>1, Zenon DEF ListsInv
  <2>1. /\ gw[k].pc = "listed" => s \notin gw[k].active
        /\ \A x \in Range(out[k]) : x.cmd = "reconcile" => s \notin x.active
    BY Zenon DEF ListsInv
  <2> HIDE DEF ControlInv
  <2>2. CASE k = g
    BY <1>1, <1>3, <1>4, <1>5, <1>6, <2>1, <2>2, ZenonT(40)
  <2>3. CASE k # g
    BY <1>5, <1>6, <2>1, <2>3, Zenon
  <2> QED BY <2>2, <2>3, Zenon
<1>15. OrphansInv'
  <2>1. conn # None /\ conn \notin spilled' /\ ListComing => ListComing'
    <3>1. CASE conn = g
      BY <1>1, <1>3, <1>5, <3>1, Zenon DEF ListComing
    <3>2. CASE conn # g
      BY <1>1, <1>5, <1>6, <3>2, Zenon DEF ListComing, TypeOK
    <3> QED BY <3>1, <3>2, Zenon
  <2>2. OldEnds
    BY <1>1, Zenon DEF OldEnds
  <2> QED BY <1>1, <2>1, <2>2, OrphansKept, Zenon
<1> QED BY <1>7, <1>8, <1>11, <1>12, <1>13, <1>14, <1>15, Zenon

(* Any stored state but TERMINATED may become TERMINATED, and TERMINATED   *)
(* becomes nothing else.                                                   *)
LEMMA TerminationValid ==
  ASSUME NEW from \in States, NEW to
  PROVE  /\ from # "TERMINATED" => IsTransitionValid(from, "TERMINATED")
         /\ ~IsTransitionValid("TERMINATED", to)
BY DEF IsTransitionValid, ValidTransitions, States

(* A session a connection has heard of has, or had, a row. *)
LEMMA HeardHasRow ==
  ASSUME StartsInv, NEW g \in Conns, NEW s \in Sessions, Reaches(g, s)
  PROVE  rows[s] # "none"
BY Zenon DEF StartsInv, Unheard

(* A report reaches its handler: one that is refused is of a session whose *)
(* row can take it no longer.                                              *)
LEMMA ReceiveStateUpdateKeeps ==
  ASSUME ControlInv, NEW g \in Conns, ReceiveStateUpdate(g)
  PROVE  ControlInv'
<1> USE DEF ControlInv
<1> DEFINE m == Head(up[g])
           ok == Stored(m.sid) /\ IsTransitionValid(rows[m.sid], m.to)
           h == [gw[g] EXCEPT !.pc = "apply", !.upd = <<m>>]
<1>1. /\ UNCHANGED <<rows, asked, req, status, stream, ended, out, used, conn, sat, alive, prio, begun, spilled, restarts>>
      /\ gw[g].pc = "recv" /\ up[g] # <<>> /\ m.msg = "state"
      /\ up' = [up EXCEPT ![g] = Tail(@)]
  BY Zenon DEF ReceiveStateUpdate, Receives, daemon
<1>2. gw' = IF ok THEN [gw EXCEPT ![g] = h] ELSE gw
  BY Zenon DEF ReceiveStateUpdate, TypeOK
<1>3. /\ m \in Updates \cup {Register}
      /\ up' \in [Conns -> Seq(Updates \cup {Register})] /\ \A k \in Conns : Len(up'[k]) <= NetCap
      /\ Range(up[g]) = {m} \cup Range(up'[g])
      /\ \A k \in Conns : k # g => up'[k] = up[k]
  BY <1>1, Received, Zenon
<1>4. m \in Updates
  BY <1>1, <1>3, Forms, Zenon
<1> HIDE DEF m
<1>5. m.sid \in Sessions /\ m = Update(m.sid, m.to) /\ About(m, m.sid) /\ \A s : About(m, s) => m.sid = s
  BY <1>4, Forms, Zenon
<1>6. gw[g] \in Handlers /\ gw[g].upd = <<>> /\ g <= used
  BY <1>1, Opened, Zenon
<1>7. h \in Handlers /\ h.pc = "apply" /\ h.upd = <<m>> /\ h.reg = gw[g].reg
  <2>1. <<m>> \in Optional(Updates)
    BY <1>4, Options, Zenon
  <2> QED BY <1>6, <2>1, Zenon DEF Handlers
<1> HIDE DEF ok, h
<1>8. Range(<<m>>) = {m} /\ Range(<<>>) = {} /\ <<m>> # <<>>
  BY ShortQueues
<1>9. /\ gw' \in [Conns -> Handlers] /\ \A k \in Conns : k # g => gw'[k] = gw[k]
      /\ ok => gw'[g] = h
      /\ ~ok => gw'[g] = gw[g]
  BY <1>2, <1>7, Zenon DEF TypeOK
<1>10. TypeOK'
  BY <1>1, <1>3, <1>9, Zenon DEF TypeOK
<1>11. gw'[g].pc \in {"recv", "apply"} /\ gw'[g].reg = gw[g].reg /\ (gw'[g].pc = "apply" <=> gw'[g].upd # <<>>)
  BY <1>1, <1>6, <1>7, <1>8, <1>9, Zenon
<1>12. ConnsInv'
  <2>1. \A k \in Conns : k > used => k # g
    BY <1>6, Counted
  <2>2. \A k \in Conns : k > used => gw'[k] = gw[k] /\ out'[k] = out[k] /\ up'[k] = up[k]
    BY <1>1, <1>3, <1>9, <2>1, Zenon
  <2>3. conn # None => gw'[conn].pc = gw[conn].pc \/ gw'[conn].pc \in {"recv", "apply"}
    BY <1>9, <1>11, Zenon DEF TypeOK
  <2>4. stream # None => gw'[stream].reg = gw[stream].reg
    BY <1>9, <1>11, Zenon DEF TypeOK
  <2>5. \A k \in Conns : gw'[k] = gw[k] \/
          /\ gw'[k].pc = "apply" <=> gw'[k].upd # <<>>
          /\ gw'[k].pc \notin {"marked", "registered", "listed"}
    BY <1>9, <1>11, Zenon
  <2>6. UNCHANGED <<stream, used, conn>>
    BY <1>1, Zenon
  <2>7. conn' # None => conn' = used' /\ gw'[conn'].pc \in {"recv", "marked", "registered", "listed", "apply"}
    BY <2>3, <2>6, Zenon DEF ConnsInv
  <2>8. stream' # None => stream' <= used' /\ gw'[stream'].reg
    BY <2>4, <2>6, Zenon DEF ConnsInv
  <2>9. \A k \in Conns : k > used' => gw'[k] = Handler("unused", FALSE) /\ out'[k] = <<>> /\ up'[k] = <<>>
    BY <2>2, <2>6, Zenon DEF ConnsInv
  <2>10. \A k \in Conns : /\ gw'[k].pc = "apply" <=> gw'[k].upd # <<>>
                          /\ gw'[k].pc \in {"marked", "registered", "listed"} => gw'[k].reg
    BY <2>5, Zenon DEF ConnsInv
  <2> QED BY <2>7, <2>8, <2>9, <2>10, Zenon DEF ConnsInv
<1>13. \A k \in Conns, s \in Sessions : Reaches(k, s)' => Reaches(k, s)
  <2> SUFFICES ASSUME NEW k \in Conns, NEW s \in Sessions PROVE Reaches(k, s)' => Reaches(k, s)
    BY Zenon
  <2> HIDE DEF ControlInv
  <2>1. CASE k = g
    <3>1. Range(gw'[g].upd) \subseteq {m}
      BY <1>6, <1>7, <1>8, <1>9, Zenon
    <3> QED BY <1>3, <2>1, <3>1, Zenon DEF Reaches
  <2>2. CASE k # g
    BY <1>3, <1>9, <2>2, Zenon DEF Reaches
  <2> QED BY <2>1, <2>2
<1>14. StartsInv'
  <2>1. \A s \in Sessions : Unheard(s) => Unheard(s)'
    BY <1>1, <1>13, Zenon DEF Unheard
  <2> QED BY <1>1, <2>1, StartsKept, Zenon
<1>15. EntriesInv'
  BY <1>1, <1>13, Zenon DEF EntriesInv
<1>16. EndsInv'
  <2>1. ASSUME NEW s \in Sessions, conn # None, conn = g
        PROVE  /\ Final(s) /\ ~Reviving(s) => Final(s)' /\ ~Reviving(s)'
               /\ Told(s) => (Final(s)' /\ ~Reviving(s)') \/ Told(s)'
    <3>1. Final(s)' <=> Final(s)
      BY <1>1, Zenon DEF Final
    <3>2. CASE m.sid # s
      <4>1. ~Reviving(s)' /\ ~Reviving(s)
        BY <1>1, <1>6, <1>7, <1>8, <1>9, <2>1, <3>2, Zenon DEF Reviving
      <4>2. Update(s, "TERMINATED") # m
        BY <3>2, Made
      <4>3. Told(s) => Told(s)'
        BY <1>1, <1>3, <1>6, <1>8, <2>1, <4>2, Zenon DEF Told
      <4> QED BY <3>1, <4>1, <4>3, Zenon
    <3>3. CASE m.sid = s
      <4>1. rows[s] # "none" /\ rows[s] \in States \cup {"none", "deleted"}
        <5>1. Reaches(g, s)
          BY <1>3, <1>5, <3>3, Zenon DEF Reaches
        <5> QED BY <5>1, HeardHasRow, Zenon DEF TypeOK
      <4>2. Final(s) => ~ok
        BY <3>3, TerminationValid, Zenon DEF ok, Final, Stored, States
      <4>3. ~ok => ~Reviving(s)' /\ ~Reviving(s)
        BY <1>1, <1>6, <1>8, <1>9, <2>1, Zenon DEF Reviving
      <4>4. m.to = "TERMINATED" /\ ~ok => Final(s)
        BY <3>3, <4>1, TerminationValid, Zenon DEF ok, Final, Stored
      <4>5. m.to = "TERMINATED" /\ ok => Told(s)'
        BY <1>1, <1>5, <1>7, <1>8, <1>9, <2>1, <3>3, Zenon DEF Told
      <4>6. m.to # "TERMINATED" => Update(s, "TERMINATED") # m
        BY Made
      <4>7. m.to # "TERMINATED" /\ Told(s) => Told(s)'
        BY <1>1, <1>3, <1>6, <1>8, <2>1, <4>6, Zenon DEF Told
      <4> HIDE DEF ControlInv
      <4> QED BY <3>1, <4>2, <4>3, <4>4, <4>5, <4>7, Zenon
    <3> QED BY <3>2, <3>3, Zenon
  <2>2. ASSUME NEW s \in Sessions, conn # None, conn # g
        PROVE  (Final(s) => Final(s)') /\ (Told(s) => Told(s)') /\ (Reviving(s) <=> Reviving(s)')
    <3>1. conn \in Conns
      BY <2>2, Zenon DEF TypeOK
    <3> QED BY <1>1, <1>3, <1>9, <2>2, <3>1, Zenon DEF Final, Told, Reviving
  <2> HIDE DEF ControlInv
  <2>3. ASSUME NEW s \in Sessions, conn # None
        PROVE  /\ Final(s) /\ ~Reviving(s) => (Final(s)' /\ ~Reviving(s)') \/ Told(s)'
               /\ Told(s) => (Final(s)' /\ ~Reviving(s)') \/ Told(s)'
    BY <2>1, <2>2, <2>3, Zenon
  <2> QED BY <1>1, <2>3, EndsKept, Zenon DEF ControlInv
<1>17. OldEnds
  BY <1>1, Zenon DEF OldEnds
<1>18. ListsInv'
  <2>1. \A k \in Conns : gw'[k].pc = "listed" => gw[k].pc = "listed" /\ gw'[k] = gw[k]
    BY <1>9, <1>11, Zenon
  <2>2. \A k \in Conns : k > used => gw'[k].pc # "listed"
    BY <2>1, Opened, Zenon
  <2> QED BY <1>1, <1>17, <2>1, <2>2, ListsKept, Zenon
<1>19. OrphansInv'
  <2>1. conn # None /\ ListComing => ListComing'
    BY <1>1, <1>9, <1>11, Zenon DEF ListComing, TypeOK
  <2> QED BY <1>1, <1>17, <2>1, OrphansKept, Zenon
<1> QED BY <1>10, <1>12, <1>14, <1>15, <1>16, <1>18, <1>19

(* A report is written to the row that was read before.  A report that would *)
(* revive a terminated row is of a process whose end is still to be told.    *)
LEMMA ApplyStateUpdateKeeps ==
  ASSUME ControlInv, NEW g \in Conns, ApplyStateUpdate(g)
  PROVE  ControlInv'
<1> USE DEF ControlInv
<1> DEFINE m == Head(gw[g].upd)
           h == [gw[g] EXCEPT !.pc = "recv", !.upd = <<>>]
<1>1. /\ UNCHANGED <<asked, req, status, stream, out, up, used, conn, sat, alive, prio, begun, spilled, restarts>>
      /\ gw[g].pc = "apply"
      /\ IF Stored(m.sid) THEN SetRow(m.sid, m.to) ELSE UNCHANGED <<rows, ended>>
  BY DEF ApplyStateUpdate, daemon
<1>2. gw' = [gw EXCEPT ![g] = h]
  BY Zenon DEF ApplyStateUpdate, TypeOK
<1>3. gw[g] \in Handlers /\ gw[g].upd \in Optional(Updates) /\ gw[g].upd # <<>> /\ g <= used
  BY <1>1, Opened, Zenon DEF ConnsInv
<1>4. m \in Updates /\ Range(gw[g].upd) = {m}
  BY <1>3, Options, Zenon
<1> HIDE DEF m
<1>5. /\ m.sid \in Sessions /\ m.to \in {"RUNNING", "SUSPENDED", "TERMINATED"} /\ m = Update(m.sid, m.to)
      /\ About(m, m.sid)
  BY <1>4, Forms, Zenon
<1>6. h \in Handlers /\ h.pc = "recv" /\ h.upd = <<>> /\ h.reg = gw[g].reg
  <2>1. <<>> \in Optional(Updates)
    BY Options, Zenon
  <2> QED BY <1>3, <2>1, Zenon DEF Handlers
<1> HIDE DEF h
<1>7. /\ gw' \in [Conns -> Handlers] /\ \A k \in Conns : k # g => gw'[k] = gw[k]
      /\ gw'[g] = h
  BY <1>2, <1>6, Zenon DEF TypeOK
<1>8. Range(<<>>) = {}
  BY ShortQueues, Zenon
<1>9. /\ rows' \in [Sessions -> States \cup {"none", "deleted"}] /\ ended' \in [Sessions -> 0 .. used]
      /\ \A s \in Sessions : s # m.sid => rows'[s] = rows[s]
      /\ rows'[m.sid] = IF Stored(m.sid) THEN m.to ELSE rows[m.sid]
      /\ OldEnds
  <2>1. CASE Stored(m.sid)
    BY <1>1, <1>5, <2>1, RowSet, Zenon DEF States
  <2>2. CASE ~Stored(m.sid)
    BY <1>1, <2>2, Zenon DEF OldEnds, TypeOK
  <2> QED BY <2>1, <2>2, Zenon
<1>10. TypeOK'
  BY <1>1, <1>7, <1>9, Zenon DEF TypeOK
<1>11. ConnsInv'
  <2>1. \A k \in Conns : k > used => k # g
    BY <1>3, Counted
  <2>2. \A k \in Conns : k > used => gw'[k] = gw[k] /\ out'[k] = out[k] /\ up'[k] = up[k]
    BY <1>1, <1>7, <2>1, Zenon
  <2>3. conn # None => gw'[conn].pc = gw[conn].pc \/ gw'[conn].pc = "recv"
    BY <1>6, <1>7, Zenon DEF TypeOK
  <2>4. stream # None => gw'[stream].reg = gw[stream].reg
    BY <1>6, <1>7, Zenon DEF TypeOK
  <2>5. \A k \in Conns : gw'[k] = gw[k] \/
          /\ gw'[k].pc = "apply" <=> gw'[k].upd # <<>>
          /\ gw'[k].pc \notin {"marked", "registered", "listed"}
    BY <1>6, <1>7, Zenon
  <2> QED BY <1>1, <2>2, <2>3, <2>4, <2>5, ZenonT(40) DEF ConnsInv
<1>12. \A k \in Conns : gw'[k].upd = gw[k].upd \/ (k = g /\ gw'[k].upd = <<>>)
  BY <1>6, <1>7, Zenon
<1>13. \A k \in Conns, s \in Sessions : Reaches(k, s)' => Reaches(k, s)
  <2> HIDE DEF ControlInv
  <2> QED BY <1>1, <1>8, <1>12, Zenon DEF Reaches
<1>14. StartsInv'
  <2>1. \A s \in Sessions : Unheard(s) => Unheard(s)'
    BY <1>1, <1>13, Zenon DEF Unheard
  <2>2. \A s \in Sessions : rows'[s] = "none" => rows[s] = "none"
    BY <1>5, <1>9, Zenon
  <2> QED BY <1>1, <2>1, <2>2, StartsKept, Zenon
<1>15. EntriesInv'
  BY <1>1, <1>13, Zenon DEF EntriesInv
<1>16. EndsInv'
  <2>1. ASSUME NEW s \in Sessions, begun[s] = conn, conn # None
        PROVE  /\ Final(s) /\ ~Reviving(s) => (Final(s)' /\ ~Reviving(s)') \/ Told(s)'
               /\ Told(s) => (Final(s)' /\ ~Reviving(s)') \/ Told(s)'
    <3>0. conn \in Conns
      BY <2>1, Zenon DEF TypeOK
    <3>1. CASE m.sid # s
      <4>1. Final(s) => Final(s)'
        BY <1>9, <3>1, Zenon DEF Final
      <4>2. Reviving(s)' => Reviving(s)
        BY <1>1, <1>8, <1>12, <3>0, Zenon DEF Reviving
      <4>3. Update(s, "TERMINATED") # m
        BY <3>1, Made
      <4>4. Told(s) => Told(s)'
        BY <1>1, <1>4, <1>12, <3>0, <4>3, Zenon DEF Told
      <4> QED BY <4>1, <4>2, <4>4, Zenon
    <3>2. CASE m.sid = s
      <4>1. Reaches(g, s)
        BY <1>4, <1>5, <3>2, Zenon DEF Reaches
      <4>2. g = conn
        <5>1. ~(g < begun[s])
          BY <4>1, Zenon DEF EntriesInv
        <5>2. conn = used
          BY <2>1, Zenon DEF ConnsInv
        <5> QED BY <1>3, <2>1, <5>1, <5>2, Counted
      <4>3. rows[s] # "none" /\ rows[s] \in States \cup {"none", "deleted"}
        BY <4>1, HeardHasRow DEF TypeOK
      <4>4. ~Reviving(s)'
        BY <1>1, <1>6, <1>7, <1>8, <4>2, Zenon DEF Reviving
      <4>5. CASE m.to = "TERMINATED"
        BY <1>9, <3>2, <4>3, <4>4, <4>5, Zenon DEF Final, Stored
      <4>6. CASE m.to # "TERMINATED"
        <5>1. Reviving(s)
          BY <1>4, <3>2, <4>2, <4>6, Zenon DEF Reviving
        <5>2. Update(s, "TERMINATED") # m
          BY <4>6 DEF Update
        <5>3. Told(s) => Told(s)'
          BY <1>1, <1>4, <1>12, <3>0, <5>2, Zenon DEF Told
        <5> QED BY <5>1, <5>3, Zenon
      <4> QED BY <4>5, <4>6, Zenon
    <3> QED BY <3>1, <3>2, Zenon
  <2> QED BY <1>1, <2>1, EndsKept, Zenon
<1>17. ListsInv'
  <2>1. \A k \in Conns : gw'[k].pc = "listed" => gw[k].pc = "listed" /\ gw'[k] = gw[k]
    BY <1>6, <1>7, Zenon
  <2>2. \A k \in Conns : k > used => gw'[k].pc # "listed"
    BY <2>1, Opened
  <2> QED BY <1>1, <1>9, <2>1, <2>2, ListsKept, Zenon
<1>18. OrphansInv'
  <2>1. conn # None /\ ListComing => ListComing'
    BY <1>1, <1>6, <1>7, Zenon DEF ListComing, TypeOK
  <2> QED BY <1>1, <1>9, <2>1, OrphansKept, Zenon
<1> QED BY <1>10, <1>11, <1>14, <1>15, <1>16, <1>17, <1>18
-----------------------------------------------------------------------------
(* The connection. *)

(* The daemon sends the oldest report. *)
LEMMA StreamWriterKeeps ==
  ASSUME ControlInv, StreamWriter
  PROVE  ControlInv'
<1> USE DEF ControlInv
<1> DEFINE x == Head(prio)
           M == Updates \cup {Register}
<1>1. /\ UNCHANGED <<rows, asked, req, status, stream, gw, ended, out, used, conn, sat, alive, begun, spilled, restarts>>
      /\ conn # None /\ prio # <<>> /\ Len(up[conn]) < NetCap
      /\ up' = [up EXCEPT ![conn] = Append(@, x)] /\ prio' = Tail(prio)
  BY Zenon DEF StreamWriter, nexus
<1>2. conn \in Conns /\ conn = used /\ prio \in Seq(Updates) /\ Len(prio) <= PrioCap /\ PrioCap \in Nat /\ NetCap \in Nat
  BY <1>1, CapsAssumption, Zenon DEF TypeOK, ConnsInv
<1>3. /\ x \in Updates /\ prio' \in Seq(Updates) /\ Len(prio') = Len(prio) - 1 /\ Len(prio) \in Nat
      /\ Range(prio) = {x} \cup Range(prio')
  BY <1>1, <1>2, Taken, Zenon
<1> HIDE DEF x
<1>4. up[conn] \in Seq(M) /\ x \in M /\ up'[conn] = Append(up[conn], x) /\ \A k \in Conns : k # conn => up'[k] = up[k]
  BY <1>1, <1>2, <1>3, Zenon DEF TypeOK
<1>5. up'[conn] \in Seq(M) /\ Len(up'[conn]) = Len(up[conn]) + 1 /\ Len(up[conn]) \in Nat
      /\ Range(up'[conn]) = Range(up[conn]) \cup {x}
  <2> HIDE DEF M, ControlInv
  <2> QED BY <1>4, Appended
<1>6. TypeOK'
  <2>1. up' \in [Conns -> Seq(Updates \cup {Register})]
    BY <1>1, <1>2, <1>4, <1>5, Zenon DEF TypeOK
  <2>2. \A k \in Conns : Len(up'[k]) <= NetCap
    BY <1>1, <1>2, <1>4, <1>5 DEF TypeOK
  <2>3. Len(prio') <= PrioCap
    BY <1>2, <1>3
  <2> QED BY <1>1, <1>3, <2>1, <2>2, <2>3, Zenon DEF TypeOK
<1>7. ConnsInv'
  <2>1. \A k \in Conns : k > used => k # conn
    BY <1>2, Counted
  <2> QED BY <1>1, <1>4, <2>1, Zenon DEF ConnsInv
<1>8. \A k \in Conns, s \in Sessions : Reaches(k, s)' => Reaches(k, s) \/ (k = conn /\ About(x, s))
  <2> HIDE DEF ControlInv
  <2> QED BY <1>1, <1>4, <1>5, Zenon DEF Reaches
<1>9. StartsInv'
  <2>1. \A s \in Sessions : Unheard(s) => Unheard(s)'
    BY <1>3, <1>8, Zenon DEF Unheard
  <2> QED BY <1>1, <2>1, StartsKept, Zenon
<1>10. EntriesInv'
  <2>1. \A s \in Sessions, k \in Conns : k < begun[s] => k # conn
    BY <1>2, Counted
  <2> QED BY <1>1, <1>8, <2>1, Zenon DEF EntriesInv
<1>11. EndsInv'
  <2>1. \A s \in Sessions : (Final(s)' <=> Final(s)) /\ (Reviving(s)' <=> Reviving(s))
    BY <1>1, Zenon DEF Final, Reviving
  <2>2. \A s \in Sessions : Told(s) => Told(s)'
    <3> HIDE DEF ControlInv
    <3> QED BY <1>1, <1>3, <1>5, Zenon DEF Told
  <2> QED BY <1>1, <2>1, <2>2, EndsKept, Zenon
<1>12. ListsInv'
  BY <1>1, Zenon DEF ListsInv
<1>13. OrphansInv'
  BY <1>1, Zenon DEF OrphansInv, ListComing
<1> QED BY <1>6, <1>7, <1>9, <1>10, <1>11, <1>12, <1>13, Zenon

(* The daemon is on no connection after the step: what is said of the      *)
(* present connection holds at once.                                       *)
LEMMA Off ==
  ASSUME conn' = None
  PROVE  EndsInv' /\ OrphansInv'
BY Zenon DEF EndsInv, OrphansInv

(* A connection breaks and what was on it is lost. *)
LEMMA BreakKeeps ==
  ASSUME ControlInv, Break
  PROVE  ControlInv'
<1> USE DEF ControlInv
<1> DEFINE M == Updates \cup {Register}
<1>1. /\ UNCHANGED <<rows, asked, req, status, stream, gw, ended, used, sat, alive, prio, begun, spilled, restarts>>
      /\ conn # None /\ conn' = None /\ out' = [out EXCEPT ![conn] = <<>>]
  BY Zenon DEF Break, nexus, daemon
<1>2. conn \in Conns /\ conn = used
  BY <1>1, Zenon DEF TypeOK, ConnsInv
<1>3. PICK n \in 0 .. Len(up[conn]) : up' = [up EXCEPT ![conn] = SubSeq(@, 1, n)]
  BY Zenon DEF Break
<1>4. up[conn] \in Seq(M) /\ Len(up[conn]) <= NetCap /\ up'[conn] = SubSeq(up[conn], 1, n) /\ \A k \in Conns : k # conn => up'[k] = up[k]
  BY <1>2, <1>3, Zenon DEF TypeOK
<1>5. up'[conn] \in Seq(M) /\ Len(up'[conn]) = n /\ Range(up'[conn]) \subseteq Range(up[conn]) /\ Len(up[conn]) \in Nat
  <2> HIDE DEF M, ControlInv
  <2> QED BY <1>4, CutOff
<1>6. /\ out' \in [Conns -> Seq(Commands)] /\ out'[conn] = <<>> /\ \A k \in Conns : k # conn => out'[k] = out[k]
  BY <1>1, <1>2 DEF TypeOK
<1>7. TypeOK'
  <2>1. up' \in [Conns -> Seq(Updates \cup {Register})]
    BY <1>2, <1>3, <1>4, <1>5, Zenon DEF TypeOK
  <2>2. \A k \in Conns : Len(up'[k]) <= NetCap
    <3>1. Len(up'[conn]) <= NetCap
      BY <1>4, <1>5, CapsAssumption
    <3> QED BY <1>4, <3>1, Zenon DEF TypeOK
  <2>3. \A k \in Conns : Len(out'[k]) <= OutCap
    <3>1. Len(<<>>) = 0 /\ 0 <= OutCap
      BY CapsAssumption
    <3> QED BY <1>6, <3>1, Zenon DEF TypeOK
  <2> QED BY <1>1, <1>6, <2>1, <2>2, <2>3, Zenon DEF TypeOK
<1>8. ConnsInv'
  <2>1. \A k \in Conns : k > used => k # conn
    BY <1>2, Counted
  <2> QED BY <1>1, <1>4, <1>6, <2>1, Zenon DEF ConnsInv
<1>9. \A k \in Conns, s \in Sessions : Reaches(k, s)' => Reaches(k, s)
  <2> HIDE DEF ControlInv
  <2> QED BY <1>1, <1>4, <1>5, Zenon DEF Reaches
<1>10. \A k \in Conns : out'[k] = out[k] \/ (out'[k] = <<>> /\ Range(out'[k]) = {})
  BY <1>6, ShortQueues, Zenon
<1>11. StartsInv'
  <2>1. \A s \in Sessions : Unheard(s) => Unheard(s)'
    BY <1>1, <1>9, Zenon DEF Unheard
  <2>2. \A s \in Sessions, k \in Conns : Begins(out'[k], s) => Begins(out[k], s)
    BY <1>10, Zenon DEF Begins
  <2>3. \A s \in Sessions, k \in Conns : OnceIn(out[k], Cmd("start", s)) => OnceIn(out'[k], Cmd("start", s))
    BY <1>10, ShortQueues, Zenon
  <2> QED BY <1>1, <2>1, <2>2, <2>3, StartsKept, Zenon
<1>12. EntriesInv'
  BY <1>1, <1>9, Zenon DEF EntriesInv
<1>13. ListsInv'
  <2>1. \A s \in Sessions, k \in Conns : rows[s] = "TERMINATED" /\ ended[s] < k =>
          /\ gw[k].pc = "listed" => s \notin gw[k].active
          /\ \A m \in Range(out'[k]) : m.cmd = "reconcile" => s \notin m.active
    BY <1>10, Zenon DEF ListsInv
  <2> QED BY <1>1, <2>1, Zenon DEF ListsInv
<1> QED BY <1>1, <1>7, <1>8, <1>11, <1>12, <1>13, Off, Zenon

(* Nexus restarts: no row becomes or ceases to be terminated. *)
LEMMA NexusRestartKeeps ==
  ASSUME ControlInv, NexusRestart
  PROVE  ControlInv'
<1> USE DEF ControlInv
<1>1. /\ UNCHANGED <<asked, status, ended, used, sat, alive, prio, begun, spilled>>
      /\ restarts < MaxRestarts /\ restarts' = restarts + 1 /\ conn' = None /\ stream' = None
      /\ rows' = [s \in Sessions |-> IF rows[s] \in {"RUNNING", "RE_ATTACHING"} THEN "DETACHED" ELSE rows[s]]
      /\ req' = [c \in Clients |-> <<>>]
      /\ gw' = [g \in Conns |-> IF g <= used THEN Handler("done", FALSE) ELSE gw[g]]
      /\ out' = [g \in Conns |-> <<>>] /\ up' = [g \in Conns |-> <<>>]
  BY Zenon DEF NexusRestart, daemon
<1>2. /\ Handler("done", FALSE) \in Handlers /\ Handler("done", FALSE).pc = "done"
      /\ Handler("done", FALSE).upd = <<>>
  BY Made, Zenon
<1>3. /\ gw' \in [Conns -> Handlers]
      /\ \A g \in Conns : (g <= used /\ gw'[g] = Handler("done", FALSE)) \/ (g > used /\ gw'[g] = gw[g])
  <2>1. gw' \in [Conns -> Handlers] /\ \A g \in Conns : gw'[g] = IF g <= used THEN Handler("done", FALSE) ELSE gw[g]
    BY <1>1, <1>2, Zenon DEF TypeOK
  <2>2. \A g \in Conns : ~(g <= used) <=> g > used
    BY Counted
  <2> QED BY <2>1, <2>2, Zenon
<1>4. \A s \in Sessions : /\ rows'[s] = "TERMINATED" <=> rows[s] = "TERMINATED"
                          /\ rows'[s] = "none" <=> rows[s] = "none"
  BY <1>1, Zenon
<1>5. TypeOK'
  <2>1. rows' \in [Sessions -> States \cup {"none", "deleted"}]
    BY <1>1, Zenon DEF TypeOK, States
  <2>2. restarts' \in 0 .. MaxRestarts
    BY <1>1, CapsAssumption DEF TypeOK
  <2>3. req' \in [Clients -> Optional(Requests)]
    BY <1>1, Options, Zenon
  <2>4. /\ out' \in [Conns -> Seq(Commands)] /\ up' \in [Conns -> Seq(Updates \cup {Register})]
        /\ \A g \in Conns : Len(out'[g]) <= OutCap /\ Len(up'[g]) <= NetCap
    BY <1>1, CapsAssumption, SMTT(30)
  <2> QED BY <1>1, <1>3, <2>1, <2>2, <2>3, <2>4, Zenon DEF TypeOK
<1>6. \A g \in Conns : out'[g] = <<>> /\ up'[g] = <<>> /\ Range(out'[g]) = {} /\ Range(up'[g]) = {}
  BY <1>1, ShortQueues, Zenon
<1>7. ConnsInv'
  <2>1. \A g \in Conns : g > used => gw'[g] = gw[g]
    <3>1. \A g \in Conns : ~(g <= used) <=> g > used
      BY Counted
    <3> QED BY <1>3, <3>1, Zenon
  <2>2. \A g \in Conns : gw'[g] = gw[g] \/ gw'[g] = Handler("done", FALSE)
    BY <1>3, Zenon
  <2> QED BY <1>1, <1>2, <1>6, <2>1, <2>2, Zenon DEF ConnsInv
<1>8. \A g \in Conns, s \in Sessions : ~Reaches(g, s)'
  <2>1. \A g \in Conns : gw'[g].upd = <<>>
    <3>1. Handler("unused", FALSE).upd = <<>>
      BY Made, Zenon
    <3> QED BY <1>2, <1>3, <3>1, Zenon DEF ConnsInv
  <2> QED BY <1>6, <2>1, ShortQueues, Zenon DEF Reaches
<1>9. StartsInv'
  <2>1. \A s \in Sessions : Unheard(s) => Unheard(s)'
    BY <1>1, <1>8, Zenon DEF Unheard
  <2>2. \A s \in Sessions, g \in Conns : ~Begins(out'[g], s) /\ OnceIn(out'[g], Cmd("start", s))
    BY <1>6, ShortQueues, Zenon DEF Begins
  <2>3. \A s \in Sessions, c \in Clients : ~Begins(req'[c], s)
    BY <1>1, ShortQueues, Zenon DEF Begins
  <2> QED BY <1>1, <1>4, <2>1, <2>2, <2>3, StartsKept, Zenon
<1>10. EntriesInv'
  BY <1>1, <1>8, Zenon DEF EntriesInv
<1>11. ListsInv'
  <2>1. \A g \in Conns : gw'[g].pc # "listed"
    BY <1>2, <1>3, Opened, Zenon
  <2> QED BY <1>6, <2>1, Zenon DEF ListsInv
<1> QED BY <1>1, <1>5, <1>7, <1>9, <1>10, <1>11, Off, Zenon

(* The daemon restarts: no process is left. *)
LEMMA DaemonRestartKeeps ==
  ASSUME ControlInv, DaemonRestart
  PROVE  ControlInv'
<1> USE DEF ControlInv
<1>1. /\ UNCHANGED <<rows, asked, req, status, stream, gw, ended, up, used, begun, spilled>>
      /\ restarts < MaxRestarts /\ restarts' = restarts + 1 /\ conn' = None
      /\ sat' = [s \in Sessions |-> "none"] /\ alive' = {} /\ prio' = <<>>
      /\ out' = IF conn = None THEN out ELSE [out EXCEPT ![conn] = <<>>]
  BY Zenon DEF DaemonRestart, nexus
<1>2. /\ out' \in [Conns -> Seq(Commands)]
      /\ \A k \in Conns : out'[k] = out[k] \/ (out'[k] = <<>> /\ Range(out'[k]) = {})
  <2>1. out' \in [Conns -> Seq(Commands)] /\ \A k \in Conns : out'[k] = out[k] \/ out'[k] = <<>>
    BY <1>1 DEF TypeOK
  <2> QED BY <2>1, ShortQueues, Zenon
<1>3. TypeOK'
  <2>1. \A k \in Conns : Len(out'[k]) <= OutCap
    <3>1. Len(<<>>) = 0 /\ 0 <= OutCap
      BY CapsAssumption
    <3> QED BY <1>2, <3>1, Zenon DEF TypeOK
  <2>2. restarts' \in 0 .. MaxRestarts
    BY <1>1, CapsAssumption DEF TypeOK
  <2>3. prio' \in Seq(Updates) /\ Len(prio') <= PrioCap
    BY <1>1, CapsAssumption
  <2> QED BY <1>1, <1>2, <2>1, <2>2, <2>3, Zenon DEF TypeOK
<1>4. ConnsInv'
  BY <1>1, <1>2, Zenon DEF ConnsInv
<1>5. \A k \in Conns, s \in Sessions : Reaches(k, s)' => Reaches(k, s)
  BY <1>1, Zenon DEF Reaches
<1>6. StartsInv'
  <2>1. \A s \in Sessions : Unheard(s) => Unheard(s)'
    BY <1>1, <1>5, ShortQueues, Zenon DEF Unheard
  <2>2. \A s \in Sessions, k \in Conns : Begins(out'[k], s) => Begins(out[k], s)
    BY <1>2, Zenon DEF Begins
  <2>3. \A s \in Sessions, k \in Conns : OnceIn(out[k], Cmd("start", s)) => OnceIn(out'[k], Cmd("start", s))
    BY <1>2, ShortQueues, Zenon
  <2> QED BY <1>1, <2>1, <2>2, <2>3, StartsKept, Zenon
<1>7. EntriesInv'
  BY <1>1, <1>5, Zenon DEF EntriesInv
<1>8. ListsInv'
  <2>1. \A s \in Sessions, k \in Conns : rows[s] = "TERMINATED" /\ ended[s] < k =>
          /\ gw[k].pc = "listed" => s \notin gw[k].active
          /\ \A m \in Range(out'[k]) : m.cmd = "reconcile" => s \notin m.active
    BY <1>2, Zenon DEF ListsInv
  <2> QED BY <1>1, <2>1, Zenon DEF ListsInv
<1> QED BY <1>1, <1>3, <1>4, <1>6, <1>7, <1>8, Off, Zenon

(* The daemon opens a new connection and announces its sessions: the list is *)
(* still to come.                                                            *)
LEMMA ConnectToNexusKeeps ==
  ASSUME ControlInv, ConnectToNexus
  PROVE  ControlInv'
<1> USE DEF ControlInv
<1> DEFINE n == used + 1
           S == {s \in Sessions : sat[s] \notin {"none", "TERMINATED"}}
           h == Handler("recv", FALSE)
           M == Updates \cup {Register}
<1>1. /\ UNCHANGED <<rows, asked, req, status, stream, ended, out, sat, alive, begun, spilled, restarts>>
      /\ conn = None /\ used < MaxConns /\ used' = n /\ conn' = n
      /\ gw' = [gw EXCEPT ![n] = h] /\ up' = [up EXCEPT ![n] = <<Register>>]
  BY Zenon DEF ConnectToNexus
<1>2. PICK order \in Orders(S) :
        prio' = EnqueueAll(prio, [i \in DOMAIN order |-> Update(order[i], sat[order[i]])])
  BY Zenon DEF ConnectToNexus
<1>3. n \in Conns /\ n > used /\ n \in 0 .. MaxConns /\ n \in Nat /\ \A k \in Conns : k > n => k > used /\ k # n
  BY <1>1, Counted, CapsAssumption DEF Conns
<1> HIDE DEF n
<1>4. h \in Handlers /\ h.pc = "recv" /\ h.upd = <<>> /\ h.reg = FALSE
  BY Made, Zenon
<1> HIDE DEF h
<1>5. gw' \in [Conns -> Handlers] /\ gw'[n] = h /\ \A k \in Conns : k # n => gw'[k] = gw[k]
  BY <1>1, <1>3, <1>4, Zenon DEF TypeOK
<1>6. up' \in [Conns -> Seq(M)] /\ up'[n] = <<Register>> /\ \A k \in Conns : k # n => up'[k] = up[k]
  <2>1. <<Register>> \in Seq(M)
    OBVIOUS
  <2>2. up \in [Conns -> Seq(M)]
    BY Zenon DEF TypeOK
  <2> HIDE DEF M, ControlInv
  <2> QED BY <1>1, <1>3, <2>1, <2>2, Zenon
<1>7. /\ prio' \in Seq(Updates) /\ Len(prio') <= PrioCap
      /\ \A m \in Range(prio') : m \in Range(prio) \/ (m \in Updates /\ m.sid \in S)
  <2> DEFINE ms == [i \in DOMAIN order |-> Update(order[i], sat[order[i]])]
  <2>1. \A i \in DOMAIN order : order[i] \in S
    BY Ordered, Zenon
  <2>2. \A s \in S : s \in Sessions /\ sat[s] \in {"RUNNING", "SUSPENDED", "TERMINATED"}
    BY Zenon DEF TypeOK
  <2> HIDE DEF S
  <2>3. \A i \in DOMAIN order : ms[i] \in Updates /\ ms[i].sid = order[i]
    BY <2>1, <2>2, Zenon DEF Update, Updates
  <2>4. ms \in [DOMAIN order -> Updates]
    BY <2>3, Zenon
  <2> HIDE DEF ms
  <2>5. S \subseteq Sessions
    BY <2>2, Zenon
  <2>6. ms \in Seq(Updates) /\ \A m \in Range(ms) : m.sid \in S
    BY <2>3, <2>4, <2>5, OrderReported
  <2>7. \A m \in Range(ms) : m \in Updates
    BY <2>4 DEF Range
  <2>8. prio \in Seq(Updates) /\ Len(prio) <= PrioCap
    BY Zenon DEF TypeOK
  <2>9. prio' = EnqueueAll(prio, ms)
    BY <1>2, Zenon DEF ms
  <2>10. /\ EnqueueAll(prio, ms) \in Seq(Updates) /\ Len(EnqueueAll(prio, ms)) <= PrioCap
         /\ Range(EnqueueAll(prio, ms)) \subseteq Range(prio) \cup Range(ms)
    BY <2>6, <2>8, Reported, Zenon
  <2> QED BY <2>6, <2>7, <2>9, <2>10, Zenon
<1>8. TypeOK'
  <2>1. ended' \in [Sessions -> 0 .. used'] /\ begun' \in [Sessions -> 0 .. used']
    <3>1. \A x \in 0 .. used : x \in 0 .. used'
      BY <1>1, <1>3, Counted
    <3> QED BY <1>1, <3>1, Zenon DEF TypeOK
  <2>2. \A k \in Conns : Len(up'[k]) <= NetCap
    <3>1. Len(<<Register>>) = 1 /\ 1 <= NetCap
      BY CapsAssumption
    <3> QED BY <1>6, <3>1, Zenon DEF TypeOK
  <2> QED BY <1>1, <1>3, <1>5, <1>6, <1>7, <2>1, <2>2, Zenon DEF TypeOK
<1>9. ConnsInv'
  <2>1. stream # None => stream # n /\ stream <= n
    BY <1>3, Counted DEF ConnsInv
  <2>2. \A k \in Conns : k > n => gw'[k] = gw[k] /\ up'[k] = up[k] /\ k > used
    BY <1>3, <1>5, <1>6, Zenon
  <2>3. stream' # None => stream' <= used' /\ gw'[stream'].reg
    BY <1>1, <1>5, <2>1, Zenon DEF ConnsInv, TypeOK
  <2>4. \A k \in Conns : /\ gw'[k].pc = "apply" <=> gw'[k].upd # <<>>
                         /\ gw'[k].pc \in {"marked", "registered", "listed"} => gw'[k].reg
    BY <1>4, <1>5, Zenon DEF ConnsInv
  <2> QED BY <1>1, <1>4, <1>5, <2>2, <2>3, <2>4, ZenonT(40) DEF ConnsInv
<1>10. \A k \in Conns, s \in Sessions : Reaches(k, s)' => Reaches(k, s)
  <2> SUFFICES ASSUME NEW k \in Conns, NEW s \in Sessions, Reaches(k, s)' PROVE Reaches(k, s)
    BY Zenon
  <2>1. CASE k = n
    <3>1. Range(up'[n]) = {Register} /\ Range(gw'[n].upd) = {} /\ ~About(Register, s)
      BY <1>4, <1>5, <1>6, ShortQueues, Forms, Zenon
    <3> QED BY <2>1, <3>1, Zenon DEF Reaches
  <2>2. CASE k # n
    BY <1>5, <1>6, <2>2, Zenon DEF Reaches
  <2> QED BY <2>1, <2>2, Zenon
<1>11. StartsInv'
  <2>1. ASSUME NEW s \in Sessions, Unheard(s), rows'[s] = "none" \/ Starting(s)'
        PROVE  Unheard(s)'
    <3>1. Starting(s)' <=> Starting(s)
      BY <1>1, Zenon DEF Starting
    <3>2. s \notin S
      BY <1>1, <2>1, <3>1, Zenon DEF StartsInv
    <3>3. \A m \in Range(prio') : ~About(m, s)
      BY <1>7, <2>1, <3>2, Zenon DEF Unheard, About
    <3> QED BY <1>10, <2>1, <3>3, Zenon DEF Unheard
  <2> QED BY <1>1, <2>1, StartsKept, Zenon
<1>12. EntriesInv'
  BY <1>1, <1>10, Zenon DEF EntriesInv
<1>13. EndsInv'
  <2>1. \A s \in Sessions : begun[s] # n
    BY <1>3, Counted
  <2> QED BY <1>1, <2>1, Zenon DEF EndsInv
<1>14. ListsInv'
  <2>1. OldEnds
    BY <1>1, Zenon DEF OldEnds
  <2>2. \A k \in Conns : gw'[k].pc = "listed" => gw[k].pc = "listed" /\ gw'[k] = gw[k]
    BY <1>4, <1>5, Zenon
  <2>3. \A k \in Conns : k > used => gw'[k].pc # "listed"
    BY <2>2, Opened, Zenon
  <2> QED BY <1>1, <2>1, <2>2, <2>3, ListsKept, Zenon
<1>15. OrphansInv'
  BY <1>1, <1>4, <1>5, Zenon DEF OrphansInv, ListComing
<1> QED BY <1>8, <1>9, <1>11, <1>12, <1>13, <1>14, <1>15, Zenon
-----------------------------------------------------------------------------
(* The daemon. *)

(* A command is taken from the present connection. *)
LEMMA Consumed ==
  ASSUME TypeOK, conn # None, out[conn] # <<>>, Consume
  PROVE  /\ conn \in Conns /\ Head(out[conn]) \in Commands
         /\ out' \in [Conns -> Seq(Commands)] /\ \A k \in Conns : Len(out'[k]) <= OutCap
         /\ \A k \in Conns : k # conn => out'[k] = out[k]
         /\ Range(out[conn]) = {Head(out[conn])} \cup Range(out'[conn])
         /\ \A y : OnceIn(out[conn], y) => OnceIn(out'[conn], y) /\ (Head(out[conn]) = y => y \notin Range(out'[conn]))
<1>1. conn \in Conns /\ out[conn] \in Seq(Commands) /\ Len(out[conn]) <= OutCap /\ OutCap \in Nat
  BY CapsAssumption, Zenon DEF TypeOK
<1>2. /\ Head(out[conn]) \in Commands /\ Tail(out[conn]) \in Seq(Commands)
      /\ Len(Tail(out[conn])) = Len(out[conn]) - 1 /\ Len(out[conn]) \in Nat
      /\ Range(out[conn]) = {Head(out[conn])} \cup Range(Tail(out[conn]))
      /\ \A y : OnceIn(out[conn], y) =>
                  OnceIn(Tail(out[conn]), y) /\ (Head(out[conn]) = y => y \notin Range(Tail(out[conn])))
  BY <1>1, Taken, Zenon
<1>3. /\ out' \in [Conns -> Seq(Commands)] /\ out'[conn] = Tail(out[conn])
      /\ \A k \in Conns : k # conn => out'[k] = out[k]
  BY <1>1, <1>2, Zenon DEF TypeOK, Consume
<1>4. \A k \in Conns : Len(out'[k]) <= OutCap
  <2>1. Len(out'[conn]) <= OutCap
    BY <1>1, <1>2, <1>3
  <2> QED BY <1>3, <2>1, Zenon DEF TypeOK
<1> QED BY <1>1, <1>2, <1>3, <1>4, Zenon

(* Reports are queued, or the connection is marked. *)
LEMMA ReportEffect ==
  ASSUME TypeOK, NEW ms \in Seq(Updates), ReportAll(ms)
  PROVE  /\ prio' \in Seq(Updates) /\ Len(prio') <= PrioCap
         /\ Range(prio) \subseteq Range(prio') /\ Range(prio') \subseteq Range(prio) \cup Range(ms)
         /\ spilled' \subseteq Conns \cup {None} /\ spilled \subseteq spilled'
         /\ conn \notin spilled' => Range(ms) \subseteq Range(prio')
<1>1. prio \in Seq(Updates) /\ Len(prio) <= PrioCap /\ conn \in Conns \cup {None} /\ spilled \subseteq Conns \cup {None}
  BY Zenon DEF TypeOK
<1>2. /\ prio' \in Seq(Updates) /\ Len(prio') <= PrioCap
      /\ Range(prio) \subseteq Range(prio') /\ Range(prio') \subseteq Range(prio) \cup Range(ms)
      /\ Len(prio) + Len(ms) <= PrioCap => Range(ms) \subseteq Range(prio')
  BY <1>1, Reported, Zenon DEF ReportAll
<1>3. spilled' = IF Len(prio) + Len(ms) <= PrioCap THEN spilled ELSE spilled \cup {conn}
  BY Zenon DEF ReportAll
<1> HIDE DEF Conns
<1> QED BY <1>1, <1>2, <1>3, Zenon

(* A step of the daemon starts no process and reports those it ends.  It   *)
(* reports on no session that is still to be started, and takes a list of  *)
(* sessions only if it leaves no process the list does not have.           *)
DaemonEffect ==
  /\ UNCHANGED <<rows, asked, req, status, stream, gw, ended, up, used, conn, begun, restarts>>
  /\ out' \in [Conns -> Seq(Commands)] /\ \A k \in Conns : Len(out'[k]) <= OutCap
  /\ \A k \in Conns : out[k] = <<>> => out'[k] = <<>>
  /\ \A k \in Conns : Range(out'[k]) \subseteq Range(out[k])
  /\ \A k \in Conns : \A y : OnceIn(out[k], y) => OnceIn(out'[k], y)
  /\ conn # None => \A m \in Range(out[conn]) : m.cmd = "reconcile" /\ m \notin Range(out'[conn]) => alive' \subseteq m.active
  /\ sat' \in [Sessions -> {"none", "RUNNING", "SUSPENDED", "TERMINATED"}]
  /\ \A s \in Sessions : sat[s] = "none" => sat'[s] = "none"
  /\ alive' \subseteq alive /\ \A s \in alive' : sat'[s] \in {"RUNNING", "SUSPENDED"}
  /\ prio' \in Seq(Updates) /\ Len(prio') <= PrioCap /\ Range(prio) \subseteq Range(prio')
  /\ \A m \in Range(prio') : m \in Range(prio) \/ (rows[m.sid] # "none" /\ ~Starting(m.sid)')
  /\ spilled' \subseteq Conns \cup {None} /\ spilled \subseteq spilled'
  /\ conn \notin spilled' => \A s \in alive \ alive' : Update(s, "TERMINATED") \in Range(prio')

(* What the commands and exits have in common keeps ControlInv: entries and *)
(* processes go together, and the end of a process is reported.             *)
LEMMA DaemonEffectKeeps ==
  ASSUME ControlInv, DaemonEffect
  PROVE  ControlInv'
<1> USE DEF ControlInv
<1>1. TypeOK'
  BY Zenon DEF TypeOK, DaemonEffect
<1>2. UNCHANGED <<rows, asked, req, status, stream, gw, ended, up, used, conn, begun, restarts>>
  BY Zenon DEF DaemonEffect
<1>3. ConnsInv'
  BY Zenon DEF ConnsInv, DaemonEffect
<1>4. \A k \in Conns, s \in Sessions : Reaches(k, s)' <=> Reaches(k, s)
  BY <1>2, Zenon DEF Reaches
<1>5. StartsInv'
  <2>1. ASSUME NEW s \in Sessions, Unheard(s), rows'[s] = "none" \/ Starting(s)'
        PROVE  Unheard(s)'
    <3>1. \A m \in Range(prio') : ~About(m, s)
      BY <1>2, <2>1, Zenon DEF DaemonEffect, Unheard, About
    <3> QED BY <1>4, <2>1, <3>1, Zenon DEF Unheard
  <2>2. \A s \in Sessions, k \in Conns : Begins(out'[k], s) => Begins(out[k], s)
    BY Zenon DEF Begins, DaemonEffect
  <2>3. \A s \in Sessions, k \in Conns : OnceIn(out[k], Cmd("start", s)) => OnceIn(out'[k], Cmd("start", s))
    BY Zenon DEF DaemonEffect
  <2>4. alive' \subseteq alive /\ \A s \in Sessions : sat[s] = "none" => sat'[s] = "none"
    BY Zenon DEF DaemonEffect
  <2> QED BY <1>2, <2>1, <2>2, <2>3, <2>4, StartsKept, Zenon
<1>6. EntriesInv'
  BY <1>2, <1>4, Zenon DEF EntriesInv, DaemonEffect
<1>7. EndsInv'
  <2>1. \A s \in Sessions : (Final(s)' <=> Final(s)) /\ (Reviving(s)' <=> Reviving(s))
    BY <1>2, Zenon DEF Final, Reviving
  <2>2. \A s \in Sessions : Told(s) => Told(s)'
    BY <1>2, Zenon DEF Told, DaemonEffect
  <2>3. \A s \in Sessions : s \in alive /\ s \notin alive' /\ conn \notin spilled' => Told(s)'
    BY <1>2, Zenon DEF Told, DaemonEffect
  <2>4. spilled \subseteq spilled'
    BY Zenon DEF DaemonEffect
  <2> QED BY <1>2, <2>1, <2>2, <2>3, <2>4, EndsKept, Zenon
<1>8. OldEnds
  BY <1>2, Zenon DEF OldEnds
<1>9. ListsInv'
  <2>1. \A k \in Conns : k > used => gw[k].pc # "listed"
    BY Opened, Zenon
  <2>2. \A k \in Conns : Range(out'[k]) \subseteq Range(out[k])
    BY Zenon DEF DaemonEffect
  <2> QED BY <1>2, <1>8, <2>1, <2>2, ListsKept, Zenon
<1>10. OrphansInv'
  <2>1. ASSUME NEW s \in Sessions, conn # None, conn \notin spilled', rows'[s] = "TERMINATED",
               rows[s] = "TERMINATED", ended[s] < conn, s \in alive', ListComing
        PROVE  ListComing'
    <3>0. conn \in Conns
      BY <2>1, Zenon DEF TypeOK
    <3>1. CASE ~gw[conn].reg \/ gw[conn].pc \in {"marked", "registered", "listed"}
      BY <1>2, <3>1, Zenon DEF ListComing
    <3>2. ASSUME NEW m \in Range(out[conn]), m.cmd = "reconcile"
          PROVE  ListComing'
      <4>1. s \notin m.active
        BY <2>1, <3>0, <3>2, Zenon DEF ListsInv
      <4>2. m \in Range(out'[conn])
        BY <2>1, <3>2, <4>1, Zenon DEF DaemonEffect
      <4> QED BY <1>2, <3>2, <4>2, Zenon DEF ListComing
    <3> QED BY <2>1, <3>1, <3>2, Zenon DEF ListComing
  <2>2. alive' \subseteq alive /\ spilled \subseteq spilled'
    BY Zenon DEF DaemonEffect
  <2> QED BY <1>2, <1>8, <2>1, <2>2, OrphansKept, Zenon
<1> QED BY <1>1, <1>3, <1>5, <1>6, <1>7, <1>9, <1>10, Zenon

(* What taking a command contributes to the effect of a step. *)
LEMMA CommandTaken ==
  ASSUME ControlInv, NEW c, Gets(c), Consume, req' = req
  PROVE  /\ conn \in Conns /\ conn # None /\ Head(out[conn]) \in Commands /\ Head(out[conn]).cmd = c
         /\ Head(out[conn]) \in Range(out[conn])
         /\ out' \in [Conns -> Seq(Commands)] /\ \A k \in Conns : Len(out'[k]) <= OutCap
         /\ \A k \in Conns : out[k] = <<>> => out'[k] = <<>>
         /\ \A k \in Conns : Range(out'[k]) \subseteq Range(out[k])
         /\ \A k \in Conns : \A y : OnceIn(out[k], y) => OnceIn(out'[k], y)
         /\ \A m \in Range(out[conn]) : m \notin Range(out'[conn]) => m = Head(out[conn])
         /\ \A s \in Sessions : Starting(s)' => Starting(s)
         /\ c # "reconcile" => Head(out[conn]).sid \in Sessions /\ Head(out[conn]) = Cmd(c, Head(out[conn]).sid)
         /\ c = "reconcile" => Head(out[conn]).active \subseteq Sessions
<1>1. TypeOK /\ conn # None /\ out[conn] # <<>> /\ Head(out[conn]).cmd = c
  BY Zenon DEF ControlInv, Gets
<1>2. /\ conn \in Conns /\ Head(out[conn]) \in Commands
      /\ out' \in [Conns -> Seq(Commands)] /\ \A k \in Conns : Len(out'[k]) <= OutCap
      /\ \A k \in Conns : k # conn => out'[k] = out[k]
      /\ Range(out[conn]) = {Head(out[conn])} \cup Range(out'[conn])
      /\ \A y : OnceIn(out[conn], y) => OnceIn(out'[conn], y) /\ (Head(out[conn]) = y => y \notin Range(out'[conn]))
  BY <1>1, Consumed, Zenon
<1>3. \A k \in Conns : out[k] = <<>> => out'[k] = <<>>
  BY <1>1, <1>2, Zenon
<1>4. \A k \in Conns : Range(out'[k]) \subseteq Range(out[k])
  BY <1>2, Zenon
<1>5. \A k \in Conns : \A y : OnceIn(out[k], y) => OnceIn(out'[k], y)
  BY <1>2, Zenon
<1>6. \A s \in Sessions : Starting(s)' => Starting(s)
  BY <1>4, Zenon DEF Starting
<1>7. /\ c # "reconcile" => Head(out[conn]).sid \in Sessions /\ Head(out[conn]) = Cmd(c, Head(out[conn]).sid)
      /\ c = "reconcile" => Head(out[conn]).active \subseteq Sessions
  BY <1>1, <1>2, Forms, Zenon
<1> QED BY <1>1, <1>2, <1>3, <1>4, <1>5, <1>6, <1>7, Zenon

(* A command other than a list of sessions names its session. *)
LEMMA CommandNamed ==
  ASSUME ControlInv, NEW c \in {"start", "suspend", "resume", "kill"}, Gets(c), Consume, req' = req
  PROVE  \E s \in Sessions : Head(out[conn]) = Cmd(c, s) /\ s = Head(out[conn]).sid
<1>1. Head(out[conn]).sid \in Sessions /\ Head(out[conn]) = Cmd(c, Head(out[conn]).sid)
  BY CommandTaken, Zenon
<1> QED BY <1>1, Zenon

(* A start that is taken was the only one for its session. *)
LEMMA StartTaken ==
  ASSUME ControlInv, Gets("start"), Consume, req' = req, NEW s \in Sessions, Head(out[conn]) = Cmd("start", s)
  PROVE  rows[s] # "none" /\ Starting(s) /\ ~Starting(s)' /\ sat[s] = "none" /\ s \notin alive /\ Unheard(s)
<1>1. /\ conn \in Conns /\ Head(out[conn]) \in Range(out[conn])
      /\ \A k \in Conns : Range(out'[k]) \subseteq Range(out[k])
  BY CommandTaken, Zenon
<1>2. Cmd("start", s) \in Range(out[conn])
  BY <1>1, Zenon
<1>3. Starting(s)
  BY <1>1, <1>2, Zenon DEF Starting
<1>4. rows[s] # "none" /\ sat[s] = "none" /\ s \notin alive /\ Unheard(s)
  BY <1>3, Zenon DEF ControlInv, StartsInv
<1>5. \A d \in Clients : Cmd("start", s) \notin Range(req[d])
  BY <1>1, <1>2, Zenon DEF ControlInv, StartsInv
<1>6. \A k \in Conns : k # conn => Cmd("start", s) \notin Range(out[k])
  BY <1>1, <1>2, Zenon DEF ControlInv, StartsInv
<1>7. Cmd("start", s) \notin Range(out'[conn])
  <2>1. TypeOK /\ conn # None /\ out[conn] # <<>>
    BY Zenon DEF ControlInv, Gets
  <2>2. OnceIn(out[conn], Cmd("start", s))
    BY <1>1, Zenon DEF ControlInv, StartsInv
  <2> QED BY <2>1, <2>2, Consumed, Zenon
<1>8. ~Starting(s)'
  BY <1>1, <1>5, <1>6, <1>7, Zenon DEF Starting
<1> QED BY <1>3, <1>4, <1>8, Zenon

(* A session with an entry is past its start. *)
LEMMA EntryStarted ==
  ASSUME ControlInv, NEW s \in Sessions, sat[s] # "none" \/ s \in alive, Starting(s)' => Starting(s)
  PROVE  rows[s] # "none" /\ ~Starting(s)'
BY Zenon DEF ControlInv, StartsInv

(* CreateSession fails and the daemon reports the session terminated. *)
LEMMA StartFailsKeeps ==
  ASSUME ControlInv, StartFails
  PROVE  ControlInv'
<1>1. /\ UNCHANGED <<rows, asked, req, status, stream, gw, ended, up, used, conn, sat, alive, begun, restarts>>
      /\ Gets("start") /\ Consume /\ ReportAll(<<Update(Head(out[conn]).sid, "TERMINATED")>>)
  BY Zenon DEF StartFails, Report, nexus
<1>2. TypeOK /\ EntriesInv
  BY Zenon DEF ControlInv
<1>3. PICK s \in Sessions : Head(out[conn]) = Cmd("start", s) /\ s = Head(out[conn]).sid
  BY <1>1, CommandNamed, Zenon
<1> DEFINE ms == <<Update(s, "TERMINATED")>>
<1>4. ms \in Seq(Updates) /\ Range(ms) = {Update(s, "TERMINATED")} /\ Update(s, "TERMINATED").sid = s
  BY OneReport, Zenon
<1> HIDE DEF ms
<1>5. rows[s] # "none" /\ ~Starting(s)'
  BY <1>1, <1>3, StartTaken, Zenon
<1>6. /\ prio' \in Seq(Updates) /\ Len(prio') <= PrioCap
      /\ Range(prio) \subseteq Range(prio') /\ Range(prio') \subseteq Range(prio) \cup Range(ms)
      /\ spilled' \subseteq Conns \cup {None} /\ spilled \subseteq spilled'
  <2>1. ReportAll(ms)
    BY <1>1, <1>3, Zenon DEF ms
  <2> QED BY <1>2, <1>4, <2>1, ReportEffect, Zenon
<1>7. \A m \in Range(prio') : m \in Range(prio) \/ (rows[m.sid] # "none" /\ ~Starting(m.sid)')
  BY <1>4, <1>5, <1>6, Zenon
<1>8. /\ out' \in [Conns -> Seq(Commands)] /\ \A k \in Conns : Len(out'[k]) <= OutCap
      /\ \A k \in Conns : out[k] = <<>> => out'[k] = <<>>
      /\ \A k \in Conns : Range(out'[k]) \subseteq Range(out[k])
      /\ \A k \in Conns : \A y : OnceIn(out[k], y) => OnceIn(out'[k], y)
      /\ \A m \in Range(out[conn]) : m \notin Range(out'[conn]) => m = Head(out[conn])
      /\ Head(out[conn]).cmd = "start"
  BY <1>1, CommandTaken, Zenon
<1>9. sat \in [Sessions -> {"none", "RUNNING", "SUSPENDED", "TERMINATED"}] /\ \A t \in alive : sat[t] \in {"RUNNING", "SUSPENDED"}
  BY <1>2, Zenon DEF TypeOK, EntriesInv
<1>10. DaemonEffect
  BY <1>1, <1>6, <1>7, <1>8, <1>9, Zenon DEF DaemonEffect
<1> QED BY <1>10, DaemonEffectKeeps, Zenon

(* handleSuspendCommand and handleResumeCommand set the entry's state. *)
LEMMA SetStateKeeps ==
  ASSUME ControlInv, NEW c \in {"suspend", "resume"}, NEW to \in {"RUNNING", "SUSPENDED"}, SetState(c, to)
  PROVE  ControlInv'
<1>1. /\ UNCHANGED <<rows, asked, req, status, stream, gw, ended, up, used, conn, alive, begun, restarts>>
      /\ Gets(c) /\ Consume
  BY Zenon DEF SetState, nexus
<1>2. TypeOK /\ EntriesInv
  BY Zenon DEF ControlInv
<1>3. PICK s \in Sessions : s = Head(out[conn]).sid
  BY <1>1, CommandTaken, Zenon
<1>4. /\ out' \in [Conns -> Seq(Commands)] /\ \A k \in Conns : Len(out'[k]) <= OutCap
      /\ \A k \in Conns : out[k] = <<>> => out'[k] = <<>>
      /\ \A k \in Conns : Range(out'[k]) \subseteq Range(out[k])
      /\ \A k \in Conns : \A y : OnceIn(out[k], y) => OnceIn(out'[k], y)
      /\ \A m \in Range(out[conn]) : m \notin Range(out'[conn]) => m = Head(out[conn])
      /\ Head(out[conn]).cmd = c
      /\ \A t \in Sessions : Starting(t)' => Starting(t)
  BY <1>1, CommandTaken, Zenon
<1>5. sat \in [Sessions -> {"none", "RUNNING", "SUSPENDED", "TERMINATED"}] /\ \A t \in alive : sat[t] \in {"RUNNING", "SUSPENDED"}
  BY <1>2, Zenon DEF TypeOK, EntriesInv
<1>6. CASE sat[s] = "none"
  <2>1. UNCHANGED <<sat, prio, spilled>>
    BY <1>3, <1>6, Zenon DEF SetState
  <2>2. prio \in Seq(Updates) /\ Len(prio) <= PrioCap /\ spilled \subseteq Conns \cup {None}
    BY <1>2, Zenon DEF TypeOK
  <2>3. DaemonEffect
    BY <1>1, <1>4, <1>5, <2>1, <2>2, Zenon DEF DaemonEffect
  <2> QED BY <2>3, DaemonEffectKeeps, Zenon
<1>7. CASE sat[s] # "none"
  <2> DEFINE ms == <<Update(s, to)>>
  <2>1. sat' = [sat EXCEPT ![s] = to] /\ ReportAll(ms)
    BY <1>3, <1>7, Zenon DEF SetState, Report
  <2>2. ms \in Seq(Updates) /\ Range(ms) = {Update(s, to)} /\ Update(s, to).sid = s
    BY OneReport, Zenon
  <2> HIDE DEF ms
  <2>3. rows[s] # "none" /\ ~Starting(s)'
    BY <1>4, <1>7, EntryStarted, Zenon
  <2>4. /\ prio' \in Seq(Updates) /\ Len(prio') <= PrioCap
        /\ Range(prio) \subseteq Range(prio') /\ Range(prio') \subseteq Range(prio) \cup Range(ms)
        /\ spilled' \subseteq Conns \cup {None} /\ spilled \subseteq spilled'
    BY <1>2, <2>1, <2>2, ReportEffect, Zenon
  <2>5. \A m \in Range(prio') : m \in Range(prio) \/ (rows[m.sid] # "none" /\ ~Starting(m.sid)')
    BY <2>2, <2>3, <2>4, Zenon
  <2>6. /\ sat' \in [Sessions -> {"none", "RUNNING", "SUSPENDED", "TERMINATED"}]
        /\ \A t \in alive : sat'[t] \in {"RUNNING", "SUSPENDED"}
        /\ \A t \in Sessions : sat[t] = "none" => sat'[t] = "none"
    BY <1>2, <1>5, <1>7, <2>1, Zenon DEF TypeOK
  <2>7. DaemonEffect
    BY <1>1, <1>4, <2>4, <2>5, <2>6, Zenon DEF DaemonEffect
  <2> QED BY <2>7, DaemonEffectKeeps
<1> QED BY <1>6, <1>7, Zenon

(* handleKillCommand ends the process, whose exit goroutine reports it. *)
LEMMA KillKeeps ==
  ASSUME ControlInv, Kill
  PROVE  ControlInv'
<1>1. /\ UNCHANGED <<rows, asked, req, status, stream, gw, ended, up, used, conn, begun, restarts>>
      /\ Gets("kill") /\ Consume
  BY Zenon DEF Kill, nexus
<1>2. TypeOK /\ EntriesInv
  BY DEF ControlInv
<1>3. PICK s \in Sessions : s = Head(out[conn]).sid
  BY <1>1, CommandNamed, Zenon
<1>4. /\ out' \in [Conns -> Seq(Commands)] /\ \A k \in Conns : Len(out'[k]) <= OutCap
      /\ \A k \in Conns : out[k] = <<>> => out'[k] = <<>>
      /\ \A k \in Conns : Range(out'[k]) \subseteq Range(out[k])
      /\ \A k \in Conns : \A y : OnceIn(out[k], y) => OnceIn(out'[k], y)
      /\ \A m \in Range(out[conn]) : m \notin Range(out'[conn]) => m = Head(out[conn])
      /\ Head(out[conn]).cmd = "kill"
      /\ \A t \in Sessions : Starting(t)' => Starting(t)
  BY <1>1, CommandTaken, Zenon
<1>5. /\ sat \in [Sessions -> {"none", "RUNNING", "SUSPENDED", "TERMINATED"}]
      /\ alive \subseteq Sessions /\ \A t \in alive : sat[t] \in {"RUNNING", "SUSPENDED"}
  BY <1>2, Zenon DEF TypeOK, EntriesInv
<1>6. CASE sat[s] = "none"
  <2>1. UNCHANGED <<sat, alive, prio, spilled>>
    BY <1>3, <1>6, Zenon DEF Kill
  <2>2. prio \in Seq(Updates) /\ Len(prio) <= PrioCap /\ spilled \subseteq Conns \cup {None}
    BY <1>2, Zenon DEF TypeOK
  <2>3. DaemonEffect
    BY <1>1, <1>4, <1>5, <2>1, <2>2, Zenon DEF DaemonEffect
  <2> QED BY <2>3, DaemonEffectKeeps
<1>7. CASE sat[s] # "none"
  <2> DEFINE u == Update(s, "TERMINATED")
             ms == CloseReports(s) \o <<u>>
  <2>1. sat' = [sat EXCEPT ![s] = "none"] /\ alive' = alive \ {s} /\ ReportAll(ms)
    BY <1>3, <1>7, Zenon DEF Kill
  <2>2. u \in Updates /\ u.sid = s
    BY Made, Zenon
  <2>3. /\ CloseReports(s) \in Seq(Updates) /\ Range(CloseReports(s)) \subseteq {u}
        /\ <<u>> \in Seq(Updates) /\ Range(<<u>>) = {u}
    BY <2>2, ShortQueues DEF CloseReports
  <2> HIDE DEF u
  <2>4. ms \in Seq(Updates) /\ Range(ms) = {u}
    <3> DEFINE q == CloseReports(s)
               r == <<u>>
    <3>1. q \in Seq(Updates) /\ Range(q) \subseteq {u} /\ r \in Seq(Updates) /\ Range(r) = {u} /\ ms = q \o r
      BY <2>3, Zenon
    <3> HIDE DEF q, r, ms
    <3>2. q \o r \in Seq(Updates) /\ Range(q \o r) = Range(q) \cup Range(r)
      BY <3>1, Joined
    <3> QED BY <3>1, <3>2, Zenon
  <2> HIDE DEF ms
  <2>5. rows[s] # "none" /\ ~Starting(s)'
    BY <1>4, <1>7, EntryStarted, Zenon
  <2>6. /\ prio' \in Seq(Updates) /\ Len(prio') <= PrioCap
        /\ Range(prio) \subseteq Range(prio') /\ Range(prio') \subseteq Range(prio) \cup Range(ms)
        /\ spilled' \subseteq Conns \cup {None} /\ spilled \subseteq spilled'
        /\ conn \notin spilled' => Range(ms) \subseteq Range(prio')
    BY <1>2, <2>1, <2>4, ReportEffect, Zenon
  <2>7. \A m \in Range(prio') : m \in Range(prio) \/ (rows[m.sid] # "none" /\ ~Starting(m.sid)')
    BY <2>2, <2>4, <2>5, <2>6, Zenon
  <2>8. conn \notin spilled' => \A t \in alive \ alive' : Update(t, "TERMINATED") \in Range(prio')
    BY <2>1, <2>4, <2>6, Zenon DEF u
  <2>9. /\ sat' \in [Sessions -> {"none", "RUNNING", "SUSPENDED", "TERMINATED"}]
        /\ alive' \subseteq alive /\ \A t \in alive' : sat'[t] \in {"RUNNING", "SUSPENDED"}
        /\ \A t \in Sessions : sat[t] = "none" => sat'[t] = "none"
    BY <1>5, <2>1, Zenon
  <2>10. DaemonEffect
    BY <1>1, <1>4, <2>6, <2>7, <2>8, <2>9, Zenon DEF DaemonEffect
  <2> QED BY <2>10, DaemonEffectKeeps
<1> QED BY <1>6, <1>7, Zenon

(* handleSessionReconciliation ends every process that was not listed. *)
LEMMA ReconcileKeeps ==
  ASSUME ControlInv, Reconcile
  PROVE  ControlInv'
<1>1. /\ UNCHANGED <<rows, asked, req, status, stream, gw, ended, up, used, conn, begun, restarts>>
      /\ Gets("reconcile") /\ Consume
  BY Zenon DEF Reconcile, nexus
<1>2. TypeOK /\ EntriesInv
  BY DEF ControlInv
<1>3. PICK a \in SUBSET Sessions : a = Head(out[conn]).active
  BY <1>1, CommandTaken, Zenon
<1>4. /\ out' \in [Conns -> Seq(Commands)] /\ \A k \in Conns : Len(out'[k]) <= OutCap
      /\ \A k \in Conns : out[k] = <<>> => out'[k] = <<>>
      /\ \A k \in Conns : Range(out'[k]) \subseteq Range(out[k])
      /\ \A k \in Conns : \A y : OnceIn(out[k], y) => OnceIn(out'[k], y)
      /\ \A m \in Range(out[conn]) : m \notin Range(out'[conn]) => m = Head(out[conn])
      /\ \A t \in Sessions : Starting(t)' => Starting(t)
  BY <1>1, CommandTaken, Zenon
<1>5. /\ sat \in [Sessions -> {"none", "RUNNING", "SUSPENDED", "TERMINATED"}]
      /\ alive \subseteq Sessions /\ \A t \in alive : sat[t] \in {"RUNNING", "SUSPENDED"}
  BY <1>2, Zenon DEF TypeOK, EntriesInv
<1>6. PICK gone \in SUBSET Sessions : gone = Orphans(a)
  BY Zenon DEF Orphans, Entries
<1>7. /\ sat' = [s \in Sessions |-> IF s \in gone THEN "none" ELSE sat[s]]
      /\ alive' = alive \ gone
      /\ \E order \in Orders(gone \cap alive) : ReportAll([i \in DOMAIN order |-> Update(order[i], "TERMINATED")])
  BY <1>3, <1>6, Zenon DEF Reconcile
<1>8. \A s \in alive : s \notin a => s \in gone
  BY <1>5, <1>6, Zenon DEF Orphans, Entries
<1> DEFINE S == gone \cap alive
<1>9. PICK order \in Orders(S) : ReportAll([i \in DOMAIN order |-> Update(order[i], "TERMINATED")])
  BY <1>7, Zenon
<1> DEFINE ms == [i \in DOMAIN order |-> Update(order[i], "TERMINATED")]
<1>10. S \subseteq Sessions /\ S = alive \ alive'
  BY <1>7, Zenon
<1> HIDE DEF S
<1>11. \A i \in DOMAIN order : order[i] \in S
  BY <1>10, Ordered, Zenon
<1>12. \A i \in DOMAIN order : ms[i] \in Updates /\ ms[i].sid = order[i] /\ ms[i].to = "TERMINATED"
  BY <1>10, <1>11, Made, Zenon
<1>13. ms \in [DOMAIN order -> Updates] /\ ReportAll(ms)
  BY <1>9, <1>12, Zenon
<1> HIDE DEF ms
<1>14. /\ ms \in Seq(Updates) /\ \A m \in Range(ms) : m.sid \in S
       /\ \A s \in S : \E m \in Range(ms) : m.sid = s
  <2>1. S \subseteq Sessions /\ ms \in [DOMAIN order -> Updates]
    BY <1>10, <1>13, Zenon
  <2>2. \A i \in DOMAIN order : ms[i].sid = order[i]
    BY <1>12, Zenon
  <2>3. ms \in Seq(Updates) /\ \A m \in Range(ms) : m.sid \in S
    BY <2>1, <2>2, OrderReported, Zenon
  <2>4. ASSUME NEW s \in S PROVE \E m \in Range(ms) : m.sid = s
    BY <2>1, <2>2, OrderReported
  <2> QED BY <2>3, <2>4, Zenon
<1>15. \A s \in S : Update(s, "TERMINATED") \in Range(ms)
  <2>1. \A m \in Range(ms) : m \in Updates /\ m.to = "TERMINATED"
    BY <1>12, <1>13, Zenon DEF Range
  <2> QED BY <1>14, <2>1, Forms, SMTT(30)
<1>16. /\ prio' \in Seq(Updates) /\ Len(prio') <= PrioCap
       /\ Range(prio) \subseteq Range(prio') /\ Range(prio') \subseteq Range(prio) \cup Range(ms)
       /\ spilled' \subseteq Conns \cup {None} /\ spilled \subseteq spilled'
       /\ conn \notin spilled' => Range(ms) \subseteq Range(prio')
  BY <1>2, <1>13, <1>14, ReportEffect, Zenon
<1>17. \A s \in S : rows[s] # "none" /\ ~Starting(s)'
  BY <1>4, <1>10, EntryStarted, Zenon
<1>18. \A m \in Range(prio') : m \in Range(prio) \/ (rows[m.sid] # "none" /\ ~Starting(m.sid)')
  BY <1>14, <1>16, <1>17, Zenon
<1>19. conn \notin spilled' => \A s \in alive \ alive' : Update(s, "TERMINATED") \in Range(prio')
  BY <1>10, <1>15, <1>16, Zenon
<1>20. /\ sat' \in [Sessions -> {"none", "RUNNING", "SUSPENDED", "TERMINATED"}]
       /\ alive' \subseteq alive /\ \A t \in alive' : sat'[t] \in {"RUNNING", "SUSPENDED"}
       /\ \A t \in Sessions : sat[t] = "none" => sat'[t] = "none"
  BY <1>5, <1>7, Zenon
<1>21. \A m \in Range(out[conn]) : m \notin Range(out'[conn]) => alive' \subseteq m.active
  BY <1>3, <1>4, <1>7, <1>8, Zenon
<1>22. DaemonEffect
  BY <1>1, <1>4, <1>16, <1>18, <1>19, <1>20, <1>21, Zenon DEF DaemonEffect
<1> QED BY <1>22, DaemonEffectKeeps

(* A process ends by itself and the exit goroutine reports it. *)
LEMMA ProcessExitKeeps ==
  ASSUME ControlInv, NEW s \in Sessions, ProcessExit(s)
  PROVE  ControlInv'
<1> DEFINE u == Update(s, "TERMINATED")
           ms == <<u>>
<1>1. /\ UNCHANGED <<rows, asked, req, status, stream, gw, ended, out, up, used, conn, begun, restarts>>
      /\ s \in alive /\ alive' = alive \ {s} /\ sat' = [sat EXCEPT ![s] = "TERMINATED"] /\ ReportAll(ms)
  BY Zenon DEF ProcessExit, Report, nexus
<1>2. TypeOK /\ EntriesInv
  BY Zenon DEF ControlInv
<1>3. /\ sat \in [Sessions -> {"none", "RUNNING", "SUSPENDED", "TERMINATED"}]
      /\ alive \subseteq Sessions /\ \A t \in alive : sat[t] \in {"RUNNING", "SUSPENDED"}
      /\ out \in [Conns -> Seq(Commands)] /\ \A k \in Conns : Len(out[k]) <= OutCap
  BY <1>2, Zenon DEF TypeOK, EntriesInv
<1>4. ms \in Seq(Updates) /\ Range(ms) = {u} /\ u.sid = s
  BY OneReport, Zenon
<1> HIDE DEF ms
<1>5. rows[s] # "none" /\ ~Starting(s)'
  <2>1. Starting(s)' => Starting(s)
    BY <1>1, Zenon DEF Starting
  <2> QED BY <1>1, <2>1, EntryStarted, Zenon
<1>6. /\ prio' \in Seq(Updates) /\ Len(prio') <= PrioCap
      /\ Range(prio) \subseteq Range(prio') /\ Range(prio') \subseteq Range(prio) \cup Range(ms)
      /\ spilled' \subseteq Conns \cup {None} /\ spilled \subseteq spilled'
      /\ conn \notin spilled' => Range(ms) \subseteq Range(prio')
  BY <1>1, <1>2, <1>4, ReportEffect, Zenon
<1>7. \A m \in Range(prio') : m \in Range(prio) \/ (rows[m.sid] # "none" /\ ~Starting(m.sid)')
  BY <1>4, <1>5, <1>6, Zenon
<1>8. conn \notin spilled' => \A t \in alive \ alive' : Update(t, "TERMINATED") \in Range(prio')
  BY <1>1, <1>4, <1>6, Zenon
<1>9. /\ sat' \in [Sessions -> {"none", "RUNNING", "SUSPENDED", "TERMINATED"}]
      /\ alive' \subseteq alive /\ \A t \in alive' : sat'[t] \in {"RUNNING", "SUSPENDED"}
      /\ \A t \in Sessions : sat[t] = "none" => sat'[t] = "none"
  BY <1>1, <1>3, Zenon
<1> HIDE DEF u
<1>10. DaemonEffect
  BY <1>1, <1>3, <1>6, <1>7, <1>8, <1>9, Zenon DEF DaemonEffect
<1> QED BY <1>10, DaemonEffectKeeps

(* CreateSession starts the process of a session that was not started before. *)
LEMMA StartSessionKeeps ==
  ASSUME ControlInv, StartSession
  PROVE  ControlInv'
<1>1. /\ UNCHANGED <<rows, asked, req, status, stream, gw, ended, up, used, conn, restarts>>
      /\ Gets("start") /\ Consume
  BY Zenon DEF StartSession, nexus
<1>2. TypeOK /\ ConnsInv /\ StartsInv /\ EntriesInv /\ EndsInv /\ ListsInv /\ OrphansInv
  BY DEF ControlInv
<1>3. PICK s \in Sessions : Head(out[conn]) = Cmd("start", s) /\ s = Head(out[conn]).sid
  BY <1>1, CommandNamed, Zenon
<1> DEFINE ms == <<Update(s, "RUNNING")>>
<1>4. /\ sat' = [sat EXCEPT ![s] = "RUNNING"] /\ alive' = alive \cup {s} /\ begun' = [begun EXCEPT ![s] = used]
      /\ ReportAll(ms)
  BY <1>3, Zenon DEF StartSession, Report
<1>5. ms \in Seq(Updates) /\ Range(ms) = {Update(s, "RUNNING")} /\ Update(s, "RUNNING").sid = s
  BY OneReport, Zenon
<1> HIDE DEF ms
<1>6. rows[s] # "none" /\ Starting(s) /\ ~Starting(s)' /\ Unheard(s)
  BY <1>1, <1>3, StartTaken, Zenon
<1>7. /\ conn \in Conns /\ conn # None
      /\ out' \in [Conns -> Seq(Commands)] /\ \A k \in Conns : Len(out'[k]) <= OutCap
      /\ \A k \in Conns : out[k] = <<>> => out'[k] = <<>>
      /\ \A k \in Conns : Range(out'[k]) \subseteq Range(out[k])
      /\ \A k \in Conns : \A y : OnceIn(out[k], y) => OnceIn(out'[k], y)
      /\ \A m \in Range(out[conn]) : m \notin Range(out'[conn]) => m = Head(out[conn])
      /\ Head(out[conn]).cmd = "start"
      /\ \A t \in Sessions : Starting(t)' => Starting(t)
  BY <1>1, CommandTaken, Zenon
<1>8. /\ prio' \in Seq(Updates) /\ Len(prio') <= PrioCap
      /\ Range(prio) \subseteq Range(prio') /\ Range(prio') \subseteq Range(prio) \cup Range(ms)
      /\ spilled' \subseteq Conns \cup {None} /\ spilled \subseteq spilled'
  BY <1>2, <1>4, <1>5, ReportEffect, Zenon
<1>9. /\ sat' \in [Sessions -> {"none", "RUNNING", "SUSPENDED", "TERMINATED"}] /\ sat'[s] = "RUNNING"
      /\ begun' \in [Sessions -> 0 .. used] /\ begun'[s] = used
      /\ \A t \in Sessions : t # s => sat'[t] = sat[t] /\ begun'[t] = begun[t]
  <2>1. used \in 0 .. used
    BY <1>2, Counted
  <2> QED BY <1>2, <1>4, <2>1, Zenon DEF TypeOK
<1>10. conn = used
  BY <1>2, <1>7, Zenon DEF ConnsInv
<1>11. TypeOK'
  BY <1>1, <1>2, <1>4, <1>7, <1>8, <1>9, Zenon DEF TypeOK
<1>12. ConnsInv'
  BY <1>1, <1>2, <1>7, Zenon DEF ConnsInv
<1>13. \A k \in Conns, t \in Sessions : Reaches(k, t)' <=> Reaches(k, t)
  BY <1>1, Zenon DEF Reaches
<1>14. StartsInv'
  <2> SUFFICES ASSUME NEW t \in Sessions
               PROVE  /\ rows'[t] = "none" => ~Starting(t)'
                      /\ rows'[t] = "none" \/ Starting(t)' => sat'[t] = "none" /\ t \notin alive' /\ Unheard(t)'
                      /\ \A b, d \in Clients : Begins(req'[b], t) /\ Begins(req'[d], t) => b = d
                      /\ \A d \in Clients, g \in Conns : Begins(req'[d], t) => ~Begins(out'[g], t)
                      /\ \A g, h \in Conns : Begins(out'[g], t) /\ Begins(out'[h], t) => g = h
                      /\ \A g \in Conns : OnceIn(out'[g], Cmd("start", t))
    BY Zenon DEF StartsInv, Begins
  <2>1. /\ rows[t] = "none" => ~Starting(t)
        /\ rows[t] = "none" \/ Starting(t) => sat[t] = "none" /\ t \notin alive /\ Unheard(t)
        /\ \A b, d \in Clients : Begins(req[b], t) /\ Begins(req[d], t) => b = d
        /\ \A d \in Clients, g \in Conns : Begins(req[d], t) => ~Begins(out[g], t)
        /\ \A g, h \in Conns : Begins(out[g], t) /\ Begins(out[h], t) => g = h
        /\ \A g \in Conns : OnceIn(out[g], Cmd("start", t))
    BY <1>2, Zenon DEF StartsInv, Begins
  <2>2. \A g \in Conns : Begins(out'[g], t) => Begins(out[g], t)
    BY <1>7, Zenon DEF Begins
  <2>3. ASSUME rows'[t] = "none" \/ Starting(t)' PROVE sat'[t] = "none" /\ t \notin alive' /\ Unheard(t)'
    <3>1. t # s /\ Unheard(t) /\ sat[t] = "none" /\ t \notin alive
      BY <1>1, <1>6, <1>7, <2>1, <2>3, Zenon
    <3>2. \A m \in Range(prio') : ~About(m, t)
      BY <1>5, <1>8, <3>1, Zenon DEF Unheard, About
    <3>3. Unheard(t)'
      BY <1>13, <3>1, <3>2, Zenon DEF Unheard
    <3> QED BY <1>4, <1>9, <3>1, <3>3, Zenon
  <2> QED BY <1>1, <1>7, <2>1, <2>2, <2>3, Zenon
<1>15. EntriesInv'
  <2>1. \A k \in Conns : ~Reaches(k, s)
    BY <1>6, Zenon DEF Unheard
  <2> QED BY <1>2, <1>4, <1>9, <1>13, <2>1, Zenon DEF EntriesInv
<1>16. EndsInv'
  <2>1. \A t \in Sessions : (Final(t)' <=> Final(t)) /\ (Reviving(t)' <=> Reviving(t))
    BY <1>1, Zenon DEF Final, Reviving
  <2>2. \A t \in Sessions : Told(t) => Told(t)'
    BY <1>1, <1>8, Zenon DEF Told
  <2> QED BY <1>1, <1>2, <1>4, <1>8, <1>9, <2>1, <2>2, Zenon DEF EndsInv
<1>17. ListsInv'
  <2>1. \A k \in Conns : k > used => gw[k].pc # "listed"
    BY <1>2, Opened, Zenon
  <2>2. OldEnds
    BY <1>1, Zenon DEF OldEnds
  <2> QED BY <1>1, <1>2, <1>7, <2>1, <2>2, ListsKept, Zenon
<1>18. OrphansInv'
  <2> SUFFICES ASSUME NEW t \in Sessions, conn \notin spilled', rows[t] = "TERMINATED",
                      ended[t] < conn, begun'[t] < conn, t \in alive'
               PROVE  ListComing'
    BY <1>1, Zenon DEF OrphansInv
  <2>1. t # s
    BY <1>2, <1>9, <1>10, Counted
  <2>2. ListComing
    BY <1>2, <1>4, <1>7, <1>8, <1>9, <2>1, Zenon DEF OrphansInv
  <2>3. \A m \in Range(out[conn]) : m.cmd = "reconcile" => m \in Range(out'[conn])
    BY <1>7, Zenon
  <2> QED BY <1>1, <2>2, <2>3, Zenon DEF ListComing
<1> QED BY <1>11, <1>12, <1>14, <1>15, <1>16, <1>17, <1>18, Zenon DEF ControlInv
-----------------------------------------------------------------------------
(* The invariant holds at the start. *)
LEMMA ControlInit == Init => ControlInv
<1> SUFFICES ASSUME Init PROVE ControlInv
  OBVIOUS
<1>1. Handler("unused", FALSE) \in Handlers /\ Handler("unused", FALSE).pc = "unused"
      /\ Handler("unused", FALSE).upd = <<>> /\ Handler("unused", FALSE).reg = FALSE
  BY Made, Zenon
<1>2. TypeOK
  <2>1. MaxConns \in Nat /\ MaxRequests \in Nat /\ MaxRestarts \in Nat /\ Len(<<>>) = 0
        /\ 0 <= OutCap /\ 0 <= NetCap /\ 0 <= PrioCap
    BY CapsAssumption
  <2>2. req \in [Clients -> Optional(Requests)] /\ gw \in [Conns -> Handlers]
    BY <1>1, Options, Zenon DEF Init
  <2>3. /\ out \in [Conns -> Seq(Commands)] /\ up \in [Conns -> Seq(Updates \cup {Register})]
        /\ \A g \in Conns : Len(out[g]) <= OutCap /\ Len(up[g]) <= NetCap
    BY <2>1 DEF Init
  <2>4. prio \in Seq(Updates) /\ Len(prio) <= PrioCap
    BY <2>1 DEF Init
  <2>5. 0 \in 0 .. MaxRequests /\ 0 \in 0 .. MaxConns /\ 0 \in 0 .. MaxRestarts /\ 0 \in 0 .. 0
    BY <2>1
  <2> QED BY <2>2, <2>3, <2>4, <2>5, Zenon DEF Init, TypeOK
<1>3. \A g \in Conns : /\ gw[g] = Handler("unused", FALSE) /\ out[g] = <<>> /\ up[g] = <<>>
                       /\ Range(out[g]) = {} /\ Range(up[g]) = {} /\ Range(gw[g].upd) = {}
  BY <1>1, ShortQueues, Zenon DEF Init
<1>4. ConnsInv
  BY <1>1, <1>3, Zenon DEF Init, ConnsInv
<1>5. \A s \in Sessions : ~Starting(s) /\ Unheard(s)
  <2>1. Range(prio) = {} /\ \A c \in Clients : Range(req[c]) = {}
    BY ShortQueues, Zenon DEF Init
  <2> QED BY <1>3, <2>1, Zenon DEF Starting, Unheard, Reaches
<1>6. StartsInv
  <2>1. \A c \in Clients, s \in Sessions : ~Begins(req[c], s)
    BY <1>5, Zenon DEF Starting, Begins
  <2>2. \A g \in Conns, s \in Sessions : ~Begins(out[g], s) /\ OnceIn(out[g], Cmd("start", s))
    BY <1>3, ShortQueues, Zenon DEF Begins
  <2> QED BY <1>5, <2>1, <2>2, Zenon DEF Init, StartsInv, Begins
<1>7. EntriesInv
  BY <1>5, Zenon DEF Init, EntriesInv, Unheard
<1>8. EndsInv /\ OrphansInv
  BY Zenon DEF Init, EndsInv, OrphansInv
<1>9. ListsInv
  BY <1>1, <1>3, Zenon DEF ListsInv
<1> QED BY <1>2, <1>4, <1>6, <1>7, <1>8, <1>9 DEF ControlInv

(* Every step keeps it. *)
LEMMA ControlStep == ControlInv /\ [Next]_vars => ControlInv'
<1> SUFFICES ASSUME ControlInv, [Next]_vars PROVE ControlInv'
  BY Zenon
<1>1. CASE ApiStep
  BY <1>1, ApiKeeps, Zenon DEF ApiStep, ApiOf
<1>2. CASE \E c \in Clients : Dispatch(c)
  BY <1>2, DispatchKeeps, Zenon
<1>3. CASE \E g \in Conns : GatewayStep(g) \/ HeartbeatPing(g)
  BY <1>3, RegistrationKeeps, SendReconciliationKeeps, ReceiveStateUpdateKeeps, ApplyStateUpdateKeeps,
     CleanUpKeeps, Zenon DEF GatewayStep
<1>4. CASE ConnectToNexus \/ Break \/ NexusRestart \/ DaemonRestart
  BY <1>4, ConnectToNexusKeeps, BreakKeeps, NexusRestartKeeps, DaemonRestartKeeps, Zenon
<1>5. CASE StreamWriter
  BY <1>5, StreamWriterKeeps
<1>6. CASE HandleNexusMessage
  BY <1>6, StartFailsKeeps, StartSessionKeeps, SetStateKeeps, KillKeeps, ReconcileKeeps, Zenon
     DEF HandleNexusMessage, Suspend, Resume
<1>7. CASE \E s \in Sessions : ProcessExit(s)
  BY <1>7, ProcessExitKeeps
<1>8. CASE UNCHANGED vars
  BY <1>8, Zenon DEF vars, nexus, daemon, ControlInv, TypeOK, ConnsInv, StartsInv, Starting, Unheard, Reaches, EntriesInv,
     EndsInv, Final, Reviving, Told, ListsInv, OrphansInv, ListComing
<1> QED BY <1>1, <1>2, <1>3, <1>4, <1>5, <1>6, <1>7, <1>8, Zenon DEF Next

(* What Nexus, the connections and the daemon hold of the sessions agrees, *)
(* and no queue exceeds its channel.                                       *)
THEOREM ControlInvariant == Spec => []ControlInv
BY ControlInit, ControlStep, PTL DEF Spec

(* When all is quiet, a session that was started over the present          *)
(* connection and that Nexus shows as running, detached, re-attaching or   *)
(* suspended has a process, unless a channel of the daemon was full.       *)
THEOREM ActiveSessionsHaveProcesses == Spec => []ActiveHasProcess
<1>1. ControlInv => ActiveHasProcess
  <2> SUFFICES ASSUME ControlInv, Quiet, conn \notin spilled, NEW s \in Sessions, begun[s] = conn,
                      rows[s] \in {"RUNNING", "DETACHED", "RE_ATTACHING", "SUSPENDED"}, s \notin alive
               PROVE  FALSE
    BY Zenon DEF ActiveHasProcess
  <2>1. TypeOK /\ ConnsInv /\ EndsInv /\ conn # None /\ prio = <<>>
    BY Zenon DEF ControlInv, Quiet
  <2>2. conn \in Conns
    BY <2>1, Zenon DEF TypeOK
  <2>3. up[conn] = <<>> /\ gw[conn].pc # "apply"
    BY <2>2, Zenon DEF Quiet
  <2>4. gw[conn].upd = <<>>
    BY <2>1, <2>2, <2>3, Zenon DEF ConnsInv
  <2>5. ~Told(s)
    BY <2>1, <2>3, <2>4, ShortQueues, Zenon DEF Told
  <2>6. ~Final(s)
    BY Zenon DEF Final
  <2> QED BY <2>1, <2>5, <2>6, Zenon DEF EndsInv
<1> QED BY <1>1, ControlInvariant, PTL

(* When all is quiet, a process that runs for a session Nexus shows as     *)
(* terminated was started, or its session terminated, since the last       *)
(* reconnect began, unless the list of sessions was dropped.               *)
THEOREM ReconciliationEndsOrphans == Spec => []OrphansEndAtReconnect
<1>1. ControlInv => OrphansEndAtReconnect
  <2> SUFFICES ASSUME ControlInv, Quiet, conn \notin spilled, NEW s \in Sessions, rows[s] = "TERMINATED", s \in alive,
                      ~(ended[s] >= conn), ~(begun[s] >= conn)
               PROVE  FALSE
    BY Zenon DEF OrphansEndAtReconnect
  <2>1. TypeOK /\ ConnsInv /\ OrphansInv /\ conn # None /\ stream = conn /\ out[conn] = <<>>
    BY Zenon DEF ControlInv, Quiet
  <2>2. conn \in Conns
    BY <2>1, Zenon DEF TypeOK
  <2>3. gw[conn].reg /\ gw[conn].pc \in {"recv", "done", "unused"}
    BY <2>1, <2>2, Zenon DEF Quiet, ConnsInv
  <2>4. ~ListComing
    BY <2>1, <2>3, ShortQueues, Zenon DEF ListComing
  <2>5. ended[s] < conn /\ begun[s] < conn
    BY <2>1, Counted
  <2> QED BY <2>1, <2>4, <2>5, Zenon DEF OrphansInv
<1> QED BY <1>1, ControlInvariant, PTL
=============================================================================
