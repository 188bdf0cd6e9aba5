----------------------- MODULE SessionLifecycleProofs -----------------------
(***************************************************************************)
(* Theorems about SessionLifecycle, for any number of sessions, requests   *)
(* and gateway connections.                                                *)
(***************************************************************************)
EXTENDS SessionLifecycle, TLAPS

(* Transitioned and WithState make rows of rows. *)
LEMMA RowTypes ==
  ASSUME NEW row \in Rows, NEW to \in States
  PROVE  /\ NewRow \in Rows
         /\ Transitioned(row, to) \in Rows
         /\ WithState(row, to) \in Rows
  BY DEF Rows, NewRow, Transitioned, WithState, States

(* Every handler of Nexus keeps the rows and the goroutines well typed. *)
THEOREM TypeCorrect == Spec => []TypeOK
<1>1. Init => TypeOK
  BY NoSessionAssumption DEF Init, TypeOK, Targets, IdleReq, IdleGw, NewRow, Rows, States
<1>2. TypeOK /\ [Next]_vars => TypeOK'
  <2> SUFFICES ASSUME TypeOK, [Next]_vars
               PROVE  TypeOK'
    OBVIOUS
  <2> USE DEF TypeOK
  <2>1. ASSUME NEW s \in Sessions, HandleCreateSession(s)
        PROVE  TypeOK'
    BY <2>1, RowTypes, Zenon DEF HandleCreateSession, States
  <2>2. ASSUME NEW c \in Clients, NEW s \in Sessions,
               NEW op \in DOMAIN Targets \cup {"delete"}, Lookup(c, op, s)
        PROVE  TypeOK'
    <3>1. rows[s].state \in States
      BY DEF Rows
    <3> QED BY <2>2, <3>1 DEF Lookup
  <2>3. ASSUME NEW c \in Clients, FinishTransition(c)
        PROVE  TypeOK'
    <3>1. Targets[req[c].op] \in States
      BY <2>3 DEF FinishTransition, Targets, States
    <3>2. rows' \in [Sessions -> Rows]
      BY <2>3, <3>1, RowTypes DEF FinishTransition, TransitionSession
    <3>3. IdleReq \in [op : DOMAIN Targets \cup {"idle", "delete"},
                       sid : Sessions \cup {NoSession}, saw : States]
      BY DEF IdleReq, States
    <3> QED BY <2>3, <3>2, <3>3 DEF FinishTransition
  <2>4. ASSUME NEW c \in Clients, FinishDelete(c)
        PROVE  TypeOK'
    BY <2>4, Zenon DEF FinishDelete, IdleReq, States
  <2>5. ASSUME NEW g \in Conns, NEW s \in Sessions, NEW to \in Reports,
               ReceiveStateUpdate(g, s, to)
        PROVE  TypeOK'
    <3>1. rows[s].state \in States
      BY DEF Rows
    <3> QED BY <2>5, <3>1, ReportsAssumption DEF ReceiveStateUpdate
  <2>6. ASSUME NEW g \in Conns, ApplyStateUpdate(g)
        PROVE  TypeOK'
    <3>1. rows' \in [Sessions -> Rows]
      BY <2>6, RowTypes, Zenon DEF ApplyStateUpdate
    <3> QED BY <2>6, <3>1 DEF ApplyStateUpdate, IdleGw, States
  <2>7. CASE Restart
    <3>1. rows' \in [Sessions -> Rows]
      BY <2>7, RowTypes DEF Restart, States
    <3> QED BY <2>7, <3>1 DEF Restart, IdleReq, IdleGw, States
  <2>8. CASE UNCHANGED vars
    BY <2>8 DEF vars
  <2>9. \A op \in {"attach", "detach", "suspend", "resume", "kill"} : op \in DOMAIN Targets
    BY DEF Targets
  <2> QED
    BY <2>1, <2>2, <2>3, <2>4, <2>5, <2>6, <2>7, <2>8, <2>9
    DEF Next, HandleAttachSession, HandleDetachSession, HandleSuspendSession,
        HandleResumeSession, HandleKillSession, HandleDeleteSession
<1> QED BY <1>1, <1>2, PTL DEF Spec
-----------------------------------------------------------------------------
(* Rows come into being with the INSERT, goroutines hold ids of rows that   *)
(* were inserted, and the transition a gateway goroutine is about to write  *)
(* was legal from the state that goroutine read.                            *)
HandlerInv ==
  /\ \A s \in Sessions : life[s] = "unused" => rows[s] = NewRow
  /\ \A c \in Clients : req[c].op # "idle" =>
       req[c].sid \in Sessions /\ life[req[c].sid] # "unused"
  /\ \A g \in Conns : gw[g] # IdleGw =>
       /\ gw[g].sid \in Sessions
       /\ life[gw[g].sid] # "unused"
       /\ IsTransitionValid(gw[g].saw, gw[g].to)

(* TransitionSession of the store moves a row along ValidTransitions only. *)
LEMMA StoreMovesLegally ==
  ASSUME TypeOK, NEW s \in Sessions, NEW to \in States, TransitionSession(s, to),
         NEW t \in Sessions, rows'[t].state # rows[t].state
  PROVE  IsTransitionValid(rows[t].state, rows'[t].state)
<1>1. t = s /\ IsTransitionValid(rows[s].state, to) /\ rows'[s] = Transitioned(rows[s], to)
  BY DEF TypeOK, TransitionSession
<1>2. rows'[s].state = to
  BY <1>1 DEF Transitioned
<1> QED BY <1>1, <1>2

(* Every action of Nexus preserves HandlerInv. *)
THEOREM HandlersSane == Spec => []HandlerInv
<1>1. Init => HandlerInv
  BY DEF Init, HandlerInv, IdleReq
<1>2. TypeOK /\ HandlerInv /\ [Next]_vars => HandlerInv'
  <2> SUFFICES ASSUME TypeOK, HandlerInv, [Next]_vars
               PROVE  HandlerInv'
    OBVIOUS
  <2> USE DEF TypeOK, HandlerInv
  <2>1. ASSUME NEW s \in Sessions, HandleCreateSession(s)
        PROVE  HandlerInv'
    BY <2>1 DEF HandleCreateSession
  <2>2. ASSUME NEW c \in Clients, NEW s \in Sessions, NEW op, Lookup(c, op, s)
        PROVE  HandlerInv'
    BY <2>2 DEF Lookup
  <2>3. ASSUME NEW c \in Clients, FinishTransition(c)
        PROVE  HandlerInv'
    BY <2>3 DEF FinishTransition, TransitionSession, IdleReq
  <2>4. ASSUME NEW c \in Clients, FinishDelete(c)
        PROVE  HandlerInv'
    BY <2>4 DEF FinishDelete, IdleReq
  <2>5. ASSUME NEW g \in Conns, NEW s \in Sessions, NEW to \in Reports,
               ReceiveStateUpdate(g, s, to)
        PROVE  HandlerInv'
    BY <2>5 DEF ReceiveStateUpdate
  <2>6. ASSUME NEW g \in Conns, ApplyStateUpdate(g)
        PROVE  HandlerInv'
    BY <2>6 DEF ApplyStateUpdate
  <2>7. CASE Restart
    BY <2>7 DEF Restart, IdleReq
  <2>8. CASE UNCHANGED vars
    BY <2>8 DEF vars
  <2> QED
    BY <2>1, <2>2, <2>3, <2>4, <2>5, <2>6, <2>7, <2>8
    DEF Next, HandleAttachSession, HandleDetachSession, HandleSuspendSession,
        HandleResumeSession, HandleKillSession, HandleDeleteSession
<1> QED BY <1>1, <1>2, TypeCorrect, PTL DEF Spec

(* A transition outside ValidTransitions is always a gateway write whose    *)
(* check ran against an older state of the row.                             *)
THEOREM StaleReadsOnly == Spec => IllegalOnlyFromStaleRead
<1> DEFINE Step ==
      \A s \in Sessions : IllegalMove(s) =>
        \E g \in Conns : /\ gw[g].sid = s
                         /\ gw[g].saw # rows[s].state
                         /\ IsTransitionValid(gw[g].saw, rows'[s].state)
<1>1. TypeOK /\ HandlerInv /\ [Next]_vars => [Step]_vars
  <2> SUFFICES ASSUME TypeOK, HandlerInv, Next, NEW s \in Sessions, IllegalMove(s)
               PROVE  \E g \in Conns : /\ gw[g].sid = s
                                       /\ gw[g].saw # rows[s].state
                                       /\ IsTransitionValid(gw[g].saw, rows'[s].state)
    BY DEF IllegalMove
  <2>1. ASSUME NEW t \in Sessions, HandleCreateSession(t)
        PROVE  FALSE
    BY <2>1 DEF HandleCreateSession, HandlerInv, TypeOK, IllegalMove
  <2>2. ASSUME NEW c \in Clients, FinishTransition(c)
        PROVE  FALSE
    <3>1. Targets[req[c].op] \in States
      BY <2>2 DEF FinishTransition, Targets, States
    <3>2. req[c].sid \in Sessions
      BY <2>2 DEF FinishTransition, HandlerInv, Targets
    <3> QED
      BY <2>2, <3>1, <3>2, StoreMovesLegally DEF FinishTransition, IllegalMove
  <2>3. ASSUME NEW g \in Conns, ApplyStateUpdate(g)
        PROVE  gw[g].sid = s /\ gw[g].saw # rows[s].state /\ IsTransitionValid(gw[g].saw, rows'[s].state)
    <3>1. gw[g].sid \in Sessions /\ IsTransitionValid(gw[g].saw, gw[g].to)
      BY <2>3 DEF ApplyStateUpdate, HandlerInv
    <3>2. gw[g].sid = s /\ rows'[s] = WithState(rows[s], gw[g].to)
      BY <2>3, <3>1 DEF ApplyStateUpdate, IllegalMove, TypeOK
    <3>3. rows'[s].state = gw[g].to
      BY <3>2 DEF WithState, TypeOK, Rows
    <3> QED BY <3>1, <3>2, <3>3 DEF IllegalMove
  <2>4. CASE Restart
    <3>1. rows'[s] = WithState(rows[s], "DETACHED") /\ rows[s].state \in {"RUNNING", "RE_ATTACHING"}
      BY <2>4 DEF Restart, IllegalMove
    <3>2. rows'[s].state = "DETACHED"
      BY <3>1 DEF WithState, TypeOK, Rows
    <3> QED BY <3>1, <3>2 DEF IllegalMove, IsTransitionValid, ValidTransitions, States
  <2>5. CASE UNCHANGED rows
    BY <2>5 DEF IllegalMove
  <2> QED
    BY <2>1, <2>2, <2>3, <2>4, <2>5
    DEF Next, Lookup, FinishDelete, ReceiveStateUpdate,
        HandleAttachSession, HandleDetachSession, HandleSuspendSession,
        HandleResumeSession, HandleKillSession, HandleDeleteSession
<1> QED BY <1>1, TypeCorrect, HandlersSane, PTL DEF Spec, IllegalOnlyFromStaleRead
-----------------------------------------------------------------------------
(* What the REST handlers and start-up recovery keep true of a row.  It is  *)
(* TimestampsAgree made inductive: it also says which timestamps a row that *)
(* is not RUNNING cannot have, and that no handler leads to RE_ATTACHING.   *)
RowStory(row) ==
  /\ row.terminatedAt <=> row.state = "TERMINATED"
  /\ row.state # "RE_ATTACHING"
  /\ row.state = "SUSPENDED" => row.suspendedAt /\ ~row.detachedAt
  /\ row.state = "RUNNING" => row.startedAt /\ ~row.detachedAt /\ ~row.suspendedAt
  /\ row.state = "DETACHED" => ~row.suspendedAt
  /\ row.state = "PROVISIONING" => ~row.detachedAt /\ ~row.suspendedAt
  /\ ~(row.detachedAt /\ row.suspendedAt)

RowStories == \A s \in Sessions : RowStory(rows[s])

(* A legal transition of the store that a REST handler asks for continues   *)
(* the story of the row.                                                    *)
LEMMA TransitionContinues ==
  ASSUME NEW row \in Rows, RowStory(row),
         NEW to \in {"RUNNING", "DETACHED", "SUSPENDED", "TERMINATED"},
         IsTransitionValid(row.state, to)
  PROVE  RowStory(Transitioned(row, to))
<1>1. to = "DETACHED" \/ to = "SUSPENDED" => row.state = "RUNNING"
  BY DEF Rows, IsTransitionValid, ValidTransitions, States, RowStory
<1>2. row.state # "TERMINATED"
  BY DEF Rows, IsTransitionValid, ValidTransitions, States
<1> QED BY <1>1, <1>2, Zenon DEF Rows, RowStory, Transitioned

(* Recovery moves a RUNNING row to DETACHED and keeps its story. *)
LEMMA RecoveryContinues ==
  ASSUME NEW row \in Rows, RowStory(row), row.state = "RUNNING"
  PROVE  RowStory(WithState(row, "DETACHED"))
<1>1. WithState(row, "DETACHED") =
        [state |-> "DETACHED", startedAt |-> row.startedAt, detachedAt |-> row.detachedAt,
         suspendedAt |-> row.suspendedAt, terminatedAt |-> row.terminatedAt]
  BY DEF WithState, Rows
<1> QED BY <1>1 DEF RowStory, Rows

(* One step of Nexus without gateway connections: rows keep their story and *)
(* a terminated row stays terminated.                                       *)
LEMMA ApiStep ==
  ASSUME Conns = {}, TypeOK, HandlerInv, RowStories, [Next]_vars
  PROVE  /\ RowStories'
         /\ \A s \in Sessions : rows[s].state = "TERMINATED" => rows'[s].state = "TERMINATED"
<1>1. ASSUME NEW s \in Sessions, HandleCreateSession(s)
      PROVE  rows' = rows
  BY <1>1 DEF HandleCreateSession, HandlerInv, TypeOK
<1>2. ASSUME NEW c \in Clients, FinishTransition(c)
      PROVE  /\ RowStories'
             /\ \A s \in Sessions : rows[s].state = "TERMINATED" => rows'[s].state = "TERMINATED"
  <2> DEFINE sid == req[c].sid
             to == Targets[req[c].op]
  <2>1. to \in {"RUNNING", "DETACHED", "SUSPENDED", "TERMINATED"} /\ sid \in Sessions
    BY <1>2 DEF FinishTransition, HandlerInv, Targets
  <2>2. CASE rows' = rows
    BY <2>2 DEF RowStories
  <2>3. CASE IsTransitionValid(rows[sid].state, to) /\ rows' = [rows EXCEPT ![sid] = Transitioned(@, to)]
    <3>1. RowStory(Transitioned(rows[sid], to))
      BY <2>1, <2>3, TransitionContinues DEF RowStories, TypeOK
    <3>2. rows[sid].state # "TERMINATED"
      BY <2>1, <2>3 DEF TypeOK, Rows, IsTransitionValid, ValidTransitions, States
    <3>3. \A s \in Sessions : rows'[s] = IF s = sid THEN Transitioned(rows[sid], to) ELSE rows[s]
      BY <2>1, <2>3 DEF TypeOK
    <3> HIDE DEF sid, to
    <3> QED BY <3>1, <3>2, <3>3 DEF RowStories
  <2> QED
    BY <1>2, <2>2, <2>3 DEF FinishTransition, TransitionSession
<1>3. CASE Restart
  <2>1. ASSUME NEW s \in Sessions
        PROVE  \/ rows'[s] = rows[s]
               \/ rows[s].state = "RUNNING" /\ rows'[s] = WithState(rows[s], "DETACHED")
    BY <1>3 DEF Restart, RowStories, RowStory
  <2>2. ASSUME NEW s \in Sessions
        PROVE  RowStory(rows'[s]) /\ (rows[s].state = "TERMINATED" => rows'[s].state = "TERMINATED")
    BY <2>1, RecoveryContinues DEF RowStories, TypeOK
  <2> QED BY <2>2 DEF RowStories
<1>4. CASE rows' = rows
  BY <1>4 DEF RowStories
<1> QED
  BY <1>1, <1>2, <1>3, <1>4
  DEF Next, vars, Lookup, FinishDelete,
      HandleAttachSession, HandleDetachSession, HandleSuspendSession,
      HandleResumeSession, HandleKillSession, HandleDeleteSession

(* Without a connected satellite every row keeps its story. *)
LEMMA ApiStories ==
  ASSUME Conns = {}
  PROVE  Spec => []RowStories
<1>1. Init => RowStories
  BY DEF Init, RowStories, RowStory, NewRow
<1>2. TypeOK /\ HandlerInv /\ RowStories /\ [Next]_vars => RowStories'
  BY ApiStep
<1> QED BY <1>1, <1>2, TypeCorrect, HandlersSane, PTL DEF Spec

(* While no satellite is connected, the timestamps of every row agree with  *)
(* its state, whatever REST handlers and restarts interleave.               *)
THEOREM ApiTimestamps ==
  ASSUME Conns = {}
  PROVE  Spec => []TimestampsAgree
<1>1. RowStories => TimestampsAgree
  BY DEF RowStories, RowStory, TimestampsAgree
<1> QED BY <1>1, ApiStories, PTL

(* While no satellite is connected, TERMINATED is final: of any number of   *)
(* concurrent REST requests none revives a killed session.                  *)
THEOREM ApiTerminalIsFinal ==
  ASSUME Conns = {}
  PROVE  Spec => TerminalIsFinal
<1>1. TypeOK /\ HandlerInv /\ RowStories /\ [Next]_vars =>
        [\A s \in Sessions : rows[s].state = "TERMINATED" => rows'[s].state = "TERMINATED"]_vars
  BY ApiStep
<1> QED BY <1>1, ApiStories, TypeCorrect, HandlersSane, PTL DEF Spec, TerminalIsFinal
-----------------------------------------------------------------------------
(* A deletion under way read PROVISIONING, or it read TERMINATED and the    *)
(* row still is: only the first half of the check can be outrun.            *)
DeletesSee ==
  \A c \in Clients : req[c].op = "delete" =>
    \/ req[c].saw = "PROVISIONING"
    \/ req[c].sid \in Sessions /\ rows[req[c].sid].state = "TERMINATED"

(* Without a connected satellite, deletions see what they rely on. *)
LEMMA DeletesSeeTruly ==
  ASSUME Conns = {}
  PROVE  Spec => []DeletesSee
<1>1. Init => DeletesSee
  BY DEF Init, DeletesSee, IdleReq
<1>2. TypeOK /\ HandlerInv /\ RowStories /\ DeletesSee /\ [Next]_vars => DeletesSee'
  <2> SUFFICES ASSUME TypeOK, HandlerInv, RowStories, DeletesSee, [Next]_vars
               PROVE  DeletesSee'
    OBVIOUS
  <2>1. \A s \in Sessions : rows[s].state = "TERMINATED" => rows'[s].state = "TERMINATED"
    BY ApiStep
  <2>2. ASSUME NEW c \in Clients, NEW s \in Sessions, NEW op, Lookup(c, op, s),
               op = "delete" => rows[s].state \in {"TERMINATED", "PROVISIONING"}
        PROVE  DeletesSee'
    BY <2>1, <2>2 DEF Lookup, DeletesSee, TypeOK
  <2>3. ASSUME NEW c \in Clients, FinishTransition(c) \/ FinishDelete(c)
        PROVE  DeletesSee'
    <3>1. req' = [req EXCEPT ![c] = IdleReq]
      BY <2>3 DEF FinishTransition, FinishDelete
    <3>2. \A d \in Clients : req'[d].op = "delete" => req'[d] = req[d]
      BY <3>1 DEF TypeOK, IdleReq
    <3> QED BY <2>1, <3>2 DEF DeletesSee
  <2>4. CASE Restart
    BY <2>4 DEF Restart, DeletesSee, IdleReq
  <2>5. CASE UNCHANGED req
    BY <2>1, <2>5 DEF DeletesSee
  <2> QED
    BY <2>2, <2>3, <2>4, <2>5
    DEF Next, vars, HandleCreateSession, HandleAttachSession, HandleDetachSession,
        HandleSuspendSession, HandleResumeSession, HandleKillSession, HandleDeleteSession
<1> QED BY <1>1, <1>2, TypeCorrect, HandlersSane, ApiStories, PTL DEF Spec

(* One step of Nexus without gateway connections is one of the machine. *)
LEMMA ApiStepOfMachine ==
  ASSUME Conns = {}, TypeOK, HandlerInv, DeletesSee, [Next]_vars
  PROVE  [Machine!Next]_(Machine!vars)
<1> USE DEF TypeOK
<1>1. ASSUME NEW s \in Sessions, HandleCreateSession(s)
      PROVE  Machine!Create(s)
  <2>1. MachineState[s] = "absent" /\ Promised' = Promised
    BY <1>1 DEF HandleCreateSession, MachineState, Promised
  <2>2. MachineState' = [MachineState EXCEPT ![s] = "PROVISIONING"]
    BY <1>1, Zenon DEF HandleCreateSession, MachineState, NewRow
  <2> QED BY <2>1, <2>2 DEF Machine!Create, Machine!Set
<1>2. ASSUME NEW c \in Clients, NEW s \in Sessions, NEW op \in DOMAIN Targets, Lookup(c, op, s)
      PROVE  UNCHANGED Machine!vars
  <2>1. op # "delete"
    BY DEF Targets
  <2>2. MachineState' = MachineState /\ Promised' = Promised
    BY <1>2, <2>1 DEF Lookup, MachineState, Promised
  <2> QED BY <2>2 DEF Machine!vars
<1>3. ASSUME NEW c \in Clients, NEW s \in Sessions, HandleDeleteSession(c, s)
      PROVE  Machine!Promise(s) \/ UNCHANGED Machine!vars
  <2>1. MachineState' = MachineState /\ MachineState[s] = rows[s].state
    BY <1>3 DEF HandleDeleteSession, Lookup, MachineState
  <2>2. CASE rows[s].state = "PROVISIONING"
    <3>1. Promised' = Promised \cup {s}
      BY <1>3, <2>2 DEF HandleDeleteSession, Lookup, Promised
    <3> QED BY <2>1, <2>2, <3>1 DEF Machine!Promise
  <2>3. CASE rows[s].state # "PROVISIONING"
    <3>1. Promised' = Promised
      BY <1>3, <2>3 DEF HandleDeleteSession, Lookup, Promised
    <3> QED BY <2>1, <3>1 DEF Machine!vars
  <2> QED BY <2>2, <2>3
<1>4. ASSUME NEW c \in Clients, FinishTransition(c)
      PROVE  [Machine!Next]_(Machine!vars)
  <2> DEFINE sid == req[c].sid
             to == Targets[req[c].op]
  <2>1. to \in States /\ sid \in Sessions
    BY <1>4 DEF FinishTransition, HandlerInv, Targets, States
  <2>2. Promised' = Promised
    BY <1>4 DEF FinishTransition, Promised, Targets, IdleReq
  <2>3. CASE rows' = rows
    BY <1>4, <2>2, <2>3 DEF FinishTransition, MachineState, Machine!vars
  <2>4. CASE /\ life[sid] = "stored" /\ IsTransitionValid(rows[sid].state, to)
             /\ rows' = [rows EXCEPT ![sid] = Transitioned(@, to)]
    <3>1. MachineState[sid] = rows[sid].state /\ rows[sid].state \in States
      BY <2>1, <2>4 DEF MachineState, Rows
    <3>2. MachineState' = [MachineState EXCEPT ![sid] = to]
      BY <1>4, <2>1, <2>4, Zenon DEF FinishTransition, MachineState, Transitioned
    <3>3. Machine!IsTransitionValid(MachineState[sid], to) /\ MachineState[sid] \in Machine!States /\ to \in Machine!States
      BY <2>1, <2>4, <3>1, Zenon
      DEF IsTransitionValid, ValidTransitions, States, Machine!IsTransitionValid, Machine!ValidTransitions, Machine!States
    <3> HIDE DEF sid, to
    <3>4. Machine!Move(sid, to)
      BY <2>2, <3>2, <3>3 DEF Machine!Move, Machine!Set
    <3> QED BY <2>1, <3>3, <3>4 DEF Machine!Next
  <2> QED BY <1>4, <2>3, <2>4 DEF FinishTransition, TransitionSession
<1>5. ASSUME NEW c \in Clients, FinishDelete(c)
      PROVE  [Machine!Next]_(Machine!vars)
  <2> DEFINE sid == req[c].sid
  <2>1. sid \in Sessions /\ life[sid] # "unused"
    BY <1>5 DEF FinishDelete, HandlerInv
  <2>2. MachineState' = [MachineState EXCEPT ![sid] = "gone"]
    BY <1>5, <2>1, Zenon DEF FinishDelete, MachineState
  <2>3. Promised' \in {Promised, Promised \ {sid}}
    BY <1>5, <2>1 DEF FinishDelete, Promised, IdleReq
  <2>4. CASE life[sid] = "deleted"
    <3>1. MachineState' = MachineState
      BY <2>1, <2>2, <2>4, Zenon DEF MachineState
    <3>2. Machine!GiveUp(sid) \/ UNCHANGED Machine!vars
      BY <2>3, <3>1 DEF Machine!GiveUp, Machine!vars
    <3> QED BY <2>1, <3>2 DEF Machine!Next
  <2>5. CASE life[sid] = "stored"
    <3>1. MachineState[sid] = rows[sid].state /\ rows[sid].state # "absent"
      BY <2>1, <2>5 DEF MachineState, Rows, States
    <3>2. rows[sid].state = "TERMINATED" \/ sid \in Promised
      BY <1>5, <2>1 DEF FinishDelete, DeletesSee, Promised
    <3>3. Machine!Remove(sid)
      BY <2>2, <2>3, <3>1, <3>2 DEF Machine!Remove, Machine!Set
    <3> QED BY <2>1, <3>3 DEF Machine!Next
  <2> QED BY <2>1, <2>4, <2>5
<1>6. CASE Restart
  <2>1. Promised' = {}
    BY <1>6 DEF Restart, Promised, IdleReq
  <2>2. ASSUME NEW s \in Sessions
        PROVE  MachineState'[s] = IF MachineState[s] \in {"RUNNING", "RE_ATTACHING"}
                                   THEN "DETACHED" ELSE MachineState[s]
    <3>1. WithState(rows[s], "DETACHED").state = "DETACHED"
      BY DEF WithState, Rows
    <3> QED BY <1>6, <3>1 DEF Restart, MachineState
  <2>3. MachineState' = [s \in Sessions |-> IF MachineState[s] \in {"RUNNING", "RE_ATTACHING"}
                                             THEN "DETACHED" ELSE MachineState[s]]
    BY <2>2, Zenon DEF MachineState
  <2>4. Machine!Recover
    BY <2>1, <2>3 DEF Machine!Recover
  <2> QED BY <2>4 DEF Machine!Next
<1>7. CASE UNCHANGED vars
  BY <1>7 DEF vars, MachineState, Promised, Machine!vars
<1>8. \A op \in {"attach", "detach", "suspend", "resume", "kill"} : op \in DOMAIN Targets
  BY DEF Targets
<1>9. ASSUME NEW s \in Sessions, Machine!Create(s) \/ Machine!Promise(s)
      PROVE  Machine!Next
  BY <1>9 DEF Machine!Next
<1> QED
  BY <1>1, <1>2, <1>3, <1>4, <1>5, <1>6, <1>7, <1>8, <1>9
  DEF Next, HandleAttachSession, HandleDetachSession, HandleSuspendSession,
      HandleResumeSession, HandleKillSession

(* While no satellite is connected, any number of REST requests that run    *)
(* side by side, and restarts, do to the sessions what the state machine of *)
(* SessionMachine does: the check and the write of a transition are one     *)
(* step, and a deletion removes what has ended or was being provisioned.    *)
THEOREM ApiImplementsMachine ==
  ASSUME Conns = {}
  PROVE  Spec => ImplementsMachine
<1>1. Init => Machine!Init
  BY DEF Init, Machine!Init, MachineState, Promised, IdleReq
<1>2. TypeOK /\ HandlerInv /\ DeletesSee /\ [Next]_vars => [Machine!Next]_(Machine!vars)
  BY ApiStepOfMachine
<1> QED
  BY <1>1, <1>2, TypeCorrect, HandlersSane, DeletesSeeTruly, PTL
  DEF Spec, ImplementsMachine, Machine!Spec
=============================================================================
