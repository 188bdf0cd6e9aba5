---------------------------- MODULE SessionStore ----------------------------
(***************************************************************************)
(* The session row and the session state machine of                        *)
(* internal/session/store.go.  A row keeps the state column and, for the   *)
(* four lifecycle timestamps, whether the column is set: no code compares  *)
(* their values.                                                           *)
(***************************************************************************)

States == {"PROVISIONING", "RUNNING", "DETACHED", "RE_ATTACHING", "SUSPENDED", "TERMINATED"}

ValidTransitions ==
  [s \in States |->
     CASE s = "PROVISIONING" -> {"RUNNING", "TERMINATED"}
       [] s = "RUNNING"      -> {"DETACHED", "SUSPENDED", "TERMINATED"}
       [] s = "DETACHED"     -> {"RUNNING", "RE_ATTACHING", "TERMINATED"}
       [] s = "RE_ATTACHING" -> {"RUNNING", "DETACHED", "TERMINATED"}
       [] s = "SUSPENDED"    -> {"RUNNING", "TERMINATED"}
       [] s = "TERMINATED"   -> {}]

IsTransitionValid(from, to) == to \in ValidTransitions[from]

Rows == [state : States, startedAt : BOOLEAN, detachedAt : BOOLEAN,
         suspendedAt : BOOLEAN, terminatedAt : BOOLEAN]

(* The row HandleCreateSession inserts: the INSERT names no timestamp. *)
NewRow == [state |-> "PROVISIONING", startedAt |-> FALSE, detachedAt |-> FALSE,
           suspendedAt |-> FALSE, terminatedAt |-> FALSE]

(* Faulty: a return to RUNNING keeps the old timestamps. *)
TransitionedNoClear(row, to) ==
  [state        |-> to,
   startedAt    |-> row.startedAt \/ to = "RUNNING",
   detachedAt   |-> row.detachedAt \/ to = "DETACHED",
   suspendedAt  |-> row.suspendedAt \/ to = "SUSPENDED",
   terminatedAt |-> row.terminatedAt \/ to = "TERMINATED"]

(* What an accepted TransitionSession makes of a row. *)
Transitioned(row, to) ==
  [state        |-> to,
   startedAt    |-> row.startedAt \/ to = "RUNNING",
   detachedAt   |-> to = "DETACHED" \/ (row.detachedAt /\ to # "RUNNING"),
   suspendedAt  |-> to = "SUSPENDED" \/ (row.suspendedAt /\ to # "RUNNING"),
   terminatedAt |-> row.terminatedAt \/ to = "TERMINATED"]

(* UpdateState: one UPDATE of the state column, whatever the row holds. *)
WithState(row, to) == [row EXCEPT !.state = to]
=============================================================================
