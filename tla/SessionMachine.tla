--------------------------- MODULE SessionMachine ---------------------------
(***************************************************************************)
(* What Nexus promises of its sessions, without the requests that run side *)
(* by side: a session is created once, moves along ValidTransitions, and   *)
(* is removed for good.  All sessions that were active move to DETACHED    *)
(* together when Nexus comes back.  A session is removed when it has ended *)
(* or, whatever it does by then, when a removal was promised while it was  *)
(* being provisioned.                                                      *)
(***************************************************************************)
EXTENDS SessionStore

CONSTANT Sessions

VARIABLES state,   \* state[s]: "absent", a state of the store, or "gone"
          doomed   \* the sessions whose removal was promised early

vars == <<state, doomed>>

Init == state = [s \in Sessions |-> "absent"] /\ doomed = {}

Set(s, to) == state' = [state EXCEPT ![s] = to]

Create(s) == state[s] = "absent" /\ Set(s, "PROVISIONING") /\ UNCHANGED doomed

Move(s, to) ==
  /\ state[s] \in States /\ IsTransitionValid(state[s], to)
  /\ Set(s, to) /\ UNCHANGED doomed

(* A removal is promised, and may be given up later. *)
Promise(s) == state[s] = "PROVISIONING" /\ doomed' = doomed \cup {s} /\ UNCHANGED state

GiveUp(s) == doomed' = doomed \ {s} /\ UNCHANGED state

Remove(s) ==
  /\ state[s] = "TERMINATED" \/ (s \in doomed /\ state[s] # "absent")
  /\ Set(s, "gone") /\ doomed' \in {doomed, doomed \ {s}}

Recover ==
  /\ state' = [s \in Sessions |-> IF state[s] \in {"RUNNING", "RE_ATTACHING"} THEN "DETACHED" ELSE state[s]]
  /\ doomed' = {}

Next ==
  \/ \E s \in Sessions : Create(s) \/ Promise(s) \/ GiveUp(s) \/ Remove(s) \/ \E to \in States : Move(s, to)
  \/ Recover

Spec == Init /\ [][Next]_vars
=============================================================================
