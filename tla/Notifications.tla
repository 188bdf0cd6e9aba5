---------------------------- MODULE Notifications ----------------------------
(***************************************************************************)
(* Notifications: an event becomes a row of the notifications table, the   *)
(* user's preferences are read, and the browser dispatcher offers it to    *)
(* every open tab through the SSE hub.  The goroutine that emits the event *)
(* (a session handler, the liveness checker) does all of this itself.      *)
(*                                                                         *)
(* There is one user, the default one: it is whom events without a user    *)
(* are for, and whom the stream and the list of notifications serve.       *)
(*                                                                         *)
(* Broadcast takes the map of the user's channels under the lock and walks *)
(* it without, while Subscribe and Unsubscribe write that map.  Go leaves  *)
(* open what comes of it: the walk goes on with the entries left, or the   *)
(* runtime stops the process; a channel the walk has just taken out of the *)
(* map may be closed when it sends, which panics, and Emit recovers.       *)
(***************************************************************************)
EXTENDS Naturals, Sequences, FiniteSets

CONSTANTS Tabs,       \* channels the hub ever hands out, one per open tab
          Emitters,   \* goroutines that emit events
          Kinds,      \* [type, priority] of the events they emit
          Settings,   \* preferences a user saves
          ChanCap,    \* capacity of a tab's channel: 64 in the code
          MaxEvents,  \* bound on the events
          None

VARIABLES rows,      \* the notifications stored: [id, kind, read]
          prefs,     \* the row of notification_preferences, or None
          clients,   \* the hub's channels
          closed,    \* the channels that have been closed
          chan,      \* chan[t]: what is in the channel of tab t
          em,        \* em[e]: where emitter e is
          events,    \* events emitted so far
          skipped    \* [id, tab]: what a broadcast ended without offering to a tab
                     \* that was there from its start to its end

vars == <<rows, prefs, clients, closed, chan, em, events, skipped>>

Idle == [pc |-> "idle", id |-> 0, kind |-> None, left |-> {}, cur |-> None,
         owed |-> {}, parted |-> FALSE]

Types == {"SESSION_TERMINATED", "SESSION_SUSPENDED", "SESSION_ERROR", "SATELLITE_OFFLINE"}

priorityLevel == [p \in {"INFO", "WARNING", "CRITICAL"} |->
                    CASE p = "CRITICAL" -> 3 [] p = "WARNING" -> 2 [] p = "INFO" -> 1]

DefaultPreferences == [min |-> "INFO", browser |-> TRUE, on |-> Types]

TypeOK ==
    /\ prefs \in Settings \cup {None}
    /\ clients \subseteq Tabs \ closed
    /\ \A t \in Tabs : Len(chan[t]) <= ChanCap
    /\ Cardinality({r.id : r \in rows}) = Cardinality(rows)

Init ==
    /\ rows = {} /\ prefs = None
    /\ clients = {} /\ closed = {}
    /\ chan = [t \in Tabs |-> <<>>]
    /\ em = [e \in Emitters |-> Idle]
    /\ events = 0 /\ skipped = {}

-----------------------------------------------------------------------------
(* An emitter.                                                             *)

\* Emit, handleEvent: the row is stored.  A failure is logged and the event is
\* dispatched all the same.
Emit(e, kind) ==
    /\ em[e].pc = "idle" /\ events < MaxEvents
    /\ events' = events + 1
    /\ \E stored \in BOOLEAN :
          rows' = IF stored THEN rows \cup {[id |-> events + 1, kind |-> kind, read |-> FALSE]}
                  ELSE rows
    /\ em' = [em EXCEPT ![e] = [Idle EXCEPT !.pc = "prefs", !.id = events + 1, !.kind = kind]]
    /\ UNCHANGED <<prefs, clients, closed, chan, skipped>>

ShouldDispatch(kind, p) ==
    /\ p.browser
    /\ kind.type \in p.on
    /\ priorityLevel[kind.priority] >= priorityLevel[p.min]

\* GetPreferences, then ShouldDispatch: the defaults stand in for no row and
\* for a query that failed.
ReadPreferences(e) ==
    /\ em[e].pc = "prefs"
    /\ \E p \in {IF prefs = None THEN DefaultPreferences ELSE prefs, DefaultPreferences} :
          em' = [em EXCEPT ![e] = IF ShouldDispatch(em[e].kind, p)
                                  THEN [em[e] EXCEPT !.pc = "broadcast"] ELSE Idle]
    /\ UNCHANGED <<rows, prefs, clients, closed, chan, events, skipped>>

\* Broadcast takes the map ...
Broadcast(e) ==
    /\ em[e].pc = "broadcast"
    /\ em' = [em EXCEPT ![e].pc = "walk", ![e].left = clients, ![e].owed = clients]
    /\ UNCHANGED <<rows, prefs, clients, closed, chan, events, skipped>>

\* ... walks it ...
NextClient(e) ==
    /\ em[e].pc = "walk"
    /\ \E t \in em[e].left :
          em' = [em EXCEPT ![e].pc = "send", ![e].cur = t, ![e].left = @ \ {t}]
    /\ UNCHANGED <<rows, prefs, clients, closed, chan, events, skipped>>

\* The emitter is done with its event; its debts, if any, are recorded.
Finish(e) ==
    /\ em' = [em EXCEPT ![e] = Idle]
    /\ skipped' = skipped \cup {[id |-> em[e].id, tab |-> t, parted |-> em[e].parted] : t \in em[e].owed}

\* Faulty: the first channel that is full ends the walk.
SendToClientReturns(e) ==
    /\ em[e].pc = "send"
    /\ em[e].cur \notin closed
    /\ IF Len(chan[em[e].cur]) < ChanCap
       THEN /\ chan' = [chan EXCEPT ![em[e].cur] = Append(@, em[e].id)]
            /\ em' = [em EXCEPT ![e].pc = "walk", ![e].cur = None, ![e].owed = @ \ {em[e].cur}]
            /\ UNCHANGED skipped
       ELSE Finish(e) /\ UNCHANGED chan
    /\ UNCHANGED <<rows, prefs, clients, closed, events>>

\* ... and offers the notification to each: a full channel drops it.
SendToClient(e) ==
    /\ em[e].pc = "send"
    /\ em[e].cur \notin closed
    /\ chan' = IF Len(chan[em[e].cur]) < ChanCap
               THEN [chan EXCEPT ![em[e].cur] = Append(@, em[e].id)] ELSE chan
    /\ em' = [em EXCEPT ![e].pc = "walk", ![e].cur = None, ![e].owed = @ \ {em[e].cur}]
    /\ UNCHANGED <<rows, prefs, clients, closed, events, skipped>>

\* Sending on a closed channel panics; Emit recovers and the walk is over.
SendPanics(e) ==
    /\ em[e].pc = "send"
    /\ em[e].cur \in closed
    /\ Finish(e)
    /\ UNCHANGED <<rows, prefs, clients, closed, chan, events>>

WalkEnds(e) ==
    /\ em[e].pc = "walk" /\ em[e].left = {}
    /\ Finish(e)
    /\ UNCHANGED <<rows, prefs, clients, closed, chan, events>>

-----------------------------------------------------------------------------
(* A tab, and the API.                                                     *)

\* HandleSSEStream.  A walk under way may or may not come to the new entry.
Subscribe(t) ==
    /\ t \notin clients \cup closed
    /\ clients' = clients \cup {t}
    /\ \E S \in SUBSET {e \in Emitters : em[e].pc \in {"walk", "send"}} :
          em' = [e \in Emitters |-> IF e \in S THEN [em[e] EXCEPT !.left = @ \cup {t}] ELSE em[e]]
    /\ UNCHANGED <<rows, prefs, closed, chan, events, skipped>>

Unsubscribe(t) ==
    /\ t \in clients
    /\ clients' = clients \ {t}
    /\ closed' = closed \cup {t}
    /\ em' = [e \in Emitters |->
                IF em[e].pc \in {"walk", "send"}
                THEN [em[e] EXCEPT !.left = @ \ {t}, !.owed = @ \ {t}, !.parted = TRUE]
                ELSE em[e]]
    /\ UNCHANGED <<rows, prefs, chan, events, skipped>>

\* The stream handler writes what its channel holds to the browser.
StreamNotification(t) ==
    /\ t \in clients /\ chan[t] # <<>>
    /\ chan' = [chan EXCEPT ![t] = Tail(@)]
    /\ UNCHANGED <<rows, prefs, clients, closed, em, events, skipped>>

\* The runtime finds the map written during a walk and stops the process;
\* Nexus starts again with the tables as they are.
ConcurrentMapWrite ==
    /\ \E e \in Emitters : em[e].pc \in {"walk", "send"}
    /\ \E t \in Tabs : t \notin closed
    /\ closed' = closed \cup clients
    /\ clients' = {}
    /\ chan' = [t \in Tabs |-> <<>>]
    /\ em' = [e \in Emitters |-> Idle]
    /\ UNCHANGED <<rows, prefs, events, skipped>>

\* HandleMarkRead and HandleMarkAllRead: a notification that does not exist is
\* no error.
MarkRead(id) ==
    /\ rows' = {IF r.id = id THEN [r EXCEPT !.read = TRUE] ELSE r : r \in rows}
    /\ UNCHANGED <<prefs, clients, closed, chan, em, events, skipped>>

MarkAllRead ==
    /\ rows' = {[r EXCEPT !.read = TRUE] : r \in rows}
    /\ UNCHANGED <<prefs, clients, closed, chan, em, events, skipped>>

\* HandleUpdatePreferences: an unknown priority is stored as INFO.
UpdatePreferences(p) ==
    /\ prefs' = [p EXCEPT !.min = IF p.min \in DOMAIN priorityLevel THEN @ ELSE "INFO"]
    /\ UNCHANGED <<rows, clients, closed, chan, em, events, skipped>>

-----------------------------------------------------------------------------
Next ==
    \/ \E e \in Emitters :
          \/ \E kind \in Kinds : Emit(e, kind)
          \/ ReadPreferences(e) \/ Broadcast(e) \/ NextClient(e)
          \/ SendToClient(e) \/ SendPanics(e) \/ WalkEnds(e)
    \/ \E t \in Tabs : Subscribe(t) \/ Unsubscribe(t) \/ StreamNotification(t)
    \/ \E id \in 1..MaxEvents : MarkRead(id)
    \/ \E p \in Settings : UpdatePreferences(p)
    \/ MarkAllRead \/ ConcurrentMapWrite

Spec == Init /\ [][Next]_vars

-----------------------------------------------------------------------------
\* A tab that is open from the start to the end of a broadcast is offered the
\* notification, however slow the other tabs are: a broadcast ends early only
\* when a tab was closed while it ran.
SlowTabHurtsNobody == \A s \in skipped : s.parted
=============================================================================
