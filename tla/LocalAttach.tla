----------------------------- MODULE LocalAttach -----------------------------
(***************************************************************************)
(* daao attach: terminals on the satellite's own machine.  The goroutine   *)
(* that reads a session's PTY copies each chunk to the ring buffer, to     *)
(* every attached terminal and to the queue for Nexus, one after the       *)
(* other; the handler of an attach sends the scrollback, adds its          *)
(* connection to the list the copying goes by, and takes it off again.     *)
(* Chunks are numbered in the order the program printed them.              *)
(***************************************************************************)
EXTENDS Naturals, Sequences, Functions

CONSTANTS Terminals,
          MaxOut,   \* bound on the chunks the program prints
          RingCap,  \* the chunks the ring buffer holds
          SockCap,  \* the chunks a connection holds before a write to it blocks
          MaxInput  \* bound on what is typed into the terminals

VARIABLES printed,       \* the number of chunks printed
          exited,        \* the process has ended and its PTY is closed
          pump,          \* the goroutine that reads the PTY
          ring,          \* the ring buffer
          localClients,  \* the list of attached connections
          attach,        \* attach[t]: the handler of terminal t's connection
          sock,          \* sock[t]: what it has written and t has not read
          term,          \* term[t]: the process daao attach
          typed          \* the number of chunks typed

vars == <<printed, exited, pump, ring, localClients, attach, sock, term, typed>>

\* a terminal's screen is its own; it is forgotten when the terminal detaches
Off == [open |-> FALSE, need |-> 0, held |-> <<>>, seam |-> 0, shown |-> <<>>]

NoAttach == [pc |-> "none", hydration |-> <<>>]

Init ==
    /\ printed = 0 /\ exited = FALSE /\ typed = 0
    /\ pump = [pc |-> "read", chunk |-> 0, left |-> <<>>]
    /\ ring = <<>> /\ localClients = <<>>
    /\ attach = [t \in Terminals |-> NoAttach]
    /\ sock = [t \in Terminals |-> <<>>]
    /\ term = [t \in Terminals |-> Off]

-----------------------------------------------------------------------------
(* The session's PTY                                                       *)

\* Process.Wait returns and the PTY is closed; what was not read is lost.
ProcessExits ==
    /\ ~exited
    /\ exited' = TRUE
    /\ UNCHANGED <<printed, pump, ring, localClients, attach, sock, term, typed>>

\* forwardPtyOutput: a chunk is read and written to the ring buffer; from there to
\* the end of the fan-out the goroutine holds localClientsMu for reading.
PtyRead ==
    /\ pump.pc = "read" /\ ~exited /\ printed < MaxOut
    /\ printed' = printed + 1
    /\ ring' = LET r == Append(ring, printed + 1) IN
               IF Len(r) > RingCap THEN Tail(r) ELSE r
    /\ pump' = [pc |-> "lock", chunk |-> printed + 1, left |-> <<>>]
    /\ UNCHANGED <<exited, localClients, attach, sock, term, typed>>

PtyEnds ==
    /\ pump.pc = "read" /\ exited
    /\ pump' = [pump EXCEPT !.pc = "ended"]
    /\ UNCHANGED <<printed, exited, ring, localClients, attach, sock, term, typed>>

RLock ==
    /\ pump.pc = "lock"
    /\ pump' = [pump EXCEPT !.pc = "fan", !.left = localClients]
    /\ UNCHANGED <<printed, exited, ring, localClients, attach, sock, term, typed>>

Room(t) == Len(sock[t]) < SockCap

\* Faulty: a write to a terminal that has hung up blocks too.
FanOutStuck ==
    /\ pump.pc = "fan" /\ pump.left # <<>>
    /\ LET t == Head(pump.left) IN
         /\ term[t].open /\ Room(t)
         /\ sock' = [sock EXCEPT ![t] = Append(@, pump.chunk)]
    /\ pump' = [pump EXCEPT !.left = Tail(@)]
    /\ UNCHANGED <<printed, exited, ring, localClients, attach, term, typed>>

\* One write of the fan-out.  It blocks while the connection is full, and its error
\* is ignored when the terminal has hung up.
FanOut ==
    /\ pump.pc = "fan" /\ pump.left # <<>>
    /\ LET t == Head(pump.left) IN
         /\ term[t].open => Room(t)
         /\ sock' = IF term[t].open THEN [sock EXCEPT ![t] = Append(@, pump.chunk)] ELSE sock
    /\ pump' = [pump EXCEPT !.left = Tail(@)]
    /\ UNCHANGED <<printed, exited, ring, localClients, attach, term, typed>>

\* RUnlock, and the chunk goes to the queue for Nexus.
FanOutDone ==
    /\ pump.pc = "fan" /\ pump.left = <<>>
    /\ pump' = [pump EXCEPT !.pc = "read"]
    /\ UNCHANGED <<printed, exited, ring, localClients, attach, sock, term, typed>>

-----------------------------------------------------------------------------
(* The handler of an attach                                                *)

At(t, pc) == attach[t].pc = pc
HangUp(t) == term' = [term EXCEPT ![t] = Off] /\ sock' = [sock EXCEPT ![t] = <<>>]
Goto(t, pc) == attach' = [attach EXCEPT ![t].pc = pc]

\* daao attach dials and asks for the session, which is found in the map.
attachCommand(t) ==
    /\ ~term[t].open /\ At(t, "none")
    /\ term' = [term EXCEPT ![t].open = TRUE]
    /\ Goto(t, "snapshot")
    /\ UNCHANGED <<printed, exited, pump, ring, localClients, sock, typed>>

\* Faulty: the connection is on the list before the snapshot is taken
SnapshotLate(t) ==
    /\ At(t, "snapshot")
    /\ term[t].open
    /\ IF t \in Range(localClients)
         THEN /\ attach' = [attach EXCEPT ![t] = [pc |-> "hydrate", hydration |-> ring]]
              /\ term' = [term EXCEPT ![t].need = Len(ring), ![t].seam = Len(ring)]
              /\ UNCHANGED localClients
         ELSE localClients' = Append(localClients, t) /\ UNCHANGED <<attach, term>>
    /\ UNCHANGED <<printed, exited, pump, ring, sock, typed>>

\* RingBuffer.Snapshot, and the answer that announces its length.
Snapshot(t) ==
    /\ At(t, "snapshot")
    /\ IF term[t].open
         THEN /\ attach' = [attach EXCEPT ![t] = [pc |-> "hydrate", hydration |-> ring]]
              /\ term' = [term EXCEPT ![t].need = Len(ring), ![t].seam = Len(ring)]
         ELSE Goto(t, "none") /\ UNCHANGED term
    /\ UNCHANGED <<printed, exited, pump, ring, localClients, sock, typed>>

Hydrate(t) ==
    /\ At(t, "hydrate") /\ attach[t].hydration # <<>>
    /\ \/ /\ term[t].open /\ Room(t)
          /\ sock' = [sock EXCEPT ![t] = Append(@, Head(attach[t].hydration))]
          /\ attach' = [attach EXCEPT ![t].hydration = Tail(@)]
       \/ ~term[t].open /\ attach' = [attach EXCEPT ![t] = NoAttach] /\ UNCHANGED sock
    /\ UNCHANGED <<printed, exited, pump, ring, localClients, term, typed>>

\* addLocalClient and removeLocalClient wait for the fan-out to let go of the lock.
Locked == pump.pc = "fan"

addLocalClient(t) ==
    /\ At(t, "hydrate") /\ attach[t].hydration = <<>> /\ ~Locked
    /\ localClients' = Append(localClients, t)
    /\ Goto(t, "bridge")
    /\ UNCHANGED <<printed, exited, pump, ring, sock, term, typed>>

\* What is typed is written to the PTY; a write to a closed one ends the attach.
Type(t) ==
    /\ At(t, "bridge") /\ term[t].open /\ typed < MaxInput
    /\ typed' = typed + 1
    /\ IF exited THEN Goto(t, "remove") ELSE UNCHANGED attach
    /\ UNCHANGED <<printed, exited, pump, ring, localClients, sock, term>>

ReadEnds(t) ==
    /\ At(t, "bridge") /\ ~term[t].open
    /\ Goto(t, "remove")
    /\ UNCHANGED <<printed, exited, pump, ring, localClients, sock, term, typed>>

\* The first entry of s that is t is taken out.
Without(s, t) ==
    LET i == CHOOSE i \in DOMAIN s : s[i] = t /\ \A j \in 1 .. i - 1 : s[j] # t IN
    IF t \in Range(s) THEN [j \in 1 .. (Len(s) - 1) |-> IF j < i THEN s[j] ELSE s[j + 1]] ELSE s

removeLocalClient(t) ==
    /\ At(t, "remove") /\ ~Locked
    /\ localClients' = Without(localClients, t)
    /\ HangUp(t)
    /\ Goto(t, "none")
    /\ UNCHANGED <<printed, exited, pump, ring, typed>>

-----------------------------------------------------------------------------
(* The process daao attach                                                 *)

\* The scrollback is put on the screen once all of it has been read, everything
\* after it as it comes.
Show(t) ==
    /\ term[t].open /\ sock[t] # <<>>
    /\ sock' = [sock EXCEPT ![t] = Tail(@)]
    /\ LET x == term[t]
           held == Append(x.held, Head(sock[t])) IN
       term' = [term EXCEPT ![t] =
          IF Len(held) < x.need THEN [x EXCEPT !.held = held]
          ELSE [x EXCEPT !.need = 0, !.held = <<>>, !.shown = @ \o held]]
    /\ UNCHANGED <<printed, exited, pump, ring, localClients, attach, typed>>

\* Ctrl+\, a signal, or a process that is killed.
Detach(t) ==
    /\ term[t].open
    /\ HangUp(t)
    /\ UNCHANGED <<printed, exited, pump, ring, localClients, attach, typed>>

Pump == PtyRead \/ PtyEnds \/ RLock \/ FanOut \/ FanOutDone

Handler(t) ==
    Snapshot(t) \/ Hydrate(t) \/ addLocalClient(t) \/ ReadEnds(t) \/ removeLocalClient(t)

Next ==
    \/ ProcessExits \/ Pump
    \/ \E t \in Terminals : attachCommand(t) \/ Handler(t) \/ Type(t) \/ Show(t) \/ Detach(t)

\* The goroutines run; a terminal reads what it is sent for as long as it is attached.
Fairness ==
    /\ WF_vars(Pump)
    /\ \A t \in Terminals : WF_vars(Handler(t)) /\ WF_vars(Show(t))

Spec == Init /\ [][Next]_vars
FairSpec == Spec /\ Fairness

-----------------------------------------------------------------------------
(* Properties                                                              *)

TypeOK ==
    /\ printed \in 0..MaxOut /\ pump.pc \in {"read", "lock", "fan", "ended"}
    /\ Range(localClients) \subseteq Terminals /\ Len(ring) <= RingCap
    /\ \A t \in Terminals : Len(sock[t]) <= SockCap

\* An attached terminal shows the session's output in order and without gaps except
\* in one place, the seam between the scrollback and the live output: there it may
\* miss what was printed while the handler sent the scrollback, or show one chunk,
\* the one being copied when the snapshot was taken, a second time.
OneSeam ==
    \A t \in Terminals : LET s == term[t].shown IN
        \A i \in 1..(Len(s) - 1) :
            IF i = term[t].seam THEN s[i + 1] >= s[i] ELSE s[i + 1] = s[i] + 1

\* Output that was read from the PTY gets past the attached terminals: the fan-out
\* ends, also when terminals hang up, are added or leave while it runs.
FanOutEnds == pump.pc = "fan" ~> pump.pc = "read"
=============================================================================
