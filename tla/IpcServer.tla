------------------------------ MODULE IpcServer ------------------------------
(***************************************************************************)
(* The socket server of a session on the satellite (pkg/ipc): one          *)
(* goroutine accepts, one serves each connection, and Session.Close closes *)
(* everything and waits for all of them.                                   *)
(***************************************************************************)
EXTENDS Naturals, FiniteSets

CONSTANTS Peers,          \* programs that connect to the socket, once each
          MaxConnections  \* MaxConnections of the code, 1000 there

VARIABLES socket,    \* the file of the socket exists
          listening, \* the listener is open
          cancelled, \* the server's context is done
          acceptor,  \* where acceptLoop is
          closer,    \* where Close is
          peer,      \* peer[p]: not yet there, there, or gone
          queued,    \* dialled, not accepted
          serve,     \* serve[p]: where serveConn is
          conns,     \* the connections the server knows
          active,    \* activeConns
          broken,    \* the decoders with an error: they return it from now on
          shut       \* the connections the server closed

vars == <<socket, listening, cancelled, acceptor, closer, peer, queued, serve, conns, active, broken, shut>>

Working == {p \in Peers : serve[p] \in {"check", "read", "respond"}}

TypeOK ==
    /\ acceptor \in {"off", "check", "accept", "accepted", "done"}
    /\ closer \in {"no", "listener", "conns", "wait", "done"}
    /\ conns \subseteq Working /\ active <= MaxConnections

Init ==
    /\ socket = FALSE /\ listening = FALSE /\ cancelled = FALSE
    /\ acceptor = "off" /\ closer = "no"
    /\ peer = [p \in Peers |-> "away"] /\ queued = {}
    /\ serve = [p \in Peers |-> "none"]
    /\ conns = {} /\ active = 0 /\ broken = {} /\ shut = {}

-----------------------------------------------------------------------------
(* The peers.                                                              *)

Dial(p) ==
    /\ listening /\ peer[p] = "away"
    /\ peer' = [peer EXCEPT ![p] = "there"] /\ queued' = queued \cup {p}
    /\ UNCHANGED <<socket, listening, cancelled, acceptor, closer, serve, conns, active, broken, shut>>

PeerLeaves(p) ==
    /\ peer[p] = "there"
    /\ peer' = [peer EXCEPT ![p] = "gone"]
    /\ UNCHANGED <<socket, listening, cancelled, acceptor, closer, queued, serve, conns, active, broken, shut>>

-----------------------------------------------------------------------------
(* Start and acceptLoop.                                                   *)

\* createListener replaces a file that is there; when it fails, nothing runs.
Start ==
    /\ closer = "no" /\ acceptor = "off"
    /\ socket' = TRUE /\ listening' = TRUE /\ acceptor' = "check"
    /\ UNCHANGED <<cancelled, closer, peer, queued, serve, conns, active, broken, shut>>

\* The deferred listener.Close of the loop.
AcceptDone ==
    /\ acceptor' = "done" /\ listening' = FALSE /\ queued' = {}

AcceptCheck ==
    /\ acceptor = "check"
    /\ IF cancelled THEN AcceptDone ELSE acceptor' = "accept" /\ UNCHANGED <<listening, queued>>
    /\ UNCHANGED <<socket, cancelled, closer, peer, serve, conns, active, broken, shut>>

\* Accept fails after 100 ms or because the listener is closed.
AcceptFails ==
    /\ acceptor = "accept"
    /\ IF cancelled THEN AcceptDone ELSE acceptor' = "check" /\ UNCHANGED <<listening, queued>>
    /\ UNCHANGED <<socket, cancelled, closer, peer, serve, conns, active, broken, shut>>

Accept(p) ==
    /\ acceptor = "accept" /\ listening /\ p \in queued
    /\ queued' = queued \ {p} /\ acceptor' = "accepted"
    /\ serve' = [serve EXCEPT ![p] = "accepted"]
    /\ UNCHANGED <<socket, listening, cancelled, closer, peer, conns, active, broken, shut>>

canAccept == active < MaxConnections

\* Over the limit the connection is closed, else handleConn takes it; the lock
\* on conns is not held by anyone who waits.
handleConn(p) ==
    /\ acceptor = "accepted" /\ serve[p] = "accepted"
    /\ acceptor' = "check"
    /\ IF canAccept
       THEN /\ conns' = conns \cup {p} /\ active' = active + 1
            /\ serve' = [serve EXCEPT ![p] = "check"] /\ UNCHANGED shut
       ELSE /\ shut' = shut \cup {p} /\ serve' = [serve EXCEPT ![p] = "done"]
            /\ UNCHANGED <<conns, active>>
    /\ UNCHANGED <<socket, listening, cancelled, closer, peer, queued, broken>>

-----------------------------------------------------------------------------
(* serveConn.                                                              *)

\* The deferred removeConn: the connection is forgotten, not closed.
removeConn(p) ==
    /\ serve' = [serve EXCEPT ![p] = "done"]
    /\ conns' = conns \ {p} /\ active' = active - 1

\* Faulty: the loop does not look at the context.
ServeCheckNever(p) ==
    /\ serve[p] = "check"
    /\ serve' = [serve EXCEPT ![p] = "read"]
    /\ UNCHANGED <<socket, listening, cancelled, acceptor, closer, peer, queued, conns, active, broken, shut>>

ServeCheck(p) ==
    /\ serve[p] = "check"
    /\ IF cancelled THEN removeConn(p)
       ELSE serve' = [serve EXCEPT ![p] = "read"] /\ UNCHANGED <<conns, active>>
    /\ UNCHANGED <<socket, listening, cancelled, acceptor, closer, peer, queued, broken, shut>>

\* A message, to be answered (handleMessage).
DecodeMessage(p) ==
    /\ serve[p] = "read" /\ p \notin broken \cup shut /\ peer[p] = "there"
    /\ serve' = [serve EXCEPT ![p] = "respond"]
    /\ UNCHANGED <<socket, listening, cancelled, acceptor, closer, peer, queued, conns, active, broken, shut>>

\* The end of the stream.
DecodeEOF(p) ==
    /\ serve[p] = "read" /\ p \notin broken \cup shut /\ peer[p] = "gone"
    /\ removeConn(p)
    /\ UNCHANGED <<socket, listening, cancelled, acceptor, closer, peer, queued, broken, shut>>

\* Any other error: not JSON, 30 s without a byte, a closed connection, or the
\* error of an earlier call, which the decoder keeps.  It is answered, too.
DecodeFails(p) ==
    /\ serve[p] = "read"
    /\ p \in broken \cup shut \/ peer[p] = "there"
    /\ broken' = broken \cup {p}
    /\ serve' = [serve EXCEPT ![p] = "respond"]
    /\ UNCHANGED <<socket, listening, cancelled, acceptor, closer, peer, queued, conns, active, shut>>

\* SendResponse returns when the peer reads, or with an error nobody looks at.
SendResponse(p) ==
    /\ serve[p] = "respond"
    /\ serve' = [serve EXCEPT ![p] = "check"]
    /\ UNCHANGED <<socket, listening, cancelled, acceptor, closer, peer, queued, conns, active, broken, shut>>

-----------------------------------------------------------------------------
(* Close.                                                                  *)

CloseCancel ==
    /\ closer = "no"
    /\ cancelled' = TRUE /\ closer' = "listener"
    /\ UNCHANGED <<socket, listening, acceptor, peer, queued, serve, conns, active, broken, shut>>

CloseListener ==
    /\ closer = "listener"
    /\ listening' = FALSE /\ queued' = {} /\ closer' = "conns"
    /\ UNCHANGED <<socket, cancelled, acceptor, peer, serve, conns, active, broken, shut>>

\* All connections of the moment, under the read lock.
CloseConns ==
    /\ closer = "conns"
    /\ shut' = shut \cup conns /\ closer' = "wait"
    /\ UNCHANGED <<socket, listening, cancelled, acceptor, peer, queued, serve, conns, active, broken>>

\* wg.Wait and cleanupSocket.
CloseWait ==
    /\ closer = "wait" /\ acceptor \in {"off", "done"} /\ Working = {}
    /\ socket' = FALSE /\ closer' = "done"
    /\ UNCHANGED <<listening, cancelled, acceptor, peer, queued, serve, conns, active, broken, shut>>

-----------------------------------------------------------------------------
AcceptLoop == AcceptCheck \/ AcceptFails \/ \E p \in Peers : Accept(p) \/ handleConn(p)

ServeLoop(p) == ServeCheck(p) \/ DecodeMessage(p) \/ DecodeEOF(p) \/ DecodeFails(p)

Close == CloseListener \/ CloseConns \/ CloseWait

Next ==
    \/ Start \/ CloseCancel \/ Close
    \/ AcceptLoop
    \/ \E p \in Peers : Dial(p) \/ PeerLeaves(p) \/ ServeLoop(p) \/ SendResponse(p)

Spec == Init /\ [][Next]_vars

\* The goroutines go on: Accept and Decode have deadlines.  An answer is only
\* certain to be over once the peer is gone or the connection closed.
Fairness ==
    /\ WF_vars(AcceptLoop) /\ WF_vars(Close)
    /\ \A p \in Peers : /\ WF_vars(ServeLoop(p))
                        /\ WF_vars((peer[p] = "gone" \/ p \in shut) /\ SendResponse(p))

FairSpec == Spec /\ Fairness

-----------------------------------------------------------------------------
\* Close returns, and leaves no file behind: a connection that was accepted
\* while Close ran sees the context, one whose peer does not read is closed by
\* Close, one whose decoder is broken spins only until then.
CloseReturns == closer # "no" ~> closer = "done" /\ ~socket
=============================================================================
