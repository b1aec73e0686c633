----------------------------- MODULE WebListener -----------------------------
(* The listener for WebSocket connections (pkg/web).  Each request is served   *)
(* by a goroutine of the HTTP server, which makes a connection, registers it   *)
(* and puts it into a queue; the server's accept loop takes it from there.     *)
(* conn.Close runs once, in whichever goroutine calls it first, and the others *)
(* wait for it: the owner of the connection, its ping loop, or Close of the    *)
(* listener, which closes the connections registered at one moment and waits   *)
(* for the rest.                                                               *)
EXTENDS Integers, Sequences, FiniteSets

CONSTANTS Conns,            \* requests for a connection
          AcceptQueueSize

ASSUME ListenerAssumption == AcceptQueueSize \in Nat /\ IsFiniteSet(Conns)

VARIABLES
    serve,      \* ServeHTTP for a request: where it is
    socket,     \* the connection: "none", "open", then conn.Close: "closing", "forgotten", "closed"
    conns,      \* l.conns
    closeWg,    \* l.closeWg
    sockets,    \* l.sockets
    closer,     \* Close: "no", "closed", "closing" or "returned"
    toClose,    \* the connections it still has to close
    late        \* history: connections registered after Close looked

listenerVars == <<serve, socket, conns, closeWg, sockets, closer, toClose, late>>

ListenerInit ==
    /\ serve = [c \in Conns |-> "none"] /\ socket = [c \in Conns |-> "none"]
    /\ conns = {} /\ closeWg = 0
    /\ sockets = <<>>
    /\ closer = "no" /\ toClose = {} /\ late = {}

-----------------------------------------------------------------------------
\* ServeHTTP: the listener is open, and the request is for a WebSocket on its
\* path from an allowed origin and with a known protocol.
serveCheck(c) ==
    /\ serve[c] = "none" /\ closer = "no"
    /\ serve' = [serve EXCEPT ![c] = "upgrade"]
    /\ UNCHANGED <<socket, conns, closeWg, sockets, closer, toClose, late>>

\* It is not, or the upgrade fails.
serveRefuse(c) ==
    /\ serve[c] \in {"none", "upgrade"}
    /\ serve' = [serve EXCEPT ![c] = "end"]
    /\ UNCHANGED <<socket, conns, closeWg, sockets, closer, toClose, late>>

serveUpgrade(c) ==
    /\ serve[c] = "upgrade"
    /\ serve' = [serve EXCEPT ![c] = "register"]
    /\ socket' = [socket EXCEPT ![c] = "open"]
    /\ UNCHANGED <<conns, closeWg, sockets, closer, toClose, late>>

\* Faulty: the connection is not added to the wait group.
serveRegisterOnly(c) ==
    /\ serve[c] = "register"
    /\ serve' = [serve EXCEPT ![c] = "queue"]
    /\ conns' = conns \cup {c}
    /\ late' = IF closer \in {"closing", "returned"} THEN late \cup {c} ELSE late
    /\ UNCHANGED <<socket, closeWg, sockets, closer, toClose>>

serveRegister(c) ==
    /\ serve[c] = "register"
    /\ serve' = [serve EXCEPT ![c] = "queue"]
    /\ conns' = conns \cup {c} /\ closeWg' = closeWg + 1
    /\ late' = IF closer \in {"closing", "returned"} THEN late \cup {c} ELSE late
    /\ UNCHANGED <<socket, sockets, closer, toClose>>

serveQueue(c) ==
    /\ serve[c] = "queue" /\ Len(sockets) < AcceptQueueSize
    /\ serve' = [serve EXCEPT ![c] = "end"]
    /\ sockets' = Append(sockets, c)
    /\ UNCHANGED <<socket, conns, closeWg, closer, toClose, late>>

\* conn.Close: what the first caller does.
Begins(c) == IF socket[c] = "open" THEN [socket EXCEPT ![c] = "closing"] ELSE socket

\* The queue is full, and the connection is closed.
serveFull(c) ==
    /\ serve[c] = "queue" /\ Len(sockets) >= AcceptQueueSize
    /\ serve' = [serve EXCEPT ![c] = "end"]
    /\ socket' = Begins(c)
    /\ UNCHANGED <<conns, closeWg, sockets, closer, toClose, late>>

\* A ping cannot be written.  The first is written PingInterval after the
\* connection was made, by when it is registered.
pingFails(c) ==
    /\ serve[c] \in {"queue", "end"} /\ socket[c] = "open"
    /\ socket' = Begins(c)
    /\ UNCHANGED <<serve, conns, closeWg, sockets, closer, toClose, late>>

\* conn.Close goes on: onClose takes the connection out of the map, under the
\* lock, and then counts it.
connForget(c) ==
    /\ socket[c] = "closing"
    /\ socket' = [socket EXCEPT ![c] = "forgotten"]
    /\ conns' = conns \ {c}
    /\ UNCHANGED <<serve, closeWg, sockets, closer, toClose, late>>

connDone(c) ==
    /\ socket[c] = "forgotten"
    /\ socket' = [socket EXCEPT ![c] = "closed"]
    /\ closeWg' = closeWg - 1
    /\ UNCHANGED <<serve, conns, sockets, closer, toClose, late>>

-----------------------------------------------------------------------------
\* Close: no request is taken any more, and Accept returns.
closeBegin ==
    /\ closer = "no"
    /\ closer' = "closed"
    /\ UNCHANGED <<serve, socket, conns, closeWg, sockets, toClose, late>>

\* Faulty: the connections are left to their peers.
closeSnapshotNone ==
    /\ closer = "closed"
    /\ closer' = "closing"
    /\ UNCHANGED <<serve, socket, conns, closeWg, sockets, toClose, late>>

closeSnapshot ==
    /\ closer = "closed"
    /\ closer' = "closing"
    /\ toClose' = conns
    /\ UNCHANGED <<serve, socket, conns, closeWg, sockets, late>>

\* It begins to close one of them, or finds that it is closed.
closeOne(c) ==
    /\ closer = "closing" /\ c \in toClose
    /\ \/ socket[c] = "open" /\ socket' = Begins(c) /\ UNCHANGED toClose
       \/ socket[c] = "closed" /\ toClose' = toClose \ {c} /\ UNCHANGED socket
    /\ UNCHANGED <<serve, conns, closeWg, sockets, closer, late>>

\* Faulty: the connections are closed in the background.
closeReturnsEarly ==
    /\ closer = "closing"
    /\ closer' = "returned"
    /\ UNCHANGED <<serve, socket, conns, closeWg, sockets, toClose, late>>

closeReturns ==
    /\ closer = "closing" /\ toClose = {} /\ closeWg = 0
    /\ closer' = "returned"
    /\ UNCHANGED <<serve, socket, conns, closeWg, sockets, toClose, late>>

-----------------------------------------------------------------------------
\* The goroutines of the package itself: requests, ping loops and conn.Close.
ListenerStep ==
    \E c \in Conns : \/ serveCheck(c) \/ serveRefuse(c) \/ serveUpgrade(c) \/ serveRegister(c)
                     \/ serveQueue(c) \/ serveFull(c)
                     \/ pingFails(c) \/ connForget(c) \/ connDone(c)

-----------------------------------------------------------------------------
\* The connections that have been registered and not counted as done.
Counted == {c \in Conns : serve[c] \in {"queue", "end"} /\ socket[c] \in {"open", "closing", "forgotten"}}

\* The wait group counts exactly the registered connections that conn.Close has
\* not finished with, whoever calls it and how often: it never goes below zero,
\* and the map holds those that are not forgotten yet.
WaitGroupExact ==
    /\ closeWg = Cardinality(Counted)
    /\ conns = {c \in Counted : socket[c] # "forgotten"}

\* When Close has returned, no connection is open but those that were registered
\* after it looked at the map.
CloseIsThorough ==
    closer = "returned" => \A c \in Conns : (c \in conns /\ socket[c] = "open") => c \in late
=============================================================================
