------------------------------ MODULE Shutdown ------------------------------
(* Start and Stop of a server, against the goroutines that Stop ends or waits  *)
(* for: the handler, the accept loops and the UDP loop, the web listener, and  *)
(* for each client its reader and its udpRecvLoop.  All Go channels are        *)
(* unbuffered; hmutex is held by the UDP loop while it passes a datagram on,   *)
(* and for one step by RemoveClient.                                           *)
(* Left out: authentication and the double teardown (ClientLifecycle), what    *)
(* messages do apart from kicking (ChannelTree, BoardVoice), the files         *)
(* (Freezer), raw TCP clients after their handshake.                           *)
EXTENDS WebListener, Readiness

CONSTANTS Talkers, Kickers  \* clients that send voice; that have others removed

ASSUME ShutdownAssumption ==
    {"none", "no", "bye", "disconnect", "close", "freeze", "wait", "stopped", "accept", "select",
     "read", "ended"} \cap Conns = {}

VARIABLES
    start,    \* Start: "no", "listening", "launched", "up", "broken" or "failed"
    handler,  \* handlerLoop: "none", "select", "ended", or the client it disconnects
    web,      \* the web accept loop: "none", "accept", "ended", or the connection it has
    tls,      \* the raw TCP accept loop: "none", "accept", "handshake" or "ended"
    listen,   \* udpListenLoop: "none", "read", "ended", or the client it passes a datagram to
    client,   \* "none", "connected", "ready", and in disconnect: "leaving", "removed", "gone"
    reader,   \* tlsRecvLoop: "none", "read", "incoming", "udprecv" or "ended"
    udprx,    \* udpRecvLoop: "none", "receive", "voice" or "ended"
    stop,     \* Stop: the step that is next
    todo,     \* the clients that it still has to disconnect
    crashed   \* a goroutine has panicked

serverVars == <<start, handler, web, tls, listen>>
clientVars == <<client, reader, udprx>>
stopVars == <<stop, todo>>
vars == <<listenerVars, readyVars, serverVars, clientVars, stopVars, crashed>>

Init ==
    /\ ListenerInit /\ ReadyInit
    /\ start = "no" /\ handler = "none" /\ web = "none" /\ tls = "none" /\ listen = "none"
    /\ client = [c \in Conns |-> "none"] /\ reader = [c \in Conns |-> "none"]
    /\ udprx = [c \in Conns |-> "none"]
    /\ stop = "no" /\ todo = {} /\ crashed = FALSE

-----------------------------------------------------------------------------
\* Start opens the listeners, one of which may fail; the HTTP server serves at
\* once.  Then the server is running, and the per-launch data is made, or not.
startListens ==
    /\ start = "no"
    /\ start' = "listening"
    /\ checks' = ListenChecks
    /\ UNCHANGED <<listenerVars, config, started, shuttingDown, handler, web, tls, listen, clientVars,
                   stopVars, crashed>>

startFails ==
    /\ start = "no"
    /\ start' = "failed"
    /\ UNCHANGED <<listenerVars, readyVars, handler, web, tls, listen, clientVars, stopVars, crashed>>

startBreaks ==
    /\ start = "listening" /\ config.teamlancer /\ ~config.secret
    /\ start' = "broken"
    /\ UNCHANGED <<listenerVars, readyVars, handler, web, tls, listen, clientVars, stopVars, crashed>>

startLaunches ==
    /\ start = "listening" /\ (config.teamlancer => config.secret)
    /\ start' = IF config.teamlancer THEN "launched" ELSE "up"
    /\ handler' = "select"
    /\ web' = IF config.web THEN "accept" ELSE "ended"
    /\ tls' = IF TLS THEN "accept" ELSE "ended"
    /\ listen' = IF UDP THEN "read" ELSE "ended"
    /\ checks' = LaunchChecks
    /\ UNCHANGED <<listenerVars, config, started, shuttingDown, clientVars, stopVars, crashed>>

\* main marks the server ready before it starts the signal handler.
markRuntimeReady ==
    /\ start = "launched"
    /\ start' = "up" /\ started' = TRUE
    /\ UNCHANGED <<listenerVars, config, checks, shuttingDown, handler, web, tls, listen, clientVars,
                   stopVars, crashed>>

Running == start \in {"listening", "launched", "up", "broken"}

-----------------------------------------------------------------------------
\* The accept loop for web connections.  A closed connection may still be taken.
acceptTake ==
    /\ web = "accept" /\ sockets # <<>>
    /\ web' = Head(sockets) /\ sockets' = Tail(sockets)
    /\ UNCHANGED <<serve, socket, conns, closeWg, closer, toClose, late, start, handler, tls, listen,
                   clientVars, stopVars, crashed>>

acceptEnds ==
    /\ web = "accept" /\ closer # "no"
    /\ web' = "ended"
    /\ UNCHANGED <<listenerVars, start, handler, tls, listen, clientVars, stopVars, crashed>>

\* handleIncomingClient starts the goroutines of the client.
acceptServe(c) ==
    /\ web = c
    /\ web' = "accept"
    /\ client' = [client EXCEPT ![c] = "connected"]
    /\ reader' = [reader EXCEPT ![c] = "read"] /\ udprx' = [udprx EXCEPT ![c] = "receive"]
    /\ UNCHANGED <<listenerVars, start, handler, tls, listen, stopVars, crashed>>

\* The connection is banned or exceeds a limit.
acceptReject(c) ==
    /\ web = c
    /\ web' = "accept"
    /\ socket' = Begins(c)
    /\ UNCHANGED <<serve, conns, closeWg, sockets, closer, toClose, late, start, handler, tls, listen,
                   clientVars, stopVars, crashed>>

\* The raw TCP accept loop makes the TLS handshake itself.
handshakeBegin ==
    /\ tls = "accept" /\ stop \notin {"freeze", "wait", "stopped"}
    /\ tls' = "handshake"
    /\ UNCHANGED <<listenerVars, start, handler, web, listen, clientVars, stopVars, crashed>>

handshakeEnd ==
    /\ tls = "handshake"
    /\ tls' = "accept"
    /\ UNCHANGED <<listenerVars, start, handler, web, listen, clientVars, stopVars, crashed>>

tlsEnds ==
    /\ tls = "accept" /\ stop \in {"freeze", "wait"}
    /\ tls' = "ended"
    /\ UNCHANGED <<listenerVars, start, handler, web, listen, clientVars, stopVars, crashed>>

-----------------------------------------------------------------------------
\* disconnect, of which every caller but the first returns at once.
Alive(c) == client[c] \in {"connected", "ready"}

LockFree == listen \notin Conns

RemoveClient(c) ==
    /\ client[c] = "leaving" /\ LockFree
    /\ client' = [client EXCEPT ![c] = "removed"]
    /\ UNCHANGED <<listenerVars, serverVars, reader, udprx, stopVars, crashed>>

\* udprecv and the connection are closed.  A send that waits on udprecv panics.
disconnectClose(c) ==
    /\ client[c] = "removed"
    /\ client' = [client EXCEPT ![c] = "gone"]
    /\ socket' = Begins(c)
    /\ crashed' = (crashed \/ reader[c] = "udprecv")
    /\ UNCHANGED <<serve, conns, closeWg, sockets, closer, toClose, late, serverVars, reader, udprx, stopVars>>

-----------------------------------------------------------------------------
\* The reader: a client is authenticated, by way of the handler.
authenticate(c) ==
    /\ reader[c] = "read" /\ client[c] = "connected" /\ socket[c] = "open"
    /\ handler = "select"
    /\ client' = [client EXCEPT ![c] = "ready"]
    /\ UNCHANGED <<listenerVars, serverVars, reader, udprx, stopVars, crashed>>

\* It reads a message that is for the handler, or a voice packet.
readMessage(c) ==
    /\ reader[c] = "read" /\ client[c] = "ready" /\ socket[c] = "open"
    /\ \/ reader' = [reader EXCEPT ![c] = "incoming"]
       \/ c \in Talkers /\ reader' = [reader EXCEPT ![c] = "udprecv"]
    /\ UNCHANGED <<listenerVars, serverVars, client, udprx, stopVars, crashed>>

\* The connection is closed, by either side.
readFails(c) ==
    /\ reader[c] = "read"
    /\ reader' = [reader EXCEPT ![c] = "ended"]
    /\ client' = IF Alive(c) THEN [client EXCEPT ![c] = "leaving"] ELSE client
    /\ UNCHANGED <<listenerVars, serverVars, udprx, stopVars, crashed>>

\* The handler takes its message, which may be to kick another client.
handleMessage(c) ==
    /\ reader[c] = "incoming" /\ handler = "select"
    /\ reader' = [reader EXCEPT ![c] = "read"]
    /\ \/ UNCHANGED <<client, handler>>
       \/ \E v \in Conns : /\ c \in Kickers /\ Alive(v)
                           /\ client' = [client EXCEPT ![v] = "leaving"]
                           /\ handler' = v
    /\ UNCHANGED <<listenerVars, start, web, tls, listen, udprx, stopVars, crashed>>

handlerKicked ==
    /\ handler \in Conns /\ client[handler] = "gone"
    /\ handler' = "select"
    /\ UNCHANGED <<listenerVars, start, web, tls, listen, clientVars, stopVars, crashed>>

\* A voice packet passes from the reader to udpRecvLoop and on to the handler,
\* which finds no channel if the client has been removed.
sendUdprecv(c) ==
    /\ reader[c] = "udprecv" /\ udprx[c] = "receive" /\ client[c] # "gone"
    /\ reader' = [reader EXCEPT ![c] = "read"] /\ udprx' = [udprx EXCEPT ![c] = "voice"]
    /\ UNCHANGED <<listenerVars, serverVars, client, stopVars, crashed>>

voicebroadcast(c) ==
    /\ udprx[c] = "voice" /\ handler = "select"
    /\ udprx' = [udprx EXCEPT ![c] = "receive"]
    /\ crashed' = (crashed \/ client[c] \in {"removed", "gone"})
    /\ UNCHANGED <<listenerVars, serverVars, client, reader, stopVars>>

udprxEnds(c) ==
    /\ udprx[c] = "receive" /\ client[c] = "gone"
    /\ udprx' = [udprx EXCEPT ![c] = "ended"]
    /\ UNCHANGED <<listenerVars, serverVars, client, reader, stopVars, crashed>>

\* handleUdpPacket decrypts a datagram of a client it knows and passes it on with
\* hmutex held.
handleUdpPacket(c) ==
    /\ listen = "read" /\ c \in Talkers /\ client[c] \in {"ready", "leaving"}
    /\ listen' = c
    /\ UNCHANGED <<listenerVars, start, handler, web, tls, clientVars, stopVars, crashed>>

udpPasses(c) ==
    /\ listen = c /\ udprx[c] = "receive"
    /\ listen' = "read"
    /\ udprx' = [udprx EXCEPT ![c] = "voice"]
    /\ UNCHANGED <<listenerVars, start, handler, web, tls, client, reader, stopVars, crashed>>

udpEnds ==
    /\ listen = "read" /\ stop \in {"freeze", "wait"}
    /\ listen' = "ended"
    /\ UNCHANGED <<listenerVars, start, handler, web, tls, clientVars, stopVars, crashed>>

-----------------------------------------------------------------------------
\* Faulty: the readiness endpoint is not told.
stopBeginsQuietly ==
    /\ stop = "no" /\ start \in {"up", "broken", "failed"}
    /\ stop' = IF start = "failed" THEN "stopped" ELSE "bye"
    /\ UNCHANGED <<listenerVars, readyVars, serverVars, clientVars, todo, crashed>>

\* The signal handler calls Stop, which returns at once if the server does not
\* run.
stopBegins ==
    /\ stop = "no" /\ start \in {"up", "broken", "failed"}
    /\ stop' = IF start = "failed" THEN "stopped" ELSE "bye"
    /\ shuttingDown' = (start # "failed")
    /\ UNCHANGED <<listenerVars, config, checks, started, serverVars, clientVars, todo, crashed>>

\* Faulty: the clients are looked up while the handler is still there.
stopByeLater ==
    /\ stop = "bye"
    /\ todo' = {c \in Conns : client[c] = "ready"}
    /\ stop' = "disconnect"
    /\ UNCHANGED <<listenerVars, serverVars, clientVars, crashed>>

\* The handler receives on bye and ends; the ready clients are looked up.
stopBye ==
    /\ stop = "bye" /\ handler = "select"
    /\ handler' = "ended"
    /\ todo' = {c \in Conns : client[c] = "ready"}
    /\ stop' = "disconnect"
    /\ UNCHANGED <<listenerVars, start, web, tls, listen, clientVars, crashed>>

\* It disconnects one of them, unless another goroutine has begun to; then it
\* goes on when its own call returns.
stopDisconnect(c) ==
    /\ stop = "disconnect" /\ c \in todo
    /\ IF Alive(c)
       THEN client' = [client EXCEPT ![c] = "leaving"] /\ stop' = c /\ UNCHANGED todo
       ELSE todo' = todo \ {c} /\ UNCHANGED <<client, stop>>
    /\ UNCHANGED <<listenerVars, serverVars, reader, udprx, crashed>>

stopDisconnected(c) ==
    /\ stop = c /\ client[c] = "gone"
    /\ todo' = todo \ {c} /\ stop' = "disconnect"
    /\ UNCHANGED <<listenerVars, serverVars, clientVars, crashed>>

\* The web listener is closed, the HTTP server shut down with a deadline.
stopClosesWeb ==
    /\ stop = "disconnect" /\ todo = {} /\ config.web
    /\ closeBegin
    /\ stop' = "close"
    /\ UNCHANGED <<serverVars, clientVars, todo, crashed>>

stopClosing ==
    /\ stop = "close"
    /\ \/ closeSnapshot
       \/ \E c \in Conns : closeOne(c)
       \/ closeReturns
    /\ UNCHANGED <<serverVars, clientVars, stopVars, crashed>>

\* Then the raw TCP listener and the UDP socket.
stopCloses ==
    /\ \/ stop = "close" /\ closer = "returned"
       \/ stop = "disconnect" /\ todo = {} /\ ~config.web
    /\ stop' = "freeze"
    /\ UNCHANGED <<listenerVars, serverVars, clientVars, todo, crashed>>

stopFreezes ==
    /\ stop = "freeze"
    /\ stop' = "wait"
    /\ UNCHANGED <<listenerVars, serverVars, clientVars, todo, crashed>>

\* netwg.Wait returns.
stopReturns ==
    /\ stop = "wait" /\ web = "ended" /\ tls = "ended" /\ listen = "ended"
    /\ stop' = "stopped"
    /\ UNCHANGED <<listenerVars, serverVars, clientVars, todo, crashed>>

-----------------------------------------------------------------------------
\* What main and the signal handler do.
MainStep ==
    \/ startListens \/ startFails \/ startBreaks \/ startLaunches \/ markRuntimeReady \/ stopBegins

\* What peers do.
PeerStep ==
    \/ handshakeBegin \/ handshakeEnd
    \/ \E c \in Conns : authenticate(c) \/ readMessage(c) \/ readFails(c) \/ handleUdpPacket(c)

\* What goroutines do once they can.
AcceptStep == acceptTake \/ acceptEnds \/ \E c \in Conns : acceptServe(c) \/ acceptReject(c)

ClientStep(c) ==
    \/ RemoveClient(c) \/ disconnectClose(c)
    \/ sendUdprecv(c) \/ voicebroadcast(c) \/ udprxEnds(c) \/ handleMessage(c)

StopStep ==
    \/ stopBye \/ stopClosesWeb \/ stopClosing \/ stopCloses \/ stopFreezes \/ stopReturns
    \/ \E c \in Conns : stopDisconnect(c) \/ stopDisconnected(c)

LoopStep == tlsEnds \/ udpEnds \/ handlerKicked \/ \E c \in Conns : udpPasses(c)

\* The process is there; and the step does not concern readiness.
Go == ~crashed /\ stop # "stopped"
GoOn == Go /\ UNCHANGED readyVars

\* An upgrade is refused at once where there is no public WebSocket endpoint.
Upgrades == Running /\ config.web /\ Public

Next ==
    \/ MainStep /\ Go
    \/ PeerStep /\ GoOn
    \/ AcceptStep /\ GoOn
    \/ (\E c \in Conns : ClientStep(c)) /\ GoOn
    \/ StopStep /\ GoOn
    \/ LoopStep /\ GoOn
    \/ ListenerStep /\ Upgrades /\ UNCHANGED <<serverVars, clientVars, stopVars, crashed>> /\ GoOn

Spec == Init /\ [][Next]_vars

\* Goroutines that can go on do, net/http ends a request that it has begun, and a
\* read on a closed connection fails.  A mutex is not kept from one that waits for
\* it, however often others take it.  Nothing is assumed of peers.
Serve(c) ==
    /\ GoOn /\ Upgrades
    /\ \/ serve[c] = "upgrade" /\ serveRefuse(c)
       \/ serveUpgrade(c) \/ serveRegister(c) \/ serveQueue(c) \/ serveFull(c)
       \/ connForget(c) \/ connDone(c)
    /\ UNCHANGED <<serverVars, clientVars, stopVars, crashed>>

FairSpec ==
    /\ Spec
    /\ WF_vars((startLaunches \/ startBreaks \/ markRuntimeReady) /\ Go)
    /\ WF_vars(AcceptStep /\ GoOn) /\ WF_vars(StopStep /\ GoOn)
    /\ WF_vars(tlsEnds /\ GoOn) /\ WF_vars(udpEnds /\ GoOn) /\ WF_vars(handlerKicked /\ GoOn)
    /\ \A c \in Conns : /\ WF_vars(Serve(c))
                        /\ SF_vars(RemoveClient(c) /\ GoOn) /\ WF_vars(disconnectClose(c) /\ GoOn)
                        /\ WF_vars(sendUdprecv(c) /\ GoOn) /\ WF_vars(voicebroadcast(c) /\ GoOn)
                        /\ WF_vars(udpPasses(c) /\ GoOn) /\ WF_vars(handleMessage(c) /\ GoOn)
                        /\ WF_vars(readFails(c) /\ socket[c] # "open" /\ GoOn)

-----------------------------------------------------------------------------
\* Once Stop has disconnected the clients, none is ready: the handler, which alone
\* makes clients ready, has ended before Stop looks at who there is.
StopLeavesNobody ==
    stop \in {"close", "freeze", "wait", "stopped"} => \A c \in Conns : client[c] # "ready"

\* The readiness endpoint tells the truth: only a server whose handler runs and
\* that nobody has asked to stop is ready, whatever in Start has failed; and such
\* a server in Teamlancer mode is, once main has marked it, unless its web server
\* is there for other things than a public WebSocket endpoint.
ReadyExact ==
    /\ IsReady => start = "up" /\ stop = "no" /\ handler \notin {"none", "ended"}
    /\ start = "up" /\ stop = "no" /\ config.teamlancer /\ (config.web => config.public) => IsReady

Ended == stop = "stopped" \/ crashed

\* What Stop may wait for without end: a handler that Start did not launch; a
\* lock held by the UDP loop, whose datagram waits for a udpRecvLoop that waits
\* for the handler; a connection registered after the listener was closed; a
\* peer that does not finish its TLS handshake.
Held ==
    \/ start = "broken"
    \/ listen \in Conns /\ udprx[listen] = "voice"
    \/ \E c \in late : socket[c] = "open"
    \/ tls = "handshake"

\* Stop returns, unless from some time on one of these four holds it up.
StopEnds == [](stop = "bye" => <>(Ended \/ []Held))

\* Stop returns: that WebSockets cannot keep it from returning is what its comment
\* says of them ("forcibly closed when all clients were disconnected").
StopReturns == stop = "bye" ~> Ended
=============================================================================
