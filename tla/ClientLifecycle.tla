-------------------------- MODULE ClientLifecycle ---------------------------
(* The life of a connection, from handleIncomingClient to the end of           *)
(* disconnect.  Per client three goroutines run: the reader (tlsRecvLoop), the *)
(* one that handles Authenticate, and the UDP loop (udpRecvLoop); one handler  *)
(* serves all clients.  All of their Go channels are unbuffered, so a send is  *)
(* a step of two goroutines.  Any of them may call disconnect, whose flag is   *)
(* not locked.  A Go panic ends the process: crashed says which one.           *)
(* Left out: board rooms (BoardVoice), slots (ConnectionLimits), UDP sockets.  *)
EXTENDS Integers, Sequences, FiniteSets

CONSTANTS Clients, NoClient,  \* connections, in the order they may be made
          UserOf, NoUser,     \* UserOf[c]: the registered user c logs in as
          Leavers,            \* clients whose connection may end
          Refused,            \* clients whose credentials may be refused
          Senders,            \* clients that send messages when ready
          Kinds,              \* kinds of message that they send
          MaxSession,         \* bound: the largest session id
          MaxMsgs,            \* bound: messages a client sends when ready
          Opus                \* server.Opus: legacy codecs are not accepted

ASSUME ClientAssumption ==
    /\ NoClient \notin Clients
    /\ MaxSession \in Nat \ {0}
    /\ Kinds \subseteq {"UserState", "UserRemove", "opus", "celt", "ping"}

Sessions == 1..MaxSession

VARIABLES
    cstate,        \* client.state
    conn,          \* the connection: "none", "open", "gone" (by the peer), "closed"
    session,       \* client.session, 0 before the connection is made
    disconnected,  \* client.disconnected
    ready,         \* client.clientReady: "nil", "made" or "closed"
    udpClosed,     \* client.udprecv is closed
    inChannel,     \* client.Channel is the channel, not nil
    reader,        \* where tlsRecvLoop is
    msg,           \* the message it has read and passes on
    auth,          \* where handleAuthenticate is
    udp,           \* where udpRecvLoop is
    dis,           \* dis[g]: the call of disconnect that goroutine g is in
    clients,       \* server.clients: session id to client
    members,       \* channel.clients: session id to client
    cur, unused,   \* the session pool
    h,             \* the handler: pc, the client and the clients still to serve
    view,          \* view[c]: the sessions that c was told are present
    msgs,          \* messages c has sent
    crashed,       \* "no", or the panic that ended the process
    teardowns,     \* history: how often RemoveClient ran for c
    sendFailed,    \* history: a send to some client has failed
    reusedEarly    \* history: an id was issued while RemoveClient still used it

clientVars == <<cstate, conn, session, disconnected, ready, udpClosed, inChannel>>
loopVars == <<reader, msg, auth, udp, msgs>>
serverVars == <<clients, members, cur, unused>>
histVars == <<teardowns, sendFailed, reusedEarly>>
vars == <<clientVars, loopVars, dis, serverVars, h, view, crashed, histVars>>

Pool == INSTANCE SessionPool
        WITH MaxUint32 <- MaxSession, tracking <- FALSE, used <- {}, outcome <- "ok"

Handler == <<"handler", NoClient>>
Reader(c) == <<"reader", c>>
Auth(c) == <<"auth", c>>
Udp(c) == <<"udp", c>>
Goroutines == {Handler} \cup ({"reader", "auth", "udp"} \X Clients)

NoCall == [pc |-> "none", c |-> NoClient, kicked |-> FALSE]
NoMsg == [kind |-> "none", of |-> 0]
Idle == [pc |-> "idle", c |-> NoClient, todo |-> {}]

Running == crashed = "no"
Registered == {clients[s] : s \in Sessions} \ {NoClient}
Members == {members[s] : s \in Sessions} \ {NoClient}

-----------------------------------------------------------------------------
Init == /\ cstate = [c \in Clients |-> "Connected"]
        /\ conn = [c \in Clients |-> "none"]
        /\ session = [c \in Clients |-> 0]
        /\ disconnected = [c \in Clients |-> FALSE]
        /\ ready = [c \in Clients |-> "nil"]
        /\ udpClosed = [c \in Clients |-> FALSE]
        /\ inChannel = [c \in Clients |-> FALSE]
        /\ reader = [c \in Clients |-> "off"]
        /\ msg = [c \in Clients |-> NoMsg]
        /\ auth = [c \in Clients |-> "off"]
        /\ udp = [c \in Clients |-> "off"]
        /\ msgs = [c \in Clients |-> 0]
        /\ dis = [g \in Goroutines |-> NoCall]
        /\ clients = [s \in Sessions |-> NoClient]
        /\ members = [s \in Sessions |-> NoClient]
        /\ cur = 0 /\ unused = <<>>
        /\ h = Idle
        /\ view = [c \in Clients |-> {}]
        /\ crashed = "no"
        /\ teardowns = [c \in Clients |-> 0]
        /\ sendFailed = FALSE
        /\ reusedEarly = FALSE

-----------------------------------------------------------------------------
\* Sending.  A write to a connection the peer has left may fail or not; a write
\* to one the server has closed always fails.
CanSend(c) == conn[c] # "closed"
CanFail(c) == conn[c] # "open"

\* broadcastProtoMessage walks the client map in any order and stops at the
\* first error: the sets of clients it may have reached.
Recipients == {c \in Registered : cstate[c] \in {"Authenticated", "Ready"}}
Reached(ok) ==
    IF ok THEN {to \in {Recipients} : \A c \in to : CanSend(c)}
    ELSE {to \in SUBSET Recipients :
             (\A c \in to : CanSend(c)) /\ \E c \in Recipients \ to : CanFail(c)}

Broadcast(ok, to, add, remove) ==
    /\ to \in Reached(ok)
    /\ view' = [c \in Clients |-> IF c \in to THEN (view[c] \cup add) \ remove ELSE view[c]]
    /\ sendFailed' = (sendFailed \/ ~ok)

\* Faulty: only a kick disconnects.
DisconnectsIfKicked(g, c, kicked) ==
    dis' = IF disconnected[c] \/ ~kicked THEN dis
           ELSE [dis EXCEPT ![g] = [pc |-> "claim", c |-> c, kicked |-> kicked]]

\* g calls disconnect(c), which returns at once if the flag is set.
Disconnects(g, c, kicked) ==
    dis' = IF disconnected[c] THEN dis
           ELSE [dis EXCEPT ![g] = [pc |-> "claim", c |-> c, kicked |-> kicked]]

Free(g) == Running /\ dis[g].pc = "none"

-----------------------------------------------------------------------------
\* disconnect and RemoveClient, in goroutine g.

\* The flag is set, the client leaves server.clients, its id goes back.
disconnectClaim(g) ==
    LET c == dis[g].c
    IN /\ Running
       /\ dis[g].pc = "claim"
       /\ disconnected' = [disconnected EXCEPT ![c] = TRUE]
       /\ clients' = [clients EXCEPT ![session[c]] = NoClient]
       /\ Pool!GiveBack(session[c])
       /\ teardowns' = [teardowns EXCEPT ![c] = @ + 1]
       /\ dis' = [dis EXCEPT ![g].pc = "leave"]
       /\ UNCHANGED <<cstate, conn, session, ready, udpClosed, inChannel, loopVars, members,
                      cur, h, view, crashed, sendFailed, reusedEarly>>

\* Faulty: the member map is not updated.
channelKeepsClient(c) == inChannel' = [inChannel EXCEPT ![c] = FALSE] /\ UNCHANGED members

\* channel.RemoveClient deletes by session id.
channelRemoveClient(c) ==
    /\ members' = IF inChannel[c] THEN [members EXCEPT ![session[c]] = NoClient] ELSE members
    /\ inChannel' = [inChannel EXCEPT ![c] = FALSE]

disconnectLeave(g) ==
    LET c == dis[g].c
    IN /\ Running
       /\ dis[g].pc = "leave"
       /\ channelRemoveClient(c)
       /\ dis' = [dis EXCEPT ![g].pc = "tell"]
       /\ UNCHANGED <<cstate, conn, session, disconnected, ready, udpClosed, loopVars, clients,
                      cur, unused, h, view, crashed, histVars>>

\* Faulty: the states are compared the wrong way.
TellsNobody(c, kicked) == ~kicked /\ cstate[c] = "Authenticated"

\* The others are told with a UserRemove, unless c was kicked or never ready.
TellsOthers(c, kicked) == ~kicked /\ cstate[c] = "Ready"

disconnectTell(g, ok, to) ==
    LET c == dis[g].c
    IN /\ Running
       /\ dis[g].pc = "tell"
       /\ IF TellsOthers(c, dis[g].kicked)
          THEN Broadcast(ok, to, {}, {session[c]})
          ELSE ok /\ to = {} /\ UNCHANGED <<view, sendFailed>>
       /\ dis' = [dis EXCEPT ![g].pc = "close"]
       /\ UNCHANGED <<clientVars, loopVars, serverVars, h, crashed, teardowns, reusedEarly>>

\* Faulty: forgets the clients in finishAuthenticate.
PrematureUntilAuthenticated(c) == cstate[c] = "ClientSentVersion"

\* The reader may be waiting for clientReady.
Premature(c) == cstate[c] \in {"ClientSentVersion", "Authenticated"}

\* close(udprecv), close(clientReady) for a client that is not ready yet, and
\* the connection.  Closing a closed or a nil channel panics.
disconnectClose(g) ==
    LET c == dis[g].c
    IN /\ Running
       /\ dis[g].pc = "close"
       /\ udpClosed' = [udpClosed EXCEPT ![c] = TRUE]
       /\ crashed' = IF udpClosed[c] THEN "udprecv closed twice"
                     ELSE IF Premature(c) /\ ready[c] # "made" THEN "clientReady not open"
                     ELSE "no"
       /\ ready' = IF Premature(c) THEN [ready EXCEPT ![c] = "closed"] ELSE ready
       /\ conn' = [conn EXCEPT ![c] = "closed"]
       /\ dis' = [dis EXCEPT ![g] = NoCall]
       /\ UNCHANGED <<cstate, session, disconnected, inChannel, loopVars, serverVars, h, view,
                      histVars>>

-----------------------------------------------------------------------------
\* Faulty: numbers the clients.
AssignByCount(c) == session' = [session EXCEPT ![c] = Cardinality(Registered) + 1]

AssignSession(c) == session' = [session EXCEPT ![c] = Pool!NextId]

\* handleIncomingClient: a session id, and the two loops.
handleIncomingClient(c) ==
    /\ Running
    /\ conn[c] = "none"
    /\ ~Pool!Depleted
    /\ Pool!TakeNext
    /\ AssignSession(c)
    /\ reusedEarly' = (reusedEarly \/ \E g \in Goroutines :
                          dis[g].pc \in {"claim", "leave", "tell"} /\ session[dis[g].c] = Pool!NextId)
    /\ conn' = [conn EXCEPT ![c] = "open"]
    /\ reader' = [reader EXCEPT ![c] = "connected"]
    /\ udp' = [udp EXCEPT ![c] = "receive"]
    /\ UNCHANGED <<cstate, disconnected, ready, udpClosed, inChannel, msg, auth, msgs, dis, clients,
                   members, h, view, crashed, teardowns, sendFailed>>

\* The peer ends the connection or the network does.
PeerLeaves(c) ==
    /\ Running
    /\ c \in Leavers
    /\ conn[c] = "open"
    /\ conn' = [conn EXCEPT ![c] = "gone"]
    /\ UNCHANGED <<cstate, session, disconnected, ready, udpClosed, inChannel, loopVars, dis,
                   serverVars, h, view, crashed, histVars>>

-----------------------------------------------------------------------------
\* tlsRecvLoop.

\* The server's version is sent (an error is ignored), the client's is read.
exchangeVersions(c) ==
    /\ Free(Reader(c))
    /\ \/ /\ reader[c] = "connected"
          /\ cstate' = [cstate EXCEPT ![c] = "ServerSentVersion"]
          /\ reader' = [reader EXCEPT ![c] = "version"]
       \/ /\ reader[c] = "version"
          /\ CanSend(c)
          /\ cstate' = [cstate EXCEPT ![c] = "ClientSentVersion"]
          /\ reader' = [reader EXCEPT ![c] = "authenticate"]
    /\ UNCHANGED <<conn, session, disconnected, ready, udpClosed, inChannel, msg, auth, udp, msgs,
                   dis, serverVars, h, view, crashed, histVars>>

\* The next message is handed to a goroutine of its own.
readAuthenticate(c) ==
    /\ Free(Reader(c))
    /\ reader[c] = "authenticate"
    /\ CanSend(c)
    /\ ready' = [ready EXCEPT ![c] = "made"]
    /\ auth' = [auth EXCEPT ![c] = "check"]
    /\ reader' = [reader EXCEPT ![c] = "wait"]
    /\ UNCHANGED <<cstate, conn, session, disconnected, udpClosed, inChannel, msg, udp, msgs, dis,
                   serverVars, h, view, crashed, histVars>>

\* <-client.clientReady returns because disconnect has closed the channel.
readyClosed(c) ==
    /\ Free(Reader(c))
    /\ reader[c] = "wait"
    /\ ready[c] = "closed"
    /\ reader' = [reader EXCEPT ![c] = "woken"]
    /\ UNCHANGED <<clientVars, msg, auth, udp, msgs, dis, serverVars, h, view, crashed, histVars>>

\* It leaves if the client was disconnected in the meantime.
afterReady(c) ==
    /\ Free(Reader(c))
    /\ reader[c] = "woken"
    /\ reader' = [reader EXCEPT ![c] = IF disconnected[c] THEN "exit" ELSE "read"]
    /\ ready' = IF disconnected[c] THEN ready ELSE [ready EXCEPT ![c] = "nil"]
    /\ UNCHANGED <<cstate, conn, session, disconnected, udpClosed, inChannel, msg, auth, udp, msgs,
                   dis, serverVars, h, view, crashed, histVars>>

readMessage(c, kind, of) ==
    /\ Free(Reader(c))
    /\ reader[c] = "read"
    /\ CanSend(c)
    /\ c \in Senders
    /\ msgs[c] < MaxMsgs
    /\ kind = "UserRemove" <=> of # 0
    /\ msgs' = [msgs EXCEPT ![c] = @ + 1]
    /\ msg' = [msg EXCEPT ![c] = [kind |-> kind, of |-> of]]
    /\ reader' = [reader EXCEPT ![c] = IF kind \in {"UserState", "UserRemove"}
                                       THEN "incoming" ELSE "udprecv"]
    /\ UNCHANGED <<clientVars, auth, udp, dis, serverVars, h, view, crashed, histVars>>

\* A read fails at the end of the connection: the reader disconnects and exits.
readFails(c) ==
    /\ Free(Reader(c))
    /\ reader[c] \in {"version", "authenticate", "read"}
    /\ conn[c] # "open"
    /\ Disconnects(Reader(c), c, FALSE)
    /\ reader' = [reader EXCEPT ![c] = "exit"]
    /\ UNCHANGED <<clientVars, msg, auth, udp, msgs, serverVars, h, view, crashed, histVars>>

\* client.udprecv <- msg.buf, received by udpRecvLoop or on a closed channel.
sendUdprecv(c) ==
    /\ Free(Reader(c))
    /\ reader[c] = "udprecv"
    /\ IF udpClosed[c]
       THEN crashed' = "send on closed udprecv" /\ UNCHANGED <<reader, udp>>
       ELSE /\ Free(Udp(c)) /\ udp[c] = "receive"
            /\ reader' = [reader EXCEPT ![c] = "read"]
            /\ udp' = [udp EXCEPT ![c] = msg[c].kind]
            /\ UNCHANGED crashed
    /\ UNCHANGED <<clientVars, msg, auth, msgs, dis, serverVars, h, view, histVars>>

-----------------------------------------------------------------------------
\* udpRecvLoop.

\* Faulty: ends the loop whether or not the server has switched to Opus.
udpLegacyReturns(c) ==
    /\ Free(Udp(c))
    /\ udp[c] = "celt"
    /\ udp' = [udp EXCEPT ![c] = "exit"]
    /\ UNCHANGED <<clientVars, reader, msg, auth, msgs, dis, serverVars, h, view, crashed, histVars>>

\* A packet of a codec that Opus has replaced ends the loop.
udpLegacy(c) ==
    /\ Free(Udp(c))
    /\ udp[c] = "celt"
    /\ udp' = [udp EXCEPT ![c] = IF Opus THEN "exit" ELSE "opus"]
    /\ UNCHANGED <<clientVars, reader, msg, auth, msgs, dis, serverVars, h, view, crashed, histVars>>

\* A ping is echoed; a failed send disconnects the client.
udpPing(c) ==
    /\ Free(Udp(c))
    /\ udp[c] = "ping"
    /\ udp' = [udp EXCEPT ![c] = "receive"]
    /\ \/ CanSend(c) /\ UNCHANGED <<dis, sendFailed>>
       \/ CanFail(c) /\ Disconnects(Udp(c), c, FALSE) /\ sendFailed' = TRUE
    /\ UNCHANGED <<clientVars, reader, msg, auth, msgs, serverVars, h, view, crashed, teardowns,
                   reusedEarly>>

udpEnds(c) ==
    /\ Free(Udp(c))
    /\ udp[c] = "receive"
    /\ udpClosed[c]
    /\ udp' = [udp EXCEPT ![c] = "exit"]
    /\ UNCHANGED <<clientVars, reader, msg, auth, msgs, dis, serverVars, h, view, crashed, histVars>>

-----------------------------------------------------------------------------
\* handleAuthenticate.

\* The credentials are right and the CryptSetup is sent.
authSucceeds(c) ==
    /\ Free(Auth(c))
    /\ auth[c] = "check"
    /\ CanSend(c)
    /\ cstate' = [cstate EXCEPT ![c] = "Authenticated"]
    /\ auth' = [auth EXCEPT ![c] = "send"]
    /\ UNCHANGED <<conn, session, disconnected, ready, udpClosed, inChannel, reader, msg, udp, msgs,
                   dis, serverVars, h, view, crashed, histVars>>

\* RejectAuth, or client.Panic when the CryptSetup cannot be sent.
authFails(c, kicked) ==
    /\ Free(Auth(c))
    /\ IF kicked THEN c \in Refused ELSE CanFail(c)
    /\ auth[c] = "check"
    /\ auth' = [auth EXCEPT ![c] = "exit"]
    /\ Disconnects(Auth(c), c, kicked)
    /\ UNCHANGED <<clientVars, reader, msg, udp, msgs, serverVars, h, view, crashed, histVars>>

-----------------------------------------------------------------------------
\* The handler: finishAuthenticate.

HandlerAt(pc) == Free(Handler) /\ h.pc = pc
Goes(pc) == h' = [h EXCEPT !.pc = pc]
Returns == h' = Idle

\* Faulty: anybody may connect twice.
SameUserAllowed(c) == {}

\* The clients that already use the credentials of c.
SameUser(c) == {d \in Registered : UserOf[c] # NoUser /\ UserOf[d] = UserOf[c]}

\* Faulty: the client is not entered into the map.
setClientNothing(c) == UNCHANGED clients

setClient(c) == clients' = [clients EXCEPT ![session[c]] = c]

\* clientAuthenticated is received; c is refused if its user is connected, else
\* it is registered and sent the channel list.  A failed send disconnects c and
\* finishAuthenticate goes on.
finishAuthenticate(c) ==
    /\ HandlerAt("idle")
    /\ auth[c] = "send"
    /\ auth' = [auth EXCEPT ![c] = "exit"]
    /\ IF SameUser(c) # {}
       THEN /\ Disconnects(Handler, c, TRUE)
            /\ UNCHANGED <<clients, h, sendFailed>>
       ELSE /\ setClient(c)
            /\ h' = [h EXCEPT !.pc = "enter", !.c = c]
            /\ \/ CanSend(c) /\ UNCHANGED <<dis, sendFailed>>
               \/ CanFail(c) /\ Disconnects(Handler, c, FALSE) /\ sendFailed' = TRUE
    /\ UNCHANGED <<clientVars, reader, msg, udp, msgs, members, cur, unused, view, crashed,
                   teardowns, reusedEarly>>

\* userEnterChannel and the UserState for everybody, whose errors are ignored;
\* sendUserList takes its snapshot.
finishEnter(ok, to) ==
    /\ HandlerAt("enter")
    /\ inChannel' = [inChannel EXCEPT ![h.c] = TRUE]
    /\ members' = [members EXCEPT ![session[h.c]] = h.c]
    /\ Broadcast(ok, to, {session[h.c]}, {})
    /\ h' = [h EXCEPT !.pc = "list", !.todo = Registered \ {h.c}]
    /\ UNCHANGED <<cstate, conn, session, disconnected, ready, udpClosed, loopVars, dis, clients,
                   cur, unused, crashed, teardowns, reusedEarly>>

\* sendUserList sends the state of each ready client, its Channel.Id included.
finishList(d) ==
    /\ HandlerAt("list")
    /\ d \in h.todo
    /\ h' = [h EXCEPT !.todo = @ \ {d}]
    /\ IF cstate[d] # "Ready" THEN UNCHANGED <<view, sendFailed, crashed>>
       ELSE IF ~inChannel[d] THEN crashed' = "nil Channel" /\ UNCHANGED <<view, sendFailed>>
       ELSE /\ UNCHANGED crashed
            /\ \/ /\ CanSend(h.c)
                  /\ view' = [view EXCEPT ![h.c] = @ \cup {session[d]}]
                  /\ UNCHANGED sendFailed
               \/ CanFail(h.c) /\ sendFailed' = TRUE /\ UNCHANGED view
    /\ UNCHANGED <<clientVars, loopVars, dis, serverVars, teardowns, reusedEarly>>

\* ServerSync and ServerConfig: c is ready, or disconnected when they fail.
finishSync ==
    /\ HandlerAt("list")
    /\ h.todo = {}
    /\ \/ /\ CanSend(h.c)
          /\ cstate' = [cstate EXCEPT ![h.c] = "Ready"]
          /\ Goes("signal")
          /\ UNCHANGED <<dis, sendFailed>>
       \/ /\ CanFail(h.c)
          /\ Disconnects(Handler, h.c, FALSE)
          /\ sendFailed' = TRUE
          /\ Returns
          /\ UNCHANGED cstate
    /\ UNCHANGED <<conn, session, disconnected, ready, udpClosed, inChannel, loopVars, serverVars,
                   view, crashed, teardowns, reusedEarly>>

\* client.clientReady <- true.
finishSignal ==
    /\ HandlerAt("signal")
    /\ reader[h.c] = "wait"
    /\ reader' = [reader EXCEPT ![h.c] = "woken"]
    /\ Returns
    /\ UNCHANGED <<clientVars, msg, auth, udp, msgs, dis, serverVars, view, crashed, histVars>>

-----------------------------------------------------------------------------
\* The handler: messages of ready clients.

Takes(c, kind) ==
    /\ HandlerAt("idle")
    /\ Free(Reader(c))
    /\ reader[c] = "incoming"
    /\ msg[c].kind = kind
    /\ reader' = [reader EXCEPT ![c] = "read"]

\* The new state of a user goes to everybody; an error is a panic.
UserStateBroadcast(ok, to) ==
    /\ Broadcast(ok, to, {}, {})
    /\ crashed' = IF ok THEN "no" ELSE "UserState not broadcast"

\* handleUserStateMessage, for a change that stays within the channel: the sender
\* must be in the client map.
handleUserState(c, ok, to) ==
    /\ Takes(c, "UserState")
    /\ IF clients[session[c]] = NoClient
       THEN /\ ok /\ to = {}
            /\ crashed' = "client not in map"
            /\ UNCHANGED <<view, sendFailed>>
       ELSE UserStateBroadcast(ok, to)
    /\ UNCHANGED <<clientVars, msg, auth, udp, msgs, dis, serverVars, h, teardowns, reusedEarly>>

\* handleUserRemoveMessage of a client that may kick.  A session id that is not
\* in use disconnects the sender; an error of the broadcast is a panic.
handleUserRemove(c, ok, to) ==
    LET t == clients[msg[c].of]
    IN /\ Takes(c, "UserRemove")
       /\ IF t = NoClient
          THEN /\ ok /\ to = {}
               /\ Disconnects(Handler, c, FALSE)
               /\ UNCHANGED <<view, sendFailed, crashed>>
          ELSE /\ Broadcast(ok, to, {}, {msg[c].of})
               /\ IF ok THEN Disconnects(Handler, t, TRUE) /\ UNCHANGED crashed
                  ELSE crashed' = "UserRemove not broadcast" /\ UNCHANGED dis
       /\ UNCHANGED <<clientVars, msg, auth, udp, msgs, serverVars, h, teardowns, reusedEarly>>

\* A voice packet: it is sent to the members of the sender's channel, and those
\* a send fails for are disconnected, one after the other.
voicebroadcast(c, failed) ==
    /\ HandlerAt("idle")
    /\ Free(Udp(c))
    /\ udp[c] = "opus"
    /\ udp' = [udp EXCEPT ![c] = "receive"]
    /\ IF ~inChannel[c]
       THEN crashed' = "nil Channel" /\ failed = {} /\ UNCHANGED <<h, sendFailed>>
       ELSE /\ failed \subseteq {d \in Members \ {c} : CanFail(d)}
            /\ {d \in Members \ {c} : ~CanSend(d)} \subseteq failed
            /\ h' = IF failed = {} THEN h ELSE [h EXCEPT !.pc = "drop", !.todo = failed]
            /\ sendFailed' = (sendFailed \/ failed # {})
            /\ UNCHANGED crashed
    /\ UNCHANGED <<clientVars, reader, msg, auth, msgs, dis, serverVars, view, teardowns, reusedEarly>>

voicebroadcastDrop(d) ==
    /\ HandlerAt("drop")
    /\ d \in h.todo
    /\ Disconnects(Handler, d, FALSE)
    /\ h' = IF h.todo = {d} THEN Idle ELSE [h EXCEPT !.todo = @ \ {d}]
    /\ UNCHANGED <<clientVars, loopVars, serverVars, view, crashed, histVars>>

-----------------------------------------------------------------------------
DisconnectStep(g) == \/ disconnectClaim(g)
                     \/ disconnectLeave(g)
                     \/ \E ok \in BOOLEAN, to \in SUBSET Clients : disconnectTell(g, ok, to)
                     \/ disconnectClose(g)

ReaderStep(c) == \/ exchangeVersions(c)
                 \/ readAuthenticate(c)
                 \/ readyClosed(c)
                 \/ afterReady(c)
                 \/ readFails(c)
                 \/ sendUdprecv(c)

UdpStep(c) == udpLegacy(c) \/ udpPing(c) \/ udpEnds(c)

AuthStep(c) == authSucceeds(c) \/ \E kicked \in BOOLEAN : authFails(c, kicked)

HandlerStep == \/ \E ok \in BOOLEAN, to \in SUBSET Clients : finishEnter(ok, to)
               \/ \E d \in Clients : finishList(d)
               \/ finishSync
               \/ finishSignal
               \/ \E d \in Clients : voicebroadcastDrop(d)

\* What the handler receives from c in its select statement.
HandlerReceives(c) ==
    \/ finishAuthenticate(c)
    \/ \E ok \in BOOLEAN, to \in SUBSET Clients : handleUserState(c, ok, to)
    \/ \E ok \in BOOLEAN, to \in SUBSET Clients : handleUserRemove(c, ok, to)
    \/ \E failed \in SUBSET Clients : voicebroadcast(c, failed)

Next == \/ \E g \in Goroutines : DisconnectStep(g)
        \/ HandlerStep
        \/ \E c \in Clients : \/ handleIncomingClient(c)
                              \/ PeerLeaves(c)
                              \/ ReaderStep(c)
                              \/ UdpStep(c)
                              \/ AuthStep(c)
                              \/ HandlerReceives(c)
        \/ \E c \in Clients, kind \in Kinds, of \in 0..MaxSession : readMessage(c, kind, of)

Spec == Init /\ [][Next]_vars

\* Goroutines that can run do, and the handler's select takes any case that
\* stays ready or keeps becoming ready.
FairSpec == /\ Spec
            /\ WF_vars(HandlerStep)
            /\ \A g \in Goroutines : WF_vars(DisconnectStep(g))
            /\ \A c \in Clients : /\ WF_vars(ReaderStep(c))
                                  /\ WF_vars(UdpStep(c))
                                  /\ WF_vars(AuthStep(c))
                                  /\ SF_vars(HandlerReceives(c))

-----------------------------------------------------------------------------
\* A call of disconnect, none included, and the handler.
Calls == [pc : {"none", "claim", "leave", "tell", "close"}, c : Clients \cup {NoClient}, kicked : BOOLEAN]
HandlerStates ==
    [pc : {"idle", "enter", "list", "signal", "drop"}, c : Clients \cup {NoClient}, todo : SUBSET Clients]

\* Types; every session id given back to the pool is one that it issued
\* (RemoveClient, handleIncomingClient).
TypeOK ==
    /\ cstate \in [Clients -> {"Connected", "ServerSentVersion", "ClientSentVersion",
                               "Authenticated", "Ready"}]
    /\ conn \in [Clients -> {"none", "open", "gone", "closed"}]
    /\ session \in [Clients -> 0..MaxSession]
    /\ disconnected \in [Clients -> BOOLEAN]
    /\ ready \in [Clients -> {"nil", "made", "closed"}]
    /\ udpClosed \in [Clients -> BOOLEAN]
    /\ inChannel \in [Clients -> BOOLEAN]
    /\ reader \in [Clients -> {"off", "connected", "version", "authenticate", "wait", "woken",
                               "read", "incoming", "udprecv", "exit"}]
    /\ msg \in [Clients -> [kind : Kinds \cup {"none"}, of : 0..MaxSession]]
    /\ auth \in [Clients -> {"off", "check", "send", "exit"}]
    /\ udp \in [Clients -> {"off", "receive", "opus", "celt", "ping", "exit"}]
    /\ dis \in [Goroutines -> Calls]
    /\ clients \in [Sessions -> Clients \cup {NoClient}]
    /\ members \in [Sessions -> Clients \cup {NoClient}]
    /\ cur \in 0..MaxSession /\ unused \in Seq(Sessions)
    /\ view \in [Clients -> SUBSET Sessions]
    /\ h \in HandlerStates
    /\ teardowns \in [Clients -> Nat]
    /\ sendFailed \in BOOLEAN /\ reusedEarly \in BOOLEAN

\* No client was torn down by two goroutines at once.
TornDownOnce == \A c \in Clients : teardowns[c] <= 1

\* Connections that have an id and were not torn down.
Live == {c \in Clients : session[c] # 0 /\ ~disconnected[c]}

\* Live connections have different session ids, whatever ids come back and are
\* issued again, as long as no client is torn down twice.
LiveSessionsDistinct ==
    TornDownOnce => \A c, d \in Live : session[c] = session[d] => c = d

\* A client that can send and be sent messages is found under its session id:
\* no teardown removes another client's entry from the client map.
ReadyClientsFound ==
    TornDownOnce => \A c \in Live : cstate[c] = "Ready" => clients[session[c]] = c

\* At most one connection per registered user: finishAuthenticate refuses the
\* second one although the first may be on its way out.
OneClientPerUser ==
    \A c, d \in Registered : UserOf[c] # NoUser /\ UserOf[c] = UserOf[d] => c = d

\* Nobody is in the middle of anything.
Quiet == /\ Running
         /\ h.pc = "idle"
         /\ \A g \in Goroutines : dis[g].pc = "none"

\* What a ready client was told is who is there: between calls the roster of
\* every live ready client is the set of the sessions of all such clients, if no
\* send failed and no id was reused before its UserRemove was sent.
RostersAccurate ==
    Quiet /\ ~sendFailed /\ ~reusedEarly /\ TornDownOnce =>
        LET there == {c \in Live : cstate[c] = "Ready"}
        IN \A c \in there : view[c] = {session[d] : d \in there}

\* RemoveClient takes a client out of the channel it is in: between calls no
\* disconnected client is a member, if no send failed.  (finishAuthenticate puts
\* a client into its channel even when sending it the channel list failed.)
NoGhostMembers ==
    Quiet /\ ~sendFailed /\ TornDownOnce => \A c \in Members : ~disconnected[c]

\* The receiver routine of a client that is being authenticated does not wait
\* for ever: it is told that the client is ready, or that it is gone.
AuthenticationEnds ==
    \A c \in Clients : reader[c] = "wait" ~> (reader[c] # "wait" \/ ~Running)

\* A connection that its peer has left is closed by the server in the end.
GoneIsTornDown ==
    \A c \in Clients : conn[c] = "gone" ~> (conn[c] = "closed" \/ ~Running)

\* Voice that arrives through the tunnel gets from udprecv to udpRecvLoop.
VoiceIsReceived ==
    \A c \in Clients : reader[c] = "udprecv" ~> (reader[c] # "udprecv" \/ ~Running)

\* A premature disconnect closes clientReady, so that the receiver can exit.
ReadyClosedOnce == crashed # "clientReady not open"

\* The sender of a message that the handler handles is in the client map, as
\* handleUserStateMessage asserts.
SendersKnown == crashed # "client not in map"
=============================================================================
