------------------------ MODULE ClientLifecycleProofs -----------------------
(* Proofs about ClientLifecycle, for any number of clients and session ids and *)
(* any messages, in three parts.                                               *)
(*                                                                             *)
(* The first says what the steps of the goroutines change, and what holds of a *)
(* client until it is authenticated: it is unknown to all goroutines but its   *)
(* own, and the server's maps hold a client under its own session id only.     *)
(*                                                                             *)
(* The second is about the client map, the members of the channel and the      *)
(* session ids.  None of the properties is inductive.  A session id that went  *)
(* back to the pool must not belong to a client that is still there, and       *)
(* between the steps of a teardown a client may be in some of the server's     *)
(* maps and not in others.                                                     *)
(*                                                                             *)
(* The third is about the rosters of the clients.  RostersAccurate speaks of   *)
(* the moments between two calls; in between, a client that is being torn down *)
(* is still in the rosters of those that were not told, and a newcomer has the *)
(* part of the list that was sent.  The inductive invariant says who is in a   *)
(* roster at every step.                                                       *)
EXTENDS ClientLifecycle, SequenceTheorems, TLAPS

\* Zenon is the prover of most steps; those that need another one cite it.
USE ClientAssumption, Zenon

-----------------------------------------------------------------------------
\* A connection has a session id from the start, and its goroutines run; it is
\* still to send its Authenticate message, or that is being handled.
Early(c) == reader[c] \in {"off", "connected", "version", "authenticate"}
Authing(c) == auth[c] \in {"check", "send"}
Finishing(c) == h.pc \in {"enter", "list", "signal"} /\ h.c = c

Numbered ==
    \A c \in Clients : /\ session[c] = 0 <=> reader[c] = "off"
                       /\ conn[c] = "none" => reader[c] = "off"

\* A UserRemove names a session id, and the UDP loop is passed what it takes.
Wanted ==
    \A c \in Clients :
        /\ reader[c] = "incoming" /\ msg[c].kind = "UserRemove" => msg[c].of \in Sessions
        /\ reader[c] = "udprecv" => msg[c].kind \in {"opus", "celt", "ping"}

\* A call of disconnect that is past its first step is for a client whose flag is
\* set, and the flag is set exactly for those that a call was made for.
TornDown ==
    /\ \A c \in Clients : /\ teardowns[c] = 0 <=> ~disconnected[c]
                          /\ udpClosed[c] => disconnected[c]
    /\ \A g \in Goroutines : /\ dis[g].pc # "none" => dis[g].c \in Clients
                             /\ dis[g].pc \in {"leave", "tell", "close"} =>
                                disconnected[dis[g].c]

\* The server's maps hold a client under its own session id only.
Keyed ==
    \A s \in Sessions, c \in Clients :
        /\ clients[s] = c => session[c] = s /\ ~disconnected[c]
        /\ members[s] = c => session[c] = s /\ inChannel[c]

\* The handler has a client while it finishes an authentication, and does not send
\* it its own state.
HandlerSound == /\ h.pc = "idle" => h = Idle
                /\ h.pc \in {"enter", "list", "signal"} => h.c \in Clients
                /\ h.pc = "list" => h.c \notin h.todo

\* Nobody but the goroutines of c has heard of it, and none of them gives it up.
Unknown(c) == /\ ~disconnected[c] /\ ~udpClosed[c] /\ ~inChannel[c]
              /\ \A g \in Goroutines : dis[g].c # c
              /\ \A s \in Sessions : clients[s] # c
              /\ h.c # c /\ c \notin h.todo
              /\ udp[c] \in {"off", "receive"}
              /\ ready[c] # "closed"
              /\ cstate[c] # "Ready"
              /\ view[c] = {}

Newcomers ==
    \A c \in Clients :
        /\ Early(c) => auth[c] = "off"
        /\ Authing(c) => reader[c] = "wait" /\ ready[c] = "made"
        /\ auth[c] = "send" => cstate[c] = "Authenticated" /\ udp[c] = "receive"
        /\ reader[c] # "off" /\ (Early(c) \/ Authing(c)) => udp[c] = "receive"
        /\ Early(c) \/ Authing(c) => Unknown(c)

\* The inductive invariant.
HandshakeInv == /\ TypeOK /\ Numbered /\ Wanted /\ TornDown /\ Keyed /\ HandlerSound
                /\ Newcomers

-----------------------------------------------------------------------------
\* g begins a call of disconnect for c, which is not ready if it is kicked, unless
\* the handler serves a UserRemove.
Kicks == \E c \in Clients, ok \in BOOLEAN, to \in SUBSET Clients : handleUserRemove(c, ok, to)

Begins(g, c, kicked) ==
    /\ dis[g].pc = "none" /\ ~disconnected[c] /\ ~Early(c)' /\ ~Authing(c)'
    /\ kicked => cstate'[c] # "Ready" \/ (g = Handler /\ Kicks)
    /\ dis' = [dis EXCEPT ![g] = [pc |-> "claim", c |-> c, kicked |-> kicked]]

\* The session ids and the flags stay as they are, and at most a call begins.
Settled ==
    /\ UNCHANGED <<session, cur, unused, disconnected, teardowns, udpClosed, reusedEarly>>
    /\ \/ dis' = dis
       \/ \E g \in Goroutines, c \in Clients, kicked \in BOOLEAN : Begins(g, c, kicked)

-----------------------------------------------------------------------------
\* The goroutines are what they are called.
LEMMA GoroutineFacts ==
    /\ Handler \in Goroutines
    /\ \A c \in Clients : Reader(c) \in Goroutines /\ Auth(c) \in Goroutines /\
       Udp(c) \in Goroutines
BY DEF Goroutines, Handler, Reader, Auth, Udp

\* The steps that there are.
LEMMA StepCases ==
    ASSUME Next
    PROVE
        \/ \E g \in Goroutines : disconnectClaim(g)
        \/ \E g \in Goroutines : disconnectLeave(g)
        \/ \E g \in Goroutines, ok \in BOOLEAN, to \in SUBSET Clients : disconnectTell(g, ok, to)
        \/ \E g \in Goroutines : disconnectClose(g)
        \/ \E c \in Clients : handleIncomingClient(c)
        \/ \E c \in Clients : PeerLeaves(c)
        \/ \E c \in Clients : exchangeVersions(c)
        \/ \E c \in Clients : readAuthenticate(c)
        \/ \E c \in Clients : readyClosed(c)
        \/ \E c \in Clients : afterReady(c)
        \/ \E c \in Clients : readFails(c)
        \/ \E c \in Clients : sendUdprecv(c)
        \/ \E c \in Clients : udpLegacy(c)
        \/ \E c \in Clients : udpPing(c)
        \/ \E c \in Clients : udpEnds(c)
        \/ \E c \in Clients : authSucceeds(c)
        \/ \E c \in Clients, kicked \in BOOLEAN : authFails(c, kicked)
        \/ \E c \in Clients : finishAuthenticate(c)
        \/ \E ok \in BOOLEAN, to \in SUBSET Clients : finishEnter(ok, to)
        \/ \E d \in Clients : finishList(d)
        \/ finishSync
        \/ finishSignal
        \/ \E c \in Clients, ok \in BOOLEAN, to \in SUBSET Clients : handleUserState(c, ok, to)
        \/ \E c \in Clients, ok \in BOOLEAN, to \in SUBSET Clients : handleUserRemove(c, ok, to)
        \/ \E c \in Clients, failed \in SUBSET Clients : voicebroadcast(c, failed)
        \/ \E d \in Clients : voicebroadcastDrop(d)
        \/ \E c \in Clients, kind \in Kinds, of \in 0..MaxSession : readMessage(c, kind, of)
BY DEF Next, DisconnectStep, HandlerStep, ReaderStep, UdpStep, AuthStep, HandlerReceives

\* Which steps change the session ids, the flags and the server's maps.
LEMMA ChangedBy ==
    ASSUME Next
    PROVE
        /\ (\E c \in Clients : handleIncomingClient(c)) \/ session' = session
        /\ (\E c \in Clients : handleIncomingClient(c)) \/ cur' = cur
        /\ (\E c \in Clients : handleIncomingClient(c)) \/ reusedEarly' = reusedEarly
        /\ (\E g \in Goroutines : disconnectClaim(g)) \/ disconnected' = disconnected
        /\ (\E g \in Goroutines : disconnectClaim(g)) \/ teardowns' = teardowns
        /\ (\E g \in Goroutines : disconnectClaim(g)) \/
           (\E c \in Clients : handleIncomingClient(c)) \/ unused' = unused
        /\ (\E g \in Goroutines : disconnectClaim(g)) \/
           (\E c \in Clients : finishAuthenticate(c)) \/ clients' = clients
        /\ (\E g \in Goroutines : disconnectLeave(g)) \/
           (\E ok \in BOOLEAN, to \in SUBSET Clients : finishEnter(ok, to)) \/
           members' = members
        /\ (\E g \in Goroutines : disconnectLeave(g)) \/
           (\E ok \in BOOLEAN, to \in SUBSET Clients : finishEnter(ok, to)) \/
           inChannel' = inChannel
        /\ (\E g \in Goroutines : disconnectClose(g)) \/ udpClosed' = udpClosed
<1>1. (\E c \in Clients : handleIncomingClient(c)) \/ session' = session
  BY StepCases
     DEF disconnectClaim, disconnectLeave, disconnectTell, disconnectClose, PeerLeaves,
         exchangeVersions, readAuthenticate, readyClosed, afterReady, readFails,
         sendUdprecv, udpLegacy, udpPing, udpEnds, authSucceeds, authFails,
         finishAuthenticate, finishEnter, finishList, finishSync, finishSignal,
         handleUserState, handleUserRemove, voicebroadcast, voicebroadcastDrop, readMessage,
         channelRemoveClient, clientVars, loopVars, serverVars, histVars
<1>2. (\E c \in Clients : handleIncomingClient(c)) \/ cur' = cur
  BY StepCases
     DEF disconnectClaim, disconnectLeave, disconnectTell, disconnectClose, PeerLeaves,
         exchangeVersions, readAuthenticate, readyClosed, afterReady, readFails,
         sendUdprecv, udpLegacy, udpPing, udpEnds, authSucceeds, authFails,
         finishAuthenticate, finishEnter, finishList, finishSync, finishSignal,
         handleUserState, handleUserRemove, voicebroadcast, voicebroadcastDrop, readMessage,
         channelRemoveClient, clientVars, loopVars, serverVars, histVars
<1>3. (\E c \in Clients : handleIncomingClient(c)) \/ reusedEarly' = reusedEarly
  BY StepCases
     DEF disconnectClaim, disconnectLeave, disconnectTell, disconnectClose, PeerLeaves,
         exchangeVersions, readAuthenticate, readyClosed, afterReady, readFails,
         sendUdprecv, udpLegacy, udpPing, udpEnds, authSucceeds, authFails,
         finishAuthenticate, finishEnter, finishList, finishSync, finishSignal,
         handleUserState, handleUserRemove, voicebroadcast, voicebroadcastDrop, readMessage,
         channelRemoveClient, clientVars, loopVars, serverVars, histVars
<1>4. (\E g \in Goroutines : disconnectClaim(g)) \/ disconnected' = disconnected
  BY StepCases
     DEF disconnectLeave, disconnectTell, disconnectClose, handleIncomingClient, PeerLeaves,
         exchangeVersions, readAuthenticate, readyClosed, afterReady, readFails,
         sendUdprecv, udpLegacy, udpPing, udpEnds, authSucceeds, authFails,
         finishAuthenticate, finishEnter, finishList, finishSync, finishSignal,
         handleUserState, handleUserRemove, voicebroadcast, voicebroadcastDrop, readMessage,
         channelRemoveClient, clientVars, loopVars, serverVars, histVars
<1>5. (\E g \in Goroutines : disconnectClaim(g)) \/ teardowns' = teardowns
  BY StepCases
     DEF disconnectLeave, disconnectTell, disconnectClose, handleIncomingClient, PeerLeaves,
         exchangeVersions, readAuthenticate, readyClosed, afterReady, readFails,
         sendUdprecv, udpLegacy, udpPing, udpEnds, authSucceeds, authFails,
         finishAuthenticate, finishEnter, finishList, finishSync, finishSignal,
         handleUserState, handleUserRemove, voicebroadcast, voicebroadcastDrop, readMessage,
         channelRemoveClient, clientVars, loopVars, serverVars, histVars
<1>6. (\E g \in Goroutines : disconnectClaim(g)) \/
      (\E c \in Clients : handleIncomingClient(c)) \/ unused' = unused
  BY StepCases
     DEF disconnectLeave, disconnectTell, disconnectClose, PeerLeaves, exchangeVersions,
         readAuthenticate, readyClosed, afterReady, readFails, sendUdprecv, udpLegacy,
         udpPing, udpEnds, authSucceeds, authFails, finishAuthenticate, finishEnter,
         finishList, finishSync, finishSignal, handleUserState, handleUserRemove,
         voicebroadcast, voicebroadcastDrop, readMessage, channelRemoveClient, clientVars,
         loopVars, serverVars, histVars
<1>7. (\E g \in Goroutines : disconnectClaim(g)) \/
      (\E c \in Clients : finishAuthenticate(c)) \/ clients' = clients
  BY StepCases
     DEF disconnectLeave, disconnectTell, disconnectClose, handleIncomingClient, PeerLeaves,
         exchangeVersions, readAuthenticate, readyClosed, afterReady, readFails,
         sendUdprecv, udpLegacy, udpPing, udpEnds, authSucceeds, authFails, finishEnter,
         finishList, finishSync, finishSignal, handleUserState, handleUserRemove,
         voicebroadcast, voicebroadcastDrop, readMessage, channelRemoveClient, clientVars,
         loopVars, serverVars, histVars
<1>8. (\E g \in Goroutines : disconnectLeave(g)) \/
      (\E ok \in BOOLEAN, to \in SUBSET Clients : finishEnter(ok, to)) \/ members' = members
  BY StepCases
     DEF disconnectClaim, disconnectTell, disconnectClose, handleIncomingClient, PeerLeaves,
         exchangeVersions, readAuthenticate, readyClosed, afterReady, readFails,
         sendUdprecv, udpLegacy, udpPing, udpEnds, authSucceeds, authFails,
         finishAuthenticate, finishList, finishSync, finishSignal, handleUserState,
         handleUserRemove, voicebroadcast, voicebroadcastDrop, readMessage,
         channelRemoveClient, clientVars, loopVars, serverVars, histVars
<1>9. (\E g \in Goroutines : disconnectLeave(g)) \/
      (\E ok \in BOOLEAN, to \in SUBSET Clients : finishEnter(ok, to)) \/
      inChannel' = inChannel
  BY StepCases
     DEF disconnectClaim, disconnectTell, disconnectClose, handleIncomingClient, PeerLeaves,
         exchangeVersions, readAuthenticate, readyClosed, afterReady, readFails,
         sendUdprecv, udpLegacy, udpPing, udpEnds, authSucceeds, authFails,
         finishAuthenticate, finishList, finishSync, finishSignal, handleUserState,
         handleUserRemove, voicebroadcast, voicebroadcastDrop, readMessage,
         channelRemoveClient, clientVars, loopVars, serverVars, histVars
<1>10. (\E g \in Goroutines : disconnectClose(g)) \/ udpClosed' = udpClosed
  BY StepCases
     DEF disconnectClaim, disconnectLeave, disconnectTell, handleIncomingClient, PeerLeaves,
         exchangeVersions, readAuthenticate, readyClosed, afterReady, readFails,
         sendUdprecv, udpLegacy, udpPing, udpEnds, authSucceeds, authFails,
         finishAuthenticate, finishEnter, finishList, finishSync, finishSignal,
         handleUserState, handleUserRemove, voicebroadcast, voicebroadcastDrop, readMessage,
         channelRemoveClient, clientVars, loopVars, serverVars, histVars
<1>. QED BY <1>1, <1>2, <1>3, <1>4, <1>5, <1>6, <1>7, <1>8, <1>9, <1>10

\* Whoever a call of disconnect, a map or the handler names has a session id.
LEMMA NamedNumbered ==
    ASSUME TypeOK, Numbered, Newcomers
    PROVE  /\ \A g \in Goroutines : dis[g].c \in Clients => session[dis[g].c] \in Sessions
           /\ h.c \in Clients => session[h.c] \in Sessions
           /\ \A c \in h.todo : session[c] \in Sessions
           /\ \A c \in Clients : inChannel[c] \/ auth[c] = "send" => session[c] \in Sessions
<1>1. \A c \in Clients : session[c] \in 0..MaxSession /\
      (session[c] # 0 => session[c] \in Sessions)
  BY SMT DEF TypeOK, Sessions
<1>2. \A c \in Clients : ~Early(c) => session[c] \in Sessions
  BY <1>1 DEF Numbered, Early
<1>3. h.todo \subseteq Clients
  BY DEF TypeOK, HandlerStates
<1>. QED BY <1>2, <1>3 DEF Newcomers, Unknown, Early, Authing

\* A goroutine starts a call for a client that is finished with authentication
\* and whose flag is not set.
LEMMA CallsMade ==
    ASSUME TypeOK, HandlerSound, Wanted, Newcomers, Next
    PROVE  \/ \E g \in Goroutines : DisconnectStep(g)
           \/ dis' = dis
           \/ \E g \in Goroutines, c \in Clients, kicked \in BOOLEAN : Begins(g, c, kicked)
<1>. DEFINE Made == dis' = dis \/
            \E g \in Goroutines, c \in Clients, kicked \in BOOLEAN : Begins(g, c, kicked)
<1>1. ASSUME NEW c \in Clients, readFails(c) PROVE Made
  <2>1. dis' = dis \/ Begins(Reader(c), c, FALSE)
    BY <1>1, GoroutineFacts, SMT
       DEF TypeOK, HandlerSound, Newcomers, Unknown, Early, Authing, Begins, HandlerStates,
           readFails, Disconnects, Free, clientVars, serverVars, histVars
  <2>. QED BY <2>1, GoroutineFacts
<1>2. ASSUME NEW c \in Clients, udpPing(c) PROVE Made
  <2>1. dis' = dis \/ Begins(Udp(c), c, FALSE)
    BY <1>2, GoroutineFacts
       DEF TypeOK, HandlerSound, Newcomers, Unknown, Early, Authing, Begins, HandlerStates,
           udpPing, Disconnects, Free, clientVars, serverVars
  <2>. QED BY <2>1, GoroutineFacts
<1>3. ASSUME NEW c \in Clients, NEW kicked \in BOOLEAN, authFails(c, kicked) PROVE Made
  <2>1. dis' = dis \/ Begins(Auth(c), c, kicked)
    BY <1>3, GoroutineFacts, SMT
       DEF TypeOK, HandlerSound, Newcomers, Unknown, Early, Authing, Begins, HandlerStates,
           authFails, Disconnects, Free, clientVars, serverVars, histVars
  <2>. QED BY <2>1, GoroutineFacts
<1>4. ASSUME NEW c \in Clients, finishAuthenticate(c) PROVE Made
  <2>1. dis' = dis \/ Begins(Handler, c, TRUE) \/ Begins(Handler, c, FALSE)
    BY <1>4, GoroutineFacts, SMT
       DEF TypeOK, HandlerSound, Newcomers, Unknown, Early, Authing, Begins, HandlerStates,
           finishAuthenticate, Disconnects, HandlerAt, Free, setClient, clientVars
  <2>. QED BY <2>1, GoroutineFacts
<1>5. ASSUME finishSync PROVE Made
  <2>1. PICK c \in Clients : c = h.c
    BY <1>5 DEF HandlerSound, finishSync, HandlerAt
  <2>2. ~Early(c) /\ ~Authing(c)
    BY <2>1 DEF Newcomers, Unknown
  <2>3. ~Early(c)' /\ ~Authing(c)'
    BY <1>5, <2>2 DEF finishSync, loopVars, Early, Authing
  <2>4. dis' = dis \/ Begins(Handler, c, FALSE)
    BY <1>5, <2>1, <2>3 DEF Begins, finishSync, HandlerAt, Free, Disconnects
  <2>. QED BY <2>4, GoroutineFacts
<1>6. ASSUME NEW c \in Clients, NEW ok \in BOOLEAN, NEW to \in SUBSET Clients,
             handleUserRemove(c, ok, to) PROVE Made
  <2>1. PICK t : t = clients[msg[c].of]
    OBVIOUS
  <2>2. t \in Clients \cup {NoClient}
    BY <1>6, <2>1 DEF TypeOK, Wanted, handleUserRemove, Takes
  <2>3. ~Early(c)' /\ ~Authing(c)'
    BY <1>6, ZenonT(40), ZenonT(30)
       DEF TypeOK, Newcomers, Early, Authing, handleUserRemove, Takes
  <2>4. t \in Clients => ~Early(t)' /\ ~Authing(t)'
    <3>1. t \in Clients => ~Early(t) /\ ~Authing(t)
      BY <1>6, <2>1, ZenonT(40), ZenonT(30)
         DEF Wanted, Newcomers, Unknown, handleUserRemove, Takes
    <3>. QED BY <1>6, <3>1, ZenonT(40), SMT DEF TypeOK, Early, Authing, handleUserRemove, Takes
  <2>5. dis' = dis \/ Begins(Handler, c, FALSE) \/ (t \in Clients /\ Begins(Handler, t, TRUE))
    <3>1. Kicks
      BY <1>6 DEF Kicks
    <3>. QED BY <1>6, <2>1, <2>2, <2>3, <2>4, <3>1
                DEF Begins, handleUserRemove, Takes, HandlerAt, Free, Disconnects
  <2>. QED BY <2>5, GoroutineFacts
<1>7. ASSUME NEW d \in Clients, voicebroadcastDrop(d) PROVE Made
  <2>1. dis' = dis \/ Begins(Handler, d, FALSE)
    BY <1>7, GoroutineFacts
       DEF TypeOK, HandlerSound, Newcomers, Unknown, Early, Authing, Begins, HandlerStates,
           voicebroadcastDrop, HandlerAt, Free, Disconnects, clientVars, loopVars,
           serverVars, histVars
  <2>. QED BY <2>1, GoroutineFacts
<1>8. ASSUME (\E g \in Goroutines : disconnectClaim(g)) \/
             (\E g \in Goroutines : disconnectLeave(g)) \/
             (\E g \in Goroutines, ok \in BOOLEAN, to \in SUBSET Clients :
                  disconnectTell(g, ok, to)) \/
             (\E g \in Goroutines : disconnectClose(g))
      PROVE  \E g \in Goroutines : DisconnectStep(g)
  BY <1>8 DEF DisconnectStep
<1>. QED BY <1>1, <1>2, <1>3, <1>4, <1>5, <1>6, <1>7, <1>8, StepCases
            DEF handleIncomingClient, PeerLeaves, exchangeVersions, readAuthenticate,
                readyClosed, afterReady, sendUdprecv, udpLegacy, udpEnds, authSucceeds,
                finishEnter, finishList, finishSignal, handleUserState, voicebroadcast,
                readMessage, clientVars

\* Every step is one of a teardown, a new connection, or leaves the session ids and
\* the flags alone and at most begins a call.
LEMMA StepKinds ==
    ASSUME TypeOK, HandlerSound, Wanted, Newcomers, Next
    PROVE  \/ \E g \in Goroutines : disconnectClaim(g)
           \/ \E g \in Goroutines : disconnectLeave(g)
           \/ \E g \in Goroutines, ok \in BOOLEAN, to \in SUBSET Clients : disconnectTell(g, ok, to)
           \/ \E g \in Goroutines : disconnectClose(g)
           \/ \E c \in Clients : handleIncomingClient(c)
           \/ Settled
BY CallsMade, ChangedBy DEF Settled, DisconnectStep

-----------------------------------------------------------------------------
\* Get hands out a session id and takes it off the stack.
LEMMA IdTaken ==
    ASSUME TypeOK, ~Pool!Depleted, Pool!TakeNext
    PROVE  /\ Pool!NextId \in Sessions /\ cur' \in 0..MaxSession /\ unused' \in Seq(Sessions)
           /\ cur <= cur'
           /\ \A i \in DOMAIN unused' : i \in DOMAIN unused /\ i # Len(unused) /\
              unused'[i] = unused[i]
           /\ \/ Len(unused) \in DOMAIN unused /\ Pool!NextId = unused[Len(unused)]
              \/ unused = <<>> /\ Pool!NextId = cur + 1 /\ cur' = cur + 1
<1>. cur \in 0..MaxSession /\ unused \in Seq(Sessions) /\ MaxSession \in Nat
  BY DEF TypeOK
<1>1. CASE unused = <<>>
  BY <1>1, SMT DEF Pool!Depleted, Pool!TakeNext, Pool!NextId, Sessions
<1>2. CASE unused # <<>>
  <2>1. Len(unused) \in Nat /\ Len(unused) \in DOMAIN unused /\ DOMAIN unused = 1..Len(unused)
    BY <1>2, EmptySeq, SMT
  <2>2. unused' = SubSeq(unused, 1, Len(unused) - 1) /\ cur' = cur /\
        Pool!NextId = unused[Len(unused)]
    BY <1>2 DEF Pool!TakeNext, Pool!NextId
  <2>. QED BY <1>2, <2>1, <2>2, SMT
<1>. QED BY <1>1, <1>2

\* Reclaim puts the id on top of the stack.
LEMMA IdGivenBack ==
    ASSUME TypeOK, NEW id \in Sessions, Pool!GiveBack(id)
    PROVE  /\ unused' \in Seq(Sessions)
           /\ \A i \in DOMAIN unused' : \/ i \in DOMAIN unused /\ unused'[i] = unused[i]
                                        \/ i = Len(unused) + 1 /\ unused'[i] = id
<1>1. unused \in Seq(Sessions)
  BY DEF TypeOK
<1>2. unused' = Append(unused, id)
  BY DEF Pool!GiveBack
<1>3. /\ unused' \in Seq(Sessions) /\ Len(unused') = Len(unused) + 1
      /\ \A i \in 1..Len(unused) : unused'[i] = unused[i]
      /\ unused'[Len(unused) + 1] = id
  BY <1>1, <1>2, AppendProperties, SMT
<1>4. DOMAIN unused' = 1..(Len(unused) + 1) /\ DOMAIN unused = 1..Len(unused) /\
      Len(unused) \in Nat
  BY <1>1, <1>3, LenProperties
<1>5. ASSUME NEW i \in DOMAIN unused'
      PROVE  \/ i \in DOMAIN unused /\ unused'[i] = unused[i]
             \/ i = Len(unused) + 1 /\ unused'[i] = id
  <2>1. i \in 1..Len(unused) \/ i = Len(unused) + 1
    BY <1>4, <1>5, SMT
  <2>. QED BY <1>3, <1>4, <2>1
<1>. QED BY <1>3, <1>5

\* disconnect and broadcastProtoMessage keep the types.
LEMMA CallType ==
    ASSUME TypeOK, NEW g \in Goroutines, NEW c \in Clients, NEW kicked \in BOOLEAN,
           Disconnects(g, c, kicked)
    PROVE  dis' \in [Goroutines -> Calls]
BY DEF TypeOK, Disconnects, Calls

\* A call of disconnect that moves on keeps its type.
LEMMA CallMoves ==
    ASSUME TypeOK, NEW g \in Goroutines, NEW pc \in {"claim", "leave", "tell", "close"},
           dis' = [dis EXCEPT ![g].pc = pc]
    PROVE  dis' \in [Goroutines -> Calls]
<1>1. dis \in [Goroutines -> Calls]
  BY DEF TypeOK
<1>2. [dis[g] EXCEPT !.pc = pc] \in Calls
  BY <1>1 DEF Calls
<1>. QED BY <1>1, <1>2

\* A broadcast of broadcastProtoMessage puts session ids into the rosters.
LEMMA ViewType ==
    ASSUME TypeOK, NEW add \in SUBSET Sessions, NEW remove, NEW ok \in BOOLEAN, NEW to,
           Broadcast(ok, to, add, remove)
    PROVE  view' \in [Clients -> SUBSET Sessions] /\ sendFailed' \in BOOLEAN
<1>1. \A c \in Clients : view[c] \in SUBSET Sessions
  BY DEF TypeOK
<1>2. sendFailed' \in BOOLEAN
  BY DEF TypeOK, Broadcast
<1>. QED BY <1>1, <1>2 DEF Broadcast

\* So does one that only takes ids out, or that is not sent at all.
LEMMA ViewTypeRemoval ==
    ASSUME TypeOK, NEW remove, NEW ok \in BOOLEAN, NEW to,
           Broadcast(ok, to, {}, remove) \/ UNCHANGED <<view, sendFailed>>
    PROVE  view' \in [Clients -> SUBSET Sessions] /\ sendFailed' \in BOOLEAN
<1>1. CASE Broadcast(ok, to, {}, remove)
  <2>1. {} \in SUBSET Sessions
    OBVIOUS
  <2>. QED BY <1>1, <2>1, ViewType
<1>. QED BY <1>1 DEF TypeOK

-----------------------------------------------------------------------------
\* Every step keeps the types.
LEMMA TypeStep ==
    ASSUME TypeOK, Numbered, Wanted, TornDown, HandlerSound, Newcomers, Next
    PROVE  TypeOK'
<1>1. ASSUME NEW g \in Goroutines, disconnectClaim(g) PROVE TypeOK'
  <2>1. dis[g].c \in Clients /\ session[dis[g].c] \in Sessions
    BY <1>1, NamedNumbered DEF TornDown, disconnectClaim
  <2>2. unused' \in Seq(Sessions)
    BY <1>1, <2>1, IdGivenBack DEF disconnectClaim
  <2>3. disconnected' \in [Clients -> BOOLEAN]
    BY <1>1 DEF TypeOK, disconnectClaim
  <2>4. teardowns' \in [Clients -> Nat]
    BY <1>1, <2>1, SMT DEF TypeOK, disconnectClaim
  <2>5. clients' \in [Sessions -> Clients \cup {NoClient}]
    BY <1>1 DEF TypeOK, disconnectClaim
  <2>6. dis' \in [Goroutines -> Calls]
    BY <1>1, CallMoves DEF disconnectClaim
  <2>7. UNCHANGED <<cstate, conn, session, ready, udpClosed, inChannel, reader, msg, auth,
                    udp, members, cur, view, h, sendFailed, reusedEarly>>
    BY <1>1 DEF disconnectClaim, Pool!GiveBack, loopVars
  <2>. QED BY <2>1, <2>2, <2>3, <2>4, <2>5, <2>6, <2>7 DEF TypeOK
<1>2. ASSUME NEW g \in Goroutines, disconnectLeave(g) PROVE TypeOK'
  <2>1. inChannel' \in [Clients -> BOOLEAN]
    BY <1>2 DEF TypeOK, disconnectLeave, channelRemoveClient
  <2>2. members' \in [Sessions -> Clients \cup {NoClient}]
    BY <1>2 DEF TypeOK, disconnectLeave, channelRemoveClient
  <2>3. dis' \in [Goroutines -> Calls]
    BY <1>2, CallMoves DEF disconnectLeave
  <2>4. UNCHANGED <<cstate, conn, session, disconnected, ready, udpClosed, reader, msg,
                    auth, udp, clients, cur, unused, view, h, teardowns, sendFailed,
                    reusedEarly>>
    BY <1>2 DEF disconnectLeave, channelRemoveClient, loopVars, histVars
  <2>. QED BY <2>1, <2>2, <2>3, <2>4 DEF TypeOK
<1>3. ASSUME NEW g \in Goroutines, NEW ok \in BOOLEAN, NEW to \in SUBSET Clients,
             disconnectTell(g, ok, to) PROVE TypeOK'
  <2>1. view' \in [Clients -> SUBSET Sessions] /\ sendFailed' \in BOOLEAN
    BY <1>3, ViewTypeRemoval DEF disconnectTell
  <2>2. dis' \in [Goroutines -> Calls]
    BY <1>3, CallMoves DEF disconnectTell
  <2>3. UNCHANGED <<cstate, conn, session, disconnected, ready, udpClosed, inChannel,
                    reader, msg, auth, udp, clients, members, cur, unused, h, teardowns,
                    reusedEarly>>
    BY <1>3 DEF disconnectTell, Broadcast, clientVars, loopVars, serverVars
  <2>. QED BY <2>1, <2>2, <2>3 DEF TypeOK
<1>4. ASSUME NEW g \in Goroutines, disconnectClose(g) PROVE TypeOK'
  <2>1. udpClosed' \in [Clients -> BOOLEAN]
    BY <1>4 DEF TypeOK, disconnectClose
  <2>2. conn' \in [Clients -> {"none", "open", "gone", "closed"}]
    BY <1>4 DEF TypeOK, disconnectClose
  <2>3. ready' \in [Clients -> {"nil", "made", "closed"}]
    BY <1>4 DEF TypeOK, disconnectClose
  <2>4. dis' \in [Goroutines -> Calls]
    BY <1>4 DEF TypeOK, Calls, NoCall, disconnectClose
  <2>5. UNCHANGED <<cstate, session, disconnected, inChannel, reader, msg, auth, udp,
                    clients, members, cur, unused, view, h, teardowns, sendFailed,
                    reusedEarly>>
    BY <1>4 DEF disconnectClose, NoCall, loopVars, serverVars, histVars
  <2>. QED BY <2>1, <2>2, <2>3, <2>4, <2>5 DEF TypeOK
<1>5. ASSUME NEW c \in Clients, handleIncomingClient(c) PROVE TypeOK'
  <2>1. Pool!NextId \in Sessions /\ cur' \in 0..MaxSession /\ unused' \in Seq(Sessions)
    BY <1>5, IdTaken DEF handleIncomingClient
  <2>2. session' \in [Clients -> 0..MaxSession]
    BY <1>5, <2>1, SMT DEF TypeOK, handleIncomingClient, AssignSession, Sessions
  <2>3. conn' \in [Clients -> {"none", "open", "gone", "closed"}]
    BY <1>5 DEF TypeOK, handleIncomingClient
  <2>4. reader' \in [Clients -> {"off", "connected", "version", "authenticate", "wait", "woken",
                              "read", "incoming", "udprecv", "exit"}]
    BY <1>5 DEF TypeOK, handleIncomingClient
  <2>5. udp' \in [Clients -> {"off", "receive", "opus", "celt", "ping", "exit"}]
    BY <1>5 DEF TypeOK, handleIncomingClient
  <2>6. reusedEarly' \in BOOLEAN
    BY <1>5 DEF TypeOK, handleIncomingClient
  <2>7. UNCHANGED <<cstate, disconnected, ready, udpClosed, inChannel, msg, auth, dis,
                    clients, members, view, h, teardowns, sendFailed>>
    BY <1>5 DEF handleIncomingClient, AssignSession
  <2>. QED BY <2>1, <2>2, <2>3, <2>4, <2>5, <2>6, <2>7 DEF TypeOK
<1>6. ASSUME NEW c \in Clients, PeerLeaves(c) PROVE TypeOK'
  BY <1>6 DEF TypeOK, HandlerStates, PeerLeaves, loopVars, serverVars, histVars
<1>7. ASSUME NEW c \in Clients, exchangeVersions(c) PROVE TypeOK'
  <2>1. cstate \in [Clients -> {"Connected", "ServerSentVersion", "ClientSentVersion",
                              "Authenticated", "Ready"}]
    BY DEF TypeOK
  <2>2. cstate' \in [Clients -> {"Connected", "ServerSentVersion", "ClientSentVersion",
                              "Authenticated", "Ready"}]
    BY <1>7, <2>1 DEF exchangeVersions
  <2>3. reader \in [Clients -> {"off", "connected", "version", "authenticate", "wait", "woken",
                              "read", "incoming", "udprecv", "exit"}]
    BY DEF TypeOK
  <2>4. reader' \in [Clients -> {"off", "connected", "version", "authenticate", "wait", "woken",
                              "read", "incoming", "udprecv", "exit"}]
    BY <1>7, <2>3 DEF exchangeVersions
  <2>5. UNCHANGED <<conn, session, disconnected, ready, udpClosed, inChannel, msg, auth,
                    udp, dis, clients, members, cur, unused, view, h, teardowns,
                    sendFailed, reusedEarly>>
    BY <1>7 DEF exchangeVersions, serverVars, histVars
  <2>. QED BY <2>1, <2>2, <2>3, <2>4, <2>5 DEF TypeOK
<1>8. ASSUME NEW c \in Clients, readAuthenticate(c) PROVE TypeOK'
  BY <1>8 DEF TypeOK, HandlerStates, readAuthenticate, serverVars, histVars
<1>9. ASSUME NEW c \in Clients, readyClosed(c) PROVE TypeOK'
  BY <1>9 DEF TypeOK, HandlerStates, readyClosed, clientVars, serverVars, histVars
<1>10. ASSUME NEW c \in Clients, afterReady(c) PROVE TypeOK'
  BY <1>10 DEF TypeOK, HandlerStates, afterReady, serverVars, histVars
<1>11. ASSUME NEW c \in Clients, readFails(c) PROVE TypeOK'
  <2>1. dis' \in [Goroutines -> Calls]
    BY <1>11, GoroutineFacts, CallType DEF readFails
  <2>2. reader' \in [Clients -> {"off", "connected", "version", "authenticate", "wait", "woken",
                              "read", "incoming", "udprecv", "exit"}]
    BY <1>11 DEF TypeOK, readFails
  <2>3. UNCHANGED <<cstate, conn, session, disconnected, ready, udpClosed, inChannel, msg,
                    auth, udp, clients, members, cur, unused, view, h, teardowns,
                    sendFailed, reusedEarly>>
    BY <1>11 DEF readFails, Disconnects, Free, clientVars, serverVars, histVars
  <2>. QED BY <2>1, <2>2, <2>3 DEF TypeOK
<1>12. ASSUME NEW c \in Clients, sendUdprecv(c) PROVE TypeOK'
  <2>1. reader' \in [Clients -> {"off", "connected", "version", "authenticate", "wait", "woken",
                              "read", "incoming", "udprecv", "exit"}]
    BY <1>12, ZenonT(40), ZenonT(30) DEF TypeOK, sendUdprecv
  <2>2. udp \in [Clients -> {"off", "receive", "opus", "celt", "ping", "exit"}]
    BY DEF TypeOK
  <2>3. udp' \in [Clients -> {"off", "receive", "opus", "celt", "ping", "exit"}]
    BY <1>12, <2>2 DEF Wanted, sendUdprecv
  <2>4. UNCHANGED <<cstate, conn, session, disconnected, ready, udpClosed, inChannel, msg,
                    auth, dis, clients, members, cur, unused, view, h, teardowns,
                    sendFailed, reusedEarly>>
    BY <1>12 DEF sendUdprecv, clientVars, serverVars, histVars
  <2>. QED BY <2>1, <2>2, <2>3, <2>4 DEF TypeOK
<1>13. ASSUME NEW c \in Clients, udpLegacy(c) PROVE TypeOK'
  BY <1>13 DEF TypeOK, HandlerStates, udpLegacy, clientVars, serverVars, histVars
<1>14. ASSUME NEW c \in Clients, udpPing(c) PROVE TypeOK'
  <2>1. dis' \in [Goroutines -> Calls]
    BY <1>14, GoroutineFacts, CallType DEF udpPing, TypeOK
  <2>2. udp' \in [Clients -> {"off", "receive", "opus", "celt", "ping", "exit"}]
    BY <1>14 DEF TypeOK, udpPing
  <2>3. sendFailed' \in BOOLEAN
    BY <1>14 DEF TypeOK, udpPing
  <2>4. UNCHANGED <<cstate, conn, session, disconnected, ready, udpClosed, inChannel,
                    reader, msg, auth, clients, members, cur, unused, view, h, teardowns,
                    reusedEarly>>
    BY <1>14 DEF udpPing, Disconnects, Free, clientVars, serverVars
  <2>. QED BY <2>1, <2>2, <2>3, <2>4 DEF TypeOK
<1>15. ASSUME NEW c \in Clients, udpEnds(c) PROVE TypeOK'
  BY <1>15 DEF TypeOK, HandlerStates, udpEnds, clientVars, serverVars, histVars
<1>16. ASSUME NEW c \in Clients, authSucceeds(c) PROVE TypeOK'
  BY <1>16 DEF TypeOK, HandlerStates, authSucceeds, serverVars, histVars
<1>17. ASSUME NEW c \in Clients, NEW kicked \in BOOLEAN, authFails(c, kicked) PROVE TypeOK'
  <2>1. dis' \in [Goroutines -> Calls]
    BY <1>17, GoroutineFacts, CallType DEF authFails
  <2>2. auth' \in [Clients -> {"off", "check", "send", "exit"}]
    BY <1>17 DEF TypeOK, authFails
  <2>3. UNCHANGED <<cstate, conn, session, disconnected, ready, udpClosed, inChannel,
                    reader, msg, udp, clients, members, cur, unused, view, h, teardowns,
                    sendFailed, reusedEarly>>
    BY <1>17 DEF authFails, Disconnects, Free, clientVars, serverVars, histVars
  <2>. QED BY <2>1, <2>2, <2>3 DEF TypeOK
<1>18. ASSUME NEW c \in Clients, finishAuthenticate(c) PROVE TypeOK'
  <2>1. auth' \in [Clients -> {"off", "check", "send", "exit"}]
    BY <1>18 DEF TypeOK, finishAuthenticate
  <2>2. dis' \in [Goroutines -> Calls]
    BY <1>18, GoroutineFacts, CallType DEF finishAuthenticate, TypeOK
  <2>3. clients' \in [Sessions -> Clients \cup {NoClient}]
    BY <1>18, ZenonT(30) DEF TypeOK, finishAuthenticate, setClient
  <2>4. h \in HandlerStates
    BY DEF TypeOK
  <2>5. h' \in HandlerStates
    BY <1>18, <2>4 DEF HandlerStates, finishAuthenticate
  <2>6. sendFailed' \in BOOLEAN
    BY <1>18 DEF TypeOK, finishAuthenticate
  <2>7. UNCHANGED <<cstate, conn, session, disconnected, ready, udpClosed, inChannel,
                    reader, msg, udp, members, cur, unused, view, teardowns, reusedEarly>>
    BY <1>18 DEF finishAuthenticate, Disconnects, HandlerAt, Free, setClient, clientVars
  <2>. QED BY <2>1, <2>2, <2>3, <2>4, <2>5, <2>6, <2>7 DEF TypeOK
<1>19. ASSUME NEW ok \in BOOLEAN, NEW to \in SUBSET Clients, finishEnter(ok, to) PROVE TypeOK'
  <2>1. h.c \in Clients /\ session[h.c] \in Sessions
    BY <1>19, NamedNumbered DEF HandlerSound, finishEnter, HandlerAt
  <2>2. inChannel' \in [Clients -> BOOLEAN]
    BY <1>19 DEF TypeOK, finishEnter
  <2>3. members' \in [Sessions -> Clients \cup {NoClient}]
    BY <1>19, <2>1 DEF TypeOK, finishEnter
  <2>4. view' \in [Clients -> SUBSET Sessions] /\ sendFailed' \in BOOLEAN
    BY <1>19, <2>1, ViewType, SMT DEF finishEnter
  <2>5. Registered \subseteq Clients
    BY SMT DEF TypeOK, Registered
  <2>6. h' \in HandlerStates
    BY <1>19, <2>5 DEF TypeOK, HandlerStates, finishEnter
  <2>7. UNCHANGED <<cstate, conn, session, disconnected, ready, udpClosed, reader, msg,
                    auth, udp, dis, clients, cur, unused, teardowns, reusedEarly>>
    BY <1>19 DEF finishEnter, HandlerAt, Broadcast, loopVars
  <2>. QED BY <2>1, <2>2, <2>3, <2>4, <2>5, <2>6, <2>7 DEF TypeOK
<1>20. ASSUME NEW d \in Clients, finishList(d) PROVE TypeOK'
  <2>1. session[d] \in Sessions /\ h.c \in Clients
    BY <1>20, NamedNumbered DEF HandlerSound, finishList, HandlerAt
  <2>2. view \in [Clients -> SUBSET Sessions]
    BY DEF TypeOK
  <2>3. view' = view \/ view' = [view EXCEPT ![h.c] = @ \cup {session[d]}]
    BY <1>20 DEF finishList
  <2>4. view' \in [Clients -> SUBSET Sessions]
    BY <2>1, <2>2, <2>3, SMT
  <2>5. sendFailed' \in BOOLEAN
    BY <1>20 DEF TypeOK, finishList
  <2>6. h' \in HandlerStates
    BY <1>20 DEF TypeOK, HandlerStates, finishList
  <2>7. UNCHANGED <<cstate, conn, session, disconnected, ready, udpClosed, inChannel,
                    reader, msg, auth, udp, dis, clients, members, cur, unused, teardowns,
                    reusedEarly>>
    BY <1>20 DEF finishList, HandlerAt, clientVars, loopVars, serverVars
  <2>. QED BY <2>1, <2>2, <2>3, <2>4, <2>5, <2>6, <2>7 DEF TypeOK
<1>21. ASSUME finishSync PROVE TypeOK'
  <2>1. cstate' \in [Clients -> {"Connected", "ServerSentVersion", "ClientSentVersion",
                              "Authenticated", "Ready"}]
    BY <1>21, ZenonT(30) DEF TypeOK, finishSync
  <2>2. dis' \in [Goroutines -> Calls]
    BY <1>21, GoroutineFacts, CallType DEF HandlerSound, finishSync, HandlerAt, TypeOK
  <2>3. h \in HandlerStates
    BY DEF TypeOK
  <2>4. [h EXCEPT !.pc = "signal"] \in HandlerStates /\ Idle \in HandlerStates
    BY <2>3 DEF HandlerStates, Idle
  <2>5. h' \in HandlerStates
    BY <1>21, <2>4 DEF finishSync, Goes, Returns
  <2>6. sendFailed' \in BOOLEAN
    BY <1>21 DEF TypeOK, finishSync
  <2>7. UNCHANGED <<conn, session, disconnected, ready, udpClosed, inChannel, reader, msg,
                    auth, udp, clients, members, cur, unused, view, teardowns, reusedEarly>>
    BY <1>21 DEF finishSync, HandlerAt, Free, Disconnects, Goes, Returns, loopVars, serverVars
  <2>. QED BY <2>1, <2>2, <2>3, <2>4, <2>5, <2>6, <2>7 DEF TypeOK
<1>22. ASSUME finishSignal PROVE TypeOK'
  <2>1. reader' \in [Clients -> {"off", "connected", "version", "authenticate", "wait", "woken",
                              "read", "incoming", "udprecv", "exit"}]
    BY <1>22 DEF TypeOK, finishSignal
  <2>2. h' \in HandlerStates
    BY <1>22 DEF HandlerStates, finishSignal, Returns, Idle
  <2>3. UNCHANGED <<cstate, conn, session, disconnected, ready, udpClosed, inChannel, msg,
                    auth, udp, dis, clients, members, cur, unused, view, teardowns,
                    sendFailed, reusedEarly>>
    BY <1>22 DEF finishSignal, HandlerAt, Returns, clientVars, serverVars, histVars
  <2>. QED BY <2>1, <2>2, <2>3 DEF TypeOK
<1>23. ASSUME NEW c \in Clients, NEW ok \in BOOLEAN, NEW to \in SUBSET Clients,
              handleUserState(c, ok, to) PROVE TypeOK'
  <2>1. reader' \in [Clients -> {"off", "connected", "version", "authenticate", "wait", "woken",
                              "read", "incoming", "udprecv", "exit"}]
    BY <1>23 DEF TypeOK, handleUserState, Takes
  <2>2. view' \in [Clients -> SUBSET Sessions] /\ sendFailed' \in BOOLEAN
    BY <1>23, ViewTypeRemoval DEF handleUserState, UserStateBroadcast
  <2>3. UNCHANGED <<cstate, conn, session, disconnected, ready, udpClosed, inChannel, msg,
                    auth, udp, dis, clients, members, cur, unused, h, teardowns,
                    reusedEarly>>
    BY <1>23
       DEF handleUserState, Takes, Broadcast, UserStateBroadcast, HandlerAt, clientVars,
           serverVars
  <2>. QED BY <2>1, <2>2, <2>3 DEF TypeOK
<1>24. ASSUME NEW c \in Clients, NEW ok \in BOOLEAN, NEW to \in SUBSET Clients,
              handleUserRemove(c, ok, to) PROVE TypeOK'
  <2>1. reader' \in [Clients -> {"off", "connected", "version", "authenticate", "wait", "woken",
                              "read", "incoming", "udprecv", "exit"}]
    BY <1>24 DEF TypeOK, handleUserRemove, Takes
  <2>2. clients[msg[c].of] \in Clients \cup {NoClient}
    BY <1>24 DEF TypeOK, Wanted, handleUserRemove, Takes
  <2>3. dis \in [Goroutines -> Calls]
    BY DEF TypeOK
  <2>4. view' \in [Clients -> SUBSET Sessions] /\ sendFailed' \in BOOLEAN
    BY <1>24, ViewTypeRemoval DEF handleUserRemove
  <2>5. dis' \in [Goroutines -> Calls]
    BY <1>24, <2>2, <2>3, GoroutineFacts, CallType DEF handleUserRemove
  <2>6. UNCHANGED <<cstate, conn, session, disconnected, ready, udpClosed, inChannel, msg,
                    auth, udp, clients, members, cur, unused, h, teardowns, reusedEarly>>
    BY <1>24
       DEF handleUserRemove, Takes, HandlerAt, Free, Broadcast, Disconnects, clientVars,
           serverVars
  <2>. QED BY <2>1, <2>2, <2>3, <2>4, <2>5, <2>6 DEF TypeOK
<1>25. ASSUME NEW c \in Clients, NEW failed \in SUBSET Clients, voicebroadcast(c, failed)
       PROVE  TypeOK'
  <2>1. udp' \in [Clients -> {"off", "receive", "opus", "celt", "ping", "exit"}]
    BY <1>25 DEF TypeOK, voicebroadcast
  <2>2. h \in HandlerStates
    BY DEF TypeOK
  <2>3. h' \in HandlerStates
    BY <1>25, <2>2 DEF HandlerStates, voicebroadcast
  <2>4. sendFailed' \in BOOLEAN
    BY <1>25 DEF TypeOK, voicebroadcast
  <2>5. UNCHANGED <<cstate, conn, session, disconnected, ready, udpClosed, inChannel,
                    reader, msg, auth, dis, clients, members, cur, unused, view, teardowns,
                    reusedEarly>>
    BY <1>25 DEF voicebroadcast, HandlerAt, clientVars, serverVars
  <2>. QED BY <2>1, <2>2, <2>3, <2>4, <2>5 DEF TypeOK
<1>26. ASSUME NEW d \in Clients, voicebroadcastDrop(d) PROVE TypeOK'
  <2>1. dis' \in [Goroutines -> Calls]
    BY <1>26, GoroutineFacts, CallType DEF voicebroadcastDrop
  <2>2. h' \in HandlerStates
    BY <1>26 DEF TypeOK, HandlerStates, Idle, voicebroadcastDrop
  <2>3. UNCHANGED <<cstate, conn, session, disconnected, ready, udpClosed, inChannel,
                    reader, msg, auth, udp, clients, members, cur, unused, view, teardowns,
                    sendFailed, reusedEarly>>
    BY <1>26
       DEF voicebroadcastDrop, HandlerAt, Free, Disconnects, clientVars, loopVars,
           serverVars, histVars
  <2>. QED BY <2>1, <2>2, <2>3 DEF TypeOK
<1>27. ASSUME NEW c \in Clients, NEW kind \in Kinds, NEW of \in 0..MaxSession,
              readMessage(c, kind, of) PROVE TypeOK'
  BY <1>27, ZenonT(30) DEF TypeOK, HandlerStates, readMessage, clientVars, serverVars, histVars
<1>. QED BY <1>1, <1>2, <1>3, <1>4, <1>5, <1>6, <1>7, <1>8, <1>9, <1>10, <1>11, <1>12,
            <1>13, <1>14, <1>15,
   <1>16, <1>17, <1>18, <1>19, <1>20, <1>21, <1>22, <1>23, <1>24, <1>25, <1>26, <1>27,
     StepCases, SMT

\* A reader is started by handleIncomingClient only; it is handed a message to pass on
\* by readMessage only.
LEMMA ReaderMoves ==
    ASSUME TypeOK, Next, NEW e \in Clients, reader'[e] # reader[e]
    PROVE  /\ reader'[e] # "off"
           /\ reader[e] = "off" => handleIncomingClient(e)
           /\ reader'[e] \in {"incoming", "udprecv"} =>
                 \E kind \in Kinds, of \in 0..MaxSession : readMessage(e, kind, of)
<1>. reader = [c \in Clients |-> reader[c]]
  BY DEF TypeOK
<1>. DEFINE Goal == /\ reader'[e] # "off"
                    /\ reader[e] = "off" => handleIncomingClient(e)
                    /\ reader'[e] \in {"incoming", "udprecv"} =>
                          \E kind \in Kinds, of \in 0..MaxSession : readMessage(e, kind, of)
<1>1. ASSUME NEW c \in Clients, handleIncomingClient(c) PROVE Goal
  BY <1>1 DEF handleIncomingClient, Takes
<1>2. ASSUME NEW c \in Clients, exchangeVersions(c) PROVE Goal
  BY <1>2 DEF exchangeVersions
<1>3. ASSUME NEW c \in Clients, readAuthenticate(c) PROVE Goal
  BY <1>3 DEF readAuthenticate
<1>4. ASSUME NEW c \in Clients, readyClosed(c) PROVE Goal
  BY <1>4 DEF readyClosed
<1>5. ASSUME NEW c \in Clients, afterReady(c) PROVE Goal
  BY <1>5 DEF afterReady
<1>6. ASSUME NEW c \in Clients, readFails(c) PROVE Goal
  BY <1>6 DEF readFails
<1>7. ASSUME NEW c \in Clients, sendUdprecv(c) PROVE Goal
  BY <1>7 DEF sendUdprecv
<1>8. ASSUME finishSignal PROVE Goal
  BY <1>8 DEF finishSignal
<1>9. ASSUME NEW c \in Clients, NEW ok \in BOOLEAN, NEW to \in SUBSET Clients,
             handleUserState(c, ok, to) PROVE Goal
  BY <1>9 DEF handleUserState, Takes
<1>10. ASSUME NEW c \in Clients, NEW ok \in BOOLEAN, NEW to \in SUBSET Clients,
              handleUserRemove(c, ok, to) PROVE Goal
  BY <1>10 DEF handleUserRemove, Takes
<1>11. ASSUME NEW c \in Clients, NEW kind \in Kinds, NEW of \in 0..MaxSession,
              readMessage(c, kind, of) PROVE Goal
  BY <1>11 DEF readMessage
<1>12. CASE reader' = reader
  BY <1>12
<1>. QED BY <1>1, <1>2, <1>3, <1>4, <1>5, <1>6, <1>7, <1>8, <1>9, <1>10, <1>11, <1>12,
            StepCases, ZenonT(30)
            DEF disconnectClaim, disconnectLeave, disconnectTell, disconnectClose,
                PeerLeaves, udpLegacy, udpPing, udpEnds, authSucceeds, authFails,
                finishAuthenticate, finishEnter, finishList, finishSync, voicebroadcast,
                voicebroadcastDrop, clientVars, loopVars, serverVars, histVars

\* A session id goes with a reader that runs (handleIncomingClient).
LEMMA NumberedStep ==
    ASSUME TypeOK, Numbered, Newcomers, TornDown, HandlerSound, Next
    PROVE  Numbered'
<1>1. ASSUME NEW c \in Clients, handleIncomingClient(c) PROVE Numbered'
  <2>1. Pool!NextId \in Sessions
    BY <1>1, IdTaken DEF handleIncomingClient
  <2>2. Pool!NextId \in Nat \ {0}
    BY <2>1, SMT DEF Sessions
  <2>. QED BY <1>1, <2>2, SMT DEF TypeOK, Numbered, handleIncomingClient, AssignSession
<1>2. ASSUME ~(\E c \in Clients : handleIncomingClient(c))
      PROVE  /\ session' = session
             /\ \A c \in Clients : reader'[c] = "off" <=> reader[c] = "off"
             /\ \A c \in Clients : conn'[c] = "none" => conn[c] = "none"
  <2>1. session' = session
    BY <1>2, ChangedBy
  <2>2. ASSUME NEW e \in Clients PROVE reader'[e] = "off" <=> reader[e] = "off"
    BY <1>2, ReaderMoves
  <2>3. ASSUME NEW e \in Clients PROVE conn'[e] = "none" => conn[e] = "none"
    <3>1. conn = [c \in Clients |-> conn[c]]
      BY DEF TypeOK
    <3>. QED BY <1>2, <3>1, StepCases
                DEF disconnectClaim, disconnectLeave, disconnectTell, disconnectClose,
                    PeerLeaves, exchangeVersions, readAuthenticate, readyClosed, afterReady,
                    readFails, sendUdprecv, udpLegacy, udpPing, udpEnds, authSucceeds,
                    authFails, finishAuthenticate, finishEnter, finishList, finishSync,
                    finishSignal, handleUserState, handleUserRemove, voicebroadcast,
                    voicebroadcastDrop, readMessage, clientVars
  <2>. QED BY <2>1, <2>2, <2>3
<1>. QED BY <1>1, <1>2 DEF Numbered

\* What the reader passes on was read by readMessage.
LEMMA WantedStep == ASSUME TypeOK, Wanted, Next PROVE Wanted'
<1>1. ASSUME NEW c \in Clients, NEW kind \in Kinds, NEW of \in 0..MaxSession,
             readMessage(c, kind, of)
      PROVE  Wanted'
  BY <1>1, SMT DEF TypeOK, Wanted, Sessions, readMessage
<1>2. ASSUME ~(\E c \in Clients, kind \in Kinds, of \in 0..MaxSession : readMessage(c, kind, of))
      PROVE  /\ msg' = msg
             /\ \A c \in Clients : reader'[c] \in {"incoming", "udprecv"} =>
                reader'[c] = reader[c]
  <2>1. msg' = msg
    BY <1>2, StepCases
       DEF disconnectClaim, disconnectLeave, disconnectTell, disconnectClose,
           handleIncomingClient, PeerLeaves, exchangeVersions, readAuthenticate,
           readyClosed, afterReady, readFails, sendUdprecv, udpLegacy, udpPing, udpEnds,
           authSucceeds, authFails, finishAuthenticate, finishEnter, finishList, finishSync,
           finishSignal, handleUserState, handleUserRemove, voicebroadcast,
           voicebroadcastDrop, loopVars
  <2>2. ASSUME NEW e \in Clients
        PROVE  reader'[e] \in {"incoming", "udprecv"} => reader'[e] = reader[e]
    BY <1>2, ReaderMoves
  <2>. QED BY <2>1, <2>2
<1>. QED BY <1>1, <1>2 DEF Wanted

-----------------------------------------------------------------------------
\* What a call of disconnect looks like after its next step.
LEMMA CallAfter ==
    ASSUME TypeOK, NEW g \in Goroutines, NEW pc, dis' = [dis EXCEPT ![g].pc = pc]
    PROVE  /\ dis'[g].pc = pc /\ dis'[g].c = dis[g].c /\ dis'[g].kicked = dis[g].kicked
           /\ \A f \in Goroutines : f # g => dis'[f] = dis[f]
<1>1. dis \in [Goroutines -> Calls]
  BY DEF TypeOK
<1>. QED BY <1>1 DEF Calls

\* A call that begins is the caller's, and the other goroutines' calls stay.
LEMMA CallBegun ==
    ASSUME TypeOK, NEW g \in Goroutines, NEW c, NEW kicked, Begins(g, c, kicked)
    PROVE  /\ dis'[g].pc = "claim" /\ dis'[g].c = c /\ dis'[g].kicked = kicked
           /\ \A f \in Goroutines : f # g => dis'[f] = dis[f]
<1>1. dis \in [Goroutines -> Calls]
  BY DEF TypeOK
<1>. QED BY <1>1 DEF Begins

\* disconnect returns to its caller, and the other goroutines' calls stay.
LEMMA CallOver ==
    ASSUME TypeOK, NEW g \in Goroutines, disconnectClose(g)
    PROVE  dis'[g] = NoCall /\ \A f \in Goroutines : f # g => dis'[f] = dis[f]
<1>1. dis \in [Goroutines -> Calls]
  BY DEF TypeOK
<1>. QED BY <1>1 DEF disconnectClose

\* RemoveClient is called for a client whose flag disconnect has just set.
LEMMA TornDownStep ==
    ASSUME TypeOK, TornDown, HandlerSound, Wanted, Newcomers, Next
    PROVE  TornDown'
<1>1. ASSUME NEW g \in Goroutines, disconnectClaim(g) PROVE TornDown'
  <2>1. dis[g].c \in Clients
    BY <1>1 DEF TornDown, disconnectClaim
  <2>2. /\ disconnected' = [disconnected EXCEPT ![dis[g].c] = TRUE]
        /\ teardowns' = [teardowns EXCEPT ![dis[g].c] = @ + 1]
        /\ udpClosed' = udpClosed
    BY <1>1 DEF disconnectClaim
  <2>3. \A c \in Clients : /\ teardowns'[c] = 0 <=> ~disconnected'[c]
                           /\ udpClosed'[c] => disconnected'[c]
    BY <2>1, <2>2, SMT DEF TypeOK, TornDown
  <2>4. \A c \in Clients : disconnected[c] => disconnected'[c]
    BY <2>1, <2>2, SMT DEF TypeOK
  <2>5. disconnected'[dis[g].c]
    BY <2>1, <2>2 DEF TypeOK
  <2>6. /\ dis'[g].pc = "leave" /\ dis'[g].c = dis[g].c
        /\ \A f \in Goroutines : f # g => dis'[f] = dis[f]
    BY <1>1, CallAfter DEF disconnectClaim
  <2>7. ASSUME NEW f \in Goroutines
        PROVE  /\ dis'[f].pc # "none" => dis'[f].c \in Clients
               /\ dis'[f].pc \in {"leave", "tell", "close"} => disconnected'[dis'[f].c]
    <3>1. CASE f = g
      BY <2>1, <2>5, <2>6, <3>1
    <3>2. CASE f # g
      BY <2>4, <2>6, <3>2 DEF TornDown
    <3>. QED BY <3>1, <3>2
  <2>. QED BY <2>3, <2>7 DEF TornDown
<1>2. ASSUME NEW g \in Goroutines, disconnectLeave(g) PROVE TornDown'
  <2>1. /\ dis'[g].pc = "tell" /\ dis'[g].c = dis[g].c
        /\ \A f \in Goroutines : f # g => dis'[f] = dis[f]
    BY <1>2, CallAfter DEF disconnectLeave
  <2>. QED BY <1>2, <2>1 DEF TornDown, disconnectLeave, histVars
<1>3. ASSUME NEW g \in Goroutines, NEW ok \in BOOLEAN, NEW to \in SUBSET Clients,
             disconnectTell(g, ok, to)
      PROVE  TornDown'
  <2>1. /\ dis'[g].pc = "close" /\ dis'[g].c = dis[g].c
        /\ \A f \in Goroutines : f # g => dis'[f] = dis[f]
    BY <1>3, CallAfter DEF disconnectTell
  <2>. QED BY <1>3, <2>1 DEF TornDown, disconnectTell, clientVars
<1>4. ASSUME NEW g \in Goroutines, disconnectClose(g) PROVE TornDown'
  <2>1. disconnected' = disconnected /\ teardowns' = teardowns /\
        udpClosed' = [udpClosed EXCEPT ![dis[g].c] = TRUE]
    BY <1>4 DEF disconnectClose, histVars
  <2>2. ASSUME NEW c \in Clients, udpClosed'[c] PROVE disconnected'[c]
    <3>1. disconnected[dis[g].c]
      BY <1>4 DEF TornDown, disconnectClose
    <3>2. udpClosed[c] \/ c = dis[g].c
      BY <2>1, <2>2 DEF TypeOK
    <3>. QED BY <2>1, <3>1, <3>2 DEF TornDown
  <2>. QED BY <1>4, <2>1, <2>2, CallOver, SMT DEF TornDown, NoCall
<1>5. ASSUME NEW c \in Clients, handleIncomingClient(c) PROVE TornDown'
  BY <1>5 DEF TornDown, handleIncomingClient
<1>6. CASE Settled
  <2>1. UNCHANGED <<disconnected, teardowns, udpClosed>>
    BY <1>6 DEF Settled
  <2>2. CASE dis' = dis
    BY <2>1, <2>2 DEF TornDown
  <2>3. ASSUME NEW g \in Goroutines, NEW c \in Clients, NEW kicked \in BOOLEAN,
               Begins(g, c, kicked)
        PROVE  TornDown'
    BY <2>1, <2>3, CallBegun, SMTT(30) DEF TornDown
  <2>. QED BY <1>6, <2>2, <2>3 DEF Settled
<1>. QED BY <1>1, <1>2, <1>3, <1>4, <1>5, <1>6, StepKinds

\* The handler has a client while it finishes an authentication (finishAuthenticate).
LEMMA HandlerSoundStep == ASSUME TypeOK, HandlerSound, Next PROVE HandlerSound'
<1>. h \in HandlerStates
  BY DEF TypeOK
<1>1. ASSUME NEW c \in Clients, finishAuthenticate(c) PROVE HandlerSound'
  BY <1>1 DEF HandlerStates, HandlerSound, Idle, HandlerAt, finishAuthenticate
<1>2. ASSUME NEW ok \in BOOLEAN, NEW to \in SUBSET Clients, finishEnter(ok, to)
      PROVE  HandlerSound'
  BY <1>2 DEF HandlerStates, HandlerSound, Idle, HandlerAt, finishEnter
<1>3. ASSUME NEW d \in Clients, finishList(d) PROVE HandlerSound'
  BY <1>3 DEF HandlerStates, HandlerSound, Idle, HandlerAt, finishList
<1>4. ASSUME finishSync PROVE HandlerSound'
  <2>1. h' = [h EXCEPT !.pc = "signal"] \/ h' = Idle
    BY <1>4 DEF finishSync, Goes, Returns
  <2>2. h.pc = "list" /\ h.c \in Clients
    BY <1>4 DEF finishSync, HandlerAt, HandlerSound
  <2>. QED BY <2>1, <2>2, SMT DEF HandlerStates, HandlerSound, Idle
<1>5. ASSUME finishSignal PROVE HandlerSound'
  BY <1>5 DEF HandlerStates, HandlerSound, Idle, Returns, finishSignal
<1>6. ASSUME NEW c \in Clients, NEW failed \in SUBSET Clients, voicebroadcast(c, failed)
      PROVE  HandlerSound'
  <2>1. h' = h \/ h' = [h EXCEPT !.pc = "drop", !.todo = failed]
    BY <1>6 DEF voicebroadcast
  <2>. QED BY <2>1 DEF HandlerStates, HandlerSound
<1>7. ASSUME NEW d \in Clients, voicebroadcastDrop(d) PROVE HandlerSound'
  BY <1>7 DEF HandlerStates, HandlerSound, Idle, HandlerAt, voicebroadcastDrop
<1>8. CASE h' = h
  BY <1>8 DEF HandlerSound
<1>. QED BY <1>1, <1>2, <1>3, <1>4, <1>5, <1>6, <1>7, <1>8, StepCases, ZenonT(30)
            DEF disconnectClaim, disconnectLeave, disconnectTell, disconnectClose,
                handleIncomingClient, PeerLeaves, exchangeVersions, readAuthenticate,
                readyClosed, afterReady, readFails, sendUdprecv, udpLegacy, udpPing,
                udpEnds, authSucceeds, authFails, handleUserState, handleUserRemove,
                readMessage, clientVars, loopVars, serverVars, histVars

\* Nobody is entered into, or taken out of, a map under the id of another client:
\* userEnterChannel and setClient use the client's own.
LEMMA KeyedStep ==
    ASSUME TypeOK, Numbered, TornDown, Keyed, HandlerSound, Newcomers, Next
    PROVE  Keyed'
<1>. DEFINE InClients == \A s \in Sessions, c \in Clients :
                             clients[s] = c => session[c] = s /\ ~disconnected[c]
            InMembers == \A s \in Sessions, c \in Clients :
                             members[s] = c => session[c] = s /\ inChannel[c]
<1>1. InClients /\ InMembers
  BY DEF Keyed
<1>2. \A c \in Clients : session'[c] # session[c] => \A s \in Sessions : clients[s] # c /\
      ~inChannel[c]
  <2>1. ASSUME NEW c \in Clients, handleIncomingClient(c)
        PROVE  \A s \in Sessions : clients[s] # c /\ ~inChannel[c]
    <3>1. Early(c)
      BY <2>1 DEF Numbered, Early, handleIncomingClient
    <3>2. Unknown(c)
      BY <3>1 DEF Newcomers
    <3>. QED BY <3>2 DEF Unknown
  <2>2. ASSUME NEW c \in Clients, handleIncomingClient(c)
        PROVE  \A e \in Clients : session'[e] # session[e] => e = c
    BY <2>2 DEF TypeOK, handleIncomingClient, AssignSession
  <2>. QED BY <2>1, <2>2, ChangedBy
<1>3. InClients'
  <2>1. ASSUME NEW g \in Goroutines, disconnectClaim(g) PROVE InClients'
    <3>1. /\ disconnected' = [disconnected EXCEPT ![dis[g].c] = TRUE] /\ session' = session
          /\ clients' = [clients EXCEPT ![session[dis[g].c]] = NoClient]
      BY <2>1 DEF disconnectClaim
    <3>. QED BY <1>1, <3>1, SMT DEF TypeOK
  <2>2. ASSUME NEW c \in Clients, finishAuthenticate(c) PROVE InClients'
    <3>1. /\ disconnected' = disconnected /\ session' = session
          /\ clients' = [clients EXCEPT ![session[c]] = c] \/ clients' = clients
      BY <2>2 DEF finishAuthenticate, setClient, clientVars
    <3>2. ~disconnected[c]
      BY <2>2 DEF finishAuthenticate, Newcomers, Authing, Unknown
    <3>3. ASSUME NEW s \in Sessions, NEW e \in Clients, clients'[s] = e
          PROVE  session[e] = s /\ ~disconnected[e]
      <4>1. (e = c /\ s = session[c]) \/ clients[s] = e
        BY <3>1, <3>3 DEF TypeOK
      <4>. QED BY <1>1, <3>2, <4>1
    <3>. QED BY <3>1, <3>3
  <2>3. CASE clients' = clients /\ disconnected' = disconnected
    BY <1>1, <1>2, <2>3
  <2>. QED BY <2>1, <2>2, <2>3, ChangedBy
<1>4. InMembers'
  <2>1. ASSUME NEW g \in Goroutines, disconnectLeave(g) PROVE InMembers'
    <3>1. /\ inChannel' = [inChannel EXCEPT ![dis[g].c] = FALSE] /\ session' = session
          /\ members' = IF inChannel[dis[g].c]
             THEN [members EXCEPT ![session[dis[g].c]] = NoClient] ELSE members
      BY <2>1 DEF disconnectLeave, channelRemoveClient
    <3>. QED BY <1>1, <3>1, SMT DEF TypeOK
  <2>2. ASSUME NEW ok \in BOOLEAN, NEW to \in SUBSET Clients, finishEnter(ok, to)
        PROVE  InMembers'
    <3>1. /\ inChannel' = [inChannel EXCEPT ![h.c] = TRUE] /\ session' = session
          /\ members' = [members EXCEPT ![session[h.c]] = h.c]
      BY <2>2 DEF finishEnter
    <3>2. h.c \in Clients
      BY <2>2 DEF finishEnter, HandlerAt, HandlerSound
    <3>3. ASSUME NEW s \in Sessions, NEW c \in Clients, members'[s] = c
          PROVE  session[c] = s /\ inChannel'[c]
      <4>1. (c = h.c /\ s = session[c]) \/ members[s] = c
        BY <3>1, <3>3, ZenonT(30) DEF TypeOK
      <4>. QED BY <1>1, <3>1, <3>2, <4>1, SMT DEF TypeOK
    <3>. QED BY <3>1, <3>3
  <2>3. CASE members' = members /\ inChannel' = inChannel
    BY <1>1, <1>2, <2>3
  <2>. QED BY <2>1, <2>2, <2>3, ChangedBy
<1>. QED BY <1>3, <1>4 DEF Keyed

\* A newcomer was one before, and its goroutines take the steps of a handshake.
LEMMA NewcomerMoves ==
    ASSUME TypeOK, Numbered, HandlerSound, Newcomers, Next, NEW e \in Clients,
           Early(e)' \/ Authing(e)'
    PROVE  /\ Early(e) \/ Authing(e)
           /\ Early(e)' => auth'[e] = "off"
           /\ Authing(e)' => reader'[e] = "wait" /\ ready'[e] = "made"
           /\ auth'[e] = "send" => cstate'[e] = "Authenticated" /\ udp'[e] = "receive"
           /\ reader'[e] # "off" => udp'[e] = "receive"
           /\ udp'[e] \in {"off", "receive"} /\ ready'[e] # "closed" /\ cstate'[e] # "Ready"
<1>. /\ reader = [c \in Clients |-> reader[c]] /\ auth = [c \in Clients |-> auth[c]]
     /\ udp = [c \in Clients |-> udp[c]] /\ ready = [c \in Clients |-> ready[c]]
     /\ cstate = [c \in Clients |-> cstate[c]]
  BY DEF TypeOK
<1>. /\ Early(e) => auth[e] = "off"
     /\ Authing(e) => reader[e] = "wait" /\ ready[e] = "made"
     /\ auth[e] = "send" => cstate[e] = "Authenticated" /\ udp[e] = "receive"
     /\ reader[e] # "off" /\ (Early(e) \/ Authing(e)) => udp[e] = "receive"
     /\ Early(e) \/ Authing(e) => /\ udp[e] \in {"off", "receive"} /\ ready[e] # "closed"
                                  /\ cstate[e] # "Ready" /\ h.c # e /\ ~udpClosed[e]
                                  /\ \A g \in Goroutines : dis[g].c # e
     /\ conn[e] = "none" => reader[e] = "off"
  BY DEF Newcomers, Unknown, Numbered
<1>. DEFINE Goal == /\ Early(e) \/ Authing(e)
                    /\ Early(e)' => auth'[e] = "off"
                    /\ Authing(e)' => reader'[e] = "wait" /\ ready'[e] = "made"
                    /\ auth'[e] = "send" => cstate'[e] = "Authenticated" /\ udp'[e] = "receive"
                    /\ reader'[e] # "off" => udp'[e] = "receive"
                    /\ udp'[e] \in {"off", "receive"} /\ ready'[e] # "closed" /\
                       cstate'[e] # "Ready"
<1>1. ASSUME NEW g \in Goroutines, disconnectClose(g) PROVE Goal
  BY <1>1 DEF Early, Authing, disconnectClose, loopVars
<1>2. ASSUME NEW c \in Clients, handleIncomingClient(c) PROVE Goal
  BY <1>2 DEF Early, Authing, handleIncomingClient
<1>3. ASSUME NEW c \in Clients, exchangeVersions(c) PROVE Goal
  BY <1>3 DEF Early, Authing, exchangeVersions
<1>4. ASSUME NEW c \in Clients, readAuthenticate(c) PROVE Goal
  BY <1>4 DEF Early, Authing, readAuthenticate
<1>5. ASSUME NEW c \in Clients, readyClosed(c) PROVE Goal
  BY <1>5 DEF Early, Authing, readyClosed, clientVars
<1>6. ASSUME NEW c \in Clients, afterReady(c) PROVE Goal
  BY <1>6 DEF Early, Authing, afterReady
<1>7. ASSUME NEW c \in Clients, readFails(c) PROVE Goal
  BY <1>7 DEF Early, Authing, readFails, clientVars
<1>8. ASSUME NEW c \in Clients, sendUdprecv(c) PROVE Goal
  BY <1>8 DEF Early, Authing, sendUdprecv, clientVars
<1>9. ASSUME NEW c \in Clients, udpLegacy(c) PROVE Goal
  BY <1>9 DEF Early, Authing, udpLegacy, clientVars
<1>10. ASSUME NEW c \in Clients, udpPing(c) PROVE Goal
  BY <1>10 DEF Early, Authing, udpPing, clientVars
<1>11. ASSUME NEW c \in Clients, udpEnds(c) PROVE Goal
  BY <1>11 DEF Early, Authing, udpEnds, clientVars
<1>12. ASSUME NEW c \in Clients, authSucceeds(c) PROVE Goal
  BY <1>12 DEF Early, Authing, authSucceeds
<1>13. ASSUME NEW c \in Clients, NEW kicked \in BOOLEAN, authFails(c, kicked) PROVE Goal
  BY <1>13 DEF Early, Authing, authFails, clientVars
<1>14. ASSUME NEW c \in Clients, finishAuthenticate(c) PROVE Goal
  BY <1>14 DEF Early, Authing, finishAuthenticate, clientVars
<1>15. ASSUME finishSync PROVE Goal
  BY <1>15 DEF Early, Authing, finishSync, loopVars
<1>16. ASSUME finishSignal PROVE Goal
  BY <1>16 DEF Early, Authing, finishSignal, clientVars
<1>17. ASSUME NEW c \in Clients, NEW ok \in BOOLEAN, NEW to \in SUBSET Clients,
              handleUserState(c, ok, to) PROVE Goal
  BY <1>17 DEF Early, Authing, handleUserState, Takes, clientVars
<1>18. ASSUME NEW c \in Clients, NEW ok \in BOOLEAN, NEW to \in SUBSET Clients,
              handleUserRemove(c, ok, to) PROVE Goal
  BY <1>18 DEF Early, Authing, handleUserRemove, Takes, clientVars
<1>19. ASSUME NEW c \in Clients, NEW failed \in SUBSET Clients, voicebroadcast(c, failed)
       PROVE  Goal
  BY <1>19 DEF Early, Authing, voicebroadcast, clientVars
<1>20. ASSUME NEW c \in Clients, NEW kind \in Kinds, NEW of \in 0..MaxSession,
              readMessage(c, kind, of) PROVE Goal
  BY <1>20 DEF Early, Authing, readMessage, clientVars
<1>21. CASE UNCHANGED <<reader, auth, udp, ready, cstate>>
  BY <1>21 DEF Early, Authing
<1>. QED BY <1>1, <1>2, <1>3, <1>4, <1>5, <1>6, <1>7, <1>8, <1>9, <1>10, <1>11, <1>12,
            <1>13, <1>14, <1>15,
   <1>16, <1>17, <1>18, <1>19, <1>20, <1>21, StepCases, ZenonT(30) DEF disconnectClaim,
     disconnectLeave,
       disconnectTell, PeerLeaves, finishEnter, finishList, voicebroadcastDrop, clientVars,
       loopVars, serverVars, histVars

\* Nobody but its own goroutines hears of a client before the handler has received
\* clientAuthenticated.
LEMMA NewcomersStep ==
    ASSUME TypeOK, Numbered, Wanted, TornDown, Keyed, HandlerSound, Newcomers, Next
    PROVE  Newcomers'
<1>. SUFFICES ASSUME NEW e \in Clients, Early(e)' \/ Authing(e)' PROVE Unknown(e)'
  <2>1. \A c \in Clients : auth'[c] = "send" => Authing(c)'
    BY DEF Authing
  <2>. QED BY <2>1, NewcomerMoves DEF Newcomers
<1>1. Early(e) \/ Authing(e)
  BY NewcomerMoves
<1>2. Unknown(e)
  BY <1>1 DEF Newcomers
<1>3. udp'[e] \in {"off", "receive"} /\ ready'[e] # "closed" /\ cstate'[e] # "Ready"
  BY NewcomerMoves
<1>4. ~disconnected'[e]
  <2>1. ASSUME NEW g \in Goroutines, disconnectClaim(g) PROVE ~disconnected'[e]
    BY <1>2, <2>1, SMT DEF TypeOK, Unknown, disconnectClaim
  <2>. QED BY <1>2, <2>1, ChangedBy DEF Unknown
<1>5. ~udpClosed'[e]
  <2>1. ASSUME NEW g \in Goroutines, disconnectClose(g) PROVE ~udpClosed'[e]
    BY <1>2, <2>1, ZenonT(30) DEF TypeOK, Unknown, disconnectClose
  <2>. QED BY <1>2, <2>1, ChangedBy DEF Unknown
<1>6. ~inChannel'[e]
  <2>1. ASSUME NEW g \in Goroutines, disconnectLeave(g) PROVE ~inChannel'[e]
    BY <1>2, <2>1, SMT DEF TypeOK, Unknown, disconnectLeave, channelRemoveClient
  <2>2. ASSUME NEW ok \in BOOLEAN, NEW to \in SUBSET Clients, finishEnter(ok, to)
        PROVE  ~inChannel'[e]
    BY <1>2, <2>2, SMT DEF TypeOK, Unknown, finishEnter
  <2>. QED BY <1>2, <2>1, <2>2, ChangedBy DEF Unknown
<1>7. \A g \in Goroutines : dis'[g].c # e
  <2>0. \A g \in Goroutines : dis[g].c # e
    BY <1>2 DEF Unknown
  <2>1. ASSUME NEW g \in Goroutines, disconnectClaim(g)
        PROVE  \A f \in Goroutines : dis'[f].c # e
    BY <2>0, <2>1, CallAfter, SMT DEF disconnectClaim
  <2>2. ASSUME NEW g \in Goroutines, disconnectLeave(g)
        PROVE  \A f \in Goroutines : dis'[f].c # e
    BY <2>0, <2>2, CallAfter, SMT DEF disconnectLeave
  <2>3. ASSUME NEW g \in Goroutines, NEW ok \in BOOLEAN, NEW to \in SUBSET Clients,
               disconnectTell(g, ok, to)
        PROVE  \A f \in Goroutines : dis'[f].c # e
    BY <2>0, <2>3, CallAfter DEF disconnectTell
  <2>4. ASSUME NEW g \in Goroutines, disconnectClose(g)
        PROVE  \A f \in Goroutines : dis'[f].c # e
    BY <2>0, <2>4, CallOver, SMT DEF NoCall
  <2>5. ASSUME NEW g \in Goroutines, NEW c \in Clients, NEW kicked \in BOOLEAN,
               Begins(g, c, kicked)
        PROVE  \A f \in Goroutines : dis'[f].c # e
    <3>1. c # e
      BY <2>5 DEF Begins
    <3>. QED BY <2>0, <2>5, <3>1, CallBegun
  <2>6. CASE dis' = dis
    BY <2>0, <2>6
  <2>. QED BY <2>1, <2>2, <2>3, <2>4, <2>5, <2>6, CallsMade DEF DisconnectStep
<1>8. ASSUME NEW c \in Clients, finishAuthenticate(c) PROVE c # e
  <2>1. auth'[c] = "exit" /\ reader[c] = "wait" /\ reader' = reader
    BY <1>8, SMT DEF TypeOK, Newcomers, Authing, finishAuthenticate
  <2>. QED BY <2>1 DEF Early, Authing
<1>9. \A s \in Sessions : clients'[s] # e
  <2>1. ASSUME NEW g \in Goroutines, disconnectClaim(g)
        PROVE  \A s \in Sessions : clients'[s] # e
    BY <1>2, <2>1, SMT DEF TypeOK, Unknown, disconnectClaim
  <2>2. ASSUME NEW c \in Clients, finishAuthenticate(c)
        PROVE  \A s \in Sessions : clients'[s] # e
    <3>1. clients' = [clients EXCEPT ![session[c]] = c] \/ clients' = clients
      BY <2>2 DEF finishAuthenticate, setClient
    <3>. QED BY <1>2, <1>8, <2>2, <3>1, SMT DEF TypeOK, Unknown
  <2>. QED BY <1>2, <2>1, <2>2, ChangedBy DEF Unknown
<1>10. h'.c # e /\ e \notin h'.todo
  <2>. h \in HandlerStates
    BY DEF TypeOK
  <2>0. h.c # e /\ e \notin h.todo
    BY <1>2 DEF Unknown
  <2>1. ASSUME NEW c \in Clients, finishAuthenticate(c) PROVE h'.c # e /\ e \notin h'.todo
    BY <2>1, <2>0, <1>8 DEF HandlerStates, finishAuthenticate
  <2>2. ASSUME NEW ok \in BOOLEAN, NEW to \in SUBSET Clients, finishEnter(ok, to)
        PROVE  h'.c # e /\ e \notin h'.todo
    <3>1. e \notin Registered
      BY <1>2 DEF Unknown, Registered
    <3>. QED BY <2>2, <2>0, <3>1 DEF HandlerStates, finishEnter
  <2>3. ASSUME NEW d \in Clients, finishList(d) PROVE h'.c # e /\ e \notin h'.todo
    BY <2>3, <2>0 DEF HandlerStates, finishList
  <2>4. ASSUME finishSync PROVE h'.c # e /\ e \notin h'.todo
    <3>1. h' = [h EXCEPT !.pc = "signal"] \/ h' = Idle
      BY <2>4 DEF finishSync, Goes, Returns
    <3>. QED BY <2>0, <3>1, SMT DEF HandlerStates, Idle
  <2>5. ASSUME finishSignal PROVE h'.c # e /\ e \notin h'.todo
    BY <2>5, <2>0 DEF HandlerStates, Returns, Idle, finishSignal
  <2>6. ASSUME NEW c \in Clients, NEW failed \in SUBSET Clients, voicebroadcast(c, failed)
        PROVE  h'.c # e /\ e \notin h'.todo
    <3>1. e \notin Members
      BY <1>2, SMT DEF Unknown, Members, Keyed
    <3>2. h' = h \/ (h' = [h EXCEPT !.pc = "drop", !.todo = failed] /\ e \notin failed)
      BY <2>6, <3>1 DEF voicebroadcast
    <3>. QED BY <2>0, <3>2 DEF HandlerStates
  <2>7. ASSUME NEW d \in Clients, voicebroadcastDrop(d) PROVE h'.c # e /\ e \notin h'.todo
    BY <2>7, <2>0 DEF HandlerStates, Idle, voicebroadcastDrop
  <2>8. CASE h' = h
    BY <2>8, <2>0
  <2>. QED BY <2>1, <2>2, <2>3, <2>4, <2>5, <2>6, <2>7, <2>8, StepCases
              DEF disconnectClaim, disconnectLeave, disconnectTell, disconnectClose,
                  handleIncomingClient, PeerLeaves, exchangeVersions, readAuthenticate,
                  readyClosed, afterReady, readFails, sendUdprecv, udpLegacy, udpPing,
                  udpEnds, authSucceeds, authFails, handleUserState, handleUserRemove,
                  readMessage, clientVars, loopVars, serverVars, histVars
<1>11. view'[e] = {}
  <2>0. view[e] = {} /\ e \notin Registered /\ h.c # e
    BY <1>2 DEF Unknown, Registered
  <2>1. ASSUME NEW ok, NEW to, NEW add, NEW remove, Broadcast(ok, to, add, remove)
        PROVE  view'[e] = {}
    <3>1. e \notin to
      BY <2>0, <2>1 DEF Broadcast, Reached, Recipients
    <3>. QED BY <2>0, <2>1, <3>1 DEF Broadcast
  <2>2. ASSUME NEW g \in Goroutines, NEW ok \in BOOLEAN, NEW to \in SUBSET Clients,
               disconnectTell(g, ok, to) PROVE view'[e] = {}
    BY <2>2, <2>0, <2>1 DEF disconnectTell
  <2>3. ASSUME NEW ok \in BOOLEAN, NEW to \in SUBSET Clients, finishEnter(ok, to)
        PROVE  view'[e] = {}
    BY <2>3, <2>0, <2>1 DEF finishEnter
  <2>4. ASSUME NEW d \in Clients, finishList(d) PROVE view'[e] = {}
    <3>1. view' = view \/ view' = [view EXCEPT ![h.c] = @ \cup {session[d]}]
      BY <2>4 DEF finishList
    <3>. QED BY <2>0, <3>1, SMT DEF TypeOK
  <2>5. ASSUME NEW c \in Clients, NEW ok \in BOOLEAN, NEW to \in SUBSET Clients,
               handleUserState(c, ok, to) PROVE view'[e] = {}
    BY <2>5, <2>0, <2>1 DEF handleUserState, UserStateBroadcast
  <2>6. ASSUME NEW c \in Clients, NEW ok \in BOOLEAN, NEW to \in SUBSET Clients,
               handleUserRemove(c, ok, to) PROVE view'[e] = {}
    BY <2>6, <2>0, <2>1 DEF handleUserRemove
  <2>7. CASE view' = view
    BY <2>7, <2>0
  <2>. QED BY <2>2, <2>3, <2>4, <2>5, <2>6, <2>7, StepCases
              DEF disconnectClaim, disconnectLeave, disconnectClose, handleIncomingClient,
                  PeerLeaves, exchangeVersions, readAuthenticate, readyClosed, afterReady,
                  readFails, sendUdprecv, udpLegacy, udpPing, udpEnds, authSucceeds,
                  authFails, finishAuthenticate, finishSync, finishSignal, voicebroadcast,
                  voicebroadcastDrop, readMessage, clientVars, loopVars, serverVars,
                  histVars
<1>. QED BY <1>2, <1>3, <1>4, <1>5, <1>6, <1>7, <1>9, <1>10, <1>11 DEF Unknown

-----------------------------------------------------------------------------
\* The server starts without a connection.
LEMMA HandshakeInit == Init => HandshakeInv
<1>. SUFFICES ASSUME Init PROVE HandshakeInv
  OBVIOUS
<1>1. TypeOK
  <2>1. dis \in [Goroutines -> Calls] /\ h \in HandlerStates
    BY DEF Init, NoCall, Idle, Calls, HandlerStates
  <2>2. msg \in [Clients -> [kind : Kinds \cup {"none"}, of : 0..MaxSession]]
    BY SMT DEF Init, NoMsg
  <2>3. /\ session \in [Clients -> 0..MaxSession] /\ cur \in 0..MaxSession
        /\ unused \in Seq(Sessions) /\ teardowns \in [Clients -> Nat]
    BY SMT DEF Init
  <2>4. disconnected \in [Clients -> BOOLEAN] /\ udpClosed \in [Clients -> BOOLEAN] /\
        inChannel \in [Clients -> BOOLEAN]
    BY DEF Init
  <2>. QED BY <2>1, <2>2, <2>3, <2>4 DEF Init, TypeOK
<1>2. Numbered /\ Wanted /\ TornDown /\ HandlerSound /\ Keyed
  BY DEF Init, NoCall, Idle, Numbered, Wanted, TornDown, HandlerSound, Keyed
<1>3. Newcomers
  BY DEF Init, NoCall, Idle, Newcomers, Unknown, Early, Authing
<1>. QED BY <1>1, <1>2, <1>3 DEF HandshakeInv

\* Every step of every goroutine keeps the inductive invariant.
LEMMA HandshakeStep == HandshakeInv /\ [Next]_vars => HandshakeInv'
<1>1. ASSUME HandshakeInv, Next PROVE HandshakeInv'
  BY <1>1, TypeStep, NumberedStep, WantedStep, TornDownStep, HandlerSoundStep, KeyedStep,
     NewcomersStep
     DEF HandshakeInv
<1>2. ASSUME HandshakeInv, UNCHANGED vars PROVE HandshakeInv'
  <2>. UNCHANGED <<cstate, conn, session, disconnected, ready, udpClosed, inChannel,
                   reader, msg, auth, udp, dis, clients, members, cur, unused, h, view,
                   crashed, teardowns, sendFailed, reusedEarly>>
    BY <1>2 DEF vars, clientVars, loopVars, serverVars, histVars
  <2>. USE <1>2 DEF HandshakeInv
  <2>1. TypeOK' /\ Numbered' /\ Wanted' /\ TornDown' /\ HandlerSound' /\ Keyed'
    BY DEF TypeOK, Numbered, Wanted, TornDown, HandlerSound, Keyed
  <2>2. \A c \in Clients : (Early(c)' <=> Early(c)) /\ (Authing(c)' <=> Authing(c))
    BY DEF Early, Authing
  <2>3. \A c \in Clients : Unknown(c) => Unknown(c)'
    BY DEF Unknown
  <2>4. Newcomers'
    BY <2>2, <2>3 DEF Newcomers
  <2>. QED BY <2>1, <2>4
<1>. QED BY <1>1, <1>2

-----------------------------------------------------------------------------
\* For any number of clients and any interleaving of their goroutines: until
\* clientAuthenticated hands a client to the handler, it is in none of the server's
\* maps and no call of disconnect is for it; the maps hold it under its own id.
THEOREM NewcomersUnknown == Spec => []HandshakeInv
BY HandshakeInit, HandshakeStep, PTL DEF Spec

-----------------------------------------------------------------------------
\* Second part: the client map, the members of the channel and the session ids.

\* The session pool, as long as no client is torn down twice.
PoolSound ==
    /\ \A c \in Clients : session[c] <= cur
    /\ \A i \in DOMAIN unused : unused[i] <= cur
    /\ TornDownOnce =>
          /\ \A i, j \in DOMAIN unused : unused[i] = unused[j] => i = j
          /\ \A i \in DOMAIN unused : \A c \in Live : session[c] # unused[i]

\* A client that was finished with is found in the map until it is torn down.
Found ==
    TornDownOnce =>
        \A c \in Live : cstate[c] = "Ready" \/ Finishing(c) => clients[session[c]] = c

\* As long as no send has failed, nothing happens to a client that the handler is
\* finishing with, and a kick comes from the handler, or ends an authentication.
Undisturbed(c) == /\ reader[c] = "wait" /\ auth[c] = "exit" /\ udp[c] = "receive"
                  /\ ready[c] = "made" /\ ~disconnected[c] /\ ~udpClosed[c]
                  /\ \A g \in Goroutines : dis[g].c # c
                  /\ cstate[c] = IF h.pc = "signal" THEN "Ready" ELSE "Authenticated"
                  /\ h.pc = "enter" => view[c] = {}
Smooth ==
    ~sendFailed =>
        /\ h.pc # "drop"
        /\ h.pc \in {"enter", "list", "signal"} => Undisturbed(h.c)
        /\ \A g \in Goroutines : dis[g].pc # "none" /\ dis[g].kicked =>
                                g = Handler \/ cstate[dis[g].c] # "Ready"

\* As long as no send has failed, a disconnected client is in its channel only
\* while the call that tears it down is about to take it out.
Leaving ==
    ~sendFailed => \A c \in Clients : inChannel[c] /\ disconnected[c] =>
                       \E g \in Goroutines : dis[g].pc = "leave" /\ dis[g].c = c

\* Two calls that are past their first step are for different clients, and a
\* client keeps the use of its session id until the others were told.
PastClaim == {g \in Goroutines : dis[g].pc \in {"leave", "tell", "close"}}
Pending(c) == \E g \in Goroutines : dis[g].pc \in {"leave", "tell"} /\ dis[g].c = c
Holding == {c \in Clients : session[c] # 0 /\ (~disconnected[c] \/ Pending(c))}
IdsApart ==
    TornDownOnce =>
        /\ \A f, g \in PastClaim : dis[f].c = dis[g].c => f = g
        /\ ~reusedEarly => \A c, d \in Holding : session[c] = session[d] => c = d

\* The inductive invariant.
ClientInv == /\ HandshakeInv /\ OneClientPerUser /\ PoolSound /\ LiveSessionsDistinct
             /\ Found /\ Smooth /\ Leaving /\ IdsApart

-----------------------------------------------------------------------------
\* finishAuthenticate registers a client whose user has no other.
LEMMA OneClientStep == ASSUME TypeOK, OneClientPerUser, Next PROVE OneClientPerUser'
<1>1. ASSUME NEW g \in Goroutines, disconnectClaim(g) PROVE OneClientPerUser'
  <2>1. Registered' \subseteq Registered
    BY <1>1, SMT DEF TypeOK, Registered, disconnectClaim
  <2>. QED BY <2>1 DEF OneClientPerUser
<1>2. ASSUME NEW c \in Clients, finishAuthenticate(c) PROVE OneClientPerUser'
  <2>1. CASE clients' = clients
    BY <2>1 DEF OneClientPerUser, Registered
  <2>2. CASE clients' = [clients EXCEPT ![session[c]] = c] /\ SameUser(c) = {}
    <3>1. Registered' \subseteq Registered \cup {c}
      BY <2>2, SMT DEF TypeOK, Registered
    <3>2. \A d \in Registered : UserOf[c] # NoUser => UserOf[d] # UserOf[c]
      BY <2>2 DEF SameUser
    <3>. QED BY <3>1, <3>2 DEF OneClientPerUser
  <2>. QED BY <1>2, <2>1, <2>2 DEF finishAuthenticate, setClient
<1>3. CASE clients' = clients
  BY <1>3 DEF OneClientPerUser, Registered
<1>. QED BY <1>1, <1>2, <1>3, ChangedBy

\* A client is claimed while it is live, unless it is torn down twice.
LEMMA ClaimedLive ==
    ASSUME TypeOK, Numbered, TornDown, Newcomers, NEW g \in Goroutines, disconnectClaim(g)
    PROVE  /\ dis[g].c \in Clients /\ session[dis[g].c] \in Sessions
           /\ TornDownOnce' => TornDownOnce /\ dis[g].c \in Live
           /\ Live' = Live \ {dis[g].c}
<1>1. dis[g].c \in Clients /\ session[dis[g].c] \in Sessions
  BY NamedNumbered DEF TornDown, disconnectClaim
<1>2. teardowns' = [teardowns EXCEPT ![dis[g].c] = @ + 1]
  BY DEF disconnectClaim
<1>3. ASSUME TornDownOnce' PROVE TornDownOnce /\ teardowns[dis[g].c] = 0
  <2>. teardowns \in [Clients -> Nat]
    BY DEF TypeOK
  <2>1. teardowns'[dis[g].c] = teardowns[dis[g].c] + 1 /\ teardowns'[dis[g].c] <= 1
    BY <1>1, <1>2, <1>3 DEF TornDownOnce
  <2>2. \A c \in Clients : teardowns[c] <= teardowns'[c]
    BY <1>1, <1>2, SMT
  <2>3. \A c \in Clients : teardowns[c] <= 1
    BY <1>1, <1>2, <1>3, <2>1, SMT DEF TornDownOnce
  <2>. QED BY <1>1, <2>1, <2>3, SMT DEF TornDownOnce
<1>4. session[dis[g].c] # 0
  BY <1>1, SMT DEF Sessions
<1>5. TornDownOnce' => TornDownOnce /\ dis[g].c \in Live
  BY <1>1, <1>3, <1>4 DEF Live, TornDown
<1>6. Live' = Live \ {dis[g].c}
  <2>1. session' = session /\ disconnected' = [disconnected EXCEPT ![dis[g].c] = TRUE]
    BY DEF disconnectClaim
  <2>. QED BY <1>1, <2>1 DEF TypeOK, Live
<1>. QED BY <1>1, <1>5, <1>6

\* A connection that is made is a live one with a fresh session id.
LEMMA ConnectedLive ==
    ASSUME TypeOK, Numbered, Newcomers, NEW c \in Clients, handleIncomingClient(c)
    PROVE  /\ session'[c] = Pool!NextId /\ Pool!NextId \in Sessions
           /\ \A e \in Clients : e # c => session'[e] = session[e]
           /\ Live' = Live \cup {c} /\ c \notin Live /\ reader[c] = "off"
           /\ TornDownOnce' = TornDownOnce
<1>1. Pool!NextId \in Sessions
  BY IdTaken DEF handleIncomingClient
<1>2. session' = [session EXCEPT ![c] = Pool!NextId] /\ disconnected' = disconnected /\
      teardowns' = teardowns
  BY DEF handleIncomingClient, AssignSession
<1>3. reader[c] = "off" /\ session[c] = 0
  BY DEF handleIncomingClient, Numbered
<1>4. ~disconnected[c]
  BY <1>3 DEF Newcomers, Early, Unknown
<1>5. session'[c] = Pool!NextId /\ \A e \in Clients : e # c => session'[e] = session[e]
  BY <1>2 DEF TypeOK
<1>6. Pool!NextId # 0
  BY <1>1, SMT DEF Sessions
<1>7. c \notin Live
  BY <1>3 DEF Live
<1>8. Live' = Live \cup {c}
  BY <1>2, <1>4, <1>5, <1>6 DEF Live
<1>9. TornDownOnce' = TornDownOnce
  BY <1>2 DEF TornDownOnce
<1>. QED BY <1>1, <1>3, <1>5, <1>7, <1>8, <1>9

\* Reclaim is called once for an id and Get hands out none that is in use.
LEMMA PoolSoundStep ==
    ASSUME TypeOK, Numbered, TornDown, Newcomers, PoolSound, LiveSessionsDistinct, Next
    PROVE  PoolSound' /\ LiveSessionsDistinct'
<1>. DEFINE Stack == \A i, j \in DOMAIN unused : unused[i] = unused[j] => i = j
            Unissued == \A i \in DOMAIN unused : \A c \in Live : session[c] # unused[i]
            Apart == \A c, d \in Live : session[c] = session[d] => c = d
<1>. unused \in Seq(Sessions) /\ cur \in Nat /\ \A c \in Clients : session[c] \in Nat
  BY SMT DEF TypeOK
<1>. Live \subseteq Clients
  BY DEF Live
<1>1. ASSUME NEW g \in Goroutines, disconnectClaim(g) PROVE PoolSound' /\ LiveSessionsDistinct'
  <2>1. PICK c \in Clients : c = dis[g].c
    BY <1>1, ClaimedLive
  <2>2. /\ session[c] \in Sessions
        /\ TornDownOnce' => TornDownOnce /\ c \in Live
        /\ Live' = Live \ {c}
    BY <1>1, <2>1, ClaimedLive
  <2>3. session' = session /\ cur' = cur
    BY <1>1 DEF disconnectClaim
  <2>4. \A i \in DOMAIN unused' : \/ i \in DOMAIN unused /\ unused'[i] = unused[i]
                                  \/ i = Len(unused) + 1 /\ unused'[i] = session[c]
    <3>1. Pool!GiveBack(session[c])
      BY <1>1, <2>1 DEF disconnectClaim
    <3>. QED BY <2>2, <3>1, IdGivenBack
  <2>5. (\A e \in Clients : session'[e] <= cur') /\
        (\A i \in DOMAIN unused' : unused'[i] <= cur')
    BY <2>3, <2>4 DEF PoolSound
  <2>6. ASSUME TornDownOnce' PROVE Stack' /\ Unissued' /\ Apart'
    <3>1. Stack /\ Unissued /\ Apart /\ c \in Live
      BY <2>2, <2>6 DEF PoolSound, LiveSessionsDistinct
    <3>2. Apart'
      BY <2>2, <2>3, <3>1
    <3>3. Stack'
      BY <2>4, <3>1
    <3>4. Unissued'
      BY <2>2, <2>3, <2>4, <3>1
    <3>. QED BY <3>2, <3>3, <3>4
  <2>. QED BY <2>5, <2>6 DEF PoolSound, LiveSessionsDistinct
<1>2. ASSUME NEW c \in Clients, handleIncomingClient(c)
      PROVE  PoolSound' /\ LiveSessionsDistinct'
  <2>. DEFINE id == Pool!NextId
  <2>1. /\ session'[c] = id /\ id \in Sessions /\ Live' = Live \cup {c} /\ c \notin Live
        /\ \A e \in Clients : e # c => session'[e] = session[e]
        /\ TornDownOnce' => TornDownOnce
    BY <1>2, ConnectedLive
  <2>2. /\ cur <= cur' /\ cur' \in Nat
        /\ \A i \in DOMAIN unused' : i \in DOMAIN unused /\ i # Len(unused) /\
           unused'[i] = unused[i]
        /\ \/ Len(unused) \in DOMAIN unused /\ id = unused[Len(unused)]
           \/ unused = <<>> /\ id = cur + 1 /\ cur' = cur + 1
    BY <1>2, IdTaken, SMT DEF handleIncomingClient
  <2>3. id \in Nat
    BY <2>1, SMT DEF Sessions
  <2>. HIDE DEF id
  <2>4. /\ \A e \in Clients : session[e] <= cur
        /\ \A i \in DOMAIN unused : unused[i] <= cur /\ unused[i] \in Nat
    BY SMT DEF PoolSound, Sessions
  <2>5. id <= cur'
    BY <2>2, <2>3, <2>4, SMT
  <2>6. (\A e \in Clients : session'[e] <= cur') /\
        (\A i \in DOMAIN unused' : unused'[i] <= cur')
    BY <2>1, <2>2, <2>4, <2>5, SMT
  <2>7. ASSUME TornDownOnce' PROVE Stack' /\ Unissued' /\ Apart'
    <3>1. Stack /\ Unissued /\ Apart
      BY <2>1, <2>7 DEF PoolSound, LiveSessionsDistinct
    <3>2. \A e \in Live : session[e] # id
      BY <2>2, <2>4, <3>1, SMT
    <3>3. \A i \in DOMAIN unused' : unused'[i] # id
      <4>1. DOMAIN <<>> = {}
        BY SMT
      <4>. QED BY <2>2, <3>1, <4>1
    <3>4. Apart'
      BY <2>1, <3>1, <3>2, SMT
    <3>5. Stack'
      BY <2>2, <3>1
    <3>6. Unissued'
      BY <2>1, <2>2, <3>1, <3>3
    <3>. QED BY <3>4, <3>5, <3>6
  <2>. QED BY <2>6, <2>7 DEF PoolSound, LiveSessionsDistinct
<1>3. CASE UNCHANGED <<session, cur, unused, disconnected, teardowns>>
  BY <1>3 DEF PoolSound, LiveSessionsDistinct, TornDownOnce, Live
<1>. QED BY <1>1, <1>2, <1>3, ChangedBy

\* A client becomes ready through finishAuthenticate.
LEMMA ReadyMoves ==
    ASSUME TypeOK, Next, NEW e \in Clients, cstate'[e] = "Ready" \/ Finishing(e)',
           ~(\E c \in Clients : finishAuthenticate(c))
    PROVE  cstate[e] = "Ready" \/ Finishing(e)
<1>. h \in [pc : {"idle", "enter", "list", "signal", "drop"}, c : Clients \cup {NoClient},
            todo : SUBSET Clients]
  BY DEF TypeOK, HandlerStates
<1>. cstate = [c \in Clients |-> cstate[c]]
  BY DEF TypeOK
<1>. DEFINE Goal == cstate[e] = "Ready" \/ Finishing(e)
<1>1. ASSUME NEW c \in Clients, exchangeVersions(c) PROVE Goal
  BY <1>1 DEF exchangeVersions, Finishing
<1>2. ASSUME NEW c \in Clients, authSucceeds(c) PROVE Goal
  BY <1>2 DEF authSucceeds, Finishing
<1>3. ASSUME NEW ok \in BOOLEAN, NEW to \in SUBSET Clients, finishEnter(ok, to) PROVE Goal
  BY <1>3 DEF finishEnter, Finishing, HandlerAt
<1>4. ASSUME NEW d \in Clients, finishList(d) PROVE Goal
  BY <1>4 DEF finishList, Finishing, HandlerAt, clientVars
<1>5. ASSUME finishSync PROVE Goal
  <2>1. /\ h.pc = "list"
        /\ h' = [h EXCEPT !.pc = "signal"] \/ h' = Idle
        /\ cstate' = cstate \/ cstate' = [cstate EXCEPT ![h.c] = "Ready"]
    BY <1>5 DEF finishSync, HandlerAt, Goes, Returns
  <2>2. h'.c \in {h.c, NoClient}
    BY <2>1, SMT DEF Idle
  <2>. QED BY <2>1, <2>2 DEF Finishing
<1>6. ASSUME finishSignal PROVE Goal
  BY <1>6 DEF finishSignal, Finishing, Returns, Idle, clientVars
<1>7. ASSUME NEW c \in Clients, NEW failed \in SUBSET Clients, voicebroadcast(c, failed)
      PROVE  Goal
  <2>1. cstate' = cstate /\ (h' = h \/ h'.pc = "drop")
    BY <1>7 DEF voicebroadcast, clientVars
  <2>. QED BY <2>1 DEF Finishing
<1>8. ASSUME NEW d \in Clients, voicebroadcastDrop(d) PROVE Goal
  BY <1>8 DEF voicebroadcastDrop, Finishing, Idle, clientVars
<1>9. CASE UNCHANGED <<cstate, h>>
  BY <1>9 DEF Finishing
<1>. QED BY <1>1, <1>2, <1>3, <1>4, <1>5, <1>6, <1>7, <1>8, <1>9, StepCases
            DEF disconnectClaim, disconnectLeave, disconnectTell, disconnectClose,
                handleIncomingClient, PeerLeaves, readAuthenticate, readyClosed, afterReady,
                readFails, sendUdprecv, udpLegacy, udpPing, udpEnds, authFails,
                handleUserState, handleUserRemove, readMessage, clientVars, loopVars,
                serverVars, histVars

\* A teardown takes its own client out of the map and no other, and finishAuthenticate
\* enters the client it makes ready.
LEMMA FoundStep ==
    ASSUME TypeOK, Numbered, TornDown, HandlerSound, Newcomers, LiveSessionsDistinct,
      Found, Next
    PROVE  Found'
<1>. Live \subseteq Clients
  BY DEF Live
<1>. DEFINE Settling(e) == cstate[e] = "Ready" \/ Finishing(e)
<1>1. ASSUME NEW g \in Goroutines, disconnectClaim(g), TornDownOnce'
      PROVE  \A e \in Live' : Settling(e)' => clients'[session'[e]] = e
  <2>1. PICK c \in Clients : c = dis[g].c
    BY <1>1, ClaimedLive
  <2>2. c \in Live /\ TornDownOnce /\ Live' = Live \ {c}
    BY <1>1, <2>1, ClaimedLive
  <2>3. /\ session' = session /\ cstate' = cstate /\ h' = h
        /\ clients' = [clients EXCEPT ![session[c]] = NoClient]
    BY <1>1, <2>1 DEF disconnectClaim
  <2>4. ASSUME NEW e \in Live' PROVE e \in Live /\ clients'[session[e]] = clients[session[e]]
    BY <2>2, <2>3, <2>4, SMT DEF LiveSessionsDistinct, TypeOK
  <2>. QED BY <2>2, <2>3, <2>4 DEF Found, Finishing
<1>2. ASSUME NEW c \in Clients, handleIncomingClient(c), TornDownOnce'
      PROVE  \A e \in Live' : Settling(e)' => clients'[session'[e]] = e
  <2>1. /\ TornDownOnce /\ Live' = Live \cup {c} /\ reader[c] = "off"
        /\ \A e \in Clients : e # c => session'[e] = session[e]
    BY <1>2, ConnectedLive
  <2>2. cstate' = cstate /\ h' = h /\ clients' = clients
    BY <1>2 DEF handleIncomingClient
  <2>3. ~Settling(c)
    BY <2>1 DEF Newcomers, Early, Unknown, Finishing
  <2>. QED BY <2>1, <2>2, <2>3 DEF Found, Finishing
<1>3. ASSUME NEW c \in Clients, finishAuthenticate(c), TornDownOnce'
      PROVE  \A e \in Live' : Settling(e)' => clients'[session'[e]] = e
  <2>1. UNCHANGED <<session, disconnected, teardowns, cstate>>
    BY <1>3 DEF finishAuthenticate, clientVars
  <2>2. Live' = Live /\ TornDownOnce
    BY <1>3, <2>1 DEF Live, TornDownOnce
  <2>3. CASE clients' = clients /\ h' = h
    BY <2>1, <2>2, <2>3 DEF Found, Finishing
  <2>4. CASE clients' = [clients EXCEPT ![session[c]] = c] /\
             h' = [h EXCEPT !.pc = "enter", !.c = c]
    <3>1. session[c] \in Sessions
      BY <1>3, NamedNumbered DEF finishAuthenticate
    <3>2. c \in Live
      BY <1>3, <3>1, SMT DEF finishAuthenticate, Newcomers, Authing, Unknown, Live, Sessions
    <3>3. clients'[session[c]] = c
      BY <2>4, <3>1, SMT DEF TypeOK
    <3>4. \A e \in Live : e # c => clients'[session[e]] = clients[session[e]]
      BY <2>2, <2>4, <3>2, SMT DEF LiveSessionsDistinct, TypeOK
    <3>5. \A e \in Live : e # c /\ Settling(e)' => Settling(e)
      BY <2>1, <2>4 DEF TypeOK, HandlerStates, Finishing
    <3>. QED BY <2>1, <2>2, <3>3, <3>4, <3>5 DEF Found
  <2>. QED BY <1>3, <2>3, <2>4 DEF finishAuthenticate, setClient
<1>4. ASSUME UNCHANGED <<session, disconnected, teardowns, clients>>,
             ~(\E c \in Clients : finishAuthenticate(c)),
             TornDownOnce'
      PROVE  \A e \in Live' : Settling(e)' => clients'[session'[e]] = e
  <2>1. Live' = Live /\ TornDownOnce
    BY <1>4 DEF Live, TornDownOnce
  <2>. QED BY <1>4, <2>1, ReadyMoves DEF Found
<1>. QED BY <1>1, <1>2, <1>3, <1>4, ChangedBy DEF Found

-----------------------------------------------------------------------------
\* What the history variables record stays recorded, and a process that panicked stops.
LEMMA HistoryGrows ==
    ASSUME TypeOK, Next
    PROVE  /\ Running
           /\ sendFailed => sendFailed'
           /\ reusedEarly => reusedEarly'
           /\ TornDownOnce' => TornDownOnce
<1>1. Running
  BY StepCases
     DEF disconnectClaim, disconnectLeave, disconnectTell, disconnectClose,
         handleIncomingClient, PeerLeaves, exchangeVersions, readAuthenticate, readyClosed,
         afterReady, readFails, sendUdprecv, udpLegacy, udpPing, udpEnds, authSucceeds,
         authFails, finishAuthenticate, finishEnter, finishList, finishSync, finishSignal,
         handleUserState, handleUserRemove, voicebroadcast, voicebroadcastDrop, readMessage,
         Takes, HandlerAt, Free
<1>2. sendFailed => sendFailed'
  BY StepCases
     DEF disconnectClaim, disconnectLeave, disconnectTell, disconnectClose,
         handleIncomingClient, PeerLeaves, exchangeVersions, readAuthenticate, readyClosed,
         afterReady, readFails, sendUdprecv, udpLegacy, udpPing, udpEnds, authSucceeds,
         authFails, finishAuthenticate, finishEnter, finishList, finishSync, finishSignal,
         handleUserState, handleUserRemove, voicebroadcast, voicebroadcastDrop, readMessage,
         Broadcast, UserStateBroadcast, histVars
<1>3. reusedEarly => reusedEarly'
  BY ChangedBy DEF handleIncomingClient
<1>4. TornDownOnce' => TornDownOnce
  <2>. teardowns \in [Clients -> Nat]
    BY DEF TypeOK
  <2>1. ASSUME NEW g \in Goroutines, disconnectClaim(g)
        PROVE  \A c \in Clients : teardowns'[c] \in {teardowns[c], teardowns[c] + 1}
    BY <2>1 DEF disconnectClaim
  <2>2. \A c \in Clients : teardowns'[c] \in {teardowns[c], teardowns[c] + 1}
    BY <2>1, ChangedBy, ZenonT(30)
  <2>. QED BY <2>2, SMT DEF TornDownOnce
<1>. QED BY <1>1, <1>2, <1>3, <1>4

\* As long as no send has failed, the goroutines of a client that the handler is
\* finishing with wait for it.
LEMMA FinishingKept ==
    ASSUME TypeOK, Numbered, HandlerSound, Smooth, ~sendFailed, Next, NEW e \in Clients,
           Finishing(e), Finishing(e)'
    PROVE  /\ reader'[e] = "wait" /\ auth'[e] = "exit" /\ udp'[e] = "receive" /\
              ready'[e] = "made"
           /\ sendFailed' \/ cstate'[e] = IF h'.pc = "signal" THEN "Ready" ELSE "Authenticated"
<1>. /\ reader = [c \in Clients |-> reader[c]] /\ auth = [c \in Clients |-> auth[c]]
     /\ udp = [c \in Clients |-> udp[c]] /\ ready = [c \in Clients |-> ready[c]]
     /\ cstate = [c \in Clients |-> cstate[c]]
  BY SMT DEF TypeOK
<1>. h \in HandlerStates
  BY DEF TypeOK
<1>. /\ h.pc \in {"enter", "list", "signal"} /\ h.c = e
     /\ h'.pc \in {"enter", "list", "signal"} /\ h'.c = e
  BY DEF Finishing
<1>. /\ reader[e] = "wait" /\ auth[e] = "exit" /\ udp[e] = "receive" /\ ready[e] = "made"
     /\ ~udpClosed[e] /\ \A g \in Goroutines : dis[g].c # e
     /\ cstate[e] = IF h.pc = "signal" THEN "Ready" ELSE "Authenticated"
     /\ conn[e] # "none"
  BY SMT DEF Smooth, Undisturbed, Numbered
<1>. DEFINE Goal == /\ reader'[e] = "wait" /\ auth'[e] = "exit" /\ udp'[e] = "receive" /\
                       ready'[e] = "made"
                    /\ sendFailed' \/ cstate'[e] = IF h'.pc = "signal"
                       THEN "Ready" ELSE "Authenticated"
<1>1. ASSUME NEW g \in Goroutines, disconnectClose(g) PROVE Goal
  BY <1>1 DEF disconnectClose, loopVars
<1>2. ASSUME NEW c \in Clients, handleIncomingClient(c) PROVE Goal
  BY <1>2 DEF handleIncomingClient
<1>3. ASSUME NEW c \in Clients, exchangeVersions(c) PROVE Goal
  BY <1>3 DEF exchangeVersions
<1>4. ASSUME NEW c \in Clients, readAuthenticate(c) PROVE Goal
  BY <1>4 DEF readAuthenticate
<1>5. ASSUME NEW c \in Clients, readyClosed(c) PROVE Goal
  BY <1>5 DEF readyClosed, clientVars
<1>6. ASSUME NEW c \in Clients, afterReady(c) PROVE Goal
  BY <1>6 DEF afterReady
<1>7. ASSUME NEW c \in Clients, readFails(c) PROVE Goal
  BY <1>7 DEF readFails, clientVars
<1>8. ASSUME NEW c \in Clients, sendUdprecv(c) PROVE Goal
  BY <1>8 DEF sendUdprecv, clientVars
<1>9. ASSUME NEW c \in Clients, udpLegacy(c) PROVE Goal
  BY <1>9 DEF udpLegacy, clientVars
<1>10. ASSUME NEW c \in Clients, udpPing(c) PROVE Goal
  BY <1>10 DEF udpPing, clientVars
<1>11. ASSUME NEW c \in Clients, udpEnds(c) PROVE Goal
  BY <1>11 DEF udpEnds, clientVars
<1>12. ASSUME NEW c \in Clients, authSucceeds(c) PROVE Goal
  BY <1>12 DEF authSucceeds
<1>13. ASSUME NEW c \in Clients, NEW kicked \in BOOLEAN, authFails(c, kicked) PROVE Goal
  BY <1>13 DEF authFails, clientVars
<1>14. ASSUME NEW c \in Clients, finishAuthenticate(c) PROVE Goal
  BY <1>14 DEF finishAuthenticate, HandlerAt
<1>15. ASSUME NEW ok \in BOOLEAN, NEW to \in SUBSET Clients, finishEnter(ok, to) PROVE Goal
  BY <1>15 DEF finishEnter, HandlerAt, loopVars, HandlerStates
<1>16. ASSUME NEW d \in Clients, finishList(d) PROVE Goal
  BY <1>16 DEF finishList, HandlerAt, loopVars, clientVars, HandlerStates
<1>17. ASSUME finishSync PROVE Goal
  <2>1. /\ h.pc = "list" /\ UNCHANGED <<reader, auth, udp, ready>>
        /\ \/ cstate' = [cstate EXCEPT ![e] = "Ready"] /\ h' = [h EXCEPT !.pc = "signal"]
           \/ sendFailed'
    BY <1>17 DEF finishSync, HandlerAt, Goes, loopVars
  <2>. QED BY <2>1 DEF HandlerStates
<1>18. ASSUME finishSignal PROVE Goal
  BY <1>18 DEF finishSignal, clientVars, Returns, Idle
<1>19. ASSUME NEW c \in Clients, NEW ok \in BOOLEAN, NEW to \in SUBSET Clients,
              handleUserState(c, ok, to) PROVE Goal
  BY <1>19 DEF handleUserState, Takes, HandlerAt
<1>20. ASSUME NEW c \in Clients, NEW ok \in BOOLEAN, NEW to \in SUBSET Clients,
              handleUserRemove(c, ok, to) PROVE Goal
  BY <1>20 DEF handleUserRemove, Takes, HandlerAt
<1>21. ASSUME NEW c \in Clients, NEW failed \in SUBSET Clients, voicebroadcast(c, failed)
       PROVE  Goal
  BY <1>21 DEF voicebroadcast, HandlerAt
<1>22. ASSUME NEW d \in Clients, voicebroadcastDrop(d) PROVE Goal
  BY <1>22 DEF voicebroadcastDrop, HandlerAt
<1>23. ASSUME NEW c \in Clients, NEW kind \in Kinds, NEW of \in 0..MaxSession,
              readMessage(c, kind, of) PROVE Goal
  BY <1>23 DEF readMessage, clientVars
<1>24. CASE UNCHANGED <<reader, auth, udp, ready, cstate, h>>
  BY <1>24
<1>. QED BY <1>1, <1>2, <1>3, <1>4, <1>5, <1>6, <1>7, <1>8, <1>9, <1>10, <1>11, <1>12,
            <1>13, <1>14, <1>15,
   <1>16, <1>17, <1>18, <1>19, <1>20, <1>21, <1>22, <1>23, <1>24, StepCases, ZenonT(30)
     DEF disconnectClaim,
       disconnectLeave, disconnectTell, PeerLeaves, clientVars, loopVars, serverVars, histVars

\* As long as no send has failed, nobody disconnects a client that the handler is
\* finishing with.
LEMMA FinishingUncalled ==
    ASSUME TypeOK, TornDown, HandlerSound, Wanted, Newcomers, Smooth, ~sendFailed, ~sendFailed',
           Next, NEW e \in Clients, Finishing(e), Finishing(e)'
    PROVE  ~disconnected'[e] /\ ~udpClosed'[e] /\ \A g \in Goroutines : dis'[g].c # e
<1>1. /\ ~disconnected[e] /\ ~udpClosed[e] /\ \A g \in Goroutines : dis[g].c # e
      /\ reader[e] = "wait" /\ auth[e] = "exit" /\ udp[e] = "receive"
      /\ h.pc \in {"enter", "list", "signal"} /\ h'.pc \in {"enter", "list", "signal"}
  BY DEF Smooth, Undisturbed, Finishing
<1>2. ~disconnected'[e]
  <2>1. ASSUME NEW g \in Goroutines, disconnectClaim(g) PROVE ~disconnected'[e]
    BY <1>1, <2>1, SMT DEF TypeOK, disconnectClaim
  <2>. QED BY <1>1, <2>1, ChangedBy
<1>3. ~udpClosed'[e]
  <2>1. ASSUME NEW g \in Goroutines, disconnectClose(g) PROVE ~udpClosed'[e]
    BY <1>1, <2>1, ZenonT(40), ZenonT(30) DEF TypeOK, disconnectClose
  <2>. QED BY <1>1, <2>1, ChangedBy
<1>4. ASSUME NEW f \in Goroutines PROVE dis'[f].c # e
  <2>. DEFINE Goal == dis'[f].c # e
  <2>0. \A g, c, kicked : c # e /\ g \in Goroutines /\ Disconnects(g, c, kicked) => Goal
    BY <1>1, SMT DEF TypeOK, Disconnects
  <2>. HIDE DEF Goal
  <2>1. ASSUME NEW g \in Goroutines, disconnectClaim(g) PROVE Goal
    BY <2>1, <1>1, CallAfter DEF Goal, disconnectClaim
  <2>2. ASSUME NEW g \in Goroutines, disconnectLeave(g) PROVE Goal
    BY <2>2, <1>1, CallAfter DEF Goal, disconnectLeave
  <2>3. ASSUME NEW g \in Goroutines, NEW ok \in BOOLEAN, NEW to \in SUBSET Clients,
               disconnectTell(g, ok, to) PROVE Goal
    BY <2>3, <1>1, CallAfter DEF Goal, disconnectTell
  <2>4. ASSUME NEW g \in Goroutines, disconnectClose(g) PROVE Goal
    BY <2>4, <1>1, CallOver, SMT DEF Goal, NoCall
  <2>5. ASSUME NEW c \in Clients, readFails(c) PROVE Goal
    BY <2>5, <1>1, <2>0, GoroutineFacts DEF readFails
  <2>6. ASSUME NEW c \in Clients, udpPing(c) PROVE Goal
    BY <2>6, <1>1 DEF Goal, udpPing
  <2>7. ASSUME NEW c \in Clients, NEW kicked \in BOOLEAN, authFails(c, kicked) PROVE Goal
    BY <2>7, <1>1, <2>0, GoroutineFacts DEF authFails
  <2>8. ASSUME NEW c \in Clients, finishAuthenticate(c) PROVE Goal
    BY <2>8, <1>1 DEF finishAuthenticate, HandlerAt
  <2>9. ASSUME finishSync PROVE Goal
    <3>1. dis' = dis
      BY <2>9 DEF finishSync
    <3>. QED BY <1>1, <3>1 DEF Goal
  <2>10. ASSUME NEW c \in Clients, NEW ok \in BOOLEAN, NEW to \in SUBSET Clients,
                handleUserRemove(c, ok, to) PROVE Goal
    BY <2>10, <1>1 DEF handleUserRemove, Takes, HandlerAt
  <2>11. ASSUME NEW d \in Clients, voicebroadcastDrop(d) PROVE Goal
    BY <2>11, <1>1 DEF voicebroadcastDrop, HandlerAt
  <2>12. CASE dis' = dis
    BY <2>12, <1>1 DEF Goal
  <2>. QED BY <2>1, <2>2, <2>3, <2>4, <2>5, <2>6, <2>7, <2>8, <2>9, <2>10, <2>11, <2>12,
              StepCases, ZenonT(30)
              DEF Goal, handleIncomingClient, PeerLeaves, exchangeVersions,
                  readAuthenticate, readyClosed, afterReady, sendUdprecv, udpLegacy,
                  udpEnds, authSucceeds, finishEnter, finishList, finishSignal,
                  handleUserState, voicebroadcast, readMessage, clientVars, loopVars,
                  serverVars, histVars
<1>. QED BY <1>2, <1>3, <1>4

\* The handler disconnects nobody while it finishes an authentication without a failed
\* send, and the goroutine that refuses an authentication is the only other one to kick.
LEMMA SmoothStep ==
    ASSUME TypeOK, Numbered, Wanted, TornDown, HandlerSound, Newcomers, Smooth, Next
    PROVE  Smooth'
<1>. SUFFICES ASSUME ~sendFailed'
              PROVE  /\ h'.pc # "drop"
                     /\ h'.pc \in {"enter", "list", "signal"} => Undisturbed(h.c)'
                     /\ \A g \in Goroutines : dis'[g].pc # "none" /\ dis'[g].kicked =>
                                                  g = Handler \/ cstate'[dis'[g].c] # "Ready"
  BY DEF Smooth
<1>. h \in HandlerStates
  BY DEF TypeOK
<1>1. ~sendFailed
  BY HistoryGrows
<1>2. h.pc # "drop"
  BY <1>1, ZenonT(30) DEF Smooth
<1>3. h'.pc # "drop"
  <2>1. ASSUME NEW c \in Clients, finishAuthenticate(c) PROVE h'.pc # "drop"
    BY <2>1, <1>2 DEF HandlerStates, finishAuthenticate
  <2>2. ASSUME NEW ok \in BOOLEAN, NEW to \in SUBSET Clients, finishEnter(ok, to)
        PROVE  h'.pc # "drop"
    BY <2>2, <1>2 DEF HandlerStates, finishEnter
  <2>3. ASSUME NEW d \in Clients, finishList(d) PROVE h'.pc # "drop"
    BY <2>3, <1>2 DEF HandlerStates, finishList
  <2>4. ASSUME finishSync PROVE h'.pc # "drop"
    BY <2>4, <1>2 DEF HandlerStates, finishSync, Goes, Returns, Idle
  <2>5. ASSUME finishSignal PROVE h'.pc # "drop"
    BY <2>5, <1>2 DEF HandlerStates, finishSignal, Returns, Idle
  <2>6. ASSUME NEW c \in Clients, NEW failed \in SUBSET Clients, voicebroadcast(c, failed)
        PROVE  h'.pc # "drop"
    BY <2>6, <1>2 DEF HandlerStates, voicebroadcast
  <2>7. ASSUME NEW d \in Clients, voicebroadcastDrop(d) PROVE h'.pc # "drop"
    BY <2>7, <1>2 DEF HandlerStates, voicebroadcastDrop, HandlerAt
  <2>8. CASE h' = h
    BY <2>8, <1>2
  <2>. QED BY <2>1, <2>2, <2>3, <2>4, <2>5, <2>6, <2>7, <2>8, StepCases, ZenonT(30)
              DEF disconnectClaim, disconnectLeave, disconnectTell, disconnectClose,
                  handleIncomingClient, PeerLeaves, exchangeVersions, readAuthenticate,
                  readyClosed, afterReady, readFails, sendUdprecv, udpLegacy, udpPing,
                  udpEnds, authSucceeds, authFails, handleUserState, handleUserRemove,
                  readMessage, clientVars, loopVars, serverVars, histVars
<1>4. ASSUME NEW c \in Clients, finishAuthenticate(c), h'.pc \in {"enter", "list", "signal"}
      PROVE  h'.c = c /\ h'.pc = "enter" /\ Undisturbed(c)'
  <2>1. /\ auth[c] = "send" /\ auth' = [auth EXCEPT ![c] = "exit"] /\ h.pc = "idle"
        /\ UNCHANGED <<reader, udp, ready, cstate, disconnected, udpClosed, view>>
        /\ h' = h \/ (h' = [h EXCEPT !.pc = "enter", !.c = c] /\ dis' = dis)
    BY <1>4 DEF finishAuthenticate, HandlerAt, clientVars
  <2>2. h' = [h EXCEPT !.pc = "enter", !.c = c] /\ dis' = dis
    BY <1>4, <2>1
  <2>3. h'.c = c /\ h'.pc = "enter"
    BY <2>2 DEF HandlerStates
  <2>4. auth'[c] = "exit"
    BY <2>1, SMT DEF TypeOK
  <2>5. /\ reader[c] = "wait" /\ ready[c] = "made" /\ cstate[c] = "Authenticated" /\
           udp[c] = "receive"
        /\ Unknown(c)
    BY <2>1 DEF Newcomers, Authing
  <2>. QED BY <2>1, <2>2, <2>3, <2>4, <2>5 DEF Unknown, Undisturbed
<1>5. ASSUME ~(\E c \in Clients : finishAuthenticate(c)), NEW e \in Clients, Finishing(e)'
      PROVE  Finishing(e) /\ (h'.pc = "enter" => h.pc = "enter")
  <2>1. h'.pc \in {"enter", "list", "signal"} /\ h'.c = e
    BY <1>5 DEF Finishing
  <2>2. ASSUME NEW ok \in BOOLEAN, NEW to \in SUBSET Clients, finishEnter(ok, to)
        PROVE  Finishing(e) /\ (h'.pc = "enter" => h.pc = "enter")
    BY <2>2, <2>1 DEF HandlerStates, finishEnter, Finishing, HandlerAt
  <2>3. ASSUME NEW d \in Clients, finishList(d)
        PROVE  Finishing(e) /\ (h'.pc = "enter" => h.pc = "enter")
    BY <2>3, <2>1 DEF HandlerStates, finishList, Finishing, HandlerAt
  <2>4. ASSUME finishSync PROVE Finishing(e) /\ (h'.pc = "enter" => h.pc = "enter")
    <3>1. h.pc = "list" /\ (h' = [h EXCEPT !.pc = "signal"] \/ h' = Idle)
      BY <2>4 DEF finishSync, HandlerAt, Goes, Returns
    <3>. QED BY <2>1, <3>1, SMT DEF HandlerStates, Finishing, Idle
  <2>5. ASSUME finishSignal PROVE Finishing(e) /\ (h'.pc = "enter" => h.pc = "enter")
    BY <2>5, <2>1 DEF HandlerStates, finishSignal, Finishing, Returns, Idle
  <2>6. ASSUME NEW c \in Clients, NEW failed \in SUBSET Clients, voicebroadcast(c, failed)
        PROVE  Finishing(e) /\ (h'.pc = "enter" => h.pc = "enter")
    <3>1. h' = h \/ h' = [h EXCEPT !.pc = "drop", !.todo = failed]
      BY <2>6 DEF voicebroadcast
    <3>. QED BY <2>1, <3>1 DEF HandlerStates, Finishing
  <2>7. ASSUME NEW d \in Clients, voicebroadcastDrop(d)
        PROVE  Finishing(e) /\ (h'.pc = "enter" => h.pc = "enter")
    BY <2>7, <2>1 DEF HandlerStates, voicebroadcastDrop, Finishing, Idle
  <2>8. CASE h' = h
    BY <2>8, <2>1, ZenonT(30) DEF Finishing
  <2>. QED BY <1>5, <2>2, <2>3, <2>4, <2>5, <2>6, <2>7, <2>8, StepCases
              DEF disconnectClaim, disconnectLeave, disconnectTell, disconnectClose,
                  handleIncomingClient, PeerLeaves, exchangeVersions, readAuthenticate,
                  readyClosed, afterReady, readFails, sendUdprecv, udpLegacy, udpPing,
                  udpEnds, authSucceeds, authFails, handleUserState, handleUserRemove,
                  readMessage, clientVars, loopVars, serverVars, histVars
<1>6. ASSUME ~(\E c \in Clients : finishAuthenticate(c)), NEW e \in Clients, Finishing(e)'
      PROVE  h'.pc = "enter" => view'[e] = {}
  <2>. SUFFICES ASSUME h'.pc = "enter" PROVE view'[e] = {}
    OBVIOUS
  <2>0. h.pc = "enter" /\ h.c = e /\ view[e] = {}
    BY <1>1, <1>5, <1>6 DEF Finishing, Smooth, Undisturbed
  <2>1. ASSUME NEW g \in Goroutines, NEW ok \in BOOLEAN, NEW to \in SUBSET Clients,
               disconnectTell(g, ok, to) PROVE view'[e] = {}
    BY <2>1, <2>0 DEF disconnectTell, Broadcast
  <2>2. ASSUME NEW ok \in BOOLEAN, NEW to \in SUBSET Clients, finishEnter(ok, to)
        PROVE  view'[e] = {}
    BY <2>2, <2>0 DEF finishEnter, HandlerStates
  <2>3. ASSUME NEW d \in Clients, finishList(d) PROVE view'[e] = {}
    BY <2>3, <2>0 DEF finishList, HandlerAt
  <2>4. ASSUME NEW c \in Clients, NEW ok \in BOOLEAN, NEW to \in SUBSET Clients,
               handleUserState(c, ok, to) PROVE view'[e] = {}
    BY <2>4, <2>0 DEF handleUserState, Takes, HandlerAt
  <2>5. ASSUME NEW c \in Clients, NEW ok \in BOOLEAN, NEW to \in SUBSET Clients,
               handleUserRemove(c, ok, to) PROVE view'[e] = {}
    BY <2>5, <2>0 DEF handleUserRemove, Takes, HandlerAt
  <2>6. CASE view' = view
    BY <2>6, <2>0
  <2>. QED BY <1>6, <2>1, <2>2, <2>3, <2>4, <2>5, <2>6, StepCases, ZenonT(30)
              DEF disconnectClaim, disconnectLeave, disconnectClose, handleIncomingClient,
                  PeerLeaves, exchangeVersions, readAuthenticate, readyClosed, afterReady,
                  readFails, sendUdprecv, udpLegacy, udpPing, udpEnds, authSucceeds,
                  authFails, finishSync, finishSignal, voicebroadcast, voicebroadcastDrop,
                  readMessage, clientVars, loopVars, serverVars, histVars
<1>7. h'.pc \in {"enter", "list", "signal"} => Undisturbed(h.c)'
  <2>1. CASE \E c \in Clients : finishAuthenticate(c)
    BY <1>4, <2>1, SMT DEF Undisturbed
  <2>2. ASSUME ~(\E c \in Clients : finishAuthenticate(c)), h'.pc \in {"enter", "list",
               "signal"}
        PROVE  Undisturbed(h.c)'
    <3>1. PICK e : e = h'.c
      OBVIOUS
    <3>2. e \in Clients /\ Finishing(e)'
      BY <2>2, <3>1, HandlerSoundStep DEF HandlerSound, Finishing
    <3>3. Finishing(e)
      BY <1>5, <2>2, <3>2
    <3>4. /\ reader'[e] = "wait" /\ auth'[e] = "exit" /\ udp'[e] = "receive" /\
             ready'[e] = "made"
          /\ cstate'[e] = IF h'.pc = "signal" THEN "Ready" ELSE "Authenticated"
      BY <1>1, <3>2, <3>3, FinishingKept
    <3>5. ~disconnected'[e] /\ ~udpClosed'[e] /\ \A g \in Goroutines : dis'[g].c # e
      BY <1>1, <3>2, <3>3, FinishingUncalled
    <3>6. h'.pc = "enter" => view'[e] = {}
      BY <1>6, <2>2, <3>2
    <3>. QED BY <3>1, <3>4, <3>5, <3>6 DEF Undisturbed
  <2>. QED BY <2>1, <2>2
<1>8. ASSUME NEW f \in Goroutines, f # Handler, dis'[f].pc # "none", dis'[f].kicked
      PROVE  cstate'[dis'[f].c] # "Ready"
  <2>1. ASSUME dis[f].pc # "none", dis[f].kicked, dis[f].c = dis'[f].c
        PROVE  cstate'[dis'[f].c] # "Ready"
    <3>1. dis[f].c \in Clients /\ cstate[dis[f].c] # "Ready"
      BY <1>1, <1>8, <2>1 DEF TornDown, Smooth
    <3>2. ~Finishing(dis[f].c)
      BY <1>1 DEF Finishing, Smooth, Undisturbed
    <3>3. PICK d \in Clients : d = dis[f].c
      BY <3>1
    <3>4. CASE \E c \in Clients : finishAuthenticate(c)
      BY <2>1, <3>1, <3>4 DEF finishAuthenticate, clientVars
    <3>. QED BY <2>1, <3>1, <3>2, <3>3, <3>4, ReadyMoves
  <2>2. ASSUME NEW g \in Goroutines, DisconnectStep(g), f # g PROVE dis'[f] = dis[f]
    <3>1. CASE disconnectClaim(g)
      BY <2>2, <3>1, CallAfter, SMT DEF disconnectClaim
    <3>2. CASE disconnectLeave(g)
      BY <2>2, <3>2, CallAfter, SMT DEF disconnectLeave
    <3>3. ASSUME NEW ok \in BOOLEAN, NEW to \in SUBSET Clients, disconnectTell(g, ok, to)
          PROVE  dis'[f] = dis[f]
      BY <2>2, <3>3, CallAfter, SMT DEF disconnectTell
    <3>4. CASE disconnectClose(g)
      BY <2>2, <3>4, CallOver
    <3>. QED BY <2>2, <3>1, <3>2, <3>3, <3>4 DEF DisconnectStep
  <2>3. ASSUME DisconnectStep(f)
        PROVE  dis[f].pc # "none" /\ dis[f].kicked /\ dis[f].c = dis'[f].c
    <3>1. CASE disconnectClaim(f)
      BY <1>8, <3>1, CallAfter DEF disconnectClaim
    <3>2. CASE disconnectLeave(f)
      BY <1>8, <3>2, CallAfter DEF disconnectLeave
    <3>3. ASSUME NEW ok \in BOOLEAN, NEW to \in SUBSET Clients, disconnectTell(f, ok, to)
          PROVE  dis[f].pc # "none" /\ dis[f].kicked /\ dis[f].c = dis'[f].c
      BY <1>8, <3>3, CallAfter DEF disconnectTell
    <3>4. ~disconnectClose(f)
      BY <1>8, CallOver, SMT DEF NoCall
    <3>. QED BY <2>3, <3>1, <3>2, <3>3, <3>4 DEF DisconnectStep
  <2>4. ASSUME NEW g \in Goroutines, NEW c \in Clients, NEW kicked \in BOOLEAN,
               Begins(g, c, kicked)
        PROVE  cstate'[dis'[f].c] # "Ready"
    <3>1. CASE f = g
      BY <1>8, <2>4, <3>1, CallBegun DEF Begins
    <3>2. CASE f # g
      BY <1>8, <2>1, <2>4, <3>2, CallBegun, SMT
    <3>. QED BY <3>1, <3>2
  <2>5. CASE dis' = dis
    BY <1>8, <2>1, <2>5
  <2>6. ASSUME NEW g \in Goroutines, DisconnectStep(g) PROVE cstate'[dis'[f].c] # "Ready"
    BY <1>8, <2>1, <2>2, <2>3, <2>6, SMT
  <2>. QED BY <2>4, <2>5, <2>6, CallsMade
<1>. QED BY <1>3, <1>7, <1>8

\* userEnterChannel is called for a client that is there, and RemoveClient takes every
\* other one out of its channel after its flag was set.
LEMMA LeavingStep ==
    ASSUME TypeOK, Numbered, Wanted, TornDown, HandlerSound, Newcomers, Smooth, Leaving, Next
    PROVE  Leaving'
<1>. SUFFICES ASSUME ~sendFailed', NEW e \in Clients, inChannel'[e], disconnected'[e]
              PROVE  \E g \in Goroutines : dis'[g].pc = "leave" /\ dis'[g].c = e
  BY DEF Leaving
<1>. DEFINE Goal == \E g \in Goroutines : dis'[g].pc = "leave" /\ dis'[g].c = e
<1>1. ~sendFailed
  BY HistoryGrows
<1>2. ASSUME inChannel[e], disconnected[e]
      PROVE  \E g \in Goroutines : dis[g].pc = "leave" /\ dis[g].c = e
  BY <1>1, <1>2 DEF Leaving
<1>3. ASSUME NEW g \in Goroutines, disconnectClaim(g) PROVE Goal
  <2>1. /\ dis[g].pc = "claim" /\ inChannel' = inChannel
        /\ disconnected' = [disconnected EXCEPT ![dis[g].c] = TRUE]
    BY <1>3 DEF disconnectClaim
  <2>2. /\ dis'[g].pc = "leave" /\ dis'[g].c = dis[g].c
        /\ \A f \in Goroutines : f # g => dis'[f] = dis[f]
    BY <1>3, CallAfter DEF disconnectClaim
  <2>3. e = dis[g].c \/ disconnected[e]
    BY <2>1, SMT DEF TypeOK
  <2>. QED BY <1>2, <2>1, <2>2, <2>3
<1>4. ASSUME NEW g \in Goroutines, disconnectLeave(g) PROVE Goal
  <2>1. /\ dis[g].pc = "leave" /\ disconnected' = disconnected
        /\ inChannel' = [inChannel EXCEPT ![dis[g].c] = FALSE]
    BY <1>4 DEF disconnectLeave, channelRemoveClient
  <2>2. \A f \in Goroutines : f # g => dis'[f] = dis[f]
    BY <1>4, CallAfter DEF disconnectLeave
  <2>3. inChannel[e] /\ e # dis[g].c
    BY <2>1, SMT DEF TypeOK
  <2>. QED BY <1>2, <2>1, <2>2, <2>3
<1>5. ASSUME NEW ok \in BOOLEAN, NEW to \in SUBSET Clients, finishEnter(ok, to) PROVE Goal
  <2>1. /\ disconnected' = disconnected /\ dis' = dis
        /\ inChannel' = [inChannel EXCEPT ![h.c] = TRUE]
    BY <1>5 DEF finishEnter
  <2>2. ~disconnected[h.c]
    BY <1>1, <1>5 DEF finishEnter, HandlerAt, Smooth, Undisturbed
  <2>3. inChannel[e]
    BY <2>1, <2>2 DEF TypeOK
  <2>. QED BY <1>2, <2>1, <2>3
<1>6. ASSUME inChannel' = inChannel, disconnected' = disconnected,
             NEW g \in Goroutines, dis[g].pc # "leave", \A f \in Goroutines : f # g =>
               dis'[f] = dis[f]
      PROVE  Goal
  BY <1>2, <1>6
<1>7. ASSUME NEW g \in Goroutines, NEW ok \in BOOLEAN, NEW to \in SUBSET Clients,
             disconnectTell(g, ok, to)
      PROVE  Goal
  <2>1. inChannel' = inChannel /\ disconnected' = disconnected /\ dis[g].pc = "tell"
    BY <1>7 DEF disconnectTell, clientVars
  <2>. QED BY <1>6, <1>7, <2>1, CallAfter DEF disconnectTell
<1>8. ASSUME NEW g \in Goroutines, disconnectClose(g) PROVE Goal
  <2>1. inChannel' = inChannel /\ disconnected' = disconnected /\ dis[g].pc = "close"
    BY <1>8 DEF disconnectClose
  <2>. QED BY <1>6, <1>8, <2>1, CallOver
<1>9. ASSUME inChannel' = inChannel, disconnected' = disconnected,
             NEW g \in Goroutines, NEW c \in Clients, NEW kicked \in BOOLEAN,
               Begins(g, c, kicked)
      PROVE  Goal
  <2>1. dis[g].pc = "none"
    BY <1>9 DEF Begins
  <2>. QED BY <1>6, <1>9, <2>1, CallBegun
<1>10. CASE inChannel' = inChannel /\ disconnected' = disconnected /\ dis' = dis
  BY <1>2, <1>10
<1>. QED BY <1>3, <1>4, <1>5, <1>7, <1>8, <1>9, <1>10, CallsMade, ChangedBy DEF DisconnectStep

\* A client is torn down by one call, and its id is not issued before the others were
\* told, unless the history says so.
LEMMA IdsApartStep ==
    ASSUME TypeOK, Numbered, Wanted, TornDown, HandlerSound, Newcomers, IdsApart,
           LiveSessionsDistinct', Next
    PROVE  IdsApart'
<1>. DEFINE OneCall == \A f, g \in PastClaim : dis[f].c = dis[g].c => f = g
            Apart == \A c, d \in Holding : session[c] = session[d] => c = d
<1>. SUFFICES ASSUME TornDownOnce' PROVE OneCall' /\ (~reusedEarly' => Apart')
  BY DEF IdsApart
<1>0. OneCall /\ (~reusedEarly => Apart) /\ (reusedEarly => reusedEarly')
  BY HistoryGrows DEF IdsApart
<1>1. ASSUME PastClaim' \subseteq PastClaim, \A f \in PastClaim' : dis'[f].c = dis[f].c
      PROVE  OneCall'
  BY <1>0, <1>1
<1>2. ASSUME session' = session, disconnected' = disconnected,
             \A c \in Clients : Pending(c)' => Pending(c)
      PROVE  Apart' \/ reusedEarly'
  <2>1. Holding' \subseteq Holding
    BY <1>2 DEF Holding
  <2>. QED BY <1>0, <1>2, <2>1
<1>3. ASSUME NEW g \in Goroutines, disconnectClaim(g)
      PROVE  OneCall' /\ (~reusedEarly' => Apart')
  <2>1. PICK c \in Clients : c = dis[g].c
    BY <1>3, ClaimedLive
  <2>2. c \in Live /\ Live' = Live \ {c}
    BY <1>3, <2>1, ClaimedLive
  <2>3. /\ dis'[g].pc = "leave" /\ dis'[g].c = c
        /\ \A f \in Goroutines : f # g => dis'[f] = dis[f]
    BY <1>3, <2>1, CallAfter DEF disconnectClaim
  <2>4. \A f \in PastClaim : dis[f].c # c
    BY <2>2 DEF PastClaim, TornDown, Live
  <2>5. PastClaim' \subseteq PastClaim \cup {g} /\ \A f \in PastClaim' : f # g =>
        dis'[f].c = dis[f].c
    BY <2>3 DEF PastClaim
  <2>6. OneCall'
    BY <1>0, <2>3, <2>4, <2>5, SMT
  <2>7. session' = session
    BY <1>3 DEF disconnectClaim
  <2>8. \A e \in Clients : Pending(e)' => Pending(e) \/ e = c
    BY <2>3 DEF Pending
  <2>9. Holding' \subseteq Holding
    BY <2>2, <2>7, <2>8 DEF Holding, Live
  <2>. QED BY <1>0, <2>6, <2>7, <2>9
<1>4. ASSUME NEW g \in Goroutines, disconnectLeave(g)
      PROVE  OneCall' /\ (~reusedEarly' => Apart')
  <2>1. /\ dis[g].pc = "leave" /\ dis'[g].pc = "tell" /\ dis'[g].c = dis[g].c
        /\ \A f \in Goroutines : f # g => dis'[f] = dis[f]
    BY <1>4, CallAfter DEF disconnectLeave
  <2>2. session' = session /\ disconnected' = disconnected
    BY <1>4 DEF disconnectLeave
  <2>3. PastClaim' \subseteq PastClaim /\ \A f \in PastClaim' : dis'[f].c = dis[f].c
    BY <2>1 DEF PastClaim
  <2>4. \A c \in Clients : Pending(c)' => Pending(c)
    BY <2>1 DEF Pending
  <2>. QED BY <1>1, <1>2, <2>2, <2>3, <2>4
<1>5. ASSUME NEW g \in Goroutines, NEW ok \in BOOLEAN, NEW to \in SUBSET Clients,
             disconnectTell(g, ok, to)
      PROVE  OneCall' /\ (~reusedEarly' => Apart')
  <2>1. /\ dis[g].pc = "tell" /\ dis'[g].pc = "close" /\ dis'[g].c = dis[g].c
        /\ \A f \in Goroutines : f # g => dis'[f] = dis[f]
    BY <1>5, CallAfter DEF disconnectTell
  <2>2. session' = session /\ disconnected' = disconnected
    BY <1>5 DEF disconnectTell, clientVars
  <2>3. PastClaim' \subseteq PastClaim /\ \A f \in PastClaim' : dis'[f].c = dis[f].c
    BY <2>1 DEF PastClaim
  <2>4. \A c \in Clients : Pending(c)' => Pending(c)
    BY <2>1 DEF Pending
  <2>. QED BY <1>1, <1>2, <2>2, <2>3, <2>4
<1>6. ASSUME session' = session, disconnected' = disconnected, NEW g \in Goroutines,
             dis'[g].pc \in {"none", "claim"}, \A f \in Goroutines : f # g => dis'[f] = dis[f]
      PROVE  OneCall' /\ (~reusedEarly' => Apart')
  <2>1. PastClaim' \subseteq PastClaim /\ \A f \in PastClaim' : dis'[f].c = dis[f].c
    BY <1>6 DEF PastClaim
  <2>2. \A c \in Clients : Pending(c)' => Pending(c)
    BY <1>6 DEF Pending
  <2>. QED BY <1>1, <1>2, <1>6, <2>1, <2>2
<1>7. ASSUME NEW g \in Goroutines, disconnectClose(g)
      PROVE  OneCall' /\ (~reusedEarly' => Apart')
  <2>1. session' = session /\ disconnected' = disconnected
    BY <1>7 DEF disconnectClose
  <2>2. dis'[g].pc = "none" /\ \A f \in Goroutines : f # g => dis'[f] = dis[f]
    BY <1>7, CallOver, SMT DEF NoCall
  <2>. QED BY <1>6, <2>1, <2>2
<1>8. ASSUME NEW c \in Clients, handleIncomingClient(c)
      PROVE  OneCall' /\ (~reusedEarly' => Apart')
  <2>1. /\ session'[c] = Pool!NextId /\ Live' = Live \cup {c} /\ reader[c] = "off"
        /\ \A e \in Clients : e # c => session'[e] = session[e]
    BY <1>8, ConnectedLive
  <2>2. dis' = dis /\ disconnected' = disconnected
    BY <1>8 DEF handleIncomingClient
  <2>3. OneCall'
    BY <1>0, <2>2 DEF PastClaim
  <2>4. \A g \in Goroutines : dis[g].c # c
    BY <2>1 DEF Newcomers, Early, Unknown
  <2>5. ASSUME NEW e \in Holding', e # c, ~reusedEarly'
        PROVE  e \in Holding /\ session[e] # Pool!NextId
    <3>1. e \in Clients /\ session'[e] = session[e] /\ e \in Holding
      BY <2>1, <2>2, <2>5 DEF Holding, Pending
    <3>2. CASE ~disconnected[e]
      BY <1>8, <2>1, <2>5, <3>1, <3>2 DEF LiveSessionsDistinct, Live, Holding
    <3>3. CASE Pending(e)
      BY <1>8, <2>5, <3>1, <3>3 DEF Pending, handleIncomingClient
    <3>. QED BY <3>1, <3>2, <3>3 DEF Holding
  <2>6. Holding' \subseteq Clients
    BY DEF Holding
  <2>. QED BY <1>0, <2>1, <2>3, <2>5, <2>6
<1>9. CASE Settled
  <2>1. session' = session /\ disconnected' = disconnected
    BY <1>9 DEF Settled
  <2>2. CASE dis' = dis
    BY <1>1, <1>2, <2>1, <2>2 DEF PastClaim, Pending
  <2>3. ASSUME NEW g \in Goroutines, NEW c \in Clients, NEW kicked \in BOOLEAN,
               Begins(g, c, kicked)
        PROVE  OneCall' /\ (~reusedEarly' => Apart')
    BY <1>6, <2>1, <2>3, CallBegun
  <2>. QED BY <1>9, <2>2, <2>3 DEF Settled
<1>. QED BY <1>3, <1>4, <1>5, <1>7, <1>8, <1>9, StepKinds

-----------------------------------------------------------------------------
\* The server starts without a connection.
LEMMA ClientInit == Init => ClientInv
<1>. SUFFICES ASSUME Init PROVE ClientInv
  OBVIOUS
<1>1. HandshakeInv
  BY HandshakeInit
<1>2. Live = {} /\ Registered = {} /\ Recipients = {}
  BY DEF Init, Live, Registered, Recipients
<1>3. OneClientPerUser /\ LiveSessionsDistinct /\ Found
  BY <1>2 DEF Init, OneClientPerUser, LiveSessionsDistinct, Found
<1>4. PoolSound
  <2>1. DOMAIN unused = {}
    BY SMT DEF Init
  <2>. QED BY <1>2, <2>1, SMT DEF Init, PoolSound
<1>5. Smooth /\ Leaving
  BY DEF Init, NoCall, Idle, Smooth, Leaving
<1>6. IdsApart
  BY DEF Init, NoCall, IdsApart, PastClaim, Holding
<1>. QED BY <1>1, <1>3, <1>4, <1>5, <1>6 DEF ClientInv

\* Every step of every goroutine keeps the inductive invariant.
LEMMA ClientStep == ClientInv /\ [Next]_vars => ClientInv'
<1>1. ASSUME ClientInv, Next PROVE ClientInv'
  <2>. USE <1>1 DEF ClientInv, HandshakeInv
  <2>1. HandshakeInv'
    BY HandshakeStep
  <2>2. OneClientPerUser' /\ PoolSound' /\ LiveSessionsDistinct' /\ Found'
    BY OneClientStep, PoolSoundStep, FoundStep
  <2>3. Smooth' /\ Leaving'
    BY SmoothStep, LeavingStep
  <2>4. IdsApart'
    BY <2>2, IdsApartStep
  <2>. QED BY <2>1, <2>2, <2>3, <2>4
<1>2. ASSUME ClientInv, UNCHANGED vars PROVE ClientInv'
  <2>. UNCHANGED <<cstate, session, disconnected, ready, udpClosed, inChannel, reader, auth,
                   udp, dis, clients, cur, unused, h, view, teardowns, sendFailed,
                   reusedEarly>>
    BY <1>2 DEF vars, clientVars, loopVars, serverVars, histVars
  <2>. USE <1>2 DEF ClientInv
  <2>1. HandshakeInv'
    BY HandshakeStep
  <2>2. OneClientPerUser' /\ PoolSound' /\ LiveSessionsDistinct' /\ Found'
    BY SMT
       DEF OneClientPerUser, Registered, PoolSound, LiveSessionsDistinct, Found, Finishing,
           Live, TornDownOnce
  <2>3. Smooth' /\ Leaving'
    BY SMT DEF Smooth, Undisturbed, Leaving
  <2>4. IdsApart'
    BY DEF IdsApart, PastClaim, Holding, Pending, TornDownOnce
  <2>. QED BY <2>1, <2>2, <2>3, <2>4
<1>. QED BY <1>1, <1>2

-----------------------------------------------------------------------------
\* The inductive invariant holds in every reachable state.
THEOREM ClientInvariant == Spec => []ClientInv
BY ClientInit, ClientStep, PTL DEF Spec

\* For any number of clients: finishAuthenticate never lets a user that is in the
\* client map connect a second time.
THEOREM UserConnectsOnce == Spec => []OneClientPerUser
<1>1. ClientInv => OneClientPerUser
  BY DEF ClientInv
<1>. QED BY <1>1, ClientInvariant, PTL

\* For any number of clients and ids: two live connections never have the same
\* session id, as long as disconnect does not tear a client down twice.
THEOREM LiveSessionIdsDistinct == Spec => []LiveSessionsDistinct
<1>1. ClientInv => LiveSessionsDistinct
  BY DEF ClientInv
<1>. QED BY <1>1, ClientInvariant, PTL

\* A ready client is found in server.clients under its session id: no RemoveClient
\* deletes the entry of a client that was given the id again.
THEOREM ReadyClientsStayFound == Spec => []ReadyClientsFound
<1>1. ClientInv => ReadyClientsFound
  BY DEF ClientInv, Found, ReadyClientsFound
<1>. QED BY <1>1, ClientInvariant, PTL

\* Between calls no disconnected client is left in the channel's member map, if no
\* send has failed.
THEOREM ChannelHasNoGhosts == Spec => []NoGhostMembers
<1>1. ClientInv => NoGhostMembers
  <2>. SUFFICES ASSUME ClientInv, Quiet, ~sendFailed, NEW c \in Members PROVE ~disconnected[c]
    BY DEF NoGhostMembers
  <2>1. c \in Clients /\ inChannel[c]
    BY SMT DEF ClientInv, HandshakeInv, TypeOK, Members, Keyed
  <2>2. \A g \in Goroutines : dis[g].pc # "leave"
    BY DEF Quiet
  <2>. QED BY <2>1, <2>2 DEF ClientInv, Leaving
<1>. QED BY <1>1, ClientInvariant, PTL

-----------------------------------------------------------------------------
\* Third part: the rosters.

\* Who is there for the other clients, or was and they are still to be told.
Kicking(c) == dis[Handler].pc = "claim" /\ dis[Handler].kicked /\ dis[Handler].c = c
Untold(c) == \E g \in Goroutines :
                 dis[g].pc \in {"leave", "tell"} /\ dis[g].c = c /\ ~dis[g].kicked
Shown == {c \in Clients : \/ cstate[c] = "Ready" /\ (c \in Live \/ Untold(c)) /\ ~Kicking(c)
                          \/ h.pc = "list" /\ h.c = c}

\* The roster of c shows everybody who is there, apart from those in later, and
\* nobody who is not Shown.
Roster(c, later) == /\ \A d \in (Shown \cap Live) \ later : session[d] \in view[c]
                    /\ \A s \in view[c] : \E d \in Shown : session[d] = s
Rosters ==
    Running /\ ~sendFailed /\ ~reusedEarly /\ TornDownOnce =>
        /\ \A c \in Live : cstate[c] = "Ready" => Roster(c, {})
        /\ h.pc = "list" => Roster(h.c, h.todo)

\* The inductive invariant.
RosterInv == ClientInv /\ Rosters

-----------------------------------------------------------------------------
\* A UserState or UserRemove is sent to every client that keeps a roster.
LEMMA Audience ==
    ASSUME TypeOK, Found, Smooth, TornDownOnce, ~sendFailed, NEW v \in Live,
           cstate[v] = "Ready" \/ Finishing(v)
    PROVE  v \in Recipients
<1>1. v \in Clients /\ session[v] \in Sessions
  BY SMT DEF TypeOK, Live, Sessions
<1>2. clients[session[v]] = v
  BY DEF Found
<1>3. v \in Registered
  BY <1>1, <1>2 DEF Registered
<1>4. cstate[v] \in {"Authenticated", "Ready"}
  BY DEF Smooth, Undisturbed, Finishing
<1>. QED BY <1>3, <1>4 DEF Recipients

\* What a broadcast that does not fail tells everybody.
LEMMA ToldAll ==
    ASSUME NEW ok \in BOOLEAN, NEW to, NEW add, NEW remove, Broadcast(ok, to, add, remove),
           ~sendFailed', NEW v \in Clients, v \in Recipients
    PROVE  view'[v] = (view[v] \cup add) \ remove
<1>1. ok
  BY DEF Broadcast
<1>2. to = Recipients
  BY <1>1 DEF Broadcast, Reached
<1>. QED BY <1>2 DEF Broadcast

\* The two halves of Rosters.
ReadyRosters == \A c \in Live : cstate[c] = "Ready" => Roster(c, {})
ListRoster == h.pc = "list" => Roster(h.c, h.todo)

\* The rosters stay right if neither they nor those who are shown in them change.
LEMMA RostersFrame ==
    ASSUME ReadyRosters /\ ListRoster, view' = view, Shown' = Shown,
           \A d \in Shown : session'[d] = session[d] /\ (d \in Live' => d \in Live),
           \A c \in Live' : cstate'[c] = "Ready" => c \in Live /\ cstate[c] = "Ready",
           h'.pc = "list" => h.pc = "list" /\ h'.c = h.c /\ h'.todo = h.todo
    PROVE  ReadyRosters' /\ ListRoster'
<1>1. ReadyRosters'
  BY SMT DEF ReadyRosters, Roster
<1>2. ListRoster'
  BY DEF ListRoster, Roster
<1>. QED BY <1>1, <1>2

\* A call that begins hides nobody, unless it is a kick.
LEMMA SettledShown ==
    ASSUME TypeOK, Settled, ~Kicks, NEW d \in Clients, cstate'[d] = "Ready"
    PROVE  /\ Kicking(d)' <=> Kicking(d)
           /\ Untold(d)' <=> Untold(d)
           /\ d \in Live' <=> d \in Live
<1>1. d \in Live' <=> d \in Live
  BY DEF Settled, Live
<1>2. CASE dis' = dis
  BY <1>1, <1>2 DEF Kicking, Untold
<1>3. ASSUME NEW g \in Goroutines, NEW c \in Clients, NEW kicked \in BOOLEAN,
             Begins(g, c, kicked)
      PROVE  (Kicking(d)' <=> Kicking(d)) /\ (Untold(d)' <=> Untold(d))
  <2>1. /\ dis'[g].pc = "claim" /\ dis'[g].c = c /\ dis'[g].kicked = kicked
        /\ \A f \in Goroutines : f # g => dis'[f] = dis[f]
    BY <1>3, CallBegun
  <2>2. dis[g].pc = "none" /\ (kicked => cstate'[c] # "Ready")
    BY <1>3 DEF Begins
  <2>3. Kicking(d)' <=> Kicking(d)
    BY <2>1, <2>2, GoroutineFacts DEF Kicking
  <2>4. Untold(d)' <=> Untold(d)
    BY <2>1, <2>2 DEF Untold
  <2>. QED BY <2>3, <2>4
<1>. QED BY <1>1, <1>2, <1>3 DEF Settled

\* None of the steps that touch a roster, or who is ready, or the list being sent.
Untouched == /\ ~(\E ok \in BOOLEAN, to \in SUBSET Clients : finishEnter(ok, to))
             /\ ~(\E d \in Clients : finishList(d))
             /\ ~finishSync /\ ~Kicks
             /\ ~(\E g \in Goroutines, ok \in BOOLEAN, to \in SUBSET Clients :
                      disconnectTell(g, ok, to))

\* What the other steps leave alone.
LEMMA UntouchedSame ==
    ASSUME TypeOK, Newcomers, Next, Untouched
    PROVE  /\ \A e \in Clients : cstate'[e] = "Ready" <=> cstate[e] = "Ready"
           /\ (h'.pc = "list" <=> h.pc = "list") /\ (h.pc = "list" => h' = h)
           /\ view' = view
<1>. h \in HandlerStates
  BY DEF TypeOK
<1>1. ASSUME NEW e \in Clients PROVE cstate'[e] = "Ready" <=> cstate[e] = "Ready"
  <2>1. ASSUME NEW c \in Clients, exchangeVersions(c)
        PROVE  cstate'[e] = "Ready" <=> cstate[e] = "Ready"
    <3>1. cstate[c] # "Ready"
      BY <2>1 DEF exchangeVersions, Newcomers, Early, Unknown
    <3>. QED BY <2>1, <3>1, SMT DEF exchangeVersions, TypeOK
  <2>2. ASSUME NEW c \in Clients, authSucceeds(c)
        PROVE  cstate'[e] = "Ready" <=> cstate[e] = "Ready"
    <3>1. cstate[c] # "Ready"
      BY <2>2 DEF authSucceeds, Newcomers, Authing, Unknown
    <3>. QED BY <2>2, <3>1 DEF authSucceeds, TypeOK
  <2>3. CASE cstate' = cstate
    BY <2>3
  <2>. QED BY <2>1, <2>2, <2>3, StepCases
              DEF Untouched, disconnectClaim, disconnectLeave, disconnectTell,
                  disconnectClose, handleIncomingClient, PeerLeaves, readAuthenticate,
                  readyClosed, afterReady, readFails, sendUdprecv, udpLegacy, udpPing,
                  udpEnds, authFails, finishAuthenticate, finishEnter, finishList,
                  finishSignal, handleUserState, handleUserRemove, voicebroadcast,
                  voicebroadcastDrop, readMessage, clientVars, loopVars, serverVars,
                  histVars
<1>2. (h'.pc = "list" <=> h.pc = "list") /\ (h.pc = "list" => h' = h)
  <2>1. ASSUME NEW c \in Clients, finishAuthenticate(c)
        PROVE  (h'.pc = "list" <=> h.pc = "list") /\ (h.pc = "list" => h' = h)
    BY <2>1 DEF finishAuthenticate, HandlerAt, HandlerStates
  <2>2. ASSUME finishSignal
        PROVE  (h'.pc = "list" <=> h.pc = "list") /\ (h.pc = "list" => h' = h)
    BY <2>2 DEF finishSignal, HandlerAt, Returns, Idle
  <2>3. ASSUME NEW c \in Clients, NEW failed \in SUBSET Clients, voicebroadcast(c, failed)
        PROVE  (h'.pc = "list" <=> h.pc = "list") /\ (h.pc = "list" => h' = h)
    <3>1. h.pc = "idle" /\ (h' = h \/ h' = [h EXCEPT !.pc = "drop", !.todo = failed])
      BY <2>3 DEF voicebroadcast, HandlerAt
    <3>. QED BY <3>1 DEF HandlerStates
  <2>4. ASSUME NEW d \in Clients, voicebroadcastDrop(d)
        PROVE  (h'.pc = "list" <=> h.pc = "list") /\ (h.pc = "list" => h' = h)
    BY <2>4 DEF voicebroadcastDrop, HandlerAt, Idle, HandlerStates
  <2>5. CASE h' = h
    BY <2>5
  <2>. QED BY <2>1, <2>2, <2>3, <2>4, <2>5, StepCases
              DEF Untouched, disconnectClaim, disconnectLeave, disconnectTell,
                  disconnectClose, handleIncomingClient, PeerLeaves, exchangeVersions,
                  readAuthenticate, readyClosed, afterReady, readFails, sendUdprecv,
                  udpLegacy, udpPing, udpEnds, authSucceeds, authFails, handleUserState,
                  handleUserRemove, readMessage, clientVars, loopVars, serverVars, histVars
<1>3. view' = view
  <2>1. ASSUME NEW c \in Clients, NEW ok \in BOOLEAN, NEW to \in SUBSET Clients,
               handleUserState(c, ok, to) PROVE view' = view
    <3>1. CASE UNCHANGED view
      BY <3>1
    <3>2. CASE Broadcast(ok, to, {}, {})
      <4>1. \A v \in Clients : (view[v] \cup {}) \ {} = view[v]
        OBVIOUS
      <4>2. view = [v \in Clients |-> view[v]]
        BY DEF TypeOK
      <4>. QED BY <3>2, <4>1, <4>2 DEF Broadcast
    <3>. QED BY <2>1, <3>1, <3>2 DEF handleUserState, UserStateBroadcast
  <2>2. CASE view' = view
    BY <2>2
  <2>. QED BY <2>1, <2>2, StepCases
              DEF Untouched, Kicks, disconnectClaim, disconnectLeave, disconnectClose,
                  handleIncomingClient, PeerLeaves, exchangeVersions, readAuthenticate,
                  readyClosed, afterReady, readFails, sendUdprecv, udpLegacy, udpPing,
                  udpEnds, authSucceeds, authFails, finishAuthenticate, finishSync,
                  finishSignal, voicebroadcast, voicebroadcastDrop, readMessage, clientVars,
                  loopVars, serverVars, histVars
<1>. QED BY <1>1, <1>2, <1>3

\* Every client that is there is told who comes and who goes.
LEMMA RostersStep == ASSUME RosterInv, Next, LiveSessionsDistinct' PROVE Rosters'
<1>. SUFFICES ASSUME Running', ~sendFailed', ~reusedEarly', TornDownOnce'
              PROVE  ReadyRosters' /\ ListRoster'
  BY DEF Rosters, ReadyRosters, ListRoster
<1>. USE DEF HandshakeInv, ClientInv, RosterInv
<1>0. Running /\ ~sendFailed /\ ~reusedEarly /\ TornDownOnce
  BY HistoryGrows
<1>. Live \subseteq Clients /\ Shown \subseteq Clients
  BY DEF Live, Shown
<1>1. ReadyRosters /\ ListRoster
  BY <1>0 DEF Rosters, ReadyRosters, ListRoster
<1>2. \A v \in Live : cstate[v] = "Ready" \/ Finishing(v) => v \in Recipients
  BY <1>0, Audience
<1>3. \A f, g \in PastClaim : dis[f].c = dis[g].c => f = g
  BY <1>0 DEF IdsApart
<1>4. \A c, d \in Holding : session[c] = session[d] => c = d
  BY <1>0 DEF IdsApart
<1>5. h.pc \in {"enter", "list", "signal"} => h.c \in Live /\
      cstate[h.c] = (IF h.pc = "signal" THEN "Ready" ELSE "Authenticated")
  <2>1. h.c \in Clients => (session[h.c] # 0)
    BY NamedNumbered, SMT DEF Sessions
  <2>. QED BY <1>0, <2>1 DEF Smooth, Undisturbed, HandlerSound, Live
<1>6. ASSUME UNCHANGED <<session, cstate, h, view>>, Live' \subseteq Live, Shown' = Shown
      PROVE  ReadyRosters' /\ ListRoster'
  BY <1>1, <1>6, RostersFrame
<1>7. ASSUME NEW g \in Goroutines, disconnectClaim(g) PROVE ReadyRosters' /\ ListRoster'
  <2>1. PICK c \in Clients : c = dis[g].c
    BY <1>7, ClaimedLive
  <2>2. c \in Live /\ Live' = Live \ {c}
    BY <1>7, <2>1, ClaimedLive
  <2>3. UNCHANGED <<session, cstate, h, view>> /\ dis[g].pc = "claim"
    BY <1>7 DEF disconnectClaim
  <2>4. /\ dis'[g].pc = "leave" /\ dis'[g].c = c /\ dis'[g].kicked = dis[g].kicked
        /\ \A f \in Goroutines : f # g => dis'[f] = dis[f]
    BY <1>7, <2>1, CallAfter DEF disconnectClaim
  <2>5. dis[g].kicked => g = Handler \/ cstate[c] # "Ready"
    BY <1>0, <2>1, <2>3 DEF Smooth
  <2>6. ~Untold(c)
    BY <2>2 DEF Untold, TornDown, Live
  <2>7. ASSUME NEW d \in Clients, d # c
        PROVE  (Untold(d)' <=> Untold(d)) /\ (Kicking(d)' <=> Kicking(d)) /\
          (d \in Live' <=> d \in Live)
    <3>1. Untold(d)' <=> Untold(d)
      BY <2>1, <2>3, <2>4, <2>7 DEF Untold
    <3>2. Kicking(d)' <=> Kicking(d)
      BY <2>1, <2>3, <2>4, <2>7, GoroutineFacts DEF Kicking
    <3>. QED BY <2>2, <2>7, <3>1, <3>2
  <2>8. cstate[c] = "Ready" => ((Untold(c)' /\ ~Kicking(c)') <=> ~Kicking(c))
    <3>1. CASE dis[g].kicked /\ g = Handler
      <4>1. Kicking(c)
        BY <2>1, <2>3, <3>1 DEF Kicking
      <4>2. ~Untold(c)'
        BY <2>4, <2>6, <3>1 DEF Untold
      <4>. QED BY <4>1, <4>2
    <3>2. CASE ~dis[g].kicked
      <4>1. Untold(c)'
        BY <2>4, <3>2 DEF Untold
      <4>2. Kicking(c)' <=> Kicking(c)
        BY <2>3, <2>4, <3>2, GoroutineFacts DEF Kicking
      <4>. QED BY <4>1, <4>2
    <3>. QED BY <2>5, <3>1, <3>2
  <2>9. ASSUME NEW d \in Clients PROVE d \in Shown' <=> d \in Shown
    <3>1. CASE d = c
      BY <2>2, <2>3, <2>6, <2>8, <3>1 DEF Shown
    <3>2. CASE d # c
      BY <2>3, <2>7, <3>2 DEF Shown
    <3>. QED BY <3>1, <3>2
  <2>10. Shown' = Shown
    BY <2>9 DEF Shown
  <2>. QED BY <1>6, <2>2, <2>3, <2>10
<1>8. ASSUME UNCHANGED <<session, cstate, h, view, disconnected>>,
             \A d \in Clients : (Untold(d)' <=> Untold(d)) /\ (Kicking(d)' <=> Kicking(d))
      PROVE  ReadyRosters' /\ ListRoster'
  <2>1. Live' = Live
    BY <1>8 DEF Live
  <2>2. Shown' = Shown
    BY <1>8, <2>1 DEF Shown
  <2>. QED BY <1>6, <1>8, <2>1, <2>2
<1>9. ASSUME NEW g \in Goroutines, disconnectLeave(g) PROVE ReadyRosters' /\ ListRoster'
  <2>1. UNCHANGED <<session, cstate, h, view, disconnected>> /\ dis[g].pc = "leave"
    BY <1>9 DEF disconnectLeave
  <2>2. /\ dis'[g].pc = "tell" /\ dis'[g].c = dis[g].c /\ dis'[g].kicked = dis[g].kicked
        /\ \A f \in Goroutines : f # g => dis'[f] = dis[f]
    BY <1>9, CallAfter DEF disconnectLeave
  <2>3. \A d \in Clients : Untold(d)' <=> Untold(d)
    BY <2>1, <2>2, SMT DEF Untold
  <2>4. \A d \in Clients : Kicking(d)' <=> Kicking(d)
    BY <2>1, <2>2, GoroutineFacts DEF Kicking
  <2>. QED BY <1>8, <2>1, <2>3, <2>4
<1>10. ASSUME NEW g \in Goroutines, disconnectClose(g) PROVE ReadyRosters' /\ ListRoster'
  <2>1. UNCHANGED <<session, cstate, h, view, disconnected>> /\ dis[g].pc = "close"
    BY <1>10 DEF disconnectClose
  <2>2. dis'[g].pc = "none" /\ \A f \in Goroutines : f # g => dis'[f] = dis[f]
    BY <1>10, CallOver, SMT DEF NoCall
  <2>3. \A d \in Clients : Untold(d)' <=> Untold(d)
    BY <2>1, <2>2 DEF Untold
  <2>4. \A d \in Clients : Kicking(d)' <=> Kicking(d)
    BY <2>1, <2>2, GoroutineFacts DEF Kicking
  <2>. QED BY <1>8, <2>1, <2>3, <2>4
<1>11. ASSUME NEW c \in Clients, handleIncomingClient(c) PROVE ReadyRosters' /\ ListRoster'
  <2>1. /\ Live' = Live \cup {c} /\ reader[c] = "off"
        /\ \A e \in Clients : e # c => session'[e] = session[e]
    BY <1>11, ConnectedLive
  <2>2. UNCHANGED <<cstate, h, view, dis>>
    BY <1>11 DEF handleIncomingClient
  <2>3. cstate[c] # "Ready" /\ h.c # c
    BY <2>1 DEF Newcomers, Early, Unknown
  <2>4. c \notin Shown
    BY <2>3 DEF Shown
  <2>5. \A d \in Clients : (Untold(d)' <=> Untold(d)) /\ (Kicking(d)' <=> Kicking(d))
    BY <2>2 DEF Untold, Kicking
  <2>6. Shown' = Shown
    BY <2>1, <2>2, <2>3, <2>5 DEF Shown
  <2>. QED BY <1>1, <2>1, <2>2, <2>3, <2>4, <2>6, RostersFrame
<1>12. ASSUME NEW g \in Goroutines, NEW ok \in BOOLEAN, NEW to \in SUBSET Clients,
              disconnectTell(g, ok, to)
       PROVE  ReadyRosters' /\ ListRoster'
  <2>1. PICK c \in Clients : c = dis[g].c
    BY <1>12 DEF TornDown, disconnectTell
  <2>2. UNCHANGED <<session, cstate, h, disconnected>> /\ dis[g].pc = "tell" /\ disconnected[c]
    BY <1>12, <2>1 DEF disconnectTell, clientVars, TornDown
  <2>3. /\ dis'[g].pc = "close" /\ dis'[g].c = c /\ dis'[g].kicked = dis[g].kicked
        /\ \A f \in Goroutines : f # g => dis'[f] = dis[f]
    BY <1>12, <2>1, CallAfter DEF disconnectTell
  <2>4. Live' = Live /\ c \notin Live
    BY <2>2 DEF Live
  <2>5. \A d \in Clients : Kicking(d)' <=> Kicking(d)
    BY <2>2, <2>3, GoroutineFacts DEF Kicking
  <2>6. \A d \in Clients : d # c => (Untold(d)' <=> Untold(d))
    BY <2>1, <2>2, <2>3 DEF Untold
  <2>7. \A f \in Goroutines : dis[f].pc \in {"leave", "tell"} /\ dis[f].c = c => f = g
    BY <1>3, <2>1, <2>2 DEF PastClaim
  <2>8. ~Untold(c)'
    BY <2>3, <2>7 DEF Untold
  <2>9. h.pc = "list" => h.c # c
    BY <1>5, <2>4
  <2>10. Shown' = Shown \ {c}
    BY <2>2, <2>4, <2>5, <2>6, <2>8, <2>9 DEF Shown
  <2>11. CASE ~TellsOthers(c, dis[g].kicked)
    <3>1. view' = view
      BY <1>12, <2>1, <2>11 DEF disconnectTell
    <3>2. c \notin Shown
      BY <2>4, <2>7, <2>9, <2>11 DEF Shown, Untold, TellsOthers
    <3>3. Shown' = Shown
      BY <2>10, <3>2
    <3>. QED BY <1>6, <2>2, <2>4, <3>1, <3>3
  <2>12. CASE TellsOthers(c, dis[g].kicked)
    <3>1. Broadcast(ok, to, {}, {session[c]})
      BY <1>12, <2>1, <2>12 DEF disconnectTell
    <3>2. \A v \in Recipients : v \in Clients => view'[v] = (view[v] \cup {}) \ {session[c]}
      BY <3>1, ToldAll, SMT
    <3>3. \A v \in Recipients : v \in Clients => view'[v] = view[v] \ {session[c]}
      BY <3>2
    <3>4. c \in Holding
      <4>1. session[c] # 0
        BY <2>1, NamedNumbered, SMT DEF Sessions
      <4>. QED BY <2>1, <2>2, <4>1 DEF Holding, Pending
    <3>5. \A d \in Shown' \cap Live' : d \in Shown \cap Live /\ session[d] # session[c]
      BY <1>4, <2>4, <2>10, <3>4 DEF Holding, Live
    <3>6. ASSUME NEW v \in Recipients, v \in Clients, NEW later, Roster(v, later)
          PROVE  Roster(v, later)'
      BY <2>2, <2>10, <3>3, <3>5, <3>6, SMT DEF Roster
    <3>7. ReadyRosters'
      BY <1>1, <1>2, <2>2, <2>4, <3>6 DEF ReadyRosters
    <3>8. ListRoster'
      <4>1. CASE h.pc = "list"
        <5>1. h.c \in Recipients /\ h.c \in Clients
          BY <1>2, <1>5, <4>1 DEF Finishing
        <5>. QED BY <1>1, <2>2, <3>6, <4>1, <5>1 DEF ListRoster
      <4>. QED BY <2>2, <4>1 DEF ListRoster
    <3>. QED BY <3>7, <3>8
  <2>. QED BY <2>11, <2>12
<1>13. ASSUME Settled, ~Kicks, \A d \in Clients : cstate'[d] = "Ready" <=> cstate[d] = "Ready"
       PROVE  /\ session' = session /\ Live' = Live
              /\ \A d \in Clients : cstate[d] = "Ready" =>
                    (Kicking(d)' <=> Kicking(d)) /\ (Untold(d)' <=> Untold(d))
  <2>1. session' = session /\ Live' = Live
    BY <1>13 DEF Settled, Live
  <2>. QED BY <1>13, <2>1, SettledShown
<1>14. ASSUME NEW ok \in BOOLEAN, NEW to \in SUBSET Clients, finishEnter(ok, to)
       PROVE  ReadyRosters' /\ ListRoster'
  <2>1. PICK e \in Clients : e = h.c
    BY <1>14 DEF finishEnter, HandlerAt, HandlerSound
  <2>2. /\ h.pc = "enter" /\ h' = [h EXCEPT !.pc = "list", !.todo = Registered \ {e}]
        /\ UNCHANGED <<session, cstate, dis, disconnected>>
        /\ Broadcast(ok, to, {session[e]}, {})
    BY <1>14, <2>1 DEF finishEnter, HandlerAt
  <2>3. h'.pc = "list" /\ h'.c = e /\ h'.todo = Registered \ {e}
    BY <2>1, <2>2 DEF TypeOK, HandlerStates
  <2>4. e \in Live /\ cstate[e] = "Authenticated" /\ view[e] = {}
    BY <1>0, <1>5, <2>1, <2>2 DEF Smooth, Undisturbed
  <2>5. Live' = Live
    BY <2>2 DEF Live
  <2>6. \A d \in Clients : (Untold(d)' <=> Untold(d)) /\ (Kicking(d)' <=> Kicking(d))
    BY <2>2 DEF Untold, Kicking
  <2>7. Shown' = Shown \cup {e}
    BY <2>2, <2>3, <2>5, <2>6 DEF Shown
  <2>8. \A v \in Recipients : v \in Clients => view'[v] = (view[v] \cup {session[e]}) \ {}
    BY <2>2, ToldAll, SMT
  <2>9. \A v \in Recipients : v \in Clients => view'[v] = view[v] \cup {session[e]}
    BY <2>8
  <2>10. ReadyRosters'
    <3>1. ASSUME NEW v \in Live, cstate[v] = "Ready" PROVE Roster(v, {})'
      <4>1. v \in Recipients /\ Roster(v, {})
        BY <1>1, <1>2, <3>1 DEF ReadyRosters
      <4>2. view'[v] = view[v] \cup {session[e]}
        BY <2>9, <4>1
      <4>. QED BY <2>2, <2>5, <2>7, <4>1, <4>2 DEF Roster
    <3>. QED BY <2>2, <2>5, <3>1 DEF ReadyRosters
  <2>11. view'[e] = {session[e]}
    <3>1. e \in Recipients
      BY <1>2, <2>1, <2>2, <2>4 DEF Finishing
    <3>. QED BY <2>4, <2>9, <3>1
  <2>12. ASSUME NEW d \in Shown, d \in Live PROVE d \in Registered
    <3>1. cstate[d] = "Ready"
      BY <2>2, <2>12 DEF Shown
    <3>. QED BY <1>2, <2>12, <3>1 DEF Recipients
  <2>13. ListRoster'
    <3>1. \A d \in (Shown' \cap Live') \ h'.todo : d = e
      BY <2>3, <2>5, <2>7, <2>12
    <3>. QED BY <2>2, <2>3, <2>7, <2>11, <3>1, SMT DEF ListRoster, Roster
  <2>. QED BY <2>10, <2>13
<1>15. ASSUME NEW d \in Clients, finishList(d) PROVE ReadyRosters' /\ ListRoster'
  <2>1. PICK e \in Clients : e = h.c
    BY <1>15 DEF finishList, HandlerAt, HandlerSound
  <2>2. /\ h.pc = "list" /\ d \in h.todo /\ h' = [h EXCEPT !.todo = @ \ {d}] /\
           dis[Handler].pc = "none"
        /\ UNCHANGED <<session, cstate, dis, disconnected>>
    BY <1>15 DEF finishList, HandlerAt, Free, clientVars
  <2>3. h'.pc = "list" /\ h'.c = e /\ h'.todo = h.todo \ {d}
    BY <2>1, <2>2 DEF TypeOK, HandlerStates
  <2>4. Live' = Live
    BY <2>2 DEF Live
  <2>5. \A f \in Clients : (Untold(f)' <=> Untold(f)) /\ (Kicking(f)' <=> Kicking(f))
    BY <2>2 DEF Untold, Kicking
  <2>6. Shown' = Shown
    BY <2>1, <2>2, <2>3, <2>4, <2>5 DEF Shown
  <2>7. cstate[e] = "Authenticated" /\ e \in Live
    BY <1>5, <2>1, <2>2
  <2>8. d # e
    BY <2>1, <2>2 DEF HandlerSound
  <2>9. Roster(e, h.todo)
    BY <1>1, <2>1, <2>2 DEF ListRoster
  <2>10. CASE cstate[d] # "Ready"
    <3>1. view' = view
      BY <1>15, <2>10 DEF finishList
    <3>2. d \notin Shown
      BY <2>1, <2>8, <2>10 DEF Shown
    <3>3. ReadyRosters'
      BY <1>1, <2>2, <2>4, <2>6, <3>1 DEF ReadyRosters, Roster
    <3>4. ListRoster'
      BY <2>2, <2>3, <2>4, <2>6, <2>9, <3>1, <3>2 DEF ListRoster, Roster
    <3>. QED BY <3>3, <3>4
  <2>11. CASE cstate[d] = "Ready"
    <3>1. inChannel[d] /\ view' = [view EXCEPT ![e] = @ \cup {session[d]}]
      BY <1>15, <2>1, <2>11 DEF finishList, Running
    <3>2. d \in Shown
      <4>1. ~Kicking(d)
        BY <2>2 DEF Kicking
      <4>2. CASE ~disconnected[d]
        <5>1. d \in Live
          BY <2>2, <4>2, NamedNumbered, SMT DEF Live, Sessions
        <5>. QED BY <2>11, <4>1, <5>1 DEF Shown
      <4>3. CASE disconnected[d]
        <5>1. PICK g \in Goroutines : dis[g].pc = "leave" /\ dis[g].c = d
          BY <1>0, <3>1, <4>3 DEF Leaving
        <5>2. ~dis[g].kicked
          BY <1>0, <2>2, <2>11, <5>1 DEF Smooth
        <5>3. Untold(d)
          BY <5>1, <5>2 DEF Untold
        <5>. QED BY <2>11, <4>1, <5>3 DEF Shown
      <4>. QED BY <4>2, <4>3
    <3>3. view'[e] = view[e] \cup {session[d]} /\ \A v \in Clients : v # e => view'[v] = view[v]
      BY <3>1 DEF TypeOK
    <3>4. ReadyRosters'
      BY <1>1, <2>2, <2>4, <2>6, <2>7, <3>3, SMT DEF ReadyRosters, Roster
    <3>5. ListRoster'
      BY <2>2, <2>3, <2>4, <2>6, <2>9, <3>2, <3>3, SMT DEF ListRoster, Roster
    <3>. QED BY <3>4, <3>5
  <2>. QED BY <2>10, <2>11
<1>16. CASE finishSync
  <2>1. PICK e \in Clients : e = h.c
    BY <1>16 DEF finishSync, HandlerAt, HandlerSound
  <2>2. /\ h.pc = "list" /\ h.todo = {} /\ cstate' = [cstate EXCEPT ![e] = "Ready"]
        /\ h' = [h EXCEPT !.pc = "signal"] /\ UNCHANGED <<session, dis, disconnected, view>>
    BY <1>16, <2>1 DEF finishSync, HandlerAt, Goes
  <2>3. h'.pc = "signal"
    BY <2>2 DEF TypeOK, HandlerStates
  <2>4. Live' = Live /\ e \in Live
    BY <1>5, <2>1, <2>2 DEF Live
  <2>5. \A d \in Clients : (Untold(d)' <=> Untold(d)) /\ (Kicking(d)' <=> Kicking(d))
    BY <2>2 DEF Untold, Kicking
  <2>6. cstate'[e] = "Ready" /\ \A d \in Clients : d # e => cstate'[d] = cstate[d]
    BY <2>2, SMT DEF TypeOK
  <2>7. ~Kicking(e)
    BY <1>0, <2>1, <2>2, GoroutineFacts DEF Kicking, Smooth, Undisturbed
  <2>8. Shown' = Shown
    BY <2>1, <2>2, <2>3, <2>4, <2>5, <2>6, <2>7, SMT DEF Shown
  <2>9. Roster(e, {})
    BY <1>1, <2>1, <2>2 DEF ListRoster
  <2>10. ReadyRosters'
    BY <1>1, <2>2, <2>4, <2>6, <2>8, <2>9, SMT DEF ReadyRosters, Roster
  <2>. QED BY <2>3, <2>10 DEF ListRoster
<1>17. ASSUME NEW c \in Clients, NEW ok \in BOOLEAN, NEW to \in SUBSET Clients,
              handleUserRemove(c, ok, to)
       PROVE  ReadyRosters' /\ ListRoster'
  <2>1. PICK t : t = clients[msg[c].of]
    OBVIOUS
  <2>2. /\ UNCHANGED <<session, cstate, h, disconnected>> /\ dis[Handler].pc = "none" /\
           h.pc = "idle"
        /\ msg[c].of \in Sessions
    BY <1>17 DEF handleUserRemove, Takes, HandlerAt, Free, clientVars, Wanted
  <2>3. Live' = Live
    BY <2>2 DEF Live
  <2>4. \A d \in Clients : ~Kicking(d)
    BY <2>2 DEF Kicking
  <2>5. CASE t = NoClient
    <3>1. view' = view /\ Disconnects(Handler, c, FALSE)
      BY <1>17, <2>1, <2>5 DEF handleUserRemove
    <3>2. \A d \in Clients : (Untold(d)' <=> Untold(d)) /\ ~Kicking(d)'
      BY <2>2, <3>1, GoroutineFacts, SMTT(40) DEF TypeOK, Disconnects, Untold, Kicking
    <3>. QED BY <1>8, <2>2, <2>4, <3>1, <3>2
  <2>6. CASE t # NoClient
    <3>1. Broadcast(ok, to, {}, {msg[c].of}) /\ (ok => Disconnects(Handler, t, TRUE))
      BY <1>17, <2>1, <2>6 DEF handleUserRemove
    <3>2. ok
      BY <3>1 DEF Broadcast
    <3>3. t \in Clients /\ session[t] = msg[c].of /\ ~disconnected[t]
      <4>1. t \in Clients
        BY <2>1, <2>2, <2>6 DEF TypeOK
      <4>. QED BY <2>1, <2>2, <4>1, SMT DEF Keyed
    <3>4. t \in Live
      BY <2>2, <3>3, SMT DEF Live, Sessions
    <3>5. dis' = [dis EXCEPT ![Handler] = [pc |-> "claim", c |-> t, kicked |-> TRUE]]
      BY <3>1, <3>2, <3>3 DEF Disconnects
    <3>6. /\ dis'[Handler].pc = "claim" /\ dis'[Handler].c = t /\ dis'[Handler].kicked
          /\ \A f \in Goroutines : f # Handler => dis'[f] = dis[f]
      BY <3>5, GoroutineFacts DEF TypeOK
    <3>7. \A d \in Clients : Kicking(d)' <=> d = t
      BY <3>6 DEF Kicking
    <3>8. \A d \in Clients : Untold(d)' <=> Untold(d)
      BY <2>2, <3>6 DEF Untold
    <3>9. Shown' = Shown \ {t}
      BY <2>2, <2>3, <2>4, <3>7, <3>8 DEF Shown
    <3>10. \A v \in Recipients : v \in Clients => view'[v] = (view[v] \cup {}) \ {session[t]}
      BY <3>1, <3>3, ToldAll, SMT
    <3>11. \A v \in Recipients : v \in Clients => view'[v] = view[v] \ {session[t]}
      BY <3>10
    <3>12. \A d \in Live : d # t => session[d] # session[t]
      BY <1>0, <3>4 DEF LiveSessionsDistinct
    <3>13. ASSUME NEW v \in Live, cstate[v] = "Ready" PROVE Roster(v, {})'
      <4>1. v \in Recipients /\ Roster(v, {})
        BY <1>1, <1>2, <3>13 DEF ReadyRosters
      <4>2. view'[v] = view[v] \ {session[t]}
        BY <3>11, <4>1
      <4>. QED BY <2>2, <2>3, <3>9, <3>12, <4>1, <4>2 DEF Roster
    <3>. QED BY <2>2, <2>3, <3>13 DEF ReadyRosters, ListRoster
  <2>. QED BY <2>5, <2>6
<1>18. CASE Settled /\ Untouched
  <2>1. /\ \A d \in Clients : cstate'[d] = "Ready" <=> cstate[d] = "Ready"
        /\ (h'.pc = "list" <=> h.pc = "list") /\ (h.pc = "list" => h' = h)
        /\ view' = view
    BY <1>18, UntouchedSame
  <2>2. /\ session' = session /\ Live' = Live
        /\ \A d \in Clients : cstate[d] = "Ready" =>
              (Kicking(d)' <=> Kicking(d)) /\ (Untold(d)' <=> Untold(d))
    BY <1>13, <1>18, <2>1 DEF Untouched
  <2>3. Shown' = Shown
    BY <2>1, <2>2 DEF Shown
  <2>. QED BY <1>1, <2>1, <2>2, <2>3, RostersFrame
<1>. QED BY <1>7, <1>9, <1>10, <1>11, <1>12, <1>14, <1>15, <1>16, <1>17, <1>18, StepKinds,
            SMT
            DEF Untouched, Kicks

-----------------------------------------------------------------------------
\* The server starts without a connection, and every step of every goroutine keeps
\* the rosters right.
THEOREM RosterInvariant == Spec => []RosterInv
<1>1. Init => Rosters
  <2>1. Init => Live = {}
    BY DEF Init, Live
  <2>. QED BY <2>1, SMT DEF Init, Idle, Rosters
<1>2. RosterInv /\ ClientInv' /\ [Next]_vars => Rosters'
  <2>1. ASSUME RosterInv, ClientInv', Next PROVE Rosters'
    <3>1. LiveSessionsDistinct'
      BY <2>1 DEF ClientInv
    <3>. QED BY <2>1, <3>1, RostersStep
  <2>2. ASSUME RosterInv, UNCHANGED vars PROVE Rosters'
    <3>1. UNCHANGED <<cstate, session, disconnected, dis, h, view, crashed, teardowns,
                      sendFailed, reusedEarly>>
      BY <2>2 DEF vars, clientVars, loopVars, serverVars, histVars
    <3>2. Live' = Live /\ Shown' = Shown
      BY <3>1 DEF Live, Shown, Untold, Kicking
    <3>. QED BY <2>2, <3>1, <3>2 DEF RosterInv, Rosters, Roster, Running, TornDownOnce
  <2>. QED BY <2>1, <2>2
<1>. QED BY <1>1, <1>2, ClientInvariant, PTL DEF Spec, RosterInv

\* Between calls the roster that every ready client was sent, by sendUserList and the
\* broadcasts of finishAuthenticate, RemoveClient and handleUserRemoveMessage, is the set
\* of the ready clients, if no send failed and no id was reused too early.
THEOREM RostersStayAccurate == Spec => []RostersAccurate
<1>1. RosterInv => RostersAccurate
  <2>. DEFINE there == {c \in Live : cstate[c] = "Ready"}
  <2>. SUFFICES ASSUME RosterInv, Quiet, ~sendFailed, ~reusedEarly, TornDownOnce,
                NEW c \in there
                PROVE  view[c] = {session[d] : d \in there}
    BY DEF RostersAccurate
  <2>1. Shown = there
    <3>1. \A d \in Clients : ~Untold(d) /\ ~Kicking(d)
      BY GoroutineFacts DEF Quiet, Untold, Kicking
    <3>. QED BY <3>1 DEF Quiet, Shown, Live
  <2>2. Roster(c, {})
    BY DEF RosterInv, Rosters, Quiet
  <2>3. there \subseteq Live
    OBVIOUS
  <2>4. \A d \in there : session[d] \in view[c]
    BY <2>1, <2>2, <2>3 DEF Roster
  <2>5. \A s \in view[c] : \E d \in there : session[d] = s
    BY <2>1, <2>2 DEF Roster
  <2>. QED BY <2>4, <2>5, SMT
<1>. QED BY <1>1, RosterInvariant, PTL
=============================================================================
