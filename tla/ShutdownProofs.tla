--------------------------- MODULE ShutdownProofs ---------------------------
(* The bookkeeping of the web listener and the end of the handler, for any     *)
(* number of connections and any length of the queue.                          *)
EXTENDS Shutdown, FiniteSetTheorems, TLAPS

USE ListenerAssumption, ShutdownAssumption

-----------------------------------------------------------------------------
\* The listener by itself.  A connection is open from its upgrade on and is not
\* closed before it is registered; once Close has returned, every connection in
\* the map is one that came late.
ListenerInv ==
    /\ serve \in [Conns -> {"none", "upgrade", "register", "queue", "end"}]
    /\ socket \in [Conns -> {"none", "open", "closing", "forgotten", "closed"}]
    /\ \A c \in Conns : /\ serve[c] \in {"none", "upgrade"} => socket[c] = "none"
                        /\ serve[c] = "register" => socket[c] = "open"
    /\ WaitGroupExact
    /\ toClose \subseteq {c \in Conns : serve[c] \in {"queue", "end"}}
    /\ closer = "returned" => conns \subseteq late

core == <<serve, socket, conns, closeWg, closer, toClose, late>>

\* The set of counted connections is finite, so that adding one to it or taking
\* one from it counts (closeWg.Add and closeWg.Done).
LEMMA CountedFinite == IsFiniteSet(Counted)
BY FS_Subset, Counted \subseteq Conns DEF Counted

\* Steps that leave the listener alone leave its invariant alone.
LEMMA ListenerFrame ==
    ListenerInv /\ UNCHANGED core => ListenerInv'
BY DEF ListenerInv, core, WaitGroupExact, Counted

\* Where no connection becomes or stops being counted, the wait group stays exact
\* if the map loses the connections that are forgotten.
LEMMA CountKept ==
    ASSUME WaitGroupExact, Counted' = Counted, closeWg' = closeWg,
           conns' = {c \in Counted : socket'[c] # "forgotten"}
    PROVE  WaitGroupExact'
BY DEF WaitGroupExact

\* ServeHTTP before it registers.
LEMMA ServeBegins ==
    ASSUME ListenerInv, NEW c \in Conns, serveCheck(c) \/ serveRefuse(c) \/ serveUpgrade(c)
    PROVE  ListenerInv'
<1>1. \A d \in Conns : d # c => serve'[d] = serve[d] /\ socket'[d] = socket[d]
  BY DEF ListenerInv, serveCheck, serveRefuse, serveUpgrade
<1>2. c \notin Counted /\ c \notin Counted'
  BY DEF ListenerInv, Counted, serveCheck, serveRefuse, serveUpgrade
<1>3. Counted' = Counted
  BY <1>1, <1>2 DEF Counted
<1>4. WaitGroupExact'
  <2>1. conns' = conns /\ closeWg' = closeWg
    BY DEF serveCheck, serveRefuse, serveUpgrade
  <2>2. conns' = {d \in Counted : socket'[d] # "forgotten"}
    BY <1>1, <1>2, <2>1 DEF ListenerInv, WaitGroupExact, Counted
  <2> QED BY <1>3, <2>1, <2>2, CountKept DEF ListenerInv
<1> QED
  BY <1>4 DEF ListenerInv, serveCheck, serveRefuse, serveUpgrade

\* Registration puts a connection into the map and counts it, under one lock.
LEMMA ServeRegisters ==
    ASSUME ListenerInv, NEW c \in Conns, serveRegister(c)
    PROVE  ListenerInv'
<1>1. \A d \in Conns : d # c => serve'[d] = serve[d]
  BY DEF ListenerInv, serveRegister
<1>2. c \notin Counted /\ socket[c] = "open" /\ socket' = socket /\ serve'[c] = "queue"
  BY DEF ListenerInv, Counted, serveRegister
<1>3. Counted' = Counted \cup {c}
  BY <1>1, <1>2 DEF Counted
<1>4. Cardinality(Counted') = Cardinality(Counted) + 1
  BY <1>2, <1>3, CountedFinite, FS_AddElement
<1>5. WaitGroupExact'
  <2>1. closeWg' = Cardinality(Counted')
    BY <1>4 DEF ListenerInv, WaitGroupExact, serveRegister
  <2>2. conns' = {d \in Counted' : socket'[d] # "forgotten"}
    BY <1>2, <1>3 DEF ListenerInv, WaitGroupExact, serveRegister
  <2> QED BY <2>1, <2>2 DEF WaitGroupExact
<1>6. closer' = "returned" => conns' \subseteq late'
  BY DEF ListenerInv, serveRegister
<1> QED
  BY <1>5, <1>6 DEF ListenerInv, serveRegister

\* A connection that is registered begins to be closed, by whomever: it is still
\* counted and in the map.
LEMMA ConnBegins ==
    ASSUME ListenerInv, NEW c \in Conns, serve[c] \in {"queue", "end"},
           socket' = Begins(c), serve' \in {serve, [serve EXCEPT ![c] = "end"]},
           conns' = conns, closeWg' = closeWg, closer' = closer, toClose' = toClose, late' = late
    PROVE  ListenerInv'
<1>1. /\ \A d \in Conns : d # c => serve'[d] = serve[d] /\ socket'[d] = socket[d]
      /\ serve'[c] \in {"queue", "end"}
      /\ socket[c] = "open" => socket'[c] = "closing"
      /\ socket[c] # "open" => socket'[c] = socket[c]
  BY DEF ListenerInv, Begins
<1>2. Counted' = Counted
  BY <1>1 DEF Counted, ListenerInv
<1>3. conns' = {d \in Counted : socket'[d] # "forgotten"}
  BY <1>1 DEF ListenerInv, WaitGroupExact, Counted
<1>4. WaitGroupExact'
  BY <1>2, <1>3, CountKept DEF ListenerInv
<1>5. /\ serve' \in [Conns -> {"none", "upgrade", "register", "queue", "end"}]
      /\ socket' \in [Conns -> {"none", "open", "closing", "forgotten", "closed"}]
  BY DEF ListenerInv, Begins
<1> QED
  BY <1>1, <1>4, <1>5 DEF ListenerInv

\* The queue takes a connection, which then has an owner to come.
LEMMA ServeQueues ==
    ASSUME ListenerInv, NEW c \in Conns, serveQueue(c)
    PROVE  ListenerInv'
<1>1. /\ \A d \in Conns : d # c => serve'[d] = serve[d]
      /\ serve[c] = "queue" /\ serve'[c] = "end" /\ socket' = socket
  BY DEF ListenerInv, serveQueue
<1>2. Counted' = Counted
  BY <1>1 DEF Counted
<1>3. WaitGroupExact'
  BY <1>1, <1>2 DEF ListenerInv, WaitGroupExact, serveQueue
<1> QED
  BY <1>1, <1>3 DEF ListenerInv, serveQueue

\* onClose: the map forgets the connection, then the wait group does.
LEMMA ConnForgets ==
    ASSUME ListenerInv, NEW c \in Conns, connForget(c)
    PROVE  ListenerInv'
<1>1. /\ \A d \in Conns : d # c => socket'[d] = socket[d]
      /\ socket[c] = "closing" /\ socket'[c] = "forgotten" /\ serve' = serve
  BY DEF ListenerInv, connForget
<1>2. Counted' = Counted
  BY <1>1 DEF Counted
<1>3. conns' = {d \in Counted : socket'[d] # "forgotten"}
  BY <1>1 DEF ListenerInv, WaitGroupExact, Counted, connForget
<1>4. WaitGroupExact'
  BY <1>2, <1>3, CountKept DEF ListenerInv, connForget
<1>5. serve[c] \notin {"none", "upgrade", "register"}
  BY <1>1 DEF ListenerInv
<1> QED
  BY <1>1, <1>4, <1>5 DEF ListenerInv, connForget

LEMMA ConnIsDone ==
    ASSUME ListenerInv, NEW c \in Conns, connDone(c)
    PROVE  ListenerInv'
<1>1. /\ \A d \in Conns : d # c => socket'[d] = socket[d]
      /\ socket[c] = "forgotten" /\ socket'[c] = "closed" /\ serve' = serve
  BY DEF ListenerInv, connDone
<1>2. serve[c] \in {"queue", "end"}
  BY <1>1 DEF ListenerInv
<1>3. c \in Counted /\ Counted' = Counted \ {c}
  BY <1>1, <1>2 DEF Counted
<1>4. Cardinality(Counted') = Cardinality(Counted) - 1
  BY <1>3, CountedFinite, FS_RemoveElement
<1>5. WaitGroupExact'
  <2>1. closeWg' = Cardinality(Counted')
    BY <1>4 DEF ListenerInv, WaitGroupExact, connDone
  <2>2. conns' = {d \in Counted' : socket'[d] # "forgotten"}
    BY <1>1, <1>3 DEF ListenerInv, WaitGroupExact, connDone, Counted
  <2> QED BY <2>1, <2>2 DEF WaitGroupExact
<1> QED
  BY <1>1, <1>2, <1>5 DEF ListenerInv, connDone

\* Close of the listener.  It returns when nothing is counted, so that the map is
\* empty.
LEMMA ListenerCloses ==
    ASSUME ListenerInv, closeBegin \/ closeSnapshot \/ closeReturns
    PROVE  ListenerInv'
<1>1. CASE closeBegin \/ closeSnapshot
  BY <1>1 DEF ListenerInv, WaitGroupExact, Counted, closeBegin, closeSnapshot
<1>2. CASE closeReturns
  <2>1. Cardinality(Counted) = 0
    BY <1>2 DEF ListenerInv, WaitGroupExact, closeReturns
  <2>2. Counted = {}
    BY <2>1, CountedFinite, FS_EmptySet
  <2>3. conns = {}
    BY <2>2 DEF ListenerInv, WaitGroupExact
  <2> QED
    BY <1>2, <2>3 DEF ListenerInv, WaitGroupExact, Counted, closeReturns
<1> QED
  BY <1>1, <1>2

\* Close begins to close a connection of the map, which is a registered one, or
\* goes on to the next.
LEMMA ListenerClosesOne ==
    ASSUME ListenerInv, NEW c \in Conns, closeOne(c)
    PROVE  ListenerInv'
<1>1. serve[c] \in {"queue", "end"}
  BY DEF ListenerInv, closeOne
<1>2. CASE socket' = Begins(c) /\ toClose' = toClose
  BY <1>1, <1>2, ConnBegins DEF closeOne
<1>3. CASE socket' = socket /\ toClose' = toClose \ {c}
  BY <1>3 DEF ListenerInv, WaitGroupExact, Counted, closeOne
<1> QED
  BY <1>2, <1>3 DEF closeOne

-----------------------------------------------------------------------------
\* The accept loop and the clients hold only connections that ServeHTTP has handed
\* over.
HandedOver ==
    /\ sockets \in Seq(Conns)
    /\ \A i \in DOMAIN sockets : serve[sockets[i]] = "end"
    /\ web \in Conns => serve[web] = "end"
    /\ client \in [Conns -> {"none", "connected", "ready", "leaving", "removed", "gone"}]
    /\ \A c \in Conns : client[c] # "none" => serve[c] = "end"

\* Until the server is launched there is no handler and nobody is ready, and Stop
\* begins after Start has ended.  Once the handler has ended, the ready clients
\* are among those that Stop still has to disconnect.
HandlerEnds ==
    /\ start \in {"no", "listening", "failed", "broken"} =>
           handler = "none" /\ \A c \in Conns : client[c] # "ready"
    /\ stop # "no" => start \notin {"no", "listening"}
    /\ stop \in {"disconnect", "close", "freeze", "wait"} \cup Conns => handler = "ended"
    /\ stop \in {"disconnect"} \cup Conns => \A c \in Conns : client[c] = "ready" => c \in todo
    /\ stop \in Conns => client[stop] # "ready"
    /\ StopLeavesNobody

Inv == ListenerInv /\ HandedOver /\ HandlerEnds

LEMMA InitInv == Init => Inv
<1> SUFFICES ASSUME Init PROVE Inv
  OBVIOUS
<1> USE DEF Init, ListenerInit
<1>1. Counted = {}
  BY DEF Counted
<1>2. WaitGroupExact
  BY <1>1, FS_EmptySet DEF WaitGroupExact
<1>3. ListenerInv
  BY <1>2 DEF ListenerInv
<1>4. HandedOver
  BY DEF HandedOver
<1>5. HandlerEnds
  BY DEF HandlerEnds, StopLeavesNobody
<1> QED
  BY <1>3, <1>4, <1>5 DEF Inv

-----------------------------------------------------------------------------
\* Steps that do not touch the listener at all.
Quiet ==
    \/ MainStep
    \/ acceptEnds \/ handshakeBegin \/ handshakeEnd \/ tlsEnds
    \/ handlerKicked \/ udpEnds
    \/ stopBye \/ stopCloses \/ stopFreezes \/ stopReturns
    \/ \E c \in Conns :
          \/ acceptServe(c) \/ RemoveClient(c) \/ authenticate(c)
          \/ readMessage(c) \/ readFails(c) \/ handleMessage(c)
          \/ sendUdprecv(c) \/ voicebroadcast(c) \/ udprxEnds(c) \/ handleUdpPacket(c) \/ udpPasses(c)
          \/ stopDisconnect(c) \/ stopDisconnected(c)

\* Every step of Next is one of them, a step of the listener, or one of the few
\* in which the server calls it.
LEMMA Steps ==
    ASSUME Next
    PROVE  \/ Quiet
           \/ acceptTake \/ (\E c \in Conns : acceptReject(c) \/ disconnectClose(c))
           \/ stopClosesWeb \/ stopClosing
           \/ ListenerStep /\ UNCHANGED <<serverVars, clientVars, stopVars, crashed>>
BY DEF Next, Quiet, PeerStep, AcceptStep, ClientStep, StopStep, LoopStep

LEMMA QuietListener ==
    ASSUME Quiet
    PROVE  UNCHANGED listenerVars
BY DEF Quiet, MainStep, startListens, startFails, startBreaks, startLaunches, markRuntimeReady, acceptEnds, handshakeBegin,
       handshakeEnd, tlsEnds, handlerKicked, udpEnds, stopBegins, stopBye, stopCloses, stopFreezes,
       stopReturns, acceptServe, RemoveClient, authenticate, readMessage, readFails, handleMessage,
       sendUdprecv, voicebroadcast, udprxEnds, handleUdpPacket, udpPasses, stopDisconnect, stopDisconnected

\* Every step keeps the invariant of the listener.
LEMMA ListenerInvStep ==
    ASSUME Inv, Next
    PROVE  ListenerInv'
<1>1. CASE Quiet
  BY <1>1, QuietListener, ListenerFrame DEF Inv, core, listenerVars
<1>2. CASE acceptTake
  BY <1>2, ListenerFrame DEF Inv, core, acceptTake
<1>3. ASSUME NEW c \in Conns, acceptReject(c)
      PROVE  ListenerInv'
  <2>1. serve[c] = "end"
    BY <1>3 DEF Inv, HandedOver, acceptReject
  <2> QED
    BY <1>3, <2>1, ConnBegins DEF Inv, acceptReject
<1>4. ASSUME NEW c \in Conns, disconnectClose(c)
      PROVE  ListenerInv'
  <2>1. serve[c] = "end"
    BY <1>4 DEF Inv, HandedOver, disconnectClose
  <2> QED
    BY <1>4, <2>1, ConnBegins DEF Inv, disconnectClose
<1>5. CASE stopClosesWeb
  BY <1>5, ListenerCloses DEF Inv, stopClosesWeb
<1>6. CASE stopClosing
  BY <1>6, ListenerCloses, ListenerClosesOne DEF Inv, stopClosing
<1>7. ASSUME NEW c \in Conns,
             \/ serveCheck(c) \/ serveRefuse(c) \/ serveUpgrade(c) \/ serveRegister(c)
             \/ serveQueue(c) \/ serveFull(c) \/ pingFails(c) \/ connForget(c) \/ connDone(c)
      PROVE  ListenerInv'
  <2>1. CASE serveCheck(c) \/ serveRefuse(c) \/ serveUpgrade(c)
    BY <2>1, ServeBegins DEF Inv
  <2>2. CASE serveRegister(c)
    BY <2>2, ServeRegisters DEF Inv
  <2>3. CASE serveQueue(c)
    BY <2>3, ServeQueues DEF Inv
  <2>4. CASE serveFull(c) \/ pingFails(c)
    BY <2>4, ConnBegins DEF Inv, serveFull, pingFails
  <2>5. CASE connForget(c)
    BY <2>5, ConnForgets DEF Inv
  <2>6. CASE connDone(c)
    BY <2>6, ConnIsDone DEF Inv
  <2> QED
    BY <1>7, <2>1, <2>2, <2>3, <2>4, <2>5, <2>6
<1> QED
  BY Steps, <1>1, <1>2, <1>3, <1>4, <1>5, <1>6, <1>7 DEF ListenerStep

\* What happens to the client of a connection: it comes into being for the
\* connection that the accept loop has, and becomes ready by authentication.
LEMMA ClientSteps ==
    ASSUME Inv, Next
    PROVE  /\ client' \in [Conns -> {"none", "connected", "ready", "leaving", "removed", "gone"}]
           /\ \A c \in Conns : client'[c] # "none" => client[c] # "none" \/ web = c
           /\ \A c \in Conns : client'[c] = "ready" => client[c] = "ready" \/ handler = "select"
<1> USE DEF Inv, HandedOver
<1>1. CASE UNCHANGED client
  BY <1>1
<1>2. ASSUME NEW c \in Conns,
             acceptServe(c) \/ RemoveClient(c) \/ authenticate(c) \/ readFails(c) \/ disconnectClose(c)
                \/ stopDisconnect(c)
      PROVE  /\ client' \in [Conns -> {"none", "connected", "ready", "leaving", "removed", "gone"}]
             /\ \A d \in Conns : client'[d] # "none" => client[d] # "none" \/ web = d
             /\ \A d \in Conns : client'[d] = "ready" => client[d] = "ready" \/ handler = "select"
  BY <1>2 DEF acceptServe, RemoveClient, authenticate, readFails, disconnectClose, stopDisconnect, Alive
<1>3. ASSUME NEW c \in Conns, handleMessage(c)
      PROVE  /\ client' \in [Conns -> {"none", "connected", "ready", "leaving", "removed", "gone"}]
             /\ \A d \in Conns : client'[d] # "none" => client[d] # "none" \/ web = d
             /\ \A d \in Conns : client'[d] = "ready" => client[d] = "ready" \/ handler = "select"
  BY <1>3 DEF handleMessage, Alive
<1>4. \/ UNCHANGED client
      \/ \E c \in Conns : \/ acceptServe(c) \/ RemoveClient(c) \/ authenticate(c) \/ readFails(c)
                          \/ disconnectClose(c) \/ stopDisconnect(c) \/ handleMessage(c)
  BY Steps DEF Quiet, MainStep, startListens, startFails, startBreaks, startLaunches, markRuntimeReady, acceptEnds, handshakeBegin,
       handshakeEnd, tlsEnds, handlerKicked, udpEnds, stopBegins, stopBye, stopCloses, stopFreezes,
       stopReturns, readMessage, sendUdprecv, voicebroadcast, udprxEnds, handleUdpPacket, udpPasses,
       stopDisconnected, acceptTake, acceptReject, stopClosesWeb, stopClosing, clientVars
<1> QED
  BY <1>1, <1>2, <1>3, <1>4

\* What happens in the queue and the accept loop.
LEMMA QueueSteps ==
    ASSUME Inv, Next
    PROVE  /\ sockets' \in Seq(Conns)
           /\ \A i \in DOMAIN sockets' : serve'[sockets'[i]] = "end"
           /\ web' \in Conns => serve'[web'] = "end"
           /\ \A c \in Conns : serve[c] = "end" => serve'[c] = "end"
<1> USE DEF Inv, HandedOver
<1>1. CASE UNCHANGED <<serve, sockets, web>>
  BY <1>1
<1>2. CASE startLaunches \/ acceptEnds \/ \E c \in Conns : acceptServe(c) \/ acceptReject(c)
  BY <1>2 DEF startLaunches, acceptEnds, acceptServe, acceptReject, listenerVars
<1>3. CASE acceptTake
  <2>1. /\ Head(sockets) \in Conns /\ serve[Head(sockets)] = "end"
        /\ Tail(sockets) \in Seq(Conns)
        /\ \A i \in DOMAIN Tail(sockets) : Tail(sockets)[i] = sockets[i + 1] /\ i + 1 \in DOMAIN sockets
    BY <1>3 DEF acceptTake
  <2> QED
    BY <1>3, <2>1 DEF acceptTake
<1>4. ASSUME NEW c \in Conns, serveQueue(c), web' = web
      PROVE  /\ sockets' \in Seq(Conns)
             /\ \A i \in DOMAIN sockets' : serve'[sockets'[i]] = "end"
             /\ web' \in Conns => serve'[web'] = "end"
             /\ \A d \in Conns : serve[d] = "end" => serve'[d] = "end"
  <2>1. serve'[c] = "end" /\ \A d \in Conns : d # c => serve'[d] = serve[d]
    BY <1>4 DEF serveQueue, ListenerInv
  <2>2. /\ Append(sockets, c) \in Seq(Conns)
        /\ \A i \in DOMAIN Append(sockets, c) :
              Append(sockets, c)[i] = c \/ (i \in DOMAIN sockets /\ Append(sockets, c)[i] = sockets[i])
    OBVIOUS
  <2>3. \A i \in DOMAIN sockets : sockets[i] \in Conns
    OBVIOUS
  <2> QED
    BY <1>4, <2>1, <2>2, <2>3 DEF serveQueue
<1>5. ASSUME NEW c \in Conns, web' = web,
             \/ serveCheck(c) \/ serveRefuse(c) \/ serveUpgrade(c) \/ serveRegister(c) \/ serveFull(c)
             \/ pingFails(c) \/ connForget(c) \/ connDone(c)
      PROVE  /\ sockets' \in Seq(Conns)
             /\ \A i \in DOMAIN sockets' : serve'[sockets'[i]] = "end"
             /\ web' \in Conns => serve'[web'] = "end"
             /\ \A d \in Conns : serve[d] = "end" => serve'[d] = "end"
  <2>1. sockets' = sockets /\ \A d \in Conns : serve[d] = "end" => serve'[d] = "end"
    BY <1>5 DEF ListenerInv, serveCheck, serveRefuse, serveUpgrade, serveRegister, serveFull, pingFails,
                connForget, connDone
  <2>2. \A i \in DOMAIN sockets : sockets[i] \in Conns
    OBVIOUS
  <2> QED
    BY <1>5, <2>1, <2>2
<1>6. \/ UNCHANGED <<serve, sockets, web>>
      \/ startLaunches \/ acceptEnds \/ (\E c \in Conns : acceptServe(c) \/ acceptReject(c)) \/ acceptTake
      \/ ListenerStep /\ web' = web
  <2>1. CASE Quiet
    BY <2>1, QuietListener
       DEF Quiet, MainStep, startListens, startFails, startBreaks, markRuntimeReady, handshakeBegin, handshakeEnd, tlsEnds,
           handlerKicked, udpEnds, stopBegins, stopBye, stopCloses, stopFreezes, stopReturns,
           RemoveClient, authenticate, readMessage, readFails, handleMessage, sendUdprecv,
           voicebroadcast, udprxEnds, handleUdpPacket, udpPasses, stopDisconnect, stopDisconnected,
           serverVars, listenerVars
  <2>2. CASE stopClosesWeb \/ stopClosing \/ \E c \in Conns : disconnectClose(c)
    BY <2>2 DEF stopClosesWeb, stopClosing, closeBegin, closeSnapshot, closeOne, closeReturns,
                disconnectClose, serverVars
  <2> QED
    BY <2>1, <2>2, Steps DEF serverVars
<1> QED
  BY <1>1, <1>2, <1>3, <1>4, <1>5, <1>6 DEF ListenerStep

\* Every step keeps the connections handed over.
LEMMA HandedOverStep ==
    ASSUME Inv, Next
    PROVE  HandedOver'
<1>1. \A c \in Conns : client'[c] # "none" => serve'[c] = "end"
  BY ClientSteps, QueueSteps DEF Inv, HandedOver
<1> QED
  BY <1>1, ClientSteps, QueueSteps DEF HandedOver

-----------------------------------------------------------------------------
\* A step that is not one of Start, Stop or the handler leaves all three alone.
Others ==
    \/ handshakeBegin \/ handshakeEnd \/ tlsEnds \/ udpEnds \/ acceptTake \/ acceptEnds \/ stopClosing
    \/ ListenerStep /\ UNCHANGED <<serverVars, clientVars, stopVars, crashed>>
    \/ \E c \in Conns :
          \/ acceptServe(c) \/ acceptReject(c) \/ RemoveClient(c) \/ disconnectClose(c) \/ authenticate(c)
          \/ readMessage(c) \/ readFails(c) \/ sendUdprecv(c) \/ voicebroadcast(c) \/ udprxEnds(c)
          \/ handleUdpPacket(c) \/ udpPasses(c)

LEMMA OthersKeep ==
    ASSUME Others
    PROVE  UNCHANGED <<start, handler, stop, todo>>
BY DEF Others, handshakeBegin, handshakeEnd, tlsEnds, udpEnds, acceptTake, acceptEnds, stopClosing,
       acceptServe, acceptReject, RemoveClient, disconnectClose, authenticate, readMessage, readFails,
       sendUdprecv, voicebroadcast, udprxEnds, handleUdpPacket, udpPasses, serverVars, stopVars

\* Every step keeps the order in which Start, the handler and Stop run.
LEMMA HandlerEndsStep ==
    ASSUME Inv, Next
    PROVE  HandlerEnds'
<1> USE DEF Inv, HandlerEnds, StopLeavesNobody
<1>0. stop # "stopped"
  BY DEF Next, Go, GoOn
<1>1. CASE Others
  <2>1. UNCHANGED <<start, handler, stop, todo>>
    BY <1>1, OthersKeep
  <2>2. \A c \in Conns : client'[c] = "ready" => client[c] = "ready" \/ handler = "select"
    BY ClientSteps
  <2> QED
    BY <1>0, <2>1, <2>2
<1>2. CASE startListens \/ startFails \/ startBreaks \/ startLaunches \/ markRuntimeReady
  BY <1>2 DEF startListens, startFails, startBreaks, startLaunches, markRuntimeReady, clientVars, stopVars
<1>3. CASE handlerKicked
  BY <1>3 DEF handlerKicked, clientVars, stopVars
<1>4. ASSUME NEW c \in Conns, handleMessage(c)
      PROVE  HandlerEnds'
  <2>1. \A d \in Conns : client'[d] = "ready" => client[d] = "ready"
    BY <1>4 DEF handleMessage, HandedOver
  <2>2. handler = "select" /\ UNCHANGED <<start, stop, todo>>
    BY <1>4 DEF handleMessage, stopVars
  <2> QED
    BY <2>1, <2>2
<1>5. CASE stopBegins
  BY <1>5 DEF stopBegins, serverVars, clientVars
<1>6. CASE stopBye
  BY <1>6 DEF stopBye, clientVars
<1>7. ASSUME NEW c \in Conns, stopDisconnect(c)
      PROVE  HandlerEnds'
  <2>1. stop = "disconnect" /\ UNCHANGED <<start, handler>>
    BY <1>7 DEF stopDisconnect, serverVars
  <2>2. CASE Alive(c)
    <3>1. /\ stop' = c /\ todo' = todo /\ client'[c] # "ready"
          /\ \A d \in Conns : client'[d] = "ready" => client[d] = "ready"
      BY <1>7, <2>2 DEF stopDisconnect, HandedOver
    <3> QED
      BY <2>1, <3>1
  <2>3. CASE ~Alive(c)
    BY <1>7, <2>1, <2>3 DEF stopDisconnect, Alive
  <2> QED
    BY <2>2, <2>3
<1>8. ASSUME NEW c \in Conns, stopDisconnected(c)
      PROVE  HandlerEnds'
  BY <1>8 DEF stopDisconnected, serverVars, clientVars
<1>9. CASE stopClosesWeb \/ stopCloses \/ stopFreezes \/ stopReturns
  BY <1>9 DEF stopClosesWeb, stopCloses, stopFreezes, stopReturns, serverVars, clientVars
<1> QED
  BY Steps, <1>1, <1>2, <1>3, <1>4, <1>5, <1>6, <1>7, <1>8, <1>9 DEF Quiet, MainStep, Others

-----------------------------------------------------------------------------
\* The inductive invariant holds of every behaviour of the server.
THEOREM ShutdownInvariant == Spec => []Inv
<1>1. Init => Inv
  BY InitInv
<1>2. Inv /\ [Next]_vars => Inv'
  <2>1. ASSUME Inv, Next
        PROVE  Inv'
    BY <2>1, ListenerInvStep, HandedOverStep, HandlerEndsStep DEF Inv
  <2>2. ASSUME Inv, UNCHANGED vars
        PROVE  Inv'
    BY <2>2 DEF vars, listenerVars, serverVars, clientVars, stopVars, Inv, ListenerInv, HandedOver,
                HandlerEnds, WaitGroupExact, Counted, StopLeavesNobody
  <2> QED
    BY <2>1, <2>2
<1> QED
  BY <1>1, <1>2, PTL DEF Spec

\* The wait group of the web listener counts exactly the registered connections
\* that are not closed yet, however ServeHTTP, ping loops, clients and Close
\* interleave: closeWg never goes below zero, and Wait never returns too early.
THEOREM ListenerWaitGroup == Spec => []WaitGroupExact
BY ShutdownInvariant, PTL DEF Inv, ListenerInv

\* When Listener.Close has returned, a connection that is open was registered
\* after Close had looked.
THEOREM ListenerCloseThorough == Spec => []CloseIsThorough
<1>1. Inv => CloseIsThorough
  BY DEF Inv, ListenerInv, CloseIsThorough
<1> QED
  BY <1>1, ShutdownInvariant, PTL

\* When Server.Stop goes on to the listeners, no client is ready and none becomes
\* ready any more.
THEOREM StopDisconnectsAll == Spec => []StopLeavesNobody
BY ShutdownInvariant, PTL DEF Inv, HandlerEnds
-----------------------------------------------------------------------------
\* Readiness.  The checks that Start has set so far, by the configuration; main
\* marks the server after Start has launched it, and Stop begins after that.
ChecksInv ==
    /\ checks \in [Names -> {"ok", "starting", "disabled"}]
    /\ checks["dataDirectory"] = "ok" /\ checks["virtualServer"] = "ok" /\ checks["udp"] = "disabled"
    /\ start \in {"listening", "launched", "up"} =>
           /\ config.web => checks["webListener"] = "ok"
           /\ config.web /\ config.public => checks["websocket"] = "ok"
           /\ TLS => checks["rawMumbleTcpListener"] = "ok"
           /\ config.teamlancer => checks["voiceEngine"] = "ok"
    /\ start \in {"launched", "up"} /\ config.teamlancer => checks["auth"] = "ok"

ReadyInv ==
    /\ start \in {"no", "listening", "launched", "up", "broken", "failed"}
    /\ started => start = "up"
    /\ start = "up" /\ config.teamlancer => started
    /\ stop # "no" => start \in {"up", "broken", "failed"}
    /\ shuttingDown <=> stop # "no" /\ start # "failed"
    /\ stop = "no" /\ start \in {"launched", "up"} => handler \notin {"none", "ended"}
    /\ ChecksInv

\* Steps other than those of main and of the signal handler's call.
LEMMA NotMain ==
    ASSUME Next, ~MainStep
    PROVE  /\ UNCHANGED <<readyVars, start>>
           /\ stop = "no" <=> stop' = "no"
           /\ stop' = "no" => handler' = handler \/ handler' = "select" \/ handler' \in Conns
<1>1. UNCHANGED readyVars
  BY DEF Next, GoOn
<1>2. CASE Others
  BY <1>1, <1>2, OthersKeep
<1>3. CASE handlerKicked \/ \E c \in Conns : handleMessage(c)
  BY <1>1, <1>3 DEF handlerKicked, handleMessage, stopVars
<1>4. CASE \/ stopBye \/ stopClosesWeb \/ stopCloses \/ stopFreezes \/ stopReturns
           \/ \E c \in Conns : stopDisconnect(c) \/ stopDisconnected(c)
  BY <1>1, <1>4 DEF stopBye, stopClosesWeb, stopCloses, stopFreezes, stopReturns, stopDisconnect,
                    stopDisconnected, serverVars
<1> QED
  BY Steps, <1>2, <1>3, <1>4 DEF Quiet, Others

LEMMA ReadyInit0 == Init => ReadyInv
BY DEF Init, ReadyInit, ReadyInv, ChecksInv, Names

\* main's own steps.
LEMMA ReadyMain ==
    ASSUME ReadyInv, MainStep
    PROVE  ReadyInv'
<1> USE DEF ReadyInv, ChecksInv
<1>1. CASE startListens
  <2>1. checks' = ListenChecks /\ UNCHANGED <<config, started, shuttingDown, handler, stop>>
    BY <1>1 DEF startListens, stopVars
  <2>2. ChecksInv'
    BY <1>1, <2>1 DEF startListens, ListenChecks, Names, TLS
  <2> QED
    BY <1>1, <2>1, <2>2 DEF startListens
<1>2. CASE startFails \/ startBreaks
  BY <1>2 DEF startFails, startBreaks, readyVars, stopVars, TLS
<1>3. CASE startLaunches
  <2>1. checks' = LaunchChecks /\ UNCHANGED <<config, started, shuttingDown, stop>> /\ handler' = "select"
    BY <1>3 DEF startLaunches, stopVars
  <2>2. ChecksInv'
    BY <1>3, <2>1 DEF startLaunches, LaunchChecks, Names, TLS
  <2> QED
    BY <1>3, <2>1, <2>2 DEF startLaunches
<1>4. CASE markRuntimeReady
  BY <1>4 DEF markRuntimeReady, stopVars, TLS
<1>5. CASE stopBegins
  BY <1>5 DEF stopBegins, serverVars, TLS
<1> QED
  BY <1>1, <1>2, <1>3, <1>4, <1>5 DEF MainStep

LEMMA ReadyStep ==
    ASSUME ReadyInv, Next
    PROVE  ReadyInv'
<1>1. CASE MainStep
  BY <1>1, ReadyMain
<1>2. CASE ~MainStep
  BY <1>2, NotMain DEF ReadyInv, ChecksInv, readyVars, TLS
<1> QED
  BY <1>1, <1>2

\* A server that says it is ready has a handler and has not been told to stop, in
\* every configuration; one with a public WebSocket endpoint says so whenever it
\* can.
THEOREM ReadinessExact == Spec => []ReadyExact
<1>1. ReadyInv /\ [Next]_vars => ReadyInv'
  <2>1. ASSUME ReadyInv, UNCHANGED vars
        PROVE  ReadyInv'
    BY <2>1 DEF vars, readyVars, serverVars, stopVars, ReadyInv, ChecksInv, TLS
  <2> QED
    BY <2>1, ReadyStep
<1>2. ReadyInv => ReadyExact
  BY DEF ReadyInv, ChecksInv, ReadyExact, IsReady, requiredChecks, Names, TLS
<1> QED
  BY <1>1, <1>2, ReadyInit0, PTL DEF Spec
=============================================================================
