-------------------------- MODULE ConnectionLimits --------------------------
(* The connection caps of Teamlancer mode: acceptLoop, reserveConnection and   *)
(* releaseReservedConnection, with the two callers of the release (RemoveClient*)
(* and the accept loop's error path).  One accept loop runs per listener; the  *)
(* counters are updated under hmutex, so one reserve or release is one step.   *)
(* disconnect is three steps: it reads client.disconnected, then sets it and   *)
(* calls RemoveClient, then closes client.udprecv; nothing locks the flag, and *)
(* closing udprecv a second time panics and ends the process.                  *)
EXTENDS Integers, FiniteSets

CONSTANTS Conns,                \* connections that may be made
          Hosts,                \* remote IPs
          HostOf,               \* HostOf[k]: the remote IP of connection k
          Listeners,            \* "raw_tcp" (TLS) and "websocket"
          ListenerOf,           \* ListenerOf[k]: where connection k arrives
          Closers,              \* goroutines that may disconnect one client
          MaxConnections, MaxConnectionsPerIP

ASSUME LimitAssumption == /\ MaxConnections \in Nat
                          /\ MaxConnectionsPerIP \in Nat
                          /\ HostOf \in [Conns -> Hosts]
                          /\ ListenerOf \in [Conns -> Listeners]
                          /\ IsFiniteSet(Conns)

VARIABLES
    phase,         \* phase[k]: how far connection k has come
    totalConns,    \* server.totalConns
    ipConns,       \* server.ipConns, 0 for an absent key
    disconnected,  \* client.disconnected
    checked,       \* checked[k]: closers that read disconnected = false
    removed,       \* removed[k]: closers that returned from RemoveClient
    crashed,       \* the process has panicked
    releases       \* history: releases[k] counts the releases made for k

vars == <<phase, totalConns, ipConns, disconnected, checked, removed, crashed, releases>>
closing == <<disconnected, checked, removed, crashed>>

Phases == {"new", "accepted", "reserved", "failed", "open", "closed", "rejected"}

\* Connections that hold a slot: reserved, and not torn down yet.
Live == {k \in Conns : phase[k] \in {"reserved", "open"} /\ releases[k] = 0}
LiveOn(h) == {k \in Live : HostOf[k] = h}

-----------------------------------------------------------------------------
Init == /\ phase = [k \in Conns |-> "new"]
        /\ totalConns = 0
        /\ ipConns = [h \in Hosts |-> 0]
        /\ disconnected = [k \in Conns |-> FALSE]
        /\ checked = [k \in Conns |-> {}]
        /\ removed = [k \in Conns |-> {}]
        /\ crashed = FALSE
        /\ releases = [k \in Conns |-> 0]

\* An accept loop works on one connection at a time, TLS handshake included.
Busy(l) == \E k \in Conns : /\ ListenerOf[k] = l
                            /\ phase[k] \in {"accepted", "reserved", "failed"}

Accept(k) ==
    /\ ~crashed
    /\ phase[k] = "new"
    /\ ~Busy(ListenerOf[k])
    /\ phase' = [phase EXCEPT ![k] = "accepted"]
    /\ UNCHANGED <<totalConns, ipConns, closing, releases>>

\* The remote IP is banned.
RejectBanned(k) ==
    /\ ~crashed
    /\ phase[k] = "accepted"
    /\ phase' = [phase EXCEPT ![k] = "rejected"]
    /\ UNCHANGED <<totalConns, ipConns, closing, releases>>

\* Faulty: off by one.
WithinLimitsOffByOne(h) == totalConns <= MaxConnections /\ ipConns[h] <= MaxConnectionsPerIP

WithinLimits(h) == totalConns < MaxConnections /\ ipConns[h] < MaxConnectionsPerIP

reserveConnection(k) ==
    /\ ~crashed
    /\ phase[k] = "accepted"
    /\ WithinLimits(HostOf[k])
    /\ totalConns' = totalConns + 1
    /\ ipConns' = [ipConns EXCEPT ![HostOf[k]] = @ + 1]
    /\ phase' = [phase EXCEPT ![k] = "reserved"]
    /\ UNCHANGED <<closing, releases>>

RejectLimit(k) ==
    /\ ~crashed
    /\ phase[k] = "accepted"
    /\ ~WithinLimits(HostOf[k])
    /\ phase' = [phase EXCEPT ![k] = "rejected"]
    /\ UNCHANGED <<totalConns, ipConns, closing, releases>>

\* Faulty: forgets the per-IP counter.
releaseTotalOnly(k) ==
    /\ totalConns' = IF totalConns > 0 THEN totalConns - 1 ELSE totalConns
    /\ releases' = [releases EXCEPT ![k] = @ + 1]
    /\ UNCHANGED ipConns

releaseReservedConnection(k) ==
    /\ ipConns' = [ipConns EXCEPT ![HostOf[k]] = IF @ > 0 THEN @ - 1 ELSE @]
    /\ totalConns' = IF totalConns > 0 THEN totalConns - 1 ELSE totalConns
    /\ releases' = [releases EXCEPT ![k] = @ + 1]

\* handleIncomingClient succeeds and starts the client's goroutines.
Serve(k) ==
    /\ ~crashed
    /\ phase[k] = "reserved"
    /\ phase' = [phase EXCEPT ![k] = "open"]
    /\ UNCHANGED <<totalConns, ipConns, closing, releases>>

\* handleIncomingClient disconnects the client itself, on the TLS listener
\* only.  After a failed handshake it returns the error as well, and the accept
\* loop goes on to its error path; a banned certificate returns no error.
RefuseTLS(k) ==
    /\ ~crashed
    /\ phase[k] = "reserved"
    /\ ListenerOf[k] = "raw_tcp"
    /\ disconnected' = [disconnected EXCEPT ![k] = TRUE]
    /\ releaseReservedConnection(k)
    /\ \E next \in {"failed", "closed"} : phase' = [phase EXCEPT ![k] = next]
    /\ UNCHANGED <<checked, removed, crashed>>

\* acceptLoop: handleIncomingClient returned an error.
AcceptError(k) ==
    /\ ~crashed
    /\ phase[k] = "failed"
    /\ releaseReservedConnection(k)
    /\ phase' = [phase EXCEPT ![k] = "closed"]
    /\ UNCHANGED closing

\* disconnect, first step: the reader after an error or end of file, or the
\* handler after a kick or a failed send, finds the flag clear.
disconnectCheck(k, g) ==
    /\ ~crashed
    /\ phase[k] = "open"
    /\ ~disconnected[k]
    /\ g \notin checked[k] \cup removed[k]
    /\ checked' = [checked EXCEPT ![k] = @ \cup {g}]
    /\ UNCHANGED <<phase, totalConns, ipConns, disconnected, removed, crashed, releases>>

\* disconnect, second step: the flag is set and RemoveClient runs.
disconnectRemove(k, g) ==
    /\ ~crashed
    /\ g \in checked[k]
    /\ checked' = [checked EXCEPT ![k] = @ \ {g}]
    /\ removed' = [removed EXCEPT ![k] = @ \cup {g}]
    /\ disconnected' = [disconnected EXCEPT ![k] = TRUE]
    /\ releaseReservedConnection(k)
    /\ UNCHANGED <<phase, crashed>>

\* disconnect, third step: close(client.udprecv) and the connection.
disconnectClose(k, g) ==
    /\ ~crashed
    /\ g \in removed[k]
    /\ removed' = [removed EXCEPT ![k] = @ \ {g}]
    /\ crashed' = (phase[k] = "closed")
    /\ phase' = [phase EXCEPT ![k] = "closed"]
    /\ UNCHANGED <<totalConns, ipConns, disconnected, checked, releases>>

Next == \E k \in Conns :
            \/ Accept(k)
            \/ RejectBanned(k)
            \/ reserveConnection(k)
            \/ RejectLimit(k)
            \/ Serve(k)
            \/ RefuseTLS(k)
            \/ AcceptError(k)
            \/ \E g \in Closers : \/ disconnectCheck(k, g)
                                  \/ disconnectRemove(k, g)
                                  \/ disconnectClose(k, g)

Spec == Init /\ [][Next]_vars

-----------------------------------------------------------------------------
\* The counters of reserveConnection and releaseReservedConnection stay natural
\* numbers, also when a slot is given back twice.
TypeOK == /\ phase \in [Conns -> Phases]
          /\ totalConns \in Nat
          /\ ipConns \in [Hosts -> Nat]
          /\ disconnected \in [Conns -> BOOLEAN]
          /\ checked \in [Conns -> SUBSET Closers]
          /\ removed \in [Conns -> SUBSET Closers]
          /\ crashed \in BOOLEAN
          /\ releases \in [Conns -> Nat]

\* Whatever the order of accepts and disconnects, no slot stays taken by a
\* connection that is gone: the counters never exceed the live connections, so
\* an idle server accepts again.
NoSlotLeaks ==
    /\ totalConns <= Cardinality(Live)
    /\ \A h \in Hosts : ipConns[h] <= Cardinality(LiveOn(h))

\* MAX_CONNECTIONS and MAX_CONNECTIONS_PER_IP bound the live connections as long
\* as no slot has been given back twice.
LimitsHoldIfReleasedOnce ==
    (\A k \in Conns : releases[k] <= 1) =>
        /\ Cardinality(Live) <= MaxConnections
        /\ \A h \in Hosts : Cardinality(LiveOn(h)) <= MaxConnectionsPerIP

\* The global cap as the repository's documentation states it.
GlobalCapHolds == Cardinality(Live) <= MaxConnections
=============================================================================
