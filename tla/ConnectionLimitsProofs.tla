----------------------- MODULE ConnectionLimitsProofs -----------------------
(* The connection counters for any number of connections, hosts, listeners and *)
(* closers, and any two caps.  Neither property is inductive: that a counter   *)
(* does not exceed the live connections says nothing of the slots that calls   *)
(* in progress are about to give back, and a cap on the live connections is    *)
(* kept only because the counters are exact until a slot is given back twice.  *)
EXTENDS ConnectionLimits, FiniteSetTheorems, TLAPS

\* How far a connection has come tells whether its slot was given back, and a
\* call of disconnect is only in progress for a connection that was served.
PhasesAccounted ==
    \A k \in Conns :
        /\ phase[k] \in {"new", "accepted", "rejected", "reserved"} => releases[k] = 0
        /\ phase[k] \in {"failed", "closed"} => releases[k] # 0
        /\ checked[k] # {} => phase[k] \in {"open", "closed"}
        /\ removed[k] # {} => releases[k] # 0

\* As long as no slot was given back twice the counters are the live connections.
ReleasedOnce == \A k \in Conns : releases[k] <= 1
CountersExact ==
    ReleasedOnce =>
        /\ totalConns = Cardinality(Live) /\ totalConns <= MaxConnections
        /\ \A h \in Hosts : ipConns[h] = Cardinality(LiveOn(h)) /\ ipConns[h] <= MaxConnectionsPerIP

\* The inductive invariant.
LimitsInv == TypeOK /\ PhasesAccounted /\ NoSlotLeaks /\ CountersExact

-----------------------------------------------------------------------------
\* The live connections, all of them and those of one host, can be counted.
LEMMA LiveCounted ==
    /\ IsFiniteSet(Live) /\ Cardinality(Live) \in Nat
    /\ \A h \in Hosts : IsFiniteSet(LiveOn(h)) /\ Cardinality(LiveOn(h)) \in Nat
<1>1. Live \subseteq Conns /\ \A h \in Hosts : LiveOn(h) \subseteq Conns
  BY DEF Live, LiveOn
<1>2. IsFiniteSet(Conns)
  BY LimitAssumption
<1>3. IsFiniteSet(Live) /\ \A h \in Hosts : IsFiniteSet(LiveOn(h))
  BY <1>1, <1>2, FS_Subset
<1>. QED BY <1>3, FS_CardinalityType

\* The same in the next state.
LEMMA LiveCountedNext ==
    /\ IsFiniteSet(Live') /\ Cardinality(Live') \in Nat
    /\ \A h \in Hosts : IsFiniteSet(LiveOn(h)') /\ Cardinality(LiveOn(h)') \in Nat
<1>1. Live' \subseteq Conns /\ \A h \in Hosts : LiveOn(h)' \subseteq Conns
  BY DEF Live, LiveOn
<1>2. IsFiniteSet(Conns)
  BY LimitAssumption
<1>3. IsFiniteSet(Live') /\ \A h \in Hosts : IsFiniteSet(LiveOn(h)')
  BY <1>1, <1>2, FS_Subset
<1>. QED BY <1>3, FS_CardinalityType

\* A step that changes no counter and no live connection keeps what is counted.
LEMMA CountersFrame ==
    ASSUME NoSlotLeaks, CountersExact, Live' = Live, UNCHANGED <<totalConns, ipConns, releases>>
    PROVE  NoSlotLeaks' /\ CountersExact'
<1>1. \A h \in Hosts : LiveOn(h)' = LiveOn(h)
  BY DEF LiveOn
<1>. QED BY <1>1 DEF NoSlotLeaks, CountersExact, ReleasedOnce

\* reserveConnection makes one connection live and counts it.
LEMMA CountersReserve ==
    ASSUME LimitsInv, NEW k \in Conns, reserveConnection(k)
    PROVE  NoSlotLeaks' /\ CountersExact'
<1>. DEFINE host == HostOf[k]
<1>1. /\ host \in Hosts /\ phase[k] = "accepted" /\ releases[k] = 0 /\ releases' = releases
      /\ phase' = [phase EXCEPT ![k] = "reserved"]
  BY LimitAssumption DEF LimitsInv, PhasesAccounted, reserveConnection
<1>2. Live' = Live \cup {k} /\ k \notin Live
  BY <1>1 DEF LimitsInv, TypeOK, Live
<1>3. /\ LiveOn(host)' = LiveOn(host) \cup {k} /\ k \notin LiveOn(host)
      /\ \A h \in Hosts : h # host => LiveOn(h)' = LiveOn(h)
  BY <1>2 DEF LiveOn
<1>4. Cardinality(Live') = Cardinality(Live) + 1
  BY <1>2, LiveCounted, FS_AddElement
<1>5. \A h \in Hosts : Cardinality(LiveOn(h)') = Cardinality(LiveOn(h)) + (IF h = host THEN 1 ELSE 0)
  <2>1. Cardinality(LiveOn(host)') = Cardinality(LiveOn(host)) + 1
    <3>. HIDE DEF host
    <3>1. IsFiniteSet(LiveOn(host))
      BY <1>1, LiveCounted
    <3>. QED BY <1>3, <3>1, FS_AddElement
  <2>. QED BY <1>3, <2>1, LiveCounted
<1>6. /\ totalConns' = totalConns + 1 /\ totalConns < MaxConnections
      /\ ipConns[host] < MaxConnectionsPerIP
      /\ \A h \in Hosts : ipConns'[h] = ipConns[h] + (IF h = host THEN 1 ELSE 0)
  BY <1>1 DEF LimitsInv, TypeOK, reserveConnection, WithinLimits
<1>7. totalConns \in Nat /\ \A h \in Hosts : ipConns[h] \in Nat
  BY DEF LimitsInv, TypeOK
<1>. HIDE DEF host
<1>8. NoSlotLeaks'
  BY <1>4, <1>5, <1>6, <1>7, LiveCounted DEF LimitsInv, NoSlotLeaks
<1>9. CountersExact'
  <2>1. ReleasedOnce' => ReleasedOnce
    BY <1>1 DEF ReleasedOnce
  <2>. QED BY <1>4, <1>5, <1>6, <1>7, <2>1, LiveCounted, LimitAssumption DEF LimitsInv, CountersExact
<1>. QED BY <1>8, <1>9

\* releaseReservedConnection takes a connection from the live ones.  Given back
\* for the first time, its slot was that of a live connection.
LEMMA CountersRelease ==
    ASSUME LimitsInv, NEW k \in Conns, releaseReservedConnection(k),
           releases[k] = 0 => phase[k] \in {"reserved", "open"},
           \A j \in Conns : j # k => phase'[j] = phase[j]
    PROVE  NoSlotLeaks' /\ CountersExact'
<1>. DEFINE host == HostOf[k]
<1>1. /\ host \in Hosts /\ releases' = [releases EXCEPT ![k] = @ + 1]
      /\ releases \in [Conns -> Nat]
  BY LimitAssumption DEF LimitsInv, TypeOK, releaseReservedConnection
<1>2. Live' = Live \ {k}
  <2>1. \A j \in Conns : j # k => releases'[j] = releases[j]
    BY <1>1
  <2>2. releases'[k] # 0
    BY <1>1
  <2>. QED BY <2>1, <2>2 DEF Live
<1>3. /\ LiveOn(host)' = LiveOn(host) \ {k}
      /\ k \in Live => k \in LiveOn(host)
      /\ \A h \in Hosts : h # host => LiveOn(h)' = LiveOn(h)
  BY <1>2 DEF LiveOn
<1>4. Cardinality(Live') = Cardinality(Live) - (IF k \in Live THEN 1 ELSE 0)
  <2>1. Cardinality(Live \ {k}) = IF k \in Live THEN Cardinality(Live) - 1 ELSE Cardinality(Live)
    BY LiveCounted, FS_RemoveElement, Zenon
  <2>. QED BY <1>2, <2>1, LiveCounted
<1>5. \A h \in Hosts : Cardinality(LiveOn(h)') =
                           Cardinality(LiveOn(h)) - (IF h = host /\ k \in Live THEN 1 ELSE 0)
  <2>1. k \in LiveOn(host) <=> k \in Live
    BY <1>3 DEF LiveOn
  <2>2. Cardinality(LiveOn(host)') = Cardinality(LiveOn(host)) - (IF k \in Live THEN 1 ELSE 0)
    <3>. HIDE DEF host
    <3>1. IsFiniteSet(LiveOn(host)) /\ Cardinality(LiveOn(host)) \in Nat
      BY <1>1, LiveCounted
    <3>2. Cardinality(LiveOn(host) \ {k}) = IF k \in LiveOn(host) THEN Cardinality(LiveOn(host)) - 1
                                            ELSE Cardinality(LiveOn(host))
      BY <3>1, FS_RemoveElement, Zenon
    <3>. QED BY <1>3, <2>1, <3>1, <3>2
  <2>. HIDE DEF host
  <2>3. \A h \in Hosts : h # host => Cardinality(LiveOn(h)') = Cardinality(LiveOn(h))
    BY <1>3
  <2>. QED BY <2>2, <2>3, LiveCounted
<1>6. /\ totalConns' = IF totalConns > 0 THEN totalConns - 1 ELSE totalConns
      /\ \A h \in Hosts : ipConns'[h] = IF h = host /\ ipConns[h] > 0 THEN ipConns[h] - 1 ELSE ipConns[h]
  BY <1>1 DEF LimitsInv, TypeOK, releaseReservedConnection
<1>7. totalConns \in Nat /\ \A h \in Hosts : ipConns[h] \in Nat
  BY DEF LimitsInv, TypeOK
<1>8. NoSlotLeaks'
  <2>1. totalConns' <= Cardinality(Live')
    BY <1>4, <1>6, <1>7, LiveCounted, LiveCountedNext DEF LimitsInv, NoSlotLeaks
  <2>2. ASSUME NEW h \in Hosts PROVE ipConns'[h] <= Cardinality(LiveOn(h)')
    <3>. HIDE DEF host
    <3>. QED BY <1>5, <1>6, <1>7, LiveCounted, LiveCountedNext DEF LimitsInv, NoSlotLeaks
  <2>. QED BY <2>1, <2>2 DEF NoSlotLeaks
<1>9. CountersExact'
  <2>. SUFFICES ASSUME ReleasedOnce'
                PROVE  /\ totalConns' = Cardinality(Live') /\ totalConns' <= MaxConnections
                       /\ \A h \in Hosts : /\ ipConns'[h] = Cardinality(LiveOn(h)')
                                           /\ ipConns'[h] <= MaxConnectionsPerIP
    BY DEF CountersExact
  <2>1. ReleasedOnce /\ releases[k] = 0
    BY <1>1 DEF ReleasedOnce
  <2>2. k \in Live /\ k \in LiveOn(host)
    BY <1>3, <2>1 DEF Live
  <2>3. /\ totalConns = Cardinality(Live) /\ totalConns <= MaxConnections
        /\ \A h \in Hosts : ipConns[h] = Cardinality(LiveOn(h)) /\ ipConns[h] <= MaxConnectionsPerIP
    BY <2>1 DEF LimitsInv, CountersExact
  <2>4. totalConns > 0 /\ ipConns[host] > 0
    <3>1. Cardinality(Live) # 0 /\ Cardinality(LiveOn(host)) # 0
      BY <1>1, <2>2, LiveCounted, FS_EmptySet
    <3>. QED BY <1>1, <1>7, <2>3, <3>1
  <2>. HIDE DEF host
  <2>. QED BY <1>4, <1>5, <1>6, <1>7, <2>2, <2>3, <2>4, LiveCounted, LimitAssumption
<1>. QED BY <1>8, <1>9

-----------------------------------------------------------------------------
\* No connection has been accepted.
LEMMA LimitsInit == Init => LimitsInv
<1>. SUFFICES ASSUME Init PROVE LimitsInv
  OBVIOUS
<1>1. TypeOK /\ PhasesAccounted
  BY DEF Init, TypeOK, Phases, PhasesAccounted
<1>2. Live = {} /\ \A h \in Hosts : LiveOn(h) = {}
  BY DEF Init, Live, LiveOn
<1>3. Cardinality(Live) = 0 /\ \A h \in Hosts : Cardinality(LiveOn(h)) = 0
  BY <1>2, FS_EmptySet, Zenon
<1>4. totalConns = 0 /\ \A h \in Hosts : ipConns[h] = 0
  BY DEF Init
<1>5. NoSlotLeaks /\ CountersExact
  BY <1>3, <1>4, LimitAssumption DEF NoSlotLeaks, CountersExact
<1>. QED BY <1>1, <1>5 DEF LimitsInv

\* The steps of an accept loop that give nothing back and serve nobody.
LEMMA LimitsAccept ==
    ASSUME LimitsInv, NEW k \in Conns,
           Accept(k) \/ RejectBanned(k) \/ RejectLimit(k) \/ Serve(k)
    PROVE  LimitsInv'
<1>1. TypeOK' /\ PhasesAccounted'
  BY DEF LimitsInv, TypeOK, Phases, PhasesAccounted, Accept, RejectBanned, RejectLimit, Serve, closing
<1>2. Live' = Live /\ UNCHANGED <<totalConns, ipConns, releases>>
  BY DEF LimitsInv, TypeOK, Live, Accept, RejectBanned, RejectLimit, Serve
<1>. QED BY <1>1, <1>2, CountersFrame DEF LimitsInv

\* A slot is reserved for the connection.
LEMMA LimitsReserve == ASSUME LimitsInv, NEW k \in Conns, reserveConnection(k) PROVE LimitsInv'
<1>1. TypeOK'
  <2>1. HostOf[k] \in Hosts
    BY LimitAssumption
  <2>2. totalConns' \in Nat /\ ipConns' \in [Hosts -> Nat]
    BY <2>1 DEF LimitsInv, TypeOK, reserveConnection
  <2>. QED BY <2>2 DEF LimitsInv, TypeOK, Phases, reserveConnection, closing
<1>2. PhasesAccounted'
  BY DEF LimitsInv, TypeOK, PhasesAccounted, reserveConnection, closing
<1>. QED BY <1>1, <1>2, CountersReserve DEF LimitsInv

\* The types of what releaseReservedConnection changes.
LEMMA ReleaseTypes ==
    ASSUME TypeOK, NEW k \in Conns, releaseReservedConnection(k)
    PROVE  /\ totalConns' \in Nat /\ ipConns' \in [Hosts -> Nat] /\ releases' \in [Conns -> Nat]
           /\ releases'[k] # 0
           /\ \A j \in Conns : j # k => releases'[j] = releases[j]
<1>1. totalConns' \in Nat
  BY DEF TypeOK, releaseReservedConnection
<1>2. ipConns' \in [Hosts -> Nat]
  <2>1. ipConns' = [ipConns EXCEPT ![HostOf[k]] = IF ipConns[HostOf[k]] > 0 THEN ipConns[HostOf[k]] - 1
                                                 ELSE ipConns[HostOf[k]]]
    BY DEF releaseReservedConnection
  <2>2. HostOf[k] \in Hosts /\ ipConns[HostOf[k]] \in Nat
    BY LimitAssumption DEF TypeOK
  <2>. QED BY <2>1, <2>2 DEF TypeOK
<1>3. releases' = [releases EXCEPT ![k] = releases[k] + 1] /\ releases \in [Conns -> Nat]
  BY DEF TypeOK, releaseReservedConnection
<1>. QED BY <1>1, <1>2, <1>3

\* A refused TLS connection gives its slot back.
LEMMA LimitsRefuse == ASSUME LimitsInv, NEW k \in Conns, RefuseTLS(k) PROVE LimitsInv'
<1>1. PICK next \in {"failed", "closed"} : phase' = [phase EXCEPT ![k] = next]
  BY DEF RefuseTLS
<1>2. phase[k] = "reserved" /\ releaseReservedConnection(k) /\ UNCHANGED <<checked, removed, crashed>>
  BY DEF RefuseTLS
<1>3. TypeOK'
  <2>1. disconnected' \in [Conns -> BOOLEAN]
    BY Zenon DEF LimitsInv, TypeOK, RefuseTLS
  <2>. QED BY <1>1, <1>2, <2>1, ReleaseTypes DEF LimitsInv, TypeOK, Phases
<1>4. PhasesAccounted'
  BY <1>1, <1>2, ReleaseTypes DEF LimitsInv, TypeOK, PhasesAccounted
<1>5. NoSlotLeaks' /\ CountersExact'
  BY <1>1, <1>2, CountersRelease DEF LimitsInv, TypeOK
<1>. QED BY <1>3, <1>4, <1>5 DEF LimitsInv

\* After a failed handshake the accept loop gives the slot back once more.
LEMMA LimitsAcceptError == ASSUME LimitsInv, NEW k \in Conns, AcceptError(k) PROVE LimitsInv'
<1>1. /\ phase[k] = "failed" /\ releaseReservedConnection(k) /\ UNCHANGED closing
      /\ phase' = [phase EXCEPT ![k] = "closed"]
  BY DEF AcceptError
<1>2. TypeOK'
  BY <1>1, ReleaseTypes DEF LimitsInv, TypeOK, Phases, closing
<1>3. PhasesAccounted'
  BY <1>1, ReleaseTypes DEF LimitsInv, TypeOK, PhasesAccounted, closing
<1>4. NoSlotLeaks' /\ CountersExact'
  BY <1>1, CountersRelease DEF LimitsInv, TypeOK, PhasesAccounted
<1>. QED BY <1>2, <1>3, <1>4 DEF LimitsInv

\* disconnect reads the flag.
LEMMA LimitsCheck ==
    ASSUME LimitsInv, NEW k \in Conns, NEW g \in Closers, disconnectCheck(k, g)
    PROVE  LimitsInv'
<1>1. TypeOK' /\ PhasesAccounted'
  BY DEF LimitsInv, TypeOK, PhasesAccounted, disconnectCheck
<1>2. Live' = Live /\ UNCHANGED <<totalConns, ipConns, releases>>
  BY DEF Live, disconnectCheck
<1>. QED BY <1>1, <1>2, CountersFrame DEF LimitsInv

\* RemoveClient gives the slot back, for each closer that found the flag clear.
LEMMA LimitsRemove ==
    ASSUME LimitsInv, NEW k \in Conns, NEW g \in Closers, disconnectRemove(k, g)
    PROVE  LimitsInv'
<1>1. /\ checked[k] # {} /\ releaseReservedConnection(k) /\ UNCHANGED <<phase, crashed>>
      /\ checked' = [checked EXCEPT ![k] = @ \ {g}]
      /\ removed' = [removed EXCEPT ![k] = @ \cup {g}]
  BY DEF disconnectRemove
<1>2. TypeOK'
  <2>1. disconnected' \in [Conns -> BOOLEAN]
    BY Zenon DEF LimitsInv, TypeOK, disconnectRemove
  <2>. QED BY <1>1, <2>1, ReleaseTypes DEF LimitsInv, TypeOK
<1>3. PhasesAccounted'
  BY <1>1, ReleaseTypes DEF LimitsInv, TypeOK, PhasesAccounted
<1>4. NoSlotLeaks' /\ CountersExact'
  BY <1>1, CountersRelease DEF LimitsInv, PhasesAccounted
<1>. QED BY <1>2, <1>3, <1>4 DEF LimitsInv

\* The end of disconnect: the slot was given back before.
LEMMA LimitsClose ==
    ASSUME LimitsInv, NEW k \in Conns, NEW g \in Closers, disconnectClose(k, g)
    PROVE  LimitsInv'
<1>1. /\ releases[k] # 0 /\ phase' = [phase EXCEPT ![k] = "closed"]
      /\ removed' = [removed EXCEPT ![k] = @ \ {g}] /\ crashed' \in BOOLEAN
      /\ UNCHANGED <<totalConns, ipConns, disconnected, checked, releases>>
  BY DEF LimitsInv, PhasesAccounted, disconnectClose
<1>2. TypeOK' /\ PhasesAccounted'
  BY <1>1 DEF LimitsInv, TypeOK, Phases, PhasesAccounted
<1>3. Live' = Live
  BY <1>1 DEF LimitsInv, TypeOK, Live
<1>. QED BY <1>1, <1>2, <1>3, CountersFrame DEF LimitsInv

\* Every step of an accept loop and of a call of disconnect preserves it.
LEMMA LimitsStep == LimitsInv /\ [Next]_vars => LimitsInv'
<1>. SUFFICES ASSUME LimitsInv, [Next]_vars PROVE LimitsInv'
  OBVIOUS
<1>1. CASE UNCHANGED vars
  <2>1. TypeOK' /\ PhasesAccounted' /\ Live' = Live /\ UNCHANGED <<totalConns, ipConns, releases>>
    BY <1>1 DEF vars, LimitsInv, TypeOK, PhasesAccounted, Live
  <2>. QED BY <2>1, CountersFrame DEF LimitsInv
<1>2. CASE Next
  <2>. SUFFICES ASSUME NEW k \in Conns,
                       \/ Accept(k) \/ RejectBanned(k) \/ RejectLimit(k) \/ Serve(k)
                       \/ reserveConnection(k) \/ RefuseTLS(k) \/ AcceptError(k)
                       \/ \E g \in Closers : \/ disconnectCheck(k, g)
                                             \/ disconnectRemove(k, g)
                                             \/ disconnectClose(k, g)
                PROVE  LimitsInv'
    BY <1>2 DEF Next
  <2>. QED BY LimitsAccept, LimitsReserve, LimitsRefuse, LimitsAcceptError, LimitsCheck, LimitsRemove,
              LimitsClose
<1>. QED BY <1>1, <1>2

\* For any caps and any number of connections, hosts and closers: the counters of
\* reserveConnection and releaseReservedConnection are exact until a slot is given
\* back twice, and never above the live connections.
THEOREM LimitsInvariant == Spec => []LimitsInv
BY LimitsInit, LimitsStep, PTL DEF Spec

\* No order of accepts, refusals and disconnects leaves a slot taken by a
\* connection that is gone, although releaseReservedConnection may run twice.
THEOREM SlotsNeverLeak == Spec => []NoSlotLeaks
<1>1. LimitsInv => NoSlotLeaks
  BY DEF LimitsInv
<1>. QED BY <1>1, LimitsInvariant, PTL

\* reserveConnection keeps both caps as long as no slot has been given back twice.
THEOREM CapsHold == Spec => []LimitsHoldIfReleasedOnce
<1>1. LimitsInv => LimitsHoldIfReleasedOnce
  BY DEF LimitsInv, CountersExact, ReleasedOnce, LimitsHoldIfReleasedOnce
<1>. QED BY <1>1, LimitsInvariant, PTL
=============================================================================
