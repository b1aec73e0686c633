-------------------------- MODULE SessionPoolProofs -------------------------
(* The session pool hands out distinct ids, for any number of callers and any  *)
(* width of the id.  The inductive invariant is the conservation law           *)
(* IdsAccounted together with the invariants it leans on.                      *)
EXTENDS SessionPool, SequenceTheorems, TLAPS

\* The inductive invariant: SessionsDistinct alone says nothing of the stack that
\* the next id is taken from.
PoolInv == TypeOK /\ SessionsDistinct /\ IdsAccounted /\ TrackingExact

\* What is on the stack after pushing an id, and that it is still duplicate free.
LEMMA PushStacked ==
    ASSUME TypeOK, NEW id \in 1..MaxUint32, GiveBack(id), id \notin Stacked,
           \A i, j \in DOMAIN unused : unused[i] = unused[j] => i = j
    PROVE  /\ Stacked' = Stacked \cup {id}
           /\ unused' \in Seq(1..MaxUint32)
           /\ \A i, j \in DOMAIN unused' : unused'[i] = unused'[j] => i = j
BY DEF TypeOK, GiveBack, Stacked

\* What is on the stack after popping it: everything but the id handed out.
LEMMA PopStacked ==
    ASSUME TypeOK, unused # <<>>, unused' = SubSeq(unused, 1, Len(unused) - 1),
           \A i, j \in DOMAIN unused : unused[i] = unused[j] => i = j
    PROVE  /\ NextId \in Stacked
           /\ Stacked' = Stacked \ {NextId}
           /\ unused' \in Seq(1..MaxUint32)
           /\ \A i, j \in DOMAIN unused' : unused'[i] = unused'[j] => i = j
<1>. DEFINE n == Len(unused)
<1>1. n \in Nat \ {0} /\ DOMAIN unused = 1..n /\ NextId = unused[n]
  BY DEF TypeOK, NextId
<1>2. Len(unused') = n - 1 /\ DOMAIN unused' = 1..(n-1)
  BY <1>1 DEF TypeOK
<1>3. \A i \in 1..(n-1) : unused'[i] = unused[i]
  BY <1>1 DEF TypeOK
<1>4. unused' \in Seq(1..MaxUint32)
  <2>1. \A i \in 1..n : unused[i] \in 1..MaxUint32
    BY <1>1, ElementOfSeq, Zenon DEF TypeOK
  <2>2. 1 \in Int /\ n - 1 \in Int /\ 1..(n-1) \subseteq 1..n
    BY <1>1
  <2>3. \A i \in 1..(n-1) : unused[i] \in 1..MaxUint32
    BY <2>1, <2>2
  <2>. HIDE DEF n
  <2>4. SubSeq(unused, 1, n - 1) \in Seq(1..MaxUint32)
    BY <2>2, <2>3, SubSeqProperties, Zenon
  <2>. QED BY <2>4 DEF n
<1>. HIDE DEF n
<1>5. NextId \in Stacked
  BY <1>1 DEF Stacked
<1>6. Stacked' = Stacked \ {NextId}
  <2>1. Stacked' = {unused'[i] : i \in 1..(n-1)} /\ Stacked = {unused[i] : i \in 1..n}
    BY <1>1, <1>2, Zenon DEF Stacked
  <2>2. \A i \in 1..n : i \in 1..(n-1) <=> i # n
    BY <1>1
  <2>3. \A i \in 1..n : unused[i] = unused[n] => i = n
    BY <1>1
  <2>. QED BY <1>1, <1>3, <2>1, <2>2, <2>3
<1>7. \A i, j \in DOMAIN unused' : unused'[i] = unused'[j] => i = j
  BY <1>1, <1>2, <1>3
<1>. QED BY <1>4, <1>5, <1>6, <1>7

\* The ids in callers' hands after one caller obtains an id.
LEMMA HeldAfterGet ==
    ASSUME TypeOK, NEW c \in Clients, session[c] = 0, NEW id \in 1..MaxUint32,
           session' = [session EXCEPT ![c] = id]
    PROVE  Held' = Held \cup {id}
BY DEF TypeOK, Held

\* An id given back is held by nobody, because sessions are distinct.
LEMMA HeldAfterReclaim ==
    ASSUME TypeOK, SessionsDistinct, NEW c \in Clients, session[c] # 0,
           session' = [session EXCEPT ![c] = 0]
    PROVE  Held' = Held \ {session[c]}
BY DEF TypeOK, Held, SessionsDistinct

\* New establishes the invariant.
LEMMA PoolInit == Init => PoolInv
<1>. SUFFICES ASSUME Init PROVE PoolInv
  OBVIOUS
<1>. USE MaxAssumption DEF Init
<1>1. Held = {} /\ Stacked = {} /\ 1..cur = {}
  BY DEF Held, Stacked
<1>2. tracking \in BOOLEAN
  OBVIOUS
<1>3. TypeOK
  BY <1>2 DEF TypeOK, Outcomes
<1>4. SessionsDistinct /\ TrackingExact /\ IdsAccounted
  BY <1>1 DEF SessionsDistinct, TrackingExact, IdsAccounted
<1>. QED BY <1>3, <1>4 DEF PoolInv

\* Get preserves the invariant, and the id it returns was held by nobody.
LEMMA PoolGet ==
    ASSUME PoolInv, NEW c \in Clients, Get(c)
    PROVE  PoolInv' /\ (~Depleted => NextId \in (1..MaxUint32) \ Held)
<1>. USE MaxAssumption DEF PoolInv
<1>1. CASE Depleted
  <2>1. Held' = Held /\ Stacked' = Stacked
    BY <1>1 DEF Get, Held, Stacked
  <2>2. TypeOK'
    BY <1>1, Zenon DEF Get, TypeOK, Mark, Outcomes
  <2>3. SessionsDistinct' /\ TrackingExact'
    BY <1>1 DEF Get, SessionsDistinct, TrackingExact
  <2>4. IdsAccounted'
    BY <1>1, <2>1 DEF Get, IdsAccounted
  <2>. QED BY <1>1, <2>2, <2>3, <2>4
<1>2. CASE ~Depleted /\ unused # <<>>
  <2>1. unused' = SubSeq(unused, 1, Len(unused) - 1) /\ cur' = cur
    BY <1>2 DEF Get, TakeNext
  <2>2. /\ NextId \in Stacked
        /\ Stacked' = Stacked \ {NextId}
        /\ unused' \in Seq(1..MaxUint32)
        /\ \A i, j \in DOMAIN unused' : unused'[i] = unused'[j] => i = j
    BY <1>2, <2>1, PopStacked DEF IdsAccounted
  <2>3. NextId \in 1..MaxUint32 /\ NextId \notin Held
    BY <2>2 DEF IdsAccounted, TypeOK
  <2>4. session' = [session EXCEPT ![c] = NextId] /\ session[c] = 0
    BY <1>2 DEF Get
  <2>5. Held' = Held \cup {NextId}
    BY <2>3, <2>4, HeldAfterGet, Zenon
  <2>6. TypeOK'
    <3>1. used' \in {used, used \cup {NextId}} /\ outcome' = outcome /\ tracking' = tracking
      BY <1>2 DEF Get, Mark
    <3>2. used' \in SUBSET (0..MaxUint32) /\ outcome' \in Outcomes /\ tracking' \in BOOLEAN
      BY <3>1, <2>3 DEF TypeOK
    <3>. QED BY <2>1, <2>2, <2>3, <2>4, <3>2 DEF TypeOK
  <2>7. SessionsDistinct'
    BY <2>3, <2>4 DEF SessionsDistinct, Held, TypeOK
  <2>8. IdsAccounted'
    BY <2>1, <2>2, <2>3, <2>5 DEF IdsAccounted
  <2>9. TrackingExact'
    BY <1>2, <2>5 DEF Get, TrackingExact, Mark
  <2>. QED BY <2>3, <2>6, <2>7, <2>8, <2>9
<1>3. CASE ~Depleted /\ unused = <<>>
  <2>1. unused' = unused /\ cur' = cur + 1 /\ NextId = cur + 1
    BY <1>3 DEF Get, TakeNext, NextId
  <2>2. cur + 1 \in 1..MaxUint32 /\ cur \in 0..MaxUint32
    BY <1>3 DEF TypeOK, Depleted
  <2>3. Stacked' = Stacked /\ Stacked = {}
    BY <1>3, <2>1 DEF Stacked
  <2>4. NextId \notin Held
    BY <2>1, <2>2 DEF IdsAccounted
  <2>5. session' = [session EXCEPT ![c] = NextId] /\ session[c] = 0
    BY <1>3 DEF Get
  <2>6. Held' = Held \cup {NextId}
    BY <2>1, <2>2, <2>5, HeldAfterGet, Zenon
  <2>7. TypeOK'
    <3>1. used' \in {used, used \cup {NextId}} /\ outcome' = outcome /\ tracking' = tracking
      BY <1>3 DEF Get, Mark
    <3>2. used' \in SUBSET (0..MaxUint32) /\ outcome' \in Outcomes /\ tracking' \in BOOLEAN
      BY <3>1, <2>1, <2>2 DEF TypeOK
    <3>. QED BY <2>1, <2>2, <2>5, <3>2 DEF TypeOK
  <2>8. SessionsDistinct'
    BY <2>4, <2>5 DEF SessionsDistinct, Held, TypeOK
  <2>9. IdsAccounted'
    <3>1. 1..(cur + 1) = (1..cur) \cup {cur + 1}
      BY <2>2
    <3>. QED BY <2>1, <2>3, <2>6, <3>1 DEF IdsAccounted
  <2>10. TrackingExact'
    BY <1>3, <2>6 DEF Get, TrackingExact, Mark
  <2>. QED BY <2>1, <2>2, <2>4, <2>7, <2>8, <2>9, <2>10
<1>. QED BY <1>1, <1>2, <1>3

\* EnableUseTracking finds no id in use, or panics.
LEMMA PoolEnable == ASSUME PoolInv, EnableUseTracking PROVE PoolInv' /\ UNCHANGED session
<1>. USE MaxAssumption DEF PoolInv
<1>1. UNCHANGED <<cur, unused, session>>
  BY DEF EnableUseTracking
<1>2. Held' = Held /\ Stacked' = Stacked
  BY <1>1 DEF Held, Stacked
<1>3. TypeOK' /\ SessionsDistinct'
  BY <1>1, Zenon DEF EnableUseTracking, TypeOK, SessionsDistinct, Outcomes
<1>4. IdsAccounted'
  BY <1>1, <1>2 DEF IdsAccounted
<1>5. TrackingExact'
  <2>1. CASE cur = 0
    <3>1. Held = {}
      BY <2>1 DEF IdsAccounted
    <3>. QED BY <1>2, <3>1, Zenon DEF EnableUseTracking, TrackingExact
  <2>2. CASE cur # 0
    BY <1>2, <2>2, Zenon DEF EnableUseTracking, TrackingExact
  <2>. QED BY <2>1, <2>2
<1>. QED BY <1>1, <1>3, <1>4, <1>5

\* Reclaim of an id by the caller that holds it preserves the invariant.
LEMMA PoolReclaimOwn == ASSUME PoolInv, NEW c \in Clients, ReclaimOwn(c) PROVE PoolInv'
<1>. USE MaxAssumption DEF PoolInv
<1>. DEFINE id == session[c]
<1>1. /\ id \in Held
      /\ id \in 1..MaxUint32
      /\ session[c] # 0
      /\ session' = [session EXCEPT ![c] = 0]
  BY DEF ReclaimOwn, Held, TypeOK
<1>2. tracking => id \in used
  BY <1>1 DEF TrackingExact, ReclaimOwn
<1>3. GiveBack(id) /\ used' = used \ {id} /\ UNCHANGED <<cur, tracking, outcome>>
  BY <1>2 DEF ReclaimOwn, Reclaim
<1>4. Held' = Held \ {id}
  BY <1>1, HeldAfterReclaim, Zenon
<1>. HIDE DEF id
<1>5. id \notin Stacked
  BY <1>1 DEF IdsAccounted
<1>6. /\ Stacked' = Stacked \cup {id}
      /\ unused' \in Seq(1..MaxUint32)
      /\ \A i, j \in DOMAIN unused' : unused'[i] = unused'[j] => i = j
  BY <1>1, <1>3, <1>5, PushStacked DEF IdsAccounted
<1>7. TypeOK'
  BY <1>1, <1>3, <1>6 DEF TypeOK
<1>8. SessionsDistinct'
  BY <1>1 DEF SessionsDistinct, TypeOK
<1>9. IdsAccounted'
  BY <1>1, <1>3, <1>4, <1>6 DEF IdsAccounted
<1>10. TrackingExact'
  BY <1>3, <1>4 DEF TrackingExact
<1>. QED BY <1>7, <1>8, <1>9, <1>10

\* A stale reclaim is always caught, because used is exactly the ids held.
LEMMA PoolReclaimStale ==
    ASSUME PoolInv, NEW id \in 1..MaxUint32, ReclaimStale(id)
    PROVE  PoolInv' /\ UNCHANGED session
<1>. USE DEF PoolInv
<1>1. tracking /\ id \notin used
  BY DEF ReclaimStale, TrackingExact
<1>2. outcome' = "invalidReclaim" /\ UNCHANGED <<cur, unused, used, tracking, session>>
  BY <1>1 DEF ReclaimStale, Reclaim, poolVars
<1>3. Held' = Held /\ Stacked' = Stacked
  BY <1>2 DEF Held, Stacked
<1>4. TypeOK' /\ SessionsDistinct'
  BY <1>2 DEF TypeOK, SessionsDistinct, Outcomes
<1>5. IdsAccounted' /\ TrackingExact'
  BY <1>2, <1>3 DEF IdsAccounted, TrackingExact, ReclaimStale
<1>. QED BY <1>2, <1>4, <1>5

\* Every step of the pool preserves the invariant.
LEMMA PoolStep == PoolInv /\ [Next]_vars => PoolInv'
<1>. SUFFICES ASSUME PoolInv, [Next]_vars PROVE PoolInv'
  OBVIOUS
<1>1. CASE UNCHANGED vars
  <2>1. Held' = Held /\ Stacked' = Stacked
    BY <1>1 DEF vars, Held, Stacked
  <2>2. TypeOK' /\ SessionsDistinct'
    BY <1>1 DEF PoolInv, TypeOK, SessionsDistinct, vars
  <2>3. IdsAccounted' /\ TrackingExact'
    BY <1>1, <2>1 DEF PoolInv, IdsAccounted, TrackingExact, vars
  <2>. QED BY <2>2, <2>3 DEF PoolInv
<1>. QED BY <1>1, PoolEnable, PoolGet, PoolReclaimOwn, PoolReclaimStale DEF Next

\* The pool's invariant holds in every reachable state, whatever sequence of Get
\* and Reclaim its callers make.
THEOREM PoolInvariant == Spec => []PoolInv
BY PoolInit, PoolStep, PTL DEF Spec

\* Sessions are distinct for every number of connections (Get, Reclaim).
THEOREM PoolSessionsDistinct == Spec => []SessionsDistinct
<1>1. PoolInv => SessionsDistinct
  BY DEF PoolInv
<1>. QED BY <1>1, PoolInvariant, PTL

\* Ids are conserved: no id is lost, and none is on the stack twice or on the
\* stack while a caller holds it.
THEOREM PoolIdsAccounted == Spec => []IdsAccounted
<1>1. PoolInv => IdsAccounted
  BY DEF PoolInv
<1>. QED BY <1>1, PoolInvariant, PTL

\* With use tracking the used map of the pool is exactly the ids in callers' hands,
\* so that Reclaim's check refuses a stale id and never an id that is in use.
THEOREM PoolTracking == Spec => []TrackingExact
<1>1. PoolInv => TrackingExact
  BY DEF PoolInv
<1>. QED BY <1>1, PoolInvariant, PTL

\* Get panics with "SessionPool depleted" only when every id is in use.
THEOREM PoolDepletion == Spec => []DepletedOnlyWhenFull
<1>1. Init => DepletedOnlyWhenFull
  BY DEF Init, DepletedOnlyWhenFull
<1>2. PoolInv /\ DepletedOnlyWhenFull /\ [Next]_vars => DepletedOnlyWhenFull'
  <2>. SUFFICES ASSUME PoolInv, DepletedOnlyWhenFull, [Next]_vars,
                       outcome' = "depleted"
                PROVE  Held' = 1..MaxUint32
    BY DEF DepletedOnlyWhenFull
  <2>1. CASE UNCHANGED vars
    BY <2>1 DEF vars, Held, DepletedOnlyWhenFull
  <2>2. ASSUME NEW c \in Clients, Get(c) PROVE Held' = 1..MaxUint32
    <3>1. Depleted /\ session' = session
      BY <2>2 DEF Get
    <3>2. Stacked = {} /\ Held' = Held
      BY <3>1 DEF Depleted, Stacked, Held
    <3>. QED BY <3>1, <3>2 DEF PoolInv, IdsAccounted, Depleted
  <2>3. ASSUME NEW c \in Clients, ReclaimOwn(c) PROVE FALSE
    BY <2>3 DEF ReclaimOwn, Reclaim
  <2>4. ASSUME NEW id \in 1..MaxUint32, ReclaimStale(id) PROVE FALSE
    BY <2>4 DEF ReclaimStale, Reclaim
  <2>5. ASSUME EnableUseTracking PROVE FALSE
    BY <2>5 DEF EnableUseTracking
  <2>. QED BY <2>1, <2>2, <2>3, <2>4, <2>5 DEF Next
<1>. QED BY <1>1, <1>2, PoolInvariant, PTL DEF Spec

\* Every behaviour of the pool is one of the allocator of distinct ids.
THEOREM PoolImplementsSessionIds == Spec => ImplementsSessionIds
<1>1. Init => Abstract!Init
  BY DEF Init, Abstract!Init
<1>2. PoolInv /\ [Next]_vars => [Abstract!Next]_session
  <2>. SUFFICES ASSUME PoolInv, [Next]_vars PROVE [Abstract!Next]_session
    OBVIOUS
  <2>1. CASE UNCHANGED vars
    BY <2>1 DEF vars
  <2>2. ASSUME NEW c \in Clients, Get(c) PROVE [Abstract!Next]_session
    <3>1. CASE Depleted
      BY <2>2, <3>1 DEF Get
    <3>2. CASE ~Depleted
      <4>1. NextId \in (1..MaxUint32) \ Held
        BY <2>2, <3>2, PoolGet
      <4>2. session[c] = 0 /\ session' = [session EXCEPT ![c] = NextId]
        BY <2>2, <3>2 DEF Get
      <4>3. Abstract!Acquire(c)
        BY <4>1, <4>2, Zenon DEF Abstract!Acquire, Abstract!Held, Held
      <4>. QED BY <4>3 DEF Abstract!Next
    <3>. QED BY <3>1, <3>2
  <2>3. ASSUME NEW c \in Clients, ReclaimOwn(c) PROVE [Abstract!Next]_session
    BY <2>3, Zenon DEF ReclaimOwn, Abstract!Next, Abstract!Release
  <2>4. ASSUME NEW id \in 1..MaxUint32, ReclaimStale(id) PROVE [Abstract!Next]_session
    BY <2>4 DEF ReclaimStale
  <2>5. ASSUME EnableUseTracking PROVE [Abstract!Next]_session
    BY <2>5 DEF EnableUseTracking
  <2>. QED BY <2>1, <2>2, <2>3, <2>4, <2>5 DEF Next
<1>. QED BY <1>1, <1>2, PoolInvariant, PTL DEF Spec, ImplementsSessionIds, Abstract!Spec
=============================================================================
