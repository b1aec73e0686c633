---------------------------- MODULE SessionPool -----------------------------
(* The reuse pool for session ids, pkg/sessionpool.  cur, unused and used are  *)
(* the fields of the Go struct, tracking says whether used is not nil.  Get    *)
(* and Reclaim hold the pool's mutex from their first line to their last, so   *)
(* each is a single action.  session records which connection holds which id,  *)
(* outcome what a method did last: a panic ends the program.                   *)
EXTENDS Integers, Sequences

CONSTANTS Clients,       \* callers: each holds at most one id
          MaxUint32      \* math.MaxUint32, small in the models

ASSUME MaxAssumption == MaxUint32 \in Nat \ {0}

VARIABLES cur, unused, used, tracking, session, outcome

poolVars == <<cur, unused, used, tracking>>
vars == <<cur, unused, used, tracking, session, outcome>>

Outcomes == {"ok", "depleted", "invalidReclaim", "trackingTooLate"}

Held == {session[c] : c \in Clients} \ {0}
Stacked == {unused[i] : i \in DOMAIN unused}

-----------------------------------------------------------------------------
Init == /\ cur = 0
        /\ unused = <<>>
        /\ used = {}
        /\ tracking = FALSE
        /\ session = [c \in Clients |-> 0]
        /\ outcome = "ok"

\* Use tracking can only be enabled on a pool that has not issued an id.
EnableUseTracking ==
    /\ outcome = "ok"
    /\ IF unused # <<>> \/ cur # 0
       THEN /\ outcome' = "trackingTooLate"
            /\ UNCHANGED <<used, tracking>>
       ELSE /\ used' = {}
            /\ tracking' = TRUE
            /\ UNCHANGED outcome
    /\ UNCHANGED <<cur, unused, session>>

\* Faulty: reads the bottom of the stack that Get pops from the top.
NextIdBottom == IF unused # <<>> THEN unused[1] ELSE cur + 1

\* The id the next successful Get returns: the top of the stack, or a new one.
NextId == IF unused # <<>> THEN unused[Len(unused)] ELSE cur + 1

\* Faulty: does not pop the stack.
TakeNextWithoutPop == UNCHANGED unused /\ cur' = IF unused # <<>> THEN cur ELSE cur + 1

\* What Get does to the stack and the counter when it returns an id.
TakeNext ==
    IF unused # <<>>
    THEN /\ unused' = SubSeq(unused, 1, Len(unused) - 1)
         /\ cur' = cur
    ELSE /\ unused' = unused
         /\ cur' = cur + 1

\* Faulty: does not look at the stack.
DepletedIgnoringStack == cur = MaxUint32

Depleted == unused = <<>> /\ cur = MaxUint32

\* The deferred function marks the id as used when Get panics as well; the
\* result is still 0 then.
Mark(id) == used' = IF tracking THEN used \cup {id} ELSE used

Get(c) ==
    /\ outcome = "ok"
    /\ session[c] = 0
    /\ IF Depleted
       THEN /\ outcome' = "depleted"
            /\ Mark(0)
            /\ UNCHANGED <<cur, unused, session>>
       ELSE /\ TakeNext
            /\ Mark(NextId)
            /\ session' = [session EXCEPT ![c] = NextId]
            /\ UNCHANGED outcome
    /\ UNCHANGED tracking

\* Faulty: the id is forgotten.
GiveBackNothing(id) == UNCHANGED unused

GiveBack(id) == unused' = Append(unused, id)

\* Faulty: leaves the id marked.
ReclaimStaysMarked(id) ==
    IF tracking /\ id \notin used
    THEN outcome' = "invalidReclaim" /\ UNCHANGED poolVars
    ELSE GiveBack(id) /\ UNCHANGED <<used, cur, tracking, outcome>>

Reclaim(id) ==
    IF tracking /\ id \notin used
    THEN /\ outcome' = "invalidReclaim"
         /\ UNCHANGED poolVars
    ELSE /\ GiveBack(id)
         /\ used' = used \ {id}
         /\ UNCHANGED <<cur, tracking, outcome>>

\* A caller gives back the id it holds, once.
ReclaimOwn(c) ==
    /\ outcome = "ok"
    /\ session[c] # 0
    /\ Reclaim(session[c])
    /\ session' = [session EXCEPT ![c] = 0]

\* A caller reclaims an id that nobody holds: one given back before, or one
\* that was never issued.  Without use tracking the pool cannot tell, and trusts
\* its callers not to.
ReclaimStale(id) ==
    /\ tracking
    /\ outcome = "ok"
    /\ id \notin Held
    /\ Reclaim(id)
    /\ UNCHANGED session

Next == \/ EnableUseTracking
        \/ \E c \in Clients : Get(c)
        \/ \E c \in Clients : ReclaimOwn(c)
        \/ \E id \in 1..MaxUint32 : ReclaimStale(id)

Spec == Init /\ [][Next]_vars

-----------------------------------------------------------------------------
\* The counter never passes math.MaxUint32 (Get panics first) and the stack holds
\* ids that Get has returned.
TypeOK == /\ cur \in 0..MaxUint32
          /\ unused \in Seq(1..MaxUint32)
          /\ used \in SUBSET (0..MaxUint32)
          /\ tracking \in BOOLEAN
          /\ session \in [Clients -> 0..MaxUint32]
          /\ outcome \in Outcomes

\* No two live connections have the same session id: server.clients and the
\* member map of every channel are keyed by it.
SessionsDistinct ==
    \A c, d \in Clients : c # d /\ session[c] = session[d] => session[c] = 0

\* Every id minted so far is either held by exactly its caller or waits on the
\* stack, once: no id is lost and none can be handed out twice.
IdsAccounted ==
    /\ Stacked \cup Held = 1..cur
    /\ Stacked \cap Held = {}
    /\ \A i, j \in DOMAIN unused : unused[i] = unused[j] => i = j

\* The depletion panic of Get means what it says: all ids are in use.
DepletedOnlyWhenFull == outcome = "depleted" => Held = 1..MaxUint32

\* With use tracking, used is exactly the set of ids that callers hold.
TrackingExact == tracking /\ outcome # "depleted" => used = Held

\* The pool implements the allocator of distinct ids.
Abstract == INSTANCE SessionIds
ImplementsSessionIds == Abstract!Spec
=============================================================================
