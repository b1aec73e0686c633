----------------------------- MODULE SessionIds -----------------------------
(* What the rest of the server relies on when it asks the session pool for an  *)
(* id: every live connection has a session id of its own, and 0 is never one.  *)
(* Which free id is handed out is left open.                                   *)
EXTENDS Naturals

CONSTANTS Clients,      \* the connections that may ask for a session id
          MaxUint32     \* the largest session id

VARIABLE session        \* session[c]: the id held by connection c, 0 for none

Held == {session[c] : c \in Clients} \ {0}

Init == session = [c \in Clients |-> 0]

Acquire(c) ==
    /\ session[c] = 0
    /\ \E id \in (1..MaxUint32) \ Held : session' = [session EXCEPT ![c] = id]

Release(c) ==
    /\ session[c] # 0
    /\ session' = [session EXCEPT ![c] = 0]

Next == \E c \in Clients : Acquire(c) \/ Release(c)

Spec == Init /\ [][Next]_session
=============================================================================
