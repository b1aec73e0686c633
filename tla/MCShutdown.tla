----------------------------- MODULE MCShutdown -----------------------------
(* Two connections, one of which sends voice and one of which may have clients *)
(* removed; the queue holds one.  The configurations are those that Start and  *)
(* Stop tell apart, without Teamlancer mode with both web and raw TCP: all its *)
(* goroutines are those of Legacy(TRUE), which has the UDP loop as well.       *)
EXTENDS Shutdown

CONSTANTS c1, c2

Two == {c1, c2}
First == {c1}
Second == {c2}
None == {}

Teamlancer(http, public, raw, secret) ==
    [teamlancer |-> TRUE, web |-> http, public |-> public, raw |-> raw, secret |-> secret]

Legacy(http) ==
    [teamlancer |-> FALSE, web |-> http, public |-> FALSE, raw |-> TRUE, secret |-> FALSE]

WebOnly == Teamlancer(TRUE, TRUE, FALSE, TRUE)

MCConfigs ==
    {WebOnly, Legacy(TRUE), Legacy(FALSE),
     Teamlancer(TRUE, FALSE, TRUE, TRUE),    \* ENABLE_PUBLIC_WEBSOCKET is not set
     Teamlancer(FALSE, FALSE, TRUE, TRUE),   \* raw TCP only
     Teamlancer(TRUE, TRUE, TRUE, FALSE)}    \* the secret is missing

OnlyWeb == {WebOnly}
=============================================================================
