---------------------------- MODULE DurableStore ----------------------------
(* What the data directory promises: a value that only a running server        *)
(* changes.  Stopping, crashing and starting leave it as it is.                *)
VARIABLES value, running

Init == value = {} /\ running = FALSE

Update == running /\ running' /\ value' # value

StartOrEnd == running' # running /\ value' = value

Spec == Init /\ [][Update \/ StartOrEnd]_<<value, running>>
=============================================================================
