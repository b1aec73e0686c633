------------------------ MODULE MCConnectionLimits --------------------------
EXTENDS ConnectionLimits, TLC

CONSTANTS k1, k2, k3, k4, hA, hB, reader, handler

MCConns == {k1, k2, k3, k4}
MCHosts == {hA, hB}
MCHostOf == (k1 :> hA) @@ (k2 :> hB) @@ (k3 :> hA) @@ (k4 :> hB)
MCListeners == {"raw_tcp", "websocket"}
MCListenerOf == (k1 :> "websocket") @@ (k2 :> "raw_tcp")
                @@ (k3 :> "websocket") @@ (k4 :> "raw_tcp")
BothClosers == {reader, handler}
ReaderOnly == {reader}
=============================================================================
