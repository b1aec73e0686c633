SPECIFICATION Spec
CONSTANTS
    k1 = k1
    k2 = k2
    k3 = k3
    k4 = k4
    hA = hA
    hB = hB
    reader = reader
    handler = handler
    Conns <- MCConns
    Hosts <- MCHosts
    HostOf <- MCHostOf
    Listeners <- MCListeners
    ListenerOf <- MCListenerOf
    Closers <- ReaderOnly
    MaxConnections = 2
    MaxConnectionsPerIP = 2
CHECK_DEADLOCK FALSE
INVARIANT
    GlobalCapHolds
