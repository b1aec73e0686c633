SPECIFICATION Spec
CONSTANTS
    k1 = k1
    k2 = k2
    k3 = k3
    k4 = k4
    hA = hA
    hB = hB
    reader = reader
    handler = handler
    Conns <- MCConns
    Hosts <- MCHosts
    HostOf <- MCHostOf
    Listeners <- MCListeners
    ListenerOf <- MCListenerOf
    Closers <- BothClosers
    MaxConnections = 2
    MaxConnectionsPerIP = 1
CHECK_DEADLOCK FALSE
INVARIANTS
    NoSlotLeaks
    LimitsHoldIfReleasedOnce
