SPECIFICATION Spec
CONSTANTS
    c1 = c1
    c2 = c2
    c3 = c3
    c4 = c4
    Clients <- MCClients
    MaxUint32 = 3
CHECK_DEADLOCK FALSE
INVARIANTS
    SessionsDistinct
    IdsAccounted
    DepletedOnlyWhenFull
    TrackingExact
PROPERTY
    ImplementsSessionIds
