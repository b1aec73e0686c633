SPECIFICATION Spec
CONSTANTS
    c1 = c1
    c2 = c2
    c3 = c3
    u1 = u1
    NoClient = NoClient
    NoUser = NoUser
    Clients <- ThreeClients
    UserOf <- OneUser
    Leavers <- OnlyC1
    Refused <- OnlyC1
    Senders <- OnlyC1
    Kinds <- All
    MaxSession = 2
    MaxMsgs = 1
    Opus = TRUE
CHECK_DEADLOCK FALSE
INVARIANTS
    ReadyClientsFound
    
    
    LiveSessionsDistinct
    OneClientPerUser
