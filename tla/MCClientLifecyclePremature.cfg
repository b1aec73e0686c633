SPECIFICATION Spec
CONSTANTS
    c1 = c1
    c2 = c2
    c3 = c3
    u1 = u1
    NoClient = NoClient
    NoUser = NoUser
    Clients <- TwoClients
    UserOf <- NoUsers
    Leavers <- TwoClients
    Refused <- TwoClients
    Senders <- TwoClients
    Kinds <- Silent
    MaxSession = 2
    MaxMsgs = 0
    Opus = TRUE
CHECK_DEADLOCK FALSE
INVARIANTS
    ReadyClosedOnce
