SPECIFICATION FairSpec
CONSTANTS
    c1 = c1
    c2 = c2
    c3 = c3
    u1 = u1
    NoClient = NoClient
    NoUser = NoUser
    Clients <- TwoClients
    UserOf <- NoUsers
    Leavers <- OnlyC1
    Refused <- OnlyC1
    Senders <- TwoClients
    Kinds <- OldVoice
    MaxSession = 2
    MaxMsgs = 2
    Opus = FALSE
CHECK_DEADLOCK FALSE
PROPERTIES
    AuthenticationEnds
    
    
