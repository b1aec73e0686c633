SPECIFICATION Spec
CONSTANTS
    su = su
    c1 = c1
    c2 = c2
    Clients <- MCClients
    Uid <- MCUid
    LastChannel <- MCLastChannel
    Names <- MCNames
    Edits <- MCEdits
    AclMessages <- MCAclMessages
    UserStates <- MCUserStates
    TargetMessages <- MCTargetMessages
    Whisperers <- OnlyC2
    Senders <- SuAndC1
    Leavers <- OnlyC1
    MaxChan = 3
    MaxOps = 3
CHECK_DEADLOCK FALSE
INVARIANTS
    OneTree
    ClientsHaveChannel
    PermissionsExact
    
    EmptyTemporariesGo
    
