SPECIFICATION Spec
CONSTANTS
    c1 = c1
    c2 = c2
    b1 = b1
    b2 = b2
    pw = pw
    tex = tex
    NoBlob = NoBlob
    Clients <- MCClients
    UserNames <- MCUserNames
    ChannelNames <- MCChannelNames
    Bans <- MCBans
    Expirable <- OnlyB1
    Passwords <- MCPasswords
    Blobs <- MCBlobs
    LogOpsBeforeSync = 2
    MaxOps = 2
    MaxChan = 3
    MaxUser = 2
    MaxBoots = 2
CHECK_DEADLOCK FALSE
INVARIANTS
    
    RecoveryExact
PROPERTIES
    BansAreDurable
