SPECIFICATION FairSpec
CONSTANTS
    c1 = c1
    c2 = c2
    c3 = c3
    bA = bA
    bB = bB
    u1 = u1
    u2 = u2
    u3 = u3
    NoClient = NoClient
    NoBoard = NoBoard
    Clients <- ThreeClients
    Boards <- MCBoards
    BoardOf <- AllA
    Users <- MCUsers
    UserOf <- DistinctUsers
    Creators <- None
    Writers <- None
    Movers <- None
    MaxChan = 3
CHECK_DEADLOCK FALSE
INVARIANTS
    ScopedStaysHome
    SameBoardAudible
    RoomsAreUsed
    HandlerNeverBlocks
PROPERTIES
    AuthenticationCompletes
