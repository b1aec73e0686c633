SPECIFICATION Spec
CONSTANTS
    c1 = c1
    c2 = c2
    c3 = c3
    bA = bA
    bB = bB
    u1 = u1
    u2 = u2
    u3 = u3
    NoClient = NoClient
    NoBoard = NoBoard
    Clients <- ThreeClients
    Boards <- MCBoards
    BoardOf <- ABNone
    Users <- MCUsers
    UserOf <- DistinctUsers
    Creators <- OnlyC1
    Writers <- C1AndC3
    Movers <- OnlyC3
    MaxChan = 2
CHECK_DEADLOCK FALSE
INVARIANTS
    OwnersRespected
    BoardsNeverShareRoom
    CrossBoardSilence
