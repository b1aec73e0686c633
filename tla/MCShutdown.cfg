CONSTANTS
    c1 = c1
    c2 = c2
    Conns <- Two
    AcceptQueueSize = 1
    Configs <- MCConfigs
    Talkers <- First
    Kickers <- Second
SPECIFICATION FairSpec
INVARIANTS
    WaitGroupExact
    CloseIsThorough
    StopLeavesNobody
    ReadyExact
 
CHECK_DEADLOCK FALSE
