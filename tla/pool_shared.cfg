SPECIFICATION FairSpec
CONSTANTS
    t1 = t1
    t2 = t2
    Threads = {t1, t2}
    MaxHandle = 2
    Modulus = 1
    OpNames = {}
    Data <- MCData
    Programs <- MCPrograms
    Traps <- MCTraps
    Effect <- MCEffect
    Result <- MCResult
    Results <- MCData
    Parsed <- MCParsed
    NoState = NoState
    NoProgram = NoProgram
    NoThread = NoThread
    Shared = TRUE
INVARIANTS
    FreshHandles
    DisjointHandles
    NeverWaitsHoldingLock
PROPERTIES
    CallsReturn
    OnlyWriteBacksRevive
