SPECIFICATION Spec
CONSTANTS
    t1 = t1
    t2 = t2
    Threads = {t1, t2}
    MaxHandle = 2
    Modulus = 2
    OpNames = {"post"}
    Data <- MCData
    Programs <- MCPrograms
    Traps <- MCTraps
    Effect <- MCEffect
    Result <- MCResult
    Results <- MCData
    Parsed <- MCParsed
    NoState = NoState
    NoProgram = NoProgram
    NoThread = NoThread
    Shared = TRUE
INVARIANTS
    FreedStaysGone
