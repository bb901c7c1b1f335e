SPECIFICATION CSpec
CONSTANTS
    t1 = t1
    t2 = t2
    Threads = {t1, t2}
    MaxHandle = 3
    Modulus = 2
    OpNames = {"post"}
    Data <- MCData
    Programs <- MCPrograms
    Traps <- MCTraps
    Effect <- MCEffect
    Result <- MCResult
    ReplayResult <- MCReplayResult
    Results <- MCData
    Parsed <- MCParsed
    NoState = NoState
    NoProgram = NoProgram
    NoThread = NoThread
    Shared = FALSE
    MaxQueries = 2
INVARIANTS
    CTypeOK
    FreedStaysGone
    SnapshotCurrent
    TranscriptMatchesPool
    HonestCallAssembles
PROPERTY
    ImplementsAtomicPool
