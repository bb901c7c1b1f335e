SPECIFICATION FairSpec
CONSTANTS
    Tip = 4
    MaxShort = 3
    ChunkSize = 2
    States <- MCStates
    Events <- MCEvents
    Apply <- MCApply
    Inputs <- MCInputs
    Idle = Idle
    Waiting = Waiting
    Null = Null
    Unreadable = Unreadable
INVARIANTS
    TypeOK
    HoldsOneChunk
    GoodFilesReplay
PROPERTY
    ImplementsSinglePass
    CallsFinish
