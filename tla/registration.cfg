SPECIFICATION FairSpec
CONSTANTS
    Purses <- MCPurses
    Value <- MCValue
    Rate = 1
    Ratio = 2
    FeeMargin = 1
    MaxFee = 3
    MaxAge = 3
    MaxMoves = 1
    Guards = {"settled", "synced", "unmarked"}
    None = None
INVARIANTS
    TypeOK
    NeverRegistersTwice
    MaturedIsAccepted
PROPERTIES
    RefusesOnlyUnpayable
    LoopEnds
