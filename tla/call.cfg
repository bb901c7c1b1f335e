SPECIFICATION Spec
CONSTANTS
    Margin = 2
    MaxWindow = 3
    FeeBlocks = 1
    Overhead = 20
    Hour = 5
    Ceilings <- MCCeilings
    MaxPrice = 3
    MaxSkew = 2
    MaxTime = 5
    CallFee <- MCCallFee
    DustFee <- MCDustFee
    MergedFee <- MCMergedFee
    KeyFiles = {"prover", "params"}
    None = None
INVARIANTS
    TypeOK
    SignatureStaysValid
    TimelyCallAccepted
    LeavesACore
