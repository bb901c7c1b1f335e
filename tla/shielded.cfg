SPECIFICATION Spec
CONSTANTS
    c1 = c1
    c2 = c2
    c3 = c3
    x1 = x1
    x2 = x2
    Coins <- MCCoins
    Value <- MCValue
    Amounts = {1, 3}
    Transfers <- MCTransfers
    NoState = NoState
    Serialised = TRUE
    SaveFirst = TRUE
SYMMETRY Symmetry
INVARIANTS
    TypeOK
    NoCoinTwice
    SelectsWhatIsThere
PROPERTY
    NothingLost
    ImplementsSpendOnce
