CONSTANTS
    c1 = c1
    c2 = c2
    c3 = c3
    Coins <- MCCoins
    NoCoin = NoCoin
    MaxBuilt = 2
    Paths = {"balance", "serialize"}
    PruneWhen = {}
    Forgets = {}
    Lossy = TRUE
SYMMETRY Symmetry
SPECIFICATION Spec
INVARIANTS NeverDoubleSpent
