CONSTANTS
    c1 = c1
    c2 = c2
    c3 = c3
    Coins <- MCCoins
    NoCoin = NoCoin
    MaxBuilt = 2
    Paths = {"balance"}
    PruneWhen = {}
    Forgets = {}
    Lossy = FALSE
SYMMETRY Symmetry
SPECIFICATION Spec
PROPERTIES PruneOnlyConfirmed
