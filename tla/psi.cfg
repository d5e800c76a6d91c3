SPECIFICATION Spec
CONSTANTS
    Queriers = {p, q}
    Texts = {evil, Evil, worse}
    Indicators = {evil, worse}
    Normal <- MCNormal
    HolderKeys = {k1, k2}
    QuerierKeys = {a1, a2}
    Lists <- MCLists
    WordValues = 8
    MaxSets = 2
    NoSet = NoSet
    NoQuery = NoQuery
    evil = evil
    Evil = Evil
    worse = worse
    k1 = k1
    k2 = k2
    a1 = a1
    a2 = a2
    p = p
    q = q
SYMMETRY Alike
CHECK_DEADLOCK FALSE
INVARIANTS
    FoundIsTrue
    NothingMissed
    WireTellsNothing
PROPERTIES
    OrderIsHidden
    ImplementsOracle
