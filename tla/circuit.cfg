SPECIFICATION Spec
CONSTANTS
    Contributors = {p, q}
    Prime = 7
    Texts = {evil, evil0}
    Normal <- MCNormal
    ChunkBytes = 2
    Epochs = {1, 2}
    Rosters <- MCRosters
    Depth = 2
    Places = {2, 3}
    MaxTrees = 2
    MaxProofs = 2
    p = p
    q = q
    other = other
    evil = evil
    evil0 = evil0
CHECK_DEADLOCK FALSE
INVARIANTS
    TierIsBacked
    ObservationWasPublished
    OneNullifierEach
    IndicatorsKeptApart
    HonestProverSucceeds
