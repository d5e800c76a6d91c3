SPECIFICATION FairSpec
CONSTANTS
    MaxU32 = 2
    Weights <- MCZeroWeights
    OverflowChecks = TRUE
    Handlers = {h1, h2}
    Secrets <- MCSecrets
    Indicators <- MCIndicators
    Raws <- MCRaws
    HashOf <- MCHashOf
    NoRaw = NoRaw
    Epochs <- MCEpochs
    Roots = {root}
    CredentialRoots <- MCCredentialRoots
    Issued <- MCIssued
    RootsFile <- MCRootsFile
    Comment = Comment
    NotAField = NotAField
    MalformedProof = MalformedProof
    Requests <- MCRequests
    Queries <- MCQueries
    Nothing = Nothing
    s1 = s1
    s2 = s2
    s3 = s3
    i1 = i1
    i2 = i2
    rawA = rawA
    rawB = rawB
    rawC = rawC
    root = root
    trusted = trusted
    throwaway = throwaway
INVARIANTS
    NothingHalfApplied
    AcceptedScoresSerialise
    QueriesAreSnapshots
PROPERTIES
    NothingRegresses
    PoisonFreezes
    EveryHandlerEnds
    ImplementsLedger
