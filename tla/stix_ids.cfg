SPECIFICATION ExportSpec
CONSTANTS
    MaxU32 = 3
    Weights <- MCWeights
    OverflowChecks = TRUE
    Handlers = {h1}
    Secrets <- MCSecrets
    Indicators <- MCIndicators
    Raws <- MCRaws
    HashOf <- MCHashOf
    NoRaw = NoRaw
    Strings <- MCRaws
    Trimmed <- MCTrimmed
    Passes <- MCPasses
    Epochs <- MCEpochs
    Roots = {root}
    CredentialRoots = {issuer}
    Issued <- MCIssued
    RootsFile <- MCRootsFile
    Comment = Comment
    NotAField = NotAField
    MalformedProof = MalformedProof
    Requests <- MCRequests
    Queries = {}
    Nothing = Nothing
    Thresholds = {1, 2}
    ToIdsThreshold = 50
    FullConfidence = 3
    NoExport = NoExport
    s1 = s1
    s2 = s2
    i1 = i1
    i2 = i2
    rawA = rawA
    rawB = rawB
    trimB = trimB
    rawC = rawC
    root = root
    issuer = issuer
INVARIANTS
    StixIdsAreStable
