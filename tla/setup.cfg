SPECIFICATION Spec
CONSTANTS
    Scalars <- MCScalars
    Zero = 0
    One = 1
    Mul <- MCMul
    Inv <- MCInv
    Add <- MCAdd
    Sub <- MCSub
    RootOfUnity <- MCRoot
    FromNat <- MCFromNat
    Matrices <- MCMatrices
    Constraints = 2
    Instances = 2
    Variables = 4
    Contributors = {c1, c2, c3}
    Secrets <- MCSecrets
    Points <- MCPoints
    Sizes = {2, 4, 5}
    Factor = 2
    MaxHops = 1
    NoOffer = NoOffer
    NoParams = NoParams
    TooSmall = TooSmall
    Assignments <- MCAssignments
    Blinds <- MCBlinds
    c1 = c1
    c2 = c2
    c3 = c3
CHECK_DEADLOCK FALSE
INVARIANTS
    PowersOfOneTau
    EachSecretCountsOnce
    HonestOfferVerifies
    KeyProves
    BridgedHopVerifies
