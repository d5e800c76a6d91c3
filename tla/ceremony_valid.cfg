SPECIFICATION Spec
CONSTANTS
    Scalars <- MCScalars
    Zero = 0
    One = 1
    Mul <- MCMul
    Inv <- MCInv
    HQuery <- MCQuery
    LQuery <- MCQuery2
    Setups = {setup1, setup2}
    ZeroHash = ZeroHash
    Contributors = {c1, c2}
    Initialisers = {init2}
    Coordinator = Coordinator
    Secret <- MCSecrets
    Nonce <- MCNonces
    FirstSetup = setup1
    SetupOf <- MCSetupOf
    Crews <- MCCrews
    Hole = Hole
    NoParams = NoParams
    c1 = c1
    c2 = c2
    init2 = init2
    setup1 = setup1
    setup2 = setup2
CHECK_DEADLOCK FALSE
INVARIANTS
    ValidMeansUsable
