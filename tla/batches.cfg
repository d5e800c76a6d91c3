SPECIFICATION Spec
CONSTANTS
    MaxU32 = 2
    Weights <- MCWeights
    Observations <- MCObservations
    MaxBatch = 3
    MaxLog = 4
    n1 = n1
    n2 = n2
    n3 = n3
    n4 = n4
    i1 = i1
    i2 = i2
INVARIANTS
    BatchesMatchReference
    OrderIrrelevant
    PanicOnlyLoses
\* The log is bounded, and a panic ends the caller.
CHECK_DEADLOCK FALSE
