SPECIFICATION Spec
CONSTANTS
    Servers = {s1}
    Provers = {c1}
    MaxRuns = 3
    Torn = Torn
    s1 = s1
    c1 = c1
INVARIANTS
    OkMeansPair
    ServiceIsPredictable
