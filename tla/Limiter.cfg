\* Two keys, a burst of two, a token every two ticks, forgotten after four.
CONSTANTS
    None = None
    k1 = k1
    k2 = k2
    Keys = {k1, k2}
    Cost = 2
    Burst = 2
    IdleTTL = 4
    MaxTime = 12
SYMMETRY Symmetry
SPECIFICATION Spec
INVARIANTS
    LimiterTypeOK
    WithinBudget
PROPERTIES
    ImplementsTokenBucket
