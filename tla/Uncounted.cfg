\* One request at a time, wrong codes up to the limit.
CONSTANTS
    None = None
    s1 = s1
    s2 = s2
    w1 = w1
    w2 = w2
    b1 = b1
    b2 = b2
    v1 = v1
    v2 = v2
    alice = alice
    mallory = mallory
    Names <- TwoNames
    normalize <- TwoNormalize
    Verifiers = {v1}
    TypedCodes <- TwoTypedCodes
    UserCodes <- MCUserCodes
    normalizeUserCode <- TwoNormalizeUserCode
    SessionTTL = 1
    PollInterval = 1
    ArtifactTTL = 1
    maxApproveAttempts = 2
    Sessions = {s1}
    Browsers = {b1}
    Workers = {w1}
    Overlap = FALSE
    Faults = FALSE
    MaxTime = 0
    LastStart = 0
    MaxDraws = 2
    MaxCollisions = 0
SYMMETRY Symmetry
SPECIFICATION Spec
INVARIANTS
    AbuseIsCounted
