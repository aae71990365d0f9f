\* Two requests of one session at a time, two browsers; the clock stands still.
CONSTANTS
    None = None
    s1 = s1
    s2 = s2
    w1 = w1
    w2 = w2
    b1 = b1
    b2 = b2
    v1 = v1
    v2 = v2
    alice = alice
    mallory = mallory
    Names <- TwoNames
    normalize <- TwoNormalize
    Verifiers = {v1}
    TypedCodes <- TwoTypedCodes
    UserCodes <- MCUserCodes
    normalizeUserCode <- TwoNormalizeUserCode
    SessionTTL = 1
    PollInterval = 1
    ArtifactTTL = 1
    maxApproveAttempts = 1
    Sessions = {s1}
    Browsers = {b1, b2}
    Workers = {w1, w2}
    Overlap = TRUE
    Faults = FALSE
    MaxTime = 0
    LastStart = 0
    MaxDraws = 3
    MaxCollisions = 1
SYMMETRY Symmetry
SPECIFICATION Spec
INVARIANTS
    TypeOK
    ReleaseJustified
    ConsumedMeansReleased
    PageOnlyToSignedInBrowser
    DecisionOnDisplayedSession
    ReleasesBounded
    AttemptsBounded
PROPERTIES
    TerminalIsFinal
    ImplementsSingleUseLogin
