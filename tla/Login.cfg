\* A second is 3 ticks; an interval of 5 is told as 3, and slowed to 4 and 6.
CONSTANTS
    None = None
    v1 = v1
    Names <- MCNames
    normalize <- MCNormalize
    Verifiers = {v1}
    TypedCodes <- MCCodes
    UserCodes = {"ABCD-2345"}
    normalizeUserCode <- MCNormalizeUserCode
    SessionTTL = 8
    PollInterval = 5
    ArtifactTTL = 4
    maxApproveAttempts = 1
    Programs = {"login", "sshd"}
    Hints = {"alice"}
    t1 = t1
    Tabs = {t1}
    Second = 3
    HTTPTimeout = 1
SPECIFICATION FairSpec
INVARIANTS
    LoginTypeOK
    LoginMeansApproval
    SlowDownsBounded
    ArtifactNotWasted
PROPERTIES
    EveryLoginEnds
    ApprovalIsDelivered
CHECK_DEADLOCK FALSE
