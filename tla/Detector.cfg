\* Three kinds of event, thresholds 2, 3 and none: a window of two ticks ends and
\* others begin, with readings up to one tick old.  Nobody has to cause an event.
CONSTANTS
    None = None
    k1 = k1
    Keys = {k1}
    Observed = {"wrong_code", "identity_mismatch", "consumed_replay"}
    WrongCode = 2
    RepeatedStart = 2
    IdentityMismatch = 3
    Window = 2
    MaxLag = 1
    MaxTime = 5
    MaxObservations = 5
CHECK_DEADLOCK FALSE
SPECIFICATION Spec
INVARIANTS
    DetectorTypeOK
    ReportEarned
    OneReportPerWindow
    BurstReported
