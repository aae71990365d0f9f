\* Ticks of 500 ms, as in the code; attempts of up to 2 s.
CONSTANTS
    None = None
    FirstBackoff = 1
    BackoffLimit = 10
    Deadline = 60
    AttemptTime = 4
    Sessions = {"s1", "s2"}
    Names = {"alice"}
    Missing = Missing
    Empty = Empty
    Methods = {"otp"}
    RequiredAMR = {"otp"}
    MaxDraws = 3
    MaxAnswers = 2
SPECIFICATION FairSpec
INVARIANTS
    IdPTypeOK
    SlowIdPIsFound
    AnswersOwnLogin
PROPERTIES
    BootEndsUnlessHung
CHECK_DEADLOCK FALSE
