SPECIFICATION Spec
CONSTANTS
    Text = {t1, t2}
    Long = {t2}
    Attempts = 2
    Requests = 4
    MaxFaults = 2
    MaxStarts = 2
INVARIANT SessionInUse
INVARIANT RightPinOpens
INVARIANT LeftClean
INVARIANT OwnAnswer
PROPERTY Answers
CHECK_DEADLOCK FALSE
