SPECIFICATION FairSpec
CONSTANTS
    Timeout = 7
    Interval = 3
    DialTimeout = 2
    MaxPause = 3
    Horizon <- MCHorizon
    Never = Never
INVARIANTS
    TypeOK
    EndsInTime
    NoticedPromptly
    FailsForAReason
PROPERTY Decides
CHECK_DEADLOCK FALSE
