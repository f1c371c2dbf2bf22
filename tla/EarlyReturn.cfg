SPECIFICATION Spec
CONSTANTS
    Timeout = 7
    Interval = 3
    DialTimeout = 2
    MaxPause = 3
    Horizon <- MCHorizon
    Never = Never
INVARIANT EarlyReturnTolerated
CHECK_DEADLOCK FALSE
