SPECIFICATION Spec
CONSTANTS
    Limit = 2
    MaxBytes = 6
    MaxChunk = 2
    MaxReplies = 1
    Script <- MCUnsupported
INVARIANT ReplayIsTheRequest
CHECK_DEADLOCK FALSE
