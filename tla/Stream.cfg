SPECIFICATION FairSpec
CONSTANTS
    Limit = 2
    MaxBytes = 6
    MaxChunk = 2
    MaxReplies = 1
    Script <- MCScript
INVARIANTS
    TypeOK
    ReplayIsTheRequest
    BacklogBounded
    ClosedAtReturn
PROPERTIES
    ImplementsStream
    FinishedMeansDelivered
    Ends
CHECK_DEADLOCK FALSE
