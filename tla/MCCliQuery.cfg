SPECIFICATION Spec
CONSTANTS
    RETRIES = 3
    KillAfter = 2
    RETRY_BACKOFF = 1
    Capacity = 1
    MaxChunks = 2
    MaxNow = 20
INVARIANTS
    TypeOK
    AnswerNotLost
    NoPipeDeadlock
    NoOrphan
    ReturnsInTime
    CancelPrompt
PROPERTIES
    ImplementsPromise
CHECK_DEADLOCK FALSE
