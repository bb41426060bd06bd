CONSTANTS
    Msgs <- MCMsgs
    Flags <- MCFlags
    Levels = {0, 1}
    MaxRetry = 2
    MaxDrops = 2
SPECIFICATION Spec
INVARIANTS
    TypeOK
PROPERTIES
    RetryQueueSpec
CHECK_DEADLOCK FALSE
