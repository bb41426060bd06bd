CONSTANTS
    Users <- MCUsers2
    Capacity = 2
    InitConns = 1
    MaxConns = 3
    MaxErrorCount = 1
    Nil = Nil
SPECIFICATION Spec
INVARIANT NoSendOnClosedChannel
CHECK_DEADLOCK FALSE
