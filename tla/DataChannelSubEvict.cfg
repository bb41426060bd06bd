\* Default configuration (no token auth: every login is Slave).
CONSTANTS
    Conns <- MCConns
    DeviceIDs <- MCDeviceIDs
    DeviceLevels = {0}
    NoDevice = NoDevice
    LoopVarPerIteration = TRUE
    MaxGen = 2
    MaxSubFrames = 2
SPECIFICATION Spec
INVARIANT IndexedSubscriberLive
CHECK_DEADLOCK FALSE
