\* Token auth on, the stored level of (uid, deviceFlag) is Master.
CONSTANTS
    Conns <- MCConns
    DeviceIDs <- MCDeviceIDs
    DeviceLevels = {1}
    NoDevice = NoDevice
    LoopVarPerIteration = TRUE
SPECIFICATION Spec
INVARIANT SingleMasterIndexed
CHECK_DEADLOCK FALSE
