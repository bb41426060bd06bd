\* Kick policy with per-iteration loop variables (Go >= 1.22 build).
CONSTANTS
    Conns <- MCConns
    DeviceIDs <- MCDeviceIDs
    DeviceLevels = {0, 1}
    NoDevice = NoDevice
    LoopVarPerIteration = TRUE
SPECIFICATION Spec
INVARIANT TypeOK
INVARIANT OrphanHasScheduledClose
INVARIANT ScheduledCloseTargetsUnindexed
PROPERTY KickedEventuallyClosed
\* All connection ids of the bound end up closed and nothing is left to do.
CHECK_DEADLOCK FALSE
