CONSTANTS
    Uids <- MCUids
    Keys <- MCKeysGroup
    ChanType <- MCChanType
    Requests = {r1, r2}
    Handlers <- MCHandlersGroup
    StoreCanFail = FALSE
SPECIFICATION Spec
INVARIANT CacheAgreesWithStore
