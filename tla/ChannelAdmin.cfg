CONSTANTS
    Uids <- MCUids
    Keys <- MCKeysGroup
    ChanType <- MCChanType
    Requests = {r1}
    Handlers <- MCHandlersGroup
    StoreCanFail = TRUE
SPECIFICATION Spec
INVARIANT TypeOK
INVARIANT CacheAgreesWithStore
INVARIANT ListSetExact
