CONSTANTS
    Uids <- MCUids
    Keys <- MCKeysPerson
    ChanType <- MCChanType
    Requests = {r1}
    Handlers <- MCHandlersPerson
    StoreCanFail = FALSE
SPECIFICATION Spec
INVARIANT ListSetExact
