CONSTANTS
    Conns <- MCConns
    Channels <- MCChannel1
    Batches <- MCBatchesOrder
    WebhookOn = FALSE
SPECIFICATION Spec
INVARIANT DeliveredInSeqOrder
CHECK_DEADLOCK FALSE
