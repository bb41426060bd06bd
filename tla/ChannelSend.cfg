CONSTANTS
    Conns <- MCConns
    Channels <- MCChannels
    Batches <- MCBatches
    WebhookOn = TRUE
SPECIFICATION Spec
INVARIANT TypeOK
INVARIANT SuccessAckTruth
INVARIANT RejectedNeverStored
INVARIANT AckedAtMostOnce
INVARIANT SystemErrorSeqTellsStored
PROPERTY EveryPacketAnswered
CHECK_DEADLOCK FALSE
