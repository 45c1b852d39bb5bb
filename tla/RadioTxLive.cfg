SPECIFICATION FairSpec
CONSTANTS
  Radios = {TRUE}
  Confirmed <- AckedKinds
  QueueDepth = 1
  TxRetries <- Retries
  AckRetries = 1
  MaxPages <- One
  MaxReplay = 1
  MaxFrames <- One
PROPERTY BacklogEnds
