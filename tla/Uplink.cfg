SPECIFICATION UplinkSpec
CONSTANTS
  Radios = {TRUE, FALSE}
  Confirmed <- AckedKinds
  QueueDepth = 2
  TxRetries <- Retries
  AckRetries = 1
  MaxPages <- Pages
  MaxReplay = 2
  MaxFrames <- Frames3
  Intervals = {3, 4}
  SlotTolerance = 1
  RtcSteps <- StepsC
  MaxUptime = 14
  MaxUpsets = 2
  ReportIntervals = {1}
  StaleFactor = 2
  DcHoldMax = 4
  DcRecentMargin = 0
  LongestHold = 3
  Holds = {1, 3}
INVARIANTS TxInv SlotsInv WatchInv
PROPERTIES AlarmPassesBackoff WakeupsKept RecordsSpaced HoldsAreExcused
