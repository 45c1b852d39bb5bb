SPECIFICATION FairSpec
CONSTANTS
  Scripts <- Traffic
  Reps = 2
  CtrlTries = 2
  AckRetries = 1
  DrainMax = 1
  AnswerReports = 1
  MaxCounter = 5
INVARIANT P2PInv
INVARIANT DeliveredOnce
CHECK_DEADLOCK FALSE
PROPERTY RequestEnds
