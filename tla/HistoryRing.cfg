SPECIFICATION Spec
CONSTANTS
  NPages = 3
  DwData = 3
  PayloadDw = 3
  SampleSize <- TwoSizes
  Intervals = {1, 2}
  GoesBack = FALSE
  MaxRecords = 5
  MaxEvents = 2
INVARIANT RingInv
PROPERTY CommittedSurvive
PROPERTY ReplayInOrder
CHECK_DEADLOCK FALSE
