SPECIFICATION Spec
CONSTANTS
  NPages = 4
  DwData = 1
  PayloadDw = 1
  SampleSize <- ByteSizes
  Intervals = {1}
  GoesBack = TRUE
  MaxRecords = 6
  MaxEvents = 2
INVARIANT NoStalePage
CHECK_DEADLOCK FALSE
