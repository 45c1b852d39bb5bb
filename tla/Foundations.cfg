SPECIFICATION Spec
CONSTANTS
  Window = 6
  Slot = 3
  Wrap = 16
  Budget = 4
  Airs = {1, 2, 5}
  MaxLate = 1
  MaxIdle = 9
  MaxTime = 24
  Reserve = 3
  MaxCounter = 4
  Modulations = {"lora", "fsk"}
  Texts = {"t1", "t2"}
  NoText = "none"
  MaxNonce = 3
  app1 = app1
  app2 = app2
  sysq = sysq
  radioq = radioq
  Radio = radioq
  Writers <- WritersC
  MayWait <- MayWaitC
  FlashWaitAirMax = 3
  AirWaitFlashMax = 1
INVARIANTS LedgerInv SessionSafety GateSafety
PROPERTIES ImplementsAllowance TowerLaneRises ExchangeYieldsToWriters WriterGetsFlash ExchangeStarts
CHECK_DEADLOCK FALSE
