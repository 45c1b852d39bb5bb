SPECIFICATION Spec
CONSTANTS
  Parts = {"commands"}
  Contents <- ContentsC
  Settings <- SettingsC
  Budgets = {3, 4}
  DumpBudget = 3
  Envelope = 1
  Requests <- RequestsC
  FieldSizes <- SizesC
  AlarmFields = {2, 3}
  MaxSets = 1
  Taps <- TapsC
  Downlinks <- DownlinksC
  MaxDownlinks = 2
  MaxSkip = 1
  MaxDrain = 1
  MaxTrouble = 1
  MaxHold = 2
  RateHi = 2
  Wide = 16
  RateWindow = 1
  Lo = 1
  Hi = 4
  Idx = {1}
  RuleSet <- RulesC
  Values = {0, 2, 3, 5}
  MaxCount = 3
  Slots = {"s1"}
  Types = {"A", "B"}
  PartsOf <- PartsOfC
  NoDataTicks = 1
  Volts = {0, 2, 3, 4}
  VoltLow = 3
  VoltHyst = 0
  Limit = 0
  NumSlots = 2
  Devices = {1, 2, 3, 4}
  TypeOf <- TypeOfC
  PerDriver = 2
  SavedSlots <- SavedC
  MaxEvents = 3
  Fields <- FieldsC
  RuleSlots = {0, 1}
  Batches <- BatchesC
  ShellWrites <- ShellWritesC
  ShellRules <- ShellRulesC
  Stores <- StoresC
PROPERTY KeysTakeTheLink
CHECK_DEADLOCK FALSE
