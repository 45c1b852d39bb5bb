SPECIFICATION FairSpec
CONSTANTS
  BatchMax = 2
  AlarmDepth = 1
  PageEvents = 1
  Setups <- Nodes
  AnswerDepth = 2
INVARIANT AnnounceInv
PROPERTY AlarmsFirst
PROPERTY BatchLeaves
