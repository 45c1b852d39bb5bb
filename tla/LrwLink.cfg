SPECIFICATION FairSpec
CONSTANTS
  Threshold = 2
  Rejoin = 2
  Interval = 2
  MaxPolls = 2
  MaxRungs = 1
  MaxStreak = 3
INVARIANT LinkInv
PROPERTY RejoinAtTheFloor
PROPERTY DeafNodeRejoins
