SPECIFICATION FairSpec
CONSTANTS
  Harts = {0, 1, 2}
  Loads <- Waits
  Asids = {1, 2}
  Vmids = {1, 2}
  HasH = TRUE
  XLen = 8
  FlushLimit = 2
  NumEntries = 1
PROPERTY RequestReturns
CHECK_DEADLOCK FALSE
