SPECIFICATION Spec
CONSTANTS
  Harts = {0, 1, 2}
  Loads <- FullFlushes
  Asids = {1, 2}
  Vmids = {1, 2}
  HasH = TRUE
  XLen = 8
  FlushLimit = 2
  NumEntries = 2
INVARIANT FlushedOnReturn
CHECK_DEADLOCK FALSE
