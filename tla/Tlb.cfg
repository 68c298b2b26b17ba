SPECIFICATION Spec
CONSTANTS
  Harts = {0, 1, 2}
  Loads <- Fences
  Asids = {1, 2}
  Vmids = {1, 2}
  HasH = TRUE
  XLen = 8
  FlushLimit = 2
  NumEntries = 1
INVARIANT
  TlbInv
CHECK_DEADLOCK FALSE
