SPECIFICATION PrimSpec
CONSTANTS
  h1 = h1
  h2 = h2
  h3 = h3
  LockHarts = {h1, h2, h3}
  TicketMod = 4
  Data = {1, 2, 3}
  Zero = 0
  NumEntries = 3
  U16 = 4
  Verdict <- MCVerdict
  Merge <- MCMerge
  Heaps = {"global"}
  Base = 8
  Size = 16
  Nodes = 5
  ALLOC_ALIGN = 2
  SizeMod = 64
  Sizes = {0, 1, 8, 63}
  Aligns = {1, 3, 4, 8}
  Harts = {h1, h2, h3}
  Calls <- MCCalls
  Masks = {{h2}}
INVARIANTS
  MutualExclusion
  HeapSound
  NoLostIpi
PROPERTIES
  ImplementsFifoLock
  SpinnerServed
  ImplementsBoundedQueue
  IpiTakesEffect
CHECK_DEADLOCK FALSE
