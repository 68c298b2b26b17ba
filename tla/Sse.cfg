SPECIFICATION Spec
CONSTANTS
  Harts = {1, 2}
  BootHart = 1
  Setups <- SafetySetups
INVARIANTS
  ListSound
  HandlersNest
  NoEventMissed
CHECK_DEADLOCK FALSE
