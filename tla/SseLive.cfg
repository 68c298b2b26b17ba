SPECIFICATION FairSpec
CONSTANTS
  Harts = {1, 2}
  BootHart = 1
  Setups <- LiveSetups
PROPERTY QueueIsServed
CHECK_DEADLOCK TRUE
