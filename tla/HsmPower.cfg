SPECIFICATION FairSpec
CONSTANTS
  h1 = h1
  h2 = h2
  Harts = {h1, h2}
  Domains = {"root", "guest"}
  BootHart <- TwoBootHarts
  Addrs = {a1}
  Platforms <- PowerPlatforms
INVARIANT
  LifecycleSound
PROPERTY
  PendingEnds
CHECK_DEADLOCK FALSE
