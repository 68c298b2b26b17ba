SPECIFICATION Spec
CONSTANTS
  h1 = h1
  h2 = h2
  Harts = {h1, h2}
  Domains = {"root", "guest"}
  BootHart <- TwoBootHarts
  Addrs = {a1, a2}
  Platforms <- SuspendPlatform
INVARIANT EntersWhereAsked
CHECK_DEADLOCK FALSE
