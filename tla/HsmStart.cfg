SPECIFICATION Spec
CONSTANTS
  h1 = h1
  h2 = h2
  Harts = {h1, h2, h3}
  Domains = {"root", "guest"}
  BootHart <- TwoBootHarts
  Addrs = {a1, a2}
  Platforms <- StartPlatforms
INVARIANTS
  LifecycleSound
  StartsSound
  EntersWhereAsked
SYMMETRY Symmetry
CHECK_DEADLOCK FALSE
