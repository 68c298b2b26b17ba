SPECIFICATION ServSpec
CONSTANTS
  NumHw = 5
  NumFw = 1
  MapMax = 5
  PmuPlatforms <- MCPlatforms
  PmuEvents = {1, 32, 240}
  PmuMasks <- MCMasks
  PmuBases = {0, 1}
  PmuData = {0, 1}
  PmuFlags <- MCFlags
  FwCountMax = 1
  TrigCount = 3
  TrigValues = {0, 1}
  TrigConfigs <- MCConfigs
  FwftSupported = {"misaligned", "pmlen"}
  PmmLengths = {7}
  FwftValues = {0, 1, 8, 17}
  Svade = FALSE
  MpxyHarts = {h0, h1}
  MpxyBootHart = h0
  PageSize = 16
  ShmemAddrs = {p, q}
  MsgLens = {8, 12, 20}
  BootChannels <- MCChannels
  W = 7
  DomHarts = {0, 1, 2}
  ColdHart = 0
  FwStart = 64
  FwRwOffset = 8
  FwSize = 16
  NextAddr = 80
  RootRegionMax = 8
  DtRegionMax = 8
  DevRanges <- MCDevs
  DtTrees <- MCTrees
  PmpCount = 6
  PmpGran = 3
  PmpAddrMax = 32
  PmpDomains <- MCPmpDomains
  SaddrRanges <- MCSaddrs
  CtxHarts = {0, 1}
  CtxDomains <- MCDomains
  CtxAsks <- MCAsks
  CtxPossible <- MCPossible
  CtxBoot <- MCBoot
  CtxHome <- MCHome
  CtxAllocs = 4
  EcPlats <- MCEcPlats
  EcRegs <- MCEcRegs
  EcAnswers <- MCEcAnswers
  EcVmid = 9
INVARIANTS
  PmuSound
  DbtrSound
  FwftSound
  MpxySound
  DomSound
  PmpSound
  CtxSound
  EcSound
PROPERTY
  ServKeeps
