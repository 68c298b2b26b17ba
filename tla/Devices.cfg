SPECIFICATION DevSpec
CONSTANTS
  RpHarts = {0, 1}
  NumSlots = 3
  TokenMod = 2
  TxTimeout = 1
  RxTimeout = 2
  RpCalls = 3
  RpKinds <- MCKinds
  RcLists = {2, 3, 4}
  RcScratch = {0, 1, 2}
  RcTypes = {0, 1, 4, 5}
  RcPage = 2
  RcGroups = {2, 3, 4, 5, 6, 8}
  RcTrees <- MCRcTrees
  TmHarts = {0, 1}
  TmActive = {0}
  Half = 3
  TmMax = 4
  TmSkew = {2}
  TmWide = {TRUE, FALSE}
  TmEvents = {1}
  TmSlip = 1
  TmSerial = TRUE
  TmKinds = {"mtimer", "plmt"}
  ConHarts = {0, 1}
  ConBoot = 0
  TbufMax = 3
  EarlyMax = 2
  ConLens = {1, 3}
  ConDevs = {"puts", "putc"}
  ConCalls = 2
  IcHarts = {0, 1}
  IcMachines <- MCIcMachines
  IcXlen = 4
  IcSends = 2
INVARIANTS
  RpSound
  RcSound
  TmSound
  ConSound
  IcSound
PROPERTY
  DriversEnd
