SPECIFICATION AlgSpec
CONSTANTS
  ByteVals = 4
  TrapEnvs <- MCEnvs
  TrapInputs <- MCInputs
  FwTraps <- MCFwTraps
  VxInputs <- MCVectors
  VxLenb = 4
  VxRegs = 16
  VxGroup = 8
  FdtNodes = {110, 111}
  FdtProps = {51, 53}
  FdtValues <- MCValues
  FdtSizes = {28, 56}
  FdtGiven <- MCGiven
  FdtWrites = 5
  FdtEdits = 2
  OvBases <- MCOvBases
  OvOverlays <- MCOvOverlays
  FpTrees <- MCFpTrees
  FpHarts = {1, 2, 3}
  FpExtensions = {81, 82}
  FxTrees <- MCFxTrees
  FxSlacks = {0, 9}
  FxDomains <- MCFxDomains
  FxIdle <- MCFxIdle
  FxSscofpmf = FALSE
INVARIANTS
  EmulationExact
  TrapHandled
  FdtExact
  OvLinked
  FpExact
  FxExact
PROPERTY
  EditKeeps
CHECK_DEADLOCK FALSE
