SPECIFICATION DeploySpec
CONSTANTS
  Name = {"a", "b"}
  FuncSlices <- MCFuncSlices
  Conc = 2
INVARIANTS
  ConcurrencyBound
  DeployedBeforeWritten
PROPERTIES
  DeployEnds
