SPECIFICATION TracingSpec
CONSTANTS
  N = 3
  Requests = {r1, r2}
  Settings <- MCSettings
  MaxFailures = 2
  None = None
SYMMETRY Symmetry
INVARIANTS
  OneTreePerEntry
  WholeTrees
