SPECIFICATION Spec
CONSTANTS
  EndpointLists <- MCEndpointLists
  Message <- MCMessage
  Profiles = {FALSE, TRUE}
  Timeouts = {30}
  MaxIssued = 3
  Nil = Nil
PROPERTY Finishes
INVARIANTS
  RecordsKept
  OneLatencyPerRequest
