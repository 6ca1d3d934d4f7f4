SPECIFICATION Spec
CONSTANTS
  WorkflowId = {"w1", "w2"}
  InvocationId = {"i1"}
  Attributes <- MCAttributes
  Matcher <- MCMatcher
  Malformed = Malformed
  Definitions <- MCDefinitions
  InvokedOn <- MCInvokedOn
  Handler = {h1, h2, h3}
  Loads <- MCLoads
  MaxExperiments = 2
  MaxRestarts = 1
  Nil = Nil
SYMMETRY DeliverySymmetry
INVARIANTS CompletedIsEarned SerialLosesNothing CompletedHasDuration RecordedOnce
PROPERTY ImplementsAtomic
CHECK_DEADLOCK FALSE
