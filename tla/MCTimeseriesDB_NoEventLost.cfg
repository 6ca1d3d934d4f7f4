SPECIFICATION Spec
CONSTANTS
  WorkflowId = {"w1", "w2"}
  InvocationId = {"i1"}
  Attributes <- MCAttributes
  Matcher <- MCMatcher
  Malformed = Malformed
  Definitions <- MCDefinitions
  InvokedOn <- MCInvokedOn
  Handler = {h1, h2}
  Loads <- MCOverlapping
  MaxExperiments = 1
  MaxRestarts = 0
  Nil = Nil
INVARIANT NoEventLost
CHECK_DEADLOCK FALSE
