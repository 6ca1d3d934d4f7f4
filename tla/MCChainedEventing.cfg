SPECIFICATION Spec
CONSTANTS
  MaxExperiments = 2
  MaxInvocations = 2
  MaxTime = 1
  MaxTries = 2
  MaxHandlers = 2
  MaxFaults = 1
INVARIANTS
  ReportedAreServed
  OneAnswerEach
PROPERTIES
  Measured
