SPECIFICATION TutorialSpec
CONSTANTS
  Calls = {c1, c2}
  Sources = {"m1", "m2"}
  Celsius <- MCCelsius
  Foreign <- MCForeign
  NoReading = NoReading
  NoData = NoData
  MaxTries = 3
  MaxFaults = 2
INVARIANTS
  IdsUnique
PROPERTIES
  KeepsPromise
