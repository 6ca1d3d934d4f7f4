SPECIFICATION Spec
CONSTANTS
  nanosMod = 5
  Half = 11
  Word = 6
  Currency = {"USD", "EUR"}
  Costs <- AllCosts
  Quantities <- SomeQuantities
  MaxItems = 2
INVARIANTS
  NeverPanics
  ProductExact
  TotalExact
CHECK_DEADLOCK FALSE
