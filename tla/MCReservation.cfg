SPECIFICATION Spec
CONSTANTS
  Hotel = {"h1", "h2"}
  NumberOfRoom <- MCNumberOfRoom
  Day <- MCDay
  Handler = {r1, r2, r3}
  Loads <- MCLoads
  FirstDocuments <- MCFirstDocuments
  Miss = Miss
SYMMETRY Symmetry
INVARIANTS NoOverbooking CachedWithinCapacity ConfirmedIsStored
PROPERTY ImplementsAtomic
CHECK_DEADLOCK FALSE
