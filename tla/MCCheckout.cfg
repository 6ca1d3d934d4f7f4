SPECIFICATION FairSpec
CONSTANTS
  mug = mug
  bike = bike
  Product = {mug, bike}
  Price <- MCPrice
  ShippingCost = 1
  Quantities = {0, 1}
  Add = {a1, a2}
  Order = {o1, o2}
  MayFail = TRUE
  Overlaps = {FALSE, TRUE}
INVARIANTS
  NothingLost
  ShippedIsPaid
  PlacedIsChargedAndShipped
PROPERTY
  OrdersReturn
CHECK_DEADLOCK FALSE
