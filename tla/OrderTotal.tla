------------------------------ MODULE OrderTotal ------------------------------
(* The total PlaceOrder charges (checkoutservice/main.go:231-238): zero,   *)
(* plus the shipping cost, plus each item's cost times its quantity.  The  *)
(* product is MultiplySlow's loop of additions (money.go:125-132), taken   *)
(* one addition at a time.  Every addition goes through Must, which        *)
(* panics when Sum rejects an operand.                                     *)
EXTENDS Money, Sequences

CONSTANTS
  Word,        \* 2^32: the quantity, an int32, is converted to a uint32
  Costs,       \* the converted prices and shipping costs
  Quantities,  \* the quantities of the cart's items
  MaxItems     \* bound: items of an order

OrderItem == [Cost : Costs, Quantity : Quantities]

ASSUME OrderTotalAssumption ==
  /\ Word \in Nat \ {0}
  /\ Costs \subseteq Money
  /\ Quantities \subseteq Int
  /\ MaxItems \in Nat

VARIABLES
  pc,
  orderItems,  \* prep.orderItems
  shipping,    \* prep.shippingCostLocalized
  total,
  it,          \* index of the item in hand
  out, n       \* of MultiplySlow

order == <<orderItems, shipping>>
vars == <<pc, order, total, it, out, n>>

Uint32(q) == q % Word

(* MultiplySlow's loop condition.                                          *)
AdditionLeftFromZero(k) == k > 0
AdditionLeft(k) == k > 1

Zero(c) == [units |-> 0, nanos |-> 0, currency |-> c]

(* Every amount was converted to the user's currency, the total's.         *)
Init ==
  /\ pc = "shipping"
  /\ \E len \in 0 .. MaxItems : orderItems \in [1 .. len -> OrderItem]
  /\ shipping \in Costs
  /\ \A i \in DOMAIN orderItems : orderItems[i].Cost.currency = shipping.currency
  /\ total = Zero(shipping.currency)
  /\ it = 1
  /\ out = Zero(shipping.currency)
  /\ n = 0

-------------------------------------------------------------------------------
(* Must(Sum(acc, m)): the new amount, and where the caller goes on.        *)
Added(acc, m) == IF SumFails(acc, m) THEN acc ELSE Sum(acc, m)
MustGoOn(acc, m, next) == IF SumFails(acc, m) THEN "panic" ELSE next

AddShipping ==
  /\ pc = "shipping"
  /\ total' = Added(total, shipping)
  /\ pc' = MustGoOn(total, shipping, "items")
  /\ UNCHANGED <<order, it, out, n>>

(* MultiplySlow is called. *)
Multiply ==
  /\ pc = "items"
  /\ it <= Len(orderItems)
  /\ out' = orderItems[it].Cost
  /\ n' = Uint32(orderItems[it].Quantity)
  /\ pc' = "multiply"
  /\ UNCHANGED <<order, total, it>>

AddAgain ==
  /\ pc = "multiply"
  /\ AdditionLeft(n)
  /\ out' = Added(out, orderItems[it].Cost)
  /\ pc' = MustGoOn(out, orderItems[it].Cost, "multiply")
  /\ n' = n - 1
  /\ UNCHANGED <<order, total, it>>

AddProduct ==
  /\ pc = "multiply"
  /\ ~AdditionLeft(n)
  /\ total' = Added(total, out)
  /\ pc' = MustGoOn(total, out, "items")
  /\ it' = it + 1
  /\ UNCHANGED <<order, out, n>>

Charge ==
  /\ pc = "items"
  /\ it > Len(orderItems)
  /\ pc' = "charge"
  /\ UNCHANGED <<order, total, it, out, n>>

Next == AddShipping \/ Multiply \/ AddAgain \/ AddProduct \/ Charge

Spec == Init /\ [][Next]_vars

-------------------------------------------------------------------------------
TypeOK ==
  /\ pc \in {"shipping", "items", "multiply", "charge", "panic"}
  /\ orderItems \in Seq(OrderItem)
  /\ shipping \in Costs
  /\ total \in Money
  /\ it \in 1 .. Len(orderItems) + 1
  /\ out \in Money
  /\ n \in 0 .. Word - 1

(* Every cost is at least one unit, as the catalog's prices and the        *)
(* shipping cost are in every currency the currency service knows          *)
(* (productcatalogservice/products.json, shippingservice/quote.go:34).     *)
AtLeastOneUnit(m) == IsValid(m) /\ m.units >= 1

CostsAtLeastOneUnit ==
  /\ AtLeastOneUnit(shipping)
  /\ \A i \in DOMAIN orderItems : AtLeastOneUnit(orderItems[i].Cost)

(* At such costs no order makes Must panic, which would end the checkout   *)
(* service with every order in flight (money.go:83-88).                    *)
NeverPanics == CostsAtLeastOneUnit => pc # "panic"

(* How often MultiplySlow takes the cost of an item of quantity q.         *)
Times(q) == IF Uint32(q) = 0 THEN 1 ELSE Uint32(q)

(* MultiplySlow's loop (money.go:125-132): out holds the item's cost once  *)
(* and once more for every addition done so far, to the nano, whatever was *)
(* carried on the way.                                                     *)
ProductExact ==
  (CostsAtLeastOneUnit /\ pc = "multiply") =>
    LET item == orderItems[it]
        left == IF n = 0 THEN 1 ELSE n
    IN  Value(out) = (Times(item.Quantity) - left + 1) * Value(item.Cost)

(* The value of the first k items of the order.                            *)
ItemsValue ==
  LET upTo[k \in Nat] ==
        IF k = 0 THEN 0
        ELSE upTo[k - 1] + Times(orderItems[k].Quantity) * Value(orderItems[k].Cost)
  IN  upTo

(* What is sent to the payment service is the shipping cost and every      *)
(* item's cost as often as MultiplySlow takes it, to the nano              *)
(* (main.go:231-240).                                                      *)
TotalExact ==
  (CostsAtLeastOneUnit /\ pc = "charge") =>
    Value(total) = Value(shipping) + ItemsValue[Len(orderItems)]
===============================================================================
