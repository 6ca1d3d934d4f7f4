------------------------------- MODULE Checkout -------------------------------
(* One user's cart and orders in the online shop: the cart service's       *)
(* AddItem (cartservice/src/cartstore/RedisCartStore.cs) and the checkout  *)
(* service's PlaceOrder (checkoutservice/main.go:218-268), which calls the *)
(* cart, payment, shipping and email services in turn.  Any call may fail, *)
(* before it took effect or after.  Amounts are counted in one unit:       *)
(* OrderTotal shows that PlaceOrder's sums are exact.                      *)
EXTENDS Integers, FiniteSets, FiniteSetsExt, Functions

CONSTANTS
  Product,
  Price,         \* a product's price in the user's currency
  ShippingCost,  \* CreateQuoteFromCount: the same for every order
  Quantities,    \* the quantities added
  Add,           \* calls of AddItem
  Order,         \* calls of PlaceOrder
  MayFail,       \* whether a call to another service may fail
  Overlaps       \* whether calls may run concurrently: a subset of BOOLEAN

ASSUME CheckoutAssumption ==
  /\ Price \in [Product -> Nat]
  /\ ShippingCost \in Nat
  /\ Quantities \subseteq Nat
  /\ MayFail \in BOOLEAN
  /\ Overlaps \subseteq BOOLEAN

(* The items of a cart: the quantity of each product that has an item.     *)
EmptyCart == [p \in {} |-> 0]

VARIABLES
  overlap,    \* whether calls run concurrently; it never changes
  cache,      \* the user's cart in the cache; null is read as an empty cart
  adding,     \* where an AddItem call is
  item,       \* the product and quantity it adds
  cart,       \* the cart it read
  stage,      \* where a PlaceOrder call is
  cartItems,  \* the items it read and prepared
  charged,    \* charges the payment service has made (external)
  shipped     \* parcels the shipping service has sent (external)

addVars == <<adding, item, cart>>
vars == <<overlap, cache, addVars, stage, cartItems, charged, shipped>>

Init ==
  /\ overlap \in Overlaps
  /\ cache = EmptyCart
  /\ adding = [a \in Add |-> "none"]
  /\ item \in [Add -> [product : Product, quantity : Quantities]]
  /\ cart = [a \in Add |-> EmptyCart]
  /\ stage = [o \in Order |-> "none"]
  /\ cartItems = [o \in Order |-> EmptyCart]
  /\ charged = {}
  /\ shipped = {}

AddInFlight == { a \in Add : adding[a] = "got" }
OrderInFlight == { o \in Order : stage[o] \notin {"none", "placed", "failed"} }

MayStart == overlap \/ AddInFlight \cup OrderInFlight = {}

-------------------------------------------------------------------------------
(* AddItemAsync: the cart is read, changed and written back.               *)
WithItem(c, i) ==
  [p \in DOMAIN c \cup {i.product} |->
     (IF p \in DOMAIN c THEN c[p] ELSE 0) + (IF p = i.product THEN i.quantity ELSE 0)]

AddReads(a) ==
  /\ adding[a] = "none"
  /\ MayStart
  /\ cart' = [cart EXCEPT ![a] = cache]
  /\ adding' = [adding EXCEPT ![a] = "got"]
  /\ UNCHANGED <<overlap, cache, item, stage, cartItems, charged, shipped>>

AddWrites(a) ==
  /\ adding[a] = "got"
  /\ cache' = WithItem(cart[a], item[a])
  /\ \/ adding' = [adding EXCEPT ![a] = "added"]
     \/ MayFail /\ adding' = [adding EXCEPT ![a] = "failed"]
  /\ UNCHANGED <<overlap, item, cart, stage, cartItems, charged, shipped>>

(* GetAsync or SetAsync throws. *)
AddFails(a) ==
  /\ adding[a] = "got" \/ (adding[a] = "none" /\ MayStart)
  /\ MayFail
  /\ adding' = [adding EXCEPT ![a] = "failed"]
  /\ UNCHANGED <<overlap, cache, item, cart, stage, cartItems, charged, shipped>>

-------------------------------------------------------------------------------
GoesTo(o, s) == stage' = [stage EXCEPT ![o] = s]

(* getUserCart *)
GetsCart(o) ==
  /\ stage[o] = "none"
  /\ MayStart
  /\ cartItems' = [cartItems EXCEPT ![o] = cache]
  /\ GoesTo(o, "prepare")
  /\ UNCHANGED <<overlap, cache, addVars, charged, shipped>>

(* prepOrderItems, quoteShipping, convertCurrency: calls that read data    *)
(* no call changes.                                                        *)
Prepares(o) ==
  /\ stage[o] = "prepare"
  /\ GoesTo(o, "charge")
  /\ UNCHANGED <<overlap, cache, addVars, cartItems, charged, shipped>>

(* MultiplySlow takes an item of quantity 0 once.                          *)
Cost(p, q) == Price[p] * (IF q = 0 THEN 1 ELSE q)
TotalOf(c) == ShippingCost + MapThenSumSet(LAMBDA p : Cost(p, c[p]), DOMAIN c)
Charge(o) == [order |-> o, amount |-> TotalOf(cartItems[o])]
Parcel(o) == [order |-> o, items |-> cartItems[o]]
CurrentParcel(o) == [order |-> o, items |-> cache]
ShipsParcel(o) == Parcel(o)

(* chargeCard *)
ChargesAndGoesOn(o) ==
  /\ stage[o] = "charge"
  /\ \/ charged' = charged \cup {Charge(o)}
     \/ MayFail /\ UNCHANGED charged
  /\ GoesTo(o, "ship")
  /\ UNCHANGED <<overlap, cache, addVars, cartItems, shipped>>
Charges(o) ==
  /\ stage[o] = "charge"
  /\ charged' = charged \cup {Charge(o)}
  /\ GoesTo(o, "ship") \/ (MayFail /\ GoesTo(o, "failed"))
  /\ UNCHANGED <<overlap, cache, addVars, cartItems, shipped>>

(* shipOrder *)
Ships(o) ==
  /\ stage[o] = "ship"
  /\ shipped' = shipped \cup {ShipsParcel(o)}
  /\ GoesTo(o, "empty") \/ (MayFail /\ GoesTo(o, "failed"))
  /\ UNCHANGED <<overlap, cache, addVars, cartItems, charged>>

(* A call fails without effect, and PlaceOrder returns its error.  Before  *)
(* getUserCart has answered, too.                                          *)
Fails(o) ==
  /\ stage[o] \in {"prepare", "charge", "ship"} \/ (stage[o] = "none" /\ MayStart)
  /\ MayFail
  /\ GoesTo(o, "failed")
  /\ UNCHANGED <<overlap, cache, addVars, cartItems, charged, shipped>>

(* emptyUserCart, whose error is ignored. *)
AfterFailedEmptyShipsAgain == "ship"
AfterFailedEmpty == "confirm"

EmptiesEarly(o) == stage[o] = "ship"
EmptiesCart(o) == stage[o] = "empty"

Empties(o) ==
  /\ EmptiesCart(o)
  /\ \/ cache' = EmptyCart /\ GoesTo(o, "confirm")
     \/ MayFail /\ UNCHANGED cache /\ GoesTo(o, AfterFailedEmpty)
  /\ UNCHANGED <<overlap, addVars, cartItems, charged, shipped>>

(* sendOrderConfirmation, whose error is logged. *)
Confirms(o) ==
  /\ stage[o] = "confirm"
  /\ GoesTo(o, "placed")
  /\ UNCHANGED <<overlap, cache, addVars, cartItems, charged, shipped>>

-------------------------------------------------------------------------------
AddStep(a) == AddReads(a) \/ AddWrites(a) \/ AddFails(a)
OrderStep(o) ==
  \/ GetsCart(o) \/ Prepares(o) \/ Charges(o) \/ Ships(o)
  \/ Fails(o) \/ Empties(o) \/ Confirms(o)

Next == (\E a \in Add : AddStep(a)) \/ (\E o \in Order : OrderStep(o))

Spec == Init /\ [][Next]_vars

(* Every call to another service is answered, well or not, and the caller's *)
(* goroutine goes on.                                                       *)
GoesOn(o) == stage[o] # "none" /\ OrderStep(o)
FairSpec == Spec /\ \A o \in Order : WF_vars(GoesOn(o))

-------------------------------------------------------------------------------
(* Every parcel was paid for, with what its own items and the shipping     *)
(* cost, whatever the cart became between the charge and the shipping      *)
(* (main.go:226-249).                                                      *)
ShippedIsPaid ==
  \A s \in shipped : [order |-> s.order, amount |-> TotalOf(s.items)] \in charged

(* A call that returns an order has charged it and shipped it, once each   *)
(* (main.go:240-267).                                                      *)
PlacedIsChargedAndShipped ==
  \A o \in Order : stage[o] = "placed" =>
    /\ Cardinality({ c \in charged : c.order = o }) = 1
    /\ Cardinality({ s \in shipped : s.order = o }) = 1

(* The quantity of p in a cart.                                            *)
QuantityIn(c, p) == IF p \in DOMAIN c THEN c[p] ELSE 0

Added(p) == MapThenSumSet(LAMBDA a : item[a].quantity,
                          { a \in Add : adding[a] = "added" /\ item[a].product = p })

Shipped(p) == MapThenSumSet(LAMBDA s : QuantityIn(s.items, p), shipped)

(* When calls do not overlap, what the cart service has acknowledged is in *)
(* the cart or was shipped, whichever calls fail: a failed order leaves    *)
(* the cart as it was, and the cart is emptied only of what was shipped    *)
(* (main.go:246-251).                                                      *)
NothingLost ==
  ~overlap => \A p \in Product : Added(p) <= QuantityIn(cache, p) + Shipped(p)

(* Every PlaceOrder call returns, whatever fails on its way.               *)
OrdersReturn == \A o \in Order : (stage[o] = "prepare") ~> (stage[o] \in {"placed", "failed"})
===============================================================================
