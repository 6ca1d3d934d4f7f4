--------------------------- MODULE OrderTotalProofs ---------------------------
(* Theorems about OrderTotal, for all costs, quantities and order lengths. *)
EXTENDS OrderTotal, WellFoundedInduction, TLAPS

LEMMA DivMod ==
  ASSUME NEW a \in Nat, NEW b \in Nat \ {0}
  PROVE  /\ a \div b \in Nat
         /\ a - b * (a \div b) \in 0 .. b - 1
OBVIOUS

LEMMA ModRange ==
  ASSUME NEW a \in Int, NEW b \in Nat \ {0}
  PROVE  a % b \in 0 .. b - 1
OBVIOUS

LEMMA ModSmall ==
  ASSUME NEW b \in Nat \ {0}, NEW a \in 0 .. b - 1
  PROVE  a % b = a
OBVIOUS

LEMMA DivZero ==
  ASSUME NEW b \in Nat \ {0}, NEW a \in 0 .. b - 1
  PROVE  a \div b = 0
OBVIOUS
LEMMA DivOne ==
  ASSUME NEW b \in Nat \ {0}, NEW a \in b .. 2 * b - 1
  PROVE  a \div b = 1
OBVIOUS

-------------------------------------------------------------------------------
LEMMA Int32Range ==
  ASSUME NEW x \in Int
  PROVE  Int32(x) \in -Half .. Half - 1
<1>1. Half \in Nat \ {0}
  BY MoneyAssumption
<1>2. (x + Half) % (2 * Half) \in 0 .. 2 * Half - 1
  BY <1>1, ModRange
<1> QED
  BY <1>1, <1>2 DEF Int32

LEMMA Int32Small ==
  ASSUME NEW x \in -Half .. Half - 1
  PROVE  Int32(x) = x
<1>1. Half \in Nat \ {0}
  BY MoneyAssumption
<1>2. (x + Half) % (2 * Half) = x + Half
  BY <1>1, ModSmall
<1> QED
  BY <1>1, <1>2 DEF Int32

LEMMA QuoRemRange ==
  ASSUME NEW a \in Int, NEW b \in Nat \ {0}
  PROVE  /\ Quo(a, b) \in Int
         /\ Rem(a, b) \in -b .. b
<1>1. CASE a >= 0
  <2>1. a \in Nat
    BY <1>1
  <2>2. a \div b \in Nat /\ a - b * (a \div b) \in 0 .. b - 1
    BY ONLY <2>1, b \in Nat \ {0}, DivMod
  <2> QED
    BY <1>1, <2>2 DEF Quo, Rem
<1>2. CASE a < 0
  <2> DEFINE q == (-a) \div b
  <2>0. -a \in Nat
    BY <1>2
  <2>1. q \in Nat /\ (-a) - b * q \in 0 .. b - 1
    BY ONLY <2>0, b \in Nat \ {0}, DivMod
  <2>2. Quo(a, b) = -q /\ Rem(a, b) = a - b * (-q)
    BY <1>2 DEF Quo, Rem
  <2>3. b * (-q) = -(b * q)
    BY <2>1
  <2> HIDE DEF q
  <2> QED
    BY <2>1, <2>2, <2>3
<1> QED
  BY <1>1, <1>2

(* Any two amounts, valid or not: Sum's result is an amount.               *)
LEMMA SumIsMoney ==
  ASSUME NEW l \in Money, NEW r \in Money
  PROVE  Sum(l, r) \in Money
<1> DEFINE u == l.units + r.units
           f == Int32(l.nanos + r.nanos)
<1>1. u \in Int /\ l.nanos + r.nanos \in Int
  BY MoneyAssumption DEF Money
<1>2. f \in -Half .. Half - 1
  BY <1>1, Int32Range
<1> HIDE DEF u, f
<1>3. Carried(u, f) \in Int \X (-Half .. Half - 1)
  <2>1. Quo(f, nanosMod) \in Int /\ Rem(f, nanosMod) \in -nanosMod .. nanosMod
    BY <1>2, MoneyAssumption, QuoRemRange
  <2> QED
    BY <1>1, <2>1, MoneyAssumption DEF Carried
<1>4. Borrowed(u, f) \in Int \X (-Half .. Half - 1)
  <2>1. /\ Int32(f + nanosMod) \in -Half .. Half - 1
        /\ Int32(f - nanosMod) \in -Half .. Half - 1
    BY <1>2, MoneyAssumption, Int32Range
  <2> QED
    BY <1>1, <2>1 DEF Borrowed
<1>5. Normal(u, f) \in Int \X (-Half .. Half - 1)
  BY <1>3, <1>4 DEF Normal
<1>6. Sum(l, r) = [units |-> Normal(u, f)[1], nanos |-> Normal(u, f)[2],
                   currency |-> l.currency]
  BY DEF Sum, u, f
<1> QED
  BY <1>5, <1>6 DEF Money

(* What Sum is sure to add right: valid amounts that are not negative, one *)
(* of them at least a unit.  The result is again such an amount.           *)
NotNegative(m) == IsValid(m) /\ m.units >= 0 /\ m.nanos >= 0

LEMMA SumNotNegative ==
  ASSUME NEW l \in Money, NEW r \in Money, NotNegative(l), AtLeastOneUnit(r)
  PROVE  /\ NotNegative(Sum(l, r))
         /\ AtLeastOneUnit(Sum(l, r))
         /\ Sum(l, r).currency = l.currency
         /\ Value(Sum(l, r)) = Value(l) + Value(r)
<1> DEFINE u == l.units + r.units
           f == l.nanos + r.nanos
<1>1. /\ l.units \in Int /\ r.units \in Int /\ l.units >= 0 /\ r.units >= 1
      /\ l.nanos \in Int /\ r.nanos \in Int
      /\ 0 <= l.nanos /\ l.nanos < nanosMod
      /\ 0 <= r.nanos /\ r.nanos < nanosMod
  BY DEF Money, NotNegative, AtLeastOneUnit, IsValid, validNanos, signMatches
<1>2. u \in Int /\ u >= 1 /\ f \in 0 .. 2 * nanosMod - 2
  BY <1>1, MoneyAssumption
<1>3. Int32(f) = f
  <2>1. f \in -Half .. Half - 1
    BY <1>2, MoneyAssumption
  <2> QED
    BY <2>1, Int32Small
<1>4. Value(l) + Value(r) = u * nanosMod + f
  BY <1>1, MoneyAssumption DEF Value
<1> HIDE DEF u, f
<1>5. Sum(l, r) = [units |-> u + Quo(f, nanosMod), nanos |-> Rem(f, nanosMod),
                   currency |-> l.currency]
  <2>1. SameSign(u, f)
    BY <1>2, MoneyAssumption DEF SameSign
  <2>2. Normal(u, Int32(f)) = <<u + Quo(f, nanosMod), Rem(f, nanosMod)>>
    BY <1>3, <2>1 DEF Normal, Carried
  <2> QED
    BY <2>2 DEF Sum, u, f
<1>6. CASE f < nanosMod
  <2>1. f \div nanosMod = 0
    BY <1>2, <1>6, MoneyAssumption, DivZero
  <2>2. Sum(l, r) = [units |-> u, nanos |-> f, currency |-> l.currency]
    BY <1>2, <1>5, <2>1, MoneyAssumption DEF Quo, Rem
  <2> QED
    BY <1>2, <1>4, <1>6, <2>2, MoneyAssumption
    DEF NotNegative, AtLeastOneUnit, IsValid, validNanos, signMatches, Value
<1>7. CASE f >= nanosMod
  <2>1. f \div nanosMod = 1
    BY <1>2, <1>7, MoneyAssumption, DivOne
  <2>2. Sum(l, r) = [units |-> u + 1, nanos |-> f - nanosMod, currency |-> l.currency]
    BY <1>2, <1>5, <2>1, MoneyAssumption DEF Quo, Rem
  <2>3. (u + 1) * nanosMod + (f - nanosMod) = u * nanosMod + f
    BY <1>2, MoneyAssumption
  <2>4. Value(Sum(l, r)) = Value(l) + Value(r)
    BY <1>4, <2>2, <2>3 DEF Value
  <2> QED
    BY <1>2, <1>7, <2>2, <2>4, MoneyAssumption
    DEF NotNegative, AtLeastOneUnit, IsValid, validNanos, signMatches
<1> QED
  BY <1>2, <1>6, <1>7, MoneyAssumption

-------------------------------------------------------------------------------
(* The inductive invariant.  NeverPanics needs that the total and the      *)
(* product in hand are again amounts Sum adds right, and ProductExact that *)
(* their values add up.                                                    *)
OneCurrency ==
  \A i \in DOMAIN orderItems : orderItems[i].Cost.currency = shipping.currency

InHand == pc = "multiply" => it <= Len(orderItems)

TotalFine == NotNegative(total) /\ total.currency = shipping.currency

OutFine == pc = "multiply" => AtLeastOneUnit(out) /\ out.currency = shipping.currency

AmountsFine == CostsAtLeastOneUnit => TotalFine /\ OutFine /\ pc # "panic"

IInv == TypeOK /\ OneCurrency /\ InHand /\ AmountsFine /\ ProductExact

LEMMA ItemInHand ==
  ASSUME TypeOK, it <= Len(orderItems)
  PROVE  /\ it \in DOMAIN orderItems
         /\ orderItems[it].Cost \in Money
         /\ orderItems[it].Quantity \in Int
<1>1. orderItems \in Seq(OrderItem) /\ it \in 1 .. Len(orderItems)
  BY DEF TypeOK
<1>2. it \in DOMAIN orderItems /\ orderItems[it] \in OrderItem
  BY <1>1
<1> QED
  BY <1>2, OrderTotalAssumption DEF OrderItem

LEMMA Uint32Range ==
  ASSUME NEW q \in Int
  PROVE  Uint32(q) \in 0 .. Word - 1
BY OrderTotalAssumption, ModRange DEF Uint32

LEMMA InitIInv == Init => IInv
<1> SUFFICES ASSUME Init PROVE IInv
  OBVIOUS
<1>1. PICK len \in 0 .. MaxItems : orderItems \in [1 .. len -> OrderItem]
  BY DEF Init
<1>2. orderItems \in Seq(OrderItem) /\ Len(orderItems) \in Nat
  BY <1>1, OrderTotalAssumption
<1>3. shipping \in Money
  BY OrderTotalAssumption DEF Init
<1>4. Zero(shipping.currency) \in Money
  BY <1>3, MoneyAssumption DEF Zero, Money
<1>5. TypeOK
  BY <1>2, <1>4, OrderTotalAssumption DEF Init, TypeOK
<1>6. NotNegative(total)
  BY <1>3, MoneyAssumption DEF Init, Zero, NotNegative, IsValid, signMatches, validNanos
<1>7. total.currency = shipping.currency
  BY DEF Init, Zero
<1> QED
  BY <1>5, <1>6, <1>7
  DEF Init, IInv, OneCurrency, InHand, AmountsFine, TotalFine, OutFine, ProductExact

(* Must(Sum(acc, m)) goes on, and adds right.                              *)
LEMMA AddedRight ==
  ASSUME NEW acc \in Money, NEW x \in Money, NEW next,
         NotNegative(acc), AtLeastOneUnit(x), acc.currency = x.currency
  PROVE  /\ Added(acc, x) = Sum(acc, x)
         /\ MustGoOn(acc, x, next) = next
         /\ AtLeastOneUnit(Added(acc, x))
         /\ NotNegative(Added(acc, x))
         /\ Added(acc, x).currency = acc.currency
         /\ Value(Added(acc, x)) = Value(acc) + Value(x)
<1>1. ~SumFails(acc, x)
  BY DEF SumFails, NotNegative, AtLeastOneUnit
<1>2. Added(acc, x) = Sum(acc, x) /\ MustGoOn(acc, x, next) = next
  BY <1>1 DEF Added, MustGoOn
<1> QED
  BY <1>2, SumNotNegative

LEMMA AddedIsMoney ==
  ASSUME NEW acc \in Money, NEW x \in Money
  PROVE  Added(acc, x) \in Money
BY SumIsMoney DEF Added

LEMMA NextIInv == IInv /\ [Next]_vars => IInv'
<1> SUFFICES ASSUME IInv, [Next]_vars PROVE IInv'
  OBVIOUS
<1>t. TypeOK /\ shipping \in Money /\ total \in Money /\ out \in Money
  BY OrderTotalAssumption DEF IInv, TypeOK
<1>o. orderItems' = orderItems /\ shipping' = shipping
  BY DEF Next, vars, order, AddShipping, Multiply, AddAgain, AddProduct, Charge
<1>c. CostsAtLeastOneUnit' = CostsAtLeastOneUnit /\ OneCurrency'
  BY <1>o DEF CostsAtLeastOneUnit, OneCurrency, IInv
<1>1. CASE AddShipping
  <2>1. Added(total, shipping) \in Money
    BY <1>t, AddedIsMoney
  <2>2. TypeOK'
    BY <1>1, <1>t, <2>1 DEF AddShipping, TypeOK, order, MustGoOn
  <2>3. ASSUME CostsAtLeastOneUnit
        PROVE  TotalFine' /\ OutFine' /\ pc' # "panic"
    <3>1. AtLeastOneUnit(shipping) /\ TotalFine
      BY <2>3 DEF CostsAtLeastOneUnit, IInv, AmountsFine
    <3>2. /\ MustGoOn(total, shipping, "items") = "items"
          /\ NotNegative(Added(total, shipping))
          /\ Added(total, shipping).currency = total.currency
      BY <1>t, <3>1, AddedRight DEF TotalFine
    <3> QED
      BY <1>1, <1>o, <3>1, <3>2 DEF AddShipping, TotalFine, OutFine
  <2>4. pc' # "multiply"
    BY <1>1 DEF AddShipping, MustGoOn
  <2> QED
    BY <1>c, <2>2, <2>3, <2>4 DEF IInv, AmountsFine, InHand, ProductExact
<1>2. CASE Multiply
  <2> DEFINE item == orderItems[it]
  <2>1. it \in DOMAIN orderItems /\ item.Cost \in Money /\ item.Quantity \in Int
    BY <1>2, <1>t, ItemInHand DEF Multiply
  <2>2. Uint32(item.Quantity) \in 0 .. Word - 1
    BY <2>1, Uint32Range
  <2>3. /\ out' = item.Cost /\ n' = Uint32(item.Quantity) /\ pc' = "multiply"
        /\ it' = it /\ total' = total /\ it <= Len(orderItems)
    BY <1>2 DEF Multiply, order
  <2>4. TypeOK'
    BY <1>o, <1>t, <2>1, <2>2, <2>3 DEF TypeOK
  <2>5. AmountsFine'
    <3> SUFFICES ASSUME CostsAtLeastOneUnit
                 PROVE  TotalFine' /\ OutFine' /\ pc' # "panic"
      BY <1>c DEF AmountsFine
    <3>1. AtLeastOneUnit(item.Cost)
      BY <2>1 DEF CostsAtLeastOneUnit
    <3>2. item.Cost.currency = shipping.currency
      BY <2>1 DEF IInv, OneCurrency
    <3>3. TotalFine
      BY DEF IInv, AmountsFine
    <3> QED
      BY <1>o, <2>3, <3>1, <3>2, <3>3 DEF TotalFine, OutFine
  <2>6. ProductExact'
    <3> DEFINE v == Value(item.Cost)
               k == Uint32(item.Quantity)
    <3>1. v \in Int
      BY <2>1, MoneyAssumption DEF Money, Value
    <3>2. k \in Nat /\ Times(item.Quantity) = IF k = 0 THEN 1 ELSE k
      BY <2>2, OrderTotalAssumption DEF Times
    <3> HIDE DEF v, k
    <3>3. (Times(item.Quantity) - (IF k = 0 THEN 1 ELSE k) + 1) * v = v
      BY <3>1, <3>2
    <3> QED
      BY <1>o, <2>3, <3>3 DEF ProductExact, v, k
  <2> QED
    BY <1>c, <1>o, <2>3, <2>4, <2>5, <2>6 DEF IInv, InHand
<1>3. CASE AddAgain
  <2> DEFINE item == orderItems[it]
  <2>1. /\ pc = "multiply" /\ n > 1 /\ it' = it /\ total' = total /\ n' = n - 1
        /\ out' = Added(out, item.Cost) /\ pc' = MustGoOn(out, item.Cost, "multiply")
    BY <1>3 DEF AddAgain, AdditionLeft, order
  <2>2. it \in DOMAIN orderItems /\ item.Cost \in Money /\ item.Quantity \in Int
    BY <1>t, <2>1, ItemInHand DEF IInv, InHand
  <2>3. out' \in Money
    BY <1>t, <2>1, <2>2, AddedIsMoney
  <2>4. TypeOK'
    <3>1. n \in 0 .. Word - 1 /\ Word \in Nat
      BY <1>t, OrderTotalAssumption DEF TypeOK
    <3>2. n' \in 0 .. Word - 1
      BY <2>1, <3>1
    <3> QED
      BY <1>o, <1>t, <2>1, <2>3, <3>2 DEF TypeOK, MustGoOn
  <2>5. InHand'
    BY <1>o, <2>1 DEF IInv, InHand
  <2>6. ASSUME CostsAtLeastOneUnit
        PROVE  /\ TotalFine' /\ OutFine' /\ pc' = "multiply"
               /\ Value(out') = Value(out) + Value(item.Cost)
    <3>1. AtLeastOneUnit(item.Cost)
      BY <2>2, <2>6 DEF CostsAtLeastOneUnit
    <3>2. item.Cost.currency = shipping.currency
      BY <2>2 DEF IInv, OneCurrency
    <3>3. TotalFine /\ AtLeastOneUnit(out) /\ out.currency = shipping.currency
      BY <2>1, <2>6 DEF IInv, AmountsFine, OutFine
    <3>4. NotNegative(out)
      BY <1>t, <3>3, MoneyAssumption
      DEF AtLeastOneUnit, NotNegative, IsValid, signMatches, Money
    <3>5. /\ MustGoOn(out, item.Cost, "multiply") = "multiply"
          /\ AtLeastOneUnit(Added(out, item.Cost))
          /\ Added(out, item.Cost).currency = out.currency
          /\ Value(Added(out, item.Cost)) = Value(out) + Value(item.Cost)
      BY <1>t, <2>2, <3>1, <3>2, <3>3, <3>4, AddedRight
    <3> QED
      BY <1>o, <2>1, <3>3, <3>5 DEF TotalFine, OutFine
  <2>7. ProductExact'
    <3> SUFFICES ASSUME CostsAtLeastOneUnit, pc' = "multiply"
                 PROVE  Value(out') =
                          (Times(item.Quantity) - (IF n' = 0 THEN 1 ELSE n') + 1)
                            * Value(item.Cost)
      BY <1>c, <1>o, <2>1 DEF ProductExact
    <3> DEFINE v == Value(item.Cost)
               k == Times(item.Quantity)
    <3>1. v \in Int /\ k \in Int /\ n \in Nat /\ Value(out) \in Int
      <4>1. v \in Int /\ Value(out) \in Int
        BY <1>t, <2>2, MoneyAssumption DEF Money, Value
      <4>2. Uint32(item.Quantity) \in Int
        BY <2>2, Uint32Range, OrderTotalAssumption
      <4>3. k \in Int
        BY <4>2 DEF Times
      <4>4. n \in Nat
        BY <1>t, OrderTotalAssumption DEF TypeOK
      <4> QED
        BY <4>1, <4>3, <4>4
    <3>2. Value(out) = (k - n + 1) * v
      BY <2>1, <3>1 DEF IInv, ProductExact
    <3>3. Value(out') = Value(out) + v
      BY <2>6
    <3>4. n' # 0 /\ n' = n - 1
      BY <2>1, <3>1
    <3> HIDE DEF v, k
    <3>5. (k - (n - 1) + 1) * v = (k - n + 1) * v + v
      BY <3>1
    <3> QED
      BY <3>2, <3>3, <3>4, <3>5 DEF v, k
  <2> QED
    BY <1>c, <2>4, <2>5, <2>6, <2>7 DEF IInv, AmountsFine
<1>4. CASE AddProduct
  <2>1. /\ pc = "multiply" /\ it' = it + 1 /\ out' = out /\ n' = n
        /\ total' = Added(total, out) /\ pc' = MustGoOn(total, out, "items")
    BY <1>4 DEF AddProduct, order
  <2>2. it <= Len(orderItems)
    BY <2>1 DEF IInv, InHand
  <2>3. total' \in Money
    BY <1>t, <2>1, AddedIsMoney
  <2>4. it' \in 1 .. Len(orderItems) + 1
    BY <1>t, <2>1, <2>2 DEF TypeOK
  <2>5. TypeOK'
    BY <1>o, <1>t, <2>1, <2>3, <2>4 DEF TypeOK, MustGoOn
  <2>6. ASSUME CostsAtLeastOneUnit
        PROVE  TotalFine' /\ pc' = "items"
    <3>1. TotalFine /\ AtLeastOneUnit(out) /\ out.currency = shipping.currency
      BY <2>1, <2>6 DEF IInv, AmountsFine, OutFine
    <3>2. /\ MustGoOn(total, out, "items") = "items"
          /\ NotNegative(Added(total, out))
          /\ Added(total, out).currency = total.currency
      BY <1>t, <3>1, AddedRight DEF TotalFine
    <3> QED
      BY <1>o, <2>1, <3>1, <3>2 DEF TotalFine
  <2>7. pc' # "multiply"
    BY <2>1 DEF MustGoOn
  <2> QED
    BY <1>c, <2>5, <2>6, <2>7 DEF IInv, AmountsFine, OutFine, InHand, ProductExact
<1>5. CASE Charge
  <2>1. pc' = "charge" /\ UNCHANGED <<total, it, out, n>>
    BY <1>5 DEF Charge
  <2> QED
    BY <1>c, <1>o, <2>1
    DEF IInv, TypeOK, AmountsFine, TotalFine, OutFine, InHand, ProductExact
<1>6. CASE UNCHANGED vars
  <2>1. UNCHANGED <<pc, orderItems, shipping, total, it, out, n>>
    BY <1>6 DEF vars, order
  <2> QED
    BY <1>c, <2>1
    DEF IInv, TypeOK, AmountsFine, TotalFine, OutFine, InHand, ProductExact
<1> QED
  BY <1>1, <1>2, <1>3, <1>4, <1>5, <1>6 DEF Next

(* The inductive invariant holds throughout every sum (main.go:231-240,    *)
(* money.go:93-132): what every theorem below starts from.                 *)
THEOREM Inductive == Spec => []IInv
BY InitIInv, NextIInv, PTL DEF Spec

(* The code's variables keep their types: nanos stays an int32 and n a     *)
(* uint32 in PlaceOrder's sums and in MultiplySlow (main.go:231-238,       *)
(* money.go:93-132).                                                       *)
THEOREM TypeCorrect == Spec => []TypeOK
<1>1. IInv => TypeOK
  BY DEF IInv
<1> QED
  BY <1>1, Inductive, PTL

(* No order whose costs are at least one unit makes Must panic             *)
(* (money.go:83-88), however many items it has and of whatever quantity.   *)
THEOREM NoOrderPanics == Spec => []NeverPanics
<1>1. IInv => NeverPanics
  BY DEF IInv, AmountsFine, NeverPanics
<1> QED
  BY <1>1, Inductive, PTL

(* MultiplySlow multiplies: after every addition of its loop out is the    *)
(* multiple it should be, to the nano (money.go:125-132).                  *)
THEOREM MultiplySlowExact == Spec => []ProductExact
<1>1. IInv => ProductExact
  BY DEF IInv
<1> QED
  BY <1>1, Inductive, PTL

-------------------------------------------------------------------------------
(* What is charged.  The sum over the items is a recursive function of how *)
(* many of them are counted; that it satisfies its equation, and so the    *)
(* theorem, rests on the least element of a set of natural numbers.        *)
LEMMA LeastElement ==
  ASSUME NEW T \in SUBSET Nat, T # {}
  PROVE  \E k \in T : \A m \in T : k <= m
<1> DEFINE R == OpToRel(<, Nat)
<1>1. IsWellFoundedOn(R, Nat)
  BY NatLessThanWellFounded
<1>2. \A k, m \in Nat : m < k => <<m, k>> \in R
  BY DEF OpToRel
<1> HIDE DEF R
<1>3. PICK k \in T : \A m \in T : ~ (<<m, k>> \in R)
  BY <1>1, WFMin
<1>4. k \in Nat /\ \A m \in T : m \in Nat /\ ~(m < k)
  BY <1>2, <1>3
<1> QED
  BY <1>4

LEMMA AllNumbers ==
  ASSUME NEW T, 0 \in T, \A k \in Nat : k \in T => k + 1 \in T
  PROVE  Nat \subseteq T
<1> SUFFICES ASSUME Nat \ T # {} PROVE FALSE
  OBVIOUS
<1>1. PICK k \in Nat \ T : \A m \in Nat \ T : k <= m
  BY LeastElement
<1>2. k # 0 /\ k - 1 \in Nat
  BY <1>1
<1>3. k - 1 \in T
  BY <1>1, <1>2
<1> QED
  BY <1>1, <1>2, <1>3

(* g sums the terms c[1], ..., c[k] for every k in D. *)
SumsOf(c, D, g) == g = [k \in D |-> IF k = 0 THEN 0 ELSE g[k - 1] + c[k]]

Counted == {Nat} \cup {0 .. m : m \in Nat}

(* Sums up to different numbers agree as far as both go. *)
LEMMA SumsAgree ==
  ASSUME NEW c, NEW D \in Counted, NEW E \in Counted, NEW g, NEW h, SumsOf(c, D, g), SumsOf(c, E, h)
  PROVE  \A k \in D \cap E : g[k] = h[k]
<1> DEFINE T == {k \in Nat : k \in D \cap E => g[k] = h[k]}
<1>1. 0 \in T
  BY DEF SumsOf, Counted
<1>2. ASSUME NEW k \in Nat, k \in T PROVE k + 1 \in T
  <2> SUFFICES ASSUME k + 1 \in D \cap E PROVE g[k + 1] = h[k + 1]
    OBVIOUS
  <2>1. k \in D \cap E
    BY DEF Counted
  <2>2. g[k + 1] = g[k] + c[k + 1] /\ h[k + 1] = h[k] + c[k + 1]
    BY DEF SumsOf, Counted
  <2> QED
    BY <1>2, <2>1, <2>2
<1> HIDE DEF T
<1>3. Nat \subseteq T
  BY <1>1, <1>2, AllNumbers
<1> QED
  BY <1>3 DEF T, Counted

(* The sums up to every number exist. *)
LEMMA SumsExist ==
  ASSUME NEW c
  PROVE  \E g : SumsOf(c, Nat, g)
<1> DEFINE T == {m \in Nat : \E g : SumsOf(c, 0 .. m, g)}
<1>1. 0 \in T
  <2> DEFINE z == [k \in 0 .. 0 |-> 0]
  <2>1. SumsOf(c, 0 .. 0, z)
    BY DEF SumsOf
  <2> QED
    BY <2>1
<1>2. ASSUME NEW m \in Nat, m \in T PROVE m + 1 \in T
  <2>1. PICK g : SumsOf(c, 0 .. m, g)
    BY <1>2
  <2> DEFINE h == [k \in 0 .. m + 1 |-> IF k = m + 1 THEN g[m] + c[m + 1] ELSE g[k]]
  <2>2. ASSUME NEW k \in 0 .. m + 1 PROVE h[k] = IF k = 0 THEN 0 ELSE h[k - 1] + c[k]
    BY <2>1 DEF SumsOf
  <2>3. h = [k \in 0 .. m + 1 |-> h[k]]
    OBVIOUS
  <2> HIDE DEF h
  <2>4. SumsOf(c, 0 .. m + 1, h)
    BY <2>2, <2>3 DEF SumsOf
  <2> QED
    BY <2>4
<1> HIDE DEF T
<1>3. Nat \subseteq T
  BY <1>1, <1>2, AllNumbers
<1> DEFINE upTo(m) == CHOOSE g : SumsOf(c, 0 .. m, g)
           sum == [k \in Nat |-> upTo(k)[k]]
<1>4. \A m \in Nat : SumsOf(c, 0 .. m, upTo(m))
  BY <1>3 DEF T
<1>5. ASSUME NEW k \in Nat PROVE sum[k] = IF k = 0 THEN 0 ELSE sum[k - 1] + c[k]
  <2>1. CASE k = 0
    <3> HIDE DEF upTo
    <3>1. SumsOf(c, 0 .. 0, upTo(0))
      BY <1>4
    <3>2. upTo(0)[0] = 0
      BY <3>1 DEF SumsOf
    <3> QED
      BY <2>1, <3>2
  <2>2. CASE k # 0
    <3>1. k - 1 \in Nat /\ k - 1 \in 0 .. k /\ k - 1 \in 0 .. k - 1
      BY <2>2
    <3>2. SumsOf(c, 0 .. k, upTo(k)) /\ SumsOf(c, 0 .. k - 1, upTo(k - 1))
      BY <1>4, <3>1
    <3> HIDE DEF upTo
    <3>3. upTo(k)[k - 1] = upTo(k - 1)[k - 1]
      <4> DEFINE D == 0 .. k
                 E == 0 .. k - 1
      <4>1. D \in Counted /\ E \in Counted /\ k - 1 \in D \cap E
        BY <3>1 DEF Counted
      <4>2. SumsOf(c, D, upTo(k)) /\ SumsOf(c, E, upTo(k - 1))
        BY <3>2
      <4> HIDE DEF D, E
      <4>3. \A j \in D \cap E : upTo(k)[j] = upTo(k - 1)[j]
        BY <4>1, <4>2, SumsAgree
      <4> QED
        BY <4>1, <4>3
    <3>4. upTo(k)[k] = upTo(k)[k - 1] + c[k]
      BY <2>2, <3>2 DEF SumsOf
    <3> QED
      BY <2>2, <3>1, <3>3, <3>4
  <2> QED
    BY <2>1, <2>2
<1>6. sum = [k \in Nat |-> sum[k]]
  OBVIOUS
<1> HIDE DEF sum
<1>7. SumsOf(c, Nat, sum)
  BY <1>5, <1>6 DEF SumsOf
<1> QED
  BY <1>7

ItemValue(k) == Times(orderItems[k].Quantity) * Value(orderItems[k].Cost)

(* The value of no item is nothing, and each item adds its own. *)
LEMMA ItemsAddUp ==
  /\ ItemsValue[0] = 0
  /\ \A k \in Nat : ItemsValue[k + 1] = ItemsValue[k] + ItemValue(k + 1)
<1> DEFINE c == [k \in Nat |-> ItemValue(k)]
           Defines(g) == g = [k \in Nat |-> IF k = 0 THEN 0 ELSE g[k - 1] + ItemValue(k)]
<1>1. PICK g : SumsOf(c, Nat, g)
  BY SumsExist
<1>2. Defines(g)
  BY <1>1 DEF SumsOf
<1>3. ItemsValue = CHOOSE f : Defines(f)
  BY DEF ItemsValue, ItemValue
<1> HIDE DEF Defines
<1>4. Defines(ItemsValue)
  BY <1>2, <1>3
<1>5. ItemsValue = [k \in Nat |-> IF k = 0 THEN 0 ELSE ItemsValue[k - 1] + ItemValue(k)]
  BY <1>4 DEF Defines
<1> QED
  BY <1>5

(* The total holds the shipping cost and the items in front of the one in  *)
(* hand, and an order is charged after the last of them.                   *)
TotalSoFar ==
  CostsAtLeastOneUnit =>
    /\ pc = "shipping" => it = 1 /\ Value(total) = 0
    /\ pc \in {"items", "multiply", "charge"} =>
         Value(total) = Value(shipping) + ItemsValue[it - 1]
    /\ pc = "charge" => it = Len(orderItems) + 1
    /\ ItemsValue[it - 1] \in Int

LEMMA InitTotalSoFar == Init => TotalSoFar
BY MoneyAssumption, ItemsAddUp DEF Init, TotalSoFar, Zero, Value

LEMMA NextTotalSoFar == IInv /\ TotalSoFar /\ [Next]_vars => TotalSoFar'
<1> SUFFICES ASSUME IInv, TotalSoFar, [Next]_vars, CostsAtLeastOneUnit' PROVE TotalSoFar'
  BY DEF TotalSoFar
<1>t. /\ TypeOK /\ shipping \in Money /\ total \in Money /\ out \in Money
      /\ it \in Nat \ {0} /\ Len(orderItems) \in Nat
  BY OrderTotalAssumption DEF IInv, TypeOK
<1>o. orderItems' = orderItems /\ shipping' = shipping
  BY DEF Next, vars, order, AddShipping, Multiply, AddAgain, AddProduct, Charge
<1>c. CostsAtLeastOneUnit /\ TotalFine /\ OutFine
  BY <1>o DEF CostsAtLeastOneUnit, IInv, AmountsFine
<1>v. /\ ItemsValue' = ItemsValue
      /\ Value(shipping)' = Value(shipping) /\ Value(shipping) \in Int
      /\ Len(orderItems)' = Len(orderItems)
  BY <1>o, <1>t, MoneyAssumption DEF ItemsValue, Value, Money, Times, Uint32
<1>1. CASE AddShipping
  <2>1. AtLeastOneUnit(shipping)
    BY <1>c DEF CostsAtLeastOneUnit
  <2>2. Value(Added(total, shipping)) = Value(total) + Value(shipping)
    BY <1>c, <1>t, <2>1, AddedRight DEF TotalFine
  <2>3. Value(total) = 0 /\ it = 1 /\ it' = it /\ total' = Added(total, shipping)
        /\ pc' \in {"items", "panic"}
    BY <1>1, <1>c DEF AddShipping, TotalSoFar, MustGoOn
  <2>4. Value(total)' = Value(shipping) + ItemsValue[it - 1]
    BY <1>v, <2>2, <2>3, ItemsAddUp DEF Value
  <2>5. ItemsValue[it - 1] \in Int
    BY <1>c DEF TotalSoFar
  <2> QED
    BY <1>v, <2>3, <2>4, <2>5 DEF TotalSoFar
<1>2. CASE Multiply \/ AddAgain \/ Charge \/ UNCHANGED vars
  <2>1. /\ total' = total /\ it' = it
        /\ \/ pc' = pc
           \/ pc \in {"items", "multiply"} /\ pc' \in {"items", "multiply", "panic"}
           \/ pc = "items" /\ pc' = "charge" /\ it > Len(orderItems)
    BY <1>2 DEF Multiply, AddAgain, Charge, vars, order, MustGoOn
  <2>2. Value(total)' = Value(total)
    BY <2>1 DEF Value
  <2>3. it > Len(orderItems) => it = Len(orderItems) + 1
    BY <1>t DEF TypeOK
  <2> QED
    BY <1>c, <1>v, <2>1, <2>2, <2>3 DEF TotalSoFar
<1>3. CASE AddProduct
  <2> DEFINE item == orderItems[it]
  <2>1. /\ pc = "multiply" /\ it' = it + 1 /\ ~(n > 1)
        /\ total' = Added(total, out) /\ pc' \in {"items", "panic"}
    BY <1>3 DEF AddProduct, order, AdditionLeft, MustGoOn
  <2>2. it \in DOMAIN orderItems /\ item.Cost \in Money /\ item.Quantity \in Int
    BY <1>t, <2>1, ItemInHand DEF IInv, InHand
  <2>3. AtLeastOneUnit(out) /\ out.currency = shipping.currency
    BY <1>c, <2>1 DEF OutFine
  <2>4. Value(Added(total, out)) = Value(total) + Value(out)
    BY <1>c, <1>t, <2>3, AddedRight DEF TotalFine
  <2>5. Value(out) = ItemValue(it)
    <3>1. n \in Nat
      BY <1>t, OrderTotalAssumption DEF TypeOK
    <3>2. (IF n = 0 THEN 1 ELSE n) = 1
      BY <2>1, <3>1
    <3>3. Times(item.Quantity) \in Int /\ Value(item.Cost) \in Int
      <4>1. Uint32(item.Quantity) \in Int
        BY <2>2, Uint32Range, OrderTotalAssumption
      <4> QED
        BY <2>2, <4>1, MoneyAssumption DEF Times, Money, Value
    <3>4. Value(out) = (Times(item.Quantity) - 1 + 1) * Value(item.Cost)
      BY <1>c, <2>1, <3>2 DEF IInv, ProductExact
    <3>5. Times(item.Quantity) - 1 + 1 = Times(item.Quantity)
      BY <3>3
    <3> QED
      BY <3>4, <3>5 DEF ItemValue
  <2>6. ItemsValue[it] = ItemsValue[it - 1] + ItemValue(it)
    <3>1. it - 1 \in Nat /\ (it - 1) + 1 = it
      BY <1>t
    <3> QED
      BY <3>1, ItemsAddUp
  <2>7. Value(total) = Value(shipping) + ItemsValue[it - 1]
    BY <1>c, <2>1 DEF TotalSoFar
  <2>8. Value(total)' = Value(shipping) + ItemsValue[it]
    <3>1. Value(total)' = Value(total) + Value(out)
      BY <2>1, <2>4 DEF Value
    <3>2. /\ Value(shipping) \in Int /\ Value(out) \in Int
          /\ ItemsValue[it - 1] \in Int
      BY <1>c, <1>t, <1>v, MoneyAssumption DEF TotalSoFar, Money, Value
    <3> QED
      BY <1>v, <2>5, <2>6, <2>7, <3>1, <3>2
  <2>9. it' - 1 = it
    BY <1>t, <2>1
  <2>10. ItemsValue[it] \in Int
    <3>1. ItemsValue[it - 1] \in Int /\ Value(out) \in Int
      BY <1>c, <1>t, MoneyAssumption DEF TotalSoFar, Money, Value
    <3> QED
      BY <2>5, <2>6, <3>1
  <2> QED
    BY <1>v, <2>1, <2>8, <2>9, <2>10 DEF TotalSoFar
<1> QED
  BY <1>1, <1>2, <1>3 DEF Next

(* What is charged is the shipping cost and every item's cost as often as  *)
(* its quantity says, to the nano, for orders of any length                *)
(* (main.go:231-240).                                                      *)
THEOREM ChargesTheExactTotal == Spec => []TotalExact
<1>1. IInv /\ TotalSoFar => TotalExact
  <2> SUFFICES ASSUME IInv, TotalSoFar, CostsAtLeastOneUnit, pc = "charge"
               PROVE  Value(total) = Value(shipping) + ItemsValue[Len(orderItems)]
    BY DEF TotalExact
  <2>1. Len(orderItems) \in Nat
    BY DEF IInv, TypeOK
  <2>2. it = Len(orderItems) + 1 /\ Value(total) = Value(shipping) + ItemsValue[it - 1]
    BY DEF TotalSoFar
  <2>3. it - 1 = Len(orderItems)
    BY <2>1, <2>2
  <2> QED
    BY <2>2, <2>3
<1> QED
  BY Inductive, InitTotalSoFar, NextTotalSoFar, <1>1, PTL DEF Spec
===============================================================================
