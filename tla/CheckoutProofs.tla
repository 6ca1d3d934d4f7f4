---------------------------- MODULE CheckoutProofs ----------------------------
(***************************************************************************)
(* What concurrent adds and failing calls cannot do to an order, and, when *)
(* calls do not overlap, to the items added, for any number of products,   *)
(* adds and orders.                                                        *)
(***************************************************************************)
EXTENDS Checkout, FiniteSetTheorems, WellFoundedInduction, TLAPS

Stages == {"none", "prepare", "charge", "ship", "empty", "confirm", "placed", "failed"}

(* An order that is about to ship has been charged for the items it read,  *)
(* which it keeps from then on.                                            *)
Paid ==
  /\ stage \in [Order -> Stages]
  /\ \A o \in Order : stage[o] = "ship" => Charge(o) \in charged

IInv == Paid /\ ShippedIsPaid

(* The invariant holds before any call.                                    *)
LEMMA InitIInv == Init => IInv
BY DEF Init, IInv, Paid, ShippedIsPaid, Stages

(* AddItem touches no order.                                               *)
LEMMA AddKeeps ==
  ASSUME IInv, NEW a \in Add, AddStep(a)
  PROVE  IInv'
BY DEF AddStep, AddReads, AddWrites, AddFails, IInv, Paid, ShippedIsPaid, Charge

(* A step of an order changes no other order's stage, and its own items    *)
(* only before the charge.                                                 *)
LEMMA OrderKeeps ==
  ASSUME IInv, NEW o \in Order, OrderStep(o)
  PROVE  IInv'
<1>1. CASE GetsCart(o)
  <2>1. /\ stage' = [stage EXCEPT ![o] = "prepare"]
        /\ \A q \in Order : q # o => cartItems'[q] = cartItems[q]
        /\ UNCHANGED <<charged, shipped>>
    BY <1>1 DEF GetsCart, GoesTo
  <2>2. ASSUME NEW q \in Order, stage'[q] = "ship" PROVE Charge(q)' \in charged'
    <3>1. q # o /\ stage[q] = "ship"
      BY <2>1, <2>2 DEF IInv, Paid
    <3>2. Charge(q)' = Charge(q)
      BY <2>1, <3>1 DEF Charge
    <3> QED BY <2>1, <3>1, <3>2 DEF IInv, Paid
  <2> QED BY <2>1, <2>2 DEF IInv, Paid, ShippedIsPaid, Stages
<1>2. CASE Charges(o)
  <2>1. /\ charged' = charged \cup {Charge(o)}
        /\ \E s \in {"ship", "failed"} : stage' = [stage EXCEPT ![o] = s]
        /\ UNCHANGED <<cartItems, shipped>>
    BY <1>2 DEF Charges, GoesTo
  <2> QED BY <2>1 DEF IInv, Paid, ShippedIsPaid, Stages, Charge
<1>3. CASE Ships(o)
  <2>1. /\ stage[o] = "ship" /\ shipped' = shipped \cup {Parcel(o)}
        /\ \E s \in {"empty", "failed"} : stage' = [stage EXCEPT ![o] = s]
        /\ UNCHANGED <<cartItems, charged>>
    BY <1>3 DEF Ships, GoesTo, ShipsParcel
  <2>2. [order |-> Parcel(o).order, amount |-> TotalOf(Parcel(o).items)] = Charge(o)
    BY DEF Parcel, Charge
  <2>3. Charge(o) \in charged
    BY <2>1 DEF IInv, Paid
  <2>4. ShippedIsPaid'
    BY <2>1, <2>2, <2>3 DEF IInv, ShippedIsPaid
  <2> QED BY <2>1, <2>4 DEF IInv, Paid, Stages, Charge
<1>4. CASE Prepares(o) \/ Fails(o) \/ Empties(o) \/ Confirms(o)
  <2>1. /\ \E s \in Stages \ {"ship"} : stage' = [stage EXCEPT ![o] = s]
        /\ UNCHANGED <<cartItems, charged, shipped>>
    BY <1>4 DEF Prepares, Fails, Empties, Confirms, GoesTo, AfterFailedEmpty, Stages
  <2> QED BY <2>1 DEF IInv, Paid, ShippedIsPaid, Stages, Charge
<1> QED BY <1>1, <1>2, <1>3, <1>4 DEF OrderStep

(* However adds and orders interleave and whichever calls fail, a parcel   *)
(* that leaves has been paid for, with what its own items cost.            *)
THEOREM ParcelsArePaid == Spec => []ShippedIsPaid
<1>1. IInv /\ [Next]_vars => IInv'
  <2> SUFFICES ASSUME IInv, [Next]_vars PROVE IInv'
    OBVIOUS
  <2>1. CASE UNCHANGED vars
    BY <2>1 DEF vars, IInv, Paid, ShippedIsPaid, Charge
  <2> QED BY <2>1, AddKeeps, OrderKeeps DEF Next
<1> QED BY InitIInv, <1>1, PTL DEF Spec, IInv

-------------------------------------------------------------------------------
(* An order is charged and shipped for the items it has, at its own step   *)
(* and never before, and has been both once it is past these steps.        *)
Once ==
  /\ stage \in [Order -> Stages]
  /\ \A c \in charged : /\ c.order \in Order /\ c = Charge(c.order)
                        /\ stage[c.order] \notin {"none", "prepare", "charge"}
  /\ \A s \in shipped : /\ s.order \in Order /\ s = Parcel(s.order)
                        /\ stage[s.order] \notin {"none", "prepare", "charge", "ship"}
  /\ \A o \in Order :
       /\ stage[o] \in {"ship", "empty", "confirm", "placed"} => Charge(o) \in charged
       /\ stage[o] \in {"empty", "confirm", "placed"} => Parcel(o) \in shipped

LEMMA OnceCounts == Once => PlacedIsChargedAndShipped
<1> SUFFICES ASSUME Once, NEW o \in Order, stage[o] = "placed"
             PROVE  /\ Cardinality({c \in charged : c.order = o}) = 1
                    /\ Cardinality({s \in shipped : s.order = o}) = 1
  BY DEF PlacedIsChargedAndShipped
<1>1. {c \in charged : c.order = o} = {Charge(o)}
  BY DEF Once, Charge
<1>2. {s \in shipped : s.order = o} = {Parcel(o)}
  BY DEF Once, Parcel
<1> QED BY <1>1, <1>2, FS_Singleton

LEMMA InitOnce == Init => Once
BY DEF Init, Once, Stages

(* An order that has read its cart charges, ships and moves on.            *)
LEMMA OrderKeepsOnce ==
  ASSUME Once, NEW o \in Order, OrderStep(o)
  PROVE  Once'
<1>1. CASE GetsCart(o)
  <2>1. /\ stage[o] = "none"
        /\ stage' = [stage EXCEPT ![o] = "prepare"]
        /\ \A q \in Order : q # o => cartItems'[q] = cartItems[q]
        /\ UNCHANGED <<charged, shipped>>
    BY <1>1 DEF GetsCart, GoesTo
  <2>2. \A q \in Order : q # o => Charge(q)' = Charge(q) /\ Parcel(q)' = Parcel(q)
    BY <2>1 DEF Charge, Parcel
  <2>3. /\ stage' \in [Order -> Stages] /\ stage'[o] = "prepare"
        /\ \A q \in Order : q # o => stage'[q] = stage[q]
    BY <2>1 DEF Once, Stages
  <2>4. \A c \in charged : c.order # o /\ c = Charge(c.order)'
    BY <2>1, <2>2 DEF Once
  <2>5. \A s \in shipped : s.order # o /\ s = Parcel(s.order)'
    BY <2>1, <2>2 DEF Once
  <2>6. \A q \in Order : stage'[q] \in {"ship", "empty", "confirm", "placed"} =>
          q # o /\ stage'[q] = stage[q]
    BY <2>3
  <2> QED BY <2>1, <2>2, <2>3, <2>4, <2>5, <2>6 DEF Once
<1>2. CASE ~GetsCart(o)
  <2>1. UNCHANGED cartItems
    BY <1>2 DEF OrderStep, Prepares, Charges, Ships, Fails, Empties, Confirms
  <2>2. \A q : Charge(q)' = Charge(q) /\ Parcel(q)' = Parcel(q)
    BY <2>1 DEF Charge, Parcel
  <2>3. Charge(o).order = o /\ Parcel(o).order = o
    BY DEF Charge, Parcel
  <2>4. CASE Charges(o)
    <3>1. /\ stage[o] = "charge" /\ charged' = charged \cup {Charge(o)}
          /\ \E s \in {"ship", "failed"} : stage' = [stage EXCEPT ![o] = s]
          /\ UNCHANGED shipped
      BY <2>4 DEF Charges, GoesTo
    <3>2. \A c \in charged' : c \in charged \/ c = Charge(o)
      BY <3>1
    <3> QED BY <2>2, <2>3, <3>1, <3>2 DEF Once, Stages
  <2>5. CASE Ships(o)
    <3>1. /\ stage[o] = "ship" /\ shipped' = shipped \cup {Parcel(o)}
          /\ \E s \in {"empty", "failed"} : stage' = [stage EXCEPT ![o] = s]
          /\ UNCHANGED charged
      BY <2>5 DEF Ships, GoesTo, ShipsParcel
    <3>2. \A s \in shipped' : s \in shipped \/ s = Parcel(o)
      BY <3>1
    <3> QED BY <2>2, <2>3, <3>1, <3>2 DEF Once, Stages
  <2>6. CASE Prepares(o) \/ Fails(o)
    <3>1. /\ stage[o] \in {"none", "prepare", "charge", "ship"}
          /\ \/ stage[o] = "prepare" /\ stage' = [stage EXCEPT ![o] = "charge"]
             \/ stage' = [stage EXCEPT ![o] = "failed"]
          /\ UNCHANGED <<charged, shipped>>
      BY <2>6 DEF Prepares, Fails, GoesTo
    <3> QED BY <2>2, <3>1 DEF Once, Stages
  <2>7. CASE Empties(o) \/ Confirms(o)
    <3>1. /\ stage[o] \in {"empty", "confirm"}
          /\ \E s \in {"confirm", "placed"} : stage' = [stage EXCEPT ![o] = s]
          /\ UNCHANGED <<charged, shipped>>
      BY <2>7 DEF Empties, EmptiesCart, AfterFailedEmpty, Confirms, GoesTo
    <3> QED BY <2>2, <3>1 DEF Once, Stages
  <2> QED BY <1>2, <2>4, <2>5, <2>6, <2>7 DEF OrderStep
<1> QED BY <1>1, <1>2

(* A PlaceOrder that returns an order has charged it once and shipped it   *)
(* once, whichever calls failed or lost their answer on the way.           *)
THEOREM PlacedOnce == Spec => []PlacedIsChargedAndShipped
<1>1. Once /\ [Next]_vars => Once'
  <2> SUFFICES ASSUME Once, [Next]_vars PROVE Once'
    OBVIOUS
  <2>1. CASE UNCHANGED <<stage, cartItems, charged, shipped>>
    BY <2>1 DEF Once, Charge, Parcel
  <2>2. (\E a \in Add : AddStep(a)) => UNCHANGED <<stage, cartItems, charged, shipped>>
    BY DEF AddStep, AddReads, AddWrites, AddFails
  <2> QED BY <2>1, <2>2, OrderKeepsOnce DEF Next, vars
<1> QED BY InitOnce, <1>1, OnceCounts, PTL DEF Spec

-------------------------------------------------------------------------------
(* Sums over sets are folds: a function on the subsets of the set, defined *)
(* by recursion.  That this function exists, and that the order of the     *)
(* summands does not matter, rests on the least element of a set of        *)
(* natural numbers.  Summed(w, S) adds up w over S.                        *)
LEMMA LeastElement ==
  ASSUME NEW T \in SUBSET Nat, T # {}
  PROVE  \E k \in T : \A m \in T : k <= m
<1> DEFINE R == OpToRel(<, Nat)
<1>1. IsWellFoundedOn(R, Nat)
  BY NatLessThanWellFounded
<1>2. \A k, m \in Nat : m < k => <<m, k>> \in R
  BY DEF OpToRel
<1> HIDE DEF R
<1>3. PICK k \in T : \A m \in T : ~ (<<m, k>> \in R)
  BY <1>1, WFMin
<1>4. k \in Nat /\ \A m \in T : m \in Nat /\ ~(m < k)
  BY <1>2, <1>3
<1> QED
  BY <1>4

LEMMA AllNumbers ==
  ASSUME NEW T, 0 \in T, \A k \in Nat : k \in T => k + 1 \in T
  PROVE  Nat \subseteq T
<1> SUFFICES ASSUME Nat \ T # {} PROVE FALSE
  OBVIOUS
<1>1. PICK k \in Nat \ T : \A m \in Nat \ T : k <= m
  BY LeastElement
<1>2. k # 0 /\ k - 1 \in Nat
  BY <1>1
<1>3. k - 1 \in T
  BY <1>1, <1>2
<1> QED
  BY <1>1, <1>2, <1>3

(* A set with one element taken out. *)
LEMMA Smaller ==
  ASSUME NEW n \in Nat, NEW S, IsFiniteSet(S), Cardinality(S) = n + 1, NEW d \in S
  PROVE  IsFiniteSet(S \ {d}) /\ Cardinality(S \ {d}) = n
<1>1. Cardinality(S \ {d}) = Cardinality(S) - 1 /\ IsFiniteSet(S \ {d})
  BY FS_RemoveElement
<1> QED
  BY <1>1

(* A family of sets that has the empty set, and each finite set of which   *)
(* some subset with one element less is in the family, has all finite sets.*)
LEMMA FiniteSetsAll ==
  ASSUME NEW F, NEW U, {} \in F,
         \A S \in SUBSET U : IsFiniteSet(S) /\ S # {} /\ (\A d \in S : S \ {d} \in F) => S \in F
  PROVE  \A S \in SUBSET U : IsFiniteSet(S) => S \in F
<1> DEFINE T == {n \in Nat : \A S \in SUBSET U : IsFiniteSet(S) /\ Cardinality(S) = n => S \in F}
<1>1. 0 \in T
  BY FS_EmptySet
<1>2. ASSUME NEW n \in Nat, n \in T PROVE n + 1 \in T
  <2> SUFFICES ASSUME NEW S \in SUBSET U, IsFiniteSet(S), Cardinality(S) = n + 1 PROVE S \in F
    OBVIOUS
  <2>1. S # {}
    BY FS_EmptySet
  <2>2. ASSUME NEW d \in S PROVE S \ {d} \in F
    <3>1. IsFiniteSet(S \ {d}) /\ Cardinality(S \ {d}) = n
      BY Smaller
    <3> QED
      BY <1>2, <3>1
  <2> QED
    BY <2>1, <2>2
<1> HIDE DEF T
<1>3. Nat \subseteq T
  BY <1>1, <1>2, AllNumbers
<1>4. \A S \in SUBSET U : IsFiniteSet(S) => Cardinality(S) \in Nat
  BY FS_CardinalityType
<1> QED
  BY <1>3, <1>4 DEF T

One(s) == CHOOSE d \in s : TRUE
Adds(w, g, S) == g = [s \in SUBSET S |-> IF s = {} THEN 0 ELSE w[One(s)] + g[s \ {One(s)}]]

LEMMA OneIsIn == ASSUME NEW s, s # {} PROVE One(s) \in s
BY DEF One

(* Two such functions agree on the finite sets that both have. *)
LEMMA AddsAgree ==
  ASSUME NEW w, NEW S, NEW T, NEW g, NEW h, Adds(w, g, S), Adds(w, h, T)
  PROVE  \A s \in SUBSET (S \cap T) : IsFiniteSet(s) => g[s] = h[s]
<1> DEFINE U == S \cap T
           F == {s \in SUBSET U : g[s] = h[s]}
<1>1. {} \in F
  BY DEF Adds
<1>2. ASSUME NEW s \in SUBSET U, s # {}, \A d \in s : s \ {d} \in F PROVE s \in F
  <2>1. One(s) \in s
    BY <1>2, OneIsIn
  <2>2. s \in SUBSET S /\ s \in SUBSET T
    OBVIOUS
  <2>3. g[s] = w[One(s)] + g[s \ {One(s)}] /\ h[s] = w[One(s)] + h[s \ {One(s)}]
    BY <1>2, <2>2 DEF Adds
  <2> QED
    BY <1>2, <2>1, <2>3
<1> HIDE DEF U, F
<1>3. \A s \in SUBSET U : IsFiniteSet(s) => s \in F
  BY <1>1, <1>2, FiniteSetsAll
<1> QED
  BY <1>3 DEF U, F

(* There is one for each finite set. *)
LEMMA AddsExists ==
  ASSUME NEW w, NEW S, IsFiniteSet(S)
  PROVE  \E g : Adds(w, g, S)
<1> DEFINE F == {s \in SUBSET S : \E g : Adds(w, g, s)}
<1>1. {} \in F
  <2> DEFINE z == [s \in SUBSET {} |-> 0]
  <2>1. Adds(w, z, {})
    BY DEF Adds
  <2> QED
    BY <2>1
<1>2. ASSUME NEW s \in SUBSET S, s # {}, IsFiniteSet(s), \A d \in s : s \ {d} \in F
      PROVE  s \in F
  <2> DEFINE sum(t) == (CHOOSE g : Adds(w, g, t))[t]
             g == [t \in SUBSET s |-> IF t = {} THEN 0 ELSE w[One(t)] + sum(t \ {One(t)})]
  <2>1. ASSUME NEW t \in SUBSET s, t # s PROVE \E h : Adds(w, h, t)
    <3>1. PICK d \in s : t \subseteq s \ {d}
      BY <2>1
    <3>2. PICK h : Adds(w, h, s \ {d})
      BY <1>2
    <3> DEFINE k == [r \in SUBSET t |-> h[r]]
    <3>3. Adds(w, k, t)
      <4>1. ASSUME NEW r \in SUBSET t
            PROVE  k[r] = IF r = {} THEN 0 ELSE w[One(r)] + k[r \ {One(r)}]
        <5>1. r \in SUBSET (s \ {d}) /\ r \ {One(r)} \in SUBSET t
          BY <3>1
        <5>2. h[r] = IF r = {} THEN 0 ELSE w[One(r)] + h[r \ {One(r)}]
          BY <3>2, <5>1 DEF Adds
        <5> QED
          BY <5>1, <5>2
      <4>2. k = [r \in SUBSET t |-> k[r]]
        OBVIOUS
      <4> HIDE DEF k
      <4> QED
        BY <4>1, <4>2 DEF Adds
    <3> QED
      BY <3>3
  <2>2. ASSUME NEW t \in SUBSET s, t # s PROVE sum(t) = IF t = {} THEN 0 ELSE w[One(t)] + sum(t \ {One(t)})
    <3> DEFINE r == t \ {One(t)}
               h == CHOOSE f : Adds(w, f, t)
               k == CHOOSE f : Adds(w, f, r)
    <3>1. r \in SUBSET s /\ r # s /\ r \in SUBSET t /\ r \in SUBSET (t \cap r) /\ t \in SUBSET t
      BY <2>2
    <3>2. Adds(w, h, t) /\ Adds(w, k, r)
      BY <2>1, <2>2, <3>1
    <3>3. IsFiniteSet(r)
      BY <1>2, <3>1, FS_Subset
    <3> HIDE DEF h, k
    <3>4. h[t] = IF t = {} THEN 0 ELSE w[One(t)] + h[r]
      BY <3>1, <3>2 DEF Adds
    <3>5. h[r] = k[r]
      BY <3>1, <3>2, <3>3, AddsAgree
    <3> QED
      BY <3>4, <3>5 DEF h, k
  <2>3. ASSUME NEW t \in SUBSET s
        PROVE  g[t] = IF t = {} THEN 0 ELSE w[One(t)] + g[t \ {One(t)}]
    <3>1. CASE t = {}
      BY <3>1
    <3>2. CASE t # {}
      <4> DEFINE r == t \ {One(t)}
      <4>1. r \in SUBSET s /\ r # s
        BY <3>2, OneIsIn
      <4>2. g[r] = sum(r)
        BY <2>2, <4>1
      <4>3. g[t] = w[One(t)] + sum(r)
        BY <3>2
      <4> QED
        BY <3>2, <4>2, <4>3
    <3> QED
      BY <3>1, <3>2
  <2>4. g = [t \in SUBSET s |-> g[t]]
    OBVIOUS
  <2> HIDE DEF g
  <2>5. Adds(w, g, s)
    BY <2>3, <2>4 DEF Adds
  <2> QED
    BY <2>5
<1> HIDE DEF F
<1>3. S \in F
  BY <1>1, <1>2, FiniteSetsAll
<1> QED
  BY <1>3 DEF F

Summed(w, S) == (CHOOSE g : Adds(w, g, S))[S]

LEMMA NothingSummed == ASSUME NEW w PROVE Summed(w, {}) = 0
<1>1. IsFiniteSet({})
  BY FS_EmptySet
<1>2. \E g : Adds(w, g, {})
  BY <1>1, AddsExists
<1> DEFINE g == CHOOSE f : Adds(w, f, {})
<1>3. Adds(w, g, {})
  BY <1>2
<1> HIDE DEF g
<1>4. g[{}] = 0
  BY <1>3 DEF Adds
<1> QED
  BY <1>4 DEF Summed, g

(* So the sum of a finite set is made up of one element and of the rest.   *)
LEMMA SumOfOne ==
  ASSUME NEW w, NEW S, IsFiniteSet(S), S # {}
  PROVE  Summed(w, S) = w[One(S)] + Summed(w, S \ {One(S)})
<1> DEFINE R == S \ {One(S)}
           g == CHOOSE f : Adds(w, f, S)
           h == CHOOSE f : Adds(w, f, R)
<1>1. IsFiniteSet(R) /\ R \in SUBSET S /\ R \in SUBSET (S \cap R) /\ S \in SUBSET S
  BY FS_RemoveElement
<1>2. Adds(w, g, S) /\ Adds(w, h, R)
  BY <1>1, AddsExists
<1>3. Summed(w, S) = g[S] /\ Summed(w, R) = h[R]
  BY DEF Summed
<1> HIDE DEF g, h
<1>4. g[S] = w[One(S)] + g[R]
  BY <1>1, <1>2 DEF Adds
<1>5. g[R] = h[R]
  BY <1>1, <1>2, AddsAgree
<1> QED
  BY <1>3, <1>4, <1>5

(* It does not matter which. *)
LEMMA SumWithout ==
  ASSUME NEW w, NEW S, IsFiniteSet(S), \A d \in S : w[d] \in Nat
  PROVE  /\ Summed(w, S) \in Nat
         /\ \A d \in S : Summed(w, S) = w[d] + Summed(w, S \ {d})
<1> DEFINE F == {T \in SUBSET S : /\ \A R \in SUBSET T : Summed(w, R) \in Nat
                                  /\ \A d \in T : Summed(w, T) = w[d] + Summed(w, T \ {d})}
<1>1. {} \in F
  BY NothingSummed
<1>2. ASSUME NEW T \in SUBSET S, IsFiniteSet(T), T # {}, \A d \in T : T \ {d} \in F
      PROVE  T \in F
  <2> DEFINE p == One(T)
  <2>1. p \in T /\ w[p] \in Nat
    BY <1>2, OneIsIn
  <2>2. Summed(w, T) = w[p] + Summed(w, T \ {p})
    BY <1>2, SumOfOne
  <2>3. Summed(w, T \ {p}) \in Nat
    BY <1>2, <2>1
  <2> HIDE DEF p
  <2>4. ASSUME NEW R \in SUBSET T PROVE Summed(w, R) \in Nat
    <3>1. CASE R = T
      BY <2>1, <2>2, <2>3, <3>1
    <3>2. CASE R # T
      <4>1. PICK d \in T : R \in SUBSET (T \ {d})
        BY <3>2
      <4> QED
        BY <1>2, <4>1
    <3> QED
      BY <3>1, <3>2
  <2>5. ASSUME NEW d \in T, d # p PROVE Summed(w, T) = w[d] + Summed(w, T \ {d})
    <3> DEFINE rest == Summed(w, T \ {d, p})
    <3>1. (T \ {p}) \ {d} = T \ {d, p} /\ (T \ {d}) \ {p} = T \ {d, p}
      OBVIOUS
    <3>2. Summed(w, T \ {p}) = w[d] + rest
      BY <1>2, <2>1, <2>5, <3>1
    <3>3. Summed(w, T \ {d}) = w[p] + rest
      BY <1>2, <2>1, <2>5, <3>1
    <3>4. w[d] \in Nat /\ rest \in Nat
      BY <2>4
    <3> QED
      BY <2>1, <2>2, <3>2, <3>3, <3>4
  <2> QED
    BY <2>1, <2>2, <2>4, <2>5
<1> HIDE DEF F
<1>3. S \in F
  BY <1>1, <1>2, FiniteSetsAll
<1> QED
  BY <1>3 DEF F

(* One more element adds its value.                                        *)
LEMMA SumWith ==
  ASSUME NEW w, NEW S, IsFiniteSet(S), NEW d, d \notin S, \A e \in S \cup {d} : w[e] \in Nat
  PROVE  Summed(w, S \cup {d}) = Summed(w, S) + w[d] /\ Summed(w, S) \in Nat
<1>1. IsFiniteSet(S \cup {d})
  BY FS_AddElement
<1>2. Summed(w, S \cup {d}) = w[d] + Summed(w, (S \cup {d}) \ {d})
  BY <1>1, SumWithout
<1>3. (S \cup {d}) \ {d} = S
  OBVIOUS
<1>4. Summed(w, S) \in Nat
  BY SumWithout
<1>5. w[d] \in Nat
  OBVIOUS
<1>6. Summed(w, S \cup {d}) = w[d] + Summed(w, S)
  BY <1>2, <1>3
<1> QED
  BY <1>4, <1>5, <1>6

(* What the sum looks at are the values of the elements of the set.        *)
LEMMA SameSum ==
  ASSUME NEW w, NEW v, NEW S, IsFiniteSet(S), \A d \in S : w[d] = v[d]
  PROVE  Summed(w, S) = Summed(v, S)
<1> DEFINE g == CHOOSE f : Adds(w, f, S)
           h == CHOOSE f : Adds(v, f, S)
<1>1. Adds(w, g, S) /\ Adds(v, h, S)
  BY AddsExists
<1> HIDE DEF g, h
<1>2. Adds(w, h, S)
  <2>1. \A s \in SUBSET S : s # {} => w[One(s)] = v[One(s)]
    BY OneIsIn
  <2>2. h = [s \in SUBSET S |-> IF s = {} THEN 0 ELSE v[One(s)] + h[s \ {One(s)}]]
    BY <1>1 DEF Adds
  <2>3. \A s \in SUBSET S : h[s] = IF s = {} THEN 0 ELSE w[One(s)] + h[s \ {One(s)}]
    BY <2>1, <2>2
  <2>4. h = [s \in SUBSET S |-> h[s]]
    BY <2>2
  <2> QED
    BY <2>3, <2>4 DEF Adds
<1>3. S \in SUBSET (S \cap S)
  OBVIOUS
<1>4. g[S] = h[S]
  BY <1>1, <1>2, <1>3, AddsAgree
<1> QED
  BY <1>4 DEF Summed, g, h

-------------------------------------------------------------------------------
(* What was added and what was shipped, as such sums.                      *)
AddsOf(where, it, p) == {a \in Add : where[a] = "added" /\ it[a].product = p}
AddedBy(it, S) == MapThenSumSet(LAMBDA a : it[a].quantity, S)
ShippedIn(p, S) == MapThenSumSet(LAMBDA s : QuantityIn(s.items, p), S)

LEMMA AddedIsSum ==
  ASSUME NEW it, NEW S, IsFiniteSet(S), NEW U, S \subseteq U
  PROVE  AddedBy(it, S) = Summed([a \in U |-> it[a].quantity], S)
<1> DEFINE w == [a \in U |-> it[a].quantity]
           P(g) == g = [s \in SUBSET S |->
                          IF s = {} THEN 0 ELSE it[One(s)].quantity + g[s \ {One(s)}]]
           c == CHOOSE g : P(g)
<1>1. AddedBy(it, S) = c[S]
  BY DEF AddedBy, MapThenSumSet, MapThenFoldSet, One
<1>2. \A s \in SUBSET S : s # {} => w[One(s)] = it[One(s)].quantity
  BY OneIsIn
<1>3. ASSUME NEW g PROVE P(g) <=> Adds(w, g, S)
  <2> HIDE DEF w
  <2> QED
    BY <1>2 DEF Adds
<1> HIDE DEF P, w
<1>4. \E g : P(g)
  BY <1>3, AddsExists
<1>5. Adds(w, c, S)
  BY <1>3, <1>4
<1> DEFINE h == CHOOSE g : Adds(w, g, S)
<1>6. Adds(w, h, S)
  BY AddsExists
<1> HIDE DEF c, h
<1>7. S \in SUBSET (S \cap S)
  OBVIOUS
<1>8. c[S] = h[S]
  BY <1>5, <1>6, <1>7, AddsAgree
<1>9. Summed(w, S) = h[S]
  BY DEF Summed, h
<1> QED
  BY <1>1, <1>8, <1>9 DEF w

LEMMA ShippedIsSum ==
  ASSUME NEW p, NEW S, IsFiniteSet(S), NEW U, S \subseteq U
  PROVE  ShippedIn(p, S) = Summed([s \in U |-> QuantityIn(s.items, p)], S)
<1> DEFINE w == [s \in U |-> QuantityIn(s.items, p)]
           P(g) == g = [s \in SUBSET S |->
                          IF s = {} THEN 0 ELSE QuantityIn(One(s).items, p) + g[s \ {One(s)}]]
           c == CHOOSE g : P(g)
<1>1. ShippedIn(p, S) = c[S]
  BY DEF ShippedIn, MapThenSumSet, MapThenFoldSet, One
<1>2. \A s \in SUBSET S : s # {} => w[One(s)] = QuantityIn(One(s).items, p)
  BY OneIsIn
<1>3. ASSUME NEW g PROVE P(g) <=> Adds(w, g, S)
  <2> HIDE DEF w
  <2> QED
    BY <1>2 DEF Adds
<1> HIDE DEF P, w
<1>4. \E g : P(g)
  BY <1>3, AddsExists
<1>5. Adds(w, c, S)
  BY <1>3, <1>4
<1> DEFINE h == CHOOSE g : Adds(w, g, S)
<1>6. Adds(w, h, S)
  BY AddsExists
<1> HIDE DEF c, h
<1>7. S \in SUBSET (S \cap S)
  OBVIOUS
<1>8. c[S] = h[S]
  BY <1>5, <1>6, <1>7, AddsAgree
<1>9. Summed(w, S) = h[S]
  BY DEF Summed, h
<1> QED
  BY <1>1, <1>8, <1>9 DEF w

(* An acknowledged add, or a parcel, adds its quantity. *)
LEMMA AddedMore ==
  ASSUME NEW it, NEW S, IsFiniteSet(S), NEW a, a \notin S,
         \A b \in S \cup {a} : it[b].quantity \in Nat
  PROVE  AddedBy(it, S \cup {a}) = AddedBy(it, S) + it[a].quantity /\ AddedBy(it, S) \in Nat
<1> DEFINE U == S \cup {a}
           w == [b \in U |-> it[b].quantity]
<1>1. IsFiniteSet(U)
  BY FS_AddElement
<1>2. AddedBy(it, S) = Summed(w, S) /\ AddedBy(it, U) = Summed(w, U)
  BY <1>1, AddedIsSum
<1>3. \A b \in U : w[b] = it[b].quantity /\ w[b] \in Nat
  OBVIOUS
<1> HIDE DEF w
<1>4. Summed(w, U) = Summed(w, S) + w[a] /\ Summed(w, S) \in Nat
  BY <1>3, SumWith
<1> QED
  BY <1>2, <1>3, <1>4

LEMMA ShippedMore ==
  ASSUME NEW p, NEW S, IsFiniteSet(S), NEW t, t \notin S,
         \A s \in S \cup {t} : QuantityIn(s.items, p) \in Nat
  PROVE  /\ ShippedIn(p, S \cup {t}) = ShippedIn(p, S) + QuantityIn(t.items, p)
         /\ ShippedIn(p, S) \in Nat
<1> DEFINE U == S \cup {t}
           w == [s \in U |-> QuantityIn(s.items, p)]
<1>1. IsFiniteSet(U)
  BY FS_AddElement
<1>2. ShippedIn(p, S) = Summed(w, S) /\ ShippedIn(p, U) = Summed(w, U)
  BY <1>1, ShippedIsSum
<1>3. \A s \in U : w[s] = QuantityIn(s.items, p) /\ w[s] \in Nat
  OBVIOUS
<1> HIDE DEF w
<1>4. Summed(w, U) = Summed(w, S) + w[t] /\ Summed(w, S) \in Nat
  BY <1>3, SumWith
<1> QED
  BY <1>2, <1>3, <1>4

LEMMA Sums ==
  ASSUME NEW p
  PROVE  /\ Added(p) = AddedBy(item, AddsOf(adding, item, p))
         /\ Added(p)' = AddedBy(item', AddsOf(adding', item', p))
         /\ Shipped(p) = ShippedIn(p, shipped)
         /\ Shipped(p)' = ShippedIn(p, shipped')
<1>1. Added(p) = AddedBy(item, AddsOf(adding, item, p))
  BY DEF Added, AddedBy, AddsOf, MapThenSumSet, MapThenFoldSet
<1>2. Added(p)' = AddedBy(item', AddsOf(adding', item', p))
  BY DEF Added, AddedBy, AddsOf, MapThenSumSet, MapThenFoldSet
<1>3. Shipped(p) = ShippedIn(p, shipped)
  BY DEF Shipped, ShippedIn, MapThenSumSet, MapThenFoldSet
<1>4. Shipped(p)' = ShippedIn(p, shipped')
  BY DEF Shipped, ShippedIn, MapThenSumSet, MapThenFoldSet
<1> QED
  BY <1>1, <1>2, <1>3, <1>4

LEMMA SumsAreNumbers ==
  ASSUME NEW S, IsFiniteSet(S)
  PROVE  /\ \A it : (\A a \in S : it[a].quantity \in Nat) => AddedBy(it, S) \in Nat
         /\ \A p : (\A s \in S : QuantityIn(s.items, p) \in Nat) => ShippedIn(p, S) \in Nat
<1>1. ASSUME NEW it, \A a \in S : it[a].quantity \in Nat PROVE AddedBy(it, S) \in Nat
  <2> DEFINE w == [a \in S |-> it[a].quantity]
  <2>1. AddedBy(it, S) = Summed(w, S)
    BY AddedIsSum
  <2>2. \A a \in S : w[a] \in Nat
    BY <1>1
  <2> HIDE DEF w
  <2> QED
    BY <2>1, <2>2, SumWithout
<1>2. ASSUME NEW p, \A s \in S : QuantityIn(s.items, p) \in Nat PROVE ShippedIn(p, S) \in Nat
  <2> DEFINE w == [s \in S |-> QuantityIn(s.items, p)]
  <2>1. ShippedIn(p, S) = Summed(w, S)
    BY ShippedIsSum
  <2>2. \A s \in S : w[s] \in Nat
    BY <1>2
  <2> HIDE DEF w
  <2> QED
    BY <2>1, <2>2, SumWithout
<1> QED
  BY <1>1, <1>2

(* Quantities are numbers, and only finitely many calls have been made.    *)
Counted(c) == \A p \in DOMAIN c : c[p] \in Nat
Acknowledged == {a \in Add : adding[a] = "added"}

Quantified ==
  /\ item \in [Add -> [product : Product, quantity : Quantities]]
  /\ adding \in [Add -> {"none", "got", "added", "failed"}]
  /\ cart = [a \in Add |-> cart[a]] /\ cartItems = [o \in Order |-> cartItems[o]]
  /\ Counted(cache) /\ \A a \in Add : Counted(cart[a])
  /\ \A o \in Order : Counted(cartItems[o])
  /\ \A s \in shipped : Counted(s.items)
  /\ IsFiniteSet(Acknowledged) /\ IsFiniteSet(shipped)

(* When calls do not overlap, what a call has read is still the cart, and  *)
(* an order that is about to empty the cart has shipped all of it.         *)
Undisturbed ==
  /\ \A a, b \in AddInFlight : a = b
  /\ \A o, q \in OrderInFlight : o = q
  /\ AddInFlight = {} \/ OrderInFlight = {}
  /\ \A a \in AddInFlight : cart[a] = cache
  /\ \A o \in Order : stage[o] \in {"prepare", "charge", "ship"} => cartItems[o] = cache
  /\ \A o \in Order, p \in Product : stage[o] = "empty" => Added(p) <= Shipped(p)
  /\ \A p \in Product : Added(p) <= QuantityIn(cache, p) + Shipped(p)

SerialInv == Quantified /\ (~overlap => Undisturbed)

LEMMA QuantityIsNumber == ASSUME NEW c, Counted(c), NEW p PROVE QuantityIn(c, p) \in Nat
BY DEF Counted, QuantityIn

(* Whatever is added up is a number.                                       *)
LEMMA TotalsAreNumbers ==
  ASSUME Quantified, NEW p \in Product
  PROVE  /\ Added(p) \in Nat /\ Shipped(p) \in Nat /\ QuantityIn(cache, p) \in Nat
         /\ IsFiniteSet(AddsOf(adding, item, p))
         /\ \A a \in Add : item[a].quantity \in Nat
         /\ \A s \in shipped : QuantityIn(s.items, p) \in Nat
<1>1. \A a \in Add : item[a].quantity \in Nat
  BY CheckoutAssumption DEF Quantified
<1>2. AddsOf(adding, item, p) \subseteq Acknowledged
  BY DEF AddsOf, Acknowledged
<1>3. IsFiniteSet(AddsOf(adding, item, p))
  BY <1>2, FS_Subset DEF Quantified
<1>4. \A s \in shipped : QuantityIn(s.items, p) \in Nat
  BY QuantityIsNumber DEF Quantified
<1>5. AddedBy(item, AddsOf(adding, item, p)) \in Nat
  <2>1. \A a \in AddsOf(adding, item, p) : item[a].quantity \in Nat
    BY <1>1 DEF AddsOf
  <2> QED
    BY <1>3, <2>1, SumsAreNumbers
<1>6. ShippedIn(p, shipped) \in Nat
  BY <1>4, SumsAreNumbers DEF Quantified
<1>7. QuantityIn(cache, p) \in Nat
  BY QuantityIsNumber DEF Quantified
<1> QED
  BY <1>1, <1>3, <1>4, <1>5, <1>6, <1>7, Sums

LEMMA InitSerialInv == Init => SerialInv
<1> SUFFICES ASSUME Init PROVE Quantified /\ Undisturbed
  BY DEF SerialInv
<1>1. Acknowledged = {} /\ shipped = {} /\ IsFiniteSet({})
  BY FS_EmptySet DEF Init, Acknowledged
<1>2. Quantified
  BY <1>1 DEF Init, Quantified, Counted, EmptyCart
<1>3. ASSUME NEW p \in Product PROVE Added(p) = 0 /\ Shipped(p) \in Nat /\ QuantityIn(cache, p) \in Nat
  <2>1. AddsOf(adding, item, p) = {}
    BY DEF Init, AddsOf
  <2>2. Added(p) = 0
    BY <2>1, Sums DEF AddedBy, MapThenSumSet, MapThenFoldSet
  <2> QED
    BY <1>2, <2>2, TotalsAreNumbers
<1>4. \A p \in Product : Added(p) <= QuantityIn(cache, p) + Shipped(p)
  BY <1>3
<1> QED
  BY <1>2, <1>4 DEF Init, Undisturbed, AddInFlight, OrderInFlight

(* Sums change only with an acknowledged add or a parcel.                  *)
LEMMA SameAdded ==
  ASSUME UNCHANGED item, \A a \in Add : adding'[a] = "added" <=> adding[a] = "added"
  PROVE  Acknowledged' = Acknowledged /\ \A p : Added(p)' = Added(p)
<1>1. Acknowledged' = Acknowledged
  BY DEF Acknowledged
<1>2. \A p : AddsOf(adding', item', p) = AddsOf(adding, item, p)
  BY DEF AddsOf
<1> QED
  BY <1>1, <1>2, Sums

LEMMA SameShipped == ASSUME UNCHANGED shipped PROVE \A p : Shipped(p)' = Shipped(p)
BY Sums

(* A call of AddItem begins, or fails.                                     *)
LEMMA AddBegins ==
  ASSUME SerialInv, NEW a \in Add, AddReads(a) \/ AddFails(a)
  PROVE  SerialInv'
<1>1. /\ UNCHANGED <<overlap, cache, item, stage, cartItems, shipped>>
      /\ adding[a] \in {"none", "got"} /\ (adding[a] = "none" => MayStart)
      /\ \/ /\ cart' = [cart EXCEPT ![a] = cache] /\ adding[a] = "none"
            /\ adding' = [adding EXCEPT ![a] = "got"]
         \/ cart' = cart /\ adding' = [adding EXCEPT ![a] = "failed"]
  BY DEF AddReads, AddFails
<1>2. /\ \A b \in Add : adding'[b] = "added" <=> adding[b] = "added"
      /\ \A b \in Add \ {a} : adding'[b] = adding[b] /\ cart'[b] = cart[b]
      /\ adding'[a] = "got" => cart'[a] = cache /\ adding[a] = "none"
      /\ cart'[a] \in {cart[a], cache}
      /\ cart' = [b \in Add |-> cart'[b]]
      /\ adding' \in [Add -> {"none", "got", "added", "failed"}]
  BY <1>1 DEF SerialInv, Quantified
<1>3. Acknowledged' = Acknowledged /\ \A p : Added(p)' = Added(p) /\ Shipped(p)' = Shipped(p)
  BY <1>1, <1>2, SameAdded, SameShipped
<1>4. Quantified'
  <2>1. \A b \in Add : Counted(cart'[b])
    BY <1>2 DEF SerialInv, Quantified
  <2> QED
    BY <1>1, <1>2, <1>3, <2>1 DEF SerialInv, Quantified, Counted
<1>5. ASSUME ~overlap, Undisturbed PROVE Undisturbed'
  <2>1. OrderInFlight' = OrderInFlight
    BY <1>1 DEF OrderInFlight
  <2>2. CASE adding'[a] = "got"
    <3>1. AddInFlight = {} /\ OrderInFlight = {}
      BY <1>1, <1>2, <1>5, <2>2 DEF MayStart
    <3>2. AddInFlight' = {a}
      BY <1>2, <2>2, <3>1 DEF AddInFlight
    <3>3. \A p \in Product : (QuantityIn(cache, p) + Shipped(p))' = QuantityIn(cache, p) + Shipped(p)
      BY <1>1, <1>3
    <3> QED
      BY <1>1, <1>2, <1>3, <1>5, <2>1, <2>2, <3>1, <3>2, <3>3 DEF Undisturbed
  <2>3. CASE adding'[a] # "got"
    <3>1. AddInFlight' \subseteq AddInFlight /\ a \notin AddInFlight'
      BY <1>2, <2>3 DEF AddInFlight
    <3>2. \A b \in AddInFlight' : cart'[b] = cart[b]
      BY <1>2, <3>1 DEF AddInFlight
    <3>3. \A p \in Product : (QuantityIn(cache, p) + Shipped(p))' = QuantityIn(cache, p) + Shipped(p)
      BY <1>1, <1>3
    <3> QED
      BY <1>1, <1>3, <1>5, <2>1, <3>1, <3>2, <3>3 DEF Undisturbed
  <2> QED
    BY <2>2, <2>3
<1> QED
  BY <1>1, <1>4, <1>5 DEF SerialInv

(* The cart is written with the item in it.                                *)
LEMMA AddIsWritten ==
  ASSUME SerialInv, NEW a \in Add, AddWrites(a)
  PROVE  SerialInv'
<1> DEFINE q == item[a].quantity
<1>1. /\ UNCHANGED <<overlap, item, cart, stage, cartItems, shipped>>
      /\ adding[a] = "got" /\ cache' = WithItem(cart[a], item[a])
      /\ \E s \in {"added", "failed"} : adding' = [adding EXCEPT ![a] = s]
  BY DEF AddWrites
<1>2. /\ \A b \in Add \ {a} : adding'[b] = adding[b]
      /\ adding'[a] \in {"added", "failed"}
      /\ adding' \in [Add -> {"none", "got", "added", "failed"}]
  BY <1>1 DEF SerialInv, Quantified
<1>3. q \in Nat /\ Counted(cart[a])
  BY CheckoutAssumption DEF SerialInv, Quantified
<1>4. Counted(cache')
  BY <1>1, <1>3 DEF Counted, WithItem
<1>5. Quantified'
  <2>1. Acknowledged' = Acknowledged \/ Acknowledged' = Acknowledged \cup {a}
    BY <1>1, <1>2 DEF Acknowledged
  <2>2. IsFiniteSet(Acknowledged')
    <3>1. IsFiniteSet(Acknowledged)
      BY DEF SerialInv, Quantified
    <3>2. IsFiniteSet(Acknowledged \cup {a})
      BY <3>1, FS_AddElement
    <3> QED
      BY <2>1, <3>1, <3>2
  <2> QED
    BY <1>1, <1>2, <1>4, <2>2 DEF SerialInv, Quantified, Counted
<1>6. ASSUME ~overlap, Undisturbed PROVE Undisturbed'
  <2>1. a \in AddInFlight
    BY <1>1 DEF AddInFlight
  <2>2. cart[a] = cache /\ OrderInFlight = {} /\ OrderInFlight' = {}
    BY <1>1, <1>6, <2>1 DEF Undisturbed, OrderInFlight
  <2>3. AddInFlight' = {}
    BY <1>1, <1>2, <1>6, <2>1 DEF Undisturbed, AddInFlight
  <2>4. \A o \in Order : stage'[o] \in {"none", "placed", "failed"}
    BY <2>2 DEF OrderInFlight
  <2>5. ASSUME NEW p \in Product
        PROVE  Added(p)' <= QuantityIn(cache', p) + Shipped(p)'
    <3>1. /\ Added(p) \in Nat /\ Shipped(p) \in Nat /\ QuantityIn(cache, p) \in Nat
          /\ IsFiniteSet(AddsOf(adding, item, p))
          /\ \A b \in Add : item[b].quantity \in Nat
      BY TotalsAreNumbers DEF SerialInv
    <3>2. Shipped(p)' = Shipped(p)
      BY <1>1, SameShipped
    <3>3. Added(p) <= QuantityIn(cache, p) + Shipped(p)
      BY <1>6 DEF Undisturbed
    <3>4. QuantityIn(cache', p) =
            QuantityIn(cache, p) + (IF p = item[a].product THEN q ELSE 0)
      BY <1>1, <1>3, <2>2, <3>1 DEF QuantityIn, WithItem
    <3>5. CASE adding'[a] = "added" /\ p = item[a].product
      <4> DEFINE S == AddsOf(adding, item, p)
      <4>1. AddsOf(adding', item', p) = S \cup {a} /\ a \notin S
        BY <1>1, <1>2, <3>5 DEF AddsOf
      <4>2. \A b \in S \cup {a} : item[b].quantity \in Nat
        BY <3>1 DEF AddsOf
      <4> HIDE DEF S
      <4>3. AddedBy(item, S \cup {a}) = AddedBy(item, S) + q
        BY <3>1, <4>1, <4>2, AddedMore DEF S
      <4>4. Added(p)' = Added(p) + q
        BY <1>1, <4>1, <4>3, Sums DEF S
      <4> QED
        BY <1>3, <3>1, <3>2, <3>3, <3>4, <3>5, <4>4
    <3>6. CASE ~(adding'[a] = "added" /\ p = item[a].product)
      <4>1. AddsOf(adding', item', p) = AddsOf(adding, item, p)
        BY <1>1, <1>2, <3>6 DEF AddsOf
      <4>2. Added(p)' = Added(p)
        BY <1>1, <4>1, Sums
      <4> QED
        BY <1>3, <3>1, <3>2, <3>3, <3>4, <4>2
    <3> QED
      BY <3>5, <3>6
  <2> QED
    BY <2>2, <2>3, <2>4, <2>5 DEF Undisturbed
<1> QED
  BY <1>1, <1>5, <1>6 DEF SerialInv

(* A step of an order that ships nothing and leaves the cart.              *)
LEMMA OrderStays ==
  ASSUME SerialInv, Once, NEW o \in Order,
         GetsCart(o) \/ Prepares(o) \/ Charges(o) \/ Fails(o) \/ Confirms(o)
  PROVE  SerialInv'
<1>1. /\ UNCHANGED <<overlap, cache, adding, item, cart, shipped>>
      /\ stage[o] \in {"none", "prepare", "charge", "ship", "confirm"}
      /\ stage[o] = "none" => MayStart
      /\ \E s \in Stages \ {"none", "empty"} : stage' = [stage EXCEPT ![o] = s]
      /\ \/ cartItems' = [cartItems EXCEPT ![o] = cache] /\ stage[o] = "none"
         \/ cartItems' = cartItems
      /\ stage[o] = "none" => cartItems' = [cartItems EXCEPT ![o] = cache]
                              \/ stage' = [stage EXCEPT ![o] = "failed"]
      /\ stage[o] = "confirm" => stage' = [stage EXCEPT ![o] = "placed"]
  BY DEF GetsCart, Prepares, Charges, Fails, Confirms, GoesTo, addVars, Stages
<1>2. /\ \A q \in Order \ {o} : stage'[q] = stage[q] /\ cartItems'[q] = cartItems[q]
      /\ stage'[o] \in Stages \ {"none", "empty"}
      /\ cartItems'[o] \in {cartItems[o], cache}
      /\ stage[o] = "none" => cartItems'[o] = cache \/ stage'[o] = "failed"
      /\ stage[o] # "none" => cartItems'[o] = cartItems[o]
      /\ stage[o] = "confirm" => stage'[o] = "placed"
      /\ cartItems' = [q \in Order |-> cartItems'[q]]
  BY <1>1 DEF Once, SerialInv, Quantified
<1>3. \A p : Added(p)' = Added(p) /\ Shipped(p)' = Shipped(p)
  BY <1>1, SameAdded, SameShipped
<1>4. Quantified'
  <2>1. \A q \in Order : Counted(cartItems'[q])
    BY <1>2 DEF SerialInv, Quantified
  <2>2. Acknowledged' = Acknowledged
    BY <1>1 DEF Acknowledged
  <2> QED
    BY <1>1, <1>2, <2>1, <2>2 DEF SerialInv, Quantified, Counted
<1>5. ASSUME ~overlap, Undisturbed PROVE Undisturbed'
  <2>1. AddInFlight' = AddInFlight
    BY <1>1 DEF AddInFlight
  <2>2. \A p \in Product : (QuantityIn(cache, p) + Shipped(p))' = QuantityIn(cache, p) + Shipped(p)
    BY <1>1, <1>3
  <2>3. OrderInFlight' \subseteq OrderInFlight \cup {o}
    BY <1>2 DEF OrderInFlight
  <2>4. stage[o] = "none" => AddInFlight = {} /\ OrderInFlight = {}
    BY <1>1, <1>5 DEF MayStart
  <2>5. stage[o] # "none" => o \in OrderInFlight
    BY <1>1 DEF OrderInFlight
  <2>6. /\ \A u, v \in OrderInFlight' : u = v
        /\ AddInFlight' = {} \/ OrderInFlight' = {}
    BY <1>5, <2>1, <2>3, <2>4, <2>5 DEF Undisturbed
  <2>7. ASSUME NEW u \in Order, stage'[u] \in {"prepare", "charge", "ship"}
        PROVE  cartItems'[u] = cache
    <3>1. CASE u = o
      BY <1>1, <1>2, <1>5, <2>7, <3>1 DEF Undisturbed
    <3>2. CASE u # o
      BY <1>2, <1>5, <2>7, <3>2 DEF Undisturbed
    <3> QED
      BY <3>1, <3>2
  <2>8. \A u \in Order : stage'[u] = "empty" => stage[u] = "empty"
    BY <1>2
  <2> QED
    BY <1>1, <1>3, <1>5, <2>1, <2>2, <2>6, <2>7, <2>8 DEF Undisturbed
<1> QED
  BY <1>1, <1>4, <1>5 DEF SerialInv

(* A parcel leaves with all that is in the cart.                           *)
LEMMA OrderShips ==
  ASSUME SerialInv, Once, NEW o \in Order, Ships(o)
  PROVE  SerialInv'
<1> DEFINE t == Parcel(o)
<1>1. /\ UNCHANGED <<overlap, cache, adding, item, cart, cartItems>>
      /\ stage[o] = "ship" /\ shipped' = shipped \cup {t}
      /\ \E s \in {"empty", "failed"} : stage' = [stage EXCEPT ![o] = s]
  BY DEF Ships, ShipsParcel, GoesTo, addVars
<1>2. /\ \A q \in Order \ {o} : stage'[q] = stage[q]
      /\ stage'[o] \in {"empty", "failed"}
  BY <1>1 DEF Once
<1>3. t.order = o /\ t.items = cartItems[o] /\ t \notin shipped
  BY <1>1 DEF Once, Parcel
<1> HIDE DEF t
<1>4. \A p : Added(p)' = Added(p)
  BY <1>1, SameAdded
<1>5. Quantified'
  <2>1. IsFiniteSet(shipped')
    BY <1>1, FS_AddElement DEF SerialInv, Quantified
  <2>2. \A s \in shipped' : Counted(s.items)
    BY <1>1, <1>3 DEF SerialInv, Quantified
  <2>3. Acknowledged' = Acknowledged
    BY <1>1 DEF Acknowledged
  <2> QED
    BY <1>1, <2>1, <2>2, <2>3 DEF SerialInv, Quantified, Counted
<1>6. ASSUME ~overlap, Undisturbed PROVE Undisturbed'
  <2>1. AddInFlight' = AddInFlight
    BY <1>1 DEF AddInFlight
  <2>2. OrderInFlight' \subseteq OrderInFlight
    BY <1>1, <1>2 DEF OrderInFlight
  <2>3. cartItems[o] = cache
    BY <1>1, <1>6 DEF Undisturbed
  <2>4. ASSUME NEW p \in Product
        PROVE  Added(p)' <= Shipped(p)' /\ Added(p)' <= QuantityIn(cache', p) + Shipped(p)'
    <3>1. /\ Added(p) \in Nat /\ Shipped(p) \in Nat /\ QuantityIn(cache, p) \in Nat
          /\ \A s \in shipped : QuantityIn(s.items, p) \in Nat
      BY TotalsAreNumbers DEF SerialInv
    <3>2. Added(p) <= QuantityIn(cache, p) + Shipped(p)
      BY <1>6 DEF Undisturbed
    <3>3. \A s \in shipped \cup {t} : QuantityIn(s.items, p) \in Nat
      BY <1>3, <2>3, <3>1
    <3>4. ShippedIn(p, shipped \cup {t}) = ShippedIn(p, shipped) + QuantityIn(t.items, p)
      BY <1>3, <3>3, ShippedMore DEF SerialInv, Quantified
    <3>5. Shipped(p)' = Shipped(p) + QuantityIn(cache, p)
      BY <1>1, <1>3, <2>3, <3>4, Sums
    <3>6. Added(p)' = Added(p) /\ QuantityIn(cache', p) = QuantityIn(cache, p)
      BY <1>1, <1>4
    <3> QED
      BY <3>1, <3>2, <3>5, <3>6
  <2>5. \A u \in Order : stage'[u] \in {"prepare", "charge", "ship"} => stage[u] = stage'[u]
    BY <1>2
  <2> QED
    BY <1>1, <1>6, <2>1, <2>2, <2>4, <2>5 DEF Undisturbed
<1> QED
  BY <1>1, <1>5, <1>6 DEF SerialInv

(* The cart is emptied of what was shipped.                                *)
LEMMA OrderEmpties ==
  ASSUME SerialInv, Once, NEW o \in Order, Empties(o)
  PROVE  SerialInv'
<1>1. /\ UNCHANGED <<overlap, adding, item, cart, cartItems, shipped>>
      /\ stage[o] = "empty" /\ stage' = [stage EXCEPT ![o] = "confirm"]
      /\ cache' \in {cache, EmptyCart}
  BY DEF Empties, EmptiesCart, AfterFailedEmpty, GoesTo, addVars
<1>2. /\ \A q \in Order \ {o} : stage'[q] = stage[q]
      /\ stage'[o] = "confirm"
  BY <1>1 DEF Once
<1>3. \A p : Added(p)' = Added(p) /\ Shipped(p)' = Shipped(p)
  BY <1>1, SameAdded, SameShipped
<1>4. Counted(cache')
  BY <1>1 DEF SerialInv, Quantified, Counted, EmptyCart
<1>5. Quantified'
  <2>1. Acknowledged' = Acknowledged
    BY <1>1 DEF Acknowledged
  <2> QED
    BY <1>1, <1>4, <2>1 DEF SerialInv, Quantified, Counted
<1>6. ASSUME ~overlap, Undisturbed PROVE Undisturbed'
  <2>1. o \in OrderInFlight /\ OrderInFlight' \subseteq OrderInFlight
    BY <1>1, <1>2 DEF OrderInFlight
  <2>2. AddInFlight' = {}
    BY <1>1, <1>6, <2>1 DEF Undisturbed, AddInFlight
  <2>3. \A u \in Order : u # o => stage'[u] \in {"none", "placed", "failed"}
    BY <1>2, <1>6, <2>1 DEF Undisturbed, OrderInFlight
  <2>4. ASSUME NEW p \in Product PROVE Added(p)' <= QuantityIn(cache', p) + Shipped(p)'
    <3>1. Added(p) \in Nat /\ Shipped(p) \in Nat
      BY TotalsAreNumbers DEF SerialInv
    <3>2. QuantityIn(cache', p) \in Nat
      BY <1>4, QuantityIsNumber
    <3>3. Added(p) <= Shipped(p)
      BY <1>1, <1>6 DEF Undisturbed
    <3> QED
      BY <1>3, <3>1, <3>2, <3>3
  <2>5. /\ \A u, v \in OrderInFlight' : u = v
        /\ \A u \in Order : stage'[u] \notin {"prepare", "charge", "ship", "empty"}
    BY <1>2, <1>6, <2>1, <2>3 DEF Undisturbed
  <2> QED
    BY <2>2, <2>4, <2>5 DEF Undisturbed
<1> QED
  BY <1>1, <1>5, <1>6 DEF SerialInv

(* As long as no two calls overlap, no acknowledged item is lost, whatever *)
(* call fails before or after its effect: an order that fails leaves the   *)
(* cart as it was, and the cart is emptied only of what was shipped.       *)
THEOREM ItemsKept == Spec => []NothingLost
<1>1. SerialInv /\ Once /\ [Next]_vars => (SerialInv /\ Once)'
  <2> SUFFICES ASSUME SerialInv, Once, [Next]_vars PROVE SerialInv' /\ Once'
    OBVIOUS
  <2>1. Once'
    <3>1. CASE UNCHANGED <<stage, cartItems, charged, shipped>>
      BY <3>1 DEF Once, Charge, Parcel
    <3>2. (\E a \in Add : AddStep(a)) => UNCHANGED <<stage, cartItems, charged, shipped>>
      BY DEF AddStep, AddReads, AddWrites, AddFails
    <3> QED
      BY <3>1, <3>2, OrderKeepsOnce DEF Next, vars
  <2>2. CASE UNCHANGED vars
    <3>1. /\ UNCHANGED <<overlap, cache, adding, item, cart, stage, cartItems, shipped>>
      BY <2>2 DEF vars, addVars
    <3>2. \A p : Added(p)' = Added(p) /\ Shipped(p)' = Shipped(p)
      BY <3>1, SameAdded, SameShipped
    <3>3. Quantified'
      BY <3>1 DEF SerialInv, Quantified, Counted, Acknowledged
    <3>4. ASSUME ~overlap', Undisturbed PROVE Undisturbed'
      BY <3>1, <3>2, <3>4 DEF Undisturbed, AddInFlight, OrderInFlight
    <3>5. ~overlap' => ~overlap
      BY <3>1
    <3> QED
      BY <2>1, <3>3, <3>4, <3>5 DEF SerialInv
  <2>3. ASSUME NEW a \in Add, AddStep(a) PROVE SerialInv'
    BY <2>3, AddBegins, AddIsWritten DEF AddStep
  <2>4. ASSUME NEW o \in Order, OrderStep(o) PROVE SerialInv'
    BY <2>4, OrderStays, OrderShips, OrderEmpties DEF OrderStep
  <2> QED
    BY <2>1, <2>2, <2>3, <2>4 DEF Next
<1>2. SerialInv => NothingLost
  BY DEF SerialInv, Undisturbed, NothingLost
<1> QED
  BY InitSerialInv, InitOnce, <1>1, <1>2, PTL DEF Spec
===============================================================================
