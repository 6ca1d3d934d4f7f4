-------------------------------- MODULE Money --------------------------------
(* Package money of the checkout service (checkoutservice/money/money.go). *)
(* An amount is units plus nanos / nanosMod.  nanos is an int32 and wraps; *)
(* units is an int64, far from its bounds in any order, and is not bounded *)
(* here.                                                                   *)
EXTENDS Integers

CONSTANTS
  nanosMod,   \* 1000000000 in the code
  Half,       \* 2^31: an int32 is in -Half .. Half - 1
  Currency

(* What 10^9 and 2^31 satisfy and the operators below rely on: the sum of  *)
(* two nanos in range fits an int32.                                       *)
ASSUME MoneyAssumption ==
  /\ nanosMod \in Nat \ {0}
  /\ Half \in Nat
  /\ 2 * nanosMod <= Half

Money == [units : Int, nanos : -Half .. Half - 1, currency : Currency]

Int32(x) == ((x + Half) % (2 * Half)) - Half

(* Go's / truncates towards zero, and % has the sign of the dividend.      *)
Quo(a, b) == IF a >= 0 THEN a \div b ELSE -((-a) \div b)
Rem(a, b) == a - b * Quo(a, b)

(* Not in the code: the amount counted in nanos.                           *)
Value(m) == m.units * nanosMod + m.nanos

signMatches(m) == m.nanos = 0 \/ m.units = 0 \/ (m.nanos < 0) = (m.units < 0)

validNanos(nanos) == -nanosMod < nanos /\ nanos < nanosMod

IsValid(m) == signMatches(m) /\ validNanos(m.nanos)

SumFails(l, r) == ~IsValid(l) \/ ~IsValid(r) \/ l.currency # r.currency

SameSign(units, nanos) ==
  \/ units = 0 /\ nanos = 0
  \/ units > 0 /\ nanos >= 0
  \/ units < 0 /\ nanos <= 0

(* Whole units of nanos carried over to units.                             *)
CarriedNotTaken(units, nanos) == <<units + Quo(nanos, nanosMod), nanos>>
CarriedNotGiven(units, nanos) == <<units, Rem(nanos, nanosMod)>>
Carried(units, nanos) == <<units + Quo(nanos, nanosMod), Rem(nanos, nanosMod)>>
Borrowed(units, nanos) ==
  IF units > 0
  THEN <<units - 1, Int32(nanos + nanosMod)>>
  ELSE <<units + 1, Int32(nanos - nanosMod)>>

Normal(units, nanos) ==
  IF SameSign(units, nanos) THEN Carried(units, nanos) ELSE Borrowed(units, nanos)

(* The value Sum returns when SumFails does not hold.                      *)
Sum(l, r) ==
  LET s == Normal(l.units + r.units, Int32(l.nanos + r.nanos))
  IN  [units |-> s[1], nanos |-> s[2], currency |-> l.currency]
===============================================================================
