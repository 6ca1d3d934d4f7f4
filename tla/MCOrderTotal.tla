----------------------------- MODULE MCOrderTotal -----------------------------
EXTENDS OrderTotal

Amount(u, f) == [units |-> u, nanos |-> f, currency |-> "USD"]

(* nanosMod is 5: costs that carry at once, later and never.               *)
CatalogCosts == { Amount(1, 4), Amount(2, 0), Amount(1, 3), Amount(8, 2) }

(* The same in two currencies.                                             *)
TwoCurrencies == CatalogCosts \cup { [c EXCEPT !.currency = "EUR"] : c \in CatalogCosts }

(* Some of them below one unit.                                            *)
SmallCosts == { Amount(0, 1), Amount(0, 3), Amount(2, 4) }

(* -1 is converted to Word - 1.                                            *)
SomeQuantities == { -1, 0, 1, 2 }

AllCosts == TwoCurrencies \cup SmallCosts
===============================================================================
