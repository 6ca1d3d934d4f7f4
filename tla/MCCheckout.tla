------------------------------ MODULE MCCheckout ------------------------------
EXTENDS Checkout, TLC

CONSTANTS mug, bike

(* Prices and shipping cost that tell every set of items by its total.     *)
MCPrice == (mug :> 10) @@ (bike :> 100)
===============================================================================
