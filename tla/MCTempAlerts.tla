----------------------------- MODULE MCTempAlerts -----------------------------
EXTENDS TempAlerts

(* Temperatures out of range on either side, and around the limit. *)
MCCelsius == {0 - 1, 80, 81, 101}

(* An event of another sender without data, for each consumer. *)
MCForeign == {Event(0 - 1, t, "m1", NoData) : t \in Triggers}
===============================================================================
