------------------------------ MODULE MCInvoker ------------------------------
EXTENDS Invoker

Plain == [eventing |-> FALSE, relay |-> FALSE, emits |-> FALSE]
Eventing == [eventing |-> TRUE, relay |-> FALSE, emits |-> TRUE]

(* Behind a relay, and marked as serving although it emits. *)
Wrong == [eventing |-> FALSE, relay |-> TRUE, emits |-> TRUE]

(* A serving endpoint alone, an eventing one and a wrong one, none at all. *)
MCEndpointLists == {<<Plain>>, <<Eventing, Wrong>>, <<>>}

(* A blank reply and one that ends in a number; behind the relay no reply  *)
(* does.                                                                   *)
MCMessage == {[words |-> 0, last |-> "text"], [words |-> 1, last |-> "number"]}
===============================================================================
