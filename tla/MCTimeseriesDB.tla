---------------------------- MODULE MCTimeseriesDB ----------------------------
EXTENDS TimeseriesDB, TLC

Greeting == [type |-> "greeting", source |-> "consumer"]
Request  == [type |-> "greeting", source |-> "producer"]
MCAttributes == {Greeting, Request}

(* A workflow that waits for two events, the second of any kind; and two   *)
(* workflows, one with the descriptor of chained-function-eventing and one *)
(* that waits for nothing.                                                 *)
Two == [w \in {"w1"} |-> <<Greeting, [type |-> "greeting"]>>]
Both == [w \in {"w1", "w2"} |-> IF w = "w1" THEN <<Greeting>> ELSE <<>>]

MCDefinitions == {Two, Both}

(* Three deliveries one after the other, or two that overlap. *)
OneByOne == [deliveries |-> 3, atOnce |-> 1]
Overlapping == [deliveries |-> 2, atOnce |-> 2]
MCLoads == {OneByOne, Overlapping}
MCOverlapping == {Overlapping}
MCInvokedOn == [i \in {"i1"} |-> 0]

MCMatcher == {Greeting, [type |-> "greeting"]}

DeliverySymmetry == Permutations(Handler)
===============================================================================
