---------------------------- MODULE MCReservation ----------------------------
EXTENDS Reservation, TLC

MCNumberOfRoom == [x \in Hotel |-> IF x = "h1" THEN 2 ELSE 1]
MCDay == 0..2

Ask(op, hotels, in, out, rooms) ==
  [op |-> op, hotels |-> hotels, inDate |-> in, outDate |-> out, rooms |-> rooms]

(* main() stores a reservation of Alice's. *)
MCFirstDocuments == { [by |-> "Alice", hotel |-> "h1", night |-> 1, rooms |-> 1] }

(* One and two nights, one and two rooms, a stay without a night. *)
Various ==
  { Ask("make", <<"h1">>, 0, 2, 1), Ask("make", <<"h1">>, 1, 2, 2), Ask("make", <<"h1">>, 0, 1, 1),
    Ask("make", <<"h2">>, 0, 2, 1), Ask("make", <<"h2">>, 2, 2, 1),
    Ask("check", <<"h1", "h2">>, 0, 2, 1), Ask("check", <<"h1">>, 1, 2, 1),
    Ask("check", <<"h2">>, 1, 0, 1) }

Competing ==
  { Ask("make", <<"h1">>, 0, 2, 1), Ask("make", <<"h1">>, 1, 2, 2),
    Ask("check", <<"h1", "h2">>, 0, 2, 1) }

(* Requests one by one on a sound cache, and requests in parallel, on two  *)
(* instances, with a fault of the cache.                                   *)
MCLoads ==
  { [requests |-> Various, atOnce |-> 1, instances |-> 1, faults |-> 0],
    [requests |-> Competing, atOnce |-> 2, instances |-> 2, faults |-> 1] }

Symmetry == Permutations(Handler)
===============================================================================
