--------------------------- MODULE ReservationSpec ---------------------------
(***************************************************************************)
(* What the reservation service promises: a reservation is made, for all   *)
(* of its nights or not at all, exactly if the hotel has enough rooms left *)
(* on each of them, and an availability check lists exactly the hotels     *)
(* that have.                                                              *)
(***************************************************************************)
EXTENDS Integers, Sequences, FiniteSets, FiniteSetsExt

CONSTANTS Hotel, NumberOfRoom, Handler

VARIABLES
  req,       \* the request of each call
  booked,    \* rooms reserved, per call, hotel and night
  answered,  \* the calls answered
  answer     \* the hotels each call returned

specVars == <<req, booked, answered, answer>>

Nights(r) == (r.inDate + 1)..r.outDate

Taken(x, n) ==
  MapThenSumSet(LAMBDA b : b.rooms, {b \in booked : b.hotel = x /\ b.night = n})

Available(r, x) == \A n \in Nights(r) : Taken(x, n) + r.rooms <= NumberOfRoom[x]

Init ==
  /\ booked = {}
  /\ answered = {}
  /\ answer = [h \in Handler |-> {}]

Make(h) ==
  LET x == req[h].hotels[1] IN
  /\ req[h].op = "make"
  /\ IF Available(req[h], x)
       THEN /\ answer' = [answer EXCEPT ![h] = {x}]
            /\ booked' = booked \cup {[by |-> h, hotel |-> x, night |-> n,
                                       rooms |-> req[h].rooms] : n \in Nights(req[h])}
       ELSE UNCHANGED <<answer, booked>>

(* A stay without a night lists no hotel. *)
Check(h) ==
  /\ req[h].op = "check"
  /\ answer' = [answer EXCEPT ![h] =
       {x \in Hotel : /\ \E k \in 1..Len(req[h].hotels) : req[h].hotels[k] = x
                      /\ Nights(req[h]) # {}
                      /\ Available(req[h], x)}]
  /\ UNCHANGED booked

Next ==
  \E h \in Handler \ answered :
    /\ answered' = answered \cup {h}
    /\ Make(h) \/ Check(h)
    /\ UNCHANGED req

Spec == Init /\ [][Next]_specVars
===============================================================================
