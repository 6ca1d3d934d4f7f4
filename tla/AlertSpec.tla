------------------------------- MODULE AlertSpec -------------------------------
(***************************************************************************)
(* What the eventing tutorial promises: engineers are alerted of readings  *)
(* that were taken and are too hot, each with the machine it came from;    *)
(* once the broker has acknowledged such a reading, they will be alerted.  *)
(***************************************************************************)
EXTENDS Integers

CONSTANTS
  Calls,      \* calls of ReadTemp
  Sources,    \* machines
  Celsius,    \* the temperatures in readings
  NoReading

VARIABLES
  reading,    \* the reading a call has brought in
  acked,      \* calls whose reading the broker has acknowledged
  alerted     \* the readings engineers have been alerted of

vars == <<reading, acked, alerted>>

Readings == [source : Sources, celsius : Celsius]
TooHot(r) == r.celsius > 80 /\ r.celsius <= 100

Init ==
  /\ reading = [c \in Calls |-> NoReading]
  /\ acked = {}
  /\ alerted = {}

Read(c, r) ==
  /\ reading[c] = NoReading
  /\ reading' = [reading EXCEPT ![c] = r]
  /\ UNCHANGED <<acked, alerted>>

Acknowledge(c) ==
  /\ reading[c] # NoReading
  /\ acked' = acked \cup {c}
  /\ UNCHANGED <<reading, alerted>>

(* An alert may come without an acknowledgement, and again. *)
Alert(c) ==
  /\ reading[c] # NoReading
  /\ TooHot(reading[c])
  /\ alerted' = alerted \cup {reading[c]}
  /\ UNCHANGED <<reading, acked>>

Next ==
  \E c \in Calls :
    (\E r \in Readings : Read(c, r)) \/ Acknowledge(c) \/ Alert(c)

(* No alert that is owed is put off for ever. *)
Fairness == \A c \in Calls : WF_vars(c \in acked /\ Alert(c))

Spec == Init /\ [][Next]_vars /\ Fairness
===============================================================================
