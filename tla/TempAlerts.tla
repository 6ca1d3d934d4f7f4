------------------------------ MODULE TempAlerts ------------------------------
(***************************************************************************)
(* tools/knative-eventing-tutorial: a gRPC server turns temperature        *)
(* readings into "temp" events, a consumer answers the hot ones with       *)
(* "overheat" events, and another alerts engineers of these.               *)
(* Knative (external) starts the processes, sets K_SINK when it gets to    *)
(* the SinkBinding, and runs the broker: it hands an event to the trigger  *)
(* of its type, in any order, and again after a delivery that failed or    *)
(* whose answer was lost, until it gives up.                               *)
(***************************************************************************)
EXTENDS Integers, FiniteSets, Sequences, Functions

CONSTANTS
  Calls,      \* calls of ReadTemp
  Sources,    \* machines
  Celsius,    \* the temperatures in readings
  Foreign,    \* malformed events that others may have put into the broker
  NoReading, NoData,
  MaxTries,   \* deliveries of an event before the broker gives up
  MaxFaults   \* bound on calls, deliveries and processes that fail

ASSUME AlertsAssumption ==
  /\ Celsius \subseteq Int
  /\ NoData \notin Int
  /\ NoReading \notin [source : Sources, celsius : Celsius]
  /\ \A e \in Foreign : e.celsius = NoData
  /\ MaxTries \in Nat /\ MaxFaults \in 0..(MaxTries - 1)

Triggers == {"temp", "overheat"}

VARIABLES
  sink,       \* K_SINK as the SinkBinding has set it
  serving,    \* the server listens
  call,       \* where each call of ReadTemp is, or what it was answered
  reading,    \* its message
  acked,      \* calls whose Send returned an acknowledgement
  uuids,      \* random ids drawn so far
  sent,       \* all events that processes have sent
  broker,     \* broker[t]: undelivered events of a trigger, with their tries
  alerts,     \* the log of the overheat-consumer
  faults

serverVars == <<sink, serving, call, reading, acked>>
tutorialVars == <<serverVars, uuids, sent, broker, alerts, faults>>

Event(id, type, source, celsius) ==
  [id |-> id, type |-> type, source |-> source, celsius |-> celsius]

(* The broker takes events, each for the trigger that filters on its type. *)
Put(b, events) ==
  [t \in Triggers |-> b[t] \cup {[event |-> e, tries |-> 0] : e \in {f \in events : f.type = t}}]

TutorialInit ==
  /\ sink = FALSE
  /\ serving = FALSE
  /\ call = [c \in Calls |-> "none"]
  /\ reading = [c \in Calls |-> NoReading]
  /\ acked = {}
  /\ uuids = 0
  /\ sent = {}
  /\ \E others \in SUBSET Foreign :
       broker = Put([t \in Triggers |-> {}], others)
  /\ alerts = <<>>
  /\ faults = 0

-------------------------------------------------------------------------------
(* The server. *)

BindSink ==
  /\ ~sink
  /\ sink' = TRUE
  /\ UNCHANGED <<serving, call, reading, acked, uuids, sent, broker, alerts, faults>>

SinkRequired == sink

(* main(): without K_SINK it ends at once, to be started again. *)
StartServer ==
  /\ ~serving
  /\ serving' = SinkRequired
  /\ UNCHANGED <<sink, call, reading, acked, uuids, sent, broker, alerts, faults>>

(* The process ends; calls in progress fail. *)
Stop ==
  /\ serving
  /\ faults < MaxFaults
  /\ faults' = faults + 1
  /\ serving' = FALSE
  /\ call' = [c \in Calls |-> IF call[c] = "send" THEN "unavailable" ELSE call[c]]
  /\ UNCHANGED <<sink, reading, acked, uuids, sent, broker, alerts>>

Rejects(celsius) == celsius > 100 \/ celsius < 0

(* ReadTemp, up to the event that is to be sent. *)
ReadTemp(c, source, celsius) ==
  /\ serving
  /\ call[c] = "none"
  /\ reading' = [reading EXCEPT ![c] = [source |-> source, celsius |-> celsius]]
  /\ call' = [call EXCEPT ![c] = IF Rejects(celsius) THEN "rejected" ELSE "send"]
  /\ UNCHANGED <<sink, serving, acked, uuids, sent, broker, alerts, faults>>

(* The event of a call; the client gives it a random id. *)
TempEvent(c) == Event(uuids, "temp", reading[c].source, reading[c].celsius)

(* ceClient.Send: the broker takes the event or not, and its answer        *)
(* arrives or not.  Either way the caller is told Ok.                      *)
Send(c, taken, answered) ==
  /\ call[c] = "send"
  /\ faults' = IF taken /\ answered THEN faults ELSE faults + 1
  /\ faults' <= MaxFaults
  /\ sent' = sent \cup {TempEvent(c)}
  /\ uuids' = uuids + 1
  /\ broker' = IF taken THEN Put(broker, {TempEvent(c)}) ELSE broker
  /\ acked' = IF taken /\ answered THEN acked \cup {c} ELSE acked
  /\ call' = [call EXCEPT ![c] = "ok"]
  /\ UNCHANGED <<sink, serving, reading, alerts>>

-------------------------------------------------------------------------------
(* The consumers.  Each callback gives [status, reply, log]: the status of *)
(* its answer, the events in it, and what it logged as an alert.           *)
Answer(status, reply, log) == [status |-> status, reply |-> reply, log |-> log]

SameId(e) == e.id
NewId(e) == uuids

FromBoiling(celsius) == celsius > 100
Overheated(celsius) == ~(celsius <= 80)

TempCallback(e) ==
  CASE e.celsius = NoData -> Answer(400, {}, <<>>)
    [] e.celsius # NoData /\ ~Overheated(e.celsius) -> Answer(200, {}, <<>>)
    [] OTHER -> Answer(200, {Event(NewId(e), "overheat", e.source, e.celsius)}, <<>>)

OverheatCallback(e) ==
  IF e.celsius = NoData THEN Answer(400, {}, <<>>)
  ELSE Answer(200, {}, <<[source |-> e.source, celsius |-> e.celsius]>>)

Callback(e) == IF e.type = "temp" THEN TempCallback(e) ELSE OverheatCallback(e)

(* The broker after an event's delivery: tried once more and, when it has  *)
(* been tried often enough, given up.                                      *)
Retried(b, d) ==
  [b EXCEPT ![d.event.type] =
     (@ \ {d}) \cup {r \in {[d EXCEPT !.tries = @ + 1]} : r.tries < MaxTries}]
Removed(b, d) == [b EXCEPT ![d.event.type] = @ \ {d}]

(* The broker calls a consumer's callback.  A reply becomes an event like  *)
(* any other, unless the answer is lost on its way.                        *)
Deliver(d, answered) ==
  LET answer == Callback(d.event) IN
  /\ faults' = IF answered THEN faults ELSE faults + 1
  /\ faults' <= MaxFaults
  /\ alerts' = alerts \o answer.log
  /\ sent' = sent \cup answer.reply
  /\ uuids' = uuids + Cardinality(answer.reply)
  /\ broker' = IF answered /\ answer.status = 200
                 THEN Put(Removed(broker, d), answer.reply)
                 ELSE Retried(broker, d)
  /\ UNCHANGED serverVars

(* The consumer is not there, or dies before its callback has done         *)
(* anything; Knative starts another.                                       *)
DeliveryFails(d) ==
  /\ faults < MaxFaults
  /\ faults' = faults + 1
  /\ broker' = Retried(broker, d)
  /\ UNCHANGED <<serverVars, uuids, sent, alerts>>

Undelivered == broker["temp"] \cup broker["overheat"]

TutorialExited ==
  /\ \A c \in Calls : call[c] \notin {"none", "send"}
  /\ Undelivered = {}
  /\ UNCHANGED tutorialVars

TutorialNext ==
  \/ BindSink \/ StartServer \/ Stop
  \/ \E c \in Calls :
       \/ \E source \in Sources, celsius \in Celsius : ReadTemp(c, source, celsius)
       \/ \E taken, answered \in BOOLEAN : Send(c, taken, answered)
  \/ \E d \in Undelivered :
       DeliveryFails(d) \/ \E answered \in BOOLEAN : Deliver(d, answered)
  \/ TutorialExited

(* The broker goes on delivering; nothing else needs to happen. *)
TutorialFairness == WF_tutorialVars(\E d \in Undelivered : Deliver(d, TRUE))

TutorialSpec == TutorialInit /\ [][TutorialNext]_tutorialVars /\ TutorialFairness

-------------------------------------------------------------------------------
(* tempConsumer/main.go:60: "We must ensure that (source, id) is unique    *)
(* for each event", also when an event is delivered again and answered     *)
(* twice.                                                                  *)
IdsUnique ==
  \A e, f \in sent : e.source = f.source /\ e.id = f.id => e = f

Promise == INSTANCE AlertSpec WITH alerted <- Range(alerts)

(* Engineers are alerted of accepted readings that are too hot and of no   *)
(* others, whatever was delivered again or malformed in between.           *)
OnlyPromised == Promise!Init /\ [][Promise!Next]_(Promise!vars)

(* The tutorial keeps its promise: besides, no such reading that the       *)
(* broker has acknowledged is lost.                                        *)
KeepsPromise == OnlyPromised /\ Promise!Fairness
===============================================================================
