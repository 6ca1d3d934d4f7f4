---------------------------- MODULE ChainedEventing ----------------------------
(***************************************************************************)
(* benchmarks/chained-function-eventing under load: the invoker opens an   *)
(* experiment at the TimeseriesDB and calls the producer, which sends an   *)
(* event to the broker; a trigger hands it to the consumer, whose answer   *)
(* is an event again; another trigger hands every event to the             *)
(* TimeseriesDB, which appears here as its abstract specification where    *)
(* its handlers of one call do not overlap, and with what overlapping ones *)
(* may lose where they do (module TimeseriesDB shows both).                *)
(* The broker (external) delivers in any order, and again when a delivery  *)
(* failed or its answer was lost, until it gives up.  The user may run the *)
(* invoker again while events of an earlier run are on their way.          *)
(***************************************************************************)
EXTENDS Integers, Sequences, FiniteSets

CONSTANTS
  MaxExperiments, MaxInvocations, MaxTime,  \* bounds on a session
  MaxTries,   \* deliveries of an event before the broker gives up
  MaxHandlers,  \* bound on the events that the TimeseriesDB registers at once
  MaxFaults   \* bound on calls, deliveries and processes that fail

ASSUME EventingAssumption ==
  /\ MaxExperiments \in Nat /\ MaxInvocations \in Nat /\ MaxTime \in Nat
  /\ MaxTries \in Nat \ {0} /\ MaxHandlers \in Nat \ {0} /\ MaxFaults \in Nat

Experiment == 1..MaxExperiments
Invocation == 1..MaxInvocations
Never == 0 - 1

VARIABLES
  now,         \* the time
  experiment,  \* runs of the invoker so far; also its workflow's id
  phase,       \* what the running invoker is doing
  call,        \* call[i]: where the call of SayHello is
  metadata,    \* metadata[i]: the vHiveMetadata of the call
  broker,      \* events on their way
  sent,        \* events sent so far
  consumed,    \* consumed[i]: when the consumer first got i's event
  reported,    \* reported[x]: what End() returned in run x
  faults,
  definition, credited, latencies,  \* of the TimeseriesDB
  registering,  \* its handlers of events: calls of registerEvent
  stored,       \* invocations whose first handler has returned
  raced         \* invocations that several handlers may have entered

dbVars == <<definition, credited, latencies, registering, stored, raced>>
invokerVars == <<experiment, phase, reported>>
vars == <<now, invokerVars, call, metadata, broker, sent, consumed, faults, dbVars>>

(* manifests/6-trigger.yaml. *)
Triggers(e) ==
  {"timeseriesdb"} \cup
  (IF e.type = "greeting" /\ e.source = "producer" THEN {"consumer"} ELSE {})

(* endpoints.json: the matchers of the producer's endpoint. *)
AnyGreeting == [type |-> "greeting"]
Matchers == [type |-> "greeting", source |-> "consumer"]

TimeseriesDB ==
  INSTANCE TimeseriesSpec WITH
    WorkflowId <- Experiment, InvocationId <- Invocation, Handler <- {},
    Attributes <- [type : STRING, source : STRING], Definitions <- {}

NoWorkflows == [w \in {} |-> <<>>]

Init ==
  /\ now = 0
  /\ experiment = 0 /\ phase = "ended"
  /\ call = [i \in Invocation |-> "none"]
  /\ metadata = [i \in Invocation |-> [workflow |-> 0, invokedOn |-> 0]]
  /\ broker = {}
  /\ sent = {}
  /\ consumed = [i \in Invocation |-> Never]
  /\ reported = [x \in Experiment |-> {}]
  /\ faults = 0
  /\ definition = NoWorkflows /\ credited = {} /\ latencies = {}
  /\ registering = {} /\ stored = {} /\ raced = {}

Tick ==
  /\ now < MaxTime
  /\ now' = now + 1
  /\ UNCHANGED <<invokerVars, call, metadata, broker, sent, consumed, faults, dbVars>>

-------------------------------------------------------------------------------
(* The TimeseriesDB without any workflow. *)
Forgotten ==
  /\ definition' = NoWorkflows /\ TimeseriesDB!Reset
  /\ stored' = {} /\ raced' = {}

(* The invoker.  Start() has the TimeseriesDB forget the experiment before *)
(* (an event that arrives now belongs to none) and enter the new one.      *)
Forget ==
  /\ phase = "ended"
  /\ experiment < MaxExperiments
  /\ experiment' = experiment + 1
  /\ phase' = "starting"
  /\ Forgotten
  /\ UNCHANGED <<now, reported, call, metadata, broker, sent, consumed, faults,
                 registering>>

Define ==
  /\ phase = "starting"
  /\ phase' = "running"
  /\ TimeseriesDB!Define(experiment, <<Matchers>>)
  /\ UNCHANGED <<now, experiment, reported, call, metadata, broker, sent, consumed, faults,
                 registering, stored, raced>>

Opened == phase = "running"

(* SayHello with MakeVHiveMetadata; ids are fresh. *)
Invoke(i) ==
  /\ Opened
  /\ call[i] = "none"
  /\ \A j \in 1..(i - 1) : call[j] # "none"
  /\ call' = [call EXCEPT ![i] = "producer"]
  /\ metadata' = [metadata EXCEPT ![i] = [workflow |-> experiment, invokedOn |-> now]]
  /\ UNCHANGED <<now, invokerVars, broker, sent, consumed, faults, dbVars>>

(* End(): what the TimeseriesDB reports.  Nobody waits for events that are *)
(* still to come.                                                          *)
End ==
  /\ phase = "running"
  /\ TimeseriesDB!End
  /\ phase' = "ended"
  /\ reported' = [reported EXCEPT ![experiment] = latencies']
  /\ UNCHANGED <<now, experiment, call, metadata, broker, sent, consumed, faults,
                 registering, stored, raced>>

-------------------------------------------------------------------------------
(* An event carries the metadata of its invocation, whose id is its own. *)
Event(i, type, source) == [invocation |-> i, type |-> type, source |-> source]

(* An event that is sent, told apart from earlier ones with the same id.   *)
New(e) == [event |-> e, number |-> Cardinality({f \in sent : f.event = e})]

(* What the broker puts in its triggers' queues. *)
Queued(e) == {[copy |-> New(e), to |-> t, tries |-> 0] : t \in Triggers(e)}

Greeting(i) == Event(i, "greeting", "producer")

(* The producer's SayHello sends its event.  If the broker does not        *)
(* acknowledge it, or K_SINK is missing, the process ends, and with it all *)
(* calls that it is serving.                                               *)
Produce(i, taken, answered) ==
  /\ call[i] = "producer"
  /\ faults' = IF taken /\ answered THEN faults ELSE faults + 1
  /\ faults' <= MaxFaults
  /\ sent' = IF taken THEN sent \cup {New(Greeting(i))} ELSE sent
  /\ broker' = IF taken THEN broker \cup Queued(Greeting(i)) ELSE broker
  /\ call' = [j \in Invocation |->
                CASE j = i /\ taken /\ answered -> "ok"
                  [] ~(taken /\ answered) /\ call[j] = "producer" -> "failed"
                  [] OTHER -> call[j]]
  /\ UNCHANGED <<now, invokerVars, metadata, consumed, dbVars>>

(* A call without metadata, as the README has the user make by hand: it    *)
(* cannot be unmarshalled, and the producer ends.                          *)
CallByHand ==
  /\ faults < MaxFaults
  /\ faults' = faults + 1
  /\ call' = [i \in Invocation |-> IF call[i] = "producer" THEN "failed" ELSE call[i]]
  /\ UNCHANGED <<now, invokerVars, metadata, broker, sent, consumed, dbVars>>

-------------------------------------------------------------------------------
(* The broker tries deliveries again, unless it has done so already. *)
Retried(D) ==
  (broker \ D) \cup {r \in {[d EXCEPT !.tries = @ + 1] : d \in D \cap broker} : r.tries < MaxTries}

SameSource(e) == Event(e.invocation, "greeting", e.source)
OtherType(e) == Event(e.invocation, "response", "consumer")

(* callback: the answer keeps the id and the metadata of the event. *)
Response(e) == Event(e.invocation, "greeting", "consumer")

(* The consumer is called.  Its answer becomes an event, unless it is      *)
(* lost; either way the broker may have to call again.                     *)
Consume(d, answered, again) ==
  LET response == Response(d.copy.event) IN
  /\ d.to = "consumer"
  /\ answered \/ again
  /\ faults' = IF again THEN faults + 1 ELSE faults
  /\ faults' <= MaxFaults
  /\ consumed' = [consumed EXCEPT ![d.copy.event.invocation] = IF @ = Never THEN now ELSE @]
  /\ sent' = IF answered THEN sent \cup {New(response)} ELSE sent
  /\ broker' = (IF again THEN Retried({d}) ELSE broker \ {d})
                 \cup (IF answered THEN Queued(response) ELSE {})
  /\ UNCHANGED <<now, invokerVars, call, metadata, dbVars>>

-------------------------------------------------------------------------------
(* The TimeseriesDB serves each delivery with a goroutine of its own.      *)
Id(d) == d.copy.event.invocation
Workflow(d) == metadata[Id(d)].workflow
Attributes(d) == [type |-> d.copy.event.type, source |-> d.copy.event.source]

InHand == {a.delivery : a \in registering}

(* The handlers of the experiment that is defined. *)
Inside == {a \in registering : Workflow(a.delivery) \in DOMAIN definition}

(* checkCompletion: descriptors the invocation still waits for, or ever did. *)
Awaited(d) ==
  LET w == Workflow(d)
  IN TimeseriesDB!Matching(Attributes(d), definition[w],
                           Len(definition[w]) - Cardinality(TimeseriesDB!CreditedTo(w, Id(d))))
IsCompletion(d) == LET ds == definition[Workflow(d)]
                   IN TimeseriesDB!Matching(Attributes(d), ds, Len(ds)) # {}

(* registerEvent takes the time and looks workflow and invocation up.      *)
(* Handlers that find no invocation each register one of their own.        *)
Lookup(d) ==
  /\ d.to = "timeseriesdb" /\ d \notin InHand
  /\ Workflow(d) \in DOMAIN definition
  /\ Cardinality(registering) < MaxHandlers
  /\ registering' = registering \cup {[delivery |-> d, on |-> now, awaited |-> Awaited(d) # {}]}
  /\ raced' = IF Id(d) \notin stored /\ \E a \in Inside : Id(a.delivery) = Id(d)
              THEN raced \cup {Id(d)} ELSE raced
  /\ UNCHANGED <<now, invokerVars, call, metadata, broker, sent, consumed, faults,
                 definition, credited, latencies, stored>>

(* A handler that overlaps none of its invocation's credits a completion   *)
(* event for which the invocation still waits.                             *)
Serial(a) ==
  LET d == a.delivery IN
  /\ Id(d) \notin raced /\ (a.awaited => Awaited(d) # {})
  /\ IF Awaited(d) # {}
       THEN TimeseriesDB!Credit(d.copy, Workflow(d), Id(d), Attributes(d),
                                a.on - metadata[Id(d)].invokedOn)
       ELSE UNCHANGED <<definition, credited, latencies>>

(* Overlapping ones: what another credited may stay, be overwritten by     *)
(* this one's duration or, if both registered the invocation, be lost.     *)
Overlapping(a) ==
  LET d == a.delivery
      others == {c \in credited : c.id # Id(d)}
      mine == [event |-> d.copy, workflow |-> Workflow(d), id |-> Id(d),
               attributes |-> Attributes(d), latency |-> a.on - metadata[Id(d)].invokedOn]
  IN /\ Id(d) \in raced \/ (a.awaited /\ Awaited(d) = {})
     /\ \/ credited' = credited
        \/ Id(d) \in raced /\ credited' = others
        \/ IsCompletion(d) /\ credited' = others \cup {mine}
     /\ UNCHANGED <<definition, latencies>>

(* The rest of registerEvent, and the answer to the broker, which may be lost. *)
Register(a, answered) ==
  LET d == a.delivery IN
  /\ Workflow(d) \in DOMAIN definition
  /\ faults' = IF answered THEN faults ELSE faults + 1
  /\ faults' <= MaxFaults
  /\ registering' = registering \ {a}
  /\ Serial(a) \/ Overlapping(a)
  /\ stored' = stored \cup {Id(d)}
  /\ broker' = IF answered THEN broker \ {d} ELSE Retried({d})
  /\ UNCHANGED <<now, invokerVars, call, metadata, sent, consumed, raced>>

(* It looks the workflow up again, which StartExperiment has removed, or   *)
(* uses an index into descriptors that another handler has removed from:   *)
(* a panic that the CloudEvents SDK recovers.                              *)
RegisterPanics(a) ==
  LET d == a.delivery IN
  /\ \/ Workflow(d) \notin DOMAIN definition
     \/ /\ Workflow(d) \in DOMAIN definition /\ IsCompletion(d)
        /\ Id(d) \in raced \/ (a.awaited /\ Awaited(d) = {})
  /\ registering' = registering \ {a}
  /\ broker' = Retried({d})
  /\ UNCHANGED <<now, invokerVars, call, metadata, sent, consumed, faults,
                 definition, credited, latencies, stored, raced>>

-------------------------------------------------------------------------------
(* The TimeseriesDB ends with its handlers; Kubernetes starts it again,    *)
(* without its memory.                                                     *)
Dies(D) ==
  /\ Forgotten
  /\ registering' = {}
  /\ broker' = Retried(D \cup InHand)
  /\ UNCHANGED <<now, experiment, reported, call, metadata, sent, consumed>>

(* A StartExperiment that it was serving fails, and the invoker ends. *)
Interrupted == phase' = IF phase = "starting" THEN "ended" ELSE phase

(* An event of another workflow: log.Fatalf. *)
RegisterUnknown(d) ==
  /\ d.to = "timeseriesdb" /\ d \notin InHand
  /\ Workflow(d) \notin DOMAIN definition
  /\ Dies({d})
  /\ Interrupted
  /\ UNCHANGED faults

(* Go ends a process that it sees using a map while another goroutine      *)
(* writes it: of invocations, which the first handlers of one write,       *)
(* others read and EndExperiment goes through, or of workflows, which      *)
(* StartExperiment writes.                                                 *)
MapFault ==
  LET writing == {a \in Inside : Id(a.delivery) \notin stored} IN
  /\ \/ writing # {} /\ Cardinality(Inside) > 1 /\ Interrupted
     \/ writing # {} /\ phase = "running" /\ phase' = "ended"
     \/ registering # {} /\ phase = "starting" /\ phase' = "ended"
  /\ Dies({})
  /\ UNCHANGED faults

Crash ==
  /\ faults < MaxFaults
  /\ faults' = faults + 1
  /\ Dies({})
  /\ Interrupted

(* A delivery that reaches nobody, or that the broker waited for too long. *)
DeliveryFails(d) ==
  /\ faults < MaxFaults
  /\ faults' = faults + 1
  /\ broker' = Retried({d})
  /\ UNCHANGED <<now, invokerVars, call, metadata, sent, consumed, dbVars>>

(* The producer serves, the broker delivers. *)
Progress ==
  \/ \E a \in registering : Register(a, TRUE) \/ RegisterPanics(a)
  \/ \E d \in broker : Consume(d, TRUE, FALSE) \/ Lookup(d) \/ RegisterUnknown(d)
  \/ \E i \in Invocation : Produce(i, TRUE, TRUE)

Fault ==
  \/ \E i \in Invocation, taken \in BOOLEAN : Produce(i, taken, FALSE)
  \/ \E d \in broker :
       \/ \E answered \in BOOLEAN : Consume(d, answered, TRUE)
       \/ DeliveryFails(d)
  \/ \E a \in registering : Register(a, FALSE)
  \/ CallByHand \/ MapFault \/ Crash

Exited ==
  /\ experiment = MaxExperiments /\ phase = "ended"
  /\ broker = {} /\ registering = {}
  /\ UNCHANGED vars

Next ==
  \/ Tick \/ Forget \/ Define \/ End
  \/ \E i \in Invocation : Invoke(i)
  \/ Progress \/ Fault
  \/ Exited

(* Whatever the user does, the producer serves and the broker delivers. *)
Fairness == WF_vars(Progress)

Spec == Init /\ [][Next]_vars /\ Fairness

-------------------------------------------------------------------------------
(* Each latency a run reports is of a call that this run made and that the *)
(* consumer has served: it is no shorter than the way to the consumer, and *)
(* there is one for each call, however often events were delivered.        *)
ReportedAreServed ==
  \A x \in Experiment :
    /\ \A l \in reported[x] :
         /\ metadata[l.id].workflow = x
         /\ consumed[l.id] # Never
         /\ l.latency >= consumed[l.id] - metadata[l.id].invokedOn
    /\ \A l, m \in reported[x] : l.id = m.id => l = m

(* The pipeline ends: the consumer sends one event for each that the       *)
(* producer sent and one more for each delivery it was given again, and    *)
(* does not answer its own.                                                *)
OneAnswerEach ==
  \A i \in Invocation :
    LET from(source) == Cardinality({c \in sent : c.event.invocation = i /\ c.event.source = source})
    IN from("consumer") <= from("producer") + faults /\ from("producer") <= 1

(* A call that was answered gets measured, unless the run ends before, the *)
(* server loses its memory, the broker gives up, or two handlers found no  *)
(* invocation of it and one's was replaced (main.go:210).  Each of these   *)
(* lasts as long as the run, so a call that none ever settles would be     *)
(* one for ever.                                                           *)
Measured ==
  []<>(\A i \in Invocation :
         call[i] = "ok" /\ phase = "running" /\ metadata[i].workflow = experiment =>
           \/ i \in {c.id : c \in credited}
           \/ i \in raced
           \/ metadata[i].workflow \notin DOMAIN definition
           \/ faults >= MaxTries)
===============================================================================
