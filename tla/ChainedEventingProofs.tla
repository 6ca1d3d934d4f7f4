------------------------- MODULE ChainedEventingProofs -------------------------
(***************************************************************************)
(* What a run of the invoker reports of its eventing calls, for any number *)
(* of runs and calls and whatever is lost, repeated, delayed or dies.      *)
(***************************************************************************)
EXTENDS ChainedEventing, FiniteSetTheorems, TLAPS

Called(i) == i \in Invocation /\ call[i] # "none"

Types ==
  /\ now \in Nat /\ experiment \in Nat
  /\ phase \in {"starting", "running"} => experiment \in Experiment
  /\ call = [i \in Invocation |-> call[i]]
  /\ metadata \in [Invocation -> [workflow : Nat, invokedOn : Nat]]
  /\ consumed \in [Invocation -> Nat \cup {Never}]
  /\ reported = [x \in Experiment |-> reported[x]]

(* A call is made before its event is consumed.                            *)
Timed ==
  \A i \in Invocation :
    /\ call[i] = "none" => consumed[i] = Never
    /\ call[i] # "none" => metadata[i].invokedOn <= now
    /\ consumed[i] # Never => metadata[i].invokedOn <= consumed[i] /\ consumed[i] <= now

(* Events on their way have been sent, of calls that were made; those of   *)
(* the consumer after it was given one.                                    *)
Traced ==
  /\ \A d \in broker : DOMAIN d = {"copy", "to", "tries"} /\ d.copy \in sent
  /\ \A c \in sent :
       /\ Called(c.event.invocation)
       /\ c.event.source = "consumer" => consumed[c.event.invocation] # Never

(* A handler has such an event, which it got after the call was made and,  *)
(* if it is the consumer's, after the consumer was given one.              *)
Handled(a) ==
  LET i == Id(a.delivery) IN
  /\ a.delivery.copy \in sent /\ a.delivery.to = "timeseriesdb"
  /\ a.on \in Nat /\ a.on <= now
  /\ metadata[i].invokedOn <= a.on
  /\ a.delivery.copy.event.source = "consumer" => consumed[i] # Never /\ consumed[i] <= a.on
Handlers == \A a \in registering : Handled(a)

(* Only the running experiment is defined, by the producer's matchers.     *)
Defined ==
  \A w \in DOMAIN definition : w = experiment /\ definition[w] = <<Matchers>>

(* One event is credited to a call, of the workflow it was made in, and it *)
(* came after the consumer was given one.                                  *)
Served(i, latency) ==
  consumed[i] # Never /\ latency >= consumed[i] - metadata[i].invokedOn
Credited ==
  /\ IsFiniteSet(credited)
  /\ \A c \in credited :
       Called(c.id) /\ c.workflow = metadata[c.id].workflow /\ Served(c.id, c.latency)
  /\ \A c, e \in credited : c.id = e.id => c = e

(* What was reported is of calls that were made.                           *)
Reported ==
  \A x \in Experiment :
    /\ \A l \in reported[x] :
         Called(l.id) /\ metadata[l.id].workflow = x /\ Served(l.id, l.latency)
    /\ \A l, m \in reported[x] : l.id = m.id => l = m

IInv == Types /\ Timed /\ Traced /\ Handlers /\ Defined /\ Credited /\ Reported

(* The invariant holds before the first run.                               *)
LEMMA InitIInv == Init => IInv
<1> SUFFICES ASSUME Init PROVE IInv
  OBVIOUS
<1>1. Types /\ Timed
  BY DEF Init, Types, Timed, Never
<1>2. Traced /\ Handlers /\ Defined
  BY DEF Init, Traced, Handlers, Defined, NoWorkflows
<1>3. Credited /\ Reported
  BY FS_EmptySet DEF Init, Credited, Reported
<1> QED BY <1>1, <1>2, <1>3 DEF IInv

(* Calls that were made keep their metadata and the time they were         *)
(* consumed; so what is known of credited and reported events stays true.  *)
LEMMA PastKept ==
  ASSUME IInv, \A i \in Invocation :
           Called(i) => /\ Called(i)' /\ metadata'[i] = metadata[i]
                        /\ consumed[i] # Never => consumed'[i] = consumed[i]
  PROVE  /\ credited' = credited => Credited'
         /\ credited' = {} => Credited'
         /\ reported' = reported => Reported'
<1>1. \A i, latency : Called(i) /\ Served(i, latency) =>
        Called(i)' /\ metadata'[i] = metadata[i] /\ Served(i, latency)'
  BY DEF Served, Called
<1>2. credited' = credited => Credited'
  BY <1>1 DEF IInv, Credited
<1>3. credited' = {} => Credited'
  BY FS_EmptySet DEF Credited
<1>4. reported' = reported => Reported'
  BY <1>1 DEF IInv, Reported
<1> QED BY <1>2, <1>3, <1>4

(* So does what is known of handlers that go on.                           *)
LEMMA HandlersKept ==
  ASSUME IInv, now' \in Nat, now <= now', sent \subseteq sent', registering' \subseteq registering,
         \A i \in Invocation :
           Called(i) => /\ metadata'[i] = metadata[i]
                        /\ consumed[i] # Never => consumed'[i] = consumed[i]
  PROVE  Handlers'
<1> SUFFICES ASSUME NEW a \in registering PROVE Handled(a)'
  BY DEF Handlers
<1>1. Handled(a)
  BY DEF IInv, Handlers
<1>2. Called(a.delivery.copy.event.invocation)
  BY <1>1 DEF IInv, Traced, Handled
<1>3. now \in Nat
  BY DEF IInv, Types
<1> QED BY <1>1, <1>2, <1>3 DEF Handled, Id, Called

(* Giving up or trying again.                                              *)
LEMMA RetriedKeeps ==
  ASSUME IInv, NEW D
  PROVE  \A e \in Retried(D) : DOMAIN e = {"copy", "to", "tries"} /\ e.copy \in sent
<1>1. ASSUME NEW d \in broker, NEW e, e = [d EXCEPT !.tries = @ + 1]
      PROVE  DOMAIN e = {"copy", "to", "tries"} /\ e.copy = d.copy
  BY <1>1 DEF IInv, Traced
<1> QED BY <1>1 DEF IInv, Traced, Retried

(* The steps that leave calls alone, or only fail some.                    *)
Quiet ==
  \/ Tick \/ Forget \/ Define \/ CallByHand \/ MapFault \/ Crash
  \/ \E d \in broker : RegisterUnknown(d) \/ DeliveryFails(d)
  \/ \E a \in registering : RegisterPanics(a)
  \/ UNCHANGED vars

(* What they do to events.                                                 *)
LEMMA QuietSteps ==
  ASSUME Quiet
  PROVE  /\ UNCHANGED <<metadata, consumed, sent, reported>>
         /\ \A i \in Invocation : Called(i)' <=> Called(i)
         /\ credited' = credited \/ credited' = {}
         /\ registering' \subseteq registering
         /\ broker' = broker \/ \E D : broker' = Retried(D)
         /\ now' = now \/ now' = now + 1
         /\ UNCHANGED <<definition, experiment>> \/ DOMAIN definition' = {} \/ Define
         /\ call' = call \/ CallByHand
<1>1. CASE \E D : Dies(D) /\ UNCHANGED now
  BY <1>1 DEF Dies, Forgotten, TimeseriesDB!Reset, NoWorkflows, Called
<1>2. CASE Tick \/ Forget \/ Define \/ CallByHand \/ UNCHANGED vars
  BY <1>2 DEF Tick, Forget, Define, CallByHand, vars, invokerVars, dbVars, Forgotten,
              TimeseriesDB!Reset, TimeseriesDB!Define, NoWorkflows, Called
<1>3. CASE \E d \in broker : DeliveryFails(d)
  BY <1>3 DEF DeliveryFails, invokerVars, dbVars, Called
<1>4. CASE \E a \in registering : RegisterPanics(a)
  BY <1>4 DEF RegisterPanics, invokerVars, Called
<1> QED BY <1>1, <1>2, <1>3, <1>4 DEF Quiet, MapFault, Crash, RegisterUnknown, Dies

LEMMA QuietKeeps ==
  ASSUME IInv, Quiet
  PROVE  IInv'
<1>1. Credited' /\ Reported'
  BY QuietSteps, PastKept
<1>2. now \in Nat /\ now' \in Nat /\ now <= now'
  BY QuietSteps DEF IInv, Types
<1>3. /\ experiment' \in Nat
      /\ phase' \in {"starting", "running"} => experiment' \in Experiment
  <2>1. CASE Forget
    BY <2>1, EventingAssumption DEF Forget, IInv, Types, Experiment
  <2>2. CASE Define
    BY <2>2 DEF Define, IInv, Types
  <2>3. CASE experiment' = experiment /\ phase' \in {phase, "ended"}
    BY <2>3 DEF IInv, Types
  <2>4. CASE MapFault \/ Crash \/ \E d \in broker : RegisterUnknown(d)
    BY <2>3, <2>4 DEF MapFault, Crash, RegisterUnknown, Dies, Interrupted
  <2> QED BY <2>1, <2>2, <2>3, <2>4
    DEF Quiet, Tick, CallByHand, DeliveryFails, RegisterPanics, vars, invokerVars
<1>4. call' = [i \in Invocation |-> call'[i]]
  <2>1. CASE CallByHand
    BY <2>1 DEF CallByHand
  <2>2. CASE call' = call
    BY <2>2 DEF IInv, Types
  <2> QED BY <2>1, <2>2, QuietSteps
<1>5. Types'
  BY QuietSteps, <1>2, <1>3, <1>4 DEF IInv, Types
<1>6. Timed'
  BY QuietSteps, <1>2 DEF IInv, Types, Timed, Called, Never
<1>7. \A e \in broker' : DOMAIN e = {"copy", "to", "tries"} /\ e.copy \in sent
  BY QuietSteps, RetriedKeeps DEF IInv, Traced
<1>8. Traced'
  BY QuietSteps, <1>7 DEF IInv, Traced, Called
<1>9. Handlers'
  BY QuietSteps, <1>2, HandlersKept
<1>10. Defined'
  <2>1. CASE Define
    BY <2>1 DEF Define, TimeseriesDB!Define, IInv, Defined
  <2>2. CASE DOMAIN definition' = {}
    BY <2>2 DEF Defined
  <2>3. CASE UNCHANGED <<definition, experiment>>
    BY <2>3 DEF IInv, Defined
  <2> QED BY <2>1, <2>2, <2>3, QuietSteps
<1> QED BY <1>1, <1>5, <1>6, <1>8, <1>9, <1>10 DEF IInv

(* A new call has had no event yet.                                        *)
LEMMA InvokeKeeps ==
  ASSUME IInv, NEW i \in Invocation, Invoke(i)
  PROVE  IInv'
<1>1. /\ UNCHANGED <<now, invokerVars, broker, sent, consumed, dbVars>>
      /\ call[i] = "none"
      /\ call' = [call EXCEPT ![i] = "producer"]
      /\ metadata' = [metadata EXCEPT ![i] = [workflow |-> experiment, invokedOn |-> now]]
  BY DEF Invoke
<1>2. \A j \in Invocation : Called(j) => Called(j)' /\ metadata'[j] = metadata[j]
  BY <1>1 DEF IInv, Types, Called
<1>3. Credited' /\ Reported'
  BY <1>1, <1>2, PastKept DEF invokerVars, dbVars
<1>4. Types'
  BY <1>1 DEF IInv, Types, invokerVars
<1>5. Timed'
  BY <1>1 DEF IInv, Types, Timed, Never
<1>6. Traced' /\ Defined'
  BY <1>1, <1>2 DEF IInv, Traced, Defined, invokerVars, dbVars, Called
<1>7. Handlers'
  BY <1>1, <1>2, HandlersKept DEF IInv, Types, dbVars
<1> QED BY <1>3, <1>4, <1>5, <1>6, <1>7 DEF IInv

(* What is queued of an event that is sent.                                *)
LEMMA QueuedKeeps ==
  ASSUME NEW e
  PROVE  \A d \in Queued(e) : DOMAIN d = {"copy", "to", "tries"} /\ d.copy = New(e)
BY DEF Queued

(* The producer sends on behalf of a call.                                 *)
LEMMA ProduceKeeps ==
  ASSUME IInv, NEW i \in Invocation, NEW taken \in BOOLEAN, NEW answered \in BOOLEAN,
         Produce(i, taken, answered)
  PROVE  IInv'
<1>1. /\ UNCHANGED <<now, invokerVars, metadata, consumed, dbVars>>
      /\ call[i] = "producer"
      /\ call' = [j \in Invocation |-> call'[j]]
      /\ \A j \in Invocation : Called(j) <=> Called(j)'
  BY DEF Produce, Called
<1>2. Credited' /\ Reported'
  BY <1>1, PastKept DEF invokerVars, dbVars
<1>3. Types' /\ Timed'
  BY <1>1 DEF IInv, Types, Timed, invokerVars, Called
<1>4. \A c \in sent' : c \in sent \/ c = New(Greeting(i))
  BY DEF Produce
<1>5. New(Greeting(i)).event.invocation = i /\ New(Greeting(i)).event.source = "producer"
  BY DEF New, Greeting, Event
<1>6. sent \subseteq sent' /\ (broker' # broker => New(Greeting(i)) \in sent')
  BY DEF Produce
<1>7. \A d \in broker' : d \in broker \/ (d \in Queued(Greeting(i)) /\ broker' # broker)
  BY DEF Produce
<1>8. \A d \in broker' : DOMAIN d = {"copy", "to", "tries"} /\ d.copy \in sent'
  BY <1>6, <1>7, QueuedKeeps DEF IInv, Traced
<1>9. Called(i)
  BY <1>1 DEF Called
<1>10. \A c \in sent' : /\ Called(c.event.invocation)'
                        /\ c.event.source = "consumer" => consumed'[c.event.invocation] # Never
  BY <1>1, <1>4, <1>5, <1>9 DEF IInv, Traced, Called
<1>11. Traced' /\ Defined'
  BY <1>1, <1>8, <1>10 DEF IInv, Traced, Defined, invokerVars, dbVars
<1>12. Handlers'
  BY <1>1, <1>6, HandlersKept DEF IInv, Types, dbVars
<1> QED BY <1>2, <1>3, <1>11, <1>12 DEF IInv

(* The consumer keeps the time it was first given the event.               *)
LEMMA ConsumeKeeps ==
  ASSUME IInv, NEW d \in broker, NEW answered \in BOOLEAN, NEW again \in BOOLEAN,
         Consume(d, answered, again)
  PROVE  IInv'
<1> DEFINE i == d.copy.event.invocation
           response == Response(d.copy.event)
<1>1. /\ UNCHANGED <<now, invokerVars, call, metadata, dbVars>>
      /\ consumed' = [consumed EXCEPT ![i] = IF @ = Never THEN now ELSE @]
  BY DEF Consume
<1>2. i \in Invocation /\ Called(i)
  BY DEF IInv, Traced, Called
<1>3. \A j \in Invocation : consumed[j] # Never => consumed'[j] = consumed[j]
  BY <1>1 DEF IInv, Types
<1>4. consumed'[i] # Never
  BY <1>1, <1>2 DEF IInv, Types, Never
<1>5. Credited' /\ Reported'
  BY <1>1, <1>3, PastKept DEF invokerVars, dbVars, Called
<1>6. Types'
  BY <1>1, <1>2 DEF IInv, Types, invokerVars
<1>7. Timed'
  BY <1>1, <1>2 DEF IInv, Types, Timed, invokerVars, Called, Never
<1>8. \A c \in sent' : c \in sent \/ c = New(response)
  BY DEF Consume
<1>9. New(response).event.invocation = i
  BY DEF New, Response, Event
<1>10. sent \subseteq sent' /\ (answered => New(response) \in sent')
  BY DEF Consume
<1>11. \A e \in broker' : e \in broker \/ e \in Retried({d}) \/ (answered /\ e \in Queued(response))
  BY DEF Consume
<1>12. \A e \in broker' : DOMAIN e = {"copy", "to", "tries"} /\ e.copy \in sent'
  BY <1>10, <1>11, QueuedKeeps, RetriedKeeps DEF IInv, Traced
<1>13. \A c \in sent' : /\ Called(c.event.invocation)'
                        /\ c.event.source = "consumer" => consumed'[c.event.invocation] # Never
  BY <1>1, <1>2, <1>3, <1>4, <1>8, <1>9 DEF IInv, Traced, Called
<1>14. Traced' /\ Defined'
  BY <1>1, <1>12, <1>13 DEF IInv, Traced, Defined, invokerVars, dbVars
<1>15. Handlers'
  BY <1>1, <1>3, <1>10, HandlersKept DEF IInv, Types, dbVars
<1> QED BY <1>5, <1>6, <1>7, <1>14, <1>15 DEF IInv

(* A handler takes the time when it gets its event.                        *)
LEMMA LookupKeeps ==
  ASSUME IInv, NEW d \in broker, Lookup(d)
  PROVE  IInv'
<1> DEFINE i == Id(d)
           new == [delivery |-> d, on |-> now, awaited |-> Awaited(d) # {}]
<1>1. /\ UNCHANGED <<now, invokerVars, call, metadata, broker, sent, consumed,
                     definition, credited, latencies>>
      /\ registering' = registering \cup {new} /\ d.to = "timeseriesdb"
  BY DEF Lookup
<1>2. Types' /\ Timed' /\ Traced' /\ Defined'
  BY <1>1 DEF IInv, Types, Timed, Traced, Defined, Called, invokerVars
<1>3. Credited' /\ Reported'
  BY <1>1, PastKept DEF Called, invokerVars
<1>4. Called(i) /\ d.copy \in sent /\ (d.copy.event.source = "consumer" => consumed[i] # Never)
  BY DEF IInv, Traced, Id
<1>5. /\ now \in Nat /\ metadata[i].invokedOn <= now
      /\ consumed[i] # Never => consumed[i] <= now
  BY <1>4 DEF IInv, Types, Timed, Called
<1>6. Handled(new)
  BY <1>1, <1>4, <1>5 DEF Handled
<1>7. \A a \in registering' : Handled(a)
  BY <1>1, <1>6 DEF IInv, Handlers
<1>8. Handlers'
  BY <1>1, <1>7 DEF Handlers, Handled, Id
<1> QED BY <1>2, <1>3, <1>8 DEF IInv

(* What the event of a handler has, if it is a completion event.           *)
LEMMA CompletionServed ==
  ASSUME IInv, NEW a \in registering, Workflow(a.delivery) \in DOMAIN definition
  PROVE  /\ definition[Workflow(a.delivery)] = <<Matchers>>
         /\ Called(Id(a.delivery))
         /\ IsCompletion(a.delivery) =>
              Served(Id(a.delivery), a.on - metadata[Id(a.delivery)].invokedOn)
<1> DEFINE d == a.delivery
           i == Id(d)
<1>1. definition[Workflow(d)] = <<Matchers>>
  BY DEF IInv, Defined
<1>2. Handled(a) /\ Called(i)
  BY DEF IInv, Handlers, Handled, Traced, Id
<1>3. ASSUME IsCompletion(d) PROVE d.copy.event.source = "consumer"
  <2>1. Len(<<Matchers>>) = 1 /\ <<Matchers>>[1] = Matchers
    OBVIOUS
  <2>2. PICK k \in 1..1 : TimeseriesDB!Matches(Attributes(d), <<Matchers>>[k])
    BY <1>1, <1>3, <2>1 DEF IsCompletion, TimeseriesDB!Matching
  <2>3. TimeseriesDB!Matches(Attributes(d), Matchers)
    BY <2>1, <2>2
  <2> QED BY <2>3 DEF TimeseriesDB!Matches, Matchers, Attributes
<1>4. /\ metadata[i].invokedOn \in Nat /\ a.on \in Nat
      /\ consumed[i] # Never => consumed[i] \in Nat
  BY <1>2 DEF IInv, Types, Called, Handled
<1>5. ASSUME IsCompletion(d) PROVE Served(i, a.on - metadata[i].invokedOn)
  BY <1>2, <1>3, <1>4, <1>5 DEF Handled, Served
<1> QED BY <1>1, <1>2, <1>5

(* One event at a time is credited to a call, after the consumer had it,   *)
(* whether handlers overlap or not.                                        *)
LEMMA RegisterKeeps ==
  ASSUME IInv, NEW a \in registering, NEW answered \in BOOLEAN, Register(a, answered)
  PROVE  IInv'
<1> DEFINE d == a.delivery
           i == Id(d)
           w == Workflow(d)
           before == TimeseriesDB!CreditedTo(w, i)
           others == {c \in credited : c.id # i}
           mine == [event |-> d.copy, workflow |-> w, id |-> i, attributes |-> Attributes(d),
                    latency |-> a.on - metadata[i].invokedOn]
<1>1. /\ UNCHANGED <<now, invokerVars, call, metadata, sent, consumed, definition>>
      /\ w \in DOMAIN definition
      /\ registering' \subseteq registering
      /\ broker' \subseteq broker \/ broker' = Retried({d})
  BY DEF Register, Serial, Overlapping, TimeseriesDB!Credit
<1>2. Types' /\ Timed' /\ Defined'
  BY <1>1 DEF IInv, Types, Timed, Defined, invokerVars
<1>3. Traced'
  BY <1>1, RetriedKeeps DEF IInv, Traced, Called
<1>4. Handlers'
  BY <1>1, HandlersKept DEF IInv, Types
<1>5. Reported'
  BY <1>1, PastKept DEF Called, invokerVars
<1>6. CASE credited' = credited
  BY <1>1, <1>2, <1>3, <1>4, <1>5, <1>6, PastKept DEF IInv, Called
<1>7. CASE credited' = others
  <2>1. others \in SUBSET credited
    OBVIOUS
  <2>2. IsFiniteSet(credited')
    BY <1>7, <2>1, FS_Subset DEF IInv, Credited
  <2>3. Credited'
    BY <1>1, <1>7, <2>2 DEF IInv, Credited, Called, Served
  <2> QED BY <1>2, <1>3, <1>4, <1>5, <2>3 DEF IInv
<1>8. ASSUME credited' = others \cup {mine}, IsCompletion(d)
      PROVE  Credited'
  <2>1. others \in SUBSET credited
    OBVIOUS
  <2>2. IsFiniteSet(others)
    BY <2>1, FS_Subset DEF IInv, Credited
  <2>3. IsFiniteSet(credited')
    BY <1>8, <2>2, FS_AddElement
  <2>4. Called(i) /\ Served(i, mine.latency)
    BY <1>1, <1>8, CompletionServed
  <2>5. mine.id = i /\ mine.workflow = metadata[i].workflow
    BY DEF Workflow
  <2>6. \A c \in credited' : \/ c \in credited /\ c.id # i
                             \/ c = mine
    BY <1>8
  <2>7. \A c \in credited' : /\ Called(c.id) /\ c.workflow = metadata[c.id].workflow
                             /\ Served(c.id, c.latency)
    BY <2>4, <2>5, <2>6 DEF IInv, Credited
  <2>8. \A c, e \in credited' : c.id = e.id => c = e
    BY <2>5, <2>6 DEF IInv, Credited
  <2> QED BY <1>1, <2>3, <2>7, <2>8 DEF Credited, Called, Served
<1>9. CASE Serial(a) /\ Awaited(d) # {}
  <2>1. credited' = credited \cup {mine}
    BY <1>9 DEF Serial, TimeseriesDB!Credit
  <2>2. IsCompletion(d)
    BY <1>9 DEF Serial, TimeseriesDB!Credit, IsCompletion
  <2>3. before = {}
    <3>1. Cardinality(before) < Len(definition[w])
      BY <1>9, Zenon DEF Serial, TimeseriesDB!Credit, TimeseriesDB!Cardinality, Cardinality
    <3>2. definition[w] = <<Matchers>> /\ Len(<<Matchers>>) = 1
      BY <1>1, CompletionServed
    <3>3. IsFiniteSet(before) /\ Cardinality(before) \in Nat
      BY FS_Subset, FS_CardinalityType DEF IInv, Credited, TimeseriesDB!CreditedTo
    <3> HIDE DEF before
    <3>4. Cardinality(before) = 0
      BY <3>1, <3>2, <3>3
    <3> QED BY <3>3, <3>4, FS_EmptySet
  <2>4. \A c \in credited : c.id # i
    BY <2>3 DEF IInv, Credited, TimeseriesDB!CreditedTo, Workflow
  <2>5. credited = others
    BY <2>4
  <2> QED BY <1>2, <1>3, <1>4, <1>5, <1>8, <2>1, <2>2, <2>5 DEF IInv
<1>10. CASE Overlapping(a) /\ credited' = others \cup {mine} /\ IsCompletion(d)
  BY <1>2, <1>3, <1>4, <1>5, <1>8, <1>10 DEF IInv
<1> QED BY <1>6, <1>7, <1>9, <1>10 DEF Register, Serial, Overlapping

(* The run reports one latency for each call that was credited.            *)
LEMMA EndKeeps ==
  ASSUME IInv, End
  PROVE  IInv'
<1>1. /\ UNCHANGED <<now, experiment, call, metadata, broker, sent, consumed,
                     definition, credited, registering>>
      /\ phase' = "ended"
      /\ reported' = [reported EXCEPT ![experiment] = latencies']
      /\ TimeseriesDB!End
      /\ experiment \in Experiment
  BY DEF End, TimeseriesDB!End, IInv, Types
<1>2. Types' /\ Timed' /\ Traced' /\ Handlers' /\ Defined' /\ Credited'
  BY <1>1 DEF IInv, Types, Timed, Traced, Handlers, Handled, Id, Defined, Credited, Called, Served
<1>3. ASSUME NEW l \in latencies'
      PROVE  /\ Called(l.id) /\ metadata[l.id].workflow = experiment
             /\ \E c \in credited : c.id = l.id /\ c.latency = l.latency
             /\ l.workflow = experiment /\ DOMAIN l = {"workflow", "id", "latency"}
             /\ l = [workflow |-> l.workflow, id |-> l.id, latency |-> l.latency]
  <2>1. PICK w \in Experiment, i \in Invocation :
               /\ TimeseriesDB!Complete(w, i)
               /\ l = [workflow |-> w, id |-> i,
                       latency |-> TimeseriesDB!Latest({c.latency : c \in TimeseriesDB!CreditedTo(w, i)})]
    BY <1>1, <1>3 DEF TimeseriesDB!End
  <2>2. w = experiment
    BY <2>1 DEF TimeseriesDB!Complete, IInv, Defined
  <2>3. PICK c \in credited : c.workflow = w /\ c.id = i
    BY <2>1 DEF TimeseriesDB!Complete, TimeseriesDB!CreditedTo
  <2>4. TimeseriesDB!CreditedTo(w, i) = {c}
    BY <2>3 DEF IInv, Credited, TimeseriesDB!CreditedTo
  <2>5. {e.latency : e \in {c}} = {c.latency}
    OBVIOUS
  <2>6. TimeseriesDB!Latest({c.latency}) = c.latency
    BY DEF TimeseriesDB!Latest
  <2> QED BY <2>1, <2>2, <2>3, <2>4, <2>5, <2>6 DEF IInv, Credited
<1>4. \A l, m \in latencies' : l.id = m.id => l = m
  <2> SUFFICES ASSUME NEW l \in latencies', NEW m \in latencies', l.id = m.id
               PROVE  l = m
    OBVIOUS
  <2>1. l.latency = m.latency /\ l.workflow = m.workflow
    BY <1>3 DEF IInv, Credited
  <2> QED BY <1>3, <2>1
<1>5. \A l \in latencies' : Called(l.id) /\ metadata[l.id].workflow = experiment
                              /\ Served(l.id, l.latency)
  BY <1>3 DEF IInv, Credited
<1>6. \A x \in Experiment : reported'[x] = IF x = experiment THEN latencies' ELSE reported[x]
  BY <1>1 DEF IInv, Types
<1>7. Reported'
  BY <1>1, <1>4, <1>5, <1>6 DEF IInv, Reported, Called, Served
<1> QED BY <1>2, <1>7 DEF IInv

LEMMA NextIInv == IInv /\ [Next]_vars => IInv'
<1> SUFFICES ASSUME IInv, [Next]_vars PROVE IInv'
  OBVIOUS
<1>1. CASE Quiet
  BY <1>1, QuietKeeps
<1>2. CASE Progress
  BY <1>1, <1>2, ProduceKeeps, ConsumeKeeps, LookupKeeps, RegisterKeeps DEF Progress, Quiet
<1>3. CASE Fault
  BY <1>1, <1>3, ProduceKeeps, ConsumeKeeps, RegisterKeeps DEF Fault, Quiet
<1>4. CASE \E i \in Invocation : Invoke(i)
  BY <1>4, InvokeKeeps
<1>5. CASE End
  BY <1>5, EndKeeps
<1>6. CASE Tick \/ Forget \/ Define \/ UNCHANGED vars
  BY <1>1, <1>6 DEF Quiet
<1> QED BY <1>2, <1>3, <1>4, <1>5, <1>6 DEF Next, Exited

(* Each latency a run reports is of a call that this run made and that the *)
(* consumer has served, and there is one for each call, for any number of  *)
(* runs, calls, deliveries and faults.                                     *)
THEOREM ReportsOnlyServed == Spec => []ReportedAreServed
<1>1. IInv => ReportedAreServed
  BY DEF IInv, Reported, ReportedAreServed, Served
<1> QED BY InitIInv, NextIInv, <1>1, PTL DEF Spec

-------------------------------------------------------------------------------
(* How many events a call has: one of the producer at most, and of the     *)
(* consumer one for each delivery that it is still due or has had, which   *)
(* only a fault repeats.                                                   *)
SentBy(i, source) == {c \in sent : c.event.invocation = i /\ c.event.source = source}
Due(i) == {d \in broker : d.to = "consumer" /\ d.copy.event.invocation = i}

Counts(i) ==
  /\ call[i] \in {"none", "producer"} => SentBy(i, "producer") = {}
  /\ Cardinality(SentBy(i, "producer")) <= 1
  /\ Cardinality(SentBy(i, "consumer")) + Cardinality(Due(i))
       <= Cardinality(SentBy(i, "producer")) + faults

Counted ==
  /\ faults \in Nat /\ IsFiniteSet(sent) /\ IsFiniteSet(broker)
  /\ \A i \in Invocation : Counts(i)

LEMMA Cards ==
  ASSUME Counted, NEW i
  PROVE  /\ \A source : IsFiniteSet(SentBy(i, source)) /\ Cardinality(SentBy(i, source)) \in Nat
         /\ IsFiniteSet(Due(i)) /\ Cardinality(Due(i)) \in Nat
<1>1. Due(i) \in SUBSET broker /\ \A source : SentBy(i, source) \in SUBSET sent
  BY DEF Due, SentBy
<1>2. IsFiniteSet(Due(i)) /\ \A source : IsFiniteSet(SentBy(i, source))
  BY <1>1, FS_Subset DEF Counted
<1> QED BY <1>2, FS_CardinalityType

LEMMA InitCounted == Init => Counted
<1> SUFFICES ASSUME Init PROVE Counted
  OBVIOUS
<1>1. ASSUME NEW i \in Invocation PROVE Counts(i)
  <2>1. SentBy(i, "producer") = {} /\ SentBy(i, "consumer") = {} /\ Due(i) = {} /\ faults = 0
    BY DEF Init, SentBy, Due
  <2> QED BY <2>1, FS_EmptySet DEF Counts
<1> QED BY <1>1, FS_EmptySet DEF Init, Counted

(* A step that sends nothing and has the consumer called no more often.    *)
LEMMA CountsStay ==
  ASSUME Counted, NEW i \in Invocation, UNCHANGED sent, faults' \in Nat, faults <= faults',
         call'[i] \in {"none", "producer"} => call[i] \in {"none", "producer"},
         IsFiniteSet(Due(i)'), Cardinality(Due(i)') <= Cardinality(Due(i))
  PROVE  Counts(i)'
<1>1. \A source : SentBy(i, source)' = SentBy(i, source)
  BY DEF SentBy
<1>2. Cardinality(Due(i)') \in Nat
  BY FS_CardinalityType
<1>3. /\ Cardinality(SentBy(i, "producer")) \in Nat /\ Cardinality(SentBy(i, "consumer")) \in Nat
      /\ Cardinality(Due(i)) \in Nat /\ faults \in Nat
  BY Cards DEF Counted
<1>4. Counts(i)
  BY DEF Counted
<1> QED BY <1>1, <1>2, <1>3, <1>4 DEF Counts

(* Giving up on a delivery, or trying it again, adds none.                 *)
LEMMA RetriedCounts ==
  ASSUME IInv, Counted, NEW d \in broker, broker' = Retried({d})
  PROVE  /\ IsFiniteSet(broker')
         /\ \A i : IsFiniteSet(Due(i)') /\ Cardinality(Due(i)') <= Cardinality(Due(i))
<1> DEFINE r == [d EXCEPT !.tries = @ + 1]
<1>1. DOMAIN d = {"copy", "to", "tries"}
  BY DEF IInv, Traced
<1>2. r.copy = d.copy /\ r.to = d.to
  BY <1>1
<1>3. broker' = broker \ {d} \/ broker' = (broker \ {d}) \cup {r}
  BY DEF Retried
<1> HIDE DEF r
<1>4. IsFiniteSet(broker')
  <2> DEFINE S == broker \ {d}
  <2>1. IsFiniteSet(S)
    BY FS_RemoveElement DEF Counted
  <2> HIDE DEF S
  <2>2. IsFiniteSet(S \cup {r})
    BY <2>1, FS_AddElement
  <2> QED BY <1>3, <2>1, <2>2 DEF S
<1>5. ASSUME NEW i PROVE IsFiniteSet(Due(i)') /\ Cardinality(Due(i)') <= Cardinality(Due(i))
  <2>1. Due(i)' \subseteq IF d \in Due(i) THEN (Due(i) \ {d}) \cup {r} ELSE Due(i)
    BY <1>2, <1>3 DEF Due
  <2>2. IsFiniteSet(Due(i)) /\ Cardinality(Due(i)) \in Nat
    BY Cards
  <2>3. d \in Due(i) => /\ IsFiniteSet((Due(i) \ {d}) \cup {r})
                        /\ Cardinality((Due(i) \ {d}) \cup {r}) <= Cardinality(Due(i))
                        /\ Cardinality((Due(i) \ {d}) \cup {r}) \in Nat
    <3> DEFINE S == Due(i) \ {d}
    <3>1. d \in Due(i) => IsFiniteSet(S) /\ Cardinality(S) = Cardinality(Due(i)) - 1
      BY <2>2, FS_RemoveElement
    <3> HIDE DEF S
    <3>2. IsFiniteSet(S) => /\ IsFiniteSet(S \cup {r})
                            /\ Cardinality(S \cup {r}) = IF r \in S THEN Cardinality(S) ELSE Cardinality(S) + 1
      BY FS_AddElement
    <3>3. d \in Due(i) => IsFiniteSet(S \cup {r}) /\ Cardinality(S \cup {r}) <= Cardinality(Due(i))
      BY <2>2, <3>1, <3>2
    <3> QED BY <3>3, FS_CardinalityType DEF S
  <2>4. PICK T : T = Due(i)'
    OBVIOUS
  <2>5. CASE d \in Due(i)
    <3>1. T \in SUBSET ((Due(i) \ {d}) \cup {r})
      BY <2>1, <2>4, <2>5
    <3>2. IsFiniteSet(T) /\ Cardinality(T) <= Cardinality((Due(i) \ {d}) \cup {r})
      BY <2>3, <2>5, <3>1, FS_Subset
    <3>3. Cardinality(T) \in Nat
      BY <3>2, FS_CardinalityType
    <3> QED BY <2>2, <2>3, <2>4, <2>5, <3>2, <3>3
  <2>6. CASE d \notin Due(i)
    <3>1. T \in SUBSET Due(i)
      BY <2>1, <2>4, <2>6
    <3>2. IsFiniteSet(T) /\ Cardinality(T) <= Cardinality(Due(i))
      BY <2>2, <3>1, FS_Subset
    <3> QED BY <2>4, <3>2
  <2> QED BY <2>5, <2>6
<1> QED BY <1>4, <1>5

(* So does trying deliveries to others than the consumer again.            *)
LEMMA RetriedOthers ==
  ASSUME IInv, Counted, NEW D, \A d \in D \cap broker : d.to # "consumer", broker' = Retried(D)
  PROVE  IsFiniteSet(broker') /\ \A i : Due(i)' = Due(i)
<1> DEFINE again(d) == [d EXCEPT !.tries = @ + 1]
           R == {again(d) : d \in broker}
<1>1. \A d \in broker : again(d).to = d.to /\ again(d).copy = d.copy
  BY DEF IInv, Traced
<1>2. IsFiniteSet(R)
  <2> DEFINE f == [d \in broker |-> again(d)]
  <2>1. f \in Surjection(broker, R)
    BY DEF Surjection
  <2> HIDE DEF f, R
  <2> QED BY <2>1, FS_Surjection DEF Counted
<1> HIDE DEF R
<1>3. IsFiniteSet(broker \cup R)
  BY <1>2, FS_Union DEF Counted
<1> USE DEF R
<1>4. broker' \in SUBSET (broker \cup R)
  BY DEF Retried
<1>5. PICK B : B = broker'
  OBVIOUS
<1>6. IsFiniteSet(B)
  BY <1>3, <1>4, <1>5, FS_Subset
<1>7. ASSUME NEW i PROVE Due(i)' = Due(i)
  <2>1. Due(i)' \subseteq Due(i)
    <3>1. ASSUME NEW e \in broker', e \notin broker PROVE e.to # "consumer"
      <4>1. PICK d \in D \cap broker : e = again(d)
        BY <3>1 DEF Retried
      <4> QED BY <1>1, <4>1
    <3> QED BY <3>1 DEF Due
  <2>2. Due(i) \subseteq Due(i)'
    BY DEF Due, Retried
  <2> QED BY <2>1, <2>2
<1> QED BY <1>5, <1>6, <1>7

(* The steps that send no event.                                           *)
LEMMA QuietCounts ==
  ASSUME IInv, Counted,
         \/ Quiet \/ End
         \/ \E i \in Invocation : Invoke(i)
         \/ \E d \in broker : Lookup(d)
         \/ \E a \in registering, answered \in BOOLEAN : Register(a, answered)
  PROVE  Counted'
<1>1. UNCHANGED sent
  BY QuietSteps DEF End, Invoke, Lookup, Register
<1>2. faults' \in Nat /\ faults <= faults'
  <2>1. faults' = faults \/ faults' = faults + 1
    BY DEF Quiet, Tick, Forget, Define, End, CallByHand, MapFault, Crash, Invoke, Lookup, Register,
           RegisterPanics, RegisterUnknown, DeliveryFails, vars
  <2> QED BY <2>1 DEF Counted
<1>3. ASSUME NEW i \in Invocation, call'[i] \in {"none", "producer"}
      PROVE  call[i] \in {"none", "producer"}
  <2>1. CASE \E k \in Invocation : Invoke(k)
    BY <1>3, <2>1 DEF Invoke, IInv, Types
  <2>2. CASE CallByHand
    BY <1>3, <2>2 DEF CallByHand
  <2>3. CASE UNCHANGED call
    BY <1>3, <2>3
  <2> QED BY <2>1, <2>2, <2>3, QuietSteps DEF End, Lookup, Register
<1>4. InHand \subseteq {d \in InHand : d.to # "consumer"}
  BY DEF IInv, Handlers, Handled, InHand
<1>5. \/ broker' = broker
      \/ \E d \in broker : broker' = Retried({d})
      \/ \E D : broker' = Retried(D) /\ \A d \in D : d.to # "consumer"
      \/ broker' \subseteq broker
  <2>1. CASE MapFault \/ Crash
    <3>1. broker' = Retried({} \cup InHand)
      BY <2>1 DEF MapFault, Crash, Dies
    <3> QED BY <1>4, <3>1
  <2>2. ASSUME NEW e \in broker, RegisterUnknown(e)
        PROVE  \E D : broker' = Retried(D) /\ \A d \in D : d.to # "consumer"
    <3>1. broker' = Retried({e} \cup InHand) /\ e.to = "timeseriesdb"
      BY <2>2 DEF RegisterUnknown, Dies
    <3> QED BY <1>4, <3>1
  <2>3. CASE \E a \in registering : RegisterPanics(a) \/ \E answered \in BOOLEAN : Register(a, answered)
    <3>1. PICK a \in registering :
                 RegisterPanics(a) \/ \E answered \in BOOLEAN : Register(a, answered)
      BY <2>3
    <3>2. broker' = Retried({a.delivery}) \/ broker' \subseteq broker
      BY <3>1 DEF RegisterPanics, Register
    <3>3. \A d \in {a.delivery} : d.to # "consumer"
      BY <1>4 DEF InHand
    <3> QED BY <3>2, <3>3
  <2>4. CASE \E d \in broker : DeliveryFails(d)
    BY <2>4 DEF DeliveryFails
  <2>5. CASE \/ Tick \/ Forget \/ Define \/ CallByHand \/ End \/ UNCHANGED vars
             \/ \E i \in Invocation : Invoke(i)
             \/ \E d \in broker : Lookup(d)
    BY <2>5 DEF Tick, Forget, Define, CallByHand, End, Invoke, Lookup, vars
  <2> QED BY <2>1, <2>2, <2>3, <2>4, <2>5 DEF Quiet
<1>6. /\ IsFiniteSet(broker')
      /\ \A i : IsFiniteSet(Due(i)') /\ Cardinality(Due(i)') <= Cardinality(Due(i))
  <2>1. CASE \E d \in broker : broker' = Retried({d})
    BY <2>1, RetriedCounts
  <2>2. CASE \E D : broker' = Retried(D) /\ \A d \in D : d.to # "consumer"
    <3>1. IsFiniteSet(broker') /\ \A i : Due(i)' = Due(i)
      BY <2>2, RetriedOthers
    <3> QED BY <3>1, Cards
  <2>3. CASE broker' \subseteq broker
    <3>1. ASSUME NEW i PROVE IsFiniteSet(Due(i)') /\ Cardinality(Due(i)') <= Cardinality(Due(i))
      <4>1. PICK T : T = Due(i)'
        OBVIOUS
      <4>2. T \in SUBSET Due(i)
        BY <2>3, <4>1 DEF Due
      <4>3. IsFiniteSet(Due(i))
        BY Cards
      <4> QED BY <4>1, <4>2, <4>3, FS_Subset
    <3>2. IsFiniteSet(broker')
      <4>1. PICK B : B = broker'
        OBVIOUS
      <4> QED BY <2>3, <4>1, FS_Subset DEF Counted
    <3> QED BY <3>1, <3>2
  <2> QED BY <1>5, <2>1, <2>2, <2>3
<1>7. \A i \in Invocation : Counts(i)'
  BY <1>1, <1>2, <1>3, <1>6, CountsStay
<1> QED BY <1>1, <1>2, <1>6, <1>7 DEF Counted

(* What an event that is sent adds to the counts.                          *)
LEMMA SentCounts ==
  ASSUME Counted, NEW i, NEW source, NEW e, sent' = sent \/ sent' = sent \cup {e}
  PROVE  /\ IsFiniteSet(sent') /\ IsFiniteSet(SentBy(i, source)')
         /\ Cardinality(SentBy(i, source)') \in Nat
         /\ Cardinality(SentBy(i, source)') <= Cardinality(SentBy(i, source)) + 1
         /\ e.event.invocation # i \/ e.event.source # source => SentBy(i, source)' = SentBy(i, source)
<1> DEFINE S == SentBy(i, source)
<1>1. IsFiniteSet(S) /\ Cardinality(S) \in Nat
  BY Cards
<1>2. SentBy(i, source)' = S \/ SentBy(i, source)' = S \cup {e}
  BY DEF SentBy
<1>3. e.event.invocation # i \/ e.event.source # source => SentBy(i, source)' = SentBy(i, source)
  BY DEF SentBy
<1> HIDE DEF S
<1>4. IsFiniteSet(S \cup {e}) /\ Cardinality(S \cup {e}) <= Cardinality(S) + 1
  <2>1. /\ IsFiniteSet(S \cup {e})
        /\ Cardinality(S \cup {e}) = IF e \in S THEN Cardinality(S) ELSE Cardinality(S) + 1
    BY <1>1, FS_AddElement
  <2> QED BY <1>1, <2>1
<1>5. IsFiniteSet(S \cup {e}) /\ Cardinality(S \cup {e}) \in Nat
  BY <1>4, FS_CardinalityType
<1>6. IsFiniteSet(sent')
  BY FS_AddElement DEF Counted
<1> QED BY <1>1, <1>2, <1>3, <1>4, <1>5, <1>6 DEF S

(* The producer's event is due at the consumer, its own answer is not.     *)
LEMMA QueuedDue ==
  ASSUME NEW e
  PROVE  /\ IsFiniteSet(Queued(e))
         /\ e.source = "consumer" => \A q \in Queued(e) : q.to # "consumer"
         /\ \A q \in Queued(e) : q.to = "consumer" =>
              q = [copy |-> New(e), to |-> "consumer", tries |-> 0]
<1> DEFINE q(t) == [copy |-> New(e), to |-> t, tries |-> 0]
<1>1. Queued(e) \in SUBSET ({q("timeseriesdb")} \cup {q("consumer")})
  BY DEF Queued, Triggers
<1>2. IsFiniteSet({q("timeseriesdb")})
  BY FS_Singleton
<1>3. IsFiniteSet({q("timeseriesdb")} \cup {q("consumer")})
  BY <1>2, FS_AddElement
<1>4. IsFiniteSet(Queued(e))
  BY <1>1, <1>3, FS_Subset
<1> QED BY <1>4 DEF Queued, Triggers

(* A call's event is sent once, and the consumer is to be called once.     *)
LEMMA ProduceCounts ==
  ASSUME IInv, Counted, NEW i \in Invocation, NEW taken \in BOOLEAN, NEW answered \in BOOLEAN,
         Produce(i, taken, answered)
  PROVE  Counted'
<1> DEFINE g == Greeting(i)
           e == New(g)
           q == [copy |-> e, to |-> "consumer", tries |-> 0]
<1>1. /\ faults' \in Nat /\ faults <= faults'
      /\ sent' = IF taken THEN sent \cup {e} ELSE sent
      /\ broker' = IF taken THEN broker \cup Queued(g) ELSE broker
      /\ e.event.invocation = i /\ e.event.source = "producer"
  <2>1. faults' = faults \/ faults' = faults + 1
    BY DEF Produce
  <2>2. e.event.invocation = i /\ e.event.source = "producer"
    BY DEF New, Greeting, Event
  <2> QED BY <2>1, <2>2 DEF Produce, Counted
<1>2. /\ call[i] = "producer" /\ call'[i] \notin {"none", "producer"}
      /\ \A k \in Invocation : call'[k] \in {"none", "producer"} => call[k] \in {"none", "producer"}
  BY DEF Produce
<1>3. IsFiniteSet(sent') /\ IsFiniteSet(broker')
  <2>1. IsFiniteSet(broker \cup Queued(g))
    BY QueuedDue, FS_Union DEF Counted
  <2>2. IsFiniteSet(sent \cup {e})
    BY FS_AddElement DEF Counted
  <2> QED BY <1>1, <2>1, <2>2 DEF Counted
<1>4. \A d \in Queued(g) : d.to = "consumer" => d = q
  BY QueuedDue
<1> HIDE DEF e
<1>5. ASSUME NEW k \in Invocation, k # i \/ ~taken PROVE Counts(k)'
  <2>1. Due(k)' = Due(k)
    BY <1>1, <1>4, <1>5 DEF Due
  <2>2. \A source : SentBy(k, source)' = SentBy(k, source)
    BY <1>1, <1>5 DEF SentBy
  <2>3. /\ Cardinality(SentBy(k, "producer")) \in Nat /\ Cardinality(SentBy(k, "consumer")) \in Nat
        /\ Cardinality(Due(k)) \in Nat /\ faults \in Nat
    BY Cards DEF Counted
  <2>4. Counts(k)
    BY DEF Counted
  <2> QED BY <1>1, <1>2, <2>1, <2>2, <2>3, <2>4 DEF Counts
<1>6. CASE taken
  <2>1. SentBy(i, "producer") = {} /\ SentBy(i, "producer")' = {e}
    <3>1. SentBy(i, "producer") = {}
      BY <1>2 DEF Counted, Counts
    <3> QED BY <1>1, <1>6, <3>1 DEF SentBy
  <2>2. Cardinality(SentBy(i, "producer")) = 0 /\ Cardinality(SentBy(i, "producer")') = 1
    BY <2>1, FS_EmptySet, FS_Singleton
  <2>3. SentBy(i, "consumer")' = SentBy(i, "consumer")
    BY <1>1, <1>6 DEF SentBy
  <2>4. Due(i)' \subseteq Due(i) \cup {q}
    BY <1>1, <1>4, <1>6 DEF Due
  <2> HIDE DEF q
  <2>5. Cardinality(Due(i)') \in Nat /\ Cardinality(Due(i)') <= Cardinality(Due(i)) + 1
    <3>1. PICK T : T = Due(i)'
      OBVIOUS
    <3>2. IsFiniteSet(Due(i)) /\ Cardinality(Due(i)) \in Nat
      BY Cards
    <3>3. IsFiniteSet(Due(i) \cup {q}) /\ Cardinality(Due(i) \cup {q}) <= Cardinality(Due(i)) + 1
      <4>1. PICK S : S = Due(i)
        OBVIOUS
      <4>2. /\ IsFiniteSet(S \cup {q})
            /\ Cardinality(S \cup {q}) = IF q \in S THEN Cardinality(S) ELSE Cardinality(S) + 1
        BY <3>2, <4>1, FS_AddElement
      <4> QED BY <3>2, <4>1, <4>2
    <3>4. T \in SUBSET (Due(i) \cup {q})
      BY <2>4, <3>1
    <3>5. IsFiniteSet(T) /\ Cardinality(T) <= Cardinality(Due(i) \cup {q})
      BY <3>3, <3>4, FS_Subset
    <3>6. Cardinality(T) \in Nat /\ Cardinality(Due(i) \cup {q}) \in Nat
      BY <3>3, <3>5, FS_CardinalityType
    <3> QED BY <3>1, <3>2, <3>3, <3>5, <3>6
  <2>6. /\ Cardinality(SentBy(i, "consumer")) + Cardinality(Due(i)) <= faults
        /\ Cardinality(SentBy(i, "consumer")) \in Nat /\ Cardinality(Due(i)) \in Nat /\ faults \in Nat
    BY <2>2, Cards DEF Counted, Counts
  <2>7. Counts(i)'
    BY <1>1, <1>2, <2>2, <2>3, <2>5, <2>6 DEF Counts
  <2> QED BY <1>1, <1>3, <1>5, <2>7 DEF Counted
<1>7. CASE ~taken
  BY <1>1, <1>3, <1>5, <1>7 DEF Counted
<1> QED BY <1>6, <1>7

(* A delivery to the consumer is over with, or repeated at the price of a  *)
(* fault; its answer is not delivered to the consumer.                     *)
LEMMA ConsumeCounts ==
  ASSUME IInv, Counted, NEW d \in broker, NEW answered \in BOOLEAN, NEW again \in BOOLEAN,
         Consume(d, answered, again)
  PROVE  Counted'
<1> DEFINE i == d.copy.event.invocation
           a == Response(d.copy.event)
           e == New(a)
           r == [d EXCEPT !.tries = @ + 1]
           rest == IF again THEN Retried({d}) ELSE broker \ {d}
<1>1. /\ sent' = sent \/ sent' = sent \cup {e}
      /\ faults' = IF again THEN faults + 1 ELSE faults
      /\ broker' = rest \cup IF answered THEN Queued(a) ELSE {}
      /\ UNCHANGED call /\ d.to = "consumer"
  BY DEF Consume
<1>2. e.event.invocation = i /\ e.event.source = "consumer" /\ a.source = "consumer"
  BY DEF New, Response, Event
<1>3. r.copy = d.copy /\ r.to = d.to
  BY DEF IInv, Traced
<1>4. rest \subseteq (broker \ {d}) \cup (IF again THEN {r} ELSE {})
  BY DEF Retried
<1>5. \A q \in Queued(a) : q.to # "consumer"
  BY <1>2, QueuedDue
<1>6. IsFiniteSet(sent') /\ IsFiniteSet(broker')
  <2> HIDE DEF e, a, r
  <2>1. IsFiniteSet(sent \cup {e})
    BY FS_AddElement DEF Counted
  <2>2. IsFiniteSet(broker \cup {r}) /\ IsFiniteSet(Queued(a))
    BY FS_AddElement, QueuedDue DEF Counted
  <2>3. IsFiniteSet((broker \cup {r}) \cup Queued(a))
    BY <2>2, FS_Union
  <2>4. broker' \subseteq (broker \cup {r}) \cup Queued(a)
    BY <1>1, <1>4
  <2>5. PICK B : B = broker'
    OBVIOUS
  <2>6. IsFiniteSet(B)
    BY <2>3, <2>4, <2>5, FS_Subset
  <2> QED BY <1>1, <2>1, <2>5, <2>6 DEF Counted
<1> HIDE DEF e, a, r, rest
<1>7. i \in Invocation
  BY DEF IInv, Traced, Called
<1>8. ASSUME NEW k \in Invocation PROVE Counts(k)'
  <2>1. /\ SentBy(k, "producer")' = SentBy(k, "producer")
        /\ Cardinality(SentBy(k, "consumer")') \in Nat
        /\ Cardinality(SentBy(k, "consumer")') <= Cardinality(SentBy(k, "consumer")) + 1
        /\ k # i => SentBy(k, "consumer")' = SentBy(k, "consumer")
    BY <1>1, <1>2, SentCounts
  <2>2. /\ Cardinality(SentBy(k, "producer")) \in Nat /\ Cardinality(SentBy(k, "consumer")) \in Nat
        /\ IsFiniteSet(Due(k)) /\ Cardinality(Due(k)) \in Nat /\ faults \in Nat
    BY Cards DEF Counted
  <2>3. Counts(k)
    BY DEF Counted
  <2>4. Due(k)' \subseteq (Due(k) \ {d}) \cup IF again /\ k = i THEN {r} ELSE {}
    BY <1>1, <1>3, <1>4, <1>5 DEF Due
  <2>5. d \in Due(k) <=> k = i
    BY <1>1 DEF Due
  <2> DEFINE S == Due(k) \ {d}
  <2>6. IsFiniteSet(S) /\ Cardinality(S) = IF k = i THEN Cardinality(Due(k)) - 1 ELSE Cardinality(Due(k))
    BY <2>2, <2>5, FS_RemoveElement
  <2>7. PICK T : T = Due(k)'
    OBVIOUS
  <2> HIDE DEF S, i
  <2>8. /\ Cardinality(T) \in Nat
        /\ Cardinality(T) <= IF again /\ k = i THEN Cardinality(S) + 1 ELSE Cardinality(S)
    <3>1. CASE again /\ k = i
      <4>1. T \in SUBSET (S \cup {r})
        BY <2>4, <2>7, <3>1 DEF S
      <4>2. /\ IsFiniteSet(S \cup {r})
            /\ Cardinality(S \cup {r}) = IF r \in S THEN Cardinality(S) ELSE Cardinality(S) + 1
        BY <2>6, FS_AddElement
      <4>3. IsFiniteSet(T) /\ Cardinality(T) <= Cardinality(S \cup {r})
        BY <4>1, <4>2, FS_Subset
      <4>4. Cardinality(T) \in Nat /\ Cardinality(S \cup {r}) \in Nat /\ Cardinality(S) \in Nat
        BY <2>6, <4>2, <4>3, FS_CardinalityType
      <4> QED BY <3>1, <4>2, <4>3, <4>4
    <3>2. CASE ~(again /\ k = i)
      <4>1. T \in SUBSET S
        BY <2>4, <2>7, <3>2 DEF S
      <4>2. IsFiniteSet(T) /\ Cardinality(T) <= Cardinality(S)
        BY <2>6, <4>1, FS_Subset
      <4> QED BY <3>2, <4>2, FS_CardinalityType
    <3> QED BY <3>1, <3>2
  <2>9. Cardinality(Due(k)') = Cardinality(T)
    BY <2>7
  <2> QED BY <1>1, <2>1, <2>2, <2>3, <2>6, <2>8, <2>9 DEF Counts
<1>9. faults' \in Nat
  BY <1>1 DEF Counted
<1> QED BY <1>6, <1>8, <1>9 DEF Counted

(* The pipeline ends: for any number of calls, deliveries and faults, the  *)
(* consumer sends one event for each of the producer and one more for each *)
(* delivery that a fault repeated, and does not answer its own.            *)
THEOREM AnswersAreFew == Spec => []OneAnswerEach
<1>1. IInv /\ Counted /\ [Next]_vars => Counted'
  <2> SUFFICES ASSUME IInv, Counted, [Next]_vars PROVE Counted'
    OBVIOUS
  <2>1. CASE Progress
    BY <2>1, ProduceCounts, ConsumeCounts, QuietCounts DEF Progress, Quiet
  <2>2. CASE Fault
    BY <2>2, ProduceCounts, ConsumeCounts, QuietCounts DEF Fault, Quiet
  <2>3. CASE Tick \/ Forget \/ Define \/ End \/ (\E i \in Invocation : Invoke(i)) \/ UNCHANGED vars
    BY <2>3, QuietCounts DEF Quiet
  <2> QED BY <2>1, <2>2, <2>3 DEF Next, Exited
<1>2. Counted => OneAnswerEach
  <2> SUFFICES ASSUME Counted, NEW i \in Invocation
               PROVE  /\ Cardinality(SentBy(i, "consumer")) <= Cardinality(SentBy(i, "producer")) + faults
                      /\ Cardinality(SentBy(i, "producer")) <= 1
    BY DEF OneAnswerEach, SentBy
  <2>1. /\ Cardinality(SentBy(i, "producer")) \in Nat /\ Cardinality(SentBy(i, "consumer")) \in Nat
        /\ Cardinality(Due(i)) \in Nat /\ faults \in Nat
    BY Cards DEF Counted
  <2> QED BY <2>1 DEF Counted, Counts
<1>3. IInv /\ [Next]_vars => IInv'
  BY NextIInv
<1> QED BY InitIInv, InitCounted, <1>1, <1>2, <1>3, PTL DEF Spec
===============================================================================
