---------------------------- MODULE TimeseriesSpec ----------------------------
(***************************************************************************)
(* What the TimeseriesDB promises the invoker: each completion event is    *)
(* credited to its invocation in one step, and ending an experiment yields *)
(* one latency for every invocation that received as many completion       *)
(* events as its workflow has descriptors, namely that of the latest one.  *)
(***************************************************************************)
EXTENDS CompletionEvents

CONSTANTS WorkflowId, InvocationId, Attributes, Definitions, Handler

VARIABLES
  definition,   \* descriptors of the workflows of the running experiment
  credited,     \* completion events credited so far
  latencies     \* what EndExperiment last returned

specVars == <<definition, credited, latencies>>

CreditedTo(w, i) == {c \in credited : c.workflow = w /\ c.id = i}

Init ==
  /\ DOMAIN definition = {}
  /\ credited = {}
  /\ latencies = {}

(* A new experiment begins, or the server lost its memory. *)
Reset ==
  /\ DOMAIN definition' = {}
  /\ credited' = {}
  /\ UNCHANGED latencies

Define(w, descriptors) ==
  /\ w \notin DOMAIN definition
  /\ definition' = [v \in DOMAIN definition \cup {w} |->
                      IF v = w THEN descriptors ELSE definition[v]]
  /\ UNCHANGED <<credited, latencies>>

Credit(h, w, i, attrs, latency) ==
  /\ w \in DOMAIN definition
  /\ Matching(attrs, definition[w], Len(definition[w])) # {}
  /\ Cardinality(CreditedTo(w, i)) < Len(definition[w])
  /\ \A c \in credited : c.event # h
  /\ credited' = credited \cup {[event |-> h, workflow |-> w, id |-> i,
                                 attributes |-> attrs, latency |-> latency]}
  /\ UNCHANGED <<definition, latencies>>

Complete(w, i) ==
  /\ w \in DOMAIN definition
  /\ CreditedTo(w, i) # {}
  /\ Cardinality(CreditedTo(w, i)) = Len(definition[w])

End ==
  /\ latencies' = {[workflow |-> p[1], id |-> p[2],
                    latency |-> Latest({c.latency : c \in CreditedTo(p[1], p[2])})] :
                     p \in {q \in WorkflowId \X InvocationId : Complete(q[1], q[2])}}
  /\ UNCHANGED <<definition, credited>>

CreditSome == \E c \in credited' : Credit(c.event, c.workflow, c.id, c.attributes, c.latency)

Next ==
  \/ Reset
  \/ \E d \in Definitions : \E w \in DOMAIN d : Define(w, d[w])
  \/ CreditSome
  \/ End

Spec == Init /\ [][Next]_specVars
===============================================================================
