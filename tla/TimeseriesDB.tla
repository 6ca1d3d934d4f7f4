----------------------------- MODULE TimeseriesDB -----------------------------
(***************************************************************************)
(* The TimeseriesDB server of tools/benchmarking_eventing.  The invoker    *)
(* calls StartExperiment and EndExperiment over gRPC; the eventing broker  *)
(* delivers CloudEvents, each handled by registerEvent in a goroutine of   *)
(* its own.  No lock protects the server's maps, slices and descriptors,   *)
(* so a handler is a sequence of steps, one per access of shared memory    *)
(* that another goroutine may come between.                                *)
(*                                                                         *)
(* Go pointers are modelled by object names: the Workflow of id w created  *)
(* by the x-th StartExperiment is <<x, w>>, and the Invocation that        *)
(* handler h allocates in registerInvocation is named h.                   *)
(***************************************************************************)
EXTENDS CompletionEvents

CONSTANTS
  WorkflowId,      \* workflow ids
  InvocationId,    \* invocation ids
  Attributes,      \* the attribute maps a CloudEvent may carry
  Matcher,         \* the AttrMatchers maps a descriptor may hold
  Malformed,       \* an event morphCloudEventToProtoEvent cannot convert
  Definitions,     \* experiment definitions: [subset of WorkflowId -> Seq(matchers)]
  InvokedOn,       \* [InvocationId -> Int], the timestamp in vHiveMetadata
  Handler,         \* event deliveries, each one run of registerEvent
  Loads,           \* how many events a behaviour delivers, how many of them at once
  MaxExperiments,  \* bound on StartExperiment calls
  MaxRestarts,     \* bound on restarts of the process
  Nil              \* Go's nil

Experiment == 1..MaxExperiments

EventRecord == [event : Handler, isCompletion : BOOLEAN]

Invocation == [workflow : WorkflowId, id : InvocationId, experiment : Experiment,
               descriptors : Seq(Matcher), len : Nat,
               status : {"CANCELLED", "COMPLETED"}, duration : Int \cup {Nil},
               records : Seq(EventRecord)]

Event == [workflow : WorkflowId, id : InvocationId, attributes : Attributes]

ASSUME ConstantsAssumption ==
  /\ Malformed \notin Attributes
  /\ \A d \in Definitions : /\ DOMAIN d \subseteq WorkflowId
                            /\ \A w \in DOMAIN d : d[w] \in Seq(Matcher)
  /\ InvokedOn \in [InvocationId -> Int]
  /\ Nil \notin Handler
  /\ Nil \notin Int /\ Nil \notin Invocation /\ Nil \notin Event
  /\ Loads \subseteq [deliveries : Nat, atOnce : Nat \ {0}]
  /\ MaxExperiments \in Nat
  /\ MaxRestarts \in Nat

VARIABLES
  up,           \* the process is running
  restarts,     \* restarts so far
  load,         \* the deliveries of this behaviour, fixed when it begins
  current,      \* the map s.workflows points to; 0 is the nil map
  created,      \* maps made by StartExperiment so far
  toDefine,     \* workflow definitions StartExperiment has yet to install
  workflows,    \* workflows[x][w]: completionEventDescriptorsT of Workflow <<x, w>>
  invocations,  \* invocations[x][w][i]: the Invocation stored under i, or Nil
  invocation,   \* invocation[h]: the Invocation object h, or Nil
  pc,           \* where each handler is in registerEvent
  event,        \* the event each handler was called with
  now,          \* registerEvent's local now
  local,        \* the other locals of registerEvent and its callees
  clock,        \* time, advanced by each arrival
  result        \* the invocation descriptors EndExperiment last returned

server == <<current, created, toDefine, workflows, invocations>>
vars == <<up, restarts, load, server, invocation, pc, event, now, local, clock, result>>

Empty == [x \in {} |-> Nil]

Locals == [workflow : 0..MaxExperiments, invocation : Handler \cup {Nil},
           descriptorIdx : Nat, isCompletion : BOOLEAN,
           target : Handler \cup {Nil}, len : Nat, records : Seq(EventRecord)]

Steps == {"lookup", "register", "check", "remove", "shrink", "compare", "duration",
          "status", "append", "store"}

NoLocals == [workflow |-> 0, invocation |-> Nil, descriptorIdx |-> 0, isCompletion |-> FALSE,
             target |-> Nil, len |-> 0, records |-> <<>>]

Init ==
  /\ up = TRUE
  /\ restarts = 0
  /\ load \in Loads
  /\ current = 0
  /\ created = 0
  /\ toDefine = Empty
  /\ workflows = [x \in Experiment |-> Empty]
  /\ invocations = [x \in Experiment |-> [w \in WorkflowId |-> [i \in InvocationId |-> Nil]]]
  /\ invocation = [h \in Handler |-> Nil]
  /\ pc = [h \in Handler |-> "idle"]
  /\ event = [h \in Handler |-> Nil]
  /\ now = [h \in Handler |-> 0]
  /\ local = [h \in Handler |-> NoLocals]
  /\ clock = 0
  /\ result = {}

Running == {h \in Handler : pc[h] \in Steps}
Delivered == {h \in Handler : pc[h] # "idle"}

(* s.workflows holds an entry for w. *)
Known(w) == current # 0 /\ w \in DOMAIN workflows[current]

(* s.workflows[w].invocations[i], and whether evaluating it and using the  *)
(* Invocation dereferences nil.                                            *)
Stored(w, i) == invocations[current][w][i]
Dangling(w, i) == ~Known(w) \/ Stored(w, i) = Nil

-------------------------------------------------------------------------------
(* log.Fatal, or a fault of the Go runtime: the process ends and with it   *)
(* every handler and all of the server's memory.                           *)
Fatal ==
  /\ up' = FALSE
  /\ current' = 0
  /\ toDefine' = Empty
  /\ pc' = [h \in Handler |-> IF pc[h] \in Steps THEN "killed" ELSE pc[h]]
  /\ UNCHANGED <<restarts, load, created, workflows, invocations, invocation, event, now,
                 local, clock, result>>

(* A panic inside a handler is recovered by the CloudEvents SDK: the       *)
(* delivery fails, the server goes on.                                     *)
Panic(h) ==
  /\ pc' = [pc EXCEPT ![h] = "panicked"]
  /\ UNCHANGED <<up, restarts, load, server, invocation, event, now, local, clock, result>>

(* The cluster restarts the exited container; main() begins with a zero    *)
(* Server.                                                                 *)
Restart ==
  /\ ~up
  /\ restarts < MaxRestarts
  /\ up' = TRUE
  /\ restarts' = restarts + 1
  /\ UNCHANGED <<load, server, invocation, pc, event, now, local, clock, result>>

-------------------------------------------------------------------------------
(* StartExperiment: a new map replaces s.workflows, then each definition   *)
(* is installed in turn.  One invoker drives the server, so one call at a  *)
(* time.                                                                   *)
StartExperiment(definition) ==
  /\ up
  /\ toDefine = Empty
  /\ created < MaxExperiments
  /\ created' = created + 1
  /\ current' = created + 1
  /\ toDefine' = definition
  /\ UNCHANGED <<up, restarts, load, workflows, invocations, invocation, pc, event, now,
                 local, clock, result>>

DefineWorkflow(w) ==
  /\ up
  /\ w \in DOMAIN toDefine
  /\ workflows' = [workflows EXCEPT ![current] =
                     [v \in DOMAIN @ \cup {w} |-> IF v = w THEN toDefine[w] ELSE @[v]]]
  /\ toDefine' = [v \in DOMAIN toDefine \ {w} |-> toDefine[v]]
  /\ UNCHANGED <<up, restarts, load, current, created, invocations, invocation, pc, event,
                 now, local, clock, result>>

Allocated == {h \in Handler : invocation[h] # Nil}

(* The Invocations reachable from s.workflows, which EndExperiment reports. *)
Reported == {h \in Allocated : /\ Known(invocation[h].workflow)
                               /\ Stored(invocation[h].workflow, invocation[h].id) = h}

(* EndExperiment: the descriptors of all stored invocations; the server    *)
(* keeps its state.                                                        *)
EndExperiment ==
  /\ up
  /\ result' = {[workflow |-> invocation[o].workflow, id |-> invocation[o].id,
                 status |-> invocation[o].status, duration |-> invocation[o].duration,
                 records |-> invocation[o].records] : o \in Reported}
  /\ UNCHANGED <<up, restarts, load, server, invocation, pc, event, now, local, clock>>

-------------------------------------------------------------------------------
(* registerEvent up to the workflow lookup.  An event that cannot be       *)
(* converted, or one for a workflow that is not in the map, is fatal.      *)
ReceiveEvent(h, w, i, attrs) ==
  /\ up
  /\ pc[h] = "idle"
  /\ Cardinality(Running) < load.atOnce
  /\ Cardinality(Delivered) < load.deliveries
  /\ attrs # Malformed /\ Known(w)
  /\ pc' = [pc EXCEPT ![h] = "lookup"]
  /\ event' = [event EXCEPT ![h] = [workflow |-> w, id |-> i, attributes |-> attrs]]
  /\ now' = [now EXCEPT ![h] = clock]
  /\ local' = [local EXCEPT ![h].workflow = current]
  /\ clock' = clock + 1
  /\ UNCHANGED <<up, restarts, load, server, invocation, result>>

RejectEvent(h, w, attrs) ==
  /\ up
  /\ pc[h] = "idle"
  /\ attrs = Malformed \/ ~Known(w)
  /\ Fatal

(* if !ok, the invocation has to be registered first. *)
AlwaysRegister(found) == "register"
AfterLookup(found) == IF found = Nil THEN "register" ELSE "check"

(* invocation, ok := workflow.invocations[id] *)
LookupInvocation(h) ==
  LET found == invocations[local[h].workflow][event[h].workflow][event[h].id] IN
  /\ up
  /\ pc[h] = "lookup"
  /\ local' = [local EXCEPT ![h].invocation = found]
  /\ pc' = [pc EXCEPT ![h] = AfterLookup(found)]
  /\ UNCHANGED <<up, restarts, load, server, invocation, event, now, clock, result>>

(* The Invocation registerInvocation allocates for workflow w. *)
NewInvocation(w, i) ==
  [workflow |-> w, id |-> i, experiment |-> current,
   descriptors |-> workflows[current][w], len |-> Len(workflows[current][w]),
   status |-> "CANCELLED", duration |-> Nil, records |-> <<>>]

(* registerInvocation reads s.workflows again, so it may work on another   *)
(* map than the one the lookup missed in.                                  *)
RegisterInvocation(h) ==
  LET w == event[h].workflow IN
  /\ up
  /\ pc[h] = "register"
  /\ Known(w)
  /\ invocation' = [invocation EXCEPT ![h] = NewInvocation(w, event[h].id)]
  /\ invocations' = [invocations EXCEPT ![current][w][event[h].id] = h]
  /\ local' = [local EXCEPT ![h].invocation = h]
  /\ pc' = [pc EXCEPT ![h] = "check"]
  /\ UNCHANGED <<up, restarts, load, current, created, toDefine, workflows, event, now,
                 clock, result>>

RegisterPanics(h) ==
  /\ up
  /\ pc[h] = "register"
  /\ ~Known(event[h].workflow)
  /\ Panic(h)

(* checkCompletion looks the invocation up once more and scans its         *)
(* descriptors for the first one that matches.                             *)
CheckCompletion(h) ==
  LET e == event[h]
      inv == invocation[Stored(e.workflow, e.id)]
      matching == Matching(e.attributes, inv.descriptors, inv.len)
  IN
  /\ up
  /\ pc[h] = "check"
  /\ ~Dangling(e.workflow, e.id)
  /\ \/ /\ matching # {}
        /\ \E k \in matching :
             /\ \A j \in matching : k <= j
             /\ local' = [local EXCEPT ![h].descriptorIdx = k, ![h].isCompletion = TRUE]
        /\ pc' = [pc EXCEPT ![h] = "remove"]
     \/ /\ matching = {}
        /\ pc' = [pc EXCEPT ![h] = "append"]
        /\ UNCHANGED local
  /\ UNCHANGED <<up, restarts, load, server, invocation, event, now, clock, result>>

CheckPanics(h) ==
  /\ up
  /\ pc[h] = "check"
  /\ Dangling(event[h].workflow, event[h].id)
  /\ Panic(h)

-------------------------------------------------------------------------------
(* completionEventDescriptors[:idx] and [idx+1:] are within the slice. *)
InRange(idx, n) == idx <= n

(* The length append gives the slice, one less than before. *)
Remaining(n) == n - 1

(* onCompletionEvent, step by step.  It looks the invocation up a third    *)
(* time and removes the descriptor at descriptorIdx from the slice found   *)
(* there: the slice header is read ...                                     *)
RemoveRead(h) ==
  LET target == Stored(event[h].workflow, event[h].id) IN
  /\ up
  /\ pc[h] = "remove"
  /\ ~Dangling(event[h].workflow, event[h].id)
  /\ InRange(local[h].descriptorIdx, invocation[target].len)
  /\ local' = [local EXCEPT ![h].target = target, ![h].len = invocation[target].len]
  /\ pc' = [pc EXCEPT ![h] = "shrink"]
  /\ UNCHANGED <<up, restarts, load, server, invocation, event, now, clock, result>>

(* ... or the slice expression is out of range by now ...                  *)
RemovePanics(h) ==
  LET w == event[h].workflow
      i == event[h].id
  IN
  /\ up
  /\ pc[h] = "remove"
  /\ ~Dangling(w, i) => ~InRange(local[h].descriptorIdx, invocation[Stored(w, i)].len)
  /\ Panic(h)

(* ... and append shifts the backing array and stores the shorter header.  *)
RemoveWrite(h) ==
  LET idx == local[h].descriptorIdx
      n == local[h].len
  IN
  /\ up
  /\ pc[h] = "shrink"
  /\ invocation' = [invocation EXCEPT
        ![local[h].target].descriptors =
           [k \in 1..Len(@) |-> IF k \in idx..(n - 1) THEN @[k + 1] ELSE @[k]],
        ![local[h].target].len = Remaining(n)]
  /\ pc' = [pc EXCEPT ![h] = "compare"]
  /\ UNCHANGED <<up, restarts, load, server, event, now, local, clock, result>>

SinceInvocation(h) == now[h] - InvokedOn[event[h].id]

(* Duration == nil || sinceInvocation > Duration *)
EarlierOnly(since, duration) == IF duration = Nil THEN TRUE ELSE since < duration
NilIsZero(since, duration) == IF duration = Nil THEN since > 0 ELSE since > duration
Longer(since, duration) == IF duration = Nil THEN TRUE ELSE since > duration

(* Duration is compared, then assigned, in the descriptor registerEvent    *)
(* got from its own lookup.                                                *)
CompareDuration(h) ==
  /\ up
  /\ pc[h] = "compare"
  /\ pc' = [pc EXCEPT ![h] =
              IF Longer(SinceInvocation(h), invocation[local[h].invocation].duration)
                THEN "duration" ELSE "status"]
  /\ UNCHANGED <<up, restarts, load, server, invocation, event, now, local, clock, result>>

SetDuration(h) ==
  /\ up
  /\ pc[h] = "duration"
  /\ invocation' = [invocation EXCEPT ![local[h].invocation].duration = SinceInvocation(h)]
  /\ pc' = [pc EXCEPT ![h] = "status"]
  /\ UNCHANGED <<up, restarts, load, server, event, now, local, clock, result>>

(* len(invocation.completionEventDescriptors) == 0 *)
OneMayRemain(n) == n <= 1
NoneRemain(n) == n = 0

(* COMPLETED once no descriptor is left in the invocation of the map. *)
SetStatus(h) ==
  /\ up
  /\ pc[h] = "status"
  /\ invocation' = [invocation EXCEPT ![local[h].invocation].status =
                      IF NoneRemain(invocation[local[h].target].len) THEN "COMPLETED" ELSE @]
  /\ pc' = [pc EXCEPT ![h] = "append"]
  /\ UNCHANGED <<up, restarts, load, server, event, now, local, clock, result>>

(* The EventRecords slice with h's record appended. *)
RecordedTwice(h) ==
  local[h].records \o [k \in 1..2 |-> [event |-> h, isCompletion |-> local[h].isCompletion]]
WithRecord(h) ==
  Append(local[h].records, [event |-> h, isCompletion |-> local[h].isCompletion])

(* EventRecords = append(EventRecords, ...): the slice is read, then the   *)
(* longer one is stored.                                                   *)
AppendRead(h) ==
  /\ up
  /\ pc[h] = "append"
  /\ local' = [local EXCEPT ![h].records = invocation[local[h].invocation].records]
  /\ pc' = [pc EXCEPT ![h] = "store"]
  /\ UNCHANGED <<up, restarts, load, server, invocation, event, now, clock, result>>

AppendStore(h) ==
  /\ up
  /\ pc[h] = "store"
  /\ invocation' = [invocation EXCEPT ![local[h].invocation].records = WithRecord(h)]
  /\ local' = [local EXCEPT ![h].records = <<>>]
  /\ pc' = [pc EXCEPT ![h] = "done"]
  /\ UNCHANGED <<up, restarts, load, server, event, now, clock, result>>

-------------------------------------------------------------------------------
(* The Go runtime ends the process when it notices a map write overlap     *)
(* with another access: handler h is about to store in an invocations map  *)
(* that another handler or EndExperiment is using, or reads s.workflows    *)
(* while StartExperiment fills it.                                         *)
MapFault(h) ==
  /\ up
  /\ \/ pc[h] = "register" /\ Known(event[h].workflow)
     \/ pc[h] \in {"register", "check", "remove"} /\ toDefine # Empty
  /\ Fatal

Handle(h) ==
  \/ LookupInvocation(h) \/ RegisterInvocation(h) \/ RegisterPanics(h)
  \/ CheckCompletion(h) \/ CheckPanics(h)
  \/ RemoveRead(h) \/ RemovePanics(h) \/ RemoveWrite(h)
  \/ CompareDuration(h) \/ SetDuration(h) \/ SetStatus(h)
  \/ AppendRead(h) \/ AppendStore(h)

Next ==
  \/ Restart
  \/ \E d \in Definitions : StartExperiment(d)
  \/ \E w \in WorkflowId : DefineWorkflow(w)
  \/ EndExperiment
  \/ \E h \in Handler, w \in WorkflowId, i \in InvocationId, a \in Attributes :
       ReceiveEvent(h, w, i, a)
  \/ \E h \in Handler, w \in WorkflowId, a \in Attributes \cup {Malformed} :
       RejectEvent(h, w, a)
  \/ \E h \in Handler : Handle(h)
  \/ \E h \in Handler : MapFault(h)

Spec == Init /\ [][Next]_vars

-------------------------------------------------------------------------------
(* Types, in three parts: the server's maps, the Invocations, the handlers. *)
ServerTypeOK ==
  /\ up \in BOOLEAN
  /\ restarts \in 0..MaxRestarts
  /\ load \in Loads
  /\ created \in 0..MaxExperiments
  /\ current \in 0..created
  /\ DOMAIN toDefine \subseteq WorkflowId
  /\ \A w \in DOMAIN toDefine : toDefine[w] \in Seq(Matcher)
  /\ current = 0 => toDefine = Empty
  /\ DOMAIN workflows = Experiment
  /\ \A x \in Experiment : /\ DOMAIN workflows[x] \subseteq WorkflowId
                            /\ \A w \in DOMAIN workflows[x] : workflows[x][w] \in Seq(Matcher)
  /\ clock \in Nat

StoreTypeOK ==
  /\ invocations \in [Experiment -> [WorkflowId -> [InvocationId -> Handler \cup {Nil}]]]
  /\ invocation \in [Handler -> Invocation \cup {Nil}]

HandlerTypeOK ==
  /\ pc \in [Handler -> Steps \cup {"idle", "done", "panicked", "killed"}]
  /\ event \in [Handler -> Event \cup {Nil}]
  /\ now \in [Handler -> Nat]
  /\ local \in [Handler -> Locals]

TypeOK == ServerTypeOK /\ StoreTypeOK /\ HandlerTypeOK

(* The events recorded in Invocation o. *)
Recorded(o) == {invocation[o].records[k].event : k \in 1..Len(invocation[o].records)}

(* The events of the running experiment whose completion has been credited *)
(* to their invocation: their handler is past onCompletionEvent.           *)
Credited == {h \in Handler : /\ local[h].isCompletion
                             /\ pc[h] \in {"append", "store", "done"}
                             /\ current # 0
                             /\ invocation[local[h].invocation].experiment = current}

(* An invocation that is COMPLETED has a duration.  The invoker's End()    *)
(* reads Duration of every COMPLETED descriptor, also while handlers are   *)
(* half way through onCompletionEvent; a nil one would be averaged in as   *)
(* a latency of zero.                                                      *)
CompletedHasDuration ==
  /\ \A o \in Allocated : invocation[o].status = "COMPLETED" => invocation[o].duration # Nil
  /\ \A r \in result : r.status = "COMPLETED" => r.duration # Nil

(* The deliveries of events of invocation i of workflow w that took a      *)
(* descriptor from an Invocation of the x-th experiment.                   *)
Takers(x, w, i) ==
  {h \in Handler : /\ local[h].target # Nil
                   /\ invocation[local[h].target].experiment = x
                   /\ event[h].workflow = w
                   /\ event[h].id = i}

(* However handlers race in onCompletionEvent, with indices and slices     *)
(* that are stale and Invocations that were replaced, an invocation that   *)
(* EndExperiment reports as COMPLETED has had as many completion events,   *)
(* in the running experiment, as its workflow has descriptors.             *)
CompletedIsEarned ==
  \A o \in Reported : invocation[o].status = "COMPLETED" =>
    LET v == invocation[o] IN
    Cardinality(Takers(current, v.workflow, v.id)) >= Len(workflows[current][v.workflow])

(* Whatever the interleaving, registerEvent writes an event into one       *)
(* Invocation at most, at most once, and only into one with the event's    *)
(* own workflow and invocation id.                                         *)
RecordedOnce ==
  /\ \A o \in Allocated : \A j, k \in 1..Len(invocation[o].records) :
       invocation[o].records[j].event = invocation[o].records[k].event => j = k
  /\ \A o, p \in Allocated : o # p => Recorded(o) \cap Recorded(p) = {}
  /\ \A o \in Allocated : \A h \in Recorded(o) :
       /\ event[h].workflow = invocation[o].workflow
       /\ event[h].id = invocation[o].id

(* Once registerEvent has returned for an event of the running experiment, *)
(* EndExperiment reports that event: the lookup-or-register, the re-reads  *)
(* of s.workflows and the append lose nothing.  The code assumes it of     *)
(* every delivery; overlapping ones break it.                              *)
NoEventLost ==
  \A h \in Handler :
    /\ pc[h] = "done"
    /\ current # 0
    /\ invocation[local[h].invocation].experiment = current
    => \E o \in Reported : h \in Recorded(o)

(* Deliveries do not overlap; experiments may still begin and end, and the *)
(* process restart, in the middle of one.                                  *)
Serial == load.atOnce = 1

(* One delivery at a time loses no event.                                  *)
SerialLosesNothing == Serial => NoEventLost

-------------------------------------------------------------------------------
(* When deliveries do not overlap the server implements the atomic         *)
(* specification of what the invoker is promised.                          *)
Atomic == INSTANCE TimeseriesSpec WITH
  definition <- IF current = 0 THEN Empty ELSE workflows[current],
  credited <- {[event |-> h, workflow |-> event[h].workflow, id |-> event[h].id,
                attributes |-> event[h].attributes, latency |-> SinceInvocation(h)] :
                  h \in Credited},
  latencies <- {[workflow |-> r.workflow, id |-> r.id, latency |-> r.duration] :
                  r \in {s \in result : s.status = "COMPLETED"}}

(* Every behaviour of the server without overlapping deliveries is one of  *)
(* the atomic specification: a latency is reported exactly for the         *)
(* invocations all of whose completion events were credited, and it is the *)
(* latest one's.                                                           *)
ImplementsAtomic ==
  /\ Serial => Atomic!Init
  /\ [][~Serial \/ Atomic!Next]_(Atomic!specVars)
===============================================================================
