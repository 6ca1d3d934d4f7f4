-------------------------- MODULE TimeseriesDBProofs --------------------------
(***************************************************************************)
(* Invariants of the TimeseriesDB server for every number of deliveries,   *)
(* experiments and restarts, with all handlers running concurrently; and,  *)
(* when deliveries do not overlap, that no event is lost and that the      *)
(* server implements TimeseriesSpec.                                       *)
(***************************************************************************)
EXTENDS TimeseriesDB, FiniteSetTheorems, TLAPS

(* What a handler's program counter says about its locals, its event and   *)
(* the Invocations it may touch.                                           *)
HandlerOK(h) ==
  /\ pc[h] \in {"idle", "lookup", "register"} => invocation[h] = Nil
  /\ pc[h] \in Steps => event[h] # Nil /\ local[h].workflow \in Experiment
  /\ pc[h] \in Steps \ {"lookup", "register"} =>
       /\ local[h].invocation \in Handler
       /\ invocation[local[h].invocation] # Nil
  /\ pc[h] \in {"shrink", "compare", "duration", "status"} =>
       /\ local[h].target \in Handler
       /\ invocation[local[h].target] # Nil
  /\ pc[h] \in {"remove", "shrink"} => local[h].descriptorIdx >= 1
  /\ pc[h] = "shrink" => /\ local[h].descriptorIdx <= local[h].len
                         /\ local[h].len <= Len(invocation[local[h].target].descriptors)
  /\ pc[h] = "status" => invocation[local[h].invocation].duration # Nil

(* The maps only hold Invocations that exist, and a slice never grows      *)
(* beyond its backing array.                                               *)
StoreInv ==
  /\ \A x \in Experiment, w \in WorkflowId, i \in InvocationId :
       invocations[x][w][i] # Nil => invocation[invocations[x][w][i]] # Nil
  /\ \A o \in Handler : invocation[o] # Nil => invocation[o].len <= Len(invocation[o].descriptors)

(* The inductive invariant. *)
IInv == /\ TypeOK
        /\ \A h \in Handler : HandlerOK(h)
        /\ StoreInv
        /\ CompletedHasDuration

(* A step frees no Invocation, keeps its backing array and never resets    *)
(* its duration: what other handlers rely on.                              *)
Grows ==
  \A o \in Handler : invocation[o] # Nil =>
    /\ invocation'[o] # Nil
    /\ Len(invocation'[o].descriptors) = Len(invocation[o].descriptors)
    /\ invocation[o].duration # Nil => invocation'[o].duration # Nil

(* The initial state satisfies the inductive invariant. *)
LEMMA InitIInv == Init => IInv
BY ConstantsAssumption
   DEF Init, IInv, TypeOK, ServerTypeOK, StoreTypeOK, HandlerTypeOK, HandlerOK, StoreInv,
       CompletedHasDuration, Allocated, NoLocals, Locals, Empty, Experiment, Steps

(* A handler that does not move keeps its part of the invariant under any  *)
(* step that only adds to the heap.                                        *)
LEMMA FrameHandler ==
  ASSUME NEW g \in Handler, HandlerOK(g), Grows, HandlerTypeOK,
         pc'[g] = pc[g], event'[g] = event[g], local'[g] = local[g],
         pc[g] \in {"idle", "lookup", "register"} => invocation'[g] = Nil
  PROVE  HandlerOK(g)'
BY DEF HandlerOK, Grows, HandlerTypeOK, Steps

(* Assigning one existing Invocation keeps the heap typed and growing. *)
LEMMA AssignInvocation ==
  ASSUME StoreTypeOK, StoreInv, NEW o \in Handler, invocation[o] # Nil, NEW new \in Invocation,
         invocation' = [invocation EXCEPT ![o] = new], UNCHANGED invocations,
         Len(new.descriptors) = Len(invocation[o].descriptors),
         new.len <= Len(new.descriptors),
         invocation[o].duration # Nil => new.duration # Nil
  PROVE  StoreTypeOK' /\ StoreInv' /\ Grows
<1>1. new # Nil /\ \A q \in Handler : invocation'[q] = IF q = o THEN new ELSE invocation[q]
  BY ConstantsAssumption DEF StoreTypeOK
<1>2. StoreTypeOK'
  BY <1>1 DEF StoreTypeOK
<1>3. StoreInv'
  BY <1>1 DEF StoreInv, StoreTypeOK
<1>4. Grows
  BY <1>1 DEF Grows
<1> QED
  BY <1>2, <1>3, <1>4

(* A step that allocates nothing and stores no records. *)
SameRecords ==
  \A o \in Handler : IF invocation[o] = Nil
                       THEN invocation'[o] = Nil
                       ELSE /\ invocation'[o] # Nil
                            /\ invocation'[o].workflow = invocation[o].workflow
                            /\ invocation'[o].id = invocation[o].id
                            /\ invocation'[o].experiment = invocation[o].experiment
                            /\ invocation'[o].records = invocation[o].records

(* Assigning other fields of an Invocation is one. *)
LEMMA AssignOther ==
  ASSUME StoreTypeOK, NEW o \in Handler, invocation[o] # Nil, NEW new \in Invocation,
         invocation' = [invocation EXCEPT ![o] = new],
         new.workflow = invocation[o].workflow, new.id = invocation[o].id,
         new.experiment = invocation[o].experiment, new.records = invocation[o].records
  PROVE  SameRecords
BY ConstantsAssumption DEF StoreTypeOK, SameRecords

(* A handler that moves to p with locals l. *)
LEMMA MoveHandler ==
  ASSUME HandlerTypeOK, NEW h \in Handler, NEW l \in Locals, NEW p \in Steps \cup {"done"},
         pc' = [pc EXCEPT ![h] = p], local' = [local EXCEPT ![h] = l], UNCHANGED <<event, now>>
  PROVE  /\ HandlerTypeOK'
         /\ pc'[h] = p /\ local'[h] = l
         /\ \A g \in Handler \ {h} : pc'[g] = pc[g] /\ local'[g] = local[g]
BY DEF HandlerTypeOK

(* A step of h that only reads the heap preserves the invariant if it      *)
(* keeps the types and h's own part.                                       *)
LEMMA ReadStep ==
  ASSUME IInv, NEW h \in Handler, UNCHANGED <<invocations, invocation, result>>,
         ServerTypeOK', HandlerTypeOK', HandlerOK(h)',
         \A g \in Handler \ {h} : pc'[g] = pc[g] /\ event'[g] = event[g] /\ local'[g] = local[g]
  PROVE  IInv'
<1>1. Grows
  BY DEF Grows
<1>2. StoreTypeOK' /\ StoreInv' /\ CompletedHasDuration'
  BY DEF IInv, TypeOK, StoreTypeOK, StoreInv, CompletedHasDuration, Allocated
<1>3. ASSUME NEW g \in Handler, g # h PROVE HandlerOK(g)'
  BY <1>1, <1>3, FrameHandler DEF IInv, TypeOK, HandlerOK
<1> QED
  BY <1>2, <1>3 DEF IInv, TypeOK

(* A step of h that assigns the Invocation o, likewise. *)
LEMMA AssignStep ==
  ASSUME IInv, NEW h \in Handler, NEW o \in Handler, invocation[o] # Nil,
         NEW new \in Invocation, invocation' = [invocation EXCEPT ![o] = new],
         UNCHANGED <<invocations, result, event>>,
         Len(new.descriptors) = Len(invocation[o].descriptors),
         new.len <= Len(new.descriptors),
         invocation[o].duration # Nil => new.duration # Nil,
         new.status = "COMPLETED" => new.duration # Nil,
         ServerTypeOK', HandlerTypeOK', Grows => HandlerOK(h)',
         \A g \in Handler \ {h} : pc'[g] = pc[g] /\ local'[g] = local[g]
  PROVE  IInv'
<1>1. StoreTypeOK' /\ StoreInv' /\ Grows
  BY AssignInvocation DEF IInv, TypeOK
<1>2. CompletedHasDuration'
  BY DEF IInv, TypeOK, StoreTypeOK, CompletedHasDuration, Allocated
<1>3. ASSUME NEW g \in Handler, g # h PROVE HandlerOK(g)'
  <2>1. pc[g] \in {"idle", "lookup", "register"} => invocation'[g] = Nil
    BY DEF IInv, TypeOK, StoreTypeOK, HandlerOK
  <2> QED
    BY <1>1, <1>3, <2>1, FrameHandler DEF IInv, TypeOK
<1> QED
  BY <1>1, <1>2, <1>3 DEF IInv, TypeOK

(* What the invariant says of a handler that is between two steps. *)
LEMMA RunningHandler ==
  ASSUME IInv, NEW h \in Handler, pc[h] \in Steps
  PROVE  /\ event[h] \in Event /\ local[h] \in Locals /\ local[h].workflow \in Experiment
         /\ SinceInvocation(h) \in Int
         /\ pc[h] \notin {"lookup", "register"} =>
              /\ local[h].invocation \in Handler
              /\ invocation[local[h].invocation] # Nil
              /\ invocation[local[h].invocation] \in Invocation
BY ConstantsAssumption
DEF IInv, TypeOK, HandlerTypeOK, StoreTypeOK, HandlerOK, Event, SinceInvocation

(* A stored Invocation exists. *)
LEMMA StoredInvocation ==
  ASSUME IInv, NEW w \in WorkflowId, NEW i \in InvocationId, ~Dangling(w, i)
  PROVE  /\ current \in Experiment
         /\ Stored(w, i) \in Handler
         /\ invocation[Stored(w, i)] # Nil
         /\ invocation[Stored(w, i)] \in Invocation
         /\ invocation[Stored(w, i)].len <= Len(invocation[Stored(w, i)].descriptors)
<1>1. current \in Experiment
  BY ConstantsAssumption DEF IInv, TypeOK, ServerTypeOK, Dangling, Known, Experiment
<1> QED
  BY <1>1 DEF IInv, TypeOK, StoreTypeOK, StoreInv, Dangling, Stored

(* The lookup in the invocations map preserves the invariant. *)
LEMMA LookupInvocationIInv ==
  ASSUME IInv, NEW h \in Handler, LookupInvocation(h)
  PROVE  IInv'
<1> DEFINE found == invocations[local[h].workflow][event[h].workflow][event[h].id]
           l == [local[h] EXCEPT !.invocation = found]
<1>1. pc[h] = "lookup" /\ event[h] \in Event /\ local[h] \in Locals
      /\ local[h].workflow \in Experiment
  BY RunningHandler DEF LookupInvocation, Steps
<1>2. /\ found \in Handler \cup {Nil}
      /\ found # Nil => invocation[found] # Nil
  <2>1. event[h].workflow \in WorkflowId /\ event[h].id \in InvocationId
    BY <1>1 DEF Event
  <2>2. \A x \in Experiment, w \in WorkflowId, i \in InvocationId :
          /\ invocations[x][w][i] \in Handler \cup {Nil}
          /\ invocations[x][w][i] # Nil => invocation[invocations[x][w][i]] # Nil
    BY DEF IInv, TypeOK, StoreTypeOK, StoreInv
  <2> QED
    BY <1>1, <2>1, <2>2
<1>3. l \in Locals /\ l.workflow = local[h].workflow /\ l.invocation = found
  BY <1>1, <1>2 DEF Locals
<1>4. /\ local' = [local EXCEPT ![h] = l]
      /\ pc' = [pc EXCEPT ![h] = AfterLookup(found)]
      /\ UNCHANGED <<up, restarts, load, server, invocation, event, now, clock, result>>
  BY DEF LookupInvocation
<1>5. AfterLookup(found) \in Steps
  BY DEF AfterLookup, Steps
<1> HIDE DEF l, found
<1>6. /\ HandlerTypeOK' /\ pc'[h] = AfterLookup(found) /\ local'[h] = l
      /\ \A g \in Handler \ {h} : pc'[g] = pc[g] /\ local'[g] = local[g]
  <2>1. HandlerTypeOK /\ l \in Locals /\ UNCHANGED <<event, now>>
        /\ AfterLookup(found) \in Steps \cup {"done"}
    BY <1>3, <1>4, <1>5 DEF IInv, TypeOK
  <2>2. pc' = [pc EXCEPT ![h] = AfterLookup(found)] /\ local' = [local EXCEPT ![h] = l]
    BY <1>4
  <2> QED
    BY <2>1, <2>2, MoveHandler
<1>7. ServerTypeOK'
  BY <1>4 DEF IInv, TypeOK, ServerTypeOK, server
<1>8. HandlerOK(h)'
  BY <1>1, <1>2, <1>3, <1>4, <1>6 DEF IInv, HandlerOK, AfterLookup, Steps
<1> QED
  BY <1>4, <1>6, <1>7, <1>8, ReadStep DEF server

(* checkCompletion preserves the invariant. *)
LEMMA CheckCompletionIInv ==
  ASSUME IInv, NEW h \in Handler, CheckCompletion(h)
  PROVE  IInv'
<1> DEFINE e == event[h]
           inv == invocation[Stored(e.workflow, e.id)]
<1>1. /\ pc[h] = "check" /\ e \in Event /\ local[h] \in Locals
      /\ local[h].workflow \in Experiment
      /\ local[h].invocation \in Handler /\ invocation[local[h].invocation] # Nil
  BY RunningHandler DEF CheckCompletion, Steps
<1>2. PICK l \in Locals, p \in {"remove", "append"} :
        /\ local' = [local EXCEPT ![h] = l]
        /\ pc' = [pc EXCEPT ![h] = p]
        /\ l.workflow = local[h].workflow /\ l.invocation = local[h].invocation
        /\ p = "remove" => l.descriptorIdx >= 1
  <2>1. CASE Matching(e.attributes, inv.descriptors, inv.len) # {}
    <3>1. PICK k \in Matching(e.attributes, inv.descriptors, inv.len) :
            local' = [local EXCEPT ![h].descriptorIdx = k, ![h].isCompletion = TRUE]
      BY <2>1 DEF CheckCompletion
    <3>2. k \in Nat /\ k >= 1
      BY <3>1 DEF Matching
    <3> DEFINE l == [local[h] EXCEPT !.descriptorIdx = k, !.isCompletion = TRUE]
    <3>3. l \in Locals /\ l.workflow = local[h].workflow
          /\ l.invocation = local[h].invocation /\ l.descriptorIdx = k
      BY <1>1, <3>2 DEF Locals
    <3>4. local' = [local EXCEPT ![h] = l]
      BY <3>1, <1>1 DEF IInv, TypeOK, HandlerTypeOK
    <3>5. pc' = [pc EXCEPT ![h] = "remove"]
      BY <2>1 DEF CheckCompletion
    <3> HIDE DEF l
    <3> QED
      BY <3>2, <3>3, <3>4, <3>5
  <2>2. CASE Matching(e.attributes, inv.descriptors, inv.len) = {}
    BY <1>1, <2>2 DEF CheckCompletion, IInv, TypeOK, HandlerTypeOK
  <2> QED
    BY <2>1, <2>2
<1>3. UNCHANGED <<up, restarts, load, server, invocation, event, now, clock, result>>
  BY DEF CheckCompletion
<1>4. /\ HandlerTypeOK' /\ pc'[h] = p /\ local'[h] = l
      /\ \A g \in Handler \ {h} : pc'[g] = pc[g] /\ local'[g] = local[g]
  <2>1. HandlerTypeOK /\ UNCHANGED <<event, now>>
        /\ p \in Steps \cup {"done"} /\ l \in Locals
    BY <1>2, <1>3 DEF IInv, TypeOK, Steps
  <2>2. pc' = [pc EXCEPT ![h] = p] /\ local' = [local EXCEPT ![h] = l]
    BY <1>2
  <2> QED
    BY <2>1, <2>2, MoveHandler
<1>5. ServerTypeOK'
  BY <1>3 DEF IInv, TypeOK, ServerTypeOK, server
<1>6. HandlerOK(h)'
  BY <1>1, <1>2, <1>3, <1>4 DEF IInv, HandlerOK, Steps
<1> QED
  BY <1>3, <1>4, <1>5, <1>6, ReadStep DEF server

(* Reading the descriptor slice preserves the invariant. *)
LEMMA RemoveReadIInv ==
  ASSUME IInv, NEW h \in Handler, RemoveRead(h)
  PROVE  IInv'
<1> DEFINE target == Stored(event[h].workflow, event[h].id)
           l == [local[h] EXCEPT !.target = target, !.len = invocation[target].len]
<1>1. /\ pc[h] = "remove" /\ event[h] \in Event /\ local[h] \in Locals
      /\ local[h].workflow \in Experiment
      /\ local[h].invocation \in Handler /\ invocation[local[h].invocation] # Nil
      /\ local[h].descriptorIdx >= 1
  BY RunningHandler DEF RemoveRead, Steps, IInv, HandlerOK
<1>2. /\ target \in Handler /\ invocation[target] # Nil /\ invocation[target] \in Invocation
      /\ invocation[target].len <= Len(invocation[target].descriptors)
  BY <1>1, StoredInvocation DEF RemoveRead, Event
<1>3. /\ l \in Locals /\ l.workflow = local[h].workflow /\ l.invocation = local[h].invocation
      /\ l.target = target /\ l.len = invocation[target].len
      /\ l.descriptorIdx = local[h].descriptorIdx
  BY <1>1, <1>2 DEF Locals, Invocation
<1>4. /\ local' = [local EXCEPT ![h] = l]
      /\ pc' = [pc EXCEPT ![h] = "shrink"]
      /\ local[h].descriptorIdx <= invocation[target].len
      /\ UNCHANGED <<up, restarts, load, server, invocation, event, now, clock, result>>
  BY <1>1 DEF RemoveRead, InRange, IInv, TypeOK, HandlerTypeOK
<1> HIDE DEF l, target
<1>5. /\ HandlerTypeOK' /\ pc'[h] = "shrink" /\ local'[h] = l
      /\ \A g \in Handler \ {h} : pc'[g] = pc[g] /\ local'[g] = local[g]
  BY <1>3, <1>4, MoveHandler DEF IInv, TypeOK, Steps
<1>6. ServerTypeOK'
  BY <1>4 DEF IInv, TypeOK, ServerTypeOK, server
<1>7. HandlerOK(h)'
  BY <1>1, <1>2, <1>3, <1>4, <1>5 DEF IInv, HandlerOK, Steps
<1> QED
  BY <1>4, <1>5, <1>6, <1>7, ReadStep DEF server

(* Comparing the durations preserves the invariant: the assignment is      *)
(* skipped only if there is a duration already.                            *)
LEMMA CompareDurationIInv ==
  ASSUME IInv, NEW h \in Handler, CompareDuration(h)
  PROVE  IInv'
<1>1. ServerTypeOK'
  BY DEF IInv, TypeOK, ServerTypeOK, CompareDuration, server
<1>2. HandlerTypeOK'
  BY DEF IInv, TypeOK, HandlerTypeOK, Steps, CompareDuration
<1>3. HandlerOK(h)'
  BY DEF IInv, TypeOK, HandlerTypeOK, HandlerOK, Steps, CompareDuration, Longer
<1> QED
  BY <1>1, <1>2, <1>3, ReadStep DEF IInv, TypeOK, HandlerTypeOK, CompareDuration, server

(* Reading the EventRecords slice preserves the invariant. *)
LEMMA AppendReadIInv ==
  ASSUME IInv, NEW h \in Handler, AppendRead(h)
  PROVE  IInv'
<1> DEFINE l == [local[h] EXCEPT !.records = invocation[local[h].invocation].records]
<1>1. /\ pc[h] = "append" /\ event[h] \in Event /\ local[h] \in Locals
      /\ local[h].workflow \in Experiment
      /\ local[h].invocation \in Handler /\ invocation[local[h].invocation] # Nil
      /\ invocation[local[h].invocation] \in Invocation
  BY RunningHandler DEF AppendRead, Steps
<1>2. l \in Locals /\ l.workflow = local[h].workflow /\ l.invocation = local[h].invocation
  BY <1>1 DEF Locals, Invocation
<1>3. /\ local' = [local EXCEPT ![h] = l]
      /\ pc' = [pc EXCEPT ![h] = "store"]
      /\ UNCHANGED <<up, restarts, load, server, invocation, event, now, clock, result>>
  BY DEF AppendRead
<1> HIDE DEF l
<1>4. /\ HandlerTypeOK' /\ pc'[h] = "store" /\ local'[h] = l
      /\ \A g \in Handler \ {h} : pc'[g] = pc[g] /\ local'[g] = local[g]
  BY <1>2, <1>3, MoveHandler DEF IInv, TypeOK, Steps
<1>5. ServerTypeOK'
  BY <1>3 DEF IInv, TypeOK, ServerTypeOK, server
<1>6. HandlerOK(h)'
  BY <1>1, <1>2, <1>3, <1>4 DEF IInv, HandlerOK, Steps
<1> QED
  BY <1>3, <1>4, <1>5, <1>6, ReadStep DEF server

(* Assigning Duration preserves the invariant. *)
LEMMA SetDurationIInv ==
  ASSUME IInv, NEW h \in Handler, SetDuration(h)
  PROVE  IInv' /\ SameRecords
<1> DEFINE o == local[h].invocation
           new == [invocation[o] EXCEPT !.duration = SinceInvocation(h)]
<1>1. /\ o \in Handler /\ invocation[o] \in Invocation /\ invocation[o] # Nil
      /\ SinceInvocation(h) \in Int
  BY RunningHandler DEF SetDuration, Steps
<1>2. new \in Invocation
  BY <1>1 DEF Invocation
<1>3. invocation' = [invocation EXCEPT ![o] = new]
  BY DEF SetDuration
<1>4. /\ new.descriptors = invocation[o].descriptors
      /\ new.len <= Len(new.descriptors)
      /\ new.duration # Nil
  BY <1>1, ConstantsAssumption DEF IInv, StoreInv, HandlerOK, Invocation, SetDuration
<1>5. ServerTypeOK'
  BY DEF IInv, TypeOK, ServerTypeOK, SetDuration, server
<1>6. HandlerTypeOK'
  BY DEF IInv, TypeOK, HandlerTypeOK, SetDuration, Steps
<1>7. invocation'[o].duration # Nil
  BY <1>1, <1>3, <1>4 DEF IInv, TypeOK, StoreTypeOK
<1>8. Grows => HandlerOK(h)'
  BY <1>1, <1>7 DEF IInv, TypeOK, HandlerTypeOK, HandlerOK, Grows, SetDuration, Steps
<1>9. SameRecords
  <2>1. /\ new.workflow = invocation[o].workflow /\ new.id = invocation[o].id
        /\ new.experiment = invocation[o].experiment /\ new.records = invocation[o].records
    BY <1>1 DEF Invocation
  <2> HIDE DEF o, new
  <2> QED
    BY <1>1, <1>2, <1>3, <2>1, AssignOther DEF IInv, TypeOK
<1> HIDE DEF o, new
<1> QED
  BY <1>1, <1>2, <1>3, <1>4, <1>5, <1>6, <1>8, <1>9, AssignStep
  DEF IInv, TypeOK, HandlerTypeOK, SetDuration, server

(* Assigning Status preserves the invariant. *)
LEMMA SetStatusIInv ==
  ASSUME IInv, NEW h \in Handler, SetStatus(h)
  PROVE  IInv' /\ SameRecords
<1> DEFINE o == local[h].invocation
           new == [invocation[o] EXCEPT !.status = IF NoneRemain(invocation[local[h].target].len) THEN "COMPLETED" ELSE @]
<1>1. /\ o \in Handler /\ invocation[o] \in Invocation /\ invocation[o] # Nil
      /\ SinceInvocation(h) \in Int
  BY RunningHandler DEF SetStatus, Steps
<1>2. new \in Invocation
  BY <1>1 DEF Invocation
<1>3. invocation' = [invocation EXCEPT ![o] = new]
  BY DEF SetStatus
<1>4. /\ new.descriptors = invocation[o].descriptors
      /\ new.len <= Len(new.descriptors)
      /\ new.duration # Nil
  BY <1>1, ConstantsAssumption DEF IInv, StoreInv, HandlerOK, Invocation, SetStatus
<1>5. ServerTypeOK'
  BY DEF IInv, TypeOK, ServerTypeOK, SetStatus, server
<1>6. HandlerTypeOK'
  BY DEF IInv, TypeOK, HandlerTypeOK, SetStatus, Steps
<1>7. invocation'[o].duration # Nil
  BY <1>1, <1>3, <1>4 DEF IInv, TypeOK, StoreTypeOK
<1>8. Grows => HandlerOK(h)'
  BY <1>1, <1>7 DEF IInv, TypeOK, HandlerTypeOK, HandlerOK, Grows, SetStatus, Steps
<1>9. SameRecords
  <2>1. /\ new.workflow = invocation[o].workflow /\ new.id = invocation[o].id
        /\ new.experiment = invocation[o].experiment /\ new.records = invocation[o].records
    BY <1>1 DEF Invocation
  <2> HIDE DEF o, new
  <2> QED
    BY <1>1, <1>2, <1>3, <2>1, AssignOther DEF IInv, TypeOK
<1> HIDE DEF o, new
<1> QED
  BY <1>1, <1>2, <1>3, <1>4, <1>5, <1>6, <1>8, <1>9, AssignStep
  DEF IInv, TypeOK, HandlerTypeOK, SetStatus, server

(* Removing a descriptor preserves the invariant: with the header read     *)
(* before, the shift stays inside the backing array.                       *)
LEMMA RemoveWriteIInv ==
  ASSUME IInv, NEW h \in Handler, RemoveWrite(h)
  PROVE  IInv' /\ SameRecords
<1> DEFINE o == local[h].target
           idx == local[h].descriptorIdx
           n == local[h].len
           ds == invocation[o].descriptors
           shifted == [k \in 1..Len(ds) |-> IF k \in idx..(n - 1) THEN ds[k + 1] ELSE ds[k]]
           new == [invocation[o] EXCEPT !.descriptors = shifted, !.len = Remaining(n)]
<1>1. /\ pc[h] = "shrink" /\ local[h] \in Locals
      /\ o \in Handler /\ invocation[o] # Nil /\ invocation[o] \in Invocation
      /\ idx \in Nat /\ n \in Nat /\ 1 <= idx /\ idx <= n /\ n <= Len(ds)
  BY RunningHandler
  DEF RemoveWrite, Steps, IInv, TypeOK, StoreTypeOK, HandlerOK, Locals, Invocation
<1>2. ds \in Seq(Matcher) /\ Len(ds) \in Nat
  BY <1>1 DEF Invocation
<1>3. shifted \in Seq(Matcher) /\ Len(shifted) = Len(ds)
  <2>1. \A k \in 1..Len(ds) : shifted[k] \in Matcher
    BY <1>1, <1>2
  <2>2. shifted \in [1..Len(ds) -> Matcher]
    BY <2>1
  <2> HIDE DEF shifted
  <2> QED
    BY <1>2, <2>2
<1>4. Remaining(n) \in Nat /\ Remaining(n) <= Len(ds)
  BY <1>1, <1>2 DEF Remaining
<1> HIDE DEF shifted
<1>5. /\ new \in Invocation /\ new.descriptors = shifted /\ new.len = Remaining(n)
      /\ new.duration = invocation[o].duration /\ new.status = invocation[o].status
      /\ new.workflow = invocation[o].workflow /\ new.id = invocation[o].id
      /\ new.experiment = invocation[o].experiment /\ new.records = invocation[o].records
  BY <1>1, <1>3, <1>4 DEF Invocation
<1>6. invocation' = [invocation EXCEPT ![o] = new]
  BY DEF RemoveWrite, shifted
<1>7. new.status = "COMPLETED" => new.duration # Nil
  BY <1>1, <1>5 DEF IInv, CompletedHasDuration, Allocated
<1>8. ServerTypeOK'
  BY DEF IInv, TypeOK, ServerTypeOK, RemoveWrite, server
<1>9. HandlerTypeOK'
  BY DEF IInv, TypeOK, HandlerTypeOK, RemoveWrite, Steps
<1>10. Grows => HandlerOK(h)'
  BY <1>1 DEF IInv, TypeOK, HandlerTypeOK, HandlerOK, Grows, RemoveWrite, Steps
<1>11. /\ UNCHANGED <<invocations, result, event>>
       /\ \A g \in Handler \ {h} : pc'[g] = pc[g] /\ local'[g] = local[g]
  BY DEF IInv, TypeOK, HandlerTypeOK, RemoveWrite, server
<1>12. /\ Len(new.descriptors) = Len(invocation[o].descriptors)
       /\ new.len <= Len(new.descriptors)
       /\ invocation[o].duration # Nil => new.duration # Nil
  BY <1>3, <1>4, <1>5
<1> HIDE DEF o, new
<1>13. SameRecords
  BY <1>1, <1>5, <1>6, AssignOther DEF IInv, TypeOK
<1> QED
  BY <1>1, <1>5, <1>6, <1>7, <1>8, <1>9, <1>10, <1>11, <1>12, <1>13, AssignStep

(* Storing the longer EventRecords slice preserves the invariant. *)
LEMMA AppendStoreIInv ==
  ASSUME IInv, NEW h \in Handler, AppendStore(h)
  PROVE  IInv' /\ invocation'[local[h].invocation] # Nil
<1> DEFINE o == local[h].invocation
           new == [invocation[o] EXCEPT !.records = WithRecord(h)]
           l == [local[h] EXCEPT !.records = <<>>]
<1>1. /\ local[h] \in Locals
      /\ o \in Handler /\ invocation[o] # Nil /\ invocation[o] \in Invocation
  BY RunningHandler DEF AppendStore, Steps
<1>2. WithRecord(h) \in Seq(EventRecord)
  <2>1. [event |-> h, isCompletion |-> local[h].isCompletion] \in EventRecord
    BY <1>1 DEF EventRecord, Locals
  <2> QED
    BY <1>1, <2>1 DEF WithRecord, Locals
<1>3. /\ new \in Invocation /\ new.descriptors = invocation[o].descriptors
      /\ new.len = invocation[o].len /\ new.duration = invocation[o].duration
      /\ new.status = invocation[o].status
  BY <1>1, <1>2 DEF Invocation
<1>4. new.len <= Len(new.descriptors)
  BY <1>1, <1>3 DEF IInv, StoreInv
<1>5. new.status = "COMPLETED" => new.duration # Nil
  BY <1>1, <1>3 DEF IInv, CompletedHasDuration, Allocated
<1>6. l \in Locals
  <2>1. <<>> \in Seq(EventRecord)
    OBVIOUS
  <2> QED
    BY <1>1, <2>1 DEF Locals
<1>7. /\ invocation' = [invocation EXCEPT ![o] = new]
      /\ local' = [local EXCEPT ![h] = l]
      /\ pc' = [pc EXCEPT ![h] = "done"]
      /\ UNCHANGED <<up, restarts, load, server, event, now, clock, result>>
  BY DEF AppendStore
<1> HIDE DEF l, new, o
<1>8. /\ HandlerTypeOK' /\ pc'[h] = "done" /\ local'[h] = l
      /\ \A g \in Handler \ {h} : pc'[g] = pc[g] /\ local'[g] = local[g]
  <2>1. /\ HandlerTypeOK /\ UNCHANGED <<event, now>>
        /\ local' = [local EXCEPT ![h] = l] /\ pc' = [pc EXCEPT ![h] = "done"]
    BY <1>7 DEF IInv, TypeOK
  <2> QED
    BY <1>6, <2>1 DEF HandlerTypeOK
<1>9. ServerTypeOK'
  BY <1>7 DEF IInv, TypeOK, ServerTypeOK, server
<1>10. HandlerOK(h)'
  BY <1>8 DEF HandlerOK, Steps
<1>11. invocation'[o] # Nil
  BY <1>1, <1>3, <1>7, ConstantsAssumption DEF IInv, TypeOK, StoreTypeOK
<1> QED
  BY <1>1, <1>3, <1>4, <1>5, <1>7, <1>8, <1>9, <1>10, <1>11, AssignStep DEF server, o

(* Registering an invocation preserves the invariant: the new Invocation   *)
(* is one no other handler refers to.                                      *)
LEMMA RegisterInvocationIInv ==
  ASSUME IInv, NEW h \in Handler, RegisterInvocation(h)
  PROVE  IInv'
<1> DEFINE w == event[h].workflow
           i == event[h].id
           new == NewInvocation(w, i)
           l == [local[h] EXCEPT !.invocation = h]
<1>1. /\ pc[h] = "register" /\ event[h] \in Event /\ local[h] \in Locals
      /\ local[h].workflow \in Experiment /\ invocation[h] = Nil
      /\ w \in WorkflowId /\ i \in InvocationId
  BY RunningHandler DEF RegisterInvocation, Steps, IInv, HandlerOK, Event
<1>2. current \in Experiment /\ workflows[current][w] \in Seq(Matcher)
  BY ConstantsAssumption
  DEF RegisterInvocation, Known, IInv, TypeOK, ServerTypeOK, Experiment
<1>3. /\ new \in Invocation /\ new # Nil /\ new.len = Len(new.descriptors)
      /\ new.status = "CANCELLED"
  <2> DEFINE ds == workflows[current][w]
  <2>1. ds \in Seq(Matcher) /\ Len(ds) \in Nat /\ <<>> \in Seq(EventRecord)
    BY <1>2
  <2> HIDE DEF ds, w, i
  <2>2. new = [workflow |-> w, id |-> i, experiment |-> current, descriptors |-> ds,
               len |-> Len(ds), status |-> "CANCELLED", duration |-> Nil, records |-> <<>>]
    BY DEF NewInvocation, ds, w, i
  <2> HIDE DEF new
  <2>3. new \in Invocation
    BY <1>1, <1>2, <2>1, <2>2 DEF Invocation
  <2> QED
    BY <2>2, <2>3, ConstantsAssumption
<1>4. l \in Locals /\ l.workflow = local[h].workflow /\ l.invocation = h
  BY <1>1 DEF Locals
<1>5. /\ invocation' = [invocation EXCEPT ![h] = new]
      /\ invocations' = [invocations EXCEPT ![current][w][i] = h]
      /\ local' = [local EXCEPT ![h] = l]
      /\ pc' = [pc EXCEPT ![h] = "check"]
      /\ UNCHANGED <<up, restarts, load, current, created, toDefine, workflows, event, now, clock, result>>
  BY DEF RegisterInvocation
<1> HIDE DEF l, new, w, i
<1>6. /\ invocation'[h] = new
      /\ \A q \in Handler \ {h} : invocation'[q] = invocation[q]
  BY <1>5 DEF IInv, TypeOK, StoreTypeOK
<1>7. /\ invocations' \in [Experiment -> [WorkflowId -> [InvocationId -> Handler \cup {Nil}]]]
      /\ \A x \in Experiment, v \in WorkflowId, j \in InvocationId :
           invocations'[x][v][j] = h \/ invocations'[x][v][j] = invocations[x][v][j]
  BY <1>1, <1>2, <1>5 DEF IInv, TypeOK, StoreTypeOK
<1>8. StoreTypeOK'
  BY <1>3, <1>5, <1>7 DEF IInv, TypeOK, StoreTypeOK
<1>9. StoreInv'
  <2>1. ASSUME NEW x \in Experiment, NEW v \in WorkflowId, NEW j \in InvocationId,
               invocations'[x][v][j] # Nil
        PROVE  invocation'[invocations'[x][v][j]] # Nil
    <3>1. CASE invocations'[x][v][j] = h
      BY <1>3, <1>6, <3>1
    <3>2. CASE invocations'[x][v][j] = invocations[x][v][j]
      <4> DEFINE q == invocations[x][v][j]
      <4>1. q \in Handler /\ invocation[q] # Nil
        BY <2>1, <3>2 DEF IInv, TypeOK, StoreTypeOK, StoreInv
      <4> HIDE DEF q
      <4>2. invocation'[q] # Nil
        BY <1>3, <1>6, <4>1
      <4> QED
        BY <3>2, <4>2 DEF q
    <3> QED
      BY <1>7, <3>1, <3>2
  <2>2. ASSUME NEW o \in Handler, invocation'[o] # Nil
        PROVE  invocation'[o].len <= Len(invocation'[o].descriptors)
    <3>1. CASE o = h
      <4>1. Len(new.descriptors) \in Nat
        BY <1>3 DEF Invocation
      <4> QED
        BY <1>3, <1>6, <3>1, <4>1
    <3> QED
      BY <1>6, <2>2, <3>1 DEF IInv, StoreInv
  <2> QED
    BY <2>1, <2>2 DEF StoreInv
<1>10. CompletedHasDuration'
  BY <1>3, <1>5, <1>6 DEF IInv, CompletedHasDuration, Allocated
<1>11. /\ HandlerTypeOK' /\ pc'[h] = "check" /\ local'[h] = l
       /\ \A g \in Handler \ {h} : pc'[g] = pc[g] /\ local'[g] = local[g]
  <2>1. "check" \in Steps \cup {"done"}
    BY DEF Steps
  <2>2. /\ HandlerTypeOK /\ l \in Locals
        /\ pc' = [pc EXCEPT ![h] = "check"] /\ local' = [local EXCEPT ![h] = l]
        /\ UNCHANGED <<event, now>>
    BY <1>4, <1>5 DEF IInv, TypeOK
  <2> QED
    BY <2>1, <2>2 DEF HandlerTypeOK
<1>12. ServerTypeOK'
  BY <1>5 DEF IInv, TypeOK, ServerTypeOK
<1>13. HandlerOK(h)'
  BY <1>1, <1>3, <1>4, <1>5, <1>6, <1>11 DEF HandlerOK, Steps, IInv
<1>14. Grows
  BY <1>1, <1>6 DEF Grows
<1>15. ASSUME NEW g \in Handler, g # h PROVE HandlerOK(g)'
  BY <1>5, <1>6, <1>11, <1>14, <1>15, FrameHandler DEF IInv, TypeOK, HandlerOK
<1> QED
  BY <1>8, <1>9, <1>10, <1>11, <1>12, <1>13, <1>15 DEF IInv, TypeOK

(* A panic preserves the invariant. *)
LEMMA PanicIInv ==
  ASSUME IInv, NEW h \in Handler, Panic(h)
  PROVE  IInv'
<1>1. ServerTypeOK' /\ HandlerTypeOK'
  BY DEF IInv, TypeOK, ServerTypeOK, HandlerTypeOK, Panic, server
<1>2. HandlerOK(h)'
  BY DEF IInv, TypeOK, HandlerTypeOK, HandlerOK, Panic, Steps
<1> QED
  BY <1>1, <1>2, ReadStep DEF IInv, TypeOK, HandlerTypeOK, Panic, server

(* The end of the process preserves the invariant. *)
LEMMA FatalIInv ==
  ASSUME IInv, Fatal
  PROVE  IInv'
<1>1. ServerTypeOK'
  <2>1. DOMAIN Empty = {}
    BY DEF Empty
  <2>2. up' = FALSE /\ current' = 0 /\ toDefine' = Empty
        /\ UNCHANGED <<restarts, load, created, workflows, clock>>
    BY DEF Fatal
  <2>3. 0 \in 0..created
    BY ConstantsAssumption DEF IInv, TypeOK, ServerTypeOK
  <2> QED
    BY <2>1, <2>2, <2>3 DEF IInv, TypeOK, ServerTypeOK
<1>2. HandlerTypeOK'
  BY DEF IInv, TypeOK, HandlerTypeOK, Fatal
<1>3. StoreTypeOK' /\ StoreInv' /\ CompletedHasDuration'
  BY DEF IInv, TypeOK, StoreTypeOK, StoreInv, CompletedHasDuration, Allocated, Fatal
<1>4. ASSUME NEW g \in Handler PROVE HandlerOK(g)'
  BY DEF IInv, TypeOK, HandlerTypeOK, HandlerOK, Fatal, Steps
<1> QED
  BY <1>1, <1>2, <1>3, <1>4 DEF IInv, TypeOK

(* The calls of the invoker and the restart leave the handlers alone. *)
LEMMA ExperimentIInv ==
  ASSUME IInv,
         \/ Restart
         \/ \E d \in Definitions : StartExperiment(d)
         \/ \E w \in WorkflowId : DefineWorkflow(w)
         \/ EndExperiment
  PROVE  IInv'
<1>1. UNCHANGED <<invocations, invocation, pc, event, now, local>>
  BY DEF Restart, StartExperiment, DefineWorkflow, EndExperiment, server
<1>2. StoreTypeOK' /\ StoreInv' /\ HandlerTypeOK'
  BY <1>1 DEF IInv, TypeOK, StoreTypeOK, StoreInv, HandlerTypeOK
<1>3. ASSUME NEW g \in Handler PROVE HandlerOK(g)'
  BY <1>1 DEF IInv, HandlerOK
<1>4. CompletedHasDuration'
  <2>1. Allocated' = Allocated /\ Reported \subseteq Allocated
    BY <1>1 DEF Allocated, Reported
  <2>2. \A o \in Allocated' :
          invocation'[o].status = "COMPLETED" => invocation'[o].duration # Nil
    BY <1>1, <2>1 DEF IInv, CompletedHasDuration
  <2>3. ASSUME NEW r \in result' PROVE r.status = "COMPLETED" => r.duration # Nil
    <3>1. CASE EndExperiment
      <4>1. PICK o \in Reported :
              r = [workflow |-> invocation[o].workflow, id |-> invocation[o].id,
                   status |-> invocation[o].status, duration |-> invocation[o].duration,
                   records |-> invocation[o].records]
        BY <2>3, <3>1 DEF EndExperiment
      <4>2. r.status = invocation[o].status /\ r.duration = invocation[o].duration
        BY <4>1
      <4> QED
        BY <2>1, <4>2 DEF IInv, CompletedHasDuration
    <3>2. CASE ~EndExperiment
      BY <2>3, <3>2 DEF IInv, CompletedHasDuration, Restart, StartExperiment, DefineWorkflow
    <3> QED
      BY <3>1, <3>2
  <2> QED
    BY <2>2, <2>3 DEF CompletedHasDuration
<1>5. ServerTypeOK'
  <2>1. CASE Restart
    BY <2>1, ConstantsAssumption DEF IInv, TypeOK, ServerTypeOK, Restart, server
  <2>2. CASE \E d \in Definitions : StartExperiment(d)
    BY <2>2, ConstantsAssumption DEF IInv, TypeOK, ServerTypeOK, StartExperiment, Experiment
  <2>3. ASSUME NEW w \in WorkflowId, DefineWorkflow(w) PROVE ServerTypeOK'
    <3>1. /\ w \in DOMAIN toDefine /\ toDefine[w] \in Seq(Matcher) /\ current \in Experiment
      BY <2>3, ConstantsAssumption
      DEF IInv, TypeOK, ServerTypeOK, DefineWorkflow, Experiment, Empty
    <3>2. /\ DOMAIN workflows' = Experiment
          /\ \A x \in Experiment : /\ DOMAIN workflows'[x] \subseteq WorkflowId
                                    /\ \A v \in DOMAIN workflows'[x] :
                                         workflows'[x][v] \in Seq(Matcher)
      BY <2>3, <3>1 DEF IInv, TypeOK, ServerTypeOK, DefineWorkflow
    <3> QED
      BY <2>3, <3>1, <3>2, ConstantsAssumption
      DEF IInv, TypeOK, ServerTypeOK, DefineWorkflow, Experiment
  <2>4. CASE EndExperiment
    BY <2>4 DEF IInv, TypeOK, ServerTypeOK, EndExperiment, server
  <2> QED
    BY <2>1, <2>2, <2>3, <2>4
<1> QED
  BY <1>2, <1>3, <1>4, <1>5 DEF IInv, TypeOK

(* Receiving an event preserves the invariant. *)
LEMMA ReceiveEventIInv ==
  ASSUME IInv, NEW h \in Handler, NEW w \in WorkflowId, NEW i \in InvocationId,
         NEW a \in Attributes, ReceiveEvent(h, w, i, a)
  PROVE  IInv'
<1> DEFINE l == [local[h] EXCEPT !.workflow = current]
           e == [workflow |-> w, id |-> i, attributes |-> a]
<1>1. /\ local[h] \in Locals /\ pc[h] = "idle" /\ invocation[h] = Nil
      /\ current \in Experiment /\ current \in 0..MaxExperiments
  BY ConstantsAssumption
  DEF IInv, TypeOK, HandlerTypeOK, ServerTypeOK, HandlerOK, ReceiveEvent, Known, Experiment
<1>2. l \in Locals /\ l.workflow = current
  BY <1>1 DEF Locals
<1>3. e \in Event /\ e # Nil
  BY ConstantsAssumption DEF Event
<1>4. /\ pc' = [pc EXCEPT ![h] = "lookup"] /\ event' = [event EXCEPT ![h] = e]
      /\ now' = [now EXCEPT ![h] = clock] /\ local' = [local EXCEPT ![h] = l]
      /\ clock' = clock + 1
      /\ UNCHANGED <<up, restarts, load, server, invocation, result>>
  BY DEF ReceiveEvent
<1> HIDE DEF l, e
<1>5. ServerTypeOK'
  BY <1>4 DEF IInv, TypeOK, ServerTypeOK, server
<1>6. HandlerTypeOK'
  BY <1>2, <1>3, <1>4 DEF IInv, TypeOK, HandlerTypeOK, ServerTypeOK, Steps
<1>7. HandlerOK(h)'
  BY <1>1, <1>2, <1>3, <1>4 DEF IInv, TypeOK, HandlerTypeOK, HandlerOK, Steps
<1> QED
  BY <1>4, <1>5, <1>6, <1>7, ReadStep DEF IInv, TypeOK, HandlerTypeOK, server

(* The inductive step. *)
LEMMA NextIInv == IInv /\ [Next]_vars => IInv'
<1> SUFFICES ASSUME IInv, [Next]_vars PROVE IInv'
  OBVIOUS
<1>1. CASE \/ Restart
           \/ \E d \in Definitions : StartExperiment(d)
           \/ \E w \in WorkflowId : DefineWorkflow(w)
           \/ EndExperiment
  BY <1>1, ExperimentIInv
<1>2. CASE \E h \in Handler, w \in WorkflowId, i \in InvocationId, a \in Attributes :
             ReceiveEvent(h, w, i, a)
  BY <1>2, ReceiveEventIInv
<1>3. CASE \/ \E h \in Handler, w \in WorkflowId, a \in Attributes \cup {Malformed} :
                RejectEvent(h, w, a)
           \/ \E h \in Handler : MapFault(h)
  BY <1>3, FatalIInv DEF RejectEvent, MapFault
<1>4. ASSUME NEW h \in Handler, Handle(h) PROVE IInv'
  BY <1>4, LookupInvocationIInv, RegisterInvocationIInv, CheckCompletionIInv, RemoveReadIInv,
     RemoveWriteIInv, CompareDurationIInv, SetDurationIInv, SetStatusIInv, AppendReadIInv,
     AppendStoreIInv, PanicIInv
  DEF Handle, RegisterPanics, CheckPanics, RemovePanics
<1>5. CASE UNCHANGED vars
  BY <1>5 DEF vars, server, IInv, TypeOK, ServerTypeOK, StoreTypeOK, HandlerTypeOK, HandlerOK,
     StoreInv, CompletedHasDuration, Allocated
<1> QED
  BY <1>1, <1>2, <1>3, <1>4, <1>5 DEF Next

(* Type correctness of the server under any interleaving of its handlers:  *)
(* in particular a slice never gets a negative length and no handler holds *)
(* a dangling Invocation.                                                  *)
THEOREM TypeCorrect == Spec => []TypeOK
<1>1. IInv => TypeOK
  BY DEF IInv
<1> QED
  BY InitIInv, NextIInv, <1>1, PTL DEF Spec

(* EndExperiment, whenever it is called, reports no COMPLETED invocation   *)
(* without a duration.                                                     *)
THEOREM CompletedIsTimed == Spec => []CompletedHasDuration
<1>1. IInv => CompletedHasDuration
  BY DEF IInv
<1> QED
  BY InitIInv, NextIInv, <1>1, PTL DEF Spec

-------------------------------------------------------------------------------
(* Where an event is recorded follows from what its handler keeps: R holds *)
(* handlers that are done, each once, that wrote into o.                   *)
HasRecords(o, R) ==
  /\ \A j \in 1..Len(R) : /\ pc[R[j].event] = "done"
                          /\ local[R[j].event].invocation = o
                          /\ event[R[j].event].workflow = invocation[o].workflow
                          /\ event[R[j].event].id = invocation[o].id
  /\ \A j, k \in 1..Len(R) : R[j].event = R[k].event => j = k

Filed == \A x \in Experiment, w \in WorkflowId, i \in InvocationId :
           invocations[x][w][i] # Nil => /\ invocation[invocations[x][w][i]].workflow = w
                                         /\ invocation[invocations[x][w][i]].id = i

Follows(h) == pc[h] \in Steps \ {"lookup", "register"} =>
                /\ invocation[local[h].invocation].workflow = event[h].workflow
                /\ invocation[local[h].invocation].id = event[h].id

RecordInv ==
  /\ Filed
  /\ \A h \in Handler : Follows(h)
  /\ \A h \in Handler : pc[h] = "store" => HasRecords(local[h].invocation, local[h].records)
  /\ \A o \in Handler : invocation[o] # Nil => HasRecords(o, invocation[o].records)

(* What no step does: move a handler that is done, or change whose         *)
(* Invocation an Invocation is.                                            *)
Settled ==
  /\ \A g \in Handler : pc[g] = "done" => /\ pc'[g] = "done"
                                          /\ local'[g].invocation = local[g].invocation
                                          /\ event'[g] = event[g]
  /\ \A o \in Handler : invocation[o] # Nil =>
       /\ invocation'[o] # Nil
       /\ invocation'[o].workflow = invocation[o].workflow
       /\ invocation'[o].id = invocation[o].id

(* A handler stays behind the lookup, in the Invocation it has. *)
Stays(g) == /\ pc[g] \in Steps \ {"lookup", "register"}
            /\ local'[g].invocation = local[g].invocation
            /\ event'[g] = event[g]

(* Records that were right stay right. *)
LEMMA RecordsSettled ==
  ASSUME Settled, NEW o \in Handler, invocation[o] # Nil, NEW R \in Seq(EventRecord),
         HasRecords(o, R)
  PROVE  HasRecords(o, R)'
<1>1. ASSUME NEW j \in 1..Len(R) PROVE R[j].event \in Handler
  <2>1. R[j] \in EventRecord
    OBVIOUS
  <2> QED
    BY <2>1 DEF EventRecord
<1> QED
  BY <1>1 DEF HasRecords, Settled

(* A step that neither stores records nor registers an Invocation keeps    *)
(* them where they are.                                                    *)
LEMMA KeepRecords ==
  ASSUME IInv, RecordInv, Settled, UNCHANGED invocations,
         \A o \in Handler : invocation'[o] # Nil =>
            invocation[o] # Nil /\ invocation'[o].records = invocation[o].records,
         \A g \in Handler : pc'[g] \in Steps \ {"lookup", "register"} => Stays(g) \/ Follows(g)',
         \A g \in Handler : pc'[g] = "store" =>
            /\ Stays(g)
            /\ \/ pc[g] = "store" /\ local'[g].records = local[g].records
               \/ local'[g].records = invocation[local[g].invocation].records
  PROVE  RecordInv'
<1>1. Filed'
  BY DEF IInv, TypeOK, StoreTypeOK, StoreInv, RecordInv, Filed, Settled
<1>2. ASSUME NEW g \in Handler PROVE Follows(g)'
  BY <1>2, RunningHandler DEF RecordInv, Follows, Settled, Stays
<1>3. ASSUME NEW g \in Handler, pc'[g] = "store"
      PROVE  HasRecords(local[g].invocation, local[g].records)'
  <2>1. /\ Stays(g) /\ local[g].invocation \in Handler /\ invocation[local[g].invocation] # Nil
        /\ local[g] \in Locals /\ invocation[local[g].invocation] \in Invocation
    BY <1>3, RunningHandler DEF Stays
  <2>2. PICK R \in Seq(EventRecord) : local'[g].records = R /\ HasRecords(local[g].invocation, R)
    BY <1>3, <2>1 DEF RecordInv, Locals, Invocation
  <2>3. PICK o \in Handler : local[g].invocation = o
    BY <2>1
  <2>4. HasRecords(o, R)'
    BY <2>1, <2>2, <2>3, RecordsSettled
  <2> QED
    BY <2>1, <2>2, <2>3, <2>4 DEF Stays, HasRecords
<1>4. ASSUME NEW o \in Handler, invocation'[o] # Nil
      PROVE  HasRecords(o, invocation[o].records)'
  <2>1. PICK R \in Seq(EventRecord) :
          invocation[o] # Nil /\ invocation'[o].records = R /\ HasRecords(o, R)
    BY <1>4 DEF IInv, TypeOK, StoreTypeOK, RecordInv, Invocation
  <2>2. HasRecords(o, R)'
    BY <2>1, RecordsSettled
  <2> QED
    BY <2>1, <2>2 DEF HasRecords
<1> QED
  BY <1>1, <1>2, <1>3, <1>4 DEF RecordInv

(* The initial state satisfies it. *)
LEMMA InitRecordInv == Init => RecordInv
BY DEF Init, RecordInv, Filed, Follows, Experiment, Steps

(* The end of the process keeps records where they are. *)
LEMMA FatalRecords ==
  ASSUME IInv, RecordInv, Fatal
  PROVE  RecordInv'
<1>1. /\ invocations' = invocations /\ invocation' = invocation
      /\ event' = event /\ local' = local
  BY DEF Fatal
<1>2. ASSUME NEW g \in Handler
      PROVE  pc'[g] \notin Steps /\ (pc[g] = "done" => pc'[g] = "done")
  BY DEF Fatal, IInv, TypeOK, HandlerTypeOK, Steps
<1>3. Settled
  BY <1>1, <1>2 DEF Settled
<1>4. \A g \in Handler : pc'[g] \notin Steps \ {"lookup", "register"} /\ pc'[g] # "store"
  BY <1>2 DEF Steps
<1> QED
  BY <1>1, <1>3, <1>4, KeepRecords

(* So do the invoker's calls and the restart. *)
LEMMA ExperimentRecords ==
  ASSUME IInv, RecordInv,
         \/ Restart
         \/ \E d \in Definitions : StartExperiment(d)
         \/ \E w \in WorkflowId : DefineWorkflow(w)
         \/ EndExperiment
         \/ UNCHANGED vars
  PROVE  RecordInv'
<1>1. UNCHANGED <<invocations, invocation, pc, event, local>>
  BY DEF Restart, StartExperiment, DefineWorkflow, EndExperiment, vars, server
<1>2. Settled
  BY <1>1 DEF Settled
<1>3. \A g \in Handler : pc'[g] \in Steps \ {"lookup", "register"} => Stays(g)
  BY <1>1 DEF Stays
<1>4. \A g \in Handler : pc'[g] = "store" => Stays(g)
  BY <1>1, <1>3 DEF Steps
<1> QED
  BY <1>1, <1>2, <1>3, <1>4, KeepRecords

(* So does an event that arrives, or a handler that panics. *)
LEMMA ReceiveRecords ==
  ASSUME IInv, RecordInv, NEW h \in Handler,
         \/ Panic(h) /\ pc[h] \in Steps
         \/ \E w \in WorkflowId, i \in InvocationId, a \in Attributes : ReceiveEvent(h, w, i, a)
  PROVE  RecordInv'
<1>1. /\ pc[h] # "done" /\ pc'[h] \in {"lookup", "panicked"}
      /\ UNCHANGED <<invocations, invocation>>
      /\ \A g \in Handler \ {h} : pc'[g] = pc[g] /\ event'[g] = event[g] /\ local'[g] = local[g]
  BY DEF Panic, ReceiveEvent, server, IInv, TypeOK, HandlerTypeOK, Steps
<1>2. Settled
  BY <1>1 DEF Settled
<1>3. \A g \in Handler : pc'[g] \in Steps \ {"lookup", "register"} => Stays(g)
  BY <1>1 DEF Stays, Steps
<1>4. \A g \in Handler : pc'[g] = "store" => Stays(g) /\ pc[g] = "store" /\ local'[g] = local[g]
  BY <1>1, <1>3 DEF Steps
<1> QED
  BY <1>1, <1>2, <1>3, <1>4, KeepRecords

(* So does a step of a handler that stays in its Invocation and neither    *)
(* stores records nor registers.                                           *)
LEMMA StepRecords ==
  ASSUME IInv, RecordInv, NEW h \in Handler, NEW l \in Locals, NEW p \in Steps,
         pc[h] \in Steps \ {"lookup", "register"},
         pc' = [pc EXCEPT ![h] = p], local' = [local EXCEPT ![h] = l],
         l.invocation = local[h].invocation,
         p = "store" => l.records = invocation[local[h].invocation].records,
         UNCHANGED <<event, invocations>>,
         SameRecords
  PROVE  RecordInv'
<1>1. /\ pc'[h] = p /\ local'[h] = l
      /\ \A g \in Handler \ {h} : pc'[g] = pc[g] /\ event'[g] = event[g] /\ local'[g] = local[g]
  BY DEF IInv, TypeOK, HandlerTypeOK
<1>2. Settled
  BY <1>1 DEF Settled, Steps, SameRecords
<1>3. \A g \in Handler : pc'[g] \in Steps \ {"lookup", "register"} => Stays(g)
  BY <1>1 DEF Stays
<1>4. \A g \in Handler : pc'[g] = "store" =>
         /\ Stays(g)
         /\ \/ pc[g] = "store" /\ local'[g].records = local[g].records
            \/ local'[g].records = invocation[local[g].invocation].records
  BY <1>1, <1>3 DEF Steps
<1>5. \A o \in Handler : invocation'[o] # Nil =>
         invocation[o] # Nil /\ invocation'[o].records = invocation[o].records
  BY DEF SameRecords
<1> QED
  BY <1>2, <1>3, <1>4, <1>5, KeepRecords

(* checkCompletion and the reads of onCompletionEvent keep records where   *)
(* they are.                                                               *)
LEMMA ReadRecords ==
  ASSUME IInv, RecordInv, NEW h \in Handler,
         CheckCompletion(h) \/ RemoveRead(h) \/ CompareDuration(h) \/ AppendRead(h)
  PROVE  RecordInv'
<1>1. /\ pc[h] \in Steps \ {"lookup", "register"}
      /\ UNCHANGED <<invocations, invocation, event>>
  BY DEF CheckCompletion, RemoveRead, CompareDuration, AppendRead, Steps, server
<1>2. /\ \A g \in Handler \ {h} : pc'[g] = pc[g] /\ local'[g] = local[g]
      /\ local'[h].invocation = local[h].invocation
      /\ pc'[h] = "store" => local'[h].records = invocation[local[h].invocation].records
  <2>1. CASE CheckCompletion(h)
    <3>1. PICK p \in {"remove", "append"} : pc' = [pc EXCEPT ![h] = p]
      BY <2>1 DEF CheckCompletion
    <3>2. /\ \A g \in Handler \ {h} : pc'[g] = pc[g]
          /\ pc'[h] # "store"
      BY <3>1 DEF IInv, TypeOK, HandlerTypeOK
    <3>3. /\ \A g \in Handler \ {h} : local'[g] = local[g]
          /\ local'[h].invocation = local[h].invocation
      <4>1. CASE local' = local
        BY <4>1
      <4>2. CASE \E k : local' = [local EXCEPT ![h].descriptorIdx = k, ![h].isCompletion = TRUE]
        BY <4>2 DEF IInv, TypeOK, HandlerTypeOK, Locals
      <4> QED
        BY <2>1, <4>1, <4>2 DEF CheckCompletion
    <3> QED
      BY <3>2, <3>3
  <2>2. CASE RemoveRead(h)
    BY <2>2 DEF RemoveRead, IInv, TypeOK, HandlerTypeOK, Locals
  <2>3. CASE CompareDuration(h)
    BY <2>3 DEF CompareDuration, IInv, TypeOK, HandlerTypeOK
  <2>4. CASE AppendRead(h)
    BY <2>4 DEF AppendRead, IInv, TypeOK, HandlerTypeOK, Locals
  <2> QED
    BY <2>1, <2>2, <2>3, <2>4
<1>3. Settled
  BY <1>1, <1>2 DEF Settled, Steps
<1>4. \A g \in Handler : pc'[g] \in Steps \ {"lookup", "register"} => Stays(g)
  BY <1>1, <1>2 DEF Stays
<1>5. \A g \in Handler : pc'[g] = "store" =>
         /\ Stays(g)
         /\ \/ pc[g] = "store" /\ local'[g].records = local[g].records
            \/ local'[g].records = invocation[local[g].invocation].records
  BY <1>1, <1>2, <1>4 DEF Steps
<1> QED
  BY <1>1, <1>3, <1>4, <1>5, KeepRecords

(* So do the assignments of onCompletionEvent. *)
LEMMA WriteRecords ==
  ASSUME IInv, RecordInv, NEW h \in Handler,
         RemoveWrite(h) \/ SetDuration(h) \/ SetStatus(h)
  PROVE  RecordInv'
<1>1. pc[h] \in Steps \ {"lookup", "register"} /\ local[h] \in Locals
  BY RunningHandler DEF RemoveWrite, SetDuration, SetStatus, Steps
<1>2. PICK p \in Steps \ {"store"} : pc' = [pc EXCEPT ![h] = p]
  BY DEF RemoveWrite, SetDuration, SetStatus, Steps
<1>3. UNCHANGED <<invocations, event, local>>
  BY DEF RemoveWrite, SetDuration, SetStatus, server
<1>4. SameRecords
  BY RemoveWriteIInv, SetDurationIInv, SetStatusIInv
<1>5. /\ local' = [local EXCEPT ![h] = local[h]]
      /\ p \in Steps /\ p # "store" /\ UNCHANGED <<event, invocations>>
  BY <1>2, <1>3 DEF IInv, TypeOK, HandlerTypeOK
<1> QED
  BY <1>1, <1>2, <1>4, <1>5, StepRecords

(* The lookup finds an Invocation of the event's workflow and id. *)
LEMMA LookupRecords ==
  ASSUME IInv, RecordInv, NEW h \in Handler, LookupInvocation(h)
  PROVE  RecordInv'
<1> DEFINE found == invocations[local[h].workflow][event[h].workflow][event[h].id]
<1>1. /\ pc[h] = "lookup" /\ event[h] \in Event /\ local[h] \in Locals
      /\ local[h].workflow \in Experiment
  BY RunningHandler DEF LookupInvocation, Steps
<1>2. found # Nil => /\ invocation[found].workflow = event[h].workflow
                     /\ invocation[found].id = event[h].id
  <2>1. event[h].workflow \in WorkflowId /\ event[h].id \in InvocationId
    BY <1>1 DEF Event
  <2>2. \A x \in Experiment, w \in WorkflowId, i \in InvocationId :
          invocations[x][w][i] # Nil => /\ invocation[invocations[x][w][i]].workflow = w
                                        /\ invocation[invocations[x][w][i]].id = i
    BY DEF RecordInv, Filed
  <2>3. PICK x \in Experiment, w \in WorkflowId, i \in InvocationId :
          x = local[h].workflow /\ w = event[h].workflow /\ i = event[h].id
    BY <1>1, <2>1
  <2>4. found = invocations[x][w][i]
    BY <2>3
  <2> HIDE DEF found
  <2>5. ASSUME found # Nil PROVE invocation[found].workflow = w /\ invocation[found].id = i
    BY <2>2, <2>4, <2>5
  <2> QED
    BY <2>3, <2>5
<1>3. /\ UNCHANGED <<invocations, invocation, event>>
      /\ \A g \in Handler \ {h} : pc'[g] = pc[g] /\ local'[g] = local[g]
      /\ local'[h].invocation = found
      /\ pc'[h] = AfterLookup(found)
  BY <1>1 DEF LookupInvocation, IInv, TypeOK, HandlerTypeOK, Locals, server
<1> HIDE DEF found
<1>4. Settled
  BY <1>1, <1>3 DEF Settled
<1>5. \A g \in Handler :
         pc'[g] \in Steps \ {"lookup", "register"} => Stays(g) \/ Follows(g)'
  BY <1>2, <1>3 DEF Stays, Follows, AfterLookup
<1>6. \A g \in Handler : pc'[g] = "store" =>
         Stays(g) /\ pc[g] = "store" /\ local'[g].records = local[g].records
  BY <1>3 DEF AfterLookup, Stays, Steps
<1> QED
  BY <1>3, <1>4, <1>5, <1>6, KeepRecords

(* registerInvocation files a new Invocation, without records. *)
LEMMA RegisterRecords ==
  ASSUME IInv, RecordInv, NEW h \in Handler, RegisterInvocation(h)
  PROVE  RecordInv'
<1> DEFINE w == event[h].workflow
           i == event[h].id
           new == NewInvocation(w, i)
<1>1. /\ pc[h] = "register" /\ event[h] \in Event /\ local[h] \in Locals
      /\ w \in WorkflowId /\ i \in InvocationId /\ current \in Experiment
      /\ invocation[h] = Nil
  BY RunningHandler, ConstantsAssumption
  DEF RegisterInvocation, Steps, IInv, TypeOK, ServerTypeOK, HandlerOK, Event, Known, Experiment
<1>2. /\ invocation'[h] = new
      /\ \A o \in Handler \ {h} : invocation'[o] = invocation[o]
      /\ \A x \in Experiment, v \in WorkflowId, j \in InvocationId :
            \/ invocations'[x][v][j] = invocations[x][v][j]
            \/ x = current /\ v = w /\ j = i /\ invocations'[x][v][j] = h
      /\ \A g \in Handler \ {h} : pc'[g] = pc[g] /\ local'[g] = local[g]
      /\ local'[h].invocation = h /\ pc'[h] = "check" /\ event' = event
  BY <1>1 DEF RegisterInvocation, IInv, TypeOK, StoreTypeOK, HandlerTypeOK, Locals
<1>3. new.workflow = w /\ new.id = i /\ new.records = <<>>
  BY DEF NewInvocation
<1> HIDE DEF new, w, i
<1>4. Settled
  BY <1>1, <1>2 DEF Settled
<1>5. Filed'
  <2>1. ASSUME NEW x \in Experiment, NEW v \in WorkflowId, NEW j \in InvocationId,
               invocations'[x][v][j] # Nil
        PROVE  /\ invocation'[invocations'[x][v][j]].workflow = v
               /\ invocation'[invocations'[x][v][j]].id = j
    <3>1. CASE invocations'[x][v][j] = invocations[x][v][j]
      <4>1. /\ invocations[x][v][j] \in Handler
            /\ invocation[invocations[x][v][j]] # Nil
            /\ invocation[invocations[x][v][j]].workflow = v
            /\ invocation[invocations[x][v][j]].id = j
        BY <2>1, <3>1 DEF IInv, TypeOK, StoreTypeOK, StoreInv, RecordInv, Filed
      <4> QED
        BY <3>1, <4>1, <1>4 DEF Settled
    <3>2. CASE v = w /\ j = i /\ invocations'[x][v][j] = h
      BY <3>2, <1>2, <1>3
    <3> QED
      BY <1>2, <3>1, <3>2
  <2> QED
    BY <2>1 DEF Filed
<1>6. ASSUME NEW g \in Handler PROVE Follows(g)'
  <2>1. CASE g = h
    BY <2>1, <1>2, <1>3 DEF Follows, w, i
  <2>2. CASE g # h
    BY <2>2, <1>2, <1>4, RunningHandler DEF RecordInv, Follows, Settled
  <2> QED
    BY <2>1, <2>2
<1>7. ASSUME NEW g \in Handler, pc'[g] = "store"
      PROVE  HasRecords(local[g].invocation, local[g].records)'
  <2>1. /\ g # h /\ pc[g] = "store" /\ local'[g] = local[g]
        /\ local[g].invocation \in Handler /\ invocation[local[g].invocation] # Nil
        /\ local[g] \in Locals
    BY <1>2, <1>7, RunningHandler DEF Steps
  <2>2. PICK o \in Handler, R \in Seq(EventRecord) :
          /\ local'[g].invocation = o /\ local'[g].records = R
          /\ invocation[o] # Nil /\ HasRecords(o, R)
    BY <2>1 DEF RecordInv, Locals
  <2>3. HasRecords(o, R)'
    BY <1>4, <2>2, RecordsSettled
  <2> QED
    BY <2>2, <2>3 DEF HasRecords
<1>8. ASSUME NEW o \in Handler, invocation'[o] # Nil
      PROVE  HasRecords(o, invocation[o].records)'
  <2>1. CASE o = h
    BY <2>1, <1>2, <1>3 DEF HasRecords
  <2>2. CASE o # h
    <3>1. PICK R \in Seq(EventRecord) :
            invocation[o] # Nil /\ invocation'[o].records = R /\ HasRecords(o, R)
      BY <1>2, <1>8, <2>2 DEF IInv, TypeOK, StoreTypeOK, RecordInv, Invocation
    <3>2. HasRecords(o, R)'
      BY <1>4, <3>1, RecordsSettled
    <3> QED
      BY <3>1, <3>2 DEF HasRecords
  <2> QED
    BY <2>1, <2>2
<1> QED
  BY <1>5, <1>6, <1>7, <1>8 DEF RecordInv

(* AppendStore adds the event of a handler that had no record yet, to the  *)
(* records that were there when it read them: what others wrote since may  *)
(* be lost, but nothing is doubled or misplaced.                           *)
LEMMA AppendStoreRecords ==
  ASSUME IInv, RecordInv, NEW h \in Handler, AppendStore(h)
  PROVE  RecordInv'
<1> DEFINE o == local[h].invocation
           R == local[h].records
           r == [event |-> h, isCompletion |-> local[h].isCompletion]
<1>1. /\ pc[h] = "store" /\ local[h] \in Locals
      /\ o \in Handler /\ invocation[o] # Nil /\ invocation[o] \in Invocation
      /\ invocation[o].workflow = event[h].workflow /\ invocation[o].id = event[h].id
  BY RunningHandler DEF AppendStore, Steps, RecordInv, Follows
<1>2. R \in Seq(EventRecord) /\ HasRecords(o, R)
  BY <1>1 DEF Locals, RecordInv
<1>3. r \in EventRecord /\ r.event = h
  BY <1>1 DEF EventRecord, Locals
<1>4. /\ invocation' = [invocation EXCEPT ![o].records = Append(R, r)]
      /\ UNCHANGED <<invocations, event>>
      /\ \A g \in Handler \ {h} : pc'[g] = pc[g] /\ local'[g] = local[g]
      /\ local'[h].invocation = o /\ pc'[h] = "done"
  BY <1>1 DEF AppendStore, WithRecord, IInv, TypeOK, HandlerTypeOK, Locals, server
<1>5. /\ \A q \in Handler \ {o} : invocation'[q] = invocation[q]
      /\ invocation'[o].workflow = invocation[o].workflow
      /\ invocation'[o].id = invocation[o].id
      /\ invocation'[o].records = Append(R, r)
  BY <1>1, <1>4 DEF IInv, TypeOK, StoreTypeOK, Invocation
<1>6. invocation'[o] # Nil
  BY AppendStoreIInv
<1>7. Append(R, r) \in Seq(EventRecord) /\ Len(Append(R, r)) = Len(R) + 1
      /\ \A j \in 1..(Len(R) + 1) : Append(R, r)[j] = IF j = Len(R) + 1 THEN r ELSE R[j]
  BY <1>2, <1>3
<1> HIDE DEF o, R, r
<1>8. Settled
  BY <1>1, <1>4, <1>5, <1>6 DEF Settled
<1>9. Filed'
  BY <1>4, <1>8 DEF IInv, TypeOK, StoreTypeOK, StoreInv, RecordInv, Filed, Settled
<1>10. ASSUME NEW g \in Handler PROVE Follows(g)'
  BY <1>4, <1>8, RunningHandler DEF RecordInv, Follows, Settled, Steps
<1>11. ASSUME NEW g \in Handler, pc'[g] = "store"
       PROVE  HasRecords(local[g].invocation, local[g].records)'
  <2>1. /\ g # h /\ pc[g] = "store" /\ local'[g] = local[g]
        /\ local[g].invocation \in Handler /\ invocation[local[g].invocation] # Nil
        /\ local[g] \in Locals
    BY <1>4, <1>11, RunningHandler DEF Steps
  <2>2. PICK q \in Handler, S \in Seq(EventRecord) :
          /\ local'[g].invocation = q /\ local'[g].records = S
          /\ invocation[q] # Nil /\ HasRecords(q, S)
    BY <2>1 DEF RecordInv, Locals
  <2>3. HasRecords(q, S)'
    BY <1>8, <2>2, RecordsSettled
  <2> QED
    BY <2>2, <2>3 DEF HasRecords
<1>12. ASSUME NEW q \in Handler, invocation'[q] # Nil
       PROVE  HasRecords(q, invocation[q].records)'
  <2>1. CASE q # o
    <3>1. PICK S \in Seq(EventRecord) :
            invocation[q] # Nil /\ invocation'[q].records = S /\ HasRecords(q, S)
      BY <1>5, <1>12, <2>1 DEF IInv, TypeOK, StoreTypeOK, RecordInv, Invocation
    <3>2. HasRecords(q, S)'
      BY <1>8, <3>1, RecordsSettled
    <3> QED
      BY <3>1, <3>2 DEF HasRecords
  <2>2. CASE q = o
    <3>1. PICK p \in Handler, S \in Seq(EventRecord) : p = o /\ S = R
      BY <1>1, <1>2
    <3>2. HasRecords(p, S) /\ HasRecords(p, S)'
      BY <1>1, <1>2, <1>8, <3>1, RecordsSettled
    <3>3. \A j \in 1..Len(S) : S[j].event # h
      BY <1>1, <3>2 DEF HasRecords
    <3> DEFINE T == Append(R, r)
    <3>4. /\ Len(T) = Len(S) + 1 /\ Len(S) \in Nat
          /\ \A j \in 1..Len(S) : T[j] = S[j]
          /\ T[Len(S) + 1].event = h
      BY <1>3, <1>7, <3>1
    <3> HIDE DEF T
    <3>5. /\ \A j \in 1..Len(T) : /\ pc'[T[j].event] = "done"
                                  /\ local'[T[j].event].invocation = o
                                  /\ event'[T[j].event].workflow = invocation'[o].workflow
                                  /\ event'[T[j].event].id = invocation'[o].id
      <4>1. ASSUME NEW j \in 1..Len(S)
            PROVE  /\ pc'[T[j].event] = "done"
                   /\ local'[T[j].event].invocation = o
                   /\ event'[T[j].event].workflow = invocation'[o].workflow
                   /\ event'[T[j].event].id = invocation'[o].id
        BY <3>1, <3>2, <3>4 DEF HasRecords
      <4>2. /\ pc'[h] = "done" /\ local'[h].invocation = o
            /\ event'[h].workflow = invocation'[o].workflow
            /\ event'[h].id = invocation'[o].id
        BY <1>1, <1>4, <1>5
      <4>3. \A j \in 1..Len(T) : j \in 1..Len(S) \/ j = Len(S) + 1
        BY <3>4
      <4> QED
        BY <3>4, <4>1, <4>2, <4>3
    <3>6. \A j, k \in 1..Len(T) : T[j].event = T[k].event => j = k
      <4>1. \A j, k \in 1..Len(S) : S[j].event = S[k].event => j = k
        BY <3>2 DEF HasRecords
      <4>2. \A j \in 1..Len(T) : j \in 1..Len(S) \/ j = Len(S) + 1
        BY <3>4
      <4> QED
        BY <3>3, <3>4, <4>1, <4>2
    <3>7. invocation'[q].records = T
      BY <1>5, <2>2 DEF T
    <3> QED
      BY <2>2, <3>5, <3>6, <3>7 DEF HasRecords
  <2> QED
    BY <2>1, <2>2
<1> QED
  BY <1>9, <1>10, <1>11, <1>12 DEF RecordInv

(* The inductive step. *)
LEMMA NextRecordInv == IInv /\ RecordInv /\ [Next]_vars => RecordInv'
<1> SUFFICES ASSUME IInv, RecordInv, [Next]_vars PROVE RecordInv'
  OBVIOUS
<1>1. CASE \/ Restart
           \/ \E d \in Definitions : StartExperiment(d)
           \/ \E w \in WorkflowId : DefineWorkflow(w)
           \/ EndExperiment
           \/ UNCHANGED vars
  BY <1>1, ExperimentRecords
<1>2. CASE \E h \in Handler, w \in WorkflowId, i \in InvocationId, a \in Attributes :
             ReceiveEvent(h, w, i, a)
  BY <1>2, ReceiveRecords
<1>3. CASE \/ \E h \in Handler, w \in WorkflowId, a \in Attributes \cup {Malformed} :
                RejectEvent(h, w, a)
           \/ \E h \in Handler : MapFault(h)
  BY <1>3, FatalRecords DEF RejectEvent, MapFault
<1>4. ASSUME NEW h \in Handler, Handle(h) PROVE RecordInv'
  <2>1. CASE RegisterPanics(h) \/ CheckPanics(h) \/ RemovePanics(h)
    BY <2>1, ReceiveRecords DEF RegisterPanics, CheckPanics, RemovePanics, Steps
  <2> QED
    BY <1>4, <2>1, LookupRecords, RegisterRecords, ReadRecords, WriteRecords, AppendStoreRecords
    DEF Handle
<1> QED
  BY <1>1, <1>2, <1>3, <1>4 DEF Next

(* Overlapping handlers may lose a record, but an event is never recorded  *)
(* twice, in two Invocations, or in one of another workflow or id.         *)
THEOREM EventsRecordedOnce == Spec => []RecordedOnce
<1>1. IInv /\ RecordInv => RecordedOnce
  <2> SUFFICES ASSUME IInv, RecordInv PROVE RecordedOnce
    OBVIOUS
  <2>1. ASSUME NEW o \in Allocated, NEW h \in Recorded(o)
        PROVE  /\ local[h].invocation = o
               /\ event[h].workflow = invocation[o].workflow
               /\ event[h].id = invocation[o].id
    BY <2>1 DEF RecordInv, HasRecords, Allocated, Recorded
  <2>2. \A o \in Allocated : \A j, k \in 1..Len(invocation[o].records) :
          invocation[o].records[j].event = invocation[o].records[k].event => j = k
    BY DEF RecordInv, HasRecords, Allocated
  <2>3. \A o, p \in Allocated : o # p => Recorded(o) \cap Recorded(p) = {}
    BY <2>1
  <2> QED
    BY <2>1, <2>2, <2>3 DEF RecordedOnce
<1> QED
  BY InitIInv, NextIInv, InitRecordInv, NextRecordInv, <1>1, PTL DEF Spec

-------------------------------------------------------------------------------
(***************************************************************************)
(* Why a reported invocation has earned its completion (CompletedIsEarned).*)
(* A slice that some handler has stored is shorter by one than one it read *)
(* before, however stale that was: with one for each handler that has      *)
(* taken a descriptor from it, it is never shorter than the workflow's.    *)
HasTarget == {h \in Handler : local[h].target # Nil}
Shrunk(o) == {h \in HasTarget : local[h].target = o /\ pc[h] # "shrink"}
Template(o) == Len(workflows[invocation[o].experiment][invocation[o].workflow])

(* What a handler knows of the Invocation that it takes a descriptor from. *)
Targeted(h) ==
  /\ pc[h] \in {"idle", "lookup", "register", "check", "remove"} => local[h].target = Nil
  /\ local[h].target # Nil =>
       LET t == local[h].target IN
       /\ t \in Handler /\ invocation[t] # Nil
       /\ invocation[t].workflow = event[h].workflow
       /\ invocation[t].id = event[h].id
  /\ pc[h] \in {"shrink", "compare", "duration", "status"} =>
       /\ local[h].target # Nil
       /\ invocation[local[h].invocation].experiment <= invocation[local[h].target].experiment
  /\ pc[h] = "shrink" =>
       local[h].len + Cardinality(Shrunk(local[h].target)) >= Template(local[h].target)

(* An Invocation belongs to an experiment that has its workflow. *)
Dated(o) ==
  /\ invocation[o].experiment <= created
  /\ invocation[o].workflow \in DOMAIN workflows[invocation[o].experiment]

Earned(o) ==
  invocation[o].experiment = current /\ invocation[o].status = "COMPLETED" =>
    Cardinality(Takers(current, invocation[o].workflow, invocation[o].id)) >= Template(o)

(* Where StartExperiment is: the map in use is the last one made, later    *)
(* ones are empty, and no workflow is installed twice.                     *)
Installing ==
  /\ current \in {0, created}
  /\ \A x \in Experiment : x > created => DOMAIN workflows[x] = {}
  /\ \A w \in DOMAIN toDefine : w \notin DOMAIN workflows[current]

InItsMap ==
  \A x \in Experiment, w \in WorkflowId, i \in InvocationId :
    invocations[x][w][i] # Nil => invocation[invocations[x][w][i]].experiment = x

EarnedInv ==
  /\ IsFiniteSet(HasTarget)
  /\ Installing /\ InItsMap
  /\ \A h \in Handler : Targeted(h)
  /\ \A o \in Allocated : /\ Dated(o) /\ Earned(o)
                          /\ invocation[o].len + Cardinality(Shrunk(o)) >= Template(o)

(* The initial state satisfies it. *)
LEMMA InitEarnedInv == Init => EarnedInv
<1> SUFFICES ASSUME Init PROVE EarnedInv
  OBVIOUS
<1>1. HasTarget = {} /\ Allocated = {}
  BY DEF Init, HasTarget, Allocated, NoLocals
<1>2. IsFiniteSet(HasTarget)
  BY <1>1, FS_EmptySet
<1>3. Installing /\ InItsMap
  BY DEF Init, Installing, InItsMap, Experiment, Empty
<1>4. \A h \in Handler : Targeted(h)
  BY DEF Init, Targeted, NoLocals
<1> QED
  BY <1>1, <1>2, <1>3, <1>4 DEF EarnedInv

(* No step changes whose Invocation an Invocation is, or the descriptors   *)
(* of its workflow; and a handler keeps what it took.                      *)
Lasting ==
  /\ \A o \in Allocated :
       /\ invocation'[o] # Nil
       /\ invocation'[o].workflow = invocation[o].workflow
       /\ invocation'[o].id = invocation[o].id
       /\ invocation'[o].experiment = invocation[o].experiment
       /\ Template(o)' = Template(o)
  /\ \A g \in HasTarget :
       /\ local'[g].target = local[g].target
       /\ event'[g] = event[g]
       /\ pc[g] # "shrink" => pc'[g] # "shrink"

(* So the handlers that took a descriptor become no fewer. *)
LEMMA TakersLast ==
  ASSUME EarnedInv, Lasting, IsFiniteSet(HasTarget')
  PROVE  /\ \A o : /\ Cardinality(Shrunk(o)') >= Cardinality(Shrunk(o))
                   /\ Cardinality(Shrunk(o)') \in Nat /\ Cardinality(Shrunk(o)) \in Nat
                   /\ IsFiniteSet(Shrunk(o)') /\ IsFiniteSet(Shrunk(o))
         /\ \A x, w, i : /\ Cardinality(Takers(x, w, i)') >= Cardinality(Takers(x, w, i))
                         /\ Cardinality(Takers(x, w, i)') \in Nat
                         /\ Cardinality(Takers(x, w, i)) \in Nat
                         /\ IsFiniteSet(Takers(x, w, i)')
<1>1. PICK H : H = HasTarget'
  OBVIOUS
<1>2. ASSUME NEW S, NEW T, S \subseteq T, T \subseteq H
      PROVE  /\ Cardinality(T) >= Cardinality(S) /\ Cardinality(T) \in Nat /\ Cardinality(S) \in Nat
             /\ IsFiniteSet(T) /\ IsFiniteSet(S)
  <2>1. IsFiniteSet(T)
    BY <1>1, <1>2, FS_Subset
  <2>2. IsFiniteSet(S) /\ Cardinality(S) <= Cardinality(T)
    BY <1>2, <2>1, FS_Subset
  <2> QED
    BY <2>1, <2>2, FS_CardinalityType
<1>3. ASSUME NEW o PROVE Shrunk(o) \subseteq Shrunk(o)' /\ Shrunk(o)' \subseteq H
  BY <1>1 DEF Lasting, Shrunk, HasTarget
<1>4. ASSUME NEW x, NEW w, NEW i
      PROVE  Takers(x, w, i) \subseteq Takers(x, w, i)' /\ Takers(x, w, i)' \subseteq H
  <2>1. ASSUME NEW g \in Takers(x, w, i) PROVE g \in Takers(x, w, i)'
    <3>1. g \in HasTarget /\ g \in Handler /\ local[g].target \in Allocated
      BY <2>1 DEF Takers, HasTarget, EarnedInv, Targeted, Allocated
    <3> QED
      BY <2>1, <3>1 DEF Lasting, Takers
  <2> QED
    BY <1>1, <2>1 DEF Takers, HasTarget
<1>5. ASSUME NEW o
      PROVE  /\ Cardinality(Shrunk(o)') >= Cardinality(Shrunk(o))
             /\ Cardinality(Shrunk(o)') \in Nat /\ Cardinality(Shrunk(o)) \in Nat
             /\ IsFiniteSet(Shrunk(o)') /\ IsFiniteSet(Shrunk(o))
  <2>1. PICK T : T = Shrunk(o)'
    OBVIOUS
  <2> QED
    BY <1>2, <1>3, <2>1
<1>6. ASSUME NEW x, NEW w, NEW i
      PROVE  /\ Cardinality(Takers(x, w, i)') >= Cardinality(Takers(x, w, i))
             /\ Cardinality(Takers(x, w, i)') \in Nat /\ Cardinality(Takers(x, w, i)) \in Nat
             /\ IsFiniteSet(Takers(x, w, i)')
  <2>1. PICK T : T = Takers(x, w, i)'
    OBVIOUS
  <2> QED
    BY <1>2, <1>4, <2>1
<1> QED
  BY <1>5, <1>6

(* The numbers that are compared. *)
LEMMA TemplateNat ==
  ASSUME IInv, NEW o \in Allocated, Dated(o)
  PROVE  Template(o) \in Nat /\ invocation[o].len \in Nat /\ invocation[o].experiment \in Experiment
<1>1. PICK v \in Invocation : v = invocation[o]
  BY DEF IInv, TypeOK, StoreTypeOK, Allocated
<1>2. v.experiment \in Experiment /\ v.len \in Nat
  BY DEF Invocation
<1>3. workflows[v.experiment][v.workflow] \in Seq(Matcher)
  BY <1>1, <1>2 DEF IInv, TypeOK, ServerTypeOK, Dated
<1>4. Len(workflows[v.experiment][v.workflow]) \in Nat
  BY <1>3
<1> QED
  BY <1>1, <1>2, <1>4 DEF Template

Early == {"idle", "lookup", "register", "check", "remove"}
Taking == {"shrink", "compare", "duration", "status"}

(* An Invocation whose slice a step leaves alone, and whose status too or  *)
(* whose experiment is not the running one.                                *)
LEMMA EarnedObject ==
  ASSUME IInv, EarnedInv, Lasting, IsFiniteSet(HasTarget'), NEW o \in Allocated,
         created <= created', created' \in Nat,
         \A x \in Experiment : DOMAIN workflows[x] \subseteq DOMAIN workflows'[x]
  PROVE  /\ Dated(o)'
         /\ \/ current' = current /\ invocation'[o].status = invocation[o].status
            \/ invocation'[o].experiment # current'
            => Earned(o)'
         /\ invocation'[o].len = invocation[o].len =>
              invocation'[o].len + Cardinality(Shrunk(o)') >= Template(o)'
<1>1. /\ Template(o)' = Template(o)
      /\ invocation'[o].workflow = invocation[o].workflow
      /\ invocation'[o].id = invocation[o].id
      /\ invocation'[o].experiment = invocation[o].experiment
  BY DEF Lasting
<1>2. Dated(o) /\ Earned(o) /\ invocation[o].len + Cardinality(Shrunk(o)) >= Template(o)
  BY DEF EarnedInv
<1>3. Template(o) \in Nat /\ invocation[o].len \in Nat /\ invocation[o].experiment \in Experiment
  BY <1>2, TemplateNat
<1>4. Dated(o)'
  <2>1. created \in Nat /\ created \in 0..MaxExperiments
    BY DEF IInv, TypeOK, ServerTypeOK
  <2> QED
    BY <1>1, <1>2, <1>3, <2>1 DEF Dated, Experiment
<1>5. /\ Cardinality(Shrunk(o)') >= Cardinality(Shrunk(o))
      /\ Cardinality(Shrunk(o)') \in Nat /\ Cardinality(Shrunk(o)) \in Nat
  BY TakersLast
<1>6. ASSUME current' = current /\ invocation'[o].status = invocation[o].status
      PROVE  Earned(o)'
  <2>1. PICK x, w, i : x = current /\ w = invocation[o].workflow /\ i = invocation[o].id
    OBVIOUS
  <2>2. /\ Cardinality(Takers(x, w, i)') >= Cardinality(Takers(x, w, i))
        /\ Cardinality(Takers(x, w, i)') \in Nat /\ Cardinality(Takers(x, w, i)) \in Nat
    BY TakersLast
  <2>3. Cardinality(Takers(current, invocation[o].workflow, invocation[o].id))'
          = Cardinality(Takers(x, w, i)')
    BY <1>1, <1>6, <2>1
  <2>4. SUFFICES ASSUME invocation'[o].experiment = current', invocation'[o].status = "COMPLETED"
                 PROVE  Cardinality(Takers(x, w, i)') >= Template(o)'
    BY <2>3 DEF Earned
  <2>5. Cardinality(Takers(x, w, i)) >= Template(o)
    BY <1>1, <1>2, <1>6, <2>1, <2>4 DEF Earned
  <2> QED
    BY <1>1, <1>3, <2>2, <2>5
<1>7. ASSUME invocation'[o].experiment # current' PROVE Earned(o)'
  BY <1>7 DEF Earned
<1>8. ASSUME invocation'[o].len = invocation[o].len
      PROVE  invocation'[o].len + Cardinality(Shrunk(o)') >= Template(o)'
  BY <1>1, <1>2, <1>3, <1>5, <1>8
<1> QED
  BY <1>4, <1>6, <1>7, <1>8

(* A handler that does not read the slice of another Invocation.           *)
LEMMA EarnedHandler ==
  ASSUME IInv, EarnedInv, Lasting, IsFiniteSet(HasTarget'), NEW g \in Handler,
         local'[g].target = local[g].target,
         event'[g] = event[g] \/ pc[g] = "idle",
         pc'[g] \in Early => pc[g] \in Early,
         pc'[g] \in Taking => pc[g] \in Taking /\ local'[g].invocation = local[g].invocation,
         pc'[g] = "shrink" => pc[g] = "shrink" /\ local'[g].len = local[g].len
  PROVE  Targeted(g)'
<1>1. Targeted(g)
  BY DEF EarnedInv
<1>2. pc'[g] \in Early => local'[g].target = Nil
  BY <1>1 DEF Targeted, Early
<1>3. ASSUME local'[g].target # Nil, NEW t, t = local'[g].target
      PROVE  /\ t \in Handler /\ invocation'[t] # Nil
             /\ invocation'[t].workflow = event'[g].workflow
             /\ invocation'[t].id = event'[g].id
  <2>1. event'[g] = event[g]
    BY <1>1, <1>3 DEF Targeted
  <2>2. t \in Allocated
    BY <1>1, <1>3 DEF Targeted, Allocated
  <2> QED
    BY <1>1, <1>3, <2>1, <2>2 DEF Lasting, Targeted, Allocated
<1>4. ASSUME pc'[g] \in Taking
      PROVE  /\ local'[g].target # Nil
             /\ invocation'[local'[g].invocation].experiment
                  <= invocation'[local'[g].target].experiment
  <2>1. pc[g] \in Taking /\ local[g].invocation \in Allocated
    BY <1>4 DEF Taking, IInv, HandlerOK, Steps, Allocated
  <2>2. local[g].target \in Allocated
    BY <1>1, <2>1 DEF Targeted, Taking, Allocated
  <2>3. /\ invocation'[local[g].invocation].experiment = invocation[local[g].invocation].experiment
        /\ invocation'[local[g].target].experiment = invocation[local[g].target].experiment
    BY <2>1, <2>2 DEF Lasting
  <2> QED
    BY <1>1, <1>4, <2>1, <2>3 DEF Targeted, Taking
<1>5. ASSUME pc'[g] = "shrink"
      PROVE  local'[g].len + Cardinality(Shrunk(local[g].target)') >= Template(local[g].target)'
  <2>1. PICK t \in Allocated : t = local[g].target
    BY <1>1, <1>5 DEF Targeted, Allocated
  <2>2. /\ Cardinality(Shrunk(t)') >= Cardinality(Shrunk(t))
        /\ Cardinality(Shrunk(t)') \in Nat /\ Cardinality(Shrunk(t)) \in Nat
    BY TakersLast
  <2>3. Template(t) \in Nat /\ local[g].len \in Nat
    BY TemplateNat DEF EarnedInv, IInv, TypeOK, HandlerTypeOK, Locals
  <2>4. local[g].len + Cardinality(Shrunk(t)) >= Template(t)
    BY <1>1, <1>5, <2>1 DEF Targeted
  <2>5. Template(t)' = Template(t)
    BY DEF Lasting
  <2>6. local'[g].len + Cardinality(Shrunk(t)') >= Template(t)'
    BY <1>5, <2>2, <2>3, <2>4, <2>5
  <2> QED
    BY <2>1, <2>6
<1> QED
  BY <1>2, <1>3, <1>4, <1>5 DEF Targeted, Early, Taking

(* A step that takes no descriptor, allocates nothing and completes        *)
(* nothing.                                                                *)
LEMMA EarnedFrame ==
  ASSUME IInv, EarnedInv, Lasting, Installing',
         created <= created', created' \in Nat, invocations' = invocations,
         \A x \in Experiment : DOMAIN workflows[x] \subseteq DOMAIN workflows'[x],
         \A o \in Handler : invocation[o] = Nil => invocation'[o] = Nil,
         \A o \in Allocated :
            /\ invocation'[o].len = invocation[o].len
            /\ \/ current' = current /\ invocation'[o].status = invocation[o].status
               \/ invocation'[o].experiment # current',
         \A g \in Handler :
            /\ local'[g].target = local[g].target
            /\ event'[g] = event[g] \/ pc[g] = "idle"
            /\ pc'[g] \in Early => pc[g] \in Early
            /\ pc'[g] \in Taking => pc[g] \in Taking /\ local'[g].invocation = local[g].invocation
            /\ pc'[g] = "shrink" => pc[g] = "shrink" /\ local'[g].len = local[g].len
  PROVE  EarnedInv'
<1>1. HasTarget' = HasTarget /\ Allocated' = Allocated
  BY DEF HasTarget, Allocated, Lasting
<1>2. IsFiniteSet(HasTarget')
  BY <1>1 DEF EarnedInv
<1>3. InItsMap'
  <2>1. ASSUME NEW x \in Experiment, NEW w \in WorkflowId, NEW i \in InvocationId,
               invocations[x][w][i] # Nil
        PROVE  invocation'[invocations[x][w][i]].experiment = x
    <3>1. PICK o \in Allocated : o = invocations[x][w][i]
      BY <2>1 DEF IInv, TypeOK, StoreTypeOK, StoreInv, Allocated
    <3> QED
      BY <2>1, <3>1 DEF EarnedInv, InItsMap, Lasting
  <2> QED
    BY <2>1 DEF InItsMap
<1>4. ASSUME NEW o \in Allocated
      PROVE  /\ Dated(o)' /\ Earned(o)'
             /\ invocation'[o].len + Cardinality(Shrunk(o)') >= Template(o)'
  BY <1>2, EarnedObject
<1>5. \A g \in Handler : Targeted(g)'
  BY <1>2, EarnedHandler
<1> QED
  BY <1>1, <1>2, <1>3, <1>4, <1>5 DEF EarnedInv

(* A step of a handler that takes no descriptor and allocates nothing.     *)
LEMMA QuietEarned ==
  ASSUME IInv, EarnedInv, UNCHANGED <<current, created, toDefine, workflows, invocations>>,
         \A o \in Handler :
            IF invocation[o] = Nil THEN invocation'[o] = Nil
            ELSE /\ invocation'[o] # Nil
                 /\ invocation'[o].workflow = invocation[o].workflow
                 /\ invocation'[o].id = invocation[o].id
                 /\ invocation'[o].experiment = invocation[o].experiment
                 /\ invocation'[o].len = invocation[o].len
                 /\ invocation'[o].status = invocation[o].status,
         \A g \in Handler :
            /\ local'[g].target = local[g].target
            /\ event'[g] = event[g] \/ pc[g] = "idle"
            /\ pc'[g] \in Early => pc[g] \in Early
            /\ pc'[g] \in Taking => pc[g] \in Taking /\ local'[g].invocation = local[g].invocation
            /\ pc'[g] = "shrink" => pc[g] = "shrink" /\ local'[g].len = local[g].len
  PROVE  EarnedInv'
<1>1. \A o \in Allocated : Template(o)' = Template(o)
  BY DEF Template, Allocated
<1>2. \A g \in HasTarget : event'[g] = event[g]
  BY DEF HasTarget, EarnedInv, Targeted
<1>3. Lasting
  BY <1>1, <1>2 DEF Lasting, Allocated, HasTarget
<1>4. Installing'
  BY DEF EarnedInv, Installing
<1>5. created' \in Nat /\ created <= created'
  BY DEF IInv, TypeOK, ServerTypeOK
<1> QED
  BY <1>3, <1>4, <1>5, EarnedFrame DEF Allocated

(* The handlers' steps that it is about. *)
LEMMA HandlersEarned ==
  ASSUME IInv, EarnedInv, NEW h \in Handler,
         \/ LookupInvocation(h) \/ CheckCompletion(h) \/ CompareDuration(h) \/ SetDuration(h)
         \/ AppendRead(h) \/ AppendStore(h)
         \/ RegisterPanics(h) \/ CheckPanics(h) \/ RemovePanics(h)
  PROVE  EarnedInv'
<1>1. /\ local \in [Handler -> Locals] /\ pc \in [Handler -> Steps \cup {"idle", "done", "panicked", "killed"}]
      /\ invocation \in [Handler -> Invocation \cup {Nil}]
  BY DEF IInv, TypeOK, HandlerTypeOK, StoreTypeOK
<1>2. CASE LookupInvocation(h)
  <2>1. pc' = [pc EXCEPT ![h] = pc'[h]] /\ pc'[h] \in {"register", "check"} /\ pc[h] = "lookup"
    BY <1>1, <1>2 DEF LookupInvocation, AfterLookup
  <2>2. \A g \in Handler : local'[g].target = local[g].target /\ (g # h => local'[g] = local[g])
    BY <1>1, <1>2 DEF LookupInvocation, Locals
  <2>3. UNCHANGED <<server, invocation, event>>
    BY <1>2 DEF LookupInvocation
  <2> QED
    BY <1>1, <2>1, <2>2, <2>3, QuietEarned DEF server, Early, Taking
<1>3. CASE CheckCompletion(h)
  <2>1. pc' = [pc EXCEPT ![h] = pc'[h]] /\ pc'[h] \in {"remove", "append"} /\ pc[h] = "check"
    BY <1>1, <1>3 DEF CheckCompletion
  <2>2. \A g \in Handler : local'[g].target = local[g].target /\ (g # h => local'[g] = local[g])
    <3>1. CASE local' = local
      BY <3>1
    <3>2. ASSUME NEW k, local' = [local EXCEPT ![h].descriptorIdx = k, ![h].isCompletion = TRUE]
          PROVE  \A g \in Handler : local'[g].target = local[g].target /\ (g # h => local'[g] = local[g])
      BY <1>1, <3>2 DEF Locals
    <3> QED
      BY <1>3, <3>1, <3>2 DEF CheckCompletion
  <2> QED
    BY <1>1, <1>3, <2>1, <2>2, QuietEarned DEF CheckCompletion, server, Early, Taking
<1>4. CASE CompareDuration(h)
  <2>1. pc' = [pc EXCEPT ![h] = pc'[h]] /\ pc'[h] \in {"duration", "status"} /\ pc[h] = "compare"
    BY <1>1, <1>4 DEF CompareDuration
  <2> QED
    BY <1>1, <1>4, <2>1, QuietEarned DEF CompareDuration, server, Early, Taking
<1>5. CASE SetDuration(h)
  <2>1. pc' = [pc EXCEPT ![h] = "status"] /\ pc[h] = "duration" /\ UNCHANGED <<event, local>>
    BY <1>5 DEF SetDuration
  <2>2. \A o \in Handler :
            IF invocation[o] = Nil THEN invocation'[o] = Nil
            ELSE /\ invocation'[o] # Nil
                 /\ invocation'[o].workflow = invocation[o].workflow
                 /\ invocation'[o].id = invocation[o].id
                 /\ invocation'[o].experiment = invocation[o].experiment
                 /\ invocation'[o].len = invocation[o].len
                 /\ invocation'[o].status = invocation[o].status
    <3>1. PICK p \in Handler : p = local[h].invocation /\ invocation[p] # Nil
      BY <2>1 DEF IInv, HandlerOK, Steps
    <3>2. PICK v \in Invocation : v = invocation[p]
      BY <1>1, <3>1
    <3>3. PICK new : new = [v EXCEPT !.duration = SinceInvocation(h)]
      OBVIOUS
    <3>4. /\ new.workflow = v.workflow /\ new.id = v.id /\ new.experiment = v.experiment
          /\ new.len = v.len /\ new.status = v.status
      BY <3>3 DEF Invocation
    <3>5. invocation' = [invocation EXCEPT ![p] = new]
      BY <1>5, <3>1, <3>2, <3>3 DEF SetDuration
    <3>6. invocation'[p] = new /\ \A o \in Handler : o # p => invocation'[o] = invocation[o]
      BY <1>1, <3>5
    <3>7. new # Nil
      BY <3>1, <3>6, <1>5, SetDurationIInv, ConstantsAssumption DEF IInv, HandlerOK, SameRecords
    <3> QED
      BY <3>1, <3>2, <3>4, <3>6, <3>7
  <2> QED
    BY <1>1, <1>5, <2>1, <2>2, QuietEarned DEF SetDuration, server, Early, Taking
<1>6. CASE AppendRead(h)
  <2>1. pc' = [pc EXCEPT ![h] = "store"] /\ pc[h] = "append"
    BY <1>6 DEF AppendRead
  <2>2. \A g \in Handler : local'[g].target = local[g].target /\ (g # h => local'[g] = local[g])
    BY <1>1, <1>6 DEF AppendRead
  <2> QED
    BY <1>1, <1>6, <2>1, <2>2, QuietEarned DEF AppendRead, server, Early, Taking
<1>7. CASE AppendStore(h)
  <2>1. pc' = [pc EXCEPT ![h] = "done"] /\ pc[h] = "store" /\ UNCHANGED event
    BY <1>7 DEF AppendStore
  <2>2. \A g \in Handler : local'[g].target = local[g].target /\ (g # h => local'[g] = local[g])
    BY <1>1, <1>7 DEF AppendStore
  <2>3. \A o \in Handler :
            IF invocation[o] = Nil THEN invocation'[o] = Nil
            ELSE /\ invocation'[o] # Nil
                 /\ invocation'[o].workflow = invocation[o].workflow
                 /\ invocation'[o].id = invocation[o].id
                 /\ invocation'[o].experiment = invocation[o].experiment
                 /\ invocation'[o].len = invocation[o].len
                 /\ invocation'[o].status = invocation[o].status
    <3>1. PICK p \in Handler : p = local[h].invocation /\ invocation[p] # Nil
      BY <2>1 DEF IInv, HandlerOK, Steps
    <3>2. PICK v \in Invocation : v = invocation[p]
      BY <1>1, <3>1
    <3>3. PICK new : new = [v EXCEPT !.records = WithRecord(h)]
      OBVIOUS
    <3>4. /\ new.workflow = v.workflow /\ new.id = v.id /\ new.experiment = v.experiment
          /\ new.len = v.len /\ new.status = v.status
      BY <3>3 DEF Invocation
    <3>5. invocation' = [invocation EXCEPT ![p] = new]
      BY <1>7, <3>1, <3>2, <3>3 DEF AppendStore
    <3>6. invocation'[p] = new /\ \A o \in Handler : o # p => invocation'[o] = invocation[o]
      BY <1>1, <3>5
    <3>7. new # Nil
      BY <3>1, <3>6, <1>7, AppendStoreIInv
    <3> QED
      BY <3>1, <3>2, <3>4, <3>6, <3>7
  <2> QED
    BY <1>1, <1>7, <2>1, <2>2, <2>3, QuietEarned DEF AppendStore, server, Early, Taking
<1>8. CASE RegisterPanics(h) \/ CheckPanics(h) \/ RemovePanics(h)
  <2>1. Panic(h)
    BY <1>8 DEF RegisterPanics, CheckPanics, RemovePanics
  <2> QED
    BY <1>1, <2>1, QuietEarned DEF Panic, server, Early, Taking
<1> QED
  BY <1>2, <1>3, <1>4, <1>5, <1>6, <1>7, <1>8

(* The end of the process, the invoker's calls and arrivals. *)
LEMMA ExperimentEarned ==
  ASSUME IInv, EarnedInv,
         \/ Fatal \/ Restart \/ EndExperiment \/ UNCHANGED vars
         \/ \E d \in Definitions : StartExperiment(d)
         \/ \E w \in WorkflowId : DefineWorkflow(w)
         \/ \E h \in Handler, w \in WorkflowId, i \in InvocationId, a \in Attributes :
              ReceiveEvent(h, w, i, a)
  PROVE  EarnedInv'
<1>1. /\ local \in [Handler -> Locals] /\ pc \in [Handler -> Steps \cup {"idle", "done", "panicked", "killed"}]
      /\ created \in Nat /\ created \in 0..MaxExperiments /\ current \in 0..created
      /\ DOMAIN workflows = Experiment
  BY DEF IInv, TypeOK, HandlerTypeOK, ServerTypeOK
<1>2. \A o \in Allocated : Dated(o) /\ invocation[o].experiment \in Experiment
  BY TemplateNat DEF EarnedInv
<1>3. CASE Fatal
  <2>1. /\ \A o \in Allocated : Template(o)' = Template(o)
        /\ \A g \in Handler : pc'[g] = pc[g] \/ pc'[g] = "killed"
        /\ UNCHANGED <<created, workflows, invocations, invocation, local, event>>
        /\ current' = 0 /\ toDefine' = Empty
    BY <1>1, <1>3 DEF Fatal, Template
  <2>2. Lasting
    BY <2>1 DEF Lasting, Allocated, HasTarget
  <2>3. Installing'
    BY <2>1 DEF EarnedInv, Installing, Empty
  <2>4. \A o \in Allocated : invocation'[o].experiment # current'
    BY <1>2, <2>1 DEF Experiment
  <2>5. \A g \in Handler :
            /\ pc'[g] \in Early => pc[g] \in Early
            /\ pc'[g] \in Taking => pc[g] \in Taking
            /\ pc'[g] = "shrink" => pc[g] = "shrink"
    BY <2>1 DEF Early, Taking
  <2> QED
    BY <1>1, <2>1, <2>2, <2>3, <2>4, <2>5, EarnedFrame
<1>4. CASE Restart \/ EndExperiment \/ UNCHANGED vars
  BY <1>4, QuietEarned DEF Restart, EndExperiment, vars, server
<1>5. ASSUME NEW d \in Definitions, StartExperiment(d) PROVE EarnedInv'
  <2>1. /\ UNCHANGED <<workflows, invocations, invocation, local, event, pc>>
        /\ created < MaxExperiments
        /\ created' = created + 1 /\ current' = created + 1 /\ toDefine' = d
    BY <1>5 DEF StartExperiment
  <2>2. Lasting
    BY <2>1 DEF Lasting, Allocated, Template
  <2>3. created' \in Experiment /\ created' > created /\ created' \in Nat
    BY <1>1, <2>1, ConstantsAssumption DEF Experiment
  <2>4. Installing'
    BY <1>1, <2>1, <2>3 DEF EarnedInv, Installing, Experiment
  <2>5. \A o \in Allocated : invocation'[o].experiment # current'
    BY <1>1, <1>2, <2>1 DEF Dated, Experiment
  <2> QED
    BY <1>1, <2>1, <2>2, <2>3, <2>4, <2>5, EarnedFrame
<1>6. ASSUME NEW w \in WorkflowId, DefineWorkflow(w) PROVE EarnedInv'
  <2>1. /\ UNCHANGED <<current, created, invocations, invocation, local, event, pc>>
        /\ w \in DOMAIN toDefine
        /\ workflows' = [workflows EXCEPT ![current] =
                           [v \in DOMAIN @ \cup {w} |-> IF v = w THEN toDefine[w] ELSE @[v]]]
        /\ toDefine' = [v \in DOMAIN toDefine \ {w} |-> toDefine[v]]
    BY <1>6 DEF DefineWorkflow
  <2>2. current \in Experiment /\ w \notin DOMAIN workflows[current]
    BY <1>1, <2>1 DEF EarnedInv, Installing, IInv, TypeOK, ServerTypeOK, Empty, Experiment
  <2>3. /\ \A x \in Experiment : x # current => workflows'[x] = workflows[x]
        /\ DOMAIN workflows'[current] = DOMAIN workflows[current] \cup {w}
        /\ \A v \in DOMAIN workflows[current] : workflows'[current][v] = workflows[current][v]
        /\ DOMAIN workflows' = Experiment
    BY <1>1, <2>1, <2>2
  <2>4. ASSUME NEW o \in Allocated PROVE Template(o)' = Template(o)
    <3>1. PICK x, v : /\ x = invocation[o].experiment /\ v = invocation[o].workflow
                      /\ x \in Experiment /\ v \in DOMAIN workflows[x]
      BY <1>2 DEF Dated
    <3>2. workflows'[x][v] = workflows[x][v]
      BY <2>3, <3>1
    <3> QED
      BY <2>1, <3>1, <3>2 DEF Template
  <2>5. Lasting
    BY <2>1, <2>4 DEF Lasting, Allocated
  <2>6. Installing'
    <3>1. current' \in {0, created'}
      BY <2>1 DEF EarnedInv, Installing
    <3>2. \A x \in Experiment : x > created' => DOMAIN workflows'[x] = {}
      BY <1>1, <2>1, <2>2, <2>3 DEF EarnedInv, Installing, Experiment
    <3>3. \A v \in DOMAIN toDefine' : v \notin DOMAIN workflows'[current']
      BY <2>1, <2>3 DEF EarnedInv, Installing
    <3> QED
      BY <3>1, <3>2, <3>3 DEF Installing
  <2> QED
    BY <1>1, <2>1, <2>3, <2>5, <2>6, EarnedFrame DEF Allocated
<1>7. ASSUME NEW h \in Handler, NEW w \in WorkflowId, NEW i \in InvocationId, NEW a \in Attributes,
             ReceiveEvent(h, w, i, a)
      PROVE  EarnedInv'
  BY <1>1, <1>7, QuietEarned DEF ReceiveEvent, server, Early, Taking
<1> QED
  BY <1>3, <1>4, <1>5, <1>6, <1>7

(* A new Invocation has all the descriptors of its workflow. *)
LEMMA RegisterEarned ==
  ASSUME IInv, EarnedInv, NEW h \in Handler, RegisterInvocation(h)
  PROVE  EarnedInv'
<1>1. PICK w \in WorkflowId, i \in InvocationId : w = event[h].workflow /\ i = event[h].id
  BY RunningHandler DEF RegisterInvocation, Steps, Event
<1>2. PICK new : new = NewInvocation(w, i)
  OBVIOUS
<1>3. /\ pc[h] = "register" /\ pc' = [pc EXCEPT ![h] = "check"]
      /\ current # 0 /\ w \in DOMAIN workflows[current]
      /\ invocation' = [invocation EXCEPT ![h] = new]
      /\ invocations' = [invocations EXCEPT ![current][w][i] = h]
      /\ local' = [local EXCEPT ![h].invocation = h]
      /\ UNCHANGED <<current, created, toDefine, workflows, event>>
  BY <1>1, <1>2 DEF RegisterInvocation, Known
<1>4. /\ new.workflow = w /\ new.experiment = current /\ new.status = "CANCELLED"
      /\ new.len = Len(workflows[current][w])
  BY <1>2 DEF NewInvocation
<1>5. /\ local \in [Handler -> Locals] /\ pc \in [Handler -> Steps \cup {"idle", "done", "panicked", "killed"}]
      /\ invocation \in [Handler -> Invocation \cup {Nil}]
      /\ invocations \in [Experiment -> [WorkflowId -> [InvocationId -> Handler \cup {Nil}]]]
      /\ created \in Nat /\ current \in Experiment /\ current <= created
      /\ workflows[current][w] \in Seq(Matcher)
  BY <1>3, ConstantsAssumption
  DEF IInv, TypeOK, HandlerTypeOK, ServerTypeOK, StoreTypeOK, Experiment
<1>6. invocation[h] = Nil
  BY <1>3 DEF IInv, HandlerOK
<1>7. new # Nil
  BY <1>3, <1>5, RegisterInvocationIInv DEF IInv, HandlerOK, Steps
<1>8. /\ invocation'[h] = new
      /\ \A o \in Handler : o # h => invocation'[o] = invocation[o]
  BY <1>3, <1>5
<1>9. Allocated' = Allocated \cup {h} /\ h \notin Allocated
  BY <1>6, <1>7, <1>8 DEF Allocated
<1>10. \A g \in Handler : local'[g].target = local[g].target /\ (g # h => local'[g] = local[g])
  BY <1>3, <1>5 DEF Locals
<1>11. Lasting
  <2>1. \A o \in Allocated : invocation'[o] = invocation[o]
    BY <1>8, <1>9 DEF Allocated
  <2>2. \A o \in Allocated : Template(o)' = Template(o)
    BY <1>3, <2>1 DEF Template
  <2>3. \A g \in Handler : pc[g] # "shrink" => pc'[g] # "shrink"
    BY <1>3, <1>5
  <2> QED
    BY <1>3, <1>10, <2>1, <2>2, <2>3 DEF Lasting, Allocated, HasTarget
<1>12. HasTarget' = HasTarget
  BY <1>10 DEF HasTarget
<1>13. IsFiniteSet(HasTarget')
  BY <1>12 DEF EarnedInv
<1>14. Installing'
  BY <1>3 DEF EarnedInv, Installing
<1>15. InItsMap'
  <2>1. ASSUME NEW x \in Experiment, NEW v \in WorkflowId, NEW j \in InvocationId,
               invocations'[x][v][j] # Nil
        PROVE  invocation'[invocations'[x][v][j]].experiment = x
    <3>1. CASE x = current /\ invocations'[x][v][j] = h
      BY <1>4, <1>8, <3>1
    <3>2. CASE invocations'[x][v][j] = invocations[x][v][j]
      <4>1. PICK o \in Allocated : o = invocations[x][v][j]
        BY <1>5, <2>1, <3>2 DEF IInv, StoreInv, Allocated
      <4>2. invocation'[o] = invocation[o]
        BY <1>6, <1>8 DEF Allocated
      <4> QED
        BY <2>1, <3>2, <4>1, <4>2 DEF EarnedInv, InItsMap
    <3> QED
      BY <1>3, <1>5, <3>1, <3>2
  <2> QED
    BY <2>1 DEF InItsMap
<1>16. ASSUME NEW o \in Allocated
       PROVE  /\ Dated(o)' /\ Earned(o)'
              /\ invocation'[o].len + Cardinality(Shrunk(o)') >= Template(o)'
  BY <1>3, <1>5, <1>8, <1>9, <1>11, <1>13, EarnedObject DEF Allocated
<1>17. /\ Dated(h)' /\ Earned(h)'
       /\ invocation'[h].len + Cardinality(Shrunk(h)') >= Template(h)'
  <2>1. Dated(h)' /\ Earned(h)'
    BY <1>3, <1>4, <1>5, <1>8 DEF Dated, Earned
  <2>2. Cardinality(Shrunk(h)') \in Nat
    BY <1>11, <1>13, TakersLast
  <2>3. Template(h)' = invocation'[h].len /\ invocation'[h].len \in Nat
    BY <1>3, <1>4, <1>5, <1>8 DEF Template
  <2> QED
    BY <2>1, <2>2, <2>3
<1>18. ASSUME NEW g \in Handler PROVE Targeted(g)'
  <2>1. /\ pc'[g] \in Early => pc[g] \in Early
        /\ pc'[g] \in Taking => g # h /\ pc[g] = pc'[g]
        /\ pc'[g] = "shrink" => g # h /\ pc[g] = pc'[g]
    BY <1>3, <1>5 DEF Early, Taking
  <2> QED
    BY <1>3, <1>10, <1>11, <1>13, <2>1, EarnedHandler
<1> QED
  BY <1>9, <1>13, <1>14, <1>15, <1>16, <1>17, <1>18 DEF EarnedInv

(* A handler reads the slice it is going to shorten. *)
LEMMA RemoveReadEarned ==
  ASSUME IInv, RecordInv, EarnedInv, NEW h \in Handler, RemoveRead(h)
  PROVE  EarnedInv'
<1>1. PICK w \in WorkflowId, i \in InvocationId : w = event[h].workflow /\ i = event[h].id
  BY RunningHandler DEF RemoveRead, Steps, Event
<1>2. PICK t : t = Stored(w, i)
  OBVIOUS
<1>3. /\ pc[h] = "remove" /\ pc' = [pc EXCEPT ![h] = "shrink"]
      /\ ~Dangling(w, i)
      /\ local' = [local EXCEPT ![h].target = t, ![h].len = invocation[t].len]
      /\ UNCHANGED <<current, created, toDefine, workflows, invocations, invocation, event>>
  BY <1>1, <1>2 DEF RemoveRead, server
<1>4. /\ local \in [Handler -> Locals] /\ pc \in [Handler -> Steps \cup {"idle", "done", "panicked", "killed"}]
      /\ created \in Nat
  BY DEF IInv, TypeOK, HandlerTypeOK, ServerTypeOK
<1>5. /\ t \in Allocated /\ t \in Handler /\ current \in Experiment
      /\ invocations[current][w][i] = t
  BY <1>2, <1>3, StoredInvocation DEF Stored, Allocated
<1>6. t # Nil
  BY <1>5, ConstantsAssumption
<1>7. /\ invocation[t].workflow = w /\ invocation[t].id = i /\ invocation[t].experiment = current
  BY <1>5, <1>6 DEF RecordInv, Filed, EarnedInv, InItsMap
<1>8. /\ local'[h].target = t /\ local'[h].len = invocation[t].len
      /\ local'[h].invocation = local[h].invocation
      /\ \A g \in Handler : g # h => local'[g] = local[g]
  BY <1>3, <1>4 DEF Locals
<1>9. h \notin HasTarget
  BY <1>3 DEF EarnedInv, Targeted, HasTarget
<1>10. HasTarget' = HasTarget \cup {h}
  BY <1>6, <1>8 DEF HasTarget
<1>11. IsFiniteSet(HasTarget')
  BY <1>10, FS_AddElement DEF EarnedInv
<1>12. Lasting
  BY <1>3, <1>4, <1>8, <1>9 DEF Lasting, Allocated, HasTarget, Template
<1>13. Installing' /\ InItsMap'
  BY <1>3 DEF EarnedInv, Installing, InItsMap
<1>14. Allocated' = Allocated
  BY <1>3 DEF Allocated
<1>15. ASSUME NEW o \in Allocated
       PROVE  /\ Dated(o)' /\ Earned(o)'
              /\ invocation'[o].len + Cardinality(Shrunk(o)') >= Template(o)'
  BY <1>3, <1>4, <1>11, <1>12, EarnedObject
<1>16. ASSUME NEW g \in Handler, g # h PROVE Targeted(g)'
  BY <1>3, <1>4, <1>8, <1>11, <1>12, <1>16, EarnedHandler
<1>17. Targeted(h)'
  <2>1. PICK p \in Allocated : p = local[h].invocation
    BY <1>3 DEF IInv, HandlerOK, Steps, Allocated
  <2>2. invocation[p].experiment <= created /\ current = created
    BY <1>5 DEF EarnedInv, Dated, Installing, Experiment
  <2>3. Template(t)' = Template(t) /\ invocation[t].len + Cardinality(Shrunk(t)') >= Template(t)'
    BY <1>3, <1>5, <1>12, <1>15 DEF Lasting
  <2>4. Shrunk(local[h].target)' = Shrunk(t)' /\ Template(local[h].target)' = Template(t)'
    BY <1>8 DEF Shrunk, Template
  <2>5. pc'[h] = "shrink"
    BY <1>3, <1>4
  <2>6. /\ t \in Handler /\ invocation'[t] # Nil
        /\ invocation'[t].workflow = event'[h].workflow /\ invocation'[t].id = event'[h].id
    BY <1>1, <1>3, <1>5, <1>7 DEF Allocated
  <2>7. invocation'[local'[h].invocation].experiment <= invocation'[t].experiment
    BY <1>3, <1>7, <1>8, <2>1, <2>2
  <2>8. local'[h].len + Cardinality(Shrunk(local[h].target)') >= Template(local[h].target)'
    BY <1>8, <2>3, <2>4
  <2> QED
    BY <1>6, <1>8, <2>5, <2>6, <2>7, <2>8 DEF Targeted
<1> QED
  BY <1>11, <1>13, <1>14, <1>15, <1>16, <1>17 DEF EarnedInv

(* It stores the slice it read, shorter by one, and counts for one itself. *)
LEMMA RemoveWriteEarned ==
  ASSUME IInv, EarnedInv, NEW h \in Handler, RemoveWrite(h)
  PROVE  EarnedInv'
<1>1. PICK t \in Handler : t = local[h].target /\ invocation[t] # Nil
  BY DEF RemoveWrite, IInv, HandlerOK
<1>2. /\ pc[h] = "shrink" /\ pc' = [pc EXCEPT ![h] = "compare"]
      /\ UNCHANGED <<current, created, toDefine, workflows, invocations, event, local>>
  BY DEF RemoveWrite, server
<1>3. /\ local \in [Handler -> Locals] /\ pc \in [Handler -> Steps \cup {"idle", "done", "panicked", "killed"}]
      /\ invocation \in [Handler -> Invocation \cup {Nil}]
      /\ created \in Nat /\ local[h].len \in Nat
  BY DEF IInv, TypeOK, HandlerTypeOK, ServerTypeOK, StoreTypeOK, Locals
<1>4. /\ invocation'[t] # Nil
      /\ invocation'[t].workflow = invocation[t].workflow
      /\ invocation'[t].id = invocation[t].id
      /\ invocation'[t].experiment = invocation[t].experiment
      /\ invocation'[t].status = invocation[t].status
      /\ invocation'[t].len = local[h].len - 1
      /\ \A o \in Handler : o # t => invocation'[o] = invocation[o]
  <2>1. PICK v \in Invocation : v = invocation[t]
    BY <1>1, <1>3
  <2>2. PICK ds : ds = [k \in 1..Len(v.descriptors) |->
                          IF k \in local[h].descriptorIdx..(local[h].len - 1)
                            THEN v.descriptors[k + 1] ELSE v.descriptors[k]]
    OBVIOUS
  <2>3. PICK new : new = [v EXCEPT !.descriptors = ds, !.len = local[h].len - 1]
    OBVIOUS
  <2>4. invocation' = [invocation EXCEPT ![t] = new]
    BY <1>1, <2>1, <2>2, <2>3, Zenon DEF RemoveWrite, Remaining
  <2>5. /\ new.workflow = v.workflow /\ new.id = v.id /\ new.experiment = v.experiment
        /\ new.len = local[h].len - 1 /\ new.status = v.status
    BY <2>3 DEF Invocation
  <2>6. invocation'[t] = new /\ \A o \in Handler : o # t => invocation'[o] = invocation[o]
    BY <1>3, <2>4
  <2>7. new # Nil
    BY <1>1, <2>6, RemoveWriteIInv DEF SameRecords
  <2> QED
    BY <2>1, <2>5, <2>6, <2>7
<1>5. Allocated' = Allocated /\ t \in Allocated
  BY <1>1, <1>4 DEF Allocated
<1>6. HasTarget' = HasTarget /\ IsFiniteSet(HasTarget') /\ Installing'
  BY <1>2 DEF HasTarget, EarnedInv, Installing
<1>7. Lasting
  <2>1. \A o \in Allocated : Template(o)' = Template(o)
    BY <1>2, <1>4 DEF Template, Allocated
  <2> QED
    BY <1>2, <1>3, <1>4, <2>1 DEF Lasting, Allocated, HasTarget
<1>8. InItsMap'
  <2>1. ASSUME NEW x \in Experiment, NEW w \in WorkflowId, NEW i \in InvocationId,
               invocations[x][w][i] # Nil
        PROVE  invocation'[invocations[x][w][i]].experiment = x
    <3>1. PICK o \in Allocated : o = invocations[x][w][i]
      BY <2>1 DEF IInv, TypeOK, StoreTypeOK, StoreInv, Allocated
    <3> QED
      BY <2>1, <3>1, <1>7 DEF EarnedInv, InItsMap, Lasting
  <2> QED
    BY <1>2, <2>1 DEF InItsMap
<1>9. ASSUME NEW o \in Allocated, o # t
      PROVE  /\ Dated(o)' /\ Earned(o)'
             /\ invocation'[o].len + Cardinality(Shrunk(o)') >= Template(o)'
  BY <1>2, <1>3, <1>4, <1>6, <1>7, <1>9, EarnedObject DEF Allocated
<1>10. Dated(t)' /\ Earned(t)'
  BY <1>2, <1>3, <1>4, <1>5, <1>6, <1>7, EarnedObject
<1>11. invocation'[t].len + Cardinality(Shrunk(t)') >= Template(t)'
  <2>1. PICK S, T : S = Shrunk(t) /\ T = Shrunk(t)'
    OBVIOUS
  <2>2. T = S \cup {h} /\ h \notin S
    <3>1. h \in HasTarget
      BY <1>1, <1>2, ConstantsAssumption DEF HasTarget
    <3> QED
      BY <1>1, <1>2, <1>3, <1>6, <2>1, <3>1 DEF Shrunk, HasTarget
  <2>3. IsFiniteSet(S) /\ Cardinality(S) \in Nat
    BY <1>6, <1>7, <2>1, TakersLast
  <2>4. Cardinality(T) = Cardinality(S) + 1
    BY <2>2, <2>3, FS_AddElement
  <2>5. local[h].len + Cardinality(S) >= Template(t)
    BY <1>1, <1>2, <2>1 DEF EarnedInv, Targeted
  <2>6. Template(t) \in Nat /\ Template(t)' = Template(t)
    BY <1>5, <1>7, TemplateNat DEF EarnedInv, Lasting
  <2> QED
    BY <1>3, <1>4, <2>1, <2>3, <2>4, <2>5, <2>6
<1>12. ASSUME NEW g \in Handler PROVE Targeted(g)'
  <2>1. /\ pc'[g] \in Early => pc[g] \in Early
        /\ pc'[g] \in Taking => pc[g] \in Taking
        /\ pc'[g] = "shrink" => pc[g] = "shrink"
    BY <1>2, <1>3 DEF Early, Taking
  <2> QED
    BY <1>2, <1>6, <1>7, <2>1, EarnedHandler
<1> QED
  BY <1>5, <1>6, <1>8, <1>9, <1>10, <1>11, <1>12 DEF EarnedInv

(* Status becomes COMPLETED when the slice of the target is empty.  That   *)
(* is the Invocation in the map, or a later one's, so when the completed   *)
(* one is of the running experiment, both are.                             *)
LEMMA SetStatusEarned ==
  ASSUME IInv, RecordInv, EarnedInv, NEW h \in Handler, SetStatus(h)
  PROVE  EarnedInv'
<1>1. PICK p \in Allocated, t \in Allocated : p = local[h].invocation /\ t = local[h].target
  BY DEF SetStatus, IInv, HandlerOK, Steps, Allocated
<1>2. /\ pc[h] = "status" /\ pc' = [pc EXCEPT ![h] = "append"]
      /\ UNCHANGED <<current, created, toDefine, workflows, invocations, event, local>>
  BY DEF SetStatus, server
<1>3. /\ pc \in [Handler -> Steps \cup {"idle", "done", "panicked", "killed"}]
      /\ invocation \in [Handler -> Invocation \cup {Nil}]
      /\ created \in Nat /\ p \in Handler /\ t \in Handler
      /\ invocation[p] # Nil /\ invocation[t] # Nil
  BY DEF IInv, TypeOK, HandlerTypeOK, ServerTypeOK, StoreTypeOK, Allocated
<1>4. /\ invocation'[p] # Nil
      /\ invocation'[p].workflow = invocation[p].workflow
      /\ invocation'[p].id = invocation[p].id
      /\ invocation'[p].experiment = invocation[p].experiment
      /\ invocation'[p].len = invocation[p].len
      /\ invocation'[p].status = invocation[p].status \/ invocation[t].len = 0
      /\ \A o \in Handler : o # p => invocation'[o] = invocation[o]
  <2>1. PICK v \in Invocation : v = invocation[p]
    BY <1>3
  <2>2. PICK st : st = IF invocation[t].len = 0 THEN "COMPLETED" ELSE v.status
    OBVIOUS
  <2>3. PICK new : new = [v EXCEPT !.status = st]
    OBVIOUS
  <2>4. invocation' = [invocation EXCEPT ![p] = new]
    BY <1>1, <2>1, <2>2, <2>3 DEF SetStatus, NoneRemain
  <2>5. /\ new.workflow = v.workflow /\ new.id = v.id /\ new.experiment = v.experiment
        /\ new.len = v.len /\ new.status = st
    BY <2>3 DEF Invocation
  <2>6. invocation'[p] = new /\ \A o \in Handler : o # p => invocation'[o] = invocation[o]
    BY <1>3, <2>4
  <2>7. new # Nil
    BY <1>3, <2>6, SetStatusIInv DEF SameRecords
  <2> QED
    BY <2>1, <2>2, <2>5, <2>6, <2>7
<1>5. Allocated' = Allocated
  BY <1>3, <1>4 DEF Allocated
<1>6. HasTarget' = HasTarget /\ IsFiniteSet(HasTarget') /\ Installing'
  BY <1>2 DEF HasTarget, EarnedInv, Installing
<1>7. Lasting
  <2>1. \A o \in Allocated : Template(o)' = Template(o)
    BY <1>2, <1>4 DEF Template, Allocated
  <2> QED
    BY <1>2, <1>3, <1>4, <2>1 DEF Lasting, Allocated, HasTarget
<1>8. InItsMap'
  <2>1. ASSUME NEW x \in Experiment, NEW w \in WorkflowId, NEW i \in InvocationId,
               invocations[x][w][i] # Nil
        PROVE  invocation'[invocations[x][w][i]].experiment = x
    <3>1. PICK o \in Allocated : o = invocations[x][w][i]
      BY <2>1 DEF IInv, TypeOK, StoreTypeOK, StoreInv, Allocated
    <3> QED
      BY <2>1, <3>1, <1>7 DEF EarnedInv, InItsMap, Lasting
  <2> QED
    BY <1>2, <2>1 DEF InItsMap
<1>9. ASSUME NEW o \in Allocated
      PROVE  /\ Dated(o)'
             /\ invocation'[o].len + Cardinality(Shrunk(o)') >= Template(o)'
             /\ invocation'[o].status = invocation[o].status => Earned(o)'
  <2>1. invocation'[o].len = invocation[o].len
    BY <1>4 DEF Allocated
  <2> QED
    BY <1>2, <1>3, <1>6, <1>7, <2>1, EarnedObject
<1>10. ASSUME invocation'[p].status # invocation[p].status PROVE Earned(p)'
  <2>1. SUFFICES ASSUME invocation[p].experiment = current PROVE Earned(p)'
    BY <1>2, <1>4 DEF Earned
  <2>2. PICK w, i : w = invocation[p].workflow /\ i = invocation[p].id
    OBVIOUS
  <2>3. invocation[t].workflow = w /\ invocation[t].id = i
    BY <1>1, <1>2, <2>2 DEF RecordInv, Follows, Steps, EarnedInv, Targeted, Allocated, IInv, HandlerOK
  <2>4. invocation[t].experiment = current
    <3>1. invocation[p].experiment <= invocation[t].experiment
      BY <1>1, <1>2 DEF EarnedInv, Targeted
    <3>2. invocation[t].experiment <= created /\ invocation[p].experiment \in Experiment
          /\ invocation[t].experiment \in Experiment
      BY TemplateNat DEF EarnedInv, Dated
    <3> QED
      BY <1>3, <2>1, <3>1, <3>2 DEF EarnedInv, Installing, Experiment
  <2>5. PICK x, S, T : /\ x = current /\ S = Shrunk(t)
                       /\ T = Takers(current, invocation[p].workflow, invocation[p].id)'
    OBVIOUS
  <2>6. T = Takers(x, w, i)'
    BY <1>2, <1>4, <2>2, <2>5
  <2>7. S \subseteq T
    <3>1. ASSUME NEW g \in S PROVE g \in T
      <4>1. /\ g \in Handler /\ local[g].target = t /\ local[g].target # Nil
        BY <2>5, <3>1 DEF Shrunk, HasTarget
      <4>2. event[g].workflow = w /\ event[g].id = i
        BY <2>3, <4>1 DEF EarnedInv, Targeted
      <4>3. invocation'[t].experiment = x
        BY <1>7, <2>4, <2>5 DEF Lasting
      <4> QED
        BY <1>2, <2>6, <4>1, <4>2, <4>3 DEF Takers
    <3> QED
      BY <3>1
  <2>8. IsFiniteSet(T) /\ Cardinality(T) \in Nat
    BY <1>6, <1>7, <2>6, TakersLast
  <2>9. Cardinality(S) <= Cardinality(T) /\ Cardinality(S) \in Nat
    BY <2>7, <2>8, FS_Subset, FS_CardinalityType
  <2>10. invocation[t].len = 0 /\ Cardinality(S) >= Template(t)
    BY <1>4, <1>6, <1>7, <1>10, <2>5, <2>9, TemplateNat DEF EarnedInv
  <2>11. Template(p)' = Template(t) /\ Template(t) \in Nat
    BY <1>2, <1>4, <2>1, <2>2, <2>3, <2>4, TemplateNat DEF Template, EarnedInv
  <2> QED
    BY <2>5, <2>8, <2>9, <2>10, <2>11 DEF Earned
<1>11. ASSUME NEW o \in Allocated PROVE Earned(o)'
  BY <1>4, <1>9, <1>10 DEF Allocated
<1>12. ASSUME NEW g \in Handler PROVE Targeted(g)'
  <2>1. /\ pc'[g] \in Early => pc[g] \in Early
        /\ pc'[g] \in Taking => pc[g] \in Taking
        /\ pc'[g] = "shrink" => pc[g] = "shrink"
    BY <1>2, <1>3 DEF Early, Taking
  <2> QED
    BY <1>2, <1>6, <1>7, <2>1, EarnedHandler
<1> QED
  BY <1>5, <1>6, <1>8, <1>9, <1>11, <1>12 DEF EarnedInv

(* The inductive step. *)
LEMMA NextEarnedInv == IInv /\ RecordInv /\ EarnedInv /\ [Next]_vars => EarnedInv'
<1> SUFFICES ASSUME IInv, RecordInv, EarnedInv, [Next]_vars PROVE EarnedInv'
  OBVIOUS
<1>1. CASE \/ Restart \/ EndExperiment \/ UNCHANGED vars
           \/ \E d \in Definitions : StartExperiment(d)
           \/ \E w \in WorkflowId : DefineWorkflow(w)
           \/ \E h \in Handler, w \in WorkflowId, i \in InvocationId, a \in Attributes :
                ReceiveEvent(h, w, i, a)
  BY <1>1, ExperimentEarned
<1>2. CASE \/ \E h \in Handler, w \in WorkflowId, a \in Attributes \cup {Malformed} :
                RejectEvent(h, w, a)
           \/ \E h \in Handler : MapFault(h)
  BY <1>2, ExperimentEarned DEF RejectEvent, MapFault
<1>3. ASSUME NEW h \in Handler, Handle(h) PROVE EarnedInv'
  BY <1>3, HandlersEarned, RegisterEarned, RemoveReadEarned, RemoveWriteEarned, SetStatusEarned
  DEF Handle
<1> QED
  BY <1>1, <1>2, <1>3 DEF Next

(* However deliveries overlap, an invocation reported as COMPLETED had as  *)
(* many completion events as its workflow has descriptors.                 *)
THEOREM CompletionsAreEarned == Spec => []CompletedIsEarned
<1>1. IInv /\ EarnedInv => CompletedIsEarned
  <2> SUFFICES ASSUME IInv, EarnedInv, NEW o \in Reported, invocation[o].status = "COMPLETED"
               PROVE  Cardinality(Takers(current, invocation[o].workflow, invocation[o].id))
                        >= Len(workflows[current][invocation[o].workflow])
    BY DEF CompletedIsEarned
  <2>1. PICK w \in WorkflowId, i \in InvocationId : w = invocation[o].workflow /\ i = invocation[o].id
    BY DEF Reported, Allocated, IInv, TypeOK, StoreTypeOK, Invocation
  <2>2. current \in Experiment /\ invocations[current][w][i] = o /\ o # Nil /\ o \in Allocated
    BY <2>1, ConstantsAssumption
    DEF Reported, Allocated, Known, Stored, IInv, TypeOK, ServerTypeOK, Experiment
  <2>3. invocation[o].experiment = current
    BY <2>2 DEF EarnedInv, InItsMap
  <2> QED
    BY <2>2, <2>3 DEF EarnedInv, Earned, Template
<1> QED
  BY InitIInv, NextIInv, InitRecordInv, NextRecordInv, InitEarnedInv, NextEarnedInv, <1>1, PTL
  DEF Spec

-------------------------------------------------------------------------------
(* Why one delivery at a time loses no event.  Only one handler is running *)
(* (Alone); from the lookup that missed to the registration, the slot      *)
(* stays empty in the map the lookup used and in every later one           *)
(* (Arriving), so registering replaces no Invocation, each stays in the    *)
(* slot it was filed in (InFile), and what a handler recorded is kept.     *)
Alone == \A g, h \in Running : g = h

Vacant(x) == \A w \in WorkflowId, i \in InvocationId : invocations[x][w][i] = Nil

InFile(o) ==
  LET v == invocation[o] IN
  /\ invocations[v.experiment][v.workflow][v.id] = o
  /\ v.workflow \in DOMAIN workflows[v.experiment]

Arriving(h) ==
  pc[h] \in {"lookup", "register"} =>
    /\ local[h].workflow <= created
    /\ \A x \in Experiment : x > local[h].workflow => Vacant(x)
    /\ pc[h] = "register" =>
         invocations[local[h].workflow][event[h].workflow][event[h].id] = Nil

Kept(h) ==
  /\ pc[h] = "store" => local[h].records = invocation[local[h].invocation].records
  /\ pc[h] = "done" => /\ local[h].invocation \in Allocated
                       /\ h \in Recorded(local[h].invocation)

SerialInv ==
  /\ current \in {0, created}
  /\ \A x \in Experiment : x > created => Vacant(x)
  /\ Alone
  /\ \A o \in Allocated : InFile(o)
  /\ \A h \in Handler : Arriving(h) /\ Kept(h)

(* The initial state satisfies it. *)
LEMMA InitSerialInv == Init => SerialInv
BY DEF Init, SerialInv, Vacant, Alone, Running, Allocated, Arriving, Kept, Experiment, Steps

(* Every handler but the running one is at rest. *)
LEMMA OthersRest ==
  ASSUME SerialInv, NEW h \in Handler, pc[h] \in Steps
  PROVE  \A g \in Handler \ {h} : pc[g] \notin Steps
BY DEF SerialInv, Alone, Running

(* With one delivery at once, an event that is received finds none running. *)
LEMMA NoneRunning ==
  ASSUME SerialInv, Serial, load \in Loads, Cardinality(Running) < load.atOnce
  PROVE  Running = {}
<1>1. ASSUME NEW h \in Running PROVE FALSE
  <2>1. Running = {h}
    BY DEF SerialInv, Alone
  <2>2. Cardinality(Running) = 1
    BY <2>1, FS_Singleton
  <2> QED
    BY <2>2 DEF Serial
<1> QED
  BY <1>1

(* What remains to be shown of a step of the running handler. *)
LEMMA SerialStep ==
  ASSUME IInv, SerialInv, NEW h \in Handler, pc[h] \in Steps,
         UNCHANGED <<current, created, event>>,
         \A g \in Handler \ {h} : pc'[g] = pc[g] /\ local'[g] = local[g],
         \A x \in Experiment : x > created => Vacant(x)',
         \A o \in Allocated : o \in Allocated' /\ Recorded(o) \subseteq Recorded(o)',
         \A o \in Allocated' : InFile(o)',
         Arriving(h)', Kept(h)'
  PROVE  SerialInv'
<1>1. \A g \in Handler \ {h} : pc'[g] \notin Steps
  BY OthersRest
<1>2. Alone'
  BY <1>1 DEF Alone, Running
<1>3. ASSUME NEW g \in Handler PROVE Arriving(g)' /\ Kept(g)'
  <2>1. CASE g # h
    <3>1. Arriving(g)'
      BY <1>1, <2>1 DEF Arriving, Steps
    <3>2. Kept(g)
      BY DEF SerialInv
    <3>3. Kept(g)'
      BY <1>1, <2>1, <3>2 DEF Kept, Steps
    <3> QED
      BY <3>1, <3>3
  <2> QED
    BY <2>1
<1>4. current' \in {0, created'} /\ \A x \in Experiment : x > created' => Vacant(x)'
  BY DEF SerialInv
<1> QED
  BY <1>2, <1>3, <1>4 DEF SerialInv

(* A step that stores no records and registers nothing. *)
LEMMA SerialQuiet ==
  ASSUME IInv, SerialInv, NEW h \in Handler, pc[h] \in Steps,
         UNCHANGED <<current, created, workflows, invocations, event>>,
         \A g \in Handler \ {h} : pc'[g] = pc[g] /\ local'[g] = local[g],
         SameRecords, Arriving(h)', Kept(h)'
  PROVE  SerialInv'
<1>1. Allocated' = Allocated
  BY DEF Allocated, SameRecords
<1>2. \A o \in Allocated : Recorded(o)' = Recorded(o)
  BY DEF Allocated, SameRecords, Recorded
<1>3. \A o \in Allocated : InFile(o)'
  BY DEF SerialInv, Allocated, SameRecords, InFile
<1>4. \A x \in Experiment : x > created => Vacant(x)'
  BY DEF SerialInv, Vacant
<1> QED
  BY <1>1, <1>2, <1>3, <1>4, SerialStep

(* The invoker's calls, a restart and the end of the process touch no      *)
(* Invocation, and only an unused map becomes the current one.             *)
LEMMA ExperimentSerial ==
  ASSUME IInv, SerialInv,
         \/ Restart
         \/ \E d \in Definitions : StartExperiment(d)
         \/ \E w \in WorkflowId : DefineWorkflow(w)
         \/ EndExperiment
         \/ Fatal
         \/ UNCHANGED vars
  PROVE  SerialInv'
<1>1. UNCHANGED <<invocations, invocation, event, local>>
  BY DEF Restart, StartExperiment, DefineWorkflow, EndExperiment, Fatal, vars, server
<1>2. /\ current' \in {0, created'} /\ created' >= created /\ created \in Nat /\ created' \in Nat
  <2>1. created \in Nat /\ current \in {0, created}
    BY ConstantsAssumption DEF SerialInv, IInv, TypeOK, ServerTypeOK
  <2>2. \/ created' = created /\ current' \in {0, current}
        \/ created' = created + 1 /\ current' = created + 1
    BY DEF Restart, StartExperiment, DefineWorkflow, EndExperiment, Fatal, vars, server
  <2> QED
    BY <2>1, <2>2
<1>3. \A g \in Handler : pc'[g] = pc[g] \/ pc'[g] = "killed"
  BY DEF Restart, StartExperiment, DefineWorkflow, EndExperiment, Fatal, vars,
         IInv, TypeOK, HandlerTypeOK
<1>4. \A x \in Experiment : DOMAIN workflows[x] \subseteq DOMAIN workflows'[x]
  <2>1. CASE workflows' = workflows
    BY <2>1
  <2>2. ASSUME NEW w \in WorkflowId, DefineWorkflow(w)
        PROVE  \A x \in Experiment : DOMAIN workflows[x] \subseteq DOMAIN workflows'[x]
    BY <2>2 DEF DefineWorkflow, IInv, TypeOK, ServerTypeOK
  <2> QED
    BY <2>1, <2>2 DEF Restart, StartExperiment, EndExperiment, Fatal, vars, server
<1>5. Alone'
  BY <1>3 DEF SerialInv, Alone, Running, Steps
<1>6. \A x \in Experiment : x > created' => Vacant(x)'
  <2>1. ASSUME NEW x \in Experiment, x > created' PROVE Vacant(x)'
    <3>1. x > created
      BY <1>2, <2>1, ConstantsAssumption DEF Experiment
    <3> QED
      BY <1>1, <3>1 DEF SerialInv, Vacant
  <2> QED
    BY <2>1
<1>7. ASSUME NEW o \in Allocated' PROVE InFile(o)'
  <2>1. o \in Allocated /\ InFile(o)
    BY <1>1 DEF SerialInv, Allocated
  <2>2. invocation[o].experiment \in Experiment
    BY <2>1 DEF IInv, TypeOK, StoreTypeOK, Allocated, Invocation
  <2> QED
    BY <1>1, <1>4, <2>1, <2>2 DEF InFile
<1>8. ASSUME NEW g \in Handler PROVE Arriving(g)' /\ Kept(g)'
  <2>1. Arriving(g) /\ Kept(g) /\ (pc[g] \in Steps => local[g].workflow \in Experiment)
    BY RunningHandler DEF SerialInv
  <2>2. Arriving(g)'
    <3>1. ASSUME pc'[g] \in {"lookup", "register"} PROVE local'[g].workflow <= created'
      <4>1. /\ pc[g] = pc'[g] /\ local'[g] = local[g] /\ local[g].workflow \in Experiment
        BY <1>1, <1>3, <2>1, <3>1 DEF Steps
      <4>2. local[g].workflow <= created
        BY <2>1, <3>1, <4>1 DEF Arriving
      <4> QED
        BY <1>2, <4>1, <4>2 DEF Experiment
    <3> QED
      BY <1>1, <1>3, <2>1, <3>1 DEF Arriving, Vacant
  <2>3. Kept(g)'
    BY <1>1, <1>3, <2>1 DEF Kept, Allocated, Recorded
  <2> QED
    BY <2>2, <2>3
<1> QED
  BY <1>2, <1>5, <1>6, <1>7, <1>8 DEF SerialInv

(* An event is received while no handler is running. *)
LEMMA ReceiveSerial ==
  ASSUME IInv, SerialInv, Serial, NEW h \in Handler, NEW w \in WorkflowId,
         NEW i \in InvocationId, NEW a \in Attributes, ReceiveEvent(h, w, i, a)
  PROVE  SerialInv'
<1>1. \A g \in Handler : pc[g] \notin Steps
  BY NoneRunning DEF ReceiveEvent, IInv, TypeOK, ServerTypeOK, Running
<1>2. /\ UNCHANGED <<current, created, workflows, invocations, invocation>>
      /\ pc'[h] = "lookup" /\ local'[h].workflow = current /\ current = created
      /\ created \in Nat
      /\ \A g \in Handler \ {h} : pc'[g] = pc[g] /\ local'[g] = local[g]
  BY ConstantsAssumption
  DEF ReceiveEvent, Known, server, SerialInv, IInv, TypeOK, HandlerTypeOK, ServerTypeOK, Locals
<1>3. Alone'
  BY <1>1, <1>2 DEF Alone, Running
<1>4. Arriving(h)' /\ Kept(h)'
  BY <1>2 DEF SerialInv, Arriving, Kept, Vacant
<1>5. ASSUME NEW g \in Handler \ {h} PROVE Arriving(g)' /\ Kept(g)'
  <2>1. Kept(g)
    BY DEF SerialInv
  <2> QED
    BY <1>1, <1>2, <2>1 DEF Arriving, Kept, Allocated, Recorded, Steps
<1>6. \A o \in Allocated' : InFile(o)'
  BY <1>2 DEF SerialInv, InFile, Allocated
<1>7. \A x \in Experiment : x > created' => Vacant(x)'
  BY <1>2 DEF SerialInv, Vacant
<1> QED
  BY <1>2, <1>3, <1>4, <1>5, <1>6, <1>7 DEF SerialInv

(* A handler panics. *)
LEMMA PanicSerial ==
  ASSUME IInv, SerialInv, NEW h \in Handler, pc[h] \in Steps, Panic(h)
  PROVE  SerialInv'
<1>1. /\ UNCHANGED <<current, created, workflows, invocations, event, invocation>>
      /\ pc'[h] = "panicked"
      /\ \A g \in Handler \ {h} : pc'[g] = pc[g] /\ local'[g] = local[g]
  BY DEF Panic, server, IInv, TypeOK, HandlerTypeOK
<1>2. SameRecords
  BY <1>1 DEF SameRecords
<1>3. Arriving(h)' /\ Kept(h)'
  BY <1>1 DEF Arriving, Kept
<1> QED
  BY <1>1, <1>2, <1>3, SerialQuiet

(* The lookup that misses finds the slot empty. *)
LEMMA LookupSerial ==
  ASSUME IInv, SerialInv, NEW h \in Handler, LookupInvocation(h)
  PROVE  SerialInv'
<1> DEFINE found == invocations[local[h].workflow][event[h].workflow][event[h].id]
<1>1. /\ UNCHANGED <<current, created, workflows, invocations, event, invocation>>
      /\ \A g \in Handler \ {h} : pc'[g] = pc[g] /\ local'[g] = local[g]
      /\ pc[h] = "lookup" /\ pc[h] \in Steps /\ pc'[h] = AfterLookup(found)
      /\ local'[h].workflow = local[h].workflow
  BY DEF LookupInvocation, server, IInv, TypeOK, HandlerTypeOK, Locals, Steps
<1>2. SameRecords
  BY <1>1 DEF SameRecords
<1>3. Arriving(h)
  BY DEF SerialInv
<1>4. Arriving(h)'
  BY <1>1, <1>3 DEF Arriving, Vacant, AfterLookup
<1>5. Kept(h)'
  BY <1>1 DEF Kept, AfterLookup
<1> QED
  BY <1>1, <1>2, <1>4, <1>5, SerialQuiet

(* registerInvocation fills an empty slot: that of the map the lookup      *)
(* missed in, or of a later one.                                           *)
LEMMA RegisterSerial ==
  ASSUME IInv, SerialInv, NEW h \in Handler, RegisterInvocation(h)
  PROVE  SerialInv'
<1> DEFINE w == event[h].workflow
           i == event[h].id
           new == NewInvocation(w, i)
<1>1. /\ pc[h] = "register" /\ pc[h] \in Steps /\ event[h] \in Event
      /\ w \in WorkflowId /\ i \in InvocationId /\ current \in Experiment
      /\ invocation[h] = Nil /\ local[h].workflow \in Experiment
      /\ w \in DOMAIN workflows[current]
  BY RunningHandler, ConstantsAssumption
  DEF RegisterInvocation, Steps, IInv, TypeOK, ServerTypeOK, HandlerOK, Event, Known, Experiment
<1>2. invocations[current][w][i] = Nil
  <2>1. Arriving(h) /\ current = created
    BY <1>1 DEF SerialInv, Experiment
  <2>2. \/ current = local[h].workflow
        \/ current > local[h].workflow
    BY <1>1, <2>1 DEF Arriving, Experiment
  <2> QED
    BY <1>1, <2>1, <2>2 DEF Arriving, Vacant
<1>3. /\ invocation'[h] = new
      /\ \A o \in Handler \ {h} : invocation'[o] = invocation[o]
      /\ invocations'[current][w][i] = h
      /\ \A x \in Experiment, v \in WorkflowId, j \in InvocationId :
            \/ invocations'[x][v][j] = invocations[x][v][j]
            \/ x = current /\ v = w /\ j = i
      /\ \A g \in Handler \ {h} : pc'[g] = pc[g] /\ local'[g] = local[g]
      /\ pc'[h] = "check" /\ UNCHANGED <<event, current, created, workflows>>
  BY <1>1 DEF RegisterInvocation, IInv, TypeOK, StoreTypeOK, HandlerTypeOK
<1>4. new.workflow = w /\ new.id = i /\ new.experiment = current
  BY DEF NewInvocation
<1> HIDE DEF new, w, i
<1>5. \A o \in Allocated : o # h /\ invocation'[o] = invocation[o]
  BY <1>1, <1>3 DEF Allocated
<1>6. \A o \in Allocated : o \in Allocated' /\ Recorded(o) \subseteq Recorded(o)'
  BY <1>5 DEF Allocated, Recorded
<1>7. ASSUME NEW o \in Allocated' PROVE InFile(o)'
  <2>1. CASE o = h
    BY <1>1, <1>3, <1>4, <2>1 DEF InFile
  <2>2. CASE o # h
    <3>1. o \in Allocated /\ InFile(o) /\ invocation'[o] = invocation[o]
      BY <1>3, <2>2 DEF SerialInv, Allocated
    <3>2. PICK x \in Experiment, v \in WorkflowId, j \in InvocationId :
             /\ invocation[o].experiment = x /\ invocation[o].workflow = v
             /\ invocation[o].id = j
      BY <3>1 DEF IInv, TypeOK, StoreTypeOK, Allocated, Invocation
    <3>3. invocations[x][v][j] = o /\ v \in DOMAIN workflows[x]
      BY <3>1, <3>2 DEF InFile
    <3>4. invocations'[x][v][j] = o
      BY <1>2, <1>3, <3>1, <3>3, ConstantsAssumption DEF Allocated
    <3> QED
      BY <1>3, <3>1, <3>2, <3>3, <3>4 DEF InFile
  <2> QED
    BY <2>1, <2>2
<1>8. ASSUME NEW x \in Experiment, x > created PROVE Vacant(x)'
  <2>1. Vacant(x) /\ x # current
    BY <1>1, <1>8 DEF SerialInv, Experiment
  <2> QED
    BY <1>3, <2>1 DEF Vacant
<1>9. Arriving(h)' /\ Kept(h)'
  BY <1>3 DEF Arriving, Kept
<1> QED
  BY <1>1, <1>3, <1>6, <1>7, <1>8, <1>9, SerialStep

(* checkCompletion and onCompletionEvent, up to the read of EventRecords.  *)
LEMMA CompletionSerial ==
  ASSUME IInv, SerialInv, NEW h \in Handler,
         \/ CheckCompletion(h) \/ RemoveRead(h) \/ RemoveWrite(h) \/ CompareDuration(h)
         \/ SetDuration(h) \/ SetStatus(h) \/ AppendRead(h)
  PROVE  SerialInv'
<1>1. /\ pc[h] \in Steps
      /\ UNCHANGED <<current, created, workflows, invocations, event>>
  BY DEF CheckCompletion, RemoveRead, RemoveWrite, CompareDuration, SetDuration, SetStatus,
         AppendRead, server, Steps
<1>2. SameRecords
  <2>1. CASE CheckCompletion(h) \/ RemoveRead(h) \/ CompareDuration(h) \/ AppendRead(h)
    BY <2>1 DEF CheckCompletion, RemoveRead, CompareDuration, AppendRead, SameRecords
  <2> QED
    BY <2>1, RemoveWriteIInv, SetDurationIInv, SetStatusIInv
<1>3. /\ \A g \in Handler \ {h} : pc'[g] = pc[g] /\ local'[g] = local[g]
      /\ pc'[h] \notin {"lookup", "register", "done"}
      /\ pc'[h] = "store" => AppendRead(h)
  <2>1. CASE CheckCompletion(h)
    <3>1. PICK p \in {"remove", "append"} : pc' = [pc EXCEPT ![h] = p]
      BY <2>1 DEF CheckCompletion
    <3>2. \A g \in Handler \ {h} : local'[g] = local[g]
      <4>1. CASE local' = local
        BY <4>1
      <4>2. CASE \E k : local' = [local EXCEPT ![h].descriptorIdx = k, ![h].isCompletion = TRUE]
        BY <4>2 DEF IInv, TypeOK, HandlerTypeOK
      <4> QED
        BY <2>1, <4>1, <4>2 DEF CheckCompletion
    <3> QED
      BY <3>1, <3>2 DEF IInv, TypeOK, HandlerTypeOK
  <2>2. CASE RemoveRead(h) \/ RemoveWrite(h) \/ CompareDuration(h)
    BY <2>2 DEF RemoveRead, RemoveWrite, CompareDuration, IInv, TypeOK, HandlerTypeOK
  <2>3. CASE SetDuration(h) \/ SetStatus(h) \/ AppendRead(h)
    BY <2>3 DEF SetDuration, SetStatus, AppendRead, IInv, TypeOK, HandlerTypeOK
  <2> QED
    BY <2>1, <2>2, <2>3
<1>4. Arriving(h)' /\ Kept(h)'
  <2>1. CASE AppendRead(h)
    <3>1. /\ local[h] \in Locals /\ invocation' = invocation
          /\ local' = [local EXCEPT ![h].records = invocation[local[h].invocation].records]
      BY <2>1, <1>1, RunningHandler DEF AppendRead
    <3>2. /\ local'[h].invocation = local[h].invocation
          /\ local'[h].records = invocation[local[h].invocation].records
      BY <3>1 DEF Locals, IInv, TypeOK, HandlerTypeOK
    <3> QED
      BY <1>3, <3>1, <3>2 DEF Arriving, Kept
  <2> QED
    BY <1>3, <2>1 DEF Arriving, Kept
<1> QED
  BY <1>1, <1>2, <1>3, <1>4, SerialQuiet

(* The records AppendStore adds to are still those of the Invocation. *)
LEMMA AppendStoreSerial ==
  ASSUME IInv, SerialInv, NEW h \in Handler, AppendStore(h)
  PROVE  SerialInv'
<1>1. /\ pc[h] = "store" /\ pc[h] \in Steps /\ local[h] \in Locals
      /\ local[h].invocation \in Handler /\ invocation[local[h].invocation] # Nil
      /\ invocation[local[h].invocation] \in Invocation
  BY RunningHandler DEF AppendStore, Steps
<1>2. PICK o \in Handler, R \in Seq(EventRecord) :
         o = local[h].invocation /\ R = local[h].records /\ invocation[o].records = R
  BY <1>1 DEF Locals, SerialInv, Kept
<1>3. PICK r : r.event = h /\ r = [event |-> h, isCompletion |-> local[h].isCompletion]
  OBVIOUS
<1>4. /\ invocation' = [invocation EXCEPT ![o].records = Append(R, r)]
      /\ UNCHANGED <<invocations, event, current, created, workflows>>
      /\ \A g \in Handler \ {h} : pc'[g] = pc[g] /\ local'[g] = local[g]
      /\ local'[h].invocation = o /\ pc'[h] = "done"
  BY <1>1, <1>2, <1>3 DEF AppendStore, WithRecord, IInv, TypeOK, HandlerTypeOK, Locals, server
<1>5. /\ \A q \in Handler \ {o} : invocation'[q] = invocation[q]
      /\ invocation'[o].workflow = invocation[o].workflow
      /\ invocation'[o].id = invocation[o].id
      /\ invocation'[o].experiment = invocation[o].experiment
      /\ invocation'[o].records = Append(R, r)
  BY <1>1, <1>2, <1>4 DEF IInv, TypeOK, StoreTypeOK, Invocation
<1>6. invocation'[o] # Nil
  BY <1>2, AppendStoreIInv
<1>7. /\ Len(Append(R, r)) = Len(R) + 1 /\ Len(R) \in Nat /\ Append(R, r)[Len(R) + 1] = r
      /\ \A j \in 1..Len(R) : Append(R, r)[j] = R[j]
  BY <1>2
<1>8. h \in Recorded(o)' /\ Recorded(o) \subseteq Recorded(o)'
  <2> DEFINE T == Append(R, r)
  <2>1. invocation'[o].records = T /\ Len(T) = Len(R) + 1 /\ T[Len(R) + 1].event = h
    BY <1>3, <1>5, <1>7
  <2>2. \A j \in 1..Len(R) : T[j] = R[j] /\ j \in 1..Len(T)
    BY <1>7
  <2>3. Len(R) + 1 \in 1..Len(T)
    BY <1>7
  <2> HIDE DEF T
  <2>4. Recorded(o)' = {T[j].event : j \in 1..Len(T)}
    BY <1>4, <2>1 DEF Recorded
  <2>5. h \in Recorded(o)'
    BY <2>1, <2>3, <2>4
  <2>6. Recorded(o) = {R[j].event : j \in 1..Len(R)}
    BY <1>2 DEF Recorded
  <2>7. Recorded(o) \subseteq Recorded(o)'
    BY <2>2, <2>4, <2>6
  <2> QED
    BY <2>5, <2>7
<1>9. Allocated' = Allocated
  BY <1>1, <1>2, <1>5, <1>6 DEF Allocated
<1>10. \A q \in Allocated : Recorded(q) \subseteq Recorded(q)'
  <2>1. \A q \in Allocated \ {o} : Recorded(q)' = Recorded(q)
    BY <1>5 DEF Allocated, Recorded
  <2> QED
    BY <1>8, <2>1
<1>11. \A q \in Allocated : InFile(q)'
  BY <1>4, <1>5 DEF SerialInv, Allocated, InFile
<1>12. \A x \in Experiment : x > created => Vacant(x)'
  BY <1>4 DEF SerialInv, Vacant
<1>13. Arriving(h)' /\ Kept(h)'
  <2>1. local'[h].invocation \in Allocated' /\ h \in Recorded(local[h].invocation)'
    <3>1. Recorded(local[h].invocation)' = Recorded(o)'
      BY <1>4 DEF Recorded
    <3> QED
      BY <1>4, <1>6, <1>8, <3>1 DEF Allocated
  <2> QED
    BY <1>4, <2>1 DEF Arriving, Kept
<1> QED
  BY <1>1, <1>4, <1>9, <1>10, <1>11, <1>12, <1>13, SerialStep

(* The inductive step. *)
LEMMA NextSerialInv == IInv /\ Serial /\ SerialInv /\ [Next]_vars => SerialInv'
<1> SUFFICES ASSUME IInv, Serial, SerialInv, [Next]_vars PROVE SerialInv'
  OBVIOUS
<1>1. CASE \/ Restart
           \/ \E d \in Definitions : StartExperiment(d)
           \/ \E w \in WorkflowId : DefineWorkflow(w)
           \/ EndExperiment
           \/ UNCHANGED vars
  BY <1>1, ExperimentSerial
<1>2. CASE \E h \in Handler, w \in WorkflowId, i \in InvocationId, a \in Attributes :
             ReceiveEvent(h, w, i, a)
  BY <1>2, ReceiveSerial
<1>3. CASE \/ \E h \in Handler, w \in WorkflowId, a \in Attributes \cup {Malformed} :
                RejectEvent(h, w, a)
           \/ \E h \in Handler : MapFault(h)
  BY <1>3, ExperimentSerial DEF RejectEvent, MapFault
<1>4. ASSUME NEW h \in Handler, Handle(h) PROVE SerialInv'
  <2>1. CASE RegisterPanics(h) \/ CheckPanics(h) \/ RemovePanics(h)
    BY <2>1, PanicSerial DEF RegisterPanics, CheckPanics, RemovePanics, Steps
  <2> QED
    BY <1>4, <2>1, LookupSerial, RegisterSerial, CompletionSerial, AppendStoreSerial DEF Handle
<1> QED
  BY <1>1, <1>2, <1>3, <1>4 DEF Next

(* Whatever experiments begin and end and however often the process        *)
(* restarts in the middle of a delivery, without overlapping deliveries    *)
(* EndExperiment reports every event registerEvent has returned for.       *)
THEOREM SerialDeliveriesKept == Spec => []SerialLosesNothing
<1>1. IInv /\ SerialInv => NoEventLost
  <2> SUFFICES ASSUME IInv, SerialInv, NEW h \in Handler, pc[h] = "done", current # 0,
                      invocation[local[h].invocation].experiment = current
               PROVE  \E o \in Reported : h \in Recorded(o)
    BY DEF NoEventLost
  <2>1. PICK o \in Allocated : o = local[h].invocation /\ h \in Recorded(o) /\ InFile(o)
    BY DEF SerialInv, Kept
  <2> QED
    BY <2>1 DEF InFile, Reported, Known, Stored
<1>2. [Next]_vars => (Serial' <=> Serial)
  BY DEF Serial, Next, Handle, Restart, StartExperiment, DefineWorkflow, EndExperiment,
         ReceiveEvent, RejectEvent, MapFault, Fatal, Panic, LookupInvocation,
         RegisterInvocation, RegisterPanics, CheckCompletion, CheckPanics, RemoveRead,
         RemovePanics, RemoveWrite, CompareDuration, SetDuration, SetStatus, AppendRead,
         AppendStore, vars
<1> QED
  BY InitIInv, NextIInv, InitSerialInv, NextSerialInv, <1>1, <1>2, PTL DEF Spec, SerialLosesNothing

-------------------------------------------------------------------------------
(* That the server implements TimeseriesSpec rests on an account of every  *)
(* Invocation of the running experiment (Tallied): each handler whose      *)
(* event has matched took one descriptor away, is credited when it is past *)
(* onCompletionEvent, and the duration is the longest of those credited or *)
(* about to be.                                                            *)
IsCredited(h) == local[h].isCompletion /\ pc[h] \in {"append", "store", "done"}
CreditedIn(o) == {h \in Handler : IsCredited(h) /\ local[h].invocation = o}
RemovedFrom(o) == {h \in Handler : pc[h] \in {"compare", "duration", "status"}
                                   /\ local[h].invocation = o}
Removals(o) == CreditedIn(o) \cup RemovedFrom(o)
Timed(o) == CreditedIn(o) \cup {h \in Handler : pc[h] = "status" /\ local[h].invocation = o}

Descriptors(o) == workflows[invocation[o].experiment][invocation[o].workflow]

Tallied(o) ==
  LET v == invocation[o] IN
  /\ IsFiniteSet(Removals(o))
  /\ v.len + Cardinality(Removals(o)) = Len(Descriptors(o))
  /\ v.status = "COMPLETED" <=> v.len = 0 /\ RemovedFrom(o) = {} /\ CreditedIn(o) # {}
  /\ v.duration = Nil <=> Timed(o) = {}
  /\ v.duration # Nil => /\ \E h \in Timed(o) : SinceInvocation(h) = v.duration
                         /\ \A h \in Timed(o) : SinceInvocation(h) <= v.duration
  /\ \A k \in 1..v.len : \E j \in 1..Len(Descriptors(o)) : v.descriptors[k] = Descriptors(o)[j]

(* What a handler in onCompletionEvent knows: it works on one Invocation   *)
(* throughout, and its event has matched.  No later experiment has         *)
(* Invocations yet.                                                        *)
Completing == {"remove", "shrink", "compare", "duration", "status"}

Matched(h) ==
  LET o == local[h].invocation
      v == invocation[o] IN
  /\ pc[h] \in {"idle", "lookup", "register", "check"} => ~local[h].isCompletion
  /\ pc[h] \in Completing => local[h].isCompletion
  /\ pc[h] \in Steps \ {"lookup", "register"} =>
       \A x \in Experiment : x > v.experiment => Vacant(x)
  /\ pc[h] \in Completing \ {"remove"} => local[h].target = o
  /\ pc[h] = "shrink" => local[h].len = v.len
  /\ pc[h] = "duration" => Longer(SinceInvocation(h), v.duration)
  /\ pc[h] \in Completing /\ v.experiment = current =>
       Matching(event[h].attributes, Descriptors(o), Len(Descriptors(o))) # {}

FiledInMap ==
  \A x \in Experiment, w \in WorkflowId, i \in InvocationId :
    invocations[x][w][i] # Nil => invocation[invocations[x][w][i]].experiment = x

DefinitionsKept ==
  /\ \A x \in Experiment : x > created => DOMAIN workflows[x] = {}
  /\ \A w \in DOMAIN toDefine : /\ w \notin DOMAIN workflows[current]
                                /\ \E d \in Definitions : w \in DOMAIN d /\ d[w] = toDefine[w]

AtomicInv ==
  /\ FiledInMap
  /\ DefinitionsKept
  /\ \A o \in Allocated : invocation[o].experiment = current => Tallied(o)
  /\ \A h \in Handler : Matched(h)

(* The initial state satisfies it. *)
LEMMA InitAtomicInv == Init => AtomicInv
BY DEF Init, AtomicInv, FiledInMap, DefinitionsKept, Allocated, Matched, Experiment, Empty,
       Steps, Completing, NoLocals

(* An Invocation stays tallied as long as it and the handlers counted for  *)
(* it stay the same.                                                       *)
LEMMA TalliedFrame ==
  ASSUME NEW o \in Handler, Tallied(o),
         invocation'[o].len = invocation[o].len,
         invocation'[o].status = invocation[o].status,
         invocation'[o].duration = invocation[o].duration,
         invocation'[o].descriptors = invocation[o].descriptors,
         Descriptors(o)' = Descriptors(o),
         CreditedIn(o)' = CreditedIn(o), RemovedFrom(o)' = RemovedFrom(o), Timed(o)' = Timed(o),
         \A h \in Timed(o) : SinceInvocation(h)' = SinceInvocation(h)
  PROVE  Tallied(o)'
<1>1. Removals(o)' = Removals(o)
  BY DEF Removals
<1> QED
  BY <1>1 DEF Tallied

(* Whether h is counted for some Invocation. *)
Counted(h) == IsCredited(h) \/ pc[h] \in {"compare", "duration", "status"}

(* A step that takes no handler from one count to another. *)
LEMMA CountedFrame ==
  ASSUME NEW o \in Handler,
         \A h \in Handler :
            \/ /\ pc'[h] = pc[h] \/ {pc[h], pc'[h]} \subseteq {"append", "store", "done"}
               /\ local'[h].invocation = local[h].invocation
               /\ local'[h].isCompletion = local[h].isCompletion
            \/ local[h].invocation # o /\ local'[h].invocation # o
            \/ ~Counted(h) /\ ~Counted(h)'
  PROVE  CreditedIn(o)' = CreditedIn(o) /\ RemovedFrom(o)' = RemovedFrom(o) /\ Timed(o)' = Timed(o)
<1>1. CreditedIn(o)' = CreditedIn(o)
  BY DEF CreditedIn, IsCredited, Counted
<1>2. RemovedFrom(o)' = RemovedFrom(o)
  BY DEF RemovedFrom, Counted
<1>3. {h \in Handler : pc[h] = "status" /\ local[h].invocation = o}'
        = {h \in Handler : pc[h] = "status" /\ local[h].invocation = o}
  BY DEF Counted
<1> QED
  BY <1>1, <1>2, <1>3 DEF Timed

(* What remains to be shown of a step of the running handler. *)
LEMMA AtomicStep ==
  ASSUME IInv, SerialInv, AtomicInv, NEW h \in Handler, pc[h] \in Steps,
         UNCHANGED <<current, created, toDefine, workflows>>,
         \A g \in Handler \ {h} : pc'[g] = pc[g] /\ local'[g] = local[g],
         FiledInMap', Matched(h)',
         \A o \in Allocated' : invocation'[o].experiment = current => Tallied(o)'
  PROVE  AtomicInv'
<1>1. ASSUME NEW g \in Handler \ {h} PROVE Matched(g)'
  <2>1. pc'[g] \notin Steps /\ Matched(g) /\ pc'[g] = pc[g] /\ local'[g] = local[g]
    BY OthersRest DEF AtomicInv
  <2> QED
    BY <2>1 DEF Matched, Steps, Completing
<1>2. DefinitionsKept'
  BY DEF AtomicInv, DefinitionsKept
<1> QED
  BY <1>1, <1>2 DEF AtomicInv

(* A handler that is not counted before or after changes no tally. *)
LEMMA AtomicQuiet ==
  ASSUME IInv, SerialInv, AtomicInv, NEW h \in Handler, pc[h] \in Steps,
         UNCHANGED <<current, created, toDefine, workflows, invocations, invocation, event, now>>,
         \A g \in Handler \ {h} : pc'[g] = pc[g] /\ local'[g] = local[g],
         ~Counted(h), ~Counted(h)', Matched(h)'
  PROVE  AtomicInv'
<1>1. FiledInMap'
  BY DEF AtomicInv, FiledInMap
<1>2. ASSUME NEW o \in Allocated', invocation'[o].experiment = current PROVE Tallied(o)'
  <2>1. o \in Handler /\ Tallied(o)
    BY <1>2 DEF AtomicInv, Allocated
  <2>2. CreditedIn(o)' = CreditedIn(o) /\ RemovedFrom(o)' = RemovedFrom(o) /\ Timed(o)' = Timed(o)
    BY <2>1, CountedFrame
  <2>3. Descriptors(o)' = Descriptors(o) /\ \A g : SinceInvocation(g)' = SinceInvocation(g)
    BY DEF Descriptors, SinceInvocation
  <2> QED
    BY <2>1, <2>2, <2>3, TalliedFrame
<1> QED
  BY <1>1, <1>2, AtomicStep

(* A handler past the lookup may change the tally of its Invocation, and   *)
(* of no other.                                                            *)
LEMMA AtomicAssign ==
  ASSUME IInv, SerialInv, AtomicInv, NEW h \in Handler, pc[h] \in Steps,
         UNCHANGED <<current, created, toDefine, workflows, invocations, event, now>>,
         \A g \in Handler \ {h} : pc'[g] = pc[g] /\ local'[g] = local[g],
         NEW o \in Handler, local[h].invocation = o, local'[h].invocation = o,
         invocation[o] # Nil, invocation'[o] # Nil,
         invocation'[o].experiment = invocation[o].experiment,
         \A q \in Handler \ {o} : invocation'[q] = invocation[q],
         invocation[o].experiment = current => Tallied(o)',
         Matched(h)'
  PROVE  AtomicInv'
<1>1. FiledInMap'
  <2>1. ASSUME NEW x \in Experiment, NEW w \in WorkflowId, NEW i \in InvocationId,
               invocations[x][w][i] # Nil
        PROVE  invocation'[invocations[x][w][i]].experiment = x
    <3>1. PICK q \in Handler : q = invocations[x][w][i] /\ invocation[q].experiment = x
      BY <2>1 DEF AtomicInv, FiledInMap, IInv, TypeOK, StoreTypeOK
    <3> QED
      BY <3>1
  <2> QED
    BY <2>1 DEF FiledInMap
<1>2. ASSUME NEW q \in Allocated', invocation'[q].experiment = current PROVE Tallied(q)'
  <2>1. CASE q # o
    <3>1. q \in Handler /\ Tallied(q) /\ invocation'[q] = invocation[q]
      BY <1>2, <2>1 DEF AtomicInv, Allocated
    <3>2. CreditedIn(q)' = CreditedIn(q) /\ RemovedFrom(q)' = RemovedFrom(q) /\ Timed(q)' = Timed(q)
      BY <2>1, <3>1, CountedFrame
    <3>3. Descriptors(q)' = Descriptors(q) /\ \A g : SinceInvocation(g)' = SinceInvocation(g)
      BY <3>1 DEF Descriptors, SinceInvocation
    <3> QED
      BY <3>1, <3>2, <3>3, TalliedFrame
  <2> QED
    BY <1>2, <2>1
<1> QED
  BY <1>1, <1>2, AtomicStep

(* A new experiment and the end of the process leave no Invocation of the  *)
(* running experiment, and a workflow that is installed is a new one.      *)
LEMMA ExperimentAtomic ==
  ASSUME IInv, SerialInv, AtomicInv,
         \/ Restart
         \/ \E d \in Definitions : StartExperiment(d)
         \/ \E w \in WorkflowId : DefineWorkflow(w)
         \/ EndExperiment
         \/ Fatal
         \/ UNCHANGED vars
  PROVE  AtomicInv'
<1>1. UNCHANGED <<invocations, invocation, event, now, local>>
  BY DEF Restart, StartExperiment, DefineWorkflow, EndExperiment, Fatal, vars, server
<1>2. \A g \in Handler : pc'[g] = pc[g] \/ pc'[g] = "killed"
  BY DEF Restart, StartExperiment, DefineWorkflow, EndExperiment, Fatal, vars,
         IInv, TypeOK, HandlerTypeOK
<1>3. FiledInMap'
  BY <1>1 DEF AtomicInv, FiledInMap
<1>4. created \in Nat /\ created <= MaxExperiments /\ current \in {0, created}
  BY ConstantsAssumption DEF SerialInv, IInv, TypeOK, ServerTypeOK
<1>5. \A o \in Allocated : /\ o \in Handler /\ invocation[o].experiment \in 1..created
                           /\ invocation[o].workflow \in DOMAIN workflows[invocation[o].experiment]
  <2>1. ASSUME NEW o \in Allocated
        PROVE  /\ invocation[o].experiment \in 1..created
               /\ invocation[o].workflow \in DOMAIN workflows[invocation[o].experiment]
    <3>1. /\ o \in Handler /\ o # Nil
          /\ invocation[o].experiment \in Experiment
          /\ invocation[o].workflow \in WorkflowId /\ invocation[o].id \in InvocationId
      BY ConstantsAssumption DEF IInv, TypeOK, StoreTypeOK, Allocated, Invocation
    <3>2. InFile(o)
      BY DEF SerialInv
    <3>3. ~(invocation[o].experiment > created)
      BY <3>1, <3>2 DEF SerialInv, InFile, Vacant
    <3> QED
      BY <1>4, <3>1, <3>2, <3>3 DEF InFile, Experiment
  <2> QED
    BY <2>1 DEF Allocated
<1>6. DefinitionsKept'
  <2>1. CASE \E d \in Definitions : StartExperiment(d)
    <3>1. PICK d \in Definitions : toDefine' = d
      BY <2>1 DEF StartExperiment
    <3>2. /\ current' = created + 1 /\ created' = created + 1 /\ workflows' = workflows
          /\ created + 1 \in Experiment
      BY <1>4, <2>1, ConstantsAssumption DEF StartExperiment, Experiment
    <3>3. \A x \in Experiment : x > created => DOMAIN workflows[x] = {}
      BY DEF AtomicInv, DefinitionsKept
    <3>4. DOMAIN workflows[created + 1] = {}
      BY <1>4, <3>2, <3>3
    <3>5. \A x \in Experiment : x > created + 1 => DOMAIN workflows[x] = {}
      BY <1>4, <3>3, ConstantsAssumption DEF Experiment
    <3> QED
      BY <3>1, <3>2, <3>4, <3>5 DEF DefinitionsKept
  <2>2. ASSUME NEW w \in WorkflowId, DefineWorkflow(w) PROVE DefinitionsKept'
    <3>1. /\ w \in DOMAIN toDefine /\ current' = current /\ created' = created
          /\ DOMAIN toDefine' = DOMAIN toDefine \ {w}
          /\ \A v \in DOMAIN toDefine \ {w} : toDefine'[v] = toDefine[v]
      BY <2>2 DEF DefineWorkflow
    <3>2. current \in Experiment
      BY <1>4, <3>1, ConstantsAssumption DEF IInv, TypeOK, ServerTypeOK, Empty, Experiment
    <3>3. /\ DOMAIN workflows'[current] = DOMAIN workflows[current] \cup {w}
          /\ \A x \in Experiment \ {current} : workflows'[x] = workflows[x]
      BY <2>2, <3>2 DEF DefineWorkflow, IInv, TypeOK, ServerTypeOK
    <3>4. ~(current > created)
      BY <1>4
    <3> QED
      BY <3>1, <3>2, <3>3, <3>4 DEF AtomicInv, DefinitionsKept
  <2>3. CASE Fatal
    BY <2>3 DEF Fatal, AtomicInv, DefinitionsKept, Empty
  <2>4. CASE UNCHANGED <<workflows, toDefine, current, created>>
    BY <2>4 DEF AtomicInv, DefinitionsKept
  <2> QED
    BY <2>1, <2>2, <2>3, <2>4 DEF Restart, EndExperiment, vars, server
<1>7. \A o \in Allocated : Descriptors(o)' = Descriptors(o)
  <2>1. CASE workflows' = workflows
    BY <1>1, <2>1 DEF Descriptors
  <2>2. ASSUME NEW w \in WorkflowId, DefineWorkflow(w), NEW o \in Allocated
        PROVE  Descriptors(o)' = Descriptors(o)
    <3>1. PICK x \in Experiment, v \in WorkflowId :
            /\ x = invocation[o].experiment /\ v = invocation[o].workflow
            /\ v \in DOMAIN workflows[x]
      BY <1>5 DEF IInv, TypeOK, StoreTypeOK, Allocated, Invocation
    <3>2. w \notin DOMAIN workflows[current] /\ DOMAIN workflows = Experiment
      BY <2>2 DEF AtomicInv, DefinitionsKept, DefineWorkflow, IInv, TypeOK, ServerTypeOK
    <3>3. workflows'[x][v] = workflows[x][v]
      BY <2>2, <3>1, <3>2 DEF DefineWorkflow
    <3> QED
      BY <1>1, <3>1, <3>3 DEF Descriptors
  <2> QED
    BY <2>1, <2>2 DEF Restart, StartExperiment, EndExperiment, Fatal, vars, server
<1>8. \/ current' = current /\ pc' = pc
      \/ \A o \in Allocated : invocation[o].experiment # current'
  <2>1. CASE \E d \in Definitions : StartExperiment(d)
    BY <1>4, <1>5, <2>1 DEF StartExperiment
  <2>2. CASE Fatal
    BY <1>4, <1>5, <2>2 DEF Fatal
  <2> QED
    BY <2>1, <2>2 DEF Restart, DefineWorkflow, EndExperiment, vars, server
<1>9. ASSUME NEW o \in Allocated', invocation'[o].experiment = current' PROVE Tallied(o)'
  <2>1. /\ o \in Allocated /\ o \in Handler /\ invocation'[o] = invocation[o]
        /\ current' = current /\ pc' = pc
    BY <1>1, <1>8, <1>9 DEF Allocated
  <2>2. Tallied(o) /\ Descriptors(o)' = Descriptors(o)
    BY <1>7, <1>9, <2>1 DEF AtomicInv
  <2>3. CreditedIn(o)' = CreditedIn(o) /\ RemovedFrom(o)' = RemovedFrom(o) /\ Timed(o)' = Timed(o)
    BY <1>1, <2>1, CountedFrame
  <2>4. \A g : SinceInvocation(g)' = SinceInvocation(g)
    BY <1>1 DEF SinceInvocation
  <2> QED
    BY <2>1, <2>2, <2>3, <2>4, TalliedFrame
<1>10. ASSUME NEW g \in Handler PROVE Matched(g)'
  <2>1. Matched(g) /\ SinceInvocation(g)' = SinceInvocation(g)
    BY <1>1 DEF AtomicInv, SinceInvocation
  <2>2. pc'[g] \in Completing => local[g].invocation \in Allocated
    BY <1>2, RunningHandler DEF Completing, Steps, Allocated
  <2>3. pc'[g] \in Completing /\ invocation'[local'[g].invocation].experiment = current'
          => Matching(event[g].attributes, Descriptors(local[g].invocation),
                      Len(Descriptors(local[g].invocation)))' # {}
    <3> SUFFICES ASSUME pc'[g] \in Completing,
                        invocation'[local'[g].invocation].experiment = current'
                 PROVE  Matching(event[g].attributes, Descriptors(local[g].invocation),
                                 Len(Descriptors(local[g].invocation)))' # {}
      OBVIOUS
    <3>1. PICK o \in Allocated : o = local[g].invocation
      BY <2>2
    <3>2. current' = current /\ pc' = pc /\ Descriptors(o)' = Descriptors(o)
      BY <1>1, <1>7, <1>8, <3>1
    <3>3. Matching(event[g].attributes, Descriptors(o), Len(Descriptors(o))) # {}
      BY <1>1, <2>1, <3>1, <3>2 DEF Matched
    <3>4. Descriptors(local[g].invocation)' = Descriptors(o)
      BY <1>1, <3>1, <3>2 DEF Descriptors
    <3> QED
      BY <1>1, <3>3, <3>4
  <2> QED
    BY <1>1, <1>2, <2>1, <2>3 DEF Matched, Steps, Completing, Vacant
<1> QED
  BY <1>3, <1>6, <1>9, <1>10 DEF AtomicInv

(* A handler whose event has been credited or is about to be refers to an  *)
(* Invocation of the event's workflow and id, and has a latency.           *)
LEMMA CountedHandler ==
  ASSUME IInv, RecordInv, SerialInv, NEW h \in Handler,
         pc[h] \in Steps \ {"lookup", "register"} \/ pc[h] = "done"
  PROVE  /\ local[h].invocation \in Allocated
         /\ event[h].workflow = invocation[local[h].invocation].workflow
         /\ event[h].id = invocation[local[h].invocation].id
         /\ SinceInvocation(h) \in Int
<1>1. /\ local[h].invocation \in Allocated
      /\ event[h].workflow = invocation[local[h].invocation].workflow
      /\ event[h].id = invocation[local[h].invocation].id
  <2>1. CASE pc[h] = "done"
    <3>1. PICK o \in Allocated : o = local[h].invocation /\ h \in Recorded(o)
      BY <2>1 DEF SerialInv, Kept
    <3>2. event[h].workflow = invocation[o].workflow /\ event[h].id = invocation[o].id
      BY <3>1 DEF RecordInv, HasRecords, Recorded, Allocated
    <3> QED
      BY <3>1, <3>2
  <2>2. CASE pc[h] # "done"
    BY <2>2, RunningHandler DEF RecordInv, Follows, Allocated
  <2> QED
    BY <2>1, <2>2
<1>2. invocation[local[h].invocation].id \in InvocationId
  BY <1>1 DEF IInv, TypeOK, StoreTypeOK, Allocated, Invocation
<1> QED
  BY <1>1, <1>2, ConstantsAssumption DEF SinceInvocation, IInv, TypeOK, HandlerTypeOK

(* What a further lookup in s.workflows finds, if anything, is the         *)
(* Invocation the first one found or registered.                           *)
LEMMA FoundAgain ==
  ASSUME IInv, RecordInv, SerialInv, AtomicInv, NEW h \in Handler, pc[h] \in {"check", "remove"},
         ~Dangling(event[h].workflow, event[h].id)
  PROVE  /\ Stored(event[h].workflow, event[h].id) = local[h].invocation
         /\ invocation[local[h].invocation].experiment = current
<1>1. PICK w \in WorkflowId, i \in InvocationId : w = event[h].workflow /\ i = event[h].id
  BY RunningHandler DEF Event, Steps
<1>2. PICK o \in Allocated : /\ o = local[h].invocation
                             /\ invocation[o].workflow = w /\ invocation[o].id = i
  BY <1>1, CountedHandler DEF Steps
<1>3. invocation[o].experiment \in Experiment /\ o \in Handler /\ o # Nil
  BY ConstantsAssumption DEF Allocated, IInv, TypeOK, StoreTypeOK, Invocation
<1>4. current \in Experiment /\ invocations[current][w][i] # Nil
  BY <1>1, StoredInvocation, ConstantsAssumption DEF Stored
<1>5. ~(current > invocation[o].experiment)
  <2>1. \A x \in Experiment : x > invocation[o].experiment => Vacant(x)
    BY <1>2 DEF AtomicInv, Matched, Steps
  <2> QED
    BY <1>4, <2>1 DEF Vacant
<1>6. invocations[invocation[o].experiment][w][i] = o
  BY <1>2 DEF SerialInv, InFile
<1>7. ~(invocation[o].experiment > created)
  BY <1>3, <1>6 DEF SerialInv, Vacant
<1>8. current = created
  BY <1>4 DEF SerialInv, Experiment
<1>9. invocation[o].experiment = current
  BY <1>3, <1>4, <1>5, <1>7, <1>8 DEF Experiment
<1> QED
  BY <1>1, <1>2, <1>6, <1>9 DEF Stored

(* The event of an idle handler counts nowhere yet. *)
LEMMA ReceiveAtomic ==
  ASSUME IInv, SerialInv, AtomicInv, Serial, NEW h \in Handler, NEW w \in WorkflowId,
         NEW i \in InvocationId, NEW a \in Attributes, ReceiveEvent(h, w, i, a)
  PROVE  AtomicInv'
<1>1. \A g \in Handler : pc[g] \notin Steps
  BY NoneRunning DEF ReceiveEvent, IInv, TypeOK, ServerTypeOK, Running
<1>2. /\ UNCHANGED <<current, created, toDefine, workflows, invocations, invocation>>
      /\ pc[h] = "idle" /\ pc'[h] = "lookup" /\ local'[h].isCompletion = local[h].isCompletion
      /\ \A g \in Handler \ {h} : /\ pc'[g] = pc[g] /\ local'[g] = local[g]
                                  /\ event'[g] = event[g] /\ now'[g] = now[g]
  BY DEF ReceiveEvent, server, IInv, TypeOK, HandlerTypeOK, Locals
<1>3. FiledInMap' /\ DefinitionsKept'
  BY <1>2 DEF AtomicInv, FiledInMap, DefinitionsKept
<1>4. ASSUME NEW g \in Handler PROVE Matched(g)'
  <2>1. Matched(g)
    BY DEF AtomicInv
  <2> QED
    BY <1>1, <1>2, <2>1 DEF Matched, Completing, Steps
<1>5. ASSUME NEW o \in Allocated', invocation'[o].experiment = current' PROVE Tallied(o)'
  <2>1. o \in Handler /\ Tallied(o) /\ Descriptors(o)' = Descriptors(o)
    BY <1>2, <1>5 DEF AtomicInv, Allocated, Descriptors
  <2>2. CreditedIn(o)' = CreditedIn(o) /\ RemovedFrom(o)' = RemovedFrom(o) /\ Timed(o)' = Timed(o)
    BY <1>2, <2>1, CountedFrame DEF Counted, IsCredited
  <2>3. \A g \in Timed(o) : SinceInvocation(g)' = SinceInvocation(g)
    BY <1>2 DEF Timed, CreditedIn, IsCredited, SinceInvocation
  <2> QED
    BY <1>2, <2>1, <2>2, <2>3, TalliedFrame
<1> QED
  BY <1>3, <1>4, <1>5 DEF AtomicInv

(* Nor does that of one that panics. *)
LEMMA PanicAtomic ==
  ASSUME IInv, SerialInv, AtomicInv, NEW h \in Handler, pc[h] \in {"register", "check", "remove"},
         Panic(h)
  PROVE  AtomicInv'
<1>1. /\ UNCHANGED <<current, created, toDefine, workflows, invocations, invocation, event, now>>
      /\ pc'[h] = "panicked" /\ pc[h] \in Steps
      /\ \A g \in Handler \ {h} : pc'[g] = pc[g] /\ local'[g] = local[g]
  BY DEF Panic, server, IInv, TypeOK, HandlerTypeOK, Steps
<1>2. ~Counted(h) /\ ~Counted(h)' /\ Matched(h)'
  BY <1>1 DEF Counted, IsCredited, Matched, Steps, Completing
<1> QED
  BY <1>1, <1>2, AtomicQuiet

(* What the lookup finds belongs to the map it looks in. *)
LEMMA LookupAtomic ==
  ASSUME IInv, SerialInv, AtomicInv, NEW h \in Handler, LookupInvocation(h)
  PROVE  AtomicInv'
<1>1. /\ pc[h] = "lookup" /\ pc[h] \in Steps /\ event[h] \in Event
      /\ local[h].workflow \in Experiment
  BY RunningHandler DEF LookupInvocation, Steps
<1>2. PICK x \in Experiment, w \in WorkflowId, i \in InvocationId :
         x = local[h].workflow /\ w = event[h].workflow /\ i = event[h].id
  BY <1>1 DEF Event
<1>3. /\ UNCHANGED <<current, created, toDefine, workflows, invocations, invocation, event, now>>
      /\ \A g \in Handler \ {h} : pc'[g] = pc[g] /\ local'[g] = local[g]
      /\ local'[h].invocation = invocations[x][w][i]
      /\ local'[h].isCompletion = local[h].isCompletion
      /\ pc'[h] = AfterLookup(invocations[x][w][i])
  BY <1>2 DEF LookupInvocation, server, IInv, TypeOK, HandlerTypeOK, Locals
<1>4. ~Counted(h) /\ ~Counted(h)'
  BY <1>1, <1>3 DEF Counted, IsCredited, AfterLookup
<1>5. Matched(h)'
  <2>1. ~local[h].isCompletion
    BY <1>1 DEF AtomicInv, Matched
  <2>2. CASE invocations[x][w][i] = Nil
    BY <1>3, <2>1, <2>2 DEF Matched, AfterLookup, Steps, Completing
  <2>3. CASE invocations[x][w][i] # Nil
    <3>1. invocation[invocations[x][w][i]].experiment = x
      BY <2>3 DEF AtomicInv, FiledInMap
    <3>2. \A y \in Experiment : y > x => Vacant(y)
      BY <1>1, <1>2 DEF SerialInv, Arriving
    <3>3. pc'[h] = "check"
      BY <1>3, <2>3 DEF AfterLookup
    <3> QED
      BY <1>3, <2>1, <3>1, <3>2, <3>3 DEF Matched, Vacant, Completing
  <2> QED
    BY <2>2, <2>3
<1> QED
  BY <1>1, <1>3, <1>4, <1>5, AtomicQuiet

(* A new Invocation counts no handler and has all descriptors.             *)
LEMMA RegisterAtomic ==
  ASSUME IInv, RecordInv, SerialInv, AtomicInv, NEW h \in Handler, RegisterInvocation(h)
  PROVE  AtomicInv'
<1>1. /\ pc[h] = "register" /\ pc[h] \in Steps /\ invocation[h] = Nil
      /\ current \in Experiment /\ current = created
  BY RunningHandler, ConstantsAssumption
  DEF RegisterInvocation, Steps, SerialInv, IInv, TypeOK, ServerTypeOK, HandlerOK, Known, Experiment
<1>2. PICK w \in WorkflowId, i \in InvocationId : w = event[h].workflow /\ i = event[h].id
  BY <1>1, RunningHandler DEF Event
<1>3. PICK new : new = NewInvocation(w, i)
  OBVIOUS
<1>4. /\ invocation'[h] = new
      /\ \A o \in Handler \ {h} : invocation'[o] = invocation[o]
      /\ \A x \in Experiment, v \in WorkflowId, j \in InvocationId :
            \/ invocations'[x][v][j] = invocations[x][v][j]
            \/ x = current /\ v = w /\ j = i /\ invocations'[x][v][j] = h
      /\ \A g \in Handler \ {h} : pc'[g] = pc[g] /\ local'[g] = local[g]
      /\ pc'[h] = "check" /\ local'[h].invocation = h
      /\ local'[h].isCompletion = local[h].isCompletion
      /\ UNCHANGED <<event, now, current, created, toDefine, workflows>>
  BY <1>1, <1>2, <1>3
  DEF RegisterInvocation, IInv, TypeOK, StoreTypeOK, HandlerTypeOK, Locals
<1>5. /\ new.workflow = w /\ new.id = i /\ new.experiment = current
      /\ new.descriptors = workflows[current][w] /\ new.len = Len(workflows[current][w])
      /\ new.status = "CANCELLED" /\ new.duration = Nil
  BY <1>3 DEF NewInvocation
<1>6. FiledInMap'
  <2>1. ASSUME NEW x \in Experiment, NEW v \in WorkflowId, NEW j \in InvocationId,
               invocations'[x][v][j] # Nil
        PROVE  invocation'[invocations'[x][v][j]].experiment = x
    <3>1. CASE invocations'[x][v][j] = invocations[x][v][j]
      <4>1. PICK o \in Handler : /\ o = invocations[x][v][j] /\ invocation[o] # Nil
                                 /\ invocation[o].experiment = x
        BY <2>1, <3>1 DEF AtomicInv, FiledInMap, IInv, TypeOK, StoreTypeOK, StoreInv
      <4> QED
        BY <1>1, <1>4, <3>1, <4>1
    <3>2. CASE x = current /\ invocations'[x][v][j] = h
      BY <1>4, <1>5, <3>2
    <3> QED
      BY <1>4, <3>1, <3>2
  <2> QED
    BY <2>1 DEF FiledInMap
<1>7. ~Counted(h) /\ ~Counted(h)'
  BY <1>1, <1>4 DEF Counted, IsCredited
<1>8. ASSUME NEW o \in Allocated', invocation'[o].experiment = current PROVE Tallied(o)'
  <2>1. CASE o # h
    <3>1. o \in Handler /\ Tallied(o) /\ invocation'[o] = invocation[o]
      BY <1>4, <1>8, <2>1 DEF AtomicInv, Allocated
    <3>2. CreditedIn(o)' = CreditedIn(o) /\ RemovedFrom(o)' = RemovedFrom(o) /\ Timed(o)' = Timed(o)
      BY <1>4, <1>7, <3>1, CountedFrame
    <3>3. Descriptors(o)' = Descriptors(o) /\ \A g : SinceInvocation(g)' = SinceInvocation(g)
      BY <1>4, <3>1 DEF Descriptors, SinceInvocation
    <3> QED
      BY <3>1, <3>2, <3>3, TalliedFrame
  <2>2. CASE o = h
    <3>1. \A g \in Handler : Counted(g)' => local'[g].invocation # h
      <4>1. ASSUME NEW g \in Handler \ {h}, Counted(g) PROVE local[g].invocation # h
        BY <1>1, <4>1, CountedHandler DEF Counted, IsCredited, Steps, Allocated
      <4> QED
        BY <1>4, <1>7, <4>1 DEF Counted, IsCredited
    <3>2. CreditedIn(h)' = {} /\ RemovedFrom(h)' = {} /\ Timed(h)' = {}
      BY <3>1 DEF CreditedIn, RemovedFrom, Timed, Counted
    <3>3. Removals(h)' = {} /\ IsFiniteSet({}) /\ Cardinality({}) = 0
      BY <3>2, FS_EmptySet DEF Removals
    <3>4. Descriptors(h)' = workflows[current][w]
      BY <1>4, <1>5 DEF Descriptors
    <3>5. Len(workflows[current][w]) \in Nat
      BY <1>1, <1>2 DEF IInv, TypeOK, ServerTypeOK, RegisterInvocation, Known
    <3> QED
      BY <1>4, <1>5, <2>2, <3>2, <3>3, <3>4, <3>5 DEF Tallied
  <2> QED
    BY <2>1, <2>2
<1>9. Matched(h)'
  <2>1. ~local[h].isCompletion /\ \A x \in Experiment : x > current => Vacant(x)
    BY <1>1 DEF AtomicInv, SerialInv, Matched
  <2>2. \A x \in Experiment : x > current => Vacant(x)'
    BY <1>1, <1>4, <2>1 DEF Vacant, Experiment
  <2> QED
    BY <1>4, <1>5, <2>1, <2>2 DEF Matched, Completing
<1> QED
  BY <1>1, <1>4, <1>6, <1>8, <1>9, AtomicStep

(* An event that matches what is left of the descriptors matches one of    *)
(* the workflow's.                                                         *)
LEMMA CheckAtomic ==
  ASSUME IInv, RecordInv, SerialInv, AtomicInv, NEW h \in Handler, CheckCompletion(h)
  PROVE  AtomicInv'
<1>1. pc[h] = "check" /\ pc[h] \in Steps /\ ~Dangling(event[h].workflow, event[h].id)
      /\ local[h] \in Locals
  BY RunningHandler DEF CheckCompletion, Steps
<1>2. PICK o \in Allocated : /\ o = local[h].invocation
                             /\ Stored(event[h].workflow, event[h].id) = o
                             /\ invocation[o].experiment = current
  BY <1>1, FoundAgain, CountedHandler DEF Steps
<1>3. PICK matching : matching = Matching(event[h].attributes, invocation[o].descriptors, invocation[o].len)
  OBVIOUS
<1>4. /\ UNCHANGED <<current, created, toDefine, workflows, invocations, invocation, event, now>>
      /\ \A g \in Handler \ {h} : pc'[g] = pc[g] /\ local'[g] = local[g]
      /\ local'[h].invocation = o
      /\ \/ pc'[h] = "remove" /\ local'[h].isCompletion = TRUE /\ matching # {}
         \/ pc'[h] = "append" /\ local'[h].isCompletion = local[h].isCompletion
  <2>1. CASE matching # {}
    <3>1. PICK k : local' = [local EXCEPT ![h].descriptorIdx = k, ![h].isCompletion = TRUE]
      BY <1>2, <1>3, <2>1 DEF CheckCompletion
    <3>2. pc' = [pc EXCEPT ![h] = "remove"]
      BY <1>2, <1>3, <2>1 DEF CheckCompletion
    <3>3. local'[h].invocation = o /\ local'[h].isCompletion = TRUE
          /\ \A g \in Handler \ {h} : local'[g] = local[g]
      BY <1>1, <1>2, <3>1 DEF IInv, TypeOK, HandlerTypeOK, Locals
    <3> QED
      BY <2>1, <3>2, <3>3 DEF CheckCompletion, server, IInv, TypeOK, HandlerTypeOK
  <2>2. CASE matching = {}
    BY <1>2, <1>3, <2>2 DEF CheckCompletion, server, IInv, TypeOK, HandlerTypeOK
  <2> QED
    BY <2>1, <2>2
<1>5. Matched(h)
  BY DEF AtomicInv
<1>6. ~Counted(h) /\ ~Counted(h)'
  BY <1>1, <1>4, <1>5 DEF Counted, IsCredited, Matched
<1>7. Matched(h)'
  <2>1. matching # {} => Matching(event[h].attributes, Descriptors(o), Len(Descriptors(o))) # {}
    <3> SUFFICES ASSUME NEW k \in matching
                 PROVE  Matching(event[h].attributes, Descriptors(o), Len(Descriptors(o))) # {}
      OBVIOUS
    <3>1. k \in 1..invocation[o].len /\ Matches(event[h].attributes, invocation[o].descriptors[k])
      BY <1>3 DEF Matching
    <3>2. PICK j \in 1..Len(Descriptors(o)) : invocation[o].descriptors[k] = Descriptors(o)[j]
      BY <1>2, <3>1 DEF AtomicInv, Tallied
    <3> QED
      BY <3>1, <3>2 DEF Matching
  <2>2. Descriptors(o)' = Descriptors(o) /\ Descriptors(local[h].invocation)' = Descriptors(o)
    BY <1>4 DEF Descriptors
  <2>3. pc'[h] \in Completing => local'[h].isCompletion
    BY <1>4 DEF Completing
  <2>4. \A x \in Experiment : x > invocation'[o].experiment => Vacant(x)'
    BY <1>1, <1>2, <1>4, <1>5 DEF Matched, Vacant
  <2>5. pc'[h] \in Completing =>
          Matching(event[h].attributes, Descriptors(local[h].invocation),
                   Len(Descriptors(local[h].invocation)))' # {}
    BY <1>4, <2>1, <2>2 DEF Completing
  <2> QED
    BY <1>4, <2>3, <2>4, <2>5 DEF Matched, Completing
<1> QED
  BY <1>1, <1>4, <1>6, <1>7, AtomicQuiet

(* The slice that is read is that of the handler's own Invocation. *)
LEMMA RemoveReadAtomic ==
  ASSUME IInv, RecordInv, SerialInv, AtomicInv, NEW h \in Handler, RemoveRead(h)
  PROVE  AtomicInv'
<1>1. pc[h] = "remove" /\ pc[h] \in Steps /\ ~Dangling(event[h].workflow, event[h].id)
      /\ local[h] \in Locals
  BY RunningHandler DEF RemoveRead, Steps
<1>2. PICK o \in Allocated : /\ o = local[h].invocation
                             /\ Stored(event[h].workflow, event[h].id) = o
  BY <1>1, FoundAgain, CountedHandler DEF Steps
<1>3. /\ UNCHANGED <<current, created, toDefine, workflows, invocations, invocation, event, now>>
      /\ \A g \in Handler \ {h} : pc'[g] = pc[g] /\ local'[g] = local[g]
      /\ pc'[h] = "shrink" /\ local'[h].invocation = o
      /\ local'[h].isCompletion = local[h].isCompletion
      /\ local'[h].target = o /\ local'[h].len = invocation[o].len
  BY <1>1, <1>2 DEF RemoveRead, server, IInv, TypeOK, HandlerTypeOK, Locals
<1>4. Matched(h)
  BY DEF AtomicInv
<1>5. ~Counted(h) /\ ~Counted(h)'
  BY <1>1, <1>3 DEF Counted, IsCredited
<1>6. Descriptors(local[h].invocation)' = Descriptors(o)
  BY <1>3 DEF Descriptors
<1>7. Matched(h)'
  BY <1>1, <1>2, <1>3, <1>4, <1>6 DEF Matched, Completing, Steps, Vacant
<1> QED
  BY <1>1, <1>3, <1>5, <1>7, AtomicQuiet

(* What the running handler and its Invocation are in onCompletionEvent.   *)
LEMMA AtWork ==
  ASSUME IInv, SerialInv, AtomicInv, NEW h \in Handler,
         pc[h] \in Steps \ {"lookup", "register"}
  PROVE  \E o \in Handler :
           /\ local[h].invocation = o /\ o \in Allocated /\ invocation[o] # Nil
           /\ invocation[o] \in Invocation
           /\ invocation[o].experiment = current => Tallied(o)
           /\ RemovedFrom(o) \subseteq {h}
<1>1. PICK o \in Handler : /\ local[h].invocation = o /\ invocation[o] # Nil
                           /\ invocation[o] \in Invocation
  BY RunningHandler DEF Steps
<1>2. RemovedFrom(o) \subseteq {h}
  BY OthersRest DEF RemovedFrom, Steps
<1> QED
  BY <1>1, <1>2 DEF AtomicInv, Allocated

(* Removing a descriptor counts the handler. *)
LEMMA RemoveWriteAtomic ==
  ASSUME IInv, RecordInv, SerialInv, AtomicInv, NEW h \in Handler, RemoveWrite(h)
  PROVE  AtomicInv'
<1>1. pc[h] = "shrink" /\ pc[h] \in Steps /\ local[h] \in Locals
  BY RunningHandler DEF RemoveWrite, Steps
<1>2. PICK o \in Handler :
        /\ local[h].invocation = o /\ invocation[o] # Nil /\ invocation[o] \in Invocation
        /\ invocation[o].experiment = current => Tallied(o)
        /\ RemovedFrom(o) \subseteq {h}
  BY <1>1, AtWork DEF Steps
<1>3. PICK n \in Nat, idx \in Nat, ds \in Seq(Matcher) :
        /\ n = invocation[o].len /\ idx = local[h].descriptorIdx /\ ds = invocation[o].descriptors
  BY <1>1, <1>2 DEF Locals, Invocation
<1>4. local[h].target = o /\ local[h].len = n /\ Matched(h)
  BY <1>1, <1>2, <1>3 DEF AtomicInv, Matched, Completing
<1>5. 1 <= idx /\ idx <= n /\ n <= Len(ds)
  BY <1>1, <1>2, <1>3, <1>4 DEF IInv, HandlerOK
<1>6. PICK new : new = [invocation[o] EXCEPT
                          !.descriptors = [k \in 1..Len(@) |-> IF k \in idx..(n - 1) THEN @[k + 1] ELSE @[k]],
                          !.len = n - 1]
  OBVIOUS
<1>7. /\ new.len = n - 1 /\ new.status = invocation[o].status
      /\ new.duration = invocation[o].duration
      /\ new.workflow = invocation[o].workflow /\ new.experiment = invocation[o].experiment
      /\ \A k \in 1..(n - 1) : \E j \in 1..n : new.descriptors[k] = ds[j]
  <2>1. new.descriptors = [k \in 1..Len(ds) |-> IF k \in idx..(n - 1) THEN ds[k + 1] ELSE ds[k]]
    BY <1>2, <1>3, <1>6 DEF Invocation
  <2>2. \A k \in 1..(n - 1) : k \in 1..Len(ds) /\ k \in 1..n /\ k + 1 \in 1..n
    BY <1>3, <1>5
  <2>3. \A k \in 1..(n - 1) : new.descriptors[k] = ds[k] \/ new.descriptors[k] = ds[k + 1]
    BY <2>1, <2>2
  <2> QED
    BY <1>2, <1>6, <2>2, <2>3 DEF Invocation
<1>8. /\ invocation' = [invocation EXCEPT ![o] = new]
      /\ pc' = [pc EXCEPT ![h] = "compare"]
      /\ UNCHANGED <<current, created, toDefine, workflows, invocations, event, now, local>>
  BY <1>3, <1>4, <1>6 DEF RemoveWrite, Remaining, server
<1>9. /\ invocation'[o] = new /\ \A q \in Handler \ {o} : invocation'[q] = invocation[q]
      /\ pc'[h] = "compare" /\ \A g \in Handler \ {h} : pc'[g] = pc[g]
  BY <1>8 DEF IInv, TypeOK, StoreTypeOK, HandlerTypeOK
<1>10. invocation'[o] # Nil
  BY <1>2, RemoveWriteIInv DEF SameRecords
<1>11. ASSUME invocation[o].experiment = current PROVE Tallied(o)'
  <2>1. Tallied(o)
    BY <1>2, <1>11
  <2>2. h \notin Removals(o)
    BY <1>1 DEF Removals, CreditedIn, RemovedFrom, IsCredited
  <2>3. /\ CreditedIn(o)' = CreditedIn(o) /\ Timed(o)' = Timed(o)
        /\ RemovedFrom(o)' = RemovedFrom(o) \cup {h}
    <3>1. CreditedIn(o)' = CreditedIn(o)
      BY <1>1, <1>8, <1>9 DEF CreditedIn, IsCredited
    <3>2. {g \in Handler : pc[g] = "status" /\ local[g].invocation = o}'
            = {g \in Handler : pc[g] = "status" /\ local[g].invocation = o}
      BY <1>1, <1>8, <1>9
    <3>3. RemovedFrom(o)' = RemovedFrom(o) \cup {h}
      BY <1>1, <1>2, <1>8, <1>9 DEF RemovedFrom
    <3> QED
      BY <3>1, <3>2, <3>3 DEF Timed
  <2>4. PICK R : R = Removals(o)
    OBVIOUS
  <2>5. IsFiniteSet(R) /\ h \notin R /\ Removals(o)' = R \cup {h}
    BY <2>1, <2>2, <2>3, <2>4 DEF Tallied, Removals
  <2>6. IsFiniteSet(R \cup {h}) /\ Cardinality(R \cup {h}) = Cardinality(R) + 1
        /\ Cardinality(R) \in Nat
    BY <2>5, FS_AddElement, FS_CardinalityType
  <2>7. Descriptors(o)' = Descriptors(o) /\ \A g : SinceInvocation(g)' = SinceInvocation(g)
    BY <1>7, <1>8, <1>9 DEF Descriptors, SinceInvocation
  <2>8. n + Cardinality(R) = Len(Descriptors(o))
    BY <1>3, <2>1, <2>4 DEF Tallied
  <2>9. invocation'[o].len + Cardinality(Removals(o)') = Len(Descriptors(o)')
    BY <1>7, <1>9, <2>5, <2>6, <2>7, <2>8
  <2>10. invocation[o].status # "COMPLETED"
    BY <1>3, <1>5, <2>1 DEF Tallied
  <2>11. \A k \in 1..new.len : \E j \in 1..Len(Descriptors(o)) : new.descriptors[k] = Descriptors(o)[j]
    BY <1>3, <1>7, <2>1 DEF Tallied
  <2>12. IsFiniteSet(Removals(o)')
    BY <2>5, <2>6
  <2>13. invocation'[o].status = "COMPLETED" <=>
           invocation'[o].len = 0 /\ RemovedFrom(o)' = {} /\ CreditedIn(o)' # {}
    BY <1>7, <1>9, <2>3, <2>10
  <2>14. /\ invocation'[o].duration = Nil <=> Timed(o)' = {}
         /\ invocation'[o].duration # Nil =>
              /\ \E g \in Timed(o)' : SinceInvocation(g)' = invocation'[o].duration
              /\ \A g \in Timed(o)' : SinceInvocation(g)' <= invocation'[o].duration
    BY <1>7, <1>9, <2>1, <2>3, <2>7 DEF Tallied
  <2>15. \A k \in 1..(invocation'[o].len) : \E j \in 1..Len(Descriptors(o)') :
            invocation'[o].descriptors[k] = Descriptors(o)'[j]
    BY <1>9, <2>7, <2>11
  <2> QED
    BY <2>9, <2>12, <2>13, <2>14, <2>15 DEF Tallied
<1>12. Matched(h)'
  <2>1. Descriptors(local[h].invocation)' = Descriptors(local[h].invocation)
    BY <1>2, <1>7, <1>8, <1>9 DEF Descriptors
  <2> QED
    BY <1>1, <1>2, <1>4, <1>7, <1>8, <1>9, <2>1 DEF Matched, Completing, Steps, Vacant
<1> QED
  BY <1>1, <1>2, <1>7, <1>8, <1>9, <1>10, <1>11, <1>12, AtomicAssign

(* A duration that is kept is no shorter than the handler's own. *)
LEMMA CompareAtomic ==
  ASSUME IInv, RecordInv, SerialInv, AtomicInv, NEW h \in Handler, CompareDuration(h)
  PROVE  AtomicInv'
<1>1. pc[h] = "compare" /\ pc[h] \in Steps /\ local[h] \in Locals /\ SinceInvocation(h) \in Int
  BY RunningHandler DEF CompareDuration, Steps
<1>2. PICK o \in Handler :
        /\ local[h].invocation = o /\ invocation[o] # Nil /\ invocation[o] \in Invocation
        /\ invocation[o].experiment = current => Tallied(o)
  BY <1>1, AtWork DEF Steps
<1>3. /\ UNCHANGED <<current, created, toDefine, workflows, invocations, invocation, event, now, local>>
      /\ \A g \in Handler \ {h} : pc'[g] = pc[g]
      /\ \/ pc'[h] = "duration" /\ Longer(SinceInvocation(h), invocation[o].duration)
         \/ pc'[h] = "status" /\ ~Longer(SinceInvocation(h), invocation[o].duration)
  BY <1>2 DEF CompareDuration, server, IInv, TypeOK, HandlerTypeOK
<1>4. Descriptors(o)' = Descriptors(o) /\ \A g : SinceInvocation(g)' = SinceInvocation(g)
  BY <1>3 DEF Descriptors, SinceInvocation
<1>5. CreditedIn(o)' = CreditedIn(o) /\ RemovedFrom(o)' = RemovedFrom(o)
  BY <1>1, <1>3 DEF CreditedIn, IsCredited, RemovedFrom
<1>6. ASSUME invocation[o].experiment = current PROVE Tallied(o)'
  <2>1. CASE pc'[h] = "duration"
    <3>1. Timed(o)' = Timed(o)
      BY <1>1, <1>3, <1>5, <2>1 DEF Timed
    <3> QED
      BY <1>2, <1>3, <1>4, <1>5, <1>6, <3>1, TalliedFrame
  <2>2. CASE pc'[h] = "status" /\ ~Longer(SinceInvocation(h), invocation[o].duration)
    <3>1. Timed(o)' = Timed(o) \cup {h}
      BY <1>1, <1>2, <1>3, <1>5, <2>2 DEF Timed
    <3>2. invocation[o].duration # Nil /\ SinceInvocation(h) <= invocation[o].duration
      BY <1>1, <1>2, <2>2 DEF Longer, Invocation
    <3>3. Removals(o)' = Removals(o)
      BY <1>5 DEF Removals
    <3> QED
      BY <1>2, <1>3, <1>4, <1>5, <1>6, <3>1, <3>2, <3>3 DEF Tallied
  <2> QED
    BY <1>3, <2>1, <2>2
<1>7. Matched(h)'
  <2>1. Matched(h) /\ Descriptors(local[h].invocation)' = Descriptors(local[h].invocation)
    BY <1>3 DEF AtomicInv, Descriptors
  <2> QED
    BY <1>1, <1>2, <1>3, <1>4, <2>1 DEF Matched, Completing, Steps, Vacant
<1> QED
  BY <1>1, <1>2, <1>3, <1>6, <1>7, AtomicAssign

(* The duration assigned is the longest so far. *)
LEMMA SetDurationAtomic ==
  ASSUME IInv, RecordInv, SerialInv, AtomicInv, NEW h \in Handler, SetDuration(h)
  PROVE  AtomicInv'
<1>1. pc[h] = "duration" /\ pc[h] \in Steps /\ SinceInvocation(h) \in Int /\ SinceInvocation(h) # Nil
  BY RunningHandler, ConstantsAssumption DEF SetDuration, Steps
<1>2. PICK o \in Handler :
        /\ local[h].invocation = o /\ invocation[o] # Nil /\ invocation[o] \in Invocation
        /\ invocation[o].experiment = current => Tallied(o)
  BY <1>1, AtWork DEF Steps
<1>3. PICK since \in Int : since = SinceInvocation(h) /\ since # Nil
  BY <1>1
<1>4. /\ UNCHANGED <<current, created, toDefine, workflows, invocations, event, now, local>>
      /\ pc'[h] = "status" /\ \A g \in Handler \ {h} : pc'[g] = pc[g]
      /\ \A q \in Handler \ {o} : invocation'[q] = invocation[q]
      /\ invocation'[o].duration = since /\ invocation'[o].len = invocation[o].len
      /\ invocation'[o].status = invocation[o].status
      /\ invocation'[o].descriptors = invocation[o].descriptors
      /\ invocation'[o].experiment = invocation[o].experiment
      /\ invocation'[o].workflow = invocation[o].workflow
  BY <1>2, <1>3 DEF SetDuration, server, IInv, TypeOK, HandlerTypeOK, StoreTypeOK, Invocation
<1>5. invocation'[o] # Nil
  BY <1>2, SetDurationIInv DEF SameRecords
<1>6. Descriptors(o)' = Descriptors(o) /\ \A g : SinceInvocation(g)' = SinceInvocation(g)
  BY <1>4 DEF Descriptors, SinceInvocation
<1>7. Matched(h)
  BY DEF AtomicInv
<1>8. ASSUME invocation[o].experiment = current PROVE Tallied(o)'
  <2>1. Tallied(o)
    BY <1>2, <1>8
  <2>2. CreditedIn(o)' = CreditedIn(o) /\ RemovedFrom(o)' = RemovedFrom(o)
    BY <1>1, <1>4 DEF CreditedIn, IsCredited, RemovedFrom
  <2>3. Timed(o)' = Timed(o) \cup {h} /\ Removals(o)' = Removals(o)
    BY <1>1, <1>2, <1>4, <2>2 DEF Timed, Removals
  <2>4. ASSUME NEW g \in Timed(o) PROVE SinceInvocation(g) \in Int /\ SinceInvocation(g) <= since
    <3>1. SinceInvocation(g) \in Int
      BY CountedHandler DEF Timed, CreditedIn, IsCredited, Steps
    <3>2. invocation[o].duration \in Int /\ SinceInvocation(g) <= invocation[o].duration
      BY <1>2, <2>1 DEF Tallied, Invocation
    <3>3. since > invocation[o].duration
      BY <1>1, <1>2, <1>3, <1>7, <3>2, ConstantsAssumption DEF Matched, Longer
    <3> QED
      BY <3>1, <3>2, <3>3
  <2>5. /\ invocation'[o].duration = Nil <=> Timed(o)' = {}
        /\ invocation'[o].duration # Nil =>
             /\ \E g \in Timed(o)' : SinceInvocation(g)' = invocation'[o].duration
             /\ \A g \in Timed(o)' : SinceInvocation(g)' <= invocation'[o].duration
    BY <1>3, <1>4, <1>6, <2>3, <2>4
  <2>6. /\ IsFiniteSet(Removals(o)')
        /\ invocation'[o].len + Cardinality(Removals(o)') = Len(Descriptors(o)')
        /\ invocation'[o].status = "COMPLETED" <=>
             invocation'[o].len = 0 /\ RemovedFrom(o)' = {} /\ CreditedIn(o)' # {}
    BY <1>4, <1>6, <2>1, <2>2, <2>3 DEF Tallied
  <2>7. \A k \in 1..(invocation'[o].len) : \E j \in 1..Len(Descriptors(o)') :
            invocation'[o].descriptors[k] = Descriptors(o)'[j]
    BY <1>4, <1>6, <2>1 DEF Tallied
  <2> QED
    BY <2>5, <2>6, <2>7 DEF Tallied
<1>9. Matched(h)'
  <2>1. Descriptors(local[h].invocation)' = Descriptors(local[h].invocation)
    BY <1>2, <1>4, <1>6
  <2> QED
    BY <1>1, <1>2, <1>4, <1>7, <2>1 DEF Matched, Completing, Steps, Vacant
<1> QED
  BY <1>1, <1>2, <1>4, <1>5, <1>8, <1>9, AtomicAssign

(* With the status the event is credited. *)
LEMMA SetStatusAtomic ==
  ASSUME IInv, RecordInv, SerialInv, AtomicInv, NEW h \in Handler, SetStatus(h)
  PROVE  AtomicInv'
<1>1. pc[h] = "status" /\ pc[h] \in Steps
  BY DEF SetStatus, Steps
<1>2. PICK o \in Handler :
        /\ local[h].invocation = o /\ invocation[o] # Nil /\ invocation[o] \in Invocation
        /\ invocation[o].experiment = current => Tallied(o)
        /\ RemovedFrom(o) \subseteq {h}
  BY <1>1, AtWork DEF Steps
<1>3. Matched(h) /\ local[h].target = o /\ local[h].isCompletion
  BY <1>1, <1>2 DEF AtomicInv, Matched, Completing
<1>4. /\ UNCHANGED <<current, created, toDefine, workflows, invocations, event, now, local>>
      /\ pc'[h] = "append" /\ \A g \in Handler \ {h} : pc'[g] = pc[g]
      /\ \A q \in Handler \ {o} : invocation'[q] = invocation[q]
      /\ invocation'[o].status = IF invocation[o].len = 0 THEN "COMPLETED" ELSE invocation[o].status
      /\ invocation'[o].len = invocation[o].len
      /\ invocation'[o].duration = invocation[o].duration
      /\ invocation'[o].descriptors = invocation[o].descriptors
      /\ invocation'[o].experiment = invocation[o].experiment
      /\ invocation'[o].workflow = invocation[o].workflow
  BY <1>2, <1>3
  DEF SetStatus, NoneRemain, server, IInv, TypeOK, HandlerTypeOK, StoreTypeOK, Invocation
<1>5. invocation'[o] # Nil
  BY <1>2, SetStatusIInv DEF SameRecords
<1>6. Descriptors(o)' = Descriptors(o) /\ \A g : SinceInvocation(g)' = SinceInvocation(g)
  BY <1>4 DEF Descriptors, SinceInvocation
<1>7. ASSUME invocation[o].experiment = current PROVE Tallied(o)'
  <2>1. Tallied(o)
    BY <1>2, <1>7
  <2>2. CreditedIn(o)' = CreditedIn(o) \cup {h} /\ RemovedFrom(o)' = {} /\ RemovedFrom(o) = {h}
    <3>1. CreditedIn(o)' = CreditedIn(o) \cup {h}
      BY <1>1, <1>2, <1>3, <1>4 DEF CreditedIn, IsCredited
    <3>2. RemovedFrom(o) = {h}
      BY <1>1, <1>2 DEF RemovedFrom
    <3>3. RemovedFrom(o)' = {}
      BY <1>4, <3>2 DEF RemovedFrom
    <3> QED
      BY <3>1, <3>2, <3>3
  <2>3. Timed(o)' = Timed(o)
    BY <1>1, <1>2, <1>4, <2>2 DEF Timed
  <2>4. Removals(o)' = Removals(o)
    BY <2>2 DEF Removals
  <2>5. invocation'[o].status = "COMPLETED" <=>
          invocation'[o].len = 0 /\ RemovedFrom(o)' = {} /\ CreditedIn(o)' # {}
    BY <1>4, <2>1, <2>2 DEF Tallied
  <2>6. /\ IsFiniteSet(Removals(o)')
        /\ invocation'[o].len + Cardinality(Removals(o)') = Len(Descriptors(o)')
        /\ invocation'[o].duration = Nil <=> Timed(o)' = {}
    BY <1>4, <1>6, <2>1, <2>3, <2>4 DEF Tallied
  <2>7. invocation'[o].duration # Nil =>
          /\ \E g \in Timed(o)' : SinceInvocation(g)' = invocation'[o].duration
          /\ \A g \in Timed(o)' : SinceInvocation(g)' <= invocation'[o].duration
    BY <1>4, <1>6, <2>1, <2>3 DEF Tallied
  <2>8. \A k \in 1..(invocation'[o].len) : \E j \in 1..Len(Descriptors(o)') :
            invocation'[o].descriptors[k] = Descriptors(o)'[j]
    BY <1>4, <1>6, <2>1 DEF Tallied
  <2> QED
    BY <2>5, <2>6, <2>7, <2>8 DEF Tallied
<1>8. Matched(h)'
  BY <1>1, <1>2, <1>3, <1>4 DEF Matched, Completing, Steps, Vacant
<1> QED
  BY <1>1, <1>2, <1>4, <1>5, <1>7, <1>8, AtomicAssign

(* Recording the event changes no count. *)
LEMMA AppendAtomic ==
  ASSUME IInv, RecordInv, SerialInv, AtomicInv, NEW h \in Handler, AppendRead(h) \/ AppendStore(h)
  PROVE  AtomicInv'
<1>1. pc[h] \in {"append", "store"} /\ pc[h] \in Steps /\ local[h] \in Locals
  BY RunningHandler DEF AppendRead, AppendStore, Steps
<1>2. PICK o \in Handler :
        /\ local[h].invocation = o /\ invocation[o] # Nil /\ invocation[o] \in Invocation
        /\ invocation[o].experiment = current => Tallied(o)
  BY <1>1, AtWork DEF Steps
<1>3. /\ UNCHANGED <<current, created, toDefine, workflows, invocations, event, now>>
      /\ pc'[h] \in {"store", "done"}
      /\ \A g \in Handler \ {h} : pc'[g] = pc[g] /\ local'[g] = local[g]
      /\ local'[h].invocation = o /\ local'[h].isCompletion = local[h].isCompletion
  BY <1>1, <1>2 DEF AppendRead, AppendStore, server, IInv, TypeOK, HandlerTypeOK, Locals
<1>4. /\ \A q \in Handler \ {o} : invocation'[q] = invocation[q]
      /\ invocation'[o].len = invocation[o].len /\ invocation'[o].status = invocation[o].status
      /\ invocation'[o].duration = invocation[o].duration
      /\ invocation'[o].descriptors = invocation[o].descriptors
      /\ invocation'[o].experiment = invocation[o].experiment
      /\ invocation'[o].workflow = invocation[o].workflow
  <2>1. CASE AppendRead(h)
    BY <2>1 DEF AppendRead
  <2>2. CASE AppendStore(h)
    BY <1>2, <2>2 DEF AppendStore, IInv, TypeOK, StoreTypeOK, Invocation
  <2> QED
    BY <2>1, <2>2
<1>5. invocation'[o] # Nil
  BY <1>2, AppendStoreIInv DEF AppendRead
<1>6. ASSUME invocation[o].experiment = current PROVE Tallied(o)'
  <2>1. CreditedIn(o)' = CreditedIn(o) /\ RemovedFrom(o)' = RemovedFrom(o) /\ Timed(o)' = Timed(o)
    BY <1>1, <1>2, <1>3, CountedFrame
  <2>2. Descriptors(o)' = Descriptors(o) /\ \A g : SinceInvocation(g)' = SinceInvocation(g)
    BY <1>3, <1>4 DEF Descriptors, SinceInvocation
  <2> QED
    BY <1>2, <1>4, <1>6, <2>1, <2>2, TalliedFrame
<1>7. Matched(h)'
  <2>1. \A x \in Experiment : x > invocation[o].experiment => Vacant(x)
    BY <1>1, <1>2 DEF AtomicInv, Matched, Steps
  <2> QED
    BY <1>3, <1>4, <2>1 DEF Matched, Completing, Vacant
<1> QED
  BY <1>1, <1>2, <1>3, <1>4, <1>5, <1>6, <1>7, AtomicAssign

(* The inductive step. *)
LEMMA NextAtomicInv ==
  IInv /\ RecordInv /\ Serial /\ SerialInv /\ AtomicInv /\ [Next]_vars => AtomicInv'
<1> SUFFICES ASSUME IInv, RecordInv, Serial, SerialInv, AtomicInv, [Next]_vars PROVE AtomicInv'
  OBVIOUS
<1>1. CASE \/ Restart
           \/ \E d \in Definitions : StartExperiment(d)
           \/ \E w \in WorkflowId : DefineWorkflow(w)
           \/ EndExperiment
           \/ UNCHANGED vars
  BY <1>1, ExperimentAtomic
<1>2. CASE \E h \in Handler, w \in WorkflowId, i \in InvocationId, a \in Attributes :
             ReceiveEvent(h, w, i, a)
  BY <1>2, ReceiveAtomic
<1>3. CASE \/ \E h \in Handler, w \in WorkflowId, a \in Attributes \cup {Malformed} :
                RejectEvent(h, w, a)
           \/ \E h \in Handler : MapFault(h)
  BY <1>3, ExperimentAtomic DEF RejectEvent, MapFault
<1>4. ASSUME NEW h \in Handler, Handle(h) PROVE AtomicInv'
  <2>1. CASE RegisterPanics(h) \/ CheckPanics(h) \/ RemovePanics(h)
    BY <2>1, PanicAtomic DEF RegisterPanics, CheckPanics, RemovePanics
  <2> QED
    BY <1>4, <2>1, LookupAtomic, RegisterAtomic, CheckAtomic, RemoveReadAtomic,
       RemoveWriteAtomic, CompareAtomic, SetDurationAtomic, SetStatusAtomic, AppendAtomic
    DEF Handle
<1> QED
  BY <1>1, <1>2, <1>3, <1>4 DEF Next

-------------------------------------------------------------------------------
(* What the refinement mapping makes of the server's state. *)
CreditOf(h) == [event |-> h, workflow |-> event[h].workflow, id |-> event[h].id,
                attributes |-> event[h].attributes, latency |-> SinceInvocation(h)]
Credits == {CreditOf(h) : h \in Credited}
Defined == IF current = 0 THEN Empty ELSE workflows[current]
Latencies == {[workflow |-> r.workflow, id |-> r.id, latency |-> r.duration] :
                r \in {s \in result : s.status = "COMPLETED"}}

AllInv == IInv /\ RecordInv /\ SerialInv /\ AtomicInv

(* As many events are credited as handlers. *)
LEMMA CreditsCounted ==
  ASSUME NEW S, IsFiniteSet(S)
  PROVE  /\ IsFiniteSet({CreditOf(h) : h \in S})
         /\ Cardinality({CreditOf(h) : h \in S}) = Cardinality(S)
<1> DEFINE T == {CreditOf(h) : h \in S}
           f == [h \in S |-> CreditOf(h)]
<1>1. \A g, h \in S : CreditOf(g) = CreditOf(h) => g = h
  <2>1. \A h \in S : CreditOf(h).event = h
    BY DEF CreditOf
  <2> QED
    BY <2>1
<1>2. /\ f \in [S -> T]
      /\ \A g, h \in S : f[g] = f[h] => g = h
      /\ \A t \in T : \E h \in S : f[h] = t
  BY <1>1
<1> HIDE DEF f, T
<1>3. f \in Bijection(S, T)
  BY <1>2 DEF Bijection, Injection, Surjection, IsInjective
<1>4. ExistsBijection(S, T)
  BY <1>3 DEF ExistsBijection
<1>5. IsFiniteSet(T) /\ Cardinality(T) = Cardinality(S)
  BY <1>4, FS_Bijection
<1> QED
  BY <1>5 DEF T

(* The events credited to a stored Invocation are those of the handlers    *)
(* counted for it.                                                         *)
LEMMA CreditedToInvocation ==
  ASSUME AllInv, NEW o \in Allocated, invocation[o].experiment = current
  PROVE  {c \in Credits : c.workflow = invocation[o].workflow /\ c.id = invocation[o].id}
           = {CreditOf(h) : h \in CreditedIn(o)}
<1>1. \A h : CreditOf(h).workflow = event[h].workflow /\ CreditOf(h).id = event[h].id
  BY DEF CreditOf
<1>2. current # 0
  BY ConstantsAssumption DEF AllInv, IInv, TypeOK, StoreTypeOK, Allocated, Invocation, Experiment
<1>3. ASSUME NEW h \in CreditedIn(o)
      PROVE  /\ h \in Credited
             /\ event[h].workflow = invocation[o].workflow /\ event[h].id = invocation[o].id
  <2>1. h \in Handler /\ local[h].invocation = o /\ IsCredited(h)
    BY DEF CreditedIn
  <2>2. event[h].workflow = invocation[o].workflow /\ event[h].id = invocation[o].id
    BY <2>1, CountedHandler DEF AllInv, IsCredited, Steps
  <2> QED
    BY <1>2, <2>1, <2>2 DEF Credited, IsCredited
<1>4. ASSUME NEW h \in Credited,
             event[h].workflow = invocation[o].workflow, event[h].id = invocation[o].id
      PROVE  h \in CreditedIn(o)
  <2>1. h \in Handler /\ IsCredited(h) /\ invocation[local[h].invocation].experiment = current
    BY DEF Credited, IsCredited
  <2>2. PICK q \in Allocated : /\ q = local[h].invocation
                               /\ invocation[q].workflow = event[h].workflow
                               /\ invocation[q].id = event[h].id
    BY <2>1, CountedHandler DEF AllInv, IsCredited, Steps
  <2>3. InFile(q) /\ InFile(o)
    BY DEF AllInv, SerialInv
  <2>4. q = o
    BY <1>4, <2>1, <2>2, <2>3 DEF InFile
  <2> QED
    BY <2>1, <2>2, <2>4 DEF CreditedIn
<1> QED
  BY <1>1, <1>3, <1>4 DEF Credits

(* An Invocation is COMPLETED when as many are credited as there are       *)
(* descriptors, one at least.                                              *)
LEMMA CompletedIffAll ==
  ASSUME AllInv, NEW o \in Allocated, invocation[o].experiment = current
  PROVE  /\ IsFiniteSet(CreditedIn(o))
         /\ \A h \in RemovedFrom(o) \ CreditedIn(o) :
              Cardinality(CreditedIn(o)) < Len(Descriptors(o))
         /\ invocation[o].status = "COMPLETED"
              <=> CreditedIn(o) # {} /\ Cardinality(CreditedIn(o)) = Len(Descriptors(o))
<1>1. Tallied(o) /\ o \in Handler
  BY DEF AllInv, AtomicInv, Allocated
<1>2. RemovedFrom(o) \cap CreditedIn(o) = {}
  BY DEF RemovedFrom, CreditedIn, IsCredited
<1>3. PICK C, R : C = CreditedIn(o) /\ R = Removals(o)
  OBVIOUS
<1>4. C \in SUBSET R /\ (R = C <=> RemovedFrom(o) = {})
  BY <1>2, <1>3 DEF Removals
<1>5. IsFiniteSet(R)
  BY <1>1, <1>3 DEF Tallied
<1>6. /\ IsFiniteSet(C) /\ Cardinality(C) <= Cardinality(R)
      /\ Cardinality(R) = Cardinality(C) => R = C
  BY <1>4, <1>5, FS_Subset
<1>7. Cardinality(R) \in Nat /\ Cardinality(C) \in Nat
  BY <1>5, <1>6, FS_CardinalityType
<1>8. PICK n \in Nat, l \in Nat : n = invocation[o].len /\ l = Len(Descriptors(o)) /\ n + Cardinality(R) = l
  BY <1>1, <1>3, <1>7 DEF Tallied, AllInv, IInv, TypeOK, StoreTypeOK, Allocated, Invocation
<1>9. invocation[o].status = "COMPLETED" <=> n = 0 /\ R = C /\ C # {}
  BY <1>1, <1>3, <1>4, <1>8 DEF Tallied
<1>10. R = C => Cardinality(R) = Cardinality(C)
  OBVIOUS
<1>11. C # {} /\ Cardinality(C) = l <=> n = 0 /\ R = C /\ C # {}
  BY <1>6, <1>7, <1>8, <1>10
<1>12. R # C => Cardinality(C) < l
  BY <1>6, <1>7, <1>8
<1> QED
  BY <1>3, <1>4, <1>6, <1>8, <1>9, <1>11, <1>12

(* The duration of a COMPLETED Invocation is the latest of its latencies.  *)
LEMMA DurationIsLatest ==
  ASSUME AllInv, NEW o \in Allocated, invocation[o].experiment = current,
         invocation[o].status = "COMPLETED"
  PROVE  invocation[o].duration
           = Atomic!Latest({c.latency : c \in {CreditOf(h) : h \in CreditedIn(o)}})
<1>1. Tallied(o)
  BY DEF AllInv, AtomicInv
<1>2. RemovedFrom(o) = {} /\ CreditedIn(o) # {}
  BY <1>1 DEF Tallied
<1>3. Timed(o) = CreditedIn(o)
  BY <1>2 DEF Timed, RemovedFrom
<1>4. PICK L : L = {c.latency : c \in {CreditOf(h) : h \in CreditedIn(o)}}
  OBVIOUS
<1>5. L = {SinceInvocation(h) : h \in CreditedIn(o)}
  <2>1. \A h : CreditOf(h).latency = SinceInvocation(h)
    BY DEF CreditOf
  <2> QED
    BY <1>4, <2>1
<1>6. \A h \in CreditedIn(o) : SinceInvocation(h) \in Int
  BY CountedHandler DEF AllInv, CreditedIn, IsCredited, Steps
<1>7. PICK d : d = invocation[o].duration
  OBVIOUS
<1>8. d # Nil
  BY <1>1, <1>2, <1>3, <1>7 DEF Tallied
<1>9. d \in L /\ \A y \in L : y \in Int /\ y <= d
  BY <1>1, <1>3, <1>5, <1>6, <1>7, <1>8 DEF Tallied
<1>10. \A x \in L : (\A y \in L : y <= x) => x = d
  BY <1>9
<1>11. Atomic!Latest(L) = d
  BY <1>9, <1>10 DEF Atomic!Latest
<1> QED
  BY <1>4, <1>7, <1>11

(* A step that credits no handler and disturbs none that is credited       *)
(* changes no credit.                                                      *)
LEMMA CreditsFrame ==
  ASSUME AllInv, current' = current,
         \A o \in Allocated : invocation'[o].experiment = invocation[o].experiment,
         \A h \in Handler :
            \/ ~IsCredited(h) /\ ~IsCredited(h)'
            \/ /\ IsCredited(h)' <=> IsCredited(h)
               /\ local'[h].invocation = local[h].invocation
               /\ event'[h] = event[h] /\ now'[h] = now[h]
  PROVE  Credits' = Credits
<1>1. \A h \in Handler : IsCredited(h) => local[h].invocation \in Allocated
  BY CountedHandler DEF AllInv, IsCredited, Steps
<1>2. Credited = {h \in Handler : /\ IsCredited(h) /\ current # 0
                                  /\ invocation[local[h].invocation].experiment = current}
  BY DEF Credited, IsCredited
<1>3. Credited' = {h \in Handler : /\ IsCredited(h)' /\ current # 0
                                   /\ invocation'[local'[h].invocation].experiment = current}
  BY DEF Credited, IsCredited
<1>4. Credited' = Credited
  BY <1>1, <1>2, <1>3
<1>5. \A h \in Credited : CreditOf(h)' = CreditOf(h)
  BY <1>2 DEF CreditOf, SinceInvocation
<1> QED
  BY <1>4, <1>5 DEF Credits

(* The refinement mapping, in the words of the specification. *)
LEMMA Mapping ==
  /\ Atomic!specVars = <<Defined, Credits, Latencies>>
  /\ Atomic!specVars' = <<Defined, Credits, Latencies>>'
  /\ Atomic!Reset <=> DOMAIN Defined' = {} /\ Credits' = {} /\ Latencies' = Latencies
  /\ \A w, ds : Atomic!Define(w, ds) <=>
       /\ w \notin DOMAIN Defined
       /\ Defined' = [v \in DOMAIN Defined \cup {w} |-> IF v = w THEN ds ELSE Defined[v]]
       /\ Credits' = Credits /\ Latencies' = Latencies
  /\ \A w, i : Atomic!CreditedTo(w, i) = {c \in Credits : c.workflow = w /\ c.id = i}
BY DEF Atomic!specVars, Atomic!Reset, Atomic!Define, Atomic!CreditedTo, Defined, Credits,
       Latencies, CreditOf

LEMMA SameCardinality == \A S : Atomic!Cardinality(S) = Cardinality(S)
BY DEF Atomic!Cardinality, Cardinality

LEMMA MappingOfCredit ==
  ASSUME NEW h, NEW w, NEW i, NEW a, NEW l
  PROVE  Atomic!Credit(h, w, i, a, l) <=>
           /\ w \in DOMAIN Defined
           /\ Atomic!Matching(a, Defined[w], Len(Defined[w])) # {}
           /\ Cardinality(Atomic!CreditedTo(w, i)) < Len(Defined[w])
           /\ \A c \in Credits : c.event # h
           /\ Credits' = Credits \cup {[event |-> h, workflow |-> w, id |-> i,
                                       attributes |-> a, latency |-> l]}
           /\ Defined' = Defined /\ Latencies' = Latencies
BY SameCardinality DEF Atomic!Credit, Defined, Credits, Latencies, CreditOf

(* The steps of a delivery that neither set the status nor end it. *)
LEMMA HandlerStutters ==
  ASSUME AllInv, NEW h \in Handler, Handle(h), ~SetStatus(h)
  PROVE  Atomic!specVars' = Atomic!specVars
<1>1. UNCHANGED <<current, workflows, result, event, now>>
  BY DEF Handle, LookupInvocation, RegisterInvocation, RegisterPanics, CheckCompletion,
         CheckPanics, RemoveRead, RemovePanics, RemoveWrite, CompareDuration, SetDuration,
         AppendRead, AppendStore, Panic, server
<1>2. Defined' = Defined /\ Latencies' = Latencies
  BY <1>1 DEF Defined, Latencies
<1>3. \A o \in Allocated : invocation'[o].experiment = invocation[o].experiment
  <2>1. CASE RegisterInvocation(h)
    <3>1. invocation[h] = Nil
      BY <2>1 DEF RegisterInvocation, AllInv, IInv, HandlerOK
    <3> QED
      BY <2>1, <3>1 DEF RegisterInvocation, Allocated, AllInv, IInv, TypeOK, StoreTypeOK
  <2>2. CASE RemoveWrite(h) \/ SetDuration(h)
    BY <2>2, RemoveWriteIInv, SetDurationIInv DEF AllInv, SameRecords, Allocated
  <2>3. CASE AppendStore(h)
    BY <2>3 DEF AppendStore, Allocated, AllInv, IInv, TypeOK, StoreTypeOK, Invocation
  <2>4. CASE invocation' = invocation
    BY <2>4
  <2> QED
    BY <2>1, <2>2, <2>3, <2>4 DEF Handle, LookupInvocation, RegisterPanics, CheckCompletion,
       CheckPanics, RemoveRead, RemovePanics, CompareDuration, AppendRead, Panic
<1>4. \A g \in Handler \ {h} : pc'[g] = pc[g] /\ local'[g] = local[g]
  <2>1. CASE CheckCompletion(h)
    <3>1. PICK p : pc' = [pc EXCEPT ![h] = p]
      BY <2>1 DEF CheckCompletion
    <3>2. \/ local' = local
          \/ \E k : local' = [local EXCEPT ![h].descriptorIdx = k, ![h].isCompletion = TRUE]
      BY <2>1 DEF CheckCompletion
    <3> QED
      BY <3>1, <3>2 DEF AllInv, IInv, TypeOK, HandlerTypeOK
  <2>2. CASE LookupInvocation(h) \/ RegisterInvocation(h) \/ RemoveRead(h) \/ RemoveWrite(h)
    BY <2>2 DEF LookupInvocation, RegisterInvocation, RemoveRead, RemoveWrite,
                AllInv, IInv, TypeOK, HandlerTypeOK
  <2>3. CASE CompareDuration(h) \/ SetDuration(h) \/ AppendRead(h) \/ AppendStore(h)
    BY <2>3 DEF CompareDuration, SetDuration, AppendRead, AppendStore,
                AllInv, IInv, TypeOK, HandlerTypeOK
  <2>4. CASE RegisterPanics(h) \/ CheckPanics(h) \/ RemovePanics(h)
    BY <2>4 DEF RegisterPanics, CheckPanics, RemovePanics, Panic,
                AllInv, IInv, TypeOK, HandlerTypeOK
  <2> QED
    BY <2>1, <2>2, <2>3, <2>4 DEF Handle
<1>5. \/ ~IsCredited(h) /\ ~IsCredited(h)'
      \/ (IsCredited(h)' <=> IsCredited(h)) /\ local'[h].invocation = local[h].invocation
  <2>1. CASE CheckCompletion(h)
    <3>1. ~local[h].isCompletion /\ pc[h] = "check"
      BY <2>1 DEF CheckCompletion, AllInv, AtomicInv, Matched
    <3>2. \/ local' = local
          \/ pc' = [pc EXCEPT ![h] = "remove"]
      BY <2>1 DEF CheckCompletion
    <3> QED
      BY <3>1, <3>2 DEF IsCredited, AllInv, IInv, TypeOK, HandlerTypeOK
  <2>2. CASE LookupInvocation(h) \/ RegisterInvocation(h) \/ RemoveRead(h) \/ RemoveWrite(h)
    BY <2>2 DEF LookupInvocation, RegisterInvocation, RemoveRead, RemoveWrite, AfterLookup,
                IsCredited, AllInv, IInv, TypeOK, HandlerTypeOK
  <2>3. CASE CompareDuration(h) \/ SetDuration(h)
    BY <2>3 DEF CompareDuration, SetDuration, IsCredited, AllInv, IInv, TypeOK, HandlerTypeOK
  <2>4. CASE AppendRead(h) \/ AppendStore(h)
    <3>1. /\ pc[h] \in {"append", "store"} /\ local[h] \in Locals
          /\ \E p \in {"store", "done"} : pc' = [pc EXCEPT ![h] = p]
      BY <2>4, RunningHandler DEF AppendRead, AppendStore, Steps, AllInv
    <3>2. \E r : local' = [local EXCEPT ![h].records = r]
      BY <2>4 DEF AppendRead, AppendStore
    <3>3. /\ local'[h].invocation = local[h].invocation
          /\ local'[h].isCompletion = local[h].isCompletion
      BY <3>1, <3>2 DEF AllInv, IInv, TypeOK, HandlerTypeOK, Locals
    <3> QED
      BY <3>1, <3>3 DEF IsCredited, AllInv, IInv, TypeOK, HandlerTypeOK
  <2>5. CASE RegisterPanics(h) \/ CheckPanics(h) \/ RemovePanics(h)
    BY <2>5 DEF RegisterPanics, CheckPanics, RemovePanics, Panic, IsCredited,
                AllInv, IInv, TypeOK, HandlerTypeOK
  <2> QED
    BY <2>1, <2>2, <2>3, <2>4, <2>5 DEF Handle
<1>6. Credits' = Credits
  <2>1. \A g \in Handler :
            \/ ~IsCredited(g) /\ ~IsCredited(g)'
            \/ /\ IsCredited(g)' <=> IsCredited(g)
               /\ local'[g].invocation = local[g].invocation
               /\ event'[g] = event[g] /\ now'[g] = now[g]
    BY <1>1, <1>4, <1>5 DEF IsCredited
  <2> QED
    BY <1>1, <1>3, <2>1, CreditsFrame
<1> QED
  BY <1>2, <1>6, Mapping

(* Setting the status credits the event, if its Invocation belongs to the  *)
(* running experiment.                                                     *)
LEMMA StatusCredits ==
  ASSUME AllInv, NEW h \in Handler, SetStatus(h)
  PROVE  Atomic!Next \/ Atomic!specVars' = Atomic!specVars
<1>1. pc[h] = "status" /\ pc[h] \in Steps \ {"lookup", "register"} /\ event[h] \in Event
  BY RunningHandler DEF SetStatus, Steps, AllInv
<1>2. PICK o \in Handler :
        /\ local[h].invocation = o /\ o \in Allocated /\ invocation[o] \in Invocation
        /\ RemovedFrom(o) \subseteq {h}
  BY <1>1, AtWork DEF AllInv
<1>3. Matched(h) /\ local[h].isCompletion
  BY <1>1 DEF AllInv, AtomicInv, Matched, Completing
<1>4. /\ UNCHANGED <<current, workflows, event, now, local, result>>
      /\ pc'[h] = "append" /\ \A g \in Handler \ {h} : pc'[g] = pc[g]
  BY DEF SetStatus, server, AllInv, IInv, TypeOK, HandlerTypeOK
<1>5. \A q \in Allocated : invocation'[q].experiment = invocation[q].experiment
  BY SetStatusIInv DEF AllInv, SameRecords, Allocated
<1>6. Defined' = Defined /\ Latencies' = Latencies
  BY <1>4 DEF Defined, Latencies
<1>7. CASE invocation[o].experiment # current
  <2>1. Credited = {g \in Handler : /\ IsCredited(g) /\ current # 0
                                    /\ invocation[local[g].invocation].experiment = current}
    BY DEF Credited, IsCredited
  <2>2. Credited' = {g \in Handler : /\ IsCredited(g)' /\ current # 0
                                     /\ invocation'[local[g].invocation].experiment = current}
    BY <1>4 DEF Credited, IsCredited
  <2>3. \A g \in Handler : IsCredited(g) => local[g].invocation \in Allocated
    BY CountedHandler DEF AllInv, IsCredited, Steps
  <2>4. \A g \in Handler \ {h} : IsCredited(g)' <=> IsCredited(g)
    BY <1>4 DEF IsCredited
  <2>5. h \notin Credited /\ h \notin Credited'
    BY <1>2, <1>5, <1>7, <2>1, <2>2
  <2>6. Credited' = Credited
    BY <1>5, <2>1, <2>2, <2>3, <2>4, <2>5
  <2>7. \A g : CreditOf(g)' = CreditOf(g)
    BY <1>4 DEF CreditOf, SinceInvocation
  <2>8. Credits' = Credits
    BY <2>6, <2>7 DEF Credits
  <2> QED
    BY <1>6, <2>8, Mapping
<1>8. CASE invocation[o].experiment = current
  <2>1. PICK w \in WorkflowId, i \in InvocationId :
          w = invocation[o].workflow /\ i = invocation[o].id
    BY <1>2 DEF Invocation
  <2>2. event[h].workflow = w /\ event[h].id = i
    BY <1>1, <1>2, <2>1, CountedHandler DEF AllInv
  <2>3. current # 0 /\ w \in DOMAIN Defined /\ Defined[w] = Descriptors(o)
    <3>1. current # 0
      BY <1>2, <1>8, ConstantsAssumption DEF Invocation, Experiment
    <3>2. InFile(o)
      BY <1>2 DEF AllInv, SerialInv
    <3> QED
      BY <1>8, <2>1, <3>1, <3>2 DEF InFile, Defined, Descriptors
  <2>4. PICK c : c = CreditOf(h)
    OBVIOUS
  <2>5. /\ c.event = h /\ c.workflow = w /\ c.id = i /\ c.attributes = event[h].attributes
        /\ c = [event |-> c.event, workflow |-> c.workflow, id |-> c.id,
                attributes |-> c.attributes, latency |-> c.latency]
    BY <2>2, <2>4 DEF CreditOf
  <2>6. Credits' = Credits \cup {c}
    <3>1. Credited' = Credited \cup {h}
      <4>1. Credited = {g \in Handler : /\ IsCredited(g) /\ current # 0
                                        /\ invocation[local[g].invocation].experiment = current}
        BY DEF Credited, IsCredited
      <4>2. Credited' = {g \in Handler : /\ IsCredited(g)' /\ current # 0
                                         /\ invocation'[local[g].invocation].experiment = current}
        BY <1>4 DEF Credited, IsCredited
      <4>3. \A g \in Handler : IsCredited(g) => local[g].invocation \in Allocated
        BY CountedHandler DEF AllInv, IsCredited, Steps
      <4>4. (\A g \in Handler \ {h} : IsCredited(g)' <=> IsCredited(g)) /\ IsCredited(h)'
        BY <1>3, <1>4 DEF IsCredited
      <4> QED
        BY <1>2, <1>5, <1>8, <2>3, <4>1, <4>2, <4>3, <4>4
    <3>2. \A g : CreditOf(g)' = CreditOf(g)
      BY <1>4 DEF CreditOf, SinceInvocation
    <3> QED
      BY <2>4, <3>1, <3>2 DEF Credits
  <2>7. \A d \in Credits : d.event # h
    BY <1>1 DEF Credits, Credited, CreditOf
  <2>8. Cardinality(Atomic!CreditedTo(w, i)) < Len(Descriptors(o))
    <3>1. Atomic!CreditedTo(w, i) = {CreditOf(g) : g \in CreditedIn(o)}
      BY <1>2, <1>8, <2>1, Mapping, CreditedToInvocation
    <3>2. h \in RemovedFrom(o) \ CreditedIn(o)
      BY <1>1, <1>2 DEF RemovedFrom, CreditedIn, IsCredited
    <3>3. IsFiniteSet(CreditedIn(o)) /\ Cardinality(CreditedIn(o)) < Len(Descriptors(o))
      BY <1>2, <1>8, <3>2, CompletedIffAll
    <3>4. Cardinality({CreditOf(g) : g \in CreditedIn(o)}) = Cardinality(CreditedIn(o))
      BY <3>3, CreditsCounted
    <3> QED
      BY <3>1, <3>3, <3>4
  <2>9. Atomic!Matching(c.attributes, Defined[w], Len(Defined[w])) # {}
    <3>1. Matching(event[h].attributes, Descriptors(o), Len(Descriptors(o))) # {}
      BY <1>1, <1>2, <1>3, <1>8 DEF Matched, Completing
    <3> QED
      BY <2>3, <2>5, <3>1 DEF Matching, Matches, Atomic!Matching, Atomic!Matches
  <2>10. Atomic!Credit(c.event, c.workflow, c.id, c.attributes, c.latency)
    BY <1>6, <2>3, <2>5, <2>6, <2>7, <2>8, <2>9, MappingOfCredit
  <2>11. Atomic!CreditSome
    BY <2>6, <2>10 DEF Atomic!CreditSome, Credits, CreditOf
  <2> QED
    BY <2>11 DEF Atomic!Next
<1> QED
  BY <1>7, <1>8

(* EndExperiment reports a latency exactly for the invocations that are    *)
(* complete, and it is the latest one.                                     *)
LEMMA EndImplements ==
  ASSUME AllInv, EndExperiment
  PROVE  Atomic!End
<1> DEFINE Lat(p) == [workflow |-> p[1], id |-> p[2],
                      latency |-> Atomic!Latest({c.latency : c \in Atomic!CreditedTo(p[1], p[2])})]
           Pairs == {q \in WorkflowId \X InvocationId : Atomic!Complete(q[1], q[2])}
           LatOf(o) == [workflow |-> invocation[o].workflow, id |-> invocation[o].id,
                        latency |-> invocation[o].duration]
           Done == {o \in Reported : invocation[o].status = "COMPLETED"}
<1>1. UNCHANGED <<current, workflows, invocation, pc, event, now, local>>
  BY DEF EndExperiment, server
<1>2. Defined' = Defined /\ Credits' = Credits
  BY <1>1 DEF Defined, Credits, Credited, CreditOf, SinceInvocation
<1>3. Latencies' = {LatOf(o) : o \in Done}
  <2> DEFINE Of(o) == [workflow |-> invocation[o].workflow, id |-> invocation[o].id,
                       status |-> invocation[o].status, duration |-> invocation[o].duration,
                       records |-> invocation[o].records]
  <2>1. result' = {Of(o) : o \in Reported}
    BY DEF EndExperiment
  <2>2. \A o : /\ Of(o).workflow = invocation[o].workflow /\ Of(o).id = invocation[o].id
               /\ Of(o).status = invocation[o].status /\ Of(o).duration = invocation[o].duration
    OBVIOUS
  <2> HIDE DEF Of
  <2>3. {s \in result' : s.status = "COMPLETED"} = {Of(o) : o \in Done}
    BY <2>1, <2>2
  <2>4. Latencies' = {[workflow |-> r.workflow, id |-> r.id, latency |-> r.duration] :
                         r \in {Of(o) : o \in Done}}
    BY <2>3 DEF Latencies
  <2>5. \A o : [workflow |-> Of(o).workflow, id |-> Of(o).id, latency |-> Of(o).duration] = LatOf(o)
    BY <2>2
  <2> HIDE DEF LatOf, Done
  <2> QED
    BY <2>4, <2>5
<1>4. ASSUME NEW o \in Reported
      PROVE  /\ o \in Allocated /\ invocation[o].experiment = current
             /\ invocation[o].workflow \in WorkflowId /\ invocation[o].id \in InvocationId
             /\ invocation[o].workflow \in DOMAIN Defined
             /\ Defined[invocation[o].workflow] = Descriptors(o)
  <2>1. /\ o \in Allocated /\ o \in Handler /\ o # Nil
        /\ invocation[o].workflow \in WorkflowId /\ invocation[o].id \in InvocationId
    BY ConstantsAssumption DEF Reported, Allocated, AllInv, IInv, TypeOK, StoreTypeOK, Invocation
  <2>2. PICK w \in WorkflowId, i \in InvocationId :
          w = invocation[o].workflow /\ i = invocation[o].id
    BY <2>1
  <2>3. invocations[current][w][i] = o /\ w \in DOMAIN workflows[current] /\ current \in Experiment
    BY <2>2, ConstantsAssumption
    DEF Reported, Stored, Known, AllInv, IInv, TypeOK, ServerTypeOK, Experiment
  <2>4. invocation[o].experiment = current
    BY <2>1, <2>3 DEF AllInv, AtomicInv, FiledInMap
  <2>5. current # 0
    BY <2>3 DEF Experiment
  <2> QED
    BY <2>1, <2>2, <2>3, <2>4, <2>5 DEF Defined, Descriptors
<1>5. ASSUME NEW o \in Reported
      PROVE  /\ Atomic!Complete(invocation[o].workflow, invocation[o].id)
                  <=> invocation[o].status = "COMPLETED"
             /\ Atomic!CreditedTo(invocation[o].workflow, invocation[o].id)
                  = {CreditOf(h) : h \in CreditedIn(o)}
  <2>1. Atomic!CreditedTo(invocation[o].workflow, invocation[o].id)
          = {CreditOf(h) : h \in CreditedIn(o)}
    BY <1>4, Mapping, CreditedToInvocation
  <2>2. /\ IsFiniteSet(CreditedIn(o))
        /\ invocation[o].status = "COMPLETED"
             <=> CreditedIn(o) # {} /\ Cardinality(CreditedIn(o)) = Len(Descriptors(o))
    BY <1>4, CompletedIffAll
  <2>3. Cardinality({CreditOf(h) : h \in CreditedIn(o)}) = Cardinality(CreditedIn(o))
    BY <2>2, CreditsCounted
  <2>4. \A w, i : Atomic!Complete(w, i) <=>
           /\ w \in DOMAIN Defined
           /\ Atomic!CreditedTo(w, i) # {}
           /\ Cardinality(Atomic!CreditedTo(w, i)) = Len(Defined[w])
    BY SameCardinality DEF Atomic!Complete, Defined
  <2>5. {CreditOf(h) : h \in CreditedIn(o)} # {} <=> CreditedIn(o) # {}
    OBVIOUS
  <2> QED
    BY <1>4, <2>1, <2>2, <2>3, <2>4, <2>5
<1>6. ASSUME NEW w \in WorkflowId, NEW i \in InvocationId, Atomic!Complete(w, i)
      PROVE  \E o \in Reported : invocation[o].workflow = w /\ invocation[o].id = i
  <2>1. Atomic!CreditedTo(w, i) # {}
    BY <1>6 DEF Atomic!Complete
  <2>2. PICK c \in Credits : c.workflow = w /\ c.id = i
    BY <2>1, Mapping
  <2>3. PICK h \in Credited : event[h].workflow = w /\ event[h].id = i
    BY <2>2 DEF Credits, CreditOf
  <2>4. PICK o \in Allocated : /\ o = local[h].invocation /\ invocation[o].experiment = current
                               /\ invocation[o].workflow = w /\ invocation[o].id = i
    BY <2>3, CountedHandler DEF AllInv, Credited, Steps
  <2>5. InFile(o) /\ current # 0
    BY <2>3 DEF AllInv, SerialInv, Credited
  <2> QED
    BY <2>4, <2>5 DEF InFile, Reported, Known, Stored
<1>7. ASSUME NEW o \in Done PROVE \E p \in Pairs : LatOf(o) = Lat(p)
  <2>1. PICK p : p = <<invocation[o].workflow, invocation[o].id>>
    OBVIOUS
  <2>2. p \in Pairs /\ p[1] = invocation[o].workflow /\ p[2] = invocation[o].id
    BY <1>4, <1>5, <2>1
  <2>3. invocation[o].duration = Atomic!Latest({c.latency : c \in Atomic!CreditedTo(p[1], p[2])})
    BY <1>4, <1>5, <2>2, DurationIsLatest
  <2> QED
    BY <2>2, <2>3
<1>8. ASSUME NEW p \in Pairs PROVE \E o \in Done : LatOf(o) = Lat(p)
  <2>1. p[1] \in WorkflowId /\ p[2] \in InvocationId /\ Atomic!Complete(p[1], p[2])
    OBVIOUS
  <2>2. PICK o \in Reported : invocation[o].workflow = p[1] /\ invocation[o].id = p[2]
    BY <1>6, <2>1
  <2>3. o \in Done
    BY <1>5, <2>1, <2>2
  <2>4. invocation[o].duration = Atomic!Latest({c.latency : c \in Atomic!CreditedTo(p[1], p[2])})
    BY <1>4, <1>5, <2>2, <2>3, DurationIsLatest
  <2> QED
    BY <2>2, <2>3, <2>4
<1>9. Latencies' = {Lat(p) : p \in Pairs}
  <2> HIDE DEF Lat, Pairs, LatOf, Done
  <2> QED
    BY <1>3, <1>7, <1>8
<1>10. Atomic!End <=> Latencies' = {Lat(p) : p \in Pairs} /\ Defined' = Defined /\ Credits' = Credits
  BY DEF Atomic!End, Defined, Credits, CreditOf, Latencies
<1> QED
  BY <1>2, <1>9, <1>10

(* The invoker's other calls, a restart and the end of the process. *)
LEMMA ExperimentImplements ==
  ASSUME AllInv,
         \/ Restart
         \/ \E d \in Definitions : StartExperiment(d)
         \/ \E w \in WorkflowId : DefineWorkflow(w)
         \/ EndExperiment
         \/ Fatal
         \/ UNCHANGED vars
  PROVE  Atomic!Next \/ Atomic!specVars' = Atomic!specVars
<1>1. ASSUME \/ Restart \/ UNCHANGED vars
      PROVE  Atomic!specVars' = Atomic!specVars
  <2>1. UNCHANGED <<current, workflows, invocation, pc, event, now, local, result>>
    BY <1>1 DEF Restart, vars, server
  <2>2. Defined' = Defined /\ Credits' = Credits /\ Latencies' = Latencies
    BY <2>1 DEF Defined, Credits, Latencies, Credited, CreditOf, SinceInvocation
  <2> QED
    BY <2>2, Mapping
<1>2. ASSUME Fatal \/ \E d \in Definitions : StartExperiment(d) PROVE Atomic!Reset
  <2>1. /\ created \in Nat
        /\ (current' = 0 \/ current' = created + 1)
        /\ UNCHANGED <<workflows, invocation, local, result>>
        /\ \A g \in Handler : pc'[g] = pc[g] \/ pc'[g] = "killed"
        /\ current' # 0 => created + 1 \in Experiment
    BY <1>2, ConstantsAssumption
    DEF Fatal, StartExperiment, AllInv, IInv, TypeOK, ServerTypeOK, HandlerTypeOK, Experiment
  <2>2. DOMAIN Defined' = {}
    <3>1. created + 1 > created
      BY <2>1
    <3>2. \A x \in Experiment : x > created => DOMAIN workflows[x] = {}
      BY DEF AllInv, AtomicInv, DefinitionsKept
    <3>3. current' # 0 => DOMAIN workflows[created + 1] = {}
      BY <2>1, <3>1, <3>2
    <3>4. Defined' = IF current' = 0 THEN Empty ELSE workflows[current']
      BY <2>1 DEF Defined, Empty
    <3> QED
      BY <2>1, <3>3, <3>4 DEF Empty
  <2>3. \A o \in Allocated : invocation[o].experiment # created + 1
    <3>1. ASSUME NEW o \in Allocated PROVE ~(invocation[o].experiment > created)
      <4>1. /\ o # Nil /\ invocation[o].experiment \in Experiment
            /\ invocation[o].workflow \in WorkflowId /\ invocation[o].id \in InvocationId
        BY ConstantsAssumption DEF AllInv, IInv, TypeOK, StoreTypeOK, Allocated, Invocation
      <4>2. InFile(o)
        BY DEF AllInv, SerialInv
      <4> QED
        BY <4>1, <4>2 DEF AllInv, SerialInv, InFile, Vacant
    <3>2. \A o \in Allocated : invocation[o].experiment \in Nat
      BY ConstantsAssumption DEF AllInv, IInv, TypeOK, StoreTypeOK, Allocated, Invocation, Experiment
    <3>3. \A n \in Nat : ~(n > created) => n # created + 1
      BY <2>1
    <3> QED
      BY <3>1, <3>2, <3>3
  <2>4. Credited' = {}
    <3>1. \A h \in Handler : IsCredited(h) => local[h].invocation \in Allocated
      BY CountedHandler DEF AllInv, IsCredited, Steps
    <3> QED
      BY <2>1, <2>3, <3>1 DEF Credited, IsCredited
  <2>5. Credits' = {} /\ Latencies' = Latencies
    BY <2>1, <2>4 DEF Credits, Latencies
  <2> QED
    BY <2>2, <2>5, Mapping
<1>3. ASSUME NEW w \in WorkflowId, DefineWorkflow(w) PROVE Atomic!Next
  <2>1. /\ UNCHANGED <<current, invocation, pc, event, now, local, result>>
        /\ w \in DOMAIN toDefine
    BY <1>3 DEF DefineWorkflow
  <2>2. current # 0 /\ current \in Experiment
    BY <2>1, ConstantsAssumption DEF AllInv, IInv, TypeOK, ServerTypeOK, Empty, Experiment
  <2>3. PICK d \in Definitions : w \in DOMAIN d /\ d[w] = toDefine[w]
    BY <2>1 DEF AllInv, AtomicInv, DefinitionsKept
  <2>4. w \notin DOMAIN Defined
    BY <2>1, <2>2 DEF AllInv, AtomicInv, DefinitionsKept, Defined
  <2>5. Defined' = [v \in DOMAIN Defined \cup {w} |-> IF v = w THEN d[w] ELSE Defined[v]]
    BY <1>3, <2>1, <2>2, <2>3 DEF DefineWorkflow, Defined, AllInv, IInv, TypeOK, ServerTypeOK
  <2>6. Credits' = Credits /\ Latencies' = Latencies
    BY <2>1 DEF Credits, Latencies, Credited, CreditOf, SinceInvocation
  <2>7. Atomic!Define(w, d[w])
    BY <2>4, <2>5, <2>6, Mapping
  <2> QED
    BY <2>3, <2>7 DEF Atomic!Next
<1> QED
  BY <1>1, <1>2, <1>3, EndImplements DEF Atomic!Next

(* Without overlapping deliveries the server implements the atomic         *)
(* specification: whatever experiments begin and end and however often the *)
(* process restarts, an event is credited in one step, once, and           *)
(* EndExperiment reports a latency for exactly the invocations all of      *)
(* whose completion events were credited, the latest one's.                *)
THEOREM SerialIsAtomic == Spec => ImplementsAtomic
<1>1. Init /\ Serial => Atomic!Init
  <2> SUFFICES ASSUME Init PROVE Atomic!Init
    OBVIOUS
  <2>1. Credited = {} /\ current = 0 /\ result = {}
    BY DEF Init, Credited
  <2> QED
    BY <2>1 DEF Atomic!Init, Empty
<1>2. AllInv /\ Serial /\ [Next]_vars => Atomic!Next \/ Atomic!specVars' = Atomic!specVars
  <2> SUFFICES ASSUME AllInv, Serial, [Next]_vars
               PROVE  Atomic!Next \/ Atomic!specVars' = Atomic!specVars
    OBVIOUS
  <2>1. CASE \/ Restart
             \/ \E d \in Definitions : StartExperiment(d)
             \/ \E w \in WorkflowId : DefineWorkflow(w)
             \/ EndExperiment
             \/ UNCHANGED vars
    BY <2>1, ExperimentImplements
  <2>2. CASE \/ \E h \in Handler, w \in WorkflowId, a \in Attributes \cup {Malformed} :
                  RejectEvent(h, w, a)
             \/ \E h \in Handler : MapFault(h)
    BY <2>2, ExperimentImplements DEF RejectEvent, MapFault
  <2>3. ASSUME NEW h \in Handler, NEW w \in WorkflowId, NEW i \in InvocationId,
               NEW a \in Attributes, ReceiveEvent(h, w, i, a)
        PROVE  Atomic!specVars' = Atomic!specVars
    <3>1. /\ UNCHANGED <<current, workflows, invocation, result>>
          /\ pc[h] = "idle" /\ pc'[h] = "lookup"
          /\ \A g \in Handler \ {h} : /\ pc'[g] = pc[g] /\ local'[g] = local[g]
                                      /\ event'[g] = event[g] /\ now'[g] = now[g]
      BY <2>3 DEF ReceiveEvent, server, AllInv, IInv, TypeOK, HandlerTypeOK
    <3>2. Credits' = Credits
      BY <3>1, CreditsFrame DEF IsCredited
    <3>3. Defined' = Defined /\ Latencies' = Latencies
      BY <3>1 DEF Defined, Latencies
    <3> QED
      BY <3>2, <3>3, Mapping
  <2>4. ASSUME NEW h \in Handler, Handle(h)
        PROVE  Atomic!Next \/ Atomic!specVars' = Atomic!specVars
    BY <2>4, HandlerStutters, StatusCredits
  <2> QED
    BY <2>1, <2>2, <2>3, <2>4 DEF Next
<1>3. [Next]_vars => (Serial' <=> Serial)
  BY DEF Serial, Next, Handle, Restart, StartExperiment, DefineWorkflow, EndExperiment,
         ReceiveEvent, RejectEvent, MapFault, Fatal, Panic, LookupInvocation,
         RegisterInvocation, RegisterPanics, CheckCompletion, CheckPanics, RemoveRead,
         RemovePanics, RemoveWrite, CompareDuration, SetDuration, SetStatus, AppendRead,
         AppendStore, vars
<1>4. IInv /\ RecordInv /\ SerialInv /\ AtomicInv => AllInv
  BY DEF AllInv
<1>5. AllInv \/ ~Serial
        => ([Next]_vars => [~Serial \/ Atomic!Next]_(Atomic!specVars))
  BY <1>2
<1> QED
  BY InitIInv, NextIInv, InitRecordInv, NextRecordInv, InitSerialInv, NextSerialInv,
     InitAtomicInv, NextAtomicInv, <1>1, <1>3, <1>4, <1>5, PTL DEF Spec, ImplementsAtomic
===============================================================================
