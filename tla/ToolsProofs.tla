----------------------------- MODULE ToolsProofs ------------------------------
(***************************************************************************)
(* The programs that run an experiment, and the eventing tutorial: for any *)
(* endpoints, replies and number of requests, any function list and        *)
(* capacity of the channel, and any calls, readings and malformed events.  *)
(* The modules share no name; each has a part of its own below.            *)
(***************************************************************************)
EXTENDS Invoker, Deployer, TempAlerts, Tracing,
        FiniteSetTheorems, SequenceTheorems, WellFoundedInduction, TLAPS

-------------------------------------------------------------------------------
(* Slices that only grow at their end.                                     *)
Has(s, x) == \E k \in 1..Len(s) : s[k] = x
Distinct(s) == \A j, k \in 1..Len(s) : s[j] = s[k] => j = k

(* What occurs at most once in a slice occurs once or not at all.          *)
LEMMA TimesOfDistinct ==
  ASSUME NEW S, NEW s \in Seq(S), Distinct(s), NEW x
  PROVE  Times(s, x) = IF Has(s, x) THEN 1 ELSE 0
<1> DEFINE K == {k \in 1..Len(s) : s[k] = x}
<1>1. CASE Has(s, x)
  <2>1. PICK k \in 1..Len(s) : s[k] = x
    BY <1>1 DEF Has
  <2>2. K = {k}
    BY <2>1 DEF Distinct
  <2>3. Cardinality({k}) = 1
    BY FS_Singleton
  <2> QED BY <1>1, <2>2, <2>3 DEF Times
<1>2. CASE ~Has(s, x)
  <2>1. K = {}
    BY <1>2 DEF Has
  <2> QED BY <1>2, <2>1, FS_EmptySet DEF Times
<1> QED BY <1>1, <1>2

(* An append to a slice of distinct elements.                              *)
LEMMA AppendDistinct ==
  ASSUME NEW S, NEW s \in Seq(S), NEW x \in S, Distinct(s), ~Has(s, x)
  PROVE  /\ Append(s, x) \in Seq(S)
         /\ Distinct(Append(s, x))
         /\ \A y : Has(Append(s, x), y) <=> Has(s, y) \/ y = x
<1>1. /\ Append(s, x) \in Seq(S) /\ Len(s) \in Nat
      /\ Len(Append(s, x)) = Len(s) + 1
      /\ \A k \in 1..Len(s) : Append(s, x)[k] = s[k]
      /\ Append(s, x)[Len(s) + 1] = x
  OBVIOUS
<1> DEFINE a == Append(s, x)
<1> HIDE DEF a
<1>2. \A k \in 1..Len(a) : k \in 1..Len(s) \/ k = Len(s) + 1
  BY <1>1 DEF a
<1>3. Distinct(a)
  BY <1>1, <1>2 DEF Distinct, Has, a
<1>4. \A y : Has(a, y) <=> Has(s, y) \/ y = x
  BY <1>1, <1>2 DEF Has, a
<1> QED BY <1>1, <1>3, <1>4 DEF a

(* Two slices of distinct elements that share none.                        *)
LEMMA ConcatDistinct ==
  ASSUME NEW S, NEW s \in Seq(S), NEW t \in Seq(S), Distinct(s), Distinct(t),
         \A x : ~(Has(s, x) /\ Has(t, x))
  PROVE  /\ s \o t \in Seq(S)
         /\ Distinct(s \o t)
         /\ \A y : Has(s \o t, y) <=> Has(s, y) \/ Has(t, y)
<1>1. /\ s \o t \in Seq(S) /\ Len(s) \in Nat /\ Len(t) \in Nat
      /\ Len(s \o t) = Len(s) + Len(t)
      /\ \A k \in 1..Len(s) : (s \o t)[k] = s[k]
      /\ \A k \in 1..Len(t) : (s \o t)[Len(s) + k] = t[k]
  OBVIOUS
<1> DEFINE a == s \o t
<1> HIDE DEF a
<1>2. \A k \in 1..Len(a) : \/ k \in 1..Len(s) /\ a[k] = s[k]
                           \/ k - Len(s) \in 1..Len(t) /\ a[k] = t[k - Len(s)]
  BY <1>1 DEF a
<1>3. /\ \A k \in 1..Len(s) : k \in 1..Len(a) /\ a[k] = s[k]
      /\ \A k \in 1..Len(t) : Len(s) + k \in 1..Len(a) /\ a[Len(s) + k] = t[k]
  BY <1>1 DEF a
<1>4. Distinct(a)
  <2> SUFFICES ASSUME NEW j \in 1..Len(a), NEW k \in 1..Len(a), a[j] = a[k] PROVE j = k
    BY DEF Distinct
  <2>1. CASE j \in 1..Len(s) /\ k \in 1..Len(s)
    BY <1>3, <2>1 DEF Distinct
  <2>2. CASE j - Len(s) \in 1..Len(t) /\ k - Len(s) \in 1..Len(t) /\ a[j] = t[j - Len(s)] /\ a[k] = t[k - Len(s)]
    <3>1. j - Len(s) = k - Len(s)
      BY <2>2 DEF Distinct
    <3>2. j \in Int /\ k \in Int
      BY <1>1
    <3> QED BY <1>1, <3>1, <3>2
  <2>3. ASSUME NEW i \in 1..Len(s), NEW l \in 1..Len(t) PROVE s[i] # t[l]
    BY DEF Has
  <2> QED BY <1>2, <2>1, <2>2, <2>3
<1>5. \A y : Has(a, y) <=> Has(s, y) \/ Has(t, y)
  <2>1. ASSUME NEW y, Has(a, y) PROVE Has(s, y) \/ Has(t, y)
    <3>1. PICK k \in 1..Len(a) : a[k] = y
      BY <2>1 DEF Has
    <3> QED BY <1>2, <3>1 DEF Has
  <2>2. ASSUME NEW y, Has(s, y) PROVE Has(a, y)
    BY <1>3, <2>2 DEF Has
  <2>3. ASSUME NEW y, Has(t, y) PROVE Has(a, y)
    BY <1>3, <2>3 DEF Has
  <2> QED BY <2>1, <2>2, <2>3
<1> QED BY <1>1, <1>4, <1>5 DEF a

-------------------------------------------------------------------------------
(* The invoker. *)
Latency == [by : {"invoker", "tsdb"}, request : Request]
Mine(r) == [by |-> "invoker", request |-> r]

Stages == {"none", "calling", "parse", "record", "count", "measure", "store", "ended"}
Added == {"write", "writing", "writeProf", "writingProf", "exit"}

Typed ==
  /\ worker \in [Request -> Stages]
  /\ reply = [r \in Request |-> reply[r]]
  /\ held = [p \in Request \cup {Main} |-> held[p]]
  /\ issued \in 0..MaxIssued
  /\ pc \in {"flags", "start"} => issued = 0
  /\ pc = "issue" => issued < MaxIssued
  /\ \A r \in Request : worker[r] = "none" <=> r > issued

(* Whoever stores has read the slice since it took the lock.               *)
Locked ==
  /\ \A r \in Request : worker[r] = "store" => latLock = r /\ held[r] = latSlice
  /\ \A r \in Request : worker[r] = "record" => profLock = r /\ held[r] = profSlice
  /\ pc \in {"adding", "writing"} => latLock = Main
  /\ pc = "adding" => held[Main] = latSlice
  /\ pc = "writingProf" => profLock = Main

(* The TimeseriesDB's latencies are of requests that emit events.          *)
Reported ==
  /\ durations \in Seq(Latency)
  /\ Distinct(durations)
  /\ \A k \in 1..Len(durations) : durations[k].by = "tsdb" /\ Endpoint(durations[k].request).emits
  /\ pc = "flags" => durations = <<>> /\ latFile = Nil

(* The slice holds the latency of each serving request that has ended and, *)
(* once they are added, those of the TimeseriesDB.                         *)
Measured ==
  /\ latSlice \in Seq(Latency)
  /\ Distinct(latSlice)
  /\ \A r \in Request : Has(latSlice, Mine(r)) <=> Serving(r) /\ worker[r] = "ended"
  /\ \A r \in Request : worker[r] \in {"measure", "store"} => Serving(r)
  /\ pc \in Added => \A x : Has(durations, x) => Has(latSlice, x)
  /\ \A x : Has(latSlice, x) /\ x.by = "tsdb" =>
       pc \in Added \cup {"fatal", "panic"} /\ Has(durations, x)

(* A number is recorded before the call is counted.                        *)
Profiled ==
  /\ profSlice \in Seq(Request)
  /\ Distinct(profSlice)
  /\ \A r \in Request :
       Has(profSlice, r) <=> /\ flags.profile
                             /\ reply[r] # Nil
                             /\ reply[r].last = "number"
                             /\ worker[r] \in {"count", "measure", "store", "ended"}
  /\ \A r \in Request : worker[r] \in {"none", "calling"} => reply[r] = Nil
  /\ \A r \in Request : worker[r] \in {"parse", "record"} => flags.profile /\ reply[r] # Nil
  /\ \A r \in Request : worker[r] = "record" => reply[r].last = "number"

InvokeInv == Typed /\ Locked /\ Reported /\ Measured /\ Profiled /\ OneLatencyPerRequest

(* The invariant holds before main() does anything.                        *)
LEMMA InvokeInit == Init => InvokeInv
<1> SUFFICES ASSUME Init PROVE InvokeInv
  OBVIOUS
<1>1. Typed /\ Locked
  BY InvokerAssumption DEF Init, Typed, Locked, Stages, Request
<1>2. <<>> \in Seq(Latency) /\ <<>> \in Seq(Request) /\ Len(<<>>) = 0
  OBVIOUS
<1>3. Distinct(<<>>) /\ \A x : ~Has(<<>>, x)
  BY <1>2 DEF Distinct, Has
<1>4. Reported /\ Measured
  BY <1>2, <1>3 DEF Init, Reported, Measured, Added
<1>5. Profiled /\ OneLatencyPerRequest
  BY <1>2, <1>3 DEF Init, Profiled, OneLatencyPerRequest
<1> QED BY <1>1, <1>4, <1>5 DEF InvokeInv

(* What the actions do to the goroutines and the requests.                 *)
LEMMA TypedStep == Typed /\ [Next]_vars => Typed'
<1> SUFFICES ASSUME Typed, [Next]_vars PROVE Typed'
  OBVIOUS
<1>1. CASE Issue
  <2>1. issued + 1 \in Request /\ issued \in Nat
    BY <1>1, InvokerAssumption DEF Issue, Typed, Request
  <2> QED BY <1>1, <2>1 DEF Issue, Typed, Request, Stages, setup, lats, profs, files
<1>2. CASE Tick \/ Start
  <2>1. pc' = "issue" /\ UNCHANGED <<issued, worker, reply, held>>
    BY <1>2 DEF Tick, Start, lats, profs
  <2>2. MaxIssued \in Nat /\ 0 < MaxIssued
    BY InvokerAssumption
  <2>3. issued < MaxIssued
    BY <1>2, <2>2 DEF Tick, Start, Typed
  <2> QED BY <2>1, <2>3 DEF Typed
<1>3. CASE \E eps \in EndpointLists : ReadEndpoints(eps)
  BY <1>3 DEF ReadEndpoints, Typed, setup, lats, profs, files
<1>4. CASE Fatal \/ IssuePanics \/ Timeout
  BY <1>4 DEF Fatal, IssuePanics, Timeout, Typed, setup, lats, profs, files
<1>5. CASE \E reported \in SUBSET {r \in 1..issued : Endpoint(r).emits} : End(reported)
  BY <1>5 DEF End, Typed, setup, lats, profs, files
<1>6. CASE AddLock \/ Add \/ WriteLock \/ Write \/ WriteProfLock \/ WriteProf
  BY <1>6 DEF AddLock, Add, WriteLock, Write, WriteProfLock, WriteProf, Typed,
              setup, lats, profs, files
<1>7. ASSUME NEW r \in Request, Goroutine(r) PROVE Typed'
  <2>1. /\ worker[r] # "none"
        /\ \/ worker' = worker
           \/ \E p \in Stages \ {"none"} : worker' = [worker EXCEPT ![r] = p]
        /\ issued' = issued /\ pc' \in {pc, "panic", "fatal"}
    BY <1>7 DEF Goroutine, ConnectionFails, CallFails, CallReturns, ParseReply, ParsePanics, RecordProfile, Count,
                MeasureLock, Measure, At, Goto, AfterCall, Stages
  <2>2. /\ reply' = [q \in Request |-> reply'[q]]
        /\ held' = [p \in Request \cup {Main} |-> held'[p]]
    BY <1>7 DEF Goroutine, ConnectionFails, CallFails, CallReturns, ParseReply, ParsePanics, RecordProfile, Count,
                MeasureLock, Measure, Typed, lats, profs
  <2> QED BY <2>1, <2>2 DEF Typed
<1>8. CASE UNCHANGED vars
  BY <1>8 DEF vars, Typed, setup, lats, profs, files
<1> QED BY <1>1, <1>2, <1>3, <1>4, <1>5, <1>6, <1>7, <1>8 DEF Next, MainStep, Exited

(* The mutexes exclude: nothing is stored but by who holds the lock.       *)
LEMMA LockedStep == Typed /\ Locked /\ [Next]_vars => Locked'
<1> SUFFICES ASSUME Typed, Locked, [Next]_vars PROVE Locked'
  OBVIOUS
<1>1. Nil \notin Request \cup {Main} /\ Main \notin Request
  BY InvokerAssumption DEF Request, Main
<1>2. ASSUME UNCHANGED <<latLock, latSlice, profLock, profSlice, held>>,
             \A r \in Request : worker'[r] \in {"store", "record"} => worker'[r] = worker[r],
             pc' \in {"adding", "writing", "writingProf"} => pc' = pc
      PROVE  Locked'
  BY <1>2 DEF Locked
<1>3. CASE Issue
  <2>1. issued + 1 \in Request
    BY <1>3, InvokerAssumption DEF Issue, Typed, Request
  <2> QED BY <1>2, <1>3, <2>1 DEF Issue, Typed, lats, profs
<1>4. CASE \/ \E eps \in EndpointLists : ReadEndpoints(eps)
           \/ Start \/ Fatal \/ IssuePanics \/ Tick \/ Timeout
           \/ \E reported \in SUBSET {r \in 1..issued : Endpoint(r).emits} : End(reported)
  BY <1>2, <1>4 DEF ReadEndpoints, Start, Fatal, IssuePanics, Tick, Timeout, End, lats, profs
<1>5. CASE AddLock \/ Add \/ WriteLock \/ Write
  BY <1>1, <1>5 DEF AddLock, Add, WriteLock, Write, Free, Locked, Typed, profs
<1>6. CASE WriteProfLock \/ WriteProf
  BY <1>1, <1>6 DEF WriteProfLock, WriteProf, Free, Locked, Typed, lats
<1>7. ASSUME NEW r \in Request, Goroutine(r) PROVE Locked'
  <2>1. CASE \/ ConnectionFails(r) \/ CallFails(r) \/ (\E m \in Message : CallReturns(r, m))
             \/ ParsePanics(r) \/ Count(r)
    BY <1>2, <2>1 DEF ConnectionFails, CallFails, CallReturns, ParsePanics, Count, Goto, AfterCall, Typed, lats, profs
  <2>2. CASE ParseReply(r) /\ worker'[r] = "record"
    <3>1. /\ profLock = Nil /\ profLock' = r /\ held' = [held EXCEPT ![r] = profSlice]
          /\ worker' = [worker EXCEPT ![r] = "record"]
          /\ worker[r] = "parse" /\ UNCHANGED <<pc, latLock, latSlice, profSlice>>
      BY <2>2 DEF ParseReply, Free, At, Goto, Typed, lats
    <3>2. \A q \in Request : worker[q] # "record"
      BY <1>1, <3>1 DEF Locked
    <3> QED BY <1>1, <3>1, <3>2 DEF Locked, Typed
  <2>3. CASE ParseReply(r) /\ worker'[r] # "record"
    BY <1>2, <2>3 DEF ParseReply, At, Goto, Typed, lats
  <2>4. CASE RecordProfile(r)
    <3>1. /\ profLock = r /\ profLock' = Nil /\ worker' = [worker EXCEPT ![r] = "count"]
          /\ UNCHANGED <<pc, latLock, latSlice, held>>
      BY <2>4 DEF RecordProfile, At, Goto, Locked, lats
    <3>2. \A q \in Request : worker'[q] # "record"
      BY <3>1 DEF Locked, Typed
    <3> QED BY <1>1, <3>1, <3>2 DEF Locked, Typed
  <2>5. CASE MeasureLock(r)
    <3>1. /\ latLock = Nil /\ latLock' = r /\ held' = [held EXCEPT ![r] = latSlice]
          /\ worker' = [worker EXCEPT ![r] = "store"] /\ worker[r] = "measure"
          /\ UNCHANGED <<pc, profLock, latSlice, profSlice>>
      BY <2>5 DEF MeasureLock, Free, At, Goto, profs
    <3>2. pc \notin {"adding", "writing"} /\ \A q \in Request : worker[q] # "store"
      BY <1>1, <3>1 DEF Locked
    <3> QED BY <1>1, <3>1, <3>2 DEF Locked, Typed
  <2>6. CASE Measure(r)
    <3>1. /\ latLock = r /\ latLock' = Nil /\ worker' = [worker EXCEPT ![r] = "ended"]
          /\ UNCHANGED <<pc, profLock, profSlice, held>>
      BY <2>6 DEF Measure, Unlocked, At, Goto, Locked, profs
    <3>2. pc \notin {"adding", "writing"} /\ \A q \in Request : worker'[q] # "store"
      BY <1>1, <3>1 DEF Locked, Typed
    <3> QED BY <1>1, <3>1, <3>2 DEF Locked, Typed
  <2> QED BY <1>7, <2>1, <2>2, <2>3, <2>4, <2>5, <2>6 DEF Goroutine
<1>8. CASE UNCHANGED vars
  BY <1>2, <1>8 DEF vars, lats, profs
<1> QED BY <1>3, <1>4, <1>5, <1>6, <1>7, <1>8 DEF Next, MainStep, Exited

(* The endpoints are read before anything is issued.                       *)
LEMMA ServingStays ==
  pc # "flags" /\ [Next]_vars =>
    endpoints' = endpoints /\ \A r : Serving(r)' = Serving(r) /\ Endpoint(r)' = Endpoint(r)
<1> SUFFICES ASSUME pc # "flags", [Next]_vars PROVE endpoints' = endpoints
  BY DEF Serving, Endpoint
<1>1. CASE MainStep
  BY <1>1 DEF MainStep, ReadEndpoints, Start, Fatal, Issue, IssuePanics, Tick, Timeout, End,
              AddLock, Add, WriteLock, Write, WriteProfLock, WriteProf, setup
<1>2. CASE \E r \in Request : Goroutine(r)
  BY <1>2 DEF Goroutine, ConnectionFails, CallFails, CallReturns, ParseReply, ParsePanics, RecordProfile, Count,
              MeasureLock, Measure, setup
<1> QED BY <1>1, <1>2 DEF Next, Exited, vars, setup

(* The durations of End() are of requests whose events match.              *)
LEMMA ReportedStep == Typed /\ Reported /\ [Next]_vars => Reported'
<1> SUFFICES ASSUME Typed, Reported, [Next]_vars PROVE Reported'
  OBVIOUS
<1>1. CASE pc = "flags"
  <2>1. durations' = <<>> /\ latFile' = Nil
    <3>1. durations' = durations /\ latFile' = latFile
      BY <1>1 DEF Next, MainStep, ReadEndpoints, Start, Fatal, Issue, IssuePanics, Tick, Timeout, End,
              AddLock, Add, WriteLock, Write, WriteProfLock, WriteProf, Goroutine, ConnectionFails, CallFails,
              CallReturns, ParseReply, ParsePanics, RecordProfile, Count, MeasureLock, Measure,
              Exited, vars, files
    <3> QED BY <1>1, <3>1 DEF Reported
  <2>2. <<>> \in Seq(Latency) /\ Len(<<>>) = 0
    OBVIOUS
  <2> QED BY <2>1, <2>2 DEF Reported, Distinct
<1>2. ASSUME pc # "flags", NEW reported \in SUBSET {r \in 1..issued : Endpoint(r).emits}, End(reported)
      PROVE  Reported'
  <2>1. PICK order \in [1..Cardinality(reported) -> reported] :
          /\ \A j, k \in DOMAIN order : j # k => order[j] # order[k]
          /\ durations' = [k \in DOMAIN order |-> [by |-> "tsdb", request |-> order[k]]]
    BY <1>2 DEF End
  <2>2. issued \in Int /\ reported \in SUBSET (1..issued)
    BY InvokerAssumption DEF Typed
  <2>3. IsFiniteSet(1..issued)
    BY <2>2, FS_Interval
  <2>4. Cardinality(reported) \in Nat
    BY <2>2, <2>3, FS_Subset, FS_CardinalityType
  <2>5. reported \subseteq Request
    BY <2>2, InvokerAssumption DEF Typed, Request
  <2> DEFINE n == Cardinality(reported)
             d == durations'
  <2>6. /\ d = [k \in 1..n |-> d[k]]
        /\ \A k \in 1..n : d[k] = [by |-> "tsdb", request |-> order[k]] /\ d[k] \in Latency
    BY <2>1, <2>5 DEF Latency
  <2> HIDE DEF n
  <2>7. durations' \in Seq(Latency) /\ Len(durations') = n
    BY <2>4, <2>6 DEF n
  <2>8. Distinct(durations')
    BY <2>1, <2>6, <2>7 DEF Distinct, n
  <2>9. \A k \in 1..Len(durations') : durations'[k].by = "tsdb" /\ Endpoint(durations'[k].request).emits
    BY <2>1, <2>6, <2>7 DEF n
  <2>10. pc' # "flags"
    BY <1>2 DEF End
  <2> QED BY <1>2, <2>7, <2>8, <2>9, <2>10, ServingStays DEF Reported, Distinct
<1>3. CASE pc # "flags" /\ UNCHANGED durations
  <2>1. pc' # "flags"
    BY <1>3 DEF Next, MainStep, ReadEndpoints, Start, Fatal, Issue, IssuePanics, Tick, Timeout, End,
              AddLock, Add, WriteLock, Write, WriteProfLock, WriteProf, Goroutine, ConnectionFails, CallFails,
              CallReturns, ParseReply, ParsePanics, RecordProfile, Count, MeasureLock, Measure,
              Exited, vars
  <2> QED BY <1>3, <2>1, ServingStays DEF Reported, Distinct
<1>4. \/ UNCHANGED durations
      \/ \E reported \in SUBSET {r \in 1..issued : Endpoint(r).emits} : End(reported)
  BY DEF Next, MainStep, ReadEndpoints, Start, Fatal, Issue, IssuePanics, Tick, Timeout,
         AddLock, Add, WriteLock, Write, WriteProfLock, WriteProf, Goroutine, ConnectionFails, CallFails,
         CallReturns, ParseReply, ParsePanics, RecordProfile, Count, MeasureLock, Measure,
         Exited, vars
<1> QED BY <1>1, <1>2, <1>3, <1>4

(* The records of two requests differ.                                     *)
LEMMA MineDiffer ==
  ASSUME NEW r \in Request, NEW q \in Request
  PROVE  Mine(r) \in Latency /\ Mine(r).by = "invoker" /\ (Mine(r) = Mine(q) => r = q)
BY DEF Mine, Latency

(* The slice changes with nothing but the two appends.                     *)
LEMMA MeasuredStep ==
  ASSUME Typed, Locked, Reported, Measured, [Next]_vars
  PROVE  Measured'
<1>1. ASSUME NEW r \in Request, Measure(r) PROVE Measured'
  <2>1. /\ worker[r] = "store" /\ held[r] = latSlice /\ worker' = [worker EXCEPT ![r] = "ended"]
        /\ latSlice' = Append(latSlice, Mine(r)) /\ UNCHANGED <<pc, endpoints, durations>>
    BY <1>1 DEF Measure, At, Goto, Locked, Mine, setup
  <2>2. Serving(r) /\ ~Has(latSlice, Mine(r)) /\ Mine(r) \in Latency
    BY <2>1, MineDiffer DEF Measured
  <2>3. /\ latSlice' \in Seq(Latency) /\ Distinct(latSlice')
        /\ \A y : Has(latSlice', y) <=> Has(latSlice, y) \/ y = Mine(r)
    <3> HIDE DEF Latency, Mine
    <3> QED BY <2>1, <2>2, AppendDistinct DEF Measured
  <2>4. Distinct(latSlice)' /\ \A y : Has(latSlice, y)' <=> Has(latSlice, y) \/ y = Mine(r)
    BY <2>3 DEF Distinct, Has
  <2>5. /\ \A q : Serving(q)' = Serving(q)
        /\ \A y : Has(durations, y)' <=> Has(durations, y)
    BY <2>1 DEF Serving, Endpoint, Has
  <2>6. \A q \in Request : worker'[q] = IF q = r THEN "ended" ELSE worker[q]
    BY <2>1 DEF Typed
  <2>7. \A q \in Request : Has(latSlice, Mine(q))' <=> Serving(q)' /\ worker'[q] = "ended"
    BY <2>2, <2>4, <2>5, <2>6, MineDiffer DEF Measured, Mine
  <2>8. \A q \in Request : worker'[q] \in {"measure", "store"} => Serving(q)'
    BY <2>5, <2>6 DEF Measured
  <2>9. pc' \in Added => \A x : Has(durations, x)' => Has(latSlice, x)'
    BY <2>1, <2>4, <2>5 DEF Measured
  <2>10. \A x : Has(latSlice, x)' /\ x.by = "tsdb" =>
           pc' \in Added \cup {"fatal", "panic"} /\ Has(durations, x)'
    BY <2>1, <2>4, <2>5, MineDiffer DEF Measured
  <2> QED BY <2>3, <2>4, <2>7, <2>8, <2>9, <2>10 DEF Measured, Mine
<1>2. CASE Add
  <2>1. /\ pc = "adding" /\ pc' = "write" /\ held[Main] = latSlice
        /\ latSlice' = latSlice \o durations /\ UNCHANGED <<worker, endpoints, durations>>
    BY <1>2 DEF Add, Locked, setup
  <2>2. \A x : Has(latSlice, x) => x.by # "tsdb"
    BY <2>1 DEF Measured, Added
  <2>3. \A x : Has(durations, x) => x.by = "tsdb"
    BY DEF Has, Reported
  <2>4. /\ latSlice' \in Seq(Latency) /\ Distinct(latSlice')
        /\ \A y : Has(latSlice', y) <=> Has(latSlice, y) \/ Has(durations, y)
    <3>1. /\ latSlice \in Seq(Latency) /\ durations \in Seq(Latency)
          /\ Distinct(latSlice) /\ Distinct(durations)
      BY DEF Measured, Reported
    <3> HIDE DEF Latency, Has, Distinct
    <3>2. \A x : ~(Has(latSlice, x) /\ Has(durations, x))
      BY <2>2, <2>3
    <3>3. /\ latSlice \o durations \in Seq(Latency) /\ Distinct(latSlice \o durations)
          /\ \A y : Has(latSlice \o durations, y) <=> Has(latSlice, y) \/ Has(durations, y)
      BY <3>1, <3>2, ConcatDistinct
    <3> QED BY <2>1, <3>3
  <2>5. Distinct(latSlice)' /\ \A y : Has(latSlice, y)' <=> Has(latSlice, y) \/ Has(durations, y)
    BY <2>4 DEF Distinct, Has
  <2>6. /\ \A q : Serving(q)' = Serving(q)
        /\ \A y : Has(durations, y)' <=> Has(durations, y)
    BY <2>1 DEF Serving, Endpoint, Has
  <2>7. \A q \in Request : ~Has(durations, Mine(q))
    BY <2>3, MineDiffer
  <2>8. \A q \in Request : Has(latSlice, Mine(q))' <=> Serving(q)' /\ worker'[q] = "ended"
    BY <2>1, <2>5, <2>6, <2>7 DEF Measured
  <2> QED BY <2>1, <2>2, <2>4, <2>5, <2>6, <2>8 DEF Measured, Added, Mine
<1>3. ASSUME UNCHANGED <<latSlice, endpoints, durations>>,
             \A q \in Request : worker'[q] = "ended" /\ Serving(q) => worker[q] = "ended",
             \A q \in Request : worker[q] = "ended" => worker'[q] = "ended",
             \A q \in Request : worker'[q] \in {"measure", "store"} =>
               Serving(q) \/ worker[q] \in {"measure", "store"},
             pc' \in Added => pc \in Added,
             pc \in Added => pc' \in Added \cup {"exit", "fatal", "panic"},
             pc \in {"fatal", "panic"} => pc' = pc
      PROVE  Measured'
  <2>1. /\ \A q : Serving(q)' = Serving(q)
        /\ \A y : Has(durations, y)' <=> Has(durations, y)
        /\ \A y : Has(latSlice, y)' <=> Has(latSlice, y)
        /\ Distinct(latSlice)' <=> Distinct(latSlice)
    BY <1>3 DEF Serving, Endpoint, Has, Distinct
  <2> QED BY <1>3, <2>1 DEF Measured, Added, Mine
<1>4. CASE \E eps \in EndpointLists : ReadEndpoints(eps)
  <2>1. /\ pc = "flags" /\ pc' = "start" /\ UNCHANGED <<latSlice, worker, durations>>
    BY <1>4 DEF ReadEndpoints, lats
  <2>2. \A r \in Request : worker[r] = "none"
    BY <2>1, InvokerAssumption DEF Typed, Request
  <2>3. /\ \A y : Has(durations, y)' <=> Has(durations, y)
        /\ \A y : Has(latSlice, y)' <=> Has(latSlice, y)
        /\ Distinct(latSlice)' <=> Distinct(latSlice)
    BY <2>1 DEF Has, Distinct
  <2> QED BY <2>1, <2>2, <2>3 DEF Measured, Added, Mine
<1>5. CASE Issue
  <2>1. issued + 1 \in Request /\ worker[issued + 1] = "none"
    <3>1. issued < MaxIssued /\ issued \in Nat /\ MaxIssued \in Nat
      BY <1>5, InvokerAssumption DEF Issue, Typed
    <3> QED BY <3>1 DEF Typed, Request
  <2>2. \A q \in Request : worker'[q] = IF q = issued + 1 THEN "calling" ELSE worker[q]
    BY <1>5, <2>1 DEF Issue, Typed
  <2> QED BY <1>3, <1>5, <2>1, <2>2 DEF Issue, Added, lats, setup
<1>6. CASE \E reported \in SUBSET {r \in 1..issued : Endpoint(r).emits} : End(reported)
  <2>1. pc = "end" /\ pc' = "add" /\ UNCHANGED <<latSlice, endpoints, worker>>
    BY <1>6 DEF End, lats, setup
  <2>2. \A x : Has(latSlice, x) => x.by # "tsdb"
    BY <2>1 DEF Measured, Added
  <2>3. /\ \A q : Serving(q)' = Serving(q)
        /\ \A y : Has(latSlice, y)' <=> Has(latSlice, y)
        /\ Distinct(latSlice)' <=> Distinct(latSlice)
    BY <2>1 DEF Serving, Endpoint, Has, Distinct
  <2> QED BY <2>1, <2>2, <2>3 DEF Measured, Added, Mine
<1>7. CASE Start \/ Fatal \/ IssuePanics \/ Tick \/ Timeout
  BY <1>3, <1>7 DEF Start, Fatal, IssuePanics, Tick, Timeout, Added, lats, setup
<1>8. CASE AddLock \/ WriteLock \/ Write \/ WriteProfLock \/ WriteProf
  BY <1>3, <1>8 DEF AddLock, WriteLock, Write, WriteProfLock, WriteProf, Added, lats, setup
<1>9. ASSUME NEW r \in Request, Goroutine(r), ~Measure(r) PROVE Measured'
  <2>1. /\ UNCHANGED <<latSlice, endpoints, durations>>
        /\ pc' = pc \/ (Running /\ pc' \in {"panic", "fatal"})
    BY <1>9 DEF Goroutine, ConnectionFails, CallFails, CallReturns, ParseReply, ParsePanics, RecordProfile, Count,
                MeasureLock, At, lats, setup
  <2>2. \/ worker' = worker
        \/ /\ worker[r] # "ended"
           /\ \E p : /\ worker' = [worker EXCEPT ![r] = p]
                     /\ p = "ended" => ~Serving(r)
                     /\ p \in {"measure", "store"} =>
                          Serving(r) \/ worker[r] \in {"measure", "store"}
    <3>1. CASE ConnectionFails(r) \/ CallFails(r) \/ Count(r)
      BY <3>1 DEF ConnectionFails, CallFails, Count, At, Goto, AfterCall
    <3>2. CASE \E m \in Message : CallReturns(r, m)
      BY <3>2 DEF CallReturns, At, Goto
    <3>3. CASE ParseReply(r) \/ ParsePanics(r) \/ RecordProfile(r)
      BY <3>3 DEF ParseReply, ParsePanics, RecordProfile, At, Goto
    <3>4. CASE MeasureLock(r)
      BY <3>4 DEF MeasureLock, At, Goto
    <3> QED BY <1>9, <3>1, <3>2, <3>3, <3>4 DEF Goroutine
  <2>3. /\ \A q \in Request : worker'[q] = "ended" /\ Serving(q) => worker[q] = "ended"
        /\ \A q \in Request : worker[q] = "ended" => worker'[q] = "ended"
        /\ \A q \in Request : worker'[q] \in {"measure", "store"} =>
               Serving(q) \/ worker[q] \in {"measure", "store"}
    BY <2>2 DEF Typed
  <2> QED BY <1>3, <2>1, <2>3 DEF Running, Added
<1>10. CASE UNCHANGED vars
  BY <1>3, <1>10 DEF vars, lats, setup
<1> QED BY <1>1, <1>2, <1>4, <1>5, <1>6, <1>7, <1>8, <1>9, <1>10 DEF Next, MainStep, Exited

(* The values of the flags and of the mutex are none of the replies.       *)
LEMMA ReplyIsNotNil == ASSUME NEW r, NEW m \in Message PROVE Reply(r, m) # Nil
<1>1. m \in [words : Nat, last : {"number", "text"}]
  BY InvokerAssumption
<1>2. RelayReply(m) \in [words : Nat, last : {"number", "text"}]
  BY <1>1 DEF RelayReply
<1> QED BY <1>1, <1>2, InvokerAssumption DEF Reply

(* A number is recorded once, on the way from the reply to the count.      *)
LEMMA ProfiledStep ==
  ASSUME Typed, Locked, Profiled, [Next]_vars
  PROVE  Profiled'
<1> DEFINE Counted == {"count", "measure", "store", "ended"}
<1>1. ASSUME NEW r \in Request, RecordProfile(r) PROVE Profiled'
  <2>1. /\ worker[r] = "record" /\ held[r] = profSlice /\ worker' = [worker EXCEPT ![r] = "count"]
        /\ profSlice' = Append(profSlice, r) /\ UNCHANGED <<flags, reply>>
    BY <1>1 DEF RecordProfile, At, Goto, Locked, setup
  <2>2. ~Has(profSlice, r) /\ flags.profile /\ reply[r] # Nil /\ reply[r].last = "number"
    BY <2>1 DEF Profiled
  <2>3. /\ profSlice' \in Seq(Request) /\ Distinct(profSlice')
        /\ \A y : Has(profSlice', y) <=> Has(profSlice, y) \/ y = r
    <3> HIDE DEF Request
    <3> QED BY <2>1, <2>2, AppendDistinct DEF Profiled
  <2>4. Distinct(profSlice)' /\ \A y : Has(profSlice, y)' <=> Has(profSlice, y) \/ y = r
    BY <2>3 DEF Distinct, Has
  <2>5. \A q \in Request : worker'[q] = IF q = r THEN "count" ELSE worker[q]
    BY <2>1 DEF Typed
  <2> QED BY <2>1, <2>2, <2>3, <2>4, <2>5 DEF Profiled, Request
<1>2. ASSUME NEW r \in Request, NEW m \in Message, CallReturns(r, m) PROVE Profiled'
  <2>1. /\ worker[r] = "calling" /\ reply[r] = Nil /\ UNCHANGED <<flags, profSlice>>
        /\ reply' = [reply EXCEPT ![r] = Reply(r, m)]
        /\ worker' = [worker EXCEPT ![r] = IF flags.profile THEN "parse" ELSE "count"]
    BY <1>2 DEF CallReturns, At, Goto, Profiled, setup, profs
  <2>2. /\ \A q \in Request : reply'[q] = IF q = r THEN Reply(r, m) ELSE reply[q]
        /\ \A q \in Request :
             worker'[q] = IF q = r THEN IF flags.profile THEN "parse" ELSE "count" ELSE worker[q]
    BY <2>1 DEF Typed
  <2>3. \A y : Has(profSlice, y)' <=> Has(profSlice, y)
    BY <2>1 DEF Has
  <2> QED BY <2>1, <2>2, <2>3, ReplyIsNotNil DEF Profiled, Distinct, Request
<1>3. ASSUME UNCHANGED <<flags, reply, profSlice>>,
             \A q \in Request : worker[q] \in Counted => worker'[q] \in Counted,
             \A q \in Request : worker'[q] \in Counted =>
               \/ worker[q] \in Counted \cup {"calling"}
               \/ worker[q] = "parse" /\ reply[q].last # "number",
             \A q \in Request : worker'[q] \in {"none", "calling"} =>
               worker[q] \in {"none", "calling"},
             \A q \in Request : worker'[q] = "parse" => worker[q] = "parse",
             \A q \in Request : worker'[q] = "record" =>
               \/ worker[q] = "record"
               \/ worker[q] = "parse" /\ reply[q].last = "number"
      PROVE  Profiled'
  <2>1. \A y : Has(profSlice, y)' <=> Has(profSlice, y)
    BY <1>3 DEF Has
  <2> QED BY <1>3, <2>1 DEF Profiled, Distinct, Request
<1>4. CASE Issue
  <2>1. issued + 1 \in Request /\ worker[issued + 1] = "none"
    <3>1. issued < MaxIssued /\ issued \in Nat /\ MaxIssued \in Nat
      BY <1>4, InvokerAssumption DEF Issue, Typed
    <3> QED BY <3>1 DEF Typed, Request
  <2>2. \A q \in Request : worker'[q] = IF q = issued + 1 THEN "calling" ELSE worker[q]
    BY <1>4, <2>1 DEF Issue, Typed
  <2> QED BY <1>3, <1>4, <2>1, <2>2 DEF Issue, profs, setup
<1>5. CASE MainStep /\ ~Issue
  <2>1. UNCHANGED <<flags, reply, profSlice, worker>>
    BY <1>5 DEF MainStep, ReadEndpoints, Start, Fatal, IssuePanics, Tick, Timeout, End,
                AddLock, Add, WriteLock, Write, WriteProfLock, WriteProf, setup, profs
  <2> QED BY <1>3, <2>1
<1>6. ASSUME NEW r \in Request, Goroutine(r), ~RecordProfile(r),
             ~\E m \in Message : CallReturns(r, m)
      PROVE  Profiled'
  <2>1. UNCHANGED <<flags, reply, profSlice>>
    BY <1>6 DEF Goroutine, ConnectionFails, CallFails, ParseReply, ParsePanics, Count, MeasureLock, Measure,
                setup, profs
  <2>2. \/ worker' = worker
        \/ \E p \in Counted :
             /\ worker[r] \in (Counted \cup {"calling"})
             /\ worker' = [worker EXCEPT ![r] = p]
        \/ \E p \in {"record", "count"} :
             /\ worker[r] = "parse" /\ (p = "record" <=> reply[r].last = "number")
             /\ worker' = [worker EXCEPT ![r] = p]
    BY <1>6 DEF Goroutine, ConnectionFails, CallFails, ParseReply, ParsePanics, Count, MeasureLock, Measure,
                At, Goto, AfterCall
  <2> QED BY <1>3, <2>1, <2>2 DEF Typed
<1>7. CASE UNCHANGED vars
  BY <1>3, <1>7 DEF vars, setup, profs
<1> QED BY <1>1, <1>2, <1>4, <1>5, <1>6, <1>7 DEF Next, Goroutine, Exited

(* What is written is the slice, whose latencies are of different requests.*)
LEMMA OneLatencyStep ==
  ASSUME Typed, Reported, Measured, OneLatencyPerRequest, [Next]_vars
  PROVE  OneLatencyPerRequest'
<1>1. CASE Write
  <2>1. latFile' = latSlice
    BY <1>1 DEF Write
  <2>2. ASSUME NEW k \in 1..Len(latSlice)
        PROVE  /\ latSlice[k] \in Latency
               /\ latSlice[k].by = "tsdb" => Endpoint(latSlice[k].request).emits
               /\ latSlice[k].by = "invoker" => Serving(latSlice[k].request)
    <3>1. latSlice[k] \in Latency /\ Has(latSlice, latSlice[k])
      BY DEF Measured, Has
    <3>2. latSlice[k].by = "tsdb" => Endpoint(latSlice[k].request).emits
      BY <3>1 DEF Measured, Reported, Has
    <3>3. CASE latSlice[k].by = "invoker"
      <4>1. latSlice[k] = Mine(latSlice[k].request) /\ latSlice[k].request \in Request
        BY <3>1, <3>3 DEF Latency, Mine
      <4> QED BY <3>1, <3>2, <3>3, <4>1 DEF Measured
    <3> QED BY <3>1, <3>2, <3>3
  <2>3. ASSUME NEW j \in 1..Len(latSlice), NEW k \in 1..Len(latSlice),
               latSlice[j].request = latSlice[k].request
        PROVE  j = k \/ (latSlice[j].by # latSlice[k].by /\ Mismarked(latSlice[j].request))
    <3> DEFINE q == latSlice[j].request
    <3> HIDE DEF q
    <3>1. CASE latSlice[j].by = latSlice[k].by
      <4>1. latSlice[j] = latSlice[k]
        BY <2>2, <2>3, <3>1 DEF Latency
      <4> QED BY <4>1 DEF Measured, Distinct
    <3>2. CASE latSlice[j].by # latSlice[k].by
      <4>1. /\ latSlice[j].by \in {"invoker", "tsdb"} /\ latSlice[k].by \in {"invoker", "tsdb"}
            /\ latSlice[j].request = q /\ latSlice[k].request = q
        BY <2>2, <2>3 DEF Latency, q
      <4>2. Serving(q) /\ Endpoint(q).emits
        BY <2>2, <3>2, <4>1
      <4> QED BY <3>2, <4>1, <4>2 DEF Mismarked
    <3> QED BY <3>1, <3>2
  <2>4. \A r : Mismarked(r)' = Mismarked(r)
    BY <1>1, ServingStays DEF Write, Mismarked
  <2> QED BY <2>1, <2>3, <2>4 DEF OneLatencyPerRequest
<1>2. CASE ~Write
  <2>1. latFile' = latFile
    BY <1>2 DEF Next, MainStep, ReadEndpoints, Start, Fatal, Issue, IssuePanics, Tick, Timeout, End,
              AddLock, Add, WriteLock, WriteProfLock, WriteProf, Goroutine, ConnectionFails, CallFails,
              CallReturns, ParseReply, ParsePanics, RecordProfile, Count, MeasureLock, Measure,
              Exited, vars, files
  <2>2. CASE pc = "flags"
    BY <2>1, <2>2 DEF Reported, OneLatencyPerRequest
  <2>3. CASE pc # "flags"
    <3>1. \A r : Mismarked(r)' = Mismarked(r)
      BY <2>3, ServingStays DEF Mismarked
    <3> QED BY <2>1, <3>1 DEF OneLatencyPerRequest
  <2> QED BY <2>2, <2>3
<1> QED BY <1>1, <1>2

LEMMA InvokeInvariance == Spec => []InvokeInv
<1>1. InvokeInv /\ [Next]_vars => InvokeInv'
  BY TypedStep, LockedStep, ReportedStep, MeasuredStep, ProfiledStep, OneLatencyStep DEF InvokeInv
<1> QED BY <1>1, InvokeInit, PTL DEF Spec

(* No append to latSlice or profSlice is lost and none is made twice,      *)
(* whatever the goroutines and main() do to each other: each of them reads *)
(* the slice and stores it under the same mutex.                           *)
THEOREM RecordsAreKept == Spec => []RecordsKept
<1>1. InvokeInv => RecordsKept
  <2> SUFFICES ASSUME InvokeInv PROVE RecordsKept
    OBVIOUS
  <2>1. 1..issued \subseteq Request
    BY InvokerAssumption DEF InvokeInv, Typed, Request
  <2>2. ASSUME NEW r \in 1..issued
        PROVE  Times(latSlice, Mine(r)) = IF Serving(r) /\ worker[r] = "ended" THEN 1 ELSE 0
    BY <2>1, TimesOfDistinct DEF InvokeInv, Measured
  <2>3. ASSUME pc \in Added, NEW k \in 1..Len(durations)
        PROVE  Times(latSlice, durations[k]) = 1
    <3>1. Has(latSlice, durations[k])
      BY <2>3 DEF InvokeInv, Measured, Has
    <3> QED BY <3>1, TimesOfDistinct DEF InvokeInv, Measured
  <2>4. LatencyKept
    BY <2>2, <2>3 DEF LatencyKept, Mine, Added
  <2>5. ProfileKept
    <3> SUFFICES ASSUME NEW r \in 1..issued
                 PROVE  Times(profSlice, r) =
                          IF /\ flags.profile
                             /\ reply[r] # Nil
                             /\ reply[r].last = "number"
                             /\ worker[r] \in {"count", "measure", "store", "ended"} THEN 1 ELSE 0
      BY DEF ProfileKept
    <3>1. Times(profSlice, r) = IF Has(profSlice, r) THEN 1 ELSE 0
      BY TimesOfDistinct DEF InvokeInv, Profiled
    <3> QED BY <2>1, <3>1 DEF InvokeInv, Profiled
  <2> QED BY <2>4, <2>5 DEF RecordsKept
<1> QED BY <1>1, InvokeInvariance, PTL

(* The latencies in the file are of different requests, unless one went to *)
(* an endpoint that is marked as serving and emits completion events: that *)
(* is the only way for both the invoker and the TimeseriesDB to measure it.*)
THEOREM RequestsMeasuredOnce == Spec => []OneLatencyPerRequest
BY InvokeInvariance, PTL DEF InvokeInv

-------------------------------------------------------------------------------
(* The deployer. *)

(* The goroutine was started before the loops reached their position. *)
Started(g) == g.entry < entry \/ (g.entry = entry /\ g.copy < copy)

(* Every element of the channel is either the slot of a goroutine that has *)
(* not released it or was sent by the last loop.                           *)
SlotInv ==
  /\ sem = Cardinality(applying) + Cardinality(returned) + drained
  /\ sem <= Conc
  /\ applying \cap returned = {}
  /\ \A g \in applying \cup returned : Started(g)

(* What main()'s position says of the drained slots and the goroutines. *)
MainInv ==
  /\ main = "read" => applying = {} /\ urls = <<>>
  /\ main \in {"write", "done"} => drained >= Conc

(* Each url collected is being applied or has been. *)
UrlInv ==
  /\ urls \in Seq(Function)
  /\ \A k \in 1..Len(urls) : urls[k] \in applied \/ \E g \in applying : urls[k] = Deploys(g)

DeployInv == TypeOK /\ SlotInv /\ MainInv /\ UrlInv

(* The invariant holds before main() does anything. *)
LEMMA DeployInitial == DeployInit => DeployInv
<1> SUFFICES ASSUME DeployInit PROVE DeployInv
  OBVIOUS
<1>1. IsFiniteSet({}) /\ Cardinality({}) = 0
  BY FS_EmptySet
<1> QED
  BY <1>1, DeployerAssumption DEF DeployInit, DeployInv, TypeOK, SlotInv, MainInv, UrlInv

(* A send that starts a deployment takes a free slot for a new goroutine. *)
LEMMA StartDeploymentKeeps == DeployInv /\ StartDeployment => DeployInv'
<1> SUFFICES ASSUME DeployInv, StartDeployment PROVE DeployInv'
  OBVIOUS
<1> DEFINE g == [entry |-> entry, copy |-> copy]
<1>1. g \in Deployment /\ g.entry = entry /\ g.copy = copy /\ g \notin applying \cup returned
  <2>1. g \in Deployment /\ g.entry = entry /\ g.copy = copy
    BY DEF DeployInv, TypeOK, Deployment
  <2>2. ~Started(g)
    BY <2>1 DEF Started, DeployInv, TypeOK
  <2> QED
    BY <2>1, <2>2 DEF DeployInv, SlotInv
<1>2. /\ main = "loop" /\ UNCHANGED <<main, funcSlice, entry, drained, returned, applied>>
      /\ sem' = sem + 1 /\ sem < Conc /\ copy' = copy + 1
      /\ urls' = Append(urls, Deploys(g)) /\ applying' = applying \cup {g}
      /\ entry <= Len(funcSlice)
  BY DEF StartDeployment, CanSend
<1> HIDE DEF g
<1>3. IsFiniteSet(applying') /\ Cardinality(applying') = Cardinality(applying) + 1
  BY <1>1, <1>2, FS_AddElement DEF DeployInv, TypeOK
<1>4. Cardinality(applying) \in Nat /\ Cardinality(returned) \in Nat
  BY FS_CardinalityType DEF DeployInv, TypeOK
<1>5. TypeOK'
  BY <1>1, <1>2, <1>3 DEF DeployInv, TypeOK
<1>6. SlotInv'
  <2>1. sem' = Cardinality(applying') + Cardinality(returned') + drained' /\ sem' <= Conc
    BY <1>2, <1>3, <1>4, DeployerAssumption DEF DeployInv, TypeOK, SlotInv
  <2>2. applying' \cap returned' = {}
    BY <1>1, <1>2 DEF DeployInv, SlotInv
  <2>3. \A f \in applying' \cup returned' : Started(f)'
    BY <1>1, <1>2 DEF DeployInv, TypeOK, SlotInv, Started, Deployment
  <2> QED
    BY <2>1, <2>2, <2>3 DEF SlotInv
<1>7. MainInv'
  BY <1>2 DEF DeployInv, MainInv
<1>8. UrlInv'
  <2>1. Deploys(g) \in Function
    <3>1. funcSlice[entry] \in FunctionType
      BY <1>2 DEF DeployInv, TypeOK
    <3>2. funcSlice[entry].name \in Name /\ copy \in Nat
      BY <3>1 DEF DeployInv, TypeOK, FunctionType
    <3>3. Deploys(g) = [name |-> funcSlice[entry].name, copy |-> copy]
      BY <1>1 DEF Deploys
    <3> QED
      BY <3>2, <3>3 DEF Function
  <2>2. \A f : Deploys(f)' = Deploys(f)
    BY <1>2 DEF Deploys
  <2> QED
    BY <1>2, <2>1, <2>2 DEF DeployInv, UrlInv
<1> QED
  BY <1>5, <1>6, <1>7, <1>8 DEF DeployInv

(* A kn that ends moves its goroutine on; the slot stays taken. *)
LEMMA KnReturnsKeeps ==
  ASSUME DeployInv, NEW g \in applying, NEW ok \in BOOLEAN, KnReturns(g, ok)
  PROVE  DeployInv'
<1>1. /\ UNCHANGED <<main, loop, sem, drained, urls>>
      /\ applying' = applying \ {g} /\ returned' = returned \cup {g}
      /\ applied' = applied \cup {Deploys(g)}
  BY DEF KnReturns
<1>2. /\ IsFiniteSet(applying') /\ Cardinality(applying') = Cardinality(applying) - 1
      /\ IsFiniteSet(returned') /\ Cardinality(returned') = Cardinality(returned) + 1
  BY <1>1, FS_AddElement, FS_RemoveElement DEF DeployInv, TypeOK, SlotInv
<1>3. Cardinality(applying) \in Nat /\ Cardinality(returned) \in Nat
  BY FS_CardinalityType DEF DeployInv, TypeOK
<1>4. TypeOK'
  BY <1>1, <1>2 DEF DeployInv, TypeOK, loop
<1>5. SlotInv'
  BY <1>1, <1>2, <1>3 DEF DeployInv, TypeOK, SlotInv, Started, loop
<1>6. MainInv'
  BY <1>1 DEF DeployInv, MainInv
<1>7. UrlInv'
  BY <1>1 DEF DeployInv, UrlInv, Deploys, loop
<1> QED
  BY <1>4, <1>5, <1>6, <1>7 DEF DeployInv

(* The deferred receive gives the slot back. *)
LEMMA ReleaseKeeps ==
  ASSUME DeployInv, NEW g \in returned, Release(g)
  PROVE  DeployInv'
<1>1. /\ UNCHANGED <<main, loop, drained, applying, urls, applied>>
      /\ returned' = returned \ {g} /\ sem' = sem - 1
  BY DEF Release, Received
<1>2. IsFiniteSet(returned') /\ Cardinality(returned') = Cardinality(returned) - 1
  BY <1>1, FS_RemoveElement DEF DeployInv, TypeOK
<1>3. /\ Cardinality(applying) \in Nat /\ Cardinality(returned) \in Nat
      /\ Cardinality(returned') \in Nat
  BY <1>2, FS_CardinalityType DEF DeployInv, TypeOK
<1>4. SlotInv'
  <2>1. sem' = Cardinality(applying') + Cardinality(returned') + drained' /\ sem' <= Conc
    BY <1>1, <1>2, <1>3, DeployerAssumption DEF DeployInv, TypeOK, SlotInv
  <2>2. applying' \cap returned' = {} /\ \A f \in applying' \cup returned' : Started(f)'
    BY <1>1 DEF DeployInv, SlotInv, Started, loop
  <2> QED
    BY <2>1, <2>2 DEF SlotInv
<1>5. TypeOK'
  <2>1. sem' \in Nat
    BY <1>1, <1>3, <1>4 DEF SlotInv, DeployInv, TypeOK
  <2> QED
    BY <1>1, <1>2, <2>1 DEF DeployInv, TypeOK, loop
<1>6. MainInv' /\ UrlInv'
  BY <1>1 DEF DeployInv, MainInv, UrlInv, Deploys, loop
<1> QED
  BY <1>4, <1>5, <1>6 DEF DeployInv

(* The other steps of main() leave the goroutines alone. *)
LEMMA MainKeeps ==
  ASSUME DeployInv,
         \/ \E fs \in FuncSlices : ReadFunctions(fs)
         \/ ReadFails \/ NextEntry \/ LoopEnds \/ Drain \/ DrainEnds
         \/ WriteEndpoints \/ WriteFails
  PROVE  DeployInv'
<1>1. UNCHANGED <<applying, returned, urls, applied>>
  BY DEF ReadFunctions, ReadFails, NextEntry, LoopEnds, Drain, DrainEnds, WriteEndpoints,
     WriteFails
<1>2. Cardinality(applying) \in Nat /\ Cardinality(returned) \in Nat
  BY FS_CardinalityType DEF DeployInv, TypeOK
<1>3. CASE \E fs \in FuncSlices : ReadFunctions(fs)
  BY <1>1, <1>3, DeployerAssumption
  DEF ReadFunctions, DeployInv, TypeOK, SlotInv, Started, MainInv, UrlInv
<1>4. CASE ReadFails \/ LoopEnds \/ WriteEndpoints \/ WriteFails
  <2>1. /\ UNCHANGED <<loop, sem, drained>>
        /\ main' \in {"drain", "done", "fatal"} /\ (main' = "done" => main = "write")
    BY <1>4 DEF ReadFails, LoopEnds, WriteEndpoints, WriteFails
  <2>2. TypeOK' /\ SlotInv'
    BY <1>1, <2>1 DEF DeployInv, TypeOK, SlotInv, Started, loop
  <2>3. MainInv' /\ UrlInv'
    BY <1>1, <2>1 DEF DeployInv, MainInv, UrlInv, Deploys, loop
  <2> QED
    BY <2>2, <2>3 DEF DeployInv
<1>5. CASE NextEntry
  <2>1. TypeOK' /\ MainInv' /\ UrlInv'
    <3>1. entry' = entry + 1 /\ copy' = 0 /\ UNCHANGED <<main, funcSlice, sem, drained>>
      BY <1>5 DEF NextEntry
    <3>2. TypeOK'
      BY <1>1, <3>1 DEF DeployInv, TypeOK
    <3>3. MainInv' /\ UrlInv'
      BY <1>1, <3>1 DEF DeployInv, MainInv, UrlInv, Deploys
    <3> QED BY <3>2, <3>3
  <2>2. SlotInv'
    BY <1>1, <1>5 DEF NextEntry, DeployInv, TypeOK, SlotInv, Started, Deployment
  <2> QED
    BY <2>1, <2>2 DEF DeployInv
<1>6. CASE Drain
  <2>1. TypeOK' /\ MainInv' /\ UrlInv'
    BY <1>1, <1>6 DEF Drain, DeployInv, TypeOK, MainInv, UrlInv, Deploys, loop
  <2>2. SlotInv'
    BY <1>1, <1>2, <1>6, DeployerAssumption
    DEF Drain, CanSend, DeployInv, TypeOK, SlotInv, Started, loop
  <2> QED
    BY <2>1, <2>2 DEF DeployInv
<1>7. CASE DrainEnds
  BY <1>1, <1>7, DeployerAssumption
  DEF DrainEnds, MoreToDrain, loop, DeployInv, TypeOK, SlotInv, Started, MainInv, UrlInv, Deploys
<1> QED
  BY <1>3, <1>4, <1>5, <1>6, <1>7

(* Every step preserves the invariant. *)
LEMMA DeployKeeps == DeployInv /\ [DeployNext]_deployVars => DeployInv'
<1> SUFFICES ASSUME DeployInv, [DeployNext]_deployVars PROVE DeployInv'
  OBVIOUS
<1>1. CASE DeployMain
  BY <1>1, StartDeploymentKeeps, MainKeeps DEF DeployMain
<1>2. CASE UNCHANGED deployVars
  BY <1>2 DEF deployVars, loop, DeployInv, TypeOK, SlotInv, Started, MainInv, UrlInv, Deploys
<1> QED
  BY <1>1, <1>2, KnReturnsKeeps, ReleaseKeeps DEF DeployNext, DeployExited

(* The invariant yields the bound on running deployments and, once the     *)
(* channel has been filled by main() alone, that none is left.             *)
LEMMA DeployImplies == DeployInv => TypeOK /\ ConcurrencyBound /\ DeployedBeforeWritten
<1> SUFFICES ASSUME DeployInv PROVE TypeOK /\ ConcurrencyBound /\ DeployedBeforeWritten
  OBVIOUS
<1>1. Cardinality(applying) \in Nat /\ Cardinality(returned) \in Nat
  BY FS_CardinalityType DEF DeployInv, TypeOK
<1>2. ConcurrencyBound
  BY <1>1, DeployerAssumption DEF DeployInv, TypeOK, SlotInv, ConcurrencyBound
<1>3. ASSUME main \in {"write", "done"} PROVE applying = {}
  <2>1. Cardinality(applying) = 0
    BY <1>1, <1>3, DeployerAssumption DEF DeployInv, TypeOK, SlotInv, MainInv
  <2> QED
    BY <2>1, FS_EmptySet DEF DeployInv, TypeOK
<1> QED
  BY <1>2, <1>3 DEF DeployInv, UrlInv, DeployedBeforeWritten

(* However the goroutines are scheduled, never more than -conc deployments *)
(* run at the same time.                                                   *)
THEOREM BoundedConcurrency == DeploySpec => []ConcurrencyBound
BY DeployInitial, DeployKeeps, DeployImplies, PTL DEF DeploySpec

(* deploy() returns only after every deployment it started has ended.      *)
THEOREM WaitsForAll == DeploySpec => []DeployedBeforeWritten
BY DeployInitial, DeployKeeps, DeployImplies, PTL DEF DeploySpec

-------------------------------------------------------------------------------
(* The eventing tutorial. *)

Readings == [source : Sources, celsius : Celsius]
Fresh(event) == [event |-> event, tries |-> 0]

(* A call has a reading once it is made, and is to send it only if it is   *)
(* accepted.                                                               *)
CallInv ==
  /\ call = [c \in Calls |-> call[c]]
  /\ reading \in [Calls -> Readings \cup {NoReading}]
  /\ \A c \in Calls : call[c] = "none" <=> reading[c] = NoReading
  /\ \A c \in Calls : call[c] = "send" => ~Rejects(reading[c].celsius)

(* The data in the broker are those of accepted readings, and hot ones for *)
(* the overheat-consumer.                                                  *)
Taken(event) ==
  \E c \in Calls :
    /\ reading[c] \in Readings
    /\ ~Rejects(reading[c].celsius)
    /\ event.source = reading[c].source /\ event.celsius = reading[c].celsius
    /\ event.type = "overheat" => Overheated(event.celsius)
Genuine(event) == event.celsius = NoData \/ Taken(event)
BrokerInv ==
  /\ broker = [t \in Triggers |-> broker[t]]
  /\ \A t \in Triggers : \A d \in broker[t] :
       d = [event |-> d.event, tries |-> d.tries] /\ d.event.type = t /\ Genuine(d.event)

(* An event has the id that was drawn for it.                              *)
IdInv ==
  /\ uuids \in Nat
  /\ \A e \in sent : e.id \in Nat /\ e.id < uuids
  /\ \A e, f \in sent : e.id = f.id => e = f

AlertInv == alerts \in Seq(Readings)

TutorialInv == CallInv /\ BrokerInv /\ IdInv /\ AlertInv

(* Events are put into the broker for the trigger of their type.           *)
LEMMA PutEvents ==
  ASSUME NEW b, NEW events
  PROVE  /\ Put(b, events) = [t \in Triggers |-> Put(b, events)[t]]
         /\ \A t \in Triggers : \A d \in Put(b, events)[t] :
              d \in b[t] \/ \E e \in events : e.type = t /\ d = Fresh(e)
BY DEF Put, Fresh

(* Before anything happens, the broker holds malformed events at most.     *)
LEMMA TutorialInitial == TutorialInit => TutorialInv
<1> SUFFICES ASSUME TutorialInit PROVE TutorialInv
  OBVIOUS
<1>1. CallInv
  BY DEF TutorialInit, CallInv
<1>2. IdInv /\ AlertInv
  BY DEF TutorialInit, IdInv, AlertInv
<1>3. PICK others \in SUBSET Foreign : broker = Put([t \in Triggers |-> {}], others)
  BY DEF TutorialInit
<1>4. \A t \in Triggers : \A d \in broker[t] : \E e \in others : e.type = t /\ d = Fresh(e)
  BY <1>3, PutEvents
<1>5. broker = [t \in Triggers |-> broker[t]]
  BY <1>3 DEF Put
<1>6. ASSUME NEW t \in Triggers, NEW d \in broker[t]
      PROVE  d = [event |-> d.event, tries |-> d.tries] /\ d.event.type = t /\ Genuine(d.event)
  <2>1. PICK e \in others : e.type = t /\ d = Fresh(e)
    BY <1>4
  <2> QED BY <2>1, AlertsAssumption DEF Genuine, Fresh
<1>7. BrokerInv
  BY <1>5, <1>6 DEF BrokerInv
<1> QED BY <1>1, <1>2, <1>7 DEF TutorialInv

(* A reading stays once it has been taken in.                              *)
LEMMA TakenStays ==
  ASSUME CallInv, \A c \in Calls : reading[c] # NoReading => reading'[c] = reading[c],
         NoReading \notin Readings, NEW event, Genuine(event)
  PROVE  Genuine(event)'
BY DEF Genuine, Taken, CallInv

(* A call that is made brings in its reading.                              *)
LEMMA ReadStep ==
  ASSUME TutorialInv,
         NEW c \in Calls, NEW source \in Sources, NEW celsius \in Celsius,
         ReadTemp(c, source, celsius)
  PROVE  TutorialInv' /\ [Promise!Next]_(Promise!vars)
<1> DEFINE r == [source |-> source, celsius |-> celsius]
<1>1. /\ r \in Readings /\ r.celsius = celsius /\ NoReading \notin Readings /\ r # NoReading
      /\ call[c] = "none" /\ reading[c] = NoReading
      /\ reading' = [reading EXCEPT ![c] = r]
      /\ call' = [call EXCEPT ![c] = IF Rejects(celsius) THEN "rejected" ELSE "send"]
      /\ UNCHANGED <<acked, uuids, sent, broker, alerts>>
  BY AlertsAssumption DEF ReadTemp, Readings, TutorialInv, CallInv
<1> HIDE DEF r
<1>2. CallInv'
  BY <1>1 DEF TutorialInv, CallInv, Rejects
<1>3. \A event : Genuine(event) => Genuine(event)'
  BY <1>1, TakenStays DEF TutorialInv, CallInv
<1>4. BrokerInv'
  BY <1>1, <1>3 DEF TutorialInv, BrokerInv
<1>5. IdInv' /\ AlertInv'
  BY <1>1 DEF TutorialInv, IdInv, AlertInv
<1>6. Promise!Read(c, r)
  BY <1>1 DEF Promise!Read, Range
<1>7. Promise!Next
  BY <1>1, <1>6 DEF Promise!Next, Promise!Readings, Readings
<1> QED BY <1>2, <1>4, <1>5, <1>7 DEF TutorialInv

(* Events of an id that was just drawn.                                    *)
LEMMA NewIds ==
  ASSUME IdInv, NEW events,
         \/ events = {} /\ uuids' = uuids
         \/ \E e : events = {e} /\ e.id = uuids /\ uuids' = uuids + 1,
         sent' = sent \cup events
  PROVE  IdInv'
BY DEF IdInv

(* What the broker is given is genuine if the events are.                  *)
LEMMA PutStep ==
  ASSUME NEW b, NEW events,
         \A t \in Triggers : \A d \in b[t] :
           d = [event |-> d.event, tries |-> d.tries] /\ d.event.type = t /\ Genuine(d.event),
         \A e \in events : Genuine(e),
         UNCHANGED reading, broker' = Put(b, events)
  PROVE  BrokerInv'
<1>1. broker' = [t \in Triggers |-> broker'[t]]
  BY DEF Put
<1>2. ASSUME NEW t \in Triggers, NEW d \in broker'[t]
      PROVE  d = [event |-> d.event, tries |-> d.tries] /\ d.event.type = t /\ Genuine(d.event)
  <2>1. CASE d \in b[t]
    BY <2>1
  <2>2. CASE \E e \in events : e.type = t /\ d = Fresh(e)
    BY <2>2 DEF Fresh
  <2> QED BY <2>1, <2>2, PutEvents
<1>3. \A event : Genuine(event)' <=> Genuine(event)
  BY DEF Genuine, Taken
<1> QED BY <1>1, <1>2, <1>3 DEF BrokerInv

(* An accepted reading is sent, and the broker may acknowledge it.         *)
LEMMA SendStep ==
  ASSUME TutorialInv, NEW c \in Calls, NEW taken \in BOOLEAN,
         NEW answered \in BOOLEAN, Send(c, taken, answered)
  PROVE  TutorialInv' /\ [Promise!Next]_(Promise!vars)
<1> DEFINE e == TempEvent(c)
<1>1. /\ call[c] = "send" /\ call' = [call EXCEPT ![c] = "ok"]
      /\ sent' = sent \cup {e} /\ uuids' = uuids + 1
      /\ broker' = Put(broker, {e}) \/ broker' = broker
      /\ acked' = acked \cup {c} \/ acked' = acked
      /\ UNCHANGED <<reading, alerts>>
  BY DEF Send
<1>2. /\ e.id = uuids /\ e.type = "temp"
      /\ e.source = reading[c].source /\ e.celsius = reading[c].celsius
  BY DEF TempEvent, Event
<1> HIDE DEF e
<1>3. reading[c] # NoReading /\ reading[c] \in Readings /\ ~Rejects(reading[c].celsius)
  BY <1>1 DEF TutorialInv, CallInv
<1>4. CallInv'
  BY <1>1, <1>3 DEF TutorialInv, CallInv, Rejects
<1>5. IdInv'
  BY <1>1, <1>2, NewIds DEF TutorialInv
<1>6. Genuine(e)
  BY <1>2, <1>3 DEF Genuine, Taken
<1>7. BrokerInv'
  <2>1. CASE broker' = Put(broker, {e})
    <3>1. \A f \in {e} : Genuine(f)
      BY <1>6
    <3>2. \A t \in Triggers : \A d \in broker[t] :
            d = [event |-> d.event, tries |-> d.tries] /\ d.event.type = t /\ Genuine(d.event)
      BY DEF TutorialInv, BrokerInv
    <3>3. UNCHANGED reading
      BY <1>1
    <3> QED BY <2>1, <3>1, <3>2, <3>3, PutStep
  <2>2. CASE broker' = broker
    <3>1. \A event : Genuine(event)' <=> Genuine(event)
      BY <1>1 DEF Genuine, Taken
    <3> QED BY <2>2, <3>1 DEF TutorialInv, BrokerInv
  <2> QED BY <1>1, <2>1, <2>2
<1>8. AlertInv'
  BY <1>1 DEF TutorialInv, AlertInv
<1>9. [Promise!Next]_(Promise!vars)
  <2>1. CASE acked' = acked
    BY <1>1, <2>1 DEF Promise!vars, Range
  <2>2. CASE acked' = acked \cup {c}
    <3>1. Promise!Acknowledge(c)
      BY <1>1, <1>3, <2>2 DEF Promise!Acknowledge, Range
    <3> QED BY <3>1 DEF Promise!Next
  <2> QED BY <1>1, <2>1, <2>2
<1> QED BY <1>4, <1>5, <1>7, <1>8, <1>9 DEF TutorialInv

(* What stays in the broker after a delivery is as genuine as before.      *)
LEMMA Kept ==
  ASSUME TutorialInv, NEW d \in Undelivered, NEW b,
         b = Retried(broker, d) \/ b = Removed(broker, d)
  PROVE  /\ b = [t \in Triggers |-> b[t]]
         /\ \A t \in Triggers : \A k \in b[t] :
              k = [event |-> k.event, tries |-> k.tries] /\ k.event.type = t /\ Genuine(k.event)
<1>1. d.event.type \in Triggers /\ d \in broker[d.event.type]
  BY DEF TutorialInv, BrokerInv, Undelivered, Triggers
<1>2. /\ d = [event |-> d.event, tries |-> d.tries] /\ Genuine(d.event)
  BY <1>1 DEF TutorialInv, BrokerInv
<1>3. [d EXCEPT !.tries = @ + 1] = [event |-> d.event, tries |-> d.tries + 1]
  BY <1>2
<1>4. b = [t \in Triggers |-> b[t]]
  BY DEF TutorialInv, BrokerInv, Retried, Removed
<1>5. ASSUME NEW t \in Triggers, NEW k \in b[t]
      PROVE  k \in broker[t] \/ (k = [event |-> d.event, tries |-> d.tries + 1] /\ d.event.type = t)
  <2>1. CASE b = Removed(broker, d)
    BY <2>1 DEF TutorialInv, BrokerInv, Removed
  <2>2. CASE b = Retried(broker, d)
    BY <1>3, <2>2 DEF TutorialInv, BrokerInv, Retried
  <2> QED BY <2>1, <2>2
<1>6. ASSUME NEW t \in Triggers, NEW k \in b[t]
      PROVE  k = [event |-> k.event, tries |-> k.tries] /\ k.event.type = t /\ Genuine(k.event)
  <2>1. CASE k \in broker[t]
    BY <2>1 DEF TutorialInv, BrokerInv
  <2>2. CASE k = [event |-> d.event, tries |-> d.tries + 1] /\ d.event.type = t
    BY <1>2, <2>2
  <2> QED BY <1>5, <2>1, <2>2
<1> QED BY <1>4, <1>6

(* A delivery alerts of what a call has brought in, if of anything, and    *)
(* answers with at most one event, of the same reading and with a new id.  *)
LEMMA Answers ==
  ASSUME TutorialInv, NEW e, e.type \in Triggers, Genuine(e)
  PROVE  /\ Callback(e).reply = {} \/ \E f : /\ Callback(e).reply = {f} /\ f.id = uuids
                                               /\ Genuine(f)
         /\ Callback(e).log = <<>> \/ \E c \in Calls : /\ Callback(e).log = <<reading[c]>>
                                                         /\ reading[c] \in Readings
                                                         /\ Promise!TooHot(reading[c])
<1>1. CASE e.celsius = NoData
  BY <1>1 DEF Callback, TempCallback, OverheatCallback, Answer
<1>2. CASE e.celsius # NoData
  <2>1. PICK c \in Calls :
          /\ reading[c] \in Readings /\ ~Rejects(reading[c].celsius)
          /\ e.source = reading[c].source /\ e.celsius = reading[c].celsius
          /\ e.type = "overheat" => Overheated(e.celsius)
    BY <1>2 DEF Genuine, Taken
  <2>2. CASE e.type = "temp"
    <3>1. CASE ~Overheated(e.celsius)
      BY <1>2, <2>2, <3>1 DEF Callback, TempCallback, Answer
    <3>2. CASE Overheated(e.celsius)
      <4> DEFINE f == Event(uuids, "overheat", e.source, e.celsius)
      <4>1. Callback(e).reply = {f} /\ Callback(e).log = <<>>
        BY <1>2, <2>2, <3>2 DEF Callback, TempCallback, Answer, NewId
      <4>2. f.id = uuids /\ f.source = e.source /\ f.celsius = e.celsius
        BY DEF Event
      <4>3. Taken(f)
        BY <2>1, <3>2, <4>2 DEF Taken
      <4> QED BY <4>1, <4>2, <4>3 DEF Genuine
    <3> QED BY <3>1, <3>2
  <2>3. CASE e.type # "temp"
    <3>1. e.type = "overheat"
      BY <2>3 DEF Triggers
    <3>2. Callback(e).reply = {} /\ Callback(e).log = <<[source |-> e.source, celsius |-> e.celsius]>>
      BY <1>2, <2>3 DEF Callback, OverheatCallback, Answer
    <3>3. reading[c] = [source |-> e.source, celsius |-> e.celsius]
      BY <2>1 DEF Readings
    <3>4. e.celsius \in Int
      BY <2>1, AlertsAssumption DEF Readings
    <3>5. Promise!TooHot(reading[c])
      BY <2>1, <3>1, <3>4 DEF Promise!TooHot, Overheated, Rejects
    <3> QED BY <2>1, <3>2, <3>3, <3>5
  <2> QED BY <2>2, <2>3
<1> QED BY <1>1, <1>2

(* The alerts after one more.                                              *)
LEMMA RangeOfAlerts ==
  ASSUME AlertInv, NEW r \in Readings
  PROVE  alerts \o <<r>> \in Seq(Readings) /\ Range(alerts \o <<r>>) = Range(alerts) \cup {r}
<1>1. /\ alerts \o <<r>> \in Seq(Readings) /\ Len(alerts \o <<r>>) = Len(alerts) + 1
      /\ \A k \in 1..Len(alerts) : (alerts \o <<r>>)[k] = alerts[k]
      /\ (alerts \o <<r>>)[Len(alerts) + 1] = r /\ Len(alerts) \in Nat
      /\ DOMAIN alerts = 1..Len(alerts)
      /\ DOMAIN (alerts \o <<r>>) = 1..(Len(alerts) + 1)
  BY DEF AlertInv
<1> DEFINE a == alerts \o <<r>>
<1> HIDE DEF a
<1>2. \A k \in 1..(Len(alerts) + 1) : k \in 1..Len(alerts) \/ k = Len(alerts) + 1
  BY <1>1
<1>3. \A k \in 1..Len(alerts) : k \in 1..(Len(alerts) + 1)
  BY <1>1
<1>4. Len(alerts) + 1 \in 1..(Len(alerts) + 1)
  BY <1>1
<1>5. Range(a) = Range(alerts) \cup {r}
  BY <1>1, <1>2, <1>3, <1>4 DEF Range, a
<1> QED BY <1>1, <1>5 DEF a

(* A delivery: nobody is alerted of what was not promised.                 *)
LEMMA DeliverStep ==
  ASSUME TutorialInv, NEW d \in Undelivered, NEW answered \in BOOLEAN,
         Deliver(d, answered)
  PROVE  TutorialInv' /\ [Promise!Next]_(Promise!vars)
<1> DEFINE answer == Callback(d.event)
<1>1. /\ alerts' = alerts \o answer.log /\ sent' = sent \cup answer.reply
      /\ uuids' = uuids + Cardinality(answer.reply)
      /\ \/ broker' = Put(Removed(broker, d), answer.reply)
         \/ broker' = Retried(broker, d)
      /\ UNCHANGED <<call, reading, acked>>
  BY DEF Deliver, serverVars
<1>2. d.event.type \in Triggers /\ Genuine(d.event)
  BY DEF TutorialInv, BrokerInv, Undelivered, Triggers
<1>3. /\ answer.reply = {} \/ \E f : answer.reply = {f} /\ f.id = uuids /\ Genuine(f)
      /\ answer.log = <<>> \/ \E c \in Calls : /\ answer.log = <<reading[c]>>
                                               /\ reading[c] \in Readings
                                               /\ Promise!TooHot(reading[c])
  BY <1>2, Answers
<1> HIDE DEF answer
<1>4. CallInv'
  BY <1>1 DEF TutorialInv, CallInv
<1>5. \A S : Cardinality(S) = Cardinality(S)
  BY DEF Cardinality, Cardinality
<1>6. \/ answer.reply = {} /\ uuids' = uuids
      \/ \E f : answer.reply = {f} /\ f.id = uuids /\ uuids' = uuids + 1
  <2>1. CASE answer.reply = {}
    BY <1>1, <1>5, <2>1, FS_EmptySet DEF TutorialInv, IdInv
  <2>2. ASSUME NEW f, answer.reply = {f}, f.id = uuids PROVE uuids' = uuids + 1
    BY <1>1, <1>5, <2>2, FS_Singleton
  <2> QED BY <1>3, <2>1, <2>2
<1>7. IdInv'
  BY <1>1, <1>6, NewIds DEF TutorialInv
<1>8. \A f \in answer.reply : Genuine(f)
  BY <1>3
<1>9. BrokerInv'
  <2>1. CASE broker' = Put(Removed(broker, d), answer.reply)
    <3> DEFINE b == Removed(broker, d)
    <3>1. \A t \in Triggers : \A k \in b[t] :
            k = [event |-> k.event, tries |-> k.tries] /\ k.event.type = t /\ Genuine(k.event)
      BY Kept
    <3>2. UNCHANGED reading
      BY <1>1
    <3> HIDE DEF b
    <3>3. broker' = Put(b, answer.reply)
      BY <2>1 DEF b
    <3> QED BY <1>8, <3>1, <3>2, <3>3, PutStep
  <2>2. CASE broker' = Retried(broker, d)
    <3>1. \A event : Genuine(event)' <=> Genuine(event)
      BY <1>1 DEF Genuine, Taken
    <3>2. broker' = [t \in Triggers |-> broker'[t]]
      BY <2>2, Kept
    <3>3. \A t \in Triggers : \A k \in broker'[t] :
            k = [event |-> k.event, tries |-> k.tries] /\ k.event.type = t /\ Genuine(k.event)
      BY <2>2, Kept
    <3> QED BY <3>1, <3>2, <3>3 DEF BrokerInv
  <2> QED BY <1>1, <2>1, <2>2
<1>10. AlertInv' /\ [Promise!Next]_(Promise!vars)
  <2>1. CASE answer.log = <<>>
    <3>1. alerts' = alerts
      BY <1>1, <2>1 DEF TutorialInv, AlertInv
    <3> QED BY <1>1, <3>1 DEF TutorialInv, AlertInv, Promise!vars, Range
  <2>2. ASSUME NEW c \in Calls, answer.log = <<reading[c]>>, reading[c] \in Readings,
               Promise!TooHot(reading[c])
        PROVE  AlertInv' /\ [Promise!Next]_(Promise!vars)
    <3>1. alerts' \in Seq(Readings) /\ Range(alerts') = Range(alerts) \cup {reading[c]}
      BY <1>1, <2>2, RangeOfAlerts DEF TutorialInv
    <3>2. reading[c] # NoReading
      BY <2>2, AlertsAssumption DEF Readings
    <3>3. Promise!Alert(c)
      BY <1>1, <2>2, <3>1, <3>2 DEF Promise!Alert
    <3> QED BY <3>1, <3>3 DEF AlertInv, Promise!Next
  <2> QED BY <1>3, <2>1, <2>2
<1> QED BY <1>4, <1>7, <1>9, <1>10 DEF TutorialInv

LEMMA TutorialKeeps ==
  TutorialInv /\ [TutorialNext]_tutorialVars => TutorialInv' /\ [Promise!Next]_(Promise!vars)
<1> SUFFICES ASSUME TutorialInv, [TutorialNext]_tutorialVars
             PROVE  TutorialInv' /\ [Promise!Next]_(Promise!vars)
  OBVIOUS
<1>1. ASSUME UNCHANGED <<reading, acked, uuids, sent, alerts>>, BrokerInv', CallInv' PROVE
        TutorialInv' /\ [Promise!Next]_(Promise!vars)
  BY <1>1 DEF TutorialInv, IdInv, AlertInv, Promise!vars, Range
<1>2. ASSUME UNCHANGED <<reading, broker>> PROVE BrokerInv'
  BY <1>2 DEF TutorialInv, BrokerInv, Genuine, Taken
<1>3. CASE BindSink \/ StartServer \/ UNCHANGED tutorialVars
  BY <1>1, <1>2, <1>3 DEF BindSink, StartServer, tutorialVars, serverVars, TutorialInv, CallInv
<1>4. CASE Stop
  <2>1. CallInv'
    BY <1>4 DEF Stop, TutorialInv, CallInv
  <2> QED BY <1>1, <1>2, <1>4, <2>1 DEF Stop
<1>5. ASSUME NEW d \in Undelivered, DeliveryFails(d)
      PROVE  TutorialInv' /\ [Promise!Next]_(Promise!vars)
  <2>1. broker' = Retried(broker, d) /\ UNCHANGED <<call, reading, acked, uuids, sent, alerts>>
    BY <1>5 DEF DeliveryFails, serverVars
  <2>2. \A event : Genuine(event)' <=> Genuine(event)
    BY <2>1 DEF Genuine, Taken
  <2>3. broker' = [t \in Triggers |-> broker'[t]]
    BY <2>1, Kept
  <2>4. \A t \in Triggers : \A k \in broker'[t] :
          k = [event |-> k.event, tries |-> k.tries] /\ k.event.type = t /\ Genuine(k.event)
    BY <2>1, Kept
  <2>5. BrokerInv'
    BY <2>2, <2>3, <2>4 DEF BrokerInv
  <2>6. CallInv'
    BY <2>1 DEF TutorialInv, CallInv
  <2> QED BY <1>1, <2>1, <2>5, <2>6
<1> QED BY <1>3, <1>4, <1>5, ReadStep, SendStep, DeliverStep DEF TutorialNext, TutorialExited

(* Every event of the tutorial has an id of its own, which is more than    *)
(* the comment in the consumer asks for, also when an event is delivered   *)
(* again and answered twice.                                               *)
THEOREM EveryIdIsNew == TutorialSpec => []IdsUnique
<1>1. TutorialInv => IdsUnique
  BY DEF TutorialInv, IdInv, IdsUnique
<1> QED BY <1>1, TutorialInitial, TutorialKeeps, PTL DEF TutorialSpec

(* Whatever is lost, malformed, delivered again or restarted, engineers    *)
(* are only alerted of readings that were accepted and are too hot: the    *)
(* safety part of AlertSpec.                                               *)
THEOREM AlertsAreGenuine == TutorialSpec => OnlyPromised
<1>1. TutorialInit => Promise!Init
  <2>1. Range(<<>>) = {}
    BY DEF Range
  <2> QED BY <2>1 DEF TutorialInit, Promise!Init
<1> QED BY <1>1, TutorialInitial, TutorialKeeps, PTL DEF TutorialSpec, OnlyPromised
-------------------------------------------------------------------------------
(* Tracing. *)

(* Ids: a chain's span and a span of its own never share one, nor is None  *)
(* an id.                                                                  *)
LEMMA Ids ==
  /\ \A r, s, k, l : <<r, k>> = <<s, l>> <=> r = s /\ k = l
  /\ \A r, s, k, l : <<r, k, "own">> = <<s, l, "own">> <=> r = s /\ k = l
  /\ \A r, s, k, l : <<r, k>> # <<s, l, "own">>
  /\ \A r, k : <<r, k>>[1] = r /\ <<r, k, "own">>[1] = r /\ <<r, k>>[2] = k
OBVIOUS

(* The spans of the calls and the processes they belong to.                *)
LEMMA Depths ==
  /\ Depth \in Nat \ {0}
  /\ \A k \in 1..Depth : ProcessOf(k) \in Processes
  /\ \A k, l \in 1..Depth : k <= l => ProcessOf(k) <= ProcessOf(l)
  /\ \A k \in 2..Depth : ProcessOf(k - 1) \in {ProcessOf(k), ProcessOf(k) - 1}
  /\ ProcessOf(1) = 1
  /\ \A k \in Nat : ProcessOf(k) \in Nat
<1>1. N \in Nat /\ N >= 2 /\ Depth = 2 * (N - 1)
  BY TracingAssumption DEF Depth
<1>2. Depth \in Nat \ {0}
  BY <1>1
<1>3. \A k \in Nat : k \div 2 \in Nat /\ (k <= 2 * (N - 1) => k \div 2 <= N - 1)
  BY <1>1
<1>4. \A k, l \in Nat : k <= l => k \div 2 <= l \div 2
  OBVIOUS
<1>5. \A k \in Nat \ {0} : (k - 1) \div 2 \in {k \div 2, (k \div 2) - 1}
  OBVIOUS
<1>6. \A k \in 1..Depth : ProcessOf(k) \in Processes
  BY <1>1, <1>3 DEF ProcessOf, Processes
<1>7. \A k, l \in 1..Depth : k <= l => ProcessOf(k) <= ProcessOf(l)
  BY <1>2, <1>3, <1>4 DEF ProcessOf
<1>8. \A k \in 2..Depth : ProcessOf(k - 1) \in {ProcessOf(k), ProcessOf(k) - 1}
  BY <1>2, <1>3, <1>5 DEF ProcessOf
<1>9. ProcessOf(1) = 1 /\ \A k \in Nat : ProcessOf(k) \in Nat
  BY <1>3 DEF ProcessOf
<1> QED BY <1>2, <1>6, <1>7, <1>8, <1>9

(* Sequences, whatever they hold.                                          *)
IsSlice(s) == \E R : s \in Seq(R)

(* A slice has a length and its positions are its domain.                  *)
LEMMA Slices ==
  ASSUME NEW s, IsSlice(s)
  PROVE  Len(s) \in Nat /\ DOMAIN s = 1..Len(s) /\ (s = <<>> <=> Len(s) = 0)
BY DEF IsSlice

(* What is appended comes last.                                            *)
LEMMA AppendedTo ==
  ASSUME NEW s, IsSlice(s), NEW x
  PROVE  /\ IsSlice(Append(s, x)) /\ Len(Append(s, x)) = Len(s) + 1
         /\ \A k \in 1..Len(s) : Append(s, x)[k] = s[k]
         /\ Append(s, x)[Len(s) + 1] = x
         /\ s \o <<x>> = Append(s, x) /\ s \o <<>> = s
<1>1. PICK R : s \in Seq(R)
  BY DEF IsSlice
<1> DEFINE Q == R \cup {x}
<1>2. s \in Seq(Q) /\ x \in Q
  BY <1>1
<1> HIDE DEF Q
<1>3. Append(s, x) \in Seq(Q) /\ Len(s) \in Nat
  BY <1>2
<1>4. /\ Len(Append(s, x)) = Len(s) + 1
      /\ \A k \in 1..Len(s) : Append(s, x)[k] = s[k]
      /\ Append(s, x)[Len(s) + 1] = x
  BY <1>2
<1>5. s \o <<x>> = Append(s, x)
  BY <1>2, AppendIsConcat
<1>6. s \o <<>> = s
  BY <1>2, ConcatEmptySeq
<1> QED BY <1>3, <1>4, <1>5, <1>6 DEF IsSlice

(* All but the last.                                                       *)
LEMMA FrontOf ==
  ASSUME NEW s, IsSlice(s), s # <<>>
  PROVE  /\ IsSlice(Front(s)) /\ Len(Front(s)) = Len(s) - 1 /\ Len(s) \in Nat \ {0}
         /\ \A k \in 1..(Len(s) - 1) : Front(s)[k] = s[k]
         /\ Last(s) = s[Len(s)]
<1>1. PICK R : s \in Seq(R)
  BY DEF IsSlice
<1>2. Len(s) \in Nat \ {0} /\ \A k \in 1..(Len(s) - 1) : s[k] \in R
  BY <1>1, EmptySeq, LenProperties, ElementOfSeq
<1>3. 1 \in Int /\ Len(s) - 1 \in Int
  BY <1>2
<1>4. /\ SubSeq(s, 1, Len(s) - 1) \in Seq(R)
      /\ Len(SubSeq(s, 1, Len(s) - 1)) = IF 1 <= Len(s) - 1 THEN Len(s) - 1 - 1 + 1 ELSE 0
      /\ \A k \in 1..(Len(s) - 1 - 1 + 1) : SubSeq(s, 1, Len(s) - 1)[k] = s[1 + k - 1]
  BY <1>2, <1>3, SubSeqProperties
<1> DEFINE f == SubSeq(s, 1, Len(s) - 1)
<1> HIDE DEF f
<1>5. Len(f) = Len(s) - 1 /\ \A k \in 1..(Len(s) - 1) : f[k] = s[k]
  <2> DEFINE n == Len(s)
  <2>0. n \in Nat \ {0}
    BY <1>2
  <2> HIDE DEF n
  <2>1. /\ (IF 1 <= n - 1 THEN n - 1 - 1 + 1 ELSE 0) = n - 1 /\ n - 1 - 1 + 1 = n - 1
        /\ \A k \in 1..(n - 1) : 1 + k - 1 = k
    BY <2>0
  <2>2. Len(f) = n - 1
    BY <1>4, <2>1 DEF f, n
  <2>3. \A k \in 1..(n - 1) : f[k] = s[1 + k - 1]
    BY <1>4, <2>1 DEF f, n
  <2> QED BY <2>1, <2>2, <2>3 DEF n
<1>6. Front(s) = f
  BY DEF Front, f
<1> QED BY <1>2, <1>4, <1>5, <1>6 DEF IsSlice, Last, f

(* A slice whose elements are changed.                                     *)
LEMMA ChangedSlice ==
  ASSUME NEW s, IsSlice(s), NEW f, f = [k \in DOMAIN s |-> f[k]]
  PROVE  IsSlice(f) /\ Len(f) = Len(s)
<1> DEFINE n == Len(s)
           R == {f[k] : k \in 1..n}
<1>1. n \in Nat /\ DOMAIN s = 1..n
  BY Slices
<1>2. f = [k \in 1..n |-> f[k]] /\ \A k \in 1..n : f[k] \in R
  BY <1>1
<1> HIDE DEF n, R
<1>3. f \in Seq(R) /\ Len(f) = n
  BY <1>1, <1>2, LenProperties
<1> QED BY <1>3 DEF IsSlice, n

-------------------------------------------------------------------------------
(* The processes with a tracer, and whether all have one and sample all.   *)
Tracers == {p \in Processes : Traced(p)}
AllBasic == \A p \in Processes : Traced(p) /\ env[p].tracer = "basic"

(* The parent of a call's span: the span before, if its process is traced. *)
ParentIn(T, r, k) == IF k > 1 /\ ProcessOf(k - 1) \in T THEN <<r, k - 1>> ELSE None

(* What is known of an open span k of request r.                           *)
OpenSpanIn(T, r, k, s) ==
  /\ s.alive \in BOOLEAN /\ s.sampled \in BOOLEAN /\ {"id", "alive", "sampled"} \subseteq DOMAIN s
  /\ ProcessOf(k) \in T => /\ {"parent", "trace"} \subseteq DOMAIN s
                           /\ s.id = <<r, k>> /\ s.parent = ParentIn(T, r, k)
                           /\ s.trace \in SpanId
                           /\ T = Processes => s.trace = <<r, 1>>
  /\ ProcessOf(k) \notin T => s.id = None /\ ~s.sampled

(* What is known of a stored span: it is of a call or one of its own.      *)
StoredSpanIn(T, r, k, s) ==
  /\ \/ s.id = <<r, k>> /\ s.parent = ParentIn(T, r, k)
     \/ s.id = <<r, k, "own">> /\ s.parent = <<r, k>>
  /\ T = Processes => s.trace = <<r, 1>>

OpenInv ==
  \A r \in Requests : /\ IsSlice(open[r])
                      /\ \A k \in 1..Len(open[r]) : OpenSpanIn(Tracers, r, k, open[r][k])

StoredInv ==
  /\ IsSlice(stored)
  /\ \A i \in 1..Len(stored) :
       \E r \in Requests, k \in 1..Depth : StoredSpanIn(Tracers, r, k, stored[i])
  /\ \A i, j \in 1..Len(stored) : stored[i].id = stored[j].id => i = j

(* The spans of a request's calls, and those of its own, that are stored.  *)
KeptCalls(r) == {k \in 1..Depth : \E i \in 1..Len(stored) : stored[i].id = <<r, k>>}
OwnKept(r) == {k \in 1..Depth : \E i \in 1..Len(stored) : stored[i].id = <<r, k, "own">>}

Living(o) == {k \in 1..Len(o) : o[k].alive}
Connected(T, k, l) == \A q \in ProcessOf(k)..ProcessOf(l) : q \in T

(* A request has made m spans, those in S sampled, of which are left: o,   *)
(* open, and K, stored.  From a sampled span on all that the context       *)
(* reaches are sampled, the open ones are the first, and no more have got  *)
(* lost than were counted.                                                 *)
Spans(T, o, q, l, K, m, S) ==
  /\ m \in 0..Depth /\ S \subseteq 1..m /\ Len(o) \in 0..m
  /\ q \in {"none", "calling"} => Len(o) = m /\ m < Depth /\ K = {}
  /\ q = "done" => Len(o) = 0 /\ m > 0
  /\ \A k \in 1..Len(o) : o[k].sampled <=> k \in S
  /\ \A k \in S : ProcessOf(k) \in T /\ \A j \in k..m : Connected(T, k, j) => j \in S
  /\ K \subseteq S /\ \A k \in K : k > Len(o)
  /\ Cardinality(S \ (K \cup Living(o))) <= l

(* It has a span of its own at most, and if all spans are sampled that is  *)
(* stored unless a span has got lost.                                      *)
SpanOwned(r, m, S) ==
  /\ OwnKept(r) \subseteq 1..m
  /\ \A k, l \in OwnKept(r) : k = l
  /\ OwnKept(r) # {} => r \in own
  /\ AllBasic => S = 1..m /\ (r \in own => OwnKept(r) # {} \/ lost[r] > 0)

SpansOfRequest(r, m, S) ==
  /\ Spans(Tracers, open[r], request[r], lost[r], KeptCalls(r), m, S)
  /\ SpanOwned(r, m, S)

States == {"none", "calling", "returning", "done"}

TracingInv ==
  /\ env \in Settings
  /\ open = [r \in Requests |-> open[r]]
  /\ request \in [Requests -> States]
  /\ lost \in [Requests -> Nat]
  /\ OpenInv /\ StoredInv
  /\ \A r \in Requests : \E m, S : SpansOfRequest(r, m, S)

(* Before anything is called.                                              *)
LEMMA TracingInitial == TracingInit => TracingInv
<1> SUFFICES ASSUME TracingInit PROVE TracingInv
  OBVIOUS
<1>1. Len(<<>>) = 0 /\ IsSlice(<<>>) /\ 1..0 = {}
  BY DEF IsSlice
<1>2. OpenInv /\ StoredInv
  BY <1>1 DEF TracingInit, OpenInv, StoredInv
<1>3. ASSUME NEW r \in Requests PROVE SpansOfRequest(r, 0, {})
  <2>1. /\ open[r] = <<>> /\ request[r] = "none" /\ lost[r] = 0 /\ r \notin own
        /\ KeptCalls(r) = {} /\ OwnKept(r) = {}
    BY <1>1 DEF TracingInit, KeptCalls, OwnKept
  <2>2. Cardinality({}) = 0 /\ Depth \in Nat \ {0} /\ Living(<<>>) = {}
    BY <1>1, FS_EmptySet, Depths DEF Living
  <2>3. {} \ ({} \cup {}) = {}
    OBVIOUS
  <2> QED BY <1>1, <2>1, <2>2, <2>3 DEF SpansOfRequest, Spans, SpanOwned
<1> QED BY <1>2, <1>3 DEF TracingInit, TracingInv, States

(* A span that is stored adds its id to those of its request.              *)
LEMMA Storing ==
  ASSUME StoredInv, NEW r \in Requests, NEW k \in 1..Depth, NEW x,
         StoredSpanIn(Tracers, r, k, x), stored' = Append(stored, x), Tracers' = Tracers,
         \A i \in 1..Len(stored) : stored[i].id # x.id
  PROVE  /\ StoredInv'
         /\ \A s : KeptCalls(s)' = KeptCalls(s) \cup {l \in 1..Depth : x.id = <<s, l>>}
         /\ \A s : OwnKept(s)' = OwnKept(s) \cup {l \in 1..Depth : x.id = <<s, l, "own">>}
<1>1. /\ IsSlice(stored') /\ Len(stored') = Len(stored) + 1 /\ Len(stored) \in Nat
      /\ \A i \in 1..Len(stored) : stored'[i] = stored[i]
      /\ stored'[Len(stored) + 1] = x
  BY AppendedTo, Slices DEF StoredInv
<1> DEFINE n == Len(stored)
<1> HIDE DEF n
<1>2. n \in Nat /\ \A i : i \in 1..(n + 1) <=> i \in 1..n \/ i = n + 1
  BY <1>1 DEF n
<1>3. /\ IsSlice(stored') /\ Len(stored') = n + 1
      /\ \A i \in 1..n : stored'[i] = stored[i]
      /\ stored'[n + 1] = x
  BY <1>1 DEF n
<1>4. \A y, z : (\E i \in 1..Len(stored') : stored'[i].id = y) <=>
                  (\E i \in 1..n : stored[i].id = y) \/ x.id = y
  BY <1>2, <1>3
<1>5. \A s : KeptCalls(s)' = KeptCalls(s) \cup {l \in 1..Depth : x.id = <<s, l>>}
  BY <1>4 DEF KeptCalls, n
<1>6. \A s : OwnKept(s)' = OwnKept(s) \cup {l \in 1..Depth : x.id = <<s, l, "own">>}
  BY <1>4 DEF OwnKept, n
<1>7. \A i \in 1..Len(stored') :
        \E s \in Requests, l \in 1..Depth : StoredSpanIn(Tracers, s, l, stored'[i])
  BY <1>2, <1>3 DEF StoredInv, n
<1>8. \A i, j \in 1..Len(stored') : stored'[i].id = stored'[j].id => i = j
  <2> SUFFICES ASSUME NEW i \in 1..(n + 1), NEW j \in 1..(n + 1), stored'[i].id = stored'[j].id
               PROVE  i = j
    BY <1>3
  <2>1. CASE i \in 1..n /\ j \in 1..n
    BY <1>3, <2>1 DEF StoredInv, n
  <2>2. CASE i = n + 1 /\ j = n + 1
    BY <2>2
  <2>3. CASE (i \in 1..n /\ j = n + 1) \/ (i = n + 1 /\ j \in 1..n)
    BY <1>3, <2>3 DEF n
  <2> QED BY <1>2, <2>1, <2>2, <2>3
<1>9. StoredInv'
  BY <1>3, <1>7, <1>8 DEF StoredInv
<1> QED BY <1>5, <1>6, <1>9

(* What is stored and lost when a span ends.                               *)
LEMMA Exporting ==
  ASSUME lost \in [Requests -> Nat], IsSlice(stored), NEW r \in Requests, NEW span,
         NEW arrives \in BOOLEAN, Export(r, span, arrives)
  PROVE  \/ ~span.sampled /\ stored' = stored /\ lost' = lost
         \/ /\ span.sampled /\ lost' = lost
            /\ stored' = Append(stored, [id |-> span.id, parent |-> span.parent, trace |-> span.trace])
         \/ span.sampled /\ stored' = stored /\ lost' = [lost EXCEPT ![r] = lost[r] + 1]
<1> DEFINE x == [id |-> span.id, parent |-> span.parent, trace |-> span.trace]
           e == Exported(span)
<1>1. /\ stored' = IF arrives THEN stored \o e ELSE stored
      /\ lost' = IF arrives THEN lost ELSE [lost EXCEPT ![r] = lost[r] + Len(e)]
  BY DEF Export
<1>2. e = IF span.sampled THEN <<x>> ELSE <<>>
  BY DEF Exported
<1> HIDE DEF x, e
<1>3. stored \o <<x>> = Append(stored, x) /\ stored \o <<>> = stored
  BY AppendedTo
<1>4. Len(<<x>>) = 1 /\ Len(<<>>) = 0
  OBVIOUS
<1>5. [lost EXCEPT ![r] = lost[r] + 0] = lost
  OBVIOUS
<1> QED BY <1>1, <1>2, <1>3, <1>4, <1>5 DEF x

(* As long as the environment is the same, so are the tracers.             *)
LEMMA SameTracers ==
  ASSUME env' = env
  PROVE  Tracers' = Tracers /\ (AllBasic' <=> AllBasic) /\ \A p : Traced(p)' = Traced(p)
BY DEF Tracers, AllBasic, Traced, IsTracingEnabled

(* Nothing happens to a request.                                           *)
LEMMA OthersKeep ==
  ASSUME env' = env, NEW r \in Requests, open'[r] = open[r], request'[r] = request[r],
         lost'[r] = lost[r], KeptCalls(r)' = KeptCalls(r), OwnKept(r)' = OwnKept(r),
         r \in own' <=> r \in own, \E m, S : SpansOfRequest(r, m, S)
  PROVE  \E m, S : SpansOfRequest(r, m, S)'
<1>1. PICK m, S : SpansOfRequest(r, m, S)
  OBVIOUS
<1>2. SpansOfRequest(r, m, S)'
  BY <1>1, SameTracers DEF SpansOfRequest, Spans, SpanOwned
<1> QED BY <1>2

(* Nothing is stored.                                                      *)
LEMMA SameStored ==
  ASSUME env' = env, stored' = stored, StoredInv
  PROVE  StoredInv' /\ \A r : KeptCalls(r)' = KeptCalls(r) /\ OwnKept(r)' = OwnKept(r)
BY SameTracers DEF StoredInv, KeptCalls, OwnKept

(* No span is opened or closed.                                            *)
LEMMA SameOpen ==
  ASSUME env' = env, open' = open, OpenInv
  PROVE  OpenInv'
BY SameTracers DEF OpenInv

(* A call that finds nobody returns.                                       *)
LEMMA UnavailableKeeps ==
  ASSUME TracingInv, NEW r \in Requests, Unavailable(r)
  PROVE  TracingInv'
<1>1. /\ UNCHANGED <<env, open, own, stored, lost>>
      /\ request' = [request EXCEPT ![r] = "returning"]
  BY DEF Unavailable
<1>2. OpenInv' /\ StoredInv' /\ \A s : KeptCalls(s)' = KeptCalls(s) /\ OwnKept(s)' = OwnKept(s)
  BY <1>1, SameOpen, SameStored DEF TracingInv
<1>3. ASSUME NEW s \in Requests PROVE \E m, S : SpansOfRequest(s, m, S)'
  <2>1. CASE s # r
    <3>1. request'[s] = request[s]
      BY <1>1, <2>1 DEF TracingInv
    <3> QED BY <1>1, <1>2, <3>1, OthersKeep DEF TracingInv
  <2>2. CASE s = r
    <3>1. request'[s] = "returning"
      BY <1>1, <2>2 DEF TracingInv
    <3>2. PICK m, S : SpansOfRequest(s, m, S)
      BY DEF TracingInv
    <3>3. SpansOfRequest(s, m, S)'
      BY <1>1, <1>2, <3>1, <3>2, SameTracers DEF SpansOfRequest, Spans, SpanOwned
    <3> QED BY <3>3
  <2> QED BY <2>1, <2>2
<1>4. request' \in [Requests -> States]
  BY <1>1 DEF TracingInv, States
<1> QED BY <1>1, <1>2, <1>3, <1>4 DEF TracingInv

(* The context of a request: that of its innermost span, if traced.        *)
LEMMA ContextOf ==
  ASSUME OpenInv, NEW r \in Requests, Len(open[r]) <= Depth
  PROVE  LET n == Len(open[r]) IN
         IF n > 0 /\ ProcessOf(n) \in Tracers
           THEN /\ Context(r) # None /\ Context(r).id = <<r, n>>
                /\ Context(r).sampled = open[r][n].sampled /\ Context(r).trace \in SpanId
                /\ Tracers = Processes => Context(r).trace = <<r, 1>>
           ELSE Context(r) = None
<1> DEFINE n == Len(open[r])
           s == open[r][n]
           c == [id |-> s.id, trace |-> s.trace, sampled |-> s.sampled]
<1>1. /\ IsSlice(open[r]) /\ n \in 0..Depth /\ (open[r] = <<>> <=> n = 0)
      /\ n > 0 => OpenSpanIn(Tracers, r, n, s)
  BY Slices, Depths DEF OpenInv
<1>2. n > 0 => Last(open[r]) = s
  BY <1>1, FrontOf
<1>3. Context(r) = IF n = 0 \/ s.id = None THEN None ELSE c
  BY <1>1, <1>2 DEF Context
<1> HIDE DEF n, s
<1>4. CASE n > 0 /\ ProcessOf(n) \in Tracers
  <2>1. /\ s.id = <<r, n>> /\ s.trace \in SpanId /\ s.sampled \in BOOLEAN
        /\ Tracers = Processes => s.trace = <<r, 1>>
    BY <1>1, <1>4 DEF OpenSpanIn
  <2>2. s.id \in SpanId
    BY <1>1, <1>4, <2>1 DEF SpanId
  <2>3. c \in SpanContext
    BY <2>1, <2>2 DEF SpanContext
  <2>4. s.id # None /\ c # None
    BY <2>2, <2>3, TracingAssumption
  <2>5. Context(r) = c
    BY <1>1, <1>3, <1>4, <2>4
  <2>6. c.id = s.id /\ c.trace = s.trace /\ c.sampled = s.sampled
    OBVIOUS
  <2> HIDE DEF c
  <2> QED BY <1>4, <2>1, <2>4, <2>5, <2>6 DEF n, s
<1>5. CASE ~(n > 0 /\ ProcessOf(n) \in Tracers)
  <2>1. n = 0 \/ s.id = None
    BY <1>1, <1>5 DEF OpenSpanIn
  <2> QED BY <1>3, <1>5, <2>1 DEF n
<1> QED BY <1>4, <1>5

(* What a new span is.                                                     *)
LEMMA NewSpan ==
  ASSUME OpenInv, NEW r \in Requests, NEW m, m = Len(open[r]), m < Depth, NEW ratio \in BOOLEAN,
         NEW k, k = m + 1, NEW p, p = ProcessOf(k), p \in Tracers, NEW s,
         s = Span(<<r, k>>, p, Propagated(Context(r), p), ratio)
  PROVE  /\ OpenSpanIn(Tracers, r, k, s) /\ s.alive
         /\ m > 0 /\ ProcessOf(m) \in Tracers /\ open[r][m].sampled => s.sampled
         /\ AllBasic => s.sampled
<1> DEFINE c == Context(r)
<1>1. /\ Propagated(c, p) = c /\ p \in Processes /\ m \in 0..Depth /\ k \in 1..Depth /\ k - 1 = m
      /\ k > 1 <=> m > 0
  <2>1. m \in Nat
    BY Slices DEF OpenInv
  <2>2. m \in 0..Depth /\ k \in 1..Depth /\ k - 1 = m /\ (k > 1 <=> m > 0)
    <3>1. Depth \in Nat
      BY Depths
    <3> QED BY <2>1, <3>1
  <2>3. Propagated(c, p) = c /\ p \in Processes
    BY DEF Tracers, Propagated
  <2> QED BY <2>2, <2>3
<1>2. /\ s.id = <<r, k>> /\ s.alive = TRUE
      /\ s.parent = IF c = None THEN None ELSE c.id
      /\ s.trace = IF c = None THEN <<r, k>> ELSE c.trace
      /\ s.sampled = Sampled(p, c, ratio)
      /\ {"id", "alive", "sampled"} \subseteq DOMAIN s /\ {"parent", "trace"} \subseteq DOMAIN s
  BY <1>1 DEF Span
<1>3. IF m > 0 /\ ProcessOf(m) \in Tracers
        THEN /\ c # None /\ c.id = <<r, m>>
             /\ c.sampled = open[r][m].sampled /\ c.trace \in SpanId
             /\ Tracers = Processes => c.trace = <<r, 1>>
        ELSE c = None
  BY <1>1, ContextOf
<1> HIDE DEF c
<1>4. s.sampled \in BOOLEAN /\ (c # None /\ c.sampled = TRUE => s.sampled)
      /\ (env[p].tracer = "basic" => s.sampled)
  BY <1>2 DEF Sampled
<1>5. s.parent = ParentIn(Tracers, r, k)
  BY <1>1, <1>2, <1>3 DEF ParentIn
<1>6. s.trace \in SpanId
  BY <1>1, <1>2, <1>3 DEF SpanId
<1>7. Tracers = Processes => s.trace = <<r, 1>>
  <2> SUFFICES ASSUME Tracers = Processes PROVE s.trace = <<r, 1>>
    OBVIOUS
  <2>1. CASE m = 0
    BY <1>1, <1>2, <1>3, <2>1
  <2>2. CASE m > 0
    <3>1. m \in 1..Depth
      BY <1>1, <2>2
    <3>2. ProcessOf(m) \in Tracers
      BY <3>1, Depths
    <3> QED BY <1>2, <1>3, <2>2, <3>2
  <2> QED BY <1>1, <2>1, <2>2
<1>8. OpenSpanIn(Tracers, r, k, s)
  BY <1>2, <1>4, <1>5, <1>6, <1>7 DEF OpenSpanIn
<1>9. m > 0 /\ ProcessOf(m) \in Tracers /\ open[r][m].sampled => s.sampled
  <2> SUFFICES ASSUME m > 0, ProcessOf(m) \in Tracers, open[r][m].sampled PROVE s.sampled
    OBVIOUS
  <2>1. OpenSpanIn(Tracers, r, m, open[r][m])
    BY <1>1 DEF OpenInv
  <2>2. open[r][m].sampled = TRUE
    BY <2>1 DEF OpenSpanIn
  <2> QED BY <1>3, <1>4, <2>2
<1>10. AllBasic => s.sampled
  BY <1>1, <1>4 DEF AllBasic
<1> QED BY <1>2, <1>8, <1>9, <1>10

(* One more span of a request's calls: if the last one was sampled and its *)
(* context arrives, so is this.                                            *)
LEMMA OneMoreSpan ==
  ASSUME NEW T, NEW o, IsSlice(o), NEW q, NEW l,
         NEW m, NEW S, Spans(T, o, q, l, {}, m, S), q \in {"none", "calling"},
         NEW k, k = m + 1,
         NEW x, x.alive = TRUE, x.sampled \in BOOLEAN, x.sampled => ProcessOf(k) \in T,
         m > 0 /\ m \in S /\ ProcessOf(k) \in T => x.sampled,
         NEW t, t = IF k = Depth THEN "returning" ELSE "calling",
         NEW Q, Q = S \cup (IF x.sampled THEN {k} ELSE {})
  PROVE  Spans(T, Append(o, x), t, l, {}, k, Q)
<1> DEFINE a == Append(o, x)
<1>1. /\ m \in 0..Depth /\ m < Depth /\ Len(o) = m /\ S \subseteq 1..m /\ Depth \in Nat
      /\ \A j \in S : ProcessOf(j) \in T /\ \A i \in j..m : Connected(T, j, i) => i \in S
      /\ \A j \in 1..m : o[j].sampled <=> j \in S
  BY Depths DEF Spans
<1>2. k \in 1..Depth /\ k \in Nat /\ (\A j : j \in 1..k <=> j \in 1..m \/ j = k) /\ k \notin 1..m
  BY <1>1
<1>3. /\ Len(a) = k /\ a[k] = x /\ \A j \in 1..m : a[j] = o[j]
  BY <1>1, AppendedTo
<1>4. Q \subseteq 1..k
  BY <1>1, <1>2
<1>5. \A j \in 1..k : a[j].sampled <=> j \in Q
  BY <1>1, <1>2, <1>3
<1>6. ASSUME NEW j \in Q PROVE ProcessOf(j) \in T /\ \A i \in j..k : Connected(T, j, i) => i \in Q
  <2>1. ProcessOf(j) \in T
    BY <1>1, <1>6
  <2>2. CASE j = k
    <3>1. \A i \in j..k : i = k
      BY <1>2, <2>2
    <3> QED BY <1>6, <2>1, <2>2, <3>1
  <2>3. CASE j \in S
    <3> SUFFICES ASSUME NEW i \in j..k, Connected(T, j, i) PROVE i \in Q
      BY <2>1
    <3>1. CASE i # k
      <4>1. i \in j..m
        BY <1>1, <1>2, <2>3, <3>1
      <4> QED BY <1>1, <2>3, <4>1
    <3>2. CASE i = k
      <4>1. j \in 1..m /\ m \in 1..Depth /\ m \in j..m
        BY <1>1, <2>3
      <4>2. /\ ProcessOf(j) \in Nat /\ ProcessOf(m) \in Nat /\ ProcessOf(k) \in Nat
            /\ ProcessOf(j) <= ProcessOf(m) /\ ProcessOf(m) <= ProcessOf(k)
        <5>1. j \in 1..Depth /\ j <= m /\ m <= k /\ j \in Nat /\ m \in Nat /\ k \in Nat
          BY <1>1, <1>2, <4>1
        <5> QED BY <1>2, <4>1, <5>1, Depths
      <4>3. Connected(T, j, m) /\ ProcessOf(k) \in T
        <5>1. ProcessOf(j)..ProcessOf(m) \subseteq ProcessOf(j)..ProcessOf(k)
              /\ ProcessOf(k) \in ProcessOf(j)..ProcessOf(k)
          BY <4>2
        <5> QED BY <3>2, <5>1 DEF Connected
      <4>4. m \in S
        BY <1>1, <2>3, <4>1, <4>3
      <4> QED BY <3>2, <4>1, <4>3, <4>4
    <3> QED BY <3>1, <3>2
  <2> QED BY <1>6, <2>2, <2>3
<1>7. Q \ ({} \cup Living(a)) = S \ ({} \cup Living(o))
  <2>1. \A j : j \in Living(a) <=> j \in Living(o) \/ j = k
    BY <1>1, <1>2, <1>3 DEF Living
  <2> QED BY <1>1, <1>2, <2>1
<1>10. t = "calling" => Len(a) = k /\ k < Depth
  <2>1. t = "calling" => k # Depth
    OBVIOUS
  <2>2. k # Depth => k < Depth
    BY <1>1
  <2> QED BY <1>3, <2>1, <2>2
<1>11. t \notin {"none", "done"} /\ k \in 0..Depth /\ Len(a) \in 0..k
  BY <1>2, <1>3
<1> HIDE DEF a
<1>12. Spans(T, a, t, l, {}, k, Q)
  BY <1>3, <1>4, <1>5, <1>6, <1>7, <1>10, <1>11 DEF Spans
<1> QED BY <1>12 DEF a

(* A client or server span is opened.                                      *)
LEMMA OpenSpanKeeps ==
  ASSUME TracingInv, NEW r \in Requests, NEW ratio \in BOOLEAN, OpenSpan(r, ratio)
  PROVE  TracingInv'
<1>1. PICK m, S : SpansOfRequest(r, m, S)
  BY DEF TracingInv
<1> DEFINE k == Len(open[r]) + 1
           p == ProcessOf(k)
           s == Span(<<r, k>>, p, Propagated(Context(r), p), ratio)
           x == IF p \in Tracers THEN s ELSE Untraced(p)
<1>2. /\ request[r] \in {"none", "calling"}
      /\ UNCHANGED <<env, own, stored, lost>>
  BY DEF OpenSpan
<1>3. /\ m \in 0..Depth /\ Len(open[r]) = m /\ m < Depth /\ KeptCalls(r) = {} /\ k = m + 1
      /\ k \in 1..Depth /\ p \in Processes /\ IsSlice(open[r])
  BY <1>1, <1>2, Depths DEF SpansOfRequest, Spans, SpanOwned, TracingInv, OpenInv
<1>4. /\ open' = [open EXCEPT ![r] = Append(open[r], x)]
      /\ request' = [request EXCEPT ![r] = IF k = Depth THEN "returning" ELSE "calling"]
  <2>1. Traced(p) <=> p \in Tracers
    BY <1>3 DEF Tracers
  <2> QED BY <2>1 DEF OpenSpan, NextProcess, Instrumented
<1>5. /\ OpenSpanIn(Tracers, r, k, x) /\ x.alive = TRUE /\ x.sampled \in BOOLEAN
      /\ x.sampled => p \in Tracers
      /\ AllBasic => x.sampled
      /\ m > 0 /\ m \in S /\ p \in Tracers => x.sampled
  <2>1. CASE p \in Tracers
    <3>1. /\ OpenSpanIn(Tracers, r, k, s) /\ s.alive
          /\ m > 0 /\ ProcessOf(m) \in Tracers /\ open[r][m].sampled => s.sampled
          /\ AllBasic => s.sampled
      BY <1>3, <2>1, NewSpan DEF TracingInv
    <3>2. m > 0 /\ m \in S => ProcessOf(m) \in Tracers /\ open[r][m].sampled
      BY <1>1, <1>3 DEF SpansOfRequest, Spans, SpanOwned
    <3>3. s.alive \in BOOLEAN /\ s.sampled \in BOOLEAN
      BY <3>1 DEF OpenSpanIn
    <3> HIDE DEF s
    <3> QED BY <2>1, <3>1, <3>2, <3>3
  <2>2. CASE p \notin Tracers
    <3>1. x = Untraced(p) /\ ~AllBasic
      BY <1>3, <2>2 DEF AllBasic, Tracers
    <3>2. /\ x.id = None /\ x.alive = TRUE /\ x.sampled = FALSE
          /\ {"id", "alive", "sampled"} \subseteq DOMAIN x
      BY <3>1 DEF Untraced
    <3> QED BY <2>2, <3>1, <3>2 DEF OpenSpanIn
  <2> QED BY <2>1, <2>2
<1> HIDE DEF s, x
<1>6. OpenInv'
  <2> SUFFICES ASSUME NEW t \in Requests
               PROVE  /\ IsSlice(open'[t])
                      /\ \A j \in 1..Len(open'[t]) : OpenSpanIn(Tracers, t, j, open'[t][j])
    BY <1>2, SameTracers DEF OpenInv
  <2>1. CASE t # r
    <3>1. open'[t] = open[t]
      BY <1>4, <2>1 DEF TracingInv
    <3> QED BY <3>1 DEF TracingInv, OpenInv
  <2>2. CASE t = r
    <3>1. open'[t] = Append(open[r], x)
      BY <1>4, <2>2 DEF TracingInv
    <3>2. /\ IsSlice(open'[t]) /\ Len(open'[t]) = k /\ open'[t][k] = x
          /\ \A j \in 1..m : open'[t][j] = open[r][j]
      BY <1>3, <3>1, AppendedTo
    <3>3. \A j \in 1..k : j \in 1..m \/ j = k
      BY <1>3
    <3>4. \A j \in 1..m : OpenSpanIn(Tracers, r, j, open[r][j])
      BY <1>3 DEF TracingInv, OpenInv
    <3> QED BY <1>5, <2>2, <3>2, <3>3, <3>4
  <2> QED BY <2>1, <2>2
<1>7. StoredInv' /\ \A t : KeptCalls(t)' = KeptCalls(t) /\ OwnKept(t)' = OwnKept(t)
  BY <1>2, SameStored DEF TracingInv
<1>8. ASSUME NEW t \in Requests PROVE \E n, Q : SpansOfRequest(t, n, Q)'
  <2>1. CASE t # r
    <3>1. open'[t] = open[t] /\ request'[t] = request[t]
      BY <1>4, <2>1 DEF TracingInv
    <3> QED BY <1>2, <1>7, <3>1, OthersKeep DEF TracingInv
  <2>2. CASE t = r
    <3>1. /\ open'[t] = Append(open[r], x)
          /\ request'[t] = IF m + 1 = Depth THEN "returning" ELSE "calling"
      BY <1>3, <1>4, <2>2 DEF TracingInv
    <3>2. PICK j, Q : j = m + 1 /\ Q = S \cup (IF x.sampled THEN {j} ELSE {})
      OBVIOUS
    <3> DEFINE o == open[r]
               q == request[r]
               l == lost[r]
               T == Tracers
               f == IF j = Depth THEN "returning" ELSE "calling"
    <3>3. Spans(T, o, q, l, {}, m, S)
      BY <1>1, <1>3 DEF SpansOfRequest
    <3>4. /\ IsSlice(o) /\ q \in {"none", "calling"}
          /\ x.sampled => ProcessOf(j) \in T
          /\ m > 0 /\ m \in S /\ ProcessOf(j) \in T => x.sampled
      BY <1>2, <1>3, <1>5, <3>2
    <3> HIDE DEF o, q, l, T, f, p, k
    <3>5. Spans(T, Append(o, x), f, l, {}, j, Q)
      <4>1. f = IF j = Depth THEN "returning" ELSE "calling"
        BY DEF f
      <4>2. j = m + 1 /\ Q = S \cup (IF x.sampled THEN {j} ELSE {})
        BY <3>2
      <4>3. x.alive = TRUE /\ x.sampled \in BOOLEAN
        BY <1>5
      <4> QED BY <3>3, <3>4, <4>1, <4>2, <4>3, OneMoreSpan
    <3>6. Spans(Tracers, open[r], request[r], lost[r], KeptCalls(r), j, Q)'
      BY <1>2, <1>3, <1>7, <2>2, <3>1, <3>2, <3>5, SameTracers DEF o, q, l, T, f
    <3>7. SpanOwned(r, j, Q)'
      <4>1. SpanOwned(r, m, S) /\ m \in Nat
        BY <1>1, <1>3 DEF SpansOfRequest
      <4>2. 1..m \subseteq 1..j /\ 1..j = 1..m \cup {j}
        BY <3>2, <4>1
      <4>3. AllBasic => Q = 1..j
        BY <1>5, <3>2, <4>1, <4>2 DEF SpanOwned
      <4> QED BY <1>2, <1>7, <4>1, <4>2, <4>3, SameTracers DEF SpanOwned
    <3>8. SpansOfRequest(r, j, Q)'
      BY <3>6, <3>7 DEF SpansOfRequest
    <3> QED BY <2>2, <3>8
  <2> QED BY <2>1, <2>2
<1>9. request' \in [Requests -> States] /\ open' = [t \in Requests |-> open'[t]]
  BY <1>4 DEF TracingInv, States
<1> QED BY <1>2, <1>6, <1>7, <1>8, <1>9 DEF TracingInv

(* Of finitely many sampled spans as many may get lost as are counted.     *)
LEMMA MoreLost ==
  ASSUME NEW m \in Nat, NEW S \in SUBSET (1..m), NEW G \in SUBSET S, NEW H \in SUBSET S,
         NEW D \in SUBSET S, H \subseteq G \cup D, NEW l \in Nat, Cardinality(G) <= l
  PROVE  /\ IsFiniteSet(D) /\ Cardinality(D) \in Nat
         /\ Cardinality(H) <= l + Cardinality(D)
<1>1. IsFiniteSet(S)
  <2>1. IsFiniteSet(1..m)
    BY FS_Interval
  <2> QED BY <2>1, FS_Subset
<1>2. IsFiniteSet(G) /\ IsFiniteSet(H) /\ IsFiniteSet(D)
  BY <1>1, FS_Subset
<1>3. Cardinality(G) \in Nat /\ Cardinality(H) \in Nat /\ Cardinality(D) \in Nat
  BY <1>2, FS_CardinalityType
<1>4. IsFiniteSet(G \cup D) /\ Cardinality(G \cup D) = Cardinality(G) + Cardinality(D) - Cardinality(G \cap D)
      /\ IsFiniteSet(G \cap D)
  <2>1. IsFiniteSet(G \cap D)
    BY <1>2, FS_Subset
  <2> QED BY <1>2, <2>1, FS_Union
<1>5. Cardinality(G \cap D) \in Nat /\ Cardinality(G \cup D) \in Nat
  BY <1>4, FS_CardinalityType
<1>6. Cardinality(H) <= Cardinality(G \cup D)
  BY <1>4, FS_Subset
<1> QED BY <1>2, <1>3, <1>4, <1>5, <1>6

(* The innermost span ends, and is stored, lost, or not sampled.           *)
InnermostEnds(o, l, K, S, f, t, J, d) ==
  LET n == Len(o) IN
  /\ IsSlice(o) /\ n > 0 /\ o[n].alive \in BOOLEAN /\ l \in Nat
  /\ Len(f) = n - 1 /\ \A k \in 1..(n - 1) : f[k] = o[k]
  /\ t = IF n = 1 THEN "done" ELSE "returning"
  /\ \/ J = K /\ d = l /\ ~(o[n].alive /\ n \in S)
     \/ J = K \cup {n} /\ d = l /\ n \in S
     \/ J = K /\ d = l + 1 /\ n \in S

(* It is counted.                                                          *)
LEMMA OneLessSpan ==
  ASSUME NEW T, NEW o, NEW l, NEW K, NEW m, NEW S, Spans(T, o, "returning", l, K, m, S),
         NEW f, NEW t, NEW J, NEW d, InnermostEnds(o, l, K, S, f, t, J, d)
  PROVE  Spans(T, f, t, d, J, m, S)
<1> DEFINE n == Len(o)
<1>a. /\ IsSlice(o) /\ n > 0 /\ o[n].alive \in BOOLEAN /\ l \in Nat
      /\ Len(f) = n - 1 /\ \A k \in 1..(n - 1) : f[k] = o[k]
      /\ t = IF n = 1 THEN "done" ELSE "returning"
      /\ \/ J = K /\ d = l /\ ~(o[n].alive /\ n \in S)
         \/ J = K \cup {n} /\ d = l /\ n \in S
         \/ J = K /\ d = l + 1 /\ n \in S
  BY DEF InnermostEnds
<1>b. Len(o) = n
  OBVIOUS
<1> HIDE DEF n
<1>0. /\ m \in 0..Depth /\ S \in SUBSET (1..m) /\ n \in 0..m /\ n > 0 /\ Depth \in Nat
      /\ \A k \in 1..n : o[k].sampled <=> k \in S
      /\ K \subseteq S /\ \A k \in K : k > n
      /\ Cardinality(S \ (K \cup Living(o))) <= l
  BY <1>a, <1>b, Depths DEF Spans
<1>1. m \in Nat /\ n \in 1..m /\ n - 1 \in 0..m
  BY <1>a, <1>b, <1>0
<1>2. \A k : k \in 1..n <=> k \in 1..(n - 1) \/ k = n
  BY <1>a, <1>b, <1>1
<1>3. n \notin 1..(n - 1) /\ \A k \in Int : k > n => k > n - 1
  BY <1>a, <1>b, <1>1
<1>4. \A k : k \in Living(f) <=> k \in Living(o) /\ k # n
  BY <1>a, <1>b, <1>2, <1>3 DEF Living
<1> DEFINE G == S \ (K \cup Living(o))
           H == S \ (J \cup Living(f))
<1>5. Cardinality(H) <= d
  <2>1. CASE d = l
    <3>1. H \subseteq G \cup {}
      BY <1>a, <1>b, <1>0, <1>1, <1>2, <1>4, <2>1 DEF Living
    <3>2. G \in SUBSET S /\ H \in SUBSET S /\ {} \in SUBSET S
      BY <1>a, <1>b
    <3> HIDE DEF G, H
    <3>3. Cardinality(H) <= l + Cardinality({})
      BY <1>a, <1>b, <1>0, <1>1, <3>1, <3>2, MoreLost DEF G
    <3>4. l + Cardinality({}) = l
      BY <1>a, FS_EmptySet
    <3> QED BY <1>a, <1>b, <2>1, <3>3, <3>4
  <2>2. CASE d = l + 1 /\ n \in S /\ J = K
    <3>1. H \subseteq G \cup {n}
      BY <1>a, <1>b, <1>4, <2>2
    <3>2. G \in SUBSET S /\ H \in SUBSET S /\ {n} \in SUBSET S
      BY <1>a, <1>b, <2>2
    <3> HIDE DEF G, H
    <3>3. Cardinality(H) <= l + Cardinality({n})
      BY <1>a, <1>b, <1>0, <1>1, <3>1, <3>2, MoreLost DEF G
    <3>4. Cardinality({n}) = 1
      BY FS_Singleton
    <3> QED BY <1>a, <1>b, <2>2, <3>3, <3>4
  <2> QED BY <1>a, <1>b, <2>1, <2>2
<1>6. J \subseteq S /\ \A k \in J : k > n - 1
  <2>1. n > n - 1 /\ \A k \in 1..m : k > n => k > n - 1
    BY <1>a, <1>b, <1>1
  <2>2. \A k \in K : k \in 1..m /\ k > n
    BY <1>a, <1>b, <1>0
  <2>3. J \subseteq K \cup {n} /\ J \subseteq S
    BY <1>a, <1>b, <1>0
  <2> QED BY <1>a, <1>b, <2>1, <2>2, <2>3
<1>7. t = "done" => n - 1 = 0 /\ m > 0
  BY <1>a, <1>b, <1>1
<1>8. t \notin {"none", "calling"}
  BY <1>a, <1>b
<1>9. \A k \in 1..(n - 1) : f[k].sampled <=> k \in S
  BY <1>a, <1>b, <1>0, <1>1, <1>2
<1>10. \A k \in S : ProcessOf(k) \in T /\ \A j \in k..m : Connected(T, k, j) => j \in S
  BY DEF Spans
<1> HIDE DEF G
<1> QED BY <1>a, <1>b, <1>0, <1>1, <1>5, <1>6, <1>7, <1>8, <1>9, <1>10 DEF Spans

(* The innermost span ends.                                                *)
LEMMA EndSpanKeeps ==
  ASSUME TracingInv, NEW r \in Requests, NEW arrives \in BOOLEAN, EndSpan(r, arrives)
  PROVE  TracingInv'
<1>1. PICK m, S : SpansOfRequest(r, m, S)
  BY DEF TracingInv
<1> DEFINE n == Len(open[r])
           x == open[r][n]
           y == [id |-> x.id, parent |-> x.parent, trace |-> x.trace]
<1>2. request[r] = "returning" /\ open[r] # <<>> /\ UNCHANGED <<env, own>>
  BY DEF EndSpan
<1>3. /\ IsSlice(open[r]) /\ n \in Nat \ {0} /\ Last(open[r]) = x /\ n \in 1..n
      /\ IsSlice(Front(open[r])) /\ Len(Front(open[r])) = n - 1
      /\ \A k \in 1..(n - 1) : Front(open[r])[k] = open[r][k] /\ k \in 1..n
  BY <1>2, FrontOf DEF TracingInv, OpenInv
<1>4. n \in 1..m /\ n \in 1..Depth /\ (x.sampled <=> n \in S) /\ \A k \in KeptCalls(r) : k > n
  <2>1. m \in 0..Depth /\ n \in 0..m /\ Depth \in Nat
    BY <1>1, Depths DEF SpansOfRequest, Spans
  <2>2. n \in 1..m /\ n \in 1..Depth
    BY <1>3, <2>1
  <2> QED BY <1>1, <1>3, <2>2 DEF SpansOfRequest, Spans
<1>5. OpenSpanIn(Tracers, r, n, x) /\ x.alive \in BOOLEAN /\ x.sampled \in BOOLEAN
  BY <1>3 DEF TracingInv, OpenInv, OpenSpanIn
<1>6. /\ open' = [open EXCEPT ![r] = Front(open[r])]
      /\ request' = [request EXCEPT ![r] = IF n = 1 THEN "done" ELSE "returning"]
  BY <1>2 DEF EndSpan
<1>7. \/ stored' = stored /\ lost' = lost /\ ~(x.alive /\ x.sampled)
      \/ x.sampled /\ lost' = lost /\ stored' = Append(stored, y)
      \/ x.sampled /\ stored' = stored /\ lost' = [lost EXCEPT ![r] = lost[r] + 1]
  <2>1. CASE x.alive
    <3>1. Export(r, x, arrives)
      BY <1>3, <2>1 DEF EndSpan
    <3> HIDE DEF n, x
    <3>2. lost \in [Requests -> Nat] /\ IsSlice(stored)
      BY DEF TracingInv, StoredInv
    <3> QED BY <3>1, <3>2, Exporting
  <2>2. CASE ~x.alive
    <3>1. stored' = stored /\ lost' = lost
      BY <1>3, <2>2 DEF EndSpan
    <3> QED BY <2>2, <3>1
  <2> QED BY <2>1, <2>2
<1> HIDE DEF n, x, y
<1>8. /\ StoredInv' /\ \A s : OwnKept(s)' = OwnKept(s) /\ (s # r => KeptCalls(s)' = KeptCalls(s))
      /\ KeptCalls(r)' = IF stored' = stored THEN KeptCalls(r) ELSE KeptCalls(r) \cup {n}
  <2>1. CASE stored' = stored
    BY <1>2, <2>1, SameStored DEF TracingInv
  <2>2. CASE stored' # stored
    <3>1. x.sampled /\ stored' = Append(stored, y)
      BY <1>7, <2>2
    <3>2. ProcessOf(n) \in Tracers
      BY <1>5, <3>1 DEF OpenSpanIn
    <3>3. y.id = <<r, n>> /\ StoredSpanIn(Tracers, r, n, y)
      BY <1>5, <3>2 DEF OpenSpanIn, StoredSpanIn, y
    <3>4. \A i \in 1..Len(stored) : stored[i].id # y.id
      <4> SUFFICES ASSUME NEW i \in 1..Len(stored), stored[i].id = y.id PROVE FALSE
        OBVIOUS
      <4>1. n \in KeptCalls(r)
        BY <1>4, <3>3 DEF KeptCalls
      <4>2. n > n
        BY <1>4, <4>1
      <4> QED BY <1>3, <4>2
    <3>5. /\ StoredInv'
          /\ \A s : KeptCalls(s)' = KeptCalls(s) \cup {l \in 1..Depth : y.id = <<s, l>>}
          /\ \A s : OwnKept(s)' = OwnKept(s) \cup {l \in 1..Depth : y.id = <<s, l, "own">>}
      <4>1. Tracers' = Tracers
        BY <1>2, SameTracers
      <4>2. StoredInv
        BY DEF TracingInv
      <4>3. stored' = Append(stored, y)
        BY <3>1
      <4>4. n \in 1..Depth
        BY <1>4
      <4>5. StoredSpanIn(Tracers, r, n, y)
        BY <3>3
      <4> QED BY <3>4, <4>1, <4>2, <4>3, <4>4, <4>5, Storing
    <3>6. \A s : {l \in 1..Depth : y.id = <<s, l, "own">>} = {}
      BY <3>3, Ids
    <3>7. \A s : s # r => {l \in 1..Depth : y.id = <<s, l>>} = {}
      BY <3>3, Ids
    <3>8. {l \in 1..Depth : y.id = <<r, l>>} = {n}
      BY <1>4, <3>3, Ids
    <3> QED BY <2>2, <3>5, <3>6, <3>7, <3>8
  <2> QED BY <2>1, <2>2
<1>9. ASSUME NEW t \in Requests, t # r PROVE lost'[t] = lost[t]
  BY <1>7, <1>9 DEF TracingInv
<1>10. /\ lost' \in [Requests -> Nat]
       /\ \/ lost'[r] = lost[r] /\ (stored' = stored => ~(x.alive /\ n \in S))
             /\ (stored' # stored => n \in S)
          \/ lost'[r] = lost[r] + 1 /\ stored' = stored /\ n \in S
  BY <1>4, <1>7 DEF TracingInv
<1>11. OpenInv'
  <2> SUFFICES ASSUME NEW t \in Requests
               PROVE  /\ IsSlice(open'[t])
                      /\ \A j \in 1..Len(open'[t]) : OpenSpanIn(Tracers, t, j, open'[t][j])
    BY <1>2, SameTracers DEF OpenInv
  <2>1. CASE t # r
    <3>1. open'[t] = open[t]
      BY <1>6, <2>1 DEF TracingInv
    <3> QED BY <3>1 DEF TracingInv, OpenInv
  <2>2. CASE t = r
    <3>1. open'[t] = Front(open[r])
      BY <1>6, <2>2 DEF TracingInv
    <3> QED BY <1>3, <2>2, <3>1 DEF TracingInv, OpenInv, n
  <2> QED BY <2>1, <2>2
<1>12. ASSUME NEW t \in Requests PROVE \E k, Q : SpansOfRequest(t, k, Q)'
  <2>1. CASE t # r
    <3>1. open'[t] = open[t] /\ request'[t] = request[t] /\ lost'[t] = lost[t]
      BY <1>6, <1>9, <2>1 DEF TracingInv
    <3>2. KeptCalls(t)' = KeptCalls(t) /\ OwnKept(t)' = OwnKept(t)
      BY <1>8, <2>1
    <3> QED BY <1>2, <3>1, <3>2, OthersKeep DEF TracingInv
  <2>2. CASE t = r
    <3>1. open'[r] = Front(open[r]) /\ request'[r] = IF n = 1 THEN "done" ELSE "returning"
      BY <1>6 DEF TracingInv
    <3>2. PICK f, g, J, d : f = open'[r] /\ g = request'[r] /\ J = KeptCalls(r)' /\ d = lost'[r]
      OBVIOUS
    <3> DEFINE o == open[r]
               l == lost[r]
               T == Tracers
               K == KeptCalls(r)
    <3>3. Spans(T, o, "returning", l, K, m, S) /\ IsSlice(o) /\ l \in Nat /\ n = Len(o) /\ n > 0
      BY <1>1, <1>2, <1>3 DEF SpansOfRequest, TracingInv, n
    <3>4. /\ Len(f) = n - 1 /\ (\A k \in 1..(n - 1) : f[k] = o[k]) /\ o[n].alive \in BOOLEAN
          /\ g = IF n = 1 THEN "done" ELSE "returning"
      BY <1>3, <1>5, <3>1, <3>2 DEF x
    <3>5. \/ J = K /\ d = l /\ ~(o[n].alive /\ n \in S)
          \/ J = K \cup {n} /\ d = l /\ n \in S
          \/ J = K /\ d = l + 1 /\ n \in S
      BY <1>8, <1>10, <3>2 DEF x
    <3> HIDE DEF o, l, T, K
    <3>6. Spans(T, f, g, d, J, m, S)
      <4>1. InnermostEnds(o, l, K, S, f, g, J, d)
        BY <3>3, <3>4, <3>5 DEF InnermostEnds
      <4> QED BY <3>3, <4>1, OneLessSpan
    <3>7. Spans(Tracers, open[r], request[r], lost[r], KeptCalls(r), m, S)'
      BY <1>2, <3>2, <3>6, SameTracers DEF T
    <3>8. SpanOwned(r, m, S)'
      <4>1. lost[r] > 0 => lost'[r] > 0
        BY <1>10 DEF TracingInv
      <4> QED BY <1>1, <1>2, <1>8, <4>1, SameTracers DEF SpansOfRequest, SpanOwned
    <3>9. SpansOfRequest(r, m, S)'
      BY <3>7, <3>8 DEF SpansOfRequest
    <3> QED BY <2>2, <3>9
  <2> QED BY <2>1, <2>2
<1>13. request' \in [Requests -> States] /\ open' = [t \in Requests |-> open'[t]]
  BY <1>6 DEF TracingInv, States
<1> QED BY <1>2, <1>8, <1>10, <1>11, <1>12, <1>13 DEF TracingInv


(* A span whose process ends keeps all but its life.                       *)
Dead(s) == [s EXCEPT !.alive = FALSE]

(* So it stays what it is.                                                 *)
LEMMA DeadSpan ==
  ASSUME NEW T, NEW r, NEW k, NEW s, OpenSpanIn(T, r, k, s)
  PROVE  OpenSpanIn(T, r, k, Dead(s)) /\ Dead(s).alive = FALSE /\ Dead(s).sampled = s.sampled
<1> DEFINE d == Dead(s)
<1>0. d = [s EXCEPT !.alive = FALSE]
  BY DEF Dead
<1> HIDE DEF d
<1>1. {"id", "alive", "sampled"} \subseteq DOMAIN s
  BY DEF OpenSpanIn
<1>2. DOMAIN d = DOMAIN s /\ d.id = s.id /\ d.sampled = s.sampled /\ d.alive = FALSE
  BY <1>0, <1>1
<1>3. {"parent", "trace"} \subseteq DOMAIN s => d.parent = s.parent /\ d.trace = s.trace
  BY <1>0
<1>4. OpenSpanIn(T, r, k, d)
  BY <1>1, <1>2, <1>3 DEF OpenSpanIn
<1> QED BY <1>2, <1>4 DEF d

(* The living spans in D die.                                              *)
SpansDie(o, q, l, S, D, f, t, d) ==
  /\ l \in Nat /\ D \subseteq Living(o) /\ Len(f) = Len(o)
  /\ \A k \in 1..Len(o) : /\ f[k].sampled = o[k].sampled
                          /\ f[k].alive <=> o[k].alive /\ k \notin D
  /\ t \in {q, "returning"}
  /\ d = l + Cardinality(D \cap S)

(* They are counted if they were sampled.                                  *)
LEMMA LessLiving ==
  ASSUME NEW T, NEW o, NEW q, NEW l, NEW K, NEW m, NEW S, Spans(T, o, q, l, K, m, S),
         NEW D, NEW f, NEW t, NEW d, SpansDie(o, q, l, S, D, f, t, d)
  PROVE  Spans(T, f, t, d, K, m, S) /\ d \in Nat /\ d >= l
<1>1. /\ l \in Nat /\ Len(f) = Len(o) /\ d = l + Cardinality(D \cap S) /\ t \in {q, "returning"}
      /\ D \subseteq Living(o)
      /\ \A k \in 1..Len(o) : /\ f[k].sampled = o[k].sampled
                              /\ f[k].alive <=> o[k].alive /\ k \notin D
  BY DEF SpansDie
<1>2. m \in Nat /\ S \in SUBSET (1..m) /\ Cardinality(S \ (K \cup Living(o))) <= l
  BY Depths DEF Spans
<1>3. \A k : k \in Living(f) <=> k \in Living(o) /\ k \notin D
  BY <1>1 DEF Living
<1> DEFINE G == S \ (K \cup Living(o))
           H == S \ (K \cup Living(f))
           C == D \cap S
<1>4. H \subseteq G \cup C /\ G \in SUBSET S /\ H \in SUBSET S /\ C \in SUBSET S
  BY <1>3
<1> HIDE DEF G, H, C
<1>5. Cardinality(C) \in Nat /\ Cardinality(H) <= l + Cardinality(C)
  BY <1>1, <1>2, <1>4, MoreLost DEF G
<1>6. Cardinality(H) <= d /\ d \in Nat /\ d >= l
  BY <1>1, <1>5 DEF C
<1>7. t \in {"none", "calling", "done"} => t = q
  BY <1>1
<1>8. \A k \in 1..Len(f) : f[k].sampled <=> k \in S
  BY <1>1 DEF Spans
<1> QED BY <1>1, <1>6, <1>7, <1>8 DEF Spans, H

(* A process ends.                                                         *)
LEMMA DieKeeps ==
  ASSUME TracingInv, NEW p \in Processes, Die(p)
  PROVE  TracingInv'
<1> DEFINE Its(r) == {k \in DOMAIN open[r] : open[r][k].process = p /\ open[r][k].alive}
<1>1. /\ UNCHANGED <<env, own, stored>>
      /\ open' = [r \in Requests |->
                    [k \in DOMAIN open[r] |->
                       IF k \in Its(r) THEN [open[r][k] EXCEPT !.alive = FALSE] ELSE open[r][k]]]
      /\ lost' = [r \in Requests |->
                    lost[r] + Cardinality({k \in Its(r) : open[r][k].sampled})]
      /\ request' = [r \in Requests |->
                       IF Len(open[r]) \in Its(r) THEN "returning" ELSE request[r]]
  BY DEF Die
<1>2. StoredInv' /\ \A r : KeptCalls(r)' = KeptCalls(r) /\ OwnKept(r)' = OwnKept(r)
  BY <1>1, SameStored DEF TracingInv
<1>3. ASSUME NEW r \in Requests
      PROVE  /\ IsSlice(open'[r])
             /\ \A k \in 1..Len(open'[r]) : OpenSpanIn(Tracers, r, k, open'[r][k])
             /\ \E m, S : SpansOfRequest(r, m, S)'
             /\ lost'[r] \in Nat /\ request'[r] \in States
  <2>1. PICK m, S : SpansOfRequest(r, m, S)
    BY DEF TracingInv
  <2>2. PICK D : D = Its(r)
    OBVIOUS
  <2>3. PICK o, q, l : o = open[r] /\ q = request[r] /\ l = lost[r]
    OBVIOUS
  <2>4. /\ IsSlice(o) /\ DOMAIN o = 1..Len(o) /\ \A k \in 1..Len(o) : OpenSpanIn(Tracers, r, k, o[k])
    BY <2>3, Slices DEF TracingInv, OpenInv
  <2>5. D = {k \in 1..Len(o) : o[k].process = p /\ o[k].alive}
    BY <2>2, <2>3, <2>4
  <2>6. PICK f, t, d : f = open'[r] /\ t = request'[r] /\ d = lost'[r]
    OBVIOUS
  <2>7. f = [k \in 1..Len(o) |-> IF k \in D THEN [o[k] EXCEPT !.alive = FALSE] ELSE o[k]]
    BY <1>1, <2>2, <2>3, <2>4, <2>6
  <2>8. t = (IF Len(o) \in D THEN "returning" ELSE q) /\ d = l + Cardinality({k \in D : o[k].sampled})
    BY <1>1, <2>2, <2>3, <2>6
  <2> HIDE DEF Its
  <2>9. IsSlice(f) /\ Len(f) = Len(o)
    BY <2>4, <2>7, ChangedSlice
  <2>10. ASSUME NEW k \in 1..Len(o)
         PROVE  /\ OpenSpanIn(Tracers, r, k, f[k]) /\ f[k].sampled = o[k].sampled
                /\ f[k].alive <=> o[k].alive /\ k \notin D
    <3>1. CASE k \in D
      <4>1. f[k] = Dead(o[k])
        BY <2>7, <3>1 DEF Dead
      <4>2. OpenSpanIn(Tracers, r, k, f[k]) /\ f[k].alive = FALSE /\ f[k].sampled = o[k].sampled
        <5>1. OpenSpanIn(Tracers, r, k, o[k])
          BY <2>4
        <5>2. /\ OpenSpanIn(Tracers, r, k, Dead(o[k]))
              /\ Dead(o[k]).alive = FALSE /\ Dead(o[k]).sampled = o[k].sampled
          <6>1. PICK s, T : s = o[k] /\ T = Tracers
            OBVIOUS
          <6>2. OpenSpanIn(T, r, k, s)
            BY <5>1, <6>1
          <6>3. OpenSpanIn(T, r, k, Dead(s)) /\ Dead(s).alive = FALSE /\ Dead(s).sampled = s.sampled
            BY <6>2, DeadSpan
          <6> QED BY <6>1, <6>3
        <5> QED BY <4>1, <5>2
      <4> QED BY <3>1, <4>2
    <3>2. CASE k \notin D
      BY <2>4, <2>7, <3>2
    <3> QED BY <3>1, <3>2
  <2>11. {k \in D : o[k].sampled} = D \cap S
    BY <2>1, <2>3, <2>5 DEF SpansOfRequest, Spans
  <2>12. D \subseteq Living(o) /\ l \in Nat
    BY <2>3, <2>5 DEF Living, TracingInv
  <2>13. SpansDie(o, q, l, S, D, f, t, d)
    BY <2>8, <2>9, <2>10, <2>11, <2>12 DEF SpansDie
  <2> DEFINE T == Tracers
             K == KeptCalls(r)
  <2>14. Spans(T, o, q, l, K, m, S)
    BY <2>1, <2>3 DEF SpansOfRequest
  <2> HIDE DEF T, K
  <2>15. Spans(T, f, t, d, K, m, S) /\ d \in Nat /\ d >= l
    BY <2>13, <2>14, LessLiving
  <2>16. Spans(Tracers, open[r], request[r], lost[r], KeptCalls(r), m, S)'
    BY <1>1, <1>2, <2>6, <2>15, SameTracers DEF T, K
  <2>17. SpanOwned(r, m, S)'
    <3>1. lost[r] > 0 => lost'[r] > 0
      BY <2>3, <2>6, <2>12, <2>15
    <3> QED BY <1>1, <1>2, <2>1, <3>1, SameTracers DEF SpansOfRequest, SpanOwned
  <2>18. SpansOfRequest(r, m, S)'
    BY <2>16, <2>17 DEF SpansOfRequest
  <2>19. request'[r] \in States
    BY <2>3, <2>6, <2>8 DEF TracingInv, States
  <2> QED BY <2>6, <2>9, <2>10, <2>15, <2>18, <2>19
<1>4. OpenInv'
  BY <1>1, <1>3, SameTracers DEF OpenInv
<1>5. lost' \in [Requests -> Nat] /\ request' \in [Requests -> States]
  BY <1>1, <1>3
<1>6. open' = [r \in Requests |-> open'[r]]
  BY <1>1
<1> QED BY <1>1, <1>2, <1>3, <1>4, <1>5, <1>6 DEF TracingInv


(* One may be lost more than is missing.                                   *)
LEMMA LostMore ==
  ASSUME NEW T, NEW o, NEW q, NEW l, l \in Nat, NEW K, NEW m, NEW S, Spans(T, o, q, l, K, m, S)
  PROVE  Spans(T, o, q, l + 1, K, m, S)
<1> DEFINE G == S \ (K \cup Living(o))
<1>1. m \in Nat /\ S \in SUBSET (1..m) /\ Cardinality(G) <= l /\ G \in SUBSET S
  BY Depths DEF Spans
<1> HIDE DEF G
<1>2. Cardinality(G) \in Nat
  BY <1>1, MoreLost
<1>3. Cardinality(G) <= l + 1
  BY <1>1, <1>2
<1> QED BY <1>3 DEF Spans, G

(* What a handler's own span is: below the server's.                       *)
LEMMA OwnSpan ==
  ASSUME OpenInv, NEW r \in Requests, NEW k, k = Len(open[r]), k \in 1..Depth,
         NEW p, p = ProcessOf(k), p \in Tracers, NEW ratio \in BOOLEAN,
         NEW s, s = Span(<<r, k, "own">>, p, Context(r), ratio)
  PROVE  /\ s.id = <<r, k, "own">> /\ s.parent = <<r, k>>
         /\ Tracers = Processes => s.trace = <<r, 1>>
         /\ AllBasic => s.sampled
<1> DEFINE c == Context(r)
<1>1. k > 0 /\ k <= Depth /\ p \in Processes
  BY Depths DEF Tracers
<1>2. /\ c # None /\ c.id = <<r, k>>
      /\ Tracers = Processes => c.trace = <<r, 1>>
  BY <1>1, ContextOf
<1> HIDE DEF c
<1>3. s.id = <<r, k, "own">> /\ s.parent = c.id /\ s.trace = c.trace /\ s.sampled = Sampled(p, c, ratio)
  BY <1>2 DEF Span, c
<1>4. AllBasic => s.sampled
  BY <1>1, <1>3 DEF AllBasic, Sampled
<1> QED BY <1>2, <1>3, <1>4

(* A handler has made a span of its own.                                   *)
LEMMA SpanOfItsOwnKeeps ==
  ASSUME TracingInv, NEW r \in Requests, NEW ratio \in BOOLEAN, NEW arrives \in BOOLEAN,
         SpanOfItsOwn(r, ratio, arrives)
  PROVE  TracingInv'
<1>1. PICK m, S : SpansOfRequest(r, m, S)
  BY DEF TracingInv
<1> DEFINE k == Len(open[r])
           p == ProcessOf(k)
           s == Span(<<r, k, "own">>, p, Context(r), ratio)
           y == [id |-> s.id, parent |-> s.parent, trace |-> s.trace]
<1>2. /\ request[r] = "calling" /\ k > 0 /\ Traced(p) /\ r \notin own
      /\ own' = own \cup {r} /\ Export(r, s, arrives) /\ UNCHANGED <<env, request, open>>
  BY DEF SpanOfItsOwn
<1>3. k = m /\ m \in 1..Depth /\ OwnKept(r) = {}
  <2>1. k = m /\ m \in 0..Depth /\ Depth \in Nat
    BY <1>1, <1>2, Depths DEF SpansOfRequest, Spans
  <2>2. OwnKept(r) = {}
    BY <1>1, <1>2 DEF SpansOfRequest, SpanOwned
  <2> QED BY <1>2, <2>1, <2>2
<1>4. p \in Processes /\ p \in Tracers
  BY <1>2, <1>3, Depths DEF Tracers
<1>5. /\ s.id = <<r, k, "own">> /\ s.parent = <<r, k>>
      /\ Tracers = Processes => s.trace = <<r, 1>>
      /\ AllBasic => s.sampled
  BY <1>3, <1>4, OwnSpan DEF TracingInv
<1> HIDE DEF s, p, k
<1>6. \/ ~s.sampled /\ stored' = stored /\ lost' = lost
      \/ s.sampled /\ lost' = lost /\ stored' = Append(stored, y)
      \/ s.sampled /\ stored' = stored /\ lost' = [lost EXCEPT ![r] = lost[r] + 1]
  <2>1. lost \in [Requests -> Nat] /\ IsSlice(stored)
    BY DEF TracingInv, StoredInv
  <2> QED BY <1>2, <2>1, Exporting
<1>7. y.id = <<r, k, "own">> /\ StoredSpanIn(Tracers, r, k, y)
  BY <1>5 DEF StoredSpanIn
<1> HIDE DEF y
<1>8. /\ StoredInv' /\ \A t : KeptCalls(t)' = KeptCalls(t) /\ (t # r => OwnKept(t)' = OwnKept(t))
      /\ OwnKept(r)' = IF stored' = stored THEN {} ELSE {k}
  <2>1. CASE stored' = stored
    BY <1>2, <1>3, <2>1, SameStored DEF TracingInv
  <2>2. CASE stored' # stored
    <3>1. stored' = Append(stored, y)
      BY <1>6, <2>2
    <3>2. k \in 1..Depth
      BY <1>3
    <3>3. \A i \in 1..Len(stored) : stored[i].id # y.id
      BY <1>3, <1>7, <3>2 DEF OwnKept
    <3>4. /\ StoredInv'
          /\ \A t : KeptCalls(t)' = KeptCalls(t) \cup {l \in 1..Depth : y.id = <<t, l>>}
          /\ \A t : OwnKept(t)' = OwnKept(t) \cup {l \in 1..Depth : y.id = <<t, l, "own">>}
      <4>1. Tracers' = Tracers
        BY <1>2, SameTracers
      <4>2. StoredInv
        BY DEF TracingInv
      <4>3. StoredSpanIn(Tracers, r, k, y)
        BY <1>7
      <4> QED BY <3>1, <3>2, <3>3, <4>1, <4>2, <4>3, Storing
    <3>5. \A t : {l \in 1..Depth : y.id = <<t, l>>} = {}
      BY <1>7, Ids
    <3>6. \A t : t # r => {l \in 1..Depth : y.id = <<t, l, "own">>} = {}
      BY <1>7, Ids
    <3>7. {l \in 1..Depth : y.id = <<r, l, "own">>} = {k}
      BY <1>7, <3>2, Ids
    <3> QED BY <1>3, <2>2, <3>4, <3>5, <3>6, <3>7
  <2> QED BY <2>1, <2>2
<1>9. OpenInv'
  BY <1>2, SameOpen DEF TracingInv
<1>10. /\ lost' \in [Requests -> Nat] /\ \A t \in Requests : t # r => lost'[t] = lost[t]
       /\ \/ lost'[r] = lost[r] /\ (AllBasic => stored' # stored)
          \/ lost'[r] = lost[r] + 1
  <2>1. lost \in [Requests -> Nat]
    BY DEF TracingInv
  <2>2. stored' = Append(stored, y) => stored' # stored
    <3>1. IsSlice(stored)
      BY DEF TracingInv, StoredInv
    <3>2. Len(Append(stored, y)) = Len(stored) + 1 /\ Len(stored) \in Nat
      BY <3>1, AppendedTo, Slices
    <3> QED BY <3>2
  <2> QED BY <1>5, <1>6, <2>1, <2>2
<1>11. ASSUME NEW t \in Requests PROVE \E n, Q : SpansOfRequest(t, n, Q)'
  <2>1. CASE t # r
    <3>1. lost'[t] = lost[t] /\ (t \in own' <=> t \in own) /\ KeptCalls(t)' = KeptCalls(t) /\ OwnKept(t)' = OwnKept(t)
      BY <1>2, <1>8, <1>10, <2>1
    <3> QED BY <1>2, <3>1, OthersKeep DEF TracingInv
  <2>2. CASE t = r
    <3>1. PICK l, d : l = lost[r] /\ d = lost'[r]
      OBVIOUS
    <3> DEFINE T == Tracers
               o == open[r]
               q == request[r]
               K == KeptCalls(r)
    <3>2. Spans(T, o, q, l, K, m, S) /\ l \in Nat /\ d \in {l, l + 1}
      BY <1>1, <1>10, <3>1 DEF SpansOfRequest, TracingInv
    <3> HIDE DEF T, o, q, K
    <3>3. Spans(T, o, q, d, K, m, S)
      <4>1. Spans(T, o, q, l + 1, K, m, S)
        BY <3>2, LostMore
      <4> QED BY <3>2, <4>1
    <3>4. Spans(Tracers, open[r], request[r], lost[r], KeptCalls(r), m, S)'
      BY <1>2, <1>8, <3>1, <3>3, SameTracers DEF T, o, q, K
    <3>5. SpanOwned(r, m, S)'
      <4>1. AllBasic => S = 1..m
        BY <1>1 DEF SpansOfRequest, SpanOwned
      <4>2. OwnKept(r)' \subseteq {k} /\ k \in 1..m
        BY <1>3, <1>8
      <4>3. AllBasic => OwnKept(r)' # {} \/ lost'[r] > 0
        <5>1. lost[r] \in Nat
          BY DEF TracingInv
        <5> QED BY <1>8, <1>10, <5>1
      <4> QED BY <1>2, <4>1, <4>2, <4>3, SameTracers DEF SpanOwned
    <3>6. SpansOfRequest(r, m, S)'
      BY <3>4, <3>5 DEF SpansOfRequest
    <3> QED BY <2>2, <3>6
  <2> QED BY <2>1, <2>2
<1> QED BY <1>2, <1>8, <1>9, <1>10, <1>11 DEF TracingInv

(* TracingInv is inductive.                                                *)
LEMMA TracingKeeps == TracingInv /\ [TracingNext]_tracingVars => TracingInv'
<1> SUFFICES ASSUME TracingInv, [TracingNext]_tracingVars PROVE TracingInv'
  OBVIOUS
<1>1. ASSUME NEW p \in Processes, Die(p) PROVE TracingInv'
  BY <1>1, DieKeeps
<1>2. ASSUME NEW r \in Requests, NEW ratio \in BOOLEAN, OpenSpan(r, ratio) PROVE TracingInv'
  BY <1>2, OpenSpanKeeps
<1>3. ASSUME NEW r \in Requests, Unavailable(r) PROVE TracingInv'
  BY <1>3, UnavailableKeeps
<1>4. ASSUME NEW r \in Requests, NEW ratio \in BOOLEAN, NEW arrives \in BOOLEAN,
             SpanOfItsOwn(r, ratio, arrives)
      PROVE  TracingInv'
  BY <1>4, SpanOfItsOwnKeeps
<1>5. ASSUME NEW r \in Requests, NEW arrives \in BOOLEAN, EndSpan(r, arrives) PROVE TracingInv'
  BY <1>5, EndSpanKeeps
<1>6. ASSUME UNCHANGED <<env, request, open, own, stored, lost>> PROVE TracingInv'
  <2>1. OpenInv' /\ StoredInv' /\ \A r : KeptCalls(r)' = KeptCalls(r) /\ OwnKept(r)' = OwnKept(r)
    BY <1>6, SameOpen, SameStored DEF TracingInv
  <2>2. \A r \in Requests : \E m, S : SpansOfRequest(r, m, S)'
    BY <1>6, <2>1, OthersKeep DEF TracingInv
  <2> QED BY <1>6, <2>1, <2>2 DEF TracingInv
<1>7. CASE TracingExited \/ UNCHANGED tracingVars
  BY <1>6, <1>7 DEF TracingExited, tracingVars
<1>8. ASSUME NEW p \in Processes, StartProcess(p) PROVE TracingInv'
  BY <1>6, <1>8 DEF StartProcess
<1> QED BY <1>1, <1>2, <1>3, <1>4, <1>5, <1>7, <1>8 DEF TracingNext


-------------------------------------------------------------------------------
(* The spans of a request that are stored, as the plotter sees them.       *)
LEMMA StoredOf ==
  ASSUME StoredInv, NEW r \in Requests, NEW i \in SpansOf(r)
  PROVE  i \in 1..Len(stored) /\ \E k \in 1..Depth : StoredSpanIn(Tracers, r, k, stored[i])
<1>1. i \in 1..Len(stored) /\ stored[i].id[1] = r
  BY Slices DEF SpansOf, StoredInv
<1>2. PICK s \in Requests, k \in 1..Depth : StoredSpanIn(Tracers, s, k, stored[i])
  BY <1>1 DEF StoredInv
<1>3. stored[i].id \in {<<s, k>>, <<s, k, "own">>}
  BY <1>2 DEF StoredSpanIn
<1>4. s = r
  BY <1>1, <1>3, Ids
<1> QED BY <1>1, <1>2, <1>4

(* Of a call's span that is stored there is a position, which is mapped.   *)
LEMMA KeptAt ==
  ASSUME StoredInv, NEW r \in Requests, NEW k
  PROVE  /\ k \in KeptCalls(r) => \E i \in SpansOf(r) : stored[i].id = <<r, k>> /\ i \in Plotter!Mapped(stored)
         /\ k \in OwnKept(r) => \E i \in SpansOf(r) : stored[i].id = <<r, k, "own">>
<1>1. DOMAIN stored = 1..Len(stored) /\ Len(stored) \in Nat
  BY Slices DEF StoredInv
<1>2. \A i \in 1..Len(stored) : i \in Plotter!Mapped(stored)
  <2> SUFFICES ASSUME NEW i \in 1..Len(stored), NEW j \in 1..Len(stored), stored[j].id = stored[i].id
               PROVE  j <= i
    BY <1>1 DEF Plotter!Mapped
  <2>1. j = i
    BY DEF StoredInv
  <2> QED BY <1>1, <2>1
<1>3. \A i \in 1..Len(stored) : stored[i].id \in {<<r, k>>, <<r, k, "own">>} => i \in SpansOf(r)
  BY <1>1, Ids DEF SpansOf
<1> QED BY <1>2, <1>3 DEF KeptCalls, OwnKept

(* A root is a span whose parent was not stored.                           *)
LEMMA RootOf ==
  ASSUME StoredInv, NEW r \in Requests, NEW i \in RootsOf(r), NEW k \in 1..Depth,
         StoredSpanIn(Tracers, r, k, stored[i])
  PROVE  \/ /\ stored[i].id = <<r, k>> /\ k \in KeptCalls(r)
            /\ k > 1 /\ ProcessOf(k - 1) \in Tracers => k - 1 \notin KeptCalls(r)
         \/ stored[i].id = <<r, k, "own">> /\ k \in OwnKept(r) /\ k \notin KeptCalls(r)
<1>1. i \in SpansOf(r) /\ Plotter!Parent(stored, i) = {} /\ i \in 1..Len(stored)
  BY StoredOf DEF RootsOf, Plotter!Roots
<1>2. \A l : stored[i].parent = <<r, l>> => l \notin KeptCalls(r)
  <2> SUFFICES ASSUME NEW l, stored[i].parent = <<r, l>>, l \in KeptCalls(r) PROVE FALSE
    OBVIOUS
  <2>1. PICK j \in SpansOf(r) : stored[j].id = <<r, l>> /\ j \in Plotter!Mapped(stored)
    BY KeptAt
  <2>2. j \in Plotter!Parent(stored, i)
    BY <2>1 DEF Plotter!Parent
  <2> QED BY <1>1, <2>2
<1>3. CASE stored[i].id = <<r, k>> /\ stored[i].parent = ParentIn(Tracers, r, k)
  <2>1. k \in KeptCalls(r)
    BY <1>1, <1>3 DEF KeptCalls
  <2>2. k > 1 /\ ProcessOf(k - 1) \in Tracers => stored[i].parent = <<r, k - 1>>
    BY <1>3 DEF ParentIn
  <2> QED BY <1>2, <1>3, <2>1, <2>2
<1>4. CASE stored[i].id = <<r, k, "own">> /\ stored[i].parent = <<r, k>>
  <2>1. k \in OwnKept(r)
    BY <1>1, <1>4 DEF OwnKept
  <2> QED BY <1>2, <1>4, <2>1
<1> QED BY <1>3, <1>4 DEF StoredSpanIn

(* What relates each of a set to one of another, and none of the other to  *)
(* two.                                                                    *)
LEMMA NoMoreThan ==
  ASSUME NEW A, NEW B, IsFiniteSet(B), NEW P,
         \A a \in A : \E b \in B : <<a, b>> \in P,
         \A a, c \in A : \A b \in B : <<a, b>> \in P /\ <<c, b>> \in P => a = c
  PROVE  IsFiniteSet(A) /\ Cardinality(A) <= Cardinality(B)
<1> DEFINE f == [a \in A |-> CHOOSE b \in B : <<a, b>> \in P]
<1>1. \A a \in A : f[a] \in B /\ <<a, f[a]>> \in P
  OBVIOUS
<1>2. f \in [A -> B]
  BY <1>1
<1>3. \A a, c \in A : f[a] = f[c] => a = c
  BY <1>1
<1> HIDE DEF f
<1>4. f \in Injection(A, B)
  BY <1>2, <1>3 DEF Injection, IsInjective
<1> QED BY <1>4, FS_Injection

(* A set of numbers has a least one.                                       *)
LEMMA LeastNumber ==
  ASSUME NEW T \in SUBSET Nat, T # {}
  PROVE  \E k \in T : \A m \in T : k <= m
<1> DEFINE R == OpToRel(<, Nat)
<1>1. IsWellFoundedOn(R, Nat)
  BY NatLessThanWellFounded
<1>2. \A k, m \in Nat : m < k => <<m, k>> \in R
  BY DEF OpToRel
<1> HIDE DEF R
<1>3. PICK k \in T : \A m \in T : ~(<<m, k>> \in R)
  BY <1>1, WFMin
<1>4. k \in Nat /\ \A m \in T : m \in Nat /\ ~(m < k)
  BY <1>2, <1>3
<1> QED BY <1>4

(* Where the part of the chain that is traced and ends with a process      *)
(* begins.                                                                 *)
EntryOf(T, p, e) == e \in Nat \ {0} /\ e <= p /\ (\A q \in e..p : q \in T) /\ (e > 1 => e - 1 \notin T)

(* There is one.                                                           *)
LEMMA HasEntry ==
  ASSUME NEW T, NEW p \in Nat \ {0}, p \in T
  PROVE  \E e : EntryOf(T, p, e)
<1> DEFINE F == {e \in 1..p : \A q \in e..p : q \in T}
<1>1. p \in F /\ F \in SUBSET Nat
  <2>1. \A q \in p..p : q = p
    OBVIOUS
  <2> QED BY <2>1
<1> HIDE DEF F
<1>2. PICK e \in F : \A q \in F : e <= q
  BY <1>1, LeastNumber
<1>3. e \in 1..p /\ \A q \in e..p : q \in T
  BY <1>2 DEF F
<1>4. ASSUME e > 1, e - 1 \in T PROVE FALSE
  <2>1. e - 1 \in 1..p /\ \A q \in (e - 1)..p : q = e - 1 \/ q \in e..p
    BY <1>3, <1>4
  <2>2. e - 1 \in F
    BY <1>3, <1>4, <2>1 DEF F
  <2>3. e <= e - 1
    BY <1>2, <2>2
  <2> QED BY <1>3, <2>3
<1>5. EntryOf(T, p, e)
  BY <1>3, <1>4 DEF EntryOf
<1> QED BY <1>5


(* No two of the first spans of parts of the chain share an entry.         *)
LEMMA OnePerEntry ==
  ASSUME NEW T, NEW k \in 1..Depth, NEW l \in 1..Depth, NEW e,
         EntryOf(T, ProcessOf(k), e), EntryOf(T, ProcessOf(l), e)
  PROVE  Connected(T, k, l)
<1>1. ProcessOf(k) \in Nat /\ ProcessOf(l) \in Nat
  BY Depths
<1>2. e \in Nat /\ e <= ProcessOf(k) /\ \A q \in e..ProcessOf(l) : q \in T
  BY DEF EntryOf
<1>3. ProcessOf(k)..ProcessOf(l) \subseteq e..ProcessOf(l)
  BY <1>1, <1>2
<1> QED BY <1>2, <1>3 DEF Connected

(* A stored span that another before it would lead to follows one that was *)
(* sampled but is neither stored nor open any more.                        *)
LEMMA Severed ==
  ASSUME NEW T, NEW o, NEW q, NEW l, NEW K, NEW m, NEW S, Spans(T, o, q, l, K, m, S),
         NEW j \in K, NEW k \in K, j < k, Connected(T, j, k),
         k > 1 /\ ProcessOf(k - 1) \in T => k - 1 \notin K
  PROVE  k - 1 \in S \ (K \cup Living(o))
<1>1. /\ m \in 0..Depth /\ S \subseteq 1..m /\ Len(o) \in 0..m /\ K \subseteq S /\ j > Len(o)
      /\ \A i \in j..m : Connected(T, j, i) => i \in S
  BY DEF Spans
<1>2. j \in 1..m /\ k \in 1..m /\ Depth \in Nat
  BY <1>1, Depths
<1>3. /\ k > 1 /\ k - 1 \in j..m /\ k - 1 > Len(o)
      /\ j \in 1..Depth /\ k \in 1..Depth /\ k - 1 \in 1..Depth /\ k - 1 <= k /\ j <= k - 1
  BY <1>1, <1>2
<1>4. /\ ProcessOf(j) \in Nat /\ ProcessOf(k - 1) \in Nat /\ ProcessOf(k) \in Nat
      /\ ProcessOf(j) <= ProcessOf(k - 1) /\ ProcessOf(k - 1) <= ProcessOf(k)
  <2>1. j \in Nat /\ k - 1 \in Nat /\ k \in Nat
    BY <1>2, <1>3
  <2> QED BY <1>3, <2>1, Depths
<1>5. /\ ProcessOf(j)..ProcessOf(k - 1) \subseteq ProcessOf(j)..ProcessOf(k)
      /\ ProcessOf(k - 1) \in ProcessOf(j)..ProcessOf(k)
  BY <1>4
<1>6. Connected(T, j, k - 1) /\ ProcessOf(k - 1) \in T
  BY <1>5 DEF Connected
<1>7. k - 1 \in S /\ k - 1 \notin K
  BY <1>1, <1>3, <1>6
<1>8. k - 1 \notin Living(o)
  BY <1>1, <1>3 DEF Living
<1> QED BY <1>7, <1>8

(* OneTreePerEntry follows from the invariant.                             *)
LEMMA TreesOfRequest ==
  ASSUME TracingInv, NEW r \in Requests
  PROVE  Cardinality(RootsOf(r)) <= Cardinality(Entries) + lost[r] + Cardinality(own \cap {r})
<1> DEFINE T == Tracers
           id(i) == stored[i].id
           K == KeptCalls(r)
           o == open[r]
           Lead == {k \in K : \A j \in K : j < k => ~Connected(T, j, k)}
           A == {i \in RootsOf(r) : \E k \in Lead : id(i) = <<r, k>>}
           B == {i \in RootsOf(r) : \E k \in K \ Lead : id(i) = <<r, k>>}
           C == {i \in RootsOf(r) : \E k \in OwnKept(r) : id(i) = <<r, k, "own">>}
<1>1. PICK m, S : SpansOfRequest(r, m, S)
  BY DEF TracingInv
<1> DEFINE G == S \ (K \cup Living(o))
<1>2. StoredInv
  BY DEF TracingInv
<1>3. Spans(T, o, request[r], lost[r], K, m, S)
  BY <1>1 DEF SpansOfRequest
<1>4. /\ K \subseteq S /\ S \in SUBSET (1..m) /\ m \in Nat /\ Cardinality(G) <= lost[r]
      /\ \A k \in K : ProcessOf(k) \in T
  <2>1. K \subseteq S /\ S \subseteq 1..m /\ m \in Nat /\ Cardinality(G) <= lost[r]
    BY <1>3, Depths DEF Spans
  <2>2. \A k \in S : ProcessOf(k) \in T
    BY <1>3 DEF Spans
  <2> QED BY <2>1, <2>2
<1>5. \A i, j \in RootsOf(r) : id(i) = id(j) => i = j
  <2>1. \A i \in RootsOf(r) : i \in 1..Len(stored)
    BY <1>2, StoredOf DEF RootsOf
  <2> QED BY <1>2, <2>1 DEF StoredInv
<1>6. K \subseteq 1..Depth
  BY DEF KeptCalls
<1>7. \A i \in RootsOf(r) :
        \/ \E k \in K : /\ id(i) = <<r, k>>
                        /\ k > 1 /\ ProcessOf(k - 1) \in T => k - 1 \notin K
        \/ i \in C
  <2> SUFFICES ASSUME NEW i \in RootsOf(r)
               PROVE  \/ \E k \in K : /\ id(i) = <<r, k>>
                                      /\ k > 1 /\ ProcessOf(k - 1) \in T => k - 1 \notin K
                      \/ i \in C
    OBVIOUS
  <2>1. i \in SpansOf(r)
    BY DEF RootsOf
  <2>2. PICK k \in 1..Depth : StoredSpanIn(Tracers, r, k, stored[i])
    BY <1>2, <2>1, StoredOf
  <2> QED BY <1>2, <2>2, RootOf
<1> HIDE DEF T, id, K, o, Lead
<1>8. RootsOf(r) = A \cup B \cup C
  BY <1>7
<1>9. IsFiniteSet(Entries) /\ IsFiniteSet(A) /\ Cardinality(A) <= Cardinality(Entries)
  <2>1. IsFiniteSet(Entries)
    <3>1. IsFiniteSet(1..N) /\ Entries \in SUBSET (1..N)
      BY FS_Interval, TracingAssumption DEF Entries, Processes
    <3> QED BY <3>1, FS_Subset
  <2> DEFINE P == {x \in A \X Entries :
                     \E k \in Lead : id(x[1]) = <<r, k>> /\ EntryOf(T, ProcessOf(k), x[2])}
  <2>2. ASSUME NEW i \in A PROVE \E e \in Entries : <<i, e>> \in P
    <3>1. PICK k \in Lead : id(i) = <<r, k>>
      OBVIOUS
    <3>2. k \in K /\ k \in 1..Depth
      BY <1>6 DEF Lead
    <3>3. ProcessOf(k) \in T /\ ProcessOf(k) \in 1..N
      BY <1>4, <3>2, Depths DEF Processes
    <3>4. ProcessOf(k) \in Nat \ {0}
      BY <3>3, TracingAssumption
    <3>5. PICK e : EntryOf(T, ProcessOf(k), e)
      BY <3>3, <3>4, HasEntry
    <3>6. e \in Entries
      <4>1. e \in 1..N /\ e \in T /\ (e > 1 => e - 1 \notin T /\ e - 1 \in 1..N)
        BY <3>3, <3>5, TracingAssumption DEF EntryOf
      <4> QED BY <4>1 DEF Entries, T, Tracers, Processes
    <3> QED BY <3>1, <3>5, <3>6
  <2>3. ASSUME NEW i \in A, NEW j \in A, NEW e \in Entries, <<i, e>> \in P, <<j, e>> \in P
        PROVE  i = j
    <3>1. PICK k \in Lead : id(i) = <<r, k>> /\ EntryOf(T, ProcessOf(k), e)
      BY <2>3
    <3>2. PICK l \in Lead : id(j) = <<r, l>> /\ EntryOf(T, ProcessOf(l), e)
      BY <2>3
    <3>3. k \in K /\ l \in K /\ k \in 1..Depth /\ l \in 1..Depth
      BY <1>6 DEF Lead
    <3>4. Connected(T, k, l) /\ Connected(T, l, k)
      BY <3>1, <3>2, <3>3, OnePerEntry
    <3>5. ~(k < l) /\ ~(l < k)
      BY <3>3, <3>4 DEF Lead
    <3>6. k = l
      BY <3>3, <3>5
    <3> QED BY <1>5, <3>1, <3>2, <3>6
  <2> HIDE DEF P, A
  <2>4. IsFiniteSet(A) /\ Cardinality(A) <= Cardinality(Entries)
    BY <2>1, <2>2, <2>3, NoMoreThan
  <2> QED BY <2>1, <2>4
<1>10. IsFiniteSet(B) /\ Cardinality(B) <= lost[r]
  <2>1. IsFiniteSet(G) /\ Cardinality(G) \in Nat
    <3>1. G \subseteq S
      OBVIOUS
    <3>2. S \in SUBSET (1..m) /\ m \in Int
      BY <1>4
    <3>3. IsFiniteSet(1..m)
      BY <3>2, FS_Interval
    <3> HIDE DEF G
    <3>4. G \in SUBSET (1..m)
      BY <3>1, <3>2
    <3> QED BY <3>3, <3>4, FS_Subset, FS_CardinalityType
  <2> DEFINE P == {x \in B \X G : \E k \in K : id(x[1]) = <<r, k>> /\ x[2] = k - 1}
  <2>2. ASSUME NEW i \in B PROVE \E g \in G : <<i, g>> \in P
    <3>1. PICK k \in K \ Lead : id(i) = <<r, k>>
      OBVIOUS
    <3>2. k > 1 /\ ProcessOf(k - 1) \in T => k - 1 \notin K
      <4>1. i \in RootsOf(r)
        OBVIOUS
      <4>2. i \notin C
        BY <3>1, Ids DEF id
      <4>3. PICK j \in K : /\ id(i) = <<r, j>>
                           /\ j > 1 /\ ProcessOf(j - 1) \in T => j - 1 \notin K
        BY <1>7, <4>1, <4>2
      <4>4. j = k
        BY <3>1, <4>3, Ids
      <4> QED BY <4>3, <4>4
    <3>3. PICK j \in K : j < k /\ Connected(T, j, k)
      BY <3>1 DEF Lead
    <3>4. k - 1 \in G
      BY <1>3, <3>1, <3>2, <3>3, Severed
    <3> QED BY <3>1, <3>4
  <2>3. ASSUME NEW i \in B, NEW j \in B, NEW g \in G, <<i, g>> \in P, <<j, g>> \in P
        PROVE  i = j
    <3>1. PICK k \in K : id(i) = <<r, k>> /\ g = k - 1
      BY <2>3
    <3>2. PICK l \in K : id(j) = <<r, l>> /\ g = l - 1
      BY <2>3
    <3>3. k \in 1..m /\ l \in 1..m
      BY <1>4
    <3>4. k = l
      BY <1>4, <3>1, <3>2, <3>3
    <3> QED BY <1>5, <3>1, <3>2, <3>4
  <2> HIDE DEF P, B, G
  <2>4. IsFiniteSet(B) /\ Cardinality(B) <= Cardinality(G)
    BY <2>1, <2>2, <2>3, NoMoreThan
  <2>5. Cardinality(B) \in Nat /\ lost[r] \in Nat
    BY <2>4, FS_CardinalityType DEF TracingInv
  <2> QED BY <1>4, <2>1, <2>4, <2>5 DEF G
<1>11. IsFiniteSet(C) /\ IsFiniteSet(own \cap {r}) /\ Cardinality(C) <= Cardinality(own \cap {r})
  <2>1. IsFiniteSet(own \cap {r})
    <3>1. IsFiniteSet({r}) /\ own \cap {r} \in SUBSET {r}
      BY FS_Singleton
    <3> QED BY <3>1, FS_Subset
  <2>2. (\A k, l \in OwnKept(r) : k = l) /\ (OwnKept(r) # {} => r \in own)
    BY <1>1 DEF SpansOfRequest, SpanOwned
  <2> DEFINE Q == own \cap {r}
             P == C \X Q
  <2>3. \A i \in C : \E q \in Q : <<i, q>> \in P
    BY <2>2
  <2>4. \A i, j \in C : \A q \in Q : <<i, q>> \in P /\ <<j, q>> \in P => i = j
    <3> SUFFICES ASSUME NEW i \in C, NEW j \in C PROVE i = j
      OBVIOUS
    <3>1. id(i) = id(j)
      BY <2>2
    <3> QED BY <1>5, <3>1
  <2>5. IsFiniteSet(Q)
    BY <2>1
  <2> HIDE DEF P, Q, C
  <2>6. IsFiniteSet(C) /\ Cardinality(C) <= Cardinality(Q)
    BY <2>3, <2>4, <2>5, NoMoreThan
  <2> QED BY <2>1, <2>6 DEF Q
<1> HIDE DEF A, B, C
<1>12. \A X, Y : IsFiniteSet(X) /\ IsFiniteSet(Y) =>
         /\ IsFiniteSet(X \cup Y) /\ Cardinality(X \cup Y) \in Nat
         /\ Cardinality(X \cup Y) <= Cardinality(X) + Cardinality(Y)
  <2> SUFFICES ASSUME NEW X, NEW Y, IsFiniteSet(X), IsFiniteSet(Y)
               PROVE  /\ IsFiniteSet(X \cup Y) /\ Cardinality(X \cup Y) \in Nat
                      /\ Cardinality(X \cup Y) <= Cardinality(X) + Cardinality(Y)
    OBVIOUS
  <2>1. IsFiniteSet(X \cup Y) /\ Cardinality(X \cup Y) = Cardinality(X) + Cardinality(Y) - Cardinality(X \cap Y)
    BY FS_Union
  <2>2. IsFiniteSet(X \cap Y)
    BY FS_Subset
  <2>3. Cardinality(X) \in Nat /\ Cardinality(Y) \in Nat /\ Cardinality(X \cap Y) \in Nat /\ Cardinality(X \cup Y) \in Nat
    BY <2>1, <2>2, FS_CardinalityType
  <2> QED BY <2>1, <2>3
<1>13. /\ IsFiniteSet(A \cup B) /\ Cardinality(A \cup B) \in Nat
       /\ Cardinality(A \cup B) <= Cardinality(A) + Cardinality(B)
  BY <1>9, <1>10, <1>12
<1>14. Cardinality((A \cup B) \cup C) <= Cardinality(A \cup B) + Cardinality(C)
       /\ Cardinality((A \cup B) \cup C) \in Nat
  BY <1>11, <1>12, <1>13
<1>15. /\ Cardinality(A) \in Nat /\ Cardinality(B) \in Nat /\ Cardinality(C) \in Nat
       /\ Cardinality(Entries) \in Nat /\ Cardinality(own \cap {r}) \in Nat /\ lost[r] \in Nat
  BY <1>9, <1>10, <1>11, FS_CardinalityType DEF TracingInv
<1> QED BY <1>8, <1>9, <1>10, <1>11, <1>13, <1>14, <1>15

(* What a request that has come back has stored, if nothing has got lost.  *)
LEMMA AllKept ==
  ASSUME TracingInv, NEW r \in Requests, AllBasic, request[r] = "done", lost[r] = 0
  PROVE  \E m \in Nat : /\ m > 0 /\ KeptCalls(r) = 1..m /\ OwnKept(r) \subseteq 1..m
                        /\ r \in own => OwnKept(r) # {}
<1>1. PICK m, S : SpansOfRequest(r, m, S)
  BY DEF TracingInv
<1>2. /\ m \in Nat /\ m > 0 /\ Len(open[r]) = 0 /\ KeptCalls(r) \subseteq S /\ S \in SUBSET (1..m)
      /\ Cardinality(S \ (KeptCalls(r) \cup Living(open[r]))) <= 0
  BY <1>1, Depths DEF SpansOfRequest, Spans
<1>3. Living(open[r]) = {}
  BY <1>2 DEF Living
<1>4. S = 1..m /\ OwnKept(r) \subseteq 1..m /\ (r \in own => OwnKept(r) # {})
  BY <1>1 DEF SpansOfRequest, SpanOwned
<1> DEFINE G == S \ KeptCalls(r)
<1>5. Cardinality(G) <= 0 /\ G \in SUBSET S
  BY <1>2, <1>3
<1> HIDE DEF G
<1>6. IsFiniteSet(G) /\ Cardinality(G) \in Nat
  BY <1>2, <1>5, MoreLost
<1>7. G = {}
  BY <1>5, <1>6, FS_EmptySet
<1> QED BY <1>2, <1>4, <1>7 DEF G

(* WholeTrees follows from the invariant.                                  *)
LEMMA WholeTree ==
  ASSUME TracingInv, NEW r \in Requests, AllBasic, request[r] = "done", lost[r] = 0
  PROVE  LET ids == {stored[i].id : i \in SpansOf(r)} IN
         /\ {stored[i].id : i \in RootsOf(r)} = {<<r, 1>>}
         /\ \A i \in SpansOf(r) : stored[i].trace = <<r, 1>>
         /\ \A k \in 1..Depth : <<r, k>> \in ids => \A j \in 1..k : <<r, j>> \in ids
         /\ r \in own => \E k \in 1..Depth : {<<r, k>>, <<r, k, "own">>} \subseteq ids
<1>0. PICK ids : ids = {stored[i].id : i \in SpansOf(r)}
  OBVIOUS
<1>1. PICK m \in Nat : m > 0 /\ KeptCalls(r) = 1..m /\ OwnKept(r) \subseteq 1..m /\ (r \in own => OwnKept(r) # {})
  BY AllKept
<1>2. StoredInv /\ Tracers = Processes
  BY DEF TracingInv, AllBasic, Tracers
<1>3. \A k : (k \in 1..m => <<r, k>> \in ids) /\ (k \in OwnKept(r) => <<r, k, "own">> \in ids)
  BY <1>0, <1>1, <1>2, KeptAt
<1>4. ASSUME NEW k \in 1..Depth, <<r, k>> \in ids PROVE k \in 1..m
  <2>1. PICK i \in SpansOf(r) : stored[i].id = <<r, k>>
    BY <1>0, <1>4
  <2>2. k \in KeptCalls(r)
    BY <1>2, <2>1, StoredOf DEF KeptCalls
  <2> QED BY <1>1, <2>2
<1>5. \A k \in 1..Depth : <<r, k>> \in ids => \A j \in 1..k : <<r, j>> \in ids
  <2> SUFFICES ASSUME NEW k \in 1..Depth, <<r, k>> \in ids, NEW j \in 1..k PROVE <<r, j>> \in ids
    OBVIOUS
  <2>1. j \in 1..m
    BY <1>4
  <2> QED BY <1>3, <2>1
<1>6. \A i \in SpansOf(r) : stored[i].trace = <<r, 1>>
  BY <1>2, StoredOf DEF StoredSpanIn
<1>7. r \in own => \E k \in 1..Depth : {<<r, k>>, <<r, k, "own">>} \subseteq ids
  <2> SUFFICES ASSUME r \in own PROVE \E k \in 1..Depth : {<<r, k>>, <<r, k, "own">>} \subseteq ids
    OBVIOUS
  <2>1. PICK k \in OwnKept(r) : TRUE
    BY <1>1
  <2>2. k \in 1..m /\ k \in 1..Depth
    BY <1>1 DEF OwnKept
  <2> QED BY <1>3, <2>2
<1>8. ASSUME NEW i \in RootsOf(r) PROVE stored[i].id = <<r, 1>>
  <2>1. PICK k \in 1..Depth : StoredSpanIn(Tracers, r, k, stored[i])
    BY <1>2, StoredOf DEF RootsOf
  <2>2. \/ /\ stored[i].id = <<r, k>> /\ k \in 1..m
           /\ k > 1 /\ ProcessOf(k - 1) \in Processes => k - 1 \notin 1..m
        \/ stored[i].id = <<r, k, "own">> /\ k \in OwnKept(r) /\ k \notin 1..m
    BY <1>1, <1>2, <2>1, RootOf
  <2>3. k > 1 => ProcessOf(k - 1) \in Processes /\ (k \in 1..m => k - 1 \in 1..m)
    <3>1. k > 1 => k - 1 \in 1..Depth /\ (k \in 1..m => k - 1 \in 1..m)
      BY Depths
    <3> QED BY <3>1, Depths
  <2>4. stored[i].id = <<r, k>> /\ k = 1
    BY <1>1, <2>2, <2>3
  <2> QED BY <2>4
<1>9. \E i \in RootsOf(r) : stored[i].id = <<r, 1>>
  <2>1. 1 \in KeptCalls(r)
    BY <1>1
  <2>2. PICK i \in SpansOf(r) : stored[i].id = <<r, 1>> /\ i \in Plotter!Mapped(stored)
    BY <1>2, <2>1, KeptAt
  <2>3. PICK k \in 1..Depth : StoredSpanIn(Tracers, r, k, stored[i])
    BY <1>2, StoredOf
  <2>4. k = 1 /\ stored[i].parent = None
    BY <2>2, <2>3, Ids DEF StoredSpanIn, ParentIn
  <2>5. ASSUME NEW j \in Plotter!Mapped(stored), stored[j].id = None PROVE FALSE
    <3>1. j \in 1..Len(stored)
      BY <1>2, Slices DEF Plotter!Mapped, StoredInv
    <3>2. PICK s \in Requests, l \in 1..Depth : StoredSpanIn(Tracers, s, l, stored[j])
      BY <1>2, <3>1 DEF StoredInv
    <3>3. stored[j].id \in SpanId
      <4>1. <<s, l>> \in SpanId /\ <<s, l, "own">> \in SpanId
        BY DEF SpanId
      <4> QED BY <3>2, <4>1 DEF StoredSpanIn
    <3> QED BY <2>5, <3>3, TracingAssumption
  <2>6. i \in Plotter!Roots(stored)
    BY <2>2, <2>4, <2>5 DEF Plotter!Roots, Plotter!Parent
  <2> QED BY <2>2, <2>6 DEF RootsOf
<1> QED BY <1>0, <1>5, <1>6, <1>7, <1>8, <1>9

(* A request is drawn as no more trees than parts of the chain are traced  *)
(* and spans have got lost: OpenSpan passes the context on, and EndSpan    *)
(* stores a span after those it has caused.                                *)
THEOREM TreesAreOfEntries == TracingSpec => []OneTreePerEntry
<1>1. TracingInv => OneTreePerEntry
  BY TreesOfRequest DEF OneTreePerEntry
<1> QED BY <1>1, TracingInitial, TracingKeeps, PTL DEF TracingSpec

(* With basic tracers everywhere and nothing lost, one tree holds all the  *)
(* spans of a request that has come back, in one trace.                    *)
THEOREM TreesAreWhole == TracingSpec => []WholeTrees
<1>1. TracingInv => WholeTrees
  <2> SUFFICES ASSUME TracingInv, AllBasic, NEW r \in Requests, request[r] = "done", lost[r] = 0
               PROVE  LET ids == {stored[i].id : i \in SpansOf(r)} IN
                      /\ {stored[i].id : i \in RootsOf(r)} = {<<r, 1>>}
                      /\ \A i \in SpansOf(r) : stored[i].trace = <<r, 1>>
                      /\ \A k \in 1..Depth : <<r, k>> \in ids => \A j \in 1..k : <<r, j>> \in ids
                      /\ r \in own => \E k \in 1..Depth : {<<r, k>>, <<r, k, "own">>} \subseteq ids
    BY DEF WholeTrees, AllBasic
  <2> QED BY WholeTree
<1> QED BY <1>1, TracingInitial, TracingKeeps, PTL DEF TracingSpec
===============================================================================
