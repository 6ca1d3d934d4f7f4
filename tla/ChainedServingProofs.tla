------------------------- MODULE ChainedServingProofs -------------------------
(* The references of a scatter differ, a call of the driver without an     *)
(* error has delivered its payloads, and a gather hands over what each of  *)
(* its producers returned: for every value of the constants.               *)
EXTENDS ChainedServing, FiniteSetTheorems, TLAPS

-----------------------------------------------------------------------------
(* Part 1: the references of a scatter.                                    *)

(* The part of the types that the argument needs.                          *)
Types ==
  /\ deployment \in Deployment
  /\ at = [j \in Jobs |-> at[j]]
  /\ job = [j \in Jobs |-> job[j]]
  /\ thread = [x \in Threads |-> thread[x]]
  /\ ref = [x \in Threads |-> ref[x]]

(* In a scatter of stored payloads no job uploads for all of its threads;  *)
(* a job that no instance has taken has started none; and a thread that    *)
(* has a reference has the one made of its job's instance and its number.  *)
Scatter == Pattern = "FANOUT" /\ Stored

IInv ==
  /\ Types
  /\ Scatter =>
       /\ \A j \in Jobs : job[j] \notin {"dial", "upload"}
       /\ \A x \in Threads : job[x[1]] = "none" => thread[x] = "none" /\ ref[x] = NoRef
       /\ \A x \in Threads : ref[x] \in {NoRef, ThreadKey(x)}

LEMMA InitIInv == Init => IInv
<1>. SUFFICES ASSUME Init PROVE IInv
  OBVIOUS
<1>1. Types
  <2>1. deployment \in Deployment
    BY ServingAssumption DEF Init
  <2>. QED
    BY <2>1 DEF Init, Types
<1>2. \A x \in Threads : x[1] \in Jobs
  BY DEF Threads
<1>. QED
  BY <1>1, <1>2 DEF Init, IInv

(* Two threads of one job have different numbers, hence different keys.    *)
LEMMA KeysDiffer ==
  ASSUME NEW j \in Jobs, NEW x \in {j} \X Nat, NEW y \in {j} \X Nat, x # y
  PROVE  ThreadKey(x) # ThreadKey(y)
BY DEF ThreadKey

LEMMA IInvOwn == IInv => OwnReference
<1>. SUFFICES ASSUME IInv, Scatter, NEW j \in Jobs,
                     NEW x \in ThreadsOf(j), NEW y \in ThreadsOf(j), x # y,
                     {x, y} \subseteq { z \in Threads : ref[z] # NoRef }
              PROVE  ref[x] # ref[y]
  BY DEF OwnReference, Scatter
<1>1. x \in {j} \X Nat /\ y \in {j} \X Nat
  BY DEF Scatter, ThreadsOf, IInv, Types, Deployment, Amounts
<1>2. ref[x] = ThreadKey(x) /\ ref[y] = ThreadKey(y)
  BY DEF IInv
<1>. QED
  BY <1>1, <1>2, KeysDiffer

(* A deployment is for life.                                               *)
LEMMA SameDeployment ==
  ASSUME UNCHANGED deployment
  PROVE  (Scatter' <=> Scatter) /\ \A j : ThreadsOf(j)' = ThreadsOf(j)
BY DEF Scatter, Pattern, Stored, Type, ThreadsOf

(* Steps of the driver, and those of the consumers that end no transfer.   *)
LEMMA OtherSteps ==
  ASSUME IInv, UNCHANGED <<deployment, job, at, thread, ref>>
  PROVE  IInv'
<1>1. Types'
  BY DEF IInv, Types
<1>. QED
  BY <1>1, SameDeployment DEF IInv, ThreadKey

(* A thread that has been started moves on with the reference it has.      *)
LEMMA ThreadMoves ==
  ASSUME IInv, NEW stages,
         UNCHANGED <<deployment, job, at, ref>>,
         thread' = [x \in Threads |-> stages[x]],
         \A x \in Threads : thread[x] = "none" => stages[x] = "none"
  PROVE  IInv'
<1>1. Types'
  BY DEF IInv, Types
<1>. QED
  BY <1>1, SameDeployment DEF IInv, Types, ThreadKey

LEMMA ThreadProceeds ==
  ASSUME IInv, NEW x \in Threads, NEW stage, thread[x] # "none",
         Proceeds(x, stage), UNCHANGED <<deployment, job, at, ref>>
  PROVE  IInv'
<1>. DEFINE stages == [thread EXCEPT ![x] = stage]
<1>1. thread' = [y \in Threads |-> stages[y]]
  BY DEF IInv, Types, Proceeds
<1>2. \A y \in Threads : thread[y] = "none" => stages[y] = "none"
  BY DEF IInv, Types
<1>. HIDE DEF stages
<1>. QED
  BY <1>1, <1>2, ThreadMoves

(* An instance that dies leaves its jobs lost, and starts nothing.         *)
LEMMA DiesIInv == ASSUME IInv, NEW p, Dies(p) PROVE IInv'
<1>1. Types'
  BY DEF Dies, IInv, Types
<1>2. ASSUME Scatter
      PROVE  /\ \A j \in Jobs : job'[j] \notin {"dial", "upload"}
             /\ \A x \in Threads : job'[x[1]] = "none" => thread'[x] = "none" /\ ref'[x] = NoRef
  <2>1. \A x \in Threads : x[1] \in Jobs
    BY DEF Threads
  <2>2. \A j \in Jobs : job'[j] \in {"lost", job[j]}
    BY DEF Dies
  <2>3. \A x \in Threads : thread[x] = "none" => thread'[x] = "none"
    BY DEF Dies
  <2>. QED
    BY <1>2, <2>1, <2>2, <2>3 DEF Dies, IInv
<1>3. \A x \in Threads : ThreadKey(x)' = ThreadKey(x) /\ ref'[x] = ref[x]
  BY DEF Dies, ThreadKey
<1>. QED
  BY <1>1, <1>2, <1>3, SameDeployment DEF Dies, IInv

(* What a job's own step does to it: only Serve happens in a scatter       *)
(* before its threads run, and it gives them no reference.                 *)
LEMMA ServeIInv ==
  ASSUME IInv, NEW j \in Jobs, NEW p \in Producers, Serve(j, p)
  PROVE  IInv'
<1>1. Types'
  <2>1. (\E stage, r : Starts(j, stage, r)) \/ (\E stage : Goes(j, stage))
    BY DEF Serve
  <2>2. /\ job' = [i \in Jobs |-> job'[i]]
        /\ thread' = [x \in Threads |-> thread'[x]]
        /\ ref' = [x \in Threads |-> ref'[x]]
    BY <2>1 DEF Starts, Goes, threadVars, IInv, Types
  <2>3. deployment' = deployment /\ at' = [at EXCEPT ![j] = p]
    BY DEF Serve
  <2>. QED
    BY <2>2, <2>3 DEF IInv, Types
<1>2. ASSUME Scatter
      PROVE  /\ \A i \in Jobs : job'[i] \notin {"dial", "upload"}
             /\ \A x \in Threads : job'[x[1]] = "none" => thread'[x] = "none" /\ ref'[x] = NoRef
             /\ \A x \in Threads : ref'[x] \in {NoRef, ThreadKey(x)'}
  <2>1. \E stage : Starts(j, stage, NoRef)
    BY <1>2 DEF Serve, Scatter
  <2>2. \A x \in ThreadsOf(j) : x[1] = j
    BY DEF ThreadsOf
  <2>3. \A x \in Threads : x[1] \in Jobs
    BY DEF Threads
  <2>4. \A i \in Jobs : job'[i] = IF i = j THEN "running" ELSE job[i]
    BY <2>1 DEF Starts, IInv, Types
  <2>5. \A x \in Threads : x[1] # j => thread'[x] = thread[x] /\ ref'[x] = ref[x]
    BY <2>1, <2>2 DEF Starts
  <2>6. \A x \in Threads : x[1] = j => ref'[x] = NoRef
    BY <1>2, <2>1 DEF Starts, Serve, IInv
  <2>7. \A x \in Threads : x[1] # j => ThreadKey(x)' = ThreadKey(x)
    BY <2>3 DEF Serve, IInv, Types, ThreadKey
  <2>. QED
    BY <1>2, <2>3, <2>4, <2>5, <2>6, <2>7 DEF IInv
<1>. QED
  BY <1>1, <1>2, SameDeployment DEF Serve, IInv

LEMMA JobIInv == ASSUME IInv, NEW j \in Jobs, JobStep(j) PROVE IInv'
<1>1. CASE \E p \in Producers : Serve(j, p)
  BY <1>1, ServeIInv
<1>2. CASE JobDials(j) \/ JobUploads(j)
  <2>1. Types'
    BY <1>2 DEF JobDials, JobUploads, Starts, Goes, IInv, Types, threadVars
  <2>2. ~Scatter /\ UNCHANGED deployment
    BY <1>2 DEF JobDials, JobUploads, IInv
  <2>. QED
    BY <2>1, <2>2, SameDeployment DEF IInv
<1>3. CASE JobUploadFails(j)
  BY <1>3, DiesIInv DEF JobUploadFails
<1>4. CASE Replies(j)
  <2>. USE <1>4 DEF Replies, Goes, threadVars
  <2>1. Types'
    BY DEF IInv, Types
  <2>2. \A x \in Threads : x[1] \in Jobs
    BY DEF Threads
  <2>3. \A i \in Jobs : job'[i] = IF i = j THEN "replied" ELSE job[i]
    BY DEF IInv, Types
  <2>4. \A x \in Threads : ThreadKey(x)' = ThreadKey(x)
    BY DEF ThreadKey
  <2>. QED
    BY <2>1, <2>2, <2>3, <2>4, SameDeployment DEF IInv
<1>. QED
  BY <1>1, <1>2, <1>3, <1>4 DEF JobStep

(* Only ThreadUploads sets a reference, to the thread's own key.           *)
LEMMA UploadIInv == ASSUME IInv, NEW x \in Threads, ThreadUploads(x) PROVE IInv'
<1>. USE DEF ThreadUploads, jobVars
<1>1. Types'
  BY DEF IInv, Types, Proceeds
<1>2. \A y \in Threads : /\ ThreadKey(y)' = ThreadKey(y)
                         /\ ref'[y] = IF y = x THEN ThreadKey(x) ELSE ref[y]
                         /\ thread'[y] = IF y = x THEN "send" ELSE thread[y]
  BY DEF IInv, Types, ThreadKey, Proceeds
<1>. QED
  BY <1>1, <1>2, SameDeployment DEF IInv

LEMMA ConsumerDiesIInv == ASSUME IInv, NEW k, ConsumerDies(k) PROVE IInv'
<1>. DEFINE stages == [x \in Threads |-> IF thread[x] = "sent" /\ on[x] = k
                                           THEN "refused" ELSE thread[x]]
<1>1. thread' = [x \in Threads |-> stages[x]]
  BY DEF ConsumerDies
<1>2. \A x \in Threads : thread[x] = "none" => stages[x] = "none"
  OBVIOUS
<1>3. UNCHANGED <<deployment, job, at, ref>>
  BY DEF ConsumerDies, jobVars
<1>. HIDE DEF stages
<1>. QED
  BY <1>1, <1>2, <1>3, ThreadMoves

LEMMA ThreadIInv == ASSUME IInv, NEW x \in Threads, ThreadStep(x) PROVE IInv'
<1>1. CASE ThreadDials(x) \/ (\E k \in Consumers : Sends(x, k)) \/ XDTInvokes(x) \/ Consumes(x)
  <2>1. \E stage : Proceeds(x, stage)
    BY <1>1 DEF ThreadDials, Sends, XDTInvokes, Consumes
  <2>2. thread[x] # "none" /\ UNCHANGED <<deployment, job, at, ref>>
    BY <1>1 DEF ThreadDials, Sends, XDTInvokes, Consumes, jobVars
  <2>. QED
    BY <2>1, <2>2, ThreadProceeds
<1>2. CASE ThreadUploads(x)
  BY <1>2, UploadIInv
<1>3. CASE ThreadUploadFails(x) \/ ConsumeFails(x) \/ XDTInvokeFails(x)
  BY <1>3, DiesIInv DEF ThreadUploadFails, ConsumeFails, XDTInvokeFails
<1>4. CASE GetFails(x)
  BY <1>4, ConsumerDiesIInv DEF GetFails
<1>. QED
  BY <1>1, <1>2, <1>3, <1>4 DEF ThreadStep

LEMMA NextIInv == IInv /\ [Next]_vars => IInv'
<1>. SUFFICES ASSUME IInv, [Next]_vars PROVE IInv'
  OBVIOUS
<1>. USE DEF producerVars, jobVars, threadVars
<1>1. ASSUME NEW c \in Calls, Invoke(c) \/ Expire(c) \/ DriverStep(c) PROVE IInv'
  <2>1. UNCHANGED <<deployment, job, at, thread, ref>>
    BY <1>1 DEF Invoke, Expire, DriverStep, ReceiveError, ReceiveCapability,
                DialConsumer, ReduceReturns, BenchReturns
  <2>. QED
    BY <2>1, OtherSteps
<1>2. ASSUME NEW c \in Calls, FetchStep(c) PROVE IInv'
  <2>1. CASE (\E k \in Consumers : FetchByte(c, k)) \/ (\E i \in 1..MaxFan : Gets(c, i))
               \/ FetchReplies(c)
    <3>1. UNCHANGED <<deployment, job, at, thread, ref>>
      BY <2>1 DEF FetchByte, Gets, FetchReplies
    <3>. QED
      BY <3>1, OtherSteps
  <2>2. CASE \E i \in 1..MaxFan : GetterDies(c, i)
    BY <2>2, ConsumerDiesIInv DEF GetterDies
  <2>. QED
    BY <1>2, <2>1, <2>2 DEF FetchStep
<1>3. ASSUME NEW j \in Jobs, RequestStep(j) PROVE IInv'
  <2>1. UNCHANGED <<deployment, job, at, thread, ref>>
    BY <1>3 DEF RequestStep, Dial, RequestReturns, RequestFails, PushCapability
  <2>. QED
    BY <2>1, OtherSteps
<1>4. CASE UNCHANGED vars
  BY <1>4, OtherSteps DEF vars
<1>. QED
  BY <1>1, <1>2, <1>3, <1>4, JobIInv, ThreadIInv DEF Next

(* "each consumer receives a unique reference key" (README.md:32-33), for  *)
(* any number of invocations, instances and consumers.                     *)
THEOREM ReferencesAreOwn == Spec => []OwnReference
<1>. QED
  BY InitIInv, NextIInv, IInvOwn, PTL DEF Spec

-----------------------------------------------------------------------------
(* Part 2: what a call of the driver that logged no error has delivered.   *)

Gather == Pattern = "FANIN"

(* Benchmark forgets that XDT's fanOut has failed.                         *)
Forgets == Pattern = "FANOUT" /\ Type = "XDT"

(* What the driver has put together is a sequence of references.           *)
Ref == {NoRef} \cup { <<"XDT", j>> : j \in Jobs }
               \cup { <<p>> : p \in Producers \cup {Nobody} }

Shapes ==
  /\ deployment \in Deployment
  /\ call = [c \in Calls |-> call[c]]
  /\ logged = [c \in Calls |-> logged[c]]
  /\ fetch = [c \in Calls |-> fetch[c]]
  /\ getter = [c \in Calls |-> getter[c]]
  /\ request = [j \in Jobs |-> request[j]]
  /\ job = [j \in Jobs |-> job[j]]
  /\ thread = [x \in Threads |-> thread[x]]
  /\ at \in [Jobs -> Producers \cup {Nobody}]
  /\ capability \in [Jobs -> Ref]
  /\ capabilityChannel \in [Calls -> Seq(Ref)]
  /\ capabilities \in [Calls -> Seq(Ref)]
  /\ errorChannel \in [Calls -> Seq({"nil", "error"})]

(* A request that succeeded was replied to, and a job that replied had all *)
(* of its payloads acknowledged.                                           *)
Transfers ==
  /\ \A j \in Jobs : request[j] \in {"pushing", "succeeded"} => job[j] = "replied"
  /\ \A x \in Threads : /\ thread[x] = "invoke" => Type = "XDT"
                        /\ thread[x] = "failed" => Forgets
  /\ ~Gather /\ ~Forgets =>
       \A j \in Jobs : job[j] = "replied" => \A x \in ThreadsOf(j) : thread[x] = "acked"

(* The consumer of a gather fetches as many payloads as there are          *)
(* producers; a call without an error has heard that all was done.         *)
Fetched(c) ==
  /\ call[c] \in {"receiving", "dialing", "reducing"} => Gather
  /\ call[c] \in {"dialing", "reducing"} \/ fetch[c] # "none" =>
       Len(capabilities[c]) = deployment.fanIn
  /\ fetch[c] # "none" => /\ call[c] \in {"reducing", "returned"}
                          /\ DOMAIN getter[c] = 1..deployment.fanIn
  /\ fetch[c] = "replied" => AllGot(c)
  /\ call[c] = "returned" /\ ~logged[c] =>
       IF Gather THEN fetch[c] = "replied" ELSE request[<<c, 1>>] = "succeeded"

Delivery == Shapes /\ Transfers /\ \A c \in Calls : Fetched(c)

LEMMA DeliveryImpliesClean == Delivery => CleanIsConsumed
<1>. SUFFICES ASSUME Delivery, NEW c \in Calls, call[c] = "returned", ~logged[c]
              PROVE  IF Gather
                       THEN \A i \in 1..deployment.fanIn : i \in DOMAIN getter[c] /\ getter[c][i] = "got"
                       ELSE \/ Forgets
                            \/ \A x \in ThreadsOf(<<c, 1>>) : thread[x] = "acked"
  BY DEF CleanIsConsumed, Gather, Forgets
<1>1. CASE Gather
  BY <1>1 DEF Delivery, Fetched, AllGot
<1>2. CASE ~Gather
  <2>1. <<c, 1>> \in Jobs
    BY ServingAssumption DEF Jobs
  <2>2. request[<<c, 1>>] = "succeeded"
    BY <1>2 DEF Delivery, Fetched
  <2>. QED
    BY <1>2, <2>1, <2>2 DEF Delivery, Transfers
<1>. QED
  BY <1>1, <1>2

LEMMA InitDelivery == Init => Delivery
<1>. SUFFICES ASSUME Init PROVE Delivery
  OBVIOUS
<1>1. Shapes
  BY ServingAssumption DEF Init, Shapes, Ref
<1>2. Transfers
  BY DEF Init, Transfers
<1>3. ASSUME NEW c \in Calls PROVE Fetched(c)
  BY DEF Init, Fetched
<1>. QED
  BY <1>1, <1>2, <1>3 DEF Delivery

(* The steps keep the shapes: a reference is the key of a job.             *)
LEMMA Referenced ==
  ASSUME Shapes, NEW j \in Jobs
  PROVE  JobKey(j) \in Ref
BY DEF Shapes, JobKey, Ref

LEMMA DriverShapes ==
  ASSUME Shapes, NEW c \in Calls, Invoke(c) \/ Expire(c) \/ DriverStep(c) \/ FetchStep(c)
  PROVE  Shapes'
<1>. USE DEF producerVars, jobVars, threadVars, consumerVars, driverVars, Shapes
<1>1. CASE Invoke(c) \/ Expire(c)
  BY <1>1 DEF Invoke, Expire
<1>2. CASE ReceiveError(c)
  BY <1>2 DEF ReceiveError, Return
<1>3. CASE ReceiveCapability(c)
  <2>1. /\ Head(capabilityChannel[c]) \in Ref
        /\ Tail(capabilityChannel[c]) \in Seq(Ref)
    BY <1>3 DEF ReceiveCapability
  <2>. HIDE DEF Shapes
  <2>2. capabilities' \in [Calls -> Seq(Ref)] /\ capabilityChannel' \in [Calls -> Seq(Ref)]
    BY <1>3, <2>1 DEF ReceiveCapability, Shapes
  <2>. QED
    BY <1>3, <2>2 DEF ReceiveCapability, Shapes
<1>4. CASE DialConsumer(c) \/ ReduceReturns(c) \/ BenchReturns(c)
  BY <1>4 DEF DialConsumer, ReduceReturns, BenchReturns, Return
<1>5. CASE FetchStep(c)
  BY <1>5 DEF FetchStep, FetchByte, Gets, GetterDies, FetchReplies, ConsumerDies
<1>. QED
  BY <1>1, <1>2, <1>3, <1>4, <1>5 DEF DriverStep

LEMMA RequestShapes ==
  ASSUME Shapes, NEW j \in Jobs, RequestStep(j)
  PROVE  Shapes'
<1>. USE DEF producerVars, jobVars, threadVars, consumerVars, driverVars
<1>1. CASE Dial(j)
  BY <1>1 DEF Dial, Shapes
<1>2. CASE RequestReturns(j) \/ RequestFails(j)
  <2>1. j[1] \in Calls
    BY DEF Jobs
  <2>2. PICK err, stage : err \in {"nil", "error"} /\ Answer(j, err, stage)
    BY <1>2 DEF RequestReturns, RequestFails
  <2>3. errorChannel' \in [Calls -> Seq({"nil", "error"})]
    BY <2>1, <2>2 DEF Shapes, Answer
  <2>4. request' = [request EXCEPT ![j] = stage]
    BY <2>2 DEF Answer
  <2>. QED
    BY <1>2, <2>3, <2>4 DEF RequestReturns, RequestFails, Shapes
<1>3. CASE PushCapability(j)
  <2>1. j[1] \in Calls
    BY DEF Jobs
  <2>2. Append(capabilityChannel[j[1]], capability[j]) \in Seq(Ref)
    BY <2>1 DEF Shapes
  <2>3. capabilityChannel' \in [Calls -> Seq(Ref)]
    BY <1>3, <2>1, <2>2 DEF PushCapability, Shapes
  <2>. QED
    BY <1>3, <2>3 DEF PushCapability, Shapes
<1>. QED
  BY <1>1, <1>2, <1>3 DEF RequestStep

LEMMA DiesShapes == ASSUME Shapes, NEW p, Dies(p) PROVE Shapes'
BY DEF Dies, Shapes, driverVars, consumerVars

LEMMA ConsumerDiesShapes == ASSUME Shapes, NEW k, ConsumerDies(k) PROVE Shapes'
BY DEF ConsumerDies, Shapes, driverVars, jobVars

LEMMA JobShapes ==
  ASSUME Shapes, NEW j \in Jobs, JobStep(j)
  PROVE  Shapes'
<1>. USE DEF producerVars, threadVars, consumerVars, driverVars
<1>1. ASSUME NEW p \in Producers, Serve(j, p) PROVE Shapes'
  <2>1. (\E stage, r : Starts(j, stage, r)) \/ (\E stage : Goes(j, stage))
    BY <1>1 DEF Serve
  <2>2. /\ job' = [i \in Jobs |-> job'[i]]
        /\ thread' = [x \in Threads |-> thread'[x]]
    BY <2>1 DEF Starts, Goes, Shapes
  <2>3. at' \in [Jobs -> Producers \cup {Nobody}]
    BY <1>1 DEF Serve, Shapes
  <2>. QED
    BY <1>1, <2>2, <2>3 DEF Serve, Shapes
<1>2. CASE JobDials(j)
  BY <1>2 DEF JobDials, Starts, Goes, Shapes
<1>3. CASE JobUploads(j)
  <2>1. capability' \in [Jobs -> Ref]
    BY <1>3, Referenced DEF JobUploads, Shapes
  <2>. QED
    BY <1>3, <2>1 DEF JobUploads, Starts, Goes, Shapes
<1>4. CASE JobUploadFails(j)
  BY <1>4, DiesShapes DEF JobUploadFails
<1>5. CASE Replies(j)
  BY <1>5 DEF Replies, Goes, Shapes
<1>. QED
  BY <1>1, <1>2, <1>3, <1>4, <1>5 DEF JobStep

LEMMA ThreadShapes ==
  ASSUME Shapes, NEW x \in Threads, ThreadStep(x)
  PROVE  Shapes'
<1>. USE DEF jobVars, consumerVars, driverVars
<1>1. CASE ThreadDials(x) \/ (\E k \in Consumers : Sends(x, k)) \/ XDTInvokes(x)
             \/ Consumes(x) \/ ThreadUploads(x)
  <2>1. \E stage : Proceeds(x, stage)
    BY <1>1 DEF ThreadDials, Sends, XDTInvokes, Consumes, ThreadUploads
  <2>2. thread' = [y \in Threads |-> thread'[y]]
    BY <2>1 DEF Proceeds, Shapes
  <2>. QED
    BY <1>1, <2>2 DEF ThreadDials, Sends, XDTInvokes, Consumes, ThreadUploads, Shapes
<1>2. CASE ThreadUploadFails(x) \/ ConsumeFails(x) \/ XDTInvokeFails(x)
  BY <1>2, DiesShapes DEF ThreadUploadFails, ConsumeFails, XDTInvokeFails
<1>3. CASE GetFails(x)
  BY <1>3, ConsumerDiesShapes DEF GetFails
<1>. QED
  BY <1>1, <1>2, <1>3 DEF ThreadStep

LEMMA NextShapes == ASSUME Shapes, [Next]_vars PROVE Shapes'
<1>1. CASE UNCHANGED vars
  BY <1>1 DEF vars, producerVars, jobVars, threadVars, consumerVars, driverVars, Shapes
<1>. QED
  BY <1>1, DriverShapes, RequestShapes, JobShapes, ThreadShapes DEF Next

LEMMA SamePattern ==
  ASSUME UNCHANGED deployment
  PROVE  /\ (Gather' <=> Gather) /\ (Forgets' <=> Forgets) /\ Type' = Type
         /\ \A j : ThreadsOf(j)' = ThreadsOf(j)
         /\ \A c : JobsOf(c)' = JobsOf(c)
BY DEF Gather, Forgets, Pattern, Type, ThreadsOf, JobsOf

LEMMA ThreadsAreThreads ==
  ASSUME Shapes, NEW j \in Jobs
  PROVE  ThreadsOf(j) \subseteq Threads /\ \A x \in ThreadsOf(j) : x[1] = j
BY ServingAssumption DEF Shapes, Deployment, Amounts, ThreadsOf, Threads

(* A step of a job or of a thread keeps what a reply means when it undoes  *)
(* no reply and no acknowledgement, and replies only when all is sent.     *)
LEMMA TransferMoves ==
  ASSUME Shapes, Transfers, UNCHANGED <<deployment, request>>,
         \A x \in Threads : /\ job[x[1]] = "replied" /\ thread[x] = "acked" => thread'[x] = "acked"
                            /\ thread'[x] = "invoke" => Type = "XDT"
                            /\ thread'[x] = "failed" => Forgets,
         \A j \in Jobs : /\ job[j] = "replied" => job'[j] = "replied"
                         /\ job'[j] = "replied" =>
                              \/ job[j] = "replied" \/ Gather \/ Forgets
                              \/ \A x \in ThreadsOf(j) : thread'[x] = "acked"
  PROVE  Transfers'
<1>1. \A j \in Jobs : request'[j] \in {"pushing", "succeeded"} => job'[j] = "replied"
  BY DEF Transfers
<1>2. \A x \in Threads : /\ thread'[x] = "invoke" => Type' = "XDT"
                         /\ thread'[x] = "failed" => Forgets'
  BY SamePattern
<1>3. ASSUME ~Gather, ~Forgets, NEW j \in Jobs, job'[j] = "replied", NEW x \in ThreadsOf(j)
      PROVE  thread'[x] = "acked"
  <2>1. CASE job[j] = "replied"
    <3>1. x \in Threads /\ x[1] = j
      BY ThreadsAreThreads
    <3>2. thread[x] = "acked"
      BY <1>3, <2>1 DEF Transfers
    <3>. QED
      BY <2>1, <3>1, <3>2
  <2>. QED
    BY <1>3, <2>1
<1>4. \A j : ThreadsOf(j)' = ThreadsOf(j)
  BY SamePattern
<1>5. (Gather' <=> Gather) /\ (Forgets' <=> Forgets)
  BY SamePattern
<1>. QED
  BY <1>1, <1>2, <1>3, <1>4, <1>5 DEF Transfers

LEMMA DiesTransfers == ASSUME Shapes, Transfers, NEW p, Dies(p) PROVE Transfers'
<1>1. \A x \in Threads : thread'[x] \in {"lost", thread[x]} /\ (thread[x] = "acked" => thread'[x] = "acked")
  BY DEF Dies
<1>2. \A j \in Jobs : job'[j] \in {"lost", job[j]} /\ (job[j] = "replied" => job'[j] = "replied")
  BY DEF Dies
<1>3. UNCHANGED <<deployment, request>>
  BY DEF Dies, driverVars
<1>4. \A x \in Threads : /\ thread[x] = "invoke" => Type = "XDT"
                         /\ thread[x] = "failed" => Forgets
  BY DEF Transfers
<1>. QED
  BY <1>1, <1>2, <1>3, <1>4, TransferMoves

(* A job that has not replied may start its threads.                       *)
LEMMA StartsTransfers ==
  ASSUME Shapes, Transfers, UNCHANGED <<deployment, request>>,
         NEW j \in Jobs, job[j] # "replied", NEW stage, NEW r,
         stage \in {"invoke", "dial", "send"}, stage = "invoke" => Type = "XDT",
         Starts(j, stage, r)
  PROVE  Transfers'
<1>1. \A x \in ThreadsOf(j) : x[1] = j
  BY ThreadsAreThreads
<1>2. \A x \in Threads : thread'[x] = IF x \in ThreadsOf(j) THEN stage ELSE thread[x]
  BY DEF Starts
<1>3. \A i \in Jobs : job'[i] = IF i = j THEN "running" ELSE job[i]
  BY DEF Starts, Shapes
<1>4. \A x \in Threads : /\ thread[x] = "invoke" => Type = "XDT"
                         /\ thread[x] = "failed" => Forgets
  BY DEF Transfers
<1>. QED
  BY <1>1, <1>2, <1>3, <1>4, TransferMoves

LEMMA GoesTransfers ==
  ASSUME Shapes, Transfers, UNCHANGED <<deployment, request>>,
         NEW j \in Jobs, job[j] # "replied", NEW stage, Goes(j, stage),
         stage = "replied" =>
           Gather \/ Forgets \/ \A x \in ThreadsOf(j) : thread[x] = "acked"
  PROVE  Transfers'
<1>1. \A i \in Jobs : job'[i] = IF i = j THEN stage ELSE job[i]
  BY DEF Goes, Shapes
<1>2. thread' = thread
  BY DEF Goes, threadVars
<1>3. \A x \in Threads : /\ thread[x] = "invoke" => Type = "XDT"
                         /\ thread[x] = "failed" => Forgets
  BY DEF Transfers
<1>. QED
  BY <1>1, <1>2, <1>3, TransferMoves

LEMMA ProceedsTransfers ==
  ASSUME Shapes, Transfers, UNCHANGED <<deployment, request, job>>,
         NEW x \in Threads, thread[x] # "acked", NEW stage, stage # "invoke",
         stage = "failed" => Forgets, Proceeds(x, stage)
  PROVE  Transfers'
<1>1. \A y \in Threads : thread'[y] = IF y = x THEN stage ELSE thread[y]
  BY DEF Proceeds, Shapes
<1>2. \A y \in Threads : /\ thread[y] = "invoke" => Type = "XDT"
                         /\ thread[y] = "failed" => Forgets
  BY DEF Transfers
<1>. QED
  BY <1>1, <1>2, TransferMoves

LEMMA ConsumerDiesTransfers == ASSUME Shapes, Transfers, NEW k, ConsumerDies(k) PROVE Transfers'
<1>1. \A x \in Threads : thread'[x] = thread[x] \/ (thread[x] = "sent" /\ thread'[x] = "refused")
  BY DEF ConsumerDies
<1>2. UNCHANGED <<deployment, request, job>>
  BY DEF ConsumerDies, driverVars, jobVars
<1>3. \A x \in Threads : /\ thread[x] = "invoke" => Type = "XDT"
                         /\ thread[x] = "failed" => Forgets
  BY DEF Transfers
<1>. QED
  BY <1>1, <1>2, <1>3, TransferMoves

LEMMA JobTransfers ==
  ASSUME Shapes, Transfers, NEW j \in Jobs, JobStep(j)
  PROVE  Transfers'
<1>. USE DEF producerVars, threadVars, consumerVars, driverVars
<1>1. ASSUME NEW p \in Producers, Serve(j, p) PROVE Transfers'
  <2>1. job[j] # "replied" /\ UNCHANGED <<deployment, request>>
    BY <1>1 DEF Serve
  <2>2. CASE Gather
    <3>1. Goes(j, IF Type = "INLINE" THEN "replied" ELSE "upload")
      BY <1>1, <2>2 DEF Serve, Gather
    <3>. QED
      BY <2>1, <2>2, <3>1, GoesTransfers
  <2>3. CASE ~Gather
    <3>1. \/ \E stage \in {"invoke", "dial"} :
               Starts(j, stage, NoRef) /\ (stage = "invoke" => Type = "XDT")
          \/ Goes(j, "dial")
      BY <1>1, <2>3 DEF Serve, Gather
    <3>. QED
      BY <2>1, <3>1, StartsTransfers, GoesTransfers
  <2>. QED
    BY <2>2, <2>3
<1>2. CASE JobDials(j)
  <2>1. job[j] # "replied" /\ UNCHANGED <<deployment, request>>
    BY <1>2 DEF JobDials
  <2>2. Starts(j, "send", NoRef) \/ Goes(j, "upload")
    BY <1>2 DEF JobDials
  <2>. QED
    BY <2>1, <2>2, StartsTransfers, GoesTransfers
<1>3. CASE JobUploads(j)
  <2>1. job[j] # "replied" /\ UNCHANGED <<deployment, request>>
    BY <1>3 DEF JobUploads
  <2>2. (Gather /\ Goes(j, "replied")) \/ Starts(j, "send", JobKey(j))
    BY <1>3 DEF JobUploads, Gather
  <2>. QED
    BY <2>1, <2>2, StartsTransfers, GoesTransfers
<1>4. CASE JobUploadFails(j)
  BY <1>4, DiesTransfers DEF JobUploadFails
<1>5. CASE Replies(j)
  <2>1. job[j] # "replied" /\ UNCHANGED <<deployment, request>> /\ Goes(j, "replied")
    BY <1>5 DEF Replies
  <2>2. CASE AllSent(j)
    BY <2>1, <2>2, GoesTransfers DEF AllSent
  <2>3. CASE \E x \in ThreadsOf(j) : thread[x] = "failed"
    <3>1. Forgets
      BY <2>3, ThreadsAreThreads DEF Transfers
    <3>. QED
      BY <2>1, <3>1, GoesTransfers
  <2>. QED
    BY <1>5, <2>2, <2>3 DEF Replies
<1>. QED
  BY <1>1, <1>2, <1>3, <1>4, <1>5 DEF JobStep

LEMMA ThreadTransfers ==
  ASSUME Shapes, Transfers, NEW x \in Threads, ThreadStep(x)
  PROVE  Transfers'
<1>. USE DEF jobVars, consumerVars, driverVars
<1>1. CASE ThreadDials(x) \/ (\E k \in Consumers : Sends(x, k)) \/ ThreadUploads(x) \/ Consumes(x)
  <2>1. /\ thread[x] # "acked" /\ UNCHANGED <<deployment, request, job>>
        /\ \E stage \in {"upload", "send", "sent", "acked"} : Proceeds(x, stage)
    BY <1>1 DEF ThreadDials, Sends, ThreadUploads, Consumes
  <2>. QED
    BY <2>1, ProceedsTransfers
<1>2. CASE XDTInvokes(x)
  <2>1. thread[x] = "invoke" /\ UNCHANGED <<deployment, request, job>>
    BY <1>2 DEF XDTInvokes
  <2>2. Type = "XDT"
    BY <2>1 DEF Transfers
  <2>3. Proceeds(x, "acked") \/ (Forgets /\ Proceeds(x, "failed"))
    BY <1>2, <2>2 DEF XDTInvokes, Forgets
  <2>. QED
    BY <2>1, <2>3, ProceedsTransfers
<1>3. CASE ThreadUploadFails(x) \/ ConsumeFails(x) \/ XDTInvokeFails(x)
  BY <1>3, DiesTransfers DEF ThreadUploadFails, ConsumeFails, XDTInvokeFails
<1>4. CASE GetFails(x)
  BY <1>4, ConsumerDiesTransfers DEF GetFails
<1>. QED
  BY <1>1, <1>2, <1>3, <1>4 DEF ThreadStep

(* The driver's requests: a success is a reply that was received.          *)
LEMMA RequestTransfers ==
  ASSUME Shapes, Transfers, UNCHANGED <<deployment, job, thread>>,
         \A j \in Jobs : request'[j] \in {"pushing", "succeeded"} =>
           request[j] \in {"pushing", "succeeded"} \/ job[j] = "replied"
  PROVE  Transfers'
BY SamePattern DEF Transfers

LEMMA NextTransfers == ASSUME Shapes, Transfers, [Next]_vars PROVE Transfers'
<1>. USE DEF producerVars, jobVars, threadVars
<1>1. ASSUME NEW c \in Calls, Invoke(c) \/ Expire(c) \/ DriverStep(c) PROVE Transfers'
  <2>1. UNCHANGED <<deployment, job, thread>>
    BY <1>1 DEF Invoke, Expire, DriverStep, ReceiveError, ReceiveCapability,
                DialConsumer, ReduceReturns, BenchReturns
  <2>2. \A j \in Jobs : request'[j] \in {"dialing", request[j]}
    BY <1>1 DEF Invoke, Expire, DriverStep, ReceiveError, ReceiveCapability,
                DialConsumer, ReduceReturns, BenchReturns, Shapes
  <2>. QED
    BY <2>1, <2>2, RequestTransfers
<1>2. ASSUME NEW c \in Calls, FetchStep(c) PROVE Transfers'
  <2>1. CASE \E i \in 1..MaxFan : GetterDies(c, i)
    BY <2>1, ConsumerDiesTransfers DEF GetterDies
  <2>2. CASE UNCHANGED <<deployment, request, job, thread>>
    BY <2>2, RequestTransfers
  <2>. QED
    BY <1>2, <2>1, <2>2 DEF FetchStep, FetchByte, Gets, FetchReplies, driverVars
<1>3. ASSUME NEW j \in Jobs, RequestStep(j) PROVE Transfers'
  <2>1. UNCHANGED <<deployment, job, thread>>
    BY <1>3 DEF RequestStep, Dial, RequestReturns, RequestFails, PushCapability
  <2>2. \A i \in Jobs : request'[i] \in {"pushing", "succeeded"} =>
          request[i] \in {"pushing", "succeeded"} \/ job[i] = "replied"
    <3>1. CASE Dial(j) \/ RequestReturns(j) \/ RequestFails(j)
      BY <3>1 DEF Dial, RequestReturns, RequestFails, Answer, Shapes
    <3>2. CASE PushCapability(j)
      BY <3>2 DEF PushCapability, Shapes
    <3>. QED
      BY <1>3, <3>1, <3>2 DEF RequestStep
  <2>. QED
    BY <2>1, <2>2, RequestTransfers
<1>4. CASE UNCHANGED vars
  <2>1. UNCHANGED <<deployment, request, job, thread>>
    BY <1>4 DEF vars, driverVars
  <2>. QED
    BY <2>1, RequestTransfers
<1>. QED
  BY <1>1, <1>2, <1>3, <1>4, JobTransfers, ThreadTransfers DEF Next

(* What a call has heard and fetched: a step that is not its own leaves it *)
(* alone.                                                                  *)
LEMMA FetchedStays ==
  ASSUME NEW c \in Calls, Fetched(c), UNCHANGED deployment,
         call'[c] = call[c], logged'[c] = logged[c], fetch'[c] = fetch[c],
         getter'[c] = getter[c], capabilities'[c] = capabilities[c],
         request[<<c, 1>>] = "succeeded" => request'[<<c, 1>>] = "succeeded"
  PROVE  Fetched(c)'
BY SamePattern DEF Fetched, AllGot

LEMMA OtherFetched ==
  ASSUME Shapes, NEW c \in Calls, Fetched(c), NEW d \in Calls, c # d,
         Invoke(d) \/ Expire(d) \/ DriverStep(d) \/ FetchStep(d)
  PROVE  Fetched(c)'
<1>. USE DEF driverVars, Shapes
<1>1. <<c, 1>> \in Jobs
  BY ServingAssumption DEF Jobs
<1>2. CASE Invoke(d)
  <2>1. <<c, 1>> \notin JobsOf(d)
    BY DEF JobsOf
  <2>. QED
    BY <1>1, <1>2, <2>1, FetchedStays DEF Invoke, consumerVars
<1>3. CASE Expire(d) \/ DriverStep(d)
  BY <1>3, FetchedStays DEF Expire, DriverStep, ReceiveError, ReceiveCapability,
       DialConsumer, ReduceReturns, BenchReturns, Return, consumerVars
<1>4. CASE \E k \in Consumers : FetchByte(d, k)
  BY <1>4, FetchedStays DEF FetchByte
<1>5. CASE \E i \in 1..MaxFan : Gets(d, i)
  BY <1>5, FetchedStays DEF Gets
<1>6. CASE FetchReplies(d)
  BY <1>6, FetchedStays DEF FetchReplies
<1>7. CASE \E i \in 1..MaxFan : GetterDies(d, i)
  <2>1. PICK k : ConsumerDies(k)
    BY <1>7 DEF GetterDies
  <2>2. CASE fetch'[c] = fetch[c]
    BY <2>1, <2>2, FetchedStays DEF ConsumerDies
  <2>3. CASE fetch'[c] # fetch[c]
    <3>1. fetch[c] = "running" /\ fetch'[c] = "lost"
      BY <2>1, <2>3 DEF ConsumerDies
    <3>. QED
      BY <2>1, <3>1, SamePattern DEF ConsumerDies, Fetched, AllGot
  <2>. QED
    BY <2>2, <2>3
<1>. QED
  BY <1>2, <1>3, <1>4, <1>5, <1>6, <1>7 DEF FetchStep

LEMMA ConsumerDiesFetched ==
  ASSUME Shapes, NEW c \in Calls, Fetched(c), NEW k, ConsumerDies(k)
  PROVE  Fetched(c)'
<1>1. UNCHANGED <<deployment, call, logged, capabilities, getter, request>>
  BY DEF ConsumerDies, driverVars
<1>2. fetch'[c] = fetch[c] \/ (fetch[c] = "running" /\ fetch'[c] = "lost")
  BY DEF ConsumerDies
<1>3. fetch'[c] # "none" => fetch[c] # "none"
  BY <1>2
<1>4. fetch'[c] = "replied" <=> fetch[c] = "replied"
  BY <1>2
<1>. QED
  BY <1>1, <1>3, <1>4, SamePattern DEF Fetched, AllGot

LEMMA DriverFetched ==
  ASSUME Shapes, NEW c \in Calls, Fetched(c), Invoke(c) \/ Expire(c) \/ DriverStep(c)
  PROVE  Fetched(c)'
<1>. USE DEF consumerVars
<1>0. /\ capabilities[c] \in Seq(Ref) /\ (Gather' <=> Gather)
      /\ UNCHANGED <<deployment, fetch, getter>>
  <2>1. UNCHANGED <<deployment, fetch, getter>>
    BY DEF Invoke, Expire, DriverStep, ReceiveError, ReceiveCapability, DialConsumer,
           ReduceReturns, BenchReturns
  <2>. QED
    BY <2>1, SamePattern DEF Shapes
<1>1. CASE Invoke(c)
  <2>1. call[c] = "idle" /\ call'[c] = "waiting" /\ capabilities' = capabilities
    BY <1>1 DEF Invoke, Shapes
  <2>. QED
    BY <1>0, <2>1 DEF Fetched
<1>2. CASE Expire(c)
  BY <1>2, FetchedStays DEF Expire
<1>3. CASE ReceiveError(c)
  <2>1. /\ call[c] = "waiting" /\ Gather /\ capabilities' = capabilities
        /\ call'[c] = "receiving" \/ (call'[c] = "returned" /\ logged'[c])
    BY <1>3 DEF ReceiveError, Return, Shapes, Gather
  <2>. QED
    BY <1>0, <2>1 DEF Fetched
<1>4. CASE ReceiveCapability(c)
  <2>1. /\ call[c] = "receiving" /\ capabilities'[c] = Append(capabilities[c], Head(capabilityChannel[c]))
        /\ call'[c] = IF Len(capabilities'[c]) = deployment.fanIn THEN "dialing" ELSE "waiting"
    BY <1>4 DEF ReceiveCapability, Complete, Shapes
  <2>. QED
    BY <1>0, <2>1 DEF Fetched
<1>5. CASE DialConsumer(c)
  <2>1. call[c] = "dialing" /\ call'[c] = "reducing" /\ capabilities' = capabilities
    BY <1>5 DEF DialConsumer, Shapes
  <2>. QED
    BY <1>0, <2>1 DEF Fetched, AllGot
<1>6. CASE ReduceReturns(c)
  <2>1. /\ call[c] = "reducing" /\ call'[c] = "returned" /\ capabilities' = capabilities
        /\ fetch[c] = "replied" \/ logged'[c]
    BY <1>6 DEF ReduceReturns, Return, Shapes
  <2>. QED
    BY <1>0, <2>1 DEF Fetched, AllGot
<1>7. CASE BenchReturns(c)
  <2>1. /\ call[c] = "waiting" /\ call'[c] = "returned" /\ capabilities' = capabilities
        /\ request' = request
        /\ ~Gather /\ request[<<c, 1>>] \in {"succeeded", "failed"}
        /\ logged'[c] = (request[<<c, 1>>] = "failed")
    BY <1>7 DEF BenchReturns, Return, Shapes, Gather
  <2>2. ~logged'[c] => request'[<<c, 1>>] = "succeeded"
    BY <2>1
  <2>. QED
    BY <1>0, <2>1, <2>2 DEF Fetched, AllGot
<1>. QED
  BY <1>1, <1>2, <1>3, <1>4, <1>5, <1>6, <1>7 DEF DriverStep

LEMMA FetchFetched ==
  ASSUME Shapes, NEW c \in Calls, Fetched(c), FetchStep(c)
  PROVE  Fetched(c)'
<1>. USE DEF driverVars
<1>1. CASE \E k \in Consumers : FetchByte(c, k)
  <2>1. /\ UNCHANGED <<deployment, call, logged, capabilities, request>>
        /\ call[c] = "reducing" /\ fetch'[c] = "running"
        /\ DOMAIN getter'[c] = DOMAIN capabilities[c]
    BY <1>1 DEF FetchByte, Shapes
  <2>2. capabilities[c] \in Seq(Ref)
    BY DEF Shapes
  <2>. QED
    BY <2>1, <2>2, SamePattern DEF Fetched
<1>2. CASE \E i \in 1..MaxFan : Gets(c, i)
  <2>1. /\ UNCHANGED <<deployment, call, logged, capabilities, request, fetch>>
        /\ fetch[c] = "running" /\ DOMAIN getter'[c] = DOMAIN getter[c]
    BY <1>2 DEF Gets, Getting, Shapes
  <2>. QED
    BY <2>1, SamePattern DEF Fetched
<1>3. CASE \E i \in 1..MaxFan : GetterDies(c, i)
  BY <1>3, ConsumerDiesFetched DEF GetterDies
<1>4. CASE FetchReplies(c)
  <2>1. /\ UNCHANGED <<deployment, call, logged, capabilities, request, getter>>
        /\ fetch[c] = "running" /\ fetch'[c] \in {"replied", "failed"}
        /\ fetch'[c] = "replied" => AllGot(c)
    BY <1>4 DEF FetchReplies, Shapes
  <2>2. AllGot(c)' <=> AllGot(c)
    BY <2>1 DEF AllGot
  <2>. QED
    BY <2>1, <2>2, SamePattern DEF Fetched
<1>. QED
  BY <1>1, <1>2, <1>3, <1>4 DEF FetchStep

LEMMA RequestFetched ==
  ASSUME Shapes, NEW c \in Calls, Fetched(c), NEW j \in Jobs, RequestStep(j)
  PROVE  Fetched(c)'
<1>1. <<c, 1>> \in Jobs
  BY ServingAssumption DEF Jobs
<1>2. UNCHANGED <<deployment, call, logged, fetch, getter, capabilities>>
  BY DEF RequestStep, Dial, RequestReturns, RequestFails, PushCapability, consumerVars
<1>3. request[<<c, 1>>] = "succeeded" => request'[<<c, 1>>] = "succeeded"
  BY <1>1 DEF RequestStep, Dial, RequestReturns, RequestFails, PushCapability, Answer, Shapes
<1>. QED
  BY <1>2, <1>3, FetchedStays

LEMMA ProducerFetched ==
  ASSUME Shapes, NEW c \in Calls, Fetched(c),
         (\E j \in Jobs : JobStep(j)) \/ (\E x \in Threads : ThreadStep(x))
  PROVE  Fetched(c)'
<1>1. CASE \E x \in Threads : GetFails(x)
  BY <1>1, ConsumerDiesFetched DEF GetFails
<1>2. CASE UNCHANGED <<deployment, driverVars, fetch, getter>>
  BY <1>2, FetchedStays DEF driverVars
<1>. QED
  BY <1>1, <1>2 DEF JobStep, ThreadStep, Serve, JobDials, JobUploads, JobUploadFails, Replies,
     ThreadDials, ThreadUploads, ThreadUploadFails, Sends, ConsumeFails, XDTInvokes,
     XDTInvokeFails, Consumes, Dies, consumerVars

LEMMA NextDelivery == Delivery /\ [Next]_vars => Delivery'
<1>. SUFFICES ASSUME Delivery, [Next]_vars PROVE Delivery'
  OBVIOUS
<1>1. Shapes' /\ Transfers'
  BY NextShapes, NextTransfers DEF Delivery
<1>2. ASSUME NEW c \in Calls PROVE Fetched(c)'
  <2>1. Shapes /\ Fetched(c)
    BY DEF Delivery
  <2>2. CASE \E d \in Calls : Invoke(d) \/ Expire(d) \/ DriverStep(d) \/ FetchStep(d)
    BY <2>1, <2>2, OtherFetched, DriverFetched, FetchFetched
  <2>3. CASE \E j \in Jobs : RequestStep(j)
    BY <2>1, <2>3, RequestFetched
  <2>4. CASE (\E j \in Jobs : JobStep(j)) \/ (\E x \in Threads : ThreadStep(x))
    BY <2>1, <2>4, ProducerFetched
  <2>5. CASE UNCHANGED vars
    BY <2>1, <2>5, FetchedStays DEF vars, driverVars, consumerVars
  <2>. QED
    BY <2>2, <2>3, <2>4, <2>5 DEF Next
<1>. QED
  BY <1>1, <1>2 DEF Delivery

(* A call of the driver that logged no error has delivered every payload,  *)
(* in every pattern and for every type, whichever instances die.           *)
THEOREM CleanCallsAreConsumed == Spec => []CleanIsConsumed
<1>. QED
  BY InitDelivery, NextDelivery, DeliveryImpliesClean, PTL DEF Spec

-----------------------------------------------------------------------------
(* Part 3: what a gather hands over.                                       *)

Answered == {"pushing", "succeeded", "failed"}

Requests ==
  \A j \in Jobs : /\ request[j] # "none" => j \in JobsOf(j[1]) /\ call[j[1]] # "idle"
                  /\ request[j] = "pushing" => Gather

OneEach(by) == \A i, k \in DOMAIN by : by[i] = by[k] => i = k

(* Each error that waits in the channel is of a request of its own.        *)
ErrorsFit(c) ==
  \E by \in [1..Len(errorChannel[c]) -> JobsOf(c)] :
    OneEach(by) /\ \A i \in DOMAIN by : request[by[i]] \in Answered

(* Each capability that was received, or waits, was returned by a job of   *)
(* its own.                                                                *)
Produced(c, by) ==
  /\ OneEach(by)
  /\ \A i \in DOMAIN by : request[by[i]] = "succeeded"
  /\ \A i \in 1..Len(capabilities[c]) : capabilities[c][i] = capability[by[i]]
  /\ \A i \in 1..Len(capabilityChannel[c]) :
       capabilityChannel[c][i] = capability[by[Len(capabilities[c]) + i]]

CapabilitiesFit(c) ==
  \E by \in [1..(Len(capabilities[c]) + Len(capabilityChannel[c])) -> JobsOf(c)] : Produced(c, by)

Gathered(c) ==
  /\ ~Gather => errorChannel[c] = <<>> /\ capabilityChannel[c] = <<>> /\ capabilities[c] = <<>>
  /\ ErrorsFit(c)
  /\ CapabilitiesFit(c)

Gathering == Delivery /\ Requests /\ \A c \in Calls : Gathered(c)

LEMMA Amount == ASSUME Shapes PROVE /\ deployment.fanIn \in 0..MaxFan
                                    /\ ~Gather => deployment.fanIn = 0
                                    /\ Gather => \A c : JobsOf(c) = {c} \X (1..deployment.fanIn)
                                    /\ \A c \in Calls : JobsOf(c) \subseteq Jobs
<1>1. deployment.fanIn \in 0..MaxFan /\ deployment.fanIn \in Int
  BY ServingAssumption DEF Shapes, Deployment, Amounts
<1>2. ~Gather => deployment.fanIn = 0
  BY <1>1 DEF Gather, Pattern
<1>3. \A c \in Calls : JobsOf(c) \subseteq Jobs
  BY <1>1, ServingAssumption DEF JobsOf, Jobs
<1>. QED
  BY <1>1, <1>2, <1>3 DEF Gather, JobsOf

(* As many things that came from different jobs as a call has jobs came    *)
(* from each of them.                                                      *)
LEMMA Fits ==
  ASSUME Shapes, Gather, NEW c \in Calls, NEW m \in Nat, NEW by \in [1..m -> JobsOf(c)], OneEach(by)
  PROVE  /\ m <= deployment.fanIn
         /\ m = deployment.fanIn => \A j \in JobsOf(c) : \E i \in DOMAIN by : by[i] = j
<1>. DEFINE n == deployment.fanIn
            f == [i \in 1..m |-> by[i][2]]
<1>1. n \in Nat /\ JobsOf(c) = {c} \X (1..n)
  BY Amount
<1>2. f \in [1..m -> 1..n] /\ \A i \in 1..m : by[i] = <<c, f[i]>>
  BY <1>1
<1>. HIDE DEF f, n
<1>3. f \in Injection(1..m, 1..n)
  BY <1>2 DEF OneEach, Injection, IsInjective
<1>4. /\ IsFiniteSet(1..n) /\ Cardinality(1..n) = n
      /\ IsFiniteSet(1..m) /\ Cardinality(1..m) = m
  BY <1>1, FS_Interval
<1>5. m <= n /\ (m = n => f \in Surjection(1..m, 1..n))
  BY <1>3, <1>4, FS_Injection
<1>6. ASSUME m = n, NEW j \in JobsOf(c) PROVE \E i \in DOMAIN by : by[i] = j
  <2>1. PICK k \in 1..n : j = <<c, k>>
    BY <1>1
  <2>2. PICK i \in 1..m : f[i] = k
    BY <1>5, <1>6 DEF Surjection
  <2>. QED
    BY <1>2, <2>1, <2>2
<1>. QED
  BY <1>5, <1>6 DEF n

LEMMA GatheringImpliesAll == Gathering => GathersAll
<1>. SUFFICES ASSUME Gathering PROVE GathersAll
  OBVIOUS
<1>1. Shapes
  BY DEF Gathering, Delivery
<1>2. ASSUME NEW c \in Calls
      PROVE  /\ Len(errorChannel[c]) <= deployment.fanIn
             /\ Len(capabilityChannel[c]) + Len(capabilities[c]) <= deployment.fanIn
             /\ call[c] \in {"dialing", "reducing"} =>
                  \E producedBy \in [1..Len(capabilities[c]) -> JobsOf(c)] :
                    /\ \A j \in JobsOf(c) : \E i \in DOMAIN producedBy : producedBy[i] = j
                    /\ \A i \in DOMAIN producedBy : capabilities[c][i] = capability[producedBy[i]]
  <2>1. PICK e \in Nat, n \in Nat, a \in Nat, f \in Nat :
          /\ Len(errorChannel[c]) = e /\ deployment.fanIn = n
          /\ Len(capabilities[c]) = a /\ Len(capabilityChannel[c]) = f
    <3>1. /\ Len(errorChannel[c]) \in Nat /\ Len(capabilities[c]) \in Nat
          /\ Len(capabilityChannel[c]) \in Nat
      BY <1>1 DEF Shapes
    <3>2. deployment.fanIn \in Nat
      BY <1>1, Amount
    <3>. QED
      BY <3>1, <3>2
  <2>2. Gathered(c)
    BY DEF Gathering
  <2>3. CASE ~Gather
    <3>1. e = 0 /\ a = 0 /\ f = 0
      BY <2>1, <2>2, <2>3 DEF Gathered
    <3>2. call[c] \notin {"dialing", "reducing"}
      BY <2>3 DEF Gathering, Delivery, Fetched
    <3>. QED
      BY <2>1, <3>1, <3>2
  <2>4. CASE Gather
    <3>1. PICK by \in [1..e -> JobsOf(c)] : OneEach(by)
      BY <2>1, <2>2 DEF Gathered, ErrorsFit
    <3>2. e <= n
      BY <1>1, <2>1, <2>4, <3>1, Fits
    <3>. DEFINE m == a + f
    <3>3. PICK made \in [1..m -> JobsOf(c)] : Produced(c, made)
      BY <2>1, <2>2 DEF Gathered, CapabilitiesFit
    <3>0. m \in Nat /\ m = a + f
      OBVIOUS
    <3>. HIDE DEF m
    <3>4. /\ m <= n
          /\ m = n => \A j \in JobsOf(c) : \E i \in DOMAIN made : made[i] = j
      <4>1. OneEach(made)
        BY <3>3 DEF Produced
      <4>. QED
        BY <1>1, <2>1, <2>4, <3>0, <4>1, Fits
    <3>5. ASSUME call[c] \in {"dialing", "reducing"}
          PROVE  \E producedBy \in [1..a -> JobsOf(c)] :
                   /\ \A j \in JobsOf(c) : \E i \in DOMAIN producedBy : producedBy[i] = j
                   /\ \A i \in DOMAIN producedBy : capabilities[c][i] = capability[producedBy[i]]
      <4>1. a = n
        BY <2>1, <3>5 DEF Gathering, Delivery, Fetched
      <4>2. m = a
        BY <3>0, <3>4, <4>1
      <4>3. \A i \in DOMAIN made : capabilities[c][i] = capability[made[i]]
        BY <2>1, <3>3, <4>2 DEF Produced
      <4>. QED
        BY <3>4, <4>1, <4>2, <4>3
    <3>6. f + a <= n
      BY <3>0, <3>4
    <3>. QED
      BY <2>1, <3>2, <3>5, <3>6
  <2>. QED
    BY <2>3, <2>4
<1>. QED
  BY <1>2 DEF GathersAll, ChannelsFit

LEMMA InitGathering == Init => Gathering
<1>. SUFFICES ASSUME Init PROVE Gathering
  OBVIOUS
<1>1. Requests
  BY DEF Init, Requests
<1>2. ASSUME NEW c \in Calls PROVE Gathered(c)
  <2>1. errorChannel[c] = <<>> /\ capabilityChannel[c] = <<>> /\ capabilities[c] = <<>>
    BY DEF Init
  <2>. DEFINE none == [i \in 1..0 |-> <<c, 1>>]
  <2>2. none \in [1..0 -> JobsOf(c)] /\ DOMAIN none = {} /\ 1..0 = {}
    OBVIOUS
  <2>. HIDE DEF none
  <2>3. OneEach(none)
    BY <2>2 DEF OneEach
  <2>4. ErrorsFit(c)
    <3>1. 1..Len(errorChannel[c]) = 1..0
      BY <2>1
    <3>. QED
      BY <2>2, <2>3, <3>1 DEF ErrorsFit
  <2>5. CapabilitiesFit(c)
    <3>1. /\ 1..Len(capabilityChannel[c]) = 1..0 /\ 1..Len(capabilities[c]) = 1..0
          /\ 1..(Len(capabilities[c]) + Len(capabilityChannel[c])) = 1..0
      BY <2>1
    <3>2. Produced(c, none)
      BY <2>2, <2>3, <3>1 DEF Produced
    <3>. QED
      BY <2>2, <3>1, <3>2 DEF CapabilitiesFit
  <2>. QED
    BY <2>1, <2>4, <2>5 DEF Gathered
<1>. QED
  BY <1>1, <1>2, InitDelivery DEF Gathering

LEMMA Lengths ==
  ASSUME Shapes, NEW c \in Calls
  PROVE  /\ Len(errorChannel[c]) \in Nat
         /\ Len(capabilities[c]) \in Nat
         /\ Len(capabilityChannel[c]) \in Nat
BY DEF Shapes

(* A step that takes nothing from the channels and undoes no answer.       *)
LEMMA GatheredStays ==
  ASSUME Shapes, NEW c \in Calls, Gathered(c), UNCHANGED deployment,
         errorChannel'[c] = errorChannel[c], capabilityChannel'[c] = capabilityChannel[c],
         capabilities'[c] = capabilities[c],
         \A j \in JobsOf(c) : /\ request[j] \in Answered => request'[j] \in Answered
                              /\ request[j] = "succeeded" => /\ request'[j] = "succeeded"
                                                             /\ capability'[j] = capability[j]
  PROVE  Gathered(c)'
<1>1. /\ (Gather' <=> Gather) /\ JobsOf(c)' = JobsOf(c)
      /\ Len(capabilities[c])' = Len(capabilities[c])
      /\ Len(capabilityChannel[c])' = Len(capabilityChannel[c])
      /\ Len(errorChannel[c])' = Len(errorChannel[c])
  BY SamePattern
<1>2. ErrorsFit(c)'
  <2>1. PICK by \in [1..Len(errorChannel[c]) -> JobsOf(c)] :
          OneEach(by) /\ \A i \in DOMAIN by : request[by[i]] \in Answered
    BY DEF Gathered, ErrorsFit
  <2>2. \A i \in DOMAIN by : request'[by[i]] \in Answered
    BY <2>1
  <2>. QED
    BY <1>1, <2>1, <2>2 DEF ErrorsFit, OneEach
<1>3. CapabilitiesFit(c)'
  <2>1. PICK a \in Nat, f \in Nat :
          a = Len(capabilities[c]) /\ f = Len(capabilityChannel[c])
    BY Lengths
  <2>2. PICK by \in [1..(a + f) -> JobsOf(c)] : Produced(c, by)
    BY <2>1 DEF Gathered, CapabilitiesFit
  <2>3. \A i \in DOMAIN by : request'[by[i]] = "succeeded" /\ capability'[by[i]] = capability[by[i]]
    BY <2>2 DEF Produced
  <2>4. \A i \in 1..a : i \in DOMAIN by /\ capabilities'[c][i] = capability'[by[i]]
    <3>1. \A i \in 1..a : i \in DOMAIN by
      BY <2>2
    <3>2. \A i \in 1..a : capabilities[c][i] = capability[by[i]]
      BY <2>1, <2>2 DEF Produced
    <3>. QED
      BY <2>3, <3>1, <3>2
  <2>5. \A i \in 1..f : a + i \in DOMAIN by /\ capabilityChannel'[c][i] = capability'[by[a + i]]
    <3>1. \A i \in 1..f : a + i \in DOMAIN by
      BY <2>2
    <3>2. \A i \in 1..f : capabilityChannel[c][i] = capability[by[a + i]]
      BY <2>1, <2>2 DEF Produced
    <3>. QED
      BY <2>3, <3>1, <3>2
  <2>6. Produced(c, by)'
    BY <1>1, <2>1, <2>2, <2>3, <2>4, <2>5 DEF Produced, OneEach
  <2>. QED
    BY <1>1, <2>1, <2>2, <2>6 DEF CapabilitiesFit
<1>. QED
  BY <1>1, <1>2, <1>3 DEF Gathered

LEMMA ReceivesError ==
  ASSUME Shapes, NEW c \in Calls, Gathered(c), ReceiveError(c)
  PROVE  Gathered(c)'
<1>1. UNCHANGED <<deployment, request, capabilityChannel, capabilities, capability>>
  BY DEF ReceiveError, producerVars, jobVars
<1>2. JobsOf(c)' = JobsOf(c) /\ Gather' = Gather /\ Gather
  BY <1>1, SamePattern DEF ReceiveError, Gather
<1>3. /\ errorChannel[c] # <<>> /\ errorChannel[c] \in Seq({"nil", "error"})
      /\ errorChannel'[c] = Tail(errorChannel[c])
  BY DEF ReceiveError, Shapes
<1>4. PICK n \in Nat : n = Len(errorChannel[c]) /\ n # 0 /\ Len(errorChannel'[c]) = n - 1
  BY <1>3
<1>5. PICK by \in [1..n -> JobsOf(c)] :
        OneEach(by) /\ \A i \in DOMAIN by : request[by[i]] \in Answered
  BY <1>4 DEF Gathered, ErrorsFit
<1>. DEFINE rest == [i \in 1..(n - 1) |-> by[i + 1]]
<1>6. rest \in [1..(n - 1) -> JobsOf(c)] /\ \A i \in 1..(n - 1) : i + 1 \in DOMAIN by /\ rest[i] = by[i + 1]
  BY <1>4
<1>. HIDE DEF rest
<1>7. OneEach(rest)
  BY <1>4, <1>5, <1>6 DEF OneEach
<1>8. \A i \in DOMAIN rest : request'[rest[i]] \in Answered
  BY <1>1, <1>5, <1>6
<1>9. ErrorsFit(c)'
  BY <1>2, <1>4, <1>6, <1>7, <1>8 DEF ErrorsFit, OneEach
<1>10. CapabilitiesFit(c)'
  <2>1. \A made : Produced(c, made)' <=> Produced(c, made)
    BY <1>1 DEF Produced, OneEach
  <2>2. CapabilitiesFit(c)' <=> CapabilitiesFit(c)
    BY <1>1, <1>2, <2>1 DEF CapabilitiesFit
  <2>. QED
    BY <2>2 DEF Gathered
<1>. QED
  BY <1>2, <1>9, <1>10 DEF Gathered

LEMMA ReceivesCapability ==
  ASSUME Shapes, NEW c \in Calls, Gathered(c), Fetched(c), ReceiveCapability(c)
  PROVE  Gathered(c)'
<1>1. UNCHANGED <<deployment, request, errorChannel, capability>>
  BY DEF ReceiveCapability, producerVars, jobVars
<1>2. JobsOf(c)' = JobsOf(c) /\ Gather' = Gather /\ Gather
  BY <1>1, SamePattern DEF ReceiveCapability, Fetched
<1>3. PICK s \in Seq(Ref), t \in Seq(Ref) : s = capabilities[c] /\ t = capabilityChannel[c]
  BY DEF Shapes
<1>4. /\ t # <<>> /\ capabilityChannel'[c] = Tail(t)
      /\ capabilities'[c] = Append(s, Head(t))
  BY <1>3 DEF ReceiveCapability, Shapes
<1>5. PICK a \in Nat, f \in Nat : a = Len(s) /\ f = Len(t)
  BY <1>3
<1>6. /\ f # 0 /\ Len(Tail(t)) = f - 1 /\ Len(Append(s, Head(t))) = a + 1
      /\ \A i \in 1..(f - 1) : Tail(t)[i] = t[i + 1]
      /\ \A i \in 1..(a + 1) : Append(s, Head(t))[i] = IF i \in 1..a THEN s[i] ELSE t[1]
  BY <1>3, <1>4, <1>5
<1>7. PICK by \in [1..(a + f) -> JobsOf(c)] : Produced(c, by)
  BY <1>3, <1>5 DEF Gathered, CapabilitiesFit
<1>8. /\ \A i \in 1..a : s[i] = capability[by[i]]
      /\ \A i \in 1..f : t[i] = capability[by[a + i]]
      /\ OneEach(by) /\ \A i \in DOMAIN by : request[by[i]] = "succeeded"
  BY <1>3, <1>5, <1>7 DEF Produced
<1>9. \A i \in 1..(a + 1) : Append(s, Head(t))[i] = capability[by[i]]
  <2>1. t[1] = capability[by[a + 1]]
    BY <1>6, <1>8
  <2>. QED
    BY <1>6, <1>8, <2>1
<1>10. \A i \in 1..(f - 1) : Tail(t)[i] = capability[by[(a + 1) + i]]
  <2>1. ASSUME NEW i \in 1..(f - 1) PROVE Tail(t)[i] = capability[by[(a + 1) + i]]
    <3>1. i + 1 \in 1..f /\ a + (i + 1) = (a + 1) + i
      OBVIOUS
    <3>. QED
      BY <1>6, <1>8, <3>1
  <2>. QED
    BY <2>1
<1>11. Produced(c, by)'
  <2>1. OneEach(by)' /\ \A i \in DOMAIN by : request'[by[i]] = "succeeded"
    BY <1>1, <1>8 DEF OneEach
  <2>2. capabilities[c]' = Append(s, Head(t)) /\ capabilityChannel[c]' = Tail(t)
    BY <1>4
  <2>3. Len(capabilities[c])' = a + 1 /\ Len(capabilityChannel[c])' = f - 1
    BY <1>6, <2>2
  <2>4. \A i \in 1..(a + 1) : capabilities'[c][i] = capability'[by[i]]
    BY <1>1, <1>9, <2>2
  <2>5. \A i \in 1..(f - 1) : capabilityChannel'[c][i] = capability'[by[(a + 1) + i]]
    BY <1>1, <1>10, <2>2
  <2>. QED
    BY <2>1, <2>3, <2>4, <2>5 DEF Produced
<1>12. (a + 1) + (f - 1) = a + f
  OBVIOUS
<1>13. CapabilitiesFit(c)'
  BY <1>2, <1>4, <1>6, <1>7, <1>11, <1>12 DEF CapabilitiesFit
<1>14. ErrorsFit(c)'
  BY <1>1, <1>2 DEF Gathered, ErrorsFit
<1>. QED
  BY <1>2, <1>13, <1>14 DEF Gathered

(* A request is answered once.                                             *)
LEMMA AnswersOnce ==
  ASSUME Shapes, NEW j \in Jobs, j \in JobsOf(j[1]), Gathered(j[1]), request[j] = "called",
         NEW err \in {"nil", "error"}, NEW stage \in {"pushing", "succeeded", "failed"},
         stage = "pushing" <=> err = "nil" /\ Gather,
         Answer(j, err, stage),
         UNCHANGED <<deployment, capabilityChannel, capabilities, capability>>
  PROVE  Gathered(j[1])'
<1>. DEFINE c == j[1]
<1>1. c \in Calls
  BY DEF Jobs
<1>2. \A i \in Jobs : request'[i] = IF i = j THEN stage ELSE request[i]
  BY DEF Answer, Shapes
<1>3. \A i \in Jobs : /\ request[i] \in Answered => i # j /\ request'[i] \in Answered
                      /\ request[i] = "succeeded" => request'[i] = "succeeded"
  BY <1>2 DEF Answered
<1>4. JobsOf(c) \subseteq Jobs
  BY <1>1, Amount
<1>. HIDE DEF c
<1>5. CASE ~Gather
  <2>1. errorChannel' = errorChannel
    BY <1>5 DEF Answer, Gather
  <2>. QED
    BY <1>1, <1>3, <1>4, <2>1, GatheredStays DEF c
<1>6. CASE Gather
  <2>1. JobsOf(c)' = JobsOf(c) /\ Gather'
    BY <1>6, SamePattern
  <2>2. errorChannel'[c] = Append(errorChannel[c], err) /\ errorChannel[c] \in Seq({"nil", "error"})
    BY <1>1, <1>6 DEF Answer, Shapes, Gather, c
  <2>3. PICK n \in Nat : n = Len(errorChannel[c]) /\ Len(errorChannel'[c]) = n + 1
    BY <2>2
  <2>4. PICK by \in [1..n -> JobsOf(c)] :
          OneEach(by) /\ \A i \in DOMAIN by : request[by[i]] \in Answered
    BY <2>3 DEF Gathered, ErrorsFit, c
  <2>. DEFINE more == [i \in 1..(n + 1) |-> IF i = n + 1 THEN j ELSE by[i]]
  <2>5. /\ more \in [1..(n + 1) -> JobsOf(c)]
        /\ \A i \in 1..(n + 1) : IF i = n + 1 THEN more[i] = j ELSE i \in DOMAIN by /\ more[i] = by[i]
    BY <2>3 DEF c
  <2>. HIDE DEF more
  <2>6. \A i \in DOMAIN by : by[i] # j /\ request'[by[i]] \in Answered
    BY <1>3, <1>4, <2>4
  <2>7. OneEach(more)
    BY <2>3, <2>4, <2>5, <2>6 DEF OneEach
  <2>8. \A i \in DOMAIN more : request'[more[i]] \in Answered
    BY <1>2, <2>5, <2>6 DEF Answered
  <2>9. ErrorsFit(c)'
    BY <2>1, <2>3, <2>5, <2>7, <2>8 DEF ErrorsFit, OneEach
  <2>10. CapabilitiesFit(c)'
    <3>1. ASSUME NEW n1, NEW made \in [1..n1 -> JobsOf(c)], Produced(c, made)
          PROVE  Produced(c, made)'
      <4>1. \A i \in DOMAIN made : request'[made[i]] = "succeeded"
        BY <1>3, <1>4, <3>1 DEF Produced
      <4>. QED
        BY <3>1, <4>1 DEF Produced, OneEach
    <3>. QED
      BY <2>1, <3>1 DEF Gathered, CapabilitiesFit, c
  <2>. QED
    BY <2>1, <2>9, <2>10 DEF Gathered, c
<1>. QED
  BY <1>5, <1>6

LEMMA PushesOnce ==
  ASSUME Shapes, Requests, NEW j \in Jobs, Gathered(j[1]), PushCapability(j)
  PROVE  Gathered(j[1])'
<1>. DEFINE c == j[1]
<1>1. c \in Calls
  BY DEF Jobs
<1>2. /\ request[j] = "pushing" /\ j \in JobsOf(c) /\ Gather
      /\ UNCHANGED <<deployment, errorChannel, capabilities, capability>>
  BY DEF PushCapability, Requests, producerVars, jobVars
<1>3. \A i \in Jobs : request'[i] = IF i = j THEN "succeeded" ELSE request[i]
  BY DEF PushCapability, Shapes
<1>4. JobsOf(c) \subseteq Jobs /\ JobsOf(c)' = JobsOf(c) /\ Gather'
  BY <1>1, <1>2, Amount, SamePattern
<1>5. PICK t \in Seq(Ref) : t = capabilityChannel[c]
  BY <1>1 DEF Shapes
<1>6. capabilityChannel'[c] = Append(t, capability[j])
  BY <1>1, <1>5 DEF PushCapability, Shapes, c
<1>. HIDE DEF c
<1>7. PICK a \in Nat, f \in Nat : a = Len(capabilities[c]) /\ f = Len(t)
  BY <1>1, <1>5, Lengths
<1>8. /\ Len(Append(t, capability[j])) = f + 1
      /\ \A i \in 1..(f + 1) : Append(t, capability[j])[i] = IF i = f + 1 THEN capability[j] ELSE t[i]
  BY <1>5, <1>7
<1>9. PICK by \in [1..(a + f) -> JobsOf(c)] : Produced(c, by)
  BY <1>5, <1>7 DEF Gathered, CapabilitiesFit, c
<1>10. /\ \A i \in 1..a : capabilities[c][i] = capability[by[i]]
       /\ \A i \in 1..f : t[i] = capability[by[a + i]]
       /\ OneEach(by) /\ \A i \in DOMAIN by : request[by[i]] = "succeeded"
  BY <1>5, <1>7, <1>9 DEF Produced
<1>11. \A i \in DOMAIN by : by[i] # j /\ request'[by[i]] = "succeeded"
  BY <1>2, <1>3, <1>4, <1>9, <1>10
<1>. DEFINE n == a + f
<1>12. n \in Nat /\ by \in [1..n -> JobsOf(c)]
  BY <1>9
<1>. DEFINE more == [i \in 1..(n + 1) |-> IF i = n + 1 THEN j ELSE by[i]]
<1>. HIDE DEF n
<1>13. /\ more \in [1..(n + 1) -> JobsOf(c)]
       /\ \A i \in 1..(n + 1) : IF i = n + 1 THEN more[i] = j ELSE i \in DOMAIN by /\ more[i] = by[i]
  BY <1>2, <1>12
<1>. HIDE DEF more
<1>14. OneEach(more)
  BY <1>10, <1>11, <1>12, <1>13 DEF OneEach
<1>15. \A i \in DOMAIN more : request'[more[i]] = "succeeded"
  BY <1>2, <1>3, <1>11, <1>13
<1>16. \A i \in 1..a : i \in 1..n /\ capabilities[c][i] = capability[more[i]]
  <2>1. \A i \in 1..a : i \in 1..(n + 1) /\ i # n + 1
    BY DEF n
  <2>. QED
    BY <1>10, <1>13, <2>1, <1>12
<1>17. \A i \in 1..(f + 1) : Append(t, capability[j])[i] = capability[more[a + i]]
  <2>1. ASSUME NEW i \in 1..f PROVE t[i] = capability[more[a + i]]
    <3>1. a + i \in 1..(n + 1) /\ a + i # n + 1
      BY DEF n
    <3>. QED
      BY <1>10, <1>13, <3>1
  <2>2. more[a + (f + 1)] = j
    <3>1. a + (f + 1) = n + 1
      BY DEF n
    <3>. QED
      BY <1>12, <1>13, <3>1
  <2>. QED
    BY <1>8, <2>1, <2>2
<1>18. Produced(c, more)'
  BY <1>2, <1>6, <1>7, <1>8, <1>14, <1>15, <1>16, <1>17 DEF Produced, OneEach
<1>19. CapabilitiesFit(c)'
  <2>1. a + (f + 1) = n + 1
    BY DEF n
  <2>2. Len(capabilities'[c]) + Len(capabilityChannel'[c]) = n + 1
    BY <1>2, <1>6, <1>7, <1>8, <2>1
  <2>. QED
    BY <1>4, <1>13, <1>18, <2>2 DEF CapabilitiesFit
<1>20. ErrorsFit(c)'
  <2>1. PICK made \in [1..Len(errorChannel[c]) -> JobsOf(c)] :
          OneEach(made) /\ \A i \in DOMAIN made : request[made[i]] \in Answered
    BY DEF Gathered, ErrorsFit, c
  <2>2. \A i \in DOMAIN made : request'[made[i]] \in Answered
    BY <1>3, <1>4, <2>1 DEF Answered
  <2>. QED
    BY <1>2, <1>4, <2>1, <2>2 DEF ErrorsFit, OneEach
<1>. QED
  BY <1>4, <1>19, <1>20 DEF Gathered, c

(* A request that belongs to another call is of no concern.                *)
LEMMA OtherRequests ==
  ASSUME Shapes, NEW c \in Calls, Gathered(c), NEW j \in Jobs, j[1] # c, RequestStep(j)
  PROVE  Gathered(c)'
<1>1. j \notin JobsOf(c) /\ j[1] \in Calls
  BY DEF JobsOf, Jobs
<1>2. /\ UNCHANGED <<deployment, capabilities, capability>>
      /\ capabilityChannel'[c] = capabilityChannel[c]
      /\ errorChannel'[c] = errorChannel[c]
  BY <1>1 DEF RequestStep, Dial, RequestReturns, RequestFails, PushCapability, Answer,
     producerVars, jobVars, Shapes
<1>3. \A i \in JobsOf(c) : request'[i] = request[i]
  <2>1. JobsOf(c) \subseteq Jobs
    BY Amount
  <2>. QED
    BY <1>1, <2>1 DEF RequestStep, Dial, RequestReturns, RequestFails, PushCapability, Answer, Shapes
<1>. QED
  BY <1>2, <1>3, GatheredStays

LEMMA RequestGathered ==
  ASSUME Shapes, Requests, NEW c \in Calls, Gathered(c), NEW j \in Jobs, RequestStep(j)
  PROVE  Gathered(c)'
<1>1. CASE j[1] # c
  BY <1>1, OtherRequests
<1>2. CASE j[1] = c
  <2>1. CASE Dial(j)
    <3>1. request[j] = "dialing" /\ request' = [request EXCEPT ![j] = "called"]
          /\ UNCHANGED <<deployment, errorChannel, capabilityChannel, capabilities, capability>>
      BY <2>1 DEF Dial, producerVars, jobVars
    <3>2. \A i \in Jobs : /\ request[i] \in Answered => request'[i] = request[i]
                          /\ request[i] = "succeeded" => request'[i] = request[i]
      BY <3>1 DEF Shapes, Answered
    <3>3. JobsOf(c) \subseteq Jobs
      BY Amount
    <3>. QED
      BY <3>1, <3>2, <3>3, GatheredStays
  <2>2. CASE RequestReturns(j)
    <3>1. /\ request[j] = "called" /\ Answer(j, "nil", IF Gather THEN "pushing" ELSE "succeeded")
          /\ UNCHANGED <<deployment, capabilityChannel, capabilities, capability>>
      BY <2>2 DEF RequestReturns, Succeeded, Gather, producerVars, jobVars
    <3>2. j \in JobsOf(j[1])
      BY <3>1 DEF Requests
    <3>. QED
      BY <1>2, <3>1, <3>2, AnswersOnce
  <2>3. CASE RequestFails(j)
    <3>1. /\ request[j] = "called" /\ Answer(j, "error", "failed")
          /\ UNCHANGED <<deployment, capabilityChannel, capabilities, capability>>
      BY <2>3 DEF RequestFails, producerVars, jobVars
    <3>2. j \in JobsOf(j[1])
      BY <3>1 DEF Requests
    <3>. QED
      BY <1>2, <3>1, <3>2, AnswersOnce
  <2>4. CASE PushCapability(j)
    BY <1>2, <2>4, PushesOnce
  <2>. QED
    BY <2>1, <2>2, <2>3, <2>4 DEF RequestStep
<1>. QED
  BY <1>1, <1>2

LEMMA DriverGathered ==
  ASSUME Shapes, Requests, NEW c \in Calls, Gathered(c), Fetched(c), NEW d \in Calls,
         Invoke(d) \/ Expire(d) \/ DriverStep(d)
  PROVE  Gathered(c)'
<1>1. JobsOf(c) \subseteq Jobs
  BY Amount
<1>2. CASE Invoke(d)
  <2>1. UNCHANGED <<deployment, errorChannel, capabilityChannel, capabilities, capability>>
    BY <1>2 DEF Invoke, producerVars, jobVars
  <2>2. \A j \in JobsOf(d) : j[1] = d
    BY DEF JobsOf
  <2>3. \A j \in Jobs : request[j] # "none" => request'[j] = request[j]
    BY <1>2, <2>2 DEF Invoke, Requests
  <2>. QED
    BY <1>1, <2>1, <2>3, GatheredStays DEF Answered
<1>3. CASE ReceiveError(d) \/ ReceiveCapability(d)
  <2>1. CASE c = d
    BY <1>3, <2>1, ReceivesError, ReceivesCapability
  <2>2. CASE c # d
    <3>1. /\ UNCHANGED <<deployment, request, capability>>
          /\ errorChannel'[c] = errorChannel[c] /\ capabilities'[c] = capabilities[c]
          /\ capabilityChannel'[c] = capabilityChannel[c]
      BY <1>3, <2>2 DEF ReceiveError, ReceiveCapability, Shapes, producerVars, jobVars
    <3>. QED
      BY <3>1, GatheredStays
  <2>. QED
    BY <2>1, <2>2
<1>4. CASE Expire(d) \/ DialConsumer(d) \/ ReduceReturns(d) \/ BenchReturns(d)
  <2>1. UNCHANGED <<deployment, request, errorChannel, capabilityChannel, capabilities, capability>>
    BY <1>4 DEF Expire, DialConsumer, ReduceReturns, BenchReturns, producerVars, jobVars
  <2>. QED
    BY <2>1, GatheredStays
<1>. QED
  BY <1>2, <1>3, <1>4 DEF DriverStep

(* What a producer has returned it does not change.                        *)
LEMMA ProducerGathered ==
  ASSUME Shapes, Transfers, NEW c \in Calls, Gathered(c),
         \/ \E j \in Jobs : JobStep(j)
         \/ \E x \in Threads : ThreadStep(x)
         \/ \E d \in Calls : FetchStep(d)
  PROVE  Gathered(c)'
<1>1. UNCHANGED <<deployment, driverVars>>
  BY DEF JobStep, ThreadStep, Serve, JobDials, JobUploads, JobUploadFails, Replies,
     ThreadDials, ThreadUploads, ThreadUploadFails, Sends, ConsumeFails, XDTInvokes,
     XDTInvokeFails, Consumes, GetFails, Dies, ConsumerDies, FetchStep, FetchByte, Gets,
     GetterDies, FetchReplies
<1>2. \A j \in Jobs : request[j] = "succeeded" => capability'[j] = capability[j]
  <2>1. CASE \E j \in Jobs : JobUploads(j)
    BY <2>1 DEF JobUploads, Transfers, Shapes
  <2>2. CASE UNCHANGED capability
    BY <2>2
  <2>. QED
    BY <2>1, <2>2 DEF JobStep, ThreadStep, Serve, JobDials, JobUploadFails, Replies,
     ThreadDials, ThreadUploads, ThreadUploadFails, Sends, ConsumeFails, XDTInvokes,
     XDTInvokeFails, Consumes, GetFails, Dies, ConsumerDies, FetchStep, FetchByte, Gets,
     GetterDies, FetchReplies, jobVars, producerVars
<1>3. JobsOf(c) \subseteq Jobs
  BY Amount
<1>. QED
  BY <1>1, <1>2, <1>3, GatheredStays DEF driverVars

LEMMA NextRequests ==
  ASSUME Shapes, Requests, [Next]_vars
  PROVE  Requests'
<1>1. ASSUME UNCHANGED <<deployment, driverVars>> PROVE Requests'
  BY <1>1, SamePattern DEF Requests, driverVars
<1>2. ASSUME NEW c \in Calls, Invoke(c) PROVE Requests'
  <2>1. /\ call' = [call EXCEPT ![c] = "waiting"] /\ UNCHANGED deployment
        /\ \A j \in Jobs : request'[j] = IF j \in JobsOf(c) THEN "dialing" ELSE request[j]
        /\ \A j \in Jobs : j[1] \in Calls
    BY <1>2 DEF Invoke, Jobs
  <2>2. \A j \in JobsOf(c) : j[1] = c
    BY DEF JobsOf
  <2>3. \A j \in Jobs : call'[j[1]] = "idle" => call[j[1]] = "idle"
    BY <2>1 DEF Shapes
  <2>4. call'[c] # "idle"
    BY <2>1 DEF Shapes
  <2>5. ASSUME NEW j \in Jobs, request'[j] # "none" PROVE j \in JobsOf(j[1]) /\ call'[j[1]] # "idle"
    BY <2>1, <2>2, <2>3, <2>4, <2>5 DEF Requests
  <2>6. \A j \in Jobs : request'[j] = "pushing" => Gather
    BY <2>1 DEF Requests
  <2>. QED
    BY <2>1, <2>5, <2>6, SamePattern DEF Requests
<1>3. ASSUME NEW c \in Calls, Expire(c) \/ DriverStep(c) PROVE Requests'
  <2>1. UNCHANGED <<deployment, request>>
    BY <1>3 DEF Expire, DriverStep, ReceiveError, ReceiveCapability, DialConsumer,
                ReduceReturns, BenchReturns
  <2>2. \A d \in Calls : call'[d] = "idle" => call[d] = "idle"
    BY <1>3 DEF Expire, DriverStep, ReceiveError, ReceiveCapability, DialConsumer,
                ReduceReturns, BenchReturns, Return, Shapes
  <2>3. \A j \in Jobs : j[1] \in Calls
    BY DEF Jobs
  <2>. QED
    BY <2>1, <2>2, <2>3, SamePattern DEF Requests
<1>4. ASSUME NEW j \in Jobs, RequestStep(j) PROVE Requests'
  <2>1. /\ UNCHANGED <<deployment, call>> /\ request[j] # "none"
        /\ \E stage \in {"called", "pushing", "succeeded", "failed"} :
             request' = [request EXCEPT ![j] = stage] /\ (stage = "pushing" => Gather)
    BY <1>4 DEF RequestStep, Dial, RequestReturns, RequestFails, PushCapability, Answer,
                Succeeded, Gather
  <2>2. /\ \A i \in Jobs : request'[i] # "none" => request[i] # "none"
        /\ \A i \in Jobs : request'[i] = "pushing" => Gather
    BY <2>1 DEF Requests, Shapes
  <2>. QED
    BY <2>1, <2>2, SamePattern DEF Requests
<1>5. CASE UNCHANGED vars
  BY <1>1, <1>5 DEF vars
<1>6. CASE \/ \E j \in Jobs : JobStep(j)
           \/ \E x \in Threads : ThreadStep(x)
           \/ \E d \in Calls : FetchStep(d)
  BY <1>1, <1>6 DEF JobStep, ThreadStep, Serve, JobDials, JobUploads, JobUploadFails, Replies,
     ThreadDials, ThreadUploads, ThreadUploadFails, Sends, ConsumeFails, XDTInvokes,
     XDTInvokeFails, Consumes, GetFails, Dies, ConsumerDies, FetchStep, FetchByte, Gets,
     GetterDies, FetchReplies
<1>. QED
  BY <1>2, <1>3, <1>4, <1>5, <1>6 DEF Next

LEMMA NextGathering == Gathering /\ [Next]_vars => Gathering'
<1>. SUFFICES ASSUME Gathering, [Next]_vars PROVE Gathering'
  OBVIOUS
<1>1. Shapes /\ Transfers /\ Requests
  BY DEF Gathering, Delivery
<1>2. Delivery' /\ Requests'
  BY <1>1, NextDelivery, NextRequests DEF Gathering
<1>3. ASSUME NEW c \in Calls PROVE Gathered(c)'
  <2>1. Gathered(c) /\ Fetched(c)
    BY DEF Gathering, Delivery
  <2>2. CASE \E d \in Calls : Invoke(d) \/ Expire(d) \/ DriverStep(d)
    BY <1>1, <2>1, <2>2, DriverGathered
  <2>3. CASE \E j \in Jobs : RequestStep(j)
    BY <1>1, <2>1, <2>3, RequestGathered
  <2>4. CASE \/ \E j \in Jobs : JobStep(j)
             \/ \E x \in Threads : ThreadStep(x)
             \/ \E d \in Calls : FetchStep(d)
    BY <1>1, <2>1, <2>4, ProducerGathered
  <2>5. CASE UNCHANGED vars
    BY <1>1, <2>1, <2>5, GatheredStays DEF vars, driverVars, producerVars, jobVars
  <2>. QED
    BY <2>2, <2>3, <2>4, <2>5 DEF Next
<1>. QED
  BY <1>2, <1>3 DEF Gathering

(* What benchFanIn hands to the consumer is the capability of each of its  *)
(* producers, once each, and its channels are never too full, for any      *)
(* number of producers (driver.go:185-217).                                *)
THEOREM GatherIsComplete == Spec => []GathersAll
<1>. QED
  BY InitGathering, NextGathering, GatheringImpliesAll, PTL DEF Spec
===============================================================================
