---------------------------- MODULE ChainedServing ----------------------------
(* The chained functions of benchmarks/chained-function-serving.  A call   *)
(* of the driver asks one or several producers to run a pattern: a         *)
(* pipeline, a gather (FANIN), a scatter (FANOUT) or a broadcast; payloads *)
(* reach the consumers inline or by a key in a store.  An instance that    *)
(* calls log.Fatal or panics takes with it all that it is doing; its       *)
(* address stays reachable, because Knative starts another.                *)
EXTENDS Integers, Sequences, FiniteSets, SequencesExt

CONSTANTS
  Calls,        \* invocations of the driver
  Producers,    \* producer instances, named by their HOSTNAME
  Consumers,    \* consumer instances
  Deployments,  \* the environments the three functions are deployed with
  MaxFan,       \* bound on the amounts in them
  Nobody        \* no instance yet

Amounts == 0..MaxFan

TransferType == {"INLINE", "S3", "ELASTICACHE", "XDT"}

Deployment ==
  [fanIn : Amounts, fanOut : Amounts, broadcast : Amounts, type : TransferType,
   invocations : Nat]  \* how often the driver is invoked, a bound

ASSUME ServingAssumption ==
  /\ MaxFan \in Nat \ {0}
  /\ Deployments \subseteq Deployment

(* A job is a call of the producer that the driver makes, a thread one     *)
(* transfer to a consumer that the job makes.                              *)
Jobs == Calls \X (1..MaxFan)
Threads == Jobs \X (0..(MaxFan - 1))

(* Keys of the producer's storage, and the capabilities of XDT (external). *)
NoRef == <<>>

VARIABLES
  deployment,
  \* the driver
  call,               \* where an invocation of it is
  logged,             \* whether it has logged an error
  expired,            \* whether its context is done: timed out or cancelled
  request,            \* where the request of a job is
  errorChannel, capabilityChannel, capabilities,  \* of benchFanIn
  \* the producers
  job, at, capability,  \* where a job is, its instance, what putData returned
  thread, ref,          \* where a thread is, the reference it sends
  store,                \* the keys in the store
  \* the consumers
  fetch, getter,        \* where a FetchByte is, and each of its goroutines
  on                    \* the instance that serves a thread or a FetchByte

driverVars == <<call, logged, expired, request,
                errorChannel, capabilityChannel, capabilities>>
jobVars == <<job, at, capability>>
threadVars == <<thread, ref>>
producerVars == <<jobVars, threadVars, store>>
consumerVars == <<fetch, getter, on>>
vars == <<deployment, driverVars, producerVars, consumerVars>>

Init ==
  /\ deployment \in Deployments
  /\ call = [c \in Calls |-> "idle"]
  /\ logged = [c \in Calls |-> FALSE]
  /\ expired = [c \in Calls |-> FALSE]
  /\ request = [j \in Jobs |-> "none"]
  /\ errorChannel = [c \in Calls |-> <<>>]
  /\ capabilityChannel = [c \in Calls |-> <<>>]
  /\ capabilities = [c \in Calls |-> <<>>]
  /\ job = [j \in Jobs |-> "none"]
  /\ at = [j \in Jobs |-> Nobody]
  /\ capability = [j \in Jobs |-> NoRef]
  /\ thread = [x \in Threads |-> "none"]
  /\ ref = [x \in Threads |-> NoRef]
  /\ store = {}
  /\ fetch = [c \in Calls |-> "none"]
  /\ getter = [c \in Calls |-> <<>>]
  /\ on = [x \in Threads \cup Calls |-> Nobody]

Type == deployment.type
Stored == Type \in {"S3", "ELASTICACHE"}

(* The first amount that is positive decides; without any, the producer's  *)
(* SayHello is called.                                                     *)
Pattern ==
  CASE deployment.fanIn > 0 -> "FANIN"
    [] deployment.fanIn = 0 /\ deployment.fanOut > 0 -> "FANOUT"
    [] deployment.fanIn = 0 /\ deployment.fanOut = 0 /\ deployment.broadcast > 0
         -> "BROADCAST"
    [] OTHER -> "PIPELINE"

JobsOf(c) == {c} \X (1..(IF Pattern = "FANIN" THEN deployment.fanIn ELSE 1))

ThreadsOf(j) ==
  {j} \X CASE Pattern = "FANIN" -> {}
           [] Pattern = "FANOUT" -> 0..(deployment.fanOut - 1)
           [] Pattern = "BROADCAST" -> 0..(deployment.broadcast - 1)
           [] OTHER -> {0}

Running(c) == call[c] \notin {"idle", "returned"}

-----------------------------------------------------------------------------
(* The driver.                                                             *)

Invoke(c) ==
  /\ call[c] = "idle"
  /\ Cardinality({ d \in Calls : call[d] # "idle" }) < deployment.invocations
  /\ call' = [call EXCEPT ![c] = "waiting"]
  /\ request' = [j \in Jobs |-> IF j \in JobsOf(c) THEN "dialing" ELSE request[j]]
  /\ UNCHANGED <<deployment, logged, expired, errorChannel, capabilityChannel,
                 capabilities, producerVars, consumerVars>>

(* Every function the driver runs cancels its context when it returns.     *)
Return(c, err) ==
  /\ call' = [call EXCEPT ![c] = "returned"]
  /\ logged' = [logged EXCEPT ![c] = err]
  /\ expired' = [expired EXCEPT ![c] = TRUE]

(* -grpcTimeout has passed, or the client has cancelled the call.          *)
Expire(c) ==
  /\ Running(c) /\ ~expired[c]
  /\ expired' = [expired EXCEPT ![c] = TRUE]
  /\ UNCHANGED <<deployment, call, logged, request, errorChannel,
                 capabilityChannel, capabilities, producerVars, consumerVars>>

(* grpc.Dial blocks until it is connected; no context bounds it.           *)
Dial(j) ==
  /\ request[j] = "dialing"
  /\ request' = [request EXCEPT ![j] = "called"]
  /\ UNCHANGED <<deployment, call, logged, expired, errorChannel,
                 capabilityChannel, capabilities, producerVars, consumerVars>>

(* In benchFanIn the error, nil or not, goes first, then the capability;   *)
(* elsewhere the driver waits for its only request itself.                 *)
Answer(j, err, stage) ==
  /\ request' = [request EXCEPT ![j] = stage]
  /\ errorChannel' =
       IF Pattern = "FANIN"
         THEN [errorChannel EXCEPT ![j[1]] = Append(@, err)]
         ELSE errorChannel

WithoutCapability == "succeeded"

Succeeded == IF Pattern = "FANIN" THEN "pushing" ELSE "succeeded"

RequestReturns(j) ==
  /\ request[j] = "called" /\ job[j] = "replied"
  /\ Answer(j, "nil", Succeeded)
  /\ UNCHANGED <<deployment, call, logged, expired, capabilityChannel,
                 capabilities, producerVars, consumerVars>>

RequestFails(j) ==
  /\ request[j] = "called"
  /\ expired[j[1]] \/ job[j] = "lost"
  /\ Answer(j, "error", "failed")
  /\ UNCHANGED <<deployment, call, logged, expired, capabilityChannel,
                 capabilities, producerVars, consumerVars>>

PushCapability(j) ==
  /\ request[j] = "pushing"
  /\ request' = [request EXCEPT ![j] = "succeeded"]
  /\ capabilityChannel' = [capabilityChannel EXCEPT ![j[1]] = Append(@, capability[j])]
  /\ UNCHANGED <<deployment, call, logged, expired, errorChannel,
                 capabilities, producerVars, consumerVars>>

(* The loop of benchFanIn: one error, and after a nil one capability.      *)
ReceiveError(c) ==
  /\ call[c] = "waiting" /\ Pattern = "FANIN" /\ errorChannel[c] # <<>>
  /\ errorChannel' = [errorChannel EXCEPT ![c] = Tail(@)]
  /\ IF Head(errorChannel[c]) = "nil"
       THEN /\ call' = [call EXCEPT ![c] = "receiving"]
            /\ UNCHANGED <<logged, expired>>
       ELSE Return(c, TRUE)
  /\ UNCHANGED <<deployment, request, capabilityChannel, capabilities,
                 producerVars, consumerVars>>

AllButOne(collected) == Len(collected) = deployment.fanIn - 1

Complete(collected) == Len(collected) = deployment.fanIn

ReceiveCapability(c) ==
  /\ call[c] = "receiving" /\ capabilityChannel[c] # <<>>
  /\ capabilityChannel' = [capabilityChannel EXCEPT ![c] = Tail(@)]
  /\ capabilities' =
       [capabilities EXCEPT ![c] = Append(@, Head(capabilityChannel[c]))]
  /\ call' = [call EXCEPT ![c] = IF Complete(capabilities'[c]) THEN "dialing"
                                                               ELSE "waiting"]
  /\ UNCHANGED <<deployment, logged, expired, request, errorChannel,
                 producerVars, consumerVars>>

DialConsumer(c) ==
  /\ call[c] = "dialing"
  /\ call' = [call EXCEPT ![c] = "reducing"]
  /\ UNCHANGED <<deployment, logged, expired, request, errorChannel,
                 capabilityChannel, capabilities, producerVars, consumerVars>>

(* FetchByte was answered; the deadline passed or the consumer died.       *)
ReduceReturns(c) ==
  /\ call[c] = "reducing"
  /\ \/ fetch[c] = "replied" /\ Return(c, FALSE)
     \/ (fetch[c] \in {"failed", "lost"} \/ expired[c]) /\ Return(c, TRUE)
  /\ UNCHANGED <<deployment, request, errorChannel, capabilityChannel,
                 capabilities, producerVars, consumerVars>>

(* benchFanOut, benchBroadcast and SayHello only log what their call       *)
(* returned.                                                               *)
BenchReturns(c) ==
  /\ call[c] = "waiting" /\ Pattern # "FANIN"
  /\ request[<<c, 1>>] \in {"succeeded", "failed"}
  /\ Return(c, request[<<c, 1>>] = "failed")
  /\ UNCHANGED <<deployment, request, errorChannel, capabilityChannel,
                 capabilities, producerVars, consumerVars>>

-----------------------------------------------------------------------------
(* The producers.                                                          *)

(* All that instance p is doing is lost.                                   *)
Dies(p) ==
  LET Lost(j) == at[j] = p /\ job[j] # "replied"
      Gone(x) == at[x[1]] = p
  IN /\ job' = [j \in Jobs |-> IF Lost(j) THEN "lost" ELSE job[j]]
     /\ thread' = [x \in Threads |-> IF Gone(x) /\ thread[x] \notin {"none", "acked"}
                                       THEN "lost" ELSE thread[x]]
     /\ UNCHANGED <<deployment, driverVars, at, capability, ref, store, consumerVars>>

Starts(j, stage, r) ==
  /\ job' = [job EXCEPT ![j] = "running"]
  /\ thread' = [x \in Threads |-> IF x \in ThreadsOf(j) THEN stage ELSE thread[x]]
  /\ ref' = [x \in Threads |-> IF x \in ThreadsOf(j) THEN r ELSE ref[x]]

Goes(j, stage) ==
  /\ job' = [job EXCEPT ![j] = stage]
  /\ UNCHANGED threadVars

(* An instance takes the call: Benchmark, or SayHello.                     *)
Serve(j, p) ==
  /\ request[j] = "called" /\ job[j] = "none" /\ ~expired[j[1]]
  /\ at' = [at EXCEPT ![j] = p]
  /\ CASE Pattern = "FANIN" ->
            Goes(j, IF Type = "INLINE" THEN "replied" ELSE "upload")
       [] Pattern = "FANOUT" ->
            Starts(j, IF Type = "XDT" THEN "invoke" ELSE "dial", NoRef)
       [] Pattern = "PIPELINE" /\ Type = "XDT" -> Starts(j, "invoke", NoRef)
       [] OTHER -> Goes(j, "dial")
  /\ UNCHANGED <<deployment, driverVars, capability, store, consumerVars>>

(* getGRPCclient in broadcast and SayHello.                                *)
JobDials(j) ==
  /\ job[j] = "dial"
  /\ IF Type = "INLINE" THEN Starts(j, "send", NoRef) ELSE Goes(j, "upload")
  /\ UNCHANGED <<deployment, driverVars, at, capability, store, consumerVars>>

(* The key is made of HOSTNAME alone; XDT gives a capability of its own.   *)
JobKey(j) == IF Type = "XDT" THEN <<"XDT", j>> ELSE <<at[j]>>

(* uploadToStorage, XDTclient.Put or BroadcastPut, for the whole job.      *)
JobUploads(j) ==
  /\ job[j] = "upload"
  /\ store' = store \cup {JobKey(j)}
  /\ IF Pattern = "FANIN"
       THEN /\ Goes(j, "replied")
            /\ capability' = [capability EXCEPT ![j] = JobKey(j)]
       ELSE /\ Starts(j, "send", JobKey(j))
            /\ UNCHANGED capability
  /\ UNCHANGED <<deployment, driverVars, at, consumerVars>>

(* A failed upload ends the instance: log.Fatal, or a panic in Put.        *)
JobUploadFails(j) ==
  /\ job[j] = "upload"
  /\ Dies(at[j])

Proceeds(x, stage) == thread' = [thread EXCEPT ![x] = stage]

ThreadDials(x) ==
  /\ thread[x] = "dial"
  /\ Proceeds(x, IF Stored THEN "upload" ELSE "send")
  /\ UNCHANGED <<deployment, driverVars, jobVars, ref, store, consumerVars>>

LoopVariable(x) == <<at[x[1]], deployment.fanOut - 1>>

(* The key has the number that the goroutine was started with.             *)
ThreadKey(x) == <<at[x[1]], x[2]>>

ThreadUploads(x) ==
  /\ thread[x] = "upload"
  /\ store' = store \cup {ThreadKey(x)}
  /\ ref' = [ref EXCEPT ![x] = ThreadKey(x)]
  /\ Proceeds(x, "send")
  /\ UNCHANGED <<deployment, driverVars, jobVars, consumerVars>>

ThreadUploadFails(x) ==
  /\ thread[x] = "upload"
  /\ Dies(at[x[1]])

(* ConsumeByte is called, and an instance of the consumer takes the call.  *)
Sends(x, k) ==
  /\ thread[x] = "send"
  /\ Proceeds(x, "sent")
  /\ on' = [on EXCEPT ![x] = k]
  /\ UNCHANGED <<deployment, driverVars, jobVars, ref, store, fetch, getter>>

(* ConsumeByte fails: the context is done, the consumer is gone, or XDT's  *)
(* BroadcastGet returned an error.  The producer ends itself.              *)
ConsumeFails(x) ==
  /\ \/ thread[x] = "refused"
     \/ thread[x] \in {"send", "sent"} /\ (expired[x[1][1]] \/ Type = "XDT")
  /\ Dies(at[x[1]])

(* XDTclient.Invoke (external) transfers, or fails; fanOut goes on.        *)
XDTInvokes(x) ==
  /\ thread[x] = "invoke"
  /\ \/ Proceeds(x, "acked")
     \/ Pattern = "FANOUT" /\ Proceeds(x, "failed")
  /\ UNCHANGED <<deployment, driverVars, jobVars, ref, store, consumerVars>>

XDTInvokeFails(x) ==
  /\ thread[x] = "invoke" /\ Pattern = "PIPELINE"
  /\ Dies(at[x[1]])

OneSent(j) == \E x \in ThreadsOf(j) : thread[x] = "acked"

AllSent(j) == \A x \in ThreadsOf(j) : thread[x] = "acked"

(* The handler has received nil from each of its goroutines, or one error; *)
(* Benchmark replies without an error either way.                          *)
Replies(j) ==
  /\ job[j] = "running"
  /\ AllSent(j) \/ \E x \in ThreadsOf(j) : thread[x] = "failed"
  /\ Goes(j, "replied")
  /\ UNCHANGED <<deployment, driverVars, at, capability, store, consumerVars>>

-----------------------------------------------------------------------------
(* The consumers.                                                          *)

(* ConsumeByte: the payload is in the message, or is fetched.              *)
Consumes(x) ==
  /\ thread[x] = "sent"
  /\ Type = "INLINE" \/ ref[x] \in store
  /\ Proceeds(x, "acked")
  /\ UNCHANGED <<deployment, driverVars, jobVars, ref, store, consumerVars>>

(* storage.Get ends the instance when it fails.                            *)
ConsumerDies(k) ==
  /\ thread' = [x \in Threads |-> IF thread[x] = "sent" /\ on[x] = k
                                    THEN "refused" ELSE thread[x]]
  /\ fetch' = [c \in Calls |-> IF fetch[c] = "running" /\ on[c] = k
                                 THEN "lost" ELSE fetch[c]]
  /\ UNCHANGED <<deployment, driverVars, jobVars, ref, store, getter, on>>

GetFails(x) ==
  /\ Stored /\ thread[x] = "sent"
  /\ ConsumerDies(on[x])

(* FetchByte starts a goroutine for each capability, but none for INLINE.  *)
FetchByte(c, k) ==
  /\ call[c] = "reducing" /\ fetch[c] = "none" /\ ~expired[c]
  /\ fetch' = [fetch EXCEPT ![c] = "running"]
  /\ getter' = [getter EXCEPT ![c] =
       [i \in DOMAIN capabilities[c] |-> IF Type = "INLINE" THEN "none" ELSE "get"]]
  /\ on' = [on EXCEPT ![c] = k]
  /\ UNCHANGED <<deployment, driverVars, producerVars>>

Getting(c, i) == fetch[c] = "running" /\ i \in DOMAIN getter[c] /\ getter[c][i] = "get"

Gets(c, i) ==
  /\ Getting(c, i)
  /\ \/ /\ capabilities[c][i] \in store
        /\ getter' = [getter EXCEPT ![c][i] = "got"]
     \/ /\ Type = "XDT"
        /\ getter' = [getter EXCEPT ![c][i] = "failed"]
  /\ UNCHANGED <<deployment, driverVars, producerVars, fetch, on>>

GetterDies(c, i) ==
  /\ Stored /\ Getting(c, i)
  /\ ConsumerDies(on[c])

AllGot(c) == \A i \in DOMAIN getter[c] : getter[c][i] = "got"

FetchReplies(c) ==
  /\ fetch[c] = "running"
  /\ \/ AllGot(c) /\ fetch' = [fetch EXCEPT ![c] = "replied"]
     \/ /\ \E i \in DOMAIN getter[c] : getter[c][i] = "failed"
        /\ fetch' = [fetch EXCEPT ![c] = "failed"]
  /\ UNCHANGED <<deployment, driverVars, producerVars, getter, on>>

-----------------------------------------------------------------------------
DriverStep(c) ==
  \/ ReceiveError(c) \/ ReceiveCapability(c) \/ DialConsumer(c)
  \/ ReduceReturns(c) \/ BenchReturns(c)

RequestStep(j) ==
  Dial(j) \/ RequestReturns(j) \/ RequestFails(j) \/ PushCapability(j)

JobStep(j) ==
  \/ \E p \in Producers : Serve(j, p)
  \/ JobDials(j) \/ JobUploads(j) \/ JobUploadFails(j) \/ Replies(j)

ThreadStep(x) ==
  \/ ThreadDials(x) \/ ThreadUploads(x) \/ ThreadUploadFails(x)
  \/ \E k \in Consumers : Sends(x, k)
  \/ ConsumeFails(x) \/ XDTInvokes(x) \/ XDTInvokeFails(x)
  \/ Consumes(x) \/ GetFails(x)

FetchStep(c) ==
  \/ \E k \in Consumers : FetchByte(c, k)
  \/ \E i \in 1..MaxFan : Gets(c, i) \/ GetterDies(c, i)
  \/ FetchReplies(c)

Next ==
  \/ \E c \in Calls : Invoke(c) \/ Expire(c) \/ DriverStep(c) \/ FetchStep(c)
  \/ \E j \in Jobs : RequestStep(j) \/ JobStep(j)
  \/ \E x \in Threads : ThreadStep(x)

Spec == Init /\ [][Next]_vars

(* The driver and its requests go on, their connections are established    *)
(* (Knative's ingress accepts them whatever the functions do) and the      *)
(* deadline comes; nothing is assumed of producers and consumers.          *)
FairSpec ==
  /\ Spec
  /\ \A c \in Calls : WF_vars(DriverStep(c)) /\ WF_vars(Expire(c))
  /\ \A j \in Jobs : WF_vars(RequestStep(j))

-----------------------------------------------------------------------------
(* "the producer uploads a separate payload for each consumer and hence    *)
(* each consumer receives a unique reference key" (README.md:31-33): no    *)
(* two transfers of a scatter carry the same reference, although their     *)
(* goroutines upload and send in any order (uBenchProd.go:74-90).          *)
OwnReference ==
  Pattern = "FANOUT" /\ Stored =>
    \A j \in Jobs : \A x, y \in ThreadsOf(j) :
      {x, y} \subseteq { z \in Threads : ref[z] # NoRef } /\ x # y => ref[x] # ref[y]

(* The two channels of benchFanIn never hold more than they were made for. *)
ChannelsFit ==
  \A c \in Calls :
    /\ Len(errorChannel[c]) <= deployment.fanIn
    /\ Len(capabilityChannel[c]) + Len(capabilities[c]) <= deployment.fanIn

(* What benchFanIn hands to the consumer is the capability of each of its  *)
(* producers, once each, although errors and capabilities arrive through   *)
(* two channels that the goroutines fill in any order (driver.go:207-217); *)
(* and no goroutine blocks on a channel that is full (driver.go:185-186).  *)
GathersAll ==
  /\ ChannelsFit
  /\ \A c \in Calls : call[c] \in {"dialing", "reducing"} =>
       \E producedBy \in [1..Len(capabilities[c]) -> JobsOf(c)] :
         /\ \A j \in JobsOf(c) : \E i \in DOMAIN producedBy : producedBy[i] = j
         /\ \A i \in DOMAIN producedBy : capabilities[c][i] = capability[producedBy[i]]

(* A call of the driver that logged no error has delivered every payload:  *)
(* each consumer acknowledged, or the one consumer fetched everything.     *)
(* XDT's fanOut is excepted: Benchmark drops the response that says so     *)
(* (uBenchProd.go:43).                                                     *)
CleanIsConsumed ==
  \A c \in Calls : call[c] = "returned" /\ ~logged[c] =>
    IF Pattern = "FANIN"
      THEN \A i \in 1..deployment.fanIn : i \in DOMAIN getter[c] /\ getter[c][i] = "got"
      ELSE \/ Pattern = "FANOUT" /\ Type = "XDT"
           \/ \A x \in ThreadsOf(<<c, 1>>) : thread[x] = "acked"

(* Every call of the driver returns, whatever happens to the functions it  *)
(* calls: they may die, wait forever (FetchByte for INLINE payloads) or    *)
(* answer only some of its requests (driver.go:176-301).                   *)
DriverReturns ==
  \A c \in Calls : call[c] = "waiting" ~> call[c] = "returned"
===============================================================================
