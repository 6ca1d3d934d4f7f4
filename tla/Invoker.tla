------------------------------- MODULE Invoker -------------------------------
(***************************************************************************)
(* tools/invoker: main() issues requests to the endpoints round robin, one *)
(* goroutine per request, until the experiment's time is over, then adds   *)
(* the durations the TimeseriesDB reports to the latencies measured so far *)
(* and writes them to a file.  It waits for no goroutine.                  *)
(*                                                                         *)
(* The goroutines and main() share latSlice and profSlice, each behind a   *)
(* mutex.  A latency is represented by the request it belongs to and by    *)
(* who measured it.                                                        *)
(***************************************************************************)
EXTENDS Integers, Sequences, FiniteSets

CONSTANTS
  EndpointLists,   \* contents of the endpoints file: sequences of [eventing, relay, emits],
                   \* relay for a function behind a relay run with -profile-function,
                   \* emits if events of its workflow match in the TimeseriesDB
  Message,         \* replies of the functions: [words, last], see Reply
  Profiles,        \* values of the -profile flag
  Timeouts,        \* values of the -grpcTimeout flag
  MaxIssued,       \* bound on the requests of the experiment
  Nil

Request == 1..MaxIssued
Main == 0

(* The default of -grpcTimeout. *)
DefaultTimeout == 30

ASSUME InvokerAssumption ==
  /\ EndpointLists \subseteq Seq([eventing : BOOLEAN, relay : BOOLEAN, emits : BOOLEAN])
  /\ Message \subseteq [words : Nat, last : {"number", "text"}]
  /\ Profiles \subseteq BOOLEAN
  /\ MaxIssued \in Nat \ {0}
  /\ Nil \notin Request \cup {Main} \cup [words : Nat, last : {"number", "text"}]

VARIABLES
  pc,           \* where main() is
  flags,        \* the command line: [profile, grpcTimeout]
  grpcTimeout,  \* the package variable
  endpoints,    \* the endpoints read
  tsdb,         \* a connection to the TimeseriesDB is open
  issued,       \* requests issued
  completed,    \* the atomic counter
  worker,       \* worker[r]: where the goroutine of request r is
  reply,        \* reply[r]: what SayHello received, Nil for an error
  latSlice, latLock,    \* latencies, and who holds the mutex
  profSlice, profLock,  \* function durations, and who holds the mutex
  held,         \* held[p]: the slice as p read it after locking
  durations,    \* what End() returned
  realCount,    \* completed as read for realRPS
  latFile, durFile      \* the files' contents, Nil before they are written

lats == <<latSlice, latLock>>
profs == <<profSlice, profLock>>
setup == <<flags, grpcTimeout, endpoints>>
files == <<latFile, durFile>>
vars == <<pc, setup, tsdb, issued, completed, worker, reply, lats, profs, held, durations,
          realCount, files>>

Init ==
  /\ pc = "flags"
  /\ flags \in [profile : Profiles, grpcTimeout : Timeouts]
  /\ grpcTimeout = 0
  /\ endpoints = <<>>
  /\ tsdb = FALSE
  /\ issued = 0
  /\ completed = 0
  /\ worker = [r \in Request |-> "none"]
  /\ reply = [r \in Request |-> Nil]
  /\ latSlice = <<>> /\ latLock = Nil
  /\ profSlice = <<>> /\ profLock = Nil
  /\ held = [p \in Request \cup {Main} |-> <<>>]
  /\ durations = <<>>
  /\ realCount = 0
  /\ latFile = Nil /\ durFile = Nil

Running == pc \notin {"exit", "fatal", "panic"}

(* Request r goes to endpoints[issued%len(endpoints)]. *)
Endpoint(r) == endpoints[((r - 1) % Len(endpoints)) + 1]
Serving(r) == ~Endpoint(r).eventing

(* sync.Mutex: Lock waits until nobody holds it. *)
Unprotected(holder) == TRUE
Free(holder) == holder = Nil

-------------------------------------------------------------------------------
(* main(): the duration of -grpcTimeout is computed where the flag is      *)
(* declared, before flag.Parse(); then the endpoints file is read.         *)
ReadEndpoints(eps) ==
  /\ pc = "flags"
  /\ grpcTimeout' = DefaultTimeout
  /\ endpoints' = eps
  /\ pc' = "start"
  /\ UNCHANGED <<flags, tsdb, issued, completed, worker, reply, lats, profs, held, durations,
                 realCount, files>>

(* Start: an experiment begins in the TimeseriesDB if some endpoint is     *)
(* eventing.  It defines a workflow for every endpoint, serving ones too.  *)
Start ==
  /\ pc = "start"
  /\ tsdb' = (\E k \in 1..Len(endpoints) : endpoints[k].eventing)
  /\ pc' = "issue"
  /\ UNCHANGED <<setup, issued, completed, worker, reply, lats, profs, held, durations,
                 realCount, files>>

(* log.Fatal: the endpoints cannot be read, the target rps is too high,    *)
(* the TimeseriesDB does not answer, a file cannot be written.             *)
Fatal ==
  /\ pc \in {"flags", "start", "end", "writing", "writingProf"}
  /\ pc = "end" => tsdb
  /\ pc' = "fatal"
  /\ UNCHANGED <<setup, tsdb, issued, completed, worker, reply, lats, profs, held, durations,
                 realCount, files>>

(* The loop's body: a goroutine is started. *)
Issue ==
  /\ pc = "issue"
  /\ endpoints # <<>>
  /\ issued' = issued + 1
  /\ worker' = [worker EXCEPT ![issued + 1] = "calling"]
  /\ pc' = "select"
  /\ UNCHANGED <<setup, tsdb, completed, reply, lats, profs, held, durations, realCount, files>>

(* issued%len(endpoints) without endpoints divides by zero. *)
IssuePanics ==
  /\ pc = "issue"
  /\ endpoints = <<>>
  /\ pc' = "panic"
  /\ UNCHANGED <<setup, tsdb, issued, completed, worker, reply, lats, profs, held, durations,
                 realCount, files>>

Tick ==
  /\ pc = "select"
  /\ issued < MaxIssued
  /\ pc' = "issue"
  /\ UNCHANGED <<setup, tsdb, issued, completed, worker, reply, lats, profs, held, durations,
                 realCount, files>>

(* The experiment's time is over; realRPS is computed. *)
Timeout ==
  /\ pc = "select"
  /\ realCount' = completed
  /\ pc' = "end"
  /\ UNCHANGED <<setup, tsdb, issued, completed, worker, reply, lats, profs, held, durations,
                 files>>

(* End: the durations of the COMPLETED invocations, none without a         *)
(* connection.  The TimeseriesDB reports at most one per invocation.       *)
(* SayHello sends metadata with every request, so these may be requests of *)
(* any endpoint whose workflow emits matching events.                      *)
End(reported) ==
  /\ pc = "end"
  /\ tsdb \/ reported = {}
  /\ \E order \in [1..Cardinality(reported) -> reported] :
       /\ \A j, k \in DOMAIN order : j # k => order[j] # order[k]
       /\ durations' = [k \in DOMAIN order |-> [by |-> "tsdb", request |-> order[k]]]
  /\ tsdb' = FALSE
  /\ pc' = "add"
  /\ UNCHANGED <<setup, issued, completed, worker, reply, lats, profs, held, realCount, files>>

(* addDurations(End()) in two steps: the slice is read under the lock,     *)
(* then stored and the lock released.                                      *)
AddLock ==
  /\ pc = "add"
  /\ Free(latLock)
  /\ latLock' = Main
  /\ held' = [held EXCEPT ![Main] = latSlice]
  /\ pc' = "adding"
  /\ UNCHANGED <<setup, tsdb, issued, completed, worker, reply, latSlice, profs, durations,
                 realCount, files>>

Add ==
  /\ pc = "adding"
  /\ latSlice' = held[Main] \o durations
  /\ latLock' = Nil
  /\ pc' = "write"
  /\ UNCHANGED <<setup, tsdb, issued, completed, worker, reply, profs, held, durations,
                 realCount, files>>

(* writeLatencies: the lock is held while the file is written. *)
WriteLock ==
  /\ pc = "write"
  /\ Free(latLock)
  /\ latLock' = Main
  /\ pc' = "writing"
  /\ UNCHANGED <<setup, tsdb, issued, completed, worker, reply, latSlice, profs, held,
                 durations, realCount, files>>

Write ==
  /\ pc = "writing"
  /\ latFile' = latSlice
  /\ latLock' = Nil
  /\ pc' = IF flags.profile THEN "writeProf" ELSE "exit"
  /\ UNCHANGED <<setup, tsdb, issued, completed, worker, reply, latSlice, profs, held,
                 durations, realCount, durFile>>

(* writeFunctionDurations, likewise. *)
WriteProfLock ==
  /\ pc = "writeProf"
  /\ Free(profLock)
  /\ profLock' = Main
  /\ pc' = "writingProf"
  /\ UNCHANGED <<setup, tsdb, issued, completed, worker, reply, lats, profSlice, held,
                 durations, realCount, files>>

WriteProf ==
  /\ pc = "writingProf"
  /\ durFile' = profSlice
  /\ profLock' = Nil
  /\ pc' = "exit"
  /\ UNCHANGED <<setup, tsdb, issued, completed, worker, reply, lats, profSlice, held,
                 durations, realCount, latFile>>

-------------------------------------------------------------------------------
(* The relay's SayHello with -profile-function: the elapsed time is joined *)
(* to the reply with a bar and no blank, so the last of the message's      *)
(* blank-separated words is not a number.                                  *)
RelayReply(m) == [words |-> IF m.words = 0 THEN 1 ELSE m.words, last |-> "text"]

(* The reply SayHello receives, directly or through a relay. *)
Reply(r, m) == IF Endpoint(r).relay THEN RelayReply(m) ELSE m

(* The goroutine of r is at p, and main() has not ended the process. *)
At(r, p) == Running /\ worker[r] = p
Goto(r, p) == worker' = [worker EXCEPT ![r] = p]

(* After SayHello, a serving request's deferred getDuration runs. *)
MeasuresAll(r) == "measure"
AfterCall(r) == IF Serving(r) THEN "measure" ELSE "ended"

(* grpc.NewClient refuses the address: log.Fatalf. *)
ConnectionFails(r) ==
  /\ At(r, "calling")
  /\ pc' = "fatal"
  /\ UNCHANGED <<setup, tsdb, issued, completed, worker, reply, lats, profs, held, durations,
                 realCount, files>>

(* The call fails or times out: only a warning. *)
CallFails(r) ==
  /\ At(r, "calling")
  /\ Goto(r, AfterCall(r))
  /\ UNCHANGED <<pc, setup, tsdb, issued, completed, reply, lats, profs, held, durations,
                 realCount, files>>

CallReturns(r, m) ==
  /\ At(r, "calling")
  /\ reply' = [reply EXCEPT ![r] = Reply(r, m)]
  /\ Goto(r, IF flags.profile THEN "parse" ELSE "count")
  /\ UNCHANGED <<pc, setup, tsdb, issued, completed, lats, profs, held, durations, realCount,
                 files>>

(* The last word is recorded if it is a number.  profSlice.Lock() ... *)
ParseReply(r) ==
  /\ At(r, "parse")
  /\ reply[r].words # 0
  /\ IF reply[r].last = "number"
       THEN /\ Free(profLock)
            /\ profLock' = r
            /\ held' = [held EXCEPT ![r] = profSlice]
            /\ Goto(r, "record")
       ELSE Goto(r, "count") /\ UNCHANGED <<profLock, held>>
  /\ UNCHANGED <<pc, setup, tsdb, issued, completed, reply, lats, profSlice, durations,
                 realCount, files>>

(* words[len(words)-1] of a blank message ends the process. *)
ParsePanics(r) ==
  /\ At(r, "parse")
  /\ reply[r].words = 0
  /\ pc' = "panic"
  /\ UNCHANGED <<setup, tsdb, issued, completed, worker, reply, lats, profs, held, durations,
                 realCount, files>>

(* ... append, profSlice.Unlock() *)
RecordProfile(r) ==
  /\ At(r, "record")
  /\ profSlice' = Append(held[r], r)
  /\ profLock' = Nil
  /\ Goto(r, "count")
  /\ UNCHANGED <<pc, setup, tsdb, issued, completed, reply, lats, held, durations, realCount,
                 files>>

CountOne(n) == n + 1

Count(r) ==
  /\ At(r, "count")
  /\ completed' = CountOne(completed)
  /\ Goto(r, AfterCall(r))
  /\ UNCHANGED <<pc, setup, tsdb, issued, reply, lats, profs, held, durations, realCount, files>>

(* getDuration, addDurations: latSlice.Lock() ... append, Unlock() *)
MeasureLock(r) ==
  /\ At(r, "measure")
  /\ Free(latLock)
  /\ latLock' = r
  /\ held' = [held EXCEPT ![r] = latSlice]
  /\ Goto(r, "store")
  /\ UNCHANGED <<pc, setup, tsdb, issued, completed, reply, latSlice, profs, durations,
                 realCount, files>>

StillLocked(holder) == holder
Unlocked(holder) == Nil

Measure(r) ==
  /\ At(r, "store")
  /\ latSlice' = Append(held[r], [by |-> "invoker", request |-> r])
  /\ latLock' = Unlocked(latLock)
  /\ Goto(r, "ended")
  /\ UNCHANGED <<pc, setup, tsdb, issued, completed, reply, profs, held, durations, realCount,
                 files>>

Goroutine(r) ==
  \/ ConnectionFails(r) \/ CallFails(r)
  \/ \E m \in Message : CallReturns(r, m)
  \/ ParseReply(r) \/ ParsePanics(r) \/ RecordProfile(r) \/ Count(r)
  \/ MeasureLock(r) \/ Measure(r)

MainStep ==
  \/ \E eps \in EndpointLists : ReadEndpoints(eps)
  \/ Start \/ Fatal \/ Issue \/ IssuePanics \/ Tick \/ Timeout
  \/ \E reported \in SUBSET {r \in 1..issued : Endpoint(r).emits} : End(reported)
  \/ AddLock \/ Add \/ WriteLock \/ Write \/ WriteProfLock \/ WriteProf

Exited == ~Running /\ UNCHANGED vars

Next == MainStep \/ (\E r \in Request : Goroutine(r)) \/ Exited

(* The Go scheduler runs main() and every goroutine; a call returns within *)
(* its timeout; a mutex is starvation-free, so whoever waits for one gets  *)
(* it although others keep taking it.                                      *)
Fairness ==
  /\ SF_vars(MainStep)
  /\ \A r \in Request : SF_vars(Goroutine(r))

Spec == Init /\ [][Next]_vars /\ Fairness

-------------------------------------------------------------------------------
Times(s, x) == Cardinality({k \in 1..Len(s) : s[k] = x})

(* A serving request whose goroutine has ended has its latency in latSlice *)
(* exactly once, and the durations of End() stay there once added.         *)
LatencyKept ==
  /\ \A r \in 1..issued :
       Times(latSlice, [by |-> "invoker", request |-> r]) =
         IF Serving(r) /\ worker[r] = "ended" THEN 1 ELSE 0
  /\ pc \in {"write", "writing", "writeProf", "writingProf", "exit"} =>
       \A k \in 1..Len(durations) : Times(latSlice, durations[k]) = 1

(* A function duration is recorded once for each call that returned a      *)
(* number, before the call counts as completed.                            *)
ProfileKept == \A r \in 1..issued :
  Times(profSlice, r) =
    IF /\ flags.profile
       /\ reply[r] # Nil
       /\ reply[r].last = "number"
       /\ worker[r] \in {"count", "measure", "store", "ended"} THEN 1 ELSE 0

(* However the goroutines and main() interleave, no append to either slice *)
(* is lost, and none is made twice.                                        *)
RecordsKept == LatencyKept /\ ProfileKept

(* A request of an endpoint that is marked as serving although its         *)
(* workflow emits completion events.                                       *)
Mismarked(r) == Serving(r) /\ Endpoint(r).emits

(* No request has two latencies in the file, with one exception: Start()   *)
(* also defines the workflows of serving endpoints, so one whose eventing  *)
(* field is wrong has its requests measured by the invoker and, if another *)
(* endpoint is eventing, reported by the TimeseriesDB as well.             *)
OneLatencyPerRequest ==
  latFile # Nil => \A j, k \in 1..Len(latFile) :
    latFile[j].request = latFile[k].request =>
      \/ j = k
      \/ latFile[j].by # latFile[k].by /\ Mismarked(latFile[j].request)

(* The experiment ends although replies, ticks and the mutexes race: main  *)
(* is never shut out of the slices.                                        *)
Finishes == <>~Running
===============================================================================
