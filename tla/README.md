# vSwarm in TLA+

vSwarm is a suite of serverless benchmarks and the tools that deploy them on a
Knative cluster, load them and measure them. Most of its source is data,
generated code and small functions that keep no state. What can go wrong in a
way that tests hardly reach is in the stateful tools and in the benchmarks that
coordinate several services: handlers that share memory without locks, caches
and databases updated one after the other, processes that wait for each other,
amounts and counters at a boundary. These modules model those parts.

Paths below are relative to `src/`. `PROJECT.json` maps every definition to the
lines it translates and lists every run, mutant, hazard, finding and theorem.

## The system

| part | state it keeps | operations | what makes it correct |
| --- | --- | --- | --- |
| **TimeseriesDB** `tools/benchmarking_eventing/timeseriesdb/main.go` | map of workflows, their invocations with remaining descriptors, duration, status, event records | `StartExperiment`, `EndExperiment` (gRPC), `registerEvent` (one goroutine per CloudEvent) | every event of the running experiment is reported once; COMPLETED means all expected events came; the duration is the latest one's |
| **Invoker** `tools/invoker` | `latSlice`, `profSlice` behind a mutex each, atomic counters | issue requests round robin at a rate, a goroutine per request, stop after the duration, add what the TimeseriesDB measured, write files | no record lost, none counted twice, it ends |
| **Deployer** `tools/deployer` | channel used as semaphore, list of urls | run `kn` per function, at most `-conc` at a time, wait, write endpoints | bound respected, waits for all, ends, lists what runs |
| **Relay** `tools/relay` | none across requests | forwards `SayHello` to the benchmarked function, times it | reply the invoker can read |
| **Reservation** `benchmarks/hotel-app/reservation` | counts in memcached, reservations in MongoDB | `MakeReservation`, `CheckAvailability`, database reset at start-up | no overbooking, confirmed stays stored, refusal only when full |
| **Checkout, money and cart** `benchmarks/online-shop/{checkoutservice,cartservice}` | cart in Redis, charges and parcels elsewhere | `AddItem` (read, change, write back), `PlaceOrder` (cart, prices, charge, ship, empty, confirm) | sums exact; paid for what is shipped; nothing added gets lost |
| **Other hotel services** rate, profile, geo, search, recommendation, user | caches and indexes in front of MongoDB | look-ups that fill the cache | a cached answer equals the stored one |
| **Other shop services** catalog, currency, payment, shipping, recommendation, ad, email | catalog file reloaded on a signal; else none | look-ups, conversion | a whole catalog at a time; converted amounts valid |
| **Chained functions, serving** `benchmarks/chained-function-serving`, `utils/storage/go` | payload inline or by a key in a store; requests, goroutines and channels of each call | driver (pipeline, gather, scatter, broadcast), producer, consumer | every consumer of a scatter gets its own reference key; a gather collects each producer's capability once; a call without an error has delivered everything; the driver returns |
| **Chained functions, eventing** `benchmarks/chained-function-eventing`, `tools/benchmarking_eventing/vhivemetadata` | none; the invocation's metadata travels with call and event | producer sends a CloudEvent, consumer answers with another, triggers hand both to the TimeseriesDB | a run measures the calls it made, each once and after the consumer served it; the pipeline ends |
| **Eventing tutorial** `tools/knative-eventing-tutorial` | none | server turns readings into events, a consumer answers hot ones with events, another logs alerts | alerts for the hot readings and no others, however often an event is delivered |
| **Tracing** `utils/tracing/go`, `tools/relay` | tracer provider and propagator of each process | spans around calls, exported as they end | the spans of a request are one tree, in one trace |
| **Trace plotter** `tools/trace-plotter` | slice of spans with pointers into itself; index, mutex and WaitGroup of its goroutines | load by pages, build trees, sort, draw two charts, download each root's trace | each span below one root, each root drawn and downloaded once, charts that agree |
| **Map-reduce, stacking, tuning-halving** | intermediate objects in S3 | drivers that fan out to mappers, trainers, reducers and collect the results | reducers see every mapper's output; the best configuration survives |
| **Video analytics, gg** | frames in S3 | streaming, decoding in a pool, recognition | every frame is recognised |
| **utils/storage, tools/registry, test-client** | none | object store wrapper, image pusher, a single call | - |

They interact like this. The deployer starts functions and writes their
endpoints to a file. The invoker reads the file and calls each function,
directly or through the relay; for eventing endpoints it first opens an
experiment at the TimeseriesDB, to which the Knative broker then delivers the
functions' events, and at the end collects the durations. Functions call each
other over gRPC, put payloads in S3, and share memcached, MongoDB or Redis. Every
process may be traced: its spans go to Zipkin, whose storage the trace plotter
reads.

## Modules

Each module has a header that states its subject; variables and actions carry
the names of the code. A `...Proofs` module holds the theorems about the module
of the same name, `ToolsProofs` those about `Invoker`, `Deployer`, `TempAlerts`
and `Tracing`, which share no name so that one module can extend them all; an
`MC...` module gives constants their values for TLC. A
definition placed just before an operator or action and never used in a
specification is a faulty variant of it (a dropped guard, an off-by-one): the
mutants listed in `PROJECT.json` swap it in to show that a property notices.

| module | models |
| --- | --- |
| `CompletionEvents` | how an event matches a descriptor and what the latest duration is, used by both modules below |
| `TimeseriesDB` | the server with each access of shared memory as a step of a handler, its crashes (`log.Fatal`, panics, concurrent map access) and restarts |
| `TimeseriesSpec` | what it promises: events credited in one step, a latency for each invocation that received all of its events |
| `Invoker` | `main`, the request goroutines, both mutexes, the reply as the relay and the functions build it |
| `Deployer` | `main`, the goroutines, the channel |
| `Reservation` | both handlers, in several instances that start and crash, over a shared cache that may evict and a shared collection |
| `ReservationSpec` | a reservation book that answers each request in one step |
| `Money` | package `money`: validity, `Sum` with its carry, borrow and int32 width |
| `OrderTotal` | `PlaceOrder`'s total, one addition at a time, with `MultiplySlow` and `Must` |
| `ChainedServing` | the driver's patterns, the producer's and consumer's handlers and goroutines, the store, deadlines and instances that die |
| `Checkout` | `AddItem` and `PlaceOrder` as sequences of calls that may fail before or after their effect |
| `ChainedEventing` | composition: runs of the invoker, the producer, the consumer and their triggers, with `TimeseriesSpec` as the TimeseriesDB |
| `TempAlerts` | the tutorial's server and consumers, with a broker that delivers again |
| `AlertSpec` | what the tutorial promises about alerts |
| `Tracing` | a chain of processes, each with its own environment and sampler, and the spans of requests through it |
| `Traces` | pure functions of the trace plotter on a slice of spans: trees, roots, deepest leaf, status code, order; `Tracing` uses them too |
| `TracePlotter` | `main`: pages, both parses, charts, goroutines and their files |

Two modules have a variable that never changes and is chosen when a behaviour
begins: `load` of `TimeseriesDB` and of `Reservation` says how many requests
there are, how many at a time, and how many instances and cache faults. One run
then covers behaviours without overlap, in which the server implements its
abstract specification, and with overlap, in which only weaker properties hold.

### TimeseriesDB

Go pointers are object names: a `Workflow` is the pair of the experiment that
made it and its id, an `Invocation` is named after the handler that allocated
it, so that a handler can go on with an object that is no longer in the map.
`pc[h]` says which statement of `registerEvent` (`lookup`, `register`,
`check`, `remove`, `shrink`, `compare`, `duration`, `status`, `append`,
`store`) comes next. An event of an unknown workflow, and a map that the Go
runtime sees used while it is written, end the process; `Restart` brings it back
with no memory. A handler that finds its workflow gone, or its index outside a
descriptor list that others have shortened (`RemovePanics`, main.go:181), panics,
which the CloudEvents SDK recovers: the delivery fails and the server goes on.
Two things are coarser than the code: `checkCompletion` compares all descriptors
in one step, and `StartExperiment` stores a workflow and its descriptors in one
(a handler that reads the map meanwhile is covered by `MapFault`).

### Invoker and relay

A latency is a record of who measured it (the invoker or the TimeseriesDB) and
of which request. The mutex operations are separate steps, and a goroutine
holding one keeps its own copy of the slice header (`held`), so that a missing
lock would show as a lost append. Replies are a few shapes: blank, ending in
a number, ending in a word; the relay's joins the number to the word before it.
An endpoint has three independent marks: `eventing` as the endpoints file says,
`relay`, and `emits`, whether events of its workflow match in the TimeseriesDB.
`Start()` defines a workflow for every endpoint once one is eventing, and every
request carries metadata, so `End` may report requests of any endpoint that
emits, also of one marked as serving.

### Deployer

`sem` counts the elements in the channel; main's filling loop and each
goroutine's deferred receive are steps. `kn` is external: it returns well or
not, in any order.

### Reservation

The handlers' loops over nights are steps of one night each: cache read,
query on a miss, cache fill, capacity check, cache update, insert. The query
translates the field names it really asks for. An instance that starts empties
the collection and inserts the first documents. Requests name a hotel: one that names
none panics at `server.go:119` before it reads or writes anything.

### Checkout

`OrderTotal` shows that sums are exact, so `Checkout` counts money as integers.
`Charges`, `Ships`, `Empties` and `AddWrites` each have the outcome "done, but
the answer was lost", which the caller sees as an error. Reading prices, the
quote and the conversion are one step, because nothing modelled changes them.

### ChainedServing

A call of the driver has one job per request it makes of a producer, a job one
thread per transfer to a consumer. `request[j]` is the driver's goroutine,
`job[j]` the producer's handler, `thread[x]` the producer's goroutine together
with the `ConsumeByte` it calls, `fetch[c]` and `getter[c]` the `FetchByte`
handler and its goroutines. `errorChannel` and `capabilityChannel` of
`benchFanIn` are the sequences they are; the producer's and the consumer's
channels, which carry only nil or one error that ends the loop, are the stages
of the goroutines that send on them. `log.Fatal` and panics end an instance with
all its jobs (`Dies`, `ConsumerDies`). `expired[c]` is the context that every
call made for `c` inherits.

### ChainedEventing

`Forget` and `Define` are the two halves of `Start()` that an event of an
earlier run can fall between, `End` is `End()`. `metadata[i]` holds what
`MakeVHiveMetadata` put into the call and everybody passes on. `broker` holds
deliveries, each with the trigger it is for and how often it was tried; a copy
carries a number, because the consumer's answers share the id of the event they
answer. The TimeseriesDB serves each delivery by a handler of its own
(`registering`): `Lookup` takes the time and looks workflow and invocation up,
`Register` does the rest and answers the broker. A handler that overlaps no other
of its invocation (`Serial`) takes a step of the abstract server (`INSTANCE
TimeseriesSpec`, whose `Credit`, `Define`, `Reset` and `End` are used here); that
the server implements it for serial deliveries is the subject of `TimeseriesDB`,
and so is what happens otherwise. The triggers hand the greeting and the answer of
one call to the TimeseriesDB as separate deliveries, so the others do occur: when
two handlers find no invocation (`raced`), each registers one, and what was credited
to the one replaced is lost, while a handler whose descriptor another removed in
between may panic or set the duration again (`Overlapping`, `RegisterPanics`).
The outcome is a choice among these, whatever the order of their statements. A
handler panics as well when the next run's `Start()` has removed its workflow. An
event of a workflow that is not known (`RegisterUnknown`) and a map in use while
it is written (`MapFault`) end the server and all its handlers, whose deliveries are
tried again; an invoker it was just serving then ends too. The broker may stop
waiting for a handler that goes on (`DeliveryFails`). One producer instance is
modelled: it ends, with all the calls it serves, when the broker does not
acknowledge an event or a call has no metadata.

### TempAlerts

Two flags for the server, `sink` and `serving`: it ends at once until the
SinkBinding has set `K_SINK`. `Callback` gives what a consumer answers (status,
reply, log). `uuids` counts the random ids drawn. The broker may hold malformed
events of others.

### Tracing

`open[r]` is the stack of spans a request is in: a client's span in one process,
a server's in the next. `Traced`, `Propagated` and `Sampled` say what a
process's environment makes of a context. Spans are exported as they end, the
innermost first, and an export may fail; a process that ends loses its open
spans (`Die`), which includes the invoker's `main`, which does not wait.
`Plotter` (`INSTANCE Traces`) decides which spans the trace plotter takes for
roots.

### TracePlotter

The slice `traces` is a sequence, a pointer into it an index, and what `m` maps
ids to is `Mapped`. The order in which Go ranges over a map and `sort.Slice`,
which is not stable, are a choice among all orders the key allows. Ten
goroutines share `index` under `mutex`; `os.Create` and `io.Copy` are separate
steps on a file named by trace id, so that two goroutines can meet in one file.
Durations drawn are counted in units of 1e-12; `Micro` is a microsecond. Stored
spans are finished: Zipkin gives each a duration of at least a microsecond.

## Runs

| run | shows | bounds and why they are enough |
| --- | --- | --- |
| `tsdb` | with deliveries that do not overlap the server implements `TimeseriesSpec` and loses no event; whatever races, an invocation reported COMPLETED has a duration and has had as many completion events as its workflow has descriptors, and an event is recorded once | three deliveries one by one, or two that overlap; two experiments, one restart: a repeated event, an event of an earlier experiment and one after a crash occur, and each race is between two steps of two handlers and one call of the invoker |
| `tsdb_race_loses_event` | two deliveries at once lose an event | as small as the counterexample allows |
| `chained_serving` | keys differ, capabilities are gathered once each, a call without an error delivered all, the driver returns | patterns of two transfers, two producers; two invocations where they can share an instance; an instance may die at any storage access or failed call |
| `deployer` | the limit holds, the wait is sound, it ends | capacity 2 and up to five deployments: the channel is full while some run and while main drains |
| `invoker` | no append lost; no request has two latencies, unless its endpoint is marked as serving and its workflow emits completion events all the same; the invoker ends | three requests to a plain endpoint, to an eventing one and one that is wrongly marked, or to none |
| `reservation` | requests one at a time implement `ReservationSpec` and never overbook; with concurrent ones no count above capacity is cached and confirmed stays are stored | three requests out of eight kinds (one and two nights, no night, two hotels) one by one; or out of three competing kinds, two at a time on two instances with a cache fault; `main()`'s reservation is in the collection |
| `order_total` | sums are exact to the nano, `Must` never panics at costs of at least a unit | `nanosMod` 5 and `Half` 11 keep the order of 10^9 and 2^31 (two sums fit, three do not); up to two items, quantities that wrap |
| `checkout` | parcels are paid for what they hold, a returned order was charged and shipped once, every call returns; when calls do not overlap, what was added is in the cart or was shipped | two adds and two orders, one after the other and interleaved; each call may fail before or after its effect |
| `trace_plotter` | each span is below at most one root and a root that is drawn shows the duration of its deepest leaf and its worst status; both charts hold every root in order; the second parse agrees with the first; each root is downloaded once, and the file saved for one is whole if no other root has its trace id | all parents among three spans, with equal ids, missing parents and cycles, and five spans in three levels with all statuses; pages that end within and between; two goroutines on three roots, two of them in one trace; any answer may be an error |
| `temp_alerts` | the tutorial implements `AlertSpec`; ids are unique | two calls, temperatures on both sides of both limits, three tries, two faults: an event is delivered again after each possible loss |
| `tracing` | a request is one tree for each traced part of the chain, and exactly one when all use basic tracers and nothing was lost | invoker, relay and function in ten settings, two requests, two faults (a lost span and a process that ends) |
| `chained_eventing` | reported latencies are of served calls of the same run, one each; one answer for each event; an answered call is measured unless the run ends, the server died, the broker gave up or two handlers found no invocation of it | two runs of two calls, two handlers at once, two tries and one fault: events of the first run arrive in the second, and a call's greeting and answer are registered at the same time |

A run whose expectation is a violation checks one statement a document, comment
or test makes; `PROJECT.json` quotes it under "findings". `CHECK_DEADLOCK FALSE`
is set where the modelled processes are done at some point.

Fairness is assumed only where a liveness property is checked. The Deployer's
is weak fairness of main, of `kn` (which gives up after its own timeout) and of
the goroutines. The Invoker's is strong fairness of main and of each goroutine,
because Go's mutex hands over to a waiter that others keep overtaking. The
Checkout's is weak fairness of each order in progress: its calls are answered or
fail. ChainedServing's is weak fairness of the driver, of its requests and of
its deadline (`grpcTimeout`), and none of the producers and consumers; it
includes that connections get established, for `grpc.Dial` blocks without a
deadline (Knative's ingress accepts them; under docker-compose a producer that
is down would keep the driver waiting). TempAlerts' is weak fairness of the
broker's deliveries, ChainedEventing's of a producer that serves, a broker
that delivers and handlers that return (`Progress`); faults, users and processes that start are under
none. `AlertSpec` asks that an alert that is owed comes, and its fairness is
implemented by the broker's.

## Other disagreements noticed

Modelling met more places where the code does something else than a document or
its own structure suggests. They have no run of their own.

* **TimeseriesDB.** Two handlers that remove descriptors of one invocation at
  the same time can mark it COMPLETED early or leave an earlier duration, which
  is why `ImplementsAtomic` is stated for serial deliveries only. A repeated
  completion event leaves `isCompletion` false.
* **Invoker.** `grpcTimeout` is computed from its flag before `flag.Parse`
  (also in the chained driver), so the flag has no effect. Requests in flight
  when the experiment ends are not waited for, although `docs/methodology.md:20`
  says that it "collects all records". Once one endpoint is eventing, all get a
  workflow and all requests carry metadata: what is measured of an endpoint whose
  functions send matching events, but which is marked as serving, counts twice. The relay joins its duration to the
  reply with a bar, at which the invoker does not split, so that it never parses
  as a number.
* **Deployer.** A function whose `kn` failed is listed as an endpoint.
* **Reservation.** Two concurrent requests for the last room both succeed. An
  instance that starts empties the collection but not the cache, whose counts
  refuse guests for rooms that are free.
* **Reservation, the query.** A miss in the cache queries the fields `inDate` and
  `outDate`, which the driver stores as `indate` and `outdate`: it finds nothing,
  and a count starts at 0 whatever is booked. So the reservation that `main()`
  stores (`db.go`, Alice's) is never counted, and its night can be sold once
  more: `NoOverbooking` and `ReservationSpec` are about what requests reserve.
* **Money.** `Sum` of 0 and 0.1 gives units 1 and a negative fraction, an
  amount `IsValid` refuses (`money/money.go:102-115`: a sum of 0 units and some
  nanos counts as one of different signs). The shop's costs have at least one unit.
* **Checkout.** `MultiplySlow(m, 0)` is `m`. An item added while an order is in
  progress is removed by its `emptyUserCart`, and of two overlapping adds one is
  lost.
* **Chained functions.** `Benchmark` drops the outcome of `fanOut` and
  `broadcast`, and the driver answers "Success" in any case. A deadline at the
  driver cancels `ConsumeByte` at the producer, which then ends itself.
* **Chained eventing.** The README has the user call the producer with grpcurl
  and no metadata: `unmarshalVHiveMetadata` then ends it. The race of
  `NoEventLost` can leave an answered call of this benchmark unmeasured, for
  both of its events go to the TimeseriesDB.
* **Eventing tutorial.** The caller of `ReadTemp` is told Ok although `Send`
  failed.
* **Tracing.** When `InitBasicTracer` fails, invoker and relay only warn and have
  deferred a nil `shutdown`, at which they panic on return.
* **Trace plotter.** Roots with one trace id share a file, which `os.Create`
  empties when the second is downloaded. Its README speaks of the latency of the last trace; what is
  subtracted is that of the first of the deepest leaves.

## Theorems

All are proved for every value of the constants that the named assumptions
(`ConstantsAssumption`, `DeployerAssumption`, `InvokerAssumption`,
`AlertsAssumption`, `TracingAssumption`, `MoneyAssumption`,
`OrderTotalAssumption`, `ServingAssumption`, `PlotterAssumption`,
`ReservationAssumption`, `CheckoutAssumption`, `EventingAssumption`) admit; TLC
evaluates those on every run. Every safety property of the passing runs is
proved but those listed at the end of this section.

* `TimeseriesDBProofs`. `TypeCorrect` is inductive by itself once it says which
  locals point to an allocated `Invocation` at which step. `CompletionsAreEarned`:
  a descriptor leaves a list only through a handler, which stores one less than it
  read; so the length of an `Invocation`'s list and the number of handlers that took
  from it are together never less than its workflow's descriptors, however stale
  what they read was (`EarnedInv`), and a list found empty was emptied by as many. `CompletedIsTimed`
  needs that a handler past `duration` has left a duration in the object it is
  about to mark, and that no other step clears one: `IInv` says so.
  `EventsRecordedOnce` adds `RecordInv`: every handler named in a slice of records,
  stored or held by a handler about to store it, is done and wrote into just this
  `Invocation`, whose workflow and id are its event's; a handler that stores is not
  done yet, so it is not in the slice it appends to.
  `SerialDeliveriesKept`: with one delivery at a time, whatever experiment begins
  or ends in the middle of it, the place that the lookup found empty stays empty
  in its map and in all later ones until the handler registers there, so that what
  it registers replaces nothing (`SerialInv`).
  `SerialIsAtomic` is the refinement of `TimeseriesSpec`. Each `Invocation` of the
  running experiment is tallied (`AtomicInv`): the descriptors it still waits for
  and the handlers that have removed one are together as many as its workflow's
  descriptors, its duration is the longest latency of those credited, and it is
  COMPLETED just when none is left. A counting argument over finite sets turns
  this into the atomic specification's view, which has no objects: only events,
  credited in one step, and their latencies.
* `ToolsProofs`, the Deployer. Each element of the channel is the slot of one goroutine
  (running `kn`, or done and about to receive) or one that main put there while
  filling it: `sem` is the sum of the three. `BoundedConcurrency` follows from
  the capacity, and `WaitsForAll` because after the last send main's own
  elements take all of it. Finite-set cardinality facts carry the proof.
* `ToolsProofs`, the Invoker. `RecordsAreKept`: the position of a goroutine, or of
  main, says whether it holds a mutex, so at most one holds each; and what a holder
  is about to append to is the slice as it still is (`Locked`). Then the slice
  has one latency for each serving request whose goroutine has ended after it was
  measured, and a request is profiled exactly between its reply and its count
  (`Measured`, `Profiled`). `RequestsMeasuredOnce`: the latencies of the
  goroutines are of distinct serving requests, those of the TimeseriesDB of distinct
  requests whose endpoints emit, so that only a request that is both, one of an
  endpoint wrongly marked, has two.
* `ToolsProofs`, the eventing tutorial. `EveryIdIsNew`: ids of events are below
  the number of ids drawn. `AlertsAreGenuine`, the safety half of `AlertSpec`: every
  event in the broker that carries data is that of an accepted reading, and one
  for the overheat-consumer of a hot one (`BrokerInv`), which answering, losing and
  delivering again all preserve.
* `ToolsProofs`, Tracing. `TreesAreOfEntries` and `TreesAreWhole` rest on `TracingInv`. For
  each request there are the number `m` of spans its calls have made and the set
  `S` of those sampled; a span that is sampled makes all sampled that its context
  reaches; those still open are the first, those stored come after them, and of
  `S` no more are in neither place than `lost` counts. So a stored span
  without a stored parent either comes first in its part of the chain, of which
  there is one for each entry, or follows a span that got lost; both are
  injections. With basic tracers everywhere `S` is all of `1..m`, and if nothing
  was lost all of it is stored when the request is done.
* `OrderTotalProofs`. Lemmas about truncated division, the int32 conversion and
  `Sum` (`SumIsMoney` for any amounts, `SumNotNegative` for those the shop
  has) give `TypeCorrect`, `NoOrderPanics` and `MultiplySlowExact`. `NeverPanics`
  is not inductive: `IInv` adds that total and product stay valid, not negative
  and in one currency, since that is what the next addition requires.
  `ChargesTheExactTotal` adds what the total is worth at each step: the shipping and
  the items before the current one, and of that one as many times its cost as
  `MultiplySlow` has added (`TotalSoFar`). `ItemsValue` is a function defined by
  recursion over the items, whose equation holds once such a function exists;
  that is shown for sums of every length by the least length without one.
* `ChainedServingProofs`. `ReferencesAreOwn`: a thread of a scatter has no
  reference or the one of its job's instance and its number. That is inductive
  once it is known that a job's instance is chosen before any of its threads has
  a reference, and that no job of a scatter uploads for all of them.
  `CleanCallsAreConsumed` goes backwards through a call: the driver counts a success
  only once it was replied to, and a producer replies only when every payload of its
  job has been acknowledged, but in a scatter by XDT, whose failure `Benchmark`
  forgets, and in a gather; there it is the fetch that counts, which is answered
  only when every capability has been got.
  `GatherIsComplete`: what waits in either channel of `benchFanIn`, and what was
  collected, comes from a job of its own. That is an injection into the jobs, so
  its cardinality bounds the channels, and with `fanIn` many it is onto.
* `TracePlotterProofs`. `DownloadsEachOnce`: a goroutine that has released the lock
  has an index that no other has and that the shared one has passed, a root
  below the shared index has been tried unless a goroutine is about to, and the
  WaitGroup counts the goroutines that have not ended. `SavedStaysWhole`: if no
  other root has its trace id, a goroutine that copies has created the file last,
  and once it is saved no goroutine is at that root again.
  `EverySpanLoaded`: the slice is the prefix of the stored spans that the pages so
  far hold, and the scroll ends only at a page without hits.
  The trees are graphs that Go walks by recursion: any parents, ids twice or
  missing, cycles. In the model each walk is a function of a span and a number of
  levels, as many as there are spans. `EverySpanHasOneRoot`: the ancestors of a span
  are the values of a sequence; below a root no span is further than there are
  spans, because the ancestors up to it are distinct, and cycles are below no root.
  `SystemLatencyIsOfDeepestLeaf`: so the levels do not run out, and the recursion
  returns a leaf of the tree that is as deep as any. `ParsingTwiceAgrees`: the
  second parse lists each child once more behind the first time, which changes
  neither the first of the deepest nor which spans are roots. `ErrorsAreShown`: a
  status that is drawn was found at a span of the tree, and the children's are
  looked at before what lies below. `ChartsAreComplete`, for both charts: the
  durations of the roots in their order are sorted, also where they are clamped
  (`DurationsSorted`); a dot records its root, so there are as many as roots; and of
  sorted values as many are up to a quantile as the distribution function says
  (`QuantileOfCDF`). It is assumed that stored spans are finished, with a duration
  of at least a microsecond. `Grown` ties all this to the steps: once parsed, the
  children are those of one or of two parses, and the system durations go with them.
* `CheckoutProofs`. `ParcelsArePaid`: an order that is about to ship has been charged
  for the items it read, which it keeps from then on; carts, which others change
  in between, do not enter. `PlacedOnce`: an order charges at one of its steps and
  ships at another, and has no way back to either, so a confirmed one has one
  charge and one parcel. `ItemsKept`: without overlaps, what a call has read is the
  cart until it is done (`Undisturbed`), and an order that is about to empty the cart
  has already shipped as much as was ever added. Both amounts are folds over
  sets that no constant bounds, but that are finite in every state.
* `ReservationProofs`. `CountsFit`: a count a handler holds, to be written to the
  cache once all nights of a stay have been checked, is within the capacity that
  it was checked against; and what a miss fills in is 0, since its query finds
  no document. How stale the count is does not matter for this bound.
  `ConfirmedStays`: a request inserts its nights in order, those before the one it
  is at are stored for it, and nothing removes a document but a further instance
  that starts and drops the collection, after which the promise is not made.
  `NeverOverbooked` and `SerialIsAtomic`, for requests one at a time: the cache counts
  exactly what answered requests have reserved, and, while a stay is booked, its
  rooms for the nights whose total has been written (`SerialInv`). That counts are
  exact although a miss finds no document needs that an entry is missing only
  where nothing is sold. So a handler knows for each night it has passed that there
  is room, when it stores the stay no other request has documents that are not
  counted, and the last insert is the step of `ReservationSpec` that books it.
  The sums of rooms are folds over sets of documents; that one more document adds
  its rooms, in whatever order they are added up, is proved first.
* `ChainedEventingProofs`. `ReportsOnlyServed` follows from six facts: a call is
  made before its event is consumed; an event of the consumer was sent after
  that; a handler takes the time after both, so that what it credits later, alone
  or overlapping others, is no shorter (`Handlers`); the only workflow the TimeseriesDB knows is that of the current run, with
  one descriptor; so one event at most is credited to a call, in the run that
  made it; and what was reported stays true, for metadata and the time of the
  first delivery never change again. `AnswersAreFew` balances a call's account: the
  consumer's events and the deliveries still due are never more than the producer's
  events and the faults that repeated one.

Sums over sequences and sets are recursive functions. The induction schemes of the
library take an operator as a parameter, which no installed prover instantiates;
here the set of the numbers (or of the finite sets) with the property takes its
place, and `WFMin`, that a set of naturals has a least element, that of induction
(`LeastElement`, `AllNumbers`, `FiniteSetsAll`).

Only model-checked: liveness (`DeployEnds`, the Invoker's `Finishes`, `OrdersReturn`,
`DriverReturns`, and `Measured` of `ChainedEventing`), since `ENABLED` and fairness are
out of the prover's reach; with it the part of the refinement of `AlertSpec`
(`KeepsPromise`) that says that an alert comes; and `NoEventLost`, which fails.

## Not modelled

Generated protobuf code, data, scripts, yaml other than the triggers and the
SinkBinding, Dockerfiles; logging; the looks of charts; the Python and node.js
tracers, which no modelled process uses; pure computations (aes, fibonacci,
image rotation, model serving, compression); upstream frameworks (corral, gg);
the tools that run once and sequentially (registry, test client, database
initialisers). The hotel's and shop's read-only services, map-reduce, the training
drivers and video analytics are in the plan below. `PROJECT.json` gives the
reason for each part.

## Plan

Done: the tools and the benchmarks that keep state or coordinate processes, and
the composition of an eventing experiment. What is left, in this order:

1. `ProductCatalog` (requests that read the catalog while another one parses the
   file into it), `HotelCache` (`rate` and `profile` against an abstract look-up),
   `VideoDecoder` (shared `frameCount`, pool of workers), `MapReduce` and
   `TuningHalving` (reducers see every mapper's keys; halving keeps the best),
   with stacking training's driver alike.
2. With each of them its theorems: that a look-up answers what is stored, that
   every key reaches one reducer, that every frame is decoded once.
