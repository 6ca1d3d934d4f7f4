----------------------------- MODULE TracePlotter -----------------------------
(***************************************************************************)
(* tools/trace-plotter: load all spans page by page, build the trees, let  *)
(* a pool of goroutines download each root's trace, draw two charts.       *)
(* Elasticsearch, Zipkin and the plotting library are external: the first  *)
(* two may answer with an error at any call, and the library's quantiles   *)
(* refuse durations that are not sorted.                                   *)
(***************************************************************************)
EXTENDS Traces, FiniteSets

CONSTANTS
  Settings,   \* [stored, flags]: the spans Elasticsearch holds, all finished,
              \* and the command line [pageSize, download, skipPlotting]
  Thread,     \* the downloading goroutines, ten in the code
  Micro,      \* a microsecond in units of the smallest duration drawn, 1e-12
  Nil

ASSUME PlotterAssumption ==
  /\ \A s \in Settings :
       s.flags \in [pageSize : Nat \ {0}, download : BOOLEAN, skipPlotting : BOOLEAN]
  /\ \A s \in Settings : s.stored \in Seq(Range(s.stored))
  /\ \A s \in Settings : \A i \in DOMAIN s.stored :
       /\ s.stored[i].duration \in Nat \ {0}
       /\ s.stored[i].code \in Int \cup {NoTags, NoNumber}
  /\ IsFiniteSet(Thread) /\ Thread # {}
  /\ Nil \notin Thread
  /\ Micro \in Nat /\ Micro > 1

VARIABLES
  pc,          \* where main() is
  flags,       \* the command line
  stored,      \* the spans the search matches
  returned,    \* spans the scroll has returned so far
  failed,      \* an answer of Elasticsearch was an error
  traces,      \* the slice the pages are appended to
  child,       \* child[i]: traces[i].Child
  system,      \* system[i]: traces[i].SystemDuration
  e2e, bySystem,   \* the roots in the order of each chart
  index, mutex, wg,   \* shared by the goroutines: next root, lock, WaitGroup
  worker,      \* worker[t]: where goroutine t is
  at,          \* at[t]: its threadIndex
  tries,       \* tries[k]: calls of DownloadFile for the k-th root
  saved,       \* trace ids of which a DownloadFile returned nil
  file, creator,   \* the files by trace id, and who created each last
  chart        \* the charts: "e2e" and "system"

loading == <<flags, stored, returned, failed>>
forest == <<traces, child, system>>
shared == <<index, mutex, wg>>
files == <<tries, saved, file, creator>>
downloading == <<shared, worker, at, files>>
vars == <<pc, loading, forest, e2e, bySystem, downloading, chart>>

TraceIds == {traces[i].trace : i \in DOMAIN traces}
NoChart == [x \in {} |-> <<>>]

Init ==
  /\ pc = "search"
  /\ \E s \in Settings : flags = s.flags /\ stored = s.stored
  /\ returned = 0
  /\ failed = FALSE
  /\ traces = <<>> /\ child = <<>> /\ system = <<>>
  /\ e2e = <<>> /\ bySystem = <<>>
  /\ index = 0 /\ mutex = Nil /\ wg = 0
  /\ worker = [t \in Thread |-> "none"]
  /\ at = [t \in Thread |-> 0]
  /\ tries = <<>> /\ saved = {}
  /\ file = <<>> /\ creator = <<>>
  /\ chart = NoChart

-------------------------------------------------------------------------------
(* GetTraces: the hits from position n on, a page of them. *)
EndOf(n) == n + flags.pageSize
Page(n) == SubSeq(stored, n + 1, IF EndOf(n) < Len(stored) THEN EndOf(n) ELSE Len(stored))

(* for _, hit := range r.Hits.Hits *)
AppendHits(hits) == traces \o hits

LastPage(hits) == hits = <<>>

(* Search or Scroll answers with a page: its spans are appended; an empty  *)
(* page, of Scroll only, is the last.                                      *)
ReadPage ==
  /\ pc \in {"search", "scroll"}
  /\ traces' = AppendHits(Page(returned))
  /\ returned' = returned + Len(Page(returned))
  /\ pc' = IF pc = "scroll" /\ LastPage(Page(returned)) THEN "parse" ELSE "scroll"
  /\ UNCHANGED <<flags, stored, failed, child, system, e2e, bySystem, downloading, chart>>

(* getEsResponse: an error response (of a scroll that expired, say) or one *)
(* that cannot be decoded.  What was loaded is kept.                       *)
ReadFails ==
  /\ pc \in {"search", "scroll"}
  /\ failed' = TRUE
  /\ pc' = "parse"
  /\ UNCHANGED <<flags, stored, returned, forest, e2e, bySystem, downloading, chart>>

(* No response at all: res is nil, and deferring res.Body.Close()          *)
(* dereferences it (or the client cannot be made, and main() ends).        *)
ReadPanics ==
  /\ pc \in {"search", "scroll"}
  /\ pc' = "panic"
  /\ UNCHANGED <<loading, forest, e2e, bySystem, downloading, chart>>

-------------------------------------------------------------------------------
(* SystemDuration of a root: what its deepest leaf leaves of it. *)
MinusChildren(ch, i) ==
  traces[i].duration - Len(ch[i]) * traces[DeepestLeaf(ch, i)].duration
SystemDuration(ch, i) == traces[i].duration - traces[DeepestLeaf(ch, i)].duration

(* What each chart's roots are sorted by. *)
KeyDuration(sys, latencyType) == [i \in DOMAIN traces |-> traces[i].duration]
Key(sys, latencyType) ==
  [i \in DOMAIN traces |-> IF latencyType = "e2e" THEN traces[i].duration ELSE sys[i]]

(* The durations ParseTraces returns with the sorted roots; for the system *)
(* chart none is zero or negative.                                         *)
Durations(latencyType, order) ==
  [k \in DOMAIN order |->
     IF latencyType = "e2e" THEN traces[order[k]].duration * Micro
     ELSE IF system[order[k]] > 0 THEN system[order[k]] * Micro ELSE 1]

(* ParseTraces stores children and system durations in the shared slice,   *)
(* on top of what it finds there.                                          *)
ParseTraces(ch, sys, latencyType, order) ==
  /\ child' = AppendChildren(traces, ch)
  /\ system' = [i \in DOMAIN traces |->
                  IF i \in Roots(traces) THEN SystemDuration(child', i) ELSE sys[i]]
  /\ order \in SortedBy(Roots(traces), Key(system', latencyType))

(* The first call, in main(), on the slice as the decoder left it. *)
ParseE2E ==
  /\ pc = "parse"
  /\ \E order \in SetToSeqs(Roots(traces)) :
       /\ ParseTraces([i \in DOMAIN traces |-> <<>>], [i \in DOMAIN traces |-> 0], "e2e", order)
       /\ e2e' = order
  /\ pc' = IF flags.download THEN "mkdir" ELSE IF flags.skipPlotting THEN "done" ELSE "plot"
  /\ UNCHANGED <<loading, traces, bySystem, downloading, chart>>

(* The second call, in plotChart, on the same slice. *)
ParseSystem ==
  /\ pc = "plot"
  /\ \E order \in SetToSeqs(Roots(traces)) :
       /\ ParseTraces(child, system, "system", order)
       /\ bySystem' = order
  /\ pc' = "graphs"
  /\ UNCHANGED <<loading, traces, e2e, downloading, chart>>

-------------------------------------------------------------------------------
(* The library's empirical quantile and distribution function, of sorted   *)
(* durations.                                                              *)
Sorted(x) == \A j, k \in DOMAIN x : j < k => x[j] <= x[k]
Quantile(percent, x) == x[(percent * Len(x) + 99) \div 100]
CDF(q, x) == Cardinality({k \in DOMAIN x : x[k] <= q})

(* getPercentiles, without the mean. *)
Percentiles(x) ==
  IF x = <<>> THEN [median |-> 0, p90 |-> 0, p99 |-> 0]
  ELSE [median |-> Quantile(50, x), p90 |-> Quantile(90, x), p99 |-> Quantile(99, x)]

IsError(i) ==
  LET code == GetHTTPStatusCode(traces, child, i) IN code = NoNumber \/ code > 300

(* PlotGraph: the dots of the success and the error series, the quantiles. *)
PlotGraph(order, x) ==
  LET dot(k) == [root |-> order[k], latency |-> x[k], cdf |-> CDF(x[k], x)]
      series(which) == {dot(k) : k \in {l \in DOMAIN order : IsError(order[l]) = which}}
  IN [success |-> series(FALSE), error |-> series(TRUE), percentiles |-> Percentiles(x)]

LatencyTypes == {"e2e", "system"}
OrderOf(latencyType) == IF latencyType = "e2e" THEN e2e ELSE bySystem
Drawn(latencyType) == Durations(latencyType, OrderOf(latencyType))

(* Both charts; a quantile of durations that are not sorted panics.        *)
(* Whether the page gets written is only logged.                           *)
Graphs ==
  /\ pc = "graphs"
  /\ IF \A latencyType \in LatencyTypes : Sorted(Drawn(latencyType))
       THEN /\ chart' = [latencyType \in LatencyTypes |->
                          PlotGraph(OrderOf(latencyType), Drawn(latencyType))]
            /\ pc' = "done"
       ELSE pc' = "panic" /\ UNCHANGED chart
  /\ UNCHANGED <<loading, forest, e2e, bySystem, downloading>>

-------------------------------------------------------------------------------
(* downloadTraces starts the goroutines and waits for the WaitGroup. *)
StartDownloads ==
  /\ pc = "mkdir"
  /\ wg' = Cardinality(Thread)
  /\ worker' = [t \in Thread |-> "lock"]
  /\ tries' = [k \in DOMAIN e2e |-> 0]
  /\ file' = [d \in TraceIds |-> "none"]
  /\ creator' = [d \in TraceIds |-> Nil]
  /\ pc' = "wait"
  /\ UNCHANGED <<loading, forest, e2e, bySystem, index, mutex, at, saved, chart>>

MkdirFails ==
  /\ pc = "mkdir"
  /\ pc' = "panic"
  /\ UNCHANGED <<loading, forest, e2e, bySystem, downloading, chart>>

Wait ==
  /\ pc = "wait"
  /\ wg = 0
  /\ pc' = IF flags.skipPlotting THEN "done" ELSE "plot"
  /\ UNCHANGED <<loading, forest, e2e, bySystem, downloading, chart>>

mainParts == <<pc, loading, forest, e2e, bySystem, chart>>
Goto(t, p) == worker' = [worker EXCEPT ![t] = p]

(* sync.Mutex *)
Unprotected(holder) == TRUE
Free(holder) == holder = Nil

(* mutex.Lock(); threadIndex := *index *)
Lock(t) ==
  /\ worker[t] = "lock"
  /\ Free(mutex)
  /\ mutex' = t
  /\ at' = [at EXCEPT ![t] = index]
  /\ Goto(t, "unlock")
  /\ UNCHANGED <<mainParts, index, wg, files>>

(* *index++; mutex.Unlock() *)
Unlock(t) ==
  /\ worker[t] = "unlock"
  /\ index' = index + 1
  /\ mutex' = Nil
  /\ Goto(t, "claimed")
  /\ UNCHANGED <<mainParts, wg, at, files>>

Exhausted(k) == k + 1 >= Len(e2e)
PastEnd(k) == k >= Len(e2e)

WgDone(n) == n - 1

(* threadIndex >= len(traces): wg.Done() *)
Done(t) ==
  /\ worker[t] = "claimed"
  /\ PastEnd(at[t])
  /\ wg' = WgDone(wg)
  /\ Goto(t, "ended")
  /\ UNCHANGED <<mainParts, index, mutex, at, files>>

(* The trace id, and so the file, of the root that t is at. *)
TraceId(t) == traces[e2e[at[t] + 1]].trace

(* DownloadFile: http.Get, then os.Create, which empties the file, then    *)
(* io.Copy.  Any error ends the attempt; it is only logged.                *)
Get(t, answered) ==
  /\ worker[t] = "claimed"
  /\ ~PastEnd(at[t])
  /\ tries' = [tries EXCEPT ![at[t] + 1] = @ + 1]
  /\ Goto(t, IF answered THEN "create" ELSE "lock")
  /\ UNCHANGED <<mainParts, shared, at, saved, file, creator>>

CreateFails(t) ==
  /\ worker[t] = "create"
  /\ Goto(t, "lock")
  /\ UNCHANGED <<mainParts, shared, at, files>>

Create(t) ==
  /\ worker[t] = "create"
  /\ file' = [file EXCEPT ![TraceId(t)] = "cut"]
  /\ creator' = [creator EXCEPT ![TraceId(t)] = t]
  /\ Goto(t, "copy")
  /\ UNCHANGED <<mainParts, shared, at, tries, saved>>

(* Whoever emptied the file last determines it; what another goroutine     *)
(* wrote before or after that may or may not make it whole.                *)
Copy(t) ==
  /\ worker[t] = "copy"
  /\ \E content \in (IF creator[TraceId(t)] = t THEN {"whole"}
                     ELSE {file[TraceId(t)], "whole"}) :
       file' = [file EXCEPT ![TraceId(t)] = content]
  /\ saved' = saved \cup {TraceId(t)}
  /\ Goto(t, "lock")
  /\ UNCHANGED <<mainParts, shared, at, tries, creator>>

CopyFails(t) ==
  /\ worker[t] = "copy"
  /\ Goto(t, "lock")
  /\ UNCHANGED <<mainParts, shared, at, files>>

Download(t) ==
  \/ Lock(t) \/ Unlock(t) \/ Done(t)
  \/ \E answered \in BOOLEAN : Get(t, answered)
  \/ CreateFails(t) \/ Create(t) \/ Copy(t) \/ CopyFails(t)

Main ==
  \/ ReadPage \/ ParseE2E \/ ParseSystem \/ Graphs \/ StartDownloads \/ Wait

Fault == ReadFails \/ ReadPanics \/ MkdirFails

Exited == pc \in {"done", "panic"} /\ UNCHANGED vars

Next == Main \/ Fault \/ (\E t \in Thread : Download(t)) \/ Exited

Spec == Init /\ [][Next]_vars

-------------------------------------------------------------------------------
Stages == {"none", "lock", "unlock", "claimed", "create", "copy", "ended"}

(* Whatever the page size, paging through the scroll collects every span   *)
(* once and in order, unless an answer was an error; then those before it. *)
LoadsAll ==
  /\ traces = SubSeq(stored, 1, returned)
  /\ pc \notin {"search", "scroll", "panic"} /\ ~failed => traces = stored

(* What a span reaches through f in any number of steps. *)
Reached(i, f) ==
  LET within[n \in 0..Len(traces)] ==
        IF n = 0 THEN {i} ELSE within[n - 1] \cup UNION {f[k] : k \in within[n - 1]}
  IN within[Len(traces)]
Ancestors(i) == Reached(i, [k \in DOMAIN traces |-> Parent(traces, k)])
Tree(i) == Reached(i, [k \in DOMAIN child |-> Range(child[k])])

Parsed == pc \in {"mkdir", "wait", "plot", "graphs", "done"}

(* Every span whose chain of parents ends at a span of the map is in the   *)
(* tree of exactly one root, also when ids repeat; no other span is in a   *)
(* tree (those on a cycle, and a root hidden by a later one with its id).  *)
OneRootPerSpan ==
  Parsed => \A i \in DOMAIN traces :
    Cardinality({k \in DOMAIN e2e : i \in Tree(e2e[k])}) =
      IF \E k \in Ancestors(i) \cap Mapped(traces) : Parent(traces, k) = {} THEN 1 ELSE 0

(* The system duration of a root is its duration without that of a leaf    *)
(* that no other leaf of its tree lies below.                              *)
SystemLatency ==
  Parsed => \A r \in Range(e2e) :
    LET depth(i) == Cardinality(Ancestors(i))
        leaves == {i \in Tree(r) : child[i] = <<>>}
    IN \E i \in leaves : /\ \A j \in leaves : depth(j) <= depth(i)
                         /\ system[r] = traces[r].duration - traces[i].duration

(* Parsing the slice a second time doubles its children, and yet finds the *)
(* same roots and the same system durations.                               *)
SecondParseAgrees ==
  [][pc = "plot" => system' = system /\ Range(bySystem') = Range(e2e)]_vars

(* The charts are drawn of sorted durations (the library panics            *)
(* otherwise): each root has one dot in each chart, and the dots from a    *)
(* percentile on are those the distribution function puts there.           *)
ChartComplete(latencyType) ==
  /\ pc = "graphs" => Sorted(Drawn(latencyType))
  /\ latencyType \in DOMAIN chart =>
       LET c == chart[latencyType]
           dots == c.success \cup c.error
           n == Len(e2e)
       IN /\ Cardinality(dots) = n
          /\ {d.root : d \in dots} = Range(e2e)
          /\ \A d \in dots : /\ d.latency > 0
                             /\ d.cdf * 100 >= 50 * n <=> d.latency >= c.percentiles.median
                             /\ d.cdf * 100 >= 90 * n <=> d.latency >= c.percentiles.p90

(* Both charts are complete, although the second is drawn of the slice     *)
(* that was parsed twice, and clamped (plotChart, ParseTraces).            *)
ChartsComplete == \A latencyType \in LatencyTypes : ChartComplete(latencyType)

(* A root drawn as a success has a span with a good status code below it;  *)
(* a root without tags of its own that called a failing service directly   *)
(* is drawn as an error.                                                   *)
ErrorsShown ==
  \A latencyType \in DOMAIN chart :
    /\ \A d \in chart[latencyType].success :
         \E i \in Tree(d.root) : traces[i].code \notin {NoTags, NoNumber} /\ traces[i].code <= 300
    /\ \A r \in Range(e2e) :
         /\ traces[r].code = NoTags
         /\ \E i \in Range(child[r]) : traces[i].code \notin {NoTags, NoNumber} /\ traces[i].code > 300
         => \E d \in chart[latencyType].error : d.root = r

(* The goroutines share the roots out among them: DownloadFile is called   *)
(* once for each root, and main() goes on only after all goroutines have   *)
(* ended.                                                                  *)
EachRootOnce ==
  /\ \A k \in DOMAIN tries : tries[k] <= 1
  /\ flags.download /\ pc \in {"plot", "graphs", "done"} =>
       /\ DOMAIN tries = DOMAIN e2e
       /\ \A k \in DOMAIN tries : tries[k] = 1
       /\ \A t \in Thread : worker[t] = "ended"

(* A file whose download succeeded stays whole, unless several roots share *)
(* a trace id and so write to the same file.                               *)
SavedIsWhole ==
  \A d \in saved :
    Cardinality({k \in DOMAIN e2e : traces[e2e[k]].trace = d}) = 1 => file[d] = "whole"
===============================================================================
