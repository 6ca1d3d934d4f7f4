-------------------------------- MODULE Tracing --------------------------------
(***************************************************************************)
(* utils/tracing and tools/relay: a request of the invoker passes through  *)
(* relays to a function, each a process that may be traced.  The spans     *)
(* they end are exported to Zipkin, from which the trace plotter takes     *)
(* them.  OpenTelemetry, gRPC and Zipkin are external.                     *)
(*                                                                         *)
(* Processes 1 .. N form the chain: 1 is the invoker, N the function.  The *)
(* context of a call is the span it was made in, None when there is none.  *)
(***************************************************************************)
EXTENDS Integers, Sequences, FiniteSets, SequencesExt

CONSTANTS
  N,            \* length of the chain
  Requests,
  Settings,     \* environments of the processes, sequences of Environment
  MaxFailures,  \* bound on processes that end and spans that cannot be exported
  None

Value == {"unset", "false", "true", "other"}

Environment ==
  [tracing : Value,               \* ENABLE_TRACING; -trace of the invoker
   debugging : Value,             \* ENABLE_DEBUGGING
   url : BOOLEAN,                 \* -zipkin is a URL
   tracer : {"basic", "custom"},  \* InitBasicTracer, or InitCustomTracer at
                                  \* a rate below 1
   span : BOOLEAN]                \* its handler makes a span of its own

(* The calls open a client span in a process and a server span in the next *)
(* one: the spans of a request, by the process they belong to.  Each       *)
(* request may have a span more, see SpanOfItsOwn.                         *)
Depth == 2 * (N - 1)
ProcessOf(k) == (k \div 2) + 1
SpanId == (Requests \X (1..Depth)) \cup (Requests \X (1..Depth) \X {"own"})

(* trace.SpanContext of OpenTelemetry, what a context carries of a span.   *)
SpanContext == [id : SpanId, trace : SpanId, sampled : BOOLEAN]

ASSUME TracingAssumption ==
  /\ N \in Nat \ {0, 1}
  /\ Settings \subseteq [1..N -> Environment]
  /\ MaxFailures \in Nat
  /\ None \notin SpanId \cup SpanContext

Processes == 1..N

VARIABLES
  env,        \* env[p]: environment of process p
  up,         \* processes that serve
  request,    \* request[r]: "calling" as long as it goes down the chain
  open,       \* open[r]: the spans it is in, outermost first
  own,        \* the requests in which span.go has been used
  stored,     \* the spans Zipkin has stored
  lost,       \* lost[r]: its sampled spans that were not
  failures

tracingVars == <<env, up, request, open, own, stored, lost, failures>>

TracingInit ==
  /\ env \in Settings
  /\ up = {}
  /\ request = [r \in Requests |-> "none"]
  /\ open = [r \in Requests |-> <<>>]
  /\ own = {}
  /\ stored = <<>>
  /\ lost = [r \in Requests |-> 0]
  /\ failures = 0

-------------------------------------------------------------------------------
(* Start-up. *)

(* isDebuggingEnabled, IsTracingEnabled: log.Fatalf for other values. *)
Expected(value) == value # "other"
IsTracingEnabled(p) == env[p].tracing = "true"

(* Whether the process has set a tracer provider and propagator; when the  *)
(* exporter cannot be made main() only warns, and goes on with neither.    *)
Traced(p) == IsTracingEnabled(p) /\ env[p].url

(* main(): the processes end unless they can connect and listen; Knative   *)
(* starts them again, but not the invoker.                                 *)
StartProcess(p) ==
  /\ p \notin up
  /\ p = 1 => \A r \in Requests : request[r] = "none"
  /\ Expected(env[p].tracing) /\ Expected(env[p].debugging)
  /\ up' = up \cup {p}
  /\ UNCHANGED <<env, request, open, own, stored, lost, failures>>

-------------------------------------------------------------------------------
(* Spans. *)

(* The propagator that initTracer sets carries the context to the next     *)
(* process; without it, or through a process without a tracer, it is lost. *)
NoPropagator(context, p) == None
Propagated(context, p) == IF Traced(p) THEN context ELSE None

(* AlwaysSample, whatever the caller has decided; or the caller's decision *)
(* and, when there is no caller, one by the trace id.                      *)
Sampled(p, context, ratio) ==
  \/ env[p].tracer = "basic"
  \/ IF context = None THEN ratio ELSE context.sampled

(* tracer.Start: a child of the span in the context, or a new trace. *)
Span(id, p, context, ratio) ==
  [id |-> id, process |-> p, alive |-> TRUE,
   parent |-> IF context = None THEN None ELSE context.id,
   trace |-> IF context = None THEN id ELSE context.trace,
   sampled |-> Sampled(p, context, ratio)]

Untraced(p) == [id |-> None, process |-> p, alive |-> TRUE, sampled |-> FALSE]

(* The context of the innermost open span. *)
Context(r) ==
  IF open[r] = <<>> \/ Last(open[r]).id = None THEN None
  ELSE [id |-> Last(open[r]).id, trace |-> Last(open[r]).trace, sampled |-> Last(open[r]).sampled]

NextProcess(r) == ProcessOf(Len(open[r]) + 1)

(* What is exported of a span. *)
Exported(span) ==
  IF span.sampled THEN <<[id |-> span.id, parent |-> span.parent, trace |-> span.trace]>>
  ELSE <<>>

(* End() exports at once, as WithSyncer asks; an error is only logged. *)
Export(r, span, arrives) ==
  /\ failures' = IF arrives THEN failures ELSE failures + 1
  /\ failures' <= MaxFailures
  /\ stored' = IF arrives THEN stored \o Exported(span) ELSE stored
  /\ lost' = IF arrives THEN lost ELSE [lost EXCEPT ![r] = @ + Len(Exported(span))]

NotInstrumented(k) == k % 2 = 1
Instrumented(k) == TRUE

(* The next span of a request that goes down the chain: the client's, made *)
(* by the stats handler of the connection (odd), or the server's, made by  *)
(* that of GetGRPCServerWithUnaryInterceptor.  SayHello of the relay runs  *)
(* inside the server's span and makes the client's.                        *)
OpenSpan(r, ratio) ==
  LET k == Len(open[r]) + 1
      p == NextProcess(r)
      span == IF Traced(p) /\ Instrumented(k)
                THEN Span(<<r, k>>, p, Propagated(Context(r), p), ratio)
                ELSE Untraced(p)
  IN /\ request[r] \in {"none", "calling"}
     /\ p \in up
     /\ open' = [open EXCEPT ![r] = Append(@, span)]
     /\ request' = [request EXCEPT ![r] = IF k = Depth THEN "returning" ELSE "calling"]
     /\ UNCHANGED <<env, up, own, stored, lost, failures>>

(* The next process is not there: the call returns an error. *)
Unavailable(r) ==
  /\ request[r] = "calling"
  /\ NextProcess(r) \notin up
  /\ request' = [request EXCEPT ![r] = "returning"]
  /\ UNCHANGED <<env, up, open, own, stored, lost, failures>>

(* StartSpan and EndSpan around something a handler does, before it calls  *)
(* the next function: the context that StartSpan returns is not passed on. *)
SpanOfItsOwn(r, ratio, arrives) ==
  LET k == Len(open[r])
      p == ProcessOf(k)
  IN /\ request[r] = "calling"
     /\ k > 0 /\ k % 2 = 0
     /\ p \in up /\ env[p].span /\ Traced(p) /\ Last(open[r]).alive
     /\ r \notin own
     /\ own' = own \cup {r}
     /\ Export(r, Span(<<r, k, "own">>, p, Context(r), ratio), arrives)
     /\ UNCHANGED <<env, up, request, open>>

(* The innermost span ends, if its process still exists. *)
EndSpan(r, arrives) ==
  /\ request[r] = "returning"
  /\ open[r] # <<>>
  /\ arrives \/ (Last(open[r]).sampled /\ Last(open[r]).alive)
  /\ IF Last(open[r]).alive THEN Export(r, Last(open[r]), arrives)
     ELSE UNCHANGED <<stored, lost, failures>>
  /\ open' = [open EXCEPT ![r] = Front(@)]
  /\ request' = [request EXCEPT ![r] = IF Len(open[r]) = 1 THEN "done" ELSE @]
  /\ UNCHANGED <<env, up, own>>

(* A process ends: a crash, log.Fatal, or main() of the invoker, which     *)
(* does not wait for its requests.  Its open spans are lost, and calls     *)
(* that it is making are cut off.                                          *)
Die(p) ==
  LET mine(r) == {k \in DOMAIN open[r] : open[r][k].process = p /\ open[r][k].alive}
  IN /\ p \in up
     /\ failures < MaxFailures
     /\ failures' = failures + 1
     /\ up' = up \ {p}
     /\ open' = [r \in Requests |->
                   [k \in DOMAIN open[r] |->
                      IF k \in mine(r) THEN [open[r][k] EXCEPT !.alive = FALSE] ELSE open[r][k]]]
     /\ lost' = [r \in Requests |->
                   lost[r] + Cardinality({k \in mine(r) : open[r][k].sampled})]
     /\ request' = [r \in Requests |->
                      IF Len(open[r]) \in mine(r) THEN "returning" ELSE request[r]]
     /\ UNCHANGED <<env, own, stored>>

TracingExited ==
  /\ \A r \in Requests : open[r] = <<>>
  /\ UNCHANGED tracingVars

TracingNext ==
  \/ \E p \in Processes : StartProcess(p) \/ Die(p)
  \/ \E r \in Requests :
       \/ \E ratio \in BOOLEAN : OpenSpan(r, ratio)
       \/ Unavailable(r)
       \/ \E ratio, arrives \in BOOLEAN : SpanOfItsOwn(r, ratio, arrives)
       \/ \E arrives \in BOOLEAN : EndSpan(r, arrives)
  \/ TracingExited

TracingSpec == TracingInit /\ [][TracingNext]_tracingVars

-------------------------------------------------------------------------------
Plotter == INSTANCE Traces WITH NoTags <- None, NoNumber <- None

(* The positions of r in stored, and those the plotter takes for roots. *)
SpansOf(r) == {i \in DOMAIN stored : stored[i].id[1] = r}
RootsOf(r) == SpansOf(r) \cap Plotter!Roots(stored)

(* The processes where the chain becomes traced. *)
Entries == {p \in Processes : Traced(p) /\ (p > 1 => ~Traced(p - 1))}

(* The plotter draws a request as one tree for each part of the chain that *)
(* is traced, also while spans of it are still to come; each span that was *)
(* lost may cut off one tree more, or as many as it had children.          *)
OneTreePerEntry ==
  \A r \in Requests :
    Cardinality(RootsOf(r)) <= Cardinality(Entries) + lost[r] + Cardinality(own \cap {r})

(* With basic tracers in all processes, the spans of a request that has    *)
(* come back are one tree, unless one was lost: below the span of the      *)
(* invoker, in its trace, and complete as far as the request went.         *)
WholeTrees ==
  (\A p \in Processes : Traced(p) /\ env[p].tracer = "basic") =>
    \A r \in Requests :
      request[r] = "done" /\ lost[r] = 0 =>
        LET ids == {stored[i].id : i \in SpansOf(r)} IN
        /\ {stored[i].id : i \in RootsOf(r)} = {<<r, 1>>}
        /\ \A i \in SpansOf(r) : stored[i].trace = <<r, 1>>
        /\ \A k \in 1..Depth : <<r, k>> \in ids => \A j \in 1..k : <<r, j>> \in ids
        /\ r \in own => \E k \in 1..Depth : {<<r, k>>, <<r, k, "own">>} \subseteq ids
===============================================================================
