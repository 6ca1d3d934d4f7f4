------------------------------- MODULE MCTracing -------------------------------
EXTENDS Tracing, TLC

Process(tracing, debugging, url, tracer, span) ==
  [tracing |-> tracing, debugging |-> debugging, url |-> url, tracer |-> tracer, span |-> span]

Basic == Process("true", "unset", TRUE, "basic", FALSE)
Spanning == Process("true", "true", TRUE, "basic", TRUE)
Custom == Process("true", "false", TRUE, "custom", FALSE)
NoTracer == Process("true", "unset", FALSE, "basic", FALSE)
Off == Process("unset", "unset", TRUE, "basic", TRUE)
NotTraced == Process("false", "unset", TRUE, "basic", FALSE)
Misspelt == Process("other", "unset", TRUE, "basic", FALSE)

(* An invoker, a relay and a function: all traced; each of them not; with  *)
(* other samplers before and behind; one that does not start.              *)
MCSettings ==
  {<<Basic, Basic, Basic>>, <<Basic, Spanning, Basic>>, <<NotTraced, Basic, Basic>>,
   <<Basic, NoTracer, Basic>>, <<Basic, Off, Basic>>, <<Basic, Spanning, Off>>,
   <<Custom, Custom, Custom>>, <<Custom, Basic, Custom>>, <<Custom, Spanning, Custom>>,
   <<Basic, Misspelt, Basic>>}

Symmetry == Permutations(Requests)
===============================================================================
