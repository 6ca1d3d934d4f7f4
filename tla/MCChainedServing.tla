--------------------------- MODULE MCChainedServing ---------------------------
EXTENDS ChainedServing

Deploy(fanIn, fanOut, broadcast, type, invocations) ==
  [fanIn |-> fanIn, fanOut |-> fanOut, broadcast |-> broadcast, type |-> type,
   invocations |-> invocations]

(* Every pattern with the transfer types that behave differently in it;    *)
(* two that set more than one amount; and two overlapping invocations of   *)
(* the patterns in which they may share an instance and its key.           *)
MCDeployments ==
  { Deploy(2, 0, 0, t, 1) : t \in {"S3", "XDT", "INLINE"} }
    \cup { Deploy(0, 2, 0, t, 1) : t \in {"ELASTICACHE", "XDT", "INLINE"} }
    \cup { Deploy(0, 0, 2, t, 1) : t \in {"S3", "XDT"} }
    \cup { Deploy(0, 0, 0, t, 1) : t \in {"S3", "XDT", "INLINE"} }
    \cup { Deploy(1, 2, 0, "S3", 2), Deploy(0, 1, 2, "S3", 2),
           Deploy(0, 2, 0, "S3", 2), Deploy(0, 0, 0, "S3", 2) }
===============================================================================
