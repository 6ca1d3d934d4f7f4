------------------------------ MODULE MCDeployer ------------------------------
EXTENDS Deployer

(* Several copies of one entry, an entry without copies, and two entries   *)
(* of the same name.                                                       *)
MCFuncSlices ==
  { <<[name |-> "a", count |-> 2], [name |-> "b", count |-> 3]>>,
    <<[name |-> "a", count |-> 0], [name |-> "b", count |-> 4]>>,
    <<[name |-> "a", count |-> 2], [name |-> "a", count |-> 1]>>,
    <<>> }
===============================================================================
