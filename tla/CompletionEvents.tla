--------------------------- MODULE CompletionEvents ---------------------------
(***************************************************************************)
(* How the TimeseriesDB recognises a completion event.  A CloudEvent's     *)
(* attributes and a descriptor's AttrMatchers are maps from attribute      *)
(* names to values; here they are functions on a finite domain.            *)
(***************************************************************************)
EXTENDS Integers, Sequences, FiniteSets

(* All entries of the matcher map m are present in attrs with the same     *)
(* value; an empty map matches every event.                                *)
Matches(attrs, m) ==
  \A a \in DOMAIN m : a \in DOMAIN attrs /\ attrs[a] = m[a]

(* The positions among the first n descriptors of ds that attrs matches.   *)
Matching(attrs, ds, n) == {k \in 1..n : Matches(attrs, ds[k])}

(* The largest element of a non-empty finite set of integers.              *)
Latest(S) == CHOOSE x \in S : \A y \in S : y <= x
=============================================================================
