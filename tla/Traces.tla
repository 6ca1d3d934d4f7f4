-------------------------------- MODULE Traces --------------------------------
(***************************************************************************)
(* tools/trace-plotter: how spans loaded from Zipkin's storage become      *)
(* trees.  The loaded slice is a sequence of records; a pointer into it is *)
(* an index, and child[i] is the sequence of indices in traces[i].Child.   *)
(***************************************************************************)
EXTENDS Integers, Sequences, SequencesExt

CONSTANTS
  NoTags,     \* the HTTP status code of a span whose Tags pointer is nil
  NoNumber    \* a tag, or a whole tree, that yields no status code

(* m[traces[i].ID] = &traces[i], i ascending: the map holds the last span  *)
(* with an id.                                                             *)
Mapped(traces) ==
  {i \in DOMAIN traces : \A j \in DOMAIN traces : traces[j].id = traces[i].id => j <= i}

(* m[traces[i].ParentID]: empty for nil. *)
Parent(traces, i) == {k \in Mapped(traces) : traces[k].id = traces[i].parent}

(* The second loop of ParseTraces appends every span to its parent's       *)
(* Child, behind what an earlier call has left there.                      *)
AppendChildren(traces, child) ==
  LET upTo[n \in 0..Len(traces)] ==
        IF n = 0 THEN child
        ELSE [k \in DOMAIN traces |->
                IF k \in Parent(traces, n) THEN Append(upTo[n - 1][k], n) ELSE upTo[n - 1][k]]
  IN upTo[Len(traces)]

(* The third loop keeps the spans of the map whose parent is not in it. *)
RootsOfSlice(traces) == {i \in DOMAIN traces : Parent(traces, i) = {}}
Roots(traces) == {i \in Mapped(traces) : Parent(traces, i) = {}}

(* The first of the deepest leaves below span i.  It is called of roots:   *)
(* no span of theirs is further below them than there are spans.           *)
ShallowestLeaf(child, i) ==
  LET deepest[k \in DOMAIN child] ==
        IF child[k] = <<>> THEN [leaf |-> k, depth |-> 1]
        ELSE [leaf |-> deepest[child[k][1]].leaf, depth |-> 1 + deepest[child[k][1]].depth]
  IN deepest[i].leaf
DeepestLeaf(child, i) ==
  LET deepest[n \in 0..Len(child)] == [k \in DOMAIN child |->
        IF n = 0 \/ child[k] = <<>> THEN [leaf |-> k, depth |-> 1]
        ELSE LET below == [j \in DOMAIN child[k] |-> deepest[n - 1][child[k][j]]]
                 first == CHOOSE j \in DOMAIN below : \A l \in DOMAIN below :
                            /\ below[l].depth <= below[j].depth
                            /\ below[l].depth = below[j].depth => j <= l
             IN [leaf |-> below[first].leaf, depth |-> below[first].depth + 1]]
  IN deepest[Len(child)][i].leaf

(* The codes of a set of spans that are numbers. *)
Numbers(codes) == codes \ {NoTags, NoNumber}

(* sort.Ints(childCodes), and its last element. *)
BestCode(codes) == CHOOSE c \in codes : \A d \in codes : c <= d
WorstCode(codes) == CHOOSE c \in codes : \A d \in codes : d <= c

(* A span's own tag counts if it has any; otherwise the tags of its        *)
(* children, and only if none of these is a number what lies below them.   *)
GetHTTPStatusCode(traces, child, i) ==
  LET code[n \in 0..Len(child)] == [k \in DOMAIN child |->
        LET own == Numbers({traces[c].code : c \in Range(child[k])})
            below == IF n = 0 THEN {} ELSE Numbers({code[n - 1][c] : c \in Range(child[k])})
        IN IF traces[k].code # NoTags THEN traces[k].code
           ELSE IF own # {} THEN WorstCode(own)
           ELSE IF below # {} THEN WorstCode(below)
           ELSE NoNumber]
  IN code[Len(child)][i]

(* sort.Slice of what ranging over the map delivered in any order: not     *)
(* stable, so any order of the roots that the key does not forbid.         *)
SortedBy(S, key) ==
  {s \in SetToSeqs(S) : \A j, k \in DOMAIN s : j < k => key[s[j]] <= key[s[k]]}
===============================================================================
