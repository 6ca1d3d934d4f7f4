---------------------------- MODULE MCTracePlotter ----------------------------
EXTENDS TracePlotter

Span(id, parent, trace, duration, code) ==
  [id |-> id, parent |-> parent, trace |-> trace, duration |-> duration, code |-> code]

(* Three spans with any parents among them, one that is not stored and     *)
(* none: chains, forks, forests, cycles; the ids differ, or two are equal. *)
Ids == {<<"a", "b", "c">>, <<"a", "a", "c">>, <<"a", "b", "b">>}
Parents == [1..3 -> {"a", "b", "c", "gone"}]
Durations3 == {<<3, 1, 2>>, <<2, 3, 2>>}
Codes == {<<NoTags, 200, 500>>, <<NoTags, NoTags, 500>>, <<500, 200, NoNumber>>,
          <<NoTags, NoNumber, NoTags>>, <<200, NoTags, 200>>}
Forests == {[i \in 1..3 |-> Span(ids[i], parents[i], "x", durations[i], codes[i])] :
              ids \in Ids, parents \in Parents, durations \in Durations3, codes \in Codes}

(* A root over two services of which one calls a third and a fourth: two   *)
(* levels below the root, codes in any place.                              *)
Deep == {<<Span("a", "none", "x", 5, NoTags), Span("b", "a", "x", 3, c[1]),
           Span("c", "a", "x", 4, c[2]), Span("d", "c", "x", 1, c[3]),
           Span("e", "c", "x", 2, c[4])>> :
             c \in [1..4 -> {NoTags, NoNumber, 200, 500}]}

(* Three roots, all traces apart or two of them in one trace. *)
Apart == <<Span("a", "none", "x", 1, 200), Span("b", "none", "y", 2, 200),
           Span("c", "none", "z", 2, NoTags)>>
Shared == <<Span("a", "none", "x", 1, 200), Span("b", "gone", "x", 2, 200)>>

Charts == [pageSize |-> 2, download |-> FALSE, skipPlotting |-> FALSE]
Downloads == [pageSize |-> 1, download |-> TRUE, skipPlotting |-> TRUE]
Both == [pageSize |-> 3, download |-> TRUE, skipPlotting |-> FALSE]
Neither == [pageSize |-> 3, download |-> FALSE, skipPlotting |-> TRUE]

(* Charts of all of them, downloads of the last. *)
MCSettings ==
  [stored : Forests \cup Deep, flags : {Charts}] \cup
  [stored : {Apart, Shared, <<>>}, flags : {Charts, Downloads, Both, Neither}]
===============================================================================
