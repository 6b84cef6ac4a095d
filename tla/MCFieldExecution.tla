-------------------------- MODULE MCFieldExecution --------------------------
(***************************************************************************)
(* Projects as processor_graph.py plans them: one field, a field with two  *)
(* branches, two fields in a row, a field whose transmitter feeds its      *)
(* receiver, and nested fields, with a node before, between and behind     *)
(* them, one that has no inbound edges and one that starts a field.        *)
(***************************************************************************)
EXTENDS FieldExecution

MCNodes == 1..12

P(n) == [src |-> n, field |-> FALSE, collect |-> FALSE]
F(n) == [src |-> n, field |-> TRUE, collect |-> FALSE]
C(n) == [src |-> n, field |-> FALSE, collect |-> TRUE]
FC(n) == [src |-> n, field |-> TRUE, collect |-> TRUE]

Project(plan, inbound, body, receiver, inner) ==
  LET edges == [n \in Nodes |-> IF n \in DOMAIN inbound THEN inbound[n] ELSE <<>>]
  IN  [plan |-> plan, edges |-> edges,
       fields |-> DOMAIN body, body |-> body, receiver |-> receiver, inner |-> inner,
       index |-> [t \in DOMAIN body |-> CHOOSE i \in 1..Len(plan) : plan[i] = t],
       async |-> {n \in Nodes : edges[n] # <<>>}]

Map(p) == [n \in {q[1] : q \in p} |-> (CHOOSE q \in p : q[1] = n)[2]]

Chain ==
  Project(<<1, 2, 3, 4, 5>>,
    Map({<<2, <<P(1)>>>>, <<3, <<F(2)>>>>, <<4, <<C(3)>>>>, <<5, <<P(4)>>>>}),
    Map({<<2, {3, 4}>>}), Map({<<2, 4>>}), Map({<<2, {}>>}))

Direct ==
  Project(<<1, 2, 3>>,
    Map({<<2, <<FC(1)>>>>, <<3, <<P(2)>>>>}),
    Map({<<1, {2}>>}), Map({<<1, 2>>}), Map({<<1, {}>>}))

Fan ==
  Project(<<1, 3, 2, 4, 5>>,
    Map({<<2, <<F(1)>>>>, <<3, <<F(1)>>>>, <<4, <<C(2), P(3)>>>>, <<5, <<P(4)>>>>}),
    Map({<<1, {2, 3, 4}>>}), Map({<<1, 4>>}), Map({<<1, {}>>}))

Row ==
  Project(<<1, 2, 3, 4, 5, 6, 7>>,
    Map({<<2, <<F(1)>>>>, <<3, <<C(2)>>>>, <<4, <<P(3)>>>>,
         <<5, <<F(4)>>>>, <<6, <<C(5)>>>>, <<7, <<P(6)>>>>}),
    Map({<<1, {2, 3}>>, <<4, {5, 6}>>}), Map({<<1, 3>>, <<4, 6>>}), Map({<<1, {}>>, <<4, {}>>}))

Nested ==
  Project(<<1, 9, 8, 2, 3, 4, 5, 6, 7>>,
    Map({<<9, <<F(1)>>>>, <<2, <<P(9)>>>>, <<3, <<F(2), P(8)>>>>, <<4, <<C(3)>>>>,
         <<5, <<P(4)>>>>, <<6, <<C(5)>>>>, <<7, <<P(6)>>>>}),
    Map({<<1, {2, 5, 6, 9}>>, <<2, {3, 4}>>}), Map({<<1, 6>>, <<2, 4>>}),
    Map({<<1, {2}>>, <<2, {}>>}))

\* Two inner fields in one outer field.
Siblings ==
  Project(<<1, 2, 3, 4, 5, 6, 7, 8, 9, 10>>,
    Map({<<2, <<F(1)>>>>, <<3, <<P(2)>>>>, <<4, <<F(3)>>>>, <<5, <<C(4)>>>>, <<6, <<P(5)>>>>,
         <<7, <<F(6)>>>>, <<8, <<C(7)>>>>, <<9, <<C(8)>>>>, <<10, <<P(9)>>>>}),
    Map({<<1, {2, 3, 6, 9}>>, <<3, {4, 5}>>, <<6, {7, 8}>>}),
    Map({<<1, 9>>, <<3, 5>>, <<6, 8>>}),
    Map({<<1, {3, 6}>>, <<3, {}>>, <<6, {}>>}))

\* Three levels, a plain node between any two ends of fields.
Spaced ==
  Project(<<1, 2, 3, 4, 5, 6, 7, 8, 9, 10, 11, 12>>,
    Map({<<2, <<F(1)>>>>, <<3, <<P(2)>>>>, <<4, <<F(3)>>>>, <<5, <<P(4)>>>>,
         <<6, <<F(5)>>>>, <<7, <<C(6)>>>>, <<8, <<P(7)>>>>, <<9, <<C(8)>>>>,
         <<10, <<P(9)>>>>, <<11, <<C(10)>>>>, <<12, <<P(11)>>>>}),
    Map({<<1, {2, 3, 10, 11}>>, <<3, {4, 5, 8, 9}>>, <<5, {6, 7}>>}),
    Map({<<1, 11>>, <<3, 9>>, <<5, 7>>}),
    Map({<<1, {3, 5}>>, <<3, {5}>>, <<5, {}>>}))

\* The inner field is initialised by a node in the block of the outer one.
Primed ==
  Project(<<1, 2, 7, 8, 9, 3, 4, 5, 6>>,
    Map({<<2, <<F(1)>>>>, <<9, <<P(2)>>>>, <<8, <<P(7)>>>>, <<3, <<F(9), P(8)>>>>,
         <<4, <<C(3)>>>>, <<5, <<C(4)>>>>, <<6, <<P(5)>>>>}),
    Map({<<1, {2, 9, 5}>>, <<9, {3, 4}>>}), Map({<<1, 5>>, <<9, 4>>}),
    Map({<<1, {9}>>, <<9, {}>>}))

MCGraphs == {Chain, Direct, Fan, Row, Nested, Siblings, Spaced, Primed}

ASSUME MCApart == \A g \in MCGraphs : Apart(g)

AllEvents == {"raise", "next", "exit", "restart"}
=============================================================================
