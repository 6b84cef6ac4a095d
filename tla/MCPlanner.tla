----------------------------- MODULE MCPlanner -----------------------------
(***************************************************************************)
(* Well drawn projects: fields nest in one way only, every node of a field *)
(* leads to its receiver, and what feeds a field from outside is a plain   *)
(* branch of its own or comes in through the transmitter.  All such        *)
(* drawings of four nodes, in two node orders, and larger ones with fields *)
(* in a row, nested, side by side, with init branches, with several parts  *)
(* and with a cycle.                                                       *)
(***************************************************************************)
EXTENDS Planner

MCNodes == 1..9

Plain(u, v) == [src |-> u, dst |-> v, field |-> FALSE, collect |-> FALSE]
Yield(u, v) == [src |-> u, dst |-> v, field |-> TRUE, collect |-> FALSE]
Collect(u, v) == [src |-> u, dst |-> v, field |-> FALSE, collect |-> TRUE]
Both(u, v) == [src |-> u, dst |-> v, field |-> TRUE, collect |-> TRUE]
Drawing(nodes, edges) ==
  [nodes |-> nodes, edges |-> edges, carriers |-> {a.src : a \in {b \in ToSet(edges) : b.field}},
   receivers |-> {a.dst : a \in {b \in ToSet(edges) : b.collect}}]

\* The node orders of a drawing: as listed and reversed.
Orders(nodes, edges) == {Drawing(nodes, edges), Drawing(Reverse(nodes), Reverse(edges))}

Pairs4 == {<<u, v>> \in (1..4) \X (1..4) : u < v}
Small ==
  LET Edges(E, T, R) == LET s == SetToSortSeq(E, LAMBDA a, b : a[1] < b[1] \/ (a[1] = b[1] /\ a[2] < b[2]))
                        IN  [i \in DOMAIN s |-> [src |-> s[i][1], dst |-> s[i][2],
                                                 field |-> s[i][1] \in T, collect |-> s[i][2] \in R]]
      kinds == {k \in (SUBSET (1..4)) \X (SUBSET (1..4)) :
                  k[1] \cap k[2] = {} /\ Cardinality(k[1]) = Cardinality(k[2])}
      drawn == {Drawing(<<1, 2, 3, 4>>, Edges(x[1], x[2][1], x[2][2])) : x \in (SUBSET Pairs4) \X kinds}
  IN  UNION {Orders(d.nodes, d.edges) : d \in {x \in drawn : WellDrawn(x)}}

\* Two inner fields side by side in an outer one, after a plain node.
Siblings ==
  <<Plain(1, 2), Yield(2, 3), Plain(3, 4), Yield(4, 5), Collect(5, 6), Plain(6, 7), Both(7, 8), Collect(8, 9)>>
\* Three fields around each other.
Deep == <<Plain(1, 2), Yield(2, 3), Yield(3, 4), Yield(4, 5), Collect(5, 6), Collect(6, 7), Collect(7, 8), Plain(8, 9)>>
\* Two fields in a row, a branch beside the second.
Row == <<Yield(1, 2), Collect(2, 3), Plain(3, 4), Plain(3, 8), Yield(4, 5), Collect(5, 6), Plain(6, 7), Plain(8, 7)>>
\* Two branches inside a field, and an init branch of two nodes.
Fan == <<Yield(1, 2), Yield(1, 3), Collect(2, 4), Collect(3, 4), Plain(4, 5), Plain(6, 7), Plain(7, 3), Plain(6, 2)>>
\* A plain part, a cycle and two fields in parts of their own.
Parts == <<Both(1, 2), Plain(3, 4), Plain(5, 6), Plain(6, 5), Yield(7, 8), Collect(8, 9)>>
\* Two fields that join, with a source beside the second.
Join == <<Both(1, 2), Plain(2, 5), Plain(3, 4), Plain(4, 5), Both(5, 6), Both(7, 8), Plain(8, 4)>>

\* A nested field, with a branch and a leafless detour beside it.
Beside == <<Plain(9, 1), Yield(1, 2), Yield(1, 6), Plain(2, 3), Yield(3, 4), Collect(4, 5), Collect(5, 7), Plain(6, 8), Collect(8, 7)>>

Chosen == UNION {Orders(<<1, 2, 3, 4, 5, 6, 7, 8, 9>>, e) : e \in {Siblings, Deep, Row, Fan, Parts, Join, Beside}}

\* A receiver for two transmitters, a transmitter with two receivers, a node
\* that is both, a transmitter without a receiver, a node in a field and one
\* behind it with a receiver that is not plugged in.
Sketches ==
  {[Drawing(<<4, 2, 3, 1>>, <<Both(1, 2), Yield(3, 4), Both(3, 2)>>) EXCEPT !.carriers = {1, 3, 4}],
   Drawing(<<1, 2, 5, 3, 4>>, <<Both(4, 2), Yield(4, 3), Collect(3, 1), Both(4, 1), Collect(5, 2)>>),
   Drawing(<<1, 2, 3>>, <<Both(1, 2), Both(2, 3)>>),
   Drawing(<<1, 2, 3>>, <<Yield(1, 2), Plain(2, 3)>>),
   Drawing(<<1, 2, 3>>, <<Plain(1, 2), Yield(2, 3)>>),
   [Drawing(<<1, 2, 3>>, <<Yield(1, 2), Collect(2, 3)>>) EXCEPT !.receivers = {2, 3}],
   [Drawing(<<1, 2, 3>>, <<Both(1, 2), Plain(2, 3)>>) EXCEPT !.receivers = {2, 3}]}

\* A node is drawn into a field, a field is drawn around a field.
Chain(nodes) == Drawing(nodes, [i \in 1..(Len(nodes) - 1) |->
  [src |-> nodes[i], dst |-> nodes[i + 1], field |-> i = 1, collect |-> i = Len(nodes) - 1]])
MCEdits ==
  {<<Chain(<<1, 2, 3>>), Chain(<<1, 4, 2, 3>>)>>,
   <<Chain(<<2, 3>>), Drawing(<<2, 3, 1, 4>>, <<Yield(1, 2), Both(2, 3), Collect(3, 4)>>)>>}
MCDrawings == Small \cup Chosen \cup Sketches \cup {e[1] : e \in MCEdits}
=============================================================================
