-------------------------- MODULE ProcessorGraph --------------------------
(***************************************************************************)
(* The graph algorithms of the execution planner                           *)
(* (packages/mirmod/mirmod/processor_graph.py).  A graph holds its nodes   *)
(* and its edges <<u, v>> in the order networkx lists them, the edges that *)
(* leave a Transmitter_field socket, and the nodes that have a             *)
(* Transmitter_field or a Receiver_field attribute, plugged in or not.     *)
(***************************************************************************)
EXTENDS Integers, FiniteSets, SequencesExt

\* What a list has of a set, in its order.
Only(s, S) ==
  LET upto[i \in 0..Len(s)] ==
        IF i = 0 THEN <<>> ELSE IF s[i] \in S THEN Append(upto[i - 1], s[i]) ELSE upto[i - 1]
  IN  upto[Len(s)]

NodeSet(G) == ToSet(G.nodes)
EdgeSet(G) == ToSet(G.edges)
successors(G, n) == LET out == Only(G.edges, {a \in EdgeSet(G) : a[1] = n}) IN [i \in DOMAIN out |-> out[i][2]]
predecessors(G, n) == LET in == Only(G.edges, {a \in EdgeSet(G) : a[2] = n}) IN [i \in DOMAIN in |-> in[i][1]]
subgraph(G, S) ==
  [G EXCEPT !.nodes = Only(@, S), !.edges = Only(@, S \X S), !.fieldEdges = @ \cap (S \X S)]

\* Everything that can be reached from X along the pairs of E.
Closure(E, X) ==
  LET grow[Y \in SUBSET (X \cup {a[2] : a \in E})] ==
        LET Z == Y \cup {a[2] : a \in {b \in E : b[1] \in Y}}
        IN  IF Z = Y THEN Y ELSE grow[Z]
  IN  grow[X]
Below(G, n) == Closure(EdgeSet(G), {n})
Above(G, n) == Closure({<<a[2], a[1]>> : a \in EdgeSet(G)}, {n})
descendants(G, n) == Below(G, n) \ {n}
ancestors(G, n) == Above(G, n) \ {n}
has_path(G, u, v) == v \in Below(G, u)
component(G, n) == Closure(EdgeSet(G) \cup {<<a[2], a[1]>> : a \in EdgeSet(G)}, {n})

\* Kahn's algorithm with a queue: a node is queued when the last of its
\* predecessors leaves the queue.  The nodes of cycles are never queued.
\* Mutant: a node is queued when the first of its predecessors leaves.
Free(G, left) == {n \in NodeSet(G) : ToSet(predecessors(G, n)) \subseteq left}
eager_sort(G) ==
  LET bfs[i \in 0..Len(G.nodes)] ==
        IF i = 0 THEN Only(G.nodes, Free(G, {}))
        ELSE LET q == bfs[i - 1]
             IN  IF i > Len(q) THEN q ELSE q \o Only(successors(G, q[i]), NodeSet(G) \ ToSet(q))
  IN  bfs[Len(G.nodes)]

Queued(G, q, i) ==
  IF i > Len(q) THEN q ELSE q \o Only(successors(G, q[i]), Free(G, {q[j] : j \in 1..i}) \ ToSet(q))
topological_sort(G) ==
  LET kahn[i \in 0..Len(G.nodes)] ==
        IF i = 0 THEN Only(G.nodes, Free(G, {})) ELSE Queued(G, kahn[i - 1], i)
  IN  kahn[Len(G.nodes)]
is_acyclic(G) == Len(topological_sort(G)) = Len(G.nodes)

Transmitters(G) == {a[1] : a \in G.fieldEdges}
Receivers(G) == G.receivers \cap NodeSet(G)

(***************************************************************************)
(* The right part of a graph split at n, with n: its descendants, and what *)
(* is connected to none of its ancestors but through them.                 *)
(***************************************************************************)
split_graph(G, n) ==
  LET right == descendants(G, n)
      free == {a \in EdgeSet(G) : {a[1], a[2]} \cap (right \cup {n}) = {}}
      left == Closure(free \cup {<<a[2], a[1]>> : a \in free}, ancestors(G, n))
  IN  NodeSet(G) \ left

(***************************************************************************)
(* Rounds of pairs of an unpaired transmitter and an unpaired receiver     *)
(* with a path between them that meets no other node still unpaired.       *)
(***************************************************************************)
Clean(G, t, r, T, R) ==
  /\ t # r
  /\ r \in Below(subgraph(G, (NodeSet(G) \ (T \cup R)) \cup {t, r}), t)
CleanPairs(G, T, R) == {p \in T \X R : Clean(G, p[1], p[2], T, R)}
find_transmitter_receiver_pairs(G) ==
  LET pairing[left \in (SUBSET Transmitters(G)) \X (SUBSET Receivers(G))] ==
        LET found == CleanPairs(G, left[1], left[2])
        IN  IF found = {} THEN {}
            ELSE found \cup pairing[<<left[1] \ {p[1] : p \in found}, left[2] \ {p[2] : p \in found}>>]
  IN  pairing[<<Transmitters(G), Receivers(G)>>]

\* The nodes a search from the transmitter finds before the receiver.  The
\* shortest path and the paths to leaves the code adds are among them.
calculate_field(G, p) == {p[2]} \cup Below(subgraph(G, NodeSet(G) \ {p[2]}), p[1])

find_outermost_pair(G, pairs) ==
  {p \in pairs : \A q \in pairs \ {p} : ~({p[1], p[2]} \subseteq calculate_field(G, q))}

\* The pairs whose field is the smallest of those that hold n.
find_enveloping_tr_pair(n, pairs, field) ==
  LET around == {p \in pairs : n \in field[p]}
  IN  {p \in around : \A q \in around : Cardinality(field[p]) <= Cardinality(field[q])}

(***************************************************************************)
(* The graph with every given field contracted to one node, the negative   *)
(* id of its transmitter, which takes the edges into and out of the field. *)
(***************************************************************************)
add_edge(G, a) ==
  [G EXCEPT !.nodes = @ \o Only(a, ToSet(a) \ ToSet(@)),
            !.edges = IF Contains(@, a) THEN @ ELSE Append(@, a)]
redirect(K, inside, t, a) ==
  IF a[1] \in inside /\ a[2] \notin inside THEN add_edge(K, <<-t, a[2]>>)
  ELSE IF a[1] \notin inside /\ a[2] \in inside THEN add_edge(K, <<a[1], -t>>)
  ELSE K
redirect_all(K, inside, t, edges) == FoldLeft(LAMBDA J, a : redirect(J, inside, t, a), K, edges)
contract_field(G, H, t, r) ==
  LET inside == (ancestors(G, r) \ ancestors(G, t)) \cup {t}
      joined == redirect_all(add_edge(H, <<-t, r>>), inside, t, G.edges)
  IN  subgraph(joined, NodeSet(joined) \ inside)
contract_from(G, pairs, H, t) ==
  FoldLeft(LAMBDA K, r : IF <<t, r>> \in pairs THEN contract_field(G, K, t, r) ELSE K, H, G.nodes)
contract(G, pairs) == FoldLeft(LAMBDA H, t : contract_from(G, pairs, H, t), G, G.nodes)

(***************************************************************************)
(* The order in which a field is walked: reversed post-order of a search   *)
(* from its transmitter, in which branches with more receivers than        *)
(* transmitters are searched first, balanced ones last.                    *)
(***************************************************************************)
count_pairs(G, n) ==
  LET t == Cardinality(Below(G, n) \cap G.carriers)
      r == Cardinality(Below(G, n) \cap G.receivers)
  IN  IF t < r THEN 0 ELSE IF t > r THEN 1 ELSE 2
branches(G, n) ==
  LET Class(c) == Only(successors(G, n), {m \in NodeSet(G) : count_pairs(G, m) = c})
  IN  Class(0) \o Class(1) \o Class(2)
visit_all(visit, done, nodes) ==
  FoldLeft(LAMBDA acc, m : IF Contains(acc, m) THEN acc ELSE visit[<<m, acc>>], done, nodes)
modified_dfs(G, start) ==
  LET visit[p \in NodeSet(G) \X Seq(NodeSet(G))] ==
        Append(visit_all(visit, p[2], branches(G, p[1])), p[1])
  IN  Reverse(visit[<<start, <<>>>>])

(***************************************************************************)
(* The start nodes of a planning: nodes without inbound edges, but not     *)
(* those that reach a receiver along paths on which some transmitter of    *)
(* the graph is missing.                                                   *)
(***************************************************************************)
Sources(G) == Only(topological_sort(G), Free(G, {}))
IsInit(G, s) ==
  /\ s \notin Transmitters(G)
  /\ \E r \in Receivers(G) \cap Below(G, s) :
       ~(Transmitters(G) \subseteq (Below(G, s) \cap Above(G, r)) \ {r})
calculate_start_nodes(G) ==
  LET valid == {s \in ToSet(Sources(G)) : ~IsInit(G, s)}
  IN  IF valid = {} THEN {Head(Sources(G))} ELSE valid
=============================================================================
