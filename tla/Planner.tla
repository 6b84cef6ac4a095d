------------------------------ MODULE Planner ------------------------------
(***************************************************************************)
(* The execution planner (packages/mirmod/mirmod/processor_graph.py and    *)
(* create_execution_plan in processor.py): every weakly connected part of  *)
(* a drawing without cycles is put into an order by two iterators that     *)
(* take turns.  The default iterator walks a topological sort in which     *)
(* the fields are contracted; a field iterator walks one outermost field   *)
(* and keeps the stack of the fields nested in it.  Dispatches (nodes with *)
(* two or more Transmitter_field sockets) are left out, and so are fields  *)
(* within initialisation branches.                                         *)
(***************************************************************************)
EXTENDS ProcessorGraph, ExecutionPlan

CONSTANTS
  Drawings,  \* the projects users draw: see IsDrawing
  Edits,     \* the edits <<before, after>> on which the processor plans again
  NoNode     \* None

IsDrawing(d) ==
  /\ d.nodes \in Seq(Nodes) /\ \A i, j \in DOMAIN d.nodes : d.nodes[i] = d.nodes[j] => i = j
  /\ d.edges \in Seq([src : Nodes, dst : Nodes, field : BOOLEAN, collect : BOOLEAN])
  /\ \A a \in ToSet(d.edges) : {a.src, a.dst} \subseteq ToSet(d.nodes)
  /\ \A i, j \in DOMAIN d.edges : <<d.edges[i].src, d.edges[i].dst>> = <<d.edges[j].src, d.edges[j].dst>> => i = j
  /\ {a.src : a \in {b \in ToSet(d.edges) : b.field}} \subseteq d.carriers
  /\ {a.dst : a \in {b \in ToSet(d.edges) : b.collect}} \subseteq d.receivers

ASSUME NodesAssumption == Nodes \subseteq Nat \ {0}
ASSUME NoNodeAssumption == NoNode \notin Nodes
ASSUME DrawingAssumption == \A d \in Drawings \cup UNION {{e[1], e[2]} : e \in Edits} : IsDrawing(d)

VARIABLES
  drawing,   \* the project: nodes, edges with their sockets, which nodes have field attributes
  pc,        \* "part", "start", "next", "offer", "done", "failed"
  todo,      \* the nodes of the parts not yet planned
  G,         \* execution_graph: the part being planned
  plan,      \* execution_plan of this part
  plans,     \* all_plans
  itr,       \* next_node_itr: "default" or "field"
  offer,     \* the node the iterator returned
  last,      \* last_node_mid of the planner
  dit,       \* the default iterator
  fit,       \* the current field iterator
  fields,    \* every Field_descriptor
  complete,  \* the fields registered with the planner
  cache      \* _field_cache, shared by all plannings of the process

part == <<todo, G, plans>>
vars == <<drawing, pc, part, plan, itr, offer, last, dit, fit, fields, complete, cache>>

Graph(d) ==
  [nodes |-> d.nodes,
   edges |-> [i \in DOMAIN d.edges |-> <<d.edges[i].src, d.edges[i].dst>>],
   fieldEdges |-> {<<a.src, a.dst>> : a \in {b \in ToSet(d.edges) : b.field}},
   carriers |-> d.carriers,
   receivers |-> d.receivers]

Field_descriptor(r) == [receiver |-> r, body |-> {}, inner |-> {}, init |-> <<>>]
NoDescriptors == [n \in Nodes |-> Field_descriptor(NoNode)]
Default_node_iterator == [home |-> NoNode, sorted |-> <<>>, index |-> 1, near |-> <<>>]
Field_iterator ==
  [walk |-> <<>>, visited |-> {}, pairs |-> {}, stack |-> <<>>, ended |-> FALSE, imported |-> {}]

Init ==
  /\ drawing \in Drawings /\ cache = <<>>
  /\ pc = "part" /\ todo = ToSet(drawing.nodes) /\ plans = <<>>
  /\ G = subgraph(Graph(drawing), {}) /\ plan = <<>>
  /\ itr = "none" /\ offer = NoNode /\ last = NoNode
  /\ dit = Default_node_iterator /\ fit = Field_iterator
  /\ fields = NoDescriptors /\ complete = {}

(***************************************************************************)
(* The parts of the drawing.  Parts with a cycle are ignored, parts        *)
(* without a connected field are sorted.                                   *)
(***************************************************************************)
NextComponent ==
  component(Graph(drawing), Head(Only(drawing.nodes, todo)))

TakePart ==
  /\ pc = "part" /\ todo # {}
  /\ todo' = todo \ NextComponent
  /\ G' = subgraph(Graph(drawing), NextComponent)
  /\ plan' = <<>> /\ itr' = "none" /\ dit' = Default_node_iterator
  /\ UNCHANGED <<drawing, offer, last, fit, fields, complete, cache>>

Cyclic == TakePart /\ ~is_acyclic(G') /\ UNCHANGED <<pc, plans>>

SortPart ==
  /\ TakePart /\ is_acyclic(G') /\ Transmitters(G') = {}
  /\ plans' = plans \o topological_sort(G')
  /\ UNCHANGED pc

PlanPart == TakePart /\ is_acyclic(G') /\ Transmitters(G') # {} /\ pc' = "start" /\ UNCHANGED plans

Finish ==
  /\ pc = "part" /\ todo = {}
  /\ pc' = "done"
  /\ UNCHANGED <<drawing, part, plan, itr, offer, last, dit, fit, fields, complete, cache>>

\* A part is done: init nodes go before the transmitter of their field.
Add(acc, n) == IF Contains(acc, n) THEN acc ELSE Append(acc, n)
AddAll(acc, nodes) == FoldLeft(Add, acc, nodes)
AddWithInit(acc, n) == IF Contains(acc, n) THEN acc ELSE AddAll(acc, Append(fields[n].init, n))
plan_with_init_nodes == FoldLeft(AddWithInit, <<>>, plan)

EndPart ==
  /\ plans' = plans \o plan_with_init_nodes
  /\ pc' = "part"
  /\ UNCHANGED <<drawing, todo, G, plan, itr, offer, last, dit, complete, cache>>

(***************************************************************************)
(* The default iterator.  set_start_node sorts what is to the right of n,  *)
(* with its outermost fields contracted, and swaps n to the front; a node  *)
(* that is sorted already only rewinds the iterator.                       *)
(***************************************************************************)
IsOuter(n) == n \notin Transmitters(G)

\* Mutant: the fields are not contracted.
SortFlat(n) == topological_sort(subgraph(G, component(G, n)))

SortFrom(n) ==
  LET right == subgraph(G, split_graph(G, n))
      found == find_transmitter_receiver_pairs(right)
  IN  topological_sort(IF found # {} THEN contract(G, find_outermost_pair(right, found))
                       ELSE subgraph(G, component(right, n)))

\* Mutant: the swap is forgotten and the start node keeps its place.
SetUnswapped(n) ==
  IF Contains(dit.sorted, n) THEN [dit EXCEPT !.index = 1]
  ELSE [home |-> n, index |-> 1, near |-> successors(G, n), sorted |-> dit.sorted \o SortFrom(n)]

SetDefault(n) ==
  LET all == dit.sorted \o SortFrom(n)
      at == CHOOSE i \in DOMAIN all : all[i] = n /\ \A j \in 1..(i - 1) : all[j] # n
  IN  IF Contains(dit.sorted, n) THEN [dit EXCEPT !.index = 1]
      ELSE [home |-> n, index |-> 1, near |-> successors(G, n),
            sorted |-> IF Contains(all, n) THEN [all EXCEPT ![at] = all[1], ![1] = n] ELSE all]

StartDefault ==
  /\ pc = "start"
  /\ \E s \in calculate_start_nodes(G) :
       /\ IsOuter(s)
       /\ dit' = SetDefault(s) /\ plan' = <<s>> /\ last' = s
  /\ itr' = "default" /\ pc' = "next"
  /\ UNCHANGED <<drawing, part, offer, fit, fields, complete, cache>>

Offer(n) == offer' = n /\ pc' = "offer"

\* The next sorted node; past the end, the successors of the last one.
More == dit.index < Len(dit.sorted)
NextDefault ==
  /\ pc = "next" /\ itr = "default" /\ (More \/ dit.near # <<>>)
  /\ LET m == IF More THEN dit.sorted[dit.index + 1] ELSE Head(dit.near)
         n == IF m < 0 THEN -m ELSE m
     IN  /\ Offer(n)
         /\ dit' = IF More THEN [dit EXCEPT !.index = @ + 1, !.near = successors(G, n)]
                   ELSE [dit EXCEPT !.near = Tail(@)]
  /\ UNCHANGED <<drawing, part, plan, itr, last, fit, fields, complete, cache>>

\* select_iterator_strategy answers the same iterator again.
EndDefault ==
  /\ pc = "next" /\ itr = "default"
  /\ ~More /\ dit.near = <<>>
  /\ EndPart /\ UNCHANGED <<fit, fields>>

(***************************************************************************)
(* The field iterator.                                                     *)
(***************************************************************************)
\* process_inbound_nodes: sources of a field node that do not depend on the
\* field and precede no planned node are put before the field, with all that
\* they depend on.
ImportFrom(t, body, acc, u) ==
  IF u \in body \cup acc.imported \/ has_path(G, t, u) \/ Below(G, u) \cap ToSet(plan) # {} THEN acc
  ELSE [imported |-> acc.imported \cup Above(G, u),
        init |-> acc.init \o Only(topological_sort(subgraph(G, Above(G, u))), Above(G, u) \ ToSet(plan))]
Import(t, n, descriptors, imported) ==
  FoldLeft(LAMBDA acc, u : ImportFrom(t, descriptors[t].body, acc, u),
           [imported |-> imported, init |-> descriptors[t].init], predecessors(G, n))

\* calculate_field, kept for every pair ever asked for.
CachedField(found) ==
  [p \in found \cup DOMAIN cache |-> IF p \in DOMAIN cache THEN cache[p] ELSE calculate_field(G, p)]

EnterField(t) ==
  LET inner == subgraph(G, NodeSet(G) \ ancestors(G, t))
      found == find_transmitter_receiver_pairs(inner)
      new == [fields EXCEPT ![t] = Field_descriptor(NoNode)]
      import == Import(t, t, new, {})
  IN  /\ cache' = CachedField(found)
      /\ itr' = "field"
      /\ \E p \in find_enveloping_tr_pair(t, found, cache') :
           fields' = [new EXCEPT ![t].receiver = p[2], ![t].init = import.init]
      /\ fit' = [walk |-> modified_dfs(inner, t), visited |-> {t}, pairs |-> found, stack |-> <<t>>,
                 ended |-> FALSE, imported |-> import.imported]
      /\ plan' = Append(plan, t) /\ last' = t /\ pc' = "next"
      /\ UNCHANGED <<drawing, part, offer, dit, complete>>

\* "No transmitter-receiver pairs detected.", or none that holds the node.
NoPair(t) ==
  LET found == find_transmitter_receiver_pairs(subgraph(G, NodeSet(G) \ ancestors(G, t)))
  IN  find_enveloping_tr_pair(t, found, CachedField(found)) = {}
Unpaired ==
  /\ \/ pc = "start" /\ \E s \in calculate_start_nodes(G) : ~IsOuter(s) /\ NoPair(s)
     \/ pc = "offer" /\ ~Contains(plan, offer) /\ itr = "default" /\ ~IsOuter(offer) /\ NoPair(offer)
  /\ pc' = "failed"
  /\ UNCHANGED <<drawing, part, plan, itr, offer, last, dit, fit, fields, complete, cache>>

StartField == pc = "start" /\ \E s \in calculate_start_nodes(G) : ~IsOuter(s) /\ EnterField(s)

Current == Last(fit.stack)
InField == pc = "next" /\ itr = "field" /\ fit.stack # <<>>
Unvisited == Only(fit.walk, ToSet(fit.walk) \ (fit.visited \cup fields[Current].body))

\* The next node, marked as one of the current field, with what it imports.
Visit(n) ==
  LET marked == [fields EXCEPT ![Current].body = @ \cup {n}]
      import == Import(Current, n, marked, fit.imported)
  IN  [fit |-> [fit EXCEPT !.visited = @ \cup {n}, !.walk = Unvisited, !.imported = import.imported],
       fields |-> [marked EXCEPT ![Current].init = import.init]]
Enveloping(n) == find_enveloping_tr_pair(n, fit.pairs, cache)

WalkNode ==
  /\ InField /\ Unvisited # <<>>
  /\ LET n == Head(Unvisited)
     IN  /\ \/ Enveloping(n) = {}
            \/ n \notin Receivers(G) /\ \E p \in Enveloping(n) : p[1] = Current
         /\ fit' = Visit(n).fit /\ fields' = Visit(n).fields
         /\ Offer(n)
  /\ UNCHANGED <<drawing, part, plan, itr, last, dit, complete, cache>>

\* A node of a nested field: the field goes onto the stack.
\* Mutant: the outer field does not learn of the nested one.
NestedUnknown(desc, p) == [desc EXCEPT ![p[1]] = Field_descriptor(p[2])]

Nested(desc, p) ==
  [desc EXCEPT ![Current].inner = @ \cup {p[1]}, ![p[1]] = Field_descriptor(p[2])]

OpenField ==
  /\ InField /\ Unvisited # <<>>
  /\ LET n == Head(Unvisited)
     IN  /\ n \notin Receivers(G)
         /\ \E p \in Enveloping(n) :
              /\ p[1] # Current
              /\ fit' = [Visit(n).fit EXCEPT !.stack = Append(@, p[1])]
              /\ fields' = Nested(Visit(n).fields, p)
         /\ Offer(n)
  /\ UNCHANGED <<drawing, part, plan, itr, last, dit, complete, cache>>

\* The receiver takes the field off the stack and registers it.
CloseField ==
  /\ InField /\ Unvisited # <<>>
  /\ LET n == Head(Unvisited)
     IN  /\ n \in Receivers(G)
         /\ \E p \in Enveloping(n) :
              /\ n = p[2]
              /\ fit' = [Visit(n).fit EXCEPT !.ended = TRUE,
                                             !.stack = IF p[1] = Current THEN Front(@) ELSE @]
              /\ fields' = [(IF p[1] = Current THEN Visit(n).fields ELSE Nested(Visit(n).fields, p))
                              EXCEPT ![p[1]].receiver = n]
              /\ complete' = complete \cup {p[1]}
         /\ Offer(n)
  /\ UNCHANGED <<drawing, part, plan, itr, last, dit, cache>>

\* "The receiver {} doesn't match the pair {}"
WrongReceiver ==
  /\ InField /\ Unvisited # <<>>
  /\ Head(Unvisited) \in Receivers(G)
  /\ \E p \in Enveloping(Head(Unvisited)) : Head(Unvisited) # p[2]
  /\ pc' = "failed"
  /\ UNCHANGED <<drawing, part, plan, itr, offer, last, dit, fit, fields, complete, cache>>

\* The walk ends inside the field: select_iterator_strategy answers the same
\* iterator, which has no more nodes.
ExhaustWalk ==
  /\ InField /\ Unvisited = <<>>
  /\ fields' = [fields EXCEPT ![Current].body = @ \cup (IF fit.walk = <<>> THEN {} ELSE {Last(fit.walk)})]
  /\ EndPart /\ UNCHANGED fit

\* The outermost field is closed: back to the default iterator.
\* Mutant: the walk goes on behind the outermost field without a new sort.
LeaveUnsorted ==
  /\ pc = "next" /\ itr = "field" /\ fit.stack = <<>>
  /\ ~fit.ended /\ IsOuter(last)
  /\ itr' = "default" /\ dit' = [dit EXCEPT !.index = 1, !.near = successors(G, last)]
  /\ Offer(last)
  /\ UNCHANGED <<drawing, part, plan, last, fit, fields, complete, cache>>

LeaveField ==
  /\ pc = "next" /\ itr = "field" /\ fit.stack = <<>>
  /\ ~fit.ended /\ IsOuter(last)
  /\ itr' = "default" /\ dit' = SetDefault(last)
  /\ Offer(dit'.home)
  /\ UNCHANGED <<drawing, part, plan, last, fit, fields, complete, cache>>

EndField ==
  /\ pc = "next" /\ itr = "field" /\ fit.stack = <<>>
  /\ fit.ended \/ ~IsOuter(last)
  /\ EndPart /\ UNCHANGED <<fit, fields>>

(***************************************************************************)
(* What the planner does with a node an iterator returned.                 *)
(***************************************************************************)
\* Mutant: a node that is in the plan makes the iterator start over.
SeenRewinds ==
  /\ pc = "offer" /\ Contains(plan, offer)
  /\ pc' = "next" /\ dit' = [dit EXCEPT !.index = IF itr = "default" THEN 1 ELSE @]
  /\ UNCHANGED <<drawing, part, plan, itr, offer, last, fit, fields, complete, cache>>

Seen ==
  /\ pc = "offer" /\ Contains(plan, offer)
  /\ pc' = "next"
  /\ UNCHANGED <<drawing, part, plan, itr, offer, last, dit, fit, fields, complete, cache>>

Commit ==
  /\ pc = "offer" /\ ~Contains(plan, offer)
  /\ itr = "field" \/ IsOuter(offer)
  /\ fit' = IF itr = "field" /\ fit.stack = <<>> THEN [fit EXCEPT !.ended = FALSE] ELSE fit
  /\ plan' = Append(plan, offer) /\ last' = offer
  /\ pc' = "next"
  /\ UNCHANGED <<drawing, part, itr, offer, dit, fields, complete, cache>>

SwitchToField ==
  /\ pc = "offer" /\ ~Contains(plan, offer)
  /\ itr = "default" /\ ~IsOuter(offer)
  /\ EnterField(offer)

\* The user edits the project and the processor reloads it.
Reload ==
  /\ pc = "done"
  /\ \E e \in Edits : drawing = e[1] /\ drawing' = e[2]
  /\ pc' = "part" /\ todo' = ToSet(drawing'.nodes) /\ plans' = <<>>
  /\ fields' = NoDescriptors /\ complete' = {}
  /\ UNCHANGED <<G, plan, itr, offer, last, dit, fit, cache>>

Next ==
  \/ Cyclic \/ SortPart \/ PlanPart \/ Finish
  \/ StartDefault \/ NextDefault \/ EndDefault
  \/ Unpaired \/ StartField \/ WalkNode \/ OpenField \/ CloseField \/ WrongReceiver \/ ExhaustWalk
  \/ LeaveField \/ EndField
  \/ Seen \/ Commit \/ SwitchToField \/ Reload

Spec == Init /\ [][Next]_vars

\* The planner is one call: it goes on until it returns or raises.  This is
\* weak fairness of Next, with the states in which it is enabled spelled out.
Running == pc \notin {"done", "failed"}
FairSpec == Spec /\ ([]<>(~Running) \/ []<><<Next>>_vars)

(***************************************************************************)
(* Properties.  A drawing is well drawn when its transmitters and          *)
(* receivers can be paired in one way so that every node of a field leads  *)
(* to its receiver and only the receiver leads out of it, fields nest or   *)
(* are apart, and what feeds a field, other than through its transmitter,  *)
(* is a plain branch used nowhere else.                                    *)
(***************************************************************************)
Drawn == Graph(drawing)
Planned(n) == CHOOSE i \in DOMAIN plans : plans[i] = n
Sortable == {n \in ToSet(drawing.nodes) : is_acyclic(subgraph(Drawn, component(Drawn, n)))}

\* What a field holds when its transmitter is paired with r.
Between(g, t, r) == {r} \cup Below(subgraph(g, NodeSet(g) \ {r}), t)

Feeds(g, u, t, r) ==
  /\ Above(g, u) \cap (Transmitters(g) \cup Receivers(g) \cup Above(g, t)) = {}
  /\ \A m \in Above(g, u) : ToSet(successors(g, m)) \subseteq Above(g, u) \cup Between(g, t, r)
Closed(g, t, r) ==
  LET own == Between(g, t, r)
  IN  /\ r \in descendants(g, t)
      /\ \A n \in own \ {r} : r \in Below(g, n) /\ ToSet(successors(g, n)) \subseteq own
      /\ \A n \in own \ {t} : \A u \in ToSet(predecessors(g, n)) \ own : Feeds(g, u, t, r)
Nests(g, f) ==
  \A t, u \in DOMAIN f : t # u =>
    LET a == Between(g, t, f[t])
        b == Between(g, u, f[u])
    IN  f[t] # f[u] /\ (a \cap b = {} \/ a \subseteq b \ {u, f[u]} \/ b \subseteq a \ {t, f[t]})
Pairings(g) ==
  {f \in [Transmitters(g) -> Receivers(g)] :
     Nests(g, f) /\ \A t \in DOMAIN f : Closed(g, t, f[t])}
WellDrawn(d) ==
  /\ Cardinality(Pairings(Graph(d))) = 1
  /\ Cardinality(Transmitters(Graph(d))) = Cardinality(Receivers(Graph(d)))
Returned == pc = "done" /\ WellDrawn(drawing)

TypeOK ==
  /\ IsDrawing(drawing)
  /\ pc \in {"part", "start", "next", "offer", "done", "failed"}
  /\ todo \subseteq ToSet(drawing.nodes)
  /\ plan \in Seq(Nodes) /\ plans \in Seq(Nodes)
  /\ itr \in {"none", "default", "field"}
  /\ offer \in Nodes \cup {NoNode} /\ last \in Nodes \cup {NoNode}
  /\ fit.stack \in Seq(Nodes) /\ fit.visited \subseteq Nodes /\ fit.pairs \subseteq DOMAIN cache
  /\ dit.sorted \in Seq(Nodes \cup {-n : n \in Nodes}) /\ dit.near \in Seq(Nodes)
  /\ \A n \in Nodes : fields[n].body \subseteq Nodes /\ fields[n].inner \subseteq Nodes
  /\ complete \subseteq Nodes

\* Whatever is drawn, a plan that is returned holds no node twice and none
\* of a part with a cycle.
PlannedOnce ==
  pc = "done" => /\ ToSet(plans) \subseteq Sortable
                 /\ \A i, j \in DOMAIN plans : plans[i] = plans[j] => i = j

\* Whatever else is drawn, a part without fields is planned completely, every
\* node after all that feed it.
Fieldless(n) == Transmitters(subgraph(Drawn, component(Drawn, n))) = {}
PlainInOrder ==
  pc = "done" =>
    \A n \in Sortable : Fieldless(n) =>
      /\ n \in ToSet(plans)
      /\ \A u \in ToSet(predecessors(Drawn, n)) : u \in ToSet(plans) /\ Planned(u) < Planned(n)

\* What every returned plan keeps, of drawings whose fields cannot be told
\* apart too: the hand-overs between the iterators and the insertion of the
\* init nodes repeat no node, and the parts around stay whole.
EveryPlan == PlannedOnce /\ PlainInOrder

\* The plan of a well drawn project holds every node of the parts without a
\* cycle, and a node with inbound edges comes before the nodes it feeds,
\* across the contraction of the fields and the two walks.  (The engine runs
\* a node without inbound edges when its value is asked for, wherever it
\* stands.)
CompletePlan ==
  Returned =>
    /\ Sortable \subseteq ToSet(plans)
    /\ \A a \in EdgeSet(Drawn) :
         a[1] \in Sortable /\ predecessors(Drawn, a[1]) # <<>> => Planned(a[1]) < Planned(a[2])

\* The greedy rounds of pairing, the enveloping pairs and the field stack
\* find the pairing whose fields nest, and every field gets what is between
\* its transmitter and its receiver.
FieldsNest ==
  Returned =>
    LET receiver == [t \in complete |-> fields[t].receiver]
    IN  /\ complete = Transmitters(subgraph(Drawn, Sortable))
        /\ Nests(Drawn, receiver)
        /\ \A t \in complete :
             /\ fields[t].inner = {u \in complete \ {t} :
                  /\ u \in Between(Drawn, t, receiver[t])
                  /\ \A v \in complete \ {t, u} : u \in Between(Drawn, v, receiver[v]) => t \in Between(Drawn, v, receiver[v])}
             /\ fields[t].body \cup {t} =
                  Between(Drawn, t, receiver[t]) \ UNION {Between(Drawn, u, receiver[u]) \ {u} : u \in fields[t].inner}

\* The engine jumps back from a receiver to its transmitter and runs what
\* stands between them once per element: that is the field, with the fields
\* nested in it and what initialises those, and nothing else.
FieldIsBlock ==
  Returned =>
    \A t \in complete :
      LET within == {plans[i] : i \in Planned(t)..Planned(fields[t].receiver)}
          own == Between(Drawn, t, fields[t].receiver)
      IN  /\ own \subseteq within
          /\ within \subseteq own \cup UNION {ToSet(fields[u].init) : u \in complete \ {t}}

\* The plan is one the engine can run: what FieldExecution assumes of its
\* graphs holds of what the planner made.
Inner(t) == {u \in complete \ {t} : u \in Between(Drawn, t, fields[t].receiver)}
ForEngine ==
  LET inbound(n) == SelectSeq(drawing.edges, LAMBDA a : a.dst = n)
      edges == [n \in Nodes |-> [i \in DOMAIN inbound(n) |->
                 [src |-> inbound(n)[i].src, field |-> inbound(n)[i].field, collect |-> inbound(n)[i].collect]]]
  IN  [plan |-> plans, edges |-> edges, fields |-> complete,
       body |-> [t \in complete |-> fields[t].body], inner |-> [t \in complete |-> Inner(t)],
       receiver |-> [t \in complete |-> fields[t].receiver],
       index |-> [t \in complete |-> Planned(t)],
       async |-> {n \in Nodes : edges[n] # <<>>}]
FitsEngine == Returned /\ Sortable = ToSet(drawing.nodes) => IsPlanned(ForEngine)

\* Planning ends, whatever is drawn: with a plan or, on a drawing whose
\* fields cannot be told apart, with an exception.  The iterators hand over
\* to each other and rewind, but never forever.
PlanningEnds == Running ~> pc \in (IF WellDrawn(drawing) THEN {"done"} ELSE {"done", "failed"})
=============================================================================
