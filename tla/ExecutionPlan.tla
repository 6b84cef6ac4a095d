--------------------------- MODULE ExecutionPlan ---------------------------
(***************************************************************************)
(* What the planner (packages/mirmod/mirmod/processor_graph.py) hands to   *)
(* the engine (packages/mirmod/mirmod/processor.py).                       *)
(***************************************************************************)
EXTENDS Naturals, Sequences

CONSTANT Nodes  \* metadata ids of the nodes; a field is named by its transmitter

(***************************************************************************)
(* What processor_graph.py plans.  edges[n] are the inbound edges of n in  *)
(* order: src, whether src transmits a field, whether n's end is its       *)
(* receiver field.  body[t] are the field_nodes without the transmitter,   *)
(* inner[t] all contains_fields; async are the nodes whose execute is a    *)
(* coroutine, the only ones whose field's handler is asked.  A node        *)
(* without inbound edges is not one of them.                               *)
(***************************************************************************)
Edge == [src : Nodes, field : BOOLEAN, collect : BOOLEAN]

\* The block of a field: what stands behind its transmitter up to its receiver.
EndOf(g, t) == CHOOSE i \in 1..Len(g.plan) : g.plan[i] = g.receiver[t]
Holds(g, t, i) == g.index[t] < i /\ i <= EndOf(g, t)

\* The nodes that depend on the elements of a field.
NodesOf(g, t) == g.body[t] \cup UNION {g.body[u] : u \in g.inner[t]}

TypedPlan(g) ==
  /\ g.plan \in Seq(Nodes) /\ g.edges \in [Nodes -> Seq(Edge)]
  /\ g.fields \subseteq Nodes /\ g.async \subseteq Nodes
  /\ g.body \in [g.fields -> SUBSET Nodes]
  /\ g.inner \in [g.fields -> SUBSET g.fields]
  /\ g.receiver \in [g.fields -> Nodes]
  /\ g.index \in [g.fields -> 1..Len(g.plan)]
  /\ \A t \in g.fields : g.plan[g.index[t]] = t /\ g.receiver[t] \in g.body[t]
  /\ \A t \in g.fields : \E i \in 1..Len(g.plan) : g.plan[i] = g.receiver[t]
  /\ \A n \in Nodes : \A i \in 1..Len(g.edges[n]) :
       g.edges[n][i].field => g.edges[n][i].src \in g.fields /\ n \in g.body[g.edges[n][i].src]
  /\ \A n \in Nodes : \A i \in 1..Len(g.edges[n]) :
       g.edges[n][i].collect => \E t \in g.fields : g.receiver[t] = n
  /\ \A n \in g.async : g.edges[n] # <<>>

\* Every node is planned once, and the blocks of the fields nest like the
\* fields, each with a receiver of its own.
BlocksNest(g) ==
  /\ \A i, j \in 1..Len(g.plan) : g.plan[i] = g.plan[j] => i = j
  /\ \A t \in g.fields : g.index[t] < EndOf(g, t) /\ g.receiver[t] \notin g.fields
  /\ \A t \in g.fields : \A u \in g.inner[t] :
       g.index[t] < g.index[u] /\ EndOf(g, u) < EndOf(g, t)
  /\ \A t, u \in g.fields :
       \/ t = u \/ u \in g.inner[t] \/ t \in g.inner[u]
       \/ EndOf(g, t) < g.index[u] \/ EndOf(g, u) < g.index[t]
  /\ \A t, u \in g.fields : g.receiver[t] = g.receiver[u] => t = u

\* The nodes of a field stand in its block and in no inner one.
BodyInBlock(g) ==
  \A t \in g.fields : \A n \in g.body[t] :
    /\ g.edges[n] # <<>>
    /\ \E i \in 1..Len(g.plan) :
         /\ g.plan[i] = n /\ Holds(g, t, i)
         /\ \A u \in g.fields : Holds(g, u, i) => u = t \/ t \in g.inner[u]

\* The first node of a field is fed by the transmitter, its receiver collects,
\* and an inner field is reached through a node of the field.
FieldsStart(g) ==
  /\ \A t \in g.fields : \A i \in 1..Len(g.plan) :
       g.plan[i] \in g.body[t] /\ (\A j \in 1..(i - 1) : g.plan[j] \notin g.body[t]) =>
         \E k \in 1..Len(g.edges[g.plan[i]]) :
           g.edges[g.plan[i]][k].field /\ g.edges[g.plan[i]][k].src = t
  /\ \A t \in g.fields : \E k \in 1..Len(g.edges[g.receiver[t]]) : g.edges[g.receiver[t]][k].collect
  /\ \A t \in g.fields : \A u \in g.inner[t] :
       \E v \in g.inner[t] \cap g.body[t] : v = u \/ u \in g.inner[v]

\* Sources come first, and a block hands on nothing but what its receiver collects.
SourcesFirst(g) ==
  \A j \in 1..Len(g.plan) : \A i \in 1..Len(g.edges[g.plan[j]]) :
    LET s == g.edges[g.plan[j]][i].src
    IN  g.edges[s] # <<>> =>
          \E k \in 1..(j - 1) :
            /\ g.plan[k] = s
            /\ \A t \in g.fields : Holds(g, t, k) /\ k # EndOf(g, t) => j <= EndOf(g, t)

IsPlanned(g) == TypedPlan(g) /\ BlocksNest(g) /\ BodyInBlock(g) /\ FieldsStart(g) /\ SourcesFirst(g)

(***************************************************************************)
(* Drawings the planner accepts and the engine runs wrong: an element is   *)
(* lost or repeated, or a node passed by.  Apart excludes them.  The nodes *)
(* a transmitter feeds come before its inner fields; only a field in no    *)
(* other one has its transmitter plugged straight into its receiver; one   *)
(* edge leads into the collecting socket, behind the receiver's field      *)
(* edges; and what else a receiver takes comes from its field or from a    *)
(* node with inbound edges before it, in the same enclosing fields.        *)
(***************************************************************************)
FedBeforeInner(g) ==
  \A j \in 1..Len(g.plan) : \A i \in 1..Len(g.edges[g.plan[j]]) :
    g.edges[g.plan[j]][i].field =>
      \A u \in g.inner[g.edges[g.plan[j]][i].src] : j < g.index[u]

InnerHasNodes(g) == \A t \in g.fields : \A u \in g.inner[t] : g.body[u] # {g.receiver[u]}

CollectsOnce(g) ==
  \A t \in g.fields :
    LET es == g.edges[g.receiver[t]]
    IN  \A i, j \in 1..Len(es) : es[i].collect /\ (es[j].collect \/ es[j].field) => j <= i

OthersSettled(g) ==
  \A t \in g.fields :
    LET es == g.edges[g.receiver[t]]
    IN  \A i \in 1..Len(es) : ~es[i].collect =>
          \/ es[i].src \in NodesOf(g, t) \cup {t}
          \/ /\ g.edges[es[i].src] # <<>>
             /\ \E k \in 1..(g.index[t] - 1) :
                  /\ g.plan[k] = es[i].src
                  /\ \A u \in g.fields : Holds(g, u, k) /\ k # EndOf(g, u) => t \in g.inner[u]

Apart(g) == FedBeforeInner(g) /\ InnerHasNodes(g) /\ CollectsOnce(g) /\ OthersSettled(g)
=============================================================================
