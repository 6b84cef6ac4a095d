--------------------------- MODULE FieldExecution ---------------------------
(***************************************************************************)
(* The processor's execution engine (packages/mirmod/mirmod/processor.py): *)
(* execute_plan walks the nodes of a project in the planned order.  A      *)
(* transmitter field yields elements; the nodes of its field run once per  *)
(* element and its receiver field collects, which moves the instruction    *)
(* pointer back to the transmitter.  When the iterator is exhausted, the   *)
(* receiver runs once and execution goes on behind it.  Fields nest.  The  *)
(* exception handler of a field can skip the element, leave the field or   *)
(* restart it.  Dispatches and the debugger are left out.                  *)
(***************************************************************************)
EXTENDS ExecutionPlan

CONSTANTS
  NoField,      \* None, for a field or a handler
  Graphs,       \* the planned projects to execute; see IsPlanned
  Env,          \* what node code and handlers may do
  MaxElements,  \* bound: elements an iterator yields
  MaxRestarts   \* bound: F_RESTARTs in an execution

ASSUME EnvAssumption == Env \subseteq {"raise", "next", "exit", "restart"}
ASSUME BoundAssumption == MaxElements \in Nat /\ MaxRestarts \in Nat
ASSUME NoFieldAssumption == NoField \notin Nodes

ASSUME GraphAssumption == \A g \in Graphs : IsPlanned(g)

VARIABLES
  graph,      \* the project executed
  ip,         \* current_node_idx
  pc,         \* "loop", "edges", "close", "done", "failed"
  e,          \* the inbound edge of the current node processed next
  executed,   \* _has_executed
  active,     \* active_iterator_field
  stack,      \* iterator_stack
  iterators,  \* the fields with an iterator
  left,       \* the elements each iterator still has
  cached,     \* the fields with a cached_iterator_response
  exhausted,  \* field_is_exhausted
  again,      \* restart_loop
  reinit,     \* delayed_reinitialize
  handler,    \* current_exception_handler, by the field it came from
  restarts,   \* F_RESTARTs so far
  stale,      \* history: nodes that have not run on the current elements
  sent,       \* history: elements of this iteration that no handler dropped
  gathered    \* history: elements collected since the receiver's init

context == <<graph, ip, pc, e>>
fieldVars == <<active, stack, iterators, left, cached, exhausted, reinit, handler>>
history == <<stale, sent, gathered>>
vars == <<context, executed, again, restarts, fieldVars, history>>

node == graph.plan[ip]
edge == graph.edges[node][e]
Fields == graph.fields
Receivers == {graph.receiver[t] : t \in Fields}
Planned == 1..Len(graph.plan)
EdgeDue == pc = "edges" /\ e \in 1..Len(graph.edges[node])
AllReceived == pc = "edges" /\ e > Len(graph.edges[node])

Within(t) == NodesOf(graph, t)

TypeOK ==
  /\ graph \in Graphs
  /\ ip \in 1..(Len(graph.plan) + 1)
  /\ pc \in {"loop", "edges", "close", "done", "failed"}
  /\ pc = "edges" => ip \in Planned
  /\ pc = "close" => active \in Fields /\ stack # <<>>
  /\ e \in Nat
  /\ executed \subseteq Nodes
  /\ active \in Fields \cup {NoField}
  /\ stack \in Seq(Fields)
  /\ \A i, j \in 1..Len(stack) : stack[i] = stack[j] => i = j
  /\ iterators \subseteq Fields
  /\ left \in [Nodes -> 0..MaxElements]
  /\ cached \subseteq Fields
  /\ exhausted \subseteq Fields
  /\ again \in BOOLEAN
  /\ reinit \subseteq Fields
  /\ handler \in Fields \cup {NoField}
  /\ restarts \in 0..MaxRestarts
  /\ stale \subseteq Nodes
  /\ sent \in [Nodes -> Nat]
  /\ gathered \in [Nodes -> Nat]

Init ==
  /\ graph \in Graphs
  /\ ip = 1 /\ pc = "loop" /\ e = 1
  /\ executed = {} /\ again = FALSE /\ restarts = 0
  /\ active = NoField /\ stack = <<>> /\ handler = NoField
  /\ iterators = {} /\ cached = {} /\ exhausted = {} /\ reinit = {}
  /\ left = [n \in Nodes |-> 0]
  /\ stale = Nodes
  /\ sent = [n \in Nodes |-> 0] /\ gathered = [n \in Nodes |-> 0]

(***************************************************************************)
(* The loop over the plan.                                                 *)
(***************************************************************************)
\* Nodes that have run, and nodes without inbound edges (their successor
\* executes those), are skipped.
Skip ==
  /\ pc = "loop" /\ ip \in Planned
  /\ node \in executed \/ graph.edges[node] = <<>>
  /\ ip' = ip + 1
  /\ UNCHANGED <<graph, pc, e, executed, again, restarts, fieldVars, history>>

Begin ==
  /\ pc = "loop" /\ ip \in Planned
  /\ node \notin executed /\ graph.edges[node] # <<>>
  /\ pc' = "edges" /\ e' = 1 /\ again' = FALSE
  /\ UNCHANGED <<graph, ip, executed, restarts, fieldVars, history>>

Finish ==
  /\ pc = "loop" /\ ip \notin Planned
  /\ pc' = "done"
  /\ UNCHANGED <<graph, ip, e, executed, again, restarts, fieldVars, history>>

Fail ==
  /\ pc' = "failed"
  /\ UNCHANGED <<graph, ip, e, executed, again, restarts, fieldVars, history>>

SourceDue == EdgeDue /\ graph.edges[edge.src] = <<>> /\ edge.src \notin executed

\* execute_if_no_inbound_edges.
ExecuteSource ==
  /\ SourceDue
  /\ executed' = executed \cup {edge.src}
  /\ stale' = stale \ {edge.src}
  /\ UNCHANGED <<context, again, restarts, fieldVars, sent, gathered>>

(***************************************************************************)
(* process_edge.                                                           *)
(***************************************************************************)
Collected(r) == CHOOSE t \in Fields : graph.receiver[t] = r

\* The receiver field keeps the element and asks for the next pass: every
\* cached element is dropped, whatever field it belongs to.
Receive(now, known, collected) ==
  IF edge.collect /\ now # NoField /\ now \notin exhausted
  THEN /\ again' = TRUE
       /\ cached' = {}
       /\ gathered' = [collected EXCEPT ![Collected(node)] = @ + 1]
  ELSE /\ cached' = known
       /\ gathered' = collected
       /\ UNCHANGED again

NextEdge == e' = e + 1 /\ UNCHANGED <<graph, ip, pc>>

Transmit ==
  /\ EdgeDue /\ ~SourceDue /\ ~edge.field
  /\ executed' = executed \cup {edge.src}
  /\ Receive(active, cached, gathered)
  /\ NextEdge
  /\ UNCHANGED <<restarts, active, stack, iterators, left, exhausted, reinit, handler, stale, sent>>

\* current_node.field(): of a transmitter, the field it opens.
FieldOf(n) == IF n \in Fields THEN n ELSE CHOOSE t \in Fields : n \in graph.body[t]

\* Mutant: the collector is emptied and stays marked as executed.
MarkedOnly == executed \cup {edge.src}

\* A pending reinitialisation of the collector comes first.
Marked ==
  (executed \cup {edge.src}) \
    (IF edge.src \in reinit THEN {graph.receiver[FieldOf(node)]} ELSE {})

\* Mutant: the collector of an inner field keeps the elements of an earlier
\* iteration.
EmptiedNever == gathered

Emptied == IF edge.src \in reinit THEN [gathered EXCEPT ![edge.src] = 0] ELSE gathered

Elements(q) == {q[i] : i \in 1..Len(q)}

\* set_active_iterator.
SetActive(t) ==
  /\ active' = t
  /\ stack' = IF t \in Elements(stack) THEN stack ELSE Append(stack, t)

FieldEdge ==
  /\ EdgeDue /\ ~SourceDue /\ edge.field
  /\ executed' = Marked
  /\ reinit' = reinit \ {edge.src}
  /\ SetActive(edge.src)

\* Mutant: every edge fetches an element of its own.
UnfetchedAlways(t) == t \notin exhausted
Unfetched(t) == t \notin cached \cup exhausted

\* The element fetched for this pass is the same for every adjacent node; an
\* exhausted field transmits nothing, but the edge counts as received.
TransmitKnown ==
  /\ FieldEdge /\ ~Unfetched(edge.src)
  /\ Receive(edge.src, cached, Emptied)
  /\ NextEdge
  /\ UNCHANGED <<restarts, iterators, left, exhausted, handler, stale, sent>>

\* What an iterator has left: chosen when transmit() creates it.
Remaining(t) == IF t \in iterators THEN {left[t]} ELSE 0..MaxElements

\* get_value_from_iterator: next() yields an element, on which the nodes of
\* the field have not run yet.
TransmitNext ==
  /\ FieldEdge /\ Unfetched(edge.src)
  /\ \E n \in Remaining(edge.src) :
       /\ n > 0
       /\ left' = [left EXCEPT ![edge.src] = n - 1]
  /\ iterators' = iterators \cup {edge.src}
  /\ handler' = edge.src
  /\ stale' = stale \cup Within(edge.src)
  /\ sent' = [sent EXCEPT ![edge.src] = @ + 1]
  /\ Receive(edge.src, cached \cup {edge.src}, Emptied)
  /\ NextEdge
  /\ UNCHANGED <<restarts, exhausted>>

\* Mutant: the handler of the ended field stays in force.
CleanupWithHandler(t) ==
  /\ exhausted' = exhausted \cup {t}
  /\ again' = FALSE
  /\ pc' = "close"
  /\ UNCHANGED <<graph, ip, e, handler>>

\* cleanup_current_iterator, up to the receiver's other edges.
Cleanup(t) ==
  /\ exhausted' = exhausted \cup {t}
  /\ again' = FALSE
  /\ handler' = NoField
  /\ pc' = "close"
  /\ UNCHANGED <<graph, ip, e>>

\* next() raises StopIteration.
Exhaust ==
  /\ FieldEdge /\ Unfetched(edge.src)
  /\ 0 \in Remaining(edge.src)
  /\ iterators' = iterators \cup {edge.src}
  /\ left' = [left EXCEPT ![edge.src] = 0]
  /\ gathered' = Emptied
  /\ Cleanup(edge.src)
  /\ UNCHANGED <<restarts, cached, stale, sent>>

(***************************************************************************)
(* The node itself, once all its edges are received.                       *)
(***************************************************************************)
\* A receiver that collected: back to the transmitter for the next pass.
Restart ==
  /\ AllReceived /\ again
  /\ executed' = executed \ graph.body[active]
  /\ ip' = graph.index[active]
  /\ again' = FALSE
  /\ pc' = "loop"
  /\ UNCHANGED <<graph, e, restarts, fieldVars, history>>

Run ==
  /\ AllReceived /\ ~again
  /\ executed' = executed \cup {node}
  /\ stale' = stale \ {node}
  /\ ip' = ip + 1
  /\ pc' = "loop"
  /\ UNCHANGED <<graph, e, again, restarts, fieldVars, sent, gathered>>

\* execute_node with a handler that asks for another course.
Handled(outcome) ==
  /\ AllReceived /\ ~again
  /\ outcome \in Env
  /\ handler # NoField /\ node \in graph.async
  /\ sent' = [sent EXCEPT ![active] = gathered[active]]
  /\ UNCHANGED <<graph, e, again, left, reinit, stale, gathered>>

\* Mutant: the nodes see the same element again.
NextElementCached ==
  /\ Handled("next")
  /\ executed' = executed \ graph.body[active]
  /\ ip' = graph.index[active]
  /\ pc' = "loop"
  /\ UNCHANGED <<restarts, active, stack, iterators, exhausted, handler, cached>>

\* f_next_element.
NextElement ==
  /\ Handled("next")
  /\ executed' = executed \ graph.body[active]
  /\ cached' = {}
  /\ ip' = graph.index[active]
  /\ pc' = "loop"
  /\ UNCHANGED <<restarts, active, stack, iterators, exhausted, handler>>

\* f_exit: stop_current_iterator.
Exit ==
  /\ Handled("exit")
  /\ executed' = executed \ graph.body[active]
  /\ Cleanup(active)
  /\ UNCHANGED <<restarts, active, stack, iterators, cached>>

Top == IF stack = <<>> THEN NoField ELSE stack[Len(stack)]
\* Mutant: the stack is read and not popped.
Peek == stack
Pop == IF stack = <<>> THEN stack ELSE SubSeq(stack, 1, Len(stack) - 1)

\* f_restart: a new iterator for the field, from its first element.
RestartField ==
  /\ Handled("restart") /\ restarts < MaxRestarts
  /\ executed' = executed \ (graph.body[active] \cup {active})
  /\ active' = Top
  /\ stack' = Pop
  /\ handler' = NoField
  /\ iterators' = iterators \ {active}
  /\ cached' = {}
  /\ exhausted' = exhausted \ {active}
  /\ ip' = graph.index[active]
  /\ pc' = "loop"
  /\ restarts' = restarts + 1

(***************************************************************************)
(* cleanup_current_iterator from the receiver's other edges on, and        *)
(* restore_execution_context, which makes the field ready for another      *)
(* iteration.  The receiver is reached by now or never: behind it, ip.     *)
(***************************************************************************)
closing == graph.receiver[active]
Others == {i \in 1..Len(graph.edges[closing]) : ~graph.edges[closing][i].collect}
OtherSources == {graph.edges[closing][i].src : i \in Others}
Below == IF Len(stack) < 2 THEN NoField ELSE stack[Len(stack) - 1]

\* recursive_restore: may run again, on other elements.
Ready(nodes, t) == nodes \ Within(t)

\* Mutant: the field stays exhausted.
NeverRenewed(fields, t) == fields
Renewed(fields, t) == fields \ ({t} \cup graph.inner[t])

\* Where execution goes on after a field.
Behind(r) == (CHOOSE i \in Planned : graph.plan[i] = r) + 1

Close ==
  /\ pc = "close"
  /\ stale' = IF closing \in executed THEN stale ELSE stale \ {closing}
  /\ ip' = Behind(closing)
  /\ pc' = "loop"
  /\ executed' = Ready(executed \cup OtherSources \cup {closing}, Top)
  /\ iterators' = iterators \ {active}
  /\ active' = Below
  /\ stack' = Pop
  /\ reinit' = reinit \cup {Top}
  /\ exhausted' = Renewed(exhausted, Top)
  /\ cached' = Renewed(cached, Top)
  /\ sent' = [sent EXCEPT ![active] = 0]
  /\ UNCHANGED <<graph, e, again, restarts, left, handler, gathered>>

\* Node, transmitter, iterator or receiver code that raises where no handler
\* catches it ends the execution.
Raise ==
  /\ EdgeDue \/ (AllReceived /\ ~again) \/ pc = "close"
  /\ "raise" \in Env
  /\ Fail

Stopped == pc \in {"done", "failed"} /\ UNCHANGED vars

Step ==
  \/ Skip \/ Begin \/ Finish
  \/ ExecuteSource \/ Transmit \/ TransmitKnown \/ TransmitNext \/ Exhaust
  \/ Restart \/ Run \/ NextElement \/ Exit \/ RestartField
  \/ Close \/ Raise

Next == Step \/ Stopped

Spec == Init /\ [][Next]_vars

\* One coroutine executes the plan, and nothing else holds it up: node code
\* and handlers return.
FairSpec == Spec /\ WF_vars(Step)

(***************************************************************************)
(* Properties.                                                             *)
(***************************************************************************)
\* What the next step hands on: the outputs of these nodes.  A closed
\* receiver also gets what the nodes of its field happened to leave.
Sending ==
  IF EdgeDue /\ ~SourceDue /\ ~edge.field THEN {edge.src}
  ELSE IF pc = "close" THEN OtherSources \ (Within(active) \cup {active})
  ELSE {}

(***************************************************************************)
(* A node never passes on an output of an earlier element, or of no run at *)
(* all: the marks that several jumps set and reset (:1384, :1676-1693,     *)
(* :2182, :2282) never let the plan pass by a node that is due.            *)
(***************************************************************************)
TransmitsFresh == Sending \cap stale = {}

(***************************************************************************)
(* "The iterator response is the same for every adjacent node to the field *)
(* socket" (processor.py:1798): the next element is fetched only when the  *)
(* previous one was collected or dropped by a handler.                     *)
(***************************************************************************)
OneElementPerPass ==
  \A t \in iterators : gathered[t] <= sent[t] /\ sent[t] <= gathered[t] + 1

(***************************************************************************)
(* When a field ends, its receiver holds exactly the elements of this      *)
(* iteration that no handler dropped: none lost in a jump, none left over  *)
(* from the iteration for an earlier element of the enclosing field.       *)
(***************************************************************************)
CollectsEverything ==
  pc = "close" => active \in iterators /\ gathered[active] = sent[active]

(***************************************************************************)
(* A receiver runs once per iteration, at its end (:1378): the marks and   *)
(* exhaustion flags never let it run like an ordinary node.                *)
(***************************************************************************)
CollectorRunsLast == AllReceived /\ ~again => node \notin Receivers

(***************************************************************************)
(* The handler in force belongs to the active field, the node about to run *)
(* stands in its block and belongs to no other field: skipping, leaving or *)
(* restarting (:2261-2308), which act on the active field, act on the      *)
(* handler's own.  A node that initialises an inner field stands in the    *)
(* outer block, belongs to no field, and has the outer handler.            *)
(***************************************************************************)
HandlerInScope ==
  AllReceived /\ ~again /\ handler # NoField =>
    /\ handler = active /\ Holds(graph, active, ip)
    /\ \A t \in Fields : node \in graph.body[t] => t = active

(***************************************************************************)
(* When the plan is done, no field is left open, and every node outside    *)
(* the blocks of the fields has run: those in a block wait for an element. *)
(***************************************************************************)
CleanFinish ==
  pc = "done" =>
    /\ stack = <<>> /\ active = NoField /\ iterators = {} /\ handler = NoField
    /\ \A i \in Planned :
         graph.plan[i] \in stale =>
           \/ graph.edges[graph.plan[i]] = <<>>
           \/ \E t \in Fields : Holds(graph, t, i) /\ i # EndOf(graph, t)

(***************************************************************************)
(* Finite iterators and finitely many restarts end the execution: the      *)
(* jumps back to a transmitter (:2186, :2269, :2308) use up an element or  *)
(* a restart.                                                              *)
(***************************************************************************)
Terminates == <>(pc \in {"done", "failed"})
=============================================================================
