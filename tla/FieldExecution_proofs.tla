------------------------ MODULE FieldExecution_proofs ------------------------
(***************************************************************************)
(* Proofs about FieldExecution, for any planned project and any lengths of *)
(* its iterators.                                                          *)
(***************************************************************************)
EXTENDS FieldExecution, TLAPS

\* What IsPlanned says of the project that is executed.
LEMMA GraphFacts ==
  ASSUME graph \in Graphs
  PROVE  /\ graph.plan \in Seq(Nodes) /\ graph.edges \in [Nodes -> Seq(Edge)]
         /\ Fields \subseteq Nodes
         /\ graph.body \in [Fields -> SUBSET Nodes]
         /\ graph.inner \in [Fields -> SUBSET Fields]
         /\ graph.receiver \in [Fields -> Nodes]
         /\ graph.index \in [Fields -> Planned]
         /\ \A t \in Fields : \E i \in Planned : graph.plan[i] = graph.receiver[t]
  BY GraphAssumption DEF IsPlanned, TypedPlan, Fields, Planned

\* The edge processed next, and its ends.
LEMMA EdgeFacts ==
  ASSUME TypeOK, EdgeDue
  PROVE  /\ node \in Nodes /\ edge \in Edge /\ edge.src \in Nodes
         /\ edge.field => edge.src \in Fields
         /\ edge.collect => Collected(node) \in Fields
<1>1. ip \in Planned /\ pc = "edges"
  BY DEF TypeOK, EdgeDue
<1>2. graph \in Graphs
  BY DEF TypeOK
<1>3. node \in Nodes
  BY <1>1, <1>2, GraphFacts DEF node, Planned
<1>4. graph.edges[node] \in Seq(Edge) /\ e \in 1..Len(graph.edges[node])
  BY <1>2, <1>3, GraphFacts DEF EdgeDue
<1>5. edge \in Edge
  BY <1>4 DEF edge
<1>6. edge.field => edge.src \in Fields
  BY <1>2, <1>3, <1>4, GraphAssumption DEF IsPlanned, TypedPlan, edge, Fields
<1>7. edge.collect => \E t \in Fields : graph.receiver[t] = node
  BY <1>2, <1>3, <1>4, GraphAssumption DEF IsPlanned, TypedPlan, edge, Fields
<1> QED
  BY <1>3, <1>5, <1>6, <1>7 DEF Edge, Collected

(***************************************************************************)
(* Types are not inductive: jumps index the plan by the active field, so a *)
(* field must be open whenever a handler is in force or a receiver has     *)
(* asked for the next pass.                                                *)
(***************************************************************************)
Open ==
  /\ again => active \in Fields
  /\ handler # NoField => active \in Fields /\ stack # <<>>
  /\ pc = "close" => handler = NoField /\ ~again

EngineInv == TypeOK /\ Open

\* The stack stays a sequence of different fields.
LEMMA PushFacts ==
  ASSUME TypeOK, NEW t \in Fields, SetActive(t)
  PROVE  /\ active' \in Fields
         /\ stack' \in Seq(Fields) /\ stack' # <<>>
         /\ \A i, j \in 1..Len(stack') : stack'[i] = stack'[j] => i = j
<1>1. CASE t \in Elements(stack)
  BY <1>1 DEF SetActive, Elements, TypeOK
<1>2. CASE t \notin Elements(stack)
  <2>1. stack' = Append(stack, t) /\ stack \in Seq(Fields) /\ active' = t
    BY <1>2 DEF SetActive, TypeOK
  <2>2. /\ Len(stack') = Len(stack) + 1 /\ stack'[Len(stack) + 1] = t
        /\ \A i \in 1..Len(stack) : stack'[i] = stack[i]
    BY <2>1
  <2>3. \A i \in 1..Len(stack) : stack[i] # t
    BY <1>2 DEF Elements
  <2> QED
    BY <2>1, <2>2, <2>3 DEF TypeOK
<1> QED
  BY <1>1, <1>2

LEMMA PopFacts ==
  ASSUME TypeOK
  PROVE  /\ Pop \in Seq(Fields)
         /\ \A i, j \in 1..Len(Pop) : Pop[i] = Pop[j] => i = j
         /\ Top \in Fields \cup {NoField} /\ Below \in Fields \cup {NoField}
         /\ stack # <<>> => Top \in Fields
<1>1. stack \in Seq(Fields) /\ Len(stack) \in Nat
  BY DEF TypeOK
<1>2. CASE stack = <<>>
  BY <1>2 DEF Pop, Top, Below
<1>3. CASE stack # <<>>
  <2>1. PICK k \in Nat : Len(stack) = k + 1
    BY <1>1, <1>3
  <2>2. Pop = SubSeq(stack, 1, k)
    BY <1>3, <2>1 DEF Pop
  <2>3. Pop \in Seq(Fields) /\ Len(Pop) = k /\ \A i \in 1..k : Pop[i] = stack[i]
    BY <1>1, <2>1, <2>2
  <2>4. Top \in Fields /\ Below \in Fields \cup {NoField}
    BY <1>1, <1>3, <2>1 DEF Top, Below
  <2> QED
    BY <2>1, <2>3, <2>4 DEF TypeOK
<1> QED
  BY <1>2, <1>3

\* What an edge may change besides the stack.
LEMMA ReceiveFacts ==
  ASSUME TypeOK, EdgeDue, NEW now, NEW known \in SUBSET Fields,
         NEW collected \in [Nodes -> Nat], Receive(now, known, collected)
  PROVE  /\ again' \in BOOLEAN /\ (again' => again \/ now # NoField)
         /\ cached' \subseteq Fields /\ gathered' \in [Nodes -> Nat]
<1>1. CASE edge.collect /\ now # NoField /\ now \notin exhausted
  <2>1. Collected(node) \in Nodes
    BY <1>1, EdgeFacts, GraphFacts DEF TypeOK
  <2> QED
    BY <1>1, <2>1 DEF Receive, TypeOK
<1>2. CASE ~(edge.collect /\ now # NoField /\ now \notin exhausted)
  BY <1>2 DEF Receive, TypeOK
<1> QED
  BY <1>1, <1>2

LEMMA FieldEdgeFacts ==
  ASSUME TypeOK, FieldEdge
  PROVE  /\ EdgeDue /\ edge.src \in Fields /\ edge.src \in Nodes
         /\ executed' \subseteq Nodes /\ reinit' \subseteq Fields
         /\ Emptied \in [Nodes -> Nat]
         /\ active' \in Fields
         /\ stack' \in Seq(Fields) /\ stack' # <<>>
         /\ \A i, j \in 1..Len(stack') : stack'[i] = stack'[j] => i = j
<1>1. EdgeDue /\ edge.src \in Fields /\ edge.src \in Nodes
  BY EdgeFacts DEF FieldEdge
<1>2. executed' \subseteq Nodes /\ reinit' \subseteq Fields
  BY <1>1 DEF FieldEdge, Marked, TypeOK
<1>3. Emptied \in [Nodes -> Nat]
  BY <1>1 DEF Emptied, TypeOK
<1> QED
  BY <1>1, <1>2, <1>3, PushFacts DEF FieldEdge

LEMMA EngineInit == Init => EngineInv
<1> SUFFICES ASSUME Init PROVE EngineInv
  OBVIOUS
<1>1. ip \in 1..(Len(graph.plan) + 1)
  <2>1. graph.plan \in Seq(Nodes) /\ ip = 1
    BY GraphFacts DEF Init
  <2>2. Len(graph.plan) \in Nat
    BY <2>1
  <2> QED
    BY <2>1, <2>2
<1>2. left \in [Nodes -> 0..MaxElements] /\ restarts \in 0..MaxRestarts
  BY BoundAssumption DEF Init
<1>3. stack \in Seq(Fields) /\ 1..Len(stack) = {}
  BY DEF Init
<1>4. sent \in [Nodes -> Nat] /\ gathered \in [Nodes -> Nat]
  BY DEF Init
<1>5. TypeOK
  BY <1>1, <1>2, <1>3, <1>4 DEF Init, TypeOK
<1> QED
  BY <1>5 DEF Init, EngineInv, Open

\* One edge of the current node, without and with a field.
LEMMA EdgeStep ==
  ASSUME EngineInv, ExecuteSource \/ Transmit \/ TransmitKnown \/ TransmitNext \/ Exhaust
  PROVE  EngineInv'
<1> USE BoundAssumption DEF EngineInv
<1>1. graph \in Graphs /\ Fields \subseteq Nodes
  BY GraphFacts DEF TypeOK
<1>2. CASE ExecuteSource
  <2>1. edge.src \in Nodes
    BY <1>2, EdgeFacts DEF ExecuteSource, SourceDue
  <2> QED
    BY <1>2, <2>1
    DEF ExecuteSource, TypeOK, Open, context, fieldVars, Fields, Planned
<1>3. CASE Transmit
  <2>1. edge.src \in Nodes /\ EdgeDue
    BY <1>3, EdgeFacts DEF Transmit
  <2>2. /\ again' \in BOOLEAN /\ (again' => again \/ active # NoField)
        /\ cached' \subseteq Fields /\ gathered' \in [Nodes -> Nat]
    BY <1>3, <2>1, ReceiveFacts DEF Transmit, TypeOK
  <2>3. again' => active \in Fields
    BY <2>2 DEF TypeOK, Open
  <2> QED
    BY <1>3, <2>1, <2>2, <2>3
    DEF Transmit, NextEdge, EdgeDue, TypeOK, Open, Fields, Planned
<1>4. CASE TransmitKnown
  <2>1. FieldEdge /\ NextEdge /\ Receive(edge.src, cached, Emptied)
        /\ UNCHANGED <<restarts, iterators, left, exhausted, handler, stale, sent>>
    BY <1>4 DEF TransmitKnown
  <2>2. /\ EdgeDue /\ executed' \subseteq Nodes /\ reinit' \subseteq Fields
        /\ active' \in Fields /\ stack' \in Seq(Fields) /\ stack' # <<>>
        /\ \A i, j \in 1..Len(stack') : stack'[i] = stack'[j] => i = j
        /\ Emptied \in [Nodes -> Nat]
    BY <2>1, FieldEdgeFacts
  <2>3. again' \in BOOLEAN /\ cached' \subseteq Fields /\ gathered' \in [Nodes -> Nat]
    BY <2>1, <2>2, ReceiveFacts DEF TypeOK
  <2> QED
    BY <2>1, <2>2, <2>3 DEF NextEdge, EdgeDue, TypeOK, Open, Fields, Planned
<1>5. CASE TransmitNext
  <2> DEFINE t == edge.src
  <2>1. /\ FieldEdge /\ NextEdge
        /\ Receive(t, cached \cup {t}, Emptied)
        /\ iterators' = iterators \cup {t} /\ handler' = t
        /\ stale' = stale \cup Within(t)
        /\ sent' = [sent EXCEPT ![t] = @ + 1]
        /\ UNCHANGED <<restarts, exhausted>>
    BY <1>5 DEF TransmitNext
  <2>2. /\ EdgeDue /\ executed' \subseteq Nodes /\ reinit' \subseteq Fields
        /\ t \in Fields /\ t \in Nodes
        /\ active' \in Fields /\ stack' \in Seq(Fields) /\ stack' # <<>>
        /\ \A i, j \in 1..Len(stack') : stack'[i] = stack'[j] => i = j
        /\ Emptied \in [Nodes -> Nat]
    BY <2>1, FieldEdgeFacts
  <2>3. cached \cup {t} \in SUBSET Fields
    BY <2>2 DEF TypeOK
  <2>4. again' \in BOOLEAN /\ cached' \subseteq Fields /\ gathered' \in [Nodes -> Nat]
    BY <2>1, <2>2, <2>3, ReceiveFacts DEF TypeOK
  <2>5. left' \in [Nodes -> 0..MaxElements]
    <3>1. PICK n \in Remaining(t) : n > 0 /\ left' = [left EXCEPT ![t] = n - 1]
      BY <1>5 DEF TransmitNext
    <3>2. n \in 0..MaxElements
      BY <2>2 DEF Remaining, TypeOK
    <3>3. n - 1 \in 0..MaxElements
      BY <3>1, <3>2
    <3> QED
      BY <3>1, <3>3 DEF TypeOK
  <2>6. Within(t) \subseteq Nodes
    <3>1. graph.body \in [Fields -> SUBSET Nodes] /\ graph.inner \in [Fields -> SUBSET Fields]
      BY <1>1, GraphFacts
    <3>2. graph.body[t] \subseteq Nodes /\ graph.inner[t] \subseteq Fields
      BY <2>2, <3>1
    <3>3. \A u \in graph.inner[t] : graph.body[u] \subseteq Nodes
      BY <3>1, <3>2
    <3> QED
      BY <3>2, <3>3 DEF Within, NodesOf, Fields
  <2>7. sent' \in [Nodes -> Nat]
    BY <2>1, <2>2 DEF TypeOK
  <2>8. /\ pc' = "edges" /\ ip' = ip /\ ip \in Planned /\ graph' = graph
        /\ e' \in Nat
    BY <2>1, <2>2 DEF NextEdge, EdgeDue, TypeOK
  <2>9. /\ stale' \subseteq Nodes /\ iterators' \subseteq Fields /\ handler' \in Fields
        /\ UNCHANGED <<restarts, exhausted>>
    BY <2>1, <2>2, <2>6 DEF TypeOK
  <2> HIDE DEF t
  <2>10. TypeOK'
    BY <2>2, <2>4, <2>5, <2>7, <2>8, <2>9 DEF TypeOK, Fields, Planned
  <2>11. Open'
    BY <2>2, <2>8, <2>9 DEF Open, Fields
  <2> QED
    BY <2>10, <2>11
<1>6. CASE Exhaust
  <2> DEFINE t == edge.src
  <2>1. /\ FieldEdge /\ Cleanup(t) /\ gathered' = Emptied
        /\ iterators' = iterators \cup {t} /\ left' = [left EXCEPT ![t] = 0]
        /\ UNCHANGED <<restarts, cached, stale, sent>>
    BY <1>6 DEF Exhaust
  <2>2. /\ EdgeDue /\ executed' \subseteq Nodes /\ reinit' \subseteq Fields
        /\ t \in Fields /\ t \in Nodes
        /\ active' \in Fields /\ stack' \in Seq(Fields) /\ stack' # <<>>
        /\ \A i, j \in 1..Len(stack') : stack'[i] = stack'[j] => i = j
        /\ Emptied \in [Nodes -> Nat]
    BY <2>1, FieldEdgeFacts
  <2>3. left' \in [Nodes -> 0..MaxElements]
    BY <2>1, <2>2 DEF TypeOK
  <2> QED
    BY <2>1, <2>2, <2>3 DEF Cleanup, TypeOK, Open, Fields, Planned
<1> QED
  BY <1>2, <1>3, <1>4, <1>5, <1>6

\* The steps of the loop, and the node itself.
LEMMA NodeStep ==
  ASSUME EngineInv, Skip \/ Begin \/ Finish \/ Restart \/ Run \/ NextElement
  PROVE  EngineInv'
<1> USE DEF EngineInv
<1>1. /\ graph \in Graphs /\ graph.plan \in Seq(Nodes)
      /\ graph.index \in [Fields -> Planned]
  BY GraphFacts DEF TypeOK
<1>2. Len(graph.plan) \in Nat
  BY <1>1
<1>3. CASE Skip \/ Begin \/ Finish
  <2>1. ip' \in 1..(Len(graph.plan) + 1)
    BY <1>2, <1>3 DEF Skip, Begin, Finish, Planned, TypeOK
  <2>2. pc' \in {"loop", "edges", "done"} /\ (pc' = "edges" => ip' \in Planned)
    BY <1>3 DEF Skip, Begin, Finish
  <2>3. /\ e' \in Nat /\ graph' = graph /\ (again' => again) /\ again' \in BOOLEAN
        /\ UNCHANGED <<executed, restarts, fieldVars, history>>
    <3>1. CASE Skip
      BY <3>1 DEF Skip, TypeOK
    <3>2. CASE Begin
      BY <3>2 DEF Begin
    <3>3. CASE Finish
      BY <3>3 DEF Finish, TypeOK
    <3> QED
      BY <1>3, <3>1, <3>2, <3>3
  <2>4. TypeOK'
    BY <2>1, <2>2, <2>3 DEF TypeOK, Fields, Planned, fieldVars, history
  <2>5. Open'
    BY <2>2, <2>3 DEF Open, Fields, fieldVars
  <2> QED
    BY <2>4, <2>5
<1>4. CASE Restart
  <2>1. active \in Fields /\ graph.index[active] \in Planned
    BY <1>1, <1>4 DEF Restart, Open
  <2>2. ip' \in 1..(Len(graph.plan) + 1) /\ pc' = "loop" /\ executed' \subseteq Nodes
    BY <1>2, <1>4, <2>1 DEF Restart, Planned, TypeOK
  <2>3. TypeOK'
    BY <1>4, <2>2 DEF Restart, TypeOK, Fields, Planned, fieldVars, history
  <2>4. Open'
    BY <1>4 DEF Restart, Open, Fields, fieldVars
  <2> QED
    BY <2>3, <2>4
<1>5. CASE Run
  <2>1. ip \in Planned
    BY <1>5 DEF Run, AllReceived, TypeOK
  <2>2. /\ node \in Nodes /\ ip' \in 1..(Len(graph.plan) + 1)
        /\ pc' = "loop" /\ executed' \subseteq Nodes /\ stale' \subseteq Nodes
    <3>1. node \in Nodes
      BY <1>1, <2>1 DEF node, Planned
    <3>2. ip' \in 1..(Len(graph.plan) + 1)
      BY <1>2, <1>5, <2>1 DEF Run, Planned
    <3> QED
      BY <1>5, <3>1, <3>2 DEF Run, TypeOK
  <2>3. TypeOK'
    BY <1>5, <2>2 DEF Run, TypeOK, Fields, Planned, fieldVars
  <2>4. Open'
    BY <1>5 DEF Run, Open, Fields, fieldVars
  <2> QED
    BY <2>3, <2>4
<1>6. CASE NextElement
  <2>1. active \in Fields /\ active \in Nodes /\ graph.index[active] \in Planned
    BY <1>1, <1>6, GraphFacts DEF NextElement, Handled, Open
  <2>2. ip' \in 1..(Len(graph.plan) + 1) /\ pc' = "loop" /\ executed' \subseteq Nodes
    BY <1>2, <1>6, <2>1 DEF NextElement, Planned, TypeOK
  <2>3. sent' \in [Nodes -> Nat]
    BY <1>6, <2>1 DEF NextElement, Handled, TypeOK
  <2>4. TypeOK'
    BY <1>6, <2>2, <2>3 DEF NextElement, Handled, TypeOK, Fields, Planned
  <2>5. Open'
    BY <1>6, <2>2 DEF NextElement, Handled, Open, Fields
  <2> QED
    BY <2>4, <2>5
<1> QED
  BY <1>3, <1>4, <1>5, <1>6

\* The handler leaves or restarts its field, and a field closes.
LEMMA CloseStep ==
  ASSUME EngineInv, Exit \/ RestartField \/ Close
  PROVE  EngineInv'
<1> USE DEF EngineInv
<1>1. /\ graph \in Graphs /\ graph.plan \in Seq(Nodes) /\ Fields \subseteq Nodes
      /\ graph.index \in [Fields -> Planned]
      /\ graph.receiver \in [Fields -> Nodes]
      /\ graph.edges \in [Nodes -> Seq(Edge)]
      /\ \A t \in Fields : \E i \in Planned : graph.plan[i] = graph.receiver[t]
  BY GraphFacts DEF TypeOK
<1>2. Len(graph.plan) \in Nat
  BY <1>1
<1>3. CASE Exit
  <2>1. active \in Fields /\ active \in Nodes /\ stack # <<>>
    BY <1>1, <1>3 DEF Exit, Handled, Open
  <2>2. sent' \in [Nodes -> Nat] /\ executed' \subseteq Nodes /\ exhausted' \subseteq Fields
    BY <1>3, <2>1 DEF Exit, Handled, Cleanup, TypeOK
  <2>3. TypeOK'
    BY <1>3, <2>1, <2>2 DEF Exit, Handled, Cleanup, TypeOK, Fields, Planned
  <2>4. Open'
    BY <1>3 DEF Exit, Handled, Cleanup, Open
  <2> QED
    BY <2>3, <2>4
<1>4. CASE RestartField
  <2>1. active \in Fields /\ active \in Nodes /\ graph.index[active] \in Planned
    BY <1>1, <1>4 DEF RestartField, Handled, Open
  <2>2. ip' \in 1..(Len(graph.plan) + 1) /\ pc' = "loop"
    BY <1>2, <1>4, <2>1 DEF RestartField, Planned
  <2>3. sent' \in [Nodes -> Nat] /\ executed' \subseteq Nodes /\ exhausted' \subseteq Fields
    BY <1>4, <2>1 DEF RestartField, Handled, TypeOK
  <2>4. restarts' \in 0..MaxRestarts
    BY <1>4, BoundAssumption DEF RestartField, TypeOK
  <2>5. /\ stack' \in Seq(Fields) /\ active' \in Fields \cup {NoField}
        /\ \A i, j \in 1..Len(stack') : stack'[i] = stack'[j] => i = j
    BY <1>4, PopFacts DEF RestartField
  <2>6. TypeOK'
    BY <1>4, <2>2, <2>3, <2>4, <2>5
    DEF RestartField, Handled, TypeOK, Fields, Planned
  <2>7. Open'
    BY <1>4, <2>2 DEF RestartField, Handled, Open, Fields
  <2> QED
    BY <2>6, <2>7
<1>5. CASE Close
  <2>1. active \in Fields /\ active \in Nodes /\ stack # <<>> /\ handler = NoField /\ ~again
    BY <1>1, <1>5 DEF Close, TypeOK, Open
  <2>2. closing \in Nodes /\ Top \in Fields
    BY <1>1, <2>1, PopFacts DEF closing
  <2>3. ip' \in 1..(Len(graph.plan) + 1) /\ pc' = "loop"
    <3>1. PICK i \in Planned : i = CHOOSE j \in Planned : graph.plan[j] = closing
      BY <1>1, <2>1 DEF closing
    <3>2. Behind(closing) = i + 1
      BY <3>1 DEF Behind
    <3> QED
      BY <1>2, <1>5, <3>2 DEF Close, Planned
  <2>4. OtherSources \subseteq Nodes
    <3>1. graph.edges[closing] \in Seq(Edge)
      BY <1>1, <2>2
    <3>2. \A i \in 1..Len(graph.edges[closing]) : graph.edges[closing][i] \in Edge
      BY <3>1
    <3>3. \A i \in 1..Len(graph.edges[closing]) : graph.edges[closing][i].src \in Nodes
      BY <3>2 DEF Edge
    <3> QED
      BY <3>3 DEF OtherSources, Others
  <2>5. executed' \subseteq Nodes /\ stale' \subseteq Nodes
    BY <1>5, <2>2, <2>4 DEF Close, Ready, TypeOK
  <2>6. /\ exhausted' \subseteq Fields /\ cached' \subseteq Fields
        /\ reinit' \subseteq Fields /\ iterators' \subseteq Fields
        /\ sent' \in [Nodes -> Nat]
    BY <1>5, <2>1, <2>2 DEF Close, Renewed, TypeOK
  <2>7. /\ stack' \in Seq(Fields) /\ active' \in Fields \cup {NoField}
        /\ \A i, j \in 1..Len(stack') : stack'[i] = stack'[j] => i = j
    BY <1>5, PopFacts DEF Close
  <2>8. UNCHANGED <<graph, e, again, restarts, left, handler, gathered>>
    BY <1>5 DEF Close
  <2>9. TypeOK'
    BY <2>3, <2>5, <2>6, <2>7, <2>8 DEF TypeOK, Fields, Planned
  <2>10. Open'
    BY <2>1, <2>3, <2>8 DEF Open
  <2> QED
    BY <2>9, <2>10
<1> QED
  BY <1>3, <1>4, <1>5

LEMMA EngineInvStep == EngineInv /\ [Next]_vars => EngineInv'
<1> SUFFICES ASSUME EngineInv, [Next]_vars PROVE EngineInv'
  OBVIOUS
<1>1. CASE Raise
  BY <1>1 DEF Raise, Fail, EngineInv, TypeOK, Open, Fields, Planned, fieldVars, history
<1>2. CASE UNCHANGED vars
  BY <1>2
  DEF vars, context, fieldVars, history, EngineInv, TypeOK, Open, Fields, Planned
<1>3. CASE Step
  BY <1>1, <1>3, EdgeStep, NodeStep, CloseStep DEF Step
<1> QED
  BY <1>2, <1>3 DEF Next, Stopped

LEMMA EngineInvariant == Spec => []EngineInv
  BY EngineInit, EngineInvStep, PTL DEF Spec

\* Whatever raises, skips, leaves or restarts, the instruction pointer stays in
\* the plan, only an open field is closed or jumped back to, and no field is
\* on the iterator stack twice (processor.py:1342-1395, :2261-2308).
THEOREM TypeCorrect == Spec => []TypeOK
  BY EngineInvariant, PTL DEF EngineInv

-----------------------------------------------------------------------------
(***************************************************************************)
(* The inductive invariant, of projects that are Apart.  The open fields   *)
(* form a chain around the instruction pointer (Stacked, Placed); each has *)
(* at most one element on its way (Counted); a field without an element    *)
(* has run none of its nodes (Waiting); and what lies behind the           *)
(* instruction pointer is fresh or can no longer be reached (Fresh).       *)
(***************************************************************************)
\* The fields that are open: on the iterator stack, or active again after an
\* F_RESTART took them off it.
OnStack == Elements(stack)
Opened == OnStack \cup ({active} \ {NoField})
End(t) == EndOf(graph, t)
At(t) == graph.index[t]

\* The field has an element that its receiver has not asked to replace.
Fetched(t) == sent[t] = gathered[t] + 1
Live(t) == t \in OnStack /\ (Fetched(t) \/ (again /\ t = active))

Chained == \A i, j \in 1..Len(stack) : i < j => stack[j] \in graph.inner[stack[i]]

\* The iterator stack holds the open fields, from outer to inner.
Stacked ==
  /\ Chained
  /\ iterators = OnStack
  /\ \A t \in OnStack : t \in executed /\ graph.receiver[t] \notin executed /\ t \notin reinit
  /\ active = Top \/ (pc # "close" /\ active \in Fields /\ active \notin OnStack)
  /\ handler # NoField => handler = active /\ active = Top

\* The plan is executed within the blocks of the open fields, whose enclosing
\* fields all have an element.
Placed ==
  /\ \A t \in Opened : At(t) <= ip /\ ip <= End(t)
  /\ \A t \in OnStack : ip = At(t) => pc = "loop"
  /\ \A t \in Opened, u \in Fields : t \in graph.inner[u] => Live(u)

\* The receiver of the active field has collected and asks for the next pass.
Pausing ==
  again =>
    /\ pc = "edges" /\ active \in Fields /\ active = Top /\ node = graph.receiver[active]
    /\ sent[active] = gathered[active] /\ cached = {}
    /\ \E i \in 1..(e - 1) : graph.edges[node][i].collect

\* Only the field that is being closed is exhausted.
Closing ==
  /\ pc = "close" =>
       /\ exhausted = {active} /\ active = Top /\ sent[active] = gathered[active]
       /\ Holds(graph, active, ip)
  /\ pc # "close" => exhausted = {}

\* The nodes of a field without an element have not run, nor been passed by.
Waiting ==
  \A t \in Fields : ~Live(t) =>
    /\ executed \cap graph.body[t] \subseteq {graph.receiver[t]}
    /\ ip <= End(t) /\ graph.body[t] = {graph.receiver[t]} => graph.receiver[t] \notin executed
    /\ Holds(graph, t, ip) /\ (pc = "close" => t # active) =>
         \A i \in 1..(ip - 1) : graph.plan[i] \notin graph.body[t]

\* The edges received: who transmits a field has an element, and who collects
\* asks for the next pass.
Received ==
  pc = "edges" =>
    \A i \in 1..(e - 1) :
      /\ graph.edges[node][i].field => Live(graph.edges[node][i].src)
      /\ graph.edges[node][i].collect => again

\* A field behind which execution has come waits for its reinitialisation.
Renewal ==
  \A t \in Fields :
    /\ graph.receiver[t] \in executed => t \in reinit
    /\ ip > End(t) /\ (\A u \in Fields : t \in graph.inner[u] => ip <= End(u)) => t \in reinit

\* How many elements are on their way to the receiver.
Counted ==
  /\ cached \subseteq OnStack
  /\ \A t \in OnStack :
       /\ sent[t] = gathered[t] \/ Fetched(t)
       /\ t \in cached /\ t \notin exhausted => Fetched(t)
       /\ Fetched(t) /\ t \notin cached => \E u \in graph.inner[t] : At(u) <= ip
  /\ \A t \in Fields \ OnStack : sent[t] = IF t \in reinit THEN 0 ELSE gathered[t]

\* A node passed by has run on the current elements, unless it stands in a
\* block that was left without an element.
Passed(i) ==
  \A t \in Fields : Holds(graph, t, i) /\ i # End(t) =>
    ip <= End(t) /\ (graph.plan[i] \in Within(t) => Live(t))

Fresh ==
  /\ \A i \in 1..(ip - 1) :
       graph.edges[graph.plan[i]] # <<>> /\ Passed(i) => graph.plan[i] \notin stale
  /\ \A n \in executed \cap stale : \E t \in Fields \ OnStack : n = graph.receiver[t]

Going == pc \in {"loop", "edges", "close"}

Core ==
  /\ Stacked /\ Placed /\ Pausing /\ Closing /\ Waiting
  /\ Received /\ Renewal /\ Counted /\ Fresh

\* What holds of an execution that goes on.
Settled == EngineInv /\ Apart(graph) /\ Core

-----------------------------------------------------------------------------
(***************************************************************************)
(* The geometry of a plan.                                                 *)
(***************************************************************************)
LEMMA PlanFacts ==
  ASSUME graph \in Graphs
  PROVE  /\ IsPlanned(graph) /\ Len(graph.plan) \in Nat
         /\ \A i \in Planned : i \in Nat /\ graph.plan[i] \in Nodes
         /\ \A i, j \in Planned : graph.plan[i] = graph.plan[j] => i = j
<1>1. IsPlanned(graph) /\ graph.plan \in Seq(Nodes)
  BY GraphAssumption, GraphFacts
<1>2. Len(graph.plan) \in Nat /\ \A i \in Planned : graph.plan[i] \in Nodes
  BY <1>1 DEF Planned
<1>3. \A i, j \in Planned : graph.plan[i] = graph.plan[j] => i = j
  BY <1>1 DEF IsPlanned, BlocksNest, Planned
<1> QED
  BY <1>1, <1>2, <1>3 DEF Planned

\* The block of a field runs from behind its transmitter up to its receiver.
LEMMA BlockFacts ==
  ASSUME graph \in Graphs, NEW t \in Fields
  PROVE  /\ At(t) \in Planned /\ End(t) \in Planned /\ At(t) \in Nat /\ End(t) \in Nat
         /\ At(t) < End(t) /\ End(t) <= Len(graph.plan)
         /\ graph.plan[At(t)] = t /\ graph.plan[End(t)] = graph.receiver[t]
         /\ graph.receiver[t] \notin Fields /\ graph.receiver[t] \in graph.body[t]
         /\ graph.receiver[t] \in Nodes /\ graph.body[t] \subseteq Nodes /\ t \in Nodes
         /\ graph.inner[t] \subseteq Fields
<1>1. IsPlanned(graph) /\ Len(graph.plan) \in Nat
  BY PlanFacts
<1>2. End(t) \in Planned /\ graph.plan[End(t)] = graph.receiver[t]
  BY GraphFacts DEF End, EndOf, Planned
<1>3. At(t) \in Planned /\ graph.plan[At(t)] = t /\ graph.receiver[t] \in graph.body[t]
  BY <1>1, GraphFacts DEF At, IsPlanned, TypedPlan, Fields
<1>4. At(t) < End(t) /\ graph.receiver[t] \notin Fields
  BY <1>1 DEF At, End, IsPlanned, BlocksNest, Fields
<1>5. /\ graph.receiver[t] \in Nodes /\ graph.body[t] \subseteq Nodes /\ t \in Nodes
      /\ graph.inner[t] \subseteq Fields
  BY GraphFacts
<1>6. At(t) \in Nat /\ End(t) \in Nat /\ End(t) <= Len(graph.plan)
  BY <1>1, <1>2, <1>3 DEF Planned
<1> QED
  BY <1>2, <1>3, <1>4, <1>5, <1>6

\* Two blocks nest like their fields or have nothing in common.
LEMMA NestFacts ==
  ASSUME graph \in Graphs, NEW t \in Fields, NEW u \in Fields
  PROVE  /\ u \in graph.inner[t] =>
              u # t /\ t \notin graph.inner[u] /\ At(t) < At(u) /\ End(u) < End(t)
         /\ \/ t = u \/ u \in graph.inner[t] \/ t \in graph.inner[u]
            \/ End(t) < At(u) \/ End(u) < At(t)
         /\ graph.receiver[t] = graph.receiver[u] => t = u
<1>1. BlocksNest(graph)
  BY PlanFacts DEF IsPlanned
<1>2. /\ At(t) \in Nat /\ End(t) \in Nat /\ At(u) \in Nat /\ End(u) \in Nat
      /\ At(t) < End(t) /\ At(u) < End(u)
  BY BlockFacts
<1>3. u \in graph.inner[t] => At(t) < At(u) /\ End(u) < End(t)
  BY <1>1 DEF BlocksNest, At, End, Fields
<1>4. t \in graph.inner[u] => At(u) < At(t) /\ End(t) < End(u)
  BY <1>1 DEF BlocksNest, At, End, Fields
<1>5. /\ \/ t = u \/ u \in graph.inner[t] \/ t \in graph.inner[u]
         \/ End(t) < At(u) \/ End(u) < At(t)
      /\ graph.receiver[t] = graph.receiver[u] => t = u
  BY <1>1 DEF BlocksNest, At, End, Fields
<1> QED
  BY <1>2, <1>3, <1>4, <1>5

\* A field whose transmitter or receiver stands in a block is an inner field.
LEMMA InnerFacts ==
  ASSUME graph \in Graphs, NEW t \in Fields, NEW u \in Fields, t # u
  PROVE  /\ At(t) <= At(u) /\ At(u) <= End(t) => u \in graph.inner[t]
         /\ At(t) <= End(u) /\ End(u) <= End(t) => u \in graph.inner[t]
         /\ At(t) # At(u) /\ End(t) # End(u) /\ At(t) # End(u)
<1>1. /\ At(t) \in Nat /\ End(t) \in Nat /\ At(u) \in Nat /\ End(u) \in Nat
      /\ At(t) < End(t) /\ At(u) < End(u)
  BY BlockFacts
<1>2. /\ u \in graph.inner[t] \/ t \in graph.inner[u] \/ End(t) < At(u) \/ End(u) < At(t)
      /\ u \in graph.inner[t] => At(t) < At(u) /\ End(u) < End(t)
      /\ t \in graph.inner[u] => At(u) < At(t) /\ End(t) < End(u)
  BY NestFacts
<1> QED
  BY <1>1, <1>2

LEMMA InnerTransitive ==
  ASSUME graph \in Graphs, NEW t \in Fields, NEW u \in graph.inner[t], NEW v \in graph.inner[u]
  PROVE  v \in graph.inner[t]
<1>1. u \in Fields /\ v \in Fields
  BY BlockFacts
<1>2. At(t) < At(u) /\ End(u) < End(t) /\ At(u) < At(v) /\ End(v) < End(u)
  BY <1>1, NestFacts
<1>3. /\ At(t) \in Nat /\ End(t) \in Nat /\ At(u) \in Nat /\ End(u) \in Nat
      /\ At(v) \in Nat /\ End(v) \in Nat /\ At(v) < End(v)
  BY <1>1, BlockFacts
<1> QED
  BY <1>1, <1>2, <1>3, InnerFacts

\* The nodes of a field stand in its block and in no inner one.
LEMMA BodyFacts ==
  ASSUME graph \in Graphs, NEW t \in Fields
  PROVE  /\ \A n \in graph.body[t] : graph.edges[n] # <<>> /\ \E i \in Planned : graph.plan[i] = n
         /\ \A i \in Planned : graph.plan[i] \in graph.body[t] =>
              /\ At(t) < i /\ i <= End(t)
              /\ \A u \in Fields : At(u) < i /\ i <= End(u) => u = t \/ t \in graph.inner[u]
<1>1. BodyInBlock(graph)
  BY PlanFacts DEF IsPlanned
<1>2. \A n \in graph.body[t] : graph.edges[n] # <<>> /\ \E i \in Planned : graph.plan[i] = n
  BY <1>1 DEF BodyInBlock, Fields, Planned
<1>3. ASSUME NEW i \in Planned, graph.plan[i] \in graph.body[t]
      PROVE  /\ At(t) < i /\ i <= End(t)
             /\ \A u \in Fields : At(u) < i /\ i <= End(u) => u = t \/ t \in graph.inner[u]
  <2>1. PICK j \in Planned :
          /\ graph.plan[j] = graph.plan[i] /\ Holds(graph, t, j)
          /\ \A u \in Fields : Holds(graph, u, j) => u = t \/ t \in graph.inner[u]
    BY <1>1, <1>3 DEF BodyInBlock, Fields, Planned
  <2>2. i = j
    BY <2>1, PlanFacts
  <2> QED
    BY <2>1, <2>2 DEF Holds, At, End
<1> QED
  BY <1>2, <1>3

\* A node stands in one body only.
LEMMA OneBody ==
  ASSUME graph \in Graphs, NEW t \in Fields, NEW u \in Fields, NEW i \in Planned,
         graph.plan[i] \in graph.body[t], graph.plan[i] \in graph.body[u]
  PROVE  t = u
<1>1. At(t) < i /\ i <= End(t) /\ At(u) < i /\ i <= End(u)
  BY BodyFacts
<1>2. (u = t \/ t \in graph.inner[u]) /\ (t = u \/ u \in graph.inner[t])
  BY <1>1, BodyFacts
<1> QED
  BY <1>2, NestFacts

\* Sources without inbound edges are in no field.
LEMMA SourceFacts ==
  ASSUME graph \in Graphs, NEW n \in Nodes, graph.edges[n] = <<>>
  PROVE  \A t \in Fields : n \notin graph.body[t] /\ n # graph.receiver[t]
  BY BodyFacts, BlockFacts

-----------------------------------------------------------------------------
(***************************************************************************)
(* The iterator stack.                                                     *)
(***************************************************************************)
LEMMA StackFacts ==
  ASSUME TypeOK, Chained
  PROVE  /\ OnStack \subseteq Fields /\ NoField \notin Fields
         /\ stack = <<>> => Top = NoField /\ OnStack = {}
         /\ stack # <<>> => Top \in OnStack /\ Top \in Fields
         /\ \A t \in OnStack : t = Top \/ Top \in graph.inner[t]
<1>1. stack \in Seq(Fields) /\ Len(stack) \in Nat
  BY DEF TypeOK
<1>2. OnStack \subseteq Fields
  BY <1>1 DEF OnStack, Elements
<1>3. NoField \notin Fields
  BY NoFieldAssumption, GraphFacts DEF TypeOK
<1>4. CASE stack = <<>>
  BY <1>2, <1>3, <1>4 DEF Top, OnStack, Elements
<1>5. CASE stack # <<>>
  <2>1. Len(stack) \in 1..Len(stack) /\ Top = stack[Len(stack)]
    BY <1>1, <1>5 DEF Top
  <2>2. Top \in OnStack
    BY <2>1 DEF OnStack, Elements
  <2>3. ASSUME NEW t \in OnStack
        PROVE  t = Top \/ Top \in graph.inner[t]
    <3>1. PICK i \in 1..Len(stack) : t = stack[i]
      BY DEF OnStack, Elements
    <3>2. CASE i = Len(stack)
      BY <2>1, <3>1, <3>2
    <3>3. CASE i # Len(stack)
      BY <1>1, <2>1, <3>1, <3>3 DEF Chained
    <3> QED
      BY <3>2, <3>3
  <2> QED
    BY <1>2, <1>3, <1>5, <2>2, <2>3
<1> QED
  BY <1>4, <1>5

\* The field opened last is closed first.
LEMMA PopStack ==
  ASSUME TypeOK, Chained, stack # <<>>, stack' = Pop, graph' = graph
  PROVE  Chained' /\ OnStack' = OnStack \ {Top} /\ Top' = Below
<1>1. stack \in Seq(Fields)
  BY DEF TypeOK
<1>2. PICK k \in Nat : Len(stack) = k + 1
  <2>1. Len(stack) \in Nat /\ Len(stack) # 0
    BY <1>1
  <2>2. Len(stack) - 1 \in Nat /\ Len(stack) = (Len(stack) - 1) + 1
    BY <2>1
  <2> QED
    BY <2>2
<1>3. Pop = SubSeq(stack, 1, k) /\ Top = stack[k + 1]
  BY <1>2 DEF Pop, Top
<1>4. stack' \in Seq(Fields) /\ Len(stack') = k /\ \A i \in 1..k : stack'[i] = stack[i]
  BY <1>1, <1>2, <1>3
<1>5. OnStack' = OnStack \ {Top}
  <2>1. OnStack' = {stack[i] : i \in 1..k}
    BY <1>4 DEF OnStack, Elements
  <2>2. OnStack = {stack[i] : i \in 1..k} \cup {Top}
    <3>1. 1..(k + 1) = 1..k \cup {k + 1}
      OBVIOUS
    <3> QED
      BY <1>2, <1>3, <3>1 DEF OnStack, Elements
  <2>3. Top \notin {stack[i] : i \in 1..k}
    BY <1>2, <1>3 DEF TypeOK
  <2> QED
    BY <2>1, <2>2, <2>3
<1>6. Chained'
  BY <1>2, <1>4 DEF Chained
<1>7. Top' = Below
  <2>1. CASE k = 0
    BY <1>2, <1>4, <2>1 DEF Top, Below
  <2>2. CASE k # 0
    <3>1. stack' # <<>> /\ stack'[Len(stack')] = stack[k]
      BY <1>4, <2>2
    <3>2. Below = stack[k]
      BY <1>2, <2>2 DEF Below
    <3> QED
      BY <3>1, <3>2 DEF Top
  <2> QED
    BY <2>1, <2>2
<1> QED
  BY <1>5, <1>6, <1>7

LEMMA PushStack ==
  ASSUME TypeOK, Chained, graph' = graph, NEW t \in Fields, SetActive(t),
         \/ t \in OnStack /\ t = Top
         \/ t \notin OnStack /\ \A u \in OnStack : t \in graph.inner[u]
  PROVE  Chained' /\ OnStack' = OnStack \cup {t} /\ Top' = t /\ active' = t
<1>1. stack \in Seq(Fields) /\ Len(stack) \in Nat /\ active' = t
  BY DEF TypeOK, SetActive
<1>2. CASE t \in OnStack /\ t = Top
  BY <1>1, <1>2 DEF SetActive, OnStack, Chained, Top
<1>3. CASE t \notin OnStack /\ \A u \in OnStack : t \in graph.inner[u]
  <2>1. stack' = Append(stack, t)
    BY <1>3 DEF SetActive, OnStack
  <2>2. /\ Len(stack') = Len(stack) + 1 /\ stack'[Len(stack) + 1] = t
        /\ \A i \in 1..Len(stack) : stack'[i] = stack[i]
    BY <1>1, <2>1
  <2>3. OnStack' = OnStack \cup {t}
    <3>1. 1..(Len(stack) + 1) = 1..Len(stack) \cup {Len(stack) + 1}
      BY <1>1
    <3>2. OnStack' = {stack'[i] : i \in 1..Len(stack)} \cup {t}
      BY <2>2, <3>1 DEF OnStack, Elements
    <3>3. {stack'[i] : i \in 1..Len(stack)} = OnStack
      BY <2>2 DEF OnStack, Elements
    <3> QED
      BY <3>2, <3>3
  <2>4. Top' = t
    <3>1. stack' # <<>>
      BY <1>1, <2>1
    <3> QED
      BY <2>2, <3>1 DEF Top
  <2>5. Chained'
    <3> SUFFICES ASSUME NEW i \in 1..(Len(stack) + 1), NEW j \in 1..(Len(stack) + 1), i < j
                 PROVE  stack'[j] \in graph.inner[stack'[i]]
      BY <2>2 DEF Chained
    <3>1. i \in 1..Len(stack) /\ stack'[i] = stack[i]
      BY <1>1, <2>2
    <3>2. CASE j = Len(stack) + 1
      <4>1. stack[i] \in OnStack
        BY <3>1 DEF OnStack, Elements
      <4> QED
        BY <1>3, <2>2, <3>1, <3>2, <4>1
    <3>3. CASE j # Len(stack) + 1
      BY <1>1, <2>2, <3>1, <3>3 DEF Chained
    <3> QED
      BY <3>2, <3>3
  <2> QED
    BY <1>1, <2>3, <2>4, <2>5
<1> QED
  BY <1>2, <1>3

-----------------------------------------------------------------------------
(***************************************************************************)
(* Where an edge, a node and a receiver are met.                           *)
(***************************************************************************)
LEMMA OpenFacts ==
  ASSUME Settled
  PROVE  /\ graph \in Graphs /\ OnStack \subseteq Fields /\ Opened \subseteq Fields
         /\ NoField \notin Fields
         /\ active \in Fields /\ active = Top => active \in OnStack
         /\ active \notin Fields => active = NoField /\ OnStack = {} /\ Opened = {}
         /\ \A t \in OnStack : t = Top \/ Top \in graph.inner[t]
         /\ \A t \in Fields : Live(t) => t \in OnStack /\ t \in Opened
<1> USE DEF Settled, Core, EngineInv
<1>1. TypeOK /\ Chained /\ graph \in Graphs
  BY DEF Stacked, TypeOK
<1>2. /\ OnStack \subseteq Fields /\ NoField \notin Fields
      /\ stack = <<>> => Top = NoField /\ OnStack = {}
      /\ stack # <<>> => Top \in OnStack /\ Top \in Fields
      /\ \A t \in OnStack : t = Top \/ Top \in graph.inner[t]
  BY <1>1, StackFacts
<1>3. active \in Fields \cup {NoField}
  BY <1>1 DEF TypeOK
<1>4. active \notin Fields => active = Top
  BY DEF Stacked
<1>5. Opened \subseteq Fields
  BY <1>2, <1>3 DEF Opened
<1>6. active \notin Fields => active = NoField /\ OnStack = {} /\ Opened = {}
  BY <1>2, <1>3, <1>4 DEF Opened
<1>7. active \in Fields /\ active = Top => active \in OnStack
  BY <1>2
<1> QED
  BY <1>1, <1>2, <1>5, <1>6, <1>7 DEF Live, Opened

\* Nothing in the block of a field without an element has been passed by.
LEMMA WaitingFacts ==
  ASSUME Settled, NEW t \in Fields, ~Live(t), At(t) < ip, ip <= End(t),
         pc # "close" \/ t # active
  PROVE  /\ \A i \in 1..(ip - 1) : graph.plan[i] \notin Within(t)
         /\ \A u \in graph.inner[t] : ip <= At(u)
<1> USE DEF Settled, Core, EngineInv
<1>1. graph \in Graphs /\ ip \in Nat
  BY DEF TypeOK
<1>2. \A i \in 1..(ip - 1) : graph.plan[i] \notin graph.body[t]
  BY DEF Waiting, Holds, At, End
<1>3. ASSUME NEW u \in graph.inner[t]
      PROVE  ip <= At(u)
  <2>1. PICK v \in graph.inner[t] \cap graph.body[t] : v = u \/ u \in graph.inner[v]
    BY <1>1, PlanFacts DEF IsPlanned, FieldsStart, Fields
  <2>2. u \in Fields /\ v \in Fields
    BY <1>1, BlockFacts
  <2>3. At(v) \in Nat /\ At(u) \in Nat /\ At(v) <= At(u) /\ At(v) >= 1 /\ graph.plan[At(v)] = v
    BY <1>1, <2>1, <2>2, BlockFacts, NestFacts DEF Planned
  <2>4. ~(At(v) < ip)
    BY <1>1, <1>2, <2>1, <2>3
  <2> QED
    BY <1>1, <2>3, <2>4
<1>4. ASSUME NEW i \in 1..(ip - 1), graph.plan[i] \in Within(t)
      PROVE  FALSE
  <2>1. PICK u \in graph.inner[t] : graph.plan[i] \in graph.body[u]
    BY <1>2, <1>4 DEF Within, NodesOf
  <2>2. u \in Fields /\ At(u) \in Nat
    BY <1>1, BlockFacts
  <2>3. ip \in 1..(Len(graph.plan) + 1) /\ Len(graph.plan) \in Nat
    BY <1>1, PlanFacts DEF TypeOK
  <2>4. i \in Planned
    BY <2>3 DEF Planned
  <2>5. At(u) < i
    BY <1>1, <2>1, <2>2, <2>4, BodyFacts
  <2> QED
    BY <1>1, <1>3, <2>2, <2>3, <2>5
<1> QED
  BY <1>3, <1>4

\* The first node of a field that is met is fed by its transmitter; if it is
\* the receiver, it has not run.
LEMMA FirstFacts ==
  ASSUME Settled, pc \in {"loop", "edges"}, ip \in Planned,
         NEW t \in Fields, node \in graph.body[t], ~Live(t)
  PROVE  /\ \E k \in 1..Len(graph.edges[node]) :
              graph.edges[node][k].field /\ graph.edges[node][k].src = t
         /\ node \notin executed
<1> USE DEF Settled, Core, EngineInv
<1>1. graph \in Graphs /\ ip \in Nat /\ pc # "close"
  BY DEF TypeOK
<1>2. At(t) < ip /\ ip <= End(t) /\ graph.plan[ip] \in graph.body[t]
  BY <1>1, BodyFacts DEF node
<1>3. \A i \in 1..(ip - 1) : graph.plan[i] \notin graph.body[t]
  BY <1>1, <1>2 DEF Waiting, Holds, At, End
<1>4. \E k \in 1..Len(graph.edges[node]) :
         graph.edges[node][k].field /\ graph.edges[node][k].src = t
  BY <1>1, <1>2, <1>3, PlanFacts DEF IsPlanned, FieldsStart, Fields, node, Planned
<1>5. node \notin executed
  <2>1. executed \cap graph.body[t] \subseteq {graph.receiver[t]}
    BY DEF Waiting
  <2>2. CASE node = graph.receiver[t]
    <3>1. ASSUME NEW n \in graph.body[t]
          PROVE  n = graph.receiver[t]
      <4>1. PICK i \in Planned : graph.plan[i] = n
        BY <1>1, BodyFacts
      <4>2. i <= End(t) /\ graph.plan[End(t)] = node /\ End(t) \in Planned
        BY <1>1, <2>2, <4>1, BodyFacts, BlockFacts
      <4>3. ip = End(t)
        BY <1>1, <4>2, PlanFacts DEF node
      <4>4. ~(i < ip)
        BY <1>1, <1>3, <4>1, PlanFacts DEF Planned
      <4>5. i = ip
        BY <1>1, <4>1, <4>2, <4>3, <4>4, PlanFacts DEF Planned
      <4> QED
        BY <2>2, <4>1, <4>5 DEF node
    <3>2. graph.body[t] = {graph.receiver[t]}
      BY <1>1, <3>1, BlockFacts
    <3> QED
      BY <1>2, <2>2, <3>2 DEF Waiting
  <2> QED
    BY <2>1, <2>2
<1> QED
  BY <1>4, <1>5

\* A node all of whose edges are received works for fields that have an element.
LEMMA LiveFacts ==
  ASSUME Settled, AllReceived, NEW t \in Fields, node \in graph.body[t]
  PROVE  Live(t)
<1> USE DEF Settled, Core, EngineInv
<1> SUFFICES ASSUME ~Live(t) PROVE FALSE
  OBVIOUS
<1>1. pc = "edges" /\ ip \in Planned /\ e \in Nat /\ graph \in Graphs
  BY DEF AllReceived, TypeOK
<1>2. PICK k \in 1..Len(graph.edges[node]) :
         graph.edges[node][k].field /\ graph.edges[node][k].src = t
  BY <1>1, FirstFacts
<1>3. graph.edges[node] \in Seq(Edge)
  BY <1>1, PlanFacts, GraphFacts DEF node
<1>4. k \in 1..(e - 1)
  BY <1>1, <1>3 DEF AllReceived
<1> QED
  BY <1>1, <1>2, <1>4 DEF Received

\* A field edge is met in the block of its transmitter, before the inner fields:
\* the field is the innermost open one, or all open ones are around it.
LEMMA FieldEdgeFactsAt ==
  ASSUME Settled, EdgeDue, edge.field, NEW t, t = edge.src
  PROVE  /\ t \in Fields /\ node \in graph.body[t] /\ At(t) < ip /\ ip <= End(t)
         /\ \A u \in graph.inner[t] : ip < At(u)
         /\ t \in OnStack => t = Top /\ active = t
         /\ \A u \in Opened : u = t \/ t \in graph.inner[u]
         /\ \A u \in Fields : t \in graph.inner[u] => Live(u)
<1> USE DEF Settled, Core, EngineInv
<1>1. pc = "edges" /\ ip \in Planned /\ ip \in Nat /\ graph \in Graphs /\ node = graph.plan[ip]
  BY PlanFacts DEF EdgeDue, TypeOK, node
<1>2. t \in Fields /\ node \in graph.body[t]
  <2>1. node \in Nodes /\ e \in 1..Len(graph.edges[node])
    BY <1>1, PlanFacts DEF EdgeDue
  <2> QED
    BY <1>1, <2>1, PlanFacts DEF IsPlanned, TypedPlan, edge, Fields
<1>3. /\ At(t) < ip /\ ip <= End(t)
      /\ \A u \in Fields : At(u) < ip /\ ip <= End(u) => u = t \/ t \in graph.inner[u]
  BY <1>1, <1>2, BodyFacts
<1>4. \A u \in graph.inner[t] : ip < At(u)
  <2>1. ip \in 1..Len(graph.plan) /\ e \in 1..Len(graph.edges[graph.plan[ip]])
    BY <1>1 DEF EdgeDue, Planned
  <2> QED
    BY <1>1, <2>1 DEF Apart, FedBeforeInner, edge, At
<1>5. Opened \subseteq Fields /\ OnStack \subseteq Opened /\ OnStack \subseteq Fields
  BY OpenFacts DEF Opened
<1>6. ASSUME NEW u \in Opened
      PROVE  u = t \/ t \in graph.inner[u]
  <2>1. At(u) <= ip /\ ip <= End(u) /\ u \in Fields
    BY <1>1, <1>5 DEF Placed
  <2>2. CASE At(u) < ip
    BY <1>3, <2>1, <2>2
  <2>3. CASE At(u) = ip /\ u # t
    <3>1. u \in graph.inner[t]
      BY <1>1, <1>2, <1>3, <2>1, <2>3, BlockFacts, InnerFacts
    <3> QED
      BY <1>1, <1>4, <2>3, <3>1
  <2> QED
    BY <1>1, <2>1, <2>2, <2>3, BlockFacts
<1>7. ASSUME t \in OnStack
      PROVE  t = Top /\ active = t
  <2>1. t = Top \/ Top \in graph.inner[t]
    BY <1>7, OpenFacts
  <2>2. t = Top
    <3>1. SUFFICES ASSUME Top \in graph.inner[t] PROVE FALSE
      BY <2>1
    <3>2. Top \in Fields /\ Top \in OnStack
      <4>1. Chained /\ stack # <<>>
        BY <1>7, StackFacts DEF Stacked
      <4> QED
        BY <4>1, StackFacts
    <3>3. t \in graph.inner[Top] \/ Top = t
      BY <1>5, <1>6, <3>2
    <3> QED
      BY <1>1, <1>2, <3>1, <3>2, <3>3, NestFacts
  <2>3. CASE active # Top
    <3>1. active \in Opened /\ active \notin OnStack /\ active \in Fields
      BY <2>3, OpenFacts DEF Stacked, Opened
    <3>2. t \in graph.inner[active]
      BY <1>6, <1>7, <3>1
    <3>3. Live(active)
      BY <1>5, <1>7, <3>1, <3>2 DEF Placed
    <3> QED
      BY <3>1, <3>3 DEF Live
  <2> QED
    BY <2>2, <2>3
<1>8. ASSUME NEW u \in Fields, t \in graph.inner[u], ~Live(u)
      PROVE  FALSE
  <2>1. /\ At(u) < At(t) /\ End(t) < End(u) /\ At(u) \in Nat /\ At(t) \in Nat
        /\ End(t) \in Nat /\ End(u) \in Nat
    BY <1>1, <1>2, <1>8, NestFacts, BlockFacts
  <2>2. At(u) < ip /\ ip <= End(u)
    BY <1>1, <1>3, <2>1
  <2>3. ip <= At(t)
    BY <1>1, <1>8, <2>2, WaitingFacts
  <2> QED
    BY <1>1, <1>3, <2>1, <2>3
<1> QED
  BY <1>2, <1>3, <1>4, <1>6, <1>7, <1>8

\* An edge into the collecting socket is met once in a pass, and its field is
\* active by then or is opened by the edge itself.
LEMMA CollectFacts ==
  ASSUME Settled, EdgeDue, edge.collect
  PROVE  \E t \in Fields :
           /\ node = graph.receiver[t] /\ ip = End(t) /\ Collected(node) = t
           /\ ~again
           /\ edge.field => edge.src = t
           /\ ~edge.field => Live(t) /\ active = t /\ Top = t /\ Fetched(t)
<1> USE DEF Settled, Core, EngineInv
<1>1. pc = "edges" /\ ip \in Planned /\ ip \in Nat /\ graph \in Graphs /\ node = graph.plan[ip] /\ e \in Nat
  BY PlanFacts DEF EdgeDue, TypeOK, node
<1>2. /\ node \in Nodes /\ e \in 1..Len(graph.edges[node])
      /\ edge = graph.edges[node][e]
  BY <1>1, PlanFacts DEF EdgeDue, edge
<1>3. PICK t \in Fields : graph.receiver[t] = node
  BY <1>1, <1>2, PlanFacts DEF IsPlanned, TypedPlan, Fields
<1>4. ip = End(t) /\ node \in graph.body[t] /\ At(t) < ip
  BY <1>1, <1>3, BlockFacts, PlanFacts
<1>5. Collected(node) = t
  BY <1>1, <1>3, NestFacts DEF Collected
<1>6. \A i, j \in 1..Len(graph.edges[node]) :
         graph.edges[node][i].collect /\ (graph.edges[node][j].collect \/ graph.edges[node][j].field) => j <= i
  BY <1>3 DEF Apart, CollectsOnce, Fields
<1>7. Len(graph.edges[node]) \in Nat
  BY <1>1, <1>2, GraphFacts
<1>8. ~again
  <2> SUFFICES ASSUME again PROVE FALSE
    OBVIOUS
  <2>1. PICK i \in 1..(e - 1) : graph.edges[node][i].collect
    BY DEF Pausing
  <2>2. i \in 1..Len(graph.edges[node]) /\ i < e
    BY <1>1, <1>2, <1>7
  <2> QED
    BY <1>1, <1>2, <1>6, <2>1, <2>2
<1>9. ASSUME edge.field
      PROVE  edge.src = t
  <2>1. edge.src \in Fields /\ node \in graph.body[edge.src]
    BY <1>9, FieldEdgeFactsAt
  <2> QED
    BY <1>1, <1>4, <2>1, OneBody
<1>10. ASSUME ~edge.field
       PROVE  Live(t) /\ active = t /\ Top = t /\ Fetched(t)
  <2>1. Live(t)
    <3> SUFFICES ASSUME ~Live(t) PROVE FALSE
      OBVIOUS
    <3>1. PICK k \in 1..Len(graph.edges[node]) :
             graph.edges[node][k].field /\ graph.edges[node][k].src = t
      BY <1>1, <1>4, FirstFacts
    <3>2. k <= e /\ k # e
      BY <1>2, <1>6, <1>10, <3>1
    <3>3. k \in 1..(e - 1)
      BY <1>1, <1>7, <3>2
    <3> QED
      BY <1>1, <3>1, <3>3 DEF Received
  <2>2. t \in OnStack /\ Fetched(t)
    BY <1>8, <2>1 DEF Live
  <2>3. t = Top
    <3> SUFFICES ASSUME t # Top PROVE FALSE
      OBVIOUS
    <3>1. Top \in graph.inner[t]
      BY <2>2, OpenFacts
    <3>2. Chained /\ stack # <<>>
      BY <2>2, StackFacts DEF Stacked
    <3>3. Top \in Fields /\ Top \in Opened
      BY <3>2, StackFacts DEF Opened
    <3>4. ip <= End(Top) /\ End(Top) < End(t) /\ End(t) \in Nat /\ End(Top) \in Nat
      BY <1>1, <3>1, <3>3, NestFacts, BlockFacts DEF Placed
    <3> QED
      BY <1>4, <3>4
  <2>4. CASE active # Top
    <3>1. active \in Opened /\ active \notin OnStack /\ active \in Fields
      BY <2>4, OpenFacts DEF Stacked, Opened
    <3>2. At(active) <= ip /\ ip <= End(active) /\ active # t
      BY <2>2, <3>1 DEF Placed
    <3>3. t \in graph.inner[active]
      BY <1>1, <1>4, <3>1, <3>2, InnerFacts
    <3>4. Live(active)
      BY <2>2, <3>1, <3>3 DEF Placed, Opened
    <3> QED
      BY <3>1, <3>4 DEF Live
  <2> QED
    BY <2>1, <2>2, <2>3, <2>4
<1> QED
  BY <1>3, <1>4, <1>5, <1>8, <1>9, <1>10

\* What an edge passes on has run on the current elements.
LEMMA SourceFresh ==
  ASSUME Settled, EdgeDue, ~SourceDue
  PROVE  edge.src \notin stale
<1> USE DEF Settled, Core, EngineInv
<1> DEFINE s == edge.src
<1>1. /\ pc = "edges" /\ ip \in Planned /\ ip \in Nat /\ graph \in Graphs /\ node = graph.plan[ip]
      /\ s \in Nodes
  BY PlanFacts, EdgeFacts DEF EdgeDue, TypeOK, node
<1>2. CASE graph.edges[s] = <<>>
  BY <1>1, <1>2, SourceFacts, OpenFacts DEF SourceDue, Fresh
<1>3. CASE graph.edges[s] # <<>>
  <2>1. ip \in 1..Len(graph.plan) /\ e \in 1..Len(graph.edges[graph.plan[ip]])
    BY <1>1 DEF EdgeDue, Planned
  <2>2. PICK k \in 1..(ip - 1) :
          /\ graph.plan[k] = s
          /\ \A t \in Fields : Holds(graph, t, k) /\ k # End(t) => ip <= End(t)
    BY <1>1, <1>3, <2>1, PlanFacts DEF IsPlanned, SourcesFirst, edge, Fields, End
  <2>3. ASSUME NEW t \in Fields, Holds(graph, t, k), k # End(t)
        PROVE  ip <= End(t) /\ (graph.plan[k] \in Within(t) => Live(t))
    <3>1. ip <= End(t) /\ At(t) < k /\ At(t) \in Nat
      BY <1>1, <2>2, <2>3, BlockFacts DEF Holds, At
    <3>2. At(t) < ip
      BY <1>1, <3>1
    <3> QED
      BY <1>1, <3>1, <3>2, WaitingFacts
  <2>4. Passed(k)
    BY <2>3 DEF Passed
  <2> QED
    BY <1>3, <2>2, <2>4 DEF Fresh
<1> QED
  BY <1>2, <1>3

-----------------------------------------------------------------------------
(***************************************************************************)
(* Every step keeps the invariant.  First the loop over the plan.          *)
(***************************************************************************)
\* No receiver runs like an ordinary node.
LEMMA RunsLast == Settled => CollectorRunsLast
<1> USE DEF Settled, Core, EngineInv
<1> SUFFICES ASSUME Settled, AllReceived, ~again, NEW t \in Fields, node = graph.receiver[t]
             PROVE  FALSE
  BY DEF CollectorRunsLast, Receivers
<1>1. pc = "edges" /\ ip \in Planned /\ e \in Nat /\ graph \in Graphs
  BY DEF AllReceived, TypeOK
<1>2. PICK k \in 1..Len(graph.edges[node]) : graph.edges[node][k].collect
  BY <1>1, PlanFacts DEF IsPlanned, FieldsStart, Fields
<1>3. graph.edges[node] \in Seq(Edge)
  BY <1>1, PlanFacts, GraphFacts DEF node
<1>4. k \in 1..(e - 1)
  BY <1>1, <1>3 DEF AllReceived
<1> QED
  BY <1>1, <1>2, <1>4 DEF Received

\* The plan is walked on from a node that is in no field without an element,
\* and no receiver of an open field.
LEMMA WalkOn ==
  ASSUME Settled, pc \in {"loop", "edges"}, ip \in Planned, ip' = ip + 1, ~again,
         UNCHANGED <<graph, again, restarts, fieldVars, sent, gathered>>, pc' = "loop",
         executed' = executed \/ executed' = executed \cup {node},
         stale' = stale \/ stale' = stale \ {node},
         \A t \in Opened : node # graph.receiver[t],
         \A t \in Fields : node = graph.receiver[t] => t \in reinit,
         \A t \in Fields : ~Live(t) => node \notin graph.body[t],
         executed' # executed => \A t \in Fields : node # graph.receiver[t],
         graph.edges[node] # <<>> => node \notin stale',
         executed' # executed => node \notin stale'
  PROVE  Core'
<1> USE DEF Settled, Core, EngineInv
<1>1. graph \in Graphs /\ ip \in Nat /\ ip \in Planned /\ node = graph.plan[ip] /\ pc # "close"
  BY PlanFacts DEF TypeOK, node
<1>2. /\ OnStack' = OnStack /\ Opened' = Opened /\ Top' = Top
      /\ \A t : Live(t)' <=> Live(t)
      /\ \A t : Fetched(t)' <=> Fetched(t)
      /\ \A t : End(t)' = End(t) /\ At(t)' = At(t)
  BY DEF OnStack, Opened, Top, Live, Fetched, End, At, fieldVars
<1>3. OnStack \subseteq Fields /\ OnStack \subseteq Opened /\ Opened \subseteq Fields
  BY OpenFacts DEF Opened
<1>4. Stacked'
  BY <1>2, <1>3 DEF Stacked, Chained, fieldVars, Fields
<1>5. Placed'
  <2>1. ASSUME NEW t \in Opened
        PROVE  At(t) <= ip + 1 /\ ip + 1 <= End(t)
    <3>1. At(t) <= ip /\ ip <= End(t) /\ At(t) \in Nat /\ End(t) \in Nat
      BY <1>1, <1>3, BlockFacts DEF Placed
    <3>2. ip # End(t)
      BY <1>1, <1>3, BlockFacts
    <3> QED
      BY <1>1, <3>1, <3>2
  <2> QED
    BY <1>1, <1>2, <2>1 DEF Placed, Fields
<1>6. Pausing' /\ Received'
  BY DEF Pausing, Received
<1>7. Closing'
  BY <1>1 DEF Closing, fieldVars
<1>8. Waiting'
  <2> SUFFICES ASSUME NEW t \in Fields, ~Live(t)
               PROVE  /\ executed' \cap graph.body[t] \subseteq {graph.receiver[t]}
                      /\ ip + 1 <= End(t) /\ graph.body[t] = {graph.receiver[t]} =>
                           graph.receiver[t] \notin executed'
                      /\ Holds(graph, t, ip + 1) =>
                           \A i \in 1..((ip + 1) - 1) : graph.plan[i] \notin graph.body[t]
    BY <1>2 DEF Waiting, Fields, End
  <2>1. /\ executed \cap graph.body[t] \subseteq {graph.receiver[t]}
        /\ ip <= End(t) /\ graph.body[t] = {graph.receiver[t]} =>
             graph.receiver[t] \notin executed
        /\ Holds(graph, t, ip) => \A i \in 1..(ip - 1) : graph.plan[i] \notin graph.body[t]
    BY <1>1 DEF Waiting, End
  <2>2. At(t) \in Nat /\ End(t) \in Nat
    BY <1>1, BlockFacts
  <2>3. executed' \cap graph.body[t] \subseteq {graph.receiver[t]}
    BY <2>1
  <2>4. ip + 1 <= End(t) /\ graph.body[t] = {graph.receiver[t]} => graph.receiver[t] \notin executed'
    BY <1>1, <2>1, <2>2
  <2>5. ASSUME Holds(graph, t, ip + 1), NEW i \in 1..((ip + 1) - 1), graph.plan[i] \in graph.body[t]
        PROVE  FALSE
    <3>1. i \in 1..ip /\ i \in Planned
      BY <1>1, PlanFacts DEF Planned
    <3>2. i # ip
      BY <1>1, <2>5
    <3>3. At(t) < i /\ ip <= End(t)
      BY <1>1, <2>2, <2>5, <3>1, BodyFacts DEF Holds, End
    <3> QED
      BY <1>1, <2>1, <2>2, <2>5, <3>1, <3>2, <3>3 DEF Holds, At, End
  <2> QED
    BY <2>3, <2>4, <2>5
<1>9. Renewal'
  <2> SUFFICES ASSUME NEW t \in Fields
               PROVE  /\ graph.receiver[t] \in executed' => t \in reinit
                      /\ ip + 1 > End(t) /\ (\A u \in Fields : t \in graph.inner[u] => ip + 1 <= End(u))
                           => t \in reinit
    BY <1>2 DEF Renewal, Fields, fieldVars
  <2>1. graph.receiver[t] \in executed' => t \in reinit
    BY DEF Renewal
  <2>2. ASSUME ip + 1 > End(t), \A u \in Fields : t \in graph.inner[u] => ip + 1 <= End(u)
        PROVE  t \in reinit
    <3>1. End(t) \in Nat /\ \A u \in Fields : End(u) \in Nat
      BY <1>1, BlockFacts
    <3>2. CASE ip = End(t)
      BY <1>1, <3>2, BlockFacts
    <3>3. CASE ip # End(t)
      BY <1>1, <2>2, <3>1, <3>3 DEF Renewal
    <3> QED
      BY <3>2, <3>3
  <2> QED
    BY <2>1, <2>2
<1>10. Counted'
  <2>1. \A t \in OnStack : \A u \in graph.inner[t] : At(u) <= ip => At(u) <= ip + 1
    <3>1. \A t \in OnStack : \A u \in graph.inner[t] : At(u) \in Nat
      BY <1>1, <1>3, BlockFacts
    <3> QED
      BY <1>1, <3>1
  <2> QED
    BY <1>2, <2>1 DEF Counted, Fields, fieldVars
<1>11. Fresh'
  <2>1. ASSUME NEW i \in 1..((ip + 1) - 1), graph.edges[graph.plan[i]] # <<>>, Passed(i)'
        PROVE  graph.plan[i] \notin stale'
    <3>1. CASE i = ip
      BY <1>1, <2>1, <3>1
    <3>2. CASE i # ip
      <4>1. i \in 1..(ip - 1)
        BY <1>1, <3>2
      <4>2. \A t \in Fields : End(t) \in Nat
        BY <1>1, BlockFacts
      <4>3. Passed(i)
        BY <1>1, <1>2, <2>1, <4>2 DEF Passed, Within, NodesOf, Fields
      <4> QED
        BY <2>1, <4>1, <4>3 DEF Fresh
    <3> QED
      BY <3>1, <3>2
  <2>2. \A n \in executed' \cap stale' : \E t \in Fields \ OnStack : n = graph.receiver[t]
    BY DEF Fresh
  <2> QED
    BY <1>2, <2>1, <2>2 DEF Fresh, Fields
<1> QED
  BY <1>4, <1>5, <1>6, <1>7, <1>8, <1>9, <1>10, <1>11

LEMMA LoopStep ==
  ASSUME Settled, Skip \/ Begin \/ Run
  PROVE  Core'
<1> USE DEF Settled, Core, EngineInv
<1>1. graph \in Graphs /\ ip \in Nat /\ \A i \in Planned : i \in Nat
  BY PlanFacts DEF TypeOK
<1>2. OnStack \subseteq Fields /\ OnStack \subseteq Opened /\ Opened \subseteq Fields
  BY OpenFacts DEF Opened
<1>3. CASE Skip
  <2>1. /\ pc = "loop" /\ ip \in Planned /\ ip' = ip + 1 /\ pc' = "loop" /\ ~again
        /\ UNCHANGED <<graph, again, restarts, fieldVars, sent, gathered>>
        /\ executed' = executed /\ stale' = stale
        /\ node \in executed \/ graph.edges[node] = <<>>
    BY <1>3 DEF Skip, Pausing, history, TypeOK
  <2>2. \A t \in Fields : ~Live(t) => node \notin graph.body[t]
    BY <1>1, <2>1, FirstFacts, BodyFacts
  <2>3. \A t \in Fields : node = graph.receiver[t] => t \in reinit
    BY <1>1, <2>1, BodyFacts, BlockFacts DEF Renewal
  <2>4. ASSUME NEW t \in Opened, node = graph.receiver[t]
        PROVE  FALSE
    <3>1. node \in graph.body[t] /\ node \in executed
      BY <1>1, <1>2, <2>1, <2>4, BodyFacts, BlockFacts
    <3> QED
      BY <1>2, <2>2, <2>4, <3>1 DEF Stacked, Live
  <2>5. graph.edges[node] # <<>> => node \notin stale'
    <3> SUFFICES ASSUME graph.edges[node] # <<>>, node \in stale PROVE FALSE
      BY <2>1
    <3>1. PICK t \in Fields \ OnStack : node = graph.receiver[t]
      BY <2>1 DEF Fresh
    <3> QED
      BY <1>1, <2>2, <3>1, BlockFacts DEF Live
  <2> QED
    BY <2>1, <2>2, <2>3, <2>4, <2>5, WalkOn
<1>4. CASE Run
  <2>1. /\ pc = "edges" /\ ip \in Planned /\ ip' = ip + 1 /\ pc' = "loop" /\ ~again /\ AllReceived
        /\ UNCHANGED <<graph, again, restarts, fieldVars, sent, gathered>>
        /\ executed' = executed \cup {node} /\ stale' = stale \ {node}
    BY <1>4 DEF Run, AllReceived, TypeOK
  <2>2. \A t \in Fields : ~Live(t) => node \notin graph.body[t]
    BY <2>1, LiveFacts
  <2>3. \A t \in Fields : node # graph.receiver[t]
    BY <2>1, RunsLast DEF CollectorRunsLast, Receivers
  <2> QED
    BY <1>2, <2>1, <2>2, <2>3, WalkOn
<1>5. CASE Begin
  <2>1. /\ pc = "loop" /\ ip \in Planned /\ ip' = ip /\ pc' = "edges" /\ e' = 1 /\ ~again /\ ~again'
        /\ UNCHANGED <<graph, executed, restarts, fieldVars, stale, sent, gathered>>
        /\ node \notin executed
    BY <1>5 DEF Begin, Pausing, history, TypeOK
  <2>2. /\ OnStack' = OnStack /\ Opened' = Opened /\ Top' = Top
        /\ \A t : Live(t)' <=> Live(t)
        /\ \A t : Fetched(t)' <=> Fetched(t)
        /\ \A t : End(t)' = End(t) /\ At(t)' = At(t)
        /\ \A t : Within(t)' = Within(t)
    BY <2>1 DEF OnStack, Opened, Top, Live, Fetched, End, At, Within, fieldVars
  <2>3. Stacked'
    BY <1>2, <2>1, <2>2 DEF Stacked, Chained, fieldVars, Fields
  <2>4. Placed'
    <3>1. \A t \in OnStack : ip # At(t)
      BY <1>1, <1>2, <2>1, BlockFacts DEF Stacked, node
    <3> QED
      BY <2>1, <2>2, <3>1 DEF Placed, Fields
  <2>5. Pausing' /\ Received'
    BY <2>1 DEF Pausing, Received
  <2>6. Closing' /\ Renewal' /\ Counted'
    BY <2>1, <2>2 DEF Closing, Renewal, Counted, Fields, fieldVars
  <2>7. Waiting'
    BY <2>1, <2>2 DEF Waiting, Fields, fieldVars
  <2>8. Fresh'
    BY <2>1, <2>2 DEF Fresh, Passed, Fields
  <2> QED
    BY <2>3, <2>4, <2>5, <2>6, <2>7, <2>8
<1> QED
  BY <1>3, <1>4, <1>5

\* A jump back to the transmitter of the active field, which keeps the iterator
\* or, with an F_RESTART, drops it.
LEMMA JumpBack ==
  ASSUME Settled, pc = "edges", active \in Fields, active = Top,
         ip' = At(active), pc' = "loop", ~again', cached' = {},
         sent'[active] = gathered[active], \A t \in Fields \ {active} : sent'[t] = sent[t],
         UNCHANGED <<graph, exhausted, reinit, stale, gathered>>,
         \/ /\ UNCHANGED <<active, stack, iterators, handler>>
            /\ executed' = executed \ graph.body[active]
         \/ /\ active' = Top /\ stack' = Pop /\ iterators' = iterators \ {active} /\ handler' = NoField
            /\ executed' = executed \ (graph.body[active] \cup {active})
  PROVE  Core'
<1> USE DEF Settled, Core, EngineInv
<1> DEFINE a == active
<1>1. /\ graph \in Graphs /\ ip \in Nat /\ TypeOK /\ Chained /\ exhausted = {}
      /\ a \in OnStack /\ OnStack \subseteq Fields /\ Opened = OnStack
      /\ \A t \in OnStack : t = a \/ a \in graph.inner[t]
  BY PlanFacts, OpenFacts DEF TypeOK, Stacked, Closing, Opened
<1>2. At(a) \in Nat /\ End(a) \in Nat /\ At(a) < End(a) /\ At(a) < ip /\ ip <= End(a)
  BY <1>1, BlockFacts DEF Placed
<1>3. /\ OnStack' \in {OnStack, OnStack \ {a}} /\ Chained' /\ iterators' = OnStack'
      /\ active' = a /\ (active' = Top' \/ active' \notin OnStack')
      /\ handler' # NoField => handler' = a /\ active' = Top'
      /\ Opened' \subseteq OnStack
  <2>1. CASE UNCHANGED <<active, stack, iterators, handler>>
    BY <1>1, <2>1 DEF OnStack, Chained, Top, Opened, Stacked
  <2>2. CASE /\ active' = Top /\ stack' = Pop /\ iterators' = iterators \ {active} /\ handler' = NoField
    <3>1. stack # <<>>
      BY <1>1, StackFacts
    <3>2. Chained' /\ OnStack' = OnStack \ {a}
      BY <1>1, <2>2, <3>1, PopStack
    <3> QED
      BY <1>1, <2>2, <3>2 DEF Opened, Stacked
  <2> QED
    BY <2>1, <2>2
<1>4. executed' \subseteq executed /\ executed' \cap graph.body[a] = {}
  OBVIOUS
<1>5. ~Live(a)' /\ \A t \in Fields : t # a => (Live(t)' <=> Live(t))
  <2>1. a \in Nodes /\ gathered[a] \in Nat
    BY <1>1, BlockFacts DEF TypeOK
  <2>2. ~Fetched(a)'
    BY <2>1 DEF Fetched
  <2>3. \A t \in Fields : t # a => (Fetched(t)' <=> Fetched(t)) /\ (t \in OnStack' <=> t \in OnStack)
    BY <1>3 DEF Fetched
  <2> QED
    BY <2>2, <2>3 DEF Live
<1>6. \A t : End(t)' = End(t) /\ At(t)' = At(t) /\ Within(t)' = Within(t)
  BY DEF End, At, Within
<1>7. /\ \A t \in Fields : At(t) \in Nat /\ End(t) \in Nat /\ At(t) < End(t)
      /\ \A t \in Fields : a \in graph.inner[t] => t # a /\ At(t) < At(a) /\ End(a) < End(t)
      /\ \A t \in Fields : t # a /\ At(t) < At(a) /\ At(a) <= End(t) => a \in graph.inner[t]
      /\ \A t \in Fields : t # a /\ At(a) <= End(t) /\ End(t) < ip => t \in graph.inner[a]
  <2>1. \A t \in Fields : At(t) \in Nat /\ End(t) \in Nat /\ At(t) < End(t)
    BY <1>1, BlockFacts
  <2>2. \A t \in Fields : a \in graph.inner[t] => t # a /\ At(t) < At(a) /\ End(a) < End(t)
    BY <1>1, NestFacts
  <2>3. \A t \in Fields : t # a /\ At(t) < At(a) /\ At(a) <= End(t) => a \in graph.inner[t]
    BY <1>1, <1>2, <2>1, InnerFacts
  <2>4. \A t \in Fields : t # a /\ At(a) <= End(t) /\ End(t) <= End(a) => t \in graph.inner[a]
    BY <1>1, InnerFacts
  <2> QED
    BY <1>1, <1>2, <2>1, <2>2, <2>3, <2>4
<1> HIDE DEF a
<1>8. Stacked'
  <2>1. ASSUME NEW t \in OnStack'
        PROVE  t \in executed' /\ graph.receiver[t] \notin executed' /\ t \notin reinit
    <3>1. t \in OnStack /\ t \in Fields /\ t \in executed /\ graph.receiver[t] \notin executed /\ t \notin reinit
      BY <1>1, <1>3 DEF Stacked
    <3>2. t \notin graph.body[a]
      <4> SUFFICES ASSUME t \in graph.body[a] PROVE FALSE
        OBVIOUS
      <4>1. At(a) < At(t)
        BY <1>1, <3>1, BodyFacts, BlockFacts
      <4> QED
        BY <1>1, <1>2, <1>7, <3>1, <4>1
    <3>3. t \in executed'
      <4>1. CASE t = a
        BY <1>1, <1>3, <3>1, <3>2, <4>1, StackFacts, PopStack DEF a
      <4>2. CASE t # a
        BY <3>1, <3>2, <4>2 DEF a
      <4> QED
        BY <4>1, <4>2
    <3> QED
      BY <1>4, <3>1, <3>3
  <2>2. active' = Top' \/ (pc' # "close" /\ active' \in Fields /\ active' \notin OnStack')
    BY <1>1, <1>3
  <2>3. handler' # NoField => handler' = active' /\ active' = Top'
    BY <1>3
  <2> QED
    BY <1>3, <2>1, <2>2, <2>3 DEF Stacked, Fields
<1>9. Placed'
  <2>1. ASSUME NEW t \in OnStack
        PROVE  At(t) <= At(a) /\ At(a) <= End(t)
    BY <1>1, <1>2, <1>7
  <2>2. ASSUME NEW t \in OnStack, NEW u \in Fields, t \in graph.inner[u]
        PROVE  Live(u)'
    <3>1. Live(u) /\ t \in Fields
      BY <1>1, <2>2 DEF Placed
    <3>2. u # a
      BY <1>1, <2>2, <3>1, NestFacts
    <3> QED
      BY <1>5, <3>1, <3>2
  <2>3. ip' = At(a)
    BY DEF a
  <2>4. \A t \in Opened' : At(t)' <= ip' /\ ip' <= End(t)'
    BY <1>3, <1>6, <2>1, <2>3
  <2> QED
    BY <1>3, <2>2, <2>4 DEF Placed, Fields
<1>10. Pausing' /\ Closing' /\ Received'
  BY <1>1 DEF Pausing, Closing, Received
<1>11. Waiting'
  <2> SUFFICES ASSUME NEW t \in Fields, ~Live(t)'
               PROVE  /\ executed' \cap graph.body[t] \subseteq {graph.receiver[t]}
                      /\ At(a) <= End(t) /\ graph.body[t] = {graph.receiver[t]} =>
                           graph.receiver[t] \notin executed'
                      /\ Holds(graph, t, At(a)) =>
                           \A i \in 1..(At(a) - 1) : graph.plan[i] \notin graph.body[t]
    BY <1>6 DEF Waiting, Fields, a
  <2>1. CASE t = a
    BY <1>1, <1>2, <1>4, <2>1, BlockFacts DEF Holds, At
  <2>2. CASE t # a
    <3>1. ~Live(t)
      BY <1>5, <2>2
    <3>2. executed' \cap graph.body[t] \subseteq {graph.receiver[t]}
      BY <1>4, <3>1 DEF Waiting
    <3>3. At(a) <= End(t) /\ graph.body[t] = {graph.receiver[t]} => graph.receiver[t] \notin executed'
      <4> SUFFICES ASSUME At(a) <= End(t), graph.body[t] = {graph.receiver[t]} PROVE graph.receiver[t] \notin executed
        BY <1>4
      <4>1. t \notin graph.inner[a]
        BY <1>1 DEF Apart, InnerHasNodes, Fields
      <4>2. ip <= End(t)
        BY <1>1, <1>7, <2>2, <4>1
      <4> QED
        BY <3>1, <4>2 DEF Waiting
    <3>4. ASSUME Holds(graph, t, At(a)), NEW i \in 1..(At(a) - 1)
          PROVE  graph.plan[i] \notin graph.body[t]
      <4>1. At(t) < At(a) /\ At(a) <= End(t)
        BY <3>4 DEF Holds, At, End
      <4>2. Holds(graph, t, ip)
        BY <1>1, <1>2, <1>7, <2>2, <4>1 DEF Holds, At, End
      <4> QED
        BY <1>1, <1>2, <3>1, <4>2 DEF Waiting
    <3> QED
      BY <3>2, <3>3, <3>4
  <2> QED
    BY <2>1, <2>2
<1>12. Renewal'
  <2> SUFFICES ASSUME NEW t \in Fields
               PROVE  /\ graph.receiver[t] \in executed' => t \in reinit
                      /\ At(a) > End(t) /\ (\A u \in Fields : t \in graph.inner[u] => At(a) <= End(u))
                           => t \in reinit
    BY <1>6 DEF Renewal, Fields, a
  <2>1. graph.receiver[t] \in executed' => t \in reinit
    BY <1>4 DEF Renewal
  <2>2. ASSUME At(a) > End(t), \A u \in Fields : t \in graph.inner[u] => At(a) <= End(u)
        PROVE  t \in reinit
    <3>1. ASSUME NEW u \in Fields, t \in graph.inner[u]
          PROVE  ip <= End(u)
      <4>1. At(u) < At(t) /\ At(a) <= End(u)
        BY <1>1, <2>2, <3>1, NestFacts
      <4> QED
        BY <1>1, <1>2, <1>7, <2>2, <4>1
    <3> QED
      BY <1>1, <1>2, <1>7, <2>2, <3>1 DEF Renewal
  <2> QED
    BY <2>1, <2>2
<1>13. Counted'
  <2>1. ASSUME NEW t \in OnStack'
        PROVE  /\ sent'[t] = gathered[t] \/ Fetched(t)'
               /\ Fetched(t)' => \E u \in graph.inner[t] : At(u) <= At(a)
    <3>1. t \in OnStack /\ t \in Fields /\ t \in Nodes
      BY <1>1, <1>3, BlockFacts
    <3>2. CASE t = a
      BY <1>1, <3>1, <3>2 DEF Fetched, TypeOK, a
    <3>3. CASE t # a
      <4>1. a \in graph.inner[t] /\ At(a) <= At(a)
        BY <1>1, <1>2, <3>1, <3>3
      <4> QED
        BY <3>1, <3>3, <4>1 DEF Counted, Fetched, a
    <3> QED
      BY <3>2, <3>3
  <2>2. ASSUME NEW t \in Fields \ OnStack'
        PROVE  sent'[t] = IF t \in reinit THEN 0 ELSE gathered[t]
    <3>1. CASE t = a
      BY <1>1, <3>1 DEF Stacked, a
    <3>2. CASE t # a
      BY <1>3, <3>2 DEF Counted, a
    <3> QED
      BY <3>1, <3>2
  <2> QED
    BY <1>6, <2>1, <2>2 DEF Counted, Fields, a
<1>14. Fresh'
  <2>1. ASSUME NEW i \in 1..(At(a) - 1), graph.edges[graph.plan[i]] # <<>>, Passed(i)'
        PROVE  graph.plan[i] \notin stale
    <3>1. i \in 1..(ip - 1) /\ i \in Nat /\ i < At(a)
      BY <1>1, <1>2
    <3>2. ASSUME NEW t \in Fields, Holds(graph, t, i), i # End(t)
          PROVE  ip <= End(t) /\ (graph.plan[i] \in Within(t) => Live(t))
      <4>1. At(a) <= End(t) /\ (graph.plan[i] \in Within(t) => Live(t)')
        BY <1>6, <2>1, <3>2 DEF Passed, Fields, a
      <4>2. At(t) < i
        BY <3>2 DEF Holds, At
      <4>3. t # a /\ a \in graph.inner[t]
        BY <1>1, <1>2, <1>7, <3>1, <4>1, <4>2
      <4> QED
        BY <1>1, <1>2, <1>5, <1>7, <4>1, <4>3
    <3>3. Passed(i)
      BY <3>2 DEF Passed
    <3> QED
      BY <2>1, <3>1, <3>3 DEF Fresh
  <2>2. \A n \in executed' \cap stale : \E t \in Fields \ OnStack' : n = graph.receiver[t]
    BY <1>3, <1>4 DEF Fresh
  <2> QED
    BY <2>1, <2>2 DEF Fresh, Fields, a
<1> QED
  BY <1>8, <1>9, <1>10, <1>11, <1>12, <1>13, <1>14

LEMMA RestartStep ==
  ASSUME Settled, Restart \/ NextElement \/ RestartField
  PROVE  Core'
<1> USE DEF Settled, Core, EngineInv
<1>1. TypeOK
  OBVIOUS
<1>2. CASE Restart
  <2>1. /\ pc = "edges" /\ active \in Fields /\ active = Top /\ cached = {} /\ sent[active] = gathered[active]
        /\ ip' = At(active) /\ pc' = "loop" /\ ~again'
        /\ UNCHANGED <<graph, exhausted, reinit, stale, gathered>>
        /\ UNCHANGED <<active, stack, iterators, handler, cached, sent>>
        /\ executed' = executed \ graph.body[active]
    BY <1>2 DEF Restart, AllReceived, Pausing, fieldVars, history, At
  <2> QED
    BY <2>1, JumpBack
<1>3. CASE NextElement \/ RestartField
  <2>1. \E outcome : Handled(outcome)
    BY <1>3 DEF NextElement, RestartField
  <2>2. /\ pc = "edges" /\ active \in Fields /\ active = Top /\ ~again
        /\ sent' = [sent EXCEPT ![active] = gathered[active]]
        /\ UNCHANGED <<graph, again, reinit, stale, gathered>>
    BY <2>1 DEF Handled, AllReceived, Stacked, Open
  <2>3. exhausted = {}
    BY <2>2 DEF Closing
  <2>4. sent'[active] = gathered[active] /\ \A t \in Fields \ {active} : sent'[t] = sent[t]
    BY <2>2, BlockFacts, OpenFacts DEF TypeOK
  <2>5. /\ ip' = At(active) /\ pc' = "loop" /\ cached' = {} /\ exhausted' = exhausted
        /\ \/ /\ UNCHANGED <<active, stack, iterators, handler>>
              /\ executed' = executed \ graph.body[active]
           \/ /\ active' = Top /\ stack' = Pop /\ iterators' = iterators \ {active} /\ handler' = NoField
              /\ executed' = executed \ (graph.body[active] \cup {active})
    BY <1>3, <2>3 DEF NextElement, RestartField, At
  <2> QED
    BY <2>2, <2>4, <2>5, JumpBack
<1> QED
  BY <1>2, <1>3

-----------------------------------------------------------------------------
(* The edges of a node. *)

\* A source with inbound edges has been passed by; the fields that hold it, but
\* for its own as a receiver, are the ones execution is in.
LEMMA SourcePlaced ==
  ASSUME Settled, EdgeDue, NEW t \in Fields
  PROVE  /\ edge.src = graph.receiver[t] => End(t) < ip /\ t \in reinit
         /\ edge.src \in graph.body[t] /\ edge.src # graph.receiver[t] => Live(t)
<1> USE DEF Settled, Core, EngineInv
<1> DEFINE s == edge.src
<1>1. /\ pc = "edges" /\ ip \in Planned /\ ip \in Nat /\ graph \in Graphs /\ s \in Nodes
      /\ ip \in 1..Len(graph.plan) /\ e \in 1..Len(graph.edges[graph.plan[ip]])
      /\ node = graph.plan[ip]
  BY PlanFacts, EdgeFacts DEF EdgeDue, TypeOK, node, Planned
<1> SUFFICES ASSUME s \in graph.body[t]
             PROVE  /\ s = graph.receiver[t] => End(t) < ip /\ t \in reinit
                    /\ s # graph.receiver[t] => Live(t)
  BY <1>1, BlockFacts
<1>2. graph.edges[s] # <<>>
  BY <1>1, BodyFacts
<1>3. PICK k \in 1..(ip - 1) :
        /\ graph.plan[k] = s
        /\ \A u \in Fields : Holds(graph, u, k) /\ k # End(u) => ip <= End(u)
  BY <1>1, <1>2, PlanFacts DEF IsPlanned, SourcesFirst, edge, Fields, End, node
<1>4. k \in Planned /\ k \in Nat /\ k < ip /\ At(t) < k /\ k <= End(t) /\ At(t) \in Nat /\ End(t) \in Nat
  <2>1. k \in Planned
    BY <1>1, PlanFacts DEF Planned
  <2> QED
    BY <1>1, <1>3, <2>1, BodyFacts, BlockFacts
<1>5. CASE s = graph.receiver[t]
  <2>1. k = End(t)
    BY <1>1, <1>3, <1>4, <1>5, BlockFacts, PlanFacts
  <2>2. ASSUME NEW u \in Fields, t \in graph.inner[u]
        PROVE  ip <= End(u)
    <3>1. At(u) < At(t) /\ End(t) < End(u) /\ At(u) \in Nat /\ End(u) \in Nat
      BY <1>1, <2>2, NestFacts, BlockFacts
    <3>2. Holds(graph, u, k) /\ k # End(u)
      BY <1>4, <2>1, <3>1 DEF Holds, At, End
    <3> QED
      BY <1>3, <3>2
  <2> QED
    BY <1>4, <1>5, <2>1, <2>2 DEF Renewal
<1>6. CASE s # graph.receiver[t]
  <2>1. k # End(t)
    BY <1>1, <1>3, <1>6, BlockFacts
  <2>2. ip <= End(t)
    BY <1>3, <1>4, <2>1 DEF Holds, At, End
  <2>3. Holds(graph, t, ip) /\ (pc = "close" => t # active)
    BY <1>1, <1>4, <2>2 DEF Holds, At, End
  <2>4. ~(\A i \in 1..(ip - 1) : graph.plan[i] \notin graph.body[t])
    <3>1. graph.plan[k] \in graph.body[t]
      BY <1>3
    <3> QED
      BY <1>3, <3>1
  <2> HIDE DEF s
  <2>5. Live(t)
    BY <2>3, <2>4 DEF Waiting
  <2> QED
    BY <1>6, <2>5
<1> QED
  BY <1>5, <1>6

\* No field edge is met when the receiver has collected.
LEMMA FieldBeforeCollect ==
  ASSUME Settled, EdgeDue, edge.field \/ edge.collect
  PROVE  ~again
<1> USE DEF Settled, Core, EngineInv
<1> SUFFICES ASSUME again PROVE FALSE
  OBVIOUS
<1>1. /\ active \in Fields /\ node = graph.receiver[active] /\ ip \in Planned /\ graph \in Graphs
      /\ e \in 1..Len(graph.edges[node]) /\ edge = graph.edges[node][e]
  BY DEF Pausing, EdgeDue, edge, TypeOK
<1>2. PICK i \in 1..(e - 1) : graph.edges[node][i].collect
  BY DEF Pausing
<1>3. graph.edges[node] \in Seq(Edge)
  BY <1>1, PlanFacts, GraphFacts DEF node
<1>4. i \in 1..Len(graph.edges[node]) /\ i < e
  BY <1>1, <1>3
<1> QED
  BY <1>1, <1>2, <1>4 DEF Apart, CollectsOnce, Fields

LEMMA SourceStep ==
  ASSUME Settled, ExecuteSource
  PROVE  Core'
<1> USE DEF Settled, Core, EngineInv
<1>1. /\ EdgeDue /\ graph.edges[edge.src] = <<>>
      /\ executed' = executed \cup {edge.src} /\ stale' = stale \ {edge.src}
      /\ UNCHANGED <<graph, ip, pc, e, again, restarts, fieldVars, sent, gathered>>
  BY DEF ExecuteSource, SourceDue, context
<1>2. graph \in Graphs /\ edge.src \in Nodes
  BY <1>1, EdgeFacts DEF TypeOK
<1>3. \A t \in Fields : edge.src \notin graph.body[t] /\ edge.src # graph.receiver[t]
  BY <1>1, <1>2, SourceFacts
<1>4. /\ OnStack' = OnStack /\ Opened' = Opened /\ Top' = Top /\ node' = node
      /\ \A t : Live(t)' <=> Live(t)
      /\ \A t : Fetched(t)' <=> Fetched(t)
      /\ \A t : End(t)' = End(t) /\ At(t)' = At(t) /\ Within(t)' = Within(t)
  BY <1>1 DEF OnStack, Opened, Top, Live, Fetched, End, At, Within, fieldVars, node
<1>5. OnStack \subseteq Fields
  BY OpenFacts
<1>6. Stacked'
  BY <1>1, <1>3, <1>4, <1>5 DEF Stacked, Chained, fieldVars, Fields
<1>7. Placed' /\ Pausing' /\ Closing' /\ Received' /\ Counted'
  BY <1>1, <1>4 DEF Placed, Pausing, Closing, Received, Counted, fieldVars, Fields
<1>8. Waiting'
  BY <1>1, <1>3, <1>4 DEF Waiting, fieldVars, Fields
<1>9. Renewal'
  BY <1>1, <1>3, <1>4 DEF Renewal, fieldVars, Fields
<1>10. Fresh'
  BY <1>1, <1>4 DEF Fresh, Passed, Fields
<1> QED
  BY <1>6, <1>7, <1>8, <1>9, <1>10

\* An edge that opens no field and fetches no element.
LEMMA PassEdge ==
  ASSUME Settled, EdgeDue, ~SourceDue, NextEdge, Receive(active, cached, gathered),
         executed' = executed \cup {edge.src},
         edge.field => edge.src \in OnStack /\ edge.src \in cached,
         UNCHANGED <<reinit, restarts, active, stack, iterators, exhausted, handler, stale, sent>>
  PROVE  Core'
<1> USE DEF Settled, Core, EngineInv
<1> DEFINE s == edge.src
<1>1. /\ pc = "edges" /\ pc' = "edges" /\ ip' = ip /\ graph' = graph /\ e' = e + 1 /\ e \in Nat /\ e >= 1
      /\ graph \in Graphs /\ ip \in Planned /\ ip \in Nat /\ exhausted = {}
      /\ node' = node /\ edge = graph.edges[node][e] /\ e \in 1..Len(graph.edges[node])
  BY PlanFacts DEF EdgeDue, NextEdge, Closing, TypeOK, node, edge
<1>2. OnStack \subseteq Fields /\ OnStack \subseteq Opened /\ Opened \subseteq Fields /\ NoField \notin Fields
  BY OpenFacts DEF Opened
<1>3. s \notin stale
  BY SourceFresh
<1>4. \A t \in Fields :
        /\ s = graph.receiver[t] => End(t) < ip /\ t \in reinit
        /\ s \in graph.body[t] /\ s # graph.receiver[t] => Live(t)
  BY SourcePlaced
<1>5. edge.field => s = Top /\ active = s /\ Fetched(s) /\ s \in Fields /\ s \in OnStack
  BY <1>1, FieldEdgeFactsAt DEF Counted
<1>6. ASSUME edge.collect
      PROVE  /\ active \in Fields /\ active = Top /\ node = graph.receiver[active] /\ Fetched(active)
             /\ active \in OnStack /\ again' = TRUE /\ cached' = {}
             /\ gathered' = [gathered EXCEPT ![active] = @ + 1] /\ ~again /\ active \in Nodes
  <2>1. PICK t \in Fields :
           /\ node = graph.receiver[t] /\ ip = End(t) /\ Collected(node) = t
           /\ ~again
           /\ edge.field => edge.src = t
           /\ ~edge.field => Live(t) /\ active = t /\ Top = t /\ Fetched(t)
    BY <1>6, CollectFacts
  <2>2. active = t /\ Top = t /\ Fetched(t) /\ t \in OnStack
    BY <1>5, <2>1 DEF Live
  <2>3. active # NoField /\ active \notin exhausted
    BY <1>1, <1>2, <2>2
  <2> QED
    BY <1>1, <1>6, <2>1, <2>2, <2>3, BlockFacts DEF Receive
<1>7. ASSUME ~edge.collect
      PROVE  again' = again /\ cached' = cached /\ gathered' = gathered
  BY <1>7 DEF Receive
<1> HIDE DEF s
<1>8. /\ OnStack' = OnStack /\ Opened' = Opened /\ Top' = Top
      /\ \A t : End(t)' = End(t) /\ At(t)' = At(t) /\ Within(t)' = Within(t)
  BY <1>1 DEF OnStack, Opened, Top, End, At, Within
<1>9. \A t \in Fields : t # active \/ ~edge.collect => sent'[t] = sent[t] /\ gathered'[t] = gathered[t]
  BY <1>1, <1>6, <1>7, BlockFacts DEF TypeOK
<1>10. edge.collect => sent'[active] = gathered'[active]
  BY <1>6 DEF Fetched, TypeOK
<1>11. \A t \in Fields : Live(t)' <=> Live(t)
  <2>1. CASE edge.collect
    BY <1>6, <1>8, <1>9, <2>1 DEF Live, Fetched
  <2>2. CASE ~edge.collect
    BY <1>7, <1>8, <2>2 DEF Live, Fetched
  <2> QED
    BY <2>1, <2>2
<1>12. Stacked'
  <2>1. ASSUME NEW t \in OnStack
        PROVE  s # graph.receiver[t]
    <3>1. ip <= End(t) /\ t \in Fields /\ End(t) \in Nat
      BY <1>1, <1>2, BlockFacts DEF Placed
    <3> QED
      BY <1>1, <1>4, <3>1
  <2> QED
    BY <1>1, <1>2, <1>8, <2>1 DEF Stacked, Chained, Fields, s
<1>13. Placed'
  BY <1>1, <1>2, <1>8, <1>11 DEF Placed, Fields
<1>14. Pausing'
  <2>1. CASE edge.collect
    <3>1. e \in 1..((e + 1) - 1)
      BY <1>1
    <3> QED
      BY <1>1, <1>6, <1>8, <1>10, <2>1, <3>1 DEF Pausing, Fields
  <2>2. CASE ~edge.collect
    <3>1. 1..(e - 1) \subseteq 1..((e + 1) - 1)
      BY <1>1
    <3> QED
      BY <1>1, <1>7, <1>8, <2>2, <3>1 DEF Pausing, Fields
  <2> QED
    BY <2>1, <2>2
<1>15. Closing'
  BY <1>1 DEF Closing
<1>16. Waiting'
  <2> SUFFICES ASSUME NEW t \in Fields, ~Live(t)
               PROVE  /\ executed' \cap graph.body[t] \subseteq {graph.receiver[t]}
                      /\ ip <= End(t) /\ graph.body[t] = {graph.receiver[t]} =>
                           graph.receiver[t] \notin executed'
                      /\ Holds(graph, t, ip) => \A i \in 1..(ip - 1) : graph.plan[i] \notin graph.body[t]
    BY <1>1, <1>8, <1>11 DEF Waiting, Fields
  <2>1. /\ executed \cap graph.body[t] \subseteq {graph.receiver[t]}
        /\ ip <= End(t) /\ graph.body[t] = {graph.receiver[t]} =>
             graph.receiver[t] \notin executed
        /\ Holds(graph, t, ip) => \A i \in 1..(ip - 1) : graph.plan[i] \notin graph.body[t]
    BY <1>1 DEF Waiting
  <2>2. End(t) \in Nat
    BY <1>1, BlockFacts
  <2> QED
    BY <1>1, <1>4, <2>1, <2>2 DEF s
<1>17. Received'
  <2> SUFFICES ASSUME NEW i \in 1..((e + 1) - 1)
               PROVE  /\ graph.edges[node][i].field => Live(graph.edges[node][i].src)'
                      /\ graph.edges[node][i].collect => again'
    BY <1>1 DEF Received
  <2>1. CASE i = e
    <3>1. graph.edges[node][i].field => graph.edges[node][i].src = active /\ active \in Fields /\ Live(active)
      BY <1>1, <1>5, <2>1 DEF Live, s
    <3>2. active \in Fields => (Live(active)' <=> Live(active))
      BY <1>11
    <3>3. ASSUME NEW t \in Fields, graph.edges[node][i].src = t, Live(t)
          PROVE  Live(graph.edges[node][i].src)'
      <4>1. Live(t)' /\ graph'.edges[node'][i].src = t
        BY <1>1, <1>11, <3>3
      <4> QED
        BY <1>1, <4>1
    <3> QED
      BY <1>1, <1>6, <2>1, <3>1, <3>3
  <2>2. CASE i # e
    <3>1. i \in 1..(e - 1)
      BY <1>1, <2>2
    <3>2. again => again'
      BY <1>6, <1>7
    <3>3. graph.edges[node][i].field => graph.edges[node][i].src \in Fields
      <4>1. node \in Nodes /\ i \in 1..Len(graph.edges[node])
        BY <1>1, <3>1, PlanFacts, GraphFacts DEF node
      <4> QED
        BY <1>1, <4>1, PlanFacts DEF IsPlanned, TypedPlan, Fields
    <3> QED
      BY <1>1, <1>11, <3>1, <3>2, <3>3 DEF Received
  <2> QED
    BY <2>1, <2>2
<1>18. Renewal'
  BY <1>1, <1>4, <1>8 DEF Renewal, Fields, s
<1>19. Counted'
  <2>1. CASE edge.collect
    <3>1. ASSUME NEW t \in OnStack
          PROVE  /\ sent'[t] = gathered'[t] \/ Fetched(t)'
                 /\ Fetched(t)' => \E u \in graph.inner[t] : At(u) <= ip
      <4>1. CASE t = active
        BY <1>6, <1>10, <2>1, <4>1 DEF Fetched, TypeOK
      <4>2. CASE t # active
        <5>1. active \in graph.inner[t] /\ At(active) <= ip
          BY <1>6, <2>1, <4>2, OpenFacts DEF Placed, Opened
        <5> QED
          BY <1>2, <1>9, <4>2, <5>1 DEF Counted, Fetched
      <4> QED
        BY <4>1, <4>2
    <3>2. \A t \in Fields \ OnStack : sent'[t] = IF t \in reinit THEN 0 ELSE gathered'[t]
      BY <1>6, <1>9, <2>1 DEF Counted
    <3> QED
      BY <1>1, <1>6, <1>8, <2>1, <3>1, <3>2 DEF Counted, Fields
  <2>2. CASE ~edge.collect
    BY <1>1, <1>7, <1>8, <2>2 DEF Counted, Fetched, Fields
  <2> QED
    BY <2>1, <2>2
<1>20. Fresh'
  <2>1. \A i : Passed(i)' => Passed(i)
    BY <1>1, <1>8, <1>11 DEF Passed, Fields
  <2> QED
    BY <1>1, <1>3, <1>8, <2>1 DEF Fresh, Fields, s
<1> QED
  BY <1>12, <1>13, <1>14, <1>15, <1>16, <1>17, <1>18, <1>19, <1>20

LEMMA TransmitStep ==
  ASSUME Settled, Transmit \/ TransmitKnown
  PROVE  Core'
<1> USE DEF Settled, Core, EngineInv
<1>1. CASE Transmit
  BY <1>1, PassEdge DEF Transmit
<1>2. CASE TransmitKnown
  <2> DEFINE t == edge.src
  <2>1. /\ EdgeDue /\ ~SourceDue /\ edge.field /\ NextEdge /\ Receive(t, cached, Emptied)
        /\ executed' = Marked /\ reinit' = reinit \ {t} /\ SetActive(t) /\ t \in cached \cup exhausted
        /\ UNCHANGED <<restarts, iterators, left, exhausted, handler, stale, sent>>
    BY <1>2 DEF TransmitKnown, FieldEdge, Unfetched
  <2>2. exhausted = {} /\ cached \subseteq OnStack
    BY <2>1 DEF Closing, Counted, EdgeDue
  <2>3. t \in OnStack /\ t \in cached /\ t \notin reinit
    BY <2>1, <2>2 DEF Stacked
  <2>4. t = Top /\ active = t
    BY <2>1, <2>3, FieldEdgeFactsAt
  <2>5. /\ executed' = executed \cup {t} /\ reinit' = reinit /\ Emptied = gathered
        /\ active' = active /\ stack' = stack
    BY <2>1, <2>3, <2>4 DEF Marked, Emptied, SetActive, OnStack
  <2> QED
    BY <2>1, <2>3, <2>4, <2>5, PassEdge
<1> QED
  BY <1>1, <1>2

\* A field whose element is due has none: it is opened, or was opened by an
\* earlier pass, and its collector is empty in a new iteration.
LEMMA FieldOpens ==
  ASSUME Settled, FieldEdge, NEW t, t = edge.src, Unfetched(t), graph' = graph
  PROVE  /\ EdgeDue /\ graph \in Graphs /\ pc = "edges" /\ ip \in Nat /\ ip \in Planned
         /\ t \in Fields /\ t \in Nodes /\ node \in graph.body[t] /\ At(t) < ip /\ ip <= End(t)
         /\ \A u \in graph.inner[t] : ip < At(u)
         /\ \A u \in OnStack : u = t \/ t \in graph.inner[u]
         /\ \A u \in Fields : t \in graph.inner[u] => Live(u)
         /\ ~again /\ exhausted = {} /\ ~Live(t) /\ t \notin cached /\ t \notin stale
         /\ Emptied \in [Nodes -> Nat] /\ sent[t] = Emptied[t]
         /\ \A u \in Fields : u # t => Emptied[u] = gathered[u]
         /\ executed' \subseteq executed \cup {t} /\ graph.receiver[t] \notin executed'
         /\ \A n \in executed \cup {t} : n # graph.receiver[t] => n \in executed'
         /\ reinit' = reinit \ {t}
         /\ Chained' /\ OnStack' = OnStack \cup {t} /\ Top' = t /\ active' = t
<1> USE DEF Settled, Core, EngineInv
<1>1. EdgeDue /\ ~SourceDue /\ edge.field /\ SetActive(t) /\ executed' = Marked /\ reinit' = reinit \ {t}
  BY DEF FieldEdge
<1>2. pc = "edges" /\ ip \in Planned /\ ip \in Nat /\ graph \in Graphs /\ exhausted = {} /\ node = graph.plan[ip]
  BY <1>1, PlanFacts DEF EdgeDue, Closing, TypeOK, node
<1>3. /\ t \in Fields /\ node \in graph.body[t] /\ At(t) < ip /\ ip <= End(t)
      /\ \A u \in graph.inner[t] : ip < At(u)
      /\ t \in OnStack => t = Top /\ active = t
      /\ \A u \in Opened : u = t \/ t \in graph.inner[u]
      /\ \A u \in Fields : t \in graph.inner[u] => Live(u)
  BY <1>1, FieldEdgeFactsAt
<1>4. OnStack \subseteq Opened /\ OnStack \subseteq Fields
  BY OpenFacts DEF Opened
<1>5. ~again /\ t \notin stale /\ t \notin cached
  BY <1>1, FieldBeforeCollect, SourceFresh DEF Unfetched
<1>6. t \in Nodes /\ graph.receiver[t] \notin Fields
  BY <1>2, <1>3, BlockFacts
<1>7. t \in OnStack => sent[t] = gathered[t] /\ t \notin reinit /\ graph.receiver[t] \notin executed
  <2>1. t \in OnStack => sent[t] = gathered[t] \/ Fetched(t)
    BY DEF Counted
  <2>2. ASSUME t \in OnStack, Fetched(t)
        PROVE  FALSE
    <3>1. PICK u \in graph.inner[t] : At(u) <= ip
      BY <1>5, <2>2 DEF Counted
    <3>2. At(u) \in Nat
      BY <1>2, <1>3, BlockFacts
    <3> QED
      BY <1>2, <1>3, <3>1, <3>2
  <2> QED
    BY <2>1, <2>2 DEF Stacked
<1>8. ~Live(t)
  <2>1. gathered[t] \in Nat
    BY <1>6 DEF TypeOK
  <2> QED
    BY <1>5, <1>7, <2>1 DEF Live, Fetched
<1>9. /\ Emptied \in [Nodes -> Nat] /\ sent[t] = Emptied[t]
      /\ \A u \in Fields : u # t => Emptied[u] = gathered[u]
  <2>1. CASE t \in reinit
    <3>1. t \notin OnStack
      BY <1>7, <2>1
    <3>2. sent[t] = 0
      BY <1>3, <2>1, <3>1 DEF Counted
    <3>3. Emptied = [gathered EXCEPT ![t] = 0] /\ gathered \in [Nodes -> Nat] /\ Fields \subseteq Nodes
      BY <1>2, <2>1, GraphFacts DEF Emptied, TypeOK
    <3> QED
      BY <1>6, <3>2, <3>3
  <2>2. CASE t \notin reinit
    <3>1. sent[t] = gathered[t]
      BY <1>3, <1>7, <2>2 DEF Counted
    <3> QED
      BY <2>2, <3>1 DEF Emptied, TypeOK
  <2> QED
    BY <2>1, <2>2
<1>10. FieldOf(node) = t
  <2>1. node \notin Fields
    <3> SUFFICES ASSUME node \in Fields PROVE FALSE
      OBVIOUS
    <3>1. At(node) = ip
      BY <1>2, BlockFacts, PlanFacts
    <3>2. node # t /\ At(t) \in Nat
      BY <1>2, <1>3, <3>1, BlockFacts
    <3>3. node \in graph.inner[t]
      BY <1>2, <1>3, <3>1, <3>2, InnerFacts
    <3> QED
      BY <1>2, <1>3, <3>1, <3>3
  <2>2. \A u \in Fields : node \in graph.body[u] => u = t
    BY <1>2, <1>3, OneBody
  <2>3. t = CHOOSE u \in Fields : node \in graph.body[u]
    BY <1>3, <2>2
  <2> QED
    BY <2>1, <2>3 DEF FieldOf
<1>11. /\ executed' \subseteq executed \cup {t} /\ graph.receiver[t] \notin executed'
       /\ \A n \in executed \cup {t} : n # graph.receiver[t] => n \in executed'
  <2>1. executed' = (executed \cup {t}) \ (IF t \in reinit THEN {graph.receiver[t]} ELSE {})
    BY <1>1, <1>10 DEF Marked
  <2>2. t \notin reinit => graph.receiver[t] \notin executed
    BY <1>3 DEF Renewal
  <2> QED
    BY <1>3, <1>6, <2>1, <2>2
<1>12. Chained' /\ OnStack' = OnStack \cup {t} /\ Top' = t /\ active' = t
  <2>1. \/ t \in OnStack /\ t = Top
        \/ t \notin OnStack /\ \A u \in OnStack : t \in graph.inner[u]
    BY <1>3, <1>4
  <2> QED
    BY <1>1, <1>3, <2>1, PushStack DEF Stacked
<1> QED
  BY <1>1, <1>2, <1>3, <1>4, <1>5, <1>6, <1>8, <1>9, <1>11, <1>12

\* What opening a field leaves as it was.
LEMMA FieldOpened ==
  ASSUME Settled, FieldEdge, NEW t, t = edge.src, Unfetched(t), graph' = graph, ip' = ip,
         iterators' = iterators \cup {t}, handler' \in {t, NoField},
         \A u \in Fields : u # t => (Live(u)' <=> Live(u)),
         (pc' = "edges" /\ Live(t)') \/ pc' = "close"
  PROVE  Stacked' /\ Placed' /\ Waiting' /\ Renewal'
<1> USE DEF Settled, Core, EngineInv
<1>1. /\ EdgeDue /\ graph \in Graphs /\ pc = "edges" /\ ip \in Nat /\ ip \in Planned
      /\ t \in Fields /\ t \in Nodes /\ node \in graph.body[t] /\ At(t) < ip /\ ip <= End(t)
      /\ \A u \in OnStack : u = t \/ t \in graph.inner[u]
      /\ \A u \in Fields : t \in graph.inner[u] => Live(u)
      /\ ~Live(t)
      /\ executed' \subseteq executed \cup {t} /\ graph.receiver[t] \notin executed'
      /\ \A n \in executed \cup {t} : n # graph.receiver[t] => n \in executed'
      /\ reinit' = reinit \ {t}
      /\ Chained' /\ OnStack' = OnStack \cup {t} /\ Top' = t /\ active' = t
  BY FieldOpens
<1>2. OnStack \subseteq Fields /\ OnStack \subseteq Opened /\ Opened' = OnStack \cup {t}
  BY <1>1, OpenFacts DEF Opened
<1>3. \A u : End(u)' = End(u) /\ At(u)' = At(u)
  BY DEF End, At
<1>4. /\ \A u \in Fields : At(u) \in Nat /\ End(u) \in Nat /\ graph.receiver[u] \notin Fields
      /\ \A u \in Fields : graph.receiver[u] = graph.receiver[t] => u = t
  BY <1>1, BlockFacts, NestFacts
<1>5. \A u \in Fields : Live(u) => Live(u)'
  BY <1>1
<1>6. Stacked'
  <2>1. iterators' = OnStack'
    BY <1>1 DEF Stacked
  <2>2. ASSUME NEW u \in OnStack'
        PROVE  u \in executed' /\ graph.receiver[u] \notin executed' /\ u \notin reinit'
    <3>1. u \in Fields /\ u # graph.receiver[t] /\ graph.receiver[u] # t
      BY <1>1, <1>2, <1>4
    <3>2. CASE u = t
      BY <1>1, <3>1, <3>2
    <3>3. CASE u # t
      <4>1. u \in executed /\ graph.receiver[u] \notin executed /\ u \notin reinit
        BY <1>1, <3>3 DEF Stacked
      <4> QED
        BY <1>1, <3>1, <4>1
    <3> QED
      BY <3>2, <3>3
  <2>3. handler' # NoField => handler' = active' /\ active' = Top'
    BY <1>1
  <2> QED
    BY <1>1, <2>1, <2>2, <2>3 DEF Stacked
<1>7. Placed'
  <2>1. ASSUME NEW u \in Opened'
        PROVE  /\ At(u) <= ip /\ ip <= End(u) /\ ip # At(u)
               /\ \A v \in Fields : u \in graph.inner[v] => Live(v)
    <3>1. CASE u = t
      BY <1>1, <1>4, <3>1
    <3>2. CASE u # t
      BY <1>1, <1>2, <3>2 DEF Placed
    <3> QED
      BY <3>1, <3>2
  <2>2. OnStack' \subseteq Opened'
    BY <1>1, <1>2
  <2> QED
    BY <1>3, <1>5, <2>1, <2>2 DEF Placed, Fields
<1>8. Waiting'
  <2> SUFFICES ASSUME NEW u \in Fields, ~Live(u)'
               PROVE  /\ executed' \cap graph.body[u] \subseteq {graph.receiver[u]}
                      /\ ip <= End(u) /\ graph.body[u] = {graph.receiver[u]} =>
                           graph.receiver[u] \notin executed'
                      /\ Holds(graph, u, ip) /\ (pc' = "close" => u # t) =>
                           \A i \in 1..(ip - 1) : graph.plan[i] \notin graph.body[u]
    BY <1>1, <1>3 DEF Waiting, Fields
  <2>1. ~Live(u)
    BY <1>5
  <2>2. /\ executed \cap graph.body[u] \subseteq {graph.receiver[u]}
        /\ ip <= End(u) /\ graph.body[u] = {graph.receiver[u]} =>
             graph.receiver[u] \notin executed
        /\ Holds(graph, u, ip) => \A i \in 1..(ip - 1) : graph.plan[i] \notin graph.body[u]
    BY <1>1, <2>1 DEF Waiting
  <2>3. t \in graph.body[u] => t = graph.receiver[u]
    BY <1>1, <2>1, SourcePlaced
  <2>4. t # graph.receiver[u]
    BY <1>1, <1>4
  <2> QED
    BY <1>1, <2>2, <2>3, <2>4
<1>9. Renewal'
  <2> SUFFICES ASSUME NEW u \in Fields
               PROVE  /\ graph.receiver[u] \in executed' => u \in reinit'
                      /\ ip > End(u) /\ (\A v \in Fields : u \in graph.inner[v] => ip <= End(v))
                           => u \in reinit'
    BY <1>3 DEF Renewal, Fields
  <2>1. CASE u = t
    BY <1>1, <1>4, <2>1
  <2>2. CASE u # t
    BY <1>1, <1>4, <2>2 DEF Renewal
  <2> QED
    BY <2>1, <2>2
<1> QED
  BY <1>6, <1>7, <1>8, <1>9

\* The field yields an element.
LEMMA NextStep ==
  ASSUME Settled, TransmitNext
  PROVE  Core'
<1> USE DEF Settled, Core, EngineInv
<1>1. PICK t : t = edge.src
  OBVIOUS
<1>2. /\ FieldEdge /\ Unfetched(t) /\ NextEdge /\ Receive(t, cached \cup {t}, Emptied)
      /\ iterators' = iterators \cup {t} /\ handler' = t /\ stale' = stale \cup Within(t)
      /\ sent' = [sent EXCEPT ![t] = @ + 1] /\ exhausted' = exhausted
  BY <1>1 DEF TransmitNext
<1>3. pc' = "edges" /\ ip' = ip /\ graph' = graph /\ e' = e + 1
  <2>1. pc' = pc /\ EdgeDue
    BY <1>2 DEF NextEdge, FieldEdge
  <2> QED
    BY <1>2, <2>1 DEF NextEdge, EdgeDue
<1>4. /\ EdgeDue /\ graph \in Graphs /\ pc = "edges" /\ ip \in Nat /\ ip \in Planned
      /\ t \in Fields /\ t \in Nodes /\ node \in graph.body[t] /\ At(t) < ip /\ ip <= End(t)
      /\ \A u \in graph.inner[t] : ip < At(u)
      /\ \A u \in OnStack : u = t \/ t \in graph.inner[u]
      /\ \A u \in Fields : t \in graph.inner[u] => Live(u)
      /\ ~again /\ exhausted = {} /\ ~Live(t) /\ t \notin cached /\ t \notin stale
      /\ Emptied \in [Nodes -> Nat] /\ sent[t] = Emptied[t]
      /\ \A u \in Fields : u # t => Emptied[u] = gathered[u]
      /\ executed' \subseteq executed \cup {t} /\ graph.receiver[t] \notin executed'
      /\ reinit' = reinit \ {t}
      /\ OnStack' = OnStack \cup {t} /\ Top' = t /\ active' = t
  BY <1>1, <1>2, <1>3, FieldOpens
<1>5. /\ OnStack \subseteq Fields /\ Fields \subseteq Nodes /\ t # NoField /\ t \notin exhausted
      /\ sent \in [Nodes -> Nat]
  BY <1>4, OpenFacts, GraphFacts DEF TypeOK
<1>6. /\ edge = graph.edges[node][e] /\ edge.field /\ node' = node /\ e \in Nat /\ e >= 1
      /\ e \in 1..Len(graph.edges[node])
  BY <1>2, <1>3, <1>4 DEF edge, FieldEdge, node, TypeOK, EdgeDue
<1>7. ASSUME edge.collect
      PROVE  /\ again' = TRUE /\ cached' = {} /\ node = graph.receiver[t]
             /\ gathered' = [Emptied EXCEPT ![t] = @ + 1]
  <2>1. Collected(node) = t /\ node = graph.receiver[t]
    BY <1>1, <1>4, <1>6, <1>7, CollectFacts
  <2> QED
    BY <1>2, <1>5, <1>7, <2>1 DEF Receive
<1>8. ASSUME ~edge.collect
      PROVE  again' = FALSE /\ cached' = cached \cup {t} /\ gathered' = Emptied
  BY <1>2, <1>4, <1>8 DEF Receive
<1>9. /\ \A u : End(u)' = End(u) /\ At(u)' = At(u) /\ Within(u)' = Within(u)
      /\ \A u \in Fields : At(u) \in Nat /\ End(u) \in Nat
  BY <1>3, <1>4, BlockFacts DEF End, At, Within
<1>10. /\ \A u \in Fields : u # t => sent'[u] = sent[u] /\ gathered'[u] = gathered[u]
       /\ sent'[t] \in Nat /\ gathered'[t] \in Nat
       /\ edge.collect => sent'[t] = gathered'[t]
       /\ ~edge.collect => sent'[t] = gathered'[t] + 1
  <2>1. sent'[t] = sent[t] + 1 /\ \A u \in Fields : u # t => sent'[u] = sent[u]
    BY <1>2, <1>4, <1>5
  <2>2. /\ edge.collect => gathered'[t] = Emptied[t] + 1
        /\ ~edge.collect => gathered'[t] = Emptied[t]
        /\ \A u \in Fields : u # t => gathered'[u] = gathered[u]
    BY <1>4, <1>5, <1>7, <1>8
  <2>3. sent[t] \in Nat /\ Emptied[t] \in Nat
    BY <1>4, <1>5
  <2> QED
    BY <1>4, <2>1, <2>2, <2>3
<1>11. /\ \A u \in Fields : u # t => (Fetched(u)' <=> Fetched(u)) /\ (Live(u)' <=> Live(u))
       /\ ~edge.collect <=> Fetched(t)'
       /\ Live(t)'
  <2>1. \A u \in Fields : u # t => (Fetched(u)' <=> Fetched(u))
    BY <1>10 DEF Fetched
  <2>2. ~edge.collect <=> Fetched(t)'
    BY <1>10 DEF Fetched
  <2>3. \A u \in Fields : u # t => (Live(u)' <=> Live(u))
    BY <1>4, <2>1 DEF Live
  <2>4. Live(t)'
    BY <1>4, <1>7, <2>2 DEF Live
  <2> QED
    BY <2>1, <2>2, <2>3, <2>4
<1>12. Stacked' /\ Placed' /\ Waiting' /\ Renewal'
  BY <1>1, <1>2, <1>3, <1>11, FieldOpened
<1>13. Pausing'
  <2> SUFFICES ASSUME again' PROVE Pausing'
    BY DEF Pausing
  <2>1. edge.collect
    BY <1>8
  <2>2. e \in 1..((e + 1) - 1)
    BY <1>6
  <2> QED
    BY <1>3, <1>4, <1>6, <1>7, <1>10, <2>1, <2>2 DEF Pausing, Fields
<1>14. Closing'
  BY <1>2, <1>3, <1>4 DEF Closing
<1>15. Received'
  <2> SUFFICES ASSUME NEW i \in 1..((e + 1) - 1)
               PROVE  /\ graph.edges[node][i].field => Live(graph.edges[node][i].src)'
                      /\ graph.edges[node][i].collect => again'
    BY <1>3, <1>6 DEF Received
  <2>1. CASE i = e
    <3>1. Live(graph.edges[node][i].src)'
      <4>1. graph'.edges[node'][i].src = t
        BY <1>1, <1>3, <1>6, <2>1
      <4> QED
        BY <1>3, <1>6, <1>11, <4>1
    <3> QED
      BY <1>6, <1>7, <2>1, <3>1
  <2>2. CASE i # e
    <3>1. i \in 1..(e - 1)
      BY <1>6, <2>2
    <3>2. ~graph.edges[node][i].collect
      BY <1>4, <3>1 DEF Received
    <3>3. ASSUME graph.edges[node][i].field
          PROVE  Live(graph.edges[node][i].src)'
      <4>1. PICK u : u = graph.edges[node][i].src
        OBVIOUS
      <4>2. Live(u) /\ u \in Fields
        <5>1. Live(u)
          BY <1>4, <3>1, <3>3, <4>1 DEF Received
        <5> QED
          BY <1>5, <5>1 DEF Live
      <4>3. Live(u)'
        BY <1>11, <4>2
      <4>4. graph'.edges[node'][i].src = u
        BY <1>3, <1>6, <4>1
      <4> QED
        BY <4>3, <4>4
    <3> QED
      BY <3>2, <3>3
  <2> QED
    BY <2>1, <2>2
<1>16. Counted'
  <2>1. cached' \subseteq OnStack' /\ \A u \in cached' : u # t => u \in cached
    BY <1>4, <1>7, <1>8 DEF Counted
  <2>2. ASSUME NEW u \in OnStack'
        PROVE  /\ sent'[u] = gathered'[u] \/ Fetched(u)'
               /\ u \in cached' => Fetched(u)'
               /\ Fetched(u)' /\ u \notin cached' => \E v \in graph.inner[u] : At(v) <= ip
    <3>1. CASE u = t
      BY <1>7, <1>8, <1>10, <1>11, <3>1
    <3>2. CASE u # t
      <4>1. u \in OnStack /\ u \in Fields /\ t \in graph.inner[u] /\ At(t) <= ip
        BY <1>4, <1>5, <1>9, <3>2
      <4>2. sent[u] = gathered[u] \/ Fetched(u)
        BY <4>1 DEF Counted
      <4>3. u \in cached => Fetched(u)
        BY <1>4, <4>1 DEF Counted
      <4> QED
        BY <1>10, <1>11, <2>1, <3>2, <4>1, <4>2, <4>3
    <3> QED
      BY <3>1, <3>2
  <2>3. \A u \in Fields \ OnStack' : sent'[u] = IF u \in reinit' THEN 0 ELSE gathered'[u]
    BY <1>4, <1>10 DEF Counted
  <2> QED
    BY <1>3, <1>9, <2>1, <2>2, <2>3 DEF Counted, Fields
<1>17. Fresh'
  <2>1. \A i \in 1..(ip - 1) : graph.plan[i] \notin Within(t)
    BY <1>4, WaitingFacts
  <2>2. ASSUME NEW i \in 1..(ip - 1), graph.edges[graph.plan[i]] # <<>>, Passed(i)'
        PROVE  graph.plan[i] \notin stale'
    <3>1. Passed(i)
      BY <1>3, <1>9, <1>11, <2>1, <2>2 DEF Passed, Fields
    <3> QED
      BY <1>2, <2>1, <2>2, <3>1 DEF Fresh
  <2>3. ASSUME NEW n \in executed' \cap stale'
        PROVE  \E u \in Fields \ OnStack' : n = graph.receiver[u]
    <3>1. CASE n \in stale
      <4>1. n \in executed
        BY <1>4, <3>1
      <4>2. PICK u \in Fields \ OnStack : n = graph.receiver[u]
        BY <3>1, <4>1 DEF Fresh
      <4> QED
        BY <1>4, <4>2
    <3>2. CASE n \in graph.body[t]
      <4>1. n \in executed
        BY <1>4, <3>2, BodyFacts, BlockFacts
      <4>2. n = graph.receiver[t]
        BY <1>4, <3>2, <4>1 DEF Waiting
      <4> QED
        BY <1>4, <4>2
    <3>3. ASSUME NEW u \in graph.inner[t], n \in graph.body[u]
          PROVE  \E v \in Fields \ OnStack' : n = graph.receiver[v]
      <4>1. u \in Fields /\ u # t /\ t \notin graph.inner[u] /\ At(t) < At(u)
        BY <1>4, BlockFacts, NestFacts
      <4>2. u \notin OnStack /\ ~Live(u)
        BY <1>4, <4>1 DEF Live
      <4>3. n # t
        <5> SUFFICES ASSUME n = t PROVE FALSE
          OBVIOUS
        <5>1. At(u) < At(t)
          BY <1>4, <3>3, <4>1, BodyFacts, BlockFacts
        <5> QED
          BY <1>4, <1>9, <4>1, <5>1
      <4>4. n = graph.receiver[u]
        BY <1>4, <3>3, <4>1, <4>2, <4>3 DEF Waiting
      <4> QED
        BY <1>4, <4>1, <4>2, <4>4
    <3> QED
      BY <1>2, <3>1, <3>2, <3>3 DEF Within, NodesOf
  <2> QED
    BY <1>3, <2>2, <2>3 DEF Fresh, Fields
<1> QED
  BY <1>12, <1>13, <1>14, <1>15, <1>16, <1>17

\* The iterator has no element left, when the field opens or in a later pass.
LEMMA ExhaustStep ==
  ASSUME Settled, Exhaust
  PROVE  Core'
<1> USE DEF Settled, Core, EngineInv
<1>1. PICK t : t = edge.src
  OBVIOUS
<1>2. /\ FieldEdge /\ Unfetched(t) /\ Cleanup(t) /\ gathered' = Emptied
      /\ iterators' = iterators \cup {t} /\ UNCHANGED <<cached, stale, sent>>
  BY <1>1 DEF Exhaust
<1>3. /\ pc' = "close" /\ ip' = ip /\ graph' = graph /\ handler' = NoField /\ ~again'
      /\ exhausted' = exhausted \cup {t}
  BY <1>2 DEF Cleanup
<1>4. /\ EdgeDue /\ graph \in Graphs /\ pc = "edges" /\ ip \in Nat
      /\ t \in Fields /\ t \in Nodes /\ At(t) < ip /\ ip <= End(t)
      /\ \A u \in OnStack : u = t \/ t \in graph.inner[u]
      /\ ~again /\ exhausted = {} /\ ~Live(t) /\ t \notin cached /\ t \notin stale
      /\ Emptied \in [Nodes -> Nat] /\ sent[t] = Emptied[t]
      /\ \A u \in Fields : u # t => Emptied[u] = gathered[u]
      /\ executed' \subseteq executed \cup {t} /\ graph.receiver[t] \notin executed'
      /\ reinit' = reinit \ {t}
      /\ OnStack' = OnStack \cup {t} /\ Top' = t /\ active' = t
  BY <1>1, <1>2, <1>3, FieldOpens
<1>5. OnStack \subseteq Fields
  BY OpenFacts
<1>6. /\ \A u : End(u)' = End(u) /\ At(u)' = At(u) /\ Within(u)' = Within(u)
      /\ \A u \in Fields : At(u) \in Nat /\ End(u) \in Nat
  BY <1>3, <1>4, BlockFacts DEF End, At, Within
<1>7. /\ \A u \in Fields : u # t => (Fetched(u)' <=> Fetched(u)) /\ (Live(u)' <=> Live(u))
      /\ ~Fetched(t)' /\ ~Live(t)' /\ sent'[t] = gathered'[t]
  <2>1. \A u \in Fields : u # t => (Fetched(u)' <=> Fetched(u))
    BY <1>2, <1>4 DEF Fetched
  <2>2. sent'[t] = gathered'[t] /\ gathered'[t] \in Nat
    BY <1>2, <1>4
  <2>3. ~Fetched(t)'
    BY <2>2 DEF Fetched
  <2> QED
    BY <1>3, <1>4, <2>1, <2>2, <2>3 DEF Live
<1>8. Stacked' /\ Placed' /\ Waiting' /\ Renewal'
  BY <1>1, <1>2, <1>3, <1>7, FieldOpened
<1>9. Pausing' /\ Received'
  BY <1>3 DEF Pausing, Received
<1>10. Closing'
  <2>1. Holds(graph, t, ip)
    BY <1>4 DEF Holds, At, End
  <2> QED
    BY <1>3, <1>4, <1>7, <2>1 DEF Closing
<1>11. Counted'
  <2>1. ASSUME NEW u \in OnStack'
        PROVE  /\ sent'[u] = gathered'[u] \/ Fetched(u)'
               /\ u \in cached' => Fetched(u)'
               /\ Fetched(u)' /\ u \notin cached' => \E v \in graph.inner[u] : At(v) <= ip
    <3>1. CASE u = t
      BY <1>2, <1>4, <1>7, <3>1
    <3>2. CASE u # t
      BY <1>2, <1>4, <1>5, <1>7, <3>2 DEF Counted
    <3> QED
      BY <3>1, <3>2
  <2>2. \A u \in Fields \ OnStack' : sent'[u] = IF u \in reinit' THEN 0 ELSE gathered'[u]
    BY <1>2, <1>4 DEF Counted
  <2>3. cached' \subseteq OnStack'
    BY <1>2, <1>4 DEF Counted
  <2> QED
    BY <1>3, <1>6, <2>1, <2>2, <2>3 DEF Counted, Fields
<1>12. Fresh'
  <2>1. ASSUME NEW i, Passed(i)'
        PROVE  Passed(i)
    BY <1>3, <1>4, <1>6, <1>7, <2>1 DEF Passed, Fields
  <2>2. ASSUME NEW n \in executed' \cap stale'
        PROVE  \E u \in Fields \ OnStack' : n = graph.receiver[u]
    <3>1. n \in executed /\ n \in stale
      BY <1>2, <1>4
    <3>2. PICK u \in Fields \ OnStack : n = graph.receiver[u]
      BY <3>1 DEF Fresh
    <3> QED
      BY <1>4, <3>2
  <2> QED
    BY <1>2, <1>3, <2>1, <2>2 DEF Fresh, Fields
<1> QED
  BY <1>8, <1>9, <1>10, <1>11, <1>12

-----------------------------------------------------------------------------
(***************************************************************************)
(* The end of a field.                                                     *)
(***************************************************************************)
\* The handler leaves the field: its receiver runs on what was collected.
LEMMA ExitStep ==
  ASSUME Settled, Exit
  PROVE  Core'
<1> USE DEF Settled, Core, EngineInv
<1>1. PICK a : a = active
  OBVIOUS
<1>2. /\ AllReceived /\ pc = "edges" /\ a \in Fields /\ a = Top /\ handler # NoField /\ ip \in Nat
      /\ graph \in Graphs /\ exhausted = {}
  BY <1>1, PlanFacts DEF Exit, Handled, AllReceived, Stacked, Open, TypeOK, Closing
<1>3. /\ pc' = "close" /\ ip' = ip /\ graph' = graph /\ handler' = NoField /\ ~again'
      /\ exhausted' = exhausted \cup {a} /\ executed' = executed \ graph.body[a]
      /\ sent' = [sent EXCEPT ![a] = gathered[a]]
      /\ UNCHANGED <<active, stack, iterators, cached, reinit, stale, gathered>>
  BY <1>1 DEF Exit, Handled, Cleanup
<1>4. /\ OnStack \subseteq Fields /\ a \in OnStack /\ Opened = OnStack
      /\ \A u \in OnStack : u = a \/ a \in graph.inner[u]
  BY <1>1, <1>2, OpenFacts DEF Opened
<1>5. /\ OnStack' = OnStack /\ Opened' = Opened /\ Top' = Top
      /\ \A u : End(u)' = End(u) /\ At(u)' = At(u) /\ Within(u)' = Within(u)
      /\ \A u \in Fields : At(u) \in Nat /\ End(u) \in Nat
  BY <1>2, <1>3, BlockFacts DEF OnStack, Opened, Top, End, At, Within
<1>6. \A u \in OnStack : \A v \in Fields : u \in graph.inner[v] => v # a
  <2>1. \A u \in OnStack : u \notin graph.inner[a]
    BY <1>2, <1>4, NestFacts
  <2> QED
    BY <2>1
<1>7. /\ \A u \in Fields : u # a => sent'[u] = sent[u]
      /\ sent'[a] = gathered[a] /\ gathered[a] \in Nat
  BY <1>2, <1>3, BlockFacts DEF TypeOK
<1>8. /\ \A u \in Fields : u # a => (Fetched(u)' <=> Fetched(u)) /\ (Live(u)' <=> Live(u))
      /\ ~Fetched(a)' /\ ~Live(a)'
  <2>1. \A u \in Fields : u # a => (Fetched(u)' <=> Fetched(u))
    BY <1>3, <1>7 DEF Fetched
  <2>2. ~Fetched(a)'
    BY <1>3, <1>7 DEF Fetched
  <2> QED
    BY <1>1, <1>3, <1>5, <2>1, <2>2 DEF Live
<1>9. Stacked'
  <2>1. ASSUME NEW u \in OnStack
        PROVE  u \in executed'
    <3>1. u \in executed /\ u \in Fields
      BY <1>4 DEF Stacked
    <3>2. u \notin graph.body[a]
      <4> SUFFICES ASSUME u \in graph.body[a] PROVE FALSE
        OBVIOUS
      <4>1. At(a) < At(u) /\ At(u) <= End(a)
        BY <1>2, <3>1, BodyFacts, BlockFacts
      <4>2. u \in graph.inner[a]
        BY <1>2, <1>5, <3>1, <4>1, InnerFacts
      <4> QED
        BY <1>2, <1>6, <4>2
    <3> QED
      BY <1>3, <3>1, <3>2
  <2>2. ASSUME NEW u \in OnStack
        PROVE  graph.receiver[u] \notin executed' /\ u \notin reinit'
    BY <1>3 DEF Stacked
  <2> QED
    BY <1>1, <1>2, <1>3, <1>5, <2>1, <2>2 DEF Stacked, Chained
<1>10. Placed'
  <2>1. ASSUME NEW u \in Opened, NEW v \in Fields, u \in graph.inner[v]
        PROVE  Live(v)'
    BY <1>4, <1>6, <1>8, <2>1 DEF Placed
  <2>2. \A u \in OnStack : ip # At(u)
    BY <1>2 DEF Placed
  <2> QED
    BY <1>3, <1>5, <2>1, <2>2 DEF Placed, Fields
<1>11. Pausing' /\ Received'
  BY <1>3 DEF Pausing, Received
<1>12. Closing'
  <2>1. At(a) < ip /\ ip <= End(a)
    BY <1>2, <1>4, <1>5 DEF Placed
  <2>2. Holds(graph, a, ip)
    BY <2>1 DEF Holds, At, End
  <2> QED
    BY <1>1, <1>2, <1>3, <1>5, <1>7, <2>2 DEF Closing
<1>13. Waiting'
  <2> SUFFICES ASSUME NEW u \in Fields, ~Live(u)'
               PROVE  /\ executed' \cap graph.body[u] \subseteq {graph.receiver[u]}
                      /\ ip <= End(u) /\ graph.body[u] = {graph.receiver[u]} =>
                           graph.receiver[u] \notin executed'
                      /\ Holds(graph, u, ip) /\ u # a =>
                           \A i \in 1..(ip - 1) : graph.plan[i] \notin graph.body[u]
    BY <1>1, <1>3, <1>5 DEF Waiting, Fields
  <2>1. CASE u = a
    BY <1>2, <1>3, <2>1, BlockFacts
  <2>2. CASE u # a
    BY <1>2, <1>3, <1>8, <2>2 DEF Waiting
  <2> QED
    BY <2>1, <2>2
<1>14. Renewal'
  BY <1>3, <1>5 DEF Renewal, Fields
<1>15. Counted'
  <2>1. ASSUME NEW u \in OnStack
        PROVE  /\ sent'[u] = gathered'[u] \/ Fetched(u)'
               /\ u \in cached' /\ u \notin exhausted' => Fetched(u)'
               /\ Fetched(u)' /\ u \notin cached' => \E v \in graph.inner[u] : At(v) <= ip
    <3>1. CASE u = a
      BY <1>3, <1>7, <1>8, <3>1
    <3>2. CASE u # a
      BY <1>2, <1>3, <1>4, <1>7, <1>8, <3>2 DEF Counted
    <3> QED
      BY <3>1, <3>2
  <2>2. \A u \in Fields \ OnStack : sent'[u] = IF u \in reinit THEN 0 ELSE gathered[u]
    BY <1>4, <1>7 DEF Counted
  <2> QED
    BY <1>3, <1>5, <2>1, <2>2 DEF Counted, Fields
<1>16. Fresh'
  <2>1. ASSUME NEW i, Passed(i)'
        PROVE  Passed(i)
    BY <1>2, <1>3, <1>5, <1>8, <2>1 DEF Passed, Fields
  <2> QED
    BY <1>3, <1>5, <2>1 DEF Fresh, Fields
<1> QED
  BY <1>9, <1>10, <1>11, <1>12, <1>13, <1>14, <1>15, <1>16

\* What the receiver of a closing field takes besides what it collected comes
\* from its field or has run before it, on the elements of the enclosing fields.
LEMMA OtherFacts ==
  ASSUME Settled, pc = "close", NEW s \in OtherSources, s \notin Within(active) \cup {active}
  PROVE  /\ s \notin stale
         /\ \A u \in Fields : s = graph.receiver[u] => End(u) < ip /\ u \in reinit
         /\ \A u \in Fields : s \in graph.body[u] /\ s # graph.receiver[u] => Live(u)
<1> USE DEF Settled, Core, EngineInv
<1>1. PICK a : a = active
  OBVIOUS
<1>2. /\ graph \in Graphs /\ a \in Fields /\ a = Top /\ a \in Opened /\ ip \in Nat
      /\ Holds(graph, a, ip) /\ ip \in 1..(Len(graph.plan) + 1) /\ Len(graph.plan) \in Nat
  <2>1. a = Top /\ Holds(graph, a, ip) /\ a \in Fields
    BY <1>1 DEF TypeOK, Closing
  <2>2. a \in Opened
    BY <1>1, <2>1, OpenFacts DEF Opened
  <2> QED
    BY <2>1, <2>2, PlanFacts DEF TypeOK
<1>3. At(a) < ip /\ ip <= End(a) /\ At(a) \in Nat /\ End(a) \in Nat
  BY <1>2, BlockFacts DEF Holds, At, End
<1>4. /\ graph.edges[s] # <<>>
      /\ \E k \in 1..(At(a) - 1) :
           /\ graph.plan[k] = s
           /\ \A u \in Fields : Holds(graph, u, k) /\ k # End(u) => a \in graph.inner[u]
  <2>1. PICK i \in 1..Len(graph.edges[graph.receiver[a]]) :
           ~graph.edges[graph.receiver[a]][i].collect /\ graph.edges[graph.receiver[a]][i].src = s
    BY <1>1 DEF OtherSources, Others, closing
  <2>2. s \notin NodesOf(graph, a) \cup {a}
    BY <1>1 DEF Within
  <2> QED
    BY <1>2, <2>1, <2>2 DEF Apart, OthersSettled, At, End, Fields
<1>5. PICK k \in 1..(At(a) - 1) :
        /\ graph.plan[k] = s
        /\ \A u \in Fields : Holds(graph, u, k) /\ k # End(u) => a \in graph.inner[u]
  BY <1>4
<1>6. k \in 1..(ip - 1) /\ k \in Planned /\ k < ip
  BY <1>2, <1>3 DEF Planned
<1>7. ASSUME NEW u \in Fields, Holds(graph, u, k), k # End(u)
      PROVE  ip <= End(u) /\ Live(u)
  <2>1. a \in graph.inner[u]
    BY <1>5, <1>7
  <2>2. End(a) < End(u) /\ End(u) \in Nat
    BY <1>2, <2>1, NestFacts, BlockFacts
  <2> QED
    BY <1>2, <1>3, <2>1, <2>2 DEF Placed
<1>8. s \notin stale
  <2>1. Passed(k)
    BY <1>7 DEF Passed
  <2> QED
    BY <1>4, <1>5, <1>6, <2>1 DEF Fresh
<1>9. ASSUME NEW u \in Fields, s = graph.receiver[u]
      PROVE  End(u) < ip /\ u \in reinit
  <2>1. k = End(u) /\ At(u) < End(u) /\ At(u) \in Nat
    BY <1>2, <1>5, <1>6, <1>9, BlockFacts, PlanFacts
  <2>2. ASSUME NEW v \in Fields, u \in graph.inner[v]
        PROVE  ip <= End(v)
    <3>1. At(v) < At(u) /\ End(u) < End(v) /\ At(v) \in Nat /\ End(v) \in Nat
      BY <1>2, <2>2, NestFacts, BlockFacts
    <3>2. Holds(graph, v, k) /\ k # End(v)
      BY <1>6, <2>1, <3>1 DEF Holds, At, End
    <3> QED
      BY <1>7, <3>2
  <2> QED
    BY <1>6, <2>1, <2>2 DEF Renewal
<1>10. ASSUME NEW u \in Fields, s \in graph.body[u], s # graph.receiver[u]
       PROVE  Live(u)
  <2>1. At(u) < k /\ k <= End(u) /\ graph.plan[End(u)] = graph.receiver[u]
    BY <1>2, <1>5, <1>6, <1>10, BodyFacts, BlockFacts
  <2>2. Holds(graph, u, k) /\ k # End(u)
    BY <1>5, <1>10, <2>1 DEF Holds, At, End
  <2> QED
    BY <1>7, <2>2
<1> QED
  BY <1>8, <1>9, <1>10

LEMMA CloseField ==
  ASSUME Settled, Close
  PROVE  Core'
<1> USE DEF Settled, Core, EngineInv
<1>1. PICK a : a = active
  OBVIOUS
<1>2. /\ pc = "close" /\ graph \in Graphs /\ a \in Fields /\ a = Top /\ stack # <<>> /\ ip \in Nat
      /\ exhausted = {a} /\ sent[a] = gathered[a] /\ Holds(graph, a, ip) /\ ~again /\ handler = NoField
      /\ closing = graph.receiver[a]
  BY <1>1, PlanFacts DEF Close, TypeOK, Closing, Open, Fields, closing
<1>3. /\ OnStack \subseteq Fields /\ a \in OnStack /\ a \in Opened /\ NoField \notin Fields
      /\ \A u \in OnStack : u = a \/ a \in graph.inner[u]
  BY <1>1, <1>2, OpenFacts DEF Opened
<1>4. /\ At(a) < ip /\ ip <= End(a)
      /\ \A u \in Fields : At(u) \in Nat /\ End(u) \in Nat /\ At(u) < End(u)
      /\ graph.plan[End(a)] = closing /\ closing \in graph.body[a] /\ End(a) \in Planned
      /\ \A u \in Fields : graph.receiver[u] = closing => u = a
  BY <1>2, BlockFacts, NestFacts DEF Holds, At, End
<1>5. closing \notin executed
  BY <1>2, <1>3 DEF Stacked
<1>6. ip' = End(a) + 1
  <2>1. End(a) = CHOOSE i \in Planned : graph.plan[i] = closing
    BY <1>2 DEF End, EndOf, Planned
  <2> QED
    BY <2>1 DEF Close, Behind
<1>7. /\ pc' = "loop" /\ graph' = graph /\ ~again' /\ handler' = NoField
      /\ stale' = stale \ {closing}
      /\ iterators' = iterators \ {a} /\ active' = Below /\ stack' = Pop
      /\ reinit' = reinit \cup {a} /\ exhausted' = {} /\ cached' = cached \ ({a} \cup graph.inner[a])
      /\ sent' = [sent EXCEPT ![a] = 0] /\ gathered' = gathered
  BY <1>1, <1>2, <1>5 DEF Close, Renewed
<1>8. Chained' /\ OnStack' = OnStack \ {a} /\ Top' = Below
  BY <1>2, <1>7, PopStack DEF Stacked
<1>9. active' = Top' /\ Opened' = OnStack'
  <2>1. Top' \in OnStack' \cup {NoField}
    <3>1. stack' \in Seq(Fields)
      BY <1>7, PopFacts
    <3> QED
      BY <3>1 DEF Top, OnStack, Elements
  <2> QED
    BY <1>7, <1>8, <2>1 DEF Opened
<1>10. \A u : End(u)' = End(u) /\ At(u)' = At(u) /\ Within(u)' = Within(u)
  BY <1>7 DEF End, At, Within
<1>11. /\ \A u \in Fields : u # a => sent'[u] = sent[u]
       /\ sent'[a] = 0
  BY <1>2, <1>7, BlockFacts DEF TypeOK
<1>12. /\ \A u \in Fields : u # a => (Fetched(u)' <=> Fetched(u)) /\ (Live(u)' <=> Live(u))
       /\ ~Live(a)'
  <2>1. \A u \in Fields : u # a => (Fetched(u)' <=> Fetched(u))
    BY <1>7, <1>11 DEF Fetched
  <2> QED
    BY <1>2, <1>7, <1>8, <2>1 DEF Live
<1>13. \A u \in OnStack' : u \in OnStack /\ u \in Fields /\ u # a /\ a \in graph.inner[u] /\ u \notin graph.inner[a]
  BY <1>2, <1>3, <1>8, NestFacts
<1>14. graph.body[a] \subseteq Within(a)
  BY DEF Within, NodesOf
<1>15. /\ executed' \subseteq executed \cup OtherSources
       /\ executed' \cap Within(a) = {}
       /\ \A n \in executed : n \notin Within(a) => n \in executed'
  BY <1>1, <1>2, <1>4, <1>14 DEF Close, Ready
<1>16. \A n \in executed' : n \in executed \/ (n \in OtherSources /\ n \notin Within(a) \cup {a})
  BY <1>3, <1>15 DEF Stacked
<1>17. ASSUME NEW n \in executed', n \notin executed
       PROVE  /\ n \notin stale
              /\ \A u \in Fields : n = graph.receiver[u] => End(u) < ip /\ u \in reinit
              /\ \A u \in Fields : n \in graph.body[u] /\ n # graph.receiver[u] => Live(u)
  BY <1>1, <1>2, <1>16, <1>17, OtherFacts
<1>18. Stacked'
  <2>1. ASSUME NEW u \in OnStack'
        PROVE  u \in executed' /\ graph.receiver[u] \notin executed' /\ u \notin reinit'
    <3>1. u \in executed /\ graph.receiver[u] \notin executed /\ u \notin reinit
      BY <1>13 DEF Stacked
    <3>2. u \notin Within(a)
      <4> SUFFICES ASSUME NEW v \in {a} \cup graph.inner[a], u \in graph.body[v] PROVE FALSE
        BY DEF Within, NodesOf
      <4>1. v \in Fields /\ At(a) <= At(v) /\ End(v) <= End(a)
        BY <1>2, <1>4, BlockFacts, NestFacts
      <4>2. At(v) < At(u) /\ At(u) <= End(v)
        BY <1>2, <1>13, <4>1, BodyFacts, BlockFacts
      <4>3. At(a) <= At(u) /\ At(u) <= End(a)
        BY <1>2, <1>4, <1>13, <4>1, <4>2
      <4> QED
        BY <1>2, <1>13, <4>3, InnerFacts
    <3> QED
      BY <1>7, <1>13, <1>15, <1>17, <3>1, <3>2
  <2>2. iterators' = OnStack'
    BY <1>7, <1>8 DEF Stacked
  <2> QED
    BY <1>7, <1>8, <1>9, <2>1, <2>2 DEF Stacked
<1>19. Placed'
  <2>1. ASSUME NEW u \in OnStack'
        PROVE  /\ At(u) <= End(a) + 1 /\ End(a) + 1 <= End(u)
               /\ \A v \in Fields : u \in graph.inner[v] => Live(v)'
    <3>1. At(u) < At(a) /\ End(a) < End(u)
      BY <1>2, <1>13, NestFacts
    <3>2. \A v \in Fields : u \in graph.inner[v] => Live(v)
      BY <1>13 DEF Placed, Opened
    <3> QED
      BY <1>2, <1>4, <1>12, <1>13, <3>1, <3>2
  <2> QED
    BY <1>6, <1>7, <1>9, <1>10, <2>1 DEF Placed, Fields
<1>20. Pausing' /\ Received' /\ Closing'
  BY <1>7 DEF Pausing, Received, Closing
<1>21. Waiting'
  <2> SUFFICES ASSUME NEW u \in Fields, ~Live(u)'
               PROVE  /\ executed' \cap graph.body[u] \subseteq {graph.receiver[u]}
                      /\ End(a) + 1 <= End(u) /\ graph.body[u] = {graph.receiver[u]} =>
                           graph.receiver[u] \notin executed'
                      /\ Holds(graph, u, End(a) + 1) =>
                           \A i \in 1..((End(a) + 1) - 1) : graph.plan[i] \notin graph.body[u]
    BY <1>6, <1>7, <1>10 DEF Waiting, Fields
  <2>1. CASE u = a
    BY <1>2, <1>4, <1>14, <1>15, <2>1 DEF Holds, End
  <2>2. CASE u # a
    <3>1. ~Live(u)
      BY <1>12, <2>2
    <3>2. executed' \cap graph.body[u] \subseteq {graph.receiver[u]}
      BY <1>17, <3>1 DEF Waiting
    <3>3. ASSUME End(a) + 1 <= End(u), graph.body[u] = {graph.receiver[u]}
          PROVE  graph.receiver[u] \notin executed'
      <4>1. ip <= End(u)
        BY <1>2, <1>4, <3>3
      <4>2. graph.receiver[u] \notin executed
        BY <3>1, <3>3, <4>1 DEF Waiting
      <4> QED
        BY <1>2, <1>4, <1>17, <4>1, <4>2
    <3>4. ~Holds(graph, u, End(a) + 1)
      <4> SUFFICES ASSUME Holds(graph, u, End(a) + 1) PROVE FALSE
        OBVIOUS
      <4>1. At(u) < End(a) + 1 /\ End(a) + 1 <= End(u)
        BY DEF Holds, At, End
      <4>2. a \in graph.inner[u]
        BY <1>2, <1>4, <2>2, <4>1, NestFacts, InnerFacts
      <4> QED
        BY <1>3, <3>1, <4>2 DEF Placed
    <3> QED
      BY <3>2, <3>3, <3>4
  <2> QED
    BY <2>1, <2>2
<1>22. Renewal'
  <2> SUFFICES ASSUME NEW u \in Fields
               PROVE  /\ graph.receiver[u] \in executed' => u \in reinit'
                      /\ End(a) + 1 > End(u) /\ (\A v \in Fields : u \in graph.inner[v] => End(a) + 1 <= End(v))
                           => u \in reinit'
    BY <1>6, <1>7, <1>10 DEF Renewal, Fields
  <2>1. graph.receiver[u] \in executed' => u \in reinit'
    BY <1>7, <1>17 DEF Renewal
  <2>2. ASSUME u # a, End(a) + 1 > End(u), \A v \in Fields : u \in graph.inner[v] => End(a) + 1 <= End(v)
        PROVE  u \in reinit
    <3>1. End(u) <= End(a) /\ u \notin graph.inner[a]
      BY <1>2, <1>4, <2>2
    <3>2. End(u) < ip
      BY <1>2, <1>4, <2>2, <3>1, InnerFacts
    <3>3. \A v \in Fields : u \in graph.inner[v] => ip <= End(v)
      BY <1>2, <1>4, <2>2
    <3> QED
      BY <1>2, <1>4, <3>2, <3>3 DEF Renewal
  <2> QED
    BY <1>7, <2>1, <2>2
<1>23. Counted'
  <2>1. cached' \subseteq OnStack'
    BY <1>7, <1>8 DEF Counted
  <2>2. ASSUME NEW u \in OnStack'
        PROVE  /\ sent'[u] = gathered'[u] \/ Fetched(u)'
               /\ u \in cached' => Fetched(u)'
               /\ \E v \in graph.inner[u] : At(v) <= End(a) + 1
    <3>1. sent[u] = gathered[u] \/ Fetched(u)
      BY <1>13 DEF Counted
    <3>2. u \in cached' => Fetched(u)
      BY <1>2, <1>7, <1>13 DEF Counted
    <3>3. At(a) <= End(a) + 1
      BY <1>2, <1>4
    <3> QED
      BY <1>7, <1>11, <1>12, <1>13, <3>1, <3>2, <3>3
  <2>3. \A u \in Fields \ OnStack' : sent'[u] = IF u \in reinit' THEN 0 ELSE gathered'[u]
    BY <1>7, <1>8, <1>11 DEF Counted
  <2> QED
    BY <1>6, <1>7, <1>10, <2>1, <2>2, <2>3 DEF Counted, Fields
<1>24. Fresh'
  <2>1. ASSUME NEW i \in 1..((End(a) + 1) - 1), graph.edges[graph.plan[i]] # <<>>, Passed(i)'
        PROVE  graph.plan[i] \notin stale'
    <3>1. CASE i = End(a)
      BY <1>4, <1>7, <3>1
    <3>2. CASE i # End(a)
      <4>1. i \in Nat /\ i < End(a)
        BY <1>2, <1>4, <3>2
      <4>2. \A v \in Fields : Holds(graph, v, i) /\ i # End(v) =>
              End(a) + 1 <= End(v) /\ (graph.plan[i] \in Within(v) => Live(v)')
        BY <1>6, <1>7, <1>10, <2>1 DEF Passed, Fields
      <4>3. ~(At(a) < i)
        <5> SUFFICES ASSUME At(a) < i PROVE FALSE
          OBVIOUS
        <5>1. Holds(graph, a, i)
          BY <1>2, <1>4, <4>1 DEF Holds, At, End
        <5> QED
          BY <1>2, <1>4, <3>2, <4>2, <5>1
      <4>4. i \in 1..(ip - 1)
        BY <1>2, <1>4, <4>1, <4>3
      <4>5. ASSUME NEW v \in Fields, Holds(graph, v, i), i # End(v)
            PROVE  ip <= End(v) /\ (graph.plan[i] \in Within(v) => Live(v))
        <5>1. End(a) + 1 <= End(v) /\ (graph.plan[i] \in Within(v) => Live(v)')
          BY <4>2, <4>5
        <5> QED
          BY <1>2, <1>4, <1>12, <5>1
      <4>6. Passed(i)
        BY <4>5 DEF Passed
      <4> QED
        BY <1>7, <2>1, <4>4, <4>6 DEF Fresh
    <3> QED
      BY <3>1, <3>2
  <2>2. ASSUME NEW n \in executed' \cap stale'
        PROVE  \E u \in Fields \ OnStack' : n = graph.receiver[u]
    <3>1. n \in executed /\ n \in stale
      BY <1>7, <1>17
    <3> QED
      BY <1>8, <3>1 DEF Fresh
  <2> QED
    BY <1>6, <1>7, <2>1, <2>2 DEF Fresh, Fields
<1> QED
  BY <1>18, <1>19, <1>20, <1>21, <1>22, <1>23, <1>24

-----------------------------------------------------------------------------
(***************************************************************************)
(* What holds of every execution.  A step that ends one changes pc alone.  *)
(***************************************************************************)
LEMMA CoreInit == Init => Core
<1> SUFFICES ASSUME Init PROVE Core
  OBVIOUS
<1>1. /\ graph \in Graphs /\ ip = 1 /\ pc = "loop" /\ executed = {} /\ again = FALSE
      /\ active = NoField /\ stack = <<>> /\ handler = NoField
      /\ iterators = {} /\ cached = {} /\ exhausted = {} /\ reinit = {}
      /\ sent = [n \in Nodes |-> 0] /\ gathered = [n \in Nodes |-> 0]
  BY DEF Init
<1>2. OnStack = {} /\ Opened = {} /\ Top = NoField /\ \A t : ~Live(t)
  BY <1>1 DEF OnStack, Opened, Top, Elements, Live
<1>3. \A t \in Fields : End(t) \in Nat /\ At(t) \in Nat /\ At(t) < End(t) /\ At(t) >= 1 /\ t \in Nodes
  BY <1>1, BlockFacts DEF Planned
<1>4. Stacked /\ Placed
  BY <1>1, <1>2 DEF Stacked, Chained, Placed
<1>5. Pausing /\ Closing /\ Received
  BY <1>1 DEF Pausing, Closing, Received
<1>6. Waiting
  BY <1>1 DEF Waiting
<1>7. Renewal
  BY <1>1, <1>3 DEF Renewal
<1>8. Counted
  BY <1>1, <1>2, <1>3 DEF Counted
<1>9. Fresh
  BY <1>1 DEF Fresh
<1> QED
  BY <1>4, <1>5, <1>6, <1>7, <1>8, <1>9 DEF Core

LEMMA CoreStep ==
  ASSUME Settled, Step, pc' \notin {"done", "failed"}
  PROVE  Core'
<1>1. ~Finish /\ ~Raise
  BY DEF Finish, Raise, Fail
<1> QED
  BY <1>1, LoopStep, SourceStep, TransmitStep, NextStep, ExhaustStep, RestartStep, ExitStep, CloseField
  DEF Step

\* At the end of the plan every field is closed.
LEMMA FinishFacts == Settled /\ Finish => CleanFinish'
<1> SUFFICES ASSUME Settled, Finish PROVE CleanFinish'
  OBVIOUS
<1> USE DEF Settled, Core, EngineInv
<1>1. /\ graph \in Graphs /\ Len(graph.plan) \in Nat /\ ip = Len(graph.plan) + 1
      /\ \A t \in Fields : End(t) \in Nat /\ End(t) <= Len(graph.plan)
  BY PlanFacts, BlockFacts DEF Finish, Planned, TypeOK
<1>2. Opened = {}
  <2>1. \A t \in Opened : t \in Fields /\ ip <= End(t)
    BY OpenFacts DEF Placed
  <2> QED
    BY <1>1, <2>1
<1>3. OnStack = {} /\ active = NoField
  BY <1>2 DEF Opened
<1>4. stack = <<>> /\ iterators = {} /\ handler = NoField
  <2>1. stack = <<>>
    BY <1>3, StackFacts DEF Stacked
  <2>2. Top = NoField
    BY <2>1 DEF Top
  <2> QED
    BY <1>3, <2>1, <2>2 DEF Stacked
<1>5. ASSUME NEW i \in Planned, graph.plan[i] \in stale, graph.edges[graph.plan[i]] # <<>>
      PROVE  \E t \in Fields : Holds(graph, t, i) /\ i # EndOf(graph, t)
  <2>1. i \in 1..(ip - 1)
    BY <1>1 DEF Planned
  <2>2. ~Passed(i)
    BY <1>5, <2>1 DEF Fresh
  <2> QED
    BY <2>2 DEF Passed, End
<1> QED
  BY <1>3, <1>4, <1>5 DEF Finish, CleanFinish, fieldVars, history, Fields, Planned

\* Two steps end an execution.
LEMMA EndsOnly ==
  ASSUME Step, ~Going'
  PROVE  Finish \/ Raise
  BY DEF Going, Step, Skip, Begin, ExecuteSource, SourceDue, Transmit, TransmitKnown, TransmitNext, Exhaust,
         FieldEdge, EdgeDue, NextEdge, Cleanup, Restart, Run, NextElement, Exit, RestartField, Close, context

EngineCore == EngineInv /\ (Going => Core)

LEMMA CoreSettled ==
  ASSUME \A g \in Graphs : Apart(g), EngineCore, Going
  PROVE  Settled
  BY DEF EngineCore, EngineInv, TypeOK, Settled

LEMMA StepSettled ==
  ASSUME \A g \in Graphs : Apart(g), EngineCore, Step
  PROVE  Going /\ Settled
<1>1. Going
  BY DEF Step, Going, Skip, Begin, Finish, ExecuteSource, SourceDue, Transmit, TransmitKnown,
         TransmitNext, Exhaust, FieldEdge, EdgeDue, Restart, Run, NextElement, Exit, RestartField, Handled,
         AllReceived, Close, Raise
<1> QED
  BY <1>1, CoreSettled

LEMMA CoreInvariant ==
  ASSUME \A g \in Graphs : Apart(g)
  PROVE  Spec => []EngineCore
<1>1. Init => EngineCore
  BY EngineInit, CoreInit DEF EngineCore
<1>2. EngineCore /\ [Next]_vars => EngineCore'
  <2> SUFFICES ASSUME EngineCore, [Next]_vars PROVE EngineCore'
    OBVIOUS
  <2>1. EngineInv'
    BY EngineInvStep DEF EngineCore
  <2>2. CASE UNCHANGED vars
    <3> USE <2>2 DEF vars, context, fieldVars, history
    <3> USE DEF Fields, Planned, OnStack, Opened, End, At, Live, Fetched, Top, Within, node
    <3>1. Stacked => Stacked'
      BY DEF Stacked, Chained
    <3>2. Placed => Placed'
      BY DEF Placed
    <3>3. (Pausing => Pausing') /\ (Closing => Closing') /\ (Received => Received')
      BY DEF Pausing, Closing, Received
    <3>4. (Waiting => Waiting') /\ (Renewal => Renewal')
      BY DEF Waiting, Renewal
    <3>5. (Counted => Counted') /\ (Fresh => Fresh')
      BY DEF Counted, Fresh, Passed
    <3>6. Going' = Going
      BY DEF Going
    <3> QED
      BY ONLY <2>1, <3>1, <3>2, <3>3, <3>4, <3>5, <3>6, EngineCore DEF EngineCore, Core
  <2>3. CASE Step
    <3>1. CASE pc' \notin {"done", "failed"}
      BY <2>1, <2>3, <3>1, StepSettled, CoreStep DEF EngineCore
    <3>2. CASE pc' \in {"done", "failed"}
      BY <2>1, <3>2 DEF EngineCore, Going
    <3> QED
      BY <3>1, <3>2
  <2> QED
    BY <2>2, <2>3 DEF Next, Stopped
<1> QED
  BY <1>1, <1>2, PTL DEF Spec

-----------------------------------------------------------------------------
(***************************************************************************)
(* The properties of the engine, for every project that is Apart.          *)
(***************************************************************************)
\* A receiver runs once per iteration, at its end (processor.py:1378): it gets
\* past its edges only after it has collected, and then asks for the next pass.
THEOREM ReceiversRunLast ==
  ASSUME \A g \in Graphs : Apart(g)
  PROVE  Spec => []CollectorRunsLast
<1>1. EngineCore => CollectorRunsLast
  <2>1. ~Going => CollectorRunsLast
    BY DEF Going, CollectorRunsLast, AllReceived
  <2> QED
    BY <2>1, CoreSettled, RunsLast
<1> QED
  BY <1>1, CoreInvariant, PTL

\* The handler that is asked is the one of the field the node stands in, for
\* all the jumps between fields (processor.py:2261-2308).
THEOREM HandlerOfTheField ==
  ASSUME \A g \in Graphs : Apart(g)
  PROVE  Spec => []HandlerInScope
<1>1. EngineCore => HandlerInScope
  <2> SUFFICES ASSUME EngineCore, AllReceived, ~again, handler # NoField
               PROVE  /\ handler = active /\ Holds(graph, active, ip)
                      /\ \A t \in Fields : node \in graph.body[t] => t = active
    BY DEF HandlerInScope
  <2> USE DEF Settled, Core, EngineInv
  <2>1. Settled
    BY CoreSettled DEF Going, AllReceived
  <2>2. /\ pc = "edges" /\ ip \in Planned /\ ip \in Nat /\ graph \in Graphs /\ node = graph.plan[ip]
    BY <2>1, PlanFacts DEF AllReceived, TypeOK, node
  <2>3. handler = active /\ active = Top /\ active \in Fields
    BY <2>1 DEF Stacked, Open
  <2>4. active \in OnStack /\ active \in Opened
    BY <2>1, <2>3, OpenFacts DEF Opened
  <2>5. At(active) < ip /\ ip <= End(active)
    BY <2>1, <2>2, <2>3, <2>4, BlockFacts DEF Placed
  <2>6. ASSUME NEW t \in Fields, node \in graph.body[t]
        PROVE  t = active
    <3>1. t \in OnStack
      BY <2>1, <2>6, LiveFacts DEF Live
    <3>2. t = active \/ active \in graph.inner[t]
      BY <2>1, <2>3, <3>1, OpenFacts
    <3>3. active = t \/ t \in graph.inner[active]
      BY <2>2, <2>3, <2>5, <2>6, BodyFacts
    <3> QED
      BY <2>2, <2>3, <3>2, <3>3, NestFacts
  <2> QED
    BY <2>3, <2>5, <2>6 DEF Holds, At, End
<1> QED
  BY <1>1, CoreInvariant, PTL

\* A field ends with every element of its iteration collected and none of an
\* earlier one: no jump loses, repeats or leaves over an element.
THEOREM AllCollected ==
  ASSUME \A g \in Graphs : Apart(g)
  PROVE  Spec => []CollectsEverything
<1>1. EngineCore => CollectsEverything
  <2> SUFFICES ASSUME EngineCore, pc = "close"
               PROVE  active \in iterators /\ gathered[active] = sent[active]
    BY DEF CollectsEverything
  <2>1. Settled
    BY CoreSettled DEF Going
  <2>2. active \in Fields /\ active = Top /\ sent[active] = gathered[active]
    BY <2>1 DEF Settled, Core, Closing, EngineInv, TypeOK
  <2>3. active \in OnStack
    BY <2>1, <2>2, OpenFacts
  <2> QED
    BY <2>1, <2>2, <2>3 DEF Settled, Core, Stacked
<1> QED
  BY <1>1, CoreInvariant, PTL

\* What an edge hands on has run on the current elements (processor.py:1384,
\* :1676-1693, :2182, :2282).
THEOREM NothingStale ==
  ASSUME \A g \in Graphs : Apart(g)
  PROVE  Spec => []TransmitsFresh
<1>1. EngineCore => TransmitsFresh
  <2> SUFFICES ASSUME EngineCore, NEW n \in Sending, n \in stale
               PROVE  FALSE
    BY DEF TransmitsFresh
  <2>1. CASE EdgeDue
    <3>1. Settled /\ pc # "close"
      BY <2>1, CoreSettled DEF Going, EdgeDue
    <3>2. ~SourceDue /\ n = edge.src
      BY <3>1 DEF Sending
    <3> QED
      BY <2>1, <3>1, <3>2, SourceFresh
  <2>2. CASE ~EdgeDue
    <3>1. pc = "close" /\ n \in OtherSources /\ n \notin Within(active) \cup {active}
      BY <2>2 DEF Sending
    <3>2. Settled
      BY <3>1, CoreSettled DEF Going
    <3> QED
      BY <3>1, <3>2, OtherFacts
  <2> QED
    BY <2>1, <2>2
<1> QED
  BY <1>1, CoreInvariant, PTL

\* A plan that is done has closed every field and run every node outside their
\* blocks.
THEOREM FinishesClean ==
  ASSUME \A g \in Graphs : Apart(g)
  PROVE  Spec => []CleanFinish
<1>1. Init => CleanFinish
  BY DEF Init, CleanFinish
<1>2. EngineCore /\ CleanFinish /\ [Next]_vars => CleanFinish'
  <2> SUFFICES ASSUME EngineCore, CleanFinish, [Next]_vars, pc' = "done" PROVE CleanFinish'
    BY DEF CleanFinish
  <2>1. CASE UNCHANGED vars
    BY <2>1 DEF vars, context, fieldVars, history, CleanFinish, Fields, Planned
  <2>2. CASE Step
    <3>1. Finish
      BY <2>2, EndsOnly DEF Raise, Fail, Going
    <3> QED
      BY <2>2, <3>1, StepSettled, FinishFacts
  <2> QED
    BY <2>1, <2>2 DEF Next, Stopped
<1> QED
  BY <1>1, <1>2, CoreInvariant, PTL DEF Spec

=============================================================================
