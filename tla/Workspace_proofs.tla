-------------------------- MODULE Workspace_proofs --------------------------
(***************************************************************************)
(* Proofs about projects under concurrent editing and sharing, for any     *)
(* users, sessions and calls, and any project to begin with.               *)
(***************************************************************************)
EXTENDS Workspace, Integers, FiniteSetTheorems, SequenceTheorems, WellFoundedInduction, TLAPS

-----------------------------------------------------------------------------
(* The rows a table gives, in the order of their ids. *)

\* Every non-empty set of natural numbers has a least element.
LEMMA Least ==
  ASSUME NEW T \in SUBSET Nat, T # {}
  PROVE  \E x \in T : \A y \in T : x <= y
<1>1. PICK x \in T : \A y \in T : ~ (<<y, x>> \in OpToRel(<,Nat))
  BY NatLessThanWellFounded, WFMin
<1>2. \A y \in T : y \in Nat /\ x \in Nat /\ ~(y < x)
  BY <1>1 DEF OpToRel
<1> QED
  BY <1>2

Rank(ids, m) == Cardinality({n \in ids : n <= m})

\* Counting the ids in order meets every number up to how many there are.
LEMMA NthExists ==
  ASSUME NEW last \in Nat, NEW ids \in SUBSET (1 .. last)
  PROVE  /\ Cardinality(ids) \in Nat
         /\ \A i \in 1 .. Cardinality(ids) : \E m \in ids : Rank(ids, m) = i
<1> DEFINE Upto(k) == {n \in ids : n <= k}
<1>0. ids \in SUBSET Nat /\ \A m \in ids : m \in Nat /\ m <= last /\ ~(m <= 0)
  OBVIOUS
<1>1. IsFiniteSet(ids)
  BY <1>0, FS_BoundedSetOfNaturals
<1>2. Cardinality(ids) \in Nat
  BY <1>1, FS_CardinalityType
<1>3. \A k \in Nat : IsFiniteSet(Upto(k)) /\ Cardinality(Upto(k)) \in Nat
  <2> TAKE k \in Nat
  <2>1. Upto(k) \in SUBSET ids
    OBVIOUS
  <2> QED
    BY <2>1, <1>1, FS_Subset, FS_CardinalityType
<1> SUFFICES ASSUME NEW i \in 1 .. Cardinality(ids) PROVE \E m \in ids : Rank(ids, m) = i
  BY <1>2
<1> DEFINE T == {k \in Nat : Cardinality(Upto(k)) >= i}
<1>4. last \in T
  <2>1. Upto(last) = ids
    BY <1>0
  <2> HIDE DEF Upto
  <2> QED
    BY <2>1, <1>2
<1>5. 0 \notin T
  <2>1. Upto(0) = {}
    BY <1>0
  <2> HIDE DEF Upto
  <2> QED
    BY <2>1, FS_EmptySet
<1>6. T \in SUBSET Nat /\ \A k \in Nat : k \in T <=> Cardinality(Upto(k)) >= i
  OBVIOUS
<1>7. PICK m \in T : \A k \in T : m <= k
  <2> HIDE DEF T
  <2> QED
    BY <1>4, <1>6, Least
<1> HIDE DEF T
<1>8. m \in Nat \ {0} /\ m - 1 \in Nat /\ m - 1 \notin T
  BY <1>5, <1>6, <1>7
<1>9. /\ m \in Nat
      /\ Cardinality(Upto(m - 1)) < i /\ Cardinality(Upto(m)) >= i
      /\ Cardinality(Upto(m - 1)) \in Nat /\ Cardinality(Upto(m)) \in Nat /\ i \in Nat
  <2> HIDE DEF Upto
  <2>1. Cardinality(Upto(m)) >= i /\ ~(Cardinality(Upto(m - 1)) >= i)
    BY <1>6, <1>7, <1>8
  <2> QED
    BY <1>2, <1>3, <1>8, <2>1
<1>10. m \in ids
  <2> SUFFICES ASSUME m \notin ids PROVE FALSE
    OBVIOUS
  <2>1. \A n \in ids : n \in Nat /\ (n <= m <=> n <= m - 1)
    BY <1>8
  <2>2. Upto(m) = Upto(m - 1)
    BY <2>1
  <2> HIDE DEF Upto
  <2> QED
    BY <2>2, <1>9
<1>11. Cardinality(Upto(m)) = Cardinality(Upto(m - 1)) + 1
  <2>1. \A n \in ids : n \in Nat /\ (n <= m <=> n <= m - 1 \/ n = m)
    BY <1>8
  <2>2. Upto(m) = Upto(m - 1) \cup {m}
    BY <1>10, <2>1
  <2>4. m \notin Upto(m - 1)
    BY <1>8
  <2>3. IsFiniteSet(Upto(m - 1))
    BY <1>3, <1>8
  <2> HIDE DEF Upto
  <2> QED
    BY <2>2, <2>3, <2>4, FS_AddElement
<1>12. Cardinality(Upto(m)) = i
  <2> HIDE DEF Upto
  <2> QED
    BY <1>9, <1>11
<1> QED
  BY <1>10, <1>12 DEF Rank

\* Each gives a sequence of the values, one for each id.
LEMMA EachTyped ==
  ASSUME NEW last \in Nat, NEW for, DOMAIN for \subseteq 1 .. last
  PROVE  Each(for) \in Seq({for[m] : m \in DOMAIN for})
<1> DEFINE ids == DOMAIN for
           Nth(i) == CHOOSE m \in ids : Rank(ids, m) = i
<1>1. Cardinality(ids) \in Nat
  BY NthExists
<1>2. \A i \in 1 .. Cardinality(ids) : Nth(i) \in ids
  BY NthExists
<1>3. Each(for) = [i \in 1 .. Cardinality(ids) |-> for[Nth(i)]]
  BY DEF Each, Rank
<1> HIDE DEF Nth
<1> QED
  BY <1>1, <1>2, <1>3

-----------------------------------------------------------------------------
(* Lists of transactions. *)

IsList(q) == q \in Seq(Range(q))

\* A transaction that any call may put off: not one that carries a row, or
\* rights, or follows from a call the properties are about.
Plain(op) ==
  /\ "do" \in DOMAIN op
  /\ op.do \notin {"copy_node", "copy_acls", "insert_acls", "clone_project", "cloned"}
  /\ op.do = "clone_object" => op.subscribes \in BOOLEAN

Client(call) ==
  /\ "do" \in DOMAIN call /\ call.do \in ClientCalls
  /\ call.do = "clone_object" => call.subscribes \in BOOLEAN

AllPlain(ops) == IsList(ops) /\ \A op \in Range(ops) : Plain(op)

LEMMA ListTyped ==
  ASSUME NEW S, NEW q \in Seq(S)
  PROVE  IsList(q) /\ Range(q) \subseteq S
  BY DEF IsList, Range

LEMMA ListRest ==
  ASSUME NEW q, IsList(q), q # <<>>
  PROVE  Head(q) \in Range(q) /\ IsList(Tail(q)) /\ Range(Tail(q)) \subseteq Range(q)
<1>1. Tail(q) \in Seq(Range(q)) /\ Head(q) \in Range(q)
  BY DEF IsList
<1> QED
  BY <1>1, ListTyped

LEMMA ListAfter ==
  ASSUME NEW p, NEW q, IsList(p), IsList(q)
  PROVE  IsList(p \o q) /\ Range(p \o q) \subseteq Range(p) \cup Range(q)
<1>1. p \o q \in Seq(Range(p) \cup Range(q))
  BY DEF IsList
<1> QED
  BY <1>1, ListTyped

LEMMA ListOf ==
  /\ IsList(<<>>) /\ Range(<<>>) = {}
  /\ \A a : IsList(<<a>>) /\ Range(<<a>>) = {a}
  /\ \A a, b : IsList(<<a, b>>) /\ Range(<<a, b>>) = {a, b}
  /\ \A a, b, c : IsList(<<a, b, c>>) /\ Range(<<a, b, c>>) = {a, b, c}
  /\ \A a, b, c, d : IsList(<<a, b, c, d>>) /\ Range(<<a, b, c, d>>) = {a, b, c, d}
<1>1. IsList(<<>>) /\ Range(<<>>) = {}
  BY DEF IsList, Range
<1>2. ASSUME NEW a PROVE IsList(<<a>>) /\ Range(<<a>>) = {a}
  <2>1. Range(<<a>>) = {a}
    BY DEF Range
  <2> QED
    BY <2>1 DEF IsList
<1>3. ASSUME NEW a, NEW b PROVE IsList(<<a, b>>) /\ Range(<<a, b>>) = {a, b}
  <2>1. Range(<<a, b>>) = {a, b}
    BY DEF Range
  <2> QED
    BY <2>1 DEF IsList
<1>4. ASSUME NEW a, NEW b, NEW c PROVE IsList(<<a, b, c>>) /\ Range(<<a, b, c>>) = {a, b, c}
  <2>1. Range(<<a, b, c>>) = {a, b, c}
    BY DEF Range
  <2> QED
    BY <2>1 DEF IsList
<1>5. ASSUME NEW a, NEW b, NEW c, NEW d
      PROVE  IsList(<<a, b, c, d>>) /\ Range(<<a, b, c, d>>) = {a, b, c, d}
  <2>1. Range(<<a, b, c, d>>) = {a, b, c, d}
    BY DEF Range
  <2> QED
    BY <2>1 DEF IsList
<1> QED
  BY <1>1, <1>2, <1>3, <1>4, <1>5

LEMMA PlainLists ==
  /\ AllPlain(<<>>)
  /\ \A a : Plain(a) => AllPlain(<<a>>)
  /\ \A a, b : Plain(a) /\ Plain(b) => AllPlain(<<a, b>>)
  /\ \A a, b, c : Plain(a) /\ Plain(b) /\ Plain(c) => AllPlain(<<a, b, c>>)
  /\ \A a, b, c, d : Plain(a) /\ Plain(b) /\ Plain(c) /\ Plain(d) => AllPlain(<<a, b, c, d>>)
  BY ListOf DEF AllPlain

LEMMA PlainAfter ==
  ASSUME NEW p, NEW q, AllPlain(p), AllPlain(q)
  PROVE  AllPlain(p \o q)
  BY ListAfter DEF AllPlain

LEMMA EachList ==
  ASSUME NEW last \in Nat, NEW for, DOMAIN for \subseteq 1 .. last
  PROVE  IsList(Each(for)) /\ Range(Each(for)) \subseteq {for[m] : m \in DOMAIN for}
<1> DEFINE V == {for[m] : m \in DOMAIN for}
<1>1. Each(for) \in Seq(V)
  BY EachTyped
<1> HIDE DEF V
<1>2. IsList(Each(for)) /\ Range(Each(for)) \subseteq V
  BY <1>1, ListTyped
<1> QED
  BY <1>2 DEF V

LEMMA EachPlain ==
  ASSUME NEW last \in Nat, NEW for, DOMAIN for \subseteq 1 .. last,
         \A m \in DOMAIN for : Plain(for[m])
  PROVE  AllPlain(Each(for))
  BY EachList DEF AllPlain

LEMMA TablesList ==
  ASSUME NEW acls
  PROVE  IsList(TeamTables(acls))
<1> DEFINE Of(acl) == IF acl \in acls THEN <<acl>> ELSE <<>>
<1>1. IsList(Of("read_acl")) /\ IsList(Of("write_acl")) /\ IsList(Of("execute_acl"))
  BY ListOf
<1>2. TeamTables(acls) = Of("read_acl") \o Of("write_acl") \o Of("execute_acl")
  BY DEF TeamTables
<1> HIDE DEF Of
<1> QED
  BY <1>1, <1>2, ListAfter

-----------------------------------------------------------------------------
(***************************************************************************)
(* The invariant.  A row that anybody still has in sight, in the database, *)
(* a snapshot or a transaction to come, keeps its id, and what it says of  *)
(* its origin is as true now as when it was read.                          *)
(***************************************************************************)
IsOver(f) == f = [s \in Sessions |-> f[s]]

Known(d, m, row) ==
  /\ m \in 1 .. d.last /\ row \in Metadata /\ row.cloned_from <= d.last
  /\ m \in DOMAIN d.wob =>
       /\ row.kind = d.wob[m].kind /\ row.cloned_from = d.wob[m].cloned_from
       /\ row.subscribes = d.wob[m].subscribes
  /\ row.kind = "CODE" /\ row.cloned_from \in DOMAIN d.wob =>
       d.wob[row.cloned_from].cloned_from = NoOrigin

KnownRows(d, e) == \A m \in DOMAIN e.wob : Known(d, m, e.wob[m])

Sound(d, op) ==
  /\ "do" \in DOMAIN op
  /\ op.do = "clone_object" => op.subscribes \in BOOLEAN
  /\ op.do = "copy_node" => Known(d, op.wob, op.row)

DatabaseInv == IsDatabase(db) /\ db.last \in Nat /\ KnownRows(db, db)

SnapshotInv(s) == snap[s] # None => Numbered(snap[s]) /\ KnownRows(db, snap[s])

ListInv(s) ==
  /\ IsList(todo[s]) /\ \A op \in Range(todo[s]) : Sound(db, op)
  /\ IsList(calls[s]) /\ \A call \in Range(calls[s]) : Client(call)

MemoryInv(s) ==
  /\ mem[s] = [made |-> mem[s].made, copies |-> mem[s].copies, pairs |-> mem[s].pairs]
  /\ IsList(mem[s].pairs)

Functions == IsOver(snap) /\ IsOver(todo) /\ IsOver(calls) /\ IsOver(mem)

WorkspaceInv ==
  /\ Functions /\ DatabaseInv
  /\ \A s \in Sessions : SnapshotInv(s) /\ ListInv(s) /\ MemoryInv(s)

\* How the rows of the database change: some go, some are marked as deleted,
\* and a clone or a new object takes the next id.
SameRow(r, q) ==
  /\ q \in Metadata /\ q.kind = r.kind /\ q.cloned_from = r.cloned_from
  /\ q.subscribes = r.subscribes

Shrinks(d, e) ==
  /\ e.last = d.last /\ DOMAIN e.wob \subseteq DOMAIN d.wob
  /\ \A m \in DOMAIN e.wob : SameRow(d.wob[m], e.wob[m])

Grows(d, e) ==
  LET n == d.last + 1
  IN /\ e.last = n /\ DOMAIN e.wob = DOMAIN d.wob \cup {n}
     /\ \A m \in DOMAIN d.wob : e.wob[m] = d.wob[m]
     /\ e.wob[n] \in Metadata /\ e.wob[n].cloned_from <= d.last
     /\ e.wob[n].kind = "CODE" /\ e.wob[n].cloned_from \in DOMAIN d.wob =>
          d.wob[e.wob[n].cloned_from].cloned_from = NoOrigin

Evolves(d, e) == IsDatabase(e) /\ (Shrinks(d, e) \/ Grows(d, e))

\* What was known stays known, as ids are given once.
LEMMA KnownKept ==
  ASSUME NEW d, NEW e, d.last \in Nat, KnownRows(d, d), Evolves(d, e)
  PROVE  /\ \A m, row : Known(d, m, row) => Known(e, m, row)
         /\ e.last \in Nat /\ KnownRows(e, e) /\ d.last <= e.last
<1> USE DEF NoOrigin
<1>0. DOMAIN d.wob \subseteq 1 .. d.last /\ \A m \in DOMAIN d.wob : d.wob[m] \in Metadata
  BY DEF KnownRows, Known
<1>1. CASE Shrinks(d, e)
  <2>1. \A m, row : Known(d, m, row) => Known(e, m, row)
    BY <1>1 DEF Shrinks, SameRow, Known
  <2>2. ASSUME NEW m \in DOMAIN e.wob PROVE Known(e, m, e.wob[m])
    <3>1. m \in DOMAIN d.wob /\ Known(d, m, d.wob[m]) /\ SameRow(d.wob[m], e.wob[m])
      BY <1>1, <2>2 DEF Shrinks, KnownRows
    <3> QED
      BY <1>1, <3>1 DEF Shrinks, SameRow, Known
  <2> QED
    BY <1>1, <2>1, <2>2 DEF KnownRows, Shrinks
<1>2. CASE Grows(d, e)
  <2> DEFINE n == d.last + 1
  <2>1. n \notin DOMAIN d.wob /\ n \in Nat /\ e.last = n /\ 1 .. d.last \subseteq 1 .. n /\ n \in 1 .. n
    BY <1>0, <1>2 DEF Grows
  <2>2. DOMAIN e.wob = DOMAIN d.wob \cup {n} /\ \A m \in DOMAIN d.wob : e.wob[m] = d.wob[m]
    BY <1>2 DEF Grows
  <2>3. ASSUME NEW m, NEW row, Known(d, m, row) PROVE Known(e, m, row)
    <3>1. m \in 1 .. d.last /\ row \in Metadata /\ row.cloned_from \in Nat /\ row.cloned_from <= d.last
      BY <2>3 DEF Known, Metadata
    <3>2. m # n /\ row.cloned_from # n /\ row.cloned_from <= n
      BY <3>1, <2>1
    <3> HIDE DEF n
    <3> QED
      BY <2>1, <2>2, <2>3, <3>1, <3>2 DEF Known
  <2>4. Known(e, n, e.wob[n])
    <3>1. e.wob[n] \in Metadata /\ e.wob[n].cloned_from \in Nat /\ e.wob[n].cloned_from <= d.last
      BY <1>2 DEF Grows, Metadata
    <3>2. e.wob[n].cloned_from # n /\ e.wob[n].cloned_from <= n
      BY <3>1, <2>1
    <3>3. e.wob[n].kind = "CODE" /\ e.wob[n].cloned_from \in DOMAIN d.wob =>
            d.wob[e.wob[n].cloned_from].cloned_from = NoOrigin
      BY <1>2 DEF Grows
    <3> HIDE DEF n
    <3> QED
      BY <2>1, <2>2, <3>1, <3>2, <3>3 DEF Known
  <2>5. KnownRows(e, e)
    <3> SUFFICES ASSUME NEW m \in DOMAIN e.wob PROVE Known(e, m, e.wob[m])
      BY DEF KnownRows
    <3>1. CASE m = n
      BY <2>4, <3>1
    <3>2. CASE m \in DOMAIN d.wob
      BY <3>2, <2>2, <2>3 DEF KnownRows
    <3> QED
      BY <2>2, <3>1, <3>2
  <2> QED
    BY <2>1, <2>3, <2>5
<1> QED
  BY <1>1, <1>2 DEF Evolves

\* Where the known rows are those of a database, it is numbered.
LEMMA KnownNumbered ==
  ASSUME NEW d, d.last \in Nat, KnownRows(d, d)
  PROVE  Numbered(d) /\ Originals(d)
  BY DEF KnownRows, Known, Numbered, Originals

-----------------------------------------------------------------------------
(* What one step does to the invariant. *)

SnapMoves(s) == \E d \in {None, snap[s], db, db'} : snap' = [snap EXCEPT ![s] = d]

\* A call goes on with ops, and then, if it does not end, with what was to come.
GoesOn(s, ops) ==
  \E rest : /\ rest = <<>> \/ (todo[s] # <<>> /\ rest = Tail(todo[s]))
            /\ todo' = [todo EXCEPT ![s] = ops \o rest]

\* What a call that is followed puts off: it begins with a fresh snapshot, and
\* the rights to insert are those of its snapshot.  Projects are cloned by calls.
Due(s, op) ==
  /\ op.do \in {"copy_acls", "cloned"} => snap'[s] = db'
  /\ op.do = "clone_project" => Call(s)
  /\ op.do = "cloned" => clone_project(s)
  /\ op.do = "insert_acls" =>
       /\ Followed(s)
       /\ \A g \in Groups :
            <<g, User[s]>> \in View(s).member /\ <<g, op.ko>> \in View(s).read => g \in op.read

Effect(s) ==
  /\ Evolves(db, db') /\ SnapMoves(s)
  /\ \E ops : /\ IsList(ops) /\ GoesOn(s, ops)
              /\ \A op \in Range(ops) : Sound(db', op) /\ Due(s, op)
  /\ \E q : /\ q = calls[s] \/ (calls[s] # <<>> /\ q = Tail(calls[s]))
            /\ calls' = [calls EXCEPT ![s] = q]
  /\ \E m : /\ m = [made |-> m.made, copies |-> m.copies, pairs |-> m.pairs] /\ IsList(m.pairs)
            /\ mem' = [mem EXCEPT ![s] = m]

LEMMA EffectKeeps ==
  ASSUME WorkspaceInv, NEW s \in Sessions, Effect(s)
  PROVE  WorkspaceInv'
<1>1. Functions'
  BY DEF WorkspaceInv, Functions, IsOver, Effect, SnapMoves, GoesOn
<1>2. /\ \A m, row : Known(db, m, row) => Known(db', m, row)
      /\ db'.last \in Nat /\ KnownRows(db', db') /\ IsDatabase(db')
  BY KnownKept DEF WorkspaceInv, DatabaseInv, Effect, Evolves
<1>3. DatabaseInv'
  BY <1>2 DEF DatabaseInv
<1>4. ASSUME NEW t \in Sessions PROVE SnapshotInv(t)'
  <2>1. \A e : KnownRows(db, e) => KnownRows(db', e)
    BY <1>2 DEF KnownRows
  <2>2. Numbered(db) /\ Numbered(db') /\ KnownRows(db, db)
    BY <1>2, KnownNumbered DEF WorkspaceInv, DatabaseInv
  <2>3. snap'[t] \in {None, snap[t], db, db'}
    BY DEF WorkspaceInv, Functions, IsOver, Effect, SnapMoves
  <2>4. SnapshotInv(t)
    BY DEF WorkspaceInv
  <2>5. ASSUME snap'[t] # None PROVE Numbered(snap'[t]) /\ KnownRows(db', snap'[t])
    BY <1>2, <2>1, <2>2, <2>3, <2>4, <2>5 DEF SnapshotInv
  <2> QED
    BY <2>5 DEF SnapshotInv
<1>5. ASSUME NEW t \in Sessions PROVE ListInv(t)'
  <2>1. ListInv(t) /\ todo[t] \in {todo[t]} /\ \A op : Sound(db, op) => Sound(db', op)
    BY <1>2 DEF WorkspaceInv, Sound
  <2>2. CASE t # s
    <3>1. todo'[t] = todo[t] /\ calls'[t] = calls[t]
      BY <2>2 DEF WorkspaceInv, Functions, IsOver, Effect, GoesOn
    <3> QED
      BY <2>1, <3>1 DEF ListInv
  <2>3. CASE t = s
    <3>1. PICK ops, rest :
            /\ IsList(ops) /\ \A op \in Range(ops) : Sound(db', op)
            /\ rest = <<>> \/ (todo[s] # <<>> /\ rest = Tail(todo[s]))
            /\ todo' = [todo EXCEPT ![s] = ops \o rest]
      BY DEF Effect, GoesOn
    <3>2. todo'[s] = ops \o rest
      BY <3>1 DEF WorkspaceInv, Functions, IsOver
    <3>3. IsList(rest) /\ Range(rest) \subseteq Range(todo[s])
      <4>1. CASE rest = <<>>
        BY <4>1, ListOf
      <4>2. CASE todo[s] # <<>> /\ rest = Tail(todo[s])
        BY <4>2, <2>1, <2>3, ListRest DEF ListInv
      <4> QED
        BY <3>1, <4>1, <4>2
    <3>4. IsList(todo'[s]) /\ \A op \in Range(todo'[s]) : Sound(db', op)
      BY <2>1, <2>3, <3>1, <3>2, <3>3, ListAfter DEF ListInv
    <3>5. calls'[s] = calls[s] \/ (calls[s] # <<>> /\ calls'[s] = Tail(calls[s]))
      BY DEF Effect, WorkspaceInv, Functions, IsOver
    <3>6. IsList(calls'[s]) /\ Range(calls'[s]) \subseteq Range(calls[s])
      BY <2>1, <2>3, <3>5, ListRest DEF ListInv
    <3> QED
      BY <2>1, <2>3, <3>4, <3>6 DEF ListInv
  <2> QED
    BY <2>2, <2>3
<1>6. ASSUME NEW t \in Sessions PROVE MemoryInv(t)'
  BY DEF WorkspaceInv, Functions, IsOver, Effect, MemoryInv
<1> QED
  BY <1>1, <1>3, <1>4, <1>5, <1>6 DEF WorkspaceInv

\* Most steps leave the rows of objects alone and put off plain transactions.
RowsStay == IsDatabase(db') /\ db'.wob = db.wob /\ db'.last = db.last
PlainlyGoes(s) == UNCHANGED calls /\ \E ops : AllPlain(ops) /\ GoesOn(s, ops)

LEMMA QuietEffect ==
  ASSUME WorkspaceInv, NEW s \in Sessions,
         RowsStay \/ Evolves(db, db'), SnapMoves(s), PlainlyGoes(s), UNCHANGED mem
  PROVE  Effect(s)
<1>1. Evolves(db, db')
  BY DEF RowsStay, Evolves, Shrinks, SameRow, WorkspaceInv, DatabaseInv, KnownRows, Known
<1>2. \E ops : /\ IsList(ops) /\ GoesOn(s, ops)
              /\ \A op \in Range(ops) : Sound(db', op) /\ Due(s, op)
  BY DEF PlainlyGoes, AllPlain, Plain, Sound, Due
<1>3. calls' = [calls EXCEPT ![s] = calls[s]] /\ mem' = [mem EXCEPT ![s] = mem[s]]
  BY DEF PlainlyGoes, WorkspaceInv, Functions, IsOver
<1>4. MemoryInv(s)
  BY DEF WorkspaceInv
<1> QED
  BY <1>1, <1>2, <1>3, <1>4 DEF Effect, MemoryInv

LEMMA Reading ==
  ASSUME WorkspaceInv, NEW s \in Sessions, Rests \/ Sees(s)
  PROVE  RowsStay /\ SnapMoves(s)
  BY DEF Rests, Sees, View, RowsStay, SnapMoves, WorkspaceInv, DatabaseInv, Functions, IsOver

OtherTables(d, e) == IsDatabase(e) /\ e.wob = d.wob /\ e.last = d.last

LEMMA Writing ==
  ASSUME WorkspaceInv, NEW s \in Sessions, NEW d, OtherTables(db, d),
         Commits(s, d) \/ (db' = d /\ UNCHANGED snap)
  PROVE  RowsStay /\ SnapMoves(s)
  BY DEF OtherTables, Commits, RowsStay, SnapMoves, WorkspaceInv, Functions, IsOver

\* A database with one of its other tables changed.
LEMMA TableChanged ==
  ASSUME NEW d, IsDatabase(d), NEW x
  PROVE  /\ OtherTables(d, d)
         /\ OtherTables(d, [d EXCEPT !.edge = x]) /\ OtherTables(d, [d EXCEPT !.group = x])
         /\ OtherTables(d, [d EXCEPT !.member = x])
         /\ OtherTables(d, [d EXCEPT !.read = x]) /\ OtherTables(d, [d EXCEPT !.write = x])
<1> USE DEF IsDatabase, OtherTables
<1>1. OtherTables(d, d)
  OBVIOUS
<1>2. OtherTables(d, [d EXCEPT !.edge = x])
  OBVIOUS
<1>3. OtherTables(d, [d EXCEPT !.group = x])
  OBVIOUS
<1>4. OtherTables(d, [d EXCEPT !.member = x])
  OBVIOUS
<1>5. OtherTables(d, [d EXCEPT !.read = x])
  OBVIOUS
<1>6. OtherTables(d, [d EXCEPT !.write = x])
  OBVIOUS
<1> HIDE DEF OtherTables
<1> QED
  BY <1>1, <1>2, <1>3, <1>4, <1>5, <1>6

LEMMA TablesChanged ==
  ASSUME NEW d, IsDatabase(d), NEW x, NEW y
  PROVE  /\ OtherTables(d, [d EXCEPT !.read = x, !.write = y])
         /\ OtherTables(d, [d EXCEPT !.group = x, !.member = y])
<1>1. ASSUME NEW e, OtherTables(d, e)
      PROVE  OtherTables(d, [e EXCEPT !.write = y]) /\ OtherTables(d, [e EXCEPT !.member = y])
  <2>1. OtherTables(e, [e EXCEPT !.write = y]) /\ OtherTables(e, [e EXCEPT !.member = y])
    BY <1>1, TableChanged DEF OtherTables
  <2> QED
    BY <1>1, <2>1 DEF OtherTables
<1> QED
  BY <1>1, TableChanged

LEMMA ThenPlain ==
  ASSUME NEW s \in Sessions, NEW ops, AllPlain(ops), Then(s, ops), todo[s] # <<>>, IsOver(todo)
  PROVE  PlainlyGoes(s)
  BY DEF Then, PlainlyGoes, GoesOn, IsOver

LEMMA RaisePlain ==
  ASSUME NEW s \in Sessions, Raise(s), IsOver(todo)
  PROVE  PlainlyGoes(s)
<1>1. <<>> \o <<>> = <<>> /\ AllPlain(<<>>)
  BY PlainLists
<1>2. todo' = [todo EXCEPT ![s] = <<>> \o <<>>]
  BY <1>1 DEF Raise
<1> QED
  BY <1>1, <1>2 DEF Raise, PlainlyGoes, GoesOn

\* The transaction a session is at.
LEMMA OpSound ==
  ASSUME WorkspaceInv, NEW s \in Sessions, NEW name, At(s, name)
  PROVE  /\ todo[s] # <<>> /\ IsOver(todo) /\ Op(s) \in Range(todo[s])
         /\ Sound(db, Op(s)) /\ Op(s).do = name /\ "do" \in DOMAIN Op(s)
  BY ListRest DEF WorkspaceInv, ListInv, At, Op, Sound, Functions

-----------------------------------------------------------------------------
(* The steps that leave the rows of objects alone. *)
Quiet(s) == (RowsStay \/ Evolves(db, db')) /\ SnapMoves(s) /\ PlainlyGoes(s) /\ UNCHANGED mem

LEMMA PlainOps ==
  /\ \A a, b : Plain(AddEdge(a, b))
  /\ \A e, a : Plain(SetAttributes(e, a))
  /\ \A m : Plain([do |-> "update_api", wob |-> m])
  /\ \A e, w : Plain([do |-> "del_edge", edge |-> e, wire |-> w])
  /\ \A e, a : Plain([do |-> "clean_edge", edge |-> e, attr |-> a])
  /\ \A e, w : Plain([do |-> "link", edge |-> e, wire |-> w])
  /\ \A m : Plain([do |-> "copy_in", wob |-> m]) /\ Plain([do |-> "copy_out", wob |-> m])
  /\ \A e : Plain([do |-> "copy_edge", edge |-> e])
  BY DEF Plain, AddEdge, SetAttributes

\* A transaction put off again under another name.
LEMMA PlainAgain ==
  ASSUME NEW op, "do" \in DOMAIN op
  PROVE  /\ Plain([op EXCEPT !.do = "update_edge"]) /\ Plain([op EXCEPT !.do = "grant_row"])
         /\ Plain([op EXCEPT !.do = "grant_children"]) /\ Plain([op EXCEPT !.do = "revoke_children"])
         /\ \A x : Plain([op EXCEPT !.do = "group_row", !.then = x])
         /\ \A m, x : Plain([op EXCEPT !.do = "grant", !.wob = m, !.depth = x])
         /\ \A m, x, y : Plain([op EXCEPT !.do = "revoke", !.wob = m, !.depth = x, !.acls = y])
<1>1. Plain([op EXCEPT !.do = "update_edge"])
  BY DEF Plain
<1>2. Plain([op EXCEPT !.do = "grant_row"])
  BY DEF Plain
<1>3. Plain([op EXCEPT !.do = "grant_children"])
  BY DEF Plain
<1>4. Plain([op EXCEPT !.do = "revoke_children"])
  BY DEF Plain
<1>5. ASSUME NEW x PROVE Plain([op EXCEPT !.do = "group_row", !.then = x])
  BY DEF Plain
<1>6. ASSUME NEW m, NEW x PROVE Plain([op EXCEPT !.do = "grant", !.wob = m, !.depth = x])
  BY DEF Plain
<1>7. ASSUME NEW m, NEW x, NEW y PROVE Plain([op EXCEPT !.do = "revoke", !.wob = m, !.depth = x, !.acls = y])
  BY DEF Plain
<1> QED
  BY <1>1, <1>2, <1>3, <1>4, <1>5, <1>6, <1>7

\* What a view finds is in the database it reads.
LEMMA FoundRows ==
  ASSUME NEW d, NEW u, NEW m
  PROVE  /\ find_wob_by_outbound_edges(d, u, m) \subseteq DOMAIN d.wob
         /\ find_wob_by_inbound_edges(d, u, m) \subseteq DOMAIN d.wob
         /\ find_children(d, u, m) \subseteq DOMAIN d.wob
  BY DEF find_children, find_wob_by_outbound_edges, find_wob_by_inbound_edges

\* What a session reads is numbered like the database.
LEMMA ViewRows ==
  ASSUME WorkspaceInv, NEW s \in Sessions
  PROVE  /\ Numbered(View(s)) /\ KnownRows(db, View(s)) /\ View(s).last \in Nat
         /\ DOMAIN View(s).wob \subseteq 1 .. View(s).last
         /\ Numbered(db) /\ KnownRows(db, db) /\ db.last \in Nat /\ DOMAIN db.wob \subseteq 1 .. db.last
<1>1. KnownRows(db, db) /\ Numbered(db)
  BY KnownNumbered DEF WorkspaceInv, DatabaseInv
<1>2. KnownRows(db, View(s)) /\ Numbered(View(s))
  BY <1>1 DEF WorkspaceInv, SnapshotInv, View
<1> QED
  BY <1>1, <1>2 DEF Numbered

LEMMA CreationQuiet ==
  ASSUME WorkspaceInv, NEW s \in Sessions, Return(s) \/ Look(s) \/ sp_link(s) \/ insert_acls(s)
  PROVE  Quiet(s)
<1> USE DEF Quiet
<1>0. IsDatabase(db)
  BY DEF WorkspaceInv, DatabaseInv
<1>1. CASE Return(s)
  BY <1>1, Reading, OpSound, ThenPlain, PlainLists DEF Return
<1>2. CASE Look(s)
  BY <1>2, Reading, OpSound, ThenPlain, PlainLists DEF Look
<1>3. CASE sp_link(s)
  <2>1. RowsStay /\ SnapMoves(s)
    <3>1. OtherTables(db, [db EXCEPT !.edge = Put(@, Op(s).edge, NoAttributes)])
      BY <1>0, TableChanged
    <3> QED
      BY <1>3, <3>1, Reading, Writing DEF sp_link
  <2> QED
    BY <1>3, <2>1, OpSound, ThenPlain, PlainLists DEF sp_link
<1>4. CASE insert_acls(s)
  <2>1. RowsStay /\ SnapMoves(s)
    <3>1. /\ OtherTables(db, [db EXCEPT !.read  = @ \cup (Op(s).read \X {Op(s).wob}),
                                   !.write = @ \cup (Op(s).write \X {Op(s).wob})])
          /\ OtherTables(db, db)
      BY <1>0, TableChanged, TablesChanged
    <3> QED
      BY <1>4, <3>1, Writing DEF insert_acls
  <2> QED
    BY <1>4, <2>1, OpSound, ThenPlain, PlainLists DEF insert_acls
<1> QED
  BY <1>1, <1>2, <1>3, <1>4

LEMMA EditingQuiet ==
  ASSUME WorkspaceInv, NEW s \in Sessions, Editing(s)
  PROVE  Quiet(s)
<1> USE DEF Quiet
<1>0. IsDatabase(db)
  BY DEF WorkspaceInv, DatabaseInv
<1>1. CASE link(s)
  <2>1. Op(s).do = "link" /\ "do" \in DOMAIN Op(s) /\ todo[s] # <<>> /\ IsOver(todo)
    BY <1>1, OpSound DEF link
  <2>2. PlainlyGoes(s)
    <3>1. /\ AllPlain(<<>>) /\ AllPlain(<<AddEdge(Op(s).edge[1], Op(s).edge[2])>>)
          /\ AllPlain(<<AddEdge(Op(s).edge[1], Op(s).edge[2]), [Op(s) EXCEPT !.do = "update_edge"]>>)
      BY <2>1, PlainLists, PlainOps, PlainAgain
    <3> QED
      BY <1>1, <2>1, <3>1, RaisePlain, ThenPlain DEF link
  <2> QED
    BY <1>1, <2>2, Reading DEF link
<1>2. CASE _update_edge(s)
  <2> DEFINE e == Op(s).edge
             attr == get_edge_attribute(View(s), User[s], e)
             tr == Op(s).wire[1]
             rc == Op(s).wire[2]
  <2>1. AllPlain(_update_api(e, tr)) /\ AllPlain(<<SetAttributes(e, Put(attr, rc, tr))>>) /\ AllPlain(<<>>)
    BY PlainLists, PlainOps DEF _update_api
  <2>2. AllPlain(<<SetAttributes(e, Put(attr, rc, tr))>> \o _update_api(e, tr))
    BY <2>1, PlainAfter
  <2>3. \/ Then(s, <<SetAttributes(e, Put(attr, rc, tr))>> \o _update_api(e, tr))
        \/ Then(s, <<>>)
    BY <1>2 DEF _update_edge
  <2> HIDE DEF e, attr, tr, rc
  <2>4. PlainlyGoes(s)
    BY <1>2, <2>1, <2>2, <2>3, OpSound, ThenPlain DEF _update_edge
  <2> QED
    BY <1>2, <2>4, Reading DEF _update_edge
<1>3. CASE update_api(s)
  <2>1. todo[s] # <<>> /\ IsOver(todo) /\ AllPlain(<<>>) /\ OtherTables(db, db)
    BY <1>0, <1>3, OpSound, PlainLists, TableChanged DEF update_api
  <2>2. PlainlyGoes(s)
    BY <1>3, <2>1, RaisePlain, ThenPlain DEF update_api
  <2>3. RowsStay /\ SnapMoves(s)
    BY <1>3, <2>1, Reading, Writing DEF update_api
  <2> QED
    BY <1>3, <2>2, <2>3 DEF update_api
<1>4. CASE set_edge_attribute(s)
  <2>1. /\ todo[s] # <<>> /\ IsOver(todo) /\ AllPlain(<<>>) /\ OtherTables(db, db)
        /\ OtherTables(db, [db EXCEPT !.edge[Op(s).edge] = Op(s).attr])
    BY <1>0, <1>4, OpSound, PlainLists, TableChanged DEF set_edge_attribute
  <2>2. PlainlyGoes(s)
    BY <1>4, <2>1, RaisePlain, ThenPlain DEF set_edge_attribute
  <2>3. RowsStay /\ SnapMoves(s)
    BY <1>4, <2>1, Reading, Writing DEF set_edge_attribute
  <2> QED
    BY <1>4, <2>2, <2>3 DEF set_edge_attribute
<1>5. CASE unlink(s)
  <2> DEFINE e == Op(s).edge
             attr == get_edge_attribute(View(s), User[s], e)
             tr == Op(s).wire[1]
             rc == Op(s).wire[2]
             left == {r \in DOMAIN attr : r # rc \/ attr[r] # tr}
             gone == <<[do |-> "del_edge", edge |-> e, wire |-> Op(s).wire]>>
  <2>1. AllPlain(gone) /\ AllPlain(<<SetAttributes(e, Restrict(attr, left))>>) /\ AllPlain(<<>>)
    BY PlainLists, PlainOps
  <2>2. /\ Rests \/ Sees(s)
        /\ Then(s, gone) \/ Then(s, <<>>) \/ Then(s, <<SetAttributes(e, Restrict(attr, left))>>)
        /\ UNCHANGED mem /\ At(s, "unlink")
    BY <1>5 DEF unlink
  <2> HIDE DEF e, attr, tr, rc, left, gone
  <2> QED
    BY <2>1, <2>2, OpSound, ThenPlain, Reading
<1>6. CASE delete_edge(s)
  <2>1. /\ todo[s] # <<>> /\ IsOver(todo) /\ AllPlain(<<>>)
        /\ OtherTables(db, [db EXCEPT !.edge = Restrict(@, DOMAIN @ \ {Op(s).edge})])
    BY <1>0, <1>6, OpSound, PlainLists, TableChanged DEF delete_edge
  <2>2. PlainlyGoes(s)
    BY <1>6, <2>1, RaisePlain, ThenPlain DEF delete_edge
  <2>3. RowsStay /\ SnapMoves(s)
    BY <1>6, <2>1, Reading, Writing DEF delete_edge
  <2> QED
    BY <1>6, <2>2, <2>3 DEF delete_edge
<1>7. CASE clean_edges(s)
  <2> DEFINE In(m) == <<m, Op(s).wob>>
             dirty == {m \in DOMAIN db.wob : /\ In(m) \in DOMAIN db.edge
                                         /\ ~(DOMAIN db.edge[In(m)] \subseteq Op(s).has)}
             for == [m \in dirty |->
                       [do |-> "clean_edge", edge |-> In(m),
                        attr |-> Restrict(db.edge[In(m)], DOMAIN db.edge[In(m)] \cap Op(s).has)]]
  <2>1. Then(s, Each(for)) /\ At(s, "clean_edges") /\ Rests /\ UNCHANGED mem
    BY <1>7 DEF clean_edges
  <2>2. DOMAIN for \subseteq DOMAIN db.wob
    OBVIOUS
  <2>3. \A m \in DOMAIN for : Plain(for[m])
    BY PlainOps
  <2> HIDE DEF for
  <2>4. AllPlain(Each(for))
    BY <2>2, <2>3, ViewRows, EachPlain
  <2> QED
    BY <2>1, <2>4, OpSound, ThenPlain, Reading
<1>8. CASE CleanEdge(s)
  <2>1. /\ todo[s] # <<>> /\ IsOver(todo) /\ AllPlain(<<>>) /\ OtherTables(db, db)
        /\ OtherTables(db, [db EXCEPT !.edge = Restrict(@, DOMAIN @ \ {Op(s).edge})])
        /\ OtherTables(db, [db EXCEPT !.edge[Op(s).edge] = Op(s).attr])
    BY <1>0, <1>8, OpSound, PlainLists, TableChanged DEF CleanEdge
  <2>2. OtherTables(db, db') /\ UNCHANGED snap /\ UNCHANGED mem /\ Then(s, <<>>)
    BY <1>8, <2>1 DEF CleanEdge
  <2> QED
    BY <2>1, <2>2, ThenPlain, Writing
<1> QED
  BY <1>1, <1>2, <1>3, <1>4, <1>5, <1>6, <1>7, <1>8 DEF Editing

LEMMA SharingQuiet ==
  ASSUME WorkspaceInv, NEW s \in Sessions, Sharing(s)
  PROVE  Quiet(s)
<1> USE DEF Quiet
<1>0. IsDatabase(db)
  BY DEF WorkspaceInv, DatabaseInv
<1>1. CASE admin_grant_wob_to_group(s)
  <2>1. AllPlain(<<[Op(s) EXCEPT !.do = "grant_row"]>>)
    BY <1>1, OpSound, PlainAgain, PlainLists DEF admin_grant_wob_to_group
  <2> QED
    BY <1>1, <2>1, OpSound, ThenPlain, RaisePlain, Reading DEF admin_grant_wob_to_group
<1>2. CASE GrantRow(s)
  <2> DEFINE row == <<Op(s).gid, Op(s).wob>>
  <2>1. AllPlain(<<[Op(s) EXCEPT !.do = "grant_children"]>>) /\ AllPlain(<<>>)
    BY <1>2, OpSound, PlainAgain, PlainLists DEF GrantRow
  <2>2. /\ OtherTables(db, db) /\ OtherTables(db, [db EXCEPT !.read = @ \cup {row}])
        /\ OtherTables(db, [db EXCEPT !.write = @ \cup {row}])
    BY <1>0, TableChanged
  <2>3. OtherTables(db, db') /\ UNCHANGED snap /\ UNCHANGED mem
    BY <1>2, <2>2 DEF GrantRow
  <2> QED
    BY <1>2, <2>1, <2>3, OpSound, ThenPlain, Writing DEF GrantRow
<1>3. CASE GrantChildren(s)
  <2> DEFINE children == {m \in find_wob_by_outbound_edges(View(s), User[s], Op(s).wob) :
                            View(s).wob[m].kind # "DOCKER_JOB"}
             for == [m \in children |-> [Op(s) EXCEPT !.do = "grant", !.wob = m, !.depth = @ + 1]]
  <2>1. Then(s, Each(for)) /\ At(s, "grant_children") /\ Sees(s) /\ UNCHANGED mem
    BY <1>3 DEF GrantChildren
  <2>2. DOMAIN for \subseteq DOMAIN View(s).wob
    BY FoundRows
  <2>3. \A m \in DOMAIN for : Plain(for[m])
    BY <1>3, OpSound, PlainAgain DEF GrantChildren
  <2> HIDE DEF for
  <2>4. AllPlain(Each(for))
    BY <2>2, <2>3, ViewRows, EachPlain
  <2> QED
    BY <2>1, <2>4, OpSound, ThenPlain, Reading
<1>4. CASE admin_revoke_group_from_wob(s)
  <2> DEFINE row == <<Op(s).gid, Op(s).wob>>
             d == [db EXCEPT !.read  = IF "read_acl" \in Op(s).acls THEN @ \ {row} ELSE @,
                             !.write = IF "write_acl" \in Op(s).acls THEN @ \ {row} ELSE @]
  <2>1. AllPlain(<<[Op(s) EXCEPT !.do = "revoke_children"]>>) /\ AllPlain(<<>>)
    BY <1>4, OpSound, PlainAgain, PlainLists DEF admin_revoke_group_from_wob
  <2>2. OtherTables(db, db) /\ OtherTables(db, d)
    BY <1>0, TableChanged, TablesChanged
  <2>3. OtherTables(db, db') /\ UNCHANGED snap /\ UNCHANGED mem
    BY <1>4, <2>2 DEF admin_revoke_group_from_wob
  <2> QED
    BY <1>4, <2>1, <2>3, OpSound, ThenPlain, RaisePlain, Writing DEF admin_revoke_group_from_wob
<1>5. CASE RevokeChildren(s)
  <2> DEFINE for == [m \in find_children(View(s), User[s], Op(s).wob) |->
                       [Op(s) EXCEPT !.do = "revoke", !.wob = m, !.depth = @ + 1, !.acls = {"read_acl"}]]
  <2>1. Then(s, Each(for)) /\ At(s, "revoke_children") /\ Sees(s) /\ UNCHANGED mem
    BY <1>5 DEF RevokeChildren
  <2>2. DOMAIN for \subseteq DOMAIN View(s).wob
    BY FoundRows
  <2>3. \A m \in DOMAIN for : Plain(for[m])
    BY <1>5, OpSound, PlainAgain DEF RevokeChildren
  <2> HIDE DEF for
  <2>4. AllPlain(Each(for))
    BY <2>2, <2>3, ViewRows, EachPlain
  <2> QED
    BY <2>1, <2>4, OpSound, ThenPlain, Reading
<1>6. CASE admin_grant_workflow_to_team(s)
  <2>1. \A acl, ms, x : AllPlain(<<TeamRows(s, acl, ms), [Op(s) EXCEPT !.acls = x]>>)
    <3>1. ASSUME NEW x PROVE Plain([Op(s) EXCEPT !.acls = x])
      <4>1. Op(s).do = "team_grant" /\ "do" \in DOMAIN Op(s)
        BY <1>6, OpSound DEF admin_grant_workflow_to_team
      <4> QED
        BY <4>1 DEF Plain
    <3>2. \A acl, ms : Plain(TeamRows(s, acl, ms))
      BY DEF Plain, TeamRows
    <3> QED
      BY <3>1, <3>2, PlainLists
  <2>2. AllPlain(<<>>)
    BY PlainLists
  <2>3. \E ops : AllPlain(ops) /\ Then(s, ops)
    <3>1. CASE Op(s).acls = {}
      BY <1>6, <2>2, <3>1 DEF admin_grant_workflow_to_team
    <3>2. CASE Op(s).acls # {}
      BY <1>6, <2>1, <3>2 DEF admin_grant_workflow_to_team
    <3> QED
      BY <3>1, <3>2
  <2> QED
    BY <1>6, <2>3, OpSound, ThenPlain, Reading DEF admin_grant_workflow_to_team
<1>7. CASE admin_revoke_workflow_from_team(s)
  <2> DEFINE Of(acl) == TeamRows(s, acl, Connected(Op(s).ko) \cup {Op(s).ko})
             tables == TeamTables(Op(s).acls)
             ops == [i \in DOMAIN tables |-> Of(tables[i])]
  <2>1. Then(s, ops) /\ At(s, "team_revoke") /\ Rests /\ UNCHANGED mem
    BY <1>7 DEF admin_revoke_workflow_from_team
  <2>2. \A acl : Plain(Of(acl))
    BY DEF Plain, TeamRows
  <2>3. IsList(ops) /\ \A op \in Range(ops) : Plain(op)
    <3>1. IsList(tables)
      BY TablesList
    <3> HIDE DEF tables, Of
    <3>2. Len(tables) \in Nat /\ DOMAIN tables = 1 .. Len(tables)
      BY <3>1 DEF IsList
    <3> QED
      BY <2>2, <3>2 DEF IsList, Range
  <2> HIDE DEF ops
  <2>4. AllPlain(ops)
    BY <2>3 DEF AllPlain
  <2> QED
    BY <2>1, <2>4, OpSound, ThenPlain, Reading
<1>8. CASE AclRows(s)
  <2> DEFINE rows == {Op(s).gid} \X (Op(s).wobs \cap DOMAIN db.wob)
             Changed(acl, old) == IF acl # Op(s).acl THEN old
                          ELSE IF Op(s).grants THEN old \cup rows ELSE old \ rows
             d == [db EXCEPT !.read = Changed("read_acl", @), !.write = Changed("write_acl", @)]
  <2>1. OtherTables(db, d)
    BY <1>0, TablesChanged
  <2>2. OtherTables(db, db') /\ UNCHANGED snap /\ UNCHANGED mem /\ Then(s, <<>>) /\ At(s, "team_rows")
    BY <1>8, <2>1 DEF AclRows
  <2> QED
    BY <2>2, OpSound, ThenPlain, PlainLists, Writing
<1> QED
  BY <1>1, <1>2, <1>3, <1>4, <1>5, <1>6, <1>7, <1>8 DEF Sharing

LEMMA GroupingQuiet ==
  ASSUME WorkspaceInv, NEW s \in Sessions, Grouping(s)
  PROVE  Quiet(s)
<1> USE DEF Quiet
<1>0. IsDatabase(db)
  BY DEF WorkspaceInv, DatabaseInv
<1>1. ASSUME NEW op, NEW allowed \in BOOLEAN, Asks(s, op, allowed) PROVE Quiet(s)
  <2>1. AllPlain(<<[Op(s) EXCEPT !.do = "group_row", !.then = op]>>)
    BY <1>1, OpSound, PlainAgain, PlainLists DEF Asks
  <2> QED
    BY <1>1, <2>1, OpSound, ThenPlain, RaisePlain, Reading DEF Asks
<1>2. CASE \/ admin_assign_user_to_group(s) \/ admin_remove_user_from_group(s)
           \/ admin_drop_user_group(s) \/ admin_update_user_group(s)
  <2>1. is_group_owner(User[s], Op(s).gid) \in BOOLEAN /\ can_invite_to_group(User[s], Op(s).gid) \in BOOLEAN
    BY DEF is_group_owner, can_invite_to_group
  <2> QED
    BY <1>1, <1>2, <2>1
    DEF admin_assign_user_to_group, admin_remove_user_from_group, admin_drop_user_group,
        admin_update_user_group
<1>3. CASE admin_create_user_group(s)
  <2>1. OtherTables(db, [db EXCEPT !.group = Put(@, Op(s).gid, Op(s).row)])
    BY <1>0, TableChanged
  <2> QED
    BY <1>3, <2>1, OpSound, ThenPlain, PlainLists, Writing DEF admin_create_user_group
<1>4. CASE _create_organzation(s)
  <2> DEFINE g == Op(s).gid
             created == [do |-> "create_group", gid |-> g,
                         row |-> [owner |-> Op(s).uid, public |-> FALSE, inviting |-> TRUE]]
             joined == [do |-> "group_row", gid |-> g, uid |-> Op(s).uid, then |-> "assign"]
  <2>1. Plain(created) /\ Plain(joined)
    BY DEF Plain
  <2>2. Then(s, <<created, joined>>) /\ At(s, "create_organization") /\ Rests /\ UNCHANGED mem
    BY <1>4 DEF _create_organzation
  <2> HIDE DEF created, joined
  <2> QED
    BY <2>1, <2>2, OpSound, ThenPlain, PlainLists, Reading
<1>5. CASE GroupRow(s)
  <2> DEFINE g == Op(s).gid
  <2>1. /\ OtherTables(db, db)
        /\ OtherTables(db, [db EXCEPT !.member = @ \cup {<<g, Op(s).uid>>}])
        /\ OtherTables(db, [db EXCEPT !.member = @ \ {<<g, Op(s).uid>>}])
        /\ OtherTables(db, [db EXCEPT !.group[g] = Op(s).row])
    BY <1>0, TableChanged
  <2>2. OtherTables(db, [db EXCEPT !.group = Restrict(@, DOMAIN @ \ {g}),
                                   !.member = {r \in @ : r[1] # g}])
    BY <1>0, TablesChanged
  <2> HIDE DEF g
  <2>3. OtherTables(db, db')
    BY <1>5, <2>1, <2>2 DEF GroupRow, g
  <2> QED
    BY <1>5, <2>3, OpSound, ThenPlain, PlainLists, Writing DEF GroupRow
<1> QED
  BY <1>2, <1>3, <1>4, <1>5 DEF Grouping

\* Deleting takes rows away or marks them.
LEMMA DeletingShrinks ==
  ASSUME NEW d, IsDatabase(d), Numbered(d), NEW ms
  PROVE  /\ Evolves(d, Deleted(d, ms)) /\ Evolves(d, Without(d, ms))
         /\ Deleted(d, ms).read = d.read /\ Deleted(d, ms).member = d.member
         /\ Without(d, ms).member = d.member
         /\ Without(d, ms).read = {a \in d.read : a[2] \notin ms}
         /\ DOMAIN Without(d, ms).wob = DOMAIN d.wob \ ms
<1> DEFINE w == [m \in DOMAIN d.wob |-> IF m \in ms THEN [d.wob[m] EXCEPT !.deleted = TRUE] ELSE d.wob[m]]
           r == Restrict(d.wob, DOMAIN d.wob \ ms)
<1>0. \A m \in DOMAIN d.wob : d.wob[m] \in Metadata
  BY DEF Numbered
<1>1. /\ IsDatabase(Deleted(d, ms)) /\ Deleted(d, ms).wob = w /\ Deleted(d, ms).last = d.last
      /\ Deleted(d, ms).read = d.read /\ Deleted(d, ms).member = d.member
  <2> HIDE DEF w
  <2>1. Deleted(d, ms) = [d EXCEPT !.wob = w]
    BY DEF Deleted, w
  <2> QED
    BY <2>1 DEF IsDatabase
<1>2. /\ IsDatabase(Without(d, ms)) /\ Without(d, ms).wob = r /\ Without(d, ms).last = d.last
      /\ Without(d, ms).member = d.member
      /\ Without(d, ms).read = {a \in d.read : a[2] \notin ms}
  <2> HIDE DEF r
  <2>1. /\ Without(d, ms).wob = r /\ Without(d, ms).last = d.last /\ Without(d, ms).member = d.member
        /\ Without(d, ms).read = {a \in d.read : a[2] \notin ms}
    BY DEF IsDatabase, Without, r
  <2>2. IsDatabase(Without(d, ms))
    <3>1. ASSUME NEW a, NEW b, NEW c, NEW f
          PROVE  IsDatabase([d EXCEPT !.wob = a, !.edge = b, !.read = c, !.write = f])
      <4>1. IsDatabase([d EXCEPT !.wob = a])
        BY DEF IsDatabase
      <4>2. IsDatabase([d EXCEPT !.wob = a, !.edge = b])
        BY <4>1, TableChanged DEF OtherTables
      <4>3. IsDatabase([d EXCEPT !.wob = a, !.edge = b, !.read = c])
        BY <4>2, TableChanged DEF OtherTables
      <4> QED
        BY <4>3, TableChanged DEF OtherTables
    <3> QED
      BY <3>1 DEF Without
  <2> QED
    BY <2>1, <2>2
<1>3. ASSUME NEW m \in DOMAIN d.wob PROVE SameRow(d.wob[m], w[m])
  <2>1. w[m] = d.wob[m] \/ w[m] = [d.wob[m] EXCEPT !.deleted = TRUE]
    OBVIOUS
  <2> HIDE DEF w
  <2> QED
    BY <1>0, <2>1 DEF SameRow, Metadata
<1>4. Shrinks(d, Deleted(d, ms))
  BY <1>1, <1>3 DEF Shrinks
<1>5. Shrinks(d, Without(d, ms)) /\ DOMAIN r = DOMAIN d.wob \ ms
  <2>1. DOMAIN r = DOMAIN d.wob \ ms /\ \A m \in DOMAIN r : r[m] = d.wob[m]
    BY DEF Restrict
  <2> HIDE DEF r
  <2> QED
    BY <1>0, <1>2, <2>1 DEF Shrinks, SameRow
<1> HIDE DEF w, r
<1> QED
  BY <1>1, <1>2, <1>4, <1>5 DEF Evolves

LEMMA DeletionQuiet ==
  ASSUME WorkspaceInv, NEW s \in Sessions, Deletion(s)
  PROVE  Quiet(s)
<1> USE DEF Quiet
<1>0. IsDatabase(db) /\ \A ms : Evolves(db, Deleted(db, ms)) /\ Evolves(db, Without(db, ms))
  BY ViewRows, DeletingShrinks DEF WorkspaceInv, DatabaseInv
<1>1. ASSUME NEW d, Commits(s, d) \/ (db' = d /\ UNCHANGED snap) PROVE SnapMoves(s)
  BY <1>1 DEF Commits, SnapMoves, WorkspaceInv, Functions, IsOver
<1>2. CASE delete_project(s)
  <2>1. Plain([do |-> "delete", wob |-> Op(s).ko, cascading |-> TRUE, hard |-> TRUE])
    BY DEF Plain
  <2>2. AllPlain(<<[do |-> "delete", wob |-> Op(s).ko, cascading |-> TRUE, hard |-> TRUE]>>)
    BY <2>1, PlainLists
  <2> QED
    BY <1>2, <2>2, OpSound, ThenPlain, Reading DEF delete_project
<1>3. CASE admin_soft_delete_object(s)
  BY <1>0, <1>1, <1>3, OpSound, ThenPlain, PlainLists DEF admin_soft_delete_object
<1>4. CASE DeleteGraph(s)
  <2>1. Plain([Op(s) EXCEPT !.cascading = FALSE])
    <3>1. Op(s).do = "delete" /\ "do" \in DOMAIN Op(s)
      BY <1>4, OpSound DEF DeleteGraph
    <3> QED
      BY <3>1 DEF Plain
  <2>2. AllPlain(<<[Op(s) EXCEPT !.cascading = FALSE]>>)
    BY <2>1, PlainLists
  <2>3. \E ms : Commits(s, Deleted(db, ms)) \/ Commits(s, Without(db, ms))
    BY <1>4 DEF DeleteGraph
  <2>4. Evolves(db, db') /\ SnapMoves(s)
    BY <1>0, <1>1, <2>3 DEF Commits
  <2> QED
    BY <1>4, <2>2, <2>4, OpSound, ThenPlain DEF DeleteGraph
<1>5. CASE sp_delete_object(s)
  <2>3. \E ms : Commits(s, Deleted(db, ms)) \/ Commits(s, Without(db, ms))
    BY <1>5 DEF sp_delete_object
  <2>4. Evolves(db, db') /\ SnapMoves(s)
    BY <1>0, <1>1, <2>3 DEF Commits
  <2> QED
    BY <1>5, <2>4, OpSound, ThenPlain, PlainLists DEF sp_delete_object
<1> QED
  BY <1>2, <1>3, <1>4, <1>5 DEF Deletion

-----------------------------------------------------------------------------
(* New objects and clones. *)

\* A row that may be inserted: it names no clone, and no id not yet given.
Fresh(d, row) ==
  /\ row \in Metadata /\ row.cloned_from <= d.last
  /\ row.kind = "CODE" /\ row.cloned_from \in DOMAIN d.wob =>
       d.wob[row.cloned_from].cloned_from = NoOrigin

LEMMA Inserting ==
  ASSUME WorkspaceInv, NEW row, Fresh(db, row)
  PROVE  /\ Evolves(db, Inserted(row))
         /\ Inserted(row).read = db.read /\ Inserted(row).member = db.member
<1> DEFINE n == db.last + 1
           w == Put(db.wob, n, row)
           d == Inserted(row)
<1>0. IsDatabase(db) /\ db.last \in Nat /\ DOMAIN db.wob \subseteq 1 .. db.last
  BY DEF WorkspaceInv, DatabaseInv, KnownRows, Known
<1>1. DOMAIN w = DOMAIN db.wob \cup {n} /\ w[n] = row /\ n \notin DOMAIN db.wob
  BY <1>0 DEF Put
<1>2. \A m \in DOMAIN db.wob : w[m] = db.wob[m]
  BY <1>1 DEF Put
<1> HIDE DEF w
<1>3. d.wob = w /\ d.last = n /\ d.read = db.read /\ d.member = db.member
  <2>1. d = [db EXCEPT !.wob = w, !.last = n]
    BY DEF Inserted, w
  <2> HIDE DEF d, n
  <2> QED
    BY <1>0, <2>1 DEF IsDatabase
<1>4. IsDatabase(d)
  <2>1. d = [db EXCEPT !.wob = w, !.last = n]
    BY DEF Inserted, w
  <2> HIDE DEF d, n
  <2> QED
    BY <1>0, <2>1 DEF IsDatabase
<1> HIDE DEF d
<1>5. Grows(db, d)
  BY <1>1, <1>2, <1>3 DEF Grows, Fresh
<1> QED
  BY <1>3, <1>4, <1>5 DEF Evolves, d

LEMMA NewRow ==
  ASSUME WorkspaceInv, NEW s \in Sessions
  PROVE  Fresh(db, New(s, "CODE", NoOrigin, FALSE))
<1>1. User[s] \in Users
  BY WorkspaceAssumption
<1>2. db.last \in Nat /\ DOMAIN db.wob \subseteq 1 .. db.last /\ 0 \notin DOMAIN db.wob
  BY ViewRows
<1> QED
  BY <1>1, <1>2 DEF Fresh, New, Metadata, Kinds, NoOrigin

LEMMA CloneRow ==
  ASSUME WorkspaceInv, NEW s \in Sessions, NEW m, NEW row, Known(db, m, row), NEW subscribes \in BOOLEAN
  PROVE  Fresh(db, Clone(s, row, m, subscribes))
<1> DEFINE o == ClonedFrom(row, m)
           c == Clone(s, row, m, subscribes)
<1>1. User[s] \in Users
  BY WorkspaceAssumption
<1>2. db.last \in Nat /\ row.kind \in Kinds /\ row.cloned_from \in Nat /\ row.cloned_from <= db.last
  BY ViewRows DEF Known, Metadata
<1>3. o \in Nat /\ o <= db.last
  BY <1>2 DEF ClonedFrom, Known
<1>4. row.kind = "CODE" /\ o \in DOMAIN db.wob => db.wob[o].cloned_from = NoOrigin
  BY DEF ClonedFrom, Known
<1> HIDE DEF o
<1>5. c = [owner |-> User[s], kind |-> row.kind, deleted |-> FALSE, cloned_from |-> o,
           subscribes |-> subscribes]
  BY DEF Clone, New, o
<1> HIDE DEF c
<1>6. c \in Metadata /\ c.kind = row.kind /\ c.cloned_from = o
  BY <1>1, <1>2, <1>3, <1>5 DEF Metadata
<1>7. Fresh(db, c)
  BY <1>3, <1>4, <1>6 DEF Fresh
<1> QED
  BY <1>7 DEF c

\* A step that inserts a row.
Inserts(s) == \E row : Fresh(db, row) /\ CommitsAndLoads(s, Inserted(row))

LEMMA InsertsEvolves ==
  ASSUME WorkspaceInv, NEW s \in Sessions, Inserts(s)
  PROVE  /\ Evolves(db, db') /\ SnapMoves(s) /\ snap'[s] = db'
         /\ db'.read = db.read /\ db'.member = db.member
<1>1. PICK row : Fresh(db, row) /\ CommitsAndLoads(s, Inserted(row))
  BY DEF Inserts
<1>2. SnapMoves(s) /\ snap'[s] = db'
  BY <1>1 DEF CommitsAndLoads, SnapMoves, WorkspaceInv, Functions, IsOver
<1> QED
  BY <1>1, <1>2, Inserting DEF CommitsAndLoads

\* The lists of transactions that are not plain are sound.
SoundlyGoes(s) ==
  \E ops : /\ IsList(ops) /\ Then(s, ops)
           /\ \A op \in Range(ops) : Sound(db', op) /\ Due(s, op)

MemoryMoves(s) ==
  \E m : /\ m = [made |-> m.made, copies |-> m.copies, pairs |-> m.pairs] /\ IsList(m.pairs)
         /\ mem' = [mem EXCEPT ![s] = m]

LEMMA MemoryStays ==
  ASSUME WorkspaceInv, NEW s \in Sessions
  PROVE  /\ UNCHANGED mem => MemoryMoves(s)
         /\ \A n : mem' = [mem EXCEPT ![s].made = n] => MemoryMoves(s)
         /\ \A x : mem' = [mem EXCEPT ![s].copies = x] => MemoryMoves(s)
         /\ \A q : IsList(q) /\ mem' = [mem EXCEPT ![s].pairs = q] => MemoryMoves(s)
         /\ \A n, x, q : IsList(q) /\ mem' = [mem EXCEPT ![s] = [made |-> n, copies |-> x, pairs |-> q]]
                           => MemoryMoves(s)
<1> DEFINE r == mem[s]
<1>0. IsOver(mem) /\ r = [made |-> r.made, copies |-> r.copies, pairs |-> r.pairs] /\ IsList(r.pairs)
  BY DEF WorkspaceInv, MemoryInv, Functions
<1>1. ASSUME NEW n, NEW x, NEW q, IsList(q),
             mem' = [mem EXCEPT ![s] = [made |-> n, copies |-> x, pairs |-> q]]
      PROVE  MemoryMoves(s)
  BY <1>1 DEF MemoryMoves
<1>2. UNCHANGED mem => MemoryMoves(s)
  <2>1. mem = [mem EXCEPT ![s] = r]
    BY <1>0 DEF IsOver
  <2> QED
    BY <1>0, <2>1 DEF MemoryMoves
<1>3. ASSUME NEW n, mem' = [mem EXCEPT ![s].made = n] PROVE MemoryMoves(s)
  <2>1. [r EXCEPT !.made = n] = [made |-> n, copies |-> r.copies, pairs |-> r.pairs]
    BY <1>0
  <2>2. mem' = [mem EXCEPT ![s] = [made |-> n, copies |-> r.copies, pairs |-> r.pairs]]
    BY <1>3, <2>1
  <2> QED
    BY <1>0, <1>1, <2>2
<1>4. ASSUME NEW x, mem' = [mem EXCEPT ![s].copies = x] PROVE MemoryMoves(s)
  <2>1. [r EXCEPT !.copies = x] = [made |-> r.made, copies |-> x, pairs |-> r.pairs]
    BY <1>0
  <2>2. mem' = [mem EXCEPT ![s] = [made |-> r.made, copies |-> x, pairs |-> r.pairs]]
    BY <1>4, <2>1
  <2> QED
    BY <1>0, <1>1, <2>2
<1>5. ASSUME NEW q, IsList(q), mem' = [mem EXCEPT ![s].pairs = q] PROVE MemoryMoves(s)
  <2>1. [r EXCEPT !.pairs = q] = [made |-> r.made, copies |-> r.copies, pairs |-> q]
    BY <1>0
  <2>2. mem' = [mem EXCEPT ![s] = [made |-> r.made, copies |-> r.copies, pairs |-> q]]
    BY <1>5, <2>1
  <2> QED
    BY <1>5, <1>1, <2>2
<1> QED
  BY <1>1, <1>2, <1>3, <1>4, <1>5

LEMMA EffectOf ==
  ASSUME WorkspaceInv, NEW s \in Sessions, todo[s] # <<>>,
         RowsStay \/ Evolves(db, db'), SnapMoves(s), SoundlyGoes(s), MemoryMoves(s)
  PROVE  Effect(s)
<1>1. Evolves(db, db')
  BY DEF RowsStay, Evolves, Shrinks, SameRow, WorkspaceInv, DatabaseInv, KnownRows, Known
<1>2. PICK ops : /\ IsList(ops) /\ Then(s, ops)
                 /\ \A op \in Range(ops) : Sound(db', op) /\ Due(s, op)
  BY DEF SoundlyGoes
<1>3. GoesOn(s, ops) /\ calls' = [calls EXCEPT ![s] = calls[s]]
  BY <1>2 DEF Then, GoesOn, WorkspaceInv, Functions, IsOver
<1> QED
  BY <1>1, <1>2, <1>3 DEF Effect, MemoryMoves

LEMMA PlainSoundly ==
  ASSUME NEW s \in Sessions, NEW ops, AllPlain(ops), Then(s, ops)
  PROVE  SoundlyGoes(s)
  BY DEF SoundlyGoes, AllPlain, Plain, Sound, Due

\* The nodes that a session found are sound to copy, and other transactions
\* may follow them.
LEMMA CopyNodeSound ==
  ASSUME WorkspaceInv, NEW s \in Sessions, NEW d \in {db, View(s)}, RowsStay,
         NEW for, DOMAIN for \subseteq DOMAIN d.wob, NEW child \in BOOLEAN,
         \A m \in DOMAIN for : for[m] = CopyNode(d, m, child),
         Then(s, Each(for))
  PROVE  SoundlyGoes(s)
<1>1. KnownRows(db, d) /\ d.last \in Nat /\ DOMAIN d.wob \subseteq 1 .. d.last
  BY ViewRows
<1>2. ASSUME NEW m \in DOMAIN for PROVE Sound(db', for[m]) /\ Due(s, for[m])
  <2>1. Known(db', m, d.wob[m])
    BY <1>1, <1>2 DEF RowsStay, KnownRows, Known
  <2>2. for[m].do = "copy_node" /\ "do" \in DOMAIN for[m] /\ for[m].wob = m /\ for[m].row = d.wob[m]
    BY <1>2 DEF CopyNode
  <2> QED
    BY <2>1, <2>2 DEF Sound, Due
<1>3. IsList(Each(for)) /\ Range(Each(for)) \subseteq {for[m] : m \in DOMAIN for}
  BY <1>1, EachList
<1>4. \A op \in Range(Each(for)) : Sound(db', op) /\ Due(s, op)
  BY <1>2, <1>3
<1> QED
  BY <1>3, <1>4 DEF SoundlyGoes

LEMMA CreationEffect ==
  ASSUME WorkspaceInv, NEW s \in Sessions, Creation(s)
  PROVE  Effect(s)
<1>1. CASE create_wob(s)
  <2> DEFINE n == db.last + 1
             ko == Op(s).ko
             acls == [do |-> "copy_acls", ko |-> ko, wob |-> n]
  <2>1. Inserts(s)
    BY <1>1, NewRow DEF create_wob, Inserts
  <2>2. Then(s, <<AddEdge(ko, n), acls>>) /\ mem' = [mem EXCEPT ![s].made = n] /\ At(s, "create_wob")
    BY <1>1 DEF create_wob
  <2>3. Evolves(db, db') /\ SnapMoves(s) /\ snap'[s] = db'
    BY <2>1, InsertsEvolves
  <2>4. Sound(db', AddEdge(ko, n)) /\ Due(s, AddEdge(ko, n)) /\ Sound(db', acls) /\ Due(s, acls)
    BY <2>3 DEF Sound, Due, AddEdge
  <2> HIDE DEF n, ko, acls
  <2>5. SoundlyGoes(s)
    BY <2>2, <2>4, ListOf DEF SoundlyGoes
  <2> QED
    BY <2>2, <2>3, <2>5, OpSound, MemoryStays, EffectOf
<1>2. CASE sp_link(s) \/ insert_acls(s)
  BY <1>2, CreationQuiet, QuietEffect DEF Quiet
<1>3. CASE copy_ko_acls(s)
  <2> DEFINE Of(acl) == {g \in Groups : <<g, User[s]>> \in View(s).member /\ <<g, Op(s).ko>> \in acl}
             readers == Of(View(s).read)
             writers == IF readers = {} THEN {} ELSE Of(View(s).write)
             insert == [do |-> "insert_acls", ko |-> Op(s).ko, wob |-> Op(s).wob,
                        read |-> readers, write |-> writers]
  <2>1. Then(s, <<insert>>) /\ Sees(s) /\ UNCHANGED mem /\ At(s, "copy_acls")
    BY <1>3 DEF copy_ko_acls
  <2>2. Op(s).do = "copy_acls" /\ Op(s) \in Range(todo[s]) /\ todo[s] # <<>>
    BY <2>1, OpSound
  <2>3. Followed(s)
    BY <2>2 DEF Followed
  <2>4. Sound(db', insert)
    BY DEF Sound
  <2>5. Due(s, insert)
    <3>1. insert.do = "insert_acls" /\ insert.ko = Op(s).ko /\ insert.read = readers
      OBVIOUS
    <3> HIDE DEF insert
    <3> QED
      BY <2>3, <3>1 DEF Due
  <2> HIDE DEF insert
  <2>6. SoundlyGoes(s)
    BY <2>1, <2>4, <2>5, ListOf DEF SoundlyGoes
  <2> QED
    BY <2>1, <2>2, <2>6, Reading, MemoryStays, EffectOf
<1> QED
  BY <1>1, <1>2, <1>3 DEF Creation

LEMMA CallEffect ==
  ASSUME WorkspaceInv, NEW s \in Sessions, Call(s)
  PROVE  Effect(s)
<1> DEFINE first == Head(calls[s])
<1>1. Client(first)
  BY ListRest DEF Call, WorkspaceInv, ListInv
<1>2. Sound(db', first) /\ Due(s, first)
  BY <1>1 DEF Client, ClientCalls, Sound, Due
<1> HIDE DEF first
<1>3. <<first>> = <<first>> \o <<>>
  OBVIOUS
<1>4. todo' = [todo EXCEPT ![s] = <<first>> \o <<>>]
  BY <1>3 DEF Call, first
<1>5. IsList(<<first>>) /\ Range(<<first>>) = {first} /\ GoesOn(s, <<first>>)
  BY <1>4, ListOf DEF GoesOn
<1>6. RowsStay /\ SnapMoves(s) /\ MemoryMoves(s)
  BY Reading, MemoryStays DEF Call
<1>7. Evolves(db, db')
  BY <1>6 DEF RowsStay, Evolves, Shrinks, SameRow, WorkspaceInv, DatabaseInv, KnownRows, Known
<1>8. calls' = [calls EXCEPT ![s] = Tail(calls[s])] /\ calls[s] # <<>>
  BY DEF Call
<1> QED
  BY <1>2, <1>5, <1>6, <1>7, <1>8 DEF Effect, MemoryMoves

LEMMA CloningQuiet ==
  ASSUME WorkspaceInv, NEW s \in Sessions,
         make_single_user(s) \/ CopyLinks(s) \/ LinkMade(s) \/ CopyEdges(s) \/ CopyEdge(s)
  PROVE  Quiet(s)
<1> USE DEF Quiet
<1>1. CASE make_single_user(s)
  <2> DEFINE e == Op(s).edge
             clone == [do |-> "clone_object", wob |-> e[2], subscribes |-> FALSE]
             links == [do |-> "copy_links", wob |-> e[2], inbound |-> TRUE]
             gone == [do |-> "del_edge", edge |-> e, wire |-> None]
             made == [do |-> "link_made", ko |-> e[1]]
  <2>1. Plain(clone) /\ Plain(links) /\ Plain(gone) /\ Plain(made)
    BY DEF Plain
  <2>2. Then(s, <<clone, links, gone, made>>) /\ At(s, "make_single_user") /\ Rests /\ UNCHANGED mem
    BY <1>1 DEF make_single_user
  <2> HIDE DEF clone, links, gone, made
  <2> QED
    BY <2>1, <2>2, OpSound, ThenPlain, PlainLists, Reading
<1>2. CASE CopyLinks(s)
  <2> DEFINE d == IF Op(s).inbound THEN db ELSE View(s)
             new == mem[s].made
             Linked(from, to) == [do |-> "link", edge |-> <<from, to>>, wire |-> None]
             in == [n \in find_wob_by_inbound_edges(d, User[s], Op(s).wob) |-> Linked(n, new)]
             out == [n \in find_wob_by_outbound_edges(d, User[s], Op(s).wob) |-> Linked(new, n)]
             again == [Op(s) EXCEPT !.inbound = FALSE]
  <2>1. /\ snap' = [snap EXCEPT ![s] = d] /\ UNCHANGED db /\ UNCHANGED mem /\ At(s, "copy_links")
        /\ Then(s, Each(in) \o <<again>>) \/ Then(s, Each(out))
    BY <1>2 DEF CopyLinks
  <2>2. d \in {db, View(s)}
    OBVIOUS
  <2>3. d.last \in Nat /\ DOMAIN d.wob \subseteq 1 .. d.last
    BY <2>2, ViewRows
  <2>4. Plain(again)
    <3>1. Op(s).do = "copy_links" /\ "do" \in DOMAIN Op(s)
      BY <2>1, OpSound
    <3> QED
      BY <3>1 DEF Plain
  <2>5. RowsStay /\ SnapMoves(s)
    BY <2>1, <2>2 DEF RowsStay, SnapMoves, View, WorkspaceInv, DatabaseInv
  <2> HIDE DEF d, new
  <2>6. DOMAIN in \subseteq DOMAIN d.wob /\ DOMAIN out \subseteq DOMAIN d.wob
    BY FoundRows
  <2>7. (\A n \in DOMAIN in : Plain(in[n])) /\ (\A n \in DOMAIN out : Plain(out[n]))
    BY PlainOps
  <2> HIDE DEF in, out, again
  <2>8. AllPlain(Each(in)) /\ AllPlain(Each(out)) /\ AllPlain(<<again>>)
    BY <2>3, <2>4, <2>6, <2>7, EachPlain, PlainLists
  <2>9. AllPlain(Each(in) \o <<again>>)
    BY <2>8, PlainAfter
  <2> QED
    BY <2>1, <2>5, <2>8, <2>9, OpSound, ThenPlain
<1>3. CASE LinkMade(s)
  <2>1. AllPlain(<<[do |-> "link", edge |-> <<Op(s).ko, mem[s].made>>, wire |-> None]>>)
    BY PlainOps, PlainLists
  <2> QED
    BY <1>3, <2>1, OpSound, ThenPlain, Reading DEF LinkMade
<1>4. CASE CopyEdges(s)
  <2> DEFINE es == mem[s].pairs
             ops == [i \in DOMAIN es |-> [do |-> "copy_edge", edge |-> es[i]]]
  <2>1. Then(s, ops) /\ At(s, "copy_edges") /\ Rests /\ UNCHANGED mem
    BY <1>4 DEF CopyEdges
  <2>2. Len(es) \in Nat /\ DOMAIN es = 1 .. Len(es)
    BY DEF WorkspaceInv, MemoryInv, IsList
  <2> HIDE DEF es
  <2>3. \A i \in DOMAIN ops : Plain(ops[i])
    BY PlainOps
  <2>4. IsList(ops) /\ Range(ops) = {ops[i] : i \in DOMAIN ops}
    BY <2>2 DEF IsList, Range
  <2> HIDE DEF ops
  <2>5. AllPlain(ops)
    BY <2>3, <2>4 DEF AllPlain
  <2> QED
    BY <2>1, <2>5, OpSound, ThenPlain, Reading
<1>5. CASE CopyEdge(s)
  <2>1. \A a, b, e, x : AllPlain(<<AddEdge(a, b), SetAttributes(e, x)>>)
    BY PlainOps, PlainLists
  <2>2. PlainlyGoes(s)
    BY <1>5, <2>1, OpSound, ThenPlain, RaisePlain DEF CopyEdge
  <2> QED
    BY <1>5, <2>2, Reading DEF CopyEdge
<1> QED
  BY <1>1, <1>2, <1>3, <1>4, <1>5

LEMMA CloneProjectEffect ==
  ASSUME WorkspaceInv, NEW s \in Sessions, clone_project(s)
  PROVE  Effect(s)
<1> DEFINE ko == Op(s).ko
           d == View(s)
           n == db.last + 1
<1>1. CASE Loads(d, User[s], ko) /\ IsProject(d, ko)
  <2> DEFINE nodes == [do |-> "copy_nodes", ko |-> ko]
             edges == [do |-> "copy_edges"]
             cloned == [do |-> "cloned", ko |-> ko]
  <2>1. /\ CommitsAndLoads(s, Inserted(Clone(s, d.wob[ko], ko, FALSE)))
        /\ mem' = [mem EXCEPT ![s] = [made |-> n, copies |-> Put(<<>>, n, n), pairs |-> <<>>]]
        /\ Then(s, <<nodes, edges, cloned>>) /\ At(s, "clone_project")
    BY <1>1 DEF clone_project
  <2>2. Known(db, ko, d.wob[ko])
    BY <1>1, ViewRows DEF Loads, KnownRows
  <2>3. Inserts(s)
    BY <2>1, <2>2, CloneRow DEF Inserts
  <2>4. Evolves(db, db') /\ SnapMoves(s) /\ snap'[s] = db'
    BY <2>3, InsertsEvolves
  <2>5. /\ Sound(db', nodes) /\ Sound(db', edges) /\ Sound(db', cloned)
        /\ Due(s, nodes) /\ Due(s, edges) /\ Due(s, cloned)
    BY <2>4 DEF Sound, Due
  <2> HIDE DEF nodes, edges, cloned, n, ko, d
  <2>6. SoundlyGoes(s)
    BY <2>1, <2>5, ListOf DEF SoundlyGoes
  <2>7. MemoryMoves(s)
    BY <2>1, ListOf, MemoryStays
  <2> QED
    BY <2>1, <2>4, <2>6, <2>7, OpSound, EffectOf
<1>2. CASE ~(Loads(d, User[s], ko) /\ IsProject(d, ko))
  <2>1. Sees(s) /\ Raise(s) /\ UNCHANGED mem /\ At(s, "clone_project")
    BY <1>2 DEF clone_project
  <2> QED
    BY <2>1, OpSound, RaisePlain, Reading, QuietEffect
<1> QED
  BY <1>1, <1>2

LEMMA CloneObjectEffect ==
  ASSUME WorkspaceInv, NEW s \in Sessions, clone_object(s)
  PROVE  Effect(s)
<1> DEFINE m == IF Op(s).wob = None THEN mem[s].made ELSE Op(s).wob
           d == View(s)
<1>1. CASE Loads(d, User[s], m)
  <2>1. /\ CommitsAndLoads(s, Inserted(Clone(s, d.wob[m], m, Op(s).subscribes)))
        /\ mem' = [mem EXCEPT ![s].made = db.last + 1]
        /\ Then(s, <<>>) /\ At(s, "clone_object")
    BY <1>1 DEF clone_object
  <2>2. Known(db, m, d.wob[m]) /\ Op(s).subscribes \in BOOLEAN
    BY <1>1, <2>1, ViewRows, OpSound DEF Loads, KnownRows, Sound
  <2> HIDE DEF m, d
  <2>3. Inserts(s)
    BY <2>1, <2>2, CloneRow DEF Inserts
  <2> QED
    BY <2>1, <2>3, InsertsEvolves, OpSound, PlainLists, PlainSoundly, MemoryStays, EffectOf
<1>2. CASE ~Loads(d, User[s], m)
  <2>1. Sees(s) /\ Raise(s) /\ UNCHANGED mem /\ At(s, "clone_object")
    BY <1>2 DEF clone_object
  <2> QED
    BY <2>1, OpSound, RaisePlain, Reading, QuietEffect
<1> QED
  BY <1>1, <1>2

LEMMA CopyNodesEffect ==
  ASSUME WorkspaceInv, NEW s \in Sessions, CopyNodes(s)
  PROVE  Effect(s)
<1> DEFINE d == View(s)
           for == [m \in find_children(d, User[s], Op(s).ko) |-> CopyNode(d, m, TRUE)]
<1>1. Then(s, Each(for)) /\ Sees(s) /\ UNCHANGED mem /\ At(s, "copy_nodes")
  BY DEF CopyNodes
<1>2. DOMAIN for \subseteq DOMAIN d.wob
  BY FoundRows
<1>3. \A m \in DOMAIN for : for[m] = CopyNode(d, m, TRUE)
  OBVIOUS
<1>4. RowsStay /\ SnapMoves(s) /\ MemoryMoves(s) /\ todo[s] # <<>>
  BY <1>1, Reading, MemoryStays, OpSound
<1> HIDE DEF for
<1>5. SoundlyGoes(s)
  BY <1>1, <1>2, <1>3, <1>4, CopyNodeSound
<1> QED
  BY <1>4, <1>5, EffectOf

LEMMA CloneFromOrgEffect ==
  ASSUME WorkspaceInv, NEW s \in Sessions, clone_from_org(s)
  PROVE  Effect(s)
<1> DEFINE m == Op(s).wob
           n == db.last + 1
           in == [do |-> "copy_in", wob |-> m]
           out == [do |-> "copy_out", wob |-> m]
           next == IF Op(s).child THEN <<in, out>> ELSE <<>>
           done == m \in DOMAIN mem[s].copies \/ Op(s).row.kind = "DOCKER_JOB"
<1>1. todo[s] # <<>> /\ IsOver(todo) /\ Known(db, m, Op(s).row)
  BY OpSound DEF clone_from_org, Sound
<1>2. AllPlain(next)
  BY PlainLists, PlainOps
<1>3. /\ done => Then(s, next) /\ Rests /\ UNCHANGED mem
      /\ ~done => /\ CommitsAndLoads(s, Inserted(Clone(s, Op(s).row, m, FALSE)))
                  /\ mem' = [mem EXCEPT ![s].copies = Put(@, m, n)]
                  /\ Then(s, <<AddEdge(mem[s].made, n)>> \o next)
  BY DEF clone_from_org
<1> HIDE DEF next, done
<1>4. CASE done
  BY <1>1, <1>2, <1>3, <1>4, ThenPlain, Reading, QuietEffect
<1>5. CASE ~done
  <2>1. Inserts(s)
    BY <1>1, <1>3, <1>5, CloneRow DEF Inserts
  <2>2. AllPlain(<<AddEdge(mem[s].made, n)>>)
    BY PlainOps, PlainLists
  <2>3. SoundlyGoes(s)
    BY <1>2, <1>3, <1>5, <2>2, PlainAfter, PlainSoundly
  <2> QED
    BY <1>1, <1>3, <1>5, <2>1, <2>3, InsertsEvolves, MemoryStays, EffectOf
<1> QED
  BY <1>4, <1>5

LEMMA NeighboursMove ==
  ASSUME WorkspaceInv, NEW s \in Sessions, NEW d \in {db, View(s)}, RowsStay,
         NEW pair, DOMAIN pair \subseteq DOMAIN d.wob, Neighbours(s, d, pair)
  PROVE  SoundlyGoes(s) /\ MemoryMoves(s)
<1> DEFINE new == {m \in DOMAIN pair : d.wob[m].kind # "DOCKER_JOB" /\ ~Contains(mem[s].pairs, pair[m])}
           for == [m \in DOMAIN pair |-> CopyNode(d, m, FALSE)]
           more == [m \in new |-> pair[m]]
<1>1. Then(s, Each(for)) /\ mem' = [mem EXCEPT ![s].pairs = @ \o Each(more)]
  BY DEF Neighbours
<1>2. DOMAIN for \subseteq DOMAIN d.wob /\ \A m \in DOMAIN for : for[m] = CopyNode(d, m, FALSE)
  OBVIOUS
<1>3. DOMAIN more \subseteq 1 .. d.last /\ d.last \in Nat
  BY ViewRows
<1> HIDE DEF for, more
<1>4. SoundlyGoes(s)
  BY <1>1, <1>2, CopyNodeSound
<1>5. IsList(mem[s].pairs) /\ IsList(Each(more))
  BY <1>3, EachList DEF WorkspaceInv, MemoryInv
<1>6. IsList(mem[s].pairs \o Each(more))
  BY <1>5, ListAfter
<1> QED
  BY <1>1, <1>4, <1>6, MemoryStays

LEMMA NeighboursEffect ==
  ASSUME WorkspaceInv, NEW s \in Sessions, CopyInbound(s) \/ CopyOutbound(s)
  PROVE  Effect(s)
<1>1. CASE CopyInbound(s)
  <2> DEFINE pair == [m \in find_wob_by_inbound_edges(db, User[s], Op(s).wob) |-> <<m, Op(s).wob>>]
  <2>1. /\ Neighbours(s, db, pair) /\ At(s, "copy_in")
        /\ snap' = [snap EXCEPT ![s] = db] /\ UNCHANGED db
    BY <1>1 DEF CopyInbound
  <2>2. DOMAIN pair \subseteq DOMAIN db.wob
    BY FoundRows
  <2>3. RowsStay /\ SnapMoves(s)
    BY <2>1 DEF RowsStay, SnapMoves, WorkspaceInv, DatabaseInv
  <2> HIDE DEF pair
  <2> QED
    BY <2>1, <2>2, <2>3, NeighboursMove, OpSound, EffectOf
<1>2. CASE CopyOutbound(s)
  <2> DEFINE d == View(s)
             pair == [m \in find_children(d, User[s], Op(s).wob) |-> <<Op(s).wob, m>>]
  <2>1. Neighbours(s, d, pair) /\ At(s, "copy_out") /\ Sees(s)
    BY <1>2 DEF CopyOutbound
  <2>2. DOMAIN pair \subseteq DOMAIN d.wob
    BY FoundRows
  <2> HIDE DEF pair
  <2> QED
    BY <2>1, <2>2, Reading, NeighboursMove, OpSound, EffectOf
<1> QED
  BY <1>1, <1>2

\* Every step of a session is such an effect.
LEMMA StepEffect ==
  ASSUME WorkspaceInv, NEW s \in Sessions, Step(s)
  PROVE  Effect(s)
<1>1. CASE Call(s)
  BY <1>1, CallEffect
<1>2. CASE Return(s) \/ Look(s)
  BY <1>2, CreationQuiet, QuietEffect DEF Quiet
<1>3. CASE Creation(s)
  BY <1>3, CreationEffect
<1>4. CASE Editing(s)
  BY <1>4, EditingQuiet, QuietEffect DEF Quiet
<1>5. CASE Cloning(s)
  BY <1>5, CloneObjectEffect, CloneProjectEffect, CopyNodesEffect, CloneFromOrgEffect,
     NeighboursEffect, CloningQuiet, QuietEffect DEF Cloning, Quiet
<1>6. CASE Sharing(s)
  BY <1>6, SharingQuiet, QuietEffect DEF Quiet
<1>7. CASE Grouping(s)
  BY <1>7, GroupingQuiet, QuietEffect DEF Quiet
<1>8. CASE Deletion(s)
  BY <1>8, DeletionQuiet, QuietEffect DEF Quiet
<1> QED
  BY <1>1, <1>2, <1>3, <1>4, <1>5, <1>6, <1>7, <1>8 DEF Step

-----------------------------------------------------------------------------
LEMMA InitInv == Init => WorkspaceInv
<1> SUFFICES ASSUME Init PROVE WorkspaceInv
  OBVIOUS
<1>1. PICK c \in Scenarios :
        /\ db = c.db /\ calls = c.calls
        /\ snap = [s \in Sessions |-> None]
        /\ todo = [s \in Sessions |-> <<>>]
        /\ mem = [s \in Sessions |-> [made |-> None, copies |-> <<>>, pairs |-> <<>>]]
  BY DEF Init
<1> DEFINE All == UNION {Range(c.calls[s]) : s \in Sessions}
<1>2. /\ IsDatabase(db) /\ Numbered(db) /\ Originals(db)
      /\ calls \in [Sessions -> Seq(All)]
      /\ \A s \in Sessions : \A call \in Range(calls[s]) :
           /\ "do" \in DOMAIN call /\ call.do \in ClientCalls
           /\ call.do = "clone_object" => call.subscribes \in BOOLEAN
  BY <1>1, WorkspaceAssumption
<1> HIDE DEF All
<1>3. Functions
  BY <1>1, <1>2 DEF Functions, IsOver
<1>4. DatabaseInv
  <2>1. db.last \in Nat /\ KnownRows(db, db)
    BY <1>2 DEF Numbered, Originals, KnownRows, Known
  <2> QED
    BY <1>2, <2>1 DEF DatabaseInv
<1>5. ASSUME NEW s \in Sessions PROVE SnapshotInv(s) /\ ListInv(s) /\ MemoryInv(s)
  <2>1. IsList(todo[s]) /\ Range(todo[s]) = {}
    BY <1>1, ListOf
  <2>2. IsList(calls[s])
    BY <1>2, ListTyped
  <2>3. \A call \in Range(calls[s]) : Client(call)
    BY <1>2 DEF Client
  <2>4. MemoryInv(s)
    BY <1>1, ListOf DEF MemoryInv
  <2>5. SnapshotInv(s)
    BY <1>1 DEF SnapshotInv
  <2> QED
    BY <2>1, <2>2, <2>3, <2>4, <2>5 DEF ListInv
<1> QED
  BY <1>3, <1>4, <1>5 DEF WorkspaceInv

LEMMA NextInv == WorkspaceInv /\ [Next]_vars => WorkspaceInv'
<1> SUFFICES ASSUME WorkspaceInv, [Next]_vars PROVE WorkspaceInv'
  OBVIOUS
<1>1. ASSUME NEW s \in Sessions, Step(s) PROVE WorkspaceInv'
  BY <1>1, StepEffect, EffectKeeps
<1>2. CASE UNCHANGED vars
  BY <1>2 DEF vars, state, WorkspaceInv, Functions, IsOver, DatabaseInv, SnapshotInv, ListInv, MemoryInv
<1> QED
  BY <1>1, <1>2 DEF Next

LEMMA Inductive == Spec => []WorkspaceInv
<1> QED
  BY InitInv, NextInv, PTL DEF Spec

(* Ids are given once and in order in the database and in every snapshot   *)
(* of it, and what sessions are still to do are lists of transactions,     *)
(* whatever they call and however their transactions interleave.           *)
THEOREM TypeCorrect == Spec => []TypeOK
<1>1. ASSUME WorkspaceInv PROVE TypeOK
  <2>1. IsDatabase(db) /\ Numbered(db)
    BY <1>1, KnownNumbered DEF WorkspaceInv, DatabaseInv
  <2>2. snap \in [Sessions -> Range(snap)]
    BY <1>1 DEF WorkspaceInv, Functions, IsOver, Range
  <2> QED
    BY <1>1, <2>1, <2>2 DEF TypeOK, WorkspaceInv, SnapshotInv, ListInv, IsList
<1> QED
  BY <1>1, Inductive, PTL

(* However objects and projects are cloned, shared and deleted, from       *)
(* snapshots that are no longer what the database says, no code block ever *)
(* names a clone as its original: clones never form chains.                *)
THEOREM OriginalsNamed == Spec => []OriginalsOnly
<1>1. WorkspaceInv => OriginalsOnly
  BY KnownNumbered DEF WorkspaceInv, DatabaseInv, OriginalsOnly
<1> QED
  BY <1>1, Inductive, PTL

-----------------------------------------------------------------------------
(***************************************************************************)
(* Rights of a new object.  From its commit on create_wob reads snapshots  *)
(* that have what was there all the time, and the rows it inserts are for  *)
(* every group that could read the project in its snapshot.                *)
(***************************************************************************)
Within(old, new) ==
  /\ old.read \subseteq new.read /\ old.member \subseteq new.member
  /\ old.edge \subseteq new.edge /\ old.blocks \subseteq new.blocks

SinceInv(s) ==
  Followed(s) =>
    /\ Within(since[s], Finds(s, db))
    /\ snap[s] # None => Within(since[s], Finds(s, snap[s]))

RightsInv(s) ==
  \A op \in Range(todo[s]) : op.do = "insert_acls" =>
    \A g \in Groups :
      <<g, User[s]>> \in since[s].member /\ <<g, op.ko>> \in since[s].read => g \in op.read

ShareInv == \A s \in Sessions : SinceInv(s) /\ RightsInv(s)

\* What a session puts off is due; the others go on as they were.
LEMMA Listed ==
  ASSUME WorkspaceInv, NEW s \in Sessions, Effect(s)
  PROVE  /\ \A op \in Range(todo'[s]) : op \in Range(todo[s]) \/ Due(s, op)
         /\ snap'[s] \in {None, snap[s], db, db'}
         /\ \A t \in Sessions \ {s} : todo'[t] = todo[t] /\ snap'[t] = snap[t]
<1>0. IsOver(todo) /\ IsOver(snap) /\ IsList(todo[s])
  BY DEF WorkspaceInv, Functions, ListInv
<1>1. PICK ops, rest :
        /\ IsList(ops) /\ \A op \in Range(ops) : Sound(db', op) /\ Due(s, op)
        /\ rest = <<>> \/ (todo[s] # <<>> /\ rest = Tail(todo[s]))
        /\ todo' = [todo EXCEPT ![s] = ops \o rest]
  BY DEF Effect, GoesOn
<1>2. todo'[s] = ops \o rest /\ \A t \in Sessions \ {s} : todo'[t] = todo[t]
  BY <1>0, <1>1 DEF IsOver
<1>3. IsList(rest) /\ Range(rest) \subseteq Range(todo[s])
  <2>1. CASE rest = <<>>
    BY <2>1, ListOf
  <2>2. CASE todo[s] # <<>> /\ rest = Tail(todo[s])
    BY <2>2, <1>0, ListRest
  <2> QED
    BY <1>1, <2>1, <2>2
<1>4. Range(todo'[s]) \subseteq Range(ops) \cup Range(todo[s])
  BY <1>1, <1>2, <1>3, ListAfter
<1>5. snap'[s] \in {None, snap[s], db, db'} /\ \A t \in Sessions \ {s} : snap'[t] = snap[t]
  BY <1>0 DEF Effect, SnapMoves, IsOver
<1> QED
  BY <1>1, <1>2, <1>4, <1>5

\* What a followed session remembers is what it found in every database.
LEMMA SinceShrinks ==
  ASSUME Remembers, NEW s \in Sessions, Followed(s)'
  PROVE  /\ Followed(s) /\ SinceInv(s) =>
              Within(since'[s], since[s]) /\ Within(since'[s], Finds(s, db'))
         /\ ~Followed(s) => since'[s] = Finds(s, db')
<1>1. since'[s] = IF ~Followed(s) THEN Finds(s, db')
                  ELSE IF db' = db THEN since[s] ELSE Still(since[s], Finds(s, db'))
  BY DEF Remembers
<1>2. \A old, new : Within(Still(old, new), old) /\ Within(Still(old, new), new)
  BY DEF Still, Within
<1>3. Within(since[s], since[s])
  BY DEF Within
<1> QED
  BY <1>1, <1>2, <1>3 DEF SinceInv

LEMMA WithinTwice ==
  ASSUME NEW a, NEW b, NEW c, Within(a, b), Within(b, c)
  PROVE  Within(a, c)
  BY DEF Within

LEMMA ShareNext == WorkspaceInv /\ ShareInv /\ [Next]_vars => ShareInv'
<1> SUFFICES ASSUME WorkspaceInv, ShareInv, [Next]_vars PROVE ShareInv'
  OBVIOUS
<1>1. CASE UNCHANGED vars
  BY <1>1 DEF vars, state, ShareInv, SinceInv, RightsInv, Followed
<1>2. ASSUME NEW s \in Sessions, Step(s), Remembers, NEW t \in Sessions
      PROVE  SinceInv(t)' /\ RightsInv(t)'
  <2>1. Effect(s)
    BY <1>2, StepEffect
  <2>2. SinceInv(t) /\ RightsInv(t)
    BY DEF ShareInv
  <2>3. CASE ~Followed(t)'
    BY <2>3 DEF SinceInv, RightsInv, Followed
  <2>4. CASE Followed(t)' /\ t # s
    <3>1. todo'[t] = todo[t] /\ snap'[t] = snap[t]
      BY <2>1, <2>4, Listed
    <3>2. Followed(t)
      BY <2>4, <3>1 DEF Followed
    <3>3. Within(since'[t], since[t]) /\ Within(since'[t], Finds(t, db'))
      BY <1>2, <2>2, <2>4, <3>2, SinceShrinks
    <3>4. SinceInv(t)'
      BY <2>2, <3>1, <3>2, <3>3, WithinTwice DEF SinceInv
    <3> QED
      BY <2>2, <3>1, <3>3, <3>4 DEF RightsInv, Within
  <2>5. CASE Followed(s)' /\ t = s /\ Followed(s)
    <3>1. Within(since'[s], since[s]) /\ Within(since'[s], Finds(s, db'))
      BY <1>2, <2>2, <2>5, SinceShrinks
    <3>2. /\ \A op \in Range(todo'[s]) : op \in Range(todo[s]) \/ Due(s, op)
          /\ snap'[s] \in {None, snap[s], db, db'}
      BY <2>1, Listed
    <3>3. SinceInv(s)'
      BY <2>2, <2>5, <3>1, <3>2, WithinTwice DEF SinceInv
    <3>4. Within(since[s], Finds(s, View(s)))
      BY <2>2, <2>5 DEF SinceInv, View
    <3>5. since[s].read \subseteq View(s).read /\ since[s].member \subseteq View(s).member
      BY <3>4 DEF Within, Finds
    <3>6. RightsInv(s)'
      BY <2>2, <2>5, <3>1, <3>2, <3>5 DEF RightsInv, Due, Within
    <3> QED
      BY <2>5, <3>3, <3>6
  <2>6. CASE Followed(s)' /\ t = s /\ ~Followed(s)
    <3>1. PICK op \in Range(todo'[s]) : op.do \in {"copy_acls", "insert_acls", "cloned"}
      BY <2>6 DEF Followed
    <3>2. \A o \in Range(todo'[s]) : o \in Range(todo[s]) \/ Due(s, o)
      BY <2>1, Listed
    <3>3. \A o \in Range(todo[s]) : o.do \notin {"copy_acls", "insert_acls", "cloned"}
      BY <2>6 DEF Followed
    <3>4. Due(s, op)
      BY <3>1, <3>2, <3>3
    <3>5. snap'[s] = db'
      BY <2>6, <3>1, <3>4 DEF Due
    <3>6. \A o \in Range(todo'[s]) : o.do # "insert_acls"
      BY <2>6, <3>2, <3>3 DEF Due
    <3>7. since'[s] = Finds(s, db') /\ Within(since'[s], Finds(s, db'))
      BY <1>2, <2>6, SinceShrinks DEF Within
    <3> QED
      BY <2>6, <3>5, <3>6, <3>7 DEF SinceInv, RightsInv
  <2> QED
    BY <2>3, <2>4, <2>5, <2>6
<1> QED
  BY <1>1, <1>2 DEF Next, ShareInv

LEMMA ShareInductive == Spec => [](WorkspaceInv /\ ShareInv)
<1>1. Init => ShareInv
  <2>1. Range(<<>>) = {}
    BY ListOf
  <2> QED
    BY <2>1 DEF Init, ShareInv, SinceInv, RightsInv, Followed
<1> QED
  BY <1>1, InitInv, NextInv, ShareNext, PTL DEF Spec

(* When create_wob inserts the access rights of a new object, every group  *)
(* of the user that could read the project ever since the object was       *)
(* committed can read the object, however many sessions grant, revoke,     *)
(* delete and change groups between the transactions of the call.          *)
THEOREM RightsCopied == Spec => NewObjectShared
<1>1. ASSUME WorkspaceInv, ShareInv, NEW s \in Sessions, insert_acls(s),
             Op(s).wob \in DOMAIN db'.wob, NEW g \in Groups,
             <<g, User[s]>> \in since[s].member, <<g, Op(s).ko>> \in since[s].read
      PROVE  <<g, Op(s).wob>> \in db'.read
  <2> DEFINE m == Op(s).wob
             reads == Op(s).read \X {m}
  <2>1. g \in Op(s).read
    BY <1>1, OpSound DEF insert_acls, ShareInv, RightsInv
  <2>2. db' = IF m \in DOMAIN db.wob
              THEN [db EXCEPT !.read = @ \cup reads, !.write = @ \cup (Op(s).write \X {m})] ELSE db
    BY <1>1 DEF insert_acls, Commits
  <2>3. m \in DOMAIN db.wob
    BY <1>1, <2>2
  <2>4. IsDatabase(db)
    BY <1>1 DEF WorkspaceInv, DatabaseInv
  <2>5. <<g, m>> \in reads
    BY <2>1
  <2> HIDE DEF m, reads
  <2>6. db'.read = db.read \cup reads
    BY <2>2, <2>3, <2>4 DEF IsDatabase
  <2> QED
    BY <2>5, <2>6 DEF m
<1>2. WorkspaceInv /\ ShareInv =>
        [\A s \in Sessions : insert_acls(s) /\ Op(s).wob \in DOMAIN db'.wob =>
           \A g \in Groups :
             <<g, User[s]>> \in since[s].member /\ <<g, Op(s).ko>> \in since[s].read =>
               <<g, Op(s).wob>> \in db'.read]_vars
  BY <1>1
<1> QED
  BY <1>2, ShareInductive, PTL DEF NewObjectShared

-----------------------------------------------------------------------------
(***************************************************************************)
(* Cloning a project.  While clone_project is under way, its call ends     *)
(* with "cloned", and every block that was there all the time has a copy,  *)
(* is still to be copied, or will be found by a search still to come.      *)
(***************************************************************************)

\* Every id has its place in the order, and no other has it.
LEMMA RankUnique ==
  ASSUME NEW last \in Nat, NEW ids \in SUBSET (1 .. last), NEW m \in ids
  PROVE  /\ Rank(ids, m) \in 1 .. Cardinality(ids)
         /\ \A n \in ids : Rank(ids, n) = Rank(ids, m) => n = m
<1> DEFINE Upto(k) == {n \in ids : n <= k}
<1>0. ids \in SUBSET Nat
  OBVIOUS
<1>1. IsFiniteSet(ids) /\ Cardinality(ids) \in Nat
  BY <1>0, FS_BoundedSetOfNaturals, FS_CardinalityType
<1>2. \A k \in ids : /\ IsFiniteSet(Upto(k)) /\ Cardinality(Upto(k)) \in Nat
                     /\ Cardinality(Upto(k)) <= Cardinality(ids) /\ k \in Upto(k)
  <2> TAKE k \in ids
  <2>1. Upto(k) \in SUBSET ids /\ k \in Upto(k)
    BY <1>0
  <2> HIDE DEF Upto
  <2> QED
    BY <2>1, <1>1, FS_Subset, FS_CardinalityType
<1>3. Cardinality(Upto(m)) # 0
  <2> HIDE DEF Upto
  <2> QED
    BY <1>2, FS_EmptySet
<1>4. ASSUME NEW a \in ids, NEW b \in ids, a < b PROVE Cardinality(Upto(a)) < Cardinality(Upto(b))
  <2>1. Upto(a) \in SUBSET (Upto(b) \ {b})
    <3>1. \A n \in ids : n <= a => n <= b /\ n # b
      BY <1>0, <1>4
    <3> QED
      BY <3>1
  <2> HIDE DEF Upto
  <2>2. IsFiniteSet(Upto(b) \ {b}) /\ Cardinality(Upto(b) \ {b}) = Cardinality(Upto(b)) - 1
    BY <1>2, FS_RemoveElement
  <2>3. Cardinality(Upto(a)) <= Cardinality(Upto(b) \ {b})
    BY <2>1, <2>2, FS_Subset
  <2> QED
    BY <1>2, <2>2, <2>3
<1>5. \A k : Rank(ids, k) = Cardinality(Upto(k))
  BY DEF Rank
<1> HIDE DEF Upto
<1>6. Rank(ids, m) \in 1 .. Cardinality(ids)
  BY <1>1, <1>2, <1>3, <1>5
<1>7. ASSUME NEW n \in ids, Rank(ids, n) = Rank(ids, m) PROVE n = m
  <2>1. n < m \/ m < n \/ n = m
    BY <1>0
  <2> QED
    BY <1>2, <1>4, <1>5, <1>7, <2>1
<1> QED
  BY <1>6, <1>7

\* Each leaves nothing out.
LEMMA EachAll ==
  ASSUME NEW last \in Nat, NEW for, DOMAIN for \subseteq 1 .. last
  PROVE  \A m \in DOMAIN for : for[m] \in Range(Each(for))
<1> DEFINE ids == DOMAIN for
           Nth(i) == CHOOSE m \in ids : Rank(ids, m) = i
<1> TAKE m \in DOMAIN for
<1>1. Each(for) = [i \in 1 .. Cardinality(ids) |-> for[Nth(i)]]
  BY DEF Each, Rank
<1>2. Rank(ids, m) \in 1 .. Cardinality(ids)
  BY RankUnique
<1>3. Nth(Rank(ids, m)) = m
  BY RankUnique
<1> HIDE DEF Nth, ids
<1>4. Each(for)[Rank(ids, m)] = for[m] /\ Rank(ids, m) \in DOMAIN Each(for)
  BY <1>1, <1>2, <1>3
<1> QED
  BY <1>4 DEF Range

LEMMA RangeAfter ==
  ASSUME NEW p, NEW q, IsList(p), IsList(q)
  PROVE  Range(p) \subseteq Range(p \o q) /\ Range(q) \subseteq Range(p \o q)
<1>1. /\ Len(p) \in Nat /\ DOMAIN p = 1 .. Len(p) /\ Len(q) \in Nat /\ DOMAIN q = 1 .. Len(q)
      /\ p \in Seq(Range(p) \cup Range(q)) /\ q \in Seq(Range(p) \cup Range(q))
  BY DEF IsList
<1>2. /\ DOMAIN (p \o q) = 1 .. (Len(p) + Len(q))
      /\ \A i \in 1 .. Len(p) : (p \o q)[i] = p[i]
      /\ \A i \in 1 .. Len(q) : (p \o q)[Len(p) + i] = q[i]
  BY <1>1
<1> HIDE DEF IsList
<1>3. ASSUME NEW x \in Range(p) PROVE x \in Range(p \o q)
  BY <1>1, <1>2 DEF Range
<1>4. ASSUME NEW x \in Range(q) PROVE x \in Range(p \o q)
  <2>1. PICK i \in 1 .. Len(q) : x = q[i]
    BY <1>1 DEF Range
  <2>2. Len(p) + i \in DOMAIN (p \o q) /\ (p \o q)[Len(p) + i] = x
    BY <1>1, <1>2, <2>1
  <2> QED
    BY <2>2 DEF Range
<1> QED
  BY <1>3, <1>4

CloneOps == {"copy_nodes", "copy_node", "copy_in", "copy_out", "copy_edges", "copy_edge", "add_edge", "set_attr"}

\* What was in the project ko all the time.
Lasting(s, ko) == {m \in since[s].blocks : <<ko, m>> \in since[s].edge}

Handled(s, q, ko, m) ==
  \/ m \in DOMAIN mem[s].copies
  \/ \E o \in Range(q) : o.do = "copy_node" /\ o.wob = m
  \/ \E o \in Range(q) : o.do = "copy_nodes" /\ o.ko = ko

CopiesApart(d, f) ==
  /\ \A a \in DOMAIN f : f[a] \in 1 .. d.last
  /\ \A a, b \in DOMAIN f : f[a] = f[b] => a = b

ProjectOnly(d, m) ==
  m \in 1 .. d.last /\ (m \in DOMAIN d.wob => d.wob[m].kind = "KNOWLEDGE_OBJECT")

Course(s, q, op) ==
  /\ IsList(q) /\ todo[s] = q \o <<op>> /\ op.do = "cloned"
  /\ \A o \in Range(q) : o.do \in CloneOps
  /\ \A m \in Lasting(s, op.ko) : Handled(s, q, op.ko, m)
  /\ CopiesApart(db, mem[s].copies) /\ ProjectOnly(db, mem[s].made)

CallAlone(s) == \A op \in Range(todo[s]) : op.do = "clone_project" => todo[s] = <<op>>

CompleteInv == \A s \in Sessions : CallAlone(s) /\ (Copying(s) => \E q, op : Course(s, q, op))

\* While a project is cloned, these are the steps of its session.
LEMMA CloneSteps ==
  ASSUME NEW s \in Sessions, Step(s), todo[s] # <<>>, Op(s).do \in CloneOps \cup {"cloned"}
  PROVE  \/ CopyNodes(s) \/ clone_from_org(s) \/ CopyInbound(s) \/ CopyOutbound(s)
         \/ CopyEdges(s) \/ CopyEdge(s) \/ sp_link(s) \/ set_edge_attribute(s)
         \/ Return(s)
<1>1. ~Call(s)
  BY DEF Call
<1>2. ~Look(s)
  BY DEF Look, At, Op, CloneOps
<1>3. ASSUME Creation(s) PROVE sp_link(s)
  BY <1>3 DEF Creation, create_wob, copy_ko_acls, insert_acls, At, Op, CloneOps
<1>4. ASSUME Editing(s) PROVE set_edge_attribute(s)
  BY <1>4 DEF Editing, link, _update_edge, update_api, unlink, delete_edge, clean_edges, CleanEdge,
              At, Op, CloneOps
<1>5. ~make_single_user(s) /\ ~CopyLinks(s) /\ ~LinkMade(s) /\ ~clone_object(s) /\ ~clone_project(s)
  BY DEF make_single_user, CopyLinks, LinkMade, clone_object, clone_project, At, Op, CloneOps
<1>6. ~Sharing(s)
  BY DEF Sharing, admin_grant_wob_to_group, GrantRow, GrantChildren, admin_revoke_group_from_wob,
         RevokeChildren, admin_grant_workflow_to_team, admin_revoke_workflow_from_team, AclRows,
         At, Op, CloneOps
<1>7. ~Grouping(s)
  BY DEF Grouping, admin_assign_user_to_group, admin_remove_user_from_group, admin_drop_user_group,
         admin_update_user_group, Asks, GroupRow, admin_create_user_group, _create_organzation,
         At, Op, CloneOps
<1>8. ~Deletion(s)
  BY DEF Deletion, delete_project, DeleteGraph, sp_delete_object, admin_soft_delete_object,
         At, Op, CloneOps
<1> QED
  BY <1>1, <1>2, <1>3, <1>4, <1>5, <1>6, <1>7, <1>8 DEF Step, Cloning

\* Every step to do is the first of the call.
LEMMA CourseFirst ==
  ASSUME NEW s \in Sessions, NEW q, NEW op, Course(s, q, op), IsOver(todo)
  PROVE  /\ todo[s] # <<>>
         /\ q = <<>> => todo[s] = <<op>> /\ Op(s) = op /\ Tail(todo[s]) = <<>>
         /\ q # <<>> => /\ Op(s) = Head(q) /\ Tail(todo[s]) = Tail(q) \o <<op>>
                        /\ IsList(Tail(q)) /\ Op(s) \in Range(q)
                        /\ \A o \in Range(q) : o = Op(s) \/ o \in Range(Tail(q))
<1>1. IsList(q) /\ todo[s] = q \o <<op>>
  BY DEF Course
<1>2. CASE q = <<>>
  <2>1. todo[s] = <<op>>
    BY <1>1, <1>2
  <2> QED
    BY <1>2, <2>1 DEF Op
<1>3. CASE q # <<>>
  <2>1. IsList(Tail(q)) /\ Head(q) \in Range(q)
    BY <1>1, <1>3, ListRest
  <2>2. q \in Seq(Range(q) \cup {op}) /\ <<op>> \in Seq(Range(q) \cup {op})
    BY <1>1 DEF IsList
  <2>3. todo[s] # <<>> /\ Head(todo[s]) = Head(q) /\ Tail(todo[s]) = Tail(q) \o <<op>>
    BY <1>1, <1>3, <2>2
  <2>4. \A o \in Range(q) : o = Head(q) \/ o \in Range(Tail(q))
    <3> SUFFICES ASSUME NEW i \in DOMAIN q, i # 1 PROVE q[i] \in Range(Tail(q))
      BY <1>1, <1>3 DEF IsList, Range
    <3>1. i - 1 \in DOMAIN Tail(q) /\ Tail(q)[i - 1] = q[i]
      BY <1>1, <1>3 DEF IsList
    <3> QED
      BY <3>1 DEF Range
  <2> QED
    BY <1>3, <2>1, <2>3, <2>4 DEF Op
<1> QED
  BY <1>2, <1>3

\* A step that puts off ops leaves the rest of the course.
LEMMA CourseGoes ==
  ASSUME WorkspaceInv, WorkspaceInv', NEW s \in Sessions, NEW q, NEW op, Course(s, q, op), q # <<>>,
         NEW ops, IsList(ops), \A o \in Range(ops) : o.do \in CloneOps, Then(s, ops),
         Evolves(db, db'),
         mem'[s].made = mem[s].made, CopiesApart(db', mem'[s].copies),
         DOMAIN mem[s].copies \subseteq DOMAIN mem'[s].copies,
         Lasting(s, op.ko)' \subseteq Lasting(s, op.ko),
         \A m \in Lasting(s, op.ko)' :
           /\ Op(s).do = "copy_node" /\ Op(s).wob = m => m \in DOMAIN mem'[s].copies
           /\ Op(s).do = "copy_nodes" /\ Op(s).ko = op.ko =>
                \E o \in Range(ops) : o.do = "copy_node" /\ o.wob = m
  PROVE  \E r : Course(s, r, op)'
<1> DEFINE r == ops \o Tail(q)
<1>1. IsOver(todo) /\ IsOver(todo)'
  BY DEF WorkspaceInv, Functions
<1>2. /\ Tail(todo[s]) = Tail(q) \o <<op>> /\ IsList(Tail(q)) /\ Op(s) \in Range(q)
      /\ \A o \in Range(q) : o = Op(s) \/ o \in Range(Tail(q))
  BY <1>1, CourseFirst
<1>3. todo'[s] = ops \o (Tail(q) \o <<op>>)
  BY <1>1, <1>2 DEF Then, IsOver
<1>4. todo'[s] = r \o <<op>>
  <2> DEFINE S == Range(ops) \cup Range(Tail(q)) \cup {op}
  <2>1. ops \in Seq(S) /\ Tail(q) \in Seq(S) /\ <<op>> \in Seq(S)
    BY <1>2 DEF IsList
  <2> HIDE DEF S
  <2> QED
    BY <1>3, <2>1
<1>5. /\ IsList(r) /\ Range(r) \subseteq Range(ops) \cup Range(Tail(q))
      /\ Range(ops) \subseteq Range(r) /\ Range(Tail(q)) \subseteq Range(r)
  BY <1>2, ListAfter, RangeAfter
<1>6. q \in Seq(Range(q)) /\ Range(Tail(q)) \subseteq Range(q)
  BY ListRest DEF Course, IsList
<1>7. \A o \in Range(r) : o.do \in CloneOps
  BY <1>5, <1>6 DEF Course
<1> HIDE DEF r
<1>8. ASSUME NEW m \in Lasting(s, op.ko)' PROVE Handled(s, r, op.ko, m)'
  <2>1. Handled(s, q, op.ko, m)
    BY DEF Course
  <2>2. CASE m \in DOMAIN mem[s].copies
    BY <2>2 DEF Handled
  <2>3. CASE \E o \in Range(q) : o.do = "copy_node" /\ o.wob = m
    BY <1>2, <1>5, <2>3 DEF Handled
  <2>4. CASE \E o \in Range(q) : o.do = "copy_nodes" /\ o.ko = op.ko
    BY <1>2, <1>5, <2>4 DEF Handled
  <2> QED
    BY <2>1, <2>2, <2>3, <2>4 DEF Handled
<1>9. ProjectOnly(db', mem'[s].made)
  <2>1. ProjectOnly(db, mem[s].made)
    BY DEF Course
  <2> QED
    BY <2>1 DEF ProjectOnly, Evolves, Shrinks, Grows, SameRow, WorkspaceInv, DatabaseInv
<1>10. op.do = "cloned"
  BY DEF Course
<1>11. Course(s, r, op)'
  BY <1>4, <1>5, <1>7, <1>8, <1>9, <1>10 DEF Course
<1> QED
  BY <1>11

\* What else a followed session finds, of the blocks that were there all the time.
LEMMA LastingFound ==
  ASSUME NEW s \in Sessions, NEW ko, NEW d, Within(since[s], Finds(s, d)), NEW m \in Lasting(s, ko)
  PROVE  /\ m \in DOMAIN d.wob /\ d.wob[m].kind = "CODE"
         /\ m \in find_children(d, User[s], ko)
<1>1. m \in Finds(s, d).blocks /\ <<ko, m>> \in Finds(s, d).edge
  BY DEF Lasting, Within
<1>2. m \in DOMAIN d.wob /\ d.wob[m].kind = "CODE" /\ Found(d, User[s], m) /\ v_edges(d, User[s], <<ko, m>>)
  BY <1>1 DEF Finds
<1> QED
  BY <1>2 DEF find_children, find_wob_by_outbound_edges, IsProject

LEMMA PutNext ==
  ASSUME NEW d, NEW e, d.last \in Nat, e.last = d.last + 1, NEW f, CopiesApart(d, f), NEW m
  PROVE  /\ CopiesApart(e, Put(f, m, e.last))
         /\ DOMAIN Put(f, m, e.last) = DOMAIN f \cup {m}
<1> DEFINE g == Put(f, m, e.last)
<1>1. /\ DOMAIN g = DOMAIN f \cup {m} /\ g[m] = e.last
      /\ \A a \in DOMAIN f : a # m => g[a] = f[a]
  BY DEF Put
<1> HIDE DEF g
<1>2. \A a \in DOMAIN f : f[a] \in 1 .. d.last /\ f[a] # e.last
  BY DEF CopiesApart
<1>3. \A a \in DOMAIN g : g[a] \in 1 .. e.last
  BY <1>1, <1>2
<1>4. \A a, b \in DOMAIN g : g[a] = g[b] => a = b
  BY <1>1, <1>2 DEF CopiesApart
<1>5. CopiesApart(e, g) /\ DOMAIN g = DOMAIN f \cup {m}
  BY <1>1, <1>3, <1>4 DEF CopiesApart
<1> QED
  BY <1>5 DEF g

LEMMA ApartLater ==
  ASSUME NEW d, NEW e, d.last \in Nat, e.last \in Nat, d.last <= e.last, NEW f, CopiesApart(d, f)
  PROVE  CopiesApart(e, f)
  BY DEF CopiesApart

LEMMA CourseStep ==
  ASSUME WorkspaceInv, WorkspaceInv', ShareInv, Remembers, NEW s \in Sessions, Step(s),
         NEW q, NEW op, Course(s, q, op), Copying(s)'
  PROVE  \E r, p : Course(s, r, p)'
<1>1. IsOver(todo) /\ IsOver(mem) /\ IsList(q) /\ op.do = "cloned" /\ op \in Range(todo[s])
  <2>1. IsList(q) /\ todo[s] = q \o <<op>> /\ op.do = "cloned"
    BY DEF Course
  <2> QED
    BY <2>1, ListOf, RangeAfter DEF WorkspaceInv, Functions
<1>2. Evolves(db, db') /\ db.last \in Nat /\ db'.last \in Nat /\ db.last <= db'.last
  <2>1. Evolves(db, db')
    BY StepEffect DEF Effect
  <2> QED
    BY <2>1, KnownKept DEF WorkspaceInv, DatabaseInv
<1>3. /\ Within(since'[s], since[s]) /\ Within(since[s], Finds(s, db))
      /\ Within(since[s], Finds(s, View(s)))
  <2>1. Followed(s) /\ Followed(s)' /\ SinceInv(s)
    BY <1>1 DEF Copying, Followed, ShareInv
  <2> QED
    BY <2>1, SinceShrinks DEF SinceInv, View
<1>4. Lasting(s, op.ko)' \subseteq Lasting(s, op.ko)
  BY <1>3 DEF Lasting, Within
<1>5. ~Raise(s) /\ ~(todo'[s] = <<>>)
  BY <1>1, ListOf DEF Raise, IsOver, Copying
<1>6. Op(s).do \in CloneOps \cup {"cloned"} /\ (q = <<>> => Op(s) = op)
      /\ (q # <<>> => Op(s).do \in CloneOps) /\ todo[s] # <<>>
  BY <1>1, CourseFirst DEF Course
<1>7. CASE q = <<>>
  <2>1. ~(\/ CopyNodes(s) \/ clone_from_org(s) \/ CopyInbound(s) \/ CopyOutbound(s)
          \/ CopyEdges(s) \/ CopyEdge(s) \/ sp_link(s) \/ set_edge_attribute(s))
    BY <1>1, <1>6, <1>7
    DEF CopyNodes, clone_from_org, CopyInbound, CopyOutbound, CopyEdges, CopyEdge, sp_link,
        set_edge_attribute, At, Op
  <2>2. Return(s)
    BY <1>6, <2>1, CloneSteps
  <2>3. Tail(todo[s]) = <<>>
    BY <1>1, <1>7, CourseFirst
  <2>4. todo'[s] = <<>>
    <3>1. todo' = [todo EXCEPT ![s] = <<>> \o Tail(todo[s])]
      BY <2>2, <1>1 DEF Return, Then, IsOver
    <3> QED
      BY <3>1, <2>3, <1>1 DEF IsOver
  <2> QED
    BY <1>5, <2>4
<1>8. CASE q # <<>>
  <2>1. CopiesApart(db', mem[s].copies)
    BY <1>2, ApartLater DEF Course
  <2>2. ASSUME NEW ops, IsList(ops), \A o \in Range(ops) : o.do \in CloneOps, Then(s, ops),
               mem'[s].made = mem[s].made, mem'[s].copies = mem[s].copies,
               Op(s).do # "copy_node", Op(s).do # "copy_nodes"
        PROVE  \E r : Course(s, r, op)'
    BY <1>2, <1>4, <1>8, <2>1, <2>2, CourseGoes
  <2>3. CASE sp_link(s)
    <3>1. Op(s).do = "add_edge" /\ Then(s, <<>>) /\ UNCHANGED mem
      BY <2>3, OpSound DEF sp_link
    <3> QED
      BY <2>2, <3>1, ListOf
  <2>4. CASE set_edge_attribute(s)
    <3>1. Op(s).do = "set_attr" /\ Then(s, <<>>) /\ UNCHANGED mem
      BY <1>5, <2>4, OpSound DEF set_edge_attribute
    <3> QED
      BY <2>2, <3>1, ListOf
  <2>5. CASE CopyEdge(s)
    <3>1. Op(s).do = "copy_edge" /\ UNCHANGED mem
      BY <2>5, OpSound DEF CopyEdge
    <3>2. \E a, b, e, x : Then(s, <<AddEdge(a, b), SetAttributes(e, x)>>)
      BY <1>5, <2>5 DEF CopyEdge
    <3>3. \A a, b, e, x : AddEdge(a, b).do \in CloneOps /\ SetAttributes(e, x).do \in CloneOps
      BY DEF AddEdge, SetAttributes, CloneOps
    <3> QED
      BY <2>2, <3>1, <3>2, <3>3, ListOf
  <2>6. CASE CopyEdges(s)
    <3> DEFINE es == mem[s].pairs
               ops == [i \in DOMAIN es |-> [do |-> "copy_edge", edge |-> es[i]]]
    <3>1. Op(s).do = "copy_edges" /\ Then(s, ops) /\ UNCHANGED mem
      BY <2>6, OpSound DEF CopyEdges
    <3>2. Len(es) \in Nat /\ DOMAIN es = 1 .. Len(es)
      BY DEF WorkspaceInv, MemoryInv, IsList
    <3> HIDE DEF es
    <3>3. \A i \in DOMAIN ops : ops[i].do \in CloneOps
      BY DEF CloneOps
    <3>4. IsList(ops) /\ Range(ops) = {ops[i] : i \in DOMAIN ops}
      BY <3>2 DEF IsList, Range
    <3> HIDE DEF ops
    <3>5. \A o \in Range(ops) : o.do \in CloneOps
      BY <3>3, <3>4
    <3> QED
      BY <2>2, <3>1, <3>4, <3>5
  <2>7. ASSUME NEW d \in {db, View(s)}, NEW for, DOMAIN for \subseteq DOMAIN d.wob, NEW child,
               \A m \in DOMAIN for : for[m] = CopyNode(d, m, child)
        PROVE  /\ IsList(Each(for))
               /\ \A o \in Range(Each(for)) : o.do \in CloneOps
               /\ \A m \in DOMAIN for : \E o \in Range(Each(for)) : o.do = "copy_node" /\ o.wob = m
    <3>1. d.last \in Nat /\ DOMAIN for \subseteq 1 .. d.last
      BY <2>7, ViewRows
    <3>2. \A m \in DOMAIN for : for[m].do = "copy_node" /\ for[m].wob = m
      BY <2>7 DEF CopyNode
    <3>3. IsList(Each(for)) /\ \A o \in Range(Each(for)) : o.do \in CloneOps
      BY <3>1, <3>2, EachList DEF CloneOps
    <3>4. \A m \in DOMAIN for : for[m] \in Range(Each(for))
      BY <3>1, EachAll
    <3> QED
      BY <3>2, <3>3, <3>4
  <2>8. ASSUME NEW d \in {db, View(s)}, NEW pair, DOMAIN pair \subseteq DOMAIN d.wob,
               Neighbours(s, d, pair), Op(s).do # "copy_node", Op(s).do # "copy_nodes"
        PROVE  \E r : Course(s, r, op)'
    <3> DEFINE for == [m \in DOMAIN pair |-> CopyNode(d, m, FALSE)]
    <3>1. Then(s, Each(for)) /\ \E x : mem' = [mem EXCEPT ![s].pairs = x]
      BY <2>8 DEF Neighbours
    <3>2. DOMAIN for \subseteq DOMAIN d.wob /\ \A m \in DOMAIN for : for[m] = CopyNode(d, m, FALSE)
      BY <2>8
    <3>3. mem'[s].made = mem[s].made /\ mem'[s].copies = mem[s].copies
      <4>1. MemoryInv(s)
        BY DEF WorkspaceInv
      <4> QED
        BY <1>1, <3>1, <4>1 DEF IsOver, MemoryInv
    <3> HIDE DEF for
    <3>4. IsList(Each(for)) /\ \A o \in Range(Each(for)) : o.do \in CloneOps
      BY <3>2, <2>7
    <3> QED
      BY <2>2, <2>8, <3>1, <3>3, <3>4
  <2>9. CASE CopyInbound(s)
    <3> DEFINE pair == [m \in find_wob_by_inbound_edges(db, User[s], Op(s).wob) |-> <<m, Op(s).wob>>]
    <3>1. Op(s).do = "copy_in" /\ Neighbours(s, db, pair)
      BY <2>9, OpSound DEF CopyInbound
    <3>2. DOMAIN pair \subseteq DOMAIN db.wob
      BY FoundRows
    <3> HIDE DEF pair
    <3> QED
      BY <2>8, <3>1, <3>2
  <2>10. CASE CopyOutbound(s)
    <3> DEFINE pair == [m \in find_children(View(s), User[s], Op(s).wob) |-> <<Op(s).wob, m>>]
    <3>1. Op(s).do = "copy_out" /\ Neighbours(s, View(s), pair)
      BY <2>10, OpSound DEF CopyOutbound
    <3>2. DOMAIN pair \subseteq DOMAIN View(s).wob
      BY FoundRows
    <3> HIDE DEF pair
    <3> QED
      BY <2>8, <3>1, <3>2
  <2>11. CASE CopyNodes(s)
    <3> DEFINE d == View(s)
               for == [m \in find_children(d, User[s], Op(s).ko) |-> CopyNode(d, m, TRUE)]
    <3>1. Op(s).do = "copy_nodes" /\ Then(s, Each(for)) /\ UNCHANGED mem
      BY <2>11, OpSound DEF CopyNodes
    <3>2. DOMAIN for \subseteq DOMAIN d.wob /\ \A m \in DOMAIN for : for[m] = CopyNode(d, m, TRUE)
      BY FoundRows
    <3>3. DOMAIN for = find_children(d, User[s], Op(s).ko)
      OBVIOUS
    <3> HIDE DEF for
    <3>4. /\ IsList(Each(for)) /\ \A o \in Range(Each(for)) : o.do \in CloneOps
          /\ \A m \in DOMAIN for : \E o \in Range(Each(for)) : o.do = "copy_node" /\ o.wob = m
      BY <3>2, <2>7
    <3>5. \A m \in Lasting(s, op.ko)' : Op(s).ko = op.ko => m \in DOMAIN for
      BY <1>3, <1>4, <3>3, LastingFound
    <3> HIDE DEF d
    <3> QED
      BY <1>2, <1>4, <1>8, <2>1, <3>1, <3>4, <3>5, CourseGoes
  <2>12. CASE clone_from_org(s)
    <3> DEFINE m == Op(s).wob
               n == db.last + 1
               in == [do |-> "copy_in", wob |-> m]
               out == [do |-> "copy_out", wob |-> m]
               next == IF Op(s).child THEN <<in, out>> ELSE <<>>
               add == AddEdge(mem[s].made, n)
               done == m \in DOMAIN mem[s].copies \/ Op(s).row.kind = "DOCKER_JOB"
    <3>1. Op(s).do = "copy_node" /\ Known(db, m, Op(s).row)
      BY <2>12, OpSound DEF clone_from_org, Sound
    <3>2. /\ IsList(next) /\ \A o \in Range(next) : o.do \in CloneOps
          /\ IsList(<<add>> \o next) /\ \A o \in Range(<<add>> \o next) : o.do \in CloneOps
      <4>1. in.do \in CloneOps /\ out.do \in CloneOps /\ add.do \in CloneOps
        BY DEF AddEdge, CloneOps
      <4> HIDE DEF in, out, add
      <4>2. IsList(next) /\ \A o \in Range(next) : o.do \in CloneOps
        BY <4>1, ListOf
      <4>3. IsList(<<add>>) /\ \A o \in Range(<<add>>) : o.do \in CloneOps
        BY <4>1, ListOf
      <4> HIDE DEF next
      <4> QED
        BY <4>2, <4>3, ListAfter
    <3>3. /\ done => Then(s, next) /\ Rests /\ UNCHANGED mem
          /\ ~done => /\ CommitsAndLoads(s, Inserted(Clone(s, Op(s).row, m, FALSE)))
                      /\ mem' = [mem EXCEPT ![s].copies = Put(@, m, n)]
                      /\ Then(s, <<add>> \o next)
      BY <2>12 DEF clone_from_org
    <3>4. \A x \in Lasting(s, op.ko)' : x = m => Op(s).row.kind = "CODE"
      BY <1>3, <1>4, <3>1, LastingFound DEF Known
    <3> HIDE DEF next, add
    <3>5. CASE done
      <4>1. \A x \in Lasting(s, op.ko)' : x = m => x \in DOMAIN mem[s].copies
        BY <3>4, <3>5
      <4> HIDE DEF done
      <4> QED
        BY <1>2, <1>4, <1>8, <2>1, <3>1, <3>2, <3>3, <3>5, <4>1, CourseGoes
    <3>6. CASE ~done
      <4>1. mem'[s].made = mem[s].made /\ mem'[s].copies = Put(mem[s].copies, m, n)
        <5>1. MemoryInv(s)
          BY DEF WorkspaceInv
        <5> QED
          BY <1>1, <3>3, <3>6, <5>1 DEF IsOver, MemoryInv
      <4>2. db'.last = n
        <5>1. IsDatabase(db)
          BY DEF WorkspaceInv, DatabaseInv
        <5>2. Inserted(Clone(s, Op(s).row, m, FALSE)).last = n
          BY <5>1 DEF Inserted, IsDatabase
        <5> QED
          BY <3>3, <3>6, <5>2 DEF CommitsAndLoads
      <4>3. /\ CopiesApart(db', mem'[s].copies)
            /\ DOMAIN mem'[s].copies = DOMAIN mem[s].copies \cup {m}
        <5>1. CopiesApart(db, mem[s].copies) /\ db'.last = db.last + 1
          BY <4>2 DEF Course
        <5> HIDE DEF m
        <5>2. /\ CopiesApart(db', Put(mem[s].copies, m, db'.last))
              /\ DOMAIN Put(mem[s].copies, m, db'.last) = DOMAIN mem[s].copies \cup {m}
          BY <1>2, <5>1, PutNext
        <5> QED
          BY <4>1, <4>2, <5>2
      <4> HIDE DEF done
      <4> QED
        BY <1>2, <1>4, <1>8, <3>1, <3>2, <3>3, <3>6, <4>1, <4>3, CourseGoes
    <3> QED
      BY <3>5, <3>6
  <2>13. ~Return(s)
    BY <1>6, <1>8 DEF Return, At, Op, CloneOps
  <2> QED
    BY <1>6, <2>3, <2>4, <2>5, <2>6, <2>9, <2>10, <2>11, <2>12, <2>13, CloneSteps
<1> QED
  BY <1>7, <1>8

\* A clone of a project begins with a search for everything in it.
LEMMA CourseBegins ==
  ASSUME WorkspaceInv, WorkspaceInv', CompleteInv, NEW s \in Sessions, clone_project(s), Copying(s)'
  PROVE  \E q, op : Course(s, q, op)'
<1> DEFINE ko == Op(s).ko
           d == View(s)
           n == db.last + 1
           row == Clone(s, d.wob[ko], ko, FALSE)
           copies == Put(<<>>, n, n)
<1>1. IsOver(todo) /\ IsOver(mem) /\ IsDatabase(db) /\ db.last \in Nat /\ DOMAIN db.wob \subseteq 1 .. db.last
  BY ViewRows DEF WorkspaceInv, Functions, DatabaseInv
<1>2. todo[s] = <<Op(s)>> /\ Tail(todo[s]) = <<>>
  <2>1. Op(s).do = "clone_project" /\ Op(s) \in Range(todo[s])
    BY OpSound DEF clone_project
  <2>2. todo[s] = <<Op(s)>>
    BY <2>1 DEF CompleteInv, CallAlone
  <2>3. \A a : Tail(<<a>>) = <<>>
    OBVIOUS
  <2> QED
    BY <2>2, <2>3
<1>3. ~Raise(s)
  BY <1>1, ListOf DEF Raise, IsOver, Copying
<1>4. /\ Loads(d, User[s], ko) /\ d.wob[ko].kind = "KNOWLEDGE_OBJECT"
      /\ CommitsAndLoads(s, Inserted(row))
      /\ mem' = [mem EXCEPT ![s] = [made |-> n, copies |-> copies, pairs |-> <<>>]]
      /\ Then(s, <<[do |-> "copy_nodes", ko |-> ko], [do |-> "copy_edges"], [do |-> "cloned", ko |-> ko]>>)
  BY <1>3 DEF clone_project, IsProject
<1>5. PICK nodes, edges, cloned :
        /\ Then(s, <<nodes, edges, cloned>>)
        /\ nodes.do = "copy_nodes" /\ edges.do = "copy_edges" /\ cloned.do = "cloned"
        /\ nodes.ko = cloned.ko
  <2> DEFINE a == [do |-> "copy_nodes", ko |-> ko]
             b == [do |-> "copy_edges"]
             c == [do |-> "cloned", ko |-> ko]
  <2>1. a.do = "copy_nodes" /\ b.do = "copy_edges" /\ c.do = "cloned" /\ a.ko = c.ko
    OBVIOUS
  <2>2. Then(s, <<a, b, c>>)
    BY <1>4
  <2> HIDE DEF a, b, c
  <2> QED
    BY <2>1, <2>2
<1>6. db'.last = n /\ db'.wob = Put(db.wob, n, row)
  <2>1. Inserted(row).last = n /\ Inserted(row).wob = Put(db.wob, n, row)
    <3> HIDE DEF row
    <3> QED
      BY <1>1 DEF Inserted, IsDatabase
  <2> QED
    BY <1>4, <2>1 DEF CommitsAndLoads
<1>7. row.kind = "KNOWLEDGE_OBJECT"
  BY <1>4 DEF Clone, New
<1>8. DOMAIN copies = {n} /\ copies[n] = n
  BY DEF Put
<1> HIDE DEF ko, d, row, copies
<1>9. mem'[s].made = n /\ mem'[s].copies = copies
  BY <1>1, <1>4 DEF IsOver
<1>10. ProjectOnly(db', mem'[s].made)
  <2>1. Put(db.wob, n, row)[n] = row
    BY DEF Put
  <2> QED
    BY <1>1, <1>6, <1>7, <1>9, <2>1 DEF ProjectOnly
<1>11. CopiesApart(db', mem'[s].copies)
  BY <1>1, <1>6, <1>8, <1>9 DEF CopiesApart
<1>12. todo'[s] = <<nodes, edges>> \o <<cloned>>
  <2>1. todo'[s] = <<nodes, edges, cloned>> \o <<>>
    BY <1>1, <1>2, <1>5 DEF Then, IsOver
  <2> QED
    BY <2>1
<1>13. IsList(<<nodes, edges>>) /\ Range(<<nodes, edges>>) = {nodes, edges}
  BY ListOf
<1>14. \A m : Handled(s, <<nodes, edges>>, cloned.ko, m)'
  BY <1>5, <1>13 DEF Handled
<1>15. Course(s, <<nodes, edges>>, cloned)'
  BY <1>5, <1>10, <1>11, <1>12, <1>13, <1>14 DEF Course, CloneOps
<1> QED
  BY <1>15

\* Other sessions disturb no course.
LEMMA CourseStays ==
  ASSUME WorkspaceInv, NEW s \in Sessions, Evolves(db, db'), SinceInv(s), Remembers,
         todo'[s] = todo[s], mem'[s] = mem[s],
         NEW q, NEW op, Course(s, q, op)
  PROVE  Course(s, q, op)'
<1>1. IsList(q) /\ todo[s] = q \o <<op>> /\ op.do = "cloned" /\ op \in Range(todo[s])
  <2>1. IsList(q) /\ todo[s] = q \o <<op>> /\ op.do = "cloned"
    BY DEF Course
  <2> QED
    BY <2>1, ListOf, RangeAfter
<1>2. Followed(s) /\ Followed(s)'
  BY <1>1 DEF Followed
<1>3. Within(since'[s], since[s])
  BY <1>2, SinceShrinks
<1>4. Lasting(s, op.ko)' \subseteq Lasting(s, op.ko)
  BY <1>3 DEF Lasting, Within
<1>5. db.last \in Nat /\ db'.last \in Nat /\ db.last <= db'.last
  BY KnownKept DEF WorkspaceInv, DatabaseInv
<1>6. CopiesApart(db', mem'[s].copies)
  BY <1>5, ApartLater DEF Course
<1>7. ProjectOnly(db', mem'[s].made)
  <2>1. ProjectOnly(db, mem[s].made)
    BY DEF Course
  <2> QED
    BY <1>5, <2>1 DEF ProjectOnly, Evolves, Shrinks, Grows, SameRow
<1>8. ASSUME NEW m \in Lasting(s, op.ko)' PROVE Handled(s, q, op.ko, m)'
  <2>1. Handled(s, q, op.ko, m)
    BY <1>4 DEF Course
  <2> QED
    BY <2>1 DEF Handled
<1>9. \A o \in Range(q) : o.do \in CloneOps
  BY DEF Course
<1> QED
  BY <1>1, <1>6, <1>7, <1>8, <1>9 DEF Course

LEMMA AloneStays ==
  ASSUME WorkspaceInv, CompleteInv, NEW s \in Sessions, Step(s), NEW t \in Sessions
  PROVE  CallAlone(t)'
<1>1. Effect(s)
  BY StepEffect
<1>2. CallAlone(t) /\ IsOver(todo)
  BY DEF CompleteInv, WorkspaceInv, Functions
<1>3. CASE t # s
  <2>1. todo'[t] = todo[t]
    BY <1>1, <1>3, Listed
  <2> QED
    BY <1>2, <2>1 DEF CallAlone
<1>4. CASE t = s /\ Call(s)
  <2>1. todo'[s] = <<Head(calls[s])>>
    BY <1>2, <1>4 DEF Call, IsOver
  <2> QED
    BY <1>4, <2>1, ListOf DEF CallAlone
<1>5. CASE t = s /\ ~Call(s)
  <2> SUFFICES ASSUME NEW op \in Range(todo'[s]), op.do = "clone_project" PROVE FALSE
    BY <1>5 DEF CallAlone
  <2>1. PICK ops, rest :
          /\ IsList(ops) /\ \A o \in Range(ops) : Due(s, o)
          /\ rest = <<>> \/ (todo[s] # <<>> /\ rest = Tail(todo[s]))
          /\ todo' = [todo EXCEPT ![s] = ops \o rest]
    BY <1>1 DEF Effect, GoesOn
  <2>2. todo'[s] = ops \o rest
    BY <1>2, <2>1 DEF IsOver
  <2>3. op \notin Range(ops)
    BY <1>5, <2>1 DEF Due
  <2>4. CASE rest = <<>>
    BY <2>1, <2>2, <2>3, <2>4, ListOf, ListAfter
  <2>5. CASE todo[s] # <<>> /\ rest = Tail(todo[s])
    <3>1. IsList(todo[s])
      BY DEF WorkspaceInv, ListInv
    <3>2. IsList(rest) /\ Range(rest) \subseteq Range(todo[s])
      BY <2>5, <3>1, ListRest
    <3>3. op \in Range(rest) /\ op \in Range(todo[s])
      BY <2>1, <2>2, <2>3, <3>2, ListAfter
    <3>4. todo[s] = <<op>>
      BY <1>2, <1>5, <3>3 DEF CallAlone
    <3>5. \A a : Tail(<<a>>) = <<>>
      OBVIOUS
    <3> QED
      BY <2>5, <3>3, <3>4, <3>5, ListOf
  <2> QED
    BY <2>1, <2>4, <2>5
<1> QED
  BY <1>3, <1>4, <1>5

LEMMA CompleteNext == WorkspaceInv /\ WorkspaceInv' /\ ShareInv /\ CompleteInv /\ [Next]_vars => CompleteInv'
<1> SUFFICES ASSUME WorkspaceInv, WorkspaceInv', ShareInv, CompleteInv, [Next]_vars PROVE CompleteInv'
  OBVIOUS
<1>1. CASE UNCHANGED vars
  <2>1. ASSUME NEW t \in Sessions, NEW q, NEW op, Course(t, q, op) PROVE Course(t, q, op)'
    BY <1>1, <2>1 DEF vars, state, Course, Lasting, Handled
  <2>2. \A t \in Sessions : Copying(t)' => Copying(t)
    BY <1>1 DEF vars, state, Copying
  <2> QED
    BY <1>1, <2>1, <2>2 DEF vars, state, CompleteInv, CallAlone
<1>2. ASSUME NEW s \in Sessions, Step(s), Remembers, NEW t \in Sessions, Copying(t)'
      PROVE  \E q, op : Course(t, q, op)'
  <2>1. Effect(s) /\ Evolves(db, db')
    BY <1>2, StepEffect DEF Effect
  <2>2. CASE t # s
    <3>1. todo'[t] = todo[t]
      BY <2>1, <2>2, Listed
    <3>2. mem'[t] = mem[t]
      BY <2>1, <2>2 DEF Effect, WorkspaceInv, Functions, IsOver
    <3>3. PICK q, op : Course(t, q, op)
      BY <1>2, <3>1 DEF CompleteInv, Copying
    <3>4. Course(t, q, op)'
      BY <1>2, <2>1, <3>1, <3>2, <3>3, CourseStays DEF ShareInv
    <3> QED
      BY <3>4
  <2>3. CASE t = s /\ Copying(s)
    <3>1. PICK q, op : Course(s, q, op)
      BY <2>3 DEF CompleteInv
    <3> QED
      BY <1>2, <2>3, <3>1, CourseStep
  <2>4. CASE t = s /\ ~Copying(s)
    <3>1. PICK op \in Range(todo'[s]) : op.do = "cloned"
      BY <1>2, <2>4 DEF Copying
    <3>2. Due(s, op)
      BY <2>1, <2>4, <3>1, Listed DEF Copying
    <3>3. clone_project(s)
      BY <3>1, <3>2 DEF Due
    <3> QED
      BY <1>2, <2>4, <3>3, CourseBegins
  <2> QED
    BY <2>2, <2>3, <2>4
<1>3. ASSUME NEW s \in Sessions, Step(s), NEW t \in Sessions PROVE CallAlone(t)'
  BY <1>3, AloneStays
<1> QED
  BY <1>1, <1>2, <1>3 DEF Next, CompleteInv

\* A call that returns has copied its blocks.
LEMMA CompleteHolds == WorkspaceInv /\ ShareInv /\ CompleteInv => CloneComplete
<1>1. ASSUME WorkspaceInv, ShareInv, CompleteInv, NEW s \in Sessions, At(s, "cloned")
      PROVE  /\ Blocks(s) \subseteq DOMAIN Copies(s)
             /\ \A a, b \in DOMAIN Copies(s) : Copies(s)[a] = Copies(s)[b] => a = b
  <2>1. Op(s).do = "cloned" /\ Op(s) \in Range(todo[s]) /\ IsOver(todo)
    BY <1>1, OpSound
  <2>2. PICK q, op : Course(s, q, op)
    BY <1>1, <2>1 DEF CompleteInv, Copying
  <2>3. q = <<>> /\ Op(s) = op
    <3>1. q # <<>> => Op(s).do \in CloneOps
      BY <2>1, <2>2, CourseFirst DEF Course
    <3> QED
      BY <2>1, <2>2, <3>1, CourseFirst DEF CloneOps
  <2>4. Blocks(s) = Lasting(s, op.ko)
    BY <2>3 DEF Blocks, Lasting
  <2>5. Range(q) = {}
    BY <2>3, ListOf
  <2>6. Blocks(s) \subseteq DOMAIN mem[s].copies
    BY <2>2, <2>4, <2>5 DEF Course, Handled
  <2>7. mem[s].made \notin Blocks(s)
    <3>1. Within(since[s], Finds(s, db))
      BY <1>1, <2>1 DEF ShareInv, SinceInv, Followed
    <3>2. \A m \in Blocks(s) : m \in DOMAIN db.wob /\ db.wob[m].kind = "CODE"
      BY <2>4, <3>1, LastingFound
    <3> QED
      BY <2>2, <3>2 DEF Course, ProjectOnly
  <2>8. /\ DOMAIN Copies(s) = DOMAIN mem[s].copies \ {mem[s].made}
        /\ \A a \in DOMAIN Copies(s) : Copies(s)[a] = mem[s].copies[a]
    BY DEF Copies, Restrict
  <2>9. \A a, b \in DOMAIN mem[s].copies : mem[s].copies[a] = mem[s].copies[b] => a = b
    BY <2>2 DEF Course, CopiesApart
  <2> QED
    BY <2>6, <2>7, <2>8, <2>9
<1> QED
  BY <1>1 DEF CloneComplete

LEMMA NothingUnderWay == Init => ShareInv /\ CompleteInv
<1>1. Range(<<>>) = {}
  BY ListOf
<1> QED
  BY <1>1 DEF Init, ShareInv, SinceInv, RightsInv, Followed, CompleteInv, CallAlone, Copying

(* When clone_project returns, it has copied every block that was in the   *)
(* project ever since the clone was committed, and each block once,        *)
(* whatever other sessions, and the same session before and after, do to   *)
(* the project and to the clone between its transactions.                  *)
THEOREM ClonesAreComplete == Spec => []CloneComplete
<1> QED
  BY CompleteHolds, NothingUnderWay, InitInv, NextInv, ShareNext, CompleteNext, PTL DEF Spec

-----------------------------------------------------------------------------
(***************************************************************************)
(* Linking a clone.  While clone_project is under way and the others leave *)
(* the clone alone, its call first copies blocks, each linked to the clone *)
(* in the next transaction, and collects the edges between them; then it   *)
(* copies these edges one by one, each with its connectors in the          *)
(* transaction behind.                                                     *)
(***************************************************************************)
SearchOps == {"copy_nodes", "copy_node", "copy_in", "copy_out"}

\* The connectors of a copied edge are of the original: some it had at some
\* time, and all it had all the time.
Faithful(s, a, b, attr) ==
  /\ \A rc \in DOMAIN attr : <<<<a, b>>, attr[rc], rc>> \in since[s].ever
  /\ \A w \in since[s].wires : w[1] = <<a, b>> => w[3] \in DOMAIN attr /\ attr[w[3]] = w[2]

Image(s, a, b) == <<mem[s].copies[a], mem[s].copies[b]>>
Copied(s) == DOMAIN mem[s].copies \ {mem[s].made}
Placed(s, m) == <<mem[s].made, mem[s].copies[m]>> \in DOMAIN db.edge

\* Both ends were in the project all the time, and the edge between them.
Lasts(s, ko, a, b) == a \in Lasting(s, ko) /\ b \in Lasting(s, ko) /\ <<a, b>> \in since[s].edge

\* An edge has been collected, or will be with its end.
Paired(s, r, ko, a, b) ==
  \/ <<a, b>> \in Range(mem[s].pairs)
  \/ \E o \in Range(r) : \/ o.do = "copy_in" /\ o.wob = b
                         \/ o.do = "copy_node" /\ o.wob = b /\ o.child
                         \/ o.do = "copy_nodes" /\ o.ko = ko

Searching(s, p, r, ko) ==
  /\ \A o \in Range(r) : o.do \in SearchOps
  /\ \/ p = <<>> /\ \A m \in Copied(s) : Placed(s, m)
     \/ \E x \in Copied(s) : /\ p = <<AddEdge(mem[s].made, mem[s].copies[x])>>
                             /\ \A m \in Copied(s) \ {x} : Placed(s, m)
  /\ \A a, b \in Copied(s) : Image(s, a, b) \notin DOMAIN db.edge
  /\ \A a, b : Lasts(s, ko, a, b) => Paired(s, r, ko, a, b)

Sets(s, a, b, attr) == <<SetAttributes(Image(s, a, b), attr)>>
Adds(s, a, b, attr) ==
  <<AddEdge(mem[s].copies[a], mem[s].copies[b]), SetAttributes(Image(s, a, b), attr)>>

Linking(s, p, r, ko) ==
  /\ \A o \in Range(r) : o.do = "copy_edge" /\ o.edge = <<o.edge[1], o.edge[2]>>
  /\ \A m \in Copied(s) : Placed(s, m)
  /\ \/ p = <<>>
     \/ \E a, b \in DOMAIN mem[s].copies : \E attr :
          Faithful(s, a, b, attr) /\ p \in {Sets(s, a, b, attr), Adds(s, a, b, attr)}
  /\ \A a, b \in Copied(s) : Image(s, a, b) \in DOMAIN db.edge =>
       Faithful(s, a, b, db.edge[Image(s, a, b)]) \/ \E attr : p = Sets(s, a, b, attr)
  /\ \A a, b \in Copied(s) : Lasts(s, ko, a, b) =>
       \/ Image(s, a, b) \in DOMAIN db.edge
       \/ \E attr : p = Adds(s, a, b, attr)
       \/ \E o \in Range(r) : o.edge = <<a, b>>

Mine(s, d) == \A x \in Own(s) : x \in DOMAIN d.wob /\ d.wob[x].owner = User[s]

Inside(s, d) == \A e \in DOMAIN d.edge : e[2] \in Own(s) => e[1] \in Own(s)

Rooted(s) ==
  /\ mem[s].made \in DOMAIN mem[s].copies /\ mem[s].copies[mem[s].made] = mem[s].made
  /\ Inside(s, db) /\ Mine(s, db) /\ (snap[s] # None => Mine(s, snap[s]))
  /\ \A e \in Range(mem[s].pairs) : e = <<e[1], e[2]>>

Way(s, p, r, l, op) ==
  /\ IsList(p) /\ IsList(r) /\ todo[s] = p \o (r \o l) /\ op.do = "cloned" /\ Rooted(s)
  /\ \/ (\E e : e.do = "copy_edges" /\ l = <<e, op>>) /\ Searching(s, p, r, op.ko)
     \/ l = <<op>> /\ Linking(s, p, r, op.ko)

\* What a followed session finds has the connectors there were all the time,
\* and none that never were.
Wired(old, new) == old.wires \subseteq new.wires /\ new.ever \subseteq old.ever

WireInv(s) ==
  Followed(s) =>
    /\ Wired(since[s], Finds(s, db))
    /\ snap[s] # None => Wired(since[s], Finds(s, snap[s]))

\* No edge has an end with an id still to be given.
EndsGiven(d) == \A e \in DOMAIN d.edge : e[1] \in 1 .. d.last /\ e[2] \in 1 .. d.last

LinkInv ==
  /\ EndsGiven(db)
  /\ \A s \in Sessions : WireInv(s) /\ (Copying(s) => \E p, r, l, op : Way(s, p, r, l, op))

LEMMA PairOf == \A x, y : <<x, y>> = <<x>> \o <<y>>
<1> SUFFICES ASSUME NEW x, NEW y PROVE <<x, y>> = <<x>> \o <<y>>
  OBVIOUS
<1>1. <<x>> \in Seq({x, y}) /\ <<y>> \in Seq({x, y}) /\ Len(<<x>>) = 1 /\ Len(<<y>>) = 1
  OBVIOUS
<1>2. DOMAIN (<<x>> \o <<y>>) = 1 .. 2 /\ <<x>> \o <<y>> \in Seq({x, y})
  BY <1>1
<1>3. (<<x>> \o <<y>>)[1] = x /\ (<<x>> \o <<y>>)[2] = y
  BY <1>1
<1> DEFINE c == <<x>> \o <<y>>
<1>4. Len(c) = 2 /\ c \in Seq({x, y}) /\ c[1] = x /\ c[2] = y
  BY <1>1, <1>3
<1> HIDE DEF c
<1>5. Len(<<x, y>>) = 2 /\ <<x, y>> \in Seq({x, y}) /\ <<x, y>>[1] = x /\ <<x, y>>[2] = y
  OBVIOUS
<1>6. \A i \in 1 .. 2 : <<x, y>>[i] = c[i]
  BY <1>4, <1>5
<1> HIDE <1>3
<1>7. <<x, y>> = c
  BY <1>4, <1>5, <1>6, SeqEqual
<1> QED
  BY <1>7 DEF c

LEMMA ThreeOf == \A x, y, z : <<x, y, z>> \o <<>> = <<x>> \o <<y, z>>
<1> SUFFICES ASSUME NEW x, NEW y, NEW z PROVE <<x, y, z>> \o <<>> = <<x>> \o <<y, z>>
  OBVIOUS
<1> DEFINE c == <<x, y, z>> \o <<>>
           d == <<x>> \o <<y, z>>
<1>1. /\ <<x>> \in Seq({x, y, z}) /\ <<y, z>> \in Seq({x, y, z}) /\ <<x, y, z>> \in Seq({x, y, z})
      /\ Len(<<x>>) = 1 /\ Len(<<y, z>>) = 2 /\ Len(<<x, y, z>>) = 3 /\ <<>> \in Seq({x, y, z})
  OBVIOUS
<1>2. c \in Seq({x, y, z}) /\ Len(c) = 3 /\ c[1] = x /\ c[2] = y /\ c[3] = z
  BY <1>1
<1>3. d \in Seq({x, y, z}) /\ Len(d) = 3 /\ d[1] = x /\ d[2] = y /\ d[3] = z
  BY <1>1
<1> HIDE DEF c, d
<1>4. \A i \in 1 .. 3 : c[i] = d[i]
  BY <1>2, <1>3
<1>5. c = d
  BY <1>2, <1>3, <1>4, SeqEqual
<1> QED
  BY <1>5 DEF c, d

\* How a list in three parts goes on.
Partly(t, p, r, l) ==
  /\ t # <<>>
  /\ \A x : p = <<x>> => Head(t) = x /\ Tail(t) = r \o l
  /\ \A x, y : p = <<x, y>> => Head(t) = x /\ Tail(t) = <<y>> \o (r \o l)
  /\ p = <<>> /\ r # <<>> => Head(t) = Head(r) /\ Tail(t) = Tail(r) \o l
  /\ p = <<>> /\ r = <<>> => t = l

LEMMA Parts ==
  ASSUME NEW p, NEW r, NEW l, IsList(p), IsList(r), IsList(l), l # <<>>
  PROVE  Partly(p \o (r \o l), p, r, l)
<1> DEFINE S == Range(p) \cup Range(r) \cup Range(l)
<1>1. p \in Seq(S) /\ r \in Seq(S) /\ l \in Seq(S) /\ r \o l \in Seq(S)
  BY DEF IsList
<1> HIDE DEF S
<1>2. p \o (r \o l) # <<>>
  BY <1>1
<1>3. ASSUME NEW x, p = <<x>> PROVE Head(p \o (r \o l)) = x /\ Tail(p \o (r \o l)) = r \o l
  BY <1>1, <1>3
<1>4. ASSUME NEW x, NEW y, p = <<x, y>>
      PROVE  Head(p \o (r \o l)) = x /\ Tail(p \o (r \o l)) = <<y>> \o (r \o l)
  <2>1. x \in S /\ y \in S
    BY <1>1, <1>4
  <2>2. <<x>> \in Seq(S) /\ <<y>> \in Seq(S)
    BY <2>1
  <2>4. <<x, y>> = <<x>> \o <<y>>
    BY PairOf
  <2>3. p \o (r \o l) = <<x>> \o (<<y>> \o (r \o l)) /\ <<y>> \o (r \o l) \in Seq(S)
    BY <1>1, <1>4, <2>2, <2>4
  <2> HIDE DEF S
  <2> QED
    BY <2>2, <2>3
<1>5. p = <<>> => p \o (r \o l) = r \o l
  BY <1>1
<1>6. r # <<>> => Head(r \o l) = Head(r) /\ Tail(r \o l) = Tail(r) \o l
  BY <1>1
<1>7. r = <<>> => r \o l = l
  BY <1>1
<1> QED
  BY <1>2, <1>3, <1>4, <1>5, <1>6, <1>7 DEF Partly

Regroups(p, r, l) == p \o (r \o l) = (p \o r) \o l

LEMMA Regroup ==
  ASSUME NEW p, NEW r, NEW l, IsList(p), IsList(r), IsList(l)
  PROVE  Regroups(p, r, l)
<1> DEFINE S == Range(p) \cup Range(r) \cup Range(l)
<1>1. p \in Seq(S) /\ r \in Seq(S) /\ l \in Seq(S)
  BY DEF IsList
<1> HIDE DEF S
<1> QED
  BY <1>1 DEF Regroups

-----------------------------------------------------------------------------
(* Edges come only from sp_link, which knows both ends. *)
Joins(d, e) ==
  \A x \in DOMAIN e.edge : x \in DOMAIN d.edge \/ (x[1] \in DOMAIN d.wob /\ x[2] \in DOMAIN d.wob)

SetsOthers(d, e) ==
  \/ e = d
  \/ \E x : e = [d EXCEPT !.read = x]
  \/ \E x : e = [d EXCEPT !.write = x]
  \/ \E x, y : e = [d EXCEPT !.read = x, !.write = y]
  \/ \E x : e = [d EXCEPT !.group = x]
  \/ \E x : e = [d EXCEPT !.member = x]
  \/ \E x, y : e = [d EXCEPT !.group = x, !.member = y]
  \/ \E g, x : e = [d EXCEPT !.group[g] = x]
  \/ \E x : e = [d EXCEPT !.wob = x]
  \/ \E x, y : e = [d EXCEPT !.wob = x, !.last = y]

LEMMA EdgesKept ==
  ASSUME NEW d, IsDatabase(d), NEW e, SetsOthers(d, e)
  PROVE  e.edge = d.edge
<1> USE DEF IsDatabase
<1>1. CASE \/ e = d
           \/ \E x : e = [d EXCEPT !.read = x]
           \/ \E x : e = [d EXCEPT !.write = x]
  BY <1>1
<1>2. CASE \E x, y : e = [d EXCEPT !.read = x, !.write = y]
  BY <1>2
<1>3. CASE \/ \E x : e = [d EXCEPT !.group = x]
           \/ \E x : e = [d EXCEPT !.member = x]
           \/ \E x : e = [d EXCEPT !.wob = x]
  BY <1>3
<1>4. CASE \E x, y : e = [d EXCEPT !.group = x, !.member = y]
  BY <1>4
<1>5. CASE \E g, x : e = [d EXCEPT !.group[g] = x]
  BY <1>5
<1>6. CASE \E x, y : e = [d EXCEPT !.wob = x, !.last = y]
  BY <1>6
<1> QED
  BY <1>1, <1>2, <1>3, <1>4, <1>5, <1>6 DEF SetsOthers

LEMMA EdgesSet ==
  ASSUME NEW d, IsDatabase(d), NEW x
  PROVE  [d EXCEPT !.edge = x].edge = x
  BY DEF IsDatabase

LEMMA DeletedEdges ==
  ASSUME IsDatabase(db), NEW ms
  PROVE  Joins(db, Without(db, ms)) /\ Joins(db, Deleted(db, ms))
<1>1. Deleted(db, ms).edge = db.edge
  <2>1. SetsOthers(db, Deleted(db, ms))
    BY DEF Deleted, SetsOthers
  <2> QED
    BY <2>1, EdgesKept
<1>2. DOMAIN Without(db, ms).edge \subseteq DOMAIN db.edge
  <2> DEFINE E == {x \in DOMAIN db.edge : x[1] \notin ms /\ x[2] \notin ms}
  <2>1. Without(db, ms).edge = Restrict(db.edge, E)
    BY DEF Without, IsDatabase
  <2>2. DOMAIN Restrict(db.edge, E) = E
    BY DEF Restrict
  <2> QED
    BY <2>1, <2>2
<1> QED
  BY <1>1, <1>2 DEF Joins

LEMMA StepJoins ==
  ASSUME WorkspaceInv, NEW s \in Sessions, Step(s)
  PROVE  Joins(db, db')
<1>1. IsDatabase(db)
  BY DEF WorkspaceInv, DatabaseInv
<1>2. ASSUME DOMAIN db'.edge \subseteq DOMAIN db.edge PROVE Joins(db, db')
  BY <1>2 DEF Joins
<1>0. ASSUME SetsOthers(db, db') PROVE Joins(db, db')
  BY <1>0, <1>1, <1>2, EdgesKept
<1>3. CASE UNCHANGED db
  BY <1>2, <1>3
<1>4. ASSUME NEW row, CommitsAndLoads(s, Inserted(row)) PROVE Joins(db, db')
  <2>1. SetsOthers(db, Inserted(row))
    BY DEF Inserted, SetsOthers
  <2> QED
    BY <1>0, <1>4, <2>1 DEF CommitsAndLoads
<1>5. CASE Creation(s)
  <2>1. CASE create_wob(s)
    BY <2>1, <1>4 DEF create_wob
  <2>2. CASE sp_link(s)
    <3> DEFINE e == Op(s).edge
    <3>1. \/ UNCHANGED db
          \/ /\ {e[1], e[2]} \subseteq DOMAIN db.wob
             /\ db' = [db EXCEPT !.edge = Put(db.edge, e, NoAttributes)]
      BY <2>2 DEF sp_link, Commits, Sees
    <3>2. DOMAIN Put(db.edge, e, NoAttributes) = DOMAIN db.edge \cup {e}
      BY DEF Put
    <3> HIDE DEF e
    <3>3. CASE {e[1], e[2]} \subseteq DOMAIN db.wob /\ db' = [db EXCEPT !.edge = Put(db.edge, e, NoAttributes)]
      <4>1. db'.edge = Put(db.edge, e, NoAttributes)
        BY <1>1, <3>3, EdgesSet
      <4> QED
        BY <3>2, <3>3, <4>1 DEF Joins
    <3> QED
      BY <1>3, <3>1, <3>3
  <2>3. CASE copy_ko_acls(s)
    BY <2>3, <1>3 DEF copy_ko_acls, Sees
  <2>4. CASE insert_acls(s)
    <3>1. SetsOthers(db, db')
      BY <2>4 DEF insert_acls, Commits, SetsOthers
    <3> QED
      BY <1>0, <3>1
  <2> QED
    BY <1>5, <2>1, <2>2, <2>3, <2>4 DEF Creation
<1>6. CASE Editing(s)
  <2>1. CASE link(s) \/ _update_edge(s) \/ clean_edges(s)
    BY <2>1, <1>3 DEF link, _update_edge, clean_edges, Sees, Rests
  <2>2. CASE update_api(s) \/ unlink(s)
    BY <2>2, <1>3 DEF update_api, unlink, Sees, Rests, Commits
  <2>3. \A e, v : DOMAIN [db EXCEPT !.edge[e] = v].edge = DOMAIN db.edge
    BY <1>1 DEF IsDatabase
  <2>4. \A e : DOMAIN [db EXCEPT !.edge = Restrict(db.edge, DOMAIN db.edge \ {e})].edge \subseteq DOMAIN db.edge
    BY <1>1, EdgesSet DEF Restrict
  <2>5. CASE set_edge_attribute(s)
    <3>1. UNCHANGED db \/ \E e, v : db' = [db EXCEPT !.edge[e] = v]
      BY <2>5 DEF set_edge_attribute, Commits, Sees
    <3> QED
      BY <1>2, <1>3, <2>3, <3>1
  <2>6. CASE delete_edge(s)
    <3>1. UNCHANGED db \/ \E e : db' = [db EXCEPT !.edge = Restrict(db.edge, DOMAIN db.edge \ {e})]
      BY <2>6 DEF delete_edge, Commits, Sees
    <3> QED
      BY <1>2, <1>3, <2>4, <3>1
  <2>7. CASE CleanEdge(s)
    <3>1. \/ UNCHANGED db
          \/ \E e : db' = [db EXCEPT !.edge = Restrict(db.edge, DOMAIN db.edge \ {e})]
          \/ \E e, v : db' = [db EXCEPT !.edge[e] = v]
      BY <2>7 DEF CleanEdge
    <3> QED
      BY <1>2, <1>3, <2>3, <2>4, <3>1
  <2> QED
    BY <1>6, <2>1, <2>2, <2>5, <2>6, <2>7 DEF Editing
<1>7. CASE Cloning(s)
  <2>1. CASE clone_object(s) \/ clone_project(s) \/ clone_from_org(s)
    BY <2>1, <1>3, <1>4 DEF clone_object, clone_project, clone_from_org, Sees, Rests
  <2>2. CASE CopyNodes(s) \/ CopyInbound(s) \/ CopyOutbound(s) \/ CopyEdges(s) \/ CopyEdge(s)
    BY <2>2, <1>3 DEF CopyNodes, CopyInbound, CopyOutbound, CopyEdges, CopyEdge, Sees, Rests
  <2>3. CASE make_single_user(s) \/ CopyLinks(s) \/ LinkMade(s)
    BY <2>3, <1>3 DEF make_single_user, CopyLinks, LinkMade, Rests
  <2> QED
    BY <1>7, <2>1, <2>2, <2>3 DEF Cloning
<1>8. CASE Sharing(s)
  <2>1. CASE admin_grant_wob_to_group(s) \/ GrantChildren(s) \/ RevokeChildren(s)
    BY <1>3, <2>1 DEF admin_grant_wob_to_group, GrantChildren, RevokeChildren, Sees, Rests
  <2>2. CASE GrantRow(s)
    <3>1. SetsOthers(db, db')
      BY <2>2 DEF GrantRow, SetsOthers
    <3> QED
      BY <1>0, <3>1
  <2>3. CASE admin_revoke_group_from_wob(s)
    <3>1. SetsOthers(db, db')
      BY <2>3 DEF admin_revoke_group_from_wob, SetsOthers
    <3> QED
      BY <1>0, <3>1
  <2>4. CASE admin_grant_workflow_to_team(s) \/ admin_revoke_workflow_from_team(s)
    BY <1>3, <2>4 DEF admin_grant_workflow_to_team, admin_revoke_workflow_from_team, Rests
  <2>5. CASE AclRows(s)
    <3>1. SetsOthers(db, db')
      BY <2>5 DEF AclRows, SetsOthers
    <3> QED
      BY <1>0, <3>1
  <2> QED
    BY <1>8, <2>1, <2>2, <2>3, <2>4, <2>5 DEF Sharing
<1>9. CASE Grouping(s)
  <2>1. CASE \/ admin_assign_user_to_group(s) \/ admin_remove_user_from_group(s)
             \/ admin_drop_user_group(s) \/ admin_update_user_group(s) \/ _create_organzation(s)
    BY <1>3, <2>1 DEF admin_assign_user_to_group, admin_remove_user_from_group,
       admin_drop_user_group, admin_update_user_group, Asks, _create_organzation, Rests
  <2>2. CASE GroupRow(s)
    <3>1. SetsOthers(db, db')
      BY <2>2 DEF GroupRow, SetsOthers
    <3> QED
      BY <1>0, <3>1
  <2>3. CASE admin_create_user_group(s)
    <3>1. SetsOthers(db, db')
      BY <2>3 DEF admin_create_user_group, SetsOthers
    <3> QED
      BY <1>0, <3>1
  <2> QED
    BY <1>9, <2>1, <2>2, <2>3 DEF Grouping
<1>10. CASE Deletion(s)
  <2>1. UNCHANGED db \/ \E ms : db' = Without(db, ms) \/ db' = Deleted(db, ms)
    <3>1. CASE delete_project(s)
      BY <3>1 DEF delete_project, Sees
    <3>2. CASE DeleteGraph(s)
      BY <3>2 DEF DeleteGraph, Commits
    <3>3. CASE sp_delete_object(s)
      BY <3>3 DEF sp_delete_object, Commits
    <3>4. CASE admin_soft_delete_object(s)
      BY <3>4 DEF admin_soft_delete_object
    <3> QED
      BY <1>10, <3>1, <3>2, <3>3, <3>4 DEF Deletion
  <2> QED
    BY <1>1, <1>3, <2>1, DeletedEdges
<1>11. CASE Call(s) \/ Return(s) \/ Look(s)
  BY <1>11, <1>3 DEF Call, Return, Look, Sees, Rests
<1> QED
  BY <1>5, <1>6, <1>7, <1>8, <1>9, <1>10, <1>11 DEF Step

\* So the ends of edges have ids that were given.
LEMMA EndsStay ==
  ASSUME WorkspaceInv, NEW s \in Sessions, Step(s), EndsGiven(db)
  PROVE  EndsGiven(db')
<1>1. Joins(db, db') /\ Evolves(db, db')
  BY StepJoins, StepEffect DEF Effect
<1>2. db.last \in Nat /\ db'.last \in Nat /\ db.last <= db'.last /\ DOMAIN db.wob \subseteq 1 .. db.last
  BY <1>1, KnownKept, ViewRows DEF WorkspaceInv, DatabaseInv
<1>3. 1 .. db.last \subseteq 1 .. db'.last
  BY <1>2
<1> QED
  BY <1>1, <1>2, <1>3 DEF Joins, EndsGiven

-----------------------------------------------------------------------------
(* What a clone still has to do, and how it goes on. *)

\* What a session remembers of connectors: those there were all the time get
\* fewer, those there ever were get more.
LEMMA WiresMove ==
  ASSUME Remembers, NEW s \in Sessions, Followed(s)'
  PROVE  /\ Followed(s) /\ WireInv(s) => /\ Wired(since'[s], since[s])
                                         /\ Wired(since'[s], Finds(s, db'))
         /\ ~Followed(s) => since'[s] = Finds(s, db')
<1>1. since'[s] = IF ~Followed(s) THEN Finds(s, db')
                  ELSE IF db' = db THEN since[s] ELSE Still(since[s], Finds(s, db'))
  BY DEF Remembers
<1>2. \A old, new : Wired(Still(old, new), old) /\ Wired(Still(old, new), new)
  BY DEF Still, Wired
<1>3. Wired(since[s], since[s])
  BY DEF Wired
<1> QED
  BY <1>1, <1>2, <1>3 DEF WireInv

LEMMA WiredTwice ==
  ASSUME NEW a, NEW b, NEW c, Wired(a, b), Wired(b, c)
  PROVE  Wired(a, c)
  BY DEF Wired

LEMMA WireNext ==
  ASSUME WorkspaceInv, NEW s \in Sessions, Step(s), Remembers, NEW t \in Sessions, WireInv(t)
  PROVE  WireInv(t)'
<1>1. Effect(s)
  BY StepEffect
<1>2. CASE ~Followed(t)'
  BY <1>2 DEF WireInv, Followed
<1>3. CASE Followed(t)' /\ Followed(t)
  <2>1. Wired(since'[t], since[t]) /\ Wired(since'[t], Finds(t, db'))
    BY <1>3, WiresMove
  <2>2. snap'[t] \in {None, snap[t], db, db'}
    BY <1>1, Listed
  <2> QED
    BY <1>3, <2>1, <2>2, WiredTwice DEF WireInv
<1>4. CASE Followed(t)' /\ ~Followed(t)
  <2>1. t = s
    BY <1>1, <1>4, Listed DEF Followed
  <2>2. PICK op \in Range(todo'[s]) : op.do \in {"copy_acls", "insert_acls", "cloned"}
    BY <1>4, <2>1 DEF Followed
  <2>3. Due(s, op)
    BY <1>1, <1>4, <2>1, <2>2, Listed DEF Followed
  <2>4. snap'[s] = db'
    BY <1>4, <2>1, <2>2, <2>3 DEF Due
  <2>5. since'[s] = Finds(s, db') /\ Wired(since'[s], Finds(s, db'))
    BY <1>4, <2>1, WiresMove DEF Wired
  <2> QED
    BY <1>4, <2>1, <2>4, <2>5 DEF WireInv
<1> QED
  BY <1>2, <1>3, <1>4

\* What a copied edge is faithful to, it stays faithful to.
LEMMA FaithfulLater ==
  ASSUME NEW s \in Sessions, Wired(since'[s], since[s])
  PROVE  \A a, b, attr : Faithful(s, a, b, attr) => Faithful(s, a, b, attr)'
  BY DEF Faithful, Wired

LEMMA LastsBefore ==
  ASSUME NEW s \in Sessions, Within(since'[s], since[s])
  PROVE  \A ko, a, b : Lasts(s, ko, a, b)' => Lasts(s, ko, a, b)
  BY DEF Lasts, Lasting, Within

\* The connectors that a followed session reads of an edge are faithful.
LEMMA ReadFaithfully ==
  ASSUME NEW s \in Sessions, NEW d, Wired(since[s], Finds(s, d)), NEW a, NEW b
  PROVE  Faithful(s, a, b, get_edge_attribute(d, User[s], <<a, b>>))
<1> DEFINE e == <<a, b>>
           edges == {x \in DOMAIN d.edge : v_edges(d, User[s], x)}
           attr == get_edge_attribute(d, User[s], e)
<1>1. /\ Finds(s, d).wires = UNION {{<<x, d.edge[x][rc], rc>> : rc \in DOMAIN d.edge[x]} : x \in edges}
      /\ Finds(s, d).ever = UNION {{<<x, d.edge[x][rc], rc>> : rc \in DOMAIN d.edge[x]} : x \in edges}
  BY DEF Finds
<1>2. ASSUME NEW w \in Finds(s, d).wires, w[1] = e PROVE w[3] \in DOMAIN attr /\ attr[w[3]] = w[2]
  <2>1. PICK x \in edges : \E rc \in DOMAIN d.edge[x] : w = <<x, d.edge[x][rc], rc>>
    BY <1>1
  <2>2. x = e /\ attr = d.edge[e]
    BY <1>2, <2>1 DEF get_edge_attribute
  <2> QED
    BY <2>1, <2>2
<1>3. ASSUME NEW rc \in DOMAIN attr PROVE <<e, attr[rc], rc>> \in Finds(s, d).ever
  <2>1. CASE v_edges(d, User[s], e)
    <3>1. e \in edges /\ attr = d.edge[e]
      BY <2>1 DEF v_edges, get_edge_attribute
    <3> QED
      BY <1>1, <3>1
  <2>2. CASE ~v_edges(d, User[s], e)
    <3>1. attr = <<>>
      BY <2>2 DEF get_edge_attribute, NoAttributes
    <3> QED
      BY <3>1
  <2> QED
    BY <2>1, <2>2
<1> HIDE DEF edges, attr
<1> QED
  BY <1>2, <1>3 DEF Faithful, Wired, attr

LEMMA HeadOrTail ==
  ASSUME NEW q, IsList(q), q # <<>>
  PROVE  \A o \in Range(q) : o = Head(q) \/ o \in Range(Tail(q))
<1> SUFFICES ASSUME NEW i \in DOMAIN q, i # 1 PROVE q[i] \in Range(Tail(q))
  BY DEF IsList, Range
<1>1. i - 1 \in DOMAIN Tail(q) /\ Tail(q)[i - 1] = q[i]
  BY DEF IsList
<1> QED
  BY <1>1 DEF Range

\* The transaction that is next, by the parts of the list.
LEMMA WayFirst ==
  ASSUME NEW s \in Sessions, NEW p, NEW r, NEW l, NEW op, Way(s, p, r, l, op)
  PROVE  /\ todo[s] # <<>> /\ IsList(l) /\ l # <<>> /\ op \in Range(todo[s]) /\ Copying(s)
         /\ Partly(todo[s], p, r, l)
         /\ \A x : p = <<x>> => Op(s) = x /\ Tail(todo[s]) = r \o l
         /\ \A x, y : p = <<x, y>> => Op(s) = x /\ Tail(todo[s]) = <<y>> \o (r \o l)
         /\ p = <<>> /\ r # <<>> => Op(s) = Head(r) /\ Tail(todo[s]) = Tail(r) \o l
         /\ p = <<>> /\ r = <<>> => todo[s] = l /\ Op(s) = Head(l) /\ Tail(todo[s]) = Tail(l)
<1>1. IsList(p) /\ IsList(r) /\ todo[s] = p \o (r \o l) /\ op.do = "cloned"
  BY DEF Way
<1>2. IsList(l) /\ l # <<>> /\ op \in Range(l)
  <2>1. l = <<op>> \/ \E e : l = <<e, op>>
    BY DEF Way
  <2> QED
    BY <2>1, ListOf
<1>3. op \in Range(todo[s])
  <2>1. IsList(r \o l) /\ Range(l) \subseteq Range(r \o l)
    BY <1>1, <1>2, ListAfter, RangeAfter
  <2> QED
    BY <1>1, <1>2, <2>1, RangeAfter
<1>4. Partly(todo[s], p, r, l)
  BY <1>1, <1>2, Parts
<1> QED
  BY <1>1, <1>2, <1>3, <1>4 DEF Partly, Op, Copying

LEMMA RestrictSame ==
  ASSUME NEW f, NEW g, NEW A, NEW B, Restrict(f, A) = Restrict(g, B)
  PROVE  A = B /\ \A x \in A : f[x] = g[x]
  BY DEF Restrict

\* Who leaves objects alone leaves their rows and the edges at them.
LEMMA SameObjects ==
  ASSUME NEW ms, NEW d, NEW e, OfObjects(ms, d) = OfObjects(ms, e)
  PROVE  /\ \A x \in ms : /\ x \in DOMAIN d.wob <=> x \in DOMAIN e.wob
                          /\ x \in DOMAIN d.wob => d.wob[x] = e.wob[x]
         /\ \A y : y[1] \in ms \/ y[2] \in ms =>
              /\ y \in DOMAIN d.edge <=> y \in DOMAIN e.edge
              /\ y \in DOMAIN d.edge => d.edge[y] = e.edge[y]
<1> DEFINE W(c) == Restrict(c.wob, ms \cap DOMAIN c.wob)
           At1(c) == {y \in DOMAIN c.edge : y[1] \in ms \/ y[2] \in ms}
           E(c) == Restrict(c.edge, At1(c))
<1>1. [wob |-> W(d), edge |-> E(d)] = [wob |-> W(e), edge |-> E(e)]
  BY DEF OfObjects
<1> HIDE DEF W, E
<1>2. W(d) = W(e) /\ E(d) = E(e)
  BY <1>1
<1> HIDE DEF At1
<1>3. /\ ms \cap DOMAIN d.wob = ms \cap DOMAIN e.wob
      /\ \A x \in ms \cap DOMAIN d.wob : d.wob[x] = e.wob[x]
  BY <1>2, RestrictSame DEF W
<1>4. At1(d) = At1(e) /\ \A y \in At1(d) : d.edge[y] = e.edge[y]
  BY <1>2, RestrictSame DEF E
<1> QED
  BY <1>3, <1>4 DEF At1

LEMMA WayStays ==
  ASSUME NEW s \in Sessions, NEW p, NEW r, NEW l, NEW op, Way(s, p, r, l, op),
         todo'[s] = todo[s], mem'[s] = mem[s], snap'[s] = snap[s],
         Wired(since'[s], since[s]), Within(since'[s], since[s]),
         OfObjects(Own(s), db') = OfObjects(Own(s), db)
  PROVE  Way(s, p, r, l, op)'
<1>1. /\ \A x \in Own(s) : /\ x \in DOMAIN db'.wob <=> x \in DOMAIN db.wob
                           /\ x \in DOMAIN db.wob => db'.wob[x] = db.wob[x]
      /\ \A y : y[1] \in Own(s) \/ y[2] \in Own(s) =>
           /\ y \in DOMAIN db'.edge <=> y \in DOMAIN db.edge
           /\ y \in DOMAIN db.edge => db'.edge[y] = db.edge[y]
  BY SameObjects
<1>2. /\ Own(s)' = Own(s) /\ Copied(s)' = Copied(s)
      /\ \A a, b : Image(s, a, b)' = Image(s, a, b)
      /\ \A a, b, attr : Sets(s, a, b, attr)' = Sets(s, a, b, attr)
      /\ \A a, b, attr : Adds(s, a, b, attr)' = Adds(s, a, b, attr)
  BY DEF Own, Copied, Image, Sets, Adds
<1>3. \A a \in DOMAIN mem[s].copies : mem[s].copies[a] \in Own(s)
  BY DEF Own, Range
<1>4. /\ \A a, b, attr : Faithful(s, a, b, attr) => Faithful(s, a, b, attr)'
      /\ \A ko, a, b : Lasts(s, ko, a, b)' => Lasts(s, ko, a, b)
  BY FaithfulLater, LastsBefore
<1>5. \A a, b \in Copied(s) : /\ Image(s, a, b) \in DOMAIN db'.edge <=> Image(s, a, b) \in DOMAIN db.edge
                              /\ Image(s, a, b) \in DOMAIN db.edge =>
                                   db'.edge[Image(s, a, b)] = db.edge[Image(s, a, b)]
  BY <1>1, <1>3 DEF Image, Copied
<1>6. \A m \in Copied(s) : Placed(s, m)' <=> Placed(s, m)
  BY <1>1, <1>3 DEF Placed, Copied
<1>7. Rooted(s)'
  <2>1. Mine(s, db)' /\ (snap'[s] # None => Mine(s, snap[s])')
    BY <1>1, <1>2 DEF Way, Rooted, Mine
  <2>2. Inside(s, db)'
    BY <1>1, <1>2 DEF Way, Rooted, Inside
  <2> QED
    BY <2>1, <2>2 DEF Way, Rooted, Mine
<1>8. ASSUME Searching(s, p, r, op.ko) PROVE Searching(s, p, r, op.ko)'
  <2>1. \A a, b : Lasts(s, op.ko, a, b)' => Paired(s, r, op.ko, a, b)'
    BY <1>4, <1>8 DEF Searching, Paired
  <2>2. \/ p = <<>> /\ \A m \in Copied(s)' : Placed(s, m)'
        \/ \E x \in Copied(s)' : /\ p = <<AddEdge(mem'[s].made, mem'[s].copies[x])>>
                                 /\ \A m \in Copied(s)' \ {x} : Placed(s, m)'
    BY <1>2, <1>6, <1>8 DEF Searching
  <2>3. \A a, b \in Copied(s)' : Image(s, a, b)' \notin DOMAIN db'.edge
    BY <1>2, <1>5, <1>8 DEF Searching
  <2> QED
    BY <1>8, <2>1, <2>2, <2>3 DEF Searching
<1>9. ASSUME Linking(s, p, r, op.ko) PROVE Linking(s, p, r, op.ko)'
  <2>1. \/ p = <<>>
        \/ \E a, b \in DOMAIN mem'[s].copies : \E attr :
             Faithful(s, a, b, attr)' /\ p \in {Sets(s, a, b, attr)', Adds(s, a, b, attr)'}
    BY <1>2, <1>4, <1>9 DEF Linking
  <2>2. \A a, b \in Copied(s)' : Image(s, a, b)' \in DOMAIN db'.edge =>
          Faithful(s, a, b, db.edge[Image(s, a, b)])' \/ \E attr : p = Sets(s, a, b, attr)'
    <3> SUFFICES ASSUME NEW a \in Copied(s), NEW b \in Copied(s), Image(s, a, b) \in DOMAIN db.edge,
                        ~\E attr : p = Sets(s, a, b, attr)
                 PROVE  Faithful(s, a, b, db.edge[Image(s, a, b)])'
      BY <1>2, <1>5
    <3> DEFINE attr == db.edge[Image(s, a, b)]
    <3>1. Faithful(s, a, b, attr)
      BY <1>9 DEF Linking
    <3> HIDE DEF attr
    <3>2. PICK x : x = attr
      OBVIOUS
    <3>3. Faithful(s, a, b, x)'
      BY <1>4, <3>1, <3>2
    <3>4. db'.edge[Image(s, a, b)'] = x
      BY <1>2, <1>5, <3>2 DEF attr
    <3> QED
      BY <3>3, <3>4 DEF Faithful
  <2>3. \A a, b \in Copied(s)' : Lasts(s, op.ko, a, b)' =>
          \/ Image(s, a, b)' \in DOMAIN db'.edge
          \/ \E attr : p = Adds(s, a, b, attr)'
          \/ \E o \in Range(r) : o.edge = <<a, b>>
    BY <1>1, <1>2, <1>4, <1>5, <1>9 DEF Linking
  <2>4. \A m \in Copied(s)' : Placed(s, m)'
    BY <1>2, <1>6, <1>9 DEF Linking
  <2> QED
    BY <1>9, <2>1, <2>2, <2>3, <2>4 DEF Linking
<1>10. todo'[s] = p \o (r \o l) /\ IsList(p) /\ IsList(r) /\ op.do = "cloned"
  BY DEF Way
<1> QED
  BY <1>7, <1>8, <1>9, <1>10 DEF Way

\* What a clone is doing, by its transaction.
LEMMA WayDoes ==
  ASSUME NEW s \in Sessions, NEW p, NEW r, NEW l, NEW op, Way(s, p, r, l, op)
  PROVE  /\ Op(s).do = "add_edge" =>
              \/ /\ Searching(s, p, r, op.ko) /\ (\E e : e.do = "copy_edges" /\ l = <<e, op>>)
                 /\ \E x \in Copied(s) : /\ p = <<AddEdge(mem[s].made, mem[s].copies[x])>>
                                         /\ \A m \in Copied(s) \ {x} : Placed(s, m)
              \/ /\ Linking(s, p, r, op.ko) /\ l = <<op>>
                 /\ \E a, b \in DOMAIN mem[s].copies : \E attr :
                      Faithful(s, a, b, attr) /\ p = Adds(s, a, b, attr)
         /\ Op(s).do = "set_attr" =>
              /\ Linking(s, p, r, op.ko) /\ l = <<op>>
              /\ \E a, b \in DOMAIN mem[s].copies : \E attr :
                   Faithful(s, a, b, attr) /\ p = Sets(s, a, b, attr)
         /\ Op(s).do \in SearchOps =>
              /\ Searching(s, p, r, op.ko) /\ (\E e : e.do = "copy_edges" /\ l = <<e, op>>)
              /\ p = <<>> /\ r # <<>>
         /\ Op(s).do = "copy_edges" =>
              /\ Searching(s, p, r, op.ko) /\ p = <<>> /\ r = <<>> /\ \E e : l = <<e, op>>
         /\ Op(s).do = "copy_edge" =>
              Linking(s, p, r, op.ko) /\ l = <<op>> /\ p = <<>> /\ r # <<>>
         /\ Op(s).do = "cloned" =>
              Linking(s, p, r, op.ko) /\ l = <<op>> /\ p = <<>> /\ r = <<>> /\ todo[s] = <<op>>
         /\ Op(s).do \in CloneOps \cup {"cloned"}
<1> USE WayFirst
<1>1. IsList(r) /\ op.do = "cloned" /\ (r # <<>> => Head(r) \in Range(r))
  BY ListRest DEF Way
<1>2. \A e : Head(<<e, op>>) = e /\ Head(<<op>>) = op
  OBVIOUS
<1>3. CASE Searching(s, p, r, op.ko) /\ \E e : e.do = "copy_edges" /\ l = <<e, op>>
  <2>1. CASE p = <<>> /\ r = <<>>
    <3>1. Op(s).do = "copy_edges"
      BY <1>2, <1>3, <2>1
    <3> QED
      BY <1>3, <2>1, <3>1 DEF CloneOps, SearchOps
  <2>2. CASE p = <<>> /\ r # <<>>
    <3>1. Op(s).do \in SearchOps
      BY <1>1, <1>3, <2>2 DEF Searching
    <3> QED
      BY <1>3, <2>2, <3>1 DEF CloneOps, SearchOps
  <2>3. CASE \E x \in Copied(s) : /\ p = <<AddEdge(mem[s].made, mem[s].copies[x])>>
                                  /\ \A m \in Copied(s) \ {x} : Placed(s, m)
    <3>1. Op(s).do = "add_edge"
      BY <2>3 DEF AddEdge
    <3> QED
      BY <1>3, <2>3, <3>1 DEF CloneOps, SearchOps
  <2> QED
    BY <1>3, <2>1, <2>2, <2>3 DEF Searching
<1>4. CASE Linking(s, p, r, op.ko) /\ l = <<op>>
  <2>1. CASE p = <<>> /\ r = <<>>
    <3>1. Op(s).do = "cloned" /\ todo[s] = <<op>>
      BY <1>1, <1>2, <1>4, <2>1
    <3> QED
      BY <1>4, <2>1, <3>1 DEF CloneOps, SearchOps
  <2>2. CASE p = <<>> /\ r # <<>>
    <3>1. Op(s).do = "copy_edge"
      BY <1>1, <1>4, <2>2 DEF Linking
    <3> QED
      BY <1>4, <2>2, <3>1 DEF CloneOps, SearchOps
  <2>3. ASSUME NEW a \in DOMAIN mem[s].copies, NEW b \in DOMAIN mem[s].copies, NEW attr,
               Faithful(s, a, b, attr), p = Sets(s, a, b, attr)
        PROVE  Op(s).do = "set_attr"
    BY <2>3 DEF Sets, SetAttributes
  <2>4. ASSUME NEW a \in DOMAIN mem[s].copies, NEW b \in DOMAIN mem[s].copies, NEW attr,
               Faithful(s, a, b, attr), p = Adds(s, a, b, attr)
        PROVE  Op(s).do = "add_edge"
    <3>1. Op(s) = AddEdge(mem[s].copies[a], mem[s].copies[b])
      BY <2>4 DEF Adds
    <3> QED
      BY <3>1 DEF AddEdge
  <2> QED
    BY <1>4, <2>1, <2>2, <2>3, <2>4 DEF Linking, CloneOps, SearchOps
<1> QED
  BY <1>3, <1>4 DEF Way

\* A session may read and link what is its own.
LEMMA MineReads ==
  ASSUME NEW s \in Sessions, NEW d, Mine(s, d), NEW x \in Own(s)
  PROVE  Reads(d, User[s], x) /\ x \in DOMAIN d.wob
  BY DEF Mine, Reads, Holds

LEMMA MineViews ==
  ASSUME NEW s \in Sessions, Rooted(s)
  PROVE  Mine(s, db) /\ Mine(s, View(s))
  BY DEF Rooted, View

\* The link of a copy is made, unless it is there.
LEMMA LinkMakes ==
  ASSUME WorkspaceInv, NEW s \in Sessions, sp_link(s), Rooted(s),
         NEW x \in Own(s), NEW y \in Own(s), Op(s) = AddEdge(x, y)
  PROVE  /\ db'.wob = db.wob /\ DOMAIN db'.edge = DOMAIN db.edge \cup {<<x, y>>}
         /\ \A z \in DOMAIN db.edge : db'.edge[z] = db.edge[z]
         /\ snap'[s] \in {None, View(s)}
         /\ Then(s, <<>>) /\ UNCHANGED mem
<1> DEFINE e == <<x, y>>
<1>1. Op(s).edge = e /\ e[1] = x /\ e[2] = y
  BY DEF AddEdge
<1>2. /\ Reads(View(s), User[s], x) /\ Reads(View(s), User[s], y)
      /\ x \in DOMAIN db.wob /\ y \in DOMAIN db.wob
  BY MineReads, MineViews
<1>3. IsDatabase(db) /\ IsOver(snap)
  BY DEF WorkspaceInv, DatabaseInv, Functions
<1>4. Then(s, <<>>) /\ UNCHANGED mem
  BY DEF sp_link
<1> HIDE DEF e
<1>5. CASE e \in DOMAIN db.edge
  <2>1. Sees(s)
    BY <1>1, <1>5 DEF sp_link
  <2> QED
    BY <1>3, <1>4, <1>5, <2>1 DEF Sees, IsOver, e
<1>6. CASE e \notin DOMAIN db.edge
  <2>1. Commits(s, [db EXCEPT !.edge = Put(db.edge, e, NoAttributes)])
    BY <1>1, <1>2, <1>6 DEF sp_link
  <2>2. db' = [db EXCEPT !.edge = Put(db.edge, e, NoAttributes)] /\ snap'[s] = None
    BY <1>3, <2>1 DEF Commits, IsOver
  <2>3. db'.edge = Put(db.edge, e, NoAttributes) /\ db'.wob = db.wob
    BY <1>3, <2>2 DEF IsDatabase
  <2>4. /\ DOMAIN Put(db.edge, e, NoAttributes) = DOMAIN db.edge \cup {e}
        /\ \A z \in DOMAIN db.edge : Put(db.edge, e, NoAttributes)[z] = db.edge[z]
    BY <1>6 DEF Put
  <2> QED
    BY <1>4, <2>2, <2>3, <2>4 DEF e
<1> QED
  BY <1>5, <1>6

\* What stays of a clone while only edges within it are written.
LEMMA RootedStays ==
  ASSUME NEW s \in Sessions, Rooted(s), db'.wob = db.wob,
         mem'[s].made = mem[s].made, mem'[s].copies = mem[s].copies,
         \A e \in Range(mem'[s].pairs) : e = <<e[1], e[2]>>,
         snap'[s] \in {None, db, View(s)},
         \A z \in DOMAIN db'.edge : z \in DOMAIN db.edge \/ z[1] \in Own(s)
  PROVE  Rooted(s)' /\ Own(s)' = Own(s) /\ Copied(s)' = Copied(s)
<1>1. Own(s)' = Own(s) /\ Copied(s)' = Copied(s)
  BY DEF Own, Copied
<1>2. Mine(s, db) /\ Mine(s, View(s))
  BY MineViews
<1>3. Mine(s, db)' /\ (snap'[s] # None => Mine(s, snap[s])')
  BY <1>1, <1>2 DEF Mine
<1>4. Inside(s, db)'
  BY <1>1 DEF Inside, Rooted
<1> QED
  BY <1>1, <1>3, <1>4 DEF Rooted

LEMMA ListsApart ==
  ASSUME NEW s \in Sessions, NEW a, NEW b, NEW c, NEW d, NEW x, NEW y
  PROVE  /\ Adds(s, a, b, x) # Sets(s, c, d, y) /\ Adds(s, a, b, x) # <<>> /\ Sets(s, a, b, x) # <<>>
         /\ Adds(s, a, b, x) = Adds(s, c, d, y) => Image(s, a, b) = Image(s, c, d)
         /\ Sets(s, a, b, x) = Sets(s, c, d, y) => Image(s, a, b) = Image(s, c, d)
<1>1. \A u, v, w, z : <<u, v>> # <<w>> /\ <<u, v>> # <<>> /\ <<u>> # <<>>
  OBVIOUS
<1>2. Adds(s, a, b, x) # Sets(s, c, d, y) /\ Adds(s, a, b, x) # <<>> /\ Sets(s, a, b, x) # <<>>
  BY <1>1 DEF Adds, Sets
<1>3. ASSUME Adds(s, a, b, x) = Adds(s, c, d, y) PROVE Image(s, a, b) = Image(s, c, d)
  <2>1. AddEdge(mem[s].copies[a], mem[s].copies[b]) = AddEdge(mem[s].copies[c], mem[s].copies[d])
    BY <1>3 DEF Adds
  <2> QED
    BY <2>1 DEF AddEdge, Image
<1>4. ASSUME Sets(s, a, b, x) = Sets(s, c, d, y) PROVE Image(s, a, b) = Image(s, c, d)
  <2>1. SetAttributes(Image(s, a, b), x) = SetAttributes(Image(s, c, d), y)
    BY <1>4 DEF Sets
  <2> QED
    BY <2>1 DEF SetAttributes
<1> QED
  BY <1>2, <1>3, <1>4

LEMMA NothingAfter ==
  ASSUME NEW p, NEW q, IsList(p), IsList(q)
  PROVE  <<>> \o (p \o q) = p \o q
<1>1. p \o q \in Seq(Range(p \o q))
  BY ListAfter DEF IsList
<1> QED
  BY <1>1

LEMMA WayLink ==
  ASSUME WorkspaceInv, NEW s \in Sessions, sp_link(s),
         NEW p, NEW r, NEW l, NEW op, Way(s, p, r, l, op),
         Wired(since'[s], since[s]), Within(since'[s], since[s]), CopiesApart(db, mem[s].copies)
  PROVE  \E q : Way(s, q, r, l, op)'
<1>0. \A z : p = <<z>> => Op(s) = z /\ Tail(todo[s]) = r \o l
  <2>1. Partly(todo[s], p, r, l)
    BY WayFirst
  <2> QED
    BY <2>1 DEF Partly, Op
<1>1. IsOver(todo) /\ IsOver(snap) /\ IsOver(mem) /\ Op(s).do = "add_edge"
  BY OpSound DEF WorkspaceInv, Functions, sp_link
<1>2. Rooted(s) /\ IsList(p) /\ IsList(r) /\ IsList(l) /\ op.do = "cloned"
  BY WayFirst DEF Way
<1>3. \A a \in DOMAIN mem[s].copies : mem[s].copies[a] \in Own(s)
  BY DEF Own, Range
<1>4. /\ \A a, b, attr : Faithful(s, a, b, attr) => Faithful(s, a, b, attr)'
      /\ \A ko, a, b : Lasts(s, ko, a, b)' => Lasts(s, ko, a, b)
  BY FaithfulLater, LastsBefore
<1>5. ASSUME NEW x \in Own(s), NEW y \in Own(s), Op(s) = AddEdge(x, y)
      PROVE  /\ DOMAIN db'.edge = DOMAIN db.edge \cup {<<x, y>>}
             /\ \A z \in DOMAIN db.edge : db'.edge[z] = db.edge[z]
             /\ UNCHANGED mem /\ todo'[s] = <<>> \o Tail(todo[s])
             /\ Rooted(s)' /\ Copied(s)' = Copied(s)
  <2>1. /\ db'.wob = db.wob /\ DOMAIN db'.edge = DOMAIN db.edge \cup {<<x, y>>}
        /\ \A z \in DOMAIN db.edge : db'.edge[z] = db.edge[z]
        /\ snap'[s] \in {None, View(s)} /\ Then(s, <<>>) /\ UNCHANGED mem
    BY <1>2, <1>5, LinkMakes
  <2>2. todo'[s] = <<>> \o Tail(todo[s])
    BY <1>1, <2>1 DEF Then, IsOver
  <2>3. Rooted(s)' /\ Copied(s)' = Copied(s)
    BY <1>2, <2>1, RootedStays DEF Rooted
  <2> QED
    BY <2>1, <2>2, <2>3
<1>6. ASSUME Searching(s, p, r, op.ko), NEW e, e.do = "copy_edges", l = <<e, op>>,
             NEW x \in Copied(s), p = <<AddEdge(mem[s].made, mem[s].copies[x])>>,
             \A m \in Copied(s) \ {x} : Placed(s, m)
      PROVE  Way(s, <<>>, r, l, op)'
  <2>1. Op(s) = AddEdge(mem[s].made, mem[s].copies[x]) /\ Tail(todo[s]) = r \o l
    BY <1>0, <1>6
  <2>2. mem[s].made \in Own(s) /\ mem[s].copies[x] \in Own(s) /\ mem[s].copies[mem[s].made] = mem[s].made
        /\ mem[s].made \in DOMAIN mem[s].copies
    BY <1>2, <1>3 DEF Copied, Rooted
  <2>3. /\ DOMAIN db'.edge = DOMAIN db.edge \cup {<<mem[s].made, mem[s].copies[x]>>}
        /\ UNCHANGED mem /\ todo'[s] = <<>> \o Tail(todo[s])
        /\ Rooted(s)' /\ Copied(s)' = Copied(s)
    BY <1>5, <2>1, <2>2
  <2>4. todo'[s] = <<>> \o (r \o l) /\ IsList(<<>>)
    BY <2>1, <2>3, ListOf
  <2>5. \A m \in Copied(s)' : Placed(s, m)'
    BY <1>6, <2>3 DEF Placed
  <2>6. \A a, b \in Copied(s)' : Image(s, a, b)' \notin DOMAIN db'.edge
    <3> SUFFICES ASSUME NEW a \in Copied(s), NEW b \in Copied(s) PROVE Image(s, a, b) \notin DOMAIN db'.edge
      BY <2>3 DEF Image
    <3>1. mem[s].copies[a] # mem[s].made
      BY <2>2 DEF Copied, CopiesApart
    <3>2. Image(s, a, b) # <<mem[s].made, mem[s].copies[x]>>
      BY <3>1 DEF Image
    <3> QED
      BY <1>6, <2>3, <3>2 DEF Searching
  <2>7. \A a, b : Lasts(s, op.ko, a, b)' => Paired(s, r, op.ko, a, b)'
    BY <1>4, <1>6, <2>3 DEF Searching, Paired
  <2>8. Searching(s, <<>>, r, op.ko)'
    BY <1>6, <2>5, <2>6, <2>7 DEF Searching
  <2> QED
    BY <1>2, <1>6, <2>3, <2>4, <2>8 DEF Way
<1>7. ASSUME Linking(s, p, r, op.ko), l = <<op>>,
             NEW a \in DOMAIN mem[s].copies, NEW b \in DOMAIN mem[s].copies, NEW attr,
             Faithful(s, a, b, attr), p = Adds(s, a, b, attr)
      PROVE  \E q : Way(s, q, r, l, op)'
  <2>0. PICK q : q = Sets(s, a, b, attr)
    OBVIOUS
  <2>1. /\ Op(s) = AddEdge(mem[s].copies[a], mem[s].copies[b])
        /\ Tail(todo[s]) = <<SetAttributes(Image(s, a, b), attr)>> \o (r \o l)
    BY <1>7, WayFirst DEF Adds
  <2>2. /\ DOMAIN db'.edge = DOMAIN db.edge \cup {Image(s, a, b)}
        /\ \A z \in DOMAIN db.edge : db'.edge[z] = db.edge[z]
        /\ UNCHANGED mem /\ todo'[s] = <<>> \o Tail(todo[s])
        /\ Rooted(s)' /\ Copied(s)' = Copied(s)
    BY <1>3, <1>5, <2>1 DEF Image
  <2>3. IsList(q) /\ todo'[s] = q \o (r \o l)
    <3>1. IsList(q) /\ IsList(r \o l)
      BY <1>2, <2>0, ListOf, ListAfter DEF Sets
    <3>2. <<>> \o (q \o (r \o l)) = q \o (r \o l)
      BY <3>1, NothingAfter
    <3> QED
      BY <2>0, <2>1, <2>2, <3>1, <3>2 DEF Sets
  <2>4. /\ \A c, d : Image(s, c, d)' = Image(s, c, d)
        /\ \A c, d, z : Sets(s, c, d, z)' = Sets(s, c, d, z)
    BY <2>2 DEF Image, Sets
  <2>5. \A m \in Copied(s)' : Placed(s, m)'
    BY <1>7, <2>2 DEF Placed, Linking
  <2>6. \A c, d \in Copied(s)' : Image(s, c, d)' \in DOMAIN db'.edge =>
          Faithful(s, c, d, db.edge[Image(s, c, d)])' \/ \E z : q = Sets(s, c, d, z)'
    <3> SUFFICES ASSUME NEW c \in Copied(s), NEW d \in Copied(s), Image(s, c, d) \in DOMAIN db'.edge,
                        Image(s, c, d) # Image(s, a, b)
                 PROVE  Faithful(s, c, d, db.edge[Image(s, c, d)])'
      BY <2>0, <2>2, <2>4 DEF Sets
    <3>1. Image(s, c, d) \in DOMAIN db.edge
      BY <2>2
    <3>2. Faithful(s, c, d, db.edge[Image(s, c, d)])
      BY <1>7, <3>1, ListsApart DEF Linking
    <3>3. PICK z : z = db.edge[Image(s, c, d)]
      OBVIOUS
    <3>4. Faithful(s, c, d, z)' /\ db'.edge[Image(s, c, d)'] = z
      BY <1>4, <2>2, <2>4, <3>1, <3>2, <3>3
    <3> QED
      BY <3>4 DEF Faithful
  <2>7. \A c, d \in Copied(s)' : Lasts(s, op.ko, c, d)' =>
          Image(s, c, d)' \in DOMAIN db'.edge \/ \E o \in Range(r) : o.edge = <<c, d>>
    BY <1>4, <1>7, <2>2, <2>4, ListsApart DEF Linking
  <2>8. Faithful(s, a, b, attr)' /\ q = Sets(s, a, b, attr)'
    BY <1>4, <1>7, <2>0, <2>4
  <2>9. Linking(s, q, r, op.ko)'
    BY <1>7, <2>2, <2>5, <2>6, <2>7, <2>8 DEF Linking
  <2>10. Way(s, q, r, l, op)'
    BY <1>2, <1>7, <2>2, <2>3, <2>9 DEF Way
  <2> QED
    BY <2>10
<1> QED
  BY <1>1, <1>6, <1>7, WayDoes

\* The connectors of a copied edge are set.
LEMMA WaySet ==
  ASSUME WorkspaceInv, NEW s \in Sessions, set_edge_attribute(s), Copying(s)',
         NEW p, NEW r, NEW l, NEW op, Way(s, p, r, l, op),
         Wired(since'[s], since[s]), Within(since'[s], since[s]), CopiesApart(db, mem[s].copies)
  PROVE  Way(s, <<>>, r, l, op)'
<1>1. IsOver(todo) /\ IsOver(snap) /\ IsDatabase(db) /\ Op(s).do = "set_attr"
  BY OpSound DEF WorkspaceInv, Functions, DatabaseInv, set_edge_attribute
<1>2. Rooted(s) /\ IsList(p) /\ IsList(r) /\ IsList(l) /\ op.do = "cloned"
  BY WayFirst DEF Way
<1>3. \A a \in DOMAIN mem[s].copies : mem[s].copies[a] \in Own(s)
  BY DEF Own, Range
<1>4. /\ \A a, b, attr : Faithful(s, a, b, attr) => Faithful(s, a, b, attr)'
      /\ \A ko, a, b : Lasts(s, ko, a, b)' => Lasts(s, ko, a, b)
  BY FaithfulLater, LastsBefore
<1>0. PICK a \in DOMAIN mem[s].copies, b \in DOMAIN mem[s].copies : \E attr :
        Linking(s, p, r, op.ko) /\ l = <<op>> /\ Faithful(s, a, b, attr) /\ p = Sets(s, a, b, attr)
  BY <1>1, WayDoes
<1>5. PICK attr :
        Linking(s, p, r, op.ko) /\ l = <<op>> /\ Faithful(s, a, b, attr) /\ p = Sets(s, a, b, attr)
  BY <1>0
<1>6. Op(s) = SetAttributes(Image(s, a, b), attr) /\ Tail(todo[s]) = r \o l
  <2>1. Partly(todo[s], p, r, l)
    BY WayFirst
  <2> QED
    BY <1>5, <2>1 DEF Partly, Op, Sets
<1> DEFINE e == Image(s, a, b)
<1>7. Op(s).edge = e /\ Op(s).attr = attr
  BY <1>6 DEF SetAttributes
<1>8. ~Raise(s)
  BY <1>1, ListOf DEF Raise, IsOver, Copying
<1>9. /\ Commits(s, IF e \in DOMAIN db.edge THEN [db EXCEPT !.edge[e] = attr] ELSE db)
      /\ Then(s, <<>>) /\ UNCHANGED mem
  BY <1>7, <1>8 DEF set_edge_attribute
<1> HIDE DEF e
<1>10. /\ db'.wob = db.wob /\ DOMAIN db'.edge = DOMAIN db.edge
       /\ \A z \in DOMAIN db.edge : db'.edge[z] = IF z = e THEN attr ELSE db.edge[z]
       /\ snap'[s] = None
  <2>1. snap'[s] = None
    BY <1>1, <1>9 DEF Commits, IsOver
  <2>2. CASE e \in DOMAIN db.edge
    <3>1. db' = [db EXCEPT !.edge[e] = attr]
      BY <1>9, <2>2 DEF Commits
    <3>2. db'.edge = [db.edge EXCEPT ![e] = attr] /\ db'.wob = db.wob
      BY <1>1, <3>1 DEF IsDatabase
    <3> QED
      BY <2>1, <3>2
  <2>3. CASE e \notin DOMAIN db.edge
    BY <1>9, <2>1, <2>3 DEF Commits
  <2> QED
    BY <2>2, <2>3
<1>11. Rooted(s)' /\ Copied(s)' = Copied(s)
  BY <1>2, <1>9, <1>10, RootedStays DEF Rooted
<1>12. todo'[s] = <<>> \o (r \o l) /\ IsList(<<>>)
  BY <1>1, <1>6, <1>9, ListOf DEF Then, IsOver
<1>13. \A c, d : Image(s, c, d)' = Image(s, c, d)
  BY <1>9 DEF Image
<1>14. \A m \in Copied(s)' : Placed(s, m)'
  BY <1>5, <1>9, <1>10, <1>11 DEF Placed, Linking
<1>15. ASSUME NEW c \in Copied(s), NEW d \in Copied(s), Image(s, c, d) \in DOMAIN db.edge
       PROVE  Faithful(s, c, d, db.edge[Image(s, c, d)])'
  <2>1. CASE Image(s, c, d) = e
    <3>1. c \in DOMAIN mem[s].copies /\ d \in DOMAIN mem[s].copies
      BY DEF Copied
    <3>2. mem[s].copies[c] = mem[s].copies[a] /\ mem[s].copies[d] = mem[s].copies[b]
      BY <2>1 DEF Image, e
    <3>3. c = a /\ d = b
      BY <3>1, <3>2 DEF CopiesApart
    <3>4. db'.edge[Image(s, c, d)'] = attr
      BY <1>10, <1>13, <1>15, <2>1
    <3>5. Faithful(s, c, d, attr)'
      BY <1>4, <1>5, <3>3
    <3> QED
      BY <3>4, <3>5 DEF Faithful
  <2>2. CASE Image(s, c, d) # e
    <3>1. Faithful(s, c, d, db.edge[Image(s, c, d)])
      BY <1>5, <1>15, <2>2, ListsApart DEF Linking, e
    <3>2. PICK z : z = db.edge[Image(s, c, d)]
      OBVIOUS
    <3>3. Faithful(s, c, d, z)' /\ db'.edge[Image(s, c, d)'] = z
      BY <1>4, <1>10, <1>13, <1>15, <2>2, <3>1, <3>2
    <3> QED
      BY <3>3 DEF Faithful
  <2> QED
    BY <2>1, <2>2
<1>16. \A c, d \in Copied(s)' : Lasts(s, op.ko, c, d)' =>
         Image(s, c, d)' \in DOMAIN db'.edge \/ \E o \in Range(r) : o.edge = <<c, d>>
  BY <1>4, <1>5, <1>10, <1>11, <1>13, ListsApart DEF Linking
<1>17. Linking(s, <<>>, r, op.ko)'
  BY <1>5, <1>10, <1>11, <1>13, <1>14, <1>15, <1>16 DEF Linking
<1> QED
  BY <1>2, <1>5, <1>11, <1>12, <1>17 DEF Way

\* An edge is looked up to be copied.
LEMMA WayEdge ==
  ASSUME WorkspaceInv, NEW s \in Sessions, CopyEdge(s), Copying(s)', WireInv(s),
         NEW p, NEW r, NEW l, NEW op, Way(s, p, r, l, op),
         Wired(since'[s], since[s]), Within(since'[s], since[s])
  PROVE  \E q, t : Way(s, q, t, l, op)'
<1>1. IsOver(todo) /\ IsOver(snap) /\ Op(s).do = "copy_edge"
  BY OpSound DEF WorkspaceInv, Functions, CopyEdge
<1>2. Rooted(s) /\ IsList(p) /\ IsList(r) /\ IsList(l) /\ op.do = "cloned"
  BY WayFirst DEF Way
<1>3. Linking(s, p, r, op.ko) /\ l = <<op>> /\ p = <<>> /\ r # <<>>
  BY <1>1, WayDoes
<1>4. Op(s) = Head(r) /\ Tail(todo[s]) = Tail(r) \o l
  <2>1. Partly(todo[s], p, r, l)
    BY WayFirst
  <2> QED
    BY <1>3, <2>1 DEF Partly, Op
<1>5. /\ IsList(Tail(r)) /\ Head(r) \in Range(r) /\ Range(Tail(r)) \subseteq Range(r)
      /\ \A o \in Range(r) : o = Head(r) \/ o \in Range(Tail(r))
  BY <1>2, <1>3, ListRest, HeadOrTail
<1>6. /\ \A a, b, attr : Faithful(s, a, b, attr) => Faithful(s, a, b, attr)'
      /\ \A ko, a, b : Lasts(s, ko, a, b)' => Lasts(s, ko, a, b)
  BY FaithfulLater, LastsBefore
<1>7. ~Raise(s)
  BY <1>1, ListOf DEF Raise, IsOver, Copying
<1>8. PICK a, b : Op(s).edge = <<a, b>>
  BY <1>3, <1>4, <1>5 DEF Linking
<1>9. PICK attr : attr = get_edge_attribute(View(s), User[s], <<a, b>>)
  OBVIOUS
<1>10. /\ a \in DOMAIN mem[s].copies /\ b \in DOMAIN mem[s].copies
       /\ Then(s, Adds(s, a, b, attr)) /\ Sees(s) /\ UNCHANGED mem
  <2>1. <<a, b>>[1] = a /\ <<a, b>>[2] = b
    OBVIOUS
  <2> QED
    BY <1>7, <1>8, <1>9, <2>1 DEF CopyEdge, Adds, Image
<1>11. Faithful(s, a, b, attr)
  <2>1. Followed(s)
    BY <1>2, WayFirst DEF Followed
  <2>2. Wired(since[s], Finds(s, View(s)))
    BY <2>1 DEF WireInv, View
  <2> QED
    BY <1>9, <2>2, ReadFaithfully
<1>12. PICK q : q = Adds(s, a, b, attr)
  OBVIOUS
<1>13. IsList(q) /\ todo'[s] = q \o (Tail(r) \o l)
  BY <1>1, <1>4, <1>10, <1>12, ListOf DEF Then, IsOver, Adds
<1>14. Rooted(s)' /\ Copied(s)' = Copied(s)
  <2>1. snap'[s] = View(s) /\ UNCHANGED db
    BY <1>1, <1>10 DEF Sees, IsOver
  <2> QED
    BY <1>2, <1>10, <2>1, RootedStays DEF Rooted
<1>15. /\ UNCHANGED db /\ \A c, d : Image(s, c, d)' = Image(s, c, d)
       /\ \A c, d, x : Adds(s, c, d, x)' = Adds(s, c, d, x)
  BY <1>10 DEF Sees, Image, Adds
<1>16. ASSUME NEW c \in Copied(s), NEW d \in Copied(s), Image(s, c, d) \in DOMAIN db.edge
       PROVE  Faithful(s, c, d, db.edge[Image(s, c, d)])'
  <2>1. Faithful(s, c, d, db.edge[Image(s, c, d)])
    BY <1>3, <1>16, ListsApart DEF Linking
  <2>2. PICK z : z = db.edge[Image(s, c, d)]
    OBVIOUS
  <2>3. Faithful(s, c, d, z)' /\ db'.edge[Image(s, c, d)'] = z
    BY <1>6, <1>15, <2>1, <2>2
  <2> QED
    BY <2>3 DEF Faithful
<1>17. \A c, d \in Copied(s)' : Lasts(s, op.ko, c, d)' =>
         \/ Image(s, c, d)' \in DOMAIN db'.edge
         \/ \E x : q = Adds(s, c, d, x)'
         \/ \E o \in Range(Tail(r)) : o.edge = <<c, d>>
  <2> SUFFICES ASSUME NEW c \in Copied(s), NEW d \in Copied(s), Lasts(s, op.ko, c, d)',
                      Image(s, c, d) \notin DOMAIN db.edge
               PROVE  (\E x : q = Adds(s, c, d, x)) \/ \E o \in Range(Tail(r)) : o.edge = <<c, d>>
    BY <1>14, <1>15
  <2>1. PICK o \in Range(r) : o.edge = <<c, d>>
    BY <1>3, <1>6, ListsApart DEF Linking
  <2>2. CASE o = Head(r)
    <3>1. c = a /\ d = b
      BY <1>4, <1>8, <2>1, <2>2
    <3> QED
      BY <1>12, <3>1
  <2> QED
    BY <1>5, <2>1, <2>2
<1>18. \A m \in Copied(s)' : Placed(s, m)'
  BY <1>3, <1>10, <1>14, <1>15 DEF Placed, Linking
<1>19. a \in DOMAIN mem'[s].copies /\ b \in DOMAIN mem'[s].copies
       /\ Faithful(s, a, b, attr)' /\ q = Adds(s, a, b, attr)'
  BY <1>6, <1>10, <1>11, <1>12, <1>15
<1>20. Linking(s, q, Tail(r), op.ko)'
  <2>1. \A o \in Range(Tail(r)) : o.do = "copy_edge" /\ o.edge = <<o.edge[1], o.edge[2]>>
    BY <1>3, <1>5 DEF Linking
  <2>2. \A c, d \in Copied(s)' : Image(s, c, d)' \in DOMAIN db'.edge =>
          Faithful(s, c, d, db.edge[Image(s, c, d)])'
    BY <1>14, <1>15, <1>16
  <2> QED
    BY <1>17, <1>18, <1>19, <2>1, <2>2 DEF Linking
<1>21. Way(s, q, Tail(r), l, op)'
  BY <1>2, <1>3, <1>5, <1>13, <1>14, <1>20 DEF Way
<1> QED
  BY <1>21

\* The search is over: the pairs it collected are the edges to copy.
LEMMA WayEdges ==
  ASSUME WorkspaceInv, NEW s \in Sessions, CopyEdges(s),
         NEW p, NEW r, NEW l, NEW op, Way(s, p, r, l, op),
         Wired(since'[s], since[s]), Within(since'[s], since[s])
  PROVE  \E q : Way(s, <<>>, q, <<op>>, op)'
<1>1. /\ IsOver(todo) /\ IsOver(snap) /\ IsOver(mem) /\ Op(s).do = "copy_edges"
      /\ IsList(mem[s].pairs)
  BY OpSound DEF WorkspaceInv, Functions, MemoryInv, CopyEdges
<1>2. Rooted(s) /\ IsList(p) /\ IsList(r) /\ IsList(l) /\ op.do = "cloned"
  BY WayFirst DEF Way
<1>3. PICK e : Searching(s, p, r, op.ko) /\ p = <<>> /\ r = <<>> /\ l = <<e, op>>
  BY <1>1, WayDoes
<1>4. Tail(todo[s]) = <<op>>
  <2>1. Partly(todo[s], p, r, l)
    BY WayFirst
  <2>2. todo[s] = l
    BY <1>3, <2>1 DEF Partly
  <2>3. \A x, y : Tail(<<x, y>>) = <<y>>
    OBVIOUS
  <2> QED
    BY <1>3, <2>2, <2>3
<1> DEFINE es == mem[s].pairs
           ops == [i \in DOMAIN es |-> [do |-> "copy_edge", edge |-> es[i]]]
<1>5. Then(s, ops) /\ Rests /\ UNCHANGED mem
  BY DEF CopyEdges
<1>6. DOMAIN ops = DOMAIN es /\ \A i \in DOMAIN es : ops[i].do = "copy_edge" /\ ops[i].edge = es[i]
  OBVIOUS
<1>7. IsList(ops)
  <2>1. Len(es) \in Nat /\ DOMAIN es = 1 .. Len(es)
    BY <1>1 DEF IsList
  <2>2. ops = [i \in 1 .. Len(es) |-> [do |-> "copy_edge", edge |-> es[i]]]
    BY <2>1
  <2> DEFINE V == {[do |-> "copy_edge", edge |-> es[i]] : i \in 1 .. Len(es)}
  <2>3. ops \in Seq(V)
    BY <2>1, <2>2
  <2> HIDE DEF ops, V
  <2> QED
    BY <2>3, ListTyped
<1>8. /\ \A o \in Range(ops) : o.do = "copy_edge" /\ o.edge \in Range(es)
      /\ \A x \in Range(es) : \E o \in Range(ops) : o.edge = x
  <2> HIDE DEF ops
  <2> QED
    BY <1>6 DEF Range
<1>9. PICK q : q = ops
  OBVIOUS
<1> HIDE DEF ops, es
<1>10. todo'[s] = <<>> \o (q \o <<op>>) /\ IsList(<<>>) /\ IsList(q)
  <2>1. IsList(<<op>>) /\ IsList(<<>>) /\ IsList(q)
    BY <1>7, <1>9, ListOf
  <2>2. todo'[s] = q \o <<op>>
    BY <1>1, <1>4, <1>5, <1>9 DEF Then, IsOver
  <2> QED
    BY <2>1, <2>2, NothingAfter
<1>11. Rooted(s)' /\ Copied(s)' = Copied(s) /\ UNCHANGED db
  <2>1. snap'[s] \in {None, db, View(s)} /\ UNCHANGED db
    BY <1>1, <1>5 DEF Rests, View
  <2> QED
    BY <1>2, <1>5, <2>1, RootedStays DEF Rooted
<1>12. \A ko, a, b : Lasts(s, ko, a, b)' => Lasts(s, ko, a, b)
  BY LastsBefore
<1>13. \A c, d : Image(s, c, d)' = Image(s, c, d)
  BY <1>5 DEF Image
<1>14. \A m \in Copied(s)' : Placed(s, m)'
  <2>1. \A x : p # <<x>>
    BY <1>3
  <2> QED
    BY <1>3, <1>5, <1>11, <2>1 DEF Searching, Placed
<1>15. \A c, d \in Copied(s)' : Image(s, c, d)' \notin DOMAIN db'.edge
  BY <1>3, <1>11, <1>13 DEF Searching
<1>16. \A c, d : Lasts(s, op.ko, c, d)' => \E o \in Range(q) : o.edge = <<c, d>>
  <2> SUFFICES ASSUME NEW c, NEW d, Lasts(s, op.ko, c, d)' PROVE \E o \in Range(q) : o.edge = <<c, d>>
    OBVIOUS
  <2>1. Range(r) = {}
    BY <1>3, ListOf
  <2>2. <<c, d>> \in Range(es)
    BY <1>3, <1>12, <2>1 DEF Searching, Paired, es
  <2> QED
    BY <1>8, <1>9, <2>2
<1>17. \A o \in Range(q) : o.do = "copy_edge" /\ o.edge = <<o.edge[1], o.edge[2]>>
  BY <1>2, <1>8, <1>9 DEF Rooted, es
<1>18. Linking(s, <<>>, q, op.ko)'
  BY <1>14, <1>15, <1>16, <1>17 DEF Linking
<1>19. Way(s, <<>>, q, <<op>>, op)'
  BY <1>2, <1>10, <1>11, <1>18 DEF Way
<1> QED
  BY <1>19

\* What a search puts off leaves no edge out.
Covers(o, ko, b) ==
  \/ o.do = "copy_in" /\ o.wob = b
  \/ o.do = "copy_node" /\ o.wob = b /\ o.child
  \/ o.do = "copy_nodes" /\ o.ko = ko

LEMMA SearchRest ==
  ASSUME NEW s \in Sessions, NEW p, NEW r, NEW l, NEW op, Way(s, p, r, l, op), Op(s).do \in SearchOps,
         NEW ops, IsList(ops), \A o \in Range(ops) : o.do \in SearchOps,
         Within(since'[s], since[s]),
         Range(mem[s].pairs) \subseteq Range(mem'[s].pairs),
         \A a, b : Lasts(s, op.ko, a, b) /\ Covers(Op(s), op.ko, b) => Paired(s, ops, op.ko, a, b)'
  PROVE  /\ IsList(ops \o Tail(r)) /\ \A o \in Range(ops \o Tail(r)) : o.do \in SearchOps
         /\ \A a, b : Lasts(s, op.ko, a, b)' => Paired(s, ops \o Tail(r), op.ko, a, b)'
<1>0. IsList(r)
  BY DEF Way
<1>1. Searching(s, p, r, op.ko) /\ p = <<>> /\ r # <<>>
  BY WayDoes
<1>2. Op(s) = Head(r)
  <2>1. Partly(todo[s], p, r, l)
    BY WayFirst
  <2> QED
    BY <1>1, <2>1 DEF Partly, Op
<1>3. /\ IsList(Tail(r)) /\ Range(Tail(r)) \subseteq Range(r)
      /\ \A o \in Range(r) : o = Head(r) \/ o \in Range(Tail(r))
  BY <1>0, <1>1, ListRest, HeadOrTail
<1>4. PICK t : t = ops \o Tail(r)
  OBVIOUS
<1>5. /\ IsList(t) /\ Range(t) \subseteq Range(ops) \cup Range(Tail(r))
      /\ Range(ops) \subseteq Range(t) /\ Range(Tail(r)) \subseteq Range(t)
  BY <1>3, <1>4, ListAfter, RangeAfter
<1>6. \A o \in Range(t) : o.do \in SearchOps
  BY <1>1, <1>3, <1>5 DEF Searching
<1>7. ASSUME NEW a, NEW b, Lasts(s, op.ko, a, b)' PROVE Paired(s, t, op.ko, a, b)'
  <2>1. Lasts(s, op.ko, a, b)
    BY <1>7, LastsBefore
  <2>2. Paired(s, r, op.ko, a, b)
    BY <1>1, <2>1 DEF Searching
  <2>3. CASE <<a, b>> \in Range(mem[s].pairs)
    BY <2>3 DEF Paired
  <2>4. CASE \E o \in Range(r) : Covers(o, op.ko, b)
    <3>1. PICK o \in Range(r) : Covers(o, op.ko, b)
      BY <2>4
    <3>2. CASE o \in Range(Tail(r))
      BY <1>5, <3>1, <3>2 DEF Covers, Paired
    <3>3. CASE o = Head(r)
      <4>1. Paired(s, ops, op.ko, a, b)'
        BY <1>2, <2>1, <3>1, <3>3
      <4> QED
        BY <1>5, <4>1 DEF Paired
    <3> QED
      BY <1>3, <3>2, <3>3
  <2> QED
    BY <2>2, <2>3, <2>4 DEF Paired, Covers
<1>8. /\ IsList(t) /\ \A o \in Range(t) : o.do \in SearchOps
      /\ \A a, b : Lasts(s, op.ko, a, b)' => Paired(s, t, op.ko, a, b)'
  BY <1>5, <1>6, <1>7
<1> QED
  BY <1>4, <1>8

LEMMA SearchGoes ==
  ASSUME WorkspaceInv, NEW s \in Sessions, NEW p, NEW r, NEW l, NEW op, Way(s, p, r, l, op),
         Op(s).do \in SearchOps,
         NEW ops, IsList(ops), \A o \in Range(ops) : o.do \in SearchOps, Then(s, ops),
         Within(since'[s], since[s]), UNCHANGED db, snap'[s] \in {None, db, View(s)},
         mem'[s].made = mem[s].made, mem'[s].copies = mem[s].copies,
         \A e \in Range(mem'[s].pairs) : e = <<e[1], e[2]>>,
         Range(mem[s].pairs) \subseteq Range(mem'[s].pairs),
         \A a, b : Lasts(s, op.ko, a, b) /\ Covers(Op(s), op.ko, b) => Paired(s, ops, op.ko, a, b)'
  PROVE  Way(s, <<>>, ops \o Tail(r), l, op)'
<1>1. /\ Searching(s, p, r, op.ko) /\ p = <<>> /\ r # <<>>
      /\ \E e : e.do = "copy_edges" /\ l = <<e, op>>
  BY WayDoes
<1>2. Rooted(s) /\ IsList(r) /\ IsList(l) /\ op.do = "cloned" /\ IsOver(todo)
  <2>1. IsList(l)
    BY WayFirst
  <2> QED
    BY <2>1 DEF Way, WorkspaceInv, Functions
<1>3. Tail(todo[s]) = Tail(r) \o l
  <2>1. Partly(todo[s], p, r, l)
    BY WayFirst
  <2> QED
    BY <1>1, <2>1 DEF Partly
<1>4. PICK t : t = ops \o Tail(r)
  OBVIOUS
<1>5. /\ IsList(t) /\ \A o \in Range(t) : o.do \in SearchOps
      /\ \A a, b : Lasts(s, op.ko, a, b)' => Paired(s, t, op.ko, a, b)'
  BY <1>4, SearchRest
<1>6. todo'[s] = <<>> \o (t \o l) /\ IsList(<<>>)
  <2>1. IsList(Tail(r)) /\ IsList(<<>>)
    BY <1>1, <1>2, ListRest, ListOf
  <2>2. todo'[s] = ops \o (Tail(r) \o l)
    BY <1>2, <1>3 DEF Then, IsOver
  <2>4. ops \o (Tail(r) \o l) = (ops \o Tail(r)) \o l
    <3>1. Regroups(ops, Tail(r), l)
      BY <1>2, <2>1, Regroup
    <3> QED
      BY <3>1 DEF Regroups
  <2>3. todo'[s] = t \o l
    BY <1>4, <2>2, <2>4
  <2> QED
    BY <1>2, <1>5, <2>1, <2>3, NothingAfter
<1>7. Rooted(s)' /\ Copied(s)' = Copied(s)
  BY <1>2, RootedStays
<1>8. \A c, d : Image(s, c, d)' = Image(s, c, d)
  BY DEF Image
<1>9. \A m \in Copied(s)' : Placed(s, m)'
  <2>1. \A x : p # <<x>>
    BY <1>1
  <2> QED
    BY <1>1, <1>7, <2>1 DEF Searching, Placed
<1>10. \A c, d \in Copied(s)' : Image(s, c, d)' \notin DOMAIN db'.edge
  BY <1>1, <1>7, <1>8 DEF Searching
<1>11. Searching(s, <<>>, t, op.ko)'
  BY <1>5, <1>9, <1>10 DEF Searching
<1>12. Way(s, <<>>, t, l, op)'
  BY <1>1, <1>2, <1>5, <1>6, <1>7, <1>11 DEF Way
<1> QED
  BY <1>4, <1>12

\* What a search copies is a list of blocks to copy.
LEMMA NodesListed ==
  ASSUME WorkspaceInv, NEW s \in Sessions, NEW d \in {db, View(s)},
         NEW for, DOMAIN for \subseteq DOMAIN d.wob, NEW child,
         \A m \in DOMAIN for : for[m] = CopyNode(d, m, child)
  PROVE  /\ IsList(Each(for)) /\ \A o \in Range(Each(for)) : o.do \in SearchOps
         /\ \A m \in DOMAIN for : CopyNode(d, m, child) \in Range(Each(for))
<1>1. d.last \in Nat /\ DOMAIN for \subseteq 1 .. d.last
  BY ViewRows
<1>2. \A m \in DOMAIN for : for[m].do = "copy_node"
  BY DEF CopyNode
<1>3. IsList(Each(for)) /\ \A o \in Range(Each(for)) : o.do \in SearchOps
  BY <1>1, <1>2, EachList DEF SearchOps
<1>4. \A m \in DOMAIN for : for[m] \in Range(Each(for))
  BY <1>1, EachAll
<1> QED
  BY <1>2, <1>3, <1>4

\* The project is searched.
LEMMA WayNodes ==
  ASSUME WorkspaceInv, NEW s \in Sessions, CopyNodes(s), Within(since[s], Finds(s, View(s))),
         NEW p, NEW r, NEW l, NEW op, Way(s, p, r, l, op),
         Within(since'[s], since[s])
  PROVE  \E t : Way(s, <<>>, t, l, op)'
<1> DEFINE d == View(s)
           for == [m \in find_children(d, User[s], Op(s).ko) |-> CopyNode(d, m, TRUE)]
<1>1. Op(s).do = "copy_nodes" /\ IsOver(snap) /\ Rooted(s)
  BY OpSound DEF CopyNodes, WorkspaceInv, Functions, Way
<1>2. Then(s, Each(for)) /\ Sees(s) /\ UNCHANGED mem
  BY DEF CopyNodes
<1>3. DOMAIN for = find_children(d, User[s], Op(s).ko) /\ DOMAIN for \subseteq DOMAIN d.wob
      /\ \A m \in DOMAIN for : for[m] = CopyNode(d, m, TRUE)
  BY FoundRows
<1> HIDE DEF for
<1>4. /\ IsList(Each(for)) /\ \A o \in Range(Each(for)) : o.do \in SearchOps
      /\ \A m \in DOMAIN for : CopyNode(d, m, TRUE) \in Range(Each(for))
  <2>1. d \in {db, View(s)}
    OBVIOUS
  <2> HIDE DEF d
  <2> QED
    BY <1>3, <2>1, NodesListed
<1>5. PICK ops : ops = Each(for)
  OBVIOUS
<1>6. ASSUME NEW a, NEW b, Lasts(s, op.ko, a, b), Covers(Op(s), op.ko, b)
      PROVE  Paired(s, ops, op.ko, a, b)'
  <2>1. Op(s).ko = op.ko
    BY <1>1, <1>6 DEF Covers
  <2>2. b \in DOMAIN for
    BY <1>3, <1>6, <2>1, LastingFound DEF Lasts
  <2>3. PICK o : o = CopyNode(d, b, TRUE)
    OBVIOUS
  <2>4. o \in Range(ops)
    BY <1>4, <1>5, <2>2, <2>3
  <2>5. o.do = "copy_node" /\ o.wob = b /\ o.child
    BY <2>3 DEF CopyNode
  <2> QED
    BY <2>4, <2>5 DEF Paired
<1>7. Op(s).do \in SearchOps
  BY <1>1 DEF SearchOps
<1>8. UNCHANGED db /\ snap'[s] \in {None, db, View(s)}
  BY <1>1, <1>2 DEF Sees, IsOver
<1>9. Way(s, <<>>, ops \o Tail(r), l, op)'
  BY <1>1, <1>2, <1>4, <1>5, <1>6, <1>7, <1>8, SearchGoes DEF Rooted
<1> QED
  BY <1>9

\* The neighbours of a block are searched.
LEMMA WayNeighbours ==
  ASSUME WorkspaceInv, NEW s \in Sessions, NEW d \in {db, View(s)},
         NEW pair, DOMAIN pair \subseteq DOMAIN d.wob,
         \A m \in DOMAIN pair : pair[m] = <<pair[m][1], pair[m][2]>>,
         Neighbours(s, d, pair), UNCHANGED db, snap'[s] \in {None, db, View(s)},
         NEW p, NEW r, NEW l, NEW op, Way(s, p, r, l, op),
         Within(since'[s], since[s]),
         Op(s).do \in {"copy_in", "copy_out"},
         \A a : Op(s).do = "copy_in" /\ Lasts(s, op.ko, a, Op(s).wob) =>
                  a \in DOMAIN pair /\ pair[a] = <<a, Op(s).wob>> /\ d.wob[a].kind = "CODE"
  PROVE  \E t : Way(s, <<>>, t, l, op)'
<1> DEFINE new == {m \in DOMAIN pair : d.wob[m].kind # "DOCKER_JOB" /\ ~Contains(mem[s].pairs, pair[m])}
           for == [m \in DOMAIN pair |-> CopyNode(d, m, FALSE)]
           more == [m \in new |-> pair[m]]
           all == mem[s].pairs \o Each(more)
<1>1. Then(s, Each(for)) /\ mem' = [mem EXCEPT ![s].pairs = all]
  BY DEF Neighbours
<1>2. DOMAIN for \subseteq DOMAIN d.wob /\ \A m \in DOMAIN for : for[m] = CopyNode(d, m, FALSE)
  OBVIOUS
<1>3. /\ DOMAIN more = new /\ DOMAIN more \subseteq 1 .. d.last /\ d.last \in Nat
      /\ \A m \in new : more[m] = pair[m]
  BY ViewRows
<1> HIDE DEF for, more
<1>4. IsList(Each(for)) /\ \A o \in Range(Each(for)) : o.do \in SearchOps
  BY <1>2, NodesListed
<1>5. /\ IsList(mem[s].pairs) /\ IsList(Each(more))
      /\ Range(Each(more)) \subseteq {more[m] : m \in DOMAIN more}
      /\ \A m \in DOMAIN more : more[m] \in Range(Each(more))
  <2>1. IsList(mem[s].pairs)
    BY DEF WorkspaceInv, MemoryInv
  <2> HIDE DEF new
  <2>2. IsList(Each(more)) /\ Range(Each(more)) \subseteq {more[m] : m \in DOMAIN more}
    BY <1>3, EachList
  <2>3. \A m \in DOMAIN more : more[m] \in Range(Each(more))
    BY <1>3, EachAll
  <2> QED
    BY <2>1, <2>2, <2>3
<1>6. /\ Range(all) \subseteq Range(mem[s].pairs) \cup Range(Each(more))
      /\ Range(mem[s].pairs) \subseteq Range(all) /\ Range(Each(more)) \subseteq Range(all)
  BY <1>5, ListAfter, RangeAfter
<1> HIDE DEF all
<1>7. mem'[s].made = mem[s].made /\ mem'[s].copies = mem[s].copies /\ mem'[s].pairs = all
  <2>1. MemoryInv(s) /\ IsOver(mem)
    BY DEF WorkspaceInv, Functions
  <2> QED
    BY <1>1, <2>1 DEF IsOver, MemoryInv
<1>8. \A e \in Range(mem'[s].pairs) : e = <<e[1], e[2]>>
  <2>1. \A e \in Range(mem[s].pairs) : e = <<e[1], e[2]>>
    BY DEF Way, Rooted
  <2>2. \A e \in Range(Each(more)) : e = <<e[1], e[2]>>
    BY <1>3, <1>5
  <2> QED
    BY <1>6, <1>7, <2>1, <2>2
<1>9. PICK ops : ops = Each(for)
  OBVIOUS
<1>10. ASSUME NEW a, NEW b, Lasts(s, op.ko, a, b), Covers(Op(s), op.ko, b)
       PROVE  Paired(s, ops, op.ko, a, b)'
  <2>1. Op(s).do = "copy_in" /\ Op(s).wob = b
    BY <1>10 DEF Covers
  <2>2. a \in DOMAIN pair /\ pair[a] = <<a, b>> /\ d.wob[a].kind = "CODE"
    BY <1>10, <2>1
  <2>3. CASE Contains(mem[s].pairs, pair[a])
    <3>1. pair[a] \in Range(mem[s].pairs)
      BY <1>5, <2>3 DEF Contains, IsList, Range
    <3> QED
      BY <1>6, <1>7, <2>2, <3>1 DEF Paired
  <2>4. CASE ~Contains(mem[s].pairs, pair[a])
    <3>1. pair[a] \in Range(Each(more))
      BY <1>3, <1>5, <2>2, <2>4
    <3> QED
      BY <1>6, <1>7, <2>2, <3>1 DEF Paired
  <2> QED
    BY <2>3, <2>4
<1>11. Op(s).do \in SearchOps
  BY DEF SearchOps
<1> HIDE DEF new
<1>12. Way(s, <<>>, ops \o Tail(r), l, op)'
  BY <1>1, <1>4, <1>6, <1>7, <1>8, <1>9, <1>10, <1>11, SearchGoes
<1> QED
  BY <1>12

LEMMA WayBeside ==
  ASSUME WorkspaceInv, NEW s \in Sessions, CopyInbound(s) \/ CopyOutbound(s),
         Within(since[s], Finds(s, db)),
         NEW p, NEW r, NEW l, NEW op, Way(s, p, r, l, op),
         Within(since'[s], since[s])
  PROVE  \E t : Way(s, <<>>, t, l, op)'
<1>0. IsOver(snap)
  BY DEF WorkspaceInv, Functions
<1>1. CASE CopyInbound(s)
  <2> DEFINE pair == [m \in find_wob_by_inbound_edges(db, User[s], Op(s).wob) |-> <<m, Op(s).wob>>]
  <2>1. /\ Neighbours(s, db, pair) /\ Op(s).do = "copy_in"
        /\ snap'[s] = db /\ UNCHANGED db
    BY <1>0, <1>1, OpSound DEF CopyInbound, IsOver
  <2>2. /\ DOMAIN pair = find_wob_by_inbound_edges(db, User[s], Op(s).wob)
        /\ DOMAIN pair \subseteq DOMAIN db.wob
        /\ \A m \in DOMAIN pair : pair[m] = <<m, Op(s).wob>>
    BY FoundRows
  <2> HIDE DEF pair
  <2>3. \A m \in DOMAIN pair : pair[m] = <<pair[m][1], pair[m][2]>>
    BY <2>2
  <2>4. ASSUME NEW a, Lasts(s, op.ko, a, Op(s).wob)
        PROVE  a \in DOMAIN pair /\ pair[a] = <<a, Op(s).wob>> /\ db.wob[a].kind = "CODE"
    <3>1. a \in Finds(s, db).blocks /\ <<a, Op(s).wob>> \in Finds(s, db).edge
      BY <2>4 DEF Lasts, Lasting, Within
    <3>2. /\ a \in DOMAIN db.wob /\ Found(db, User[s], a) /\ db.wob[a].kind = "CODE"
          /\ v_edges(db, User[s], <<a, Op(s).wob>>)
      BY <3>1 DEF Finds
    <3>3. a \in find_wob_by_inbound_edges(db, User[s], Op(s).wob)
      BY <3>2 DEF find_wob_by_inbound_edges, IsProject
    <3> QED
      BY <2>2, <3>2, <3>3
  <2> QED
    BY <2>1, <2>2, <2>3, <2>4, WayNeighbours
<1>2. CASE CopyOutbound(s)
  <2> DEFINE d == View(s)
             pair == [m \in find_children(d, User[s], Op(s).wob) |-> <<Op(s).wob, m>>]
  <2>1. /\ Neighbours(s, d, pair) /\ Op(s).do = "copy_out"
        /\ snap'[s] = d /\ UNCHANGED db
    BY <1>0, <1>2, OpSound DEF CopyOutbound, Sees, IsOver
  <2>2. /\ DOMAIN pair \subseteq DOMAIN d.wob
        /\ \A m \in DOMAIN pair : pair[m] = <<Op(s).wob, m>>
    BY FoundRows
  <2> HIDE DEF pair
  <2>3. \A m \in DOMAIN pair : pair[m] = <<pair[m][1], pair[m][2]>>
    BY <2>2
  <2> HIDE DEF d
  <2> QED
    BY <2>1, <2>2, <2>3, WayNeighbours DEF d
<1> QED
  BY <1>1, <1>2

\* A new row has no edges.
LEMMA InsertedRow ==
  ASSUME WorkspaceInv, NEW s \in Sessions, NEW row, CommitsAndLoads(s, Inserted(row))
  PROVE  /\ db'.edge = db.edge /\ db'.wob = Put(db.wob, db.last + 1, row) /\ snap'[s] = db'
         /\ DOMAIN db'.wob = DOMAIN db.wob \cup {db.last + 1} /\ db'.wob[db.last + 1] = row
         /\ \A x \in DOMAIN db.wob : x # db.last + 1 /\ db'.wob[x] = db.wob[x]
<1>1. /\ IsOver(snap) /\ IsDatabase(db) /\ db.last \in Nat /\ DOMAIN db.wob \subseteq 1 .. db.last
  BY ViewRows DEF WorkspaceInv, Functions, DatabaseInv
<1> DEFINE n == db.last + 1
           w == Put(db.wob, n, row)
<1>2. db' = [db EXCEPT !.wob = w, !.last = n] /\ snap'[s] = db'
  BY <1>1 DEF CommitsAndLoads, Inserted, IsOver
<1>3. DOMAIN w = DOMAIN db.wob \cup {n} /\ w[n] = row /\ \A x \in DOMAIN db.wob : x # n /\ w[x] = db.wob[x]
  BY <1>1 DEF Put
<1> HIDE DEF w, n
<1>4. db'.edge = db.edge /\ db'.wob = w
  BY <1>1, <1>2 DEF IsDatabase
<1> QED
  BY <1>2, <1>3, <1>4 DEF w, n

\* A block is copied, unless it has been.
LEMMA WayNode ==
  ASSUME WorkspaceInv, NEW s \in Sessions, clone_from_org(s), EndsGiven(db), CopiesApart(db, mem[s].copies),
         NEW p, NEW r, NEW l, NEW op, Way(s, p, r, l, op),
         Within(since'[s], since[s])
  PROVE  \E q, t : Way(s, q, t, l, op)'
<1> DEFINE m == Op(s).wob
           n == db.last + 1
           in == [do |-> "copy_in", wob |-> m]
           out == [do |-> "copy_out", wob |-> m]
           next == IF Op(s).child THEN <<in, out>> ELSE <<>>
           done == m \in DOMAIN mem[s].copies \/ Op(s).row.kind = "DOCKER_JOB"
           row == Clone(s, Op(s).row, m, FALSE)
<1>1. /\ IsOver(todo) /\ IsOver(mem) /\ IsOver(snap) /\ Op(s).do = "copy_node" /\ db.last \in Nat
      /\ MemoryInv(s)
  BY OpSound, ViewRows DEF clone_from_org, WorkspaceInv, Functions
<1>2. /\ done => Then(s, next) /\ Rests /\ UNCHANGED mem
      /\ ~done => /\ CommitsAndLoads(s, Inserted(row))
                  /\ mem' = [mem EXCEPT ![s].copies = Put(@, m, n)]
                  /\ Then(s, <<AddEdge(mem[s].made, n)>> \o next)
  BY DEF clone_from_org
<1>3. Rooted(s) /\ IsList(r) /\ op.do = "cloned"
  BY DEF Way
<1>4. /\ Searching(s, p, r, op.ko) /\ p = <<>> /\ r # <<>> /\ \E e : e.do = "copy_edges" /\ l = <<e, op>>
  <2>1. Op(s).do \in SearchOps
    BY <1>1 DEF SearchOps
  <2> QED
    BY <2>1, WayDoes
<1>5. /\ IsList(next) /\ \A o \in Range(next) : o.do \in SearchOps
      /\ Op(s).child => \E o \in Range(next) : o.do = "copy_in" /\ o.wob = m
  <2>1. in.do \in SearchOps /\ out.do \in SearchOps /\ in.do = "copy_in" /\ in.wob = m
    BY DEF SearchOps
  <2> HIDE DEF in, out
  <2> QED
    BY <2>1, ListOf
<1>6. PICK ops : ops = next
  OBVIOUS
<1>7. PICK k : k = m
  OBVIOUS
<1>8. ASSUME NEW a, NEW b, Lasts(s, op.ko, a, b), Covers(Op(s), op.ko, b)
      PROVE  Paired(s, ops, op.ko, a, b)'
  <2>1. Op(s).child /\ k = b
    BY <1>1, <1>7, <1>8 DEF Covers
  <2> HIDE DEF m, next
  <2> QED
    BY <1>5, <1>6, <1>7, <2>1 DEF Paired
<1> HIDE DEF next
<1>9. CASE done
  <2>1. UNCHANGED db /\ UNCHANGED mem /\ snap'[s] \in {None, db, View(s)} /\ Then(s, ops)
    BY <1>1, <1>2, <1>6, <1>9 DEF Rests, View
  <2>2. Way(s, <<>>, ops \o Tail(r), l, op)'
    BY <1>1, <1>3, <1>5, <1>6, <1>8, <2>1, SearchGoes DEF Rooted, SearchOps
  <2> QED
    BY <2>2
<1>10. CASE ~done
  <2>0. k \notin DOMAIN mem[s].copies
    BY <1>7, <1>10
  <2> HIDE DEF done
  <2>1. /\ db'.edge = db.edge /\ snap'[s] = db' /\ DOMAIN db'.wob = DOMAIN db.wob \cup {n}
        /\ db'.wob[n] = row /\ \A x \in DOMAIN db.wob : x # n /\ db'.wob[x] = db.wob[x]
    <3> HIDE DEF row
    <3> QED
      BY <1>2, <1>10, InsertedRow
  <2>2. row.owner = User[s]
    BY DEF Clone, New
  <2>3. PICK f : f = Put(mem[s].copies, k, n)
    OBVIOUS
  <2>4. mem'[s].made = mem[s].made /\ mem'[s].copies = f /\ mem'[s].pairs = mem[s].pairs
    BY <1>1, <1>2, <1>7, <1>10, <2>3 DEF IsOver, MemoryInv
  <2>5. /\ DOMAIN f = DOMAIN mem[s].copies \cup {k} /\ f[k] = n
        /\ \A x \in DOMAIN mem[s].copies : x # k /\ f[x] = mem[s].copies[x]
    BY <2>0, <2>3 DEF Put
  <2>6. /\ mem[s].made \in DOMAIN mem[s].copies /\ mem[s].copies[mem[s].made] = mem[s].made
        /\ Inside(s, db) /\ Mine(s, db)
    BY <1>3 DEF Rooted
  <2>7. Own(s)' = Own(s) \cup {n}
    BY <2>4, <2>5 DEF Own, Range
  <2>8. Copied(s)' = Copied(s) \cup {k} /\ k # mem[s].made
    BY <2>4, <2>5, <2>6 DEF Copied
  <2>9. n \notin 1 .. db.last
    BY <1>1
  <2> HIDE DEF n, row, m
  <2>10. Rooted(s)'
    <3>1. Mine(s, db)'
      BY <2>1, <2>2, <2>6, <2>7 DEF Mine
    <3>2. Inside(s, db)'
      BY <2>1, <2>6, <2>7, <2>9 DEF Inside, EndsGiven
    <3>3. (snap'[s] # None => Mine(s, snap[s])')
      BY <2>1, <3>1 DEF Mine
    <3> QED
      BY <1>3, <2>4, <2>5, <2>6, <3>1, <3>2, <3>3 DEF Rooted
  <2>11. PICK t, q : t = ops \o Tail(r) /\ q = <<AddEdge(mem[s].made, n)>>
    OBVIOUS
  <2>12. /\ IsList(t) /\ \A o \in Range(t) : o.do \in SearchOps
         /\ \A a, b : Lasts(s, op.ko, a, b)' => Paired(s, t, op.ko, a, b)'
    BY <1>1, <1>5, <1>6, <1>8, <2>4, <2>11, SearchRest DEF SearchOps
  <2>13. todo'[s] = q \o (t \o l) /\ IsList(q)
    <3>1. IsList(q) /\ IsList(ops) /\ IsList(Tail(r)) /\ IsList(l)
      BY <1>3, <1>4, <1>5, <1>6, <2>11, ListRest, ListOf
    <3>2. Tail(todo[s]) = Tail(r) \o l
      <4>1. Partly(todo[s], p, r, l)
        BY WayFirst
      <4> QED
        BY <1>4, <4>1 DEF Partly
    <3>3. todo'[s] = (q \o ops) \o Tail(todo[s])
      BY <1>1, <1>2, <1>6, <1>10, <2>11 DEF Then, IsOver, n
    <3>4. IsList(Tail(r) \o l)
      BY <3>1, ListAfter
    <3>5. Regroups(ops, Tail(r), l) /\ Regroups(q, ops, Tail(r) \o l)
      BY <3>1, <3>4, Regroup
    <3> QED
      BY <2>11, <3>1, <3>2, <3>3, <3>5 DEF Regroups
  <2>14. \A x : p # <<x>>
    BY <1>4
  <2>15. \A x \in Copied(s)' \ {k} : Placed(s, x)'
    BY <1>4, <2>1, <2>4, <2>5, <2>8, <2>14 DEF Searching, Placed, Copied
  <2>16. k \in Copied(s)' /\ q = <<AddEdge(mem'[s].made, mem'[s].copies[k])>>
    BY <2>4, <2>5, <2>8, <2>11
  <2>17. \A a, b \in Copied(s)' : Image(s, a, b)' \notin DOMAIN db'.edge
    <3> SUFFICES ASSUME NEW a \in Copied(s)', NEW b \in Copied(s)', <<f[a], f[b]>> \in DOMAIN db.edge
                 PROVE  FALSE
      BY <2>1, <2>4 DEF Image
    <3>1. f[a] \in 1 .. db.last /\ f[b] \in 1 .. db.last
      BY DEF EndsGiven
    <3>2. a # k /\ b # k
      BY <2>5, <2>9, <3>1
    <3>3. a \in Copied(s) /\ b \in Copied(s) /\ Image(s, a, b) = <<f[a], f[b]>>
      BY <2>5, <2>8, <3>2 DEF Copied, Image
    <3> QED
      BY <1>4, <3>3 DEF Searching
  <2>18. Searching(s, q, t, op.ko)'
    BY <2>12, <2>15, <2>16, <2>17 DEF Searching
  <2>19. Way(s, q, t, l, op)'
    BY <1>3, <1>4, <2>10, <2>12, <2>13, <2>18 DEF Way
  <2> QED
    BY <2>19
<1> QED
  BY <1>9, <1>10

\* Every step of its call takes a clone further.
LEMMA WayNext ==
  ASSUME WorkspaceInv, ShareInv, CompleteInv, LinkInv, Remembers, NEW s \in Sessions, Step(s),
         NEW p, NEW r, NEW l, NEW op, Way(s, p, r, l, op), Copying(s)'
  PROVE  \E q, t, k, o : Way(s, q, t, k, o)'
<1>1. /\ todo[s] # <<>> /\ Copying(s) /\ op.do = "cloned" /\ IsOver(todo)
      /\ Op(s).do \in CloneOps \cup {"cloned"}
  <2>1. todo[s] # <<>> /\ Copying(s)
    BY WayFirst
  <2>2. Op(s).do \in CloneOps \cup {"cloned"}
    BY WayDoes
  <2> QED
    BY <2>1, <2>2 DEF Way, WorkspaceInv, Functions
<1>2. CopiesApart(db, mem[s].copies)
  BY <1>1 DEF CompleteInv, Course
<1>3. Followed(s) /\ Followed(s)'
  BY <1>1 DEF Copying, Followed
<1>4. SinceInv(s) /\ WireInv(s) /\ EndsGiven(db)
  BY DEF ShareInv, LinkInv
<1>5. Within(since'[s], since[s]) /\ Wired(since'[s], since[s])
  BY <1>3, <1>4, SinceShrinks, WiresMove
<1>6. Within(since[s], Finds(s, db)) /\ Within(since[s], Finds(s, View(s)))
  BY <1>3, <1>4 DEF SinceInv, View
<1>7. CASE sp_link(s)
  BY <1>2, <1>5, <1>7, WayLink
<1>8. CASE set_edge_attribute(s)
  BY <1>2, <1>5, <1>8, WaySet
<1>9. CASE CopyEdge(s)
  BY <1>4, <1>5, <1>9, WayEdge
<1>10. CASE CopyEdges(s)
  BY <1>5, <1>10, WayEdges
<1>11. CASE CopyNodes(s)
  BY <1>5, <1>6, <1>11, WayNodes
<1>12. CASE CopyInbound(s) \/ CopyOutbound(s)
  BY <1>5, <1>6, <1>12, WayBeside
<1>13. CASE clone_from_org(s)
  BY <1>2, <1>4, <1>5, <1>13, WayNode
<1>14. ~Return(s)
  <2> SUFFICES ASSUME Return(s) PROVE FALSE
    OBVIOUS
  <2>1. Op(s).do = "cloned" /\ Then(s, <<>>)
    BY DEF Return, At, Op
  <2>2. todo[s] = <<op>>
    BY <2>1, WayDoes
  <2>3. Tail(<<op>>) = <<>> /\ <<>> \o <<>> = <<>>
    OBVIOUS
  <2>4. todo'[s] = <<>>
    BY <1>1, <2>1, <2>2, <2>3 DEF Then, IsOver
  <2> QED
    BY <2>4, ListOf DEF Copying
<1> QED
  BY <1>1, <1>7, <1>8, <1>9, <1>10, <1>11, <1>12, <1>13, <1>14, CloneSteps

\* A clone begins with nothing but its project.
LEMMA WayBegins ==
  ASSUME WorkspaceInv, CompleteInv, NEW s \in Sessions, clone_project(s), EndsGiven(db), Copying(s)'
  PROVE  \E q, t, k, o : Way(s, q, t, k, o)'
<1> DEFINE ko == Op(s).ko
           n == db.last + 1
           row == Clone(s, View(s).wob[ko], ko, FALSE)
           copies == Put(<<>>, n, n)
<1>1. IsOver(todo) /\ IsOver(mem) /\ db.last \in Nat
  BY ViewRows DEF WorkspaceInv, Functions
<1>2. todo[s] = <<Op(s)>> /\ Tail(todo[s]) = <<>>
  <2>1. Op(s).do = "clone_project" /\ Op(s) \in Range(todo[s])
    BY OpSound DEF clone_project
  <2>2. todo[s] = <<Op(s)>>
    BY <2>1 DEF CompleteInv, CallAlone
  <2>3. \A a : Tail(<<a>>) = <<>>
    OBVIOUS
  <2> QED
    BY <2>2, <2>3
<1>3. ~Raise(s)
  BY <1>1, ListOf DEF Raise, IsOver, Copying
<1>4. /\ CommitsAndLoads(s, Inserted(row))
      /\ mem' = [mem EXCEPT ![s] = [made |-> n, copies |-> copies, pairs |-> <<>>]]
      /\ Then(s, <<[do |-> "copy_nodes", ko |-> ko], [do |-> "copy_edges"], [do |-> "cloned", ko |-> ko]>>)
  BY <1>3 DEF clone_project
<1>5. PICK nodes, edges, cloned :
        /\ Then(s, <<nodes, edges, cloned>>)
        /\ nodes.do = "copy_nodes" /\ edges.do = "copy_edges" /\ cloned.do = "cloned"
        /\ nodes.ko = cloned.ko
  <2> DEFINE a == [do |-> "copy_nodes", ko |-> ko]
             b == [do |-> "copy_edges"]
             c == [do |-> "cloned", ko |-> ko]
  <2>1. a.do = "copy_nodes" /\ b.do = "copy_edges" /\ c.do = "cloned" /\ a.ko = c.ko
    OBVIOUS
  <2>2. Then(s, <<a, b, c>>)
    BY <1>4
  <2> HIDE DEF a, b, c
  <2> QED
    BY <2>1, <2>2
<1>6. /\ db'.edge = db.edge /\ snap'[s] = db' /\ n \in DOMAIN db'.wob /\ db'.wob[n].owner = User[s]
  <2>1. row.owner = User[s]
    BY DEF Clone, New
  <2> HIDE DEF row
  <2> QED
    BY <1>4, <2>1, InsertedRow
<1>7. DOMAIN copies = {n} /\ copies[n] = n /\ n \notin 1 .. db.last
  BY <1>1 DEF Put
<1> HIDE DEF copies, n, row, ko
<1>8. mem'[s].made = n /\ mem'[s].copies = copies /\ mem'[s].pairs = <<>>
  BY <1>1, <1>4 DEF IsOver
<1>9. Own(s)' = {n} /\ Copied(s)' = {}
  BY <1>7, <1>8 DEF Own, Copied, Range
<1>10. Rooted(s)'
  <2>1. Mine(s, db)' /\ (snap'[s] # None => Mine(s, snap[s])')
    BY <1>6, <1>9 DEF Mine
  <2>2. Inside(s, db)'
    BY <1>6, <1>7, <1>9 DEF Inside, EndsGiven
  <2>3. \A e \in Range(mem'[s].pairs) : e = <<e[1], e[2]>>
    BY <1>8, ListOf
  <2> QED
    BY <1>7, <1>8, <2>1, <2>2, <2>3 DEF Rooted
<1>11. /\ IsList(<<>>) /\ IsList(<<nodes>>) /\ Range(<<nodes>>) = {nodes} /\ IsList(<<edges, cloned>>)
  BY ListOf
<1>12. todo'[s] = <<>> \o (<<nodes>> \o <<edges, cloned>>)
  <2>1. todo'[s] = <<nodes, edges, cloned>> \o <<>>
    BY <1>1, <1>2, <1>5 DEF Then, IsOver
  <2>2. <<nodes, edges, cloned>> \o <<>> = <<nodes>> \o <<edges, cloned>>
    BY ThreeOf
  <2> QED
    BY <1>11, <2>1, <2>2, NothingAfter
<1>13. \A a, b : Paired(s, <<nodes>>, cloned.ko, a, b)'
  BY <1>5, <1>11 DEF Paired
<1>14. Searching(s, <<>>, <<nodes>>, cloned.ko)'
  BY <1>5, <1>9, <1>11, <1>13 DEF Searching, SearchOps
<1>15. Way(s, <<>>, <<nodes>>, <<edges, cloned>>, cloned)'
  BY <1>5, <1>10, <1>11, <1>12, <1>14 DEF Way
<1> QED
  BY <1>15

\* A step leaves the clones of other sessions alone.
Alone == \A s, t \in Sessions :
           s # t /\ Step(t) /\ Copying(s) => OfObjects(Own(s), db') = OfObjects(Own(s), db)

LEMMA LinkNext ==
  ASSUME WorkspaceInv, ShareInv, CompleteInv, LinkInv, [Next]_vars, [Alone]_vars
  PROVE  LinkInv'
<1>1. CASE UNCHANGED vars
  <2>1. /\ db' = db /\ snap' = snap /\ todo' = todo /\ mem' = mem /\ since' = since
    BY <1>1 DEF vars, state
  <2>2. ASSUME NEW t \in Sessions PROVE WireInv(t)' /\ (Copying(t)' => \E p, r, l, op : Way(t, p, r, l, op)')
    <3>1. WireInv(t) /\ (Copying(t) => \E p, r, l, op : Way(t, p, r, l, op))
      BY DEF LinkInv
    <3>2. Copying(t)' => Copying(t)
      BY <2>1 DEF Copying
    <3>3. WireInv(t)'
      BY <2>1, <3>1 DEF WireInv, Followed
    <3>4. ASSUME NEW p, NEW r, NEW l, NEW op, Way(t, p, r, l, op) PROVE Way(t, p, r, l, op)'
      <4>1. Wired(since'[t], since[t]) /\ Within(since'[t], since[t])
        BY <2>1 DEF Wired, Within
      <4> QED
        BY <2>1, <3>4, <4>1, WayStays
    <3> QED
      BY <3>1, <3>2, <3>3, <3>4
  <2> QED
    BY <2>1, <2>2 DEF LinkInv
<1>2. ASSUME NEW s \in Sessions, Step(s), Remembers, Alone, NEW t \in Sessions
      PROVE  WireInv(t)' /\ (Copying(t)' => \E p, r, l, op : Way(t, p, r, l, op)')
  <2>1. Effect(s)
    BY <1>2, StepEffect
  <2>2. WireInv(t)'
    BY <1>2, WireNext DEF LinkInv
  <2>3. CASE Copying(t)' /\ t # s
    <3>1. todo'[t] = todo[t] /\ snap'[t] = snap[t]
      BY <2>1, <2>3, Listed
    <3>2. mem'[t] = mem[t]
      BY <2>1, <2>3 DEF Effect, WorkspaceInv, Functions, IsOver
    <3>3. Copying(t) /\ Followed(t) /\ Followed(t)'
      BY <2>3, <3>1 DEF Copying, Followed
    <3>4. PICK p, r, l, op : Way(t, p, r, l, op)
      BY <3>3 DEF LinkInv
    <3>5. Within(since'[t], since[t]) /\ Wired(since'[t], since[t])
      BY <1>2, <3>3, SinceShrinks, WiresMove DEF ShareInv, LinkInv
    <3>6. OfObjects(Own(t), db') = OfObjects(Own(t), db)
      BY <1>2, <2>3, <3>3 DEF Alone
    <3>7. Way(t, p, r, l, op)'
      BY <3>1, <3>2, <3>4, <3>5, <3>6, WayStays
    <3> QED
      BY <2>2, <3>7
  <2>4. CASE Copying(s)' /\ t = s /\ Copying(s)
    <3>1. PICK p, r, l, op : Way(s, p, r, l, op)
      BY <2>4 DEF LinkInv
    <3> QED
      BY <1>2, <2>2, <2>4, <3>1, WayNext
  <2>5. CASE Copying(s)' /\ t = s /\ ~Copying(s)
    <3>1. PICK op \in Range(todo'[s]) : op.do = "cloned"
      BY <2>5 DEF Copying
    <3>2. Due(s, op)
      BY <2>1, <2>5, <3>1, Listed DEF Copying
    <3>3. clone_project(s)
      BY <3>1, <3>2 DEF Due
    <3> QED
      BY <2>2, <2>5, <3>3, WayBegins DEF LinkInv
  <2> QED
    BY <2>2, <2>3, <2>4, <2>5
<1>3. ASSUME NEW s \in Sessions, Step(s) PROVE EndsGiven(db)'
  BY <1>3, EndsStay DEF LinkInv, EndsGiven
<1>4. CASE (\E s \in Sessions : Step(s)) /\ Remembers /\ Alone
  BY <1>2, <1>3, <1>4 DEF LinkInv
<1> QED
  BY <1>1, <1>4 DEF Next

LEMMA LinkInit == Init => LinkInv
<1> SUFFICES ASSUME Init PROVE LinkInv
  OBVIOUS
<1>1. PICK c \in Scenarios : db = c.db /\ todo = [s \in Sessions |-> <<>>]
  BY DEF Init
<1>2. EndsGiven(db)
  <2>1. Joined(db) /\ DOMAIN db.wob \subseteq 1 .. db.last
    BY <1>1, WorkspaceAssumption DEF Numbered
  <2> QED
    BY <2>1 DEF Joined, EndsGiven
<1>3. ASSUME NEW s \in Sessions PROVE ~Copying(s) /\ ~Followed(s)
  BY <1>1, ListOf DEF Copying, Followed
<1> QED
  BY <1>2, <1>3 DEF LinkInv, WireInv

\* What a clone has when its call returns.
LEMMA LinkHolds ==
  ASSUME WorkspaceInv, LinkInv, NEW s \in Sessions, At(s, "cloned")
  PROVE  /\ Linking(s, <<>>, <<>>, Op(s).ko) /\ Rooted(s)
         /\ Blocks(s) = Lasting(s, Op(s).ko)
<1>1. Op(s).do = "cloned" /\ Op(s) \in Range(todo[s])
  BY OpSound
<1>2. PICK p, r, l, op : Way(s, p, r, l, op)
  BY <1>1 DEF LinkInv, Copying
<1>3. p = <<>> /\ r = <<>> /\ l = <<op>> /\ todo[s] = <<op>>
  BY <1>1, <1>2, WayDoes
<1>4. Op(s) = op
  BY <1>3 DEF Op
<1>5. \A e : e.do = "copy_edges" => <<op>> # <<e, op>>
  OBVIOUS
<1> QED
  BY <1>2, <1>3, <1>4, <1>5 DEF Way, Blocks, Lasting

(* When clone_project returns, the clone has every block that was in the   *)
(* project all the time, once, each copy is linked to the clone, copies    *)
(* are linked where their originals were all the time, with connectors     *)
(* these had and all they had all the time, and nothing else leads into    *)
(* the clone: whatever others do to the project between the transactions,  *)
(* as long as they leave the clone alone.                                  *)
THEOREM ClonesAreFaithful == Spec /\ LeftAlone => []CloneFaithful
<1>1. ASSUME WorkspaceInv, LinkInv, NEW s \in Sessions, At(s, "cloned")
      PROVE  LET new    == mem[s].made
                 f      == Copies(s)
                 copies == {f[m] : m \in DOMAIN f}
             IN /\ \A m \in DOMAIN f : <<new, f[m]>> \in DOMAIN db.edge
                /\ \A a, b \in DOMAIN f :
                     LET e == <<f[a], f[b]>>
                     IN /\ {a, b} \subseteq Blocks(s) /\ <<a, b>> \in since[s].edge => e \in DOMAIN db.edge
                        /\ e \in DOMAIN db.edge =>
                             /\ \A rc \in DOMAIN db.edge[e] :
                                  <<<<a, b>>, db.edge[e][rc], rc>> \in since[s].ever
                             /\ \A w \in since[s].wires :
                                  w[1] = <<a, b>> => w[3] \in DOMAIN db.edge[e] /\ db.edge[e][w[3]] = w[2]
                /\ \A e \in DOMAIN db.edge : e[2] \in copies => e[1] \in copies \cup {new}
  <2> DEFINE new == mem[s].made
             f == Copies(s)
             g == mem[s].copies
             copies == {f[m] : m \in DOMAIN f}
  <2>1. Linking(s, <<>>, <<>>, Op(s).ko) /\ Rooted(s) /\ Blocks(s) = Lasting(s, Op(s).ko)
    BY <1>1, LinkHolds
  <2>2. DOMAIN f = Copied(s) /\ \A m \in DOMAIN f : f[m] = g[m]
    BY DEF Copies, Restrict, Copied
  <2>3. ASSUME NEW a \in DOMAIN f, NEW b \in DOMAIN f
        PROVE  <<f[a], f[b]>> = Image(s, a, b)
    BY <2>2 DEF Image
  <2>4. \A m \in DOMAIN f : <<new, f[m]>> \in DOMAIN db.edge
    BY <2>1, <2>2 DEF Linking, Placed
  <2>5. ASSUME NEW a \in DOMAIN f, NEW b \in DOMAIN f, {a, b} \subseteq Blocks(s), <<a, b>> \in since[s].edge
        PROVE  Image(s, a, b) \in DOMAIN db.edge
    <3>1. Lasts(s, Op(s).ko, a, b)
      BY <2>1, <2>5 DEF Lasts
    <3>2. Range(<<>>) = {} /\ \A attr : <<>> # Adds(s, a, b, attr)
      BY ListOf DEF Adds
    <3> QED
      BY <2>1, <2>2, <3>1, <3>2 DEF Linking
  <2>6. ASSUME NEW a \in DOMAIN f, NEW b \in DOMAIN f, Image(s, a, b) \in DOMAIN db.edge
        PROVE  Faithful(s, a, b, db.edge[Image(s, a, b)])
    <3>1. \A attr : <<>> # Sets(s, a, b, attr)
      BY DEF Sets
    <3> QED
      BY <2>1, <2>2, <2>6, <3>1 DEF Linking
  <2>7. ASSUME NEW e \in DOMAIN db.edge, e[2] \in copies PROVE e[1] \in copies \cup {new}
    <3>1. copies \subseteq Own(s) /\ Own(s) \subseteq copies \cup {new}
      BY <2>1, <2>2 DEF Own, Range, Copied, Rooted
    <3> QED
      BY <2>1, <2>7, <3>1 DEF Rooted, Inside
  <2> HIDE DEF f, new
  <2> QED
    BY <2>3, <2>4, <2>5, <2>6, <2>7 DEF Faithful, f, new
<1>2. WorkspaceInv /\ ShareInv /\ CompleteInv /\ LinkInv => CloneFaithful
  BY <1>1, CompleteHolds DEF CloneFaithful
<1>3. WorkspaceInv /\ ShareInv /\ CompleteInv /\ LinkInv /\ [Next]_vars /\ [Alone]_vars => LinkInv'
  BY LinkNext
<1> QED
  BY <1>2, <1>3, LinkInit, NothingUnderWay, InitInv, NextInv, ShareNext, CompleteNext, PTL
  DEF Spec, LeftAlone, Alone
=============================================================================
