-------------------------- MODULE CodeBlocks_proofs --------------------------
(***************************************************************************)
(* Proofs about workflow objects in memory and in the database, for any    *)
(* sessions, blocks and rights, any number of calls, and histories of any  *)
(* length.                                                                 *)
(***************************************************************************)
EXTENDS CodeBlocks, Integers, FiniteSetTheorems, WellFoundedInduction, TLAPS

-----------------------------------------------------------------------------
(* Recursive definitions. *)

\* Every non-empty set of natural numbers has a least element.
LEMMA Least ==
  ASSUME NEW T \in SUBSET Nat, T # {}
  PROVE  \E x \in T : \A y \in T : x <= y
<1>1. IsWellFoundedOn(OpToRel(<,Nat), Nat)
  BY NatLessThanWellFounded
<1>2. \E x \in T : \A y \in T : ~ (<<y, x>> \in OpToRel(<,Nat))
  BY <1>1, WFMin
<1>3. PICK x \in T : \A y \in T : ~ (<<y, x>> \in OpToRel(<,Nat))
  BY <1>2
<1>4. \A y \in T : y \in Nat /\ x \in Nat /\ (y < x => <<y, x>> \in OpToRel(<,Nat))
  BY DEF OpToRel
<1>5. \A y \in T : y \in Nat /\ x \in Nat /\ ~(y < x)
  BY <1>3, <1>4, Zenon
<1> HIDE DEF OpToRel
<1>6. \A y \in T : x <= y
  BY <1>5
<1> QED BY <1>6

\* Induction over a range of numbers, with a set for the predicate.
LEMMA Induction ==
  ASSUME NEW n \in Nat, NEW S, 0 \in S, \A i \in 1 .. n : i - 1 \in S => i \in S
  PROVE  0 .. n \subseteq S
<1> DEFINE T == (0 .. n) \ S
<1>1. SUFFICES ASSUME T # {} PROVE FALSE
  OBVIOUS
<1>2. T \in SUBSET Nat
  OBVIOUS
<1>3. PICK x \in T : \A y \in T : x <= y
  <2> HIDE DEF T
  <2> QED BY <1>1, <1>2, Least
<1>4. x \in 1 .. n /\ x - 1 \in 0 .. n /\ ~(x <= x - 1)
  OBVIOUS
<1>5. x - 1 \in S
  BY <1>3, <1>4
<1> QED BY <1>4, <1>5

Unfolds(f, n, a, next) == f = [i \in 0 .. n |-> IF i = 0 THEN a ELSE next[i][f[i - 1]]]

\* A recursive definition over 0 .. n has a function that satisfies it.
LEMMA Recursion ==
  ASSUME NEW n \in Nat, NEW X, NEW a \in X, NEW next \in [1 .. n -> [X -> X]]
  PROVE  \E f \in [0 .. n -> X] : Unfolds(f, n, a, next)
<1> DEFINE S == {k \in 0 .. n : \E f \in [0 .. k -> X] :
                    f = [i \in 0 .. k |-> IF i = 0 THEN a ELSE next[i][f[i - 1]]]}
<1>1. 0 \in S
  <2> DEFINE z == [i \in 0 .. 0 |-> a]
  <2>1. z \in [0 .. 0 -> X] /\ z = [i \in 0 .. 0 |-> IF i = 0 THEN a ELSE next[i][z[i - 1]]]
    OBVIOUS
  <2>2. \E f \in [0 .. 0 -> X] : f = [i \in 0 .. 0 |-> IF i = 0 THEN a ELSE next[i][f[i - 1]]]
    <3> HIDE DEF z
    <3> QED
      BY <2>1, Zenon
  <2> QED
    BY <2>2
<1>2. ASSUME NEW k \in 1 .. n, k - 1 \in S
      PROVE  k \in S
  <2>1. PICK f \in [0 .. k - 1 -> X] :
              f = [i \in 0 .. k - 1 |-> IF i = 0 THEN a ELSE next[i][f[i - 1]]]
    BY <1>2
  <2> DEFINE g == [i \in 0 .. k |-> IF i = k THEN next[k][f[k - 1]] ELSE f[i]]
  <2>2. f[k - 1] \in X /\ next[k][f[k - 1]] \in X
    OBVIOUS
  <2>3. g \in [0 .. k -> X]
    BY <2>2
  <2>4. ASSUME NEW i \in 0 .. k
        PROVE  g[i] = IF i = 0 THEN a ELSE next[i][g[i - 1]]
    <3>1. CASE i = k
      BY <3>1
    <3>2. CASE i # k
      <4>1. i \in 0 .. k - 1 /\ g[i] = f[i]
        BY <3>2
      <4>2. f[i] = IF i = 0 THEN a ELSE next[i][f[i - 1]]
        BY <2>1, <4>1
      <4>3. i # 0 => g[i - 1] = f[i - 1]
        BY <4>1
      <4> QED
        BY <4>1, <4>2, <4>3
    <3> QED
      BY <3>1, <3>2
  <2>5. g = [i \in 0 .. k |-> IF i = 0 THEN a ELSE next[i][g[i - 1]]]
    BY <2>4, <2>3
  <2>6. \E h \in [0 .. k -> X] : h = [i \in 0 .. k |-> IF i = 0 THEN a ELSE next[i][h[i - 1]]]
    <3> HIDE DEF g
    <3> QED
      BY <2>3, <2>5, Zenon
  <2>7. k \in 0 .. n
    OBVIOUS
  <2> QED
    BY <2>6, <2>7, Zenon
<1>3. 0 .. n \subseteq S
  <2> HIDE DEF S
  <2> QED
    BY <1>1, <1>2, Induction
<1> QED
  BY <1>3 DEF Unfolds

-----------------------------------------------------------------------------
(* Types of what the operators return. *)

LEMMA ViewTyped ==
  ASSUME TypeOK, NEW s \in Sessions
  PROVE  /\ View(s) \in [Blocks -> Object]
         /\ create_view(s) \subseteq Blocks
         /\ [snap EXCEPT ![s] = View(s)] \in [Sessions -> [Blocks -> Object] \cup {None}]
BY DEF TypeOK, View, create_view

\* The end of a chain of clones is a block.
LEMMA LastInChainTyped ==
  ASSUME NEW s \in Sessions, NEW b \in Blocks, Original[b] # None
  PROVE  LastInChain(s, b) \in Blocks
<1> DEFINE n == Cardinality(Blocks)
           sees(x) == Original[x] # None /\ Original[x] \in create_view(s)
           chain[i \in 0 .. n] ==
             IF i = 0 THEN Original[b]
             ELSE LET o == Original[chain[i - 1]]
                  IN IF o # None /\ o \in create_view(s) THEN o ELSE chain[i - 1]
           step == [x \in Blocks |-> IF sees(x) THEN Original[x] ELSE x]
           next == [i \in 1 .. n |-> step]
<1>1. n \in Nat /\ Original \in [Blocks -> Blocks \cup {None}]
  BY CodeBlocksAssumption, FS_CardinalityType
<1>2. step \in [Blocks -> Blocks] /\ Original[b] \in Blocks
  BY <1>1
<1>3. PICK f \in [0 .. n -> Blocks] : Unfolds(f, n, Original[b], next)
  <2>1. next \in [1 .. n -> [Blocks -> Blocks]]
    BY <1>2
  <2>2. n \in Nat /\ Original[b] \in Blocks
    BY <1>1, <1>2
  <2> HIDE DEF next, step, n
  <2> QED
    BY <2>1, <2>2, Recursion
<1>4. f = [i \in 0 .. n |->
             IF i = 0 THEN Original[b]
             ELSE LET o == Original[f[i - 1]]
                  IN IF o # None /\ o \in create_view(s) THEN o ELSE f[i - 1]]
  <2>1. ASSUME NEW i \in 0 .. n
        PROVE  f[i] = IF i = 0 THEN Original[b]
                      ELSE LET o == Original[f[i - 1]]
                           IN IF o # None /\ o \in create_view(s) THEN o ELSE f[i - 1]
    <3>1. CASE i = 0
      BY <1>1, <1>3, <3>1 DEF Unfolds
    <3>2. CASE i # 0
      <4>1. i \in 1 .. n /\ i - 1 \in 0 .. n
        BY <1>1, <3>2
      <4>2. f[i] = next[i][f[i - 1]] /\ f[i - 1] \in Blocks
        BY <1>3, <3>2, <4>1 DEF Unfolds
      <4> QED
        BY <3>2, <4>1, <4>2
    <3> QED
      BY <3>1, <3>2
  <2> HIDE DEF n
  <2> QED
    BY <2>1
<1>5. chain = [i \in 0 .. n |->
                 IF i = 0 THEN Original[b]
                 ELSE LET o == Original[chain[i - 1]]
                      IN IF o # None /\ o \in create_view(s) THEN o ELSE chain[i - 1]]
  BY <1>4, Zenon
<1>6. chain[n] \in Blocks
  <2> DEFINE S == {i \in 0 .. n : chain[i] \in Blocks}
  <2> HIDE DEF chain
  <2>1. 0 \in S
    BY <1>1, <1>2, <1>5
  <2>2. ASSUME NEW i \in 1 .. n, i - 1 \in S
        PROVE  i \in S
    BY <1>1, <1>5, <2>2
  <2>3. 0 .. n \subseteq S
    <3> HIDE DEF S, n
    <3> QED
      BY <1>1, <2>1, <2>2, Induction
  <2> QED
    BY <1>1, <2>3
<1>7. LastInChain(s, b) = chain[n]
  BY Zenon DEF LastInChain
<1> QED
  BY <1>6, <1>7
LEMMA PatchTyped ==
  ASSUME NEW body \in Contents, NEW diff \in Diff
  PROVE  patch(body, diff) \in Contents
BY DEF patch, Restorable, Contents, Diff

\* What revert computes: the text before, patched with one difference a step.
LEMMA RevertedUnfolds ==
  ASSUME NEW ob \in Object, NEW steps \in 1 .. Len(ob.diffs)
  PROVE  \E text \in [0 .. steps -> Contents] :
           /\ text[0] = ob.body
           /\ \A i \in 1 .. steps : text[i] = patch(text[i - 1], ob.diffs[i])
           /\ Reverted(ob, steps) =
                [ob EXCEPT !.body = text[steps],
                           !.diffs = SubSeq(ob.diffs, steps + 1, Len(ob.diffs))]
<1> DEFINE new_code[i \in 0 .. steps] ==
             IF i = 0 THEN ob.body ELSE patch(new_code[i - 1], ob.diffs[i])
           next == [i \in 1 .. steps |-> [x \in Contents |-> patch(x, ob.diffs[i])]]
<1>1. /\ steps \in Nat /\ ob.body \in Contents
      /\ \A i \in 1 .. steps : ob.diffs[i] \in Diff
  <2>1. ob.body \in Contents /\ ob.diffs \in Seq(Diff)
    BY DEF Object
  <2>2. \A i \in 1 .. Len(ob.diffs) : ob.diffs[i] \in Diff
    BY <2>1
  <2>3. Len(ob.diffs) \in Nat
    BY <2>1
  <2> QED
    BY <2>1, <2>2, <2>3
<1>2. next \in [1 .. steps -> [Contents -> Contents]]
  BY <1>1, PatchTyped
<1>3. PICK f \in [0 .. steps -> Contents] : Unfolds(f, steps, ob.body, next)
  <2> HIDE DEF next
  <2> QED
    BY <1>1, <1>2, Recursion
<1>4. f = [i \in 0 .. steps |-> IF i = 0 THEN ob.body ELSE patch(f[i - 1], ob.diffs[i])]
  <2>1. ASSUME NEW i \in 0 .. steps
        PROVE  f[i] = IF i = 0 THEN ob.body ELSE patch(f[i - 1], ob.diffs[i])
    <3>1. CASE i = 0
      BY <1>1, <1>3, <3>1 DEF Unfolds
    <3>2. CASE i # 0
      <4>1. i \in 1 .. steps /\ i - 1 \in 0 .. steps
        BY <1>1, <3>2
      <4>2. f[i] = next[i][f[i - 1]] /\ f[i - 1] \in Contents
        BY <1>3, <3>2, <4>1 DEF Unfolds
      <4> QED
        BY <3>2, <4>1, <4>2
    <3> QED
      BY <3>1, <3>2
  <2> QED
    BY <2>1
<1>5. new_code = [i \in 0 .. steps |->
                    IF i = 0 THEN ob.body ELSE patch(new_code[i - 1], ob.diffs[i])]
  BY <1>4, Zenon
<1>6. Reverted(ob, steps) =
        [ob EXCEPT !.body = new_code[steps],
                   !.diffs = SubSeq(ob.diffs, steps + 1, Len(ob.diffs))]
  BY Zenon DEF Reverted
<1> HIDE DEF new_code
<1>7. /\ new_code[0] = ob.body
      /\ \A i \in 1 .. steps : new_code[i] = patch(new_code[i - 1], ob.diffs[i])
  BY <1>1, <1>5
<1>8. new_code \in [0 .. steps -> Contents]
  <2> DEFINE S == {i \in 0 .. steps : new_code[i] \in Contents}
  <2>1. 0 \in S
    BY <1>1, <1>7
  <2>2. ASSUME NEW i \in 1 .. steps, i - 1 \in S
        PROVE  i \in S
    <3>1. new_code[i - 1] \in Contents /\ ob.diffs[i] \in Diff
      BY <1>1, <2>2
    <3>2. new_code[i] \in Contents
      BY <1>7, <3>1, PatchTyped
    <3> QED
      BY <3>2
  <2>3. 0 .. steps \subseteq S
    <3> HIDE DEF S
    <3> QED
      BY <1>1, <2>1, <2>2, Induction
  <2> QED
    BY <1>5, <2>3
<1> QED
  BY <1>6, <1>7, <1>8

\* A shorter history is a history.
LEMMA FirstNDiffs ==
  ASSUME NEW seq \in Seq(Diff), NEW n \in Nat
  PROVE  /\ FirstN(seq, n) \in Seq(Diff)
         /\ Len(FirstN(seq, n)) = IF Len(seq) < n THEN Len(seq) ELSE n
         /\ \A i \in 1 .. Len(FirstN(seq, n)) : i \in 1 .. Len(seq) /\ FirstN(seq, n)[i] = seq[i]
<1> DEFINE m == IF Len(seq) < n THEN Len(seq) ELSE n
<1>1. m \in 0 .. Len(seq) /\ FirstN(seq, n) = SubSeq(seq, 1, m)
  BY DEF FirstN
<1>2. Len(SubSeq(seq, 1, m)) = m
  BY <1>1
<1>3. \A i \in 1 .. m : i \in 1 .. Len(seq) /\ SubSeq(seq, 1, m)[i] = seq[i]
  BY <1>1
<1>4. SubSeq(seq, 1, m) \in Seq(Diff)
  BY <1>1
<1> HIDE DEF m
<1> QED
  BY <1>1, <1>2, <1>3, <1>4 DEF m

LEMMA AddedDiffs ==
  ASSUME NEW d \in Diff, NEW seq \in Seq(Diff)
  PROVE  /\ <<d>> \o seq \in Seq(Diff)
         /\ Len(<<d>> \o seq) = Len(seq) + 1
         /\ (<<d>> \o seq)[1] = d
         /\ \A i \in 2 .. Len(seq) + 1 : (<<d>> \o seq)[i] = seq[i - 1]
OBVIOUS

LEMMA WriteDiffTyped ==
  ASSUME NEW ob \in Object, NEW new \in Contents
  PROVE  write_diff(ob, new) \in Object /\ [write_diff(ob, new) EXCEPT !.body = new] \in Object
<1>1. /\ Kept \in Nat /\ Difference(ob.body, new) \in Diff
      /\ ob.diffs \in Seq(Diff) /\ <<>> \in Seq(Diff)
  BY CodeBlocksAssumption DEF Object, Difference, Diff
<1>2. FirstN(<<Difference(ob.body, new)>> \o ob.diffs, Kept) \in Seq(Diff)
  BY <1>1, AddedDiffs, FirstNDiffs
<1>3. write_diff(ob, new).diffs \in Seq(Diff) /\ write_diff(ob, new) = [ob EXCEPT !.diffs = write_diff(ob, new).diffs]
  BY <1>1, <1>2 DEF write_diff, Object
<1> QED
  BY <1>3 DEF Object

LEMMA RevertedTyped ==
  ASSUME NEW ob \in Object, NEW steps \in 1 .. Len(ob.diffs)
  PROVE  Reverted(ob, steps) \in Object
<1>1. ob.diffs \in Seq(Diff) /\ Len(ob.diffs) \in Nat
  BY DEF Object
<1>2. SubSeq(ob.diffs, steps + 1, Len(ob.diffs)) \in Seq(Diff)
  BY <1>1
<1>3. PICK text \in [0 .. steps -> Contents] :
         Reverted(ob, steps) =
           [ob EXCEPT !.body = text[steps],
                      !.diffs = SubSeq(ob.diffs, steps + 1, Len(ob.diffs))]
  BY RevertedUnfolds
<1>4. text[steps] \in Contents
  BY <1>1
<1> QED
  BY <1>2, <1>3, <1>4 DEF Object

-----------------------------------------------------------------------------
(* Writing. *)

(* A git command runs in a processor that has loaded its job. *)
JobLoaded == \A s \in Sessions : pulled[s] # None => cached[s][Job] \in Object

(* Nothing waits in the list of a process that has nothing left over. *)
ListEmpty == \A s \in Sessions : changed[s] # {} => s \in leftover

\* What an update does, refused or not.
LEMMA UpdateEffect ==
  ASSUME TypeOK, NEW s \in Sessions, NEW b \in Blocks, NEW ob \in Object,
         NEW names \in SUBSET Fields, update(s, b, ob, names)
  PROVE  /\ row' \in [Blocks -> Object]
         /\ snap' \in [Sessions -> [Blocks -> Object] \cup {None}]
         /\ changed' \in [Sessions -> SUBSET Fields]
         /\ last' \in [by : Sessions \cup {None}, wob : Blocks \cup {None}, names : SUBSET Fields]
         /\ last'.by = s /\ last'.wob = b /\ last'.names = names
         /\ leftover' \subseteq Sessions
         /\ \A c \in Blocks : row'[c] # row[c] => c = b /\ b \in Writes[s]
         /\ \A f \in Fields : row'[b][f] # row[b][f] => f \in changed[s] \cup names
         /\ ListEmpty => ListEmpty'
<1> DEFINE list == changed[s] \cup names
           new == [f \in Fields |->
                     IF f \in list \cap Columns(b) \cap Given(ob) /\ b \in Writes[s]
                     THEN ob[f] ELSE row[b][f]]
<1>1. new \in Object /\ (b \notin Writes[s] => new = row[b])
  BY DEF TypeOK, Object, Fields
<1>2. list \in SUBSET Fields
  BY DEF TypeOK
<1>3. last' = [by |-> s, wob |-> b, names |-> names]
  BY DEF update, Meaning
<1>4. CASE /\ row' = sp_update(s, b, ob, list \cap Columns(b))
           /\ changed' = [changed EXCEPT ![s] = {}]
           /\ leftover' = leftover \ {s}
           /\ snap' = [snap EXCEPT ![s] = None]
  <2>1. row' = [row EXCEPT ![b] = new]
    BY <1>4 DEF sp_update
  <2>2. /\ row' \in [Blocks -> Object]
        /\ \A c \in Blocks : row'[c] # row[c] => c = b /\ b \in Writes[s]
    <3> HIDE DEF new
    <3> QED
      BY <1>1, <2>1 DEF TypeOK
  <2>3. \A f \in Fields : row'[b][f] # row[b][f] => f \in list
    BY <2>1 DEF TypeOK
  <2>4. ListEmpty => ListEmpty'
    BY <1>4 DEF ListEmpty, TypeOK
  <2> QED
    BY <1>3, <1>4, <2>2, <2>3, <2>4 DEF TypeOK
<1>5. CASE /\ changed' = [changed EXCEPT ![s] = list]
           /\ leftover' = leftover \cup {s}
           /\ UNCHANGED <<row, snap>>
  <2>1. ListEmpty => ListEmpty'
    BY <1>5 DEF ListEmpty, TypeOK
  <2> HIDE DEF list
  <2> QED
    BY <1>2, <1>3, <1>5, <2>1 DEF TypeOK
<1> QED
  BY <1>4, <1>5 DEF update

LEMMA AssignTyped ==
  ASSUME TypeOK, JobLoaded, NEW s \in Sessions, NEW b \in Blocks, NEW ob \in Object,
         NEW names \in SUBSET Fields, Assign(s, b, ob, names), loose' \subseteq Blocks
  PROVE  TypeOK' /\ JobLoaded'
<1>1. /\ update(s, b, ob, names) /\ pulled[s] = None
      /\ cached' = [cached EXCEPT ![s][b] = ob]
      /\ UNCHANGED <<pulled, remote, tree>>
      /\ calls' \in 0 .. MaxCalls
  BY CodeBlocksAssumption DEF Assign, Called, Counted, TypeOK
<1>2. cached' \in [Sessions -> [Blocks -> Object \cup {None}]]
  BY <1>1 DEF TypeOK
<1>3. JobLoaded'
  BY <1>1 DEF JobLoaded, TypeOK
<1> QED
  BY <1>1, <1>2, <1>3, UpdateEffect DEF TypeOK

\* What a client assigns, alone or to several fields, makes an object.
LEMMA WritingAssigns ==
  ASSUME TypeOK, NEW s \in Sessions, Writing(s) \/ (\E c \in Bodies : send_response(s, c))
  PROVE  \/ \E b \in Blocks : clone_object(s, b)
         \/ \E b \in Blocks, ob \in Object, names \in SUBSET Fields :
              Assign(s, b, ob, names) /\ loose' \subseteq Blocks
<1> DEFINE Assigns == \E b \in Blocks, ob \in Object, names \in SUBSET Fields :
                        Assign(s, b, ob, names) /\ loose' \subseteq Blocks
<1>1. ASSUME NEW b \in Blocks, NEW ob \in Object, NEW names \in SUBSET Fields,
             Assign(s, b, ob, names), loose' \subseteq Blocks
      PROVE  Assigns
  BY <1>1
<1>2. ASSUME NEW b \in Code(s)
      PROVE  b \in Blocks /\ cached[s][b] \in Object
  BY DEF Code, TypeOK
<1>3. loose \subseteq Blocks /\ \A c \in Bodies : c \in Contents
  BY DEF TypeOK, Contents
<1> HIDE DEF Assigns
<1>4. ASSUME NEW b \in Blocks, NEW n \in Names, set_name(s, b, n)
      PROVE  Assigns
  <2>1. [cached[s][b] EXCEPT !.name = n] \in Object
    BY <1>2, <1>4 DEF set_name, Object
  <2> QED
    BY <1>1, <1>3, <1>4, <2>1 DEF set_name, Unrecorded, Fields
<1>5. ASSUME NEW b \in Blocks, NEW c \in Bodies, rewrite_function(s, b, c)
      PROVE  Assigns
  <2>1. [cached[s][b] EXCEPT !.body = c] \in Object
    BY <1>2, <1>3, <1>5 DEF rewrite_function, Object
  <2> QED
    BY <1>1, <1>3, <1>5, <2>1 DEF rewrite_function, Fields
<1>6. ASSUME NEW b \in Blocks, NEW c \in Bodies, Edit(s, b, c)
      PROVE  Assigns
  <2>1. [write_diff(cached[s][b], c) EXCEPT !.body = c] \in Object
    BY <1>2, <1>3, <1>6, WriteDiffTyped DEF Edit
  <2> QED
    BY <1>1, <1>3, <1>6, <2>1 DEF Edit, Fields
<1>7. ASSUME NEW c \in Bodies, send_response(s, c)
      PROVE  Assigns
  <2>1. Job \in Blocks /\ cached[s][Job] \in Object
    BY <1>7, CodeBlocksAssumption DEF send_response, TypeOK
  <2>2. [cached[s][Job] EXCEPT !.body = c] \in Object
    BY <1>3, <2>1 DEF Object
  <2> QED
    BY <1>1, <1>3, <1>7, <2>1, <2>2 DEF send_response, Unrecorded, Fields
<1>8. ASSUME NEW b \in Blocks, delete_object(s, b)
      PROVE  Assigns
  <2>1. [cached[s][b] EXCEPT !.deleted = TRUE] \in Object
    BY <1>2, <1>8 DEF delete_object, Object
  <2> QED
    BY <1>1, <1>3, <1>8, <2>1 DEF delete_object, Unrecorded, Fields
<1>9. ASSUME NEW b \in Blocks, NEW steps \in 1 .. Kept, revert(s, b, steps)
      PROVE  Assigns
  <2>1. cached[s][b] \in Object /\ Len(cached[s][b].diffs) \in Nat
    BY <1>2, <1>9 DEF revert, Object
  <2>2. steps \in 1 .. Len(cached[s][b].diffs)
    BY <1>9, <2>1, CodeBlocksAssumption DEF revert
  <2>3. Reverted(cached[s][b], steps) \in Object
    BY <2>1, <2>2, RevertedTyped
  <2>4. loose' \subseteq Blocks
    BY <1>3, <1>9 DEF revert
  <2> QED
    BY <1>1, <1>9, <2>3, <2>4 DEF revert, Fields
<1>10. ASSUME NEW b \in Blocks, NEW chain \in BOOLEAN, update_from_clone(s, b, chain)
       PROVE  Assigns
  <2> DEFINE o == IF chain THEN LastInChain(s, b) ELSE Original[b]
  <2>1. o \in Blocks
    BY <1>10, LastInChainTyped, CodeBlocksAssumption DEF update_from_clone
  <2>2. View(s)[o] \in Object
    BY <2>1, ViewTyped
  <2>3. Assign(s, b, [cached[s][b] EXCEPT !.body = View(s)[o].body], {"body"})
        /\ b \in Code(s) /\ loose' = loose \cup {b}
    BY <1>10 DEF update_from_clone
  <2> HIDE DEF o
  <2>4. [cached[s][b] EXCEPT !.body = View(s)[o].body] \in Object
    BY <1>2, <2>2, <2>3 DEF Object
  <2> QED
    BY <1>1, <1>3, <2>3, <2>4 DEF Fields
<1> QED
  BY <1>4, <1>5, <1>6, <1>7, <1>8, <1>9, <1>10 DEF Writing, Assigns

UpdatedBy(s) ==
  \E b \in Blocks, ob \in Object, names \in SUBSET Fields : update(s, b, ob, names)

\* A recovery leaves the command a command.
LEMMA RecoveryTyped ==
  ASSUME NEW p \in Command, NEW mode
  PROVE  GitFailureRecovery(p, mode) \in Command /\ Reassigned(p, mode) \subseteq Fields
<1>1. /\ p.ob \in Object /\ [p.ob EXCEPT !.git = "https"] \in Object
      /\ [p.ob EXCEPT !.git_branch = "main"] \in Object
  BY DEF Command, Object
<1>2. GitFailureRecovery(p, mode) \in Command
  <2>1. CASE p.use_ssh /\ mode = "ssh key"
    BY <1>1, <2>1 DEF GitFailureRecovery, Command
  <2>2. CASE p.use_ssh /\ mode = "no_upstream_branch"
    BY <1>1, <2>2 DEF GitFailureRecovery, Command
  <2>3. CASE ~(p.use_ssh /\ mode \in {"ssh key", "no_upstream_branch"})
    BY <2>3 DEF GitFailureRecovery, Command
  <2> QED
    BY <2>1, <2>2, <2>3
<1> QED
  BY <1>2 DEF Reassigned, Fields

\* The steps of a git command.
LEMMA GitTyped ==
  ASSUME TypeOK, JobLoaded, NEW s \in Sessions, Git(s)
  PROVE  TypeOK' /\ JobLoaded' /\ (UNCHANGED row \/ UpdatedBy(s))
<1>1. /\ Aside(s) => last' \in [by : Sessions \cup {None}, wob : Blocks \cup {None},
                                names : SUBSET Fields]
      /\ Counted => calls' \in 0 .. MaxCalls
  BY CodeBlocksAssumption DEF Aside, Meaning, Counted, TypeOK
<1>2. ASSUME NEW at, Running(s, at)
      PROVE  /\ pulled[s] \in Command /\ cached[s][Job] \in Object /\ Job \in Blocks
  BY <1>2, CodeBlocksAssumption DEF Running, TypeOK, JobLoaded
<1>3. ASSUME NEW at, Running(s, at), NEW to \in {"clone", "files", "reply"}, On(s, to)
      PROVE  /\ pulled' \in [Sessions -> Command \cup {None}]
             /\ \A u \in Sessions : pulled'[u] # None => pulled[u] # None
  <2>1. [pulled[s] EXCEPT !.at = to] \in Command
    BY <1>2, <1>3 DEF Command
  <2>2. pulled' = [pulled EXCEPT ![s] = [pulled[s] EXCEPT !.at = to]]
    BY <1>3 DEF On
  <2> QED
    BY <1>3, <2>1, <2>2 DEF TypeOK, Running
<1>4. SetUp(s) => snap' \in [Sessions -> [Blocks -> Object] \cup {None}]
  BY DEF SetUp, TypeOK
<1>5. ASSUME NEW at, Running(s, at), NEW mode, FailureModeHandler(s, mode)
      PROVE  /\ pulled' \in [Sessions -> Command \cup {None}]
             /\ \A u \in Sessions : pulled'[u] # None => pulled[u] # None
             /\ changed' \in [Sessions -> SUBSET Fields]
             /\ leftover' \subseteq Sessions
             /\ Aside(s) /\ UNCHANGED <<row, cached, remote, calls, loose>>
  <2>1. pulled' = [pulled EXCEPT ![s] = GitFailureRecovery(pulled[s], mode)]
    BY <1>5 DEF FailureModeHandler
  <2>2. GitFailureRecovery(pulled[s], mode) \in Command /\ Reassigned(pulled[s], mode) \subseteq Fields
    BY <1>2, <1>5, RecoveryTyped
  <2>3. /\ pulled' \in [Sessions -> Command \cup {None}]
        /\ \A u \in Sessions : pulled'[u] # None => pulled[u] # None
    BY <1>5, <2>1, <2>2 DEF TypeOK, Running
  <2> QED
    BY <1>5, <2>2, <2>3 DEF FailureModeHandler, TypeOK
<1>6. ASSUME NEW b \in Repositories, NEW mode \in {"soft", "pull", "push"}, git_clone(s, b, mode)
      PROVE  TypeOK' /\ JobLoaded' /\ UNCHANGED row
  <2>1. View(s)[b] \in Object
    BY ViewTyped, CodeBlocksAssumption
  <2>2. [wob |-> b, mode |-> mode, ob |-> View(s)[b], use_ssh |-> TRUE, at |-> "clone"] \in Command
    BY <2>1 DEF Command
  <2>3. pulled' \in [Sessions -> Command \cup {None}]
    BY <1>6, <2>2 DEF git_clone, TypeOK
  <2>4. snap' \in [Sessions -> [Blocks -> Object] \cup {None}]
    BY <1>6, ViewTyped DEF git_clone, Sees
  <2>5. JobLoaded'
    BY <1>6, CodeBlocksAssumption DEF git_clone, JobLoaded, TypeOK
  <2> QED
    BY <1>1, <1>6, <2>3, <2>4, <2>5 DEF git_clone, Called, TypeOK
<1>7. CASE git_clone_impl(s)
  BY <1>1, <1>3, <1>4, <1>7 DEF git_clone_impl, TypeOK, JobLoaded
<1>8. CASE CloneFails(s)
  BY <1>1, <1>4, <1>5, <1>8 DEF CloneFails, TypeOK, JobLoaded
<1>9. ASSUME NEW ob \in Object, update(s, Job, ob, {"body"}), cached' = [cached EXCEPT ![s][Job] = ob],
             pulled' \in [Sessions -> Command \cup {None}],
             \A u \in Sessions : pulled'[u] # None => pulled[u] # None,
             calls' \in 0 .. MaxCalls, UNCHANGED <<remote, tree>>, Unrecorded
      PROVE  TypeOK' /\ JobLoaded' /\ UpdatedBy(s)
  <2>1. Job \in Blocks /\ {"body"} \in SUBSET Fields
    BY CodeBlocksAssumption DEF Fields
  <2>2. cached' \in [Sessions -> [Blocks -> Object \cup {None}]]
    BY <1>9, <2>1 DEF TypeOK
  <2>3. JobLoaded'
    <3>1. ASSUME NEW u \in Sessions, pulled'[u] # None
          PROVE  cached'[u][Job] \in Object
      <4>1. u # s => cached'[u] = cached[u] /\ cached[u][Job] \in Object
        BY <1>9, <3>1 DEF JobLoaded, TypeOK
      <4>2. u = s => cached'[u][Job] = ob
        BY <1>9, <2>1 DEF TypeOK
      <4> QED
        BY <4>1, <4>2, <1>9
    <3> QED
      BY <3>1 DEF JobLoaded
  <2>4. UpdatedBy(s)
    BY <1>9, <2>1 DEF UpdatedBy
  <2> QED
    BY <1>9, <2>1, <2>2, <2>3, <2>4, UpdateEffect DEF TypeOK, Unrecorded
<1>10. CASE Ask_for_password(s)
  <2>1. PICK at : Running(s, at)
    BY <1>10 DEF Ask_for_password
  <2>2. [cached[s][Job] EXCEPT !.body = Ready] \in Object
    BY <1>2, <2>1 DEF Object, Contents, Ready
  <2>3. cached' = [cached EXCEPT ![s][Job] = [cached[s][Job] EXCEPT !.body = Ready]]
    BY <1>10 DEF Ask_for_password
  <2> QED
    BY <1>1, <1>9, <1>10, <2>2, <2>3 DEF Ask_for_password, TypeOK
<1>11. CASE Reply(s)
  <2>1. [cached[s][Job] EXCEPT !.body = Ready] \in Object
    BY <1>2, <1>11 DEF Reply, Object, Contents, Ready
  <2>2. cached' = [cached EXCEPT ![s][Job] = [cached[s][Job] EXCEPT !.body = Ready]]
    BY <1>11 DEF Reply
  <2>3. /\ pulled' \in [Sessions -> Command \cup {None}]
        /\ \A u \in Sessions : pulled'[u] # None => pulled[u] # None
    BY <1>11 DEF Reply, TypeOK
  <2> QED
    BY <1>9, <1>11, <2>1, <2>2, <2>3 DEF Reply, TypeOK
<1>12. ASSUME Running(s, "files")
       PROVE  /\ File(s)[1] \in Repositories /\ File(s)[2] \in Names
              /\ pulled[s].ob \in Object /\ pulled[s].ob.body \in Contents
              /\ Found(s) \in Contents
              /\ \A code \in Contents :
                   WriteFile(s, code) => tree' \in [Sessions -> [Repositories -> [Names -> Contents]]]
  <2>1. /\ File(s)[1] \in Repositories /\ File(s)[2] \in Names
        /\ pulled[s].ob \in Object /\ pulled[s].ob.body \in Contents
    BY <1>2, <1>12 DEF File, Command, Object
  <2>2. Found(s) \in Contents
    BY <2>1 DEF Found, TypeOK
  <2>3. ASSUME NEW code \in Contents, WriteFile(s, code)
        PROVE  tree' \in [Sessions -> [Repositories -> [Names -> Contents]]]
    BY <2>1, <2>3 DEF WriteFile, TypeOK
  <2> QED
    BY <2>1, <2>2, <2>3
<1>13. None \in Contents
  BY DEF Contents
<1>14. CASE git_push(s)
  <2>1. Running(s, "files") /\ On(s, "reply") /\ WriteFile(s, None)
    BY <1>14 DEF git_push, Pushing
  <2>2. remote' \in [Repositories -> [Names -> Contents]]
    BY <1>12, <1>14, <2>1 DEF git_push, TypeOK
  <2> QED
    BY <1>1, <1>3, <1>12, <1>13, <1>14, <2>1, <2>2 DEF git_push, TypeOK, JobLoaded
<1>15. CASE PushFails(s)
  <2>1. Running(s, "files") /\ tree' \in [Sessions -> [Repositories -> [Names -> Contents]]]
    BY <1>12, <1>15 DEF PushFails, Pushing
  <2>2. CASE On(s, "reply") /\ Aside(s)
             /\ UNCHANGED <<row, cached, changed, remote, calls, leftover, loose>>
    BY <1>1, <1>3, <1>15, <2>1, <2>2 DEF PushFails, TypeOK, JobLoaded
  <2>3. ASSUME NEW mode, FailureModeHandler(s, mode)
        PROVE  TypeOK' /\ JobLoaded' /\ UNCHANGED row
    BY <1>1, <1>5, <1>15, <2>1, <2>3 DEF PushFails, TypeOK, JobLoaded
  <2> QED
    BY <1>15, <2>2, <2>3 DEF PushFails
<1>16. CASE git_soft_pull(s)
  BY <1>1, <1>3, <1>16 DEF git_soft_pull, TypeOK, JobLoaded, Fields
<1>17. CASE git_pull(s)
  <2> DEFINE ob == [pulled[s].ob EXCEPT !.body = Found(s)]
  <2>1. Running(s, "files") /\ On(s, "reply")
    BY <1>17 DEF git_pull
  <2>2. ob \in Object
    BY <1>12, <2>1 DEF Object
  <2>3. write_diff(ob, Found(s)) \in Object /\ pulled[s].wob \in Blocks
        /\ {"body", "diffs"} \in SUBSET Fields
    <3> HIDE DEF ob
    <3> QED
      BY <1>2, <1>12, <2>1, <2>2, WriteDiffTyped, CodeBlocksAssumption DEF Command, Fields
  <2>4. update(s, pulled[s].wob, write_diff(ob, Found(s)), {"body", "diffs"})
    BY <1>17 DEF git_pull
  <2>5. /\ loose' = loose \cup {pulled[s].wob}
        /\ UNCHANGED <<cached, remote, tree, calls>>
    BY <1>17 DEF git_pull
  <2>6. /\ pulled' \in [Sessions -> Command \cup {None}]
        /\ \A u \in Sessions : pulled'[u] # None => pulled[u] # None
    BY <1>3, <2>1
  <2> HIDE DEF ob
  <2> QED
    BY <2>3, <2>4, <2>5, <2>6, UpdateEffect DEF TypeOK, JobLoaded, UpdatedBy
<1> QED
  BY <1>6, <1>7, <1>8, <1>10, <1>11, <1>14, <1>15, <1>16, <1>17
  DEF Git, git_clone_impl, CloneFails, FailureModeHandler

LEMMA LoadedTyped ==
  ASSUME TypeOK, NEW s \in Sessions, NEW body \in [Blocks -> Contents]
  PROVE  Loaded(s, body) \in [Blocks -> Object \cup {None}]
<1>1. ASSUME NEW b \in Blocks
      PROVE  [View(s)[b] EXCEPT !.body = body[b]] \in Object
  <2>1. View(s)[b] \in Object /\ body[b] \in Contents
    BY ViewTyped
  <2> QED
    BY <2>1 DEF Object
<1> QED
  BY <1>1 DEF Loaded

\* Every step of a session keeps the types, and what changes a row is the
\* update of an object of that session.
LEMMA StepTyped ==
  ASSUME TypeOK, JobLoaded, NEW s \in Sessions,
         Loading(s) \/ Writing(s) \/ (\E c \in Bodies : send_response(s, c)) \/ Git(s)
  PROVE  TypeOK' /\ JobLoaded' /\ (UNCHANGED row \/ UpdatedBy(s))
<1>1. /\ Aside(s) => last' \in [by : Sessions \cup {None}, wob : Blocks \cup {None},
                                names : SUBSET Fields]
      /\ Called(s) => calls' \in 0 .. MaxCalls /\ pulled[s] = None
  BY CodeBlocksAssumption DEF Aside, Meaning, Called, Counted, TypeOK
<1>2. ASSUME NEW body \in [Blocks -> Contents], Called(s), Sees(s), Aside(s),
             cached' = [cached EXCEPT ![s] = Loaded(s, body)],
             UNCHANGED <<row, pulled, changed, remote, tree, leftover, loose>>
      PROVE  TypeOK' /\ JobLoaded'
  <2>1. cached' \in [Sessions -> [Blocks -> Object \cup {None}]]
    BY <1>2, LoadedTyped DEF TypeOK
  <2>2. snap' \in [Sessions -> [Blocks -> Object] \cup {None}]
    BY <1>2, ViewTyped DEF Sees
  <2>3. JobLoaded'
    BY <1>1, <1>2 DEF JobLoaded, TypeOK
  <2> QED
    BY <1>1, <1>2, <2>1, <2>2, <2>3 DEF TypeOK
<1>3. CASE find_objects_by_metadata_ids(s)
  <2>1. [b \in Blocks |-> View(s)[b].body] \in [Blocks -> Contents]
    BY ViewTyped DEF Object
  <2> QED
    BY <1>2, <1>3, <2>1 DEF find_objects_by_metadata_ids
<1>4. CASE create_graph(s)
  <2> DEFINE Resolved == [b \in Blocks |->
               IF b \notin Subscribes THEN View(s)[b].body
               ELSE IF Original[b] \in create_view(s) THEN View(s)[Original[b]].body
               ELSE None]
  <2>1. Resolved \in [Blocks -> Contents]
    BY ViewTyped DEF Object, Contents
  <2>2. /\ Called(s) /\ Sees(s) /\ Aside(s)
        /\ cached' = [cached EXCEPT ![s] = Loaded(s, Resolved)]
        /\ UNCHANGED <<row, pulled, changed, remote, tree, leftover, loose>>
    BY <1>4 DEF create_graph
  <2> HIDE DEF Resolved
  <2> QED
    BY <1>2, <2>1, <2>2
<1>5. ASSUME NEW b \in Blocks, clone_object(s, b)
      PROVE  TypeOK' /\ JobLoaded' /\ UNCHANGED row
  <2>1. changed' \in [Sessions -> SUBSET Fields]
    BY <1>5 DEF clone_object, TypeOK, Fields
  <2> QED
    BY <1>1, <1>5, <2>1 DEF clone_object, TypeOK, JobLoaded
<1>6. ASSUME NEW b \in Blocks, NEW ob \in Object, NEW names \in SUBSET Fields,
             Assign(s, b, ob, names), loose' \subseteq Blocks
      PROVE  TypeOK' /\ JobLoaded' /\ UpdatedBy(s)
  BY <1>6, AssignTyped DEF Assign, UpdatedBy
<1>7. CASE Loading(s)
  BY <1>3, <1>4, <1>7 DEF Loading, find_objects_by_metadata_ids, create_graph
<1>8. CASE Writing(s) \/ (\E c \in Bodies : send_response(s, c))
  BY <1>5, <1>6, <1>8, WritingAssigns
<1> QED
  BY <1>7, <1>8, GitTyped

LEMMA InitTyped == Init => TypeOK /\ JobLoaded /\ ListEmpty
<1> SUFFICES ASSUME Init PROVE TypeOK /\ JobLoaded /\ ListEmpty
  OBVIOUS
<1>1. row \in [Blocks -> Object]
  BY CodeBlocksAssumption DEF Init, Object, Contents
<1>2. cached \in [Sessions -> [Blocks -> Object \cup {None}]]
  BY <1>1 DEF Init
<1>3. remote \in [Repositories -> [Names -> Contents]]
      /\ tree \in [Sessions -> [Repositories -> [Names -> Contents]]]
  BY DEF Init, Contents
<1>4. TypeOK
  <2>1. last \in [by : Sessions \cup {None}, wob : Blocks \cup {None}, names : SUBSET Fields]
    BY DEF Init
  <2>2. /\ snap \in [Sessions -> [Blocks -> Object] \cup {None}]
        /\ pulled \in [Sessions -> Command \cup {None}]
        /\ changed \in [Sessions -> SUBSET Fields]
    BY DEF Init
  <2>3. calls \in 0 .. MaxCalls /\ leftover \subseteq Sessions /\ loose \subseteq Blocks
    BY CodeBlocksAssumption DEF Init
  <2> QED
    BY <1>1, <1>2, <1>3, <2>1, <2>2, <2>3 DEF TypeOK
<1>5. JobLoaded /\ ListEmpty
  BY DEF Init, JobLoaded, ListEmpty
<1> QED
  BY <1>4, <1>5

\* The list of a process is empty unless something is left over.
LEMMA StepList ==
  ASSUME TypeOK, JobLoaded, ListEmpty, NEW s \in Sessions,
         Loading(s) \/ Writing(s) \/ (\E c \in Bodies : send_response(s, c)) \/ Git(s)
  PROVE  ListEmpty'
<1>1. ASSUME UNCHANGED <<changed, leftover>>
      PROVE  ListEmpty'
  BY <1>1 DEF ListEmpty
<1>2. ASSUME NEW names, changed' = [changed EXCEPT ![s] = @ \cup names],
             leftover' = leftover \cup {s} \/ (names = {} /\ leftover' = leftover)
      PROVE  ListEmpty'
  BY <1>2 DEF ListEmpty, TypeOK
<1>3. CASE Loading(s)
  BY <1>1, <1>3 DEF Loading, find_objects_by_metadata_ids, create_graph
<1>4. CASE Writing(s) \/ (\E c \in Bodies : send_response(s, c))
  <2>1. ASSUME NEW b \in Blocks, clone_object(s, b)
        PROVE  ListEmpty'
    BY <1>2, <2>1 DEF clone_object
  <2>2. ASSUME NEW b \in Blocks, NEW ob \in Object, NEW names \in SUBSET Fields,
               Assign(s, b, ob, names)
        PROVE  ListEmpty'
    BY <2>2, UpdateEffect DEF Assign
  <2> QED
    BY <1>4, <2>1, <2>2, WritingAssigns
<1>5. CASE Git(s)
  <2>1. ASSUME NEW b \in Blocks, NEW ob \in Object, NEW names \in SUBSET Fields,
               update(s, b, ob, names)
        PROVE  ListEmpty'
    BY <2>1, UpdateEffect
  <2>2. ASSUME NEW mode, FailureModeHandler(s, mode)
        PROVE  ListEmpty'
    BY <1>2, <2>2 DEF FailureModeHandler
  <2>3. CASE git_clone_impl(s) \/ git_push(s) \/ git_soft_pull(s)
    BY <1>1, <1>2, <2>3 DEF git_clone_impl, git_push, git_soft_pull
  <2>4. CASE CloneFails(s) \/ PushFails(s)
    BY <1>1, <2>2, <2>4 DEF CloneFails, PushFails
  <2>5. ASSUME NEW b \in Repositories, NEW mode \in {"soft", "pull", "push"}, git_clone(s, b, mode)
        PROVE  ListEmpty'
    BY <1>1, <2>5 DEF git_clone
  <2>6. CASE Ask_for_password(s) \/ git_pull(s) \/ Reply(s)
    <3>1. ASSUME NEW b, NEW ob, NEW names, update(s, b, ob, names)
          PROVE  ListEmpty'
      BY <3>1 DEF update, ListEmpty, TypeOK
    <3> QED
      BY <2>6, <3>1 DEF Ask_for_password, git_pull, Reply
  <2> QED
    BY <1>5, <2>3, <2>4, <2>5, <2>6 DEF Git
<1> QED
  BY <1>3, <1>4, <1>5

CodeBlocksInv == TypeOK /\ JobLoaded /\ ListEmpty

LEMMA CodeBlocksInvariant == Spec => []CodeBlocksInv
<1>1. CodeBlocksInv /\ [Next]_vars => CodeBlocksInv'
  <2> SUFFICES ASSUME CodeBlocksInv, [Next]_vars PROVE CodeBlocksInv'
    OBVIOUS
  <2>1. CASE UNCHANGED vars
    BY <2>1 DEF vars, CodeBlocksInv, TypeOK, JobLoaded, ListEmpty
  <2>2. CASE Next
    BY <2>2, StepTyped, StepList DEF Next, CodeBlocksInv
  <2> QED
    BY <2>1, <2>2
<1> QED
  BY <1>1, InitTyped, PTL DEF Spec, CodeBlocksInv

\* Objects in memory and rows, histories, the lists of changed fields, git
\* commands, repositories and working copies keep their types, for any
\* sessions, blocks and rights.
THEOREM TypeCorrect == Spec => []TypeOK
<1>1. CodeBlocksInv => TypeOK
  BY DEF CodeBlocksInv
<1> QED
  BY <1>1, CodeBlocksInvariant, PTL

\* A process with nothing left over changes no field of a row but those its
\* call assigns, however old the object it calls.
THEOREM OnlyNamedFields == Spec => NamedOnly
<1> DEFINE Named == \A b \in Blocks, f \in Fields : row'[b][f] # row[b][f] =>
                      (b = last'.wob /\ f \in last'.names) \/ last'.by \in leftover
<1>1. CodeBlocksInv /\ [Next]_vars => [Named]_vars
  <2> SUFFICES ASSUME CodeBlocksInv, Next PROVE Named
    OBVIOUS
  <2>1. PICK s \in Sessions : UNCHANGED row \/ UpdatedBy(s)
    BY StepTyped DEF Next, CodeBlocksInv
  <2>2. ASSUME NEW b \in Blocks, NEW ob \in Object, NEW names \in SUBSET Fields,
               update(s, b, ob, names)
        PROVE  Named
    <3>1. /\ last'.by = s /\ last'.wob = b /\ last'.names = names
          /\ \A c \in Blocks : row'[c] # row[c] => c = b
          /\ \A f \in Fields : row'[b][f] # row[b][f] => f \in changed[s] \cup names
      BY <2>2, UpdateEffect DEF CodeBlocksInv
    <3> QED
      BY <3>1 DEF CodeBlocksInv, ListEmpty
  <2> QED
    BY <2>1, <2>2 DEF UpdatedBy
<1> QED
  BY <1>1, CodeBlocksInvariant, PTL DEF Spec, NamedOnly

-----------------------------------------------------------------------------
(* Histories. *)

(* There is a body, and the differences lead back from it. *)
Coherent(ob) ==
  /\ ob.body # None
  /\ ob.diffs # <<>> => ob.diffs[1].to = ob.body
  /\ \A i \in 2 .. Len(ob.diffs) : ob.diffs[i].to = ob.diffs[i - 1].from

(* The blocks HistoryCoherent is about. *)
Recorded == Blocks \ (Subscribes \cup {Job} \cup loose)

(* The row of such a block is coherent, and so is every copy of it that a  *)
(* session reads or has loaded, of whatever age.                           *)
CopiesCoherent ==
  \A b \in Recorded :
    /\ Coherent(row[b])
    /\ \A s \in Sessions : /\ snap[s] # None => Coherent(snap[s][b])
                           /\ cached[s][b] # None => Coherent(cached[s][b])

(* What a failed update leaves in the list is a history with its body.     *)
BothListed == \A s \in Sessions : "diffs" \in changed[s] => "body" \in changed[s]

HistoryInv == CopiesCoherent /\ BothListed

\* Writing a difference keeps a history coherent, also when the oldest one
\* falls off its end.
LEMMA WriteDiffCoherent ==
  ASSUME NEW ob \in Object, NEW new \in Contents, new # None, Coherent(ob)
  PROVE  Coherent([write_diff(ob, new) EXCEPT !.body = new])
<1> DEFINE d == Difference(ob.body, new)
           seq == <<d>> \o ob.diffs
           cut == FirstN(seq, Kept)
           res == [write_diff(ob, new) EXCEPT !.body = new]
<1>1. d \in Diff /\ d.to = new /\ d.from = ob.body /\ ob.diffs \in Seq(Diff) /\ Kept \in Nat \ {0}
  BY CodeBlocksAssumption DEF Object, Difference, Diff
<1>2. CASE ob.body = None
  BY <1>2 DEF Coherent
<1>3. CASE ob.body # None
  <2>1. res.body = new /\ res.diffs = cut
    BY <1>3 DEF write_diff, Object
  <2>2. /\ seq \in Seq(Diff) /\ Len(seq) = Len(ob.diffs) + 1 /\ seq[1] = d
        /\ \A i \in 2 .. Len(seq) : seq[i] = ob.diffs[i - 1]
    <3> HIDE DEF d
    <3> QED
      BY <1>1, AddedDiffs
  <2>3. Len(ob.diffs) \in Nat
    BY <1>1
  <2> HIDE DEF d, seq
  <2>4. /\ Len(cut) = IF Len(seq) < Kept THEN Len(seq) ELSE Kept
        /\ \A i \in 1 .. Len(cut) : i \in 1 .. Len(seq) /\ cut[i] = seq[i]
    BY <1>1, <2>2, FirstNDiffs
  <2> HIDE DEF cut, res
  <2>5. Len(cut) \in Nat /\ Len(cut) >= 1
    BY <1>1, <2>2, <2>3, <2>4
  <2>6. cut[1].to = new
    BY <1>1, <2>2, <2>4, <2>5
  <2>7. ASSUME NEW i \in 2 .. Len(cut)
        PROVE  cut[i].to = cut[i - 1].from
    <3>1. /\ i \in 1 .. Len(cut) /\ i - 1 \in 1 .. Len(cut) /\ i \in 2 .. Len(seq)
          /\ i - 1 \in 1 .. Len(ob.diffs)
      BY <2>2, <2>3, <2>4, <2>5
    <3>2. cut[i] = ob.diffs[i - 1] /\ cut[i - 1] = seq[i - 1]
      BY <2>2, <2>4, <3>1
    <3>3. CASE i = 2
      <4>1. cut[i - 1].from = ob.body /\ cut[i] = ob.diffs[1] /\ ob.diffs # <<>>
        BY <1>1, <2>2, <3>1, <3>2, <3>3
      <4> QED
        BY <4>1 DEF Coherent
    <3>4. CASE i # 2
      <4>1. i - 1 \in 2 .. Len(seq) /\ i - 1 \in 2 .. Len(ob.diffs)
        BY <2>2, <2>3, <3>1, <3>4
      <4>2. cut[i - 1] = ob.diffs[i - 1 - 1]
        BY <2>2, <3>2, <4>1
      <4> QED
        BY <3>2, <4>1, <4>2 DEF Coherent
    <3> QED
      BY <3>3, <3>4
  <2> QED
    BY <2>1, <2>6, <2>7 DEF Coherent, res
<1> QED
  BY <1>2, <1>3

\* Reverting any number of steps of a coherent history gives back the body
\* from before them, and leaves the rest of the history coherent, if each of
\* the differences gives the old body back.
LEMMA RevertedCoherent ==
  ASSUME NEW ob \in Object, NEW steps \in 1 .. Len(ob.diffs), Coherent(ob),
         \A i \in 1 .. steps : Restorable(ob.diffs[i])
  PROVE  Reverted(ob, steps).body = ob.diffs[steps].from /\ Coherent(Reverted(ob, steps))
<1> DEFINE rest == SubSeq(ob.diffs, steps + 1, Len(ob.diffs))
<1>1. ob.diffs \in Seq(Diff) /\ Len(ob.diffs) \in Nat
  BY DEF Object
<1>2. PICK text \in [0 .. steps -> Contents] :
           /\ text[0] = ob.body
           /\ \A i \in 1 .. steps : text[i] = patch(text[i - 1], ob.diffs[i])
           /\ Reverted(ob, steps) = [ob EXCEPT !.body = text[steps], !.diffs = rest]
  BY RevertedUnfolds
<1>3. text[steps] = ob.diffs[steps].from /\ text[steps] # None
  <2> DEFINE S == {0} \cup {i \in 1 .. steps : text[i] = ob.diffs[i].from /\ text[i] # None}
  <2>1. ASSUME NEW i \in 1 .. steps, i - 1 \in S
        PROVE  i \in S
    <3>1. ob.diffs[i].to = text[i - 1]
      <4>1. CASE i = 1
        <5>1. ob.diffs # <<>>
          BY <1>1, <4>1
        <5> QED
          BY <1>2, <4>1, <5>1 DEF Coherent
      <4>2. CASE i # 1
        <5>1. i - 1 \in 1 .. steps /\ i \in 2 .. Len(ob.diffs)
          BY <1>1, <4>2
        <5>2. text[i - 1] = ob.diffs[i - 1].from
          BY <2>1, <4>2
        <5> QED
          BY <5>1, <5>2 DEF Coherent
      <4> QED
        BY <4>1, <4>2
    <3>2. text[i] = ob.diffs[i].from
      BY <1>2, <3>1 DEF patch
    <3>3. text[i - 1] # None => text[i] # None
      <4>1. /\ Restorable(ob.diffs[i]) /\ text[i] = patch(text[i - 1], ob.diffs[i])
            /\ \A x, y : <<x, y>> \in Restores => x # None
        BY <1>2, CodeBlocksAssumption
      <4> QED
        BY <3>1, <4>1 DEF patch, Restorable
    <3> QED
      BY <2>1, <3>2, <3>3
  <2>2. 0 .. steps \subseteq S
    <3>1. 0 \in S /\ steps \in Nat
      BY <1>1
    <3> HIDE DEF S
    <3> QED
      BY <2>1, <3>1, Induction
  <2> QED
    BY <1>1, <2>2
<1>4. /\ Len(rest) = Len(ob.diffs) - steps
      /\ \A i \in 1 .. Len(rest) : rest[i] = ob.diffs[steps + i]
  BY <1>1
<1>5. /\ Reverted(ob, steps).body = ob.diffs[steps].from /\ Reverted(ob, steps).diffs = rest
      /\ Reverted(ob, steps).body # None
  BY <1>2, <1>3 DEF Object
<1> HIDE DEF rest
<1>6. ASSUME rest # <<>>
      PROVE  rest[1].to = ob.diffs[steps].from
  <2>1. 1 \in 1 .. Len(rest)
    BY <1>1, <1>4, <1>6 DEF rest
  <2>2. steps + 1 \in 2 .. Len(ob.diffs) /\ rest[1] = ob.diffs[steps + 1]
    BY <1>1, <1>4, <2>1
  <2>3. ob.diffs[steps + 1].to = ob.diffs[steps + 1 - 1].from /\ steps + 1 - 1 = steps
    BY <1>1, <2>2 DEF Coherent
  <2> QED
    BY <2>2, <2>3
<1>7. ASSUME NEW i \in 2 .. Len(rest)
      PROVE  rest[i].to = rest[i - 1].from
  <2>1. /\ i \in 1 .. Len(rest) /\ i - 1 \in 1 .. Len(rest)
        /\ steps + i \in 2 .. Len(ob.diffs) /\ steps + i - 1 = steps + (i - 1)
    BY <1>1, <1>4
  <2>2. rest[i] = ob.diffs[steps + i] /\ rest[i - 1] = ob.diffs[steps + (i - 1)]
    BY <1>4, <2>1
  <2> QED
    BY <2>1, <2>2 DEF Coherent
<1> QED
  BY <1>5, <1>6, <1>7 DEF Coherent

\* A step that reads, and that writes coherent objects, keeps all copies so.
LEMMA HistoryKept ==
  ASSUME TypeOK, HistoryInv, NEW s \in Sessions, loose \subseteq loose',
         \A b \in Recorded' : Coherent(row'[b]),
         snap' \in {snap, [snap EXCEPT ![s] = View(s)], [snap EXCEPT ![s] = row],
                    [snap EXCEPT ![s] = None]},
         \A u \in Sessions \ {s} : cached'[u] = cached[u],
         \A b \in Recorded' : cached'[s][b] # None => Coherent(cached'[s][b]),
         BothListed'
  PROVE  HistoryInv'
<1>1. Recorded' \subseteq Recorded
  BY DEF Recorded
<1>2. ASSUME NEW b \in Recorded', NEW u \in Sessions, snap'[u] # None
      PROVE  Coherent(snap'[u][b])
  <2>1. b \in Recorded
    BY <1>1
  <2>2. Coherent(row[b]) /\ (snap[u] # None => Coherent(snap[u][b]))
    BY <2>1 DEF HistoryInv, CopiesCoherent
  <2>3. snap'[u] \in {snap[u], row, None}
    BY DEF TypeOK, View
  <2> QED
    BY <1>2, <2>2, <2>3
<1>3. ASSUME NEW b \in Recorded', NEW u \in Sessions, cached'[u][b] # None
      PROVE  Coherent(cached'[u][b])
  BY <1>1, <1>3 DEF HistoryInv, CopiesCoherent
<1> QED
  BY <1>2, <1>3 DEF HistoryInv, CopiesCoherent

\* An update writes a body with its history, or leaves the body as it is.
LEMMA UpdateCoherent ==
  ASSUME TypeOK, HistoryInv, NEW s \in Sessions, NEW b \in Blocks, NEW ob \in Object,
         NEW names \in SUBSET Fields, update(s, b, ob, names), loose \subseteq loose',
         b \in Recorded' => /\ Coherent(ob)
                            /\ \/ {"body", "diffs"} \subseteq names
                               \/ row'[b].body = row[b].body,
         "diffs" \in names => "body" \in names
  PROVE  /\ \A c \in Recorded' : Coherent(row'[c])
         /\ BothListed'
         /\ snap' \in {snap, [snap EXCEPT ![s] = None]}
<1> DEFINE list == changed[s] \cup names
           new == [f \in Fields |->
                     IF f \in list \cap Columns(b) \cap Given(ob) /\ b \in Writes[s]
                     THEN ob[f] ELSE row[b][f]]
<1>1. "diffs" \in list => "body" \in list
  BY DEF HistoryInv, BothListed
<1>2. Recorded' \subseteq Recorded /\ \A c \in Recorded : c \in Blocks /\ Coherent(row[c])
  BY DEF Recorded, HistoryInv, CopiesCoherent
<1>3. CASE /\ row' = sp_update(s, b, ob, list \cap Columns(b))
           /\ changed' = [changed EXCEPT ![s] = {}]
           /\ snap' = [snap EXCEPT ![s] = None]
  <2>1. row' = [row EXCEPT ![b] = new]
    BY <1>3 DEF sp_update
  <2>2. BothListed'
    BY <1>3 DEF HistoryInv, BothListed, TypeOK
  <2>3. ASSUME NEW c \in Recorded', c # b
        PROVE  Coherent(row'[c])
    <3>1. row'[c] = row[c]
      <4> HIDE DEF new
      <4> QED
        BY <1>2, <2>1, <2>3 DEF TypeOK
    <3> QED
      BY <1>2, <3>1
  <2>4. ASSUME b \in Recorded'
        PROVE  Coherent(row'[b])
    <3>1. Columns(b) = Fields /\ Coherent(ob) /\ Coherent(row[b])
      BY <1>2, <2>4 DEF Columns, Recorded
    <3>2. /\ row'[b].body = new["body"] /\ row'[b].diffs = new["diffs"]
      BY <2>1 DEF TypeOK, Fields
    <3>3. CASE {"body", "diffs"} \subseteq list /\ b \in Writes[s]
      BY <3>1, <3>2, <3>3 DEF Fields, Given, Coherent
    <3>4. CASE ~({"body", "diffs"} \subseteq list /\ b \in Writes[s])
      <4>1. row'[b].diffs = row[b].diffs
        BY <1>1, <3>2, <3>4 DEF Fields
      <4>2. row'[b].body = row[b].body
        BY <2>4, <3>2, <3>4 DEF Fields
      <4> QED
        BY <3>1, <4>1, <4>2 DEF Coherent
    <3> QED
      BY <3>3, <3>4
  <2> QED
    BY <1>3, <2>2, <2>3, <2>4
<1>4. CASE changed' = [changed EXCEPT ![s] = list] /\ UNCHANGED <<row, snap>>
  <2>1. BothListed'
    BY <1>1, <1>4 DEF HistoryInv, BothListed, TypeOK
  <2> QED
    BY <1>2, <1>4, <2>1
<1> QED
  BY <1>3, <1>4 DEF update

LEMMA AssignCoherent ==
  ASSUME TypeOK, HistoryInv, NEW s \in Sessions, NEW b \in Blocks, NEW ob \in Object,
         NEW names \in SUBSET Fields, Assign(s, b, ob, names), loose \subseteq loose',
         b \in Recorded' => /\ Coherent(ob)
                            /\ \/ {"body", "diffs"} \subseteq names
                               \/ row'[b].body = row[b].body,
         "diffs" \in names => "body" \in names
  PROVE  HistoryInv'
<1>1. update(s, b, ob, names) /\ cached' = [cached EXCEPT ![s][b] = ob]
  BY DEF Assign
<1>2. /\ \A c \in Recorded' : Coherent(row'[c])
      /\ BothListed'
      /\ snap' \in {snap, [snap EXCEPT ![s] = None]}
  BY <1>1, UpdateCoherent
<1>3. \A u \in Sessions \ {s} : cached'[u] = cached[u]
  BY <1>1
<1>4. ASSUME NEW c \in Recorded', cached'[s][c] # None
      PROVE  Coherent(cached'[s][c])
  <2>1. c \in Recorded /\ c \in Blocks
    BY DEF Recorded
  <2>2. c # b => cached'[s][c] = cached[s][c] /\ cached'[s][b] = ob
    BY <1>1, <2>1 DEF TypeOK
  <2>3. c = b => cached'[s][c] = ob
    BY <1>1, <2>1 DEF TypeOK
  <2> QED
    BY <1>4, <2>1, <2>2, <2>3 DEF HistoryInv, CopiesCoherent
<1> QED
  BY <1>2, <1>3, <1>4, HistoryKept

\* Edits and reverts record what they do; whatever else changes a body makes
\* the block one that does not count.
LEMMA WritingCoherent ==
  ASSUME TypeOK, HistoryInv, NEW s \in Sessions,
         Writing(s) \/ (\E c \in Bodies : send_response(s, c))
  PROVE  HistoryInv'
<1>1. ASSUME NEW b \in Code(s)
      PROVE  /\ b \in Blocks /\ cached[s][b] \in Object
             /\ b \in Recorded => Coherent(cached[s][b])
  BY DEF Code, TypeOK, HistoryInv, CopiesCoherent
<1>2. \A c \in Bodies : c \in Contents
  BY DEF Contents
<1>3. Recorded' \subseteq Blocks \ loose'
  BY DEF Recorded
<1>4. ASSUME Unrecorded
      PROVE  loose \subseteq loose' /\ \A b \in Recorded' : row'[b].body = row[b].body
  BY <1>4 DEF Unrecorded, Recorded
<1>5. ASSUME loose \subseteq loose'
      PROVE  Recorded' \subseteq Recorded
  BY <1>5 DEF Recorded
<1>6. ASSUME NEW b \in Blocks, NEW n \in Names, set_name(s, b, n)
      PROVE  HistoryInv'
  <2> DEFINE ob == [cached[s][b] EXCEPT !.name = n]
  <2>1. ob \in Object /\ (b \in Recorded => Coherent(ob))
    BY <1>1, <1>6 DEF set_name, Object, Coherent
  <2>2. Assign(s, b, ob, {"name"}) /\ Unrecorded
    BY <1>6 DEF set_name
  <2> HIDE DEF ob
  <2> QED
    BY <1>4, <1>5, <2>1, <2>2, AssignCoherent DEF Fields
<1>7. ASSUME NEW b \in Blocks, NEW c \in Bodies, rewrite_function(s, b, c)
      PROVE  HistoryInv'
  <2> DEFINE ob == [cached[s][b] EXCEPT !.body = c]
  <2>1. ob \in Object
    BY <1>1, <1>2, <1>7 DEF rewrite_function, Object
  <2>2. Assign(s, b, ob, {"body"}) /\ loose' = loose \cup {b}
    BY <1>7 DEF rewrite_function
  <2> HIDE DEF ob
  <2> QED
    BY <1>3, <2>1, <2>2, AssignCoherent DEF Fields
<1>8. ASSUME NEW b \in Blocks, NEW c \in Bodies, Edit(s, b, c)
      PROVE  HistoryInv'
  <2> DEFINE ob == [write_diff(cached[s][b], c) EXCEPT !.body = c]
  <2>1. ob \in Object /\ (b \in Recorded => Coherent(ob))
    BY <1>1, <1>2, <1>8, WriteDiffTyped, WriteDiffCoherent, CodeBlocksAssumption DEF Edit
  <2>2. Assign(s, b, ob, {"body", "diffs"}) /\ loose' = loose
    BY <1>8 DEF Edit
  <2> HIDE DEF ob
  <2> QED
    BY <1>5, <2>1, <2>2, AssignCoherent DEF Fields
<1>9. ASSUME NEW c \in Bodies, send_response(s, c)
      PROVE  HistoryInv'
  <2> DEFINE ob == [cached[s][Job] EXCEPT !.body = c]
  <2>1. Job \in Blocks /\ cached[s][Job] \in Object
    BY <1>9, CodeBlocksAssumption DEF send_response, TypeOK
  <2>2. ob \in Object
    BY <1>2, <2>1 DEF Object
  <2>3. Assign(s, Job, ob, {"body"}) /\ Unrecorded /\ Job \notin Recorded'
    BY <1>9 DEF send_response, Recorded
  <2> HIDE DEF ob
  <2> QED
    BY <1>4, <2>1, <2>2, <2>3, AssignCoherent DEF Fields
<1>10. ASSUME NEW b \in Blocks, delete_object(s, b)
       PROVE  HistoryInv'
  <2> DEFINE ob == [cached[s][b] EXCEPT !.deleted = TRUE]
  <2>1. ob \in Object /\ (b \in Recorded => Coherent(ob))
    BY <1>1, <1>10 DEF delete_object, Object, Coherent
  <2>2. Assign(s, b, ob, {"deleted"}) /\ Unrecorded
    BY <1>10 DEF delete_object
  <2> HIDE DEF ob
  <2> QED
    BY <1>4, <1>5, <2>1, <2>2, AssignCoherent DEF Fields
<1>11. ASSUME NEW b \in Blocks, clone_object(s, b)
       PROVE  HistoryInv'
  <2>1. /\ changed' = [changed EXCEPT ![s] = @ \cup {"name"}]
        /\ snap' = [snap EXCEPT ![s] = row]
        /\ UNCHANGED <<row, cached, loose>>
    BY <1>11 DEF clone_object
  <2>2. BothListed'
    BY <2>1 DEF HistoryInv, BothListed, TypeOK
  <2>3. Recorded' = Recorded
    BY <2>1 DEF Recorded
  <2> QED
    BY <2>1, <2>2, <2>3, HistoryKept DEF HistoryInv, CopiesCoherent
<1>12. ASSUME NEW b \in Blocks, NEW steps \in 1 .. Kept, revert(s, b, steps)
       PROVE  HistoryInv'
  <2>1. cached[s][b] \in Object /\ Len(cached[s][b].diffs) \in Nat
    BY <1>1, <1>12 DEF revert, Object
  <2>2. steps \in 1 .. Len(cached[s][b].diffs)
    BY <1>12, <2>1, CodeBlocksAssumption DEF revert
  <2>3. /\ Reverted(cached[s][b], steps) \in Object
        /\ b \in Recorded' => Coherent(Reverted(cached[s][b], steps))
    <3>1. CASE \A i \in 1 .. steps : Restorable(cached[s][b].diffs[i])
      <4>1. b \in Recorded' => b \in Recorded
        BY <1>12, <3>1 DEF revert, Recorded
      <4> QED
        BY <1>1, <1>12, <2>1, <2>2, <3>1, <4>1, RevertedTyped, RevertedCoherent DEF revert
    <3>2. CASE ~ \A i \in 1 .. steps : Restorable(cached[s][b].diffs[i])
      <4>1. b \notin Recorded'
        BY <1>3, <1>12, <3>2 DEF revert
      <4> QED
        BY <2>1, <2>2, <4>1, RevertedTyped
    <3> QED
      BY <3>1, <3>2
  <2>4. Assign(s, b, Reverted(cached[s][b], steps), {"body", "diffs"}) /\ loose \subseteq loose'
    BY <1>12 DEF revert
  <2> QED
    BY <1>5, <2>3, <2>4, AssignCoherent DEF Fields
<1>13. ASSUME NEW b \in Blocks, NEW chain \in BOOLEAN, update_from_clone(s, b, chain)
       PROVE  HistoryInv'
  <2> DEFINE o == IF chain THEN LastInChain(s, b) ELSE Original[b]
  <2>1. o \in Blocks
    BY <1>13, LastInChainTyped, CodeBlocksAssumption DEF update_from_clone
  <2>2. View(s)[o] \in Object
    BY <2>1, ViewTyped
  <2>3. Assign(s, b, [cached[s][b] EXCEPT !.body = View(s)[o].body], {"body"})
        /\ b \in Code(s) /\ loose' = loose \cup {b}
    BY <1>13 DEF update_from_clone
  <2> HIDE DEF o
  <2>4. [cached[s][b] EXCEPT !.body = View(s)[o].body] \in Object
    BY <1>1, <2>2, <2>3 DEF Object
  <2> QED
    BY <1>3, <2>3, <2>4, AssignCoherent DEF Fields
<1> QED
  BY <1>6, <1>7, <1>8, <1>9, <1>10, <1>11, <1>12, <1>13 DEF Writing

LEMMA LoadingCoherent ==
  ASSUME TypeOK, HistoryInv, NEW s \in Sessions, Loading(s)
  PROVE  HistoryInv'
<1>1. /\ UNCHANGED <<row, changed, loose>> /\ snap' = [snap EXCEPT ![s] = View(s)]
      /\ Recorded' = Recorded
  BY DEF Loading, find_objects_by_metadata_ids, create_graph, Sees, Recorded
<1>2. ASSUME NEW body, \A b \in Recorded : body[b] = View(s)[b].body,
             cached' = [cached EXCEPT ![s] = Loaded(s, body)],
             NEW b \in Recorded, cached'[s][b] # None
      PROVE  Coherent(cached'[s][b])
  <2>1. b \in Blocks /\ View(s)[b] \in Object /\ Coherent(View(s)[b])
    BY ViewTyped DEF Recorded, HistoryInv, CopiesCoherent, View
  <2>2. cached'[s][b] = [View(s)[b] EXCEPT !.body = body[b]]
    BY <1>2, <2>1 DEF Loaded, TypeOK
  <2>3. [View(s)[b] EXCEPT !.body = View(s)[b].body] = View(s)[b]
    BY <2>1 DEF Object
  <2> QED
    BY <1>2, <2>1, <2>2, <2>3
<1>3. ASSUME NEW body, \A b \in Recorded : body[b] = View(s)[b].body,
             cached' = [cached EXCEPT ![s] = Loaded(s, body)]
      PROVE  HistoryInv'
  <2>1. \A b \in Recorded' : cached'[s][b] # None => Coherent(cached'[s][b])
    BY <1>1, <1>2, <1>3
  <2>2. \A u \in Sessions \ {s} : cached'[u] = cached[u]
    BY <1>3
  <2>3. BothListed' /\ \A b \in Recorded' : Coherent(row'[b])
    BY <1>1 DEF HistoryInv, BothListed, CopiesCoherent
  <2> QED
    BY <1>1, <2>1, <2>2, <2>3, HistoryKept
<1>4. CASE find_objects_by_metadata_ids(s)
  <2> DEFINE body == [b \in Blocks |-> View(s)[b].body]
  <2>1. /\ \A b \in Recorded : body[b] = View(s)[b].body
        /\ cached' = [cached EXCEPT ![s] = Loaded(s, body)]
    BY <1>4 DEF find_objects_by_metadata_ids, Recorded
  <2> HIDE DEF body
  <2> QED
    BY <1>3, <2>1
<1>5. CASE create_graph(s)
  <2> DEFINE body == [b \in Blocks |->
               IF b \notin Subscribes THEN View(s)[b].body
               ELSE IF Original[b] \in create_view(s) THEN View(s)[Original[b]].body
               ELSE None]
  <2>1. /\ \A b \in Recorded : body[b] = View(s)[b].body
        /\ cached' = [cached EXCEPT ![s] = Loaded(s, body)]
    BY <1>5 DEF create_graph, Recorded
  <2> HIDE DEF body
  <2> QED
    BY <1>3, <2>1
<1> QED
  BY <1>4, <1>5 DEF Loading

LEMMA GitCoherent ==
  ASSUME TypeOK, JobLoaded, HistoryInv, NEW s \in Sessions, Git(s)
  PROVE  HistoryInv'
<1>1. ASSUME UNCHANGED <<row, cached, loose>>,
             snap' \in {snap, [snap EXCEPT ![s] = View(s)], [snap EXCEPT ![s] = row],
                        [snap EXCEPT ![s] = None]},
             NEW names, changed' = [changed EXCEPT ![s] = @ \cup names],
             "diffs" \in names => "body" \in names
      PROVE  HistoryInv'
  <2>1. BothListed'
    BY <1>1 DEF HistoryInv, BothListed, TypeOK
  <2>2. Recorded' = Recorded
    BY <1>1 DEF Recorded
  <2> QED
    BY <1>1, <2>1, <2>2, HistoryKept DEF HistoryInv, CopiesCoherent
<1>2. ASSUME UNCHANGED <<row, cached, loose, changed>>,
             snap' \in {snap, [snap EXCEPT ![s] = View(s)], [snap EXCEPT ![s] = row],
                        [snap EXCEPT ![s] = None]}
      PROVE  HistoryInv'
  <2>1. BothListed'
    BY <1>2 DEF HistoryInv, BothListed
  <2>2. Recorded' = Recorded
    BY <1>2 DEF Recorded
  <2> QED
    BY <1>2, <2>1, <2>2, HistoryKept DEF HistoryInv, CopiesCoherent
<1>3. ASSUME SetUp(s)
      PROVE  snap' \in {[snap EXCEPT ![s] = row], [snap EXCEPT ![s] = None]}
  BY <1>3 DEF SetUp
<1>4. ASSUME NEW mode, FailureModeHandler(s, mode), SetUp(s) \/ UNCHANGED snap
      PROVE  HistoryInv'
  <2>1. "diffs" \notin Reassigned(pulled[s], mode)
    BY DEF Reassigned
  <2>2. /\ changed' = [changed EXCEPT ![s] = @ \cup Reassigned(pulled[s], mode)]
        /\ UNCHANGED <<row, cached, loose>>
    BY <1>4 DEF FailureModeHandler
  <2> QED
    BY <1>1, <1>3, <1>4, <2>1, <2>2
<1>5. ASSUME NEW b \in Repositories, NEW mode \in {"soft", "pull", "push"}, git_clone(s, b, mode)
      PROVE  HistoryInv'
  <2>1. UNCHANGED <<row, cached, loose, changed>> /\ snap' = [snap EXCEPT ![s] = View(s)]
    BY <1>5 DEF git_clone, Sees
  <2> QED
    BY <1>2, <2>1
<1>6. CASE git_clone_impl(s) \/ git_push(s)
  <2>1. UNCHANGED <<row, cached, loose, changed>> /\ (SetUp(s) \/ UNCHANGED snap)
    BY <1>6 DEF git_clone_impl, git_push
  <2> QED
    BY <1>2, <1>3, <2>1
<1>7. CASE CloneFails(s)
  BY <1>4, <1>7 DEF CloneFails
<1>8. CASE PushFails(s)
  <2>1. CASE UNCHANGED <<row, cached, loose, changed>>
    BY <1>2, <1>8, <2>1 DEF PushFails
  <2>2. ASSUME NEW mode, FailureModeHandler(s, mode)
        PROVE  HistoryInv'
    BY <1>4, <1>8, <2>2 DEF PushFails
  <2> QED
    BY <1>8, <2>1, <2>2 DEF PushFails
<1>9. CASE git_soft_pull(s)
  <2>1. /\ changed' = [changed EXCEPT ![s] = @ \cup {"body"}]
        /\ UNCHANGED <<row, snap, cached, loose>>
    BY <1>9 DEF git_soft_pull
  <2> QED
    BY <1>1, <2>1
<1>10. ASSUME NEW ob \in Object, update(s, Job, ob, {"body"}),
              cached' = [cached EXCEPT ![s][Job] = ob], loose \subseteq loose'
       PROVE  HistoryInv'
  <2>1. Job \in Blocks /\ {"body"} \in SUBSET Fields /\ Job \notin Recorded'
    BY CodeBlocksAssumption DEF Fields, Recorded
  <2>2. /\ \A c \in Recorded' : Coherent(row'[c])
        /\ BothListed'
        /\ snap' \in {snap, [snap EXCEPT ![s] = None]}
    BY <1>10, <2>1, UpdateCoherent
  <2>3. \A b \in Recorded' : b \in Recorded /\ b \in Blocks /\ b # Job
    BY <1>10, <2>1 DEF Recorded
  <2>4. /\ \A u \in Sessions \ {s} : cached'[u] = cached[u]
        /\ \A b \in Recorded' : cached'[s][b] = cached[s][b]
    BY <1>10, <2>3 DEF TypeOK
  <2>5. \A b \in Recorded' : cached'[s][b] # None => Coherent(cached'[s][b])
    BY <2>3, <2>4 DEF HistoryInv, CopiesCoherent
  <2> QED
    BY <1>10, <2>2, <2>4, <2>5, HistoryKept
<1>11. CASE Ask_for_password(s) \/ Reply(s)
  <2> DEFINE ob == [cached[s][Job] EXCEPT !.body = Ready]
  <2>1. pulled[s] # None /\ cached[s][Job] \in Object
    BY <1>11 DEF Ask_for_password, Reply, Running, JobLoaded
  <2>2. ob \in Object
    BY <2>1 DEF Object, Contents, Ready
  <2>3. /\ update(s, Job, ob, {"body"}) /\ cached' = [cached EXCEPT ![s][Job] = ob]
        /\ loose \subseteq loose'
    BY <1>11 DEF Ask_for_password, Reply, Unrecorded
  <2> HIDE DEF ob
  <2> QED
    BY <1>10, <2>2, <2>3
<1>12. CASE git_pull(s)
  <2> DEFINE ob == [pulled[s].ob EXCEPT !.body = Found(s)]
  <2>1. Running(s, "files")
    BY <1>12 DEF git_pull
  <2>2. /\ pulled[s] \in Command /\ Found(s) \in Contents
    BY <2>1 DEF TypeOK, Running, Found, File, Command, Object
  <2>3. ob \in Object
    BY <2>2 DEF Command, Object
  <2>4. /\ update(s, pulled[s].wob, write_diff(ob, Found(s)), {"body", "diffs"})
        /\ loose' = loose \cup {pulled[s].wob} /\ cached' = cached
    BY <1>12 DEF git_pull
  <2> HIDE DEF ob
  <2>5. write_diff(ob, Found(s)) \in Object /\ pulled[s].wob \in Blocks
        /\ {"body", "diffs"} \in SUBSET Fields
    BY <2>2, <2>3, WriteDiffTyped, CodeBlocksAssumption DEF Command, Fields
  <2>6. pulled[s].wob \notin Recorded' /\ loose \subseteq loose' /\ Recorded' \subseteq Recorded
    BY <2>4 DEF Recorded
  <2>7. /\ \A c \in Recorded' : Coherent(row'[c])
        /\ BothListed'
        /\ snap' \in {snap, [snap EXCEPT ![s] = None]}
    BY <2>4, <2>5, <2>6, UpdateCoherent
  <2>8. \A b \in Recorded' : cached'[s][b] # None => Coherent(cached'[s][b])
    BY <2>4, <2>6 DEF HistoryInv, CopiesCoherent
  <2> QED
    BY <2>4, <2>6, <2>7, <2>8, HistoryKept
<1> QED
  BY <1>5, <1>6, <1>7, <1>8, <1>9, <1>11, <1>12 DEF Git

\* However many copies of a block are edited, reverted and written, of
\* whatever age, and whichever updates are refused: the differences of a block
\* lead back from its body one by one, for any number of sessions and any
\* length of history.
THEOREM HistoriesCoherent == Spec => []HistoryCoherent
<1>1. Init => HistoryInv
  <2> SUFFICES ASSUME Init PROVE HistoryInv
    OBVIOUS
  <2>1. \A b \in Blocks : row[b].diffs = <<>> /\ Coherent(row[b])
    BY CodeBlocksAssumption DEF Init, Coherent
  <2>2. \A s \in Sessions : \A b \in Blocks : cached[s][b] # None => cached[s][b] = row[b]
    BY DEF Init
  <2>3. \A s \in Sessions : snap[s] = None /\ changed[s] = {}
    BY DEF Init
  <2> QED
    BY <2>1, <2>2, <2>3 DEF HistoryInv, CopiesCoherent, BothListed, Recorded
<1>2. CodeBlocksInv /\ HistoryInv /\ [Next]_vars => HistoryInv'
  <2> SUFFICES ASSUME CodeBlocksInv, HistoryInv, [Next]_vars PROVE HistoryInv'
    OBVIOUS
  <2>1. CASE UNCHANGED vars
    BY <2>1 DEF vars, HistoryInv, CopiesCoherent, BothListed, Recorded
  <2>2. CASE Next
    BY <2>2, LoadingCoherent, WritingCoherent, GitCoherent DEF Next, CodeBlocksInv
  <2> QED
    BY <2>1, <2>2
<1>3. HistoryInv => HistoryCoherent
  BY DEF HistoryInv, CopiesCoherent, Coherent, Recorded, HistoryCoherent
<1> QED
  BY <1>1, <1>2, <1>3, CodeBlocksInvariant, PTL DEF Spec

=============================================================================
