--------------------------- MODULE Planner_proofs ---------------------------
(***************************************************************************)
(* Proofs about the execution planner, for any drawings and edits.         *)
(***************************************************************************)
EXTENDS Planner, FiniteSetTheorems, SequenceTheorems, WellFoundedInduction, TLAPS

-----------------------------------------------------------------------------
(* Induction, with sets for predicates, and recursive definitions. *)

\* Every non-empty set of natural numbers has a least element.
LEMMA Least ==
  ASSUME NEW T \in SUBSET Nat, T # {}
  PROVE  \E x \in T : \A y \in T : x <= y
<1>1. PICK x \in T : \A y \in T : ~ (<<y, x>> \in OpToRel(<,Nat))
  BY NatLessThanWellFounded, WFMin
<1>2. \A y \in T : y \in Nat /\ x \in Nat /\ ~(y < x)
  BY <1>1 DEF OpToRel
<1> QED
  BY <1>2

\* Induction over ranks.
LEMMA Ranked ==
  ASSUME NEW D, NEW rank \in [D -> Nat], NEW S,
         \A d \in D : (\A e \in D : rank[e] < rank[d] => e \in S) => d \in S
  PROVE  D \subseteq S
<1> SUFFICES ASSUME D \ S # {} PROVE FALSE
  OBVIOUS
<1> DEFINE T == {rank[d] : d \in D \ S}
<1>1. T \in SUBSET Nat /\ T # {}
  OBVIOUS
<1>2. PICK x \in T : \A y \in T : x <= y
  <2> HIDE DEF T
  <2> QED
    BY <1>1, Least
<1>3. PICK d \in D \ S : rank[d] = x
  OBVIOUS
<1>4. ASSUME NEW e \in D, rank[e] < rank[d] PROVE e \in S
  <2>1. rank[e] \in Nat /\ rank[d] \in Nat /\ ~(rank[d] <= rank[e])
    BY <1>4
  <2>2. rank[e] \notin T
    BY <1>2, <1>3, <2>1
  <2> QED
    BY <2>2
<1> QED
  BY <1>3, <1>4

LEMMA Induction ==
  ASSUME NEW n \in Nat, NEW S, 0 \in S, \A i \in 1..n : i - 1 \in S => i \in S
  PROVE  0..n \subseteq S
<1> DEFINE rank == [i \in 0..n |-> i]
<1>1. rank \in [0..n -> Nat]
  OBVIOUS
<1>2. ASSUME NEW d \in 0..n, \A e \in 0..n : rank[e] < rank[d] => e \in S PROVE d \in S
  <2>1. CASE d # 0
    <3>1. d \in 1..n /\ d - 1 \in 0..n /\ rank[d - 1] < rank[d]
      BY <2>1
    <3> QED
      BY <1>2, <3>1
  <2> QED
    BY <2>1
<1> HIDE DEF rank
<1>3. PICK D : D = 0..n
  OBVIOUS
<1>4. rank \in [D -> Nat] /\ \A d \in D : (\A e \in D : rank[e] < rank[d] => e \in S) => d \in S
  BY <1>1, <1>2, <1>3
<1>5. D \subseteq S
  BY <1>4, Ranked
<1> QED
  BY <1>3, <1>5

Recurs(f, n, a, next) == f[0] = a /\ \A i \in 1..n : f[i] = next[i][f[i - 1]]

\* A definition by recursion over 0..n has a function that satisfies it.
LEMMA Recursion ==
  ASSUME NEW n \in Nat, NEW X, NEW a \in X, NEW next \in [1..n -> [X -> X]]
  PROVE  \E f \in [0..n -> X] : Recurs(f, n, a, next)
<1> DEFINE Goes(f, k) == f[0] = a /\ \A i \in 1..k : f[i] = next[i][f[i - 1]]
           S == {k \in 0..n : \E f \in [0..k -> X] : Goes(f, k)}
<1>1. 0 \in S
  <2> DEFINE z == [i \in 0..0 |-> a]
  <2>1. z \in [0..0 -> X] /\ Goes(z, 0)
    OBVIOUS
  <2>2. \E f \in [0..0 -> X] : Goes(f, 0)
    <3> HIDE DEF z, Goes
    <3> QED
      BY <2>1, Zenon
  <2> QED
    BY <2>2
<1>2. ASSUME NEW k \in 1..n, k - 1 \in S PROVE k \in S
  <2>1. PICK f \in [0..(k - 1) -> X] : Goes(f, k - 1)
    BY <1>2
  <2> DEFINE g == [i \in 0..k |-> IF i = k THEN next[k][f[k - 1]] ELSE f[i]]
  <2>2. g \in [0..k -> X]
    OBVIOUS
  <2>3. g[0] = a
    BY <2>1
  <2>4. ASSUME NEW i \in 1..k PROVE g[i] = next[i][g[i - 1]]
    <3>1. i - 1 \in 0..(k - 1) /\ g[i - 1] = f[i - 1]
      OBVIOUS
    <3> QED
      BY <2>1, <3>1
  <2>5. Goes(g, k)
    BY <2>3, <2>4
  <2>6. \E h \in [0..k -> X] : Goes(h, k)
    <3> HIDE DEF g, Goes
    <3> QED
      BY <2>2, <2>5, Zenon
  <2>7. k \in 0..n
    OBVIOUS
  <2> QED
    BY <2>6, <2>7, Zenon
<1>3. 0..n \subseteq S
  <2> HIDE DEF S
  <2> QED
    BY <1>1, <1>2, Induction
<1> QED
  BY <1>3 DEF Recurs

-----------------------------------------------------------------------------
(* Lists. *)
Distinct(s) == \A i, j \in DOMAIN s : s[i] = s[j] => i = j

LEMMA ListType == ASSUME NEW X, NEW s \in Seq(X), NEW Y, ToSet(s) \subseteq Y PROVE s \in Seq(Y)
<1>1. Len(s) \in Nat /\ DOMAIN s = 1..Len(s) /\ s = [i \in 1..Len(s) |-> s[i]]
  OBVIOUS
<1>2. \A i \in 1..Len(s) : s[i] \in Y
  BY <1>1 DEF ToSet
<1> QED
  BY <1>1, <1>2

LEMMA Appended ==
  ASSUME NEW X, NEW s \in Seq(X), NEW x \in X
  PROVE  /\ Append(s, x) \in Seq(X) /\ ToSet(Append(s, x)) = ToSet(s) \cup {x}
         /\ Distinct(s) /\ x \notin ToSet(s) => Distinct(Append(s, x))
<1>1. /\ Append(s, x) \in Seq(X) /\ Len(s) \in Nat /\ DOMAIN s = 1..Len(s)
      /\ DOMAIN Append(s, x) = 1..(Len(s) + 1) /\ Append(s, x)[Len(s) + 1] = x
      /\ \A i \in 1..Len(s) : Append(s, x)[i] = s[i]
  OBVIOUS
<1> DEFINE q == Append(s, x)
<1> HIDE DEF q
<1>2. ToSet(q) = ToSet(s) \cup {x}
  <2>1. \A i \in DOMAIN q : i = Len(s) + 1 \/ i \in DOMAIN s
    BY <1>1 DEF q
  <2>2. \A i \in DOMAIN s : i \in DOMAIN q /\ q[i] = s[i]
    BY <1>1 DEF q
  <2>3. Len(s) + 1 \in DOMAIN q /\ q[Len(s) + 1] = x
    BY <1>1 DEF q
  <2> QED
    BY <2>1, <2>2, <2>3 DEF ToSet
<1>3. ASSUME Distinct(s), x \notin ToSet(s) PROVE Distinct(q)
  <2> SUFFICES ASSUME NEW i \in DOMAIN q, NEW j \in DOMAIN q, q[i] = q[j] PROVE i = j
    BY DEF Distinct
  <2>1. (i = Len(s) + 1 \/ i \in DOMAIN s) /\ (j = Len(s) + 1 \/ j \in DOMAIN s)
    BY <1>1 DEF q
  <2>2. q[Len(s) + 1] = x /\ \A k \in DOMAIN s : q[k] = s[k] /\ s[k] # x
    BY <1>1, <1>3 DEF q, ToSet
  <2> QED
    BY <1>3, <2>1, <2>2 DEF Distinct
<1> QED
  BY <1>1, <1>2, <1>3 DEF q

LEMMA Joined ==
  ASSUME NEW X, NEW s \in Seq(X), NEW t \in Seq(X)
  PROVE  /\ s \o t \in Seq(X) /\ ToSet(s \o t) = ToSet(s) \cup ToSet(t)
         /\ Distinct(s) /\ Distinct(t) /\ ToSet(s) \cap ToSet(t) = {} => Distinct(s \o t)
<1> DEFINE q == s \o t
<1>1. /\ q \in Seq(X) /\ Len(s) \in Nat /\ Len(t) \in Nat /\ DOMAIN s = 1..Len(s) /\ DOMAIN t = 1..Len(t)
      /\ DOMAIN q = 1..(Len(s) + Len(t))
      /\ \A i \in 1..Len(s) : q[i] = s[i]
      /\ \A i \in 1..Len(t) : q[Len(s) + i] = t[i]
  OBVIOUS
<1> HIDE DEF q
<1>2. \A i \in DOMAIN q : i \in DOMAIN s \/ (i - Len(s) \in DOMAIN t /\ i = Len(s) + (i - Len(s)))
  BY <1>1
<1>3. \A i \in DOMAIN s : i \in DOMAIN q /\ q[i] = s[i]
  BY <1>1
<1>4. \A i \in DOMAIN t : Len(s) + i \in DOMAIN q /\ q[Len(s) + i] = t[i]
  BY <1>1
<1>5. ToSet(q) = ToSet(s) \cup ToSet(t)
  <2>1. ASSUME NEW i \in DOMAIN q PROVE q[i] \in ToSet(s) \cup ToSet(t)
    BY <1>2, <1>3, <1>4 DEF ToSet
  <2>2. ToSet(s) \subseteq ToSet(q) /\ ToSet(t) \subseteq ToSet(q)
    BY <1>3, <1>4 DEF ToSet
  <2> QED
    BY <2>1, <2>2 DEF ToSet
<1>6. ASSUME Distinct(s), Distinct(t), ToSet(s) \cap ToSet(t) = {} PROVE Distinct(q)
  <2> SUFFICES ASSUME NEW i \in DOMAIN q, NEW j \in DOMAIN q, q[i] = q[j] PROVE i = j
    BY DEF Distinct
  <2>1. \A k \in DOMAIN s, l \in DOMAIN t : s[k] # t[l]
    BY <1>6 DEF ToSet
  <2>2. CASE i \in DOMAIN s /\ j \in DOMAIN s
    BY <1>3, <1>6, <2>2 DEF Distinct
  <2>3. CASE i \in DOMAIN s /\ j \notin DOMAIN s
    <3>1. j - Len(s) \in DOMAIN t /\ q[j] = t[j - Len(s)] /\ q[i] = s[i]
      BY <1>2, <1>3, <1>4, <2>3
    <3> QED
      BY <2>1, <2>3, <3>1
  <2>4. CASE i \notin DOMAIN s /\ j \in DOMAIN s
    <3>1. i - Len(s) \in DOMAIN t /\ q[i] = t[i - Len(s)] /\ q[j] = s[j]
      BY <1>2, <1>3, <1>4, <2>4
    <3> QED
      BY <2>1, <2>4, <3>1
  <2>5. CASE i \notin DOMAIN s /\ j \notin DOMAIN s
    <3>1. i - Len(s) \in DOMAIN t /\ q[i] = t[i - Len(s)] /\ j - Len(s) \in DOMAIN t /\ q[j] = t[j - Len(s)]
      BY <1>2, <1>4, <2>5
    <3>2. i - Len(s) = j - Len(s)
      BY <1>6, <3>1 DEF Distinct
    <3> QED
      BY <1>1, <3>2
  <2> QED
    BY <2>2, <2>3, <2>4, <2>5
<1> QED
  BY <1>1, <1>5, <1>6 DEF q

\* What Only gives of a list.
LEMMA OnlyIs ==
  ASSUME NEW X, NEW s \in Seq(X), NEW S
  PROVE  /\ Only(s, S) \in Seq(X) /\ ToSet(Only(s, S)) = ToSet(s) \cap S
         /\ Distinct(s) => Distinct(Only(s, S))
<1> DEFINE n == Len(s)
           upto[i \in 0..Len(s)] ==
             IF i = 0 THEN <<>> ELSE IF s[i] \in S THEN Append(upto[i - 1], s[i]) ELSE upto[i - 1]
           next == [i \in 1..n |-> [q \in Seq(X) |-> IF s[i] \in S THEN Append(q, s[i]) ELSE q]]
           First(k) == {s[i] : i \in 1..k}
<1>1. n \in Nat /\ <<>> \in Seq(X) /\ next \in [1..n -> [Seq(X) -> Seq(X)]] /\ DOMAIN s = 1..n
      /\ \A i \in 1..n : s[i] \in X
  OBVIOUS
<1>2. PICK f \in [0..n -> Seq(X)] : f[0] = <<>> /\ \A i \in 1..n : f[i] = next[i][f[i - 1]]
  <2>1. PICK Y, a, m, nx : Y = Seq(X) /\ a = <<>> /\ m = n /\ nx = next
    OBVIOUS
  <2>2. m \in Nat /\ a \in Y /\ nx \in [1..m -> [Y -> Y]]
    BY <1>1, <2>1
  <2>3. \E f \in [0..m -> Y] : Recurs(f, m, a, nx)
    BY <2>2, Recursion
  <2> QED
    BY <2>1, <2>3 DEF Recurs
<1>3. f = [i \in 0..Len(s) |->
             IF i = 0 THEN <<>> ELSE IF s[i] \in S THEN Append(f[i - 1], s[i]) ELSE f[i - 1]]
  <2>1. ASSUME NEW i \in 1..n PROVE f[i] = IF s[i] \in S THEN Append(f[i - 1], s[i]) ELSE f[i - 1]
    <3>1. i - 1 \in 0..n /\ f[i - 1] \in Seq(X)
      BY <1>1
    <3> QED
      BY <1>2, <3>1
  <2>2. \A i \in 0..n : i # 0 => i \in 1..n
    BY <1>1
  <2> HIDE DEF next
  <2> QED
    BY <1>2, <2>1, <2>2
<1>4. upto = [i \in 0..Len(s) |->
                IF i = 0 THEN <<>> ELSE IF s[i] \in S THEN Append(upto[i - 1], s[i]) ELSE upto[i - 1]]
  BY <1>3, Zenon
<1>5. Only(s, S) = upto[n]
  BY Zenon DEF Only
<1> HIDE DEF upto, next
<1> DEFINE Good(k) == /\ upto[k] \in Seq(X) /\ ToSet(upto[k]) = First(k) \cap S
                      /\ Distinct(s) => Distinct(upto[k])
           T == {k \in 0..n : Good(k)}
<1>6. 0 \in T
  <2>1. upto[0] = <<>> /\ First(0) = {} /\ 0 \in 0..n
    BY <1>1, <1>4
  <2>2. ToSet(<<>>) = {} /\ Distinct(<<>>) /\ <<>> \in Seq(X)
    BY DEF ToSet, Distinct
  <2> HIDE DEF n, First
  <2> QED
    BY <2>1, <2>2
<1>7. ASSUME NEW k \in 1..n, k - 1 \in T PROVE k \in T
  <2>1. k \in 0..n /\ k - 1 \in 0..n /\ k # 0
    BY <1>1
  <2>2. upto[k] = IF s[k] \in S THEN Append(upto[k - 1], s[k]) ELSE upto[k - 1]
    BY <1>4, <2>1
  <2>3. First(k) = First(k - 1) \cup {s[k]} /\ s[k] \in X
    <3>1. \A i \in 1..k : i \in 1..(k - 1) \/ i = k
      OBVIOUS
    <3>2. \A i \in 1..(k - 1) : i \in 1..k
      OBVIOUS
    <3> QED
      BY <1>1, <3>1, <3>2
  <2>4. Distinct(s) => s[k] \notin First(k - 1)
    <3>1. \A i \in 1..(k - 1) : i # k /\ i \in DOMAIN s
      BY <1>1
    <3> QED
      BY <1>1, <3>1 DEF Distinct
  <2>5. Good(k - 1)
    BY <1>7
  <2> HIDE DEF First, n
  <2>6. CASE s[k] \in S
    <3>1. PICK q, x : q = upto[k - 1] /\ x = s[k]
      OBVIOUS
    <3>2. q \in Seq(X) /\ x \in X
      BY <2>3, <2>5, <3>1
    <3>3. /\ Append(q, x) \in Seq(X) /\ ToSet(Append(q, x)) = ToSet(q) \cup {x}
          /\ Distinct(q) /\ x \notin ToSet(q) => Distinct(Append(q, x))
      BY <3>2, Appended
    <3>4. upto[k] = Append(q, x)
      BY <2>2, <2>6, <3>1
    <3>5. Good(k)
      BY <2>3, <2>4, <2>5, <2>6, <3>1, <3>3, <3>4
    <3> QED
      BY <2>1, <3>5
  <2>7. CASE s[k] \notin S
    BY <2>2, <2>3, <2>5, <2>7
  <2> QED
    BY <2>1, <2>6, <2>7
<1>8. Good(n)
  <2>1. 0..n \subseteq T /\ n \in 0..n
    <3>1. PICK m : m = n
      OBVIOUS
    <3>2. m \in Nat /\ 0 \in T /\ \A k \in 1..m : k - 1 \in T => k \in T
      BY <1>1, <1>6, <1>7, <3>1
    <3> HIDE DEF T, n
    <3>3. 0..m \subseteq T
      BY <3>2, Induction
    <3> QED
      BY <1>1, <3>1, <3>3
  <2> QED
    BY <2>1
<1>9. First(n) = ToSet(s)
  BY <1>1 DEF ToSet
<1> HIDE DEF First, n
<1> QED
  BY <1>5, <1>8, <1>9

-----------------------------------------------------------------------------
(* Graphs. *)

Keeps(E, W) == \A a \in E : a[1] \in W => a[2] \in W

\* What can be reached is the least closed set.
LEMMA ClosureIs ==
  ASSUME NEW E, NEW X, IsFiniteSet(X \cup {a[2] : a \in E})
  PROVE  /\ X \subseteq Closure(E, X) /\ Closure(E, X) \subseteq X \cup {a[2] : a \in E}
         /\ Keeps(E, Closure(E, X))
         /\ \A W : X \subseteq W /\ Keeps(E, W) => Closure(E, X) \subseteq W
<1> DEFINE U == X \cup {a[2] : a \in E}
           after(Y) == Y \cup {a[2] : a \in {b \in E : b[1] \in Y}}
           grow[Y \in SUBSET (X \cup {a[2] : a \in E})] ==
             LET Z == Y \cup {a[2] : a \in {b \in E : b[1] \in Y}}
             IN  IF Z = Y THEN Y ELSE grow[Z]
           Hull(Y) == {y \in U : \A W \in SUBSET U : Keeps(E, W) /\ Y \subseteq W => y \in W}
           m == [Y \in SUBSET U |-> Hull(Y)]
<1>1. ASSUME NEW Y \in SUBSET U
      PROVE  /\ after(Y) \in SUBSET U /\ Y \subseteq after(Y)
             /\ Keeps(E, Y) <=> after(Y) = Y
             /\ \A W : Keeps(E, W) /\ Y \subseteq W => after(Y) \subseteq W
  BY DEF Keeps
<1> HIDE DEF after
<1>2. ASSUME NEW Y \in SUBSET U PROVE m[Y] = IF after(Y) = Y THEN Y ELSE m[after(Y)]
  <2>1. CASE after(Y) = Y
    <3>1. Keeps(E, Y)
      BY <1>1, <2>1
    <3>2. Hull(Y) = Y
      BY <3>1
    <3> QED
      BY <2>1, <3>2
  <2>2. CASE after(Y) # Y
    <3>1. Hull(after(Y)) = Hull(Y)
      <4>1. \A W \in SUBSET U : Keeps(E, W) => (Y \subseteq W <=> after(Y) \subseteq W)
        BY <1>1
      <4> QED
        BY <4>1
    <3> QED
      BY <1>1, <2>2, <3>1
  <2> QED
    BY <2>1, <2>2
<1>3. m = [Y \in SUBSET (X \cup {a[2] : a \in E}) |->
             LET Z == Y \cup {a[2] : a \in {b \in E : b[1] \in Y}}
             IN  IF Z = Y THEN Y ELSE m[Z]]
  <2>1. ASSUME NEW Y \in SUBSET U
        PROVE  m[Y] = LET Z == Y \cup {a[2] : a \in {b \in E : b[1] \in Y}}
                      IN  IF Z = Y THEN Y ELSE m[Z]
    BY <1>2 DEF after
  <2>2. m = [Y \in SUBSET U |-> m[Y]]
    OBVIOUS
  <2> HIDE DEF m
  <2> QED
    BY <2>1, <2>2
<1>4. grow = [Y \in SUBSET (X \cup {a[2] : a \in E}) |->
                LET Z == Y \cup {a[2] : a \in {b \in E : b[1] \in Y}}
                IN  IF Z = Y THEN Y ELSE grow[Z]]
  <2> HIDE DEF m
  <2> QED
    BY <1>3, Zenon
<1>5. Closure(E, X) = grow[X]
  BY Zenon DEF Closure
<1> HIDE DEF grow
<1>6. \A Y \in SUBSET U : grow[Y] = IF after(Y) = Y THEN Y ELSE grow[after(Y)]
  BY <1>4 DEF after
<1> HIDE DEF m
<1> DEFINE D == SUBSET U
           rank == [Y \in D |-> Cardinality(U \ Y)]
           S == {Y \in D : grow[Y] = m[Y]}
<1>7. \A Y \in D : IsFiniteSet(U \ Y) /\ Cardinality(U \ Y) \in Nat
  <2> TAKE Y \in D
  <2>1. U \ Y \in SUBSET U
    OBVIOUS
  <2> QED
    BY <2>1, FS_Subset, FS_CardinalityType
<1>8. ASSUME NEW Y \in D, \A e \in D : rank[e] < rank[Y] => e \in S PROVE Y \in S
  <2>1. CASE after(Y) = Y
    BY <1>2, <1>6, <2>1
  <2>2. CASE after(Y) # Y
    <3>1. after(Y) \in D /\ U \ after(Y) \in SUBSET (U \ Y) /\ U \ after(Y) # U \ Y
      BY <1>1, <2>2
    <3>2. Cardinality(U \ after(Y)) < Cardinality(U \ Y)
      <4>1. PICK A, B : A = U \ after(Y) /\ B = U \ Y
        OBVIOUS
      <4>2. IsFiniteSet(A) /\ IsFiniteSet(B) /\ Cardinality(A) \in Nat /\ Cardinality(B) \in Nat /\ A \in SUBSET B /\ A # B
        BY <1>7, <3>1, <4>1
      <4>3. Cardinality(A) < Cardinality(B)
        BY <4>2, FS_Subset
      <4> QED
        BY <4>1, <4>3
    <3>3. after(Y) \in S
      BY <1>8, <3>1, <3>2
    <3> QED
      BY <1>2, <1>6, <2>2, <3>3
  <2> QED
    BY <2>1, <2>2
<1>9. D \subseteq S
  <2>1. rank \in [D -> Nat]
    BY <1>7
  <2> HIDE DEF D, rank, S
  <2> QED
    BY <1>8, <2>1, Ranked
<1>10. Closure(E, X) = Hull(X)
  <2>1. X \in D
    OBVIOUS
  <2>2. grow[X] = m[X]
    BY <1>9, <2>1
  <2> QED
    BY <1>5, <2>1, <2>2 DEF m
<1>11. X \subseteq Hull(X) /\ Hull(X) \subseteq U
  OBVIOUS
<1>12. Keeps(E, Hull(X))
  BY DEF Keeps
<1>13. ASSUME NEW W, X \subseteq W, Keeps(E, W) PROVE Hull(X) \subseteq W
  <2>1. W \cap U \in SUBSET U /\ Keeps(E, W \cap U) /\ X \subseteq W \cap U
    BY <1>13 DEF Keeps
  <2> QED
    BY <2>1
<1> HIDE DEF Hull
<1> QED
  BY <1>10, <1>11, <1>12, <1>13

IsGraph(H, B) ==
  /\ H = [nodes |-> H.nodes, edges |-> H.edges, fieldEdges |-> H.fieldEdges,
          carriers |-> H.carriers, receivers |-> H.receivers]
  /\ H.nodes \in Seq(B) /\ H.edges \in Seq(B \X B)

\* No node and no edge is listed twice, and edges are between nodes.
Simple(H) ==
  /\ Distinct(H.nodes) /\ Distinct(H.edges)
  /\ EdgeSet(H) \subseteq NodeSet(H) \X NodeSet(H) /\ H.fieldEdges \subseteq EdgeSet(H)

LEMMA SubgraphIs ==
  ASSUME NEW B, NEW H, IsGraph(H, B), NEW S
  PROVE  /\ IsGraph(subgraph(H, S), B) /\ NodeSet(subgraph(H, S)) = NodeSet(H) \cap S
         /\ EdgeSet(subgraph(H, S)) = EdgeSet(H) \cap (S \X S)
         /\ subgraph(H, S).fieldEdges = H.fieldEdges \cap (S \X S)
         /\ subgraph(H, S).receivers = H.receivers
         /\ Simple(H) => Simple(subgraph(H, S))
<1> DEFINE K == subgraph(H, S)
<1>1. K = [nodes |-> Only(H.nodes, S), edges |-> Only(H.edges, S \X S),
           fieldEdges |-> H.fieldEdges \cap (S \X S), carriers |-> H.carriers, receivers |-> H.receivers]
  <2>1. PICK nodes, edges, fieldEdges, carriers, receivers :
          H = [nodes |-> nodes, edges |-> edges, fieldEdges |-> fieldEdges,
               carriers |-> carriers, receivers |-> receivers]
    BY DEF IsGraph
  <2>2. PICK x, y, z : x = Only(H.nodes, S) /\ y = Only(H.edges, S \X S) /\ z = H.fieldEdges \cap (S \X S)
    OBVIOUS
  <2>3. K = [[[H EXCEPT !.nodes = x] EXCEPT !.edges = y] EXCEPT !.fieldEdges = z]
    BY <2>1, <2>2 DEF subgraph
  <2>4. K = [nodes |-> x, edges |-> y, fieldEdges |-> z, carriers |-> H.carriers, receivers |-> H.receivers]
    BY <2>1, <2>3
  <2> QED
    BY <2>2, <2>4
<1> HIDE DEF K
<1>2. /\ K.nodes = Only(H.nodes, S) /\ K.edges = Only(H.edges, S \X S)
      /\ K.fieldEdges = H.fieldEdges \cap (S \X S) /\ K.receivers = H.receivers
  BY <1>1
<1>3. H.nodes \in Seq(B) /\ H.edges \in Seq(B \X B)
  BY DEF IsGraph
<1>4. K.nodes \in Seq(B) /\ NodeSet(K) = NodeSet(H) \cap S /\ (Distinct(H.nodes) => Distinct(K.nodes))
  BY <1>2, <1>3, OnlyIs DEF NodeSet
<1>5. K.edges \in Seq(B \X B) /\ EdgeSet(K) = EdgeSet(H) \cap (S \X S) /\ (Distinct(H.edges) => Distinct(K.edges))
  <2>1. PICK C, T : C = B \X B /\ T = S \X S
    OBVIOUS
  <2>2. /\ Only(H.edges, T) \in Seq(C) /\ ToSet(Only(H.edges, T)) = ToSet(H.edges) \cap T
        /\ Distinct(H.edges) => Distinct(Only(H.edges, T))
    BY <1>3, <2>1, OnlyIs
  <2> QED
    BY <1>2, <2>1, <2>2 DEF EdgeSet
<1>6. IsGraph(K, B)
  <2>1. K = [nodes |-> K.nodes, edges |-> K.edges, fieldEdges |-> K.fieldEdges,
             carriers |-> K.carriers, receivers |-> K.receivers]
    BY <1>1
  <2> QED
    BY <1>4, <1>5, <2>1 DEF IsGraph
<1>7. Simple(H) => Simple(K)
  BY <1>2, <1>4, <1>5 DEF Simple
<1> QED
  BY <1>2, <1>4, <1>5, <1>6, <1>7 DEF K

\* The first components of a list of pairs.
LEMMA Firsts ==
  ASSUME NEW B, NEW s \in Seq(B \X B), NEW n, \A a \in ToSet(s) : a[2] = n
  PROVE  /\ [i \in DOMAIN s |-> s[i][1]] \in Seq(B)
         /\ ToSet([i \in DOMAIN s |-> s[i][1]]) = {a[1] : a \in ToSet(s)}
         /\ Distinct(s) => Distinct([i \in DOMAIN s |-> s[i][1]])
<1>1. Len(s) \in Nat /\ DOMAIN s = 1..Len(s) /\ \A i \in DOMAIN s : s[i] \in B \X B
  OBVIOUS
<1>2. \A i \in DOMAIN s : s[i] = <<s[i][1], s[i][2]>> /\ s[i][1] \in B /\ s[i][2] \in B
  BY <1>1
<1> DEFINE q == [i \in DOMAIN s |-> s[i][1]]
<1>3. q \in Seq(B)
  BY <1>1, <1>2
<1>4. ToSet(q) = {a[1] : a \in ToSet(s)}
  BY DEF ToSet
<1>5. ASSUME Distinct(s) PROVE Distinct(q)
  <2> SUFFICES ASSUME NEW i \in DOMAIN s, NEW j \in DOMAIN s, s[i][1] = s[j][1] PROVE i = j
    BY DEF Distinct
  <2>1. s[i][2] = n /\ s[j][2] = n
    BY DEF ToSet
  <2> QED
    BY <1>2, <1>5, <2>1 DEF Distinct
<1> QED
  BY <1>3, <1>4, <1>5

\* The second components of a list of pairs.
LEMMA Seconds ==
  ASSUME NEW B, NEW s \in Seq(B \X B), NEW n, \A a \in ToSet(s) : a[1] = n
  PROVE  /\ [i \in DOMAIN s |-> s[i][2]] \in Seq(B)
         /\ ToSet([i \in DOMAIN s |-> s[i][2]]) = {a[2] : a \in ToSet(s)}
         /\ Distinct(s) => Distinct([i \in DOMAIN s |-> s[i][2]])
<1>1. Len(s) \in Nat /\ DOMAIN s = 1..Len(s) /\ \A i \in DOMAIN s : s[i] \in B \X B
  OBVIOUS
<1>2. \A i \in DOMAIN s : s[i] = <<s[i][1], s[i][2]>> /\ s[i][1] \in B /\ s[i][2] \in B
  BY <1>1
<1> DEFINE q == [i \in DOMAIN s |-> s[i][2]]
<1>3. q \in Seq(B)
  BY <1>1, <1>2
<1>4. ToSet(q) = {a[2] : a \in ToSet(s)}
  BY DEF ToSet
<1>5. ASSUME Distinct(s) PROVE Distinct(q)
  <2> SUFFICES ASSUME NEW i \in DOMAIN s, NEW j \in DOMAIN s, s[i][2] = s[j][2] PROVE i = j
    BY DEF Distinct
  <2>1. s[i][1] = n /\ s[j][1] = n
    BY DEF ToSet
  <2> QED
    BY <1>2, <1>5, <2>1 DEF Distinct
<1> QED
  BY <1>3, <1>4, <1>5

LEMMA NeighboursAre ==
  ASSUME NEW B, NEW H, IsGraph(H, B), NEW n
  PROVE  /\ successors(H, n) \in Seq(B) /\ predecessors(H, n) \in Seq(B)
         /\ ToSet(successors(H, n)) = {a[2] : a \in {b \in EdgeSet(H) : b[1] = n}}
         /\ ToSet(predecessors(H, n)) = {a[1] : a \in {b \in EdgeSet(H) : b[2] = n}}
         /\ Distinct(H.edges) => Distinct(successors(H, n)) /\ Distinct(predecessors(H, n))
<1> DEFINE Out == {a \in EdgeSet(H) : a[1] = n}
           In == {a \in EdgeSet(H) : a[2] = n}
           out == Only(H.edges, Out)
           in == Only(H.edges, In)
<1>1. successors(H, n) = [i \in DOMAIN out |-> out[i][2]] /\ predecessors(H, n) = [i \in DOMAIN in |-> in[i][1]]
  BY DEF successors, predecessors
<1>2. PICK C : C = B \X B
  OBVIOUS
<1>3. H.edges \in Seq(C)
  BY <1>2 DEF IsGraph
<1>4. /\ out \in Seq(C) /\ ToSet(out) = EdgeSet(H) \cap Out /\ (Distinct(H.edges) => Distinct(out))
      /\ in \in Seq(C) /\ ToSet(in) = EdgeSet(H) \cap In /\ (Distinct(H.edges) => Distinct(in))
  <2> HIDE DEF In, Out
  <2> QED
    BY <1>3, OnlyIs DEF EdgeSet
<1>5. ToSet(out) = Out /\ ToSet(in) = In
  BY <1>4
<1> HIDE DEF out, in
<1>6. (\A a \in ToSet(out) : a[1] = n) /\ (\A a \in ToSet(in) : a[2] = n)
  BY <1>5
<1>7. out \in Seq(B \X B) /\ in \in Seq(B \X B)
  BY <1>2, <1>4
<1>8. /\ successors(H, n) \in Seq(B) /\ ToSet(successors(H, n)) = {a[2] : a \in Out}
      /\ Distinct(H.edges) => Distinct(successors(H, n))
  <2>1. PICK s : s = out
    OBVIOUS
  <2>2. s \in Seq(B \X B) /\ (\A a \in ToSet(s) : a[1] = n) /\ successors(H, n) = [i \in DOMAIN s |-> s[i][2]]
    BY <1>1, <1>6, <1>7, <2>1
  <2>3. /\ [i \in DOMAIN s |-> s[i][2]] \in Seq(B)
        /\ ToSet([i \in DOMAIN s |-> s[i][2]]) = {a[2] : a \in ToSet(s)}
        /\ Distinct(s) => Distinct([i \in DOMAIN s |-> s[i][2]])
    BY <2>2, Seconds
  <2> HIDE DEF Out
  <2> QED
    BY <1>4, <1>5, <2>1, <2>2, <2>3
<1>9. /\ predecessors(H, n) \in Seq(B) /\ ToSet(predecessors(H, n)) = {a[1] : a \in In}
      /\ Distinct(H.edges) => Distinct(predecessors(H, n))
  <2>1. PICK s : s = in
    OBVIOUS
  <2>2. s \in Seq(B \X B) /\ (\A a \in ToSet(s) : a[2] = n) /\ predecessors(H, n) = [i \in DOMAIN s |-> s[i][1]]
    BY <1>1, <1>6, <1>7, <2>1
  <2>3. /\ [i \in DOMAIN s |-> s[i][1]] \in Seq(B)
        /\ ToSet([i \in DOMAIN s |-> s[i][1]]) = {a[1] : a \in ToSet(s)}
        /\ Distinct(s) => Distinct([i \in DOMAIN s |-> s[i][1]])
    BY <2>2, Firsts
  <2> HIDE DEF In
  <2> QED
    BY <1>4, <1>5, <2>1, <2>2, <2>3
<1> QED
  BY <1>8, <1>9

InOrder(H, s) ==
  \A a \in EdgeSet(H) : \A j \in DOMAIN s : s[j] = a[2] => \E i \in DOMAIN s : i < j /\ s[i] = a[1]

\* A list of nodes, in order if the graph is simple.
Sorts(H, B, s) ==
  /\ s \in Seq(B) /\ ToSet(s) \subseteq NodeSet(H)
  /\ Simple(H) => Distinct(s) /\ InOrder(H, s)

LEMMA QueuedIs ==
  ASSUME NEW B, NEW H, IsGraph(H, B), NEW q, Sorts(H, B, q), NEW i \in Nat \ {0}
  PROVE  Sorts(H, B, Queued(H, q, i))
<1> SUFFICES ASSUME ~(i > Len(q)) PROVE Sorts(H, B, Queued(H, q, i))
  BY DEF Queued
<1> DEFINE left == {q[j] : j \in 1..i}
           S == Free(H, left) \ ToSet(q)
           new == Only(successors(H, q[i]), S)
           r == q \o new
<1>1. Queued(H, q, i) = r
  BY DEF Queued
<1>2. q \in Seq(B) /\ Len(q) \in Nat /\ DOMAIN q = 1..Len(q) /\ i \in DOMAIN q
  BY DEF Sorts
<1>3. successors(H, q[i]) \in Seq(B) /\ (Distinct(H.edges) => Distinct(successors(H, q[i])))
  BY NeighboursAre
<1>4. new \in Seq(B) /\ ToSet(new) \subseteq S /\ (Distinct(H.edges) => Distinct(new))
  <2> HIDE DEF S
  <2> QED
    BY <1>3, OnlyIs
<1>5. S \subseteq NodeSet(H) /\ S \cap ToSet(q) = {}
  BY DEF Free
<1> HIDE DEF new, S
<1>6. r \in Seq(B) /\ ToSet(r) = ToSet(q) \cup ToSet(new)
      /\ (Distinct(q) /\ Distinct(new) => Distinct(r))
  BY <1>2, <1>4, <1>5, Joined
<1>7. ASSUME Simple(H) PROVE InOrder(H, r)
  <2>0. InOrder(H, q)
    BY <1>7 DEF Sorts
  <2>1. /\ DOMAIN r = 1..(Len(q) + Len(new)) /\ Len(new) \in Nat
        /\ \A k \in 1..Len(q) : r[k] = q[k]
        /\ \A k \in 1..Len(new) : r[Len(q) + k] = new[k]
    BY <1>2, <1>4
  <2> SUFFICES ASSUME NEW a \in EdgeSet(H), NEW j \in DOMAIN r, r[j] = a[2]
               PROVE  \E k \in DOMAIN r : k < j /\ r[k] = a[1]
    BY DEF InOrder
  <2> HIDE DEF r
  <2>2. CASE j \in DOMAIN q
    <3>1. q[j] = a[2]
      BY <1>2, <2>1, <2>2
    <3>2. PICK k \in DOMAIN q : k < j /\ q[k] = a[1]
      BY <2>0, <2>2, <3>1 DEF InOrder
    <3> QED
      BY <1>2, <2>1, <3>2
  <2>3. CASE j \notin DOMAIN q
    <3>1. j > Len(q) /\ j - Len(q) \in 1..Len(new) /\ j = Len(q) + (j - Len(q))
      BY <1>2, <2>1, <2>3
    <3>2. r[j] = new[j - Len(q)]
      BY <2>1, <3>1
    <3>3. a[2] \in ToSet(new)
      BY <1>4, <3>1, <3>2 DEF ToSet
    <3>4. ToSet(predecessors(H, a[2])) \subseteq left
      BY <1>4, <3>3 DEF S, Free
    <3>5. a[1] \in ToSet(predecessors(H, a[2]))
      BY NeighboursAre
    <3>6. PICK k \in 1..i : q[k] = a[1]
      BY <3>4, <3>5
    <3>7. k \in 1..Len(q) /\ k \in DOMAIN r /\ k < j
      BY <1>2, <2>1, <3>1, <3>6
    <3> QED
      BY <2>1, <3>6, <3>7
  <2> QED
    BY <2>2, <2>3
<1>8. Simple(H) => Distinct(r)
  BY <1>4, <1>6 DEF Sorts, Simple
<1> HIDE DEF r
<1>9. ToSet(r) \subseteq NodeSet(H)
  BY <1>4, <1>5, <1>6 DEF Sorts
<1> QED
  BY <1>1, <1>6, <1>7, <1>8, <1>9 DEF Sorts

\* The nodes that are fed by none are in order.
LEMMA FreeFirst ==
  ASSUME NEW B, NEW H, IsGraph(H, B)
  PROVE  Sorts(H, B, Only(H.nodes, Free(H, {})))
<1> DEFINE s == Only(H.nodes, Free(H, {}))
<1>1. s \in Seq(B) /\ ToSet(s) = NodeSet(H) \cap Free(H, {}) /\ (Distinct(H.nodes) => Distinct(s))
  BY OnlyIs DEF IsGraph, NodeSet
<1> HIDE DEF s
<1>2. InOrder(H, s)
  <2> SUFFICES ASSUME NEW a \in EdgeSet(H), NEW j \in DOMAIN s, s[j] = a[2] PROVE FALSE
    BY DEF InOrder
  <2>1. a[2] \in Free(H, {})
    BY <1>1 DEF ToSet
  <2>2. a[1] \in ToSet(predecessors(H, a[2]))
    BY NeighboursAre
  <2> QED
    BY <2>1, <2>2 DEF Free
<1> QED
  BY <1>1, <1>2 DEF Sorts, Simple, s

LEMMA SortIs ==
  ASSUME NEW B, NEW H, IsGraph(H, B)
  PROVE  Sorts(H, B, topological_sort(H))
<1> DEFINE n == Len(H.nodes)
           X == {s \in Seq(B) : Sorts(H, B, s)}
           a == Only(H.nodes, Free(H, {}))
           kahn[i \in 0..Len(H.nodes)] ==
             IF i = 0 THEN Only(H.nodes, Free(H, {})) ELSE Queued(H, kahn[i - 1], i)
           next == [i \in 1..n |-> [q \in X |-> Queued(H, q, i)]]
<1>1. n \in Nat
  BY DEF IsGraph
<1>2. a \in X
  BY FreeFirst DEF Sorts
<1>3. next \in [1..n -> [X -> X]]
  <2>1. ASSUME NEW i \in 1..n, NEW q \in X PROVE Queued(H, q, i) \in X
    <3>1. i \in Nat \ {0}
      BY <1>1
    <3> QED
      BY <3>1, QueuedIs DEF Sorts
  <2> HIDE DEF X
  <2> QED
    BY <2>1
<1> HIDE DEF X, a
<1>4. PICK f \in [0..n -> X] : Recurs(f, n, a, next)
  <2> HIDE DEF n, next
  <2> QED
    BY <1>1, <1>2, <1>3, Recursion
<1>5. f = [i \in 0..Len(H.nodes) |->
             IF i = 0 THEN Only(H.nodes, Free(H, {})) ELSE Queued(H, f[i - 1], i)]
  <2>1. ASSUME NEW i \in 1..n PROVE f[i] = Queued(H, f[i - 1], i)
    <3>1. i - 1 \in 0..n /\ f[i - 1] \in X
      BY <1>1
    <3> QED
      BY <1>4, <3>1 DEF Recurs
  <2>2. f[0] = a /\ \A i \in 0..n : i # 0 => i \in 1..n
    BY <1>1, <1>4 DEF Recurs
  <2> HIDE DEF next
  <2> QED
    BY <2>1, <2>2 DEF a
<1>6. kahn = [i \in 0..Len(H.nodes) |->
                IF i = 0 THEN Only(H.nodes, Free(H, {})) ELSE Queued(H, kahn[i - 1], i)]
  BY <1>5, Zenon
<1>7. topological_sort(H) = kahn[n]
  BY Zenon DEF topological_sort
<1> HIDE DEF kahn
<1> DEFINE T == {i \in 0..n : kahn[i] = f[i]}
<1>8. 0..n \subseteq T
  <2>1. 0 \in T
    BY <1>1, <1>4, <1>6 DEF Recurs, a
  <2>2. ASSUME NEW i \in 1..n, i - 1 \in T PROVE i \in T
    <3>1. i \in 0..n /\ i # 0
      BY <1>1
    <3> HIDE DEF n
    <3> QED
      BY <1>5, <1>6, <2>2, <3>1 DEF n
  <2>3. PICK m : m = n
    OBVIOUS
  <2>4. m \in Nat /\ 0 \in T /\ \A i \in 1..m : i - 1 \in T => i \in T
    BY <1>1, <2>1, <2>2, <2>3
  <2> HIDE DEF T, n
  <2>5. 0..m \subseteq T
    BY <2>4, Induction
  <2> QED
    BY <2>3, <2>5
<1>9. f[n] \in X /\ kahn[n] = f[n]
  BY <1>1, <1>8
<1> QED
  BY <1>7, <1>9 DEF X


-----------------------------------------------------------------------------
(* Recursion over ranks and folds. *)

\* The value of step at d depends on values of lower ranks only.
Lower(rank, d, g, h) == \A e \in DOMAIN rank : rank[e] < rank[d] => g[e] = h[e]
Steps(step, rank, D, X) ==
  \A d \in D : \A g, h \in [D -> X] : Lower(rank, d, g, h) => step[d][g] = step[d][h]
Solves(f, step, D) == \A d \in D : f[d] = step[d][f]

\* A definition by recursion over ranks has a function that satisfies it.
LEMMA RankedRecursion ==
  ASSUME NEW D, NEW n \in Nat, NEW rank \in [D -> 0..n], NEW X, X # {},
         NEW step \in [D -> [[D -> X] -> X]],
         Steps(step, rank, D, X)
  PROVE  \E f \in [D -> X] : Solves(f, step, D)
<1> DEFINE SolvesTo(f, k) == \A d \in D : rank[d] < k => f[d] = step[d][f]
           S == {k \in 0..(n + 1) : \E f \in [D -> X] : SolvesTo(f, k)}
<1>1. 0 \in S
  <2>1. PICK x \in X : TRUE
    OBVIOUS
  <2> DEFINE f == [d \in D |-> x]
  <2>2. f \in [D -> X] /\ SolvesTo(f, 0)
    OBVIOUS
  <2> HIDE DEF f, SolvesTo
  <2>3. \E g \in [D -> X] : SolvesTo(g, 0)
    BY <2>2, Zenon
  <2> QED
    BY <2>3
<1>2. ASSUME NEW k \in 1..(n + 1), k - 1 \in S PROVE k \in S
  <2>1. PICK f \in [D -> X] : SolvesTo(f, k - 1)
    BY <1>2
  <2> DEFINE g == [d \in D |-> IF rank[d] = k - 1 THEN step[d][f] ELSE f[d]]
  <2>2. g \in [D -> X]
    OBVIOUS
  <2>3. ASSUME NEW d \in D, rank[d] < k PROVE g[d] = step[d][g]
    <3>1. rank[d] \in 0..n /\ \A e \in D : rank[e] \in 0..n
      OBVIOUS
    <3>2. Lower(rank, d, f, g)
      <4>1. \A e \in D : rank[e] < rank[d] => rank[e] # k - 1
        BY <2>3, <3>1
      <4> QED
        BY <4>1 DEF Lower
    <3>3. step[d][f] = step[d][g]
      BY <2>2, <3>2 DEF Steps
    <3>4. CASE rank[d] = k - 1
      BY <3>3, <3>4
    <3>5. CASE rank[d] # k - 1
      <4>1. PICK x, y : x = rank[d] /\ y = k - 1
        OBVIOUS
      <4>2. x \in Int /\ y \in Int /\ x < y + 1 /\ x # y
        BY <2>3, <3>1, <3>5, <4>1
      <4>3. x < y
        BY <4>2
      <4> QED
        BY <2>1, <3>3, <3>5, <4>1, <4>3
    <3> QED
      BY <3>4, <3>5
  <2>4. SolvesTo(g, k)
    BY <2>3
  <2>5. \E h \in [D -> X] : SolvesTo(h, k)
    <3> HIDE DEF g, SolvesTo
    <3> QED
      BY <2>2, <2>4, Zenon
  <2>6. k \in 0..(n + 1)
    OBVIOUS
  <2> QED
    BY <2>5, <2>6, Zenon
<1>3. n + 1 \in S
  <2>1. PICK m \in Nat : m = n + 1
    OBVIOUS
  <2>2. 0 \in S /\ \A i \in 1..m : i - 1 \in S => i \in S
    BY <1>1, <1>2, <2>1
  <2> HIDE DEF S
  <2>3. 0..m \subseteq S
    BY <2>2, Induction
  <2> QED
    BY <2>1, <2>3
<1>4. PICK f \in [D -> X] : SolvesTo(f, n + 1)
  BY <1>3
<1>5. \A d \in D : rank[d] < n + 1
  OBVIOUS
<1> QED
  BY <1>4, <1>5 DEF Solves

\* The largest index of a set of indices.
LEMMA MaxIs ==
  ASSUME NEW n \in Nat, NEW T \in SUBSET (1..n), T # {}
  PROVE  /\ Max(T) \in T /\ \A y \in T : y <= Max(T)
         /\ Cardinality(T) \in 0..n /\ Cardinality(T \ {Max(T)}) \in 0..n
         /\ Cardinality(T \ {Max(T)}) < Cardinality(T)
<1> DEFINE U == {n - x : x \in T}
<1>1. U \in SUBSET Nat /\ U # {}
  <2>1. \A x \in T : n - x \in Nat
    OBVIOUS
  <2> QED
    BY <2>1
<1>2. PICK u \in U : \A y \in U : u <= y
  <2> HIDE DEF U
  <2> QED
    BY <1>1, Least
<1>3. PICK x \in T : u = n - x
  BY <1>2
<1>4. \A y \in T : x >= y
  <2> TAKE y \in T
  <2>1. n - y \in U
    OBVIOUS
  <2>2. n - x <= n - y /\ x \in Nat /\ y \in Nat
    BY <1>2, <1>3, <2>1
  <2> QED
    BY <2>2
<1>5. Max(T) \in T /\ \A y \in T : Max(T) >= y
  BY <1>4, Zenon DEF Max
<1>6. IsFiniteSet(1..n) /\ Cardinality(1..n) = n
  BY FS_Interval
<1>7. PICK I : I = 1..n
  OBVIOUS
<1>8. IsFiniteSet(T) /\ Cardinality(T) <= n /\ Cardinality(T) \in Nat
  <2>1. IsFiniteSet(I) /\ Cardinality(I) = n /\ T \in SUBSET I
    BY <1>6, <1>7
  <2>2. IsFiniteSet(T) /\ Cardinality(T) <= Cardinality(I)
    BY <2>1, FS_Subset
  <2> QED
    BY <2>1, <2>2, FS_CardinalityType
<1>9. PICK m : m = Max(T)
  OBVIOUS
<1>10. IsFiniteSet(T \ {m}) /\ Cardinality(T \ {m}) = Cardinality(T) - 1
  BY <1>5, <1>8, <1>9, FS_RemoveElement
<1>11. Cardinality(T \ {m}) \in Nat
  BY <1>10, FS_CardinalityType
<1> QED
  BY <1>5, <1>8, <1>9, <1>10, <1>11

\* f is what FoldLeft iterates, for the function next of the position and
\* the value so far.
Folds(f, n, a, next) ==
  f = [T \in SUBSET (1..n) |-> IF T = {} THEN a ELSE next[Max(T)][f[T \ {Max(T)}]]]

LEMMA Folding ==
  ASSUME NEW n \in Nat, NEW X, NEW a \in X, NEW next \in [1..n -> [X -> X]]
  PROVE  \E f \in [SUBSET (1..n) -> X] : Folds(f, n, a, next)
<1> DEFINE D == SUBSET (1..n)
           rank == [T \in D |-> Cardinality(T)]
           step == [T \in D |-> [f \in [D -> X] |-> IF T = {} THEN a ELSE next[Max(T)][f[T \ {Max(T)}]]]]
<1>1. \A T \in D : T # {} => /\ Max(T) \in 1..n /\ T \ {Max(T)} \in D
                             /\ Cardinality(T) \in 0..n /\ Cardinality(T \ {Max(T)}) < Cardinality(T)
  <2> TAKE T \in D
  <2> HAVE T # {}
  <2>1. Max(T) \in T /\ Cardinality(T) \in 0..n /\ Cardinality(T \ {Max(T)}) < Cardinality(T)
    BY MaxIs
  <2> QED
    BY <2>1
<1>2. rank \in [D -> 0..n]
  <2>1. Cardinality({}) = 0 /\ 0 \in 0..n
    BY FS_EmptySet
  <2>2. \A T \in D : Cardinality(T) \in 0..n
    <3> TAKE T \in D
    <3> QED
      BY <1>1, <2>1
  <2> QED
    BY <2>2
<1>3. step \in [D -> [[D -> X] -> X]]
  <2>1. ASSUME NEW T \in D, NEW f \in [D -> X], T # {} PROVE next[Max(T)][f[T \ {Max(T)}]] \in X
    <3>1. PICK m, U : m = Max(T) /\ U = T \ {Max(T)}
      OBVIOUS
    <3>2. m \in 1..n /\ U \in D
      BY <1>1, <2>1, <3>1
    <3> HIDE DEF D
    <3>3. next[m] \in [X -> X] /\ f[U] \in X
      BY <3>2
    <3> QED
      BY <3>1, <3>3
  <2> HIDE DEF D
  <2> QED
    BY <2>1
<1>4. ASSUME NEW T \in D, NEW g \in [D -> X], NEW h \in [D -> X], Lower(rank, T, g, h)
      PROVE  step[T][g] = step[T][h]
  <2>1. CASE T = {}
    BY <2>1
  <2>2. CASE T # {}
    <3>1. PICK U \in D : U = T \ {Max(T)} /\ Cardinality(U) < Cardinality(T)
      BY <1>1, <2>2
    <3>2. rank[U] < rank[T]
      BY <3>1
    <3>3. DOMAIN rank = D
      OBVIOUS
    <3> HIDE DEF rank
    <3>4. g[U] = h[U]
      BY <1>4, <3>2, <3>3 DEF Lower
    <3> QED
      BY <2>2, <3>1, <3>4
  <2> QED
    BY <2>1, <2>2
<1>5. PICK f \in [D -> X] : Solves(f, step, D)
  <2>1. Steps(step, rank, D, X)
    BY <1>4 DEF Steps
  <2>2. X # {}
    OBVIOUS
  <2> HIDE DEF D, rank, step
  <2> QED
    BY <1>2, <1>3, <2>1, <2>2, RankedRecursion
<1>6. \A T \in D : f[T] = IF T = {} THEN a ELSE next[Max(T)][f[T \ {Max(T)}]]
  BY <1>5 DEF Solves
<1>7. Folds(f, n, a, next)
  <2> HIDE DEF step, rank
  <2> QED
    BY <1>6 DEF Folds
<1> QED
  BY <1>7

\* What such an iteration keeps, from values in X.
Follows(g, n, a, next, X) ==
  /\ g[{}] = a
  /\ \A T \in SUBSET (1..n) :
       T # {} /\ g[T \ {Max(T)}] \in X => g[T] = next[Max(T)][g[T \ {Max(T)}]]

LEMMA FoldKeeps ==
  ASSUME NEW n \in Nat, NEW X, NEW a \in X, NEW next \in [1..n -> [X -> X]], NEW g, Follows(g, n, a, next, X)
  PROVE  g[1..n] \in X
<1> DEFINE D == SUBSET (1..n)
           rank == [T \in D |-> Cardinality(T)]
           S == {T \in D : g[T] \in X}
<1>1. rank \in [D -> Nat]
  <2>1. ASSUME NEW T \in D PROVE Cardinality(T) \in Nat
    <3>1. CASE T = {}
      BY <3>1, FS_EmptySet
    <3>2. CASE T # {}
      <4>1. Cardinality(T) \in 0..n
        BY <3>2, MaxIs
      <4> QED
        BY <4>1
    <3> QED
      BY <3>1, <3>2
  <2> QED
    BY <2>1
<1>2. ASSUME NEW T \in D, \A e \in D : rank[e] < rank[T] => e \in S PROVE T \in S
  <2>1. CASE T = {}
    BY <2>1 DEF Follows
  <2>2. CASE T # {}
    <3>1. Max(T) \in T /\ Cardinality(T \ {Max(T)}) < Cardinality(T)
      BY <2>2, MaxIs
    <3>2. T \ {Max(T)} \in S /\ Max(T) \in 1..n
      BY <1>2, <3>1
    <3>3. g[T] = next[Max(T)][g[T \ {Max(T)}]]
      BY <2>2, <3>2 DEF Follows
    <3>4. PICK m, x : m = Max(T) /\ x = g[T \ {Max(T)}]
      OBVIOUS
    <3>5. next[m] \in [X -> X] /\ x \in X
      BY <3>2, <3>4
    <3> QED
      BY <3>3, <3>4, <3>5
  <2> QED
    BY <2>1, <2>2
<1>3. D \subseteq S
  <2> HIDE DEF D, rank, S
  <2> QED
    BY <1>1, <1>2, Ranked
<1> QED
  BY <1>3

\* Two iterations of the same function end alike.
LEMMA FoldSame ==
  ASSUME NEW n \in Nat, NEW X, NEW a \in X, NEW next \in [1..n -> [X -> X]],
         NEW g, Follows(g, n, a, next, X), NEW h, Follows(h, n, a, next, X)
  PROVE  g[1..n] = h[1..n]
<1> DEFINE D == SUBSET (1..n)
           rank == [T \in D |-> Cardinality(T)]
           S == {T \in D : g[T] \in X /\ g[T] = h[T]}
<1>1. rank \in [D -> Nat]
  <2>1. ASSUME NEW T \in D PROVE Cardinality(T) \in Nat
    <3>1. CASE T = {}
      BY <3>1, FS_EmptySet
    <3>2. CASE T # {}
      <4>1. Cardinality(T) \in 0..n
        BY <3>2, MaxIs
      <4> QED
        BY <4>1
    <3> QED
      BY <3>1, <3>2
  <2> QED
    BY <2>1
<1>2. ASSUME NEW T \in D, \A e \in D : rank[e] < rank[T] => e \in S PROVE T \in S
  <2>1. CASE T = {}
    BY <2>1 DEF Follows
  <2>2. CASE T # {}
    <3>1. Max(T) \in T /\ Cardinality(T \ {Max(T)}) < Cardinality(T)
      BY <2>2, MaxIs
    <3>2. T \ {Max(T)} \in S /\ Max(T) \in 1..n
      BY <1>2, <3>1
    <3>3. g[T] = next[Max(T)][g[T \ {Max(T)}]] /\ h[T] = next[Max(T)][h[T \ {Max(T)}]]
      BY <2>2, <3>2 DEF Follows
    <3>4. PICK m, x : m = Max(T) /\ x = g[T \ {Max(T)}]
      OBVIOUS
    <3>5. next[m] \in [X -> X] /\ x \in X
      BY <3>2, <3>4
    <3> QED
      BY <3>2, <3>3, <3>4, <3>5
  <2> QED
    BY <2>1, <2>2
<1>3. D \subseteq S
  <2> HIDE DEF D, rank, S
  <2> QED
    BY <1>1, <1>2, Ranked
<1> QED
  BY <1>3

-----------------------------------------------------------------------------
(* Parts of a graph. *)

LEMMA ListFinite ==
  ASSUME NEW X, NEW s \in Seq(X)
  PROVE  IsFiniteSet(ToSet(s)) /\ (Distinct(s) => Cardinality(ToSet(s)) = Len(s))
<1>1. PICK n, I : n = Len(s) /\ I = 1..n
  OBVIOUS
<1>2. n \in Nat /\ s \in [I -> ToSet(s)] /\ DOMAIN s = I
  BY <1>1 DEF ToSet
<1>3. s \in Surjection(I, ToSet(s))
  BY <1>2 DEF Surjection, ToSet
<1>4. Distinct(s) => s \in Injection(I, ToSet(s))
  BY <1>2 DEF Injection, IsInjective, Distinct
<1>5. IsFiniteSet(I) /\ Cardinality(I) = n
  <2>1. n \in Int /\ 1 \in Int
    BY <1>2
  <2>2. Cardinality(1..n) = n /\ IsFiniteSet(1..n)
    BY <1>2, <2>1, FS_Interval
  <2> QED
    BY <1>1, <2>2
<1> QED
  BY <1>1, <1>3, <1>4, <1>5, FS_Surjection

Both(E) == E \cup {<<a[2], a[1]>> : a \in E}
Crossed(E, W) == \A a \in E : a[1] \in W <=> a[2] \in W

LEMMA ComponentIs ==
  ASSUME NEW B, NEW H, IsGraph(H, B), Simple(H), NEW m \in NodeSet(H)
  PROVE  /\ m \in component(H, m) /\ component(H, m) \subseteq NodeSet(H)
         /\ Crossed(EdgeSet(H), component(H, m))
         /\ \A n \in component(H, m) : component(H, n) = component(H, m)
         /\ \A W : m \in W /\ Crossed(EdgeSet(H), W) => component(H, m) \subseteq W
<1> DEFINE E == Both(EdgeSet(H))
           C(n) == component(H, n)
<1>1. \A a \in EdgeSet(H) : a = <<a[1], a[2]>> /\ a[1] \in NodeSet(H) /\ a[2] \in NodeSet(H)
  BY DEF Simple
<1>2. \A W : Keeps(E, W) <=> Crossed(EdgeSet(H), W)
  <2> TAKE W
  <2>1. ASSUME Keeps(E, W) PROVE Crossed(EdgeSet(H), W)
    <3> SUFFICES ASSUME NEW a \in EdgeSet(H) PROVE a[1] \in W <=> a[2] \in W
      BY DEF Crossed
    <3>1. a \in E /\ <<a[2], a[1]>> \in E
      BY DEF Both
    <3> QED
      BY <2>1, <3>1 DEF Keeps
  <2>2. ASSUME Crossed(EdgeSet(H), W) PROVE Keeps(E, W)
    <3> SUFFICES ASSUME NEW a \in E, a[1] \in W PROVE a[2] \in W
      BY DEF Keeps
    <3>1. CASE a \in EdgeSet(H)
      BY <2>2, <3>1 DEF Crossed
    <3>2. CASE a \notin EdgeSet(H)
      <4>1. PICK b \in EdgeSet(H) : a = <<b[2], b[1]>>
        BY <3>2 DEF Both
      <4>2. a[1] = b[2] /\ a[2] = b[1]
        BY <4>1
      <4> QED
        BY <2>2, <4>2 DEF Crossed
    <3> QED
      BY <3>1, <3>2
  <2> QED
    BY <2>1, <2>2
<1>3. \A n : C(n) = Closure(E, {n})
  BY DEF component, Both
<1>4. {a[2] : a \in E} \subseteq NodeSet(H)
  BY <1>1 DEF Both
<1>5. IsFiniteSet(NodeSet(H))
  BY ListFinite DEF IsGraph, NodeSet
<1> HIDE DEF E
<1>6. \A n \in NodeSet(H) : /\ n \in C(n) /\ C(n) \subseteq NodeSet(H) /\ Crossed(EdgeSet(H), C(n))
                            /\ \A W : n \in W /\ Crossed(EdgeSet(H), W) => C(n) \subseteq W
  <2> TAKE n \in NodeSet(H)
  <2>1. PICK X : X = {n}
    OBVIOUS
  <2>2. X \cup {a[2] : a \in E} \in SUBSET NodeSet(H)
    BY <1>4, <2>1
  <2>3. IsFiniteSet(X \cup {a[2] : a \in E})
    <3>1. PICK U, Y : U = X \cup {a[2] : a \in E} /\ Y = NodeSet(H)
      OBVIOUS
    <3>2. IsFiniteSet(U)
      BY <1>5, <2>2, <3>1, FS_Subset
    <3> QED
      BY <3>1, <3>2
  <2>4. /\ X \subseteq Closure(E, X) /\ Closure(E, X) \subseteq X \cup {a[2] : a \in E}
        /\ Keeps(E, Closure(E, X))
        /\ \A W : X \subseteq W /\ Keeps(E, W) => Closure(E, X) \subseteq W
    BY <2>3, ClosureIs
  <2>5. Closure(E, X) = C(n)
    BY <1>3, <2>1
  <2> HIDE DEF C
  <2>6. Keeps(E, C(n)) /\ C(n) \subseteq NodeSet(H) /\ n \in C(n)
    BY <2>1, <2>2, <2>4, <2>5
  <2>7. \A W : n \in W /\ Crossed(EdgeSet(H), W) => C(n) \subseteq W
    BY <1>2, <2>1, <2>4, <2>5
  <2> QED
    BY <1>2, <2>6, <2>7
<1> HIDE DEF C
<1>7. ASSUME NEW n \in C(m) PROVE C(n) = C(m)
  <2>1. n \in NodeSet(H)
    BY <1>6
  <2>2. C(n) \subseteq C(m)
    BY <1>6, <1>7, <2>1
  <2>3. m \in C(n)
    <3> SUFFICES ASSUME m \notin C(n) PROVE FALSE
      OBVIOUS
    <3> DEFINE W == NodeSet(H) \ C(n)
    <3>1. Crossed(EdgeSet(H), C(n))
      BY <1>6, <2>1
    <3>2. Crossed(EdgeSet(H), W)
      BY <1>1, <3>1 DEF Crossed
    <3>3. C(m) \subseteq W
      BY <1>6, <3>2
    <3>4. n \in C(n)
      BY <1>6, <2>1
    <3> QED
      BY <1>7, <3>3, <3>4
  <2>4. C(m) \subseteq C(n)
    BY <1>6, <2>1, <2>3
  <2> QED
    BY <2>2, <2>4
<1> QED
  BY <1>6, <1>7 DEF C

\* In a graph without cycles the sort has every node.
LEMMA SortsAll ==
  ASSUME NEW B, NEW H, IsGraph(H, B), Simple(H), is_acyclic(H)
  PROVE  ToSet(topological_sort(H)) = NodeSet(H)
<1>1. PICK s : s = topological_sort(H)
  OBVIOUS
<1>2. s \in Seq(B) /\ ToSet(s) \subseteq NodeSet(H) /\ Distinct(s)
  BY <1>1, SortIs DEF Sorts
<1>3. H.nodes \in Seq(B) /\ Distinct(H.nodes) /\ NodeSet(H) = ToSet(H.nodes)
  BY DEF IsGraph, Simple, NodeSet
<1>4. IsFiniteSet(NodeSet(H)) /\ Cardinality(NodeSet(H)) = Len(H.nodes)
  BY <1>3, ListFinite
<1>5. Cardinality(ToSet(s)) = Len(s)
  BY <1>2, ListFinite
<1>6. Len(s) = Len(H.nodes)
  BY <1>1 DEF is_acyclic
<1> QED
  BY <1>1, <1>2, <1>4, <1>5, <1>6, FS_Subset

\* A drawing is a graph.
LEMMA GraphIs ==
  ASSUME NEW d, IsDrawing(d)
  PROVE  /\ IsGraph(Graph(d), Nodes) /\ Simple(Graph(d))
         /\ Graph(d).nodes = d.nodes /\ NodeSet(Graph(d)) = ToSet(d.nodes)
<1> DEFINE H == Graph(d)
           pair(a) == <<a.src, a.dst>>
<1>1. /\ H.nodes = d.nodes /\ H.edges = [i \in DOMAIN d.edges |-> <<d.edges[i].src, d.edges[i].dst>>]
      /\ H.fieldEdges = {<<a.src, a.dst>> : a \in {b \in ToSet(d.edges) : b.field}}
      /\ H = [nodes |-> H.nodes, edges |-> H.edges, fieldEdges |-> H.fieldEdges,
              carriers |-> H.carriers, receivers |-> H.receivers]
  BY DEF Graph
<1> HIDE DEF H
<1>2. d.nodes \in Seq(Nodes) /\ Distinct(d.nodes)
  BY DEF IsDrawing, Distinct
<1>3. \A i \in DOMAIN d.edges : d.edges[i].src \in ToSet(d.nodes) /\ d.edges[i].dst \in ToSet(d.nodes)
  BY DEF IsDrawing, ToSet
<1>4. ToSet(d.nodes) \subseteq Nodes
  BY <1>2 DEF ToSet
<1>5. H.edges \in Seq(Nodes \X Nodes)
  <2>1. PICK n \in Nat : DOMAIN d.edges = 1..n
    <3>1. PICK X : d.edges \in Seq(X)
      BY DEF IsDrawing
    <3> QED
      BY <3>1
  <2> QED
    BY <1>1, <1>3, <1>4, <2>1
<1>6. EdgeSet(H) \subseteq ToSet(d.nodes) \X ToSet(d.nodes)
  BY <1>1, <1>3 DEF EdgeSet, ToSet
<1>7. Distinct(H.edges)
  <2> SUFFICES ASSUME NEW i \in DOMAIN d.edges, NEW j \in DOMAIN d.edges, H.edges[i] = H.edges[j] PROVE i = j
    BY <1>1 DEF Distinct
  <2>1. H.edges[i] = <<d.edges[i].src, d.edges[i].dst>> /\ H.edges[j] = <<d.edges[j].src, d.edges[j].dst>>
    BY <1>1
  <2> QED
    BY <2>1 DEF IsDrawing
<1>8. H.fieldEdges \subseteq EdgeSet(H)
  BY <1>1 DEF EdgeSet, ToSet
<1> QED
  BY <1>1, <1>2, <1>5, <1>6, <1>7, <1>8 DEF IsGraph, Simple, NodeSet, H

-----------------------------------------------------------------------------
(* What the planner computes from a part stays within the part: each of    *)
(* these folds is followed by the function next, whose values are in X.    *)

LEMMA ContainsIs == ASSUME NEW X, NEW s \in Seq(X), NEW x PROVE Contains(s, x) <=> x \in ToSet(s)
BY DEF Contains, ToSet

\* No node is added twice.
LEMMA AddAllIs ==
  ASSUME NEW P, NEW acc \in Seq(P), Distinct(acc), NEW nodes \in Seq(P)
  PROVE  AddAll(acc, nodes) \in Seq(P) /\ Distinct(AddAll(acc, nodes))
<1> DEFINE n == Len(nodes)
           X == {q \in Seq(P) : Distinct(q)}
           next == [i \in 1..n |-> [q \in X |-> Add(q, nodes[i])]]
           iter[T \in SUBSET (DOMAIN nodes)] ==
             IF T = {} THEN acc ELSE LET x == Max(T) IN Add(iter[T \ {x}], nodes[x])
<1>1. n \in Nat /\ DOMAIN nodes = 1..n /\ \A i \in 1..n : nodes[i] \in P
  OBVIOUS
<1>2. acc \in X /\ \A q \in X, x \in P : Add(q, x) \in X
  <2> SUFFICES ASSUME NEW q \in X, NEW x \in P PROVE Add(q, x) \in X
    OBVIOUS
  <2> QED
    BY Appended, ContainsIs DEF Add
<1>3. next \in [1..n -> [X -> X]]
  <2> HIDE DEF X, n
  <2> QED
    BY <1>1, <1>2
<1> HIDE DEF X
<1>4. PICK f \in [SUBSET (1..n) -> X] : Folds(f, n, acc, next)
  <2> HIDE DEF n, next
  <2> QED
    BY <1>1, <1>2, <1>3, Folding
<1>5. ASSUME NEW T \in SUBSET (1..n), T # {} PROVE Max(T) \in 1..n /\ T \ {Max(T)} \in SUBSET (1..n)
  BY <1>1, <1>5, MaxIs
<1>6. f = [T \in SUBSET (DOMAIN nodes) |-> IF T = {} THEN acc ELSE LET x == Max(T) IN Add(f[T \ {x}], nodes[x])]
  <2>1. ASSUME NEW T \in SUBSET (1..n), T # {}
        PROVE  next[Max(T)][f[T \ {Max(T)}]] = Add(f[T \ {Max(T)}], nodes[Max(T)])
    BY <1>5, <2>1
  <2> HIDE DEF next, n
  <2> QED
    BY <1>1, <1>4, <2>1 DEF Folds
<1>7. iter = [T \in SUBSET (DOMAIN nodes) |-> IF T = {} THEN acc ELSE LET x == Max(T) IN Add(iter[T \ {x}], nodes[x])]
  BY <1>6, Zenon
<1>8. AddAll(acc, nodes) = iter[DOMAIN nodes]
  BY Zenon DEF AddAll, FoldLeft, MapThenFoldSet
<1> HIDE DEF iter
<1>9. Follows(iter, n, acc, next, X)
  <2>1. iter[{}] = acc
    BY <1>7
  <2>2. ASSUME NEW T \in SUBSET (1..n), T # {}, iter[T \ {Max(T)}] \in X
        PROVE  iter[T] = next[Max(T)][iter[T \ {Max(T)}]]
    <3>1. iter[T] = Add(iter[T \ {Max(T)}], nodes[Max(T)])
      BY <1>1, <1>7, <2>2
    <3> QED
      BY <1>5, <2>2, <3>1
  <2> HIDE DEF next, n
  <2> QED
    BY <2>1, <2>2 DEF Follows
<1>10. iter[1..n] \in X
  <2> HIDE DEF n, next
  <2> QED
    BY <1>1, <1>2, <1>3, <1>9, FoldKeeps
<1> QED
  BY <1>1, <1>8, <1>10 DEF X

\* The plan of a part, with the init nodes of its fields.
LEMMA PlanIs ==
  ASSUME NEW P, plan \in Seq(P), \A n \in P : fields[n].init \in Seq(P)
  PROVE  plan_with_init_nodes \in Seq(P) /\ Distinct(plan_with_init_nodes)
<1> DEFINE n == Len(plan)
           X == {q \in Seq(P) : Distinct(q)}
           next == [i \in 1..n |-> [q \in X |-> AddWithInit(q, plan[i])]]
           iter[T \in SUBSET (DOMAIN plan)] ==
             IF T = {} THEN <<>> ELSE LET x == Max(T) IN AddWithInit(iter[T \ {x}], plan[x])
<1>1. n \in Nat /\ DOMAIN plan = 1..n /\ \A i \in 1..n : plan[i] \in P
  OBVIOUS
<1>2. <<>> \in X /\ \A q \in X, x \in P : AddWithInit(q, x) \in X
  <2>1. <<>> \in X
    BY DEF Distinct
  <2>2. ASSUME NEW q \in X, NEW x \in P PROVE AddWithInit(q, x) \in X
    <3>1. PICK r : r = Append(fields[x].init, x)
      OBVIOUS
    <3>2. r \in Seq(P)
      BY <3>1
    <3>3. AddAll(q, r) \in X
      BY <3>2, AddAllIs
    <3> QED
      BY <3>1, <3>3 DEF AddWithInit
  <2> QED
    BY <2>1, <2>2
<1>3. next \in [1..n -> [X -> X]]
  <2> HIDE DEF X, n
  <2> QED
    BY <1>1, <1>2
<1> HIDE DEF X
<1>4. PICK f \in [SUBSET (1..n) -> X] : Folds(f, n, <<>>, next)
  <2> HIDE DEF n, next
  <2> QED
    BY <1>1, <1>2, <1>3, Folding
<1>5. ASSUME NEW T \in SUBSET (1..n), T # {} PROVE Max(T) \in 1..n /\ T \ {Max(T)} \in SUBSET (1..n)
  BY <1>1, <1>5, MaxIs
<1>6. f = [T \in SUBSET (DOMAIN plan) |-> IF T = {} THEN <<>> ELSE LET x == Max(T) IN AddWithInit(f[T \ {x}], plan[x])]
  <2>1. ASSUME NEW T \in SUBSET (1..n), T # {}
        PROVE  next[Max(T)][f[T \ {Max(T)}]] = AddWithInit(f[T \ {Max(T)}], plan[Max(T)])
    BY <1>5, <2>1
  <2> HIDE DEF next, n
  <2> QED
    BY <1>1, <1>4, <2>1 DEF Folds
<1>7. iter = [T \in SUBSET (DOMAIN plan) |-> IF T = {} THEN <<>> ELSE LET x == Max(T) IN AddWithInit(iter[T \ {x}], plan[x])]
  BY <1>6, Zenon
<1>8. plan_with_init_nodes = iter[DOMAIN plan]
  BY Zenon DEF plan_with_init_nodes, FoldLeft, MapThenFoldSet
<1> HIDE DEF iter
<1>9. Follows(iter, n, <<>>, next, X)
  <2>1. iter[{}] = <<>>
    BY <1>7
  <2>2. ASSUME NEW T \in SUBSET (1..n), T # {}, iter[T \ {Max(T)}] \in X
        PROVE  iter[T] = next[Max(T)][iter[T \ {Max(T)}]]
    <3>1. iter[T] = AddWithInit(iter[T \ {Max(T)}], plan[Max(T)])
      BY <1>1, <1>7, <2>2
    <3> QED
      BY <1>5, <2>2, <3>1
  <2> HIDE DEF next, n
  <2> QED
    BY <2>1, <2>2 DEF Follows
<1>10. iter[1..n] \in X
  <2> HIDE DEF n, next
  <2> QED
    BY <1>1, <1>2, <1>3, <1>9, FoldKeeps
<1> QED
  BY <1>1, <1>8, <1>10 DEF X

LEMMA ReachIs ==
  ASSUME NEW B, NEW H, IsGraph(H, B), Simple(H), NEW m \in NodeSet(H)
  PROVE  Above(H, m) \subseteq NodeSet(H) /\ Below(H, m) \subseteq NodeSet(H)
<1>1. \A a \in EdgeSet(H) : a[1] \in NodeSet(H) /\ a[2] \in NodeSet(H)
  BY DEF Simple
<1>2. IsFiniteSet(NodeSet(H))
  BY ListFinite DEF IsGraph, NodeSet
<1>3. ASSUME NEW E, {a[2] : a \in E} \subseteq NodeSet(H) PROVE Closure(E, {m}) \subseteq NodeSet(H)
  <2>1. PICK U, Y, Z : U = {m} \cup {a[2] : a \in E} /\ Y = NodeSet(H) /\ Z = {m}
    OBVIOUS
  <2>2. IsFiniteSet(U)
    BY <1>2, <1>3, <2>1, FS_Subset
  <2>3. Closure(E, Z) \subseteq Z \cup {a[2] : a \in E}
    BY <2>1, <2>2, ClosureIs
  <2> QED
    BY <1>3, <2>1, <2>3
<1>4. {a[2] : a \in EdgeSet(H)} \subseteq NodeSet(H)
  BY <1>1
<1>5. {a[2] : a \in {<<b[2], b[1]>> : b \in EdgeSet(H)}} \subseteq NodeSet(H)
  BY <1>1
<1> QED
  BY <1>3, <1>4, <1>5 DEF Above, Below

\* What a field imports are nodes of the part.
LEMMA ImportIs ==
  ASSUME NEW P, IsGraph(G, P), Simple(G), NodeSet(G) = P,
         NEW t, NEW m, NEW descriptors, descriptors[t].init \in Seq(P), NEW imported \in SUBSET P
  PROVE  Import(t, m, descriptors, imported) \in [imported : SUBSET P, init : Seq(P)]
<1> DEFINE s == predecessors(G, m)
           base == [imported |-> imported, init |-> descriptors[t].init]
<1> DEFINE n == Len(s)
           X == [imported : SUBSET P, init : Seq(P)]
           next == [i \in 1..n |-> [q \in X |-> ImportFrom(t, descriptors[t].body, q, s[i])]]
           iter[T \in SUBSET (DOMAIN s)] ==
             IF T = {} THEN base ELSE LET x == Max(T) IN ImportFrom(t, descriptors[t].body, iter[T \ {x}], s[x])
<1>1. n \in Nat /\ DOMAIN s = 1..n /\ \A i \in 1..n : s[i] \in P
  <2>1. s \in Seq(P)
    BY NeighboursAre
  <2> HIDE DEF s
  <2> QED
    BY <2>1
<1>2. base \in X /\ \A q \in X, x \in P : ImportFrom(t, descriptors[t].body, q, x) \in X
  <2>1. base \in X
    OBVIOUS
  <2>2. ASSUME NEW q \in X, NEW x \in P PROVE ImportFrom(t, descriptors[t].body, q, x) \in X
    <3>1. PICK K, A, new : /\ A = Above(G, x) /\ K = subgraph(G, A)
                           /\ new = Only(topological_sort(K), A \ ToSet(plan))
      OBVIOUS
    <3>2. A \subseteq P
      BY <3>1, ReachIs
    <3>3. IsGraph(K, P)
      BY <3>1, SubgraphIs
    <3>4. topological_sort(K) \in Seq(P)
      BY <3>3, SortIs DEF Sorts
    <3>5. new \in Seq(P)
      BY <3>1, <3>4, OnlyIs
    <3>6. q.imported \cup A \in SUBSET P /\ q.init \o new \in Seq(P)
      BY <3>2, <3>5
    <3>7. ImportFrom(t, descriptors[t].body, q, x) \in {q, [imported |-> q.imported \cup A, init |-> q.init \o new]}
      BY <3>1 DEF ImportFrom
    <3>8. [imported |-> q.imported \cup A, init |-> q.init \o new] \in X
      BY <3>6
    <3> HIDE DEF X
    <3> QED
      BY <3>7, <3>8
  <2> HIDE DEF base
  <2> QED
    BY <2>1, <2>2
<1>3. next \in [1..n -> [X -> X]]
  <2> HIDE DEF X, n
  <2> QED
    BY <1>1, <1>2
<1> HIDE DEF X
<1> HIDE DEF s, base
<1>4. PICK f \in [SUBSET (1..n) -> X] : Folds(f, n, base, next)
  <2> HIDE DEF n, next
  <2> QED
    BY <1>1, <1>2, <1>3, Folding
<1>5. ASSUME NEW T \in SUBSET (1..n), T # {} PROVE Max(T) \in 1..n /\ T \ {Max(T)} \in SUBSET (1..n)
  BY <1>1, <1>5, MaxIs
<1>6. f = [T \in SUBSET (DOMAIN s) |-> IF T = {} THEN base ELSE LET x == Max(T) IN ImportFrom(t, descriptors[t].body, f[T \ {x}], s[x])]
  <2>1. ASSUME NEW T \in SUBSET (1..n), T # {}
        PROVE  next[Max(T)][f[T \ {Max(T)}]] = ImportFrom(t, descriptors[t].body, f[T \ {Max(T)}], s[Max(T)])
    BY <1>5, <2>1
  <2> HIDE DEF next, n
  <2> QED
    BY <1>1, <1>4, <2>1 DEF Folds
<1>7. iter = [T \in SUBSET (DOMAIN s) |-> IF T = {} THEN base ELSE LET x == Max(T) IN ImportFrom(t, descriptors[t].body, iter[T \ {x}], s[x])]
  BY <1>6, Zenon
<1>8. Import(t, m, descriptors, imported) = iter[DOMAIN s]
  BY Zenon DEF Import, s, base, FoldLeft, MapThenFoldSet
<1> HIDE DEF iter
<1>9. Follows(iter, n, base, next, X)
  <2>1. iter[{}] = base
    BY <1>7
  <2>2. ASSUME NEW T \in SUBSET (1..n), T # {}, iter[T \ {Max(T)}] \in X
        PROVE  iter[T] = next[Max(T)][iter[T \ {Max(T)}]]
    <3>1. iter[T] = ImportFrom(t, descriptors[t].body, iter[T \ {Max(T)}], s[Max(T)])
      BY <1>1, <1>7, <2>2
    <3> QED
      BY <1>5, <2>2, <3>1
  <2> HIDE DEF next, n
  <2> QED
    BY <2>1, <2>2 DEF Follows
<1>10. iter[1..n] \in X
  <2> HIDE DEF n, next
  <2> QED
    BY <1>1, <1>2, <1>3, <1>9, FoldKeeps
<1> QED
  BY <1>1, <1>8, <1>10 DEF X

\* The graphs a contraction of H goes through.
GraphsOver(H, B) ==
  [nodes : Seq(B), edges : Seq(B \X B), fieldEdges : SUBSET H.fieldEdges,
   carriers : {H.carriers}, receivers : {H.receivers}]

LEMMA AddEdgeIs ==
  ASSUME NEW B, NEW H, NEW K \in GraphsOver(H, B), NEW u \in B, NEW v \in B
  PROVE  add_edge(K, <<u, v>>) \in GraphsOver(H, B)
<1>1. PICK nodes \in Seq(B), edges \in Seq(B \X B), fieldEdges \in SUBSET H.fieldEdges :
        K = [nodes |-> nodes, edges |-> edges, fieldEdges |-> fieldEdges,
             carriers |-> H.carriers, receivers |-> H.receivers]
  BY DEF GraphsOver
<1>2. PICK a : a = <<u, v>>
  OBVIOUS
<1>3. a \in Seq(B) /\ a \in B \X B
  BY <1>2
<1>4. PICK more, joined : /\ more = nodes \o Only(a, ToSet(a) \ ToSet(nodes))
                          /\ joined = IF Contains(edges, a) THEN edges ELSE Append(edges, a)
  OBVIOUS
<1>5. more \in Seq(B)
  <2>1. PICK T, q : T = ToSet(a) \ ToSet(nodes) /\ q = Only(a, T)
    OBVIOUS
  <2>2. q \in Seq(B)
    BY <1>3, <2>1, OnlyIs
  <2> QED
    <3>1. more = nodes \o q
      BY <1>4, <2>1
    <3> QED
      BY ONLY nodes \in Seq(B), <2>2, <3>1
<1>6. joined \in Seq(B \X B)
  BY <1>3, <1>4
<1>7. add_edge(K, a) = [[K EXCEPT !.nodes = more] EXCEPT !.edges = joined]
  BY <1>1, <1>4 DEF add_edge
<1>8. add_edge(K, a) = [nodes |-> more, edges |-> joined, fieldEdges |-> fieldEdges,
                        carriers |-> H.carriers, receivers |-> H.receivers]
  BY <1>1, <1>7
<1> QED
  BY <1>2, <1>5, <1>6, <1>8 DEF GraphsOver

LEMMA OverIs ==
  ASSUME NEW B, NEW H
  PROVE  /\ \A K \in GraphsOver(H, B) : IsGraph(K, B)
         /\ \A K \in GraphsOver(H, B) : \A S : subgraph(K, S) \in GraphsOver(H, B)
         /\ \A A \in SUBSET B : IsGraph(H, A) => H \in GraphsOver(H, B)
<1>1. ASSUME NEW K \in GraphsOver(H, B) PROVE IsGraph(K, B)
  BY DEF GraphsOver, IsGraph
<1>2. ASSUME NEW K \in GraphsOver(H, B), NEW S PROVE subgraph(K, S) \in GraphsOver(H, B)
  <2>1. PICK J : J = subgraph(K, S)
    OBVIOUS
  <2>2. IsGraph(J, B) /\ J.fieldEdges = K.fieldEdges \cap (S \X S) /\ J.receivers = K.receivers
    BY <1>1, <2>1, SubgraphIs
  <2>3. J.carriers = K.carriers
    <3>1. PICK x, y, z : x = Only(K.nodes, S) /\ y = Only(K.edges, S \X S) /\ z = K.fieldEdges \cap (S \X S)
      OBVIOUS
    <3>2. J = [[[K EXCEPT !.nodes = x] EXCEPT !.edges = y] EXCEPT !.fieldEdges = z]
      BY <2>1, <3>1 DEF subgraph
    <3> QED
      BY <3>2
  <2>4. K.fieldEdges \in SUBSET H.fieldEdges /\ K.carriers = H.carriers /\ K.receivers = H.receivers
    BY DEF GraphsOver
  <2>5. J = [nodes |-> J.nodes, edges |-> J.edges, fieldEdges |-> J.fieldEdges,
             carriers |-> J.carriers, receivers |-> J.receivers] /\ J.nodes \in Seq(B) /\ J.edges \in Seq(B \X B)
    BY <2>2 DEF IsGraph
  <2>6. J.fieldEdges \in SUBSET H.fieldEdges /\ J.carriers \in {H.carriers} /\ J.receivers \in {H.receivers}
    BY <2>2, <2>3, <2>4
  <2>7. J \in GraphsOver(H, B)
    BY <2>5, <2>6 DEF GraphsOver
  <2> QED
    BY <2>1, <2>7
<1>3. ASSUME NEW A \in SUBSET B, IsGraph(H, A) PROVE H \in GraphsOver(H, B)
  <2>1. PICK nodes, edges : nodes = H.nodes /\ edges = H.edges
    OBVIOUS
  <2>2. nodes \in Seq(A) /\ edges \in Seq(A \X A)
    BY <1>3, <2>1 DEF IsGraph
  <2>3. nodes \in Seq(B) /\ edges \in Seq(B \X B)
    BY <2>2
  <2> QED
    BY <1>3, <2>1, <2>3 DEF GraphsOver, IsGraph
<1> QED
  BY <1>1, <1>2, <1>3

LEMMA RedirectIs ==
  ASSUME NEW B, NEW H, NEW K \in GraphsOver(H, B), NEW inside, NEW t, -t \in B, NEW edges \in Seq(B \X B)
  PROVE  redirect_all(K, inside, t, edges) \in GraphsOver(H, B)
<1> DEFINE n == Len(edges)
           P == B \X B
           X == GraphsOver(H, B)
           next == [i \in 1..n |-> [q \in X |-> redirect(q, inside, t, edges[i])]]
           iter[T \in SUBSET (DOMAIN edges)] ==
             IF T = {} THEN K ELSE LET x == Max(T) IN redirect(iter[T \ {x}], inside, t, edges[x])
<1>1. n \in Nat /\ DOMAIN edges = 1..n /\ \A i \in 1..n : edges[i] \in P
  OBVIOUS
<1>2. K \in X /\ \A q \in X, x \in P : redirect(q, inside, t, x) \in X
  <2> SUFFICES ASSUME NEW q \in X, NEW x \in P PROVE redirect(q, inside, t, x) \in X
    OBVIOUS
  <2>1. x[1] \in B /\ x[2] \in B
    OBVIOUS
  <2>2. PICK u : u = -t
    OBVIOUS
  <2>3. u \in B
    BY <2>2
  <2>4. add_edge(q, <<u, x[2]>>) \in X /\ add_edge(q, <<x[1], u>>) \in X
    BY <2>1, <2>3, AddEdgeIs
  <2> HIDE DEF X
  <2> QED
    BY <2>2, <2>4 DEF redirect
<1>3. next \in [1..n -> [X -> X]]
  <2> HIDE DEF X, n
  <2> QED
    BY <1>1, <1>2
<1> HIDE DEF X
<1>4. PICK f \in [SUBSET (1..n) -> X] : Folds(f, n, K, next)
  <2> HIDE DEF n, next
  <2> QED
    BY <1>1, <1>2, <1>3, Folding
<1>5. ASSUME NEW T \in SUBSET (1..n), T # {} PROVE Max(T) \in 1..n /\ T \ {Max(T)} \in SUBSET (1..n)
  BY <1>1, <1>5, MaxIs
<1>6. f = [T \in SUBSET (DOMAIN edges) |-> IF T = {} THEN K ELSE LET x == Max(T) IN redirect(f[T \ {x}], inside, t, edges[x])]
  <2>1. ASSUME NEW T \in SUBSET (1..n), T # {}
        PROVE  next[Max(T)][f[T \ {Max(T)}]] = redirect(f[T \ {Max(T)}], inside, t, edges[Max(T)])
    BY <1>5, <2>1
  <2> HIDE DEF next, n
  <2> QED
    BY <1>1, <1>4, <2>1 DEF Folds
<1>7. iter = [T \in SUBSET (DOMAIN edges) |-> IF T = {} THEN K ELSE LET x == Max(T) IN redirect(iter[T \ {x}], inside, t, edges[x])]
  BY <1>6, Zenon
<1>8. redirect_all(K, inside, t, edges) = iter[DOMAIN edges]
  BY Zenon DEF redirect_all, FoldLeft, MapThenFoldSet
<1> HIDE DEF iter
<1>9. Follows(iter, n, K, next, X)
  <2>1. iter[{}] = K
    BY <1>7
  <2>2. ASSUME NEW T \in SUBSET (1..n), T # {}, iter[T \ {Max(T)}] \in X
        PROVE  iter[T] = next[Max(T)][iter[T \ {Max(T)}]]
    <3>1. iter[T] = redirect(iter[T \ {Max(T)}], inside, t, edges[Max(T)])
      BY <1>1, <1>7, <2>2
    <3> QED
      BY <1>5, <2>2, <3>1
  <2> HIDE DEF next, n
  <2> QED
    BY <2>1, <2>2 DEF Follows
<1>10. iter[1..n] \in X
  <2> HIDE DEF n, next
  <2> QED
    BY <1>1, <1>2, <1>3, <1>9, FoldKeeps
<1> QED
  BY <1>1, <1>8, <1>10 DEF X

LEMMA ContractFieldIs ==
  ASSUME NEW A, NEW B, NEW H, IsGraph(H, A), A \subseteq B,
         NEW K \in GraphsOver(H, B), NEW t, -t \in B, NEW r \in B
  PROVE  contract_field(H, K, t, r) \in GraphsOver(H, B)
<1>1. PICK u, edges, inside : u = -t /\ edges = H.edges /\ inside = (ancestors(H, r) \ ancestors(H, t)) \cup {t}
  OBVIOUS
<1>2. edges \in Seq(B \X B)
  <2>1. edges \in Seq(A \X A)
    BY <1>1 DEF IsGraph
  <2> QED
    BY <2>1
<1>3. PICK J : J = add_edge(K, <<u, r>>)
  OBVIOUS
<1>4. J \in GraphsOver(H, B)
  BY <1>1, <1>3, AddEdgeIs
<1>5. PICK L : L = redirect_all(J, inside, t, edges)
  OBVIOUS
<1>6. L \in GraphsOver(H, B)
  BY <1>2, <1>4, <1>5, RedirectIs
<1>7. contract_field(H, K, t, r) = subgraph(L, NodeSet(L) \ inside)
  BY <1>1, <1>3, <1>5 DEF contract_field
<1> QED
  BY <1>6, <1>7, OverIs

LEMMA ContractFromIs ==
  ASSUME NEW A, NEW B, NEW H, IsGraph(H, A), A \subseteq B,
         NEW K \in GraphsOver(H, B), NEW t, -t \in B, NEW pairs
  PROVE  contract_from(H, pairs, K, t) \in GraphsOver(H, B)
<1> DEFINE s == H.nodes
<1> DEFINE n == Len(s)
           X == GraphsOver(H, B)
           next == [i \in 1..n |-> [q \in X |-> (IF <<t, s[i]>> \in pairs THEN contract_field(H, q, t, s[i]) ELSE q)]]
           iter[T \in SUBSET (DOMAIN s)] ==
             IF T = {} THEN K ELSE LET x == Max(T) IN (IF <<t, s[x]>> \in pairs THEN contract_field(H, iter[T \ {x}], t, s[x]) ELSE iter[T \ {x}])
<1>1. n \in Nat /\ DOMAIN s = 1..n /\ \A i \in 1..n : s[i] \in A
  BY DEF IsGraph
<1>2. K \in X /\ \A q \in X, x \in A : (IF <<t, x>> \in pairs THEN contract_field(H, q, t, x) ELSE q) \in X
  <2> SUFFICES ASSUME NEW q \in X, NEW x \in A PROVE contract_field(H, q, t, x) \in X
    OBVIOUS
  <2> QED
    BY ContractFieldIs
<1>3. next \in [1..n -> [X -> X]]
  <2> HIDE DEF X, n
  <2> QED
    BY <1>1, <1>2
<1> HIDE DEF X
<1> HIDE DEF s
<1>4. PICK f \in [SUBSET (1..n) -> X] : Folds(f, n, K, next)
  <2> HIDE DEF n, next
  <2> QED
    BY <1>1, <1>2, <1>3, Folding
<1>5. ASSUME NEW T \in SUBSET (1..n), T # {} PROVE Max(T) \in 1..n /\ T \ {Max(T)} \in SUBSET (1..n)
  BY <1>1, <1>5, MaxIs
<1>6. f = [T \in SUBSET (DOMAIN s) |-> IF T = {} THEN K ELSE LET x == Max(T) IN (IF <<t, s[x]>> \in pairs THEN contract_field(H, f[T \ {x}], t, s[x]) ELSE f[T \ {x}])]
  <2>1. ASSUME NEW T \in SUBSET (1..n), T # {}
        PROVE  next[Max(T)][f[T \ {Max(T)}]] = (IF <<t, s[Max(T)]>> \in pairs THEN contract_field(H, f[T \ {Max(T)}], t, s[Max(T)]) ELSE f[T \ {Max(T)}])
    BY <1>5, <2>1
  <2> HIDE DEF next, n
  <2> QED
    BY <1>1, <1>4, <2>1 DEF Folds
<1>7. iter = [T \in SUBSET (DOMAIN s) |-> IF T = {} THEN K ELSE LET x == Max(T) IN (IF <<t, s[x]>> \in pairs THEN contract_field(H, iter[T \ {x}], t, s[x]) ELSE iter[T \ {x}])]
  BY <1>6, Zenon
<1>8. contract_from(H, pairs, K, t) = iter[DOMAIN s]
  BY Zenon DEF contract_from, s, FoldLeft, MapThenFoldSet
<1> HIDE DEF iter
<1>9. Follows(iter, n, K, next, X)
  <2>1. iter[{}] = K
    BY <1>7
  <2>2. ASSUME NEW T \in SUBSET (1..n), T # {}, iter[T \ {Max(T)}] \in X
        PROVE  iter[T] = next[Max(T)][iter[T \ {Max(T)}]]
    <3>1. iter[T] = (IF <<t, s[Max(T)]>> \in pairs THEN contract_field(H, iter[T \ {Max(T)}], t, s[Max(T)]) ELSE iter[T \ {Max(T)}])
      BY <1>1, <1>7, <2>2
    <3> QED
      BY <1>5, <2>2, <3>1
  <2> HIDE DEF next, n
  <2> QED
    BY <2>1, <2>2 DEF Follows
<1>10. iter[1..n] \in X
  <2> HIDE DEF n, next
  <2> QED
    BY <1>1, <1>2, <1>3, <1>9, FoldKeeps
<1> QED
  BY <1>1, <1>8, <1>10 DEF X

\* Contraction adds no nodes but the negative ids of nodes.
LEMMA ContractIs ==
  ASSUME NEW A, NEW H, IsGraph(H, A), NEW pairs
  PROVE  IsGraph(contract(H, pairs), A \cup {-n : n \in A})
<1> DEFINE s == H.nodes
           B == A \cup {-n : n \in A}
<1> DEFINE n == Len(s)
           X == GraphsOver(H, B)
           next == [i \in 1..n |-> [q \in X |-> contract_from(H, pairs, q, s[i])]]
           iter[T \in SUBSET (DOMAIN s)] ==
             IF T = {} THEN H ELSE LET x == Max(T) IN contract_from(H, pairs, iter[T \ {x}], s[x])
<1>1. n \in Nat /\ DOMAIN s = 1..n /\ \A i \in 1..n : s[i] \in A
  BY DEF IsGraph
<1>2. H \in X /\ \A q \in X, x \in A : contract_from(H, pairs, q, x) \in X
  <2>1. H \in X
    BY OverIs
  <2>2. ASSUME NEW q \in X, NEW x \in A PROVE contract_from(H, pairs, q, x) \in X
    <3>1. A \subseteq B /\ -x \in B
      OBVIOUS
    <3> HIDE DEF B
    <3> QED
      BY <3>1, ContractFromIs
  <2> QED
    BY <2>1, <2>2
<1>3. next \in [1..n -> [X -> X]]
  <2> HIDE DEF X, n
  <2> QED
    BY <1>1, <1>2
<1> HIDE DEF X
<1> HIDE DEF s
<1>4. PICK f \in [SUBSET (1..n) -> X] : Folds(f, n, H, next)
  <2> HIDE DEF n, next
  <2> QED
    BY <1>1, <1>2, <1>3, Folding
<1>5. ASSUME NEW T \in SUBSET (1..n), T # {} PROVE Max(T) \in 1..n /\ T \ {Max(T)} \in SUBSET (1..n)
  BY <1>1, <1>5, MaxIs
<1>6. f = [T \in SUBSET (DOMAIN s) |-> IF T = {} THEN H ELSE LET x == Max(T) IN contract_from(H, pairs, f[T \ {x}], s[x])]
  <2>1. ASSUME NEW T \in SUBSET (1..n), T # {}
        PROVE  next[Max(T)][f[T \ {Max(T)}]] = contract_from(H, pairs, f[T \ {Max(T)}], s[Max(T)])
    BY <1>5, <2>1
  <2> HIDE DEF next, n
  <2> QED
    BY <1>1, <1>4, <2>1 DEF Folds
<1>7. iter = [T \in SUBSET (DOMAIN s) |-> IF T = {} THEN H ELSE LET x == Max(T) IN contract_from(H, pairs, iter[T \ {x}], s[x])]
  BY <1>6, Zenon
<1>8. contract(H, pairs) = iter[DOMAIN s]
  BY Zenon DEF contract, s, FoldLeft, MapThenFoldSet
<1> HIDE DEF iter
<1>9. Follows(iter, n, H, next, X)
  <2>1. iter[{}] = H
    BY <1>7
  <2>2. ASSUME NEW T \in SUBSET (1..n), T # {}, iter[T \ {Max(T)}] \in X
        PROVE  iter[T] = next[Max(T)][iter[T \ {Max(T)}]]
    <3>1. iter[T] = contract_from(H, pairs, iter[T \ {Max(T)}], s[Max(T)])
      BY <1>1, <1>7, <2>2
    <3> QED
      BY <1>5, <2>2, <3>1
  <2> HIDE DEF next, n
  <2> QED
    BY <2>1, <2>2 DEF Follows
<1>10. iter[1..n] \in X
  <2> HIDE DEF n, next
  <2> QED
    BY <1>1, <1>2, <1>3, <1>9, FoldKeeps
<1> HIDE DEF B
<1> QED
  BY <1>1, <1>8, <1>10, OverIs DEF X, B

\* Pairs are of nodes.
LEMMA PairsIs ==
  ASSUME NEW B, NEW H, IsGraph(H, B), Simple(H)
  PROVE  find_transmitter_receiver_pairs(H) \subseteq NodeSet(H) \X NodeSet(H)
<1> DEFINE T0 == Transmitters(H)
           R0 == Receivers(H)
           D == (SUBSET T0) \X (SUBSET R0)
           X == SUBSET (T0 \X R0)
           found(q) == CleanPairs(H, q[1], q[2])
           less(q) == <<q[1] \ {p[1] : p \in found(q)}, q[2] \ {p[2] : p \in found(q)}>>
           rank == [q \in D |-> Cardinality(q[1])]
           step == [q \in D |-> [g \in [D -> X] |-> IF found(q) = {} THEN {} ELSE found(q) \cup g[less(q)]]]
           pairing[left \in (SUBSET Transmitters(H)) \X (SUBSET Receivers(H))] ==
             LET seen == CleanPairs(H, left[1], left[2])
             IN  IF seen = {} THEN {}
                 ELSE seen \cup pairing[<<left[1] \ {p[1] : p \in seen}, left[2] \ {p[2] : p \in seen}>>]
<1>1. T0 \subseteq NodeSet(H) /\ R0 \subseteq NodeSet(H)
  BY DEF Transmitters, Receivers, Simple
<1>2. PICK n \in Nat : n = Cardinality(T0) /\ IsFiniteSet(T0)
  <2>1. IsFiniteSet(NodeSet(H))
    BY ListFinite DEF IsGraph, NodeSet
  <2>2. IsFiniteSet(T0)
    BY <1>1, <2>1, FS_Subset
  <2> QED
    BY <2>2, FS_CardinalityType
<1> HIDE DEF T0, R0
<1>3. ASSUME NEW T \in SUBSET T0 PROVE IsFiniteSet(T) /\ Cardinality(T) \in 0..n
  <2>1. IsFiniteSet(T) /\ Cardinality(T) <= Cardinality(T0)
    BY <1>2, FS_Subset
  <2>2. Cardinality(T) \in Nat
    BY <2>1, FS_CardinalityType
  <2> QED
    BY <1>2, <2>1, <2>2
<1>4. ASSUME NEW q \in D
      PROVE  /\ found(q) \in X /\ less(q) \in D
             /\ found(q) # {} => Cardinality(less(q)[1]) < Cardinality(q[1])
  <2>1. q[1] \in SUBSET T0 /\ q[2] \in SUBSET R0
    OBVIOUS
  <2>2. found(q) \subseteq q[1] \X q[2]
    BY DEF CleanPairs
  <2> HIDE DEF found
  <2>3. ASSUME found(q) # {} PROVE Cardinality(less(q)[1]) < Cardinality(q[1])
    <3>1. PICK S, T : T = q[1] /\ S = less(q)[1]
      OBVIOUS
    <3>2. S \in SUBSET T /\ S # T
      BY <2>2, <2>3, <3>1
    <3>3. IsFiniteSet(T) /\ IsFiniteSet(S) /\ Cardinality(S) \in Nat /\ Cardinality(T) \in Nat
      BY <1>3, <2>1, <3>1, <3>2
    <3>4. Cardinality(S) < Cardinality(T)
      BY <3>2, <3>3, FS_Subset
    <3> QED
      BY <3>1, <3>4
  <2> QED
    BY <2>1, <2>2, <2>3
<1>5. rank \in [D -> 0..n]
  <2>1. ASSUME NEW q \in D PROVE Cardinality(q[1]) \in 0..n
    <3>1. q[1] \in SUBSET T0
      OBVIOUS
    <3> QED
      BY <1>3, <3>1
  <2> HIDE DEF D
  <2> QED
    BY <2>1
<1>6. step \in [D -> [[D -> X] -> X]]
  <2>1. ASSUME NEW q \in D, NEW g \in [D -> X] PROVE found(q) \cup g[less(q)] \in X /\ {} \in X
    <3> HIDE DEF D, found, less
    <3>1. found(q) \in X /\ g[less(q)] \in X
      BY <1>4
    <3> QED
      BY <3>1
  <2> HIDE DEF D, X, found, less
  <2> QED
    BY <2>1
<1>7. Steps(step, rank, D, X)
  <2> SUFFICES ASSUME NEW q \in D, NEW g \in [D -> X], NEW h \in [D -> X], Lower(rank, q, g, h)
               PROVE  step[q][g] = step[q][h]
    BY DEF Steps
  <2>1. ASSUME found(q) # {} PROVE g[less(q)] = h[less(q)]
    <3>1. PICK r : r = less(q)
      OBVIOUS
    <3>2. r \in D /\ rank[r] < rank[q] /\ r \in DOMAIN rank
      BY <1>4, <2>1, <3>1
    <3> HIDE DEF rank
    <3> QED
      BY <3>1, <3>2 DEF Lower
  <2> HIDE DEF D, X, found, less
  <2> QED
    BY <2>1
<1>8. PICK f \in [D -> X] : Solves(f, step, D)
  <2>1. X # {}
    OBVIOUS
  <2> HIDE DEF D, X, rank, step
  <2> QED
    BY <1>5, <1>6, <1>7, <2>1, RankedRecursion
<1>9. f = [left \in (SUBSET Transmitters(H)) \X (SUBSET Receivers(H)) |->
             LET seen == CleanPairs(H, left[1], left[2])
             IN  IF seen = {} THEN {}
                 ELSE seen \cup f[<<left[1] \ {p[1] : p \in seen}, left[2] \ {p[2] : p \in seen}>>]]
  <2>1. \A q \in D : f[q] = IF found(q) = {} THEN {} ELSE found(q) \cup f[less(q)]
    <3> HIDE DEF D, X, found, less
    <3> QED
      BY <1>8 DEF Solves
  <2>2. f = [q \in D |-> f[q]]
    OBVIOUS
  <2>3. f = [q \in D |-> IF found(q) = {} THEN {} ELSE found(q) \cup f[less(q)]]
    <3> HIDE DEF D, X, found, less
    <3> QED
      BY <2>1, <2>2
  <2> HIDE DEF X
  <2> QED
    BY <2>3, Zenon DEF T0, R0
<1>10. pairing = [left \in (SUBSET Transmitters(H)) \X (SUBSET Receivers(H)) |->
             LET seen == CleanPairs(H, left[1], left[2])
             IN  IF seen = {} THEN {}
                 ELSE seen \cup pairing[<<left[1] \ {p[1] : p \in seen}, left[2] \ {p[2] : p \in seen}>>]]
  BY <1>9, Zenon
<1>11. find_transmitter_receiver_pairs(H) = pairing[<<Transmitters(H), Receivers(H)>>]
  BY Zenon DEF find_transmitter_receiver_pairs
<1> HIDE DEF pairing
<1> DEFINE S == {q \in D : pairing[q] \in X}
<1>12. ASSUME NEW q \in D, \A e \in D : rank[e] < rank[q] => e \in S PROVE q \in S
  <2>1. pairing[q] = IF found(q) = {} THEN {} ELSE found(q) \cup pairing[less(q)]
    BY <1>10 DEF T0, R0
  <2>2. found(q) # {} => rank[less(q)] < rank[q]
    BY <1>4
  <2>3. found(q) \in X /\ less(q) \in D
    BY <1>4
  <2>4. found(q) # {} => pairing[less(q)] \in X
    <3> HIDE DEF D, X, found, less, rank
    <3> QED
      BY <1>12, <2>2, <2>3
  <2>5. pairing[q] \in X
    BY <2>1, <2>3, <2>4
  <2> QED
    BY <2>5
<1>13. D \subseteq S
  <2>1. rank \in [D -> Nat]
    <3> HIDE DEF D, rank
    <3> QED
      BY <1>5
  <2> HIDE DEF D, rank, S
  <2> QED
    BY <1>12, <2>1, Ranked
<1>14. <<T0, R0>> \in S
  BY <1>13
<1> QED
  BY <1>1, <1>11, <1>14 DEF T0, R0

-----------------------------------------------------------------------------
(* The walk of a field. *)

LEMMA BranchesAre ==
  ASSUME NEW B, NEW H, IsGraph(H, B), Simple(H), NEW m
  PROVE  branches(H, m) \in Seq(NodeSet(H)) /\ \A x \in ToSet(branches(H, m)) : <<m, x>> \in EdgeSet(H)
<1> DEFINE s == successors(H, m)
           Out == {a[2] : a \in {b \in EdgeSet(H) : b[1] = m}}
           Class(c) == Only(s, {x \in NodeSet(H) : count_pairs(H, x) = c})
<1>1. s \in Seq(B) /\ ToSet(s) = Out
  BY NeighboursAre
<1>2. \A a \in EdgeSet(H) : a = <<a[1], a[2]>> /\ a[1] \in NodeSet(H) /\ a[2] \in NodeSet(H)
  BY DEF Simple
<1>3. Out \subseteq NodeSet(H) /\ \A x \in Out : <<m, x>> \in EdgeSet(H)
  BY <1>2
<1> HIDE DEF Out, s
<1>4. s \in Seq(Out)
  BY <1>1, ListType
<1>5. ASSUME NEW c PROVE Class(c) \in Seq(Out)
  BY <1>4, OnlyIs
<1>6. branches(H, m) = Class(0) \o Class(1) \o Class(2)
  BY DEF branches, s
<1> HIDE DEF Class
<1>7. branches(H, m) \in Seq(Out)
  BY <1>5, <1>6
<1>8. ToSet(branches(H, m)) \subseteq Out
  BY <1>7 DEF ToSet
<1>9. ToSet(branches(H, m)) \subseteq NodeSet(H)
  BY <1>3, <1>8
<1> QED
  BY <1>3, <1>7, <1>8, <1>9, ListType

Visits(visit, s, Y) == [i \in 1..Len(s) |-> [q \in Y |-> IF Contains(q, s[i]) THEN q ELSE visit[<<s[i], q>>]]]

LEMMA VisitFollows ==
  ASSUME NEW P, NEW s \in Seq(P), NEW Y, NEW done \in Y, NEW visit,
         \A m \in ToSet(s), q \in Y : visit[<<m, q>>] \in Y
  PROVE  /\ Visits(visit, s, Y) \in [1..Len(s) -> [Y -> Y]]
         /\ \E g : Follows(g, Len(s), done, Visits(visit, s, Y), Y) /\ visit_all(visit, done, s) = g[1..Len(s)]
<1> DEFINE n == Len(s)
           X == Y
           P0 == ToSet(s)
           next == [i \in 1..n |-> [q \in X |-> (IF Contains(q, s[i]) THEN q ELSE visit[<<s[i], q>>])]]
           iter[T \in SUBSET (DOMAIN s)] ==
             IF T = {} THEN done ELSE LET x == Max(T) IN (IF Contains(iter[T \ {x}], s[x]) THEN iter[T \ {x}] ELSE visit[<<s[x], iter[T \ {x}]>>])
<1>1. n \in Nat /\ DOMAIN s = 1..n /\ \A i \in 1..n : s[i] \in P0
  BY DEF ToSet
<1>2. done \in X /\ \A q \in X, x \in P0 : (IF Contains(q, x) THEN q ELSE visit[<<x, q>>]) \in X
  OBVIOUS
<1>3. next \in [1..n -> [X -> X]]
  <2> HIDE DEF X, n
  <2> QED
    BY <1>1, <1>2
<1> HIDE DEF X, P0
<1>4. PICK f \in [SUBSET (1..n) -> X] : Folds(f, n, done, next)
  <2> HIDE DEF n, next
  <2> QED
    BY <1>1, <1>2, <1>3, Folding
<1>5. ASSUME NEW T \in SUBSET (1..n), T # {} PROVE Max(T) \in 1..n /\ T \ {Max(T)} \in SUBSET (1..n)
  BY <1>1, <1>5, MaxIs
<1>6. f = [T \in SUBSET (DOMAIN s) |-> IF T = {} THEN done ELSE LET x == Max(T) IN (IF Contains(f[T \ {x}], s[x]) THEN f[T \ {x}] ELSE visit[<<s[x], f[T \ {x}]>>])]
  <2>1. ASSUME NEW T \in SUBSET (1..n), T # {}
        PROVE  next[Max(T)][f[T \ {Max(T)}]] = (IF Contains(f[T \ {Max(T)}], s[Max(T)]) THEN f[T \ {Max(T)}] ELSE visit[<<s[Max(T)], f[T \ {Max(T)}]>>])
    BY <1>5, <2>1
  <2> HIDE DEF next, n
  <2> QED
    BY <1>1, <1>4, <2>1 DEF Folds
<1>7. iter = [T \in SUBSET (DOMAIN s) |-> IF T = {} THEN done ELSE LET x == Max(T) IN (IF Contains(iter[T \ {x}], s[x]) THEN iter[T \ {x}] ELSE visit[<<s[x], iter[T \ {x}]>>])]
  BY <1>6, Zenon
<1>8. visit_all(visit, done, s) = iter[DOMAIN s]
  BY Zenon DEF visit_all, FoldLeft, MapThenFoldSet
<1> HIDE DEF iter
<1>9. Follows(iter, n, done, next, X)
  <2>1. iter[{}] = done
    BY <1>7
  <2>2. ASSUME NEW T \in SUBSET (1..n), T # {}, iter[T \ {Max(T)}] \in X
        PROVE  iter[T] = next[Max(T)][iter[T \ {Max(T)}]]
    <3>1. iter[T] = (IF Contains(iter[T \ {Max(T)}], s[Max(T)]) THEN iter[T \ {Max(T)}] ELSE visit[<<s[Max(T)], iter[T \ {Max(T)}]>>])
      BY <1>1, <1>7, <2>2
    <3> QED
      BY <1>5, <2>2, <3>1
  <2> HIDE DEF next, n
  <2> QED
    BY <2>1, <2>2 DEF Follows
<1>10. next = Visits(visit, s, Y)
  BY DEF Visits, X
<1>11. iter[DOMAIN s] = iter[1..n]
  BY <1>1
<1> HIDE DEF next
<1>12. Follows(iter, n, done, Visits(visit, s, Y), Y) /\ visit_all(visit, done, s) = iter[1..n]
  BY <1>8, <1>9, <1>10, <1>11 DEF X
<1>13. \E g : Follows(g, n, done, Visits(visit, s, Y), Y) /\ visit_all(visit, done, s) = g[1..n]
  <2> HIDE DEF n
  <2> QED
    BY <1>12, Zenon
<1> QED
  BY <1>3, <1>10, <1>13 DEF X

LEMMA VisitAllIs ==
  ASSUME NEW P, NEW s \in Seq(P), NEW Y, NEW done \in Y, NEW visit,
         \A m \in ToSet(s), q \in Y : visit[<<m, q>>] \in Y
  PROVE  visit_all(visit, done, s) \in Y
<1>1. PICK n, next : n = Len(s) /\ next = Visits(visit, s, Y)
  OBVIOUS
<1>2. n \in Nat /\ next \in [1..n -> [Y -> Y]]
  BY <1>1, VisitFollows
<1>3. PICK g : Follows(g, n, done, next, Y) /\ visit_all(visit, done, s) = g[1..n]
  BY <1>1, VisitFollows
<1> QED
  BY <1>2, <1>3, FoldKeeps

LEMMA VisitSame ==
  ASSUME NEW P, NEW s \in Seq(P), NEW Y, NEW done \in Y, NEW visit, NEW other,
         \A m \in ToSet(s), q \in Y : visit[<<m, q>>] \in Y /\ other[<<m, q>>] = visit[<<m, q>>]
  PROVE  visit_all(visit, done, s) = visit_all(other, done, s)
<1>1. PICK n, next : n = Len(s) /\ next = Visits(visit, s, Y)
  OBVIOUS
<1>2. n \in Nat /\ next \in [1..n -> [Y -> Y]]
  BY <1>1, VisitFollows
<1>3. next = Visits(other, s, Y)
  <2>1. \A i \in 1..Len(s) : s[i] \in ToSet(s)
    BY DEF ToSet
  <2> QED
    BY <1>1, <2>1 DEF Visits
<1>4. PICK g : Follows(g, n, done, next, Y) /\ visit_all(visit, done, s) = g[1..n]
  BY <1>1, VisitFollows
<1>5. PICK h : Follows(h, n, done, next, Y) /\ visit_all(other, done, s) = h[1..n]
  <2>1. \A m \in ToSet(s), q \in Y : other[<<m, q>>] \in Y
    OBVIOUS
  <2>2. \E h : Follows(h, Len(s), done, Visits(other, s, Y), Y) /\ visit_all(other, done, s) = h[1..Len(s)]
    BY <2>1, VisitFollows
  <2> QED
    BY <1>1, <1>3, <2>2
<1> QED
  BY <1>2, <1>4, <1>5, FoldSame

\* The places of a sort count the nodes along the edges.
LEMMA PlacesAre ==
  ASSUME NEW B, NEW K, IsGraph(K, B), Simple(K), is_acyclic(K)
  PROVE  \E n \in Nat : \E place \in [NodeSet(K) -> 1..n] : \A a \in EdgeSet(K) : place[a[1]] < place[a[2]]
<1>1. PICK s : s = topological_sort(K)
  OBVIOUS
<1>2. s \in Seq(B) /\ ToSet(s) = NodeSet(K) /\ Distinct(s) /\ InOrder(K, s)
  BY <1>1, SortIs, SortsAll DEF Sorts
<1>3. PICK n \in Nat : n = Len(s) /\ DOMAIN s = 1..n
  BY <1>2
<1> DEFINE place == [x \in NodeSet(K) |-> CHOOSE i \in 1..n : s[i] = x]
<1>4. \A x \in NodeSet(K) : place[x] \in 1..n /\ s[place[x]] = x
  BY <1>2, <1>3 DEF ToSet
<1>5. place \in [NodeSet(K) -> 1..n]
  BY <1>4
<1> HIDE DEF place
<1>6. ASSUME NEW a \in EdgeSet(K) PROVE place[a[1]] < place[a[2]]
  <2>1. a[1] \in NodeSet(K) /\ a[2] \in NodeSet(K)
    BY DEF Simple
  <2>2. PICK i \in DOMAIN s : i < place[a[2]] /\ s[i] = a[1]
    BY <1>2, <1>3, <1>4, <2>1 DEF InOrder
  <2>3. i = place[a[1]]
    BY <1>2, <1>3, <1>4, <2>1, <2>2 DEF Distinct
  <2> QED
    BY <2>2, <2>3
<1> QED
  BY <1>5, <1>6

\* In a graph without cycles the walk ends, and it is one of nodes.
LEMMA WalkIs ==
  ASSUME NEW B, NEW H, IsGraph(H, B), Simple(H), NEW start \in NodeSet(H),
         NEW n \in Nat, NEW place \in [NodeSet(H) -> 1..n], \A a \in EdgeSet(H) : place[a[1]] < place[a[2]]
  PROVE  modified_dfs(H, start) \in Seq(NodeSet(H))
<1> DEFINE P == NodeSet(H)
           Y == Seq(P)
           D == P \X Y
           rank == [p \in D |-> n - place[p[1]]]
           step == [p \in D |-> [g \in [D -> Y] |-> Append(visit_all(g, p[2], branches(H, p[1])), p[1])]]
           visit[p \in NodeSet(H) \X Seq(NodeSet(H))] ==
             Append(visit_all(visit, p[2], branches(H, p[1])), p[1])
<1>1. rank \in [D -> 0..n]
  <2>1. ASSUME NEW p \in D PROVE n - place[p[1]] \in 0..n
    <3>1. place[p[1]] \in 1..n
      OBVIOUS
    <3> QED
      BY <3>1
  <2> HIDE DEF D
  <2> QED
    BY <2>1
<1>2. ASSUME NEW p \in D
      PROVE  /\ p[1] \in P /\ p[2] \in Y /\ branches(H, p[1]) \in Y
             /\ \A m \in ToSet(branches(H, p[1])), q \in Y : <<m, q>> \in D /\ rank[<<m, q>>] < rank[p]
  <2>1. p[1] \in P /\ p[2] \in Y /\ branches(H, p[1]) \in Y
    BY BranchesAre
  <2>2. ASSUME NEW m \in ToSet(branches(H, p[1])), NEW q \in Y PROVE <<m, q>> \in D /\ rank[<<m, q>>] < rank[p]
    <3>1. <<p[1], m>> \in EdgeSet(H)
      BY BranchesAre
    <3>2. m \in P /\ place[p[1]] < place[m]
      BY <3>1 DEF Simple
    <3>3. <<m, q>> \in D
      BY <3>2
    <3>4. rank[<<m, q>>] = n - place[m] /\ rank[p] = n - place[p[1]] /\ place[m] \in 1..n /\ place[p[1]] \in 1..n
      BY <2>1, <3>2, <3>3
    <3> QED
      BY <3>2, <3>3, <3>4
  <2> QED
    BY <2>1, <2>2
<1> HIDE DEF rank
<1>3. ASSUME NEW p \in D, NEW g, \A q \in D : rank[q] < rank[p] => g[q] \in Y
      PROVE  Append(visit_all(g, p[2], branches(H, p[1])), p[1]) \in Y
  <2>1. PICK s, done : s = branches(H, p[1]) /\ done = p[2]
    OBVIOUS
  <2>2. s \in Seq(P) /\ done \in Y /\ \A m \in ToSet(s), q \in Y : g[<<m, q>>] \in Y
    BY <1>2, <1>3, <2>1
  <2>3. visit_all(g, done, s) \in Y
    <3> HIDE DEF Y, P
    <3> QED
      BY <2>2, VisitAllIs
  <2> QED
    BY <1>2, <2>1, <2>3
<1>4. step \in [D -> [[D -> Y] -> Y]]
  <2>1. ASSUME NEW p \in D, NEW g \in [D -> Y] PROVE Append(visit_all(g, p[2], branches(H, p[1])), p[1]) \in Y
    <3>1. \A q \in D : g[q] \in Y
      OBVIOUS
    <3> HIDE DEF D, Y
    <3> QED
      BY <1>3, <3>1
  <2> HIDE DEF D, Y
  <2> QED
    BY <2>1
<1>5. Steps(step, rank, D, Y)
  <2> SUFFICES ASSUME NEW p \in D, NEW g \in [D -> Y], NEW h \in [D -> Y], Lower(rank, p, g, h)
               PROVE  step[p][g] = step[p][h]
    BY DEF Steps
  <2>1. PICK s, done : s = branches(H, p[1]) /\ done = p[2]
    OBVIOUS
  <2>2. s \in Seq(P) /\ done \in Y /\ \A m \in ToSet(s), q \in Y : <<m, q>> \in D /\ rank[<<m, q>>] < rank[p]
    BY <1>2, <2>1
  <2>3. DOMAIN rank = D
    BY <1>1
  <2> HIDE DEF D, Y, P
  <2>4. \A m \in ToSet(s), q \in Y : g[<<m, q>>] \in Y /\ h[<<m, q>>] = g[<<m, q>>]
    BY <2>2, <2>3 DEF Lower
  <2>5. visit_all(g, done, s) = visit_all(h, done, s)
    BY <2>2, <2>4, VisitSame
  <2> QED
    BY <2>1, <2>5
<1>6. PICK f \in [D -> Y] : Solves(f, step, D)
  <2>1. Y # {}
    <3>1. <<>> \in Y
      OBVIOUS
    <3> QED
      BY <3>1
  <2> HIDE DEF D, Y, step
  <2> QED
    BY <1>1, <1>4, <1>5, <2>1, RankedRecursion
<1>7. f = [p \in NodeSet(H) \X Seq(NodeSet(H)) |-> Append(visit_all(f, p[2], branches(H, p[1])), p[1])]
  <2>1. \A p \in D : f[p] = Append(visit_all(f, p[2], branches(H, p[1])), p[1])
    <3> HIDE DEF D, Y
    <3> QED
      BY <1>6 DEF Solves
  <2>2. f = [p \in D |-> f[p]]
    OBVIOUS
  <2>3. f = [p \in D |-> Append(visit_all(f, p[2], branches(H, p[1])), p[1])]
    <3> HIDE DEF D, Y
    <3> QED
      BY <2>1, <2>2
  <2> QED
    BY <2>3
<1>8. visit = [p \in NodeSet(H) \X Seq(NodeSet(H)) |-> Append(visit_all(visit, p[2], branches(H, p[1])), p[1])]
  BY <1>7, Zenon
<1>9. modified_dfs(H, start) = Reverse(visit[<<start, <<>>>>])
  BY Zenon DEF modified_dfs
<1> HIDE DEF visit
<1> DEFINE S == {p \in D : visit[p] \in Y}
<1>10. ASSUME NEW p \in D, \A e \in D : rank[e] < rank[p] => e \in S PROVE p \in S
  <2>1. visit[p] = Append(visit_all(visit, p[2], branches(H, p[1])), p[1])
    BY <1>8
  <2>2. \A q \in D : rank[q] < rank[p] => visit[q] \in Y
    <3> HIDE DEF D, Y
    <3> QED
      BY <1>10
  <2> HIDE DEF D, Y
  <2> QED
    BY <1>3, <2>1, <2>2
<1>11. D \subseteq S
  <2>1. rank \in [D -> Nat]
    <3> HIDE DEF D
    <3> QED
      BY <1>1
  <2> HIDE DEF D, S
  <2> QED
    BY <1>10, <2>1, Ranked
<1>12. visit[<<start, <<>>>>] \in Y
  <2>1. PICK none : none = <<>>
    OBVIOUS
  <2>2. none \in Seq(P)
    BY <2>1
  <2>3. <<start, none>> \in P \X Y
    BY <2>2
  <2>4. <<start, <<>>>> \in D
    BY <2>1, <2>3
  <2> QED
    BY <1>11, <2>4
<1>13. PICK s \in Seq(P) : s = visit[<<start, <<>>>>]
  BY <1>12
<1>14. Reverse(s) \in Seq(P)
  <2>1. \A i \in 1..Len(s) : Len(s) - i + 1 \in 1..Len(s)
    OBVIOUS
  <2>2. \A i \in 1..Len(s) : s[Len(s) - i + 1] \in P
    BY <2>1
  <2>3. Len(s) \in Nat
    OBVIOUS
  <2> HIDE DEF P
  <2> QED
    BY <2>2, <2>3 DEF Reverse
<1> QED
  BY <1>9, <1>13, <1>14

-----------------------------------------------------------------------------
(* The iterators. *)

Signed(P) == P \cup {-n : n \in P}

LEMMA SortFromIs ==
  ASSUME NEW P, IsGraph(G, P), NEW n
  PROVE  SortFrom(n) \in Seq(Signed(P))
<1>1. PICK right, found, outer, C : /\ right = subgraph(G, split_graph(G, n))
                                    /\ found = find_transmitter_receiver_pairs(right)
                                    /\ outer = find_outermost_pair(right, found)
                                    /\ C = component(right, n)
  OBVIOUS
<1>2. SortFrom(n) = topological_sort(IF found # {} THEN contract(G, outer) ELSE subgraph(G, C))
  BY <1>1 DEF SortFrom
<1>3. topological_sort(contract(G, outer)) \in Seq(Signed(P))
  <2>1. PICK K, S : K = contract(G, outer) /\ S = Signed(P)
    OBVIOUS
  <2>2. IsGraph(K, S)
    BY <2>1, ContractIs DEF Signed
  <2> QED
    BY <2>1, <2>2, SortIs DEF Sorts
<1>4. topological_sort(subgraph(G, C)) \in Seq(Signed(P))
  <2>1. PICK K, s : K = subgraph(G, C) /\ s = topological_sort(K)
    OBVIOUS
  <2>2. IsGraph(K, P)
    BY <2>1, SubgraphIs
  <2>3. s \in Seq(P)
    BY <2>1, <2>2, SortIs DEF Sorts
  <2>4. PICK S : S = Signed(P)
    OBVIOUS
  <2>5. P \subseteq S
    BY <2>4 DEF Signed
  <2> QED
    BY <2>1, <2>3, <2>4, <2>5
<1> QED
  BY <1>2, <1>3, <1>4

Iterator(P) == [home : P \cup {NoNode}, sorted : Seq(Signed(P)), index : Nat \ {0}, near : Seq(P)]
HasHome(P, d) == d \in Iterator(P) /\ (d.sorted # <<>> => d.home \in P)

LEMMA SetDefaultIs ==
  ASSUME NEW P, IsGraph(G, P), HasHome(P, dit), NEW n \in P
  PROVE  HasHome(P, SetDefault(n)) /\ SetDefault(n).home \in P
<1> DEFINE all == dit.sorted \o SortFrom(n)
           at == CHOOSE i \in DOMAIN all : all[i] = n /\ \A j \in 1..(i - 1) : all[j] # n
           sorted == IF Contains(all, n) THEN [all EXCEPT ![at] = all[1], ![1] = n] ELSE all
<1>1. PICK home \in P \cup {NoNode}, old \in Seq(Signed(P)), index \in Nat \ {0}, near \in Seq(P) :
        dit = [home |-> home, sorted |-> old, index |-> index, near |-> near]
  BY DEF HasHome, Iterator
<1>2. PICK new \in Seq(Signed(P)) : new = SortFrom(n)
  BY SortFromIs
<1>3. all \in Seq(Signed(P))
  BY <1>1, <1>2
<1>4. n \in Signed(P)
  BY DEF Signed
<1> HIDE DEF all, at
<1>5. sorted \in Seq(Signed(P))
  <2>1. CASE Contains(all, n)
    <3>1. 1 \in DOMAIN all /\ Len(all) \in Nat /\ DOMAIN all = 1..Len(all)
      BY <1>3, <2>1 DEF Contains
    <3>2. all[1] \in Signed(P)
      BY <1>3, <3>1
    <3>3. PICK x : x = all[1]
      OBVIOUS
    <3>4. sorted = [i \in 1..Len(all) |-> IF i = 1 THEN n ELSE IF i = at THEN x ELSE all[i]]
      BY <2>1, <3>1, <3>3
    <3>5. \A i \in 1..Len(all) : all[i] \in Signed(P)
      BY <1>3, <3>1
    <3>6. \A i \in 1..Len(all) : (IF i = 1 THEN n ELSE IF i = at THEN x ELSE all[i]) \in Signed(P)
      BY <1>4, <3>2, <3>3, <3>5
    <3> HIDE DEF sorted
    <3> QED
      BY <3>1, <3>4, <3>6
  <2>2. CASE ~Contains(all, n)
    BY <1>3, <2>2
  <2> QED
    BY <2>1, <2>2
<1> HIDE DEF sorted
<1>6. CASE Contains(dit.sorted, n)
  <2>1. SetDefault(n) = [dit EXCEPT !.index = 1]
    BY <1>6 DEF SetDefault
  <2>2. SetDefault(n) = [home |-> home, sorted |-> old, index |-> 1, near |-> near]
    BY <1>1, <2>1
  <2>3. dit.sorted # <<>>
    BY <1>1, <1>6 DEF Contains
  <2>4. home \in P
    BY <1>1, <2>3 DEF HasHome
  <2> QED
    BY <2>2, <2>4 DEF HasHome, Iterator
<1>7. CASE ~Contains(dit.sorted, n)
  <2>1. SetDefault(n) = [home |-> n, index |-> 1, near |-> successors(G, n), sorted |-> sorted]
    BY <1>7 DEF SetDefault, sorted, all, at
  <2>2. successors(G, n) \in Seq(P)
    BY NeighboursAre
  <2> QED
    BY <1>5, <2>1, <2>2 DEF HasHome, Iterator
<1> QED
  BY <1>6, <1>7

\* Planning starts within the part.
LEMMA StartNodesAre ==
  ASSUME NEW B, IsGraph(G, B), Simple(G), is_acyclic(G), NodeSet(G) # {}
  PROVE  calculate_start_nodes(G) \subseteq NodeSet(G)
<1>1. PICK s, q : s = topological_sort(G) /\ q = Only(s, Free(G, {}))
  OBVIOUS
<1>2. s \in Seq(B) /\ ToSet(s) = NodeSet(G) /\ InOrder(G, s)
  BY <1>1, SortIs, SortsAll DEF Sorts
<1>3. Len(s) \in Nat /\ DOMAIN s = 1..Len(s) /\ 1 \in DOMAIN s
  BY <1>2 DEF ToSet
<1>4. s[1] \in NodeSet(G)
  BY <1>2, <1>3 DEF ToSet
<1>5. s[1] \in Free(G, {})
  <2>1. ASSUME NEW a \in EdgeSet(G), a[2] = s[1] PROVE FALSE
    BY <1>2, <1>3, <2>1 DEF InOrder
  <2>2. ToSet(predecessors(G, s[1])) = {}
    BY <2>1, NeighboursAre
  <2> QED
    BY <1>4, <2>2 DEF Free
<1>6. q \in Seq(B) /\ ToSet(q) = ToSet(s) \cap Free(G, {})
  BY <1>1, <1>2, OnlyIs
<1>7. q # <<>>
  BY <1>2, <1>4, <1>5, <1>6 DEF ToSet
<1>8. Head(q) \in ToSet(q)
  BY <1>6, <1>7 DEF ToSet
<1>9. Sources(G) = q
  BY <1>1 DEF Sources
<1> QED
  BY <1>2, <1>6, <1>8, <1>9 DEF calculate_start_nodes

LEMMA OwnGraph ==
  ASSUME NEW B, NEW H, IsGraph(H, B), Simple(H)
  PROVE  IsGraph(H, NodeSet(H))
<1>1. PICK nodes, edges, P, E : nodes = H.nodes /\ edges = H.edges /\ P = NodeSet(H) /\ E = P \X P
  OBVIOUS
<1>2. nodes \in Seq(P)
  BY <1>1, ListType DEF IsGraph, NodeSet
<1>3. edges \in Seq(E)
  <2>1. PICK C : C = B \X B /\ edges \in Seq(C)
    BY <1>1 DEF IsGraph
  <2>2. ToSet(edges) \subseteq E
    BY <1>1 DEF Simple, EdgeSet
  <2> QED
    BY <2>1, <2>2, ListType
<1> QED
  BY <1>1, <1>2, <1>3 DEF IsGraph

-----------------------------------------------------------------------------
(* The inductive invariant. *)

Planning == pc \in {"start", "next", "offer"}
Part == NodeSet(G)

\* The parts that are left are whole; the others are planned, each node once,
\* or have a cycle.
PartsInv ==
  /\ IsDrawing(drawing) /\ pc \in {"part", "start", "next", "offer", "done", "failed"}
  /\ todo \subseteq ToSet(drawing.nodes) /\ Crossed(EdgeSet(Drawn), todo) /\ (pc = "done" => todo = {})
  /\ plans \in Seq(Nodes) /\ Distinct(plans) /\ ToSet(plans) \subseteq Sortable \ todo

\* The part being planned is none of the others, has no cycle and has a field.
PartInv ==
  Planning =>
    /\ IsGraph(G, Part) /\ Simple(G) /\ is_acyclic(G) /\ Part # {}
    /\ Part \subseteq Sortable \ (todo \cup ToSet(plans))
    /\ \A n \in Part : ~Fieldless(n)

\* What the iterators and the plan hold is of this part.
Walker(P) ==
  [walk : Seq(P), visited : SUBSET P, pairs : SUBSET (P \X P), stack : Seq(P), ended : BOOLEAN, imported : SUBSET P]
DefaultInv == Planning => HasHome(Part, dit)
FieldInv == Planning /\ itr = "field" => fit \in Walker(Part)
PlanInv ==
  /\ Planning => plan \in Seq(Part)
  /\ pc \in {"next", "offer"} => last \in Part /\ itr \in {"default", "field"}
  /\ pc = "offer" => offer \in Part

\* The init nodes of a node are of its part.
Descriptor == [receiver : Nodes \cup {NoNode}, body : SUBSET Nodes, inner : SUBSET Nodes, init : Seq(Nodes)]
FieldsInv ==
  /\ fields \in [Nodes -> Descriptor]
  /\ \A n \in todo : fields[n].init = <<>>
  /\ Planning => \A n \in Part : fields[n].init \in Seq(Part)

\* The parts without fields that were taken are planned, in order.
After(n) ==
  /\ n \in ToSet(plans)
  /\ \A u \in ToSet(predecessors(Drawn, n)) : \A j \in DOMAIN plans :
       plans[j] = n => \E i \in DOMAIN plans : i < j /\ plans[i] = u
PlainInv == \A n \in Sortable \ todo : Fieldless(n) => After(n)

Inv == PartsInv /\ PartInv /\ DefaultInv /\ FieldInv /\ PlanInv /\ FieldsInv /\ PlainInv

LEMMA PartTaken ==
  ASSUME PartsInv, todo # {}, NEW C, C = NextComponent, NEW K, K = subgraph(Drawn, C)
  PROVE  /\ C \subseteq todo /\ C # {} /\ Crossed(EdgeSet(Drawn), todo \ C)
         /\ IsGraph(K, C) /\ Simple(K) /\ NodeSet(K) = C
         /\ C \subseteq Nodes
         /\ is_acyclic(K) => C \subseteq Sortable
         /\ ~is_acyclic(K) => C \cap Sortable = {}
         /\ \A n \in C : Fieldless(n) <=> Transmitters(K) = {}
         /\ \A n \in C : ToSet(predecessors(K, n)) = ToSet(predecessors(Drawn, n))
<1>1. IsGraph(Drawn, Nodes) /\ Simple(Drawn) /\ NodeSet(Drawn) = ToSet(drawing.nodes)
  BY GraphIs DEF PartsInv, Drawn
<1>2. PICK q : q = Only(drawing.nodes, todo)
  OBVIOUS
<1>3. q \in Seq(Nodes) /\ ToSet(q) = todo
  <2>1. drawing.nodes \in Seq(Nodes) /\ todo \subseteq ToSet(drawing.nodes)
    BY DEF PartsInv, IsDrawing
  <2>2. q \in Seq(Nodes) /\ ToSet(q) = ToSet(drawing.nodes) \cap todo
    BY <1>2, <2>1, OnlyIs
  <2> QED
    BY <2>1, <2>2
<1>4. PICK m : m = Head(q)
  OBVIOUS
<1>5. m \in todo
  <2>1. q # <<>>
    BY <1>3 DEF ToSet
  <2> QED
    BY <1>3, <1>4, <2>1 DEF ToSet
<1>6. C = component(Drawn, m)
  BY <1>2, <1>4 DEF NextComponent, Drawn
<1>7. m \in NodeSet(Drawn)
  BY <1>1, <1>5 DEF PartsInv
<1>8. /\ m \in C /\ C \subseteq NodeSet(Drawn) /\ Crossed(EdgeSet(Drawn), C)
      /\ \A n \in C : component(Drawn, n) = C
      /\ \A W : m \in W /\ Crossed(EdgeSet(Drawn), W) => C \subseteq W
  BY <1>1, <1>6, <1>7, ComponentIs
<1>9. C \subseteq todo /\ Crossed(EdgeSet(Drawn), todo \ C)
  BY <1>5, <1>8 DEF PartsInv, Crossed
<1>10. IsGraph(K, Nodes) /\ Simple(K) /\ NodeSet(K) = C /\ EdgeSet(K) = EdgeSet(Drawn) \cap (C \X C)
  <2>1. NodeSet(K) = NodeSet(Drawn) \cap C
    BY <1>1, SubgraphIs
  <2> QED
    BY <1>1, <1>8, <2>1, SubgraphIs
<1>11. IsGraph(K, C)
  BY <1>10, OwnGraph
<1>12. C \subseteq Nodes
  BY <1>1, <1>8 DEF IsGraph, NodeSet, ToSet
<1>13. \A n \in C : n \in Sortable <=> is_acyclic(K)
  BY <1>1, <1>8 DEF Sortable
<1>14. \A n \in C : Fieldless(n) <=> Transmitters(K) = {}
  BY <1>8 DEF Fieldless
<1>15. ASSUME NEW n \in C PROVE ToSet(predecessors(K, n)) = ToSet(predecessors(Drawn, n))
  <2>1. /\ ToSet(predecessors(K, n)) = {a[1] : a \in {b \in EdgeSet(K) : b[2] = n}}
        /\ ToSet(predecessors(Drawn, n)) = {a[1] : a \in {b \in EdgeSet(Drawn) : b[2] = n}}
    BY <1>1, <1>10, NeighboursAre
  <2>2. \A a \in EdgeSet(Drawn) : a[2] = n => a \in C \X C
    BY <1>1, <1>8 DEF Crossed, Simple
  <2> QED
    BY <1>10, <2>1, <2>2
<1> QED
  BY <1>8, <1>9, <1>10, <1>11, <1>12, <1>13, <1>14, <1>15

\* What the parts say of a longer list of plans.
LEMMA AfterJoined ==
  ASSUME plans \in Seq(Nodes), NEW s \in Seq(Nodes), NEW n, After(n), n \notin ToSet(s),
         plans' = plans \o s, drawing' = drawing
  PROVE  After(n)'
<1>1. Drawn' = Drawn
  BY DEF Drawn
<1>2. PICK q : q = plans'
  OBVIOUS
<1>3. /\ DOMAIN plans = 1..Len(plans) /\ Len(plans) \in Nat /\ Len(s) \in Nat /\ DOMAIN s = 1..Len(s)
      /\ DOMAIN q = 1..(Len(plans) + Len(s))
      /\ \A i \in 1..Len(plans) : q[i] = plans[i]
      /\ \A i \in 1..Len(s) : q[Len(plans) + i] = s[i]
  BY <1>2
<1>4. \A j \in DOMAIN q : q[j] = n => j \in DOMAIN plans
  <2> SUFFICES ASSUME NEW j \in DOMAIN q, q[j] = n, j \notin DOMAIN plans PROVE FALSE
    OBVIOUS
  <2>1. j - Len(plans) \in DOMAIN s /\ j = Len(plans) + (j - Len(plans))
    BY <1>3
  <2>2. s[j - Len(plans)] = n
    BY <1>3, <2>1
  <2> QED
    BY <2>1, <2>2 DEF ToSet
<1>5. \A i \in DOMAIN plans : i \in DOMAIN q /\ q[i] = plans[i]
  BY <1>3
<1>6. n \in ToSet(q)
  BY <1>5 DEF After, ToSet
<1>7. ASSUME NEW u \in ToSet(predecessors(Drawn, n)), NEW j \in DOMAIN q, q[j] = n
      PROVE  \E i \in DOMAIN q : i < j /\ q[i] = u
  <2>1. j \in DOMAIN plans /\ plans[j] = n
    BY <1>4, <1>5, <1>7
  <2>2. PICK i \in DOMAIN plans : i < j /\ plans[i] = u
    BY <2>1 DEF After
  <2> QED
    BY <1>5, <2>2
<1> QED
  BY <1>1, <1>2, <1>6, <1>7 DEF After

LEMMA AfterNew ==
  ASSUME plans \in Seq(Nodes), NEW s \in Seq(Nodes), NEW n \in ToSet(s), n \notin ToSet(plans),
         \A u \in ToSet(predecessors(Drawn, n)) : \A j \in DOMAIN s :
           s[j] = n => \E i \in DOMAIN s : i < j /\ s[i] = u,
         plans' = plans \o s, drawing' = drawing
  PROVE  After(n)'
<1>1. Drawn' = Drawn
  BY DEF Drawn
<1>2. PICK q : q = plans'
  OBVIOUS
<1>3. /\ DOMAIN plans = 1..Len(plans) /\ Len(plans) \in Nat /\ Len(s) \in Nat /\ DOMAIN s = 1..Len(s)
      /\ DOMAIN q = 1..(Len(plans) + Len(s))
      /\ \A i \in 1..Len(plans) : q[i] = plans[i]
      /\ \A i \in 1..Len(s) : q[Len(plans) + i] = s[i]
  BY <1>2
<1>4. \A i \in DOMAIN s : Len(plans) + i \in DOMAIN q /\ q[Len(plans) + i] = s[i]
  BY <1>3
<1>5. \A j \in DOMAIN q : q[j] = n => j - Len(plans) \in DOMAIN s /\ s[j - Len(plans)] = n
  <2> SUFFICES ASSUME NEW j \in DOMAIN q, q[j] = n PROVE j - Len(plans) \in DOMAIN s /\ s[j - Len(plans)] = n
    OBVIOUS
  <2>1. j \notin DOMAIN plans
    BY <1>3 DEF ToSet
  <2>2. j - Len(plans) \in DOMAIN s /\ j = Len(plans) + (j - Len(plans))
    BY <1>3, <2>1
  <2> QED
    BY <1>3, <2>2
<1>6. n \in ToSet(q)
  BY <1>4 DEF ToSet
<1>7. ASSUME NEW u \in ToSet(predecessors(Drawn, n)), NEW j \in DOMAIN q, q[j] = n
      PROVE  \E i \in DOMAIN q : i < j /\ q[i] = u
  <2>1. PICK k : k = j - Len(plans) /\ k \in DOMAIN s /\ s[k] = n
    BY <1>5, <1>7
  <2>2. PICK i \in DOMAIN s : i < k /\ s[i] = u
    BY <2>1
  <2>3. Len(plans) + i < j
    BY <1>3, <2>1, <2>2
  <2> QED
    BY <1>4, <2>2, <2>3
<1> QED
  BY <1>1, <1>2, <1>6, <1>7 DEF After

\* A list of nodes of todo is added to the plans.
LEMMA PlansGrow ==
  ASSUME PartsInv, NEW s \in Seq(Nodes), Distinct(s), NEW rest \in SUBSET todo,
         ToSet(s) \subseteq Sortable \ (rest \cup ToSet(plans)), Crossed(EdgeSet(Drawn), rest),
         drawing' = drawing, todo' = rest, plans' = plans \o s, pc' = "part"
  PROVE  PartsInv'
<1>1. Drawn' = Drawn /\ Sortable' = Sortable
  BY DEF Drawn, Sortable
<1>2. plans \in Seq(Nodes) /\ Distinct(plans) /\ ToSet(plans) \cap ToSet(s) = {}
  BY DEF PartsInv
<1>3. PICK q : q = plans'
  OBVIOUS
<1>4. q \in Seq(Nodes) /\ ToSet(q) = ToSet(plans) \cup ToSet(s) /\ Distinct(q)
  BY <1>2, <1>3, Joined
<1>5. ToSet(q) \subseteq Sortable \ rest
  BY <1>4 DEF PartsInv
<1> QED
  BY <1>1, <1>3, <1>4, <1>5 DEF PartsInv

LEMMA TakeStep ==
  ASSUME Inv, Cyclic \/ SortPart \/ PlanPart
  PROVE  Inv'
<1>1. TakePart /\ pc = "part" /\ todo # {}
  BY DEF Cyclic, SortPart, PlanPart, TakePart
<1>2. PICK C, K : C = NextComponent /\ K = subgraph(Drawn, C)
  OBVIOUS
<1>3. /\ todo' = todo \ C /\ G' = K /\ itr' = "none" /\ dit' = Default_node_iterator /\ plan' = <<>>
      /\ drawing' = drawing /\ fields' = fields
  BY <1>1, <1>2 DEF TakePart, Drawn
<1>4. /\ C \subseteq todo /\ C # {} /\ Crossed(EdgeSet(Drawn), todo \ C)
      /\ IsGraph(K, C) /\ Simple(K) /\ NodeSet(K) = C /\ C \subseteq Nodes
      /\ is_acyclic(K) => C \subseteq Sortable
      /\ ~is_acyclic(K) => C \cap Sortable = {}
      /\ \A n \in C : Fieldless(n) <=> Transmitters(K) = {}
      /\ \A n \in C : ToSet(predecessors(K, n)) = ToSet(predecessors(Drawn, n))
  <2>1. PartsInv
    BY DEF Inv
  <2> QED
    BY <1>1, <1>2, <2>1, PartTaken
<1>5. Drawn' = Drawn /\ Sortable' = Sortable /\ \A n : Fieldless(n)' <=> Fieldless(n)
  BY <1>3 DEF Drawn, Sortable, Fieldless
<1>6. Part' = C
  BY <1>3, <1>4 DEF Part
<1>7. FieldsInv'
  <2>1. fields' \in [Nodes -> Descriptor] /\ \A n \in todo' : fields'[n].init = <<>>
    BY <1>3 DEF Inv, FieldsInv
  <2>2. \A n \in Part' : fields'[n].init \in Seq(Part')
    <3>1. \A n \in C : fields'[n].init = <<>>
      BY <1>3, <1>4 DEF Inv, FieldsInv
    <3>2. <<>> \in Seq(C)
      OBVIOUS
    <3> QED
      BY <1>6, <3>1, <3>2
  <2> QED
    BY <2>1, <2>2 DEF FieldsInv
<1>8. ToSet(plans) \cap todo = {}
  BY DEF Inv, PartsInv
<1>9. CASE Cyclic
  <2>1. ~is_acyclic(K) /\ pc' = pc /\ plans' = plans
    BY <1>3, <1>9 DEF Cyclic
  <2>2. PartsInv'
    BY <1>1, <1>3, <1>4, <1>5, <2>1 DEF Inv, PartsInv
  <2>3. PlainInv'
    <3> SUFFICES ASSUME NEW n \in Sortable \ todo', Fieldless(n) PROVE After(n)'
      BY <1>5 DEF PlainInv
    <3>1. n \notin todo
      BY <1>3, <1>4, <2>1
    <3>2. After(n)
      BY <3>1 DEF Inv, PlainInv
    <3> QED
      BY <1>5, <2>1, <3>2 DEF After
  <2>4. ~Planning' /\ pc' \notin {"next", "offer"}
    BY <1>1, <2>1 DEF Planning
  <2> QED
    BY <1>7, <2>2, <2>3, <2>4 DEF Inv, PartInv, DefaultInv, FieldInv, PlanInv
<1>10. CASE SortPart
  <2>1. PICK s : s = topological_sort(K)
    OBVIOUS
  <2>2. is_acyclic(K) /\ pc' = pc /\ plans' = plans \o s
    BY <1>3, <1>10, <2>1 DEF SortPart
  <2>3. s \in Seq(C) /\ ToSet(s) = C /\ Distinct(s) /\ InOrder(K, s)
    BY <1>4, <2>1, <2>2, SortIs, SortsAll DEF Sorts
  <2>4. s \in Seq(Nodes)
    BY <1>4, <2>3, ListType
  <2>5. PartsInv'
    <3>1. PICK rest \in SUBSET todo : rest = todo \ C
      OBVIOUS
    <3>2. ToSet(s) \subseteq Sortable \ (rest \cup ToSet(plans))
      BY <1>4, <1>8, <2>2, <2>3, <3>1
    <3>3. PartsInv
      BY DEF Inv
    <3> QED
      BY <1>1, <1>3, <1>4, <2>2, <2>3, <2>4, <3>1, <3>2, <3>3, PlansGrow
  <2>6. PlainInv'
    <3> SUFFICES ASSUME NEW n \in Sortable \ todo', Fieldless(n) PROVE After(n)'
      BY <1>5 DEF PlainInv
    <3>0. plans \in Seq(Nodes)
      BY DEF Inv, PartsInv
    <3>1. CASE n \in C
      <4>1. n \in ToSet(s) /\ n \notin ToSet(plans)
        BY <1>4, <1>8, <2>3, <3>1
      <4>2. ASSUME NEW u \in ToSet(predecessors(Drawn, n)), NEW j \in DOMAIN s, s[j] = n
            PROVE  \E i \in DOMAIN s : i < j /\ s[i] = u
        <5>1. u \in ToSet(predecessors(K, n))
          BY <1>4, <3>1
        <5>2. ToSet(predecessors(K, n)) = {a[1] : a \in {b \in EdgeSet(K) : b[2] = n}}
          BY <1>4, NeighboursAre
        <5>3. PICK a \in EdgeSet(K) : a[1] = u /\ a[2] = n
          BY <5>1, <5>2
        <5> QED
          BY <2>3, <4>2, <5>3 DEF InOrder
      <4> QED
        BY <1>3, <2>2, <2>4, <3>0, <4>1, <4>2, AfterNew
    <3>2. CASE n \notin C
      <4>1. After(n) /\ n \notin ToSet(s)
        BY <1>3, <2>3, <3>2 DEF Inv, PlainInv
      <4> QED
        BY <1>3, <2>2, <2>4, <3>0, <4>1, AfterJoined
    <3> QED
      BY <3>1, <3>2
  <2>7. ~Planning' /\ pc' \notin {"next", "offer"}
    BY <1>1, <2>2 DEF Planning
  <2> QED
    BY <1>7, <2>5, <2>6, <2>7 DEF Inv, PartInv, DefaultInv, FieldInv, PlanInv
<1>11. CASE PlanPart
  <2>1. is_acyclic(K) /\ Transmitters(K) # {} /\ pc' = "start" /\ plans' = plans
    BY <1>3, <1>11 DEF PlanPart
  <2>2. PartsInv'
    BY <1>1, <1>3, <1>4, <1>5, <2>1 DEF Inv, PartsInv
  <2>3. PlainInv'
    <3> SUFFICES ASSUME NEW n \in Sortable \ todo', Fieldless(n) PROVE After(n)'
      BY <1>5 DEF PlainInv
    <3>1. n \notin todo
      BY <1>3, <1>4, <2>1
    <3>2. After(n)
      BY <3>1 DEF Inv, PlainInv
    <3> QED
      BY <1>5, <2>1, <3>2 DEF After
  <2>4. PartInv'
    BY <1>3, <1>4, <1>5, <1>6, <1>8, <2>1 DEF PartInv
  <2>5. DefaultInv'
    <3>1. Default_node_iterator \in Iterator(C)
      BY DEF Default_node_iterator, Iterator, Signed
    <3>2. HasHome(C, Default_node_iterator)
      BY <3>1 DEF HasHome, Default_node_iterator
    <3> QED
      BY <1>3, <1>6, <3>2 DEF DefaultInv
  <2>6. FieldInv' /\ PlanInv'
    <3>1. PICK none : none = plan'
      OBVIOUS
    <3>2. none \in Seq(C)
      BY <1>3, <3>1
    <3> QED
      BY <1>3, <1>6, <2>1, <3>1, <3>2 DEF FieldInv, PlanInv
  <2> QED
    BY <1>7, <2>2, <2>3, <2>4, <2>5, <2>6 DEF Inv
<1> QED
  BY <1>9, <1>10, <1>11

\* A step within the part, or one that gives up.
LEMMA Within ==
  ASSUME Inv, Planning, Planning' \/ pc' = "failed", UNCHANGED <<drawing, todo, G, plans>>
  PROVE  PartsInv' /\ PartInv' /\ PlainInv' /\ Part' = Part
<1>1. Drawn' = Drawn /\ Sortable' = Sortable /\ Part' = Part /\ \A n : Fieldless(n)' <=> Fieldless(n)
  BY DEF Drawn, Sortable, Fieldless, Part
<1>2. PartsInv'
  BY <1>1 DEF Inv, PartsInv, Planning
<1>3. PartInv'
  BY <1>1 DEF Inv, PartInv
<1>4. PlainInv'
  BY <1>1 DEF Inv, PlainInv, After
<1> QED
  BY <1>1, <1>2, <1>3, <1>4

\* What is known of a part that is being planned.
LEMMA PartIs ==
  ASSUME Inv, Planning
  PROVE  /\ IsGraph(G, Part) /\ Simple(G) /\ is_acyclic(G) /\ Part # {} /\ Part = NodeSet(G)
         /\ Part \subseteq Sortable \ (todo \cup ToSet(plans)) /\ Part \subseteq Nodes
         /\ HasHome(Part, dit)
         /\ fields \in [Nodes -> Descriptor] /\ \A n \in Part : fields[n].init \in Seq(Part)
<1>1. Sortable \subseteq Nodes
  BY DEF Inv, PartsInv, IsDrawing, Sortable, ToSet
<1> QED
  BY <1>1 DEF Inv, PartInv, DefaultInv, FieldsInv, Part

\* The plan of a part is added to the plans.
LEMMA EndStep ==
  ASSUME Inv, pc = "next", EndPart,
         fields' \in [Nodes -> Descriptor], \A n \in todo : fields'[n].init = fields[n].init
  PROVE  Inv'
<1>1. Planning
  BY DEF Planning
<1>2. plan \in Seq(Part)
  BY <1>1 DEF Inv, PlanInv
<1>3. PICK s : s = plan_with_init_nodes
  OBVIOUS
<1>4. Part \subseteq Sortable \ (todo \cup ToSet(plans)) /\ Part \subseteq Nodes
  BY <1>1, PartIs
<1>5. s \in Seq(Part) /\ Distinct(s)
  BY <1>1, <1>2, <1>3, PartIs, PlanIs
<1>6. ToSet(s) \subseteq Part
  BY <1>5 DEF ToSet
<1>7. s \in Seq(Nodes)
  BY <1>4, <1>5, <1>6, ListType
<1>8. plans' = plans \o s /\ pc' = "part" /\ drawing' = drawing /\ todo' = todo
  BY <1>3 DEF EndPart
<1>9. PartsInv'
  <2>1. PartsInv /\ Crossed(EdgeSet(Drawn), todo)
    BY DEF Inv, PartsInv
  <2>2. PICK rest \in SUBSET todo : rest = todo
    OBVIOUS
  <2>3. ToSet(s) \subseteq Sortable \ (rest \cup ToSet(plans))
    BY <1>4, <1>6, <2>2
  <2> QED
    BY <1>5, <1>7, <1>8, <2>1, <2>2, <2>3, PlansGrow
<1>10. PlainInv'
  <2>1. Drawn' = Drawn /\ Sortable' = Sortable /\ \A n : Fieldless(n)' <=> Fieldless(n)
    BY <1>8 DEF Drawn, Sortable, Fieldless
  <2> SUFFICES ASSUME NEW n \in Sortable \ todo, Fieldless(n) PROVE After(n)'
    BY <1>8, <2>1 DEF PlainInv
  <2>2. n \notin Part
    BY <1>1 DEF Inv, PartInv
  <2>3. After(n) /\ n \notin ToSet(s) /\ plans \in Seq(Nodes)
    BY <1>6, <2>2 DEF Inv, PlainInv, PartsInv
  <2> QED
    BY <1>7, <1>8, <2>3, AfterJoined
<1>11. ~Planning' /\ pc' \notin {"next", "offer"}
  BY <1>8 DEF Planning
<1>12. FieldsInv'
  BY <1>8, <1>11 DEF Inv, FieldsInv
<1> QED
  BY <1>9, <1>10, <1>11, <1>12 DEF Inv, PartInv, DefaultInv, FieldInv, PlanInv

\* The default iterator.
LEMMA DefaultStep ==
  ASSUME Inv, StartDefault \/ NextDefault \/ EndDefault \/ LeaveField
  PROVE  Inv'
<1>1. Planning
  BY DEF Planning, StartDefault, NextDefault, EndDefault, LeaveField
<1>2. /\ IsGraph(G, Part) /\ Simple(G) /\ is_acyclic(G) /\ Part # {} /\ Part = NodeSet(G) /\ Part \subseteq Nodes
      /\ HasHome(Part, dit)
  BY <1>1, PartIs
<1>3. CASE StartDefault
  <2>1. PICK s \in calculate_start_nodes(G) : dit' = SetDefault(s) /\ plan' = <<s>> /\ last' = s
    BY <1>3 DEF StartDefault
  <2>2. pc' = "next" /\ itr' = "default" /\ UNCHANGED <<drawing, todo, G, plans, fields>>
    BY <1>3 DEF StartDefault, part
  <2>3. s \in Part
    BY <1>2, <2>1, StartNodesAre
  <2>4. PartsInv' /\ PartInv' /\ PlainInv' /\ Part' = Part
    BY <1>1, <2>2, Within DEF Planning
  <2>5. HasHome(Part, dit')
    BY <1>2, <2>1, <2>3, SetDefaultIs
  <2>6. DefaultInv' /\ FieldInv' /\ PlanInv'
    <3>1. plan' \in Seq(Part)
      BY <2>1, <2>3
    <3> QED
      BY <2>1, <2>2, <2>3, <2>4, <2>5, <3>1 DEF DefaultInv, FieldInv, PlanInv
  <2>7. FieldsInv'
    BY <1>1, <2>2, <2>4 DEF Inv, FieldsInv, Planning
  <2> QED
    BY <2>4, <2>6, <2>7 DEF Inv
<1>4. CASE NextDefault
  <2>1. PICK m, n : /\ m = (IF More THEN dit.sorted[dit.index + 1] ELSE Head(dit.near))
                    /\ n = IF m < 0 THEN -m ELSE m
    OBVIOUS
  <2>2. /\ offer' = n /\ pc' = "offer" /\ pc = "next" /\ itr = "default" /\ (More \/ dit.near # <<>>)
        /\ dit' = IF More THEN [dit EXCEPT !.index = @ + 1, !.near = successors(G, n)]
                  ELSE [dit EXCEPT !.near = Tail(@)]
    BY <1>4, <2>1 DEF NextDefault, Offer
  <2>3. UNCHANGED <<drawing, todo, G, plans, plan, itr, last, fields>>
    BY <1>4 DEF NextDefault, part
  <2>4. PartsInv' /\ PartInv' /\ PlainInv' /\ Part' = Part
    BY <1>1, <2>2, <2>3, Within DEF Planning
  <2>5. PICK home \in Part \cup {NoNode}, sorted \in Seq(Signed(Part)), index \in Nat \ {0}, near \in Seq(Part) :
          dit = [home |-> home, sorted |-> sorted, index |-> index, near |-> near]
    BY <1>2 DEF HasHome, Iterator
  <2>6. m \in Signed(Part)
    <3>1. CASE More
      <4>1. index < Len(sorted)
        BY <2>5, <3>1 DEF More
      <4>2. index + 1 \in 1..Len(sorted)
        BY <4>1
      <4>3. sorted[index + 1] \in Signed(Part)
        BY <4>2
      <4> QED
        BY <2>1, <2>5, <3>1, <4>3
    <3>2. CASE ~More
      BY <2>1, <2>2, <2>5, <3>2 DEF Signed
    <3> QED
      BY <3>1, <3>2
  <2>7. n \in Part
    <3>1. \A x \in Part : x \in Nat /\ x > 0
      BY <1>2, NodesAssumption
    <3>2. CASE m \in Part
      BY <2>1, <3>1, <3>2
    <3>3. CASE m \notin Part
      <4>1. PICK x \in Part : m = -x
        BY <2>6, <3>3 DEF Signed
      <4>2. m < 0 /\ -m = x
        BY <3>1, <4>1
      <4> QED
        BY <2>1, <4>2
    <3> QED
      BY <3>2, <3>3
  <2>8. HasHome(Part, dit')
    <3>1. CASE More
      <4>1. PICK out : out = successors(G, n)
        OBVIOUS
      <4>2. out \in Seq(Part)
        BY <1>2, <4>1, NeighboursAre
      <4>3. dit' = [home |-> home, sorted |-> sorted, index |-> index + 1, near |-> out]
        BY <2>2, <2>5, <3>1, <4>1
      <4> QED
        BY <1>2, <2>5, <4>2, <4>3 DEF HasHome, Iterator
    <3>2. CASE ~More
      <4>1. dit' = [home |-> home, sorted |-> sorted, index |-> index, near |-> Tail(near)]
        BY <2>2, <2>5, <3>2
      <4>2. Tail(near) \in Seq(Part)
        BY <2>2, <2>5, <3>2
      <4> QED
        BY <1>2, <2>5, <4>1, <4>2 DEF HasHome, Iterator
    <3> QED
      BY <3>1, <3>2
  <2>9. DefaultInv' /\ FieldInv' /\ PlanInv'
    BY <1>1, <2>2, <2>3, <2>4, <2>7, <2>8 DEF DefaultInv, FieldInv, PlanInv, Inv
  <2>10. FieldsInv'
    BY <1>1, <2>2, <2>3, <2>4 DEF Inv, FieldsInv, Planning
  <2> QED
    BY <2>4, <2>9, <2>10 DEF Inv
<1>5. CASE EndDefault
  <2>1. pc = "next" /\ EndPart /\ fields' = fields
    BY <1>5 DEF EndDefault
  <2> QED
    BY <1>1, <2>1, PartIs, EndStep
<1>6. CASE LeaveField
  <2>1. /\ pc = "next" /\ itr' = "default" /\ dit' = SetDefault(last) /\ offer' = dit'.home /\ pc' = "offer"
        /\ UNCHANGED <<drawing, todo, G, plans, plan, last, fields>>
    BY <1>6 DEF LeaveField, Offer, part
  <2>2. last \in Part /\ plan \in Seq(Part)
    BY <1>1, <2>1 DEF Inv, PlanInv
  <2>3. PartsInv' /\ PartInv' /\ PlainInv' /\ Part' = Part
    BY <1>1, <2>1, Within DEF Planning
  <2>4. HasHome(Part, dit') /\ dit'.home \in Part
    BY <1>2, <2>1, <2>2, SetDefaultIs
  <2>5. DefaultInv' /\ FieldInv' /\ PlanInv'
    BY <2>1, <2>2, <2>3, <2>4 DEF DefaultInv, FieldInv, PlanInv
  <2>6. FieldsInv'
    BY <1>1, <2>1, <2>3 DEF Inv, FieldsInv, Planning
  <2> QED
    BY <2>3, <2>5, <2>6 DEF Inv
<1> QED
  BY <1>3, <1>4, <1>5, <1>6

-----------------------------------------------------------------------------
(* The field iterator. *)

FieldsOK(f) ==
  /\ f \in [Nodes -> Descriptor]
  /\ \A m \in Part : f[m].init \in Seq(Part)
  /\ \A m \in todo : f[m].init = <<>>
OfParts == Part \subseteq Nodes /\ todo \subseteq Nodes /\ Part \cap todo = {}

LEMMA Described ==
  ASSUME NEW f, FieldsOK(f), OfParts, NEW t \in Part, NEW d \in Descriptor, d.init \in Seq(Part)
  PROVE  FieldsOK([f EXCEPT ![t] = d])
<1>1. PICK g : g = [f EXCEPT ![t] = d]
  OBVIOUS
<1>2. g \in [Nodes -> Descriptor]
  BY <1>1 DEF FieldsOK
<1>3. \A m \in Nodes : g[m] = IF m = t THEN d ELSE f[m]
  BY <1>1 DEF FieldsOK
<1>4. (\A m \in Part : g[m].init \in Seq(Part)) /\ \A m \in todo : g[m].init = <<>>
  BY <1>3 DEF FieldsOK, OfParts
<1> QED
  BY <1>1, <1>2, <1>4 DEF FieldsOK

\* The descriptor of a field with another receiver, body, fields or init.
LEMMA Changed ==
  ASSUME NEW f, FieldsOK(f), OfParts, NEW t \in Part
  PROVE  /\ \A r \in Nodes : FieldsOK([f EXCEPT ![t].receiver = r])
         /\ \A n \in Nodes : FieldsOK([f EXCEPT ![t].body = @ \cup {n}])
         /\ \A n \in Nodes : FieldsOK([f EXCEPT ![t].inner = @ \cup {n}])
         /\ \A s \in Seq(Part) : FieldsOK([f EXCEPT ![t].init = s])
         /\ \A r \in Nodes \cup {NoNode} : FieldsOK([f EXCEPT ![t] = Field_descriptor(r)])
<1>0. f \in [Nodes -> Descriptor] /\ t \in Nodes
  BY DEF FieldsOK, OfParts
<1>1. PICK receiver \in Nodes \cup {NoNode}, body \in SUBSET Nodes, inner \in SUBSET Nodes, init \in Seq(Nodes) :
        f[t] = [receiver |-> receiver, body |-> body, inner |-> inner, init |-> init]
  <2>1. f[t] \in Descriptor
    BY DEF FieldsOK, OfParts
  <2> QED
    BY <2>1 DEF Descriptor
<1>2. init \in Seq(Part)
  BY <1>1 DEF FieldsOK
<1>3. ASSUME NEW s \in Seq(Part) PROVE s \in Seq(Nodes)
  BY <1>3, ListType DEF OfParts, ToSet
<1>4. ASSUME NEW r \in Nodes PROVE FieldsOK([f EXCEPT ![t].receiver = r])
  <2>1. PICK d : d = [receiver |-> r, body |-> body, inner |-> inner, init |-> init]
    OBVIOUS
  <2>2. d \in Descriptor /\ d.init \in Seq(Part)
    BY <1>1, <1>2, <2>1 DEF Descriptor
  <2>3. [f EXCEPT ![t].receiver = r] = [f EXCEPT ![t] = d]
    <3>1. PICK v : v = r
      OBVIOUS
    <3>2. [f EXCEPT ![t].receiver = r] = [f EXCEPT ![t] = [f[t] EXCEPT !.receiver = v]]
      BY <1>0, <1>1, <3>1
    <3>3. [f[t] EXCEPT !.receiver = v] = d
      BY <1>1, <2>1, <3>1
    <3> QED
      BY <3>2, <3>3
  <2> QED
    BY <2>2, <2>3, Described
<1>5. ASSUME NEW n \in Nodes PROVE FieldsOK([f EXCEPT ![t].body = @ \cup {n}])
  <2>1. PICK d : d = [receiver |-> receiver, body |-> body \cup {n}, inner |-> inner, init |-> init]
    OBVIOUS
  <2>2. d \in Descriptor /\ d.init \in Seq(Part)
    BY <1>1, <1>2, <2>1 DEF Descriptor
  <2>3. [f EXCEPT ![t].body = @ \cup {n}] = [f EXCEPT ![t] = d]
    <3>1. PICK v : v = body \cup {n}
      OBVIOUS
    <3>2. [f EXCEPT ![t].body = @ \cup {n}] = [f EXCEPT ![t] = [f[t] EXCEPT !.body = v]]
      BY <1>0, <1>1, <3>1
    <3>3. d = [receiver |-> receiver, body |-> v, inner |-> inner, init |-> init]
      BY <2>1, <3>1
    <3>4. [f[t] EXCEPT !.body = v] = d
      BY <1>1, <3>3
    <3> QED
      BY <3>2, <3>4
  <2> QED
    BY <2>2, <2>3, Described
<1>6. ASSUME NEW n \in Nodes PROVE FieldsOK([f EXCEPT ![t].inner = @ \cup {n}])
  <2>1. PICK d : d = [receiver |-> receiver, body |-> body, inner |-> inner \cup {n}, init |-> init]
    OBVIOUS
  <2>2. d \in Descriptor /\ d.init \in Seq(Part)
    BY <1>1, <1>2, <2>1 DEF Descriptor
  <2>3. [f EXCEPT ![t].inner = @ \cup {n}] = [f EXCEPT ![t] = d]
    <3>1. PICK v : v = inner \cup {n}
      OBVIOUS
    <3>2. [f EXCEPT ![t].inner = @ \cup {n}] = [f EXCEPT ![t] = [f[t] EXCEPT !.inner = v]]
      BY <1>0, <1>1, <3>1
    <3>3. d = [receiver |-> receiver, body |-> body, inner |-> v, init |-> init]
      BY <2>1, <3>1
    <3>4. [f[t] EXCEPT !.inner = v] = d
      BY <1>1, <3>3
    <3> QED
      BY <3>2, <3>4
  <2> QED
    BY <2>2, <2>3, Described
<1>7. ASSUME NEW s \in Seq(Part) PROVE FieldsOK([f EXCEPT ![t].init = s])
  <2>1. PICK d : d = [receiver |-> receiver, body |-> body, inner |-> inner, init |-> s]
    OBVIOUS
  <2>2. d \in Descriptor /\ d.init \in Seq(Part)
    BY <1>1, <1>3, <2>1 DEF Descriptor
  <2>3. [f EXCEPT ![t].init = s] = [f EXCEPT ![t] = d]
    <3>1. PICK v : v = s
      OBVIOUS
    <3>2. [f EXCEPT ![t].init = s] = [f EXCEPT ![t] = [f[t] EXCEPT !.init = v]]
      BY <1>0, <1>1, <3>1
    <3>3. [f[t] EXCEPT !.init = v] = d
      BY <1>1, <2>1, <3>1
    <3> QED
      BY <3>2, <3>3
  <2> QED
    BY <2>2, <2>3, Described
<1>8. ASSUME NEW r \in Nodes \cup {NoNode} PROVE FieldsOK([f EXCEPT ![t] = Field_descriptor(r)])
  <2>1. PICK d : d = Field_descriptor(r)
    OBVIOUS
  <2>2. d \in Descriptor /\ d.init \in Seq(Part)
    BY <2>1 DEF Descriptor, Field_descriptor
  <2> QED
    BY <2>1, <2>2, Described
<1> QED
  BY <1>4, <1>5, <1>6, <1>7, <1>8

\* The field iterator goes on with fields and walks of the part.
LEMMA FieldKeeps ==
  ASSUME Inv, Planning, pc' \in {"next", "offer"}, UNCHANGED <<drawing, todo, G, plans>>,
         HasHome(Part, dit'), itr' \in {"default", "field"}, itr' = "field" => fit' \in Walker(Part),
         plan' \in Seq(Part), last' \in Part, pc' = "offer" => offer' \in Part, FieldsOK(fields')
  PROVE  Inv'
<1>1. PartsInv' /\ PartInv' /\ PlainInv' /\ Part' = Part
  BY Within DEF Planning
<1>2. DefaultInv' /\ FieldInv' /\ PlanInv' /\ FieldsInv'
  BY <1>1 DEF DefaultInv, FieldInv, PlanInv, FieldsInv, FieldsOK, Planning
<1> QED
  BY <1>1, <1>2 DEF Inv

\* A field iterator starts at a transmitter.
LEMMA EnterStep ==
  ASSUME Inv, Planning, NEW t \in Part, EnterField(t)
  PROVE  Inv'
<1>1. /\ IsGraph(G, Part) /\ Simple(G) /\ is_acyclic(G) /\ Part = NodeSet(G) /\ Part \subseteq Nodes
      /\ HasHome(Part, dit)
  BY PartIs
<1>2. OfParts /\ FieldsOK(fields)
  <2>1. todo \subseteq Nodes
    BY DEF Inv, PartsInv, IsDrawing, ToSet
  <2> QED
    BY <2>1, PartIs DEF OfParts, FieldsOK, Inv, FieldsInv
<1>3. PICK inner, found, new, import : /\ inner = subgraph(G, NodeSet(G) \ ancestors(G, t))
                                       /\ found = find_transmitter_receiver_pairs(inner)
                                       /\ new = [fields EXCEPT ![t] = Field_descriptor(NoNode)]
                                       /\ import = Import(t, t, new, {})
  OBVIOUS
<1>4. /\ itr' = "field" /\ plan' = Append(plan, t) /\ last' = t /\ pc' = "next"
      /\ fit' = [walk |-> modified_dfs(inner, t), visited |-> {t}, pairs |-> found, stack |-> <<t>>,
                 ended |-> FALSE, imported |-> import.imported]
      /\ UNCHANGED <<drawing, todo, G, plans, dit>>
      /\ \E p \in find_enveloping_tr_pair(t, found, cache') :
           fields' = [[new EXCEPT ![t].receiver = p[2]] EXCEPT ![t].init = import.init]
  BY <1>3 DEF EnterField, part
<1>5. IsGraph(inner, Part) /\ Simple(inner) /\ NodeSet(inner) \subseteq Part /\ t \in NodeSet(inner)
  <2>1. PICK S : S = NodeSet(G) \ ancestors(G, t)
    OBVIOUS
  <2>2. IsGraph(inner, Part) /\ Simple(inner) /\ NodeSet(inner) = NodeSet(G) \cap S
    BY <1>1, <1>3, <2>1, SubgraphIs
  <2>3. t \in S
    BY <1>1, <2>1 DEF ancestors
  <2> QED
    BY <1>1, <2>2, <2>3
<1>6. found \subseteq Part \X Part
  <2>1. found \subseteq NodeSet(inner) \X NodeSet(inner)
    BY <1>3, <1>5, PairsIs
  <2> QED
    BY <1>5, <2>1
<1>7. modified_dfs(inner, t) \in Seq(Part)
  <2>0. PICK n \in Nat : \E place \in [NodeSet(G) -> 1..n] : \A a \in EdgeSet(G) : place[a[1]] < place[a[2]]
    BY <1>1, PlacesAre
  <2>1. PICK place \in [NodeSet(G) -> 1..n] : \A a \in EdgeSet(G) : place[a[1]] < place[a[2]]
    BY <2>0
  <2> DEFINE at == [x \in NodeSet(inner) |-> place[x]]
  <2>2. at \in [NodeSet(inner) -> 1..n]
    BY <1>1, <1>5
  <2>3. EdgeSet(inner) \subseteq EdgeSet(G)
    BY <1>1, <1>3, SubgraphIs
  <2>4. \A a \in EdgeSet(inner) : at[a[1]] < at[a[2]]
    <3> TAKE a \in EdgeSet(inner)
    <3>1. a[1] \in NodeSet(inner) /\ a[2] \in NodeSet(inner) /\ a \in EdgeSet(G)
      BY <1>5, <2>3 DEF Simple
    <3> QED
      BY <2>1, <3>1
  <2> HIDE DEF at
  <2>5. PICK w : w = modified_dfs(inner, t)
    OBVIOUS
  <2>6. w \in Seq(NodeSet(inner))
    BY <1>5, <2>2, <2>4, <2>5, WalkIs
  <2> QED
    BY <1>5, <2>5, <2>6
<1>8. FieldsOK(new) /\ new[t].init = <<>>
  <2>1. FieldsOK(new)
    BY <1>2, <1>3, Changed
  <2>2. t \in Nodes /\ fields \in [Nodes -> Descriptor]
    BY <1>1, <1>2 DEF FieldsOK
  <2>3. new[t] = Field_descriptor(NoNode)
    BY <1>3, <2>2
  <2> QED
    BY <2>1, <2>3 DEF Field_descriptor
<1>9. import.imported \in SUBSET Part /\ import.init \in Seq(Part)
  <2>1. PICK P, none : P = Part /\ none = {}
    OBVIOUS
  <2>2. new[t].init \in Seq(P) /\ none \in SUBSET P /\ IsGraph(G, P) /\ NodeSet(G) = P
    BY <1>1, <1>8, <2>1
  <2>3. Import(t, t, new, none) \in [imported : SUBSET P, init : Seq(P)]
    BY <1>1, <2>2, ImportIs
  <2> QED
    BY <1>3, <2>1, <2>3
<1>10. fit' \in Walker(Part)
  <2>1. PICK w, s : w = modified_dfs(inner, t) /\ s = <<t>>
    OBVIOUS
  <2>2. w \in Seq(Part) /\ s \in Seq(Part)
    BY <1>7, <2>1
  <2>3. fit' = [walk |-> w, visited |-> {t}, pairs |-> found, stack |-> s, ended |-> FALSE, imported |-> import.imported]
    BY <1>4, <2>1
  <2> QED
    BY <1>6, <1>9, <2>2, <2>3 DEF Walker
<1>11. FieldsOK(fields')
  <2>1. PICK p \in found : fields' = [[new EXCEPT ![t].receiver = p[2]] EXCEPT ![t].init = import.init]
    BY <1>4 DEF find_enveloping_tr_pair
  <2>2. p[2] \in Nodes
    BY <1>1, <1>6
  <2>3. PICK f, r, s : f = [new EXCEPT ![t].receiver = r] /\ r = p[2] /\ s = import.init
    OBVIOUS
  <2>4. FieldsOK(f)
    BY <1>2, <1>8, <2>2, <2>3, Changed
  <2>5. FieldsOK([f EXCEPT ![t].init = s])
    BY <1>2, <1>9, <2>3, <2>4, Changed
  <2> QED
    BY <2>1, <2>3, <2>5
<1>12. plan' \in Seq(Part)
  <2>1. plan \in Seq(Part)
    BY DEF Inv, PlanInv
  <2> QED
    BY <1>4, <2>1
<1> QED
  BY <1>1, <1>4, <1>10, <1>11, <1>12, FieldKeeps

\* What the field iterator knows in a field.
LEMMA CurrentIs ==
  ASSUME Inv, InField
  PROVE  /\ Planning /\ OfParts /\ FieldsOK(fields) /\ fit \in Walker(Part) /\ Current \in Part
         /\ fit.pairs \subseteq Part \X Part
         /\ Unvisited \in Seq(Part) /\ (Unvisited # <<>> => Head(Unvisited) \in Part)
         /\ plan \in Seq(Part) /\ last \in Part
<1>1. Planning /\ pc = "next" /\ itr = "field" /\ fit.stack # <<>>
  BY DEF InField, Planning
<1>2. OfParts /\ FieldsOK(fields)
  <2>1. todo \subseteq Nodes
    BY DEF Inv, PartsInv, IsDrawing, ToSet
  <2> QED
    BY <1>1, <2>1, PartIs DEF OfParts, FieldsOK, Inv, FieldsInv
<1>3. fit \in Walker(Part)
  BY <1>1 DEF Inv, FieldInv
<1>4. PICK walk, stack : walk = fit.walk /\ stack = fit.stack
  OBVIOUS
<1>5. walk \in Seq(Part) /\ stack \in Seq(Part) /\ stack # <<>> /\ fit.pairs \subseteq Part \X Part
  BY <1>1, <1>3, <1>4 DEF Walker
<1>6. Current \in Part
  <2>1. Len(stack) \in 1..Len(stack)
    BY <1>5
  <2> QED
    BY <1>4, <1>5, <2>1 DEF Current, Last
<1>7. PICK S, u : S = ToSet(fit.walk) \ (fit.visited \cup fields[Current].body) /\ u = Unvisited
  OBVIOUS
<1>8. u \in Seq(Part)
  <2>1. u = Only(walk, S)
    BY <1>4, <1>7 DEF Unvisited
  <2> QED
    BY <1>5, <2>1, OnlyIs
<1>9. u # <<>> => Head(u) \in Part
  BY <1>8
<1> QED
  BY <1>1, <1>2, <1>3, <1>5, <1>6, <1>7, <1>8, <1>9 DEF Inv, PlanInv

\* A visit keeps the stack and stays in the part.
LEMMA VisitIs ==
  ASSUME Inv, InField, NEW n \in Part
  PROVE  Visit(n).fit \in Walker(Part) /\ Visit(n).fit.stack = fit.stack /\ FieldsOK(Visit(n).fields)
<1>1. /\ Planning /\ OfParts /\ FieldsOK(fields) /\ fit \in Walker(Part) /\ Current \in Part
      /\ Unvisited \in Seq(Part)
  BY CurrentIs
<1>2. PICK t, unvisited, marked, import :
        /\ t = Current /\ unvisited = Unvisited
        /\ marked = [fields EXCEPT ![t].body = @ \cup {n}]
        /\ import = Import(t, n, marked, fit.imported)
  OBVIOUS
<1>3. PICK walk \in Seq(Part), visited \in SUBSET Part, pairs \in SUBSET (Part \X Part), stack \in Seq(Part),
           ended \in BOOLEAN, imported \in SUBSET Part :
        fit = [walk |-> walk, visited |-> visited, pairs |-> pairs, stack |-> stack, ended |-> ended,
               imported |-> imported]
  BY <1>1 DEF Walker
<1>4. n \in Nodes /\ t \in Part /\ t \in Nodes
  BY <1>1, <1>2 DEF OfParts
<1>5. FieldsOK(marked)
  BY <1>1, <1>2, <1>4, Changed
<1>6. import.imported \in SUBSET Part /\ import.init \in Seq(Part)
  <2>1. PICK P : P = Part
    OBVIOUS
  <2>2. marked[t].init \in Seq(P) /\ IsGraph(G, P) /\ Simple(G) /\ NodeSet(G) = P /\ imported \in SUBSET P
    BY <1>1, <1>4, <1>5, <2>1, PartIs DEF FieldsOK
  <2>3. Import(t, n, marked, imported) \in [imported : SUBSET P, init : Seq(P)]
    BY <2>2, ImportIs
  <2> QED
    BY <1>2, <1>3, <2>1, <2>3
<1>7. Visit(n) = [fit |-> [fit EXCEPT !.visited = @ \cup {n}, !.walk = unvisited, !.imported = import.imported],
                  fields |-> [marked EXCEPT ![t].init = import.init]]
  BY <1>2 DEF Visit
<1>8. PICK seen, now : seen = visited \cup {n} /\ now = import.imported
  OBVIOUS
<1>9. Visit(n).fit = [walk |-> unvisited, visited |-> seen, pairs |-> pairs, stack |-> stack, ended |-> ended,
                      imported |-> now]
  <2>1. Visit(n).fit = [fit EXCEPT !.visited = fit.visited \cup {n}, !.walk = unvisited, !.imported = now]
    BY <1>7, <1>8
  <2>2. fit.visited \cup {n} = seen
    BY <1>3, <1>8
  <2>3. Visit(n).fit = [fit EXCEPT !.visited = seen, !.walk = unvisited, !.imported = now]
    BY <2>1, <2>2
  <2> QED
    BY <1>3, <2>3
<1>10. Visit(n).fit \in Walker(Part) /\ Visit(n).fit.stack = fit.stack
  <2>1. unvisited \in Seq(Part) /\ seen \in SUBSET Part /\ now \in SUBSET Part
    BY <1>1, <1>2, <1>6, <1>8
  <2> QED
    BY <1>3, <1>9, <2>1 DEF Walker
<1>11. FieldsOK(Visit(n).fields)
  <2>1. PICK s : s = import.init
    OBVIOUS
  <2>2. FieldsOK([marked EXCEPT ![t].init = s])
    BY <1>1, <1>4, <1>5, <1>6, <2>1, Changed
  <2> QED
    BY <1>7, <2>1, <2>2
<1> QED
  BY <1>10, <1>11

\* The outer field learns of the nested one, which starts empty.
LEMMA NestedIs ==
  ASSUME Inv, InField, NEW f, FieldsOK(f), NEW p \in Part \X Part
  PROVE  FieldsOK(Nested(f, p))
<1>1. OfParts /\ Current \in Part
  BY CurrentIs
<1>2. PICK t, u, r : t = Current /\ u = p[1] /\ r = p[2]
  OBVIOUS
<1>3. t \in Part /\ u \in Part /\ u \in Nodes /\ r \in Nodes
  BY <1>1, <1>2 DEF OfParts
<1>4. PICK g : g = [f EXCEPT ![t].inner = @ \cup {u}]
  OBVIOUS
<1>5. FieldsOK(g)
  BY <1>1, <1>3, <1>4, Changed
<1>6. FieldsOK([g EXCEPT ![u] = Field_descriptor(r)])
  BY <1>1, <1>3, <1>5, Changed
<1> QED
  BY <1>2, <1>4, <1>6 DEF Nested

\* The field iterator visits a node.
LEMMA VisitStep ==
  ASSUME Inv, WalkNode \/ OpenField \/ CloseField
  PROVE  Inv'
<1>1. InField /\ Unvisited # <<>>
  BY DEF WalkNode, OpenField, CloseField
<1>2. PICK n : n = Head(Unvisited)
  OBVIOUS
<1>3. /\ Planning /\ OfParts /\ FieldsOK(fields) /\ Current \in Part /\ fit.pairs \subseteq Part \X Part
      /\ n \in Part /\ plan \in Seq(Part) /\ last \in Part /\ itr = "field"
  BY <1>1, <1>2, CurrentIs DEF InField
<1>4. PICK v : v = Visit(n)
  OBVIOUS
<1>5. v.fit \in Walker(Part) /\ v.fit.stack \in Seq(Part) /\ v.fit.stack # <<>> /\ FieldsOK(v.fields)
  BY <1>1, <1>3, <1>4, VisitIs DEF InField, Walker
<1>6. PICK walk \in Seq(Part), visited \in SUBSET Part, pairs \in SUBSET (Part \X Part), stack \in Seq(Part),
           ended \in BOOLEAN, imported \in SUBSET Part :
        v.fit = [walk |-> walk, visited |-> visited, pairs |-> pairs, stack |-> stack, ended |-> ended,
                 imported |-> imported]
  BY <1>5 DEF Walker
<1>7. Enveloping(n) \subseteq Part \X Part
  BY <1>3 DEF Enveloping, find_enveloping_tr_pair
<1>8. pc' = "offer" /\ offer' = n /\ UNCHANGED <<drawing, todo, G, plans, plan, itr, last, dit>>
  BY <1>2 DEF WalkNode, OpenField, CloseField, Offer, part
<1>9. HasHome(Part, dit')
  BY <1>3, <1>8, PartIs
<1>10. fit' \in Walker(Part) /\ FieldsOK(fields') => Inv'
  BY <1>3, <1>8, <1>9, FieldKeeps
<1>11. CASE WalkNode
  <2>1. fit' = v.fit /\ fields' = v.fields
    BY <1>2, <1>4, <1>11 DEF WalkNode
  <2> QED
    BY <1>5, <1>10, <2>1
<1>12. CASE OpenField
  <2>1. PICK p \in Enveloping(n) : /\ fit' = [v.fit EXCEPT !.stack = Append(@, p[1])]
                                   /\ fields' = Nested(v.fields, p)
    BY <1>2, <1>4, <1>12 DEF OpenField
  <2>2. p \in Part \X Part
    BY <1>7
  <2>3. PICK s : s = Append(stack, p[1])
    OBVIOUS
  <2>4. s \in Seq(Part)
    BY <2>2, <2>3
  <2>5. fit' = [walk |-> walk, visited |-> visited, pairs |-> pairs, stack |-> s, ended |-> ended,
                imported |-> imported]
    <3>1. PICK w : w = v.fit
      OBVIOUS
    <3>2. w = [walk |-> walk, visited |-> visited, pairs |-> pairs, stack |-> stack, ended |-> ended,
               imported |-> imported]
      BY <1>6, <3>1
    <3>3. w.stack = stack
      BY <3>2
    <3>4. fit' = [w EXCEPT !.stack = s]
      BY <2>1, <2>3, <3>1, <3>3
    <3> QED
      BY <3>2, <3>4
  <2>6. fit' \in Walker(Part)
    BY <2>4, <2>5 DEF Walker
  <2>7. FieldsOK(fields')
    BY <1>1, <1>5, <2>1, <2>2, NestedIs
  <2> QED
    BY <1>10, <2>6, <2>7
<1>13. CASE CloseField
  <2>1. PICK p \in Enveloping(n) :
          /\ n = p[2]
          /\ fit' = [v.fit EXCEPT !.ended = TRUE, !.stack = IF p[1] = Current THEN Front(@) ELSE @]
          /\ fields' = [(IF p[1] = Current THEN v.fields ELSE Nested(v.fields, p)) EXCEPT ![p[1]].receiver = n]
    BY <1>2, <1>4, <1>13 DEF CloseField
  <2>2. p \in Part \X Part /\ n \in Nodes
    BY <1>3, <1>7 DEF OfParts
  <2>3. PICK s : s = IF p[1] = Current THEN Front(stack) ELSE stack
    OBVIOUS
  <2>4. s \in Seq(Part)
    <3>1. stack # <<>> /\ Len(stack) \in Nat
      BY <1>5, <1>6
    <3>2. Len(stack) - 1 \in Nat
      BY <3>1
    <3>3. Front(stack) \in Seq(Part)
      BY <3>2 DEF Front
    <3> QED
      BY <2>3, <3>3
  <2>5. fit' = [walk |-> walk, visited |-> visited, pairs |-> pairs, stack |-> s, ended |-> TRUE,
                imported |-> imported]
    <3>1. PICK w, yes : w = v.fit /\ yes = TRUE
      OBVIOUS
    <3>2. w = [walk |-> walk, visited |-> visited, pairs |-> pairs, stack |-> stack, ended |-> ended,
               imported |-> imported]
      BY <1>6, <3>1
    <3>3. w.stack = stack
      BY <3>2
    <3>4. fit' = [w EXCEPT !.ended = yes, !.stack = s]
      BY <2>1, <2>3, <3>1, <3>3
    <3>5. fit' = [walk |-> walk, visited |-> visited, pairs |-> pairs, stack |-> s, ended |-> yes,
                  imported |-> imported]
      BY <3>2, <3>4
    <3> QED
      BY <3>1, <3>5
  <2>6. fit' \in Walker(Part)
    BY <2>4, <2>5 DEF Walker
  <2>7. PICK f : f = IF p[1] = Current THEN v.fields ELSE Nested(v.fields, p)
    OBVIOUS
  <2>8. FieldsOK(f)
    BY <1>1, <1>5, <2>2, <2>7, NestedIs
  <2>9. PICK t : t = p[1]
    OBVIOUS
  <2>10. FieldsOK([f EXCEPT ![t].receiver = n])
    BY <1>3, <2>2, <2>8, <2>9, Changed
  <2> QED
    BY <1>10, <2>1, <2>6, <2>7, <2>9, <2>10
<1> QED
  BY <1>11, <1>12, <1>13

\* A field is entered or left, a walk ends, or the planner gives up.
LEMMA FieldStep ==
  ASSUME Inv, StartField \/ SwitchToField \/ ExhaustWalk \/ EndField \/ Unpaired \/ WrongReceiver
  PROVE  Inv'
<1>1. CASE StartField
  <2>1. Planning
    BY <1>1 DEF StartField, Planning
  <2>2. PICK s \in calculate_start_nodes(G) : EnterField(s)
    BY <1>1 DEF StartField
  <2>3. s \in Part
    BY <2>1, PartIs, StartNodesAre
  <2> QED
    BY <2>1, <2>2, <2>3, EnterStep
<1>2. CASE SwitchToField
  <2>1. Planning /\ EnterField(offer) /\ offer \in Part
    BY <1>2 DEF SwitchToField, Planning, Inv, PlanInv
  <2>2. PICK t \in Part : t = offer
    BY <2>1
  <2> QED
    BY <2>1, <2>2, EnterStep
<1>3. CASE ExhaustWalk
  <2>1. InField /\ EndPart
    BY <1>3 DEF ExhaustWalk
  <2>2. /\ Planning /\ OfParts /\ FieldsOK(fields) /\ fit \in Walker(Part) /\ Current \in Part
    BY <2>1, CurrentIs
  <2>3. PICK t, body, f : /\ t = Current /\ f = fields /\ f[t].body = body
                          /\ fields' = [f EXCEPT ![t].body = @ \cup (IF fit.walk = <<>> THEN {} ELSE {Last(fit.walk)})]
    BY <1>3 DEF ExhaustWalk
  <2>4. PICK walk \in Seq(Part) : walk = fit.walk
    BY <2>2 DEF Walker
  <2>5. PICK more : more = IF walk = <<>> THEN {} ELSE {Last(walk)}
    OBVIOUS
  <2>6. more \subseteq Nodes
    <3>1. walk # <<>> => Len(walk) \in 1..Len(walk)
      OBVIOUS
    <3>2. walk # <<>> => Last(walk) \in Nodes
      BY <2>2, <2>4, <3>1 DEF Last, OfParts
    <3> QED
      BY <2>5, <3>2
  <2>7. PICK receiver \in Nodes \cup {NoNode}, inner \in SUBSET Nodes, init \in Seq(Nodes) :
          body \in SUBSET Nodes /\ f[t] = [receiver |-> receiver, body |-> body, inner |-> inner, init |-> init]
    <3>1. f[t] \in Descriptor
      BY <2>2, <2>3 DEF FieldsOK, OfParts
    <3> QED
      BY <2>3, <3>1 DEF Descriptor
  <2>8. PICK now, d : now = body \cup more /\ d = [receiver |-> receiver, body |-> now, inner |-> inner, init |-> init]
    OBVIOUS
  <2>9. f \in [Nodes -> Descriptor] /\ t \in Nodes /\ d \in Descriptor
    <3>1. now \in SUBSET Nodes
      BY <2>6, <2>7, <2>8
    <3> QED
      BY <2>2, <2>3, <2>7, <2>8, <3>1 DEF FieldsOK, OfParts, Descriptor
  <2>10. fields' = [f EXCEPT ![t].body = now]
    BY <2>3, <2>4, <2>5, <2>8, <2>9
  <2>11. fields' = [f EXCEPT ![t] = d]
    <3>1. fields' = [f EXCEPT ![t] = [f[t] EXCEPT !.body = now]]
      BY <2>9, <2>10
    <3>2. d = [receiver |-> receiver, body |-> now, inner |-> inner, init |-> init]
      BY <2>8
    <3>3. f[t] = [receiver |-> receiver, body |-> body, inner |-> inner, init |-> init]
      BY <2>7
    <3>4. [f[t] EXCEPT !.body = now] = d
      BY <3>2, <3>3
    <3> QED
      BY <3>1, <3>4
  <2>12. d.init = f[t].init
    BY <2>7, <2>8
  <2>13. fields' \in [Nodes -> Descriptor] /\ \A m \in Nodes : fields'[m].init = f[m].init
    BY <2>9, <2>11, <2>12
  <2>14. todo \subseteq Nodes /\ pc = "next"
    BY <2>1, <2>2 DEF OfParts, InField
  <2> QED
    BY <2>1, <2>3, <2>13, <2>14, EndStep
<1>4. CASE EndField
  <2>1. pc = "next" /\ EndPart /\ fields' = fields /\ Planning
    BY <1>4 DEF EndField, Planning
  <2> QED
    BY <2>1, PartIs, EndStep
<1>5. CASE Unpaired \/ WrongReceiver
  <2>1. Planning /\ pc' = "failed" /\ UNCHANGED <<drawing, todo, G, plans, fields>>
    BY <1>5 DEF Unpaired, WrongReceiver, InField, Planning, part
  <2>2. PartsInv' /\ PartInv' /\ PlainInv'
    BY <2>1, Within
  <2>3. ~Planning' /\ pc' \notin {"next", "offer"}
    BY <2>1 DEF Planning
  <2>4. FieldsInv'
    BY <2>1, <2>3 DEF Inv, FieldsInv
  <2> QED
    BY <2>2, <2>3, <2>4 DEF Inv, DefaultInv, FieldInv, PlanInv
<1> QED
  BY <1>1, <1>2, <1>3, <1>4, <1>5

\* The planner looks at the node an iterator returned.
LEMMA OfferStep ==
  ASSUME Inv, Seen \/ Commit
  PROVE  Inv'
<1>1. Planning /\ pc = "offer" /\ offer \in Part /\ last \in Part /\ itr \in {"default", "field"} /\ plan \in Seq(Part)
  BY DEF Seen, Commit, Planning, Inv, PlanInv
<1>2. pc' = "next" /\ UNCHANGED <<drawing, todo, G, plans, itr, dit, fields>>
  BY DEF Seen, Commit, part
<1>3. PartsInv' /\ PartInv' /\ PlainInv' /\ Part' = Part
  BY <1>1, <1>2, Within DEF Planning
<1>4. DefaultInv'
  BY <1>1, <1>2, <1>3 DEF Inv, DefaultInv
<1>5. FieldInv'
  <2> SUFFICES ASSUME itr = "field" PROVE fit' \in Walker(Part)
    BY <1>2, <1>3 DEF FieldInv
  <2>1. fit \in Walker(Part)
    BY <1>1 DEF Inv, FieldInv
  <2>2. CASE fit' = fit
    BY <2>1, <2>2
  <2>3. CASE fit' # fit
    <3>1. fit' = [fit EXCEPT !.ended = FALSE]
      BY <2>3 DEF Seen, Commit
    <3>2. PICK no \in BOOLEAN : no = FALSE
      OBVIOUS
    <3>3. fit' = [fit EXCEPT !.ended = no]
      BY <3>1, <3>2
    <3> QED
      BY <2>1, <3>3 DEF Walker
  <2> QED
    BY <2>2, <2>3
<1>6. PlanInv'
  <2>1. plan' \in Seq(Part) /\ last' \in Part
    <3>1. CASE Seen
      BY <1>1, <3>1 DEF Seen
    <3>2. CASE Commit
      BY <1>1, <3>2 DEF Commit
    <3> QED
      BY <3>1, <3>2
  <2> QED
    BY <1>1, <1>2, <1>3, <2>1 DEF PlanInv
<1>7. FieldsInv'
  BY <1>1, <1>2, <1>3 DEF Inv, FieldsInv, Planning
<1> QED
  BY <1>3, <1>4, <1>5, <1>6, <1>7 DEF Inv

-----------------------------------------------------------------------------
(* The theorems. *)

\* A planning starts with nothing planned.
LEMMA Starts ==
  ASSUME NEW d, d \in Drawings \cup UNION {{e[1], e[2]} : e \in Edits}
  PROVE  IsDrawing(d) /\ Crossed(EdgeSet(Graph(d)), ToSet(d.nodes))
<1>1. IsDrawing(d)
  BY DrawingAssumption
<1>2. Simple(Graph(d)) /\ NodeSet(Graph(d)) = ToSet(d.nodes)
  BY <1>1, GraphIs
<1> QED
  BY <1>1, <1>2 DEF Simple, Crossed

LEMMA NoneDescribed == NoDescriptors \in [Nodes -> Descriptor] /\ \A n \in Nodes : NoDescriptors[n].init = <<>>
<1>1. PICK d : d = Field_descriptor(NoNode)
  OBVIOUS
<1>2. d \in Descriptor /\ d.init = <<>>
  <2>1. <<>> \in Seq(Nodes)
    OBVIOUS
  <2> QED
    BY <1>1, <2>1 DEF Descriptor, Field_descriptor
<1>3. NoDescriptors = [n \in Nodes |-> d]
  BY <1>1 DEF NoDescriptors
<1> QED
  BY <1>2, <1>3

LEMMA Fresh ==
  ASSUME NEW d, IsDrawing(d), Crossed(EdgeSet(Graph(d)), ToSet(d.nodes)),
         drawing' = d, pc' = "part", todo' = ToSet(d.nodes), plans' = <<>>, fields' = NoDescriptors
  PROVE  Inv'
<1>1. Drawn' = Graph(d)
  BY DEF Drawn
<1>2. PICK none : none = plans'
  OBVIOUS
<1>3. none \in Seq(Nodes) /\ Distinct(none) /\ ToSet(none) = {}
  BY <1>2 DEF Distinct, ToSet
<1>4. PartsInv'
  BY <1>1, <1>2, <1>3 DEF PartsInv
<1>5. PlainInv'
  BY DEF PlainInv, Sortable
<1>6. ~Planning' /\ pc' \notin {"next", "offer"}
  BY DEF Planning
<1>7. FieldsInv'
  <2>1. todo' \subseteq Nodes
    BY DEF IsDrawing, ToSet
  <2> QED
    BY <1>6, <2>1, NoneDescribed DEF FieldsInv
<1> QED
  BY <1>4, <1>5, <1>6, <1>7 DEF Inv, PartInv, DefaultInv, FieldInv, PlanInv

LEMMA InitInv == Init => Inv
<1> SUFFICES ASSUME Init PROVE Inv
  OBVIOUS
<1>1. IsDrawing(drawing) /\ Crossed(EdgeSet(Drawn), ToSet(drawing.nodes))
  <2>1. drawing \in Drawings \cup UNION {{e[1], e[2]} : e \in Edits}
    BY DEF Init
  <2> QED
    BY <2>1, Starts DEF Drawn
<1>2. pc = "part" /\ todo = ToSet(drawing.nodes) /\ plans = <<>> /\ fields = NoDescriptors
  BY DEF Init
<1>3. PICK none : none = plans
  OBVIOUS
<1>4. none \in Seq(Nodes) /\ Distinct(none) /\ ToSet(none) = {}
  BY <1>2, <1>3 DEF Distinct, ToSet
<1>5. PartsInv
  BY <1>1, <1>2, <1>3, <1>4 DEF PartsInv
<1>6. PlainInv
  BY <1>2 DEF PlainInv, Sortable
<1>7. ~Planning /\ pc \notin {"next", "offer"}
  BY <1>2 DEF Planning
<1>8. FieldsInv
  <2>1. todo \subseteq Nodes
    BY <1>1, <1>2 DEF IsDrawing, ToSet
  <2> QED
    BY <1>2, <1>7, <2>1, NoneDescribed DEF FieldsInv
<1> QED
  BY <1>5, <1>6, <1>7, <1>8 DEF Inv, PartInv, DefaultInv, FieldInv, PlanInv

LEMMA NextInv == Inv /\ [Next]_vars => Inv'
<1> SUFFICES ASSUME Inv, [Next]_vars PROVE Inv'
  OBVIOUS
<1>1. CASE Cyclic \/ SortPart \/ PlanPart
  BY <1>1, TakeStep
<1>2. CASE Finish
  <2>1. pc' = "done" /\ todo = {} /\ UNCHANGED <<drawing, todo, plans, fields>>
    BY <1>2 DEF Finish, part
  <2>2. Drawn' = Drawn /\ Sortable' = Sortable /\ \A n : Fieldless(n)' <=> Fieldless(n)
    BY <2>1 DEF Drawn, Sortable, Fieldless
  <2>3. PartsInv'
    BY <2>1, <2>2 DEF Inv, PartsInv
  <2>4. PlainInv'
    BY <2>1, <2>2 DEF Inv, PlainInv, After
  <2>5. ~Planning' /\ pc' \notin {"next", "offer"}
    BY <2>1 DEF Planning
  <2>6. FieldsInv'
    BY <2>1, <2>5 DEF Inv, FieldsInv
  <2> QED
    BY <2>3, <2>4, <2>5, <2>6 DEF Inv, PartInv, DefaultInv, FieldInv, PlanInv
<1>3. CASE StartDefault \/ NextDefault \/ EndDefault \/ LeaveField
  BY <1>3, DefaultStep
<1>4. CASE StartField \/ SwitchToField \/ ExhaustWalk \/ EndField \/ Unpaired \/ WrongReceiver
  BY <1>4, FieldStep
<1>5. CASE WalkNode \/ OpenField \/ CloseField
  BY <1>5, VisitStep
<1>6. CASE Seen \/ Commit
  BY <1>6, OfferStep
<1>7. CASE Reload
  <2>1. PICK d : /\ d \in Drawings \cup UNION {{e[1], e[2]} : e \in Edits}
                 /\ drawing' = d /\ pc' = "part" /\ todo' = ToSet(d.nodes) /\ plans' = <<>> /\ fields' = NoDescriptors
    BY <1>7 DEF Reload
  <2>2. IsDrawing(d) /\ Crossed(EdgeSet(Graph(d)), ToSet(d.nodes))
    BY <2>1, Starts
  <2> QED
    BY <2>1, <2>2, Fresh
<1>8. CASE UNCHANGED vars
  <2>1. UNCHANGED <<drawing, pc, todo, G, plans, plan, itr, offer, last, dit, fit, fields>>
    BY <1>8 DEF vars, part
  <2>2. Drawn' = Drawn /\ Sortable' = Sortable /\ Part' = Part /\ (Planning' <=> Planning)
        /\ \A n : (Fieldless(n)' <=> Fieldless(n)) /\ (After(n)' <=> After(n))
    BY <2>1 DEF Drawn, Sortable, Fieldless, Part, Planning, After
  <2>3. PartsInv' /\ PartInv' /\ PlainInv'
    BY <2>1, <2>2 DEF Inv, PartsInv, PartInv, PlainInv
  <2>4. DefaultInv' /\ FieldInv' /\ PlanInv' /\ FieldsInv'
    BY <2>1, <2>2 DEF Inv, DefaultInv, FieldInv, PlanInv, FieldsInv
  <2> QED
    BY <2>3, <2>4 DEF Inv
<1> QED
  BY <1>1, <1>2, <1>3, <1>4, <1>5, <1>6, <1>7, <1>8 DEF Next

\* Whatever is drawn, parts are planned whole: those that are left share no
\* node with the plans, those that were taken and have no fields are in them
\* in order, and what the iterators hold is of the part being planned.
THEOREM PartsArePlannedWhole == Spec => []Inv
<1>1. Init => Inv
  BY InitInv
<1>2. Inv /\ [Next]_vars => Inv'
  BY NextInv
<1> QED
  BY <1>1, <1>2, PTL DEF Spec

\* Whatever is drawn, a plan that create_execution_plan returns holds no node
\* twice, however often its iterators hand over and rewind, and none of a
\* part with a cycle.
THEOREM NothingIsPlannedTwice == Spec => []PlannedOnce
<1>1. Inv => PlannedOnce
  BY DEF Inv, PartsInv, PlannedOnce, Distinct
<1> QED
  BY <1>1, PartsArePlannedWhole, PTL

\* Whatever else is drawn, the parts without fields are planned completely,
\* every node after all that feed it.
THEOREM PlainPartsAreInOrder == Spec => []PlainInOrder
<1>1. Inv => PlainInOrder
  <2> SUFFICES ASSUME Inv, pc = "done", NEW n \in Sortable, Fieldless(n)
               PROVE  /\ n \in ToSet(plans)
                      /\ \A u \in ToSet(predecessors(Drawn, n)) : u \in ToSet(plans) /\ Planned(u) < Planned(n)
    BY DEF PlainInOrder
  <2>1. After(n) /\ Distinct(plans) /\ plans \in Seq(Nodes)
    BY DEF Inv, PartsInv, PlainInv
  <2>2. \A i \in DOMAIN plans : Planned(plans[i]) = i
    <3> TAKE i \in DOMAIN plans
    <3>1. \A j \in DOMAIN plans : plans[j] = plans[i] => j = i
      BY <2>1 DEF Distinct
    <3> QED
      BY <3>1 DEF Planned
  <2>3. PICK j \in DOMAIN plans : plans[j] = n
    BY <2>1 DEF After, ToSet
  <2>4. ASSUME NEW u \in ToSet(predecessors(Drawn, n)) PROVE u \in ToSet(plans) /\ Planned(u) < Planned(n)
    <3>1. PICK i \in DOMAIN plans : i < j /\ plans[i] = u
      BY <2>1, <2>3 DEF After
    <3> QED
      BY <2>2, <2>3, <3>1 DEF ToSet
  <2> QED
    BY <2>1, <2>4 DEF After
<1> QED
  BY <1>1, PartsArePlannedWhole, PTL

\* Both: what every plan keeps, whatever is drawn.
THEOREM EveryPlanIsSafe == Spec => []EveryPlan
<1> QED
  BY NothingIsPlannedTwice, PlainPartsAreInOrder, PTL DEF EveryPlan

-----------------------------------------------------------------------------
(* Types.  What the iterators hold is left over when a part is done. *)

\* A pair of the field iterator has its field in the cache.
LEMMA PairsCached ==
  ASSUME Inv, fit.pairs \subseteq DOMAIN cache, [Next]_vars
  PROVE  fit'.pairs \subseteq DOMAIN cache'
<1>1. CASE UNCHANGED <<fit, cache>>
  BY <1>1
<1>2. ASSUME NEW t, EnterField(t) PROVE fit'.pairs \subseteq DOMAIN cache'
  <2>1. PICK found, w, imported : /\ cache' = CachedField(found)
                        /\ fit' = [walk |-> w, visited |-> {t}, pairs |-> found, stack |-> <<t>>,
                                   ended |-> FALSE, imported |-> imported]
    BY <1>2 DEF EnterField
  <2>2. DOMAIN cache' = found \cup DOMAIN cache
    BY <2>1 DEF CachedField
  <2> QED
    BY <2>1, <2>2
<1>3. CASE WalkNode \/ OpenField \/ CloseField
  <2>1. InField /\ Unvisited # <<>> /\ cache' = cache
    BY <1>3 DEF WalkNode, OpenField, CloseField
  <2>2. PICK n : n = Head(Unvisited) /\ n \in Part
    BY <2>1, CurrentIs
  <2>3. PICK v : v = Visit(n).fit
    OBVIOUS
  <2>4. v.pairs = fit.pairs /\ v \in Walker(Part)
    <3>1. fit \in Walker(Part) /\ v \in Walker(Part)
      BY <2>1, <2>2, <2>3, CurrentIs, VisitIs
    <3>2. PICK seen, walk, imported : v = [fit EXCEPT !.visited = seen, !.walk = walk, !.imported = imported]
      BY <2>3 DEF Visit
    <3> QED
      BY <3>1, <3>2 DEF Walker
  <2>5. fit' = v \/ (\E s : fit' = [v EXCEPT !.stack = s]) \/ \E e, s : fit' = [v EXCEPT !.ended = e, !.stack = s]
    <3>1. CASE WalkNode
      BY <2>2, <2>3, <3>1 DEF WalkNode
    <3>2. CASE OpenField
      BY <2>2, <2>3, <3>2 DEF OpenField
    <3>3. CASE CloseField
      BY <2>2, <2>3, <3>3 DEF CloseField
    <3> QED
      BY <1>3, <3>1, <3>2, <3>3
  <2>6. fit'.pairs = v.pairs
    BY <2>4, <2>5 DEF Walker
  <2> QED
    BY <2>1, <2>4, <2>6
<1>4. CASE Commit
  <2>1. cache' = cache /\ (fit' = fit \/ (itr = "field" /\ fit' = [fit EXCEPT !.ended = FALSE]))
    BY <1>4 DEF Commit
  <2>2. itr = "field" => fit \in Walker(Part)
    BY <1>4 DEF Commit, Inv, FieldInv, Planning
  <2>3. fit'.pairs = fit.pairs
    BY <2>1, <2>2 DEF Walker
  <2> QED
    BY <2>1, <2>3
<1>5. CASE StartField \/ SwitchToField
  BY <1>2, <1>5 DEF StartField, SwitchToField
<1>6. CASE Cyclic \/ SortPart \/ PlanPart \/ Finish \/ Reload
  BY <1>1, <1>6 DEF Cyclic, SortPart, PlanPart, TakePart, Finish, Reload
<1>7. CASE StartDefault \/ NextDefault \/ EndDefault \/ LeaveField \/ EndField \/ ExhaustWalk
  BY <1>1, <1>7 DEF StartDefault, NextDefault, EndDefault, LeaveField, EndField, ExhaustWalk, EndPart
<1>8. CASE Unpaired \/ WrongReceiver \/ Seen \/ UNCHANGED vars
  BY <1>1, <1>8 DEF Unpaired, WrongReceiver, Seen, vars
<1> QED
  BY <1>3, <1>4, <1>5, <1>6, <1>7, <1>8 DEF Next

\* Outside of a planning its state stays, but for what the next part resets.
LEMMA LeftOver ==
  ASSUME Inv, [Next]_vars
  PROVE  /\ itr' \in {"none", "default", "field", itr}
         /\ pc' # "offer" => offer' = offer
         /\ pc' \notin {"next", "offer"} => last' = last
         /\ ~Planning' => plan' \in {plan, <<>>} /\ dit' \in {dit, Default_node_iterator}
         /\ ~(Planning' /\ itr' = "field") => fit' = fit
         /\ complete' = complete \/ complete' = {} \/ \E n \in Nodes : complete' = complete \cup {n}
<1>1. CASE Cyclic \/ SortPart \/ PlanPart
  BY <1>1 DEF Cyclic, SortPart, PlanPart, TakePart
<1>2. CASE Finish \/ Reload
  BY <1>2 DEF Finish, Reload
<1>3. CASE StartDefault \/ NextDefault \/ LeaveField
  BY <1>3 DEF StartDefault, NextDefault, LeaveField, Offer, Planning
<1>4. CASE EndDefault \/ EndField \/ ExhaustWalk
  BY <1>4 DEF EndDefault, EndField, ExhaustWalk, EndPart, Planning
<1>5. CASE Unpaired \/ WrongReceiver
  BY <1>5 DEF Unpaired, WrongReceiver
<1>6. CASE StartField \/ SwitchToField
  <2>1. PICK t : EnterField(t)
    BY <1>6 DEF StartField, SwitchToField
  <2>2. pc' = "next" /\ itr' = "field" /\ offer' = offer /\ complete' = complete
    BY <2>1 DEF EnterField
  <2> QED
    BY <2>2 DEF Planning
<1>7. CASE WalkNode \/ OpenField
  BY <1>7 DEF WalkNode, OpenField, InField, Offer, Planning
<1>8. CASE CloseField
  <2>1. InField /\ Unvisited # <<>>
    BY <1>8 DEF CloseField
  <2>2. pc' = "offer" /\ itr' = "field" /\ last' = last
    BY <1>8 DEF CloseField, InField, Offer
  <2>3. PICK p \in Enveloping(Head(Unvisited)) : complete' = complete \cup {p[1]}
    BY <1>8 DEF CloseField
  <2>4. p \in fit.pairs
    BY DEF Enveloping, find_enveloping_tr_pair
  <2>5. fit.pairs \subseteq Part \X Part /\ Part \subseteq Nodes
    BY <2>1, CurrentIs DEF OfParts
  <2>6. p[1] \in Nodes
    BY <2>4, <2>5
  <2> QED
    BY <2>2, <2>3, <2>6 DEF Planning
<1>9. CASE Seen
  BY <1>9 DEF Seen, Planning
<1>10. CASE Commit
  BY <1>10 DEF Commit, Planning
<1>11. CASE UNCHANGED vars
  BY <1>11 DEF vars, Planning
<1> QED
  BY <1>1, <1>2, <1>3, <1>4, <1>5, <1>6, <1>7, <1>8, <1>9, <1>10, <1>11 DEF Next

\* What is of a part is of the drawing.
LEMMA OfNodes ==
  ASSUME NEW P, P \subseteq Nodes
  PROVE  /\ \A s \in Seq(P) : s \in Seq(Nodes)
         /\ \A d \in Iterator(P) : d.sorted \in Seq(Nodes \cup {-n : n \in Nodes}) /\ d.near \in Seq(Nodes)
         /\ \A f \in Walker(P) : f.stack \in Seq(Nodes) /\ f.visited \subseteq Nodes
<1>1. PICK S, T : S = Signed(P) /\ T = Nodes \cup {-n : n \in Nodes}
  OBVIOUS
<1>2. \A s \in Seq(P) : s \in Seq(Nodes)
  BY <1>1
<1>3. S \subseteq T
  BY <1>1 DEF Signed
<1>4. \A s \in Seq(S) : s \in Seq(T)
  BY <1>3
<1>5. \A d \in Iterator(P) : d.sorted \in Seq(S) /\ d.near \in Seq(P)
  BY <1>1 DEF Iterator
<1>6. \A f \in Walker(P) : f.stack \in Seq(P) /\ f.visited \subseteq P
  BY DEF Walker
<1> QED
  BY <1>1, <1>2, <1>4, <1>5, <1>6

LEMMA TypeStep ==
  ASSUME Inv, TypeOK, [Next]_vars
  PROVE  TypeOK'
<1>1. Inv'
  BY NextInv
<1>2. /\ itr' \in {"none", "default", "field", itr}
      /\ pc' # "offer" => offer' = offer
      /\ pc' \notin {"next", "offer"} => last' = last
      /\ ~Planning' => plan' \in {plan, <<>>} /\ dit' \in {dit, Default_node_iterator}
      /\ ~(Planning' /\ itr' = "field") => fit' = fit
      /\ complete' = complete \/ complete' = {} \/ \E n \in Nodes : complete' = complete \cup {n}
  BY LeftOver
<1>3. /\ IsDrawing(drawing)' /\ pc' \in {"part", "start", "next", "offer", "done", "failed"}
      /\ todo' \subseteq ToSet(drawing'.nodes) /\ plans' \in Seq(Nodes)
  BY <1>1 DEF Inv, PartsInv
<1>4. Planning' => (Part \subseteq Nodes)'
  BY <1>1, PartIs, PTL
<1>5. Planning' =>
        /\ \A s \in Seq(Part') : s \in Seq(Nodes)
        /\ \A d \in Iterator(Part') : d.sorted \in Seq(Nodes \cup {-n : n \in Nodes}) /\ d.near \in Seq(Nodes)
        /\ \A f \in Walker(Part') : f.stack \in Seq(Nodes) /\ f.visited \subseteq Nodes
  <2>1. PICK P : P = Part'
    OBVIOUS
  <2> QED
    BY <1>4, <2>1, OfNodes
<1>6. offer' \in Nodes \cup {NoNode} /\ last' \in Nodes \cup {NoNode}
  BY <1>1, <1>2, <1>4 DEF TypeOK, Inv, PlanInv, Planning
<1>7. plan' \in Seq(Nodes)
  <2>1. PICK none : none = <<>>
    OBVIOUS
  <2>2. none \in Seq(Nodes)
    BY <2>1
  <2> QED
    BY <1>1, <1>2, <1>5, <2>1, <2>2 DEF TypeOK, Inv, PlanInv
<1>8. dit'.sorted \in Seq(Nodes \cup {-n : n \in Nodes}) /\ dit'.near \in Seq(Nodes)
  <2>1. CASE Planning'
    BY <1>1, <1>5, <2>1 DEF Inv, DefaultInv, HasHome
  <2>2. CASE ~Planning'
    <3>1. PICK none : none = <<>>
      OBVIOUS
    <3>2. none \in Seq(Nodes \cup {-n : n \in Nodes}) /\ none \in Seq(Nodes)
      BY <3>1
    <3>3. Default_node_iterator.sorted = none /\ Default_node_iterator.near = none
      BY <3>1 DEF Default_node_iterator
    <3>4. dit' = dit \/ dit' = Default_node_iterator
      BY <1>2, <2>2
    <3> QED
      BY <3>2, <3>3, <3>4 DEF TypeOK
  <2> QED
    BY <2>1, <2>2
<1>9. fit'.stack \in Seq(Nodes) /\ fit'.visited \subseteq Nodes
  <2>1. CASE Planning' /\ itr' = "field"
    BY <1>1, <1>5, <2>1 DEF Inv, FieldInv
  <2>2. CASE ~(Planning' /\ itr' = "field")
    BY <1>2, <2>2 DEF TypeOK
  <2> QED
    BY <2>1, <2>2
<1>10. fit'.pairs \subseteq DOMAIN cache'
  BY PairsCached DEF TypeOK
<1>11. \A n \in Nodes : fields'[n].body \subseteq Nodes /\ fields'[n].inner \subseteq Nodes
  BY <1>1 DEF Inv, FieldsInv, Descriptor
<1>12. complete' \subseteq Nodes /\ itr' \in {"none", "default", "field"}
  BY <1>2 DEF TypeOK
<1> QED
  BY <1>3, <1>6, <1>7, <1>8, <1>9, <1>10, <1>11, <1>12 DEF TypeOK

\* Both iterators, their stacks, the descriptors and the plans hold nodes of
\* the drawing, and every pair of the field iterator has its field in the cache.
THEOREM PlannerTypeCorrect == Spec => []TypeOK
<1>1. Init => TypeOK
  <2> SUFFICES ASSUME Init PROVE TypeOK
    OBVIOUS
  <2>1. IsDrawing(drawing) /\ \A n \in Nodes : fields[n].body \subseteq Nodes /\ fields[n].inner \subseteq Nodes
    BY InitInv DEF Inv, PartsInv, FieldsInv, Descriptor
  <2>2. PICK none : none = <<>>
    OBVIOUS
  <2>3. none \in Seq(Nodes) /\ none \in Seq(Nodes \cup {-n : n \in Nodes})
    BY <2>2
  <2>4. plan = none /\ plans = none /\ dit.sorted = none /\ dit.near = none /\ fit.stack = none
        /\ fit.visited = {} /\ fit.pairs = {}
    BY <2>2 DEF Init, Default_node_iterator, Field_iterator
  <2> QED
    BY <2>1, <2>3, <2>4 DEF Init, TypeOK
<1> QED
  BY <1>1, TypeStep, PartsArePlannedWhole, PTL DEF Spec
=============================================================================
