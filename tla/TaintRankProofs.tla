--------------------------- MODULE TaintRankProofs ---------------------------
(***************************************************************************)
(* Proofs about taint analysis and ranking, for every set of traces of any *)
(* length: the worklist holds each operand once, every operand is replaced *)
(* by operands further from the crash, and of two instructions the more    *)
(* redundant one never comes out higher.                                   *)
(*                                                                         *)
(* The lists are built by folds.  FoldIs says of one that it is the last   *)
(* value of a function that goes along the sequence, whatever set the      *)
(* values stay in; AddedIs, SourcesAre and CountersAre are its instances.  *)
(***************************************************************************)
EXTENDS TaintRank, FiniteSetTheorems, WellFoundedInduction, TLAPS

(* Numbers. *)

\* Every set of numbers has a least one.
LEMMA LeastNat ==
  ASSUME NEW S, S \subseteq Nat, S # {}
  PROVE  \E m \in S : \A k \in S : m <= k
<1> DEFINE R == OpToRel(<, Nat)
<1>1. IsWellFoundedOn(R, Nat)
  BY NatLessThanWellFounded
<1>2. \A x, y \in Nat : <<y, x>> \in R <=> y < x
  BY DEF OpToRel
<1> HIDE DEF R
<1>3. PICK m \in S : \A k \in S : ~(<<k, m>> \in R)
  BY <1>1, WFMin
<1>4. ASSUME NEW k \in S PROVE m <= k
  <2>1. m \in Nat /\ k \in Nat /\ ~(k < m)
    BY <1>2, <1>3
  <2> QED
    BY <2>1
<1> QED
  BY <1>4

\* The least of some numbers.
LEMMA MinIs ==
  ASSUME NEW S, S \subseteq Nat, S # {}
  PROVE  Min(S) \in S /\ \A x \in S : Min(S) <= x
BY LeastNat DEF Min

\* The largest of some places of a list.
LEMMA MaxIs ==
  ASSUME NEW n \in Nat, NEW s \in SUBSET (1..n), s # {}
  PROVE  Max(s) \in s /\ \A x \in s : x <= Max(s)
<1> DEFINE K == {n - x : x \in s}
<1>1. \A x \in s : n - x \in Nat /\ x \in Nat
  OBVIOUS
<1>2. K \subseteq Nat /\ K # {}
  BY <1>1
<1>3. PICK m \in K : \A k \in K : m <= k
  <2> HIDE DEF K
  <2> QED
    BY <1>2, LeastNat
<1>4. PICK t \in s : m = n - t
  BY <1>3
<1>5. \A x \in s : t >= x
  <2> SUFFICES ASSUME NEW x \in s PROVE t >= x
    OBVIOUS
  <2>1. n - t <= n - x
    BY <1>3, <1>4
  <2> QED
    BY <2>1, <1>1
<1>6. \E t1 \in s : \A x \in s : t1 >= x
  BY <1>5
<1>7. Max(s) \in s /\ \A x \in s : Max(s) >= x
  BY <1>6 DEF Max
<1> QED
  BY <1>7, <1>1

-----------------------------------------------------------------------------
(* Folds. *)

\* What the fold of F over q has at the places s, if it has g at fewer.
Folding(F, base, q, g, s) == IF s = {} THEN base ELSE F[<<g[s \ {Max(s)}], q[Max(s)]>>]

\* F stays in X when it goes along the first n elements of q, which are in Y.
Foldable(X, Y, F, base, n, q) == /\ F \in [X \X Y -> X] /\ base \in X
                                 /\ n \in Nat /\ \A i \in 1..n : q[i] \in Y

\* g is its fold over any places.
FoldedBy(X, F, base, n, q, g) == /\ g \in [SUBSET (1..n) -> X]
                                 /\ \A s \in SUBSET (1..n) : g[s] = Folding(F, base, q, g, s)

\* h goes on as g does, where it has gone along with it.
Follows(n, g, h) ==
  \A s \in SUBSET (1..n) : (s # {} => h[s \ {Max(s)}] = g[s \ {Max(s)}]) => h[s] = g[s]

\* Places without the last of them are fewer.
LEMMA Fewer ==
  ASSUME NEW n \in Nat
  PROVE  /\ \A s \in SUBSET (1..n) : Cardinality(s) \in Nat /\ Cardinality(s) <= n
                                     /\ (Cardinality(s) = 0 <=> s = {})
         /\ \A s \in SUBSET (1..n) : s # {} =>
               /\ s \ {Max(s)} \in SUBSET (1..n) /\ Max(s) \in 1..n
               /\ Cardinality(s \ {Max(s)}) = Cardinality(s) - 1
<1>1. \A s \in SUBSET (1..n) : /\ IsFiniteSet(s) /\ Cardinality(s) \in Nat /\ Cardinality(s) <= n
                               /\ Cardinality(s) = 0 <=> s = {}
  <2>1. IsFiniteSet(1..n) /\ Cardinality(1..n) = n
    BY FS_Interval
  <2>2. \A s \in SUBSET (1..n) : IsFiniteSet(s) /\ Cardinality(s) \in Nat /\ Cardinality(s) <= n
    BY <2>1, FS_Subset, FS_CardinalityType
  <2> QED
    BY <2>2, FS_EmptySet
<1>2. \A s \in SUBSET (1..n) : s # {} => /\ s \ {Max(s)} \in SUBSET (1..n) /\ Max(s) \in 1..n
                                         /\ Cardinality(s \ {Max(s)}) = Cardinality(s) - 1
  BY <1>1, MaxIs, FS_RemoveElement
<1> QED
  BY <1>1, <1>2

\* What holds of places if it holds of fewer holds of all.
LEMMA PlacesInduction ==
  ASSUME NEW n \in Nat, NEW G, G \subseteq SUBSET (1..n),
         \A s \in SUBSET (1..n) : (s # {} => s \ {Max(s)} \in G) => s \in G
  PROVE  SUBSET (1..n) = G
<1> DEFINE D == SUBSET (1..n)
           Bad == {Cardinality(s) : s \in D \ G}
<1>1. SUFFICES ASSUME D \ G # {} PROVE FALSE
  OBVIOUS
<1>2. \A s \in D : Cardinality(s) \in Nat
  BY Fewer
<1>3. Bad \subseteq Nat /\ Bad # {}
  BY <1>1, <1>2
<1>4. PICK k \in Bad : \A j \in Bad : k <= j
  <2> HIDE DEF Bad
  <2> QED
    BY <1>3, LeastNat
<1>5. PICK s \in D \ G : k = Cardinality(s)
  BY <1>4
<1>6. s # {} /\ s \ {Max(s)} \notin G
  OBVIOUS
<1>7. s \ {Max(s)} \in D \ G /\ Cardinality(s \ {Max(s)}) = k - 1 /\ k \in Nat
  BY <1>2, <1>5, <1>6, Fewer
<1>8. k - 1 \in Bad
  BY <1>7
<1> HIDE DEF Bad
<1> QED
  BY <1>4, <1>7, <1>8

\* There is such a g, and it stays in the set F stays in.
LEMMA FoldExists ==
  ASSUME NEW X, NEW Y, NEW F, NEW base, NEW n, NEW q, Foldable(X, Y, F, base, n, q)
  PROVE  \E g : FoldedBy(X, F, base, n, q, g)
<1> USE DEF Foldable
<1> DEFINE D == SUBSET (1..n)
           Right(g, k) == \A s \in D : Cardinality(s) <= k => g[s] = Folding(F, base, q, g, s)
           Bad == {k \in Nat : ~\E g \in [D -> X] : Right(g, k)}
<1>1. /\ \A s \in D : Cardinality(s) \in Nat /\ Cardinality(s) <= n /\ (Cardinality(s) = 0 <=> s = {})
      /\ \A s \in D : s # {} => /\ s \ {Max(s)} \in D /\ Max(s) \in 1..n
                                /\ Cardinality(s \ {Max(s)}) = Cardinality(s) - 1
  BY Fewer
<1>2. ASSUME NEW g \in [D -> X], NEW s \in D PROVE Folding(F, base, q, g, s) \in X
  <2>1. CASE s = {}
    BY <2>1 DEF Folding
  <2>2. CASE s # {}
    <3>1. g[s \ {Max(s)}] \in X /\ q[Max(s)] \in Y
      BY <1>1, <2>2
    <3>2. <<g[s \ {Max(s)}], q[Max(s)]>> \in X \X Y
      BY <3>1
    <3> QED
      BY <2>2, <3>2 DEF Folding
  <2> QED
    BY <2>1, <2>2
<1> HIDE DEF D
<1>3. ASSUME Bad # {} PROVE FALSE
  <2>1. PICK k \in Bad : \A j \in Bad : k <= j
    <3>1. Bad \subseteq Nat
      OBVIOUS
    <3> HIDE DEF Bad
    <3> QED
      BY <1>3, <3>1, LeastNat
  <2>2. CASE k = 0
    <3> DEFINE g == [s \in D |-> base]
    <3>1. \A s \in D : Cardinality(s) <= 0 => s = {}
      BY <1>1
    <3>2. g \in [D -> X] /\ Right(g, 0)
      BY <3>1 DEF Folding
    <3> QED
      BY <2>2, <3>2
  <2>3. CASE k # 0
    <3>1. k \in Nat /\ k - 1 \in Nat /\ k - 1 \notin Bad
      <4>1. k \in Nat
        OBVIOUS
      <4> HIDE DEF Bad
      <4> QED
        BY <4>1, <2>1, <2>3
    <3>2. PICK g \in [D -> X] : Right(g, k - 1)
      BY <3>1
    <3> DEFINE h == [s \in D |-> IF Cardinality(s) <= k - 1 THEN g[s] ELSE Folding(F, base, q, g, s)]
    <3>3. ASSUME NEW s \in D, Cardinality(s) <= k PROVE h[s] = Folding(F, base, q, h, s)
      <4>1. h[s] = Folding(F, base, q, g, s)
        BY <3>2
      <4>2. CASE s = {}
        BY <4>1, <4>2 DEF Folding
      <4>3. CASE s # {}
        <5>1. s \ {Max(s)} \in D /\ Cardinality(s \ {Max(s)}) <= k - 1
          BY <1>1, <3>1, <3>3, <4>3
        <5>2. h[s \ {Max(s)}] = g[s \ {Max(s)}]
          BY <5>1
        <5> HIDE DEF h
        <5> QED
          BY <4>1, <4>3, <5>2 DEF Folding
      <4> QED
        BY <4>2, <4>3
    <3>4. h \in [D -> X]
      <4>1. \A s \in D : (IF Cardinality(s) <= k - 1 THEN g[s] ELSE Folding(F, base, q, g, s)) \in X
        BY <1>2
      <4> QED
        BY <4>1
    <3>5. Right(h, k)
      <4> HIDE DEF h
      <4> QED
        BY <3>3
    <3> HIDE DEF h
    <3> QED
      BY <3>4, <3>5
  <2> QED
    BY <2>2, <2>3
<1>4. PICK g \in [D -> X] : Right(g, n)
  BY <1>3
<1>5. \A s \in D : g[s] = Folding(F, base, q, g, s)
  BY <1>1, <1>4
<1> QED
  BY <1>5 DEF D, FoldedBy

\* Any other g that follows F where the first does is the same.
LEMMA FoldUnique ==
  ASSUME NEW n \in Nat, NEW g, NEW h, Follows(n, g, h)
  PROVE  \A s \in SUBSET (1..n) : h[s] = g[s]
<1> DEFINE G == {s \in SUBSET (1..n) : h[s] = g[s]}
<1>1. \A s \in SUBSET (1..n) : (s # {} => s \ {Max(s)} \in G) => s \in G
  BY DEF Follows
<1>2. G \subseteq SUBSET (1..n)
  OBVIOUS
<1> HIDE DEF G
<1>3. SUBSET (1..n) = G
  BY <1>1, <1>2, PlacesInduction
<1> QED
  BY <1>3 DEF G

\* The values as F goes along.
Along(X, F, base, n, q, f) == /\ f \in [0..n -> X] /\ f[0] = base
                              /\ \A k \in 1..n : f[k] = F[<<f[k - 1], q[k]>>]

\* A fold is the last of the values along the sequence.
LEMMA FoldIs ==
  ASSUME NEW X, NEW F, NEW base, NEW n \in Nat, NEW q, NEW g, FoldedBy(X, F, base, n, q, g)
  PROVE  \E f : Along(X, F, base, n, q, f) /\ f[n] = g[1..n]
<1> USE DEF FoldedBy
<1> DEFINE f == [k \in 0..n |-> g[1..k]]
<1>1. \A k \in 0..n : 1..k \in SUBSET (1..n)
  OBVIOUS
<1>2. f \in [0..n -> X]
  BY <1>1
<1>3. f[0] = base
  <2>1. 1..0 = {} /\ 1..0 \in SUBSET (1..n)
    OBVIOUS
  <2>2. f[0] = g[1..0]
    OBVIOUS
  <2> QED
    BY <2>1, <2>2 DEF Folding
<1>4. f[n] = g[1..n]
  OBVIOUS
<1>5. ASSUME NEW k \in 1..n PROVE f[k] = F[<<f[k - 1], q[k]>>]
  <2>1. 1..k \in SUBSET (1..n) /\ 1..k # {} /\ k \in 1..k
    OBVIOUS
  <2>2. Max(1..k) \in 1..k /\ k <= Max(1..k)
    BY <2>1, MaxIs
  <2>3. Max(1..k) = k
    BY <2>2
  <2>4. (1..k) \ {k} = 1..(k - 1)
    OBVIOUS
  <2>5. g[1..k] = F[<<g[1..(k - 1)], q[k]>>]
    BY <2>1, <2>3, <2>4 DEF Folding
  <2>6. f[k] = g[1..k] /\ f[k - 1] = g[1..(k - 1)]
    OBVIOUS
  <2> QED
    BY <2>5, <2>6
<1> HIDE DEF f
<1> QED
  BY <1>2, <1>3, <1>4, <1>5 DEF Along

-----------------------------------------------------------------------------
(* The folds of the module. *)

\* Adding to the worklist.
LEMMA AddedIs ==
  ASSUME NEW X, NEW Y, NEW base \in X, NEW q \in Seq(Y),
         \A x \in X, y \in Y : add_to_uselist(x, y) \in X
  PROVE  FoldLeft(add_to_uselist, base, q) \in X
<1> DEFINE n == Len(q)
           F == [p \in X \X Y |-> add_to_uselist(p[1], p[2])]
           D == SUBSET DOMAIN q
           Steps(h) == [s \in D |-> IF s = {} THEN base ELSE add_to_uselist(h[s \ {Max(s)}], q[Max(s)])]
<1>1. n \in Nat /\ DOMAIN q = 1..n /\ \A i \in 1..n : q[i] \in Y
  OBVIOUS
<1>2. Foldable(X, Y, F, base, n, q)
  BY <1>1 DEF Foldable
<1>3. \A x \in X, y \in Y : F[<<x, y>>] = add_to_uselist(x, y)
  OBVIOUS
<1> HIDE DEF F, n
<1>4. PICK g : FoldedBy(X, F, base, n, q, g)
  BY <1>2, FoldExists
<1>5. \A s \in D : s # {} => s \ {Max(s)} \in D /\ Max(s) \in 1..n
  BY <1>1, Fewer
<1>a. g \in [SUBSET (1..n) -> X] /\ \A s \in SUBSET (1..n) : g[s] = Folding(F, base, q, g, s)
  BY <1>4 DEF FoldedBy
<1>6. \A s \in D : Folding(F, base, q, g, s)
                   = IF s = {} THEN base ELSE add_to_uselist(g[s \ {Max(s)}], q[Max(s)])
  BY <1>1, <1>3, <1>5, <1>a DEF Folding
<1>7. g = Steps(g)
  BY <1>1, <1>a, <1>6
<1> DEFINE h == CHOOSE h : h = Steps(h)
<1>8. h = Steps(h)
  BY <1>7
<1>9. FoldLeft(add_to_uselist, base, q) = h[DOMAIN q]
  BY Zenon DEF FoldLeft, MapThenFoldSet
<1> HIDE DEF h
<1>10. Follows(n, g, h)
  BY <1>1, <1>7, <1>8 DEF Follows
<1>11. h[1..n] = g[1..n]
  <2>1. \A s \in SUBSET (1..n) : h[s] = g[s]
    BY <1>1, <1>10, FoldUnique
  <2> QED
    BY <2>1
<1>12. g[1..n] \in X
  BY <1>a
<1> QED
  BY <1>1, <1>9, <1>11, <1>12

\* The concatenation of sequences.
LEMMA FlattenIs ==
  ASSUME NEW S, NEW q \in Seq(Seq(S))
  PROVE  FlattenSeq(q) \in Seq(S)
<1> DEFINE n == Len(q)
           X == Seq(S)
           F == [p \in X \X X |-> p[1] \o p[2]]
           Steps(h) == [i \in 1..n |-> IF i = 1 THEN q[i] ELSE h[i - 1] \o q[i]]
<1>1. n \in Nat /\ \A i \in 1..n : q[i] \in X
  OBVIOUS
<1>2. \A x, y \in X : x \o y \in X
  OBVIOUS
<1>3. Foldable(X, X, F, <<>>, n, q)
  <2>1. F \in [X \X X -> X]
    BY <1>2
  <2>2. <<>> \in X
    OBVIOUS
  <2> HIDE DEF F, X
  <2> QED
    BY <2>1, <2>2, <1>1 DEF Foldable
<1>4. \A x, y \in X : F[<<x, y>>] = x \o y
  OBVIOUS
<1>5. \A x \in X : <<>> \o x = x
  OBVIOUS
<1> HIDE DEF F, n, X
<1>6. PICK g : FoldedBy(X, F, <<>>, n, q, g)
  BY <1>3, FoldExists
<1>a. PICK f : Along(X, F, <<>>, n, q, f) /\ f[n] = g[1..n]
  BY <1>1, <1>6, FoldIs
<1>7. f \in [0..n -> X] /\ f[0] = <<>> /\ \A k \in 1..n : f[k] = F[<<f[k - 1], q[k]>>]
  BY <1>a DEF Along
<1> DEFINE e == [i \in 1..n |-> f[i]]
<1>8. e = Steps(e)
  <2>1. ASSUME NEW i \in 1..n PROVE f[i] = IF i = 1 THEN q[i] ELSE e[i - 1] \o q[i]
    <3>1. i \in 0..n /\ i - 1 \in 0..n /\ q[i] \in X
      BY <1>1
    <3>2. f[i] = f[i - 1] \o q[i]
      BY <3>1, <1>4, <1>7
    <3>3. CASE i = 1
      <4>1. i - 1 = 0 /\ f[i - 1] = <<>>
        BY <3>3, <1>7
      <4> QED
        BY <3>1, <3>2, <3>3, <4>1, <1>5
    <3>4. CASE i # 1
      <4>1. i - 1 \in 1..n
        BY <3>4, <1>1
      <4> QED
        BY <3>2, <3>4, <4>1
    <3> QED
      BY <3>3, <3>4
  <2> QED
    BY <2>1
<1> DEFINE h == CHOOSE h : h = Steps(h)
<1>9. h = Steps(h)
  <2> HIDE DEF e
  <2> QED
    BY <1>8
<1> HIDE DEF h
<1>10. \A i \in 1..n : h[i] \in X
  <2> DEFINE Bad == {i \in 1..n : h[i] \notin X}
  <2>1. SUFFICES ASSUME Bad # {} PROVE FALSE
    OBVIOUS
  <2>2. Bad \subseteq Nat
    BY <1>1
  <2>3. PICK i \in Bad : \A j \in Bad : i <= j
    <3> HIDE DEF Bad
    <3> QED
      BY <2>1, <2>2, LeastNat
  <2>4. i \in 1..n /\ i \in Nat /\ h[i] = IF i = 1 THEN q[i] ELSE h[i - 1] \o q[i]
    <3>1. i \in 1..n /\ i \in Nat
      BY <1>1
    <3>2. \A j \in 1..n : h[j] = IF j = 1 THEN q[j] ELSE h[j - 1] \o q[j]
      BY <1>9
    <3> QED
      BY <3>1, <3>2
  <2>5. i # 1 => i - 1 \in 1..n /\ i - 1 \notin Bad
    <3>1. i # 1 => i - 1 \in 1..n /\ ~(i <= i - 1)
      BY <2>4, <1>1
    <3> HIDE DEF Bad
    <3> QED
      BY <2>3, <3>1
  <2>6. h[i] \in X
    BY <1>1, <1>2, <2>4, <2>5
  <2> QED
    BY <2>6
<1>11. CASE n = 0
  BY <1>11 DEF FlattenSeq, n
<1>12. CASE n # 0
  <2>1. FlattenSeq(q) = h[n]
    BY <1>12, Zenon DEF FlattenSeq, n, h
  <2>2. n \in 1..n
    BY <1>1, <1>12
  <2> QED
    BY <1>10, <2>1, <2>2 DEF X
<1> QED
  BY <1>11, <1>12

-----------------------------------------------------------------------------
(* Walking the list. *)

\* A sequence over a set is one over a larger set.
LEMMA SeqWider ==
  ASSUME NEW A, NEW B, A \subseteq B, NEW q \in Seq(A)
  PROVE  q \in Seq(B)
<1>1. Len(q) \in Nat /\ \A i \in 1..Len(q) : q[i] \in B
  OBVIOUS
<1>2. q = [i \in 1..Len(q) |-> q[i]]
  OBVIOUS
<1> QED
  BY <1>1, <1>2

\* The first place beyond e, or 0.
LEMMA FirstIs ==
  ASSUME NEW e \in Nat, NEW L \in Nat, NEW S, S \subseteq (e + 1)..L, NEW z,
         z = IF S = {} THEN 0 ELSE Min(S)
  PROVE  z = 0 \/ (z \in S /\ z \in (e + 1)..L)
<1>1. S \subseteq Nat
  OBVIOUS
<1> QED
  BY <1>1, MinIs

\* The places from e up to z.
LEMMA PlacesUpto ==
  ASSUME NEW e \in Nat, NEW L \in Nat, e <= L, NEW z, z = 0 \/ z \in (e + 1)..L
  PROVE  [k \in 1 .. ((IF z = 0 THEN L ELSE z - 1) - e) |-> e + k] \in Seq((e + 1)..L)
<1> DEFINE m == (IF z = 0 THEN L ELSE z - 1) - e
<1>1. m \in Nat /\ e + m <= L
  OBVIOUS
<1>2. \A k \in 1..m : e + k \in (e + 1)..L
  BY <1>1
<1> HIDE DEF m
<1>3. [k \in 1..m |-> e + k] \in Seq((e + 1)..L)
  BY <1>1, <1>2
<1> QED
  BY <1>3 DEF m

\* get_element_of_exp gives nodes that lie further from the crash.
LEMMA ElementsAre ==
  ASSUME NEW l, Len(l) \in Nat, NEW e \in 1..Len(l)
  PROVE  get_element_of_exp(l, e) \in Seq((e + 1)..Len(l))
<1> DEFINE S == {j \in (e + 1)..Len(l) : l[j].role \notin {"Base", "Index"}}
           z == IF S = {} THEN 0 ELSE Min(S)
<1>1. e \in Nat /\ e <= Len(l)
  OBVIOUS
<1>2. z = 0 \/ z \in (e + 1)..Len(l)
  BY <1>1, FirstIs
<1>3. get_element_of_exp(l, e) = IF l[e].sort # "mem" THEN <<>>
          ELSE [k \in 1 .. ((IF z = 0 THEN Len(l) ELSE z - 1) - e) |-> e + k]
  BY DEF get_element_of_exp, Upto, Beyond
<1> HIDE DEF z
<1>4. [k \in 1 .. ((IF z = 0 THEN Len(l) ELSE z - 1) - e) |-> e + k] \in Seq((e + 1)..Len(l))
  BY <1>1, <1>2, PlacesUpto
<1>5. <<>> \in Seq((e + 1)..Len(l))
  OBVIOUS
<1> QED
  BY <1>3, <1>4, <1>5

\* get_src_of_def gives nodes that lie further from the crash.
LEMMA SourcesAre ==
  ASSUME NEW l, Len(l) \in Nat, NEW d \in 1..Len(l)
  PROVE  get_src_of_def(l, d) \in Seq((d + 1)..Len(l))
<1> DEFINE Y == (d + 1)..Len(l)
           X == Seq(Y)
           pick(p, j) == IF l[j].kind = "use" /\ l[j].role = "Opd" THEN Append(p, j) ELSE p
           S == {j \in (d + 1)..Len(l) : \/ l[j].kind = "inst"
                                         \/ l[j].kind = "def" /\ l[j].role # "writeback"}
           z == IF S = {} THEN 0 ELSE Min(S)
           q == [k \in 1 .. ((IF z = 0 THEN Len(l) ELSE z - 1) - d) |-> d + k]
           n == Len(q)
           F == [p \in X \X Y |-> pick(p[1], p[2])]
           D == SUBSET DOMAIN q
           Steps(h) == [s \in D |-> IF s = {} THEN <<>> ELSE pick(h[s \ {Max(s)}], q[Max(s)])]
<1>z. get_src_of_def(l, d) = FoldLeft(pick, <<>>, q)
  BY Zenon DEF get_src_of_def, Upto, Beyond
<1>q. q \in Seq(Y)
  <2>1. d \in Nat /\ d <= Len(l)
    OBVIOUS
  <2>2. z = 0 \/ z \in (d + 1)..Len(l)
    BY <2>1, FirstIs
  <2> HIDE DEF z
  <2> QED
    BY <2>1, <2>2, PlacesUpto
<1> DEFINE h == CHOOSE h : h = Steps(h)
<1> HIDE DEF q
<1>9. FoldLeft(pick, <<>>, q) = h[DOMAIN q]
  BY Zenon DEF FoldLeft, MapThenFoldSet
<1>b. \A x \in X, y \in Y : pick(x, y) \in X
  <2> HIDE DEF Y
  <2>1. \A x \in Seq(Y), y \in Y : Append(x, y) \in Seq(Y)
    OBVIOUS
  <2> QED
    BY <2>1
<1> HIDE DEF pick
<1>1. n \in Nat /\ DOMAIN q = 1..n /\ \A i \in 1..n : q[i] \in Y
  BY <1>q
<1>2. Foldable(X, Y, F, <<>>, n, q)
  <2>1. F \in [X \X Y -> X]
    BY <1>b
  <2>2. <<>> \in X
    OBVIOUS
  <2> HIDE DEF F, X, Y, n
  <2> QED
    BY <2>1, <2>2, <1>1 DEF Foldable
<1>3. \A x \in X, y \in Y : F[<<x, y>>] = pick(x, y)
  OBVIOUS
<1> HIDE DEF F, n, X, Y
<1>4. PICK g : FoldedBy(X, F, <<>>, n, q, g)
  BY <1>2, FoldExists
<1>5. \A s \in D : s # {} => s \ {Max(s)} \in D /\ Max(s) \in 1..n
  BY <1>1, Fewer
<1>a. g \in [SUBSET (1..n) -> X] /\ \A s \in SUBSET (1..n) : g[s] = Folding(F, <<>>, q, g, s)
  BY <1>4 DEF FoldedBy
<1>6. \A s \in D : Folding(F, <<>>, q, g, s) = IF s = {} THEN <<>> ELSE pick(g[s \ {Max(s)}], q[Max(s)])
  BY <1>1, <1>3, <1>5, <1>a DEF Folding
<1>7. g = Steps(g)
  BY <1>1, <1>a, <1>6
<1>8. h = Steps(h)
  BY <1>7
<1> HIDE DEF h
<1>10. Follows(n, g, h)
  BY <1>1, <1>7, <1>8 DEF Follows
<1>11. h[1..n] = g[1..n]
  <2>1. \A s \in SUBSET (1..n) : h[s] = g[s]
    BY <1>1, <1>10, FoldUnique
  <2> QED
    BY <2>1
<1>12. g[1..n] \in X
  BY <1>a
<1> QED
  BY <1>z, <1>1, <1>9, <1>11, <1>12 DEF X, Y

-----------------------------------------------------------------------------
(* What is followed. *)

\* All that a definition is followed to lies further from the crash than it.
LEMMA FollowedIs ==
  ASSUME NEW l, Len(l) \in Nat, NEW d \in 1..Len(l)
  PROVE  Followed(l, d) \in Seq((d + 1)..Len(l))
<1> DEFINE Y == (d + 1)..Len(l)
           src == get_src_of_def(l, d)
           parts == [k \in DOMAIN src |-> IF l[src[k]].sort = "imm" THEN <<>>
                                          ELSE <<src[k]>> \o get_element_of_exp(l, src[k])]
<1>1. src \in Seq(Y)
  BY SourcesAre
<1>2. get_element_of_exp(l, d) \in Seq(Y)
  BY ElementsAre
<1> HIDE DEF src
<1>3. ASSUME NEW k \in DOMAIN src
      PROVE  (IF l[src[k]].sort = "imm" THEN <<>> ELSE <<src[k]>> \o get_element_of_exp(l, src[k])) \in Seq(Y)
  <2>1. src[k] \in Y /\ src[k] \in 1..Len(l)
    BY <1>1
  <2>2. get_element_of_exp(l, src[k]) \in Seq((src[k] + 1)..Len(l))
    BY <2>1, ElementsAre
  <2>3. (src[k] + 1)..Len(l) \subseteq Y
    BY <2>1
  <2>4. get_element_of_exp(l, src[k]) \in Seq(Y)
    <3> DEFINE Z == (src[k] + 1)..Len(l)
               m == get_element_of_exp(l, src[k])
    <3>1. Z \subseteq Y /\ m \in Seq(Z)
      BY <2>2, <2>3
    <3> HIDE DEF Y, Z, m
    <3>2. m \in Seq(Y)
      BY <3>1, SeqWider
    <3> QED
      BY <3>2 DEF m
  <2>5. <<src[k]>> \in Seq(Y) /\ <<>> \in Seq(Y)
    BY <2>1
  <2> HIDE DEF Y
  <2>6. <<src[k]>> \o get_element_of_exp(l, src[k]) \in Seq(Y)
    BY <2>4, <2>5
  <2> QED
    BY <2>5, <2>6
<1>4. parts \in Seq(Seq(Y))
  <2>1. DOMAIN src = 1..Len(src) /\ Len(src) \in Nat
    BY <1>1
  <2> HIDE DEF Y
  <2> QED
    BY <2>1, <1>3
<1> HIDE DEF parts
<1>5. FlattenSeq(parts) \in Seq(Y)
  BY <1>4, FlattenIs
<1>6. Followed(l, d) = get_element_of_exp(l, d) \o FlattenSeq(parts)
  BY Zenon DEF Followed, parts, src
<1> HIDE DEF Y
<1>7. Followed(l, d) \in Seq(Y)
  BY <1>2, <1>5, <1>6
<1> QED
  BY <1>7 DEF Y

-----------------------------------------------------------------------------
(* The core list. *)

\* The nodes of the instructions I.
NodeOf(I) == [kind : {"inst", "def", "use"}, sort : {"none", "reg", "imm", "mem"},
              what : Register \cup Nat,
              role : {"none", "dst", "writeback", "Opd", "Base", "Index"}, inst : I]

\* A memory operand with its base and index.
LEMMA MemOfIs ==
  ASSUME NEW I, NEW i \in I, NEW s \in Instruction, NEW a \in Nat, NEW kind \in {"def", "use"}
  PROVE  MemOf(kind, a, s, i) \in Seq(NodeOf(I))
<1> DEFINE N == NodeOf(I)
           m == [k \in DOMAIN s.x |-> Entry("use", "reg", s.x[k], "Index", i)]
<1>1. s.b \in Register /\ s.x \in Seq(Register)
  BY DEF Instruction
<1>2. Entry(kind, "mem", a, "Opd", i) \in N /\ Entry("use", "reg", s.b, "Base", i) \in N
  BY <1>1 DEF Entry, NodeOf
<1>3. \A k \in DOMAIN s.x : Entry("use", "reg", s.x[k], "Index", i) \in N
  BY <1>1 DEF Entry, NodeOf
<1> HIDE DEF N
<1>4. m \in Seq(N)
  <2>1. DOMAIN s.x = 1..Len(s.x) /\ Len(s.x) \in Nat
    BY <1>1
  <2> QED
    BY <2>1, <1>3
<1> HIDE DEF m
<1>5. <<Entry(kind, "mem", a, "Opd", i), Entry("use", "reg", s.b, "Base", i)>> \in Seq(N)
  BY <1>2
<1>6. MemOf(kind, a, s, i) = <<Entry(kind, "mem", a, "Opd", i), Entry("use", "reg", s.b, "Base", i)>> \o m
  BY Zenon DEF MemOf, m
<1> QED
  BY <1>4, <1>5, <1>6 DEF N

\* The operands of an instruction.
LEMMA OperandsAre ==
  ASSUME NEW I, NEW i \in I, NEW s \in Instruction
  PROVE  Operands(s, i) \in Seq(NodeOf(I))
<1> DEFINE N == NodeOf(I)
           D == [k \in DOMAIN s.d |-> DefReg(s.d[k], i)]
           U == [k \in DOMAIN s.s |-> UseReg(s.s[k], i)]
           stm == [k \in DOMAIN s.s |-> StmPart(s, i, k)]
           ldm == [k \in DOMAIN s.d |-> LdmPart(s, i, k)]
<1>1. /\ s.b \in Register /\ s.a \in Nat
      /\ s.d \in Seq(Register) /\ DOMAIN s.d = 1..Len(s.d) /\ Len(s.d) \in Nat
      /\ s.s \in Seq(Register) /\ DOMAIN s.s = 1..Len(s.s) /\ Len(s.s) \in Nat
  BY DEF Instruction
<1>2. /\ \A r \in Register : DefReg(r, i) \in N /\ UseReg(r, i) \in N
      /\ UseImm(i) \in N /\ Entry("def", "reg", s.b, "writeback", i) \in N
  BY <1>1 DEF DefReg, UseReg, UseImm, Entry, NodeOf
<1>3. \A kind \in {"def", "use"}, a \in Nat : MemOf(kind, a, s, i) \in Seq(N)
  BY MemOfIs
<1>4. \A k \in Nat \ {0} : Word(s, k) \in Nat
  BY <1>1 DEF Word
<1> HIDE DEF N
<1>5. D \in Seq(N) /\ U \in Seq(N)
  <2>1. \A k \in 1..Len(s.d) : DefReg(s.d[k], i) \in N
    BY <1>1, <1>2
  <2>2. \A k \in 1..Len(s.s) : UseReg(s.s[k], i) \in N
    BY <1>1, <1>2
  <2> QED
    BY <2>1, <2>2, <1>1
<1>6. Writeback(s, i) \in Seq(N) /\ <<UseReg(s.b, i)>> \in Seq(N) /\ <<UseImm(i)>> \in Seq(N)
  BY <1>1, <1>2 DEF Writeback
<1>7. ASSUME NEW k \in 1..Len(s.s) PROVE StmPart(s, i, k) \in Seq(N)
  <2>1. <<UseReg(s.s[k], i)>> \in Seq(N)
    BY <1>1, <1>2
  <2>2. MemOf("def", Word(s, k), s, i) \in Seq(N)
    <3>1. k \in Nat \ {0}
      BY <1>1
    <3>2. Word(s, k) \in Nat
      BY <3>1, <1>4
    <3> QED
      BY <3>2, <1>3
  <2> QED
    BY <2>1, <2>2 DEF StmPart
<1>8. ASSUME NEW k \in 1..Len(s.d) PROVE LdmPart(s, i, k) \in Seq(N)
  <2>1. <<DefReg(s.d[k], i)>> \in Seq(N)
    BY <1>1, <1>2
  <2>2. MemOf("use", Word(s, k), s, i) \in Seq(N)
    <3>1. k \in Nat \ {0}
      BY <1>1
    <3>2. Word(s, k) \in Nat
      BY <3>1, <1>4
    <3> QED
      BY <3>2, <1>3
  <2> QED
    BY <2>1, <2>2 DEF LdmPart
<1>9. FlattenSeq(stm) \in Seq(N) /\ FlattenSeq(ldm) \in Seq(N)
  <2>1. stm \in Seq(Seq(N)) /\ ldm \in Seq(Seq(N))
    BY <1>1, <1>7, <1>8
  <2> HIDE DEF stm, ldm
  <2> QED
    BY <2>1, FlattenIs
<1>10. MemOf("use", s.a, s, i) \in Seq(N) /\ MemOf("def", s.a, s, i) \in Seq(N)
  BY <1>1, <1>3
<1> HIDE DEF D, U, stm, ldm
<1>11. \A p, q \in Seq(N) : p \o q \in Seq(N)
  OBVIOUS
<1>12. CASE s.op = "imm"
  <2>1. Operands(s, i) = D \o U \o <<UseImm(i)>>
    BY <1>12 DEF Operands, D, U
  <2> QED
    BY <2>1, <1>5, <1>6, <1>11 DEF N
<1>13. CASE s.op = "alu"
  <2>1. Operands(s, i) = D \o U
    BY <1>13 DEF Operands, D, U
  <2> QED
    BY <2>1, <1>5, <1>11 DEF N
<1>14. CASE s.op = "ldr"
  <2>1. Operands(s, i) = D \o Writeback(s, i) \o MemOf("use", s.a, s, i)
    BY <1>14 DEF Operands, D
  <2> QED
    BY <2>1, <1>5, <1>6, <1>10, <1>11 DEF N
<1>15. CASE s.op = "str"
  <2>1. Operands(s, i) = U \o Writeback(s, i) \o MemOf("def", s.a, s, i)
    BY <1>15 DEF Operands, U
  <2> QED
    BY <2>1, <1>5, <1>6, <1>10, <1>11 DEF N
<1>16. CASE s.op = "stm"
  <2>1. Operands(s, i) = Writeback(s, i) \o <<UseReg(s.b, i)>> \o FlattenSeq(stm)
    BY <1>16 DEF Operands, stm
  <2> QED
    BY <2>1, <1>6, <1>9, <1>11 DEF N
<1>17. CASE s.op = "ldm"
  <2>1. Operands(s, i) = Writeback(s, i) \o <<UseReg(s.b, i)>> \o FlattenSeq(ldm)
    BY <1>17 DEF Operands, ldm
  <2> QED
    BY <2>1, <1>6, <1>9, <1>11 DEF N
<1>18. CASE s.op = "bx"
  BY <1>5, <1>18 DEF Operands, U, N
<1>19. CASE s.op = "pop"
  BY <1>5, <1>19 DEF Operands, D, N
<1> QED
  BY <1>12, <1>13, <1>14, <1>15, <1>16, <1>17, <1>18, <1>19 DEF Instruction

\* The nodes of the list belong to instructions of the trace.
LEMMA CoreListIs ==
  ASSUME NEW t \in Seq(Instruction)
  PROVE  CoreList(t) \in Seq(NodeOf(Index(t)))
<1> DEFINE I == Index(t)
           N == NodeOf(I)
           part(k) == <<Entry("inst", "none", 0, "none", k - 1)>> \o Operands(t[k], k - 1)
           parts == [k \in 1..Len(t) |-> part(k)]
<1>1. Len(t) \in Nat /\ \A k \in 1..Len(t) : t[k] \in Instruction /\ k - 1 \in I
  BY DEF Index
<1>2. ASSUME NEW k \in 1..Len(t) PROVE part(k) \in Seq(N)
  <2>1. Operands(t[k], k - 1) \in Seq(N)
    BY <1>1, OperandsAre
  <2>2. Entry("inst", "none", 0, "none", k - 1) \in N
    BY <1>1 DEF Entry, NodeOf
  <2> HIDE DEF N
  <2> QED
    BY <2>1, <2>2
<1> HIDE DEF part, N
<1>3. parts \in Seq(Seq(N))
  BY <1>1, <1>2
<1> HIDE DEF parts
<1>4. FlattenSeq(parts) \in Seq(N)
  BY <1>3, FlattenIs
<1>5. CoreList(t) = FlattenSeq(parts)
  BY DEF CoreList, parts, part
<1> QED
  BY <1>4, <1>5 DEF N

\* The sinks are a sequence.
LEMMA SinksAre ==
  ASSUME NEW s \in Instruction, s.op \in Crash
  PROVE  \E S : set_taint_sink(s) \in Seq(S)
<1> DEFINE use(q) == [k \in DOMAIN q |-> UseReg(q[k], 0)]
<1>1. /\ s.b \in Register /\ s.d \in Seq(Register) /\ s.s \in Seq(Register) /\ s.x \in Seq(Register)
  BY DEF Instruction
<1>2. ASSUME NEW A, NEW q \in Seq(A) PROVE \E S : use(q) \in Seq(S)
  <2>1. DOMAIN q = 1..Len(q) /\ Len(q) \in Nat
    OBVIOUS
  <2>2. use(q) \in Seq({UseReg(r, 0) : r \in A})
    <3>1. \A k \in 1..Len(q) : UseReg(q[k], 0) \in {UseReg(r, 0) : r \in A}
      OBVIOUS
    <3> QED
      BY <2>1, <3>1
  <2> HIDE DEF use
  <2> QED
    BY <2>2
<1>3. <<s.b>> \o s.x \in Seq(Register) /\ <<s.b>> \in Seq(Register)
  BY <1>1
<1> DEFINE r == (s.d \o s.s)[2]
           e == Entry("use", "mem", s.a, "Opd", 0)
<1>4. <<r>> \in Seq({r}) /\ <<e>> \in Seq({e})
  <2> HIDE DEF r, e
  <2> QED
    OBVIOUS
<1> HIDE DEF r, e, use
<1>5. \/ set_taint_sink(s) \in {use(<<s.b>> \o s.x), use(<<r>>), use(<<s.b>>), use(s.s)}
      \/ set_taint_sink(s) = <<e>>
  <2>1. CASE s.op \in {"ldr", "str"}
    BY <2>1 DEF set_taint_sink, use, r
  <2>2. CASE s.op \in {"ldm", "stm"}
    BY <2>2 DEF set_taint_sink, use
  <2>3. CASE s.op = "bx"
    BY <2>3 DEF set_taint_sink, use
  <2>4. CASE s.op = "pop"
    BY <2>4 DEF set_taint_sink, e
  <2> QED
    BY <2>1, <2>2, <2>3, <2>4 DEF Crash
<1>6. /\ \E S : use(<<s.b>> \o s.x) \in Seq(S)
      /\ \E S : use(<<r>>) \in Seq(S)
      /\ \E S : use(<<s.b>>) \in Seq(S)
      /\ \E S : use(s.s) \in Seq(S)
  BY <1>1, <1>2, <1>3, <1>4
<1> QED
  BY <1>4, <1>5, <1>6

-----------------------------------------------------------------------------
(* The counts. *)

Count == [pc : Nat, count : Nat]

\* All but the last.
LEMMA FrontIs ==
  ASSUME NEW A, NEW c \in Seq(A), c # <<>>
  PROVE  Len(Front(c)) = Len(c) - 1 /\ \A j \in 1..(Len(c) - 1) : Front(c)[j] = c[j]
<1>1. Len(c) \in Nat /\ Len(c) # 0
  OBVIOUS
<1>2. Len(SubSeq(c, 1, Len(c) - 1)) = Len(c) - 1
  BY <1>1
<1>3. \A j \in 1..(Len(c) - 1) : SubSeq(c, 1, Len(c) - 1)[j] = c[j]
  BY <1>1
<1> QED
  BY <1>2, <1>3 DEF Front

\* The place of an address among the counts: the first, but not the last node.
LEMMA CountedIs ==
  ASSUME NEW c \in Seq(Count), NEW pc
  PROVE  \/ Counted(c, pc) = 0 /\ \A j \in 1..(Len(c) - 1) : c[j].pc # pc
         \/ /\ Counted(c, pc) \in 1..(Len(c) - 1) /\ c[Counted(c, pc)].pc = pc
            /\ \A j \in 1..(Counted(c, pc) - 1) : c[j].pc # pc
<1>1. CASE c = <<>>
  BY <1>1 DEF Counted
<1>2. CASE c # <<>>
  <2> DEFINE m == Len(c) - 1
             S == {j \in 1..m : c[j].pc = pc}
             z == IF S # {} THEN Min(S) ELSE 0
  <2>1. m \in Nat
    BY <1>2
  <2>2. Len(Front(c)) = m /\ \A j \in 1..m : Front(c)[j] = c[j]
    BY <1>2, FrontIs
  <2>3. Counted(c, pc) = z
    <3>1. {j \in 1..Len(Front(c)) : Front(c)[j].pc = pc} = S
      BY <2>2
    <3> QED
      BY <1>2, <3>1 DEF Counted, SelectInSeq
  <2>4. S \subseteq Nat
    BY <2>1
  <2>5. CASE S = {}
    BY <2>3, <2>5
  <2>6. CASE S # {}
    <3>1. Min(S) \in S /\ \A x \in S : Min(S) <= x
      BY <2>4, <2>6, MinIs
    <3>2. z = Min(S) /\ z \in 1..m /\ c[z].pc = pc
      BY <2>6, <3>1
    <3>3. ASSUME NEW j \in 1..(z - 1) PROVE c[j].pc # pc
      <4>1. j \in 1..m /\ ~(z <= j)
        BY <2>1, <3>2
      <4>2. j \notin S
        BY <3>1, <3>2, <4>1
      <4> QED
        BY <4>1, <4>2
    <3> HIDE DEF z
    <3> QED
      BY <2>3, <3>2, <3>3
  <2> QED
    BY <2>5, <2>6
<1> QED
  BY <1>1, <1>2

\* How often the instructions V are at an address.
At(t, V, pc) == {i \in V : Step(t, i).pc = pc}
Often(t, V, pc) == Cardinality(At(t, V, pc))

\* p is the first node of an address.
FirstNode(c, p, pc) == /\ p \in 1..Len(c) /\ c[p].pc = pc
                       /\ \A j \in 1..(p - 1) : c[j].pc # pc

\* The first node of an address has its count, or is one short: while it is the last node,
\* the next instruction at that address gets a node of its own.
Tally(t, V, c) ==
  /\ c \in Seq(Count)
  /\ \A pc \in Nat : (\A j \in 1..Len(c) : c[j].pc # pc) => Often(t, V, pc) = 0
  /\ \A pc \in Nat, p \in 1..Len(c) : FirstNode(c, p, pc) =>
        /\ c[p].count = Often(t, V, pc) \/ c[p].count = Often(t, V, pc) - 1
        /\ p = Len(c) => c[p].count = 1 /\ Often(t, V, pc) = 1

\* What adding to the counts does.
LEMMA AddIs ==
  ASSUME NEW c \in Seq(Count), NEW pc \in Nat
  PROVE  LET z == Counted(c, pc)
             d == add_address_counter(c, pc)
         IN /\ d \in Seq(Count)
            /\ z = 0 => /\ Len(d) = Len(c) + 1 /\ \A j \in 1..Len(c) : d[j] = c[j]
                        /\ d[Len(c) + 1] = [pc |-> pc, count |-> 1]
            /\ z # 0 => /\ Len(d) = Len(c) /\ \A j \in 1..Len(c) : j # z => d[j] = c[j]
                        /\ d[z] = [pc |-> pc, count |-> c[z].count + 1]
<1> DEFINE z == Counted(c, pc)
           d == add_address_counter(c, pc)
           e == [pc |-> pc, count |-> 1]
<1>1. Len(c) \in Nat /\ e \in Count
  BY DEF Count
<1>2. CASE z = 0
  <2>1. d = Append(c, e)
    BY <1>2 DEF add_address_counter
  <2> HIDE DEF d, e, z
  <2>2. d \in Seq(Count) /\ Len(d) = Len(c) + 1
    BY <2>1, <1>1
  <2>3. \A j \in 1..Len(c) : d[j] = c[j]
    BY <2>1, <1>1
  <2>4. d[Len(c) + 1] = e
    BY <2>1, <1>1
  <2> QED
    BY <1>2, <2>2, <2>3, <2>4 DEF d, e, z
<1>3. CASE z # 0
  <2>1. z \in 1..Len(c) /\ c[z].pc = pc
    <3>1. z \in 1..(Len(c) - 1) /\ c[z].pc = pc
      BY <1>3, CountedIs
    <3> QED
      BY <3>1, <1>1
  <2>2. d = [c EXCEPT ![z].count = @ + 1]
    BY <1>3 DEF add_address_counter
  <2> HIDE DEF d, z
  <2>3. c[z] \in Count
    BY <2>1
  <2> DEFINE m == [c[z] EXCEPT !.count = @ + 1]
  <2>4. m \in Count /\ m = [pc |-> pc, count |-> c[z].count + 1]
    BY <2>1, <2>3 DEF Count
  <2>5. d = [c EXCEPT ![z] = m]
    BY <2>2, <2>1
  <2> HIDE DEF m
  <2>6. d \in Seq(Count) /\ Len(d) = Len(c) /\ d[z] = m
    BY <2>1, <2>4, <2>5
  <2>7. \A j \in 1..Len(c) : j # z => d[j] = c[j]
    BY <2>5
  <2> QED
    BY <1>3, <2>4, <2>6, <2>7 DEF d, z
<1> QED
  BY <1>2, <1>3

\* Adding an instruction keeps the tally.
LEMMA TallyStep ==
  ASSUME NEW t, NEW V, IsFiniteSet(V), NEW i, i \notin V, NEW c, Tally(t, V, c), Step(t, i).pc \in Nat
  PROVE  Tally(t, V \cup {i}, add_address_counter(c, Step(t, i).pc))
<1> DEFINE a == Step(t, i).pc
           z == Counted(c, a)
           d == add_address_counter(c, a)
           W == V \cup {i}
<1>1. c \in Seq(Count) /\ Len(c) \in Nat /\ a \in Nat /\ \A j \in 1..Len(c) : c[j].count \in Nat /\ c[j].pc \in Nat
  <2>1. c \in Seq(Count)
    BY DEF Tally
  <2>2. Len(c) \in Nat /\ \A j \in 1..Len(c) : c[j] \in Count
    BY <2>1
  <2>3. \A j \in 1..Len(c) : c[j].count \in Nat /\ c[j].pc \in Nat
    BY <2>2 DEF Count
  <2> QED
    BY <2>1, <2>2, <2>3
<1>2. \A pc : Often(t, V, pc) \in Nat
  <2> TAKE pc
  <2>1. At(t, V, pc) \in SUBSET V
    BY DEF At
  <2>2. IsFiniteSet(At(t, V, pc))
    BY <2>1, FS_Subset
  <2> QED
    BY <2>2, FS_CardinalityType DEF Often
<1>3. Often(t, W, a) = Often(t, V, a) + 1
  <2>1. At(t, W, a) = At(t, V, a) \cup {i} /\ i \notin At(t, V, a) /\ At(t, V, a) \in SUBSET V
    BY DEF At
  <2>2. IsFiniteSet(At(t, V, a))
    BY <2>1, FS_Subset
  <2> QED
    BY <2>1, <2>2, FS_AddElement DEF Often
<1>4. \A pc : pc # a => Often(t, W, pc) = Often(t, V, pc)
  <2> SUFFICES ASSUME NEW pc, pc # a PROVE At(t, W, pc) = At(t, V, pc)
    BY DEF Often
  <2> QED
    BY DEF At
<1>5. /\ d \in Seq(Count)
      /\ z = 0 => /\ Len(d) = Len(c) + 1 /\ \A j \in 1..Len(c) : d[j] = c[j]
                  /\ d[Len(c) + 1] = [pc |-> a, count |-> 1]
      /\ z # 0 => /\ Len(d) = Len(c) /\ \A j \in 1..Len(c) : j # z => d[j] = c[j]
                  /\ d[z] = [pc |-> a, count |-> c[z].count + 1]
  BY <1>1, AddIs
<1>6. \/ z = 0 /\ \A j \in 1..(Len(c) - 1) : c[j].pc # a
      \/ z \in 1..(Len(c) - 1) /\ c[z].pc = a /\ \A j \in 1..(z - 1) : c[j].pc # a
  BY <1>1, CountedIs
<1>7. /\ \A pc \in Nat : (\A j \in 1..Len(c) : c[j].pc # pc) => Often(t, V, pc) = 0
      /\ \A pc \in Nat, p \in 1..Len(c) : FirstNode(c, p, pc) =>
            /\ c[p].count = Often(t, V, pc) \/ c[p].count = Often(t, V, pc) - 1
            /\ p = Len(c) => c[p].count = 1 /\ Often(t, V, pc) = 1
  BY DEF Tally
<1> HIDE DEF a, z, d, W
<1>8. \A j \in 1..Len(c) : d[j].pc = c[j].pc
  BY <1>1, <1>5, <1>6
<1>9. Len(d) \in Nat /\ Len(c) <= Len(d) /\ \A j \in 1..Len(d) : j \in 1..Len(c) \/ (z = 0 /\ j = Len(c) + 1)
  BY <1>1, <1>5
<1>10. ASSUME NEW pc \in Nat, \A j \in 1..Len(d) : d[j].pc # pc PROVE Often(t, W, pc) = 0
  <2>1. \A j \in 1..Len(c) : c[j].pc # pc
    BY <1>8, <1>9, <1>10, <1>1
  <2>2. pc # a
    <3>1. CASE z = 0
      <4>1. Len(d) \in 1..Len(d) /\ d[Len(d)].pc = a
        BY <3>1, <1>1, <1>5
      <4> QED
        BY <4>1, <1>10
    <3>2. CASE z # 0
      BY <3>2, <2>1, <1>1, <1>6
    <3> QED
      BY <3>1, <3>2
  <2> QED
    BY <2>1, <2>2, <1>4, <1>7
<1>11. ASSUME NEW pc \in Nat, NEW p \in 1..Len(d), FirstNode(d, p, pc)
       PROVE  /\ d[p].count = Often(t, W, pc) \/ d[p].count = Often(t, W, pc) - 1
              /\ p = Len(d) => d[p].count = 1 /\ Often(t, W, pc) = 1
  <2>1. d[p].pc = pc /\ \A j \in 1..(p - 1) : d[j].pc # pc
    BY <1>11 DEF FirstNode
  <2>2. ASSUME p \in 1..Len(c) PROVE FirstNode(c, p, pc)
    <3>1. \A j \in 1..(p - 1) : j \in 1..Len(c)
      BY <2>2, <1>1
    <3> QED
      BY <2>1, <2>2, <3>1, <1>8 DEF FirstNode
  <2>3. CASE pc # a
    <3>1. p \in 1..Len(c) /\ d[p] = c[p]
      <4>1. p \in 1..Len(c)
        BY <2>1, <2>3, <1>5, <1>9
      <4>2. z # 0 => p # z
        BY <2>1, <2>3, <4>1, <1>8, <1>6
      <4> QED
        BY <4>1, <4>2, <1>5
    <3>2. p = Len(d) => p = Len(c)
      BY <3>1, <1>9
    <3> QED
      BY <3>1, <3>2, <2>2, <2>3, <1>4, <1>7
  <2>4. CASE pc = a /\ z = 0 /\ p = Len(c) + 1
    <3>1. \A j \in 1..Len(c) : c[j].pc # pc
      BY <2>1, <2>4, <1>8, <1>1
    <3>2. Often(t, V, a) = 0 /\ d[p].count = 1
      BY <3>1, <2>4, <1>5, <1>7
    <3> QED
      BY <3>2, <2>4, <1>3
  <2>5. CASE pc = a /\ z = 0 /\ p \in 1..Len(c)
    <3>1. FirstNode(c, p, pc) /\ d[p] = c[p]
      BY <2>2, <2>5, <1>5
    <3>2. p = Len(c)
      BY <2>5, <3>1, <1>6, <1>1 DEF FirstNode
    <3>3. c[p].count = 1 /\ Often(t, V, a) = 1 /\ p # Len(d)
      BY <3>1, <3>2, <2>5, <1>5, <1>7, <1>1
    <3> QED
      BY <3>1, <3>3, <2>5, <1>3
  <2>6. CASE pc = a /\ z # 0
    <3>1. z \in 1..(Len(c) - 1) /\ c[z].pc = a /\ (\A j \in 1..(z - 1) : c[j].pc # a) /\ p \in 1..Len(c)
      BY <2>6, <1>5, <1>6
    <3>2. FirstNode(c, p, pc)
      BY <2>2, <3>1
    <3>3. p = z
      <4>1. ~(p < z) /\ ~(z < p)
        BY <3>1, <3>2, <2>6, <1>1 DEF FirstNode
      <4> QED
        BY <4>1, <3>1, <1>1
    <3>4. c[p].count = Often(t, V, a) \/ c[p].count = Often(t, V, a) - 1
      BY <3>1, <3>2, <2>6, <1>7
    <3>5. d[p].count = c[p].count + 1 /\ p # Len(d) /\ c[p].count \in Nat
      BY <3>1, <3>3, <2>6, <1>1, <1>5
    <3> QED
      BY <3>4, <3>5, <2>6, <1>2, <1>3
  <2> QED
    BY <2>3, <2>4, <2>5, <2>6, <1>9
<1>12. Tally(t, W, d)
  BY <1>5, <1>10, <1>11 DEF Tally
<1> QED
  BY <1>12 DEF W, d, a

\* Instructions before k.
Below(T, k) == {i \in T : i < k}

Grows(T, n) == /\ Below(T, 0) = {} /\ Below(T, n) = T
               /\ \A k \in 1..n : /\ k - 1 \notin Below(T, k - 1)
                                  /\ k - 1 \in T => Below(T, k) = Below(T, k - 1) \cup {k - 1}
                                  /\ k - 1 \notin T => Below(T, k) = Below(T, k - 1)

\* They grow one by one.
LEMMA BelowIs ==
  ASSUME NEW n \in Nat, NEW T, T \subseteq 0..(n - 1)
  PROVE  Grows(T, n)
<1>1. \A i \in T : i \in Int /\ 0 <= i /\ i < n
  OBVIOUS
<1>2. Below(T, 0) = {} /\ Below(T, n) = T
  <2>1. \A i : i \in Below(T, 0) <=> i \in T /\ i < 0
    BY DEF Below
  <2>2. \A i : i \in Below(T, n) <=> i \in T /\ i < n
    BY DEF Below
  <2>3. \A i \in T : ~(i < 0)
    BY <1>1
  <2> QED
    BY <1>1, <2>1, <2>2, <2>3, Zenon
<1>3. ASSUME NEW k \in 1..n
      PROVE  /\ k - 1 \notin Below(T, k - 1)
             /\ k - 1 \in T => Below(T, k) = Below(T, k - 1) \cup {k - 1}
             /\ k - 1 \notin T => Below(T, k) = Below(T, k - 1)
  <2>1. \A i \in T : i < k <=> i < k - 1 \/ i = k - 1
    BY <1>1
  <2>2. ~(k - 1 < k - 1)
    OBVIOUS
  <2>3. \A i : i \in Below(T, k) <=> i \in T /\ i < k
    BY DEF Below
  <2>4. \A i : i \in Below(T, k - 1) <=> i \in T /\ i < k - 1
    BY DEF Below
  <2>5. \A i : i \in Below(T, k) <=> i \in Below(T, k - 1) \/ (i \in T /\ i = k - 1)
    BY <2>1, <2>3, <2>4, Zenon
  <2> DEFINE j == k - 1
  <2>6. ~(j < j) /\ (\A i : i \in Below(T, j) <=> i \in T /\ i < j)
        /\ \A i : i \in Below(T, k) <=> i \in Below(T, j) \/ (i \in T /\ i = j)
    BY <2>2, <2>4, <2>5
  <2> HIDE DEF j
  <2>7. j \notin Below(T, j)
    BY <2>6, Zenon
  <2>8. ASSUME j \in T PROVE Below(T, k) = Below(T, j) \cup {j}
    <3>1. \A i : i \in Below(T, k) <=> i \in Below(T, j) \cup {j}
      <4>1. \A i : i \in T /\ i = j <=> i = j
        BY <2>8
      <4> QED
        BY <4>1, <2>6
    <3> QED
      BY <3>1, Zenon
  <2>9. j \notin T => Below(T, k) = Below(T, j)
    BY <2>6, Zenon
  <2> QED
    BY <2>7, <2>8, <2>9, Zenon DEF j
<1> QED
  BY <1>2, <1>3 DEF Grows

\* Counters keeps a tally of the instructions T.
LEMMA CountersAre ==
  ASSUME NEW t \in Seq(Instruction), NEW T, T \subseteq Index(t)
  PROVE  Tally(t, T, Counters(t, T))
<1> DEFINE Y == Index(t)
           X == Seq(Count)
           visit(c, i) == IF i \in T THEN add_address_counter(c, Step(t, i).pc) ELSE c
           q == Backwards(t)
           n == Len(t)
           F == [p \in X \X Y |-> visit(p[1], p[2])]
           D == SUBSET DOMAIN q
           Steps(h) == [s \in D |-> IF s = {} THEN <<>> ELSE visit(h[s \ {Max(s)}], q[Max(s)])]
<1>z. Counters(t, T) = FoldLeft(visit, <<>>, q)
  BY Zenon DEF Counters
<1>1. n \in Nat /\ DOMAIN q = 1..n /\ \A i \in 1..n : q[i] = i - 1 /\ q[i] \in Y
  BY DEF Backwards, Index
<1>pc. \A i \in Y : Step(t, i).pc \in Nat
  <2>1. \A i \in Y : Step(t, i) \in Instruction
    BY DEF Index, Step
  <2> QED
    BY <2>1 DEF Instruction
<1> DEFINE h == CHOOSE h : h = Steps(h)
<1> HIDE DEF q
<1>9. FoldLeft(visit, <<>>, q) = h[DOMAIN q]
  BY Zenon DEF FoldLeft, MapThenFoldSet
<1>b. \A x \in X, y \in Y : visit(x, y) \in X
  BY <1>pc, AddIs
<1>v. \A x, y : visit(x, y) = IF y \in T THEN add_address_counter(x, Step(t, y).pc) ELSE x
  OBVIOUS
<1> HIDE DEF visit
<1>2. Foldable(X, Y, F, <<>>, n, q)
  <2>1. F \in [X \X Y -> X]
    BY <1>b
  <2>2. <<>> \in X
    OBVIOUS
  <2> HIDE DEF F, X, Y, n
  <2> QED
    BY <2>1, <2>2, <1>1 DEF Foldable
<1>3. \A x \in X, y \in Y : F[<<x, y>>] = visit(x, y)
  OBVIOUS
<1> HIDE DEF F, n, X, Y
<1>4. PICK g : FoldedBy(X, F, <<>>, n, q, g)
  BY <1>2, FoldExists
<1>5. \A s \in D : s # {} => s \ {Max(s)} \in D /\ Max(s) \in 1..n
  BY <1>1, Fewer
<1>a. g \in [SUBSET (1..n) -> X] /\ \A s \in SUBSET (1..n) : g[s] = Folding(F, <<>>, q, g, s)
  BY <1>4 DEF FoldedBy
<1>6. \A s \in D : Folding(F, <<>>, q, g, s) = IF s = {} THEN <<>> ELSE visit(g[s \ {Max(s)}], q[Max(s)])
  BY <1>1, <1>3, <1>5, <1>a DEF Folding
<1>7. g = Steps(g)
  BY <1>1, <1>a, <1>6
<1>8. h = Steps(h)
  BY <1>7
<1> HIDE DEF h
<1>10. Follows(n, g, h)
  BY <1>1, <1>7, <1>8 DEF Follows
<1>11. h[1..n] = g[1..n]
  <2>1. \A s \in SUBSET (1..n) : h[s] = g[s]
    BY <1>1, <1>10, FoldUnique
  <2> QED
    BY <2>1
<1>12. PICK f : Along(X, F, <<>>, n, q, f) /\ f[n] = g[1..n]
  BY <1>1, <1>4, FoldIs
<1>13. f \in [0..n -> X] /\ f[0] = <<>> /\ \A k \in 1..n : f[k] = visit(f[k - 1], k - 1)
  <2>1. f \in [0..n -> X] /\ f[0] = <<>> /\ \A k \in 1..n : f[k] = F[<<f[k - 1], q[k]>>]
    BY <1>12 DEF Along
  <2>2. \A k \in 1..n : k - 1 \in 0..n /\ f[k - 1] \in X
    BY <2>1, <1>1
  <2> QED
    BY <2>1, <2>2, <1>1, <1>3
<1>14. IsFiniteSet(T)
  <2>1. IsFiniteSet(0..(n - 1))
    BY <1>1, FS_Interval
  <2> QED
    BY <2>1, FS_Subset DEF Index, n
<1>16. Grows(T, n)
  <2>1. T \subseteq 0..(n - 1)
    BY DEF Index, n
  <2> HIDE DEF D, Steps
  <2> QED
    BY <2>1, <1>1, BelowIs
<1> DEFINE Bad == {k \in 0..n : ~Tally(t, Below(T, k), f[k])}
<1>15. Bad = {}
  <2> SUFFICES ASSUME Bad # {} PROVE FALSE
    OBVIOUS
  <2>1. Bad \subseteq Nat
    BY <1>1
  <2>2. PICK k \in Bad : \A j \in Bad : k <= j
    <3> HIDE DEF Bad
    <3> QED
      BY <2>1, LeastNat
  <2>3. k \in 0..n /\ k \in Nat /\ ~Tally(t, Below(T, k), f[k])
    BY <1>1
  <2>4. CASE k = 0
    <3>1. Below(T, k) = {}
      BY <2>4, <1>16 DEF Grows
    <3>2. \A pc \in Nat : Often(t, {}, pc) = 0
      <4>1. \A pc \in Nat : At(t, {}, pc) = {}
        BY DEF At
      <4> QED
        BY <4>1, FS_EmptySet DEF Often
    <3>3. <<>> \in Seq(Count) /\ Len(<<>>) = 0
      OBVIOUS
    <3>4. Tally(t, {}, <<>>)
      BY <3>2, <3>3 DEF Tally
    <3> QED
      BY <2>3, <2>4, <3>1, <3>4, <1>13
  <2>5. CASE k # 0
    <3>1. k - 1 \in 0..n /\ k - 1 \notin Bad /\ k \in 1..n
      <4>1. k - 1 \in 0..n /\ ~(k <= k - 1) /\ k \in 1..n
        BY <2>3, <2>5, <1>1
      <4> HIDE DEF Bad
      <4> QED
        BY <4>1, <2>2
    <3>2. Tally(t, Below(T, k - 1), f[k - 1])
      BY <3>1
    <3>3. f[k] = IF k - 1 \in T THEN add_address_counter(f[k - 1], Step(t, k - 1).pc) ELSE f[k - 1]
      BY <3>1, <1>13, <1>v
    <3>5. CASE k - 1 \in T
      <4>1. Below(T, k) = Below(T, k - 1) \cup {k - 1} /\ k - 1 \notin Below(T, k - 1)
        BY <3>1, <3>5, <1>16 DEF Grows
      <4>2. IsFiniteSet(Below(T, k - 1))
        BY <1>14, FS_Subset DEF Below
      <4>3. Step(t, k - 1).pc \in Nat
        BY <3>5, <1>pc DEF Y
      <4> DEFINE i == k - 1
                 V == Below(T, k - 1)
                 c == f[k - 1]
      <4>4. IsFiniteSet(V) /\ i \notin V /\ Tally(t, V, c) /\ Step(t, i).pc \in Nat
        BY <3>2, <4>1, <4>2, <4>3
      <4>5. Below(T, k) = V \cup {i} /\ f[k] = add_address_counter(c, Step(t, i).pc)
        BY <3>3, <3>5, <4>1
      <4> HIDE DEF i, V, c, Bad
      <4>6. Tally(t, V \cup {i}, add_address_counter(c, Step(t, i).pc))
        BY <4>4, TallyStep
      <4> QED
        BY <4>5, <4>6, <2>3
    <3>6. CASE k - 1 \notin T
      <4>1. Below(T, k) = Below(T, k - 1)
        BY <3>1, <3>6, <1>16 DEF Grows
      <4> QED
        BY <2>3, <3>2, <3>3, <3>6, <4>1
    <3> QED
      BY <3>5, <3>6
  <2> QED
    BY <2>4, <2>5
<1>17. n \in 0..n /\ Tally(t, Below(T, n), f[n])
  <2>1. n \in 0..n /\ n \notin Bad
    BY <1>1, <1>15
  <2> QED
    BY <2>1
<1> QED
  BY <1>z, <1>1, <1>9, <1>11, <1>12, <1>16, <1>17 DEF Grows

\* The count found for an address is right, or one short.
LEMMA GetIs ==
  ASSUME NEW t, NEW V, IsFiniteSet(V), NEW c, Tally(t, V, c), NEW pc \in Nat
  PROVE  /\ Often(t, V, pc) \in Nat
         /\ get_address_counter(c, pc) \in {Often(t, V, pc), Often(t, V, pc) - 1}
<1>1. Often(t, V, pc) \in Nat
  <2>1. At(t, V, pc) \in SUBSET V
    BY DEF At
  <2>2. IsFiniteSet(At(t, V, pc))
    BY <2>1, FS_Subset
  <2> QED
    BY <2>2, FS_CardinalityType DEF Often
<1>2. /\ c \in Seq(Count) /\ Len(c) \in Nat
      /\ (\A j \in 1..Len(c) : c[j].pc # pc) => Often(t, V, pc) = 0
      /\ \A p \in 1..Len(c) : FirstNode(c, p, pc) =>
            /\ c[p].count = Often(t, V, pc) \/ c[p].count = Often(t, V, pc) - 1
            /\ p = Len(c) => c[p].count = 1 /\ Often(t, V, pc) = 1
  BY DEF Tally
<1>3. CASE Counted(c, pc) = 0
  <2>1. get_address_counter(c, pc) = 0
    BY <1>3 DEF get_address_counter
  <2>2. \A j \in 1..(Len(c) - 1) : c[j].pc # pc
    BY <1>2, <1>3, CountedIs
  <2>3. CASE \A j \in 1..Len(c) : c[j].pc # pc
    BY <2>1, <2>3, <1>2
  <2>4. CASE ~ \A j \in 1..Len(c) : c[j].pc # pc
    <3>1. Len(c) \in 1..Len(c) /\ c[Len(c)].pc = pc
      BY <2>2, <2>4, <1>2
    <3>2. FirstNode(c, Len(c), pc)
      BY <2>2, <3>1 DEF FirstNode
    <3>3. Often(t, V, pc) = 1
      BY <3>1, <3>2, <1>2
    <3> QED
      BY <2>1, <3>3
  <2> QED
    BY <2>3, <2>4
<1>4. CASE Counted(c, pc) # 0
  <2> DEFINE z == Counted(c, pc)
  <2>1. z \in 1..(Len(c) - 1) /\ c[z].pc = pc /\ \A j \in 1..(z - 1) : c[j].pc # pc
    BY <1>2, <1>4, CountedIs
  <2>2. get_address_counter(c, pc) = c[z].count
    BY <1>4 DEF get_address_counter
  <2> HIDE DEF z
  <2>3. z \in 1..Len(c)
    BY <2>1, <1>2
  <2>4. FirstNode(c, z, pc)
    BY <2>1, <2>3 DEF FirstNode
  <2> QED
    BY <2>2, <2>3, <2>4, <1>1, <1>2
<1> QED
  BY <1>1, <1>3, <1>4

-----------------------------------------------------------------------------
(* The ranking. *)

\* A score is an integer, and keeps the order of those it is made of.
LEMMA NotZeroIs ==
  ASSUME NEW a \in Int, NEW b \in Int
  PROVE  /\ NotZero(a) \in Int /\ NotZero(a) # 0
         /\ a <= b => NotZero(a) <= NotZero(b)
BY DEF NotZero

\* What the ranking does with the instructions T.
LEMMA RankingIs ==
  ASSUME NEW t \in Traces, NEW T, T \subseteq Index(t)
  PROVE  /\ taint_ranking(t, T) \in [Index(t) -> Int]
         /\ \A i \in Index(t) : taint_ranking(t, T)[i] # 0 <=> i \in T
         /\ \A i, j \in T :
               /\ i \in {p[1] : p \in Bonus(t, T)} <=> j \in {p[1] : p \in Bonus(t, T)}
               /\ Often(t, T, Step(t, i).pc) > Often(t, T, Step(t, j).pc)
               => taint_ranking(t, T)[i] <= taint_ranking(t, T)[j]
<1> DEFINE won == {p[1] : p \in Bonus(t, T)}
           c == Counters(t, T)
           base(i) == IF i \in won THEN 2 * FULL ELSE FULL
           get(i) == get_address_counter(c, Step(t, i).pc)
           often(i) == Often(t, T, Step(t, i).pc)
           r == taint_ranking(t, T)
<1>1. t \in Seq(Instruction) /\ Len(t) \in Nat
  BY TaintRankAssumption
<1>2. IsFiniteSet(T)
  <2>1. IsFiniteSet(0..(Len(t) - 1))
    BY <1>1, FS_Interval
  <2> QED
    BY <2>1, FS_Subset DEF Index
<1>3. \A i \in Index(t) : Step(t, i).pc \in Nat
  <2>1. \A i \in Index(t) : Step(t, i) \in Instruction
    BY <1>1 DEF Index, Step
  <2> QED
    BY <2>1 DEF Instruction
<1>4. r = [i \in Index(t) |-> IF i \notin T THEN 0 ELSE NotZero(base(i) - get(i))]
  BY DEF taint_ranking
<1>5. Tally(t, T, c)
  BY <1>1, CountersAre
<1>6. FULL \in Nat
  BY TaintRankAssumption
<1> HIDE DEF won, c, r
<1>7. \A i \in T : often(i) \in Nat /\ get(i) \in {often(i), often(i) - 1}
  BY <1>2, <1>3, <1>5, GetIs
<1>8. \A i \in T : base(i) \in Int /\ get(i) \in Int /\ base(i) - get(i) \in Int
  <2> SUFFICES ASSUME NEW i \in T PROVE base(i) \in Int /\ get(i) \in Int
    OBVIOUS
  <2>1. often(i) \in Nat /\ get(i) \in {often(i), often(i) - 1}
    BY <1>7
  <2> HIDE DEF often, get
  <2> QED
    BY <2>1, <1>6
<1>9. \A i \in T : i \in Index(t) /\ r[i] = NotZero(base(i) - get(i))
  BY <1>4
<1>10. ASSUME NEW i \in Index(t) PROVE r[i] \in Int /\ (r[i] # 0 <=> i \in T)
  <2>1. CASE i \in T
    <3>1. base(i) - get(i) \in Int
      BY <1>8, <2>1
    <3>2. r[i] = NotZero(base(i) - get(i))
      BY <1>9, <2>1
    <3> HIDE DEF base, get
    <3> QED
      BY <2>1, <3>1, <3>2, NotZeroIs
  <2>2. CASE i \notin T
    BY <1>4, <2>2
  <2> QED
    BY <2>1, <2>2
<1>11. ASSUME NEW i \in T, NEW j \in T, i \in won <=> j \in won, often(i) > often(j)
       PROVE  r[i] <= r[j]
  <2>1. /\ base(i) = base(j) /\ base(i) \in Int
        /\ get(i) \in {often(i), often(i) - 1} /\ get(j) \in {often(j), often(j) - 1}
        /\ often(i) \in Nat /\ often(j) \in Nat /\ often(i) > often(j)
    BY <1>7, <1>8, <1>11
  <2>2. r[i] = NotZero(base(i) - get(i)) /\ r[j] = NotZero(base(j) - get(j))
    BY <1>9
  <2> HIDE DEF base, get, often
  <2>3. get(j) <= get(i) /\ get(i) \in Int /\ get(j) \in Int
    BY <2>1
  <2> DEFINE x == base(i) - get(i)
             y == base(j) - get(j)
  <2>4. x \in Int /\ y \in Int /\ x <= y
    BY <2>1, <2>3
  <2>5. r[i] = NotZero(x) /\ r[j] = NotZero(y)
    BY <2>2
  <2> HIDE DEF x, y
  <2> QED
    BY <2>4, <2>5, NotZeroIs
<1>12. r \in [Index(t) -> Int]
  <2>1. \E f : r = [i \in Index(t) |-> f[i]]
    <3> DEFINE f == [i \in Index(t) |-> IF i \notin T THEN 0 ELSE NotZero(base(i) - get(i))]
    <3>1. f = [i \in Index(t) |-> f[i]]
      OBVIOUS
    <3>2. r = f
      BY <1>4
    <3> HIDE DEF f
    <3> QED
      BY <3>1, <3>2
  <2> QED
    BY <2>1, <1>10
<1> QED
  BY <1>10, <1>11, <1>12 DEF r, won

-----------------------------------------------------------------------------
(* The invariant. *)

\* Everything in the worklist is a node of the list, each once; once the instructions are
\* ranked nothing is left to trace, so that the scores are those of the final marks.
Sound ==
  /\ trace \in Traces
  /\ list \in Seq(NodeOf(Index(trace)))
  /\ \E S : sinks \in Seq(S)
  /\ srclist \in Seq(0..Len(list)) /\ IsInjective(srclist)
  /\ tainted \subseteq Index(trace)
  /\ \/ score = <<>>
     \/ srclist = <<>> /\ Len(sinks) = 1 /\ score = taint_ranking(trace, tainted)

\* It holds at the start.
LEMMA SoundAtFirst == Init => Sound
<1> SUFFICES ASSUME Init PROVE Sound
  OBVIOUS
<1>1. trace \in Traces /\ trace \in Seq(Instruction) /\ trace # <<>> /\ trace[1].op \in Crash
  BY TaintRankAssumption DEF Init
<1>2. list \in Seq(NodeOf(Index(trace)))
  BY <1>1, CoreListIs DEF Init
<1>3. \E S : sinks \in Seq(S)
  <2>1. Step(trace, 0) = trace[1] /\ trace[1] \in Instruction
    BY <1>1 DEF Step
  <2> QED
    BY <1>1, <2>1, SinksAre DEF Init
<1>4. srclist = <<0>> /\ tainted = {} /\ score = <<>>
  BY DEF Init
<1>5. Len(list) \in Nat
  BY <1>2
<1>6. srclist \in Seq(0..Len(list)) /\ IsInjective(srclist)
  BY <1>4, <1>5 DEF IsInjective
<1> QED
  BY <1>1, <1>2, <1>3, <1>4, <1>6 DEF Sound

\* What a place found beyond another is.
LEMMA FoundIs ==
  ASSUME NEW l, Len(l) \in Nat, NEW e \in 0..Len(l), NEW n
  PROVE  /\ find_prev_def_of_use(l, e, n) \in {0} \cup (e + 1)..Len(l)
         /\ find_prev_write_of_address(l, e, n) \in {0} \cup (e + 1)..Len(l)
<1> DEFINE S == {j \in (e + 1)..Len(l) : l[j].kind = "def" /\ SameTarget(l[j], n)}
           W == {j \in (e + 1)..Len(l) : /\ l[j].kind = "def" /\ SameTarget(l[j], n)
                                        /\ Accessed(l, e, l[j])}
           z == IF S = {} THEN 0 ELSE Min(S)
           w == IF W = {} THEN 0 ELSE Min(W)
<1>1. z \in {0} \cup (e + 1)..Len(l)
  <2>1. e \in Nat /\ S \subseteq (e + 1)..Len(l)
    OBVIOUS
  <2> HIDE DEF S
  <2> QED
    BY <2>1, FirstIs
<1>2. w \in {0} \cup (e + 1)..Len(l)
  <2>1. e \in Nat /\ W \subseteq (e + 1)..Len(l)
    OBVIOUS
  <2> HIDE DEF W
  <2> QED
    BY <2>1, FirstIs
<1>3. find_prev_def_of_use(l, e, n) = z
  BY DEF find_prev_def_of_use, Beyond
<1>4. find_prev_write_of_address(l, e, n) = IF n.sort # "mem" THEN 0 ELSE w
  BY DEF find_prev_write_of_address, Beyond
<1> HIDE DEF z, w
<1> QED
  BY <1>1, <1>2, <1>3, <1>4

\* Worklists that start with e, hold each operand once, and of operands not in W only some
\* that lie further from the crash.
Ahead(W, e, L) == {s \in Seq(0..L) : /\ IsInjective(s) /\ s # <<>> /\ s[1] = e
                                     /\ \A k \in 1..Len(s) : s[k] \in W \/ s[k] > e}

\* Adding an operand keeps a worklist one of these.
LEMMA AddKeeps ==
  ASSUME NEW L \in Nat, NEW e \in 0..L, NEW W, NEW s \in Ahead(W, e, L), NEW y \in (e + 1)..L
  PROVE  add_to_uselist(s, y) \in Ahead(W, e, L)
<1>1. /\ s \in Seq(0..L) /\ IsInjective(s) /\ s # <<>> /\ s[1] = e
      /\ \A k \in 1..Len(s) : s[k] \in W \/ s[k] > e
  BY DEF Ahead
<1>2. Len(s) \in Nat \ {0} /\ DOMAIN s = 1..Len(s)
  BY <1>1
<1>3. CASE y \in ToSet(s)
  BY <1>3 DEF add_to_uselist
<1>4. CASE y \notin ToSet(s)
  <2> DEFINE u == Append(s, y)
  <2>1. add_to_uselist(s, y) = u
    BY <1>4 DEF add_to_uselist
  <2>2. \A k \in 1..Len(s) : s[k] # y
    BY <1>2, <1>4 DEF ToSet
  <2>3. u \in Seq(0..L) /\ Len(u) = Len(s) + 1 /\ u[Len(s) + 1] = y /\ y \in Int /\ y > e
    BY <1>1, <1>2
  <2>4. \A k \in 1..Len(s) : u[k] = s[k]
    BY <1>1, <1>2
  <2>5. DOMAIN u = 1..(Len(s) + 1) /\ u # <<>>
    BY <2>3, <1>2
  <2> HIDE DEF u
  <2>6. ASSUME NEW a \in DOMAIN u, NEW b \in DOMAIN u, u[a] = u[b] PROVE a = b
    <3>1. \A a1, b1 \in 1..Len(s) : s[a1] = s[b1] => a1 = b1
      BY <1>1, <1>2 DEF IsInjective
    <3>2. a \in 1..Len(s) \/ a = Len(s) + 1
      BY <2>5, <1>2
    <3>3. b \in 1..Len(s) \/ b = Len(s) + 1
      BY <2>5, <1>2
    <3> QED
      BY <2>2, <2>3, <2>4, <2>6, <3>1, <3>2, <3>3
  <2>7. IsInjective(u)
    BY <2>6 DEF IsInjective
  <2>8. u[1] = e
    BY <1>1, <1>2, <2>4
  <2>9. \A k \in 1..Len(u) : u[k] \in W \/ u[k] > e
    <3> SUFFICES ASSUME NEW k \in 1..Len(u) PROVE u[k] \in W \/ u[k] > e
      OBVIOUS
    <3>1. k \in 1..Len(s) \/ k = Len(s) + 1
      BY <2>3, <1>2
    <3> QED
      BY <3>1, <1>1, <2>3, <2>4
  <2> QED
    BY <2>1, <2>3, <2>5, <2>7, <2>8, <2>9 DEF Ahead
<1> QED
  BY <1>3, <1>4

\* The rest of such a worklist.
LEMMA RestIs ==
  ASSUME NEW L \in Nat, NEW e \in 0..L, NEW W, NEW s \in Ahead(W, e, L)
  PROVE  /\ Tail(s) \in Seq(0..L) /\ IsInjective(Tail(s))
         /\ \A x \in ToSet(Tail(s)) : x \in W \/ x > e
<1>1. /\ s \in Seq(0..L) /\ IsInjective(s) /\ s # <<>>
      /\ \A k \in 1..Len(s) : s[k] \in W \/ s[k] > e
  BY DEF Ahead
<1>2. Len(s) \in Nat \ {0} /\ DOMAIN s = 1..Len(s)
  BY <1>1
<1>3. Tail(s) \in Seq(0..L) /\ Len(Tail(s)) = Len(s) - 1
  BY <1>1, <1>2
<1>4. DOMAIN Tail(s) = 1..(Len(s) - 1) /\ \A k \in 1..(Len(s) - 1) : Tail(s)[k] = s[k + 1]
  BY <1>1, <1>2, <1>3
<1> DEFINE u == Tail(s)
<1> HIDE DEF u
<1>5. DOMAIN u = 1..(Len(s) - 1) /\ \A k \in DOMAIN u : k \in Int /\ k + 1 \in 1..Len(s) /\ u[k] = s[k + 1]
  BY <1>2, <1>4 DEF u
<1>6. IsInjective(u)
  <2> SUFFICES ASSUME NEW a \in DOMAIN u, NEW b \in DOMAIN u, u[a] = u[b] PROVE a = b
    BY DEF IsInjective
  <2>1. a + 1 = b + 1
    BY <1>1, <1>2, <1>5 DEF IsInjective
  <2> QED
    BY <2>1, <1>5
<1>7. \A x \in ToSet(u) : x \in W \/ x > e
  BY <1>1, <1>5 DEF ToSet
<1> QED
  BY <1>3, <1>6, <1>7 DEF u

\* Propagation keeps the invariant, and what it adds to the worklist lies further from the
\* crash than the operand it takes.
LEMMA PropagateKeeps ==
  ASSUME Sound, Propagate
  PROVE  Sound' /\ \A x \in ToSet(srclist') \ ToSet(srclist) : x > Head(srclist)
<1> DEFINE L == Len(list)
           e == Head(srclist)
           n == NodeAt(list, e, Head(sinks))
           stops == e # 0 /\ n.inst > ROOT
           w == find_prev_write_of_address(list, e, n)
           d == find_prev_def_of_use(list, e, n)
           ww == IF d = 0 THEN 0 ELSE find_prev_write_of_address(list, d, list[d])
           follow == IF stops THEN <<>> ELSE (IF w = 0 THEN <<>> ELSE Followed(list, w))
                                             \o (IF d = 0 THEN <<>> ELSE Followed(list, d))
           found == ({w, ww} \ {0}) \cup {x \in {d} \ {0} : Immediate(list, x)}
           I == Index(trace)
           Y == (e + 1)..L
           W == ToSet(srclist)
           all == FoldLeft(add_to_uselist, srclist, follow)
<1>1. /\ list \in Seq(NodeOf(I)) /\ L \in Nat /\ \A k \in 1..L : list[k].inst \in I
  <2>1. list \in Seq(NodeOf(I)) /\ L \in Nat
    BY DEF Sound
  <2>2. \A k \in 1..L : list[k] \in NodeOf(I)
    BY <2>1
  <2> QED
    BY <2>1, <2>2 DEF NodeOf
<1>2. /\ srclist \in Seq(0..L) /\ IsInjective(srclist) /\ srclist # <<>>
      /\ score = <<>> /\ tainted \subseteq I /\ trace \in Traces
  BY DEF Sound, Propagate
<1>3. /\ srclist' = Tail(all)
      /\ tainted' = tainted \cup (IF e = 0 THEN {} ELSE {n.inst})
                            \cup (IF stops THEN {} ELSE {list[j].inst : j \in found})
      /\ trace' = trace /\ list' = list /\ sinks' = sinks /\ score' = score
  BY Zenon DEF Propagate
<1>4. e \in 0..L /\ e = srclist[1] /\ Len(srclist) \in Nat \ {0} /\ DOMAIN srclist = 1..Len(srclist)
  BY <1>2
<1>5. w \in {0} \cup (e + 1)..L /\ d \in {0} \cup (e + 1)..L
  <2> HIDE DEF n, e
  <2> QED
    BY <1>1, <1>4, FoundIs
<1>6. ww \in {0} \cup 1..L
  <2>1. CASE d = 0
    BY <2>1
  <2>2. CASE d # 0
    <3>1. d \in 0..L /\ d \in 1..L
      BY <1>1, <1>4, <1>5, <2>2
    <3> HIDE DEF d
    <3>2. find_prev_write_of_address(list, d, list[d]) \in {0} \cup (d + 1)..L
      BY <1>1, <3>1, FoundIs
    <3>3. (d + 1)..L \subseteq 1..L
      BY <3>1
    <3> QED
      BY <2>2, <3>2, <3>3
  <2> QED
    BY <2>1, <2>2
<1> HIDE DEF w, d, ww, n, e
<1>7. tainted' \subseteq I
  <2>1. e # 0 => n.inst \in I
    <3>1. e # 0 => e \in 1..L /\ n = list[e]
      BY <1>4, <1>1 DEF n, NodeAt
    <3> QED
      BY <3>1, <1>1
  <2>2. found \subseteq 1..L
    BY <1>1, <1>4, <1>5, <1>6
  <2>3. {list[j].inst : j \in found} \subseteq I
    <3> HIDE DEF found
    <3> QED
      BY <1>1, <2>2
  <2> HIDE DEF found
  <2> QED
    BY <1>2, <1>3, <2>1, <2>3
<1>8. follow \in Seq(Y)
  <2>1. ASSUME NEW x \in (e + 1)..L PROVE Followed(list, x) \in Seq(Y)
    <3>1. x \in 1..L /\ (x + 1)..L \subseteq Y
      BY <1>1, <1>4
    <3>2. Followed(list, x) \in Seq((x + 1)..L)
      BY <1>1, <3>1, FollowedIs
    <3> DEFINE m == Followed(list, x)
               Z == (x + 1)..L
    <3>3. m \in Seq(Z) /\ Z \subseteq Y
      BY <3>1, <3>2
    <3> HIDE DEF m, Z, Y
    <3>4. m \in Seq(Y)
      BY <3>3, SeqWider
    <3> QED
      BY <3>4 DEF m
  <2>2. /\ w # 0 => Followed(list, w) \in Seq(Y)
        /\ d # 0 => Followed(list, d) \in Seq(Y)
    BY <2>1, <1>5
  <2> HIDE DEF Y, stops
  <2>3. \A p, q \in Seq(Y) : p \o q \in Seq(Y)
    OBVIOUS
  <2>4. <<>> \in Seq(Y)
    OBVIOUS
  <2> QED
    BY <2>2, <2>3, <2>4
<1>9. srclist \in Ahead(W, e, L)
  <2>1. \A k \in 1..Len(srclist) : srclist[k] \in W
    BY <1>4 DEF ToSet
  <2> HIDE DEF W
  <2> QED
    BY <2>1, <1>2, <1>4 DEF Ahead
<1>10. \A x \in Ahead(W, e, L), y \in Y : add_to_uselist(x, y) \in Ahead(W, e, L)
  <2> HIDE DEF W, L
  <2> QED
    BY <1>1, <1>4, AddKeeps
<1> HIDE DEF follow, Y, W, L, I
<1>11. all \in Ahead(W, e, L)
  <2> DEFINE X == Ahead(W, e, L)
  <2>1. srclist \in X /\ \A x \in X, y \in Y : add_to_uselist(x, y) \in X
    BY <1>9, <1>10
  <2> HIDE DEF X
  <2>2. all \in X
    BY <1>8, <2>1, AddedIs
  <2> QED
    BY <2>2 DEF X
<1> HIDE DEF all
<1>12. /\ Tail(all) \in Seq(0..L) /\ IsInjective(Tail(all))
       /\ \A x \in ToSet(Tail(all)) : x \in W \/ x > e
  BY <1>1, <1>4, <1>11, RestIs
<1>13. L' = L /\ I' = I
  BY <1>3 DEF L, I, Index
<1>14. /\ srclist' \in Seq(0..L') /\ IsInjective(srclist)'
       /\ \A x \in ToSet(srclist') : x \in W \/ x > e
  BY <1>3, <1>12, <1>13 DEF IsInjective
<1>15. Sound'
  <2>1. list' \in Seq(NodeOf(I'))
    BY <1>1, <1>3, <1>13
  <2>2. \E S : sinks' \in Seq(S)
    BY <1>3 DEF Sound
  <2>3. tainted' \subseteq I'
    BY <1>7, <1>13
  <2> QED
    BY <2>1, <2>2, <2>3, <1>2, <1>3, <1>14 DEF Sound, L, I
<1>16. \A x \in ToSet(srclist') \ ToSet(srclist) : x > Head(srclist)
  BY <1>14 DEF W, e
<1> QED
  BY <1>15, <1>16

\* Taking the next sink keeps the invariant.
LEMMA NextSinkKeeps ==
  ASSUME Sound, NextSink
  PROVE  Sound' /\ sinks' # sinks
<1>1. PICK S : sinks \in Seq(S)
  BY DEF Sound
<1>2. Len(sinks) \in Nat /\ Len(sinks) > 1 /\ sinks' = Tail(sinks)
  BY <1>1 DEF NextSink
<1>3. sinks' \in Seq(S) /\ Len(sinks') = Len(sinks) - 1
  BY <1>1, <1>2
<1>4. srclist' = <<0>> /\ trace' = trace /\ list' = list /\ tainted' = tainted /\ score' = score /\ score = <<>>
  BY <1>2 DEF NextSink, Sound
<1>5. Len(list) \in Nat
  BY DEF Sound
<1>6. srclist' \in Seq(0..Len(list)) /\ IsInjective(srclist')
  BY <1>4, <1>5 DEF IsInjective
<1>7. Sound'
  <2>1. \E R : sinks' \in Seq(R)
    BY <1>3
  <2> QED
    BY <2>1, <1>4, <1>6 DEF Sound, Index, IsInjective
<1>8. sinks' # sinks
  <2> DEFINE k == Len(sinks)
             m == Len(sinks')
  <2>1. k \in Nat /\ m = k - 1
    BY <1>2, <1>3
  <2>2. sinks' = sinks => m = k
    OBVIOUS
  <2> HIDE DEF k, m
  <2>3. m # k
    BY <2>1
  <2> QED
    BY <2>2, <2>3
<1> QED
  BY <1>7, <1>8

\* Every step keeps the invariant, and advances the work.
LEMMA StepKeeps ==
  ASSUME Sound, [Next]_vars
  PROVE  Sound' /\ \A e \in ToSet(srclist') \ ToSet(srclist) : sinks' = sinks => e > Head(srclist)
<1>1. CASE Propagate
  BY <1>1, PropagateKeeps
<1>2. CASE NextSink
  BY <1>2, NextSinkKeeps
<1>3. CASE Rank
  <2>1. /\ score' = taint_ranking(trace, tainted)
        /\ trace' = trace /\ list' = list /\ sinks' = sinks /\ srclist' = srclist /\ tainted' = tainted
        /\ srclist = <<>> /\ Len(sinks) = 1
    BY <1>3 DEF Rank
  <2>2. Sound'
    BY <2>1 DEF Sound, Index, IsInjective
  <2> QED
    BY <2>1, <2>2
<1>4. CASE UNCHANGED vars
  <2>1. /\ trace' = trace /\ list' = list /\ sinks' = sinks /\ srclist' = srclist
        /\ tainted' = tainted /\ score' = score
    BY <1>4 DEF vars
  <2>2. Sound'
    BY <2>1 DEF Sound, Index, IsInjective
  <2> QED
    BY <2>1, <2>2
<1> QED
  BY <1>1, <1>2, <1>3, <1>4 DEF Next

\* The invariant always holds.
LEMMA AlwaysSound == Spec => []Sound
<1>1. Sound /\ [Next]_vars => Sound'
  BY StepKeeps
<1> QED
  BY SoundAtFirst, <1>1, PTL DEF Spec

-----------------------------------------------------------------------------
(* The theorems. *)

\* The worklist of taint propagation (taint_operand of analyze_result.c) holds nodes of
\* the core list, each once, and only instructions of the trace are marked or scored.
THEOREM TypeCorrect == Spec => []TypeOK
<1>1. Sound => TypeOK
  <2> SUFFICES ASSUME Sound PROVE TypeOK
    OBVIOUS
  <2>1. srclist \in Seq(0..Len(list)) /\ IsInjective(srclist) /\ tainted \subseteq Index(trace) /\ trace \in Traces
    BY DEF Sound
  <2>2. ToSet(srclist) \subseteq 0..Len(list)
    BY <2>1 DEF ToSet
  <2>3. score \in {<<>>} \cup [Index(trace) -> Int]
    <3>1. taint_ranking(trace, tainted) \in [Index(trace) -> Int]
      BY <2>1, RankingIs
    <3> QED
      BY <3>1 DEF Sound
  <2> QED
    BY <2>1, <2>2, <2>3 DEF TypeOK
<1> QED
  BY <1>1, AlwaysSound, PTL

\* What an operand is replaced by lies further from the crash than it, in every trace, so
\* that taint propagation, which does not remember what it has followed, comes to an end.
THEOREM WorkOnlyAdvances == Spec => WorkAdvances
<1> DEFINE A == \A e \in ToSet(srclist') \ ToSet(srclist) : sinks' = sinks => e > Head(srclist)
<1>1. Sound /\ [Next]_vars => A
  BY StepKeeps
<1> HIDE DEF A
<1>2. Spec => [][A]_vars
  BY <1>1, AlwaysSound, PTL DEF Spec
<1> QED
  BY <1>2 DEF WorkAdvances, A

\* Whatever the trace and the marks, the ranking of analyze_result.c gives a tainted
\* instruction, and no other, a score that is not 0, and of two that are raised alike it does
\* not put the more redundant one higher, although add_address_counter and
\* get_address_counter never look at the last node of their list.
THEOREM RankingKeepsTaintAndOrder == Spec => [](Done => ScoreKeepsTaint /\ RedundantNotHigher)
<1>1. Sound => (Done => ScoreKeepsTaint /\ RedundantNotHigher)
  <2> SUFFICES ASSUME Sound, Done PROVE ScoreKeepsTaint /\ RedundantNotHigher
    OBVIOUS
  <2>1. trace \in Traces /\ tainted \subseteq Index(trace) /\ score = taint_ranking(trace, tainted)
    BY DEF Sound, Done
  <2>2. /\ \A i \in Index(trace) : score[i] # 0 <=> i \in tainted
        /\ \A i, j \in tainted :
              /\ i \in {p[1] : p \in Bonus(trace, tainted)} <=> j \in {p[1] : p \in Bonus(trace, tainted)}
              /\ Often(trace, tainted, Step(trace, i).pc) > Often(trace, tainted, Step(trace, j).pc)
              => score[i] <= score[j]
    BY <2>1, RankingIs
  <2>3. \A pc : Occurrences(pc) = Often(trace, tainted, pc)
    BY DEF Occurrences, Often, At
  <2>4. ScoreKeepsTaint
    BY <2>2 DEF ScoreKeepsTaint
  <2>5. RedundantNotHigher
    BY <2>2, <2>3 DEF RedundantNotHigher, Raised
  <2> QED
    BY <2>4, <2>5
<1> QED
  BY <1>1, AlwaysSound, PTL
=============================================================================
