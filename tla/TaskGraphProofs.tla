--------------------------- MODULE TaskGraphProofs ---------------------------
(* Proofs about TaskGraph, for every set of task trees, any keys and any number
   of outputs. *)
EXTENDS TaskGraph, FiniteSetTheorems, SequenceTheorems, WellFoundedInduction, TLAPS

-----------------------------------------------------------------------------
(* Numbers, iteration, recursion over a ranked relation. *)
LEMMA Smallest ==
  ASSUME NEW T, T \subseteq Nat, T # {} PROVE \E m \in T : \A k \in T : m <= k
<1> DEFINE R == {ss \in Nat \X Nat : ss[1] < ss[2]}
<1>1. IsWellFoundedOn(R, Nat)
  BY NatLessThanWellFounded DEF OpToRel
<1> HIDE DEF R
<1>2. \E m \in T : \A k \in T : <<k, m>> \notin R
  BY <1>1, WFMin
<1>3. \A k, m \in Nat : k < m => <<k, m>> \in R
  BY DEF R
<1>4. PICK m \in T : \A k \in T : <<k, m>> \notin R
  BY <1>2
<1>5. ASSUME NEW k \in T PROVE m <= k
  <2>1. k \in Nat /\ m \in Nat /\ ~(k < m)
    BY <1>3, <1>4
  <2> QED
    BY <2>1
<1> QED
  BY <1>4, <1>5

(* A function defined by recursion on a bounded rank exists: step[x] computes
   the value at x from the values at its successors, which rank lower. *)
Follows(f, N, succ, step) == \A x \in N : f[x] = step[x][[y \in succ[x] |-> f[y]]]
LEMMA RecursionExists ==
  ASSUME NEW N, NEW V, NEW bound \in Nat, NEW rank \in [N -> 0 .. bound],
         NEW succ \in [N -> SUBSET N], NEW step,
         \A x \in N : \A y \in succ[x] : rank[y] < rank[x],
         \A x \in N : step[x] \in [[succ[x] -> V] -> V]
  PROVE  \E f \in [N -> V] : Follows(f, N, succ, step)
<1> DEFINE Low(n) == {x \in N : rank[x] < n}
           Is(n) == \E f \in [Low(n) -> V] : \A x \in Low(n) : f[x] = step[x][[y \in succ[x] |-> f[y]]]
           T == {n \in 0 .. bound + 1 : ~Is(n)}
<1>1. SUFFICES ASSUME T # {} PROVE FALSE
  <2>1. Low(bound + 1) = N
    OBVIOUS
  <2>2. bound + 1 \in 0 .. bound + 1
    OBVIOUS
  <2> HIDE DEF Low
  <2>3. Is(bound + 1)
    BY <2>2
  <2> QED
    BY <2>1, <2>3 DEF Follows
<1>2. T \subseteq Nat
  OBVIOUS
<1>3. PICK n \in T : \A k \in T : n <= k
  BY <1>1, <1>2, Smallest
<1>4. n \in 0 .. bound + 1 /\ ~Is(n)
  BY <1>3
<1>5. n # 0
  <2>1. Low(0) = {}
    OBVIOUS
  <2>2. [x \in {} |-> x] \in [{} -> V]
    OBVIOUS
  <2>3. Is(0)
    BY <2>1, <2>2
  <2> HIDE DEF Is
  <2> QED
    BY <1>4, <2>3
<1>6. Is(n - 1)
  <2>1. n - 1 \in 0 .. bound + 1 /\ ~(n <= n - 1)
    BY <1>4, <1>5
  <2> QED
    BY <1>3, <2>1
<1>7. PICK f \in [Low(n - 1) -> V] : \A x \in Low(n - 1) : f[x] = step[x][[y \in succ[x] |-> f[y]]]
  BY <1>6
<1>8. ASSUME NEW x \in Low(n), NEW y \in succ[x] PROVE y \in Low(n - 1)
  <2>1. x \in N /\ rank[x] < n /\ rank[x] \in 0 .. bound
    OBVIOUS
  <2>2. y \in N /\ rank[y] \in 0 .. bound /\ rank[y] < rank[x]
    BY <2>1
  <2> QED
    BY <1>4, <2>1, <2>2
<1> DEFINE h == [x \in Low(n) |-> step[x][[y \in succ[x] |-> f[y]]]]
<1>9. h \in [Low(n) -> V]
  <2> SUFFICES ASSUME NEW x \in Low(n) PROVE step[x][[y \in succ[x] |-> f[y]]] \in V
    OBVIOUS
  <2>1. [y \in succ[x] |-> f[y]] \in [succ[x] -> V]
    BY <1>7, <1>8
  <2>2. x \in N /\ step[x] \in [[succ[x] -> V] -> V]
    OBVIOUS
  <2> QED
    BY <2>1, <2>2
<1>10. ASSUME NEW x \in Low(n - 1) PROVE h[x] = f[x] /\ x \in Low(n)
  <2>1. x \in N /\ rank[x] \in 0 .. bound /\ rank[x] < n - 1
    OBVIOUS
  <2>2. x \in Low(n)
    BY <1>4, <2>1
  <2> QED
    BY <1>7, <2>2
<1>11. ASSUME NEW x \in Low(n) PROVE h[x] = step[x][[y \in succ[x] |-> h[y]]]
  <2>1. \A y \in succ[x] : h[y] = f[y]
    BY <1>8, <1>10
  <2> HIDE DEF h
  <2>2. [y \in succ[x] |-> h[y]] = [y \in succ[x] |-> f[y]]
    BY <2>1
  <2> QED
    BY <2>2 DEF h
<1> HIDE DEF h, Low
<1>12. Is(n)
  BY <1>9, <1>11
<1> QED
  BY <1>4, <1>12

(* The n-th smallest of a finite set of numbers. *)
LEMMA NthFacts ==
  ASSUME NEW S, S \subseteq Nat, IsFiniteSet(S), NEW n \in 1 .. Cardinality(S)
  PROVE  Nth(S, n) \in S /\ Cardinality({y \in S : y < Nth(S, n)}) = n - 1
<1> DEFINE Below(x) == {y \in S : y < x}
           Is(k) == \E x \in S : Cardinality(Below(x)) = k - 1
           T == {k \in 1 .. Cardinality(S) : ~Is(k)}
<1>1. Cardinality(S) \in Nat
  BY FS_CardinalityType
<1>2. \A x \in S : IsFiniteSet(Below(x)) /\ Cardinality(Below(x)) \in Nat
  BY FS_Subset, FS_CardinalityType
<1>3. SUFFICES Is(n)
  BY DEF Nth
<1>4. SUFFICES ASSUME T # {} PROVE FALSE
  OBVIOUS
<1>5. T \subseteq Nat
  BY <1>1
<1>6. PICK k \in T : \A j \in T : k <= j
  BY <1>4, <1>5, Smallest
<1>7. k \in 1 .. Cardinality(S) /\ ~Is(k)
  BY <1>6
<1>8. CASE k = 1
  <2>1. S # {}
    BY <1>7, <1>8, FS_EmptySet
  <2>2. PICK x \in S : \A y \in S : x <= y
    BY <2>1, Smallest
  <2>3. \A y \in S : ~(y < x)
    BY <2>2
  <2>4. Below(x) = {}
    BY <2>3
  <2>5. Cardinality(Below(x)) = 0
    BY <2>4, FS_EmptySet
  <2>6. k - 1 = 0
    BY <1>8
  <2> HIDE DEF Below
  <2> QED
    BY <1>7, <2>2, <2>5, <2>6
<1>9. CASE k # 1
  <2>1. k - 1 \in 1 .. Cardinality(S) /\ ~(k <= k - 1)
    BY <1>1, <1>7, <1>9
  <2>2. Is(k - 1)
    BY <1>6, <2>1
  <2>3. PICK x \in S : Cardinality(Below(x)) = (k - 1) - 1
    BY <2>2
  <2> DEFINE Above == {y \in S : x < y}
  <2>4. Above # {}
    <3>1. SUFFICES ASSUME Above = {} PROVE FALSE
      OBVIOUS
    <3>2. \A y \in S : y < x \/ y = x
      <4> SUFFICES ASSUME NEW y \in S, ~(x < y) PROVE y < x \/ y = x
        BY <3>1
      <4>1. x \in Nat /\ y \in Nat
        OBVIOUS
      <4> QED
        BY <4>1
    <3>5. S = Below(x) \cup {x}
      BY <3>2, Zenon
    <3>3. x \notin Below(x)
      OBVIOUS
    <3>4. Cardinality(S) = Cardinality(Below(x)) + 1
      <4> HIDE DEF Below
      <4> QED
        BY <1>2, <3>5, <3>3, FS_AddElement
    <3> QED
      BY <1>1, <1>7, <2>3, <3>4
  <2>5. PICK z \in Above : \A y \in Above : z <= y
    BY <2>4, Smallest
  <2>6. Below(z) = Below(x) \cup {x} /\ x \notin Below(x)
    <3>1. z \in S /\ z \in Nat /\ x \in Nat /\ x < z
      BY <2>5
    <3>2. \A y \in S : y < z <=> y < x \/ y = x
      <4> SUFFICES ASSUME NEW y \in S PROVE y < z <=> y < x \/ y = x
        OBVIOUS
      <4>1. y \in Nat /\ (x < y => z <= y)
        BY <2>5
      <4> QED
        BY <3>1, <4>1
    <3>3. Below(z) = Below(x) \cup {x}
      BY <3>1, <3>2, Zenon
    <3> QED
      BY <3>1, <3>3
  <2>7. Cardinality(Below(z)) = Cardinality(Below(x)) + 1
    <3> HIDE DEF Below
    <3> QED
      BY <1>2, <2>6, FS_AddElement
  <2>8. Cardinality(Below(z)) = k - 1 /\ z \in S
    BY <1>1, <1>7, <2>3, <2>5, <2>7
  <2> QED
    BY <1>7, <2>8
<1> QED
  BY <1>8, <1>9

LEMMA PickedFacts ==
  ASSUME NEW X, NEW xs \in Seq(X), NEW S, S \subseteq DOMAIN xs
  PROVE  /\ IsFiniteSet(S) /\ Cardinality(S) \in Nat
         /\ Picked(xs, S) \in Seq(X)
         /\ Len(Picked(xs, S)) = Cardinality(S)
         /\ \A n \in 1 .. Cardinality(S) : Nth(S, n) \in S /\ Picked(xs, S)[n] = xs[Nth(S, n)]
         /\ \A m, n \in 1 .. Cardinality(S) : m # n => Nth(S, m) # Nth(S, n)
         /\ Picked(xs, S) = <<>> <=> S = {}
<1>1. S \subseteq 1 .. Len(xs) /\ S \subseteq Nat
  OBVIOUS
<1>2. IsFiniteSet(S)
  BY <1>1, FS_Interval, FS_Subset
<1>3. Cardinality(S) \in Nat
  BY <1>2, FS_CardinalityType
<1>4. \A n \in 1 .. Cardinality(S) : Nth(S, n) \in S /\ Cardinality({y \in S : y < Nth(S, n)}) = n - 1
  BY <1>1, <1>2, NthFacts
<1>5. \A n \in 1 .. Cardinality(S) : xs[Nth(S, n)] \in X
  BY <1>1, <1>4, ElementOfSeq
<1>6. Picked(xs, S) \in Seq(X) /\ Len(Picked(xs, S)) = Cardinality(S)
  BY <1>3, <1>5 DEF Picked
<1>7. \A m, n \in 1 .. Cardinality(S) : m # n => Nth(S, m) # Nth(S, n)
  <2> SUFFICES ASSUME NEW m \in 1 .. Cardinality(S), NEW n \in 1 .. Cardinality(S), Nth(S, m) = Nth(S, n)
               PROVE  m = n
    OBVIOUS
  <2>1. m - 1 = n - 1
    BY <1>4
  <2> QED
    BY <1>3, <2>1
<1>8. Picked(xs, S) = <<>> <=> S = {}
  <2>1. Cardinality(S) = 0 <=> S = {}
    BY <1>2, FS_EmptySet
  <2> QED
    BY <1>3, <1>6, <2>1
<1>9. \A n \in 1 .. Cardinality(S) : Picked(xs, S)[n] = xs[Nth(S, n)]
  BY DEF Picked
<1> QED
  BY <1>2, <1>3, <1>4, <1>6, <1>7, <1>8, <1>9

LEMMA OwnSet ==
  ASSUME NEW X, NEW xs \in Seq(X) PROVE xs \in Seq(ToSet(xs)) /\ ToSet(xs) \subseteq X
BY DEF ToSet

LEMMA JoinedSet ==
  ASSUME NEW X, NEW a \in Seq(X), NEW b \in Seq(X)
  PROVE  ToSet(a \o b) = ToSet(a) \cup ToSet(b)
<1>1. /\ Len(a) \in Nat /\ Len(b) \in Nat /\ DOMAIN a = 1 .. Len(a) /\ DOMAIN b = 1 .. Len(b)
      /\ DOMAIN (a \o b) = 1 .. Len(a) + Len(b)
      /\ \A i \in 1 .. Len(a) + Len(b) : (a \o b)[i] = IF i <= Len(a) THEN a[i] ELSE b[i - Len(a)]
  OBVIOUS
<1> DEFINE c == a \o b
<1> HIDE DEF c
<1>2. ASSUME NEW i \in DOMAIN a PROVE i \in DOMAIN c /\ c[i] = a[i]
  BY <1>1 DEF c
<1>3. ASSUME NEW i \in DOMAIN b PROVE Len(a) + i \in DOMAIN c /\ c[Len(a) + i] = b[i]
  <2>1. Len(a) + i \in 1 .. Len(a) + Len(b) /\ ~(Len(a) + i <= Len(a)) /\ (Len(a) + i) - Len(a) = i
    BY <1>1
  <2> QED
    BY <1>1, <2>1 DEF c
<1>4. ASSUME NEW i \in DOMAIN c PROVE (i \in DOMAIN a /\ c[i] = a[i]) \/ \E n \in DOMAIN b : c[i] = b[n]
  <2>1. CASE i <= Len(a)
    BY <1>1, <2>1 DEF c
  <2>2. CASE i > Len(a)
    <3>1. i - Len(a) \in DOMAIN b /\ c[i] = b[i - Len(a)]
      BY <1>1, <2>2 DEF c
    <3> QED
      BY <3>1
  <2> QED
    BY <1>1, <2>1, <2>2 DEF c
<1>5. ToSet(c) = ToSet(a) \cup ToSet(b)
  <2>1. \A y \in ToSet(a) \cup ToSet(b) : y \in ToSet(c)
    BY <1>2, <1>3 DEF ToSet
  <2>2. ASSUME NEW y \in ToSet(c) PROVE y \in ToSet(a) \cup ToSet(b)
    <3>1. PICK i \in DOMAIN c : y = c[i]
      BY <2>2 DEF ToSet
    <3> QED
      BY <1>4, <3>1 DEF ToSet
  <2> QED
    BY <2>1, <2>2
<1> QED
  BY <1>5 DEF c

(* Merge keeps what was there and one state per key. *)
State == [key : Nat, id : Nat]
LEMMA MergeFacts ==
  ASSUME NEW a \in Seq(State), NEW xs \in Seq(State)
  PROVE  /\ Merge(a, xs) \in Seq(State)
         /\ Len(Merge(a, xs)) >= Len(a)
         /\ Distinct(a) => Distinct(Merge(a, xs))
         /\ ToSet(a) \subseteq ToSet(Merge(a, xs)) /\ ToSet(Merge(a, xs)) \subseteq ToSet(a) \cup ToSet(xs)
<1> DEFINE S == {i \in DOMAIN xs : /\ \A y \in ToSet(a) : y.key # xs[i].key
                                   /\ \A j \in 1 .. i - 1 : xs[j].key # xs[i].key}
           new == Picked(xs, S)
<1>1. S \subseteq DOMAIN xs
  OBVIOUS
<1>2. Merge(a, xs) = a \o new
  BY DEF Merge
<1>3. \A i, j \in S : i # j => xs[i].key # xs[j].key
  OBVIOUS
<1>4. \A i \in S : \A n \in DOMAIN a : a[n].key # xs[i].key
  BY DEF ToSet
<1> HIDE DEF S
<1>5. /\ new \in Seq(State) /\ Len(new) = Cardinality(S)
      /\ \A n \in 1 .. Cardinality(S) : Nth(S, n) \in S /\ new[n] = xs[Nth(S, n)]
      /\ \A m, n \in 1 .. Cardinality(S) : m # n => Nth(S, m) # Nth(S, n)
  BY <1>1, PickedFacts
<1> HIDE DEF new
<1>6. \A m, n \in DOMAIN new : m # n => new[m].key # new[n].key
  BY <1>3, <1>5
<1>7. \A m \in DOMAIN a, n \in DOMAIN new : a[m].key # new[n].key
  BY <1>4, <1>5
<1>8. ASSUME Distinct(a) PROVE Distinct(a \o new)
  <2> SUFFICES ASSUME NEW i \in DOMAIN (a \o new), NEW j \in DOMAIN (a \o new), i # j
               PROVE  (a \o new)[i].key # (a \o new)[j].key
    BY DEF Distinct
  <2>1. i \in 1 .. Len(a) + Len(new) /\ j \in 1 .. Len(a) + Len(new)
    BY <1>5
  <2>2. CASE i <= Len(a) /\ j <= Len(a)
    BY <1>5, <1>8, <2>1, <2>2 DEF Distinct
  <2>3. CASE i <= Len(a) /\ j > Len(a)
    <3>1. i \in DOMAIN a /\ j - Len(a) \in DOMAIN new
      BY <1>5, <2>1, <2>3
    <3> QED
      BY <1>5, <1>7, <2>1, <2>3, <3>1
  <2>4. CASE i > Len(a) /\ j <= Len(a)
    <3>1. j \in DOMAIN a /\ i - Len(a) \in DOMAIN new
      BY <1>5, <2>1, <2>4
    <3> QED
      BY <1>5, <1>7, <2>1, <2>4, <3>1
  <2>5. CASE i > Len(a) /\ j > Len(a)
    <3>1. j - Len(a) \in DOMAIN new /\ i - Len(a) \in DOMAIN new /\ i - Len(a) # j - Len(a)
      BY <1>5, <2>1, <2>5
    <3> QED
      BY <1>5, <1>6, <2>1, <2>5, <3>1
  <2> QED
    BY <2>1, <2>2, <2>3, <2>4, <2>5
<1>9. ToSet(new) \subseteq ToSet(xs)
  <2>1. \A n \in DOMAIN new : \E i \in DOMAIN xs : new[n] = xs[i]
    BY <1>1, <1>5
  <2> QED
    BY <2>1 DEF ToSet
<1>10. ToSet(a \o new) = ToSet(a) \cup ToSet(new)
  BY <1>5, JoinedSet
<1> QED
  BY <1>2, <1>5, <1>8, <1>9, <1>10

(* Concatenation of a sequence of sequences, one after the other. *)
Concatenates(f, seqs) == f[0] = <<>> /\ \A i \in 1 .. Len(seqs) : f[i] = f[i - 1] \o seqs[i]
LEMMA FlattenFacts ==
  ASSUME NEW X, NEW seqs \in Seq(Seq(X))
  PROVE  \E f \in [0 .. Len(seqs) -> Seq(X)] :
           Concatenates(f, seqs) /\ FlattenSeq(seqs) = f[Len(seqs)]
<1> DEFINE n == Len(seqs)
           N == 0 .. n
           succ == [i \in N |-> IF i = 0 THEN {} ELSE {i - 1}]
           rank == [i \in N |-> i]
           step == [i \in N |-> [g \in [succ[i] -> Seq(X)] |->
                      IF i = 0 THEN <<>> ELSE g[i - 1] \o seqs[i]]]
<1>1. n \in Nat /\ \A i \in 1 .. n : seqs[i] \in Seq(X)
  OBVIOUS
<1>2. \A i \in N : step[i] \in [[succ[i] -> Seq(X)] -> Seq(X)]
  <2> SUFFICES ASSUME NEW i \in N, NEW g \in [succ[i] -> Seq(X)]
               PROVE  (IF i = 0 THEN <<>> ELSE g[i - 1] \o seqs[i]) \in Seq(X)
    OBVIOUS
  <2>1. CASE i = 0
    BY <2>1
  <2>2. CASE i # 0
    <3>1. i \in 1 .. n /\ i - 1 \in succ[i]
      BY <1>1, <2>2
    <3> HIDE DEF succ
    <3>2. g[i - 1] \in Seq(X) /\ seqs[i] \in Seq(X)
      BY <1>1, <3>1
    <3> QED
      BY <2>2, <3>2
  <2> QED
    BY <2>1, <2>2
<1>3. rank \in [N -> 0 .. n] /\ succ \in [N -> SUBSET N] /\ \A i \in N : \A j \in succ[i] : rank[j] < rank[i]
  BY <1>1
<1>4. PICK f \in [N -> Seq(X)] : Follows(f, N, succ, step)
  <2> HIDE DEF N, succ, rank, step, n
  <2> QED
    BY <1>1, <1>2, <1>3, RecursionExists
<1>5. f[0] = <<>> /\ \A i \in 1 .. n : f[i] = f[i - 1] \o seqs[i]
  <2> SUFFICES ASSUME NEW i \in N PROVE f[i] = IF i = 0 THEN <<>> ELSE f[i - 1] \o seqs[i]
    <3>1. 0 \in N /\ \A i \in 1 .. n : i \in N /\ i # 0
      BY <1>1
    <3> HIDE DEF N, n
    <3> QED
      BY <3>1
  <2>1. [j \in succ[i] |-> f[j]] \in [succ[i] -> Seq(X)]
    BY <1>3
  <2>2. f[i] = step[i][[j \in succ[i] |-> f[j]]]
    BY <1>4 DEF Follows
  <2>3. i # 0 => [j \in succ[i] |-> f[j]][i - 1] = f[i - 1]
    OBVIOUS
  <2> HIDE DEF succ
  <2>4. step[i][[j \in succ[i] |-> f[j]]] = IF i = 0 THEN <<>> ELSE [j \in succ[i] |-> f[j]][i - 1] \o seqs[i]
    BY <2>1
  <2> HIDE DEF step
  <2> QED
    BY <2>2, <2>3, <2>4
<1> HIDE DEF N, succ, rank, step
<1> DEFINE F == CHOOSE g : g = [i \in 1 .. n |-> IF i = 1 THEN seqs[i] ELSE g[i - 1] \o seqs[i]]
           h == [i \in 1 .. n |-> f[i]]
<1>11. \A i \in 1 .. n : h[i] = f[i]
  OBVIOUS
<1>12. h = [i \in 1 .. n |-> h[i]]
  OBVIOUS
<1> HIDE DEF h
<1>13. \A i \in 1 .. n : h[i] = IF i = 1 THEN seqs[i] ELSE h[i - 1] \o seqs[i]
  <2> SUFFICES ASSUME NEW i \in 1 .. n PROVE f[i] = IF i = 1 THEN seqs[i] ELSE h[i - 1] \o seqs[i]
    BY <1>11
  <2>1. CASE i = 1
    <3>1. f[1] = f[1 - 1] \o seqs[1] /\ f[0] = <<>> /\ seqs[1] \in Seq(X)
      BY <1>1, <1>5, <2>1
    <3>2. <<>> \o seqs[1] = seqs[1]
      BY <3>1
    <3>3. 1 - 1 = 0
      OBVIOUS
    <3> QED
      BY <2>1, <3>1, <3>2, <3>3
  <2>2. CASE i # 1
    <3>1. i - 1 \in 1 .. n
      BY <1>1, <2>2
    <3>2. h[i - 1] = f[i - 1] /\ f[i] = f[i - 1] \o seqs[i]
      BY <1>5, <1>11, <3>1
    <3> QED
      BY <2>2, <3>2
  <2> QED
    BY <2>1, <2>2
<1>6. h = [i \in 1 .. n |-> IF i = 1 THEN seqs[i] ELSE h[i - 1] \o seqs[i]]
  BY <1>12, <1>13
<1>7. F = [i \in 1 .. n |-> IF i = 1 THEN seqs[i] ELSE F[i - 1] \o seqs[i]]
  BY <1>6, Zenon
<1>8. FlattenSeq(seqs) = IF n = 0 THEN seqs ELSE F[n]
  BY Zenon DEF FlattenSeq
<1> HIDE DEF F
<1>9. \A i \in 1 .. n : F[i] = f[i]
  <2> DEFINE T == {i \in 1 .. n : F[i] # f[i]}
  <2>1. SUFFICES ASSUME T # {} PROVE FALSE
    BY Zenon
  <2>2. T \subseteq Nat
    BY <1>1
  <2>3. PICK m \in T : \A k \in T : m <= k
    <3> HIDE DEF T
    <3> QED
      BY <2>1, <2>2, Smallest
  <2>4. m \in 1 .. n /\ F[m] # f[m]
    BY <2>3
  <2>5. F[m] = IF m = 1 THEN seqs[m] ELSE F[m - 1] \o seqs[m]
    BY <1>7, <2>4
  <2>6. CASE m = 1
    <3>1. F[m] = seqs[m] /\ h[m] = seqs[m] /\ h[m] = f[m]
      BY <1>11, <1>13, <2>4, <2>5, <2>6
    <3> QED
      BY <2>4, <3>1
  <2>7. CASE m # 1
    <3>1. m - 1 \in 1 .. n /\ ~(m <= m - 1)
      BY <1>1, <2>4, <2>7
    <3>2. F[m - 1] = f[m - 1]
      BY <2>3, <3>1
    <3> QED
      BY <1>5, <2>4, <2>5, <2>7, <3>2
  <2> QED
    BY <2>6, <2>7
<1>10. FlattenSeq(seqs) = f[n]
  <2>1. CASE n = 0
    BY <1>5, <1>8, <2>1
  <2>2. CASE n # 0
    <3>1. n \in 1 .. n
      BY <1>1, <2>2
    <3> QED
      BY <1>8, <1>9, <2>2, <3>1
  <2> QED
    BY <2>1, <2>2
<1> QED
  BY <1>4, <1>5, <1>10 DEF Concatenates, N

LEMMA FlattenType ==
  ASSUME NEW X, NEW seqs \in Seq(Seq(X)) PROVE FlattenSeq(seqs) \in Seq(X)
<1>1. PICK f \in [0 .. Len(seqs) -> Seq(X)] : FlattenSeq(seqs) = f[Len(seqs)]
  BY FlattenFacts
<1> QED
  BY <1>1

-----------------------------------------------------------------------------
(* The tree of a task. *)
LEMMA StageFacts ==
  ASSUME task \in Tasks
  PROVE  /\ Len(task.kind) \in Nat /\ Stages = 1 .. Len(task.kind) /\ Root \in Stages
         /\ \A s \in Stages : /\ s \in Nat /\ Kind(s) \in Kinds /\ task.cap[s] \in Nat
                              /\ Kids(s) \in Seq(Stages) /\ Len(Kids(s)) \in Nat
                              /\ DOMAIN Kids(s) = 1 .. Len(Kids(s))
         /\ \A s \in Stages : Kind(s) = "ik" => /\ Kids(s)[1] \in Stages /\ Len(Kids(s)) = 1
                                                /\ Kind(Kids(s)[1]) = "generator"
         /\ \A s \in Stages : ~Container(s) /\ Kind(s) # "ik" => Kids(s) = <<>>
<1> DEFINE n == Len(task.kind)
<1>1. task.kind \in Seq(Kinds) /\ n > 0 /\ task.kids \in [1 .. n -> Seq(2 .. n)] /\ task.cap \in [1 .. n -> Nat]
  BY TaskAssumption
<1>2. n \in Nat /\ Stages = 1 .. n /\ Root \in Stages
  BY <1>1 DEF Stages, Root
<1>3. ASSUME NEW s \in Stages
      PROVE  /\ s \in Nat /\ Kind(s) \in Kinds /\ task.cap[s] \in Nat
             /\ Kids(s) \in Seq(2 .. n) /\ Len(Kids(s)) \in Nat /\ DOMAIN Kids(s) = 1 .. Len(Kids(s))
  <2>1. s \in 1 .. n /\ s \in Nat
    BY <1>2
  <2>2. Kind(s) \in Kinds
    BY <1>1, <2>1, ElementOfSeq DEF Kind
  <2>3. task.cap[s] \in Nat /\ Kids(s) \in Seq(2 .. n)
    BY <1>1, <2>1 DEF Kids
  <2> QED
    BY <2>1, <2>2, <2>3
<1>4. ASSUME NEW s \in Stages PROVE Kids(s) \in Seq(Stages)
  <2>1. 2 .. n \subseteq Stages
    BY <1>2
  <2> QED
    BY <1>3, <2>1, SeqMonotonic
<1>5. ASSUME NEW s \in Stages, Kind(s) = "ik"
      PROVE  Kids(s)[1] \in Stages /\ Len(Kids(s)) = 1 /\ Kind(Kids(s)[1]) = "generator"
  <2>1. Len(Kids(s)) = 1 /\ Kind(Kids(s)[1]) = "generator"
    BY <1>2, <1>5, TaskAssumption DEF Kind, Kids
  <2>2. 1 \in 1 .. Len(Kids(s))
    BY <2>1
  <2> QED
    BY <1>4, <2>1, <2>2, ElementOfSeq
<1>6. ASSUME NEW s \in Stages, ~Container(s), Kind(s) # "ik" PROVE Kids(s) = <<>>
  <2>1. Kind(s) \in {"generator", "motion", "connect", "either"}
    BY <1>3, <1>6 DEF Kinds, Container, Serial, Parallel
  <2> QED
    BY <1>2, <2>1, TaskAssumption DEF Kind, Kids
<1> QED
  BY <1>2, <1>3, <1>4, <1>5, <1>6

LEMMA KidFacts ==
  ASSUME task \in Tasks, NEW s \in Stages, NEW i \in DOMAIN Kids(s)
  PROVE  /\ Kids(s)[i] \in Stages /\ Kids(s)[i] > s /\ Kids(s)[i] # Root
         /\ Parent(Kids(s)[i]) = s /\ Pos(s, Kids(s)[i]) = i
         /\ Container(s) \/ Kind(s) = "ik"
<1> DEFINE n == Len(task.kind)  k == Kids(s)[i]
<1>1. Stages = 1 .. n /\ Kids(s) \in Seq(Stages) /\ i \in 1 .. Len(Kids(s)) /\ s \in Nat
  BY StageFacts
<1>2. k \in Stages
  BY <1>1, ElementOfSeq
<1>3. k > s
  BY <1>1, TaskAssumption DEF Kids
<1>4. \A r \in Stages : \A j \in DOMAIN Kids(r) : Kids(r)[j] = k => r = s /\ j = i
  <2>1. \A q, r \in 1 .. n : \A h \in DOMAIN task.kids[q], j \in DOMAIN task.kids[r] :
          task.kids[q][h] = task.kids[r][j] => q = r /\ h = j
    BY TaskAssumption
  <2> HIDE DEF n
  <2> QED
    BY <1>1, <2>1 DEF Kids
<1>5. k \in ToSet(Kids(s))
  BY DEF ToSet
<1>6. \A r \in Stages : k \in ToSet(Kids(r)) => r = s
  BY <1>4 DEF ToSet
<1>7. Parent(k) = s
  BY <1>5, <1>6 DEF Parent
<1>8. Pos(s, k) = i
  BY <1>4, <1>5 DEF Pos
<1>9. Container(s) \/ Kind(s) = "ik"
  BY <1>1, StageFacts
<1>10. k # Root
  BY <1>1, <1>2, <1>3 DEF Root
<1> QED
  BY <1>2, <1>3, <1>7, <1>8, <1>9, <1>10

LEMMA ParentFacts ==
  ASSUME task \in Tasks, NEW k \in Stages, k # Root
  PROVE  \E i \in DOMAIN Kids(Parent(k)) : /\ Parent(k) \in Stages /\ Parent(k) < k
                                           /\ Kids(Parent(k))[i] = k /\ Pos(Parent(k), k) = i
<1> DEFINE n == Len(task.kind)
<1>1. Stages = 1 .. n /\ k \in 2 .. n
  BY StageFacts DEF Root
<1>2. \E s \in Stages : k \in ToSet(Kids(s))
  BY <1>1, TaskAssumption DEF Kids
<1>3. PICK s \in Stages : \E i \in DOMAIN Kids(s) : Kids(s)[i] = k
  BY <1>2 DEF ToSet
<1>4. PICK i \in DOMAIN Kids(s) : Kids(s)[i] = k
  BY <1>3
<1>5. Parent(k) = s /\ Pos(s, k) = i /\ s < k
  BY <1>1, <1>4, KidFacts
<1> QED
  BY <1>4, <1>5

(* The place of a stage among the children of p; 0 for other stages. *)
LEMMA PosFacts ==
  ASSUME task \in Tasks, NEW p \in Stages, NEW k
  PROVE  /\ Pos(p, k) \in 0 .. Len(Kids(p))
         /\ Pos(p, k) # 0 => Pos(p, k) \in DOMAIN Kids(p) /\ Kids(p)[Pos(p, k)] = k
         /\ k \in ToSet(Kids(p)) => Pos(p, k) # 0
<1>1. DOMAIN Kids(p) = 1 .. Len(Kids(p)) /\ Len(Kids(p)) \in Nat
  BY StageFacts
<1>2. CASE k \in ToSet(Kids(p))
  <2>1. PICK i \in DOMAIN Kids(p) : Kids(p)[i] = k
    BY <1>2 DEF ToSet
  <2>2. Pos(p, k) = i
    BY <2>1, KidFacts
  <2> QED
    BY <1>1, <2>1, <2>2
<1>3. CASE k \notin ToSet(Kids(p))
  BY <1>1, <1>3 DEF Pos
<1> QED
  BY <1>2, <1>3

LEMMA LineFacts ==
  ASSUME task \in Tasks, NEW s \in Stages
  PROVE  /\ Line[s] = {s} \cup (IF s = Root THEN {} ELSE Line[Parent(s)])
         /\ Line[s] \subseteq Stages /\ s \in Line[s]
<1> DEFINE N == Stages
           V == SUBSET Stages
           n == Len(task.kind)
           succ == [x \in N |-> IF x = Root THEN {} ELSE {Parent(x)}]
           rank == [x \in N |-> x]
           step == [x \in N |-> [g \in [succ[x] -> V] |->
                      {x} \cup IF x = Root THEN {} ELSE g[Parent(x)]]]
<1>1. n \in Nat /\ N = 1 .. n
  BY StageFacts
<1>2. \A x \in N : x # Root => Parent(x) \in N /\ Parent(x) < x
  BY ParentFacts
<1>3. rank \in [N -> 0 .. n] /\ succ \in [N -> SUBSET N] /\ \A x \in N : \A y \in succ[x] : rank[y] < rank[x]
  BY <1>1, <1>2
<1>4. \A x \in N : step[x] \in [[succ[x] -> V] -> V]
  <2> SUFFICES ASSUME NEW x \in N, NEW g \in [succ[x] -> V]
               PROVE  ({x} \cup IF x = Root THEN {} ELSE g[Parent(x)]) \in V
    OBVIOUS
  <2>1. CASE x = Root
    BY <2>1
  <2>2. CASE x # Root
    <3>1. Parent(x) \in succ[x]
      BY <2>2
    <3> HIDE DEF succ
    <3>2. g[Parent(x)] \in V
      BY <3>1
    <3> QED
      BY <2>2, <3>2
  <2> QED
    BY <2>1, <2>2
<1>5. PICK f \in [N -> V] : Follows(f, N, succ, step)
  <2> HIDE DEF N, V, succ, rank, step, n
  <2> QED
    BY <1>1, <1>3, <1>4, RecursionExists
<1>6. \A x \in N : f[x] = {x} \cup IF x = Root THEN {} ELSE f[Parent(x)]
  <2> SUFFICES ASSUME NEW x \in N PROVE f[x] = {x} \cup IF x = Root THEN {} ELSE f[Parent(x)]
    OBVIOUS
  <2>1. [y \in succ[x] |-> f[y]] \in [succ[x] -> V]
    BY <1>2, <1>3
  <2>2. f[x] = step[x][[y \in succ[x] |-> f[y]]]
    BY <1>5 DEF Follows
  <2>3. x # Root => [y \in succ[x] |-> f[y]][Parent(x)] = f[Parent(x)]
    OBVIOUS
  <2> HIDE DEF succ
  <2>4. step[x][[y \in succ[x] |-> f[y]]] = {x} \cup IF x = Root THEN {} ELSE [y \in succ[x] |-> f[y]][Parent(x)]
    BY <2>1
  <2> HIDE DEF step
  <2> QED
    BY <2>2, <2>3, <2>4
<1> HIDE DEF succ, rank, step
<1>7. f = [x \in Stages |-> {x} \cup IF x = Root THEN {} ELSE f[Parent(x)]]
  <2>1. f = [x \in Stages |-> f[x]]
    OBVIOUS
  <2> QED
    BY <1>6, <2>1
<1>8. Line = [x \in Stages |-> {x} \cup IF x = Root THEN {} ELSE Line[Parent(x)]]
  BY <1>7, Zenon DEF Line
<1>9. Line[s] = {s} \cup (IF s = Root THEN {} ELSE Line[Parent(s)])
  BY <1>8
<1>10. \A x \in Stages : Line[x] = f[x]
  <2> DEFINE T == {x \in Stages : Line[x] # f[x]}
  <2>1. SUFFICES ASSUME T # {} PROVE FALSE
    BY Zenon
  <2>2. T \subseteq Nat
    BY <1>1
  <2>3. PICK m \in T : \A k \in T : m <= k
    <3> HIDE DEF T
    <3> QED
      BY <2>1, <2>2, Smallest
  <2>4. m \in Stages /\ Line[m] # f[m]
    BY <2>3
  <2>5. m # Root => Line[Parent(m)] = f[Parent(m)]
    <3> SUFFICES ASSUME m # Root, Parent(m) \in T PROVE FALSE
      BY <1>2, <2>4
    <3>1. Parent(m) < m /\ m <= Parent(m) /\ m \in Nat /\ Parent(m) \in Nat
      BY <1>1, <1>2, <2>3, <2>4
    <3> QED
      BY <3>1
  <2>6. Line[m] = {m} \cup IF m = Root THEN {} ELSE Line[Parent(m)]
    BY <1>8, <2>4
  <2>7. f[m] = {m} \cup IF m = Root THEN {} ELSE f[Parent(m)]
    BY <1>6, <2>4
  <2> QED
    BY <2>4, <2>5, <2>6, <2>7
<1>11. Line[s] \subseteq Stages
  BY <1>5, <1>10
<1>12. s \in Line[s]
  BY <1>9
<1> QED
  BY <1>9, <1>11, <1>12

(* What is on the line of a stage: smaller numbers, and parents with it. *)
LEMMA LineUp ==
  ASSUME task \in Tasks, NEW k \in Stages, NEW a \in Line[k]
  PROVE  a \in Stages /\ a <= k /\ (a # Root => Parent(a) \in Line[k])
<1> DEFINE Good(x) == \A b \in Line[x] : b <= x /\ (b # Root => Parent(b) \in Line[x])
           T == {x \in Stages : ~Good(x)}
<1>1. SUFFICES ASSUME T # {} PROVE FALSE
  <2>1. Line[k] \subseteq Stages /\ Good(k)
    BY <1>1, LineFacts
  <2> QED
    BY <2>1
<1>2. T \subseteq Nat
  BY StageFacts
<1>3. PICK m \in T : \A x \in T : m <= x
  <2> HIDE DEF T
  <2> QED
    BY <1>1, <1>2, Smallest
<1>4. m \in Stages /\ ~Good(m) /\ m \in Nat
  BY <1>3, StageFacts
<1>5. m # Root => Parent(m) \in Stages /\ Parent(m) < m /\ Parent(m) \in Nat /\ Good(Parent(m))
  <2> SUFFICES ASSUME m # Root PROVE Parent(m) \in Stages /\ Parent(m) < m /\ Parent(m) \in Nat /\ Good(Parent(m))
    OBVIOUS
  <2>1. Parent(m) \in Stages /\ Parent(m) < m /\ Parent(m) \in Nat
    BY <1>4, ParentFacts, StageFacts
  <2>2. Parent(m) \notin T
    BY <1>3, <1>4, <2>1
  <2> QED
    BY <2>1, <2>2
<1>6. Line[m] = {m} \cup (IF m = Root THEN {} ELSE Line[Parent(m)])
  BY <1>4, LineFacts
<1>7. ASSUME NEW b \in Line[m] PROVE b <= m /\ (b # Root => Parent(b) \in Line[m])
  <2>1. CASE b = m
    <3>1. m # Root => Parent(m) \in Line[Parent(m)]
      BY <1>5, LineFacts
    <3> QED
      BY <1>4, <1>6, <2>1, <3>1
  <2>2. CASE b # m
    <3>1. m # Root /\ b \in Line[Parent(m)]
      BY <1>6, <2>2
    <3>2. b <= Parent(m) /\ (b # Root => Parent(b) \in Line[Parent(m)])
      BY <1>5, <3>1
    <3>3. b \in Nat
      BY <1>5, <3>1, LineFacts, StageFacts
    <3> QED
      BY <1>4, <1>5, <1>6, <3>1, <3>2, <3>3
  <2> QED
    BY <2>1, <2>2
<1> QED
  BY <1>4, <1>7

(* No stage is under two children of one parent. *)
LEMMA LineKids ==
  ASSUME task \in Tasks, NEW k \in Stages, NEW s \in Stages,
         NEW i \in DOMAIN Kids(s), NEW j \in DOMAIN Kids(s),
         Kids(s)[i] \in Line[k], Kids(s)[j] \in Line[k]
  PROVE  i = j
<1> DEFINE Twice(x) == Kids(s)[i] \in Line[x] /\ Kids(s)[j] \in Line[x]
           T == {x \in Stages : Twice(x)}
           a == Kids(s)[i]
           b == Kids(s)[j]
<1>1. SUFFICES ASSUME i # j PROVE FALSE
  OBVIOUS
<1>2. /\ a \in Stages /\ a > s /\ a # Root /\ Parent(a) = s /\ Pos(s, a) = i
      /\ b \in Stages /\ b > s /\ b # Root /\ Parent(b) = s /\ Pos(s, b) = j
  BY KidFacts
<1>3. a # b
  BY <1>1, <1>2
<1>4. T # {} /\ T \subseteq Nat
  BY StageFacts
<1>5. PICK m \in T : \A x \in T : m <= x
  <2> HIDE DEF T
  <2> QED
    BY <1>4, Smallest
<1> HIDE DEF a, b
<1>6. m \in Stages /\ a \in Line[m] /\ b \in Line[m] /\ m \in Nat /\ s \in Nat /\ a \in Nat /\ b \in Nat
  BY <1>2, <1>5, StageFacts DEF a, b
<1>7. Line[m] = {m} \cup (IF m = Root THEN {} ELSE Line[Parent(m)])
  BY <1>6, LineFacts
<1>8. \A x \in Line[s] : x <= s
  BY LineUp
<1>9. a # m
  <2> SUFFICES ASSUME a = m PROVE FALSE
    OBVIOUS
  <2>1. b \in Line[s]
    BY <1>2, <1>3, <1>6, <1>7
  <2> QED
    BY <1>2, <1>6, <1>8, <2>1
<1>10. b # m
  <2> SUFFICES ASSUME b = m PROVE FALSE
    OBVIOUS
  <2>1. a \in Line[s]
    BY <1>2, <1>3, <1>6, <1>7
  <2> QED
    BY <1>2, <1>6, <1>8, <2>1
<1>11. m # Root /\ a \in Line[Parent(m)] /\ b \in Line[Parent(m)]
  BY <1>6, <1>7, <1>9, <1>10
<1>12. Parent(m) \in Stages /\ Parent(m) < m /\ Parent(m) \in Nat
  BY <1>6, <1>11, ParentFacts, StageFacts
<1>13. Parent(m) \in T
  BY <1>11, <1>12 DEF a, b
<1>14. m <= Parent(m)
  BY <1>5, <1>13
<1> QED
  BY <1>6, <1>12, <1>14

-----------------------------------------------------------------------------
(* Types. *)
Segment == [stage : Stages, from : State, to : State]
Solution == [stage : Stages, start : State, end : State, leaves : Seq(Segment)]
CallFrame == [stage : Stages, at : Nat, ran : BOOLEAN]
Interfaces == [Stages -> Seq(State)]
Typed ==
  /\ task \in Tasks
  /\ startPull \in Interfaces /\ endPull \in Interfaces
  /\ starts \in Interfaces /\ ends \in Interfaces
  /\ fed \in [Stages -> Nat \X Nat]
  /\ emitted \in Seq(Solution) /\ queue \in Seq(Solution)
  /\ current \in [Stages -> Nat] /\ processed \in [Stages -> Nat]
  /\ jobs \in Seq([stage : Stages, from : State])
  /\ stack \in Seq(CallFrame) /\ made \in Nat

LEMMA SolsFacts ==
  ASSUME Typed, NEW s
  PROVE  /\ Sols(s) \in Seq(Solution) /\ Len(Sols(s)) \in Nat
         /\ Sols(s) # <<>> <=> \E x \in DOMAIN emitted : emitted[x].stage = s
<1>1. emitted \in Seq(Solution)
  BY DEF Typed
<1>2. {x \in DOMAIN emitted : emitted[x].stage = s} \subseteq DOMAIN emitted
  OBVIOUS
<1> QED
  BY <1>1, <1>2, PickedFacts DEF Sols

LEMMA AscendingFacts ==
  ASSUME NEW ks \in SUBSET Keys PROVE Ascending(ks) \in Seq(Nat)
<1>1. Keys \subseteq Nat /\ IsFiniteSet(Keys)
  <2>1. Cardinality(Keys) \in Nat
    BY TaskAssumption, FS_CardinalityType
  <2> QED
    BY <2>1, TaskAssumption
<1>2. IsFiniteSet(ks) /\ ks \subseteq Nat
  BY <1>1, FS_Subset
<1>3. Cardinality(ks) \in Nat /\ \A n \in 1 .. Cardinality(ks) : Nth(ks, n) \in ks
  BY <1>2, FS_CardinalityType, NthFacts
<1>4. \A n \in 1 .. Cardinality(ks) : Nth(ks, n) \in Nat
  BY <1>2, <1>3
<1>5. [n \in 1 .. Cardinality(ks) |-> Nth(ks, n)] \in Seq(Nat)
  BY <1>3, <1>4
<1> QED
  BY <1>5 DEF Ascending

(* What a solver call reaches. *)
LEMMA ReachedFacts ==
  ASSUME NEW W, NEW work \in Seq(W), NEW outcome \in [DOMAIN work -> SUBSET Keys], made \in Nat
  PROVE  Reached(work, outcome) \in Seq([from : W, to : State])
<1> DEFINE ks(j) == Ascending(outcome[j])
           one == [j \in DOMAIN work |-> [x \in DOMAIN ks(j) |-> <<work[j], ks(j)[x]>>]]
           pairs == FlattenSeq(one)
<1>1. one \in Seq(Seq(W \X Nat))
  <2>1. ASSUME NEW j \in DOMAIN work PROVE [x \in DOMAIN ks(j) |-> <<work[j], ks(j)[x]>>] \in Seq(W \X Nat)
    <3>1. ks(j) \in Seq(Nat)
      BY AscendingFacts
    <3>2. work[j] \in W
      OBVIOUS
    <3> HIDE DEF ks
    <3>3. Len(ks(j)) \in Nat /\ DOMAIN ks(j) = 1 .. Len(ks(j)) /\ \A x \in 1 .. Len(ks(j)) : ks(j)[x] \in Nat
      BY <3>1
    <3> QED
      BY <3>2, <3>3
  <2>2. Len(work) \in Nat /\ DOMAIN work = 1 .. Len(work)
    OBVIOUS
  <2> HIDE DEF ks
  <2> QED
    BY <2>1, <2>2
<1> HIDE DEF one
<1>2. pairs \in Seq(W \X Nat)
  BY <1>1, FlattenType
<1>3. Reached(work, outcome) =
        [x \in DOMAIN pairs |-> [from |-> pairs[x][1], to |-> [key |-> pairs[x][2], id |-> made + x]]]
  BY DEF Reached, one
<1> HIDE DEF pairs
<1>4. /\ Len(pairs) \in Nat /\ DOMAIN pairs = 1 .. Len(pairs)
      /\ \A x \in 1 .. Len(pairs) : pairs[x][1] \in W /\ pairs[x][2] \in Nat
  BY <1>2
<1>5. \A x \in 1 .. Len(pairs) : [from |-> pairs[x][1], to |-> [key |-> pairs[x][2], id |-> made + x]]
                                   \in [from : W, to : State]
  BY <1>4 DEF State
<1> QED
  BY <1>3, <1>4, <1>5

LEMMA ToStates ==
  ASSUME NEW W, NEW new \in Seq([from : W, to : State])
  PROVE  /\ [x \in DOMAIN new |-> new[x].to] \in Seq(State)
         /\ Len([x \in DOMAIN new |-> new[x].to]) = Len(new)
         /\ Len(new) \in Nat /\ DOMAIN new = 1 .. Len(new)
         /\ \A x \in DOMAIN new : new[x].from \in W /\ new[x].to \in State
<1>1. Len(new) \in Nat /\ DOMAIN new = 1 .. Len(new)
  OBVIOUS
<1>2. \A x \in 1 .. Len(new) : new[x] \in [from : W, to : State]
  BY ElementOfSeq
<1>3. \A x \in 1 .. Len(new) : new[x].from \in W /\ new[x].to \in State
  BY <1>2
<1>4. /\ [x \in 1 .. Len(new) |-> new[x].to] \in Seq(State)
      /\ Len([x \in 1 .. Len(new) |-> new[x].to]) = Len(new)
  BY <1>1, <1>3
<1> QED
  BY <1>1, <1>3, <1>4

LEMMA LeafTyped ==
  ASSUME NEW s \in Stages, NEW a \in State, NEW b \in State
  PROVE  Leaf(s, a, b) \in Solution /\ Attempt(s, a, b) \in Segment
  BY DEF Leaf, Attempt, Solution, Segment

LEMMA MergeType ==
  ASSUME NEW a \in Seq(State), NEW xs \in Seq(State) PROVE Merge(a, xs) \in Seq(State)
  BY MergeFacts

(* What a thread step does to the stack. *)
LEMMA StackFacts ==
  ASSUME Typed, stack # <<>>
  PROVE  /\ Top \in CallFrame /\ Tail(stack) \in Seq(CallFrame)
         /\ \A n \in Nat, ran \in BOOLEAN :
              <<[Top EXCEPT !.at = n, !.ran = ran]>> \o Tail(stack) \in Seq(CallFrame)
         /\ \A k \in Stages, n \in Nat :
              <<Frame(k)>> \o <<[Top EXCEPT !.at = n, !.ran = TRUE]>> \o Tail(stack) \in Seq(CallFrame)
<1>1. stack \in Seq(CallFrame)
  BY DEF Typed
<1>2. Top \in CallFrame /\ Tail(stack) \in Seq(CallFrame)
  BY <1>1, HeadTailProperties DEF Top
<1>3. \A n \in Nat, ran \in BOOLEAN : [Top EXCEPT !.at = n, !.ran = ran] \in CallFrame
  BY <1>2 DEF CallFrame
<1>4. \A k \in Stages : Frame(k) \in CallFrame
  BY DEF CallFrame, Frame
<1>5. \A f \in CallFrame : \A r \in Seq(CallFrame) : <<f>> \o r \in Seq(CallFrame)
  OBVIOUS
<1>6. \A f, g \in CallFrame : \A r \in Seq(CallFrame) : <<f>> \o <<g>> \o r \in Seq(CallFrame)
  OBVIOUS
<1>7. \A n \in Nat, ran \in BOOLEAN :
        <<[Top EXCEPT !.at = n, !.ran = ran]>> \o Tail(stack) \in Seq(CallFrame)
  <2> SUFFICES ASSUME NEW n \in Nat, NEW ran \in BOOLEAN
               PROVE  <<[Top EXCEPT !.at = n, !.ran = ran]>> \o Tail(stack) \in Seq(CallFrame)
    OBVIOUS
  <2> DEFINE f == [Top EXCEPT !.at = n, !.ran = ran]
  <2>1. f \in CallFrame
    BY <1>3
  <2> HIDE DEF f
  <2>2. <<f>> \o Tail(stack) \in Seq(CallFrame)
    BY <1>2, <1>5, <2>1
  <2> QED
    BY <2>2 DEF f
<1>8. \A k \in Stages, n \in Nat :
        <<Frame(k)>> \o <<[Top EXCEPT !.at = n, !.ran = TRUE]>> \o Tail(stack) \in Seq(CallFrame)
  <2> SUFFICES ASSUME NEW k \in Stages, NEW n \in Nat
               PROVE  <<Frame(k)>> \o <<[Top EXCEPT !.at = n, !.ran = TRUE]>> \o Tail(stack)
                        \in Seq(CallFrame)
    OBVIOUS
  <2> DEFINE f == [Top EXCEPT !.at = n, !.ran = TRUE]
  <2>1. f \in CallFrame /\ Frame(k) \in CallFrame
    BY <1>3, <1>4
  <2> HIDE DEF f
  <2>2. <<Frame(k)>> \o <<f>> \o Tail(stack) \in Seq(CallFrame)
    BY <1>2, <1>6, <2>1
  <2> QED
    BY <2>2 DEF f
<1> QED
  BY <1>2, <1>7, <1>8

-----------------------------------------------------------------------------
(* Paths along the links of a chain. *)
LEMMA Images ==
  ASSUME NEW S, IsFiniteSet(S), NEW f, DOMAIN f = S
  PROVE  IsFiniteSet({f[x] : x \in S})
<1> DEFINE T == {f[x] : x \in S}  g == [x \in S |-> f[x]]
<1>1. g \in Surjection(S, T)
  <2>1. g \in [S -> T]
    OBVIOUS
  <2>2. \A t \in T : \E x \in S : g[x] = t
    OBVIOUS
  <2> QED
    BY <2>1, <2>2 DEF Surjection
<1> QED
  BY <1>1, FS_Surjection

(* path leads on from x, each step along a link. *)
Onward(links, D, x, path) ==
  /\ path \in Seq(D)
  /\ \A n \in 1 .. Len(path) : <<IF n = 1 THEN x ELSE path[n - 1], path[n]>> \in links

(* It ends at child `edge` of p. *)
Arrives(p, all, edge, x, path) == Place(p, all, IF path = <<>> THEN x ELSE path[Len(path)]) = edge

(* d leads from d[0] to d[m], each step along a link. *)
Leads(links, d, m) == \A j \in 1 .. m : <<d[j - 1], d[j]>> \in links

LEMMA ArrivesStep ==
  ASSUME NEW D, NEW p, NEW all, NEW edge, NEW y \in D, NEW rest \in Seq(D), NEW x,
         Arrives(p, all, edge, y, rest)
  PROVE  Arrives(p, all, edge, x, <<y>> \o rest)
<1> DEFINE path == <<y>> \o rest
<1>1. /\ path # <<>> /\ Len(path) = Len(rest) + 1 /\ Len(rest) \in Nat /\ path[1] = y
      /\ \A n \in 1 .. Len(rest) : path[n + 1] = rest[n]
      /\ rest = <<>> <=> Len(rest) = 0
  OBVIOUS
<1> HIDE DEF path
<1>2. path[Len(path)] = IF rest = <<>> THEN y ELSE rest[Len(rest)]
  <2>1. CASE rest = <<>>
    BY <1>1, <2>1
  <2>2. CASE rest # <<>>
    <3>1. Len(rest) \in 1 .. Len(rest)
      BY <1>1, <2>2
    <3> QED
      BY <1>1, <2>2, <3>1
  <2> QED
    BY <2>1, <2>2
<1> QED
  BY <1>1, <1>2 DEF Arrives, path

LEMMA OnwardStep ==
  ASSUME NEW D, NEW links \in SUBSET (D \X D), NEW x \in D, NEW y \in D, <<x, y>> \in links,
         NEW rest, Onward(links, D, y, rest)
  PROVE  Onward(links, D, x, <<y>> \o rest)
<1> DEFINE path == <<y>> \o rest
<1>1. rest \in Seq(D) /\ \A n \in 1 .. Len(rest) : <<IF n = 1 THEN y ELSE rest[n - 1], rest[n]>> \in links
  BY DEF Onward
<1>2. /\ path \in Seq(D) /\ Len(path) = Len(rest) + 1 /\ Len(rest) \in Nat /\ path[1] = y
      /\ \A n \in 1 .. Len(rest) : path[n + 1] = rest[n]
  BY <1>1
<1> HIDE DEF path
<1>3. ASSUME NEW n \in 1 .. Len(path) PROVE <<IF n = 1 THEN x ELSE path[n - 1], path[n]>> \in links
  <2>1. CASE n = 1
    BY <1>2, <2>1
  <2>2. CASE n # 1
    <3>1. n - 1 \in 1 .. Len(rest) /\ path[n] = rest[n - 1]
      BY <1>2, <2>2
    <3>2. <<IF n - 1 = 1 THEN y ELSE rest[(n - 1) - 1], rest[n - 1]>> \in links
      BY <1>1, <3>1
    <3>3. path[n - 1] = IF n - 1 = 1 THEN y ELSE rest[(n - 1) - 1]
      <4>1. CASE n - 1 = 1
        BY <1>2, <4>1
      <4>2. CASE n - 1 # 1
        <5>1. (n - 1) - 1 \in 1 .. Len(rest) /\ ((n - 1) - 1) + 1 = n - 1
          BY <1>2, <2>2, <4>2
        <5> QED
          BY <1>2, <4>2, <5>1
      <4> QED
        BY <4>1, <4>2
    <3> QED
      BY <2>2, <3>1, <3>2, <3>3
  <2> QED
    BY <2>1, <2>2
<1> QED
  BY <1>2, <1>3 DEF Onward, path

Prefixed(L, f) == UNION {{<<l[2]>> \o rest : rest \in f[l[2]]} : l \in L}
Extends(L, f, z) == \E l \in L : \E rest \in f[l[2]] : z = <<l[2]>> \o rest
LEMMA PrefixedMember ==
  ASSUME NEW L, NEW f, NEW z PROVE z \in Prefixed(L, f) <=> Extends(L, f, z)
<1> DEFINE one(l) == {<<l[2]>> \o rest : rest \in f[l[2]]}
<1>1. \A l \in L : z \in one(l) <=> \E rest \in f[l[2]] : z = <<l[2]>> \o rest
  OBVIOUS
<1>2. Prefixed(L, f) = UNION {one(l) : l \in L}
  BY DEF Prefixed
<1> HIDE DEF one
<1>3. z \in UNION {one(l) : l \in L} <=> \E l \in L : z \in one(l)
  OBVIOUS
<1> QED
  BY <1>1, <1>2, <1>3 DEF Extends

LEMMA PrefixedSame ==
  ASSUME NEW L, NEW f, NEW g, \A l \in L : g[l[2]] = f[l[2]]
  PROVE  Prefixed(L, g) = Prefixed(L, f)
<1>1. ASSUME NEW z PROVE z \in Prefixed(L, g) <=> z \in Prefixed(L, f)
  <2>1. Extends(L, g, z) <=> Extends(L, f, z)
    BY DEF Extends
  <2> QED
    BY <2>1, PrefixedMember
<1> QED
  BY <1>1

(* _traces finds finitely many paths, along links. *)
LEMMA TracesFacts ==
  ASSUME NEW p, NEW all, NEW N, N = DOMAIN all, NEW links \in SUBSET (N \X N), IsFiniteSet(links),
         NEW edge, NEW bound \in Nat, NEW rank \in [N -> 0 .. bound],
         \A l \in links : rank[l[2]] < rank[l[1]], Len(all) \in N
  PROVE  /\ IsFiniteSet(Traces(p, all, links, edge))
         /\ \A path \in Traces(p, all, links, edge) :
              Onward(links, N, Len(all), path) /\ Arrives(p, all, edge, Len(all), path)
         /\ \A m \in Nat : \A d \in [0 .. m -> N] :
              d[0] = Len(all) /\ Leads(links, d, m) /\ Place(p, all, d[m]) = edge =>
                Traces(p, all, links, edge) # {}
<1> DEFINE V == {P \in SUBSET Seq(N) : IsFiniteSet(P)}
           out(x) == {l \in links : l[1] = x}
           succ == [x \in N |-> {l[2] : l \in out(x)}]
           On(x, g) == IF Place(p, all, x) = edge THEN {<<>>}
                       ELSE Prefixed(out(x), g)
           step == [x \in N |-> [g \in [succ[x] -> V] |-> On(x, g)]]
<1>11. \A l \in links : l = <<l[1], l[2]>> /\ l[1] \in N /\ l[2] \in N
  <2>1. \A l \in links : l \in N \X N
    OBVIOUS
  <2>2. \A l \in N \X N : l = <<l[1], l[2]>> /\ l[1] \in N /\ l[2] \in N
    OBVIOUS
  <2> QED
    BY <2>1, <2>2
<1>1. ASSUME NEW x \in N, NEW l \in out(x)
      PROVE  l \in links /\ l[2] \in N /\ l[2] \in succ[x] /\ <<x, l[2]>> \in links
  <2>1. l \in links /\ l[1] = x
    OBVIOUS
  <2> QED
    BY <1>11, <2>1
<1>12. \A x \in N : \A y \in succ[x] : y \in N /\ rank[y] < rank[x]
  <2> SUFFICES ASSUME NEW x \in N, NEW l \in out(x) PROVE l[2] \in N /\ rank[l[2]] < rank[x]
    OBVIOUS
  <2>1. l \in links /\ l[1] = x
    OBVIOUS
  <2> QED
    BY <1>11, <2>1
<1>2. succ \in [N -> SUBSET N] /\ \A x \in N : \A y \in succ[x] : rank[y] < rank[x]
  BY <1>12
<1> HIDE DEF succ
<1>3. ASSUME NEW x \in N, NEW g \in [succ[x] -> V] PROVE On(x, g) \in V
  <2>1. CASE Place(p, all, x) = edge
    <3>1. <<>> \in Seq(N) /\ IsFiniteSet({<<>>})
      BY FS_Singleton, EmptySeq
    <3> QED
      BY <2>1, <3>1
  <2>2. CASE Place(p, all, x) # edge
    <3> DEFINE one(l) == {<<l[2]>> \o rest : rest \in g[l[2]]}
               many == {one(l) : l \in out(x)}
    <3>1. ASSUME NEW l \in out(x) PROVE IsFiniteSet(one(l)) /\ one(l) \subseteq Seq(N)
      <4>1. g[l[2]] \in V /\ l[2] \in N
        BY <1>1
      <4> DEFINE f == [rest \in g[l[2]] |-> <<l[2]>> \o rest]
      <4>2. DOMAIN f = g[l[2]] /\ IsFiniteSet(g[l[2]])
        BY <4>1
      <4>3. {f[rest] : rest \in g[l[2]]} = one(l)
        OBVIOUS
      <4> HIDE DEF f
      <4> DEFINE w == g[l[2]]
      <4>8. DOMAIN f = w /\ IsFiniteSet(w)
        BY <4>2
      <4> HIDE DEF w
      <4>7. IsFiniteSet({f[rest] : rest \in w})
        BY <4>8, Images
      <4> USE DEF w
      <4>4. IsFiniteSet(one(l))
        BY <4>3, <4>7
      <4>5. \A rest \in g[l[2]] : rest \in Seq(N)
        BY <4>1
      <4>6. \A rest \in g[l[2]] : <<l[2]>> \o rest \in Seq(N)
        BY <4>1, <4>5
      <4> QED
        BY <4>4, <4>6
    <3>2. IsFiniteSet(out(x))
      BY FS_Subset
    <3>3. IsFiniteSet(many)
      <4> DEFINE h == [l \in out(x) |-> one(l)]
      <4>1. {h[l] : l \in out(x)} = many /\ DOMAIN h = out(x)
        OBVIOUS
      <4> HIDE DEF h, many, out
      <4>2. IsFiniteSet({h[l] : l \in out(x)})
        BY <3>2, <4>1, Images
      <4> QED
        BY <4>1, <4>2
    <3>4. \A S \in many : IsFiniteSet(S) /\ S \subseteq Seq(N)
      BY <3>1
    <3> HIDE DEF many
    <3>5. IsFiniteSet(UNION many) /\ UNION many \in SUBSET Seq(N)
      BY <3>3, <3>4, FS_UNION
    <3> QED
      BY <2>2, <3>5 DEF many, Prefixed
  <2> QED
    BY <2>1, <2>2
<1>4. \A x \in N : step[x] \in [[succ[x] -> V] -> V]
  <2> HIDE DEF V, On
  <2> QED
    BY <1>3
<1>5. PICK f \in [N -> V] : Follows(f, N, succ, step)
  <2> HIDE DEF V, step
  <2> QED
    BY <1>2, <1>4, RecursionExists
<1>6. ASSUME NEW x \in N PROVE f[x] = On(x, f)
  <2> DEFINE g == [y \in succ[x] |-> f[y]]
  <2>1. g \in [succ[x] -> V]
    BY <1>2
  <2>2. f[x] = step[x][g]
    BY <1>5 DEF Follows
  <2>3. step[x][g] = On(x, g)
    <3> HIDE DEF g, On, V
    <3> QED
      BY <2>1
  <2>4. \A l \in out(x) : g[l[2]] = f[l[2]]
    BY <1>1
  <2> HIDE DEF g
  <2>5. On(x, g) = On(x, f)
    BY <2>4, PrefixedSame
  <2> QED
    BY <2>2, <2>3, <2>5
<1> DEFINE paths == CHOOSE h : h = [x \in N |-> On(x, h)]
<1>7. f = [x \in N |-> On(x, f)]
  <2>1. f = [x \in N |-> f[x]]
    OBVIOUS
  <2> HIDE DEF On
  <2> QED
    BY <1>6, <2>1
<1>8. paths = [x \in N |-> On(x, paths)]
  <2> HIDE DEF On
  <2> QED
    BY <1>7, Zenon
<1>9. Traces(p, all, links, edge) = paths[Len(all)]
  BY Zenon DEF Traces, Prefixed
<1> HIDE DEF paths
<1>10. ASSUME NEW x \in N
       PROVE  /\ IsFiniteSet(paths[x])
              /\ \A path \in paths[x] : Onward(links, N, x, path) /\ Arrives(p, all, edge, x, path)
  <2> DEFINE Good(y) == /\ paths[y] = f[y]
                        /\ \A path \in paths[y] : Onward(links, N, y, path) /\ Arrives(p, all, edge, y, path)
             T == {rank[y] : y \in {z \in N : ~Good(z)}}
  <2>1. SUFFICES ASSUME T # {} PROVE FALSE
    <3>1. Good(x)
      BY <2>1
    <3> QED
      BY <3>1
  <2>2. T \subseteq Nat
    OBVIOUS
  <2>3. PICK m \in T : \A k \in T : m <= k
    <3> HIDE DEF T
    <3> QED
      BY <2>1, <2>2, Smallest
  <2>4. PICK y \in N : ~Good(y) /\ rank[y] = m
    OBVIOUS
  <2>5. \A z \in N : rank[z] < rank[y] => Good(z)
    <3> SUFFICES ASSUME NEW z \in N, rank[z] < rank[y], ~Good(z) PROVE FALSE
      OBVIOUS
    <3>1. rank[z] \in T /\ rank[z] \in Nat /\ rank[y] \in Nat
      OBVIOUS
    <3>2. m <= rank[z]
      BY <2>3, <3>1
    <3> QED
      BY <2>4, <3>1, <3>2
  <2>6. \A l \in out(y) : Good(l[2])
    BY <1>1, <2>5
  <2>7. paths[y] = On(y, paths)
    <3> HIDE DEF On
    <3> QED
      BY <1>8
  <2>8. On(y, paths) = On(y, f)
    <3>1. \A l \in out(y) : paths[l[2]] = f[l[2]]
      BY <2>6
    <3> QED
      BY <3>1, PrefixedSame
  <2>9. paths[y] = f[y]
    BY <1>6, <2>7, <2>8
  <2>10. ASSUME NEW path \in paths[y] PROVE Onward(links, N, y, path) /\ Arrives(p, all, edge, y, path)
    <3>1. CASE Place(p, all, y) = edge
      <4>1. path = <<>>
        BY <2>7, <3>1
      <4> QED
        BY <3>1, <4>1 DEF Onward, Arrives
    <3>2. CASE Place(p, all, y) # edge
      <4>0. path \in Prefixed(out(y), paths)
        BY <2>7, <3>2
      <4>5. Extends(out(y), paths, path)
        <5> HIDE DEF out, On
        <5> QED
          BY <4>0, PrefixedMember
      <4>1. PICK l \in out(y) : \E rest \in paths[l[2]] : path = <<l[2]>> \o rest
        BY <4>5, Zenon DEF Extends
      <4>2. PICK rest \in paths[l[2]] : path = <<l[2]>> \o rest
        BY <4>1
      <4>3. Onward(links, N, l[2], rest) /\ Arrives(p, all, edge, l[2], rest)
        BY <2>6
      <4>4. l[2] \in N /\ <<y, l[2]>> \in links
        BY <1>1
      <4>6. rest \in Seq(N)
        BY <4>3 DEF Onward
      <4>7. Onward(links, N, y, path)
        BY <4>2, <4>3, <4>4, OnwardStep
      <4>8. Arrives(p, all, edge, y, path)
        BY <4>2, <4>3, <4>4, <4>6, ArrivesStep
      <4> QED
        BY <4>7, <4>8
    <3> QED
      BY <3>1, <3>2
  <2> HIDE DEF On
  <2> QED
    BY <2>4, <2>9, <2>10
<1>13. ASSUME NEW m \in Nat, NEW d \in [0 .. m -> N], Leads(links, d, m), Place(p, all, d[m]) = edge
       PROVE  paths[d[0]] # {}
  <2> DEFINE T == {k \in 0 .. m : paths[d[m - k]] = {}}
  <2>1. \A x \in N : paths[x] = On(x, paths)
    <3> HIDE DEF On
    <3> QED
      BY <1>8
  <2>2. SUFFICES ASSUME T # {} PROVE FALSE
    <3>1. m \in 0 .. m /\ m - m = 0
      OBVIOUS
    <3>2. T = {} => paths[d[m - m]] # {}
      BY <3>1
    <3> QED
      BY <2>2, <3>1, <3>2
  <2>3. T \subseteq Nat
    OBVIOUS
  <2>4. PICK k \in T : \A j \in T : k <= j
    <3> HIDE DEF T
    <3> QED
      BY <2>2, <2>3, Smallest
  <2>5. k \in 0 .. m /\ paths[d[m - k]] = {}
    BY <2>4
  <2>6. k # 0
    <3>1. d[m] \in N /\ m - 0 = m
      OBVIOUS
    <3>2. paths[d[m]] = {<<>>}
      BY <1>13, <2>1, <3>1
    <3> QED
      BY <2>5, <3>1, <3>2
  <2> DEFINE x == d[m - k]  y == d[m - (k - 1)]
  <2>7. k - 1 \in 0 .. m /\ ~(k <= k - 1)
    BY <2>5, <2>6
  <2>8. paths[y] # {}
    BY <2>4, <2>7
  <2>9. x \in N /\ y \in N /\ <<x, y>> \in links
    <3>1. m - k \in 0 .. m /\ m - (k - 1) \in 1 .. m /\ (m - (k - 1)) - 1 = m - k
      BY <2>5, <2>6
    <3> QED
      BY <1>13, <3>1 DEF Leads
  <2>10. paths[x] = {} /\ paths[x] = On(x, paths)
    BY <2>1, <2>5, <2>9
  <2> HIDE DEF x, y, T
  <2>11. PICK rest : rest \in paths[y]
    BY <2>8
  <2> DEFINE L == out(x)
  <2>12. <<x, y>> \in L /\ <<x, y>>[2] = y
    BY <2>9
  <2> HIDE DEF L
  <2>13. Extends(L, paths, <<y>> \o rest)
    BY <2>11, <2>12 DEF Extends
  <2>14. <<y>> \o rest \in Prefixed(L, paths)
    BY <2>13, PrefixedMember
  <2> QED
    BY <2>10, <2>14 DEF L
<1> QED
  BY <1>9, <1>10, <1>13

-----------------------------------------------------------------------------
(* A serial container lifts chains of its children's solutions. *)
Flipped(links) == {<<l[2], l[1]>> : l \in links}
Chain(p, all, at) ==
  /\ at \in Seq(DOMAIN all) /\ Len(at) > 0
  /\ \A n \in 1 .. Len(at) : all[at[n]].stage \in ToSet(Kids(p))
  /\ \A n \in 1 .. Len(at) - 1 : <<at[n], at[n + 1]>> \in Links(p, all)
  /\ Place(p, all, at[1]) = 1 /\ Place(p, all, at[Len(at)]) = Len(Kids(p))

(* Solutions of all the children of p, each where the one before it ended. *)
Along(all, p, c) ==
  /\ c \in [DOMAIN Kids(p) -> DOMAIN all]
  /\ \A i \in DOMAIN Kids(p) : all[c[i]].stage = Kids(p)[i]
  /\ \A i \in DOMAIN Kids(p) : i > 1 => all[c[i - 1]].end = all[c[i]].start

Follow(c, a, b) ==
  /\ Len(c) = Len(a) + Len(b)
  /\ \A i \in 1 .. Len(a) : c[i] = a[i]
  /\ \A i \in 1 .. Len(b) : c[Len(a) + i] = b[i]
LEMMA ConcatFacts ==
  ASSUME NEW X, NEW a \in Seq(X), NEW b \in Seq(X)
  PROVE  a \o b \in Seq(X) /\ Follow(a \o b, a, b)
<1>1. /\ a \o b \in Seq(X) /\ Len(a \o b) = Len(a) + Len(b) /\ Len(a) \in Nat /\ Len(b) \in Nat
      /\ \A i \in 1 .. Len(a) + Len(b) : (a \o b)[i] = IF i <= Len(a) THEN a[i] ELSE b[i - Len(a)]
  BY ConcatProperties
<1>2. ASSUME NEW i \in 1 .. Len(a) PROVE (a \o b)[i] = a[i]
  BY <1>1
<1>3. ASSUME NEW i \in 1 .. Len(b) PROVE (a \o b)[Len(a) + i] = b[i]
  <2>1. Len(a) + i \in 1 .. Len(a) + Len(b) /\ ~(Len(a) + i <= Len(a)) /\ (Len(a) + i) - Len(a) = i
    BY <1>1
  <2> QED
    BY <1>1, <2>1
<1> QED
  BY <1>1, <1>2, <1>3 DEF Follow

LEMMA LinksFacts ==
  ASSUME task \in Tasks, NEW p \in Stages, NEW all \in Seq(Solution), NEW D, D = DOMAIN all,
         NEW links, links = Links(p, all)
  PROVE  /\ links \in SUBSET (D \X D) /\ IsFiniteSet(links)
         /\ \A l \in links :
              /\ l = <<l[1], l[2]>> /\ l[1] \in D /\ l[2] \in D
              /\ all[l[1]].stage \in ToSet(Kids(p)) /\ all[l[2]].stage \in ToSet(Kids(p))
              /\ all[l[1]].end = all[l[2]].start
              /\ Place(p, all, l[1]) < Place(p, all, l[2])
         /\ \A x \in D : Place(p, all, x) \in 0 .. Len(Kids(p))
<1> DEFINE children == {x \in D : all[x].stage \in ToSet(Kids(p))}
<1>1. links = {link \in children \X children :
                         /\ all[link[1]].end = all[link[2]].start
                         /\ Place(p, all, link[1]) < Place(p, all, link[2])}
  BY DEF Links
<1>2. \A l \in children \X children :
        /\ l = <<l[1], l[2]>> /\ l[1] \in D /\ l[2] \in D
        /\ all[l[1]].stage \in ToSet(Kids(p)) /\ all[l[2]].stage \in ToSet(Kids(p))
  OBVIOUS
<1>3. IsFiniteSet(D)
  <2>1. D = 1 .. Len(all) /\ Len(all) \in Nat
    OBVIOUS
  <2> QED
    BY <2>1, FS_Interval
<1>4. \A l \in children \X children : l \in D \X D
  BY <1>2
<1> HIDE DEF children
<1>5. links \in SUBSET (D \X D)
  BY <1>1, <1>4
<1>6. IsFiniteSet(links)
  <2>1. IsFiniteSet(D \X D)
    BY <1>3, FS_Product
  <2> QED
    BY <1>5, <2>1, FS_Subset
<1>7. \A x \in D : Place(p, all, x) \in 0 .. Len(Kids(p))
  BY PosFacts DEF Place
<1>8. \A l \in links : l \in children \X children
  BY <1>1
<1>9. \A l \in links :
        /\ l = <<l[1], l[2]>> /\ l[1] \in D /\ l[2] \in D
        /\ all[l[1]].stage \in ToSet(Kids(p)) /\ all[l[2]].stage \in ToSet(Kids(p))
  BY <1>2, <1>8
<1>10. \A l \in links : all[l[1]].end = all[l[2]].start /\ Place(p, all, l[1]) < Place(p, all, l[2])
  BY <1>1
<1> QED
  BY <1>5, <1>6, <1>7, <1>9, <1>10

(* Both ways from the newest solution. *)
LEMMA ChainsFound ==
  ASSUME task \in Tasks, NEW all \in Seq(Solution), all # <<>>,
         Last(all).stage # Root, NEW p \in Stages, p = Parent(Last(all).stage)
  PROVE  LET links == Links(p, all)
             paths == Traces(p, all, {<<l[2], l[1]>> : l \in links}, 1) \X Traces(p, all, links, Len(Kids(p)))
         IN  /\ IsFiniteSet(paths)
             /\ \A path \in paths : Chain(p, all, Reverse(path[1]) \o <<Len(all)>> \o path[2])
             /\ \A c : \A i \in DOMAIN Kids(p) : Along(all, p, c) /\ c[i] = Len(all) => paths # {}
<1> DEFINE D == DOMAIN all
           n == Len(Kids(p))
           links == Links(p, all)
           back == Flipped(links)
           up == [x \in D |-> n - Place(p, all, x)]
           down == [x \in D |-> Place(p, all, x)]
           before == Traces(p, all, back, 1)
           after == Traces(p, all, links, n)
<1>1. n \in Nat /\ D = 1 .. Len(all) /\ Len(all) \in D /\ Len(all) \in Nat
  BY StageFacts
<1>2. /\ links \in SUBSET (D \X D) /\ IsFiniteSet(links)
      /\ \A l \in links : /\ l = <<l[1], l[2]>> /\ l[1] \in D /\ l[2] \in D
                          /\ all[l[1]].stage \in ToSet(Kids(p)) /\ all[l[2]].stage \in ToSet(Kids(p))
                          /\ Place(p, all, l[1]) < Place(p, all, l[2])
      /\ \A x \in D : Place(p, all, x) \in 0 .. n
  <2>1. D = DOMAIN all /\ links = Links(p, all) /\ n = Len(Kids(p))
    OBVIOUS
  <2> HIDE DEF D, links, n
  <2> QED
    BY <2>1, LinksFacts
<1> HIDE DEF links, n, D
<1>3. /\ back \in SUBSET (D \X D) /\ IsFiniteSet(back)
      /\ \A l \in back : <<l[2], l[1]>> \in links /\ l[1] \in D /\ l[2] \in D
  <2> DEFINE f == [l \in links |-> <<l[2], l[1]>>]
  <2>1. {f[l] : l \in links} = back /\ DOMAIN f = links
    BY DEF Flipped
  <2> HIDE DEF f
  <2>2. IsFiniteSet({f[l] : l \in links})
    BY <1>2, <2>1, Images
  <2>3. ASSUME NEW l \in back PROVE l \in D \X D /\ <<l[2], l[1]>> \in links /\ l[1] \in D /\ l[2] \in D
    <3>1. PICK k \in links : l = <<k[2], k[1]>>
      BY DEF Flipped
    <3>2. k = <<k[1], k[2]>> /\ k[1] \in D /\ k[2] \in D
      BY <1>2
    <3>3. l[1] = k[2] /\ l[2] = k[1]
      BY <3>1
    <3> QED
      BY <3>1, <3>2, <3>3
  <2> HIDE DEF back
  <2> QED
    BY <2>1, <2>2, <2>3
<1>4. /\ IsFiniteSet(after)
      /\ \A path \in after : Onward(links, D, Len(all), path) /\ Arrives(p, all, n, Len(all), path)
      /\ \A m \in Nat : \A d \in [0 .. m -> D] :
           d[0] = Len(all) /\ Leads(links, d, m) /\ Place(p, all, d[m]) = n => after # {}
  <2>1. up \in [D -> 0 .. n] /\ \A l \in links : up[l[2]] < up[l[1]]
    <3>1. \A x \in D : n - Place(p, all, x) \in 0 .. n
      BY <1>1, <1>2
    <3>2. ASSUME NEW l \in links PROVE up[l[2]] < up[l[1]]
      <4>1. up[l[2]] = n - Place(p, all, l[2]) /\ up[l[1]] = n - Place(p, all, l[1])
        BY <1>2
      <4> QED
        BY <1>1, <1>2, <4>1
    <3> QED
      BY <3>1, <3>2
  <2>2. D = DOMAIN all
    BY DEF D
  <2> HIDE DEF up
  <2> QED
    BY <1>1, <1>2, <2>1, <2>2, TracesFacts
<1>5. /\ IsFiniteSet(before)
      /\ \A path \in before : Onward(back, D, Len(all), path) /\ Arrives(p, all, 1, Len(all), path)
      /\ \A m \in Nat : \A d \in [0 .. m -> D] :
           d[0] = Len(all) /\ Leads(back, d, m) /\ Place(p, all, d[m]) = 1 => before # {}
  <2>1. down \in [D -> 0 .. n] /\ \A l \in back : down[l[2]] < down[l[1]]
    <3>1. ASSUME NEW l \in back PROVE down[l[2]] < down[l[1]]
      <4>1. <<l[2], l[1]>> \in links /\ l[1] \in D /\ l[2] \in D
        BY <1>3
      <4>2. Place(p, all, <<l[2], l[1]>>[1]) < Place(p, all, <<l[2], l[1]>>[2])
        BY <1>2, <4>1
      <4> QED
        BY <4>1, <4>2
    <3> QED
      BY <1>2, <3>1
  <2>2. D = DOMAIN all
    BY DEF D
  <2> HIDE DEF down, back
  <2> QED
    BY <1>1, <1>3, <2>1, <2>2, TracesFacts
<1>6. all[Len(all)].stage \in ToSet(Kids(p))
  <2>1. all[Len(all)].stage \in Stages
    <3>1. all[Len(all)] \in Solution
      BY <1>1, ElementOfSeq DEF D
    <3> QED
      BY <3>1 DEF Solution
  <2>2. \E i \in DOMAIN Kids(p) : Kids(p)[i] = all[Len(all)].stage
    BY <2>1, ParentFacts DEF Last
  <2> QED
    BY <2>2 DEF ToSet
<1>7. ASSUME NEW b \in before, NEW a \in after
      PROVE  Chain(p, all, Reverse(b) \o <<Len(all)>> \o a)
  <2> DEFINE at == Reverse(b) \o <<Len(all)>> \o a
             nb == Len(b)
  <2>1. b \in Seq(D) /\ \A i \in 1 .. Len(b) : <<IF i = 1 THEN Len(all) ELSE b[i - 1], b[i]>> \in back
    BY <1>5 DEF Onward
  <2>2. a \in Seq(D) /\ \A i \in 1 .. Len(a) : <<IF i = 1 THEN Len(all) ELSE a[i - 1], a[i]>> \in links
    BY <1>4 DEF Onward
  <2>3. nb \in Nat /\ Len(a) \in Nat
    BY <2>1, <2>2
  <2>4. Reverse(b) \in Seq(D) /\ Len(Reverse(b)) = nb /\ \A i \in 1 .. nb : Reverse(b)[i] = b[(nb - i) + 1]
    BY <2>1, <2>3 DEF Reverse
  <2>5. /\ at \in Seq(D) /\ Len(at) = nb + 1 + Len(a)
        /\ \A i \in 1 .. nb : at[i] = b[(nb - i) + 1]
        /\ at[nb + 1] = Len(all)
        /\ \A i \in 1 .. Len(a) : at[nb + 1 + i] = a[i]
    <3> DEFINE r == Reverse(b)  m == <<Len(all)>>
    <3>1. m \in Seq(D) /\ Len(m) = 1 /\ m[1] = Len(all)
      BY <1>1
    <3> HIDE DEF r, m
    <3>6. r \in Seq(D) /\ a \in Seq(D) /\ Len(r) = nb /\ \A i \in 1 .. nb : r[i] = b[(nb - i) + 1]
      BY <2>2, <2>4 DEF r
    <3> HIDE DEF nb
    <3> DEFINE c == r \o m  w == c \o a
    <3>7. c \in Seq(D) /\ Follow(c, r, m)
      BY <3>1, <3>6, ConcatFacts
    <3> HIDE DEF c
    <3>2. 1 \in 1 .. Len(m) /\ nb + 1 = Len(r) + 1
      BY <3>1, <3>6
    <3>8. Len(c) = nb + 1 /\ (\A i \in 1 .. nb : c[i] = r[i]) /\ c[nb + 1] = Len(all)
      BY <3>1, <3>2, <3>6, <3>7 DEF Follow
    <3>10. w \in Seq(D) /\ Follow(w, c, a)
      BY <3>6, <3>7, ConcatFacts
    <3>4. at = w
      BY DEF r, m, c
    <3> HIDE DEF at, w
    <3>3. /\ w \in Seq(D) /\ Len(w) = nb + 1 + Len(a)
          /\ \A i \in 1 .. nb + 1 : w[i] = c[i]
          /\ \A i \in 1 .. Len(a) : w[nb + 1 + i] = a[i]
      BY <3>8, <3>10 DEF Follow
    <3>5. \A i \in 1 .. nb : i \in 1 .. nb + 1
      BY <2>3
    <3>9. nb + 1 \in 1 .. nb + 1
      BY <2>3
    <3> QED
      BY <3>3, <3>4, <3>5, <3>6, <3>8, <3>9
  <2> HIDE DEF at, nb
  <2>6. ASSUME NEW i \in 1 .. Len(at) - 1 PROVE <<at[i], at[i + 1]>> \in links
    <3>1. i \in Nat /\ i <= nb + Len(a)
      BY <2>3, <2>5
    <3>2. CASE i <= nb
      <4>1. (nb - i) + 1 \in 1 .. nb /\ at[i] = b[(nb - i) + 1]
        BY <2>3, <2>5, <3>1, <3>2
      <4>2. at[i + 1] = IF (nb - i) + 1 = 1 THEN Len(all) ELSE b[((nb - i) + 1) - 1]
        <5>1. CASE i = nb
          BY <2>3, <2>5, <5>1
        <5>2. CASE i # nb
          <6>1. i + 1 \in 1 .. nb /\ (nb - (i + 1)) + 1 = ((nb - i) + 1) - 1 /\ (nb - i) + 1 # 1
            BY <2>3, <3>1, <3>2, <5>2
          <6> QED
            BY <2>5, <6>1
        <5> QED
          BY <5>1, <5>2
      <4>3. <<at[i + 1], at[i]>> \in back
        BY <2>1, <4>1, <4>2 DEF nb
      <4>4. <<at[i + 1], at[i]>>[1] = at[i + 1] /\ <<at[i + 1], at[i]>>[2] = at[i]
        OBVIOUS
      <4> QED
        BY <1>3, <4>3, <4>4
    <3>3. CASE i > nb
      <4> DEFINE k == i - nb
      <4>1. k \in 1 .. Len(a) /\ i + 1 = nb + 1 + k /\ i = nb + k
        BY <2>3, <2>5, <3>1, <3>3
      <4> HIDE DEF k
      <4>2. at[i + 1] = a[k]
        BY <2>5, <4>1
      <4>3. at[i] = IF k = 1 THEN Len(all) ELSE a[k - 1]
        <5>1. CASE k = 1
          BY <2>5, <4>1, <5>1
        <5>2. CASE k # 1
          <6>1. k - 1 \in 1 .. Len(a) /\ i = nb + 1 + (k - 1)
            BY <2>3, <4>1, <5>2
          <6> QED
            BY <2>5, <5>2, <6>1
        <5> QED
          BY <5>1, <5>2
      <4> QED
        BY <2>2, <4>1, <4>2, <4>3
    <3> QED
      BY <2>3, <3>1, <3>2, <3>3
  <2>7. ASSUME NEW i \in 1 .. Len(at) PROVE all[at[i]].stage \in ToSet(Kids(p))
    <3>1. CASE i < Len(at)
      <4>1. i \in 1 .. Len(at) - 1
        BY <2>3, <2>5, <3>1
      <4>2. <<at[i], at[i + 1]>> \in links /\ <<at[i], at[i + 1]>>[1] = at[i]
        BY <2>6, <4>1
      <4> QED
        BY <1>2, <4>2
    <3>2. CASE i = Len(at) /\ i > 1
      <4>1. i - 1 \in 1 .. Len(at) - 1 /\ (i - 1) + 1 = i
        BY <2>3, <2>5, <3>2
      <4>2. <<at[i - 1], at[i]>> \in links /\ <<at[i - 1], at[i]>>[2] = at[i]
        BY <2>6, <4>1
      <4> QED
        BY <1>2, <4>2
    <3>3. CASE i = Len(at) /\ i = 1
      <4>1. nb = 0 /\ at[i] = Len(all)
        BY <2>3, <2>5, <3>3
      <4> QED
        BY <1>6, <4>1
    <3> QED
      BY <2>3, <2>5, <3>1, <3>2, <3>3
  <2>8. Len(at) > 0
    BY <2>3, <2>5
  <2>9. Place(p, all, at[1]) = 1
    <3>1. at[1] = IF b = <<>> THEN Len(all) ELSE b[Len(b)]
      <4>1. CASE nb = 0
        <5>1. b = <<>> /\ nb + 1 = 1
          BY <2>1, <4>1 DEF nb
        <5> QED
          BY <2>5, <5>1
      <4>2. CASE nb # 0
        <5>1. b # <<>> /\ nb = Len(b)
          BY <2>1, <4>2 DEF nb
        <5>2. 1 \in 1 .. nb /\ (nb - 1) + 1 = nb
          BY <2>3, <4>2
        <5> QED
          BY <2>5, <5>1, <5>2
      <4> QED
        BY <4>1, <4>2
    <3>2. Arrives(p, all, 1, Len(all), b)
      BY <1>5
    <3> QED
      BY <3>1, <3>2 DEF Arrives
  <2>10. Place(p, all, at[Len(at)]) = n
    <3>1. at[Len(at)] = IF a = <<>> THEN Len(all) ELSE a[Len(a)]
      <4>1. CASE a = <<>>
        <5>1. Len(at) = nb + 1
          BY <2>3, <2>5, <4>1
        <5> QED
          BY <2>5, <4>1, <5>1
      <4>2. CASE a # <<>>
        <5>1. Len(a) \in 1 .. Len(a)
          BY <2>2, <2>3, <4>2
        <5> QED
          BY <2>5, <4>2, <5>1
      <4> QED
        BY <4>1, <4>2
    <3>2. Arrives(p, all, n, Len(all), a)
      BY <1>4
    <3> QED
      BY <3>1, <3>2 DEF Arrives
  <2> QED
    BY <2>5, <2>6, <2>7, <2>8, <2>9, <2>10 DEF Chain, links, D, at, n
<1>8. IsFiniteSet(before \X after)
  BY <1>4, <1>5, FS_Product
<1>9. \A path \in before \X after : path[1] \in before /\ path[2] \in after
  OBVIOUS
<1> HIDE DEF before, after
<1>10. \A path \in before \X after : Chain(p, all, Reverse(path[1]) \o <<Len(all)>> \o path[2])
  BY <1>7, <1>9
<1>11. ASSUME NEW c, NEW i \in DOMAIN Kids(p), Along(all, p, c), c[i] = Len(all)
       PROVE  before # {} /\ after # {}
  <2>1. i \in 1 .. n /\ DOMAIN Kids(p) = 1 .. n
    BY StageFacts DEF n
  <2>2. ASSUME NEW j \in 1 .. n PROVE c[j] \in D /\ Place(p, all, c[j]) = j /\ all[c[j]].stage \in ToSet(Kids(p))
    <3>1. c[j] \in D /\ all[c[j]].stage = Kids(p)[j] /\ j \in DOMAIN Kids(p)
      BY <1>11, <2>1 DEF Along, D
    <3> QED
      BY <3>1, KidFacts DEF Place, ToSet
  <2>3. ASSUME NEW j \in 1 .. n, j > 1 PROVE <<c[j - 1], c[j]>> \in links
    <3>1. j - 1 \in 1 .. n /\ j - 1 < j /\ j \in DOMAIN Kids(p)
      BY <1>1, <2>1, <2>3
    <3>2. all[c[j - 1]].end = all[c[j]].start
      BY <1>11, <2>3, <3>1 DEF Along
    <3> DEFINE x == c[j - 1]  y == c[j]
    <3>3. /\ x \in DOMAIN all /\ y \in DOMAIN all /\ all[x].end = all[y].start
          /\ all[x].stage \in ToSet(Kids(p)) /\ all[y].stage \in ToSet(Kids(p))
          /\ Place(p, all, x) < Place(p, all, y)
      BY <2>2, <3>1, <3>2 DEF D
    <3> HIDE DEF x, y
    <3>4. <<x, y>> \in Links(p, all)
      BY <3>3 DEF Links
    <3> QED
      BY <3>4 DEF links, x, y
  <2>4. after # {}
    <3> DEFINE m == n - i  d == [j \in 0 .. m |-> c[i + j]]
    <3>1. m \in Nat /\ \A j \in 0 .. m : i + j \in 1 .. n
      BY <1>1, <2>1
    <3>2. d \in [0 .. m -> D] /\ d[0] = Len(all) /\ i + m = n
      BY <1>1, <1>11, <2>1, <2>2, <3>1
    <3>3. ASSUME NEW j \in 1 .. m PROVE <<d[j - 1], d[j]>> \in links
      <4>1. i + j \in 1 .. n /\ i + j > 1 /\ (i + j) - 1 = i + (j - 1) /\ j - 1 \in 0 .. m /\ j \in 0 .. m
        BY <1>1, <2>1, <3>1
      <4>2. d[j - 1] = c[(i + j) - 1] /\ d[j] = c[i + j]
        BY <4>1
      <4> QED
        BY <2>3, <4>1, <4>2
    <3>4. Place(p, all, d[m]) = n
      BY <1>1, <2>1, <2>2, <3>1, <3>2
    <3> HIDE DEF d, m
    <3>5. Leads(links, d, m)
      BY <3>3 DEF Leads
    <3> QED
      BY <1>4, <3>1, <3>2, <3>4, <3>5
  <2>5. before # {}
    <3> DEFINE m == i - 1  d == [j \in 0 .. m |-> c[i - j]]
    <3>1. m \in Nat /\ \A j \in 0 .. m : i - j \in 1 .. n
      BY <1>1, <2>1
    <3>2. d \in [0 .. m -> D] /\ d[0] = Len(all) /\ i - m = 1
      BY <1>1, <1>11, <2>1, <2>2, <3>1
    <3>3. ASSUME NEW j \in 1 .. m PROVE <<d[j - 1], d[j]>> \in back
      <4> DEFINE h == i - (j - 1)
      <4>1. h \in 1 .. n /\ h > 1 /\ h - 1 = i - j /\ j - 1 \in 0 .. m /\ j \in 0 .. m
        BY <1>1, <2>1, <3>1
      <4>2. d[j - 1] = c[h] /\ d[j] = c[h - 1]
        BY <4>1
      <4> HIDE DEF h, d
      <4>3. <<c[h - 1], c[h]>> \in links
        BY <2>3, <4>1
      <4>4. <<<<c[h - 1], c[h]>>[2], <<c[h - 1], c[h]>>[1]>> \in Flipped(links)
        BY <4>3 DEF Flipped
      <4> QED
        BY <4>2, <4>4
    <3>4. Place(p, all, d[m]) = 1
      <4>1. d[m] = c[1] /\ 1 \in 1 .. n
        BY <1>1, <2>1, <3>1, <3>2
      <4> QED
        BY <2>2, <4>1
    <3> HIDE DEF d, m
    <3>5. Leads(back, d, m)
      BY <3>3 DEF Leads
    <3> QED
      BY <1>5, <3>1, <3>2, <3>4, <3>5
  <2> QED
    BY <2>4, <2>5
<1>12. \A c : \A i \in DOMAIN Kids(p) : Along(all, p, c) /\ c[i] = Len(all) => before \X after # {}
  <2>1. SUFFICES ASSUME NEW c, NEW i \in DOMAIN Kids(p), Along(all, p, c) /\ c[i] = Len(all)
                 PROVE  before \X after # {}
    OBVIOUS
  <2>2. PICK b \in before : TRUE
    BY <1>11, <2>1
  <2>3. PICK a \in after : TRUE
    BY <1>11, <2>1
  <2>4. <<b, a>> \in before \X after
    BY <2>2, <2>3
  <2> QED
    BY <2>4
<1> QED
  BY <1>8, <1>10, <1>12 DEF before, after, Flipped, links, n

ChainOf(all, at) ==
  [stage |-> Parent(Last(all).stage), start |-> all[at[1]].start, end |-> all[Last(at)].end,
   leaves |-> FlattenSeq([x \in DOMAIN at |-> all[at[x]].leaves])]

LEMMA ChainType ==
  ASSUME task \in Tasks, NEW all \in Seq(Solution), NEW p \in Stages, p = Parent(Last(all).stage),
         NEW at, Chain(p, all, at)
  PROVE  /\ ChainOf(all, at) \in Solution
         /\ [x \in DOMAIN at |-> all[at[x]].leaves] \in Seq(Seq(Segment))
<1> DEFINE D == DOMAIN all
           parts == [x \in DOMAIN at |-> all[at[x]].leaves]
<1>1. at \in Seq(D) /\ Len(at) > 0
  BY DEF Chain
<1>2. \A x \in D : all[x] \in Solution
  BY ElementOfSeq
<1>3. \A x \in D : all[x].start \in State /\ all[x].end \in State /\ all[x].leaves \in Seq(Segment)
  BY <1>2 DEF Solution
<1> HIDE DEF D
<1>4. Len(at) \in Nat /\ DOMAIN at = 1 .. Len(at) /\ \A x \in 1 .. Len(at) : at[x] \in D
  BY <1>1
<1>5. parts \in Seq(Seq(Segment))
  BY <1>3, <1>4
<1> HIDE DEF parts
<1>6. FlattenSeq(parts) \in Seq(Segment)
  BY <1>5, FlattenType
<1>7. 1 \in 1 .. Len(at) /\ Len(at) \in 1 .. Len(at)
  BY <1>1, <1>4
<1>8. all[at[1]].start \in State /\ all[at[Len(at)]].end \in State
  BY <1>3, <1>4, <1>7
<1> QED
  BY <1>5, <1>6, <1>8 DEF ChainOf, Solution, Last, parts

(* The newest solution completes a chain of p's children. *)
Through(all, p) == \E c : \E i \in DOMAIN Kids(p) : Along(all, p, c) /\ c[i] = Len(all)

(* What the emission of sol puts on the queue. *)
LiftsTo(sol, all, new) ==
  /\ new \in Seq(Solution)
  /\ new # <<>> => sol.stage # Root
  /\ \A n \in DOMAIN new :
       \/ /\ Serial(Parent(sol.stage))
          /\ \E at : Chain(Parent(sol.stage), all, at) /\ new[n] = ChainOf(all, at)
       \/ Parallel(Parent(sol.stage)) /\ new[n] = [sol EXCEPT !.stage = Parent(sol.stage)]
  /\ sol.stage # Root /\ Parallel(Parent(sol.stage)) => \E n \in DOMAIN new : new[n].stage = Parent(sol.stage)
  /\ sol.stage # Root /\ Serial(Parent(sol.stage)) /\ Through(all, Parent(sol.stage)) =>
       \E n \in DOMAIN new : new[n].stage = Parent(sol.stage)

LEMMA NewestFacts ==
  ASSUME Typed, queue # <<>>
  PROVE  LET all == Append(emitted, Head(queue))
         IN  /\ all \in Seq(Solution) /\ all # <<>> /\ Last(all) = Head(queue)
             /\ Len(all) = Len(emitted) + 1 /\ DOMAIN all = DOMAIN emitted \cup {Len(all)}
             /\ \A x \in DOMAIN emitted : all[x] = emitted[x]
             /\ Head(queue) \in Solution /\ Tail(queue) \in Seq(Solution)
             /\ all[Len(all)] = Head(queue) /\ DOMAIN all = 1 .. Len(all)
<1>1. emitted \in Seq(Solution) /\ queue \in Seq(Solution)
  BY DEF Typed
<1>2. Head(queue) \in Solution /\ Tail(queue) \in Seq(Solution)
  BY <1>1, HeadTailProperties
<1> DEFINE all == Append(emitted, Head(queue))
<1>3. /\ all \in Seq(Solution) /\ Len(all) = Len(emitted) + 1 /\ Len(emitted) \in Nat
      /\ DOMAIN emitted = 1 .. Len(emitted)
      /\ all[Len(emitted) + 1] = Head(queue)
      /\ \A x \in 1 .. Len(emitted) : all[x] = emitted[x]
  BY <1>1, <1>2
<1> HIDE DEF all
<1>4. DOMAIN all = 1 .. Len(all) /\ Len(all) \in 1 .. Len(all)
  BY <1>3
<1>5. DOMAIN all = DOMAIN emitted \cup {Len(all)}
  BY <1>3, <1>4
<1>6. all # <<>>
  BY <1>4
<1> QED
  BY <1>2, <1>3, <1>4, <1>5, <1>6 DEF all, Last

LEMMA LiftFacts ==
  ASSUME Typed, queue # <<>>, Lift(Append(emitted, Head(queue)))
  PROVE  \E new : /\ LiftsTo(Head(queue), Append(emitted, Head(queue)), new)
                  /\ queue' = new \o Tail(queue)
<1> DEFINE all == Append(emitted, Head(queue))
           sol == Head(queue)
           p == Parent(sol.stage)
<1>1. /\ all \in Seq(Solution) /\ all # <<>> /\ Last(all) = sol
      /\ sol \in Solution /\ Tail(queue) \in Seq(Solution) /\ task \in Tasks
  BY NewestFacts DEF Typed
<1>2. Lift(all)
  OBVIOUS
<1> HIDE DEF all, sol
<1>3. sol.stage \in Stages
  BY <1>1 DEF Solution
<1>4. CASE sol.stage = Root
  <2>1. queue' = Tail(queue) /\ <<>> \o Tail(queue) = Tail(queue)
    BY <1>1, <1>2, <1>4 DEF Lift
  <2>2. LiftsTo(sol, all, <<>>)
    BY <1>4 DEF LiftsTo
  <2> QED
    BY <2>1, <2>2 DEF all, sol
<1>5. CASE sol.stage # Root /\ Serial(p)
  <2>1. p \in Stages
    BY <1>1, <1>3, <1>5, ParentFacts
  <2>2. OnChildSolution(p, all)
    BY <1>1, <1>2, <1>5 DEF Lift
  <2> DEFINE links == Links(p, all)
             paths == Traces(p, all, {<<l[2], l[1]>> : l \in links}, 1) \X Traces(p, all, links, Len(Kids(p)))
  <2>3. Lifted(all, paths)
    BY <2>2, Zenon DEF OnChildSolution
  <2>4. /\ IsFiniteSet(paths) /\ \A path \in paths : Chain(p, all, Reverse(path[1]) \o <<Len(all)>> \o path[2])
        /\ Through(all, p) => paths # {}
    <3>1. \A c : \A i \in DOMAIN Kids(p) : Along(all, p, c) /\ c[i] = Len(all) => paths # {}
      BY <1>1, <1>3, <1>5, <2>1, ChainsFound
    <3>2. IsFiniteSet(paths) /\ \A path \in paths : Chain(p, all, Reverse(path[1]) \o <<Len(all)>> \o path[2])
      BY <1>1, <1>3, <1>5, <2>1, ChainsFound
    <3> HIDE DEF links, paths
    <3> QED
      BY <3>1, <3>2 DEF Through
  <2> HIDE DEF links, paths
  <2>5. PICK order \in [1 .. Cardinality(paths) -> paths] :
          queue' = [n \in DOMAIN order |-> Composed(all, order[n])] \o Tail(queue)
    BY <2>3 DEF Lifted
  <2> DEFINE new == [n \in DOMAIN order |-> Composed(all, order[n])]
  <2>6. Cardinality(paths) \in Nat /\ DOMAIN order = 1 .. Cardinality(paths)
    BY <2>4, <2>5, FS_CardinalityType
  <2>7. ASSUME NEW n \in DOMAIN order
        PROVE  /\ new[n] \in Solution /\ new[n].stage = p
               /\ \E at : Chain(p, all, at) /\ new[n] = ChainOf(all, at)
    <3> DEFINE at == Reverse(order[n][1]) \o <<Len(all)>> \o order[n][2]
    <3>1. order[n] \in paths
      BY <2>5
    <3>2. Chain(p, all, at)
      BY <2>4, <3>1
    <3>3. Composed(all, order[n]) = ChainOf(all, at)
      BY DEF Composed, ChainOf
    <3> HIDE DEF at
    <3>4. ChainOf(all, at) \in Solution
      BY <1>1, <2>1, <3>2, ChainType
    <3>5. ChainOf(all, at).stage = p
      BY <1>1 DEF ChainOf
    <3> QED
      BY <3>2, <3>3, <3>4, <3>5
  <2>8. new \in Seq(Solution) /\ DOMAIN new = DOMAIN order
    BY <2>6, <2>7
  <2> HIDE DEF new
  <2>9. ~Parallel(p)
    BY <1>5 DEF Serial, Parallel
  <2>11. Through(all, p) => \E n \in DOMAIN new : new[n].stage = p
    <3> SUFFICES ASSUME Through(all, p) PROVE \E n \in DOMAIN new : new[n].stage = p
      OBVIOUS
    <3>1. Cardinality(paths) # 0
      BY <2>4, FS_EmptySet
    <3>2. 1 \in DOMAIN new
      BY <2>6, <2>8, <3>1
    <3> QED
      BY <2>7, <2>8, <3>2
  <2>10. LiftsTo(sol, all, new)
    BY <1>5, <2>7, <2>8, <2>9, <2>11 DEF LiftsTo
  <2> QED
    BY <2>5, <2>10 DEF all, sol, new
<1>6. CASE sol.stage # Root /\ ~Serial(p) /\ Parallel(p)
  <2> DEFINE new == <<[sol EXCEPT !.stage = p]>>
  <2>1. queue' = new \o Tail(queue)
    BY <1>1, <1>2, <1>6 DEF Lift
  <2>2. p \in Stages
    BY <1>1, <1>3, <1>6, ParentFacts
  <2>3. [sol EXCEPT !.stage = p] \in Solution /\ [sol EXCEPT !.stage = p].stage = p
    BY <1>1, <2>2 DEF Solution
  <2>4. new \in Seq(Solution) /\ DOMAIN new = {1} /\ new[1] = [sol EXCEPT !.stage = p]
    BY <2>3
  <2> HIDE DEF new
  <2>6. ~Serial(p)
    BY <1>6
  <2>5. LiftsTo(sol, all, new)
    BY <1>6, <2>3, <2>4, <2>6 DEF LiftsTo
  <2> QED
    BY <2>1, <2>5 DEF all, sol
<1>7. CASE sol.stage # Root /\ ~Serial(p) /\ ~Parallel(p)
  <2>1. queue' = Tail(queue) /\ <<>> \o Tail(queue) = Tail(queue)
    BY <1>1, <1>2, <1>7 DEF Lift
  <2>2. LiftsTo(sol, all, <<>>)
    BY <1>7 DEF LiftsTo
  <2> QED
    BY <2>1, <2>2 DEF all, sol
<1> QED
  BY <1>4, <1>5, <1>6, <1>7

-----------------------------------------------------------------------------
(* A leaf stage k computes: what it changes. *)
IsLeaf(q, k) == \E a, b \in State : q = Leaf(k, a, b)
Wider(j, i) == \A x \in Stages : ToSet(i[x]) \subseteq ToSet(j[x])
Job == [stage : Stages, from : State]
LeafEffect(k) ==
  /\ startPull' \in {startPull, [startPull EXCEPT ![k] = <<>>]}
  /\ endPull' \in {endPull, [endPull EXCEPT ![k] = <<>>]}
  /\ starts' \in Interfaces /\ ends' \in Interfaces
  /\ \A x \in Stages \ {k} : starts'[x] = starts[x] /\ ends'[x] = ends[x]
  /\ Wider(starts', starts) /\ Wider(ends', ends)
  /\ queue' \in Seq(Solution) /\ \A n \in DOMAIN queue' : IsLeaf(queue'[n], k)
  /\ \A f \in failures' : f \in failures \/ f.stage = k
  /\ jobs' \in Seq(Job)
  /\ \A n \in DOMAIN jobs' : \/ jobs'[n].stage = k /\ jobs'[n].from \in ToSet(startPull[k])
                            \/ jobs'[n] \in ToSet(jobs)
  /\ made' \in Nat /\ fed' = fed /\ processed' = processed

LEMMA Widened ==
  ASSUME NEW i \in Interfaces, NEW k \in Stages, NEW xs \in Seq(State), NEW j,
         j = [i EXCEPT ![k] = i[k] \o xs] \/ j = i
  PROVE  Wider(j, i)
<1>1. i \in [Stages -> Seq(State)]
  BY DEF Interfaces
<1>2. ToSet(i[k] \o xs) = ToSet(i[k]) \cup ToSet(xs)
  BY <1>1, JoinedSet
<1>3. \A x \in Stages : j[x] = i[x] \/ (x = k /\ j[x] = i[k] \o xs)
  BY <1>1
<1> QED
  BY <1>2, <1>3 DEF Wider

LEMMA Leaves ==
  ASSUME Typed, NEW k \in Stages, NEW n \in Nat, NEW a \in [1 .. n -> State], NEW b \in [1 .. n -> State],
         NEW q, q = [x \in 1 .. n |-> Leaf(k, a[x], b[x])]
  PROVE  q \in Seq(Solution) /\ \A x \in DOMAIN q : IsLeaf(q[x], k)
<1>1. \A x \in 1 .. n : a[x] \in State /\ b[x] \in State /\ q[x] = Leaf(k, a[x], b[x])
  OBVIOUS
<1>2. \A x \in 1 .. n : q[x] \in Solution /\ IsLeaf(q[x], k)
  BY <1>1, LeafTyped DEF IsLeaf
<1>3. q = [x \in 1 .. n |-> q[x]] /\ DOMAIN q = 1 .. n
  OBVIOUS
<1>4. q \in Seq(Solution)
  BY <1>2, <1>3
<1> QED
  BY <1>2, <1>3, <1>4

LEMMA FailedStages ==
  ASSUME NEW k, NEW work, NEW outcome, NEW f \in Failed(k, work, outcome)
  PROVE  f.stage = k
  BY DEF Failed, Attempt

LEMMA GenerateFacts ==
  ASSUME Typed, NEW k \in Stages, Generate(k)
  PROVE  LeafEffect(k)
<1>1. PICK keys \in SUBSET Keys :
        LET new == Reached(<<NoState>>, <<keys>>)
            states == [x \in DOMAIN new |-> new[x].to]
        IN  /\ starts' = [starts EXCEPT ![k] = @ \o states]
            /\ ends' = [ends EXCEPT ![k] = @ \o states]
            /\ queue' = [x \in DOMAIN states |-> Leaf(k, states[x], states[x])]
            /\ failures' = failures \cup Failed(k, <<NoState>>, <<keys>>)
            /\ made' = made + Len(states)
            /\ UNCHANGED <<pulls, processed, jobs>>
  BY Zenon DEF Generate
<1> DEFINE new == Reached(<<NoState>>, <<keys>>)
           states == [x \in DOMAIN new |-> new[x].to]
<1>2. NoState \in State
  BY DEF NoState, State
<1>3. new \in Seq([from : State, to : State])
  <2>1. <<NoState>> \in Seq(State) /\ <<keys>> \in [DOMAIN <<NoState>> -> SUBSET Keys] /\ made \in Nat
    BY <1>2 DEF Typed
  <2> QED
    BY <2>1, ReachedFacts
<1> HIDE DEF new
<1>4. states \in Seq(State) /\ Len(states) = Len(new) /\ Len(new) \in Nat
  BY <1>3, ToStates
<1>5. /\ starts' = [starts EXCEPT ![k] = @ \o states] /\ ends' = [ends EXCEPT ![k] = @ \o states]
      /\ queue' = [x \in DOMAIN states |-> Leaf(k, states[x], states[x])]
      /\ failures' = failures \cup Failed(k, <<NoState>>, <<keys>>)
      /\ made' = made + Len(states)
      /\ UNCHANGED <<pulls, processed, jobs>>
  BY <1>1 DEF new
<1> HIDE DEF states
<1>11. Wider(starts', starts) /\ Wider(ends', ends)
  BY <1>4, <1>5, Widened DEF Typed
<1>6. /\ starts' \in Interfaces /\ ends' \in Interfaces
      /\ \A x \in Stages \ {k} : starts'[x] = starts[x] /\ ends'[x] = ends[x]
  <2>1. starts \in [Stages -> Seq(State)] /\ ends \in [Stages -> Seq(State)]
    BY DEF Typed, Interfaces
  <2>2. starts[k] \o states \in Seq(State) /\ ends[k] \o states \in Seq(State)
    BY <1>4, <2>1
  <2> QED
    BY <1>5, <2>1, <2>2 DEF Interfaces
<1>7. queue' \in Seq(Solution) /\ \A n \in DOMAIN queue' : IsLeaf(queue'[n], k)
  <2>1. states \in [1 .. Len(states) -> State] /\ Len(states) \in Nat /\ DOMAIN states = 1 .. Len(states)
    BY <1>4
  <2> QED
    BY <1>5, <2>1, Leaves
<1>8. \A f \in failures' : f \in failures \/ f.stage = k
  BY <1>5, FailedStages
<1>9. made' \in Nat
  BY <1>4, <1>5 DEF Typed
<1>10. /\ jobs' \in Seq(Job) /\ \A n \in DOMAIN jobs' : jobs'[n] \in ToSet(jobs)
       /\ startPull' = startPull /\ endPull' = endPull /\ fed' = fed /\ processed' = processed
  BY <1>5 DEF Typed, pulls, ToSet, Job
<1> QED
  BY <1>6, <1>7, <1>8, <1>9, <1>10, <1>11 DEF LeafEffect

(* The solver's answer for each state of a pull. *)
LEMMA Outcomes ==
  ASSUME Typed, NEW W, NEW work \in Seq(W), NEW most,
         NEW outcome \in [DOMAIN work -> {ks \in SUBSET Keys : Cardinality(ks) <= most}]
  PROVE  Reached(work, outcome) \in Seq([from : W, to : State])
<1>1. outcome \in [DOMAIN work -> SUBSET Keys] /\ made \in Nat
  BY DEF Typed
<1> QED
  BY <1>1, ReachedFacts

LEMMA ForwardFacts ==
  ASSUME Typed, NEW k \in Stages, Forward(k)
  PROVE  LeafEffect(k) /\ \A n \in DOMAIN queue' : queue'[n].start \in ToSet(startPull[k])
<1> DEFINE work == startPull[k]
           most == IF Kind(k) = "motion" THEN 1 ELSE MaxOutputs
<1>1. PICK outcome \in [DOMAIN work -> {ks \in SUBSET Keys : Cardinality(ks) <= most}] :
        \E new \in {Reached(work, outcome)} :
               /\ ends' = [ends EXCEPT ![k] = @ \o [x \in DOMAIN new |-> new[x].to]]
               /\ queue' = [x \in DOMAIN new |-> Leaf(k, new[x].from, new[x].to)]
               /\ failures' = failures \cup Failed(k, work, outcome)
               /\ made' = made + Len(new)
  BY Zenon DEF Forward
<1>2. startPull' = [startPull EXCEPT ![k] = <<>>] /\ UNCHANGED <<endPull, fed, starts, computed, processed, jobs>>
  BY Zenon DEF Forward
<1>3. work \in Seq(State)
  BY DEF Typed, Interfaces
<1> DEFINE S == ToSet(work)
<1>15. work \in Seq(S) /\ S \subseteq State
  BY <1>3, OwnSet
<1> HIDE DEF S
<1> HIDE DEF work, most
<1>4. PICK new :
               /\ new \in Seq([from : S, to : State])
               /\ ends' = [ends EXCEPT ![k] = @ \o [x \in DOMAIN new |-> new[x].to]]
               /\ queue' = [x \in DOMAIN new |-> Leaf(k, new[x].from, new[x].to)]
               /\ failures' = failures \cup Failed(k, work, outcome)
               /\ made' = made + Len(new)
  BY <1>1, <1>15, Outcomes
<1> DEFINE to == [x \in DOMAIN new |-> new[x].to]
           from == [x \in DOMAIN new |-> new[x].from]
<1>5. /\ to \in Seq(State) /\ Len(new) \in Nat /\ DOMAIN new = 1 .. Len(new)
      /\ \A x \in DOMAIN new : new[x].from \in S /\ new[x].from \in State /\ new[x].to \in State
  BY <1>4, <1>15, ToStates
<1>6. to \in [1 .. Len(new) -> State] /\ from \in [1 .. Len(new) -> State]
  BY <1>5
<1>7. \A x \in DOMAIN new : to[x] = new[x].to /\ from[x] = new[x].from
  OBVIOUS
<1>16. \A x \in DOMAIN new : from[x] \in S
  BY <1>5
<1>8. queue' = [x \in 1 .. Len(new) |-> Leaf(k, from[x], to[x])]
  BY <1>4, <1>5, <1>7
<1>9. ends' = [ends EXCEPT ![k] = @ \o to]
  BY <1>4
<1> HIDE DEF to, from
<1>10. queue' \in Seq(Solution) /\ \A n \in DOMAIN queue' : IsLeaf(queue'[n], k)
  BY <1>5, <1>6, <1>8, Leaves
<1>11. ends' \in Interfaces /\ \A x \in Stages \ {k} : ends'[x] = ends[x]
  <2>1. starts \in [Stages -> Seq(State)] /\ ends \in [Stages -> Seq(State)]
    BY DEF Typed, Interfaces
  <2>2. starts[k] \o to \in Seq(State) /\ ends[k] \o to \in Seq(State)
    BY <1>5, <2>1
  <2> QED
    BY <1>9, <2>1, <2>2 DEF Interfaces
<1>12. \A f \in failures' : f \in failures \/ f.stage = k
  BY <1>4, FailedStages
<1>13. made' \in Nat
  BY <1>4, <1>5 DEF Typed
<1>14. /\ jobs' \in Seq(Job) /\ \A n \in DOMAIN jobs' : jobs'[n] \in ToSet(jobs)
       /\ endPull' = endPull /\ fed' = fed /\ processed' = processed
       /\ starts' = starts /\ starts \in Interfaces
  BY <1>2 DEF Typed, ToSet, Job
<1>17. Wider(ends', ends) /\ Wider(starts', starts)
  BY <1>2, <1>5, <1>9, Widened DEF Typed
<1>18. ASSUME NEW n \in DOMAIN queue' PROVE queue'[n].start \in S
  <2>1. n \in DOMAIN new /\ queue'[n] = Leaf(k, from[n], to[n])
    BY <1>5, <1>8
  <2> QED
    BY <1>16, <2>1 DEF Leaf
<1> QED
  BY <1>2, <1>10, <1>11, <1>12, <1>13, <1>14, <1>17, <1>18 DEF LeafEffect, S, work

LEMMA BackwardFacts ==
  ASSUME Typed, NEW k \in Stages, Backward(k)
  PROVE  LeafEffect(k) /\ \A n \in DOMAIN queue' : queue'[n].end \in ToSet(endPull[k])
<1> DEFINE work == endPull[k]
<1>1. PICK outcome \in [DOMAIN work -> {ks \in SUBSET Keys : Cardinality(ks) <= MaxOutputs}] :
        \E new \in {Reached(work, outcome)} :
               /\ starts' = [starts EXCEPT ![k] = @ \o [x \in DOMAIN new |-> new[x].to]]
               /\ queue' = [x \in DOMAIN new |-> Leaf(k, new[x].to, new[x].from)]
               /\ failures' = failures \cup Failed(k, work, outcome)
               /\ made' = made + Len(new)
  BY Zenon DEF Backward
<1>2. endPull' = [endPull EXCEPT ![k] = <<>>] /\ UNCHANGED <<startPull, fed, ends, computed, processed, jobs>>
  BY Zenon DEF Backward
<1>3. work \in Seq(State)
  BY DEF Typed, Interfaces
<1> DEFINE S == ToSet(work)
<1>15. work \in Seq(S) /\ S \subseteq State
  BY <1>3, OwnSet
<1> HIDE DEF S
<1> HIDE DEF work
<1>4. PICK new :
               /\ new \in Seq([from : S, to : State])
               /\ starts' = [starts EXCEPT ![k] = @ \o [x \in DOMAIN new |-> new[x].to]]
               /\ queue' = [x \in DOMAIN new |-> Leaf(k, new[x].to, new[x].from)]
               /\ failures' = failures \cup Failed(k, work, outcome)
               /\ made' = made + Len(new)
  BY <1>1, <1>15, Outcomes
<1> DEFINE to == [x \in DOMAIN new |-> new[x].to]
           from == [x \in DOMAIN new |-> new[x].from]
<1>5. /\ to \in Seq(State) /\ Len(new) \in Nat /\ DOMAIN new = 1 .. Len(new)
      /\ \A x \in DOMAIN new : new[x].from \in S /\ new[x].from \in State /\ new[x].to \in State
  BY <1>4, <1>15, ToStates
<1>6. to \in [1 .. Len(new) -> State] /\ from \in [1 .. Len(new) -> State]
  BY <1>5
<1>7. \A x \in DOMAIN new : to[x] = new[x].to /\ from[x] = new[x].from
  OBVIOUS
<1>16. \A x \in DOMAIN new : from[x] \in S
  BY <1>5
<1>8. queue' = [x \in 1 .. Len(new) |-> Leaf(k, to[x], from[x])]
  BY <1>4, <1>5, <1>7
<1>9. starts' = [starts EXCEPT ![k] = @ \o to]
  BY <1>4
<1> HIDE DEF to, from
<1>10. queue' \in Seq(Solution) /\ \A n \in DOMAIN queue' : IsLeaf(queue'[n], k)
  BY <1>5, <1>6, <1>8, Leaves
<1>11. starts' \in Interfaces /\ \A x \in Stages \ {k} : starts'[x] = starts[x]
  <2>1. starts \in [Stages -> Seq(State)] /\ ends \in [Stages -> Seq(State)]
    BY DEF Typed, Interfaces
  <2>2. starts[k] \o to \in Seq(State) /\ ends[k] \o to \in Seq(State)
    BY <1>5, <2>1
  <2> QED
    BY <1>9, <2>1, <2>2 DEF Interfaces
<1>12. \A f \in failures' : f \in failures \/ f.stage = k
  BY <1>4, FailedStages
<1>13. made' \in Nat
  BY <1>4, <1>5 DEF Typed
<1>14. /\ jobs' \in Seq(Job) /\ \A n \in DOMAIN jobs' : jobs'[n] \in ToSet(jobs)
       /\ startPull' = startPull /\ fed' = fed /\ processed' = processed
       /\ ends' = ends /\ ends \in Interfaces
  BY <1>2 DEF Typed, ToSet, Job
<1>17. Wider(starts', starts) /\ Wider(ends', ends)
  BY <1>2, <1>5, <1>9, Widened DEF Typed
<1>18. ASSUME NEW n \in DOMAIN queue' PROVE queue'[n].end \in S
  <2>1. n \in DOMAIN new /\ queue'[n] = Leaf(k, to[n], from[n])
    BY <1>5, <1>8
  <2> QED
    BY <1>16, <2>1 DEF Leaf
<1> QED
  BY <1>2, <1>10, <1>11, <1>12, <1>13, <1>14, <1>17, <1>18 DEF LeafEffect, S, work

LEMMA DeferFacts ==
  ASSUME Typed, NEW k \in Stages, Defer(k), queue = <<>>
  PROVE  LeafEffect(k)
<1> DEFINE more == [j \in DOMAIN startPull[k] |-> [stage |-> k, from |-> startPull[k][j]]]
<1>1. startPull[k] \in Seq(State) /\ jobs \in Seq(Job) /\ starts \in Interfaces /\ ends \in Interfaces
      /\ queue \in Seq(Solution) /\ made \in Nat
  BY DEF Typed, Interfaces, Job
<1>2. \A j \in 1 .. Len(startPull[k]) : [stage |-> k, from |-> startPull[k][j]] \in Job
  BY <1>1, ElementOfSeq DEF Job
<1>3. more \in Seq(Job) /\ \A j \in DOMAIN more : more[j].stage = k /\ more[j].from \in ToSet(startPull[k])
  BY <1>1, <1>2 DEF ToSet
<1>4. /\ jobs' = jobs \o more
      /\ startPull' = [startPull EXCEPT ![k] = <<>>]
      /\ UNCHANGED <<endPull, fed, starts, ends, failures, computed, processed, made, queue>>
  BY DEF Defer
<1> HIDE DEF more
<1>5. jobs' \in Seq(Job) /\ Follow(jobs', jobs, more) /\ Len(jobs) \in Nat /\ Len(more) \in Nat
  BY <1>1, <1>3, <1>4, ConcatFacts
<1>8. Wider(starts', starts) /\ Wider(ends', ends)
  BY <1>4 DEF Wider
<1>6. ASSUME NEW n \in DOMAIN jobs'
      PROVE  (jobs'[n].stage = k /\ jobs'[n].from \in ToSet(startPull[k])) \/ jobs'[n] \in ToSet(jobs)
  <2>1. n \in 1 .. Len(jobs) + Len(more)
    BY <1>5 DEF Follow
  <2>2. CASE n <= Len(jobs)
    <3>1. n \in 1 .. Len(jobs) /\ jobs'[n] = jobs[n]
      BY <1>5, <2>1, <2>2 DEF Follow
    <3> QED
      BY <1>1, <3>1 DEF ToSet
  <2>3. CASE n > Len(jobs)
    <3> DEFINE m == n - Len(jobs)
    <3>1. m \in 1 .. Len(more) /\ n = Len(jobs) + m
      BY <1>5, <2>1, <2>3
    <3> HIDE DEF m
    <3>2. jobs'[n] = more[m] /\ m \in DOMAIN more
      BY <1>3, <1>5, <3>1 DEF Follow
    <3> QED
      BY <1>3, <3>2
  <2> QED
    BY <1>5, <2>1, <2>2, <2>3
<1>7. \A n \in DOMAIN queue' : IsLeaf(queue'[n], k)
  BY <1>4
<1> QED
  BY <1>1, <1>4, <1>5, <1>6, <1>7, <1>8 DEF LeafEffect

LEMMA JoinFacts ==
  ASSUME Typed, NEW k \in Stages, Join(k)
  PROVE  /\ LeafEffect(k)
         /\ \A x \in DOMAIN queue' : /\ queue'[x].start \in ToSet(startPull[k])
                                    /\ queue'[x].end \in ToSet(endPull[k])
<1> DEFINE a == startPull[k]
           b == endPull[k]
           n == Len(b)
           pairs == [x \in 1 .. Len(a) * n |-> <<a[((x - 1) \div n) + 1], b[((x - 1) % n) + 1]>>]
<1>1. PICK good \in SUBSET DOMAIN pairs :
        /\ LET joined == Picked(pairs, good)
           IN  queue' = [x \in DOMAIN joined |-> Leaf(k, joined[x][1], joined[x][2])]
        /\ failures' = failures \cup {Attempt(k, pairs[x][1], pairs[x][2]) : x \in DOMAIN pairs \ good}
  BY Zenon DEF Join
<1>2. /\ startPull' = [startPull EXCEPT ![k] = <<>>] /\ endPull' = [endPull EXCEPT ![k] = <<>>]
      /\ UNCHANGED <<fed, starts, ends, computed, processed, jobs, made>>
  BY Zenon DEF Join
<1>3. a \in Seq(State) /\ b \in Seq(State) /\ starts \in Interfaces /\ ends \in Interfaces /\ made \in Nat
      /\ jobs \in Seq(Job)
  BY DEF Typed, Interfaces, Job
<1> DEFINE A == ToSet(a)  B == ToSet(b)
<1>15. a \in Seq(A) /\ b \in Seq(B) /\ A \subseteq State /\ B \subseteq State
  BY <1>3, OwnSet
<1> HIDE DEF a, b, A, B
<1>4. n \in Nat /\ Len(a) \in Nat /\ DOMAIN a = 1 .. Len(a) /\ DOMAIN b = 1 .. n
  BY <1>3
<1> HIDE DEF n
<1>5. ASSUME NEW x \in 1 .. Len(a) * n
      PROVE  a[((x - 1) \div n) + 1] \in A /\ b[((x - 1) % n) + 1] \in B
  <2>1. x \in Nat /\ x - 1 \in Nat /\ Len(a) * n \in Nat /\ x - 1 < Len(a) * n
    BY <1>4
  <2>2. n > 0
    <3> SUFFICES ASSUME n = 0 PROVE FALSE
      BY <1>4
    <3> QED
      BY <1>4, <2>1
  <2>3. (x - 1) % n \in 0 .. n - 1 /\ (x - 1) \div n \in Nat /\ x - 1 = n * ((x - 1) \div n) + ((x - 1) % n)
    BY <1>4, <2>1, <2>2
  <2>4. (x - 1) \div n < Len(a)
    <3> DEFINE d == (x - 1) \div n  r == (x - 1) % n
    <3>1. d \in Nat /\ r \in Nat /\ n * d + r < Len(a) * n
      BY <2>1, <2>3
    <3> HIDE DEF d, r
    <3>2. SUFFICES ASSUME d >= Len(a) PROVE FALSE
      BY <1>4, <3>1 DEF d
    <3>3. n * d >= n * Len(a)
      BY <1>4, <2>2, <3>1, <3>2
    <3> QED
      BY <1>4, <3>1, <3>3
  <2>5. ((x - 1) \div n) + 1 \in 1 .. Len(a) /\ ((x - 1) % n) + 1 \in 1 .. n
    <3> DEFINE d == (x - 1) \div n  r == (x - 1) % n
    <3>1. d \in Nat /\ d < Len(a) /\ r \in 0 .. n - 1
      BY <2>3, <2>4
    <3> HIDE DEF d, r
    <3>2. d + 1 \in 1 .. Len(a) /\ r + 1 \in 1 .. n
      BY <1>4, <2>2, <3>1
    <3> QED
      BY <3>2 DEF d, r
  <2> QED
    BY <1>4, <1>15, <2>5, ElementOfSeq DEF n
<1>6. pairs \in Seq(A \X B) /\ DOMAIN pairs = 1 .. Len(a) * n
  <2>1. Len(a) * n \in Nat
    BY <1>4
  <2> QED
    BY <1>5, <2>1
<1> HIDE DEF pairs
<1> DEFINE joined == Picked(pairs, good)
           from == [x \in DOMAIN joined |-> joined[x][1]]
           to == [x \in DOMAIN joined |-> joined[x][2]]
<1>7. joined \in Seq(A \X B)
  BY <1>6, PickedFacts
<1>8. queue' = [x \in DOMAIN joined |-> Leaf(k, joined[x][1], joined[x][2])]
  BY <1>1
<1> HIDE DEF joined
<1>9. Len(joined) \in Nat /\ DOMAIN joined = 1 .. Len(joined) /\ \A x \in DOMAIN joined : joined[x] \in A \X B
  BY <1>7
<1>10. from \in [1 .. Len(joined) -> State] /\ to \in [1 .. Len(joined) -> State]
  BY <1>9, <1>15
<1>16. \A x \in DOMAIN joined : from[x] \in A /\ to[x] \in B
  BY <1>9
<1>11. \A x \in DOMAIN joined : from[x] = joined[x][1] /\ to[x] = joined[x][2]
  OBVIOUS
<1>12. queue' = [x \in 1 .. Len(joined) |-> Leaf(k, from[x], to[x])]
  BY <1>8, <1>9, <1>11
<1> HIDE DEF from, to
<1>13. queue' \in Seq(Solution) /\ \A x \in DOMAIN queue' : IsLeaf(queue'[x], k)
  BY <1>9, <1>10, <1>12, Leaves
<1>14. \A f \in failures' : f \in failures \/ f.stage = k
  BY <1>1 DEF Attempt
<1>17. ASSUME NEW x \in DOMAIN queue' PROVE queue'[x].start \in A /\ queue'[x].end \in B
  <2>1. x \in DOMAIN joined /\ queue'[x] = Leaf(k, from[x], to[x])
    BY <1>9, <1>12
  <2> QED
    BY <1>16, <2>1 DEF Leaf
<1>18. Wider(starts', starts) /\ Wider(ends', ends)
  BY <1>2 DEF Wider
<1>19. LeafEffect(k)
  BY <1>2, <1>3, <1>13, <1>14, <1>18 DEF LeafEffect, ToSet
<1> QED
  BY <1>17, <1>19 DEF A, B, a, b

-----------------------------------------------------------------------------
(* An interface is handed states: nothing is lost, and keys stay distinct. *)
Handed(j, i) ==
  /\ j = [x \in Stages |-> j[x]]
  /\ \A x \in Stages : j[x] = i[x] \/ \E xs \in Seq(State) : j[x] = Merge(i[x], xs)
Grows(j, i) == \A x \in Stages : Len(j[x]) >= Len(i[x]) /\ (Distinct(i[x]) => Distinct(j[x]))

LEMMA HandedFacts ==
  ASSUME NEW i \in Interfaces, NEW j, Handed(j, i)
  PROVE  j \in Interfaces /\ Grows(j, i) /\ Wider(j, i)
<1>1. ASSUME NEW x \in Stages
      PROVE  /\ j[x] \in Seq(State) /\ Len(j[x]) >= Len(i[x]) /\ (Distinct(i[x]) => Distinct(j[x]))
             /\ ToSet(i[x]) \subseteq ToSet(j[x])
  <2>1. i[x] \in Seq(State) /\ Len(i[x]) \in Nat
    BY DEF Interfaces
  <2>2. CASE j[x] = i[x]
    BY <2>1, <2>2
  <2>3. CASE j[x] # i[x]
    <3>1. PICK xs \in Seq(State) : j[x] = Merge(i[x], xs)
      BY <2>3 DEF Handed
    <3> QED
      BY <2>1, <3>1, MergeFacts
  <2> QED
    BY <2>2, <2>3
<1>2. j = [x \in Stages |-> j[x]]
  BY DEF Handed
<1>3. j \in [Stages -> Seq(State)]
  BY <1>1, <1>2
<1> QED
  BY <1>1, <1>3 DEF Interfaces, Grows, Wider

LEMMA HandedTo ==
  ASSUME NEW i \in Interfaces, NEW j, NEW k \in Stages, NEW xs \in Seq(State),
         j = i \/ j = [i EXCEPT ![k] = Merge(i[k], xs)]
  PROVE  Handed(j, i)
<1>1. i \in [Stages -> Seq(State)]
  BY DEF Interfaces
<1>2. CASE j = i
  BY <1>1, <1>2 DEF Handed
<1>3. CASE j = [i EXCEPT ![k] = Merge(i[k], xs)]
  <2>1. j = [x \in Stages |-> IF x = k THEN Merge(i[k], xs) ELSE i[x]]
    BY <1>1, <1>3
  <2> QED
    BY <2>1 DEF Handed
<1> QED
  BY <1>2, <1>3

LEMMA PropagatedFacts ==
  ASSUME Typed, NEW s \in Stages, NEW i \in DOMAIN Kids(s), Propagated(s, i)
  PROVE  /\ Handed(startPull', startPull) /\ Handed(endPull', endPull)
         /\ Handed(starts', starts) /\ Handed(ends', ends)
<1> DEFINE k == Kids(s)[i]
<1>1. task \in Tasks /\ startPull \in Interfaces /\ endPull \in Interfaces /\ starts \in Interfaces /\ ends \in Interfaces
  BY DEF Typed
<1>2. k \in Stages /\ i \in 1 .. Len(Kids(s)) /\ Len(Kids(s)) \in Nat /\ DOMAIN Kids(s) = 1 .. Len(Kids(s))
  BY <1>1, KidFacts, StageFacts
<1>3. starts[k] \in Seq(State) /\ ends[k] \in Seq(State)
  BY <1>1, <1>2 DEF Interfaces
<1>4. Handed(startPull', startPull)
  <2>1. CASE Serial(s) /\ i < Len(Kids(s)) /\ Writes(k, 2)
    <3>1. Kids(s)[i + 1] \in Stages
      <4>1. i + 1 \in DOMAIN Kids(s)
        BY <1>2, <2>1
      <4> QED
        BY <1>1, <4>1, KidFacts
    <3>2. startPull' = [startPull EXCEPT ![Kids(s)[i + 1]] = Merge(startPull[Kids(s)[i + 1]], ends[k])]
      BY <2>1 DEF Propagated
    <3> QED
      BY <1>1, <1>3, <3>1, <3>2, HandedTo
  <2>2. CASE ~(Serial(s) /\ i < Len(Kids(s)) /\ Writes(k, 2))
    <3>1. startPull' = startPull
      BY <2>2 DEF Propagated
    <3> QED
      BY <1>1, <1>2, <1>3, <3>1, HandedTo
  <2> QED
    BY <2>1, <2>2
<1>5. Handed(endPull', endPull)
  <2>1. CASE Serial(s) /\ i > 1 /\ Writes(k, 1) /\ Reads(Kids(s)[i - 1], 2)
    <3>1. Kids(s)[i - 1] \in Stages
      <4>1. i - 1 \in DOMAIN Kids(s)
        BY <1>2, <2>1
      <4> QED
        BY <1>1, <4>1, KidFacts
    <3>2. endPull' = [endPull EXCEPT ![Kids(s)[i - 1]] = Merge(endPull[Kids(s)[i - 1]], starts[k])]
      BY <2>1 DEF Propagated
    <3> QED
      BY <1>1, <1>3, <3>1, <3>2, HandedTo
  <2>2. CASE ~(Serial(s) /\ i > 1 /\ Writes(k, 1) /\ Reads(Kids(s)[i - 1], 2))
    <3>1. endPull' = endPull
      BY <2>2 DEF Propagated
    <3> QED
      BY <1>1, <1>2, <1>3, <3>1, HandedTo
  <2> QED
    BY <2>1, <2>2
<1>6. Handed(starts', starts)
  <2>1. starts' = starts \/ starts' = [starts EXCEPT ![s] = Merge(starts[s], starts[k])]
    BY DEF Propagated
  <2> QED
    BY <1>1, <1>3, <2>1, HandedTo
<1>7. Handed(ends', ends)
  <2>1. ends' = ends \/ ends' = [ends EXCEPT ![s] = Merge(ends[s], ends[k])]
    BY DEF Propagated
  <2> QED
    BY <1>1, <1>3, <2>1, HandedTo
<1> QED
  BY <1>4, <1>5, <1>6, <1>7

(* Feeding a container: what it counts as handed down is what it holds. *)
LEMMA FeedFacts ==
  ASSUME Typed, NEW s \in Stages, Feed(s)
  PROVE  /\ Handed(startPull', startPull) /\ Handed(endPull', endPull)
         /\ fed' \in [Stages -> Nat \X Nat] /\ \A x \in Stages \ {s} : fed'[x] = fed[x]
         /\ fed[s][1] <= Len(startPull[s]) => fed'[s][1] <= Len(startPull[s])
         /\ fed[s][2] <= Len(endPull[s]) => fed'[s][2] <= Len(endPull[s])
<1> DEFINE toStart == IF Serial(s) THEN {Kids(s)[1]} ELSE ToSet(Kids(s))
           toEnd == IF Serial(s) THEN {Last(Kids(s))} ELSE ToSet(Kids(s))
           a == startPull[s]
           b == endPull[s]
<1>1. a \in Seq(State) /\ b \in Seq(State) /\ fed \in [Stages -> Nat \X Nat]
  BY DEF Typed, Interfaces
<1>2. /\ startPull' = [k \in Stages |-> IF k \in toStart THEN Merge(startPull[k], NewStarts(s)) ELSE startPull[k]]
      /\ endPull' = [k \in Stages |-> IF k \in toEnd THEN Merge(endPull[k], NewEnds(s)) ELSE endPull[k]]
      /\ fed' = [fed EXCEPT ![s] = <<fed[s][1] + Len(NewStarts(s)), fed[s][2] + Len(NewEnds(s))>>]
  BY DEF Feed
<1> HIDE DEF toStart, toEnd
<1>3. fed[s] \in Nat \X Nat /\ fed[s][1] \in Nat /\ fed[s][2] \in Nat /\ Len(a) \in Nat /\ Len(b) \in Nat
  BY <1>1
<1>4. /\ NewStarts(s) \in Seq(State) /\ Len(NewStarts(s)) \in Nat
      /\ fed[s][1] <= Len(a) => fed[s][1] + Len(NewStarts(s)) <= Len(a)
  <2>1. CASE Reads(s, 1)
    <3> DEFINE m == fed[s][1] + 1
    <3>1. m \in Int /\ Len(a) \in Int /\ \A i \in m .. Len(a) : a[i] \in State
      BY <1>1, <1>3, ElementOfSeq
    <3>2. /\ SubSeq(a, m, Len(a)) \in Seq(State)
          /\ Len(SubSeq(a, m, Len(a))) = IF m <= Len(a) THEN Len(a) - m + 1 ELSE 0
      BY <3>1, SubSeqProperties
    <3>3. NewStarts(s) = SubSeq(a, m, Len(a))
      BY <2>1 DEF NewStarts
    <3>4. IF m <= Len(a) THEN Len(a) - m + 1 \in Nat ELSE TRUE
      BY <1>3
    <3>5. NewStarts(s) \in Seq(State) /\ Len(NewStarts(s)) = IF m <= Len(a) THEN Len(a) - m + 1 ELSE 0
      BY <3>2, <3>3
    <3> HIDE DEF a
    <3> QED
      BY <1>3, <3>4, <3>5
  <2>2. CASE ~Reads(s, 1)
    <3>1. NewStarts(s) = <<>>
      BY <2>2 DEF NewStarts
    <3>2. <<>> \in Seq(State) /\ Len(<<>>) = 0
      OBVIOUS
    <3> HIDE DEF a, b
    <3> QED
      BY <1>3, <3>1, <3>2
  <2> QED
    BY <2>1, <2>2
<1>5. /\ NewEnds(s) \in Seq(State) /\ Len(NewEnds(s)) \in Nat
      /\ fed[s][2] <= Len(b) => fed[s][2] + Len(NewEnds(s)) <= Len(b)
  <2>1. CASE Reads(s, 2)
    <3> DEFINE m == fed[s][2] + 1
    <3>1. m \in Int /\ Len(b) \in Int /\ \A i \in m .. Len(b) : b[i] \in State
      BY <1>1, <1>3, ElementOfSeq
    <3>2. /\ SubSeq(b, m, Len(b)) \in Seq(State)
          /\ Len(SubSeq(b, m, Len(b))) = IF m <= Len(b) THEN Len(b) - m + 1 ELSE 0
      BY <3>1, SubSeqProperties
    <3>3. NewEnds(s) = SubSeq(b, m, Len(b))
      BY <2>1 DEF NewEnds
    <3>4. IF m <= Len(b) THEN Len(b) - m + 1 \in Nat ELSE TRUE
      BY <1>3
    <3>5. NewEnds(s) \in Seq(State) /\ Len(NewEnds(s)) = IF m <= Len(b) THEN Len(b) - m + 1 ELSE 0
      BY <3>2, <3>3
    <3> HIDE DEF b
    <3> QED
      BY <1>3, <3>4, <3>5
  <2>2. CASE ~Reads(s, 2)
    <3>1. NewEnds(s) = <<>>
      BY <2>2 DEF NewEnds
    <3>2. <<>> \in Seq(State) /\ Len(<<>>) = 0
      OBVIOUS
    <3> HIDE DEF a, b
    <3> QED
      BY <1>3, <3>1, <3>2
  <2> QED
    BY <2>1, <2>2
<1> HIDE DEF a, b
<1>6. Handed(startPull', startPull)
  BY <1>2, <1>4 DEF Handed
<1>7. Handed(endPull', endPull)
  BY <1>2, <1>5 DEF Handed
<1>8. <<fed[s][1] + Len(NewStarts(s)), fed[s][2] + Len(NewEnds(s))>> \in Nat \X Nat
  BY <1>3, <1>4, <1>5
<1>9. /\ fed' \in [Stages -> Nat \X Nat] /\ \A x \in Stages \ {s} : fed'[x] = fed[x]
      /\ fed'[s] = <<fed[s][1] + Len(NewStarts(s)), fed[s][2] + Len(NewEnds(s))>>
  BY <1>1, <1>2, <1>8
<1> QED
  BY <1>4, <1>5, <1>6, <1>7, <1>9 DEF a, b

(* The end of a batch: every solution and every failure is of a job's stage. *)
LEMMA FlushFacts ==
  ASSUME Typed, NEW s, Flush(s)
  PROVE  /\ ends' \in Interfaces /\ queue' \in Seq(Solution) /\ made' \in Nat
         /\ \A n \in DOMAIN queue' : \E j \in DOMAIN jobs :
              IsLeaf(queue'[n], jobs[j].stage) /\ queue'[n].start = jobs[j].from
         /\ Wider(ends', ends)
         /\ \A f \in failures' : f \in failures \/ \E j \in DOMAIN jobs : f.stage = jobs[j].stage
         /\ \A k \in Stages : (\A j \in DOMAIN jobs : jobs[j].stage # k) => ends'[k] = ends[k]
<1> DEFINE J == ToSet(jobs)
           of(new, k) == Picked(new, {x \in DOMAIN new : new[x].from.stage = k})
           to(new, k) == [x \in DOMAIN of(new, k) |-> of(new, k)[x].to]
<1>1. PICK outcome \in [DOMAIN jobs -> {ks \in SUBSET Keys : Cardinality(ks) <= 1}] :
       LET new == Reached(jobs, outcome)
       IN  /\ ends' = [k \in Stages |-> ends[k] \o to(new, k)]
           /\ queue' = [x \in DOMAIN new |-> Leaf(new[x].from.stage, new[x].from.from, new[x].to)]
           /\ failures' = failures \cup {Attempt(jobs[j].stage, jobs[j].from, NoState) :
                                           j \in {i \in DOMAIN jobs : outcome[i] = {}}}
           /\ made' = made + Len(new)
  BY Zenon DEF Flush
<1> HIDE DEF to
<1>2. jobs \in Seq(Job) /\ ends \in [Stages -> Seq(State)] /\ made \in Nat
  BY DEF Typed, Job, Interfaces
<1>3. jobs \in Seq(J) /\ \A y \in J : y \in Job /\ \E j \in DOMAIN jobs : jobs[j] = y
  BY <1>2 DEF ToSet
<1> HIDE DEF J
<1>4. PICK new :
         /\ new \in Seq([from : J, to : State])
         /\ ends' = [k \in Stages |-> ends[k] \o to(new, k)]
         /\ queue' = [x \in DOMAIN new |-> Leaf(new[x].from.stage, new[x].from.from, new[x].to)]
         /\ failures' = failures \cup {Attempt(jobs[j].stage, jobs[j].from, NoState) :
                                           j \in {i \in DOMAIN jobs : outcome[i] = {}}}
         /\ made' = made + Len(new)
  <2>1. Reached(jobs, outcome) \in Seq([from : J, to : State])
    BY <1>3, Outcomes
  <2> QED
    BY <1>1, <2>1
<1>5. /\ Len(new) \in Nat /\ DOMAIN new = 1 .. Len(new)
      /\ \A x \in DOMAIN new : new[x].from \in J /\ new[x].to \in State
  BY <1>4, ToStates
<1>6. ASSUME NEW k \in Stages
      PROVE  /\ to(new, k) \in Seq(State)
             /\ (\A j \in DOMAIN jobs : jobs[j].stage # k) => to(new, k) = <<>>
  <2> DEFINE xs == {x \in DOMAIN new : new[x].from.stage = k}
  <2>1. /\ of(new, k) \in Seq([from : J, to : State])
        /\ of(new, k) = <<>> <=> xs = {}
    <3>1. xs \subseteq DOMAIN new
      OBVIOUS
    <3> HIDE DEF xs
    <3>2. Picked(new, xs) \in Seq([from : J, to : State]) /\ (Picked(new, xs) = <<>> <=> xs = {})
      BY <1>4, <3>1, PickedFacts
    <3> QED
      BY <3>2 DEF xs
  <2>2. (\A j \in DOMAIN jobs : jobs[j].stage # k) => xs = {}
    BY <1>3, <1>5
  <2> HIDE DEF of, xs
  <2>3. to(new, k) \in Seq(State) /\ Len(to(new, k)) = Len(of(new, k))
    BY <2>1, ToStates DEF to
  <2>4. of(new, k) = <<>> => to(new, k) = <<>>
    BY <2>3, EmptySeq
  <2> QED
    BY <2>1, <2>2, <2>3, <2>4
<1>7. /\ ends' \in Interfaces /\ Wider(ends', ends)
      /\ \A k \in Stages : (\A j \in DOMAIN jobs : jobs[j].stage # k) => ends'[k] = ends[k]
  <2>1. \A k \in Stages : ends[k] \in Seq(State) /\ ends[k] \o to(new, k) \in Seq(State)
    BY <1>2, <1>6
  <2>2. \A k \in Stages : ends'[k] = ends[k] \o to(new, k)
    BY <1>4
  <2>3. \A k \in Stages : ends[k] \o <<>> = ends[k]
    BY <2>1
  <2>4. ends' \in Interfaces
    BY <1>4, <2>1 DEF Interfaces
  <2>5. \A k \in Stages : ToSet(ends[k] \o to(new, k)) = ToSet(ends[k]) \cup ToSet(to(new, k))
    BY <1>2, <1>6, JoinedSet
  <2>6. Wider(ends', ends)
    BY <2>2, <2>5 DEF Wider
  <2> QED
    BY <1>6, <2>2, <2>3, <2>4, <2>6
<1>8. ASSUME NEW x \in 1 .. Len(new)
      PROVE  LET q == Leaf(new[x].from.stage, new[x].from.from, new[x].to)
             IN  /\ q \in Solution
                 /\ \E j \in DOMAIN jobs : IsLeaf(q, jobs[j].stage) /\ q.start = jobs[j].from
  <2>1. new[x].from \in J /\ new[x].to \in State
    BY <1>5
  <2>2. PICK j \in DOMAIN jobs : jobs[j] = new[x].from
    BY <1>3, <2>1
  <2>3. new[x].from.stage \in Stages /\ new[x].from.from \in State
    BY <1>3, <2>1 DEF Job
  <2>4. Leaf(new[x].from.stage, new[x].from.from, new[x].to).start = new[x].from.from
    BY DEF Leaf
  <2> QED
    BY <2>1, <2>2, <2>3, <2>4, LeafTyped DEF IsLeaf
<1>9. queue' \in Seq(Solution) /\ \A n \in DOMAIN queue' : \E j \in DOMAIN jobs :
        IsLeaf(queue'[n], jobs[j].stage) /\ queue'[n].start = jobs[j].from
  <2> DEFINE q(x) == Leaf(new[x].from.stage, new[x].from.from, new[x].to)
  <2>1. \A x \in 1 .. Len(new) : q(x) \in Solution /\ \E j \in DOMAIN jobs :
          IsLeaf(q(x), jobs[j].stage) /\ q(x).start = jobs[j].from
    BY <1>8
  <2>2. queue' = [x \in 1 .. Len(new) |-> q(x)]
    BY <1>4, <1>5
  <2> HIDE DEF q
  <2> QED
    BY <1>5, <2>1, <2>2
<1>10. \A f \in failures' : f \in failures \/ \E j \in DOMAIN jobs : f.stage = jobs[j].stage
  BY <1>4 DEF Attempt
<1>11. made' \in Nat
  BY <1>2, <1>4, <1>5
<1> QED
  BY <1>7, <1>9, <1>10, <1>11

(* ComputeIK solves candidates. *)
LEMMA IkCandidatesFacts ==
  ASSUME Typed, NEW s \in Stages, IkCandidates(s)
  PROVE  /\ Handed(starts', starts) /\ Handed(ends', ends)
         /\ queue' \in Seq(Solution) /\ \A n \in DOMAIN queue' : IsLeaf(queue'[n], s)
         /\ \A f \in failures' : f \in failures \/ f.stage = s
         /\ processed' \in [Stages -> Nat] /\ \A x \in Stages \ {s} : processed'[x] = processed[x]
         /\ LET n == Len(Sols(Kids(s)[1])) IN processed[s] <= n => processed'[s] <= n
         /\ made' \in Nat
<1> DEFINE xs == Sols(Kids(s)[1])
           todo == SubSeq(xs, processed[s] + 1, Len(xs))
           new(good) == [x \in DOMAIN Picked(todo, good) |->
                           [key |-> Picked(todo, good)[x].start.key, id |-> made + x]]
<1>1. PICK taken \in 0 .. Len(todo), good \in SUBSET (1 .. Len(todo)) :
        /\ starts' = [starts EXCEPT ![s] = Merge(starts[s], new(good))]
        /\ ends' = [ends EXCEPT ![s] = Merge(ends[s], new(good))]
        /\ queue' = [x \in DOMAIN new(good) |-> Leaf(s, new(good)[x], new(good)[x])]
        /\ made' = made + Len(new(good))
        /\ failures' = failures \cup {Attempt(s, todo[t].start, NoState) : t \in (1 .. taken) \ good}
        /\ processed' = [processed EXCEPT ![s] = processed[s] + taken]
  BY Zenon DEF IkCandidates
<1>2. xs \in Seq(Solution) /\ Len(xs) \in Nat /\ processed[s] \in Nat /\ made \in Nat
      /\ processed \in [Stages -> Nat]
  BY SolsFacts DEF Typed
<1>3. /\ todo \in Seq(Solution)
      /\ Len(todo) = IF processed[s] + 1 <= Len(xs) THEN Len(xs) - (processed[s] + 1) + 1 ELSE 0
  <2> DEFINE m == processed[s] + 1
  <2>1. m \in Int /\ Len(xs) \in Int /\ \A i \in m .. Len(xs) : xs[i] \in Solution
    BY <1>2, ElementOfSeq
  <2> HIDE DEF m, xs
  <2>2. SubSeq(xs, m, Len(xs)) \in Seq(Solution)
        /\ Len(SubSeq(xs, m, Len(xs))) = IF m <= Len(xs) THEN Len(xs) - m + 1 ELSE 0
    BY <2>1, SubSeqProperties
  <2> QED
    BY <2>2 DEF m
<1> HIDE DEF xs, todo
<1>4. DOMAIN todo = 1 .. Len(todo) /\ Len(todo) \in Nat
  BY <1>3
<1> DEFINE solved == Picked(todo, good)
<1>5. solved \in Seq(Solution)
  BY <1>3, <1>4, PickedFacts
<1> HIDE DEF solved
<1>6. new(good) = [x \in DOMAIN solved |-> [key |-> solved[x].start.key, id |-> made + x]]
  BY DEF solved
<1>7. \A x \in 1 .. Len(solved) : [key |-> solved[x].start.key, id |-> made + x] \in State
  <2> SUFFICES ASSUME NEW x \in 1 .. Len(solved)
               PROVE  [key |-> solved[x].start.key, id |-> made + x] \in State
    OBVIOUS
  <2>1. solved[x] \in Solution /\ Len(solved) \in Nat
    BY <1>5, ElementOfSeq
  <2>2. solved[x].start \in State
    BY <2>1 DEF Solution
  <2> QED
    BY <1>2, <2>1, <2>2 DEF State
<1>8. /\ new(good) \in Seq(State) /\ Len(new(good)) \in Nat /\ DOMAIN new(good) = 1 .. Len(new(good))
  <2>1. Len(solved) \in Nat /\ DOMAIN solved = 1 .. Len(solved)
    BY <1>5
  <2> HIDE DEF new
  <2> QED
    BY <1>6, <1>7, <2>1
<1> DEFINE xx == new(good)
<1> HIDE DEF new
<1>9. new(good) \in [1 .. Len(new(good)) -> State]
  BY <1>8
<1>10. Handed(starts', starts) /\ Handed(ends', ends)
  <2>1. starts \in Interfaces /\ ends \in Interfaces
    BY DEF Typed
  <2>2. Handed(starts', starts)
    BY <1>1, <1>8, <2>1, HandedTo
  <2>3. Handed(ends', ends)
    BY <1>1, <1>8, <2>1, HandedTo
  <2> QED
    BY <2>2, <2>3
<1>11. queue' \in Seq(Solution) /\ \A n \in DOMAIN queue' : IsLeaf(queue'[n], s)
  <2>1. queue' = [x \in 1 .. Len(xx) |-> Leaf(s, xx[x], xx[x])] /\ Len(xx) \in Nat /\ xx \in [1 .. Len(xx) -> State]
    BY <1>1, <1>8, <1>9
  <2> HIDE DEF xx
  <2> QED
    BY <2>1, Leaves
<1>12. \A f \in failures' : f \in failures \/ f.stage = s
  BY <1>1 DEF Attempt
<1>13. /\ processed' \in [Stages -> Nat] /\ \A x \in Stages \ {s} : processed'[x] = processed[x]
       /\ processed'[s] = processed[s] + taken /\ taken \in 0 .. Len(todo)
  BY <1>1, <1>2, <1>4
<1>14. processed[s] <= Len(xs) => processed'[s] <= Len(xs)
  BY <1>2, <1>3, <1>13
<1>15. made' \in Nat
  BY <1>1, <1>2, <1>8
<1> QED
  BY <1>10, <1>11, <1>12, <1>13, <1>14, <1>15 DEF xs

-----------------------------------------------------------------------------
(* Every step keeps the types. *)
LEMMA AtFacts ==
  ASSUME NEW s, NEW n, At(s, n)
  PROVE  queue = <<>> /\ stack # <<>> /\ verdict = "planning" /\ Top.stage = s /\ Top.at = n
  BY DEF At, Thread

LEMMA RunsFacts ==
  ASSUME Typed, NEW s \in Stages, NEW i, Runs(s, i)
  PROVE  /\ queue = <<>> /\ stack # <<>> /\ verdict = "planning" /\ Top.stage = s
         /\ i \in DOMAIN Kids(s) /\ i \in Nat /\ Kids(s)[i] \in Stages
         /\ \/ Kind(s) # "fallbacks" /\ Container(s) /\ Top.at = i /\ current' = current
            \/ /\ Kind(s) = "fallbacks" /\ Top.at = 1 /\ ~Top.ran /\ current[s] <= i
               /\ current' = [current EXCEPT ![s] = i]
<1>0. task \in Tasks
  BY DEF Typed
<1>n. ASSUME i \in DOMAIN Kids(s) PROVE i \in Nat /\ Kids(s)[i] \in Stages
  <2>1. DOMAIN Kids(s) = 1 .. Len(Kids(s)) /\ Len(Kids(s)) \in Nat
    BY <1>0, StageFacts
  <2>2. Kids(s)[i] \in Stages
    BY <1>0, <1>n, KidFacts
  <2> QED
    BY <1>n, <2>1, <2>2
<1>1. CASE InOrder(s, i) /\ UNCHANGED current
  <2>1. At(s, i) /\ i \in DOMAIN Kids(s) /\ Kind(s) # "fallbacks" /\ Container(s)
    BY <1>1 DEF InOrder
  <2>2. queue = <<>> /\ stack # <<>> /\ verdict = "planning" /\ Top.stage = s /\ Top.at = i
    BY <2>1, AtFacts
  <2> QED
    BY <1>1, <1>n, <2>1, <2>2
<1>2. CASE Trying(s, i) /\ current' = [current EXCEPT ![s] = i]
  <2>1. i \in DOMAIN Kids(s) /\ i >= current[s] /\ At(s, 1) /\ Kind(s) = "fallbacks" /\ ~Top.ran
    BY <1>2 DEF Trying, Candidates
  <2>2. queue = <<>> /\ stack # <<>> /\ verdict = "planning" /\ Top.stage = s /\ Top.at = 1
    BY <2>1, AtFacts
  <2>3. current[s] \in Nat
    BY DEF Typed
  <2> QED
    BY <1>2, <1>n, <2>1, <2>2, <2>3
<1> QED
  BY <1>1, <1>2 DEF Runs

TypedNext ==
  /\ task' = task
  /\ startPull' \in Interfaces /\ endPull' \in Interfaces
  /\ starts' \in Interfaces /\ ends' \in Interfaces
  /\ fed' \in [Stages -> Nat \X Nat]
  /\ emitted' \in Seq(Solution) /\ queue' \in Seq(Solution)
  /\ current' \in [Stages -> Nat] /\ processed' \in [Stages -> Nat]
  /\ jobs' \in Seq(Job) /\ stack' \in Seq(CallFrame) /\ made' \in Nat

LEMMA TypedNextFacts == Typed /\ TypedNext => Typed'
<1> SUFFICES ASSUME Typed, TypedNext PROVE Typed'
  OBVIOUS
<1>1. task' = task /\ task \in Tasks
  BY DEF Typed, TypedNext
<1>2. Stages' = Stages
  BY <1>1 DEF Stages
<1>3. Segment' = Segment
  BY <1>2 DEF Segment
<1>4. Solution' = Solution
  BY <1>2, <1>3 DEF Solution
<1>5. CallFrame' = CallFrame /\ Interfaces' = Interfaces
  BY <1>2 DEF CallFrame, Interfaces
<1> QED
  BY <1>1, <1>2, <1>4, <1>5 DEF Typed, TypedNext, Job

LEMMA EffectTypes ==
  ASSUME Typed, NEW k \in Stages, LeafEffect(k)
  PROVE  startPull' \in Interfaces /\ endPull' \in Interfaces
<1>1. startPull \in [Stages -> Seq(State)] /\ endPull \in [Stages -> Seq(State)] /\ <<>> \in Seq(State)
  BY DEF Typed, Interfaces
<1>2. [startPull EXCEPT ![k] = <<>>] \in [Stages -> Seq(State)] /\ [endPull EXCEPT ![k] = <<>>] \in [Stages -> Seq(State)]
  BY <1>1
<1> QED
  BY <1>1, <1>2 DEF LeafEffect, Interfaces

LEMMA LeafComputes ==
  ASSUME Typed, queue = <<>>, NEW s \in Stages, NEW i \in DOMAIN Kids(s), ComputeLeaf(s, i)
  PROVE  /\ Kids(s)[i] \in Stages /\ ~Container(Kids(s)[i]) /\ Kind(Kids(s)[i]) # "ik"
         /\ LeafEffect(Kids(s)[i])
         /\ jobs' = jobs \/ (Batched(s) /\ Defer(Kids(s)[i]))
<1> DEFINE k == Kids(s)[i]
<1>1. k \in Stages
  BY KidFacts DEF Typed
<1> HIDE DEF k
<1>2. CASE Kind(k) = "generator" /\ Generate(k)
  <2>1. jobs' = jobs
    BY <1>2 DEF Generate
  <2> QED
    BY <1>1, <1>2, <2>1, GenerateFacts DEF Container, Serial, Parallel, k
<1>3. CASE Kind(k) = "connect" /\ Join(k)
  <2>1. jobs' = jobs
    BY <1>3 DEF Join
  <2> QED
    BY <1>1, <1>3, <2>1, JoinFacts DEF Container, Serial, Parallel, k
<1>4. CASE Kind(k) \in {"motion", "either"} /\ Forward(k)
  <2>1. jobs' = jobs
    BY <1>4 DEF Forward
  <2> QED
    BY <1>1, <1>4, <2>1, ForwardFacts DEF Container, Serial, Parallel, k
<1>5. CASE Kind(k) = "motion" /\ Batched(s) /\ Defer(k)
  BY <1>1, <1>5, DeferFacts DEF Container, Serial, Parallel, k
<1>6. CASE Kind(k) = "either" /\ Backward(k)
  <2>1. jobs' = jobs
    BY <1>6 DEF Backward
  <2> QED
    BY <1>1, <1>6, <2>1, BackwardFacts DEF Container, Serial, Parallel, k
<1> QED
  BY <1>2, <1>3, <1>4, <1>5, <1>6 DEF ComputeLeaf, k

LEMMA TypedStep ==
  ASSUME Typed, [Next]_vars PROVE TypedNext
<1> USE DEF pulls, progress
<1>0. /\ task \in Tasks
      /\ startPull \in Interfaces /\ endPull \in Interfaces
      /\ starts \in Interfaces /\ ends \in Interfaces
      /\ fed \in [Stages -> Nat \X Nat]
      /\ emitted \in Seq(Solution) /\ queue \in Seq(Solution)
      /\ current \in [Stages -> Nat] /\ processed \in [Stages -> Nat]
      /\ jobs \in Seq(Job) /\ stack \in Seq(CallFrame) /\ made \in Nat
  BY DEF Typed, Job
<1>s. \A s \in Stages : s \in Nat /\ Len(Kids(s)) \in Nat
  BY <1>0, StageFacts
<1>k. ASSUME NEW s \in Stages, NEW i \in DOMAIN Kids(s) PROVE i \in Nat /\ i + 1 \in Nat
  <2>1. DOMAIN Kids(s) = 1 .. Len(Kids(s)) /\ Len(Kids(s)) \in Nat
    BY <1>0, StageFacts
  <2> QED
    BY <1>k, <2>1
<1>p. ASSUME stack # <<>>, Pop PROVE stack' \in Seq(CallFrame)
  BY <1>p, StackFacts DEF Pop
<1>g. ASSUME stack # <<>>, NEW n \in Nat, NEW ran \in BOOLEAN, Goto(n, ran) PROVE stack' \in Seq(CallFrame)
  BY <1>g, StackFacts DEF Goto
<1>1. CASE InitTask
  BY <1>0, <1>1 DEF InitTask, TypedNext
<1>2. CASE Pass
  <2>1. Frame(Root) \in CallFrame
    BY <1>0, StageFacts DEF Frame, CallFrame
  <2>2. <<Frame(Root)>> \in Seq(CallFrame)
    BY <2>1
  <2> QED
    BY <1>0, <1>2, <2>2 DEF Pass, TypedNext
<1>3. CASE Conclude
  BY <1>0, <1>3 DEF Conclude, TypedNext
<1>4. CASE Emit
  <2>1. queue # <<>> /\ Tail(queue) \in Seq(Solution)
    BY <1>0, <1>4, HeadTailProperties DEF Emit
  <2>2. CASE Known(Head(queue))
    BY <1>0, <1>4, <2>1, <2>2 DEF Emit, TypedNext
  <2>3. CASE ~Known(Head(queue))
    <3> DEFINE all == Append(emitted, Head(queue))
    <3>1. emitted' = all /\ Lift(all)
      BY <1>4, <2>3, Zenon DEF Emit
    <3>2. PICK new : LiftsTo(Head(queue), all, new) /\ queue' = new \o Tail(queue)
      BY <2>1, <3>1, LiftFacts
    <3>3. new \in Seq(Solution) /\ all \in Seq(Solution)
      BY <2>1, <3>2, NewestFacts DEF LiftsTo
    <3>4. queue' \in Seq(Solution)
      BY <2>1, <3>2, <3>3
    <3> QED
      BY <1>0, <1>4, <3>1, <3>3, <3>4 DEF Emit, TypedNext
  <2> QED
    BY <2>2, <2>3
<1>5. ASSUME NEW s \in Stages, EnterSolved(s) PROVE TypedNext
  BY <1>0, <1>5, <1>p, AtFacts DEF EnterSolved, TypedNext
<1>6. ASSUME NEW s \in Stages, Enter(s) PROVE TypedNext
  <2>1. Feed(s) /\ stack # <<>> /\ Goto(1, FALSE)
    BY <1>6, AtFacts DEF Enter
  <2>2. Handed(startPull', startPull) /\ Handed(endPull', endPull) /\ fed' \in [Stages -> Nat \X Nat]
    BY <2>1, FeedFacts
  <2>3. startPull' \in Interfaces /\ endPull' \in Interfaces /\ stack' \in Seq(CallFrame)
    BY <1>0, <1>g, <2>1, <2>2, HandedFacts
  <2> QED
    BY <1>0, <1>6, <2>2, <2>3 DEF Enter, TypedNext
<1>7. ASSUME NEW s \in Stages, Exhausted(s) PROVE TypedNext
  <2>1. stack # <<>> /\ Pop /\ current' = [current EXCEPT ![s] = Len(Kids(s)) + 1]
    BY <1>7, AtFacts DEF Exhausted
  <2>2. current' \in [Stages -> Nat] /\ stack' \in Seq(CallFrame)
    BY <1>0, <1>p, <1>s, <2>1
  <2> QED
    BY <1>0, <1>7, <2>2 DEF Exhausted, TypedNext
<1>8. ASSUME NEW s \in Stages, Leave(s) PROVE TypedNext
  BY <1>0, <1>8, <1>p, AtFacts DEF Leave, TypedNext
<1>9. ASSUME NEW s \in Stages, Flush(s) PROVE TypedNext
  <2>1. ends' \in Interfaces /\ queue' \in Seq(Solution) /\ made' \in Nat
    BY <1>9, FlushFacts
  <2>2. /\ jobs' = <<>>
        /\ UNCHANGED <<task, face, pulls, starts, emitted, progress, stack, verdict>>
    BY <1>9 DEF Flush
  <2>3. jobs' \in Seq(Job)
    BY <2>2
  <2> QED
    BY <1>0, <2>1, <2>2, <2>3 DEF TypedNext
<1>10. ASSUME NEW s \in Stages, IkChild(s) PROVE TypedNext
  <2>1. Goto(1, FALSE) /\ Kind(s) = "ik" /\ At(s, 0) /\ UNCHANGED <<task, face, emitted, current, verdict>>
    BY <1>10 DEF IkChild
  <2>2. stack' \in Seq(CallFrame)
    BY <1>g, <2>1, AtFacts
  <2>3. CASE Generate(Kids(s)[1])
    <3>1. Kids(s)[1] \in Stages
      BY <1>0, <2>1, StageFacts
    <3>2. LeafEffect(Kids(s)[1])
      BY <2>3, <3>1, GenerateFacts
    <3>3. startPull' \in Interfaces /\ endPull' \in Interfaces
      BY <3>1, <3>2, EffectTypes
    <3> QED
      BY <1>0, <2>1, <2>2, <3>2, <3>3 DEF LeafEffect, TypedNext
  <2>4. CASE UNCHANGED <<pulls, starts, ends, computed, processed, failures, jobs, made, queue>>
    BY <1>0, <2>1, <2>2, <2>4 DEF TypedNext
  <2> QED
    BY <1>10, <2>3, <2>4 DEF IkChild
<1>11. ASSUME NEW s \in Stages, IkCandidates(s) PROVE TypedNext
  <2>1. /\ Handed(starts', starts) /\ Handed(ends', ends) /\ queue' \in Seq(Solution)
        /\ processed' \in [Stages -> Nat] /\ made' \in Nat
    BY <1>11, IkCandidatesFacts
  <2>2. Pop /\ At(s, 1) /\ UNCHANGED <<task, face, pulls, emitted, computed, current, jobs, verdict>>
    BY <1>11 DEF IkCandidates
  <2>3. starts' \in Interfaces /\ ends' \in Interfaces /\ stack' \in Seq(CallFrame)
    BY <1>0, <1>p, <2>1, <2>2, AtFacts, HandedFacts
  <2> QED
    BY <1>0, <2>1, <2>2, <2>3 DEF TypedNext
<1>12. ASSUME NEW s \in Stages, NEW i \in DOMAIN Kids(s), Skip(s, i) PROVE TypedNext
  <2>0. At(s, i) /\ i + 1 \in Nat
    BY <1>12, <1>k DEF Skip, InOrder
  <2>1. i + 1 \in Nat /\ stack # <<>>
    BY <2>0, AtFacts
  <2> QED
    BY <1>0, <1>12, <1>g, <2>1 DEF Skip, TypedNext
<1>13. ASSUME NEW s \in Stages, NEW i \in DOMAIN Kids(s), Runs(s, i) PROVE current' \in [Stages -> Nat]
  BY <1>0, <1>13, RunsFacts
<1>14. ASSUME NEW s \in Stages, NEW i \in DOMAIN Kids(s), Runs(s, i), Call(s, i) PROVE TypedNext
  <2>1. Kids(s)[i] \in Stages /\ i \in Nat /\ stack # <<>>
    BY <1>14, RunsFacts
  <2>2. stack' \in Seq(CallFrame)
    BY <1>14, <2>1, StackFacts DEF Call
  <2> QED
    BY <1>0, <1>13, <1>14, <2>2 DEF Call, TypedNext
<1>15. ASSUME NEW s \in Stages, NEW i \in DOMAIN Kids(s), Runs(s, i), ComputeLeaf(s, i) PROVE TypedNext
  <2>1. Kids(s)[i] \in Stages /\ i \in Nat /\ stack # <<>> /\ queue = <<>>
    BY <1>15, RunsFacts
  <2>2. LeafEffect(Kids(s)[i])
    BY <1>15, <2>1, LeafComputes
  <2>3. startPull' \in Interfaces /\ endPull' \in Interfaces
    BY <2>1, <2>2, EffectTypes
  <2>4. Goto(i, TRUE) /\ UNCHANGED <<task, face, emitted, verdict>>
    BY <1>15, Zenon DEF ComputeLeaf
  <2>5. stack' \in Seq(CallFrame)
    BY <1>g, <2>1, <2>4
  <2> QED
    BY <1>0, <1>13, <1>15, <2>2, <2>3, <2>4, <2>5 DEF LeafEffect, TypedNext
<1>16. ASSUME NEW s \in Stages, NEW i \in DOMAIN Kids(s), Propagate(s, i) PROVE TypedNext
  <2>1. i + 1 \in Nat /\ stack # <<>> /\ Goto(i + 1, FALSE) /\ Propagated(s, i)
    <3>1. At(s, i) /\ i + 1 \in Nat
      BY <1>16, <1>k DEF Propagate
    <3>2. stack # <<>>
      BY <3>1, AtFacts
    <3> QED
      BY <1>16, <3>1, <3>2 DEF Propagate
  <2>2. Handed(startPull', startPull) /\ Handed(endPull', endPull) /\ Handed(starts', starts) /\ Handed(ends', ends)
    BY <2>1, PropagatedFacts
  <2>3. startPull' \in Interfaces /\ endPull' \in Interfaces /\ starts' \in Interfaces /\ ends' \in Interfaces
    BY <1>0, <2>2, HandedFacts
  <2> QED
    BY <1>0, <1>16, <1>g, <2>1, <2>3 DEF Propagate, TypedNext
<1>17. ASSUME NEW s \in Stages, NEW i \in DOMAIN Kids(s), FallbacksTried(s, i) PROVE TypedNext
  <2>1. i \in Nat /\ stack # <<>> /\ Pop /\ Propagated(s, i)
    <3>1. At(s, i) /\ i \in Nat
      BY <1>17, <1>k DEF FallbacksTried
    <3>2. stack # <<>>
      BY <3>1, AtFacts
    <3> QED
      BY <1>17, <3>1, <3>2 DEF FallbacksTried
  <2>2. Handed(startPull', startPull) /\ Handed(endPull', endPull) /\ Handed(starts', starts) /\ Handed(ends', ends)
    BY <2>1, PropagatedFacts
  <2>3. startPull' \in Interfaces /\ endPull' \in Interfaces /\ starts' \in Interfaces /\ ends' \in Interfaces
    BY <1>0, <2>2, HandedFacts
  <2>4. current' \in [Stages -> Nat]
    BY <1>0, <1>17, <1>s, <2>1 DEF FallbacksTried
  <2> QED
    BY <1>0, <1>17, <1>p, <2>1, <2>3, <2>4 DEF FallbacksTried, TypedNext
<1>18. ASSUME NEW s \in Stages, NEW i \in DOMAIN Kids(s), StageRaises(s, i) PROVE TypedNext
  <2>1. stack' \in Seq(CallFrame)
    BY <1>18 DEF StageRaises
  <2> QED
    BY <1>0, <1>13, <1>18, <2>1 DEF StageRaises, TypedNext
<1>19. CASE UNCHANGED vars
  BY <1>0, <1>19 DEF vars, TypedNext
<1> QED
  BY <1>1, <1>2, <1>3, <1>4, <1>5, <1>6, <1>7, <1>8, <1>9, <1>10, <1>11, <1>12, <1>14, <1>15, <1>16,
     <1>17, <1>18, <1>19 DEF Next, Plan, ContainerStep, ChildStep, RunChild

LEMMA TypedInit == Init => Typed
<1> SUFFICES ASSUME Init PROVE Typed
  OBVIOUS
<1>1. task \in Tasks /\ \A s \in Stages : <<>> \in Seq(State) /\ <<0, 0>> \in Nat \X Nat
  BY DEF Init
<1> QED
  BY <1>1 DEF Init, Typed, Interfaces

-----------------------------------------------------------------------------
(* The tree does not change. *)
LEMMA SameTree ==
  ASSUME task' = task
  PROVE  /\ Stages' = Stages /\ Line' = Line
         /\ \A s : /\ Kind(s)' = Kind(s) /\ Kids(s)' = Kids(s) /\ Parent(s)' = Parent(s)
                   /\ Serial(s)' = Serial(s) /\ Parallel(s)' = Parallel(s)
                   /\ Container(s)' = Container(s) /\ Batched(s)' = Batched(s)
                   /\ Subtree(s)' = Subtree(s)
<1>1. Stages' = Stages /\ \A s : Kind(s)' = Kind(s) /\ Kids(s)' = Kids(s)
  BY DEF Stages, Kind, Kids
<1>2. \A s : Parent(s)' = Parent(s)
  BY <1>1 DEF Parent
<1>3. Line' = Line
  BY <1>1, <1>2 DEF Line
<1>4. \A s : Serial(s)' = Serial(s) /\ Parallel(s)' = Parallel(s)
  BY <1>1 DEF Serial, Parallel
<1>5. \A s : Container(s)' = Container(s)
  BY <1>4 DEF Container
<1>6. \A s : Batched(s)' = Batched(s)
  BY <1>1 DEF Batched
<1>7. \A s : Subtree(s)' = Subtree(s)
  BY <1>1, <1>3 DEF Subtree
<1> QED
  BY <1>1, <1>2, <1>3, <1>4, <1>5, <1>6, <1>7

-----------------------------------------------------------------------------
(* Which steps touch the interfaces, the queue and the open batch. *)
LEMMA NextCases ==
  ASSUME [Next]_vars
  PROVE  \/ InitTask \/ Pass \/ Conclude \/ Emit
         \/ \E s \in Stages : \/ EnterSolved(s) \/ Enter(s) \/ Exhausted(s) \/ Leave(s) \/ Flush(s)
                              \/ IkChild(s) \/ IkCandidates(s)
         \/ \E s \in Stages : \E i \in DOMAIN Kids(s) :
              \/ Skip(s, i) \/ (Runs(s, i) /\ Call(s, i)) \/ (Runs(s, i) /\ ComputeLeaf(s, i))
              \/ Propagate(s, i) \/ FallbacksTried(s, i) \/ StageRaises(s, i)
         \/ UNCHANGED vars
BY DEF Next, Plan, ContainerStep, ChildStep, RunChild

LEMMA InterfaceSteps ==
  ASSUME Typed, [Next]_vars
  PROVE  \/ UNCHANGED <<pulls, starts, ends>>
         \/ \E s \in Stages : Enter(s) \/ Flush(s) \/ IkChild(s) \/ IkCandidates(s)
         \/ \E s \in Stages : \E i \in DOMAIN Kids(s) :
              (Runs(s, i) /\ ComputeLeaf(s, i)) \/ Propagate(s, i) \/ FallbacksTried(s, i)
<1> USE DEF pulls
<1>1. CASE InitTask \/ Pass \/ Conclude \/ Emit
  BY <1>1 DEF InitTask, Pass, Conclude, Emit
<1>2. ASSUME NEW s \in Stages, EnterSolved(s) \/ Exhausted(s) \/ Leave(s) PROVE UNCHANGED <<pulls, starts, ends>>
  BY <1>2 DEF EnterSolved, Exhausted, Leave
<1>3. ASSUME NEW s \in Stages, NEW i \in DOMAIN Kids(s), Skip(s, i) \/ Call(s, i) \/ StageRaises(s, i)
      PROVE  UNCHANGED <<pulls, starts, ends>>
  BY <1>3 DEF Skip, Call, StageRaises
<1>4. CASE UNCHANGED vars
  BY <1>4 DEF vars
<1> QED
  BY <1>1, <1>2, <1>3, <1>4, NextCases

LEMMA IkChildComputes ==
  ASSUME Typed, NEW s \in Stages, IkChild(s)
  PROVE  \/ UNCHANGED <<pulls, starts, ends, processed, failures, jobs, queue>>
         \/ /\ Kids(s)[1] \in Stages /\ ~Container(Kids(s)[1]) /\ Kind(Kids(s)[1]) = "generator"
            /\ LeafEffect(Kids(s)[1]) /\ jobs' = jobs
<1> DEFINE k == Kids(s)[1]
<1>1. Kind(s) = "ik" /\ task \in Tasks
  BY DEF IkChild, Typed
<1>2. k \in Stages /\ Kind(k) = "generator"
  BY <1>1, StageFacts
<1> HIDE DEF k
<1>3. CASE Generate(k)
  <2>1. LeafEffect(k) /\ jobs' = jobs
    BY <1>2, <1>3, GenerateFacts DEF Generate
  <2> QED
    BY <1>2, <2>1 DEF Container, Serial, Parallel, k
<1>4. CASE UNCHANGED <<pulls, starts, ends, processed, failures, jobs, queue>>
  BY <1>4
<1> QED
  BY <1>3, <1>4 DEF IkChild, k

(* Interfaces keep one state per key, and what a container counts as handed
   down is there. *)
Kept == \A s \in Stages :
  /\ Distinct(startPull[s]) /\ Distinct(endPull[s])
  /\ Container(s) => Distinct(starts[s]) /\ Distinct(ends[s])
  /\ fed[s][1] <= Len(startPull[s]) /\ fed[s][2] <= Len(endPull[s])
  /\ ~Container(s) => fed[s] = <<0, 0>>

(* The requests of an open batch are of children of the running container. *)
Open ==
  verdict # "raised" /\ jobs # <<>> =>
    /\ verdict = "planning" /\ stack # <<>> /\ Batched(Top.stage)
    /\ \A n \in DOMAIN jobs : jobs[n].stage \in ToSet(Kids(Top.stage))

LEMMA KeptFrom ==
  ASSUME Typed, Kept, task' = task,
         NEW k, k \in Stages => ~Container(k),
         \A s \in Stages \ {k} :
           /\ Len(startPull'[s]) >= Len(startPull[s]) /\ Len(endPull'[s]) >= Len(endPull[s])
           /\ Distinct(startPull[s]) => Distinct(startPull'[s])
           /\ Distinct(endPull[s]) => Distinct(endPull'[s])
           /\ Container(s) => /\ Distinct(starts[s]) => Distinct(starts'[s])
                              /\ Distinct(ends[s]) => Distinct(ends'[s]),
         k \in Stages => /\ startPull'[k] \in {startPull[k], <<>>} /\ endPull'[k] \in {endPull[k], <<>>}
                         /\ fed'[k] = fed[k],
         startPull \in Interfaces, endPull \in Interfaces,
         startPull' \in Interfaces, endPull' \in Interfaces,
         fed \in [Stages -> Nat \X Nat], fed' \in [Stages -> Nat \X Nat],
         \A s \in Stages : \/ fed'[s] = fed[s]
                           \/ /\ Container(s)
                              /\ fed'[s][1] <= Len(startPull[s]) /\ fed'[s][2] <= Len(endPull[s])
  PROVE  Kept'
<1>1. Stages' = Stages /\ \A s : Container(s)' = Container(s)
  BY SameTree
<1>2. Distinct(<<>>)
  BY DEF Distinct
<1>3. ASSUME NEW s \in Stages
      PROVE  /\ Len(startPull[s]) \in Nat /\ Len(endPull[s]) \in Nat
             /\ Len(startPull'[s]) \in Nat /\ Len(endPull'[s]) \in Nat
             /\ fed[s][1] \in Nat /\ fed[s][2] \in Nat /\ fed'[s][1] \in Nat /\ fed'[s][2] \in Nat
  BY <1>3 DEF Interfaces
<1>4. ASSUME NEW s \in Stages, s # k
      PROVE  /\ Distinct(startPull'[s]) /\ Distinct(endPull'[s])
             /\ Container(s) => Distinct(starts'[s]) /\ Distinct(ends'[s])
             /\ ~Container(s) => fed'[s] = <<0, 0>>
  BY <1>4 DEF Kept
<1>5. ASSUME NEW s \in Stages, s # k
      PROVE  fed'[s][1] <= Len(startPull'[s]) /\ fed'[s][2] <= Len(endPull'[s])
  <2>1. fed'[s][1] <= Len(startPull[s]) /\ fed'[s][2] <= Len(endPull[s])
    BY DEF Kept
  <2>2. Len(startPull'[s]) >= Len(startPull[s]) /\ Len(endPull'[s]) >= Len(endPull[s])
    BY <1>5
  <2> QED
    BY <1>3, <2>1, <2>2
<1>6. ASSUME k \in Stages
      PROVE  /\ Distinct(startPull'[k]) /\ Distinct(endPull'[k]) /\ ~Container(k) /\ fed'[k] = <<0, 0>>
  BY <1>2, <1>6 DEF Kept
<1>7. ASSUME k \in Stages PROVE fed'[k][1] <= Len(startPull'[k]) /\ fed'[k][2] <= Len(endPull'[k])
  BY <1>3, <1>6, <1>7
<1>8. \A s \in Stages :
             /\ Distinct(startPull'[s]) /\ Distinct(endPull'[s])
             /\ Container(s) => Distinct(starts'[s]) /\ Distinct(ends'[s])
             /\ fed'[s][1] <= Len(startPull'[s]) /\ fed'[s][2] <= Len(endPull'[s])
             /\ ~Container(s) => fed'[s] = <<0, 0>>
  BY <1>4, <1>5, <1>6, <1>7
<1> SUFFICES ASSUME NEW s \in Stages'
             PROVE  /\ Distinct(startPull'[s]) /\ Distinct(endPull'[s])
                    /\ Container(s)' => Distinct(starts'[s]) /\ Distinct(ends'[s])
                    /\ fed'[s][1] <= Len(startPull'[s]) /\ fed'[s][2] <= Len(endPull'[s])
                    /\ ~Container(s)' => fed'[s] = <<0, 0>>
  BY DEF Kept
<1>9. s \in Stages /\ Container(s)' = Container(s)
  BY <1>1
<1> QED
  BY <1>8, <1>9

LEMMA KeptLeaf ==
  ASSUME Typed, Kept, TypedNext, NEW k \in Stages, ~Container(k), LeafEffect(k)
  PROVE  Kept'
<1>1. startPull \in Interfaces /\ endPull \in Interfaces /\ fed' = fed
  BY DEF Typed, LeafEffect
<1>2. \A s \in Stages \ {k} : startPull'[s] = startPull[s] /\ endPull'[s] = endPull[s]
                              /\ starts'[s] = starts[s] /\ ends'[s] = ends[s]
                              /\ Len(startPull[s]) \in Nat /\ Len(endPull[s]) \in Nat
  BY <1>1 DEF LeafEffect, Interfaces
<1>3. startPull'[k] \in {startPull[k], <<>>} /\ endPull'[k] \in {endPull[k], <<>>}
  BY <1>1 DEF LeafEffect, Interfaces
<1>4. \A s \in Stages \ {k} :
           /\ Len(startPull'[s]) >= Len(startPull[s]) /\ Len(endPull'[s]) >= Len(endPull[s])
           /\ Distinct(startPull[s]) => Distinct(startPull'[s])
           /\ Distinct(endPull[s]) => Distinct(endPull'[s])
           /\ Container(s) => /\ Distinct(starts[s]) => Distinct(starts'[s])
                              /\ Distinct(ends[s]) => Distinct(ends'[s])
  BY <1>2
<1>5. /\ startPull \in Interfaces /\ endPull \in Interfaces /\ fed \in [Stages -> Nat \X Nat]
      /\ startPull' \in Interfaces /\ endPull' \in Interfaces /\ fed' \in [Stages -> Nat \X Nat]
      /\ task' = task
  BY DEF Typed, TypedNext
<1>6. fed'[k] = fed[k] /\ \A s \in Stages : fed'[s] = fed[s]
  BY <1>1
<1> QED
  BY <1>3, <1>4, <1>5, <1>6, KeptFrom

LEMMA KeptHanded ==
  ASSUME Typed, Kept, TypedNext,
         Handed(startPull', startPull), Handed(endPull', endPull),
         Handed(starts', starts), Handed(ends', ends),
         \A s \in Stages : \/ fed'[s] = fed[s]
                           \/ /\ Container(s)
                              /\ fed'[s][1] <= Len(startPull[s]) /\ fed'[s][2] <= Len(endPull[s])
  PROVE  Kept'
<1>1. Grows(startPull', startPull) /\ Grows(endPull', endPull) /\ Grows(starts', starts) /\ Grows(ends', ends)
  BY HandedFacts DEF Typed
<1>2. \A s \in Stages \ {0} :
           /\ Len(startPull'[s]) >= Len(startPull[s]) /\ Len(endPull'[s]) >= Len(endPull[s])
           /\ Distinct(startPull[s]) => Distinct(startPull'[s])
           /\ Distinct(endPull[s]) => Distinct(endPull'[s])
           /\ Container(s) => /\ Distinct(starts[s]) => Distinct(starts'[s])
                              /\ Distinct(ends[s]) => Distinct(ends'[s])
  BY <1>1 DEF Grows
<1>3. 0 \notin Stages
  BY StageFacts DEF Typed
<1> QED
  BY <1>2, <1>3, KeptFrom DEF Typed, TypedNext

LEMMA HandedSame == ASSUME NEW i \in Interfaces, NEW j, j = i PROVE Handed(j, i)
BY DEF Handed, Interfaces

LEMMA KeptStep ==
  ASSUME Typed, Kept, Open, [Next]_vars PROVE Kept'
<1> USE DEF pulls
<1>0. TypedNext
  BY TypedStep
<1>t. /\ task \in Tasks /\ startPull \in Interfaces /\ endPull \in Interfaces
      /\ starts \in Interfaces /\ ends \in Interfaces
  BY DEF Typed
<1>1. CASE UNCHANGED <<pulls, starts, ends>>
  BY <1>0, <1>1, <1>t, HandedSame, KeptHanded
<1>2. ASSUME NEW s \in Stages, Enter(s) PROVE Kept'
  <2>1. Feed(s) /\ Container(s) /\ UNCHANGED <<starts, ends>>
    BY <1>2 DEF Enter
  <2>2. /\ Handed(startPull', startPull) /\ Handed(endPull', endPull)
        /\ \A x \in Stages \ {s} : fed'[x] = fed[x]
        /\ fed[s][1] <= Len(startPull[s]) => fed'[s][1] <= Len(startPull[s])
        /\ fed[s][2] <= Len(endPull[s]) => fed'[s][2] <= Len(endPull[s])
    BY <2>1, FeedFacts
  <2>3. fed'[s][1] <= Len(startPull[s]) /\ fed'[s][2] <= Len(endPull[s])
    BY <2>2 DEF Kept
  <2>4. Handed(starts', starts) /\ Handed(ends', ends)
    BY <1>t, <2>1, HandedSame
  <2> QED
    BY <1>0, <2>1, <2>2, <2>3, <2>4, KeptHanded
<1>3. ASSUME NEW s \in Stages, Flush(s) PROVE Kept'
  <2>1. UNCHANGED <<pulls, starts>> /\ jobs # <<>> /\ verdict = "planning"
    BY <1>3, AtFacts DEF Flush
  <2>2. /\ stack # <<>> /\ Batched(Top.stage)
        /\ \A n \in DOMAIN jobs : jobs[n].stage \in ToSet(Kids(Top.stage))
    BY <2>1 DEF Open
  <2>3. ASSUME NEW n \in DOMAIN jobs PROVE ~Container(jobs[n].stage)
    BY <2>2 DEF Batched, Container, Serial, Parallel
  <2>4. \A k \in Stages : (\A j \in DOMAIN jobs : jobs[j].stage # k) => ends'[k] = ends[k]
    BY <1>3, FlushFacts
  <2>5. \A k \in Stages : Container(k) => ends'[k] = ends[k]
    BY <2>3, <2>4
  <2>6. \A k \in Stages : Len(startPull[k]) \in Nat /\ Len(endPull[k]) \in Nat
    BY <1>t DEF Interfaces
  <2>7. 0 \notin Stages
    BY <1>t, StageFacts
  <2>8. /\ fed \in [Stages -> Nat \X Nat] /\ fed' = fed /\ task' = task
        /\ startPull' = startPull /\ endPull' = endPull
    BY <1>0, <2>1 DEF Typed, TypedNext
  <2>9. \A x \in Stages \ {0} :
           /\ Len(startPull'[x]) >= Len(startPull[x]) /\ Len(endPull'[x]) >= Len(endPull[x])
           /\ Distinct(startPull[x]) => Distinct(startPull'[x])
           /\ Distinct(endPull[x]) => Distinct(endPull'[x])
           /\ Container(x) => /\ Distinct(starts[x]) => Distinct(starts'[x])
                              /\ Distinct(ends[x]) => Distinct(ends'[x])
    BY <2>1, <2>5, <2>6, <2>8
  <2> QED
    BY <1>t, <2>7, <2>8, <2>9, KeptFrom
<1>4. ASSUME NEW s \in Stages, IkChild(s) PROVE Kept'
  BY <1>0, <1>1, <1>4, IkChildComputes, KeptLeaf
<1>5. ASSUME NEW s \in Stages, IkCandidates(s) PROVE Kept'
  <2>1. Handed(starts', starts) /\ Handed(ends', ends) /\ UNCHANGED pulls
    BY <1>5, IkCandidatesFacts DEF IkCandidates
  <2> QED
    BY <1>0, <1>t, <2>1, HandedSame, KeptHanded
<1>6. ASSUME NEW s \in Stages, NEW i \in DOMAIN Kids(s), Runs(s, i), ComputeLeaf(s, i) PROVE Kept'
  <2>1. queue = <<>>
    BY <1>6, RunsFacts
  <2>2. Kids(s)[i] \in Stages /\ ~Container(Kids(s)[i]) /\ LeafEffect(Kids(s)[i])
    BY <1>6, <2>1, LeafComputes
  <2> QED
    BY <1>0, <2>2, KeptLeaf
<1>7. ASSUME NEW s \in Stages, NEW i \in DOMAIN Kids(s), Propagate(s, i) \/ FallbacksTried(s, i) PROVE Kept'
  <2>1. Propagated(s, i) /\ fed' = fed
    BY <1>7 DEF Propagate, FallbacksTried
  <2>2. /\ Handed(startPull', startPull) /\ Handed(endPull', endPull)
        /\ Handed(starts', starts) /\ Handed(ends', ends)
    BY <2>1, PropagatedFacts
  <2> QED
    BY <1>0, <2>1, <2>2, KeptHanded
<1> QED
  BY <1>1, <1>2, <1>3, <1>4, <1>5, <1>6, <1>7, InterfaceSteps

(* The batch is open only while its container runs its children. *)
LEMMA OpenStep ==
  ASSUME Typed, Open, [Next]_vars PROVE Open'
<1> USE DEF pulls, progress
<1>0. TypedNext /\ task' = task
  BY TypedStep DEF TypedNext
<1>t. task \in Tasks /\ jobs \in Seq(Job)
  BY DEF Typed, Job
<1>s. \A s : Batched(s)' = Batched(s) /\ Kids(s)' = Kids(s) /\ Kind(s)' = Kind(s)
  BY <1>0, SameTree
<1>g. ASSUME stack # <<>>, NEW n, NEW ran, Goto(n, ran) PROVE stack' # <<>> /\ Top' = [Top EXCEPT !.at = n, !.ran = ran]
  <2>1. Top \in CallFrame /\ Tail(stack) \in Seq(CallFrame)
    BY <1>g, StackFacts
  <2> DEFINE f == [Top EXCEPT !.at = n, !.ran = ran]
  <2>2. stack' = <<f>> \o Tail(stack)
    BY <1>g DEF Goto
  <2> HIDE DEF f
  <2>3. stack' # <<>> /\ Head(stack') = f
    BY <2>1, <2>2
  <2> QED
    BY <2>3 DEF Top, f
<1>p. ASSUME stack # <<>>, NEW n, NEW ran, Goto(n, ran) PROVE stack' # <<>> /\ Top.stage' = Top.stage
  <2>1. Top \in CallFrame
    BY <1>p, StackFacts
  <2> QED
    BY <1>g, <1>p, <2>1 DEF CallFrame
<1>k. ASSUME jobs' = jobs, stack' # <<>>, Top.stage' = Top.stage,
           verdict = "planning", verdict' = verdict
     PROVE Open'
  BY <1>0, <1>k DEF Open, Batched, Kids, Kind
<1>c. ASSUME jobs' = jobs, stack # <<>> => ~Batched(Top.stage), verdict = "planning" PROVE Open'
  BY <1>c DEF Open
<1>1. CASE InitTask \/ Pass \/ Conclude
  <2>1. CASE InitTask
    BY <2>1 DEF InitTask, Open
  <2> QED
    BY <1>1, <1>c, <2>1 DEF Pass, Conclude, Thread
<1>2. CASE Emit
  BY <1>2, <1>s DEF Emit, Open, Top
<1>3. ASSUME NEW s \in Stages, EnterSolved(s) \/ Exhausted(s) PROVE Open'
  BY <1>3, <1>c, AtFacts DEF EnterSolved, Exhausted, Batched
<1>4. ASSUME NEW s \in Stages, Enter(s) \/ IkChild(s) PROVE Open'
  <2>1. At(s, 0) /\ Goto(1, FALSE)
    BY <1>4 DEF Enter, IkChild
  <2>2. jobs' = jobs /\ verdict' = verdict
    BY <1>4, IkChildComputes DEF Enter, IkChild
  <2> QED
    BY <1>k, <1>p, <2>1, <2>2, AtFacts
<1>5. ASSUME NEW s \in Stages, Leave(s) \/ Flush(s) PROVE Open'
  BY <1>5 DEF Leave, Flush, Open
<1>6. ASSUME NEW s \in Stages, IkCandidates(s) PROVE Open'
  BY <1>6, <1>c, AtFacts DEF IkCandidates, Batched
<1>7. ASSUME NEW s \in Stages, NEW i \in DOMAIN Kids(s), Skip(s, i) \/ Propagate(s, i) PROVE Open'
  <2>1. At(s, i) /\ Goto(i + 1, FALSE) /\ jobs' = jobs /\ verdict' = verdict
    BY <1>7 DEF Skip, Propagate, InOrder
  <2> QED
    BY <1>k, <1>p, <2>1, AtFacts
<1>8. ASSUME NEW s \in Stages, NEW i \in DOMAIN Kids(s), Runs(s, i), Call(s, i) PROVE Open'
  <2>1. stack # <<>> /\ Top.stage = s /\ verdict = "planning"
    BY <1>8, RunsFacts
  <2>2. Kids(s)[i] \in ToSet(Kids(s)) /\ Kind(Kids(s)[i]) # "motion" /\ jobs' = jobs
    BY <1>8 DEF Call, ToSet, Container, Serial, Parallel
  <2>3. ~Batched(s)
    BY <2>2 DEF Batched
  <2> QED
    BY <1>c, <2>1, <2>2, <2>3
<1>9. ASSUME NEW s \in Stages, NEW i \in DOMAIN Kids(s), Runs(s, i), ComputeLeaf(s, i) PROVE Open'
  <2>1. stack # <<>> /\ Top.stage = s /\ verdict = "planning" /\ queue = <<>>
    BY <1>9, RunsFacts
  <2>2. Goto(i, TRUE) /\ verdict' = verdict
    BY <1>9, Zenon DEF ComputeLeaf
  <2>3. stack' # <<>> /\ Top.stage' = s
    BY <1>p, <2>1, <2>2
  <2>4. LeafEffect(Kids(s)[i]) /\ (jobs' = jobs \/ Batched(s))
    BY <1>9, <2>1, LeafComputes
  <2>5. CASE jobs' = jobs
    BY <1>k, <2>1, <2>2, <2>3, <2>5
  <2>6. CASE Batched(s)
    <3>1. \A n \in DOMAIN jobs' : jobs'[n].stage = Kids(s)[i] \/ jobs'[n] \in ToSet(jobs)
      BY <2>4 DEF LeafEffect
    <3>2. Kids(s)[i] \in ToSet(Kids(s))
      BY DEF ToSet
    <3>3. \A job \in ToSet(jobs) : job.stage \in ToSet(Kids(s))
      BY <1>t, <2>1 DEF Open, ToSet
    <3>4. \A n \in DOMAIN jobs' : jobs'[n].stage \in ToSet(Kids(s))
      BY <3>1, <3>2, <3>3
    <3> QED
      BY <1>0, <2>1, <2>2, <2>3, <2>6, <3>4 DEF Open, Batched, Kids, Kind
  <2> QED
    BY <2>4, <2>5, <2>6
<1>10. ASSUME NEW s \in Stages, NEW i \in DOMAIN Kids(s), FallbacksTried(s, i) PROVE Open'
  BY <1>10, <1>c, AtFacts DEF FallbacksTried, Batched
<1>11. ASSUME NEW s \in Stages, NEW i \in DOMAIN Kids(s), StageRaises(s, i) PROVE Open'
  BY <1>11 DEF StageRaises, Open
<1>12. CASE UNCHANGED vars
  BY <1>12, <1>s DEF vars, Open, Top
<1> QED
  BY <1>1, <1>2, <1>3, <1>4, <1>5, <1>6, <1>7, <1>8, <1>9, <1>10, <1>11, <1>12, NextCases

-----------------------------------------------------------------------------
(* What is emitted stays emitted. *)
Emits ==
  /\ queue # <<>> /\ verdict = "planning"
  /\ emitted' = Append(emitted, Head(queue)) /\ Lift(Append(emitted, Head(queue)))
  /\ UNCHANGED <<face, pulls, starts, ends, failures, progress, jobs, made, stack, verdict>>

LEMMA EmittedSteps ==
  ASSUME Typed, [Next]_vars
  PROVE  emitted' = emitted \/ Emits
<1>1. CASE Emit
  BY <1>1, Zenon DEF Emit, Emits
<1>2. CASE InitTask \/ Pass \/ Conclude
  BY <1>2 DEF InitTask, Pass, Conclude
<1>3. ASSUME NEW s \in Stages, EnterSolved(s) \/ Exhausted(s) \/ Leave(s) \/ Enter(s) \/ Flush(s)
      PROVE  emitted' = emitted
  BY <1>3 DEF EnterSolved, Exhausted, Leave, Enter, Flush
<1>4. ASSUME NEW s \in Stages, IkChild(s) \/ IkCandidates(s) PROVE emitted' = emitted
  BY <1>4 DEF IkChild, IkCandidates
<1>5. ASSUME NEW s \in Stages, NEW i \in DOMAIN Kids(s), Skip(s, i) \/ Call(s, i) \/ StageRaises(s, i)
      PROVE  emitted' = emitted
  BY <1>5 DEF Skip, Call, StageRaises
<1>6. ASSUME NEW s \in Stages, NEW i \in DOMAIN Kids(s), Propagate(s, i) \/ FallbacksTried(s, i)
      PROVE  emitted' = emitted
  BY <1>6 DEF Propagate, FallbacksTried
<1>7. ASSUME NEW s \in Stages, NEW i \in DOMAIN Kids(s), ComputeLeaf(s, i) PROVE emitted' = emitted
  BY <1>7, Zenon DEF ComputeLeaf
<1>8. CASE UNCHANGED vars
  BY <1>8 DEF vars
<1> QED
  BY <1>1, <1>2, <1>3, <1>4, <1>5, <1>6, <1>7, <1>8, NextCases

LEMMA MorePicked ==
  ASSUME NEW X, NEW a \in Seq(X), NEW b \in Seq(X), NEW s,
         \A x \in DOMAIN a : x \in DOMAIN b /\ b[x] = a[x],
         NEW A, A = {x \in DOMAIN a : a[x].stage = s},
         NEW B, B = {x \in DOMAIN b : b[x].stage = s}
  PROVE  Len(Picked(a, A)) <= Len(Picked(b, B))
<1>1. A \subseteq B /\ A \subseteq DOMAIN a /\ B \subseteq DOMAIN b
  OBVIOUS
<1>2. Len(Picked(a, A)) = Cardinality(A) /\ Len(Picked(b, B)) = Cardinality(B) /\ IsFiniteSet(B)
  BY <1>1, PickedFacts
<1>3. Cardinality(A) <= Cardinality(B)
  BY <1>1, <1>2, FS_Subset
<1> QED
  BY <1>2, <1>3

LEMMA EmittedGrows ==
  ASSUME Typed, [Next]_vars
  PROVE  /\ emitted' \in Seq(Solution)
         /\ \A x \in DOMAIN emitted : x \in DOMAIN emitted' /\ emitted'[x] = emitted[x]
         /\ \A s : Len(Sols(s)) <= Len(Sols(s)') /\ Len(Sols(s)') \in Nat
<1>1. emitted' \in Seq(Solution) /\ emitted \in Seq(Solution)
  BY TypedStep DEF Typed, TypedNext
<1>2. \A x \in DOMAIN emitted : x \in DOMAIN emitted' /\ emitted'[x] = emitted[x]
  <2>1. CASE emitted' = emitted
    BY <2>1
  <2>2. CASE Emits
    BY <2>2, NewestFacts DEF Emits
  <2> QED
    BY <2>1, <2>2, EmittedSteps
<1>3. ASSUME NEW s PROVE Len(Sols(s)) <= Len(Sols(s)') /\ Len(Sols(s)') \in Nat
  <2> DEFINE a == emitted
             b == emitted'
             A == {x \in DOMAIN a : a[x].stage = s}
             B == {x \in DOMAIN b : b[x].stage = s}
  <2>1. Len(Picked(a, A)) <= Len(Picked(b, B))
    <3>1. A = {x \in DOMAIN emitted : emitted[x].stage = s} /\ B = {x \in DOMAIN emitted' : emitted'[x].stage = s}
      OBVIOUS
    <3> HIDE DEF A, B
    <3> QED
      BY <1>1, <1>2, <3>1, MorePicked
  <2>2. B \subseteq DOMAIN b
    OBVIOUS
  <2>3. Len(Picked(b, B)) \in Nat
    <3> HIDE DEF B
    <3> QED
      BY <1>1, <2>2, PickedFacts
  <2>4. Sols(s) = Picked(a, A) /\ Sols(s)' = Picked(b, B)
    BY DEF Sols
  <2> QED
    BY <2>1, <2>3, <2>4
<1> QED
  BY <1>1, <1>2, <1>3

-----------------------------------------------------------------------------
(* Where Fallbacks is, and how far ComputeIK is. *)
Placed == \A s \in Stages : current[s] \in 1 .. Len(Kids(s)) + 1
Taken == \A s \in Stages : Kind(s) = "ik" => processed[s] <= Len(Sols(Kids(s)[1]))

LEMMA CurrentSteps ==
  ASSUME Typed, [Next]_vars
  PROVE  \/ current' = current
         \/ \E s \in Stages : Exhausted(s)
         \/ \E s \in Stages : \E i \in DOMAIN Kids(s) :
              /\ Trying(s, i) /\ current' = [current EXCEPT ![s] = i]
              /\ Call(s, i) \/ ComputeLeaf(s, i) \/ StageRaises(s, i)
         \/ \E s \in Stages : \E i \in DOMAIN Kids(s) : FallbacksTried(s, i)
<1> USE DEF progress
<1>1. CASE InitTask \/ Pass \/ Conclude \/ Emit
  BY <1>1 DEF InitTask, Pass, Conclude, Emit
<1>2. ASSUME NEW s \in Stages, EnterSolved(s) \/ Leave(s) \/ Enter(s) \/ Flush(s) PROVE current' = current
  BY <1>2 DEF EnterSolved, Leave, Enter, Flush
<1>3. ASSUME NEW s \in Stages, IkChild(s) \/ IkCandidates(s) PROVE current' = current
  BY <1>3 DEF IkChild, IkCandidates
<1>4. ASSUME NEW s \in Stages, NEW i \in DOMAIN Kids(s), Skip(s, i) \/ Propagate(s, i) PROVE current' = current
  BY <1>4 DEF Skip, Propagate
<1>5. ASSUME NEW s \in Stages, NEW i \in DOMAIN Kids(s), Runs(s, i)
      PROVE current' = current \/ (Trying(s, i) /\ current' = [current EXCEPT ![s] = i])
  BY <1>5 DEF Runs
<1>6. ASSUME NEW s \in Stages, NEW i \in DOMAIN Kids(s), StageRaises(s, i) PROVE Runs(s, i)
  BY <1>6 DEF StageRaises
<1>7. CASE UNCHANGED vars
  BY <1>7 DEF vars
<1> QED
  BY <1>1, <1>2, <1>3, <1>4, <1>5, <1>6, <1>7, NextCases

LEMMA PlacedStep ==
  ASSUME Typed, Placed, [Next]_vars PROVE Placed'
<1>0. /\ task \in Tasks /\ task' = task /\ Stages' = Stages /\ \A s : Kids(s)' = Kids(s)
      /\ current \in [Stages -> Nat]
  BY TypedStep, SameTree DEF Typed, TypedNext
<1>s. \A s \in Stages : Len(Kids(s)) \in Nat /\ DOMAIN Kids(s) = 1 .. Len(Kids(s))
  BY <1>0, StageFacts
<1>1. ASSUME NEW s \in Stages, NEW i \in 1 .. Len(Kids(s)) + 1, current' = [current EXCEPT ![s] = i]
      PROVE  \A x \in Stages : current'[x] \in 1 .. Len(Kids(x)) + 1
  BY <1>0, <1>1 DEF Placed
<1>2. \A x \in Stages : current'[x] \in 1 .. Len(Kids(x)) + 1
  <2>1. CASE current' = current
    BY <2>1 DEF Placed
  <2>2. ASSUME NEW s \in Stages, Exhausted(s) PROVE \A x \in Stages : current'[x] \in 1 .. Len(Kids(x)) + 1
    <3>1. current' = [current EXCEPT ![s] = Len(Kids(s)) + 1]
      BY <2>2 DEF Exhausted
    <3>2. Len(Kids(s)) + 1 \in 1 .. Len(Kids(s)) + 1
      BY <1>s
    <3> QED
      BY <1>1, <3>1, <3>2
  <2>3. ASSUME NEW s \in Stages, NEW i \in DOMAIN Kids(s), current' = [current EXCEPT ![s] = i]
        PROVE  \A x \in Stages : current'[x] \in 1 .. Len(Kids(x)) + 1
    <3>1. i \in 1 .. Len(Kids(s)) + 1
      BY <1>s
    <3> QED
      BY <1>1, <2>3, <3>1
  <2>4. ASSUME NEW s \in Stages, NEW i \in DOMAIN Kids(s), FallbacksTried(s, i)
        PROVE  \A x \in Stages : current'[x] \in 1 .. Len(Kids(x)) + 1
    <3>1. PICK n : n \in {Len(Kids(s)) + 1, i, i + 1} /\ current' = [current EXCEPT ![s] = n]
      BY <2>4 DEF FallbacksTried
    <3>2. n \in 1 .. Len(Kids(s)) + 1
      BY <1>s, <3>1
    <3> QED
      BY <1>1, <3>1, <3>2
  <2> QED
    BY <2>1, <2>2, <2>3, <2>4, CurrentSteps
<1> SUFFICES ASSUME NEW s \in Stages' PROVE current'[s] \in 1 .. Len(Kids(s)') + 1
  BY DEF Placed
<1> QED
  BY <1>0, <1>2

LEMMA ProcessedSteps ==
  ASSUME Typed, [Next]_vars
  PROVE  processed' = processed \/ \E s \in Stages : IkCandidates(s)
<1> USE DEF progress
<1>1. CASE InitTask \/ Pass \/ Conclude \/ Emit
  BY <1>1 DEF InitTask, Pass, Conclude, Emit
<1>2. ASSUME NEW s \in Stages, EnterSolved(s) \/ Leave(s) \/ Enter(s) \/ Flush(s) \/ Exhausted(s)
      PROVE  processed' = processed
  BY <1>2 DEF EnterSolved, Leave, Enter, Flush, Exhausted
<1>3. ASSUME NEW s \in Stages, IkChild(s) PROVE processed' = processed
  BY <1>3, IkChildComputes DEF LeafEffect
<1>4. ASSUME NEW s \in Stages, NEW i \in DOMAIN Kids(s),
             Skip(s, i) \/ Propagate(s, i) \/ FallbacksTried(s, i) \/ Call(s, i) \/ StageRaises(s, i)
      PROVE  processed' = processed
  BY <1>4 DEF Skip, Propagate, FallbacksTried, Call, StageRaises
<1>5. ASSUME NEW s \in Stages, NEW i \in DOMAIN Kids(s), Runs(s, i), ComputeLeaf(s, i)
      PROVE  processed' = processed
  BY <1>5, RunsFacts, LeafComputes DEF LeafEffect
<1>6. CASE UNCHANGED vars
  BY <1>6 DEF vars
<1> QED
  BY <1>1, <1>2, <1>3, <1>4, <1>5, <1>6, NextCases

LEMMA TakenStep ==
  ASSUME Typed, Taken, [Next]_vars PROVE Taken'
<1>0. /\ task \in Tasks /\ task' = task /\ Stages' = Stages
      /\ \A s : Kids(s)' = Kids(s) /\ Kind(s)' = Kind(s)
      /\ processed \in [Stages -> Nat] /\ processed' \in [Stages -> Nat]
  BY TypedStep, SameTree DEF Typed, TypedNext
<1>1. \A k : Len(Sols(k)) <= Len(Sols(k)') /\ Len(Sols(k)') \in Nat /\ Len(Sols(k)) \in Nat
  BY EmittedGrows, SolsFacts
<1>2. \A s \in Stages : Kind(s) = "ik" => processed'[s] <= Len(Sols(Kids(s)[1]))
  <2>1. CASE processed' = processed
    BY <2>1 DEF Taken
  <2>2. ASSUME NEW s \in Stages, IkCandidates(s)
        PROVE  \A r \in Stages : Kind(r) = "ik" => processed'[r] <= Len(Sols(Kids(r)[1]))
    <3>1. /\ \A x \in Stages \ {s} : processed'[x] = processed[x]
          /\ processed[s] <= Len(Sols(Kids(s)[1])) => processed'[s] <= Len(Sols(Kids(s)[1]))
      BY <2>2, IkCandidatesFacts
    <3> QED
      BY <3>1 DEF Taken
  <2> QED
    BY <2>1, <2>2, ProcessedSteps
<1> SUFFICES ASSUME NEW s \in Stages', Kind(s)' = "ik" PROVE processed'[s] <= Len(Sols(Kids(s)[1])')
  BY DEF Taken
<1>3. PICK k : k = Kids(s)[1]
  OBVIOUS
<1>4. Sols(Kids(s)[1])' = Sols(k)'
  BY <1>0, <1>3 DEF Kids, Sols
<1>5. processed'[s] <= Len(Sols(k)) /\ processed'[s] \in Nat
  BY <1>0, <1>2, <1>3
<1>6. Len(Sols(k)) <= Len(Sols(k)') /\ Len(Sols(k)') \in Nat /\ Len(Sols(k)) \in Nat
  BY <1>1
<1> QED
  BY <1>4, <1>5, <1>6

-----------------------------------------------------------------------------
(* Something is queued or called only while the task is planned. *)
Busy ==
  /\ verdict \in {"built", "invalid", "planning", "solved", "failed", "raised"}
  /\ queue # <<>> \/ stack # <<>> => verdict = "planning"

LEMMA ThreadSteps ==
  ASSUME Typed, NEW s \in Stages,
         \/ EnterSolved(s) \/ Enter(s) \/ Exhausted(s) \/ Leave(s) \/ Flush(s) \/ IkChild(s) \/ IkCandidates(s)
         \/ \E i \in DOMAIN Kids(s) : \/ Skip(s, i) \/ (Runs(s, i) /\ Call(s, i)) \/ (Runs(s, i) /\ ComputeLeaf(s, i))
                                      \/ Propagate(s, i) \/ FallbacksTried(s, i)
  PROVE  queue = <<>> /\ stack # <<>> /\ Top.stage = s /\ verdict = "planning" /\ verdict' = verdict
<1>1. CASE EnterSolved(s) \/ Enter(s) \/ Exhausted(s) \/ Leave(s) \/ Flush(s)
  BY <1>1, AtFacts DEF EnterSolved, Enter, Exhausted, Leave, Flush
<1>2. CASE IkChild(s) \/ IkCandidates(s)
  BY <1>2, AtFacts DEF IkChild, IkCandidates
<1>3. ASSUME NEW i \in DOMAIN Kids(s), Skip(s, i) \/ Propagate(s, i) \/ FallbacksTried(s, i)
      PROVE  queue = <<>> /\ stack # <<>> /\ Top.stage = s /\ verdict = "planning" /\ verdict' = verdict
  <2>1. At(s, i) /\ verdict' = verdict
    BY <1>3 DEF Skip, Propagate, FallbacksTried, InOrder
  <2> QED
    BY <2>1, AtFacts
<1>4. ASSUME NEW i \in DOMAIN Kids(s), Runs(s, i), Call(s, i)
      PROVE  queue = <<>> /\ stack # <<>> /\ Top.stage = s /\ verdict = "planning" /\ verdict' = verdict
  BY <1>4, RunsFacts DEF Call
<1>5. ASSUME NEW i \in DOMAIN Kids(s), Runs(s, i), ComputeLeaf(s, i)
      PROVE  queue = <<>> /\ stack # <<>> /\ Top.stage = s /\ verdict = "planning" /\ verdict' = verdict
  <2>1. verdict' = verdict
    BY <1>5, Zenon DEF ComputeLeaf
  <2> QED
    BY <1>5, <2>1, RunsFacts
<1> QED
  BY <1>1, <1>2, <1>3, <1>4, <1>5

LEMMA BusyStep ==
  ASSUME Typed, Busy, [Next]_vars PROVE Busy'
<1>1. CASE InitTask
  BY <1>1 DEF InitTask, Busy
<1>2. CASE Pass
  BY <1>2 DEF Pass, Thread, Busy
<1>3. CASE Conclude
  BY <1>3 DEF Conclude, Thread, Busy
<1>4. CASE Emit
  BY <1>4 DEF Emit, Busy
<1>5. ASSUME NEW s \in Stages, verdict = "planning" /\ verdict' = verdict PROVE Busy'
  BY <1>5 DEF Busy
<1>6. ASSUME NEW s \in Stages, NEW i \in DOMAIN Kids(s), StageRaises(s, i) PROVE Busy'
  <2>1. Runs(s, i) /\ stack' = <<>> /\ queue' = queue /\ verdict' = "raised"
    BY <1>6 DEF StageRaises
  <2>2. queue = <<>>
    BY <2>1, RunsFacts
  <2> QED
    BY <2>1, <2>2 DEF Busy
<1>7. CASE UNCHANGED vars
  BY <1>7 DEF vars, Busy
<1> QED
  BY <1>1, <1>2, <1>3, <1>4, <1>5, <1>6, <1>7, NextCases, ThreadSteps

-----------------------------------------------------------------------------
(* The planner's data. *)
TaskInv == Typed /\ Kept /\ Open /\ Placed /\ Taken /\ Busy

LEMMA TaskInvInit == Init => TaskInv
<1> SUFFICES ASSUME Init PROVE TaskInv
  OBVIOUS
<1>1. Typed
  BY TypedInit
<1>2. task \in Tasks /\ \A s \in Stages : Len(Kids(s)) \in Nat
  BY <1>1, StageFacts DEF Typed
<1>3. Kept
  BY DEF Init, Kept, Distinct
<1>4. Open /\ Busy
  BY DEF Init, Open, Busy
<1>5. Placed
  BY <1>2 DEF Init, Placed
<1>6. \A k : Len(Sols(k)) \in Nat
  BY <1>1, SolsFacts
<1>7. Taken
  BY <1>6 DEF Init, Taken
<1> QED
  BY <1>1, <1>3, <1>4, <1>5, <1>7 DEF TaskInv

LEMMA TaskInvStep ==
  ASSUME TaskInv, [Next]_vars PROVE TaskInv'
<1>1. Typed'
  BY TypedStep, TypedNextFacts DEF TaskInv
<1>2. Kept' /\ Open' /\ Placed' /\ Taken' /\ Busy'
  BY KeptStep, OpenStep, PlacedStep, TakenStep, BusyStep DEF TaskInv
<1> QED
  BY <1>1, <1>2 DEF TaskInv

(* However solutions, batches and passes interleave, an interface never holds
   two states of one key, and no container or ComputeIK counts as taken more
   than it was given. *)
THEOREM TaskTypes == Spec => []TaskTypeOK
<1>1. TaskInv => TaskTypeOK
  BY DEF TaskInv, Typed, Kept, Placed, Taken, Busy, TaskTypeOK
<1>2. TaskInv /\ [Next]_vars => TaskInv'
  BY TaskInvStep
<1> QED
  BY TaskInvInit, <1>1, <1>2, PTL DEF Spec

-----------------------------------------------------------------------------
(* Fallbacks commits.  Whatever computes now, or waits to be emitted, is under
   the child each Fallbacks around it is trying. *)
Solved(em, s) == \E x \in DOMAIN em : em[x].stage = s
Committed(cur, k) == \A s \in Stages : \A j \in DOMAIN Kids(s) :
  Kind(s) = "fallbacks" /\ Kids(s)[j] \in Line[k] => cur[s] = j

(* The stack goes up the tree; every caller is waiting for a child. *)
Frames(cur, st) ==
  /\ \A m, n \in DOMAIN st : m < n => st[n].stage < st[m].stage
  /\ \A n \in DOMAIN st :
       /\ Committed(cur, st[n].stage)
       /\ n > 1 => st[n].ran
       /\ st[n].ran /\ Kind(st[n].stage) = "fallbacks" => cur[st[n].stage] = st[n].at
Queued(cur, q) == \A n \in DOMAIN q : Committed(cur, q[n].stage)

(* Nothing is attempted beyond the child being tried; no child behind it was
   solved, or Fallbacks stopped; a child's solution is its parent's. *)
Tried(em, fl, k) == Solved(em, k) \/ \E f \in fl : f.stage = k
Beyond(cur, em, fl) == \A s \in Stages : \A j \in DOMAIN Kids(s) : \A k \in Subtree(Kids(s)[j]) :
  Kind(s) = "fallbacks" /\ j > cur[s] => ~Tried(em, fl, k)
Behind(cur, em) == \A s \in Stages : \A i \in DOMAIN Kids(s) :
  Kind(s) = "fallbacks" /\ Solved(em, Kids(s)[i]) /\ i < cur[s] => cur[s] = Len(Kids(s)) + 1
Passed(em, q) == \A s \in Stages : \A i \in DOMAIN Kids(s) :
  Parallel(s) /\ Solved(em, Kids(s)[i]) => Solved(em, s) \/ \E n \in DOMAIN q : q[n].stage = s
Unsolved(em, q, st) ==
  st # <<>> /\ Kind(Head(st).stage) = "fallbacks" /\ Head(st).at > 0 /\ ~Head(st).ran =>
    q = <<>> /\ ~Solved(em, Head(st).stage)

Commits(em, fl) == \A s \in Stages : \A i, j \in DOMAIN Kids(s) : \A k \in Subtree(Kids(s)[j]) :
  Kind(s) = "fallbacks" /\ Solved(em, Kids(s)[i]) /\ j > i => ~Tried(em, fl, k)

LEMMA CommittedUp ==
  ASSUME task \in Tasks, NEW cur, NEW k \in Stages, k # Root, Committed(cur, k)
  PROVE  Committed(cur, Parent(k))
<1>1. Line[Parent(k)] \subseteq Line[k]
  BY LineFacts
<1> QED
  BY <1>1 DEF Committed

LEMMA CommittedDown ==
  ASSUME task \in Tasks, NEW cur, NEW s \in Stages, NEW i \in DOMAIN Kids(s), Committed(cur, s),
         Kind(s) = "fallbacks" => cur[s] = i
  PROVE  Committed(cur, Kids(s)[i])
<1> DEFINE k == Kids(s)[i]
<1>1. k \in Stages /\ k # Root /\ Parent(k) = s
  BY KidFacts
<1> HIDE DEF k
<1>2. Line[k] = {k} \cup Line[s]
  BY <1>1, LineFacts
<1>3. ASSUME NEW r \in Stages, NEW j \in DOMAIN Kids(r), Kind(r) = "fallbacks", Kids(r)[j] \in Line[k]
      PROVE  cur[r] = j
  <2>1. CASE Kids(r)[j] \in Line[s]
    BY <1>3, <2>1 DEF Committed
  <2>2. CASE Kids(r)[j] = k
    <3>1. Parent(k) = r /\ Pos(r, k) = j
      BY <2>2, KidFacts
    <3>2. Pos(s, k) = i
      BY KidFacts DEF k
    <3> QED
      BY <1>1, <1>3, <3>1, <3>2
  <2> QED
    BY <1>2, <1>3, <2>1, <2>2
<1> QED
  BY <1>3 DEF Committed, k

(* What Fallbacks s tries says nothing of a stage that is not under s. *)
LEMMA CommittedBelow ==
  ASSUME task \in Tasks, NEW s \in Stages, NEW k \in Stages, k <= s, NEW cur, NEW new,
         \A r \in Stages \ {s} : new[r] = cur[r], Committed(cur, k)
  PROVE  Committed(new, k)
<1> SUFFICES ASSUME NEW r \in Stages, NEW j \in DOMAIN Kids(r), Kind(r) = "fallbacks", Kids(r)[j] \in Line[k]
             PROVE  new[r] = j
  BY DEF Committed
<1>1. cur[r] = j
  BY DEF Committed
<1>2. Kids(r)[j] <= k /\ Kids(r)[j] > r /\ Kids(r)[j] \in Stages
  BY LineUp, KidFacts
<1>3. r \in Nat /\ s \in Nat /\ k \in Nat /\ Kids(r)[j] \in Nat
  BY <1>2, StageFacts
<1>4. r # s
  BY <1>2, <1>3
<1> QED
  BY <1>1, <1>4

LEMMA FramesPop ==
  ASSUME Typed, Frames(current, stack), stack # <<>>, NEW cur,
         \A r \in Stages \ {Top.stage} : cur[r] = current[r],
         NEW st, st = Tail(stack)
  PROVE  /\ st \in Seq(CallFrame) /\ Frames(cur, st) /\ Committed(cur, Top.stage)
         /\ \A n \in DOMAIN st : st[n].ran /\ st[n].stage < Top.stage
<1>1. task \in Tasks /\ stack \in Seq(CallFrame) /\ Top \in CallFrame /\ Top = stack[1]
  <2>1. task \in Tasks /\ stack \in Seq(CallFrame)
    BY DEF Typed
  <2>2. Top \in CallFrame
    BY StackFacts
  <2>3. Top = stack[1]
    BY <2>1 DEF Top
  <2> QED
    BY <2>1, <2>2, <2>3
<1>2. Len(stack) \in Nat /\ DOMAIN stack = 1 .. Len(stack) /\ Len(stack) > 0
  BY <1>1, EmptySeq
<1>3. st \in Seq(CallFrame) /\ Len(st) = Len(stack) - 1 /\ DOMAIN st = 1 .. Len(st)
  BY <1>1, <1>2
<1>4. ASSUME NEW n \in DOMAIN st PROVE n + 1 \in DOMAIN stack /\ st[n] = stack[n + 1] /\ n \in Nat /\ n > 0
  BY <1>1, <1>2, <1>3
<1>5. ASSUME NEW n \in DOMAIN st
      PROVE  /\ st[n].stage \in Stages /\ st[n].stage < Top.stage /\ st[n].ran
             /\ Committed(current, st[n].stage)
             /\ Kind(st[n].stage) = "fallbacks" => current[st[n].stage] = st[n].at
  <2>1. 1 \in DOMAIN stack /\ 1 < n + 1 /\ n + 1 > 1
    BY <1>2, <1>4
  <2>2. st[n] \in CallFrame
    BY <1>3
  <2> QED
    BY <1>1, <1>4, <2>1, <2>2 DEF Frames, CallFrame
<1>6. Top.stage \in Stages
  BY <1>1 DEF CallFrame
<1>7. \A s \in Stages : s \in Nat
  BY <1>1, StageFacts
<1>8. ASSUME NEW n \in DOMAIN st
      PROVE  /\ Committed(cur, st[n].stage)
             /\ Kind(st[n].stage) = "fallbacks" => cur[st[n].stage] = st[n].at
  <2>1. st[n].stage <= Top.stage /\ st[n].stage # Top.stage
    BY <1>5, <1>6, <1>7
  <2> QED
    BY <1>1, <1>5, <1>6, <2>1, CommittedBelow
<1>9. \A m, n \in DOMAIN st : m < n => st[n].stage < st[m].stage
  BY <1>4 DEF Frames
<1>10. Committed(cur, Top.stage)
  <2>1. Committed(current, Top.stage)
    BY <1>1, <1>2 DEF Frames
  <2> QED
    BY <1>1, <1>6, <1>7, <2>1, CommittedBelow
<1> QED
  BY <1>3, <1>5, <1>8, <1>9, <1>10 DEF Frames

Fits(cur, st, f) ==
  /\ st \in Seq(CallFrame) /\ Frames(cur, st) /\ f \in CallFrame
  /\ \A n \in DOMAIN st : st[n].ran /\ st[n].stage < f.stage
  /\ Committed(cur, f.stage)
  /\ f.ran /\ Kind(f.stage) = "fallbacks" => cur[f.stage] = f.at
Pushed(cur, st, f, new) ==
  /\ new \in Seq(CallFrame) /\ Frames(cur, new) /\ new # <<>> /\ Head(new) = f /\ new[1] = f
  /\ DOMAIN new = 1 .. Len(st) + 1 /\ \A n \in DOMAIN st : new[n + 1] = st[n]

LEMMA FramesPush ==
  ASSUME NEW cur, NEW st, NEW f, Fits(cur, st, f), NEW new, new = <<f>> \o st
  PROVE  Pushed(cur, st, f, new)
<1>0. /\ st \in Seq(CallFrame) /\ Frames(cur, st) /\ f \in CallFrame
      /\ \A n \in DOMAIN st : st[n].ran /\ st[n].stage < f.stage
      /\ Committed(cur, f.stage)
      /\ f.ran /\ Kind(f.stage) = "fallbacks" => cur[f.stage] = f.at
  BY DEF Fits
<1>1. Len(st) \in Nat /\ DOMAIN st = 1 .. Len(st)
  BY <1>0
<1>2. new \in Seq(CallFrame) /\ Len(new) = Len(st) + 1 /\ DOMAIN new = 1 .. Len(st) + 1 /\ new[1] = f
  BY <1>0, <1>1
<1>3. \A n \in DOMAIN st : new[n + 1] = st[n]
  BY <1>0, <1>1
<1>4. new # <<>> /\ Head(new) = f
  BY <1>0, <1>1, <1>2
<1>5. ASSUME NEW n \in DOMAIN new
      PROVE  n \in Nat /\ (n = 1 \/ (n > 1 /\ n - 1 \in DOMAIN st /\ new[n] = st[n - 1]))
  <2>1. n \in Nat /\ (n = 1 \/ (n > 1 /\ n - 1 \in 1 .. Len(st)))
    BY <1>1, <1>2
  <2>2. CASE n > 1
    <3>1. n - 1 \in DOMAIN st /\ (n - 1) + 1 = n
      BY <1>1, <2>1, <2>2
    <3> QED
      BY <1>3, <2>1, <2>2, <3>1
  <2> QED
    BY <2>1, <2>2
<1>6. ASSUME NEW n \in DOMAIN new
      PROVE  /\ Committed(cur, new[n].stage)
             /\ n > 1 => new[n].ran
             /\ new[n].ran /\ Kind(new[n].stage) = "fallbacks" => cur[new[n].stage] = new[n].at
  <2>1. CASE n = 1
    BY <1>0, <1>2, <2>1
  <2>2. CASE n > 1 /\ n - 1 \in DOMAIN st /\ new[n] = st[n - 1]
    BY <1>0, <2>2 DEF Frames
  <2> QED
    BY <1>5, <2>1, <2>2
<1>7. ASSUME NEW m \in DOMAIN new, NEW n \in DOMAIN new, m < n PROVE new[n].stage < new[m].stage
  <2>1. n > 1 /\ n - 1 \in DOMAIN st /\ new[n] = st[n - 1] /\ n \in Nat /\ m \in Nat
    BY <1>5, <1>7
  <2>2. CASE m = 1
    BY <1>0, <1>2, <2>1, <2>2
  <2>3. CASE m > 1 /\ m - 1 \in DOMAIN st /\ new[m] = st[m - 1]
    <3>1. m - 1 < n - 1
      BY <1>7, <2>1, <2>3
    <3> QED
      BY <1>0, <2>1, <2>3, <3>1 DEF Frames
  <2> QED
    BY <1>5, <2>2, <2>3
<1> QED
  BY <1>2, <1>3, <1>4, <1>6, <1>7 DEF Frames, Pushed

TopOnly(cur) == \A r \in Stages \ {Top.stage} : cur[r] = current[r]
Moved(st, n, ran) == st = <<[Top EXCEPT !.at = n, !.ran = ran]>> \o Tail(stack)
Advanced(cur, st, n, ran) ==
  /\ st \in Seq(CallFrame) /\ Frames(cur, st) /\ st # <<>> /\ Committed(cur, Top.stage)
  /\ Head(st).stage = Top.stage /\ Head(st).at = n /\ Head(st).ran = ran
  /\ ran => \A m \in DOMAIN st : st[m].ran
  /\ \A m \in DOMAIN st : st[m].stage <= Top.stage

LEMMA FramesGoto ==
  ASSUME Typed, Frames(current, stack), stack # <<>>, NEW cur, TopOnly(cur),
         NEW n \in Nat, NEW ran \in BOOLEAN, ran /\ Kind(Top.stage) = "fallbacks" => cur[Top.stage] = n,
         NEW st, Moved(st, n, ran)
  PROVE  Advanced(cur, st, n, ran)
<1>1. PICK rest : rest = Tail(stack)
  OBVIOUS
<1>2. PICK f : f = [Top EXCEPT !.at = n, !.ran = ran]
  OBVIOUS
<1>3. Top \in CallFrame /\ \A s \in Stages : s \in Nat
  BY StackFacts, StageFacts DEF Typed
<1>4. f \in CallFrame /\ f.stage = Top.stage /\ f.at = n /\ f.ran = ran /\ Top.stage \in Nat
  BY <1>2, <1>3 DEF CallFrame
<1>5. /\ rest \in Seq(CallFrame) /\ Frames(cur, rest) /\ Committed(cur, Top.stage)
      /\ \A m \in DOMAIN rest : rest[m].ran /\ rest[m].stage < Top.stage
  BY <1>1, FramesPop DEF TopOnly
<1>6. st = <<f>> \o rest
  BY <1>1, <1>2 DEF Moved
<1>7. /\ st \in Seq(CallFrame) /\ Frames(cur, st) /\ st # <<>> /\ Head(st) = f
      /\ DOMAIN st = 1 .. Len(rest) + 1 /\ \A m \in DOMAIN rest : st[m + 1] = rest[m]
  <2>1. f.ran /\ Kind(f.stage) = "fallbacks" => cur[f.stage] = f.at
    BY <1>4
  <2>2. Fits(cur, rest, f)
    BY <1>4, <1>5, <2>1 DEF Fits
  <2>3. Pushed(cur, rest, f, st)
    BY <1>6, <2>2, FramesPush
  <2> QED
    BY <2>3 DEF Pushed
<1>8. ASSUME NEW m \in DOMAIN st PROVE (ran => st[m].ran) /\ st[m].stage <= Top.stage
  <2>1. CASE m = 1
    BY <1>4, <1>6, <1>7, <2>1
  <2>2. CASE m # 1
    <3>1. m - 1 \in DOMAIN rest /\ (m - 1) + 1 = m
      BY <1>5, <1>7, <2>2
    <3>2. st[m] = rest[m - 1] /\ rest[m - 1] \in CallFrame
      BY <1>5, <1>7, <3>1
    <3>3. rest[m - 1].stage \in Nat
      BY <1>3, <3>2 DEF CallFrame
    <3> QED
      BY <1>4, <1>5, <3>1, <3>2, <3>3
  <2> QED
    BY <2>1, <2>2
<1> QED
  BY <1>4, <1>5, <1>7, <1>8 DEF Advanced

-----------------------------------------------------------------------------
(* Every step keeps to the children being tried. *)
Settled ==
  /\ Frames(current', stack') /\ Queued(current', queue') /\ Unsolved(emitted', queue', stack')
  /\ \A f \in failures' : f \in failures \/ Committed(current', f.stage)

LEMMA SettledLeaf ==
  ASSUME NEW k \in Stages, NEW cur, Committed(cur, k),
         \A n \in DOMAIN queue' : IsLeaf(queue'[n], k),
         \A f \in failures' : f \in failures \/ f.stage = k
  PROVE  Queued(cur, queue') /\ \A f \in failures' : f \in failures \/ Committed(cur, f.stage)
<1>1. \A n \in DOMAIN queue' : queue'[n].stage = k
  BY DEF IsLeaf, Leaf
<1> QED
  BY <1>1 DEF Queued

LEMMA SettledPop ==
  ASSUME Typed, Frames(current, stack), stack # <<>>, Pop,
         \A r \in Stages \ {Top.stage} : current'[r] = current[r]
  PROVE  Frames(current', stack') /\ Unsolved(emitted', queue', stack') /\ Committed(current', Top.stage)
<1>1. stack' = Tail(stack)
  BY DEF Pop
<1>2. /\ stack' \in Seq(CallFrame) /\ Frames(current', stack') /\ Committed(current', Top.stage)
      /\ \A n \in DOMAIN stack' : stack'[n].ran
  BY <1>1, FramesPop
<1>3. stack' # <<>> => Head(stack') = stack'[1] /\ 1 \in DOMAIN stack'
  BY <1>2
<1> QED
  BY <1>2, <1>3 DEF Unsolved

LEMMA SettledStack ==
  ASSUME Typed, Frames(current, stack), stack # <<>>, NEW n \in Nat, NEW ran \in BOOLEAN, Goto(n, ran), TopOnly(current'),
         ran /\ Kind(Top.stage) = "fallbacks" => current'[Top.stage] = n,
         ran \/ Kind(Top.stage) # "fallbacks" \/ (queue' = <<>> /\ ~Solved(emitted', Top.stage))
  PROVE  Frames(current', stack') /\ Unsolved(emitted', queue', stack') /\ Committed(current', Top.stage)
<1>1. Moved(stack', n, ran)
  BY DEF Goto, Moved
<1>2. /\ Frames(current', stack') /\ stack' # <<>> /\ Committed(current', Top.stage)
      /\ Head(stack').stage = Top.stage /\ Head(stack').at = n /\ Head(stack').ran = ran
  <2>1. Advanced(current', stack', n, ran)
    BY <1>1, FramesGoto
  <2> QED
    BY <2>1 DEF Advanced
<1> QED
  BY <1>2 DEF Unsolved

LEMMA SettledCall ==
  ASSUME Typed, Frames(current, stack), NEW s \in Stages, NEW i \in DOMAIN Kids(s), Runs(s, i), Call(s, i)
  PROVE  Frames(current', stack') /\ Unsolved(emitted', queue', stack')
<1>1. /\ queue = <<>> /\ stack # <<>> /\ Top.stage = s /\ i \in Nat /\ Kids(s)[i] \in Stages
      /\ \/ Kind(s) # "fallbacks" /\ current' = current
         \/ Kind(s) = "fallbacks" /\ current' = [current EXCEPT ![s] = i]
  BY RunsFacts
<1>2. task \in Tasks /\ current \in [Stages -> Nat]
  BY DEF Typed
<1>3. /\ \A r \in Stages \ {s} : current'[r] = current[r]
      /\ Kind(s) = "fallbacks" => current'[s] = i
  BY <1>1, <1>2
<1>4. PICK st : Moved(st, i, TRUE)
  BY DEF Moved
<1>5. /\ st \in Seq(CallFrame) /\ Frames(current', st) /\ Committed(current', s)
      /\ \A m \in DOMAIN st : st[m].ran
      /\ \A m \in DOMAIN st : st[m].stage <= s
  <2>1. TopOnly(current') /\ (Kind(Top.stage) = "fallbacks" => current'[Top.stage] = i)
    BY <1>1, <1>3 DEF TopOnly
  <2>2. Advanced(current', st, i, TRUE)
    BY <1>1, <1>4, <2>1, FramesGoto
  <2> QED
    BY <1>1, <2>2 DEF Advanced
<1>6. Frame(Kids(s)[i]) \in CallFrame /\ Frame(Kids(s)[i]).stage = Kids(s)[i]
      /\ Frame(Kids(s)[i]).at = 0 /\ Frame(Kids(s)[i]).ran = FALSE
  BY <1>1 DEF Frame, CallFrame
<1>7. Committed(current', Kids(s)[i])
  BY <1>2, <1>3, <1>5, CommittedDown
<1>8. Kids(s)[i] > s /\ \A r \in Stages : r \in Nat
  BY <1>2, KidFacts, StageFacts
<1>9. ASSUME NEW m \in DOMAIN st PROVE st[m].stage < Kids(s)[i]
  <2>1. st[m] \in CallFrame
    BY <1>5
  <2>2. st[m].stage \in Nat /\ s \in Nat /\ Kids(s)[i] \in Nat /\ st[m].stage <= s
    BY <1>1, <1>5, <1>8, <2>1 DEF CallFrame
  <2> QED
    BY <1>8, <2>2
<1>10. Fits(current', st, Frame(Kids(s)[i]))
  BY <1>5, <1>6, <1>7, <1>9 DEF Fits
<1>11. stack' = <<Frame(Kids(s)[i])>> \o st
  <2>1. Tail(stack) \in Seq(CallFrame) /\ Top \in CallFrame
    BY <1>1, StackFacts
  <2> DEFINE f == [Top EXCEPT !.at = i, !.ran = TRUE]
  <2>2. f \in CallFrame
    BY <1>1, <2>1 DEF CallFrame
  <2>3. stack' = <<Frame(Kids(s)[i])>> \o <<f>> \o Tail(stack)
    BY DEF Call
  <2>4. st = <<f>> \o Tail(stack)
    BY <1>4 DEF Moved
  <2> HIDE DEF f
  <2>5. <<Frame(Kids(s)[i])>> \in Seq(CallFrame) /\ <<f>> \in Seq(CallFrame)
    BY <1>6, <2>2
  <2> QED
    BY <2>1, <2>3, <2>4, <2>5, ConcatAssociative
<1>12. Pushed(current', st, Frame(Kids(s)[i]), stack')
  BY <1>10, <1>11, FramesPush
<1> QED
  BY <1>6, <1>12 DEF Pushed, Unsolved

LEMMA SettledEmit ==
  ASSUME TaskInv, Frames(current, stack), Queued(current, queue), Unsolved(emitted, queue, stack), Emit
  PROVE  Settled
<1>1. /\ queue # <<>> /\ current' = current /\ stack' = stack /\ failures' = failures /\ Typed
      /\ task \in Tasks /\ queue \in Seq(Solution)
  BY DEF Emit, TaskInv, Typed, progress
<1>2. Unsolved(emitted', queue', stack')
  BY <1>1 DEF Unsolved
<1>3. Tail(queue) \in Seq(Solution) /\ Head(queue) \in Solution /\ Committed(current, Head(queue).stage)
  <2>1. Head(queue) = queue[1] /\ 1 \in DOMAIN queue
    BY <1>1
  <2>2. Committed(current, queue[1].stage)
    BY <2>1 DEF Queued
  <2>3. Tail(queue) \in Seq(Solution) /\ Head(queue) \in Solution
    BY <1>1, NewestFacts
  <2> QED
    BY <2>1, <2>2, <2>3
<1>4. Queued(current, Tail(queue))
  <2>1. \A n \in DOMAIN Tail(queue) : n + 1 \in DOMAIN queue /\ Tail(queue)[n] = queue[n + 1]
    BY <1>1
  <2> QED
    BY <2>1 DEF Queued
<1>5. CASE queue' = Tail(queue)
  BY <1>1, <1>2, <1>4, <1>5 DEF Settled
<1>6. CASE Lift(Append(emitted, Head(queue)))
  <2>1. PICK new : LiftsTo(Head(queue), Append(emitted, Head(queue)), new) /\ queue' = new \o Tail(queue)
    BY <1>1, <1>6, LiftFacts
  <2> DEFINE all == Append(emitted, Head(queue))
             k == Head(queue).stage
  <2>2. Last(all) = Head(queue)
    BY <1>1, NewestFacts
  <2>3. k \in Stages
    BY <1>3 DEF Solution
  <2>4. ASSUME NEW n \in DOMAIN new PROVE Committed(current, new[n].stage)
    <3>1. new # <<>>
      BY <2>1, <2>4 DEF LiftsTo
    <3>2. k # Root
      BY <2>1, <3>1 DEF LiftsTo
    <3>3. \/ \E at : new[n] = ChainOf(all, at)
          \/ new[n] = [Head(queue) EXCEPT !.stage = Parent(k)]
      BY <2>1, <2>4 DEF LiftsTo
    <3> HIDE DEF all
    <3>4. new[n].stage = Parent(k)
      <4>1. ASSUME NEW at, new[n] = ChainOf(all, at) PROVE new[n].stage = Parent(k)
        BY <2>2, <4>1 DEF ChainOf
      <4>2. CASE new[n] = [Head(queue) EXCEPT !.stage = Parent(k)]
        BY <1>3, <4>2 DEF Solution
      <4> QED
        BY <3>3, <4>1, <4>2
    <3>5. Committed(current, Parent(k))
      BY <1>1, <1>3, <2>3, <3>2, CommittedUp
    <3> QED
      BY <3>4, <3>5
  <2>5. new \in Seq(Solution)
    BY <2>1 DEF LiftsTo
  <2> HIDE DEF all, k
  <2>6. Queued(current, queue')
    <3>1. Follow(queue', new, Tail(queue)) /\ queue' \in Seq(Solution)
      BY <1>3, <2>1, <2>5, ConcatFacts
    <3>2. ASSUME NEW n \in DOMAIN queue' PROVE Committed(current, queue'[n].stage)
      <4>1. Len(new) \in Nat /\ Len(Tail(queue)) \in Nat /\ DOMAIN queue' = 1 .. Len(queue') /\ n \in Nat
        BY <1>3, <2>5, <3>1, <3>2
      <4>2. CASE n <= Len(new)
        <5>1. n \in DOMAIN new /\ queue'[n] = new[n]
          BY <2>5, <3>1, <4>1, <4>2 DEF Follow
        <5> QED
          BY <2>4, <5>1
      <4>3. CASE n > Len(new)
        <5>1. n - Len(new) \in 1 .. Len(Tail(queue)) /\ n = Len(new) + (n - Len(new))
          BY <3>1, <4>1, <4>3 DEF Follow
        <5>2. queue'[n] = Tail(queue)[n - Len(new)] /\ n - Len(new) \in DOMAIN Tail(queue)
          BY <1>3, <3>1, <5>1 DEF Follow
        <5> QED
          BY <1>4, <5>2 DEF Queued
      <4> QED
        BY <4>1, <4>2, <4>3
    <3> QED
      BY <3>2 DEF Queued
  <2> QED
    BY <1>1, <1>2, <2>6 DEF Settled
<1> QED
  BY <1>5, <1>6, Zenon DEF Emit

LEMMA SettledFrame ==
  ASSUME Typed, Frames(current, stack), stack # <<>> PROVE Committed(current, Top.stage)
<1>1. 1 \in DOMAIN stack /\ Top = stack[1]
  BY DEF Typed, Top
<1> QED
  BY <1>1 DEF Frames

LEMMA SettledStep ==
  ASSUME TaskInv, Frames(current, stack), Queued(current, queue), Unsolved(emitted, queue, stack), [Next]_vars
  PROVE  Settled
<1> USE DEF pulls, progress
<1>0. /\ Typed /\ Open /\ task \in Tasks /\ current \in [Stages -> Nat]
  BY DEF TaskInv, Typed
<1>q. ASSUME queue' = queue, queue = <<>> PROVE Queued(current', queue')
  BY <1>q DEF Queued
<1>p. ASSUME stack # <<>>, Pop, TopOnly(current'), queue' = queue, queue = <<>>, failures' = failures
      PROVE  Settled
  BY <1>0, <1>p, <1>q, SettledPop DEF Settled, TopOnly
<1>g. ASSUME NEW s \in Stages, NEW n \in Nat, At(s, n) \/ (stack # <<>> /\ Top.stage = s /\ queue = <<>>),
             NEW m \in Nat, Goto(m, FALSE), UNCHANGED <<queue, failures, current, emitted>>,
             Kind(s) # "fallbacks" \/ Sols(s) = <<>>
      PROVE  Settled
  <2>1. stack # <<>> /\ Top.stage = s /\ queue = <<>>
    BY <1>g, AtFacts
  <2>2. Kind(Top.stage) # "fallbacks" \/ (queue' = <<>> /\ ~Solved(emitted', Top.stage))
    BY <1>0, <1>g, <2>1, SolsFacts DEF Solved
  <2>3. Frames(current', stack') /\ Unsolved(emitted', queue', stack')
    BY <1>0, <1>g, <2>1, <2>2, SettledStack DEF TopOnly
  <2> QED
    BY <1>g, <1>q, <2>1, <2>3 DEF Settled
<1>1. CASE InitTask \/ Conclude \/ UNCHANGED vars
  <2>1. UNCHANGED <<current, stack, queue, failures, emitted>>
    BY <1>1 DEF InitTask, Conclude, vars
  <2> QED
    BY <2>1 DEF Settled
<1>2. CASE Pass
  <2>1. stack' = <<Frame(Root)>> /\ UNCHANGED <<current, queue, failures, emitted>>
    BY <1>2 DEF Pass
  <2>2. Committed(current, Root)
    <3>1. Line[Root] = {Root}
      BY <1>0, StageFacts, LineFacts
    <3> QED
      BY <1>0, <3>1, KidFacts DEF Committed
  <2>3. Frame(Root) \in CallFrame /\ Frame(Root).stage = Root /\ Frame(Root).at = 0 /\ Frame(Root).ran = FALSE
    BY <1>0, StageFacts DEF Frame, CallFrame
  <2>4. <<>> \in Seq(CallFrame) /\ Frames(current, <<>>)
    BY DEF Frames
  <2>5. Fits(current, <<>>, Frame(Root))
    BY <2>2, <2>3, <2>4 DEF Fits
  <2>6. stack' = <<Frame(Root)>> \o <<>>
    BY <2>1, <2>3
  <2>7. Pushed(current, <<>>, Frame(Root), stack')
    BY <2>5, <2>6, FramesPush
  <2> QED
    BY <2>1, <2>3, <2>7 DEF Settled, Pushed, Unsolved
<1>3. CASE Emit
  BY <1>3, SettledEmit
<1>4. ASSUME NEW s \in Stages, EnterSolved(s) \/ Leave(s) \/ Exhausted(s) PROVE Settled
  <2>1. queue = <<>> /\ stack # <<>> /\ Top.stage = s
    BY <1>0, <1>4, ThreadSteps
  <2>2. Pop /\ queue' = queue /\ failures' = failures
        /\ current' \in {current, [current EXCEPT ![s] = Len(Kids(s)) + 1]}
    BY <1>4 DEF EnterSolved, Leave, Exhausted
  <2>3. TopOnly(current')
    BY <1>0, <2>1, <2>2 DEF TopOnly
  <2> QED
    BY <1>p, <2>1, <2>2, <2>3
<1>5. ASSUME NEW s \in Stages, Enter(s) PROVE Settled
  <2>1. At(s, 0) /\ Goto(1, FALSE) /\ UNCHANGED <<queue, failures, current, emitted>>
        /\ (Kind(s) = "fallbacks" => Sols(s) = <<>>)
    BY <1>5 DEF Enter
  <2> QED
    BY <1>g, <2>1
<1>6. ASSUME NEW s \in Stages, Flush(s) PROVE Settled
  <2>1. UNCHANGED <<current, stack>> /\ jobs # <<>> /\ stack # <<>> /\ Top.stage = s /\ verdict = "planning"
    BY <1>0, <1>6, ThreadSteps DEF Flush
  <2>2. Batched(s) /\ \A n \in DOMAIN jobs : jobs[n].stage \in ToSet(Kids(s))
    BY <1>0, <2>1 DEF Open
  <2>3. Kind(s) # "fallbacks" /\ Kind(Head(stack).stage) # "fallbacks"
    BY <2>1, <2>2 DEF Batched, Top
  <2>4. Committed(current, s)
    BY <1>0, <2>1, SettledFrame
  <2>5. ASSUME NEW n \in DOMAIN jobs PROVE Committed(current, jobs[n].stage)
    <3>1. PICK i : i \in DOMAIN Kids(s) /\ Kids(s)[i] = jobs[n].stage
      BY <2>2 DEF ToSet
    <3> QED
      BY <1>0, <2>3, <2>4, <3>1, CommittedDown
  <2>6. ASSUME NEW n \in DOMAIN queue' PROVE Committed(current, queue'[n].stage)
    <3>1. PICK j : j \in DOMAIN jobs /\ IsLeaf(queue'[n], jobs[j].stage)
      BY <1>0, <1>6, FlushFacts
    <3> QED
      BY <2>5, <3>1 DEF IsLeaf, Leaf
  <2>7. \A f \in failures' : f \in failures \/ Committed(current, f.stage)
    BY <1>0, <1>6, <2>5, FlushFacts
  <2> QED
    BY <2>1, <2>3, <2>6, <2>7 DEF Settled, Queued, Unsolved
<1>7. ASSUME NEW s \in Stages, IkChild(s) PROVE Settled
  <2>1. Kind(s) = "ik" /\ At(s, 0) /\ Goto(1, FALSE) /\ UNCHANGED <<emitted, current>>
    BY <1>7 DEF IkChild
  <2>2. stack # <<>> /\ Top.stage = s /\ queue = <<>>
    BY <2>1, AtFacts
  <2>3. Frames(current', stack') /\ Unsolved(emitted', queue', stack') /\ Committed(current', s)
    BY <1>0, <2>1, <2>2, SettledStack DEF TopOnly
  <2>4. CASE UNCHANGED <<pulls, starts, ends, processed, failures, jobs, queue>>
    BY <1>q, <2>2, <2>3, <2>4 DEF Settled
  <2>5. CASE Kids(s)[1] \in Stages /\ LeafEffect(Kids(s)[1])
    <3>1. 1 \in DOMAIN Kids(s)
      BY <1>0, <2>1, StageFacts
    <3>2. Committed(current', Kids(s)[1])
      BY <1>0, <2>1, <2>3, <3>1, CommittedDown
    <3>3. Queued(current', queue') /\ \A f \in failures' : f \in failures \/ Committed(current', f.stage)
      BY <2>5, <3>2, SettledLeaf DEF LeafEffect
    <3> QED
      BY <2>3, <3>3 DEF Settled
  <2> QED
    BY <1>0, <1>7, <2>4, <2>5, IkChildComputes
<1>8. ASSUME NEW s \in Stages, IkCandidates(s) PROVE Settled
  <2>1. stack # <<>> /\ Top.stage = s /\ Pop /\ UNCHANGED <<emitted, current>>
    BY <1>0, <1>8, ThreadSteps DEF IkCandidates
  <2>2. Frames(current', stack') /\ Unsolved(emitted', queue', stack') /\ Committed(current', s)
    BY <1>0, <2>1, SettledPop
  <2>3. /\ \A n \in DOMAIN queue' : IsLeaf(queue'[n], s)
        /\ \A f \in failures' : f \in failures \/ f.stage = s
    BY <1>0, <1>8, IkCandidatesFacts
  <2>4. Queued(current', queue') /\ \A f \in failures' : f \in failures \/ Committed(current', f.stage)
    BY <2>2, <2>3, SettledLeaf
  <2> QED
    BY <2>2, <2>4 DEF Settled
<1>9. ASSUME NEW s \in Stages, NEW i \in DOMAIN Kids(s), Skip(s, i) \/ Propagate(s, i) PROVE Settled
  <2>1. At(s, i) /\ Goto(i + 1, FALSE) /\ Kind(s) # "fallbacks" /\ UNCHANGED <<queue, failures, current, emitted>>
    BY <1>9 DEF Skip, Propagate, InOrder
  <2>2. i \in Nat /\ i + 1 \in Nat
    <3>1. DOMAIN Kids(s) = 1 .. Len(Kids(s)) /\ Len(Kids(s)) \in Nat
      BY <1>0, StageFacts
    <3> QED
      BY <3>1
  <2> QED
    BY <1>g, <2>1, <2>2
<1>10. ASSUME NEW s \in Stages, NEW i \in DOMAIN Kids(s), Runs(s, i), Call(s, i) PROVE Settled
  <2>1. queue = <<>> /\ queue' = queue /\ failures' = failures
    BY <1>0, <1>10, RunsFacts DEF Call
  <2> QED
    BY <1>0, <1>10, <1>q, <2>1, SettledCall DEF Settled
<1>11. ASSUME NEW s \in Stages, NEW i \in DOMAIN Kids(s), Runs(s, i), ComputeLeaf(s, i) PROVE Settled
  <2>1. /\ queue = <<>> /\ stack # <<>> /\ Top.stage = s /\ i \in Nat
        /\ \/ Kind(s) # "fallbacks" /\ current' = current
           \/ Kind(s) = "fallbacks" /\ current' = [current EXCEPT ![s] = i]
    BY <1>0, <1>11, RunsFacts
  <2>2. TopOnly(current') /\ (Kind(s) = "fallbacks" => current'[s] = i)
    BY <1>0, <2>1 DEF TopOnly
  <2>3. Goto(i, TRUE)
    BY <1>11, Zenon DEF ComputeLeaf
  <2>4. Frames(current', stack') /\ Unsolved(emitted', queue', stack') /\ Committed(current', s)
    BY <1>0, <2>1, <2>2, <2>3, SettledStack
  <2>5. Kids(s)[i] \in Stages /\ LeafEffect(Kids(s)[i])
    BY <1>0, <1>11, <2>1, LeafComputes
  <2>6. Committed(current', Kids(s)[i])
    BY <1>0, <2>2, <2>4, CommittedDown
  <2>7. Queued(current', queue') /\ \A f \in failures' : f \in failures \/ Committed(current', f.stage)
    BY <2>5, <2>6, SettledLeaf DEF LeafEffect
  <2> QED
    BY <2>4, <2>7 DEF Settled
<1>12. ASSUME NEW s \in Stages, NEW i \in DOMAIN Kids(s), FallbacksTried(s, i) PROVE Settled
  <2>1. queue = <<>> /\ stack # <<>> /\ Top.stage = s
    BY <1>0, <1>12, ThreadSteps
  <2>2. PICK n : current' = [current EXCEPT ![s] = n]
    BY <1>12 DEF FallbacksTried
  <2>3. Pop /\ queue' = queue /\ failures' = failures
    BY <1>12 DEF FallbacksTried
  <2>4. TopOnly(current')
    BY <1>0, <2>1, <2>2 DEF TopOnly
  <2> QED
    BY <1>p, <2>1, <2>3, <2>4
<1>13. ASSUME NEW s \in Stages, NEW i \in DOMAIN Kids(s), StageRaises(s, i) PROVE Settled
  <2>1. stack' = <<>> /\ queue' = queue /\ failures' = failures /\ queue = <<>>
    BY <1>0, <1>13, RunsFacts DEF StageRaises
  <2>2. Frames(current', stack') /\ Unsolved(emitted', queue', stack')
    BY <2>1 DEF Frames, Unsolved
  <2> QED
    BY <1>q, <2>1, <2>2 DEF Settled
<1> QED
  BY <1>1, <1>2, <1>3, <1>4, <1>5, <1>6, <1>7, <1>8, <1>9, <1>10, <1>11, <1>12, <1>13, NextCases

-----------------------------------------------------------------------------
(* The committed invariant, step by step. *)
CommitInv ==
  /\ Frames(current, stack) /\ Queued(current, queue) /\ Unsolved(emitted, queue, stack)
  /\ Beyond(current, emitted, failures) /\ Behind(current, emitted) /\ Passed(emitted, queue)
  /\ Commits(emitted, failures)

LEMMA SolvedSteps ==
  ASSUME Typed, [Next]_vars
  PROVE  /\ \A k : Solved(emitted, k) => Solved(emitted', k)
         /\ \A k : Solved(emitted', k) => Solved(emitted, k) \/ (Emits /\ k = Head(queue).stage)
         /\ Emits => Solved(emitted', Head(queue).stage)
<1>1. \A k : Solved(emitted, k) => Solved(emitted', k)
  BY EmittedGrows DEF Solved
<1>2. CASE emitted' = emitted /\ ~Emits
  BY <1>1, <1>2
<1>3. CASE Emits
  <2>1. /\ emitted' = Append(emitted, Head(queue))
        /\ DOMAIN emitted' = DOMAIN emitted \cup {Len(emitted')}
        /\ \A x \in DOMAIN emitted : emitted'[x] = emitted[x]
        /\ emitted'[Len(emitted')] = Head(queue)
    BY <1>3, NewestFacts DEF Emits
  <2> QED
    BY <1>1, <1>3, <2>1 DEF Solved
<1> QED
  BY <1>2, <1>3, EmittedSteps

LEMMA TriedSteps ==
  ASSUME TaskInv, CommitInv, [Next]_vars
  PROVE  /\ Settled
         /\ \A k : Tried(emitted', failures', k) => Tried(emitted, failures, k) \/ Committed(current', k)
         /\ \A k : Solved(emitted', k) => Solved(emitted, k) \/ Committed(current', k)
<1>1. Settled /\ Typed
  BY SettledStep DEF CommitInv, TaskInv
<1>2. ASSUME Emits PROVE Committed(current', Head(queue).stage)
  <2>1. current' = current /\ queue # <<>>
    BY <1>2 DEF Emits, progress
  <2>2. Head(queue) = queue[1] /\ 1 \in DOMAIN queue
    BY <1>1, <2>1 DEF Typed
  <2> QED
    BY <2>1, <2>2 DEF CommitInv, Queued
<1>3. \A k : Solved(emitted', k) => Solved(emitted, k) \/ Committed(current', k)
  BY <1>1, <1>2, SolvedSteps
<1>4. \A f \in failures' : f \in failures \/ Committed(current', f.stage)
  BY <1>1 DEF Settled
<1> QED
  BY <1>1, <1>3, <1>4 DEF Tried

(* The frame of a Fallbacks that tries, or has tried, its child i. *)
LEMMA TryingFacts ==
  ASSUME Typed, CommitInv, NEW s \in Stages, NEW i \in DOMAIN Kids(s), Trying(s, i)
  PROVE  /\ Kind(s) = "fallbacks" /\ i >= current[s]
         /\ \A j \in DOMAIN Kids(s) : ~Solved(emitted, Kids(s)[j])
<1>1. At(s, 1) /\ ~Top.ran /\ Kind(s) = "fallbacks" /\ i >= current[s]
  BY DEF Trying, Candidates
<1>2. queue = <<>> /\ stack # <<>> /\ Top.stage = s /\ Top.at = 1
  BY <1>1, AtFacts
<1>3. ~Solved(emitted, s)
  BY <1>1, <1>2 DEF CommitInv, Unsolved, Top
<1>4. Parallel(s)
  BY <1>1 DEF Parallel
<1> QED
  BY <1>1, <1>2, <1>3, <1>4 DEF CommitInv, Passed

LEMMA TriedFacts ==
  ASSUME Typed, CommitInv, NEW s \in Stages, NEW i \in DOMAIN Kids(s), FallbacksTried(s, i)
  PROVE  /\ Kind(s) = "fallbacks" /\ current[s] = i
         /\ \/ current' = [current EXCEPT ![s] = Len(Kids(s)) + 1]
            \/ ~Solved(emitted, Kids(s)[i]) /\ current' \in {[current EXCEPT ![s] = i], [current EXCEPT ![s] = i + 1]}
<1>1. At(s, i) /\ Top.ran /\ Kind(s) = "fallbacks"
  BY DEF FallbacksTried
<1>2. stack # <<>> /\ Top.stage = s /\ Top.at = i
  BY <1>1, AtFacts
<1>3. Top = stack[1] /\ 1 \in DOMAIN stack
  BY <1>2 DEF Typed, Top
<1>4. current[s] = i
  BY <1>1, <1>2, <1>3 DEF CommitInv, Frames
<1>5. Sols(Kids(s)[i]) # <<>> <=> Solved(emitted, Kids(s)[i])
  BY SolsFacts DEF Solved
<1> QED
  BY <1>1, <1>4, <1>5 DEF FallbacksTried

LEMMA CurrentGrows ==
  ASSUME TaskInv, CommitInv, [Next]_vars
  PROVE  \A s \in Stages : current'[s] >= current[s] /\ current'[s] \in Nat /\ current[s] \in Nat
<1>0. /\ Typed /\ Placed /\ task \in Tasks /\ current \in [Stages -> Nat] /\ current' \in [Stages -> Nat]
  BY TypedStep DEF TaskInv, Typed, TypedNext
<1>s. \A s \in Stages : Len(Kids(s)) \in Nat /\ DOMAIN Kids(s) = 1 .. Len(Kids(s))
  BY <1>0, StageFacts
<1>r. ASSUME NEW s \in Stages, NEW n \in Nat, n >= current[s], current' = [current EXCEPT ![s] = n]
      PROVE  \A r \in Stages : current'[r] >= current[r]
  BY <1>0, <1>r
<1>1. CASE current' = current
  BY <1>0, <1>1
<1>2. ASSUME NEW s \in Stages, Exhausted(s) PROVE \A r \in Stages : current'[r] >= current[r]
  <2>1. current' = [current EXCEPT ![s] = Len(Kids(s)) + 1]
    BY <1>2 DEF Exhausted
  <2>2. Len(Kids(s)) + 1 \in Nat /\ Len(Kids(s)) + 1 >= current[s]
    BY <1>0, <1>s DEF Placed
  <2> QED
    BY <1>r, <2>1, <2>2
<1>3. ASSUME NEW s \in Stages, NEW i \in DOMAIN Kids(s), Trying(s, i), current' = [current EXCEPT ![s] = i]
      PROVE  \A r \in Stages : current'[r] >= current[r]
  <2>1. i \in Nat /\ i >= current[s]
    BY <1>0, <1>s, <1>3, TryingFacts
  <2> QED
    BY <1>r, <1>3, <2>1
<1>4. ASSUME NEW s \in Stages, NEW i \in DOMAIN Kids(s), FallbacksTried(s, i)
      PROVE  \A r \in Stages : current'[r] >= current[r]
  <2>1. PICK n : n \in {Len(Kids(s)) + 1, i, i + 1} /\ current' = [current EXCEPT ![s] = n]
    BY <1>4 DEF FallbacksTried
  <2>2. current[s] = i
    BY <1>0, <1>4, TriedFacts
  <2>3. n \in Nat /\ n >= current[s]
    BY <1>s, <2>1, <2>2
  <2> QED
    BY <1>r, <2>1, <2>3
<1>5. \A r \in Stages : current'[r] >= current[r]
  BY <1>0, <1>1, <1>2, <1>3, <1>4, CurrentSteps
<1> QED
  BY <1>0, <1>5

LEMMA BeyondStep ==
  ASSUME TaskInv, CommitInv, [Next]_vars PROVE Beyond(current', emitted', failures')
<1> SUFFICES ASSUME NEW s \in Stages, NEW j \in DOMAIN Kids(s), NEW k \in Subtree(Kids(s)[j]),
                    Kind(s) = "fallbacks", j > current'[s], Tried(emitted', failures', k)
             PROVE  FALSE
  BY DEF Beyond
<1>1. j \in Nat
  <2>1. DOMAIN Kids(s) = 1 .. Len(Kids(s)) /\ Len(Kids(s)) \in Nat
    BY StageFacts DEF TaskInv, Typed
  <2> QED
    BY <2>1
<1>2. current'[s] >= current[s] /\ current'[s] \in Nat /\ current[s] \in Nat
  BY CurrentGrows
<1>3. CASE Committed(current', k)
  <2>1. Kids(s)[j] \in Line[k]
    BY DEF Subtree
  <2> QED
    BY <1>1, <1>2, <1>3, <2>1 DEF Committed
<1>4. CASE Tried(emitted, failures, k)
  <2>1. j > current[s]
    BY <1>1, <1>2
  <2> QED
    BY <1>4, <2>1 DEF CommitInv, Beyond
<1> QED
  BY <1>3, <1>4, TriedSteps

LEMMA BehindStep ==
  ASSUME TaskInv, CommitInv, [Next]_vars PROVE Behind(current', emitted')
<1> SUFFICES ASSUME NEW s \in Stages, NEW i \in DOMAIN Kids(s), Kind(s) = "fallbacks",
                    Solved(emitted', Kids(s)[i]), i < current'[s], current'[s] # Len(Kids(s)) + 1
             PROVE  FALSE
  BY DEF Behind
<1>0. Typed /\ current \in [Stages -> Nat] /\ task \in Tasks
  BY DEF TaskInv, Typed
<1>1. \A r \in Stages : DOMAIN Kids(r) = 1 .. Len(Kids(r)) /\ Len(Kids(r)) \in Nat
  BY <1>0, StageFacts
<1>2. i \in Nat /\ current'[s] \in Nat /\ current[s] \in Nat
  BY <1>1, CurrentGrows
<1>3. CASE Committed(current', Kids(s)[i])
  <2>1. Kids(s)[i] \in Line[Kids(s)[i]]
    BY <1>0, KidFacts, LineFacts
  <2> QED
    BY <1>2, <1>3, <2>1 DEF Committed
<1>4. ASSUME Solved(emitted, Kids(s)[i]) PROVE FALSE
  <2>1. CASE current'[s] = current[s]
    BY <1>4, <2>1 DEF CommitInv, Behind
  <2>2. ASSUME NEW r \in Stages, Exhausted(r) PROVE current'[s] = current[s]
    <3>1. current' = [current EXCEPT ![r] = Len(Kids(r)) + 1]
      BY <2>2 DEF Exhausted
    <3> QED
      BY <1>0, <3>1
  <2>3. ASSUME NEW r \in Stages, NEW j \in DOMAIN Kids(r), Trying(r, j), current' = [current EXCEPT ![r] = j]
        PROVE  current'[s] = current[s]
    <3>1. r # s
      BY <1>0, <1>4, <2>3, TryingFacts
    <3> QED
      BY <1>0, <2>3, <3>1
  <2>4. ASSUME NEW r \in Stages, NEW j \in DOMAIN Kids(r), FallbacksTried(r, j) PROVE current'[s] = current[s]
    <3>1. /\ current[r] = j
          /\ \/ current' = [current EXCEPT ![r] = Len(Kids(r)) + 1]
             \/ ~Solved(emitted, Kids(r)[j]) /\ current' \in {[current EXCEPT ![r] = j], [current EXCEPT ![r] = j + 1]}
      BY <1>0, <2>4, TriedFacts
    <3>2. CASE r # s
      BY <1>0, <3>1, <3>2
    <3>3. CASE r = s
      <4>1. ~Solved(emitted, Kids(s)[j]) /\ current'[s] \in {j, j + 1}
        BY <1>0, <3>1, <3>3
      <4>2. j \in Nat /\ j <= Len(Kids(s)) /\ i # j
        BY <1>1, <1>4, <3>3, <4>1
      <4>3. i < current[s] /\ current[s] # Len(Kids(s)) + 1
        BY <1>1, <1>2, <3>1, <3>3, <4>1, <4>2
      <4> QED
        BY <1>4, <4>3 DEF CommitInv, Behind
    <3> QED
      BY <3>2, <3>3
  <2> QED
    BY <1>0, <2>1, <2>2, <2>3, <2>4, CurrentSteps
<1> QED
  BY <1>3, <1>4, TriedSteps

LEMMA QueueSteps ==
  ASSUME Typed, [Next]_vars PROVE queue' = queue \/ queue = <<>> \/ Emit
<1>1. CASE InitTask \/ Pass \/ Conclude \/ UNCHANGED vars
  BY <1>1 DEF InitTask, Pass, Conclude, vars
<1>2. ASSUME NEW s \in Stages, NEW i \in DOMAIN Kids(s), StageRaises(s, i) PROVE queue' = queue
  BY <1>2 DEF StageRaises
<1> QED
  BY <1>1, <1>2, NextCases, ThreadSteps

(* What an emission is lifted to joins the queue, and what waits there stays
   until its stage has a solution. *)
Waiting(q, s) == \E n \in DOMAIN q : q[n].stage = s

LEMMA QueueJoins ==
  ASSUME Typed, queue # <<>>, NEW new \in Seq(Solution), queue' = new \o Tail(queue)
  PROVE  /\ \A n \in DOMAIN new : n \in DOMAIN queue' /\ queue'[n] = new[n]
         /\ \A n \in DOMAIN Tail(queue) : Len(new) + n \in DOMAIN queue' /\ queue'[Len(new) + n] = Tail(queue)[n]
<1>1. Tail(queue) \in Seq(Solution)
  BY NewestFacts
<1>2. Follow(queue', new, Tail(queue)) /\ queue' \in Seq(Solution)
  BY <1>1, ConcatFacts
<1>3. Len(new) \in Nat /\ Len(Tail(queue)) \in Nat /\ DOMAIN new = 1 .. Len(new)
      /\ DOMAIN Tail(queue) = 1 .. Len(Tail(queue)) /\ DOMAIN queue' = 1 .. Len(queue')
  BY <1>1, <1>2
<1>4. \A n \in 1 .. Len(new) : n \in 1 .. Len(queue') /\ queue'[n] = new[n]
  BY <1>2, <1>3 DEF Follow
<1>5. \A n \in 1 .. Len(Tail(queue)) :
        Len(new) + n \in 1 .. Len(queue') /\ queue'[Len(new) + n] = Tail(queue)[n]
  BY <1>2, <1>3 DEF Follow
<1> QED
  BY <1>3, <1>4, <1>5

LEMMA QueueKeeps ==
  ASSUME Typed, [Next]_vars, NEW s, ~Solved(emitted', s), Waiting(queue, s)
  PROVE  Waiting(queue', s)
<1>1. ~Solved(emitted, s) /\ (Emits => Head(queue).stage # s) /\ queue \in Seq(Solution)
  BY SolvedSteps DEF Typed
<1>2. PICK n : n \in DOMAIN queue /\ queue[n].stage = s
  BY DEF Waiting
<1>3. queue # <<>> /\ Head(queue) = queue[1]
  BY <1>1, <1>2
<1>4. n # 1 => n - 1 \in DOMAIN Tail(queue) /\ Tail(queue)[n - 1].stage = s
  BY <1>1, <1>2, <1>3
<1>5. CASE Emits
  <2>1. n # 1
    BY <1>1, <1>2, <1>3, <1>5
  <2>2. Lift(Append(emitted, Head(queue)))
    BY <1>5 DEF Emits
  <2>3. PICK new : LiftsTo(Head(queue), Append(emitted, Head(queue)), new) /\ queue' = new \o Tail(queue)
    BY <1>3, <2>2, LiftFacts
  <2>4. new \in Seq(Solution)
    BY <2>3 DEF LiftsTo
  <2>5. \E x \in DOMAIN Tail(queue) : Tail(queue)[x].stage = s
    BY <1>4, <2>1
  <2>6. \A x \in DOMAIN Tail(queue) : /\ Len(new) + x \in DOMAIN queue'
                                      /\ queue'[Len(new) + x] = Tail(queue)[x]
    BY <1>3, <2>3, <2>4, QueueJoins
  <2>7. PICK x \in DOMAIN Tail(queue) : Tail(queue)[x].stage = s
    BY <2>5
  <2>8. Len(new) + x \in DOMAIN queue' /\ queue'[Len(new) + x].stage = s
    BY <2>6, <2>7
  <2> QED
    BY <2>8 DEF Waiting
<1>6. CASE ~Emits /\ Emit
  <2>1. Known(Head(queue)) /\ queue' = Tail(queue)
    BY <1>6, Zenon DEF Emit, Emits
  <2>2. \E x \in ToSet(emitted) : x.stage = Head(queue).stage
    BY <2>1 DEF Known
  <2>3. Solved(emitted, Head(queue).stage)
    BY <2>2 DEF Solved, ToSet
  <2>4. n # 1
    BY <1>1, <1>2, <1>3, <2>3
  <2> QED
    BY <1>4, <2>1, <2>4 DEF Waiting
<1>7. CASE queue' = queue
  BY <1>2, <1>7 DEF Waiting
<1> QED
  BY <1>3, <1>5, <1>6, <1>7, QueueSteps

LEMMA PassedStep ==
  ASSUME TaskInv, CommitInv, [Next]_vars PROVE Passed(emitted', queue')
<1> SUFFICES ASSUME NEW s \in Stages, NEW i \in DOMAIN Kids(s), Parallel(s),
                    Solved(emitted', Kids(s)[i]), ~Solved(emitted', s)
             PROVE  Waiting(queue', s)
  BY DEF Passed, Waiting
<1>0. Typed /\ task \in Tasks
  BY DEF TaskInv, Typed
<1>1. CASE Solved(emitted, Kids(s)[i])
  <2>1. ~Solved(emitted, s)
    BY <1>0, SolvedSteps
  <2>2. Waiting(queue, s)
    BY <1>1, <2>1 DEF CommitInv, Passed, Waiting
  <2> QED
    BY <1>0, <2>2, QueueKeeps
<1>2. CASE Emits /\ Kids(s)[i] = Head(queue).stage
  <2>1. queue # <<>> /\ Lift(Append(emitted, Head(queue)))
    BY <1>2 DEF Emits
  <2>2. PICK new : LiftsTo(Head(queue), Append(emitted, Head(queue)), new) /\ queue' = new \o Tail(queue)
    BY <1>0, <2>1, LiftFacts
  <2>3. Kids(s)[i] # Root /\ Parent(Kids(s)[i]) = s
    BY <1>0, KidFacts
  <2>4. new \in Seq(Solution) /\ \E n \in DOMAIN new : new[n].stage = s
    BY <1>2, <2>2, <2>3 DEF LiftsTo
  <2> QED
    BY <1>0, <2>1, <2>2, <2>4, QueueJoins DEF Waiting
<1> QED
  BY <1>0, <1>1, <1>2, SolvedSteps

LEMMA CommitsStep ==
  ASSUME TaskInv, CommitInv, [Next]_vars PROVE Commits(emitted', failures')
<1> SUFFICES ASSUME NEW s \in Stages, NEW i \in DOMAIN Kids(s), NEW j \in DOMAIN Kids(s),
                    NEW k \in Subtree(Kids(s)[j]), Kind(s) = "fallbacks", Solved(emitted', Kids(s)[i]), j > i,
                    Tried(emitted', failures', k)
             PROVE  FALSE
  BY DEF Commits
<1>0. task \in Tasks
  BY DEF TaskInv, Typed
<1>1. DOMAIN Kids(s) = 1 .. Len(Kids(s)) /\ Len(Kids(s)) \in Nat
  BY <1>0, StageFacts
<1>2. CASE Committed(current', Kids(s)[i])
  <2>1. Kids(s)[i] \in Line[Kids(s)[i]]
    BY <1>0, KidFacts, LineFacts
  <2>2. current'[s] = i
    BY <1>2, <2>1 DEF Committed
  <2> QED
    BY <2>2, BeyondStep DEF Beyond
<1>3. CASE Committed(current', k)
  <2>1. Kids(s)[j] \in Line[k]
    BY DEF Subtree
  <2>2. current'[s] = j
    BY <1>3, <2>1 DEF Committed
  <2>3. current'[s] = Len(Kids(s)) + 1
    BY <1>1, <2>2, BehindStep DEF Behind
  <2> QED
    BY <1>1, <2>2, <2>3
<1>4. CASE Solved(emitted, Kids(s)[i]) /\ Tried(emitted, failures, k)
  BY <1>4 DEF CommitInv, Commits
<1> QED
  BY <1>2, <1>3, <1>4, TriedSteps

LEMMA CommitInvStep ==
  ASSUME TaskInv, CommitInv, [Next]_vars PROVE CommitInv'
<1>1. /\ task' = task /\ Stages' = Stages /\ Line' = Line
  BY TypedStep, SameTree DEF TaskInv, TypedNext
<1>2. /\ Frames(current', stack') /\ Queued(current', queue') /\ Unsolved(emitted', queue', stack')
      /\ Beyond(current', emitted', failures') /\ Behind(current', emitted') /\ Passed(emitted', queue')
      /\ Commits(emitted', failures')
  BY TriedSteps, BeyondStep, BehindStep, PassedStep, CommitsStep DEF Settled
<1>3. Frames(current, stack)' /\ Queued(current, queue)'
  BY <1>1, <1>2 DEF Frames, Queued, Committed, Kind, Kids
<1>4. Unsolved(emitted, queue, stack)'
  BY <1>1, <1>2 DEF Unsolved, Kind, Solved
<1>5. Beyond(current, emitted, failures)'
  BY <1>1, <1>2 DEF Beyond, Subtree, Tried, Solved, Kind, Kids
<1>6. Behind(current, emitted)' /\ Passed(emitted, queue)'
  BY <1>1, <1>2 DEF Behind, Passed, Parallel, Solved, Kind, Kids
<1>7. Commits(emitted, failures)'
  BY <1>1, <1>2 DEF Commits, Subtree, Tried, Solved, Kind, Kids
<1> QED
  BY <1>3, <1>4, <1>5, <1>6, <1>7 DEF CommitInv

LEMMA CommitInvInit == Init => CommitInv
<1> SUFFICES ASSUME Init PROVE CommitInv
  OBVIOUS
<1>1. /\ emitted = <<>> /\ failures = {} /\ stack = <<>> /\ queue = <<>>
      /\ \A s \in Stages : current[s] = 1
  BY DEF Init
<1>2. \A k : ~Solved(emitted, k) /\ ~Tried(emitted, failures, k)
  BY <1>1 DEF Solved, Tried
<1> QED
  BY <1>1, <1>2 DEF CommitInv, Frames, Queued, Unsolved, Beyond, Behind, Passed, Commits

(* The fallback of a plan is chosen once: whatever other children compute in
   whatever passes, once a child has a solution none after it is attempted. *)
THEOREM FallbacksCommit == Spec => []FallbacksCommits
<1>1. TaskInv /\ CommitInv => FallbacksCommits
  <2> SUFFICES ASSUME TaskInv, CommitInv, NEW s \in Stages, Kind(s) = "fallbacks", NEW i \in DOMAIN Kids(s),
                      Sols(Kids(s)[i]) # <<>>, NEW j \in i + 1 .. Len(Kids(s)), Attempted(Kids(s)[j])
               PROVE  FALSE
    BY DEF FallbacksCommits
  <2>1. \A k : Sols(k) # <<>> <=> Solved(emitted, k)
    BY SolsFacts DEF Solved, TaskInv
  <2>2. DOMAIN Kids(s) = 1 .. Len(Kids(s)) /\ Len(Kids(s)) \in Nat
    BY StageFacts DEF TaskInv, Typed
  <2>3. j \in DOMAIN Kids(s) /\ j > i
    BY <2>2
  <2>4. PICK k : k \in Subtree(Kids(s)[j]) /\ Tried(emitted, failures, k)
    BY <2>1 DEF Attempted, Tried
  <2> QED
    BY <2>1, <2>3, <2>4 DEF CommitInv, Commits
<1>2. TaskInv /\ CommitInv /\ [Next]_vars => (TaskInv /\ CommitInv)'
  BY TaskInvStep, CommitInvStep
<1> QED
  BY TaskInvInit, CommitInvInit, <1>1, <1>2, PTL DEF Spec

-----------------------------------------------------------------------------
(* Solutions are linked, the emitted ones and those waiting to be. *)
Joined(L, a, b) ==
  /\ L # <<>> /\ L[1].from = a /\ L[Len(L)].to = b
  /\ \A x \in 1 .. Len(L) - 1 : L[x].to = L[x + 1].from
Beneath(L, s) == \A x \in DOMAIN L : s \in Line[L[x].stage]
InTurn(L, p) == \A x, y \in DOMAIN L : \A a, b \in DOMAIN Kids(p) :
  Kids(p)[a] \in Line[L[x].stage] /\ Kids(p)[b] \in Line[L[y].stage] /\ a < b => x < y
Linked(sol) ==
  /\ Joined(sol.leaves, sol.start, sol.end) /\ Beneath(sol.leaves, sol.stage)
  /\ Serial(sol.stage) => InTurn(sol.leaves, sol.stage)
AllLinked(sols) == \A n \in DOMAIN sols : Linked(sols[n])
LinkInv == AllLinked(emitted) /\ AllLinked(queue)

(* The segments come from the children of p up to place c. *)
UpTo(L, p, c) == \A x \in DOMAIN L : \E a \in DOMAIN Kids(p) : Kids(p)[a] \in Line[L[x].stage] /\ a <= c
LinkedUpTo(L, p, a, b, c) == Joined(L, a, b) /\ UpTo(L, p, c) /\ InTurn(L, p)

LEMMA LinkedLeaf ==
  ASSUME task \in Tasks, NEW k \in Stages, ~Container(k), NEW q, IsLeaf(q, k)
  PROVE  Linked(q)
<1>1. PICK a, b \in State : q = Leaf(k, a, b)
  BY DEF IsLeaf
<1>2. /\ q.stage = k /\ q.start = a /\ q.end = b /\ q.leaves = <<Attempt(k, a, b)>>
      /\ Attempt(k, a, b).stage = k /\ Attempt(k, a, b).from = a /\ Attempt(k, a, b).to = b
  BY <1>1 DEF Leaf, Attempt
<1>3. k \in Line[k] /\ ~Serial(k)
  BY LineFacts DEF Container
<1>4. Joined(q.leaves, q.start, q.end)
  BY <1>2 DEF Joined
<1>5. Beneath(q.leaves, q.stage)
  BY <1>2, <1>3 DEF Beneath
<1> QED
  BY <1>2, <1>3, <1>4, <1>5 DEF Linked

LEMMA LinkedLifted ==
  ASSUME task \in Tasks, NEW sol \in Solution, Linked(sol), sol.stage # Root,
         Parallel(Parent(sol.stage)), NEW q, q = [sol EXCEPT !.stage = Parent(sol.stage)]
  PROVE  Linked(q)
<1>1. q.stage = Parent(sol.stage) /\ q.start = sol.start /\ q.end = sol.end /\ q.leaves = sol.leaves
  BY DEF Solution
<1>2. ~Serial(q.stage)
  BY <1>1 DEF Serial, Parallel
<1>3. ASSUME NEW x \in DOMAIN sol.leaves PROVE Parent(sol.stage) \in Line[sol.leaves[x].stage]
  <2>0. sol.leaves \in Seq(Segment)
    BY DEF Solution
  <2>1. sol.leaves[x].stage \in Stages
    <3>1. sol.leaves[x] \in Segment
      BY <2>0, ElementOfSeq
    <3> QED
      BY <3>1 DEF Segment
  <2>2. sol.stage \in Line[sol.leaves[x].stage]
    BY DEF Linked, Beneath
  <2> QED
    BY <2>1, <2>2, LineUp
<1>4. Beneath(q.leaves, q.stage)
  BY <1>1, <1>3 DEF Beneath
<1> QED
  BY <1>1, <1>2, <1>4 DEF Linked

(* One more solution at the end of a chain. *)
LEMMA LinkedNext ==
  ASSUME task \in Tasks, NEW p \in Stages, NEW L \in Seq(Segment), NEW M \in Seq(Segment), NEW N, N = L \o M,
         NEW a, NEW b, NEW d \in DOMAIN Kids(p), NEW e, NEW o \in Nat, o < d,
         LinkedUpTo(L, p, a, b, o), Joined(M, b, e), Beneath(M, Kids(p)[d])
  PROVE  LinkedUpTo(N, p, a, e, d)
<1>1. Follow(N, L, M) /\ N \in Seq(Segment)
  BY ConcatFacts
<1>2. /\ Len(L) \in Nat /\ Len(M) \in Nat /\ Len(N) = Len(L) + Len(M)
      /\ DOMAIN L = 1 .. Len(L) /\ DOMAIN M = 1 .. Len(M) /\ DOMAIN N = 1 .. Len(N)
      /\ Len(L) > 0 /\ Len(M) > 0
  <2>1. L # <<>> /\ M # <<>>
    BY DEF LinkedUpTo, Joined
  <2> QED
    BY <1>1, <2>1, EmptySeq DEF Follow
<1>3. ASSUME NEW x \in DOMAIN N
      PROVE  \/ x \in DOMAIN L /\ N[x] = L[x]
             \/ x > Len(L) /\ x - Len(L) \in DOMAIN M /\ N[x] = M[x - Len(L)]
  <2>1. CASE x <= Len(L)
    BY <1>1, <1>2, <2>1 DEF Follow
  <2>2. CASE x > Len(L)
    <3>1. x - Len(L) \in 1 .. Len(M) /\ Len(L) + (x - Len(L)) = x
      BY <1>2, <2>2
    <3>2. N[Len(L) + (x - Len(L))] = M[x - Len(L)]
      BY <1>1, <3>1 DEF Follow
    <3> QED
      BY <1>2, <2>2, <3>1, <3>2
  <2> QED
    BY <1>2, <2>1, <2>2
<1>4. Joined(N, a, e)
  <2>1. N[1] = L[1] /\ N[Len(N)] = M[Len(M)] /\ N # <<>>
    <3>1. N[Len(L) + Len(M)] = M[Len(M)] /\ N[1] = L[1]
      BY <1>1, <1>2 DEF Follow
    <3> QED
      BY <1>1, <1>2, <3>1
  <2>2. ASSUME NEW x \in 1 .. Len(N) - 1 PROVE N[x].to = N[x + 1].from
    <3>1. CASE x < Len(L)
      <4>1. N[x] = L[x] /\ N[x + 1] = L[x + 1] /\ x \in 1 .. Len(L) - 1
        BY <1>1, <1>2, <3>1 DEF Follow
      <4> QED
        BY <4>1 DEF LinkedUpTo, Joined
    <3>2. CASE x = Len(L)
      <4>1. N[x] = L[Len(L)] /\ N[x + 1] = M[1]
        BY <1>1, <1>2, <3>2 DEF Follow
      <4> QED
        BY <4>1 DEF LinkedUpTo, Joined
    <3>3. CASE x > Len(L)
      <4> DEFINE y == x - Len(L)
      <4>1. y \in 1 .. Len(M) - 1 /\ x = Len(L) + y /\ x + 1 = Len(L) + (y + 1) /\ y + 1 \in 1 .. Len(M)
            /\ y \in 1 .. Len(M)
        BY <1>2, <3>3
      <4> HIDE DEF y
      <4>2. N[x] = M[y] /\ N[x + 1] = M[y + 1]
        BY <1>1, <4>1 DEF Follow
      <4> QED
        BY <4>1, <4>2 DEF Joined
    <3>4. x \in Nat /\ Len(L) \in Nat
      BY <1>2
    <3>5. x < Len(L) \/ x = Len(L) \/ x > Len(L)
      BY <3>4
    <3> QED
      BY <3>1, <3>2, <3>3, <3>5
  <2> QED
    BY <2>1, <2>2 DEF Joined, LinkedUpTo
<1>5. d \in Nat /\ \A x \in DOMAIN Kids(p) : x \in Nat /\ Kids(p)[x] \in Stages
  <2>1. DOMAIN Kids(p) = 1 .. Len(Kids(p)) /\ Len(Kids(p)) \in Nat
    BY StageFacts
  <2> QED
    BY <2>1, KidFacts
<1>6. UpTo(N, p, d)
  <2> SUFFICES ASSUME NEW x \in DOMAIN N
               PROVE  \E i \in DOMAIN Kids(p) : Kids(p)[i] \in Line[N[x].stage] /\ i <= d
    BY DEF UpTo
  <2>1. CASE x \in DOMAIN L /\ N[x] = L[x]
    <3>1. PICK i \in DOMAIN Kids(p) : Kids(p)[i] \in Line[L[x].stage] /\ i <= o
      BY <2>1 DEF LinkedUpTo, UpTo
    <3>2. i <= d
      BY <1>5, <3>1
    <3> QED
      BY <2>1, <3>1, <3>2
  <2>2. CASE x - Len(L) \in DOMAIN M /\ N[x] = M[x - Len(L)]
    BY <1>5, <2>2 DEF Beneath
  <2> QED
    BY <1>3, <2>1, <2>2
<1>7. InTurn(N, p)
  <2> SUFFICES ASSUME NEW x \in DOMAIN N, NEW y \in DOMAIN N, NEW i \in DOMAIN Kids(p), NEW j \in DOMAIN Kids(p),
                      Kids(p)[i] \in Line[N[x].stage], Kids(p)[j] \in Line[N[y].stage], i < j
               PROVE  x < y
    BY DEF InTurn
  <2>1. CASE x \in DOMAIN L /\ N[x] = L[x] /\ y \in DOMAIN L /\ N[y] = L[y]
    BY <2>1 DEF LinkedUpTo, InTurn
  <2>2. CASE x \in DOMAIN L /\ y > Len(L)
    BY <1>2, <2>2
  <2>3. ASSUME NEW z \in DOMAIN N, NEW w \in DOMAIN Kids(p), Kids(p)[w] \in Line[N[z].stage],
               z - Len(L) \in DOMAIN M, N[z] = M[z - Len(L)]
        PROVE  w = d
    <3>1. Kids(p)[d] \in Line[N[z].stage]
      BY <2>3 DEF Beneath
    <3>2. N[z].stage \in Stages
      <4>1. N[z] \in Segment
        BY <1>1, ElementOfSeq
      <4> QED
        BY <4>1 DEF Segment
    <3> QED
      BY <2>3, <3>1, <3>2, LineKids
  <2>4. CASE x - Len(L) \in DOMAIN M /\ N[x] = M[x - Len(L)]
    <3>1. i = d
      BY <2>3, <2>4
    <3>2. CASE y \in DOMAIN L /\ N[y] = L[y]
      <4>1. PICK w \in DOMAIN Kids(p) : Kids(p)[w] \in Line[L[y].stage] /\ w <= o
        BY <3>2 DEF LinkedUpTo, UpTo
      <4>2. L[y].stage \in Stages
        <5>1. L[y] \in Segment
          BY <3>2, ElementOfSeq
        <5> QED
          BY <5>1 DEF Segment
      <4>3. w = j
        BY <3>2, <4>1, <4>2, LineKids
      <4> QED
        BY <1>5, <3>1, <4>1, <4>3
    <3>3. CASE y - Len(L) \in DOMAIN M /\ N[y] = M[y - Len(L)]
      <4>1. j = d
        BY <2>3, <3>3
      <4> QED
        BY <1>5, <3>1, <4>1
    <3> QED
      BY <1>3, <3>2, <3>3
  <2> QED
    BY <1>3, <2>1, <2>2, <2>4
<1> QED
  BY <1>4, <1>6, <1>7 DEF LinkedUpTo

LEMMA LinkedFirst ==
  ASSUME task \in Tasks, NEW p \in Stages, NEW M \in Seq(Segment), NEW a, NEW b, NEW d \in DOMAIN Kids(p),
         Joined(M, a, b), Beneath(M, Kids(p)[d])
  PROVE  LinkedUpTo(M, p, a, b, d)
<1>0. d \in Nat
  <2>1. DOMAIN Kids(p) = 1 .. Len(Kids(p)) /\ Len(Kids(p)) \in Nat
    BY StageFacts
  <2> QED
    BY <2>1
<1>1. UpTo(M, p, d)
  BY <1>0 DEF UpTo, Beneath
<1>2. ASSUME NEW x \in DOMAIN M, NEW i \in DOMAIN Kids(p), Kids(p)[i] \in Line[M[x].stage] PROVE i = d
  <2>1. M[x] \in Segment
    BY ElementOfSeq
  <2>2. M[x].stage \in Stages
    BY <2>1 DEF Segment
  <2>3. Kids(p)[d] \in Line[M[x].stage]
    BY DEF Beneath
  <2> QED
    BY <1>2, <2>2, <2>3, LineKids
<1>3. InTurn(M, p)
  <2> SUFFICES ASSUME NEW x \in DOMAIN M, NEW y \in DOMAIN M, NEW i \in DOMAIN Kids(p), NEW j \in DOMAIN Kids(p),
                      Kids(p)[i] \in Line[M[x].stage], Kids(p)[j] \in Line[M[y].stage], i < j
               PROVE  x < y
    BY DEF InTurn
  <2>1. i = d /\ j = d
    BY <1>2
  <2> QED
    BY <1>0, <2>1
<1> QED
  BY <1>1, <1>3 DEF LinkedUpTo

(* A chain of linked solutions is linked. *)
LEMMA LinkedChain ==
  ASSUME task \in Tasks, NEW all \in Seq(Solution), AllLinked(all), NEW p \in Stages, p = Parent(Last(all).stage),
         Serial(p), NEW at, Chain(p, all, at)
  PROVE  Linked(ChainOf(all, at))
<1> DEFINE n == Len(at)
           parts == [x \in DOMAIN at |-> all[at[x]].leaves]
           place(i) == Place(p, all, at[i])
           first == all[at[1]].start
<1>1. /\ at \in Seq(DOMAIN all) /\ n \in Nat /\ n > 0 /\ DOMAIN at = 1 .. n
      /\ \A i \in 1 .. n : at[i] \in DOMAIN all /\ all[at[i]].stage \in ToSet(Kids(p))
      /\ \A i \in 1 .. n - 1 : <<at[i], at[i + 1]>> \in Links(p, all)
  BY DEF Chain
<1>2. parts \in Seq(Seq(Segment)) /\ Len(parts) = n
  <2>1. parts \in Seq(Seq(Segment))
    BY ChainType
  <2> QED
    BY <1>1, <2>1
<1>3. PICK f : f \in [0 .. n -> Seq(Segment)] /\ Concatenates(f, parts) /\ FlattenSeq(parts) = f[n]
  <2> HIDE DEF parts
  <2> QED
    BY <1>2, FlattenFacts
<1>4. f[0] = <<>> /\ \A i \in 1 .. n : f[i] = f[i - 1] \o all[at[i]].leaves
  <2>1. \A i \in 1 .. n : parts[i] = all[at[i]].leaves
    BY <1>1
  <2> HIDE DEF parts
  <2> QED
    BY <1>2, <1>3, <2>1 DEF Concatenates
<1>5. ASSUME NEW i \in 1 .. n
      PROVE  /\ all[at[i]].leaves \in Seq(Segment)
             /\ place(i) \in DOMAIN Kids(p) /\ place(i) \in Nat
             /\ Joined(all[at[i]].leaves, all[at[i]].start, all[at[i]].end)
             /\ Beneath(all[at[i]].leaves, Kids(p)[place(i)])
  <2>1. at[i] \in DOMAIN all /\ all[at[i]].stage \in ToSet(Kids(p))
    BY <1>1
  <2>2. all[at[i]] \in Solution
    BY <2>1, ElementOfSeq
  <2>3. /\ place(i) \in DOMAIN Kids(p) /\ Kids(p)[place(i)] = all[at[i]].stage /\ place(i) \in 0 .. Len(Kids(p))
    BY <2>1, PosFacts DEF Place
  <2>4. Linked(all[at[i]])
    BY <2>1 DEF AllLinked
  <2>5. Len(Kids(p)) \in Nat
    BY StageFacts
  <2> HIDE DEF place
  <2> QED
    BY <2>2, <2>3, <2>4, <2>5 DEF Linked, Solution
<1>6. ASSUME NEW i \in 1 .. n - 1
      PROVE  all[at[i]].end = all[at[i + 1]].start /\ place(i) < place(i + 1)
  <2>1. <<at[i], at[i + 1]>> \in Links(p, all)
    BY <1>1
  <2> DEFINE l == <<at[i], at[i + 1]>>
  <2>2. all[l[1]].end = all[l[2]].start /\ Place(p, all, l[1]) < Place(p, all, l[2])
    <3> HIDE DEF l
    <3> QED
      BY <2>1, LinksFacts DEF l
  <2> QED
    BY <2>2
<1> DEFINE good(i) == LinkedUpTo(f[i], p, first, all[at[i]].end, place(i))
<1> HIDE DEF parts, place, first
<1>7. good(1)
  <2> DEFINE M == all[at[1]].leaves
  <2>1. 1 \in 1 .. n
    BY <1>1
  <2>2. M \in Seq(Segment) /\ f[1] = <<>> \o M
    <3>1. f[1] = f[1 - 1] \o M
      <4> HIDE DEF n
      <4> QED
        BY <1>4, <2>1
    <3>3. 1 - 1 = 0
      OBVIOUS
    <3>2. M \in Seq(Segment)
      BY <1>5, <2>1
    <3> QED
      BY <1>4, <3>1, <3>2, <3>3
  <2>3. f[1] = M
    BY <2>2
  <2> HIDE DEF M
  <2>4. place(1) \in DOMAIN Kids(p) /\ Joined(M, first, all[at[1]].end) /\ Beneath(M, Kids(p)[place(1)])
    BY <1>5, <2>1 DEF M, first
  <2> QED
    BY <2>2, <2>3, <2>4, LinkedFirst
<1>8. ASSUME NEW i \in 1 .. n - 1, good(i) PROVE good(i + 1)
  <2> DEFINE j == i + 1
             M == all[at[j]].leaves
  <2>1. i \in 1 .. n /\ j \in 1 .. n /\ j - 1 = i /\ i \in 0 .. n
    BY <1>1
  <2>2. f[j] = f[i] \o M /\ f[i] \in Seq(Segment) /\ M \in Seq(Segment)
    BY <1>3, <1>4, <1>5, <2>1
  <2>3. /\ place(j) \in DOMAIN Kids(p) /\ place(i) \in Nat /\ place(i) < place(j)
        /\ Joined(M, all[at[i]].end, all[at[j]].end) /\ Beneath(M, Kids(p)[place(j)])
    BY <1>5, <1>6, <2>1
  <2>4. LinkedUpTo(f[i], p, first, all[at[i]].end, place(i))
    BY <1>8
  <2> HIDE DEF M, j
  <2>5. LinkedUpTo(f[j], p, first, all[at[j]].end, place(j))
    <3> DEFINE N == f[j]
               L == f[i]
               b == all[at[i]].end
               e == all[at[j]].end
               d == place(j)
               o == place(i)
    <3>1. /\ N = L \o M /\ L \in Seq(Segment) /\ M \in Seq(Segment) /\ d \in DOMAIN Kids(p) /\ o \in Nat /\ o < d
          /\ Joined(M, b, e) /\ Beneath(M, Kids(p)[d]) /\ LinkedUpTo(L, p, first, b, o)
      BY <2>2, <2>3, <2>4
    <3> HIDE DEF N, L, b, e, d, o
    <3>2. LinkedUpTo(N, p, first, e, d)
      BY <3>1, LinkedNext
    <3> QED
      BY <3>2 DEF N, e, d
  <2> QED
    BY <2>5 DEF j
<1> HIDE DEF good
<1>9. good(n)
  <2> DEFINE T == {i \in 1 .. n : ~good(i)}
  <2>1. T \subseteq Nat /\ T \subseteq 1 .. n
    BY <1>1
  <2>2. ASSUME T # {} PROVE FALSE
    <3> HIDE DEF T
    <3>1. PICK m \in T : \A k \in T : m <= k
      BY <2>1, <2>2, Smallest
    <3> USE DEF T
    <3>2. m \in 1 .. n /\ ~good(m)
      BY <3>1
    <3>3. m # 1
      BY <1>7, <3>2
    <3>4. m - 1 \in 1 .. n - 1 /\ m - 1 \in 1 .. n /\ (m - 1) + 1 = m
      BY <1>1, <3>2, <3>3
    <3>5. m - 1 \notin T
      BY <1>1, <3>1, <3>2
    <3>6. good(m - 1)
      BY <3>4, <3>5
    <3>7. good((m - 1) + 1)
      BY <1>8, <3>4, <3>6
    <3> QED
      BY <3>2, <3>4, <3>7
  <2>3. n \in 1 .. n
    BY <1>1
  <2> QED
    BY <2>2, <2>3
<1> DEFINE L == FlattenSeq(parts)
<1>10. Joined(L, first, all[at[n]].end) /\ UpTo(L, p, place(n)) /\ InTurn(L, p) /\ L \in Seq(Segment)
  <2>1. f[n] \in Seq(Segment)
    BY <1>1, <1>3
  <2> QED
    BY <1>3, <1>9, <2>1 DEF good, LinkedUpTo
<1>11. ChainOf(all, at).stage = p /\ ChainOf(all, at).start = first
       /\ ChainOf(all, at).end = all[at[n]].end /\ ChainOf(all, at).leaves = L
  BY DEF ChainOf, Last, first, parts
<1> HIDE DEF L
<1>12. Beneath(L, p)
  <2> SUFFICES ASSUME NEW x \in DOMAIN L PROVE p \in Line[L[x].stage]
    BY DEF Beneath
  <2>1. PICK a \in DOMAIN Kids(p) : Kids(p)[a] \in Line[L[x].stage]
    BY <1>10 DEF UpTo
  <2>2. L[x] \in Segment
    BY <1>10, ElementOfSeq
  <2>3. L[x].stage \in Stages
    BY <2>2 DEF Segment
  <2>4. Kids(p)[a] # Root /\ Parent(Kids(p)[a]) = p
    BY KidFacts
  <2> QED
    BY <2>1, <2>3, <2>4, LineUp
<1> QED
  BY <1>10, <1>11, <1>12 DEF Linked

LEMMA LinkedJoin ==
  ASSUME NEW a \in Seq(Solution), NEW b \in Seq(Solution), AllLinked(a), AllLinked(b), NEW c, c = a \o b
  PROVE  AllLinked(c)
<1>1. Follow(c, a, b) /\ c \in Seq(Solution)
  BY ConcatFacts
<1>2. /\ Len(a) \in Nat /\ Len(b) \in Nat /\ Len(c) = Len(a) + Len(b)
      /\ DOMAIN a = 1 .. Len(a) /\ DOMAIN b = 1 .. Len(b) /\ DOMAIN c = 1 .. Len(c)
  BY <1>1 DEF Follow
<1>3. ASSUME NEW n \in DOMAIN c PROVE Linked(c[n])
  <2>1. CASE n <= Len(a)
    <3>1. n \in DOMAIN a /\ c[n] = a[n]
      BY <1>1, <1>2, <2>1 DEF Follow
    <3> QED
      BY <3>1 DEF AllLinked
  <2>2. CASE n > Len(a)
    <3>1. n - Len(a) \in 1 .. Len(b) /\ n = Len(a) + (n - Len(a))
      BY <1>2, <2>2
    <3>2. c[n] = b[n - Len(a)] /\ n - Len(a) \in DOMAIN b
      BY <1>1, <1>2, <3>1 DEF Follow
    <3> QED
      BY <3>2 DEF AllLinked
  <2> QED
    BY <1>2, <2>1, <2>2
<1> QED
  BY <1>3 DEF AllLinked

(* An emission: the emitted solution is linked, and what it is lifted to. *)
LEMMA LinkedEmission ==
  ASSUME Typed, AllLinked(emitted), AllLinked(queue), queue # <<>>
  PROVE  /\ AllLinked(Append(emitted, Head(queue))) /\ AllLinked(Tail(queue))
         /\ Head(queue) \in Solution /\ Linked(Head(queue)) /\ Tail(queue) \in Seq(Solution)
<1>1. queue \in Seq(Solution)
  BY DEF Typed
<1>2. Head(queue) = queue[1] /\ 1 \in DOMAIN queue
  BY <1>1
<1>3. Linked(Head(queue))
  BY <1>2 DEF AllLinked
<1> DEFINE all == Append(emitted, Head(queue))
<1>4. /\ DOMAIN all = DOMAIN emitted \cup {Len(all)} /\ \A x \in DOMAIN emitted : all[x] = emitted[x]
      /\ Head(queue) \in Solution /\ Tail(queue) \in Seq(Solution) /\ all[Len(all)] = Head(queue)
  BY NewestFacts
<1> HIDE DEF all
<1>5. AllLinked(all)
  BY <1>3, <1>4 DEF AllLinked
<1>6. \A n \in DOMAIN Tail(queue) : n + 1 \in DOMAIN queue /\ Tail(queue)[n] = queue[n + 1]
  BY <1>1
<1>7. AllLinked(Tail(queue))
  BY <1>6 DEF AllLinked
<1> QED
  BY <1>3, <1>4, <1>5, <1>7 DEF all

LEMMA LinkedLifts ==
  ASSUME task \in Tasks, NEW sol \in Solution, Linked(sol), NEW all \in Seq(Solution), AllLinked(all),
         Last(all) = sol, NEW new, LiftsTo(sol, all, new)
  PROVE  AllLinked(new)
<1> SUFFICES ASSUME NEW n \in DOMAIN new PROVE Linked(new[n])
  BY DEF AllLinked
<1> DEFINE p == Parent(sol.stage)
<1>1. new # <<>> /\ sol.stage # Root /\ sol.stage \in Stages
  BY DEF LiftsTo, Solution
<1>2. p \in Stages
  BY <1>1, ParentFacts
<1>3. CASE Parallel(p) /\ new[n] = [sol EXCEPT !.stage = p]
  BY <1>1, <1>3, LinkedLifted
<1>4. ASSUME NEW at, Serial(p), Chain(p, all, at), new[n] = ChainOf(all, at) PROVE Linked(new[n])
  <2>1. p = Parent(Last(all).stage)
    OBVIOUS
  <2> HIDE DEF p
  <2>2. Linked(ChainOf(all, at))
    BY <1>2, <1>4, <2>1, LinkedChain
  <2> QED
    BY <1>4, <2>2
<1> QED
  BY <1>3, <1>4 DEF LiftsTo

LEMMA LinkedEmits ==
  ASSUME Typed, LinkInv, Emit \/ Emits PROVE AllLinked(emitted') /\ AllLinked(queue')
<1> DEFINE all == Append(emitted, Head(queue))
           sol == Head(queue)
<1>1. queue # <<>>
  BY DEF Emit, Emits
<1>2. /\ AllLinked(emitted) /\ AllLinked(all) /\ AllLinked(Tail(queue)) /\ sol \in Solution /\ Linked(sol)
      /\ Tail(queue) \in Seq(Solution)
  BY <1>1, LinkedEmission DEF LinkInv
<1>3. CASE queue' = Tail(queue) /\ emitted' = emitted
  BY <1>2, <1>3
<1>4. CASE emitted' = all /\ Lift(all)
  <2>1. PICK new : LiftsTo(sol, all, new) /\ queue' = new \o Tail(queue)
    BY <1>1, <1>4, LiftFacts
  <2>2. all \in Seq(Solution) /\ Last(all) = sol /\ task \in Tasks
    BY <1>1, NewestFacts DEF Typed
  <2>3. new \in Seq(Solution)
    BY <2>1 DEF LiftsTo
  <2> HIDE DEF all, sol
  <2>4. AllLinked(new)
    BY <1>2, <2>1, <2>2, LinkedLifts
  <2>5. AllLinked(queue')
    BY <1>2, <2>1, <2>3, <2>4, LinkedJoin
  <2> QED
    BY <1>2, <1>4, <2>5
<1> QED
  BY <1>3, <1>4, Zenon DEF Emit, Emits

(* Every other step leaves the queue, or fills it with the leaf solutions of
   one computation. *)
LEMMA ComputedQueue ==
  ASSUME TaskInv, [Next]_vars
  PROVE  \/ Emit \/ queue' = queue \/ queue' = <<>>
         \/ \A n \in DOMAIN queue' : \E k \in Stages : ~Container(k) /\ IsLeaf(queue'[n], k)
<1> DEFINE Computed == \A n \in DOMAIN queue' : \E k \in Stages : ~Container(k) /\ IsLeaf(queue'[n], k)
<1>0. Typed /\ Open /\ task \in Tasks
  BY DEF TaskInv, Typed
<1>1. CASE InitTask \/ Pass \/ Conclude \/ UNCHANGED vars
  BY <1>1 DEF InitTask, Pass, Conclude, vars
<1>2. ASSUME NEW s \in Stages, EnterSolved(s) \/ Enter(s) \/ Exhausted(s) \/ Leave(s) PROVE queue' = queue
  BY <1>2 DEF EnterSolved, Enter, Exhausted, Leave
<1>3. ASSUME NEW s \in Stages, Flush(s) PROVE Computed
  <2>1. jobs # <<>> /\ Top.stage = s /\ verdict = "planning"
    BY <1>0, <1>3, ThreadSteps DEF Flush
  <2>2. Batched(s) /\ \A j \in DOMAIN jobs : jobs[j].stage \in ToSet(Kids(s))
    BY <1>0, <2>1 DEF Open
  <2>3. ASSUME NEW j \in DOMAIN jobs PROVE jobs[j].stage \in Stages /\ ~Container(jobs[j].stage)
    <3>1. Kind(jobs[j].stage) = "motion"
      BY <2>2 DEF Batched
    <3>2. PICK i : i \in DOMAIN Kids(s) /\ Kids(s)[i] = jobs[j].stage
      BY <2>2 DEF ToSet
    <3> QED
      BY <1>0, <3>1, <3>2, KidFacts DEF Container, Serial, Parallel
  <2>4. \A n \in DOMAIN queue' : \E j \in DOMAIN jobs : IsLeaf(queue'[n], jobs[j].stage)
    BY <1>0, <1>3, FlushFacts
  <2> QED
    BY <2>3, <2>4
<1>4. ASSUME NEW s \in Stages, IkChild(s) PROVE queue' = queue \/ Computed
  <2>1. \/ queue' = queue
        \/ Kids(s)[1] \in Stages /\ ~Container(Kids(s)[1]) /\ LeafEffect(Kids(s)[1])
    BY <1>0, <1>4, IkChildComputes
  <2> QED
    BY <2>1 DEF LeafEffect
<1>5. ASSUME NEW s \in Stages, IkCandidates(s) PROVE Computed
  <2>1. \A n \in DOMAIN queue' : IsLeaf(queue'[n], s)
    BY <1>0, <1>5, IkCandidatesFacts
  <2>2. ~Container(s)
    <3>1. Kind(s) = "ik"
      BY <1>5 DEF IkCandidates
    <3> QED
      BY <3>1 DEF Container, Serial, Parallel
  <2> QED
    BY <2>1, <2>2
<1>6. ASSUME NEW s \in Stages, NEW i \in DOMAIN Kids(s),
             Skip(s, i) \/ Call(s, i) \/ Propagate(s, i) \/ FallbacksTried(s, i) \/ StageRaises(s, i)
      PROVE  queue' = queue
  BY <1>6 DEF Skip, Call, Propagate, FallbacksTried, StageRaises
<1>7. ASSUME NEW s \in Stages, NEW i \in DOMAIN Kids(s), Runs(s, i), ComputeLeaf(s, i) PROVE Computed
  <2>1. queue = <<>>
    BY <1>0, <1>7, RunsFacts
  <2>2. Kids(s)[i] \in Stages /\ ~Container(Kids(s)[i]) /\ LeafEffect(Kids(s)[i])
    BY <1>0, <1>7, <2>1, LeafComputes
  <2> QED
    BY <2>2 DEF LeafEffect
<1> QED
  BY <1>1, <1>2, <1>3, <1>4, <1>5, <1>6, <1>7, NextCases

LEMMA LinkInvStep ==
  ASSUME TaskInv, LinkInv, [Next]_vars PROVE LinkInv'
<1>0. Typed /\ task \in Tasks /\ AllLinked(emitted) /\ AllLinked(queue)
  BY DEF TaskInv, Typed, LinkInv
<1>1. AllLinked(emitted') /\ AllLinked(queue')
  <2>1. CASE Emit \/ Emits
    BY <1>0, <2>1, LinkedEmits
  <2>2. CASE ~Emit /\ ~Emits
    <3>1. emitted' = emitted
      BY <1>0, <2>2, EmittedSteps
    <3>2. CASE queue' = queue
      BY <1>0, <3>1, <3>2
    <3>3. CASE queue' = <<>>
      <4>1. AllLinked(<<>>)
        BY DEF AllLinked
      <4> QED
        BY <1>0, <3>1, <3>3, <4>1
    <3>4. CASE \A n \in DOMAIN queue' : \E k \in Stages : ~Container(k) /\ IsLeaf(queue'[n], k)
      <4>1. ASSUME NEW n \in DOMAIN queue' PROVE Linked(queue'[n])
        BY <1>0, <3>4, <4>1, LinkedLeaf
      <4>2. AllLinked(queue')
        BY <4>1 DEF AllLinked
      <4> QED
        BY <1>0, <3>1, <4>2
    <3> QED
      BY <2>2, <3>2, <3>3, <3>4, ComputedQueue
  <2> QED
    BY <2>1, <2>2
<1>2. /\ task' = task /\ Stages' = Stages /\ Line' = Line
  BY <1>0, TypedStep, SameTree DEF TypedNext
<1>3. AllLinked(emitted)' /\ AllLinked(queue)'
  BY <1>1, <1>2 DEF AllLinked, Linked, Joined, Beneath, InTurn, Serial, Kind, Kids
<1> QED
  BY <1>3 DEF LinkInv

LEMMA LinkInvInit == Init => LinkInv
<1> SUFFICES ASSUME Init PROVE LinkInv
  OBVIOUS
<1>1. emitted = <<>> /\ queue = <<>>
  BY DEF Init
<1> QED
  BY <1>1 DEF LinkInv, AllLinked

(* Every solution can be executed, whatever the tree and the order in which
   its stages are solved: each segment starts at the very object the one before
   it ended at, from the start of the solution to its end, and the children of
   a serial container contribute in their order (_on_child_solution and
   _traces compose chains by object, not by key). *)
THEOREM SolutionsLinked == Spec => []SolutionsAreLinked
<1>1. TaskInv /\ LinkInv => SolutionsAreLinked
  <2> SUFFICES ASSUME TaskInv, LinkInv, NEW sol \in ToSet(emitted)
               PROVE  LET L == sol.leaves
                          kids == Kids(sol.stage)
                      IN  /\ L # <<>> /\ L[1].from = sol.start /\ Last(L).to = sol.end
                          /\ \A x \in 1 .. Len(L) - 1 : L[x].to = L[x + 1].from
                          /\ Serial(sol.stage) => \A i, j \in DOMAIN kids : j < i =>
                               \A x \in From(sol, kids[j]), y \in From(sol, kids[i]) : x < y
    BY DEF SolutionsAreLinked
  <2>1. Linked(sol)
    BY DEF ToSet, LinkInv, AllLinked
  <2>2. Joined(sol.leaves, sol.start, sol.end)
    BY <2>1 DEF Linked
  <2>3. ASSUME Serial(sol.stage), NEW i \in DOMAIN Kids(sol.stage), NEW j \in DOMAIN Kids(sol.stage), j < i,
               NEW x \in From(sol, Kids(sol.stage)[j]), NEW y \in From(sol, Kids(sol.stage)[i])
        PROVE  x < y
    <3>1. InTurn(sol.leaves, sol.stage)
      BY <2>1, <2>3 DEF Linked
    <3>2. /\ x \in DOMAIN sol.leaves /\ Kids(sol.stage)[j] \in Line[sol.leaves[x].stage]
          /\ y \in DOMAIN sol.leaves /\ Kids(sol.stage)[i] \in Line[sol.leaves[y].stage]
      BY DEF From
    <3> QED
      BY <2>3, <3>1, <3>2 DEF InTurn
  <2> QED
    BY <2>2, <2>3 DEF Joined, Last
<1>2. TaskInv /\ LinkInv /\ [Next]_vars => (TaskInv /\ LinkInv)'
  BY TaskInvStep, LinkInvStep
<1> QED
  BY TaskInvInit, LinkInvInit, <1>1, <1>2, PTL DEF Spec

-----------------------------------------------------------------------------
(* When a serial container's children have solutions that meet, one after the
   other, the container has a solution, or one waits to be emitted. *)
Complete(em, q) == \A p \in Stages : \A c :
  Serial(p) /\ Kids(p) # <<>> /\ Along(em, p, c) => Solved(em, p) \/ Waiting(q, p)

LEMMA CompleteStep ==
  ASSUME TaskInv, Complete(emitted, queue), [Next]_vars PROVE Complete(emitted', queue')
<1> SUFFICES ASSUME NEW p \in Stages, NEW c, Serial(p), Kids(p) # <<>>, Along(emitted', p, c),
                    ~Solved(emitted', p)
             PROVE  Waiting(queue', p)
  BY DEF Complete
<1>0. Typed /\ task \in Tasks
  BY DEF TaskInv, Typed
<1>1. ASSUME Along(emitted, p, c) PROVE Waiting(queue', p)
  <2>1. ~Solved(emitted, p)
    BY <1>0, SolvedSteps
  <2>2. Waiting(queue, p)
    BY <1>1, <2>1 DEF Complete
  <2> QED
    BY <1>0, <2>2, QueueKeeps
<1>2. CASE emitted' = emitted
  BY <1>1, <1>2
<1>3. CASE Emits
  <2> DEFINE all == Append(emitted, Head(queue))  sol == Head(queue)
  <2>1. queue # <<>> /\ emitted' = all /\ Lift(all)
    BY <1>3 DEF Emits
  <2>2. /\ DOMAIN all = DOMAIN emitted \cup {Len(all)} /\ \A x \in DOMAIN emitted : all[x] = emitted[x]
        /\ all[Len(all)] = sol
    BY <1>0, <2>1, NewestFacts
  <2>3. PICK new : LiftsTo(sol, all, new) /\ queue' = new \o Tail(queue)
    BY <1>0, <2>1, LiftFacts
  <2> HIDE DEF all, sol
  <2>4. Along(all, p, c)
    BY <2>1
  <2>5. ASSUME NEW i \in DOMAIN Kids(p), c[i] = Len(all) PROVE Waiting(queue', p)
    <3>1. sol.stage = Kids(p)[i]
      BY <2>2, <2>4, <2>5 DEF Along
    <3>2. sol.stage # Root /\ Parent(sol.stage) = p
      BY <1>0, <3>1, KidFacts
    <3>3. Through(all, p)
      BY <2>4, <2>5 DEF Through
    <3>4. new \in Seq(Solution) /\ \E n \in DOMAIN new : new[n].stage = p
      BY <2>3, <3>2, <3>3 DEF LiftsTo
    <3> QED
      BY <1>0, <2>1, <2>3, <3>4, QueueJoins DEF Waiting
  <2>6. ASSUME \A i \in DOMAIN Kids(p) : c[i] # Len(all) PROVE Waiting(queue', p)
    <3>0. \A i \in DOMAIN Kids(p) : c[i] \in DOMAIN all
      BY <2>4 DEF Along
    <3>1. \A i \in DOMAIN Kids(p) : c[i] \in DOMAIN emitted /\ all[c[i]] = emitted[c[i]]
      BY <2>2, <2>6, <3>0
    <3>2. c \in [DOMAIN Kids(p) -> DOMAIN emitted]
      BY <2>4, <3>1 DEF Along
    <3>3. DOMAIN Kids(p) = 1 .. Len(Kids(p)) /\ Len(Kids(p)) \in Nat
      BY <1>0, StageFacts
    <3>4. \A i \in DOMAIN Kids(p) : i > 1 => i - 1 \in DOMAIN Kids(p)
      BY <3>3
    <3>5. Along(emitted, p, c)
      BY <2>4, <3>1, <3>2, <3>4 DEF Along
    <3> QED
      BY <1>1, <3>5
  <2> QED
    BY <2>5, <2>6
<1> QED
  BY <1>0, <1>2, <1>3, EmittedSteps

(* Planning failed: nothing is left to emit, and the task has no solution. *)
Ended == verdict = "failed" => ~Solved(emitted, Root)

LEMMA EndedStep ==
  ASSUME TaskInv, Ended, [Next]_vars PROVE Ended'
<1>0. Typed
  BY DEF TaskInv
<1> SUFFICES ASSUME verdict' = "failed" PROVE ~Solved(emitted', Root)
  BY DEF Ended, Solved, Root
<1>1. CASE Conclude
  <2>1. Sols(Root) = <<>> /\ emitted' = emitted
    BY <1>1 DEF Conclude
  <2> QED
    BY <1>0, <2>1, SolsFacts DEF Solved
<1>2. CASE verdict = "failed"
  <2>1. ~Emits
    BY <1>2 DEF Emits
  <2> QED
    BY <1>0, <1>2, <2>1, SolvedSteps DEF Ended
<1>3. CASE InitTask
  BY <1>3 DEF InitTask
<1>4. CASE Pass
  BY <1>2, <1>4 DEF Pass
<1>5. CASE Emit
  BY <1>2, <1>5 DEF Emit
<1>6. ASSUME NEW s \in Stages, NEW i \in DOMAIN Kids(s), StageRaises(s, i) PROVE FALSE
  BY <1>6 DEF StageRaises
<1>7. CASE UNCHANGED vars
  BY <1>2, <1>7 DEF vars
<1> QED
  BY <1>0, <1>1, <1>2, <1>3, <1>4, <1>5, <1>6, <1>7, NextCases, ThreadSteps

-----------------------------------------------------------------------------
(* Which interfaces a stage reads, as resolution decides it. *)
NextBorder(s, side) == IF side = 1 \/ ~Serial(s) THEN Kids(s)[1] ELSE Last(Kids(s))

LEMMA BorderKid ==
  ASSUME task \in Tasks, NEW s \in Stages, Kids(s) # <<>>, NEW side \in {1, 2}
  PROVE  /\ \E i \in DOMAIN Kids(s) : Kids(s)[i] = NextBorder(s, side)
         /\ NextBorder(s, side) \in Stages /\ NextBorder(s, side) > s
         /\ 1 \in DOMAIN Kids(s) /\ Len(Kids(s)) \in DOMAIN Kids(s) /\ Last(Kids(s)) = Kids(s)[Len(Kids(s))]
<1>1. DOMAIN Kids(s) = 1 .. Len(Kids(s)) /\ Len(Kids(s)) \in Nat /\ Kids(s) \in Seq(Stages)
  BY StageFacts
<1>2. Len(Kids(s)) # 0
  BY <1>1, EmptySeq
<1>3. 1 \in DOMAIN Kids(s) /\ Len(Kids(s)) \in DOMAIN Kids(s)
  BY <1>1, <1>2
<1>4. Last(Kids(s)) = Kids(s)[Len(Kids(s))]
  BY DEF Last
<1> QED
  BY <1>3, <1>4, KidFacts DEF NextBorder

LEMMA BorderFacts ==
  ASSUME task \in Tasks, NEW s \in Stages, NEW side \in {1, 2}
  PROVE  Border[<<s, side>>] = IF ~Container(s) \/ Kids(s) = <<>> THEN s
                               ELSE Border[<<NextBorder(s, side), side>>]
<1> DEFINE N == Stages \X {1, 2}
           V == Stages
           n == Len(task.kind)
           leaf(x) == ~Container(x[1]) \/ Kids(x[1]) = <<>>
           next(x) == <<NextBorder(x[1], x[2]), x[2]>>
           succ == [x \in N |-> IF leaf(x) THEN {} ELSE {next(x)}]
           rank == [x \in N |-> n - x[1]]
           step == [x \in N |-> [g \in [succ[x] -> V] |-> IF leaf(x) THEN x[1] ELSE g[next(x)]]]
<1>1. n \in Nat /\ Stages = 1 .. n
  BY StageFacts
<1>2. \A x \in N : x[1] \in Stages /\ x[2] \in {1, 2} /\ x[1] \in 1 .. n
  BY <1>1
<1>3. ASSUME NEW x \in N, ~leaf(x) PROVE next(x) \in N /\ NextBorder(x[1], x[2]) \in 1 .. n /\ NextBorder(x[1], x[2]) > x[1]
  BY <1>1, <1>2, <1>3, BorderKid
<1> HIDE DEF leaf
<1>4. rank \in [N -> 0 .. n]
  BY <1>1, <1>2
<1>5. ASSUME NEW x \in N PROVE succ[x] \in SUBSET N /\ \A y \in succ[x] : rank[y] < rank[x]
  <2>1. CASE leaf(x)
    BY <2>1
  <2>2. CASE ~leaf(x)
    <3>1. succ[x] = {next(x)}
      BY <2>2
    <3>2. rank[next(x)] = n - NextBorder(x[1], x[2]) /\ rank[x] = n - x[1]
      BY <1>3, <2>2
    <3>3. rank[next(x)] < rank[x]
      BY <1>1, <1>2, <1>3, <2>2, <3>2
    <3> QED
      BY <1>3, <2>2, <3>1, <3>3
  <2> QED
    BY <2>1, <2>2
<1>6. \A x \in N : step[x] \in [[succ[x] -> V] -> V]
  <2> SUFFICES ASSUME NEW x \in N, NEW g \in [succ[x] -> V]
               PROVE  (IF leaf(x) THEN x[1] ELSE g[next(x)]) \in V
    OBVIOUS
  <2>1. ~leaf(x) => next(x) \in succ[x]
    OBVIOUS
  <2> HIDE DEF succ, next
  <2> QED
    BY <1>2, <2>1
<1>7. PICK f \in [N -> V] : Follows(f, N, succ, step)
  <2>1. succ \in [N -> SUBSET N] /\ \A x \in N : \A y \in succ[x] : rank[y] < rank[x]
    <3>1. succ = [x \in N |-> succ[x]]
      OBVIOUS
    <3> HIDE DEF succ
    <3> QED
      BY <1>5, <3>1
  <2> HIDE DEF N, V, succ, rank, step, n
  <2> QED
    BY <1>1, <1>4, <1>6, <2>1, RecursionExists
<1>8. ASSUME NEW x \in N PROVE f[x] = IF leaf(x) THEN x[1] ELSE f[next(x)]
  <2>1. [y \in succ[x] |-> f[y]] \in [succ[x] -> V]
    BY <1>5
  <2>2. f[x] = step[x][[y \in succ[x] |-> f[y]]]
    BY <1>7 DEF Follows
  <2>3. ~leaf(x) => [y \in succ[x] |-> f[y]][next(x)] = f[next(x)]
    OBVIOUS
  <2> HIDE DEF succ, next
  <2>4. step[x][[y \in succ[x] |-> f[y]]] = IF leaf(x) THEN x[1] ELSE [y \in succ[x] |-> f[y]][next(x)]
    BY <2>1
  <2> HIDE DEF step
  <2> QED
    BY <2>2, <2>3, <2>4
<1> HIDE DEF succ, rank, step
<1>9. f = [x \in Stages \X {1, 2} |->
             LET r == x[1]
             IN  IF ~Container(r) \/ Kids(r) = <<>> THEN r
                 ELSE f[<<IF x[2] = 1 \/ ~Serial(r) THEN Kids(r)[1] ELSE Last(Kids(r)), x[2]>>]]
  <2>1. f = [x \in N |-> f[x]]
    OBVIOUS
  <2> QED
    BY <1>8, <2>1 DEF leaf, NextBorder
<1>10. Border = [x \in Stages \X {1, 2} |->
             LET r == x[1]
             IN  IF ~Container(r) \/ Kids(r) = <<>> THEN r
                 ELSE Border[<<IF x[2] = 1 \/ ~Serial(r) THEN Kids(r)[1] ELSE Last(Kids(r)), x[2]>>]]
  BY <1>9, Zenon DEF Border
<1>11. <<s, side>> \in Stages \X {1, 2} /\ <<s, side>>[1] = s /\ <<s, side>>[2] = side
  OBVIOUS
<1> QED
  BY <1>10, <1>11 DEF NextBorder

(* A container reads what the stage at its border reads. *)
LEMMA IOFacts ==
  ASSUME task \in Tasks, NEW s \in Stages, NEW side \in {1, 2}
  PROVE  /\ IO(s, side) \in {"R", "W"}
         /\ ~Container(s) => IO(s, side) = Shown(s, side, Expected[s])
         /\ Container(s) /\ Kids(s) # <<>> => IO(s, side) = IO(NextBorder(s, side), side)
<1>1. \A k, e : Shown(k, side, e) \in {"R", "W"}
  BY DEF Shown
<1>2. IO(s, side) = Shown(Border[<<s, side>>], side, Expected[Border[<<s, side>>]])
  BY DEF IO
<1>3. ~Container(s) => Border[<<s, side>>] = s
  BY BorderFacts
<1>4. Container(s) /\ Kids(s) # <<>> => Border[<<s, side>>] = Border[<<NextBorder(s, side), side>>]
  BY BorderFacts
<1> QED
  BY <1>1, <1>2, <1>3, <1>4 DEF IO

LEMMA LeafFaces ==
  ASSUME task \in Tasks, NEW s \in Stages
  PROVE  /\ Kind(s) \in {"generator", "ik"} => IO(s, 1) = "W" /\ IO(s, 2) = "W"
         /\ Kind(s) = "motion" => IO(s, 1) = "R" /\ IO(s, 2) = "W"
         /\ Kind(s) = "either" => IO(s, 1) # IO(s, 2)
<1>1. Kind(s) \in {"generator", "ik", "motion", "either"} =>
        /\ IO(s, 1) = Shown(s, 1, Expected[s]) /\ IO(s, 2) = Shown(s, 2, Expected[s])
  BY IOFacts DEF Container, Serial, Parallel
<1> QED
  BY <1>1 DEF Shown

(* Once resolved, a stage's face is what it shows. *)
Faced == verdict \notin {"built", "invalid"} =>
  Resolvable /\ face = [s \in Stages |-> <<StartIO(s), EndIO(s)>>]

LEMMA ResolvedSame ==
  ASSUME task' = task
  PROVE  /\ Resolvable' = Resolvable
         /\ \A s, side : IO(s, side)' = IO(s, side)
         /\ [s \in Stages |-> <<StartIO(s), EndIO(s)>>]' = [s \in Stages |-> <<StartIO(s), EndIO(s)>>]
<1>1. /\ Stages' = Stages
      /\ \A s : /\ Kind(s)' = Kind(s) /\ Kids(s)' = Kids(s) /\ Parent(s)' = Parent(s)
                /\ Serial(s)' = Serial(s) /\ Parallel(s)' = Parallel(s) /\ Container(s)' = Container(s)
  BY SameTree
<1>2. Border' = Border
  BY <1>1 DEF Border
<1>3. \A k, side, e : Shown(k, side, e)' = Shown(k, side, e)
  BY <1>1 DEF Shown
<1>4. \A p, s : Pos(p, s)' = Pos(p, s)
  BY DEF Pos, Kids
<1>5. Expected' = Expected
  BY <1>1, <1>2, <1>3, <1>4 DEF Expected
<1>6. \A s, side : IO(s, side)' = IO(s, side)
  BY <1>2, <1>3, <1>5 DEF IO
<1>7. \A s : StartIO(s)' = StartIO(s) /\ EndIO(s)' = EndIO(s)
  BY <1>6 DEF StartIO, EndIO
<1>8. Resolvable' = Resolvable
  BY <1>1, <1>5, <1>7 DEF Resolvable
<1> QED
  BY <1>1, <1>6, <1>7, <1>8

LEMMA FaceSteps ==
  ASSUME Typed, [Next]_vars
  PROVE  InitTask \/ (face' = face /\ (verdict = "planning" \/ verdict' = verdict))
<1>1. CASE Pass \/ Conclude \/ Emit
  BY <1>1 DEF Pass, Conclude, Emit, Thread
<1>2. ASSUME NEW s \in Stages, EnterSolved(s) \/ Exhausted(s) \/ Leave(s) \/ Enter(s) \/ Flush(s)
      PROVE  face' = face
  BY <1>2 DEF EnterSolved, Exhausted, Leave, Enter, Flush
<1>3. ASSUME NEW s \in Stages, IkChild(s) \/ IkCandidates(s) PROVE face' = face
  BY <1>3 DEF IkChild, IkCandidates
<1>4. ASSUME NEW s \in Stages, NEW i \in DOMAIN Kids(s),
             Skip(s, i) \/ Call(s, i) \/ Propagate(s, i) \/ FallbacksTried(s, i)
      PROVE  face' = face
  BY <1>4 DEF Skip, Call, Propagate, FallbacksTried
<1>5. ASSUME NEW s \in Stages, NEW i \in DOMAIN Kids(s), ComputeLeaf(s, i) PROVE face' = face
  BY <1>5, Zenon DEF ComputeLeaf
<1>6. ASSUME NEW s \in Stages, NEW i \in DOMAIN Kids(s), StageRaises(s, i)
      PROVE  face' = face /\ verdict = "planning"
  BY <1>6, RunsFacts DEF StageRaises
<1>7. CASE UNCHANGED vars
  BY <1>7 DEF vars
<1> QED
  BY <1>1, <1>2, <1>3, <1>4, <1>5, <1>6, <1>7, NextCases, ThreadSteps

LEMMA FacedStep ==
  ASSUME Typed, Faced, [Next]_vars PROVE Faced'
<1> DEFINE shown == [s \in Stages |-> <<StartIO(s), EndIO(s)>>]
<1>1. Resolvable' = Resolvable /\ shown' = shown
  BY TypedStep, ResolvedSame DEF TypedNext
<1>2. verdict' \notin {"built", "invalid"} => Resolvable /\ face' = shown
  <2>1. CASE InitTask
    BY <2>1 DEF InitTask
  <2>2. CASE face' = face /\ (verdict = "planning" \/ verdict' = verdict)
    BY <2>2 DEF Faced
  <2> QED
    BY <2>1, <2>2, FaceSteps
<1> HIDE DEF shown
<1>3. (face = shown)' <=> face' = shown
  BY <1>1
<1>4. Faced <=> (verdict \notin {"built", "invalid"} => Resolvable /\ face = shown)
  BY DEF Faced, shown
<1>5. Faced' <=> (verdict' \notin {"built", "invalid"} => Resolvable' /\ face' = shown')
  BY DEF Faced, shown
<1> QED
  BY <1>1, <1>2, <1>5

(* What resolution guarantees while the task is planned, and after. *)
LEMMA FaceFacts ==
  ASSUME task \in Tasks, Faced, verdict \notin {"built", "invalid"}, NEW s \in Stages
  PROVE  /\ \A side \in {1, 2} : /\ Reads(s, side) <=> IO(s, side) = "R"
                                 /\ Writes(s, side) <=> IO(s, side) = "W"
         /\ Container(s) => Kids(s) # <<>>
         /\ Serial(s) => \A i \in DOMAIN Kids(s) : i + 1 \in DOMAIN Kids(s) =>
                           IO(Kids(s)[i], 2) # IO(Kids(s)[i + 1], 1)
         /\ Parallel(s) => \A i \in DOMAIN Kids(s) :
                             IO(Kids(s)[i], 1) = IO(s, 1) /\ IO(Kids(s)[i], 2) = IO(s, 2)
<1>1. Resolvable /\ face = [x \in Stages |-> <<StartIO(x), EndIO(x)>>]
  BY DEF Faced
<1>2. face[s] = <<IO(s, 1), IO(s, 2)>>
  BY <1>1 DEF StartIO, EndIO
<1>3. \A side \in {1, 2} : face[s][side] = IO(s, side)
  BY <1>2
<1>4. Container(s) => Kids(s) # <<>>
  BY <1>1 DEF Resolvable
<1>5. ASSUME Serial(s), NEW i \in DOMAIN Kids(s), i + 1 \in DOMAIN Kids(s)
      PROVE  IO(Kids(s)[i], 2) # IO(Kids(s)[i + 1], 1)
  <2>1. DOMAIN Kids(s) = 1 .. Len(Kids(s)) /\ Len(Kids(s)) \in Nat
    BY StageFacts
  <2>2. i \in 1 .. Len(Kids(s)) - 1
    BY <1>5, <2>1
  <2>3. Container(s)
    BY <1>5 DEF Container
  <2> QED
    BY <1>1, <1>5, <2>2, <2>3 DEF Resolvable, StartIO, EndIO
<1>6. ASSUME Parallel(s), NEW i \in DOMAIN Kids(s)
      PROVE  IO(Kids(s)[i], 1) = IO(s, 1) /\ IO(Kids(s)[i], 2) = IO(s, 2)
  <2>1. Container(s) /\ Kids(s)[i] \in ToSet(Kids(s))
    BY <1>6 DEF Container, ToSet
  <2> QED
    BY <1>1, <1>6, <2>1 DEF Resolvable, StartIO, EndIO
<1>7. \A side \in {1, 2} : Reads(s, side) <=> IO(s, side) = "R"
  BY <1>3 DEF Reads
<1>8. \A side \in {1, 2} : Writes(s, side) <=> IO(s, side) = "W"
  BY <1>3 DEF Writes
<1> QED
  BY <1>4, <1>5, <1>6, <1>7, <1>8

-----------------------------------------------------------------------------
(* Where the states a stage reads come from: the interface of the container
   around it, or what its neighbour wrote.  I is the four interfaces. *)
Now == <<startPull, endPull, starts, ends>>
Before(I, s) ==
  LET p == Parent(s)  i == Pos(p, s)
  IN  IF s = Root THEN ToSet(I[1][s])
      ELSE IF ~Serial(p) \/ i = 1 THEN ToSet(I[1][p]) ELSE ToSet(I[4][Kids(p)[i - 1]])
After(I, s) ==
  LET p == Parent(s)  i == Pos(p, s)
  IN  IF s = Root THEN ToSet(I[2][s])
      ELSE IF ~Serial(p) \/ i = Len(Kids(p)) THEN ToSet(I[2][p]) ELSE ToSet(I[3][Kids(p)[i + 1]])

Drawn(I, q) ==
  /\ IO(q.stage, 1) = "R" => q.start \in Before(I, q.stage)
  /\ IO(q.stage, 2) = "R" => q.end \in After(I, q.stage)
AllDrawn(I, sols) == \A n \in DOMAIN sols : Drawn(I, sols[n])
Pulled(I) == \A s \in Stages : ToSet(I[1][s]) \subseteq Before(I, s) /\ ToSet(I[2][s]) \subseteq After(I, s)
Deferred(I, js) == \A n \in DOMAIN js : js[n].from \in Before(I, js[n].stage)
SourceInv == Pulled(Now) /\ Deferred(Now, jobs) /\ AllDrawn(Now, emitted) /\ AllDrawn(Now, queue)
Rises(I, J) == \A s \in Stages : Before(I, s) \subseteq Before(J, s) /\ After(I, s) \subseteq After(J, s)

LEMMA SourceOf ==
  ASSUME task \in Tasks, NEW p \in Stages, NEW i \in DOMAIN Kids(p), NEW I
  PROVE  /\ Before(I, Kids(p)[i]) = IF ~Serial(p) \/ i = 1 THEN ToSet(I[1][p]) ELSE ToSet(I[4][Kids(p)[i - 1]])
         /\ After(I, Kids(p)[i]) = IF ~Serial(p) \/ i = Len(Kids(p)) THEN ToSet(I[2][p])
                                   ELSE ToSet(I[3][Kids(p)[i + 1]])
<1> DEFINE k == Kids(p)[i]
<1>1. k # Root /\ Parent(k) = p /\ Pos(p, k) = i
  BY KidFacts
<1> HIDE DEF k
<1>2. /\ Before(I, k) = IF ~Serial(p) \/ i = 1 THEN ToSet(I[1][p]) ELSE ToSet(I[4][Kids(p)[i - 1]])
      /\ After(I, k) = IF ~Serial(p) \/ i = Len(Kids(p)) THEN ToSet(I[2][p]) ELSE ToSet(I[3][Kids(p)[i + 1]])
  BY <1>1 DEF Before, After
<1> QED
  BY <1>2 DEF k

(* What is written stays written, and a stage with children keeps its pulls. *)
Nests(p) == Container(p) \/ Kind(p) = "ik"
Held(p) == ToSet(startPull[p]) \subseteq ToSet(startPull'[p]) /\ ToSet(endPull[p]) \subseteq ToSet(endPull'[p])

LEMMA WrittenStep ==
  ASSUME Typed, [Next]_vars
  PROVE  Wider(starts', starts) /\ Wider(ends', ends) /\ \A p \in Stages : Nests(p) => Held(p)
<1> USE DEF pulls
<1>t. /\ task \in Tasks /\ startPull \in Interfaces /\ endPull \in Interfaces
      /\ starts \in Interfaces /\ ends \in Interfaces
  BY DEF Typed
<1>w. \A i \in Interfaces : \A j : j = i => Wider(j, i)
  BY DEF Wider
<1>h. Wider(startPull', startPull) /\ Wider(endPull', endPull) => \A p \in Stages : Held(p)
  BY DEF Wider, Held
<1>e. ASSUME NEW k \in Stages, ~Container(k), Kind(k) # "ik", LeafEffect(k)
      PROVE  Wider(starts', starts) /\ Wider(ends', ends) /\ \A p \in Stages : Nests(p) => Held(p)
  <2>1. ASSUME NEW p \in Stages, Nests(p) PROVE startPull'[p] = startPull[p] /\ endPull'[p] = endPull[p]
    <3>1. p # k
      BY <1>e, <2>1 DEF Nests
    <3> QED
      BY <1>t, <1>e, <3>1 DEF LeafEffect, Interfaces
  <2> QED
    BY <1>e, <2>1 DEF LeafEffect, Held
<1>1. CASE UNCHANGED <<pulls, starts, ends>>
  BY <1>1, <1>t, <1>w, <1>h
<1>2. ASSUME NEW s \in Stages, Enter(s)
      PROVE  Wider(starts', starts) /\ Wider(ends', ends) /\ \A p \in Stages : Held(p)
  <2>1. Feed(s) /\ UNCHANGED <<starts, ends>>
    BY <1>2 DEF Enter
  <2>2. Handed(startPull', startPull) /\ Handed(endPull', endPull)
    BY <2>1, FeedFacts
  <2>3. Wider(startPull', startPull) /\ Wider(endPull', endPull)
    BY <1>t, <2>2, HandedFacts
  <2> QED
    BY <1>t, <1>w, <1>h, <2>1, <2>3
<1>3. ASSUME NEW s \in Stages, Flush(s)
      PROVE  Wider(starts', starts) /\ Wider(ends', ends) /\ \A p \in Stages : Held(p)
  <2>1. UNCHANGED <<pulls, starts>>
    BY <1>3 DEF Flush
  <2>2. Wider(ends', ends)
    BY <1>3, FlushFacts
  <2> QED
    BY <1>t, <1>w, <1>h, <2>1, <2>2
<1>4. ASSUME NEW s \in Stages, IkChild(s)
      PROVE  Wider(starts', starts) /\ Wider(ends', ends) /\ \A p \in Stages : Nests(p) => Held(p)
  <2>1. CASE UNCHANGED <<pulls, starts, ends>>
    BY <1>1, <2>1
  <2>2. CASE /\ Kids(s)[1] \in Stages /\ ~Container(Kids(s)[1]) /\ Kind(Kids(s)[1]) = "generator"
             /\ LeafEffect(Kids(s)[1])
    BY <1>e, <2>2
  <2> QED
    BY <1>4, <2>1, <2>2, IkChildComputes
<1>5. ASSUME NEW s \in Stages, IkCandidates(s)
      PROVE  Wider(starts', starts) /\ Wider(ends', ends) /\ \A p \in Stages : Held(p)
  <2>1. UNCHANGED pulls /\ Handed(starts', starts) /\ Handed(ends', ends)
    BY <1>5, IkCandidatesFacts DEF IkCandidates
  <2>2. Wider(starts', starts) /\ Wider(ends', ends)
    BY <1>t, <2>1, HandedFacts
  <2> QED
    BY <1>t, <1>w, <1>h, <2>1, <2>2
<1>6. ASSUME NEW s \in Stages, NEW i \in DOMAIN Kids(s), Runs(s, i), ComputeLeaf(s, i)
      PROVE  Wider(starts', starts) /\ Wider(ends', ends) /\ \A p \in Stages : Nests(p) => Held(p)
  <2>1. queue = <<>>
    BY <1>6, RunsFacts
  <2>2. /\ Kids(s)[i] \in Stages /\ ~Container(Kids(s)[i]) /\ Kind(Kids(s)[i]) # "ik"
        /\ LeafEffect(Kids(s)[i])
    BY <1>6, <2>1, LeafComputes
  <2> QED
    BY <1>e, <2>2
<1>7. ASSUME NEW s \in Stages, NEW i \in DOMAIN Kids(s), Propagate(s, i) \/ FallbacksTried(s, i)
      PROVE  Wider(starts', starts) /\ Wider(ends', ends) /\ \A p \in Stages : Held(p)
  <2>1. Propagated(s, i)
    BY <1>7 DEF Propagate, FallbacksTried
  <2>2. /\ Handed(startPull', startPull) /\ Handed(endPull', endPull)
        /\ Handed(starts', starts) /\ Handed(ends', ends)
    BY <2>1, PropagatedFacts
  <2> QED
    BY <1>t, <1>h, <2>2, HandedFacts
<1> QED
  BY <1>1, <1>2, <1>3, <1>4, <1>5, <1>6, <1>7, InterfaceSteps

LEMMA RisesFrom ==
  ASSUME task \in Tasks, NEW I, NEW J, Wider(J[3], I[3]), Wider(J[4], I[4]),
         \A p \in Stages : Nests(p) => ToSet(I[1][p]) \subseteq ToSet(J[1][p]) /\ ToSet(I[2][p]) \subseteq ToSet(J[2][p])
  PROVE  Rises(I, J)
<1>1. ASSUME NEW s \in Stages PROVE Before(I, s) \subseteq Before(J, s) /\ After(I, s) \subseteq After(J, s)
  <2>1. CASE s = Root
    <3>1. Nests(Root) /\ Root \in Stages
      BY StageFacts, TaskAssumption DEF Nests, Container, Serial, Parallel, Kind, Root
    <3> QED
      BY <2>1, <3>1 DEF Before, After
  <2>2. CASE s # Root
    <3>0. PICK p \in Stages : \E i \in DOMAIN Kids(p) : s = Kids(p)[i]
      BY <2>2, ParentFacts
    <3>1. PICK i \in DOMAIN Kids(p) : s = Kids(p)[i]
      BY <3>0
    <3>2. Nests(p)
      BY KidFacts DEF Nests
    <3>3. DOMAIN Kids(p) = 1 .. Len(Kids(p)) /\ Len(Kids(p)) \in Nat
      BY StageFacts
    <3>4. ASSUME ~Serial(p) \/ i = 1 PROVE Before(I, s) \subseteq Before(J, s)
      <4>1. Before(I, s) = ToSet(I[1][p]) /\ Before(J, s) = ToSet(J[1][p])
        BY <3>1, <3>4, SourceOf
      <4> QED
        BY <3>2, <4>1
    <3>5. ASSUME ~(~Serial(p) \/ i = 1) PROVE Before(I, s) \subseteq Before(J, s)
      <4>1. Kids(p)[i - 1] \in Stages
        <5>1. i - 1 \in DOMAIN Kids(p)
          BY <3>3, <3>5
        <5> QED
          BY <5>1, KidFacts
      <4>2. Before(I, s) = ToSet(I[4][Kids(p)[i - 1]]) /\ Before(J, s) = ToSet(J[4][Kids(p)[i - 1]])
        BY <3>1, <3>5, SourceOf
      <4> QED
        BY <4>1, <4>2 DEF Wider
    <3>6. ASSUME ~Serial(p) \/ i = Len(Kids(p)) PROVE After(I, s) \subseteq After(J, s)
      <4>1. After(I, s) = ToSet(I[2][p]) /\ After(J, s) = ToSet(J[2][p])
        BY <3>1, <3>6, SourceOf
      <4> QED
        BY <3>2, <4>1
    <3>7. ASSUME ~(~Serial(p) \/ i = Len(Kids(p))) PROVE After(I, s) \subseteq After(J, s)
      <4>1. Kids(p)[i + 1] \in Stages
        <5>1. i + 1 \in DOMAIN Kids(p)
          BY <3>3, <3>7
        <5> QED
          BY <5>1, KidFacts
      <4>2. After(I, s) = ToSet(I[3][Kids(p)[i + 1]]) /\ After(J, s) = ToSet(J[3][Kids(p)[i + 1]])
        BY <3>1, <3>7, SourceOf
      <4> QED
        BY <4>1, <4>2 DEF Wider
    <3>8. Before(I, s) \subseteq Before(J, s)
      BY <3>4, <3>5
    <3>9. After(I, s) \subseteq After(J, s)
      BY <3>6, <3>7
    <3> QED
      BY <3>8, <3>9
  <2> QED
    BY <2>1, <2>2
<1> QED
  BY <1>1 DEF Rises

LEMMA RiseStep ==
  ASSUME Typed, [Next]_vars PROVE Rises(Now, Now')
<1>1. task \in Tasks /\ Wider(starts', starts) /\ Wider(ends', ends) /\ \A p \in Stages : Nests(p) => Held(p)
  BY WrittenStep DEF Typed
<1> DEFINE I == Now  J == Now'
<1>2. /\ I[1] = startPull /\ I[2] = endPull /\ I[3] = starts /\ I[4] = ends
      /\ J[1] = startPull' /\ J[2] = endPull' /\ J[3] = starts' /\ J[4] = ends'
  BY DEF Now
<1> HIDE DEF I, J
<1>3. \A p \in Stages : Nests(p) => ToSet(I[1][p]) \subseteq ToSet(J[1][p]) /\ ToSet(I[2][p]) \subseteq ToSet(J[2][p])
  BY <1>1, <1>2 DEF Held
<1>4. Rises(I, J)
  BY <1>1, <1>2, <1>3, RisesFrom
<1> QED
  BY <1>4 DEF I, J

(* What a container hands down is what it holds. *)
LEMMA NewSet ==
  ASSUME Typed, NEW s \in Stages
  PROVE  /\ NewStarts(s) \in Seq(State) /\ ToSet(NewStarts(s)) \subseteq ToSet(startPull[s])
         /\ NewEnds(s) \in Seq(State) /\ ToSet(NewEnds(s)) \subseteq ToSet(endPull[s])
<1>1. ASSUME NEW xs \in Seq(State), NEW m \in Nat
      PROVE  /\ SubSeq(xs, m + 1, Len(xs)) \in Seq(State)
             /\ ToSet(SubSeq(xs, m + 1, Len(xs))) \subseteq ToSet(xs)
  <2> DEFINE X == ToSet(xs)
  <2>1. xs \in Seq(X) /\ X \subseteq State
    BY OwnSet
  <2>2. \A i \in 1 .. Len(xs) : xs[i] \in X
    BY DEF ToSet
  <2> HIDE DEF X
  <2>3. Len(xs) \in Nat /\ m + 1 \in Int /\ m + 1 >= 1
    OBVIOUS
  <2>4. \A i \in m + 1 .. Len(xs) : xs[i] \in X
    BY <2>2, <2>3
  <2>5. SubSeq(xs, m + 1, Len(xs)) \in Seq(X)
    BY <2>1, <2>3, <2>4, SubSeqProperties
  <2>6. ToSet(SubSeq(xs, m + 1, Len(xs))) \subseteq X
    BY <2>5, OwnSet
  <2>7. SubSeq(xs, m + 1, Len(xs)) \in Seq(State)
    BY <2>1, <2>5, SeqMonotonic
  <2> QED
    BY <2>6, <2>7 DEF X
<1>2. startPull[s] \in Seq(State) /\ endPull[s] \in Seq(State) /\ fed[s][1] \in Nat /\ fed[s][2] \in Nat
  BY DEF Typed, Interfaces
<1>3. <<>> \in Seq(State) /\ ToSet(<<>>) = {}
  BY DEF ToSet
<1> DEFINE news == SubSeq(startPull[s], fed[s][1] + 1, Len(startPull[s]))
           newe == SubSeq(endPull[s], fed[s][2] + 1, Len(endPull[s]))
<1>4. /\ news \in Seq(State) /\ ToSet(news) \subseteq ToSet(startPull[s])
      /\ newe \in Seq(State) /\ ToSet(newe) \subseteq ToSet(endPull[s])
  BY <1>1, <1>2
<1>5. NewStarts(s) = (IF Reads(s, 1) THEN news ELSE <<>>) /\ NewEnds(s) = (IF Reads(s, 2) THEN newe ELSE <<>>)
  BY DEF NewStarts, NewEnds
<1> HIDE DEF news, newe
<1> QED
  BY <1>3, <1>4, <1>5

(* A stage receives only what its surroundings hold for it. *)
Draws(s) == /\ ToSet(startPull'[s]) \subseteq ToSet(startPull[s]) \cup Before(Now, s)
            /\ ToSet(endPull'[s]) \subseteq ToSet(endPull[s]) \cup After(Now, s)

LEMMA FeedDraws ==
  ASSUME Typed, NEW p \in Stages, Feed(p), Container(p), Kids(p) # <<>>, NEW s \in Stages
  PROVE  Draws(s)
<1> DEFINE toStart == IF Serial(p) THEN {Kids(p)[1]} ELSE ToSet(Kids(p))
           toEnd == IF Serial(p) THEN {Last(Kids(p))} ELSE ToSet(Kids(p))
           a == startPull[s]
           b == endPull[s]
<1>1. task \in Tasks /\ a \in Seq(State) /\ b \in Seq(State)
  BY DEF Typed, Interfaces
<1>2. /\ startPull' = [k \in Stages |-> IF k \in toStart THEN Merge(startPull[k], NewStarts(p)) ELSE startPull[k]]
      /\ endPull' = [k \in Stages |-> IF k \in toEnd THEN Merge(endPull[k], NewEnds(p)) ELSE endPull[k]]
  BY DEF Feed
<1> HIDE DEF toStart, toEnd
<1>3. /\ startPull'[s] = IF s \in toStart THEN Merge(a, NewStarts(p)) ELSE a
      /\ endPull'[s] = IF s \in toEnd THEN Merge(b, NewEnds(p)) ELSE b
  BY <1>2
<1>4. /\ ToSet(Merge(a, NewStarts(p))) \subseteq ToSet(a) \cup ToSet(startPull[p])
      /\ ToSet(Merge(b, NewEnds(p))) \subseteq ToSet(b) \cup ToSet(endPull[p])
  <2>1. /\ NewStarts(p) \in Seq(State) /\ ToSet(NewStarts(p)) \subseteq ToSet(startPull[p])
        /\ NewEnds(p) \in Seq(State) /\ ToSet(NewEnds(p)) \subseteq ToSet(endPull[p])
    BY NewSet
  <2>2. /\ ToSet(Merge(a, NewStarts(p))) \subseteq ToSet(a) \cup ToSet(NewStarts(p))
        /\ ToSet(Merge(b, NewEnds(p))) \subseteq ToSet(b) \cup ToSet(NewEnds(p))
    BY <1>1, <2>1, MergeFacts
  <2> QED
    BY <2>1, <2>2
<1>5. /\ 1 \in DOMAIN Kids(p) /\ Len(Kids(p)) \in DOMAIN Kids(p) /\ Last(Kids(p)) = Kids(p)[Len(Kids(p))]
  <2>1. 1 \in {1, 2}
    OBVIOUS
  <2> QED
    BY <1>1, <2>1, BorderKid
<1>6. ASSUME s \in toStart PROVE Before(Now, s) = ToSet(startPull[p])
  <2>1. Now[1] = startPull
    BY DEF Now
  <2>2. CASE Serial(p)
    <3>1. s = Kids(p)[1]
      BY <1>6, <2>2 DEF toStart
    <3> QED
      BY <1>1, <1>5, <2>1, <3>1, SourceOf
  <2>3. CASE ~Serial(p)
    <3>1. PICK i \in DOMAIN Kids(p) : s = Kids(p)[i]
      BY <1>6, <2>3 DEF toStart, ToSet
    <3> QED
      BY <1>1, <2>1, <2>3, <3>1, SourceOf
  <2> QED
    BY <2>2, <2>3
<1>7. ASSUME s \in toEnd PROVE After(Now, s) = ToSet(endPull[p])
  <2>1. Now[2] = endPull
    BY DEF Now
  <2>2. CASE Serial(p)
    <3>1. s = Kids(p)[Len(Kids(p))]
      BY <1>5, <1>7, <2>2 DEF toEnd
    <3> QED
      BY <1>1, <1>5, <2>1, <3>1, SourceOf
  <2>3. CASE ~Serial(p)
    <3>1. PICK i \in DOMAIN Kids(p) : s = Kids(p)[i]
      BY <1>7, <2>3 DEF toEnd, ToSet
    <3> QED
      BY <1>1, <2>1, <2>3, <3>1, SourceOf
  <2> QED
    BY <2>2, <2>3
<1> HIDE DEF a, b
<1>8. ToSet(startPull'[s]) \subseteq ToSet(a) \cup Before(Now, s)
  BY <1>3, <1>4, <1>6
<1>9. ToSet(endPull'[s]) \subseteq ToSet(b) \cup After(Now, s)
  BY <1>3, <1>4, <1>7
<1> QED
  BY <1>8, <1>9 DEF Draws, a, b

LEMMA PropagatedDraws ==
  ASSUME Typed, NEW p \in Stages, NEW i \in DOMAIN Kids(p), Propagated(p, i), NEW s \in Stages
  PROVE  Draws(s)
<1> DEFINE k == Kids(p)[i]
           a == startPull[s]
           b == endPull[s]
<1>1. /\ task \in Tasks /\ a \in Seq(State) /\ b \in Seq(State)
      /\ startPull \in [Stages -> Seq(State)] /\ endPull \in [Stages -> Seq(State)]
  BY DEF Typed, Interfaces
<1>2. k \in Stages /\ i \in 1 .. Len(Kids(p)) /\ Len(Kids(p)) \in Nat /\ DOMAIN Kids(p) = 1 .. Len(Kids(p))
  BY <1>1, KidFacts, StageFacts
<1>3. starts[k] \in Seq(State) /\ ends[k] \in Seq(State)
  BY <1>1, <1>2 DEF Typed, Interfaces
<1>4. Now[3] = starts /\ Now[4] = ends
  BY DEF Now
<1>5. ToSet(startPull'[s]) \subseteq ToSet(a) \cup Before(Now, s)
  <2>1. CASE startPull'[s] = a
    BY <2>1
  <2>2. CASE startPull'[s] # a
    <3>1. /\ Serial(p) /\ i < Len(Kids(p))
          /\ startPull' = [startPull EXCEPT ![Kids(p)[i + 1]] = Merge(startPull[Kids(p)[i + 1]], ends[k])]
      BY <2>2 DEF Propagated
    <3>2. s = Kids(p)[i + 1] /\ startPull'[s] = Merge(a, ends[k])
      BY <1>1, <2>2, <3>1
    <3>3. i + 1 \in DOMAIN Kids(p) /\ i + 1 # 1 /\ (i + 1) - 1 = i
      BY <1>2, <3>1
    <3>4. Before(Now, s) = ToSet(ends[Kids(p)[(i + 1) - 1]])
      BY <1>1, <1>4, <3>1, <3>2, <3>3, SourceOf
    <3>5. Before(Now, s) = ToSet(ends[k])
      BY <3>3, <3>4
    <3>6. ToSet(Merge(a, ends[k])) \subseteq ToSet(a) \cup ToSet(ends[k])
      BY <1>1, <1>3, MergeFacts
    <3> QED
      BY <3>2, <3>5, <3>6
  <2> QED
    BY <2>1, <2>2
<1>6. ToSet(endPull'[s]) \subseteq ToSet(b) \cup After(Now, s)
  <2>1. CASE endPull'[s] = b
    BY <2>1
  <2>2. CASE endPull'[s] # b
    <3>1. /\ Serial(p) /\ i > 1
          /\ endPull' = [endPull EXCEPT ![Kids(p)[i - 1]] = Merge(endPull[Kids(p)[i - 1]], starts[k])]
      BY <2>2 DEF Propagated
    <3>2. s = Kids(p)[i - 1] /\ endPull'[s] = Merge(b, starts[k])
      BY <1>1, <2>2, <3>1
    <3>3. i - 1 \in DOMAIN Kids(p) /\ i - 1 # Len(Kids(p)) /\ (i - 1) + 1 = i
      BY <1>2, <3>1
    <3>4. After(Now, s) = ToSet(starts[Kids(p)[(i - 1) + 1]])
      BY <1>1, <1>4, <3>1, <3>2, <3>3, SourceOf
    <3>5. After(Now, s) = ToSet(starts[k])
      BY <3>3, <3>4
    <3>6. ToSet(Merge(b, starts[k])) \subseteq ToSet(b) \cup ToSet(starts[k])
      BY <1>1, <1>3, MergeFacts
    <3> QED
      BY <3>2, <3>5, <3>6
  <2> QED
    BY <2>1, <2>2
<1> QED
  BY <1>5, <1>6 DEF Draws, a, b

LEMMA PulledStep ==
  ASSUME Typed, Faced, Pulled(Now), [Next]_vars PROVE Pulled(Now')
<1> USE DEF pulls
<1>t. task \in Tasks /\ startPull \in [Stages -> Seq(State)] /\ endPull \in [Stages -> Seq(State)]
  BY DEF Typed, Interfaces
<1>0. ToSet(<<>>) = {}
  BY DEF ToSet
<1>d. ASSUME NEW s \in Stages PROVE Draws(s)
  <2>1. CASE UNCHANGED pulls
    BY <2>1 DEF Draws
  <2>2. ASSUME NEW k \in Stages, LeafEffect(k) PROVE Draws(s)
    <3>1. startPull'[s] \in {startPull[s], <<>>} /\ endPull'[s] \in {endPull[s], <<>>}
      BY <1>t, <2>2 DEF LeafEffect
    <3> QED
      BY <1>0, <3>1 DEF Draws
  <2>3. ASSUME NEW p \in Stages, Enter(p) PROVE Draws(s)
    <3>1. Feed(p) /\ Container(p) /\ verdict = "planning"
      BY <2>3 DEF Enter, At, Thread
    <3>2. Kids(p) # <<>>
      BY <1>t, <3>1, FaceFacts
    <3> QED
      BY <3>1, <3>2, FeedDraws
  <2>4. ASSUME NEW p \in Stages, IkChild(p) PROVE Draws(s)
    BY <2>1, <2>2, <2>4, IkChildComputes
  <2>5. ASSUME NEW p \in Stages, IkCandidates(p) \/ Flush(p) PROVE Draws(s)
    BY <2>1, <2>5 DEF IkCandidates, Flush
  <2>6. ASSUME NEW p \in Stages, NEW i \in DOMAIN Kids(p), Runs(p, i), ComputeLeaf(p, i) PROVE Draws(s)
    <3>1. queue = <<>>
      BY <2>6, RunsFacts
    <3>2. Kids(p)[i] \in Stages /\ LeafEffect(Kids(p)[i])
      BY <2>6, <3>1, LeafComputes
    <3> QED
      BY <2>2, <3>2
  <2>7. ASSUME NEW p \in Stages, NEW i \in DOMAIN Kids(p), Propagate(p, i) \/ FallbacksTried(p, i) PROVE Draws(s)
    <3>1. Propagated(p, i)
      BY <2>7 DEF Propagate, FallbacksTried
    <3> QED
      BY <3>1, PropagatedDraws
  <2> QED
    BY <2>1, <2>3, <2>4, <2>5, <2>6, <2>7, InterfaceSteps
<1> DEFINE I == Now  J == Now'
<1>1. /\ I[1] = startPull /\ I[2] = endPull /\ J[1] = startPull' /\ J[2] = endPull'
  BY DEF Now
<1>2. Rises(I, J) /\ Pulled(I)
  BY RiseStep
<1>3. \A s \in Stages : /\ ToSet(startPull'[s]) \subseteq ToSet(startPull[s]) \cup Before(I, s)
                        /\ ToSet(endPull'[s]) \subseteq ToSet(endPull[s]) \cup After(I, s)
  BY <1>d DEF Draws
<1> HIDE DEF I, J
<1>4. Pulled(J)
  BY <1>1, <1>2, <1>3 DEF Pulled, Rises
<1> QED
  BY <1>4 DEF J

(* A deferred request starts at a state its stage received. *)
LEMMA JobSteps ==
  ASSUME Typed, [Next]_vars
  PROVE  jobs' = jobs \/ jobs' = <<>> \/ \E k \in Stages : LeafEffect(k)
<1>1. CASE InitTask \/ Pass \/ Conclude \/ Emit \/ UNCHANGED vars
  BY <1>1 DEF InitTask, Pass, Conclude, Emit, vars
<1>2. ASSUME NEW s \in Stages, EnterSolved(s) \/ Enter(s) \/ Exhausted(s) \/ Leave(s) \/ Flush(s) \/ IkCandidates(s)
      PROVE  jobs' = jobs \/ jobs' = <<>>
  BY <1>2 DEF EnterSolved, Enter, Exhausted, Leave, Flush, IkCandidates
<1>3. ASSUME NEW s \in Stages, IkChild(s) PROVE jobs' = jobs
  BY <1>3, IkChildComputes
<1>4. ASSUME NEW s \in Stages, NEW i \in DOMAIN Kids(s),
             Skip(s, i) \/ Call(s, i) \/ Propagate(s, i) \/ FallbacksTried(s, i) \/ StageRaises(s, i)
      PROVE  jobs' = jobs
  BY <1>4 DEF Skip, Call, Propagate, FallbacksTried, StageRaises
<1>5. ASSUME NEW s \in Stages, NEW i \in DOMAIN Kids(s), Runs(s, i), ComputeLeaf(s, i)
      PROVE  \E k \in Stages : LeafEffect(k)
  <2>1. queue = <<>>
    BY <1>5, RunsFacts
  <2>2. Kids(s)[i] \in Stages /\ LeafEffect(Kids(s)[i])
    BY <1>5, <2>1, LeafComputes
  <2> QED
    BY <2>2
<1> QED
  BY <1>1, <1>2, <1>3, <1>4, <1>5, NextCases

LEMMA DeferredStep ==
  ASSUME Typed, Pulled(Now), Deferred(Now, jobs), [Next]_vars PROVE Deferred(Now', jobs')
<1> DEFINE I == Now  J == Now'
<1>1. Rises(I, J) /\ Pulled(I) /\ Deferred(I, jobs) /\ I[1] = startPull
  BY RiseStep DEF Now
<1>2. \A n \in DOMAIN jobs : jobs[n].stage \in Stages
  <2>1. jobs \in Seq(Job)
    BY DEF Typed, Job
  <2>2. \A n \in DOMAIN jobs : jobs[n] \in Job
    BY <2>1, ElementOfSeq
  <2> QED
    BY <2>2 DEF Job
<1> HIDE DEF I, J
<1>3. \A n \in DOMAIN jobs : jobs[n].from \in Before(J, jobs[n].stage)
  BY <1>1, <1>2 DEF Deferred, Rises
<1>4. ASSUME NEW k \in Stages, LeafEffect(k), NEW n \in DOMAIN jobs' PROVE jobs'[n].from \in Before(J, jobs'[n].stage)
  <2>1. CASE jobs'[n] \in ToSet(jobs)
    <3>1. PICK m \in DOMAIN jobs : jobs'[n] = jobs[m]
      BY <2>1 DEF ToSet
    <3> QED
      BY <1>3, <3>1
  <2>2. CASE jobs'[n].stage = k /\ jobs'[n].from \in ToSet(startPull[k])
    BY <1>1, <2>2 DEF Pulled, Rises
  <2> QED
    BY <1>4, <2>1, <2>2 DEF LeafEffect
<1>5. DOMAIN <<>> = {}
  OBVIOUS
<1>6. Deferred(J, jobs')
  BY <1>3, <1>4, <1>5, JobSteps DEF Deferred
<1> QED
  BY <1>6 DEF J

(* What a computation emits starts and ends where its stage was told to. *)
LEMMA DrawnLeaf ==
  ASSUME task \in Tasks, Faced, verdict \notin {"built", "invalid"}, Pulled(Now),
         NEW k \in Stages, NEW q, IsLeaf(q, k),
         \/ Kind(k) \in {"generator", "ik"}
         \/ Kind(k) = "motion" /\ q.start \in Before(Now, k)
         \/ Kind(k) = "either" /\ Reads(k, 1) /\ q.start \in ToSet(startPull[k])
         \/ Kind(k) = "either" /\ Writes(k, 1) /\ q.end \in ToSet(endPull[k])
         \/ Kind(k) = "connect" /\ q.start \in ToSet(startPull[k]) /\ q.end \in ToSet(endPull[k])
  PROVE  Drawn(Now, q)
<1> DEFINE I == Now
<1>1. Pulled(I) /\ I[1] = startPull /\ I[2] = endPull
  BY DEF Now
<1> HIDE DEF I
<1>2. ToSet(startPull[k]) \subseteq Before(I, k) /\ ToSet(endPull[k]) \subseteq After(I, k)
  BY <1>1 DEF Pulled
<1>3. q.stage = k
  BY DEF IsLeaf, Leaf
<1>4. \A side \in {1, 2} : IO(k, side) \in {"R", "W"}
  BY IOFacts
<1>5. /\ Kind(k) \in {"generator", "ik"} => IO(k, 1) = "W" /\ IO(k, 2) = "W"
      /\ Kind(k) = "motion" => IO(k, 1) = "R" /\ IO(k, 2) = "W"
      /\ Kind(k) = "either" => IO(k, 1) # IO(k, 2)
  BY LeafFaces
<1>6. \A side \in {1, 2} : (Reads(k, side) <=> IO(k, side) = "R") /\ (Writes(k, side) <=> IO(k, side) = "W")
  BY FaceFacts
<1>7. Kind(k) = "motion" => (q.start \in Before(Now, k) => q.start \in Before(I, k))
  BY DEF I
<1>8. /\ IO(k, 1) = "R" => q.start \in Before(I, k)
      /\ IO(k, 2) = "R" => q.end \in After(I, k)
  <2>1. CASE Kind(k) \in {"generator", "ik"}
    BY <1>5, <2>1
  <2>2. CASE Kind(k) = "motion" /\ q.start \in Before(Now, k)
    BY <1>5, <1>7, <2>2
  <2>3. CASE Kind(k) = "either" /\ Reads(k, 1) /\ q.start \in ToSet(startPull[k])
    BY <1>2, <1>4, <1>5, <1>6, <2>3
  <2>4. CASE Kind(k) = "either" /\ Writes(k, 1) /\ q.end \in ToSet(endPull[k])
    BY <1>2, <1>4, <1>5, <1>6, <2>4
  <2>5. CASE Kind(k) = "connect" /\ q.start \in ToSet(startPull[k]) /\ q.end \in ToSet(endPull[k])
    BY <1>2, <2>5
  <2> QED
    BY <2>1, <2>2, <2>3, <2>4, <2>5
<1>9. Drawn(I, q)
  BY <1>3, <1>8 DEF Drawn
<1> QED
  BY <1>9 DEF I

LEMMA DrawnComputed ==
  ASSUME TaskInv, Faced, verdict = "planning", Pulled(Now), queue = <<>>, NEW s \in Stages, NEW i \in DOMAIN Kids(s),
         ComputeLeaf(s, i)
  PROVE  AllDrawn(Now, queue')
<1> DEFINE k == Kids(s)[i]
<1>1. Typed /\ task \in Tasks /\ k \in Stages
  BY KidFacts DEF TaskInv, Typed
<1>2. LeafEffect(k)
  BY <1>1, LeafComputes
<1> HIDE DEF k
<1>3. \A n \in DOMAIN queue' : IsLeaf(queue'[n], k)
  BY <1>2 DEF LeafEffect
<1>p. ToSet(startPull[k]) \subseteq Before(Now, k)
  <2>1. Now[1] = startPull
    BY DEF Now
  <2> QED
    BY <1>1, <2>1 DEF Pulled
<1>4. CASE Kind(k) = "generator"
  BY <1>1, <1>3, <1>4, DrawnLeaf DEF AllDrawn
<1>5. CASE Kind(k) = "connect" /\ Join(k)
  BY <1>1, <1>3, <1>5, DrawnLeaf, JoinFacts DEF AllDrawn
<1>6. CASE Kind(k) = "motion" /\ Forward(k)
  BY <1>1, <1>3, <1>6, <1>p, DrawnLeaf, ForwardFacts DEF AllDrawn
<1>7. CASE Kind(k) = "either" /\ Reads(k, 1) /\ Forward(k)
  BY <1>1, <1>3, <1>7, DrawnLeaf, ForwardFacts DEF AllDrawn
<1>8. CASE Kind(k) = "either" /\ Writes(k, 1) /\ Backward(k)
  BY <1>1, <1>3, <1>8, DrawnLeaf, BackwardFacts DEF AllDrawn
<1>9. CASE Defer(k)
  <2>1. queue' = <<>>
    BY <1>9 DEF Defer
  <2> QED
    BY <2>1 DEF AllDrawn
<1> QED
  BY <1>4, <1>5, <1>6, <1>7, <1>8, <1>9 DEF ComputeLeaf, k

LEMMA ComputedDrawn ==
  ASSUME TaskInv, Faced, Pulled(Now), Deferred(Now, jobs), [Next]_vars
  PROVE  Emit \/ queue' = queue \/ AllDrawn(Now, queue')
<1>0. Typed /\ Open /\ task \in Tasks
  BY DEF TaskInv, Typed
<1>1. CASE InitTask \/ Pass \/ Conclude \/ UNCHANGED vars
  BY <1>1 DEF InitTask, Pass, Conclude, vars
<1>2. ASSUME NEW s \in Stages, EnterSolved(s) \/ Enter(s) \/ Exhausted(s) \/ Leave(s) PROVE queue' = queue
  BY <1>2 DEF EnterSolved, Enter, Exhausted, Leave
<1>3. ASSUME NEW s \in Stages, Flush(s) PROVE AllDrawn(Now, queue')
  <2>1. jobs # <<>> /\ Top.stage = s /\ verdict = "planning"
    BY <1>0, <1>3, ThreadSteps DEF Flush
  <2>2. Batched(s) /\ \A j \in DOMAIN jobs : jobs[j].stage \in ToSet(Kids(s))
    BY <1>0, <2>1 DEF Open
  <2>3. ASSUME NEW j \in DOMAIN jobs
        PROVE  jobs[j].stage \in Stages /\ Kind(jobs[j].stage) = "motion" /\ jobs[j].from \in Before(Now, jobs[j].stage)
    <3>1. Kind(jobs[j].stage) = "motion"
      BY <2>2 DEF Batched
    <3>2. PICK i : i \in DOMAIN Kids(s) /\ Kids(s)[i] = jobs[j].stage
      BY <2>2 DEF ToSet
    <3>3. jobs[j].from \in Before(Now, jobs[j].stage)
      BY DEF Deferred
    <3> QED
      BY <1>0, <3>1, <3>2, <3>3, KidFacts
  <2>4. ASSUME NEW n \in DOMAIN queue' PROVE Drawn(Now, queue'[n])
    <3>1. PICK j \in DOMAIN jobs : IsLeaf(queue'[n], jobs[j].stage) /\ queue'[n].start = jobs[j].from
      BY <1>0, <1>3, FlushFacts
    <3> QED
      BY <1>0, <2>1, <2>3, <3>1, DrawnLeaf
  <2> QED
    BY <2>4 DEF AllDrawn
<1>4. ASSUME NEW s \in Stages, IkChild(s) PROVE queue' = queue \/ AllDrawn(Now, queue')
  <2>1. \/ queue' = queue
        \/ Kids(s)[1] \in Stages /\ Kind(Kids(s)[1]) = "generator" /\ LeafEffect(Kids(s)[1])
    BY <1>0, <1>4, IkChildComputes
  <2>2. verdict = "planning"
    BY <1>0, <1>4, ThreadSteps
  <2>3. ASSUME Kids(s)[1] \in Stages, Kind(Kids(s)[1]) = "generator", LeafEffect(Kids(s)[1]) PROVE AllDrawn(Now, queue')
    <3>1. \A n \in DOMAIN queue' : IsLeaf(queue'[n], Kids(s)[1])
      BY <2>3 DEF LeafEffect
    <3> QED
      BY <1>0, <2>2, <2>3, <3>1, DrawnLeaf DEF AllDrawn
  <2> QED
    BY <2>1, <2>3
<1>5. ASSUME NEW s \in Stages, IkCandidates(s) PROVE AllDrawn(Now, queue')
  <2>1. \A n \in DOMAIN queue' : IsLeaf(queue'[n], s)
    BY <1>0, <1>5, IkCandidatesFacts
  <2>2. Kind(s) = "ik" /\ verdict = "planning"
    BY <1>0, <1>5, ThreadSteps DEF IkCandidates
  <2> QED
    BY <1>0, <2>1, <2>2, DrawnLeaf DEF AllDrawn
<1>6. ASSUME NEW s \in Stages, NEW i \in DOMAIN Kids(s),
             Skip(s, i) \/ Call(s, i) \/ Propagate(s, i) \/ FallbacksTried(s, i) \/ StageRaises(s, i)
      PROVE  queue' = queue
  BY <1>6 DEF Skip, Call, Propagate, FallbacksTried, StageRaises
<1>7. ASSUME NEW s \in Stages, NEW i \in DOMAIN Kids(s), Runs(s, i), ComputeLeaf(s, i) PROVE AllDrawn(Now, queue')
  <2>1. queue = <<>> /\ verdict = "planning"
    BY <1>0, <1>7, RunsFacts
  <2> QED
    BY <1>7, <2>1, DrawnComputed
<1> QED
  BY <1>1, <1>2, <1>3, <1>4, <1>5, <1>6, <1>7, NextCases

(* A container's solution starts and ends where the container was told to. *)
LEMMA DrawnLifts ==
  ASSUME task \in Tasks, Faced, verdict \notin {"built", "invalid"}, NEW I, Pulled(I),
         NEW sol \in Solution, Drawn(I, sol), NEW all \in Seq(Solution), AllDrawn(I, all), Last(all) = sol,
         NEW new, LiftsTo(sol, all, new)
  PROVE  AllDrawn(I, new)
<1> SUFFICES ASSUME NEW n \in DOMAIN new PROVE Drawn(I, new[n])
  BY DEF AllDrawn
<1> DEFINE p == Parent(sol.stage)
<1>1. new # <<>> /\ sol.stage # Root /\ sol.stage \in Stages
  BY DEF LiftsTo, Solution
<1>2. p \in Stages /\ \E i \in DOMAIN Kids(p) : Kids(p)[i] = sol.stage
  BY <1>1, ParentFacts
<1>q. p = Parent(sol.stage)
  OBVIOUS
<1> HIDE DEF p
<1>b. ToSet(I[1][p]) \subseteq Before(I, p) /\ ToSet(I[2][p]) \subseteq After(I, p)
  BY <1>2 DEF Pulled
<1>3. CASE Parallel(p) /\ new[n] = [sol EXCEPT !.stage = p]
  <2>1. PICK i \in DOMAIN Kids(p) : Kids(p)[i] = sol.stage
    BY <1>2
  <2>2. ~Serial(p)
    BY <1>3 DEF Parallel, Serial
  <2>3. Before(I, sol.stage) = ToSet(I[1][p]) /\ After(I, sol.stage) = ToSet(I[2][p])
    <3>1. Before(I, Kids(p)[i]) = ToSet(I[1][p]) /\ After(I, Kids(p)[i]) = ToSet(I[2][p])
      BY <1>2, <2>2, SourceOf
    <3> QED
      BY <2>1, <3>1
  <2>4. IO(sol.stage, 1) = IO(p, 1) /\ IO(sol.stage, 2) = IO(p, 2)
    BY <1>2, <1>3, <2>1, FaceFacts
  <2>5. new[n].stage = p /\ new[n].start = sol.start /\ new[n].end = sol.end
    BY <1>3 DEF Solution
  <2> QED
    BY <1>b, <2>3, <2>4, <2>5 DEF Drawn
<1>4. ASSUME NEW at, Serial(p), Chain(p, all, at), new[n] = ChainOf(all, at) PROVE Drawn(I, new[n])
  <2> DEFINE a == all[at[1]]  b == all[at[Len(at)]]
  <2>0. Container(p) /\ Kids(p) # <<>>
    BY <1>2, <1>4, FaceFacts DEF Container
  <2>1. /\ 1 \in DOMAIN Kids(p) /\ Len(Kids(p)) \in DOMAIN Kids(p) /\ Last(Kids(p)) = Kids(p)[Len(Kids(p))]
        /\ Len(Kids(p)) # 0
    <3>1. 1 \in {1, 2}
      OBVIOUS
    <3>2. DOMAIN Kids(p) = 1 .. Len(Kids(p))
      BY <1>2, StageFacts
    <3>3. 1 \in DOMAIN Kids(p) /\ Len(Kids(p)) \in DOMAIN Kids(p) /\ Last(Kids(p)) = Kids(p)[Len(Kids(p))]
      BY <1>2, <2>0, <3>1, BorderKid
    <3> QED
      BY <3>2, <3>3
  <2>2. at \in Seq(DOMAIN all) /\ Len(at) > 0 /\ Place(p, all, at[1]) = 1 /\ Place(p, all, at[Len(at)]) = Len(Kids(p))
    BY <1>4 DEF Chain
  <2>3. at[1] \in DOMAIN all /\ at[Len(at)] \in DOMAIN all
    <3>1. 1 \in 1 .. Len(at) /\ Len(at) \in 1 .. Len(at)
      BY <2>2
    <3> QED
      BY <2>2, <3>1, ElementOfSeq
  <2>4. Drawn(I, a) /\ Drawn(I, b)
    BY <2>3 DEF AllDrawn
  <2>5. Pos(p, a.stage) = 1 /\ Pos(p, b.stage) = Len(Kids(p))
    BY <2>2 DEF Place
  <2> HIDE DEF a, b
  <2>6. a.stage = Kids(p)[1] /\ b.stage = Kids(p)[Len(Kids(p))]
    BY <1>2, <2>1, <2>5, PosFacts
  <2>7. Before(I, a.stage) = ToSet(I[1][p]) /\ After(I, b.stage) = ToSet(I[2][p])
    <3>1. Before(I, Kids(p)[1]) = ToSet(I[1][p])
      BY <1>2, <2>1, SourceOf
    <3>2. After(I, Kids(p)[Len(Kids(p))]) = ToSet(I[2][p])
      BY <1>2, <2>1, SourceOf
    <3> QED
      BY <2>6, <3>1, <3>2
  <2>8. IO(a.stage, 1) = IO(p, 1) /\ IO(b.stage, 2) = IO(p, 2)
    <3>1. NextBorder(p, 1) = a.stage /\ NextBorder(p, 2) = b.stage
      BY <1>4, <2>1, <2>6 DEF NextBorder
    <3>2. 1 \in {1, 2} /\ 2 \in {1, 2}
      OBVIOUS
    <3> QED
      BY <1>2, <2>0, <3>1, <3>2, IOFacts
  <2>9. ChainOf(all, at).stage = p /\ ChainOf(all, at).start = a.start /\ ChainOf(all, at).end = b.end
    BY <1>q DEF ChainOf, Last, a, b
  <2>10. /\ IO(p, 1) = "R" => a.start \in Before(I, p)
         /\ IO(p, 2) = "R" => b.end \in After(I, p)
    BY <1>b, <2>4, <2>7, <2>8 DEF Drawn
  <2> QED
    BY <1>4, <2>9, <2>10 DEF Drawn
<1> QED
  BY <1>3, <1>4, <1>q DEF LiftsTo

LEMMA DrawnEmits ==
  ASSUME Typed, Faced, NEW I, Pulled(I), AllDrawn(I, emitted), AllDrawn(I, queue), Emit \/ Emits
  PROVE  AllDrawn(I, emitted') /\ AllDrawn(I, queue')
<1> DEFINE all == Append(emitted, Head(queue))
           sol == Head(queue)
<1>1. queue # <<>> /\ verdict = "planning" /\ queue \in Seq(Solution) /\ task \in Tasks
  BY DEF Emit, Emits, Typed
<1>2. /\ DOMAIN all = DOMAIN emitted \cup {Len(all)} /\ \A x \in DOMAIN emitted : all[x] = emitted[x]
      /\ sol \in Solution /\ Tail(queue) \in Seq(Solution) /\ all[Len(all)] = sol
      /\ all \in Seq(Solution) /\ Last(all) = sol
  BY <1>1, NewestFacts
<1>3. Head(queue) = queue[1] /\ 1 \in DOMAIN queue
  BY <1>1
<1>4. Drawn(I, sol)
  BY <1>3 DEF AllDrawn
<1>5. \A n \in DOMAIN Tail(queue) : n + 1 \in DOMAIN queue /\ Tail(queue)[n] = queue[n + 1]
  BY <1>1
<1>6. AllDrawn(I, Tail(queue))
  BY <1>5 DEF AllDrawn
<1>7. CASE queue' = Tail(queue) /\ emitted' = emitted
  BY <1>6, <1>7
<1>8. CASE emitted' = all /\ Lift(all)
  <2>1. PICK new : LiftsTo(sol, all, new) /\ queue' = new \o Tail(queue)
    BY <1>1, <1>8, LiftFacts
  <2>2. new \in Seq(Solution)
    BY <2>1 DEF LiftsTo
  <2> HIDE DEF all, sol
  <2>3. AllDrawn(I, all)
    BY <1>2, <1>4 DEF AllDrawn
  <2>4. AllDrawn(I, new)
    BY <1>1, <1>2, <1>4, <2>1, <2>3, DrawnLifts
  <2>5. ASSUME NEW n \in DOMAIN queue' PROVE Drawn(I, queue'[n])
    <3>1. \/ n \in DOMAIN new /\ queue'[n] = new[n]
          \/ \E m \in DOMAIN Tail(queue) : queue'[n] = Tail(queue)[m]
      <4> DEFINE t == Tail(queue)
      <4>1. t \in Seq(Solution) /\ queue' = new \o t
        BY <1>2, <2>1
      <4> HIDE DEF t
      <4>2. /\ Len(new) \in Nat /\ Len(t) \in Nat /\ DOMAIN new = 1 .. Len(new) /\ DOMAIN t = 1 .. Len(t)
            /\ n \in 1 .. Len(new) + Len(t) /\ queue'[n] = IF n <= Len(new) THEN new[n] ELSE t[n - Len(new)]
        BY <2>2, <2>5, <4>1
      <4>3. CASE n <= Len(new)
        BY <4>2, <4>3
      <4>4. CASE n > Len(new)
        <5>1. n - Len(new) \in 1 .. Len(t) /\ ~(n <= Len(new))
          BY <4>2, <4>4
        <5> QED
          BY <4>2, <5>1 DEF t
      <4> QED
        BY <4>2, <4>3, <4>4
    <3> QED
      BY <1>6, <2>4, <3>1 DEF AllDrawn
  <2>6. AllDrawn(I, queue')
    BY <2>5 DEF AllDrawn
  <2> QED
    BY <1>8, <2>3, <2>6
<1> QED
  BY <1>7, <1>8, Zenon DEF Emit, Emits

LEMMA SourceSame ==
  ASSUME task' = task
  PROVE  SourceInv' <=> /\ Pulled(Now') /\ Deferred(Now', jobs')
                        /\ AllDrawn(Now', emitted') /\ AllDrawn(Now', queue')
<1>1. /\ Stages' = Stages
      /\ \A s : /\ Kind(s)' = Kind(s) /\ Kids(s)' = Kids(s) /\ Parent(s)' = Parent(s) /\ Serial(s)' = Serial(s)
  BY SameTree
<1>2. \A s : Before(Now, s)' = Before(Now', s)
  BY DEF Before, Now, Pos, Parent, Kids, Serial, Kind, Stages, Root
<1>3. \A s : After(Now, s)' = After(Now', s)
  BY DEF After, Now, Pos, Parent, Kids, Serial, Kind, Stages, Root
<1>4. Pulled(Now)' = Pulled(Now')
  BY <1>1, <1>2, <1>3 DEF Pulled, Now
<1>5. Deferred(Now, jobs)' = Deferred(Now', jobs')
  BY <1>2 DEF Deferred
<1>6. \A q : Drawn(Now, q)' = Drawn(Now', q)
  BY <1>2, <1>3, ResolvedSame DEF Drawn
<1> QED
  BY <1>4, <1>5, <1>6 DEF SourceInv, AllDrawn

LEMMA SourceInvStep ==
  ASSUME TaskInv, Faced, SourceInv, [Next]_vars PROVE SourceInv'
<1>1. Typed /\ task \in Tasks /\ task' = task
  BY TypedStep DEF TaskInv, Typed, TypedNext
<1>2. Pulled(Now) /\ Deferred(Now, jobs) /\ AllDrawn(Now, emitted) /\ AllDrawn(Now, queue)
  BY DEF SourceInv
<1> DEFINE I == Now  J == Now'
<1>3. Rises(I, J)
  BY <1>1, RiseStep
<1>4. Pulled(J) /\ Deferred(J, jobs')
  BY <1>1, <1>2, PulledStep, DeferredStep
<1>5. AllDrawn(I, emitted') /\ AllDrawn(I, queue')
  <2>1. CASE Emit \/ Emits
    BY <1>1, <1>2, <2>1, DrawnEmits
  <2>2. CASE emitted' = emitted /\ (queue' = queue \/ AllDrawn(Now, queue'))
    BY <1>2, <2>2
  <2> QED
    BY <1>1, <1>2, <2>1, <2>2, EmittedSteps, ComputedDrawn
<1>6. emitted' \in Seq(Solution) /\ queue' \in Seq(Solution)
  <2>1. Typed'
    BY <1>1, TypedStep, TypedNextFacts
  <2>2. Solution' = Solution
    BY <1>1 DEF Solution, Segment, Stages
  <2> QED
    BY <2>1, <2>2 DEF Typed
<1> HIDE DEF I, J
<1>7. ASSUME NEW q \in Solution, Drawn(I, q) PROVE Drawn(J, q)
  BY <1>3, <1>7 DEF Drawn, Rises, Solution
<1>8. ASSUME NEW sols \in Seq(Solution), AllDrawn(I, sols) PROVE AllDrawn(J, sols)
  <2>1. \A n \in DOMAIN sols : sols[n] \in Solution
    BY ElementOfSeq
  <2> QED
    BY <1>7, <1>8, <2>1 DEF AllDrawn
<1>9. Pulled(J) /\ Deferred(J, jobs') /\ AllDrawn(J, emitted') /\ AllDrawn(J, queue')
  BY <1>4, <1>5, <1>6, <1>8
<1> QED
  BY <1>1, <1>9, SourceSame DEF J

LEMMA SourceInvInit == Init => SourceInv
<1> SUFFICES ASSUME Init PROVE SourceInv
  OBVIOUS
<1>1. emitted = <<>> /\ queue = <<>> /\ jobs = <<>> /\ DOMAIN <<>> = {} /\ ToSet(<<>>) = {}
  BY DEF Init, ToSet
<1>2. \A s \in Stages : startPull[s] = <<>> /\ endPull[s] = <<>>
  BY DEF Init
<1>3. \A s \in Stages : ToSet(Now[1][s]) = {} /\ ToSet(Now[2][s]) = {}
  BY <1>1, <1>2 DEF Now
<1> QED
  BY <1>1, <1>3 DEF SourceInv, Pulled, Deferred, AllDrawn

-----------------------------------------------------------------------------
(* Planning gives up only when no chain through the root's children is left. *)
LEMMA SolsMember ==
  ASSUME Typed, NEW s
  PROVE  /\ ToSet(Sols(s)) \subseteq Solution
         /\ \A x \in ToSet(Sols(s)) : \E n \in DOMAIN emitted : emitted[n] = x /\ x.stage = s
<1> DEFINE S == {x \in DOMAIN emitted : emitted[x].stage = s}
           p == Picked(emitted, S)
<1>1. emitted \in Seq(Solution) /\ S \subseteq DOMAIN emitted
  BY DEF Typed
<1>2. Sols(s) = p
  BY DEF Sols
<1>m. \A n \in S : n \in DOMAIN emitted /\ emitted[n].stage = s
  OBVIOUS
<1> HIDE DEF S
<1>3. /\ p \in Seq(Solution) /\ Len(p) = Cardinality(S) /\ Cardinality(S) \in Nat
      /\ \A n \in 1 .. Cardinality(S) : Nth(S, n) \in S /\ p[n] = emitted[Nth(S, n)]
  BY <1>1, PickedFacts
<1> HIDE DEF p
<1>4. DOMAIN p = 1 .. Cardinality(S) /\ \A n \in DOMAIN p : p[n] \in Solution
  BY <1>3, ElementOfSeq
<1>5. ToSet(p) \subseteq Solution
  BY <1>4 DEF ToSet
<1>6. ASSUME NEW x \in ToSet(p) PROVE \E n \in DOMAIN emitted : emitted[n] = x /\ x.stage = s
  <2>1. PICK n \in DOMAIN p : x = p[n]
    BY <1>6 DEF ToSet
  <2>2. Nth(S, n) \in S /\ x = emitted[Nth(S, n)]
    BY <1>3, <1>4, <2>1
  <2> QED
    BY <1>m, <2>2
<1> QED
  BY <1>2, <1>5, <1>6

(* The states reached by the first i children, as the recursion says. *)
Steps(i, before) ==
  {x.end : x \in {y \in ToSet(Sols(Kids(Root)[i])) :
     i = 1 \/ \E r \in before : r = y.start \/ (~Merged /\ r.key = y.start.key)}}

LEMMA ReachFacts ==
  ASSUME Typed, NEW i \in DOMAIN Kids(Root)
  PROVE  Reach[i] = Steps(i, IF i = 1 THEN {} ELSE Reach[i - 1])
<1> DEFINE N == DOMAIN Kids(Root)
           V == SUBSET State
           bound == Len(Kids(Root))
           rank == [x \in N |-> x]
           succ == [x \in N |-> IF x = 1 THEN {} ELSE {x - 1}]
           step == [x \in N |-> [g \in [succ[x] -> V] |-> Steps(x, IF x = 1 THEN {} ELSE g[x - 1])]]
<1>1. bound \in Nat /\ N = 1 .. bound
  BY StageFacts DEF Typed
<1>2. \A x \in N : x \in 1 .. bound /\ x \in Nat /\ (x # 1 => x - 1 \in N /\ x - 1 < x)
  BY <1>1
<1>3. \A x, b : Steps(x, b) \in V
  <2> SUFFICES ASSUME NEW x, NEW b, NEW r \in Steps(x, b) PROVE r \in State
    OBVIOUS
  <2>1. PICK y \in ToSet(Sols(Kids(Root)[x])) : r = y.end
    BY DEF Steps
  <2>2. y \in Solution
    BY <2>1, SolsMember
  <2> QED
    BY <2>1, <2>2 DEF Solution
<1> HIDE DEF V, bound
<1>4. rank \in [N -> 0 .. bound]
  BY <1>1, <1>2
<1>5. ASSUME NEW x \in N PROVE succ[x] \in SUBSET N /\ \A y \in succ[x] : rank[y] < rank[x]
  BY <1>2
<1>6. \A x \in N : step[x] \in [[succ[x] -> V] -> V]
  <2> SUFFICES ASSUME NEW x \in N, NEW g \in [succ[x] -> V]
               PROVE  Steps(x, IF x = 1 THEN {} ELSE g[x - 1]) \in V
    OBVIOUS
  <2> QED
    BY <1>3
<1>7. PICK f \in [N -> V] : Follows(f, N, succ, step)
  <2>1. succ \in [N -> SUBSET N] /\ \A x \in N : \A y \in succ[x] : rank[y] < rank[x]
    <3>1. succ = [x \in N |-> succ[x]]
      OBVIOUS
    <3> HIDE DEF succ
    <3> QED
      BY <1>5, <3>1
  <2> HIDE DEF N, V, succ, rank, step, bound
  <2> QED
    BY <1>1, <1>4, <1>6, <2>1, RecursionExists
<1>8. ASSUME NEW x \in N PROVE f[x] = Steps(x, IF x = 1 THEN {} ELSE f[x - 1])
  <2>1. [y \in succ[x] |-> f[y]] \in [succ[x] -> V]
    BY <1>5
  <2>2. f[x] = step[x][[y \in succ[x] |-> f[y]]]
    BY <1>7 DEF Follows
  <2>3. x # 1 => [y \in succ[x] |-> f[y]][x - 1] = f[x - 1]
    OBVIOUS
  <2> HIDE DEF succ
  <2>4. step[x][[y \in succ[x] |-> f[y]]] = Steps(x, IF x = 1 THEN {} ELSE [y \in succ[x] |-> f[y]][x - 1])
    BY <2>1
  <2> HIDE DEF step
  <2> QED
    BY <2>2, <2>3, <2>4
<1> HIDE DEF succ, rank, step
<1>9. f = [x \in DOMAIN Kids(Root) |->
             {z.end : z \in {y \in ToSet(Sols(Kids(Root)[x])) :
                x = 1 \/ \E r \in f[x - 1] : r = y.start \/ (~Merged /\ r.key = y.start.key)}}]
  <2>1. f = [x \in N |-> f[x]]
    OBVIOUS
  <2>2. ASSUME NEW x \in N
        PROVE  f[x] = {z.end : z \in {y \in ToSet(Sols(Kids(Root)[x])) :
                         x = 1 \/ \E r \in f[x - 1] : r = y.start \/ (~Merged /\ r.key = y.start.key)}}
    <3>1. CASE x = 1
      BY <1>8, <3>1 DEF Steps
    <3>2. CASE x # 1
      BY <1>8, <3>2 DEF Steps
    <3> QED
      BY <3>1, <3>2
  <2> QED
    BY <2>1, <2>2
<1>10. Reach = [x \in DOMAIN Kids(Root) |->
             {z.end : z \in {y \in ToSet(Sols(Kids(Root)[x])) :
                x = 1 \/ \E r \in Reach[x - 1] : r = y.start \/ (~Merged /\ r.key = y.start.key)}}]
  BY <1>9, Zenon DEF Reach
<1>11. Reach[i] = {z.end : z \in {y \in ToSet(Sols(Kids(Root)[i])) :
                i = 1 \/ \E r \in Reach[i - 1] : r = y.start \/ (~Merged /\ r.key = y.start.key)}}
  BY <1>10, Zenon
<1>12. CASE i = 1
  BY <1>11, <1>12 DEF Steps
<1>13. CASE i # 1
  BY <1>11, <1>13 DEF Steps
<1> QED
  BY <1>12, <1>13

(* Solutions of the root's first i children that meet and end at r. *)
Trail(c, i, r) ==
  /\ c \in [1 .. i -> DOMAIN emitted]
  /\ \A j \in 1 .. i : emitted[c[j]] \in ToSet(Sols(Kids(Root)[j]))
  /\ \A j \in 1 .. i : j > 1 => emitted[c[j - 1]].end = emitted[c[j]].start
  /\ emitted[c[i]].end = r

(* One key is one object: what the reading side of two neighbours starts or
   ends at was written by the other, which writes one object per key. *)
LEMMA KeysMeet ==
  ASSUME Typed, Faced, SourceInv, verdict \notin {"built", "invalid"}, Serial(Root), ~Merged,
         NEW m \in DOMAIN Kids(Root), m > 1,
         NEW x \in ToSet(Sols(Kids(Root)[m - 1])), NEW y \in ToSet(Sols(Kids(Root)[m])),
         x.end.key = y.start.key
  PROVE  x.end = y.start
<1> DEFINE a == Kids(Root)[m - 1]  b == Kids(Root)[m]  I == Now
<1>1. task \in Tasks /\ Root \in Stages /\ DOMAIN Kids(Root) = 1 .. Len(Kids(Root)) /\ Len(Kids(Root)) \in Nat
  BY StageFacts DEF Typed
<1>2. m - 1 \in DOMAIN Kids(Root) /\ (m - 1) + 1 = m /\ m # 1 /\ m - 1 # Len(Kids(Root))
  BY <1>1
<1>3. a \in Stages /\ b \in Stages /\ a \in ToSet(Kids(Root)) /\ b \in ToSet(Kids(Root))
  BY <1>1, <1>2, KidFacts DEF ToSet
<1>4. I[3] = starts /\ I[4] = ends /\ AllDrawn(I, emitted)
  BY DEF Now, SourceInv
<1> HIDE DEF I
<1>5. Before(I, b) = ToSet(I[4][a])
  <2>1. ~(~Serial(Root) \/ m = 1)
    BY <1>2
  <2> QED
    BY <1>1, <2>1, SourceOf
<1>6. After(I, a) = ToSet(I[3][b])
  <2>1. After(I, a) = ToSet(I[3][Kids(Root)[(m - 1) + 1]])
    BY <1>1, <1>2, SourceOf
  <2> QED
    BY <1>2, <2>1
<1>7. IO(a, 2) # IO(b, 1)
  <2>1. IO(Kids(Root)[m - 1], 2) # IO(Kids(Root)[(m - 1) + 1], 1)
    BY <1>1, <1>2, FaceFacts
  <2> QED
    BY <1>2, <2>1
<1>8. /\ IO(a, 2) \in {"R", "W"} /\ IO(b, 1) \in {"R", "W"}
      /\ Writes(a, 2) <=> IO(a, 2) = "W"
      /\ Writes(b, 1) <=> IO(b, 1) = "W"
  <2>1. 1 \in {1, 2} /\ 2 \in {1, 2}
    OBVIOUS
  <2> HIDE DEF a, b
  <2> QED
    BY <1>1, <1>3, <2>1, IOFacts, FaceFacts
<1>9. Drawn(I, x) /\ Drawn(I, y) /\ x.stage = a /\ y.stage = b
  <2>1. x.stage = a /\ \E n \in DOMAIN emitted : emitted[n] = x
    BY SolsMember
  <2>2. y.stage = b /\ \E n \in DOMAIN emitted : emitted[n] = y
    BY SolsMember
  <2> QED
    BY <1>4, <2>1, <2>2 DEF AllDrawn
<1>10. CASE IO(b, 1) = "R"
  <2>1. y.start \in ToSet(ends[a])
    BY <1>4, <1>5, <1>9, <1>10 DEF Drawn
  <2>2. Writes(a, 2) /\ x \in ToSet(Sols(a))
    BY <1>7, <1>8, <1>10
  <2> HIDE DEF a, b
  <2> QED
    BY <1>3, <2>1, <2>2 DEF Merged
<1>11. CASE IO(a, 2) = "R"
  <2>1. x.end \in ToSet(starts[b])
    BY <1>4, <1>6, <1>9, <1>11 DEF Drawn
  <2>2. Writes(b, 1) /\ y \in ToSet(Sols(b))
    BY <1>7, <1>8, <1>11
  <2> HIDE DEF a, b
  <2> QED
    BY <1>3, <2>1, <2>2 DEF Merged
<1> QED
  BY <1>7, <1>8, <1>10, <1>11

LEMMA TrailFound ==
  ASSUME Typed, Faced, SourceInv, verdict \notin {"built", "invalid"}, Serial(Root),
         NEW i \in DOMAIN Kids(Root), NEW r \in Reach[i]
  PROVE  \E c : Trail(c, i, r)
<1> DEFINE D == DOMAIN Kids(Root)
           T == {j \in D : \E z \in Reach[j] : ~\E c : Trail(c, j, z)}
<1>1. SUFFICES ASSUME T # {} PROVE FALSE
  OBVIOUS
<1>2. D = 1 .. Len(Kids(Root)) /\ Len(Kids(Root)) \in Nat
  BY StageFacts DEF Typed
<1>3. PICK m \in T : \A j \in T : m <= j
  <2>1. T \subseteq Nat
    BY <1>2
  <2> QED
    BY <1>1, <2>1, Smallest
<1>4. m \in D /\ m \in Nat /\ m >= 1
  BY <1>2
<1>5. PICK z \in Reach[m] : ~\E c : Trail(c, m, z)
  BY <1>3
<1>6. m > 1 => m - 1 \in D /\ m - 1 \notin T
  BY <1>2, <1>3
<1>7. m > 1 => m - 1 \in D /\ \A q \in Reach[m - 1] : \E c : Trail(c, m - 1, q)
  BY <1>6
<1> HIDE DEF T, D
<1>8. Reach[m] = Steps(m, IF m = 1 THEN {} ELSE Reach[m - 1])
  BY <1>4, ReachFacts DEF D
<1>9. PICK x \in ToSet(Sols(Kids(Root)[m])) :
        /\ z = x.end
        /\ m = 1 \/ \E q \in (IF m = 1 THEN {} ELSE Reach[m - 1]) : q = x.start \/ (~Merged /\ q.key = x.start.key)
  BY <1>8 DEF Steps
<1>10. PICK n \in DOMAIN emitted : emitted[n] = x
  BY SolsMember
<1>11. CASE m = 1
  <2> DEFINE c == [j \in 1 .. 1 |-> n]
  <2>1. c \in [1 .. 1 -> DOMAIN emitted] /\ \A j \in 1 .. 1 : j = 1 /\ c[j] = n
    OBVIOUS
  <2>2. 1 \in 1 .. 1 /\ ~(1 > 1)
    OBVIOUS
  <2> HIDE DEF c
  <2>3. Trail(c, 1, z)
    BY <1>9, <1>10, <1>11, <2>1, <2>2 DEF Trail
  <2> QED
    BY <1>5, <1>11, <2>3
<1>12. CASE m > 1
  <2>1. PICK q \in Reach[m - 1] : q = x.start \/ (~Merged /\ q.key = x.start.key)
    BY <1>9, <1>12
  <2>2. PICK d : Trail(d, m - 1, q)
    BY <1>7, <1>12, <2>1
  <2> DEFINE y == emitted[d[m - 1]]
             c == [j \in 1 .. m |-> IF j = m THEN n ELSE d[j]]
  <2>3. m - 1 \in 1 .. m - 1 /\ m - 1 \in Nat
    BY <1>4, <1>12
  <2>4. y \in ToSet(Sols(Kids(Root)[m - 1])) /\ y.end = q
    BY <2>2, <2>3 DEF Trail
  <2> HIDE DEF y
  <2>5. y.end = x.start
    BY <1>4, <1>12, <2>1, <2>4, KeysMeet DEF D
  <2>6. \A j \in 1 .. m : j = m \/ j \in 1 .. m - 1
    BY <1>4
  <2>7. \A j \in 1 .. m - 1 : j \in 1 .. m /\ j # m /\ (j > 1 => j - 1 \in 1 .. m - 1)
    BY <1>4
  <2>8. m \in 1 .. m /\ m - 1 \in 1 .. m - 1
    BY <1>4, <1>12
  <2>9. d \in [1 .. m - 1 -> DOMAIN emitted]
    BY <2>2 DEF Trail
  <2>10. c \in [1 .. m -> DOMAIN emitted]
    BY <2>6, <2>9
  <2>11. c[m] = n /\ \A j \in 1 .. m - 1 : c[j] = d[j]
    BY <2>7, <2>8
  <2> HIDE DEF c
  <2>12. \A j \in 1 .. m : emitted[c[j]] \in ToSet(Sols(Kids(Root)[j]))
    BY <1>10, <2>2, <2>6, <2>11 DEF Trail
  <2>13. \A j \in 1 .. m : j > 1 => emitted[c[j - 1]].end = emitted[c[j]].start
    <3> SUFFICES ASSUME NEW j \in 1 .. m, j > 1 PROVE emitted[c[j - 1]].end = emitted[c[j]].start
      OBVIOUS
    <3>1. CASE j = m
      BY <1>10, <2>5, <2>8, <2>11, <3>1 DEF y
    <3>2. CASE j \in 1 .. m - 1
      <4>1. c[j] = d[j] /\ c[j - 1] = d[j - 1]
        BY <2>7, <2>11, <3>2
      <4> QED
        BY <2>2, <3>2, <4>1 DEF Trail
    <3> QED
      BY <2>6, <3>1, <3>2
  <2>14. Trail(c, m, z)
    BY <1>9, <1>10, <2>10, <2>11, <2>12, <2>13 DEF Trail
  <2> QED
    BY <1>5, <2>14
<1> QED
  BY <1>4, <1>11, <1>12

FailInv == Complete(emitted, queue) /\ Ended /\ Faced /\ SourceInv

LEMMA FailureImplied ==
  ASSUME TaskInv, CommitInv, FailInv PROVE FailureIsReal
<1> SUFFICES ASSUME verdict = "failed"
             PROVE  IF Serial(Root) THEN Reach[Len(Kids(Root))] = {}
                    ELSE \A k \in ToSet(Kids(Root)) : Sols(k) = <<>>
  BY DEF FailureIsReal
<1>1. /\ Typed /\ task \in Tasks /\ Root \in Stages /\ Container(Root)
      /\ Complete(emitted, queue) /\ Faced /\ SourceInv /\ Passed(emitted, queue)
  <2>1. Typed /\ task \in Tasks
    BY DEF TaskInv, Typed
  <2>2. Root \in Stages /\ Container(Root)
    BY <2>1, StageFacts, TaskAssumption DEF Container, Serial, Parallel, Kind, Root
  <2> QED
    BY <2>1, <2>2 DEF FailInv, CommitInv
<1>2. ~Solved(emitted, Root) /\ ~Waiting(queue, Root)
  <2>1. queue = <<>>
    BY DEF TaskInv, Busy
  <2> QED
    BY <2>1 DEF FailInv, Ended, Waiting
<1>3. CASE Serial(Root)
  <2> DEFINE e == Len(Kids(Root))
  <2>1. DOMAIN Kids(Root) = 1 .. e /\ e \in DOMAIN Kids(Root) /\ Kids(Root) # <<>>
    <3>1. Kids(Root) # <<>> /\ 1 \in {1, 2}
      BY <1>1, FaceFacts
    <3> QED
      BY <1>1, <3>1, StageFacts, BorderKid
  <2>2. ASSUME NEW r \in Reach[e] PROVE FALSE
    <3>1. PICK c : Trail(c, e, r)
      BY <1>1, <1>3, <2>1, <2>2, TrailFound
    <3>2. \A j \in DOMAIN Kids(Root) : emitted[c[j]].stage = Kids(Root)[j]
      <4> SUFFICES ASSUME NEW j \in DOMAIN Kids(Root) PROVE emitted[c[j]].stage = Kids(Root)[j]
        OBVIOUS
      <4>1. emitted[c[j]] \in ToSet(Sols(Kids(Root)[j]))
        BY <2>1, <3>1 DEF Trail
      <4> QED
        BY <1>1, <4>1, SolsMember
    <3>3. Along(emitted, Root, c)
      BY <2>1, <3>1, <3>2 DEF Along, Trail
    <3> QED
      BY <1>1, <1>2, <1>3, <2>1, <3>3 DEF Complete
  <2> QED
    BY <1>3, <2>2
<1>4. CASE ~Serial(Root)
  <2>1. Parallel(Root)
    BY <1>1, <1>4 DEF Container
  <2>2. ASSUME NEW k \in ToSet(Kids(Root)) PROVE Sols(k) = <<>>
    <3>1. PICK j \in DOMAIN Kids(Root) : k = Kids(Root)[j]
      BY DEF ToSet
    <3>2. ~Solved(emitted, k)
      BY <1>1, <1>2, <2>1, <3>1 DEF Passed, Waiting
    <3> QED
      BY <1>1, <3>2, SolsFacts DEF Solved
  <2> QED
    BY <1>4, <2>2
<1> QED
  BY <1>3, <1>4

LEMMA FailInvStep ==
  ASSUME TaskInv, FailInv, [Next]_vars PROVE FailInv'
<1>1. Complete(emitted', queue') /\ Ended' /\ Faced' /\ SourceInv' /\ task' = task
  BY CompleteStep, EndedStep, FacedStep, SourceInvStep, TypedStep DEF TaskInv, FailInv, TypedNext
<1>2. Complete(emitted, queue)' <=> Complete(emitted', queue')
  <2>1. \A p : Serial(p)' = Serial(p) /\ Kids(p)' = Kids(p)
    BY <1>1, SameTree
  <2>2. Stages' = Stages
    BY <1>1, SameTree
  <2> QED
    BY <2>1, <2>2 DEF Complete, Along, Solved, Waiting
<1> QED
  BY <1>1, <1>2 DEF FailInv

LEMMA FailInvInit == Init => FailInv
<1> SUFFICES ASSUME Init PROVE FailInv
  OBVIOUS
<1>1. emitted = <<>> /\ verdict = "built"
  BY DEF Init
<1>2. Ended /\ Faced
  BY <1>1 DEF Ended, Faced
<1>3. Complete(emitted, queue)
  <2> SUFFICES ASSUME NEW p \in Stages, NEW c, Kids(p) # <<>>, Along(emitted, p, c) PROVE FALSE
    BY DEF Complete
  <2>1. 1 \in DOMAIN Kids(p)
    BY TypedInit, BorderKid DEF Typed
  <2> QED
    BY <1>1, <2>1 DEF Along
<1> QED
  BY <1>2, <1>3, SourceInvInit DEF FailInv

(* Planning gives up only when there is no solution: whatever the order of
   solver results, passes and lifts, a failed verdict of TaskExecutor.plan
   means no chain of solutions leads through the root's children, each
   starting where the one before it ended; equal keys count as meeting unless
   a child wrote two objects of one key. *)
THEOREM FailureReal == Spec => []FailureIsReal
<1>1. TaskInv /\ CommitInv /\ FailInv => FailureIsReal
  BY FailureImplied
<1>2. TaskInv /\ CommitInv /\ FailInv /\ [Next]_vars => (TaskInv /\ CommitInv /\ FailInv)'
  BY TaskInvStep, CommitInvStep, FailInvStep
<1> QED
  BY TaskInvInit, CommitInvInit, FailInvInit, <1>1, <1>2, PTL DEF Spec

=============================================================================
