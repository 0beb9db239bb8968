---------------------------- MODULE Loaders_proofs ----------------------------
(***************************************************************************)
(* Theorems about the loaders: what a loader does with a file accounts for *)
(* everything the format library finds in it.                              *)
(*                                                                         *)
(* First come the facts about numbers, recursive functions and sequences   *)
(* that the loaders are built from, then the reading order of a page, the  *)
(* steps of a loader, and one part for every format.  The last part is     *)
(* about the lists the loaders and the search are built from (Lists).      *)
(***************************************************************************)
EXTENDS Loaders, TLAPS, FiniteSetTheorems, WellFoundedInduction

\* A set of numbers that is not empty has a least one.
LEMMA LeastOf ==
  ASSUME NEW T \in SUBSET Nat, T # {}
  PROVE  Min(T) \in T /\ \A m \in T : Min(T) <= m
<1> DEFINE R == OpToRel(<, Nat)
<1>1. IsWellFoundedOn(R, Nat)
  BY NatLessThanWellFounded
<1>2. \A x, y \in Nat : <<y, x>> \in R <=> y < x
  BY DEF OpToRel
<1> HIDE DEF R
<1>3. PICK x \in T : \A y \in T : ~(<<y, x>> \in R)
  BY <1>1, WFMin
<1>4. \A y \in T : ~(y < x)
  BY <1>2, <1>3
<1>5. x \in T /\ \A y \in T : x <= y
  BY <1>4
<1> QED
  BY <1>5 DEF Min

\* Induction over the numbers, of a set of them.
LEMMA NumberInduction ==
  ASSUME NEW P, 0 \in P, \A k \in Nat : k \in P => k + 1 \in P
  PROVE  Nat \subseteq P
<1> SUFFICES ASSUME Nat \ P # {} PROVE FALSE
  OBVIOUS
<1> DEFINE n == Min(Nat \ P)
<1>1. n \in Nat \ P /\ \A m \in Nat \ P : n <= m
  BY LeastOf
<1> HIDE DEF n
<1>2. n - 1 \in Nat /\ ~(n <= n - 1)
  BY <1>1
<1>3. n - 1 \in P
  BY <1>1, <1>2
<1>4. (n - 1) + 1 = n
  BY <1>1
<1> QED
  BY <1>1, <1>2, <1>3, <1>4

\* What a recursive function returns stays in T when every step does.
LEMMA RecursionStays ==
  ASSUME NEW N \in Nat, NEW T, NEW f, f[0] \in T,
         \A k \in 1..N : f[k - 1] \in T => f[k] \in T
  PROVE  \A k \in 0..N : f[k] \in T
<1> DEFINE P == {k \in Nat : k <= N => f[k] \in T}
<1>1. 0 \in P
  OBVIOUS
<1>2. \A k \in Nat : k \in P => k + 1 \in P
  <2> SUFFICES ASSUME NEW k \in Nat, k \in P, k + 1 <= N PROVE f[k + 1] \in T
    OBVIOUS
  <2>1. k + 1 \in 1..N /\ (k + 1) - 1 = k /\ f[k] \in T
    OBVIOUS
  <2> QED
    BY <2>1
<1> HIDE DEF P
<1>3. Nat \subseteq P
  BY <1>1, <1>2, NumberInduction
<1> QED
  BY <1>3 DEF P

(***************************************************************************)
(* A function may be defined by its first value and the step from each of  *)
(* its values to the next.                                                 *)
(***************************************************************************)
Stepping(T, N) == [T \X (1..N) -> T]

Recursive(f, N, T, base, step) ==
    /\ f \in [0..N -> T]
    /\ f[0] = base
    /\ \A k \in 1..N : f[k] = step[<<f[k - 1], k>>]

\* The same from 1 on.
RecursiveFromOne(f, N, T, base, step) ==
    /\ f \in [1..N -> T]
    /\ f[1] = base
    /\ \A k \in 2..N : f[k] = step[<<f[k - 1], k>>]

\* A definition by recursion on a number defines a function: if every function that
\* obeys it below a number goes on at that number, one obeys it everywhere.
LEMMA RecursionExists ==
  ASSUME NEW N, N \in Nat, NEW T, NEW base, base \in T, NEW step, step \in Stepping(T, N)
  PROVE  \E f : Recursive(f, N, T, base, step)
<1> DEFINE Upto(n, f) == f[0] = base /\ \A k \in 1..n : f[k] = step[<<f[k - 1], k>>]
           P == {n \in Nat : n <= N => \E f \in [0..n -> T] : Upto(n, f)}
<1> USE DEF Stepping
<1>1. 0 \in P
  <2> DEFINE f == [k \in 0..0 |-> base]
  <2>1. f \in [0..0 -> T] /\ Upto(0, f)
    OBVIOUS
  <2> QED
    BY <2>1
<1>2. \A n \in Nat : n \in P => n + 1 \in P
  <2> SUFFICES ASSUME NEW n \in Nat, n \in P, n + 1 <= N
               PROVE  \E f \in [0..(n + 1) -> T] : Upto(n + 1, f)
    BY SMTT(30)
  <2>1. n <= N
    OBVIOUS
  <2>2. PICK g \in [0..n -> T] : Upto(n, g)
    BY <2>1
  <2> DEFINE f == [k \in 0..(n + 1) |-> IF k = n + 1 THEN step[<<g[n], n + 1>>] ELSE g[k]]
  <2>3. g[n] \in T /\ n + 1 \in 1..N
    BY <2>2
  <2>4. step[<<g[n], n + 1>>] \in T
    BY <2>3
  <2>5. f \in [0..(n + 1) -> T]
    BY <2>2, <2>4
  <2>6. f[0] = base
    BY <2>2
  <2>7. ASSUME NEW k \in 1..(n + 1) PROVE f[k] = step[<<f[k - 1], k>>]
    <3>1. CASE k = n + 1
      <4>1. f[k] = step[<<g[n], n + 1>>] /\ f[k - 1] = g[n]
        BY <3>1
      <4> QED
        BY <3>1, <4>1
    <3>2. CASE k # n + 1
      <4>1. k \in 1..n /\ f[k] = g[k] /\ f[k - 1] = g[k - 1]
        BY <3>2
      <4> QED
        BY <4>1, <2>2
    <3> QED
      BY <3>1, <3>2
  <2> HIDE DEF f
  <2>8. Upto(n + 1, f)
    BY <2>6, <2>7
  <2> QED
    BY <2>5, <2>8
<1> HIDE DEF P
<1>3. N \in P
  BY <1>1, <1>2, NumberInduction
<1> QED
  BY <1>3 DEF P, Recursive

\* The same where the recursion begins at one.
LEMMA RecursionFromOne ==
  ASSUME NEW N, N \in Nat \ {0}, NEW T, NEW base, base \in T, NEW step, step \in Stepping(T, N)
  PROVE  \E f : RecursiveFromOne(f, N, T, base, step)
<1>1. PICK M \in Nat : M = N - 1
  OBVIOUS
<1> DEFINE later == [p \in T \X (1..M) |-> step[<<p[1], p[2] + 1>>]]
<1>2. ASSUME NEW p \in T \X (1..M) PROVE step[<<p[1], p[2] + 1>>] \in T
  <2>1. p[1] \in T /\ p[2] + 1 \in 1..N
    BY <1>1
  <2>2. <<p[1], p[2] + 1>> \in T \X (1..N)
    BY <2>1
  <2> QED
    BY <2>2 DEF Stepping
<1>3. later \in Stepping(T, M)
  BY <1>2 DEF Stepping
<1> HIDE DEF later
<1>4. PICK g : Recursive(g, M, T, base, later)
  BY <1>1, <1>3, RecursionExists
<1> USE DEF Recursive
<1> DEFINE f == [k \in 1..N |-> g[k - 1]]
<1>5. f \in [1..N -> T] /\ f[1] = base
  BY <1>1, <1>4
<1>6. ASSUME NEW k \in 2..N PROVE f[k] = step[<<f[k - 1], k>>]
  <2>1. k - 1 \in 1..M /\ (k - 1) - 1 \in 0..M /\ (k - 1) + 1 = k
    BY <1>1
  <2>2. f[k] = g[k - 1] /\ f[k - 1] = g[(k - 1) - 1] /\ g[(k - 1) - 1] \in T
    BY <2>1, <1>4
  <2>3. g[k - 1] = later[<<g[(k - 1) - 1], k - 1>>]
    BY <2>1, <1>4
  <2> HIDE DEF f
  <2>4. <<g[(k - 1) - 1], k - 1>> \in T \X (1..M)
    BY <2>1, <2>2
  <2>5. later[<<g[(k - 1) - 1], k - 1>>] = step[<<g[(k - 1) - 1], (k - 1) + 1>>]
    BY <2>4 DEF later
  <2> QED
    BY <2>1, <2>2, <2>3, <2>5
<1> HIDE DEF f
<1> QED
  BY <1>5, <1>6 DEF RecursiveFromOne

\* The elements of two sequences, one after the other.
LEMMA ConcatRange ==
  ASSUME NEW T, NEW s \in Seq(T), NEW t \in Seq(T)
  PROVE  s \o t \in Seq(T) /\ ToSet(s \o t) = ToSet(s) \cup ToSet(t)
<1>1. s \o t \in Seq(T) /\ Len(s \o t) = Len(s) + Len(t)
  OBVIOUS
<1>2. \A i \in 1..Len(s) : (s \o t)[i] = s[i]
  OBVIOUS
<1>3. \A i \in 1..Len(t) : (s \o t)[Len(s) + i] = t[i]
  OBVIOUS
<1>4. ASSUME NEW i \in 1..Len(s \o t)
      PROVE  i \in 1..Len(s) \/ (i - Len(s) \in 1..Len(t) /\ Len(s) + (i - Len(s)) = i)
  BY <1>1
<1> DEFINE u == s \o t
<1>5. DOMAIN s = 1..Len(s) /\ DOMAIN t = 1..Len(t) /\ DOMAIN u = 1..Len(u)
  BY <1>1
<1>6. ASSUME NEW x \in ToSet(u) PROVE x \in ToSet(s) \cup ToSet(t)
  <2>1. PICK i \in 1..Len(u) : x = u[i]
    BY <1>5 DEF ToSet
  <2> QED
    BY <1>2, <1>3, <1>4, <1>5, <2>1 DEF ToSet
<1>7. ASSUME NEW x \in ToSet(s) PROVE x \in ToSet(u)
  <2>1. PICK i \in 1..Len(s) : x = s[i]
    BY <1>5 DEF ToSet
  <2>2. i \in 1..Len(u) /\ u[i] = x
    BY <1>1, <1>2, <2>1
  <2> QED
    BY <1>5, <2>2 DEF ToSet
<1>8. ASSUME NEW x \in ToSet(t) PROVE x \in ToSet(u)
  <2>1. PICK i \in 1..Len(t) : x = t[i]
    BY <1>5 DEF ToSet
  <2>2. Len(s) + i \in 1..Len(u) /\ u[Len(s) + i] = x
    BY <1>1, <1>3, <2>1
  <2> QED
    BY <1>5, <2>2 DEF ToSet
<1> QED
  BY <1>1, <1>6, <1>7, <1>8

\* A sequence of sequences is flattened from the first to the last.
LEMMA FlattenSteps ==
  ASSUME NEW T, NEW seqs \in Seq(Seq(T)), Len(seqs) # 0
  PROVE  \E w : /\ FlattenSeq(seqs) = w[Len(seqs)] /\ w[1] = seqs[1]
                /\ \A k \in 2..Len(seqs) : w[k] = w[k - 1] \o seqs[k]
<1> DEFINE N == Len(seqs)
           S == Seq(T)
           step == [p \in S \X (1..N) |-> p[1] \o seqs[p[2]]]
           w == CHOOSE f : f = [i \in 1..N |-> IF i = 1 THEN seqs[i] ELSE f[i - 1] \o seqs[i]]
<1>1. N \in Nat \ {0} /\ seqs[1] \in S /\ \A i \in 1..N : seqs[i] \in S
  OBVIOUS
<1>2. step \in Stepping(S, N)
  <2>1. ASSUME NEW p \in S \X (1..N) PROVE p[1] \o seqs[p[2]] \in S
    <3>1. p[1] \in S /\ seqs[p[2]] \in S
      BY <1>1
    <3> QED
      BY <3>1
  <2> QED
    BY <2>1 DEF Stepping
<1>3. N \in Nat \ {0} /\ seqs[1] \in S
  BY <1>1
<1> HIDE DEF step, S, N
<1>4. PICK f : RecursiveFromOne(f, N, S, seqs[1], step)
  BY <1>2, <1>3, RecursionFromOne
<1> USE DEF S, N, RecursiveFromOne
<1>5. ASSUME NEW k \in 1..N, k # 1 PROVE f[k] = f[k - 1] \o seqs[k]
  <2>1. k \in 2..N /\ k - 1 \in 1..N
    BY <1>5
  <2>2. <<f[k - 1], k>> \in Seq(T) \X (1..N)
    BY <2>1, <1>4
  <2>3. step[<<f[k - 1], k>>] = f[k - 1] \o seqs[k]
    BY <2>2 DEF step
  <2> QED
    BY <2>1, <2>3, <1>4
<1>6. f = [i \in 1..N |-> IF i = 1 THEN seqs[i] ELSE f[i - 1] \o seqs[i]]
  <2>1. \A i \in 1..N : f[i] = IF i = 1 THEN seqs[i] ELSE f[i - 1] \o seqs[i]
    BY <1>4, <1>5
  <2> QED
    BY <1>4, <2>1
<1>7. w = [i \in 1..N |-> IF i = 1 THEN seqs[i] ELSE w[i - 1] \o seqs[i]]
  BY <1>6
<1>8. FlattenSeq(seqs) = w[N]
  BY DEF FlattenSeq
<1> HIDE DEF w
<1>9. \A k \in 1..N : w[k] = IF k = 1 THEN seqs[k] ELSE w[k - 1] \o seqs[k]
  BY <1>7, Zenon
<1>10. 1 \in 1..N /\ \A k \in 2..N : k \in 1..N /\ k # 1
  BY <1>1
<1>11. w[1] = seqs[1] /\ \A k \in 2..N : w[k] = w[k - 1] \o seqs[k]
  BY <1>9, <1>10, Zenon
<1> QED
  BY <1>8, <1>11

\* A sequence of sequences flattened has their elements.
LEMMA FlattenRange ==
  ASSUME NEW T, NEW seqs \in Seq(Seq(T))
  PROVE  /\ FlattenSeq(seqs) \in Seq(T)
         /\ ToSet(FlattenSeq(seqs)) = UNION {ToSet(seqs[i]) : i \in 1..Len(seqs)}
<1> DEFINE N == Len(seqs)
<1>1. CASE N = 0
  <2>1. FlattenSeq(seqs) = seqs
    BY <1>1 DEF FlattenSeq
  <2>2. seqs \in Seq(T) /\ DOMAIN seqs = {}
    BY <1>1
  <2>3. ToSet(seqs) = {} /\ 1..Len(seqs) = {}
    BY <1>1, <2>2 DEF ToSet
  <2> QED
    BY <2>1, <2>2, <2>3
<1>2. CASE N # 0
  <2>1. N \in Nat \ {0} /\ seqs[1] \in Seq(T) /\ \A i \in 1..N : seqs[i] \in Seq(T)
    BY <1>2
  <2>2. PICK w : /\ FlattenSeq(seqs) = w[N] /\ w[1] = seqs[1]
                 /\ \A k \in 2..N : w[k] = w[k - 1] \o seqs[k]
    BY <1>2, FlattenSteps
  <2> DEFINE Good(n) == w[n] \in Seq(T) /\ ToSet(w[n]) = UNION {ToSet(seqs[i]) : i \in 1..n}
             G == {n \in 1..N : Good(n)}
             P == (Nat \ (1..N)) \cup G
  <2>8. ASSUME 1 \in 1..N PROVE Good(1)
    <3>1. w[1] = seqs[1] /\ seqs[1] \in Seq(T)
      BY <2>1, <2>2
    <3>2. 1..1 = {1}
      OBVIOUS
    <3>3. UNION {ToSet(seqs[i]) : i \in {1}} = ToSet(seqs[1])
      OBVIOUS
    <3> QED
      BY <3>1, <3>2, <3>3
  <2>9. ASSUME NEW m \in 1..N, NEW n \in 1..N, m = n + 1, Good(n) PROVE Good(m)
    <3>1. m # 1 /\ m - 1 = n
      BY <2>9
    <3>2. m \in 2..N
      BY <2>9, <3>1
    <3>2a. w[m] = w[n] \o seqs[m]
      BY <3>1, <3>2, <2>2, Zenon
    <3>3. 1..m = (1..n) \cup {m}
      BY <2>9
    <3>4. w[n] \in Seq(T) /\ seqs[m] \in Seq(T)
      BY <2>9, <2>1
    <3>5. w[m] \in Seq(T) /\ ToSet(w[m]) = ToSet(w[n]) \cup ToSet(seqs[m])
      BY <3>2a, <3>4, ConcatRange
    <3>6. UNION {ToSet(seqs[i]) : i \in (1..n) \cup {m}}
             = (UNION {ToSet(seqs[i]) : i \in 1..n}) \cup ToSet(seqs[m])
      OBVIOUS
    <3> QED
      BY <2>9, <3>3, <3>5, <3>6
  <2> HIDE DEF Good
  <2>10. \A n \in Nat : n \in P => n + 1 \in P
    <3> SUFFICES ASSUME NEW n \in Nat, n \in P, n + 1 \in 1..N PROVE n + 1 \in G
      OBVIOUS
    <3>1. CASE n = 0
      <4>1. 1 \in 1..N /\ n + 1 = 1
        BY <3>1
      <4> QED
        BY <4>1, <2>8
    <3>2. CASE n # 0
      <4>1. n \in 1..N /\ n \in G
        BY <3>2
      <4>2. Good(n)
        BY <4>1
      <4> QED
        BY <4>1, <4>2, <2>9
    <3> QED
      BY <3>1, <3>2
  <2>11. 0 \in P
    OBVIOUS
  <2> HIDE DEF P, G
  <2>12a. N \in P
    BY <2>1, <2>10, <2>11, NumberInduction
  <2>12. Good(N)
    BY <2>1, <2>12a DEF P, G
  <2> QED
    BY <2>2, <2>12 DEF Good
<1> QED
  BY <1>1, <1>2

\* R is a strict order of the members of S that tells any two of them apart.
Orders(R, S) ==
    /\ \A i, j \in S : <<i, j>> \in R => <<j, i>> \notin R
    /\ \A i, j \in S : i # j => <<i, j>> \in R \/ <<j, i>> \in R
    /\ \A i, j, k \in S : <<i, j>> \in R /\ <<j, k>> \in R => <<i, k>> \in R

\* To arrange a set is to lose no member of it, to add none, and to put them in order.
LEMMA ArrangedRange ==
  ASSUME NEW S, IsFiniteSet(S), NEW R, Orders(R, S)
  PROVE  /\ Arranged(S, R) \in Seq(S) /\ Len(Arranged(S, R)) = Cardinality(S) /\ ToSet(Arranged(S, R)) = S
         /\ \A k, m \in 1..Len(Arranged(S, R)) : k < m => <<Arranged(S, R)[k], Arranged(S, R)[m]>> \in R
<1> DEFINE n == Cardinality(S)
           Preds(i) == {j \in S : <<j, i>> \in R}
           rank == [i \in S |-> Cardinality(Preds(i))]
<1>1. n \in Nat
  BY FS_CardinalityType
<1>2. ASSUME NEW i \in S PROVE /\ IsFiniteSet(Preds(i))
                               /\ Cardinality(Preds(i)) \in 0..(n - 1)
  <2>1. i \notin Preds(i)
    BY DEF Orders
  <2>2. IsFiniteSet(S \ {i}) /\ Cardinality(S \ {i}) = n - 1
    BY FS_RemoveElement
  <2>3. Preds(i) \in SUBSET (S \ {i})
    BY <2>1
  <2>4. IsFiniteSet(Preds(i)) /\ Cardinality(Preds(i)) <= Cardinality(S \ {i})
    BY <2>2, <2>3, FS_Subset
  <2>5. Cardinality(Preds(i)) \in Nat
    BY <2>4, FS_CardinalityType
  <2> QED
    BY <1>1, <2>2, <2>4, <2>5
<1>3. ASSUME NEW i \in S, NEW j \in S, <<i, j>> \in R
      PROVE  Cardinality(Preds(i)) < Cardinality(Preds(j))
  <2>1. i \notin Preds(i)
    BY DEF Orders
  <2>2. Preds(i) \cup {i} \in SUBSET Preds(j)
    BY <1>3 DEF Orders
  <2>3. /\ IsFiniteSet(Preds(i) \cup {i})
        /\ Cardinality(Preds(i) \cup {i}) = Cardinality(Preds(i)) + 1
    BY <1>2, <2>1, FS_AddElement
  <2>4. Cardinality(Preds(i) \cup {i}) <= Cardinality(Preds(j))
    BY <1>2, <2>2, FS_Subset
  <2> HIDE DEF Preds, n
  <2>5. Cardinality(Preds(i)) \in Int /\ Cardinality(Preds(j)) \in Int
    BY <1>2
  <2> QED
    BY <2>3, <2>4, <2>5
<1>4. ASSUME NEW i \in S, NEW j \in S, rank[i] = rank[j] PROVE i = j
  <2>1. Cardinality(Preds(i)) \in Int /\ Cardinality(Preds(i)) = Cardinality(Preds(j))
    BY <1>2, <1>4
  <2>2. <<i, j>> \notin R /\ <<j, i>> \notin R
    BY <1>3, <2>1
  <2> QED
    BY <2>2 DEF Orders
<1>5. rank \in [S -> 0..(n - 1)]
  BY <1>2
<1>6. IsFiniteSet(0..(n - 1)) /\ Cardinality(0..(n - 1)) = n
  BY <1>1, FS_Interval
<1> HIDE DEF n, rank, Preds
<1>7. rank \in Injection(S, 0..(n - 1))
  <2>1. \A i, j \in S : rank[i] = rank[j] => i = j
    BY <1>4
  <2> QED
    BY <2>1, <1>5 DEF Injection, IsInjective
<1>8. rank \in Surjection(S, 0..(n - 1))
  <2>1. Cardinality(S) = Cardinality(0..(n - 1)) <=> rank \in Surjection(S, 0..(n - 1))
    BY <1>6, <1>7, FS_Injection
  <2> QED
    BY <1>6, <2>1 DEF n
<1>9. ASSUME NEW k \in 1..n PROVE \E i \in S : rank[i] = k - 1
  <2>1. k - 1 \in 0..(n - 1)
    BY <1>1
  <2> QED
    BY <1>8, <2>1 DEF Surjection
<1> DEFINE at == Arranged(S, R)
<1>10. at = [k \in 1..n |-> at[k]] /\ \A k \in 1..n : at[k] = CHOOSE i \in S : rank[i] = k - 1
  <2>1. \A i \in S : rank[i] = Cardinality({j \in S : <<j, i>> \in R})
    BY DEF rank, Preds
  <2> DEFINE Placed(k) == CHOOSE i \in S : Cardinality({j \in S : <<j, i>> \in R}) = k - 1
  <2>2. at = [k \in 1..n |-> Placed(k)]
    BY DEF Arranged, n
  <2> HIDE DEF at, Placed
  <2>3. ASSUME NEW k \in 1..n PROVE at[k] = CHOOSE i \in S : rank[i] = k - 1
    <3>1. at[k] = CHOOSE i \in S : Cardinality({j \in S : <<j, i>> \in R}) = k - 1
      BY <2>2, Zenon DEF Placed
    <3>2. \A i : (i \in S /\ Cardinality({j \in S : <<j, i>> \in R}) = k - 1) <=> (i \in S /\ rank[i] = k - 1)
      BY <2>1
    <3>3. (CHOOSE i \in S : Cardinality({j \in S : <<j, i>> \in R}) = k - 1)
             = CHOOSE i \in S : rank[i] = k - 1
      BY <3>2, Zenon
    <3> QED
      BY <3>1, <3>3
  <2>4. at = [k \in 1..n |-> at[k]]
    BY <2>2
  <2> QED
    BY <2>3, <2>4
<1> HIDE DEF at
<1>11. \A k \in 1..n : at[k] \in S /\ rank[at[k]] = k - 1
  BY <1>9, <1>10
<1>12. at \in Seq(S) /\ Len(at) = n /\ DOMAIN at = 1..n
  BY <1>1, <1>10, <1>11
<1>13. ASSUME NEW i \in S PROVE \E k \in 1..n : at[k] = i
  <2>1. rank[i] \in 0..(n - 1)
    BY <1>5
  <2>2. PICK k \in 1..n : k - 1 = rank[i]
    <3>1. rank[i] + 1 \in 1..n /\ (rank[i] + 1) - 1 = rank[i]
      BY <1>1, <2>1
    <3> QED
      BY <3>1
  <2>3. at[k] \in S /\ rank[at[k]] = rank[i]
    BY <1>11, <2>2
  <2> QED
    BY <1>4, <2>3
<1>14. ToSet(at) = S
  BY <1>11, <1>12, <1>13 DEF ToSet
<1>15. ASSUME NEW k \in 1..n, NEW m \in 1..n, k < m PROVE <<at[k], at[m]>> \in R
  <2>1. at[k] \in S /\ at[m] \in S /\ rank[at[k]] = k - 1 /\ rank[at[m]] = m - 1
    BY <1>11
  <2>2. at[k] # at[m]
    BY <1>1, <1>15, <2>1
  <2>3. ASSUME <<at[m], at[k]>> \in R PROVE FALSE
    <3>1. rank[at[m]] < rank[at[k]]
      BY <1>3, <2>1, <2>3 DEF rank
    <3> QED
      BY <1>1, <1>15, <2>1, <3>1
  <2> QED
    BY <2>1, <2>2, <2>3 DEF Orders
<1> QED
  BY <1>12, <1>14, <1>15 DEF at, n

\* The elements of a sequence in another order of their indices.
LEMMA PickedRange ==
  ASSUME NEW T, NEW s \in Seq(T), NEW order \in Seq(1..Len(s))
  PROVE  /\ [k \in 1..Len(order) |-> s[order[k]]] \in Seq(T)
         /\ ToSet([k \in 1..Len(order) |-> s[order[k]]]) = {s[i] : i \in ToSet(order)}
<1> DEFINE r == [k \in 1..Len(order) |-> s[order[k]]]
<1>1. Len(order) \in Nat /\ DOMAIN order = 1..Len(order) /\ \A k \in 1..Len(order) : order[k] \in 1..Len(s)
  OBVIOUS
<1>2. \A i \in 1..Len(s) : s[i] \in T
  OBVIOUS
<1>3. r \in Seq(T)
  BY <1>1, <1>2
<1>4. ToSet(r) = {s[order[k]] : k \in 1..Len(order)}
  BY <1>1 DEF ToSet
<1>5. ToSet(order) = {order[k] : k \in 1..Len(order)}
  BY <1>1 DEF ToSet
<1>6. {s[i] : i \in {order[k] : k \in 1..Len(order)}} = {s[order[k]] : k \in 1..Len(order)}
  OBVIOUS
<1> QED
  BY <1>3, <1>4, <1>5, <1>6

\* Elements that stand somewhere on their page.
Standing(els) == \A i \in 1..Len(els) : els[i].top \in Int /\ els[i].left \in Int

\* The order of the tops, the lefts and the places is a total one.
LEMMA SoonerOrders ==
  ASSUME NEW els, Standing(els), Len(els) \in Nat, NEW band \in SUBSET (1..Len(els))
  PROVE  Orders(Sooner(els), band)
<1>1. ASSUME NEW i \in band, NEW j \in band
      PROVE  <<i, j>> \in Sooner(els)
               <=> Before(els[i], els[j]) \/ (~Before(els[j], els[i]) /\ i < j)
  <2>1. <<i, j>> \in (1..Len(els)) \X (1..Len(els))
    OBVIOUS
  <2> QED
    BY <2>1 DEF Sooner
<1>2. \A i \in band : i \in Int /\ els[i].top \in Int /\ els[i].left \in Int
  BY DEF Standing
<1> DEFINE Less(i, j) == \/ els[i].top < els[j].top
                         \/ els[i].top = els[j].top /\ els[i].left < els[j].left
                         \/ els[i].top = els[j].top /\ els[i].left = els[j].left /\ i < j
<1>3. ASSUME NEW i \in band, NEW j \in band PROVE <<i, j>> \in Sooner(els) <=> Less(i, j)
  BY <1>1, <1>2 DEF Before
<1>4. ASSUME NEW i \in band, NEW j \in band PROVE Less(i, j) => ~Less(j, i)
  BY <1>2
<1>5. ASSUME NEW i \in band, NEW j \in band PROVE i # j => Less(i, j) \/ Less(j, i)
  BY <1>2
<1>6. ASSUME NEW i \in band, NEW j \in band, NEW k \in band PROVE Less(i, j) /\ Less(j, k) => Less(i, k)
  BY <1>2
<1>7. \A i, j \in band : <<i, j>> \in Sooner(els) => <<j, i>> \notin Sooner(els)
  BY <1>3, <1>4
<1>8. \A i, j \in band : i # j => <<i, j>> \in Sooner(els) \/ <<j, i>> \in Sooner(els)
  BY <1>3, <1>5
<1>9. \A i, j, k \in band :
         <<i, j>> \in Sooner(els) /\ <<j, k>> \in Sooner(els) => <<i, k>> \in Sooner(els)
  BY <1>3, <1>6
<1> QED
  BY <1>7, <1>8, <1>9 DEF Orders

\* The elements of a band in rows: none is lost, none added.
LEMMA RowOrderRange ==
  ASSUME NEW els, Standing(els), Len(els) \in Nat, NEW band \in SUBSET (1..Len(els))
  PROVE  RowOrder(els, band) \in Seq(band) /\ ToSet(RowOrder(els, band)) = band
<1> DEFINE sorted == Arranged(band, Sooner(els))
           N == Len(sorted)
           places == 1..N
           first == CHOOSE f : f = [k \in places |->
                       IF k = 1 THEN 1
                       ELSE IF els[sorted[k]].top - els[sorted[f[k - 1]]].top > RowGap THEN k ELSE f[k - 1]]
           left(k) == els[sorted[k]].left
           along == {p \in places \X places :
                       \/ first[p[1]] < first[p[2]]
                       \/ /\ first[p[1]] = first[p[2]]
                          /\ left(p[1]) < left(p[2]) \/ (left(p[1]) = left(p[2]) /\ p[1] < p[2])}
           order == Arranged(places, along)
<1>1. RowOrder(els, band) = [k \in 1..N |-> sorted[order[k]]]
  BY DEF RowOrder
<1>2. IsFiniteSet(band)
  <2>1. IsFiniteSet(1..Len(els))
    BY FS_Interval
  <2> QED
    BY <2>1, FS_Subset
<1>3. sorted \in Seq(band) /\ ToSet(sorted) = band
  BY <1>2, SoonerOrders, ArrangedRange
<1> HIDE DEF sorted
<1>3a. N \in Nat /\ \A k \in places : sorted[k] \in band
  BY <1>3
<1>4. N \in Nat /\ \A k \in places : sorted[k] \in band /\ sorted[k] \in 1..Len(els)
  BY <1>3a
<1>5. ASSUME NEW k \in places PROVE first[k] \in places
  <2> DEFINE step == [p \in places \X (1..N) |->
                        IF els[sorted[p[2]]].top - els[sorted[p[1]]].top > RowGap THEN p[2] ELSE p[1]]
  <2>1. N \in Nat \ {0} /\ 1 \in places
    BY <1>4
  <2>2. step \in Stepping(places, N)
    BY DEF Stepping
  <2> HIDE DEF step, places, N
  <2>3. PICK f : RecursiveFromOne(f, N, places, 1, step)
    BY <2>1, <2>2, RecursionFromOne
  <2> USE DEF places, N
  <2>4. ASSUME NEW m \in places, m # 1
        PROVE  f[m] = IF els[sorted[m]].top - els[sorted[f[m - 1]]].top > RowGap THEN m ELSE f[m - 1]
    <3>1. m \in 2..N /\ m - 1 \in 1..N
      BY <2>1, <2>4
    <3>2. <<f[m - 1], m>> \in places \X (1..N)
      BY <3>1, <2>3 DEF RecursiveFromOne
    <3>3. step[<<f[m - 1], m>>]
            = IF els[sorted[m]].top - els[sorted[f[m - 1]]].top > RowGap THEN m ELSE f[m - 1]
      BY <3>2 DEF step
    <3> QED
      BY <3>1, <3>3, <2>3 DEF RecursiveFromOne
  <2>5. f[1] = 1 /\ f = [m \in places |-> f[m]]
    BY <2>3 DEF RecursiveFromOne
  <2> HIDE DEF N
  <2>6. f = [m \in places |->
               IF m = 1 THEN 1
               ELSE IF els[sorted[m]].top - els[sorted[f[m - 1]]].top > RowGap THEN m ELSE f[m - 1]]
    <3>1. \A m \in places : f[m] = IF m = 1 THEN 1
               ELSE IF els[sorted[m]].top - els[sorted[f[m - 1]]].top > RowGap THEN m ELSE f[m - 1]
      BY <2>4, <2>5
    <3> QED
      BY <2>5, <3>1
  <2>7. first = [m \in places |->
               IF m = 1 THEN 1
               ELSE IF els[sorted[m]].top - els[sorted[first[m - 1]]].top > RowGap THEN m ELSE first[m - 1]]
    BY <2>6
  <2> HIDE DEF first
  <2> USE DEF N
  <2> DEFINE g == [m \in Nat |-> first[m + 1]]
  <2>8. PICK M \in Nat : M + 1 = N
    BY <2>1
  <2>9. g[0] \in places
    BY <2>1, <2>7
  <2>10. ASSUME NEW m \in 1..M, g[m - 1] \in places PROVE g[m] \in places
    <3>1. m + 1 \in places /\ m + 1 # 1 /\ (m + 1) - 1 = m /\ (m - 1) + 1 = m /\ m - 1 \in Nat
      BY <2>8
    <3>2. first[m] \in places
      BY <2>10, <3>1
    <3>3. first[m + 1] = IF els[sorted[m + 1]].top - els[sorted[first[m]]].top > RowGap THEN m + 1 ELSE first[m]
      BY <2>7, <3>1
    <3>4. first[m + 1] \in places
      BY <3>1, <3>2, <3>3
    <3> QED
      BY <3>4
  <2> HIDE DEF g
  <2>11. \A m \in 0..M : g[m] \in places
    BY <2>9, <2>10, RecursionStays
  <2>12. k - 1 \in 0..M /\ (k - 1) + 1 = k /\ k - 1 \in Nat
    BY <2>8
  <2> QED
    BY <2>11, <2>12 DEF g
<1> HIDE DEF first
<1>6. ASSUME NEW k \in places PROVE k \in Int /\ first[k] \in Int /\ left(k) \in Int
  BY <1>4, <1>5 DEF Standing
<1> HIDE DEF left
<1>7. ASSUME NEW k \in places, NEW l \in places
      PROVE  <<k, l>> \in along <=>
                \/ first[k] < first[l]
                \/ /\ first[k] = first[l]
                   /\ left(k) < left(l) \/ (left(k) = left(l) /\ k < l)
  OBVIOUS
<1> HIDE DEF along
<1>8. Orders(along, places)
  <2>1. \A k, l \in places : <<k, l>> \in along => <<l, k>> \notin along
    BY <1>6, <1>7
  <2>2. \A k, l \in places : k # l => <<k, l>> \in along \/ <<l, k>> \in along
    BY <1>6, <1>7
  <2>3. \A k, l, m \in places : <<k, l>> \in along /\ <<l, m>> \in along => <<k, m>> \in along
    BY <1>6, <1>7
  <2> QED
    BY <2>1, <2>2, <2>3 DEF Orders
<1>9. IsFiniteSet(places) /\ Cardinality(places) = N
  <2>1. N \in Nat /\ (IF 1 > N THEN 0 ELSE N - 1 + 1) = N
    BY <1>4
  <2> HIDE DEF N
  <2> QED
    BY <2>1, FS_Interval
<1>10. order \in Seq(places) /\ ToSet(order) = places /\ Len(order) = N
  BY <1>8, <1>9, ArrangedRange
<1> HIDE DEF order
<1>11. /\ [k \in 1..Len(order) |-> sorted[order[k]]] \in Seq(band)
       /\ ToSet([k \in 1..Len(order) |-> sorted[order[k]]]) = {sorted[i] : i \in ToSet(order)}
  BY <1>3, <1>10, PickedRange
<1>12. {sorted[i] : i \in places} = ToSet(sorted)
  BY <1>3 DEF ToSet
<1> QED
  BY <1>1, <1>3, <1>10, <1>11, <1>12

\* A sequence of members of S is one of members of what S is part of.
LEMMA SeqWider ==
  ASSUME NEW S, NEW T, S \subseteq T, NEW s \in Seq(S) PROVE s \in Seq(T)
<1>1. Len(s) \in Nat /\ s = [i \in 1..Len(s) |-> s[i]] /\ \A i \in 1..Len(s) : s[i] \in S
  OBVIOUS
<1>2. \A i \in 1..Len(s) : s[i] \in T
  BY <1>1
<1> QED
  BY <1>1, <1>2

\* The elements of a page in reading order are the elements of the page.
LEMMA ReadingOrderRange ==
  ASSUME NEW T, NEW els \in Seq(T), Standing(els), NEW labels
  PROVE  ReadingOrder(els, labels) \in Seq(T) /\ ToSet(ReadingOrder(els, labels)) = ToSet(els)
<1> DEFINE all == 1..Len(els)
           left == {i \in all : IsLeft(els[i])}
           right == {i \in all : IsRight(els[i])}
           dividers == Arranged(all \ (left \cup right), Sooner(els))
           above(n) == {i \in left \cup right : n <= Len(dividers) => els[i].top < els[dividers[n]].top}
           band(n) == above(n) \ UNION {above(m) : m \in 1..(n - 1)}
           order_band(b) ==
              IF labels THEN RowOrder(els, b)
              ELSE RowOrder(els, b \cap left) \o RowOrder(els, b \cap right)
           parts == [n \in 1..Len(dividers) |-> order_band(band(n)) \o <<dividers[n]>>]
           order == IF Cardinality(left) < 2 \/ Cardinality(right) < 2 THEN RowOrder(els, all)
                    ELSE FlattenSeq(parts) \o order_band(band(Len(dividers) + 1))
<1>1. ReadingOrder(els, labels) = [k \in 1..Len(order) |-> els[order[k]]]
  BY DEF ReadingOrder, Each
<1>2. Len(els) \in Nat
  OBVIOUS
<1>3. left \in SUBSET all /\ right \in SUBSET all /\ \A n : above(n) \in SUBSET (left \cup right)
  OBVIOUS
<1>4. \A n : band(n) \in SUBSET (left \cup right)
  OBVIOUS
<1>5. dividers \in Seq(all \ (left \cup right)) /\ ToSet(dividers) = all \ (left \cup right)
  <2>1. IsFiniteSet(all)
    BY <1>2, FS_Interval
  <2>2. all \ (left \cup right) \in SUBSET all
    OBVIOUS
  <2>3. IsFiniteSet(all \ (left \cup right))
    BY <2>1, <2>2, FS_Subset
  <2> HIDE DEF left, right
  <2>4. Orders(Sooner(els), all \ (left \cup right))
    BY <1>2, <2>2, SoonerOrders
  <2> QED
    BY <2>3, <2>4, ArrangedRange
<1> DEFINE M == Len(dividers)
<1>5a. M \in Nat /\ DOMAIN dividers = 1..M /\ \A n \in 1..M : dividers[n] \in all \ (left \cup right)
  <2> HIDE DEF left, right, dividers, all
  <2> QED
    BY <1>5
<1>6. M \in Nat /\ DOMAIN dividers = 1..M /\ \A n \in 1..M : dividers[n] \in all
  <2> HIDE DEF left, right, dividers, all
  <2> QED
    BY <1>5a
<1> HIDE DEF left, right, dividers, above
\* Every element of a column is in some band.
<1>7. ASSUME NEW i \in left \cup right PROVE \E n \in 1..(M + 1) : i \in band(n)
  <2> DEFINE S == {n \in 1..(M + 1) : i \in above(n)}
  <2>1. M + 1 \in S
    BY <1>6, <1>7 DEF above
  <2>2. S \in SUBSET Nat /\ S # {}
    BY <2>1
  <2> DEFINE n == Min(S)
  <2>3. n \in S /\ \A m \in S : n <= m
    BY <2>2, LeastOf
  <2> HIDE DEF n
  <2>4. ASSUME NEW m \in 1..(n - 1) PROVE i \notin above(m)
    <3>1. m \in 1..(M + 1) /\ ~(n <= m)
      BY <1>6, <2>3
    <3> QED
      BY <3>1, <2>3
  <2>5. i \in band(n) /\ n \in 1..(M + 1)
    BY <2>3, <2>4
  <2> QED
    BY <2>5
<1> HIDE DEF band
<1>8. ASSUME NEW b \in SUBSET (left \cup right)
      PROVE  order_band(b) \in Seq(all) /\ ToSet(order_band(b)) = b
  <2>1. ASSUME NEW c \in SUBSET all PROVE RowOrder(els, c) \in Seq(all) /\ ToSet(RowOrder(els, c)) = c
    <3>1. RowOrder(els, c) \in Seq(c) /\ ToSet(RowOrder(els, c)) = c
      BY <1>2, RowOrderRange
    <3> HIDE DEF all
    <3> QED
      BY <3>1, SeqWider
  <2>2. b \in SUBSET all /\ b \cap left \in SUBSET all /\ b \cap right \in SUBSET all
    BY <1>3
  <2>3. CASE labels
    BY <2>1, <2>2, <2>3
  <2>4. CASE ~labels
    <3>1. /\ RowOrder(els, b \cap left) \o RowOrder(els, b \cap right) \in Seq(all)
          /\ ToSet(RowOrder(els, b \cap left) \o RowOrder(els, b \cap right))
                = ToSet(RowOrder(els, b \cap left)) \cup ToSet(RowOrder(els, b \cap right))
      BY <2>1, <2>2, ConcatRange
    <3>2. ToSet(order_band(b)) = (b \cap left) \cup (b \cap right)
      BY <2>1, <2>2, <2>4, <3>1
    <3> QED
      BY <2>4, <3>1, <3>2
  <2> QED
    BY <2>3, <2>4
<1> HIDE DEF order_band
<1>9. ASSUME NEW n \in 1..M
      PROVE  parts[n] \in Seq(all) /\ ToSet(parts[n]) = band(n) \cup {dividers[n]}
  <2>1. parts[n] = order_band(band(n)) \o <<dividers[n]>>
    OBVIOUS
  <2>2. <<dividers[n]>> \in Seq(all) /\ ToSet(<<dividers[n]>>) = {dividers[n]}
    BY <1>6 DEF ToSet
  <2>3. order_band(band(n)) \in Seq(all) /\ ToSet(order_band(band(n))) = band(n)
    BY <1>4, <1>8
  <2> DEFINE s == order_band(band(n))
             t == <<dividers[n]>>
  <2>4. s \in Seq(all) /\ t \in Seq(all) /\ parts[n] = s \o t
    BY <2>1, <2>2, <2>3
  <2>5. ToSet(s) = band(n) /\ ToSet(t) = {dividers[n]}
    BY <2>2, <2>3
  <2> HIDE DEF parts, all, s, t
  <2>6. s \o t \in Seq(all) /\ ToSet(s \o t) = ToSet(s) \cup ToSet(t)
    BY <2>4, ConcatRange
  <2> QED
    BY <2>4, <2>5, <2>6
<1>10. parts \in Seq(Seq(all)) /\ Len(parts) = M
  <2>1. parts = [n \in 1..M |-> parts[n]]
    OBVIOUS
  <2> HIDE DEF parts, all, M
  <2> QED
    BY <1>6, <1>9, <2>1, SMTT(30)
<1> DEFINE rest == order_band(band(M + 1))
<1>11. FlattenSeq(parts) \o rest \in Seq(all) /\ ToSet(FlattenSeq(parts) \o rest) = all
  <2> HIDE DEF parts, all
  <2>1. FlattenSeq(parts) \in Seq(all) /\ ToSet(FlattenSeq(parts)) = UNION {ToSet(parts[n]) : n \in 1..M}
    BY <1>10, FlattenRange
  <2>2. rest \in Seq(all) /\ ToSet(rest) = band(M + 1)
    BY <1>4, <1>8
  <2>3. ToSet(FlattenSeq(parts) \o rest) = (UNION {ToSet(parts[n]) : n \in 1..M}) \cup band(M + 1)
    BY <2>1, <2>2, ConcatRange
  <2>4. UNION {ToSet(parts[n]) : n \in 1..M} = UNION {band(n) \cup {dividers[n]} : n \in 1..M}
    BY <1>9
  <2>5. ToSet(dividers) = {dividers[n] : n \in 1..M}
    BY <1>6 DEF ToSet
  <2>6. ASSUME NEW i \in all PROVE i \in ToSet(FlattenSeq(parts) \o rest)
    <3>1. CASE i \in left \cup right
      <4>1. PICK n \in 1..(M + 1) : i \in band(n)
        BY <1>7, <3>1
      <4>2. n \in 1..M \/ n = M + 1
        BY <1>6
      <4> QED
        BY <2>3, <2>4, <4>1, <4>2
    <3>2. CASE i \notin left \cup right
      <4>1. i \in ToSet(dividers)
        BY <1>5, <3>2
      <4>2. PICK n \in 1..M : i = dividers[n]
        BY <2>5, <4>1
      <4>3. i \in band(n) \cup {dividers[n]}
        BY <4>2
      <4>4. i \in UNION {band(m) \cup {dividers[m]} : m \in 1..M}
        BY <4>3
      <4> QED
        BY <2>3, <2>4, <4>4
    <3> QED
      BY <3>1, <3>2
  <2>7. FlattenSeq(parts) \o rest \in Seq(all)
    BY <2>1, <2>2, ConcatRange
  <2>8. \A n : band(n) \in SUBSET all
    BY <1>3, <1>4
  <2>9. ToSet(FlattenSeq(parts) \o rest) \in SUBSET all
    BY <1>6, <2>3, <2>4, <2>8
  <2> QED
    BY <2>6, <2>7, <2>9
<1>12. order \in Seq(all) /\ ToSet(order) = all
  <2>1. RowOrder(els, all) \in Seq(all) /\ ToSet(RowOrder(els, all)) = all
    BY <1>2, RowOrderRange
  <2> HIDE DEF parts, all
  <2> QED
    BY <1>11, <2>1
<1> HIDE DEF order
<1>13. /\ [k \in 1..Len(order) |-> els[order[k]]] \in Seq(T)
       /\ ToSet([k \in 1..Len(order) |-> els[order[k]]]) = {els[i] : i \in ToSet(order)}
  BY <1>12, PickedRange
<1>14. {els[i] : i \in all} = ToSet(els)
  BY DEF ToSet
<1> QED
  BY <1>1, <1>12, <1>13, <1>14

(***************************************************************************)
(* What the steps of a loader are: the step and the pictures it names, and *)
(* what they account for.                                                  *)
(***************************************************************************)
ItemNames ==
    {"text", "line", "table", "tables", "image", "figure", "graphics", "page", "region", "layout",
     "object", "cells", "formats", "chart", "frame", "rows", "visual", "link"} \cup STRING
SourceItems == Int \X ItemNames \X Int

LoaderStep ==
    [op : {"emit", "omit", "layout", "see", "page", "raise"}, of : SUBSET SourceItems, box : Boxes,
     top : Int, left : Int, image : {<<>>} \cup SourceItems,
     how : {"none", "skip", "raise", "omit", "rows", "columns"}, at : {<<>>} \cup (Int \X Int)]

\* A step whose answer is passed over accounts for nothing, and the pictures the
\* layout model is asked about are none that the vision model is.
SoundSteps ==
    {s \in LoaderStep :
        /\ s.op \in {"layout", "page", "raise"} \/ s.how = "skip" => s.of = {}
        /\ s.op = "layout" => s.image \in SourceItems /\ s.image[2] = "layout"
        /\ s.op = "see" => s.image \in SourceItems /\ s.image[2] \notin {"layout", "result"}}

PlainSteps == {s \in SoundSteps : s.at = <<>>}

Accounted(steps) == UNION {steps[k].of : k \in 1..Len(steps)}
Raises(steps) == \E k \in 1..Len(steps) : steps[k].op = "raise"

\* The steps of a part of the file account for its items or refuse the file.
Accounts(steps, items) ==
    /\ steps \in Seq(PlainSteps)
    /\ Raises(steps) \/ items \subseteq Accounted(steps)

\* A new step is a step of a loader, for its items alone.
LEMMA StepFields ==
  ASSUME NEW op \in {"emit", "omit", "layout", "see", "page", "raise"}, NEW items \in SUBSET SourceItems
  PROVE  /\ Step(op, items) \in LoaderStep
         /\ Step(op, items).op = op /\ Step(op, items).of = items
         /\ Step(op, items).at = <<>> /\ Step(op, items).how = "none" /\ Step(op, items).image = <<>>
<1>1. Width \in Int
  BY LoadersAssumption
<1>2. <<0, 0, Width, 0>> \in Boxes
  BY <1>1 DEF Boxes
<1> QED
  BY <1>2 DEF Step, LoaderStep

\* An element or an omission is a plain step.
LEMMA Recorded ==
  ASSUME NEW op \in {"emit", "omit"}, NEW items \in SUBSET SourceItems
  PROVE  Step(op, items) \in PlainSteps /\ Step(op, items).of = items
<1> HIDE DEF Step
<1> QED
  BY StepFields DEF PlainSteps, SoundSteps, LoaderStep

\* So it is at its place on the page.
LEMMA PlacedStep ==
  ASSUME NEW step \in PlainSteps, NEW box \in Boxes
  PROVE  At(step, box) \in PlainSteps /\ At(step, box).of = step.of
<1>1. box[1] \in Int /\ box[2] \in Int
  BY DEF Boxes
<1>2. step \in LoaderStep
  BY DEF PlainSteps, SoundSteps
<1> DEFINE a == [step EXCEPT !.box = box]
           b == [a EXCEPT !.top = box[2]]
           c == [b EXCEPT !.left = box[1]]
<1>3. /\ a \in LoaderStep /\ a.op = step.op /\ a.of = step.of /\ a.at = step.at
      /\ a.how = step.how /\ a.image = step.image
  BY <1>2 DEF LoaderStep
<1> HIDE DEF a
<1>4. /\ b \in LoaderStep /\ b.op = a.op /\ b.of = a.of /\ b.at = a.at
      /\ b.how = a.how /\ b.image = a.image
  BY <1>1, <1>3 DEF LoaderStep
<1> HIDE DEF b
<1>5. /\ c \in LoaderStep /\ c.op = b.op /\ c.of = b.of /\ c.at = b.at
      /\ c.how = b.how /\ c.image = b.image
  BY <1>1, <1>4 DEF LoaderStep
<1>6. At(step, box) = c
  BY DEF At, a, b
<1> HIDE DEF c
<1> QED
  BY <1>3, <1>4, <1>5, <1>6 DEF PlainSteps, SoundSteps

\* A question to the vision model is named by the picture.
LEMMA SeeStep ==
  ASSUME NEW items \in SUBSET SourceItems, NEW image \in SourceItems,
         image[2] \notin {"layout", "result"},
         NEW how \in {"skip", "raise", "omit"}, how = "skip" => items = {}
  PROVE  See(items, image, how) \in PlainSteps /\ See(items, image, how).of = items
<1> DEFINE s == Step("see", items)
           a == [s EXCEPT !.image = image]
           b == [a EXCEPT !.how = how]
<1>1. /\ s \in LoaderStep /\ s.op = "see" /\ s.of = items /\ s.at = <<>> /\ s.how = "none"
  BY StepFields
<1> HIDE DEF s
<1>2. /\ a \in LoaderStep /\ a.op = "see" /\ a.of = items /\ a.at = <<>> /\ a.image = image
  BY <1>1 DEF LoaderStep
<1> HIDE DEF a
<1>3. /\ b \in LoaderStep /\ b.op = "see" /\ b.of = items /\ b.at = <<>> /\ b.image = image
      /\ b.how = how
  BY <1>2 DEF LoaderStep
<1>4. See(items, image, how) = b
  BY DEF See, a, s
<1> HIDE DEF b
<1> QED
  BY <1>3, <1>4 DEF PlainSteps, SoundSteps

\* A question for a layout is named by the page.
LEMMA LayoutStep ==
  ASSUME NEW image \in SourceItems, image[2] = "layout"
  PROVE  [Step("layout", {}) EXCEPT !.image = image] \in PlainSteps
<1> DEFINE s == Step("layout", {})
           a == [s EXCEPT !.image = image]
<1>1. s \in LoaderStep /\ s.op = "layout" /\ s.of = {} /\ s.at = <<>>
  BY StepFields
<1> HIDE DEF s
<1>2. a \in LoaderStep /\ a.op = "layout" /\ a.of = {} /\ a.at = <<>> /\ a.image = image
  BY <1>1 DEF LoaderStep
<1>3. a \in PlainSteps
  BY <1>2 DEF PlainSteps, SoundSteps
<1> QED
  BY <1>3 DEF s

\* The end of a page is a step for no item.
LEMMA PageStep ==
  ASSUME NEW how \in {"rows", "columns"}
  PROVE  [Step("page", {}) EXCEPT !.how = how] \in PlainSteps
<1> DEFINE s == Step("page", {})
           a == [s EXCEPT !.how = how]
<1>1. s \in LoaderStep /\ s.op = "page" /\ s.of = {} /\ s.at = <<>>
  BY StepFields
<1> HIDE DEF s
<1>2. a \in LoaderStep /\ a.op = "page" /\ a.of = {} /\ a.at = <<>>
  BY <1>1 DEF LoaderStep
<1>3. a \in PlainSteps
  BY <1>2 DEF PlainSteps, SoundSteps
<1> QED
  BY <1>3 DEF s

\* A refusal accounts for whatever there is.
LEMMA RefusalAccounts ==
  ASSUME NEW items
  PROVE  Accounts(Refuse, items)
<1> DEFINE s == Step("raise", {})
<1>1. s \in LoaderStep /\ s.op = "raise" /\ s.of = {} /\ s.at = <<>>
  BY StepFields
<1> HIDE DEF s
<1>2. s \in PlainSteps
  BY <1>1 DEF PlainSteps, SoundSteps
<1>3. <<s>> \in Seq(PlainSteps) /\ Raises(<<s>>)
  BY <1>1, <1>2 DEF Raises
<1>4. Refuse = <<s>>
  BY DEF Refuse, s
<1> QED
  BY <1>3, <1>4 DEF Accounts

\* One step accounts for what it names.
LEMMA OneStep ==
  ASSUME NEW step \in PlainSteps PROVE Accounts(<<step>>, step.of)
<1>1. <<step>> \in Seq(PlainSteps) /\ Len(<<step>>) = 1 /\ <<step>>[1] = step
  OBVIOUS
<1> QED
  BY <1>1 DEF Accounts, Accounted

\* No steps account for no items.
LEMMA NoStep == Accounts(<<>>, {})
<1>1. <<>> \in Seq(PlainSteps)
  OBVIOUS
<1> QED
  BY <1>1 DEF Accounts

\* Steps one after the other account for what either part does.
LEMMA StepsThenSteps ==
  ASSUME NEW s, NEW t, NEW a, NEW b, Accounts(s, a), Accounts(t, b)
  PROVE  Accounts(s \o t, a \cup b)
<1>1. s \in Seq(PlainSteps) /\ t \in Seq(PlainSteps)
  BY DEF Accounts
<1>2. /\ s \o t \in Seq(PlainSteps) /\ Len(s \o t) = Len(s) + Len(t)
      /\ Len(s) \in Nat /\ Len(t) \in Nat
  BY <1>1
<1>3. \A i \in 1..Len(s) : i \in 1..Len(s \o t) /\ (s \o t)[i] = s[i]
  BY <1>1, <1>2
<1>4. \A i \in 1..Len(t) : Len(s) + i \in 1..Len(s \o t) /\ (s \o t)[Len(s) + i] = t[i]
  BY <1>1, <1>2
<1> DEFINE u == s \o t
<1>5. u \in Seq(PlainSteps)
  BY <1>2
<1>6. /\ \A i \in 1..Len(s) : \E k \in 1..Len(u) : u[k] = s[i]
      /\ \A i \in 1..Len(t) : \E k \in 1..Len(u) : u[k] = t[i]
  <2>1. ASSUME NEW i \in 1..Len(s) PROVE \E k \in 1..Len(u) : u[k] = s[i]
    BY <1>3
  <2>2. ASSUME NEW i \in 1..Len(t) PROVE \E k \in 1..Len(u) : u[k] = t[i]
    BY <1>4
  <2> QED
    BY <2>1, <2>2
<1> HIDE DEF u
<1>7. Raises(s) \/ Raises(t) => Raises(u)
  BY <1>6 DEF Raises
<1>8. Accounted(s) \subseteq Accounted(u) /\ Accounted(t) \subseteq Accounted(u)
  BY <1>6 DEF Accounted
<1>9. Accounts(u, a \cup b)
  BY <1>5, <1>7, <1>8 DEF Accounts
<1> QED
  BY <1>9 DEF u

\* The steps of the parts, one part after the other, account for what they do.
LEMMA StepsOfParts ==
  ASSUME NEW n \in Nat, NEW F, F = [i \in 1..n |-> F[i]],
         NEW items, \A i \in 1..n : Accounts(F[i], items[i])
  PROVE  Accounts(FlattenSeq(F), UNION {items[i] : i \in 1..n})
<1>1. \A i \in 1..n : F[i] \in Seq(PlainSteps)
  BY DEF Accounts
<1>2. F \in Seq(Seq(PlainSteps)) /\ Len(F) = n
  <2>1. F \in [1..n -> Seq(PlainSteps)]
    BY <1>1
  <2> QED
    BY <2>1
<1> DEFINE s == FlattenSeq(F)
<1>3. s \in Seq(PlainSteps) /\ ToSet(s) = UNION {ToSet(F[i]) : i \in 1..n}
  BY <1>2, FlattenRange
<1> HIDE DEF s
<1>4. ASSUME NEW i \in 1..n, NEW j \in 1..Len(F[i]) PROVE \E k \in 1..Len(s) : s[k] = F[i][j]
  <2>1. F[i][j] \in ToSet(F[i])
    BY <1>1 DEF ToSet
  <2>2. F[i][j] \in ToSet(s)
    BY <1>3, <2>1
  <2> QED
    BY <1>3, <2>2 DEF ToSet
<1>5. ASSUME NEW i \in 1..n, Raises(F[i]) PROVE Raises(s)
  BY <1>4, <1>5 DEF Raises
<1>6. ASSUME NEW i \in 1..n PROVE Accounted(F[i]) \subseteq Accounted(s)
  BY <1>4 DEF Accounted
<1>7. Raises(s) \/ \A i \in 1..n : items[i] \subseteq Accounted(s)
  BY <1>5, <1>6 DEF Accounts
<1>8. Accounts(s, UNION {items[i] : i \in 1..n})
  BY <1>3, <1>7 DEF Accounts
<1> QED
  BY <1>8 DEF s

\* Whoever accounts for items accounts for any of them.
LEMMA FewerItems ==
  ASSUME NEW s, NEW a, NEW b, Accounts(s, a), b \subseteq a PROVE Accounts(s, b)
BY DEF Accounts

\* Each part of the file by its own steps.
LEMMA EachPart ==
  ASSUME NEW n \in Nat, NEW F, F = [i \in 1..n |-> F[i]], NEW items, 
         \A i \in 1..n : Accounts(F[i], items[i]), NEW wanted,
         \A x \in wanted : \E i \in 1..n : x \in items[i]
  PROVE  Accounts(FlattenSeq(F), wanted)
<1> DEFINE all == UNION {items[i] : i \in 1..n}
           s == FlattenSeq(F)
<1>1. wanted \subseteq all
  OBVIOUS
<1>2. Accounts(s, all)
  BY StepsOfParts
<1> HIDE DEF all, s
<1>3. Accounts(s, wanted)
  BY <1>1, <1>2, FewerItems
<1> QED
  BY <1>3 DEF s

\* What names an item.
LEMMA NamedItem ==
  ASSUME NEW a, a \in Int, NEW s, s \in ItemNames, NEW b, b \in Int PROVE <<a, s, b>> \in SourceItems
BY DEF SourceItems

\* The parts of a file that give their names to items.
LEMMA PartNames ==
    /\ {"text", "line", "table", "tables", "image", "figure", "graphics", "page", "region", "layout",
         "object", "cells", "formats", "chart", "frame", "rows", "visual", "link"} \subseteq ItemNames
    /\ STRING \subseteq ItemNames
BY DEF ItemNames

\* A picture is an omission or goes to the vision model.
LEMMA PictureAccounted ==
  ASSUME NEW b \in Int, NEW i \in Int, NEW readable
  PROVE  Accounts(<<PictureStep(b, i, readable)>>, {<<b, "image", i>>})
<1> DEFINE picture == <<b, "image", i>>
<1>a. picture[2] = "image"
  OBVIOUS
<1>b. picture \in SourceItems
  BY PartNames, NamedItem
<1> HIDE DEF picture
<1>1. picture \in SourceItems /\ picture[2] \notin {"layout", "result"} /\ {picture} \in SUBSET SourceItems
  BY <1>a, <1>b
<1>2. Omit({picture}) \in PlainSteps /\ Omit({picture}).of = {picture}
  BY <1>1, Recorded DEF Omit
<1>3. See({picture}, picture, "omit") \in PlainSteps /\ See({picture}, picture, "omit").of = {picture}
  BY <1>1, SeeStep
<1>4. Accounts(<<Omit({picture})>>, {picture}) /\ Accounts(<<See({picture}, picture, "omit")>>, {picture})
  BY <1>2, <1>3, OneStep
<1>5. PictureStep(b, i, readable) = IF readable THEN See({picture}, picture, "omit") ELSE Omit({picture})
  BY DEF picture, PictureStep
<1>6. CASE readable
  BY <1>4, <1>5, <1>6 DEF picture
<1>7. CASE ~readable
  BY <1>4, <1>5, <1>7 DEF picture
<1> QED
  BY <1>6, <1>7

LEMMA PicturesAccounted ==
  ASSUME NEW b \in Int, NEW pics \in Seq(BOOLEAN)
  PROVE  Accounts(PictureSteps(b, pics), {<<b, "image", i>> : i \in 1..Len(pics)})
<1> DEFINE F == [i \in 1..Len(pics) |-> <<PictureStep(b, i, pics[i])>>]
           items == [i \in 1..Len(pics) |-> {<<b, "image", i>>}]
<1>1. PictureSteps(b, pics) = FlattenSeq(F)
  BY DEF PictureSteps, Each
<1>2. ASSUME NEW i \in 1..Len(pics) PROVE Accounts(F[i], items[i])
  <2>1. i \in Int /\ F[i] = <<PictureStep(b, i, pics[i])>> /\ items[i] = {<<b, "image", i>>}
    OBVIOUS
  <2> HIDE DEF F, items
  <2>2. Accounts(<<PictureStep(b, i, pics[i])>>, {<<b, "image", i>>})
    BY <2>1, PictureAccounted
  <2> QED
    BY <2>1, <2>2
<1>3. F = [i \in 1..Len(pics) |-> F[i]] /\ Len(pics) \in Nat
  OBVIOUS
<1> DEFINE wanted == {<<b, "image", i>> : i \in 1..Len(pics)}
<1>4. \A x \in wanted : \E i \in 1..Len(pics) : x \in items[i]
  OBVIOUS
<1> HIDE DEF F, items, wanted
<1>5. Accounts(FlattenSeq(F), wanted)
  BY <1>2, <1>3, <1>4, EachPart
<1> QED
  BY <1>1, <1>5 DEF wanted

\* One omission for each of several items.
LEMMA OmissionsAccounted ==
  ASSUME NEW n \in Nat, NEW item, \A i \in 1..n : item[i] \in SourceItems
  PROVE  Accounts([i \in 1..n |-> Omit({item[i]})], {item[i] : i \in 1..n})
<1> DEFINE s == [i \in 1..n |-> Omit({item[i]})]
<1>1. ASSUME NEW i \in 1..n PROVE Omit({item[i]}) \in PlainSteps /\ Omit({item[i]}).of = {item[i]}
  <2>1. {item[i]} \in SUBSET SourceItems
    OBVIOUS
  <2> QED
    BY <2>1, Recorded DEF Omit
<1>2. s \in Seq(PlainSteps) /\ Len(s) = n
  BY <1>1
<1>3. \A i \in 1..n : s[i].of = {item[i]}
  BY <1>1
<1> HIDE DEF s
<1>4. {item[i] : i \in 1..n} \subseteq Accounted(s)
  BY <1>2, <1>3 DEF Accounted
<1>5. Accounts(s, {item[i] : i \in 1..n})
  BY <1>2, <1>4 DEF Accounts
<1> QED
  BY <1>5 DEF s

(***************************************************************************)
(* DOCX.                                                                   *)
(***************************************************************************)
\* Which pictures of an item of the body are read.
SeenIn(item) == {i \in 1..Len(item.pics) : item.kind = "tbl" \/ (item.kind = "p" /\ item.pics[i].direct)}

\* What is in an item of the body of a Word file, but what is passed over: its text,
\* its pictures, its objects.
LEMMA BodyAccounted ==
  ASSUME NEW b \in Int, NEW item \in BodyChildren
  PROVE  Accounts(BodySteps(item, b), BodyItems(item, b) \ BodyPassedOver(item, b))
<1> DEFINE text == BodyText(item, b)
           pic(i) == item.kind = "tbl" \/ (item.kind = "p" /\ item.pics[i].direct)
           s1 == IF item.kind # "other" /\ text # {} THEN <<Step("emit", text)>> ELSE <<>>
           a1 == IF item.kind # "other" THEN text ELSE {}
           F == [i \in 1..Len(item.pics) |-> IF pic(i) THEN <<PictureStep(b, i, item.pics[i].readable)>> ELSE <<>>]
           s2 == FlattenSeq(F)
           a2 == {<<b, "image", i>> : i \in SeenIn(item)}
           s3 == [i \in 1..item.boxes |-> Omit({<<b, "object", i>>})]
           a3 == {<<b, "object", i>> : i \in 1..item.boxes}
<1>0. /\ item.kind \in {"p", "tbl", "other"} /\ Len(item.pics) \in Nat /\ item.boxes \in Nat
      /\ item.text \in BOOLEAN /\ item.link \in BOOLEAN
  BY DEF BodyChildren
<1>1. Accounts(s1, a1)
  <2>0. <<b, "text", 0>> \in SourceItems /\ <<b, "link", 0>> \in SourceItems
    BY PartNames, NamedItem
  <2>1. text \in SUBSET SourceItems
    BY <2>0 DEF BodyText
  <2> HIDE DEF text
  <2>a. Step("emit", text) \in PlainSteps /\ Step("emit", text).of = text
    BY <2>1, Recorded
  <2>b. Accounts(<<Step("emit", text)>>, text)
    BY <2>a, OneStep
  <2> QED
    BY <2>b, NoStep
<1>2. Accounts(s2, a2)
  <2> DEFINE items == [i \in 1..Len(item.pics) |-> IF pic(i) THEN {<<b, "image", i>>} ELSE {}]
             n == Len(item.pics)
  <2>1. ASSUME NEW i \in 1..n PROVE Accounts(F[i], items[i])
    <3>1. /\ i \in Int
          /\ F[i] = IF pic(i) THEN <<PictureStep(b, i, item.pics[i].readable)>> ELSE <<>>
          /\ items[i] = IF pic(i) THEN {<<b, "image", i>>} ELSE {}
      BY <1>0
    <3> HIDE DEF F, items, pic
    <3>2. Accounts(<<PictureStep(b, i, item.pics[i].readable)>>, {<<b, "image", i>>})
      BY <3>1, PictureAccounted
    <3> QED
      BY <3>1, <3>2, NoStep
  <2>2. F = [i \in 1..n |-> F[i]] /\ n \in Nat
    BY <1>0
  <2>3. \A x \in a2 : \E i \in 1..n : x \in items[i]
    BY DEF SeenIn
  <2> HIDE DEF F, items, a2, n
  <2> QED
    BY <2>1, <2>2, <2>3, EachPart
<1>3. Accounts(s3, a3)
  <2> DEFINE name == [i \in 1..item.boxes |-> <<b, "object", i>>]
  <2>1. item.boxes \in Nat
    BY <1>0
  <2>2. \A i \in 1..item.boxes : name[i] \in SourceItems
    <3>1. ASSUME NEW i \in 1..item.boxes PROVE <<b, "object", i>> \in SourceItems
      <4>1. i \in Int
        BY <2>1
      <4> QED
        BY <4>1, PartNames, NamedItem
    <3> QED
      BY <3>1
  <2>3. s3 = [i \in 1..item.boxes |-> Omit({name[i]})] /\ a3 = {name[i] : i \in 1..item.boxes}
    OBVIOUS
  <2> HIDE DEF name, s3, a3
  <2>4. PICK n \in Nat : n = item.boxes
    BY <2>1
  <2>5. Accounts([i \in 1..n |-> Omit({name[i]})], {name[i] : i \in 1..n})
    BY <2>2, <2>4, OmissionsAccounted
  <2> QED
    BY <2>3, <2>4, <2>5
<1>4. BodySteps(item, b) = s1 \o s2 \o s3
  BY DEF BodySteps, Each
<1>a. BodyItems(item, b) \ BodyPassedOver(item, b) \subseteq a1 \cup a2 \cup a3
  <2>1. SUFFICES ASSUME NEW x \in BodyItems(item, b), x \notin BodyPassedOver(item, b) PROVE x \in a1 \cup a2 \cup a3
    OBVIOUS
  <2>2. CASE x \in a3
    BY <2>2
  <2>3. CASE x = <<b, "text", 0>> /\ item.text
    BY <2>1, <2>3 DEF BodyPassedOver, BodyItems, BodyText
  <2>4. CASE x = <<b, "link", 0>> /\ item.link
    BY <2>1, <2>4 DEF BodyPassedOver, BodyItems, BodyText
  <2>5. CASE \E i \in 1..Len(item.pics) : x = <<b, "image", i>>
    <3>1. PICK i \in 1..Len(item.pics) : x = <<b, "image", i>>
      BY <2>5
    <3>2. item.kind # "other"
      BY <2>1, <3>1 DEF BodyPassedOver
    <3>3. i \in SeenIn(item)
      <4>1. CASE item.kind = "tbl"
        BY <4>1 DEF SeenIn
      <4>2. CASE item.kind = "p"
        <5>1. ByRuns(item)
          BY <1>0, <4>2, <3>1 DEF ByRuns
        <5>2. item.pics[i].direct
          BY <2>1, <3>1, <3>2, <5>1 DEF BodyPassedOver
        <5> QED
          BY <4>2, <5>2 DEF SeenIn
      <4> QED
        BY <1>0, <3>2, <4>1, <4>2
    <3> QED
      BY <3>1, <3>3
  <2> QED
    BY <2>1, <2>2, <2>3, <2>4, <2>5 DEF BodyItems
<1> HIDE DEF s1, s2, s3, a1, a2, a3
<1>5. Accounts(s1 \o s2, a1 \cup a2)
  BY <1>1, <1>2, StepsThenSteps
<1>6. Accounts((s1 \o s2) \o s3, (a1 \cup a2) \cup a3)
  BY <1>3, <1>5, StepsThenSteps
<1> QED
  BY <1>4, <1>6, <1>a, FewerItems

\* Every part of the package with a text of its own is recorded, once.
LEMMA PartsAccounted ==
  ASSUME NEW parts \in NamedParts
  PROVE  Accounts(PartSteps(parts),
                  {<<0, parts[i].name, 0>> : i \in {j \in 1..Len(parts) : ~parts[j].linked /\ parts[j].text}})
<1> DEFINE known(i) == \E j \in 1..(i - 1) : ~parts[j].linked /\ parts[j].name = parts[i].name
           passed(i) == parts[i].linked \/ known(i) \/ ~parts[i].text
           F == [i \in 1..Len(parts) |-> IF passed(i) THEN <<>> ELSE <<Omit({<<0, parts[i].name, 0>>})>>]
           items == [i \in 1..Len(parts) |-> IF passed(i) THEN {} ELSE {<<0, parts[i].name, 0>>}]
           wanted == {<<0, parts[i].name, 0>> : i \in {j \in 1..Len(parts) : ~parts[j].linked /\ parts[j].text}}
<1>1. PartSteps(parts) = FlattenSeq(F)
  BY DEF PartSteps, Each
<1>0. parts \in Seq([linked : BOOLEAN, name : STRING, text : BOOLEAN, picture : BOOLEAN])
  BY DEF NamedParts
<1> DEFINE T == [linked : BOOLEAN, name : STRING, text : BOOLEAN, picture : BOOLEAN]
<1>b. parts \in Seq(T)
  BY <1>0
<1> HIDE DEF T, F, items, wanted, passed, known
<1>c. \A i \in 1..Len(parts) : parts[i] \in T
  BY <1>b
<1>a. \A i \in 1..Len(parts) : parts[i] \in [linked : BOOLEAN, name : STRING, text : BOOLEAN, picture : BOOLEAN]
  BY <1>c DEF T
<1> USE DEF F, items, wanted, known
<1>2. /\ Len(parts) \in Nat
      /\ \A i \in 1..Len(parts) : parts[i].linked \in BOOLEAN /\ parts[i].name \in STRING /\ parts[i].text \in BOOLEAN
      /\ \A i, j \in 1..Len(parts) : parts[i].name = parts[j].name /\ parts[i].linked = parts[j].linked
                                       => parts[i].text = parts[j].text
  BY <1>0, <1>a DEF NamedParts
<1>3. ASSUME NEW i \in 1..Len(parts) PROVE Accounts(F[i], items[i])
  <2> DEFINE it == {<<0, parts[i].name, 0>>}
  <2>c. parts[i].name \in ItemNames
    BY <1>2, PartNames
  <2>0. <<0, parts[i].name, 0>> \in SourceItems
    BY <2>c, NamedItem
  <2>1. it \in SUBSET SourceItems
    BY <2>0
  <2>2. F[i] = (IF passed(i) THEN <<>> ELSE <<Omit(it)>>) /\ items[i] = (IF passed(i) THEN {} ELSE it)
    OBVIOUS
  <2> HIDE DEF F, items, it
  <2>a. Omit(it) \in PlainSteps /\ Omit(it).of = it
    BY <2>1, Recorded DEF Omit
  <2>b. Accounts(<<Omit(it)>>, it)
    BY <2>a, OneStep
  <2> QED
    BY <2>2, <2>b, NoStep
<1>4. F = [i \in 1..Len(parts) |-> F[i]]
  OBVIOUS
<1>5. ASSUME NEW x \in wanted PROVE \E i \in 1..Len(parts) : x \in items[i]
  <2>1. PICK i \in 1..Len(parts) : x = <<0, parts[i].name, 0>> /\ ~parts[i].linked /\ parts[i].text
    OBVIOUS
  <2> DEFINE S == {j \in 1..Len(parts) : ~parts[j].linked /\ parts[j].name = parts[i].name}
             m == Min(S)
  <2>2. i \in S /\ S \in SUBSET Nat
    BY <2>1
  <2>3. m \in S /\ \A j \in S : m <= j
    BY <2>2, LeastOf
  <2> HIDE DEF m
  <2>4. m \in 1..Len(parts) /\ ~parts[m].linked /\ parts[m].name = parts[i].name
    BY <2>3
  <2>5. parts[m].linked = parts[i].linked
    BY <1>2, <2>1, <2>4
  <2>6. parts[m].text
    BY <1>2, <2>1, <2>4, <2>5
  <2>7. ~known(m)
    <3>1. SUFFICES ASSUME NEW j \in 1..(m - 1), ~parts[j].linked, parts[j].name = parts[m].name PROVE FALSE
      OBVIOUS
    <3>2. j \in 1..Len(parts) /\ ~(m <= j)
      BY <1>2, <2>4
    <3>3. j \in S
      BY <2>4, <3>1, <3>2
    <3> QED
      BY <2>3, <3>2, <3>3
  <2>8. ~passed(m)
    BY <2>4, <2>6, <2>7 DEF passed
  <2>9. x \in items[m]
    BY <2>1, <2>4, <2>8
  <2> QED
    BY <2>4, <2>9
<1> HIDE DEF F, items, wanted
<1>6. Accounts(FlattenSeq(F), wanted)
  BY <1>2, <1>3, <1>4, <1>5, EachPart
<1> QED
  BY <1>1, <1>6 DEF wanted

\* A Word file: its body, and what is said to be left out of its other parts.
LEMMA DocxAccounted ==
  ASSUME NEW doc, doc.body \in Seq(BodyChildren), doc.parts \in NamedParts
  PROVE  Accounts(DocxSteps(doc), DocxItems(doc) \ DocxPassedOver(doc))
<1> DEFINE n == Len(doc.body)
           F == [b \in 1..n |-> BodySteps(doc.body[b], b)]
           items == [b \in 1..n |-> BodyItems(doc.body[b], b) \ BodyPassedOver(doc.body[b], b)]
           wanted == UNION {BodyItems(doc.body[b], b) \ BodyPassedOver(doc.body[b], b) : b \in 1..n}
<1>1. n \in Nat /\ F = [i \in 1..n |-> F[i]]
  OBVIOUS
<1>2. ASSUME NEW b \in 1..n PROVE Accounts(F[b], items[b])
  <2>1. b \in Int /\ doc.body[b] \in BodyChildren
    OBVIOUS
  <2> QED
    BY <2>1, BodyAccounted
<1>3. \A x \in wanted : \E b \in 1..n : x \in items[b]
  OBVIOUS
<1> DEFINE of_parts == {<<0, doc.parts[i].name, 0>> : i \in {j \in 1..Len(doc.parts) :
                                                         ~doc.parts[j].linked /\ doc.parts[j].text}}
<1>7. DocxItems(doc) \ DocxPassedOver(doc) \subseteq wanted \cup of_parts
  <2>1. SUFFICES ASSUME NEW x \in DocxItems(doc), x \notin DocxPassedOver(doc) PROVE x \in wanted \cup of_parts
    OBVIOUS
  <2>2. x \notin PicturesAlone(doc.parts) /\ \A b \in 1..n : x \notin BodyPassedOver(doc.body[b], b)
    BY <2>1 DEF DocxPassedOver
  <2>3. x \in of_parts \/ \E b \in 1..n : x \in BodyItems(doc.body[b], b)
    BY <2>1, <2>2 DEF DocxItems
  <2> QED
    BY <2>2, <2>3
<1> HIDE DEF F, items, wanted, n
<1>4. Accounts(FlattenSeq(F), wanted)
  BY <1>1, <1>2, <1>3, EachPart
<1>5. Accounts(PartSteps(doc.parts), of_parts)
  BY PartsAccounted
<1>6. DocxSteps(doc) = FlattenSeq(F) \o PartSteps(doc.parts)
  BY DEF DocxSteps, Each, F, n
<1> HIDE DEF of_parts
<1>8. Accounts(DocxSteps(doc), wanted \cup of_parts)
  BY <1>4, <1>5, <1>6, StepsThenSteps
<1> QED
  BY <1>7, <1>8, FewerItems

\* One element or omission of one item.
LEMMA OneItem ==
  ASSUME NEW op, op \in {"emit", "omit"}, NEW item, item \in SourceItems
  PROVE  Accounts(<<Step(op, {item})>>, {item})
<1> DEFINE items == {item}
<1>1. items \in SUBSET SourceItems
  OBVIOUS
<1> HIDE DEF items
<1>2. Step(op, items) \in PlainSteps /\ Step(op, items).of = items
  BY <1>1, Recorded
<1>3. Accounts(<<Step(op, items)>>, items)
  BY <1>2, OneStep
<1> QED
  BY <1>3 DEF items

\* Objects of one kind, one omission each.
LEMMA CountedAccounted ==
  ASSUME NEW a \in Int, NEW kind, kind \in ItemNames, NEW n, n \in Nat
  PROVE  Accounts([i \in 1..n |-> Omit({<<a, kind, i>>})], {<<a, kind, i>> : i \in 1..n})
<1> DEFINE name == [i \in 1..n |-> <<a, kind, i>>]
           s == [i \in 1..n |-> Omit({<<a, kind, i>>})]
           items == {<<a, kind, i>> : i \in 1..n}
<1>1. \A i \in 1..n : name[i] \in SourceItems
  <2>1. ASSUME NEW i \in 1..n PROVE <<a, kind, i>> \in SourceItems
    <3>1. i \in Int
      OBVIOUS
    <3> QED
      BY <3>1, NamedItem
  <2> QED
    BY <2>1
<1>2. s = [i \in 1..n |-> Omit({name[i]})] /\ items = {name[i] : i \in 1..n}
  OBVIOUS
<1> HIDE DEF name, s, items
<1>3. Accounts([i \in 1..n |-> Omit({name[i]})], {name[i] : i \in 1..n})
  BY <1>1, OmissionsAccounted
<1>4. Accounts(s, items)
  BY <1>2, <1>3
<1> QED
  BY <1>4 DEF s, items

(***************************************************************************)
(* Workbooks.                                                              *)
(***************************************************************************)
SheetItemsOf(sheet, s, legacy) ==
    (IF sheet.filled THEN {<<s, "cells", 0>>} ELSE {})
      \cup (IF sheet.odd THEN {<<s, "formats", 0>>} ELSE {})
      \cup (IF legacy THEN {}
            ELSE {<<s, "chart", i>> : i \in 1..sheet.charts}
                   \cup {<<s, "image", i>> : i \in 1..Len(sheet.pics)})

\* What openpyxl finds in a sheet.
LEMMA SheetFields ==
  ASSUME NEW sheet \in FilledSheets
  PROVE  /\ sheet.charts \in Nat /\ sheet.rows \in Nat /\ sheet.pics \in Seq(BOOLEAN)
         /\ sheet.filled \in BOOLEAN /\ sheet.odd \in BOOLEAN
         /\ sheet.filled \/ sheet.odd => sheet.rows > 0
BY DEF FilledSheets

\* A sheet: its rows, charts and pictures, and what is in it that is not read.
LEMMA SheetAccounted ==
  ASSUME NEW s \in Int, NEW sheet \in FilledSheets
  PROVE  Accounts(SheetSteps(sheet, s), SheetItemsOf(sheet, s, FALSE))
<1> DEFINE s1 == IF sheet.filled THEN <<Step("emit", {<<s, "cells", 0>>})>> ELSE <<>>
           a1 == IF sheet.filled THEN {<<s, "cells", 0>>} ELSE {}
           s2 == IF sheet.odd THEN <<Omit({<<s, "formats", 0>>})>> ELSE <<>>
           a2 == IF sheet.odd THEN {<<s, "formats", 0>>} ELSE {}
           s3 == [i \in 1..sheet.charts |-> Omit({<<s, "chart", i>>})]
           a3 == {<<s, "chart", i>> : i \in 1..sheet.charts}
           s4 == PictureSteps(s, sheet.pics)
           a4 == {<<s, "image", i>> : i \in 1..Len(sheet.pics)}
<1>1. <<s, "cells", 0>> \in SourceItems /\ <<s, "formats", 0>> \in SourceItems
  BY PartNames, NamedItem
<1>2. Accounts(<<Step("emit", {<<s, "cells", 0>>})>>, {<<s, "cells", 0>>})
  BY <1>1, OneItem
<1>3. Accounts(<<Omit({<<s, "formats", 0>>})>>, {<<s, "formats", 0>>})
  BY <1>1, OneItem DEF Omit
<1>4. Accounts(s1, a1) /\ Accounts(s2, a2)
  BY <1>2, <1>3, NoStep
<1>5. Accounts(s3, a3)
  BY SheetFields, PartNames, CountedAccounted
<1>6. Accounts(s4, a4)
  BY SheetFields, PicturesAccounted
<1>7. SheetSteps(sheet, s) = s1 \o s2 \o s3 \o s4
  BY DEF SheetSteps
<1>8. SheetItemsOf(sheet, s, FALSE) = (a1 \cup a2 \cup a3) \cup a4
  BY Zenon DEF SheetItemsOf
<1> HIDE DEF s1, s2, s3, s4, a1, a2, a3, a4
<1>9. Accounts(s1 \o s2, a1 \cup a2)
  BY <1>4, StepsThenSteps
<1>10. Accounts((s1 \o s2) \o s3, (a1 \cup a2) \cup a3)
  BY <1>5, <1>9, StepsThenSteps
<1>11. Accounts(((s1 \o s2) \o s3) \o s4, ((a1 \cup a2) \cup a3) \cup a4)
  BY <1>6, <1>10, StepsThenSteps
<1> QED
  BY <1>7, <1>8, <1>11

\* A sheet of the old format: its rows, and what is in it that is not read.
LEMMA LegacySheetAccounted ==
  ASSUME NEW s \in Int, NEW sheet \in FilledSheets
  PROVE  Accounts(LegacySheetSteps(sheet, s), SheetItemsOf(sheet, s, TRUE))
<1> DEFINE c == <<s, "cells", 0>>
           f == <<s, "formats", 0>>
<1>1. c \in SourceItems /\ f \in SourceItems
  BY PartNames, NamedItem
<1>2. SheetItemsOf(sheet, s, TRUE) \subseteq {c} \cup {f}
  BY DEF SheetItemsOf
<1>3. sheet.rows = 0 => SheetItemsOf(sheet, s, TRUE) = {}
  BY SheetFields DEF SheetItemsOf
<1>4. LegacySheetSteps(sheet, s) = IF sheet.rows = 0 THEN <<>> ELSE <<Step("emit", {c}), Omit({f})>>
  BY DEF LegacySheetSteps
<1> HIDE DEF c, f
<1> DEFINE x == Step("emit", {c})
           y == Omit({f})
<1>5. x \in PlainSteps /\ x.of = {c} /\ y \in PlainSteps /\ y.of = {f}
  <2>1. {c} \in SUBSET SourceItems /\ {f} \in SUBSET SourceItems
    BY <1>1
  <2> QED
    BY <2>1, Recorded DEF Omit
<1> HIDE DEF x, y
<1>6. <<x, y>> \in Seq(PlainSteps) /\ Len(<<x, y>>) = 2 /\ <<x, y>>[1] = x /\ <<x, y>>[2] = y
  BY <1>5
<1>7. {c} \cup {f} \subseteq Accounted(<<x, y>>)
  <2>1. 1 \in 1..2 /\ 2 \in 1..2
    OBVIOUS
  <2> QED
    BY <1>5, <1>6, <2>1 DEF Accounted
<1>8. Accounts(<<Step("emit", {c}), Omit({f})>>, {c} \cup {f})
  BY <1>6, <1>7 DEF Accounts, x, y
<1>9. Accounts(<<Step("emit", {c}), Omit({f})>>, SheetItemsOf(sheet, s, TRUE))
  BY <1>2, <1>8, FewerItems
<1> QED
  BY <1>3, <1>4, <1>9, NoStep

\* A workbook: every sheet of it.
LEMMA WorkbookAccounted ==
  ASSUME NEW book, book.sheets \in Seq(FilledSheets), book.legacy \in BOOLEAN
  PROVE  Accounts(WorkbookSteps(book), WorkbookItems(book) \ WorkbookPassedOver(book))
<1> DEFINE n == Len(book.sheets)
           steps(s) == IF book.legacy THEN LegacySheetSteps(book.sheets[s], s) ELSE SheetSteps(book.sheets[s], s)
           F == [s \in 1..n |-> steps(s)]
           items == [s \in 1..n |-> SheetItemsOf(book.sheets[s], s, book.legacy)]
           wanted == UNION {SheetItemsOf(book.sheets[s], s, book.legacy) : s \in 1..n}
<1>1. n \in Nat /\ F = [i \in 1..n |-> F[i]]
  OBVIOUS
<1>2. ASSUME NEW s \in 1..n PROVE Accounts(F[s], items[s])
  <2>1. s \in Int /\ book.sheets[s] \in FilledSheets
    OBVIOUS
  <2>2. CASE book.legacy
    BY <2>1, <2>2, LegacySheetAccounted
  <2>3. CASE ~book.legacy
    <3>1. SheetItemsOf(book.sheets[s], s, book.legacy) = SheetItemsOf(book.sheets[s], s, FALSE)
      BY <2>3 DEF SheetItemsOf
    <3> QED
      BY <2>1, <2>3, <3>1, SheetAccounted
  <2> QED
    BY <2>2, <2>3
<1>3. \A x \in wanted : \E s \in 1..n : x \in items[s]
  OBVIOUS
<1>4. WorkbookSteps(book) = IF WithinWorkbook(book.sheets) THEN FlattenSeq(F) ELSE Refuse
  <2>1. CASE book.legacy
    BY <2>1 DEF WorkbookSteps, Each
  <2>2. CASE ~book.legacy
    BY <2>2 DEF WorkbookSteps, Each
  <2> QED
    BY <2>1, <2>2
<1>5. WorkbookItems(book) \ WorkbookPassedOver(book) \subseteq wanted
  <2>1. SUFFICES ASSUME NEW x \in WorkbookItems(book), x \notin WorkbookPassedOver(book) PROVE x \in wanted
    OBVIOUS
  <2>2. PICK s \in 1..n : \/ book.sheets[s].filled /\ x = <<s, "cells", 0>>
                          \/ book.sheets[s].odd /\ x = <<s, "formats", 0>>
                          \/ \E i \in 1..book.sheets[s].charts : x = <<s, "chart", i>>
                          \/ \E i \in 1..Len(book.sheets[s].pics) : x = <<s, "image", i>>
    BY <2>1 DEF WorkbookItems
  <2>3. x \in SheetItemsOf(book.sheets[s], s, book.legacy)
    <3>1. CASE book.sheets[s].filled /\ x = <<s, "cells", 0>>
      BY <3>1 DEF SheetItemsOf
    <3>2. CASE book.sheets[s].odd /\ x = <<s, "formats", 0>>
      BY <3>2 DEF SheetItemsOf
    <3>3. CASE \E i \in 1..book.sheets[s].charts : x = <<s, "chart", i>>
      <4>1. x[2] = "chart"
        BY <3>3
      <4>2. ~book.legacy
        BY <2>1, <4>1 DEF WorkbookPassedOver
      <4> QED
        BY <3>3, <4>2 DEF SheetItemsOf
    <3>4. CASE \E i \in 1..Len(book.sheets[s].pics) : x = <<s, "image", i>>
      <4>1. x[2] = "image"
        BY <3>4
      <4>2. ~book.legacy
        BY <2>1, <4>1 DEF WorkbookPassedOver
      <4> QED
        BY <3>4, <4>2 DEF SheetItemsOf
    <3> QED
      BY <2>2, <3>1, <3>2, <3>3, <3>4
  <2> QED
    BY <2>3
<1> HIDE DEF F, items, wanted, n
<1>6. Accounts(FlattenSeq(F), wanted)
  BY <1>1, <1>2, <1>3, EachPart
<1>7. Accounts(FlattenSeq(F), WorkbookItems(book) \ WorkbookPassedOver(book))
  BY <1>5, <1>6, FewerItems
<1> QED
  BY <1>4, <1>7, RefusalAccounts

(***************************************************************************)
(* Pictures.                                                               *)
(***************************************************************************)
\* Regions whose answers are passed over account for nothing.
LEMMA RegionSteps ==
  ASSUME NEW a \in Int, NEW n, n \in Nat
  PROVE  Accounts([i \in 1..n |-> See({}, <<a, "region", i>>, "skip")], {})
<1> DEFINE s == [i \in 1..n |-> See({}, <<a, "region", i>>, "skip")]
<1>1. ASSUME NEW i \in 1..n PROVE s[i] \in PlainSteps
  <2> DEFINE it == <<a, "region", i>>
  <2>1. i \in Int /\ it[2] = "region"
    OBVIOUS
  <2>2. it \in SourceItems
    BY <2>1, PartNames, NamedItem
  <2>3. s[i] = See({}, it, "skip")
    OBVIOUS
  <2> HIDE DEF it, s
  <2>4. it[2] \notin {"layout", "result"} /\ {} \in SUBSET SourceItems
    BY <2>1
  <2>5. See({}, it, "skip") \in PlainSteps
    BY <2>2, <2>4, SeeStep
  <2> QED
    BY <2>3, <2>5
<1>2. s \in Seq(PlainSteps)
  <2> HIDE DEF s
  <2>1. s = [i \in 1..n |-> s[i]]
    BY DEF s
  <2>2. s \in [1..n -> PlainSteps]
    BY <1>1, <2>1
  <2> QED
    BY <2>2
<1> HIDE DEF s
<1>3. Accounts(s, {})
  BY <1>2 DEF Accounts
<1> QED
  BY <1>3 DEF s

\* The layout model is asked about a page.
LEMMA LayoutAsked ==
  ASSUME NEW a \in Int
  PROVE  Accounts(<<[Step("layout", {}) EXCEPT !.image = <<a, "layout", 0>>]>>, {})
<1> DEFINE it == <<a, "layout", 0>>
           s == [Step("layout", {}) EXCEPT !.image = it]
<1>1. it[2] = "layout"
  OBVIOUS
<1>2. it \in SourceItems
  BY PartNames, NamedItem
<1> HIDE DEF it
<1>3. s \in PlainSteps
  BY <1>1, <1>2, LayoutStep
<1> HIDE DEF s
<1>4. Accounts(<<s>>, {})
  BY <1>3, OneStep, FewerItems
<1> QED
  BY <1>4 DEF s, it

\* A picture or a page is shown to the vision model as a whole.
LEMMA WholeSeen ==
  ASSUME NEW items, items \in SUBSET SourceItems, NEW image, image \in SourceItems,
         image[2] \notin {"layout", "result"},
         NEW how, how \in {"raise", "omit"}
  PROVE  Accounts(<<See(items, image, how)>>, items)
<1> DEFINE s == See(items, image, how)
<1>1. s \in PlainSteps /\ s.of = items
  BY SeeStep
<1> HIDE DEF s
<1>2. Accounts(<<s>>, items)
  BY <1>1, OneStep
<1> QED
  BY <1>2 DEF s

\* A frame of a picture is seen, or the file is refused.
LEMMA FrameAccounted ==
  ASSUME NEW f \in Int, NEW frame, frame.regions \in Nat
  PROVE  Accounts(FrameSteps(frame, f), {<<f, "frame", 0>>})
<1> DEFINE it == <<f, "frame", 0>>
           s1 == <<[Step("layout", {}) EXCEPT !.image = <<f, "layout", 0>>]>>
           s2 == [i \in 1..frame.regions |-> See({}, <<f, "region", i>>, "skip")]
           s3 == <<See({it}, it, "raise")>>
<1>1. Accounts(s1, {}) /\ Accounts(s2, {})
  BY LayoutAsked, RegionSteps
<1>2. Accounts(s3, {it})
  <2>1. it[2] = "frame"
    OBVIOUS
  <2>2. it \in SourceItems
    BY PartNames, NamedItem
  <2> HIDE DEF it
  <2> QED
    BY <2>1, <2>2, WholeSeen
<1>3. FrameSteps(frame, f) = IF frame.huge THEN Refuse ELSE s1 \o s2 \o s3
  BY DEF FrameSteps
<1> HIDE DEF s1, s2, s3
<1>4. Accounts(s1 \o s2, {} \cup {})
  BY <1>1, StepsThenSteps
<1>5. Accounts((s1 \o s2) \o s3, ({} \cup {}) \cup {it})
  BY <1>2, <1>4, StepsThenSteps
<1>6. Accounts(Refuse, {it})
  BY RefusalAccounts
<1> HIDE DEF it
<1>7. Accounts(FrameSteps(frame, f), {it})
  BY <1>3, <1>5, <1>6, FewerItems
<1> QED
  BY <1>7 DEF it

\* A picture file: every frame of it.
LEMMA FramesAccounted ==
  ASSUME NEW picture, picture.frames \in Seq([huge : BOOLEAN, regions : Nat])
  PROVE  Accounts(ImageFileSteps(picture), {<<f, "frame", 0>> : f \in 1..Len(picture.frames)})
<1> DEFINE T == [huge : BOOLEAN, regions : Nat]
           n == Len(picture.frames)
           F == [f \in 1..n |-> FrameSteps(picture.frames[f], f)]
           items == [f \in 1..n |-> {<<f, "frame", 0>>}]
           wanted == {<<f, "frame", 0>> : f \in 1..n}
<1>1. n \in Nat /\ F = [i \in 1..n |-> F[i]]
  OBVIOUS
<1>2. ASSUME NEW f \in 1..n PROVE Accounts(F[f], items[f])
  <2>1. picture.frames \in Seq(T)
    OBVIOUS
  <2>2. picture.frames[f] \in T
    <3> HIDE DEF T
    <3> QED
      BY <2>1
  <2>3. f \in Int /\ picture.frames[f].regions \in Nat
    BY <2>2
  <2> QED
    BY <2>3, FrameAccounted
<1>3. \A x \in wanted : \E s \in 1..n : x \in items[s]
  OBVIOUS
<1>4. ImageFileSteps(picture) = IF n > MaxPages THEN Refuse ELSE FlattenSeq(F)
  BY DEF ImageFileSteps, Each
<1> HIDE DEF F, items
<1>5. Accounts(FlattenSeq(F), wanted)
  <2> HIDE DEF n, wanted
  <2> QED
    BY <1>1, <1>2, <1>3, EachPart
<1>6. Accounts(Refuse, wanted)
  BY RefusalAccounts
<1>7. Accounts(ImageFileSteps(picture), wanted)
  BY <1>4, <1>5, <1>6
<1> QED
  BY <1>7

(***************************************************************************)
(* CSV and HTML.                                                           *)
(***************************************************************************)
\* A file of comma separated values: its rows, if it has columns.
LEMMA CsvAccounted ==
  ASSUME NEW csv
  PROVE  Accounts(CsvSteps(csv), IF csv.columns = 0 THEN {} ELSE {<<1, "rows", 0>>})
<1>1. <<1, "rows", 0>> \in SourceItems
  BY PartNames, NamedItem
<1>2. Accounts(<<Step("emit", {<<1, "rows", 0>>})>>, {<<1, "rows", 0>>})
  BY <1>1, OneItem
<1> QED
  BY <1>2, NoStep, RefusalAccounts DEF CsvSteps

\* What is named of a node of a web page.
LEMMA NodeItems ==
  ASSUME NEW i \in Int
  PROVE  <<i, "visual", 0>> \in SourceItems /\ <<i, "text", 0>> \in SourceItems
BY PartNames, NamedItem

\* A web page: every table, heading and block with text in it, and every picture
\* of which it is said that it is left out.
LEMMA HtmlAccounted ==
  ASSUME NEW html, html.nodes \in Seq([tag : {"hidden", "visual", "table", "heading", "block", "inline"},
                                       text : BOOLEAN, inner : Nat])
  PROVE  Accounts(HtmlSteps(html), HtmlItems(html) \ HtmlPassedOver(html))
<1> DEFINE nodes == html.nodes
           n == Len(nodes)
           v(i) == IF nodes[i].tag = "visual" THEN <<Omit({<<i, "visual", 0>>})>> ELSE <<>>
           t(i) == IF nodes[i].tag # "hidden" /\ nodes[i].text THEN <<Step("emit", {<<i, "text", 0>>})>> ELSE <<>>
           vi(i) == IF nodes[i].tag = "visual" THEN {<<i, "visual", 0>>} ELSE {}
           ti(i) == IF nodes[i].tag # "hidden" /\ nodes[i].text THEN {<<i, "text", 0>>} ELSE {}
           steps(node, i) ==
              CASE node.tag = "hidden" -> <<>>
                [] node.tag = "visual" ->
                     <<Omit({<<i, "visual", 0>>})>>
                       \o IF node.text THEN <<Step("emit", {<<i, "text", 0>>})>> ELSE <<>>
                [] OTHER -> IF node.text THEN <<Step("emit", {<<i, "text", 0>>})>> ELSE <<>>
           F == [i \in 1..n |-> steps(nodes[i], i)]
           items == [i \in 1..n |-> vi(i) \cup ti(i)]
<1>1. n \in Nat /\ F = [i \in 1..n |-> F[i]]
  OBVIOUS
<1>2. ASSUME NEW i \in 1..n PROVE Accounts(F[i], items[i])
  <2>1. i \in Int
    OBVIOUS
  <2>2. <<i, "visual", 0>> \in SourceItems /\ <<i, "text", 0>> \in SourceItems
    BY <2>1, NodeItems
  <2>3. /\ Accounts(<<Omit({<<i, "visual", 0>>})>>, {<<i, "visual", 0>>})
        /\ Accounts(<<Step("emit", {<<i, "text", 0>>})>>, {<<i, "text", 0>>})
    BY <2>2, OneItem DEF Omit
  <2>4. Accounts(v(i), vi(i)) /\ Accounts(t(i), ti(i))
    BY <2>3, NoStep
  <2>5. Accounts(v(i) \o t(i), vi(i) \cup ti(i))
    <3> HIDE DEF v, t, vi, ti
    <3> QED
      BY <2>4, StepsThenSteps
  <2>6. steps(nodes[i], i) = v(i) \o t(i)
    <3> DEFINE a == Omit({<<i, "visual", 0>>})
               b == Step("emit", {<<i, "text", 0>>})
    <3>0. /\ v(i) = IF nodes[i].tag = "visual" THEN <<a>> ELSE <<>>
          /\ t(i) = IF nodes[i].tag # "hidden" /\ nodes[i].text THEN <<b>> ELSE <<>>
          /\ steps(nodes[i], i) = IF nodes[i].tag = "hidden" THEN <<>>
                 ELSE IF nodes[i].tag = "visual" THEN <<a>> \o IF nodes[i].text THEN <<b>> ELSE <<>>
                 ELSE IF nodes[i].text THEN <<b>> ELSE <<>>
      OBVIOUS
    <3> HIDE DEF v, t, steps, a, b, nodes
    <3>1. CASE nodes[i].tag = "hidden"
      BY <3>0, <3>1
    <3>2. CASE nodes[i].tag = "visual"
      BY <3>0, <3>2
    <3>3. CASE nodes[i].tag # "hidden" /\ nodes[i].tag # "visual"
      <4>1. <<>> \o <<b>> = <<b>> /\ <<>> \o <<>> = <<>>
        OBVIOUS
      <4>2. CASE nodes[i].text
        BY <3>0, <3>3, <4>1, <4>2
      <4>3. CASE ~nodes[i].text
        BY <3>0, <3>3, <4>1, <4>3
      <4> QED
        BY <4>2, <4>3
    <3> QED
      BY <3>1, <3>2, <3>3
  <2>7. F[i] = steps(nodes[i], i) /\ items[i] = vi(i) \cup ti(i)
    OBVIOUS
  <2> QED
    BY <2>5, <2>6, <2>7
<1> DEFINE wanted == HtmlItems(html) \ HtmlPassedOver(html)
<1>3. ASSUME NEW x \in wanted PROVE \E i \in 1..n : x \in items[i]
  <2>1. x \in HtmlItems(html) /\ x[2] # "inner"
    BY <1>3 DEF HtmlPassedOver
  <2>2. CASE x \in {<<i, "visual", 0>> : i \in {j \in 1..n : nodes[j].tag = "visual"}}
    BY <2>2
  <2>3. CASE x \in {<<i, "text", 0>> : i \in {j \in 1..n : nodes[j].tag # "hidden" /\ nodes[j].text}}
    BY <2>3
  <2> QED
    BY <2>1, <2>2, <2>3 DEF HtmlItems
<1>4. HtmlSteps(html) = FlattenSeq(F)
  BY DEF HtmlSteps, Each
<1> HIDE DEF F, items, n, wanted
<1>5. Accounts(FlattenSeq(F), wanted)
  BY <1>1, <1>2, <1>3, EachPart
<1> QED
  BY <1>4, <1>5 DEF wanted

(***************************************************************************)
(* PDF.                                                                    *)
(***************************************************************************)
FoundTables == [box : Boxes, got : {"rows", "empty", "error"}]

\* What the library finds on a page of a PDF file.
LEMMA PageFields ==
  ASSUME NEW page \in PdfPages
  PROVE  /\ page.lines \in Seq(Boxes) /\ page.images \in Seq(Boxes)
         /\ page.figures \in Seq(Boxes) /\ page.regions \in Seq(Boxes)
         /\ page.tables \in Seq(FoundTables)
         /\ page.found \in BOOLEAN /\ page.graphics \in BOOLEAN
BY DEF PdfPages, FoundTables

\* The members of a sequence.
LEMMA BoxesOfSeq ==
  ASSUME NEW T, NEW s \in Seq(T)
  PROVE  Len(s) \in Nat /\ \A i \in 1..Len(s) : s[i] \in T
OBVIOUS

\* The sides of a box, and its area, are numbers.
LEMMA BoxNumbers ==
  ASSUME NEW b \in Boxes
  PROVE  b[1] \in Int /\ b[2] \in Int /\ b[3] \in Int /\ b[4] \in Int /\ Area(b) \in Int
<1>1. b[1] \in Int /\ b[2] \in Int /\ b[3] \in Int /\ b[4] \in Int
  BY DEF Boxes
<1>2. b[3] - b[1] \in Int /\ b[4] - b[2] \in Int
  BY <1>1
<1>3. \A m, n \in Int : m * n \in Int
  OBVIOUS
<1> QED
  BY <1>1, <1>2, <1>3 DEF Area

\* Nothing is covered by no boxes.
LEMMA CoveredByNone ==
  ASSUME NEW a \in Boxes, NEW boxes, boxes = <<>>, NEW percent \in Nat \ {0}
  PROVE  ~CoveredBy(a, boxes, percent)
<1> DEFINE covered[n \in 0..Len(boxes)] == IF n = 0 THEN 0 ELSE covered[n - 1] + Overlap(a, boxes[n])
<1>1. Len(boxes) = 0
  OBVIOUS
<1>2. covered[0] = 0
  <2> DEFINE f == [n \in 0..Len(boxes) |-> 0]
  <2>1. f = [n \in 0..Len(boxes) |-> IF n = 0 THEN 0 ELSE f[n - 1] + Overlap(a, boxes[n])]
    BY <1>1
  <2>2. covered = [n \in 0..Len(boxes) |-> IF n = 0 THEN 0 ELSE covered[n - 1] + Overlap(a, boxes[n])]
    BY <2>1
  <2> HIDE DEF covered
  <2> QED
    BY <1>1, <2>2
<1>3. CoveredBy(a, boxes, percent) <=> Area(a) > 0 /\ 100 * covered[Len(boxes)] >= percent * Area(a)
  BY DEF CoveredBy
<1> HIDE DEF covered
<1>4. Area(a) \in Int
  BY BoxNumbers
<1>5. PICK m \in Int : m = Area(a)
  BY <1>4
<1>6. m > 0 => percent * m > 0
  OBVIOUS
<1> QED
  BY <1>1, <1>2, <1>3, <1>5, <1>6

\* The boxes of the tables that were read.
LEMMA TablesRead ==
  ASSUME NEW page \in PdfPages
  PROVE  /\ TableBoxes(page) \in Seq(Boxes)
         /\ \A b : b \in ToSet(TableBoxes(page)) <=>
               \E i \in 1..Len(page.tables) :
                  page.found /\ page.tables[i].got = "rows" /\ b = page.tables[i].box
<1> DEFINE n == Len(page.tables)
           F == [i \in 1..n |-> IF page.found /\ page.tables[i].got = "rows" THEN <<page.tables[i].box>> ELSE <<>>]
<1>1. TableBoxes(page) = FlattenSeq(F)
  BY DEF TableBoxes, Each
<1>2. n \in Nat /\ \A i \in 1..n : page.tables[i] \in FoundTables
  BY PageFields, BoxesOfSeq
<1>3. ASSUME NEW i \in 1..n PROVE page.tables[i].box \in Boxes
  BY <1>2 DEF FoundTables
<1>4. ASSUME NEW i \in 1..n
      PROVE  /\ F[i] \in Seq(Boxes)
             /\ ToSet(F[i]) = IF page.found /\ page.tables[i].got = "rows" THEN {page.tables[i].box} ELSE {}
  <2>1. F[i] = IF page.found /\ page.tables[i].got = "rows" THEN <<page.tables[i].box>> ELSE <<>>
    OBVIOUS
  <2>2. <<page.tables[i].box>> \in Seq(Boxes) /\ <<>> \in Seq(Boxes)
    BY <1>3
  <2>3. \A x : ToSet(<<x>>) = {x}
    BY DEF ToSet
  <2>4. ToSet(<<>>) = {}
    BY DEF ToSet
  <2> HIDE DEF F
  <2>5. CASE page.found /\ page.tables[i].got = "rows"
    BY <2>1, <2>2, <2>3, <2>5
  <2>6. CASE ~(page.found /\ page.tables[i].got = "rows")
    BY <2>1, <2>2, <2>4, <2>6
  <2> QED
    BY <2>5, <2>6
<1>5. F \in Seq(Seq(Boxes)) /\ Len(F) = n
  <2>1. F \in [1..n -> Seq(Boxes)]
    <3> DEFINE g(i) == IF page.found /\ page.tables[i].got = "rows" THEN <<page.tables[i].box>> ELSE <<>>
    <3>1. \A i \in 1..n : g(i) \in Seq(Boxes)
      BY <1>4
    <3>2. F = [i \in 1..n |-> g(i)]
      OBVIOUS
    <3> HIDE DEF g, F
    <3> QED
      BY <3>1, <3>2
  <2> HIDE DEF F, n
  <2> QED
    BY <1>2, <2>1
<1> HIDE DEF F
<1>6. /\ FlattenSeq(F) \in Seq(Boxes)
      /\ ToSet(FlattenSeq(F)) = UNION {ToSet(F[i]) : i \in 1..n}
  BY <1>5, FlattenRange
<1> HIDE DEF n
<1> DEFINE S == ToSet(FlattenSeq(F))
<1>7. S = UNION {ToSet(F[i]) : i \in 1..n}
  BY <1>6
<1> HIDE DEF S
<1>8. \A b : b \in S <=> \E i \in 1..n : page.found /\ page.tables[i].got = "rows" /\ b = page.tables[i].box
  BY <1>4, <1>7
<1> QED
  BY <1>1, <1>6, <1>8 DEF S, n

\* A line is in a table when the rows of the table around it were read.
LEMMA InTableRead ==
  ASSUME NEW page \in PdfPages, NEW line
  PROVE  /\ InTable(page, line) <=>
              \E i \in 1..Len(page.tables) :
                 page.found /\ page.tables[i].got = "rows" /\ PointInBox(line, page.tables[i].box)
         /\ TableBoxes(page) = <<>> <=>
              \A i \in 1..Len(page.tables) : ~(page.found /\ page.tables[i].got = "rows")
<1> DEFINE t == TableBoxes(page)
<1>1. /\ t \in Seq(Boxes)
      /\ \A b : b \in ToSet(t) <=>
               \E i \in 1..Len(page.tables) :
                  page.found /\ page.tables[i].got = "rows" /\ b = page.tables[i].box
  BY TablesRead
<1>2. InTable(page, line) <=> \E i \in 1..Len(t) : PointInBox(line, t[i])
  BY DEF InTable
<1> HIDE DEF t
<1>3. ToSet(t) = {t[i] : i \in 1..Len(t)}
  BY <1>1 DEF ToSet
<1>4. (\E i \in 1..Len(t) : PointInBox(line, t[i])) <=> \E b \in ToSet(t) : PointInBox(line, b)
  BY <1>3
<1>5. t = <<>> <=> ToSet(t) = {}
  <2>1. t = <<>> => ToSet(t) = {}
    BY DEF ToSet
  <2>2. t # <<>> => 1 \in 1..Len(t)
    BY <1>1
  <2> QED
    BY <1>3, <2>1, <2>2
<1>6. t = <<>> <=> \A i \in 1..Len(page.tables) : ~(page.found /\ page.tables[i].got = "rows")
  BY <1>1, <1>5
<1>7. InTable(page, line) <=>
              \E i \in 1..Len(page.tables) :
                 page.found /\ page.tables[i].got = "rows" /\ PointInBox(line, page.tables[i].box)
  BY <1>1, <1>2, <1>4
<1> QED
  BY <1>6, <1>7 DEF t

\* Items of one kind, by their numbers.
LEMMA NamedItems ==
  ASSUME NEW a \in Int, NEW kind, kind \in ItemNames, NEW S, S \subseteq Int
  PROVE  {<<a, kind, i>> : i \in S} \in SUBSET SourceItems
<1>1. ASSUME NEW i \in S PROVE <<a, kind, i>> \in SourceItems
  <2>1. i \in Int
    OBVIOUS
  <2> QED
    BY <2>1, NamedItem
<1> QED
  BY <1>1

\* An element accounts for the items it is of.
LEMMA EmitAccounted ==
  ASSUME NEW items, items \in SUBSET SourceItems, NEW box, box \in Boxes
  PROVE  Accounts(<<Emit(items, box)>>, items)
<1> DEFINE s == Step("emit", items)
           e == At(s, box)
<1>1. s \in PlainSteps /\ s.of = items
  BY Recorded
<1> HIDE DEF s
<1>2. e \in PlainSteps /\ e.of = items
  BY <1>1, PlacedStep
<1> HIDE DEF e
<1>3. Accounts(<<e>>, items)
  BY <1>2, OneStep
<1> QED
  BY <1>3 DEF e, s, Emit

\* An omission accounts for the items it is of.
LEMMA OmitAccounted ==
  ASSUME NEW items, items \in SUBSET SourceItems
  PROVE  Accounts(<<Omit(items)>>, items)
<1> DEFINE s == Step("omit", items)
<1>1. s \in PlainSteps /\ s.of = items
  BY Recorded
<1> HIDE DEF s
<1>2. Accounts(<<s>>, items)
  BY <1>1, OneStep
<1> QED
  BY <1>2 DEF s, Omit

LinesIn(p, page, box) ==
    {<<p, "line", l>> : l \in {k \in 1..Len(page.lines) : PointInBox(page.lines[k], box)}}
ImagesWith(p, S) == {<<p, "image", k>> : k \in S}

\* What the step of one table accounts for.
TableItemsOf(p, page, i) ==
    {<<p, "table", i>>} \cup LinesIn(p, page, page.tables[i].box)
      \cup ImagesWith(p, InTables(page) \cup Backing(page))

TableItems(p, page) ==
    {<<p, "table", i>> : i \in {j \in 1..Len(page.tables) : page.tables[j].got # "empty"}}
      \cup {<<p, "line", l>> : l \in {k \in 1..Len(page.lines) : InTable(page, page.lines[k])}}
      \cup (IF TableBoxes(page) # <<>> THEN ImagesWith(p, InTables(page) \cup Backing(page)) ELSE {})

\* What is of a table, behind a figure or inside one is an item.
LEMMA ItemsOfPage ==
  ASSUME NEW p \in Int, NEW page \in PdfPages
  PROVE  /\ \A i \in 1..Len(page.tables) : TableItemsOf(p, page, i) \in SUBSET SourceItems
         /\ InTables(page) \subseteq Int /\ Backing(page) \subseteq Int /\ InFigures(page) \subseteq Int
         /\ \A S \in SUBSET Int : ImagesWith(p, S) \in SUBSET SourceItems
<1>1. InTables(page) \subseteq Int /\ Backing(page) \subseteq Int /\ InFigures(page) \subseteq Int
  BY DEF InTables, Backing, InFigures
<1>2. ASSUME NEW S \in SUBSET Int PROVE ImagesWith(p, S) \in SUBSET SourceItems
  BY PartNames, NamedItems DEF ImagesWith
<1>3. ASSUME NEW box PROVE LinesIn(p, page, box) \in SUBSET SourceItems
  <2> DEFINE S == {k \in 1..Len(page.lines) : PointInBox(page.lines[k], box)}
  <2>1. S \subseteq Int
    OBVIOUS
  <2>2. LinesIn(p, page, box) = {<<p, "line", l>> : l \in S}
    BY DEF LinesIn
  <2> HIDE DEF S
  <2> QED
    BY <2>1, <2>2, PartNames, NamedItems
<1>4. ASSUME NEW i \in 1..Len(page.tables) PROVE TableItemsOf(p, page, i) \in SUBSET SourceItems
  <2>0. i \in Int
    OBVIOUS
  <2>1. <<p, "table", i>> \in SourceItems
    BY <2>0, PartNames, NamedItem
  <2>2. ImagesWith(p, InTables(page) \cup Backing(page)) \in SUBSET SourceItems
    <3> DEFINE S == InTables(page) \cup Backing(page)
    <3>1. S \in SUBSET Int
      BY <1>1
    <3> HIDE DEF S
    <3>2. ImagesWith(p, S) \in SUBSET SourceItems
      BY <1>2, <3>1
    <3> QED
      BY <3>2 DEF S
  <2> QED
    BY <1>3, <2>1, <2>2 DEF TableItemsOf
<1> QED
  BY <1>1, <1>2, <1>4

\* Every table of a page is read, looked at, or left out and said to be.
LEMMA TablesAccounted ==
  ASSUME NEW p \in Int, NEW page \in PdfPages, page.found
  PROVE  Accounts(TableSteps(p, page), TableItems(p, page))
<1> DEFINE n == Len(page.tables)
           got(i) == page.tables[i].got
           F == [i \in 1..n |->
                   IF got(i) = "rows" THEN <<Emit(TableItemsOf(p, page, i), page.tables[i].box)>>
                   ELSE IF got(i) = "error" THEN <<Omit({<<p, "table", i>>})>> ELSE <<>>]
           items == [i \in 1..n |->
                   IF got(i) = "rows" THEN TableItemsOf(p, page, i)
                   ELSE IF got(i) = "error" THEN {<<p, "table", i>>} ELSE {}]
<1>1. TableSteps(p, page) = FlattenSeq(F)
  BY DEF TableSteps, Each, TableItemsOf, LinesIn, ImagesWith
<1>2. n \in Nat /\ \A i \in 1..n : page.tables[i] \in FoundTables
  BY PageFields, BoxesOfSeq
<1>3. ASSUME NEW i \in 1..n PROVE page.tables[i].box \in Boxes /\ got(i) \in {"rows", "empty", "error"}
  BY <1>2 DEF FoundTables
<1>4. ASSUME NEW i \in 1..n PROVE Accounts(F[i], items[i])
  <2> DEFINE of == TableItemsOf(p, page, i)
             one == {<<p, "table", i>>}
  <2>0. i \in Int
    OBVIOUS
  <2>1. <<p, "table", i>> \in SourceItems
    BY <2>0, PartNames, NamedItem
  <2>2. of \in SUBSET SourceItems /\ one \in SUBSET SourceItems
    BY <2>1, ItemsOfPage
  <2>3. /\ F[i] = IF got(i) = "rows" THEN <<Emit(of, page.tables[i].box)>>
                  ELSE IF got(i) = "error" THEN <<Omit(one)>> ELSE <<>>
        /\ items[i] = IF got(i) = "rows" THEN of ELSE IF got(i) = "error" THEN one ELSE {}
    OBVIOUS
  <2> HIDE DEF of, one, F, items, got, n
  <2>4. Accounts(<<Emit(of, page.tables[i].box)>>, of) /\ Accounts(<<Omit(one)>>, one)
    BY <1>3, <2>2, EmitAccounted, OmitAccounted
  <2> QED
    BY <2>3, <2>4, NoStep
<1>5. F = [i \in 1..n |-> F[i]]
  OBVIOUS
<1>6. ASSUME NEW i \in 1..n, got(i) = "rows" PROVE items[i] = TableItemsOf(p, page, i)
  BY <1>6
<1>7. ASSUME NEW i \in 1..n, got(i) = "error" PROVE items[i] = {<<p, "table", i>>}
  BY <1>7
<1> HIDE DEF F, items
<1>8. ASSUME NEW x \in TableItems(p, page) PROVE \E i \in 1..n : x \in items[i]
  <2>1. CASE x \in {<<p, "table", i>> : i \in {j \in 1..n : page.tables[j].got # "empty"}}
    <3>1. PICK i \in 1..n : x = <<p, "table", i>> /\ got(i) # "empty"
      BY <2>1
    <3>2. got(i) = "rows" \/ got(i) = "error"
      BY <1>3, <3>1
    <3>3. CASE got(i) = "rows"
      <4>1. x \in TableItemsOf(p, page, i)
        BY <3>1 DEF TableItemsOf
      <4> QED
        BY <1>6, <3>3, <4>1
    <3>4. CASE got(i) = "error"
      BY <1>7, <3>1, <3>4
    <3> QED
      BY <3>2, <3>3, <3>4
  <2>2. CASE x \in {<<p, "line", l>> : l \in {k \in 1..Len(page.lines) : InTable(page, page.lines[k])}}
    <3>1. PICK l \in 1..Len(page.lines) : x = <<p, "line", l>> /\ InTable(page, page.lines[l])
      BY <2>2
    <3>2. PICK i \in 1..n : got(i) = "rows" /\ PointInBox(page.lines[l], page.tables[i].box)
      BY <3>1, InTableRead
    <3>3. x \in TableItemsOf(p, page, i)
      BY <3>1, <3>2 DEF TableItemsOf, LinesIn
    <3> QED
      BY <1>6, <3>2, <3>3
  <2>3. CASE TableBoxes(page) # <<>> /\ x \in ImagesWith(p, InTables(page) \cup Backing(page))
    <3>1. PICK i \in 1..n : got(i) = "rows"
      BY <2>3, InTableRead
    <3>2. x \in TableItemsOf(p, page, i)
      BY <2>3 DEF TableItemsOf
    <3> QED
      BY <1>6, <3>1, <3>2
  <2> QED
    BY <2>1, <2>2, <2>3 DEF TableItems
<1> HIDE DEF n, got
<1>9. Accounts(FlattenSeq(F), TableItems(p, page))
  BY <1>2, <1>4, <1>5, <1>8, EachPart
<1> QED
  BY <1>1, <1>9

\* Lines of prose: each, and the pictures they stand on.
WordItems(p, page) ==
    {<<p, "line", l>> : l \in {k \in 1..Len(page.lines) : ~InTable(page, page.lines[k])}}
      \cup (IF \E k \in 1..Len(page.lines) : ~InTable(page, page.lines[k])
            THEN ImagesWith(p, Backing(page)) ELSE {})

\* Every line that is in no table is told, with the pictures the text stands on.
LEMMA WordsAccounted ==
  ASSUME NEW p \in Int, NEW page \in PdfPages
  PROVE  Accounts(NativeWordRegions(p, page), WordItems(p, page))
<1> DEFINE n == Len(page.lines)
           table(i) == InTable(page, page.lines[i])
           of(i) == {<<p, "line", i>>} \cup ImagesWith(p, Backing(page))
           F == [i \in 1..n |-> IF table(i) THEN <<>> ELSE <<Emit(of(i), page.lines[i])>>]
           items == [i \in 1..n |-> IF table(i) THEN {} ELSE of(i)]
<1>1. NativeWordRegions(p, page) = FlattenSeq(F)
  BY DEF NativeWordRegions, Each, ImagesWith
<1>2. n \in Nat /\ \A i \in 1..n : page.lines[i] \in Boxes
  BY PageFields, BoxesOfSeq
<1>3. ASSUME NEW i \in 1..n PROVE Accounts(F[i], items[i])
  <2>0. i \in Int
    OBVIOUS
  <2>1. <<p, "line", i>> \in SourceItems
    BY <2>0, PartNames, NamedItem
  <2>2. of(i) \in SUBSET SourceItems
    BY <2>1, ItemsOfPage
  <2>3. /\ F[i] = IF table(i) THEN <<>> ELSE <<Emit(of(i), page.lines[i])>>
        /\ items[i] = IF table(i) THEN {} ELSE of(i)
    OBVIOUS
  <2> HIDE DEF of, F, items, table, n
  <2>4. Accounts(<<Emit(of(i), page.lines[i])>>, of(i))
    BY <1>2, <2>2, EmitAccounted
  <2> QED
    BY <2>3, <2>4, NoStep
<1>4. F = [i \in 1..n |-> F[i]]
  OBVIOUS
<1>5. ASSUME NEW x \in WordItems(p, page) PROVE \E i \in 1..n : x \in items[i]
  <2>1. CASE x \in {<<p, "line", l>> : l \in {k \in 1..n : ~InTable(page, page.lines[k])}}
    BY <2>1
  <2>2. CASE (\E k \in 1..n : ~table(k)) /\ x \in ImagesWith(p, Backing(page))
    BY <2>2
  <2> QED
    BY <1>5, <2>1, <2>2 DEF WordItems
<1> HIDE DEF F, items, n, table, of
<1>6. Accounts(FlattenSeq(F), WordItems(p, page))
  BY <1>2, <1>3, <1>4, <1>5, EachPart
<1> QED
  BY <1>1, <1>6

\* Figures: each, and the pictures in them.
FigureItems(p, page) ==
    {<<p, "figure", i>> : i \in 1..Len(page.figures)}
      \cup (IF page.figures # <<>> THEN ImagesWith(p, InFigures(page)) ELSE {})

\* Every figure of a page is seen with the images in it.
LEMMA FiguresAccounted ==
  ASSUME NEW p \in Int, NEW page \in PdfPages
  PROVE  Accounts(FigureSteps(p, page), FigureItems(p, page))
<1> DEFINE n == Len(page.figures)
           of(i) == {<<p, "figure", i>>} \cup ImagesWith(p, InFigures(page))
           F == [i \in 1..n |-> <<At(See(of(i), <<p, "figure", i>>, "omit"), page.figures[i])>>]
           items == [i \in 1..n |-> of(i)]
<1>1. FigureSteps(p, page) = FlattenSeq(F)
  BY DEF FigureSteps, Each, ImagesWith
<1>2. n \in Nat /\ \A i \in 1..n : page.figures[i] \in Boxes
  BY PageFields, BoxesOfSeq
<1>3. ASSUME NEW i \in 1..n PROVE Accounts(F[i], items[i])
  <2> DEFINE it == <<p, "figure", i>>
             s == See(of(i), it, "omit")
             a == At(s, page.figures[i])
  <2>0. i \in Int /\ it[2] = "figure"
    OBVIOUS
  <2>1. it \in SourceItems
    BY <2>0, PartNames, NamedItem
  <2>2. of(i) \in SUBSET SourceItems
    BY <2>1, ItemsOfPage
  <2>3. F[i] = <<a>> /\ items[i] = of(i)
    OBVIOUS
  <2> HIDE DEF of, F, items, it, n
  <2>4. s \in PlainSteps /\ s.of = of(i)
    BY <2>0, <2>1, <2>2, SeeStep
  <2> HIDE DEF s
  <2>5. a \in PlainSteps /\ a.of = of(i)
    BY <1>2, <2>4, PlacedStep
  <2> HIDE DEF a
  <2>6. Accounts(<<a>>, of(i))
    BY <2>5, OneStep
  <2> QED
    BY <2>3, <2>6
<1>4. F = [i \in 1..n |-> F[i]]
  OBVIOUS
<1>5. ASSUME NEW x \in FigureItems(p, page) PROVE \E i \in 1..n : x \in items[i]
  <2>1. CASE x \in {<<p, "figure", i>> : i \in 1..n}
    BY <2>1
  <2>2. CASE page.figures # <<>> /\ x \in ImagesWith(p, InFigures(page))
    <3>1. 1 \in 1..n
      BY <2>2, PageFields
    <3> QED
      BY <2>2, <3>1
  <2> QED
    BY <1>5, <2>1, <2>2 DEF FigureItems
<1> HIDE DEF F, items, n, of
<1>6. Accounts(FlattenSeq(F), FigureItems(p, page))
  BY <1>2, <1>3, <1>4, <1>5, EachPart
<1> QED
  BY <1>1, <1>6

\* Embedded pictures that are in no figure: those too small to read, and those that
\* neither a table nor the native text stands for.
ImageItems(p, page) ==
    ImagesWith(p, {i \in 1..Len(page.images) :
                     /\ i \notin InFigures(page)
                     /\ ~ImageIsReadable(page.images[i]) \/ i \notin Backing(page) \cup InTables(page)})

\* An embedded picture that is too small to read is left out and said to be.
LEMMA UnreadableStep ==
  ASSUME NEW p \in Int, NEW i, i \in Int, NEW box, box \in Boxes
  PROVE  Accounts(UnreadableImage(p, i, box), {<<p, "image", i>>})
<1> DEFINE items == {<<p, "image", i>>}
           s == Step("omit", items)
           a == [s EXCEPT !.top = box[2]]
           b == [a EXCEPT !.left = box[1]]
<1>1. <<p, "image", i>> \in SourceItems
  BY PartNames, NamedItem
<1>2. items \in SUBSET SourceItems
  BY <1>1
<1>3. UnreadableImage(p, i, box) = <<b>>
  BY DEF UnreadableImage, Omit
<1> HIDE DEF items
<1>4. s \in PlainSteps /\ s.of = items
  BY <1>2, Recorded
<1> HIDE DEF s
<1>5. s \in LoaderStep
  BY <1>4 DEF PlainSteps, SoundSteps
<1>6. box[1] \in Int /\ box[2] \in Int
  BY BoxNumbers
<1>7. /\ a \in LoaderStep /\ a.op = s.op /\ a.of = s.of /\ a.at = s.at /\ a.how = s.how /\ a.image = s.image
  BY <1>5, <1>6 DEF LoaderStep
<1> HIDE DEF a
<1>8. /\ b \in LoaderStep /\ b.op = a.op /\ b.of = a.of /\ b.at = a.at /\ b.how = a.how /\ b.image = a.image
  BY <1>6, <1>7 DEF LoaderStep
<1> HIDE DEF b
<1>9. b \in PlainSteps /\ b.of = items
  BY <1>4, <1>7, <1>8 DEF PlainSteps, SoundSteps
<1>10. Accounts(<<b>>, items)
  BY <1>9, OneStep
<1> QED
  BY <1>3, <1>10 DEF items

\* Every embedded picture that is in no figure is seen or left out and said to be,
\* unless a table or the text stands for it.
LEMMA ImagesAccounted ==
  ASSUME NEW p \in Int, NEW page \in PdfPages
  PROVE  Accounts(ImageSteps(p, page), ImageItems(p, page))
<1> DEFINE n == Len(page.images)
           box(i) == page.images[i]
           one(i) == {<<p, "image", i>>}
           figure(i) == i \in InFigures(page)
           tiny(i) == ~ImageIsReadable(box(i))
           stood(i) == i \in Backing(page) \cup InTables(page)
           F == [i \in 1..n |->
                   IF figure(i) THEN <<>>
                   ELSE IF tiny(i) THEN UnreadableImage(p, i, box(i))
                   ELSE IF stood(i) THEN <<>>
                   ELSE IF ~page.cropped THEN <<At(Omit(one(i)), box(i))>>
                   ELSE <<At(See(one(i), <<p, "image", i>>, "omit"), box(i))>>]
           items == [i \in 1..n |->
                   IF figure(i) THEN {} ELSE IF tiny(i) THEN one(i) ELSE IF stood(i) THEN {} ELSE one(i)]
<1>1. ImageSteps(p, page) = FlattenSeq(F)
  BY DEF ImageSteps, Each
<1>2. n \in Nat /\ \A i \in 1..n : box(i) \in Boxes
  BY PageFields, BoxesOfSeq
<1>3. ASSUME NEW i \in 1..n PROVE Accounts(F[i], items[i])
  <2> DEFINE it == <<p, "image", i>>
             s == See(one(i), it, "omit")
             o == Step("omit", one(i))
             as == At(s, box(i))
             ao == At(o, box(i))
             u == UnreadableImage(p, i, box(i))
  <2>0. i \in Int /\ it[2] = "image"
    OBVIOUS
  <2>1. it \in SourceItems
    BY <2>0, PartNames, NamedItem
  <2>2. one(i) \in SUBSET SourceItems
    BY <2>1
  <2>3. Accounts(u, one(i))
    <3> HIDE DEF box, u, n
    <3>1. Accounts(UnreadableImage(p, i, box(i)), {<<p, "image", i>>})
      BY <1>2, <2>0, UnreadableStep
    <3> QED
      BY <3>1 DEF u
  <2>4. /\ F[i] = IF figure(i) THEN <<>> ELSE IF tiny(i) THEN u ELSE IF stood(i) THEN <<>>
                  ELSE IF ~page.cropped THEN <<ao>> ELSE <<as>>
        /\ items[i] = IF figure(i) THEN {} ELSE IF tiny(i) THEN one(i) ELSE IF stood(i) THEN {} ELSE one(i)
    BY DEF Omit
  <2> HIDE DEF F, items, one, it, n, figure, tiny, stood, u, box
  <2>5. s \in PlainSteps /\ s.of = one(i) /\ o \in PlainSteps /\ o.of = one(i)
    BY <2>0, <2>1, <2>2, SeeStep, Recorded
  <2> HIDE DEF s, o
  <2>6. as \in PlainSteps /\ as.of = one(i) /\ ao \in PlainSteps /\ ao.of = one(i)
    BY <1>2, <2>5, PlacedStep
  <2> HIDE DEF as, ao
  <2>7. Accounts(<<as>>, one(i)) /\ Accounts(<<ao>>, one(i))
    BY <2>6, OneStep
  <2> QED
    BY <2>3, <2>4, <2>7, NoStep
<1>4. F = [i \in 1..n |-> F[i]]
  OBVIOUS
<1>5. ASSUME NEW x \in ImageItems(p, page) PROVE \E i \in 1..n : x \in items[i]
  <2>1. PICK i \in 1..n : x = <<p, "image", i>> /\ ~figure(i) /\ (tiny(i) \/ ~stood(i))
    BY <1>5 DEF ImageItems, ImagesWith
  <2>2. x \in one(i)
    BY <2>1
  <2> HIDE DEF one, figure, tiny, stood, F
  <2>3. x \in items[i]
    BY <2>1, <2>2
  <2> QED
    BY <2>3
<1> HIDE DEF F, items, n
<1>6. Accounts(FlattenSeq(F), ImageItems(p, page))
  BY <1>2, <1>3, <1>4, <1>5, EachPart
<1> QED
  BY <1>1, <1>6

\* What there is on a page are items.
LEMMA PageItemsTyped ==
  ASSUME NEW p \in Int, NEW page \in PdfPages
  PROVE  PageItems(p, page) \in SUBSET SourceItems
<1> SUFFICES ASSUME NEW x \in PageItems(p, page) PROVE x \in SourceItems
  OBVIOUS
<1>1. \E kind \in {"table", "tables", "line", "image", "figure", "graphics"} : \E i \in Int : x = <<p, kind, i>>
  <2>1. CASE page.found /\ x \in {<<p, "table", i>> : i \in {j \in 1..Len(page.tables) :
                                                               page.tables[j].got # "empty"}}
    BY <2>1
  <2>2. CASE ~page.found /\ x = <<p, "tables", 0>>
    BY <2>2
  <2>3. CASE x \in {<<p, "line", i>> : i \in 1..Len(page.lines)}
    BY <2>3
  <2>4. CASE x \in {<<p, "image", i>> : i \in 1..Len(page.images)}
    BY <2>4
  <2>5. CASE x \in {<<p, "figure", i>> : i \in 1..Len(page.figures)}
    BY <2>5
  <2>6. CASE x = <<p, "graphics", 0>>
    BY <2>6
  <2> QED
    BY <2>1, <2>2, <2>3, <2>4, <2>5, <2>6 DEF PageItems
<1> QED
  BY <1>1, PartNames, NamedItem

\* A picture is in a table, under the native text, in a figure, or on its own.
LEMMA EveryImage ==
  ASSUME NEW p \in Int, NEW page \in PdfPages, NEW k \in 1..Len(page.images)
  PROVE  \/ <<p, "image", k>> \in ImageItems(p, page)
         \/ <<p, "image", k>> \in FigureItems(p, page)
         \/ page.found /\ <<p, "image", k>> \in TableItems(p, page)
         \/ <<p, "image", k>> \in WordItems(p, page)
<1>0. page.images[k] \in Boxes
  BY PageFields, BoxesOfSeq
<1>1. CASE k \in InFigures(page)
  <2>1. CoveredBy(page.images[k], page.figures, 90)
    BY <1>1 DEF InFigures
  <2>2. page.figures # <<>>
    BY <1>0, <2>1, CoveredByNone
  <2> QED
    BY <1>1, <2>2 DEF FigureItems, ImagesWith
<1>2. CASE k \notin InFigures(page) /\ k \notin Backing(page) \cup InTables(page)
  BY <1>2 DEF ImageItems, ImagesWith
<1>3. CASE TableBoxes(page) # <<>> /\ k \in Backing(page) \cup InTables(page)
  <2>1. page.found
    BY <1>3, InTableRead
  <2> QED
    BY <1>3, <2>1 DEF TableItems, ImagesWith
<1>4. CASE TableBoxes(page) = <<>> /\ k \in InTables(page)
  <2>1. CoveredBy(page.images[k], TableBoxes(page), 95)
    BY <1>4 DEF InTables
  <2> QED
    BY <1>0, <1>4, <2>1, CoveredByNone
<1>5. CASE TableBoxes(page) = <<>> /\ k \in Backing(page)
  <2>1. page.lines # <<>>
    BY <1>5 DEF Backing, ImageBacksNativeText
  <2>2. 1 \in 1..Len(page.lines)
    BY <2>1, PageFields
  <2>3. ~InTable(page, page.lines[1])
    BY <1>5, InTableRead
  <2> QED
    BY <1>5, <2>2, <2>3 DEF WordItems, ImagesWith
<1> QED
  BY <1>1, <1>2, <1>3, <1>4, <1>5

\* Native text is read with the tables, words, figures and pictures of the page.
LEMMA NativeAccounted ==
  ASSUME NEW p \in Int, NEW page \in PdfPages, ~NeedsFullPage(page)
  PROVE  Accounts(TableSteps(p, page) \o GraphicsSteps(p, page) \o NativeWordRegions(p, page)
                    \o FigureSteps(p, page) \o ImageSteps(p, page),
                  PageItems(p, page) \ PagePassedOver(p, page))
<1> DEFINE t == TableSteps(p, page)
           g == GraphicsSteps(p, page)
           w == NativeWordRegions(p, page)
           f == FigureSteps(p, page)
           m == ImageSteps(p, page)
           ti == IF page.found THEN TableItems(p, page) ELSE {<<p, "tables", 0>>}
           gi == IF page.graphics /\ TableBoxes(page) = <<>> THEN {<<p, "graphics", 0>>} ELSE {}
           wi == WordItems(p, page)
           fi == FigureItems(p, page)
           mi == ImageItems(p, page)
           wanted == PageItems(p, page) \ PagePassedOver(p, page)
<1>1. Accounts(t, ti)
  <2>1. CASE page.found
    BY <2>1, TablesAccounted
  <2>2. CASE ~page.found
    <3> DEFINE it == <<p, "tables", 0>>
    <3>1. it \in SourceItems
      BY PartNames, NamedItem
    <3>2. t = <<Omit({it})>> /\ ti = {it}
      BY <2>2 DEF TableSteps
    <3> HIDE DEF it, t, ti
    <3>3. {it} \in SUBSET SourceItems
      BY <3>1
    <3> QED
      BY <3>2, <3>3, OmitAccounted
  <2> QED
    BY <2>1, <2>2
<1>2. Accounts(g, gi)
  <2> DEFINE it == <<p, "graphics", 0>>
  <2>1. it \in SourceItems
    BY PartNames, NamedItem
  <2>2. page.graphics /\ TableBoxes(page) = <<>> => NativeTextStatus(page) = "usable"
    BY DEF NeedsFullPage, NativeTextStatus
  <2>3. /\ g = IF page.graphics /\ TableBoxes(page) = <<>> THEN <<Omit({it})>> ELSE <<>>
        /\ gi = IF page.graphics /\ TableBoxes(page) = <<>> THEN {it} ELSE {}
    BY <2>2 DEF GraphicsSteps
  <2> HIDE DEF it, g, gi
  <2>4. {it} \in SUBSET SourceItems
    BY <2>1
  <2>5. Accounts(<<Omit({it})>>, {it})
    BY <2>4, OmitAccounted
  <2> QED
    BY <2>3, <2>5, NoStep
<1>3. Accounts(w, wi) /\ Accounts(f, fi) /\ Accounts(m, mi)
  BY WordsAccounted, FiguresAccounted, ImagesAccounted
<1>4. wanted \subseteq (((ti \cup gi) \cup wi) \cup fi) \cup mi
  <2> SUFFICES ASSUME NEW x \in wanted PROVE x \in ti \/ x \in gi \/ x \in wi \/ x \in fi \/ x \in mi
    BY Zenon
  <2>0. x \in PageItems(p, page) /\ x \notin PagePassedOver(p, page)
    OBVIOUS
  <2>1. CASE page.found /\ x \in {<<p, "table", i>> : i \in {j \in 1..Len(page.tables) :
                                                               page.tables[j].got # "empty"}}
    BY <2>1 DEF TableItems
  <2>2. CASE ~page.found /\ x = <<p, "tables", 0>>
    BY <2>2
  <2>3. CASE x \in {<<p, "line", i>> : i \in 1..Len(page.lines)}
    <3>1. PICK i \in 1..Len(page.lines) : x = <<p, "line", i>>
      BY <2>3
    <3>2. CASE InTable(page, page.lines[i])
      <4>1. page.found
        BY <3>2, InTableRead
      <4> QED
        BY <3>1, <3>2, <4>1 DEF TableItems
    <3>3. CASE ~InTable(page, page.lines[i])
      BY <3>1, <3>3 DEF WordItems
    <3> QED
      BY <3>2, <3>3
  <2>4. CASE x \in {<<p, "image", i>> : i \in 1..Len(page.images)}
    <3>1. PICK k \in 1..Len(page.images) : x = <<p, "image", k>>
      BY <2>4
    <3> QED
      BY <3>1, EveryImage
  <2>5. CASE x \in {<<p, "figure", i>> : i \in 1..Len(page.figures)}
    BY <2>5 DEF FigureItems
  <2>6. CASE page.graphics /\ x = <<p, "graphics", 0>>
    <3>1. TableBoxes(page) = <<>>
      BY <2>0, <2>6 DEF PagePassedOver
    <3> QED
      BY <2>6, <3>1
  <2> HIDE DEF wanted
  <2> QED
    BY <2>0, <2>1, <2>2, <2>3, <2>4, <2>5, <2>6 DEF PageItems
<1> HIDE DEF t, g, w, f, m, ti, gi, wi, fi, mi, wanted
<1>5. Accounts(t \o g, ti \cup gi)
  BY <1>1, <1>2, StepsThenSteps
<1>6. Accounts((t \o g) \o w, (ti \cup gi) \cup wi)
  BY <1>3, <1>5, StepsThenSteps
<1>7. Accounts(((t \o g) \o w) \o f, ((ti \cup gi) \cup wi) \cup fi)
  BY <1>3, <1>6, StepsThenSteps
<1>8. Accounts((((t \o g) \o w) \o f) \o m, (((ti \cup gi) \cup wi) \cup fi) \cup mi)
  BY <1>3, <1>7, StepsThenSteps
<1>9. Accounts(t \o g \o w \o f \o m, wanted)
  BY <1>4, <1>8, FewerItems
<1> QED
  BY <1>9 DEF t, g, w, f, m, wanted

\* A page that is read as a whole.
LEMMA WholePageAccounted ==
  ASSUME NEW p \in Int, NEW page \in PdfPages
  PROVE  Accounts(FullPageSteps(p, page), PageItems(p, page))
<1> DEFINE n == Len(page.regions)
           F == [i \in 1..n |-> <<See({}, <<p, "region", i>>, "skip")>>]
           it == <<p, "page", 0>>
           items == PageItems(p, page)
           last == <<See(items, it, "raise")>>
           nothing == [i \in 1..n |-> {}]
<1>1. FullPageSteps(p, page) = FlattenSeq(F) \o last
  BY DEF FullPageSteps, Each
<1>2. n \in Nat
  BY PageFields
<1>3. ASSUME NEW i \in 1..n PROVE Accounts(F[i], nothing[i])
  <2> DEFINE r == <<p, "region", i>>
             s == See({}, r, "skip")
  <2>0. i \in Int /\ r[2] = "region"
    OBVIOUS
  <2>1. r \in SourceItems
    BY <2>0, PartNames, NamedItem
  <2>2. F[i] = <<s>> /\ nothing[i] = {}
    OBVIOUS
  <2> HIDE DEF r, F, nothing
  <2>3. s \in PlainSteps
    BY <2>0, <2>1, SeeStep
  <2> HIDE DEF s
  <2> QED
    BY <2>2, <2>3, OneStep, FewerItems
<1>4. F = [i \in 1..n |-> F[i]]
  OBVIOUS
<1> HIDE DEF F, nothing, n
<1>5. Accounts(FlattenSeq(F), {})
  BY <1>2, <1>3, <1>4, EachPart
<1>6. Accounts(last, items)
  <2>1. it[2] = "page"
    OBVIOUS
  <2>2. it \in SourceItems /\ items \in SUBSET SourceItems
    BY PartNames, NamedItem, PageItemsTyped
  <2> HIDE DEF it, items
  <2> QED
    BY <2>1, <2>2, WholeSeen
<1> HIDE DEF last, items
<1>7. Accounts(FlattenSeq(F) \o last, {} \cup items)
  BY <1>5, <1>6, StepsThenSteps
<1> QED
  BY <1>1, <1>7 DEF items

\* A page of a PDF file, whichever way it is read: by its text layer, by its
\* layout, as a whole picture, or not at all.
LEMMA PageAccounted ==
  ASSUME NEW p \in Int, NEW page \in PdfPages
  PROVE  Accounts(PageSteps(page, p), PageItems(p, page) \ PagePassedOver(p, page))
<1> DEFINE items == PageItems(p, page) \ PagePassedOver(p, page)
           first == <<[Step("layout", {}) EXCEPT !.image = <<p, "layout", 0>>]>>
           body == IF NeedsFullPage(page) THEN FullPageSteps(p, page)
                   ELSE TableSteps(p, page) \o GraphicsSteps(p, page) \o NativeWordRegions(p, page)
                          \o FigureSteps(p, page) \o ImageSteps(p, page)
           last == <<[Step("page", {}) EXCEPT !.how = IF page.labels THEN "rows" ELSE "columns"]>>
<1>1. PageSteps(page, p) = IF page.huge THEN Refuse ELSE first \o body \o last
  BY DEF PageSteps
<1>2. Accounts(first, {})
  BY LayoutAsked
<1>3. Accounts(body, items)
  <2>1. CASE NeedsFullPage(page)
    <3>1. Accounts(FullPageSteps(p, page), items)
      BY WholePageAccounted, FewerItems
    <3> QED
      BY <2>1, <3>1
  <2>2. CASE ~NeedsFullPage(page)
    BY <2>2, NativeAccounted
  <2> QED
    BY <2>1, <2>2
<1>4. Accounts(last, {})
  <2> DEFINE how == IF page.labels THEN "rows" ELSE "columns"
             s == [Step("page", {}) EXCEPT !.how = how]
  <2>1. how \in {"rows", "columns"}
    OBVIOUS
  <2> HIDE DEF how
  <2>2. s \in PlainSteps
    BY <2>1, PageStep
  <2> HIDE DEF s
  <2>3. Accounts(<<s>>, {})
    BY <2>2, OneStep, FewerItems
  <2> QED
    BY <2>3 DEF s, how
<1> HIDE DEF first, body, last, items
<1>5. Accounts(first \o body, {} \cup items)
  BY <1>2, <1>3, StepsThenSteps
<1>6. Accounts((first \o body) \o last, ({} \cup items) \cup {})
  BY <1>4, <1>5, StepsThenSteps
<1>7. Accounts(first \o body \o last, items)
  BY <1>6
<1> QED
  BY <1>1, <1>7, RefusalAccounts DEF items

\* A PDF file: every page of it.
LEMMA PdfAccounted ==
  ASSUME NEW pdf, pdf.pages \in Seq(PdfPages)
  PROVE  Accounts(PdfSteps(pdf), (UNION {PageItems(p, pdf.pages[p]) : p \in 1..Len(pdf.pages)})
                                   \ UNION {PagePassedOver(p, pdf.pages[p]) : p \in 1..Len(pdf.pages)})
<1> DEFINE n == Len(pdf.pages)
           F == [p \in 1..n |-> PageSteps(pdf.pages[p], p)]
           items == [p \in 1..n |-> PageItems(p, pdf.pages[p]) \ PagePassedOver(p, pdf.pages[p])]
           wanted == (UNION {PageItems(p, pdf.pages[p]) : p \in 1..n})
                       \ UNION {PagePassedOver(p, pdf.pages[p]) : p \in 1..n}
<1>1. n \in Nat /\ F = [i \in 1..n |-> F[i]]
  OBVIOUS
<1>2. ASSUME NEW p \in 1..n PROVE Accounts(F[p], items[p])
  <2>1. p \in Int /\ pdf.pages[p] \in PdfPages
    OBVIOUS
  <2> QED
    BY <2>1, PageAccounted
<1>3. \A x \in wanted : \E p \in 1..n : x \in items[p]
  <2>1. SUFFICES ASSUME NEW x \in wanted PROVE \E p \in 1..n : x \in items[p]
    OBVIOUS
  <2>2. PICK p \in 1..n : x \in PageItems(p, pdf.pages[p])
    OBVIOUS
  <2>3. x \notin PagePassedOver(p, pdf.pages[p])
    OBVIOUS
  <2> QED
    BY <2>2, <2>3
<1>4. PdfSteps(pdf) = IF n > MaxPages THEN Refuse ELSE FlattenSeq(F)
  BY DEF PdfSteps, Each
<1> HIDE DEF F, items, wanted, n
<1>5. Accounts(FlattenSeq(F), wanted)
  BY <1>1, <1>2, <1>3, EachPart
<1>6. Accounts(PdfSteps(pdf), wanted)
  BY <1>4, <1>5, RefusalAccounts
<1> QED
  BY <1>6 DEF wanted, n

(***************************************************************************)
(* Marked-up text.                                                         *)
(***************************************************************************)
Headings(lines) == [level : Nat, at : {h \in 1..Len(lines) : lines[h].kind = "heading"}]

\* An element is told by its own lines, and by the heading it is the table of.
TextBlocks(lines) ==
    {b \in [route : {"prose", "code", "table"}, from : Int, to : Int,
            of : SUBSET (1..Len(lines)), path : Seq(Headings(lines))] :
        \A i \in b.of : i \in b.from..b.to \/ lines[i].kind = "heading"}

Told(els) == UNION {els[k].of : k \in 1..Len(els)}

\* Where the splitter may be: what it has passed and not gathered is told.
Splits(lines) ==
    {st \in [els : Seq(TextBlocks(lines)), i : 1..(Len(lines) + 1), start : 1..(Len(lines) + 1),
             stack : Seq(Headings(lines))] :
        /\ st.start <= st.i
        /\ NotBlank(lines, 1..(st.start - 1)) \subseteq Told(st.els)}

\* Where the splitter may be, part by part.
LEMMA SplitFields ==
  ASSUME NEW lines, NEW st \in Splits(lines)
  PROVE  /\ st = [els |-> st.els, i |-> st.i, start |-> st.start, stack |-> st.stack]
         /\ st.els \in Seq(TextBlocks(lines)) /\ st.i \in 1..(Len(lines) + 1)
         /\ st.start \in 1..(Len(lines) + 1) /\ st.stack \in Seq(Headings(lines))
         /\ st.start <= st.i
         /\ NotBlank(lines, 1..(st.start - 1)) \subseteq Told(st.els)
BY DEF Splits

\* Parts that fit each other are a place where the splitter may be.
LEMMA SplitOf ==
  ASSUME NEW lines, NEW els, els \in Seq(TextBlocks(lines)), NEW i, i \in 1..(Len(lines) + 1),
         NEW start, start \in 1..(Len(lines) + 1), NEW stack, stack \in Seq(Headings(lines)),
         start <= i, NotBlank(lines, 1..(start - 1)) \subseteq Told(els)
  PROVE  [els |-> els, i |-> i, start |-> start, stack |-> stack] \in Splits(lines)
BY DEF Splits

\* A run ends where it began or later, and not after the text.
LEMMA RunEnds ==
  ASSUME NEW lines, Len(lines) \in Nat, NEW i \in 1..(Len(lines) + 1), NEW those
  PROVE  /\ RunEnd(lines, i, those) \in (i - 1)..Len(lines)
         /\ i <= Len(lines) /\ i \in those => RunEnd(lines, i, those) >= i
<1> DEFINE stops == (i..Len(lines)) \ those
<1>1. stops \in SUBSET Nat
  OBVIOUS
<1>2. stops # {} => Min(stops) \in stops
  BY <1>1, LeastOf
<1>3. RunEnd(lines, i, those) = IF stops = {} THEN Len(lines) ELSE Min(stops) - 1
  BY DEF RunEnd
<1>4. \A m \in stops : m \in i..Len(lines) /\ m \notin those
  OBVIOUS
<1> HIDE DEF stops
<1>5. CASE stops = {}
  BY <1>3, <1>5
<1>6. CASE stops # {}
  <2> DEFINE m == Min(stops)
  <2>1. m \in i..Len(lines) /\ m \notin those
    BY <1>2, <1>4, <1>6
  <2>2. RunEnd(lines, i, those) = m - 1
    BY <1>3, <1>6
  <2> HIDE DEF m
  <2>3. i \in those => m # i
    BY <2>1
  <2> QED
    BY <2>1, <2>2, <2>3
<1> QED
  BY <1>5, <1>6

\* What is shown of the headings over a place.
LEMMA PathShown ==
  ASSUME NEW T, NEW stack \in Seq(T) PROVE ShownPath(stack) \in Seq(T)
<1>1. CASE Len(stack) <= 4
  BY <1>1 DEF ShownPath
<1>2. CASE ~(Len(stack) <= 4)
  <2>1. Len(stack) \in Nat /\ 1 \in 1..Len(stack) /\ Len(stack) - 2 \in 1..Len(stack)
    BY <1>2
  <2>2. <<stack[1]>> \in Seq(T)
    BY <2>1
  <2>3. SubSeq(stack, Len(stack) - 2, Len(stack)) \in Seq(T)
    BY <2>1
  <2>4. <<stack[1]>> \o SubSeq(stack, Len(stack) - 2, Len(stack)) \in Seq(T)
    BY <2>2, <2>3
  <2> QED
    BY <1>2, <2>4 DEF ShownPath
<1> QED
  BY <1>1, <1>2

\* A block of lines tells every line of it that is not blank.
LEMMA BlockTyped ==
  ASSUME NEW lines, Len(lines) \in Nat, NEW route, route \in {"prose", "code", "table"},
         NEW from, from \in 1..(Len(lines) + 1), NEW to, to \in 0..Len(lines),
         NEW stack, stack \in Seq(Headings(lines))
  PROVE  /\ Block(route, lines, from, to, stack) \in TextBlocks(lines)
         /\ NotBlank(lines, from..to) \subseteq Block(route, lines, from, to, stack).of
<1> DEFINE own == NotBlank(lines, from..to)
           caption == IF route = "table" /\ stack # <<>> THEN {Last(stack).at} ELSE {}
           path == ShownPath(stack)
           of == own \cup caption
<1>1. own \subseteq 1..Len(lines) /\ \A i \in own : i \in from..to
  BY DEF NotBlank
<1>2. ASSUME NEW i \in caption PROVE i \in 1..Len(lines) /\ lines[i].kind = "heading"
  <2>1. stack # <<>> /\ i = stack[Len(stack)].at
    BY <1>2 DEF Last
  <2>2. stack[Len(stack)] \in Headings(lines)
    BY <2>1
  <2> QED
    BY <2>1, <2>2 DEF Headings
<1>3. path \in Seq(Headings(lines))
  BY PathShown
<1>4. Block(route, lines, from, to, stack) = [route |-> route, from |-> from, to |-> to, of |-> of, path |-> path]
  BY DEF Block
<1>5. of \in SUBSET (1..Len(lines)) /\ \A i \in of : i \in from..to \/ lines[i].kind = "heading"
  BY <1>1, <1>2
<1>6. own \subseteq of
  OBVIOUS
<1> HIDE DEF own, caption, path, of
<1> DEFINE b == [route |-> route, from |-> from, to |-> to, of |-> of, path |-> path]
<1>7. b \in TextBlocks(lines) /\ b.of = of
  BY <1>3, <1>5 DEF TextBlocks
<1> QED
  BY <1>4, <1>6, <1>7 DEF own

\* An element more tells more.
LEMMA TellsMore ==
  ASSUME NEW T, NEW els \in Seq(T), NEW b, b \in T
  PROVE  /\ Append(els, b) \in Seq(T)
         /\ Told(Append(els, b)) = Told(els) \cup b.of
<1> DEFINE more == Append(els, b)
<1>1. /\ more \in Seq(T) /\ Len(more) = Len(els) + 1 /\ Len(els) \in Nat
      /\ \A k \in 1..Len(els) : more[k] = els[k]
      /\ more[Len(els) + 1] = b
  OBVIOUS
<1> HIDE DEF more
<1>2. \A k \in 1..Len(more) : k \in 1..Len(els) \/ k = Len(els) + 1
  BY <1>1
<1>3. \A k \in 1..Len(els) : k \in 1..Len(more)
  BY <1>1
<1>4. Len(els) + 1 \in 1..Len(more)
  BY <1>1
<1>5. Told(more) = Told(els) \cup b.of
  BY <1>1, <1>2, <1>3, <1>4 DEF Told
<1> QED
  BY <1>1, <1>5 DEF more

\* The prose that was gathered is told.
LEMMA FlushTells ==
  ASSUME NEW lines, Len(lines) \in Nat, NEW st \in Splits(lines)
  PROVE  /\ Flush(lines, st) \in Seq(TextBlocks(lines))
         /\ NotBlank(lines, 1..(st.i - 1)) \subseteq Told(Flush(lines, st))
<1> DEFINE prose == NotBlank(lines, st.start..(st.i - 1))
           b == Block("prose", lines, st.start, st.i - 1, st.stack)
<1>1. /\ st.els \in Seq(TextBlocks(lines)) /\ st.i \in 1..(Len(lines) + 1)
      /\ st.start \in 1..(Len(lines) + 1) /\ st.stack \in Seq(Headings(lines))
      /\ st.start <= st.i
      /\ NotBlank(lines, 1..(st.start - 1)) \subseteq Told(st.els)
  BY SplitFields
<1>2. b \in TextBlocks(lines) /\ prose \subseteq b.of
  <2> PICK to \in 0..Len(lines) : to = st.i - 1
    BY <1>1
  <2>1. /\ Block("prose", lines, st.start, to, st.stack) \in TextBlocks(lines)
        /\ NotBlank(lines, st.start..to) \subseteq Block("prose", lines, st.start, to, st.stack).of
    BY <1>1, BlockTyped
  <2> QED
    BY <2>1
<1>3. NotBlank(lines, 1..(st.i - 1)) = NotBlank(lines, 1..(st.start - 1)) \cup prose
  <2>1. \A i \in 1..(st.i - 1) : i \in 1..(st.start - 1) \/ i \in st.start..(st.i - 1)
    BY <1>1
  <2>2. \A i : i \in 1..(st.start - 1) \/ i \in st.start..(st.i - 1) => i \in 1..(st.i - 1)
    BY <1>1
  <2> QED
    BY <2>1, <2>2 DEF NotBlank
<1>4. Flush(lines, st) = IF prose = {} THEN st.els ELSE Append(st.els, b)
  BY DEF Flush
<1> HIDE DEF prose, b
<1>5. CASE prose = {}
  BY <1>1, <1>3, <1>4, <1>5
<1>6. CASE prose # {}
  <2>1. Append(st.els, b) \in Seq(TextBlocks(lines)) /\ Told(Append(st.els, b)) = Told(st.els) \cup b.of
    BY <1>1, <1>2, TellsMore
  <2> QED
    BY <1>1, <1>2, <1>3, <1>4, <1>6, <2>1
<1> QED
  BY <1>5, <1>6

\* So are the lines a table or a code block takes.
LEMMA BlockTaken ==
  ASSUME NEW lines, Len(lines) \in Nat, NEW st \in Splits(lines),
         NEW route, route \in {"code", "table"}, NEW end, end \in st.i..Len(lines)
  PROVE  /\ TakeBlock(lines, st, route, end) \in Splits(lines)
         /\ TakeBlock(lines, st, route, end).i >= st.i + 1
<1> DEFINE f == Flush(lines, st)
           b == Block(route, lines, st.i, end, st.stack)
           els == Append(f, b)
<1>1. st.i \in 1..(Len(lines) + 1) /\ st.stack \in Seq(Headings(lines))
  BY SplitFields
<1>2. end \in 1..Len(lines) /\ end + 1 \in 1..(Len(lines) + 1) /\ end \in 0..Len(lines) /\ end >= st.i
  BY <1>1
<1>3. f \in Seq(TextBlocks(lines)) /\ NotBlank(lines, 1..(st.i - 1)) \subseteq Told(f)
  BY FlushTells
<1>4. b \in TextBlocks(lines) /\ NotBlank(lines, st.i..end) \subseteq b.of
  BY <1>1, <1>2, BlockTyped
<1>5. TakeBlock(lines, st, route, end) = [els |-> els, i |-> end + 1, start |-> end + 1, stack |-> st.stack]
  BY DEF TakeBlock
<1>6. NotBlank(lines, 1..((end + 1) - 1)) = NotBlank(lines, 1..(st.i - 1)) \cup NotBlank(lines, st.i..end)
  <2>0. (end + 1) - 1 = end
    BY <1>2
  <2>1. \A i \in 1..end : i \in 1..(st.i - 1) \/ i \in st.i..end
    BY <1>1, <1>2
  <2>2. \A i : i \in 1..(st.i - 1) \/ i \in st.i..end => i \in 1..end
    BY <1>1, <1>2
  <2> QED
    BY <2>0, <2>1, <2>2 DEF NotBlank
<1> HIDE DEF f, b
<1>7. els \in Seq(TextBlocks(lines)) /\ Told(els) = Told(f) \cup b.of
  BY <1>3, <1>4, TellsMore
<1> HIDE DEF els
<1>8. NotBlank(lines, 1..((end + 1) - 1)) \subseteq Told(els)
  BY <1>3, <1>4, <1>6, <1>7
<1>9. PICK next \in 1..(Len(lines) + 1) : next = end + 1
  BY <1>2
<1>10. [els |-> els, i |-> next, start |-> next, stack |-> st.stack] \in Splits(lines)
  BY <1>1, <1>7, <1>8, <1>9, SplitOf
<1>11. [els |-> els, i |-> next, start |-> next, stack |-> st.stack].i >= st.i + 1
  BY <1>1, <1>2, <1>9
<1> QED
  BY <1>5, <1>9, <1>10, <1>11

\* A heading closes others and stands over what follows.
LEMMA HeadingsOver ==
  ASSUME NEW T, NEW stack \in Seq(T), NEW heading \in T
  PROVE  Under(stack, heading) \in Seq(T)
<1> DEFINE n == Len(stack)
           F == [i \in 1..n |-> IF stack[i].level < heading.level THEN <<stack[i]>> ELSE <<>>]
<1>1. n \in Nat /\ \A i \in 1..n : stack[i] \in T
  OBVIOUS
<1>2. ASSUME NEW i \in 1..n PROVE F[i] \in Seq(T)
  <2>1. <<stack[i]>> \in Seq(T) /\ <<>> \in Seq(T)
    BY <1>1
  <2> QED
    BY <2>1
<1>3. F = [i \in 1..n |-> F[i]]
  OBVIOUS
<1>4. Under(stack, heading) = Append(FlattenSeq(F), heading)
  BY DEF Under, Each
<1> HIDE DEF F, n
<1>5. F \in [1..n -> Seq(T)]
  BY <1>2, <1>3
<1>6. F \in Seq(Seq(T))
  BY <1>1, <1>5
<1>7. FlattenSeq(F) \in Seq(T)
  BY <1>6, FlattenRange
<1> QED
  BY <1>4, <1>7

\* A fence ends in the text, at its closing line or the last.
LEMMA FenceEnds ==
  ASSUME NEW lines, Len(lines) \in Nat, NEW i \in 1..Len(lines)
  PROVE  FenceEnd(lines, i) \in i..Len(lines)
<1> DEFINE those == {j \in 1..Len(lines) : lines[j].kind # "fence"}
           e == RunEnd(lines, i + 1, those)
<1>1. i + 1 \in 1..(Len(lines) + 1)
  OBVIOUS
<1>2. FenceEnd(lines, i) = Least(e + 1, Len(lines))
  BY DEF FenceEnd
<1> HIDE DEF those
<1>3. e \in ((i + 1) - 1)..Len(lines)
  BY <1>1, RunEnds
<1> HIDE DEF e
<1>4. (i + 1) - 1 = i
  OBVIOUS
<1> QED
  BY <1>2, <1>3, <1>4 DEF Least

\* A table of pipes ends in the text, after its rule at the least.
LEMMA PipeTableEnds ==
  ASSUME NEW lines, Len(lines) \in Nat, NEW i \in 1..Len(lines), PipeTable(lines, i), NEW those
  PROVE  RunEnd(lines, i + 2, those) \in i..Len(lines)
<1>1. i + 2 \in 1..(Len(lines) + 1)
  BY DEF PipeTable
<1>2. RunEnd(lines, i + 2, those) \in ((i + 2) - 1)..Len(lines)
  BY <1>1, RunEnds
<1> QED
  BY <1>2

\* A step of the splitter takes a line or more, and what it takes is told or gathered.
LEMMA SplitStep ==
  ASSUME NEW lines, lines \in Seq(TextLines), NEW st \in Splits(lines), st.i <= Len(lines)
  PROVE  SplitFrom(lines, st) \in Splits(lines) /\ SplitFrom(lines, st).i >= st.i + 1
<1>1. /\ st = [els |-> st.els, i |-> st.i, start |-> st.start, stack |-> st.stack]
      /\ st.els \in Seq(TextBlocks(lines)) /\ st.i \in 1..(Len(lines) + 1)
      /\ st.start \in 1..(Len(lines) + 1) /\ st.stack \in Seq(Headings(lines))
      /\ st.start <= st.i
      /\ NotBlank(lines, 1..(st.start - 1)) \subseteq Told(st.els)
  BY SplitFields
<1>2. Len(lines) \in Nat /\ st.i \in 1..Len(lines) /\ lines[st.i] \in TextLines
  BY <1>1
<1> DEFINE i == st.i
           pipes == {j \in 1..Len(lines) : lines[j].kind \in {"pipe", "rule"}}
           tabs == {j \in 1..Len(lines) : lines[j].kind = "tab" /\ lines[j].cols = lines[i].cols}
           pe == RunEnd(lines, i + 2, pipes)
           te == RunEnd(lines, i, tabs)
           fe == FenceEnd(lines, i)
           heading == [els |-> Flush(lines, st), i |-> i + 1, start |-> i,
                       stack |-> Under(st.stack, [level |-> lines[i].level, at |-> i])]
           prose == [st EXCEPT !.i = i + 1]
<1>3. CASE lines[i].kind = "fence"
  <2>1. SplitFrom(lines, st) = TakeBlock(lines, st, "code", fe)
    BY <1>3 DEF SplitFrom
  <2>2. fe \in st.i..Len(lines)
    BY <1>2, FenceEnds
  <2> HIDE DEF fe
  <2> QED
    BY <1>2, <2>1, <2>2, BlockTaken
<1>4. CASE lines[i].kind # "fence" /\ PipeTable(lines, i)
  <2>1. SplitFrom(lines, st) = TakeBlock(lines, st, "table", pe)
    BY <1>4 DEF SplitFrom
  <2> HIDE DEF pipes
  <2>2. pe \in st.i..Len(lines)
    BY <1>2, <1>4, PipeTableEnds
  <2> HIDE DEF pe
  <2> QED
    BY <1>2, <2>1, <2>2, BlockTaken
<1>5. CASE lines[i].kind # "fence" /\ ~PipeTable(lines, i) /\ TabTable(lines, i)
  <2>1. SplitFrom(lines, st) = TakeBlock(lines, st, "table", te)
    BY <1>5 DEF SplitFrom
  <2>2. i \in tabs
    <3>1. i \in i..(i + 2)
      BY <1>2
    <3> QED
      BY <1>2, <1>5, <3>1 DEF TabTable
  <2> HIDE DEF tabs
  <2>3. te \in (i - 1)..Len(lines) /\ te >= i
    BY <1>1, <1>2, <2>2, RunEnds
  <2> HIDE DEF te
  <2>4. te \in st.i..Len(lines)
    BY <1>2, <2>3
  <2> QED
    BY <1>2, <2>1, <2>4, BlockTaken
<1>6. CASE lines[i].kind # "fence" /\ ~PipeTable(lines, i) /\ ~TabTable(lines, i) /\ lines[i].kind = "heading"
  <2>1. SplitFrom(lines, st) = heading
    BY <1>6 DEF SplitFrom
  <2>2. [level |-> lines[i].level, at |-> i] \in Headings(lines)
    <3>1. lines[i].level \in Nat
      BY <1>2 DEF TextLines
    <3> QED
      BY <1>2, <1>6, <3>1 DEF Headings
  <2>3. Under(st.stack, [level |-> lines[i].level, at |-> i]) \in Seq(Headings(lines))
    BY <1>1, <2>2, HeadingsOver
  <2>4. Flush(lines, st) \in Seq(TextBlocks(lines)) /\ NotBlank(lines, 1..(i - 1)) \subseteq Told(Flush(lines, st))
    BY <1>2, FlushTells
  <2> DEFINE fl == Flush(lines, st)
             un == Under(st.stack, [level |-> lines[i].level, at |-> i])
  <2>5. fl \in Seq(TextBlocks(lines)) /\ un \in Seq(Headings(lines)) /\ NotBlank(lines, 1..(i - 1)) \subseteq Told(fl)
    BY <2>3, <2>4
  <2>6. heading = [els |-> fl, i |-> i + 1, start |-> i, stack |-> un]
    OBVIOUS
  <2> HIDE DEF fl, un, heading
  <2>7. PICK next \in 1..(Len(lines) + 1) : next = i + 1
    BY <1>2
  <2>8. [els |-> fl, i |-> next, start |-> i, stack |-> un] \in Splits(lines)
    BY <1>1, <1>2, <2>5, <2>7, SplitOf
  <2>9. [els |-> fl, i |-> next, start |-> i, stack |-> un].i >= st.i + 1
    BY <1>2, <2>7
  <2> QED
    BY <2>1, <2>6, <2>7, <2>8, <2>9
<1>7. CASE lines[i].kind # "fence" /\ ~PipeTable(lines, i) /\ ~TabTable(lines, i) /\ lines[i].kind # "heading"
  <2>1. SplitFrom(lines, st) = prose
    BY <1>7 DEF SplitFrom
  <2>2. PICK next \in 1..(Len(lines) + 1) : next = i + 1
    BY <1>2
  <2>3. prose = [els |-> st.els, i |-> next, start |-> st.start, stack |-> st.stack]
    BY <1>1, <2>2
  <2> HIDE DEF prose
  <2>4. st.start <= next
    BY <1>1, <1>2, <2>2
  <2>5. [els |-> st.els, i |-> next, start |-> st.start, stack |-> st.stack] \in Splits(lines)
    BY <1>1, <2>2, <2>4, SplitOf
  <2>6. [els |-> st.els, i |-> next, start |-> st.start, stack |-> st.stack].i >= st.i + 1
    BY <1>2, <2>2
  <2> QED
    BY <2>1, <2>3, <2>5, <2>6
<1> QED
  BY <1>3, <1>4, <1>5, <1>6, <1>7

\* The splitter comes to the end of the text.
LEMMA SplitsWhole ==
  ASSUME NEW lines, lines \in Seq(TextLines)
  PROVE  SplitRest(lines) \in Splits(lines) /\ SplitRest(lines).i = Len(lines) + 1
<1> DEFINE N == Len(lines)
           T == Splits(lines)
           begin == [els |-> <<>>, i |-> 1, start |-> 1, stack |-> <<>>]
           on(st) == IF st.i > Len(lines) THEN st ELSE SplitFrom(lines, st)
           walk[n \in 0..Len(lines)] ==
             IF n = 0 THEN [els |-> <<>>, i |-> 1, start |-> 1, stack |-> <<>>]
             ELSE LET st == walk[n - 1] IN IF st.i > Len(lines) THEN st ELSE SplitFrom(lines, st)
<1>1. N \in Nat
  OBVIOUS
<1>2. begin \in T
  <2>1. NotBlank(lines, 1..(1 - 1)) = {}
    BY DEF NotBlank
  <2>2. 1 \in 1..(Len(lines) + 1) /\ 1 <= 1 /\ <<>> \in Seq(TextBlocks(lines)) /\ <<>> \in Seq(Headings(lines))
    BY <1>1
  <2> HIDE DEF walk, on
  <2>3. NotBlank(lines, 1..(1 - 1)) \subseteq Told(<<>>)
    BY <2>1
  <2> QED
    BY <2>2, <2>3, SplitOf
<1>3. ASSUME NEW st \in T
      PROVE  on(st) \in T /\ (on(st).i = N + 1 \/ on(st).i >= st.i + 1)
  <2>1. st.i \in 1..(N + 1)
    BY SplitFields
  <2>2. CASE st.i > N
    BY <1>1, <2>1, <2>2
  <2>3. CASE ~(st.i > N)
    <3>1. st.i <= Len(lines)
      BY <1>1, <2>1, <2>3
    <3>2. SplitFrom(lines, st) \in Splits(lines) /\ SplitFrom(lines, st).i >= st.i + 1
      BY <3>1, SplitStep
    <3> QED
      BY <2>3, <3>2
  <2> QED
    BY <2>2, <2>3
<1>4. /\ walk[0] = begin
      /\ \A n \in 1..N : walk[n] = on(walk[n - 1])
  <2> DEFINE step == [p \in T \X (1..N) |-> on(p[1])]
  <2>1. step \in Stepping(T, N)
    <3> HIDE DEF T, on
    <3> QED
      BY <1>3 DEF Stepping
  <2> HIDE DEF step, begin, T, N, on
  <2>2. PICK f : Recursive(f, N, T, begin, step)
    BY <1>1, <1>2, <2>1, RecursionExists
  <2>3. /\ f \in [0..N -> T] /\ f[0] = begin
        /\ \A n \in 1..N : f[n] = step[<<f[n - 1], n>>]
    BY <2>2 DEF Recursive
  <2>4. ASSUME NEW n \in 1..N PROVE f[n] = on(f[n - 1])
    <3>1. n - 1 \in 0..N
      BY <1>1
    <3>2. <<f[n - 1], n>> \in T \X (1..N)
      BY <2>3, <3>1
    <3>3. step[<<f[n - 1], n>>] = on(f[n - 1])
      BY <3>2 DEF step
    <3> QED
      BY <2>3, <3>3
  <2>5. \A n \in 0..N : f[n] = IF n = 0 THEN begin ELSE on(f[n - 1])
    BY <1>1, <2>3, <2>4
  <2>6. f = [n \in 0..N |-> IF n = 0 THEN begin ELSE on(f[n - 1])]
    BY <2>3, <2>5
  <2>7. f = [n \in 0..Len(lines) |->
               IF n = 0 THEN [els |-> <<>>, i |-> 1, start |-> 1, stack |-> <<>>]
               ELSE LET st == f[n - 1] IN IF st.i > Len(lines) THEN st ELSE SplitFrom(lines, st)]
    BY <2>6 DEF begin, on, N
  <2>8. walk = [n \in 0..Len(lines) |->
               IF n = 0 THEN [els |-> <<>>, i |-> 1, start |-> 1, stack |-> <<>>]
               ELSE LET st == walk[n - 1] IN IF st.i > Len(lines) THEN st ELSE SplitFrom(lines, st)]
    BY <2>7
  <2> HIDE DEF walk
  <2>9. walk = [n \in 0..N |-> IF n = 0 THEN begin ELSE on(walk[n - 1])]
    BY <2>8 DEF begin, on, N
  <2>10. 0 \in 0..N /\ \A n \in 1..N : n \in 0..N /\ n # 0
    BY <1>1
  <2> QED
    BY <2>9, <2>10
<1>5. SplitRest(lines) = walk[N]
  BY DEF SplitRest
<1> HIDE DEF walk, on, begin, T
<1> DEFINE P == {n \in Nat : n <= N => walk[n] \in T /\ (walk[n].i = N + 1 \/ walk[n].i >= n + 1)}
<1>6. 0 \in P
  <2>1. walk[0].i = 1
    BY <1>4 DEF begin
  <2> QED
    BY <1>2, <1>4, <2>1
<1>7. ASSUME NEW n \in Nat, n \in P PROVE n + 1 \in P
  <2> SUFFICES ASSUME n + 1 <= N
               PROVE  walk[n + 1] \in T /\ (walk[n + 1].i = N + 1 \/ walk[n + 1].i >= (n + 1) + 1)
    OBVIOUS
  <2> DEFINE a == walk[n]
             b == walk[n + 1]
  <2>1. n <= N /\ n + 1 \in 1..N /\ (n + 1) - 1 = n
    BY <1>1
  <2>2. a \in T /\ (a.i = N + 1 \/ a.i >= n + 1)
    BY <1>7, <2>1
  <2>3. b = on(a)
    BY <1>4, <2>1
  <2> HIDE DEF a, b, N
  <2>4. b \in T /\ (b.i = N + 1 \/ b.i >= a.i + 1)
    BY <1>3, <2>2, <2>3
  <2>5. a.i \in 1..(N + 1) /\ b.i \in 1..(N + 1)
    BY <2>2, <2>4, SplitFields DEF T, N
  <2>6. b.i = N + 1 \/ b.i >= (n + 1) + 1
    BY <1>1, <2>2, <2>4, <2>5
  <2> QED
    BY <2>4, <2>6 DEF b
<1> HIDE DEF P
<1>8. N \in P
  BY <1>1, <1>6, <1>7, NumberInduction
<1>9. walk[N] \in T /\ (walk[N].i = N + 1 \/ walk[N].i >= N + 1)
  BY <1>1, <1>8 DEF P
<1>10. walk[N].i \in 1..(N + 1)
  BY <1>9, SplitFields DEF T
<1>11. walk[N].i = N + 1
  <2> HIDE DEF N
  <2> QED
    BY <1>1, <1>9, <1>10
<1> QED
  BY <1>5, <1>9, <1>11 DEF T

\* A heading that is dropped is told by the table after it.
LEMMA DroppedIsTold ==
  ASSUME NEW lines, NEW els, els \in Seq(TextBlocks(lines))
  PROVE  /\ DropRedundantHeadings(lines, els) \in Seq(TextBlocks(lines))
         /\ Told(els) \subseteq Told(DropRedundantHeadings(lines, els))
<1> DEFINE T == TextBlocks(lines)
           n == Len(els)
           redundant(i) ==
              /\ els[i].route = "prose" /\ i < Len(els) /\ els[i + 1].route = "table"
              /\ \E h \in els[i].of : els[i].of = {h} /\ lines[h].kind = "heading"
                                       /\ h \in els[i + 1].of
           F == [i \in 1..n |-> IF redundant(i) THEN <<>> ELSE <<els[i]>>]
           kept == FlattenSeq(F)
<1>1. DropRedundantHeadings(lines, els) = kept
  BY DEF DropRedundantHeadings, Each
<1>2. n \in Nat /\ \A i \in 1..n : els[i] \in T
  OBVIOUS
<1>3. ASSUME NEW i \in 1..n
      PROVE  /\ F[i] \in Seq(T)
             /\ ToSet(F[i]) = IF redundant(i) THEN {} ELSE {els[i]}
  <2>1. F[i] = IF redundant(i) THEN <<>> ELSE <<els[i]>>
    OBVIOUS
  <2>2. <<els[i]>> \in Seq(T) /\ <<>> \in Seq(T)
    BY <1>2
  <2>3. \A x : ToSet(<<x>>) = {x}
    BY DEF ToSet
  <2>4. ToSet(<<>>) = {}
    BY DEF ToSet
  <2> HIDE DEF F, T, redundant
  <2>5. CASE redundant(i)
    BY <2>1, <2>2, <2>4, <2>5
  <2>6. CASE ~redundant(i)
    BY <2>1, <2>2, <2>3, <2>6
  <2> QED
    BY <2>5, <2>6
<1>4. F = [i \in 1..n |-> F[i]]
  OBVIOUS
<1>5. ASSUME NEW i \in 1..n, redundant(i)
      PROVE  i + 1 \in 1..n /\ ~redundant(i + 1) /\ els[i].of \subseteq els[i + 1].of
  <2>1. i + 1 \in 1..n /\ els[i + 1].route = "table"
    BY <1>2, <1>5
  <2>2. ~redundant(i + 1)
    BY <2>1
  <2>3. els[i].of \subseteq els[i + 1].of
    BY <1>5
  <2> QED
    BY <2>1, <2>2, <2>3
<1> HIDE DEF F, redundant, T
<1>6. F \in Seq(Seq(T)) /\ Len(F) = n
  <2>1. F \in [1..n -> Seq(T)]
    BY <1>3, <1>4
  <2> HIDE DEF n
  <2> QED
    BY <1>2, <2>1
<1>7. kept \in Seq(T) /\ ToSet(kept) = UNION {ToSet(F[i]) : i \in 1..n}
  <2> HIDE DEF n
  <2> QED
    BY <1>6, FlattenRange
<1> HIDE DEF kept
<1>8. ASSUME NEW i \in 1..n, ~redundant(i) PROVE \E k \in 1..Len(kept) : kept[k] = els[i]
  <2>1. els[i] \in ToSet(F[i])
    BY <1>3, <1>8
  <2>2. els[i] \in ToSet(kept)
    BY <1>7, <2>1
  <2> QED
    BY <1>7, <2>2 DEF ToSet
<1>9. ASSUME NEW i \in 1..n, NEW x \in els[i].of PROVE x \in Told(kept)
  <2>1. CASE redundant(i)
    <3> DEFINE j == i + 1
    <3>1. j \in 1..n /\ ~redundant(j) /\ x \in els[j].of
      BY <1>5, <1>9, <2>1
    <3> HIDE DEF j
    <3>2. PICK k \in 1..Len(kept) : kept[k] = els[j]
      BY <1>8, <3>1
    <3> QED
      BY <3>1, <3>2 DEF Told
  <2>2. CASE ~redundant(i)
    <3>2. PICK k \in 1..Len(kept) : kept[k] = els[i]
      BY <1>8, <2>2
    <3> QED
      BY <1>9, <3>2 DEF Told
  <2> QED
    BY <2>1, <2>2
<1>10. Told(els) \subseteq Told(kept)
  BY <1>9 DEF Told
<1> QED
  BY <1>1, <1>7, <1>10 DEF T

\* The blocks of a text tell every line of it that is not blank.
LEMMA BlocksTell ==
  ASSUME NEW lines, lines \in Seq(TextLines)
  PROVE  /\ SplitBlocks(lines) \in Seq(TextBlocks(lines))
         /\ NotBlank(lines, 1..Len(lines)) \subseteq Told(SplitBlocks(lines))
<1> DEFINE st == SplitRest(lines)
           f == Flush(lines, st)
<1>1. Len(lines) \in Nat
  OBVIOUS
<1>2. st \in Splits(lines) /\ st.i = Len(lines) + 1
  BY SplitsWhole
<1>3. SplitBlocks(lines) = DropRedundantHeadings(lines, f)
  BY DEF SplitBlocks
<1> HIDE DEF st
<1>4. st.i - 1 = Len(lines)
  BY <1>1, <1>2
<1>5. f \in Seq(TextBlocks(lines)) /\ NotBlank(lines, 1..(st.i - 1)) \subseteq Told(f)
  BY <1>1, <1>2, FlushTells
<1> HIDE DEF f
<1>6. /\ DropRedundantHeadings(lines, f) \in Seq(TextBlocks(lines))
      /\ Told(f) \subseteq Told(DropRedundantHeadings(lines, f))
  BY <1>5, DroppedIsTold
<1> QED
  BY <1>3, <1>4, <1>5, <1>6

\* What a step says of the lines it was read from.
ReadsThere(file, step) ==
    step.at # <<>> =>
       \A item \in step.of :
          \/ item[3] \in step.at[1]..step.at[2]
          \/ file.lines[item[3]].kind = "heading"

\* A text: every line is told, and where an element says it stands.
LEMMA TextAccounted ==
  ASSUME NEW text, text.lines \in Seq(TextLines)
  PROVE  /\ TextSteps(text) \in Seq(SoundSteps)
         /\ TextItems(text) \subseteq Accounted(TextSteps(text))
         /\ \A k \in 1..Len(TextSteps(text)) : ReadsThere(text, TextSteps(text)[k])
<1> DEFINE lines == text.lines
           els == SplitBlocks(lines)
           n == Len(els)
           items(k) == {<<1, "line", i>> : i \in els[k].of}
           step(k) == [Step("emit", items(k)) EXCEPT !.at = <<els[k].from, els[k].to>>]
           steps == [k \in 1..n |-> step(k)]
<1>1. els \in Seq(TextBlocks(lines)) /\ NotBlank(lines, 1..Len(lines)) \subseteq Told(els)
  BY BlocksTell
<1>2. TextSteps(text) = steps
  BY DEF TextSteps
<1>3. TextItems(text) = {<<1, "line", i>> : i \in NotBlank(lines, 1..Len(lines))}
  BY DEF TextItems
<1> HIDE DEF els, lines
<1>4. n \in Nat /\ \A k \in 1..n : els[k] \in TextBlocks(lines)
  BY <1>1
<1>5. ASSUME NEW k \in 1..n
      PROVE  step(k) \in SoundSteps /\ step(k).of = items(k) /\ ReadsThere(text, step(k))
  <2> DEFINE from == els[k].from
             to == els[k].to
             of == els[k].of
             its == items(k)
             s == Step("emit", its)
             a == [s EXCEPT !.at = <<from, to>>]
  <2>1. /\ from \in Int /\ to \in Int /\ of \subseteq Int
        /\ \A i \in of : i \in from..to \/ lines[i].kind = "heading"
    <3>1. els[k] \in TextBlocks(lines)
      BY <1>4
    <3> QED
      BY <3>1 DEF TextBlocks
  <2>2. its \in SUBSET SourceItems
    BY <2>1, PartNames, NamedItems
  <2>3. ASSUME NEW x \in its PROVE x[3] \in from..to \/ lines[x[3]].kind = "heading"
    <3>1. PICK i \in of : x = <<1, "line", i>>
      OBVIOUS
    <3>2. x[3] = i
      BY <3>1
    <3> QED
      BY <2>1, <3>2
  <2>4. step(k) = a
    OBVIOUS
  <2> HIDE DEF its, of, from, to, step
  <2>5. s \in LoaderStep /\ s.op = "emit" /\ s.of = its /\ s.at = <<>> /\ s.how = "none"
    BY <2>2, StepFields
  <2> HIDE DEF s
  <2>6. a \in LoaderStep /\ a.op = "emit" /\ a.of = its /\ a.how = "none" /\ a.at = <<from, to>>
    BY <2>1, <2>5 DEF LoaderStep
  <2> HIDE DEF a
  <2>7. a \in SoundSteps
    BY <2>6 DEF SoundSteps
  <2>8. a.at[1] = from /\ a.at[2] = to
    BY <2>6
  <2>9. ReadsThere(text, a)
    BY <2>3, <2>6, <2>8 DEF ReadsThere, lines
  <2> QED
    BY <2>4, <2>6, <2>7, <2>9 DEF its
<1>6. \A k \in 1..n : steps[k] = step(k)
  OBVIOUS
<1>7. steps = [k \in 1..n |-> steps[k]]
  OBVIOUS
<1> HIDE DEF step, steps, items
<1>8. steps \in Seq(SoundSteps) /\ Len(steps) = n
  <2>1. steps \in [1..n -> SoundSteps]
    BY <1>5, <1>6, <1>7
  <2> HIDE DEF n
  <2> QED
    BY <1>4, <2>1
<1>9. ASSUME NEW x \in TextItems(text) PROVE x \in Accounted(steps)
  <2>1. PICK i \in NotBlank(lines, 1..Len(lines)) : x = <<1, "line", i>>
    BY <1>3, <1>9
  <2>2. PICK k \in 1..n : i \in els[k].of
    BY <1>1, <2>1 DEF Told
  <2>3. x \in steps[k].of
    BY <1>5, <1>6, <2>1, <2>2 DEF items
  <2> QED
    BY <1>8, <2>2, <2>3 DEF Accounted
<1>10. \A k \in 1..Len(steps) : ReadsThere(text, steps[k])
  BY <1>5, <1>6, <1>8
<1> QED
  BY <1>2, <1>8, <1>9, <1>10

(***************************************************************************)
(* Every loader.                                                           *)
(***************************************************************************)
AccountsFor(file, steps, items) ==
    /\ steps \in Seq(SoundSteps)
    /\ Raises(steps) \/ items \subseteq Accounted(steps)
    /\ \A k \in 1..Len(steps) : ReadsThere(file, steps[k])

\* Steps that give no lines account for a file when they account for its items.
LEMMA PlainAccounts ==
  ASSUME NEW file, NEW steps, NEW items, Accounts(steps, items)
  PROVE  AccountsFor(file, steps, items)
<1>1. steps \in Seq(PlainSteps) /\ (Raises(steps) \/ items \subseteq Accounted(steps))
  BY DEF Accounts
<1>2. PlainSteps \subseteq SoundSteps /\ \A s \in PlainSteps : s.at = <<>>
  BY DEF PlainSteps
<1>3. steps \in Seq(SoundSteps)
  BY <1>1, <1>2, SeqWider
<1>4. \A k \in 1..Len(steps) : steps[k] \in PlainSteps
  BY <1>1
<1>5. \A k \in 1..Len(steps) : steps[k].at = <<>>
  BY <1>2, <1>4
<1> QED
  BY <1>1, <1>3, <1>5 DEF AccountsFor, ReadsThere

\* Whatever a file has in it, the steps of its loader are steps the extraction knows,
\* and each item of the file is in the account of one of them, unless the file is
\* refused or PassedOver names the item: beyond that, no table, picture, figure,
\* line, sheet or part is lost between the branches of a loader.
THEOREM LoadersAccountForFiles ==
  ASSUME NEW file, WellFormed(file)
  PROVE  AccountsFor(file, Steps(file), Items(file) \ PassedOver(file))
<1>1. CASE file.kind = "pdf"
  <2>1. file.pages \in Seq(PdfPages)
    BY <1>1 DEF WellFormed
  <2>2. Steps(file) = PdfSteps(file)
    BY <1>1 DEF Steps
  <2>3. /\ Items(file) = UNION {PageItems(p, file.pages[p]) : p \in 1..Len(file.pages)}
        /\ PassedOver(file) = UNION {PagePassedOver(p, file.pages[p]) : p \in 1..Len(file.pages)}
    BY <1>1 DEF Items, PassedOver
  <2> QED
    BY <2>1, <2>2, <2>3, PdfAccounted, PlainAccounts
<1>2. CASE file.kind \in {"md", "txt", "rtf"}
  <2>1. file.lines \in Seq(TextLines)
    BY <1>2 DEF WellFormed
  <2>2. Steps(file) = TextSteps(file)
    BY <1>2 DEF Steps
  <2>3. Items(file) \ PassedOver(file) = TextItems(file)
    BY <1>2 DEF Items, PassedOver
  <2> QED
    BY <2>1, <2>2, <2>3, TextAccounted DEF AccountsFor
<1>3. CASE file.kind = "docx"
  <2>1. file.body \in Seq(BodyChildren) /\ file.parts \in NamedParts
    BY <1>3 DEF WellFormed
  <2>2. Steps(file) = IF ArchiveAllowed(file.entries) THEN DocxSteps(file) ELSE Refuse
    BY <1>3 DEF Steps
  <2>3. Items(file) = DocxItems(file) /\ PassedOver(file) = DocxPassedOver(file)
    BY <1>3 DEF Items, PassedOver
  <2>4. Accounts(Steps(file), Items(file) \ PassedOver(file))
    BY <2>1, <2>2, <2>3, DocxAccounted, RefusalAccounts
  <2> QED
    BY <2>4, PlainAccounts
<1>4. CASE file.kind \in {"xlsx", "xls"}
  <2>1. file.sheets \in Seq(FilledSheets) /\ file.legacy \in BOOLEAN
    BY <1>4 DEF WellFormed
  <2>2. Steps(file) = WorkbookSteps(file) \/ Steps(file) = Refuse
    BY <1>4 DEF Steps
  <2>3. Items(file) = WorkbookItems(file) /\ PassedOver(file) = WorkbookPassedOver(file)
    BY <1>4 DEF Items, PassedOver
  <2>4. Accounts(Steps(file), Items(file) \ PassedOver(file))
    BY <2>1, <2>2, <2>3, WorkbookAccounted, RefusalAccounts
  <2> QED
    BY <2>4, PlainAccounts
<1>5. CASE file.kind = "image"
  <2>1. file.frames \in Seq([huge : BOOLEAN, regions : Nat])
    BY <1>5 DEF WellFormed
  <2>2. Steps(file) = ImageFileSteps(file)
    BY <1>5 DEF Steps
  <2>3. Items(file) \ PassedOver(file) = {<<f, "frame", 0>> : f \in 1..Len(file.frames)}
    BY <1>5 DEF Items, PassedOver
  <2> QED
    BY <2>1, <2>2, <2>3, FramesAccounted, PlainAccounts
<1>6. CASE file.kind = "csv"
  <2>2. Steps(file) = CsvSteps(file)
    BY <1>6 DEF Steps
  <2>3. Items(file) \ PassedOver(file) = IF file.columns = 0 THEN {} ELSE {<<1, "rows", 0>>}
    BY <1>6 DEF Items, PassedOver
  <2> QED
    BY <2>2, <2>3, CsvAccounted, PlainAccounts
<1>7. CASE file.kind = "html"
  <2>1. file.nodes \in Seq([tag : {"hidden", "visual", "table", "heading", "block", "inline"}, text : BOOLEAN,
                            inner : Nat])
    BY <1>7 DEF WellFormed
  <2>2. Steps(file) = HtmlSteps(file)
    BY <1>7 DEF Steps
  <2>3. Items(file) = HtmlItems(file) /\ PassedOver(file) = HtmlPassedOver(file)
    BY <1>7 DEF Items, PassedOver
  <2> QED
    BY <2>1, <2>2, <2>3, HtmlAccounted, PlainAccounts
<1>8. CASE file.kind \notin {"pdf", "md", "txt", "rtf", "docx", "xlsx", "xls", "image", "csv", "html"}
  <2>1. Steps(file) = Refuse
    BY <1>8 DEF Steps
  <2> QED
    BY <2>1, RefusalAccounts, PlainAccounts
<1> QED
  BY <1>1, <1>2, <1>3, <1>4, <1>5, <1>6, <1>7, <1>8

(***************************************************************************)
(* Lists                                                                   *)
(***************************************************************************)
\* No member stands twice in the list.
Unrepeated(s) == \A i, j \in 1..Len(s) : s[i] = s[j] => i = j

\* x stands among the first q of the list.
WithinFirst(s, x, q) == \E p \in 1..Len(s) : p <= q /\ s[p] = x

\* The smaller of two numbers.
LEMMA MinOfTwo ==
  ASSUME NEW a \in Int, NEW b \in Int
  PROVE  Min({a, b}) = IF a <= b THEN a ELSE b
<1>1. \A x \in {a, b} : (\A y \in {a, b} : x <= y) => x = IF a <= b THEN a ELSE b
  OBVIOUS
<1>2. \E x \in {a, b} : \A y \in {a, b} : x <= y
  OBVIOUS
<1> QED
  BY <1>1, <1>2 DEF Min

\* The larger of two numbers.
LEMMA MaxOfTwo ==
  ASSUME NEW a \in Int, NEW b \in Int
  PROVE  Max({a, b}) = IF a >= b THEN a ELSE b
<1>1. \A x \in {a, b} : (\A y \in {a, b} : x >= y) => x = IF a >= b THEN a ELSE b
  OBVIOUS
<1>2. \E x \in {a, b} : \A y \in {a, b} : x >= y
  OBVIOUS
<1> QED
  BY <1>1, <1>2 DEF Max

\* The largest of three numbers.
LEMMA MaxOfThree ==
  ASSUME NEW a \in Int, NEW b \in Int, NEW c \in Int
  PROVE  Max({a, b, c}) \in {a, b, c} /\ Max({a, b, c}) >= a
<1>1. \E x \in {a, b, c} : \A y \in {a, b, c} : x >= y
  OBVIOUS
<1>2. Max({a, b, c}) \in {a, b, c} /\ \A y \in {a, b, c} : Max({a, b, c}) >= y
  BY <1>1 DEF Max
<1> QED
  BY <1>2

\* What a list has is finite, and as many as the list is long if nothing stands in it twice.
LEMMA ListCount ==
  ASSUME NEW T, NEW s \in Seq(T)
  PROVE  /\ IsFiniteSet(ToSet(s)) /\ Cardinality(ToSet(s)) \in Nat
         /\ Unrepeated(s) => Cardinality(ToSet(s)) = Len(s)
<1>1. Len(s) \in Nat /\ DOMAIN s = 1..Len(s) /\ s \in [1..Len(s) -> T]
  OBVIOUS
<1>2. ToSet(s) = {s[i] : i \in 1..Len(s)}
  BY <1>1 DEF ToSet
<1>3. s \in [1..Len(s) -> ToSet(s)]
  BY <1>1, <1>2
<1>4. s \in Surjection(1..Len(s), ToSet(s))
  BY <1>2, <1>3 DEF Surjection
<1>5. IsFiniteSet(1..Len(s)) /\ Cardinality(1..Len(s)) = Len(s)
  BY <1>1, FS_Interval
<1>6. /\ IsFiniteSet(ToSet(s))
      /\ Cardinality(ToSet(s)) = Cardinality(1..Len(s)) <=> s \in Injection(1..Len(s), ToSet(s))
  BY <1>4, <1>5, FS_Surjection
<1>7. Unrepeated(s) => s \in Injection(1..Len(s), ToSet(s))
  BY <1>3 DEF Unrepeated, Injection, IsInjective
<1>8. Cardinality(ToSet(s)) \in Nat
  BY <1>6, FS_CardinalityType
<1> QED
  BY <1>5, <1>6, <1>7, <1>8

\* Where a member first stands.
LEMMA PositionOf ==
  ASSUME NEW T, NEW s \in Seq(T), NEW x \in ToSet(s)
  PROVE  /\ Position(s, x) \in 1..Len(s) /\ s[Position(s, x)] = x
         /\ \A i \in 1..Len(s) : s[i] = x => Position(s, x) <= i
<1> DEFINE at == {i \in 1..Len(s) : s[i] = x}
<1>1. at \in SUBSET Nat /\ at # {}
  BY DEF ToSet
<1>2. Min(at) \in at /\ \A m \in at : Min(at) <= m
  BY <1>1, LeastOf
<1>3. Position(s, x) = Min(at)
  BY DEF Position
<1> HIDE DEF at
<1>4. Position(s, x) \in at /\ \A m \in at : Position(s, x) <= m
  BY <1>2, <1>3
<1> QED
  BY <1>4 DEF at

\* A list puts its members in an order.
LEMMA InOrderOrders ==
  ASSUME NEW T, NEW s \in Seq(T), NEW A \in SUBSET ToSet(s)
  PROVE  Orders(InOrder(s), A)
<1> DEFINE at == [x \in ToSet(s) |-> Position(s, x)]
<1>1. \A x \in ToSet(s) : at[x] \in Int /\ s[at[x]] = x
  BY PositionOf
<1>2. \A x, y \in A : <<x, y>> \in InOrder(s) <=> at[x] < at[y]
  BY DEF InOrder
<1> HIDE DEF at
<1>3. \A x, y \in A : at[x] = at[y] => x = y
  BY <1>1
<1>4. \A x \in A : at[x] \in Int
  BY <1>1
<1> QED
  BY <1>2, <1>3, <1>4 DEF Orders

\* What stands in a strict order stands once.
LEMMA OrderedOnce ==
  ASSUME NEW S, NEW R, Orders(R, S), NEW s \in Seq(S),
         \A k, m \in 1..Len(s) : k < m => <<s[k], s[m]>> \in R
  PROVE  Unrepeated(s)
<1> SUFFICES ASSUME NEW k \in 1..Len(s), NEW m \in 1..Len(s), k < m, s[k] = s[m] PROVE FALSE
  BY DEF Unrepeated
<1>1. <<s[k], s[k]>> \in R /\ s[k] \in S
  OBVIOUS
<1> QED
  BY <1>1 DEF Orders

\* To keep those of a list that are in A: each once, in the order of the list.
LEMMA AmongIs ==
  ASSUME NEW T, NEW s \in Seq(T), NEW A
  PROVE  /\ Among(s, A) \in Seq(T) /\ ToSet(Among(s, A)) = ToSet(s) \cap A /\ Unrepeated(Among(s, A))
         /\ Len(Among(s, A)) = Cardinality(ToSet(s) \cap A)
         /\ \A k, m \in 1..Len(Among(s, A)) :
              k < m => Position(s, Among(s, A)[k]) < Position(s, Among(s, A)[m])
<1> DEFINE kept == ToSet(s) \cap A
           at == Among(s, A)
<1>1. IsFiniteSet(ToSet(s)) /\ ToSet(s) \subseteq T
  BY ListCount DEF ToSet
<1>2. kept \in SUBSET ToSet(s)
  OBVIOUS
<1>2a. IsFiniteSet(kept) 
  BY <1>1, <1>2, FS_Subset
<1>3. Orders(InOrder(s), kept)
  BY <1>2, InOrderOrders
<1>4. at = Arranged(kept, InOrder(s))
  BY DEF Among
<1> HIDE DEF kept, at
<1>5. /\ at \in Seq(kept) /\ Len(at) = Cardinality(kept) /\ ToSet(at) = kept
      /\ \A k, m \in 1..Len(at) : k < m => <<at[k], at[m]>> \in InOrder(s)
  BY <1>2a, <1>3, <1>4, ArrangedRange
<1>6. Unrepeated(at)
  BY <1>3, <1>5, OrderedOnce
<1>7. at \in Seq(T)
  BY <1>1, <1>2, <1>5, SeqWider
<1>8. \A k, m \in 1..Len(at) : k < m => Position(s, at[k]) < Position(s, at[m])
  BY <1>5 DEF InOrder
<1> QED
  BY <1>5, <1>6, <1>7, <1>8 DEF kept, at

\* A list without repetitions has the members of the list.
LEMMA DistinctIs ==
  ASSUME NEW T, NEW s \in Seq(T)
  PROVE  /\ Distinct(s) \in Seq(T) /\ ToSet(Distinct(s)) = ToSet(s) /\ Unrepeated(Distinct(s))
         /\ Len(Distinct(s)) = Cardinality(ToSet(s))
<1>1. ToSet(s) \cap ToSet(s) = ToSet(s) /\ Distinct(s) = Among(s, ToSet(s))
  BY DEF Distinct
<1> DEFINE d == Among(s, ToSet(s))
<1>2. d \in Seq(T) /\ ToSet(d) = ToSet(s) \cap ToSet(s) /\ Unrepeated(d) /\ Len(d) = Cardinality(ToSet(s) \cap ToSet(s))
  BY AmongIs
<1> HIDE DEF d
<1> QED
  BY <1>1, <1>2 DEF d

\* By score: the members of the list, each once.
LEMMA DescendingIs ==
  ASSUME NEW T, NEW s \in Seq(T), NEW score, \A x \in ToSet(s) : score[x] \in Int
  PROVE  /\ Descending(s, score) \in Seq(T) /\ ToSet(Descending(s, score)) = ToSet(s)
         /\ Unrepeated(Descending(s, score)) /\ Len(Descending(s, score)) = Cardinality(ToSet(s))
<1> DEFINE S == ToSet(s)
           R == {p \in S \X S : \/ score[p[1]] > score[p[2]]
                                \/ score[p[1]] = score[p[2]] /\ Position(s, p[1]) < Position(s, p[2])}
           at == [x \in S |-> Position(s, x)]
<1>1. IsFiniteSet(S) /\ S \subseteq T
  BY ListCount DEF ToSet
<1>2. \A x \in S : at[x] \in Int /\ s[at[x]] = x
  BY PositionOf
<1>3. \A x, y \in S : <<x, y>> \in R <=> score[x] > score[y] \/ (score[x] = score[y] /\ at[x] < at[y])
  OBVIOUS
<1>4. Descending(s, score) = Arranged(S, R)
  BY DEF Descending
<1> HIDE DEF at, R
<1>5. \A x, y \in S : at[x] = at[y] => x = y
  BY <1>2
<1>6. \A x \in S : at[x] \in Int /\ score[x] \in Int
  BY <1>2
<1> HIDE DEF S
<1>7. \A x, y \in S : <<x, y>> \in R => <<y, x>> \notin R
  BY <1>3, <1>6
<1>8. \A x, y \in S : x # y => <<x, y>> \in R \/ <<y, x>> \in R
  BY <1>3, <1>5, <1>6
<1>9. \A x, y, z \in S : <<x, y>> \in R /\ <<y, z>> \in R => <<x, z>> \in R
  BY <1>3, <1>6
<1>10. Orders(R, S)
  BY <1>7, <1>8, <1>9 DEF Orders
<1> DEFINE d == Arranged(S, R)
<1>11. /\ d \in Seq(S) /\ Len(d) = Cardinality(S) /\ ToSet(d) = S
       /\ \A k, m \in 1..Len(d) : k < m => <<d[k], d[m]>> \in R
  BY <1>1, <1>10, ArrangedRange
<1> HIDE DEF d
<1>12. Unrepeated(d) /\ d \in Seq(T)
  BY <1>1, <1>10, <1>11, OrderedOnce, SeqWider
<1> QED
  BY <1>4, <1>11, <1>12 DEF d, S

\* The first k of a list.
LEMMA TopIs ==
  ASSUME NEW T, NEW s \in Seq(T), NEW k \in Nat
  PROVE  /\ Top(s, k) \in Seq(T) /\ Len(Top(s, k)) = (IF k <= Len(s) THEN k ELSE Len(s))
         /\ \A i \in 1..Len(Top(s, k)) : i \in 1..Len(s) /\ Top(s, k)[i] = s[i]
         /\ ToSet(Top(s, k)) \subseteq ToSet(s)
         /\ Unrepeated(s) => Unrepeated(Top(s, k))
<1> DEFINE n == IF k <= Len(s) THEN k ELSE Len(s)
           t == Top(s, k)
<1>1. n \in Nat /\ n <= Len(s) /\ Len(s) \in Nat
  OBVIOUS
<1>2. Min({k, Len(s)}) = n
  BY <1>1, MinOfTwo
<1>3. t = SubSeq(s, 1, n)
  BY <1>2 DEF Top
<1> HIDE DEF n, t
<1>4. t = [i \in 1..n |-> s[i]]
  BY <1>1, <1>3
<1>5. \A i \in 1..n : s[i] \in T
  BY <1>1
<1>6. t \in Seq(T) /\ Len(t) = n
  BY <1>1, <1>4, <1>5
<1>7. \A i \in 1..n : i \in 1..Len(s) /\ t[i] = s[i]
  BY <1>1, <1>4
<1>8. ToSet(t) \subseteq ToSet(s)
  BY <1>4, <1>7 DEF ToSet
<1>9. Unrepeated(s) => Unrepeated(t)
  BY <1>6, <1>7 DEF Unrepeated
<1> QED
  BY <1>6, <1>7, <1>8, <1>9 DEF t, n

\* What stands among the first q stands in the list, and among the first of more.
LEMMA WithinIs ==
  ASSUME NEW T, NEW s \in Seq(T), NEW x, NEW q \in Nat, WithinFirst(s, x, q)
  PROVE  x \in ToSet(s) /\ Len(s) > 0 /\ \A r \in Nat : q <= r => WithinFirst(s, x, r)
<1>1. PICK p \in 1..Len(s) : p <= q /\ s[p] = x
  BY DEF WithinFirst
<1> QED
  BY <1>1 DEF WithinFirst, ToSet

\* A member of a list stands in it, at the latest at its end.
LEMMA WithinAll ==
  ASSUME NEW T, NEW s \in Seq(T), NEW x \in ToSet(s)
  PROVE  WithinFirst(s, x, Len(s))
  BY DEF WithinFirst, ToSet

\* To cut a list at k leaves what stood among the first k.
LEMMA WithinTop ==
  ASSUME NEW T, NEW s \in Seq(T), NEW x, NEW q \in Nat, NEW k \in Nat, q <= k, WithinFirst(s, x, q)
  PROVE  WithinFirst(Top(s, k), x, q)
<1>1. PICK p \in 1..Len(s) : p <= q /\ s[p] = x
  BY DEF WithinFirst
<1>2. p \in 1..Len(Top(s, k))
  BY <1>1, TopIs
<1>3. Top(s, k)[p] = x
  BY <1>1, <1>2, TopIs
<1> QED
  BY <1>1, <1>2, <1>3 DEF WithinFirst

\* What follows a list puts nothing in it back.
LEMMA WithinConcat ==
  ASSUME NEW T, NEW s \in Seq(T), NEW t \in Seq(T), NEW x, NEW q \in Nat, WithinFirst(s, x, q)
  PROVE  WithinFirst(s \o t, x, q)
<1>1. PICK p \in 1..Len(s) : p <= q /\ s[p] = x
  BY DEF WithinFirst
<1>2. p \in 1..Len(s \o t) /\ (s \o t)[p] = x
  BY <1>1
<1> QED
  BY <1>1, <1>2 DEF WithinFirst

\* Numbers that grow along a list are not behind their places.
LEMMA GrowingNumbers ==
  ASSUME NEW n \in Nat, NEW f \in [1..n -> Nat \ {0}], \A k, m \in 1..n : k < m => f[k] < f[m]
  PROVE  \A k \in 1..n : k <= f[k]
<1> DEFINE P == {k \in Nat : k \in 1..n => k <= f[k]}
<1>1. 0 \in P
  OBVIOUS
<1>2. \A k \in Nat : k \in P => k + 1 \in P
  <2> SUFFICES ASSUME NEW k \in Nat, k \in P, k + 1 \in 1..n PROVE k + 1 <= f[k + 1]
    OBVIOUS
  <2>1. CASE k = 0
    <3>1. f[k + 1] \in Nat \ {0}
      OBVIOUS
    <3> QED
      BY <2>1, <3>1
  <2>2. CASE k # 0
    <3>1. k \in 1..n /\ k < k + 1
      BY <2>2
    <3>2. k <= f[k] /\ f[k] < f[k + 1] /\ f[k] \in Nat /\ f[k + 1] \in Nat
      BY <3>1
    <3> QED
      BY <3>2
  <2> QED
    BY <2>1, <2>2
<1> HIDE DEF P
<1>3. Nat \subseteq P
  BY <1>1, <1>2, NumberInduction
<1> QED
  BY <1>3 DEF P

\* To take out others puts nothing back.
LEMMA WithinAmong ==
  ASSUME NEW T, NEW s \in Seq(T), NEW A, NEW x \in A, NEW q \in Nat, WithinFirst(s, x, q)
  PROVE  WithinFirst(Among(s, A), x, q)
<1> DEFINE at == Among(s, A)
           f == [k \in 1..Len(at) |-> Position(s, at[k])]
<1>1. PICK p \in 1..Len(s) : p <= q /\ s[p] = x
  BY DEF WithinFirst
<1>2. x \in ToSet(s)
  BY WithinIs
<1>3. /\ at \in Seq(T) /\ ToSet(at) = ToSet(s) \cap A
      /\ \A k, m \in 1..Len(at) : k < m => Position(s, at[k]) < Position(s, at[m])
  BY AmongIs
<1> HIDE DEF at
<1>4. \A k \in 1..Len(at) : at[k] \in ToSet(s)
  <2>1. \A k \in 1..Len(at) : at[k] \in ToSet(at)
    BY <1>3 DEF ToSet
  <2> QED
    BY <1>3, <2>1
<1>5. Len(at) \in Nat /\ f \in [1..Len(at) -> Nat \ {0}]
  <2>1. \A k \in 1..Len(at) : Position(s, at[k]) \in Nat \ {0}
    BY <1>4, PositionOf
  <2> QED
    BY <1>3, <2>1
<1>6. \A k, m \in 1..Len(at) : k < m => f[k] < f[m]
  BY <1>3
<1> HIDE DEF f
<1>7. \A k \in 1..Len(at) : k <= f[k]
  BY <1>5, <1>6, GrowingNumbers
<1>8. PICK k \in 1..Len(at) : at[k] = x
  BY <1>2, <1>3 DEF ToSet
<1>9. f[k] = Position(s, x) /\ Position(s, x) <= p /\ Position(s, x) \in Nat
  BY <1>1, <1>2, <1>8, PositionOf DEF f
<1>10. k <= q
  BY <1>1, <1>7, <1>8, <1>9
<1> QED
  BY <1>8, <1>10 DEF WithinFirst, at

\* Nor does to leave out repetitions.
LEMMA WithinDistinct ==
  ASSUME NEW T, NEW s \in Seq(T), NEW x, NEW q \in Nat, WithinFirst(s, x, q)
  PROVE  WithinFirst(Distinct(s), x, q)
<1>1. x \in ToSet(s)
  BY WithinIs
<1> QED
  BY <1>1, WithinAmong DEF Distinct

\* A list is one of its members.
LEMMA SelfSeq ==
  ASSUME NEW N \in Nat, NEW s, s = [n \in 1..N |-> s[n]]
  PROVE  s \in Seq(ToSet(s))
<1> DEFINE S == ToSet(s)
<1>1. \A n \in 1..N : s[n] \in S
  BY DEF ToSet
<1> HIDE DEF S
<1>2. s \in Seq(S)
  BY <1>1
<1> QED
  BY <1>2 DEF S

\* The members of two lists, one after the other, in their places.
LEMMA ConcatParts ==
  ASSUME NEW T, NEW s \in Seq(T), NEW t \in Seq(T)
  PROVE  /\ Len(s \o t) = Len(s) + Len(t)
         /\ \A i \in 1..Len(s) : (s \o t)[i] = s[i]
         /\ \A i \in 1..Len(t) : (s \o t)[Len(s) + i] = t[i]
  OBVIOUS

\* Two lists that have nothing in common, one after the other.
LEMMA ConcatOnce ==
  ASSUME NEW T, NEW s \in Seq(T), NEW t \in Seq(T), Unrepeated(s), Unrepeated(t), ToSet(s) \cap ToSet(t) = {}
  PROVE  Unrepeated(s \o t)
<1> DEFINE u == s \o t
<1>1. Len(s) \in Nat /\ Len(t) \in Nat /\ Len(u) = Len(s) + Len(t)
  OBVIOUS
<1>2. /\ \A i \in 1..Len(s) : u[i] = s[i] /\ s[i] \in ToSet(s)
      /\ \A i \in 1..Len(t) : u[Len(s) + i] = t[i] /\ t[i] \in ToSet(t)
  BY DEF ToSet
<1> HIDE DEF u
<1>3. \A i \in 1..Len(u) : i \in 1..Len(s) \/ (i - Len(s) \in 1..Len(t) /\ Len(s) + (i - Len(s)) = i)
  BY <1>1
<1>4. ASSUME NEW i \in 1..Len(u), NEW j \in 1..Len(u), u[i] = u[j] PROVE i = j
  <2>1. CASE i \in 1..Len(s) /\ j \in 1..Len(s)
    BY <1>2, <1>4, <2>1 DEF Unrepeated
  <2>2. CASE i - Len(s) \in 1..Len(t) /\ j - Len(s) \in 1..Len(t)
    <3>1. Len(s) + (i - Len(s)) = i /\ Len(s) + (j - Len(s)) = j
      BY <1>1
    <3>2. u[i] = t[i - Len(s)] /\ u[j] = t[j - Len(s)]
      BY <1>2, <2>2, <3>1
    <3>3. i - Len(s) = j - Len(s)
      BY <1>4, <2>2, <3>2 DEF Unrepeated
    <3> QED
      BY <1>1, <3>3
  <2>3. CASE i \in 1..Len(s) /\ j - Len(s) \in 1..Len(t)
    <3>1. Len(s) + (j - Len(s)) = j
      BY <1>1
    <3>2. u[i] \in ToSet(s) /\ u[j] \in ToSet(t)
      BY <1>2, <2>3, <3>1
    <3> QED
      BY <1>4, <3>2
  <2>4. CASE j \in 1..Len(s) /\ i - Len(s) \in 1..Len(t)
    <3>1. Len(s) + (i - Len(s)) = i
      BY <1>1
    <3>2. u[j] \in ToSet(s) /\ u[i] \in ToSet(t)
      BY <1>2, <2>4, <3>1
    <3> QED
      BY <1>4, <3>2
  <2> QED
    BY <1>3, <2>1, <2>2, <2>3, <2>4
<1> QED
  BY <1>4 DEF Unrepeated, u

\* What follows a list begins where it ends.
LEMMA ConcatNext ==
  ASSUME NEW T, NEW s \in Seq(T), NEW t \in Seq(T), 1 \in 1..Len(t)
  PROVE  (s \o t)[Len(s) + 1] = t[1]
<1>1. \A i \in 1..Len(t) : (s \o t)[Len(s) + i] = t[i]
  OBVIOUS
<1> QED
  BY <1>1, Zenon

\* Where each of several lists has one member at most, the member of the q-th stands
\* among the first q of all.
LEMMA WithinFlattened ==
  ASSUME NEW T, NEW seqs \in Seq(Seq(T)), \A i \in 1..Len(seqs) : Len(seqs[i]) <= 1,
         NEW q \in 1..Len(seqs), NEW x, Len(seqs[q]) = 1, seqs[q][1] = x
  PROVE  WithinFirst(FlattenSeq(seqs), x, q)
<1> DEFINE N == Len(seqs)
<1>1. N \in Nat /\ N # 0 /\ \A i \in 1..N : seqs[i] \in Seq(T) /\ Len(seqs[i]) \in Nat /\ Len(seqs[i]) <= 1
  OBVIOUS
<1>2. PICK w : /\ FlattenSeq(seqs) = w[N] /\ w[1] = seqs[1]
               /\ \A k \in 2..N : w[k] = w[k - 1] \o seqs[k]
  BY <1>1, FlattenSteps
<1> DEFINE Good(k) == /\ w[k] \in Seq(T) /\ Len(w[k]) <= k
                      /\ q <= k => WithinFirst(w[k], x, q)
           P == {k \in Nat : k \in 1..N => Good(k)}
<1>3. 1 \in 1..N => Good(1)
  <2>1. w[1] \in Seq(T) /\ Len(w[1]) <= 1
    BY <1>1, <1>2
  <2>2. ASSUME q <= 1 PROVE WithinFirst(w[1], x, q)
    <3>1. q = 1
      BY <2>2
    <3>2. 1 \in 1..Len(w[1]) /\ w[1][1] = x
      BY <1>2, <3>1
    <3> QED
      BY <3>1, <3>2 DEF WithinFirst
  <2> QED
    BY <2>1, <2>2
<1>4. ASSUME NEW k \in 1..N, k + 1 \in 1..N, Good(k) PROVE Good(k + 1)
  <2>1. k + 1 \in 2..N /\ (k + 1) - 1 = k
    BY <1>1, <1>4
  <2>2. w[k + 1] = w[k] \o seqs[k + 1]
    BY <1>2, <2>1
  <2>3. w[k] \in Seq(T) /\ seqs[k + 1] \in Seq(T)
    BY <1>1, <1>4
  <2>4. w[k + 1] \in Seq(T) /\ Len(w[k + 1]) = Len(w[k]) + Len(seqs[k + 1])
    BY <2>2, <2>3
  <2>4a. Len(w[k]) \in Nat /\ Len(seqs[k + 1]) \in Nat
    BY <2>3
  <2>4b. Len(w[k]) <= k /\ Len(seqs[k + 1]) <= 1
    BY <1>1, <1>4
  <2>5. Len(w[k + 1]) <= k + 1
    <3> HIDE DEF Good
    <3>1. k \in Nat
      BY <1>1
    <3>1a. w[k + 1] \in Seq(T)
      BY <2>4, Zenon
    <3>1b. Len(w[k + 1]) \in Nat
      BY <3>1a
    <3>2. \A a, b, c, n \in Nat : c = a + b /\ a <= n /\ b <= 1 => c <= n + 1
      OBVIOUS
    <3> QED
      BY <2>4, <2>4a, <2>4b, <3>1, <3>1b, <3>2, Zenon
  <2>6. ASSUME q <= k PROVE WithinFirst(w[k + 1], x, q)
    <3>1. WithinFirst(w[k], x, q)
      BY <1>4, <2>6
    <3>2. WithinFirst(w[k] \o seqs[k + 1], x, q)
      BY <2>3, <3>1, WithinConcat
    <3> QED
      BY <2>2, <3>2
  <2>7. ASSUME q = k + 1 PROVE WithinFirst(w[k + 1], x, q)
    <3>1. Len(seqs[k + 1]) = 1 /\ seqs[k + 1][1] = x
      BY <2>7
    <3> DEFINE p == Len(w[k]) + 1
    <3>2. p \in 1..Len(w[k + 1]) /\ p <= q
      BY <2>4, <2>4a, <2>4b, <2>7, <3>1
    <3>3. (w[k] \o seqs[k + 1])[Len(w[k]) + 1] = seqs[k + 1][1]
      <4>1. 1 \in 1..Len(seqs[k + 1])
        BY <3>1
      <4> QED
        BY <2>3, <4>1, ConcatNext
    <3>4. w[k + 1][p] = x
      BY <2>2, <3>1, <3>3
    <3> QED
      BY <3>2, <3>4 DEF WithinFirst
  <2>8. q <= k + 1 => q <= k \/ q = k + 1
    BY <1>4
  <2>9. q <= k + 1 => WithinFirst(w[k + 1], x, q)
    BY <2>6, <2>7, <2>8
  <2> QED
    BY <2>4, <2>5, <2>9
<1>5. 0 \in P
  OBVIOUS
<1>6. \A k \in Nat : k \in P => k + 1 \in P
  <2> SUFFICES ASSUME NEW k \in Nat, k \in P, k + 1 \in 1..N PROVE Good(k + 1)
    OBVIOUS
  <2> HIDE DEF Good
  <2>1. CASE k = 0
    BY <1>3, <2>1
  <2>2. CASE k # 0
    <3>1. k \in 1..N /\ Good(k)
      BY <2>2
    <3> QED
      BY <1>4, <3>1
  <2> QED
    BY <2>1, <2>2
<1> HIDE DEF P
<1>7. N \in P
  BY <1>1, <1>5, <1>6, NumberInduction
<1> HIDE DEF Good
<1>8. Good(N)
  BY <1>1, <1>7 DEF P
<1> QED
  BY <1>1, <1>2, <1>8 DEF Good
================================================================================
