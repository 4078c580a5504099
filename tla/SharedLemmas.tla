----------------------------- MODULE SharedLemmas -----------------------------
(***************************************************************************)
(* Induction and recursion over the natural numbers, stated with sets and  *)
(* functions in the place of predicates and operators: the form in which   *)
(* the proofs of this project use them.  A recursive function of a model   *)
(* is a CHOOSE; RecursionTheorem is what tells that it has a value.        *)
(***************************************************************************)
EXTENDS Integers, FiniteSets, Sequences, FiniteSetTheorems, SequenceTheorems, WellFoundedInduction, TLAPS

\* A set of natural numbers that is not empty has a least one.
LEMMA LeastNatural ==
  ASSUME NEW T \in SUBSET Nat, T # {}
  PROVE  \E x \in T : \A y \in T : x <= y
<1> DEFINE R == {ss \in Nat \X Nat : ss[1] < ss[2]}
<1>1. IsWellFoundedOn(R, Nat)
  BY NatLessThanWellFounded DEF OpToRel
<1> HIDE DEF R
<1>2. PICK x \in T : \A y \in T : ~ (<<y, x>> \in R)
  BY <1>1, WFMin
<1>3. ASSUME NEW y \in T, y < x PROVE FALSE
  <2>1. <<y, x>> \in Nat \X Nat /\ <<y, x>>[1] < <<y, x>>[2]
    BY <1>3
  <2> QED
    BY <1>2, <2>1 DEF R
<1> QED
  BY <1>3

\* Induction: a set that has 0 and is closed under successor has every number.
LEMMA Induct ==
  ASSUME NEW S, 0 \in S, \A n \in Nat : n \in S => n + 1 \in S
  PROVE  \A n \in Nat : n \in S
<1> SUFFICES ASSUME NEW m \in Nat \ S PROVE FALSE
  OBVIOUS
<1>1. PICK x \in Nat \ S : \A y \in Nat \ S : x <= y
  BY LeastNatural
<1>2. x # 0 /\ x - 1 \in Nat /\ (x - 1) + 1 = x
  BY <1>1
<1> QED
  BY <1>1, <1>2

\* c, F[c], F[F[c]] and so on.
Iterations(D, F, c) == {g \in [Nat -> D] : g[0] = c /\ \A n \in Nat : g[n + 1] = F[g[n]]}

\* A function of a set into itself can be applied any number of times.
LEMMA Iterate ==
  ASSUME NEW D, NEW F, F \in [D -> D], NEW c, c \in D
  PROVE  Iterations(D, F, c) # {}
<1> DEFINE Runs(n) == {h \in [0 .. n -> D] : h[0] = c /\ \A i \in 0 .. (n - 1) : h[i + 1] = F[h[i]]}
           A == {n \in Nat : Runs(n) # {}}
           B == {n \in Nat : \A h \in Runs(n) : \A m \in Nat : \A k \in Runs(m) : n <= m => h[n] = k[n]}
<1>1. \A n \in Nat : n \in A
  <2>1. 0 \in A
    <3>1. [i \in 0 .. 0 |-> c] \in Runs(0)
      OBVIOUS
    <3> QED
      BY <3>1
  <2>2. ASSUME NEW n \in Nat, n \in A PROVE n + 1 \in A
    <3>1. PICK h : h \in Runs(n)
      BY <2>2
    <3>2. [i \in 0 .. (n + 1) |-> IF i = n + 1 THEN F[h[n]] ELSE h[i]] \in Runs(n + 1)
      BY <3>1
    <3> QED
      BY <3>2
  <2> HIDE DEF A
  <2> QED
    BY <2>1, <2>2, Induct
<1>2. \A n \in Nat : n \in B
  <2>1. 0 \in B
    OBVIOUS
  <2>2. ASSUME NEW n \in Nat, n \in B PROVE n + 1 \in B
    <3>0. n + 1 \in Nat
      OBVIOUS
    <3> SUFFICES ASSUME NEW h \in Runs(n + 1), NEW m \in Nat, NEW k \in Runs(m), n + 1 <= m
                 PROVE  h[n + 1] = k[n + 1]
      BY <3>0, Zenon
    <3> DEFINE front == [i \in 0 .. n |-> h[i]]
    <3>1. /\ \A i \in 0 .. n : h[i + 1] = F[h[i]]
          /\ h \in [0 .. (n + 1) -> D] /\ h[0] = c
      OBVIOUS
    <3>2. front \in Runs(n) /\ front[n] = h[n]
      BY <3>1
    <3>3. h[n + 1] = F[h[n]] /\ k[n + 1] = F[k[n]]
      BY <3>1
    <3>4. \A a \in Runs(n) : \A b \in Runs(m) : n <= m => a[n] = b[n]
      BY <2>2
    <3> HIDE DEF front, Runs
    <3>5. front[n] = k[n]
      BY <3>2, <3>4
    <3> QED
      BY <3>2, <3>3, <3>5
  <2> HIDE DEF B
  <2> QED
    BY <2>1, <2>2, Induct
<1> DEFINE run(n) == CHOOSE h : h \in Runs(n)
           g == [n \in Nat |-> run(n)[n]]
<1>3. \A n \in Nat : run(n) \in Runs(n)
  BY <1>1
<1> HIDE DEF run
<1>4. g \in [Nat -> D] /\ g[0] = c
  BY <1>3
<1>5. ASSUME NEW n \in Nat PROVE g[n + 1] = F[g[n]]
  <2>1. run(n) \in Runs(n) /\ run(n + 1) \in Runs(n + 1)
    BY <1>3
  <2>2. run(n)[n] = run(n + 1)[n]
    <3>1. \A a \in Runs(n) : \A m \in Nat : \A b \in Runs(m) : n <= m => a[n] = b[n]
      BY <1>2
    <3> HIDE DEF Runs
    <3> QED
      BY <2>1, <3>1
  <2>3. run(n + 1)[n + 1] = F[run(n + 1)[n]]
    BY <2>1
  <2> QED
    BY <2>2, <2>3
<1>6. g \in Iterations(D, F, c)
  BY <1>4, <1>5 DEF Iterations
<1> QED
  BY <1>6

\* What F makes of a function depends, at x, only on its values at smaller arguments.
LooksDown(S, R, size, F) ==
  \A g, h \in [S -> R] : \A x \in S :
     (\A y \in S : size[y] < size[x] => g[y] = h[y]) => F[g][x] = F[h][x]

FixedPoints(S, R, F) == {g \in [S -> R] : F[g] = g}

\* Recursion: a step that looks only at smaller arguments has a fixed point.
LEMMA RecursionTheorem ==
  ASSUME NEW S, NEW R, NEW size, NEW F, size \in [S -> Nat], F \in [[S -> R] -> [S -> R]], R # {},
         LooksDown(S, R, size, F)
  PROVE  FixedPoints(S, R, F) # {}
<1>0. \A g, h \in [S -> R] : \A x \in S :
         (\A y \in S : size[y] < size[x] => g[y] = h[y]) => F[g][x] = F[h][x]
  BY DEF LooksDown
<1>1. PICK c : c \in R
  OBVIOUS
<1>2. PICK c0 : c0 \in [S -> R]
  <2>1. [x \in S |-> c] \in [S -> R]
    BY <1>1
  <2> QED
    BY <2>1
<1>3. PICK g \in [Nat -> [S -> R]] : \A n \in Nat : g[n + 1] = F[g[n]]
  <2> DEFINE D == [S -> R]
  <2>1. F \in [D -> D] /\ c0 \in D
    BY <1>2
  <2> HIDE DEF D
  <2>2. Iterations(D, F, c0) # {}
    BY <2>1, Iterate
  <2> QED
    BY <2>2 DEF D, Iterations
\* the nth application is final on arguments smaller than n
<1> DEFINE Final == {n \in Nat : \A x \in S : size[x] < n => g[n + 1][x] = g[n][x]}
<1>4. \A n \in Nat : n \in Final
  <2>1. 0 \in Final
    OBVIOUS
  <2>2. ASSUME NEW n \in Nat, n \in Final PROVE n + 1 \in Final
    <3> SUFFICES ASSUME NEW x \in S, size[x] < n + 1 PROVE g[(n + 1) + 1][x] = g[n + 1][x]
      OBVIOUS
    <3>1. \A y \in S : size[y] < size[x] => g[n + 1][y] = g[n][y]
      <4> SUFFICES ASSUME NEW y \in S, size[y] < size[x] PROVE g[n + 1][y] = g[n][y]
        OBVIOUS
      <4>1. size[y] \in Nat /\ size[x] \in Nat
        OBVIOUS
      <4> QED
        BY <2>2, <4>1
    <3>2. g[n] \in [S -> R] /\ g[n + 1] \in [S -> R]
      BY <1>3
    <3>3. F[g[n + 1]][x] = F[g[n]][x]
      BY <1>0, <3>1, <3>2
    <3>4. g[n + 1] = F[g[n]] /\ g[(n + 1) + 1] = F[g[n + 1]]
      BY <1>3
    <3> QED
      BY <3>3, <3>4
  <2> HIDE DEF Final
  <2> QED
    BY <2>1, <2>2, Induct
<1> DEFINE Same == {n \in Nat : \A x \in S : size[x] < n => g[n][x] = g[size[x] + 1][x]}
<1>5. \A n \in Nat : n \in Same
  <2>1. 0 \in Same
    OBVIOUS
  <2>2. ASSUME NEW n \in Nat, n \in Same PROVE n + 1 \in Same
    <3> SUFFICES ASSUME NEW x \in S, size[x] < n + 1 PROVE g[n + 1][x] = g[size[x] + 1][x]
      OBVIOUS
    <3>1. CASE size[x] = n
      BY <3>1
    <3>2. CASE size[x] < n
      BY <1>4, <2>2, <3>2
    <3>3. PICK k \in Nat : k = size[x]
      OBVIOUS
    <3> HIDE DEF Final, Same
    <3>4. size[x] = n \/ size[x] < n
      <4>1. k < n + 1
        BY <3>3
      <4>2. k = n \/ k < n
        BY <4>1
      <4> QED
        BY <3>3, <4>2
    <3> QED
      BY <3>1, <3>2, <3>4
  <2> HIDE DEF Same
  <2> QED
    BY <2>1, <2>2, Induct
<1> DEFINE lim == [x \in S |-> g[size[x] + 1][x]]
<1>6. lim \in [S -> R]
  BY <1>3
<1>7. ASSUME NEW x \in S PROVE F[lim][x] = lim[x]
  <2>1. ASSUME NEW y \in S, size[y] < size[x] PROVE lim[y] = g[size[x]][y]
    <3>1. size[x] \in Same
      BY <1>5
    <3> QED
      BY <2>1, <3>1
  <2> HIDE DEF lim
  <2>2. F[lim][x] = F[g[size[x]]][x]
    <3>1. g[size[x]] \in [S -> R]
      BY <1>3
    <3> QED
      BY <1>0, <1>6, <2>1, <3>1
  <2> QED
    BY <1>3, <2>2 DEF lim
<1> HIDE DEF lim
<1>8. F[lim] = lim
  BY <1>6, <1>7
<1> QED
  BY <1>6, <1>8 DEF FixedPoints
-----------------------------------------------------------------------------
(* Sequences *)

\* Concatenation is associative.
LEMMA ConcatAssoc ==
  ASSUME NEW S, NEW a \in Seq(S), NEW b \in Seq(S), NEW c \in Seq(S)
  PROVE  (a \o b) \o c = a \o (b \o c)
BY ConcatAssociative

\* One more element, then the rest.
LEMMA AppendThenRest ==
  ASSUME NEW S, NEW a \in Seq(S), NEW x \in S, NEW c \in Seq(S)
  PROVE  a \o (<<x>> \o c) = Append(a, x) \o c
<1>1. PICK b \in Seq(S) : b = <<x>>
  <2>1. <<x>> \in Seq(S)
    OBVIOUS
  <2> QED
    BY <2>1
<1>2. (a \o b) \o c = a \o (b \o c)
  BY ConcatAssoc
<1>3. a \o b = Append(a, x)
  BY <1>1
<1> QED
  BY <1>1, <1>2, <1>3

\* What is left of two sequences, cut in the first.
LEMMA ConcatTail ==
  ASSUME NEW S, NEW b \in Seq(S), NEW r \in Seq(S), NEW m \in Nat, m >= 1, m <= Len(b) + 1
  PROVE  SubSeq(b \o r, m, Len(b \o r)) = SubSeq(b, m, Len(b)) \o r
<1> DEFINE w == b \o r
           u == SubSeq(w, m, Len(w))
           c == SubSeq(b, m, Len(b))
           v == c \o r
<1>1. PICK p \in Nat, q \in Nat : p = Len(b) /\ q = Len(r)
  OBVIOUS
<1>2. /\ w \in Seq(S) /\ Len(w) = p + q
      /\ \A i \in 1 .. p : w[i] = b[i]
      /\ \A i \in (p + 1) .. (p + q) : w[i] = r[i - p]
  BY <1>1
<1>3. /\ c \in Seq(S) /\ Len(c) = p - m + 1
      /\ \A i \in 1 .. p - m + 1 : c[i] = b[m + i - 1]
  <2>1. \A i \in m .. p : b[i] \in S
    BY <1>1
  <2>2. p - m + 1 = (IF m <= p THEN p - m + 1 ELSE 0)
    BY <1>1
  <2> QED
    BY <1>1, <2>1, <2>2, SubSeqProperties
<1> HIDE DEF w, c
<1>4. PICK k \in Nat : k = p - m + 1
  <2>1. m <= p + 1
    BY <1>1
  <2>2. p - m + 1 \in Nat
    BY <2>1
  <2> QED
    BY <2>2
<1>5. /\ u \in Seq(S) /\ Len(u) = k + q
      /\ \A i \in 1 .. k + q : u[i] = w[m + i - 1]
  <2>1. u \in Seq(S) /\ Len(u) = p + q - m + 1 /\ \A i \in 1 .. p + q - m + 1 : u[i] = w[m + i - 1]
    BY <1>1, <1>2
  <2>2. p + q - m + 1 = k + q
    BY <1>4
  <2> HIDE DEF u
  <2> QED
    BY <2>1, <2>2
<1>6. /\ v \in Seq(S) /\ Len(v) = k + q
      /\ \A i \in 1 .. k : v[i] = c[i]
      /\ \A i \in (k + 1) .. (k + q) : v[i] = r[i - k]
  <2>1. c \in Seq(S) /\ Len(c) = k
    BY <1>3, <1>4
  <2>2. v \in Seq(S) /\ Len(v) = Len(c) + Len(r) /\ \A i \in 1 .. Len(c) + Len(r) :
          v[i] = IF i <= Len(c) THEN c[i] ELSE r[i - Len(c)]
    BY <2>1, ConcatProperties
  <2> HIDE DEF v
  <2> QED
    BY <1>1, <2>1, <2>2
<1> HIDE DEF u, v
<1>7. ASSUME NEW i \in 1 .. k + q PROVE u[i] = v[i]
  <2>1. i \in Nat /\ i >= 1 /\ i <= k + q /\ u[i] = w[m + i - 1]
    BY <1>5
  <2>2. CASE i <= k
    <3>1. i \in 1 .. k /\ m + i - 1 \in 1 .. p /\ i \in 1 .. p - m + 1
      BY <1>4, <2>1, <2>2
    <3>2. w[m + i - 1] = b[m + i - 1]
      BY <1>2, <3>1
    <3>3. c[i] = b[m + i - 1]
      BY <1>3, <3>1
    <3>4. v[i] = c[i]
      BY <1>6, <3>1
    <3> QED
      BY <2>1, <3>2, <3>3, <3>4
  <2>3. CASE i > k
    <3>1. i \in (k + 1) .. (k + q)
      BY <2>1, <2>3
    <3>2. PICK j \in Int : j = m + i - 1
      BY <2>1
    <3>3. j \in (p + 1) .. (p + q) /\ j - p = i - k
      BY <1>4, <2>1, <2>3, <3>2
    <3>4. w[j] = r[j - p]
      BY <1>2, <3>3
    <3>5. v[i] = r[i - k]
      BY <1>6, <3>1
    <3>6. w[j] = v[i]
      BY <3>3, <3>4, <3>5
    <3> QED
      BY <2>1, <3>2, <3>6
  <2> QED
    BY <2>1, <2>2, <2>3
<1>8. u = v
  BY <1>5, <1>6, <1>7, SeqEqual
<1> QED
  BY <1>8 DEF u, v, w, c
-----------------------------------------------------------------------------
(* Sums and products over finite sets. *)

\* Induction over the subsets of a finite set: what holds of a set whenever it
\* holds of the set without any one of its elements.
LEMMA RemoveInduct ==
  ASSUME NEW S, IsFiniteSet(S), NEW P, {} \in P,
         \A s \in SUBSET S : s # {} /\ (\A x \in s : s \ {x} \in P) => s \in P
  PROVE  \A s \in SUBSET S : s \in P
<1> DEFINE A == {n \in Nat : \A s \in SUBSET S : Cardinality(s) = n => s \in P}
<1>0. \A s \in SUBSET S : IsFiniteSet(s) /\ Cardinality(s) \in Nat
  BY FS_Subset, FS_CardinalityType
<1>1. 0 \in A
  BY <1>0, FS_EmptySet
<1>2. ASSUME NEW n \in Nat, n \in A PROVE n + 1 \in A
  <2> SUFFICES ASSUME NEW s \in SUBSET S, Cardinality(s) = n + 1 PROVE s \in P
    OBVIOUS
  <2>1. s # {}
    BY FS_EmptySet
  <2>2. ASSUME NEW x \in s PROVE s \ {x} \in P
    <3>1. s \ {x} \in SUBSET S /\ Cardinality(s \ {x}) = n
      BY <1>0, FS_RemoveElement
    <3> QED
      BY <1>2, <3>1
  <2> QED
    BY <2>1, <2>2
<1> HIDE DEF A
<1>3. \A n \in Nat : n \in A
  BY <1>1, <1>2, Induct
<1> QED
  BY <1>0, <1>3 DEF A

\* The same, one element more at a time.
LEMMA AddInduct ==
  ASSUME NEW S, IsFiniteSet(S), NEW P, {} \in P,
         \A s \in SUBSET S : s \in P => \A x \in S \ s : s \cup {x} \in P
  PROVE  \A s \in SUBSET S : s \in P
<1>1. ASSUME NEW s \in SUBSET S, s # {}, \A x \in s : s \ {x} \in P PROVE s \in P
  <2>1. PICK x : x \in s
    BY <1>1
  <2>2. s \ {x} \in P /\ s \ {x} \in SUBSET S /\ x \in S \ (s \ {x}) /\ (s \ {x}) \cup {x} = s
    BY <1>1, <2>1
  <2> QED
    BY <2>2
<1> QED
  BY <1>1, RemoveInduct

Pick(s) == CHOOSE x \in s : TRUE

FoldTables(S, R, c, M) ==
  {g \in [SUBSET S -> R] : g = [s \in SUBSET S |-> IF s = {} THEN c ELSE M[Pick(s)][g[s \ {Pick(s)}]]]}

\* A fold over a finite set, which takes its elements in the order Pick gives them, has a value.
LEMMA FoldExists ==
  ASSUME NEW S, IsFiniteSet(S), NEW R, NEW c \in R, NEW M \in [S -> [R -> R]]
  PROVE  FoldTables(S, R, c, M) # {}
<1> DEFINE body(g, s) == IF s = {} THEN c ELSE M[Pick(s)][g[s \ {Pick(s)}]]
           F == [g \in [SUBSET S -> R] |-> [s \in SUBSET S |-> body(g, s)]]
           size == [s \in SUBSET S |-> Cardinality(s)]
<1>1. \A s \in SUBSET S : s # {} => Pick(s) \in s
  BY DEF Pick
<1>2. \A g \in [SUBSET S -> R] : \A s \in SUBSET S : body(g, s) \in R
  <2> SUFFICES ASSUME NEW g \in [SUBSET S -> R], NEW s \in SUBSET S, s # {}
               PROVE  M[Pick(s)][g[s \ {Pick(s)}]] \in R
    OBVIOUS
  <2>1. Pick(s) \in S /\ g[s \ {Pick(s)}] \in R
    BY <1>1
  <2> QED
    BY <2>1
<1>3. F \in [[SUBSET S -> R] -> [SUBSET S -> R]]
  BY <1>2
<1>4. size \in [SUBSET S -> Nat]
  BY FS_Subset, FS_CardinalityType
<1>5. LooksDown(SUBSET S, R, size, F)
  <2> SUFFICES ASSUME NEW g \in [SUBSET S -> R], NEW h \in [SUBSET S -> R], NEW s \in SUBSET S,
                      \A t \in SUBSET S : size[t] < size[s] => g[t] = h[t]
               PROVE  F[g][s] = F[h][s]
    BY DEF LooksDown
  <2>1. F[g][s] = body(g, s) /\ F[h][s] = body(h, s)
    OBVIOUS
  <2>2. CASE s = {}
    BY <2>1, <2>2
  <2>3. CASE s # {}
    <3>1. s \ {Pick(s)} \in SUBSET S /\ Pick(s) \in s
      BY <1>1, <2>3
    <3>2. Cardinality(s \ {Pick(s)}) < Cardinality(s)
      BY <3>1, FS_Subset, FS_RemoveElement, FS_CardinalityType
    <3>3. g[s \ {Pick(s)}] = h[s \ {Pick(s)}]
      BY <3>1, <3>2
    <3> QED
      BY <2>1, <2>3, <3>3
  <2> QED
    BY <2>2, <2>3
<1>6. PICK g \in [SUBSET S -> R] : g = F[g]
  <2> DEFINE D == SUBSET S
  <2>1. size \in [D -> Nat] /\ F \in [[D -> R] -> [D -> R]] /\ LooksDown(D, R, size, F) /\ R # {}
    BY <1>3, <1>4, <1>5
  <2> HIDE DEF F, size, D
  <2>2. FixedPoints(D, R, F) # {}
    BY <2>1, RecursionTheorem
  <2> QED
    BY <2>2 DEF FixedPoints, D
<1>7. g = [s \in SUBSET S |-> body(g, s)]
  BY <1>6
<1> QED
  BY <1>7 DEF FoldTables

\* The sums of f over the subsets of S, as the folds of the community modules compute them.
SumTable(S, f) ==
  CHOOSE g : g = [s \in SUBSET S |-> IF s = {} THEN 0 ELSE f[Pick(s)] + g[s \ {Pick(s)}]]
SumOver(S, f) == SumTable(S, f)[S]

\* T has them: it takes one element after another from a set.
Sums(S, f, T) ==
  /\ T \in [SUBSET S -> Int] /\ T[{}] = 0
  /\ \A s \in SUBSET S : s # {} => T[s] = f[Pick(s)] + T[s \ {Pick(s)}]

\* The table of partial sums is a function that recurs as written.
LEMMA SumTableExists ==
  ASSUME NEW S, IsFiniteSet(S), NEW f \in [S -> Int]
  PROVE  Sums(S, f, SumTable(S, f))
<1> DEFINE M == [x \in S |-> [v \in Int |-> f[x] + v]]
           T == SumTable(S, f)
<1>1. \A s \in SUBSET S : s # {} => Pick(s) \in s
  BY DEF Pick
<1>2. PICK g \in [SUBSET S -> Int] :
        g = [s \in SUBSET S |-> IF s = {} THEN 0 ELSE M[Pick(s)][g[s \ {Pick(s)}]]]
  <2> DEFINE R == Int
  <2>1. M \in [S -> [R -> R]] /\ 0 \in R
    OBVIOUS
  <2> HIDE DEF M, R
  <2>2. FoldTables(S, R, 0, M) # {}
    BY <2>1, FoldExists
  <2> QED
    BY <2>2 DEF R, FoldTables
<1>3. \A s \in SUBSET S : s # {} => M[Pick(s)][g[s \ {Pick(s)}]] = f[Pick(s)] + g[s \ {Pick(s)}]
  <2> SUFFICES ASSUME NEW s \in SUBSET S, s # {}
               PROVE  M[Pick(s)][g[s \ {Pick(s)}]] = f[Pick(s)] + g[s \ {Pick(s)}]
    OBVIOUS
  <2>1. Pick(s) \in S /\ g[s \ {Pick(s)}] \in Int
    BY <1>1, <1>2
  <2> QED
    BY <2>1
<1>4. g = [s \in SUBSET S |-> IF s = {} THEN 0 ELSE f[Pick(s)] + g[s \ {Pick(s)}]]
  <2> HIDE DEF M
  <2> QED
    BY <1>2, <1>3
<1>5. T = [s \in SUBSET S |-> IF s = {} THEN 0 ELSE f[Pick(s)] + T[s \ {Pick(s)}]]
  BY <1>4 DEF SumTable
<1> HIDE DEF T
<1>6. /\ DOMAIN T = SUBSET S /\ T[{}] = 0
      /\ \A s \in SUBSET S : s # {} => T[s] = f[Pick(s)] + T[s \ {Pick(s)}]
  BY <1>5
<1> DEFINE A == {s \in SUBSET S : T[s] \in Int}
<1>7. \A s \in SUBSET S : s \in A
  <2>1. {} \in A
    BY <1>6
  <2>2. ASSUME NEW s \in SUBSET S, s # {}, \A x \in s : s \ {x} \in A PROVE s \in A
    <3>1. Pick(s) \in s /\ Pick(s) \in S
      BY <1>1, <2>2
    <3>2. T[s \ {Pick(s)}] \in Int
      BY <2>2, <3>1
    <3>3. T[s] \in Int
      BY <1>6, <2>2, <3>1, <3>2
    <3> QED
      BY <3>3
  <2> HIDE DEF A
  <2> QED
    BY <2>1, <2>2, RemoveInduct
<1>8. T \in [SUBSET S -> Int]
  BY <1>5, <1>7
<1> QED
  BY <1>6, <1>8 DEF Sums, T

\* The products of the subsets of a set of numbers, as the folds compute them.
ProductTable(S) ==
  CHOOSE g : g = [s \in SUBSET S |-> IF s = {} THEN 1 ELSE Pick(s) * g[s \ {Pick(s)}]]
ProductOver(S) == ProductTable(S)[S]

\* A product of positive numbers is a positive multiple of each.
LEMMA ProductIsMultiple ==
  ASSUME NEW S, IsFiniteSet(S), S \subseteq Nat \ {0}
  PROVE  /\ ProductOver(S) \in Nat \ {0}
         /\ \A x \in S : ProductOver(S) % x = 0
<1> DEFINE M == [x \in S |-> [v \in Int |-> x * v]]
           T == ProductTable(S)
<1>1. \A s \in SUBSET S : s # {} => Pick(s) \in s
  BY DEF Pick
<1>2. PICK g \in [SUBSET S -> Int] :
        g = [s \in SUBSET S |-> IF s = {} THEN 1 ELSE M[Pick(s)][g[s \ {Pick(s)}]]]
  <2> DEFINE R == Int
  <2>1. M \in [S -> [R -> R]] /\ 1 \in R
    OBVIOUS
  <2> HIDE DEF M, R
  <2>2. FoldTables(S, R, 1, M) # {}
    BY <2>1, FoldExists
  <2> QED
    BY <2>2 DEF R, FoldTables
<1>3. \A s \in SUBSET S : s # {} => M[Pick(s)][g[s \ {Pick(s)}]] = Pick(s) * g[s \ {Pick(s)}]
  <2> SUFFICES ASSUME NEW s \in SUBSET S, s # {}
               PROVE  M[Pick(s)][g[s \ {Pick(s)}]] = Pick(s) * g[s \ {Pick(s)}]
    OBVIOUS
  <2>1. Pick(s) \in S /\ g[s \ {Pick(s)}] \in Int
    BY <1>1, <1>2
  <2> QED
    BY <2>1
<1>4. g = [s \in SUBSET S |-> IF s = {} THEN 1 ELSE Pick(s) * g[s \ {Pick(s)}]]
  <2> HIDE DEF M
  <2> QED
    BY <1>2, <1>3
<1>5. T = [s \in SUBSET S |-> IF s = {} THEN 1 ELSE Pick(s) * T[s \ {Pick(s)}]]
  BY <1>4 DEF ProductTable
<1> HIDE DEF T
<1>6. T[{}] = 1 /\ \A s \in SUBSET S : s # {} => T[s] = Pick(s) * T[s \ {Pick(s)}]
  BY <1>5
<1> DEFINE A == {s \in SUBSET S : T[s] \in Nat \ {0} /\ \A x \in s : \E q \in Nat : T[s] = q * x}
<1>7. \A s \in SUBSET S : s \in A
  <2>1. {} \in A
    BY <1>6
  <2>2. ASSUME NEW s \in SUBSET S, s # {}, \A x \in s : s \ {x} \in A PROVE s \in A
    <3>1. PICK p \in Nat \ {0} : p = Pick(s) /\ p \in s
      BY <1>1, <2>2
    <3>2. s \ {p} \in A
      BY <2>2, <3>1
    <3>3. PICK k \in Nat \ {0} : k = T[s \ {p}]
      BY <3>2
    <3>4. T[s] = p * k /\ p * k \in Nat \ {0}
      <4>1. T[s] = p * k
        BY <1>6, <2>2, <3>1, <3>3
      <4>2. p * k \in Nat /\ p * k > 0
        OBVIOUS
      <4> QED
        BY <4>1, <4>2
    <3>5. ASSUME NEW x \in s PROVE \E q \in Nat : T[s] = q * x
      <4>1. x \in Nat
        OBVIOUS
      <4>2. CASE x = p
        <5>1. T[s] = k * x
          BY <3>4, <4>2
        <5> QED
          BY <5>1
      <4>3. CASE x # p
        <5>1. PICK q \in Nat : k = q * x
          BY <3>2, <3>3, <4>3
        <5>2. p * (q * x) = (p * q) * x /\ p * q \in Nat
          BY <4>1
        <5>3. T[s] = (p * q) * x
          BY <3>4, <5>1, <5>2
        <5> QED
          BY <5>2, <5>3
      <4> QED
        BY <4>2, <4>3
    <3>6. T[s] \in Nat \ {0}
      BY <3>4
    <3> QED
      BY <3>5, <3>6
  <2> HIDE DEF A
  <2> QED
    BY <2>1, <2>2, RemoveInduct
<1>8. T[S] \in Nat \ {0} /\ \A x \in S : \E q \in Nat : T[S] = q * x
  BY <1>7
<1>9. ASSUME NEW x \in S PROVE T[S] % x = 0
  <2>1. PICK q \in Nat : T[S] = q * x
    BY <1>8
  <2>2. x \in Nat \ {0}
    OBVIOUS
  <2>3. (q * x) % x = 0
    BY <2>2
  <2> QED
    BY <2>1, <2>3
<1> QED
  BY <1>8, <1>9 DEF T, ProductOver

\* The order in which a fold takes the elements does not matter.
Additive(S, f, T) ==
  /\ T \in [SUBSET S -> Int] /\ T[{}] = 0
  /\ \A s \in SUBSET S : \A x \in S \ s : T[s \cup {x}] = T[s] + f[x]

\* Whichever element is added last.
LEMMA SumTableAdds ==
  ASSUME NEW S, IsFiniteSet(S), NEW f \in [S -> Int]
  PROVE  Additive(S, f, SumTable(S, f))
<1> DEFINE T == SumTable(S, f)
<1>1. /\ T \in [SUBSET S -> Int] /\ T[{}] = 0
      /\ \A s \in SUBSET S : s # {} => T[s] = f[Pick(s)] + T[s \ {Pick(s)}]
  <2>1. PICK U : U = T /\ Sums(S, f, U)
    BY SumTableExists
  <2> HIDE DEF T
  <2> QED
    BY <2>1 DEF Sums
<1> HIDE DEF T
<1>2. \A s \in SUBSET S : s # {} => Pick(s) \in s
  BY DEF Pick
<1> DEFINE A == {s \in SUBSET S : \A x \in S \ s : T[s \cup {x}] = T[s] + f[x]}
<1>3. {} \in A
  <2> SUFFICES ASSUME NEW x \in S PROVE T[{x}] = f[x]
    BY <1>1
  <2>1. {x} \in SUBSET S /\ {x} # {} /\ Pick({x}) = x /\ {x} \ {x} = {}
    BY <1>2
  <2>2. T[{x}] = f[x] + T[{}]
    BY <1>1, <2>1
  <2> QED
    BY <1>1, <2>2
<1>4. ASSUME NEW s \in SUBSET S, s # {}, \A y \in s : s \ {y} \in A PROVE s \in A
  <2> SUFFICES ASSUME NEW x \in S \ s PROVE T[s \cup {x}] = T[s] + f[x]
    OBVIOUS
  <2>1. PICK y : y = Pick(s \cup {x})
    OBVIOUS
  <2>2. s \cup {x} \in SUBSET S /\ s \cup {x} # {} /\ y \in s \cup {x}
    BY <1>2, <2>1
  <2>3. T[s \cup {x}] = f[y] + T[(s \cup {x}) \ {y}]
    BY <1>1, <2>1, <2>2
  <2>4. T[s] \in Int /\ f[x] \in Int
    BY <1>1
  <2>5. CASE y = x
    <3>1. (s \cup {x}) \ {y} = s
      BY <2>5
    <3>2. T[s \cup {x}] = f[x] + T[s]
      BY <2>3, <2>5, <3>1
    <3> QED
      BY <2>4, <3>2
  <2>6. CASE y # x
    <3>1. y \in s /\ s \ {y} \in A /\ s \ {y} \in SUBSET S
      BY <1>4, <2>2, <2>6
    <3>2. (s \cup {x}) \ {y} = (s \ {y}) \cup {x} /\ (s \ {y}) \cup {y} = s
      BY <2>6, <3>1
    <3>3. x \in S \ (s \ {y}) /\ y \in S \ (s \ {y})
      BY <3>1
    <3>4. T[(s \ {y}) \cup {x}] = T[s \ {y}] + f[x]
      BY <3>1, <3>3
    <3>5. T[(s \ {y}) \cup {y}] = T[s \ {y}] + f[y]
      BY <3>1, <3>3
    <3>6. T[s \ {y}] \in Int /\ f[y] \in Int
      BY <1>1, <3>1, <3>3
    <3>7. T[s \cup {x}] = f[y] + (T[s \ {y}] + f[x]) /\ T[s] = T[s \ {y}] + f[y]
      BY <2>3, <3>2, <3>4, <3>5
    <3> QED
      BY <2>4, <3>6, <3>7
  <2> QED
    BY <2>5, <2>6
<1> HIDE DEF A
<1>5. \A s \in SUBSET S : s \in A
  BY <1>3, <1>4, RemoveInduct
<1> QED
  BY <1>1, <1>5 DEF A, T, Additive

\* A sum of integers is an integer.
LEMMA SumType ==
  ASSUME NEW S, IsFiniteSet(S), NEW f \in [S -> Int]
  PROVE  SumOver(S, f) \in Int
<1>1. SumTable(S, f) \in [SUBSET S -> Int]
  BY SumTableExists DEF Sums
<1>2. S \in SUBSET S
  OBVIOUS
<1> QED
  BY <1>1, <1>2 DEF SumOver

\* The sum of sums.
LEMMA SumPlus ==
  ASSUME NEW S, IsFiniteSet(S), NEW f \in [S -> Int], NEW g \in [S -> Int], NEW h \in [S -> Int],
         \A x \in S : h[x] = f[x] + g[x]
  PROVE  SumOver(S, h) = SumOver(S, f) + SumOver(S, g)
<1>1. PICK F, G, H : /\ F = SumTable(S, f) /\ G = SumTable(S, g) /\ H = SumTable(S, h)
                     /\ Additive(S, f, F) /\ Additive(S, g, G) /\ Additive(S, h, H)
  BY SumTableAdds
<1> DEFINE A == {s \in SUBSET S : H[s] = F[s] + G[s]}
<1>2. {} \in A
  BY <1>1 DEF Additive
<1>3. ASSUME NEW s \in SUBSET S, s \in A, NEW x \in S \ s PROVE s \cup {x} \in A
  <2>1. H[s \cup {x}] = H[s] + h[x] /\ F[s \cup {x}] = F[s] + f[x] /\ G[s \cup {x}] = G[s] + g[x]
    BY <1>1 DEF Additive
  <2>2. F[s] \in Int /\ G[s] \in Int /\ f[x] \in Int /\ g[x] \in Int
    BY <1>1 DEF Additive
  <2>3. H[s] = F[s] + G[s] /\ h[x] = f[x] + g[x]
    BY <1>3
  <2>4. H[s \cup {x}] = F[s \cup {x}] + G[s \cup {x}]
    BY <2>1, <2>2, <2>3
  <2> QED
    BY <2>4
<1> HIDE DEF A
<1>4. S \in A
  BY <1>2, <1>3, AddInduct
<1> QED
  BY <1>1, <1>4 DEF A, SumOver

\* A sum of part of the terms is an entry of the table of all.
LEMMA SumRestricts ==
  ASSUME NEW S, IsFiniteSet(S), NEW T \in SUBSET S, NEW f \in [S -> Int], NEW g \in [T -> Int],
         \A x \in T : g[x] = f[x]
  PROVE  SumOver(T, g) = SumTable(S, f)[T]
<1>0. IsFiniteSet(T)
  BY FS_Subset
<1>1. PICK F, G : F = SumTable(S, f) /\ G = SumTable(T, g) /\ Additive(S, f, F) /\ Additive(T, g, G)
  BY <1>0, SumTableAdds
<1> DEFINE A == {s \in SUBSET T : G[s] = F[s]}
<1>2. {} \in A
  BY <1>1 DEF Additive
<1>3. ASSUME NEW s \in SUBSET T, s \in A, NEW x \in T \ s PROVE s \cup {x} \in A
  <2>1. G[s \cup {x}] = G[s] + g[x]
    BY <1>1 DEF Additive
  <2>2. F[s \cup {x}] = F[s] + f[x]
    <3>1. s \in SUBSET S /\ x \in S \ s
      OBVIOUS
    <3> QED
      BY <1>1, <3>1 DEF Additive
  <2>3. G[s] = F[s] /\ g[x] = f[x]
    BY <1>3
  <2>4. G[s \cup {x}] = F[s \cup {x}]
    BY <2>1, <2>2, <2>3
  <2> QED
    BY <2>4
<1> HIDE DEF A
<1>4. \A s \in SUBSET T : s \in A => \A x \in T \ s : s \cup {x} \in A
  BY <1>3
<1>5. \A s \in SUBSET T : s \in A
  BY ONLY <1>0, <1>2, <1>4, AddInduct
<1>6. T \in A
  BY <1>5
<1> QED
  BY <1>1, <1>6 DEF A, SumOver

\* One more term.
LEMMA SumAddsOne ==
  ASSUME NEW S, IsFiniteSet(S), NEW x, x \notin S, NEW f \in [S -> Int], NEW h \in [S \cup {x} -> Int],
         \A y \in S : f[y] = h[y]
  PROVE  SumOver(S \cup {x}, h) = SumOver(S, f) + h[x]
<1> DEFINE U == S \cup {x}
<1>1. IsFiniteSet(U) /\ S \in SUBSET U /\ x \in U \ S
  BY FS_AddElement
<1>2. PICK H : H = SumTable(U, h) /\ Additive(U, h, H)
  BY <1>1, SumTableAdds
<1>3. H[U] = H[S] + h[x]
  BY <1>1, <1>2 DEF Additive
<1>4. SumOver(S, f) = H[S]
  BY <1>1, <1>2, SumRestricts
<1> QED
  BY <1>2, <1>3, <1>4 DEF SumOver

\* A common factor is taken out.
LEMMA SumScaled ==
  ASSUME NEW S, IsFiniteSet(S), NEW c \in Int, NEW f \in [S -> Int], NEW h \in [S -> Int],
         \A x \in S : h[x] = c * f[x]
  PROVE  SumOver(S, h) = c * SumOver(S, f)
<1>1. PICK F, H : /\ F = SumTable(S, f) /\ H = SumTable(S, h)
                  /\ Additive(S, f, F) /\ Additive(S, h, H)
  BY SumTableAdds
<1> DEFINE A == {s \in SUBSET S : H[s] = c * F[s]}
<1>2. {} \in A
  BY <1>1 DEF Additive
<1>3. ASSUME NEW s \in SUBSET S, s \in A, NEW x \in S \ s PROVE s \cup {x} \in A
  <2>1. H[s \cup {x}] = H[s] + h[x] /\ F[s \cup {x}] = F[s] + f[x]
    BY <1>1 DEF Additive
  <2>2. PICK a \in Int, b \in Int : a = F[s] /\ b = f[x]
    BY <1>1 DEF Additive
  <2>3. H[s] = c * a /\ h[x] = c * b
    BY <1>3, <2>2
  <2>4. c * a + c * b = c * (a + b)
    OBVIOUS
  <2>5. H[s \cup {x}] = c * F[s \cup {x}]
    BY <2>1, <2>2, <2>3, <2>4
  <2> QED
    BY <2>5
<1> HIDE DEF A
<1>4. S \in A
  BY <1>2, <1>3, AddInduct
<1> QED
  BY <1>1, <1>4 DEF A, SumOver

\* Adding c for each member of B counts them.
LEMMA SumCounts ==
  ASSUME NEW S, IsFiniteSet(S), NEW c \in Int, NEW B \in SUBSET S, NEW f \in [S -> Int],
         \A x \in S : f[x] = IF x \in B THEN c ELSE 0
  PROVE  SumOver(S, f) = c * Cardinality(B)
<1>1. PICK F : F = SumTable(S, f) /\ Additive(S, f, F)
  BY SumTableAdds
<1> DEFINE A == {s \in SUBSET S : F[s] = c * Cardinality(s \cap B)}
<1>2. {} \in A
  <2>1. {} \cap B = {} /\ Cardinality({}) = 0
    BY FS_EmptySet
  <2>2. c * 0 = 0
    OBVIOUS
  <2>3. F[{}] = c * Cardinality({} \cap B)
    BY <1>1, <2>1, <2>2 DEF Additive
  <2> QED
    BY <2>3
<1>3. ASSUME NEW s \in SUBSET S, s \in A, NEW x \in S \ s PROVE s \cup {x} \in A
  <2>1. F[s \cup {x}] = F[s] + f[x] /\ F[s] \in Int
    BY <1>1 DEF Additive
  <2>2. F[s] = c * Cardinality(s \cap B)
    BY <1>3
  <2>3. IsFiniteSet(s \cap B)
    BY FS_Subset
  <2>4. PICK n \in Nat : n = Cardinality(s \cap B)
    BY <2>3, FS_CardinalityType
  <2>5. CASE x \in B
    <3>1. (s \cup {x}) \cap B = (s \cap B) \cup {x} /\ x \notin s \cap B
      BY <2>5
    <3>2. Cardinality((s \cup {x}) \cap B) = n + 1
      BY <2>3, <2>4, <3>1, FS_AddElement
    <3>3. c * (n + 1) = c * n + c
      OBVIOUS
    <3>4. F[s \cup {x}] = c * Cardinality((s \cup {x}) \cap B)
      BY <2>1, <2>2, <2>4, <2>5, <3>2, <3>3
    <3> QED
      BY <3>4
  <2>6. CASE x \notin B
    <3>1. (s \cup {x}) \cap B = s \cap B
      BY <2>6
    <3>2. F[s \cup {x}] = F[s]
      BY <2>1, <2>6
    <3>3. F[s \cup {x}] = c * Cardinality((s \cup {x}) \cap B)
      BY <2>2, <3>1, <3>2
    <3> QED
      BY <3>3
  <2> QED
    BY <2>5, <2>6
<1> HIDE DEF A
<1>4. S \in A
  BY <1>2, <1>3, AddInduct
<1>5. S \cap B = B
  OBVIOUS
<1> QED
  BY <1>1, <1>4, <1>5 DEF A, SumOver

\* A sum grows with its terms, and strictly when one term does.
LEMMA SumGrows ==
  ASSUME NEW S, IsFiniteSet(S), NEW f \in [S -> Int], NEW g \in [S -> Int],
         \A x \in S : f[x] <= g[x]
  PROVE  /\ SumOver(S, f) <= SumOver(S, g)
         /\ (\E x \in S : f[x] < g[x]) => SumOver(S, f) < SumOver(S, g)
<1>1. PICK F, G : /\ F = SumTable(S, f) /\ G = SumTable(S, g)
                  /\ Additive(S, f, F) /\ Additive(S, g, G)
  BY SumTableAdds
<1> DEFINE A == {s \in SUBSET S : F[s] <= G[s] /\ ((\E y \in s : f[y] < g[y]) => F[s] < G[s])}
<1>2. {} \in A
  BY <1>1 DEF Additive
<1>3. ASSUME NEW s \in SUBSET S, s \in A, NEW x \in S \ s PROVE s \cup {x} \in A
  <2>1. F[s \cup {x}] = F[s] + f[x] /\ G[s \cup {x}] = G[s] + g[x]
    BY <1>1 DEF Additive
  <2>2. PICK a \in Int, b \in Int, u \in Int, v \in Int : a = F[s] /\ b = f[x] /\ u = G[s] /\ v = g[x]
    BY <1>1 DEF Additive
  <2>3. a <= u /\ b <= v /\ ((\E y \in s : f[y] < g[y]) => a < u)
    BY <1>3, <2>2
  <2>4. a + b <= u + v /\ (a < u \/ b < v => a + b < u + v)
    BY <2>3
  <2>5. (\E y \in s \cup {x} : f[y] < g[y]) => a < u \/ b < v
    BY <2>2, <2>3
  <2>6. F[s \cup {x}] = a + b /\ G[s \cup {x}] = u + v
    BY <2>1, <2>2
  <2>7. F[s \cup {x}] <= G[s \cup {x}] /\ ((\E y \in s \cup {x} : f[y] < g[y]) => F[s \cup {x}] < G[s \cup {x}])
    BY <2>4, <2>5, <2>6
  <2> QED
    BY <2>7
<1> HIDE DEF A
<1>4. S \in A
  BY <1>2, <1>3, AddInduct
<1> QED
  BY <1>1, <1>4 DEF A, SumOver

ColumnOf(S, f, y) == [x \in S |-> f[x][y]]

\* The sums of a table's rows and of its columns.
Crossed(S, C, f, row, column) ==
  /\ f \in [S -> [C -> Int]]
  /\ row \in [S -> Int] /\ \A x \in S : row[x] = SumOver(C, f[x])
  /\ column \in [C -> Int] /\ \A y \in C : column[y] = SumOver(S, ColumnOf(S, f, y))

\* Rows first or columns first, the sum is the same.
LEMMA SumExchanges ==
  ASSUME NEW S, IsFiniteSet(S), NEW C, IsFiniteSet(C), NEW f, NEW row, NEW column,
         Crossed(S, C, f, row, column)
  PROVE  SumOver(S, row) = SumOver(C, column)
<1> USE DEF Crossed
<1> DEFINE part(y) == ColumnOf(S, f, y)
           below(s) == [y \in C |-> SumTable(S, part(y))[s]]
           A == {s \in SUBSET S : SumTable(S, row)[s] = SumOver(C, below(s))}
<1>1. \A y \in C : part(y) \in [S -> Int]
  BY DEF ColumnOf
<1>2. \A y \in C : Additive(S, part(y), SumTable(S, part(y)))
  <2> HIDE DEF part
  <2> QED
    BY <1>1, SumTableAdds
<1>3. PICK R : R = SumTable(S, row) /\ Additive(S, row, R)
  BY SumTableAdds
<1>4. \A s \in SUBSET S : below(s) \in [C -> Int]
  BY <1>2 DEF Additive
<1>5. {} \in A
  <2>1. \A y \in C : below({})[y] = 0
    BY <1>2 DEF Additive
  <2>2. \A y \in C : below({})[y] = IF y \in {} THEN 0 ELSE 0
    BY <2>1
  <2>3. below({}) \in [C -> Int]
    BY <1>4
  <2>4. {} \in SUBSET C
    OBVIOUS
  <2> HIDE DEF below
  <2>5. SumOver(C, below({})) = 0 * Cardinality({})
    BY <2>2, <2>3, <2>4, SumCounts
  <2>6. Cardinality({}) = 0
    BY FS_EmptySet
  <2>7. SumOver(C, below({})) = 0
    BY <2>5, <2>6
  <2> QED
    BY <1>3, <2>7 DEF Additive
<1>6. ASSUME NEW s \in SUBSET S, s \in A, NEW x \in S \ s PROVE s \cup {x} \in A
  <2>1. ASSUME NEW y \in C PROVE below(s \cup {x})[y] = below(s)[y] + f[x][y]
    <3>1. part(y)[x] = f[x][y]
      BY DEF ColumnOf
    <3>2. SumTable(S, part(y))[s \cup {x}] = SumTable(S, part(y))[s] + part(y)[x]
      <4> HIDE DEF part
      <4> QED
        BY <1>2 DEF Additive
    <3> HIDE DEF part
    <3> QED
      BY <3>1, <3>2
  <2>2. below(s) \in [C -> Int] /\ below(s \cup {x}) \in [C -> Int] /\ f[x] \in [C -> Int]
    BY <1>4
  <2>3. SumTable(S, row)[s] = SumOver(C, below(s))
    BY <1>6
  <2> HIDE DEF below
  <2>4. SumOver(C, below(s \cup {x})) = SumOver(C, below(s)) + SumOver(C, f[x])
    <3>1. PICK p, q, r : p = below(s) /\ q = f[x] /\ r = below(s \cup {x})
      OBVIOUS
    <3>2. p \in [C -> Int] /\ q \in [C -> Int] /\ r \in [C -> Int] /\ \A y \in C : r[y] = p[y] + q[y]
      BY <2>1, <2>2, <3>1
    <3>3. SumOver(C, r) = SumOver(C, p) + SumOver(C, q)
      BY <3>2, SumPlus
    <3> QED
      BY <3>1, <3>3
  <2>5. R[s \cup {x}] = R[s] + row[x]
    BY <1>3 DEF Additive
  <2>6. R[s \cup {x}] = SumOver(C, below(s \cup {x}))
    BY <1>3, <2>3, <2>4, <2>5
  <2> QED
    BY <1>3, <2>6
<1>7. S \in A
  <2> HIDE DEF A
  <2> QED
    BY <1>5, <1>6, AddInduct
<1>8. below(S) = column
  BY <1>4 DEF SumOver
<1> QED
  BY <1>7, <1>8 DEF SumOver
=============================================================================
