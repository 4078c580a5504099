------------------------ MODULE DependencyGraphProofs ------------------------
(***************************************************************************)
(* Proofs about the import graph: Tarjan's walk, on its explicit stacks    *)
(* and in whatever order the nodes were interned, closes exactly the       *)
(* classes of nodes that import one another, for every corpus of files.    *)
(*                                                                         *)
(* The invariant of the walk is stated over sets alone: the nodes V that   *)
(* were entered, those S on the component stack, those G on the call       *)
(* stack, the links Q already looked at, the pairs R of which one reaches  *)
(* the other, the discovery numbers d and the low links l.                 *)
(*                                                                         *)
(* The second part is page_rank: a round keeps the sum of the scores and   *)
(* orders the nodes by who imports them.                                   *)
(***************************************************************************)
EXTENDS DependencyGraph, SharedLemmas

\* A low link is the number of a node of the stack that the node reaches.
Linked(S, R, d, l) == \A n \in S : l[n] <= d[n] /\ \E m \in S : d[m] = l[n] /\ <<n, m>> \in R

\* A node of the stack reaches a call below it that is still open.
Anchored(S, G, R, d) == \A n \in S : \E g \in G : d[g] <= d[n] /\ <<n, g>> \in R

\* An open call reaches everything above it on the stack.
Leading(S, G, R, d) == \A g \in G : \A n \in S : d[g] <= d[n] => <<g, n>> \in R

\* A link looked at leads to a node entered, and never out of what is finished.
Explored(V, S, Q) == \A p \in Q : p[1] \in V /\ p[2] \in V /\ (p[1] \notin S => p[2] \notin S)

\* The links looked at above an open call, up to the next one, lead no lower
\* on the stack than that call's low link.
Bounded(S, G, Q, d, l) ==
  \A p \in Q : \A g \in G :
    /\ p[1] \in S /\ p[2] \in S
    /\ d[g] <= d[p[1]] /\ \A h \in G : d[h] <= d[g] \/ d[p[1]] < d[h]
    => l[g] <= d[p[2]]

Walking(V, S, G, Q, R, d, l) ==
  /\ Linked(S, R, d, l) /\ Anchored(S, G, R, d) /\ Leading(S, G, R, d)
  /\ Explored(V, S, Q) /\ Bounded(S, G, Q, d, l)

\* The walk between two steps; k is the next discovery number.
Walk(N, V, S, G, Q, R, d, l, k) ==
  /\ V \subseteq N /\ S \subseteq V /\ G \subseteq S /\ Q \subseteq N \X N
  /\ d \in [N -> Int] /\ l \in [N -> Int] /\ k \in Int /\ \A n \in V : d[n] < k
  /\ \A m, n \in V : d[m] = d[n] => m = n
  /\ \A n \in N : <<n, n>> \in R
  /\ \A a, b, c \in N : <<a, b>> \in R /\ <<b, c>> \in R => <<a, c>> \in R
  /\ Walking(V, S, G, Q, R, d, l)

Innermost(G, d, t) == t \in G /\ \A g \in G : d[g] <= d[t]

\* The low link of t is lowered to v.
Lowered(l, t, v) == [l EXCEPT ![t] = Lower(l[t], v)]

\* Entering a node that every open call reaches.
LEMMA EnterKeepsWalk ==
  ASSUME NEW N, NEW V, NEW S, NEW G, NEW Q, NEW R, NEW d, NEW l, NEW k,
         Walk(N, V, S, G, Q, R, d, l, k),
         NEW c \in N \ V,
         \A g \in G : <<g, c>> \in R,
         NEW e, e = [d EXCEPT ![c] = k], NEW w, w = [l EXCEPT ![c] = k],
         NEW P \in SUBSET (N \X N), \A p \in P : p \in Q \/ (p[1] \in S /\ p[2] = c)
  PROVE  Walk(N, V \cup {c}, S \cup {c}, G \cup {c}, P, R, e, w, k + 1)
<1> USE DEF Walk
<1>1. \A n \in N : n # c => e[n] = d[n] /\ w[n] = l[n]
  OBVIOUS
<1>2. e[c] = k /\ w[c] = k
  OBVIOUS
<1>3. c \notin S /\ c \notin G
  OBVIOUS
<1>4. Linked(S \cup {c}, R, e, w)
  <2>1. ASSUME NEW n \in S PROVE w[n] <= e[n] /\ \E m \in S \cup {c} : e[m] = w[n] /\ <<n, m>> \in R
    <3>1. PICK m \in S : d[m] = l[n] /\ <<n, m>> \in R
      BY DEF Walking, Linked
    <3>2. l[n] <= d[n]
      BY DEF Walking, Linked
    <3>3. e[m] = d[m] /\ e[n] = d[n] /\ w[n] = l[n]
      BY <1>1, <1>3
    <3> QED
      BY <3>1, <3>2, <3>3
  <2>2. w[c] <= e[c] /\ e[c] = w[c] /\ <<c, c>> \in R
    BY <1>2
  <2> QED
    BY <2>1, <2>2 DEF Linked
<1>5. Anchored(S \cup {c}, G \cup {c}, R, e)
  <2>1. ASSUME NEW n \in S PROVE \E g \in G \cup {c} : e[g] <= e[n] /\ <<n, g>> \in R
    <3>1. PICK g \in G : d[g] <= d[n] /\ <<n, g>> \in R
      BY DEF Walking, Anchored
    <3>2. e[g] = d[g] /\ e[n] = d[n]
      BY <1>1, <1>3
    <3> QED
      BY <3>1, <3>2
  <2>2. e[c] <= e[c] /\ <<c, c>> \in R
    BY <1>2
  <2> QED
    BY <2>1, <2>2 DEF Anchored
<1>6. Leading(S \cup {c}, G \cup {c}, R, e)
  <2> SUFFICES ASSUME NEW g \in G \cup {c}, NEW n \in S \cup {c}, e[g] <= e[n] PROVE <<g, n>> \in R
    BY DEF Leading
  <2>1. CASE n = c
    BY <2>1
  <2>2. CASE n # c
    <3>1. e[n] = d[n] /\ d[n] < k /\ n \in S
      BY <1>1, <2>2
    <3>2. g # c
      BY <3>1, <1>2
    <3> QED
      BY <3>1, <3>2, <1>1 DEF Walking, Leading
  <2> QED
    BY <2>1, <2>2
<1>7. Explored(V \cup {c}, S \cup {c}, P)
  <2> SUFFICES ASSUME NEW p \in P
               PROVE  /\ p[1] \in V \cup {c} /\ p[2] \in V \cup {c}
                      /\ p[1] \notin S \cup {c} => p[2] \notin S \cup {c}
    BY DEF Explored
  <2>1. CASE p \in Q
    BY <2>1 DEF Walking, Explored
  <2>2. CASE p[1] \in S /\ p[2] = c
    BY <2>2
  <2> QED
    BY <2>1, <2>2
<1>8. Bounded(S \cup {c}, G \cup {c}, P, e, w)
  <2> SUFFICES ASSUME NEW p \in P, NEW g \in G \cup {c},
                      p[1] \in S \cup {c}, p[2] \in S \cup {c}, e[g] <= e[p[1]],
                      \A h \in G \cup {c} : e[h] <= e[g] \/ e[p[1]] < e[h]
               PROVE  w[g] <= e[p[2]]
    BY DEF Bounded
  <2>1. p[1] \in S /\ p[1] # c
    <3>1. CASE p \in Q
      BY <3>1, <1>3 DEF Walking, Explored
    <3>2. CASE p[1] \in S
      BY <3>2, <1>3
    <3> QED
      BY <3>1, <3>2
  <2>2. g \in G /\ g # c
    BY <2>1, <1>1, <1>2, <1>3
  <2>3. w[g] = l[g] /\ e[g] = d[g] /\ e[p[1]] = d[p[1]] /\ l[g] <= d[g]
    BY <2>1, <2>2, <1>1 DEF Walking, Linked
  <2>4. CASE p[2] = c
    BY <2>1, <2>2, <2>3, <2>4, <1>2
  <2>5. CASE p[2] # c
    <3>1. p \in Q /\ p[2] \in S /\ e[p[2]] = d[p[2]]
      BY <2>5, <1>1
    <3>2. \A h \in G : d[h] <= d[g] \/ d[p[1]] < d[h]
      BY <2>3, <1>1, <1>3
    <3> QED
      BY <2>1, <2>2, <2>3, <3>1, <3>2 DEF Walking, Bounded
  <2> QED
    BY <2>4, <2>5
<1> QED
  BY <1>4, <1>5, <1>6, <1>7, <1>8 DEF Walking

\* Looking at a link of the innermost call to a node entered before.
LEMMA LookKeepsWalk ==
  ASSUME NEW N, NEW V, NEW S, NEW G, NEW Q, NEW R, NEW d, NEW l, NEW k,
         Walk(N, V, S, G, Q, R, d, l, k),
         NEW t, Innermost(G, d, t), NEW c \in V, <<t, c>> \in R,
         NEW w, c \in S => w = Lowered(l, t, d[c]), c \notin S => w = l,
         NEW P \in SUBSET (N \X N), \A p \in P : p \in Q \/ (p[1] = t /\ p[2] = c)
  PROVE  Walk(N, V, S, G, P, R, d, w, k)
<1> USE DEF Walk, Innermost, Lowered
<1>1. w \in [N -> Int] /\ \A n \in N : w[n] <= l[n] /\ (n # t => w[n] = l[n])
  BY DEF Lower
<1>2. c \in S => w[t] <= d[c] /\ (w[t] = l[t] \/ w[t] = d[c])
  BY DEF Lower
<1>3. c \notin S => w = l
  OBVIOUS
<1>4. Linked(S, R, d, w)
  <2> SUFFICES ASSUME NEW n \in S PROVE w[n] <= d[n] /\ \E m \in S : d[m] = w[n] /\ <<n, m>> \in R
    BY DEF Linked
  <2>1. l[n] <= d[n] /\ \E m \in S : d[m] = l[n] /\ <<n, m>> \in R
    BY DEF Walking, Linked
  <2>2. w[n] <= d[n]
    BY <2>1, <1>1
  <2>3. CASE w[n] = l[n]
    BY <2>1, <2>2, <2>3
  <2>4. CASE w[n] # l[n]
    <3>1. n = t /\ c \in S /\ w[n] = d[c]
      BY <2>4, <1>1, <1>2, <1>3
    <3> QED
      BY <2>2, <3>1
  <2> QED
    BY <2>3, <2>4
<1>5. Anchored(S, G, R, d) /\ Leading(S, G, R, d)
  BY DEF Walking
<1>6. Explored(V, S, P)
  BY DEF Walking, Explored
<1>7. Bounded(S, G, P, d, w)
  <2> SUFFICES ASSUME NEW p \in P, NEW g \in G, p[1] \in S, p[2] \in S, d[g] <= d[p[1]],
                      \A h \in G : d[h] <= d[g] \/ d[p[1]] < d[h]
               PROVE  w[g] <= d[p[2]]
    BY DEF Bounded
  <2>1. CASE p \in Q
    <3>1. l[g] <= d[p[2]]
      BY <2>1 DEF Walking, Bounded
    <3> QED
      BY <3>1, <1>1
  <2>2. CASE p[1] = t /\ p[2] = c
    <3>1. d[g] = d[t]
      BY <2>2
    <3>2. CASE g = t
      BY <2>2, <3>2, <1>2
    <3> QED
      BY <3>1, <3>2
  <2> QED
    BY <2>1, <2>2
<1> QED
  BY <1>1, <1>4, <1>5, <1>6, <1>7 DEF Walking

\* An open call below t that t reaches.
LowerCall(G, R, d, t, r) == r \in G \ {t} /\ d[r] < d[t] /\ <<t, r>> \in R

\* A call that is not the root of its component reaches one open below it.
LEMMA ReturnHasParent ==
  ASSUME NEW N, NEW V, NEW S, NEW G, NEW Q, NEW R, NEW d, NEW l, NEW k,
         Walk(N, V, S, G, Q, R, d, l, k),
         NEW t, Innermost(G, d, t), l[t] # d[t]
  PROVE  \E r : LowerCall(G, R, d, t, r)
<1> USE DEF Walk, Innermost
<1>1. PICK m \in S : d[m] = l[t] /\ <<t, m>> \in R
  BY DEF Walking, Linked
<1>2. d[m] < d[t]
  BY <1>1 DEF Walking, Linked
<1>3. PICK r \in G : d[r] <= d[m] /\ <<m, r>> \in R
  BY DEF Walking, Anchored
<1>4. d[r] < d[t] /\ <<t, r>> \in R
  BY <1>1, <1>2, <1>3
<1>5. r # t
  BY <1>4
<1> QED
  BY <1>4, <1>5 DEF LowerCall

\* Returning from such a call: the call below takes over its low link.
LEMMA ReturnKeepsWalk ==
  ASSUME NEW N, NEW V, NEW S, NEW G, NEW Q, NEW R, NEW d, NEW l, NEW k,
         Walk(N, V, S, G, Q, R, d, l, k),
         NEW t, Innermost(G, d, t), l[t] # d[t],
         NEW u, Innermost(G \ {t}, d, u)
  PROVE  Walk(N, V, S, G \ {t}, Q, R, d, Lowered(l, u, l[t]), k)
<1>1. PICK r \in G \ {t} : d[r] < d[t] /\ <<t, r>> \in R
  BY ReturnHasParent DEF LowerCall
<1> DEFINE w == Lowered(l, u, l[t])
<1> USE DEF Walk, Innermost
<1>2. w \in [N -> Int] /\ \A n \in N : w[n] <= l[n] /\ (n # u => w[n] = l[n])
  BY DEF Lower, Lowered
<1>3. w[u] <= l[t] /\ (w[u] = l[u] \/ w[u] = l[t])
  BY DEF Lower, Lowered
<1> HIDE DEF w
<1>4. d[u] <= d[t] /\ <<u, t>> \in R
  BY DEF Walking, Leading
<1>5. Linked(S, R, d, w)
  <2> SUFFICES ASSUME NEW n \in S PROVE w[n] <= d[n] /\ \E m \in S : d[m] = w[n] /\ <<n, m>> \in R
    BY DEF Linked
  <2>1. l[n] <= d[n] /\ \E m \in S : d[m] = l[n] /\ <<n, m>> \in R
    BY DEF Walking, Linked
  <2>2. w[n] <= d[n]
    BY <1>2, <2>1
  <2>3. CASE w[n] = l[n]
    BY <2>1, <2>2, <2>3
  <2>4. CASE w[n] # l[n]
    <3>1. n = u /\ w[n] = l[t]
      BY <2>4, <1>2, <1>3
    <3>2. PICK m \in S : d[m] = l[t] /\ <<t, m>> \in R
      BY DEF Walking, Linked
    <3>3. <<u, m>> \in R
      BY <1>4, <3>2
    <3> QED
      BY <2>2, <3>1, <3>2, <3>3
  <2> QED
    BY <2>3, <2>4
<1>6. Anchored(S, G \ {t}, R, d)
  <2> SUFFICES ASSUME NEW n \in S PROVE \E g \in G \ {t} : d[g] <= d[n] /\ <<n, g>> \in R
    BY DEF Anchored
  <2>1. PICK g \in G : d[g] <= d[n] /\ <<n, g>> \in R
    BY DEF Walking, Anchored
  <2>2. CASE g = t
    <3>1. d[r] <= d[n] /\ <<n, r>> \in R
      BY <2>1, <2>2, <1>1
    <3> QED
      BY <3>1
  <2> QED
    BY <2>1, <2>2
<1>7. Leading(S, G \ {t}, R, d) /\ Explored(V, S, Q)
  BY DEF Walking, Leading
<1>8. Bounded(S, G \ {t}, Q, d, w)
  <2> SUFFICES ASSUME NEW p \in Q, NEW g \in G \ {t}, p[1] \in S, p[2] \in S, d[g] <= d[p[1]],
                      \A h \in G \ {t} : d[h] <= d[g] \/ d[p[1]] < d[h]
               PROVE  w[g] <= d[p[2]]
    BY DEF Bounded
  <2>1. CASE d[p[1]] < d[t]
    <3>1. l[g] <= d[p[2]]
      BY <2>1 DEF Walking, Bounded
    <3> QED
      BY <3>1, <1>2
  <2>2. CASE d[t] <= d[p[1]]
    <3>1. l[t] <= d[p[2]]
      BY <2>2 DEF Walking, Bounded
    <3>2. d[u] <= d[g] \/ d[p[1]] < d[u]
      OBVIOUS
    <3>3. d[u] = d[g]
      BY <3>2, <2>2, <1>4
    <3>4. u = g
      BY <3>3
    <3> QED
      BY <3>1, <3>4, <1>2, <1>3
  <2> QED
    BY <2>1, <2>2
<1> QED
  BY <1>2, <1>5, <1>6, <1>7, <1>8 DEF Walking, w

\* The nodes a root closes: itself and what lies above it on the stack.
Closed(S, d, t) == {n \in S : d[t] <= d[n]}

\* Returning from the root of a component takes the component off the stack.
LEMMA CloseKeepsWalk ==
  ASSUME NEW N, NEW V, NEW S, NEW G, NEW Q, NEW R, NEW d, NEW l, NEW k,
         Walk(N, V, S, G, Q, R, d, l, k),
         NEW t, Innermost(G, d, t), l[t] = d[t]
  PROVE  Walk(N, V, S \ Closed(S, d, t), G \ {t}, Q, R, d, l, k)
<1> USE DEF Walk, Innermost
<1> DEFINE C == Closed(S, d, t)
<1>1. \A n \in S \ C : d[n] < d[t]
  BY DEF Closed
<1>2. G \ {t} \subseteq S \ C
  BY DEF Closed
<1> HIDE DEF C
<1>3. Linked(S \ C, R, d, l)
  <2> SUFFICES ASSUME NEW n \in S \ C PROVE l[n] <= d[n] /\ \E m \in S \ C : d[m] = l[n] /\ <<n, m>> \in R
    BY DEF Linked
  <2>1. l[n] <= d[n]
    BY DEF Walking, Linked
  <2>2. PICK m \in S : d[m] = l[n] /\ <<n, m>> \in R
    BY DEF Walking, Linked
  <2>3. m \notin C
    BY <2>1, <2>2, <1>1 DEF C, Closed
  <2> QED
    BY <2>1, <2>2, <2>3
<1>4. Anchored(S \ C, G \ {t}, R, d)
  <2> SUFFICES ASSUME NEW n \in S \ C PROVE \E g \in G \ {t} : d[g] <= d[n] /\ <<n, g>> \in R
    BY DEF Anchored
  <2>1. PICK g \in G : d[g] <= d[n] /\ <<n, g>> \in R
    BY DEF Walking, Anchored
  <2>2. g # t
    BY <2>1, <1>1
  <2> QED
    BY <2>1, <2>2
<1>5. Leading(S \ C, G \ {t}, R, d)
  BY DEF Walking, Leading
<1>6. Explored(V, S \ C, Q)
  <2> SUFFICES ASSUME NEW p \in Q, p[1] \in C, p[2] \in S PROVE p[2] \in C
    BY DEF Explored, Walking
  <2>1. p[1] \in S /\ d[t] <= d[p[1]]
    BY DEF C, Closed
  <2>2. l[t] <= d[p[2]]
    BY <2>1 DEF Walking, Bounded
  <2> QED
    BY <2>2 DEF C, Closed
<1>7. Bounded(S \ C, G \ {t}, Q, d, l)
  <2> SUFFICES ASSUME NEW p \in Q, NEW g \in G \ {t}, p[1] \in S \ C, p[2] \in S \ C, d[g] <= d[p[1]],
                      \A h \in G \ {t} : d[h] <= d[g] \/ d[p[1]] < d[h]
               PROVE  l[g] <= d[p[2]]
    BY DEF Bounded
  <2>1. d[p[1]] < d[t]
    BY <1>1
  <2> QED
    BY <2>1 DEF Walking, Bounded
<1> QED
  BY <1>2, <1>3, <1>4, <1>5, <1>6, <1>7 DEF Walking, C

\* R relates each node to what it reaches along L.
Closure(N, L, R) ==
  /\ L \subseteq N \X N /\ L \subseteq R /\ R \subseteq N \X N
  /\ \A n \in N : <<n, n>> \in R
  /\ \A a, b, c \in N : <<a, b>> \in R /\ <<b, c>> \in R => <<a, c>> \in R
  /\ \A T \in SUBSET N : (\A p \in L : p[1] \in T => p[2] \in T)
       => \A a \in T : \A b \in N : <<a, b>> \in R => b \in T

\* Every link of what was entered has been seen, but for the calls below t.
AllSeen(L, V, G, Q, t) == \A p \in L : p[1] \in V /\ p[1] \notin G \ {t} => p \in Q

\* The nodes n reaches and is reached by.
MutualIn(N, R, n) == {m \in N : <<n, m>> \in R /\ <<m, n>> \in R}

\* What a root closes is what it reaches and is reached by.
LEMMA ClosedIsMutual ==
  ASSUME NEW N, NEW V, NEW S, NEW G, NEW Q, NEW R, NEW d, NEW l, NEW k,
         Walk(N, V, S, G, Q, R, d, l, k),
         NEW t, Innermost(G, d, t), l[t] = d[t],
         NEW L, Closure(N, L, R), AllSeen(L, V, G, Q, t)
  PROVE  Closed(S, d, t) = MutualIn(N, R, t)
<1> USE DEF Walk, Innermost, MutualIn, Closure, AllSeen
<1> DEFINE C == Closed(S, d, t)
<1>1. ASSUME NEW m \in C PROVE <<t, m>> \in R /\ <<m, t>> \in R
  <2>1. m \in S /\ d[t] <= d[m]
    BY DEF Closed
  <2>2. <<t, m>> \in R
    BY <2>1 DEF Walking, Leading
  <2>3. PICK g \in G : d[g] <= d[m] /\ <<m, g>> \in R
    BY <2>1 DEF Walking, Anchored
  <2>4. <<g, t>> \in R
    BY DEF Walking, Leading
  <2> QED
    BY <2>1, <2>2, <2>3, <2>4
<1>2. \A p \in L : p[1] \in V \ S => p[2] \in V \ S
  BY DEF Walking, Explored
<1>3. \A p \in L : p[1] \in C \cup (V \ S) => p[2] \in C \cup (V \ S)
  <2> SUFFICES ASSUME NEW p \in L, p[1] \in C PROVE p[2] \in C \cup (V \ S)
    BY <1>2
  <2>1. p[1] \in S /\ d[t] <= d[p[1]]
    BY DEF Closed
  <2>2. p[1] \notin G \ {t}
    BY <2>1
  <2>3. p \in Q /\ p[2] \in V
    BY <2>1, <2>2 DEF Walking, Explored
  <2>4. CASE p[2] \in S
    <3>1. l[t] <= d[p[2]]
      BY <2>1, <2>3, <2>4 DEF Walking, Bounded
    <3> QED
      BY <3>1, <2>4 DEF Closed
  <2> QED
    BY <2>3, <2>4
<1>4. t \in C /\ C \in SUBSET N
  BY DEF Closed
<1> HIDE DEF C
<1>5. ASSUME NEW m \in N, <<t, m>> \in R, <<m, t>> \in R PROVE m \in C
  <2>1. C \cup (V \ S) \in SUBSET N /\ V \ S \in SUBSET N
    BY <1>4
  <2>2. m \in C \cup (V \ S)
    BY <1>3, <1>4, <1>5, <2>1
  <2>3. m \notin V \ S
    BY <1>2, <1>5, <2>1
  <2> QED
    BY <2>2, <2>3
<1> QED
  BY <1>1, <1>4, <1>5 DEF C
-----------------------------------------------------------------------------
(* The same walk on its two stacks *)

Members(s) == {s[i] : i \in DOMAIN s}
Callers(c) == {c[i][1] : i \in DOMAIN c}
Rising(d, s) == \A i, j \in DOMAIN s : i < j => d[s[i]] < d[s[j]]
Nested(d, c) == \A i, j \in DOMAIN c : i < j => d[c[i][1]] < d[c[j][1]]
Trim(c, x) == [c EXCEPT ![Len(c)] = <<c[Len(c)][1], c[Len(c)][2] \ {x}>>]
Framed(L, c) == \A i \in DOMAIN c : \A m \in c[i][2] : <<c[i][1], m>> \in L
LinkedFrom(N, L, x) == {m \in N : <<x, m>> \in L}
Entered(N, d) == {n \in N : d[n] # Unvisited}

\* The links that the open calls have yet to look at.
Waiting(L, c) == {p \in L : \E i \in DOMAIN c : c[i][1] = p[1] /\ p[2] \in c[i][2]}
Seen(N, L, d, c) == {p \in L : p[1] \in Entered(N, d)} \ Waiting(L, c)

Class(I, N, R, n) == {I[m] : m \in MutualIn(N, R, n)}

\* What is finished, and no more, has been reported, each node in its class.
Tarjan(I, N, L, R, d, l, k, s, c, reported) ==
  /\ k \in Nat /\ s \in Seq(N) /\ c \in Seq(N \X SUBSET N)
  /\ Rising(d, s) /\ Nested(d, c) /\ Framed(L, c)
  /\ Walk(N, Entered(N, d), Members(s), Callers(c), Seen(N, L, d, c), R, d, l, k)
  /\ reported = {Class(I, N, R, n) : n \in Entered(N, d) \ Members(s)}

\* The last call is the innermost.
LEMMA LastIsInnermost ==
  ASSUME NEW N, NEW d \in [N -> Int], NEW c \in Seq(N \X SUBSET N), Nested(d, c), c # <<>>
  PROVE  Innermost(Callers(c), d, c[Len(c)][1])
<1>1. Len(c) \in DOMAIN c /\ \A i \in DOMAIN c : i <= Len(c) /\ i \in Nat
  OBVIOUS
<1>2. c[Len(c)][1] \in Callers(c)
  BY <1>1 DEF Callers
<1>3. ASSUME NEW g \in Callers(c) PROVE d[g] <= d[c[Len(c)][1]]
  <2>1. PICK i \in DOMAIN c : g = c[i][1]
    BY DEF Callers
  <2>2. CASE i = Len(c)
    BY <2>1, <2>2
  <2>3. CASE i < Len(c)
    BY <2>1, <2>3, <1>1 DEF Nested
  <2> QED
    BY <1>1, <2>2, <2>3
<1> QED
  BY <1>2, <1>3 DEF Innermost

\* f is c, but that the last call of f no longer waits for x.
Trimmed(N, L, c, f, x) ==
  /\ f \in Seq(N \X SUBSET N)
  /\ DOMAIN f = DOMAIN c
  /\ \A i \in DOMAIN c : f[i][1] = c[i][1] /\ f[i][2] \subseteq c[i][2]
  /\ \A p \in Waiting(L, c) : p \in Waiting(L, f) \/ (p[1] = c[Len(c)][1] /\ p[2] = x)

\* f is c without its last call.
Popped(N, c, f) ==
  /\ f \in Seq(N \X SUBSET N)
  /\ DOMAIN f = DOMAIN c \ {Len(c)}
  /\ \A i \in DOMAIN f : f[i] = c[i] /\ i \in DOMAIN c /\ i < Len(c)

\* Taking the child being looked at from what the last call has yet to see.
LEMMA TrimLast ==
  ASSUME NEW N, NEW L \in SUBSET (N \X N), NEW c \in Seq(N \X SUBSET N), c # <<>>, NEW x
  PROVE  Trimmed(N, L, c, Trim(c, x), x)
<1> DEFINE f == Trim(c, x)
<1> USE DEF Trim
<1>1. Len(c) \in DOMAIN c /\ DOMAIN c = 1..Len(c) /\ Len(c) \in Nat /\ \A i \in DOMAIN c : c[i] \in N \X SUBSET N
  OBVIOUS
<1>2. DOMAIN f = DOMAIN c /\ \A i \in DOMAIN c : i # Len(c) => f[i] = c[i]
  BY <1>1
<1>3. f[Len(c)] = <<c[Len(c)][1], c[Len(c)][2] \ {x}>>
  BY <1>1
<1>4. f[Len(c)] \in N \X SUBSET N
  BY <1>1, <1>3
<1>5. f \in [1..Len(c) -> N \X SUBSET N]
  BY <1>1, <1>2, <1>4
<1>6. f \in Seq(N \X SUBSET N)
  BY <1>5, <1>1
<1>7. \A i \in DOMAIN c : f[i][1] = c[i][1] /\ f[i][2] \subseteq c[i][2]
  BY <1>2, <1>3
<1>8. ASSUME NEW p \in Waiting(L, c), p[1] # c[Len(c)][1] \/ p[2] # x PROVE p \in Waiting(L, f)
  <2>1. PICK i \in DOMAIN c : c[i][1] = p[1] /\ p[2] \in c[i][2]
    BY DEF Waiting
  <2>2. p \in L
    BY DEF Waiting
  <2>3. p[2] \in f[i][2]
    BY <2>1, <1>2, <1>3, <1>8
  <2> QED
    BY <2>1, <2>2, <2>3, <1>2, <1>7 DEF Waiting
<1> HIDE DEF f
<1> QED
  BY <1>2, <1>6, <1>7, <1>8 DEF f, Trimmed

\* Looking at a child closes no call.
LEMMA TrimmedCallers ==
  ASSUME NEW N, NEW L, NEW c, NEW f, NEW x, Trimmed(N, L, c, f, x)
  PROVE  Callers(f) = Callers(c)
BY DEF Callers, Trimmed

\* The calls stay in order, and wait for children only.
LEMMA TrimmedFrames ==
  ASSUME NEW N, NEW L, NEW c, NEW f, NEW x, Trimmed(N, L, c, f, x), NEW d, Nested(d, c), Framed(L, c)
  PROVE  Nested(d, f) /\ Framed(L, f)
<1>1. Nested(d, f)
  BY DEF Nested, Trimmed
<1>2. Framed(L, f)
  BY DEF Framed, Trimmed
<1> QED
  BY <1>1, <1>2

\* Pushing a call: its node is then open.
LEMMA PushCaller ==
  ASSUME NEW N, NEW f \in Seq(N \X SUBSET N), NEW x \in N, NEW A \in SUBSET N
  PROVE  Callers(Append(f, <<x, A>>)) = Callers(f) \cup {x}
<1> DEFINE g == Append(f, <<x, A>>)
<1>1. g \in Seq(N \X SUBSET N) /\ DOMAIN g = DOMAIN f \cup {Len(f) + 1} /\ g[Len(f) + 1] = <<x, A>>
  OBVIOUS
<1>2. \A i \in DOMAIN f : g[i] = f[i]
  OBVIOUS
<1> QED
  BY <1>1, <1>2 DEF Callers

\* The links that are then waiting: those of before and the new call's.
LEMMA PushCall ==
  ASSUME NEW N, NEW L \in SUBSET (N \X N), NEW f \in Seq(N \X SUBSET N), NEW x \in N, NEW A \in SUBSET N
  PROVE  /\ Append(f, <<x, A>>) \in Seq(N \X SUBSET N)
         /\ \A p \in L : p \in Waiting(L, Append(f, <<x, A>>)) <=> p \in Waiting(L, f) \/ (p[1] = x /\ p[2] \in A)
<1> DEFINE g == Append(f, <<x, A>>)
<1>1. g \in Seq(N \X SUBSET N) /\ DOMAIN g = DOMAIN f \cup {Len(f) + 1} /\ g[Len(f) + 1] = <<x, A>>
  OBVIOUS
<1>2. \A i \in DOMAIN f : g[i] = f[i]
  OBVIOUS
<1>4. ASSUME NEW p \in L
      PROVE  (\E i \in DOMAIN g : g[i][1] = p[1] /\ p[2] \in g[i][2])
               <=> (\E i \in DOMAIN f : f[i][1] = p[1] /\ p[2] \in f[i][2]) \/ (p[1] = x /\ p[2] \in A)
  <2>1. ASSUME NEW i \in DOMAIN g, g[i][1] = p[1], p[2] \in g[i][2]
        PROVE  (\E j \in DOMAIN f : f[j][1] = p[1] /\ p[2] \in f[j][2]) \/ (p[1] = x /\ p[2] \in A)
    <3>1. CASE i \in DOMAIN f
      BY <2>1, <3>1, <1>2
    <3>2. CASE i = Len(f) + 1
      BY <2>1, <3>2, <1>1
    <3> QED
      BY <3>1, <3>2, <1>1
  <2>2. ASSUME NEW i \in DOMAIN f, f[i][1] = p[1], p[2] \in f[i][2]
        PROVE  \E j \in DOMAIN g : g[j][1] = p[1] /\ p[2] \in g[j][2]
    BY <2>2, <1>1, <1>2
  <2>3. ASSUME p[1] = x, p[2] \in A PROVE \E j \in DOMAIN g : g[j][1] = p[1] /\ p[2] \in g[j][2]
    <3>1. Len(f) + 1 \in DOMAIN g /\ g[Len(f) + 1][1] = p[1] /\ p[2] \in g[Len(f) + 1][2]
      BY <2>3, <1>1
    <3> QED
      BY <3>1
  <2> QED
    BY <2>1, <2>2, <2>3
<1>5. \A p \in L : p \in Waiting(L, g) <=> p \in Waiting(L, f) \/ (p[1] = x /\ p[2] \in A)
  BY <1>4 DEF Waiting
<1> QED
  BY <1>1, <1>5

\* Pushing a node.
LEMMA PushNode ==
  ASSUME NEW N, NEW s \in Seq(N), NEW x \in N
  PROVE  Append(s, x) \in Seq(N) /\ Members(Append(s, x)) = Members(s) \cup {x}
<1>1. DOMAIN Append(s, x) = DOMAIN s \cup {Len(s) + 1} /\ Append(s, x)[Len(s) + 1] = x
  OBVIOUS
<1>2. \A i \in DOMAIN s : Append(s, x)[i] = s[i]
  OBVIOUS
<1> QED
  BY <1>1, <1>2 DEF Members

\* Popping the last call.
LEMMA PopCall ==
  ASSUME NEW N, NEW c \in Seq(N \X SUBSET N), c # <<>>
  PROVE  Popped(N, c, Front(c))
<1> DEFINE f == Front(c)
           n == Len(c)
<1>1. n \in Nat \ {0} /\ DOMAIN c = 1..n /\ n \in DOMAIN c
  OBVIOUS
<1>2. f = SubSeq(c, 1, n - 1)
  BY DEF Front
<1> HIDE DEF f
<1>3. f \in Seq(N \X SUBSET N)
  BY <1>1, <1>2, SubSeqProperties
<1>4. Len(f) = n - 1 /\ \A i \in 1..(n - 1) : f[i] = c[i]
  BY <1>1, <1>2, <1>3
<1> HIDE DEF n
<1>5. DOMAIN f = 1..(n - 1)
  BY <1>1, <1>3, <1>4
<1>6. DOMAIN f = DOMAIN c \ {n} /\ \A i \in DOMAIN f : f[i] = c[i] /\ i \in DOMAIN c /\ i < n
  BY <1>1, <1>4, <1>5
<1> QED
  BY <1>3, <1>6 DEF f, n, Popped

\* The calls below stay in order, and wait for children only.
LEMMA PoppedFrames ==
  ASSUME NEW N, NEW L, NEW c, NEW f, Popped(N, c, f), NEW d, Nested(d, c), Framed(L, c)
  PROVE  Nested(d, f) /\ Framed(L, f)
<1>1. Nested(d, f)
  BY DEF Nested, Popped
<1>2. Framed(L, f)
  BY DEF Framed, Popped
<1> QED
  BY <1>1, <1>2

\* The node of the last call, and no other, is no longer open.
LEMMA PoppedCallers ==
  ASSUME NEW N, NEW c \in Seq(N \X SUBSET N), c # <<>>, NEW f, Popped(N, c, f),
         NEW d \in [N -> Int], Nested(d, c)
  PROVE  Callers(f) = Callers(c) \ {c[Len(c)][1]}
<1> DEFINE n == Len(c)
<1>1. n \in DOMAIN c /\ \A i \in DOMAIN c : c[i][1] \in N
  OBVIOUS
<1>2. DOMAIN f = DOMAIN c \ {n} /\ \A i \in DOMAIN f : f[i] = c[i] /\ i \in DOMAIN c /\ i < n
  BY DEF Popped
<1> HIDE DEF n
<1>3. \A i \in DOMAIN f : f[i][1] # c[n][1]
  BY <1>1, <1>2 DEF Nested
<1>4. ASSUME NEW g \in Callers(f) PROVE g \in Callers(c) \ {c[n][1]}
  <2>1. PICK i \in DOMAIN f : g = f[i][1]
    BY DEF Callers
  <2>2. i \in DOMAIN c /\ g = c[i][1] /\ g # c[n][1]
    BY <2>1, <1>2, <1>3
  <2> QED
    BY <2>2 DEF Callers
<1>5. ASSUME NEW g \in Callers(c), g # c[n][1] PROVE g \in Callers(f)
  <2>1. PICK i \in DOMAIN c : g = c[i][1]
    BY DEF Callers
  <2>2. i \in DOMAIN f /\ g = f[i][1]
    BY <2>1, <1>2, <1>5
  <2> QED
    BY <2>2 DEF Callers
<1> QED
  BY <1>4, <1>5 DEF n

\* A call with nothing left to look at takes nothing with it.
LEMMA PoppedWaiting ==
  ASSUME NEW N, NEW L, NEW c \in Seq(N \X SUBSET N), c # <<>>, NEW f, Popped(N, c, f), c[Len(c)][2] = {}
  PROVE  Waiting(L, f) = Waiting(L, c)
<1> DEFINE n == Len(c)
<1>1. n \in DOMAIN c /\ c[n][2] = {}
  OBVIOUS
<1>2. DOMAIN f = DOMAIN c \ {n} /\ \A i \in DOMAIN f : f[i] = c[i]
  BY DEF Popped
<1> HIDE DEF n
<1> QED
  BY <1>1, <1>2 DEF Waiting

\* Enter, on frames that differ from the calls only in having looked at x.
LEMMA TarjanEnters ==
  ASSUME NEW I, NEW N, NEW L, NEW R, NEW d, NEW l, NEW k, NEW s, NEW c, NEW reported,
         Tarjan(I, N, L, R, d, l, k, s, c, reported), Closure(N, L, R),
         NEW x \in N, d[x] = Unvisited, \A g \in Callers(c) : <<g, x>> \in R,
         NEW f \in Seq(N \X SUBSET N), Nested(d, f), Framed(L, f), Callers(f) = Callers(c),
         \A p \in Waiting(L, c) : p \in Waiting(L, f) \/ (p[1] \in Callers(c) /\ p[2] = x)
  PROVE  Tarjan(I, N, L, R, [d EXCEPT ![x] = k], [l EXCEPT ![x] = k], k + 1, Append(s, x),
                Append(f, <<x, LinkedFrom(N, L, x)>>), reported)
<1> DEFINE e == [d EXCEPT ![x] = k]
           w == [l EXCEPT ![x] = k]
           A == LinkedFrom(N, L, x)
           g == Append(f, <<x, A>>)
           V == Entered(N, d)
           S == Members(s)
           G == Callers(c)
           Q == Seen(N, L, d, c)
           P == Seen(N, L, e, g)
<1>1. /\ Walk(N, V, S, G, Q, R, d, l, k) /\ k \in Nat /\ s \in Seq(N) /\ Rising(d, s)
      /\ reported = {Class(I, N, R, n) : n \in V \ S}
  BY DEF Tarjan
<1>2. V \subseteq N /\ S \subseteq V /\ G \subseteq S /\ d \in [N -> Int] /\ \A n \in V : d[n] < k
  BY <1>1 DEF Walk
<1>3. x \notin V /\ L \in SUBSET (N \X N) /\ A \in SUBSET N
  BY DEF Entered, Closure, LinkedFrom
<1>4. e \in [N -> Int] /\ e[x] = k /\ \A n \in N : n # x => e[n] = d[n]
  BY <1>1, <1>2
<1>5. /\ g \in Seq(N \X SUBSET N) /\ Callers(g) = G \cup {x}
      /\ \A p \in L : p \in Waiting(L, g) <=> p \in Waiting(L, f) \/ (p[1] = x /\ p[2] \in A)
  <2>1. Callers(f) = G
    OBVIOUS
  <2>2. /\ g \in Seq(N \X SUBSET N) /\ Callers(g) = Callers(f) \cup {x}
        /\ \A p \in L : p \in Waiting(L, g) <=> p \in Waiting(L, f) \/ (p[1] = x /\ p[2] \in A)
    <3> HIDE DEF A
    <3>1. g \in Seq(N \X SUBSET N)
      BY <1>3, PushCall
    <3>2. Callers(g) = Callers(f) \cup {x}
      BY <1>3, PushCaller
    <3>3. \A p \in L : p \in Waiting(L, g) <=> p \in Waiting(L, f) \/ (p[1] = x /\ p[2] \in A)
      BY <1>3, PushCall
    <3> QED
      BY <3>1, <3>2, <3>3
  <2> QED
    BY <2>1, <2>2
<1>6. Append(s, x) \in Seq(N) /\ Members(Append(s, x)) = S \cup {x}
  BY <1>1, PushNode
<1>7. Entered(N, e) = V \cup {x}
  BY <1>1, <1>4 DEF Entered, Unvisited
<1>8. P \in SUBSET (N \X N) /\ \A p \in P : p \in Q \/ (p[1] \in S /\ p[2] = x)
  <2>1. P \subseteq L
    BY DEF Seen
  <2>2. ASSUME NEW p \in P PROVE p \in Q \/ (p[1] \in S /\ p[2] = x)
    <3>1. p \in L /\ p[1] \in V \cup {x} /\ p \notin Waiting(L, g)
      BY <1>7 DEF Seen
    <3>2. p[1] \in N /\ p[2] \in N /\ p = <<p[1], p[2]>>
      BY <3>1, <1>3
    <3>3. p[1] # x
      <4>1. ASSUME p[1] = x PROVE FALSE
        <5>1. p[2] \in A
          BY <3>1, <3>2, <4>1 DEF LinkedFrom
        <5> QED
          BY <3>1, <4>1, <5>1, <1>5
      <4> QED
        BY <4>1
    <3>4. p[1] \in V /\ p \notin Waiting(L, f)
      BY <3>1, <3>3, <1>5
    <3> QED
      BY <3>1, <3>4, <1>2 DEF Seen
  <2> QED
    BY <2>1, <2>2, <1>3
<1>9. Walk(N, V \cup {x}, S \cup {x}, G \cup {x}, P, R, e, w, k + 1)
  <2>1. x \in N \ V /\ \A h \in G : <<h, x>> \in R
    BY <1>3
  <2>2. e = [d EXCEPT ![x] = k] /\ w = [l EXCEPT ![x] = k]
    OBVIOUS
  <2> HIDE DEF V, S, G, Q, P, A, g, e, w
  <2> QED
    BY <1>1, <1>8, <2>1, <2>2, EnterKeepsWalk
<1>10. Rising(e, Append(s, x))
  <2> SUFFICES ASSUME NEW i \in DOMAIN Append(s, x), NEW j \in DOMAIN Append(s, x), i < j
               PROVE  e[Append(s, x)[i]] < e[Append(s, x)[j]]
    BY DEF Rising
  <2>1. i \in DOMAIN s /\ i \in 1..Len(s) /\ Append(s, x)[i] = s[i] /\ s[i] \in V
    BY <1>1, <1>2 DEF Members
  <2>2. e[s[i]] = d[s[i]] /\ d[s[i]] < k
    BY <2>1, <1>2, <1>3, <1>4
  <2>3. CASE j \in DOMAIN s
    <3>1. Append(s, x)[j] = s[j] /\ s[j] \in V
      BY <2>3, <1>1, <1>2 DEF Members
    <3>2. e[s[j]] = d[s[j]]
      BY <3>1, <1>2, <1>3, <1>4
    <3> QED
      BY <2>1, <2>2, <2>3, <3>1, <3>2, <1>1 DEF Rising
  <2>4. CASE j = Len(s) + 1
    BY <2>1, <2>2, <2>4, <1>1, <1>4
  <2> QED
    BY <2>3, <2>4, <1>1
<1>11. Nested(e, g)
  <2> SUFFICES ASSUME NEW i \in DOMAIN g, NEW j \in DOMAIN g, i < j PROVE e[g[i][1]] < e[g[j][1]]
    BY DEF Nested
  <2>1. i \in DOMAIN f /\ i \in 1..Len(f) /\ g[i] = f[i]
    OBVIOUS
  <2>2. f[i][1] \in V
    BY <2>1, <1>2 DEF Callers
  <2>3. e[f[i][1]] = d[f[i][1]] /\ d[f[i][1]] < k
    BY <2>2, <1>2, <1>3, <1>4
  <2>4. CASE j \in DOMAIN f
    <3>1. g[j] = f[j] /\ f[j][1] \in V
      <4>1. g[j] = f[j]
        BY <2>4
      <4>2. f[j][1] \in Callers(f)
        BY <2>4 DEF Callers
      <4> QED
        BY <4>1, <4>2, <1>2
    <3>2. e[f[j][1]] = d[f[j][1]]
      BY <3>1, <1>2, <1>3, <1>4
    <3> QED
      BY <2>1, <2>3, <2>4, <3>1, <3>2 DEF Nested
  <2>5. CASE j = Len(f) + 1
    BY <2>1, <2>3, <2>5, <1>4
  <2> QED
    BY <2>4, <2>5
<1>12. Framed(L, g)
  <2> SUFFICES ASSUME NEW i \in DOMAIN g, NEW m \in g[i][2] PROVE <<g[i][1], m>> \in L
    BY DEF Framed
  <2>1. CASE i \in DOMAIN f
    <3>1. g[i] = f[i]
      BY <2>1
    <3> QED
      BY <2>1, <3>1 DEF Framed
  <2>2. CASE i = Len(f) + 1
    <3>1. g[i] = <<x, A>>
      BY <2>2
    <3>2. g[i][1] = x /\ m \in A
      BY <3>1
    <3> QED
      BY <3>2 DEF LinkedFrom
  <2>3. DOMAIN g = DOMAIN f \cup {Len(f) + 1}
    <3> HIDE DEF A
    <3> QED
      OBVIOUS
  <2> QED
    BY <2>1, <2>2, <2>3
<1>13. reported = {Class(I, N, R, n) : n \in (V \cup {x}) \ (S \cup {x})}
  <2>1. (V \cup {x}) \ (S \cup {x}) = V \ S
    BY <1>3
  <2> QED
    BY <2>1, <1>1
<1>14. k + 1 \in Nat
  BY <1>1
<1> HIDE DEF e, w, A, g, V, S, G, Q
<1> QED
  BY <1>5, <1>6, <1>7, <1>9, <1>10, <1>11, <1>12, <1>13, <1>14 DEF Tarjan, e, w, A, g

\* What the walk knows of its last call, t.
LEMMA LastCall ==
  ASSUME NEW I, NEW N, NEW L, NEW R, NEW d, NEW l, NEW k, NEW s, NEW c, NEW reported,
         Tarjan(I, N, L, R, d, l, k, s, c, reported), c # <<>>
  PROVE  /\ Innermost(Callers(c), d, c[Len(c)][1])
         /\ c[Len(c)][1] \in Members(s) /\ c[Len(c)][1] \in N
         /\ \A m \in c[Len(c)][2] : m \in N /\ <<c[Len(c)][1], m>> \in L
<1>1. c \in Seq(N \X SUBSET N) /\ Nested(d, c) /\ Framed(L, c)
  BY DEF Tarjan
<1>2. d \in [N -> Int] /\ Callers(c) \subseteq Members(s) /\ Members(s) \subseteq N
  BY DEF Tarjan, Walk
<1>3. Innermost(Callers(c), d, c[Len(c)][1])
  BY <1>1, <1>2, LastIsInnermost
<1>4. c[Len(c)][1] \in Members(s)
  BY <1>2, <1>3 DEF Innermost
<1>5. Len(c) \in DOMAIN c /\ c[Len(c)] \in N \X SUBSET N
  BY <1>1
<1>6. \A m \in c[Len(c)][2] : m \in N /\ <<c[Len(c)][1], m>> \in L
  BY <1>1, <1>5 DEF Framed
<1> QED
  BY <1>2, <1>3, <1>4, <1>6

\* Look, at a node entered before.
LEMMA TarjanLooks ==
  ASSUME NEW I, NEW N, NEW L, NEW R, NEW d, NEW l, NEW k, NEW s, NEW c, NEW reported,
         Tarjan(I, N, L, R, d, l, k, s, c, reported), Closure(N, L, R), c # <<>>,
         NEW t, t = c[Len(c)][1], NEW x \in c[Len(c)][2], d[x] # Unvisited,
         NEW f, f = Trim(c, x),
         NEW w, x \in Members(s) => w = Lowered(l, t, d[x]), x \notin Members(s) => w = l
  PROVE  Tarjan(I, N, L, R, d, w, k, s, f, reported)
<1> DEFINE V == Entered(N, d)
           S == Members(s)
           G == Callers(c)
           Q == Seen(N, L, d, c)
           P == Seen(N, L, d, f)
<1>1. /\ Walk(N, V, S, G, Q, R, d, l, k) /\ k \in Nat /\ s \in Seq(N) /\ Rising(d, s)
      /\ c \in Seq(N \X SUBSET N) /\ Nested(d, c) /\ Framed(L, c)
      /\ reported = {Class(I, N, R, n) : n \in V \ S}
  BY DEF Tarjan
<1>2. L \in SUBSET (N \X N) /\ L \subseteq R
  BY DEF Closure
<1>3. Innermost(G, d, t) /\ x \in V /\ <<t, x>> \in R
  BY <1>2, LastCall DEF Entered
<1>4. Trimmed(N, L, c, f, x)
  BY <1>1, <1>2, TrimLast
<1>5. Callers(f) = G /\ Nested(d, f) /\ Framed(L, f) /\ f \in Seq(N \X SUBSET N)
  <2>1. Callers(f) = G
    BY <1>4, TrimmedCallers
  <2>2. Nested(d, f) /\ Framed(L, f)
    BY <1>1, <1>4, TrimmedFrames
  <2> QED
    BY <2>1, <2>2, <1>4 DEF Trimmed
<1>6. P \in SUBSET (N \X N) /\ \A p \in P : p \in Q \/ (p[1] = t /\ p[2] = x)
  BY <1>2, <1>4 DEF Seen, Trimmed
<1>7. Walk(N, V, S, G, P, R, d, w, k)
  <2>1. (x \in S => w = Lowered(l, t, d[x])) /\ (x \notin S => w = l)
    OBVIOUS
  <2> HIDE DEF V, S, G, Q, P
  <2> QED
    BY <1>1, <1>3, <1>6, <2>1, LookKeepsWalk
<1> QED
  BY <1>1, <1>5, <1>7 DEF Tarjan

\* Look, at a node not entered yet.
LEMMA TarjanDescends ==
  ASSUME NEW I, NEW N, NEW L, NEW R, NEW d, NEW l, NEW k, NEW s, NEW c, NEW reported,
         Tarjan(I, N, L, R, d, l, k, s, c, reported), Closure(N, L, R), c # <<>>,
         NEW x \in c[Len(c)][2], d[x] = Unvisited,
         NEW f, f = Trim(c, x)
  PROVE  Tarjan(I, N, L, R, [d EXCEPT ![x] = k], [l EXCEPT ![x] = k], k + 1, Append(s, x),
                Append(f, <<x, LinkedFrom(N, L, x)>>), reported)
<1> DEFINE t == c[Len(c)][1]
<1>1. /\ Walk(N, Entered(N, d), Members(s), Callers(c), Seen(N, L, d, c), R, d, l, k)
      /\ c \in Seq(N \X SUBSET N) /\ Nested(d, c) /\ Framed(L, c)
  BY DEF Tarjan
<1>2. /\ L \in SUBSET (N \X N) /\ L \subseteq R
      /\ \A a, b, m \in N : <<a, b>> \in R /\ <<b, m>> \in R => <<a, m>> \in R
  BY DEF Closure
<1>3. Innermost(Callers(c), d, t) /\ t \in Members(s) /\ t \in N /\ x \in N /\ <<t, x>> \in R
  BY <1>2, LastCall
<1>4. Trimmed(N, L, c, f, x)
  BY <1>1, <1>2, TrimLast
<1>5. Callers(f) = Callers(c) /\ Nested(d, f) /\ Framed(L, f) /\ f \in Seq(N \X SUBSET N)
  <2>1. Callers(f) = Callers(c)
    BY <1>4, TrimmedCallers
  <2>2. Nested(d, f) /\ Framed(L, f)
    BY <1>1, <1>4, TrimmedFrames
  <2> QED
    BY <2>1, <2>2, <1>4 DEF Trimmed
<1>6. \A g \in Callers(c) : g \in N /\ <<g, t>> \in R
  BY <1>1, <1>3 DEF Walk, Walking, Leading, Innermost
<1>7. \A g \in Callers(c) : <<g, x>> \in R
  BY <1>2, <1>3, <1>6
<1>8. \A p \in Waiting(L, c) : p \in Waiting(L, f) \/ (p[1] \in Callers(c) /\ p[2] = x)
  BY <1>3, <1>4 DEF Innermost, Trimmed
<1> QED
  BY <1>3, <1>5, <1>7, <1>8, TarjanEnters

\* Return, from a call that is not the root of its component.
LEMMA TarjanReturns ==
  ASSUME NEW I, NEW N, NEW L, NEW R, NEW d, NEW l, NEW k, NEW s, NEW c, NEW reported,
         Tarjan(I, N, L, R, d, l, k, s, c, reported), Closure(N, L, R), c # <<>>,
         NEW t, t = c[Len(c)][1], c[Len(c)][2] = {}, l[t] # d[t],
         NEW f, f = Front(c), NEW w,
         f # <<>> => w = Lowered(l, f[Len(f)][1], l[t])
  PROVE  Tarjan(I, N, L, R, d, w, k, s, f, reported)
<1> DEFINE V == Entered(N, d)
           S == Members(s)
           G == Callers(c)
           Q == Seen(N, L, d, c)
           u == f[Len(f)][1]
<1>1. /\ Walk(N, V, S, G, Q, R, d, l, k) /\ k \in Nat /\ s \in Seq(N) /\ Rising(d, s)
      /\ c \in Seq(N \X SUBSET N) /\ Nested(d, c) /\ Framed(L, c)
      /\ reported = {Class(I, N, R, n) : n \in V \ S}
  BY DEF Tarjan
<1>2. d \in [N -> Int]
  BY <1>1 DEF Walk
<1>3. Innermost(G, d, t)
  BY LastCall
<1>4. Popped(N, c, f)
  BY <1>1, PopCall
<1>5. Nested(d, f) /\ Framed(L, f) /\ f \in Seq(N \X SUBSET N)
  BY <1>1, <1>4, PoppedFrames DEF Popped
<1>6. Callers(f) = G \ {t}
  BY <1>1, <1>2, <1>4, PoppedCallers
<1>7. Seen(N, L, d, f) = Q
  <2>1. Waiting(L, f) = Waiting(L, c)
    BY <1>1, <1>4, PoppedWaiting
  <2> QED
    BY <2>1 DEF Seen
<1>8. G \ {t} # {}
  <2>1. l[t] # d[t]
    OBVIOUS
  <2> HIDE DEF V, S, G, Q
  <2>2. PICK r : LowerCall(G, R, d, t, r)
    BY <1>1, <1>3, <2>1, ReturnHasParent
  <2> QED
    BY <2>2 DEF LowerCall
<1>9. f # <<>>
  <2>1. Callers(<<>>) = {}
    BY DEF Callers
  <2> QED
    BY <2>1, <1>6, <1>8
<1>10. Innermost(G \ {t}, d, u)
  <2>1. Innermost(Callers(f), d, u)
    BY <1>2, <1>5, <1>9, LastIsInnermost
  <2> QED
    BY <2>1, <1>6
<1>11. Walk(N, V, S, G \ {t}, Q, R, d, w, k)
  <2>1. w = Lowered(l, u, l[t])
    BY <1>9
  <2> HIDE DEF V, S, G, Q, u
  <2> QED
    BY <1>1, <1>3, <1>10, <2>1, ReturnKeepsWalk
<1> QED
  BY <1>1, <1>5, <1>6, <1>7, <1>11 DEF Tarjan

CutNames(I, s, at) == {I[s[i]] : i \in at..Len(s)}

Cut(N, d, s, at) ==
  /\ SubSeq(s, 1, at - 1) \in Seq(N) /\ Rising(d, SubSeq(s, 1, at - 1))
  /\ Members(SubSeq(s, 1, at - 1)) = Members(s) \ Closed(Members(s), d, s[at])
  /\ {s[i] : i \in at..Len(s)} = Closed(Members(s), d, s[at])

\* Taking the stack down to a member t cuts off what was entered from t on.
LEMMA CutStack ==
  ASSUME NEW N, NEW d \in [N -> Int], NEW s \in Seq(N), Rising(d, s), NEW at \in DOMAIN s
  PROVE  Cut(N, d, s, at)
<1> DEFINE r == SubSeq(s, 1, at - 1)
           C == Closed(Members(s), d, s[at])
<1>1. DOMAIN s = 1..Len(s) /\ Len(s) \in Nat /\ at \in 1..Len(s) /\ \A i \in DOMAIN s : s[i] \in N /\ d[s[i]] \in Int
  OBVIOUS
<1>2. r \in Seq(N)
  BY <1>1, SubSeqProperties
<1>3. Len(r) = at - 1 /\ \A i \in 1..(at - 1) : r[i] = s[i]
  BY <1>1, <1>2
<1> HIDE DEF r
<1>4. DOMAIN r = 1..(at - 1)
  BY <1>1, <1>2, <1>3
<1>5. \A i \in DOMAIN s : s[i] \in C <=> at <= i
  <2> SUFFICES ASSUME NEW i \in DOMAIN s PROVE d[s[at]] <= d[s[i]] <=> at <= i
    BY DEF Closed, Members
  <2>1. CASE i < at
    BY <2>1, <1>1 DEF Rising
  <2>2. CASE i = at
    BY <2>2, <1>1
  <2>3. CASE at < i
    BY <2>3, <1>1 DEF Rising
  <2> QED
    BY <2>1, <2>2, <2>3, <1>1
<1>6. C \subseteq Members(s)
  BY DEF Closed
<1> HIDE DEF C
<1>7. Rising(d, r)
  <2> SUFFICES ASSUME NEW i \in DOMAIN r, NEW j \in DOMAIN r, i < j PROVE d[r[i]] < d[r[j]]
    BY DEF Rising
  <2>1. r[i] = s[i] /\ r[j] = s[j] /\ i \in DOMAIN s /\ j \in DOMAIN s
    BY <1>1, <1>3, <1>4
  <2> QED
    BY <2>1 DEF Rising
<1>8. Members(r) = Members(s) \ C
  <2>1. ASSUME NEW n \in Members(r) PROVE n \in Members(s) \ C
    <3>1. PICK i \in DOMAIN r : n = r[i]
      BY DEF Members
    <3>2. i \in DOMAIN s /\ n = s[i] /\ ~(at <= i)
      BY <3>1, <1>1, <1>3, <1>4
    <3> QED
      BY <3>2, <1>5 DEF Members
  <2>2. ASSUME NEW n \in Members(s) \ C PROVE n \in Members(r)
    <3>1. PICK i \in DOMAIN s : n = s[i]
      BY DEF Members
    <3>2. ~(at <= i)
      BY <3>1, <1>5
    <3>3. i \in DOMAIN r /\ n = r[i]
      BY <3>1, <3>2, <1>1, <1>3, <1>4
    <3> QED
      BY <3>3 DEF Members
  <2> QED
    BY <2>1, <2>2
<1>9. {s[i] : i \in at..Len(s)} = C
  <2>1. ASSUME NEW i \in at..Len(s) PROVE s[i] \in C
    <3>1. i \in DOMAIN s /\ at <= i
      BY <1>1
    <3> QED
      BY <3>1, <1>5
  <2>2. ASSUME NEW n \in C PROVE \E i \in at..Len(s) : n = s[i]
    <3>1. PICK i \in DOMAIN s : n = s[i]
      BY <1>6 DEF Members
    <3>2. i \in at..Len(s)
      BY <3>1, <1>1, <1>5
    <3> QED
      BY <3>1, <3>2
  <2> QED
    BY <2>1, <2>2
<1> QED
  BY <1>2, <1>7, <1>8, <1>9 DEF r, C, Cut

\* Return, from the root of a component: its class is reported.
LEMMA TarjanCloses ==
  ASSUME NEW I, NEW N, NEW L, NEW R, NEW d, NEW l, NEW k, NEW s, NEW c, NEW reported,
         Tarjan(I, N, L, R, d, l, k, s, c, reported), Closure(N, L, R), c # <<>>,
         NEW t, t = c[Len(c)][1], c[Len(c)][2] = {}, l[t] = d[t],
         NEW f, f = Front(c), NEW w, f = <<>> => w = l,
         f # <<>> => w = Lowered(l, f[Len(f)][1], l[t]),
         NEW at \in DOMAIN s, s[at] = t
  PROVE  Tarjan(I, N, L, R, d, w, k, SubSeq(s, 1, at - 1), f, reported \cup {CutNames(I, s, at)})
<1> DEFINE V == Entered(N, d)
           S == Members(s)
           G == Callers(c)
           Q == Seen(N, L, d, c)
           C == Closed(S, d, t)
<1>1. /\ Walk(N, V, S, G, Q, R, d, l, k) /\ k \in Nat /\ s \in Seq(N) /\ Rising(d, s)
      /\ c \in Seq(N \X SUBSET N) /\ Nested(d, c) /\ Framed(L, c)
      /\ reported = {Class(I, N, R, n) : n \in V \ S}
  BY DEF Tarjan
<1>2. d \in [N -> Int] /\ l \in [N -> Int] /\ V \subseteq N /\ S \subseteq V /\ G \subseteq S
  BY <1>1 DEF Walk
<1>3. Innermost(G, d, t)
  BY LastCall
<1>4. Popped(N, c, f)
  BY <1>1, PopCall
<1>5. Nested(d, f) /\ Framed(L, f) /\ f \in Seq(N \X SUBSET N)
  BY <1>1, <1>4, PoppedFrames DEF Popped
<1>6. Callers(f) = G \ {t}
  BY <1>1, <1>2, <1>4, PoppedCallers
<1>7. Waiting(L, f) = Waiting(L, c)
  BY <1>1, <1>4, PoppedWaiting
<1>8. Seen(N, L, d, f) = Q
  BY <1>7 DEF Seen
<1>9. Walk(N, V, S \ C, G \ {t}, Q, R, d, l, k)
  <2>1. l[t] = d[t]
    OBVIOUS
  <2> HIDE DEF V, S, G, Q
  <2> QED
    BY <1>1, <1>3, <2>1, CloseKeepsWalk
<1>10. w = l
  <2>1. CASE f # <<>>
    <3> DEFINE u == f[Len(f)][1]
    <3>1. Innermost(Callers(f), d, u)
      BY <1>2, <1>5, <2>1, LastIsInnermost
    <3>2. u \in G /\ u \in N /\ d[u] <= d[t] /\ t \in N
      BY <3>1, <1>2, <1>3, <1>6 DEF Innermost
    <3>3. l[u] <= d[u]
      BY <3>2, <1>1, <1>2 DEF Walk, Walking, Linked
    <3>4. Lower(l[u], l[t]) = l[u]
      BY <3>2, <3>3, <1>2 DEF Lower
    <3> HIDE DEF u
    <3>5. Lowered(l, u, l[t]) = l
      BY <3>2, <3>4, <1>2 DEF Lowered
    <3> QED
      BY <3>5, <2>1 DEF u
  <2> QED
    BY <2>1
<1>11. /\ SubSeq(s, 1, at - 1) \in Seq(N) /\ Rising(d, SubSeq(s, 1, at - 1))
       /\ Members(SubSeq(s, 1, at - 1)) = S \ C
       /\ {s[i] : i \in at..Len(s)} = C
  <2>1. Cut(N, d, s, at)
    BY <1>1, <1>2, CutStack
  <2> QED
    BY <2>1 DEF Cut
<1>12. C = MutualIn(N, R, t)
  <2>1. l[t] = d[t]
    OBVIOUS
  <2>2. AllSeen(L, V, G, Q, t)
    <3>1. ASSUME NEW p \in L, p \in Waiting(L, c) PROVE p[1] \in G \ {t}
      <4>1. PICK i \in DOMAIN f : f[i][1] = p[1]
        BY <3>1, <1>7 DEF Waiting
      <4>2. p[1] \in Callers(f)
        BY <4>1 DEF Callers
      <4> QED
        BY <4>2, <1>6
    <3> QED
      BY <3>1 DEF Seen, AllSeen
  <2> HIDE DEF V, S, G, Q
  <2> QED
    BY <1>1, <1>3, <2>1, <2>2, ClosedIsMutual
<1>13. CutNames(I, s, at) = Class(I, N, R, t)
  <2>1. CutNames(I, s, at) = {I[m] : m \in {s[i] : i \in at..Len(s)}}
    BY DEF CutNames
  <2> HIDE DEF C
  <2>2. {I[m] : m \in C} = Class(I, N, R, t)
    BY <1>12 DEF Class
  <2> QED
    BY <2>1, <2>2, <1>11
<1>14. t \in C /\ C \subseteq V
  BY <1>2, <1>3 DEF Closed, Innermost
<1>15. ASSUME NEW n \in C PROVE Class(I, N, R, n) = Class(I, N, R, t)
  <2>1. n \in N /\ t \in N /\ <<t, n>> \in R /\ <<n, t>> \in R
    BY <1>2, <1>12, <1>14 DEF MutualIn
  <2>2. \A m \in N : (<<n, m>> \in R /\ <<m, n>> \in R) <=> (<<t, m>> \in R /\ <<m, t>> \in R)
    BY <2>1 DEF Closure
  <2>3. MutualIn(N, R, n) = MutualIn(N, R, t)
    BY <2>2 DEF MutualIn
  <2> QED
    BY <2>3 DEF Class
<1> HIDE DEF V, S, G, Q, C
<1>16. reported \cup {Class(I, N, R, t)} = {Class(I, N, R, n) : n \in V \ (S \ C)}
  <2>1. V \ (S \ C) = (V \ S) \cup C
    BY <1>14
  <2> QED
    BY <2>1, <1>1, <1>14, <1>15
<1> QED
  BY <1>1, <1>5, <1>6, <1>8, <1>9, <1>10, <1>11, <1>13, <1>16 DEF Tarjan, V, S, Q
-----------------------------------------------------------------------------
(* The steps of the specification *)

LinksOf(N, I, E) == {p \in N \X N : <<I[p[1]], I[p[2]]>> \in E}
ReachIn(N, L) ==
  {p \in N \X N : \A T \in SUBSET N : p[1] \in T /\ (\A q \in L : q[1] \in T => q[2] \in T) => p[2] \in T}

Links == LinksOf(Node, ids, edges)
Reaches == ReachIn(Node, Links)

\* Reachability, as the set of pairs no closed set tells apart, is a closure.
LEMMA ReachIsClosure ==
  ASSUME NEW N, NEW L, L \subseteq N \X N
  PROVE  Closure(N, L, ReachIn(N, L))
<1> DEFINE R == ReachIn(N, L)
           Shut(T) == \A q \in L : q[1] \in T => q[2] \in T
<1>1. \A a, b \in N : <<a, b>> \in R <=> \A T \in SUBSET N : a \in T /\ Shut(T) => b \in T
  BY DEF ReachIn
<1>2. R \subseteq N \X N
  BY DEF ReachIn
<1> HIDE DEF R
<1>3. L \subseteq R
  <2> SUFFICES ASSUME NEW q \in L PROVE q \in R
    OBVIOUS
  <2>1. q[1] \in N /\ q[2] \in N /\ q = <<q[1], q[2]>>
    OBVIOUS
  <2>2. \A T \in SUBSET N : q[1] \in T /\ Shut(T) => q[2] \in T
    OBVIOUS
  <2>3. <<q[1], q[2]>> \in R
    BY <2>1, <2>2, <1>1
  <2> QED
    BY <2>1, <2>3
<1>4. \A n \in N : <<n, n>> \in R
  BY <1>1
<1>5. \A a, b, c \in N : <<a, b>> \in R /\ <<b, c>> \in R => <<a, c>> \in R
  BY <1>1
<1>6. \A T \in SUBSET N : Shut(T) => \A a \in T : \A b \in N : <<a, b>> \in R => b \in T
  BY <1>1
<1> QED
  BY <1>2, <1>3, <1>4, <1>5, <1>6 DEF Closure, R

\* The inductive invariant: during the walk, Tarjan's; after it, the result.
DepIInv ==
  /\ pc \in {"build", "walk", "rank"} /\ files \in Corpora
  /\ pc = "build" => stack = <<>> /\ calls = <<>> /\ counter = 0 /\ components = {}
  /\ pc # "build" =>
       /\ edges = EdgesOf(files, level)
       /\ ids \in Seq(Ends(edges)) /\ \A i, j \in DOMAIN ids : ids[i] = ids[j] => i = j
  /\ pc = "walk" =>
       Tarjan(ids, Node, Links, Reaches, discovery, lowlink, counter, stack, calls, components)
  /\ pc = "rank" => components = {Class(ids, Node, Reaches, n) : n \in Node}

\* Only Build changes the graph.
LEMMA GraphKept ==
  ASSUME UNCHANGED graphVars
  PROVE  /\ ids' = ids /\ edges' = edges /\ files' = files /\ level' = level
         /\ Node' = Node /\ Links' = Links /\ Reaches' = Reaches
<1>1. ids' = ids /\ edges' = edges /\ files' = files /\ level' = level
  BY DEF graphVars
<1>2. Node' = Node
  BY <1>1 DEF Node
<1>3. Links' = Links
  BY <1>1, <1>2 DEF Links
<1> QED
  BY <1>1, <1>2, <1>3 DEF Reaches

\* What a node reaches in the graph being walked.
LEMMA LinksClosed == Closure(Node, Links, Reaches)
<1>1. Links \subseteq Node \X Node
  BY DEF Links, LinksOf
<1> QED
  BY <1>1, ReachIsClosure DEF Reaches

\* The targets of a node are its links.
LEMMA AdjacencyIsLinks ==
  ASSUME NEW n \in Node
  PROVE  Adjacency(n) = LinkedFrom(Node, Links, n)
BY DEF Adjacency, Links, LinksOf, LinkedFrom

\* The first step of a walk: nothing is entered.
LEMMA TarjanBegins ==
  ASSUME NEW I, NEW N, NEW L, L \subseteq N \X N, NEW d, d = [n \in N |-> Unvisited], NEW l, l = [n \in N |-> 0]
  PROVE  Tarjan(I, N, L, ReachIn(N, L), d, l, 0, <<>>, <<>>, {})
<1> DEFINE R == ReachIn(N, L)
<1>1. Closure(N, L, R)
  BY ReachIsClosure
<1>2. Entered(N, d) = {} /\ Members(<<>>) = {} /\ Callers(<<>>) = {}
  BY DEF Entered, Members, Callers
<1>3. Seen(N, L, d, <<>>) = {}
  BY <1>2 DEF Seen
<1>4. d \in [N -> Int] /\ l \in [N -> Int]
  BY DEF Unvisited
<1> HIDE DEF R
<1>5. Walking({}, {}, {}, {}, R, d, l)
  BY DEF Walking, Linked, Anchored, Leading, Explored, Bounded
<1>6. Walk(N, {}, {}, {}, {}, R, d, l, 0)
  BY <1>1, <1>4, <1>5 DEF Walk, Closure
<1>7. Rising(d, <<>>) /\ Nested(d, <<>>) /\ Framed(L, <<>>)
  BY DEF Rising, Nested, Framed
<1>8. <<>> \in Seq(N) /\ <<>> \in Seq(N \X SUBSET N) /\ 0 \in Nat
  OBVIOUS
<1>9. {} = {Class(I, N, R, n) : n \in {} \ {}}
  OBVIOUS
<1> QED
  BY <1>2, <1>3, <1>6, <1>7, <1>8, <1>9 DEF Tarjan, R

\* The end points of a finite corpus's edges are finitely many.
LEMMA EndsFinite ==
  ASSUME NEW fs, IsFiniteSet(fs), NEW lv
  PROVE  IsFiniteSet(Ends(EdgesOf(fs, lv))) /\ Cardinality(Ends(EdgesOf(fs, lv))) \in Nat
<1> DEFINE packaged == {g \in fs : g.package # NoPackage}
           node == [g \in packaged |-> NodeOf(g, lv)]
<1>1. IsFiniteSet(packaged)
  BY FS_Subset
<1>2. IsFiniteSet(Nodes(fs, lv))
  <2>1. node \in Surjection(packaged, Nodes(fs, lv))
    BY DEF Surjection, Nodes
  <2> QED
    BY <1>1, <2>1, FS_Surjection
<1>3. Ends(EdgesOf(fs, lv)) \subseteq Nodes(fs, lv)
  BY DEF Ends, EdgesOf
<1>4. IsFiniteSet(Ends(EdgesOf(fs, lv)))
  BY <1>2, <1>3, FS_Subset
<1> QED
  BY <1>4, FS_CardinalityType

\* Tarjan::new: the numbered graph, and a walk that has not begun.
LEMMA BuildStep ==
  ASSUME DepAssumption, DepIInv, Build
  PROVE  DepIInv'
<1> DEFINE E == EdgesOf(files, level)
           n == Cardinality(Ends(E))
<1>1. /\ pc = "build" /\ pc' = "walk" /\ files' = files /\ level' = level /\ edges' = E
      /\ stack' = <<>> /\ calls' = <<>> /\ counter' = 0 /\ components' = {}
      /\ ids' \in Intern(E)
      /\ discovery' = [i \in DOMAIN ids' |-> Unvisited] /\ lowlink' = [i \in DOMAIN ids' |-> 0]
  BY DEF Build, DepIInv
<1>2. files \in Corpora /\ IsFiniteSet(files)
  BY DEF DepIInv, DepAssumption
<1>3. n \in Nat
  BY <1>2, EndsFinite
<1>4. ids' \in [1..n -> Ends(E)] /\ \A i, j \in DOMAIN ids' : i < j => ids'[i] # ids'[j]
  BY <1>1 DEF Intern
<1>5. edges' = EdgesOf(files', level')
  BY <1>1
<1> HIDE DEF E, n
<1>6. ids' \in Seq(Ends(E)) /\ DOMAIN ids' = 1..Len(ids') /\ DOMAIN ids' \subseteq Nat
  BY <1>3, <1>4
<1>7. \A i, j \in DOMAIN ids' : ids'[i] = ids'[j] => i = j
  <2> SUFFICES ASSUME NEW i \in DOMAIN ids', NEW j \in DOMAIN ids', ids'[i] = ids'[j] PROVE i = j
    OBVIOUS
  <2>1. i \in Nat /\ j \in Nat
    BY <1>6
  <2>2. ~(i < j) /\ ~(j < i)
    BY <1>4
  <2> QED
    BY <2>1, <2>2
<1>8. Node' = DOMAIN ids'
  BY <1>6 DEF Node
<1>9. Links' \subseteq Node' \X Node' /\ Reaches' = ReachIn(Node', Links')
  BY DEF Links, LinksOf, Reaches
<1>10. Tarjan(ids', Node', Links', Reaches', discovery', lowlink', counter', stack', calls', components')
  <2>1. discovery' = [i \in Node' |-> Unvisited] /\ lowlink' = [i \in Node' |-> 0]
    BY <1>1, <1>8
  <2>2. Tarjan(ids', Node', Links', ReachIn(Node', Links'), discovery', lowlink', 0, <<>>, <<>>, {})
    BY <2>1, <1>9, TarjanBegins
  <2> QED
    BY <2>2, <1>1, <1>9
<1>11. ids' \in Seq(Ends(edges'))
  BY <1>1, <1>6
<1> QED
  BY <1>1, <1>2, <1>5, <1>7, <1>10, <1>11 DEF DepIInv

\* What a step of the walk leaves alone, and what is left to show of it.
LEMMA WalkStep ==
  ASSUME DepIInv, pc = "walk", UNCHANGED <<graphVars, pc>>,
         Tarjan(ids, Node, Links, Reaches, discovery', lowlink', counter', stack', calls', components')
  PROVE  DepIInv'
<1>1. /\ ids' = ids /\ edges' = edges /\ files' = files /\ level' = level /\ pc' = pc
      /\ Node' = Node /\ Links' = Links /\ Reaches' = Reaches
  BY GraphKept
<1>2. Tarjan(ids', Node', Links', Reaches', discovery', lowlink', counter', stack', calls', components')
  BY <1>1
<1> QED
  BY <1>1, <1>2 DEF DepIInv

\* run: a node no walk has reached is entered from outside.
LEMMA StartStep ==
  ASSUME DepIInv, Start
  PROVE  DepIInv'
<1>1. pc = "walk" /\ calls = <<>> /\ UNCHANGED <<graphVars, pc>>
  BY DEF Start
<1>2. PICK n \in Node : discovery[n] = Unvisited /\ Enter(n, <<>>)
  BY DEF Start
<1>3. Tarjan(ids, Node, Links, Reaches, discovery, lowlink, counter, stack, calls, components)
  BY <1>1 DEF DepIInv
<1>4. Closure(Node, Links, Reaches)
  BY LinksClosed
<1>5. Adjacency(n) = LinkedFrom(Node, Links, n)
  BY AdjacencyIsLinks
<1>6. /\ Callers(calls) = {} /\ Waiting(Links, calls) = {} /\ calls \in Seq(Node \X SUBSET Node)
      /\ Nested(discovery, calls) /\ Framed(Links, calls)
  BY <1>1 DEF Callers, Waiting, Nested, Framed
<1>7. \A g \in Callers(calls) : <<g, n>> \in Reaches
  BY <1>6
<1>8. \A p \in Waiting(Links, calls) : p \in Waiting(Links, calls) \/ (p[1] \in Callers(calls) /\ p[2] = n)
  OBVIOUS
<1>9. Tarjan(ids, Node, Links, Reaches, [discovery EXCEPT ![n] = counter], [lowlink EXCEPT ![n] = counter],
          counter + 1, Append(stack, n), Append(calls, <<n, LinkedFrom(Node, Links, n)>>), components)
  BY <1>2, <1>3, <1>4, <1>6, <1>7, <1>8, TarjanEnters
<1>10. Tarjan(ids, Node, Links, Reaches, discovery', lowlink', counter', stack', calls', components')
  BY <1>1, <1>2, <1>5, <1>9 DEF Enter
<1> QED
  BY <1>1, <1>10, WalkStep

\* walk: the next child is entered, or lowers the link, or is passed by.
LEMMA LookStep ==
  ASSUME DepIInv, Look
  PROVE  DepIInv'
<1>1. pc = "walk" /\ calls # <<>> /\ UNCHANGED <<graphVars, pc>>
  BY DEF Look
<1> DEFINE t == Top[1]
           frames(x) == [calls EXCEPT ![Len(calls)] = <<Top[1], Top[2] \ {x}>>]
<1>2. PICK x \in Top[2] :
        IF discovery[x] = Unvisited THEN Enter(x, frames(x))
        ELSE /\ calls' = frames(x)
             /\ lowlink' = IF \E i \in DOMAIN stack : stack[i] = x
                           THEN [lowlink EXCEPT ![t] = Lower(lowlink[t], discovery[x])] ELSE lowlink
             /\ UNCHANGED <<discovery, counter, stack, components>>
  BY DEF Look
<1>3. Tarjan(ids, Node, Links, Reaches, discovery, lowlink, counter, stack, calls, components)
  BY <1>1 DEF DepIInv
<1>4. Closure(Node, Links, Reaches)
  BY LinksClosed
<1>5. frames(x) = Trim(calls, x) /\ t = calls[Len(calls)][1] /\ x \in calls[Len(calls)][2]
  BY DEF Trim, Top
<1>6. CASE discovery[x] = Unvisited
  <2>1. Enter(x, Trim(calls, x))
    BY <1>2, <1>5, <1>6
  <2>2. x \in Node
    BY <1>1, <1>3, <1>5, LastCall
  <2>3. Adjacency(x) = LinkedFrom(Node, Links, x)
    BY <2>2, AdjacencyIsLinks
  <2>4. Tarjan(ids, Node, Links, Reaches, [discovery EXCEPT ![x] = counter], [lowlink EXCEPT ![x] = counter],
            counter + 1, Append(stack, x), Append(Trim(calls, x), <<x, LinkedFrom(Node, Links, x)>>), components)
    BY <1>1, <1>3, <1>4, <1>5, <1>6, TarjanDescends
  <2>5. Tarjan(ids, Node, Links, Reaches, discovery', lowlink', counter', stack', calls', components')
    BY <2>1, <2>3, <2>4 DEF Enter
  <2> QED
    BY <2>5, <1>1, WalkStep
<1>7. CASE discovery[x] # Unvisited
  <2>1. /\ calls' = Trim(calls, x) /\ UNCHANGED <<discovery, counter, stack, components>>
        /\ lowlink' = IF \E i \in DOMAIN stack : stack[i] = x THEN Lowered(lowlink, t, discovery[x]) ELSE lowlink
    BY <1>2, <1>5, <1>7 DEF Lowered
  <2>2. x \in Members(stack) => lowlink' = Lowered(lowlink, t, discovery[x])
    BY <2>1 DEF Members
  <2>3. x \notin Members(stack) => lowlink' = lowlink
    BY <2>1 DEF Members
  <2> HIDE DEF t
  <2>4. Tarjan(ids, Node, Links, Reaches, discovery, lowlink', counter, stack, Trim(calls, x), components)
    BY <1>1, <1>3, <1>4, <1>5, <1>7, <2>2, <2>3, TarjanLooks
  <2>5. Tarjan(ids, Node, Links, Reaches, discovery', lowlink', counter', stack', calls', components')
    BY <2>1, <2>4
  <2> QED
    BY <2>5, <1>1, WalkStep
<1> QED
  BY <1>6, <1>7

\* walk and close_component: a call ends, and a root reports its class.
LEMMA ReturnStep ==
  ASSUME DepIInv, Return
  PROVE  DepIInv'
<1> DEFINE t == Top[1]
           f == Front(calls)
           at == CHOOSE i \in DOMAIN stack : stack[i] = t
           u == f[Len(f)][1]
<1>1. pc = "walk" /\ calls # <<>> /\ UNCHANGED <<graphVars, pc>> /\ UNCHANGED <<discovery, counter>> /\ calls' = f
  BY DEF Return
<1>2. t = calls[Len(calls)][1] /\ calls[Len(calls)][2] = {}
  BY DEF Return, Top
<1>3. Tarjan(ids, Node, Links, Reaches, discovery, lowlink, counter, stack, calls, components)
  BY <1>1 DEF DepIInv
<1>4. Closure(Node, Links, Reaches)
  BY LinksClosed
<1>5. (f = <<>> => lowlink' = lowlink) /\ (f # <<>> => lowlink' = Lowered(lowlink, u, lowlink[t]))
  BY DEF Return, Lowered
<1>6. lowlink[t] = discovery[t] => /\ components' = components \cup {CutNames(ids, stack, at)}
                                  /\ stack' = SubSeq(stack, 1, at - 1)
  BY DEF Return, CutNames
<1>7. lowlink[t] # discovery[t] => components' = components /\ stack' = stack
  BY DEF Return
<1>8. at \in DOMAIN stack /\ stack[at] = t
  <2>1. t \in Members(stack)
    BY <1>1, <1>2, <1>3, LastCall
  <2>2. \E i \in DOMAIN stack : stack[i] = t
    BY <2>1 DEF Members
  <2> QED
    BY <2>2
<1> HIDE DEF t, at, f
<1>9. CASE lowlink[t] = discovery[t]
  <2>1. Tarjan(ids, Node, Links, Reaches, discovery, lowlink', counter, SubSeq(stack, 1, at - 1), f,
               components \cup {CutNames(ids, stack, at)})
    BY <1>1, <1>2, <1>3, <1>4, <1>5, <1>8, <1>9, TarjanCloses DEF f
  <2>2. Tarjan(ids, Node, Links, Reaches, discovery', lowlink', counter', stack', calls', components')
    BY <2>1, <1>1, <1>6, <1>9
  <2> QED
    BY <2>2, <1>1, WalkStep
<1>10. CASE lowlink[t] # discovery[t]
  <2>1. Tarjan(ids, Node, Links, Reaches, discovery, lowlink', counter, stack, f, components)
    BY <1>1, <1>2, <1>3, <1>4, <1>5, <1>10, TarjanReturns DEF f
  <2>2. Tarjan(ids, Node, Links, Reaches, discovery', lowlink', counter', stack', calls', components')
    BY <2>1, <1>1, <1>7, <1>10
  <2> QED
    BY <2>2, <1>1, WalkStep
<1> QED
  BY <1>9, <1>10

\* Nothing is left on the stack when no call is open.
LEMMA WalkedStep ==
  ASSUME DepIInv, Walked
  PROVE  DepIInv'
<1>1. /\ pc = "walk" /\ calls = <<>> /\ pc' = "rank" /\ UNCHANGED graphVars /\ components' = components
      /\ \A n \in Node : discovery[n] # Unvisited
  BY DEF Walked, tarjanVars, Node
<1>2. Tarjan(ids, Node, Links, Reaches, discovery, lowlink, counter, stack, calls, components)
  BY <1>1 DEF DepIInv
<1>3. Callers(calls) = {}
  BY <1>1 DEF Callers
<1>4. Members(stack) = {}
  BY <1>2, <1>3 DEF Tarjan, Walk, Walking, Anchored
<1>5. Entered(Node, discovery) = Node
  BY <1>1 DEF Entered
<1>6. components = {Class(ids, Node, Reaches, n) : n \in Entered(Node, discovery) \ Members(stack)}
  BY <1>2 DEF Tarjan
<1>7. components = {Class(ids, Node, Reaches, n) : n \in Node}
  BY <1>4, <1>5, <1>6
<1>8. /\ ids' = ids /\ edges' = edges /\ files' = files /\ level' = level
      /\ Node' = Node /\ Reaches' = Reaches
  BY <1>1, GraphKept
<1>9. components' = {Class(ids', Node', Reaches', n) : n \in Node'}
  BY <1>1, <1>7, <1>8
<1> QED
  BY <1>1, <1>8, <1>9 DEF DepIInv

\* Ranking, and a step that changes nothing, leave the invariant alone.
LEMMA QuietStep ==
  ASSUME DepIInv, UNCHANGED <<graphVars, tarjanVars, pc>>
  PROVE  DepIInv'
<1>1. /\ ids' = ids /\ edges' = edges /\ files' = files /\ level' = level
      /\ Node' = Node /\ Links' = Links /\ Reaches' = Reaches
  BY GraphKept
<1>2. UNCHANGED <<discovery, lowlink, stack, calls, counter, components, pc>>
  BY DEF tarjanVars
<1> QED
  BY <1>1, <1>2 DEF DepIInv

\* The invariant of the walk holds throughout, for every corpus.
THEOREM WalkInvariant ==
  ASSUME DepAssumption
  PROVE  DepSpec => []DepIInv
<1>1. DepInit => DepIInv
  BY DEF DepInit, DepIInv
<1>2. DepIInv /\ [DepNext]_depVars => DepIInv'
  <2> SUFFICES ASSUME DepIInv, [DepNext]_depVars PROVE DepIInv'
    OBVIOUS
  <2>1. CASE Build
    BY <2>1, BuildStep
  <2>2. CASE Start
    BY <2>2, StartStep
  <2>3. CASE Look
    BY <2>3, LookStep
  <2>4. CASE Return
    BY <2>4, ReturnStep
  <2>5. CASE Walked
    BY <2>5, WalkedStep
  <2>6. CASE Rank
    BY <2>6, QuietStep DEF Rank
  <2>7. CASE Ranked
    BY <2>7, QuietStep DEF Ranked, depVars, graphVars, tarjanVars
  <2>8. CASE UNCHANGED depVars
    BY <2>8, QuietStep DEF depVars, graphVars, tarjanVars
  <2> QED
    BY <2>1, <2>2, <2>3, <2>4, <2>5, <2>6, <2>7, <2>8 DEF DepNext
<1> QED
  BY <1>1, <1>2, PTL DEF DepSpec
-----------------------------------------------------------------------------
(* What the invariant says of the report *)

\* The property's reachability is the invariant's.
LEMMA ReachIsReaches ==
  ASSUME NEW a \in Node, NEW b \in Node
  PROVE  Reach(a, b) <=> <<a, b>> \in Reaches
<1>1. \A T \in SUBSET Node : (\A n \in T : Adjacency(n) \subseteq T) <=> (\A q \in Links : q[1] \in T => q[2] \in T)
  <2> SUFFICES ASSUME NEW T \in SUBSET Node
               PROVE  (\A n \in T : Adjacency(n) \subseteq T) <=> (\A q \in Links : q[1] \in T => q[2] \in T)
    OBVIOUS
  <2>1. ASSUME \A n \in T : Adjacency(n) \subseteq T, NEW q \in Links, q[1] \in T PROVE q[2] \in T
    <3>1. q[2] \in Adjacency(q[1])
      BY DEF Links, LinksOf, Adjacency
    <3> QED
      BY <3>1, <2>1
  <2>2. ASSUME \A q \in Links : q[1] \in T => q[2] \in T, NEW n \in T, NEW m \in Adjacency(n) PROVE m \in T
    <3>1. <<n, m>> \in Links
      BY DEF Links, LinksOf, Adjacency
    <3> QED
      BY <3>1, <2>2
  <2> QED
    BY <2>1, <2>2
<1> QED
  BY <1>1 DEF Reach, Reaches, ReachIn

\* The property's classes are the invariant's.
LEMMA NamedMutual ==
  ASSUME NEW n \in Node
  PROVE  /\ Mutual(n) = MutualIn(Node, Reaches, n)
         /\ Named(Mutual(n)) = Class(ids, Node, Reaches, n)
<1>1. Mutual(n) = MutualIn(Node, Reaches, n)
  BY ReachIsReaches DEF Mutual, MutualIn
<1> QED
  BY <1>1 DEF Named, Class

\* A node on a cycle is one of several that reach one another.
LEMMA CycleNodes ==
  ASSUME NEW E, NEW fs, NEW lv, E = EdgesOf(fs, lv), edges = E, ids \in Seq(Ends(edges)),
         \A i, j \in DOMAIN ids : ids[i] = ids[j] => i = j,
         components = {Class(ids, Node, Reaches, n) : n \in Node}
  PROVE  UNION Cycles = Named({n \in Node : \E m \in Adjacency(n) : Reach(m, n)})
<1>1. Node = DOMAIN ids /\ Node = 1..Len(ids) /\ Len(ids) \in Nat
  BY DEF Node
<1>2. Closure(Node, Links, Reaches)
  BY LinksClosed
<1>3. ASSUME NEW n \in Node PROVE IsFiniteSet(Class(ids, Node, Reaches, n))
  <2>1. IsFiniteSet(Node)
    BY <1>1, FS_Interval
  <2>2. MutualIn(Node, Reaches, n) \subseteq Node
    BY DEF MutualIn
  <2>3. IsFiniteSet(MutualIn(Node, Reaches, n))
    BY <2>1, <2>2, FS_Subset
  <2>4. [m \in MutualIn(Node, Reaches, n) |-> ids[m]] \in
          Surjection(MutualIn(Node, Reaches, n), Class(ids, Node, Reaches, n))
    BY DEF Surjection, Class
  <2> QED
    BY <2>3, <2>4, FS_Surjection
<1>4. ASSUME NEW n \in Node, NEW m \in Adjacency(n), Reach(m, n)
      PROVE  ids[n] \in UNION Cycles
  <2>1. m \in Node /\ <<ids[n], ids[m]>> \in edges /\ <<n, m>> \in Links
    BY DEF Adjacency, Links, LinksOf
  <2>2. ids[n] # ids[m]
    BY <2>1 DEF EdgesOf
  <2>3. <<n, m>> \in Reaches /\ <<m, n>> \in Reaches /\ <<n, n>> \in Reaches
    BY <2>1, <1>2, <1>4, ReachIsReaches DEF Closure
  <2>4. ids[n] \in Class(ids, Node, Reaches, n) /\ ids[m] \in Class(ids, Node, Reaches, n)
    BY <2>1, <2>3 DEF Class, MutualIn
  <2>5. Cardinality(Class(ids, Node, Reaches, n)) > 1
    <3> DEFINE C == Class(ids, Node, Reaches, n)
    <3>1. IsFiniteSet(C)
      BY <1>3
    <3> HIDE DEF C
    <3>2. Cardinality(C) \in Nat
      BY <3>1, FS_CardinalityType
    <3>3. Cardinality(C) # 0
      BY <3>1, <2>4, FS_EmptySet DEF C
    <3>4. Cardinality(C) # 1
      <4>1. ASSUME Cardinality(C) = 1 PROVE FALSE
        <5>1. PICK x : C = {x}
          BY <3>1, <4>1, FS_Singleton
        <5> QED
          BY <5>1, <2>2, <2>4 DEF C
      <4> QED
        BY <4>1
    <3> QED
      BY <3>2, <3>3, <3>4 DEF C
  <2>6. Class(ids, Node, Reaches, n) \in Cycles
    BY <2>5 DEF Cycles
  <2> QED
    BY <2>4, <2>6
<1>5. ASSUME NEW x \in UNION Cycles
      PROVE  \E k \in Node : x = ids[k] /\ \E m \in Adjacency(k) : Reach(m, k)
  <2>1. PICK n \in Node : x \in Class(ids, Node, Reaches, n) /\ Cardinality(Class(ids, Node, Reaches, n)) > 1
    BY DEF Cycles
  <2>2. PICK k \in Node : x = ids[k] /\ <<n, k>> \in Reaches /\ <<k, n>> \in Reaches
    BY <2>1 DEF Class, MutualIn
  <2>3. PICK y \in Class(ids, Node, Reaches, n) : y # x
    <3>1. ASSUME Class(ids, Node, Reaches, n) = {x} PROVE FALSE
      <4>1. Cardinality({x}) = 1
        BY FS_Singleton
      <4> QED
        BY <2>1, <3>1, <4>1
    <3> QED
      BY <2>1, <3>1
  <2>4. PICK j \in Node : y = ids[j] /\ <<n, j>> \in Reaches /\ <<j, n>> \in Reaches
    BY <2>3 DEF Class, MutualIn
  <2>5. j # k /\ <<k, j>> \in Reaches /\ <<j, k>> \in Reaches
    BY <2>2, <2>3, <2>4, <1>2 DEF Closure
  <2> DEFINE T == {k} \cup {i \in Node : \E m \in Node : <<k, m>> \in Links /\ <<m, i>> \in Reaches}
  <2>6. \A q \in Links : q[1] \in T => q[2] \in T
    <3> SUFFICES ASSUME NEW q \in Links, q[1] \in T
                 PROVE  \E m \in Node : <<k, m>> \in Links /\ <<m, q[2]>> \in Reaches
      BY DEF Links, LinksOf
    <3>1. q[1] \in Node /\ q[2] \in Node /\ q = <<q[1], q[2]>> /\ <<q[1], q[2]>> \in Reaches
      BY <1>2 DEF Closure
    <3>2. CASE q[1] = k
      BY <3>1, <3>2, <1>2 DEF Closure
    <3>3. CASE q[1] # k
      <4>1. PICK m \in Node : <<k, m>> \in Links /\ <<m, q[1]>> \in Reaches
        BY <3>3
      <4>2. <<m, q[2]>> \in Reaches
        BY <3>1, <4>1, <1>2 DEF Closure
      <4> QED
        BY <4>1, <4>2
    <3> QED
      BY <3>2, <3>3
  <2>7. k \in T /\ T \in SUBSET Node
    OBVIOUS
  <2>8. j \in T
    <3> HIDE DEF T
    <3> QED
      BY <2>5, <2>6, <2>7, <1>2 DEF Closure
  <2>9. PICK m \in Node : <<k, m>> \in Links /\ <<m, j>> \in Reaches
    BY <2>5, <2>8
  <2>10. <<m, k>> \in Reaches
    BY <2>5, <2>9, <1>2 DEF Closure
  <2>11. m \in Adjacency(k) /\ Reach(m, k)
    <3>1. m \in Adjacency(k)
      BY <2>9 DEF Links, LinksOf, Adjacency
    <3> QED
      BY <3>1, <2>10, ReachIsReaches
  <2> QED
    BY <2>2, <2>11
<1> QED
  BY <1>4, <1>5 DEF Named

\* What is finished reaches only what is finished.
LEMMA FinishedIsClosed ==
  ASSUME NEW I, NEW N, NEW L, NEW R, NEW d, NEW l, NEW k, NEW s, NEW c, NEW reported,
         Tarjan(I, N, L, R, d, l, k, s, c, reported), Closure(N, L, R),
         NEW n \in Entered(N, d) \ Members(s), NEW m \in N, <<n, m>> \in R
  PROVE  m \in Entered(N, d) \ Members(s)
<1> DEFINE F == Entered(N, d) \ Members(s)
<1>1. Callers(c) \subseteq Members(s) /\ Explored(Entered(N, d), Members(s), Seen(N, L, d, c))
  BY DEF Tarjan, Walk, Walking
<1>2. \A q \in L : q[1] \in F => q[2] \in F
  <2> SUFFICES ASSUME NEW q \in L, q[1] \in F PROVE q[2] \in F
    OBVIOUS
  <2>1. q \notin Waiting(L, c)
    <3>1. ASSUME q \in Waiting(L, c) PROVE FALSE
      <4>1. q[1] \in Callers(c)
        BY <3>1 DEF Waiting, Callers
      <4> QED
        BY <4>1, <1>1
    <3> QED
      BY <3>1
  <2>2. q \in Seen(N, L, d, c)
    BY <2>1 DEF Seen
  <2> QED
    BY <2>2, <1>1 DEF Explored
<1>3. F \in SUBSET N
  BY DEF Entered
<1> HIDE DEF F
<1>4. n \in F
  BY DEF F
<1>5. m \in F
  BY <1>2, <1>3, <1>4 DEF Closure
<1> QED
  BY <1>5 DEF F

\* The components reported during the walk name exactly the finished nodes.
LEMMA ReportedIsFinished ==
  ASSUME DepIInv, pc = "walk"
  PROVE  UNION components = Named(Entered(Node, discovery) \ Members(stack))
<1> DEFINE F == Entered(Node, discovery) \ Members(stack)
<1>1. Tarjan(ids, Node, Links, Reaches, discovery, lowlink, counter, stack, calls, components)
  BY DEF DepIInv
<1>2. Closure(Node, Links, Reaches)
  BY LinksClosed
<1>3. components = {Class(ids, Node, Reaches, n) : n \in F}
  BY <1>1 DEF Tarjan
<1>4. F \subseteq Node
  BY DEF Entered
<1>5. ASSUME NEW n \in F, NEW m \in Node, <<n, m>> \in Reaches PROVE m \in F
  BY <1>1, <1>2, <1>5, FinishedIsClosed
<1>6. ASSUME NEW n \in F PROVE <<n, n>> \in Reaches
  BY <1>2, <1>4 DEF Closure
<1> HIDE DEF F
<1>7. ASSUME NEW x \in UNION components PROVE x \in Named(F)
  <2>1. PICK n \in F : x \in Class(ids, Node, Reaches, n)
    BY <1>3
  <2>2. PICK m \in Node : x = ids[m] /\ <<n, m>> \in Reaches
    BY <2>1 DEF Class, MutualIn
  <2> QED
    BY <2>2, <1>5 DEF Named
<1>8. ASSUME NEW x \in Named(F) PROVE x \in UNION components
  <2>1. PICK n \in F : x = ids[n]
    BY DEF Named
  <2>2. x \in Class(ids, Node, Reaches, n)
    BY <2>1, <1>4, <1>6 DEF Class, MutualIn
  <2> QED
    BY <2>2, <1>3
<1>9. UNION components = Named(F)
  BY <1>7, <1>8
<1> QED
  BY <1>9 DEF F

\* The components that `deps` reports (scc.rs, Tarjan::run) are exactly the
\* classes of nodes that import one another, directly or not, and the cycles
\* hold exactly the nodes an import of which leads back to them: for every
\* corpus, however its nodes are numbered and the walk visits them.
THEOREM ReportedCyclesAreTheImportCycles ==
  ASSUME DepAssumption
  PROVE  DepSpec => []ComponentsAreMutual
<1>1. DepIInv => ComponentsAreMutual
  <2> SUFFICES ASSUME DepIInv, pc = "rank"
               PROVE  /\ components = {Named(Mutual(n)) : n \in Node}
                      /\ UNION Cycles = Named({n \in Node : \E m \in Adjacency(n) : Reach(m, n)})
    BY DEF ComponentsAreMutual
  <2>1. /\ components = {Class(ids, Node, Reaches, n) : n \in Node}
        /\ edges = EdgesOf(files, level) /\ ids \in Seq(Ends(edges))
        /\ \A i, j \in DOMAIN ids : ids[i] = ids[j] => i = j
    BY DEF DepIInv
  <2>2. \A n \in Node : Named(Mutual(n)) = Class(ids, Node, Reaches, n)
    BY NamedMutual
  <2>3. components = {Named(Mutual(n)) : n \in Node}
    BY <2>1, <2>2
  <2>4. UNION Cycles = Named({n \in Node : \E m \in Adjacency(n) : Reach(m, n)})
    BY <2>1, CycleNodes
  <2> QED
    BY <2>3, <2>4
<1> QED
  BY <1>1, WalkInvariant, PTL

\* At every step of the walk the component stack holds exactly the nodes
\* entered and not yet reported, and a node's low link is the number of a
\* node at or below it on that stack (scc.rs, walk and close_component).
THEOREM ComponentStackHoldsOpenNodes ==
  ASSUME DepAssumption
  PROVE  DepSpec => []StackHoldsOpenNodes
<1>1. DepIInv => StackHoldsOpenNodes
  <2> SUFFICES ASSUME DepIInv, pc = "walk"
               PROVE  /\ Named({n \in Node : discovery[n] # Unvisited}) \ UNION components
                            = Named({stack[i] : i \in DOMAIN stack})
                      /\ \A i \in DOMAIN stack : \E k \in 1..i : discovery[stack[k]] = lowlink[stack[i]]
    BY DEF StackHoldsOpenNodes
  <2> DEFINE V == Entered(Node, discovery)
             S == Members(stack)
  <2>1. Tarjan(ids, Node, Links, Reaches, discovery, lowlink, counter, stack, calls, components)
    BY DEF DepIInv
  <2>2. /\ V \subseteq Node /\ S \subseteq V /\ discovery \in [Node -> Int] /\ lowlink \in [Node -> Int]
        /\ Linked(S, Reaches, discovery, lowlink) /\ stack \in Seq(Node) /\ Rising(discovery, stack)
    BY <2>1 DEF Tarjan, Walk, Walking
  <2>3. \A i, j \in Node : ids[i] = ids[j] => i = j
    BY DEF DepIInv, Node
  <2>4. UNION components = Named(V \ S)
    BY ReportedIsFinished
  <2>5. Named(V) \ Named(V \ S) = Named(S)
    <3> HIDE DEF V, S
    <3> QED
      BY <2>2, <2>3 DEF Named
  <2>6. V = {n \in Node : discovery[n] # Unvisited} /\ S = {stack[i] : i \in DOMAIN stack}
    BY DEF Entered, Members
  <2>7. ASSUME NEW i \in DOMAIN stack PROVE \E k \in 1..i : discovery[stack[k]] = lowlink[stack[i]]
    <3>1. stack[i] \in S
      BY DEF Members
    <3>2. PICK m \in S : discovery[m] = lowlink[stack[i]] /\ lowlink[stack[i]] <= discovery[stack[i]]
      BY <3>1, <2>2 DEF Linked
    <3>3. PICK k \in DOMAIN stack : m = stack[k]
      BY DEF Members
    <3>4. i \in Nat /\ k \in Nat /\ 1 <= k /\ stack[i] \in Node /\ stack[k] \in Node
      BY <2>2
    <3>5. ~(i < k)
      <4>1. ASSUME i < k PROVE FALSE
        <5>1. discovery[stack[i]] < discovery[stack[k]]
          BY <4>1, <2>2 DEF Rising
        <5> QED
          BY <5>1, <3>2, <3>3, <3>4, <2>2
      <4> QED
        BY <4>1
    <3>6. k \in 1..i
      BY <3>4, <3>5
    <3> QED
      BY <3>2, <3>3, <3>6
  <2> QED
    BY <2>4, <2>5, <2>6, <2>7
<1> QED
  BY <1>1, WalkInvariant, PTL

\* The package graph is the file graph seen by package (imports.rs,
\* build_import_graph): the two levels resolve each import alike.
THEOREM PackageGraphIsTheFileGraph ==
  ASSUME DepAssumption
  PROVE  DepSpec => []LevelsAgree
<1>1. ASSUME NEW fs, \A f, g \in fs : f.path = g.path => f = g, NEW p \in Packages(fs) \X Packages(fs), p[1] # p[2]
      PROVE  p \in EdgesOf(fs, "package") <=>
               \E f, g \in fs : f.package = p[1] /\ g.package = p[2] /\ <<f.path, g.path>> \in EdgesOf(fs, "file")
  <2>1. ASSUME p \in EdgesOf(fs, "package")
        PROVE  \E f, g \in fs : f.package = p[1] /\ g.package = p[2] /\ <<f.path, g.path>> \in EdgesOf(fs, "file")
    <3>1. PICK f \in fs : /\ f.package # NoPackage /\ f.package = p[1]
                          /\ \E i \in f.imports : Internal(fs, i) /\ p[2] \in Targets(fs, i, "package")
      BY <2>1 DEF EdgesOf, NodeOf
    <3>2. PICK i \in f.imports : Internal(fs, i) /\ p[2] = i.package
      BY <3>1 DEF Targets
    <3>3. PICK g \in fs : g.package = i.package /\ g.path \in Targets(fs, i, "file")
      BY <3>2 DEF Internal, Packages, Targets, Declaring
    <3>4. g.package # NoPackage /\ g.path # f.path
      BY <1>1, <3>1, <3>2, <3>3 DEF Packages
    <3>5. f.path \in Nodes(fs, "file") /\ g.path \in Nodes(fs, "file")
      BY <3>1, <3>4 DEF Nodes, NodeOf
    <3>6. <<f.path, g.path>> \in EdgesOf(fs, "file")
      BY <3>1, <3>2, <3>3, <3>4, <3>5 DEF EdgesOf, NodeOf
    <3> QED
      BY <3>1, <3>2, <3>3, <3>6
  <2>2. ASSUME NEW f \in fs, NEW g \in fs, f.package = p[1], g.package = p[2],
               <<f.path, g.path>> \in EdgesOf(fs, "file")
        PROVE  p \in EdgesOf(fs, "package")
    <3>1. PICK h \in fs : /\ h.package # NoPackage /\ h.path = f.path
                          /\ \E i \in h.imports : Internal(fs, i) /\ g.path \in Targets(fs, i, "file")
      BY <2>2 DEF EdgesOf, NodeOf
    <3>2. h = f
      BY <3>1, <1>1
    <3>3. PICK i \in f.imports : Internal(fs, i) /\ g.path \in Targets(fs, i, "file")
      BY <3>1, <3>2
    <3>4. \E e \in fs : e.package = i.package /\ g.path = e.path
      BY <3>3 DEF Targets, Declaring
    <3>5. g.package = i.package
      BY <3>4, <1>1
    <3>6. p[2] \in Targets(fs, i, "package")
      BY <3>5, <2>2 DEF Targets
    <3>7. p[1] \in Nodes(fs, "package") /\ p[2] \in Nodes(fs, "package") /\ p = <<p[1], p[2]>>
      BY DEF Nodes, NodeOf, Packages
    <3> QED
      BY <1>1, <2>2, <3>1, <3>2, <3>3, <3>6, <3>7 DEF EdgesOf, NodeOf
  <2> QED
    BY <2>1, <2>2
<1>2. ASSUME NEW fs PROVE EdgesOf(fs, "package") \subseteq Packages(fs) \X Packages(fs)
                          /\ \A e \in EdgesOf(fs, "package") : e[1] # e[2]
  BY DEF EdgesOf, Nodes, NodeOf, Packages
<1>3. DepIInv => LevelsAgree
  <2> SUFFICES ASSUME DepIInv, pc = "rank", level = "file"
               PROVE  EdgesOf(files, "package") =
                        {p \in Packages(files) \X Packages(files) :
                           p[1] # p[2] /\ \E f, g \in files : f.package = p[1] /\ g.package = p[2]
                               /\ <<f.path, g.path>> \in edges}
    BY DEF LevelsAgree
  <2>1. edges = EdgesOf(files, "file") /\ files \in Corpora
    BY DEF DepIInv
  <2>2. \A f, g \in files : f.path = g.path => f = g
    BY <2>1 DEF DepAssumption
  <2> QED
    BY <2>1, <2>2, <1>1, <1>2
<1> QED
  BY <1>3, WalkInvariant, PTL

\* What the dependency report states of the graph, for every corpus: the cycles
\* it lists are the import cycles, a link back to an open node finds it on the
\* stack, and the package level is the file level seen through its packages.
THEOREM DepGraphIsTheImports ==
  ASSUME DepAssumption
  PROVE  DepSpec => []GraphIsTheImports
BY ReportedCyclesAreTheImportCycles, ComponentStackHoldsOpenNodes,
   PackageGraphIsTheFileGraph, PTL DEF GraphIsTheImports
-----------------------------------------------------------------------------
(* PageRank.  A round over the nodes N linked by G, with degrees g, a common *)
(* multiple D of the degrees, scores s that add up to U and dangling mass d. *)

OutOf(N, G, n) == {t \in N : <<n, t>> \in G}
Into(N, G, t) == {n \in N : <<n, t>> \in G}

\* What a node hands along each of its links, and what it hands to t.
Handed(L, g, D, s, n) == 17 * L * (D \div g[n]) * s[n]
Shares(L, N, G, g, D, s, t) == [n \in N |-> IF <<n, t>> \in G THEN Handed(L, g, D, s, n) ELSE 0]
Lost(N, g, s) == [n \in N |-> IF g[n] = 0 THEN s[n] ELSE 0]

Ranking(L, N, G, g, D, s, U) ==
  /\ L \in Nat \ {0} /\ N = 1 .. L
  /\ g \in [N -> Nat] /\ \A n \in N : g[n] = Cardinality(OutOf(N, G, n))
  /\ D \in Nat \ {0} /\ \A n \in N : g[n] # 0 => D % g[n] = 0
  /\ s \in [N -> Nat \ {0}] /\ U = SumOver(N, s)

RankedOnce(L, N, G, g, D, s, U, new) ==
  new = [t \in N |-> 3 * D * U + 17 * D * SumOver(N, Lost(N, g, s)) + SumOver(N, Shares(L, N, G, g, D, s, t))]

\* A common multiple shared out over the links of a node comes back whole.
LEMMA WholeShares ==
  ASSUME NEW D \in Nat \ {0}, NEW x \in Nat \ {0}, D % x = 0
  PROVE  (D \div x) \in Nat \ {0} /\ (D \div x) * x = D
<1>1. D \div x \in Int
  OBVIOUS
<1>2. (D \div x) * x = D
  OBVIOUS
<1>3. PICK q \in Int : q = D \div x
  BY <1>1
<1>4. q > 0
  BY <1>2, <1>3
<1> QED
  BY <1>2, <1>3, <1>4

\* A node with a link out hands a positive amount along it, and its score in all.
LEMMA HandedIsWhole ==
  ASSUME NEW L, NEW N, NEW G, NEW g, NEW D, NEW s, NEW U, Ranking(L, N, G, g, D, s, U),
         NEW n \in N, g[n] # 0
  PROVE  /\ Handed(L, g, D, s, n) \in Nat \ {0}
         /\ Handed(L, g, D, s, n) * g[n] = (17 * L * D) * s[n]
<1>1. PICK x \in Nat \ {0}, v \in Nat \ {0}, l \in Nat \ {0} : x = g[n] /\ v = s[n] /\ l = L
  BY DEF Ranking
<1>2. D \in Nat \ {0} /\ D % x = 0
  BY <1>1 DEF Ranking
<1>3. PICK q \in Nat \ {0} : q = D \div x /\ q * x = D
  BY <1>2, WholeShares
<1>4. Handed(L, g, D, s, n) = 17 * l * q * v
  BY <1>1, <1>3 DEF Handed
<1>5. 17 * l * q * v \in Nat /\ 17 * l * q * v > 0
  <2>1. l * q \in Nat /\ l * q > 0
    OBVIOUS
  <2>2. (l * q) * v \in Nat /\ (l * q) * v > 0
    BY <2>1
  <2>3. 17 * l * q * v = 17 * ((l * q) * v)
    OBVIOUS
  <2> QED
    BY <2>2, <2>3
<1>6. (17 * l * q * v) * x = (17 * l * (q * x)) * v
  OBVIOUS
<1> QED
  BY <1>1, <1>3, <1>4, <1>5, <1>6

\* The nodes are numbered from one.
LEMMA RankingNodes ==
  ASSUME NEW L, NEW N, NEW G, NEW g, NEW D, NEW s, NEW U, Ranking(L, N, G, g, D, s, U)
  PROVE  IsFiniteSet(N) /\ Cardinality(N) = L /\ 1 \in N
<1>1. L \in Nat \ {0} /\ N = 1 .. L
  BY DEF Ranking
<1>2. IsFiniteSet(1 .. L) /\ Cardinality(1 .. L) = L
  BY <1>1, FS_Interval
<1> QED
  BY <1>1, <1>2

\* A link out of n makes its degree positive.
LEMMA LinkedOut ==
  ASSUME NEW L, NEW N, NEW G, NEW g, NEW D, NEW s, NEW U, Ranking(L, N, G, g, D, s, U),
         NEW n \in N, NEW t \in N, <<n, t>> \in G
  PROVE  g[n] # 0
<1>1. IsFiniteSet(OutOf(N, G, n)) /\ t \in OutOf(N, G, n)
  <2>1. IsFiniteSet(N)
    BY RankingNodes
  <2> QED
    BY <2>1, FS_Subset DEF OutOf
<1>2. Cardinality(OutOf(N, G, n)) # 0
  BY <1>1, FS_EmptySet
<1> QED
  BY <1>2 DEF Ranking

\* What a target is handed is a natural number from each source.
LEMMA ShareTypes ==
  ASSUME NEW L, NEW N, NEW G, NEW g, NEW D, NEW s, NEW U, Ranking(L, N, G, g, D, s, U), NEW t \in N
  PROVE  Shares(L, N, G, g, D, s, t) \in [N -> Nat]
<1>1. ASSUME NEW n \in N PROVE (IF <<n, t>> \in G THEN Handed(L, g, D, s, n) ELSE 0) \in Nat
  <2>1. CASE <<n, t>> \in G
    BY <2>1, LinkedOut, HandedIsWhole
  <2> QED
    BY <2>1
<1> QED
  BY <1>1 DEF Shares

\* A sum of natural numbers is one, and positive with any of them.
LEMMA SumNat ==
  ASSUME NEW N, IsFiniteSet(N), NEW f \in [N -> Nat]
  PROVE  SumOver(N, f) \in Nat /\ (\A x \in N : 0 < f[x] => 0 < SumOver(N, f))
<1> DEFINE z == [x \in N |-> 0]
<1>1. z \in [N -> Int] /\ f \in [N -> Int] /\ \A x \in N : z[x] = 0 /\ z[x] <= f[x]
  OBVIOUS
<1>2. \A x \in N : z[x] = IF x \in {} THEN 0 ELSE 0
  OBVIOUS
<1> HIDE DEF z
<1>3. SumOver(N, z) = 0 * Cardinality({})
  BY <1>1, <1>2, SumCounts
<1>4. SumOver(N, z) = 0
  BY <1>3, FS_EmptySet
<1>5. SumOver(N, f) \in Int
  BY <1>1, SumType
<1>6. /\ SumOver(N, z) <= SumOver(N, f)
      /\ (\E x \in N : z[x] < f[x]) => SumOver(N, z) < SumOver(N, f)
  BY <1>1, SumGrows
<1> QED
  BY <1>1, <1>4, <1>5, <1>6

\* A round leaves every score positive.
LEMMA RoundStaysPositive ==
  ASSUME NEW L, NEW N, NEW G, NEW g, NEW D, NEW s, NEW U, Ranking(L, N, G, g, D, s, U),
         NEW new, RankedOnce(L, N, G, g, D, s, U, new)
  PROVE  new \in [N -> Nat \ {0}] /\ U \in Nat \ {0} /\ SumOver(N, Lost(N, g, s)) \in Nat
<1>0. IsFiniteSet(N) /\ 1 \in N
  BY RankingNodes
<1>1. IsFiniteSet(N) /\ 1 \in N /\ s \in [N -> Nat] /\ 0 < s[1]
  BY <1>0 DEF Ranking
<1>2. U \in Nat \ {0}
  BY <1>1, SumNat DEF Ranking
<1>3. Lost(N, g, s) \in [N -> Nat]
  BY DEF Lost, Ranking
<1>4. PICK d \in Nat : d = SumOver(N, Lost(N, g, s))
  BY <1>1, <1>3, SumNat
<1>5. ASSUME NEW t \in N PROVE new[t] \in Nat \ {0}
  <2>1. PICK r \in Nat : r = SumOver(N, Shares(L, N, G, g, D, s, t))
    BY <1>1, ShareTypes, SumNat
  <2>2. PICK k \in Nat \ {0} : k = D
    BY DEF Ranking
  <2>3. new[t] = 3 * k * U + 17 * k * d + r
    BY <1>4, <2>1, <2>2 DEF RankedOnce
  <2>4. 3 * k * U > 0 /\ 3 * k * U \in Nat /\ 17 * k * d \in Nat
    <3>1. k * U \in Nat /\ k * U > 0 /\ k * d \in Nat
      BY <1>2
    <3>2. 3 * k * U = 3 * (k * U) /\ 17 * k * d = 17 * (k * d)
      BY <1>2
    <3> QED
      BY <3>1, <3>2
  <2> QED
    BY <2>3, <2>4
<1>6. new \in [N -> Nat \ {0}]
  BY <1>5 DEF RankedOnce
<1> QED
  BY <1>2, <1>4, <1>6

\* More importers, a higher score.
LEMMA RoundOrders ==
  ASSUME NEW L, NEW N, NEW G, NEW g, NEW D, NEW s, NEW U, Ranking(L, N, G, g, D, s, U),
         NEW new, RankedOnce(L, N, G, g, D, s, U, new),
         NEW a \in N, NEW b \in N, Into(N, G, a) \subseteq Into(N, G, b), Into(N, G, a) # Into(N, G, b)
  PROVE  new[a] < new[b]
<1>1. IsFiniteSet(N)
  BY RankingNodes
<1>2. PICK p \in [N -> Nat], q \in [N -> Nat] :
        p = Shares(L, N, G, g, D, s, a) /\ q = Shares(L, N, G, g, D, s, b)
  BY ShareTypes
<1>3. ASSUME NEW n \in N PROVE p[n] <= q[n]
  <2>1. CASE n \in Into(N, G, a)
    <3>1. <<n, a>> \in G /\ <<n, b>> \in G
      BY <2>1 DEF Into
    <3>2. p[n] = q[n]
      BY <1>2, <3>1 DEF Shares
    <3> QED
      BY <1>2, <3>2
  <2>2. CASE n \notin Into(N, G, a)
    <3>1. p[n] = 0
      BY <1>2, <2>2 DEF Shares, Into
    <3> QED
      BY <1>2, <3>1
  <2> QED
    BY <2>1, <2>2
<1>4. PICK n \in N : <<n, b>> \in G /\ ~(<<n, a>> \in G)
  BY DEF Into
<1>5. p[n] < q[n]
  <2>1. p[n] = 0 /\ q[n] = Handed(L, g, D, s, n)
    BY <1>2, <1>4 DEF Shares
  <2>2. Handed(L, g, D, s, n) \in Nat \ {0}
    BY <1>4, LinkedOut, HandedIsWhole
  <2> QED
    BY <2>1, <2>2
<1>6. p \in [N -> Int] /\ q \in [N -> Int]
  OBVIOUS
<1>7. SumOver(N, p) < SumOver(N, q) /\ SumOver(N, p) \in Int /\ SumOver(N, q) \in Int
  BY <1>1, <1>3, <1>5, <1>6, SumGrows, SumType
<1>8. PICK c \in Int : c = 3 * D * U + 17 * D * SumOver(N, Lost(N, g, s))
  <2>1. U \in Nat /\ SumOver(N, Lost(N, g, s)) \in Nat
    BY RoundStaysPositive
  <2>2. D \in Nat
    BY DEF Ranking
  <2>3. 3 * D * U + 17 * D * SumOver(N, Lost(N, g, s)) \in Int
    BY <2>1, <2>2
  <2> QED
    BY <2>3
<1>9. new[a] = c + SumOver(N, p) /\ new[b] = c + SumOver(N, q)
  BY <1>2, <1>8 DEF RankedOnce
<1> QED
  BY <1>7, <1>8, <1>9

\* The polynomial the three parts of a round add up to.
LEMMA RoundAddsUp ==
  ASSUME NEW L \in Int, NEW D \in Int, NEW U \in Int, NEW d \in Int, NEW k \in Int, k + d = U
  PROVE  (3 * D * U + 17 * D * d) * L + (17 * L * D) * k = 20 * L * D * U
<1>1. k = U - d
  OBVIOUS
<1> QED
  BY <1>1

\* A round loses no mass and makes none.
LEMMA RoundConserves ==
  ASSUME NEW L, NEW N, NEW G, NEW g, NEW D, NEW s, NEW U, Ranking(L, N, G, g, D, s, U),
         NEW new, RankedOnce(L, N, G, g, D, s, U, new)
  PROVE  SumOver(N, new) = 20 * L * D * U
<1> DEFINE f == [t \in N |-> Shares(L, N, G, g, D, s, t)]
           row == [t \in N |-> SumOver(N, f[t])]
           kept == [n \in N |-> IF g[n] = 0 THEN 0 ELSE s[n]]
           column == [n \in N |-> (17 * L * D) * kept[n]]
           lost == Lost(N, g, s)
           c == 3 * D * U + 17 * D * SumOver(N, lost)
           floor == [t \in N |-> c]
<1>0. /\ L \in Nat \ {0} /\ D \in Nat \ {0} /\ U \in Nat /\ IsFiniteSet(N) /\ Cardinality(N) = L
      /\ SumOver(N, lost) \in Nat
  <2>1. IsFiniteSet(N) /\ Cardinality(N) = L
    BY RankingNodes
  <2>2. U \in Nat /\ SumOver(N, Lost(N, g, s)) \in Nat
    BY RoundStaysPositive
  <2>3. L \in Nat \ {0} /\ D \in Nat \ {0}
    BY DEF Ranking
  <2> QED
    BY <2>1, <2>2, <2>3
<1>1. f \in [N -> [N -> Int]]
  <2>1. \A t \in N : Shares(L, N, G, g, D, s, t) \in [N -> Int]
    BY ShareTypes
  <2> QED
    BY <2>1
<1>2. row \in [N -> Int] /\ \A t \in N : row[t] = SumOver(N, f[t])
  <2>1. \A t \in N : f[t] \in [N -> Int]
    BY <1>1
  <2> HIDE DEF f
  <2>2. \A t \in N : SumOver(N, f[t]) \in Int
    BY <1>0, <2>1, SumType
  <2> QED
    BY <2>2
<1>3. kept \in [N -> Int] /\ lost \in [N -> Int] /\ \A n \in N : s[n] = kept[n] + lost[n]
  BY DEF Lost, Ranking
<1>4. column \in [N -> Int] /\ \A n \in N : column[n] = (17 * L * D) * kept[n]
  <2>1. 17 * L * D \in Int
    BY <1>0
  <2>2. \A n \in N : (17 * L * D) * kept[n] \in Int
    BY <1>3, <2>1
  <2> HIDE DEF kept
  <2> QED
    BY <2>2
<1>5. ASSUME NEW n \in N PROVE column[n] = SumOver(N, ColumnOf(N, f, n))
  <2> DEFINE h == ColumnOf(N, f, n)
             B == OutOf(N, G, n)
             v == IF g[n] = 0 THEN 0 ELSE Handed(L, g, D, s, n)
  <2>1. v \in Int /\ B \in SUBSET N
    BY HandedIsWhole DEF OutOf
  <2>2. h \in [N -> Int]
    BY <1>1 DEF ColumnOf
  <2>3. ASSUME NEW t \in N PROVE h[t] = IF t \in B THEN v ELSE 0
    <3>1. h[t] = IF <<n, t>> \in G THEN Handed(L, g, D, s, n) ELSE 0
      BY DEF Shares, ColumnOf
    <3>2. CASE <<n, t>> \in G
      <4>1. g[n] # 0
        BY <3>2, LinkedOut
      <4> QED
        BY <3>1, <3>2, <4>1 DEF OutOf
    <3> QED
      BY <3>1, <3>2 DEF OutOf
  <2>4. SumOver(N, h) = v * Cardinality(B)
    <3> HIDE DEF h, B, v
    <3> QED
      BY <1>0, <2>1, <2>2, <2>3, SumCounts
  <2>5. Cardinality(B) = g[n]
    BY DEF Ranking
  <2>6. v * g[n] = (17 * L * D) * kept[n]
    <3>1. CASE g[n] = 0
      BY <1>0, <3>1
    <3>2. CASE g[n] # 0
      BY <3>2, HandedIsWhole
    <3> QED
      BY <3>1, <3>2
  <2> HIDE DEF v, B, h
  <2>7. SumOver(N, h) = column[n]
    BY <1>4, <2>4, <2>5, <2>6
  <2> QED
    BY <2>7 DEF h
<1>6. floor \in [N -> Int] /\ c \in Int /\ \A t \in N : floor[t] = IF t \in N THEN c ELSE 0
  BY <1>0
<1>7. new \in [N -> Int] /\ \A t \in N : new[t] = floor[t] + row[t]
  <2>1. new \in [N -> Nat \ {0}]
    BY RoundStaysPositive
  <2>2. \A t \in N : new[t] = floor[t] + row[t]
    BY DEF RankedOnce
  <2> QED
    BY <2>1, <2>2
<1> HIDE DEF f, row, kept, column, lost, floor, c
<1>8. SumOver(N, row) = SumOver(N, column)
  <2>1. Crossed(N, N, f, row, column)
    BY <1>1, <1>2, <1>4, <1>5 DEF Crossed
  <2> QED
    BY <1>0, <2>1, SumExchanges
<1>9. SumOver(N, column) = (17 * L * D) * SumOver(N, kept)
  <2>1. PICK m \in Int : m = 17 * L * D
    BY <1>0
  <2>2. SumOver(N, column) = m * SumOver(N, kept)
    BY <1>0, <1>3, <1>4, <2>1, SumScaled
  <2> QED
    BY <2>1, <2>2
<1>10. SumOver(N, s) = SumOver(N, kept) + SumOver(N, lost)
  <2>1. s \in [N -> Int]
    BY DEF Ranking
  <2> QED
    BY <1>0, <1>3, <2>1, SumPlus
<1>11. SumOver(N, floor) = c * L
  BY <1>0, <1>6, SumCounts
<1>12. SumOver(N, new) = SumOver(N, floor) + SumOver(N, row)
  BY <1>0, <1>2, <1>6, <1>7, SumPlus
<1>13. PICK k \in Int, d \in Int : k = SumOver(N, kept) /\ d = SumOver(N, lost)
  BY <1>0, <1>3, SumType
<1>14. k + d = U
  BY <1>10, <1>13 DEF Ranking
<1>15. (3 * D * U + 17 * D * d) * L + (17 * L * D) * k = 20 * L * D * U
  BY <1>0, <1>13, <1>14, RoundAddsUp
<1> QED
  BY <1>8, <1>9, <1>11, <1>12, <1>13, <1>15 DEF c

\* The model's folds are those of the lemmas.
LEMMA TotalIsSum ==
  ASSUME NEW f
  PROVE  Total(f) = SumOver(DOMAIN f, f)
BY DEF Total, MapThenSumSet, MapThenFoldSet, SumOver, SumTable, Pick

\* The model's product is the product of the lemmas.
LEMMA ProductIsProduct ==
  ASSUME NEW d
  PROVE  ProductSet(d) = ProductOver(d)
BY DEF ProductSet, FoldSet, MapThenFoldSet, ProductOver, ProductTable, Pick

Degrees == {Degree(n) : n \in 1..Len(ids)} \ {0}

\* DegreeLcm is a common multiple of the degrees that are not zero.
LEMMA LcmIsMultiple ==
  ASSUME IsFiniteSet(Degrees), Degrees \subseteq Nat \ {0}
  PROVE  DegreeLcm \in Nat \ {0} /\ \A x \in Degrees : DegreeLcm % x = 0
<1>1. CASE Degrees = {}
  BY <1>1 DEF DegreeLcm, Degrees
<1>2. CASE Degrees # {}
  <2> DEFINE K == {k \in 1..ProductSet(Degrees) : \A x \in Degrees : k % x = 0}
  <2>1. DegreeLcm = Min(K)
    BY <1>2 DEF DegreeLcm, Degrees
  <2>2. ProductOver(Degrees) \in Nat \ {0} /\ \A x \in Degrees : ProductOver(Degrees) % x = 0
    BY ProductIsMultiple
  <2>3. ProductSet(Degrees) \in K /\ K \in SUBSET Nat /\ 0 \notin K
    BY <2>2, ProductIsProduct
  <2>4. \A k \in K : \A x \in Degrees : k % x = 0
    OBVIOUS
  <2> HIDE DEF K
  <2>5. \E k \in K : \A j \in K : k <= j
    BY <2>3, LeastNatural
  <2>6. Min(K) \in K
    BY <2>5 DEF Min
  <2> QED
    BY <2>1, <2>3, <2>4, <2>6
<1> QED
  BY <1>1, <1>2

\* Every end point has a number.
Numbered == \A x \in Ends(edges) : \E n \in Node : ids[n] = x

\* The degree of a node is the number of its links.
LEMMA DegreeCountsLinks ==
  ASSUME NEW fs, NEW lv, edges = EdgesOf(fs, lv), ids \in Seq(Ends(edges)),
         \A i, j \in DOMAIN ids : ids[i] = ids[j] => i = j, Numbered, NEW n \in Node
  PROVE  Degree(n) \in Nat /\ Degree(n) = Cardinality(OutOf(Node, Links, n))
<1> DEFINE O == OutOf(Node, Links, n)
           T == {e \in edges : e[1] = ids[n]}
           f == [t \in O |-> <<ids[n], ids[t]>>]
<1>1. Len(ids) \in Nat /\ DOMAIN ids = Node
  BY DEF Node
<1>2. IsFiniteSet(O)
  <2>1. IsFiniteSet(Node)
    BY <1>1, FS_Interval DEF Node
  <2> QED
    BY <2>1, FS_Subset DEF OutOf
<1>3. \A t \in Node : t \in O <=> <<ids[n], ids[t]>> \in edges
  BY DEF OutOf, Links, LinksOf
<1>4. O \subseteq Node
  BY DEF OutOf
<1>5. \A e \in edges : e = <<e[1], e[2]>> /\ e[2] \in Ends(edges)
  BY DEF EdgesOf, Ends
<1> HIDE DEF O
<1>6. f \in [O -> T]
  BY <1>3, <1>4
<1>7. \A a, b \in O : f[a] = f[b] => a = b
  BY <1>1, <1>4
<1>8. ASSUME NEW e \in T PROVE \E t \in O : f[t] = e
  <2>1. PICK t \in Node : ids[t] = e[2]
    BY <1>5 DEF Numbered
  <2>2. e = <<ids[n], ids[t]>>
    BY <1>5, <2>1
  <2>3. t \in O
    BY <1>3, <2>2
  <2> QED
    BY <2>2, <2>3
<1> HIDE DEF f, T
<1>9. f \in Bijection(O, T)
  BY <1>6, <1>7, <1>8 DEF Bijection, Injection, Surjection, IsInjective
<1>10. Cardinality(T) = Cardinality(O)
  BY <1>2, <1>9, FS_Bijection DEF ExistsBijection
<1>11. Cardinality(O) \in Nat
  BY <1>2, FS_CardinalityType
<1> QED
  BY <1>10, <1>11 DEF T, O, Degree

\* More importers, a higher score.
Ordered(N, G, s) ==
  \A a, b \in N : Into(N, G, a) \subseteq Into(N, G, b) /\ Into(N, G, a) # Into(N, G, b) => s[a] < s[b]

\* The inductive invariant of the ranking.
RankIInv ==
  /\ pc # "build" =>
       /\ Numbered
       /\ scores \in [Node -> Nat \ {0}]
       /\ ids # <<>> => SumOver(Node, scores) = unit
  /\ round \in Nat /\ (pc # "rank" => round = 0)
  /\ round > 0 => Ordered(Node, Links, scores)

\* A round of the model is a round of the lemmas.
LEMMA RankIsRound ==
  ASSUME DepIInv, RankIInv, pc # "build", ids # <<>>
  PROVE  LET g == [n \in Node |-> Degree(n)]
         IN  /\ Ranking(Len(ids), Node, Links, g, DegreeLcm, scores, unit)
             /\ RankedOnce(Len(ids), Node, Links, g, DegreeLcm, scores, unit, [t \in 1..Len(ids) |-> RankStep(t)])
<1> DEFINE g == [n \in Node |-> Degree(n)]
           L == Len(ids)
<1>1. /\ edges = EdgesOf(files, level) /\ ids \in Seq(Ends(edges))
      /\ \A i, j \in DOMAIN ids : ids[i] = ids[j] => i = j
  BY DEF DepIInv
<1>2. Numbered /\ scores \in [Node -> Nat \ {0}] /\ SumOver(Node, scores) = unit
  BY DEF RankIInv
<1>3. L \in Nat \ {0} /\ Node = 1..L
  BY <1>1 DEF Node
<1>4. \A n \in Node : Degree(n) \in Nat /\ Degree(n) = Cardinality(OutOf(Node, Links, n))
  BY <1>1, <1>2, DegreeCountsLinks
<1>5. g \in [Node -> Nat] /\ \A n \in Node : g[n] = Degree(n)
  BY <1>4
<1>6. IsFiniteSet(Degrees) /\ Degrees \subseteq Nat \ {0}
  <2>1. IsFiniteSet(Node)
    BY <1>3, FS_Interval
  <2> DEFINE All == {Degree(n) : n \in Node}
  <2>2. g \in Surjection(Node, All)
    BY <1>5 DEF Surjection
  <2>3. IsFiniteSet(All)
    BY <2>1, <2>2, FS_Surjection
  <2>4. Degrees \subseteq All
    BY <1>3 DEF Degrees
  <2>5. Degrees \subseteq Nat \ {0}
    BY <1>3, <1>4 DEF Degrees
  <2> QED
    BY <2>3, <2>4, <2>5, FS_Subset
<1>7. DegreeLcm \in Nat \ {0} /\ \A n \in Node : g[n] # 0 => DegreeLcm % g[n] = 0
  <2>1. DegreeLcm \in Nat \ {0} /\ \A x \in Degrees : DegreeLcm % x = 0
    BY <1>6, LcmIsMultiple
  <2>2. \A n \in Node : g[n] # 0 => g[n] \in Degrees
    BY <1>3, <1>5 DEF Degrees
  <2> HIDE DEF g
  <2> QED
    BY <2>1, <2>2
<1>8. Ranking(L, Node, Links, g, DegreeLcm, scores, unit)
  <2> HIDE DEF g, L
  <2> QED
    BY <1>2, <1>3, <1>4, <1>5, <1>7 DEF Ranking
<1>9. Dangling = SumOver(Node, Lost(Node, g, scores))
  <2>1. [n \in 1..L |-> IF Degree(n) = 0 THEN scores[n] ELSE 0] = Lost(Node, g, scores)
    BY <1>3, <1>5 DEF Lost
  <2>2. DOMAIN Lost(Node, g, scores) = Node
    BY DEF Lost
  <2> QED
    BY <2>1, <2>2, TotalIsSum DEF Dangling
<1>10. ASSUME NEW t \in Node
       PROVE  Total([n \in 1..L |-> IF <<ids[n], ids[t]>> \in edges
                                    THEN Damping * L * (DegreeLcm \div Degree(n)) * scores[n] ELSE 0])
                = SumOver(Node, Shares(L, Node, Links, g, DegreeLcm, scores, t))
  <2>1. \A n \in Node : <<n, t>> \in Links <=> <<ids[n], ids[t]>> \in edges
    BY DEF Links, LinksOf
  <2>2. [n \in 1..L |-> IF <<ids[n], ids[t]>> \in edges
                        THEN Damping * L * (DegreeLcm \div Degree(n)) * scores[n] ELSE 0]
          = Shares(L, Node, Links, g, DegreeLcm, scores, t)
    BY <1>3, <1>5, <2>1 DEF Shares, Handed, Damping
  <2>3. DOMAIN Shares(L, Node, Links, g, DegreeLcm, scores, t) = Node
    BY DEF Shares
  <2> QED
    BY <2>2, <2>3, TotalIsSum
<1>11. ASSUME NEW t \in Node
       PROVE  RankStep(t) = 3 * DegreeLcm * unit + 17 * DegreeLcm * SumOver(Node, Lost(Node, g, scores))
                              + SumOver(Node, Shares(L, Node, Links, g, DegreeLcm, scores, t))
  <2>1. 20 - Damping = 3 /\ Damping = 17
    BY DEF Damping
  <2> HIDE DEF g
  <2> QED
    BY <1>9, <1>10, <2>1 DEF RankStep
<1>12. RankedOnce(L, Node, Links, g, DegreeLcm, scores, unit, [t \in 1..L |-> RankStep(t)])
  <2> HIDE DEF g, L
  <2> QED
    BY <1>3, <1>11 DEF RankedOnce
<1> QED
  BY <1>8, <1>12

\* A round of page_rank.
LEMMA RankKeepsRanks ==
  ASSUME DepIInv, RankIInv, Rank
  PROVE  RankIInv'
<1>1. /\ UNCHANGED graphVars /\ pc' = pc /\ pc = "rank" /\ round' = round + 1 /\ unit' = Step * unit
      /\ scores' = [t \in 1..Len(ids) |-> RankStep(t)]
  BY DEF Rank
<1>2. /\ ids' = ids /\ edges' = edges /\ Node' = Node /\ Links' = Links
  BY <1>1, GraphKept
<1>3. Numbered /\ round \in Nat /\ ids \in Seq(Ends(edges))
  BY <1>1 DEF RankIInv, DepIInv
<1>4. Numbered'
  BY <1>2, <1>3 DEF Numbered
<1>5. round' \in Nat /\ (pc' # "rank" => round' = 0)
  BY <1>1, <1>3
<1>6. CASE ids = <<>>
  <2>1. Node = {} /\ Len(ids) = 0
    BY <1>6 DEF Node
  <2>2. scores' \in [Node' -> Nat \ {0}]
    BY <1>1, <1>2, <2>1
  <2>3. Ordered(Node', Links', scores')
    BY <1>2, <2>1 DEF Ordered
  <2>4. ids' = <<>>
    BY <1>2, <1>6
  <2> QED
    BY <1>4, <1>5, <2>2, <2>3, <2>4 DEF RankIInv
<1>7. CASE ids # <<>>
  <2> DEFINE g == [n \in Node |-> Degree(n)]
             L == Len(ids)
             new == [t \in 1..Len(ids) |-> RankStep(t)]
  <2>1. Ranking(L, Node, Links, g, DegreeLcm, scores, unit) /\ RankedOnce(L, Node, Links, g, DegreeLcm, scores, unit, new)
    BY <1>1, <1>7, RankIsRound
  <2>2. scores' = new
    BY <1>1
  <2>3. Step = 20 * L * DegreeLcm
    BY DEF Step
  <2> HIDE DEF g, L, new
  <2>4. new \in [Node -> Nat \ {0}]
    BY <2>1, RoundStaysPositive
  <2>5. SumOver(Node, new) = 20 * L * DegreeLcm * unit
    BY <2>1, RoundConserves
  <2>6. Ordered(Node, Links, new)
    BY <2>1, RoundOrders DEF Ordered
  <2>7. unit' = 20 * L * DegreeLcm * unit
    BY <1>1, <2>3
  <2>8. scores' \in [Node' -> Nat \ {0}] /\ SumOver(Node', scores') = unit' /\ Ordered(Node', Links', scores')
    BY <1>2, <2>2, <2>4, <2>5, <2>6, <2>7
  <2> QED
    BY <1>4, <1>5, <2>8 DEF RankIInv
<1> QED
  BY <1>6, <1>7

\* Build numbers every end point and gives each node the same rank.
LEMMA BuildBeginsRanks ==
  ASSUME DepAssumption, DepIInv, RankIInv, Build
  PROVE  RankIInv'
<1> DEFINE E == EdgesOf(files, level)
           n == Cardinality(Ends(E))
<1>1. /\ pc = "build" /\ pc' = "walk" /\ edges' = E /\ ids' \in Intern(E) /\ round' = round
      /\ scores' = [i \in DOMAIN ids' |-> 1] /\ unit' = Len(ids')
  BY DEF Build
<1>2. IsFiniteSet(files)
  BY DEF DepIInv, DepAssumption
<1>3. n \in Nat /\ IsFiniteSet(Ends(E))
  BY <1>2, EndsFinite
<1>4. ids' \in [1..n -> Ends(E)] /\ \A i, j \in DOMAIN ids' : i < j => ids'[i] # ids'[j]
  BY <1>1 DEF Intern
<1>5. n = Cardinality(Ends(E))
  OBVIOUS
<1> HIDE DEF E, n
<1>6. Len(ids') = n /\ DOMAIN ids' = 1..n /\ Node' = 1..n
  BY <1>3, <1>4 DEF Node
<1>7. IsFiniteSet(1..n) /\ Cardinality(1..n) = n
  BY <1>3, FS_Interval
<1>8. PICK order : order = ids'
  OBVIOUS
<1>9. order \in Injection(1..n, Ends(E))
  <2>1. order \in [1..n -> Ends(E)]
    BY <1>4, <1>8
  <2>2. ASSUME NEW i \in 1..n, NEW j \in 1..n, order[i] = order[j] PROVE i = j
    <3>1. i \in Nat /\ j \in Nat /\ ~(i < j) /\ ~(j < i)
      BY <1>3, <1>4, <1>6, <1>8, <2>2
    <3> QED
      BY <3>1
  <2> QED
    BY <2>1, <2>2 DEF Injection, IsInjective
<1>10. order \in Surjection(1..n, Ends(E))
  BY <1>3, <1>5, <1>7, <1>9, FS_Injection
<1>11. Numbered'
  BY <1>1, <1>6, <1>8, <1>10 DEF Numbered, Surjection
<1>12. scores' \in [Node' -> Nat \ {0}]
  BY <1>1, <1>6
<1>13. SumOver(Node', scores') = unit'
  <2>1. PICK s, N : s = scores' /\ N = 1..n
    OBVIOUS
  <2>2. s \in [N -> Int] /\ \A i \in N : s[i] = IF i \in N THEN 1 ELSE 0
    BY <1>1, <1>6, <2>1
  <2>3. SumOver(N, s) = 1 * Cardinality(N)
    <3>1. PICK c \in Int : c = 1
      OBVIOUS
    <3>2. IsFiniteSet(N) /\ N \in SUBSET N /\ \A i \in N : s[i] = IF i \in N THEN c ELSE 0
      BY <1>7, <2>1, <2>2, <3>1
    <3>3. SumOver(N, s) = c * Cardinality(N)
      BY <2>2, <3>2, SumCounts
    <3> QED
      BY <3>1, <3>3
  <2> QED
    BY <1>1, <1>3, <1>6, <1>7, <2>1, <2>3
<1>14. round = 0
  BY <1>1 DEF RankIInv
<1> QED
  BY <1>1, <1>11, <1>12, <1>13, <1>14 DEF RankIInv

\* The walk leaves the ranks alone.
LEMMA QuietRanks ==
  ASSUME RankIInv, UNCHANGED <<graphVars, scores, unit, round>>, pc # "build", pc' \in {"walk", "rank"},
         pc' = pc \/ pc' = "rank"
  PROVE  RankIInv'
<1>1. /\ ids' = ids /\ edges' = edges /\ Node' = Node /\ Links' = Links
      /\ scores' = scores /\ unit' = unit /\ round' = round
  BY GraphKept
<1>2. Numbered => Numbered'
  BY <1>1 DEF Numbered
<1> QED
  BY <1>1, <1>2 DEF RankIInv

\* The invariant of the ranking holds throughout, for every corpus and any number of rounds.
THEOREM RankInvariant ==
  ASSUME DepAssumption
  PROVE  DepSpec => []RankIInv
<1>1. DepInit => RankIInv
  BY DEF DepInit, RankIInv
<1>2. DepIInv /\ RankIInv /\ [DepNext]_depVars => RankIInv'
  <2> SUFFICES ASSUME DepIInv, RankIInv, [DepNext]_depVars PROVE RankIInv'
    OBVIOUS
  <2>0. pc \in {"build", "walk", "rank"}
    BY DEF DepIInv
  <2>1. CASE Build
    BY <2>1, BuildBeginsRanks
  <2>2. CASE Start
    BY <2>2, QuietRanks DEF Start
  <2>3. CASE Look
    BY <2>3, QuietRanks DEF Look
  <2>4. CASE Return
    BY <2>4, QuietRanks DEF Return
  <2>5. CASE Walked
    BY <2>5, QuietRanks DEF Walked
  <2>6. CASE Rank
    BY <2>6, RankKeepsRanks
  <2>7. CASE UNCHANGED depVars
    <3>1. CASE pc = "build"
      BY <2>7, <3>1 DEF RankIInv, depVars
    <3>2. CASE pc # "build"
      BY <2>0, <2>7, <3>2, QuietRanks DEF depVars, graphVars
    <3> QED
      BY <3>1, <3>2
  <2>8. CASE Ranked
    BY <2>7, <2>8 DEF Ranked
  <2> QED
    BY <2>1, <2>2, <2>3, <2>4, <2>5, <2>6, <2>7, <2>8 DEF DepNext
<1> QED
  BY <1>1, <1>2, WalkInvariant, PTL DEF DepSpec

\* page_rank, for every corpus and any number of rounds: the scores of a round
\* add up to one, whether or not some package imports nothing, and a package
\* imported by all that import another, and by more, ranks higher.
THEOREM RanksFollowTheImports ==
  ASSUME DepAssumption
  PROVE  DepSpec => []RanksFollowImports
<1>1. RankIInv /\ DepIInv => RanksFollowImports
  <2> SUFFICES ASSUME RankIInv, DepIInv, pc = "rank"
               PROVE  /\ ids # <<>> => Total(scores) = unit
                      /\ round > 0 => ImportedMoreRanksHigher
    BY DEF RanksFollowImports, MassIsConserved, ImportedMoreRanksHigher
  <2>1. scores \in [Node -> Nat \ {0}] /\ DOMAIN scores = Node
    BY DEF RankIInv
  <2>2. ids # <<>> => Total(scores) = unit
    BY <2>1, TotalIsSum DEF RankIInv
  <2>3. ASSUME round > 0 PROVE ImportedMoreRanksHigher
    <3> SUFFICES ASSUME NEW a \in Node, NEW b \in Node,
                        {n \in Node : <<ids[n], ids[a]>> \in edges} \subseteq {n \in Node : <<ids[n], ids[b]>> \in edges},
                        {n \in Node : <<ids[n], ids[a]>> \in edges} # {n \in Node : <<ids[n], ids[b]>> \in edges}
                 PROVE  scores[a] < scores[b]
      BY DEF ImportedMoreRanksHigher, Node
    <3>1. \A t \in Node : Into(Node, Links, t) = {n \in Node : <<ids[n], ids[t]>> \in edges}
      BY DEF Into, Links, LinksOf
    <3>2. Ordered(Node, Links, scores)
      BY <2>3 DEF RankIInv
    <3> QED
      BY <3>1, <3>2 DEF Ordered
  <2> QED
    BY <2>2, <2>3
<1> QED
  BY <1>1, RankInvariant, WalkInvariant, PTL
=============================================================================
