-------------------------- MODULE DependencyGraph --------------------------
(***************************************************************************)
(* The import graph and the two algorithms that read it: Tarjan's strongly *)
(* connected components on an explicit stack (`deps` reports the cycles)   *)
(* and PageRank (`map` orders files by it).  Translated from               *)
(* ktsense-core/src/imports.rs, scc.rs and rank.rs.                        *)
(*                                                                         *)
(* Paths and packages are numbers, ordered as their strings are.  Scores   *)
(* are exact: integers over the common denominator `unit`.                 *)
(***************************************************************************)
EXTENDS Integers, Sequences, FiniteSets, SequencesExt, FiniteSetsExt

CONSTANTS Corpora, \* sets of parsed files
          Rounds   \* PageRank iterations (the code runs 30)

\* A corpus is finite and holds each path once.
DepAssumption ==
  /\ Rounds \in Nat
  /\ \A fs \in Corpora : IsFiniteSet(fs) /\ \A f, g \in fs : f.path = g.path => f = g

NoPackage == 0
Wildcard == "*"
Unvisited == -1

VARIABLES files, level, edges, external, ids,       \* the graph
          discovery, lowlink, stack, calls, counter, \* Tarjan
          components, scores, unit, round, pc
depVars == <<files, level, edges, external, ids, discovery, lowlink, stack, calls, counter, components,
    scores, unit, round, pc>>
tarjanVars == <<discovery, lowlink, stack, calls, counter, components>>
graphVars == <<files, level, edges, external, ids>>
-----------------------------------------------------------------------------
(* WorkspaceIndex and build_import_graph.  A file is a path, a package, the *)
(* top-level names it declares and its imports, each a package and a name. *)

Packages(fs) == {f.package : f \in fs} \ {NoPackage}
Declaring(fs, package, name) == {f \in fs : f.package = package /\ name \in f.names}

\* resolve: a wildcard needs the package alone, a name its declaration there.
Internal(fs, import) ==
  /\ import.package \in Packages(fs)
  /\ import.name = Wildcard \/ Declaring(fs, import.package, import.name) # {}

\* Mutant: a wildcard reaches only the files that declare something.
TargetsDeclared(fs, import, lv) ==
  IF lv = "package" THEN {import.package}
  ELSE {f.path : f \in {g \in fs :
         /\ g.package = import.package
         /\ import.name = Wildcard => g.names # {}
         /\ import.name # Wildcard => import.name \in g.names}}

\* The nodes an internal import points to.
Targets(fs, import, lv) ==
  IF lv = "package" THEN {import.package}
  ELSE IF import.name = Wildcard THEN {f.path : f \in {g \in fs : g.package = import.package}}
  ELSE {f.path : f \in Declaring(fs, import.package, import.name)}

NodeOf(f, lv) == IF lv = "package" THEN f.package ELSE f.path
Nodes(fs, lv) == {NodeOf(f, lv) : f \in {g \in fs : g.package # NoPackage}}

\* No edge from a node to itself; files without a package take no part.
EdgesOf(fs, lv) ==
  {e \in Nodes(fs, lv) \X Nodes(fs, lv) :
     e[1] # e[2] /\ \E f \in fs : /\ f.package # NoPackage /\ NodeOf(f, lv) = e[1]
                                  /\ \E i \in f.imports : Internal(fs, i) /\ e[2] \in Targets(fs, i, lv)}
ExternalOf(fs, lv) ==
  UNION {{<<NodeOf(f, lv), i>> : i \in {j \in f.imports : ~Internal(fs, j)}} :
      f \in {g \in fs : g.package # NoPackage}}

Ends(es) == {e[1] : e \in es} \cup {e[2] : e \in es}
EdgeLess(e, f) == e[1] < f[1] \/ (e[1] = f[1] /\ e[2] < f[2])
\* m is met before n in the sorted edges, the source of an edge first.
MetBefore(es, m, n) ==
  \E e \in es : /\ m \in {e[1], e[2]}
                /\ \A f \in es : n \in {f[1], f[2]} => EdgeLess(e, f) \/ (e = f /\ m = e[1])

\* Graph::from_edges interns the end points in the order the sorted edges meet them.
Intern(es) ==
  {order \in [1..Cardinality(Ends(es)) -> Ends(es)] :
     \A i, j \in DOMAIN order : i < j => order[i] # order[j] /\ MetBefore(es, order[i], order[j])}

Node == 1..Len(ids)
\* A node's targets; the code's list of them is sorted and has each once.
Adjacency(n) == {t \in Node : <<ids[n], ids[t]>> \in edges}
-----------------------------------------------------------------------------
(* PageRank *)

Damping == 17 \* of 20
Degree(n) == Cardinality({e \in edges : e[1] = ids[n]})
DegreeLcm == LET d == {Degree(n) : n \in 1..Len(ids)} \ {0}
             IN IF d = {} THEN 1 ELSE Min({k \in 1..ProductSet(d) : \A x \in d : k % x = 0})
\* What one round multiplies the denominator by.
Step == 20 * Len(ids) * DegreeLcm

\* The sum of a function's values.
Total(f) == MapThenSumSet(LAMBDA n : f[n], DOMAIN f)

Dangling == Total([n \in 1..Len(ids) |-> IF Degree(n) = 0 THEN scores[n] ELSE 0])

\* Mutant: the rank of nodes without outgoing edges is dropped.
RankStepLeaking(t) ==
  (20 - Damping) * DegreeLcm * unit
    + Total([n \in 1..Len(ids) |-> IF <<ids[n], ids[t]>> \in edges
                                   THEN Damping * Len(ids) * (DegreeLcm \div Degree(n)) * scores[n] ELSE 0])

\* Mutant: rank flows from the imported package to its importers.
RankStepReversed(t) ==
  (20 - Damping) * DegreeLcm * unit + Damping * DegreeLcm * Dangling
    + Total([n \in 1..Len(ids) |-> IF <<ids[t], ids[n]>> \in edges THEN Damping * DegreeLcm * scores[n] ELSE 0])

\* The next score of node t: the floor, and a share from each importer.
RankStep(t) ==
  (20 - Damping) * DegreeLcm * unit + Damping * DegreeLcm * Dangling
    + Total([n \in 1..Len(ids) |-> IF <<ids[n], ids[t]>> \in edges
                                   THEN Damping * Len(ids) * (DegreeLcm \div Degree(n)) * scores[n] ELSE 0])
-----------------------------------------------------------------------------
DepInit ==
  /\ files \in Corpora /\ level \in {"file", "package"}
  /\ edges = {} /\ external = {} /\ ids = <<>>
  /\ discovery = <<>>
  /\ lowlink = <<>>
  /\ stack = <<>>
  /\ calls = <<>>
  /\ counter = 0
  /\ components = {}
  /\ scores = <<>> /\ unit = 0 /\ round = 0 /\ pc = "build"

Build ==
  /\ pc = "build" /\ pc' = "walk"
  /\ edges' = EdgesOf(files, level) /\ external' = ExternalOf(files, level)
  /\ ids' \in Intern(edges')
  /\ discovery' = [n \in DOMAIN ids' |-> Unvisited]
  /\ lowlink' = [n \in DOMAIN ids' |-> 0]
  /\ scores' = [n \in DOMAIN ids' |-> 1] /\ unit' = Len(ids') \* each 1/n
  /\ UNCHANGED <<files, level, stack, calls, counter, components, round>>

Enter(n, frames) ==
  /\ discovery' = [discovery EXCEPT ![n] = counter]
  /\ lowlink' = [lowlink EXCEPT ![n] = counter]
  /\ counter' = counter + 1 /\ stack' = Append(stack, n)
  /\ calls' = Append(frames, <<n, Adjacency(n)>>)
  /\ UNCHANGED components

\* run: the next node no walk has reached.
Start ==
  /\ pc = "walk" /\ calls = <<>>
  /\ \E n \in Node : discovery[n] = Unvisited /\ (\A k \in 1..(n - 1) : discovery[k] # Unvisited)
       /\ Enter(n, <<>>)
  /\ UNCHANGED <<graphVars, scores, unit, round, pc>>

Top == calls[Len(calls)]
Lower(a, b) == IF a < b THEN a ELSE b

\* Mutant: an edge to a finished component lowers the link too.
LookAlways ==
  /\ pc = "walk" /\ calls # <<>>
  /\ \E child \in Top[2] :
       /\ \A other \in Top[2] : child <= other
       /\ LET node == Top[1]
              frames == [calls EXCEPT ![Len(calls)] = <<node, Top[2] \ {child}>>]
          IN IF discovery[child] = Unvisited THEN Enter(child, frames)
             ELSE /\ calls' = frames
                  /\ lowlink' = [lowlink EXCEPT ![node] = Lower(lowlink[node], discovery[child])]
                  /\ UNCHANGED <<discovery, counter, stack, components>>
  /\ UNCHANGED <<graphVars, scores, unit, round, pc>>

\* walk: the next child of the node on top.
Look ==
  /\ pc = "walk" /\ calls # <<>>
  /\ \E child \in Top[2] :
       /\ \A other \in Top[2] : child <= other
       /\ LET node == Top[1]
              frames == [calls EXCEPT ![Len(calls)] = <<node, Top[2] \ {child}>>]
          IN IF discovery[child] = Unvisited THEN Enter(child, frames)
             ELSE /\ calls' = frames
                  /\ lowlink' = IF \E i \in DOMAIN stack : stack[i] = child
                                THEN [lowlink EXCEPT ![node] = Lower(lowlink[node], discovery[child])] ELSE lowlink
                  /\ UNCHANGED <<discovery, counter, stack, components>>
  /\ UNCHANGED <<graphVars, scores, unit, round, pc>>

\* Mutant: a node's link is not handed to its parent.
ReturnUnlinked ==
  /\ pc = "walk" /\ calls # <<>> /\ Top[2] = {}
  /\ LET node == Top[1]
         at == CHOOSE i \in DOMAIN stack : stack[i] = node
     IN IF lowlink[node] = discovery[node]
        THEN /\ components' = components \cup {{ids[stack[i]] : i \in at..Len(stack)}}
             /\ stack' = SubSeq(stack, 1, at - 1)
        ELSE UNCHANGED <<components, stack>>
  /\ calls' = Front(calls)
  /\ UNCHANGED <<graphVars, discovery, lowlink, counter, scores, unit, round, pc>>

\* Every child seen: close the component whose root this is, and return.
Return ==
  /\ pc = "walk" /\ calls # <<>> /\ Top[2] = {}
  /\ LET node == Top[1]
         at == CHOOSE i \in DOMAIN stack : stack[i] = node
         below == Front(calls)
     IN /\ IF lowlink[node] = discovery[node]
           THEN /\ components' = components \cup {{ids[stack[i]] : i \in at..Len(stack)}}
                /\ stack' = SubSeq(stack, 1, at - 1)
           ELSE UNCHANGED <<components, stack>>
        /\ calls' = below
        /\ lowlink' = IF below = <<>> THEN lowlink
                      ELSE LET parent == below[Len(below)][1]
                           IN [lowlink EXCEPT ![parent] = Lower(lowlink[parent], lowlink[node])]
  /\ UNCHANGED <<graphVars, discovery, counter, scores, unit, round, pc>>

Walked ==
  /\ pc = "walk" /\ calls = <<>> /\ \A n \in 1..Len(ids) : discovery[n] # Unvisited
  /\ pc' = "rank"
  /\ UNCHANGED <<graphVars, tarjanVars, scores, unit, round>>

\* page_rank ranks packages only; an empty graph has no ranks.
Rank ==
  /\ pc = "rank" /\ level = "package" /\ round < Rounds
  /\ scores' = [t \in 1..Len(ids) |-> RankStep(t)] /\ unit' = Step * unit /\ round' = round + 1
  /\ UNCHANGED <<graphVars, tarjanVars, pc>>

Ranked ==
  /\ pc = "rank" /\ (level = "package" => round = Rounds)
  /\ UNCHANGED depVars

DepNext == Build \/ Start \/ Look \/ Return \/ Walked \/ Rank \/ Ranked
DepSpec == DepInit /\ [][DepNext]_depVars

\* cycles: components of more than one node; an edge never joins a node to itself.
Cycles == {c \in components : Cardinality(c) > 1}
-----------------------------------------------------------------------------
(* Properties *)

\* b is in every set that holds a and what its members import.
Reach(a, b) ==
  \A T \in SUBSET Node : a \in T /\ (\A n \in T : Adjacency(n) \subseteq T) => b \in T
Mutual(n) == {k \in Node : Reach(n, k) /\ Reach(k, n)}
Named(nodes) == {ids[n] : n \in nodes}

\* The components `deps` reports are exactly the classes of nodes that reach
\* one another, whatever order the walk visited them in; so the cycles are
\* all the import cycles and no other: a node is on one exactly when one of
\* its imports leads back to it.
ComponentsAreMutual ==
  pc = "rank" =>
    /\ components = {Named(Mutual(n)) : n \in Node}
    /\ UNION Cycles = Named({n \in Node : \E m \in Adjacency(n) : Reach(m, n)})

\* While walking, the nodes entered and in no finished component are those
\* on the component stack, and a frame's link points into that stack.
StackHoldsOpenNodes ==
  pc = "walk" =>
    /\ Named({n \in Node : discovery[n] # Unvisited}) \ UNION components = Named({stack[i] : i \in DOMAIN stack})
    /\ \A i \in DOMAIN stack : \E k \in 1..i : discovery[stack[k]] = lowlink[stack[i]]

\* The package graph is the file graph seen by package: an edge between two
\* packages is there exactly when some file of one imports a file of the other.
LevelsAgree ==
  pc = "rank" /\ level = "file" =>
    EdgesOf(files, "package") =
      {p \in Packages(files) \X Packages(files) :
         p[1] # p[2] /\ \E f, g \in files : f.package = p[1] /\ g.package = p[2]
             /\ <<f.path, g.path>> \in edges}

\* No rank is lost or made: each round's scores sum to one, whether or not
\* some package imports nothing.
MassIsConserved ==
  pc = "rank" /\ ids # <<>> => Total(scores) = unit

\* A package imported by all that import another, and by more, ranks higher.
ImportedMoreRanksHigher ==
  pc = "rank" /\ round > 0 =>
    \A a, b \in 1..Len(ids) :
      LET in(t) == {n \in 1..Len(ids) : <<ids[n], ids[t]>> \in edges}
      IN in(a) \subseteq in(b) /\ in(a) # in(b) => scores[a] < scores[b]

\* deps: the components are the classes of mutual reachability, found through a stack
\* of open nodes, and both levels show the same imports.
GraphIsTheImports == ComponentsAreMutual /\ StackHoldsOpenNodes /\ LevelsAgree

\* page_rank loses no rank and orders nodes by who imports them.
RanksFollowImports == MassIsConserved /\ ImportedMoreRanksHigher
=============================================================================
