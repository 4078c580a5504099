-------------------------- MODULE SupertypeClosure --------------------------
(***************************************************************************)
(* The subtypes of a Java class or interface, matched by simple name and   *)
(* closed breadth first (ktsense-core/src/implementors.rs,                 *)
(* ktsense-cli/src/implementors.rs).                                       *)
(*                                                                         *)
(* A type is [path, line, name, supers]; a type with no supertype clause   *)
(* is never reached.  The engine's line for the queried definition may     *)
(* differ from the line the source scan gives it (query.scanned).          *)
(***************************************************************************)
EXTENDS Integers, Sequences, FiniteSets

CONSTANTS Workspaces, \* sets of types
          Queries,    \* [path, line, name, java, kind]
          DEPTH_CAP

Place(t) == <<t.path, t.line>>

\* No two types are declared on one line.
ClosureAssumption ==
  /\ DEPTH_CAP \in Nat
  /\ \A w \in Workspaces : /\ IsFiniteSet(w)
                           /\ \A s \in w : s.path \in Nat /\ s.line \in Nat
                           /\ \A s, t \in w : Place(s) = Place(t) => s = t

VARIABLES types, query, queue, expanded, result, pc
closureVars == <<types, query, queue, expanded, result, pc>>

\* collect_type_nodes leaves out the definition, by its place.
Nodes == {t \in types : Place(t) # Place(query)}

\* A class or interface of a Java file has the listing, possibly empty.
HasListing(q) == q.java /\ q.kind \in {"class", "interface"}

ClosureInit ==
  /\ types \in Workspaces /\ query \in Queries
  /\ queue = <<>> /\ expanded = {} /\ result = <<>> /\ pc = "start"

Begin ==
  /\ pc = "start"
  /\ IF HasListing(query) THEN pc' = "walk" /\ queue' = <<[name |-> query.name, depth |-> 0]>>
     ELSE pc' = "no listing" /\ UNCHANGED queue
  /\ UNCHANGED <<types, query, expanded, result>>

Turn == Head(queue)

\* A parent past the depth cap, or already expanded, is skipped.
Skip ==
  /\ pc = "walk" /\ queue # <<>> /\ (Turn.depth >= DEPTH_CAP \/ Turn.name \in expanded)
  /\ queue' = Tail(queue) /\ UNCHANGED <<types, query, expanded, result, pc>>

Fresh(parent) == {t \in Nodes : parent \in t.supers /\ ~\E i \in DOMAIN result : result[i].place = Place(t)}
Precedes(p, q) == p[1] < q[1] \/ (p[1] = q[1] /\ p[2] < q[2])
\* By path and line; of the fresh children at one place only one is emitted.
Emitted(parent) ==
  LET places == {Place(t) : t \in Fresh(parent)}
      Rank(p) == Cardinality({q \in places : Precedes(q, p)}) + 1
  IN [k \in 1..Cardinality(places) |-> CHOOSE t \in Fresh(parent) : Rank(Place(t)) = k]

\* Mutant: the walk is depth first.
ExpandDepthFirst ==
  /\ pc = "walk" /\ queue # <<>> /\ Turn.depth < DEPTH_CAP /\ Turn.name \notin expanded
  /\ expanded' = expanded \cup {Turn.name}
  /\ LET parent == Turn.name
         new == Emitted(parent)
     IN /\ result' = result \o [i \in DOMAIN new |->
           [place |-> Place(new[i]), name |-> new[i].name, via |-> parent, depth |-> Turn.depth + 1]]
        /\ queue' = [i \in DOMAIN new |-> [name |-> new[i].name, depth |-> Turn.depth + 1]] \o Tail(queue)
  /\ UNCHANGED <<types, query, pc>>

\* Mutant: a child is queued two levels down, so the closure ends early.
ExpandShallow ==
  /\ pc = "walk" /\ queue # <<>> /\ Turn.depth < DEPTH_CAP /\ Turn.name \notin expanded
  /\ expanded' = expanded \cup {Turn.name}
  /\ LET parent == Turn.name
         new == Emitted(parent)
     IN /\ result' = result \o [i \in DOMAIN new |->
           [place |-> Place(new[i]), name |-> new[i].name, via |-> parent, depth |-> Turn.depth + 1]]
        /\ queue' = Tail(queue) \o [i \in DOMAIN new |-> [name |-> new[i].name, depth |-> Turn.depth + 2]]
  /\ UNCHANGED <<types, query, pc>>

\* The children of a parent, in path order, each queued one level down.
Expand ==
  /\ pc = "walk" /\ queue # <<>> /\ Turn.depth < DEPTH_CAP /\ Turn.name \notin expanded
  /\ expanded' = expanded \cup {Turn.name}
  /\ LET parent == Turn.name
         new == Emitted(parent)
     IN /\ result' = result \o [i \in DOMAIN new |->
           [place |-> Place(new[i]), name |-> new[i].name, via |-> parent, depth |-> Turn.depth + 1]]
        /\ queue' = Tail(queue) \o [i \in DOMAIN new |-> [name |-> new[i].name, depth |-> Turn.depth + 1]]
  /\ UNCHANGED <<types, query, pc>>

Finish ==
  /\ pc = "walk" /\ queue = <<>> /\ pc' = "listed"
  /\ UNCHANGED <<types, query, queue, expanded, result>>

Listed == pc \in {"listed", "no listing"} /\ UNCHANGED closureVars

ClosureNext == Begin \/ Skip \/ Expand \/ Finish \/ Listed
ClosureSpec == ClosureInit /\ [][ClosureNext]_closureVars
-----------------------------------------------------------------------------
(* Properties *)

\* The types within d levels of the query, by name alone.
Within[d \in Nat] ==
  IF d = 0 THEN {}
  ELSE {t \in Nodes : query.name \in t.supers \/ \E p \in Within[d - 1] : p.name \in t.supers}

\* The listing is the transitive subtypes within the depth cap, each once,
\* also where subtypes form a cycle or share a name.
SubtypesAreListed ==
  pc = "listed" => /\ {result[i].place : i \in DOMAIN result} = {Place(t) : t \in Within[DEPTH_CAP]}
                   /\ \A i, k \in DOMAIN result : result[i].place = result[k].place => i = k

\* A type is listed under the shallowest parent that reaches it, direct
\* subtypes first.
ShallowestParent ==
  \A i \in DOMAIN result :
    /\ \E t \in Within[result[i].depth] : Place(t) = result[i].place
    /\ ~\E t \in Within[result[i].depth - 1] : Place(t) = result[i].place
    /\ i > 1 => result[i - 1].depth <= result[i].depth
-----------------------------------------------------------------------------
(* The walk's invariant *)

\* The query's name and those of some types.
Names(q, T) == {q.name} \cup {t.name : t \in T}

\* A name is still to be expanded, at that depth.
Waiting(turns, name, d) == \E k \in DOMAIN turns : turns[k].name = name /\ turns[k].depth = d

\* The queue holds names of one level, then of the next.
LevelByLevel ==
  /\ pc = "walk" \/ queue = <<>>
  /\ \A k \in DOMAIN queue : queue[k].depth \in 0..DEPTH_CAP /\ queue[k].name \in Names(query, Within[queue[k].depth])
  /\ \A k, m \in DOMAIN queue : k < m => queue[m].depth \in queue[k].depth .. (queue[k].depth + 1)

\* A listed type is at its own level, and expanded, or waiting, or at the cap.
AtItsLevel ==
  \A i \in DOMAIN result :
    /\ result[i].depth \in 1..DEPTH_CAP
    /\ \E t \in Within[result[i].depth] \ Within[result[i].depth - 1] :
         /\ Place(t) = result[i].place
         /\ t.name \in expanded \/ result[i].depth = DEPTH_CAP \/ Waiting(queue, t.name, result[i].depth)

InOrderOnce ==
  /\ pc = "start" => result = <<>>
  /\ \A i, j \in DOMAIN result : i < j => /\ result[i].depth <= result[j].depth
                                          /\ result[i].place # result[j].place
  /\ \A i \in DOMAIN result, k \in DOMAIN queue : result[i].depth <= queue[k].depth + 1

\* The subtypes of an expanded name are listed.
Expanded ==
  /\ \A t \in Nodes : expanded \cap t.supers # {} => \E i \in DOMAIN result : result[i].place = Place(t)
  /\ pc \in {"walk", "listed"} => query.name \in expanded \/ DEPTH_CAP = 0 \/ Waiting(queue, query.name, 0)

ClosureIInv ==
  /\ types \in Workspaces
  /\ queue \in Seq({queue[k] : k \in DOMAIN queue}) /\ result \in Seq({result[i] : i \in DOMAIN result})
  /\ LevelByLevel /\ AtItsLevel /\ InOrderOnce /\ Expanded
=============================================================================
