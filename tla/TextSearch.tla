----------------------------- MODULE TextSearch -----------------------------
(***************************************************************************)
(* Text evidence: `grep`, and the sites listed for a name nothing declares *)
(* (ktsense-cli/src/grep.rs, text_refs.rs, ktsense-core/src/text_search.rs,*)
(* text_refs.rs, annotated.rs and their rendering).  Files are scanned one *)
(* by one, the Kotlin walk first, then generated sources, then Java; hits  *)
(* are filtered, grouped by file and declaration, and capped.              *)
(*                                                                         *)
(* A file is [path, java, walked, generated, test, under, readable,        *)
(* parses, shape, sites], its sites the lines that match; Owner[shape][l]  *)
(* is what encloses line l, None in the file header.                       *)
(***************************************************************************)
EXTENDS Integers, Sequences, FiniteSets, SequencesExt, FiniteSetsExt

CONSTANTS Trees,    \* sets of files
          Owner,    \* the declaration of a line
          Requests  \* [command, tests, under, kotlinOnly, limit]

NoLimit == -1
None == "none"

VARIABLES tree, ask, pending, hits, seen, pc,
          dropped,  \* sites the filter left out, of each language
          stated    \* how many of them the answer says it left out, in each format
searchVars == <<tree, ask, pending, hits, seen, dropped, pc, stated>>
-----------------------------------------------------------------------------
(* Which files and sites a request covers *)

\* TestFilter::includes and the path prefix, the same for both commands.
Includes(f) ==
  /\ ask.tests \in {"all", IF f.test THEN "only" ELSE "none"}
  /\ ask.under => f.under

InOrder(S) == SetToSortSeq(S, LAMBDA f, g : f.path < g.path)
Kotlin(t) == InOrder({f \in t : ~f.java /\ f.walked})
Java(t, a) == InOrder({f \in t : f.java /\ ~(a.command = "grep" /\ a.kotlinOnly)})

\* Mutant: generated sources are not read for an undeclared name.
WalkSourcesOnly(t, a) == Kotlin(t) \o Java(t, a)

\* grep reads the walk's files; the undeclared-name scan reads generated
\* sources as well.
Walk(t, a) ==
  Kotlin(t) \o (IF a.command = "grep" THEN <<>> ELSE InOrder({f \in t : f.generated})) \o Java(t, a)

SearchInit ==
  /\ tree \in Trees /\ ask \in Requests
  /\ pending = Walk(tree, ask) /\ hits = {} /\ seen = <<>> /\ pc = "scan"
  /\ dropped = [kotlin |-> 0, java |-> 0] /\ stated = [md |-> 0, json |-> 0]

Language(f) == IF f.java THEN "java" ELSE "kotlin"

\* One file: skipped if it was scanned or cannot be read.  `grep` leaves out
\* files the filter excludes; the other scan counts what it dropped.
ScanFile ==
  /\ pc = "scan" /\ pending # <<>>
  /\ LET f == Head(pending)
         fresh == f.readable /\ ~\E i \in DOMAIN seen : seen[i] = f
         sites == {[file |-> f, line |-> l] : l \in IF fresh THEN f.sites ELSE {}}
     IN /\ seen' = Append(seen, f)
        /\ hits' = IF Includes(f) THEN hits \cup sites ELSE hits
        /\ dropped' = IF Includes(f) \/ ask.command = "grep" THEN dropped
                      ELSE [dropped EXCEPT ![Language(f)] = @ + Cardinality(sites)]
  /\ pending' = Tail(pending) /\ UNCHANGED <<tree, ask, pc, stated>>

\* java_text_references: a Java section only where some Java site is left.
JavaSection == \E h \in hits : h.file.java

\* present: each heading of the Markdown states what its section left out,
\* and a section that is not printed states nothing; JSON's filter object
\* carries both counts whatever is printed.
Stated ==
  [md |-> dropped.kotlin + IF JavaSection THEN dropped.java ELSE 0,
   json |-> dropped.kotlin + dropped.java]

\* Mutant: the Kotlin heading states its count only where it lists a site.
FinishQuietly ==
  /\ pc = "scan" /\ pending = <<>> /\ pc' = "done"
  /\ stated' = [Stated EXCEPT !.md = IF \A h \in hits : h.file.java THEN @ - dropped.kotlin ELSE @]
  /\ UNCHANGED <<tree, ask, pending, hits, seen, dropped>>

\* not_found_outcome: the sections are built and presented.
Finish ==
  /\ pc = "scan" /\ pending = <<>> /\ pc' = "done" /\ stated' = Stated
  /\ UNCHANGED <<tree, ask, pending, hits, seen, dropped>>

Answered == pc = "done" /\ UNCHANGED searchVars
SearchNext == ScanFile \/ Finish \/ Answered
SearchSpec == SearchInit /\ [][SearchNext]_searchVars
-----------------------------------------------------------------------------
(* build_text_search, build_grouped *)

Files == {h.file : h \in hits}
InFile(f) == SetToSortSeq({h \in hits : h.file = f}, LAMBDA g, h : g.line < h.line)

\* Mutant: the cap keeps a file's last hits.
ShownLast(f) ==
  IF ask.limit = NoLimit \/ Len(InFile(f)) <= ask.limit THEN InFile(f)
  ELSE SubSeq(InFile(f), Len(InFile(f)) - ask.limit + 1, Len(InFile(f)))

Shown(f) ==
  IF ask.limit = NoLimit \/ Len(InFile(f)) <= ask.limit THEN InFile(f) ELSE SubSeq(InFile(f), 1, ask.limit)
Omitted(f) == Len(InFile(f)) - Len(Shown(f))

\* A Java line has its own scan's answer, a Kotlin line of a grep the
\* skeleton's; the undeclared-name listing attributes no Kotlin line.
Enclosing(f, line) == IF f.parses /\ (ask.command = "grep" \/ f.java) THEN Owner[f.shape][line] ELSE None

\* Consecutive hits of one declaration share a group.
GroupByDeclaration(f) ==
  FoldLeft(LAMBDA groups, h :
             IF groups # <<>> /\ groups[Len(groups)].fqn = Enclosing(f, h.line)
             THEN [groups EXCEPT ![Len(groups)].lines = Append(@, h.line)]
             ELSE Append(groups, [fqn |-> Enclosing(f, h.line), lines |-> <<h.line>>]), <<>>, Shown(f))

TotalHits == Cardinality(hits)
-----------------------------------------------------------------------------
(* Properties *)

Done == pc = "done"

\* The files whose sites a request speaks of: generated sources too when the
\* name is declared nowhere, unreadable files never.
Covered ==
  {f \in tree : f.readable /\ (f.generated => ask.command # "grep")
                /\ (ask.command = "grep" => Includes(f) /\ ~(f.java /\ ask.kotlinOnly))}
SitesOf(S) == MapThenSumSet(LAMBDA f : Cardinality(f.sites), S)

\* The Java files of which the Markdown says nothing at all: the filter
\* excludes every one that has a site, so no section is printed.
Unspoken ==
  LET java == {f \in Covered : f.java /\ f.sites # {}}
  IN IF \A f \in java : ~Includes(f) THEN java ELSE {}

\* Every matching site of the files a request covers is counted once, in the
\* answer or among what it states as left out.  The JSON answer keeps this
\* without exception; the Markdown, though every filtered heading is to state
\* what it left out, is silent on the Java sites when the filter leaves none
\* of them, and on nothing else.
SitesAreCountedOnce ==
  Done => /\ TotalHits + stated.json = SitesOf(Covered)
          /\ TotalHits + stated.md = SitesOf(Covered \ Unspoken)

\* The groups of a file are its first hits in line order, each line under
\* the declaration that encloses it; with the omitted ones they are all.
GroupsListTheFirstHits ==
  Done => \A f \in Files :
            LET groups == GroupByDeclaration(f)
                lines == FlattenSeq([g \in DOMAIN groups |-> groups[g].lines])
            IN /\ Len(lines) + Omitted(f) = Len(InFile(f))
               /\ lines = [i \in 1..Len(lines) |-> InFile(f)[i].line]
               /\ \A g \in DOMAIN groups : \A i \in DOMAIN groups[g].lines :
                    Enclosing(f, groups[g].lines[i]) = groups[g].fqn
=============================================================================
