----------------------------- MODULE SourceWalk -----------------------------
(***************************************************************************)
(* The workspace walks of ktsense-cli/src/main.rs: collect_source_files,   *)
(* which skips ignored directories and symlinks, the opt-in walk of the    *)
(* generated sources below build, and the test that judges a path the      *)
(* engine reports by the same rules.  The tree may lose nodes while it is  *)
(* being walked.                                                           *)
(*                                                                         *)
(* A path is a sequence of names from the root; a name stands for a class: *)
(* "build", "gen" (generated, generated-src), "skip" (every other ignored  *)
(* name), "dir" or "file" (any other).  A leaf is a Kotlin file.           *)
(***************************************************************************)
EXTENDS Naturals, Sequences, FiniteSets

CONSTANTS MaxDepth,   \* bound: names of a path
          Depth,      \* MAX_TRAVERSAL_DEPTH
          MaxLosses   \* bound: removals during the walk

WalkAssumption == {MaxDepth, Depth, MaxLosses} \subseteq Nat

DirName == {"build", "gen", "skip", "dir"}
Dirs == UNION {[1 .. n -> DirName] : n \in 1 .. MaxDepth}
Parent(p) == SubSeq(p, 1, Len(p) - 1)
Root == <<>>
Above(p) == {SubSeq(p, 1, n) : n \in 0 .. Len(p)}
Child(p, d) == p # Root /\ Parent(p) = d

VARIABLES tree,      \* the directories, each with its kind; every one holds one file
          lost,      \* directories removed since the walk began
          pending,   \* the stack of (directory, depth)
          listed,    \* children of the popped directory still to be examined
          found,     \* the directories whose file was kept
          outcome    \* "walking", "done" or "failed"
walkVars == <<tree, lost, pending, listed, found, outcome>>
-----------------------------------------------------------------------------
(* is_ignored_dir_name, is_inside_ignored_dir *)

Name(p) == p[Len(p)]
IsIgnoredName(n) == n \in {"build", "skip"}

\* Mutant: the exemption covers everything below a build directory.
IsInsideIgnoredDirLax(d) ==
  \E i \in DOMAIN d : IsIgnoredName(d[i]) /\ d[i] # "build"

\* The file in directory d, as the engine would report it.
IsInsideIgnoredDir(d) ==
  \E i \in DOMAIN d :
    /\ IsIgnoredName(d[i])
    /\ ~(d[i] = "build" /\ i < Len(d) /\ d[i + 1] = "gen")
-----------------------------------------------------------------------------
(* collect_source_files *)

\* Two branches of any shape, each ending in a directory or in a link to one.
TreesOf(p, q) ==
  {[d \in (Above(p) \cup Above(q)) \ {Root} |->
      IF d = p /\ d \notin Above(Parent(q)) THEN k ELSE IF d = q /\ d \notin Above(p) THEN l ELSE "real"] :
     k, l \in {"real", "link"}}
Trees == UNION {TreesOf(p, q) : p, q \in Dirs}

WalkInit ==
  /\ tree \in Trees
  /\ lost = {} /\ pending = <<[dir |-> Root, depth |-> 0]>>
  /\ listed = {} /\ found = {} /\ outcome = "walking"

Gone(d) == lost \cap Above(d) # {}

\* Pop and read_child_paths; a directory that vanished fails the whole walk.
ReadDirectory ==
  /\ outcome = "walking" /\ listed = {} /\ pending # <<>>
  /\ LET top == pending[Len(pending)]
     IN  IF Gone(top.dir)
         THEN outcome' = "failed" /\ UNCHANGED <<pending, listed, found>>
         ELSE /\ pending' = SubSeq(pending, 1, Len(pending) - 1)
              /\ listed' = {[dir |-> p, depth |-> top.depth] :
                              p \in {p \in DOMAIN tree : Child(p, top.dir) /\ ~Gone(p)}}
              /\ found' = found \cup {top.dir}
              /\ UNCHANGED outcome
  /\ UNCHANGED <<tree, lost>>

\* Mutant: a symbolic link to a directory is followed.
ExamineFollowing(c) ==
  /\ outcome = "walking" /\ c \in listed /\ listed' = listed \ {c}
  /\ IF Gone(c.dir)
     THEN outcome' = "failed" /\ UNCHANGED pending
     ELSE /\ pending' = IF c.depth < Depth /\ ~IsIgnoredName(Name(c.dir))
                        THEN Append(pending, [dir |-> c.dir, depth |-> c.depth + 1])
                        ELSE pending
          /\ UNCHANGED outcome
  /\ UNCHANGED <<tree, lost, found>>

\* symlink_metadata of one child: links are skipped, directories pushed.
Examine(c) ==
  /\ outcome = "walking" /\ c \in listed /\ listed' = listed \ {c}
  /\ IF Gone(c.dir)
     THEN outcome' = "failed" /\ UNCHANGED pending
     ELSE /\ pending' = IF tree[c.dir] = "real" /\ c.depth < Depth /\ ~IsIgnoredName(Name(c.dir))
                        THEN Append(pending, [dir |-> c.dir, depth |-> c.depth + 1])
                        ELSE pending
          /\ UNCHANGED outcome
  /\ UNCHANGED <<tree, lost, found>>

Finish ==
  /\ outcome = "walking" /\ pending = <<>> /\ listed = {}
  /\ outcome' = "done"
  /\ UNCHANGED <<tree, lost, pending, listed, found>>

\* Another process removes a directory while the walk runs.
Remove(p) ==
  /\ outcome = "walking" /\ Cardinality(lost) < MaxLosses /\ ~Gone(p)
  /\ lost' = lost \cup {p}
  /\ UNCHANGED <<tree, pending, listed, found, outcome>>

WalkNext ==
  \/ ReadDirectory \/ Finish
  \/ \E c \in listed : Examine(c)
  \/ \E p \in DOMAIN tree : Remove(p)

WalkSpec == WalkInit /\ [][WalkNext]_walkVars
-----------------------------------------------------------------------------
(* collect_generated_kotlin_files, collect_kotlin_under *)

\* The build directories the outer walk reaches: no ignored name above them.
OuterBuilds ==
  {p \in DOMAIN tree :
     /\ Name(p) = "build" /\ tree[p] = "real" /\ Len(p) <= Depth + 1
     /\ \A n \in 1 .. Len(p) - 1 : ~IsIgnoredName(p[n])}

\* Below build/generated nothing is pruned but links and depth; generated itself
\* is opened without asking whether it is a link.
GeneratedFiles ==
  {p \in DOMAIN tree :
     \E b \in OuterBuilds :
       /\ Len(p) > Len(b) /\ SubSeq(p, 1, Len(b)) = b /\ p[Len(b) + 1] = "gen"
       /\ Len(p) - Len(b) - 1 <= Depth
       /\ \A n \in Len(b) + 2 .. Len(p) : tree[SubSeq(p, 1, n)] = "real"}
-----------------------------------------------------------------------------
Reached(d) == \A q \in Above(d) \ {Root} : tree[q] = "real"

\* The walk and the judgement of engine paths draw one boundary: what the walk
\* collects is never judged ignored, and a completed walk has missed only what
\* lies behind a link, past the depth, was removed, is judged ignored or is
\* generated.  A source is then never reported twice, nor dropped by both.
OneBoundary ==
  /\ \A d \in found : ~IsInsideIgnoredDir(d)
  /\ outcome = "done" =>
       \A d \in DOMAIN tree \cup {Root} :
         Reached(d) /\ Len(d) <= Depth /\ ~Gone(d) /\ ~IsInsideIgnoredDir(d)
           => d \in found \/ d \in GeneratedFiles

\* No file is in both walks, and the source walk never follows a link, so no
\* source is counted twice.
EachFileOnce == found \cap GeneratedFiles = {} /\ \A d \in found : Reached(d)

\* collect_kotlin_files and is_inside_ignored_dir draw one boundary, and no source is
\* in both walks.
EachSourceOnce == OneBoundary /\ EachFileOnce
-----------------------------------------------------------------------------
(* What makes it inductive *)

WalkTypeOK ==
  /\ tree \in Trees /\ outcome \in {"walking", "done", "failed"}
  /\ pending \in Seq([dir : DOMAIN tree \cup {Root}, depth : Nat])
  /\ listed \subseteq [dir : DOMAIN tree, depth : Nat] /\ found \subseteq DOMAIN tree \cup {Root}

\* A directory the walk may open.
Opens(d) == Reached(d) /\ Len(d) <= Depth /\ \A i \in DOMAIN d : ~IsIgnoredName(d[i])

\* The walk has d, or a directory above it, still before it.
Ahead(d) ==
  \E q \in Above(d) : (\E i \in DOMAIN pending : pending[i].dir = q) \/ (\E c \in listed : c.dir = q)

\* The ignored name that ended the walk's way to d.
Pruned(d) ==
  \E i \in DOMAIN d : IsIgnoredName(d[i]) /\ \A n \in 1 .. i - 1 : ~IsIgnoredName(d[n])

\* What is open, listed or found was reached past no link and no ignored name, and
\* nothing reachable is lost on the way.
WalkIInv ==
  /\ WalkTypeOK
  /\ \A i \in DOMAIN pending : Opens(pending[i].dir) /\ pending[i].depth = Len(pending[i].dir)
  /\ \A c \in listed : Opens(Parent(c.dir)) /\ Len(c.dir) = c.depth + 1
  /\ \A d \in found : Opens(d)
  /\ outcome = "done" => pending = <<>> /\ listed = {}
  /\ outcome # "failed" =>
       \A d \in DOMAIN tree \cup {Root} :
         Reached(d) /\ Len(d) <= Depth /\ ~Gone(d) => d \in found \/ Ahead(d) \/ Pruned(d)
=============================================================================
