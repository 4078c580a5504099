-------------------------- MODULE TraceResolution --------------------------
(***************************************************************************)
(* How `trace` and `context` find the declarations of a name               *)
(* (ktsense-cli/src/trace.rs, ktsense-daemon/src/symbols.rs).  A routed    *)
(* command waits for the warm index and asks it, then command-mode `find`  *)
(* when it cannot answer; an in-process command asks `find` first and, if  *)
(* that is empty, a fresh session's index.  Meanwhile the engine indexes,  *)
(* may stop, caps its response, and answers with fuzzy and foreign names;  *)
(* a `find` without rg on the PATH finds nothing.                          *)
(***************************************************************************)
EXTENDS Naturals, FiniteSets

CONSTANTS Declared,   \* entries an engine may report: [id, named, inRoot, ignored]
          WorkspaceSymbolCap

CapAssumption == WorkspaceSymbolCap \in Nat \ {0}

VARIABLES source,     \* the entries the workspace really holds
          routed,     \* answered by a daemon's warm session
          rg,         \* whether `find` has a search tool to run
          wait,       \* IndexWaitPolicy: "capped" or "until ready"
          indexed,    \* what the engine's index holds so far
          phase,      \* the phase last observed: "building" or "ready"
          closed,     \* the progress stream has ended
          pc, completeness, asked, candidates, outcome
resVars == <<source, routed, rg, wait, indexed, phase, closed, pc, completeness, asked, candidates, outcome>>
engineVars == <<indexed, phase, closed>>
askVars == <<source, routed, rg, wait>>

Named(entries) == {e \in entries : e.named /\ e.inRoot}
Visible(entries) == {e \in entries : ~e.ignored}

ResInit ==
  /\ source \in SUBSET Declared
  /\ routed \in BOOLEAN /\ rg \in BOOLEAN /\ wait \in {"capped", "until ready"}
  /\ indexed = {} /\ phase = "building" /\ closed = FALSE
  /\ pc = IF routed THEN "wait" ELSE "find"
  /\ completeness = "unknown" /\ asked = "never" /\ candidates = {} /\ outcome = "none"
-----------------------------------------------------------------------------
(* The engine *)

IndexSome ==
  /\ ~closed /\ phase = "building"
  /\ \E more \in SUBSET (source \ indexed) :
       /\ indexed' = indexed \cup more
       /\ phase' = IF indexed' = source THEN "ready" ELSE "building"
  /\ <<indexed', phase'>> # <<indexed, phase>>
  /\ UNCHANGED <<askVars, closed, pc, completeness, asked, candidates, outcome>>

StreamEnds ==
  /\ ~closed /\ closed' = TRUE
  /\ UNCHANGED <<askVars, indexed, phase, pc, completeness, asked, candidates, outcome>>

\* A workspace/symbol response stops at the cap, wherever that falls.
Responses ==
  IF Cardinality(indexed) < WorkspaceSymbolCap THEN {indexed}
  ELSE {r \in SUBSET indexed : Cardinality(r) = WorkspaceSymbolCap}
-----------------------------------------------------------------------------
(* await_warm_index and wait_for_index: ready, closed, or out of time *)

\* Mutant: a stream that ends early is not noticed.
AwaitReadyOnly ==
  /\ pc = "wait"
  /\ \/ phase = "ready" /\ completeness' = "complete"
     \/ phase # "ready" /\ completeness' = (IF wait = "capped" THEN "partial" ELSE "unknown")
  /\ pc' = IF completeness' = "unknown" THEN "wait" ELSE "ask index"
  /\ UNCHANGED <<askVars, engineVars, asked, candidates, outcome>>

AwaitIndex ==
  /\ pc = "wait"
  /\ \/ phase = "ready" /\ completeness' = "complete"
     \/ /\ phase # "ready" /\ (closed \/ wait = "capped")
        /\ completeness' = "partial"
  /\ pc' = "ask index"
  /\ UNCHANGED <<askVars, engineVars, asked, candidates, outcome>>

\* Mutant: a response of exactly the cap is taken for the whole list.
ClassifyPastCap(response) ==
  IF Cardinality(response) > WorkspaceSymbolCap THEN [said |-> "truncated", found |-> {}]
  ELSE IF Named(response) = {} THEN [said |-> "unindexed", found |-> {}]
  ELSE [said |-> "declarations", found |-> Named(response)]

\* classify and declarations_in_root
Classify(response) ==
  IF Cardinality(response) >= WorkspaceSymbolCap THEN [said |-> "truncated", found |-> {}]
  ELSE IF Named(response) = {} THEN [said |-> "unindexed", found |-> {}]
  ELSE [said |-> "declarations", found |-> Named(response)]

\* resolve_from_warm_index: a dead session fails the request.
WarmResolution ==
  IF closed THEN {[said |-> "failed", found |-> {}]} ELSE {Classify(r) : r \in Responses}

\* declarations_from_index: an index short of complete is not asked.  Where
\* it cannot answer, a routed command goes on to `find`; a fresh one, which
\* has been there, is left with no candidates.
AskIndex ==
  /\ pc = "ask index"
  /\ \E w \in (IF completeness = "complete" THEN WarmResolution ELSE {[said |-> "partial", found |-> {}]}) :
       /\ asked' = w.said /\ candidates' = w.found
       /\ pc' = IF w.said # "declarations" /\ routed THEN "find" ELSE "select"
  /\ UNCHANGED <<askVars, engineVars, completeness, outcome>>

\* Mutant: an empty `find` is taken for an answer on the fresh path too.
FindOnly ==
  /\ pc = "find"
  /\ candidates' = (IF rg THEN Named(source) ELSE {})
  /\ pc' = "select"
  /\ UNCHANGED <<askVars, engineVars, completeness, asked, outcome>>

\* found_by_command_mode, resolve_in_process, resolved_against_a_fresh_index
Find ==
  /\ pc = "find"
  /\ candidates' = (IF rg THEN Named(source) ELSE {})
  /\ pc' = IF candidates' = {} /\ ~routed THEN "wait" ELSE "select"
  /\ UNCHANGED <<askVars, engineVars, completeness, asked, outcome>>

\* `find` itself fails: the command does.
FindFails ==
  /\ pc = "find" /\ pc' = "done" /\ outcome' = "failure"
  /\ UNCHANGED <<askVars, engineVars, completeness, asked, candidates>>

\* select_candidate: entries inside ignored directories are set aside; one
\* declaration is traced, several are listed.
SelectCandidate ==
  /\ pc = "select" /\ pc' = "done"
  /\ outcome' = CASE Visible(candidates) = {} -> "not found"
                  [] Cardinality(Visible(candidates)) = 1 -> "traced"
                  [] OTHER -> "ambiguous"
  /\ UNCHANGED <<askVars, engineVars, completeness, asked, candidates>>

Done == pc = "done" /\ UNCHANGED resVars

CommandStep == AwaitIndex \/ AskIndex \/ Find \/ SelectCandidate
ResNext == IndexSome \/ StreamEnds \/ AwaitIndex \/ AskIndex \/ Find \/ FindFails \/ SelectCandidate \/ Done
ResSpec == ResInit /\ [][ResNext]_resVars /\ WF_resVars(CommandStep) /\ WF_resVars(IndexSome)
-----------------------------------------------------------------------------
(* Properties *)

\* Whichever path answered, the candidates a choice is made from are all the
\* declarations of the name under the root: a truncated response or a
\* half-built index never turns an ambiguous name into a unique one.
NeverASubset == pc = "select" /\ candidates # {} => candidates = Named(source)

\* A name that is declared is reported absent only where `find` had no tool
\* to search with and, besides, a second resolver that could not answer.
AbsenceIsExcused ==
  outcome = "not found" /\ Visible(Named(source)) # {} =>
    /\ ~rg
    /\ asked \in {"partial", "failed", "truncated"}

\* resolve_candidates: a choice is made among all declarations of a name, and a
\* declared name is called absent only for want of a search tool.
ResolutionIsWhole == NeverASubset /\ AbsenceIsExcused

\* What makes it inductive.  An index called complete is the whole source; a
\* resolver left behind without an answer had its excuse, or nothing to find; and
\* so has a choice made from nothing.
Excused == asked \in {"partial", "failed", "truncated"}
IndexIsSource ==
  /\ phase = "ready" => indexed = source
  /\ pc = "ask index" /\ completeness = "complete" => phase = "ready"
LeftBehind ==
  /\ routed /\ pc = "find" => Excused \/ Named(source) = {}
  /\ ~routed /\ pc \in {"wait", "ask index"} => ~rg \/ Named(source) = {}
Choice == pc = "select" => candidates = Named(source) \/ (candidates = {} /\ ~rg /\ Excused)
ResIInv ==
  /\ routed \in BOOLEAN /\ (outcome # "none" => pc = "done")
  /\ IndexIsSource /\ LeftBehind /\ Choice /\ AbsenceIsExcused

\* Every command ends, with --wait-index too: the index becomes ready or the
\* stream ends.
Resolved == pc = "done"
=============================================================================
