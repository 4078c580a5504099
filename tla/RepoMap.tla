------------------------------ MODULE RepoMap ------------------------------
(***************************************************************************)
(* The budgeted repository map (ktsense-core/src/repo_map.rs, the `map`    *)
(* command of ktsense-cli/src/main.rs, identifiers.rs): files in rank      *)
(* order, their signatures spent from a budget that the focus section      *)
(* draws on first, with room held back to say where omitted files live.    *)
(*                                                                         *)
(* Paths, directories and scores are numbers; a cost is in tokens.  A file *)
(* is [path, package, dir, test, readable, score, decls, uses, imports, hit] and a  *)
(* declaration [name, public, line, focus, full, compact].                 *)
(***************************************************************************)
EXTENDS Integers, Sequences, FiniteSets, SequencesExt, FiniteSetsExt, Functions

CONSTANTS Repositories, Requests, \* what `map` is asked of
          Fraction                \* OMISSION_SUMMARY_BUDGET_FRACTION
FractionAssumption == Fraction \in Nat \ {0}

VARIABLES repo, ask, focusSpent, focusShown, full, reserve, emitted, pc
mapVars == <<repo, ask, focusSpent, focusShown, full, reserve, emitted, pc>>

-----------------------------------------------------------------------------
(* repository_map: what is scanned and counted *)

\* Neither test sources nor files that cannot be read or parsed take part.
Production(fs) == {f \in fs : f.readable /\ ~f.test}

\* Mutant: references are counted over the test sources too.
CountedEverywhere(fs) == {f \in fs : f.readable}

\* count_identifiers reads the files that are mapped, tests left out.
Counted(fs) == Production(fs)

\* restrict_to_path over the parsed production files.
Scanned(fs, a) == {f \in Production(fs) : a.path => f.hit}

References(fs, name) == MapThenSumSet(LAMBDA f : Cardinality({u \in f.uses : u = name}), Counted(fs))
\* importer_counts: wildcard imports name nothing.
Importers(fs, a, f, d) == Cardinality({g \in Scanned(fs, a) : <<f.package, d.name>> \in g.imports})

WeightOf(fs, a, f, d) == <<References(fs, d.name), Importers(fs, a, f, d)>>
Heavier(v, w) == v[1] > w[1] \/ (v[1] = w[1] /\ v[2] > w[2])
FileWeight(fs, a, f) ==
  <<MapThenSumSet(LAMBDA i : References(fs, f.decls[i].name), DOMAIN f.decls),
    MapThenSumSet(LAMBDA i : Importers(fs, a, f, f.decls[i]), DOMAIN f.decls)>>

\* Package rank, then the file's weight, then its path.
Precedes(fs, a, f, g) ==
  \/ f.score > g.score
  \/ f.score = g.score /\ Heavier(FileWeight(fs, a, f), FileWeight(fs, a, g))
  \/ f.score = g.score /\ FileWeight(fs, a, f) = FileWeight(fs, a, g) /\ f.path < g.path
Ordered(fs, a) == SetToSortSeq(Scanned(fs, a), LAMBDA f, g : Precedes(fs, a, f, g))

\* signatures_in_reference_order: heaviest first, then by line; only public
\* declarations render.
Signatures(fs, a, f) ==
  SelectSeq(SetToSortSeq(Range(f.decls), LAMBDA c, d : \/ Heavier(WeightOf(fs, a, f, c), WeightOf(fs, a, f, d))
                                                       \/ WeightOf(fs, a, f, c) = WeightOf(fs, a, f, d)
                                                            /\ c.line < d.line),
            LAMBDA d : d.public)
MatchingSignatures(fs, a, f) == SelectSeq(Signatures(fs, a, f), LAMBDA d : d.focus)

Candidates(fs, a) == SelectSeq(Ordered(fs, a), LAMBDA f : Signatures(fs, a, f) # <<>>)
FocusFiles(fs, a) == SelectSeq(Ordered(fs, a), LAMBDA f : MatchingSignatures(fs, a, f) # <<>>)
Unmapped(fs, a) == {f \in Scanned(fs, a) : Signatures(fs, a, f) = <<>>}
-----------------------------------------------------------------------------
(* Units, and the prefix of them a budget pays for *)

HeaderCost == 2
UnitsOf(f, signatures, compact) ==
  <<[file |-> f.path, header |-> TRUE, cost |-> HeaderCost]>> \o
    [i \in 1..Len(signatures) |-> [file |-> f.path, header |-> FALSE,
                                   cost |-> IF compact THEN signatures[i].compact ELSE signatures[i].full]]
MapUnits(fs, a) == FlattenSeq([i \in DOMAIN Candidates(fs, a) |->
                     UnitsOf(Candidates(fs, a)[i], Signatures(fs, a, Candidates(fs, a)[i]), a.compact)])
FocusUnits(fs, a) == FlattenSeq([i \in DOMAIN FocusFiles(fs, a) |->
                       UnitsOf(FocusFiles(fs, a)[i], MatchingSignatures(fs, a, FocusFiles(fs, a)[i]), TRUE)])

Cost(units) == FoldLeft(LAMBDA sum, u : sum + u.cost, 0, units)
Emit(units, budget) ==
  SubSeq(units, 1, Max({n \in 0..Len(units) : \A k \in 0..n : Cost(SubSeq(units, 1, k)) <= budget}))

\* Mutant: a file whose heading alone was paid for is shown.
RegroupHeaders(units) == {u.file : u \in Range(units)}

\* regroup: a file with no signature is not shown.
Regroup(units) == {u.file : u \in {v \in Range(units) : ~v.header}}

OmittedFrom(fs, a, units) == {f \in Range(Candidates(fs, a)) : f.path \notin Regroup(units)}
-----------------------------------------------------------------------------
(* The omission summary *)

FilesIn(omitted, d) == Cardinality({f \in omitted : f.dir = d})
\* group_omitted: most files first, then path order.
GroupOmitted(omitted) ==
  SetToSortSeq({f.dir : f \in omitted}, LAMBDA c, d : \/ FilesIn(omitted, c) > FilesIn(omitted, d)
                                                      \/ FilesIn(omitted, c) = FilesIn(omitted, d) /\ c < d)

\* omitted_directories_line: "Omitted: a (n), b (m), and k more directories".
LineCost(directories, shown) ==
  IF directories = 0 \/ shown = 0 THEN 0 ELSE 3 + 3 * shown + (IF shown < directories THEN 5 ELSE 0)

\* Mutant: room for the summary is always held back.
SummaryReserveAlways(fs, a, units, budget) == budget \div Fraction

SummaryReserve(fs, a, units, budget) ==
  LET dropped == OmittedFrom(fs, a, units)
      dirs == Len(GroupOmitted(dropped))
      line == LineCost(dirs, dirs)
  IN IF dropped = {} THEN 0 ELSE IF line < budget \div Fraction THEN line ELSE budget \div Fraction

\* fit_directories: the most directories the room names.
FitDirectories(directories, room) ==
  Max({0} \cup {n \in 1..directories : LineCost(directories, n) <= room})
-----------------------------------------------------------------------------
MapInit ==
  /\ repo \in Repositories /\ ask \in Requests
  /\ focusSpent = 0
  /\ focusShown = <<>>
  /\ full = <<>>
  /\ reserve = 0
  /\ emitted = <<>>
  /\ pc = "focus"

\* build_focus_section claims the budget first; without --fill it is all.
BuildFocusSection ==
  /\ pc = "focus"
  /\ focusShown' = IF ask.focus THEN Emit(FocusUnits(repo, ask), ask.budget) ELSE <<>>
  /\ focusSpent' = Cost(focusShown')
  /\ pc' = IF ask.focus /\ ~ask.fill THEN "focus only" ELSE "full"
  /\ UNCHANGED <<repo, ask, full, reserve, emitted>>

\* Mutant: the focus section is not charged to the map.
MapBudgetWhole == ask.budget

MapBudget == ask.budget - focusSpent

EmitFull ==
  /\ pc = "full" /\ pc' = "reserve"
  /\ full' = Emit(MapUnits(repo, ask), MapBudget)
  /\ UNCHANGED <<repo, ask, focusSpent, focusShown, reserve, emitted>>

EmitReserved ==
  /\ pc = "reserve" /\ pc' = "mapped"
  /\ reserve' = SummaryReserve(repo, ask, full, MapBudget)
  /\ emitted' = IF reserve' = 0 THEN full ELSE Emit(MapUnits(repo, ask), MapBudget - reserve')
  /\ UNCHANGED <<repo, ask, focusSpent, focusShown, full>>

Mapped == pc \in {"mapped", "focus only"} /\ UNCHANGED mapVars

MapNext == BuildFocusSection \/ EmitFull \/ EmitReserved \/ Mapped
MapSpec == MapInit /\ [][MapNext]_mapVars
-----------------------------------------------------------------------------
(* The map as built and rendered *)

Shown == Regroup(emitted)
Omitted == OmittedFrom(repo, ask, emitted)
Directories == GroupOmitted(Omitted)
DirectoriesShown == FitDirectories(Len(Directories), MapBudget - Cost(emitted))
TokenUpperBound == focusSpent + Cost(emitted) + LineCost(Len(Directories), DirectoriesShown)

\* Mutant: files with no match shown are counted as not mapped.
OtherFilesShown == Len(Candidates(repo, ask)) - Cardinality(Regroup(focusShown))

\* focus_only_map: the files --fill would map besides those of the focus.
OtherFilesNotMapped == Len(Candidates(repo, ask)) - Len(FocusFiles(repo, ask))

-----------------------------------------------------------------------------
(* Properties *)

\* The focus section, the signatures and the omission summary together stay
\* within the budget, and no subtraction between the three falls below zero.
BoundWithinBudget ==
  pc = "mapped" => /\ MapBudget >= 0 /\ reserve <= MapBudget /\ Cost(emitted) <= MapBudget
                   /\ TokenUpperBound <= ask.budget

\* Every scanned file is shown with a signature, counted as omitted or
\* counted as without public declarations, once; the directories add up.
FilesAreAccounted ==
  pc = "mapped" =>
    /\ Cardinality(Shown) + Cardinality(Omitted) + Cardinality(Unmapped(repo, ask)) =
         Cardinality(Scanned(repo, ask))
    /\ \A p \in Shown : \E i \in DOMAIN emitted : emitted[i].file = p /\ ~emitted[i].header
    /\ MapThenSumSet(LAMBDA d : FilesIn(Omitted, d), Range(Directories)) = Cardinality(Omitted)

\* Room is held back only when something was dropped: a map that fits its
\* budget shows every signature.
NothingHeldBackNeedlessly ==
  pc = "mapped" /\ Cost(MapUnits(repo, ask)) <= MapBudget => emitted = MapUnits(repo, ask)

\* Test sources rank nothing: the map of a repository is that of its
\* production files alone.
TestsDoNotRank ==
  LET production == {f \in repo : ~f.test}
  IN pc = "focus" => MapUnits(repo, ask) = MapUnits(production, ask)

\* A focus without --fill divides the mappable files between those that have
\* a match, shown or cut by the budget, and the ones it says are not mapped.
FocusAccounts ==
  pc = "focus only" =>
    OtherFilesNotMapped = Cardinality({f \in Range(Candidates(repo, ask)) :
        MatchingSignatures(repo, ask, f) = <<>>})
=============================================================================
