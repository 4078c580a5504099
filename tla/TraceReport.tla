---------------------------- MODULE TraceReport ----------------------------
(***************************************************************************)
(* The answer of `trace` (ktsense-core/src/references.rs, trace.rs,        *)
(* filter.rs, the session of ktsense-cli/src/trace.rs and the counts its   *)
(* rendering prints): reference sites attributed to the declarations that  *)
(* enclose them, callers followed level by level, sites grouped by file    *)
(* and capped, everything narrowed by --path and --tests, and every        *)
(* omission counted.                                                       *)
(*                                                                         *)
(* A file is a number, in path order.  A skeleton is the preorder list of  *)
(* its declarations, each with its line and the index of its parent (0 at  *)
(* the top level); a file that cannot be read or parsed has no skeleton.   *)
(***************************************************************************)
EXTENDS Integers, Sequences, FiniteSets, SequencesExt, FiniteSetsExt

CONSTANTS Skeleton,    \* [file -> skeleton, or NoSkeleton]
          TestFile, IgnoredFile, PartialFile, \* sets of files
          Definition,  \* the site of the traced declaration
          Final,       \* whether Kotlin makes it final
          SitePool, ImplPool,  \* sites the engine may report for it
          CallPool,    \* reference lists it may report for a caller
          FilterPool, LimitPool, Depth

NoSkeleton == <<>>
NoLimit == 99
EndOfFile == 99

VARIABLES refs, impls, calls, filter, limit, \* the engine's answers, the flags
          pc, report, frontier, ignored
traceVars == <<refs, impls, calls, filter, limit, pc, report, frontier, ignored>>
inputVars == <<refs, impls, calls, filter, limit>>
-----------------------------------------------------------------------------
(* references.rs: spans and enclosure *)

Siblings(sk, p) == {i \in 1..Len(sk) : sk[i].parent = p}

\* span_end: up to the next sibling, else to the parent's end.
SpanEnd(sk) ==
  LET end[i \in 1..Len(sk)] ==
        LET later == {j \in Siblings(sk, sk[i].parent) : j > i}
        IN IF later # {} THEN sk[Min(later)].line - 1
           ELSE IF sk[i].parent = 0 THEN EndOfFile ELSE end[sk[i].parent]
  IN end

\* Mutant: a declaration still spans the line its next sibling starts on.
SpansClosed(sk, i, line) == sk[i].line <= line /\ line <= SpanEnd(sk)[i] + 1

Spans(sk, i, line) == sk[i].line <= line /\ line <= SpanEnd(sk)[i]

\* enclosing_chain, from the first sibling that spans the line inward; its
\* innermost member, 0 for none.
Enclosing(sk, line) ==
  LET inner[p \in 0..Len(sk)] ==
        LET spanning == {i \in Siblings(sk, p) : Spans(sk, i, line)}
        IN IF spanning = {} THEN p ELSE inner[Min(spanning)]
  IN inner[0]

StartsAt(sk, line) == LET i == Enclosing(sk, line) IN i # 0 /\ sk[i].line = line

InHeader(site) == LET sk == Skeleton[site.path]
                  IN sk # NoSkeleton /\ site.line < Min({sk[i].line : i \in 1..Len(sk)})
IsTestSource(path) == path \in TestFile

\* SiteFilter::matches: a path prefix, when one is given, and the test scope.
Matches(f, path) ==
  /\ f.files = {} \/ path \in f.files
  /\ CASE f.tests = "tests" -> IsTestSource(path) [] f.tests = "production" -> ~IsTestSource(path)
       [] OTHER -> TRUE

SameSite(a, b) == a.path = b.path /\ a.line = b.line
IsCode(site) == site.kind = "code"
-----------------------------------------------------------------------------
(* trace.rs: callers *)

\* SkeletonIndex::resolve, or the site itself where nothing encloses it.
Owner(site) ==
  LET sk == Skeleton[site.path] i == IF sk = NoSkeleton THEN 0 ELSE Enclosing(sk, site.line)
  IN [path |-> site.path, test |-> IsTestSource(site.path), resolved |-> i # 0,
      line |-> IF i = 0 THEN site.line ELSE sk[i].line]

CallerLess(a, b) ==
  LET key(c) == <<IF c.test THEN 1 ELSE 0, c.path, c.line>>
  IN \E k \in 1..3 : key(a)[k] < key(b)[k] /\ \A j \in 1..(k - 1) : key(a)[j] = key(b)[j]

\* Mutant: sites nothing encloses are folded onto their file.
RelatedFolded(sites) ==
  LET owners == {[Owner(s) EXCEPT !.line = IF Owner(s).resolved THEN @ ELSE 0] : s \in sites}
      count(o) == IF o.resolved THEN Cardinality({s \in sites : Owner(s) = o}) ELSE 1
  IN SetToSortSeq({[path |-> o.path, line |-> o.line, test |-> o.test, resolved |-> o.resolved,
                    sites |-> count(o)] : o \in owners}, CallerLess)

\* related_declarations: one entry per declaration with its site count,
\* production first.
Related(sites) ==
  LET owners == {Owner(s) : s \in sites}
      entry(o) == [path |-> o.path, line |-> o.line, test |-> o.test, resolved |-> o.resolved,
                   sites |-> Cardinality({s \in sites : Owner(s) = o})]
  IN SetToSortSeq({entry(o) : o \in owners}, CallerLess)

CallersOf(sites, setAside) ==
  Related({s \in sites : IsCode(s) /\ ~\E a \in setAside : SameSite(a, s)})

ImplementationsOther == {s \in impls : s.path \notin IgnoredFile /\ ~SameSite(s, Definition)}

\* cannot_be_subtyped: judged from the modifiers of a fully parsed file.
CannotBeSubtyped ==
  /\ Final /\ Definition.path \notin PartialFile
  /\ Skeleton[Definition.path] # NoSkeleton /\ StartsAt(Skeleton[Definition.path], Definition.line)

Implementors == IF CannotBeSubtyped THEN <<>> ELSE Related(ImplementationsOther)
SetAside == {Definition} \cup ImplementationsOther
-----------------------------------------------------------------------------
(* group_references and the counts of the Usages heading *)

\* Mutant: what the cap drops is counted before the headers are.
CappedReferencesEarly(sites) ==
  LET listed == {s \in sites : ~InHeader(s)}
      shown == IF Cardinality(listed) > limit THEN limit ELSE Cardinality(listed)
  IN [shown |-> shown, omitted |-> IF Cardinality(listed) > limit THEN Cardinality(sites) - shown ELSE 0]

\* capped_references: header sites are left out, the rest capped.
CappedReferences(sites) ==
  LET listed == Cardinality({s \in sites : ~InHeader(s)})
  IN [shown |-> IF listed > limit THEN limit ELSE listed,
      omitted |-> IF listed > limit THEN listed - limit ELSE 0]

Listable(sites) == {s \in sites : IsCode(s) \/ SameSite(s, Definition)}

GroupReferences(sites) ==
  [p \in {s.path : s \in sites} |-> CappedReferences({s \in sites : s.path = p})]

Total(groups, field) == MapThenSumSet(LAMBDA p : groups[p][field], DOMAIN groups)

\* omitted_sites_line: the headers' share is what the other reasons leave.
Minus(a, b) == IF a < b THEN 0 ELSE a - b
OmittedSites(sites, groups) ==
  LET excluded == sites \ Listable(sites)
      notListed == Minus(Cardinality(sites), Total(groups, "shown"))
      mentions == Cardinality({s \in excluded : s.kind = "text"})
      others == Cardinality({s \in excluded : s.kind = "declaration"})
      byLimit == Total(groups, "omitted")
  IN [headers |-> Minus(Minus(Minus(notListed, byLimit), mentions), others),
      limit |-> byLimit, mentions |-> mentions, others |-> others]
-----------------------------------------------------------------------------
(* The session *)

\* Session::sites: sites in ignored directories are counted and set aside.
Seen(sites) == {s \in sites : s.path \notin IgnoredFile}
IgnoredAmong(sites) == Cardinality(sites) - Cardinality(Seen(sites))

Level(callers, dropped) ==
  [callers |-> callers,
   production |-> Len(SelectSeq(dropped, LAMBDA c : ~c.test)),
   test |-> Len(SelectSeq(dropped, LAMBDA c : c.test))]

TraceInit ==
  /\ refs \in SUBSET SitePool /\ impls \in SUBSET ImplPool /\ calls \in CallPool
  /\ filter \in FilterPool /\ limit \in LimitPool
  /\ pc = "ask" /\ frontier = <<>> /\ ignored = 0
  /\ report = [levels |-> <<>>, implementors |-> <<>>, sites |-> {}, usages |-> <<>>, dropped |-> {}]

\* Mutant: the filter's omissions are counted in sites, not in callers.
DroppedSiteCount(sites) == [i \in 1..Cardinality(sites) |-> [test |-> FALSE]]

DroppedCallers(sites) == CallersOf(sites, SetAside)

\* Session::run up to build_trace; a failed request fails the command.
BuildTrace ==
  /\ pc = "ask"
  /\ LET kept == {s \in Seen(refs) : Matches(filter, s.path)}
         dropped == Seen(refs) \ kept
         direct == CallersOf(kept, SetAside)
     IN /\ report' = [levels |-> <<Level(direct, DroppedCallers(dropped))>>, implementors |-> Implementors,
                      sites |-> kept, usages |-> GroupReferences(Listable(kept)), dropped |-> dropped]
        /\ frontier' = direct
  /\ ignored' = IgnoredAmong(impls) + IgnoredAmong(refs)
  /\ pc' = "deepen"
  /\ UNCHANGED inputVars

\* What the engine reports for a caller, when its name is found on its line.
ReferencesTo(caller) ==
  IF caller.resolved /\ <<caller.path, caller.line>> \in DOMAIN calls
  THEN calls[<<caller.path, caller.line>>] ELSE {}

CallersOfOne(caller) == CallersOf(Seen(ReferencesTo(caller)), {[path |-> caller.path, line |-> caller.line]})

\* dedup_by drops an entry at the same place as the one before it.
Dedup(seq) == SelectSeq(Zip(seq, <<[path |-> -1, line |-> -1]>> \o seq),
                        LAMBDA pair : ~SameSite(pair[1], pair[2]))

\* Mutant: the callers of several callers are not sorted before the dedup.
CallersOfEachUnsorted(callers) ==
  LET kept == Dedup(FlattenSeq([i \in 1..Len(callers) |-> CallersOfOne(callers[i])]))
  IN [i \in 1..Len(kept) |-> kept[i][1]]

CallersOfEach(callers) ==
  LET kept == Dedup(SortSeq(FlattenSeq([i \in 1..Len(callers) |-> CallersOfOne(callers[i])]), CallerLess))
  IN [i \in 1..Len(kept) |-> kept[i][1]]

\* One more level of --depth: callers_of_each, filter_callers.
Deepen ==
  /\ pc = "deepen" /\ Len(report.levels) < Depth /\ frontier # <<>>
  /\ LET next == CallersOfEach(frontier)
         kept == SelectSeq(next, LAMBDA c : Matches(filter, c.path))
         dropped == SelectSeq(next, LAMBDA c : ~Matches(filter, c.path))
     IN /\ frontier' = kept
        /\ report' = [report EXCEPT !.levels = Append(@, Level(kept, dropped))]
  /\ ignored' = ignored + MapThenSumSet(LAMBDA i : IgnoredAmong(ReferencesTo(frontier[i])), 1..Len(frontier))
  /\ UNCHANGED <<inputVars, pc>>

\* No caller is left to ask about, or --depth is reached: the report is
\* complete.
Finish ==
  /\ pc = "deepen" /\ (Len(report.levels) = Depth \/ frontier = <<>>) /\ pc' = "answered"
  /\ UNCHANGED <<inputVars, report, frontier, ignored>>

EngineFails ==
  /\ pc \in {"ask", "deepen"} /\ pc' = "failed"
  /\ UNCHANGED <<inputVars, report, frontier, ignored>>

Over == pc \in {"answered", "failed"} /\ UNCHANGED traceVars

TraceNext == BuildTrace \/ Deepen \/ Finish \/ EngineFails \/ Over
TraceSpec == TraceInit /\ [][TraceNext]_traceVars
-----------------------------------------------------------------------------
(* Properties *)

Answered == pc = "answered"

\* The declaration a site is attributed to is the last one, in source order,
\* that starts at or above its line, whatever the nesting: spans recovered
\* from start lines alone never attribute a site to a neighbour.
InnermostIsLatest ==
  \A s \in refs :
    LET sk == Skeleton[s.path] above == {i \in 1..Len(sk) : sk[i].line <= s.line}
    IN Enclosing(sk, s.line) = IF above = {} THEN 0 ELSE Max(above)

\* The site counts of the direct callers add up to the code sites that are
\* neither the definition nor an implementation: no site is lost or counted
\* for two callers (related_declarations).
CallersAccountForSites ==
  Answered =>
    MapThenSumSet(LAMBDA i : report.levels[1].callers[i].sites, 1..Len(report.levels[1].callers))
      = Cardinality({s \in report.sites : IsCode(s) /\ ~\E a \in SetAside : SameSite(a, s)})

\* The Usages heading is the rows listed plus the reasons stated, and the
\* number of header sites, found by subtraction, is the true one.
UsagesAddUp ==
  Answered =>
    LET o == OmittedSites(report.sites, report.usages)
    IN /\ Cardinality(report.sites) = Total(report.usages, "shown") + o.headers + o.limit + o.mentions + o.others
       /\ o.headers = Cardinality({s \in Listable(report.sites) : InHeader(s)})

\* A filter only moves callers from the lists to the counts: per level and
\* source set, listed plus omitted is what the unfiltered level holds.
FilterLosesNoCaller ==
  Answered =>
    \A k \in 1..Len(report.levels) :
      LET all == IF k = 1 THEN CallersOf(Seen(refs), SetAside)
              ELSE CallersOfEach(report.levels[k - 1].callers)
          level == report.levels[k]
          count(seq, t) == Cardinality({i \in 1..Len(seq) : seq[i].test = t})
      IN /\ count(all, FALSE) = count(level.callers, FALSE) + level.production
         /\ count(all, TRUE) = count(level.callers, TRUE) + level.test

\* Each level lists the declarations that refer to some caller of the level
\* before, each once, production before tests, cycles included.
LevelsAreCallers ==
  Answered /\ ~filter.on =>
    \A k \in 2..Len(report.levels) :
      LET before == Range(report.levels[k - 1].callers) now == report.levels[k].callers
          place(c) == [path |-> c.path, line |-> c.line]
      IN /\ Cardinality({place(c) : c \in Range(now)}) = Len(now)
         /\ {place(c) : c \in Range(now)} =
              UNION {{place(Owner(s)) : s \in {r \in Seen(ReferencesTo(b)) :
                  IsCode(r) /\ ~SameSite(r, b)}} : b \in before}
         /\ \A i, j \in 1..Len(now) : i < j /\ now[i].test => now[j].test
=============================================================================
