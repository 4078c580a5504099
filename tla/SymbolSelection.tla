-------------------------- MODULE SymbolSelection --------------------------
(***************************************************************************)
(* From a name to declarations: ktsense-core/src/pick.rs, symbol_search.rs *)
(* and ktsense-cli/src/symbols.rs.  An agent asks `symbols`, or `trace`    *)
(* (whose selection `context` shares), gets an answer or an ambiguity with *)
(* a --pick hint, and then asks again: the same question, or the question  *)
(* with the hint.  The engine returns its locations in any order, its      *)
(* lines may disagree with the parser's, files may be unreadable, and it   *)
(* sees ignored directories but not generated sources.                     *)
(*                                                                         *)
(* A name segment is a natural number, ordered as the strings are; a       *)
(* fully-qualified name is a sequence of segments; line and column are one *)
(* position.  Rendering is abstracted to the rows an answer lists, how     *)
(* many it hides, its exit and its hint.                                   *)
(***************************************************************************)
EXTENDS Naturals, Sequences, FiniteSets, SequencesExt

CONSTANTS Pool,       \* declarations a workspace may hold
          Query,      \* what may be asked: sequences of segments
          MaxDecls,   \* bound: declarations of one workspace
          Holds(_, _), \* whether a name contains the queried text
          Begins(_, _),   \* whether it begins with it
          Width(_),   \* the length of a name
          DefaultContainsLimit

NoLimit == 99
None == <<>>

VARIABLES ws,      \* the workspace: a subset of Pool
          drift,   \* declarations whose engine line the parser disagrees with
          ask,     \* the question under way
          order,   \* the engine's answer to it, in the order it came
          answer,  \* what was printed, or NoReply
          first    \* the first question's answer, once a second is asked
selVars == <<ws, drift, ask, order, answer, first>>
-----------------------------------------------------------------------------
(* pick.rs *)

\* is_dot_suffix: whole trailing segments of the name.
IsDotSuffix(fqn, suffix) == IsSuffix(suffix, fqn)

PositionsOf(pick, fqns) == {i \in 1..Len(fqns) : IsDotSuffix(fqns[i], pick)}

\* Mutant: an exact name has no precedence over a suffix.
MatchPickSuffix(pick, fqns) ==
  LET matched == PositionsOf(pick, fqns)
  IN CASE matched = {} -> [kind |-> "missed", at |-> {}]
       [] Cardinality(matched) = 1 -> [kind |-> "selected", at |-> matched]
       [] OTHER -> [kind |-> "ambiguous", at |-> matched]

\* match_pick: the first exact name wins; else a suffix, if it is unique.
MatchPick(pick, fqns) ==
  LET exact == {i \in 1..Len(fqns) : fqns[i] = pick}
      matched == PositionsOf(pick, fqns)
  IN CASE exact # {} -> [kind |-> "selected", at |-> {CHOOSE i \in exact : \A j \in exact : i <= j}]
       [] exact = {} /\ matched = {} -> [kind |-> "missed", at |-> {}]
       [] exact = {} /\ Cardinality(matched) = 1 -> [kind |-> "selected", at |-> matched]
       [] OTHER -> [kind |-> "ambiguous", at |-> matched]

\* shortest_unique_suffix, growing from the last segment.
ShortestUniqueSuffix(target, fqns) ==
  LET Tail_(start) == SubSeq(target, start, Len(target))
      unique == {s \in 1..Len(target) : Cardinality(PositionsOf(Tail_(s), fqns)) = 1}
  IN IF unique = {} THEN target ELSE Tail_(CHOOSE s \in unique : \A t \in unique : t <= s)
-----------------------------------------------------------------------------
(* Declarations and their enrichment.  A pool entry is the declaration as  *)
(* the source has it: path (package and enclosing names), name, kind, file,*)
(* line, language, the directory it is in and whether its file is readable *)

Fqn(path, name) == Append(path, name)

\* SymbolCandidate: what `find` says of a declaration.
Candidate(d) ==
  [name |-> d.name, file |-> d.file, line |-> IF d \in drift THEN d.line + 1 ELSE d.line, decl |-> d]

\* locate and walk: the same name at the same line, else the first of the
\* name in the file (declarations are read in the order of their lines).
Locate(c) ==
  LET named == {d \in ws : d.file = c.file /\ d.name = c.name}
      exact == {d \in named : d.line = c.line}
  IN IF exact # {} THEN CHOOSE d \in exact : TRUE
     ELSE CHOOSE d \in named : \A e \in named : d.line <= e.line

Bare(c) == [fqn |-> <<c.name>>, kind |-> "symbol", file |-> c.file, line |-> c.line, decl |-> c.decl,
    lang |-> c.decl.lang]

\* enrich, enrich_java, local_declaration.
Enrich(c) ==
  IF ~c.decl.readable THEN Bare(c)
  ELSE LET found == Locate(c)
       IN [fqn |-> Fqn(found.path, found.name), kind |-> found.kind, file |-> c.file,
           line |-> c.line, decl |-> c.decl, lang |-> c.decl.lang]

\* fold_java_constructors: a type hides its own constructor.
JavaType(r) == r.lang = "java" /\ r.kind = "class"
FoldJavaConstructors(rows) ==
  SelectSeq(rows, LAMBDA r :
    ~(/\ r.lang = "java" /\ r.kind = "constructor"
      /\ \E i \in 1..Len(rows) : JavaType(rows[i]) /\ rows[i].file = r.file
           /\ Last(rows[i].fqn) = Last(r.fqn)))

LexLess(s, t) ==
  \/ IsStrictPrefix(s, t)
  \/ \E k \in 1..Len(s) : /\ k <= Len(t) /\ s[k] < t[k]
                          /\ \A j \in 1..(k - 1) : s[j] = t[j]

RowLess(a, b) == LexLess(a.fqn, b.fqn) \/ (a.fqn = b.fqn /\ LexLess(<<a.file, a.line>>, <<b.file, b.line>>))

Enriched(candidates) == [i \in 1..Len(candidates) |-> Enrich(candidates[i])]

\* Mutant: the rows stay in the engine's order.
EnrichUnsorted(candidates) == FoldJavaConstructors(Enriched(candidates))

EnrichSorted(candidates) == SortSeq(FoldJavaConstructors(Enriched(candidates)), RowLess)

FqnsOf(rows) == [i \in 1..Len(rows) |-> rows[i].fqn]
RetainIndices(rows, at) == LET keep == SetToSortSeq(at, <) IN [i \in 1..Len(keep) |-> rows[keep[i]]]
-----------------------------------------------------------------------------
(* Answers *)

Reply(exit, rows, hidden, hint) == [exit |-> exit, rows |-> rows, hidden |-> hidden, hint |-> hint]
NoReply == Reply("none", <<>>, 0, None)
NotFound == Reply("not found", <<>>, 0, None)
PickMissed == Reply("failure", <<>>, 0, None)
One(row) == Reply("success", <<row>>, 0, None)

AmbiguityHint(rows) == ShortestUniqueSuffix(rows[1].fqn, FqnsOf(rows))

Shown(limit, total) == IF limit < total THEN limit ELSE total
Truncated(exit, rows, limit, hint) ==
  Reply(exit, SubSeq(rows, 1, Shown(limit, Len(rows))), Len(rows) - Shown(limit, Len(rows)), hint)

RenderAmbiguousSelection(rows) == Reply("ambiguous", rows, 0, AmbiguityHint(rows))

\* PickFilter::for_query: an explicit pick, else a dotted query by itself.
FilterFor(q) == IF q.pick # None THEN [kind |-> "explicit", value |-> q.pick]
                ELSE IF Len(q.query) > 1 THEN [kind |-> "dotted", value |-> q.query]
                ELSE [kind |-> "none", value |-> None]

\* select_by_pick and pick_present: what a miss means is the caller's.
ByPick(rows, filter) ==
  LET m == MatchPick(filter.value, FqnsOf(rows))
  IN CASE m.kind = "selected" -> One(rows[CHOOSE i \in m.at : TRUE])
       [] m.kind = "ambiguous" -> RenderAmbiguousSelection(RetainIndices(rows, m.at))
       [] OTHER -> IF filter.kind = "explicit" THEN PickMissed ELSE NotFound

\* select, for trace and context.
Select(q, candidates) ==
  LET rows == EnrichSorted(candidates) filter == FilterFor(q)
  IN CASE filter.kind # "none" -> ByPick(rows, filter)
       [] filter.kind = "none" /\ Len(rows) = 0 -> NotFound
       [] filter.kind = "none" /\ Len(rows) = 1 -> One(rows[1])
       [] OTHER -> RenderAmbiguousSelection(rows)

OfKind(rows, kind) == IF kind = "any" THEN rows ELSE SelectSeq(rows, LAMBDA r : r.kind = kind)

\* Mutant: the listing is cut before it is counted.
PresentSymbolsCut(q, candidates) ==
  LET all == OfKind(EnrichSorted(candidates), q.kind)
      rows == SubSeq(all, 1, Shown(q.limit, Len(all)))
      filter == FilterFor(q)
  IN CASE filter.kind # "none" -> ByPick(all, filter)
       [] filter.kind = "none" /\ Len(rows) = 0 -> NotFound
       [] filter.kind = "none" /\ Len(rows) = 1 -> One(rows[1])
       [] OTHER -> Reply("ambiguous", rows, 0, AmbiguityHint(rows))

\* present_symbols; the limit cuts the listing, never the count.
PresentSymbols(q, candidates) ==
  LET rows == OfKind(EnrichSorted(candidates), q.kind) filter == FilterFor(q)
  IN CASE filter.kind # "none" -> ByPick(rows, filter)
       [] filter.kind = "none" /\ Len(rows) = 0 -> NotFound
       [] filter.kind = "none" /\ Len(rows) = 1 -> One(rows[1])
       [] OTHER -> Truncated("ambiguous", rows, q.limit, AmbiguityHint(rows))
-----------------------------------------------------------------------------
(* The syntax index: sources and generated sources, ignored directories    *)
(* left out, unreadable files dropped                                      *)

SyntaxIndex == {d \in ws : d.readable /\ d.lang = "kotlin" /\ d.place # "ignored"}

AsRow(d) == [fqn |-> Fqn(d.path, d.name), kind |-> d.kind, file |-> d.file, line |-> d.line, decl |-> d,
    lang |-> d.lang]

ListLimit(q) == IF q.limit = NoLimit THEN DefaultContainsLimit ELSE q.limit
Listing(rows, q) ==
  LET kept == OfKind(rows, q.kind)
  IN IF kept = <<>> THEN NotFound ELSE Truncated("success", kept, ListLimit(q), None)

\* present_exact_from_syntax_index
ExactFromIndex(q) ==
  Listing(SetToSortSeq({AsRow(d) : d \in {e \in SyntaxIndex : e.name = Last(q.query)}}, RowLess), q)

\* contained_declarations: exact, then prefix, then shorter, then by name.
ContainmentTier(query, name) == IF name = query THEN 0 ELSE IF Begins(name, query) THEN 1 ELSE 2
RankLess(query, a, b) ==
  LET key(r) == <<ContainmentTier(query, r.decl.name), Width(r.decl.name)>>
  IN LexLess(key(a), key(b)) \/ (key(a) = key(b) /\ RowLess(a, b))

\* Mutant: the listing is ordered by name alone.
ContainedByName(q) ==
  SetToSortSeq({AsRow(d) : d \in {e \in SyntaxIndex : Holds(e.name, Last(q.query))}}, RowLess)

ContainedDeclarations(q) ==
  SetToSortSeq({AsRow(d) : d \in {e \in SyntaxIndex : Holds(e.name, Last(q.query))}},
               LAMBDA a, b : RankLess(Last(q.query), a, b))
-----------------------------------------------------------------------------
(* The commands *)

Visible(seq) == SelectSeq(seq, LAMBDA c : c.decl.place # "ignored")

\* run: the symbols command, and trace's selection.
Outcome(q) ==
  LET candidates == Visible(order)
  IN CASE q.command = "contains" -> Listing(ContainedDeclarations(q), q)
       [] q.command = "trace" -> Select(q, candidates)
       [] q.command = "symbols" /\ candidates = <<>> /\ FilterFor(q).kind = "none" -> ExactFromIndex(q)
       [] OTHER -> PresentSymbols(q, candidates)

\* run_symbols: `find` for the last segment; generated sources are not seen.
Found(q) == {Candidate(d) : d \in {e \in ws : e.name = Last(q.query) /\ e.place # "generated"}}
EngineAnswers(q) == SetToSeqs(Found(q))

Question ==
  {[command |-> c, query |-> s, pick |-> None, kind |-> k, limit |-> l] :
     c \in {"symbols", "trace", "contains"}, s \in Query, k \in {"any", "fun"}, l \in {NoLimit, 1}}

SelInit ==
  /\ ws \in {w \in SUBSET Pool : Cardinality(w) \in 1..MaxDecls}
  /\ drift \in {{}} \cup {{d} : d \in ws}
  /\ ask \in {q \in Question : /\ q.command = "trace" => q.kind = "any" /\ q.limit = NoLimit
                               /\ q.command = "contains" => Len(q.query) = 1}
  /\ order \in EngineAnswers(ask)
  /\ answer = NoReply /\ first = NoReply

Answer == answer = NoReply /\ answer' = Outcome(ask) /\ UNCHANGED <<ws, drift, ask, order, first>>

AskAgain(q) ==
  /\ answer # NoReply /\ first = NoReply
  /\ first' = answer /\ answer' = NoReply /\ ask' = q
  /\ order' \in EngineAnswers(q)
  /\ UNCHANGED <<ws, drift>>

Repeat == AskAgain(ask)
FollowHint == answer.hint # None /\ AskAgain([ask EXCEPT !.pick = answer.hint])
Rest == answer # NoReply /\ first # NoReply /\ UNCHANGED selVars

SelNext == Answer \/ Repeat \/ FollowHint \/ Rest
SelSpec == SelInit /\ [][SelNext]_selVars
-----------------------------------------------------------------------------
(* Properties *)

Replied == answer # NoReply /\ first # NoReply

\* Rerunning with the --pick an ambiguity printed is answered, and with the
\* declaration its listing put first (ambiguity_hint, match_pick): an agent
\* never loops, whatever bare, nested or duplicated names are listed.
HintNamesTheFirst ==
  Replied /\ ask.pick # None => answer = One(first.rows[1])

\* A question asked twice is answered with the same bytes though the engine
\* orders its locations differently (enrich_sorted, KT-81).
AnswersReproduce == Replied /\ ask.pick = None => answer = first

\* A bare name answered without ambiguity through the engine names the only
\* visible declaration of it, of the kind asked for, a Java constructor
\* counting as its class: no row is silently left out of the decision.
NeverSilentlyOne ==
  answer.exit = "success" /\ ask.command # "contains" /\ FilterFor(ask).kind = "none"
      /\ Visible(order) # <<>> =>
    LET rows == Range(Enriched(Visible(order)))
        counted == {r \in rows :
                      /\ ask.kind = "any" \/ r.kind = ask.kind
                      /\ ~(r.lang = "java" /\ r.kind = "constructor"
                           /\ \E t \in rows : JavaType(t) /\ t.file = r.file)}
    IN Range(answer.rows) = counted /\ Cardinality(counted) = 1

\* What a truncated --contains listing hides is never a better match than
\* what it shows, and shown and hidden add up (contained_declarations).
HidesOnlyWorse ==
  answer.exit = "success" /\ ask.command = "contains" =>
    LET q == Last(ask.query)
        all == {AsRow(d) : d \in {e \in SyntaxIndex :
            Holds(e.name, q) /\ (ask.kind = "any" \/ e.kind = ask.kind)}}
    IN /\ Len(answer.rows) + answer.hidden = Cardinality(all)
       /\ \A s \in Range(answer.rows), h \in all \ Range(answer.rows) :
            <<ContainmentTier(q, h.decl.name), Width(h.decl.name)>> =
                <<ContainmentTier(q, s.decl.name), Width(s.decl.name)>>
              \/ LexLess(<<ContainmentTier(q, s.decl.name), Width(s.decl.name)>>,
                         <<ContainmentTier(q, h.decl.name), Width(h.decl.name)>>)
=============================================================================
