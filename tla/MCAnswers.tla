------------------------------ MODULE MCAnswers -----------------------------
(***************************************************************************)
(* The suite of the answers: the reports built from what the engine and    *)
(* the parser found (trace, context, map, deps, symbols), and the calls    *)
(* and the index of the MCP server around them.                            *)
(***************************************************************************)
EXTENDS DependencyGraph, AnswerIndex, TLC, Slots

-----------------------------------------------------------------------------
(* A trace over five files: two of production code, one with nested and    *)
(* one-line declarations, a test file, an ignored copy and one without a   *)
(* skeleton.                                                               *)

Declares(line, parent) == [line |-> line, parent |-> parent]
Site(path, line, col, kind) == [path |-> path, line |-> line, col |-> col, kind |-> kind]
Code(path, line, col) == Site(path, line, col, "code")
Skeletons == <<
  <<Declares(3, 0), Declares(5, 0), Declares(6, 2), Declares(7, 2), Declares(7, 2)>>,
  <<Declares(2, 0), Declares(2, 1), Declares(4, 0)>>,
  <<Declares(2, 0), Declares(3, 1)>>,
  <<Declares(1, 0)>>,
  <<>>>>
Traced == Site(1, 3, 5, "declaration")
Sites == {Traced, Site(2, 4, 9, "text"), Code(1, 1, 1), Code(1, 6, 9), Code(1, 7, 9), Code(2, 4, 4),
          Code(3, 4, 2), Code(4, 1, 1), Code(5, 8, 1), Code(5, 9, 1)}

\* Who refers to the caller at 1:6, at 1:7 and at 3:3.
CallLists ==
  {(<<1, 6>> :> {Code(2, 2, 8), Code(3, 3, 8), Code(1, 6, 2)}) @@ (<<1, 7>> :> b)
     @@ (<<3, 3>> :> {Code(1, 6, 8), Code(1, 7, 3)}) :
     b \in {{}, {Code(2, 3, 8), Code(3, 4, 8), Code(4, 1, 8)}}}
Filter(paths, tests, on) == [files |-> paths, tests |-> tests, on |-> on]
Filters == {Filter({}, "any", FALSE), Filter({}, "tests", TRUE), Filter({}, "production", TRUE),
            Filter({1}, "any", TRUE)}

Trace == INSTANCE TraceReport WITH
  refs <- s1, impls <- s2, calls <- s3, filter <- s4, limit <- s5, pc <- s6, report <- s7,
  frontier <- s8, ignored <- s9,
  Skeleton <- Skeletons, TestFile <- {3}, IgnoredFile <- {4}, PartialFile <- {}, Definition <- Traced,
  Final <- FALSE, SitePool <- Sites, ImplPool <- {Code(2, 4, 1)}, CallPool <- CallLists,
  FilterPool <- Filters, LimitPool <- {1, 99}, Depth <- 3

-----------------------------------------------------------------------------
(* A bundle about a three-line declaration in a file that may have shrunk, *)
(* matched or whole, with few or many callers.                             *)

Only(source, outline, callers, implementors) ==
  [source |-> source, outline |-> outline, callers |-> callers, implementors |-> implementors]
Bundles ==
  {[sections |-> s, signed |-> TRUE, located |-> l, start |-> 2, spanEnd |-> e, total |-> t,
    width |-> <<18, 0, 4>>, matched |-> m.on, hits |-> m.hits, around |-> m.around, blocks |-> 2,
    production |-> c[1], test |-> c[2], annotated |-> x, java |-> x, kotlin |-> x, implementors |-> 1,
    budget |-> b] :
      s \in {Only(TRUE, TRUE, TRUE, TRUE), Only(FALSE, FALSE, TRUE, FALSE), Only(TRUE, FALSE, FALSE, TRUE)},
      l \in BOOLEAN, e \in {0, 4}, t \in {1, 3, 4, 6},
      m \in {[on |-> FALSE, hits |-> {}, around |-> 0]} \cup
            {[on |-> TRUE, hits |-> h, around |-> a] : h \in {{}, {1}, {1, 3}, {3}, {1, 2}}, a \in {0, 1}},
      c \in {<<0, 0>>, <<1, 1>>, <<3, 2>>}, x \in {0, 1}, b \in {0, 6, 11, 17, 40, 99}}

Context == INSTANCE ContextBundle WITH
  req <- s1, offered <- s2, next <- s3, bound <- s4, pc <- s5,
  Request <- Bundles, CallerCap <- 2, TestCallerCap <- 1

-----------------------------------------------------------------------------
(* Four files in three directories: one may be a test, one may be          *)
(* unreadable and one may declare nothing public; ranks and uses vary.     *)

Decl(name, line, public, focus, cost) ==
  [name |-> name, line |-> line, public |-> public, focus |-> focus, full |-> cost, compact |-> 1]
File(path, dir, score, test, readable, decls, uses, imports) ==
  [path |-> path, dir |-> dir, package |-> dir, score |-> score, test |-> test, readable |-> readable,
   decls |-> decls, uses |-> uses, imports |-> imports, hit |-> dir # 3]
MappedRepositories ==
  {{File(1, 1, 0, FALSE, TRUE, <<Decl("A", 1, TRUE, TRUE, 4), Decl("B", 2, TRUE, f, 3)>>, {"A"}, {}),
    File(2, 2, s, FALSE, r, <<Decl("C", 1, TRUE, FALSE, 2)>>, {}, {<<1, "B">>}),
    File(3, 3, s, t, TRUE, <<Decl("D", 1, TRUE, f, 5)>>, u, {<<2, "C">>}),
    File(4, 1, 1, FALSE, TRUE, <<Decl("E", 1, p, FALSE, 1)>>, {}, {})} :
     s \in 0..1, r, t, f, p \in BOOLEAN, u \in SUBSET {"B", "C"}}
MapRequests ==
  {a \in [budget : {0, 2, 5, 8, 11, 14, 40}, compact : BOOLEAN, focus : BOOLEAN, fill : BOOLEAN,
          path : BOOLEAN] : (a.fill => a.focus) /\ (a.path => a.compact)}

Map == INSTANCE RepoMap WITH
  repo <- s1, ask <- s2, focusSpent <- s3, focusShown <- s4, full <- s5, reserve <- s6, emitted <- s7,
  pc <- s8, Repositories <- MappedRepositories, Requests <- MapRequests, Fraction <- 4

-----------------------------------------------------------------------------
(* Every import relation between four files of four packages in which a    *)
(* file imports up to two others; and three files that share packages,     *)
(* declare a name twice or nothing, and import up to two names of another  *)
(* package, of all of it, or from outside.                                 *)

By(package, name) == [package |-> package, name |-> name]
FourFiles ==
  {{[path |-> p, package |-> p, names |-> {"A"}, imports |-> {By(t, "A") : t \in to[p]}] : p \in 1..4} :
     to \in {f \in [1..4 -> SUBSET (1..4)] : \A p \in 1..4 : p \notin f[p] /\ Cardinality(f[p]) <= 2}}
MixedFiles ==
  {{[path |-> p, package |-> place[p], imports |-> imports[p],
     names |-> IF p = 1 THEN {"A", "B"} ELSE IF p = 2 THEN {"A"} ELSE {}] : p \in 1..3} :
     place \in {<<1, 1, 2>>, <<1, 2, 2>>, <<1, 2, 0>>},
     imports \in [1..3 -> UNION {kSubset(k, {By(1, "A"), By(2, "*"), By(2, "A"), By(3, "A")}) : k \in 0..2}]}
ImportCorpora == FourFiles \cup MixedFiles

-----------------------------------------------------------------------------
(* Nested, bare, overloaded, Java, generated and ignored declarations of   *)
(* names 5, 6 and 7, where 6 begins with the text of 5 and 7 contains it.  *)

Declared(path, name, kind, file, line, lang, place, readable) ==
  [path |-> path, name |-> name, kind |-> kind, file |-> file, line |-> line,
   lang |-> lang, place |-> place, readable |-> readable]
Declarations == {
  Declared(<<1>>, 5, "fun", 1, 2, "kotlin", "src", TRUE),
  Declared(<<1>>, 5, "fun", 1, 4, "kotlin", "src", TRUE),
  Declared(<<2, 1>>, 5, "fun", 2, 3, "kotlin", "src", TRUE),
  Declared(<<>>, 5, "class", 3, 1, "kotlin", "src", TRUE),
  Declared(<<1, 2>>, 5, "fun", 4, 1, "kotlin", "src", FALSE),
  Declared(<<3>>, 5, "class", 5, 1, "java", "src", TRUE),
  Declared(<<3, 5>>, 5, "constructor", 5, 3, "java", "src", TRUE),
  Declared(<<1>>, 5, "class", 6, 1, "kotlin", "generated", TRUE),
  Declared(<<1>>, 5, "fun", 7, 1, "kotlin", "ignored", TRUE),
  Declared(<<1>>, 6, "fun", 1, 6, "kotlin", "src", TRUE),
  Declared(<<1>>, 7, "fun", 1, 5, "kotlin", "src", TRUE)}
NameHolds(name, query) == name = query \/ (query = 5 /\ name \in {6, 7})
NameBegins(name, query) == name = query \/ (query = 5 /\ name = 6)
NameWidth(name) == IF name = 5 THEN 4 ELSE IF name = 6 THEN 9 ELSE 6

Symbols == INSTANCE SymbolSelection WITH
  ws <- s1, drift <- s2, ask <- s3, order <- s4, answer <- s5, first <- s6,
  Pool <- Declarations, Query <- {<<5>>, <<1, 5>>, <<2, 1, 5>>, <<6>>}, MaxDecls <- 3,
  Holds <- NameHolds, Begins <- NameBegins, Width <- NameWidth, DefaultContainsLimit <- 2

-----------------------------------------------------------------------------
(* A trace with its marker, definition, related rows and up to two usage   *)
(* groups, and a check with up to four errors, over two files and lines,   *)
(* one of which quotes a second place.                                     *)

PathOf(name, kotlin) == [name |-> name, run |-> name, kotlin |-> kotlin]
A == PathOf("A.kt", TRUE)
B == PathOf("B.kt", TRUE)
Title == PathOf("Definition", FALSE)
Line(form, path, line, tail, word, places) ==
  [form |-> form, path |-> path, line |-> line, tail |-> tail, word |-> word, at |-> places]
MarkerLine == Line("marker", Title, 0, "", "partial", <<>>)
Prosaic == Line("prose", Title, 0, "", "", <<>>)
Heading(path) == Line("heading", path, 0, "", "", <<>>)
PlaceOf(path, line, column) == [path |-> path, line |-> line, column |-> column]
RowOf(path, line, column) == Line("row", Title, 0, "", "", <<PlaceOf(path, line, column)>>)
ItemOf(line, tail) == Line("item", Title, line, tail, "", <<>>)
More == ItemOf(0, "more")

Items == LET tails == {"", "in"}
         IN {<<ItemOf(1, t)>> : t \in tails} \cup {<<ItemOf(1, t), ItemOf(2, u)>> : t, u \in tails}
              \cup {<<ItemOf(2, t), More>> : t \in tails}
Group(path, items) == <<Line("file", path, 0, "", "", <<>>)>> \o items
Groups == {<<>>} \cup {Group(p, i) : p \in {A, B}, i \in Items}
            \cup {Group(A, i) \o Group(B, j) : i, j \in Items}
            \cup {Group(B, i) \o Group(A, j) : i, j \in Items}
Rows == {<<RowOf(p, l, 0)>> : p \in {A, B}, l \in 1..2}
TraceTexts ==
  {<<MarkerLine, Heading(Title)>> \o def \o rows \o <<Heading(Title), Prosaic>> \o groups :
     def \in Rows, rows \in Rows \cup {<<>>}, groups \in Groups}
Errors == {RowOf(A, 1, 1), RowOf(A, 1, 2), RowOf(A, 2, 1), RowOf(B, 1, 1),
           Line("row", Title, 0, "", "", <<PlaceOf(A, 1, 1), PlaceOf(B, 2, 0)>>)}
AnswerTexts ==
  TraceTexts \cup UNION {[1..n -> Errors] : n \in 1..4} \cup {<<Heading(p), Prosaic>> : p \in {A, B}}

-----------------------------------------------------------------------------
(* Calls of every tool with each parameter given, left out or out of       *)
(* range, up to two options at a time; two roots, one of them also reached *)
(* through a link.                                                         *)

V(word) == [dashes |-> 0, parts |-> <<word>>]
Make(tool, positional, flags, options, tests) ==
  [tool |-> tool, positional |-> positional, flags |-> flags, options |-> options, tests |-> tests,
   root |-> <<>>, subject |-> <<>>]
NoOptions == [n \in {} |-> <<>>]

\* Options of at most two of the names, each with one of its values.
Chosen(choices) ==
  UNION {{o \in [names -> UNION {choices[n] : n \in DOMAIN choices}] : \A n \in names : o[n] \in choices[n]} :
           names \in UNION {kSubset(k, DOMAIN choices) : k \in 0..2}}
Name == {<<>>, <<V("save")>>}
AnyTests == {"any", "tests", "no-tests"}
Paths == {<<V("src")>>, <<V("src"), V("app")>>}
Pick == {<<V("Repo.save")>>}
Number == {<<V("3")>>}

SymbolCalls ==
  {Make("symbols", n, f, o, "any") : n \in Name, f \in SUBSET {"contains"},
     o \in Chosen([kind |-> {<<V("fun")>>, <<V("method")>>}, limit |-> Number, pick |-> Pick])}
TraceCalls ==
  {Make("trace", n, {}, o, t) : n \in Name, t \in AnyTests,
     o \in Chosen([pick |-> Pick, depth |-> {<<V("1")>>, <<V("5")>>, <<V("6")>>, <<V("0")>>},
                   limit |-> Number, path |-> Paths])}
ContextCalls ==
  {Make("context", n, {}, o, t) : n \in Name, t \in AnyTests,
     o \in Chosen([pick |-> Pick, budget |-> Number, match |-> {<<V("if")>>}, around |-> Number, path |-> Paths,
                   only |-> {<<V("source")>>, <<V("source"), V("callers")>>, <<V("body")>>}])}
MapCalls ==
  {Make("map", <<>>, f, o, "any") : f \in SUBSET {"compact", "fill"},
     o \in Chosen([budget |-> Number, focus |-> {<<V("Order")>>}, path |-> Paths])}
DepsCalls == {Make("deps", <<>>, {}, o, "any") : o \in Chosen([level |-> {<<V("file")>>, <<V("module")>>}])}
GrepCalls ==
  {Make("grep", <<V("save")>>, f, o, t) : t \in AnyTests,
     f \in SUBSET {"kotlin-only", "word", "ignore-case", "fixed-strings"},
     o \in Chosen([path |-> {<<V("src")>>}, limit |-> Number])}

\* A file named absolutely, through the link, or relative to a root.
At(absolute, path) == <<[absolute |-> absolute, path |-> path]>>
Subjects == {At(TRUE, <<"w", "A.kt">>), At(TRUE, <<"l", "A.kt">>), At(TRUE, <<"x", "B.kt">>),
             At(FALSE, <<"A.kt">>), At(FALSE, <<"B.kt">>), At(FALSE, <<"C.kt">>)}
FileCalls ==
  {[Make("outline", <<V("file")>>, f, NoOptions, "any") EXCEPT !.subject = s, !.root = r] :
      f \in SUBSET {"private", "kdoc", "annotations"}, s \in Subjects, r \in {<<>>, <<<<"x">>>>}}
  \cup {[Make("check", <<V("file")>>, {}, NoOptions, "any") EXCEPT !.subject = s] : s \in Subjects}
ToolCalls == SymbolCalls \cup TraceCalls \cup ContextCalls \cup MapCalls \cup DepsCalls \cup GrepCalls
               \cup FileCalls \cup {Make("status", <<>>, {}, NoOptions, "any")}

\* "l" is a link to "w".
RealPaths ==
  [p \in {<<"w">>, <<"w", "A.kt">>, <<"l">>, <<"l", "A.kt">>, <<"x">>, <<"x", "B.kt">>} |->
     IF p[1] = "l" THEN <<"w">> \o Tail(p) ELSE p]
AdvertisedRoots == {<<>>, <<<<"w">>>>, <<<<"x">>, <<"w">>>>, <<<<"x">>, <<"l">>>>}

Tool == INSTANCE ToolArguments WITH
  call <- s1, roots <- s2, pc <- s3, root <- s4, tokens <- s5, waiting <- s6, parsed <- s7,
  invocation <- s8, shown <- s9, Calls <- ToolCalls, RootLists <- AdvertisedRoots, Real <- RealPaths

ASSUME AnswersAssumption ==
  Context!CapsAssumption /\ Map!FractionAssumption /\ DepAssumption /\ IndexAssumption
-----------------------------------------------------------------------------
NoGraph ==
  /\ files = Empty /\ level = Empty /\ edges = Empty /\ external = Empty /\ ids = Empty
  /\ discovery = Empty /\ lowlink = Empty /\ stack = Empty /\ calls = Empty /\ counter = Empty
  /\ components = Empty /\ scores = Empty /\ unit = Empty /\ round = Empty /\ pc = Empty

NoIndex == text = <<>> /\ at = 1 /\ spot = 0 /\ group = <<>> /\ scan = NothingFound

Init ==
  \/ part = "graph" /\ DepInit /\ NoIndex /\ EmptyFrom1
  \/ part = "index" /\ IndexInit /\ NoGraph /\ EmptyFrom1
  \/ /\ NoGraph /\ NoIndex
     /\ \/ part = "trace" /\ Trace!TraceInit /\ EmptyFrom10
        \/ part = "context" /\ Context!CtxInit /\ EmptyFrom6
        \/ part = "map" /\ Map!MapInit /\ EmptyFrom9
        \/ part = "symbols" /\ Symbols!SelInit /\ EmptyFrom7
        \/ part = "tool" /\ Tool!ToolInit /\ EmptyFrom10

Next ==
  \/ part = "graph" /\ DepNext /\ UNCHANGED <<slots, indexVars>>
  \/ part = "index" /\ IndexNext /\ UNCHANGED <<slots, depVars>>
  \/ part = "trace" /\ Trace!TraceNext /\ KeepFrom10 /\ UNCHANGED <<depVars, indexVars>>
  \/ part = "context" /\ Context!CtxNext /\ KeepFrom6 /\ UNCHANGED <<depVars, indexVars>>
  \/ part = "map" /\ Map!MapNext /\ KeepFrom9 /\ UNCHANGED <<depVars, indexVars>>
  \/ part = "symbols" /\ Symbols!SelNext /\ KeepFrom7 /\ UNCHANGED <<depVars, indexVars>>
  \/ part = "tool" /\ Tool!ToolNext /\ KeepFrom10 /\ UNCHANGED <<depVars, indexVars>>

Spec == Init /\ [][Next]_<<slots, depVars, indexVars>>
-----------------------------------------------------------------------------
(* The components' properties; those of the graph and of the index are      *)
(* their modules' own, which say nothing while these have nothing to do.    *)

\* trace: a site belongs to the declaration around it, and every count derived from
\* that (callers, usages, what a filter left out, deeper levels) adds up.
TraceAddsUp ==
  part = "trace" =>
    /\ Trace!InnermostIsLatest /\ Trace!CallersAccountForSites /\ Trace!UsagesAddUp
    /\ Trace!FilterLosesNoCaller /\ Trace!LevelsAreCallers

\* context and map: an answer is within its budget, shows all that fits, and states
\* truly what it left out; test sources rank nothing.
BudgetsAreKept ==
  /\ part = "context" =>
       /\ Context!PrefixIsMaximal /\ Context!PriorityIsKept /\ Context!CallersAreCounted
       /\ Context!SourceRangeExists /\ Context!GapsAreTrue
  /\ part = "map" =>
       /\ Map!BoundWithinBudget /\ Map!FilesAreAccounted /\ Map!NothingHeldBackNeedlessly
       /\ Map!TestsDoNotRank /\ Map!FocusAccounts

\* symbols: a question asked twice, or again with the pick its hint named, is answered
\* with the declaration listed first, and no row is silently left out.
SelectionReproduces ==
  part = "symbols" =>
    /\ Symbols!HintNamesTheFirst /\ Symbols!AnswersReproduce /\ Symbols!NeverSilentlyOne
    /\ Symbols!HidesOnlyWorse

\* MCP tools: a call is parsed back to what was asked, refused exactly when it breaks
\* its terms, answered about a root that holds its file, and shown with its listing.
CallsAreUnderstood ==
  part = "tool" =>
    /\ Tool!UnderstoodAsAsked /\ Tool!RefusedWhenIllFormed /\ Tool!RootHoldsSubject
    /\ Tool!ListingShown
=============================================================================
