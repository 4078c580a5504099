------------------------------ MODULE MCSources -----------------------------
(***************************************************************************)
(* The instance of the sources suite.  Every tree of directories up to     *)
(* three names deep, with one removal; two files, two texts that parse and *)
(* one that does not, three edits; streams of up to five symbols, cut      *)
(* anywhere, and header blocks of up to three.                             *)
(***************************************************************************)
EXTENDS Sources

MCText == {"one", "two", "garbage"}
MCFingerprint == [t \in MCText |-> CASE t = "one" -> 1 [] t = "two" -> 2 [] OTHER -> 3]

-----------------------------------------------------------------------------
(* Lines of up to four characters and names of up to two.                  *)

MCScannedLines == UNION {[1..n -> {"a", "b", "dot", "accent", "wide"}] : n \in 0..4}
MCScannedNames == {<<"a">>, <<"a", "a">>, <<"a", "accent">>, <<"b", "a">>, <<"accent", "a">>}

-----------------------------------------------------------------------------
(* Three files: a class with a nested function and lines on either side of *)
(* it, a generated file, a Java test file.                                 *)

MCOwnerOf == [class |-> <<"none", "Outer", "Outer.run", "Outer">>, flat |-> <<"none", "top", "top", "other">>]
SearchedFile(path, java, walked, generated, test, under, readable, parses, shape, sites) ==
  [path |-> path, java |-> java, walked |-> walked, generated |-> generated, test |-> test, under |-> under,
   readable |-> readable, parses |-> parses, shape |-> shape, sites |-> sites]
MCSearchedTrees ==
  {{SearchedFile(1, FALSE, TRUE, FALSE, FALSE, TRUE, r, p, "class", s),
    SearchedFile(2, FALSE, FALSE, TRUE, FALSE, FALSE, TRUE, TRUE, "flat", {2}),
    SearchedFile(3, TRUE, TRUE, FALSE, TRUE, TRUE, TRUE, TRUE, "flat", j)} :
      r, p \in BOOLEAN, s \in SUBSET (1..4), j \in {{}, 2..4}}
MCSearchRequests ==
  [command : {"grep", "undeclared"}, tests : {"all", "only", "none"},
   under : BOOLEAN, kotlinOnly : BOOLEAN, limit : {-1, 1, 2}]

-----------------------------------------------------------------------------
(* Declaration lines of up to five pieces, two files, answers of up to two *)
(* candidates of a find, or one LSP position, at any column.  Command mode *)
(* counts columns from one.                                                *)

DeclarationLines ==
  {<<"name">>, <<"name", "mark", "name">>, <<"wide", "name">>,
   <<"wide", "wide", "name", "mark", "name">>, <<"mark", "letter", "name">>, <<"mark">>}
Reported == [file : {"f", "g"}, unit : {"character"}, at : 1..7]
ReportedLists ==
  {<<c>> : c \in Reported \cup [file : {"f", "g"}, unit : {"utf16"}, at : 0..7]}
  \cup {<<c, d>> : c, d \in Reported}

-----------------------------------------------------------------------------
(* Every text of up to five lexical characters, and texts of up to three   *)
(* pieces whose kind the language gives.  A text block holds no escaped    *)
(* delimiter: the lexer ends it there.                                     *)

Piece(kind, chars) == [chars |-> chars, truth |-> [i \in DOMAIN chars |-> kind]]
Body == {<<"name">>, <<"emoji", "name">>, <<"\\", "dq", "name">>, <<"\\", "\\">>, <<"/", "/", "name">>,
         <<"/", "*", "name">>, <<"sq", "name">>}
Wrap(begin, body, end) == begin \o body \o end
Triple == <<"dq", "dq", "dq">>
Pieces ==
  {Piece("code", b) : b \in {<<"name">>, <<"name", "nl">>, <<"/", "name">>, <<"other", "name">>}}
  \cup {Piece("comment", Wrap(<<"/", "/">>, b, <<"nl">>)) :
          b \in Body \cup {<<"*", "/", "name">>, <<"dq", "name">>}}
  \cup {Piece("comment", Wrap(<<"/", "*">>, b, <<"*", "/">>)) :
          b \in Body \cup {<<"nl", "emoji", "name">>, <<"*", "name", "*">>}}
  \cup {Piece("string", Wrap(<<"dq">>, b, <<"dq">>)) : b \in Body \cup {<<>>, <<"accent", "name">>}}
  \cup {Piece("string", Wrap(<<"sq">>, b, <<"sq">>)) : b \in {<<"name">>, <<"\\", "sq">>, <<"dq">>}}
  \cup {Piece("string", Wrap(Triple, b, Triple)) :
          b \in {<<"nl", "name">>, <<"nl", "dq", "name">>, <<"nl", "dq", "dq", "name">>,
                 <<"nl", "/", "/", "name">>}}
Join(a, b) == [chars |-> a.chars \o b.chars, truth |-> a.truth \o b.truth]
\* Two quotes meeting a third would be another token; keep strings apart.
Apart(a, b) == Join(Join(a, Piece("code", <<"other">>)), b)
Small == {Piece("code", <<"name">>), Piece("string", <<"dq", "emoji", "dq">>),
          Piece("comment", <<"/", "*", "dq", "*", "/">>)}
MCJavaSources ==
  Pieces \cup {Apart(a, b) : a, b \in Pieces} \cup {Apart(Apart(a, b), c) : a, b \in Small, c \in Pieces}
  \cup {[chars |-> c, truth |-> <<>>] : c \in UNION {[1..n -> {"/", "*", "dq", "sq", "\\", "nl"}] : n \in 0..5}}

-----------------------------------------------------------------------------
(* Java constructs as tokens with what they mean, each on a line of its    *)
(* own.  A class declared inside a call's arguments and a field            *)
(* initialized with braces are left out: neither walk sees the members of  *)
(* the one, and the declaration walk loses the other.                      *)

Word(s) == IF s \in {"{", "}", "(", ")", ";", "@", "->", "=", "<", ">", "nl"} THEN [k |-> s, s |-> ""]
           ELSE [k |-> "ident", s |-> s]
Tokens(words) == [i \in DOMAIN words |-> Word(words[i])]
Brace == Tokens(<<"}">>)
Construct(opens, kind, name, words, close, lead) ==
  [opens |-> opens, kind |-> kind, name |-> name, text |-> Tokens(words), close |-> close, lead |-> lead]
Type(kind, name, words) == Construct("type", kind, name, words, Brace, 0)
Member(kind, name, words, lead) == Construct("member", kind, name, words, Brace, lead)
Block(words) == Construct("block", "", "", words, Brace, 0)
Statement(kind, name, words) == Construct("", kind, name, words, <<>>, 0)

Types == {Type("class", "A", <<"public", "class", "A", "<", "T", "extends", "B", ">", "{">>),
          Type("record", "B", <<"record", "B", "(", "int", "x", ")", "nl", "{">>),
          Type("annotation", "C", <<"@", "interface", "C", "{">>)}
Members(n) ==
  {Member("constructor", n, <<"public", "<", "T", ">", n, "(", ")", "{">>, 0),
   Member("method", n, <<n, n, "(", "int", "x", ")", "nl", "{">>, 0),
   Member("method", "m", <<"@", "Ann", "(", "x", "=", "{", "}", ")", "nl", "void", "m", "(", ")", "{">>, 1)}
MemberStatements ==
  {Statement("field", "f", <<"int", "f", ";">>),
   Statement("field", "f", <<"Logger", "f", "=", "factory", "get", "(", ")", ";">>),
   Statement("method", "m", <<"@", "Ann", "void", "m", "(", ")", ";">>)}
Blocks ==
  {Block(<<"if", "(", "x", "(", ")", ")", "{">>),
   Construct("lambda", "", "", <<"f", "(", "x", "->", "{">>, Tokens(<<"}", ")", ";">>), 0),
   Construct("anonymous class", "", "", <<"return", "new", "A", "(", "x", ")", "{">>, Tokens(<<"}", ";">>), 0)}
MCJavaConstructs(top) ==
  CASE top.what = "file" -> Types \cup {Statement("", "", <<"import", "a", ";">>)}
    [] top.what = "type" -> Types \cup Members(top.name) \cup MemberStatements \cup {Block(<<"static", "{">>)}
    [] top.what = "anonymous class" -> {Member("method", "m", <<"void", "m", "(", ")", "{">>, 0)}
    [] top.what = "lambda" -> {Construct("lambda", "", "", <<"if", "(", "x", "(", ")", ")", "{">>, Brace, 0)}
    [] top.what = "block" -> Blocks
    [] OTHER -> Blocks \cup {Type("class", "B", <<"class", "B", "{">>),
                             Statement("", "", <<"x", "=", "g", "(", ")", ";">>)}

-----------------------------------------------------------------------------
(* Type headers with and without type parameters, record components, each  *)
(* clause, generic and qualified names, annotations.                       *)

Named(words, name) == [words |-> words, supers |-> <<name>>]
SuperTypes ==
  {Named(<<"B">>, "B"), Named(<<"p", ".", "B">>, "B"),
   Named(<<"B", "<", "C", ",", "D", "<", "E", ">", ">">>, "B"),
   Named(<<"B", "<", "C", "extends", "D", ">">>, "B"), Named(<<"@", "N", "B">>, "B")}
NoClause == [words |-> <<>>, supers |-> <<>>]
Lists ==
  SuperTypes
  \cup {[words |-> a.words \o <<",">> \o b.words, supers |-> a.supers \o b.supers] : a, b \in SuperTypes}
Clause(keyword, list) == [words |-> <<keyword>> \o list.words, supers |-> list.supers]
Starts == {<<"class", "A">>, <<"sealed", "class", "A", "<", "T", "extends", "B", "&", "C", ">">>,
           <<"record", "A", "(", "@", "N", "(", "{", "C", "}", ")", "int", "x", ",", "B", "y", ")">>}
MCTypeHeaders ==
  {[words |-> start \o ext.words \o impl.words \o permits, supers |-> ext.supers \o impl.supers] :
     start \in Starts, ext \in {NoClause} \cup {Clause("extends", t) : t \in SuperTypes},
     impl \in {NoClause} \cup {Clause("implements", l) : l \in Lists},
     permits \in {<<>>, <<"permits", "E", ",", "F">>}}
MCHeaderMarks == {"<", ">", ",", ".", "(", ")", "@", "&", "{", "}", ";"}

-----------------------------------------------------------------------------
(* Five types with any supertype clauses over four names, two of one name, *)
(* each on a line of its own; a query whose line engine and scan agree on. *)

TypeAt(path, line, name, supers) == [path |-> path, line |-> line, name |-> name, supers |-> supers]
MCTypeWorkspaces ==
  {{TypeAt(1, 1, "T", q), TypeAt(1, 5, "A", a), TypeAt(2, 1, "B", b), TypeAt(3, 1, "C", c),
    TypeAt(2, 9, n, {"B", "C"})} :
     q \in {{}, {"B"}, {"T"}}, a, b, c \in SUBSET {"T", "A", "B", "C"}, n \in {"A", "T"}}
QueryFor(java, kind) ==
  [path |-> 1, line |-> 1, scanned |-> 1, name |-> "T", java |-> java, kind |-> kind]
MCTypeQueries == {QueryFor(TRUE, "class"), QueryFor(FALSE, "class"), QueryFor(TRUE, "enum")}

-----------------------------------------------------------------------------
(* Runtime directories at, and one past, every length at which the choice  *)
(* changes, two roots of which one has two names, two working directories. *)
(* 95 bytes are left: a runtime directory of 65, or a home of 54, is the   *)
(* longest that fits.                                                      *)

Dir(name, length) == [name |-> name, length |-> length, absolute |-> TRUE]
CanonicalRoot(root) == IF root = "link" THEN "work" ELSE root
UnsetDir == [name |-> "unset", length |-> 0, absolute |-> FALSE]
Runtimes == {UnsetDir, Dir("/run/user/501", 13), Dir("deep65", 65), Dir("deep66", 66),
             Dir("deep73", 73), Dir("other73", 73)}
Homes == {Dir("/home/u", 7), Dir("deep54", 54), Dir("deep55", 55)}
Process == [runtime : Runtimes, home : Homes, cwd : {"here", "there"}, root : {"work", "link", "app"}]
ProcessPairs == {<<p, q>> : p, q \in Process}
MCShortBase == Dir("/tmp/ktsense-501", 16)
=============================================================================
