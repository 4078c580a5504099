--------------------------- MODULE ToolArguments ----------------------------
(***************************************************************************)
(* One MCP tool call, from its parameters to what the client is shown: the *)
(* root it is about, the arguments built for the command line, how the     *)
(* command line reads them, and what is made of its exit and streams       *)
(* (ktsense-mcp/src/server.rs, roots.rs, ktsense-cli/src/main.rs).         *)
(*                                                                         *)
(* A call is [tool, positional, flags, options, tests, root, subject].  A  *)
(* value, and an argument, is [dashes, parts]: the hyphens it starts with  *)
(* and its comma-separated parts.  An option maps to the values given for  *)
(* it.  A path is a sequence of names.                                     *)
(***************************************************************************)
EXTENDS Integers, Sequences, FiniteSets, SequencesExt

CONSTANTS Calls,    \* the tool calls
          RootLists, \* the roots a client may advertise, in order
          Real      \* the resolved path of every path that exists

VARIABLES call, roots, pc, root, tokens, waiting, parsed, invocation, shown
toolVars == <<call, roots, pc, root, tokens, waiting, parsed, invocation, shown>>

Unset == [positional |-> <<>>, flags |-> {}, options |-> [n \in {} |-> <<>>]]
NoInvocation == [code |-> -1, stdout |-> "", stderr |-> ""]

ToolInit ==
  /\ call \in Calls
  /\ roots \in RootLists
  /\ pc = "called"
  /\ root = <<>>
  /\ tokens = <<>>
  /\ waiting = ""
  /\ parsed = Unset /\ invocation = NoInvocation /\ shown = [kind |-> "none", text |-> ""]
-----------------------------------------------------------------------------
(* The root of a call *)

\* Mutant: only the text of an absolute path is compared.
HoldsText(r, subject) ==
  IF ~subject.absolute THEN r \o subject.path \in DOMAIN Real ELSE IsPrefix(r, subject.path)

Holds(r, subject) ==
  IF ~subject.absolute THEN r \o subject.path \in DOMAIN Real
  ELSE \/ IsPrefix(r, subject.path)
       \/ r \in DOMAIN Real /\ subject.path \in DOMAIN Real /\ IsPrefix(Real[r], Real[subject.path])

\* The call's own root, the first advertised one that holds its subject, the
\* first advertised one, or none, which leaves the server's own.
Resolve(named, subject) ==
  LET holding == SelectSeq(roots, LAMBDA r : subject # <<>> /\ Holds(r, subject[1]))
  IN IF named # <<>> THEN named
     ELSE IF holding # <<>> THEN <<holding[1]>>
     ELSE IF roots # <<>> THEN <<roots[1]>> ELSE <<>>

RootFor ==
  /\ pc = "called" /\ root' = Resolve(call.root, call.subject) /\ pc' = "rooted"
  /\ UNCHANGED <<call, roots, tokens, waiting, parsed, invocation, shown>>
-----------------------------------------------------------------------------
(* The arguments *)

Long(name) == [dashes |-> 2, parts |-> <<name>>]
Flag(name, present) == IF present THEN <<Long(name)>> ELSE <<>>
Values(c, name) == IF name \in DOMAIN c.options THEN c.options[name] ELSE <<>>
Option(c, name) == IF Values(c, name) = <<>> THEN <<>> ELSE <<Long(name), Values(c, name)[1]>>
OptionList(c, name) ==
  IF Values(c, name) = <<>> THEN <<>>
  ELSE <<Long(name),
         [dashes |-> Values(c, name)[1].dashes,
          parts |-> FoldLeft(LAMBDA all, v : all \o v.parts, <<>>, Values(c, name))]>>
RepeatedOption(c, name) == FoldLeft(LAMBDA all, v : all \o <<Long(name), v>>, <<>>, Values(c, name))
Flags(c, names) == FoldLeft(LAMBDA all, name : all \o Flag(name, name \in c.flags), <<>>, names)

\* Mutant: tests unset is taken for production sources.
TestsUnsetIsProduction(c) == Flag("tests", c.tests = "tests") \o Flag("no-tests", c.tests # "tests")

Tests(c) == Flag("tests", c.tests = "tests") \o Flag("no-tests", c.tests = "no-tests")

GetKotlinOutline(c) == c.positional \o Flags(c, <<"private", "kdoc", "annotations">>)
FindKotlinSymbol(c) == c.positional \o Option(c, "kind") \o Option(c, "limit") \o Option(c, "pick")
    \o Flags(c, <<"contains">>)
TraceKotlinSymbol(c) ==
  c.positional \o Option(c, "pick") \o Option(c, "depth") \o Option(c, "limit")
      \o RepeatedOption(c, "path") \o Tests(c)
AnalyzeKotlinDependencies(c) == Option(c, "level")

\* Mutant: a focus does not bring the compact form with it.
GetKotlinRepoMapAsGiven(c) ==
  Option(c, "budget") \o Flags(c, <<"compact">>) \o Option(c, "focus") \o Flags(c, <<"fill">>)
      \o RepeatedOption(c, "path")

GetKotlinRepoMap(c) ==
  Option(c, "budget") \o Flag("compact", "compact" \in c.flags \/ Values(c, "focus") # <<>>)
      \o Option(c, "focus")
  \o Flags(c, <<"fill">>) \o RepeatedOption(c, "path")
CheckKotlinSyntax(c) == c.positional
ExplainKotlinSymbol(c) ==
  c.positional \o Option(c, "pick") \o Option(c, "budget") \o OptionList(c, "only") \o Option(c, "match")
      \o Option(c, "around")
  \o RepeatedOption(c, "path") \o Tests(c)
SearchKotlinText(c) ==
  c.positional \o Option(c, "path") \o Tests(c)
      \o Flags(c, <<"kotlin-only", "word", "ignore-case", "fixed-strings">>) \o Option(c, "limit")

Args(c) ==
  CASE c.tool = "outline" -> GetKotlinOutline(c) [] c.tool = "symbols" -> FindKotlinSymbol(c)
    [] c.tool = "trace" -> TraceKotlinSymbol(c) [] c.tool = "deps" -> AnalyzeKotlinDependencies(c)
    [] c.tool = "map" -> GetKotlinRepoMap(c) [] c.tool = "check" -> CheckKotlinSyntax(c)
    [] c.tool = "context" -> ExplainKotlinSymbol(c) [] c.tool = "grep" -> SearchKotlinText(c) [] OTHER -> <<>>

\* The runner spawns the command, or cannot.
Run ==
  /\ pc = "rooted"
  /\ \/ pc' = "parsing" /\ tokens' = Args(call) /\ UNCHANGED shown
     \/ pc' = "told" /\ shown' = [kind |-> "internal", text |-> ""] /\ UNCHANGED tokens
  /\ UNCHANGED <<call, roots, root, waiting, parsed, invocation>>
-----------------------------------------------------------------------------
(* The command line's own reading of them *)

\* positional is "required", "unless pick" or "none"; single options take one
\* value, lists split theirs at commas, many may be repeated.
Grammar(positional, flags, single, lists, many) ==
  [positional |-> positional, flags |-> flags, single |-> single, lists |-> lists, many |-> many]

NamedSymbol == "unless pick"
Command(tool) ==
  CASE tool = "outline" -> Grammar("required", {"private", "kdoc", "annotations"}, {}, {}, {})
    [] tool = "symbols" -> Grammar(NamedSymbol, {"contains"}, {"kind", "limit", "pick"}, {}, {})
    [] tool = "grep" -> Grammar("required", {"tests", "no-tests", "kotlin-only", "word", "ignore-case",
        "fixed-strings"}, {"path", "limit"}, {}, {})
    [] tool = "trace" -> Grammar(NamedSymbol, {"wait-index", "tests", "no-tests"},
        {"pick", "depth", "limit"}, {}, {"path"})
    [] tool = "deps" -> Grammar("none", {}, {"level"}, {}, {})
    [] tool = "map" -> Grammar("none", {"compact", "fill"}, {"budget", "focus"}, {}, {"path"})
    [] tool = "check" -> Grammar("required", {}, {}, {}, {})
    [] tool = "context" -> Grammar(NamedSymbol, {"tests", "no-tests"},
        {"pick", "budget", "match", "around"}, {"only"}, {"path"})
    [] OTHER -> Grammar("none", {}, {}, {}, {})

KindFilter == {"class", "interface", "object", "fun", "val", "var", "typealias", "constructor"}
Level == {"file", "package"}
ContextOnly == {"source", "callers", "implementors", "outline"}
Depth == {"1", "2", "3", "4", "5"}

Legal(name, parts) ==
  /\ name = "kind" => ToSet(parts) \subseteq KindFilter
  /\ name = "level" => ToSet(parts) \subseteq Level
  /\ name = "only" => ToSet(parts) \subseteq ContextOnly
  /\ name = "depth" => ToSet(parts) \subseteq Depth

Cli == Command(call.tool)
\* Only the pattern of grep may start with a hyphen.
AllowHyphenValues == call.tool = "grep"
Shorts == IF call.tool = "grep" THEN {"w", "i", "F"} ELSE {}
LongOf(short) == CASE short = "w" -> "word" [] short = "i" -> "ignore-case" [] short = "F" -> "fixed-strings"

Refuse == pc' = "ending" /\ invocation' = [code |-> 2, stdout |-> "", stderr |-> "usage"]
    /\ UNCHANGED <<waiting, parsed>>
Accept(p, w) == parsed' = p /\ waiting' = w /\ UNCHANGED <<pc, invocation>>

SetFlag(name) ==
  IF name \in parsed.flags THEN Refuse ELSE Accept([parsed EXCEPT !.flags = @ \cup {name}], "")
SetPositional(value) ==
  IF Cli.positional = "none" \/ parsed.positional # <<>> THEN Refuse
      ELSE Accept([parsed EXCEPT !.positional = <<value>>], "")
Given(name) == IF name \in DOMAIN parsed.options THEN parsed.options[name] ELSE <<>>
SetOption(name, value) ==
  IF value.dashes > 0 \/ ~Legal(name, value.parts) \/ (Given(name) # <<>> /\ name \in Cli.single) THEN Refuse
  ELSE Accept([parsed EXCEPT !.options =
                 [n \in DOMAIN @ \cup {name} |-> IF n = name THEN Given(n) \o value.parts ELSE @[n]]], "")

Token ==
  /\ pc = "parsing" /\ tokens # <<>>
  /\ LET token == Head(tokens)
         name == token.parts[1]
     IN CASE waiting # "" -> SetOption(waiting, token)
          [] waiting = "" /\ token.dashes = 0 -> SetPositional(token)
          [] waiting = "" /\ token.dashes = 1 ->
               IF name \in Shorts THEN SetFlag(LongOf(name))
               ELSE IF AllowHyphenValues THEN SetPositional(token) ELSE Refuse
          [] OTHER -> IF name \in Cli.flags THEN SetFlag(name)
                      ELSE IF name \in Cli.single \cup Cli.lists \cup Cli.many THEN Accept(parsed, name)
                      ELSE IF AllowHyphenValues THEN SetPositional(token) ELSE Refuse
  /\ tokens' = Tail(tokens) /\ UNCHANGED <<call, roots, root, shown>>

\* required, required_unless_present, conflicts_with and requires.
Complete ==
  /\ waiting = ""
  /\ Cli.positional = "required" => parsed.positional # <<>>
  /\ Cli.positional = NamedSymbol => parsed.positional # <<>> \/ Given("pick") # <<>>
  /\ ~({"tests", "no-tests"} \subseteq parsed.flags)
  /\ Given("focus") # <<>> => "compact" \in parsed.flags
  /\ "fill" \in parsed.flags => Given("focus") # <<>>

Ends(code, stdout, stderr) == [code |-> code, stdout |-> stdout, stderr |-> stderr]
\* Exit 1 is a failure on stderr or, for a name nothing declares, a listing
\* on stdout; a logged warning is on stderr beside either; -1 is a signal.
Outcomes(warned) ==
  LET log == IF warned THEN "warning" ELSE ""
  IN {Ends(0, "answer", log), Ends(1, "", "message"), Ends(-1, "", log)}
     \cup (IF Cli.positional = NamedSymbol THEN {Ends(3, "candidates", "hint")} ELSE {})
     \cup (IF call.tool = "check" THEN {Ends(1, "findings", log)} ELSE {})
     \cup (IF call.tool \in {"trace", "context"} THEN {Ends(1, "listing", log)} ELSE {})

Execute ==
  /\ pc = "parsing" /\ tokens = <<>> /\ pc' = "ending"
  /\ IF Complete THEN \E warned \in BOOLEAN : invocation' \in Outcomes(warned)
     ELSE invocation' = Ends(2, "", "usage")
  /\ UNCHANGED <<call, roots, root, tokens, waiting, parsed, shown>>
-----------------------------------------------------------------------------
(* What the client is shown *)

ANSWER_EXITS == {0, 3}

\* A check with findings exits 1 and has still answered.
Answered(i) ==
  i.code \in ANSWER_EXITS \/ (call.tool = "check" /\ i.code = 1 /\ i.stdout # "" /\ i.stderr = "")

\* Mutant: whatever is not an answer is told from stderr.
PresentStderr(i) ==
  IF Answered(i) THEN [kind |-> "success", text |-> i.stdout] ELSE [kind |-> "error", text |-> i.stderr]

Present(i) ==
  IF Answered(i) THEN [kind |-> "success", text |-> i.stdout]
  ELSE [kind |-> "error", text |-> IF i.stderr = "" THEN i.stdout ELSE i.stderr]

Tell ==
  /\ pc = "ending" /\ pc' = "told" /\ shown' = Present(invocation)
  /\ UNCHANGED <<call, roots, root, tokens, waiting, parsed, invocation>>

Told == pc = "told" /\ UNCHANGED toolVars

ToolNext == RootFor \/ Run \/ Token \/ Execute \/ Tell \/ Told
ToolSpec == ToolInit /\ [][ToolNext]_toolVars
-----------------------------------------------------------------------------
(* Properties *)

Ran == pc \in {"ending", "told"} /\ invocation.code # 2 /\ shown.kind # "internal"

\* What the command line is left holding, when it runs, is what the caller
\* asked for: its name, every option with its values, the tests it wants, and
\* the compact form a focus implies.
UnderstoodAsAsked ==
  Ran =>
    /\ parsed.positional = call.positional
    /\ \A name \in DOMAIN call.options \cup DOMAIN parsed.options :
         Given(name) = FoldLeft(LAMBDA all, v : all \o v.parts, <<>>, Values(call, name))
    /\ parsed.flags = call.flags \cup (IF call.tests = "any" THEN {} ELSE {call.tests})
                      \cup (IF Values(call, "focus") # <<>> THEN {"compact"} ELSE {})

\* The documented terms of a call, in the caller's words.
WellFormed ==
  /\ call.tool \in {"symbols", "trace", "context"} => call.positional # <<>> \/ Values(call, "pick") # <<>>
  /\ \A name \in DOMAIN call.options : \A i \in DOMAIN call.options[name] :
       Legal(name, call.options[name][i].parts)
  /\ "fill" \in call.flags => Values(call, "focus") # <<>>

\* A call within the documented terms reaches the command, and any other is
\* refused as a usage error instead of being answered about something else.
RefusedWhenIllFormed == pc = "ending" => ((invocation.code = 2) = ~WellFormed)

TrulyHolds(r, subject) ==
  LET path == IF subject.absolute THEN subject.path ELSE r \o subject.path
  IN r \in DOMAIN Real /\ path \in DOMAIN Real /\ IsPrefix(Real[r], Real[path])

\* A call that names a file under some advertised root, and no root, is
\* answered about a root that the file really is under.
RootHoldsSubject ==
  pc # "called" /\ call.root = <<>> /\ call.subject # <<>>
      /\ (\E i \in DOMAIN roots : TrulyHolds(roots[i], call.subject[1]))
    => root # <<>> /\ TrulyHolds(root[1], call.subject[1])

\* A name the workspace does not declare comes back with the listing of where
\* it is written, although its exit is that of a failure; only a warning that
\* was logged meanwhile takes its place.
ListingShown ==
  pc = "told" /\ invocation.stdout = "listing" /\ invocation.stderr # "warning" => shown.text = "listing"
=============================================================================
