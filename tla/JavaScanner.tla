---------------------------- MODULE JavaScanner -----------------------------
(***************************************************************************)
(* The two brace walks over Java tokens: the scopes that enclose a line    *)
(* (enclosing_intervals) and the declarations of a file                    *)
(* (java_declarations), ktsense-core/src/java_enclosing.rs.                *)
(*                                                                         *)
(* The file is written construct by construct by the environment, which    *)
(* also keeps what the construct means (truth, scopes, declared); it may   *)
(* end anywhere.  The walks read it token by token, side by side: Unit     *)
(* and Pending hold the same facts since the last boundary and are one     *)
(* record here, and each walk keeps a parenthesis depth of its own that    *)
(* the same tokens move, one variable here.  "" and 0 stand for None.      *)
(***************************************************************************)
EXTENDS Integers, Sequences, FiniteSets, FiniteSetsExt

CONSTANTS Constructs(_), \* the constructs that may follow, by the innermost open one
          MaxConstructs

ScannerAssumption == MaxConstructs \in Nat

VARIABLES truth, scopesOf, declared, written, \* the file and its meaning
          rest, line,                         \* tokens still to read; lines so far
          unit, parens,
          namedStack, open, intervals,        \* the enclosing walk
          typeStack, scopes, declarations     \* the declaration walk
fileVars == <<truth, scopesOf, declared, written>>
walkVars == <<unit, parens, namedStack, open, intervals, typeStack, scopes, declarations>>
vars == <<fileVars, rest, line, walkVars>>

NoUnit == [kind |-> "", expect |-> FALSE, type |-> "", typeLine |-> 0, prev |-> "", prevLine |-> 0,
           method |-> "", methodLine |-> 0, field |-> "", fieldLine |-> 0, start |-> 0, params |-> FALSE,
           new |-> FALSE, arrow |-> FALSE, assigned |-> FALSE, angle |-> 0, idents |-> 0]

IsClassKeyword(s) == s \in {"class", "interface", "enum", "record"}
IsControlKeyword(s) == s \in {"if", "for", "while", "switch", "catch", "synchronized", "try"}
IsModifier(s) == s \in {"public", "private", "protected", "static", "final", "abstract", "default",
    "synchronized"}

\* Tokens carry their line; "nl" only counts.
Tokenize(text, from) ==
  LET upto(i) == from + Cardinality({k \in 1..i : text[k].k = "nl"})
      lined == [i \in DOMAIN text |-> [k |-> text[i].k, s |-> text[i].s, l |-> upto(i)]]
  IN SelectSeq(lined, LAMBDA t : t.k # "nl")
Newlines(text) == Cardinality({i \in DOMAIN text : text[i].k = "nl"})

ScannerInit ==
  /\ truth = <<>> /\ scopesOf = {} /\ declared = <<>> /\ written = 0
  /\ rest = <<>> /\ line = 0 /\ unit = NoUnit /\ parens = 0
  /\ namedStack = <<>> /\ open = <<>> /\ intervals = <<>>
  /\ typeStack = <<>> /\ scopes = <<>> /\ declarations = <<>>
-----------------------------------------------------------------------------
(* The file *)

Names(stack, whats) == LET held == SelectSeq(stack, LAMBDA t : t.what \in whats)
    IN [i \in DOMAIN held |-> held[i].name]
TruePath(stack) == Names(stack, {"type", "member"})
Top(stack) == stack[Len(stack)]
Pop(stack) == SubSeq(stack, 1, Len(stack) - 1)

NewLine == <<[k |-> "nl", s |-> ""]>>

\* Write a construct on a line of its own: a statement, or a header with its
\* opening brace.
\* lead is the number of annotation lines before the header.
Write ==
  /\ rest = <<>> /\ written < MaxConstructs /\ written' = written + 1
  /\ \E c \in Constructs(IF truth = <<>> THEN [what |-> "file", name |-> ""] ELSE Top(truth)) :
       LET text == NewLine \o c.text
           from == line + 1 + c.lead
       IN /\ rest' = Tokenize(text, line) /\ line' = line + Newlines(text)
          /\ truth' = IF c.opens = "" THEN truth
               ELSE Append(truth, [what |-> c.opens, name |-> c.name, from |-> from, close |-> c.close])
          /\ declared' = IF c.kind = "" THEN declared
                         ELSE Append(declared, [kind |-> c.kind, name |-> c.name, line |-> from,
                             enclosing |-> Names(truth, {"type"})])
  /\ UNCHANGED <<scopesOf, walkVars>>

\* Close the innermost construct.
Close ==
  /\ rest = <<>> /\ truth # <<>> /\ written < MaxConstructs /\ written' = written + 1
  /\ rest' = Tokenize(NewLine \o Top(truth).close, line) /\ line' = line + 1
  /\ scopesOf' = IF Top(truth).what \in {"type", "member"}
                 THEN scopesOf \cup {[path |-> TruePath(truth), from |-> Top(truth).from, to |-> line + 1]}
                 ELSE scopesOf
  /\ truth' = Pop(truth) /\ UNCHANGED <<declared, walkVars>>

Complete == rest = <<>> /\ written = MaxConstructs /\ UNCHANGED vars
-----------------------------------------------------------------------------
(* The walks *)

Reading(k) == rest # <<>> /\ rest[1].k = k
Token == rest[1]
Advance == rest' = Tail(rest) /\ UNCHANGED <<fileVars, line>>

\* The position after an annotation: its name, then a balanced list.
AnnotationEnd(ts) ==
  LET n == IF Len(ts) >= 2 /\ ts[2].k = "ident" THEN 3 ELSE 2
      count(k, j) == Cardinality({i \in n..j : ts[i].k = k})
      ends == {j \in n..Len(ts) : count("(", j) = count(")", j)}
  IN IF n > Len(ts) \/ ts[n].k # "(" THEN n ELSE IF ends = {} THEN Len(ts) + 1 ELSE Min(ends) + 1

Annotation ==
  /\ Reading("@")
  /\ IF Len(rest) >= 2 /\ rest[2].k = "ident" /\ rest[2].s = "interface"
     THEN rest' = SubSeq(rest, 3, Len(rest)) /\ unit' = [unit EXCEPT !.expect = TRUE, !.kind = "annotation"]
     ELSE rest' = SubSeq(rest, AnnotationEnd(rest), Len(rest)) /\ UNCHANGED unit
  /\ UNCHANGED <<fileVars, line, parens, namedStack, open, intervals, typeStack, scopes, declarations>>

ObserveIdent(u, s, l) ==
  LET seen == [u EXCEPT !.start = IF @ = 0 THEN l ELSE @, !.prev = s, !.prevLine = l]
  IN CASE IsClassKeyword(s) -> [seen EXCEPT !.kind = s, !.expect = TRUE]
       [] ~IsClassKeyword(s) /\ u.expect -> [seen EXCEPT !.type = s, !.typeLine = l, !.expect = FALSE]
       [] ~u.expect /\ s = "new" -> [seen EXCEPT !.new = TRUE]
       [] OTHER -> IF u.angle = 0 /\ ~u.params /\ ~IsModifier(s) THEN [seen EXCEPT !.idents = @ + 1] ELSE seen

Ident ==
  /\ Reading("ident") /\ unit' = ObserveIdent(unit, Token.s, Token.l) /\ Advance
  /\ UNCHANGED <<parens, namedStack, open, intervals, typeStack, scopes, declarations>>

\* The name before a list at depth zero names a method, unless the unit is a
\* type's, a control statement's or a new expression's.
ObserveParamListOpen(u) ==
  IF u.type # "" THEN u
  ELSE IF u.prev = "" \/ IsControlKeyword(u.prev) \/ u.new THEN [u EXCEPT !.params = TRUE]
  ELSE [u EXCEPT !.params = TRUE, !.method = u.prev, !.methodLine = u.prevLine]

ObserveAssignment(u) ==
  IF u.field = "" /\ u.method = ""
  THEN [u EXCEPT !.assigned = TRUE, !.field = u.prev, !.fieldLine = u.prevLine]
  ELSE [u EXCEPT !.assigned = TRUE]

Punctuation ==
  /\ \E k \in {"(", ")", "->", "=", "<", ">"} :
       /\ Reading(k)
       /\ unit' = CASE k = "(" -> IF parens = 0 THEN ObserveParamListOpen(unit) ELSE unit
                    [] k = "->" -> [unit EXCEPT !.arrow = TRUE]
                    [] k = "=" -> ObserveAssignment(unit)
                    [] k = "<" -> [unit EXCEPT !.angle = @ + 1]
                    [] k = ">" -> [unit EXCEPT !.angle = IF @ = 0 THEN 0 ELSE @ - 1]
                    [] OTHER -> unit
       /\ parens' = CASE k = "(" -> parens + 1 [] k = ")" -> IF parens = 0 THEN 0 ELSE parens - 1
            [] OTHER -> parens
  /\ Advance /\ UNCHANGED <<namedStack, open, intervals, typeStack, scopes, declarations>>

\* What an opening brace names in the enclosing walk, "" for an anonymous scope.
ScopeName(u, depth) == IF u.type # "" THEN u.type ELSE IF depth = 0 /\ ~u.arrow THEN u.method ELSE ""

\* Mutant: a member of its type's name is a constructor whatever precedes it.
MemberKindByName(u, types) == IF types # <<>> /\ Top(types) = u.method THEN "constructor" ELSE "method"

MemberKind(u, types) ==
  IF types # <<>> /\ Top(types) = u.method /\ u.idents <= 1 THEN "constructor" ELSE "method"

\* What an opening brace declares in the declaration walk.
ClassifyBlock(u, types) ==
  IF u.kind # "" /\ u.type # "" THEN [scope |-> "type", kind |-> u.kind, name |-> u.type, line |-> u.typeLine]
  ELSE IF u.params /\ ~u.arrow /\ u.method # ""
      THEN [scope |-> "member", kind |-> MemberKind(u, types), name |-> u.method, line |-> u.methodLine]
  ELSE [scope |-> "anonymous", kind |-> "", name |-> "", line |-> 0]

Declaration(d) == [kind |-> d.kind, name |-> d.name, line |-> d.line, enclosing |-> typeStack]

\* The enclosing walk at an opening and at a closing brace.
EnterScope ==
  LET name == ScopeName(unit, parens)
      named == IF name = "" THEN namedStack ELSE Append(namedStack, name)
  IN /\ namedStack' = named
     /\ open' = Append(open,
           [open |-> IF name # "" /\ unit.start # 0 THEN unit.start ELSE Token.l,
            named |-> name # "", path |-> named])

Interval(scope, to) == [open |-> scope.open, close |-> to, path |-> scope.path]

\* Mutant: a closing brace always pops a name.
LeaveScopeAlwaysPops ==
  IF open = <<>> THEN UNCHANGED <<open, namedStack, intervals>>
  ELSE /\ open' = Pop(open) /\ intervals' = Append(intervals, Interval(Top(open), Token.l))
       /\ namedStack' = IF namedStack # <<>> THEN Pop(namedStack) ELSE namedStack

LeaveScope ==
  IF open = <<>> THEN UNCHANGED <<open, namedStack, intervals>>
  ELSE /\ open' = Pop(open) /\ intervals' = Append(intervals, Interval(Top(open), Token.l))
       /\ namedStack' = IF Top(open).named THEN Pop(namedStack) ELSE namedStack

OpenBrace ==
  /\ Reading("{") /\ EnterScope
  /\ LET block == ClassifyBlock(unit, typeStack)
     IN /\ scopes' = Append(scopes, block.scope)
        /\ typeStack' = IF block.scope = "type" THEN Append(typeStack, block.name) ELSE typeStack
        /\ declarations' = IF block.scope = "anonymous" THEN declarations
             ELSE Append(declarations, Declaration(block))
  /\ unit' = NoUnit /\ Advance /\ UNCHANGED <<parens, intervals>>

CloseBrace ==
  /\ Reading("}") /\ LeaveScope
  /\ typeStack' = IF scopes # <<>> /\ Top(scopes) = "type" THEN Pop(typeStack) ELSE typeStack
  /\ scopes' = IF scopes = <<>> THEN scopes ELSE Pop(scopes)
  /\ unit' = NoUnit /\ Advance /\ UNCHANGED <<parens, declarations>>

\* What a semicolon in a type's body declares.
ClassifyStatement(u) ==
  IF u.params /\ ~u.arrow /\ ~u.assigned
  THEN IF u.method = "" THEN <<>> ELSE <<[kind |-> "method", name |-> u.method, line |-> u.methodLine]>>
  ELSE IF u.field # "" /\ u.assigned THEN <<[kind |-> "field", name |-> u.field, line |-> u.fieldLine]>>
  ELSE IF u.prev = "" THEN <<>> ELSE <<[kind |-> "field", name |-> u.prev, line |-> u.prevLine]>>

Semicolon ==
  /\ Reading(";")
  /\ LET found == IF scopes # <<>> /\ Top(scopes) = "type" THEN ClassifyStatement(unit) ELSE <<>>
     IN declarations' = declarations \o [i \in DOMAIN found |-> Declaration(found[i])]
  /\ unit' = NoUnit
  /\ Advance
  /\ UNCHANGED <<parens, namedStack, open, intervals, typeStack, scopes>>

ScannerNext == Write \/ Close \/ Annotation \/ Ident \/ Punctuation \/ OpenBrace \/ CloseBrace \/ Semicolon
    \/ Complete
ScannerSpec == ScannerInit /\ [][ScannerNext]_vars
-----------------------------------------------------------------------------
(* Properties *)

\* The intervals if the file ended here: open scopes close at the last line.
Intervals == intervals \o [i \in DOMAIN open |-> Interval(open[Len(open) + 1 - i], line)]

\* innermost_path: the last of the containing scopes that open latest.
InnermostPath(l) ==
  LET holds == {i \in DOMAIN Intervals : Intervals[i].open <= l /\ l <= Intervals[i].close}
      latest == {i \in holds : \A k \in holds : Intervals[k].open <= Intervals[i].open}
  IN IF holds = {} THEN <<>> ELSE Intervals[Max(latest)].path

TrueScopes ==
  scopesOf \cup {[path |-> TruePath(SubSeq(truth, 1, i)), from |-> truth[i].from, to |-> line] :
      i \in {k \in DOMAIN truth : truth[k].what \in {"type", "member"}}}

\* A line is attributed to the innermost declaration whose header or body
\* holds it, wherever the file ends: past lambdas, control blocks, anonymous
\* classes, braces in annotation arguments and headers of several lines.
LineHasItsDeclaration ==
  rest = <<>> =>
    \A l \in 1..line :
      LET holding == {s \in TrueScopes : s.from <= l /\ l <= s.to}
          deepest == {s \in holding : \A t \in holding : Len(t.path) <= Len(s.path)}
      IN IF holding = {} THEN InnermostPath(l) = <<>> ELSE \E s \in deepest : InnermostPath(l) = s.path

\* The declarations found are the file's, with their kinds, lines and
\* enclosing types: a constructor is told from a method of its class's name,
\* a field with a call from a method without a body, a local from a member.
DeclarationsFound == rest = <<>> => declarations = declared
=============================================================================
