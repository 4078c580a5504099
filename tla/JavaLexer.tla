----------------------------- MODULE JavaLexer -----------------------------
(***************************************************************************)
(* The lexical states of Java text and the kind of a site in it            *)
(* (ktsense-core/src/java_text.rs).                                        *)
(*                                                                         *)
(* A source is a sequence of characters; Bytes and Units give a            *)
(* character's width in UTF-8 and in UTF-16.  The lexer records one        *)
(* [offset, state] per character; every scan of Java text indexes that     *)
(* record by character.                                                    *)
(***************************************************************************)
EXTENDS Integers, Sequences, FiniteSets, SequencesExt, FiniteSetsExt

CONSTANTS Sources \* [chars, truth]: truth[i] is the kind the language gives character i

VARIABLES source, state, index, classified
lexVars == <<source, state, index, classified>>

Quote == "dq"
Bytes(c) == CASE c = "emoji" -> 4 [] c = "accent" -> 2 [] OTHER -> 1
Units(c) == IF c = "emoji" THEN 2 ELSE 1

Chars == source.chars
Offset(i) == FoldLeft(LAMBDA sum, c : sum + Bytes(c), 0, SubSeq(Chars, 1, i - 1))
At(i) == IF i \in DOMAIN Chars THEN Chars[i] ELSE "end"
ThreeQuotes(i) == At(i) = Quote /\ At(i + 1) = Quote /\ At(i + 2) = Quote

LexInit == source \in Sources /\ state = "code" /\ index = 1 /\ classified = <<>>

\* One turn of the loop: the current character and those that go with it are
\* recorded in the states given, then the lexer is in state next.
Record(states, next) ==
  /\ classified' = classified \o [k \in DOMAIN states |-> [offset |-> Offset(index + k - 1),
       state |-> states[k]]]
  /\ index' = index + Len(states) /\ state' = next /\ UNCHANGED source

Reading(s) == index <= Len(Chars) /\ state = s

Code ==
  /\ Reading("code")
  /\ \/ At(index) = "/" /\ At(index + 1) = "/" /\ Record(<<"code", "code">>, "line comment")
     \/ At(index) = "/" /\ At(index + 1) = "*" /\ Record(<<"code", "code">>, "block comment")
     \/ ThreeQuotes(index) /\ Record(<<"code", "text block", "text block">>, "text block")
     \/ At(index) = Quote /\ ~ThreeQuotes(index) /\ Record(<<"code">>, "string")
     \/ At(index) = "sq" /\ Record(<<"code">>, "char")
     \/ /\ At(index) \notin {Quote, "sq"} /\ ~(At(index) = "/" /\ At(index + 1) \in {"/", "*"})
        /\ Record(<<"code">>, "code")

LineComment ==
  Reading("line comment") /\ Record(<<state>>, IF At(index) = "nl" THEN "code" ELSE state)

BlockComment ==
  /\ Reading("block comment")
  /\ IF At(index) = "*" /\ At(index + 1) = "/" THEN Record(<<state, state>>, "code")
       ELSE Record(<<state>>, state)

\* Mutant: a backslash does not take the next character with it.
LiteralUnescaped(s, close) ==
  Reading(s) /\ Record(<<state>>, IF At(index) = close THEN "code" ELSE state)

\* Mutant: the escaped character is recorded also past the end.
LiteralPastEnd(s, close) ==
  /\ Reading(s)
  /\ IF At(index) = "\\" THEN Record(<<state, state>>, state)
     ELSE Record(<<state>>, IF At(index) = close THEN "code" ELSE state)

\* A string or character literal; an escape takes the next character with
\* it, if there is one.
Literal(s, close) ==
  /\ Reading(s)
  /\ IF At(index) = "\\" /\ index < Len(Chars) THEN Record(<<state, state>>, state)
     ELSE Record(<<state>>, IF At(index) = close THEN "code" ELSE state)

TextBlock ==
  /\ Reading("text block")
  /\ IF ThreeQuotes(index) THEN Record(<<state, state, state>>, "code") ELSE Record(<<state>>, state)

Lexed == index > Len(Chars) /\ UNCHANGED lexVars

LexNext ==
  \/ Code \/ LineComment \/ BlockComment \/ TextBlock
  \/ Literal("string", Quote) \/ Literal("char", "sq") \/ Lexed
LexSpec == LexInit /\ [][LexNext]_lexVars
-----------------------------------------------------------------------------
(* Classification of sites *)

SiteKind(s) ==
  CASE s = "code" -> "code" [] s \in {"line comment", "block comment"} -> "comment" [] OTHER -> "string"

\* The index of the first character of a line; 0 past the last line.
LineStart(line) ==
  IF line = 1 THEN 1
  ELSE LET starts == {i + 1 : i \in {k \in DOMAIN Chars :
      At(k) = "nl" /\ Cardinality({j \in 1..k : At(j) = "nl"}) = line - 1}}
       IN IF starts = {} THEN 0 ELSE CHOOSE i \in starts : TRUE

\* byte_offset_of, as the index of the character at a line and a UTF-16
\* column, 0 where no character of the line starts there.
CharacterAt(line, column) ==
  LET from == LineStart(line)
      on == {i \in DOMAIN Chars : from > 0 /\ i >= from /\ ~\E k \in from..i : At(k) = "nl"}
      units(i) == FoldLeft(LAMBDA sum, c : sum + Units(c), 0, SubSeq(Chars, from, i - 1))
      at == {i \in on : units(i) + 1 = column}
  IN IF at = {} THEN 0 ELSE CHOOSE i \in at : TRUE

\* classify_java_sites for one site: code where the site is not located.
ClassifyJavaSite(line, column) ==
  LET i == CharacterAt(line, column)
      hits == {k \in DOMAIN classified : i > 0 /\ classified[k].offset = Offset(i)}
  IN IF hits = {} THEN "code" ELSE SiteKind(classified[Max(hits)].state)
-----------------------------------------------------------------------------
(* Properties *)

Done == index > Len(Chars)

\* Whatever the text, the lexer records exactly one state per character, in
\* order: the scans index the record by character and would otherwise panic.
OneStatePerCharacter ==
  Done => /\ Len(classified) = Len(Chars)
          /\ \A i \in DOMAIN classified : classified[i].offset = Offset(i)

\* Where a character stands, counted independently of the lexer.
LineOf(i) == 1 + Cardinality({k \in 1..(i - 1) : At(k) = "nl"})
ColumnOf(i) ==
  LET before == {k \in 1..(i - 1) : ~\E j \in k..(i - 1) : At(j) = "nl"}
  IN 1 + Cardinality(before) + Cardinality({k \in before : At(k) = "emoji"})

\* A name is code, comment or string as the language has it, found by its
\* line and UTF-16 column, also after wide characters, escapes and comment
\* marks inside literals.
NamesClassified ==
  Done => \A i \in DOMAIN Chars : At(i) = "name" => ClassifyJavaSite(LineOf(i), ColumnOf(i)) = source.truth[i]
=============================================================================
