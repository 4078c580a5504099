----------------------------- MODULE NameColumn -----------------------------
(***************************************************************************)
(* The column of a declaration's name, corrected from the place the engine *)
(* reports, and the LSP position built from it (ktsense-lsp/src/symbols.rs)*)
(*                                                                         *)
(* A source line is a sequence of pieces: "name" (the queried identifier), *)
(* "letter" and "mark" (one character, the first part of an identifier),   *)
(* "wide" (one character, two UTF-16 units).  A file may be edited while   *)
(* one answer's candidates are being corrected.  A single candidate in     *)
(* UTF-16 units is a call of name_column_near with an LSP position.        *)
(***************************************************************************)
EXTENDS Integers, Sequences, FiniteSets, SequencesExt, FiniteSetsExt

CONSTANTS Files,      \* file names
          Lines,      \* the texts of the declaration line
          Candidates, \* sequences of [file, unit, at]: at is the reported column
          NameLength

NameAssumption == NameLength \in Nat \ {0}

\* The text of a file that cannot be read, in which nothing is found.
Unreadable == <<"unreadable">>

VARIABLES disk, candidates, at, sources, columns
columnVars == <<disk, candidates, at, sources, columns>>

CharsOf(piece) == IF piece = "name" THEN NameLength ELSE 1
UnitsOf(piece) == IF piece = "name" THEN NameLength ELSE IF piece = "wide" THEN 2 ELSE 1
Total(Width(_), text, n) == FoldLeft(LAMBDA sum, piece : sum + Width(piece), 0, SubSeq(text, 1, n))

\* 1-based character column and 0-based UTF-16 offset of a piece.
ColumnOf(text, i) == 1 + Total(CharsOf, text, i - 1)
OffsetOf(text, i) == Total(UnitsOf, text, i - 1)

ColumnInit ==
  /\ disk \in [Files -> Lines \cup {Unreadable}] /\ candidates \in Candidates
  /\ at = 1 /\ sources = [f \in {} |-> Unreadable] /\ columns = <<>>

\* whole_word_columns: not part of a longer identifier.
WholeWords(text) ==
  {i \in DOMAIN text : text[i] = "name" /\ (i = 1 \/ text[i - 1] \notin {"name", "letter"})
      /\ (i = Len(text) \/ text[i + 1] \notin {"name", "letter"})}

\* Mutant: a UTF-16 offset is taken for a character column.
CharacterColumnUnconverted(text, units) == units + 1

\* The character a UTF-16 offset falls in, one past the last beyond the end.
CharacterColumn(text, units) ==
  LET chars == FoldLeft(LAMBDA seen, piece :
          seen \o [k \in 1..CharsOf(piece) |-> UnitsOf(piece) \div CharsOf(piece)], <<>>, text)
      holding == {c \in DOMAIN chars : units < FoldLeft(LAMBDA a, b : a + b, 0, SubSeq(chars, 1, c))}
  IN IF holding = {} THEN Len(chars) + 1 ELSE Min(holding)

Distance(a, b) == IF a < b THEN b - a ELSE a - b

\* The whole word nearest the anchor, the earlier of two; 0 for none.
Nearest(text, anchor) ==
  LET found == {ColumnOf(text, i) : i \in WholeWords(text)}
      near == {c \in found : \A d \in found : Distance(c, anchor) <= Distance(d, anchor)}
  IN IF found = {} THEN 0 ELSE Min(near)

Anchor(text, c) == IF c.unit = "character" THEN c.at ELSE CharacterColumn(text, c.at)

\* Mutant: the file is read again for every candidate.
SourceReread(file) == disk[file]

\* A file is read for its first candidate and kept, failure included.
Source(file) == IF file \in DOMAIN sources THEN sources[file] ELSE disk[file]

\* One candidate: the reported column stays where the name is not found.
Correct ==
  /\ at <= Len(candidates)
  /\ LET c == candidates[at]
         text == Source(c.file)
         column == Nearest(text, Anchor(text, c))
     IN /\ sources' = [f \in DOMAIN sources \cup {c.file} |-> IF f = c.file THEN text ELSE sources[f]]
        /\ columns' = Append(columns,
              [column |-> IF column = 0 THEN c.at ELSE column, text |-> text, found |-> column # 0])
  /\ at' = at + 1 /\ UNCHANGED <<disk, candidates>>

\* A file changes while the answer is being put together.
Edit ==
  /\ at \in 2..Len(candidates)
  /\ \E f \in Files, text \in Lines \cup {Unreadable} : disk' = [disk EXCEPT ![f] = text]
  /\ UNCHANGED <<candidates, at, sources, columns>>

Corrected == at > Len(candidates) /\ UNCHANGED columnVars

ColumnNext == Correct \/ Edit \/ Corrected
ColumnSpec == ColumnInit /\ [][ColumnNext]_columnVars

-----------------------------------------------------------------------------
(* Properties *)

\* An engine position that is exact, in either of its units, is kept: the
\* name under it is the one reported, also after wide characters and where
\* the name is written twice.
ExactPositionsKept ==
  \A i \in DOMAIN columns : \A k \in WholeWords(columns[i].text) :
    /\ candidates[i].unit = "utf16" /\ candidates[i].at = OffsetOf(columns[i].text, k) =>
         columns[i].column = ColumnOf(columns[i].text, k)
    /\ candidates[i].unit = "character" /\ candidates[i].at = ColumnOf(columns[i].text, k) =>
         columns[i].column = candidates[i].at

\* The candidates of one file are corrected against one text of it, whatever
\* happens to the file meanwhile.
OneTextPerFile ==
  \A i, k \in DOMAIN columns : candidates[i].file = candidates[k].file => columns[i].text = columns[k].text

\* A corrected candidate's file is among the kept ones, with the text that
\* the candidate was corrected against.
ColumnIInv ==
  /\ at \in Nat \ {0} /\ Len(columns) = at - 1 /\ columns \in Seq({columns[i] : i \in DOMAIN columns})
  /\ \A i \in DOMAIN columns :
       candidates[i].file \in DOMAIN sources /\ sources[candidates[i].file] = columns[i].text
=============================================================================
