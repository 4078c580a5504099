------------------------------ MODULE WordScan ------------------------------
(***************************************************************************)
(* word_bounded_matches (ktsense-cli/src/text_refs.rs): the whole-word     *)
(* occurrences of a name in a line, found by byte offset and reported by   *)
(* UTF-16 column.  A character is its bytes, its UTF-16 units and whether  *)
(* it may continue an ASCII identifier.                                    *)
(***************************************************************************)
EXTENDS Integers, Sequences, FiniteSets, FiniteSetsExt

CONSTANTS Lines, Symbols \* sequences of characters

LineAssumption == \A l \in Lines : l \in Seq({l[i] : i \in DOMAIN l})

VARIABLES line, symbol, from, found, pc
scanVars == <<line, symbol, from, found, pc>>

Units(c) == IF c = "wide" THEN 2 ELSE 1
Bytes(c) == CASE c = "wide" -> 4 [] c = "accent" -> 2 [] OTHER -> 1

\* is_identifier_byte: a non-ASCII byte is a boundary.
IsIdentifier(c) == c \in {"a", "b"}

\* The byte offset of the i-th character.
Offset(i) == MapThenSumSet(LAMBDA k : Bytes(line[k]), 1..(i - 1))
Boundary(b) == \E i \in 1..(Len(line) + 1) : Offset(i) = b

MatchesAt(i) == i + Len(symbol) - 1 <= Len(line) /\ SubSeq(line, i, i + Len(symbol) - 1) = symbol
WholeWord(i) == /\ i = 1 \/ ~IsIdentifier(line[i - 1])
                /\ i + Len(symbol) > Len(line) \/ ~IsIdentifier(line[i + Len(symbol)])

\* Mutant: the column is counted in bytes.
ColumnBytes(i) == Offset(i) + 1

Column(i) == MapThenSumSet(LAMBDA k : Units(line[k]), 1..(i - 1)) + 1

ScanInit ==
  /\ line \in Lines /\ symbol \in Symbols
  /\ from = 0 /\ found = {} /\ pc = "find"

\* The next occurrence from a byte offset; the search resumes one byte on.
Find ==
  /\ pc = "find" /\ Boundary(from)
  /\ \E i \in 1..Len(line) :
       /\ Offset(i) >= from /\ MatchesAt(i)
       /\ \A k \in 1..(i - 1) : Offset(k) >= from => ~MatchesAt(k)
       /\ found' = IF WholeWord(i) THEN found \cup {Column(i)} ELSE found
       /\ from' = Offset(i) + 1
  /\ UNCHANGED <<line, symbol, pc>>

Exhausted ==
  /\ pc = "find" /\ Boundary(from) /\ ~\E i \in 1..Len(line) : Offset(i) >= from /\ MatchesAt(i)
  /\ pc' = "done" /\ UNCHANGED <<line, symbol, from, found>>

\* A string is not sliced inside a character: the slice panics.
Panic ==
  /\ pc = "find" /\ ~Boundary(from)
  /\ pc' = "panic" /\ UNCHANGED <<line, symbol, from, found>>

Scanned == pc \in {"done", "panic"} /\ UNCHANGED scanVars

ScanNext == Find \/ Exhausted \/ Panic \/ Scanned
ScanSpec == ScanInit /\ [][ScanNext]_scanVars
-----------------------------------------------------------------------------
(* Properties *)

Words == {i \in 1..Len(line) : MatchesAt(i) /\ WholeWord(i)}

\* The column a reader counts: one for each character before, one more for
\* each outside the basic plane.
Counted(i) == i + Cardinality({k \in 1..(i - 1) : line[k] = "wide"})
Occurrences == {Counted(i) : i \in Words}

\* A scan that ends reports the UTF-16 column of every whole-word occurrence
\* and of nothing else, whatever characters precede or separate them.
ColumnsAreOccurrences == pc = "done" => found = Occurrences

\* A scan panics only for a name whose first letter takes several bytes, and
\* only after it met that name: any other scan ends with an answer.
PanicsPastAsciiOnly ==
  pc = "panic" => Bytes(symbol[1]) > 1 /\ \E i \in 1..Len(line) : MatchesAt(i)

\* Until then it has reported those before the byte it searches from.
ScanIInv ==
  /\ line \in Lines /\ from \in Nat
  /\ found = {Column(i) : i \in {k \in Words : Offset(k) < from}}
  /\ pc = "done" => \A k \in Words : Offset(k) < from
=============================================================================
