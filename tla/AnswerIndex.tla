---------------------------- MODULE AnswerIndex -----------------------------
(***************************************************************************)
(* The citation index the MCP server puts beside an answer, taken from the *)
(* answer's text line by line (ktsense-mcp/src/citations.rs).              *)
(*                                                                         *)
(* A line is [form, path, line, tail, word, at]: a "marker" with its word, *)
(* a "heading" or "file" line with its path, an "item" of a usage group    *)
(* with its number and what follows it, a "row" with positions, or prose.  *)
(* A path is [name, run, kotlin]: run is the longest end of the name made  *)
(* of characters the index takes for a path's.                             *)
(***************************************************************************)
EXTENDS Integers, Sequences, FiniteSets, SequencesExt

CONSTANTS Texts,       \* the answers, sequences of lines
          MAX_CITATIONS

VARIABLES
  text, at,  \* the answer, and the number of the line the scan is at
  spot,      \* how many positions of that line it has cited
  group,     \* the path that items stand under, once there is one
  scan       \* what the scan found
indexVars == <<text, at, spot, group, scan>>

NothingFound == [index |-> "", files |-> <<>>, citations |-> <<>>, omitted |-> 0]

IndexInit == text \in Texts /\ at = 1 /\ spot = 0 /\ group = <<>> /\ scan = NothingFound

IsSourcePath(path) == path.kotlin /\ path.run = path.name

NoteFile(s, name) == IF name \in ToSet(s.files) THEN s ELSE [s EXCEPT !.files = Append(@, name)]

\* Mutant: the cap is tested before the place is known to be new.
CiteCountsFirst(s, c) ==
  IF Len(s.citations) = MAX_CITATIONS THEN [s EXCEPT !.omitted = @ + 1]
  ELSE [NoteFile(s, c.path) EXCEPT !.citations = Append(@, c)]

\* Mutant: a cited file is introduced only by a heading.
CiteOnly(s, c) ==
  IF c \in ToSet(s.citations) THEN s
  ELSE IF Len(s.citations) = MAX_CITATIONS THEN [s EXCEPT !.omitted = @ + 1]
  ELSE [s EXCEPT !.citations = Append(@, c)]

\* A place is cited once, and counted beyond the cap.
Cite(s, c) ==
  IF c \in ToSet(s.citations) THEN s
  ELSE IF Len(s.citations) = MAX_CITATIONS THEN [s EXCEPT !.omitted = @ + 1]
  ELSE [NoteFile(s, c.path) EXCEPT !.citations = Append(@, c)]

NoColumn == 0
Citation(name, line, column) == [path |-> name, line |-> line, column |-> column]

Reading(form) == at <= Len(text) /\ text[at].form = form
NextLine == at' = at + 1 /\ UNCHANGED <<text, spot>>

\* The first marker stays.
Marker ==
  /\ Reading("marker") /\ scan' = [scan EXCEPT !.index = IF @ = "" THEN text[at].word ELSE @]
  /\ NextLine /\ UNCHANGED group

\* A heading, or a line, that is nothing but a Kotlin path opens a group;
\* any other heading or line leaves the group as it is.
FileLine ==
  /\ Reading("heading") \/ Reading("file")
  /\ IF IsSourcePath(text[at].path)
     THEN scan' = NoteFile(scan, text[at].path.name) /\ group' = <<text[at].path.name>>
     ELSE UNCHANGED <<scan, group>>
  /\ NextLine

\* grouped_line: a number with nothing behind it, or "in" a declaration.
IsGroupedLine(line) == line.line > 0 /\ line.tail \in {"", "in"}

Item ==
  /\ Reading("item")
  /\ scan' = IF IsGroupedLine(text[at]) /\ group # <<>>
       THEN Cite(scan, Citation(group[1], text[at].line, NoColumn)) ELSE scan
  /\ NextLine /\ UNCHANGED group

\* positions: each path:line or path:line:column whose run is a Kotlin path.
Position ==
  /\ Reading("row") /\ spot < Len(text[at].at)
  /\ LET p == text[at].at[spot + 1]
     IN scan' = IF p.path.kotlin THEN Cite(scan, Citation(p.path.run, p.line, p.column)) ELSE scan
  /\ spot' = spot + 1 /\ UNCHANGED <<text, at, group>>

RowEnds ==
  /\ Reading("row") /\ spot = Len(text[at].at)
  /\ at' = at + 1 /\ spot' = 0 /\ UNCHANGED <<text, group, scan>>

Prose == Reading("prose") /\ NextLine /\ UNCHANGED <<group, scan>>

Indexed == at > Len(text) /\ UNCHANGED indexVars

IndexNext == Marker \/ FileLine \/ Item \/ Position \/ RowEnds \/ Prose \/ Indexed
IndexSpec == IndexInit /\ [][IndexNext]_indexVars
-----------------------------------------------------------------------------
(* What the text says *)

\* The file line an item stands under.
FileAbove(t, i) ==
  LET above == {k \in 1 .. i - 1 : t[k].form = "file"}
  IN t[CHOOSE k \in above : \A j \in above : j <= k].path.name

IsNumbered(line) == line.form = "item" /\ line.line > 0

\* The places a line states.
Stated(t, i) ==
  CASE IsNumbered(t[i]) -> <<Citation(FileAbove(t, i), t[i].line, NoColumn)>>
    [] t[i].form = "row" ->
         [k \in 1 .. Len(t[i].at) |-> Citation(t[i].at[k].path.name, t[i].at[k].line, t[i].at[k].column)]
    [] OTHER -> <<>>

\* Where a text states a place: a line, and which of the line's places it is.
Spots(t) == UNION {{<<i, k>> : k \in DOMAIN Stated(t, i)} : i \in DOMAIN t}
Place(t, p) == Stated(t, p[1])[p[2]]
Before(p, q) == p[1] < q[1] \/ (p[1] = q[1] /\ p[2] < q[2])

\* The spots a scan that cited k positions of line i has been at.
SpotsTo(t, i, k) == {p \in Spots(t) : p[1] < i \/ (p[1] = i /\ p[2] <= k)}

\* What a text is taken to be, as the renderers of trace, symbols and check
\* write it: a numbered item stands under a file line, with no other file's
\* heading between them, and the paths of both and of positions are Kotlin
\* paths of path characters alone.
IsAnswer(t) ==
  /\ t \in Seq(ToSet(t))
  /\ \A i \in DOMAIN t :
       /\ t[i].form = "row" => /\ t[i].at \in Seq(ToSet(t[i].at))
                              /\ \A k \in DOMAIN t[i].at : IsSourcePath(t[i].at[k].path)
       /\ IsNumbered(t[i]) =>
            /\ IsGroupedLine(t[i])
            /\ \E k \in 1 .. i - 1 :
                 /\ t[k].form = "file" /\ IsSourcePath(t[k].path)
                 /\ \A j \in k + 1 .. i - 1 : t[j].form # "file" /\ ~ (t[j].form = "heading" /\ IsSourcePath(t[j].path))

IndexAssumption == MAX_CITATIONS \in Nat \ {0} /\ \A t \in Texts : IsAnswer(t)
-----------------------------------------------------------------------------
(* Properties *)

\* Of the spots S of t, p is where the jth place of c is stated first.
FirstStatedAt(c, j, t, S, p) ==
  /\ c[j] = Place(t, p) /\ \A i \in 1 .. j - 1 : c[i] # c[j]
  /\ {Place(t, q) : q \in {q \in S : Before(q, p)}} = {c[i] : i \in 1 .. j - 1}

\* The list c has the places of the spots S of t in the order they appear,
\* each once however often it is stated, up to the cap.
Lists(c, t, S) ==
  /\ Len(c) <= MAX_CITATIONS
  /\ \A j \in DOMAIN c : \E p \in S : FirstStatedAt(c, j, t, S, p)
  /\ Len(c) < MAX_CITATIONS => \A p \in S : Place(t, p) \in ToSet(c)

\* A client that opens the files of an answer has every file it cites, each
\* listed once.
FilesCover(f, c) ==
  /\ \A i \in DOMAIN c : c[i].path \in ToSet(f)
  /\ \A i, j \in DOMAIN f : f[i] = f[j] => i = j

\* index_answer: the citations are the places the text states, in order, each
\* once, up to the cap, and the files are theirs.
CitationsAreTheTexts == Lists(scan.citations, text, SpotsTo(text, at, spot)) /\ FilesCover(scan.files, scan.citations)
-----------------------------------------------------------------------------
(* The inductive invariant *)

PlacesOf(t) == {Place(t, p) : p \in Spots(t)}
NamesIn(t) == {t[i].path.name : i \in DOMAIN t} \cup {c.path : c \in PlacesOf(t)}
IsScan(s, places, names) ==
  /\ s.citations \in Seq(places) /\ s.files \in Seq(names) /\ s.omitted \in Nat
  /\ s = [index |-> s.index, files |-> s.files, citations |-> s.citations, omitted |-> s.omitted]

IndexTypeOK ==
  /\ text \in Texts /\ at \in 1 .. Len(text) + 1 /\ spot \in Nat
  /\ spot > 0 => at <= Len(text) /\ text[at].form = "row" /\ spot <= Len(text[at].at)
  /\ IsScan(scan, PlacesOf(text), NamesIn(text))

\* The lines above i that open a group.
Opening(t, i) == {k \in 1 .. i - 1 : t[k].form \in {"heading", "file"} /\ IsSourcePath(t[k].path)}

\* The group is the one the last of them opened.
GroupIsLast ==
  IF Opening(text, at) = {} THEN group = <<>>
  ELSE \E k \in Opening(text, at) : group = <<text[k].path.name>> /\ \A j \in Opening(text, at) : j <= k

IndexIInv == IndexTypeOK /\ GroupIsLast /\ CitationsAreTheTexts
=============================================================================
