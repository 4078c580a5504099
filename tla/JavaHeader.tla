----------------------------- MODULE JavaHeader -----------------------------
(***************************************************************************)
(* The supertypes a Java type header names (supertypes_in_header and       *)
(* push_current in ktsense-core/src/java_enclosing.rs).                    *)
(*                                                                         *)
(* A header is a sequence of words and punctuation, comments and literals  *)
(* already left out; a dot and other marks are read and ignored.           *)
(***************************************************************************)
EXTENDS Integers, Sequences

CONSTANTS Headers, \* [words, supers]: supers are the names the clauses give
          Marks    \* the words that are punctuation

VARIABLES header, index, inClause, angles, current, supertypes
headerVars == <<header, index, inClause, angles, current, supertypes>>

HeaderInit ==
  /\ header \in Headers /\ index = 1
  /\ inClause = FALSE /\ angles = 0 /\ current = "" /\ supertypes = <<>>

Word == header.words[index]
Reading == index <= Len(header.words)
Next == index' = index + 1 /\ UNCHANGED header

\* Take the pending name, keeping it when a clause is open.
PushCurrent(open) ==
  /\ current' = ""
  /\ supertypes' = IF current # "" /\ open THEN Append(supertypes, current) ELSE supertypes

\* Mutant: the words of a type argument count.
NameInArguments ==
  /\ Reading /\ Word \notin Marks \cup {"extends", "implements", "permits"}
  /\ current' = IF inClause THEN Word ELSE current
  /\ Next /\ UNCHANGED <<inClause, angles, supertypes>>

\* The last name before a comma or a keyword is the one kept, so a qualified
\* name gives its last segment.
Name ==
  /\ Reading /\ Word \notin Marks \cup {"extends", "implements", "permits"}
  /\ current' = IF angles = 0 /\ inClause THEN Word ELSE current
  /\ Next /\ UNCHANGED <<inClause, angles, supertypes>>

Keyword ==
  /\ Reading /\ Word \in {"extends", "implements", "permits"}
  /\ IF angles = 0 THEN PushCurrent(inClause) /\ inClause' = (Word # "permits")
     ELSE UNCHANGED <<current, supertypes, inClause>>
  /\ Next /\ UNCHANGED angles

Angle ==
  /\ Reading /\ Word \in {"<", ">"}
  /\ angles' = IF Word = "<" THEN angles + 1 ELSE IF angles = 0 THEN 0 ELSE angles - 1
  /\ Next /\ UNCHANGED <<inClause, current, supertypes>>

Comma ==
  /\ Reading /\ Word = ","
  /\ IF angles = 0 /\ inClause THEN PushCurrent(TRUE) ELSE UNCHANGED <<current, supertypes>>
  /\ Next /\ UNCHANGED <<inClause, angles>>

\* A brace or semicolon, as in a component's annotation, ends the clause.
Brace ==
  /\ Reading /\ Word \in {"{", ";"}
  /\ IF angles = 0 THEN PushCurrent(inClause) /\ inClause' = FALSE
       ELSE UNCHANGED <<inClause, current, supertypes>>
  /\ Next /\ UNCHANGED angles

Other ==
  Reading /\ Word \in Marks \ {"<", ">", ",", "{", ";"} /\ Next
      /\ UNCHANGED <<inClause, angles, current, supertypes>>

End ==
  /\ index = Len(header.words) + 1 /\ PushCurrent(inClause)
  /\ index' = index + 1 /\ UNCHANGED <<header, inClause, angles>>

Read == index > Len(header.words) + 1 /\ UNCHANGED headerVars

HeaderNext == Name \/ Keyword \/ Angle \/ Comma \/ Brace \/ Other \/ End \/ Read
HeaderSpec == HeaderInit /\ [][HeaderNext]_headerVars
-----------------------------------------------------------------------------
(* Properties *)

\* The supertypes are the simple names of the extends and implements clauses
\* in order: not a type parameter's bound, a type argument, a record's
\* component, an annotation's name or a permitted subtype.
ClausesOnly == index > Len(header.words) + 1 => supertypes = header.supers
=============================================================================
