--------------------------- MODULE ContextBundle ---------------------------
(***************************************************************************)
(* The budgeted bundle of `context` (ktsense-core/src/context.rs,          *)
(* budget.rs, ktsense-cli/src/context.rs and the counts the rendering      *)
(* prints): units in a fixed priority order, spent from one budget until   *)
(* the first that does not fit, regrouped into sections that say what was  *)
(* left out.  The file is read twice, for its skeleton and for its lines,  *)
(* and may have changed in between.                                        *)
(*                                                                         *)
(* A unit is its section and its length in bytes; its text is left out.    *)
(***************************************************************************)
EXTENDS Integers, Sequences, FiniteSets, SequencesExt, FiniteSetsExt

CONSTANTS Request,   \* bundles that may be asked for
          CallerCap, TestCallerCap

CapsAssumption == CallerCap \in Nat /\ TestCallerCap \in Nat

VARIABLES req,     \* the bundle's input
          offered, \* its units, in priority order
          next,    \* the position the emitter is at
          bound,   \* the running token bound
          pc
ctxVars == <<req, offered, next, bound, pc>>

Priority == <<"declaration", "source", "outline", "callers", "annotated", "java", "kotlin", "implementors">>

\* ByteRatioEstimator: bytes / 3.6, rounded up.
Estimate(bytes) == (5 * bytes + 17) \div 18
-----------------------------------------------------------------------------
(* source_body *)

\* Mutant: a span that runs past the lines read is not cut to them.
EndLineUnclamped(r) == IF r.spanEnd = 0 THEN r.total ELSE r.spanEnd

\* The declaration's last line, never past the end of the file as read; a
\* span without an end (0) runs to it.
EndLine(r) == IF r.spanEnd = 0 \/ r.spanEnd > r.total THEN r.total ELSE r.spanEnd

HasBody(r) == r.sections.source /\ r.located /\ r.start <= EndLine(r)
BodyLines(r) ==
  IF HasBody(r)
  THEN [i \in 1..(EndLine(r) - r.start + 1) |-> r.width[((i - 1) % Len(r.width)) + 1]]
  ELSE <<>>

\* kept_indices: each matching line and its neighbours, without repetition.
KeptIndices(r) ==
  {i \in 1..Len(BodyLines(r)) : \E h \in r.hits :
      h <= Len(BodyLines(r)) /\ i >= h - r.around /\ i <= h + r.around}

\* Mutant: a gap is marked between any two matched lines.
GapAlways(kept, k) == k > 1 \/ kept[k] > 1

\* matched_body: a run that follows dropped lines opens with a gap.
GapBefore(kept, k) == IF k = 1 THEN kept[1] > 1 ELSE kept[k] > kept[k - 1] + 1

Number == 3  \* the bytes of a line number and its colon
Gap == 4     \* the bytes of "...\n"

SourceUnits(r) ==
  LET lines == BodyLines(r)
      kept == SetToSortSeq(KeptIndices(r), <)
      unit(b) == [section |-> "source", bytes |-> b]
  IN IF ~r.matched THEN [i \in 1..Len(lines) |-> unit(lines[i])]
     ELSE [k \in 1..Len(kept) |-> unit(lines[kept[k]] + Number + (IF GapBefore(kept, k) THEN Gap ELSE 0))]
-----------------------------------------------------------------------------
(* cap_callers *)

CallersOnly(s) == s.callers /\ ~s.source /\ ~s.outline /\ ~s.implementors
Least(a, b) == IF a < b THEN a ELSE b

\* Mutant: the caps are taken from the whole list.
CapCallersTogether(r) ==
  IF CallersOnly(r.sections) THEN [production |-> r.production, test |-> r.test, cut |-> 0, testCut |-> 0]
  ELSE LET p == Least(r.production, CallerCap) t == Least(r.test, TestCallerCap)
       IN [production |-> p, test |-> t, cut |-> r.production - p, testCut |-> 0]

CapCallers(r) ==
  LET p == IF CallersOnly(r.sections) THEN r.production ELSE Least(r.production, CallerCap)
      t == IF CallersOnly(r.sections) THEN r.test ELSE Least(r.test, TestCallerCap)
  IN [production |-> p, test |-> t, cut |-> r.production - p, testCut |-> r.test - t]

TestMark == 8 \* the bytes of "  [test]"
Line == 20    \* the bytes of a list line

\* units_in_priority_order
Repeat(section, bytes, n) == [i \in 1..n |-> [section |-> section, bytes |-> bytes]]
UnitsOf(r) ==
  [declaration |-> Repeat("declaration", Line, IF r.signed THEN 1 ELSE 0),
   source |-> SourceUnits(r),
   outline |-> Repeat("outline", Line, IF r.sections.outline /\ r.located THEN r.blocks ELSE 0),
   callers |-> IF r.sections.callers
               THEN Repeat("callers", Line, CapCallers(r).production)
                   \o Repeat("callers", Line + TestMark, CapCallers(r).test)
               ELSE <<>>,
   annotated |-> Repeat("annotated", Line, IF r.sections.callers THEN r.annotated ELSE 0),
   java |-> Repeat("java", Line, IF r.sections.callers THEN r.java ELSE 0),
   kotlin |-> Repeat("kotlin", Line, IF r.sections.callers THEN r.kotlin ELSE 0),
   implementors |-> Repeat("implementors", Line, IF r.sections.implementors THEN r.implementors ELSE 0)]

\* Mutant: the lists are spent before the source.
UnitsListsFirst(r) == FlattenSeq([i \in 1..Len(Priority) |-> UnitsOf(r)[Priority[Len(Priority) + 1 - i]]])

UnitsInPriorityOrder(r) == FlattenSeq([i \in 1..Len(Priority) |-> UnitsOf(r)[Priority[i]]])
-----------------------------------------------------------------------------
(* finish, build_context and emit_within_budget *)

CtxInit ==
  /\ req \in Request
  /\ offered = <<>> /\ next = 1 /\ bound = 0 /\ pc = "resolve"

\* An ambiguous or undeclared name is answered without a bundle.
Resolve ==
  /\ pc = "resolve"
  /\ \/ pc' \in {"ambiguous", "not found"} /\ UNCHANGED offered
     \/ pc' = "emit" /\ offered' = UnitsInPriorityOrder(req)
  /\ UNCHANGED <<req, next, bound>>

Fits == next <= Len(offered) /\ bound + Estimate(offered[next].bytes) <= req.budget

\* The next unit, while the running sum stays within the budget.
Emit ==
  /\ pc = "emit" /\ Fits
  /\ bound' = bound + Estimate(offered[next].bytes) /\ next' = next + 1
  /\ UNCHANGED <<req, offered, pc>>

\* Mutant: the emitter stops one unit early when the budget is used exactly.
StopEarly ==
  /\ pc = "emit" /\ ~(Fits /\ bound + Estimate(offered[next].bytes) < req.budget) /\ pc' = "done"
  /\ UNCHANGED <<req, offered, next, bound>>

Stop ==
  /\ pc = "emit" /\ ~Fits /\ pc' = "done"
  /\ UNCHANGED <<req, offered, next, bound>>

Over == pc \in {"done", "ambiguous", "not found"} /\ UNCHANGED ctxVars

CtxNext == Resolve \/ Emit \/ Stop \/ Over
CtxSpec == CtxInit /\ [][CtxNext]_ctxVars
-----------------------------------------------------------------------------
(* Kept, Available, section: what the bundle and its rendering say *)

Emitted == SubSeq(offered, 1, next - 1)
Units(seq, section) == Len(SelectSeq(seq, LAMBDA u : u.section = section))
Kept(section) == Units(Emitted, section)
Available(section) == Units(offered, section)
Omitted(section) == Available(section) - Kept(section)

\* The Callers heading: what the budget saw and what the caps took.
CallersHeading == Available("callers") + CapCallers(req).cut + CapCallers(req).testCut

\* append_source: the range a reader is told to read for the lines left out.
OmittedFrom == req.start + Kept("source")
-----------------------------------------------------------------------------
(* Properties *)

Done == pc = "done"

\* A bundle never exceeds its budget and leaves nothing out that still fits:
\* the unit after the last emitted one would break the budget, even for a
\* budget of zero, a unit of cost zero or one that uses the budget exactly.
PrefixIsMaximal ==
  Done => /\ bound <= req.budget
          /\ next <= Len(offered) => bound + Estimate(offered[next].bytes) > req.budget

\* A section that lost units to the budget is followed by none that got any
\* (the fixed priority order), so an absent caller is never a missing one.
PriorityIsKept ==
  Done => \A i, j \in 1..Len(Priority) :
            i < j /\ Available(Priority[i]) > 0 /\ Omitted(Priority[i]) > 0 => Kept(Priority[j]) = 0

\* The Callers heading counts every caller the trace found, however the
\* caps and the budget divide them.
CallersAreCounted ==
  Done /\ req.sections.callers => CallersHeading = req.production + req.test

\* Lines and the range of the omitted ones exist in the file that was read,
\* and listed plus omitted is the declaration's span: also when the file
\* shrank after its skeleton was taken.
SourceRangeExists ==
  Done /\ HasBody(req) /\ ~req.matched =>
    /\ EndLine(req) <= req.total
    /\ Omitted("source") = EndLine(req) - OmittedFrom + 1

\* A gap is shown exactly where lines of the body are missing between two
\* matched lines or before the first.
GapsAreTrue ==
  LET kept == SetToSortSeq(KeptIndices(req), <)
  IN req.matched => \A k \in 1..Len(kept) :
         GapBefore(kept, k) <=> (kept[k] > 1 /\ kept[k] - 1 \notin KeptIndices(req))
=============================================================================
