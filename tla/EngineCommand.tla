--------------------------- MODULE EngineCommand ----------------------------
(***************************************************************************)
(* One engine command (check, diagnose, find) from its spawn to what the   *)
(* caller is told: the bounded child of ktsense-lsp/src/passthrough.rs and *)
(* symbols.rs, the exit and streams of ktsense-cli/src/main.rs, and the    *)
(* outcome the MCP server reads from them (ktsense-mcp/src/server.rs).     *)
(*                                                                         *)
(* An output is [truth, code, stdout, stderr]: truth is what the engine    *)
(* did ("answered" with items, or "failed"); stdout is a parsed answer     *)
(* [items, broken], "silent" or "garbage".  An item of check or diagnose   *)
(* is a place with a severity.                                             *)
(***************************************************************************)
EXTENDS Integers, Sequences, FiniteSets

CONSTANTS Outputs(_) \* the outputs the engine may end a command with

Commands == {"check", "diagnose", "find"}
Item == [file : STRING, line : Nat, col : Nat, severity : STRING]

\* What the commands take on trust of the engine: it prints a report, or ends a
\* diagnose with 0, only when it ran to an answer, and silence then means none.
EngineContract ==
  /\ \A c \in Commands : \A o \in Outputs(c) : o.stdout.items \in Seq(Item) /\ o.stdout.broken \in Nat
  /\ \A o \in Outputs("check") : o.stdout.form = "json" => o.truth = "answered"
  /\ \A o \in Outputs("diagnose") : o.code = 0 /\ o.stdout.form \in {"silent", "lines"} =>
       o.truth = "answered" /\ (o.stdout.form = "silent" => o.stdout.items = <<>>)

VARIABLES command, child, output, pc, result
engineVars == <<command, child, output, pc, result>>

Nothing == [truth |-> "none", code |-> 0, stdout |-> [form |-> "silent", items |-> <<>>, broken |-> 0],
    stderr |-> FALSE]

EngineInit ==
  /\ command \in Commands
  /\ child = "none"
  /\ output = Nothing
  /\ pc = "start"
  /\ result = [kind |-> "none", items |-> <<>>, broken |-> 0]

Error(why) == [kind |-> why, items |-> <<>>, broken |-> 0]
IsError(r) == r.kind \notin {"none", "report"}

\* The binary may be missing.
Spawn ==
  /\ pc = "start"
  /\ \/ child' = "running" /\ pc' = "waiting" /\ UNCHANGED result
     \/ child' = "none" /\ pc' = "parsed" /\ result' = Error("spawn")
  /\ UNCHANGED <<command, output>>

\* The child ends by itself, with an answer, a failure or a signal.
ChildEnds ==
  /\ child = "running" /\ output' \in Outputs(command) /\ child' = "ended"
  /\ UNCHANGED <<command, pc, result>>

\* Both pipes are drained to their end.
Captured ==
  /\ pc = "waiting" /\ child = "ended" /\ pc' = "captured"
  /\ UNCHANGED <<command, child, output, result>>

\* Mutant: the child outlives the command that gave up on it.
TimeoutLeavesChild ==
  /\ pc = "waiting" /\ pc' = "parsed" /\ result' = Error("timeout")
  /\ UNCHANGED <<command, child, output>>

\* Mutant: the bound covers the pipes and not a child that never ends.
TimeoutOnceEnded ==
  /\ pc = "waiting" /\ child = "ended" /\ pc' = "parsed" /\ result' = Error("timeout")
  /\ UNCHANGED <<command, child, output>>

\* The bound passes, or a pipe fails, while the child runs or has just
\* ended; the child is killed as its handle is dropped.
Timeout ==
  /\ pc = "waiting" /\ pc' = "parsed" /\ result' \in {Error("timeout"), Error("io")}
  /\ child' = "ended" /\ UNCHANGED <<command, output>>

Report(items, broken) == [kind |-> "report", items |-> items, broken |-> broken]

\* A check's report is read whatever the exit says.
ParseCheck(o) ==
  IF o.stdout.form # "json" THEN Error("unparseable") ELSE Report(o.stdout.items, o.stdout.broken)

\* "information" is read as info.
Severities == {"error", "warning", "info"}

\* Mutant: the exit of diagnose is not looked at.
ParseDiagnoseAnyExit(o) ==
  IF o.stdout.form = "silent" THEN Report(<<>>, 0)
  ELSE IF o.stdout.form # "lines" \/ \E i \in DOMAIN o.stdout.items :
      o.stdout.items[i].severity \notin Severities
  THEN Error("unparseable") ELSE Report(o.stdout.items, 0)

\* A diagnose fails by its exit; one line that is not a diagnostic, or has
\* another severity, fails the whole report.
ParseDiagnose(o) ==
  IF o.code # 0 THEN Error("failed")
  ELSE IF o.stdout.form = "silent" THEN Report(<<>>, 0)
  ELSE IF o.stdout.form # "lines" \/ \E i \in DOMAIN o.stdout.items :
      o.stdout.items[i].severity \notin Severities
  THEN Error("unparseable") ELSE Report(o.stdout.items, 0)

\* A find that prints nothing matched nothing, unless stderr has a message.
ParseFind(o) ==
  IF o.stdout.form = "silent" THEN IF o.stderr THEN Error("failed") ELSE Report(<<>>, 0)
  ELSE IF o.stdout.form # "json" THEN Error("unparseable") ELSE Report(o.stdout.items, 0)

ParseOf(c, o) ==
  CASE c = "check" -> ParseCheck(o) [] c = "diagnose" -> ParseDiagnose(o) [] OTHER -> ParseFind(o)

Parse ==
  /\ pc = "captured" /\ pc' = "parsed" /\ result' = ParseOf(command, output)
  /\ UNCHANGED <<command, child, output>>

Settled == pc = "parsed" /\ UNCHANGED engineVars

EngineNext == Spawn \/ ChildEnds \/ Captured \/ Timeout \/ Parse \/ Settled
\* The runtime drives the command and its timer; the child need never end.
EngineSpec == EngineInit /\ [][EngineNext]_engineVars /\ WF_engineVars(Spawn)
    /\ WF_engineVars(Timeout \/ Captured) /\ WF_engineVars(Parse)
-----------------------------------------------------------------------------
(* What the command line and the MCP server say of a check *)

HasErrors(r) == r.broken > 0 \/ r.items # <<>>

\* check: exit and streams.
CheckInvocation(r) ==
  IF IsError(r) THEN [code |-> 1, stdout |-> FALSE, stderr |-> TRUE]
  ELSE [code |-> IF HasErrors(r) THEN 1 ELSE 0, stdout |-> TRUE, stderr |-> FALSE]

\* Mutant: exit 1 is an answer whichever stream carried it.
CheckOutcomeByExit(i) ==
  CASE i.code = 0 -> "clean" [] i.code = 1 -> "findings" [] OTHER -> "execution_failure"

CheckOutcome(i) ==
  CASE i.code = 0 -> "clean" [] i.code = 1 /\ i.stdout /\ ~i.stderr -> "findings"
      [] OTHER -> "execution_failure"

Place(item) == [file |-> item.file, line |-> item.line, col |-> item.col]

\* findings: the places the rendered report cites, each once.
Findings(r) == Cardinality({Place(r.items[i]) : i \in DOMAIN r.items})
-----------------------------------------------------------------------------
(* Properties *)

\* Every command ends within its bound, also when the engine never does.
Told == pc = "parsed"
Outcome == CheckOutcome(CheckInvocation(result))

\* A check is called clean, or to have findings, exactly when the engine ran
\* to an answer that says so, and counts each place once; a missing, failed,
\* killed or late engine is an execution failure although its exit is that
\* of a check with findings.
CheckOutcomeIsTheEngines ==
  Told /\ command = "check" =>
    /\ (Outcome = "execution_failure") = IsError(result)
    /\ Outcome = "clean" => output.truth = "answered" /\ output.stdout.items = <<>>
         /\ output.stdout.broken = 0
    /\ Outcome = "findings" => output.truth = "answered" /\ (output.stdout.broken > 0 \/ Findings(result) > 0)

\* No diagnostics are reported only where the engine found none, and all
\* that it found otherwise.
DiagnosticsAreTheEngines ==
  Told /\ command = "diagnose" /\ ~IsError(result) =>
      output.truth = "answered" /\ result.items = output.stdout.items

\* No engine child outlives the command that spawned it.
NoChildLeft == Told => child # "running"

\* check, diagnose: what is reported of an engine's run is what the engine said,
\* a failure is neither clean nor a finding, and no child outlives its command.
EngineIsReportedTruly == CheckOutcomeIsTheEngines /\ DiagnosticsAreTheEngines /\ NoChildLeft

\* What makes it inductive: a child runs only while it is waited for, one that has
\* ended by itself left an output of its command, and what is told is an error or
\* what was parsed of that output.
EngineIInv ==
  /\ command \in Commands
  /\ pc = "start" => child = "none"
  /\ child = "running" => pc = "waiting"
  /\ pc = "captured" \/ (pc = "waiting" /\ child = "ended") => output \in Outputs(command)
  /\ Told => IsError(result) \/ (output \in Outputs(command) /\ result = ParseOf(command, output))
=============================================================================
