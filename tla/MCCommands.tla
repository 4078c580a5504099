----------------------------- MODULE MCCommands -----------------------------
(***************************************************************************)
(* The instance of the commands suite.  Two clients (the least that queue) *)
(* and a daemon that may die once, one client may be stopped while it is   *)
(* connected; three frames up to one past the ceiling.                     *)
(***************************************************************************)
EXTENDS Commands

-----------------------------------------------------------------------------
(* Two declarations of the name, a third in an ignored directory, one      *)
(* outside the root and one of a similar name.                             *)

Entry(id, named, inRoot, ignored) ==
  [id |-> id, named |-> named, inRoot |-> inRoot, ignored |-> ignored]
Entries == {Entry(1, TRUE, TRUE, FALSE), Entry(2, TRUE, TRUE, FALSE), Entry(3, TRUE, TRUE, TRUE),
            Entry(4, TRUE, FALSE, FALSE), Entry(5, FALSE, TRUE, FALSE)}

-----------------------------------------------------------------------------
(* An engine that ends with an answer of up to two items, a failure with a *)
(* message, or garbage.                                                    *)

Item(line, severity) == [file |-> "A.kt", line |-> line, col |-> 1, severity |-> severity]
Output(truth, code, form, items, broken, stderr) ==
  [truth |-> truth, code |-> code, stdout |-> [form |-> form, items |-> items, broken |-> broken],
   stderr |-> stderr]
ItemLists(severities) ==
  UNION {[1..n -> {Item(line, s) : line \in 1..2, s \in severities}] : n \in 1..2}

Failures ==
  {Output("failed", code, form, <<>>, 0, TRUE) : code \in {1, 101}, form \in {"silent", "garbage"}}
Checks ==
  {Output("answered", 1, "json", items, b, noise) :
      items \in ItemLists({"error"}), b \in 1..2, noise \in BOOLEAN}
  \cup {Output("answered", 1, "json", <<>>, 1, FALSE), Output("answered", 0, "json", <<>>, 0, FALSE)}
Diagnoses ==
  {Output("answered", 0, "lines", items, 0, noise) :
      items \in ItemLists({"error", "warning", "info", "hint"}), noise \in BOOLEAN}
  \cup {Output("answered", 0, "silent", <<>>, 0, FALSE)}
Finds ==
  {Output("answered", 0, "json", items, 0, noise) : items \in ItemLists({"error"}), noise \in BOOLEAN}
  \cup {Output("answered", 1, "silent", <<>>, 0, FALSE)}
EngineOutputs(c) ==
  Failures \cup CASE c = "check" -> Checks [] c = "diagnose" -> Diagnoses [] OTHER -> Finds

-----------------------------------------------------------------------------
(* Engines of the tested version (a prerelease), another minor and another *)
(* major version, one that prints something else and one that hangs;       *)
(* daemons of this and of an older protocol.                               *)

EngineOf(said, major, minor, pre) ==
  [answer |-> said, major |-> major, minor |-> minor, pre |-> pre]
InstalledEngines ==
  {EngineOf("version", 0, 26, TRUE), EngineOf("version", 0, 27, FALSE), EngineOf("version", 1, 26, FALSE)}
  \cup {EngineOf(a, 0, 0, FALSE) : a \in {"unparsed", "hangs"}}
TestedVersion == [major |-> 0, minor |-> 26]
=============================================================================
