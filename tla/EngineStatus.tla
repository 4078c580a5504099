---------------------------- MODULE EngineStatus ----------------------------
(***************************************************************************)
(* The status command and the launch it foretells: discovery and version   *)
(* gate of the engine (ktsense-lsp/src/lib.rs, version.rs) and the two     *)
(* observers status joins (ktsense-cli/src/status.rs), while engines are   *)
(* installed and daemons come and go.                                      *)
(*                                                                         *)
(* An engine is [answer, major, minor, pre]: what --version does (one of   *)
(* "version", "unparsed", "silent", "failing", "hangs") and what it says.  *)
(***************************************************************************)
EXTENDS Integers, FiniteSets

CONSTANTS Engines,          \* the engines that may be installed
          Protocols,        \* the protocol versions of daemons
          PROTOCOL_VERSION, \* this build's
          Pin,              \* the tested engine, [major, minor]
          MaxInstalled,     \* bound: engines installed at first
          MaxChanges        \* bound: changes of the surroundings

StatusAssumption ==
  /\ Engines \subseteq [answer : {"version", "unparsed", "silent", "failing", "hangs"},
                      major : Nat, minor : Nat, pre : BOOLEAN]
  /\ PROTOCOL_VERSION \in Protocols /\ {MaxInstalled, MaxChanges} \subseteq Nat

VARIABLES installed, daemon, changes, probe, engine, observer, report, heard, launched
statusVars == <<installed, daemon, changes, probe, engine, observer, report, heard, launched>>

Absent == [answer |-> "absent", major |-> 0, minor |-> 0, pre |-> FALSE]
Nowhere == "nowhere"
NoDaemon == 0
NotLaunched == [decision |-> "none", from |-> Absent]
NotSeen == [compatibility |-> "none", from |-> Absent]
Unseen == [state |-> "none", mismatch |-> NoDaemon, snapshot |-> NoDaemon]

StatusInit ==
  /\ installed \in [{"override", "libexec", "path"} -> Engines \cup {Absent}]
  /\ Cardinality({place \in DOMAIN installed : installed[place] # Absent}) <= MaxInstalled
  /\ daemon \in [listening : Protocols \cup {NoDaemon}, file : {FALSE, TRUE}]
  /\ (daemon.listening # NoDaemon => daemon.file)
  /\ changes = 0
  /\ probe = Nowhere
  /\ engine = NotSeen
  /\ observer = "start"
  /\ report = Unseen
  /\ heard = {}
  /\ launched = NotLaunched
-----------------------------------------------------------------------------
(* The engine and its version *)

\* The first candidate that exists; the bare name, looked up on PATH, last.
LocateBinary ==
  CASE installed["override"] # Absent -> "override"
    [] installed["override"] = Absent /\ installed["libexec"] # Absent -> "libexec"
    [] OTHER -> "path"

Compare(e) ==
  CASE e.major # Pin.major -> "unsupported"
    [] e.major = Pin.major /\ e.minor # Pin.minor -> "untested"
    [] OTHER -> "supported"

Classify(e) ==
  CASE e.answer = "version" -> Compare(e) [] e.answer = "unparsed" -> "unsupported" [] OTHER -> "unavailable"

\* Mutant: any other version is refused.
AssessStrictly(e) ==
  CASE e.answer # "version" -> "warned" [] e.answer = "version" /\ Compare(e) # "supported" -> "refused"
      [] OTHER -> IF e.pre THEN "warned" ELSE "silent"

\* Only another major version is refused; what cannot be told is a warning.
Assess(e) ==
  CASE e.answer # "version" -> "warned" [] e.answer = "version" /\ Compare(e) = "unsupported" -> "refused"
    [] e.answer = "version" /\ Compare(e) = "untested" -> "warned"
    [] OTHER -> IF e.pre THEN "warned" ELSE "silent"

\* observe_engine runs the located binary with --version.
ObserveEngine ==
  /\ probe = Nowhere /\ engine = NotSeen /\ probe' = LocateBinary
  /\ UNCHANGED <<installed, daemon, changes, engine, observer, report, heard, launched>>

Reported(e) ==
  /\ engine' = [compatibility |-> Classify(e), from |-> installed[probe]] /\ probe' = Nowhere
  /\ UNCHANGED <<installed, daemon, changes, observer, report, heard, launched>>
Late(e) == [e EXCEPT !.answer = "hangs"]

\* The binary answers, fails, or is not there.
ProbeEnds == probe # Nowhere /\ installed[probe].answer # "hangs" /\ Reported(installed[probe])

\* Mutant: the probe waits for its child to end.
ProbeTimesOutNever == probe # Nowhere /\ installed[probe].answer # "hangs" /\ Reported(Late(installed[probe]))

\* The bound of the probe passes; also a binary about to answer meets it.
ProbeTimesOut == probe # Nowhere /\ installed[probe] # Absent /\ Reported(Late(installed[probe]))

\* A later command launches the engine after its own check.
Launch ==
  /\ engine # NotSeen /\ observer = "done" /\ launched = NotLaunched
  /\ \E e \in {installed[LocateBinary], Late(installed[LocateBinary])} :
       launched' = [decision |-> Assess(e), from |-> installed[LocateBinary]]
  /\ UNCHANGED <<installed, daemon, changes, probe, engine, observer, report, heard>>
-----------------------------------------------------------------------------
(* The daemon *)

State == IF daemon.listening # NoDaemon THEN "running" ELSE IF daemon.file THEN "stale" ELSE "absent"

Observed(r, next) ==
  /\ report' = r /\ observer' = next /\ heard' = heard \cup ({daemon.listening} \ {NoDaemon})
  /\ UNCHANGED <<installed, daemon, changes, probe, engine, launched>>

ObserveDaemon ==
  observer = "start" /\ Observed([report EXCEPT !.state = State],
                                 IF State = "running" THEN "probed" ELSE "done")

\* observe_running: the announced version first, on a connection of its own.
ObserveRunning ==
  /\ observer = "probed"
  /\ IF daemon.listening = PROTOCOL_VERSION THEN Observed(report, "matched")
     ELSE Observed([report EXCEPT !.mismatch = daemon.listening], "done")

\* Mutant: the second connection trusts the version the first one saw.
FetchSnapshotTrusting ==
  observer = "matched" /\ Observed([report EXCEPT !.snapshot = daemon.listening], "done")

\* The second connection checks the version again; no answer is no snapshot.
FetchSnapshot ==
  /\ observer = "matched"
  /\ \/ daemon.listening = PROTOCOL_VERSION /\ Observed([report EXCEPT !.snapshot = daemon.listening], "done")
     \/ Observed(report, "done")
-----------------------------------------------------------------------------
(* The surroundings *)

Change == changes < MaxChanges /\ changes' = changes + 1
    /\ UNCHANGED <<probe, engine, observer, report, heard, launched>>

DaemonEnds ==
  /\ Change
  /\ daemon.listening # NoDaemon
  /\ daemon' \in [listening : {NoDaemon}, file : BOOLEAN]
  /\ UNCHANGED installed
DaemonStarts ==
  /\ Change
  /\ daemon.listening = NoDaemon
  /\ daemon' \in [listening : Protocols, file : {TRUE}]
  /\ UNCHANGED installed
Install ==
  /\ Change
  /\ probe = Nowhere
  /\ \E place \in DOMAIN installed, e \in Engines : installed' = [installed EXCEPT ![place] = e]
  /\ UNCHANGED daemon

Settled == launched # NotLaunched /\ UNCHANGED statusVars

StatusNext ==
  \/ ObserveEngine \/ ProbeEnds \/ ProbeTimesOut \/ ObserveDaemon \/ ObserveRunning \/ FetchSnapshot
  \/ Launch \/ DaemonEnds \/ DaemonStarts \/ Install \/ Settled
\* The runtime runs both observers and the probe's timer; the daemon serves or
\* refuses a connection.  Nothing else need happen.
StatusSpec ==
  /\ StatusInit /\ [][StatusNext]_statusVars
  /\ WF_statusVars(ObserveEngine) /\ WF_statusVars(ProbeEnds \/ ProbeTimesOut)
  /\ WF_statusVars(ObserveDaemon) /\ WF_statusVars(ObserveRunning) /\ WF_statusVars(FetchSnapshot)
-----------------------------------------------------------------------------
(* Properties *)

\* A daemon is called running only if one listened while status looked, its
\* snapshot is one of this build's protocol, and a mismatch names a version
\* that listened, whichever daemons replaced each other meanwhile.
DaemonReportObserved ==
  /\ report.state = "running" => heard # {}
  /\ report.snapshot # NoDaemon => report.snapshot = PROTOCOL_VERSION /\ report.mismatch = NoDaemon
  /\ report.mismatch # NoDaemon => report.mismatch \in heard /\ report.mismatch # PROTOCOL_VERSION

\* With the same engine in place, a launch refuses only what status called
\* unsupported or could not run, and starts what it called supported or
\* untested.
LaunchAsForetold ==
  launched # NotLaunched /\ engine.from = launched.from
    => /\ launched.decision = "refused" => engine.compatibility \in {"unsupported", "unavailable"}
       /\ engine.compatibility \in {"supported", "untested"} => launched.decision # "refused"

\* observe_daemon, classify: what status says of a daemon is true of one that
\* listened, and a launch agrees with it on an engine that stayed in place.
StatusIsTrue == DaemonReportObserved /\ LaunchAsForetold

\* What makes it inductive: nothing is reported before it is looked for, and what
\* was seen, or launched, is what the engine it was seen of may answer in time or
\* too late.
ReportedInOrder ==
  observer \in {"start", "probed", "matched"} => report.snapshot = NoDaemon /\ report.mismatch = NoDaemon
EngineSeen ==
  engine # NotSeen => \E e \in {engine.from, Late(engine.from)} : engine.compatibility = Classify(e)
LaunchSeen ==
  launched # NotLaunched =>
    engine # NotSeen /\ \E e \in {launched.from, Late(launched.from)} : launched.decision = Assess(e)
StatusTypeOK ==
  /\ installed \in [{"override", "libexec", "path"} -> Engines \cup {Absent}]
  /\ daemon \in [listening : Protocols \cup {NoDaemon}, file : BOOLEAN]
  /\ probe \in {Nowhere, "override", "libexec", "path"}
  /\ DOMAIN report = {"state", "mismatch", "snapshot"}
  /\ engine.from \in Engines \cup {Absent} /\ launched.from \in Engines \cup {Absent}
StatusIInv ==
  StatusTypeOK /\ ReportedInOrder /\ EngineSeen /\ LaunchSeen /\ DaemonReportObserved

\* Status ends although the engine hangs and whatever happens to the daemon.
Seen == engine # NotSeen /\ observer = "done"
=============================================================================
