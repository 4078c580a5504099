------------------------------ MODULE Commands ------------------------------
(***************************************************************************)
(* The suite of the commands and what they wait for: their routing through *)
(* a daemon, the resolution of a name against a growing index, the frames  *)
(* between client and daemon, an engine run as a child, and status.  They  *)
(* share no state: `part` names one of them once and for all, a behaviour  *)
(* of the suite is a behaviour of that one, and the variables of the       *)
(* others are blank.                                                       *)
(***************************************************************************)
EXTENDS Integers, Sequences, FiniteSets

VARIABLES part, pc, daemon
Blank == "blank"

-----------------------------------------------------------------------------
(* Clients and a daemon that may die; clients may be stopped while they    *)
(* are connected.                                                          *)

CONSTANTS Client, Command, MaxDeaths, MaxStalls
VARIABLES job, answer, queue, serving, served, starting, autostarts, deaths, stalled

Route == INSTANCE CommandRouting

routeSlots == <<job, answer, queue, serving, served, starting, autostarts, deaths, stalled>>
NoRoute ==
  /\ job = Blank /\ answer = Blank /\ queue = Blank /\ serving = Blank /\ served = Blank
  /\ starting = Blank /\ autostarts = Blank /\ deaths = Blank /\ stalled = Blank

-----------------------------------------------------------------------------
(* The declarations of a name, and a response cap.                         *)

CONSTANTS Declared, WorkspaceSymbolCap
VARIABLES source, routed, rg, wait, indexed, phase, closed, completeness, asked, candidates, outcome

Res == INSTANCE TraceResolution

resSlots == <<source, routed, rg, wait, indexed, phase, closed, completeness, asked, candidates, outcome>>
NoRes ==
  /\ source = Blank /\ routed = Blank /\ rg = Blank /\ wait = Blank /\ indexed = Blank /\ phase = Blank
  /\ closed = Blank /\ completeness = Blank /\ asked = Blank /\ candidates = Blank /\ outcome = Blank

-----------------------------------------------------------------------------
(* The frames between a client and its daemon.                             *)

CONSTANTS Base, MaxFrame, MaxSize, MaxFrames
VARIABLES outbox, accepted, refused, wire, open, partial, expect, received, reader

Wire == INSTANCE DaemonWire

wireSlots == <<outbox, accepted, refused, wire, open, partial, expect, received, reader>>
NoWire ==
  /\ outbox = Blank /\ accepted = Blank /\ refused = Blank /\ wire = Blank /\ open = Blank
  /\ partial = Blank /\ expect = Blank /\ received = Blank /\ reader = Blank

-----------------------------------------------------------------------------
(* An engine run as the child of a command.                                *)

CONSTANT Outputs(_)
VARIABLES command, child, output, result

Engine == INSTANCE EngineCommand

childSlots == <<command, child, output, result>>
NoChild == command = Blank /\ child = Blank /\ output = Blank /\ result = Blank

-----------------------------------------------------------------------------
(* Engines and daemons that come and go while status looks.                *)

CONSTANTS Engines, Protocols, PROTOCOL_VERSION, Pin, MaxInstalled, MaxChanges
VARIABLES installed, changes, probe, engine, observer, report, heard, launched

Status == INSTANCE EngineStatus

statusSlots == <<installed, changes, probe, engine, observer, report, heard, launched>>
NoStatus ==
  /\ installed = Blank /\ changes = Blank /\ probe = Blank /\ engine = Blank /\ observer = Blank
  /\ report = Blank /\ heard = Blank /\ launched = Blank

ASSUME CommandsAssumption ==
  /\ Route!RoutingAssumption /\ Res!CapAssumption /\ Wire!WireAssumption
  /\ Engine!EngineContract /\ Status!StatusAssumption
-----------------------------------------------------------------------------
commandsVars == <<part, pc, daemon, routeSlots, resSlots, wireSlots, childSlots, statusSlots>>

CommandsInit ==
  \/ part = "route" /\ Route!RouteInit /\ NoRes /\ NoWire /\ NoChild /\ NoStatus
  \/ part = "resolve" /\ Res!ResInit /\ daemon = Blank /\ NoRoute /\ NoWire /\ NoChild /\ NoStatus
  \/ part = "wire" /\ Wire!WireInit /\ pc = Blank /\ daemon = Blank /\ NoRoute /\ NoRes /\ NoChild /\ NoStatus
  \/ part = "engine" /\ Engine!EngineInit /\ daemon = Blank /\ NoRoute /\ NoRes /\ NoWire /\ NoStatus
  \/ part = "status" /\ Status!StatusInit /\ pc = Blank /\ NoRoute /\ NoRes /\ NoWire /\ NoChild

Routing(A) == part = "route" /\ A /\ UNCHANGED <<part, resSlots, wireSlots, childSlots, statusSlots>>
Resolving(A) ==
  part = "resolve" /\ A /\ UNCHANGED <<part, daemon, routeSlots, wireSlots, childSlots, statusSlots>>
Framing(A) ==
  part = "wire" /\ A /\ UNCHANGED <<part, pc, daemon, routeSlots, resSlots, childSlots, statusSlots>>
Running(A) ==
  part = "engine" /\ A /\ UNCHANGED <<part, daemon, routeSlots, resSlots, wireSlots, statusSlots>>
Observing(A) ==
  part = "status" /\ A /\ UNCHANGED <<part, pc, routeSlots, resSlots, wireSlots, childSlots>>

CommandsNext ==
  \/ Routing(Route!RouteNext)
  \/ Resolving(Res!ResNext)
  \/ Framing(Wire!WireNext)
  \/ Running(Engine!EngineNext)
  \/ Observing(Status!StatusNext)

\* Each component's own fairness.
CommandsFairness ==
  /\ \A c \in Client : WF_commandsVars(Routing(Route!ClientStep(c)))
  /\ WF_commandsVars(Routing(Route!DaemonStep))
  /\ WF_commandsVars(Resolving(Res!CommandStep)) /\ WF_commandsVars(Resolving(Res!IndexSome))
  /\ WF_commandsVars(Framing(Wire!ReadSome)) /\ WF_commandsVars(Framing(Wire!ReadStep))
  /\ WF_commandsVars(Running(Engine!Spawn)) /\ WF_commandsVars(Running(Engine!Timeout \/ Engine!Captured))
  /\ WF_commandsVars(Running(Engine!Parse))
  /\ WF_commandsVars(Observing(Status!ObserveEngine))
  /\ WF_commandsVars(Observing(Status!ProbeEnds \/ Status!ProbeTimesOut))
  /\ WF_commandsVars(Observing(Status!ObserveDaemon)) /\ WF_commandsVars(Observing(Status!ObserveRunning))
  /\ WF_commandsVars(Observing(Status!FetchSnapshot))

CommandsSpec == CommandsInit /\ [][CommandsNext]_commandsVars /\ CommandsFairness
-----------------------------------------------------------------------------
(* The components' properties *)

\* route, answer_then_warm: whoever answers a command, it ends with the verdict it
\* would reach alone but for the three failures named, and leaves a start behind
\* only where its flags allow one.
RoutingIsInvisible == part = "route" => Route!RoutingIsInvisible

\* The module comment of routing.rs: under KTSENSE_NO_DAEMON=1 a command is answered
\* in process.
NoDaemonAnswersAlone == part = "route" => Route!NoDaemonAnswersAlone

\* resolve_candidates: a choice is made among all declarations of a name, and a
\* declared name is called absent only for want of a search tool.
ResolutionIsWhole == part = "resolve" => Res!ResolutionIsWhole

\* read_frame: the frames read are the frames write_frame took on, whole and in order.
NoTornFrame == part = "wire" => Wire!NoTornFrame

\* check, diagnose: what is reported of an engine's run is what the engine said,
\* a failure is neither clean nor a finding, and no child outlives its command.
EngineIsReportedTruly == part = "engine" => Engine!EngineIsReportedTruly

\* observe_daemon, classify: what status says of a daemon is true of one that
\* listened, and a launch agrees with it on an engine that stayed in place.
StatusIsTrue == part = "status" => Status!StatusIsTrue

\* Every wait ends: a routed command unless a connected client is stopped, the
\* resolution of a name with --wait-index too, a reader whose peer is gone, a
\* command and a status whose engine hangs.
WaitsEnd ==
  /\ (part = "route") ~> (part = "route" /\ Route!Concluded)
  /\ (part = "resolve") ~> (part = "resolve" /\ Res!Resolved)
  /\ (part = "wire" /\ Wire!HungUp) ~> (part = "wire" /\ Wire!Noticed)
  /\ (part = "engine") ~> (part = "engine" /\ Engine!Told)
  /\ (part = "status") ~> (part = "status" /\ Status!Seen)
=============================================================================
