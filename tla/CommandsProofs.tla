---------------------------- MODULE CommandsProofs ----------------------------
(***************************************************************************)
(* Proofs about the components of the commands suite, each for every value *)
(* of its constants: routing, the resolution of a name, status, an engine  *)
(* command, and the frames on the wire.                                    *)
(***************************************************************************)
EXTENDS Commands, FiniteSetTheorems, SequenceTheorems, TLAPS

\* A behaviour of the suite is one of a single component: it begins as that
\* component does.
LEMMA SuiteInit ==
  CommandsInit => /\ part = "route" => Route!RouteInit
                  /\ part = "resolve" => Res!ResInit
                  /\ part = "wire" => Wire!WireInit
                  /\ part = "engine" => Engine!EngineInit
                  /\ part = "status" => Status!StatusInit
BY DEF CommandsInit

\* And each of its steps is a step of that component, or leaves it alone.
LEMMA SuiteStep ==
  [CommandsNext]_commandsVars =>
    /\ part' = part
    /\ part = "route" => [Route!RouteNext]_(Route!routeVars)
    /\ part = "resolve" => [Res!ResNext]_(Res!resVars)
    /\ part = "wire" => [Wire!WireNext]_(Wire!wireVars)
    /\ part = "engine" => [Engine!EngineNext]_(Engine!engineVars)
    /\ part = "status" => [Status!StatusNext]_(Status!statusVars)
<1> SUFFICES ASSUME [CommandsNext]_commandsVars
             PROVE  /\ part' = part
                    /\ part = "route" => [Route!RouteNext]_(Route!routeVars)
                    /\ part = "resolve" => [Res!ResNext]_(Res!resVars)
                    /\ part = "wire" => [Wire!WireNext]_(Wire!wireVars)
                    /\ part = "engine" => [Engine!EngineNext]_(Engine!engineVars)
                    /\ part = "status" => [Status!StatusNext]_(Status!statusVars)
  OBVIOUS
<1>1. CASE CommandsNext
  BY <1>1 DEF CommandsNext, Routing, Resolving, Framing, Running, Observing
<1>2. CASE UNCHANGED commandsVars
  BY <1>2 DEF commandsVars, routeSlots, resSlots, wireSlots, childSlots, statusSlots,
     Route!routeVars, Res!resVars, Wire!wireVars, Engine!engineVars, Status!statusVars
<1> QED
  BY <1>1, <1>2
-----------------------------------------------------------------------------
(* Routing *)

\* What a command concludes survives the wire, but for a usage error.
LEMMA WireKeepsVerdict ==
  ASSUME NEW c, NEW v \in Route!Verdicts(c)
  PROVE  \/ Route!Answered(Route!OnTheWire(v)) = v
         \/ /\ v = Route!UsageError
            /\ Route!Answered(Route!OnTheWire(v)) = Route!Err("failure")
<1>1. \/ \E x \in {"success", "ambiguous", "failure"} : v = Route!Ok(x)
      \/ \E x \in {"failure", "usage"} : v = Route!Err(x)
  BY DEF Route!Verdicts
<1>2. ASSUME NEW x \in {"success", "ambiguous", "failure"}, v = Route!Ok(x)
      PROVE  Route!Answered(Route!OnTheWire(v)) = v
  <2>1. Route!WireExit(x) = x
    BY DEF Route!WireExit
  <2> QED
    BY <1>2, <2>1 DEF Route!Ok, Route!OnTheWire, Route!Answered
<1>3. ASSUME NEW x \in {"failure", "usage"}, v = Route!Err(x)
      PROVE  Route!Answered(Route!OnTheWire(v)) = Route!Err("failure")
  BY <1>3 DEF Route!Err, Route!OnTheWire, Route!Answered
<1> QED
  BY <1>1, <1>2, <1>3 DEF Route!UsageError

\* The initial states satisfy the invariant.
LEMMA RouteInitInv == Route!RouteInit => Route!RouteIInv
<1> SUFFICES ASSUME Route!RouteInit PROVE Route!RouteIInv
  OBVIOUS
<1>1. ASSUME NEW c \in Client
      PROVE  /\ job[c].verdict \in Route!Verdicts(job[c].command)
             /\ job[c].argv \in {"well formed", "malformed", "help"}
  <2>1. job[c] \in Route!Job /\ job[c].verdict \in Route!Verdicts(job[c].command)
    BY DEF Route!RouteInit
  <2>2. \A j \in Route!Job : j.argv \in {"well formed", "malformed", "help"}
    BY DEF Route!Job
  <2> QED
    BY <2>1, <2>2
<1>2. Route!RouteTypeOK
  BY <1>1 DEF Route!RouteInit, Route!RouteTypeOK, Route!Answers
<1> QED
  BY <1>2 DEF Route!RouteInit, Route!RouteIInv, Route!Parsed, Route!PastDispatch,
     Route!RoutingIsInvisible, Route!RoutedAnswerIsTheAnswer, Route!AutostartIsQuiet

\* A command that ends with an answer its verdict allows keeps the invariant.
LEMMA FinishKeepsInv ==
  ASSUME Route!RouteIInv, UNCHANGED <<job, autostarts>>, NEW c \in Client, pc[c] # "done",
         NEW a \in Route!Answers,
         Route!Finish(c, a),
         job[c].argv = "well formed" =>
           \/ a = job[c].verdict
           \/ /\ Route!Routed(job[c].command) /\ a = Route!Err("failure")
              /\ \/ ~job[c].placed
                 \/ ~job[c].noDaemon /\ (job[c].requireDaemon \/ job[c].verdict = Route!UsageError)
  PROVE  Route!RouteIInv'
<1>1. \A x \in Client : /\ pc'[x] = IF x = c THEN "done" ELSE pc[x]
                        /\ answer'[x] = IF x = c THEN a ELSE answer[x]
  BY DEF Route!RouteIInv, Route!RouteTypeOK, Route!Finish, Route!Goto
<1>2. Route!RouteTypeOK'
  BY DEF Route!RouteIInv, Route!RouteTypeOK, Route!Finish, Route!Goto
<1>3. Route!Parsed' /\ Route!PastDispatch'
  BY <1>1 DEF Route!RouteIInv, Route!Parsed, Route!PastDispatch
<1>4. Route!RoutedAnswerIsTheAnswer'
  BY <1>1 DEF Route!RouteIInv, Route!RoutingIsInvisible, Route!RoutedAnswerIsTheAnswer
<1>5. Route!AutostartIsQuiet'
  BY <1>1 DEF Route!RouteIInv, Route!RouteTypeOK, Route!RoutingIsInvisible,
     Route!AutostartIsQuiet
<1> QED
  BY <1>2, <1>3, <1>4, <1>5 DEF Route!RouteIInv, Route!RoutingIsInvisible

\* A command that goes on to a stage it may be in keeps the invariant.
LEMMA GotoKeepsInv ==
  ASSUME Route!RouteIInv, UNCHANGED <<job, answer, autostarts>>, NEW c \in Client,
         pc[c] # "done", job[c].argv = "well formed",
         NEW l \in {"run", "connect", "hello", "asked", "unreachable"}, Route!Goto(c, l),
         l # "run" => Route!Routed(job[c].command) /\ ~job[c].noDaemon /\ job[c].placed
  PROVE  Route!RouteIInv'
<1>1. \A x \in Client : pc'[x] = IF x = c THEN l ELSE pc[x]
  BY DEF Route!RouteIInv, Route!RouteTypeOK, Route!Goto
<1>2. Route!RouteTypeOK'
  BY DEF Route!RouteIInv, Route!RouteTypeOK, Route!Goto
<1>3. Route!Parsed' /\ Route!PastDispatch'
  BY <1>1 DEF Route!RouteIInv, Route!Parsed, Route!PastDispatch
<1>4. Route!RoutedAnswerIsTheAnswer' /\ Route!AutostartIsQuiet'
  BY <1>1 DEF Route!RouteIInv, Route!RouteTypeOK, Route!RoutingIsInvisible,
     Route!RoutedAnswerIsTheAnswer, Route!AutostartIsQuiet
<1> QED
  BY <1>2, <1>3, <1>4 DEF Route!RouteIInv, Route!RoutingIsInvisible

\* Every step of the commands and of the daemon keeps the invariant.
LEMMA RouteStepInv == Route!RouteIInv /\ [Route!RouteNext]_(Route!routeVars) => Route!RouteIInv'
<1> SUFFICES ASSUME Route!RouteIInv, [Route!RouteNext]_(Route!routeVars)
             PROVE  Route!RouteIInv'
  OBVIOUS
<1>0. ASSUME NEW c \in Client
      PROVE  job[c].verdict \in Route!Answers
  BY DEF Route!RouteIInv, Route!RouteTypeOK, Route!Verdicts, Route!Answers, Route!UsageError
<1>1. ASSUME UNCHANGED <<job, pc, answer, autostarts>> PROVE Route!RouteIInv'
  BY <1>1 DEF Route!RouteIInv, Route!RouteTypeOK, Route!Parsed, Route!PastDispatch,
     Route!RoutingIsInvisible, Route!RoutedAnswerIsTheAnswer, Route!AutostartIsQuiet
<1>2. ASSUME NEW c \in Client, Route!Parse(c) PROVE Route!RouteIInv'
  <2>1. CASE job[c].argv \in {"malformed", "help"}
    BY <1>2, <2>1, FinishKeepsInv DEF Route!Parse, Route!Answers
  <2>2. CASE job[c].argv \notin {"malformed", "help"}
    BY <1>2, <2>2, GotoKeepsInv DEF Route!Parse, Route!RouteIInv, Route!RouteTypeOK
  <2> QED
    BY <2>1, <2>2
<1>3. ASSUME NEW c \in Client, Route!Dispatch(c) PROVE Route!RouteIInv'
  <2>1. job[c].argv = "well formed"
    BY <1>3 DEF Route!Dispatch, Route!RouteIInv, Route!Parsed
  <2>2. CASE Route!Routed(job[c].command) /\ ~job[c].placed
    BY <1>3, <2>2, FinishKeepsInv DEF Route!Dispatch, Route!Answers
  <2>3. CASE ~Route!Routed(job[c].command) \/ (job[c].placed /\ job[c].noDaemon)
    BY <1>0, <1>3, <2>3, FinishKeepsInv DEF Route!Dispatch
  <2>4. CASE Route!Routed(job[c].command) /\ job[c].placed /\ ~job[c].noDaemon
    BY <1>3, <2>1, <2>4, GotoKeepsInv DEF Route!Dispatch
  <2> QED
    BY <2>2, <2>3, <2>4
<1>4. ASSUME NEW c \in Client, Route!Connect(c) \/ Route!ReadHello(c) \/ Route!LoseDaemon(c)
      PROVE  Route!RouteIInv'
  <2>1. /\ job[c].argv = "well formed" /\ pc[c] # "done"
        /\ Route!Routed(job[c].command) /\ ~job[c].noDaemon /\ job[c].placed
    BY <1>4 DEF Route!Connect, Route!ReadHello, Route!LoseDaemon, Route!RouteIInv,
       Route!Parsed, Route!PastDispatch
  <2>2. /\ \E l \in {"hello", "asked", "unreachable"} : Route!Goto(c, l)
        /\ UNCHANGED <<job, answer, autostarts>>
    BY <1>4 DEF Route!Connect, Route!ReadHello, Route!LoseDaemon
  <2> QED
    BY <2>1, <2>2, GotoKeepsInv
<1>5. ASSUME NEW c \in Client, Route!FallBack(c) PROVE Route!RouteIInv'
  <2>1. /\ pc[c] = "unreachable" /\ job[c].argv = "well formed"
        /\ Route!Routed(job[c].command) /\ ~job[c].noDaemon /\ job[c].placed
        /\ UNCHANGED job
    BY <1>5 DEF Route!FallBack, Route!RouteIInv, Route!Parsed, Route!PastDispatch
  <2>2. CASE job[c].requireDaemon
    BY <1>5, <2>1, <2>2, FinishKeepsInv DEF Route!FallBack, Route!Answers
  <2>3. CASE ~job[c].requireDaemon /\ UNCHANGED autostarts
    BY <1>0, <1>5, <2>1, <2>3, FinishKeepsInv DEF Route!FallBack
  <2>4. CASE ~job[c].requireDaemon /\ ~UNCHANGED autostarts
    <3>1. /\ Route!EngineBacked(job[c].command) /\ ~job[c].noAutostart
          /\ autostarts' = autostarts \cup {c} /\ Route!Finish(c, job[c].verdict)
      BY <1>5, <2>4 DEF Route!FallBack
    <3>2. \A x \in Client : /\ pc'[x] = IF x = c THEN "done" ELSE pc[x]
                            /\ answer'[x] = IF x = c THEN job[c].verdict ELSE answer[x]
      BY <3>1 DEF Route!RouteIInv, Route!RouteTypeOK, Route!Finish, Route!Goto
    <3>3. Route!RouteTypeOK'
      BY <1>0, <2>1, <3>1 DEF Route!RouteIInv, Route!RouteTypeOK, Route!Finish, Route!Goto
    <3>4. Route!Parsed' /\ Route!PastDispatch'
      BY <2>1, <3>2 DEF Route!RouteIInv, Route!Parsed, Route!PastDispatch
    <3>5. Route!RoutedAnswerIsTheAnswer'
      BY <2>1, <3>2 DEF Route!RouteIInv, Route!RoutingIsInvisible,
         Route!RoutedAnswerIsTheAnswer
    <3>6. Route!AutostartIsQuiet'
      BY <2>1, <2>4, <3>1, <3>2 DEF Route!RouteIInv, Route!RouteTypeOK,
         Route!RoutingIsInvisible, Route!AutostartIsQuiet
    <3> QED
      BY <3>3, <3>4, <3>5, <3>6 DEF Route!RouteIInv, Route!RoutingIsInvisible
  <2> QED
    BY <2>2, <2>3, <2>4
<1>6. ASSUME NEW c \in Client, Route!Handle(c) PROVE Route!RouteIInv'
  <2> DEFINE a == Route!Answered(Route!OnTheWire(job[c].verdict))
  <2>1. /\ pc[c] = "asked" /\ Route!Routed(job[c].command) /\ ~job[c].noDaemon
        /\ Route!Finish(c, a) /\ UNCHANGED <<job, autostarts>>
    BY <1>6 DEF Route!Handle, Route!RouteIInv, Route!PastDispatch
  <2>2. job[c].verdict \in Route!Verdicts(job[c].command)
    BY DEF Route!RouteIInv, Route!RouteTypeOK
  <2>3. \/ a = job[c].verdict
        \/ job[c].verdict = Route!UsageError /\ a = Route!Err("failure")
    BY <2>2, WireKeepsVerdict
  <2>4. a \in Route!Answers
    BY <1>0, <2>3 DEF Route!Answers
  <2> HIDE DEF a
  <2> QED
    BY <2>1, <2>3, <2>4, FinishKeepsInv
<1>7. ASSUME NEW c \in Client, Route!Stall(c) \/ Route!Accept(c) PROVE Route!RouteIInv'
  BY <1>1, <1>7 DEF Route!Stall, Route!Accept
<1>8. CASE Route!DaemonDies \/ Route!DaemonStarts \/ UNCHANGED Route!routeVars
  BY <1>1, <1>8 DEF Route!DaemonDies, Route!DaemonStarts, Route!routeVars
<1> QED
  BY <1>2, <1>3, <1>4, <1>5, <1>6, <1>7, <1>8
     DEF Route!RouteNext, Route!ClientStep, Route!DaemonStep

\* "A routed answer equals the in-process one": for any number of commands sharing
\* a daemon that dies, starts and is replaced at any moment, every command ends with
\* its own verdict or with one of the three failures that are the routing's own, and
\* a start is left behind only where its flags allow one.
THEOREM RoutingInvisible == CommandsSpec => []RoutingIsInvisible
<1>1. CommandsSpec => CommandsInit /\ [][CommandsNext]_commandsVars
  BY PTL DEF CommandsSpec
<1> DEFINE IInv == part = "route" => Route!RouteIInv
<1>2. CommandsInit => IInv
  BY SuiteInit, RouteInitInv
<1>3. IInv /\ [CommandsNext]_commandsVars => IInv'
  BY SuiteStep, RouteStepInv
<1>4. IInv => RoutingIsInvisible
  BY DEF RoutingIsInvisible, Route!RouteIInv
<1> QED
  BY <1>1, <1>2, <1>3, <1>4, PTL
-----------------------------------------------------------------------------
(* The resolution of a name *)

\* What the warm index answers, asked when it is complete: nothing for an excuse, or
\* all declarations of the name.
LEMMA WarmAnswer ==
  ASSUME Res!CapAssumption, indexed = source, NEW w \in Res!WarmResolution
  PROVE  \/ w.said \in {"failed", "truncated"} /\ w.found = {}
         \/ w.said = "unindexed" /\ w.found = {} /\ Res!Named(source) = {}
         \/ w.said = "declarations" /\ w.found = Res!Named(source)
<1>1. CASE closed
  BY <1>1 DEF Res!WarmResolution
<1>2. CASE ~closed
  <2>1. PICK r \in Res!Responses : w = Res!Classify(r)
    BY <1>2 DEF Res!WarmResolution
  <2>2. r = source \/ Res!Cardinality(r) = WorkspaceSymbolCap
    BY Zenon DEF Res!Responses
  <2>3. CASE Res!Cardinality(r) >= WorkspaceSymbolCap
    <3>1. w = [said |-> "truncated", found |-> {}]
      BY <2>1, <2>3, Zenon DEF Res!Classify
    <3> QED
      BY <3>1
  <2>4. CASE ~(Res!Cardinality(r) >= WorkspaceSymbolCap)
    <3>1. r = source
      BY <2>2, <2>4 DEF Res!CapAssumption
    <3>2. w = IF Res!Named(source) = {} THEN [said |-> "unindexed", found |-> {}]
              ELSE [said |-> "declarations", found |-> Res!Named(source)]
      BY <2>1, <2>4, <3>1, Zenon DEF Res!Classify
    <3> QED
      BY <3>2
  <2> QED
    BY <2>3, <2>4
<1> QED
  BY <1>1, <1>2

\* Every step of the engine and of the command keeps the invariant.
LEMMA ResStepInv ==
  ASSUME Res!CapAssumption
  PROVE  Res!ResIInv /\ [Res!ResNext]_(Res!resVars) => Res!ResIInv'
<1> SUFFICES ASSUME Res!ResIInv, [Res!ResNext]_(Res!resVars) PROVE Res!ResIInv'
  OBVIOUS
<1> USE DEF Res!ResIInv, Res!IndexIsSource, Res!LeftBehind, Res!Choice, Res!Excused
<1>0. ASSUME source' = source PROVE Res!Named(source)' = Res!Named(source)
  BY <1>0 DEF Res!Named
<1>1. ASSUME source' = source
      PROVE  Res!Visible(Res!Named(source))' = Res!Visible(Res!Named(source))
  BY <1>0, <1>1 DEF Res!Visible, Res!Named
<1>2. CASE Res!IndexSome
  <2>1. /\ UNCHANGED <<source, routed, rg, pc, completeness, asked, candidates, outcome>>
        /\ phase = "building" /\ phase' = "ready" => indexed' = source
    BY <1>2 DEF Res!IndexSome, Res!askVars
  <2>2. Res!AbsenceIsExcused'
    BY <1>1, <2>1 DEF Res!AbsenceIsExcused
  <2> QED
    BY <1>0, <1>2, <2>1, <2>2 DEF Res!IndexSome
<1>3. CASE Res!StreamEnds \/ Res!Done \/ UNCHANGED Res!resVars
  <2>1. UNCHANGED <<source, routed, rg, indexed, phase, pc, completeness, asked, candidates, outcome>>
    BY <1>3 DEF Res!StreamEnds, Res!Done, Res!resVars, Res!askVars
  <2>2. Res!AbsenceIsExcused'
    BY <1>1, <2>1 DEF Res!AbsenceIsExcused
  <2> QED
    BY <1>0, <2>1, <2>2
<1>4. CASE Res!AwaitIndex
  <2>1. /\ pc = "wait" /\ pc' = "ask index" /\ (completeness' = "complete" => phase = "ready")
        /\ UNCHANGED <<source, routed, rg, indexed, phase, asked, candidates, outcome>>
    BY <1>4 DEF Res!AwaitIndex, Res!askVars, Res!engineVars
  <2>2. Res!AbsenceIsExcused'
    BY <1>1, <2>1 DEF Res!AbsenceIsExcused
  <2> QED
    BY <1>0, <2>1, <2>2
<1>5. CASE Res!AskIndex
  <2>1. PICK w \in (IF completeness = "complete" THEN Res!WarmResolution
                    ELSE {[said |-> "partial", found |-> {}]}) :
          /\ asked' = w.said /\ candidates' = w.found
          /\ pc' = IF w.said # "declarations" /\ routed THEN "find" ELSE "select"
    BY <1>5 DEF Res!AskIndex
  <2>2. /\ pc = "ask index"
        /\ UNCHANGED <<source, routed, rg, indexed, phase, completeness, outcome>>
    BY <1>5 DEF Res!AskIndex, Res!askVars, Res!engineVars
  <2>3. \/ w.said \in {"partial", "failed", "truncated"} /\ w.found = {}
        \/ w.said = "unindexed" /\ w.found = {} /\ Res!Named(source) = {}
        \/ w.said = "declarations" /\ w.found = Res!Named(source)
    <3>1. CASE completeness = "complete"
      <4>1. w \in Res!WarmResolution /\ indexed = source
        BY <2>1, <2>2, <3>1
      <4> QED
        BY <4>1, WarmAnswer
    <3>2. CASE completeness # "complete"
      <4>1. w = [said |-> "partial", found |-> {}]
        BY <2>1, <3>2
      <4> QED
        BY <4>1
    <3> QED
      BY <3>1, <3>2
  <2>4. outcome = "none"
    BY <2>2
  <2>5. Res!AbsenceIsExcused'
    BY <2>2, <2>4 DEF Res!AbsenceIsExcused
  <2>6. Res!LeftBehind' /\ Res!Choice'
    BY <1>0, <2>1, <2>2, <2>3
  <2> QED
    BY <2>1, <2>2, <2>4, <2>5, <2>6
<1>6. CASE Res!Find
  <2>1. /\ pc = "find" /\ candidates' = (IF rg THEN Res!Named(source) ELSE {})
        /\ pc' = IF candidates' = {} /\ ~routed THEN "wait" ELSE "select"
        /\ UNCHANGED <<source, routed, rg, indexed, phase, completeness, asked, outcome>>
    BY <1>6 DEF Res!Find, Res!askVars, Res!engineVars
  <2>2. Res!AbsenceIsExcused'
    BY <1>1, <2>1 DEF Res!AbsenceIsExcused
  <2>3. Res!LeftBehind' /\ Res!Choice'
    BY <1>0, <2>1
  <2> QED
    BY <2>1, <2>2, <2>3
<1>7. CASE Res!FindFails
  <2>1. /\ pc' = "done" /\ outcome' = "failure"
        /\ UNCHANGED <<source, routed, rg, indexed, phase, completeness, asked, candidates>>
    BY <1>7 DEF Res!FindFails, Res!askVars, Res!engineVars
  <2> QED
    BY <2>1 DEF Res!AbsenceIsExcused
<1>8. CASE Res!SelectCandidate
  <2>1. /\ pc = "select" /\ pc' = "done"
        /\ outcome' = "not found" => Res!Visible(candidates) = {}
        /\ UNCHANGED <<source, routed, rg, indexed, phase, completeness, asked, candidates>>
    BY <1>8 DEF Res!SelectCandidate, Res!askVars, Res!engineVars
  <2>2. Res!AbsenceIsExcused'
    BY <1>1, <2>1 DEF Res!AbsenceIsExcused
  <2> QED
    BY <2>1, <2>2
<1> QED
  BY <1>2, <1>3, <1>4, <1>5, <1>6, <1>7, <1>8 DEF Res!ResNext

\* No choice has been made yet.
LEMMA ResInitInv == Res!ResInit => Res!ResIInv
BY DEF Res!ResInit, Res!ResIInv, Res!IndexIsSource, Res!LeftBehind, Res!Choice, Res!AbsenceIsExcused

\* What is chosen from is every declaration, or nothing.
LEMMA ResSafe == Res!ResIInv => Res!ResolutionIsWhole
BY DEF Res!ResIInv, Res!Choice, Res!ResolutionIsWhole, Res!NeverASubset

\* For any workspace, index and cap: a choice is never made from some of the
\* declarations of a name only, and a declared name is reported absent only where
\* `find` had no search tool and the index could not answer either.
THEOREM ResolutionWhole == CommandsSpec => []ResolutionIsWhole
<1>1. CommandsSpec => CommandsInit /\ [][CommandsNext]_commandsVars
  BY PTL DEF CommandsSpec
<1> DEFINE IInv == part = "resolve" => Res!ResIInv
<1>2. CommandsInit => IInv
  BY SuiteInit, ResInitInv
<1>3. IInv /\ [CommandsNext]_commandsVars => IInv'
  BY SuiteStep, ResStepInv, CommandsAssumption
<1>4. IInv => ResolutionIsWhole
  BY ResSafe DEF ResolutionIsWhole
<1> QED
  BY <1>1, <1>2, <1>3, <1>4, PTL
-----------------------------------------------------------------------------
(* Status *)

\* A launch and the status before it agree on an engine, whichever of the two waited
\* too short for its version.
LEMMA SameEngineSameVerdict ==
  ASSUME Status!StatusAssumption, NEW x \in Engines \cup {Status!Absent},
         NEW seen \in {x, Status!Late(x)}, NEW used \in {x, Status!Late(x)}
  PROVE  /\ Status!Assess(used) = "refused" =>
              Status!Classify(seen) \in {"unsupported", "unavailable"}
         /\ Status!Classify(seen) \in {"supported", "untested"} => Status!Assess(used) # "refused"
<1>1. Status!Late(x).answer = "hangs"
  BY DEF Status!Late, Status!StatusAssumption, Status!Absent
<1>2. /\ Status!Assess(Status!Late(x)) = "warned"
      /\ Status!Classify(Status!Late(x)) = "unavailable"
  BY <1>1 DEF Status!Assess, Status!Classify
<1>3. Status!Assess(x) = "refused" <=> x.answer = "version" /\ Status!Compare(x) = "unsupported"
  BY DEF Status!Assess
<1>4. x.answer = "version" => Status!Classify(x) = Status!Compare(x)
  BY DEF Status!Classify
<1>5. Status!Classify(x) \in {"supported", "untested"} => x.answer = "version"
  BY DEF Status!Classify
<1> QED
  BY <1>2, <1>3, <1>4, <1>5

\* A step that leaves the engine seen and the launch alone keeps what is said of them.
LEMMA EngineKept ==
  ASSUME Status!EngineSeen, Status!LaunchSeen, UNCHANGED <<engine, launched>>
  PROVE  Status!EngineSeen' /\ Status!LaunchSeen'
BY DEF Status!EngineSeen, Status!LaunchSeen, Status!NotSeen, Status!NotLaunched, Status!Absent,
   Status!Late, Status!Classify, Status!Assess, Status!Compare

\* The initial states satisfy the invariant.
LEMMA StatusInitInv == Status!StatusInit => Status!StatusIInv
<1> SUFFICES ASSUME Status!StatusInit PROVE Status!StatusIInv
  OBVIOUS
<1>1. Status!StatusTypeOK
  BY DEF Status!StatusInit, Status!StatusTypeOK, Status!Unseen, Status!NotSeen, Status!NotLaunched
<1>2. Status!ReportedInOrder /\ Status!DaemonReportObserved
  BY DEF Status!StatusInit, Status!ReportedInOrder, Status!DaemonReportObserved, Status!Unseen
<1>3. Status!EngineSeen /\ Status!LaunchSeen
  BY DEF Status!StatusInit, Status!EngineSeen, Status!LaunchSeen
<1> QED
  BY <1>1, <1>2, <1>3 DEF Status!StatusIInv

\* One look at the daemon's socket.
LEMMA ObservedInv ==
  ASSUME Status!StatusIInv,
         NEW r, NEW next, Status!Observed(r, next),
         DOMAIN r = {"state", "mismatch", "snapshot"},
         r.state = "running" => report.state = "running" \/ daemon.listening # Status!NoDaemon,
         next # "done" => r.snapshot = Status!NoDaemon /\ r.mismatch = Status!NoDaemon,
         r.snapshot # Status!NoDaemon => r.snapshot = PROTOCOL_VERSION /\ r.mismatch = Status!NoDaemon,
         r.mismatch # Status!NoDaemon => r.mismatch = daemon.listening /\ r.mismatch # PROTOCOL_VERSION
  PROVE  Status!StatusIInv'
<1> USE DEF Status!StatusIInv
<1>1. /\ report' = r /\ observer' = next
      /\ heard' = heard \cup ({daemon.listening} \ {Status!NoDaemon})
      /\ UNCHANGED <<installed, daemon, changes, probe, engine, launched>>
  BY DEF Status!Observed
<1>2. Status!StatusTypeOK'
  BY <1>1 DEF Status!StatusTypeOK, Status!NoDaemon, Status!Nowhere, Status!Absent
<1>3. Status!ReportedInOrder' /\ Status!DaemonReportObserved'
  BY <1>1 DEF Status!ReportedInOrder, Status!DaemonReportObserved
<1> QED
  BY <1>1, <1>2, <1>3, EngineKept

\* Every step keeps the invariant.
LEMMA StatusStepInv ==
  ASSUME Status!StatusAssumption
  PROVE  Status!StatusIInv /\ [Status!StatusNext]_(Status!statusVars) => Status!StatusIInv'
<1> SUFFICES ASSUME Status!StatusIInv, [Status!StatusNext]_(Status!statusVars)
             PROVE  Status!StatusIInv'
  OBVIOUS
<1>0. Status!StatusTypeOK /\ Status!EngineSeen /\ Status!LaunchSeen
      /\ Status!ReportedInOrder /\ Status!DaemonReportObserved
  BY DEF Status!StatusIInv
<1>1. ASSUME UNCHANGED <<engine, launched, observer, report, heard>>, Status!StatusTypeOK'
      PROVE  Status!StatusIInv'
  BY <1>0, <1>1, EngineKept DEF Status!StatusIInv, Status!ReportedInOrder,
     Status!DaemonReportObserved
<1>2. Status!LocateBinary \in {"override", "libexec", "path"}
  BY DEF Status!LocateBinary
<1>3. CASE Status!ObserveEngine
  BY <1>0, <1>1, <1>2, <1>3 DEF Status!ObserveEngine, Status!StatusTypeOK
<1>4. CASE Status!DaemonEnds \/ Status!DaemonStarts
  <2>1. daemon' \in [listening : Protocols \cup {Status!NoDaemon}, file : BOOLEAN]
    BY <1>4 DEF Status!DaemonEnds, Status!DaemonStarts
  <2>2. UNCHANGED <<engine, launched, observer, report, heard, installed, probe>>
    BY <1>4 DEF Status!DaemonEnds, Status!DaemonStarts, Status!Change
  <2> QED
    BY <1>0, <1>1, <2>1, <2>2 DEF Status!StatusTypeOK
<1>5. CASE Status!Install
  <2>1. PICK place \in DOMAIN installed, e \in Engines : installed' = [installed EXCEPT ![place] = e]
    BY <1>5 DEF Status!Install
  <2>2. UNCHANGED <<engine, launched, observer, report, heard, daemon, probe>>
    BY <1>5 DEF Status!Install, Status!Change
  <2> QED
    BY <1>0, <1>1, <2>1, <2>2 DEF Status!StatusTypeOK
<1>6. CASE Status!Settled \/ UNCHANGED Status!statusVars
  BY <1>0, <1>1, <1>6 DEF Status!Settled, Status!statusVars, Status!StatusTypeOK
<1>7. CASE Status!ProbeEnds \/ Status!ProbeTimesOut
  <2>1. PICK e \in {installed[probe], Status!Late(installed[probe])} :
          /\ engine' = [compatibility |-> Status!Classify(e), from |-> installed[probe]]
          /\ probe' = Status!Nowhere
          /\ UNCHANGED <<installed, daemon, changes, observer, report, heard, launched>>
    BY <1>7 DEF Status!ProbeEnds, Status!ProbeTimesOut, Status!Reported
  <2>2. installed[probe] \in Engines \cup {Status!Absent}
    BY <1>0, <1>7 DEF Status!StatusTypeOK, Status!ProbeEnds, Status!ProbeTimesOut
  <2>3. Status!StatusTypeOK'
    BY <1>0, <2>1, <2>2 DEF Status!StatusTypeOK
  <2>4. engine'.from = installed[probe] /\ engine'.compatibility = Status!Classify(e)
    BY <2>1
  <2>5. Status!EngineSeen'
    BY <2>1, <2>4 DEF Status!EngineSeen
  <2>6. engine' # Status!NotSeen
    <3>1. Status!Classify(e) # "none"
      BY DEF Status!Classify, Status!Compare
    <3> QED
      BY <2>4, <3>1 DEF Status!NotSeen
  <2>7. Status!LaunchSeen'
    BY <1>0, <2>1, <2>6 DEF Status!LaunchSeen
  <2>8. Status!ReportedInOrder' /\ Status!DaemonReportObserved'
    BY <1>0, <2>1 DEF Status!ReportedInOrder, Status!DaemonReportObserved
  <2> QED
    BY <2>3, <2>5, <2>7, <2>8 DEF Status!StatusIInv
<1>8. CASE Status!Launch
  <2>1. PICK e \in {installed[Status!LocateBinary], Status!Late(installed[Status!LocateBinary])} :
          launched' = [decision |-> Status!Assess(e), from |-> installed[Status!LocateBinary]]
    BY <1>8 DEF Status!Launch
  <2>2. /\ UNCHANGED <<installed, daemon, changes, probe, engine, observer, report, heard>>
        /\ engine # Status!NotSeen
    BY <1>8 DEF Status!Launch
  <2>3. installed[Status!LocateBinary] \in Engines \cup {Status!Absent}
    BY <1>0, <1>2 DEF Status!StatusTypeOK
  <2>4. launched'.from = installed[Status!LocateBinary] /\ launched'.decision = Status!Assess(e)
    BY <2>1
  <2>5. Status!StatusTypeOK'
    BY <1>0, <2>2, <2>3, <2>4 DEF Status!StatusTypeOK
  <2>6. Status!LaunchSeen'
    BY <2>1, <2>2, <2>4 DEF Status!LaunchSeen
  <2>7. Status!EngineSeen' /\ Status!ReportedInOrder' /\ Status!DaemonReportObserved'
    BY <1>0, <2>2 DEF Status!EngineSeen, Status!ReportedInOrder, Status!DaemonReportObserved
  <2> QED
    BY <2>5, <2>6, <2>7 DEF Status!StatusIInv
<1>9. CASE Status!ObserveDaemon
  <2> DEFINE r == [report EXCEPT !.state = Status!State]
             next == IF Status!State = "running" THEN "probed" ELSE "done"
  <2>1. Status!Observed(r, next) /\ observer = "start"
    BY <1>9 DEF Status!ObserveDaemon
  <2>2. /\ DOMAIN r = {"state", "mismatch", "snapshot"} /\ r.state = Status!State
        /\ r.snapshot = report.snapshot /\ r.mismatch = report.mismatch
    BY <1>0 DEF Status!StatusTypeOK
  <2>3. r.snapshot = Status!NoDaemon /\ r.mismatch = Status!NoDaemon
    BY <1>0, <2>1, <2>2 DEF Status!ReportedInOrder
  <2>4. r.state = "running" => daemon.listening # Status!NoDaemon
    BY <2>2 DEF Status!State
  <2> HIDE DEF r, next
  <2> QED
    BY <2>1, <2>2, <2>3, <2>4, ObservedInv
<1>10. CASE Status!ObserveRunning
  <2>1. observer = "probed" /\ report.snapshot = Status!NoDaemon /\ report.mismatch = Status!NoDaemon
    BY <1>0, <1>10 DEF Status!ObserveRunning, Status!ReportedInOrder
  <2>2. DOMAIN report = {"state", "mismatch", "snapshot"}
    BY <1>0 DEF Status!StatusTypeOK
  <2>3. CASE Status!Observed(report, "matched")
    BY <2>1, <2>2, <2>3, ObservedInv
  <2>4. CASE /\ daemon.listening # PROTOCOL_VERSION
             /\ Status!Observed([report EXCEPT !.mismatch = daemon.listening], "done")
    <3> DEFINE r == [report EXCEPT !.mismatch = daemon.listening]
    <3>1. /\ DOMAIN r = {"state", "mismatch", "snapshot"} /\ r.state = report.state
          /\ r.snapshot = report.snapshot /\ r.mismatch = daemon.listening
      BY <2>2
    <3>2. Status!Observed(r, "done")
      BY <2>4
    <3> HIDE DEF r
    <3> QED
      BY <2>1, <2>4, <3>1, <3>2, ObservedInv
  <2> QED
    BY <1>10, <2>3, <2>4 DEF Status!ObserveRunning
<1>11. CASE Status!FetchSnapshot
  <2>1. observer = "matched" /\ report.snapshot = Status!NoDaemon /\ report.mismatch = Status!NoDaemon
    BY <1>0, <1>11 DEF Status!FetchSnapshot, Status!ReportedInOrder
  <2>2. DOMAIN report = {"state", "mismatch", "snapshot"}
    BY <1>0 DEF Status!StatusTypeOK
  <2>3. CASE Status!Observed(report, "done")
    BY <2>1, <2>2, <2>3, ObservedInv
  <2>4. CASE /\ daemon.listening = PROTOCOL_VERSION
             /\ Status!Observed([report EXCEPT !.snapshot = daemon.listening], "done")
    <3> DEFINE r == [report EXCEPT !.snapshot = daemon.listening]
    <3>1. /\ DOMAIN r = {"state", "mismatch", "snapshot"} /\ r.state = report.state
          /\ r.snapshot = daemon.listening /\ r.mismatch = report.mismatch
      BY <2>2
    <3>2. Status!Observed(r, "done")
      BY <2>4
    <3> HIDE DEF r
    <3> QED
      BY <2>1, <2>4, <3>1, <3>2, ObservedInv
  <2> QED
    BY <1>11, <2>3, <2>4 DEF Status!FetchSnapshot
<1> QED
  BY <1>3, <1>4, <1>5, <1>6, <1>7, <1>8, <1>9, <1>10, <1>11 DEF Status!StatusNext

\* What was seen and what was launched are answers of one engine, in time or too late.
LEMMA StatusSafe ==
  ASSUME Status!StatusAssumption
  PROVE  Status!StatusIInv => Status!StatusIsTrue
<1> SUFFICES ASSUME Status!StatusIInv PROVE Status!LaunchAsForetold
  BY DEF Status!StatusIInv, Status!StatusIsTrue
<1> SUFFICES ASSUME launched # Status!NotLaunched, engine.from = launched.from
             PROVE  /\ launched.decision = "refused" =>
                         engine.compatibility \in {"unsupported", "unavailable"}
                    /\ engine.compatibility \in {"supported", "untested"} =>
                         launched.decision # "refused"
  BY DEF Status!LaunchAsForetold
<1>1. PICK used \in {engine.from, Status!Late(engine.from)} :
        launched.decision = Status!Assess(used)
  BY DEF Status!StatusIInv, Status!LaunchSeen
<1>2. PICK seen \in {engine.from, Status!Late(engine.from)} :
        engine.compatibility = Status!Classify(seen)
  BY DEF Status!StatusIInv, Status!LaunchSeen, Status!EngineSeen
<1>3. engine.from \in Engines \cup {Status!Absent}
  BY DEF Status!StatusIInv, Status!StatusTypeOK
<1> QED
  BY <1>1, <1>2, <1>3, SameEngineSameVerdict

\* For any engines, protocols and changes of the surroundings: what status says of a
\* daemon is true of one that listened while it looked, and the gate of a launch
\* agrees with what status said of an engine still in place.
THEOREM StatusTold == CommandsSpec => []StatusIsTrue
<1>1. CommandsSpec => CommandsInit /\ [][CommandsNext]_commandsVars
  BY PTL DEF CommandsSpec
<1> DEFINE IInv == part = "status" => Status!StatusIInv
<1>2. CommandsInit => IInv
  BY SuiteInit, StatusInitInv
<1>3. IInv /\ [CommandsNext]_commandsVars => IInv'
  BY SuiteStep, StatusStepInv, CommandsAssumption
<1>4. IInv => StatusIsTrue
  BY StatusSafe, CommandsAssumption DEF StatusIsTrue
<1> QED
  BY <1>1, <1>2, <1>3, <1>4, PTL
-----------------------------------------------------------------------------
(* An engine command *)

\* A report with items has findings: places that coincide still count once.
LEMMA ItemsAreFindings ==
  ASSUME NEW r, r.items \in Seq(Engine!Item), r.items # <<>>
  PROVE  Engine!Findings(r) > 0
<1> DEFINE places == {Engine!Place(r.items[i]) : i \in DOMAIN r.items}
<1>1. Len(r.items) \in Nat /\ DOMAIN r.items = 1..Len(r.items) /\ 1 \in DOMAIN r.items
  OBVIOUS
<1>2. IsFiniteSet(places)
  <2> DEFINE cited == [i \in 1..Len(r.items) |-> Engine!Place(r.items[i])]
  <2>1. cited \in Seq(places) /\ Len(cited) = Len(r.items)
    BY <1>1
  <2>2. \A p \in places : \E n \in 1..Len(cited) : cited[n] = p
    BY <1>1, <2>1
  <2> QED
    BY <2>1, <2>2 DEF IsFiniteSet
<1>3. places # {}
  BY <1>1
<1>4. Cardinality(places) \in Nat /\ Cardinality(places) # 0
  BY <1>2, <1>3, FS_CardinalityType, FS_EmptySet
<1>5. Engine!Findings(r) = Cardinality(places)
  BY DEF Engine!Findings, Engine!Cardinality, Cardinality
<1> QED
  BY <1>4, <1>5

\* What was parsed of a check's output that is not an error is an answer's report.
LEMMA CheckedIsAnswered ==
  ASSUME Engine!EngineContract, NEW o \in Outputs("check"), ~Engine!IsError(Engine!ParseCheck(o))
  PROVE  /\ o.truth = "answered"
         /\ Engine!ParseCheck(o).items = o.stdout.items
         /\ Engine!ParseCheck(o).broken = o.stdout.broken
<1>1. o.stdout.form = "json"
  BY DEF Engine!ParseCheck, Engine!IsError, Engine!Error
<1> QED
  BY <1>1 DEF Engine!EngineContract, Engine!ParseCheck, Engine!Report

\* The same of a diagnose, whose exit decides.
LEMMA DiagnosedIsAnswered ==
  ASSUME Engine!EngineContract, NEW o \in Outputs("diagnose"),
         ~Engine!IsError(Engine!ParseDiagnose(o))
  PROVE  o.truth = "answered" /\ Engine!ParseDiagnose(o).items = o.stdout.items
<1>1. o.code = 0 /\ o.stdout.form \in {"silent", "lines"}
  BY DEF Engine!ParseDiagnose, Engine!IsError, Engine!Error
<1>2. o.truth = "answered" /\ (o.stdout.form = "silent" => o.stdout.items = <<>>)
  BY <1>1 DEF Engine!EngineContract
<1>3. Engine!ParseDiagnose(o) \in {Engine!Report(<<>>, 0), Engine!Report(o.stdout.items, 0)}
  BY <1>1 DEF Engine!ParseDiagnose, Engine!IsError, Engine!Error
<1>4. o.stdout.form # "silent" => Engine!ParseDiagnose(o) = Engine!Report(o.stdout.items, 0)
  BY <1>1 DEF Engine!ParseDiagnose, Engine!IsError, Engine!Error
<1> QED
  BY <1>2, <1>3, <1>4 DEF Engine!Report

\* Every step keeps the invariant.
LEMMA EngineStepInv ==
  Engine!EngineIInv /\ [Engine!EngineNext]_(Engine!engineVars) => Engine!EngineIInv'
<1> SUFFICES ASSUME Engine!EngineIInv, [Engine!EngineNext]_(Engine!engineVars)
             PROVE  Engine!EngineIInv'
  OBVIOUS
<1> USE DEF Engine!EngineIInv, Engine!Told
<1>1. \A w \in {"spawn", "timeout", "io"} : Engine!IsError(Engine!Error(w))
  BY DEF Engine!IsError, Engine!Error
<1>2. CASE Engine!Spawn
  BY <1>1, <1>2 DEF Engine!Spawn, Engine!IsError
<1>3. CASE Engine!ChildEnds
  BY <1>3 DEF Engine!ChildEnds
<1>4. CASE Engine!Captured
  BY <1>4 DEF Engine!Captured
<1>5. CASE Engine!Timeout
  BY <1>1, <1>5 DEF Engine!Timeout, Engine!IsError
<1>6. CASE Engine!Parse
  BY <1>6 DEF Engine!Parse
<1>7. CASE Engine!Settled \/ UNCHANGED Engine!engineVars
  BY <1>7 DEF Engine!Settled, Engine!engineVars, Engine!IsError
<1> QED
  BY <1>2, <1>3, <1>4, <1>5, <1>6, <1>7 DEF Engine!EngineNext

\* The invariant says of a command that ended what the engine said to it.
LEMMA EngineInvTold ==
  ASSUME Engine!EngineContract, Engine!EngineIInv
  PROVE  Engine!EngineIsReportedTruly
<1> USE DEF Engine!EngineIInv, Engine!Told
<1>1. Engine!NoChildLeft
  BY DEF Engine!NoChildLeft
<1>2. Engine!DiagnosticsAreTheEngines
  <2> SUFFICES ASSUME Engine!Told, command = "diagnose", ~Engine!IsError(result)
               PROVE  output.truth = "answered" /\ result.items = output.stdout.items
    BY DEF Engine!DiagnosticsAreTheEngines
  <2>1. output \in Outputs("diagnose") /\ result = Engine!ParseDiagnose(output)
    BY DEF Engine!ParseOf
  <2> QED
    BY <2>1, DiagnosedIsAnswered
<1>3. Engine!CheckOutcomeIsTheEngines
  <2> SUFFICES ASSUME Engine!Told, command = "check"
               PROVE  /\ (Engine!Outcome = "execution_failure") = Engine!IsError(result)
                      /\ Engine!Outcome = "clean" =>
                           /\ output.truth = "answered" /\ output.stdout.items = <<>>
                           /\ output.stdout.broken = 0
                      /\ Engine!Outcome = "findings" =>
                           /\ output.truth = "answered"
                           /\ output.stdout.broken > 0 \/ Engine!Findings(result) > 0
    BY DEF Engine!CheckOutcomeIsTheEngines
  <2>1. CASE Engine!IsError(result)
    <3>1. Engine!CheckInvocation(result) = [code |-> 1, stdout |-> FALSE, stderr |-> TRUE]
      BY <2>1 DEF Engine!CheckInvocation
    <3>2. Engine!Outcome = "execution_failure"
      BY <3>1 DEF Engine!Outcome, Engine!CheckOutcome
    <3> QED
      BY <2>1, <3>2 DEF Engine!IsError
  <2>2. CASE ~Engine!IsError(result)
    <3>1. output \in Outputs("check") /\ result = Engine!ParseCheck(output)
      BY <2>2 DEF Engine!ParseOf
    <3>2. /\ output.truth = "answered" /\ result.items = output.stdout.items
          /\ result.broken = output.stdout.broken
      BY <2>2, <3>1, CheckedIsAnswered
    <3>3. output.stdout.items \in Seq(Engine!Item) /\ output.stdout.broken \in Nat
      BY <3>1 DEF Engine!EngineContract
    <3>4. CASE Engine!HasErrors(result)
      <4>1. Engine!CheckInvocation(result) = [code |-> 1, stdout |-> TRUE, stderr |-> FALSE]
        BY <2>2, <3>4 DEF Engine!CheckInvocation
      <4>2. Engine!Outcome = "findings"
        BY <4>1 DEF Engine!Outcome, Engine!CheckOutcome
      <4>3. output.stdout.broken > 0 \/ Engine!Findings(result) > 0
        BY <3>2, <3>3, <3>4, ItemsAreFindings DEF Engine!HasErrors
      <4> QED
        BY <2>2, <3>2, <4>2, <4>3 DEF Engine!IsError
    <3>5. CASE ~Engine!HasErrors(result)
      <4>1. Engine!CheckInvocation(result) = [code |-> 0, stdout |-> TRUE, stderr |-> FALSE]
        BY <2>2, <3>5 DEF Engine!CheckInvocation
      <4>2. Engine!Outcome = "clean"
        BY <4>1 DEF Engine!Outcome, Engine!CheckOutcome
      <4>3. output.stdout.items = <<>> /\ output.stdout.broken = 0
        BY <3>2, <3>3, <3>5 DEF Engine!HasErrors
      <4> QED
        BY <2>2, <3>2, <4>2, <4>3 DEF Engine!IsError
    <3> QED
      BY <3>4, <3>5
  <2> QED
    BY <2>1, <2>2
<1> QED
  BY <1>1, <1>2, <1>3 DEF Engine!EngineIsReportedTruly

\* Nothing is told before the engine has run.
LEMMA EngineInitInv == Engine!EngineInit => Engine!EngineIInv
BY DEF Engine!EngineInit, Engine!EngineIInv, Engine!Told

\* For any engine that keeps its contract, whatever the order of its end, the bound
\* and the pipes: a check or diagnose reports what the engine said, a failure is
\* neither clean nor a finding, and no child outlives its command.
THEOREM EngineReported == CommandsSpec => []EngineIsReportedTruly
<1>1. CommandsSpec => CommandsInit /\ [][CommandsNext]_commandsVars
  BY PTL DEF CommandsSpec
<1> DEFINE IInv == part = "engine" => Engine!EngineIInv
<1>2. CommandsInit => IInv
  BY SuiteInit, EngineInitInv
<1>3. IInv /\ [CommandsNext]_commandsVars => IInv'
  BY SuiteStep, EngineStepInv
<1>4. IInv => EngineIsReportedTruly
  BY EngineInvTold, CommandsAssumption DEF EngineIsReportedTruly
<1> QED
  BY <1>1, <1>2, <1>3, <1>4, PTL
-----------------------------------------------------------------------------
(* Frames on the wire *)

\* Bytes moved from the front of one sequence to the end of another.
LEMMA MoveBytes ==
  ASSUME NEW S, NEW s \in Seq(S), NEW t \in Seq(S), NEW n \in Nat, n <= Len(t)
  PROVE  (s \o SubSeq(t, 1, n)) \o SubSeq(t, n + 1, Len(t)) = s \o t
<1>1. SubSeq(t, 1, n) \in Seq(S) /\ SubSeq(t, n + 1, Len(t)) \in Seq(S)
  OBVIOUS
<1> DEFINE front == SubSeq(t, 1, n)
           back == SubSeq(t, n + 1, Len(t))
<1>2. front \o back = t
  <2>1. /\ 1 \in 1 .. Len(t) + 1 /\ n \in 1 - 1 .. Len(t) /\ Len(t) \in n .. Len(t)
    OBVIOUS
  <2>2. SubSeq(t, 1, n) \o SubSeq(t, n + 1, Len(t)) = SubSeq(t, 1, Len(t))
    BY <2>1, ConcatAdjacentSubSeq
  <2> QED
    BY <2>2, SubSeqFull
<1>3. front \in Seq(S) /\ back \in Seq(S)
  BY <1>1
<1> HIDE DEF front, back
<1>4. (s \o front) \o back = s \o (front \o back)
  BY <1>3, ConcatAssociative
<1> QED
  BY <1>2, <1>3, <1>4 DEF front, back

\* The prefix of a frame reads back as its length.
LEMMA PrefixReadsBack ==
  ASSUME Wire!WireAssumption, NEW f \in Wire!Frame
  PROVE  /\ Wire!Encoded(f) \in Seq(Wire!Byte) /\ Len(Wire!Encoded(f)) = Wire!PrefixLen + f.size
         /\ Wire!Encoded(f)[1] * Base + Wire!Encoded(f)[2] = f.size
         /\ \A j \in 1 .. f.size : Wire!Encoded(f)[Wire!PrefixLen + j] = f
<1> USE DEF Wire!PrefixLen
<1>1. f.size \in Nat /\ Base \in Nat /\ Base # 0
  <2>1. f.size \in 0 .. MaxSize /\ MaxSize \in Nat /\ Base \in Nat /\ MaxSize < Base * Base
    BY DEF Wire!WireAssumption, Wire!Frame
  <2> QED
    BY <2>1
<1>2. /\ f.size \div Base \in Nat /\ f.size % Base \in Nat
      /\ (f.size \div Base) * Base + (f.size % Base) = f.size
  BY <1>1
<1>3. /\ Wire!ToBytes(f.size) \in Seq(Wire!Byte) /\ Len(Wire!ToBytes(f.size)) = 2
      /\ Wire!ToBytes(f.size)[1] = f.size \div Base /\ Wire!ToBytes(f.size)[2] = f.size % Base
  BY <1>2 DEF Wire!ToBytes, Wire!Byte
<1>4. /\ Wire!Body(f) \in Seq(Wire!Byte) /\ Len(Wire!Body(f)) = f.size
      /\ \A j \in 1 .. f.size : Wire!Body(f)[j] = f
  BY <1>1 DEF Wire!Body, Wire!Byte
<1>5. /\ Wire!Encoded(f) \in Seq(Wire!Byte) /\ Len(Wire!Encoded(f)) = 2 + f.size
      /\ \A i \in 1 .. 2 + f.size :
           Wire!Encoded(f)[i] = IF i <= 2 THEN Wire!ToBytes(f.size)[i] ELSE Wire!Body(f)[i - 2]
  <2> DEFINE p == Wire!ToBytes(f.size)
             b == Wire!Body(f)
  <2>1. p \in Seq(Wire!Byte) /\ b \in Seq(Wire!Byte) /\ Len(p) = 2 /\ Len(b) = f.size
        /\ Wire!Encoded(f) = p \o b
    BY <1>3, <1>4 DEF Wire!Encoded
  <2> HIDE DEF p, b
  <2>2. /\ p \o b \in Seq(Wire!Byte) /\ Len(p \o b) = Len(p) + Len(b)
        /\ \A i \in 1 .. Len(p) + Len(b) : (p \o b)[i] = IF i <= Len(p) THEN p[i] ELSE b[i - Len(p)]
    BY <2>1, ConcatProperties
  <2> QED
    BY <2>1, <2>2 DEF p, b
<1>6. Wire!Encoded(f)[1] = f.size \div Base /\ Wire!Encoded(f)[2] = f.size % Base
  BY <1>1, <1>3, <1>5
<1>7. ASSUME NEW j \in 1 .. f.size PROVE Wire!Encoded(f)[2 + j] = f
  <2>1. 2 + j \in 1 .. 2 + f.size /\ ~(2 + j <= 2) /\ (2 + j) - 2 = j
    BY <1>1
  <2>2. Wire!Encoded(f)[2 + j] = Wire!Body(f)[(2 + j) - 2]
    BY <1>5, <2>1
  <2> QED
    BY <1>4, <2>1, <2>2
<1> QED
  BY <1>2, <1>5, <1>6, <1>7

\* The bytes in flight, and what is left of them without the reader's part.
LEMMA StreamBytes ==
  ASSUME Wire!WireTypeOK
  PROVE  /\ partial \in Seq(Wire!Byte) /\ wire \o outbox \in Seq(Wire!Byte)
         /\ Wire!Stream = partial \o (wire \o outbox) /\ Wire!Stream \in Seq(Wire!Byte)
         /\ Len(Wire!Stream) = Len(partial) + Len(wire \o outbox)
         /\ \A i \in 1 .. Len(partial) : Wire!Stream[i] = partial[i]
         /\ \A i \in 1 .. Len(wire \o outbox) : Wire!Stream[Len(partial) + i] = (wire \o outbox)[i]
<1>1. partial \in Seq(Wire!Byte) /\ wire \in Seq(Wire!Byte) /\ outbox \in Seq(Wire!Byte)
  BY DEF Wire!WireTypeOK
<1> DEFINE rest == wire \o outbox
<1>2. rest \in Seq(Wire!Byte)
  BY <1>1, ConcatProperties
<1>3. Wire!Stream = partial \o rest
  BY <1>1, ConcatAssociative DEF Wire!Stream
<1> HIDE DEF rest
<1>4. /\ partial \o rest \in Seq(Wire!Byte)
      /\ Len(partial \o rest) = Len(partial) + Len(rest)
      /\ \A i \in 1 .. Len(partial) + Len(rest) :
           (partial \o rest)[i] = IF i <= Len(partial) THEN partial[i] ELSE rest[i - Len(partial)]
  BY <1>1, <1>2, ConcatProperties
<1>5. Len(partial) \in Nat /\ Len(rest) \in Nat
  BY <1>1, <1>2, LenProperties
<1>6. \A i \in 1 .. Len(partial) : (partial \o rest)[i] = partial[i]
  BY <1>4, <1>5
<1>7. ASSUME NEW i \in 1 .. Len(rest) PROVE (partial \o rest)[Len(partial) + i] = rest[i]
  <2>1. /\ Len(partial) + i \in 1 .. Len(partial) + Len(rest) /\ ~(Len(partial) + i <= Len(partial))
        /\ (Len(partial) + i) - Len(partial) = i
    BY <1>5
  <2> QED
    BY <1>4, <2>1
<1> QED
  BY <1>1, <1>2, <1>3, <1>4, <1>6, <1>7 DEF rest

\* While the bytes in flight stay the same, so do the frames in them.
LEMMA LiesKept ==
  ASSUME Wire!WireIInv, UNCHANGED <<accepted, received, expect>>, Wire!Stream' = Wire!Stream
  PROVE  (\E start : Wire!Lies(start))' /\ Wire!Announced'
<1>1. PICK start : Wire!Lies(start)
  BY DEF Wire!WireIInv
<1>2. Wire!Taken(start)' = Wire!Taken(start)
  BY DEF Wire!Taken
<1>3. Wire!Lies(start)'
  BY <1>1, <1>2 DEF Wire!Lies
<1>4. Wire!Announced'
  BY DEF Wire!WireIInv, Wire!Announced
<1> QED
  BY <1>3, <1>4

\* Moving bytes to the socket or out of it leaves them the same.
LEMMA MovesKeep ==
  ASSUME Wire!WireIInv, NEW n \in Nat, Wire!WriteBytes(n) \/ Wire!ReadBytes(n)
  PROVE  Wire!WireIInv'
<1>0. partial \in Seq(Wire!Byte) /\ wire \in Seq(Wire!Byte) /\ outbox \in Seq(Wire!Byte)
  BY DEF Wire!WireIInv, Wire!WireTypeOK
<1>1. CASE Wire!WriteBytes(n)
  <2> DEFINE a == SubSeq(outbox, 1, n)
             b == SubSeq(outbox, n + 1, Len(outbox))
  <2>1. /\ n <= Len(outbox) /\ wire' = wire \o a /\ outbox' = b
        /\ UNCHANGED <<accepted, received, expect, partial, reader>>
    BY <1>1 DEF Wire!WriteBytes, Wire!readVars
  <2>2. a \in Seq(Wire!Byte) /\ b \in Seq(Wire!Byte)
    BY <1>0, <2>1
  <2>9. (wire \o a) \o b = wire \o outbox
    BY <1>0, <2>1, MoveBytes, Zenon
  <2> HIDE DEF a, b
  <2>3. wire' \in Seq(Wire!Byte) /\ outbox' \in Seq(Wire!Byte)
    BY <1>0, <2>1, <2>2, ConcatProperties
  <2>4. Wire!WireTypeOK'
    BY <1>0, <2>1, <2>3 DEF Wire!WireIInv, Wire!WireTypeOK, Wire!Byte
  <2>5. Wire!Stream' = Wire!Stream
    <3>1. Wire!Stream = partial \o (wire \o outbox)
      BY <1>0, ConcatAssociative DEF Wire!Stream
    <3>2. Wire!Stream' = (partial \o wire') \o outbox'
      BY <2>1 DEF Wire!Stream
    <3>3. ASSUME NEW w \in Seq(Wire!Byte) PROVE (partial \o w) \o b = partial \o (w \o b)
      <4>1. partial \in Seq(Wire!Byte) /\ b \in Seq(Wire!Byte)
        BY <1>0, <2>2
      <4> QED
        BY <4>1, ConcatAssociative
    <3>4. (partial \o (wire \o a)) \o b = partial \o ((wire \o a) \o b)
      BY <2>1, <2>3, <3>3, Zenon
    <3> QED
      BY <2>1, <2>9, <3>1, <3>2, <3>4, Zenon
  <2>6. Wire!NoTornFrame'
    BY <2>1 DEF Wire!WireIInv, Wire!NoTornFrame
  <2> QED
    BY <2>1, <2>4, <2>5, <2>6, LiesKept DEF Wire!WireIInv
<1>2. CASE Wire!ReadBytes(n)
  <2> DEFINE a == SubSeq(wire, 1, n)
             b == SubSeq(wire, n + 1, Len(wire))
  <2>1. /\ n <= Len(wire) /\ partial' = partial \o a /\ wire' = b
        /\ UNCHANGED <<accepted, received, expect, outbox, reader>>
    BY <1>2 DEF Wire!ReadBytes
  <2>2. a \in Seq(Wire!Byte) /\ b \in Seq(Wire!Byte)
    BY <1>0, <2>1
  <2>9. (partial \o a) \o b = partial \o wire
    BY <1>0, <2>1, MoveBytes, Zenon
  <2> HIDE DEF a, b
  <2>3. partial' \in Seq(Wire!Byte) /\ wire' \in Seq(Wire!Byte)
    BY <1>0, <2>1, <2>2, ConcatProperties
  <2>4. Wire!WireTypeOK'
    BY <1>0, <2>1, <2>3 DEF Wire!WireIInv, Wire!WireTypeOK, Wire!Byte
  <2>5. Wire!Stream' = Wire!Stream
    BY <2>1, <2>9 DEF Wire!Stream
  <2>6. Wire!NoTornFrame'
    BY <2>1 DEF Wire!WireIInv, Wire!NoTornFrame
  <2> QED
    BY <2>1, <2>4, <2>5, <2>6, LiesKept DEF Wire!WireIInv
<1> QED
  BY <1>1, <1>2

\* Where a byte lies in what is left of a stream of which t bytes were taken.
LEMMA InFlight ==
  ASSUME NEW first \in Int, NEW j \in Int, NEW n \in Int, NEW t \in Int, NEW len \in Int,
         1 <= j, j <= n, first + j > t, first + n <= t + len
  PROVE  first + j - t \in 1 .. len
OBVIOUS

\* A frame that write_frame takes on follows what is in flight.
LEMMA AcceptKeeps ==
  ASSUME Wire!WireAssumption, Wire!WireIInv,
         NEW f \in Wire!Frame, f.size <= MaxFrame, outbox = <<>>,
         accepted' = Append(accepted, f), outbox' = Wire!Encoded(f),
         UNCHANGED <<wire, partial, expect, received, reader>>
  PROVE  Wire!WireIInv'
<1>0. /\ partial \in Seq(Wire!Byte) /\ wire \in Seq(Wire!Byte) /\ received \in Seq(Seq(Wire!Byte))
      /\ accepted \in Seq({g \in Wire!Frame : g.size <= MaxFrame})
      /\ Len(received) <= Len(accepted)
  BY DEF Wire!WireIInv, Wire!WireTypeOK, Wire!NoTornFrame
<1>1. /\ Len(accepted) \in Nat /\ Len(received) \in Nat /\ Len(accepted') = Len(accepted) + 1
      /\ accepted'[Len(accepted) + 1] = f
      /\ \A k \in 1 .. Len(accepted) : accepted'[k] = accepted[k]
      /\ accepted' \in Seq({g \in Wire!Frame : g.size <= MaxFrame})
  BY <1>0
<1>2. /\ Wire!Encoded(f) \in Seq(Wire!Byte) /\ Len(Wire!Encoded(f)) = Wire!PrefixLen + f.size
      /\ f.size \in Nat
  BY PrefixReadsBack DEF Wire!Frame
<1>3. Wire!WireTypeOK'
  BY <1>0, <1>1, <1>2 DEF Wire!WireTypeOK, Wire!Byte, Wire!Frame
<1>4. Wire!Announced' /\ Wire!NoTornFrame'
  <2>1. \A i \in DOMAIN received : i \in 1 .. Len(accepted) /\ received[i] = Wire!Body(accepted[i])
    <3>1. DOMAIN received = 1 .. Len(received)
      BY <1>0
    <3>2. \A i \in 1 .. Len(received) : i \in 1 .. Len(accepted)
      BY <1>0, <1>1
    <3>3. \A i \in DOMAIN received : received[i] = Wire!Body(accepted[i])
      BY DEF Wire!WireIInv, Wire!NoTornFrame
    <3> QED
      BY <3>1, <3>2, <3>3
  <2>2. \A i \in DOMAIN received' : received'[i] = Wire!Body(accepted'[i])
    BY <1>1, <2>1
  <2>3. Wire!NoTornFrame'
    <3>1. Len(received') <= Len(accepted')
      BY <1>0, <1>1
    <3>2. reader' # "too large"
      BY DEF Wire!WireIInv, Wire!NoTornFrame
    <3> QED
      BY <2>2, <3>1, <3>2 DEF Wire!NoTornFrame
  <2>4. Wire!Announced'
    BY <1>0, <1>1 DEF Wire!WireIInv, Wire!Announced, Wire!NoLength
  <2> QED
    BY <2>3, <2>4
<1>5. /\ Wire!Stream \in Seq(Wire!Byte) /\ Len(Wire!Stream) \in Nat
      /\ Wire!Stream' = Wire!Stream \o Wire!Encoded(f)
  <2>1. partial \o wire \in Seq(Wire!Byte)
    BY <1>0, ConcatProperties
  <2>2. Wire!Stream = partial \o wire
    BY <2>1, ConcatEmptySeq DEF Wire!Stream
  <2> QED
    BY <2>1, <2>2 DEF Wire!Stream
<1>6. PICK a, r, size, before, after, new :
        /\ a = Len(accepted) /\ r = Len(received) /\ size = Wire!PrefixLen + f.size
        /\ before = Wire!Stream /\ after = Wire!Stream' /\ new = accepted'
  OBVIOUS
<1>7. PICK start : Wire!Lies(start)
  BY DEF Wire!WireIInv
<1>8. PICK t : t = Wire!Taken(start)
  OBVIOUS
<1>9. /\ start \in [1 .. a + 1 -> Nat]
      /\ \A k \in 1 .. a : /\ start[k + 1] = start[k] + Wire!PrefixLen + new[k].size
                           /\ start[k + 1] <= start[a + 1]
      /\ start[a + 1] = t + Len(before)
      /\ \A k \in r + 1 .. a : \A j \in 1 .. Wire!PrefixLen + new[k].size :
           start[k] + j > t => before[start[k] + j - t] = Wire!Encoded(new[k])[j]
  <2>1. \A k \in 1 .. a : new[k] = accepted[k]
    BY <1>1, <1>6
  <2>2. \A k \in r + 1 .. a : k \in 1 .. a
    BY <1>1, <1>6
  <2> QED
    BY <1>6, <1>7, <1>8, <2>1, <2>2 DEF Wire!Lies
<1>10. /\ a \in Nat /\ r \in Nat /\ r <= a /\ size \in Nat /\ size > 0 /\ t \in Nat
       /\ new[a + 1] = f /\ Len(new) = a + 1 /\ \A k \in 1 .. a : new[k].size \in Nat
  <2>1. t \in Nat
    <3>1. r + 1 \in 1 .. a + 1
      BY <1>0, <1>1, <1>6
    <3>2. start[r + 1] \in Nat
      BY <1>9, <3>1
    <3> QED
      BY <1>6, <1>8, <3>2 DEF Wire!Taken, Wire!PrefixLen
  <2>2. \A k \in 1 .. a : new[k].size \in Nat
    BY <1>0, <1>1, <1>6 DEF Wire!Frame
  <2> QED
    BY <1>0, <1>1, <1>2, <1>6, <2>1, <2>2 DEF Wire!PrefixLen
<1>11. /\ Len(before) \in Nat /\ Len(after) = Len(before) + size
       /\ \A i \in 1 .. Len(before) : after[i] = before[i]
       /\ \A j \in 1 .. size : after[Len(before) + j] = Wire!Encoded(f)[j]
  <2>1. ASSUME NEW u \in Seq(Wire!Byte), NEW v \in Seq(Wire!Byte)
        PROVE  /\ Len(u \o v) = Len(u) + Len(v)
               /\ \A i \in 1 .. Len(u) : (u \o v)[i] = u[i]
               /\ \A j \in 1 .. Len(v) : (u \o v)[Len(u) + j] = v[j]
    OBVIOUS
  <2>2. after = before \o Wire!Encoded(f) /\ before \in Seq(Wire!Byte)
    BY <1>5, <1>6
  <2> QED
    BY <1>2, <1>5, <1>6, <2>1, <2>2
<1>12. PICK next : /\ next \in [1 .. a + 2 -> Nat] /\ next[a + 2] = start[a + 1] + size
                   /\ \A k \in 1 .. a + 1 : next[k] = start[k]
  <2> DEFINE next == [k \in 1 .. a + 2 |-> IF k <= a + 1 THEN start[k] ELSE start[a + 1] + size]
  <2>1. start[a + 1] + size \in Nat
    BY <1>9, <1>10
  <2>2. /\ next \in [1 .. a + 2 -> Nat] /\ next[a + 2] = start[a + 1] + size
        /\ \A k \in 1 .. a + 1 : next[k] = start[k]
    BY <1>9, <1>10, <2>1
  <2> QED
    BY <2>2
<1>13. Wire!Taken(next)' = t
  <2>1. next[r + 1] = start[r + 1]
    BY <1>10, <1>12
  <2> QED
    BY <1>6, <1>8, <2>1 DEF Wire!Taken, Wire!NoLength
<1>14. ASSUME NEW k \in 1 .. a + 1
       PROVE  /\ next[k + 1] = next[k] + Wire!PrefixLen + new[k].size
              /\ next[k + 1] <= next[a + 2]
  <2>1. CASE k \in 1 .. a
    <3>1. next[k + 1] = start[k + 1] /\ next[k] = start[k]
      BY <1>10, <1>12, <2>1
    <3>2. start[k + 1] \in Nat /\ start[a + 1] \in Nat
      BY <1>9, <1>10, <2>1
    <3> QED
      BY <1>9, <1>10, <1>12, <2>1, <3>1, <3>2
  <2>2. CASE k = a + 1
    <3>1. next[k + 1] = start[a + 1] + size /\ next[k] = start[a + 1]
      BY <1>10, <1>12, <2>2
    <3>2. start[a + 1] \in Nat /\ next[k + 1] \in Nat /\ next[k + 1] = next[a + 2]
      BY <1>9, <1>10, <1>12, <2>2
    <3>3. new[k] = f /\ f.size \in Nat
      BY <1>2, <1>10, <2>2
    <3>4. next[k + 1] = next[k] + Wire!PrefixLen + new[k].size
      <4>1. size = Wire!PrefixLen + new[k].size /\ new[k].size \in Nat
        BY <1>6, <3>3
      <4>2. \A x, y \in Nat : x + (2 + y) = x + 2 + y
        OBVIOUS
      <4> QED
        BY <3>1, <3>2, <4>1, <4>2, Zenon DEF Wire!PrefixLen
    <3> QED
      BY <3>2, <3>4
  <2> QED
    BY <1>10, <2>1, <2>2
<1>15. ASSUME NEW k \in r + 1 .. a + 1, NEW j \in 1 .. Wire!PrefixLen + new[k].size, next[k] + j > t
       PROVE  after[next[k] + j - t] = Wire!Encoded(new[k])[j]
  <2>1. CASE k \in r + 1 .. a
    <3>0. k \in 1 .. a /\ k \in 1 .. a + 1
      BY <1>10, <2>1
    <3>1. next[k] = start[k] /\ start[k] \in Nat /\ new[k].size \in Nat
      BY <1>9, <1>10, <1>12, <3>0
    <3>2. start[k] + Wire!PrefixLen + new[k].size <= t + Len(before)
      BY <1>9, <3>0
    <3>3. before[start[k] + j - t] = Wire!Encoded(new[k])[j]
      BY <1>9, <1>15, <2>1, <3>1
    <3>4. start[k] + j - t \in 1 .. Len(before)
      <4>1. PICK n : n = Wire!PrefixLen + new[k].size
        OBVIOUS
      <4>2. n \in Int /\ j \in Int /\ 1 <= j /\ j <= n /\ start[k] + j > t
        BY <1>15, <3>1, <4>1 DEF Wire!PrefixLen
      <4>3. start[k] + n <= t + Len(before)
        <5>1. \A x, y \in Nat : x + (2 + y) = x + 2 + y
          OBVIOUS
        <5>2. start[k] + n = start[k] + Wire!PrefixLen + new[k].size
          BY <3>1, <4>1, <5>1, Zenon DEF Wire!PrefixLen
        <5> QED
          BY <3>2, <5>2, Zenon
      <4>4. start[k] \in Int /\ t \in Int /\ Len(before) \in Int
        BY <1>10, <1>11, <3>1
      <4> QED
        BY <4>2, <4>3, <4>4, InFlight
    <3> QED
      BY <1>11, <3>1, <3>3, <3>4
  <2>2. CASE k = a + 1
    <3>1. new[k] = f /\ next[k] = t + Len(before)
      BY <1>9, <1>10, <1>12, <2>2
    <3>2. j \in 1 .. size
      BY <1>6, <3>1
    <3>3. next[k] + j - t = Len(before) + j
      BY <1>10, <1>11, <3>1, <3>2
    <3> QED
      BY <1>11, <3>1, <3>2, <3>3
  <2> QED
    BY <1>10, <2>1, <2>2
<1>16. Wire!Lies(next)'
  <2>1. next[a + 2] = t + Len(after)
    BY <1>9, <1>10, <1>11, <1>12
  <2>2. Len(accepted') = a + 1 /\ (a + 1) + 1 = a + 2 /\ Len(received') = r
    BY <1>6, <1>10
  <2> QED
    BY <1>6, <1>12, <1>13, <1>14, <1>15, <2>1, <2>2 DEF Wire!Lies
<1> QED
  BY <1>3, <1>4, <1>16 DEF Wire!WireIInv

\* Once the reader understood what it gathered, the rest still holds the frames.
LEMMA ConsumeKeeps ==
  ASSUME Wire!WireTypeOK, NEW start, Wire!Lies(start),
         partial' = <<>>, UNCHANGED <<accepted, wire, outbox>>,
         Len(received) \in Nat, Len(received') \in {Len(received), Len(received) + 1},
         Wire!Taken(start) \in Nat, Wire!Taken(start)' = Wire!Taken(start) + Len(partial)
  PROVE  Wire!Lies(start)'
<1>1. PICK a, r, t, d, before, after :
        /\ a = Len(accepted) /\ r = Len(received) /\ t = Wire!Taken(start) /\ d = Len(partial)
        /\ before = Wire!Stream /\ after = wire \o outbox
  OBVIOUS
<1>2. /\ d \in Nat /\ Len(after) \in Nat /\ Len(before) = d + Len(after)
      /\ \A i \in 1 .. Len(after) : before[d + i] = after[i]
  BY <1>1, StreamBytes, LenProperties
<1>3. Wire!Stream' = after
  <2>1. wire \in Seq(Wire!Byte)
    BY DEF Wire!WireTypeOK
  <2>2. Wire!Stream' = (<<>> \o wire) \o outbox
    BY DEF Wire!Stream
  <2>3. <<>> \o wire = wire
    BY <2>1, ConcatEmptySeq
  <2> QED
    BY <1>1, <2>2, <2>3
<1>4. a \in Nat /\ r \in Nat /\ t \in Nat /\ \A k \in 1 .. a : accepted[k].size \in Nat
  BY <1>1 DEF Wire!WireTypeOK, Wire!Frame
<1>5. /\ start \in [1 .. a + 1 -> Nat]
      /\ \A k \in 1 .. a : /\ start[k + 1] = start[k] + Wire!PrefixLen + accepted[k].size
                           /\ start[k + 1] <= start[a + 1]
      /\ start[a + 1] = t + Len(before)
      /\ \A k \in r + 1 .. a : \A j \in 1 .. Wire!PrefixLen + accepted[k].size :
           start[k] + j > t => before[start[k] + j - t] = Wire!Encoded(accepted[k])[j]
  BY <1>1 DEF Wire!Lies
<1>6. start[a + 1] = (t + d) + Len(after)
  BY <1>2, <1>4, <1>5
<1>7. ASSUME NEW k \in Len(received') + 1 .. a, NEW j \in 1 .. Wire!PrefixLen + accepted[k].size,
             start[k] + j > t + d
      PROVE  after[start[k] + j - (t + d)] = Wire!Encoded(accepted[k])[j]
  <2>1. k \in r + 1 .. a /\ k \in 1 .. a
    BY <1>1, <1>4
  <2>2. PICK n : n = Wire!PrefixLen + accepted[k].size
    OBVIOUS
  <2>3. n \in Int /\ j \in Int /\ 1 <= j /\ j <= n /\ accepted[k].size \in Nat
    BY <1>4, <2>1, <2>2 DEF Wire!PrefixLen
  <2>4. start[k] \in Nat /\ start[k] + n <= (t + d) + Len(after)
    <3>1. start[k] \in Nat /\ start[k] + Wire!PrefixLen + accepted[k].size <= start[a + 1]
      BY <1>4, <1>5, <2>1
    <3>2. \A x, y \in Nat : x + (2 + y) = x + 2 + y
      OBVIOUS
    <3>3. start[k] + n = start[k] + Wire!PrefixLen + accepted[k].size
      BY <2>2, <2>3, <3>1, <3>2, Zenon DEF Wire!PrefixLen
    <3> QED
      BY <1>6, <3>1, <3>3, Zenon
  <2>5. start[k] + j - (t + d) \in 1 .. Len(after)
    <3>1. t + d \in Int /\ start[k] \in Int /\ Len(after) \in Int
      BY <1>2, <1>4, <2>4
    <3> QED
      BY <1>7, <2>3, <2>4, <3>1, InFlight
  <2>6. start[k] + j > t /\ start[k] + j - t = d + (start[k] + j - (t + d))
    <3>1. ASSUME NEW x \in Int, NEW y \in Int, NEW u \in Int, NEW v \in Int, v >= 0, x + y > u + v
          PROVE  x + y > u
      BY <3>1
    <3>3. ASSUME NEW x \in Int, NEW y \in Int, NEW u \in Int, NEW v \in Int
          PROVE  x + y - u = v + (x + y - (u + v))
      OBVIOUS
    <3>2. start[k] \in Int /\ j \in Int /\ t \in Int /\ d \in Int /\ d >= 0
      BY <1>2, <1>4, <2>3, <2>4
    <3>4. start[k] + j > t
      BY <1>7, <3>1, <3>2, Zenon
    <3>5. start[k] + j - t = d + (start[k] + j - (t + d))
      BY <3>2, <3>3
    <3> QED
      BY <3>4, <3>5
  <2>7. before[start[k] + j - t] = Wire!Encoded(accepted[k])[j]
    BY <1>5, <2>1, <2>6
  <2> QED
    BY <1>2, <2>5, <2>6, <2>7
<1>8. Wire!Taken(start)' = t + d /\ Len(accepted') = a /\ accepted' = accepted
  BY <1>1
<1>9. /\ start \in [1 .. Len(accepted') + 1 -> Nat]
      /\ \A k \in 1 .. Len(accepted') : /\ start[k + 1] = start[k] + Wire!PrefixLen + accepted'[k].size
                                       /\ start[k + 1] <= start[Len(accepted') + 1]
  BY <1>5, <1>8
<1>10. start[Len(accepted') + 1] = Wire!Taken(start)' + Len(Wire!Stream')
  BY <1>3, <1>6, <1>8
<1>11. \A k \in Len(received') + 1 .. Len(accepted') :
         \A j \in 1 .. Wire!PrefixLen + accepted'[k].size : start[k] + j > Wire!Taken(start)' =>
           Wire!Stream'[start[k] + j - Wire!Taken(start)'] = Wire!Encoded(accepted'[k])[j]
  BY <1>3, <1>7, <1>8
<1> QED
  BY <1>9, <1>10, <1>11 DEF Wire!Lies

\* What the reader gathers belongs to the first frame it has not handed over.
LEMMA FirstFrame ==
  ASSUME Wire!WireIInv, NEW start, Wire!Lies(start), NEW r, r = Len(received)
  PROVE  /\ r \in Nat /\ Wire!Taken(start) \in Nat
         /\ expect # Wire!NoLength \/ Len(partial) > 0 => r + 1 \in 1 .. Len(accepted)
         /\ r + 1 \in 1 .. Len(accepted) =>
              \A j \in 1 .. Wire!PrefixLen + accepted[r + 1].size :
                LET i == start[r + 1] + j - Wire!Taken(start)
                IN  i \in 1 .. Len(partial) => partial[i] = Wire!Encoded(accepted[r + 1])[j]
<1>1. /\ r \in Nat /\ Len(accepted) \in Nat /\ r <= Len(accepted)
      /\ start \in [1 .. Len(accepted) + 1 -> Nat]
  <2>1. accepted \in Seq({f \in Wire!Frame : f.size <= MaxFrame}) /\ received \in Seq(Seq(Wire!Byte))
    BY DEF Wire!WireIInv, Wire!WireTypeOK
  <2>2. r <= Len(accepted)
    BY DEF Wire!WireIInv, Wire!NoTornFrame
  <2>3. start \in [1 .. Len(accepted) + 1 -> Nat]
    BY DEF Wire!Lies
  <2> QED
    BY <2>1, <2>2, <2>3, LenProperties
<1>2. start[r + 1] \in Nat /\ Wire!Taken(start) \in Nat
  BY <1>1 DEF Wire!Taken, Wire!PrefixLen
<1>3. Len(partial) \in Nat /\ Len(Wire!Stream) \in Nat /\ Len(partial) <= Len(Wire!Stream)
      /\ \A i \in 1 .. Len(partial) : Wire!Stream[i] = partial[i]
  BY StreamBytes, LenProperties DEF Wire!WireIInv
<1>4. ASSUME expect # Wire!NoLength \/ Len(partial) > 0 PROVE r + 1 \in 1 .. Len(accepted)
  <2>1. CASE expect # Wire!NoLength
    BY <1>1, <2>1 DEF Wire!WireIInv, Wire!Announced
  <2>2. CASE expect = Wire!NoLength /\ Len(partial) > 0 /\ r = Len(accepted)
    <3>1. start[r + 1] = Wire!Taken(start) + Len(Wire!Stream) /\ Wire!Taken(start) = start[r + 1] + 0
      BY <2>2 DEF Wire!Lies, Wire!Taken
    <3> QED
      BY <1>2, <1>3, <2>2, <3>1
  <2> QED
    BY <1>1, <1>4, <2>1, <2>2
<1>5. ASSUME r + 1 \in 1 .. Len(accepted), NEW j \in 1 .. Wire!PrefixLen + accepted[r + 1].size,
             start[r + 1] + j - Wire!Taken(start) \in 1 .. Len(partial)
      PROVE  partial[start[r + 1] + j - Wire!Taken(start)] = Wire!Encoded(accepted[r + 1])[j]
  <2>1. accepted[r + 1].size \in Nat
    BY <1>5 DEF Wire!WireIInv, Wire!WireTypeOK, Wire!Frame
  <2>2. j \in Nat
    BY <2>1 DEF Wire!PrefixLen
  <2>3. start[r + 1] + j > Wire!Taken(start)
    BY <1>2, <1>3, <1>5, <2>2
  <2>4. r + 1 \in r + 1 .. Len(accepted)
    BY <1>1, <1>5
  <2>5. Wire!Stream[start[r + 1] + j - Wire!Taken(start)] = Wire!Encoded(accepted[r + 1])[j]
    BY <2>3, <2>4 DEF Wire!Lies
  <2> QED
    BY <1>3, <1>5, <2>5
<1> QED
  BY <1>1, <1>2, <1>4, <1>5

\* A whole prefix is the length of the next frame, which write_frame took on.
LEMMA PrefixKeeps ==
  ASSUME Wire!WireAssumption, Wire!WireIInv, Wire!PrefixRead
  PROVE  Wire!WireIInv'
<1>1. PICK start : Wire!Lies(start)
  BY DEF Wire!WireIInv
<1>2. PICK r : r = Len(received)
  OBVIOUS
<1>3. /\ expect = Wire!NoLength /\ Len(partial) = 2
      /\ UNCHANGED <<outbox, accepted, wire, received>>
  BY DEF Wire!PrefixRead, Wire!PrefixLen
<1>4. /\ r \in Nat /\ Wire!Taken(start) \in Nat /\ r + 1 \in 1 .. Len(accepted)
      /\ \A j \in 1 .. Wire!PrefixLen + accepted[r + 1].size :
           LET i == start[r + 1] + j - Wire!Taken(start)
           IN  i \in 1 .. Len(partial) => partial[i] = Wire!Encoded(accepted[r + 1])[j]
  BY <1>1, <1>2, <1>3, FirstFrame
<1>5. PICK f : f = accepted[r + 1]
  OBVIOUS
<1>6. f \in Wire!Frame /\ f.size <= MaxFrame /\ f.size \in Nat /\ f.size <= MaxSize
  BY <1>4, <1>5 DEF Wire!WireIInv, Wire!WireTypeOK, Wire!Frame
<1>7. start[r + 1] \in Nat /\ Wire!Taken(start) = start[r + 1]
  <2>1. start[r + 1] \in Nat
    BY <1>1, <1>4 DEF Wire!Lies
  <2> QED
    BY <1>2, <1>3, <2>1 DEF Wire!Taken
<1>8. partial[1] = Wire!Encoded(f)[1] /\ partial[2] = Wire!Encoded(f)[2]
  <2>1. 1 \in 1 .. Wire!PrefixLen + f.size /\ 2 \in 1 .. Wire!PrefixLen + f.size
    BY <1>6 DEF Wire!PrefixLen
  <2>2. start[r + 1] + 1 - Wire!Taken(start) = 1 /\ start[r + 1] + 2 - Wire!Taken(start) = 2
    BY <1>7
  <2>3. 1 \in 1 .. Len(partial) /\ 2 \in 1 .. Len(partial)
    BY <1>3
  <2> QED
    BY <1>4, <1>5, <2>1, <2>2, <2>3
<1>9. Wire!FromBytes(partial) = f.size
  BY <1>6, <1>8, PrefixReadsBack DEF Wire!FromBytes
<1>10. expect' = f.size /\ partial' = <<>> /\ UNCHANGED reader
  <2>1. ~(f.size > MaxFrame)
    BY <1>6 DEF Wire!WireAssumption
  <2> QED
    BY <1>9, <2>1 DEF Wire!PrefixRead
<1>11. expect' # Wire!NoLength
  BY <1>6, <1>10 DEF Wire!NoLength, Wire!WireAssumption
<1>12. Wire!WireTypeOK' /\ Wire!NoTornFrame'
  <2>1. Wire!WireTypeOK'
    BY <1>3, <1>10 DEF Wire!WireIInv, Wire!WireTypeOK, Wire!Byte
  <2>2. Wire!NoTornFrame'
    BY <1>3, <1>10 DEF Wire!WireIInv, Wire!NoTornFrame
  <2> QED
    BY <2>1, <2>2
<1>13. Wire!Announced'
  BY <1>2, <1>3, <1>4, <1>5, <1>10 DEF Wire!Announced
<1>14. Wire!Taken(start)' = Wire!Taken(start) + Len(partial)
  <2>1. Wire!Taken(start)' = start[r + 1] + 2
    BY <1>2, <1>3, <1>11 DEF Wire!Taken, Wire!PrefixLen, Wire!NoLength
  <2> QED
    BY <1>3, <1>7, <2>1
<1>15. Wire!Lies(start)'
  BY <1>1, <1>2, <1>3, <1>4, <1>10, <1>14, ConsumeKeeps DEF Wire!WireIInv
<1> QED
  BY <1>12, <1>13, <1>15 DEF Wire!WireIInv

\* A whole body is the next frame's, and the frame after it begins there.
LEMMA BodyKeeps ==
  ASSUME Wire!WireAssumption, Wire!WireIInv, Wire!BodyRead
  PROVE  Wire!WireIInv'
<1>1. PICK start : Wire!Lies(start)
  BY DEF Wire!WireIInv
<1>2. PICK r : r = Len(received)
  OBVIOUS
<1>3. /\ expect # Wire!NoLength /\ Len(partial) = expect
      /\ received' = Append(received, partial) /\ partial' = <<>> /\ expect' = Wire!NoLength
      /\ UNCHANGED <<outbox, accepted, wire, reader>>
  BY DEF Wire!BodyRead
<1>4. /\ r \in Nat /\ Wire!Taken(start) \in Nat /\ r + 1 \in 1 .. Len(accepted)
      /\ \A j \in 1 .. Wire!PrefixLen + accepted[r + 1].size :
           LET i == start[r + 1] + j - Wire!Taken(start)
           IN  i \in 1 .. Len(partial) => partial[i] = Wire!Encoded(accepted[r + 1])[j]
  BY <1>1, <1>2, <1>3, FirstFrame
<1>5. PICK f : f = accepted[r + 1]
  OBVIOUS
<1>6. f \in Wire!Frame /\ f.size \in Nat /\ expect = f.size
  BY <1>2, <1>3, <1>4, <1>5 DEF Wire!WireIInv, Wire!WireTypeOK, Wire!Frame, Wire!Announced
<1>7. start[r + 1] \in Nat /\ Wire!Taken(start) = start[r + 1] + 2
  <2>1. start[r + 1] \in Nat
    BY <1>1, <1>4 DEF Wire!Lies
  <2> QED
    BY <1>2, <1>3, <2>1 DEF Wire!Taken, Wire!PrefixLen
<1>8. partial \in Seq(Wire!Byte) /\ received \in Seq(Seq(Wire!Byte))
  BY DEF Wire!WireIInv, Wire!WireTypeOK
<1>9. partial = Wire!Body(f)
  <2>1. ASSUME NEW i \in 1 .. f.size PROVE partial[i] = f
    <3>1. 2 + i \in 1 .. Wire!PrefixLen + f.size
      BY <1>6 DEF Wire!PrefixLen
    <3>2. start[r + 1] + (2 + i) - Wire!Taken(start) = i
      BY <1>6, <1>7
    <3>3. partial[i] = Wire!Encoded(f)[2 + i]
      BY <1>3, <1>4, <1>5, <1>6, <3>1, <3>2
    <3> QED
      BY <1>6, <3>3, PrefixReadsBack DEF Wire!PrefixLen
  <2>2. DOMAIN partial = 1 .. f.size
    BY <1>3, <1>6, <1>8
  <2> QED
    BY <1>8, <2>1, <2>2 DEF Wire!Body
<1>10. /\ received' \in Seq(Seq(Wire!Byte)) /\ Len(received') = r + 1 /\ received'[r + 1] = partial
       /\ DOMAIN received' = 1 .. r + 1 /\ DOMAIN received = 1 .. r
       /\ \A i \in 1 .. r : received'[i] = received[i]
  BY <1>2, <1>3, <1>4, <1>8
<1>11. Wire!WireTypeOK' /\ Wire!Announced'
  BY <1>3, <1>10 DEF Wire!WireIInv, Wire!WireTypeOK, Wire!Announced, Wire!Byte, Wire!NoLength
<1>12. Wire!NoTornFrame'
  <2>1. \A i \in 1 .. r : received[i] = Wire!Body(accepted[i])
    BY <1>10 DEF Wire!WireIInv, Wire!NoTornFrame
  <2>2. \A i \in DOMAIN received' : received'[i] = Wire!Body(accepted'[i])
    <3>1. \A i \in 1 .. r + 1 : i \in 1 .. r \/ i = r + 1
      BY <1>4
    <3> QED
      BY <1>3, <1>5, <1>9, <1>10, <2>1, <3>1
  <2>3. Len(received') <= Len(accepted') /\ reader' # "too large"
    <3>1. reader' # "too large"
      BY <1>3 DEF Wire!WireIInv, Wire!NoTornFrame
    <3>2. Len(received') <= Len(accepted')
      BY <1>3, <1>4, <1>10
    <3> QED
      BY <3>1, <3>2
  <2> QED
    BY <2>2, <2>3 DEF Wire!NoTornFrame
<1>13. Wire!Taken(start)' = Wire!Taken(start) + Len(partial)
  <2>1. Wire!Taken(start)' = start[(r + 1) + 1] + 0
    BY <1>3, <1>10 DEF Wire!Taken, Wire!NoLength
  <2>2. start[(r + 1) + 1] = start[r + 1] + 2 + f.size
    BY <1>1, <1>4, <1>5 DEF Wire!Lies, Wire!PrefixLen
  <2> QED
    BY <1>3, <1>6, <1>7, <2>1, <2>2
<1>14. Wire!Lies(start)'
  BY <1>1, <1>2, <1>3, <1>4, <1>10, <1>13, ConsumeKeeps DEF Wire!WireIInv
<1> QED
  BY <1>11, <1>12, <1>14 DEF Wire!WireIInv

\* Every step keeps the invariant.
LEMMA WireStepInv ==
  ASSUME Wire!WireAssumption
  PROVE  Wire!WireIInv /\ [Wire!WireNext]_(Wire!wireVars) => Wire!WireIInv'
<1> SUFFICES ASSUME Wire!WireIInv, [Wire!WireNext]_(Wire!wireVars) PROVE Wire!WireIInv'
  OBVIOUS
<1>1. ASSUME UNCHANGED <<outbox, accepted, wire, partial, expect, received>>,
             reader' # "too large"
      PROVE  Wire!WireIInv'
  <2>1. Wire!Stream' = Wire!Stream
    BY <1>1 DEF Wire!Stream
  <2>2. Wire!WireTypeOK'
    BY <1>1 DEF Wire!WireIInv, Wire!WireTypeOK, Wire!Byte
  <2>3. Wire!NoTornFrame'
    BY <1>1 DEF Wire!WireIInv, Wire!NoTornFrame
  <2> QED
    BY <1>1, <2>1, <2>2, <2>3, LiesKept DEF Wire!WireIInv
<1>2. reader # "too large"
  BY DEF Wire!WireIInv, Wire!NoTornFrame
<1>3. ASSUME NEW f \in Wire!Frame, Wire!WriteFrame(f) PROVE Wire!WireIInv'
  <2>1. UNCHANGED <<wire, partial, expect, received, reader>> /\ outbox = <<>>
    BY <1>3 DEF Wire!WriteFrame, Wire!readVars
  <2>2. CASE f.size > MaxFrame
    BY <1>1, <1>2, <1>3, <2>1, <2>2 DEF Wire!WriteFrame
  <2>3. CASE ~(f.size > MaxFrame)
    <3>1. accepted' = Append(accepted, f) /\ outbox' = Wire!Encoded(f)
      BY <1>3, <2>3 DEF Wire!WriteFrame
    <3>2. f.size <= MaxFrame
      BY <2>3 DEF Wire!Frame, Wire!WireAssumption
    <3> QED
      BY <2>1, <3>1, <3>2, AcceptKeeps
  <2> QED
    BY <2>2, <2>3
<1>4. ASSUME NEW n \in 1 .. Wire!PrefixLen + MaxSize, Wire!WriteBytes(n) \/ Wire!ReadBytes(n)
      PROVE  Wire!WireIInv'
  <2>1. n \in Nat
    BY DEF Wire!PrefixLen, Wire!WireAssumption
  <2> QED
    BY <1>4, <2>1, MovesKeep
<1>5. CASE Wire!Hangup \/ Wire!ReadEnd \/ UNCHANGED Wire!wireVars
  <2>1. UNCHANGED <<outbox, accepted, wire, partial, expect, received>> /\ reader' # "too large"
    BY <1>2, <1>5 DEF Wire!Hangup, Wire!ReadEnd, Wire!wireVars, Wire!readVars
  <2> QED
    BY <1>1, <2>1
<1>6. CASE Wire!PrefixRead \/ Wire!BodyRead
  BY <1>6, PrefixKeeps, BodyKeeps
<1> QED
  BY <1>3, <1>4, <1>5, <1>6 DEF Wire!WireNext

\* Before any frame, the stream is empty.
LEMMA WireInitInv == Wire!WireInit => Wire!WireIInv
<1> SUFFICES ASSUME Wire!WireInit PROVE Wire!WireIInv
  OBVIOUS
<1>1. Wire!WireTypeOK /\ Wire!Announced /\ Wire!NoTornFrame
  BY DEF Wire!WireInit, Wire!WireTypeOK, Wire!Announced, Wire!NoTornFrame
<1>2. Wire!Lies([k \in 1 .. 1 |-> 0])
  <2>1. Wire!Stream = <<>> /\ Len(Wire!Stream) = 0
    BY DEF Wire!WireInit, Wire!Stream
  <2>2. Wire!Taken([k \in 1 .. 1 |-> 0]) = 0
    BY DEF Wire!WireInit, Wire!Taken
  <2> QED
    BY <2>1, <2>2 DEF Wire!WireInit, Wire!Lies
<1> QED
  BY <1>1, <1>2 DEF Wire!WireIInv

\* For any base of the prefix, ceiling and number of frames: wherever the two ends are
\* cut, what read_frame returns are the frames write_frame took on, whole and in
\* order, and no prefix it meets is too large.
THEOREM WireNoTornFrame == CommandsSpec => []NoTornFrame
<1>1. CommandsSpec => CommandsInit /\ [][CommandsNext]_commandsVars
  BY PTL DEF CommandsSpec
<1> DEFINE IInv == part = "wire" => Wire!WireIInv
<1>2. CommandsInit => IInv
  BY SuiteInit, WireInitInv
<1>3. IInv /\ [CommandsNext]_commandsVars => IInv'
  BY SuiteStep, WireStepInv, CommandsAssumption
<1>4. IInv => NoTornFrame
  BY DEF NoTornFrame, Wire!WireIInv
<1> QED
  BY <1>1, <1>2, <1>3, <1>4, PTL
=============================================================================
