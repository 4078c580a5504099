--------------------------- MODULE CommandRouting ---------------------------
(***************************************************************************)
(* How a ktsense command is answered (ktsense-cli/src/main.rs, routing.rs  *)
(* and ktsense-daemon/src/client.rs): through the root's daemon when one   *)
(* is live, in process otherwise, and with which exit code.  Several       *)
(* commands share one daemon that serves a connection at a time, may die   *)
(* at any moment and may speak another protocol version.                   *)
(*                                                                         *)
(* What the command itself finds is abstracted to its verdict: whether it  *)
(* produced an outcome or an error, the exit status it ends with, and      *)
(* whether a --pick hint goes to stderr.  The daemon's session is healthy  *)
(* here; WarmSession models one that is not.                               *)
(***************************************************************************)
EXTENDS Naturals, FiniteSets

CONSTANTS Client,     \* running ktsense processes
          Command,    \* the commands they may be given
          MaxDeaths,  \* bound: deaths of a daemon
          MaxStalls   \* bound: clients stopped while connected

RoutingAssumption ==
  /\ Command \subseteq {"outline", "deps", "map", "trace", "context",
                       "symbols", "grep", "check", "diagnose", "status"}
  /\ MaxDeaths \in Nat /\ MaxStalls \in Nat

VARIABLES job,      \* what each client was asked: command, flags, verdict
          pc,       \* where each client is
          answer,   \* what it printed and exited with, or NoAnswer
          daemon,   \* "down", "up", or "old" for another protocol version
          queue,    \* clients connected and not yet accepted
          serving,  \* the client whose connection is being served, or none
          served,   \* CommandEngine.served
          starting, \* background starts under way
          autostarts, \* who started one
          deaths, stalled
routeVars == <<job, pc, answer, daemon, queue, serving, served, starting, autostarts, deaths, stalled>>
-----------------------------------------------------------------------------
(* Exit, CommandError, CommandOutcome *)

Ok(exit) == [ok |-> TRUE, exit |-> exit, hint |-> exit = "ambiguous"]
Err(exit) == [ok |-> FALSE, exit |-> exit, hint |-> FALSE]
NoAnswer == [ok |-> FALSE, exit |-> "none", hint |-> FALSE]
UsageError == Err("usage")

Routed(command) == command \in {"outline", "deps", "map", "trace", "context"}
EngineBacked(command) == command \in {"trace", "context"}

\* What each command may conclude: a lookup can be ambiguous, a check or an
\* undeclared name prints its report and still fails, a pattern (--match,
\* --focus) may not compile.
Verdicts(command) ==
  {Ok("success"), Err("failure")}
    \cup (IF command \in {"trace", "context", "symbols"} THEN {Ok("ambiguous")} ELSE {})
    \cup (IF command \in {"trace", "context", "check"} THEN {Ok("failure")} ELSE {})
    \cup (IF command \in {"map", "context"} THEN {Err("usage")} ELSE {})

Job == [command : Command, noDaemon : BOOLEAN, requireDaemon : BOOLEAN, noAutostart : BOOLEAN,
        argv : {"well formed", "malformed", "help"},
        placed : BOOLEAN,   \* a socket path can be placed for its root
        verdict : UNION {Verdicts(c) : c \in Command}]

\* The environment's flags and the socket are looked at by routed commands only,
\* the background start's flag only where one could begin, and nothing of a
\* command whose socket has no place or whose arguments do not parse.
RouteInit ==
  /\ job \in [Client -> {j \in Job :
                 /\ j.verdict \in Verdicts(j.command)
                 /\ j.argv # "well formed" =>
                      j.verdict = Ok("success") /\ j.noDaemon /\ j.requireDaemon /\ j.noAutostart
                        /\ j.placed /\ j.command = CHOOSE k \in Command : TRUE
                 /\ j.argv = "well formed" /\ ~Routed(j.command) =>
                      ~j.noDaemon /\ ~j.requireDaemon /\ ~j.noAutostart /\ j.placed
                 /\ ~j.placed =>
                      j.verdict = Ok("success") /\ ~j.requireDaemon /\ ~j.noAutostart
                 /\ j.argv = "well formed" /\
                      (j.noDaemon \/ j.requireDaemon \/ ~EngineBacked(j.command)) => ~j.noAutostart}]
  /\ pc = [c \in Client |-> "parse"] /\ answer = [c \in Client |-> NoAnswer]
  /\ daemon \in {"down", "up", "old"}
  /\ queue = {} /\ serving = "none" /\ served = 0 /\ starting = 0 /\ autostarts = {}
  /\ deaths = 0 /\ stalled = {}
-----------------------------------------------------------------------------
(* RoutedReply::of, RoutedReply::into_outcome, CommandEngine::answer *)

WireExit(exit) == IF exit \in {"ambiguous", "failure"} THEN exit ELSE "success"

\* An outcome keeps its exit and hint; an error keeps only its message.
OnTheWire(v) ==
  IF v.ok THEN [kind |-> "reply", exit |-> WireExit(v.exit), hint |-> v.hint]
  ELSE [kind |-> "error", exit |-> "", hint |-> FALSE]

\* Mutant: an answer whose exit is not carried defaults to success.
AnsweredDefault(frame) ==
  IF frame.kind = "reply" THEN [ok |-> TRUE, exit |-> "success", hint |-> frame.hint]
  ELSE Err("failure")

\* ask_daemon and route: a reply is the outcome, an engine error a failure.
Answered(frame) ==
  IF frame.kind = "reply" THEN [ok |-> TRUE, exit |-> frame.exit, hint |-> frame.hint]
  ELSE Err("failure")
-----------------------------------------------------------------------------
(* main, run, route *)

Goto(c, l) == pc' = [pc EXCEPT ![c] = l]
Finish(c, a) == Goto(c, "done") /\ answer' = [answer EXCEPT ![c] = a]
Running(c) == c \notin stalled

\* main: clap's own errors end with status 2, its help with 0.
Parse(c) ==
  /\ pc[c] = "parse"
  /\ CASE job[c].argv = "malformed" -> Finish(c, UsageError)
       [] job[c].argv = "help" -> Finish(c, Ok("success"))
       [] OTHER -> Goto(c, "run") /\ UNCHANGED answer
  /\ UNCHANGED <<job, daemon, queue, serving, served, starting, autostarts, deaths, stalled>>

\* Mutant: the socket is placed inside the routing, after the opt-out is looked at.
DispatchUnplaced(c) ==
  /\ pc[c] = "run"
  /\ IF ~Routed(job[c].command) \/ job[c].noDaemon
     THEN Finish(c, job[c].verdict)
     ELSE Goto(c, "connect") /\ UNCHANGED answer
  /\ UNCHANGED <<job, daemon, queue, serving, served, starting, autostarts, deaths, stalled>>

\* run and route: an unrouted command is answered by this process.  A routed one
\* has its socket placed first, and ends where that fails, also one that would
\* not have used it: under KTSENSE_NO_DAEMON this process answers.
Dispatch(c) ==
  /\ pc[c] = "run"
  /\ CASE Routed(job[c].command) /\ ~job[c].placed -> Finish(c, Err("failure"))
       [] ~Routed(job[c].command) \/ (job[c].placed /\ job[c].noDaemon) -> Finish(c, job[c].verdict)
       [] OTHER -> Goto(c, "connect") /\ UNCHANGED answer
  /\ UNCHANGED <<job, daemon, queue, serving, served, starting, autostarts, deaths, stalled>>

\* Client::connect: a dead socket, or a place in the listener's backlog.
Connect(c) ==
  /\ pc[c] = "connect"
  /\ IF daemon = "down"
     THEN Goto(c, "unreachable") /\ UNCHANGED queue
     ELSE Goto(c, "hello") /\ queue' = queue \cup {c}
  /\ UNCHANGED <<job, answer, daemon, serving, served, starting, autostarts, deaths, stalled>>

\* verify_protocol on the hello; a mismatch drops the connection.
ReadHello(c) ==
  /\ pc[c] = "hello" /\ Running(c) /\ serving = c
  /\ IF daemon = "old"
     THEN Goto(c, "unreachable") /\ serving' = "none"
     ELSE Goto(c, "asked") /\ UNCHANGED serving
  /\ UNCHANGED <<job, answer, daemon, queue, served, starting, autostarts, deaths, stalled>>

\* The peer closed before its hello or before answering: NoHello, ClosedEarly, Io.
LoseDaemon(c) ==
  /\ pc[c] \in {"hello", "asked"} /\ Running(c) /\ c \notin queue /\ serving # c
  /\ Goto(c, "unreachable")
  /\ UNCHANGED <<job, answer, daemon, queue, serving, served, starting, autostarts, deaths, stalled>>

\* Mutant: the opt-out of the background start is not looked at.
FallBackEager(c) ==
  /\ pc[c] = "unreachable"
  /\ IF job[c].requireDaemon
     THEN Finish(c, Err("failure")) /\ UNCHANGED <<starting, autostarts>>
     ELSE /\ Finish(c, job[c].verdict)
          /\ IF EngineBacked(job[c].command)
             THEN starting' = starting + 1 /\ autostarts' = autostarts \cup {c}
             ELSE UNCHANGED <<starting, autostarts>>
  /\ UNCHANGED <<job, daemon, queue, serving, served, deaths, stalled>>

\* Unreachable: refused under KTSENSE_REQUIRE_DAEMON, else answer_then_warm.
FallBack(c) ==
  /\ pc[c] = "unreachable"
  /\ IF job[c].requireDaemon
     THEN Finish(c, Err("failure")) /\ UNCHANGED <<starting, autostarts>>
     ELSE /\ Finish(c, job[c].verdict)
          /\ IF EngineBacked(job[c].command) /\ ~job[c].noAutostart
             THEN starting' = starting + 1 /\ autostarts' = autostarts \cup {c}
             ELSE UNCHANGED <<starting, autostarts>>
  /\ UNCHANGED <<job, daemon, queue, serving, served, deaths, stalled>>

\* A connected client is stopped (a debugger, a suspended job) and stays so.
Stall(c) ==
  /\ pc[c] \in {"hello", "asked"} /\ Running(c) /\ Cardinality(stalled) < MaxStalls
  /\ stalled' = stalled \cup {c}
  /\ UNCHANGED <<job, pc, answer, daemon, queue, serving, served, starting, autostarts, deaths>>
-----------------------------------------------------------------------------
(* The daemon: serve_loop, serve_connection, CommandEngine::handle *)

\* One connection at a time; its hello goes out at once.
Accept(c) ==
  /\ daemon # "down" /\ serving = "none" /\ c \in queue
  /\ queue' = queue \ {c} /\ serving' = c
  /\ UNCHANGED <<job, pc, answer, daemon, served, starting, autostarts, deaths, stalled>>

\* The request is counted, answered by the same code the client would run, and
\* the client, its one question answered, hangs up.
Handle(c) ==
  /\ daemon = "up" /\ serving = c /\ pc[c] = "asked" /\ Running(c)
  /\ served' = served + 1
  /\ Finish(c, Answered(OnTheWire(job[c].verdict)))
  /\ serving' = "none"
  /\ UNCHANGED <<job, daemon, queue, starting, autostarts, deaths, stalled>>

\* Mutant: connections waiting to be accepted outlive the daemon.
DaemonDiesQuietly ==
  /\ daemon # "down" /\ deaths < MaxDeaths
  /\ daemon' = "down" /\ serving' = "none" /\ served' = 0 /\ deaths' = deaths + 1
  /\ UNCHANGED <<job, pc, answer, queue, starting, autostarts, stalled>>

\* Idle, stopped, faulted or killed: its connections close.
DaemonDies ==
  /\ daemon # "down" /\ deaths < MaxDeaths
  /\ daemon' = "down" /\ queue' = {} /\ serving' = "none" /\ served' = 0
  /\ deaths' = deaths + 1
  /\ UNCHANGED <<job, pc, answer, starting, autostarts, stalled>>

\* A background start brings one daemon up, replacing one of another version.
DaemonStarts ==
  /\ starting > 0 /\ starting' = starting - 1
  /\ daemon' = "up"
  /\ IF daemon = "old" THEN queue' = {} /\ serving' = "none" /\ served' = 0
     ELSE UNCHANGED <<queue, serving, served>>
  /\ UNCHANGED <<job, pc, answer, autostarts, deaths, stalled>>

ClientStep(c) == Parse(c) \/ Dispatch(c) \/ Connect(c) \/ ReadHello(c) \/ LoseDaemon(c) \/ FallBack(c)
DaemonStep == \E c \in Client : Accept(c) \/ Handle(c)

RouteNext ==
  \/ \E c \in Client : ClientStep(c) \/ Stall(c)
  \/ DaemonStep \/ DaemonDies \/ DaemonStarts

\* A process that is not stopped runs on, and so does the daemon while it lives.
RouteSpec ==
  /\ RouteInit /\ [][RouteNext]_routeVars
  /\ \A c \in Client : WF_routeVars(ClientStep(c))
  /\ WF_routeVars(DaemonStep)
-----------------------------------------------------------------------------
\* "a routed answer equals the in-process one": whoever answered, the daemon, the
\* fallback after a daemon lost at any point, or this process, the command ends
\* with its own verdict, exit code and hint included.  Three failures are the
\* routing's own: no socket can be placed for the root; the daemon that was
\* demanded is not there; and a pattern that does not compile is a failure, no
\* longer a usage error, when a daemon says so.
RoutedAnswerIsTheAnswer ==
  \A c \in Client :
    LET j == job[c] IN
    pc[c] = "done" /\ j.argv = "well formed"
      => \/ answer[c] = j.verdict
         \/ /\ Routed(j.command) /\ answer[c] = Err("failure")
            /\ \/ ~j.placed
               \/ ~j.noDaemon /\ (j.requireDaemon \/ j.verdict = UsageError)

\* The start left behind for the next question: only by an engine-backed command
\* that no daemon answered, never against either opt-out nor for a root whose
\* socket has no place, and a command that demands a daemon neither answers alone
\* nor starts one.
AutostartIsQuiet ==
  \A c \in autostarts :
    /\ pc[c] = "done" /\ EngineBacked(job[c].command) /\ job[c].placed
    /\ ~job[c].noDaemon /\ ~job[c].noAutostart /\ ~job[c].requireDaemon

\* "Falls back to running in-process when there is no live daemon, when
\* KTSENSE_NO_DAEMON=1 is set, or when the transport fails": a command that may use
\* no daemon concludes what it would conclude alone.
NoDaemonAnswersAlone ==
  \A c \in Client :
    pc[c] = "done" /\ job[c].argv = "well formed" /\ job[c].noDaemon
      => answer[c] = job[c].verdict

\* route, answer_then_warm: whoever answers a command, it ends with the verdict it
\* would reach alone but for the three failures named, and leaves a start behind
\* only where its flags allow one.
RoutingIsInvisible == RoutedAnswerIsTheAnswer /\ AutostartIsQuiet

\* What makes it inductive: a command under way was parsed, and one past run is
\* a routed command that may use a daemon.
Parsed == \A c \in Client : pc[c] \notin {"parse", "done"} => job[c].argv = "well formed"
PastDispatch ==
  \A c \in Client : pc[c] \in {"connect", "hello", "asked", "unreachable"} =>
    Routed(job[c].command) /\ ~job[c].noDaemon /\ job[c].placed
Answers == {NoAnswer, Ok("success"), Ok("ambiguous"), Ok("failure"), Err("failure"), UsageError}
RouteTypeOK ==
  /\ \A c \in Client : /\ job[c].verdict \in Verdicts(job[c].command)
                        /\ job[c].argv \in {"well formed", "malformed", "help"}
  /\ pc \in [Client -> {"parse", "run", "connect", "hello", "asked", "unreachable", "done"}]
  /\ answer \in [Client -> Answers]
  /\ autostarts \subseteq Client
RouteIInv == RouteTypeOK /\ Parsed /\ PastDispatch /\ RoutingIsInvisible

\* "a routing problem degrades to a slower answer rather than no answer": every
\* command ends, whatever happens to the daemon while it is being asked, unless
\* a client that holds a connection is stopped: the daemon serves one at a time.
Concluded == stalled # {} \/ \A c \in Client : pc[c] = "done"
=============================================================================
