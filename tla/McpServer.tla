------------------------------ MODULE McpServer ------------------------------
(***************************************************************************)
(* Concurrent tool calls of the MCP server (ktsense-mcp): each learns the  *)
(* client's roots, picks the root it is about, makes sure an engine is warm*)
(* for it, and delegates to a child `ktsense` process.  Between any two of *)
(* those awaits another call, or the notification that the client's roots  *)
(* changed, may run.                                                       *)
(*                                                                         *)
(* A call here names no `root` of its own and its tool is one the index    *)
(* shapes; the others take a subset of these steps.  The client's root list*)
(* is abstracted to the root such a call resolves to.  The client, the     *)
(* daemon probe and the engine are external and may hang or fail.          *)
(***************************************************************************)
EXTENDS Naturals, FiniteSets

CONSTANTS Call,       \* tool calls
          Root,       \* workspace roots a client can have open
          ServerRoot, \* the root the server was started with
          MaxChanges  \* bound: times the client changes its roots

ASSUME McpAssumption ==
  /\ ServerRoot \notin Root /\ "unasked" \notin Root /\ "empty" \notin Root
  /\ MaxChanges \in Nat

Workspace == Root \cup {ServerRoot}

VARIABLES
  workspace,   \* the root the client has open now
  changes,     \* how often that has changed
  unhandled,   \* list_changed notifications sent and not yet handled
  clientRoots, \* the cached answer: a root, "empty", or "unasked"
  pc, got,     \* got[c]: what roots/list answered call c
  chosen,      \* chosen[c]: the root call c is about
  warmth,      \* warmth[c]: what deciding that root came to
  quiet,       \* quiet[c]: no change was pending or has happened since c began
  decided,     \* roots some call has claimed
  engine       \* engine[c]: the session call c opened: none, opening or held

rootVars == <<workspace, changes, unhandled, clientRoots>>
callVars == <<pc, got, chosen, quiet>>
warmVars == <<warmth, decided, engine>>
mcpVars  == <<rootVars, callVars, warmVars>>

Deciding == {"probing", "opening"}

McpTypeOK ==
  /\ workspace \in Root /\ changes \in 0 .. MaxChanges /\ unhandled \in 0 .. MaxChanges
  /\ clientRoots \in Root \cup {"empty", "unasked"}
  /\ pc \in [Call -> {"idle", "listing", "storing", "dispatched", "claiming",
                      "running", "done"} \cup Deciding]
  /\ got \in [Call -> Root \cup {"empty"}]
  /\ chosen \in [Call -> Workspace]
  /\ warmth \in [Call -> {"none", "decided", "left to daemon", "opened", "failed"}]
  /\ quiet \in [Call -> BOOLEAN]
  /\ decided \subseteq Workspace
  /\ engine \in [Call -> {"none", "opening", "held"}]

McpInit ==
  /\ workspace \in Root /\ changes = 0 /\ unhandled = 0 /\ clientRoots = "unasked"
  /\ pc = [c \in Call |-> "idle"]
  /\ got = [c \in Call |-> "empty"]
  /\ chosen = [c \in Call |-> ServerRoot]
  /\ warmth = [c \in Call |-> "none"]
  /\ quiet = [c \in Call |-> FALSE]
  /\ decided = {}
  /\ engine = [c \in Call |-> "none"]

Goto(c, l) == pc' = [pc EXCEPT ![c] = l]
-----------------------------------------------------------------------------
(* The client's side *)

RootsChange ==
  /\ changes < MaxChanges
  /\ \E r \in Root \ {workspace} : workspace' = r
  /\ changes' = changes + 1
  /\ unhandled' = unhandled + 1
  /\ quiet' = [c \in Call |-> FALSE]
  /\ UNCHANGED <<clientRoots, pc, got, chosen, warmVars>>

OnRootsListChanged ==
  /\ unhandled > 0
  /\ unhandled' = unhandled - 1
  /\ clientRoots' = "unasked"
  /\ UNCHANGED <<workspace, changes, callVars, warmVars>>
-----------------------------------------------------------------------------
(* call_tool: learn_roots, then the tool's root_for *)

BeginCall(c) ==
  /\ pc[c] = "idle"
  /\ Goto(c, IF clientRoots = "unasked" THEN "listing" ELSE "dispatched")
  /\ quiet' = [quiet EXCEPT ![c] = unhandled = 0]
  /\ UNCHANGED <<rootVars, got, chosen, warmVars>>

\* advertised_roots: the client's answer, or none when it errs or takes longer
\* than ROOTS_BOUND.
ListRoots(c) ==
  /\ pc[c] = "listing"
  /\ \E answer \in {workspace, "empty"} : got' = [got EXCEPT ![c] = answer]
  /\ Goto(c, "storing")
  /\ UNCHANGED <<rootVars, chosen, quiet, warmVars>>

StoreRoots(c) ==
  /\ pc[c] = "storing"
  /\ clientRoots' = got[c]
  /\ got' = [got EXCEPT ![c] = "empty"]
  /\ Goto(c, "dispatched")
  /\ UNCHANGED <<workspace, changes, unhandled, chosen, quiet, warmVars>>

\* An empty list, and one that was dropped meanwhile, leave the server's root.
RootFor(c) ==
  /\ pc[c] = "dispatched"
  /\ chosen' = [chosen EXCEPT ![c] = IF clientRoots \in Root THEN clientRoots ELSE ServerRoot]
  /\ Goto(c, "claiming")
  /\ UNCHANGED <<rootVars, got, quiet, warmVars>>
-----------------------------------------------------------------------------
(* WarmEngines::ensure *)

Warmed(c, w) == warmth' = [warmth EXCEPT ![c] = w] /\ Goto(c, "running")

\* Mutant: the roots decided so far are looked up before, and recorded after,
\* the root has been decided.
ClaimLate(c) ==
  /\ pc[c] = "claiming"
  /\ IF chosen[c] \in {chosen[d] : d \in {e \in Call : warmth[e] # "none"}}
     THEN Warmed(c, "decided") /\ UNCHANGED decided
     ELSE Goto(c, "probing") /\ decided' = decided \cup {chosen[c]} /\ UNCHANGED warmth
  /\ UNCHANGED <<rootVars, got, chosen, quiet, engine>>

\* claim: insert under the lock tells whether this call is the first.
Claim(c) ==
  /\ pc[c] = "claiming"
  /\ IF chosen[c] \in decided
     THEN Warmed(c, "decided") /\ UNCHANGED decided
     ELSE Goto(c, "probing") /\ decided' = decided \cup {chosen[c]} /\ UNCHANGED warmth
  /\ UNCHANGED <<rootVars, got, chosen, quiet, engine>>

\* daemon_holds: a `status` child says whether a daemon runs; then launch.
ProbeDaemon(c) ==
  /\ pc[c] = "probing"
  /\ \/ Warmed(c, "left to daemon") /\ UNCHANGED engine
     \/ /\ Goto(c, "opening")
        /\ engine' = [engine EXCEPT ![c] = "opening"]
        /\ UNCHANGED warmth
  /\ UNCHANGED <<rootVars, got, chosen, quiet, decided>>

\* EngineWarmer::open initializes, waits for the index and keeps the client;
\* an error drops it.
Open(c) ==
  /\ pc[c] = "opening"
  /\ \/ Warmed(c, "opened") /\ engine' = [engine EXCEPT ![c] = "held"]
     \/ Warmed(c, "failed") /\ engine' = [engine EXCEPT ![c] = "none"]
  /\ UNCHANGED <<rootVars, got, chosen, quiet, decided>>

\* Mutant: the bound covers the warm-up but not the probe before it.
WarmUpTimesOutOpening(c) ==
  /\ pc[c] = "opening"
  /\ Warmed(c, "failed")
  /\ engine' = [engine EXCEPT ![c] = "none"]
  /\ UNCHANGED <<rootVars, got, chosen, quiet, decided>>

\* Mutant: the warm-up runs in a task of its own, which the timeout leaves behind.
WarmUpTimesOutDetached(c) ==
  /\ pc[c] \in Deciding
  /\ Warmed(c, "failed")
  /\ UNCHANGED <<rootVars, got, chosen, quiet, decided, engine>>

\* The bound covers the probe and the warm-up; dropping the future drops the
\* client it was opening, which kills the engine.
WarmUpTimesOut(c) ==
  /\ pc[c] \in Deciding
  /\ Warmed(c, "failed")
  /\ engine' = [engine EXCEPT ![c] = "none"]
  /\ UNCHANGED <<rootVars, got, chosen, quiet, decided>>

\* The command runs in a child process about the chosen root, awaited without a
\* bound: the child ends, or could not be spawned, or the call stays here.
Run(c) ==
  /\ pc[c] = "running"
  /\ Goto(c, "done")
  /\ UNCHANGED <<rootVars, got, chosen, quiet, warmVars>>
-----------------------------------------------------------------------------
\* The steps the server itself takes, by its own or by a timer's doing; when a
\* probe, a launch or a command ends is not its to decide.
ServerStep(c) ==
  ListRoots(c) \/ StoreRoots(c) \/ RootFor(c) \/ Claim(c) \/ WarmUpTimesOut(c)

McpNext ==
  \/ RootsChange \/ OnRootsListChanged
  \/ \E c \in Call : BeginCall(c) \/ ServerStep(c) \/ ProbeDaemon(c) \/ Open(c) \/ Run(c)

McpFairness == \A c \in Call : WF_mcpVars(ServerStep(c))

McpSpec == McpInit /\ [][McpNext]_mcpVars /\ McpFairness
-----------------------------------------------------------------------------
\* "Two callers that each looked first and inserted afterwards would both
\* believe they were first and open two sessions": no root ever has two
\* sessions, opening or held, of this server.
OneSessionPerRoot ==
  \A c, d \in Call :
    engine[c] # "none" /\ engine[d] # "none" /\ chosen[c] = chosen[d] => c = d

\* An engine this server started is one a call is opening now or one it opened
\* and holds: a warm-up that timed out or failed leaves no engine behind.
NoStrayEngine ==
  \A c \in Call :
    /\ engine[c] = "opening" <=> pc[c] = "opening"
    /\ engine[c] = "held" <=> warmth[c] = "opened"

\* The strengthening behind the two: a call past its claim owns its root, and
\* owners of one root are one call.
Owns(c) == pc[c] \in Deciding \/ warmth[c] \in {"left to daemon", "opened", "failed"}
OwnersDecided == \A c \in Call : Owns(c) => chosen[c] \in decided
OneOwner == \A c, d \in Call : Owns(c) /\ Owns(d) /\ chosen[c] = chosen[d] => c = d
WarmthLater ==
  \A c \in Call : warmth[c] # "none" => pc[c] \in {"running", "done"}
NotesAreChanges == unhandled <= changes
McpIInv ==
  McpTypeOK /\ NotesAreChanges /\ WarmthLater /\ NoStrayEngine /\ OwnersDecided /\ OneOwner

\* "Cannot wedge every tool call": each call that begins comes to run its own
\* command, also when the client never answers, the status probe hangs, the
\* engine wedges, or the commands of other calls never end.  That its own
\* command ends is not promised: nothing bounds it.
CallsReachTheirCommand ==
  \A c \in Call : pc[c] # "idle" ~> pc[c] \in {"running", "done"}

\* "The cached answer is dropped and the next call asks again": a call that
\* began after the last change was handled never runs about a root the client
\* no longer has open.
RootsAreCurrent ==
  \A c \in Call :
    quiet[c] /\ pc[c] \notin {"idle", "listing", "storing", "dispatched"}
      => chosen[c] \in {workspace, ServerRoot}
=============================================================================
