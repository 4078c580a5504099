--------------------------- MODULE DaemonLifecycle ---------------------------
(***************************************************************************)
(* `daemon start`, `daemon stop` and the detached `daemon serve` children  *)
(* of one root, sharing its claim file (StartClaim) and its socket path.   *)
(* Sources: ktsense-cli/src/daemon.rs, ktsense-daemon/src/server.rs and    *)
(* the connection half of ktsense-daemon/src/client.rs.                    *)
(*                                                                         *)
(* A connect(2) succeeds as soon as the kernel can queue it: the daemon    *)
(* serves one connection at a time and none at all once it has left its    *)
(* serve loop, yet it keeps listening until its engine is down.  A stat, a *)
(* probe, a remove and a bind of the socket path are separate system calls.*)
(***************************************************************************)
EXTENDS StartClaim, Naturals, Sequences

CONSTANTS Stopper,          \* the `daemon stop` processes
          Server,           \* slots for `daemon serve` children, reused
          StartersMayDie,   \* a start may be killed at any point
          DaemonsMayCrash   \* a serve child may die without cleaning up

Client == Starter \cup Stopper

ASSUME LifecycleAssumption ==
  /\ None \notin Stopper /\ None \notin Server /\ Starter \cap Stopper = {}
  /\ {"absent", "stale", "lost"} \cap Server = {}
  /\ {StartersMayDie, DaemonsMayCrash} \subseteq BOOLEAN

VARIABLES
  pc,       \* pc[c]: where start or stop command c is
  result,   \* result[c]: what it will report
  conn,     \* conn[c]: the daemon at the other end of c's connection
  child,    \* child[s]: the serve child start s spawned
  path,     \* what the socket path names: a child's socket, "absent", "stale"
  sv,       \* sv[d]: where serve child d is
  ver,      \* ver[d]: the protocol version d's build speaks
  queue,    \* queue[d]: connections the kernel has accepted for d
  peer,     \* peer[d]: the client serve_connection is serving, or None
  frame     \* frame[d]: what the served client has put on the wire

cmdVars == <<pc, result, conn, child>>
svVars  == <<sv, ver, peer, frame>>
vars    == <<claimVars, cmdVars, path, queue, svVars>>

StarterPC == {"idle", "connecting", "hello", "draining", "contending", "taking",
              "looking", "spawning", "awaiting", "releasing", "done", "dead"}
StopperPC == {"idle", "connecting", "hello", "draining", "done"}
ServerPC  == {"free", "warming", "preparing", "probing", "removing", "binding",
              "bound", "listening", "serving", "stopping", "unguarded"}
Success   == {"already", "started"}

LifecycleTypeOK ==
  /\ ClaimTypeOK
  /\ pc \in [Client -> StarterPC] /\ \A c \in Stopper : pc[c] \in StopperPC
  /\ result \in [Client -> Success \cup {"pending", "failed", "stopped", "not running"}]
  /\ conn \in [Client -> Server \cup {None, "lost"}]
  /\ child \in [Starter -> Server \cup {None}]
  /\ path \in Server \cup {"absent", "stale"}
  /\ sv \in [Server -> ServerPC]
  /\ ver \in [Server -> {"old", "current"}]
  /\ queue \in [Server -> Seq(Client)]
  /\ peer \in [Server -> Client \cup {None}]
  /\ frame \in [Server -> {"none", "stop", "eof"}]

\* No daemon, the socket of one that crashed, or one some build left warm.
LifecycleInit ==
  /\ ClaimInit
  /\ pc = [c \in Client |-> "idle"]
  /\ result = [c \in Client |-> "pending"]
  /\ conn = [c \in Client |-> None]
  /\ child = [s \in Starter |-> None]
  /\ queue = [d \in Server |-> <<>>]
  /\ peer = [d \in Server |-> None]
  /\ frame = [d \in Server |-> "none"]
  /\ \/ /\ path \in {"absent", "stale"}
        /\ sv = [d \in Server |-> "free"]
        /\ ver = [d \in Server |-> "current"]
     \/ /\ path \in Server
        /\ sv = [d \in Server |-> IF d = path THEN "serving" ELSE "free"]
        /\ \E v \in {"old", "current"} :
             ver = [d \in Server |-> IF d = path THEN v ELSE "current"]
-----------------------------------------------------------------------------
(* The socket path *)

\* A child is connectable from listen(2) until its listener is dropped.
Listening(d) == sv[d] \in {"listening", "serving", "stopping", "unguarded"}

\* probe: connect and hang up.  "Stale" is every refusal but NotFound, so it is
\* also what a socket between bind(2) and listen(2) looks like.
Live == path \in Server /\ Listening(path)

\* The connections of a child that is gone: reset, or EOF before any hello.
Hangup(d) ==
  /\ conn' = [c \in Client |-> IF conn[c] = d THEN "lost" ELSE conn[c]]
  /\ queue' = [queue EXCEPT ![d] = <<>>]
-----------------------------------------------------------------------------
(* AnyClient, as `start` (stop_if_mismatched) and `stop` use it *)

Report(c, r) == pc' = [pc EXCEPT ![c] = "done"] /\ result' = [result EXCEPT ![c] = r]
Goto(c, l)   == pc' = [pc EXCEPT ![c] = l] /\ UNCHANGED result

\* What c reports when the daemon cannot be talked to: a start takes any error
\* of stop_if_mismatched for "already running", a stop reports the failure.
Unreachable(c) == Report(c, IF c \in Starter THEN "already" ELSE "failed")

Connect(c) ==
  /\ pc[c] = "connecting"
  /\ IF Live
     THEN /\ Goto(c, "hello")
          /\ conn' = [conn EXCEPT ![c] = path]
          /\ queue' = [queue EXCEPT ![path] = Append(@, c)]
     ELSE Unreachable(c) /\ UNCHANGED <<conn, queue>>
  /\ UNCHANGED <<claimVars, child, path, svVars>>

\* Mutant: the version in the hello is not compared.
ReadHelloBlind(c) ==
  /\ pc[c] = "hello"
  /\ \E d \in Server :
       /\ conn[c] = d /\ peer[d] = c
       /\ frame' = [frame EXCEPT ![d] = "stop"]
  /\ Goto(c, "draining")
  /\ conn' = [conn EXCEPT ![c] = None]
  /\ UNCHANGED <<claimVars, child, path, queue, sv, ver, peer>>

\* The hello is read; the stop frame goes out on the same connection.
ReadHello(c) ==
  /\ pc[c] = "hello"
  /\ \E d \in Server :
       /\ conn[c] = d /\ peer[d] = c
       /\ IF c \in Starter /\ ver[d] = "current"
          THEN Report(c, "already") /\ frame' = [frame EXCEPT ![d] = "eof"]
          ELSE Goto(c, "draining") /\ frame' = [frame EXCEPT ![d] = "stop"]
  /\ conn' = [conn EXCEPT ![c] = None]
  /\ UNCHANGED <<claimVars, child, path, queue, sv, ver, peer>>

HelloLost(c) ==
  /\ pc[c] = "hello"
  /\ conn[c] = "lost"
  /\ Unreachable(c)
  /\ conn' = [conn EXCEPT ![c] = None]
  /\ UNCHANGED <<claimVars, child, path, queue, svVars>>

\* wait_until_gone: the path is gone, or STOP_TIMEOUT passed; the code does not
\* tell the two apart.
Drained(c) ==
  /\ pc[c] = "draining"
  /\ IF c \in Starter THEN Goto(c, "contending") ELSE Report(c, "stopped")
  /\ UNCHANGED <<claimVars, conn, child, path, queue, svVars>>
-----------------------------------------------------------------------------
(* `daemon stop` *)

BeginStop(c) ==
  /\ c \in Stopper /\ pc[c] = "idle"
  /\ IF Live THEN Goto(c, "connecting") ELSE Report(c, "not running")
  /\ UNCHANGED <<claimVars, conn, child, path, queue, svVars>>
-----------------------------------------------------------------------------
(* `daemon start` *)

BeginStart(s) ==
  /\ pc[s] = "idle"
  /\ Goto(s, IF Live THEN "connecting" ELSE "contending")
  /\ UNCHANGED <<claimVars, conn, child, path, queue, svVars>>

\* claim_the_start, top of the loop.
Contend(s) ==
  /\ pc[s] = "contending"
  /\ IF Live THEN Report(s, "already") ELSE Goto(s, "taking")
  /\ UNCHANGED <<claimVars, conn, child, path, queue, svVars>>

OpenTheClaim(s) ==
  /\ pc[s] = "taking"
  /\ OpenClaim(s)
  /\ UNCHANGED <<cmdVars, path, queue, svVars>>

LockTheClaim(s) ==
  /\ pc[s] = "taking"
  /\ LockClaim(s)
  /\ UNCHANGED <<cmdVars, path, queue, svVars>>

\* take_claim answers None: sleep and try again, or the deadline has passed.
ClaimTaken(s) ==
  /\ pc[s] = "taking"
  /\ LockHeld(s) \/ AbandonClaim(s)
  /\ Goto(s, "contending") \/ Report(s, "failed")
  /\ UNCHANGED <<conn, child, path, queue, svVars>>

\* Mutant: the error return keeps the descriptor it locked.
ClaimFailsOpen(s) ==
  /\ pc[s] = "taking"
  /\ UNCHANGED claimVars
  /\ Report(s, "failed")
  /\ UNCHANGED <<conn, child, path, queue, svVars>>

\* take_claim answers Err: the directory, the open, the lock or the metadata.
ClaimFails(s) ==
  /\ pc[s] = "taking"
  /\ LockRefused(s) \/ (claim[s] = "none" /\ UNCHANGED claimVars)
  /\ Report(s, "failed")
  /\ UNCHANGED <<conn, child, path, queue, svVars>>

ConfirmTheClaim(s) ==
  /\ pc[s] = "taking"
  /\ ConfirmClaim(s)
  /\ Goto(s, "looking")
  /\ UNCHANGED <<conn, child, path, queue, svVars>>

\* Mutant: no second look; the socket was probed before the claim was taken.
LookAway(s) ==
  /\ pc[s] = "looking"
  /\ Goto(s, "spawning")
  /\ UNCHANGED <<claimVars, conn, child, path, queue, svVars>>

\* The second look at the socket, under the claim.
Look(s) ==
  /\ pc[s] = "looking"
  /\ IF Live
     THEN pc' = [pc EXCEPT ![s] = "releasing"] /\ result' = [result EXCEPT ![s] = "already"]
     ELSE Goto(s, "spawning")
  /\ UNCHANGED <<claimVars, conn, child, path, queue, svVars>>

SpawnDetached(s) ==
  /\ pc[s] = "spawning"
  /\ \E d \in Server :
       /\ sv[d] = "free"
       /\ sv' = [sv EXCEPT ![d] = "warming"]
       /\ ver' = [ver EXCEPT ![d] = "current"]
       /\ child' = [child EXCEPT ![s] = d]
  /\ Goto(s, "awaiting")
  /\ UNCHANGED <<claimVars, conn, path, queue, peer, frame>>

SpawnFails(s) ==
  /\ pc[s] = "spawning"
  /\ pc' = [pc EXCEPT ![s] = "releasing"] /\ result' = [result EXCEPT ![s] = "failed"]
  /\ UNCHANGED <<claimVars, conn, child, path, queue, svVars>>

\* Mutant: the start reports, and gives the claim back, without waiting.
AwaitNothing(s) ==
  /\ pc[s] = "awaiting"
  /\ result' = [result EXCEPT ![s] = "started"]
  /\ pc' = [pc EXCEPT ![s] = "releasing"]
  /\ UNCHANGED <<claimVars, conn, child, path, queue, svVars>>

\* Mutant: the wait for the socket has no deadline.
AwaitForever(s) ==
  /\ pc[s] = "awaiting"
  /\ Live
  /\ result' = [result EXCEPT ![s] = "started"]
  /\ pc' = [pc EXCEPT ![s] = "releasing"]
  /\ UNCHANGED <<claimVars, conn, child, path, queue, svVars>>

\* A child on its way up, not yet listening.
Early(d) == sv[d] \in {"warming", "preparing", "probing", "removing", "binding", "bound"}

\* await_liveness: the socket answers, or START_TIMEOUT passes.  The bounds of
\* warm_up (the version probe, initialize, initialized) add up to less, so by then
\* the child has come up or is gone.
Await(s) ==
  /\ pc[s] = "awaiting"
  /\ \/ Live /\ result' = [result EXCEPT ![s] = "started"]
     \/ /\ ~Live
        /\ ~Early(child[s])
        /\ result' = [result EXCEPT ![s] = "failed"]
  /\ pc' = [pc EXCEPT ![s] = "releasing"]
  /\ UNCHANGED <<claimVars, conn, child, path, queue, svVars>>

ReleaseUnlink(s) ==
  /\ pc[s] = "releasing"
  /\ UnlinkClaim(s)
  /\ UNCHANGED <<cmdVars, path, queue, svVars>>

ReleaseClose(s) ==
  /\ pc[s] = "releasing"
  /\ CloseClaim(s)
  /\ pc' = [pc EXCEPT ![s] = "done"]
  /\ UNCHANGED <<result, conn, child, path, queue, svVars>>

\* The queue without a client that is gone; it waits there at most once.
Without(q, c) ==
  IF \E i \in 1 .. Len(q) : q[i] = c
  THEN LET i == CHOOSE j \in 1 .. Len(q) : q[j] = c
       IN  SubSeq(q, 1, i - 1) \o SubSeq(q, i + 1, Len(q))
  ELSE q

StarterDies(s) ==
  /\ StartersMayDie
  /\ pc[s] \notin {"idle", "done", "dead"}
  /\ KillClaimant(s) \/ (claim[s] = "none" /\ UNCHANGED claimVars)
  /\ Goto(s, "dead")
  /\ conn' = [conn EXCEPT ![s] = None]
  /\ queue' = [d \in Server |-> Without(queue[d], s)]
  /\ frame' = [d \in Server |-> IF peer[d] = s /\ frame[d] = "none" THEN "eof" ELSE frame[d]]
  /\ UNCHANGED <<child, path, sv, ver, peer>>
-----------------------------------------------------------------------------
(* `daemon serve`: warm_up, then run *)

\* The child exits before it serves.
Exit(d) == sv' = [sv EXCEPT ![d] = "free"] /\ Hangup(d)

Step(d, from, to) == sv[d] = from /\ sv' = [sv EXCEPT ![d] = to]

WarmUp(d) ==
  /\ \/ Step(d, "warming", "preparing") /\ UNCHANGED <<conn, queue>>
     \/ sv[d] = "warming" /\ Exit(d)        \* cannot start the engine
  /\ UNCHANGED <<claimVars, pc, result, child, path, ver, peer, frame>>

\* prepare_socket_path: stat, then probe, then remove_file, then bind.
StatPath(d) ==
  /\ Step(d, "preparing", IF path = "absent" THEN "binding" ELSE "probing")
  /\ UNCHANGED <<claimVars, cmdVars, path, queue, ver, peer, frame>>

ProbePath(d) ==
  /\ IF Live THEN sv[d] = "probing" /\ Exit(d)          \* AlreadyRunning
             ELSE Step(d, "probing", "removing") /\ UNCHANGED <<conn, queue>>
  /\ UNCHANGED <<claimVars, pc, result, child, path, ver, peer, frame>>

RemovePath(d) ==
  /\ IF path = "absent"
     THEN sv[d] = "removing" /\ Exit(d) /\ UNCHANGED path   \* Io(NotFound)
     ELSE Step(d, "removing", "binding") /\ path' = "absent" /\ UNCHANGED <<conn, queue>>
  /\ UNCHANGED <<claimVars, pc, result, child, ver, peer, frame>>

BindPath(d) ==
  /\ IF path = "absent"
     THEN Step(d, "binding", "bound") /\ path' = d /\ UNCHANGED <<conn, queue>>
     ELSE sv[d] = "binding" /\ Exit(d) /\ UNCHANGED path    \* Bind(AddrInUse)
  /\ UNCHANGED <<claimVars, pc, result, child, ver, peer, frame>>

Listen(d) ==
  /\ Step(d, "bound", "listening")
  /\ UNCHANGED <<claimVars, cmdVars, path, queue, ver, peer, frame>>

\* set_mode fails when the path has been removed under the child.
SetMode(d) ==
  /\ IF path = "absent" THEN sv[d] = "listening" /\ Exit(d)
                        ELSE Step(d, "listening", "serving") /\ UNCHANGED <<conn, queue>>
  /\ UNCHANGED <<claimVars, pc, result, child, path, ver, peer, frame>>

\* Mutant: accept does not block, and takes a connection that is not there.
AcceptEmpty(d) ==
  /\ sv[d] = "serving" /\ peer[d] = None
  /\ \E c \in Client \cup {"lost"} :
       /\ queue[d] # <<>> => c = Head(queue[d])
       /\ queue[d] = <<>> => c = "lost"
       /\ peer' = [peer EXCEPT ![d] = c]
  /\ queue' = [queue EXCEPT ![d] = IF @ = <<>> THEN @ ELSE Tail(@)]
  /\ UNCHANGED <<claimVars, cmdVars, path, sv, ver, frame>>

\* serve_loop accepts the oldest queued connection and serve_connection writes
\* the hello.
Accept(d) ==
  /\ sv[d] = "serving" /\ peer[d] = None /\ queue[d] # <<>>
  /\ peer' = [peer EXCEPT ![d] = Head(queue[d])]
  /\ queue' = [queue EXCEPT ![d] = Tail(@)]
  /\ UNCHANGED <<claimVars, cmdVars, path, sv, ver, frame>>

ReadFrame(d) ==
  /\ sv[d] = "serving" /\ frame[d] # "none"
  /\ sv' = [sv EXCEPT ![d] = IF frame[d] = "stop" THEN "stopping" ELSE "serving"]
  /\ peer' = [peer EXCEPT ![d] = None]
  /\ frame' = [frame EXCEPT ![d] = "none"]
  /\ UNCHANGED <<claimVars, cmdVars, path, queue, ver>>

\* The idle window elapses with nothing queued.
IdleOut(d) ==
  /\ peer[d] = None /\ queue[d] = <<>>
  /\ Step(d, "serving", "stopping")
  /\ UNCHANGED <<claimVars, cmdVars, path, queue, ver, peer, frame>>

\* accept fails, or a routed request (its client is not modelled) faulted.
FaultOut(d) ==
  /\ peer[d] = None
  /\ Step(d, "serving", "stopping")
  /\ UNCHANGED <<claimVars, cmdVars, path, queue, ver, peer, frame>>

\* engine.shutdown returns; the SocketGuard, declared last, drops first and
\* removes whatever the path names.
DropGuard(d) ==
  /\ Step(d, "stopping", "unguarded")
  /\ path' = "absent"
  /\ UNCHANGED <<claimVars, cmdVars, queue, ver, peer, frame>>

DropListener(d) ==
  /\ sv[d] = "unguarded" /\ Exit(d)
  /\ UNCHANGED <<claimVars, pc, result, child, path, ver, peer, frame>>

DaemonCrashes(d) ==
  /\ DaemonsMayCrash
  /\ sv[d] # "free" /\ Exit(d)
  /\ path' = IF path = d THEN "stale" ELSE path
  /\ peer' = [peer EXCEPT ![d] = None]
  /\ frame' = [frame EXCEPT ![d] = "none"]
  /\ UNCHANGED <<claimVars, pc, result, child, ver>>
-----------------------------------------------------------------------------
StarterStep(s) ==
  \/ Connect(s) \/ ReadHello(s) \/ HelloLost(s) \/ Drained(s) \/ Contend(s)
  \/ OpenTheClaim(s) \/ LockTheClaim(s) \/ ClaimTaken(s) \/ ClaimFails(s)
  \/ ConfirmTheClaim(s) \/ Look(s) \/ SpawnDetached(s) \/ SpawnFails(s)
  \/ Await(s) \/ ReleaseUnlink(s) \/ ReleaseClose(s)

StopperStep(c) == Connect(c) \/ ReadHello(c) \/ HelloLost(c) \/ Drained(c)

ServerStep(d) ==
  \/ WarmUp(d) \/ StatPath(d) \/ ProbePath(d) \/ RemovePath(d) \/ BindPath(d)
  \/ Listen(d) \/ SetMode(d) \/ Accept(d) \/ ReadFrame(d)
  \/ DropGuard(d) \/ DropListener(d)

LifecycleNext ==
  \/ \E s \in Starter : BeginStart(s) \/ StarterStep(s) \/ StarterDies(s)
  \/ \E c \in Stopper : BeginStop(c) \/ StopperStep(c)
  \/ \E d \in Server : ServerStep(d) \/ IdleOut(d) \/ FaultOut(d) \/ DaemonCrashes(d)

\* Every process that has begun keeps running; nothing forces a command to
\* begin, a daemon to idle out, or anything to die.
LifecycleFairness ==
  /\ \A s \in Starter : WF_vars(StarterStep(s))
  /\ \A c \in Stopper : WF_vars(StopperStep(c))
  /\ \A d \in Server : WF_vars(ServerStep(d))

LifecycleSpec == LifecycleInit /\ [][LifecycleNext]_vars /\ LifecycleFairness
-----------------------------------------------------------------------------
\* A serve child that has, or may still get, an engine of its own to serve.
Working(d) == sv[d] \notin {"free", "unguarded"}

\* "Concurrent first uses settle on exactly one daemon": no two serve children
\* are at work for one root, whatever starts, stops and daemon crashes overlap.
SettlesOnOneDaemon ==
  \A d, e \in Server : Working(d) /\ Working(e) => d = e

\* "There is no losing child to orphan and no second bind to lose": a child
\* that has bound the socket is the one the socket path leads to.
NoOrphan ==
  \A d \in Server :
    sv[d] \in {"bound", "listening", "serving", "stopping"} => path = d

\* "Exactly one of them owns the attempt": no two starts are ever between being
\* granted the claim and releasing it, whichever of them die or run out of time.
Attempting(s) == pc[s] \in {"looking", "spawning", "awaiting"}
OneAttempt == \A s, t \in Starter : Attempting(s) /\ Attempting(t) => s = t

\* The strengthening behind OneAttempt: an attempt runs under a held claim.
AttemptHoldsClaim == \A s \in Starter : Attempting(s) => claim[s] = "held"

\* "The daemon that is stopped is exactly the one whose version was read": a
\* start never takes a daemon of its own protocol version down, also not one
\* another start spawned after the version was read.
StartStopsOnlyMismatched ==
  [][\A d \in Server :
       ReadFrame(d) /\ sv'[d] = "stopping" /\ peer[d] \in Starter
         => ver[d] = "old"]_vars

\* The lock on the claim is always some running start's, so that a start that
\* is told to wait is waiting for somebody.
LockOwnersRun ==
  \A i \in Inode : locker[i] # None =>
    pc[locker[i]] \in {"taking", "looking", "spawning", "awaiting", "releasing"}

\* What LockOwnersRun rests on: a start has the claim file open only between
\* taking and releasing the claim.
ClaimWhileRunning ==
  \A s \in Starter : claim[s] # "none" =>
    pc[s] \in {"taking", "looking", "spawning", "awaiting", "releasing"}

\* What StartStopsOnlyMismatched rests on: only a serving child has a client, only
\* a client has a frame on the wire, and a start's stop frame is for an old build.
StopsAreForOld ==
  \A d \in Server :
    /\ sv[d] # "serving" => peer[d] = None
    /\ peer[d] = None => frame[d] = "none"
    /\ frame[d] = "stop" /\ peer[d] \in Starter => ver[d] = "old"

\* Starts that live to release their claim: one that is killed while its child
\* warms frees the claim, and leaves the child to race the next start's.
Patient == ~StartersMayDie

\* What makes SettlesOnOneDaemon and NoOrphan inductive for patient starts: the
\* path never leads to a child that is gone, a child not yet listening is one a
\* start still waits for under its claim, and a start about to spawn is alone.
PathLeadsToBound ==
  path \in Server => sv[path] \in {"bound", "listening", "serving", "stopping"}
EarlyChildAwaited ==
  \A d \in Server : Early(d) => \E s \in Starter : pc[s] = "awaiting" /\ child[s] = d
SpawnsAlone ==
  \A s \in Starter : pc[s] = "spawning" => \A d \in Server : ~Working(d)
SettledIInv ==
  /\ SettlesOnOneDaemon /\ NoOrphan
  /\ PathLeadsToBound /\ EarlyChildAwaited /\ SpawnsAlone

\* Every command that begins comes to an end: no start waits for a claim whose
\* holder is gone, and neither command waits for a hello that cannot come.
CommandsEnd ==
  \A c \in Client : pc[c] # "idle" ~> pc[c] \in {"done", "dead"}
=============================================================================
