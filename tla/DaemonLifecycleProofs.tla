------------------------ MODULE DaemonLifecycleProofs ------------------------
(***************************************************************************)
(* Proofs about the start claim, for any number of starts and any supply   *)
(* of inode numbers, then about the daemon lifecycle, for any number of    *)
(* starts, stops and serve children.  With every fault on: it keeps the    *)
(* claim's guarantees, and a start only takes a daemon of another version  *)
(* down.                                                                   *)
(* For patient starts, whatever daemons crash: one daemon, never orphaned. *)
(***************************************************************************)
EXTENDS DaemonLifecycle, TLAPS

-----------------------------------------------------------------------------
(* The start claim *)

\* What closing a descriptor leaves behind, whichever step closes it: the
\* invariant survives when the path keeps its name.
LEMMA CloseKeepsInv ==
  ASSUME ClaimIInv, NEW s \in Starter, Close(s), UNCHANGED linked
  PROVE  ClaimIInv'
<1> USE NoneAssumption
<1>1. ClaimTypeOK'
  BY DEF ClaimIInv, ClaimTypeOK, ClaimStage, Close
<1>2. OpenWhileTrying'
  BY DEF ClaimIInv, ClaimTypeOK, OpenWhileTrying, Close
<1>3. LockedStages'
  BY DEF ClaimIInv, ClaimTypeOK, OpenWhileTrying, LockedStages, Close
<1>4. LocksAreOpen'
  BY DEF ClaimIInv, ClaimTypeOK, LocksAreOpen, Close
<1>5. HolderIsLinked'
  BY DEF ClaimIInv, ClaimTypeOK, HolderIsLinked, Close
<1> QED
  BY <1>1, <1>2, <1>3, <1>4, <1>5 DEF ClaimIInv

\* The initial states, with or without a file a crashed start left behind,
\* satisfy the invariant.
LEMMA ClaimInitInv == ClaimInit => ClaimIInv
  BY NoneAssumption DEF ClaimInit, ClaimIInv, ClaimTypeOK, ClaimStage,
     OpenWhileTrying, LockedStages, LocksAreOpen, HolderIsLinked

\* Every step of take_claim, of the drop and of a death keeps the invariant.
LEMMA ClaimStepInv == ClaimIInv /\ [ClaimNext]_claimVars => ClaimIInv'
<1> SUFFICES ASSUME ClaimIInv, [ClaimNext]_claimVars PROVE ClaimIInv'
  OBVIOUS
<1> USE NoneAssumption
<1>1. ASSUME NEW s \in Starter, OpenClaim(s) PROVE ClaimIInv'
  <2>1. PICK i \in Inode : /\ i = linked \/ (linked = None /\ FreeInode(i))
                           /\ linked' = i
                           /\ fd' = [fd EXCEPT ![s] = i]
    BY <1>1 DEF OpenClaim
  <2>2. claim[s] = "none" /\ claim' = [claim EXCEPT ![s] = "opened"] /\ locker' = locker
    BY <1>1 DEF OpenClaim
  <2>3. fd[s] = None
    BY <2>2 DEF ClaimIInv, OpenWhileTrying
  <2>4. ClaimTypeOK'
    BY <2>1, <2>2 DEF ClaimIInv, ClaimTypeOK, ClaimStage
  <2>5. OpenWhileTrying'
    BY <2>1, <2>2 DEF ClaimIInv, ClaimTypeOK, OpenWhileTrying
  <2>6. LockedStages'
    BY <2>1, <2>2 DEF ClaimIInv, ClaimTypeOK, LockedStages
  <2>7. LocksAreOpen'
    BY <2>1, <2>2, <2>3 DEF ClaimIInv, ClaimTypeOK, LocksAreOpen
  <2>8. HolderIsLinked'
    \* A fresh inode is only created when the path names nothing, so no holder exists.
    BY <2>1, <2>2 DEF ClaimIInv, ClaimTypeOK, HolderIsLinked, OpenWhileTrying
  <2> QED
    BY <2>4, <2>5, <2>6, <2>7, <2>8 DEF ClaimIInv
<1>2. ASSUME NEW s \in Starter, LockClaim(s) PROVE ClaimIInv'
  <2>1. fd[s] \in Inode
    BY <1>2 DEF LockClaim, ClaimIInv, ClaimTypeOK, OpenWhileTrying
  <2>2. ClaimTypeOK'
    BY <1>2, <2>1 DEF LockClaim, ClaimIInv, ClaimTypeOK, ClaimStage
  <2>3. OpenWhileTrying'
    BY <1>2 DEF LockClaim, ClaimIInv, ClaimTypeOK, OpenWhileTrying
  <2>4. LockedStages'
    BY <1>2, <2>1 DEF LockClaim, ClaimIInv, ClaimTypeOK, LockedStages
  <2>5. LocksAreOpen'
    BY <1>2, <2>1 DEF LockClaim, ClaimIInv, ClaimTypeOK, LocksAreOpen
  <2>6. HolderIsLinked'
    BY <1>2 DEF LockClaim, ClaimIInv, ClaimTypeOK, HolderIsLinked
  <2> QED
    BY <2>2, <2>3, <2>4, <2>5, <2>6 DEF ClaimIInv
<1>3. ASSUME NEW s \in Starter,
             \/ LockHeld(s) \/ LockRefused(s) \/ AbandonClaim(s)
             \/ CloseClaim(s) \/ KillClaimant(s)
      PROVE  ClaimIInv'
  <2>1. Close(s) /\ UNCHANGED linked
    BY <1>3 DEF LockHeld, LockRefused, AbandonClaim, CloseClaim, KillClaimant
  <2> QED
    BY <2>1, CloseKeepsInv
<1>4. ASSUME NEW s \in Starter, ConfirmClaim(s) PROVE ClaimIInv'
  BY <1>4 DEF ConfirmClaim, ClaimIInv, ClaimTypeOK, ClaimStage,
     OpenWhileTrying, LockedStages, LocksAreOpen, HolderIsLinked
<1>5. ASSUME NEW s \in Starter, UnlinkClaim(s) PROVE ClaimIInv'
  <2>1. ASSUME NEW t \in Starter, t # s PROVE claim[t] # "held"
    \* Another holder would have the same inode open and its lock as well.
    BY <1>5, <2>1 DEF UnlinkClaim, ClaimIInv, ClaimTypeOK, LockedStages, HolderIsLinked
  <2>2. HolderIsLinked'
    BY <1>5, <2>1 DEF UnlinkClaim, ClaimIInv, ClaimTypeOK, HolderIsLinked
  <2>3. ClaimTypeOK' /\ OpenWhileTrying' /\ LockedStages' /\ LocksAreOpen'
    BY <1>5 DEF UnlinkClaim, ClaimIInv, ClaimTypeOK, ClaimStage,
       OpenWhileTrying, LockedStages, LocksAreOpen
  <2> QED
    BY <2>2, <2>3 DEF ClaimIInv
<1>6. CASE UNCHANGED claimVars
  BY <1>6 DEF claimVars, ClaimIInv, ClaimTypeOK, OpenWhileTrying,
     LockedStages, LocksAreOpen, HolderIsLinked
<1> QED
  BY <1>1, <1>2, <1>3, <1>4, <1>5, <1>6 DEF ClaimNext

\* The invariant holds throughout every behaviour of the claim protocol.
THEOREM ClaimInvariant == ClaimSpec => []ClaimIInv
  BY ClaimInitInv, ClaimStepInv, PTL DEF ClaimSpec

\* Two holders would own the lock of the one inode the path names.
LEMMA InvExclusive == ClaimIInv => ClaimExclusive
  BY DEF ClaimIInv, ClaimTypeOK, ClaimExclusive, LockedStages, HolderIsLinked

\* KT-71's promise: one flock decides, so two starts never both own the attempt.
THEOREM ClaimIsExclusive == ClaimSpec => []ClaimExclusive
  BY ClaimInvariant, InvExclusive, PTL

\* A release removes the claim file it locked and never its successor's.
THEOREM ReleaseIsOwn == ClaimSpec => ReleaseRemovesOwnClaim
<1>1. ClaimIInv => (\A s \in Starter : UnlinkClaim(s) => linked = fd[s])
  BY DEF ClaimIInv, HolderIsLinked, UnlinkClaim
<1>2. ClaimIInv => [\A s \in Starter : UnlinkClaim(s) => linked = fd[s]]_claimVars
  BY <1>1
<1> QED
  BY <1>2, ClaimInvariant, PTL DEF ReleaseRemovesOwnClaim

\* With at most one holder, the owner the refinement mapping chooses is it.
LEMMA OwnerIsHolder ==
  ASSUME ClaimExclusive, NEW s \in Starter, claim[s] = "held"
  PROVE  ClaimOwner = s
  BY DEF ClaimOwner, ClaimExclusive

\* The same mapping after a step.
LEMMA OwnerIsHolderNext ==
  ASSUME ClaimExclusive', NEW s \in Starter, claim'[s] = "held"
  PROVE  ClaimOwner' = s
  BY DEF ClaimOwner, ClaimExclusive

\* The file protocol implements the lease: opening, locking and abandoning are
\* stutters, the link check is the grant, and the unlink or a death ends it.
THEOREM ClaimImplementsLease == ClaimSpec => ImplementsLease
<1>1. ClaimInit => Lease!LeaseInit
  BY DEF ClaimInit, Lease!LeaseInit, ClaimOwner
<1>2. ClaimIInv /\ ClaimIInv' /\ [ClaimNext]_claimVars => [Lease!LeaseNext]_ClaimOwner
  <2> SUFFICES ASSUME ClaimIInv, ClaimIInv', [ClaimNext]_claimVars
               PROVE  Lease!LeaseNext \/ UNCHANGED ClaimOwner
    OBVIOUS
  <2>1. ClaimExclusive /\ ClaimExclusive'
    BY InvExclusive DEF ClaimIInv, ClaimTypeOK, ClaimExclusive, LockedStages, HolderIsLinked
  <2>2. CASE \A s \in Starter : (claim'[s] = "held") <=> (claim[s] = "held")
    <3>1. CASE \E s \in Starter : claim[s] = "held"
      BY <2>1, <2>2, <3>1, OwnerIsHolder, OwnerIsHolderNext
    <3>2. CASE ~ \E s \in Starter : claim[s] = "held"
      BY <2>2, <3>2 DEF ClaimOwner
    <3> QED
      BY <3>1, <3>2
  <2>3. ASSUME NEW s \in Starter, claim[s] # "held", claim'[s] = "held"
        PROVE  Lease!LeaseNext
    <3>1. ConfirmClaim(s)
      BY <2>3 DEF ClaimNext, claimVars, ClaimIInv, ClaimTypeOK, OpenClaim, LockClaim,
         LockHeld, LockRefused, ConfirmClaim, AbandonClaim, UnlinkClaim, CloseClaim,
         KillClaimant, Close
    <3>2. ASSUME NEW t \in Starter, claim[t] = "held" PROVE FALSE
      BY <2>1, <2>3, <3>1, <3>2 DEF ConfirmClaim, ClaimIInv, ClaimTypeOK, ClaimExclusive
    <3>3. ClaimOwner = None
      BY <3>2 DEF ClaimOwner
    <3>4. ClaimOwner' = s
      BY <2>1, <2>3, OwnerIsHolderNext
    <3> QED
      BY <3>3, <3>4 DEF Lease!LeaseNext, Lease!Grant
  <2>4. ASSUME NEW s \in Starter, claim[s] = "held", claim'[s] # "held"
        PROVE  Lease!LeaseNext
    <3>1. UnlinkClaim(s) \/ KillClaimant(s)
      BY <2>4 DEF ClaimNext, claimVars, ClaimIInv, ClaimTypeOK, OpenClaim, LockClaim,
         LockHeld, LockRefused, ConfirmClaim, AbandonClaim, UnlinkClaim, CloseClaim,
         KillClaimant, Close
    <3>2. ASSUME NEW t \in Starter PROVE claim'[t] # "held"
      BY <2>1, <2>4, <3>1 DEF UnlinkClaim, KillClaimant, Close, ClaimIInv, ClaimTypeOK,
         ClaimExclusive
    <3>3. ClaimOwner' = None
      BY <3>2 DEF ClaimOwner
    <3>4. ClaimOwner = s
      BY <2>1, <2>4, OwnerIsHolder
    <3> QED
      BY <3>3, <3>4 DEF Lease!LeaseNext, Lease!Relinquish
  <2> QED
    BY <2>2, <2>3, <2>4
<1> QED
  BY <1>1, <1>2, ClaimInvariant, PTL DEF ClaimSpec, ImplementsLease, Lease!LeaseSpec
-----------------------------------------------------------------------------
(* The lifecycle and the claim *)

\* Every step of the lifecycle is a step of the claim protocol, or none of the
\* claim's business.
LEMMA LifecycleStepsClaim == [LifecycleNext]_vars => [ClaimNext]_claimVars
<1> SUFFICES ASSUME [LifecycleNext]_vars PROVE [ClaimNext]_claimVars
  OBVIOUS
<1>1. ASSUME NEW s \in Starter, BeginStart(s) \/ StarterStep(s) \/ StarterDies(s)
      PROVE  [ClaimNext]_claimVars
  BY <1>1 DEF StarterStep, BeginStart, StarterDies, Connect, ReadHello, HelloLost, Drained,
     Contend, OpenTheClaim, LockTheClaim, ClaimTaken, ClaimFails, ConfirmTheClaim, Look,
     SpawnDetached, SpawnFails, Await, ReleaseUnlink, ReleaseClose, ClaimNext
<1>2. ASSUME NEW c \in Stopper, BeginStop(c) \/ StopperStep(c)
      PROVE  UNCHANGED claimVars
  BY <1>2 DEF StopperStep, BeginStop, Connect, ReadHello, HelloLost, Drained
<1>3. ASSUME NEW d \in Server,
             ServerStep(d) \/ IdleOut(d) \/ FaultOut(d) \/ DaemonCrashes(d)
      PROVE  UNCHANGED claimVars
  BY <1>3 DEF ServerStep, IdleOut, FaultOut, DaemonCrashes, WarmUp, StatPath, ProbePath,
     RemovePath, BindPath, Listen, SetMode, Accept, ReadFrame, DropGuard, DropListener
<1>4. CASE UNCHANGED vars
  BY <1>4 DEF vars
<1> QED
  BY <1>1, <1>2, <1>3, <1>4 DEF LifecycleNext

\* The lifecycle implements the claim protocol.
THEOREM LifecycleImplementsClaim == LifecycleSpec => ClaimSpec
<1>1. LifecycleInit => ClaimInit
  BY DEF LifecycleInit
<1> QED
  BY <1>1, LifecycleStepsClaim, PTL DEF LifecycleSpec, ClaimSpec

\* The claim's inductive invariant holds throughout the lifecycle.
LEMMA LifecycleClaimInv == LifecycleSpec => [](ClaimIInv /\ ClaimTypeOK)
<1>1. ClaimIInv => ClaimTypeOK
  BY DEF ClaimIInv
<1> QED
  BY <1>1, LifecycleImplementsClaim, ClaimInvariant, PTL
-----------------------------------------------------------------------------
(* Types *)

\* Taking a client out of a queue leaves a queue of clients.
LEMMA WithoutType ==
  ASSUME NEW S, NEW q \in Seq(S), NEW c PROVE Without(q, c) \in Seq(S)
<1>1. CASE \E i \in 1 .. Len(q) : q[i] = c
  <2> DEFINE i == CHOOSE j \in 1 .. Len(q) : q[j] = c
  <2>1. i \in 1 .. Len(q)
    BY <1>1
  <2>2. Without(q, c) = SubSeq(q, 1, i - 1) \o SubSeq(q, i + 1, Len(q))
    BY <1>1 DEF Without
  <2> HIDE DEF i
  <2>3. SubSeq(q, 1, i - 1) \in Seq(S) /\ SubSeq(q, i + 1, Len(q)) \in Seq(S)
    BY <2>1
  <2> QED
    BY <2>2, <2>3
<1>2. CASE ~ \E i \in 1 .. Len(q) : q[i] = c
  BY <1>2 DEF Without
<1> QED
  BY <1>1, <1>2

\* The initial states are well typed.
LEMMA LifecycleInitType == LifecycleInit /\ ClaimTypeOK => LifecycleTypeOK
BY DEF LifecycleInit, LifecycleTypeOK, StarterPC, StopperPC, ServerPC, Success, Client

\* The types, by owner: the commands' own variables, the connections, the children.
CmdTypeOK ==
  /\ pc \in [Client -> StarterPC] /\ \A c \in Stopper : pc[c] \in StopperPC
  /\ result \in [Client -> Success \cup {"pending", "failed", "stopped", "not running"}]
ConnTypeOK ==
  conn \in [Client -> Server \cup {None, "lost"}] /\ queue \in [Server -> Seq(Client)]
ChildTypeOK ==
  /\ child \in [Starter -> Server \cup {None}] /\ path \in Server \cup {"absent", "stale"}
  /\ sv \in [Server -> ServerPC] /\ ver \in [Server -> {"old", "current"}]
  /\ peer \in [Server -> Client \cup {None}] /\ frame \in [Server -> {"none", "stop", "eof"}]

\* LifecycleTypeOK is those and the claim's.
LEMMA TypesByOwner ==
  LifecycleTypeOK <=> ClaimTypeOK /\ CmdTypeOK /\ ConnTypeOK /\ ChildTypeOK
BY DEF LifecycleTypeOK, CmdTypeOK, ConnTypeOK, ChildTypeOK

\* A command that moves on, reporting something or not, keeps its types.
LEMMA MoveType ==
  ASSUME CmdTypeOK, NEW c \in Client, NEW l \in StarterPC, c \in Stopper => l \in StopperPC,
         pc' = [pc EXCEPT ![c] = l],
         \/ UNCHANGED result
         \/ \E r \in {"already", "started", "failed", "stopped", "not running"} :
              result' = [result EXCEPT ![c] = r]
  PROVE  CmdTypeOK'
<1>1. pc' \in [Client -> StarterPC] /\ \A x \in Stopper : pc'[x] \in StopperPC
  BY DEF CmdTypeOK, Client
<1>2. result' \in [Client -> Success \cup {"pending", "failed", "stopped", "not running"}]
  BY DEF CmdTypeOK, Success
<1> QED
  BY <1>1, <1>2 DEF CmdTypeOK

\* So does one that ends with a report.
LEMMA ReportType ==
  ASSUME CmdTypeOK, NEW c \in Client,
         NEW r \in {"already", "started", "failed", "stopped", "not running"}, Report(c, r)
  PROVE  CmdTypeOK'
BY MoveType DEF Report, StarterPC, StopperPC

\* A start that moves on.
LEMMA StartMoveType ==
  ASSUME CmdTypeOK, NEW s \in Starter, NEW l \in StarterPC, Goto(s, l)
  PROVE  CmdTypeOK'
BY MoveType, LifecycleAssumption DEF Goto, Client

\* A serve child that moves on.
LEMMA ServeMoveType ==
  ASSUME ChildTypeOK, NEW d \in Server, NEW l \in ServerPC, sv' = [sv EXCEPT ![d] = l],
         path' \in Server \cup {"absent", "stale"}, UNCHANGED <<child, ver, peer, frame>>
  PROVE  ChildTypeOK'
BY DEF ChildTypeOK

\* A serve child that exits, its connections with it.
LEMMA ExitType ==
  ASSUME ConnTypeOK, NEW d \in Server, Exit(d)
  PROVE  ConnTypeOK' /\ sv' = [sv EXCEPT ![d] = "free"]
<1>1. <<>> \in Seq(Client)
  OBVIOUS
<1> QED
  BY <1>1 DEF ConnTypeOK, Exit, Hangup

\* Every step of a command keeps the types.
LEMMA CommandStepType ==
  ASSUME CmdTypeOK, ConnTypeOK, ChildTypeOK, NEW c \in Client,
         \/ Connect(c) \/ ReadHello(c) \/ HelloLost(c) \/ Drained(c)
         \/ c \in Stopper /\ BeginStop(c)
  PROVE  CmdTypeOK' /\ ConnTypeOK' /\ ChildTypeOK'
<1>1. ASSUME NEW l \in {"connecting", "hello", "draining"}, Goto(c, l) PROVE CmdTypeOK'
  BY <1>1, MoveType DEF Goto, StarterPC, StopperPC
<1>2. ASSUME Unreachable(c) PROVE CmdTypeOK'
  BY <1>2, ReportType DEF Unreachable
<1>3. ASSUME UNCHANGED <<conn, queue>> PROVE ConnTypeOK'
  BY <1>3 DEF ConnTypeOK
<1>4. ASSUME conn' = [conn EXCEPT ![c] = None], UNCHANGED queue PROVE ConnTypeOK'
  BY <1>4 DEF ConnTypeOK
<1>5. ASSUME UNCHANGED <<child, path, svVars>> PROVE ChildTypeOK'
  BY <1>5 DEF ChildTypeOK, svVars
<1>6. CASE Connect(c)
  <2>1. CASE Live
    <3>1. path \in Server /\ conn' = [conn EXCEPT ![c] = path]
          /\ queue' = [queue EXCEPT ![path] = Append(@, c)]
      BY <1>6, <2>1 DEF Connect, Live
    <3>2. ConnTypeOK'
      BY <3>1 DEF ConnTypeOK
    <3> QED
      BY <1>1, <1>5, <1>6, <2>1, <3>2 DEF Connect
  <2>2. CASE ~Live
    BY <1>2, <1>3, <1>5, <1>6, <2>2 DEF Connect
  <2> QED
    BY <2>1, <2>2
<1>7. CASE ReadHello(c)
  <2>1. PICK d \in Server :
          IF c \in Starter /\ ver[d] = "current"
          THEN Report(c, "already") /\ frame' = [frame EXCEPT ![d] = "eof"]
          ELSE Goto(c, "draining") /\ frame' = [frame EXCEPT ![d] = "stop"]
    BY <1>7 DEF ReadHello
  <2>2. ChildTypeOK'
    BY <1>7, <2>1 DEF ReadHello, ChildTypeOK
  <2> QED
    BY <1>1, <1>4, <1>7, <2>1, <2>2, ReportType DEF ReadHello
<1>8. CASE HelloLost(c)
  BY <1>2, <1>4, <1>5, <1>8 DEF HelloLost
<1>9. CASE Drained(c)
  <2>1. CmdTypeOK'
    BY <1>9, ReportType, StartMoveType DEF Drained, StarterPC
  <2> QED
    BY <1>3, <1>5, <1>9, <2>1 DEF Drained
<1>10. CASE c \in Stopper /\ BeginStop(c)
  BY <1>1, <1>3, <1>5, <1>10, ReportType DEF BeginStop
<1> QED
  BY <1>6, <1>7, <1>8, <1>9, <1>10

\* Every step of a start of its own, its death included.
LEMMA StartStepType ==
  ASSUME CmdTypeOK, ConnTypeOK, ChildTypeOK, NEW s \in Starter,
         \/ BeginStart(s) \/ Contend(s) \/ OpenTheClaim(s) \/ LockTheClaim(s)
         \/ ClaimTaken(s) \/ ClaimFails(s) \/ ConfirmTheClaim(s) \/ Look(s)
         \/ SpawnDetached(s) \/ SpawnFails(s) \/ Await(s) \/ ReleaseUnlink(s)
         \/ ReleaseClose(s) \/ StarterDies(s)
  PROVE  CmdTypeOK' /\ ConnTypeOK' /\ ChildTypeOK'
<1>0. s \in Client /\ s \notin Stopper
  BY LifecycleAssumption DEF Client
<1>1. ASSUME UNCHANGED <<conn, queue>> PROVE ConnTypeOK'
  BY <1>1 DEF ConnTypeOK
<1>2. ASSUME UNCHANGED <<child, path, svVars>> PROVE ChildTypeOK'
  BY <1>2 DEF ChildTypeOK, svVars
<1>3. ASSUME UNCHANGED <<pc, result>> PROVE CmdTypeOK'
  BY <1>3 DEF CmdTypeOK
<1>4. CASE BeginStart(s) \/ Contend(s)
  <2>1. CmdTypeOK'
    BY <1>0, <1>4, StartMoveType, ReportType DEF BeginStart, Contend, StarterPC
  <2> QED
    BY <1>1, <1>2, <1>4, <2>1 DEF BeginStart, Contend
<1>5. CASE OpenTheClaim(s) \/ LockTheClaim(s) \/ ReleaseUnlink(s)
  BY <1>1, <1>2, <1>3, <1>5 DEF OpenTheClaim, LockTheClaim, ReleaseUnlink, cmdVars
<1>6. CASE ClaimTaken(s) \/ ClaimFails(s) \/ ConfirmTheClaim(s)
  <2>1. CmdTypeOK'
    BY <1>0, <1>6, StartMoveType, ReportType
       DEF ClaimTaken, ClaimFails, ConfirmTheClaim, StarterPC
  <2> QED
    BY <1>1, <1>2, <1>6, <2>1 DEF ClaimTaken, ClaimFails, ConfirmTheClaim
<1>7. CASE Look(s) \/ SpawnFails(s) \/ Await(s) \/ ReleaseClose(s)
  <2>1. \E l \in StarterPC : pc' = [pc EXCEPT ![s] = l]
    BY <1>7 DEF Look, SpawnFails, Await, ReleaseClose, Goto, StarterPC
  <2>2. \/ UNCHANGED result
        \/ \E r \in {"already", "started", "failed", "stopped", "not running"} :
             result' = [result EXCEPT ![s] = r]
    BY <1>7 DEF Look, SpawnFails, Await, ReleaseClose, Goto
  <2>3. CmdTypeOK'
    BY <1>0, <2>1, <2>2, MoveType
  <2> QED
    BY <1>1, <1>2, <1>7, <2>3 DEF Look, SpawnFails, Await, ReleaseClose
<1>8. CASE SpawnDetached(s)
  <2>1. CmdTypeOK'
    BY <1>8, StartMoveType DEF SpawnDetached, StarterPC
  <2>2. ChildTypeOK'
    BY <1>8 DEF SpawnDetached, ChildTypeOK, ServerPC
  <2> QED
    BY <1>1, <1>8, <2>1, <2>2 DEF SpawnDetached
<1>9. CASE StarterDies(s)
  <2>1. CmdTypeOK'
    BY <1>9, StartMoveType DEF StarterDies, StarterPC
  <2>2. queue' \in [Server -> Seq(Client)]
    BY <1>9, WithoutType DEF StarterDies, ConnTypeOK
  <2>3. ConnTypeOK'
    BY <1>0, <1>9, <2>2 DEF StarterDies, ConnTypeOK
  <2>4. ChildTypeOK'
    BY <1>9 DEF StarterDies, ChildTypeOK
  <2> QED
    BY <2>1, <2>3, <2>4
<1> QED
  BY <1>4, <1>5, <1>6, <1>7, <1>8, <1>9

\* Every step of a serve child, its crash included.
LEMMA ServeStepType ==
  ASSUME CmdTypeOK, ConnTypeOK, ChildTypeOK, NEW d \in Server,
         ServerStep(d) \/ IdleOut(d) \/ FaultOut(d) \/ DaemonCrashes(d)
  PROVE  CmdTypeOK' /\ ConnTypeOK' /\ ChildTypeOK'
<1>0. path \in Server \cup {"absent", "stale"}
  BY DEF ChildTypeOK
<1>1. UNCHANGED <<pc, result>> => CmdTypeOK'
  BY DEF CmdTypeOK
<1>2. UNCHANGED <<conn, queue>> => ConnTypeOK'
  BY DEF ConnTypeOK
<1>3. CASE WarmUp(d) \/ ProbePath(d) \/ SetMode(d) \/ DropListener(d)
  <2>1. ConnTypeOK' /\ \E l \in ServerPC : sv' = [sv EXCEPT ![d] = l]
    BY <1>2, <1>3, ExitType DEF WarmUp, ProbePath, SetMode, DropListener, Step, ServerPC
  <2>2. UNCHANGED <<pc, result, path, child, ver, peer, frame>>
    BY <1>3 DEF WarmUp, ProbePath, SetMode, DropListener
  <2> QED
    BY <1>0, <1>1, <2>1, <2>2, ServeMoveType
<1>4. CASE RemovePath(d) \/ BindPath(d)
  <2>1. ConnTypeOK' /\ \E l \in ServerPC : sv' = [sv EXCEPT ![d] = l]
    BY <1>2, <1>4, ExitType DEF RemovePath, BindPath, Step, ServerPC
  <2>2. UNCHANGED <<pc, result, child, ver, peer, frame>>
        /\ path' \in Server \cup {"absent", "stale"}
    BY <1>0, <1>4 DEF RemovePath, BindPath
  <2> QED
    BY <1>1, <2>1, <2>2, ServeMoveType
<1>5. CASE StatPath(d) \/ Listen(d) \/ IdleOut(d) \/ FaultOut(d) \/ DropGuard(d)
  <2>1. \E l \in ServerPC : sv' = [sv EXCEPT ![d] = l]
    BY <1>5 DEF StatPath, Listen, IdleOut, FaultOut, DropGuard, Step, ServerPC
  <2>2. UNCHANGED <<pc, result, conn, queue, child, ver, peer, frame>>
        /\ path' \in Server \cup {"absent", "stale"}
    BY <1>0, <1>5 DEF StatPath, Listen, IdleOut, FaultOut, DropGuard, cmdVars
  <2> QED
    BY <1>1, <1>2, <2>1, <2>2, ServeMoveType
<1>6. CASE Accept(d)
  <2>1. Head(queue[d]) \in Client /\ Tail(queue[d]) \in Seq(Client)
    BY <1>6 DEF Accept, ConnTypeOK
  <2>2. ConnTypeOK'
    BY <1>6, <2>1 DEF Accept, ConnTypeOK, cmdVars
  <2>3. ChildTypeOK'
    BY <1>6, <2>1 DEF Accept, ChildTypeOK, cmdVars
  <2> QED
    BY <1>1, <1>6, <2>2, <2>3 DEF Accept, cmdVars
<1>7. CASE ReadFrame(d)
  <2>1. ChildTypeOK'
    BY <1>7 DEF ReadFrame, ChildTypeOK, ServerPC, cmdVars
  <2> QED
    BY <1>1, <1>2, <1>7, <2>1 DEF ReadFrame, cmdVars
<1>8. CASE DaemonCrashes(d)
  <2>1. ConnTypeOK' /\ sv' = [sv EXCEPT ![d] = "free"]
    BY <1>8, ExitType DEF DaemonCrashes
  <2>2. ChildTypeOK'
    BY <1>8, <2>1 DEF DaemonCrashes, ChildTypeOK, ServerPC
  <2> QED
    BY <1>1, <1>8, <2>1, <2>2 DEF DaemonCrashes
<1> QED
  BY <1>3, <1>4, <1>5, <1>6, <1>7, <1>8 DEF ServerStep

\* Every step keeps the types; the claim's own are ClaimInvariant's.
LEMMA LifecycleStepType ==
  LifecycleTypeOK /\ ClaimTypeOK' /\ [LifecycleNext]_vars => LifecycleTypeOK'
<1> SUFFICES ASSUME LifecycleTypeOK, ClaimTypeOK', [LifecycleNext]_vars
             PROVE  CmdTypeOK' /\ ConnTypeOK' /\ ChildTypeOK'
  BY DEF LifecycleTypeOK, CmdTypeOK, ConnTypeOK, ChildTypeOK
<1>0. CmdTypeOK /\ ConnTypeOK /\ ChildTypeOK
  BY TypesByOwner
<1>1. ASSUME NEW s \in Starter, BeginStart(s) \/ StarterStep(s) \/ StarterDies(s)
      PROVE  CmdTypeOK' /\ ConnTypeOK' /\ ChildTypeOK'
  BY <1>0, <1>1, CommandStepType, StartStepType DEF StarterStep, Client
<1>2. ASSUME NEW c \in Stopper, BeginStop(c) \/ StopperStep(c)
      PROVE  CmdTypeOK' /\ ConnTypeOK' /\ ChildTypeOK'
  BY <1>0, <1>2, CommandStepType DEF StopperStep, Client
<1>3. CASE UNCHANGED vars
  BY <1>0, <1>3 DEF CmdTypeOK, ConnTypeOK, ChildTypeOK, vars, cmdVars, svVars
<1> QED
  BY <1>0, <1>1, <1>2, <1>3, ServeStepType DEF LifecycleNext

\* Every variable of starts, stops, daemons and the socket path keeps its type.
THEOREM LifecycleType == LifecycleSpec => []LifecycleTypeOK
<1>1. LifecycleSpec => LifecycleInit /\ [][LifecycleNext]_vars
  BY DEF LifecycleSpec
<1> QED
  BY <1>1, LifecycleClaimInv, LifecycleInitType, LifecycleStepType, PTL
-----------------------------------------------------------------------------
(* The claim *)

\* The claim follows the start's program counter.
ClaimPcInv == AttemptHoldsClaim /\ ClaimWhileRunning

\* No step moves a start into an attempt without the claim, or out of taking and
\* releasing it with the claim file still open.
LEMMA ClaimPcStep ==
  LifecycleTypeOK /\ ClaimPcInv /\ [LifecycleNext]_vars => ClaimPcInv'
<1> SUFFICES ASSUME LifecycleTypeOK, ClaimPcInv, [LifecycleNext]_vars
             PROVE  ClaimPcInv'
  OBVIOUS
<1>0. pc \in [Client -> StarterPC] /\ ClaimTypeOK
  BY DEF LifecycleTypeOK
<1> USE <1>0 DEF ClaimPcInv, AttemptHoldsClaim, Attempting, ClaimWhileRunning, Client,
                 ClaimTypeOK
<1>1. ASSUME NEW c \in Client,
             Connect(c) \/ ReadHello(c) \/ HelloLost(c) \/ Drained(c)
      PROVE  ClaimPcInv'
  BY <1>1 DEF Connect, ReadHello, HelloLost, Drained, Report, Goto, Unreachable, claimVars
<1>2. ASSUME NEW s \in Starter, BeginStart(s) \/ Contend(s)
      PROVE  ClaimPcInv'
  BY <1>2 DEF BeginStart, Contend, Report, Goto, claimVars
<1>3. ASSUME NEW s \in Starter, OpenTheClaim(s) \/ LockTheClaim(s)
      PROVE  ClaimPcInv'
  BY <1>3 DEF OpenTheClaim, LockTheClaim, OpenClaim, LockClaim, cmdVars
<1>4. ASSUME NEW s \in Starter, ClaimTaken(s) \/ ClaimFails(s)
      PROVE  ClaimPcInv'
  BY <1>4 DEF ClaimTaken, ClaimFails, LockHeld, AbandonClaim, LockRefused, Close, Report,
     Goto, claimVars
<1>5. ASSUME NEW s \in Starter, ConfirmTheClaim(s)
      PROVE  ClaimPcInv'
  BY <1>5 DEF ConfirmTheClaim, ConfirmClaim, Goto
<1>6. ASSUME NEW s \in Starter,
             Look(s) \/ SpawnDetached(s) \/ SpawnFails(s) \/ Await(s)
      PROVE  ClaimPcInv'
  BY <1>6 DEF Look, SpawnDetached, SpawnFails, Await, Goto, claimVars
<1>7. ASSUME NEW s \in Starter, ReleaseUnlink(s) \/ ReleaseClose(s) \/ StarterDies(s)
      PROVE  ClaimPcInv'
  BY <1>7 DEF ReleaseUnlink, ReleaseClose, StarterDies, UnlinkClaim, CloseClaim,
     KillClaimant, Close, Goto, cmdVars, claimVars
<1>8. ASSUME NEW c \in Stopper, BeginStop(c)
      PROVE  ClaimPcInv'
  BY <1>8, LifecycleAssumption DEF BeginStop, Goto, Report, claimVars
<1>9. ASSUME NEW d \in Server,
             ServerStep(d) \/ IdleOut(d) \/ FaultOut(d) \/ DaemonCrashes(d)
      PROVE  ClaimPcInv'
  BY <1>9 DEF ServerStep, IdleOut, FaultOut, DaemonCrashes, WarmUp, StatPath, ProbePath,
     RemovePath, BindPath, Listen, SetMode, Accept, ReadFrame, DropGuard, DropListener,
     cmdVars, claimVars
<1>10. CASE UNCHANGED vars
  BY <1>10 DEF vars, cmdVars, claimVars
<1> QED
  BY <1>1, <1>2, <1>3, <1>4, <1>5, <1>6, <1>7, <1>8, <1>9, <1>10
     DEF LifecycleNext, StarterStep, StopperStep

\* The initial states have no claim open and no attempt under way.
LEMMA ClaimPcInit == LifecycleInit => ClaimPcInv
BY DEF LifecycleInit, ClaimInit, ClaimPcInv, AttemptHoldsClaim, Attempting,
       ClaimWhileRunning, Client

\* Claim and program counters agree throughout.
LEMMA ClaimPcInvariant == LifecycleSpec => []ClaimPcInv
<1>1. LifecycleSpec => LifecycleInit /\ [][LifecycleNext]_vars
  BY DEF LifecycleSpec
<1> QED
  BY <1>1, ClaimPcInit, ClaimPcStep, LifecycleType, PTL

\* The second look, the spawn and the wait happen under a held claim only.
THEOREM LifecycleAttemptHoldsClaim == LifecycleSpec => []AttemptHoldsClaim
<1>1. ClaimPcInv => AttemptHoldsClaim
  BY DEF ClaimPcInv
<1> QED
  BY <1>1, ClaimPcInvariant, PTL

\* What a start does between being granted the claim and reporting (the second
\* look, the spawn and the wait) is never done by two starts at once.
THEOREM LifecycleOneAttempt == LifecycleSpec => []OneAttempt
<1>1. ClaimIInv /\ AttemptHoldsClaim => OneAttempt
  BY InvExclusive DEF ClaimExclusive, AttemptHoldsClaim, OneAttempt
<1> QED
  BY <1>1, LifecycleClaimInv, LifecycleAttemptHoldsClaim, PTL

\* A start that finds the claim locked waits for a start that is alive: the lock's
\* owner has the file open, so it is still between taking and releasing.
THEOREM LifecycleLockOwnersRun == LifecycleSpec => []LockOwnersRun
<1>1. ClaimIInv /\ ClaimPcInv => LockOwnersRun
  <2> SUFFICES ASSUME ClaimIInv, ClaimPcInv, NEW i \in Inode, locker[i] # None
               PROVE  pc[locker[i]] \in {"taking", "looking", "spawning", "awaiting", "releasing"}
    BY DEF LockOwnersRun
  <2>1. locker[i] \in Starter
    BY DEF ClaimIInv, ClaimTypeOK
  <2>2. fd[locker[i]] = i
    BY DEF ClaimIInv, LocksAreOpen
  <2>3. claim[locker[i]] # "none"
    BY <2>1, <2>2, NoneAssumption DEF ClaimIInv, OpenWhileTrying
  <2> QED
    BY <2>1, <2>3 DEF ClaimPcInv, ClaimWhileRunning
<1> QED
  BY <1>1, LifecycleClaimInv, ClaimPcInvariant, PTL
-----------------------------------------------------------------------------
(* The stop frame *)

\* No step leaves a start's stop frame with a daemon of the current version.
LEMMA StopsAreForOldStep ==
  LifecycleTypeOK /\ StopsAreForOld /\ [LifecycleNext]_vars => StopsAreForOld'
<1> SUFFICES ASSUME LifecycleTypeOK, StopsAreForOld, [LifecycleNext]_vars
             PROVE  StopsAreForOld'
  OBVIOUS
<1>0. /\ sv \in [Server -> ServerPC] /\ ver \in [Server -> {"old", "current"}]
      /\ queue \in [Server -> Seq(Client)]
      /\ peer \in [Server -> Client \cup {None}] /\ frame \in [Server -> {"none", "stop", "eof"}]
  BY DEF LifecycleTypeOK
<1>1. ASSUME UNCHANGED svVars PROVE StopsAreForOld'
  BY <1>1 DEF StopsAreForOld, svVars
<1>2. ASSUME NEW c \in Client,
             Connect(c) \/ HelloLost(c) \/ Drained(c)
      PROVE  StopsAreForOld'
  BY <1>1, <1>2 DEF Connect, HelloLost, Drained
<1>3. ASSUME NEW s \in Starter,
             \/ BeginStart(s) \/ Contend(s) \/ OpenTheClaim(s) \/ LockTheClaim(s)
             \/ ClaimTaken(s) \/ ClaimFails(s) \/ ConfirmTheClaim(s) \/ Look(s)
             \/ SpawnFails(s) \/ Await(s) \/ ReleaseUnlink(s) \/ ReleaseClose(s)
      PROVE  StopsAreForOld'
  BY <1>1, <1>3 DEF BeginStart, Contend, OpenTheClaim, LockTheClaim, ClaimTaken, ClaimFails,
     ConfirmTheClaim, Look, SpawnFails, Await, ReleaseUnlink, ReleaseClose
<1>4. ASSUME NEW c \in Stopper, BeginStop(c) PROVE StopsAreForOld'
  BY <1>1, <1>4 DEF BeginStop
<1>5. ASSUME NEW c \in Client, ReadHello(c) PROVE StopsAreForOld'
  <2>1. PICK d \in Server :
          /\ conn[c] = d /\ peer[d] = c
          /\ IF c \in Starter /\ ver[d] = "current"
             THEN Report(c, "already") /\ frame' = [frame EXCEPT ![d] = "eof"]
             ELSE Goto(c, "draining") /\ frame' = [frame EXCEPT ![d] = "stop"]
    BY <1>5 DEF ReadHello
  <2>2. peer[d] # None
    BY <2>1, LifecycleAssumption, NoneAssumption DEF Client
  <2>3. UNCHANGED <<sv, ver, peer>>
    BY <1>5 DEF ReadHello
  <2> QED
    BY <1>0, <2>1, <2>2, <2>3 DEF StopsAreForOld
<1>6. ASSUME NEW s \in Starter, SpawnDetached(s) PROVE StopsAreForOld'
  BY <1>0, <1>6 DEF SpawnDetached, StopsAreForOld
<1>7. ASSUME NEW s \in Starter, StarterDies(s) PROVE StopsAreForOld'
  BY <1>0, <1>7, NoneAssumption DEF StarterDies, StopsAreForOld
<1>8. ASSUME NEW d \in Server, UNCHANGED <<ver, peer, frame>>, peer[d] = None,
             \E x \in ServerPC : sv' = [sv EXCEPT ![d] = x]
      PROVE  StopsAreForOld'
  BY <1>0, <1>8 DEF StopsAreForOld
<1>9. ASSUME NEW d \in Server,
             \/ WarmUp(d) \/ StatPath(d) \/ ProbePath(d) \/ RemovePath(d) \/ BindPath(d)
             \/ Listen(d) \/ SetMode(d) \/ DropGuard(d) \/ DropListener(d)
             \/ IdleOut(d) \/ FaultOut(d)
      PROVE  StopsAreForOld'
  <2>1. UNCHANGED <<ver, peer, frame>>
    BY <1>9 DEF WarmUp, StatPath, ProbePath, RemovePath, BindPath, Listen, SetMode,
       DropGuard, DropListener, IdleOut, FaultOut
  <2>2. \E x \in ServerPC : sv' = [sv EXCEPT ![d] = x]
    BY <1>9 DEF WarmUp, StatPath, ProbePath, RemovePath, BindPath, Listen, SetMode,
       DropGuard, DropListener, IdleOut, FaultOut, Step, Exit, ServerPC
  <2>3. peer[d] = None
    BY <1>9 DEF WarmUp, StatPath, ProbePath, RemovePath, BindPath, Listen, SetMode,
       DropGuard, DropListener, IdleOut, FaultOut, Step, StopsAreForOld
  <2> QED
    BY <1>8, <2>1, <2>2, <2>3
<1>10. ASSUME NEW d \in Server, Accept(d) PROVE StopsAreForOld'
  BY <1>0, <1>10 DEF Accept, StopsAreForOld
<1>11. ASSUME NEW d \in Server, ReadFrame(d) PROVE StopsAreForOld'
  BY <1>0, <1>11 DEF ReadFrame, StopsAreForOld
<1>12. ASSUME NEW d \in Server, DaemonCrashes(d) PROVE StopsAreForOld'
  BY <1>0, <1>12 DEF DaemonCrashes, Exit, StopsAreForOld
<1>13. CASE UNCHANGED vars
  BY <1>1, <1>13 DEF vars
<1> QED
  BY <1>2, <1>3, <1>4, <1>5, <1>6, <1>7, <1>9, <1>10, <1>11, <1>12, <1>13
     DEF LifecycleNext, StarterStep, StopperStep, ServerStep, Client

\* A start never takes a daemon of its own protocol version down, whichever
\* daemons were spawned, replaced or crashed between its hello and its stop frame.
THEOREM LifecycleStopsOnlyMismatched == LifecycleSpec => StartStopsOnlyMismatched
<1> DEFINE Stops == \A d \in Server :
                      ReadFrame(d) /\ sv'[d] = "stopping" /\ peer[d] \in Starter => ver[d] = "old"
<1>1. LifecycleSpec => LifecycleInit /\ [][LifecycleNext]_vars
  BY DEF LifecycleSpec
<1>2. LifecycleInit => StopsAreForOld
  BY DEF LifecycleInit, StopsAreForOld
<1>3. LifecycleSpec => []StopsAreForOld
  BY <1>1, <1>2, StopsAreForOldStep, LifecycleType, PTL
<1>4. LifecycleTypeOK /\ StopsAreForOld => [Stops]_vars
  <2> SUFFICES ASSUME LifecycleTypeOK, StopsAreForOld, NEW d \in Server, ReadFrame(d),
                      sv'[d] = "stopping", peer[d] \in Starter
               PROVE  ver[d] = "old"
    OBVIOUS
  <2>1. frame[d] = "stop"
    BY DEF ReadFrame, LifecycleTypeOK
  <2> QED
    BY <2>1 DEF StopsAreForOld
<1> QED
  BY <1>3, <1>4, LifecycleType, PTL DEF StartStopsOnlyMismatched
-----------------------------------------------------------------------------
(* One daemon *)

\* Initially at most one child serves, and the path leads to it.
LEMMA SettledInit == LifecycleInit => SettledIInv
<1> SUFFICES ASSUME LifecycleInit PROVE SettledIInv
  OBVIOUS
<1>1. CASE path \in Server
  <2>1. sv = [d \in Server |-> IF d = path THEN "serving" ELSE "free"]
    BY <1>1, LifecycleAssumption DEF LifecycleInit
  <2> QED
    BY <1>1, <2>1 DEF LifecycleInit, SettledIInv, SettlesOnOneDaemon, NoOrphan, Working, Early,
       PathLeadsToBound, EarlyChildAwaited, SpawnsAlone, Client
<1>2. CASE path \notin Server
  <2>1. sv = [d \in Server |-> "free"]
    BY <1>2 DEF LifecycleInit
  <2> QED
    BY <1>2, <2>1 DEF LifecycleInit, SettledIInv, SettlesOnOneDaemon, NoOrphan, Working, Early,
       PathLeadsToBound, EarlyChildAwaited, SpawnsAlone
<1> QED
  BY <1>1, <1>2

\* A command's step that leaves the children alone, ends no wait for one and does
\* not go on to spawn.
LEMMA CommandKeepsSettled ==
  ASSUME LifecycleTypeOK, SettledIInv, UNCHANGED <<path, sv, child>>, NEW c \in Client,
         pc' = pc \/ \E l \in StarterPC \ {"spawning"} : pc' = [pc EXCEPT ![c] = l],
         pc' = pc \/ pc[c] # "awaiting"
  PROVE  SettledIInv'
<1>1. \A x \in Client : /\ pc[x] = "awaiting" => pc'[x] = "awaiting"
                        /\ pc'[x] = "spawning" => pc[x] = "spawning"
  BY DEF LifecycleTypeOK
<1>2. SettlesOnOneDaemon' /\ NoOrphan' /\ PathLeadsToBound'
  BY DEF SettledIInv, SettlesOnOneDaemon, NoOrphan, PathLeadsToBound, Working
<1>3. EarlyChildAwaited'
  BY <1>1 DEF SettledIInv, EarlyChildAwaited, Early, Client
<1>4. SpawnsAlone'
  BY <1>1 DEF SettledIInv, SpawnsAlone, Working, Client
<1> QED
  BY <1>2, <1>3, <1>4 DEF SettledIInv

\* A serve child's step: only a spawn adds a child, or turns one back to an early
\* stage, so what remains to show is where the path leads.
LEMMA ServeKeepsSettled ==
  ASSUME LifecycleTypeOK, SettledIInv, UNCHANGED <<pc, child>>, NEW d \in Server, NEW l,
         sv' = [sv EXCEPT ![d] = l],
         l \notin {"free", "unguarded"} => Working(d),
         l \in {"warming", "preparing", "probing", "removing", "binding", "bound"} => Early(d),
         NoOrphan', PathLeadsToBound'
  PROVE  SettledIInv'
<1>1. \A e \in Server : (Working(e)' => Working(e)) /\ (Early(e)' => Early(e))
  BY DEF LifecycleTypeOK, Working, Early
<1>2. SettlesOnOneDaemon' /\ SpawnsAlone'
  BY <1>1 DEF SettledIInv, SettlesOnOneDaemon, SpawnsAlone
<1>3. EarlyChildAwaited'
  BY <1>1 DEF SettledIInv, EarlyChildAwaited
<1> QED
  BY <1>2, <1>3 DEF SettledIInv

\* Every step of a serve child keeps the invariant: the one child at work is the
\* only one that can remove or rebind the path.
LEMMA ServeStepSettled ==
  ASSUME LifecycleTypeOK, SettledIInv, NEW d \in Server,
         ServerStep(d) \/ IdleOut(d) \/ FaultOut(d) \/ DaemonCrashes(d)
  PROVE  SettledIInv'
<1>0. /\ sv \in [Server -> ServerPC] /\ path \in Server \cup {"absent", "stale"}
      /\ "absent" \notin Server /\ "stale" \notin Server
  BY LifecycleAssumption DEF LifecycleTypeOK
<1>1. UNCHANGED <<pc, child>>
  BY DEF ServerStep, IdleOut, FaultOut, DaemonCrashes, WarmUp, StatPath, ProbePath,
     RemovePath, BindPath, Listen, SetMode, Accept, ReadFrame, DropGuard, DropListener, cmdVars
<1>2. ASSUME Working(d), NEW e \in Server, e # d
      PROVE  sv[e] \notin {"bound", "listening", "serving", "stopping"}
  BY <1>2 DEF SettledIInv, SettlesOnOneDaemon, Working
<1> USE DEF NoOrphan, PathLeadsToBound
<1>3. ASSUME NEW l \in {"free", "preparing", "probing", "removing", "binding"}, UNCHANGED path,
             sv' = [sv EXCEPT ![d] = l],
             sv[d] \in {"warming", "preparing", "probing", "removing", "binding", "unguarded"},
             sv[d] = "unguarded" => l = "free"
      PROVE  SettledIInv'
  <2>1. path # d
    BY <1>3 DEF SettledIInv
  <2>2. NoOrphan' /\ PathLeadsToBound'
    BY <1>0, <1>3, <2>1 DEF SettledIInv
  <2> QED
    BY <1>1, <1>3, <2>2, ServeKeepsSettled DEF Working, Early
<1>4. ASSUME NEW l \in {"listening", "serving", "stopping"}, UNCHANGED path,
             sv' = [sv EXCEPT ![d] = l],
             sv[d] \in {"bound", "listening", "serving"}
      PROVE  SettledIInv'
  <2>1. NoOrphan' /\ PathLeadsToBound'
    BY <1>0, <1>4 DEF SettledIInv
  <2> QED
    BY <1>1, <1>4, <2>1, ServeKeepsSettled DEF Working, Early
<1>5. CASE WarmUp(d) \/ StatPath(d) \/ ProbePath(d) \/ DropListener(d)
  BY <1>3, <1>5 DEF WarmUp, StatPath, ProbePath, DropListener, Step, Exit
<1>6. CASE RemovePath(d)
  <2>1. CASE path = "absent"
    BY <1>3, <1>6, <2>1 DEF RemovePath, Exit
  <2>2. CASE path # "absent"
    <3>1. sv[d] = "removing" /\ sv' = [sv EXCEPT ![d] = "binding"] /\ path' = "absent"
      BY <1>6, <2>2 DEF RemovePath, Step
    <3>2. NoOrphan' /\ PathLeadsToBound'
      BY <1>0, <1>2, <3>1 DEF Working
    <3> QED
      BY <1>1, <3>1, <3>2, ServeKeepsSettled DEF Working, Early
  <2> QED
    BY <2>1, <2>2
<1>7. CASE BindPath(d)
  <2>1. CASE path # "absent"
    BY <1>3, <1>7, <2>1 DEF BindPath, Exit
  <2>2. CASE path = "absent"
    <3>1. sv[d] = "binding" /\ sv' = [sv EXCEPT ![d] = "bound"] /\ path' = d
      BY <1>7, <2>2 DEF BindPath, Step
    <3>2. NoOrphan' /\ PathLeadsToBound'
      BY <1>0, <1>2, <3>1 DEF Working
    <3> QED
      BY <1>1, <3>1, <3>2, ServeKeepsSettled DEF Working, Early
  <2> QED
    BY <2>1, <2>2
<1>8. CASE Listen(d) \/ IdleOut(d) \/ FaultOut(d)
  BY <1>4, <1>8 DEF Listen, IdleOut, FaultOut, Step
<1>9. CASE SetMode(d)
  <2>1. sv[d] = "listening" /\ UNCHANGED path
    BY <1>9 DEF SetMode, Step
  <2>2. path = d
    BY <2>1 DEF SettledIInv
  <2>3. sv' = [sv EXCEPT ![d] = "serving"]
    BY <1>0, <1>9, <2>2 DEF SetMode, Step
  <2> QED
    BY <1>4, <2>1, <2>3
<1>10. CASE Accept(d)
  BY <1>0, <1>1, <1>10 DEF Accept, SettledIInv, SettlesOnOneDaemon, EarlyChildAwaited, SpawnsAlone,
     Working, Early, cmdVars
<1>11. CASE ReadFrame(d)
  BY <1>4, <1>11 DEF ReadFrame, cmdVars
<1>12. CASE DropGuard(d)
  <2>1. sv[d] = "stopping" /\ sv' = [sv EXCEPT ![d] = "unguarded"] /\ path' = "absent"
    BY <1>12 DEF DropGuard, Step
  <2>2. NoOrphan' /\ PathLeadsToBound'
    BY <1>0, <1>2, <2>1 DEF Working
  <2> QED
    BY <1>1, <2>1, <2>2, ServeKeepsSettled DEF Working, Early
<1>13. CASE DaemonCrashes(d)
  <2>1. sv' = [sv EXCEPT ![d] = "free"] /\ path' = IF path = d THEN "stale" ELSE path
    BY <1>13 DEF DaemonCrashes, Exit
  <2>2. NoOrphan' /\ PathLeadsToBound'
    BY <1>0, <2>1 DEF SettledIInv
  <2> QED
    BY <1>1, <2>1, <2>2, ServeKeepsSettled DEF Working, Early
<1> QED
  BY <1>5, <1>6, <1>7, <1>8, <1>9, <1>10, <1>11, <1>12, <1>13 DEF ServerStep

\* The start's steps that look for, spawn and wait for a child: under the claim, so
\* no other start is between them.
LEMMA AttemptKeepsSettled ==
  ASSUME LifecycleTypeOK, OneAttempt, SettledIInv, NEW s \in Starter,
         Look(s) \/ SpawnDetached(s) \/ Await(s)
  PROVE  SettledIInv'
<1>0. /\ pc \in [Client -> StarterPC] /\ sv \in [Server -> ServerPC] /\ s \in Client
      /\ child \in [Starter -> Server \cup {None}]
  BY DEF LifecycleTypeOK, Client
<1>1. ASSUME NEW t \in Starter, pc[t] \in {"looking", "spawning", "awaiting"} PROVE t = s
  BY <1>1 DEF OneAttempt, Attempting, Look, SpawnDetached, Await
<1>2. ASSUME NEW d \in Server, Working(d), ~Early(d) PROVE Live
  BY <1>0, <1>2 DEF Working, Early, Live, Listening, ServerPC, SettledIInv, NoOrphan
<1>3. CASE Look(s)
  <2>1. ASSUME NEW d \in Server, Working(d) PROVE Live
    BY <1>1, <1>2, <1>3, <2>1 DEF Look, SettledIInv, EarlyChildAwaited
  <2>2. UNCHANGED <<path, sv, child>>
    BY <1>3 DEF Look, svVars
  <2>3. CASE Live
    BY <1>0, <1>3, <2>2, <2>3, CommandKeepsSettled DEF Look, StarterPC
  <2>4. CASE ~Live
    <3>1. \A d \in Server : ~Working(d)
      BY <2>1, <2>4
    <3>2. \A d \in Server : ~Early(d)
      BY <3>1 DEF Working, Early
    <3>3. SettlesOnOneDaemon' /\ NoOrphan' /\ PathLeadsToBound'
      BY <2>2 DEF SettledIInv, SettlesOnOneDaemon, NoOrphan, PathLeadsToBound, Working
    <3>4. EarlyChildAwaited'
      BY <2>2, <3>2 DEF EarlyChildAwaited, Early
    <3>5. SpawnsAlone'
      BY <2>2, <3>1 DEF SpawnsAlone, Working
    <3> QED
      BY <3>3, <3>4, <3>5 DEF SettledIInv
  <2> QED
    BY <2>3, <2>4
<1>4. CASE SpawnDetached(s)
  <2>1. PICK d \in Server : /\ sv[d] = "free"
                            /\ sv' = [sv EXCEPT ![d] = "warming"]
                            /\ child' = [child EXCEPT ![s] = d]
    BY <1>4 DEF SpawnDetached
  <2>2. pc[s] = "spawning" /\ pc' = [pc EXCEPT ![s] = "awaiting"] /\ UNCHANGED path
    BY <1>4 DEF SpawnDetached, Goto
  <2>3. \A e \in Server : ~Working(e)
    BY <2>2 DEF SettledIInv, SpawnsAlone
  <2>4. \A e \in Server : (Working(e)' <=> e = d) /\ (Early(e)' => e = d)
    BY <1>0, <2>1, <2>3 DEF Working, Early
  <2>5. SettlesOnOneDaemon' /\ EarlyChildAwaited'
    BY <1>0, <2>1, <2>2, <2>4 DEF SettlesOnOneDaemon, EarlyChildAwaited
  <2>6. \A e \in Server : sv'[e] \notin {"bound", "listening", "serving", "stopping"}
    BY <1>0, <2>1, <2>3 DEF Working
  <2>7. path \notin Server
    BY <2>3 DEF SettledIInv, PathLeadsToBound, Working
  <2>8. NoOrphan' /\ PathLeadsToBound'
    BY <2>2, <2>6, <2>7 DEF NoOrphan, PathLeadsToBound
  <2>9. SpawnsAlone'
    BY <1>0, <1>1, <2>2 DEF SpawnsAlone, Client
  <2> QED
    BY <2>5, <2>8, <2>9 DEF SettledIInv
<1>5. CASE Await(s)
  <2>1. /\ pc[s] = "awaiting" /\ pc' = [pc EXCEPT ![s] = "releasing"]
        /\ UNCHANGED <<path, sv, child>>
        /\ Live \/ ~Early(child[s])
    BY <1>5 DEF Await, svVars
  <2>2. ASSUME NEW d \in Server, Early(d) PROVE FALSE
    <3>1. child[s] = d
      BY <1>1, <2>2 DEF SettledIInv, EarlyChildAwaited
    <3>2. Live
      BY <2>1, <2>2, <3>1
    <3>3. Working(d) /\ Working(path) /\ path \in Server
      BY <2>2, <3>2 DEF Early, Working, Live, SettledIInv, PathLeadsToBound
    <3>4. path = d
      BY <3>3 DEF SettledIInv, SettlesOnOneDaemon
    <3> QED
      BY <2>2, <3>2, <3>4 DEF Live, Listening, Early
  <2>3. SettlesOnOneDaemon' /\ NoOrphan' /\ PathLeadsToBound'
    BY <2>1 DEF SettledIInv, SettlesOnOneDaemon, NoOrphan, PathLeadsToBound, Working
  <2>4. EarlyChildAwaited'
    BY <2>1, <2>2 DEF EarlyChildAwaited, Early
  <2>5. SpawnsAlone'
    BY <1>0, <2>1 DEF SettledIInv, SpawnsAlone, Working, Client
  <2> QED
    BY <2>3, <2>4, <2>5 DEF SettledIInv
<1> QED
  BY <1>3, <1>4, <1>5

\* Every step of patient starts, of stops and of daemons keeps the invariant.
LEMMA SettledStep ==
  ASSUME Patient
  PROVE  LifecycleTypeOK /\ OneAttempt /\ SettledIInv /\ [LifecycleNext]_vars => SettledIInv'
<1> SUFFICES ASSUME LifecycleTypeOK, OneAttempt, SettledIInv, [LifecycleNext]_vars
             PROVE  SettledIInv'
  OBVIOUS
<1>1. ASSUME NEW c \in Client,
             \/ Connect(c) \/ ReadHello(c) \/ HelloLost(c) \/ Drained(c)
             \/ c \in Stopper /\ BeginStop(c)
      PROVE  SettledIInv'
  <2>1. \E l \in StarterPC \ {"spawning"} : pc' = [pc EXCEPT ![c] = l]
    BY <1>1 DEF Connect, ReadHello, HelloLost, Drained, BeginStop, Report, Goto, Unreachable,
       StarterPC
  <2>2. UNCHANGED <<path, sv, child>> /\ pc[c] # "awaiting"
    BY <1>1 DEF Connect, ReadHello, HelloLost, Drained, BeginStop, svVars
  <2> QED
    BY <2>1, <2>2, CommandKeepsSettled
<1>2. ASSUME NEW s \in Starter,
             \/ BeginStart(s) \/ Contend(s) \/ OpenTheClaim(s) \/ LockTheClaim(s)
             \/ ClaimTaken(s) \/ ClaimFails(s) \/ ConfirmTheClaim(s) \/ SpawnFails(s)
             \/ ReleaseUnlink(s) \/ ReleaseClose(s)
      PROVE  SettledIInv'
  <2>1. pc' = pc \/ \E l \in StarterPC \ {"spawning"} : pc' = [pc EXCEPT ![s] = l]
    BY <1>2 DEF BeginStart, Contend, OpenTheClaim, LockTheClaim, ClaimTaken, ClaimFails,
       ConfirmTheClaim, SpawnFails, ReleaseUnlink, ReleaseClose, Report, Goto, StarterPC, cmdVars
  <2>2. UNCHANGED <<path, sv, child>> /\ pc[s] # "awaiting"
    BY <1>2 DEF BeginStart, Contend, OpenTheClaim, LockTheClaim, ClaimTaken, ClaimFails,
       ConfirmTheClaim, SpawnFails, ReleaseUnlink, ReleaseClose, cmdVars, svVars
  <2> QED
    BY <2>1, <2>2, CommandKeepsSettled DEF Client
<1>3. ASSUME NEW s \in Starter, StarterDies(s) PROVE FALSE
  BY <1>3 DEF StarterDies, Patient
<1>4. CASE UNCHANGED vars
  BY <1>4 DEF vars, cmdVars, svVars, SettledIInv, SettlesOnOneDaemon, NoOrphan,
     PathLeadsToBound, EarlyChildAwaited, SpawnsAlone, Working, Early
<1> QED
  BY <1>1, <1>2, <1>3, <1>4, AttemptKeepsSettled, ServeStepSettled
     DEF LifecycleNext, StarterStep, StopperStep, Client

\* The path, the children at work and the starts that wait for them agree
\* throughout every behaviour of patient starts.
THEOREM PatientInvariant ==
  ASSUME Patient
  PROVE  LifecycleSpec => []SettledIInv
<1>1. LifecycleSpec => LifecycleInit /\ [][LifecycleNext]_vars
  BY DEF LifecycleSpec
<1> QED
  BY <1>1, SettledInit, SettledStep, LifecycleType, LifecycleOneAttempt, PTL

\* "Concurrent first uses settle on exactly one daemon": with starts that live to
\* release their claim, two serve children are never at work for one root, whatever
\* starts, stops and crashes overlap.
THEOREM PatientStartsSettle ==
  ASSUME Patient
  PROVE  LifecycleSpec => []SettlesOnOneDaemon
<1>1. SettledIInv => SettlesOnOneDaemon
  BY DEF SettledIInv
<1> QED
  BY <1>1, PatientInvariant, PTL

\* "There is no losing child to orphan": under the same assumptions a child that
\* has bound the socket is the one the path leads to, until it removes it.
THEOREM PatientStartsOrphanNone ==
  ASSUME Patient
  PROVE  LifecycleSpec => []NoOrphan
<1>1. SettledIInv => NoOrphan
  BY DEF SettledIInv
<1> QED
  BY <1>1, PatientInvariant, PTL
=============================================================================
