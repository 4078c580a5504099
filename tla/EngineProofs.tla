----------------------------- MODULE EngineProofs -----------------------------
(***************************************************************************)
(* Proofs about a running engine: the LSP client that talks to it, for any *)
(* number of callers and requests, and the warm session that a daemon or   *)
(* an MCP server keeps of it, for any supply of messages and commands.     *)
(***************************************************************************)
EXTENDS LspClient, WarmSession, FiniteSetTheorems, SequenceTheorems, TLAPS

-----------------------------------------------------------------------------
(* The LSP client *)

USE LspAssumption

\* The table's side of the invariant: what only Register, Dispatch, TimeOut and
\* FailPending can disturb, given the types before the step.
TableSafe == IdsHandedOut /\ NoCrossTalk /\ NoSilentWait

\* The steps of shutdown and drop beside shutdown's own request.
OwnerMoves ==
  BeginShutdown \/ CloseStdin \/ LockChild \/ Exited \/ GraceElapses \/ Killed
    \/ WaitFails \/ DropClient

\* The set of tasks past the fault check is finite, whatever the callers do.
LEMMA CheckedFinite == IsFiniteSet(Checked)
<1>1. IsFiniteSet(Task)
  BY FS_AddElement DEF Task
<1> QED
  BY <1>1, FS_Subset DEF Checked

\* A task that passes the fault check adds one to Checked, at most.
LEMMA CheckedGrows ==
  ASSUME NEW t \in Task, at \in [Task -> InFlight \cup {"idle", "checked"}],
         at' = [at EXCEPT ![t] = "checked"]
  PROVE  /\ Cardinality(Checked') \in Nat
         /\ Cardinality(Checked') <= Cardinality(Checked) + 1
<1>1. Checked' = Checked \cup {t}
  BY DEF Checked
<1>2. Cardinality(Checked) \in Nat
  BY CheckedFinite, FS_CardinalityType
<1>3. Cardinality(Checked \cup {t}) \in {Cardinality(Checked), Cardinality(Checked) + 1}
  BY CheckedFinite, FS_AddElement
<1> QED
  BY <1>1, <1>2, <1>3

\* A task that is given an id takes one away from Checked.
LEMMA CheckedShrinks ==
  ASSUME NEW t \in Task, at \in [Task -> InFlight \cup {"idle", "checked"}],
         at[t] = "checked", at' = [at EXCEPT ![t] = "registered"]
  PROVE  Cardinality(Checked') = Cardinality(Checked) - 1
<1>1. Checked' = Checked \ {t} /\ t \in Checked
  BY DEF Checked
<1>2. Cardinality(Checked \ {t}) = Cardinality(Checked) - 1
  BY <1>1, CheckedFinite, FS_RemoveElement
<1> QED
  BY <1>1, <1>2

\* A decoded frame is malformed or names an id of the session.
LEMMA FrameFields ==
  ASSUME NEW f \in Frame, f.kind # "malformed"
  PROVE  f.kind \in {"result", "error"} /\ f.id \in Id
BY DEF Frame

\* spawn establishes the invariant.
LEMMA LspInitInv == LspInit => LspIInv
<1> SUFFICES ASSUME LspInit PROVE LspIInv
  OBVIOUS
<1>1. LspTypeOK
  <2>1. nextId \in 1 .. MaxId + 1
    BY DEF LspInit
  <2>2. stdout \in Seq(Frame)
    BY EmptySeq DEF LspInit
  <2> QED
    BY <2>1, <2>2 DEF LspInit, LspTypeOK, Task
<1>2. Checked = {}
  BY DEF LspInit, Checked
<1>3. CheckedFit
  BY <1>2, FS_EmptySet DEF LspInit, CheckedFit
<1>4. IdsHandedOut /\ NoCrossTalk /\ NoSilentWait
  BY DEF LspInit, IdsHandedOut, NoCrossTalk, NoSilentWait, InFlight
<1> QED
  BY <1>1, <1>3, <1>4 DEF LspIInv

\* What a request's end leaves of the invariant: the task is no longer in
\* flight, so nothing is owed to it.
LEMMA EndKeepsTable ==
  ASSUME NEW t \in Task, NEW o \in Outcome, LspTypeOK, TableSafe, at[t] # "checked",
         End(t, o), nextId' = nextId, slot' = slot,
         pending' = pending \/ (at[t] \in InFlight /\ pending' = pending \ {id[t]})
  PROVE  /\ TableSafe' /\ Checked' = Checked
         /\ at' \in [Task -> InFlight \cup {"idle", "checked"}]
         /\ id' = id /\ last' \in [Task -> Outcome \cup {"none"}]
<1> USE DEF End, LspTypeOK
<1>1. \A u \in Task : at'[u] = IF u = t THEN "idle" ELSE at[u]
  OBVIOUS
<1>2. IdsHandedOut'
  BY <1>1 DEF IdsHandedOut, InFlight, TableSafe
<1>3. NoCrossTalk'
  BY <1>1 DEF NoCrossTalk, InFlight, TableSafe
<1>4. NoSilentWait'
  <2> SUFFICES ASSUME NEW u \in Task, at'[u] \in InFlight, id'[u] \notin pending'
               PROVE  slot'[id'[u]] # "empty"
    BY DEF NoSilentWait
  <2>1. u # t /\ at[u] \in InFlight /\ id'[u] = id[u]
    BY <1>1 DEF InFlight
  <2>2. id[u] \notin pending
    BY <2>1 DEF NoCrossTalk, TableSafe
  <2> QED
    BY <2>1, <2>2 DEF NoSilentWait, TableSafe
<1>5. Checked' = Checked
  BY <1>1 DEF Checked
<1> QED
  BY <1>1, <1>2, <1>3, <1>4, <1>5 DEF TableSafe

\* A step that touches neither the requests nor the table keeps TableSafe.
LEMMA FrameKeepsTable ==
  ASSUME TableSafe, UNCHANGED <<callVars, tableVars>>
  PROVE  TableSafe' /\ Checked' = Checked
BY DEF TableSafe, IdsHandedOut, NoCrossTalk, NoSilentWait, Checked, callVars, tableVars

\* Every step keeps the invariant.
LEMMA LspStepInv == LspIInv /\ [LspNext]_lspVars => LspIInv'
<1> SUFFICES ASSUME LspIInv, [LspNext]_lspVars PROVE LspIInv'
  OBVIOUS
<1> USE DEF LspIInv, TableSafe
<1>0. /\ nextId \in Nat \ {0} /\ nextId <= MaxId + 1
      /\ Cardinality(Checked) \in Nat
  BY CheckedFinite, FS_CardinalityType DEF LspTypeOK
<1>1. ASSUME NEW t \in Task, Begin(t) PROVE LspIInv'
  <2>1. CASE fault
    <3>1. End(t, "framing") /\ at[t] # "checked" /\ pending' = pending
      BY <1>1, <2>1 DEF Begin, MayBegin, tableVars
    <3>2. TableSafe' /\ Checked' = Checked
      BY <3>1, <1>1, EndKeepsTable DEF Begin, tableVars, Outcome
    <3>3. /\ at' \in [Task -> InFlight \cup {"idle", "checked"}] /\ UNCHANGED id
          /\ last' \in [Task -> Outcome \cup {"none"}]
      BY <3>1 DEF End, LspTypeOK, Outcome
    <3>4. LspTypeOK'
      BY <1>1, <3>3
      DEF Begin, LspTypeOK, ownerVars, tableVars, readerVars, pipeVars, engineVars
    <3> QED
      BY <3>2, <3>4, <1>1 DEF CheckedFit, Begin, tableVars
  <2>2. CASE ~fault
    <3>1. at' = [at EXCEPT ![t] = "checked"] /\ UNCHANGED <<id, last, tableVars>>
      BY <1>1, <2>2 DEF Begin
    <3>2. nextId + Cardinality(Checked) <= MaxId
      BY <1>1, <1>0 DEF Begin, MayBegin
    <3>3. CheckedFit'
      <4>1. /\ Cardinality(Checked') \in Nat
            /\ Cardinality(Checked') <= Cardinality(Checked) + 1
        BY <3>1, CheckedGrows DEF LspTypeOK
      <4> QED
        BY <1>0, <3>1, <3>2, <4>1 DEF CheckedFit, tableVars
    <3>4. LspTypeOK'
      BY <3>1, <1>1
      DEF Begin, LspTypeOK, ownerVars, tableVars, readerVars, pipeVars, engineVars
    <3>5. TableSafe'
      BY <3>1 DEF LspTypeOK, IdsHandedOut, NoCrossTalk, NoSilentWait, InFlight, tableVars
    <3> QED
      BY <3>3, <3>4, <3>5
  <2> QED
    BY <2>1, <2>2
<1>2. ASSUME NEW t \in Task, Register(t) PROVE LspIInv'
  <2>0. /\ at \in [Task -> InFlight \cup {"idle", "checked"}] /\ id \in [Task -> Id \cup {0}]
        /\ at[t] = "checked" /\ at' = [at EXCEPT ![t] = "registered"]
        /\ id' = [id EXCEPT ![t] = nextId]
        /\ pending' = pending \cup {nextId} /\ slot' = slot
    BY <1>2 DEF Register, LspTypeOK
  <2>1. Cardinality(Checked') = Cardinality(Checked) - 1 /\ Cardinality(Checked) >= 1
    <3>1. t \in Checked
      BY <1>2 DEF Register, Checked
    <3>2. Cardinality(Checked) # 0
      BY <3>1, CheckedFinite, FS_EmptySet
    <3>3. Cardinality(Checked') = Cardinality(Checked) - 1
      BY <2>0, CheckedShrinks
    <3> QED
      BY <1>0, <3>2, <3>3
  <2>2. nextId \in Id /\ CheckedFit'
    BY <1>0, <1>2, <2>1 DEF CheckedFit, Register, Id
  <2>3. LspTypeOK'
    BY <1>0, <1>2, <2>2
    DEF Register, LspTypeOK, ownerVars, InFlight, Id, readerVars, pipeVars, engineVars
  <2>4. /\ at'[t] = "registered" /\ id'[t] = nextId
        /\ \A u \in Task \ {t} : at'[u] = at[u] /\ id'[u] = id[u]
    BY <2>0
  <2>5. IdsHandedOut'
    BY <1>0, <1>2, <2>4 DEF Register, IdsHandedOut, InFlight, LspTypeOK, Id
  <2>6. NoCrossTalk'
    BY <1>0, <1>2, <2>4 DEF Register, IdsHandedOut, NoCrossTalk, InFlight, LspTypeOK
  <2>7. NoSilentWait'
    BY <2>0, <2>4 DEF NoSilentWait, InFlight
  <2> QED
    BY <2>2, <2>3, <2>5, <2>6, <2>7
<1>3. ASSUME NEW t \in Task, LockStdin(t) PROVE LspIInv'
  <2>1. CASE stdin = "closed"
    <3>1. End(t, "io") /\ at[t] # "checked" /\ pending' = pending
      BY <1>3, <2>1 DEF LockStdin, tableVars
    <3>2. TableSafe' /\ Checked' = Checked
      BY <3>1, <1>3, EndKeepsTable DEF LockStdin, tableVars, Outcome
    <3>3. LspTypeOK'
      BY <2>1, <3>1, <1>3, EndKeepsTable
      DEF LockStdin, LspTypeOK, ownerVars, Outcome, tableVars, readerVars, engineVars
    <3> QED
      BY <3>2, <3>3, <1>3 DEF CheckedFit, LockStdin, tableVars
  <2>2. CASE stdin # "closed"
    <3>1. /\ at' = [at EXCEPT ![t] = "writing"] /\ at[t] = "registered"
          /\ UNCHANGED <<id, last, tableVars>>
      BY <1>3, <2>2 DEF LockStdin
    <3>2. LspTypeOK'
      BY <2>2, <3>1, <1>3
      DEF LockStdin, LspTypeOK, ownerVars, InFlight, tableVars, readerVars, engineVars
    <3>3. Checked' = Checked
      BY <3>1 DEF Checked, LspTypeOK
    <3>4. TableSafe'
      BY <3>1 DEF LspTypeOK, IdsHandedOut, NoCrossTalk, NoSilentWait, InFlight, tableVars
    <3> QED
      BY <3>1, <3>2, <3>3, <3>4 DEF CheckedFit, tableVars
  <2> QED
    BY <2>1, <2>2
<1>4. ASSUME NEW t \in Task, Write(t) PROVE LspIInv'
  <2>1. CASE child = "dead"
    <3>1. End(t, "io") /\ at[t] # "checked" /\ pending' = pending
      BY <1>4, <2>1 DEF Write, tableVars
    <3>2. TableSafe' /\ Checked' = Checked
      BY <3>1, <1>4, EndKeepsTable DEF Write, tableVars, Outcome
    <3>3. LspTypeOK'
      BY <2>1, <3>1, <1>4, EndKeepsTable
      DEF Write, LspTypeOK, ownerVars, Outcome, tableVars, readerVars
    <3> QED
      BY <3>2, <3>3, <1>4 DEF CheckedFit, Write, tableVars
  <2>2. CASE child # "dead"
    <3>1. /\ at' = [at EXCEPT ![t] = "waiting"] /\ at[t] = "writing"
          /\ UNCHANGED <<id, last, tableVars>>
      BY <1>4, <2>2 DEF Write
    <3>2. id[t] \in Id
      BY <3>1 DEF IdsHandedOut, InFlight, LspTypeOK
    <3>3. LspTypeOK'
      BY <2>2, <3>1, <3>2, <1>4
      DEF Write, LspTypeOK, ownerVars, InFlight, tableVars, readerVars
    <3>4. Checked' = Checked
      BY <3>1 DEF Checked, LspTypeOK
    <3>5. TableSafe'
      BY <3>1 DEF LspTypeOK, IdsHandedOut, NoCrossTalk, NoSilentWait, InFlight, tableVars
    <3> QED
      BY <3>1, <3>3, <3>4, <3>5 DEF CheckedFit, tableVars
  <2> QED
    BY <2>1, <2>2
<1>5. ASSUME NEW t \in Task, Receive(t) PROVE LspIInv'
  <2>1. id[t] \in Id /\ slot[id[t]] \in {"result", "error", "closed"}
    BY <1>5 DEF Receive, IdsHandedOut, InFlight, LspTypeOK
  <2>2. PICK o \in Outcome : End(t, o)
    BY <1>5, <2>1 DEF Receive, OutcomeOf, Outcome
  <2>3. at[t] # "checked" /\ UNCHANGED tableVars
    BY <1>5 DEF Receive
  <2>4. TableSafe' /\ Checked' = Checked
    BY <2>2, <2>3, EndKeepsTable DEF tableVars
  <2>5. LspTypeOK'
    BY <1>5, <2>2, <2>3, EndKeepsTable
    DEF Receive, LspTypeOK, ownerVars, tableVars, readerVars, pipeVars, engineVars
  <2> QED
    BY <2>3, <2>4, <2>5 DEF CheckedFit, tableVars
<1>6. ASSUME NEW t \in Task, TimeOut(t) PROVE LspIInv'
  <2>1. /\ at[t] \in InFlight /\ at[t] # "checked" /\ End(t, "timeout")
        /\ pending' = pending \ {id[t]} /\ nextId' = nextId /\ slot' = slot
    BY <1>6 DEF TimeOut, InFlight
  <2>2. /\ TableSafe' /\ Checked' = Checked
        /\ at' \in [Task -> InFlight \cup {"idle", "checked"}]
        /\ id' = id /\ last' \in [Task -> Outcome \cup {"none"}]
    BY <2>1, EndKeepsTable DEF Outcome
  <2>3. torn' \in BOOLEAN /\ writer' \in Task \cup {None}
    BY <1>6 DEF TimeOut, LspTypeOK
  <2>4. LspTypeOK'
    BY <1>6, <2>1, <2>2, <2>3 DEF TimeOut, LspTypeOK, ownerVars, readerVars, engineVars
  <2> QED
    BY <2>1, <2>2, <2>4 DEF CheckedFit
<1>7. CASE Dispatch
  <2> DEFINE f == Head(stdout)
  <2>1. f \in Frame /\ stdout' \in Seq(Frame)
    BY <1>7, HeadTailProperties DEF Dispatch, LspTypeOK
  <2>2. /\ pending' \subseteq pending
        /\ slot' \in [Id -> {"empty", "result", "error", "closed"}]
        /\ \A i \in Id : slot'[i] # slot[i] => slot'[i] # "empty"
        /\ \A i \in Id : i \in pending /\ i \notin pending' => slot'[i] # "empty"
        /\ fault' \in BOOLEAN /\ reader' \in {"reading", "killing"}
    <3>1. CASE f.kind = "malformed"
      BY <1>7, <3>1 DEF Dispatch, LspTypeOK
    <3>2. CASE f.kind # "malformed"
      <4>1. f.kind \in {"result", "error"} /\ f.id \in Id
        BY <2>1, <3>2, FrameFields
      <4> QED
        BY <1>7, <3>2, <4>1 DEF Dispatch, LspTypeOK, readerVars
    <3> QED
      BY <3>1, <3>2
  <2>3. UNCHANGED <<callVars, nextId>> /\ Checked' = Checked
    BY <1>7 DEF Dispatch, Checked, callVars
  <2>4. LspTypeOK'
    BY <1>7, <2>1, <2>2, <2>3 DEF Dispatch, LspTypeOK, ownerVars, callVars, pipeVars
  <2>5. NoSilentWait'
    BY <2>2, <2>3 DEF NoSilentWait, IdsHandedOut, InFlight, LspTypeOK, callVars
  <2> QED
    BY <2>3, <2>4, <2>5 DEF CheckedFit, IdsHandedOut, NoCrossTalk, callVars
<1>8. CASE FailPending
  <2>1. UNCHANGED <<callVars, nextId>> /\ Checked' = Checked
    BY <1>8 DEF FailPending, Checked, callVars
  <2>2. LspTypeOK'
    BY <1>8 DEF FailPending, LspTypeOK, ownerVars, callVars, pipeVars, engineVars
  <2>3. NoSilentWait'
    <3> SUFFICES ASSUME NEW u \in Task, at[u] \in InFlight
                 PROVE  slot'[id[u]] # "empty"
      BY <2>1 DEF NoSilentWait, callVars
    <3>1. id[u] \in Id
      BY DEF IdsHandedOut, LspTypeOK, InFlight
    <3> QED
      BY <1>8, <3>1 DEF FailPending, NoSilentWait, LspTypeOK
  <2> QED
    BY <2>1, <2>2, <2>3 DEF CheckedFit, IdsHandedOut, NoCrossTalk, callVars
<1>9. CASE \/ EndOfStream \/ LockFaulted \/ KillFaulted \/ OwnerMoves
           \/ EngineAnswers \/ EngineGarbles \/ EngineExits \/ EngineDies
           \/ UNCHANGED lspVars
  <2> USE DEF callVars, tableVars, readerVars, pipeVars, ownerVars, engineVars, lspVars
  <2>1. UNCHANGED <<callVars, tableVars>>
    BY <1>9 DEF EndOfStream, LockFaulted, KillFaulted, OwnerMoves, BeginShutdown, CloseStdin,
                LockChild, Exited, GraceElapses, Killed, WaitFails, Return, DropClient,
                EngineAnswers, EngineGarbles, EngineExits, EngineDies
  <2>2. stdout' \in Seq(Frame) /\ inbox' \subseteq Id
    <3>1. CASE EngineAnswers
      <4>1. PICK i \in inbox, k \in {"result", "error"} :
              Emit([kind |-> k, id |-> i]) /\ inbox' = inbox \ {i}
        BY <3>1 DEF EngineAnswers
      <4>2. [kind |-> k, id |-> i] \in Frame
        BY DEF Frame, LspTypeOK
      <4> QED
        BY <4>1, <4>2, AppendProperties DEF Emit, LspTypeOK
    <3>2. CASE EngineGarbles
      <4>1. [kind |-> "malformed"] \in Frame
        BY DEF Frame
      <4> QED
        BY <3>2, <4>1, AppendProperties DEF EngineGarbles, Emit, LspTypeOK
    <3>3. CASE ~EngineAnswers /\ ~EngineGarbles
      BY <1>9, <3>3 DEF EndOfStream, LockFaulted, KillFaulted, OwnerMoves, BeginShutdown,
                        CloseStdin, LockChild, Exited, GraceElapses, Killed, WaitFails,
                        Return, DropClient, EngineExits, EngineDies, LspTypeOK
    <3> QED
      BY <3>1, <3>2, <3>3
  <2>3. LspTypeOK'
    <3> USE DEF LspTypeOK, Returned, Signalled
    <3>1. CASE OwnerMoves
      BY <2>1, <2>2, <3>1 DEF OwnerMoves, BeginShutdown, CloseStdin, LockChild, Exited,
        GraceElapses, Killed, WaitFails, Return, DropClient
    <3>2. CASE ~OwnerMoves
      BY <1>9, <2>1, <2>2, <3>2 DEF EndOfStream, LockFaulted, KillFaulted, EngineAnswers,
        EngineGarbles, EngineExits, EngineDies
    <3> QED
      BY <3>1, <3>2
  <2>4. TableSafe' /\ Checked' = Checked
    BY <2>1, FrameKeepsTable
  <2> QED
    BY <2>1, <2>3, <2>4 DEF CheckedFit
<1> QED
  BY <1>1, <1>2, <1>3, <1>4, <1>5, <1>6, <1>7, <1>8, <1>9
  DEF LspNext, TaskStep, ReaderStep, OwnerStep, OwnerMoves, Task

\* In every behaviour of the client, for any callers and bounds: requests in
\* flight have ids of their own, and no entry leaves the table unanswered.
THEOREM LspInvariant == LspSpec => []LspIInv
BY LspInitInv, LspStepInv, PTL DEF LspSpec

\* NoCrossTalk of request_within's id allocation.
THEOREM LspNoCrossTalk == LspSpec => []NoCrossTalk
<1>1. LspIInv => NoCrossTalk
  BY DEF LspIInv
<1> QED
  BY <1>1, LspInvariant, PTL

\* NoSilentWait of dispatch, fail_pending and the timeout path.
THEOREM LspNoSilentWait == LspSpec => []NoSilentWait
<1>1. LspIInv => NoSilentWait
  BY DEF LspIInv
<1> QED
  BY <1>1, LspInvariant, PTL

\* The child mutex is where its holder is, and no engine is left running: the
\* signals of the reader, of shutdown and of drop, in any order, also where a
\* wait fails or drop finds the child locked.
LEMMA LspTeardownStep == TeardownInv /\ [LspNext]_lspVars => TeardownInv'
<1> SUFFICES ASSUME TeardownInv, [LspNext]_lspVars PROVE TeardownInv'
  OBVIOUS
<1> USE DEF TeardownInv, MutexHeld, NoEngineLeaks, ownerVars, readerVars, engineVars
<1>1. ASSUME NEW t \in Task, Begin(t) \/ TaskStep(t) \/ Write(t) PROVE TeardownInv'
  BY <1>1 DEF Begin, TaskStep, Register, LockStdin, Write, Receive, TimeOut
<1>2. CASE ReaderStep
  <2>1. CASE Dispatch \/ EndOfStream \/ FailPending
    BY <2>1 DEF Dispatch, EndOfStream, FailPending
  <2>2. CASE LockFaulted
    BY <2>2 DEF LockFaulted
  <2>3. CASE KillFaulted
    BY <2>3 DEF KillFaulted, Signalled
  <2> QED
    BY <1>2, <2>1, <2>2, <2>3 DEF ReaderStep
<1>3. CASE BeginShutdown \/ CloseStdin \/ LockChild
  BY <1>3 DEF BeginShutdown, CloseStdin, LockChild
<1>4. CASE GraceElapses
  BY <1>4 DEF GraceElapses, Signalled
<1>5. CASE Exited \/ Killed \/ WaitFails
  BY <1>5 DEF Exited, Killed, WaitFails, Return
<1>6. CASE DropClient
  BY <1>6 DEF DropClient, Signalled, Returned
<1>7. CASE EngineAnswers \/ EngineGarbles \/ EngineExits \/ EngineDies
  BY <1>7 DEF EngineAnswers, EngineGarbles, EngineExits, EngineDies
<1>8. CASE UNCHANGED lspVars
  BY <1>8 DEF lspVars
<1> QED
  BY <1>1, <1>2, <1>3, <1>4, <1>5, <1>6, <1>7, <1>8 DEF LspNext, OwnerStep, Task

\* "So no caller can leak the process", for any callers and however shutdown and
\* drop meet the reader's kill.
THEOREM LspNoEngineLeaks == LspSpec => []NoEngineLeaks
<1>1. LspInit => TeardownInv
  BY DEF LspInit, TeardownInv, MutexHeld, NoEngineLeaks
<1>2. TeardownInv => NoEngineLeaks
  BY DEF TeardownInv
<1> QED
  BY <1>1, <1>2, LspTeardownStep, PTL DEF LspSpec
-----------------------------------------------------------------------------
(* The warm session *)

HIDE LspAssumption
USE WarmAssumption

\* The stream's side of the invariant, which only the engine and the tracker
\* can disturb.
StreamInv == StreamTail /\ PhaseCaughtUp /\ NothingAnnounced

\* A fresh warm session satisfies the invariant.
LEMMA WarmInitInv == WarmInit => WarmIInv
<1> SUFFICES ASSUME WarmInit PROVE WarmIInv
  OBVIOUS
<1>1. WarmTypeOK
  <2>1. stream \in Seq(Event) /\ events \in 0 .. MaxEvents /\ served \in 0 .. MaxRequests
    BY EmptySeq DEF WarmInit
  <2>2. phase \in Phase /\ seen \in Phase /\ kind \in Kind /\ met \in Alive
    BY DEF WarmInit, Phase, Kind, Alive
  <2> QED
    BY <2>1, <2>2 DEF WarmInit, WarmTypeOK
<1> QED
  BY <1>1 DEF WarmInit, WarmIInv, StreamTail, PhaseCaughtUp, NothingAnnounced,
              ClosedIsFinal, ClosedVerdict

\* A request's steps leave the engine and the tracker alone.
LEMMA RequestKeepsStream ==
  ASSUME StreamInv, UNCHANGED <<sessionVars, trackerVars>>
  PROVE  StreamInv'
BY DEF StreamInv, StreamTail, PhaseCaughtUp, NothingAnnounced, sessionVars, trackerVars

\* Every step keeps the invariant.
LEMMA WarmStepInv == WarmIInv /\ [WarmNext]_warmVars => WarmIInv'
<1> SUFFICES ASSUME WarmIInv, [WarmNext]_warmVars PROVE WarmIInv'
  OBVIOUS
<1> USE DEF WarmIInv
<1>1. ASSUME NEW e \in Event, Announce(e) PROVE WarmIInv'
  <2>1. /\ stream' \in Seq(Event) /\ stream' # <<>>
        /\ stream'[Len(stream')] = e
    BY <1>1, AppendProperties, LenProperties DEF Announce, WarmTypeOK
  <2>2. WarmTypeOK'
    BY <1>1, <2>1 DEF Announce, WarmTypeOK, trackerVars, requestVars
  <2>3. announced' = e /\ e # "none"
    BY <1>1 DEF Announce, Event
  <2> QED
    BY <1>1, <2>1, <2>2, <2>3
    DEF Announce, StreamTail, PhaseCaughtUp, NothingAnnounced, ClosedIsFinal,
        ClosedVerdict, trackerVars, requestVars
<1>2. CASE SessionDies
  BY <1>2 DEF SessionDies, WarmTypeOK, StreamTail, PhaseCaughtUp, NothingAnnounced,
              ClosedIsFinal, ClosedVerdict, trackerVars, requestVars
<1>3. CASE Follow
  <2>1. /\ Head(stream) \in Event /\ stream' \in Seq(Event)
        /\ Len(stream') = Len(stream) - 1
        /\ \A i \in 1 .. Len(stream') : stream'[i] = stream[i + 1]
        /\ Len(stream) \in Nat \ {0}
    BY <1>3, HeadTailProperties, EmptySeq DEF Follow, WarmTypeOK
  <2>2. WarmTypeOK'
    BY <1>3, <2>1 DEF Follow, WarmTypeOK, Advance, Phase, requestVars
  <2>3. announced # "none" /\ announced' = announced
    BY <1>3 DEF Follow, NothingAnnounced
  <2>4. StreamTail'
    <3>1. ASSUME stream' # <<>> PROVE Len(stream') \in Nat \ {0}
      BY <2>1, <3>1, EmptySeq
    <3> QED
      BY <1>3, <2>1, <2>3, <3>1 DEF StreamTail, Follow
  <2>5. PhaseCaughtUp'
    <3> SUFFICES ASSUME stream' = <<>> PROVE phase' = Advance(announced)
      BY <2>3 DEF PhaseCaughtUp, Advance
    <3>1. Len(stream) = 1
      BY <2>1, EmptySeq
    <3>2. Head(stream) = announced
      BY <1>3, <3>1 DEF StreamTail, Follow, WarmTypeOK
    <3> QED
      BY <1>3, <3>2 DEF Follow
  <2> QED
    BY <1>3, <2>2, <2>3, <2>4, <2>5
    DEF Follow, NothingAnnounced, ClosedIsFinal, ClosedVerdict, requestVars
<1>4. CASE FollowEnds
  BY <1>4 DEF FollowEnds, WarmTypeOK, StreamTail, PhaseCaughtUp, NothingAnnounced,
              ClosedIsFinal, ClosedVerdict, sessionVars, requestVars
<1>5. ASSUME UNCHANGED <<sessionVars, trackerVars>>, WarmTypeOK',
             endedBy' = "closed" => endedBy = "closed" /\ index' = index
      PROVE  WarmIInv'
  <2>1. StreamInv'
    BY <1>5, RequestKeepsStream DEF StreamInv
  <2>2. ClosedIsFinal' /\ ClosedVerdict'
    BY <1>5 DEF ClosedIsFinal, ClosedVerdict, sessionVars, trackerVars
  <2> QED
    BY <1>5, <2>1, <2>2 DEF StreamInv
<1>6. ASSUME NEW k \in Kind, Serve(k) PROVE WarmIInv'
  <2>1. served < MaxRequests /\ served' = served + 1 /\ served \in 0 .. MaxRequests
    BY <1>6 DEF Serve, WarmTypeOK
  <2>2. served' \in 0 .. MaxRequests
    BY <2>1
  <2>3. met' \in Alive /\ kind' \in Kind
    BY <1>6 DEF Serve, Alive
  <2>4. WarmTypeOK'
    BY <1>6, <2>2, <2>3 DEF Serve, WarmTypeOK, sessionVars, trackerVars
  <2> QED
    BY <1>5, <1>6, <2>4 DEF Serve
<1>7. CASE ReadPhase
  <2>1. WarmTypeOK'
    BY <1>7 DEF ReadPhase, Settle, WarmTypeOK, sessionVars, trackerVars
  <2> QED
    BY <1>5, <1>7, <2>1 DEF ReadPhase, Settle
<1>8. CASE CheckClosed
  <2>1. WarmTypeOK'
    BY <1>8 DEF CheckClosed, Settle, Completeness, WarmTypeOK, sessionVars, trackerVars
  <2>2. CASE ~closed
    BY <1>5, <1>8, <2>1, <2>2 DEF CheckClosed
  <2>3. CASE closed
    <3>1. StreamInv'
      BY <1>8, RequestKeepsStream DEF StreamInv, CheckClosed
    <3>2. ClosedIsFinal'
      BY <1>8, <2>3 DEF ClosedIsFinal, CheckClosed, sessionVars, trackerVars
    <3>3. phase = "ready" <=> announced = "end"
      BY <2>3 DEF ClosedIsFinal, PhaseCaughtUp, NothingAnnounced, Advance
    <3>4. ClosedVerdict'
      BY <1>8, <2>3, <3>3 DEF ClosedVerdict, CheckClosed, Settle, Completeness, sessionVars
    <3> QED
      BY <2>1, <3>1, <3>2, <3>4 DEF StreamInv
  <2> QED
    BY <2>2, <2>3
<1>9. CASE Deadline
  <2>1. WarmTypeOK'
    BY <1>9 DEF Deadline, Settle, Completeness, WarmTypeOK, sessionVars, trackerVars
  <2> QED
    BY <1>5, <1>9, <2>1 DEF Deadline, Settle
<1>10. CASE Sleep
  <2>1. WarmTypeOK'
    BY <1>10 DEF Sleep, WarmTypeOK, sessionVars, trackerVars
  <2> QED
    BY <1>5, <1>10, <2>1 DEF Sleep
<1>11. CASE Resolve
  <2>1. WarmTypeOK'
    BY <1>11 DEF Resolve, Finish, WarmTypeOK, sessionVars, trackerVars
  <2> QED
    BY <1>5, <1>11, <2>1 DEF Resolve
<1>12. CASE Ask
  <2>1. Refusal \in Dead \cup {"none"} /\ OutcomeFor(Refusal) \in {"reply", "error", "faulted"}
    BY DEF Refusal, OutcomeFor, Dead, WarmTypeOK
  <2>2. WarmTypeOK'
    BY <1>12, <2>1 DEF Ask, Finish, WarmTypeOK, Alive, Dead, sessionVars, trackerVars
  <2> QED
    BY <1>5, <1>12, <2>2 DEF Ask
<1>13. CASE Answer
  <2>1. PICK m \in {"ok", "timeout", "response", "child exited"} :
          /\ met' = m
          /\ \/ Finish(OutcomeFor(m))
             \/ pc' = "asking" /\ UNCHANGED <<outcome, daemon>>
    BY <1>13 DEF Answer
  <2>2. OutcomeFor(m) \in {"reply", "error", "faulted"}
    BY DEF OutcomeFor
  <2>3. WarmTypeOK'
    BY <1>13, <2>1, <2>2 DEF Answer, Finish, WarmTypeOK, Alive, Dead, sessionVars, trackerVars
  <2> QED
    BY <1>5, <1>13, <2>3 DEF Answer
<1>14. CASE UNCHANGED warmVars
  <2>1. WarmTypeOK'
    BY <1>14 DEF warmVars, WarmTypeOK, sessionVars, trackerVars, requestVars
  <2> QED
    BY <1>5, <1>14, <2>1 DEF warmVars, requestVars
<1> QED
  BY <1>1, <1>2, <1>3, <1>4, <1>6, <1>7, <1>8, <1>9, <1>10, <1>11, <1>12, <1>13, <1>14
  DEF WarmNext, TrackerStep, WaitStep

\* The invariant holds throughout, for any bounds.
THEOREM WarmInvariant == WarmSpec => []WarmIInv
BY WarmInitInv, WarmStepInv, PTL DEF WarmSpec

\* A wait ended by the close of the stream reports complete exactly when the
\* engine's last event was the end of its index.
THEOREM WarmClosedVerdict == WarmSpec => []ClosedVerdict
<1>1. WarmIInv => ClosedVerdict
  BY DEF WarmIInv
<1> QED
  BY <1>1, WarmInvariant, PTL
=============================================================================
