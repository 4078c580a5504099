------------------------------ MODULE LspClient ------------------------------
(***************************************************************************)
(* The client of ktsense-lsp/src/client.rs: callers that share one engine  *)
(* child through `&self`, the background reader of its stdout, and the     *)
(* owner that finally shuts it down or drops it.                           *)
(*                                                                         *)
(* A request registers its id in `pending`, takes the stdin mutex, writes  *)
(* one frame and waits on a oneshot, all of it under one timeout; the      *)
(* timeout drops the future wherever it is, also in the middle of a write, *)
(* after which the engine cannot make out another frame (`torn`).  The     *)
(* engine is external: it may answer in any order, late, not at all, write *)
(* a malformed frame, or exit.                                             *)
(***************************************************************************)
EXTENDS Naturals, Sequences, FiniteSets

CONSTANTS Caller,   \* tasks issuing requests through a shared client
          Closer,   \* the owner, as the task that runs shutdown's request
          MaxId,    \* bound: request ids handed out in one session
          MaxOut,   \* bound: engine frames not yet read
          None

Task == Caller \cup {Closer}
Id == 1 .. MaxId

ASSUME LspAssumption ==
  /\ Closer \notin Caller /\ None \notin Task /\ IsFiniteSet(Caller)
  /\ MaxId \in Nat /\ MaxOut \in Nat

VARIABLES
  at,       \* at[t]: how far task t's request is
  id,       \* id[t]: the id it was given
  last,     \* last[t]: how its latest request ended
  nextId, pending,
  slot,     \* slot[i]: the oneshot of request i
  fault,    \* the framing fault, once set
  reader,   \* the background task
  stdin, torn,
  writer,   \* the task inside write_message, holding the stdin mutex
  owner,    \* how far shutdown or drop is
  mutex,    \* who holds the child mutex, shared by the reader and the owner
  child,    \* the engine process: running, signalled to death, or gone
  inbox,    \* requests the engine has read and not answered
  stdout    \* frames the engine wrote and the reader has not decoded

callVars   == <<at, id, last>>
tableVars  == <<nextId, pending, slot>>
readerVars == <<fault, reader>>
pipeVars   == <<stdin, torn, writer>>
engineVars == <<child, inbox, stdout>>
ownerVars  == <<owner, mutex>>
lspVars    == <<callVars, tableVars, readerVars, pipeVars, ownerVars, engineVars>>

InFlight == {"registered", "writing", "waiting"}
Outcome  == {"result", "response", "timeout", "child exited", "framing", "io"}
Returned == {"exited", "killed", "failed"}   \* what shutdown can return
Frame    == [kind : {"result", "error"}, id : Id] \cup [kind : {"malformed"}]

LspTypeOK ==
  /\ at \in [Task -> InFlight \cup {"idle", "checked"}]
  /\ id \in [Task -> Id \cup {0}]
  /\ last \in [Task -> Outcome \cup {"none"}]
  /\ nextId \in 1 .. MaxId + 1
  /\ pending \subseteq Id
  /\ slot \in [Id -> {"empty", "result", "error", "closed"}]
  /\ fault \in BOOLEAN /\ torn \in BOOLEAN
  /\ reader \in {"reading", "killing", "locked", "failing", "gone"}
  /\ stdin \in {"open", "closed"}
  /\ writer \in Task \cup {None}
  /\ owner \in {"open", "asking", "closing", "waiting", "killing"} \cup Returned
                \cup {"dropped"}
  /\ mutex \in {"free", "reader", "owner"}
  /\ child \in {"running", "dying", "dead"}
  /\ inbox \subseteq Id
  /\ stdout \in Seq(Frame)

\* spawn: the child runs, the reader runs, nothing is in flight.
LspInit ==
  /\ at = [t \in Task |-> "idle"] /\ id = [t \in Task |-> 0]
  /\ last = [t \in Task |-> "none"]
  /\ nextId = 1 /\ pending = {} /\ slot = [i \in Id |-> "empty"]
  /\ fault = FALSE /\ reader = "reading"
  /\ stdin = "open" /\ torn = FALSE /\ writer = None
  /\ owner = "open" /\ mutex = "free" /\ child = "running" /\ inbox = {} /\ stdout = <<>>
-----------------------------------------------------------------------------
(* request_within *)

\* The tasks that have yet to be given an id.
Checked == {t \in Task : at[t] = "checked"}

\* Callers borrow the client, so none is under way once the owner shuts down.
MayBegin(t) ==
  /\ at[t] = "idle"
  /\ IF t = Closer THEN owner = "asking" /\ last[t] = "none" ELSE owner = "open"
  /\ nextId + Cardinality(Checked) <= IF t = Closer THEN MaxId ELSE MaxId - 1

End(t, outcome) ==
  /\ at' = [at EXCEPT ![t] = "idle"]
  /\ last' = [last EXCEPT ![t] = outcome]
  /\ UNCHANGED id

\* The fault is read once, before the request is registered.
Begin(t) ==
  /\ MayBegin(t)
  /\ IF fault THEN End(t, "framing")
              ELSE at' = [at EXCEPT ![t] = "checked"] /\ UNCHANGED <<id, last>>
  /\ UNCHANGED <<tableVars, readerVars, pipeVars, ownerVars, engineVars>>

\* Mutant: the id is read and advanced in two steps, so two tasks read one.
RegisterRacing(t) ==
  /\ at[t] = "checked"
  /\ id' = [id EXCEPT ![t] = nextId]
  /\ nextId' = IF \E u \in Task \ {t} : at[u] = "checked" THEN nextId ELSE nextId + 1
  /\ pending' = pending \cup {nextId}
  /\ at' = [at EXCEPT ![t] = "registered"]
  /\ UNCHANGED <<last, slot, readerVars, pipeVars, ownerVars, engineVars>>

Register(t) ==
  /\ at[t] = "checked"
  /\ id' = [id EXCEPT ![t] = nextId]
  /\ nextId' = nextId + 1
  /\ pending' = pending \cup {nextId}
  /\ at' = [at EXCEPT ![t] = "registered"]
  /\ UNCHANGED <<last, slot, readerVars, pipeVars, ownerVars, engineVars>>

\* write_message: the stdin mutex, then the handle, which teardown took away.
LockStdin(t) ==
  /\ at[t] = "registered"
  /\ writer = None
  /\ IF stdin = "closed"
     THEN End(t, "io") /\ UNCHANGED writer
     ELSE /\ writer' = t
          /\ at' = [at EXCEPT ![t] = "writing"]
          /\ UNCHANGED <<id, last>>
  /\ UNCHANGED <<tableVars, readerVars, stdin, torn, ownerVars, engineVars>>

\* The whole frame is written, or the pipe is broken.  An i/o error returns
\* through the `?`: the id stays registered.
Write(t) ==
  /\ at[t] = "writing"
  /\ writer' = None
  /\ IF child = "dead"
     THEN End(t, "io") /\ UNCHANGED inbox
     ELSE /\ at' = [at EXCEPT ![t] = "waiting"]
          /\ inbox' = IF torn THEN inbox ELSE inbox \cup {id[t]}
          /\ UNCHANGED <<id, last>>
  /\ UNCHANGED <<tableVars, readerVars, stdin, torn, ownerVars, child, stdout>>

OutcomeOf(answer) ==
  CASE answer = "result" -> "result"
    [] answer = "error"  -> "response"
    [] answer = "closed" -> "child exited"

Receive(t) ==
  /\ at[t] = "waiting"
  /\ slot[id[t]] # "empty"
  /\ End(t, OutcomeOf(slot[id[t]]))
  /\ UNCHANGED <<tableVars, readerVars, pipeVars, ownerVars, engineVars>>

\* Mutant: only the wait for the answer is under the timeout.
TimeOutAnswer(t) ==
  /\ at[t] = "waiting" /\ slot[id[t]] = "empty"
  /\ pending' = pending \ {id[t]}
  /\ End(t, "timeout")
  /\ UNCHANGED <<nextId, slot, readerVars, pipeVars, ownerVars, engineVars>>

\* The timeout drops the future and forgets the id.  Dropped in write_all, it
\* may leave part of a frame in the pipe.
TimeOut(t) ==
  /\ at[t] \in InFlight
  /\ at[t] = "waiting" => slot[id[t]] = "empty"
  /\ pending' = pending \ {id[t]}
  /\ End(t, "timeout")
  /\ IF writer = t THEN writer' = None /\ torn' \in {torn, TRUE}
                   ELSE UNCHANGED <<writer, torn>>
  /\ UNCHANGED <<nextId, slot, readerVars, stdin, ownerVars, engineVars>>
-----------------------------------------------------------------------------
(* Reader::run *)

\* One decoded frame.  An answer to an id nobody waits for is dropped.
Dispatch ==
  /\ reader = "reading" /\ stdout # <<>>
  /\ stdout' = Tail(stdout)
  /\ LET f == Head(stdout) IN
     IF f.kind = "malformed"
     THEN fault' = TRUE /\ reader' = "killing" /\ UNCHANGED <<pending, slot>>
     ELSE /\ pending' = pending \ {f.id}
          /\ slot' = IF f.id \in pending THEN [slot EXCEPT ![f.id] = f.kind] ELSE slot
          /\ UNCHANGED readerVars
  /\ UNCHANGED <<callVars, nextId, pipeVars, ownerVars, child, inbox>>

EndOfStream ==
  /\ reader = "reading" /\ stdout = <<>> /\ child = "dead"
  /\ reader' = "failing"
  /\ UNCHANGED <<callVars, tableVars, fault, pipeVars, ownerVars, engineVars>>

\* start_kill needs the child mutex, which shutdown holds while it reaps.
LockFaulted ==
  /\ reader = "killing" /\ mutex = "free"
  /\ mutex' = "reader"
  /\ reader' = "locked"
  /\ UNCHANGED <<callVars, tableVars, fault, pipeVars, owner, engineVars>>

\* A signal ends a running engine, though not at once.
Signalled == IF child = "running" THEN "dying" ELSE child

\* Mutant: the reader stops at a fault and leaves the engine running.
StopReadingOnly ==
  /\ reader = "locked"
  /\ mutex' = "free"
  /\ reader' = "failing"
  /\ UNCHANGED <<callVars, tableVars, fault, pipeVars, owner, engineVars>>

KillFaulted ==
  /\ reader = "locked"
  /\ child' = Signalled
  /\ mutex' = "free"
  /\ reader' = "failing"
  /\ UNCHANGED <<callVars, tableVars, fault, pipeVars, owner, inbox, stdout>>

\* Mutant: the table is emptied into a list that outlives the reader.
FailPendingKeepsSenders ==
  /\ reader = "failing"
  /\ pending' = {}
  /\ reader' = "gone"
  /\ UNCHANGED <<callVars, nextId, slot, fault, pipeVars, ownerVars, engineVars>>

FailPending ==
  /\ reader = "failing"
  /\ slot' = [i \in Id |-> IF i \in pending THEN "closed" ELSE slot[i]]
  /\ pending' = {}
  /\ reader' = "gone"
  /\ UNCHANGED <<callVars, nextId, fault, pipeVars, ownerVars, engineVars>>
-----------------------------------------------------------------------------
(* shutdown and drop; both need the client unshared *)

Unshared == \A t \in Caller : at[t] = "idle"

BeginShutdown ==
  /\ owner = "open" /\ Unshared
  /\ owner' = "asking"
  /\ UNCHANGED <<callVars, tableVars, readerVars, pipeVars, mutex, engineVars>>

\* Whatever the shutdown request came to, `exit` is sent or not and stdin closed.
CloseStdin ==
  /\ owner = "asking" /\ at[Closer] = "idle" /\ last[Closer] # "none"
  /\ stdin' = "closed"
  /\ owner' = "closing"
  /\ UNCHANGED <<callVars, tableVars, readerVars, torn, writer, mutex, engineVars>>

LockChild ==
  /\ owner = "closing" /\ mutex = "free"
  /\ mutex' = "owner"
  /\ owner' = "waiting"
  /\ UNCHANGED <<callVars, tableVars, readerVars, pipeVars, engineVars>>

\* shutdown returns, and lets go of the child.
Return(outcome) ==
  /\ owner' = outcome
  /\ mutex' = "free"
  /\ UNCHANGED <<callVars, tableVars, readerVars, pipeVars, engineVars>>

Exited == owner = "waiting" /\ child = "dead" /\ Return("exited")

\* The grace may also run out just as the child ends: start_kill, all the same.
GraceElapses ==
  /\ owner = "waiting"
  /\ child' = Signalled
  /\ owner' = "killing"
  /\ UNCHANGED <<callVars, tableVars, readerVars, pipeVars, mutex, inbox, stdout>>

\* Mutant: the signal is sent and not waited for.
KilledUnseen == owner = "killing" /\ Return("killed")

Killed == owner = "killing" /\ child = "dead" /\ Return("killed")

\* Either wait may fail, and the `?` leaves with the child as it is.  A shutdown
\* whose future is dropped leaves the same way.
WaitFails == owner \in {"waiting", "killing"} /\ Return("failed")

\* Mutant: a client that was shut down is not asked to kill again.
DropUntouched ==
  /\ owner \in {"open"} \cup Returned /\ Unshared
  /\ child' = IF owner = "open" /\ mutex = "free" THEN Signalled ELSE child
  /\ owner' = "dropped"
  /\ stdin' = "closed"
  /\ UNCHANGED <<callVars, tableVars, readerVars, torn, writer, mutex, inbox, stdout>>

\* drop cannot wait for the mutex: it kills only a child it finds unlocked.
DropClient ==
  /\ owner \in {"open"} \cup Returned /\ Unshared
  /\ child' = IF mutex = "free" THEN Signalled ELSE child
  /\ owner' = "dropped"
  /\ stdin' = "closed"
  /\ UNCHANGED <<callVars, tableVars, readerVars, torn, writer, mutex, inbox, stdout>>
-----------------------------------------------------------------------------
(* The engine process, external *)

Emit(f) == child = "running" /\ Len(stdout) < MaxOut /\ stdout' = Append(stdout, f)

EngineAnswers ==
  /\ \E i \in inbox, k \in {"result", "error"} :
       Emit([kind |-> k, id |-> i]) /\ inbox' = inbox \ {i}
  /\ UNCHANGED <<callVars, tableVars, readerVars, pipeVars, ownerVars, child>>

EngineGarbles ==
  /\ Emit([kind |-> "malformed"])
  /\ UNCHANGED <<callVars, tableVars, readerVars, pipeVars, ownerVars, child, inbox>>

EngineDies ==
  /\ child = "dying"
  /\ child' = "dead"
  /\ UNCHANGED <<callVars, tableVars, readerVars, pipeVars, ownerVars, inbox, stdout>>

EngineExits ==
  /\ child = "running"
  /\ child' = "dead"
  /\ UNCHANGED <<callVars, tableVars, readerVars, pipeVars, ownerVars, inbox, stdout>>
-----------------------------------------------------------------------------
TaskStep(t) == Register(t) \/ LockStdin(t) \/ Receive(t) \/ TimeOut(t)
ReaderStep == Dispatch \/ EndOfStream \/ LockFaulted \/ KillFaulted \/ FailPending
OwnerStep == Begin(Closer) \/ CloseStdin \/ LockChild \/ Exited \/ GraceElapses \/ Killed

LspNext ==
  \/ \E t \in Caller : Begin(t)
  \/ \E t \in Task : TaskStep(t) \/ Write(t)
  \/ ReaderStep
  \/ OwnerStep \/ BeginShutdown \/ WaitFails \/ DropClient
  \/ EngineAnswers \/ EngineGarbles \/ EngineExits \/ EngineDies

\* The runtime keeps polling every task and fires every timer.  The engine owes
\* nothing: not an answer, and not that it ever empties its stdin, so a write
\* may block until the timeout.  A killed process goes in time.
LspFairness ==
  /\ \A t \in Task : WF_lspVars(TaskStep(t))
  /\ WF_lspVars(ReaderStep) /\ WF_lspVars(OwnerStep) /\ WF_lspVars(EngineDies)

LspSpec == LspInit /\ [][LspNext]_lspVars /\ LspFairness
-----------------------------------------------------------------------------
\* No two requests in flight share an id, so no caller can be handed another's
\* answer or have its oneshot overwritten in the table.
NoCrossTalk ==
  \A t, u \in Task :
    at[t] \in InFlight /\ at[u] \in InFlight /\ id[t] = id[u] => t = u

\* A request whose entry is gone from the table has its answer, or the closed
\* channel, waiting for it: nobody sleeps out the timeout on an answer that was
\* dispatched, or on a stream whose end was already announced to it.
NoSilentWait ==
  \A t \in Task :
    at[t] \in InFlight /\ id[t] \notin pending => slot[id[t]] # "empty"

\* The strengthening that makes the two inductive: the ids handed out so far lie
\* below nextId, and the bound on ids leaves one for every task past its check.
IdsHandedOut ==
  \A t \in Task : at[t] \in InFlight => id[t] \in 1 .. nextId - 1
CheckedFit == nextId + Cardinality(Checked) <= MaxId + 1
LspIInv == LspTypeOK /\ CheckedFit /\ IdsHandedOut /\ NoCrossTalk /\ NoSilentWait

\* "So no caller can leak the process": a shutdown that returned Ok has seen the
\* child gone, and once the client is dropped, also after a shutdown that failed
\* half way, the engine does not run on, unless the reader held the mutex at that
\* moment and is about to kill it.
NoEngineLeaks ==
  /\ owner \in {"exited", "killed"} => child = "dead"
  /\ owner = "dropped" => child # "running" \/ mutex = "reader"

\* What makes it inductive: who holds the mutex is where the mutex is held.
MutexHeld ==
  /\ mutex \in {"free", "reader", "owner"}
  /\ mutex = "owner" <=> owner \in {"waiting", "killing"}
  /\ mutex = "reader" <=> reader = "locked"
TeardownInv == MutexHeld /\ NoEngineLeaks

\* Every request ends, whatever the engine does and whoever holds the pipe, and
\* a shutdown that begins returns.
CallsEnd ==
  /\ \A t \in Task : at[t] # "idle" ~> at[t] = "idle"
  /\ owner = "asking" ~> owner \in Returned

\* A malformed frame costs the engine its life: the reader kills it, also when
\* a shutdown holds the child at that moment.
FaultKills == fault ~> child = "dead"
=============================================================================
