----------------------------- MODULE WarmSession -----------------------------
(***************************************************************************)
(* A daemon answering routed requests on its one warm session: the tracker *)
(* of the engine's index (IndexTracker, engine.rs), the wait for that index*)
(* (await_warm_index, trace.rs), and what becomes of a request whose engine*)
(* fails (CommandEngine, WarmEngine and the serve loop).                   *)
(*                                                                         *)
(* serve_loop serves one connection at a time, so there is one request; the*)
(* engine, its progress stream and the tracker run beside it.  The engine  *)
(* is external.  `outline`, `deps`, `map` and `status` never reach it.     *)
(***************************************************************************)
EXTENDS Naturals, Sequences

CONSTANTS MaxEvents,   \* bound: progress events of one engine
          MaxRequests  \* bound: requests one daemon serves

ASSUME WarmAssumption == MaxEvents \in Nat /\ MaxRequests \in Nat

VARIABLES
  session,    \* the warm client: intact, or faulted or exited for good
  stream,     \* progress events sent and not yet folded into the phase
  announced,  \* the engine's latest event; as many as `events`
  events,
  phase, closed,        \* the tracker
  pc, kind,             \* the request being served
  seen,                 \* the phase the waiter last read
  index, endedBy,       \* what it settled on, and which exit of the loop it took
  met,                  \* how the session met the request's engine calls
  outcome,              \* the HandlerOutcome of the latest request
  served, daemon

sessionVars == <<session, stream, announced, events>>
trackerVars == <<phase, closed>>
requestVars == <<pc, kind, seen, index, endedBy, met, outcome, served, daemon>>
warmVars    == <<sessionVars, trackerVars, requestVars>>

Phase == {"pending", "indexing", "ready"}
Event == {"begin", "report", "end"}
Kind  == {"capped", "unbounded", "engine method"}
Alive == {"none", "ok", "timeout", "response"}      \* the session is intact
Dead  == {"child exited", "framing", "io"}          \* it will never answer again

WarmTypeOK ==
  /\ session \in {"intact", "faulted", "exited"}
  /\ stream \in Seq(Event)
  /\ announced \in Event \cup {"none"} /\ events \in 0 .. MaxEvents
  /\ phase \in Phase /\ seen \in Phase /\ closed \in BOOLEAN
  /\ pc \in {"idle", "polling", "checking", "waiting", "resolving", "asking", "answering"}
  /\ kind \in Kind
  /\ index \in {"none", "complete", "partial"}
  /\ endedBy \in {"none", "ready", "closed", "deadline"}
  /\ met \in Alive \cup Dead
  /\ outcome \in {"none", "reply", "error", "faulted"}
  /\ served \in 0 .. MaxRequests
  /\ daemon \in {"serving", "stopping"}

\* warm_up succeeded: the session is initialized and the tracker follows it.
WarmInit ==
  /\ session = "intact" /\ stream = <<>> /\ announced = "none" /\ events = 0
  /\ phase = "pending" /\ closed = FALSE
  /\ pc = "idle" /\ kind = "capped" /\ seen = "pending"
  /\ index = "none" /\ endedBy = "none" /\ met = "none" /\ outcome = "none"
  /\ served = 0 /\ daemon = "serving"
-----------------------------------------------------------------------------
(* The engine, external: it may index again, die, or garble its stream *)

Announce(e) ==
  /\ session = "intact" /\ events < MaxEvents
  /\ events' = events + 1
  /\ announced' = e
  /\ stream' = Append(stream, e)
  /\ UNCHANGED <<session, trackerVars, requestVars>>

\* The reader of the client ends, and with it the stream's sender.
SessionDies ==
  /\ session = "intact"
  /\ session' \in {"faulted", "exited"}
  /\ UNCHANGED <<stream, announced, events, trackerVars, requestVars>>
-----------------------------------------------------------------------------
(* IndexTracker::follow *)

\* IndexPhase::advance
Advance(e) == IF e = "end" THEN "ready" ELSE "indexing"

Follow ==
  /\ stream # <<>>
  /\ phase' = Advance(Head(stream))
  /\ stream' = Tail(stream)
  /\ UNCHANGED <<session, announced, events, closed, requestVars>>

FollowEnds ==
  /\ session # "intact" /\ stream = <<>> /\ ~closed
  /\ closed' = TRUE
  /\ UNCHANGED <<sessionVars, phase, requestVars>>
-----------------------------------------------------------------------------
(* await_warm_index *)

Completeness(p) == IF p = "ready" THEN "complete" ELSE "partial"

Settle(verdict, exit) ==
  /\ index' = verdict
  /\ endedBy' = exit
  /\ pc' = "resolving"

Serve(k) ==
  /\ daemon = "serving" /\ pc = "idle" /\ served < MaxRequests
  /\ kind' = k
  /\ served' = served + 1
  /\ pc' = IF k = "engine method" THEN "asking" ELSE "polling"
  /\ index' = "none" /\ endedBy' = "none" /\ met' = "none"
  /\ UNCHANGED <<sessionVars, trackerVars, seen, outcome, daemon>>

ReadPhase ==
  /\ pc = "polling"
  /\ seen' = phase
  /\ IF phase = "ready" THEN Settle("complete", "ready")
                        ELSE pc' = "checking" /\ UNCHANGED <<index, endedBy>>
  /\ UNCHANGED <<sessionVars, trackerVars, kind, met, outcome, served, daemon>>

\* Mutant: the wait ends on the phase read before the stream was seen closed.
CheckClosedStale ==
  /\ pc = "checking"
  /\ IF closed THEN Settle(Completeness(seen), "closed")
               ELSE pc' = "waiting" /\ UNCHANGED <<index, endedBy>>
  /\ UNCHANGED <<sessionVars, trackerVars, kind, seen, met, outcome, served, daemon>>

\* Mutant: only the deadline ends a wait that has not seen Ready.
CheckClosedNever ==
  /\ pc = "checking"
  /\ pc' = "waiting"
  /\ UNCHANGED <<sessionVars, trackerVars, kind, seen, index, endedBy, met, outcome, served, daemon>>

\* The phase is read again: events may have been folded since ReadPhase, and a
\* closed tracker's phase is final.
CheckClosed ==
  /\ pc = "checking"
  /\ IF closed THEN Settle(Completeness(phase), "closed")
               ELSE pc' = "waiting" /\ UNCHANGED <<index, endedBy>>
  /\ UNCHANGED <<sessionVars, trackerVars, kind, seen, met, outcome, served, daemon>>

\* A capped wait may have run out; an unbounded one's day never does here.
Deadline ==
  /\ pc = "waiting" /\ kind = "capped"
  /\ Settle(Completeness(seen), "deadline")
  /\ UNCHANGED <<sessionVars, trackerVars, kind, seen, met, outcome, served, daemon>>

Sleep ==
  /\ pc = "waiting"
  /\ pc' = "polling"
  /\ UNCHANGED <<sessionVars, trackerVars, kind, seen, index, endedBy, met, outcome, served, daemon>>
-----------------------------------------------------------------------------
(* The request proper *)

Finish(o) ==
  /\ outcome' = o
  /\ pc' = "idle"
  /\ daemon' = IF o = "faulted" THEN "stopping" ELSE daemon

\* warm_declarations and select_candidate.  A complete index is asked; one that
\* is not, or a session that fails, sends the name to command-mode `find`, a
\* process of its own.  The name is then one declaration, or an ambiguous or
\* absent name (a reply), or a failed `find` or a `--pick` that matches nothing.
Resolve ==
  /\ pc = "resolving"
  /\ \/ pc' = "asking" /\ UNCHANGED <<outcome, daemon>>
     \/ \E o \in {"reply", "error"} : Finish(o)
  /\ UNCHANGED <<sessionVars, trackerVars, kind, seen, index, endedBy, met, served>>

\* What request_within meets first: the fault, or a pipe nobody reads.
Refusal == CASE session = "intact"  -> "none"
             [] session = "faulted" -> "framing"
             [] session = "exited"  -> "io"

\* A trace's error is an error reply whatever it was (CommandEngine::answer);
\* only a bare engine method tells a framing fault apart (outcome_for).
OutcomeFor(m) ==
  CASE m = "ok" -> "reply"
    [] m = "framing" /\ kind = "engine method" -> "faulted"
    [] OTHER -> "error"

Ask ==
  /\ pc = "asking"
  /\ IF Refusal = "none"
     THEN pc' = "answering" /\ UNCHANGED <<met, outcome, daemon>>
     ELSE met' = Refusal /\ Finish(OutcomeFor(Refusal))
  /\ UNCHANGED <<sessionVars, trackerVars, kind, seen, index, endedBy, served>>

\* One engine call ends.  A session that died meanwhile closed the channel,
\* which reads as an exit also when it was a malformed frame.  A trace that got
\* its answer may have more to ask.
Answer ==
  /\ pc = "answering"
  /\ \E m \in IF session = "intact" THEN {"ok", "timeout", "response"} ELSE {"child exited"} :
       /\ met' = m
       /\ \/ Finish(OutcomeFor(m))
          \/ m = "ok" /\ kind # "engine method" /\ pc' = "asking" /\ UNCHANGED <<outcome, daemon>>
  /\ UNCHANGED <<sessionVars, trackerVars, kind, seen, index, endedBy, served>>
-----------------------------------------------------------------------------
TrackerStep == Follow \/ FollowEnds
WaitStep    == ReadPhase \/ CheckClosed \/ Sleep

WarmNext ==
  \/ \E e \in Event : Announce(e)
  \/ SessionDies
  \/ TrackerStep
  \/ \E k \in Kind : Serve(k)
  \/ WaitStep \/ Deadline
  \/ Resolve \/ Ask \/ Answer

\* The tracker's task and the poll loop keep running; the deadline, the engine
\* and the clients owe nothing.
WarmFairness == WF_warmVars(TrackerStep) /\ WF_warmVars(WaitStep)

WarmSpec == WarmInit /\ [][WarmNext]_warmVars /\ WarmFairness
-----------------------------------------------------------------------------
\* "A stream that closes before `Ready` ends the wait at once with the phase
\* reached ... a `Ready` already observed is reported complete even if the
\* stream then closes": a wait ended by the close says complete exactly when
\* the engine's very last word was that its index is done, however the last
\* events, the close and the waiter's reads interleave.
ClosedVerdict ==
  endedBy = "closed" => (index = "complete" <=> announced = "end")

\* The strengthening: what is still in the stream ends in the latest event, an
\* emptied stream has left its phase behind, and closed means emptied for good.
StreamTail == stream # <<>> => stream[Len(stream)] = announced
PhaseCaughtUp ==
  stream = <<>> /\ announced # "none" => phase = Advance(announced)
NothingAnnounced == announced = "none" => phase = "pending" /\ stream = <<>>
ClosedIsFinal ==
  closed \/ endedBy = "closed" => session # "intact" /\ stream = <<>>
WarmIInv ==
  /\ WarmTypeOK /\ StreamTail /\ PhaseCaughtUp /\ NothingAnnounced /\ ClosedIsFinal
  /\ ClosedVerdict

\* "Cannot spin for the day-long cap": once the session is gone every wait for
\* its index ends, with no help from the deadline.
Waiting == pc \in {"polling", "checking", "waiting"}
WaitsEndWithTheSession == Waiting /\ session # "intact" ~> ~Waiting

\* "The request failed, but the warm session is intact and the daemon keeps
\* serving": an error reply is never the answer of a session that is gone.
ErrorMeansIntact == outcome = "error" /\ pc = "idle" => met \notin Dead
=============================================================================
