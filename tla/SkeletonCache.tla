--------------------------- MODULE SkeletonCache ---------------------------
(***************************************************************************)
(* The parsed-skeleton cache of ktsense-cli/src/cache.rs, which a daemon   *)
(* keeps for its whole life, beside the files being edited under it.  The  *)
(* daemon answers one request at a time; an edit may fall between any two  *)
(* reads, also between the walk of a deps request and the read of a file   *)
(* it listed.                                                              *)
(***************************************************************************)
EXTENDS Naturals, Sequences, FiniteSets, SequencesExt

CONSTANTS File,         \* absolute paths
          Text,         \* file contents
          Broken,       \* contents from which nothing is recovered
          Fingerprint,  \* FNV-1a of each content
          MaxEdits      \* bound: edits of the workspace

Missing == "missing"

\* A workspace is finite, and no two contents in play share a 64-bit fingerprint.
CacheAssumption ==
  /\ IsFiniteSet(File) /\ Broken \subseteq Text /\ Missing \notin Text
  /\ Fingerprint \in [Text -> Nat]
  /\ \A s, t \in Text : Fingerprint[s] = Fingerprint[t] => s = t

VARIABLES disk,      \* the workspace
          entries,   \* SkeletonCache.entries
          request,   \* the request being served: its kind and the files still to do
          read,      \* what read_to_string returned for each file of the request
          answer,    \* per file, the skeleton the answer is rendered from
          parsed,    \* the last resolve ran tree-sitter
          edits
cacheVars == <<disk, entries, request, read, answer, parsed, edits>>

NoEntry == [fingerprint |-> 0, skeleton |-> Missing, valid |-> FALSE]
Idle == [kind |-> "idle", todo |-> <<>>]
Failure == [kind |-> "error"]
-----------------------------------------------------------------------------
\* parse_fresh: a skeleton, complete or partial, or the rejection of garbage.
ParseFresh(file, text) ==
  IF text \in Broken THEN Failure ELSE [kind |-> "skeleton", path |-> file, of |-> text]

Entry(text, skeleton) ==
  [fingerprint |-> Fingerprint[text], skeleton |-> skeleton, valid |-> TRUE]

Hit(file, text) ==
  entries[file].valid /\ entries[file].fingerprint = Fingerprint[text]

\* Mutant: the entry is looked up by path alone, the way an mtime check would.
ResolveStale(file, text) ==
  IF entries[file].valid THEN entries[file].skeleton ELSE ParseFresh(file, text)

\* resolve: the answer for one file that was just read.
Resolve(file, text) ==
  IF Hit(file, text) THEN entries[file].skeleton ELSE ParseFresh(file, text)

\* Mutant: the fresh parse is used and never stored.
StoredNever(file, text) == entries

\* Only a recovered skeleton replaces an entry.
Stored(file, text) ==
  IF Hit(file, text) \/ ParseFresh(file, text) = Failure
  THEN entries
  ELSE [entries EXCEPT ![file] = Entry(text, ParseFresh(file, text))]

Present == {f \in File : disk[f] # Missing}

CacheInit ==
  /\ disk \in [File -> Text \cup {Missing}]
  /\ entries = [f \in File |-> NoEntry]
  /\ request = Idle /\ read = [f \in File |-> Missing]
  /\ answer = [f \in File |-> Failure] /\ parsed = FALSE /\ edits = 0

Begin(kind, todo) ==
  /\ request = Idle
  /\ request' = [kind |-> kind, todo |-> todo]
  /\ read' = [f \in File |-> Missing] /\ answer' = [f \in File |-> Failure]
  /\ parsed' = FALSE
  /\ UNCHANGED <<disk, entries, edits>>

BeginOutline(f) == Begin("outline", <<f>>)

\* collect_kotlin_files runs for every deps request, in a fixed order.
BeginDeps == Begin("deps", SetToSeq(Present))

\* read_to_string and resolve of the next file; deps skips one that cannot be
\* read or parsed, outline fails with it.
ResolveNext ==
  /\ request.todo # <<>>
  /\ LET f == Head(request.todo)
         text == disk[f]
     IN  /\ read' = [read EXCEPT ![f] = text]
         /\ answer' = [answer EXCEPT ![f] = IF text = Missing THEN Failure ELSE Resolve(f, text)]
         /\ entries' = IF text = Missing THEN entries ELSE Stored(f, text)
         /\ parsed' = (text # Missing /\ ~Hit(f, text))
         /\ request' = [request EXCEPT !.todo = Tail(@)]
  /\ UNCHANGED <<disk, edits>>

Reply ==
  /\ request.kind # "idle" /\ request.todo = <<>>
  /\ request' = Idle
  /\ UNCHANGED <<disk, entries, read, answer, parsed, edits>>

Edit(f, t) ==
  /\ edits < MaxEdits /\ disk[f] # t
  /\ disk' = [disk EXCEPT ![f] = t] /\ edits' = edits + 1
  /\ UNCHANGED <<entries, request, read, answer, parsed>>

CacheNext ==
  \/ \E f \in File : BeginOutline(f) \/ \E t \in Text \cup {Missing} : Edit(f, t)
  \/ BeginDeps \/ ResolveNext \/ Reply

CacheSpec == CacheInit /\ [][CacheNext]_cacheVars
-----------------------------------------------------------------------------
\* "A cached answer must be byte-identical to the in-process one": whatever was
\* edited, added or removed before or during the request, every skeleton of the
\* answer is the parse of the text this request itself read.
CachedAnswerIsFresh ==
  \A f \in File :
    answer[f] = IF read[f] = Missing THEN Failure ELSE ParseFresh(f, read[f])

\* What a step that resolves a file may do to its entry.
ReusesParse ==
  \A f \in File :
    LET resolved == request.todo # <<>> /\ request' = [request EXCEPT !.todo = Tail(@)]
        recovered(e) == e.valid /\ e.skeleton = ParseFresh(f, disk[f])
    IN  resolved /\ f = Head(request.todo) /\ disk[f] \in Text \ Broken
          => recovered(entries'[f]) /\ (parsed' => ~recovered(entries[f]))

\* A parse is paid for once, by outline or by deps: tree-sitter only runs again
\* on a text that is broken or that is not the one last recovered for the file.
ParsesAreReused == [][ReusesParse]_cacheVars

\* What makes both inductive: every entry is the parse of some text, under that
\* text's fingerprint.
CacheTypeOK ==
  /\ disk \in [File -> Text \cup {Missing}] /\ read \in [File -> Text \cup {Missing}]
  /\ DOMAIN entries = File /\ DOMAIN answer = File
  /\ entries = [f \in File |-> entries[f]] /\ answer = [f \in File |-> answer[f]]
  /\ request.todo \in Seq(File) /\ request = [kind |-> request.kind, todo |-> request.todo]
EntriesAreParses ==
  \A f \in File : entries[f].valid =>
    \E text \in Text \ Broken : entries[f] = Entry(text, ParseFresh(f, text))
CacheIInv == CacheTypeOK /\ EntriesAreParses /\ CachedAnswerIsFresh
=============================================================================
