# ktsense in TLA+

A verification development for `ktsense`: TLA+ models of its protocols, commands
and algorithms, the TLC runs that check them on small instances, and TLAPS proofs
of the invariants of its concurrent core for every instance.

`ktsense` answers structural questions about a Kotlin workspace. One binary is a
CLI, a per-root daemon that keeps a language-server session warm, and an MCP
server. The engine, `kmp-lsp`, is a child process of whoever needs it.

## 1. Inventory

| Part | State it keeps | Operations | Correct when |
|---|---|---|---|
| Start claim (`cli/daemon.rs`) | a lock file beside the socket; an open, locked descriptor per start | `take_claim`, release on drop, death | one owner at a time; a release removes its own file; a dead owner blocks nobody |
| Daemon lifecycle (`cli/daemon.rs`, `daemon/server.rs`, `daemon/client.rs`) | the socket path; per start or stop its progress; per `serve` child its phase and its accept queue | `start`, `stop`, `serve`, `probe`, replacing a daemon of another protocol version, idle exit | concurrent starts settle on one daemon; its socket is the one the path names; commands end |
| LSP client (`lsp/client.rs`) | id counter, table of pending requests, stdin mutex, framing fault, child handle | `request`, `shutdown`, drop; the reader task | answers reach their callers; requests end; teardown reaps the child |
| Warm session (`daemon/engine.rs`, `lsp/progress.rs`, `cli/trace.rs`, `cli/routing.rs`) | index phase and closed flag of the tracker; the request being served | progress events, waiting for the index, answering, mapping errors | the reported completeness is the engine's; waits end; errors are what they say |
| MCP server (`mcp/server.rs`, `mcp/warm.rs`, `mcp/roots.rs`) | cached client roots, decided roots, held engines | tool call, roots change, warm-up | one engine per root, none left behind; calls get to their command; answers are about the right root |
| Routing and fallback (`cli/routing.rs`, `cli/main.rs`) | the connection being served, the background start | ask the daemon, else answer in process and start one | same verdict either way; every command ends |
| Resolution of a name (`cli/trace.rs`, `daemon/symbols.rs`) | the growing index, the candidates so far | wait, ask the index, `find` | never a subset taken for all; absence only when searched |
| Wire and framing (`daemon/wire.rs`, `lsp/framing.rs`) | byte buffers | push bytes, next frame | independent of how the stream is cut; no torn frame |
| Engine commands (`lsp/passthrough.rs`, `lsp/symbols.rs`) | a bounded child | `check`, `diagnose`, `find` | a failure is neither clean nor a finding; no child left |
| Status and version gate (`cli/status.rs`, `lsp/version.rs`, `lsp/lib.rs`) | two observations | probe the engine, look at the daemon, launch | what it says was observed; a launch does as foretold |
| Socket placement (`daemon/placement.rs`) | none | choose the path | one path per root, within the length budget |
| Skeleton cache (`cli/cache.rs`) | path to fingerprint and parse | outline, deps | a cached answer equals a fresh one |
| Workspace walks (`cli/main.rs`) | directories still to read | collect, judge a path | one boundary, every file once |
| Selection (`core/pick.rs`, `core/symbol_search.rs`, `cli/symbols.rs`) | none | `symbols`, `--pick`, hints | a hint typed back selects what it named |
| Trace, context, map (`core/trace.rs`, `references.rs`, `filter.rs`, `context.rs`, `budget.rs`, `repo_map.rs`) | the report and the budget left | build, deepen, spend | counts add up; maximal within the budget |
| Import graph (`core/imports.rs`, `scc.rs`, `rank.rs`) | Tarjan's stacks; ranks | `deps`, ranking | cycles are mutual reachability; rank is conserved |
| Text search (`cli/text_refs.rs`, `grep.rs`, `core/text_search.rs`, `annotated.rs`) | the scan's position and hits | scan, group, cap | each site once, whatever is skipped |
| Java reading (`core/java_text.rs`, `java_enclosing.rs`, `implementors.rs`) | lexical state, scope stacks, a queue | classify, walk, close | what the language says |
| MCP answers and calls (`mcp/citations.rs`, `mcp/server.rs`, `mcp/roots.rs`) | the scan of an answer; a call's arguments | index, build and read arguments, choose a root | citations are the text's; a call means what was asked |
| Rendering (`core/render.rs`) | none | layout | the counts it prints are part of the modules above |
| Kotlin extraction (`syntax/`), request shapes (`lsp/requests.rs`), the engine's test double | none | tree walk, JSON | not modelled |

How they meet: a routed command connects to the root's socket; the daemon serves
one connection at a time on one `LspClient`; the tracker task folds that
client's notifications into the phase the request polls; a command that found no
daemon answers by itself and spawns a background `start`; the MCP server runs
every command as a child process and holds an `LspClient` of its own per root
that no daemon keeps warm. An answer is built in three stages: files are found
and read (walks, cache, scans), a report is computed from them and from the
engine (trace, context, map, deps, symbols), and the MCP server indexes its text.

What is hard: processes that share only a directory (claim file, socket path)
and can die between any two system calls; `connect(2)` succeeding at a daemon
that will never accept; futures dropped by a timeout in the middle of a write;
a reader task racing callers and shutdown; notifications racing polls and tool
calls; streams cut at any byte; files edited or removed while they are read; an
engine that is short of answers, fuzzy, or in another unit of columns; budgets
and caps at their boundary. `PROJECT.json` lists each such place at its line.

## 2. Modules

`StartLease` <- `StartClaim` <- `DaemonLifecycle` is a chain: the lease is what
the claim protocol promises, the lifecycle EXTENDS the claim and adds starts,
stops and serve children. The other modules are components of their own. A core
module's instance is its `.cfg`; `MC*` modules hold the values of the larger ones.
`*Proofs` hold the theorems: `DaemonLifecycleProofs` (with the claim), `EngineProofs`
(`LspClient` and `WarmSession`) and `McpServerProofs` (with the citation index) for the
core, `CommandsProofs` and `SourcesProofs` for components of those suites,
`ReadingProofs` for two components of the sources suite on their own variables (the
frame decoder and the closure of supertypes), `DependencyGraphProofs` for the import
graph of the answers suite. `SharedLemmas` has the lemmas about numbers, sequences and
sums they share. An operator whose comment begins with "Mutant" is a plausible bug of
the action that follows it; no specification uses one. `PROJECT.json` pairs each property with a mutant that
breaks it; a suite's property has one for each part it conjoins.

### StartLease, StartClaim

The model is the file system as `take_claim` meets it: the claim path names at
most one inode (`linked`), an unlinked inode lives while it is open (`fd`), its
number is reused afterwards, and a lock (`locker`) belongs to an inode. Each
system call is one action: `OpenClaim`, `LockClaim` / `LockHeld` / `LockRefused`,
`ConfirmClaim` / `AbandonClaim` (the link-count check), `UnlinkClaim` and
`CloseClaim` (the two halves of the drop), and `KillClaimant`. A claim file left
by a crashed start is a possible initial state.

### DaemonLifecycle

`pc`, `result` follow the commands through the code; `sv` follows each serve
child through `serve`, `run`, `prepare_socket_path` and its teardown. `path` is
what the socket path names: a child's socket, nothing, or a socket nobody
listens on. `probe` is the operator `Live`; its "stale" includes a socket
between `bind` and `listen`. `queue` and `peer` are the kernel's accept queue
and the connection being served; `frame` is what the served client has sent. A
child keeps listening in `stopping` (its engine is being shut down) and, for a
moment, after its guard has removed the path (`unguarded`). `AnyClient` is
shared by `start` (`stop_if_mismatched`) and `stop`.

`StartersMayDie` and `DaemonsMayCrash` say which faults an instance admits. A
start's wait (`Await`) runs out only when its child has come up or is gone: the
child's way to its socket is bounded at 25 s (5 s for the version probe,
`lsp/version.rs:33`; 10 s each for `initialize` and `initialized`,
`lsp/client.rs:24`, `:169`, `:216`), the wait at 30 s (`daemon.rs:33`). What is left
for the spawn, the stat and the bind is assumed to fit into the other five.

Left out: ownership and mode checks of the directory, the test-only rendezvous
barrier, the resolution of the idle window, and requests inside a connection
(a request's fault is `FaultOut`). The kernel's backlog limit is not reached.

### LspClient

A request goes `checked` (fault read) -> `registered` (id allocated and in the
table) -> `writing` (stdin mutex held) -> `waiting` -> idle, with `last` how it
ended. `slot` is its oneshot. `TimeOut` may strike anywhere after registration
and, in the middle of a write, may leave part of a frame in the pipe (`torn`);
the engine cannot make out later frames then. The reader is `Dispatch`,
`EndOfStream`, `LockFaulted` and `KillFaulted` (the child mutex, then the signal) and
`FailPending`. `shutdown` is a request by `Closer`, then `CloseStdin`, `LockChild`,
and the wait under the mutex: `Exited`, or `GraceElapses` (the signal) and `Killed`;
`WaitFails` is the error exit of either wait, which leaves the child as it is.
`DropClient` follows, or ends an open client: it kills only a child whose mutex it
finds free. A signalled engine is `dying` until `EngineDies`. Shutdown and drop need
the client unshared: callers borrow it.
The engine is external: it answers in any order, late or never, garbles, exits.
`notify` and `initialize` add no table entry and are left out.

### WarmSession

One daemon request (served one at a time) beside the tracker and the engine's
progress stream. `ReadPhase`, `CheckClosed`, `Deadline` and `Sleep` are the loop
of `await_warm_index`, with its two separate reads of the phase; `Follow` and
`FollowEnds` are the tracker. `Resolve` abstracts what a name resolves to to its
three consequences. `OutcomeFor` is the mapping of errors: `outcome_for` for an
engine method, `CommandEngine::answer` for a routed command. `met` remembers
what the request met at the engine.

### McpServer

A tool call goes `listing` -> `storing` (the two halves of `learn_roots` around
its await) -> `dispatched` (`root_for`) -> `claiming` -> `probing` -> `opening`
-> `running` -> done; `Run` is the call's own command, a child process that is awaited
without a bound. `OnRootsListChanged` may run between any two. A root list
is abstracted to the root a call without a `root` of its own resolves to.
`quiet` is a history variable for `RootsAreCurrent`.

### Slots and the three suites

The components below share no state, so they are checked in three runs, each a
disjoint sum: `Commands`, `Sources` (their instances are in `MCCommands` and
`MCSources`) and `MCAnswers`. `part` names a component initially and never changes; a
behaviour of a suite is a behaviour of that component, and a suite's property is the
conjunction of its components' properties, each under its `part`. Every component
module also states its own specification, which the suite's restricted to that `part`
is. The components with theorems keep the names of their variables in the suite
(`MCAnswers` EXTENDS `DependencyGraph` and `AnswerIndex`, `Sources` EXTENDS `FrameDecoder`), so that the theorems are about the very
definitions the runs check; the others live in the variables `s1` to `s14` of `Slots`,
of which each takes the first.

### Commands and what they wait for (`Commands`)

- **CommandRouting** (`route`, `ask_daemon`, `answer_then_warm`, dispatch and exits of
  `main.rs`). A routed command has its socket placed first, and fails where there is no
  place for it (`placed` is an input; where it comes from is `SocketPlacement`). Clients connect, read the hello, ask, and fall back on any failure
  to talk; the daemon serves its queue, dies, starts, or speaks another version. A
  command's own result is an input (its verdict: outcome or error, exit, hint).
- **TraceResolution** (`warm_declarations`, `resolve_in_process`, `declarations_from_index`,
  `await_warm_index`). `IndexSome` and `StreamEnds` are the engine, `AwaitIndex`,
  `AskIndex`, `Find`, `FindFails` and `SelectCandidate` the command. A response at
  the cap is truncated; names are fuzzy, foreign or ignored.
- **DaemonWire** (`write_frame`, `read_frame`). A prefix of two digits stands for
  the four bytes; the ceiling, a hangup at any byte and a reader that sees any
  number of bytes at a time are there. A body byte is the frame it belongs to.
- **EngineCommand** (`capture`, the parsers of `check`, `diagnose` and `find`, the
  outcome the command line and the MCP server read). The child may hang; the bound
  may strike in the moment it ends.
- **EngineStatus** (discovery, `classify`, the launch gate, both observers). Engines
  are installed and daemons come and go between any two looks.

### What an answer says (`MCAnswers`)

- **TraceReport**: `enclosing` from start lines only, callers, `Deepen` per level,
  grouping and caps, `--path`/`--tests`, and every count the headings print.
- **ContextBundle**: units in priority order, `Emit` until the first that does not
  fit; matched lines with their gaps; the file may have shrunk between two reads.
- **RepoMap**: `BuildFocusSection`, the full pass, the second pass with a reserve.
- **DependencyGraph**: import resolution at both levels, `strongly_connected_components`
  with its explicit stack one `Look`/`Return` at a time, `page_rank` in exact integers.
- **SymbolSelection**: candidates to rows, `match_pick`, ambiguity and its hint, and
  an agent that repeats the question (the engine's order has changed) or follows the hint.
- **AnswerIndex**: the citation scan line by line and position by position, dedup and cap.
- **ToolArguments**: `root_for`, the argument list of every tool, the command line's
  reading of it token by token, and what exit and streams become.

### What is read (`Sources`)

- **SourceWalk**: `collect_source_files` step by step over a tree that loses nodes,
  the generated walk, and `is_inside_ignored_dir` as an operator on the same tree.
- **SkeletonCache**: `outline` and `deps` over files edited between any two reads.
- **WordScan**: byte offset, character and UTF-16 column of whole-word occurrences.
- **TextSearch**: `grep` and the sites of an undeclared name, file by file, and what the
  answer states as left out by the filter, in either format (`Stated`).
- **NameColumn**: `correct_columns` and `name_column_near`, one read per file.
- **JavaLexer**, **JavaScanner**, **JavaHeader**: lexical states; both brace walks over
  one token stream that the environment writes together with its meaning; supertype
  clauses. **SupertypeClosure**: breadth first by simple name, depth cap, cycles.
- **FrameDecoder**: `push`/`next_frame` against a reference read of the whole stream.
- **SocketPlacement**: the choice of directory at every length where it changes.

## 3. Runs

| Run | Instance | Shows |
|---|---|---|
| `start_claim` | 3 starts, 4 inodes | exclusion, own release, refinement of the lease; deadlock-free |
| `lifecycle_patient` | 3 starts, 1 stop, 2 child slots, 4 inodes; daemons may crash, starts are not killed; symmetry | one daemon at work, no orphaned socket, only mismatched daemons replaced |
| `lifecycle_faults` | 2 starts, 2 slots, 3 inodes; every fault | one attempt at a time, locks belong to running starts, every command ends |
| `lsp_client` | 2 callers and the owner, 3 ids, 2 unread frames | no crosstalk, no silent wait, requests and shutdown end, no engine runs on |
| `warm_session` | 4 events, 2 requests | the verdict at the stream's end, waits end with the session |
| `mcp_server` | 2 calls, 2 roots, 2 changes | one engine per root, none stray, calls get to their command |
| `commands` | five components, below | routing is invisible, resolution whole, frames whole, engines and daemons truthfully reported, waits end |
| `answers` | seven components, below | counts add up, budgets are kept and used, cycles and ranks are those of the imports, hints, citations and calls mean what they say; deadlock-free |
| `sources` | eleven components, below | walks, cache, scans, Java, framing and placement agree with their references |
| `warm_dead_session` | 2 events, 2 requests | **violation** of `ErrorMeansIntact` |
| `mcp_stale_roots` | 2 calls, 2 roots, 1 change | **violation** of `RootsAreCurrent` |
| `routing_unplaced` | the commands suite with one client | **violation** of `NoDaemonAnswersAlone` |

Why the bounds are enough. A third start is what sees both a release and its
successor; one inode more than starts leaves a fresh one while the others are
all open. Two child slots are the least that can collide, and slots are reused.
The third request id is the owner's; two callers collide over ids, the mutex and
the table. Four events hold a whole index cycle and the start of another. Two
changes put one before and one inside a call. In the runs without deadlock
checking the system may stop: every command has run, or a bound is used up.

The instances of the suites are chosen at boundaries, and are spelled out in `MCCommands`,
`MCSources` and, beside each `INSTANCE`, in `MCAnswers`:

- `route`: two clients (the least that queue), the commands `map`, `context` and
  `check` (cached, engine-backed, never routed), one death, one stopped client;
  `resolve`: a response cap of 3 over five entries, so that it can be met exactly;
  `wire`: base 2, ceiling 2, three frames up to one byte too long; `engine`: answers
  of up to two items in every form; `status`: protocols 10 and 11, two engines on the
  path, two changes.
- `trace`: five files, depth 3, limits 1 and none; `context`: caps 2 and 1, budgets
  from 0 past the whole bundle; `map`: four files, a reserve of a quarter, budgets on
  both sides of every unit; `graph`: every import relation of four files with up to
  two imports each, two rounds of PageRank; `symbols`: up to three declarations out of eleven and a `--contains` limit
  of 2; `index`: a cap of 2; `tool`: every tool with at most two options at a time.
- `walk`: every tree three names deep, one removal during the walk; `cache`: two files,
  three edits; `scan`: every line of four characters over five kinds; `search`: three
  files; `column`: two files and every column; `lexer`: every text of five lexical
  characters, and three pieces whose meaning the language gives; `java`: six
  constructs; `header`: every combination of clauses; `closure`: five types over four
  names, depth cap 3; `frame`: streams of five symbols, header ceiling 3; `placement`:
  the code's own 103 bytes, 8 reserved, keys of 16, suffix of 5.

Fairness. A process that has begun keeps running (`LifecycleFairness`), the
runtime polls every task and fires every timer (`LspFairness`), the tracker task
and the poll loop run (`WarmFairness`), the server's own steps run
(`McpFairness`). A process that was sent SIGKILL goes in time (`EngineDies`). Nothing
else is assumed of the engine, and nothing of the MCP client, of the daemon probe, of a
call's own command (`ExecutableRunner::run` has no timeout, so `Run` is not fair and
`CallsReachTheirCommand` ends there), of a blocked pipe write, of an idle window, or of
a user: none of them has to begin, answer, stop or die. `WF` is enough because each process is
one sequential program whose next step stays enabled, or whose timer does. In
`DaemonLifecycle` a start's wait ends because the socket answers, or by its timeout
with the child gone. A capped wait of `WarmSession`
gets no help from its deadline: `WaitsEndWithTheSession` is about the others too.
`WaitsEnd` of the commands suite assumes of each component no more: clients that
are not stopped and the daemon run on (`CommandRouting`); command steps run and a
live engine goes on indexing (`TraceResolution`; its stream need not end); the
reader is polled (`DaemonWire`); the runtime drives the command and its timer while
the child need never end (`EngineCommand`); both observers and the probe's timer
run, and a daemon that accepted serves or ends (`EngineStatus`).

### What the violations show

- **A dead session in service** (`warm_dead_session`). A routed command's error
  never stops the daemon, whatever the error; an engine that exited never does,
  on any route. The client reports the error and does not fall back, although
  `routing.rs:452-454` says it does.
- **Stale roots** (`mcp_stale_roots`). The cache is filled with an answer older
  than the change that emptied it.
- **A root without a socket** (`routing_unplaced`). `route` places the socket before it
  looks at anything else, so where no path fits, or the short base is unsafe, `outline`,
  `deps`, `map`, `trace` and `context` fail, also under `KTSENSE_NO_DAEMON=1`.
  "A routing problem degrades to a slower answer rather than no answer"
  (`routing.rs:13-14`); `placement.rs:45` has it the other way.

A remark besides: `daemon.rs:143-145` says that either of the two looks at the
socket alone would do. The mutant `LookAway`, which drops the second, makes
`SettlesOnOneDaemon` fail: a start that probed before the winner's daemon came
up is granted the claim the winner then released.

### Other disagreements between code and comments

Each was met while modelling, is kept as the code has it, and is the reason why a
property excuses a case or an instance leaves an input out.

Lifecycle, client and server:

- `cli/daemon.rs:98`: a daemon that has left its serve loop accepts connections until
  its engine is down, and `start` takes every failure to talk to it for "already
  running"; `:5-6` promises "a daemon that is actually reachable".
- `lsp/client.rs:188`: a failed write leaves its id in the table of "in-flight request
  ids" (`:3`). Bounded by the session and harmless to the checked properties.
- `mcp/server.rs:402`: `root_for` reads the cache under a second lock acquisition, so a
  change handled in between sends the call to the server's own root, although the
  answer is to be "in hand before any tool body reads it" (`:406-408`).

Routing and resolution:

- `cli/routing.rs:490`: an invalid `--match` pattern exits 1 through a daemon and 2 in
  process; `:259` says it "fails identically on each". `RoutedAnswerIsTheAnswer`
  excuses a usage error that became a failure.
- `daemon/server.rs:204`: a client stopped after connecting keeps every later command
  waiting for a hello; `routing.rs:14` promises "a slower answer rather than no
  answer". `Concluded` excuses a stopped client.
- `cli/trace.rs:177`: an index short of complete counts as no candidates, so an empty
  cold `find` alone can report absence, against `:22`. `AbsenceIsExcused` names when.
- `core/pick.rs:39`: an exact name shared by overloads selects the first; `:18` says
  "exactly one candidate matched". `SymbolSelection`'s hints are about names.
- `lsp/symbols.rs:158`: an engine killed by a signal with both streams empty reads as
  "no match", which `:156` excludes. Outputs of `find` leave that death out.
- `lsp/symbols.rs:56`: the LSP position subtracts one from a character column, not a
  UTF-16 one (`:220`). `NameColumn` keeps positions in the unit they came in.
- `lsp/framing.rs:59`: a header block exactly at the ceiling is refused when a read
  stops inside its terminator; `:23` calls the fault one that reading more cannot
  mend. `CutsDoNotMatter` is about header blocks below it.
- `daemon/wire.rs:70`: an end of stream after one to three prefix bytes is `None`,
  "closed cleanly" in `:61`.
- `cli/daemon.rs:387`: without `XDG_RUNTIME_DIR` and `HOME` the socket directory is
  relative to the working directory; `placement.rs:91` wants processes to agree.
  Every process of the instance has a home.

Sources:

- `cli/main.rs:1329`: `build/generated/build/A.kt` is collected and then judged ignored,
  against `:1316`.
- `cli/text_refs.rs:327`: the scan resumes one byte on and panics after a first letter
  that is not ASCII; `:306` promises every occurrence. `PanicsPastAsciiOnly` says that nothing else does.
- `cli/text_refs.rs:352`, `:195`: when a filter leaves no Java site the Markdown has
  neither a Java heading nor the number left out, though "the headings state what it left
  out" (`:85`, `CHANGELOG.md:54`); JSON has the number. `SitesAreCountedOnce` makes that one
  exception (`Unspoken`) and no other.
- `core/text_search.rs:166`: a class with hits before and after a member heads two
  groups, against `:148`; `core/render.rs:706`: the count line is dropped for few hits
  although `--limit` hid some, against `:691`.
- `cli/implementors.rs:80`, `core/implementors.rs:92`: where engine and scan differ in
  the line, a class can list itself (`:66`); of two subtypes on one line the second is
  lost (`:62`). Types of the instance stand on lines of their own, and the lines agree.
- `core/java_text.rs:157`: an escaped delimiter ends a text block. `java_enclosing.rs:50`:
  of scopes that open on one line the outer wins, against `:44`; `:661`: a call whose
  argument is an anonymous class is reported as a method, against `:570`; `:535`: a
  field initialized with braces is not reported, against `:453`. The instances write
  each construct on a line of its own and leave these four out.

Answers:

- `core/render.rs:1096`: when a filter drops all test callers their heading, and with it
  their number, is not printed, against `CHANGELOG.md:54`.
- `core/context.rs:605`: units are measured without the newline the renderer adds, so the
  bound can lie below the text, against `:19`. Budgets are checked in the code's measure.
- `core/render.rs:410`: "No declaration name matched." is also printed when names matched
  and none fitted.
- `mcp/citations.rs:204`, `:219`, `:184`: the Kotlin text references of a Java definition
  are not cited (`:15`); of a path with a space only its end is (`:8`); a place stated
  twice beyond the cap counts twice (`:106`). The texts of the instance have none.
- `mcp/server.rs:651`, `:846`, `:509`, `mcp/roots.rs:62`: a `match` or a pattern that
  begins with a hyphen is a usage error or a flag; a warning on stderr replaces the
  listing with exit 1; an absolute path that leaves a root through `..` is answered
  about that root (`:54`).

## 4. Proofs

All theorems hold for every value of the constants that meets the assumptions they
name. The core modules' assumptions only keep model values apart and bounds natural
(`NoneAssumption`, `LspAssumption`, `WarmAssumption`, `McpAssumption`). A suite assumes
what its components need, each its own (`CommandsAssumption`, `SourcesAssumption`;
`DepAssumption` is a hypothesis of the graph's theorems), and TLC evaluates all of them
on the suite's instance.

### The core

- `DaemonLifecycleProofs`, the claim. `ClaimExclusive` is not inductive: it needs to know that
  the stages past `flock` own the lock of the inode they opened
  (`LockedStages`), that a lock's owner has that inode open (`LocksAreOpen`),
  and that a holder's inode is the linked one (`HolderIsLinked`). Two holders
  then opened one inode, which has one lock. `HolderIsLinked` survives another
  start's release because that start is a holder as well, hence the same one.
  `ReleaseIsOwn` follows from it, and `ClaimImplementsLease` maps the lease's
  owner to the start that holds the claim: a drop gives it up when it unlinks.
- `DaemonLifecycleProofs`, the lifecycle. Every lifecycle step is a claim step or leaves the
  claim alone (`LifecycleImplementsClaim`), so the claim's theorems carry over;
  with the type invariant (`LifecycleType`), an attempt runs under a held claim
  (`LifecycleAttemptHoldsClaim`) and hence alone (`LifecycleOneAttempt`).
  `LifecycleLockOwnersRun` needs `ClaimWhileRunning`; `LifecycleStopsOnlyMismatched`
  needs `StopsAreForOld`: a stop frame of a start is only ever on a connection to a
  daemon of the old version, because the version is read from that very connection.
  `PatientStartsSettle` and `PatientStartsOrphanNone` assume `Patient`: starts live to
  release their claim (daemons may still crash). A start that is killed frees the claim
  while its detached child is still on its way, and the next start's child can take that
  one's socket between `bind` and `listen` for stale. Their invariant `SettledIInv` says that the
  path leads to a bound child or to nobody (`PathLeadsToBound`), that a child not yet
  listening is awaited under the claim (`EarlyChildAwaited`), and that a start about
  to spawn is alone (`SpawnsAlone`).
- `EngineProofs`, the client. `LspIInv` adds to `NoCrossTalk` and `NoSilentWait` that ids
  in flight lie below `nextId`, and that the bound on ids leaves room for the
  tasks past their check (a fact of the model's bound, not of the code).
  `LspNoEngineLeaks` needs to know who holds the child mutex (`MutexHeld`): a drop that
  finds it locked is one that the reader got ahead of, and the reader locks it only to
  kill. An engine that shutdown saw gone, or that was signalled, does not run again.
- `EngineProofs`, the session. `ClosedVerdict` needs `PhaseCaughtUp` (an emptied stream
  has left its last event's phase behind), which needs `StreamTail` (what is
  unread ends in the latest event), and `ClosedIsFinal`.
- `McpServerProofs`. A call past its claim owns its root (`OwnersDecided`,
  `OneOwner`); an engine belongs to an owner (`McpNoStrayEngine`, `WarmthLater`).

### Components of the suites

- `CommandsProofs`. A theorem about a suite's property has one argument: a step of the
  suite is a step of the component or leaves its variables alone (`SuiteInit`, `SuiteStep`,
  here and in `SourcesProofs`), and the component keeps its inductive invariant.
  `RoutingInvisible` (no hypothesis): a command under way was parsed and one past
  dispatch has a socket placed and may use a daemon (`Parsed`, `PastDispatch`); the lemma behind it is that a
  verdict survives the wire, but for a usage error (`WireKeepsVerdict`).
  `ResolutionWhole` (`CapAssumption`: the cap is positive): a ready
  index is the source, and only a ready one is asked as complete (`IndexIsSource`); a
  command that went on to its second resolver had no answer from the first
  (`LeftBehind`); what is chosen from is every declaration, or nothing (`Choice`).
  `StatusTold` (`StatusAssumption`: the shape of an engine's answer): what was seen
  or launched is what that engine answers in time or too late (`EngineSeen`,
  `LaunchSeen`).
  `EngineReported` (`EngineContract`): what the commands take on trust of the engine,
  that it prints a report, or ends `diagnose` with 0, only when it ran to an answer.
  `WireNoTornFrame` (`WireAssumption`: a body's length fits the prefix): the frames
  taken on have places in one stream of bytes, and the bytes read and not delivered,
  on the wire and in the outbox are that stream's, past what was delivered (`Lies`);
  the length a reader waits for is the next frame's (`Announced`).
- `SourcesProofs`.
  `CacheIsFresh`, `CacheReusesParses` (`CacheAssumption`: finitely many files,
  fingerprints without collisions): every entry is the parse of some text, under that
  text's fingerprint (`EntriesAreParses`).
  `PlacementOneSocket` (`PlacementAssumption`: `HOME` is set, directories are
  absolute, the reserve has room for the claim's suffix): the work is in
  `Resolution`, by cases on the directory chosen and on its length.
  `WalkEachSourceOnce` (`WalkAssumption`: natural bounds): every directory that is
  still reachable was found, or some directory above it is pending or listed
  (`Ahead`), or one above it was skipped for its name (`Pruned`).
  `ColumnOneText` (no hypothesis): the text of a corrected candidate is the one kept
  for its file (`ColumnIInv`).
  `ScanFindsWords` (`LineAssumption`: a line is a sequence): the columns reported are
  those of the whole words that begin before the byte the search goes on from
  (`ScanIInv`). A character has at least one byte, so offsets increase along the line
  and the first match from a byte on passes no other (`OffsetsIncrease`); a column
  is one unit for each character before it and one more for each that takes two
  (`UnitsCount`), which is how a reader counts.
- `DependencyGraphProofs` (`DepAssumption`: a corpus is finite and has each path once).
  Tarjan's algorithm as `scc.rs` runs it, with a stack of calls instead of recursion, so
  that its correctness is an invariant and needs no induction.
  `DepIInv` says: nodes on the component stack are those entered and not closed, in
  the order of discovery; a low link is the discovery of a node on the stack that its
  node reaches (`Linked`); every node of the stack reaches an open call at or below it
  (`Anchored`), and an open call reaches everything above it on the stack (`Leading`);
  a link that was looked at leads to a node entered, and from a finished node to a
  finished one (`Explored`); the links looked at between an open call and the next one
  lead no lower on the stack than that call's low link (`Bounded`). When `Return` finds a low link equal to its node's
  discovery, the nodes above it reach it and it reaches them, and nothing above it has
  an edge to below it: they are a whole class.
  `ReportedCyclesAreTheImportCycles`, `ComponentStackHoldsOpenNodes` and
  `PackageGraphIsTheFileGraph` are the conjuncts of `GraphIsTheImports`
  (`DepGraphIsTheImports`).
  `RanksFollowTheImports` is PageRank. Its scores are integers over one denominator,
  `unit`, which a round multiplies by `Step`. `RankIInv` says: the end points of every
  edge are numbered, each once; scores are positive; they add up to `unit`; and after a
  round the order of two nodes is that of their importers. What a round hands out is a
  double sum, over the targets of each source's shares; exchanging it (`SumExchanges`)
  leaves for each source its degree times one share, since its degree counts its links
  (`DegreeCountsLinks`), and a share is exact because `DegreeLcm` is a common multiple
  of the degrees (`LcmIsMultiple`). Dangling nodes hand theirs to all (`RoundConserves`).
- `ReadingProofs`, the decoder, and `FramesAreUncut` of `SourcesProofs` (`FrameAssumption`: natural
  bounds). The reference reads a whole stream by a recursive function; the decoder sees it
  in pieces. `FrameIInv` says: what was decoded, and the reference on what is buffered
  and yet to come, are together the reference on the stream (`NothingIsLost`); a decoder
  that starves has no frame in its buffer (`StarvesForCause`); a fault it found is the
  stream's (`FaultIsFound`). The lemma behind it is that a header, a frame or a fault
  found in a prefix of a stream is the one the whole stream has.
- `ReadingProofs`, the closure: `ClosureIsBreadthFirst` (`ClosureAssumption`: a workspace
  is finite and has no two types on one line; of two subtypes on one line the code
  lists one, section 3). `ClosureIInv` says: the queue holds names of one level, then of
  the next (`LevelByLevel`); a listed type is at its own level and its name is
  expanded, waits, or is at the cap (`AtItsLevel`); levels are listed in order, each
  place once (`InOrderOnce`); the subtypes of an expanded name are listed (`Expanded`).
  Names are shared and graphs are cyclic, so a level is not what one expansion adds:
  `Frontier` shows by induction on the level that once nothing waits at depth d or less
  every name within d levels is expanded, whence a fresh child of a name at depth d is
  of level d + 1 and no less (`FreshIsNextLevel`). That the children are emitted in the
  order of their places, each once, is that ranks number a finite set (`RankEnumerates`).
- `McpServerProofs`, the index: `CitationsAreWhatIsStated` (`IndexAssumption`: a text is what
  the renderers write, `IsAnswer`; the shapes left out are in section 3). Its list of
  citations is right when each is the place of some spot and the places before that
  spot are those before it on the list (`Lists`), which says order, dedup and cap at once
  and grows with a spot that lies behind all the others (`ListGrows`). An item's file is
  the open group because the last line to open one is the file line right above it
  (`GroupIsLast`, `GroupIsTheFile`).
- `SharedLemmas`. The library's induction theorems take an operator, which these provers
  cannot instantiate. From the well-founded order of the numbers, induction is stated
  again over a set (`Induct`), and a recursive function, a CHOOSE, is shown to have a
  value (`RecursionTheorem`); the same over finite sets (`RemoveInduct`, `AddInduct`,
  `FoldExists`) gives the sums and products that the community modules' folds compute,
  over a set, a part of it (`SumRestricts`) and one element more (`SumAddsOne`).

Each inductive invariant was checked with TLC on its suite's or its core instance
before it was proved. No run states them: they only serve the theorems above them,
whose own properties the runs check.

### Only model-checked

- Liveness: `CommandsEnd`, `CallsEnd`, `FaultKills`, `WaitsEndWithTheSession`,
  `CallsReachTheirCommand`, `WaitsEnd`. Liveness under fairness is out of this prover's reach.
- What sorts, filters and flattened sequences compute for every input:
  `ScansFindWhatIsThere` (but for `ColumnOneText` and `ScanFindsWords`),
  `JavaIsReadAright` (but for `ClosureIsBreadthFirst`), `TraceAddsUp`,
  `BudgetsAreKept`, `SelectionReproduces`, `CallsAreUnderstood`.
  Each would need a theory of the operators it composes (`SortSeq`, `SelectSeq`,
  `FlattenSeq`, a parse against its printing) by induction over sequences, as
  `SharedLemmas` has one of sums.

## 5. Not modelled

- Kotlin extraction (`ktsense-syntax`): a walk over a tree-sitter tree whose grammar is
  third-party. What it yields is the skeleton other modules take as input.
- The layout of rendered text, its JSON mirrors and the skeleton types: text and plain
  data. The counts and omissions it states are in the modules of the reports.
- Request shapes (`lsp/requests.rs`), tool descriptions, argument declarations as text.
- The engine's test double, tests and benchmarks.
- Regular expressions, floating-point rounding in `page_rank`, collisions of socket keys
  and of cache fingerprints: taken from their libraries, exact, or excluded.
- `JavaScanner`: the members of a class declared inside a call's arguments, which neither
  walk sees.

## 6. Plan

Next: parts of the model-checked suite properties that do not compute over data, each
as a theorem of its component (`JavaScanner`'s stack of scopes against the true one, the
pick of `SymbolSelection`); a theory of sorted and flattened sequences for
`BudgetsAreKept` and `TextSearch`; the composition of `TraceResolution` with `WarmSession`'s tracker.
