------------------------------- MODULE Sources ------------------------------
(***************************************************************************)
(* The suite of the sources: finding and reading files, the scans of their *)
(* text, the closure of supertypes, and two small protocols a client and   *)
(* its daemon or engine rest on (framing, socket placement).  They share   *)
(* no state: `part` names one of them once and for all, a behaviour of the *)
(* suite is a behaviour of that one, and what the others use is empty.     *)
(* The first five have variables of their own, the others use slots.       *)
(***************************************************************************)
EXTENDS Integers, Sequences, FiniteSets, Slots, FrameDecoder

-----------------------------------------------------------------------------
(* The stream of an engine's frames: FrameDecoder's own variables.         *)

NoFrame == stream = Empty /\ buffer = Empty /\ bodies = Empty /\ fault = Empty /\ starving = Empty

-----------------------------------------------------------------------------
(* Trees of directories, and what may vanish from them during a walk.      *)

CONSTANTS MaxDepth, Depth, MaxLosses
VARIABLES tree, lost, pending, listed, found, outcome

Walk == INSTANCE SourceWalk

walkSlots == <<tree, lost, pending, listed, found, outcome>>
NoWalk ==
  tree = Empty /\ lost = Empty /\ pending = Empty /\ listed = Empty /\ found = Empty /\ outcome = Empty

-----------------------------------------------------------------------------
(* Files that are edited between requests and during them.                 *)

CONSTANTS File, Text, Broken, Fingerprint, MaxEdits
VARIABLES disk, entries, request, read, answer, parsed, edits

Cache == INSTANCE SkeletonCache

cacheSlots == <<entries, request, read, answer, parsed, edits>>
NoCache ==
  entries = Empty /\ request = Empty /\ read = Empty /\ answer = Empty /\ parsed = Empty /\ edits = Empty

-----------------------------------------------------------------------------
(* Two processes that look for a socket.                                   *)

CONSTANTS Commands, Canonical(_), ShortBase, MAX_SOCKET_PATH, COMPANION_RESERVE, KeyLength, SuffixLength
VARIABLES processes, base, sockets

Placement == INSTANCE SocketPlacement

placementSlots == <<processes, base, sockets>>
NoPlacement == processes = Empty /\ base = Empty /\ sockets = Empty

-----------------------------------------------------------------------------
(* Candidates at reported columns, in files that are edited meanwhile.     *)

CONSTANTS CorrectedFiles, Lines, Candidates, NameLength
VARIABLES candidates, at, sources, columns

Column == INSTANCE NameColumn WITH Files <- CorrectedFiles

columnSlots == <<candidates, at, sources, columns>>
NoColumn == candidates = Empty /\ at = Empty /\ sources = Empty /\ columns = Empty

-----------------------------------------------------------------------------
(* Scans of lines and of trees of files.                                   *)

CONSTANTS ScannedLines, ScannedNames, SearchedTrees, OwnerOf, SearchRequests

Scan == INSTANCE WordScan WITH
  line <- s1, symbol <- s2, from <- s3, found <- s4, pc <- s5,
  Lines <- ScannedLines, Symbols <- ScannedNames

Search == INSTANCE TextSearch WITH
  tree <- s1, ask <- s2, pending <- s3, hits <- s4, seen <- s5, dropped <- s6, pc <- s7, stated <- s8,
  Trees <- SearchedTrees, Owner <- OwnerOf, Requests <- SearchRequests

-----------------------------------------------------------------------------
(* Java texts, token streams, type headers and supertypes.                 *)

CONSTANTS JavaSources, JavaConstructs(_), MaxConstructs, TypeHeaders, HeaderMarks,
          TypeWorkspaces, TypeQueries, DepthCap

Lexer == INSTANCE JavaLexer WITH
  source <- s1, state <- s2, index <- s3, classified <- s4, Sources <- JavaSources

Java == INSTANCE JavaScanner WITH
  truth <- s1, scopesOf <- s2, declared <- s3, written <- s4, rest <- s5, line <- s6, unit <- s7,
  parens <- s8, namedStack <- s9, open <- s10, intervals <- s11, typeStack <- s12, scopes <- s13,
  declarations <- s14, Constructs <- JavaConstructs

Header == INSTANCE JavaHeader WITH
  header <- s1, index <- s2, inClause <- s3, angles <- s4, current <- s5, supertypes <- s6,
  Headers <- TypeHeaders, Marks <- HeaderMarks

Closure == INSTANCE SupertypeClosure WITH
  types <- s1, query <- s2, queue <- s3, expanded <- s4, result <- s5, pc <- s6,
  Workspaces <- TypeWorkspaces, Queries <- TypeQueries, DEPTH_CAP <- DepthCap

ASSUME SourcesAssumption ==
  /\ Walk!WalkAssumption /\ Cache!CacheAssumption /\ Column!NameAssumption /\ Java!ScannerAssumption
  /\ Scan!LineAssumption /\ Closure!ClosureAssumption /\ FrameAssumption /\ Placement!PlacementAssumption
-----------------------------------------------------------------------------
ownSlots == <<disk, frameVars, walkSlots, cacheSlots, placementSlots, columnSlots>>
sourcesVars == <<slots, ownSlots>>

NoOwn == disk = Empty /\ NoFrame /\ NoWalk /\ NoCache /\ NoPlacement /\ NoColumn

SourcesInit ==
  \/ part = "frame" /\ FrameInit /\ disk = Empty /\ NoWalk /\ NoCache /\ NoPlacement /\ NoColumn /\ EmptyFrom1
  \/ part = "walk" /\ Walk!WalkInit /\ disk = Empty /\ NoFrame /\ NoCache /\ NoPlacement /\ NoColumn /\ EmptyFrom1
  \/ part = "cache" /\ Cache!CacheInit /\ NoFrame /\ NoWalk /\ NoPlacement /\ NoColumn /\ EmptyFrom1
  \/ /\ part = "placement" /\ Placement!PlacementInit
     /\ disk = Empty /\ NoFrame /\ NoWalk /\ NoCache /\ NoColumn /\ EmptyFrom1
  \/ part = "column" /\ Column!ColumnInit /\ NoFrame /\ NoWalk /\ NoCache /\ NoPlacement /\ EmptyFrom1
  \/ /\ NoOwn
     /\ \/ part = "scan" /\ Scan!ScanInit /\ EmptyFrom6
        \/ part = "search" /\ Search!SearchInit /\ EmptyFrom9
        \/ part = "lexer" /\ Lexer!LexInit /\ EmptyFrom5
        \/ part = "java" /\ Java!ScannerInit
        \/ part = "header" /\ Header!HeaderInit /\ EmptyFrom7
        \/ part = "closure" /\ Closure!ClosureInit /\ EmptyFrom7

\* Where a component with variables of its own takes a step.
FrameStep ==
  part = "frame" /\ FrameNext /\ UNCHANGED <<slots, disk, walkSlots, cacheSlots, placementSlots, columnSlots>>
WalkStep ==
  part = "walk" /\ Walk!WalkNext /\ UNCHANGED <<slots, disk, frameVars, cacheSlots, placementSlots, columnSlots>>
CacheStep ==
  part = "cache" /\ Cache!CacheNext /\ UNCHANGED <<slots, frameVars, walkSlots, placementSlots, columnSlots>>
PlacementStep ==
  /\ part = "placement" /\ Placement!PlacementNext
  /\ UNCHANGED <<slots, disk, frameVars, walkSlots, cacheSlots, columnSlots>>
ColumnStep ==
  part = "column" /\ Column!ColumnNext /\ UNCHANGED <<slots, frameVars, walkSlots, cacheSlots, placementSlots>>

SourcesNext ==
  \/ FrameStep
  \/ WalkStep
  \/ CacheStep
  \/ PlacementStep
  \/ ColumnStep
  \/ part = "scan" /\ Scan!ScanNext /\ KeepFrom6 /\ UNCHANGED ownSlots
  \/ part = "search" /\ Search!SearchNext /\ KeepFrom9 /\ UNCHANGED ownSlots
  \/ part = "lexer" /\ Lexer!LexNext /\ KeepFrom5 /\ UNCHANGED ownSlots
  \/ part = "java" /\ Java!ScannerNext /\ KeepFrom15 /\ UNCHANGED ownSlots
  \/ part = "header" /\ Header!HeaderNext /\ KeepFrom7 /\ UNCHANGED ownSlots
  \/ part = "closure" /\ Closure!ClosureNext /\ KeepFrom7 /\ UNCHANGED ownSlots

SourcesSpec == SourcesInit /\ [][SourcesNext]_sourcesVars
-----------------------------------------------------------------------------
(* The components' properties *)

\* collect_kotlin_files and is_inside_ignored_dir draw one boundary, and no source is
\* in both walks.
EachSourceOnce == part = "walk" => Walk!EachSourceOnce

\* SkeletonCache: a cached answer is the parse of the text this request read.
CachedAnswerIsFresh == part = "cache" => Cache!CachedAnswerIsFresh

\* SkeletonCache::resolve: tree-sitter runs again only on another or a broken text.
ParsesAreReused == [][part = "cache" => Cache!ReusesParse]_sourcesVars

\* word_bounded_matches, grep, correct_columns: every whole-word occurrence at its
\* UTF-16 column, a panic only on names whose first letter is not ASCII, every site
\* counted once, a position the engine had right kept.
ScansFindWhatIsThere ==
  /\ part = "scan" => Scan!ColumnsAreOccurrences /\ Scan!PanicsPastAsciiOnly
  /\ part = "search" => Search!SitesAreCountedOnce /\ Search!GroupsListTheFirstHits
  /\ part = "column" => Column!ExactPositionsKept /\ Column!OneTextPerFile

\* Java sources: names are classified, lines enclosed, declarations and supertypes
\* found as the language has them, and subtypes listed within the depth cap.
JavaIsReadAright ==
  /\ part = "lexer" => Lexer!NamesClassified /\ Lexer!OneStatePerCharacter
  /\ part = "java" => Java!LineHasItsDeclaration /\ Java!DeclarationsFound
  /\ part = "header" => Header!ClausesOnly
  /\ part = "closure" => Closure!SubtypesAreListed /\ Closure!ShallowestParent

\* next_frame: bodies are frames of the stream, and how it is cut changes neither
\* bodies nor fault.
FramesSurviveCuts == part = "frame" => BodiesAreFrames /\ CutsDoNotMatter

\* socket_path: the commands of one root agree on a path, no two roots share one, and
\* the claim beside it can be bound.
OneSocketPerRoot == part = "placement" => Placement!OneSocketPerRoot
=============================================================================
