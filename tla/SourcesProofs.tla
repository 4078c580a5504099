----------------------------- MODULE SourcesProofs -----------------------------
(***************************************************************************)
(* Proofs about the components of the sources suite, each for every value  *)
(* of its constants: the skeleton cache, the placement of sockets, the     *)
(* walk of the sources, the correction of reported columns, the whole-word *)
(* scan of a line and the frames of an engine's stream.                    *)
(***************************************************************************)
EXTENDS Sources, ReadingProofs, FiniteSetTheorems, FunctionTheorems, SequenceTheorems, TLAPS

\* A behaviour of the suite is one of a single component: it begins as that
\* component does.
LEMMA SuiteInit ==
  SourcesInit => /\ part = "walk" => Walk!WalkInit
                 /\ part = "cache" => Cache!CacheInit
                 /\ part = "placement" => Placement!PlacementInit
                 /\ part = "column" => Column!ColumnInit
                 /\ part = "frame" => FrameInit
BY DEF SourcesInit

\* And each of its steps is a step of that component.
LEMMA SuiteNext ==
  SourcesNext => /\ part' = part
                 /\ part = "walk" => Walk!WalkNext
                 /\ part = "cache" => Cache!CacheNext
                 /\ part = "placement" => Placement!PlacementNext
                 /\ part = "column" => Column!ColumnNext
                 /\ part = "frame" => FrameNext
BY DEF SourcesNext, FrameStep, WalkStep, CacheStep, PlacementStep, ColumnStep, slots,
   KeepFrom5, KeepFrom6, KeepFrom7, KeepFrom8, KeepFrom9, KeepFrom10, KeepFrom11,
   KeepFrom12, KeepFrom13, KeepFrom14, KeepFrom15

\* A step of the suite that changes nothing leaves every component alone.
LEMMA SuiteStep ==
  [SourcesNext]_sourcesVars =>
    /\ part' = part
    /\ part = "walk" => [Walk!WalkNext]_(Walk!walkVars)
    /\ part = "cache" => [Cache!CacheNext]_(Cache!cacheVars)
    /\ part = "placement" => [Placement!PlacementNext]_(Placement!placementVars)
    /\ part = "column" => [Column!ColumnNext]_(Column!columnVars)
    /\ part = "frame" => [FrameNext]_frameVars
<1>1. UNCHANGED sourcesVars =>
        /\ part' = part
        /\ UNCHANGED Walk!walkVars /\ UNCHANGED Cache!cacheVars
        /\ UNCHANGED Placement!placementVars /\ UNCHANGED Column!columnVars
        /\ UNCHANGED frameVars
  BY DEF sourcesVars, slots, ownSlots, walkSlots, cacheSlots, placementSlots, columnSlots,
     Walk!walkVars, Cache!cacheVars, Placement!placementVars, Column!columnVars, frameVars
<1> QED
  BY <1>1, SuiteNext
-----------------------------------------------------------------------------
(* The skeleton cache *)

\* The order of a walk is a sequence of its files.
LEMMA WalkOrder ==
  ASSUME NEW S, IsFiniteSet(S)
  PROVE  Cache!SetToSeq(S) \in Seq(S)
<1>1. PICK n \in Nat : ExistsBijection(1 .. n, S)
  BY FS_NatBijection
<1>2. Cardinality(S) = n
  BY <1>1, FS_CountingElements
<1>3. Cache!Cardinality(S) = n
  BY <1>2 DEF Cache!Cardinality, Cardinality
<1>4. \E f \in [1 .. n -> S] : Cache!IsInjective(f)
  BY <1>1 DEF ExistsBijection, Bijection, Injection, IsInjective, Cache!IsInjective
<1>5. Cache!SetToSeq(S) \in [1 .. n -> S]
  BY <1>3, <1>4 DEF Cache!SetToSeq
<1> QED
  BY <1>5

\* What a parse tells of its text.
LEMMA ParseTells ==
  ASSUME NEW f, NEW s \in Text \ Broken
  PROVE  /\ Cache!ParseFresh(f, s) # Cache!Failure
         /\ \A t \in Text \ Broken : Cache!ParseFresh(f, s) = Cache!ParseFresh(f, t) => s = t
<1>1. Cache!ParseFresh(f, s) = [kind |-> "skeleton", path |-> f, of |-> s]
  BY DEF Cache!ParseFresh
<1>2. \A t \in Text \ Broken : Cache!ParseFresh(f, t) = [kind |-> "skeleton", path |-> f, of |-> t]
  BY DEF Cache!ParseFresh
<1>3. Cache!ParseFresh(f, s) # Cache!Failure
  <2>1. [kind |-> "skeleton", path |-> f, of |-> s].kind = "skeleton" /\ [kind |-> "error"].kind = "error"
    OBVIOUS
  <2> QED
    BY <1>1, <2>1 DEF Cache!Failure
<1>4. ASSUME NEW t \in Text \ Broken, Cache!ParseFresh(f, s) = Cache!ParseFresh(f, t) PROVE s = t
  BY <1>1, <1>2, <1>4
<1> QED
  BY <1>3, <1>4

\* An entry hit is the parse of the very text that was read: no other text has its
\* fingerprint.
LEMMA HitIsTheParse ==
  ASSUME Cache!CacheAssumption, Cache!EntriesAreParses, NEW f \in File, NEW text \in Text
  PROVE  /\ Cache!Hit(f, text) => text \notin Broken /\ entries[f] = Cache!Entry(text, Cache!ParseFresh(f, text))
         /\ Cache!Resolve(f, text) = Cache!ParseFresh(f, text)
         /\ text \notin Broken /\ entries[f].valid /\ entries[f].skeleton = Cache!ParseFresh(f, text)
              => Cache!Hit(f, text)
<1>1. ASSUME Cache!Hit(f, text)
      PROVE  text \notin Broken /\ entries[f] = Cache!Entry(text, Cache!ParseFresh(f, text))
  <2>1. PICK t \in Text \ Broken : entries[f] = Cache!Entry(t, Cache!ParseFresh(f, t))
    BY <1>1 DEF Cache!Hit, Cache!EntriesAreParses
  <2>2. Fingerprint[t] = Fingerprint[text]
    BY <1>1, <2>1 DEF Cache!Hit, Cache!Entry
  <2>3. t = text
    BY <2>2 DEF Cache!CacheAssumption
  <2> QED
    BY <2>1, <2>3
<1>2. Cache!Resolve(f, text) = Cache!ParseFresh(f, text)
  BY <1>1 DEF Cache!Resolve, Cache!Entry
<1>3. ASSUME text \notin Broken, entries[f].valid, entries[f].skeleton = Cache!ParseFresh(f, text)
      PROVE  Cache!Hit(f, text)
  <2>1. PICK t \in Text \ Broken : entries[f] = Cache!Entry(t, Cache!ParseFresh(f, t))
    BY <1>3 DEF Cache!EntriesAreParses
  <2>2. Cache!ParseFresh(f, t) = Cache!ParseFresh(f, text)
    BY <1>3, <2>1 DEF Cache!Entry
  <2>3. t = text
    BY <1>3, <2>2, ParseTells
  <2> QED
    BY <1>3, <2>1, <2>3 DEF Cache!Hit, Cache!Entry
<1> QED
  BY <1>1, <1>2, <1>3

\* The initial states satisfy the invariant.
LEMMA CacheInitInv == Cache!CacheInit => Cache!CacheIInv
<1> SUFFICES ASSUME Cache!CacheInit PROVE Cache!CacheIInv
  OBVIOUS
<1>1. Cache!CacheTypeOK
  BY DEF Cache!CacheInit, Cache!CacheTypeOK, Cache!Idle
<1>2. Cache!EntriesAreParses
  BY DEF Cache!CacheInit, Cache!EntriesAreParses, Cache!NoEntry
<1>3. Cache!CachedAnswerIsFresh
  BY DEF Cache!CacheInit, Cache!CachedAnswerIsFresh
<1> QED
  BY <1>1, <1>2, <1>3 DEF Cache!CacheIInv

\* What resolving the next file does: the answer is its parse, and a recovered text
\* has its entry.
LEMMA ResolveNextStep ==
  ASSUME Cache!CacheAssumption, Cache!CacheIInv, Cache!ResolveNext
  PROVE  \E f \in File :
           /\ f = Head(request.todo)
           /\ request' = [request EXCEPT !.todo = Tail(@)]
           /\ read' = [read EXCEPT ![f] = disk[f]]
           /\ answer' = [answer EXCEPT ![f] = IF disk[f] = Cache!Missing THEN Cache!Failure
                                             ELSE Cache!ParseFresh(f, disk[f])]
           /\ \/ entries' = entries /\ (disk[f] \in Text \ Broken => Cache!Hit(f, disk[f]))
              \/ /\ disk[f] \in Text \ Broken /\ ~Cache!Hit(f, disk[f])
                 /\ entries' = [entries EXCEPT ![f] = Cache!Entry(disk[f], Cache!ParseFresh(f, disk[f]))]
           /\ parsed' = (disk[f] # Cache!Missing /\ ~Cache!Hit(f, disk[f]))
           /\ UNCHANGED <<disk, edits>>
<1>1. PICK f : f = Head(request.todo)
  OBVIOUS
<1>2. /\ request.todo # <<>>
      /\ read' = [read EXCEPT ![f] = disk[f]]
      /\ answer' = [answer EXCEPT ![f] = IF disk[f] = Cache!Missing THEN Cache!Failure
                                        ELSE Cache!Resolve(f, disk[f])]
      /\ entries' = IF disk[f] = Cache!Missing THEN entries ELSE Cache!Stored(f, disk[f])
      /\ parsed' = (disk[f] # Cache!Missing /\ ~Cache!Hit(f, disk[f]))
      /\ request' = [request EXCEPT !.todo = Tail(@)]
      /\ UNCHANGED <<disk, edits>>
  BY <1>1 DEF Cache!ResolveNext
<1>3. f \in File
  BY <1>1, <1>2 DEF Cache!CacheIInv, Cache!CacheTypeOK
<1>4. disk[f] \in Text \cup {Cache!Missing}
  BY <1>3 DEF Cache!CacheIInv, Cache!CacheTypeOK
<1>5. CASE disk[f] = Cache!Missing
  <2>1. disk[f] \notin Text
    BY <1>5 DEF Cache!CacheAssumption
  <2> QED
    BY <1>1, <1>2, <1>3, <1>5, <2>1
<1>6. CASE disk[f] \in Text /\ disk[f] # Cache!Missing
  <2>1. Cache!Resolve(f, disk[f]) = Cache!ParseFresh(f, disk[f])
    BY <1>3, <1>6, HitIsTheParse DEF Cache!CacheIInv
  <2>2. disk[f] \in Broken => Cache!ParseFresh(f, disk[f]) = Cache!Failure
    BY DEF Cache!ParseFresh
  <2>3. disk[f] \notin Broken => Cache!ParseFresh(f, disk[f]) # Cache!Failure
    BY <1>6, ParseTells
  <2>4. entries' = Cache!Stored(f, disk[f])
    BY <1>2, <1>6
  <2>5. \/ entries' = entries /\ (disk[f] \in Text \ Broken => Cache!Hit(f, disk[f]))
        \/ /\ disk[f] \in Text \ Broken /\ ~Cache!Hit(f, disk[f])
           /\ entries' = [entries EXCEPT ![f] = Cache!Entry(disk[f], Cache!ParseFresh(f, disk[f]))]
    BY <1>6, <2>2, <2>3, <2>4 DEF Cache!Stored
  <2> QED
    BY <1>1, <1>2, <1>3, <2>1, <2>5
<1> QED
  BY <1>4, <1>5, <1>6 DEF Cache!CacheAssumption

\* Every step keeps the invariant.
LEMMA CacheStepInv ==
  ASSUME Cache!CacheAssumption
  PROVE  Cache!CacheIInv /\ [Cache!CacheNext]_(Cache!cacheVars) => Cache!CacheIInv'
<1> SUFFICES ASSUME Cache!CacheIInv, [Cache!CacheNext]_(Cache!cacheVars) PROVE Cache!CacheIInv'
  OBVIOUS
<1>0. Cache!CacheTypeOK /\ Cache!EntriesAreParses /\ Cache!CachedAnswerIsFresh
  BY DEF Cache!CacheIInv
<1>1. ASSUME UNCHANGED entries PROVE Cache!EntriesAreParses'
  BY <1>0, <1>1 DEF Cache!EntriesAreParses
<1>2. ASSUME UNCHANGED <<read, answer>> PROVE Cache!CachedAnswerIsFresh'
  BY <1>0, <1>2 DEF Cache!CachedAnswerIsFresh
<1>3. ASSUME NEW kind, NEW todo \in Seq(File), Cache!Begin(kind, todo) PROVE Cache!CacheIInv'
  <2>1. /\ request' = [kind |-> kind, todo |-> todo] /\ UNCHANGED <<disk, entries>>
        /\ read' = [f \in File |-> Cache!Missing] /\ answer' = [f \in File |-> Cache!Failure]
    BY <1>3 DEF Cache!Begin
  <2>2. Cache!CacheTypeOK'
    BY <1>0, <2>1 DEF Cache!CacheTypeOK
  <2>3. Cache!CachedAnswerIsFresh'
    BY <2>1 DEF Cache!CachedAnswerIsFresh
  <2> QED
    BY <1>1, <2>1, <2>2, <2>3 DEF Cache!CacheIInv
<1>4. ASSUME NEW f \in File, Cache!BeginOutline(f) PROVE Cache!CacheIInv'
  <2>1. <<f>> \in Seq(File)
    OBVIOUS
  <2> QED
    BY <1>3, <1>4, <2>1 DEF Cache!BeginOutline
<1>5. CASE Cache!BeginDeps
  <2>1. Cache!Present \in SUBSET File
    BY DEF Cache!Present
  <2>2. IsFiniteSet(File)
    BY DEF Cache!CacheAssumption, Cache!IsFiniteSet, IsFiniteSet
  <2>3. IsFiniteSet(Cache!Present)
    BY <2>1, <2>2, FS_Subset
  <2>4. Cache!SetToSeq(Cache!Present) \in Seq(File)
    BY <2>1, <2>3, WalkOrder, SeqMonotonic
  <2> QED
    BY <1>3, <1>5, <2>4 DEF Cache!BeginDeps
<1>6. CASE Cache!ResolveNext
  <2>1. PICK f \in File :
          /\ f = Head(request.todo)
          /\ request' = [request EXCEPT !.todo = Tail(@)]
          /\ read' = [read EXCEPT ![f] = disk[f]]
          /\ answer' = [answer EXCEPT ![f] = IF disk[f] = Cache!Missing THEN Cache!Failure
                                            ELSE Cache!ParseFresh(f, disk[f])]
          /\ \/ entries' = entries /\ (disk[f] \in Text \ Broken => Cache!Hit(f, disk[f]))
             \/ /\ disk[f] \in Text \ Broken /\ ~Cache!Hit(f, disk[f])
                /\ entries' = [entries EXCEPT ![f] = Cache!Entry(disk[f], Cache!ParseFresh(f, disk[f]))]
          /\ UNCHANGED disk
    BY <1>0, <1>6, ResolveNextStep
  <2>2. disk[f] \in Text \cup {Cache!Missing}
    BY <1>0 DEF Cache!CacheTypeOK
  <2>3. request'.todo \in Seq(File) /\ request' = [kind |-> request'.kind, todo |-> request'.todo]
    <3>1. request.todo # <<>>
      BY <1>6 DEF Cache!ResolveNext
    <3>2. Tail(request.todo) \in Seq(File)
      BY <1>0, <3>1 DEF Cache!CacheTypeOK
    <3>3. request' = [kind |-> request.kind, todo |-> Tail(request.todo)]
      BY <1>0, <2>1 DEF Cache!CacheTypeOK
    <3> QED
      BY <3>2, <3>3
  <2>4. /\ DOMAIN entries' = File /\ entries' = [g \in File |-> entries'[g]]
        /\ DOMAIN answer' = File /\ answer' = [g \in File |-> answer'[g]]
        /\ read' \in [File -> Text \cup {Cache!Missing}]
    BY <1>0, <2>1, <2>2 DEF Cache!CacheTypeOK
  <2>5. Cache!CacheTypeOK'
    BY <1>0, <2>1, <2>3, <2>4 DEF Cache!CacheTypeOK
  <2>6. Cache!EntriesAreParses'
    <3>1. CASE entries' = entries
      BY <1>1, <3>1
    <3>2. CASE /\ disk[f] \in Text \ Broken
               /\ entries' = [entries EXCEPT ![f] = Cache!Entry(disk[f], Cache!ParseFresh(f, disk[f]))]
      <4>1. ASSUME NEW g \in File, entries'[g].valid
            PROVE  \E text \in Text \ Broken : entries'[g] = Cache!Entry(text, Cache!ParseFresh(g, text))
        <5>1. CASE g = f
          BY <1>0, <3>2, <5>1 DEF Cache!CacheTypeOK
        <5>2. CASE g # f
          BY <1>0, <3>2, <4>1, <5>2 DEF Cache!CacheTypeOK, Cache!EntriesAreParses
        <5> QED
          BY <5>1, <5>2
      <4> QED
        BY <4>1 DEF Cache!EntriesAreParses
    <3> QED
      BY <2>1, <3>1, <3>2
  <2>7. Cache!CachedAnswerIsFresh'
    <3> SUFFICES ASSUME NEW g \in File
                 PROVE  answer'[g] = IF read'[g] = Cache!Missing THEN Cache!Failure
                                     ELSE Cache!ParseFresh(g, read'[g])
      BY DEF Cache!CachedAnswerIsFresh
    <3>1. CASE g = f
      BY <1>0, <2>1, <3>1 DEF Cache!CacheTypeOK
    <3>2. CASE g # f
      BY <1>0, <2>1, <3>2 DEF Cache!CacheTypeOK, Cache!CachedAnswerIsFresh
    <3> QED
      BY <3>1, <3>2
  <2> QED
    BY <2>5, <2>6, <2>7 DEF Cache!CacheIInv
<1>7. CASE Cache!Reply
  <2>1. request' = Cache!Idle /\ UNCHANGED <<disk, entries, read, answer>>
    BY <1>7 DEF Cache!Reply
  <2>2. Cache!CacheTypeOK'
    BY <1>0, <2>1 DEF Cache!CacheTypeOK, Cache!Idle
  <2> QED
    BY <1>1, <1>2, <2>1, <2>2 DEF Cache!CacheIInv
<1>8. ASSUME NEW f \in File, NEW t \in Text \cup {Cache!Missing}, Cache!Edit(f, t)
      PROVE  Cache!CacheIInv'
  <2>1. disk' = [disk EXCEPT ![f] = t] /\ UNCHANGED <<entries, request, read, answer>>
    BY <1>8 DEF Cache!Edit
  <2>2. Cache!CacheTypeOK'
    BY <1>0, <2>1 DEF Cache!CacheTypeOK
  <2> QED
    BY <1>1, <1>2, <2>1, <2>2 DEF Cache!CacheIInv
<1>9. CASE UNCHANGED Cache!cacheVars
  <2>1. UNCHANGED <<disk, entries, request, read, answer>>
    BY <1>9 DEF Cache!cacheVars
  <2>2. Cache!CacheTypeOK'
    BY <1>0, <2>1 DEF Cache!CacheTypeOK
  <2> QED
    BY <1>1, <1>2, <2>1, <2>2 DEF Cache!CacheIInv
<1> QED
  BY <1>4, <1>5, <1>6, <1>7, <1>8, <1>9 DEF Cache!CacheNext

\* A step that resolves a file leaves its parse in the cache, and parses again only a
\* text other than the one last recovered.
LEMMA CacheStepReuses ==
  ASSUME Cache!CacheAssumption
  PROVE  Cache!CacheIInv /\ Cache!CacheNext => Cache!ReusesParse
<1> SUFFICES ASSUME Cache!CacheIInv, Cache!CacheNext PROVE Cache!ReusesParse
  OBVIOUS
<1>0. Cache!CacheTypeOK /\ Cache!EntriesAreParses
  BY DEF Cache!CacheIInv
<1>1. CASE Cache!ResolveNext
  <2>1. PICK f \in File :
          /\ f = Head(request.todo)
          /\ \/ entries' = entries /\ (disk[f] \in Text \ Broken => Cache!Hit(f, disk[f]))
             \/ /\ disk[f] \in Text \ Broken /\ ~Cache!Hit(f, disk[f])
                /\ entries' = [entries EXCEPT ![f] = Cache!Entry(disk[f], Cache!ParseFresh(f, disk[f]))]
          /\ parsed' = (disk[f] # Cache!Missing /\ ~Cache!Hit(f, disk[f]))
    BY <1>1, ResolveNextStep
  <2>2. ASSUME disk[f] \in Text \ Broken
        PROVE  /\ entries'[f].valid /\ entries'[f].skeleton = Cache!ParseFresh(f, disk[f])
               /\ parsed' => ~(entries[f].valid /\ entries[f].skeleton = Cache!ParseFresh(f, disk[f]))
    <3>1. entries'[f] = Cache!Entry(disk[f], Cache!ParseFresh(f, disk[f]))
      <4>1. CASE entries' = entries /\ Cache!Hit(f, disk[f])
        BY <1>0, <2>2, <4>1, HitIsTheParse
      <4>2. CASE entries' = [entries EXCEPT ![f] = Cache!Entry(disk[f], Cache!ParseFresh(f, disk[f]))]
        BY <1>0, <4>2 DEF Cache!CacheTypeOK
      <4> QED
        BY <2>1, <2>2, <4>1, <4>2
    <3>2. entries'[f].valid /\ entries'[f].skeleton = Cache!ParseFresh(f, disk[f])
      BY <3>1 DEF Cache!Entry
    <3>3. entries[f].valid /\ entries[f].skeleton = Cache!ParseFresh(f, disk[f]) => Cache!Hit(f, disk[f])
      BY <1>0, <2>2, HitIsTheParse
    <3> QED
      BY <2>1, <3>2, <3>3
  <2> QED
    BY <2>1, <2>2 DEF Cache!ReusesParse
<1>2. ASSUME request.todo = <<>> PROVE Cache!ReusesParse
  BY <1>2 DEF Cache!ReusesParse
<1>3. ASSUME NEW f \in File, NEW t, Cache!Edit(f, t) PROVE Cache!ReusesParse
  <2>1. request' = request
    BY <1>3 DEF Cache!Edit
  <2>2. ASSUME request.todo # <<>> PROVE request' # [request EXCEPT !.todo = Tail(@)]
    <3>1. Len(Tail(request.todo)) # Len(request.todo)
      BY <1>0, <2>2 DEF Cache!CacheTypeOK
    <3>2. [request EXCEPT !.todo = Tail(@)].todo = Tail(request.todo)
      BY <1>0 DEF Cache!CacheTypeOK
    <3> QED
      BY <2>1, <3>1, <3>2
  <2> QED
    BY <2>2 DEF Cache!ReusesParse
<1>4. ASSUME NEW kind, NEW todo, Cache!Begin(kind, todo) PROVE Cache!ReusesParse
  BY <1>2, <1>4 DEF Cache!Begin, Cache!Idle
<1>5. CASE Cache!Reply
  BY <1>2, <1>5 DEF Cache!Reply
<1> QED
  BY <1>1, <1>3, <1>4, <1>5 DEF Cache!CacheNext, Cache!BeginOutline, Cache!BeginDeps

\* For any files, texts and edits: every skeleton of an answer is the parse of the text
\* the request itself read, although most come from the cache.
THEOREM CacheIsFresh == SourcesSpec => []CachedAnswerIsFresh
<1>1. SourcesSpec => SourcesInit /\ [][SourcesNext]_sourcesVars
  BY PTL DEF SourcesSpec
<1> DEFINE IInv == part = "cache" => Cache!CacheIInv
<1>2. SourcesInit => IInv
  BY SuiteInit, CacheInitInv
<1>3. IInv /\ [SourcesNext]_sourcesVars => IInv'
  BY SuiteStep, CacheStepInv, SourcesAssumption
<1>4. IInv => CachedAnswerIsFresh
  BY DEF CachedAnswerIsFresh, Cache!CacheIInv
<1> QED
  BY <1>1, <1>2, <1>3, <1>4, PTL

\* For any files, texts and edits: tree-sitter runs again only on a text that is broken,
\* or is not the one last recovered for its file.
THEOREM CacheReusesParses == SourcesSpec => ParsesAreReused
<1>1. SourcesSpec => SourcesInit /\ [][SourcesNext]_sourcesVars
  BY PTL DEF SourcesSpec
<1> DEFINE IInv == part = "cache" => Cache!CacheIInv
<1>2. SourcesInit => IInv
  BY SuiteInit, CacheInitInv
<1>3. IInv /\ [SourcesNext]_sourcesVars => IInv'
  BY SuiteStep, CacheStepInv, SourcesAssumption
<1>4. IInv /\ [SourcesNext]_sourcesVars => [part = "cache" => Cache!ReusesParse]_sourcesVars
  BY SuiteNext, CacheStepReuses, SourcesAssumption
<1> QED
  BY <1>1, <1>2, <1>3, <1>4, PTL DEF ParsesAreReused
-----------------------------------------------------------------------------
(* The placement of sockets *)

\* Every command names two processes, and both have a home.
LEMMA PlacementProcesses ==
  ASSUME Placement!PlacementAssumption, NEW pair \in Commands
  PROVE  /\ Len(pair) = 2
         /\ \A i \in {1, 2} : /\ pair[i].runtime \in Placement!Directory \cup {Placement!Unset}
                              /\ pair[i].home \in Placement!Directory
<1>1. pair = <<pair[1], pair[2]>>
  BY DEF Placement!PlacementAssumption
<1>2. Len(pair) = 2
  BY <1>1
<1> QED
  BY <1>2 DEF Placement!PlacementAssumption

\* A directory is absolute, and so never the one that stands for none.
LEMMA DirectoryIsSet ==
  ASSUME NEW d \in Placement!Directory
  PROVE  d # Placement!Unset /\ d.absolute = TRUE /\ d.length \in Nat
<1>1. d.absolute \in {TRUE} /\ d.length \in Nat
  BY DEF Placement!Directory
<1>2. d.absolute = TRUE
  BY <1>1, Zenon
<1>3. Placement!Unset.absolute = FALSE
  BY DEF Placement!Unset
<1>4. d # Placement!Unset
  BY <1>2, <1>3, Zenon
<1> QED
  BY <1>1, <1>2, <1>4

\* A process that has a home prefers an absolute directory.
LEMMA SocketDirType ==
  ASSUME NEW p, p.runtime \in Placement!Directory \cup {Placement!Unset}, p.home \in Placement!Directory
  PROVE  Placement!SocketDir(p).in \in Placement!Directory /\ Placement!SocketDir(p).length \in Nat
<1>1. CASE p.runtime = Placement!Unset
  <2>1. Placement!SocketDir(p) = [in |-> p.home, length |-> p.home.length + 19]
    BY <1>1, DirectoryIsSet DEF Placement!SocketDir
  <2>2. p.home.length \in Nat
    BY DirectoryIsSet
  <2> QED
    BY <2>1, <2>2
<1>2. CASE p.runtime # Placement!Unset
  <2>1. Placement!SocketDir(p) = [in |-> p.runtime, length |-> p.runtime.length + 8]
    BY <1>2 DEF Placement!SocketDir
  <2>2. p.runtime \in Placement!Directory /\ p.runtime.length \in Nat
    BY <1>2, DirectoryIsSet
  <2> QED
    BY <2>1, <2>2
<1> QED
  BY <1>1, <1>2

\* The two paths a process can come to: its preferred one, and the short one by the key
\* of the directory it prefers.
LEMMA ResolutionCases ==
  ASSUME Placement!PlacementAssumption, NEW p
  PROVE  LET dir == Placement!SocketDir(p)
             root == Canonical(p.root)
             preferred == [in |-> dir.in, keys |-> <<root>>, length |-> dir.length + 1 + KeyLength + SuffixLength]
             fallback == [in |-> ShortBase, keys |-> <<dir.in, root>>,
                          length |-> (ShortBase.length + 1 + KeyLength) + 1 + KeyLength + SuffixLength]
             budget == MAX_SOCKET_PATH - COMPANION_RESERVE
         IN Placement!Resolution(p) =
              IF preferred.length <= budget THEN [kind |-> "placed", path |-> preferred]
              ELSE IF ~(fallback.length <= budget) THEN [kind |-> "no short path", path |-> preferred]
              ELSE [kind |-> IF Placement!AcceptShortBase THEN "placed" ELSE "unsafe base", path |-> fallback]
<1> DEFINE dir == Placement!SocketDir(p)
<1> DEFINE root == Canonical(p.root)
<1> DEFINE preferred == [in |-> dir.in, keys |-> <<root>>, length |-> dir.length + 1 + KeyLength + SuffixLength]
<1> DEFINE fallback == [in |-> ShortBase, keys |-> <<dir.in, root>>,
                        length |-> (ShortBase.length + 1 + KeyLength) + 1 + KeyLength + SuffixLength]
<1>1. Placement!Identity(p) = root
  BY DEF Placement!Identity
<1>2. Placement!SocketPath(dir, <<>>, root) = preferred
  BY DEF Placement!SocketPath
<1>3. Placement!Fallback(dir, root) = fallback
  BY DEF Placement!Fallback, Placement!SocketPath
<1> HIDE DEF preferred, fallback, dir, root
<1>4. Placement!Resolution(p) =
        CASE Placement!WithinBudget(preferred) -> [kind |-> "placed", path |-> preferred]
          [] ~Placement!WithinBudget(preferred) /\ ~Placement!WithinBudget(fallback) ->
               [kind |-> "no short path", path |-> preferred]
          [] OTHER -> [kind |-> IF Placement!AcceptShortBase THEN "placed" ELSE "unsafe base", path |-> fallback]
  BY <1>1, <1>2, <1>3 DEF Placement!Resolution, dir
<1>5. Placement!Resolution(p) =
        IF preferred.length <= MAX_SOCKET_PATH - COMPANION_RESERVE THEN [kind |-> "placed", path |-> preferred]
        ELSE IF ~(fallback.length <= MAX_SOCKET_PATH - COMPANION_RESERVE)
          THEN [kind |-> "no short path", path |-> preferred]
        ELSE [kind |-> IF Placement!AcceptShortBase THEN "placed" ELSE "unsafe base", path |-> fallback]
  BY <1>4 DEF Placement!WithinBudget
<1> QED
  BY <1>5 DEF preferred, fallback, dir, root

\* What a three-way resolution says of its kind and its path.
LEMMA ThreeWay ==
  ASSUME NEW A \in BOOLEAN, NEW B \in BOOLEAN, NEW safe \in BOOLEAN, NEW x, NEW y, NEW r,
         r = IF A THEN [kind |-> "placed", path |-> x]
             ELSE IF ~B THEN [kind |-> "no short path", path |-> x]
             ELSE [kind |-> IF safe THEN "placed" ELSE "unsafe base", path |-> y]
  PROVE  /\ r.kind = IF A \/ (B /\ safe) THEN "placed" ELSE IF ~B THEN "no short path" ELSE "unsafe base"
         /\ r.path = IF A \/ ~B THEN x ELSE y
<1> DEFINE placed == [kind |-> "placed", path |-> x]
<1> DEFINE none == [kind |-> "no short path", path |-> x]
<1> DEFINE other == [kind |-> IF safe THEN "placed" ELSE "unsafe base", path |-> y]
<1>0. r = IF A THEN placed ELSE IF ~B THEN none ELSE other
  OBVIOUS
<1>1. placed.kind = "placed" /\ placed.path = x /\ none.kind = "no short path" /\ none.path = x
  OBVIOUS
<1>2. other.kind = IF safe THEN "placed" ELSE "unsafe base"
  OBVIOUS
<1>3. other.path = y
  OBVIOUS
<1> HIDE DEF placed, none, other
<1> QED
  BY <1>0, <1>1, <1>2, <1>3, Zenon

\* A placed path is one of the two, absolute, and leaves room for its companions.
LEMMA PlacedCases ==
  ASSUME Placement!PlacementAssumption, NEW p,
         p.runtime \in Placement!Directory \cup {Placement!Unset}, p.home \in Placement!Directory,
         Placement!Resolution(p).kind = "placed"
  PROVE  LET dir == Placement!SocketDir(p)
             path == Placement!Resolution(p).path
         IN /\ \/ path.in = dir.in /\ path.keys = <<Canonical(p.root)>>
               \/ path.in = ShortBase /\ path.keys = <<dir.in, Canonical(p.root)>>
            /\ path.in.absolute = TRUE
            /\ path.length \in Int /\ path.length <= MAX_SOCKET_PATH - COMPANION_RESERVE
<1> DEFINE dir == Placement!SocketDir(p)
<1> DEFINE root == Canonical(p.root)
<1> DEFINE long == dir.length + 1 + KeyLength + SuffixLength
<1> DEFINE short == (ShortBase.length + 1 + KeyLength) + 1 + KeyLength + SuffixLength
<1> DEFINE preferred == [in |-> dir.in, keys |-> <<root>>, length |-> long]
<1> DEFINE fallback == [in |-> ShortBase, keys |-> <<dir.in, root>>, length |-> short]
<1> DEFINE budget == MAX_SOCKET_PATH - COMPANION_RESERVE
<1>1. dir.in.absolute = TRUE /\ ShortBase.absolute = TRUE /\ dir.length \in Nat /\ ShortBase.length \in Nat
  BY SocketDirType, DirectoryIsSet DEF Placement!PlacementAssumption
<1>2. long \in Int /\ short \in Int /\ budget \in Int
  BY <1>1 DEF Placement!PlacementAssumption
<1>3. Placement!Resolution(p) =
        IF long <= budget THEN [kind |-> "placed", path |-> preferred]
        ELSE IF ~(short <= budget) THEN [kind |-> "no short path", path |-> preferred]
        ELSE [kind |-> IF Placement!AcceptShortBase THEN "placed" ELSE "unsafe base", path |-> fallback]
  BY ResolutionCases
<1> HIDE DEF dir, root, long, short, budget
<1> HIDE DEF preferred, fallback
<1>4. \/ long <= budget /\ Placement!Resolution(p).path = preferred
      \/ short <= budget /\ Placement!Resolution(p).path = fallback
  BY <1>3, ThreeWay
<1>5. CASE long <= budget /\ Placement!Resolution(p).path = preferred
  BY <1>1, <1>2, <1>5 DEF dir, root, budget, preferred
<1>6. CASE short <= budget /\ Placement!Resolution(p).path = fallback
  BY <1>1, <1>2, <1>6 DEF dir, root, budget, fallback
<1> QED
  BY <1>4, <1>5, <1>6

\* Whether a path is placed depends on the environment and the base alone.
LEMMA SameDirSameKind ==
  ASSUME Placement!PlacementAssumption, NEW p, NEW q, Placement!SocketDir(p) = Placement!SocketDir(q)
  PROVE  /\ Placement!Resolution(p).kind = Placement!Resolution(q).kind
         /\ Canonical(p.root) = Canonical(q.root) => Placement!Resolution(p) = Placement!Resolution(q)
<1> DEFINE long == Placement!SocketDir(p).length + 1 + KeyLength + SuffixLength
<1> DEFINE short == (ShortBase.length + 1 + KeyLength) + 1 + KeyLength + SuffixLength
<1> DEFINE budget == MAX_SOCKET_PATH - COMPANION_RESERVE
<1> DEFINE kind == IF long <= budget \/ (short <= budget /\ Placement!AcceptShortBase) THEN "placed"
                   ELSE IF ~(short <= budget) THEN "no short path" ELSE "unsafe base"
<1> DEFINE Way(r, x, y) == r = IF long <= budget THEN [kind |-> "placed", path |-> x]
                              ELSE IF ~(short <= budget) THEN [kind |-> "no short path", path |-> x]
                              ELSE [kind |-> IF Placement!AcceptShortBase THEN "placed" ELSE "unsafe base",
                                    path |-> y]
<1>0. \A z \in {p, q} : \E x, y : Way(Placement!Resolution(z), x, y)
  BY ResolutionCases
<1>1. ASSUME NEW r, NEW x, NEW y, Way(r, x, y) PROVE r.kind = kind
  <2> HIDE DEF long, short, budget
  <2> QED
    BY <1>1, ThreeWay
<1> HIDE DEF Way, kind
<1>2. Placement!Resolution(p).kind = Placement!Resolution(q).kind
  BY <1>0, <1>1, Zenon
<1>3. ASSUME Canonical(p.root) = Canonical(q.root)
      PROVE  Placement!Resolution(p) = Placement!Resolution(q)
  BY <1>3 DEF Placement!Resolution, Placement!Identity
<1> QED
  BY <1>2, <1>3

\* The second socket follows the first.
LEMMA AppendPair ==
  ASSUME NEW a, NEW b
  PROVE  Append(<<a>>, b) = <<a, b>>
<1>1. <<a>> \in Seq({a, b}) /\ Len(<<a>>) = 1 /\ <<a>>[1] = a
  OBVIOUS
<1>2. <<a, b>> \in Seq({a, b}) /\ Len(<<a, b>>) = 2 /\ <<a, b>>[1] = a /\ <<a, b>>[2] = b
  OBVIOUS
<1>3. ASSUME NEW one \in Seq({a, b}), Len(one) = 1, one[1] = a
      PROVE  /\ Append(one, b) \in Seq({a, b}) /\ Len(Append(one, b)) = 2
             /\ Append(one, b)[1] = a /\ Append(one, b)[2] = b
  <2>1. /\ Append(one, b) \in Seq({a, b}) /\ Len(Append(one, b)) = Len(one) + 1
        /\ \A i \in 1..Len(one) : Append(one, b)[i] = one[i]
        /\ Append(one, b)[Len(one) + 1] = b
    BY AppendProperties
  <2> QED
    BY <1>3, <2>1
<1> QED
  <2>1. /\ Append(<<a>>, b) \in Seq({a, b}) /\ Len(Append(<<a>>, b)) = 2
        /\ Append(<<a>>, b)[1] = a /\ Append(<<a>>, b)[2] = b
    BY <1>1, <1>3, Zenon
  <2>2. ASSUME NEW s \in Seq({a, b}), NEW t \in Seq({a, b}), Len(s) = 2, Len(t) = 2, s[1] = t[1], s[2] = t[2]
        PROVE  s = t
    BY <2>2, SeqEqual
  <2> QED
    BY <1>2, <2>1, <2>2, Zenon

\* Before either process has asked, no socket is placed.
LEMMA PlacementInitInv ==
  ASSUME Placement!PlacementAssumption
  PROVE  Placement!PlacementInit => Placement!PlacementIInv
BY DEF Placement!PlacementInit, Placement!PlacementIInv

\* Each process places the socket its own environment resolves to, in turn.
LEMMA PlacementStepInv ==
  ASSUME Placement!PlacementAssumption
  PROVE  Placement!PlacementIInv /\ [Placement!PlacementNext]_(Placement!placementVars)
           => Placement!PlacementIInv'
<1> SUFFICES ASSUME Placement!PlacementIInv, [Placement!PlacementNext]_(Placement!placementVars)
             PROVE  Placement!PlacementIInv'
  OBVIOUS
<1> DEFINE first == Placement!Resolution(processes[1])
<1> DEFINE second == Placement!Resolution(processes[2])
<1>0. processes \in Commands /\ sockets \in {<<>>, <<first>>, <<first, second>>} /\ Len(processes) = 2
  BY PlacementProcesses DEF Placement!PlacementIInv
<1>1. processes' = processes /\ (base' = base \/ (base = "absent" /\ base' = "own"))
  BY DEF Placement!PlacementNext, Placement!Resolve, Placement!MakeBase, Placement!Placed,
         Placement!placementVars
<1>2. Placement!AcceptShortBase' = Placement!AcceptShortBase
  BY <1>1 DEF Placement!AcceptShortBase
<1>3. first' = first /\ second' = second
  BY <1>1, <1>2 DEF Placement!Resolution
<1>4. CASE Placement!Resolve
  <2>1. sockets' = Append(sockets, Placement!Resolution(processes[Len(sockets) + 1])) /\ Len(sockets) < 2
    BY <1>0, <1>4 DEF Placement!Resolve
  <2> HIDE DEF first, second
  <2>2. CASE sockets = <<>>
    <3>1. sockets' = <<first>>
      BY <2>1, <2>2 DEF first
    <3> QED
      BY <1>0, <1>1, <1>3, <3>1 DEF Placement!PlacementIInv, first, second
  <2>3. CASE sockets = <<first>>
    <3>1. Len(sockets) + 1 = 2
      BY <2>3
    <3>2. Placement!Resolution(processes[Len(sockets) + 1]) = second
      BY <3>1 DEF second
    <3>3. sockets' = Append(<<first>>, second)
      BY <2>1, <2>3, <3>2
    <3>4. sockets' = <<first, second>>
      BY <3>3, AppendPair
    <3> QED
      BY <1>0, <1>1, <1>3, <3>4 DEF Placement!PlacementIInv, first, second
  <2>4. sockets # <<first, second>>
    BY <2>1
  <2> QED
    BY <1>0, <2>2, <2>3, <2>4
<1>5. CASE sockets' = sockets
  BY <1>0, <1>1, <1>3, <1>5 DEF Placement!PlacementIInv
<1> QED
  BY <1>4, <1>5 DEF Placement!PlacementNext, Placement!MakeBase, Placement!Placed, Placement!placementVars

\* Two resolutions that agree on the root and on a base agree on the socket, and two that
\* do not agree on the root never share one.
LEMMA PlacementSafe ==
  ASSUME Placement!PlacementAssumption
  PROVE  Placement!PlacementIInv => Placement!OneSocketPerRoot
<1> SUFFICES ASSUME Placement!PlacementIInv PROVE Placement!OneSocketPerRoot
  OBVIOUS
<1> DEFINE R(i) == Placement!Resolution(processes[i])
<1> DEFINE D(i) == Placement!SocketDir(processes[i])
<1> DEFINE C(i) == Canonical(processes[i].root)
<1>0. sockets \in {<<>>, <<R(1)>>, <<R(1), R(2)>>} /\ processes \in Commands
  BY DEF Placement!PlacementIInv
<1>3. ASSUME NEW i \in {1, 2}, R(i).kind = "placed"
      PROVE  /\ \/ R(i).path.in = D(i).in /\ R(i).path.keys = <<C(i)>>
                \/ R(i).path.in = ShortBase /\ R(i).path.keys = <<D(i).in, C(i)>>
             /\ R(i).path.in.absolute = TRUE
             /\ R(i).path.length \in Int /\ R(i).path.length <= MAX_SOCKET_PATH - COMPANION_RESERVE
  <2>1. /\ processes[i].runtime \in Placement!Directory \cup {Placement!Unset}
        /\ processes[i].home \in Placement!Directory
    BY <1>0, PlacementProcesses
  <2> QED
    BY <1>3, <2>1, PlacedCases
<1>4. ASSUME Placement!SameEnvironment
      PROVE  D(1) = D(2)
  BY <1>4 DEF Placement!SameEnvironment, Placement!SocketDir
<1>5. ASSUME Placement!SameEnvironment
      PROVE  /\ R(1).kind = R(2).kind
             /\ C(1) = C(2) => R(1) = R(2)
  BY <1>4, <1>5, SameDirSameKind
<1> HIDE DEF R, D, C
<1>6. ASSUME Len(sockets) = 2 PROVE sockets[1] = R(1) /\ sockets[2] = R(2)
  BY <1>0, <1>6
<1>7. ASSUME Placement!BothPlaced
      PROVE  \A i \in {1, 2} : /\ R(i).kind = "placed"
                               /\ Placement!RealPlace(i) = <<R(i).path.in, R(i).path.keys>>
  BY <1>3, <1>6, <1>7 DEF Placement!BothPlaced, Placement!RealPlace
<1>8. Placement!AgreeOnOnePath
  BY <1>5, <1>7 DEF Placement!AgreeOnOnePath, C
<1>9. Placement!NeverShared
  <2> SUFFICES ASSUME Placement!BothPlaced, Placement!RealPlace(1) = Placement!RealPlace(2)
               PROVE  C(1) = C(2) /\ D(1).in = D(2).in
    BY DEF Placement!NeverShared, C, D
  <2>1. R(1).path.in = R(2).path.in /\ R(1).path.keys = R(2).path.keys
    BY <1>7
  <2>2. \A a, b, c, d : <<a>> # <<b, c>> /\ (<<a>> = <<b>> => a = b) /\ (<<a, b>> = <<c, d>> => a = c /\ b = d)
    OBVIOUS
  <2>3. \A i \in {1, 2} : \/ R(i).path.in = D(i).in /\ R(i).path.keys = <<C(i)>>
                          \/ R(i).path.in = ShortBase /\ R(i).path.keys = <<D(i).in, C(i)>>
    BY <1>3, <1>7
  <2> QED
    BY <2>1, <2>2, <2>3
<1>10. Placement!ClaimFits
  <2>1. ASSUME NEW i \in DOMAIN sockets, sockets[i].kind = "placed"
        PROVE  sockets[i].path.length + Placement!ClaimLength <= MAX_SOCKET_PATH
    <3>1. i \in {1, 2} /\ sockets[i] = R(i)
      BY <1>0, <2>1
    <3>2. R(i).path.length \in Int /\ R(i).path.length <= MAX_SOCKET_PATH - COMPANION_RESERVE
      BY <1>3, <2>1, <3>1
    <3>3. R(i).path.length + Placement!ClaimLength <= MAX_SOCKET_PATH
      BY <3>2 DEF Placement!PlacementAssumption, Placement!ClaimLength
    <3> QED
      BY <3>1, <3>3
  <2> QED
    BY <1>5, <1>6, <2>1 DEF Placement!ClaimFits
<1> QED
  BY <1>8, <1>9, <1>10 DEF Placement!OneSocketPerRoot

\* For any user's environments, roots and path lengths: commands of one root agree on one
\* socket, no two roots or runtime directories share one, and the claim beside it fits.
THEOREM PlacementOneSocket == SourcesSpec => []OneSocketPerRoot
<1>1. SourcesSpec => SourcesInit /\ [][SourcesNext]_sourcesVars
  BY PTL DEF SourcesSpec
<1> DEFINE IInv == part = "placement" => Placement!PlacementIInv
<1>2. SourcesInit => IInv
  BY SuiteInit, PlacementInitInv, SourcesAssumption
<1>3. IInv /\ [SourcesNext]_sourcesVars => IInv'
  BY SuiteStep, PlacementStepInv, SourcesAssumption
<1>4. IInv => OneSocketPerRoot
  BY PlacementSafe, SourcesAssumption DEF OneSocketPerRoot
<1> QED
  BY <1>1, <1>2, <1>3, <1>4, PTL
-----------------------------------------------------------------------------
(* The walk of the sources *)

\* A prefix of a path, and a prefix of that.
LEMMA PrefixOf ==
  ASSUME NEW S, NEW p \in Seq(S), NEW n \in 0..Len(p)
  PROVE  /\ SubSeq(p, 1, n) \in Seq(S) /\ Len(SubSeq(p, 1, n)) = n
         /\ \A i \in 1..n : SubSeq(p, 1, n)[i] = p[i]
BY SubSeqProperties

\* A prefix of a prefix is a prefix of the whole.
LEMMA PrefixOfPrefix ==
  ASSUME NEW S, NEW p \in Seq(S), NEW n \in 0..Len(p), NEW m \in 0..n
  PROVE  SubSeq(SubSeq(p, 1, n), 1, m) = SubSeq(p, 1, m)
<1> DEFINE q == SubSeq(p, 1, n)
<1>1. q \in Seq(S) /\ Len(q) = n /\ \A i \in 1..n : q[i] = p[i]
  BY PrefixOf
<1> HIDE DEF q
<1>2. /\ SubSeq(q, 1, m) \in Seq(S) /\ Len(SubSeq(q, 1, m)) = m
      /\ \A i \in 1..m : SubSeq(q, 1, m)[i] = q[i]
  BY <1>1, PrefixOf
<1>3. /\ SubSeq(p, 1, m) \in Seq(S) /\ Len(SubSeq(p, 1, m)) = m
      /\ \A i \in 1..m : SubSeq(p, 1, m)[i] = p[i]
  BY PrefixOf
<1>4. \A i \in 1..m : SubSeq(q, 1, m)[i] = SubSeq(p, 1, m)[i]
  BY <1>1, <1>2, <1>3
<1>5. SubSeq(q, 1, m) = SubSeq(p, 1, m)
  BY <1>2, <1>3, <1>4, SeqEqual
<1> QED
  BY <1>5 DEF q

\* A path is the longest prefix of itself.
LEMMA WholePrefix ==
  ASSUME NEW S, NEW p \in Seq(S)
  PROVE  SubSeq(p, 1, Len(p)) = p
<1>1. Len(p) \in 0..Len(p)
  OBVIOUS
<1>2. /\ SubSeq(p, 1, Len(p)) \in Seq(S) /\ Len(SubSeq(p, 1, Len(p))) = Len(p)
      /\ \A i \in 1..Len(p) : SubSeq(p, 1, Len(p))[i] = p[i]
  BY <1>1, PrefixOf
<1> QED
  BY <1>2, SeqEqual

\* The shortest prefix of a path is the root.
LEMMA EmptyPrefix ==
  ASSUME NEW S, NEW p \in Seq(S)
  PROVE  SubSeq(p, 1, 0) = <<>>
<1>1. 0 \in 0..Len(p)
  OBVIOUS
<1>2. SubSeq(p, 1, 0) \in Seq(S) /\ Len(SubSeq(p, 1, 0)) = 0
  BY <1>1, PrefixOf
<1> QED
  BY <1>2, EmptySeq

\* The directories above a path are its prefixes, and those above them.
LEMMA AbovePath ==
  ASSUME NEW S, NEW p \in Seq(S), NEW q \in Walk!Above(p)
  PROVE  /\ q \in Seq(S) /\ Len(q) <= Len(p) /\ q = SubSeq(p, 1, Len(q))
         /\ \A i \in 1..Len(q) : q[i] = p[i]
         /\ Walk!Above(q) \subseteq Walk!Above(p)
<1>1. PICK n \in 0..Len(p) : q = SubSeq(p, 1, n)
  BY DEF Walk!Above
<1>2. q \in Seq(S) /\ Len(q) = n /\ \A i \in 1..n : q[i] = p[i]
  BY <1>1, PrefixOf
<1>3. ASSUME NEW r \in Walk!Above(q) PROVE r \in Walk!Above(p)
  <2>1. PICK m \in 0..n : r = SubSeq(q, 1, m)
    BY <1>2 DEF Walk!Above
  <2>2. r = SubSeq(p, 1, m) /\ m \in 0..Len(p)
    BY <1>1, <2>1, PrefixOfPrefix
  <2> QED
    BY <2>2 DEF Walk!Above
<1> QED
  BY <1>1, <1>2, <1>3

\* A directory counts among those above it.
LEMMA AboveItself ==
  ASSUME NEW S, NEW p \in Seq(S)
  PROVE  p \in Walk!Above(p)
BY WholePrefix DEF Walk!Above

\* A tree holds every directory above one of its own.
LEMMA TreeShape ==
  ASSUME NEW t \in Walk!Trees
  PROVE  /\ DOMAIN t \subseteq Seq(Walk!DirName)
         /\ Walk!Root \notin DOMAIN t
         /\ \A d \in DOMAIN t : Walk!Above(d) \subseteq DOMAIN t \cup {Walk!Root}
<1>1. PICK p \in Walk!Dirs, q \in Walk!Dirs :
        DOMAIN t = (Walk!Above(p) \cup Walk!Above(q)) \ {Walk!Root}
  <2>1. PICK p \in Walk!Dirs, q \in Walk!Dirs : t \in Walk!TreesOf(p, q)
    BY DEF Walk!Trees
  <2>2. DOMAIN t = (Walk!Above(p) \cup Walk!Above(q)) \ {Walk!Root}
    BY <2>1 DEF Walk!TreesOf
  <2> QED
    BY <2>2
<1>2. p \in Seq(Walk!DirName) /\ q \in Seq(Walk!DirName)
  BY DEF Walk!Dirs
<1>3. ASSUME NEW d \in DOMAIN t
      PROVE  d \in Seq(Walk!DirName) /\ Walk!Above(d) \subseteq DOMAIN t \cup {Walk!Root}
  <2>1. CASE d \in Walk!Above(p)
    <3>1. d \in Seq(Walk!DirName) /\ Walk!Above(d) \subseteq Walk!Above(p)
      BY <1>2, <2>1, AbovePath
    <3> QED
      BY <1>1, <3>1
  <2>2. CASE d \in Walk!Above(q)
    <3>1. d \in Seq(Walk!DirName) /\ Walk!Above(d) \subseteq Walk!Above(q)
      BY <1>2, <2>2, AbovePath
    <3> QED
      BY <1>1, <3>1
  <2> QED
    BY <1>1, <2>1, <2>2
<1> QED
  BY <1>1, <1>3

\* Nothing but the root is above the root.
LEMMA AboveRoot ==
  ASSUME NEW q \in Walk!Above(Walk!Root)
  PROVE  q = Walk!Root
<1>1. Walk!Root \in Seq(Walk!DirName) /\ Len(Walk!Root) = 0
  BY DEF Walk!Root
<1>2. q \in Seq(Walk!DirName) /\ Len(q) <= 0
  BY <1>1, AbovePath
<1>3. Len(q) = 0
  BY <1>2
<1> QED
  BY <1>2, <1>3, EmptySeq DEF Walk!Root

\* Every path of a tree is a path, and so is the root.
LEMMA WalkPaths ==
  ASSUME tree \in Walk!Trees, NEW d \in DOMAIN tree \cup {Walk!Root}
  PROVE  /\ d \in Seq(Walk!DirName)
         /\ Walk!Above(d) \subseteq DOMAIN tree \cup {Walk!Root}
         /\ d # Walk!Root => d \in DOMAIN tree /\ Len(d) >= 1
<1>1. CASE d = Walk!Root
  <2>1. d \in Seq(Walk!DirName)
    BY <1>1 DEF Walk!Root
  <2>2. \A q \in Walk!Above(d) : q = Walk!Root
    BY <1>1, AboveRoot
  <2> QED
    BY <1>1, <2>1, <2>2
<1>2. CASE d \in DOMAIN tree
  <2>1. d \in Seq(Walk!DirName) /\ Walk!Above(d) \subseteq DOMAIN tree \cup {Walk!Root}
    BY <1>2, TreeShape
  <2>2. d # Walk!Root => Len(d) >= 1
    BY <2>1, EmptySeq DEF Walk!Root
  <2> QED
    BY <1>2, <2>1, <2>2
<1> QED
  BY <1>1, <1>2

\* What is below a removed directory is removed with it.
LEMMA GoneBelow ==
  ASSUME NEW S, NEW d \in Seq(S), NEW q \in Walk!Above(d), Walk!Gone(q)
  PROVE  Walk!Gone(d)
BY AbovePath DEF Walk!Gone

\* A directory that is reached is reached through real directories only, never a link.
LEMMA ReachedAbove ==
  ASSUME NEW S, NEW d \in Seq(S), NEW q \in Walk!Above(d), Walk!Reached(d)
  PROVE  /\ Walk!Reached(q)
         /\ q # Walk!Root => tree[q] = "real"
BY AbovePath DEF Walk!Reached

\* The root is above every directory.
LEMMA RootAbove ==
  ASSUME NEW S, NEW d \in Seq(S)
  PROVE  Walk!Root \in Walk!Above(d)
<1>1. SubSeq(d, 1, 0) = <<>> /\ 0 \in 0..Len(d)
  BY EmptyPrefix
<1> QED
  BY <1>1 DEF Walk!Above, Walk!Root

\* The walk begins with the root pending, which is on the way to everything.
LEMMA WalkInitInv ==
  ASSUME Walk!WalkAssumption
  PROVE  Walk!WalkInit => Walk!WalkIInv
<1> SUFFICES ASSUME Walk!WalkInit PROVE Walk!WalkIInv
  OBVIOUS
<1>0. tree \in Walk!Trees /\ pending = <<[dir |-> Walk!Root, depth |-> 0]>> /\ listed = {} /\ found = {}
      /\ outcome = "walking"
  BY DEF Walk!WalkInit
<1>1. Walk!Reached(Walk!Root)
  <2>1. \A q \in Walk!Above(Walk!Root) : q = Walk!Root
    BY AboveRoot
  <2> QED
    BY <2>1 DEF Walk!Reached
<1>2. Walk!Opens(Walk!Root) /\ Len(Walk!Root) = 0
  BY <1>1 DEF Walk!Opens, Walk!Root, Walk!WalkAssumption
<1>3. DOMAIN pending = {1} /\ pending[1].dir = Walk!Root /\ pending[1].depth = 0
  BY <1>0
<1>4. pending \in Seq([dir : DOMAIN tree \cup {Walk!Root}, depth : Nat])
  <2>1. [dir |-> Walk!Root, depth |-> 0] \in [dir : DOMAIN tree \cup {Walk!Root}, depth : Nat]
    OBVIOUS
  <2> QED
    BY <1>0, <2>1
<1>5. ASSUME NEW d \in DOMAIN tree \cup {Walk!Root} PROVE Walk!Ahead(d)
  BY <1>0, <1>3, WalkPaths, RootAbove DEF Walk!Ahead
<1>6. Walk!WalkTypeOK
  BY <1>0, <1>4 DEF Walk!WalkTypeOK
<1>7. \A i \in DOMAIN pending : Walk!Opens(pending[i].dir) /\ pending[i].depth = Len(pending[i].dir)
  BY <1>2, <1>3
<1> QED
  BY <1>0, <1>5, <1>6, <1>7 DEF Walk!WalkIInv

\* Popping a directory lists the next one on the way to whatever lay below it.
LEMMA NextOnTheWay ==
  ASSUME tree \in Walk!Trees, NEW d \in DOMAIN tree \cup {Walk!Root}, NEW q \in Walk!Above(d), q # d
  PROVE  \E r \in Walk!Above(d) : r \in DOMAIN tree /\ Walk!Child(r, q)
<1>0. d \in Seq(Walk!DirName) /\ Walk!Above(d) \subseteq DOMAIN tree \cup {Walk!Root}
  BY WalkPaths
<1>1. q \in Seq(Walk!DirName) /\ Len(q) <= Len(d) /\ q = SubSeq(d, 1, Len(q))
  BY <1>0, AbovePath
<1>2. Len(q) # Len(d)
  BY <1>0, <1>1, WholePrefix
<1> DEFINE n == Len(q) + 1
<1> DEFINE r == SubSeq(d, 1, n)
<1>3. n \in 0..Len(d) /\ n - 1 = Len(q) /\ Len(q) \in 0..n
  BY <1>0, <1>1, <1>2
<1> HIDE DEF n
<1>4. Len(r) = n /\ r \in Seq(Walk!DirName) /\ r \in Walk!Above(d)
  BY <1>0, <1>3, PrefixOf DEF Walk!Above
<1>5. r # Walk!Root
  BY <1>3, <1>4 DEF Walk!Root, n
<1>6. SubSeq(r, 1, Len(q)) = SubSeq(d, 1, Len(q))
  BY <1>0, <1>3, PrefixOfPrefix
<1>7. Walk!Parent(r) = q
  BY <1>1, <1>3, <1>4, <1>6 DEF Walk!Parent
<1> QED
  BY <1>0, <1>4, <1>5, <1>7 DEF Walk!Child

\* A child reached past an open directory is open, unless it is a link, too deep or ignored.
LEMMA ChildOpens ==
  ASSUME NEW c \in Seq(Walk!DirName), Len(c) >= 1, Walk!Opens(Walk!Parent(c))
  PROVE  /\ Len(Walk!Parent(c)) = Len(c) - 1
         /\ \A n \in 1..(Len(c) - 1) : ~Walk!IsIgnoredName(c[n])
         /\ tree[c] = "real" => Walk!Reached(c)
<1> DEFINE n == Len(c) - 1
<1>1. n \in 0..Len(c) /\ Walk!Parent(c) = SubSeq(c, 1, n)
  BY DEF Walk!Parent
<1>2. Walk!Parent(c) \in Seq(Walk!DirName) /\ Len(Walk!Parent(c)) = n /\ \A i \in 1..n : Walk!Parent(c)[i] = c[i]
  BY <1>1, PrefixOf
<1>3. \A i \in 1..n : ~Walk!IsIgnoredName(c[i])
  BY <1>2 DEF Walk!Opens
<1>4. ASSUME tree[c] = "real", NEW q \in Walk!Above(c), q # Walk!Root PROVE tree[q] = "real"
  <2>1. PICK m \in 0..Len(c) : q = SubSeq(c, 1, m)
    BY DEF Walk!Above
  <2>2. CASE m = Len(c)
    BY <1>4, <2>1, <2>2, WholePrefix
  <2>3. CASE m # Len(c)
    <3>1. m \in 0..n
      BY <2>3
    <3>2. q = SubSeq(Walk!Parent(c), 1, m)
      BY <1>1, <2>1, <3>1, PrefixOfPrefix
    <3>3. q \in Walk!Above(Walk!Parent(c))
      BY <1>2, <3>1, <3>2 DEF Walk!Above
    <3> QED
      BY <1>4, <3>3 DEF Walk!Opens, Walk!Reached
  <2> QED
    BY <2>2, <2>3
<1> QED
  BY <1>2, <1>3, <1>4 DEF Walk!Reached

\* Popping a directory: what it holds is found, what lies below it is listed.
LEMMA WalkReadInv ==
  ASSUME Walk!WalkAssumption, Walk!WalkIInv, Walk!ReadDirectory
  PROVE  Walk!WalkIInv'
<1> DEFINE top == pending[Len(pending)]
<1> DEFINE Node == [dir : DOMAIN tree \cup {Walk!Root}, depth : Nat]
<1>0. /\ tree \in Walk!Trees /\ pending \in Seq(Node) /\ pending # <<>> /\ outcome = "walking" /\ listed = {}
      /\ found \subseteq DOMAIN tree \cup {Walk!Root}
      /\ tree' = tree /\ lost' = lost
  BY DEF Walk!WalkIInv, Walk!WalkTypeOK, Walk!ReadDirectory
<1>1. Len(pending) \in Nat /\ Len(pending) >= 1 /\ top \in Node
  <2> HIDE DEF Node
  <2>1. Len(pending) \in Nat \ {0}
    BY <1>0, EmptySeq
  <2> QED
    BY <1>0, <2>1, ElementOfSeq
<1>2. Walk!Opens(top.dir) /\ top.depth = Len(top.dir)
  BY <1>0, <1>1 DEF Walk!WalkIInv
<1>3. CASE Walk!Gone(top.dir)
  <2>1. outcome' = "failed" /\ pending' = pending /\ listed' = listed /\ found' = found
    BY <1>3 DEF Walk!ReadDirectory
  <2> QED
    BY <1>0, <2>1 DEF Walk!WalkIInv, Walk!WalkTypeOK, Walk!Opens, Walk!Reached
<1>4. CASE ~Walk!Gone(top.dir)
  <2> DEFINE front == SubSeq(pending, 1, Len(pending) - 1)
  <2>1. /\ pending' = front /\ found' = found \cup {top.dir} /\ outcome' = outcome
        /\ listed' = {[dir |-> p, depth |-> top.depth] :
                        p \in {p \in DOMAIN tree : Walk!Child(p, top.dir) /\ ~Walk!Gone(p)}}
    BY <1>4 DEF Walk!ReadDirectory
  <2>2. /\ front \in Seq(Node) /\ DOMAIN front = 1..(Len(pending) - 1)
        /\ \A i \in DOMAIN front : front[i] = pending[i]
    <3>1. Len(pending) - 1 \in 0..Len(pending)
      BY <1>1
    <3>2. front \in Seq(Node) /\ Len(front) = Len(pending) - 1
          /\ \A i \in 1..(Len(pending) - 1) : front[i] = pending[i]
      BY <1>0, <3>1, PrefixOf
    <3> QED
      BY <3>2
  <2> HIDE DEF front
  <2>3. \A c \in listed' : /\ c.dir \in DOMAIN tree /\ Walk!Child(c.dir, top.dir)
                           /\ c = [dir |-> c.dir, depth |-> top.depth]
    BY <2>1
  <2>4. Walk!WalkTypeOK'
    BY <1>0, <1>1, <2>1, <2>2, <2>3 DEF Walk!WalkTypeOK
  <2>5. \A i \in DOMAIN pending' : Walk!Opens(pending'[i].dir) /\ pending'[i].depth = Len(pending'[i].dir)
    <3>1. \A i \in DOMAIN front : i \in DOMAIN pending
      BY <1>0, <1>1, <2>2
    <3> QED
      BY <2>1, <2>2, <3>1 DEF Walk!WalkIInv
  <2>6. \A c \in listed' : Walk!Opens(Walk!Parent(c.dir)) /\ Len(c.dir) = c.depth + 1
    <3> SUFFICES ASSUME NEW c \in listed'
                 PROVE  Walk!Opens(Walk!Parent(c.dir)) /\ Len(c.dir) = c.depth + 1
      OBVIOUS
    <3>1. c.dir \in Seq(Walk!DirName) /\ Len(c.dir) >= 1
      BY <1>0, <2>3, WalkPaths DEF Walk!Child
    <3>2. Walk!Parent(c.dir) = top.dir /\ c.depth = top.depth
      BY <2>3 DEF Walk!Child
    <3>3. Len(Walk!Parent(c.dir)) = Len(c.dir) - 1
      BY <1>2, <3>1, <3>2, ChildOpens
    <3> QED
      BY <1>2, <3>1, <3>2, <3>3
  <2>7. \A d \in found' : Walk!Opens(d)
    BY <1>2, <2>1 DEF Walk!WalkIInv
  <2>8. ASSUME NEW d \in DOMAIN tree \cup {Walk!Root}, Walk!Reached(d), Len(d) <= Depth, ~Walk!Gone(d)
        PROVE  d \in found' \/ Walk!Ahead(d)' \/ Walk!Pruned(d)
    <3>0. d \in Seq(Walk!DirName)
      BY <1>0, WalkPaths
    <3>1. d \in found \/ Walk!Ahead(d) \/ Walk!Pruned(d)
      BY <1>0, <2>8 DEF Walk!WalkIInv
    <3>2. ASSUME Walk!Ahead(d), d # top.dir PROVE Walk!Ahead(d)'
      <4>1. PICK i \in DOMAIN pending : pending[i].dir \in Walk!Above(d)
        BY <1>0, <3>2 DEF Walk!Ahead
      <4>2. CASE i # Len(pending)
        <5>1. i \in DOMAIN front
          BY <1>0, <1>1, <2>2, <4>1, <4>2
        <5> QED
          BY <2>1, <2>2, <4>1, <5>1 DEF Walk!Ahead
      <4>3. CASE i = Len(pending)
        <5>1. PICK r \in Walk!Above(d) : r \in DOMAIN tree /\ Walk!Child(r, top.dir)
          BY <1>0, <3>2, <4>1, <4>3, NextOnTheWay
        <5>2. ~Walk!Gone(r)
          BY <2>8, <3>0, <5>1, GoneBelow
        <5>3. [dir |-> r, depth |-> top.depth] \in listed'
          BY <2>1, <5>1, <5>2
        <5>4. \E c \in listed' : c.dir = r
          BY <5>3
        <5> QED
          BY <5>1, <5>4 DEF Walk!Ahead
      <4> QED
        BY <4>2, <4>3
    <3> QED
      BY <2>1, <3>1, <3>2
  <2>9. \A d : (Walk!Opens(d)' <=> Walk!Opens(d)) /\ (Walk!Reached(d)' <=> Walk!Reached(d))
               /\ (Walk!Gone(d)' <=> Walk!Gone(d))
    BY <1>0 DEF Walk!Opens, Walk!Reached, Walk!Gone
  <2> QED
    BY <1>0, <2>1, <2>4, <2>5, <2>6, <2>7, <2>8, <2>9 DEF Walk!WalkIInv
<1> QED
  BY <1>3, <1>4

\* Looking at one child: it is pushed, or nothing behind it is the walk's to find.
LEMMA WalkExamineInv ==
  ASSUME Walk!WalkAssumption, Walk!WalkIInv, NEW c \in listed, Walk!Examine(c)
  PROVE  Walk!WalkIInv'
<1> DEFINE Node == [dir : DOMAIN tree \cup {Walk!Root}, depth : Nat]
<1>0. /\ tree \in Walk!Trees /\ pending \in Seq(Node) /\ outcome = "walking"
      /\ listed \subseteq [dir : DOMAIN tree, depth : Nat] /\ found \subseteq DOMAIN tree \cup {Walk!Root}
      /\ tree' = tree /\ lost' = lost /\ found' = found /\ listed' = listed \ {c}
  BY DEF Walk!WalkIInv, Walk!WalkTypeOK, Walk!Examine
<1>1. /\ c.dir \in DOMAIN tree /\ c.depth \in Nat /\ Walk!Opens(Walk!Parent(c.dir)) /\ Len(c.dir) = c.depth + 1
  BY <1>0 DEF Walk!WalkIInv
<1>2. c.dir \in Seq(Walk!DirName) /\ Len(c.dir) >= 1 /\ c.dir # Walk!Root
  BY <1>0, <1>1, WalkPaths, TreeShape
<1>3. \A d : (Walk!Opens(d)' <=> Walk!Opens(d)) /\ (Walk!Reached(d)' <=> Walk!Reached(d))
             /\ (Walk!Gone(d)' <=> Walk!Gone(d))
  BY <1>0 DEF Walk!Opens, Walk!Reached, Walk!Gone
<1>4. CASE Walk!Gone(c.dir)
  <2>1. outcome' = "failed" /\ pending' = pending
    BY <1>4 DEF Walk!Examine
  <2> QED
    BY <1>0, <1>3, <2>1 DEF Walk!WalkIInv, Walk!WalkTypeOK
<1>5. CASE ~Walk!Gone(c.dir)
  <2> DEFINE enters == tree[c.dir] = "real" /\ c.depth < Depth /\ ~Walk!IsIgnoredName(Walk!Name(c.dir))
  <2> DEFINE new == [dir |-> c.dir, depth |-> c.depth + 1]
  <2>1. pending' = (IF enters THEN Append(pending, new) ELSE pending) /\ outcome' = outcome
    BY <1>5 DEF Walk!Examine
  <2>2. new \in Node /\ new.dir = c.dir /\ new.depth = Len(new.dir)
    BY <1>1
  <2>3. ASSUME enters PROVE Walk!Opens(c.dir)
    <3>1. Walk!Reached(c.dir) /\ \A n \in 1..(Len(c.dir) - 1) : ~Walk!IsIgnoredName(c.dir[n])
      BY <1>1, <1>2, <2>3, ChildOpens
    <3>2. Len(c.dir) <= Depth
      BY <1>1, <2>3 DEF Walk!WalkAssumption
    <3>3. \A n \in DOMAIN c.dir : n \in 1..(Len(c.dir) - 1) \/ n = Len(c.dir)
      BY <1>2
    <3> QED
      BY <2>3, <3>1, <3>2, <3>3 DEF Walk!Opens, Walk!Name
  <2> HIDE DEF new, Node
  <2>4. ASSUME enters
        PROVE  /\ pending' \in Seq(Node) /\ Len(pending) \in Nat /\ Len(pending') = Len(pending) + 1
               /\ \A i \in 1..Len(pending) : pending'[i] = pending[i]
               /\ pending'[Len(pending) + 1] = new
    BY <1>0, <2>1, <2>2, <2>4, AppendProperties
  <2>5. pending' \in Seq(Node)
    BY <1>0, <2>1, <2>4
  <2>6. \A i \in DOMAIN pending : i \in DOMAIN pending' /\ pending'[i] = pending[i]
    <3>1. CASE enters
      BY <1>0, <2>4, <3>1
    <3>2. CASE ~enters
      BY <2>1, <3>2
    <3> QED
      BY <3>1, <3>2
  <2>7. ASSUME NEW i \in DOMAIN pending'
        PROVE  Walk!Opens(pending'[i].dir) /\ pending'[i].depth = Len(pending'[i].dir)
    <3>1. CASE i \in DOMAIN pending
      BY <2>6, <3>1 DEF Walk!WalkIInv
    <3>2. CASE i \notin DOMAIN pending
      <4>1. enters
        BY <2>1, <2>7, <3>2
      <4>2. i = Len(pending) + 1
        BY <1>0, <2>4, <2>7, <3>2, <4>1
      <4> QED
        BY <2>2, <2>3, <2>4, <4>1, <4>2
    <3> QED
      BY <3>1, <3>2
  <2>8. ASSUME NEW d \in DOMAIN tree \cup {Walk!Root}, Walk!Reached(d), Len(d) <= Depth, ~Walk!Gone(d)
        PROVE  d \in found \/ Walk!Ahead(d)' \/ Walk!Pruned(d)
    <3>0. d \in Seq(Walk!DirName)
      BY <1>0, WalkPaths
    <3>1. d \in found \/ Walk!Ahead(d) \/ Walk!Pruned(d)
      BY <1>0, <2>8 DEF Walk!WalkIInv
    <3>2. ASSUME NEW i \in DOMAIN pending, pending[i].dir \in Walk!Above(d) PROVE Walk!Ahead(d)'
      BY <2>6, <3>2 DEF Walk!Ahead
    <3>3. ASSUME NEW b \in listed, b.dir \in Walk!Above(d), b # c PROVE Walk!Ahead(d)'
      BY <1>0, <3>3 DEF Walk!Ahead
    <3>4. ASSUME c.dir \in Walk!Above(d) PROVE Walk!Ahead(d)' \/ Walk!Pruned(d)
      <4>1. /\ Len(c.dir) <= Len(d) /\ tree[c.dir] = "real"
            /\ \A i \in 1..Len(c.dir) : c.dir[i] = d[i]
        BY <1>2, <2>8, <3>0, <3>4, AbovePath, ReachedAbove
      <4>2. c.depth < Depth
        BY <1>1, <2>8, <3>0, <4>1 DEF Walk!WalkAssumption
      <4>3. CASE Walk!IsIgnoredName(Walk!Name(c.dir))
        <5>1. \A n \in 1..(Len(c.dir) - 1) : ~Walk!IsIgnoredName(c.dir[n])
          BY <1>1, <1>2, ChildOpens
        <5>2. Len(c.dir) \in DOMAIN d /\ Walk!IsIgnoredName(d[Len(c.dir)])
          BY <1>2, <3>0, <4>1, <4>3 DEF Walk!Name
        <5>3. \A n \in 1..(Len(c.dir) - 1) : ~Walk!IsIgnoredName(d[n])
          BY <1>2, <4>1, <5>1
        <5> QED
          BY <5>2, <5>3 DEF Walk!Pruned
      <4>4. CASE ~Walk!IsIgnoredName(Walk!Name(c.dir))
        <5>1. enters
          BY <4>1, <4>2, <4>4
        <5>2. Len(pending) + 1 \in DOMAIN pending' /\ pending'[Len(pending) + 1].dir = c.dir
          BY <2>2, <2>4, <5>1
        <5> QED
          BY <3>4, <5>2 DEF Walk!Ahead
      <4> QED
        BY <4>3, <4>4
    <3> QED
      BY <3>1, <3>2, <3>3, <3>4 DEF Walk!Ahead
  <2>9. Walk!WalkTypeOK'
    BY <1>0, <2>1, <2>5 DEF Walk!WalkTypeOK, Node
  <2> QED
    BY <1>0, <1>3, <2>1, <2>7, <2>8, <2>9 DEF Walk!WalkIInv
<1> QED
  BY <1>4, <1>5

\* Every step of the walk, and every removal during it, keeps the invariant.
LEMMA WalkStepInv ==
  ASSUME Walk!WalkAssumption
  PROVE  Walk!WalkIInv /\ [Walk!WalkNext]_(Walk!walkVars) => Walk!WalkIInv'
<1> SUFFICES ASSUME Walk!WalkIInv, [Walk!WalkNext]_(Walk!walkVars) PROVE Walk!WalkIInv'
  OBVIOUS
<1>1. CASE Walk!ReadDirectory
  BY <1>1, WalkReadInv
<1>2. CASE Walk!Finish
  BY <1>2 DEF Walk!Finish, Walk!WalkIInv, Walk!WalkTypeOK, Walk!Opens, Walk!Reached, Walk!Gone, Walk!Ahead
<1>3. ASSUME NEW c \in listed, Walk!Examine(c) PROVE Walk!WalkIInv'
  BY <1>3, WalkExamineInv
<1>4. ASSUME NEW p \in DOMAIN tree, Walk!Remove(p) PROVE Walk!WalkIInv'
  <2>1. /\ tree' = tree /\ pending' = pending /\ listed' = listed /\ found' = found /\ outcome' = outcome
        /\ lost' = lost \cup {p}
    BY <1>4 DEF Walk!Remove
  <2>2. \A d : Walk!Gone(d) => Walk!Gone(d)'
    BY <2>1 DEF Walk!Gone
  <2>3. \A d : /\ Walk!Opens(d)' <=> Walk!Opens(d)
               /\ Walk!Reached(d)' <=> Walk!Reached(d)
               /\ Walk!Ahead(d)' <=> Walk!Ahead(d)
    BY <2>1 DEF Walk!Opens, Walk!Reached, Walk!Ahead
  <2> QED
    BY <2>1, <2>2, <2>3 DEF Walk!WalkIInv, Walk!WalkTypeOK
<1>5. CASE UNCHANGED Walk!walkVars
  BY <1>5 DEF Walk!walkVars, Walk!WalkIInv, Walk!WalkTypeOK, Walk!Opens, Walk!Reached, Walk!Gone, Walk!Ahead
<1> QED
  BY <1>1, <1>2, <1>3, <1>4, <1>5 DEF Walk!WalkNext

\* The invariant says that the two walks divide the sources between them.
LEMMA WalkSafe ==
  ASSUME Walk!WalkAssumption, Walk!WalkIInv
  PROVE  Walk!EachSourceOnce
<1>0. tree \in Walk!Trees /\ found \subseteq DOMAIN tree \cup {Walk!Root}
  BY DEF Walk!WalkIInv, Walk!WalkTypeOK
<1>1. ASSUME NEW d \in found PROVE Walk!Opens(d) /\ ~Walk!IsInsideIgnoredDir(d)
  BY DEF Walk!WalkIInv, Walk!Opens, Walk!IsInsideIgnoredDir
<1>2. ASSUME outcome = "done", NEW d \in DOMAIN tree \cup {Walk!Root},
             Walk!Reached(d), Len(d) <= Depth, ~Walk!Gone(d), ~Walk!IsInsideIgnoredDir(d), d \notin found
      PROVE  d \in Walk!GeneratedFiles
  <2>0. d \in Seq(Walk!DirName) /\ Len(d) \in Nat /\ DOMAIN d = 1..Len(d) /\ Depth \in Nat
        /\ Walk!Above(d) \subseteq DOMAIN tree \cup {Walk!Root}
    BY <1>0, WalkPaths DEF Walk!WalkAssumption
  <2>1. Walk!Pruned(d)
    BY <1>2 DEF Walk!WalkIInv, Walk!Ahead
  <2>2. PICK i \in DOMAIN d : Walk!IsIgnoredName(d[i]) /\ \A n \in 1..(i - 1) : ~Walk!IsIgnoredName(d[n])
    BY <2>1 DEF Walk!Pruned
  <2>3. d[i] = "build" /\ i < Len(d) /\ d[i + 1] = "gen" /\ i \in 1..Len(d) /\ i \in 0..Len(d)
    BY <1>2, <2>0, <2>2 DEF Walk!IsInsideIgnoredDir
  <2> DEFINE b == SubSeq(d, 1, i)
  <2>4. Len(b) = i /\ \A n \in 1..i : b[n] = d[n]
    BY <2>0, <2>3, PrefixOf
  <2>5. \A n \in 1..Len(d) : /\ SubSeq(d, 1, n) \in DOMAIN tree
                             /\ tree[SubSeq(d, 1, n)] = "real"
    <3> SUFFICES ASSUME NEW n \in 1..Len(d)
                 PROVE  SubSeq(d, 1, n) \in DOMAIN tree /\ tree[SubSeq(d, 1, n)] = "real"
      OBVIOUS
    <3>1. n \in 0..Len(d) /\ SubSeq(d, 1, n) \in Walk!Above(d)
      BY <2>0 DEF Walk!Above
    <3>2. Len(SubSeq(d, 1, n)) = n
      BY <2>0, <3>1, PrefixOf
    <3>3. SubSeq(d, 1, n) # Walk!Root
      BY <3>2 DEF Walk!Root
    <3> QED
      BY <1>2, <2>0, <3>1, <3>3 DEF Walk!Reached
  <2> HIDE DEF b
  <2>6. b \in Walk!OuterBuilds
    <3>1. b \in DOMAIN tree /\ tree[b] = "real"
      BY <2>3, <2>5 DEF b
    <3>2. Walk!Name(b) = "build"
      BY <2>3, <2>4 DEF Walk!Name
    <3>3. Len(b) <= Depth + 1
      BY <1>2, <2>0, <2>3, <2>4
    <3>4. \A n \in 1..(Len(b) - 1) : ~Walk!IsIgnoredName(b[n])
      BY <2>2, <2>3, <2>4
    <3> QED
      BY <3>1, <3>2, <3>3, <3>4 DEF Walk!OuterBuilds
  <2>7. d \in DOMAIN tree
    BY <1>2, <2>0, <2>3 DEF Walk!Root
  <2>8. Len(d) > Len(b) /\ SubSeq(d, 1, Len(b)) = b /\ d[Len(b) + 1] = "gen" /\ Len(d) - Len(b) - 1 <= Depth
    BY <1>2, <2>0, <2>3, <2>4 DEF b
  <2>9. \A n \in (Len(b) + 2)..Len(d) : tree[SubSeq(d, 1, n)] = "real"
    BY <2>0, <2>3, <2>4, <2>5
  <2> QED
    BY <2>6, <2>7, <2>8, <2>9 DEF Walk!GeneratedFiles
<1>3. ASSUME NEW d \in found, d \in Walk!GeneratedFiles PROVE FALSE
  <2>1. PICK b \in Walk!OuterBuilds : Len(d) > Len(b) /\ SubSeq(d, 1, Len(b)) = b
    BY <1>3 DEF Walk!GeneratedFiles
  <2>2. b \in DOMAIN tree /\ b[Len(b)] = "build"
    BY DEF Walk!OuterBuilds, Walk!Name
  <2>3. d \in Seq(Walk!DirName) /\ b \in Seq(Walk!DirName) /\ Len(b) >= 1
    BY <1>0, <2>2, WalkPaths, TreeShape
  <2>4. Len(b) \in 0..Len(d) /\ Len(b) \in DOMAIN d
    BY <2>1, <2>3
  <2>5. d[Len(b)] = "build"
    BY <2>1, <2>2, <2>3, <2>4, PrefixOf
  <2> QED
    BY <1>1, <2>4, <2>5 DEF Walk!Opens, Walk!IsIgnoredName
<1>4. Walk!OneBoundary
  BY <1>1, <1>2 DEF Walk!OneBoundary
<1>5. Walk!EachFileOnce
  BY <1>1, <1>3 DEF Walk!EachFileOnce, Walk!Opens
<1> QED
  BY <1>4, <1>5 DEF Walk!EachSourceOnce

\* For any depth of trees, any traversal depth and any number of removals during it: what
\* the walk collects is never judged ignored, a completed walk misses nothing reachable
\* but what is generated, and no source is in both walks.
THEOREM WalkEachSourceOnce == SourcesSpec => []EachSourceOnce
<1>1. SourcesSpec => SourcesInit /\ [][SourcesNext]_sourcesVars
  BY PTL DEF SourcesSpec
<1> DEFINE IInv == part = "walk" => Walk!WalkIInv
<1>2. SourcesInit => IInv
  BY SuiteInit, WalkInitInv, SourcesAssumption
<1>3. IInv /\ [SourcesNext]_sourcesVars => IInv'
  BY SuiteStep, WalkStepInv, SourcesAssumption
<1>4. IInv => EachSourceOnce
  BY WalkSafe, SourcesAssumption DEF EachSourceOnce
<1> QED
  BY <1>1, <1>2, <1>3, <1>4, PTL
-----------------------------------------------------------------------------
(* The correction of reported columns *)

\* Correcting one candidate keeps what is known of the earlier ones, and the text it is
\* corrected against is the one kept for its file.
LEMMA CorrectInv == Column!ColumnIInv /\ Column!Correct => Column!ColumnIInv'
<1> SUFFICES ASSUME Column!ColumnIInv, Column!Correct PROVE Column!ColumnIInv'
  OBVIOUS
<1> DEFINE file == candidates[at].file
           text == Column!Source(file)
<1>1. PICK e : columns' = Append(columns, e) /\ e.text = text
  BY DEF Column!Correct
<1>2. sources' = [f \in DOMAIN sources \cup {file} |-> IF f = file THEN text ELSE sources[f]]
  BY DEF Column!Correct
<1>3. at' = at + 1 /\ candidates' = candidates
  BY DEF Column!Correct
<1>4. at \in Nat \ {0} /\ Len(columns) = at - 1
  BY DEF Column!ColumnIInv
<1>5. PICK S : columns \in Seq(S)
  BY DEF Column!ColumnIInv
<1>6. columns \in Seq(S \cup {e}) /\ columns' \in Seq(S \cup {e})
  BY <1>1, <1>5
<1>7. /\ Len(columns') = at /\ DOMAIN columns' = 1..at /\ DOMAIN columns = 1..(at - 1)
      /\ columns'[at] = e /\ \A i \in 1..(at - 1) : columns'[i] = columns[i]
  BY <1>1, <1>4, <1>6
<1>8. file \in DOMAIN sources => text = sources[file]
  BY DEF Column!Source
<1>9. ASSUME NEW i \in 1..at
      PROVE  candidates[i].file \in DOMAIN sources' /\ sources'[candidates[i].file] = columns'[i].text
  <2>1. CASE i = at
    BY <1>1, <1>2, <1>7, <2>1
  <2>2. CASE i # at
    <3>1. i \in 1..(at - 1)
      BY <1>4, <2>2
    <3>2. candidates[i].file \in DOMAIN sources /\ sources[candidates[i].file] = columns[i].text
      BY <1>7, <3>1 DEF Column!ColumnIInv
    <3> QED
      BY <1>2, <1>7, <1>8, <3>1, <3>2
  <2> QED
    BY <2>1, <2>2
<1>10. at' \in Nat \ {0} /\ Len(columns') = at' - 1
  BY <1>3, <1>4, <1>7
<1>11. columns' \in Seq({columns'[i] : i \in DOMAIN columns'})
  BY <1>6
<1> QED
  BY <1>3, <1>7, <1>9, <1>10, <1>11 DEF Column!ColumnIInv

\* Whatever is edited while an answer is put together, the candidates of one file are
\* corrected against one text of it: no constant is constrained.
THEOREM ColumnOneText == Column!ColumnSpec => []Column!OneTextPerFile
<1>1. Column!ColumnInit => Column!ColumnIInv
  <2> SUFFICES ASSUME Column!ColumnInit PROVE Column!ColumnIInv
    OBVIOUS
  <2>1. columns = << >> /\ at = 1
    BY DEF Column!ColumnInit
  <2>2. /\ columns \in Seq({columns[i] : i \in DOMAIN columns})
        /\ Len(columns) = at - 1 /\ DOMAIN columns = {}
    BY <2>1
  <2> QED
    BY <2>1, <2>2 DEF Column!ColumnIInv
<1>2. Column!ColumnIInv /\ [Column!ColumnNext]_Column!columnVars => Column!ColumnIInv'
  <2> SUFFICES ASSUME Column!ColumnIInv, [Column!ColumnNext]_Column!columnVars
               PROVE  Column!ColumnIInv'
    OBVIOUS
  <2>1. CASE Column!Correct
    BY <2>1, CorrectInv
  <2>2. CASE Column!Edit
    BY <2>2 DEF Column!Edit, Column!ColumnIInv
  <2>3. CASE Column!Corrected \/ UNCHANGED Column!columnVars
    BY <2>3 DEF Column!Corrected, Column!columnVars, Column!ColumnIInv
  <2> QED
    BY <2>1, <2>2, <2>3 DEF Column!ColumnNext
<1>3. Column!ColumnIInv => Column!OneTextPerFile
  BY DEF Column!ColumnIInv, Column!OneTextPerFile
<1> QED
  BY <1>1, <1>2, <1>3, PTL DEF Column!ColumnSpec
-----------------------------------------------------------------------------
(* The whole-word scan of a line *)

\* The widths of the characters before the i-th of a line.
ByteWidths(l, i) == [k \in 1..(i - 1) |-> Scan!Bytes(l[k])]
UnitWidths(l, i) == [k \in 1..(i - 1) |-> Scan!Units(l[k])]

\* The model's folds are the sums of the lemmas.
LEMMA OffsetIsSum ==
  ASSUME NEW i
  PROVE  /\ Scan!Offset(i) = SumOver(1..(i - 1), ByteWidths(s1, i))
         /\ Scan!Column(i) = SumOver(1..(i - 1), UnitWidths(s1, i)) + 1
BY DEF Scan!Offset, Scan!Column, Scan!MapThenSumSet, Scan!MapThenFoldSet, SumOver, SumTable, Pick,
   ByteWidths, UnitWidths

\* A character has one to four bytes, and one UTF-16 unit or two.
LEMMA WidthsAreSums ==
  ASSUME NEW l, NEW i \in Nat \ {0}
  PROVE  /\ IsFiniteSet(1..(i - 1)) /\ 1..(i + 1 - 1) = 1..(i - 1) \cup {i} /\ i \notin 1..(i - 1)
         /\ ByteWidths(l, i) \in [1..(i - 1) -> Nat \ {0}]
         /\ UnitWidths(l, i) \in [1..(i - 1) -> Nat \ {0}]
<1>1. \A c : Scan!Bytes(c) \in Nat \ {0} /\ Scan!Units(c) \in Nat \ {0}
  BY DEF Scan!Bytes, Scan!Units
<1>2. i - 1 \in Int /\ i + 1 - 1 = i /\ 1 \in Int
  OBVIOUS
<1>3. IsFiniteSet(1..(i - 1))
  BY <1>2, FS_Interval
<1>4. 1..(i + 1 - 1) = 1..(i - 1) \cup {i} /\ i \notin 1..(i - 1)
  OBVIOUS
<1> QED
  BY <1>1, <1>3, <1>4 DEF ByteWidths, UnitWidths

ByteSum(l, i) == SumOver(1..(i - 1), ByteWidths(l, i))
UnitSum(l, i) == SumOver(1..(i - 1), UnitWidths(l, i))

\* The next character begins after this one's bytes.
LEMMA OffsetSteps ==
  ASSUME NEW l, NEW i \in Nat \ {0}
  PROVE  ByteSum(l, i) \in Int /\ ByteSum(l, i + 1) = ByteSum(l, i) + Scan!Bytes(l[i])
<1> DEFINE S == 1..(i - 1)
           f == ByteWidths(l, i)
           h == ByteWidths(l, i + 1)
<1>1. /\ IsFiniteSet(S) /\ 1..(i + 1 - 1) = S \cup {i} /\ i \notin S
  BY WidthsAreSums
<1>2. i + 1 \in Nat \ {0}
  OBVIOUS
<1>3. f \in [S -> Int] /\ h \in [1..(i + 1 - 1) -> Int]
  BY <1>2, WidthsAreSums
<1>4. /\ \A y \in S : f[y] = h[y]
      /\ h[i] = Scan!Bytes(l[i])
  BY DEF ByteWidths
<1> HIDE DEF S, f, h
<1>5. h \in [S \cup {i} -> Int]
  BY <1>1, <1>3
<1>6. SumOver(S \cup {i}, h) = SumOver(S, f) + h[i] /\ SumOver(S, f) \in Int
  BY <1>1, <1>3, <1>4, <1>5, SumAddsOne, SumType
<1>7. SumOver(1..(i + 1 - 1), h) = SumOver(S, f) + h[i]
  BY <1>1, <1>6
<1> QED
  BY <1>4, <1>6, <1>7 DEF ByteSum, S, f, h

\* So offsets increase along the line.
LEMMA OffsetsIncrease ==
  ASSUME NEW l
  PROVE  /\ \A i \in Nat \ {0} : ByteSum(l, i) \in Nat
         /\ \A i \in Nat \ {0} : \A j \in Nat \ {0} : i < j => ByteSum(l, i) < ByteSum(l, j)
<1> DEFINE b(i) == ByteSum(l, i)
<1>1. \A i \in Nat \ {0} : b(i) \in Int /\ b(i) < b(i + 1)
  <2> TAKE i \in Nat \ {0}
  <2>1. Scan!Bytes(l[i]) \in Nat \ {0}
    BY DEF Scan!Bytes
  <2>2. b(i) \in Int /\ b(i + 1) = b(i) + Scan!Bytes(l[i])
    BY OffsetSteps
  <2> QED
    BY <2>1, <2>2
<1>2. b(1) = 0
  <2>1. 1..(1 - 1) = {} /\ IsFiniteSet({}) /\ ByteWidths(l, 1) \in [{} -> Int]
    BY WidthsAreSums, FS_EmptySet
  <2>2. SumOver({}, ByteWidths(l, 1)) = 0
    <3> DEFINE w == ByteWidths(l, 1)
    <3> HIDE DEF w
    <3>1. PICK S, F : S = {} /\ F = SumTable(S, w) /\ Additive(S, w, F)
      BY <2>1, SumTableAdds DEF w
    <3> QED
      BY <3>1 DEF Additive, SumOver, w
  <2> QED
    BY <2>1, <2>2 DEF ByteSum
<1> HIDE DEF b
<1> DEFINE A == {n \in Nat : b(n + 1) >= 0 /\ \A i \in Nat \ {0} : i < n + 1 => b(i) < b(n + 1)}
<1>3. 0 \in A
  BY <1>2
<1>4. ASSUME NEW n \in Nat, n \in A PROVE n + 1 \in A
  <2>1. b(n + 1) \in Int /\ b(n + 1 + 1) \in Int /\ b(n + 1) < b(n + 1 + 1) /\ b(n + 1) >= 0
    BY <1>1, <1>4
  <2>2. ASSUME NEW i \in Nat \ {0}, i < n + 1 + 1 PROVE b(i) < b(n + 1 + 1)
    <3>1. b(i) \in Int
      BY <1>1
    <3>2. CASE i = n + 1
      BY <2>1, <3>2
    <3>3. CASE i < n + 1
      BY <1>4, <2>1, <3>1, <3>3
    <3> QED
      BY <2>2, <3>2, <3>3
  <2> QED
    BY <2>1, <2>2
<1> HIDE DEF A
<1>5. \A n \in Nat : n \in A
  BY <1>3, <1>4, Induct
<1> SUFFICES ASSUME NEW i \in Nat \ {0}, NEW j \in Nat \ {0}
             PROVE  b(i) \in Nat /\ (i < j => b(i) < b(j))
  BY DEF b
<1>6. i - 1 \in A /\ j - 1 \in A /\ i - 1 + 1 = i /\ j - 1 + 1 = j
  BY <1>5
<1> QED
  BY <1>1, <1>6 DEF A

WideBefore(l, i) == Cardinality({k \in 1..(i - 1) : l[k] = "wide"})

\* The column of a character: its place, and one more for each wide one before it.
LEMMA UnitsCount ==
  ASSUME NEW l, NEW i \in Nat \ {0}
  PROVE  UnitSum(l, i) + 1 = i + WideBefore(l, i)
<1> DEFINE S == 1..(i - 1)
           B == {k \in S : l[k] = "wide"}
           h == UnitWidths(l, i)
           f == [k \in S |-> IF k \in S THEN 1 ELSE 0]
           g == [k \in S |-> IF k \in B THEN 1 ELSE 0]
<1>1. IsFiniteSet(S) /\ Cardinality(S) = i - 1 /\ S \in SUBSET S /\ B \in SUBSET S
  BY FS_Interval
<1>2. f \in [S -> Int] /\ g \in [S -> Int] /\ h \in [S -> Int]
  BY WidthsAreSums
<1>3. \A k \in S : h[k] = f[k] + g[k]
  BY DEF UnitWidths, Scan!Units
<1>4. \A k \in S : /\ f[k] = IF k \in S THEN 1 ELSE 0
                   /\ g[k] = IF k \in B THEN 1 ELSE 0
  OBVIOUS
<1>5. IsFiniteSet(B) /\ Cardinality(B) \in Nat
  BY <1>1, FS_Subset, FS_CardinalityType
<1> HIDE DEF S, B, f, g, h
<1>6. SumOver(S, h) = SumOver(S, f) + SumOver(S, g)
  BY <1>1, <1>2, <1>3, SumPlus
<1>7. SumOver(S, f) = 1 * Cardinality(S)
  BY <1>1, <1>2, <1>4, SumCounts
<1>8. SumOver(S, g) = 1 * Cardinality(B)
  BY <1>1, <1>2, <1>4, SumCounts
<1>9. SumOver(S, h) + 1 = i + Cardinality(B)
  BY <1>1, <1>5, <1>6, <1>7, <1>8
<1> QED
  BY <1>9 DEF UnitSum, WideBefore, S, B, h

\* In a line, offsets increase and a column is what a reader counts.
LEMMA ScanTerms ==
  ASSUME s1 \in ScannedLines
  PROVE  /\ \A i \in 1..Len(s1) : Scan!Offset(i) \in Nat /\ Scan!Column(i) = Scan!Counted(i)
         /\ \A i, j \in 1..Len(s1) : i < j => Scan!Offset(i) < Scan!Offset(j)
<1>1. Len(s1) \in Nat
  BY SourcesAssumption DEF Scan!LineAssumption
<1>2. \A i \in 1..Len(s1) : /\ i \in Nat \ {0} /\ Scan!Offset(i) = ByteSum(s1, i)
                            /\ Scan!Column(i) = UnitSum(s1, i) + 1
  BY <1>1, OffsetIsSum DEF ByteSum, UnitSum
<1>3. /\ \A i \in Nat \ {0} : ByteSum(s1, i) \in Nat
      /\ \A i \in Nat \ {0} : \A j \in Nat \ {0} : i < j => ByteSum(s1, i) < ByteSum(s1, j)
  BY OffsetsIncrease
<1>4. ASSUME NEW i \in Nat \ {0} PROVE UnitSum(s1, i) + 1 = Scan!Counted(i)
  <2>1. UnitSum(s1, i) + 1 = i + WideBefore(s1, i)
    BY UnitsCount
  <2> QED
    BY <2>1 DEF Scan!Counted, Scan!Cardinality, Cardinality, WideBefore
<1>5. \A i \in 1..Len(s1) : Scan!Offset(i) \in Nat /\ Scan!Column(i) = Scan!Counted(i)
  <2> TAKE i \in 1..Len(s1)
  <2>1. i \in Nat \ {0} /\ Scan!Offset(i) = ByteSum(s1, i) /\ Scan!Column(i) = UnitSum(s1, i) + 1
    BY <1>2
  <2>2. ByteSum(s1, i) \in Nat
    BY <1>3, <2>1
  <2>3. UnitSum(s1, i) + 1 = Scan!Counted(i)
    BY <1>4, <2>1
  <2> QED
    BY <2>1, <2>2, <2>3
<1>6. \A i, j \in 1..Len(s1) : i < j => Scan!Offset(i) < Scan!Offset(j)
  <2> TAKE i, j \in 1..Len(s1)
  <2>1. i \in Nat \ {0} /\ j \in Nat \ {0} /\ Scan!Offset(i) = ByteSum(s1, i) /\ Scan!Offset(j) = ByteSum(s1, j)
    BY <1>2
  <2> QED
    BY <1>3, <2>1
<1> QED
  BY <1>5, <1>6

\* They are those of the line and the name, which no step changes.
LEMMA ScanKeepsTerms ==
  ASSUME s1' = s1, s2' = s2
  PROVE  /\ (Scan!Words)' = Scan!Words
         /\ \A i : (Scan!Offset(i))' = Scan!Offset(i) /\ (Scan!Column(i))' = Scan!Column(i)
<1>1. (Scan!Words)' = Scan!Words
  BY DEF Scan!Words, Scan!MatchesAt, Scan!WholeWord
<1>2. ASSUME NEW i PROVE (Scan!Offset(i))' = Scan!Offset(i) /\ (Scan!Column(i))' = Scan!Column(i)
  BY DEF Scan!Offset, Scan!Column, Scan!MapThenSumSet, Scan!MapThenFoldSet
<1> QED
  BY <1>1, <1>2

\* An occurrence is reported once the search has passed it.
LEMMA FindInv == Scan!ScanIInv /\ Scan!Find => Scan!ScanIInv'
<1> SUFFICES ASSUME Scan!ScanIInv, Scan!Find PROVE Scan!ScanIInv'
  OBVIOUS
<1>1. PICK i \in 1..Len(s1) :
        /\ Scan!Offset(i) >= s3 /\ Scan!MatchesAt(i)
        /\ \A k \in 1..(i - 1) : Scan!Offset(k) >= s3 => ~Scan!MatchesAt(k)
        /\ s4' = IF Scan!WholeWord(i) THEN s4 \cup {Scan!Column(i)} ELSE s4
        /\ s3' = Scan!Offset(i) + 1
  BY DEF Scan!Find
<1>2. s1' = s1 /\ s2' = s2 /\ s5' = s5 /\ s5 = "find"
  BY DEF Scan!Find
<1>3. s1 \in ScannedLines /\ s3 \in Nat
  BY DEF Scan!ScanIInv
<1>4. s4 = {Scan!Column(k) : k \in {k \in Scan!Words : Scan!Offset(k) < s3}}
  BY DEF Scan!ScanIInv
<1>5. /\ \A k \in 1..Len(s1) : Scan!Offset(k) \in Nat
      /\ \A j, k \in 1..Len(s1) : j < k => Scan!Offset(j) < Scan!Offset(k)
  BY <1>3, ScanTerms
<1>6. /\ (Scan!Words)' = Scan!Words
      /\ \A k : (Scan!Offset(k))' = Scan!Offset(k) /\ (Scan!Column(k))' = Scan!Column(k)
  BY <1>2, ScanKeepsTerms
<1>7. /\ Scan!Words \subseteq 1..Len(s1) /\ Len(s1) \in Nat
      /\ i \in Scan!Words <=> Scan!WholeWord(i)
      /\ \A k \in Scan!Words : Scan!MatchesAt(k)
  BY <1>1, <1>3, SourcesAssumption DEF Scan!Words, Scan!LineAssumption
<1>8. ASSUME NEW k \in Scan!Words
      PROVE  Scan!Offset(k) < s3' <=> Scan!Offset(k) < s3 \/ k = i
  <2>1. /\ k \in Int /\ i \in Int /\ Scan!Offset(k) \in Nat /\ Scan!Offset(i) \in Nat
        /\ k < i => Scan!Offset(k) < Scan!Offset(i)
        /\ i < k => Scan!Offset(i) < Scan!Offset(k)
    BY <1>5, <1>7
  <2>2. k < i => Scan!Offset(k) < s3
    BY <1>1, <1>3, <1>7, <2>1
  <2> QED
    BY <1>1, <1>3, <2>1, <2>2
<1>9. s4' = {Scan!Column(k) : k \in {k \in Scan!Words : Scan!Offset(k) < s3'}}
  <2> DEFINE W == Scan!Words
             c(k) == Scan!Column(k)
             old == {k \in W : Scan!Offset(k) < s3}
             new == {k \in W : Scan!Offset(k) < s3'}
  <2>1. new = IF i \in W THEN old \cup {i} ELSE old
    BY <1>8
  <2>2. s4' = IF i \in W THEN s4 \cup {c(i)} ELSE s4
    BY <1>1, <1>7
  <2>3. s4 = {c(k) : k \in old}
    BY <1>4
  <2> HIDE DEF W, c, old, new
  <2>4. s4' = {c(k) : k \in new}
    BY <2>1, <2>2, <2>3
  <2> QED
    BY <2>4 DEF W, c, new
<1>10. s3' \in Nat
  BY <1>1, <1>5
<1>11. s4' = {(Scan!Column(k))' : k \in {k \in (Scan!Words)' : (Scan!Offset(k))' < s3'}}
  BY <1>6, <1>9
<1> QED
  BY <1>2, <1>3, <1>10, <1>11 DEF Scan!ScanIInv

\* word_bounded_matches, for every line and every name: a search that ends has reported
\* the UTF-16 column of each whole-word occurrence and nothing else, whatever the widths
\* of the characters around them.
THEOREM ScanFindsWords == Scan!ScanSpec => []Scan!ColumnsAreOccurrences
<1>1. Scan!ScanInit => Scan!ScanIInv
  <2> SUFFICES ASSUME Scan!ScanInit PROVE Scan!ScanIInv
    OBVIOUS
  <2>1. s1 \in ScannedLines /\ s3 = 0 /\ s4 = {} /\ s5 = "find"
    BY DEF Scan!ScanInit
  <2>2. \A k \in Scan!Words : Scan!Offset(k) \in Nat
    BY <2>1, ScanTerms DEF Scan!Words
  <2>3. {k \in Scan!Words : Scan!Offset(k) < s3} = {}
    BY <2>1, <2>2
  <2> QED
    BY <2>1, <2>3 DEF Scan!ScanIInv
<1>2. Scan!ScanIInv /\ [Scan!ScanNext]_Scan!scanVars => Scan!ScanIInv'
  <2> SUFFICES ASSUME Scan!ScanIInv, [Scan!ScanNext]_Scan!scanVars PROVE Scan!ScanIInv'
    OBVIOUS
  <2>1. CASE Scan!Find
    BY <2>1, FindInv
  <2>2. CASE Scan!Exhausted \/ Scan!Panic \/ Scan!Scanned \/ UNCHANGED Scan!scanVars
    <3>1. s1' = s1 /\ s2' = s2 /\ s3' = s3 /\ s4' = s4
      BY <2>2 DEF Scan!Exhausted, Scan!Panic, Scan!Scanned, Scan!scanVars
    <3>2. /\ (Scan!Words)' = Scan!Words
          /\ \A k : (Scan!Offset(k))' = Scan!Offset(k) /\ (Scan!Column(k))' = Scan!Column(k)
      BY <3>1, ScanKeepsTerms
    <3>3. s1 \in ScannedLines /\ s3 \in Nat
      BY DEF Scan!ScanIInv
    <3>4. \A k \in Scan!Words : k \in 1..Len(s1) /\ Scan!MatchesAt(k) /\ Scan!Offset(k) \in Nat
      BY <3>3, ScanTerms DEF Scan!Words
    <3>5. ASSUME s5' = "done" PROVE \A k \in Scan!Words : Scan!Offset(k) < s3
      <4>1. CASE s5 = "done"
        BY <4>1 DEF Scan!ScanIInv
      <4>2. CASE s5 # "done"
        <5>1. ~\E k \in 1..Len(s1) : Scan!Offset(k) >= s3 /\ Scan!MatchesAt(k)
          BY <2>2, <3>5, <4>2 DEF Scan!Exhausted, Scan!Panic, Scan!Scanned, Scan!scanVars
        <5> QED
          BY <3>3, <3>4, <5>1
      <4> QED
        BY <4>1, <4>2
    <3>6. s4' = {(Scan!Column(k))' : k \in {k \in (Scan!Words)' : (Scan!Offset(k))' < s3'}}
      BY <3>1, <3>2 DEF Scan!ScanIInv
    <3> QED
      BY <3>1, <3>2, <3>3, <3>5, <3>6 DEF Scan!ScanIInv
  <2> QED
    BY <2>1, <2>2 DEF Scan!ScanNext
<1>3. Scan!ScanIInv => Scan!ColumnsAreOccurrences
  <2> SUFFICES ASSUME Scan!ScanIInv, s5 = "done" PROVE s4 = Scan!Occurrences
    BY DEF Scan!ColumnsAreOccurrences
  <2>1. s1 \in ScannedLines /\ s4 = {Scan!Column(k) : k \in {k \in Scan!Words : Scan!Offset(k) < s3}}
    BY DEF Scan!ScanIInv
  <2>2. {k \in Scan!Words : Scan!Offset(k) < s3} = Scan!Words
    BY DEF Scan!ScanIInv
  <2>3. \A i \in Scan!Words : Scan!Column(i) = Scan!Counted(i)
    BY <2>1, ScanTerms DEF Scan!Words
  <2> QED
    BY <2>1, <2>2, <2>3 DEF Scan!Occurrences
<1> QED
  BY <1>1, <1>2, <1>3, PTL DEF Scan!ScanSpec
-----------------------------------------------------------------------------
(* The frames of an engine's stream *)

\* However the engine's bytes are cut into reads, and for every ceiling on a header
\* block: the bodies FrameDecoder hands out are at every moment a prefix of the stream's
\* frames, and once it is drained they are all of them, with the stream's fault, unless
\* a block is past the ceiling.
THEOREM FramesAreUncut == SourcesSpec => []FramesSurviveCuts
<1>1. SourcesSpec => SourcesInit /\ [][SourcesNext]_sourcesVars
  BY PTL DEF SourcesSpec
<1> DEFINE IInv == part = "frame" => FrameIInv
<1>2. SourcesInit => IInv
  BY SuiteInit, FrameInitInv, SourcesAssumption
<1>3. IInv /\ [SourcesNext]_sourcesVars => IInv'
  BY SuiteStep, FrameStepInv, SourcesAssumption
<1>4. IInv => FramesSurviveCuts
  BY FrameInvCuts, SourcesAssumption DEF FramesSurviveCuts
<1> QED
  BY <1>1, <1>2, <1>3, <1>4, PTL
=============================================================================
