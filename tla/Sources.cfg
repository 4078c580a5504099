CONSTANTS
  MaxDepth = 3
  Depth = 2
  MaxLosses = 1
  File = {"A.kt", "B.kt"}
  Text <- MCText
  Broken = {"garbage"}
  Fingerprint <- MCFingerprint
  MaxEdits = 3
  Commands <- ProcessPairs
  Canonical <- CanonicalRoot
  ShortBase <- MCShortBase
  MAX_SOCKET_PATH = 103
  COMPANION_RESERVE = 8
  KeyLength = 16
  SuffixLength = 5
  CorrectedFiles = {"f", "g"}
  Lines <- DeclarationLines
  Candidates <- ReportedLists
  NameLength = 2
  ScannedLines <- MCScannedLines
  ScannedNames <- MCScannedNames
  SearchedTrees <- MCSearchedTrees
  OwnerOf <- MCOwnerOf
  SearchRequests <- MCSearchRequests
  JavaSources <- MCJavaSources
  JavaConstructs <- MCJavaConstructs
  MaxConstructs = 6
  TypeHeaders <- MCTypeHeaders
  HeaderMarks <- MCHeaderMarks
  TypeWorkspaces <- MCTypeWorkspaces
  TypeQueries <- MCTypeQueries
  DepthCap = 3
  MaxStream = 5
  MaxHeader = 3
SPECIFICATION SourcesSpec
INVARIANTS
  EachSourceOnce
  CachedAnswerIsFresh
  ScansFindWhatIsThere
  JavaIsReadAright
  FramesSurviveCuts
  OneSocketPerRoot
PROPERTIES
  ParsesAreReused
CHECK_DEADLOCK FALSE
