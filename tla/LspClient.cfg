\* Two callers sharing a client and the owner's shutdown: three ids, so a late
\* answer to a timed-out request can meet a later one, and one unread engine
\* frame more than the reader needs to be ahead of a registration.
CONSTANTS
  Caller = {c1, c2}
  Closer = Closer
  None = None
  MaxId = 3
  MaxOut = 2
SPECIFICATION LspSpec
INVARIANTS
  NoCrossTalk
  NoSilentWait
  NoEngineLeaks
PROPERTIES
  CallsEnd
  FaultKills
CHECK_DEADLOCK FALSE
