\* Four progress events (an index, and the start of another) and two requests:
\* the second meets whatever the first left behind.
CONSTANTS
  MaxEvents = 4
  MaxRequests = 2
SPECIFICATION WarmSpec
INVARIANTS
  ClosedVerdict
PROPERTIES
  WaitsEndWithTheSession
CHECK_DEADLOCK FALSE
