CONSTANTS
  MaxEvents = 2
  MaxRequests = 2
SPECIFICATION WarmSpec
INVARIANTS
  ErrorMeansIntact
CHECK_DEADLOCK FALSE
