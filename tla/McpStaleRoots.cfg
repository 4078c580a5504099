CONSTANTS
  Call = {c1, c2}
  Root = {r1, r2}
  ServerRoot = r0
  MaxChanges = 1
SPECIFICATION McpSpec
INVARIANTS
  RootsAreCurrent
CHECK_DEADLOCK FALSE
