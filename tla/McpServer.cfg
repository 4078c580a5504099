\* Two calls over two client roots and the server's own, so that they can meet on
\* one root or be about different ones; the roots change twice, so that an old
\* answer can arrive after a newer one.
CONSTANTS
  Call = {c1, c2}
  Root = {r1, r2}
  ServerRoot = r0
  MaxChanges = 2
SPECIFICATION McpSpec
INVARIANTS
  OneSessionPerRoot
  NoStrayEngine
PROPERTIES
  CallsReachTheirCommand
CHECK_DEADLOCK FALSE
