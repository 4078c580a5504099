CONSTANTS
  Starter = {s1, s2}
  Stopper = {}
  Server = {d1, d2}
  Inode = {i1, i2, i3}
  None = None
  StartersMayDie = TRUE
  DaemonsMayCrash = TRUE
SPECIFICATION LifecycleSpec
INVARIANTS
  OneAttempt
  LockOwnersRun
PROPERTIES
  CommandsEnd
CHECK_DEADLOCK FALSE
