CONSTANTS
  Starter = {s1, s2, s3}
  Stopper = {x1}
  Server = {d1, d2}
  Inode = {i1, i2, i3, i4}
  None = None
  StartersMayDie = FALSE
  DaemonsMayCrash = TRUE
SPECIFICATION LifecycleSpec
SYMMETRY Interchangeable
INVARIANTS
  LifecycleTypeOK
  SettlesOnOneDaemon
  NoOrphan
PROPERTIES
  StartStopsOnlyMismatched
CHECK_DEADLOCK FALSE
