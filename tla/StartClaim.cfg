\* Three starts racing on one claim path, with one inode number more than there
\* are starts, so that removed inodes stay open while fresh ones are linked and
\* numbers get reused.
CONSTANTS
  Starter = {s1, s2, s3}
  Inode = {i1, i2, i3, i4}
  None = None
SPECIFICATION ClaimSpec
INVARIANTS
  ClaimExclusive
PROPERTIES
  ReleaseRemovesOwnClaim
  ImplementsLease
