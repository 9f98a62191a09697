\* One artifact with one object, and two faults.
CONSTANTS
  A = A
  B = B
  o1 = o1
  o2 = o2
  None = None
  Artifacts = {A}
  Refs <- SingleRefs
  Blobs <- SingleBlobs
  Inodes = {i1, i2, i3, i4, i5}
  Room = 4
  MaxFaults = 2
SPECIFICATION FairSpec
CHECK_DEADLOCK FALSE
INVARIANTS FinalNamesComplete
PROPERTIES AliasesOutlastPublication ImplementsCatalog RetrySucceeds
