\* Two artifacts with a common object: 1 fault, and a disk of 16 units.
CONSTANTS
  A = A
  B = B
  o1 = o1
  o2 = o2
  None = None
  Artifacts = {A, B}
  Refs <- SharedRefs
  Blobs <- SharedBlobs
  Inodes = {i1, i2, i3, i4, i5, i6, i7}
  Room = 7
  MaxFaults = 1
  Files = {f1, f2, f3, f4}
  AllocationUnit = 2
  CopyBuffer = 3
  PageSize = 4
  max_bytes = 14
  reserve_bytes = 2
  Capacity = 16
  OtherBytes = 2
SPECIFICATION StoreSpec
SYMMETRY FilesAlike
CHECK_DEADLOCK FALSE
INVARIANTS CommittedClosed WithinBudget DeliveredIsAuthentic
