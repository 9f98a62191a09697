CONSTANTS
  Keys = {1, 2}
  Allocation <- MCAllocation
  Tasks = {t1}
  Workers = {w1}
  PagePoolCapacity = 1
  MaxInflightBytes = 1
  MaxEntries = 2
  MaxLoads = 2
  MaxWaiters = 2
  MaxWaitersPerPage = 2
  MaxLeases = 2
  QueueCapacity = 1
  MaxTick = 3
SPECIFICATION Spec
INVARIANT PayloadsFitPool
CHECK_DEADLOCK FALSE
