CONSTANTS
  Keys = {1}
  Allocation <- MCAllocation
  Tasks = {t1, t2}
  Workers = {w1}
  PagePoolCapacity = 2
  MaxInflightBytes = 2
  MaxEntries = 2
  MaxLoads = 2
  MaxWaiters = 2
  MaxWaitersPerPage = 2
  MaxLeases = 2
  QueueCapacity = 2
  MaxTick = 3
SPECIFICATION FairSpec
PROPERTIES WaiterAnswered ShutdownDrains
CHECK_DEADLOCK FALSE
