CONSTANTS
  Keys = {1, 2, 3}
  Allocation <- MCAllocation
  Tasks = {t1}
  Workers = {w1, w2}
  PagePoolCapacity = 3
  MaxInflightBytes = 2
  MaxEntries = 3
  MaxLoads = 2
  MaxWaiters = 1
  MaxWaitersPerPage = 1
  MaxLeases = 1
  QueueCapacity = 2
  MaxTick = 4
SPECIFICATION Spec
ACTION_CONSTRAINT EveryLoadPublished
SYMMETRY Symmetry
PROPERTIES EvictionOrder
CHECK_DEADLOCK FALSE
