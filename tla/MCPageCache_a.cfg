CONSTANTS
  Keys = {1, 3}
  Allocation <- MCAllocation
  Tasks = {t1, t2}
  Workers = {w1}
  PagePoolCapacity = 2
  MaxInflightBytes = 2
  MaxEntries = 2
  MaxLoads = 2
  MaxWaiters = 2
  MaxWaitersPerPage = 2
  MaxLeases = 2
  QueueCapacity = 1
  MaxTick = 3
SPECIFICATION Spec
SYMMETRY Symmetry
INVARIANTS ChargesExact CapacityRespected SlotsExact LeasesBacked SingleFlight PrefetchAccounted
PROPERTIES PublicationRule ImplementsLifecycle
CHECK_DEADLOCK FALSE
