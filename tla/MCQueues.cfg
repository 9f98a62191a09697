CONSTANTS
  Clients = {c1, c2, c3}
  Workers = {w1, w2}
  Requests = {r1, r2}
  QueueCapacity = 1
  None = None
  Producers = {p1, p2}
  Consumers = {d1, d2}
  TraceCapacity = 2
  MaxRecords = 3
  MaxDrains = 2
SPECIFICATION QueuesSpec
CHECK_DEADLOCK FALSE
INVARIANTS EachRequestOnce DropLeavesNoWork EveryRecordAccounted
PROPERTIES ImplementsService AdmittedCompletes JoinsReturn
