\* Two places in the queue, two in Redis, two in memory: five events overflow
\* each of them and leave a middle.
SPECIFICATION FairSpec
CONSTANTS
  QueueCap = 2
  CacheCap = 2
  MemoryCap = 2
  MaxEvents = 5
INVARIANTS
  TypeOK
  CacheCoversHistory
  UndisturbedIsComplete
PROPERTIES
  ImplementsEventLog
  PendingAdvances
