CONSTANTS
  h1 = h1
  screenLock = screenLock
  demoServer = demoServer
  demoClient = demoClient
  Hosts <- OneHost
  Locks <- OneLock
  Modes <- Nothing
  Plain <- Nothing
  Ids <- ThreeIds
  NoId = 0
  MaxJobs = 2
  MaxPending = 4
  MaxOwned = 2
  Concurrency = 1
  MaxAttempts = 2
SPECIFICATION FairSpec
INVARIANTS
  TypeOK
  JournalCoversOurs
  ConfirmedIsOwned
PROPERTIES
  NoStaleLock
  Released
