CONSTANTS
  h1 = h1
  screenLock = screenLock
  demoServer = demoServer
  demoClient = demoClient
  Hosts <- OneHost
  Locks <- Nothing
  Modes <- TwoModes
  Plain <- Nothing
  Ids <- ThreeIds
  NoId = 0
  MaxJobs = 2
  MaxPending = 4
  MaxOwned = 1
  Concurrency = 1
  MaxAttempts = 2
SPECIFICATION Spec
ACTION_CONSTRAINT Unexpired
INVARIANTS
  WantedModesWereAsked
  StopsAlwaysFit
  NoOvertaking
PROPERTIES
  DrainedStaysDrained
