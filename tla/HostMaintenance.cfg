SPECIFICATION FairSpec
CONSTANTS
    Targets <- TwoRoots
    Existing <- OneExists
    MaxBuild = 2
    MaxJobs = 2
    MaxCrashes = 2
ACTION_CONSTRAINT Apart
INVARIANTS
    WayBackIsKept
    RestartsAreNotRepeated
PROPERTIES
    ChangesAreAllOrNothing
    InterruptedWorkIsSettled
    LockIsReleased
CHECK_DEADLOCK FALSE
