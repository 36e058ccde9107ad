SPECIFICATION WatchSpec
CONSTANTS
    d1 = d1
    d2 = d2
    Displays = {d1}
    TargetsOf <- NoOccurrences
    OfflineConfirmations = 2
    MaxRequests = 1
    MaxGenerations = 2
    MaxFailures = 1
ACTION_CONSTRAINT Watched
INVARIANTS
    WatcherLives
PROPERTIES
    StreamEndIsConfirmed
    DisabledNeverStarts
    StopEndsSession
    HoldEnds
    DisabledEnds
