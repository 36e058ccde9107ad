SPECIFICATION DisplaySpec
CONSTANTS
    d1 = d1
    d2 = d2
    Displays = {d1, d2}
    TargetsOf <- TwoOccurrences
    OfflineConfirmations = 1
    MaxRequests = 2
    MaxGenerations = 1
    MaxFailures = 0
ACTION_CONSTRAINT Unaided
INVARIANTS
    ShowsNewest
