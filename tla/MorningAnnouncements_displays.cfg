SPECIFICATION DisplaySpec
CONSTANTS
    d1 = d1
    d2 = d2
    Displays = {d1, d2}
    TargetsOf <- OneOccurrence
    OfflineConfirmations = 1
    MaxRequests = 2
    MaxGenerations = 1
    MaxFailures = 2
ACTION_CONSTRAINT Undisturbed
SYMMETRY TwoDisplays
INVARIANTS
    MusicIsHeld
    HoldsHaveOwners
    PendingIsRetried
    NothingLeftShowing
PROPERTIES
    FrozenIsQuiet
