SPECIFICATION FairSpec
CONSTANTS
    Scheduled = {"s1"}
    Continuous = {"s1"}
    Manual = {"m1"}
    Tests = {"t1"}
    Uses <- Resources
ACTION_CONSTRAINT Drain
INVARIANTS
    FrozenIsQuiet
PROPERTIES
    WaitersGetOn
    ShutdownDrains
