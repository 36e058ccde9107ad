SPECIFICATION Spec
CONSTANTS
    Scheduled = {"s1", "s2"}
    Continuous = {"s1"}
    Manual = {"m1"}
    Tests = {}
    Uses <- Resources
ACTION_CONSTRAINT Ownership
INVARIANTS
    ExclusiveOwners
    ResumeDrainsManualRuns
