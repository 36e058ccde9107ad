SPECIFICATION Spec
CONSTANTS
    Scheduled = {"s1", "s2"}
    Continuous = {"s1"}
    Manual = {}
    Tests = {}
    Uses <- Resources
ACTION_CONSTRAINT Ledger
INVARIANTS
    StopsAreSaved
PROPERTIES
    StopIsTerminal
    AtMostOnce
