SPECIFICATION Spec
CONSTANTS
    Scheduled = {"s2"}
    Continuous = {}
    Manual = {}
    Tests = {"t1"}
    Uses <- Resources
PROPERTIES
    ResumeEndsTests
