SPECIFICATION FairSpec
CONSTANTS
    Uploads = {u1}
    Chunks = {c1, c2}
    Quota = 1
    MaxRequests = 2
    Graders = {a}
    MaxEdits = 1
    MaxReplies = 1
    Devices = {d1}
    MaxVersion = 1
    Sources = {s1}
    MaxSaves = 2
    MaxData = 2
    Windows = {"today"}
    MaxPresses = 2
    Displays = {d2}
    MaxCommands = 3
    Decks = {p1}
    Slides = 2
    MaxTasks = 4
    Hosts = {h1}
    Calls = {r1, r2}
    MaxSessions = 2
    MaxCalls = 2
    Services = {"uploads", "learning", "updates", "sports", "music", "displays", "slides", "lab"}
    MaxUsed = 1
    MaxChanges = 1
    MaxExports = 1
    MaxRestarts = 1
CONSTRAINTS
    OneProduct
    UntilExported
    UntilUnanswered
    FewCommands
    FewTasks
    FewSweeps
INVARIANTS
    UncertainWorkIsNotRepeated
PROPERTIES
    UploadsAreKept
    NewerWorkIsKept
    DisplaysShowWhatTheyShould
    SessionsAreKept
    ExportedDataIsStill
    WorkEnds
CHECK_DEADLOCK FALSE
