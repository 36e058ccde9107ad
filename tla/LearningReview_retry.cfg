SPECIFICATION Spec
CONSTANTS
    Graders = {a}
    MaxEdits = 1
    MaxReplies = 1
INVARIANT AcceptedWritingIsKept
