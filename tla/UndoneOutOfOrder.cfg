SPECIFICATION Spec
CONSTANTS
    None = None
    Plans <- Backward
    Answers = {"Done", "InDoubt"}
    Halts = FALSE
    Foreign = FALSE
    MaxCrashes = 0
    MaxCalls = 2
PROPERTIES UndoneInReverse
CHECK_DEADLOCK FALSE
