SPECIFICATION Spec
CONSTANTS
    None = None
    Plans <- TwoActs
    Answers = {"Done"}
    Halts = FALSE
    Foreign = FALSE
    MaxCrashes = 1
    MaxCalls = 1
INVARIANTS NeverStranded
CHECK_DEADLOCK FALSE
