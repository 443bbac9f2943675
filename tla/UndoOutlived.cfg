SPECIFICATION Spec
CONSTANTS
    None = None
    Plans <- ActsAgain
    Answers = {"Done", "DidNotHappen"}
    Halts = FALSE
    Foreign = FALSE
    MaxCrashes = 0
    MaxCalls = 0
INVARIANTS FailureWholeOrUntouched
CHECK_DEADLOCK FALSE
