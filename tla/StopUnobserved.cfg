SPECIFICATION FairSpec
CONSTANTS
    None = None
    Plans <- Waiting
    Answers = {"Done"}
    Halts = FALSE
    Foreign = FALSE
    MaxCrashes = 0
    MaxCalls = 0
PROPERTIES StopArrives
CHECK_DEADLOCK FALSE
