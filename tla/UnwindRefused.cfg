SPECIFICATION FairSpec
CONSTANTS
    None = None
    Plans <- TwoActs
    Answers = {"Done", "Landed"}
    Halts = FALSE
    Foreign = FALSE
    MaxCrashes = 1
    MaxCalls = 0
PROPERTIES UnwindFinishes
CHECK_DEADLOCK FALSE
