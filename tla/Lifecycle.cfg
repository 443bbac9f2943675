SPECIFICATION Spec
CONSTANTS
    None = None
    Plans <- AllPlans
    Answers = {"Done", "DidNotHappen", "Landed", "InDoubt"}
    Halts = TRUE
    Foreign = TRUE
    MaxCrashes = 1
    MaxCalls = 1
INVARIANTS EndedMeansPutBack
PROPERTIES UndoneInReverse RecordIsHeeded HandsBackListed
CHECK_DEADLOCK FALSE
