SPECIFICATION FairSpec
CONSTANTS
    Person = {p1, p2}
    Candidate = {p1}
    Scenarios <- Dying
    None = None
PROPERTY DecisionArrives
CHECK_DEADLOCK FALSE
