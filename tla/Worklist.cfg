SPECIFICATION FairSpec
CONSTANTS
    Person = {p1, p2}
    Candidate = {p1}
    Scenarios <- MCScenarios
    None = None
INVARIANTS DecisionStands
PROPERTIES NothingAfterTheEnd WaitsEnd
CHECK_DEADLOCK FALSE
