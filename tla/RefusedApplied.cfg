SPECIFICATION Spec
CONSTANTS
    Person = {p1, p2}
    Candidate = {p1}
    Scenarios <- Quiet
    None = None
INVARIANT RefusedIsNotApplied
CHECK_DEADLOCK FALSE
