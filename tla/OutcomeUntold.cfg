SPECIFICATION Spec
CONSTANTS
    w1 = w1
    w2 = w2
    Workers = {w1, w2}
    Settings <- MCSmooth
    MaxAttempts = 2
    Page = 2
    MaxRecords = 4
INVARIANTS OutcomeIsTold
CHECK_DEADLOCK FALSE
