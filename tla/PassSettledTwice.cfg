SPECIFICATION Spec
CONSTANTS
    r1 = r1
    r2 = r2
    Runs = {r1, r2}
    Sweep = sweep
    Bare = bare
    Settings <- MCOvertaken
    LastPeriod = 2
    MaxEpoch = 2
    MaxStuck = 4
INVARIANTS NoPassSettledTwice
CHECK_DEADLOCK FALSE
