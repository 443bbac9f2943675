SPECIFICATION Spec
CONSTANTS
    e1 = e1  e2 = e2  e3 = e3  r1 = r1  r2 = r2  w1 = w1  w2 = w2  h1 = h1  h2 = h2
    None = None
    Event = {e1, e2, e3}
    Run = {r1, r2}
    Wait = {w1, w2}
    Handler = {h1, h2}
    Sweeper = Sweeper
    Matches <- MCMatches
    Scenarios <- StopScenarios
    MaxCrashes = 1
CHECK_DEADLOCK FALSE
INVARIANT ShedIsRead
