SPECIFICATION FairSpec
CONSTANTS
    w1 = w1
    w2 = w2
    Workers = {w1, w2}
    Settings <- MCSettings
    MaxAttempts = 2
    Page = 2
    MaxRecords = 4
INVARIANTS DeliveredInOrder
PROPERTIES NeverRewinds EndsAndRetires
CHECK_DEADLOCK FALSE
