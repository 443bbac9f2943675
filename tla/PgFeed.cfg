SPECIFICATION Spec
CONSTANTS
    k1 = k1
    e1 = e1
    None = None
    Runs = {r1, r2}
    Writers = {w1, w2}
    AdmissionKeys = {k1}
    Batches <- MCBatches
    Histories <- MCHistories
    PageLimit = 1
    MaxEpoch = 2
    MaxRecords = 3
    MaxXid = 3
SYMMETRY Interchangeable
INVARIANTS FeedIsFaithful TablesAgree
PROPERTIES LogOnlyGrows StepsAsFencedLog
CHECK_DEADLOCK FALSE
