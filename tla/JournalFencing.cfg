\* Fencing: executors compete for one run, with takeovers, lapses, releases,
\* reopenings and restores between any two writes.
SPECIFICATION Spec
CONSTANTS
    Runs = {r1}
    Sessions = {s1, s2}
    Owners = {o1, o2}
    EffectKeys = {k1}
    AdmissionKeys = {}
    Outcomes = {failed, done}
    Untils = {u1}
    Operators = {op1}
    TTL = 1
    MaxClock = 2
    MaxEpoch = 3
    MaxRecords = 3
    MaxBatch = 2
    None = None
    Nobody = Nobody
INVARIANTS IndexesFollowRecords EpochsAscend SoleWriter OneStartPerKey
PROPERTIES TokensOnlyGrow ImplementsFencedLog
