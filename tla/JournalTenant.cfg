\* Tables two runs of a tenant share: admission keys, the seal log, ordinals and
\* the feed.
SPECIFICATION Spec
CONSTANTS
    Runs = {r1, r2}
    Sessions = {s1}
    Owners = {o1}
    EffectKeys = {}
    AdmissionKeys = {k1}
    Outcomes = {done}
    Untils = {}
    Operators = {}
    TTL = 1
    MaxClock = 1
    MaxEpoch = 1
    MaxRecords = 3
    MaxBatch = 2
    None = None
    Nobody = Nobody
INVARIANTS SealsAreFinal OneRunPerKey IndexesFollowRecords
