\* The ring refuses one key of a cascade that also trims a version.
SPECIFICATION Spec
CONSTANTS
    a = a
    b = b
    c = c
    Instances = {i1, i2}
    None = None
    Ids <- MCIds
    Sources <- MCSources
    MaxVersion <- MCMaxVersion
    MaxFaults = 1
    MaxStray = 1
SYMMETRY Interchangeable
CHECK_DEADLOCK FALSE
INVARIANT EveryDebtIsKept
