\* Two instances write, hold and erase three derived memories; one call fails.
SPECIFICATION Spec
CONSTANTS
    a = a
    b = b
    c = c
    Instances = {i1, i2}
    None = None
    Ids <- MCIds
    Sources <- MCSources
    MaxVersion <- MCMaxVersion
    MaxFaults = 1
    MaxStray = 1
SYMMETRY Interchangeable
INVARIANTS ErasureIsKept KeptIsReadable
PROPERTIES HeldIsKept
CHECK_DEADLOCK FALSE
