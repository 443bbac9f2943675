SPECIFICATION Spec
CONSTANTS
    Settings <- MCStopped
    None = None
PROPERTY
    AbortedMeansNothing
CHECK_DEADLOCK FALSE
