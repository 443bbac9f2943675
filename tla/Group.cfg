SPECIFICATION Spec
CONSTANTS
    Settings <- MCSettings
    None = None
INVARIANTS EndingIsTrue
PROPERTIES AllOrNothing UndoIsOrderly
CHECK_DEADLOCK FALSE
