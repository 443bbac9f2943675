SPECIFICATION FairSpec
CONSTANTS
    Settings <- AllSettings
    None = None
INVARIANTS LandsOnEvidence HistoryIsFollowed DoubtIsKnown
PROPERTIES StrictIsPure PassEnds
