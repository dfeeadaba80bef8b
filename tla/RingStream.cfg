SPECIFICATION FairSpec
CONSTANTS
    Size <- MCSize
    Overtaking = FALSE
    MaxBytes = 9
INVARIANTS TypeOK StretchesAreDisjoint
PROPERTIES ImplementsStream EverythingArrives
CHECK_DEADLOCK FALSE
