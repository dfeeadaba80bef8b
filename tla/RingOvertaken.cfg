SPECIFICATION Spec
CONSTANTS
    Size <- MCSize
    Overtaking = TRUE
    MaxBytes = 9
INVARIANT ReadsWhatWasWritten
CHECK_DEADLOCK FALSE
