SPECIFICATION MCSpec
CONSTANTS
    Recordings = 2
    Capacity = 2
    Packet = 1
    InSize = 2
    MaxBytes = 4
INVARIANTS TypeOK FilesAreGapless
PROPERTIES RecordingsEnd
CHECK_DEADLOCK FALSE
