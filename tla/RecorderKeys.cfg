SPECIFICATION FairSpec
CONSTANTS
    Timed = {"a", "b"}
    Manual = {"m", "n"}
    None = "none"
    Boxes <- KeyBoxes
INVARIANTS StatusIsTrue RecordingIsStoppable TimedRecordingsAreKept
PROPERTIES RecordingsEnd WaitingEnds
CHECK_DEADLOCK FALSE
