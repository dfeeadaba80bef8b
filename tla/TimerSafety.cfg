SPECIFICATION MCSpec
CONSTANTS
    Day = 2
    Timers = {"single", "daily"}
    Request <- MCRequest
    Changes <- MCChanges
    Diffs <- MCDiffs
    Margins = {0, 1}
    Cmds = {"add", "remove", "stop", "modify", "apids", "reschedule", "safety", "shutdown"}
    Faults = {"poweroff", "tear"}
    MaxTime = 3
    MaxCmds = 3
    MaxBoots = 2
INVARIANTS TypeOK IntactRecordingIsOwned UnsavedIsFlagged UndisturbedStartsBounded
PROPERTY IntactTimersSurvive
CHECK_DEADLOCK FALSE
