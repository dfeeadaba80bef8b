SPECIFICATION MCFairSpec
CONSTANTS
    Day = 2
    Timers = {"series", "nodays"}
    Request <- MCRequest
    Changes <- MCChangesUndefined
    Diffs <- MCDiffs
    Margins = {0, 1}
    Cmds = {"add", "remove", "modify"}
    Faults = {}
    MaxTime = 5
    MaxCmds = 3
    MaxBoots = 0
PROPERTIES RemovedNeverStarts RemovedIsForgotten DueTimersStart RecordingsEnd MutexReleased
CHECK_DEADLOCK FALSE
