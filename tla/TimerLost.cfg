SPECIFICATION MCSpec
CONSTANTS
    Day = 2
    Timers = {"single"}
    Request <- MCRequest
    Changes <- MCChanges
    Diffs <- MCDiffs
    Margins = {0, 1}
    Cmds = {"add", "safety", "shutdown"}
    Faults = {}
    MaxTime = 3
    MaxCmds = 4
    MaxBoots = 1
PROPERTY StoredTimersSurvive
CHECK_DEADLOCK FALSE
