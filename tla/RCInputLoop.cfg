SPECIFICATION Spec
CONSTANTS
    None = "none"
    Repeating = {"up"}
    Plain = {"ok", "standby"}
    RepeatBlock = 2
    GenericBlock = 1
    MainTimeout = 2
    DialogTimeout = 3
    Intervals = {1, 2}
    Offsets = {10, 60}
    Scenarios <- MCScenarios
    MaxInputs = 4
    MaxPending = 2
    MaxTimers = 2
    MaxTime = 4
INVARIANT TypeOK
PROPERTIES TimersFireInTime DialogsCloseInTime PressesActOnce
CHECK_DEADLOCK FALSE
