SPECIFICATION Spec
CONSTANTS
    Timed = {"a", "b"}
    Manual = {"m", "n"}
    None = "none"
    Boxes <- OverBoxes
INVARIANT OneRecording
CHECK_DEADLOCK FALSE
