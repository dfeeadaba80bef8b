SPECIFICATION Spec
CONSTANTS
    Timed = {"a", "b"}
    Manual = {"m", "n"}
    None = "none"
    Boxes <- SafetyBoxes
INVARIANTS TypeOK NeverCrashes TimersTakeTurns WaitingIsServed ZapitFollowsTelevision
CHECK_DEADLOCK FALSE
