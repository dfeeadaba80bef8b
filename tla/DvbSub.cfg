SPECIFICATION Spec
CONSTANTS
    None = None
    Pids = {p1, p2}
    MaxCalls <- MCMaxCalls
    MaxPackets = 2
INVARIANTS TypeOK PausedShowsNothing HangsOnlyIfMissed
PROPERTIES CallsReturn QueueIsServed
CHECK_DEADLOCK FALSE
