SPECIFICATION MCSpec
CONSTANTS
    None = None
    Channels = {a, b}
    Firsts = {a}
    Blacklists <- MCBlacklists
    MaxVersion = 1
    MaxInputs = 2
INVARIANTS PausesAreCounted NowNextIsOfChannel
PROPERTIES FollowsTheBroadcast ShutdownEnds
CHECK_DEADLOCK FALSE
