CONSTANTS
    Breaks = {2, 3}
    Waits = {w1}
    TickPeriod = 1
    MaxTime = 1
    MaxRequest = 0
    Relative = {TRUE, FALSE}
    None = None
SPECIFICATION FairSpec
PROPERTIES TalkGoesOn WaitEnds
CHECK_DEADLOCK FALSE
