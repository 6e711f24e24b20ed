CONSTANTS
    Breaks = {2}
    Waits = {}
    TickPeriod = 2
    MaxTime = 4
    MaxRequest = 1
    Relative = {TRUE, FALSE}
    None = None
    Margin = 2
    MaxItems = 1
SPECIFICATION ChannelSpec
INVARIANT CtrlRuns
CHECK_DEADLOCK FALSE
