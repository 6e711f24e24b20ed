CONSTANTS
    Breaks = {2, 3}
    Waits = {}
    TickPeriod = 2
    MaxTime = 4
    MaxRequest = 1
    Relative = {FALSE}
    None = None
    Margin = 2
    MaxItems = 2
SPECIFICATION ChannelSpec
INVARIANTS ControlsRun HoldHolds PromiseKept ItemsOnTime
PROPERTY ItemsInOrder
CHECK_DEADLOCK FALSE
