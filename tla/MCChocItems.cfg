CONSTANTS
    Pushers = {p1, p2}
    Pullers = {q1, q2}
    MaxValue = 4
    NoValue = NoValue
    None = None
    PipeEnd = PipeEnd
    Probes <- MCProbes
    Companions <- MCCompanions
    Missed = {0, 3, 12}
    Values <- MCValues
    Ranges <- MCRanges
    Clocks <- MCClocks
    MaxFeeds = 3
    Limits = {2}
SPECIFICATION ItemsSpec
INVARIANTS InPushOrder PairsArrive ReadsSignal EdgesFound ReadBack
PROPERTIES PushWaits Meets LineIsEven
CHECK_DEADLOCK FALSE
