CONSTANTS
    a = a
    b = b
    Data <- MCData
    NoData = NoData
    LENGTH = 4
SPECIFICATION FairSpec
INVARIANT CountsAreExact
PROPERTIES FifoQueueSpec PeekQueueSpec ItemsShowUp
