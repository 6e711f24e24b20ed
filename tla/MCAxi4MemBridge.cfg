CONSTANTS
    a = a
    b = b
    Data <- MCData
    Request <- MCRequest
    Size = 4
    Lengths = 4
    Waiters <- MCWaiters
    None = None
SPECIFICATION FairSpec
INVARIANT NoBeatLost
PROPERTIES OfferStands BurstSpec BurstEnds
