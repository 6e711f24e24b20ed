CONSTANTS
    a = a
    b = b
    Data <- MCData
    Request <- MCRequest
    Size = 4
    Lengths = 4
    Waiters <- MCBoth
    None = None
SPECIFICATION Spec
INVARIANT NoBeatLost
