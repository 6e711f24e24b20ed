CONSTANTS
    u1 = u1
    u2 = u2
    p1 = p1
    Users <- MCUsers
    Posts <- MCPosts
    Offset = 1
    Address <- MCAddress
    Loaded <- MCLoaded
    Width = 2
    AddrWidth = 3
    X = X
    None = None
    Register <- MCRegister
    Owner <- MCOwner
    Volatile = {1}
    Opaque = {2}
    ResetVal <- MCResetVal
    Fields <- MCFields
    Words <- MCWords
    PostAddress = {2}
SPECIFICATION Spec
INVARIANTS ReadsLastWritten WrittenArrives FreshVolatile AnswersInOrder
PROPERTY HeldIsHeld
