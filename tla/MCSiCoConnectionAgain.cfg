CONSTANTS
    MaxConnects = 2
    MaxMessages = 2
SPECIFICATION FairSpec
PROPERTY AcceptsAgain
CHECK_DEADLOCK FALSE
