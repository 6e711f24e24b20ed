CONSTANTS
    Items = 12
    Mixed = Mixed
    Unset = Unset
SPECIFICATION FairSpec
PROPERTIES QueueSpec SourceGoesOn
