CONSTANTS
    Run = {1, 2}
    SeedArg = {42}
    MaxCount = 1
    PostedId = {a1}
SPECIFICATION FairSpec
CHECK_DEADLOCK FALSE
PROPERTIES
    RerunNeverCollides
