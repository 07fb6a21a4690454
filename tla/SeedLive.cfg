CONSTANTS
    Run = {1, 2, 3}
    SeedArg = {42}
    MaxCount = 2
    PostedId = {}
SPECIFICATION FairSpec
CHECK_DEADLOCK FALSE
PROPERTIES
    EveryRunEnds
