CONSTANTS
    Run = {1, 2, 3}
    SeedArg = {42}
    MaxCount = 2
    PostedId = {a1}
SPECIFICATION Spec
CHECK_DEADLOCK FALSE
INVARIANTS
    TypeOK
    OneOwner
    ResetReproduces
    BatchesAreFresh
    SomeSeedGoesOn
PROPERTIES
    WholeBatches
