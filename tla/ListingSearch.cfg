CONSTANTS
    None = None
    MaxPrice = 9
    MaxRadius = 2
    MaxPageSize = 2
    Id <- MCId
    Stamp <- MCStamp
    MaxOffset = 7
    Contents <- MCContents
    Search <- MCSearch
    MaxWrites = 2
SPECIFICATION Spec
CHECK_DEADLOCK FALSE
INVARIANTS
    TypeOK
    StatementIsSound
    SteadyAnswerIsExact
    AdditionsHideNothing
    RemovalsRepeatNothing
    QuietPagesAddUp
