CONSTANTS
    None = None
    MaxPrice = 9
    MaxRadius = 2
    MaxPageSize = 2
    Id <- MCId
    Stamp <- MCStamp
    MaxOffset = 7
    Contents <- MCContents
    Search <- MCOneSearch
    MaxWrites = 1
SPECIFICATION Spec
CHECK_DEADLOCK FALSE
INVARIANTS
    PageAgreesWithTotal
