CONSTANTS
    price = price
    city = city
    v1 = v1
    v2 = v2
    id1 = id1
    Column <- MCColumn
    Required <- MCRequired
    Value <- MCValue
    Null = Null
    Unset = Unset
    NoId = NoId
    Absent = Absent
    Gone = Gone
    NoReply = NoReply
    Initial <- MCInitial
    Request = {r1, r2, r3}
    Id = {id1, id2}
    CreateBody <- MCGoodCreateBody
    PatchBody <- MCGoodPatchBody
    MaxClock = 1
SPECIFICATION Spec
SYMMETRY RequestSymmetry
INVARIANTS
    TypeOK
    OpenWriteIsCurrent
    DeletedOnce
    UpdatedNotBeforeCreated
PROPERTIES
    AtomicRequests
