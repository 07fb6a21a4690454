SPECIFICATION FairSpec
CONSTANTS
    r1 = r1
    r2 = r2
    Request <- MCRequest
    trace = trace
    unsafe = unsafe
    CallerId <- MCCallerId
    ValidId <- MCValidId
    Nobody = Nobody
CHECK_DEADLOCK FALSE
INVARIANTS
    TypeOK
    NoCrossTalk
    AnswersBearTheId
    AccessLogAgrees
    SupportCanFind
PROPERTY
    EveryRequestAnswered
