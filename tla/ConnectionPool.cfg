SPECIFICATION FairSpec
CONSTANTS
    Request = {1, 2, 3}
    Kinds <- MCKinds
    PoolSize = 1
    MaxOverflow = 1
    MaxOutages = 1
    Nobody = Nobody
CHECK_DEADLOCK FALSE
INVARIANTS
    TypeOK
    NoConnectionLost
    RepliesAreHonest
    SomeRequestGoesOn
PROPERTY
    EveryRequestEnds
