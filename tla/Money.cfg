SPECIFICATION Spec
CONSTANTS
    Digits = 3
    Bits = 12
    MaxLiteral = 12000
    Nothing = Nothing
CHECK_DEADLOCK FALSE
INVARIANTS
    TypeOK
    AmountIsKept
    ToldIsStored
PROPERTY
    ResendChangesNothing
