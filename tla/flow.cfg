SPECIFICATION FairSpec
CONSTANTS
    Window = 4
    MaxPacket = 2
    Cap = 1
    MaxBytes = 10
INVARIANTS
    TypeOK
    WindowExact
    BacklogBounded
    KeptOnlyWhenFull
PROPERTIES
    InOrder
    RekeyQuiet
    StreamSpec
    Delivered
CHECK_DEADLOCK FALSE
