SPECIFICATION FairSpec
CONSTANTS
    MaxOps = 3
    MaxFaults = 3
    Budget <- AnyFault
INVARIANTS
    TypeOK
    MuxWhereFound
    KeyboardGuarded
    TypedAtRightSide
    StoppedForCause
    PageKnowsMachine
    ReportsHold
    NoContAfterFailedLoad
PROPERTY UsesConsole
CHECK_DEADLOCK FALSE
