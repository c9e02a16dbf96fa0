SPECIFICATION FairSpec
CONSTANTS
    MaxOps = 2
    NBlocks = 2
    Budget <- Mixed
INVARIANTS
    TypeOK
    UnpacksOnlyWhole
    UntouchedIsTrue
    VerdictIsTrue
    HandedBack
    NeverTypesBlind
PROPERTY UsesConsole
CHECK_DEADLOCK FALSE
