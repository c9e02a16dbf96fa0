SPECIFICATION FairSpec
CONSTANTS
    small = small  large = large  noSize = noSize
    Sizes <- TwoSizes
    NoSize = noSize
    MaxResizes = 1
    MaxKeys = 2
    MaxOps = 2
    SlowBoot = TRUE
INVARIANTS
    TypeOK
    ToldIsTrue
PROPERTY Converges
CHECK_DEADLOCK FALSE
