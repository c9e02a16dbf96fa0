SPECIFICATION FairSpec
CONSTANTS
    small = small  large = large  noSize = noSize
    Sizes <- TwoSizes
    NoSize = noSize
    MaxResizes = 1
    MaxKeys = 1
    MaxOps = 0
    SlowBoot = FALSE
PROPERTY Lands
CHECK_DEADLOCK FALSE
