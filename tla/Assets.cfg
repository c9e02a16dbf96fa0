SPECIFICATION FairSpec
CONSTANTS
  v1 = v1
  Files <- EngineAndDisk
  Last = 3
  Content <- Contents
  Tag <- Tags
  Visitors <- One
  Size = 2
  Ranges <- AllRanges
INVARIANTS OneRelease RangeIsExact
PROPERTY Arrives
CHECK_DEADLOCK FALSE
