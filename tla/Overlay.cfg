SPECIFICATION FairSpec
CONSTANTS
  c1 = c1
  c2 = c2
  c3 = c3
  Calls <- Clicks
  Kinds <- AllKinds
  EmptyFile = TRUE
  Throwing = TRUE
INVARIANTS TypeOK OneHolder PlainCovered HolderSpeaks
PROPERTIES CoverGoes UsesConsole
