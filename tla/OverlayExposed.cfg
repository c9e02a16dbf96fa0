SPECIFICATION Spec
CONSTANTS
  c1 = c1
  c2 = c2
  c3 = c3
  Calls <- One
  Kinds <- Download
  EmptyFile = FALSE
  Throwing = FALSE
INVARIANT CoveredWhileBusy
