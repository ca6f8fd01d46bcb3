CONSTANTS
  b1 = b1
  b2 = b2
  Blocks = {b1, b2}
  Atoms <- SomeAtoms
  Order <- TwoBlocks
  Threshold = 3
  MaxRows = 2
  Budget <- OneAndTwoFaults
  Null = Null
SPECIFICATION Spec
INVARIANT BundleIsExact
PROPERTY UndoneOnlyByOverlap
PROPERTY OutcomeIsOwn
PROPERTY CancelIsKept
CHECK_DEADLOCK FALSE
