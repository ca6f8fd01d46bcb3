CONSTANTS
  b1 = b1
  b2 = b2
  b3 = b3
  Blocks = {b1, b2, b3}
  Manifests <- PartThenWhole
  Routes <- AllRoutes
  Serials = {"seed_1", "seed_2"}
  BatchSize = 2
  Limits = {1, 3}
  Budget <- OneOfEach
  Null = Null
SPECIFICATION FairSpec
INVARIANT TypeOK
INVARIANT FinalScoreIsEarned
INVARIANT InspectedOnce
PROPERTY FullCoverageImplemented
PROPERTY JobFinishes
CHECK_DEADLOCK FALSE
