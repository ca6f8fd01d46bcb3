CONSTANTS
  NoValue = NoValue
  HashRank <- Shuffled
  Corpora <- AllCorpora
  Matrices <- AllMatrices
  Tasks <- TwoTasks
  Routes <- AllRoutes
  References <- AllReferences
  PlanRequests <- AllPlanRequests
  Gate1Spec <- Corpus1
  Gate2Spec <- Matrix2
  Gate3Spec <- Live3
  ScaleSpec <- Scale4
  Gate5Spec <- Drift5
  Workers = 2
  Attempts = 2
  MaxFaults = 1
  MaxChanges = 1
SPECIFICATION HarnessSpec
INVARIANT ProofTypeOK
INVARIANT ClaimIsEarned
INVARIANT FaithfulJudgePasses
INVARIANT PanelEvidenceKept
INVARIANT ProjectionsNest
INVARIANT FrozenPlanReplays
CHECK_DEADLOCK FALSE
