CONSTANTS
  Null = Null
  Vocabulary <- Tokenizer
  Routes <- SomeRoutes
  Jobs <- SomeJobs
  AnswerLengths = {1, 4}
  InspectPrompt = 3
  BatchPrompt = 3
  ReducePrompt = 1
  FinalPrompt = 4
  FinalPromptProbed = 2
  Placeholder = 1
  SlicePrefix = 1
  Protocol = 1
  MediaReserve = 3
  MinSource = 2
  MinBundle = 2
  MinNotes = 2
  MinEvidence = 2
  MaxEvidence = 8
  MinShard = 5
  ShardReserve = 2
  OverlapChars = 2
  MaxDepth = 8
SPECIFICATION Spec
INVARIANT NothingIsSkipped
INVARIANT ReductionEnds
INVARIANT PreflightIsKept
CHECK_DEADLOCK FALSE
