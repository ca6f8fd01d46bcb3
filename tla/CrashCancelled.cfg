CONSTANTS
  q1 = q1
  q2 = q2
  w1 = w1
  w2 = w2
  QueueIds = {q1, q2}
  LogicalJobs = {"ingest_1", "job_1"}
  IngestJobs = {"ingest_1"}
  Workers = {w1, w2}
  Priorities = {100}
  AttemptLimits = {1, 2}
  Delays = {1}
  LeaseTicks = 2
  MaxRun = 2
  MaxCrashes = 1
  Null = Null
SPECIFICATION FairLoopSpec
PROPERTY CrashedJobIsRetaken
