CONSTANTS
  q1 = q1
  q2 = q2
  w1 = w1
  w2 = w2
  QueueIds = {q1, q2}
  LogicalJobs = {"job"}
  Workers = {w1, w2}
  Priorities = {1, 2}
  AttemptLimits = {0, 2}
  Delays = {1}
  LeaseTicks = 1
  Null = Null
  MaxLeases = 2
SPECIFICATION MCSpec
SYMMETRY Symmetry
INVARIANT QueueTypeOK
INVARIANT LeaseShape
PROPERTY LeaseNeverStolen
PROPERTY CancelledNeverLeased
PROPERTY LeaseOrder
