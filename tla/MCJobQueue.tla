----------------------------- MODULE MCJobQueue -----------------------------
\* The queue under arbitrary clients, on an instance TLC can enumerate.
EXTENDS JobQueue, TLC

CONSTANTS
  q1, q2, w1, w2, \* model values
  MaxLeases       \* bound: a row is leased at most MaxLeases times

BoundedLeases == \A q \in QueueIds : jobs[q].attempts <= MaxLeases

MCNext == QueueNext /\ BoundedLeases'
MCSpec == QueueInit /\ [][MCNext]_queueVars

Symmetry == Permutations(Workers) \cup Permutations(QueueIds)
=============================================================================
