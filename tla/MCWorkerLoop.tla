---------------------------- MODULE MCWorkerLoop ----------------------------
EXTENDS WorkerLoop, TLC

CONSTANTS q1, q2, w1, w2 \* model values
=============================================================================
