-------------------------- MODULE MCExecutionPlane --------------------------
EXTENDS ExecutionPlane, TLC

CONSTANTS b1, b2 \* model values

\* An exception found in both blocks, a fact in one of them.
Shared == [kind |-> "exception", value |-> "v1"]
Single == [kind |-> "number", value |-> "v2"]

SomeAtoms == [b \in {b1, b2} |-> IF b = b1 THEN {Shared, Single} ELSE {Shared}]
TwoBlocks == <<b1, b2>>

OneAndTwoFaults == [cancels |-> 1, failures |-> 2, faults |-> 2]
=============================================================================
