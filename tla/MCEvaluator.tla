---------------------------- MODULE MCEvaluator ----------------------------
EXTENDS Evaluator, TLC

CONSTANTS b1, b2, b3 \* model values

\* A complete corpus, and the same before a file is repaired.
Whole == [required |-> <<b1, b2, b3>>, ready |-> TRUE]
Part == [required |-> <<b1, b2>>, ready |-> FALSE]

PartThenWhole == {Part, Whole}

\* A route that inspects everything, one without a capability b2 asks for, and one
\* whose context is too small for the decision bundle.
FullRoute == [capable |-> {b1, b2, b3}, fits |-> TRUE]
TextRoute == [capable |-> {b1, b3}, fits |-> TRUE]
SmallRoute == [capable |-> {b1, b2, b3}, fits |-> FALSE]

AllRoutes == {FullRoute, TextRoute, SmallRoute}

OneOfEach == [failures |-> 1, restarts |-> 1, repairs |-> 1, cancels |-> 1]
=============================================================================
