---------------------------- MODULE FullCoverage ----------------------------
(***************************************************************************)
(* What an evaluation job promises: it is opened for a set of required     *)
(* blocks, the inspected blocks only grow, and a final score is given only *)
(* once every required block has been inspected.  Nothing is lost but by   *)
(* starting over, and no score outlives the coverage it was earned with.   *)
(***************************************************************************)
CONSTANTS Sources, NotOpened

VARIABLES
  required,  \* the required blocks, or NotOpened
  visited,   \* the blocks inspected so far
  final      \* a final score was given

coverageVars == <<required, visited, final>>

CoverageInit == required = NotOpened /\ visited = {} /\ final = FALSE

Open(R) ==
  /\ required = NotOpened
  /\ required' = R
  /\ UNCHANGED <<visited, final>>

\* More is inspected.  A score that was given before is withdrawn with the first new
\* block: it has to be earned again.
Inspect(V) ==
  /\ required # NotOpened
  /\ visited' = visited \cup V
  /\ final' = FALSE
  /\ UNCHANGED required

Finalize ==
  /\ required # NotOpened
  /\ required \subseteq visited
  /\ final' = TRUE
  /\ UNCHANGED <<required, visited>>

\* The whole job is done again: with nothing inspected, and without a score.
StartOver(R) ==
  /\ required # NotOpened
  /\ required' = R
  /\ visited' = {}
  /\ final' = FALSE

\* The final gates are passed again, and refuse the score.
Withdraw ==
  /\ final
  /\ final' = FALSE
  /\ UNCHANGED <<required, visited>>

CoverageNext ==
  \/ \E R \in SUBSET Sources : Open(R)
  \/ \E V \in SUBSET Sources : Inspect(V)
  \/ Finalize
  \/ \E R \in SUBSET Sources : StartOver(R)
  \/ Withdraw

CoverageSpec == CoverageInit /\ [][CoverageNext]_coverageVars
=============================================================================
