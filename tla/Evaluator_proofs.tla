-------------------------- MODULE Evaluator_proofs --------------------------
(***************************************************************************)
(* What an evaluation job keeps for every corpus, route, batch size, limit *)
(* and number of failures: type correctness, one receipt per inspected     *)
(* block, and a final score only at full coverage; and that every step of  *)
(* the evaluator is a step of FullCoverage.                                *)
(***************************************************************************)
EXTENDS Evaluator, FiniteSetTheorems, TLAPS

\* Requests that were made or are handed out again have a route, and one that
\* resumes finds a checkpoint.
RequestsOpen ==
  /\ \A r \in stale : r.route # Null /\ (r.resume => cp # Null)
  /\ pc = "idle" => ~request.leasable
  /\ request.resume => cp # Null

\* Between its checkpoints a run knows no more progress than the disk does.
RunMatchesCheckpoint ==
  pc \in {"preflight", "loop", "final"} =>
    /\ cp # Null
    /\ state.contract = cp.state.contract
    /\ state.visited = cp.state.visited
    /\ state.preserved = cp.state.preserved

\* What is left to do is not done yet.
TodoUnvisited == pc = "loop" => todo \cap state.visited = {}

\* Past the gates nothing of the contract is missing.
GatePassed ==
  pc = "final" =>
    /\ state.contract.ids \subseteq state.visited
    /\ state.contract.ids \cap state.failures = {}

\* The inductive invariant.
EvalInv ==
  /\ TypeOK
  /\ RequestsOpen
  /\ RunMatchesCheckpoint
  /\ TodoUnvisited
  /\ GatePassed
  /\ FinalScoreIsEarned
  /\ InspectedOnce

-----------------------------------------------------------------------------
\* The operators.

\* The required blocks of a manifest are blocks, and finitely many.
LEMMA RequiredAreBlocks ==
  ASSUME NEW m \in Manifests
  PROVE Range(m.required) \subseteq Blocks
<1>1. m.required \in Seq(Blocks)
  BY EvaluatorAssumption
<1>2. QED BY <1>1 DEF Range

\* A visiting order is a sequence of blocks.
LEMMA OrderingsAreSequences ==
  ASSUME NEW m \in Manifests, NEW s \in Orderings(m.required)
  PROVE s \in Seq(Blocks)
<1> DEFINE ids == Range(m.required)
<1>1. ids \subseteq Blocks /\ IsFiniteSet(Blocks)
  BY RequiredAreBlocks, EvaluatorAssumption
<1>2. IsFiniteSet(ids) /\ Cardinality(ids) \in Nat
  BY <1>1, FS_Subset, FS_CardinalityType
<1>3. s \in [1 .. Cardinality(ids) -> ids]
  BY DEF Orderings, Bijection, Injection
<1> HIDE DEF ids
<1>4. s \in [1 .. Cardinality(ids) -> Blocks]
  BY <1>1, <1>3
<1>5. QED BY <1>2, <1>4

LEMMA UnlimitedIsNat == Unlimited \in Nat
  BY EvaluatorAssumption, FS_CardinalityType DEF Unlimited

LEMMA CountIsNat ==
  ASSUME NEW S \in SUBSET Blocks
  PROVE Cardinality(S) \in Nat
<1>1. IsFiniteSet(S)
  BY EvaluatorAssumption, FS_Subset
<1>2. QED BY <1>1, FS_CardinalityType

LEMMA FreshStateTyped ==
  ASSUME NEW c \in Contract
  PROVE FreshState(c) \in State
BY DEF FreshState, State

\* A checkpoint of a typed state is a typed checkpoint.
LEMMA CheckpointTyped ==
  ASSUME NEW order \in Seq(Blocks), NEW st \in State, NEW status \in Statuses
  PROVE /\ Checkpoint(order, st, status) \in CheckpointRecord
        /\ Checkpoint(order, st, status) # Null
        /\ Checkpoint(order, st, status).state = st
        /\ Checkpoint(order, st, status).ordered = order
        /\ Checkpoint(order, st, status).complete <=> status = "complete"
<1>1. Checkpoint(order, st, status) \in CheckpointRecord
  BY DEF Checkpoint, CheckpointRecord
<1>2. QED BY <1>1, NullAssumption DEF Checkpoint

\* Only the blockers change when a run is blocked.
LEMMA BlockedTyped ==
  ASSUME state \in State,
         NEW reasons \in SUBSET {"capability", "cancelled", "missing", "failed",
                                 "contract", "ingest", "bundle"}
  PROVE /\ Blocked(reasons) \in State
        /\ Blocked(reasons).contract = state.contract
        /\ Blocked(reasons).visited = state.visited
        /\ Blocked(reasons).preserved = state.preserved
        /\ Blocked(reasons).failures = state.failures
        /\ Blocked(reasons).blockers = reasons
BY DEF Blocked, State

\* The batch is taken from what is left to do.
LEMMA BatchOfTodo == Batch \subseteq todo
  BY DEF Batch, First

\* Merging a batch of unvisited blocks keeps one receipt per visited block.
LEMMA MergeKeepsReceipts ==
  ASSUME state \in State, NEW failed, failed \subseteq Batch, todo \subseteq Blocks,
         todo \cap state.visited = {},
         \A b \in Blocks : state.preserved[b] = IF b \in state.visited THEN 1 ELSE 0
  PROVE /\ Merge(failed) \in State
        /\ Merge(failed).contract = state.contract
        /\ Merge(failed).visited = state.visited \cup (Batch \ failed)
        /\ \A b \in Blocks :
             Merge(failed).preserved[b] = IF b \in Merge(failed).visited THEN 1 ELSE 0
<1> DEFINE ok == Batch \ failed
           visited == state.visited \cup ok
           failures == (state.failures \ ok) \cup failed
           preserved == [b \in Blocks |-> state.preserved[b] + IF b \in ok THEN 1 ELSE 0]
<1>1. ok \subseteq Blocks /\ failed \subseteq Blocks /\ ok \cap state.visited = {}
  BY BatchOfTodo
<1>2. visited \in SUBSET Blocks /\ failures \in SUBSET Blocks
  BY <1>1 DEF State
<1>3. preserved \in [Blocks -> Nat]
  BY <1>1 DEF State
<1>4. \A b \in Blocks : preserved[b] = IF b \in visited THEN 1 ELSE 0
  BY <1>1
<1>5. Merge(failed) =
        [state EXCEPT !.visited = visited, !.failures = failures, !.preserved = preserved]
  BY DEF Merge, State
<1> HIDE DEF ok, visited, failures, preserved
<1>6. /\ Merge(failed) \in State
      /\ Merge(failed).contract = state.contract
      /\ Merge(failed).visited = visited
      /\ Merge(failed).preserved = preserved
  BY <1>2, <1>3, <1>5 DEF State
<1>7. QED BY <1>4, <1>6 DEF visited, ok

-----------------------------------------------------------------------------
\* The actions, by what they share.

\* What is left of the budget is spent one by one.
LEMMA SpendKeepsBudget ==
  ASSUME budget \in [DOMAIN Budget -> Nat],
         NEW what \in {"failures", "restarts", "repairs", "cancels"}, Spend(what)
  PROVE budget' \in [DOMAIN Budget -> Nat]
<1>1. DOMAIN Budget = {"failures", "restarts", "repairs", "cancels"}
  BY EvaluatorAssumption
<1>2. budget[what] - 1 \in Nat
  BY <1>1 DEF Spend
<1>3. QED BY <1>1, <1>2 DEF Spend

LEMMA InitInv == Init => EvalInv
<1> SUFFICES ASSUME Init PROVE EvalInv
  OBVIOUS
<1>1. budget \in [DOMAIN Budget -> Nat]
  BY EvaluatorAssumption DEF Init
<1>2. request \in Request /\ ~request.leasable /\ ~request.resume
  BY DEF Init, NoRequest, Request
<1>3. ordered \in Seq(Blocks) /\ todo = {} /\ expected = {}
  BY DEF Init
<1>4. TypeOK
  BY <1>1, <1>2, <1>3 DEF Init, TypeOK
<1>5. RequestsOpen /\ RunMatchesCheckpoint /\ TodoUnvisited /\ GatePassed
  BY <1>2 DEF Init, RequestsOpen, RunMatchesCheckpoint, TodoUnvisited, GatePassed
<1>6. FinalScoreIsEarned /\ InspectedOnce
  BY DEF Init, FinalScoreIsEarned, InspectedOnce
<1>7. QED BY <1>4, <1>5, <1>6 DEF EvalInv

\* A request that has a route is taken up.
LEMMA BeginKeepsInv ==
  ASSUME EvalInv, NEW r \in Request, r.route # Null, r.resume => cp # Null,
         Begin(r), flag' \in BOOLEAN, stale' \subseteq stale
  PROVE EvalInv'
<1>1. TypeOK' BY DEF EvalInv, TypeOK, Begin
<1>2. RequestsOpen' BY DEF EvalInv, RequestsOpen, Begin
<1>3. FinalScoreIsEarned' /\ InspectedOnce'
  BY DEF EvalInv, FinalScoreIsEarned, InspectedOnce, Begin
<1>4. RunMatchesCheckpoint' /\ TodoUnvisited' /\ GatePassed'
  BY DEF RunMatchesCheckpoint, TodoUnvisited, GatePassed, Begin
<1>5. QED BY <1>1, <1>2, <1>3, <1>4 DEF EvalInv

LEMMA CreateKeepsInv ==
  ASSUME EvalInv, NEW route \in Routes, NEW n \in Limits, NEW q \in BOOLEAN,
         Create(route, n, q)
  PROVE EvalInv'
<1> DEFINE r == [resume |-> FALSE, route |-> route, limit |-> n, queued |-> q,
                 leasable |-> q]
<1>1. r \in Request /\ r.route # Null /\ ~r.resume
  BY EvaluatorAssumption, NullAssumption DEF Request
<1>2. Begin(r) /\ flag' \in BOOLEAN /\ stale' = stale
  BY DEF Create, EvalInv, TypeOK
<1> HIDE DEF r
<1>3. QED BY <1>1, <1>2, BeginKeepsInv

LEMMA ResumeKeepsInv ==
  ASSUME EvalInv, NEW route \in Routes, Resume(route)
  PROVE EvalInv'
<1> DEFINE r == [resume |-> TRUE, route |-> route, limit |-> Unlimited, queued |-> TRUE,
                 leasable |-> TRUE]
<1>1. r \in Request /\ r.route # Null /\ cp # Null
  BY UnlimitedIsNat, NullAssumption DEF Request, Resume
<1>2. Begin(r) /\ flag' \in BOOLEAN /\ stale' = stale
  BY DEF Resume
<1> HIDE DEF r
<1>3. QED BY <1>1, <1>2, BeginKeepsInv

LEMMA RedeliverKeepsInv ==
  ASSUME EvalInv, NEW r \in stale, Redeliver(r)
  PROVE EvalInv'
<1>1. r \in Request /\ r.route # Null /\ (r.resume => cp # Null)
  BY DEF EvalInv, TypeOK, RequestsOpen
<1>2. Begin(r) /\ flag' \in BOOLEAN /\ stale' \subseteq stale
  BY DEF Redeliver, EvalInv, TypeOK
<1>3. QED BY <1>1, <1>2, BeginKeepsInv

LEMMA CancelKeepsInv == EvalInv /\ Cancel => EvalInv'
<1> SUFFICES ASSUME EvalInv, Cancel PROVE EvalInv'
  OBVIOUS
<1>1. budget' \in [DOMAIN Budget -> Nat]
  BY SpendKeepsBudget DEF Cancel, EvalInv, TypeOK
<1>2. /\ request' \in Request /\ request'.route = request.route
      /\ request'.resume = request.resume /\ ~request'.leasable
  BY DEF Cancel, EvalInv, TypeOK, Request
<1>3. TypeOK' BY <1>1, <1>2 DEF EvalInv, TypeOK, Cancel
<1>4. RequestsOpen' BY <1>2 DEF EvalInv, RequestsOpen, Cancel
<1>5. RunMatchesCheckpoint' /\ TodoUnvisited' /\ GatePassed'
  BY DEF EvalInv, RunMatchesCheckpoint, TodoUnvisited, GatePassed, Cancel
<1>6. FinalScoreIsEarned' /\ InspectedOnce'
  BY DEF EvalInv, FinalScoreIsEarned, InspectedOnce, Cancel
<1>7. QED BY <1>3, <1>4, <1>5, <1>6 DEF EvalInv

LEMMA RepairKeepsInv ==
  ASSUME EvalInv, NEW m \in Manifests, Repair(m)
  PROVE EvalInv'
<1>1. budget' \in [DOMAIN Budget -> Nat]
  BY SpendKeepsBudget DEF Repair, EvalInv, TypeOK
<1>2. TypeOK' BY <1>1 DEF EvalInv, TypeOK, Repair, run
<1>3. RequestsOpen' /\ RunMatchesCheckpoint' /\ TodoUnvisited' /\ GatePassed'
  BY DEF EvalInv, RequestsOpen, RunMatchesCheckpoint, TodoUnvisited, GatePassed, Repair, run
<1>4. FinalScoreIsEarned' /\ InspectedOnce'
  BY DEF EvalInv, FinalScoreIsEarned, InspectedOnce, Repair, run
<1>5. QED BY <1>2, <1>3, <1>4 DEF EvalInv

LEMMA ReadContractKeepsInv == EvalInv /\ ReadContract => EvalInv'
<1> SUFFICES ASSUME EvalInv, ReadContract PROVE EvalInv'
  OBVIOUS
<1>1. contract' \in Contract /\ contract' # Null
  BY RequiredAreBlocks, NullAssumption DEF ReadContract, EvalInv, TypeOK, Contract
<1>2. TypeOK' BY <1>1 DEF EvalInv, TypeOK, ReadContract, disk
<1>3. RequestsOpen' /\ RunMatchesCheckpoint' /\ TodoUnvisited' /\ GatePassed'
  BY DEF EvalInv, RequestsOpen, RunMatchesCheckpoint, TodoUnvisited, GatePassed,
         ReadContract, disk
<1>4. FinalScoreIsEarned' /\ InspectedOnce'
  BY DEF EvalInv, FinalScoreIsEarned, InspectedOnce, ReadContract, disk
<1>5. QED BY <1>2, <1>3, <1>4 DEF EvalInv

LEMMA OpenFreshKeepsInv == EvalInv /\ OpenFresh => EvalInv'
<1> SUFFICES ASSUME EvalInv, OpenFresh PROVE EvalInv'
  OBVIOUS
<1>1. ordered' \in Seq(Blocks) /\ expected' \subseteq Blocks
  BY OrderingsAreSequences, RequiredAreBlocks DEF OpenFresh, EvalInv, TypeOK
<1>2. contract \in Contract
  BY DEF OpenFresh, EvalInv, TypeOK
<1>3. state' \in State /\ state' # Null
  BY <1>2, FreshStateTyped, NullAssumption DEF OpenFresh
<1>4. /\ cp' \in CheckpointRecord /\ cp' # Null /\ ~cp'.complete /\ cp'.state = state'
  BY <1>1, <1>3, CheckpointTyped DEF OpenFresh, Statuses
<1>5. TypeOK'
  BY <1>1, <1>3, <1>4 DEF EvalInv, TypeOK, OpenFresh
<1>6. RequestsOpen'
  BY <1>4 DEF EvalInv, RequestsOpen, OpenFresh
<1>7. RunMatchesCheckpoint' /\ TodoUnvisited' /\ GatePassed'
  BY <1>4 DEF RunMatchesCheckpoint, TodoUnvisited, GatePassed, OpenFresh
<1>8. FinalScoreIsEarned'
  BY <1>4 DEF FinalScoreIsEarned
<1>9. InspectedOnce'
  BY <1>4 DEF InspectedOnce, OpenFresh, FreshState
<1>10. QED BY <1>5, <1>6, <1>7, <1>8, <1>9 DEF EvalInv

LEMMA OpenResumedKeepsInv == EvalInv /\ OpenResumed => EvalInv'
<1> SUFFICES ASSUME EvalInv, OpenResumed PROVE EvalInv'
  OBVIOUS
<1>1. cp # Null /\ cp \in CheckpointRecord
  BY DEF EvalInv, TypeOK, RequestsOpen, OpenResumed
<1>2. cp.state \in State /\ cp.ordered \in Seq(Blocks)
  BY <1>1 DEF CheckpointRecord
<1>3. /\ state' \in State /\ state'.contract = cp.state.contract
      /\ state'.visited = cp.state.visited /\ state'.preserved = cp.state.preserved
  BY <1>2 DEF OpenResumed, State
<1>4. state' # Null
  BY <1>3, NullAssumption
<1>5. expected' \subseteq Blocks
  BY RequiredAreBlocks DEF OpenResumed, EvalInv, TypeOK
<1>6. TypeOK'
  BY <1>2, <1>3, <1>4, <1>5 DEF EvalInv, TypeOK, OpenResumed, disk
<1>7. RequestsOpen'
  BY DEF EvalInv, RequestsOpen, OpenResumed, disk
<1>8. RunMatchesCheckpoint' /\ TodoUnvisited' /\ GatePassed'
  BY <1>1, <1>3 DEF RunMatchesCheckpoint, TodoUnvisited, GatePassed, OpenResumed, disk
<1>9. FinalScoreIsEarned' /\ InspectedOnce'
  BY DEF EvalInv, FinalScoreIsEarned, InspectedOnce, OpenResumed, disk
<1>10. QED BY <1>6, <1>7, <1>8, <1>9 DEF EvalInv

\* An exception leaves the progress of the checkpoint as it is.
LEMMA FailKeepsInv ==
  ASSUME EvalInv, Fail, pc # "idle", budget' \in [DOMAIN Budget -> Nat]
  PROVE EvalInv'
<1>1. cp # Null =>
        /\ cp \in CheckpointRecord
        /\ [cp EXCEPT !.status = "failed"] \in CheckpointRecord
        /\ [cp EXCEPT !.status = "failed"].state = cp.state
        /\ [cp EXCEPT !.status = "failed"].complete = cp.complete
  BY DEF EvalInv, TypeOK, CheckpointRecord, Statuses
<1>2. /\ cp' \in {Null} \cup CheckpointRecord
      /\ cp' = Null <=> cp = Null
      /\ cp # Null => cp'.state = cp.state /\ cp'.complete = cp.complete
  BY <1>1, NullAssumption DEF Fail, EvalInv, TypeOK
<1>3. TypeOK'
  BY <1>2 DEF EvalInv, TypeOK, Fail, NoRun
<1>4. RequestsOpen' /\ RunMatchesCheckpoint' /\ TodoUnvisited' /\ GatePassed'
  BY <1>2 DEF EvalInv, RequestsOpen, RunMatchesCheckpoint, TodoUnvisited, GatePassed, Fail
<1>5. FinalScoreIsEarned' /\ InspectedOnce'
  BY <1>2 DEF EvalInv, FinalScoreIsEarned, InspectedOnce
<1>6. QED BY <1>3, <1>4, <1>5 DEF EvalInv

\* A run that stops writes the progress it has, with a score only if it has earned it.
LEMMA StopKeepsInv ==
  ASSUME EvalInv, pc \in {"preflight", "loop", "final"},
         NEW status \in Statuses, NEW st \in State, Stop(status, st),
         st.contract = state.contract, st.visited = state.visited,
         st.preserved = state.preserved,
         status = "complete" =>
           /\ st.contract.ids \subseteq st.visited
           /\ st.contract.ids \cap st.failures = {}
           /\ st.blockers = {}
  PROVE /\ EvalInv'
        /\ cp' # Null
        /\ cp'.state = st
        /\ cp'.complete <=> status = "complete"
<1>1. ordered \in Seq(Blocks)
  BY DEF EvalInv, TypeOK
<1>2. /\ cp' \in CheckpointRecord /\ cp' # Null /\ cp'.state = st
      /\ cp'.complete <=> status = "complete"
  BY <1>1, CheckpointTyped DEF Stop
<1>3. TypeOK'
  BY <1>2 DEF EvalInv, TypeOK, Stop, NoRun
<1>4. RequestsOpen' /\ RunMatchesCheckpoint' /\ TodoUnvisited' /\ GatePassed'
  BY <1>2 DEF EvalInv, RequestsOpen, RunMatchesCheckpoint, TodoUnvisited, GatePassed, Stop
<1>5. FinalScoreIsEarned'
  BY <1>2 DEF FinalScoreIsEarned
<1>6. InspectedOnce'
  BY <1>2 DEF EvalInv, InspectedOnce, RunMatchesCheckpoint
<1>7. QED BY <1>2, <1>3, <1>4, <1>5, <1>6 DEF EvalInv

\* The state of a run that is past its opening.
LEMMA OpenedState ==
  ASSUME EvalInv, pc \in {"preflight", "loop", "final"}
  PROVE /\ state \in State
        /\ cp # Null
        /\ state.contract = cp.state.contract
        /\ state.visited = cp.state.visited
        /\ \A b \in Blocks : state.preserved[b] = IF b \in state.visited THEN 1 ELSE 0
<1>1. state \in State BY DEF EvalInv, TypeOK
<1>2. QED BY <1>1 DEF EvalInv, RunMatchesCheckpoint, InspectedOnce

\* What an unfinished stop is for the checkpoint: the same progress, no score.
StoppedShort ==
  /\ cp' # Null
  /\ cp'.state.contract = cp.state.contract
  /\ cp'.state.visited = cp.state.visited
  /\ ~cp'.complete

\* A run that is stopped with blockers leaves its progress and no score.
LEMMA BlockedStop ==
  ASSUME EvalInv, pc \in {"preflight", "loop", "final"},
         NEW status \in Statuses, status # "complete",
         NEW reasons \in SUBSET {"capability", "cancelled", "missing", "failed",
                                 "contract", "ingest", "bundle"},
         Stop(status, Blocked(reasons))
  PROVE EvalInv' /\ StoppedShort
<1>1. state \in State /\ state.contract = cp.state.contract /\ state.visited = cp.state.visited
  BY OpenedState
<1>2. /\ Blocked(reasons) \in State /\ Blocked(reasons).contract = state.contract
      /\ Blocked(reasons).visited = state.visited
      /\ Blocked(reasons).preserved = state.preserved
  BY <1>1, BlockedTyped
<1>3. QED BY <1>1, <1>2, StopKeepsInv DEF StoppedShort

LEMMA CapabilityBlockedStops == EvalInv /\ CapabilityBlocked => EvalInv' /\ StoppedShort
<1> SUFFICES ASSUME EvalInv, CapabilityBlocked PROVE EvalInv' /\ StoppedShort
  OBVIOUS
<1>1. pc \in {"preflight", "loop", "final"} /\ Unsupported \subseteq Blocks
  BY DEF CapabilityBlocked, Unsupported, EvalInv, TypeOK
<1>2. state \in State /\ state.contract = cp.state.contract /\ state.visited = cp.state.visited
  BY <1>1, OpenedState
<1> DEFINE blocked == Blocked({"capability"})
           st == [blocked EXCEPT !.failures = @ \cup Unsupported]
<1>3. /\ blocked \in State /\ blocked.contract = state.contract
      /\ blocked.visited = state.visited /\ blocked.preserved = state.preserved
  BY <1>2, BlockedTyped
<1>4. Stop("capability_blocked", st)
  BY DEF CapabilityBlocked
<1> HIDE DEF blocked
<1>5. /\ st \in State /\ st.contract = state.contract
      /\ st.visited = state.visited /\ st.preserved = state.preserved
  BY <1>1, <1>3 DEF State
<1>6. "capability_blocked" \in Statuses /\ "capability_blocked" # "complete"
  BY DEF Statuses
<1> HIDE DEF st
<1>7. QED BY <1>1, <1>2, <1>4, <1>5, <1>6, StopKeepsInv DEF StoppedShort

LEMMA StartLoopKeepsInv == EvalInv /\ StartLoop => EvalInv'
<1> SUFFICES ASSUME EvalInv, StartLoop PROVE EvalInv'
  OBVIOUS
<1>1. todo' \subseteq expected /\ todo' \cap state.visited = {}
  BY DEF StartLoop, First, Remaining
<1>2. TypeOK'
  BY <1>1 DEF EvalInv, TypeOK, StartLoop, disk
<1>3. RequestsOpen' /\ RunMatchesCheckpoint' /\ GatePassed'
  BY DEF EvalInv, RequestsOpen, RunMatchesCheckpoint, GatePassed, StartLoop, disk
<1>4. TodoUnvisited'
  BY <1>1 DEF TodoUnvisited, StartLoop
<1>5. FinalScoreIsEarned' /\ InspectedOnce'
  BY DEF EvalInv, FinalScoreIsEarned, InspectedOnce, StartLoop, disk
<1>6. QED BY <1>2, <1>3, <1>4, <1>5 DEF EvalInv

\* A batch adds what it inspected to the checkpoint, and there is no score yet.
LEMMA InspectBatchKeepsInv ==
  ASSUME EvalInv, NEW failed \in SUBSET todo, InspectBatch(failed)
  PROVE /\ EvalInv'
        /\ cp' # Null
        /\ cp'.state.contract = cp.state.contract
        /\ cp'.state.visited = cp.state.visited \cup (Batch \ failed)
        /\ ~cp'.complete
<1>1. /\ todo \subseteq Blocks /\ ordered \in Seq(Blocks) /\ todo \cap state.visited = {}
      /\ pc = "loop"
  BY DEF InspectBatch, EvalInv, TypeOK, TodoUnvisited
<1>2. /\ state \in State /\ cp # Null
      /\ state.contract = cp.state.contract /\ state.visited = cp.state.visited
      /\ \A b \in Blocks : state.preserved[b] = IF b \in state.visited THEN 1 ELSE 0
  BY <1>1, OpenedState
<1>3. failed \subseteq Batch
  BY DEF InspectBatch
<1>4. /\ state' \in State /\ state'.contract = state.contract
      /\ state'.visited = state.visited \cup (Batch \ failed)
      /\ \A b \in Blocks : state'.preserved[b] = IF b \in state'.visited THEN 1 ELSE 0
  BY <1>1, <1>2, <1>3, MergeKeepsReceipts DEF InspectBatch
<1>5. /\ cp' \in CheckpointRecord /\ cp' # Null /\ cp'.state = state' /\ ~cp'.complete
  BY <1>1, <1>4, CheckpointTyped DEF InspectBatch, Statuses
<1>6. budget' \in [DOMAIN Budget -> Nat]
  <2>1. Cardinality(failed) \in Nat /\ budget["failures"] \in Nat
    BY <1>1, CountIsNat, EvaluatorAssumption DEF EvalInv, TypeOK
  <2>2. budget["failures"] - Cardinality(failed) \in Nat
    BY <2>1 DEF InspectBatch
  <2>3. QED BY <2>2 DEF InspectBatch, EvalInv, TypeOK
<1>7. state' # Null
  BY <1>4, NullAssumption
<1>8. TypeOK'
  BY <1>1, <1>4, <1>5, <1>6, <1>7 DEF EvalInv, TypeOK, InspectBatch
<1>9. RequestsOpen' /\ RunMatchesCheckpoint' /\ GatePassed'
  BY <1>1, <1>5 DEF EvalInv, RequestsOpen, RunMatchesCheckpoint, GatePassed, InspectBatch
<1>10. TodoUnvisited'
  BY <1>1, <1>4 DEF TodoUnvisited, InspectBatch
<1>11. FinalScoreIsEarned' /\ InspectedOnce'
  BY <1>4, <1>5 DEF FinalScoreIsEarned, InspectedOnce
<1>12. QED BY <1>2, <1>4, <1>5, <1>8, <1>9, <1>10, <1>11 DEF EvalInv

LEMMA LoopStops ==
  EvalInv /\ (CancelSeen \/ Incomplete \/ ContractBlocked \/ IngestBlocked \/ BundleBlocked)
    => EvalInv' /\ StoppedShort
<1>1. ASSUME EvalInv, CancelSeen PROVE EvalInv' /\ StoppedShort
  BY <1>1, BlockedStop DEF CancelSeen, Statuses
<1>2. ASSUME EvalInv, Incomplete PROVE EvalInv' /\ StoppedShort
  <2> DEFINE reasons == {"missing"} \cup
                        IF state.failures \cap expected # {} THEN {"failed"} ELSE {}
             status == IF state.failures # {} THEN "blocked" ELSE "paused"
  <2>1. /\ reasons \in SUBSET {"capability", "cancelled", "missing", "failed",
                               "contract", "ingest", "bundle"}
        /\ status \in Statuses /\ status # "complete"
    BY DEF Statuses
  <2>2. pc = "loop" /\ Stop(status, Blocked(reasons))
    BY <1>2 DEF Incomplete, LoopDone
  <2> HIDE DEF reasons, status
  <2>3. QED BY <1>2, <2>1, <2>2, BlockedStop
<1>3. ASSUME EvalInv, ContractBlocked PROVE EvalInv' /\ StoppedShort
  BY <1>3, BlockedStop DEF ContractBlocked, LoopDone, Statuses
<1>4. ASSUME EvalInv, IngestBlocked PROVE EvalInv' /\ StoppedShort
  BY <1>4, BlockedStop DEF IngestBlocked, LoopDone, Statuses
<1>5. ASSUME EvalInv, BundleBlocked PROVE EvalInv' /\ StoppedShort
  BY <1>5, BlockedStop DEF BundleBlocked, Statuses
<1>6. QED BY <1>1, <1>2, <1>3, <1>4, <1>5

\* The gates leave nothing of the contract missing or failed.
LEMMA NoContractBlockers ==
  ASSUME ContractBlockers = {}
  PROVE /\ state.contract.ids \subseteq state.visited
        /\ state.contract.ids \cap state.failures = {}
BY DEF ContractBlockers

LEMMA EnterFinalKeepsInv == EvalInv /\ EnterFinal => EvalInv'
<1> SUFFICES ASSUME EvalInv, EnterFinal PROVE EvalInv'
  OBVIOUS
<1>1. TypeOK'
  BY DEF EvalInv, TypeOK, EnterFinal, LoopDone, disk
<1>2. RequestsOpen' /\ RunMatchesCheckpoint' /\ TodoUnvisited'
  BY DEF EvalInv, RequestsOpen, RunMatchesCheckpoint, TodoUnvisited, EnterFinal, LoopDone, disk
<1>3. GatePassed'
  BY NoContractBlockers DEF EnterFinal, GatePassed
<1>4. FinalScoreIsEarned' /\ InspectedOnce'
  BY DEF EvalInv, FinalScoreIsEarned, InspectedOnce, EnterFinal, disk
<1>5. QED BY <1>1, <1>2, <1>3, <1>4 DEF EvalInv

\* The score is given to the progress that passed the gates.
LEMMA ScoreKeepsInv ==
  ASSUME EvalInv, Score
  PROVE /\ EvalInv'
        /\ cp # Null /\ cp' # Null
        /\ cp'.state.contract = cp.state.contract
        /\ cp'.state.visited = cp.state.visited
        /\ cp'.state.contract.ids \subseteq cp'.state.visited
        /\ cp'.complete
<1>1. pc = "final" /\ Stop("complete", Blocked({}))
  BY DEF Score
<1>2. /\ state \in State /\ cp # Null
      /\ state.contract = cp.state.contract /\ state.visited = cp.state.visited
  BY <1>1, OpenedState
<1>3. /\ Blocked({}) \in State /\ Blocked({}).contract = state.contract
      /\ Blocked({}).visited = state.visited
      /\ Blocked({}).preserved = state.preserved
      /\ Blocked({}).failures = state.failures
      /\ Blocked({}).blockers = {}
  BY <1>2, BlockedTyped
<1>4. /\ state.contract.ids \subseteq state.visited
      /\ state.contract.ids \cap state.failures = {}
  BY <1>1 DEF EvalInv, GatePassed
<1>5. "complete" \in Statuses BY DEF Statuses
<1>6. EvalInv' /\ cp' # Null /\ cp'.state = Blocked({}) /\ cp'.complete
  BY <1>1, <1>3, <1>4, <1>5, StopKeepsInv
<1>7. QED BY <1>2, <1>3, <1>4, <1>6

LEMMA RaiseKeepsInv == EvalInv /\ Raise => EvalInv'
<1> SUFFICES ASSUME EvalInv, Raise PROVE EvalInv'
  OBVIOUS
<1>1. budget' \in [DOMAIN Budget -> Nat]
  BY SpendKeepsBudget DEF Raise, EvalInv, TypeOK
<1>2. QED BY <1>1, FailKeepsInv DEF Raise

LEMMA ResumeRefusedKeepsInv == EvalInv /\ ResumeRefused => EvalInv'
<1> SUFFICES ASSUME EvalInv, ResumeRefused PROVE EvalInv'
  OBVIOUS
<1>1. budget' \in [DOMAIN Budget -> Nat]
  BY DEF ResumeRefused, EvalInv, TypeOK
<1>2. QED BY <1>1, FailKeepsInv DEF ResumeRefused

LEMMA ReportKeepsInv == EvalInv /\ Report => EvalInv'
<1> SUFFICES ASSUME EvalInv, Report PROVE EvalInv'
  OBVIOUS
<1>1. NoRequest \in Request /\ ~NoRequest.leasable /\ ~NoRequest.resume
  BY DEF NoRequest, Request
<1>2. TypeOK'
  BY <1>1 DEF EvalInv, TypeOK, Report, disk
<1>3. RequestsOpen' /\ RunMatchesCheckpoint' /\ TodoUnvisited' /\ GatePassed'
  BY <1>1 DEF EvalInv, RequestsOpen, RunMatchesCheckpoint, TodoUnvisited, GatePassed,
              Report, disk
<1>4. FinalScoreIsEarned' /\ InspectedOnce'
  BY DEF EvalInv, FinalScoreIsEarned, InspectedOnce, Report, disk
<1>5. QED BY <1>2, <1>3, <1>4 DEF EvalInv

\* Reconciling changes the status of a checkpoint and no more.
LEMMA ReconciledKeeps ==
  ASSUME cp \in {Null} \cup CheckpointRecord
  PROVE /\ Reconciled(cp) \in {Null} \cup CheckpointRecord
        /\ Reconciled(cp) = Null <=> cp = Null
        /\ cp # Null => /\ Reconciled(cp).state = cp.state
                        /\ Reconciled(cp).complete = cp.complete
<1>1. CASE cp = Null
  BY <1>1 DEF Reconciled
<1>2. CASE cp # Null
  <2> DEFINE c == [cp EXCEPT !.status = "interrupted"]
  <2>1. /\ c \in CheckpointRecord /\ c.state = cp.state /\ c.complete = cp.complete
        /\ cp \in CheckpointRecord
    BY <1>2 DEF CheckpointRecord, Statuses
  <2>2. Reconciled(cp) = c \/ Reconciled(cp) = cp
    BY DEF Reconciled
  <2> HIDE DEF c
  <2>3. QED BY <1>2, <2>1, <2>2, NullAssumption
<1>3. QED BY <1>1, <1>2

LEMMA RestartKeepsInv ==
  ASSUME EvalInv, NEW s \in Serials, Restart(s)
  PROVE EvalInv'
<1>1. budget' \in [DOMAIN Budget -> Nat]
  BY SpendKeepsBudget DEF Restart, EvalInv, TypeOK
<1>2. /\ cp' \in {Null} \cup CheckpointRecord
      /\ cp' = Null <=> cp = Null
      /\ cp # Null => cp'.state = cp.state /\ cp'.complete = cp.complete
  BY ReconciledKeeps DEF Restart, EvalInv, TypeOK
<1>3. NoRequest \in Request /\ ~NoRequest.leasable /\ ~NoRequest.resume
  BY DEF NoRequest, Request
<1>4. ASSUME NEW r \in stale'
      PROVE r \in Request /\ r.route # Null /\ (r.resume => cp # Null)
  <2>1. CASE r \in stale
    BY <2>1 DEF EvalInv, TypeOK, RequestsOpen
  <2>2. CASE r = request /\ request.leasable
    BY <2>2 DEF EvalInv, TypeOK, RequestsOpen
  <2>3. QED BY <2>1, <2>2 DEF Restart
<1>5. TypeOK'
  BY <1>1, <1>2, <1>3, <1>4 DEF EvalInv, TypeOK, Restart, NoRun
<1>6. RequestsOpen'
  BY <1>2, <1>3, <1>4 DEF RequestsOpen, Restart
<1>7. RunMatchesCheckpoint' /\ TodoUnvisited' /\ GatePassed'
  BY DEF RunMatchesCheckpoint, TodoUnvisited, GatePassed, Restart
<1>8. FinalScoreIsEarned' /\ InspectedOnce'
  BY <1>2 DEF EvalInv, FinalScoreIsEarned, InspectedOnce
<1>9. QED BY <1>5, <1>6, <1>7, <1>8 DEF EvalInv

LEMMA StutterKeepsInv == EvalInv /\ UNCHANGED vars => EvalInv'
BY DEF EvalInv, TypeOK, RequestsOpen, RunMatchesCheckpoint, TodoUnvisited, GatePassed,
       FinalScoreIsEarned, InspectedOnce, vars

LEMMA RunStepKeepsInv == EvalInv /\ RunStep => EvalInv'
<1> SUFFICES ASSUME EvalInv, RunStep PROVE EvalInv'
  OBVIOUS
<1>1. CASE ReadContract BY <1>1, ReadContractKeepsInv
<1>2. CASE OpenFresh BY <1>2, OpenFreshKeepsInv
<1>3. CASE OpenResumed BY <1>3, OpenResumedKeepsInv
<1>4. CASE ResumeRefused BY <1>4, ResumeRefusedKeepsInv
<1>5. CASE CapabilityBlocked BY <1>5, CapabilityBlockedStops
<1>6. CASE StartLoop BY <1>6, StartLoopKeepsInv
<1>7. CASE CancelSeen \/ Incomplete \/ ContractBlocked \/ IngestBlocked \/ BundleBlocked
  BY <1>7, LoopStops
<1>8. CASE \E failed \in SUBSET todo : InspectBatch(failed)
  BY <1>8, InspectBatchKeepsInv
<1>9. CASE EnterFinal BY <1>9, EnterFinalKeepsInv
<1>10. CASE Score BY <1>10, ScoreKeepsInv
<1>11. CASE Report BY <1>11, ReportKeepsInv
<1>12. QED
  BY <1>1, <1>2, <1>3, <1>4, <1>5, <1>6, <1>7, <1>8, <1>9, <1>10, <1>11 DEF RunStep

LEMMA NextKeepsInv == EvalInv /\ [Next]_vars => EvalInv'
<1> SUFFICES ASSUME EvalInv, [Next]_vars PROVE EvalInv'
  OBVIOUS
<1>1. CASE \E r \in Routes, n \in Limits, q \in BOOLEAN : Create(r, n, q)
  BY <1>1, CreateKeepsInv
<1>2. CASE \E r \in Routes : Resume(r) BY <1>2, ResumeKeepsInv
<1>3. CASE \E r \in stale : Redeliver(r) BY <1>3, RedeliverKeepsInv
<1>4. CASE Cancel BY <1>4, CancelKeepsInv
<1>5. CASE \E m \in Manifests : Repair(m) BY <1>5, RepairKeepsInv
<1>6. CASE RunStep BY <1>6, RunStepKeepsInv
<1>7. CASE Raise BY <1>7, RaiseKeepsInv
<1>8. CASE \E s \in Serials : Restart(s) BY <1>8, RestartKeepsInv
<1>9. CASE UNCHANGED vars BY <1>9, StutterKeepsInv
<1>10. QED BY <1>1, <1>2, <1>3, <1>4, <1>5, <1>6, <1>7, <1>8, <1>9 DEF Next

LEMMA EvalInvariant == Spec => []EvalInv
  BY InitInv, NextKeepsInv, PTL DEF Spec

-----------------------------------------------------------------------------
\* What the invariant gives.

\* Type correctness of evaluate() and of what it stores, for every corpus, every
\* route and every number of failures, restarts, repairs and cancels.
THEOREM EvaluatorTypeCorrect == Spec => []TypeOK
<1>1. EvalInv => TypeOK BY DEF EvalInv
<1>2. QED BY <1>1, EvalInvariant, PTL

\* A final score is only ever on record with every block of its contract inspected
\* and none of them failed (the finalization gates of evaluate()).
THEOREM FinalScoresAreEarned == Spec => []FinalScoreIsEarned
<1>1. EvalInv => FinalScoreIsEarned BY DEF EvalInv
<1>2. QED BY <1>1, EvalInvariant, PTL

\* Every inspected block has exactly one PRESERVE receipt, whatever failed, crashed
\* or was resumed (_merge_outcome and what a resumed run leaves out).
THEOREM BlocksAreInspectedOnce == Spec => []InspectedOnce
<1>1. EvalInv => InspectedOnce BY DEF EvalInv
<1>2. QED BY <1>1, EvalInvariant, PTL

-----------------------------------------------------------------------------
\* The evaluator implements FullCoverage: what a step does to the checkpoint is a
\* step of the abstract job, or none of its business.

\* The abstract job does not see this step.
SameProgress ==
  \/ cp' = cp
  \/ /\ cp # Null /\ cp' # Null
     /\ cp'.state = cp.state
     /\ cp'.complete = cp.complete

LEMMA SameProgressStutters ==
  SameProgress => UNCHANGED Coverage!coverageVars
BY DEF SameProgress, Coverage!coverageVars

LEMMA FailIsNoProgress ==
  ASSUME EvalInv, Fail
  PROVE SameProgress
<1>1. CASE cp # Null /\ request.queued
  <2>1. cp \in CheckpointRecord
    BY <1>1 DEF EvalInv, TypeOK
  <2>2. /\ [cp EXCEPT !.status = "failed"] \in CheckpointRecord
        /\ [cp EXCEPT !.status = "failed"].state = cp.state
        /\ [cp EXCEPT !.status = "failed"].complete = cp.complete
    BY <2>1 DEF CheckpointRecord, Statuses
  <2>3. QED BY <1>1, <2>2, NullAssumption DEF Fail, SameProgress
<1>2. CASE ~(cp # Null /\ request.queued)
  BY <1>2 DEF Fail, SameProgress
<1>3. QED BY <1>1, <1>2

LEMMA RestartIsNoProgress ==
  ASSUME EvalInv, NEW s \in Serials, Restart(s)
  PROVE SameProgress
<1>1. cp \in {Null} \cup CheckpointRecord /\ cp' = Reconciled(cp)
  BY DEF EvalInv, TypeOK, Restart
<1>2. CASE cp = Null BY <1>1, <1>2, ReconciledKeeps DEF SameProgress
<1>3. CASE cp # Null BY <1>1, <1>3, ReconciledKeeps DEF SameProgress
<1>4. QED BY <1>2, <1>3

\* A run that stops without a score withdraws the one there was, if any.
LEMMA StoppedShortImplements ==
  ASSUME cp # Null, StoppedShort, cp.complete \in BOOLEAN
  PROVE Coverage!Withdraw \/ UNCHANGED Coverage!coverageVars
BY DEF StoppedShort, Coverage!Withdraw, Coverage!coverageVars

\* A fresh run opens the job, or starts it over.
LEMMA OpenFreshImplements ==
  ASSUME EvalInv, OpenFresh
  PROVE \E R \in SUBSET Blocks : Coverage!Open(R) \/ Coverage!StartOver(R)
<1>1. contract \in Contract
  BY DEF OpenFresh, EvalInv, TypeOK
<1>2. ordered' \in Seq(Blocks)
  BY OrderingsAreSequences DEF OpenFresh, EvalInv, TypeOK
<1>3. FreshState(contract) \in State
  BY <1>1, FreshStateTyped
<1>4. /\ cp' # Null /\ ~cp'.complete /\ cp'.complete \in BOOLEAN
      /\ cp'.state = FreshState(contract)
  BY <1>2, <1>3, CheckpointTyped DEF OpenFresh, Statuses, CheckpointRecord
<1>5. cp'.state.visited = {} /\ cp'.state.contract.ids = contract.ids
  BY <1>4 DEF FreshState
<1>6. contract.ids \in SUBSET Blocks
  BY <1>1 DEF Contract
<1>7. CASE cp = Null
  <2>1. Coverage!Open(contract.ids)
    BY <1>4, <1>5, <1>7 DEF Coverage!Open
  <2>2. QED BY <1>6, <2>1
<1>8. CASE cp # Null
  <2>1. cp.state.contract.ids # Null
    BY <1>8, NullAssumption DEF EvalInv, TypeOK, CheckpointRecord, State, Contract
  <2>2. Coverage!StartOver(contract.ids)
    BY <1>4, <1>5, <1>8, <2>1 DEF Coverage!StartOver
  <2>3. QED BY <1>6, <2>2
<1>9. QED BY <1>7, <1>8

\* A batch is an inspection of the blocks that did not fail.
LEMMA InspectBatchImplements ==
  ASSUME EvalInv, NEW failed \in SUBSET todo, InspectBatch(failed)
  PROVE \E V \in SUBSET Blocks : Coverage!Inspect(V)
<1>1. cp # Null /\ todo \subseteq Blocks
  BY OpenedState DEF InspectBatch, EvalInv, TypeOK
<1>2. /\ cp' # Null
      /\ cp'.state.contract = cp.state.contract
      /\ cp'.state.visited = cp.state.visited \cup (Batch \ failed)
      /\ ~cp'.complete
  BY InspectBatchKeepsInv
<1>3. Batch \ failed \in SUBSET Blocks
  BY <1>1, BatchOfTodo
<1>4. cp.state.contract.ids # Null
  BY <1>1, NullAssumption DEF EvalInv, TypeOK, CheckpointRecord, State, Contract
<1>5. Coverage!Inspect(Batch \ failed)
  BY <1>1, <1>2, <1>4 DEF Coverage!Inspect
<1>6. QED BY <1>3, <1>5

LEMMA ScoreImplements ==
  ASSUME EvalInv, Score
  PROVE Coverage!Finalize
<1>1. /\ cp # Null /\ cp' # Null
      /\ cp'.state.contract = cp.state.contract
      /\ cp'.state.visited = cp.state.visited
      /\ cp'.state.contract.ids \subseteq cp'.state.visited
      /\ cp'.complete
  BY ScoreKeepsInv
<1>2. cp.state.contract.ids # Null
  BY <1>1, NullAssumption DEF EvalInv, TypeOK, CheckpointRecord, State, Contract
<1>3. QED BY <1>1, <1>2 DEF Coverage!Finalize

LEMMA NextImplements ==
  EvalInv /\ [Next]_vars => [Coverage!CoverageNext]_(Coverage!coverageVars)
<1> SUFFICES ASSUME EvalInv, [Next]_vars
             PROVE Coverage!CoverageNext \/ UNCHANGED Coverage!coverageVars
  OBVIOUS
<1>1. CASE SameProgress
  BY <1>1, SameProgressStutters
<1>2. CASE OpenFresh
  BY <1>2, OpenFreshImplements DEF Coverage!CoverageNext
<1>3. CASE \E failed \in SUBSET todo : InspectBatch(failed)
  BY <1>3, InspectBatchImplements DEF Coverage!CoverageNext
<1>4. CASE Score
  BY <1>4, ScoreImplements DEF Coverage!CoverageNext
<1>5. CASE \/ CapabilityBlocked \/ CancelSeen \/ Incomplete \/ ContractBlocked
           \/ IngestBlocked \/ BundleBlocked
  <2>1. pc \in {"preflight", "loop", "final"}
    BY <1>5 DEF CapabilityBlocked, CancelSeen, Incomplete, ContractBlocked, IngestBlocked,
                BundleBlocked, LoopDone
  <2>2. cp # Null /\ cp.complete \in BOOLEAN
    BY <2>1 DEF EvalInv, TypeOK, RunMatchesCheckpoint, CheckpointRecord
  <2>3. StoppedShort
    BY <1>5, CapabilityBlockedStops, LoopStops
  <2>4. QED BY <2>2, <2>3, StoppedShortImplements DEF Coverage!CoverageNext
<1>6. CASE \/ \E r \in Routes, n \in Limits, q \in BOOLEAN : Create(r, n, q)
           \/ \E r \in Routes : Resume(r)
           \/ \E r \in stale : Redeliver(r)
           \/ Cancel
           \/ \E m \in Manifests : Repair(m)
  <2>1. cp' = cp
    BY <1>6 DEF Create, Resume, Redeliver, Begin, Cancel, Repair
  <2>2. QED BY <2>1, <1>1 DEF SameProgress
<1>7. CASE ReadContract \/ OpenResumed \/ StartLoop \/ EnterFinal \/ Report \/ UNCHANGED vars
  <2>1. cp' = cp
    BY <1>7 DEF ReadContract, OpenResumed, StartLoop, EnterFinal, Report, disk, vars
  <2>2. QED BY <2>1, <1>1 DEF SameProgress
<1>8. CASE ResumeRefused \/ Raise
  BY <1>1, <1>8, FailIsNoProgress DEF ResumeRefused, Raise
<1>9. CASE \E s \in Serials : Restart(s)
  BY <1>1, <1>9, RestartIsNoProgress
<1>10. QED
  BY <1>2, <1>3, <1>4, <1>5, <1>6, <1>7, <1>8, <1>9 DEF Next, RunStep

\* The evaluator implements FullCoverage: progress grows until the job starts over,
\* a score is given only at full coverage, and new progress withdraws it.
THEOREM EvaluatorImplementsFullCoverage == Spec => FullCoverageImplemented
<1>1. Init => Coverage!CoverageInit
  BY DEF Init, Coverage!CoverageInit
<1>2. QED
  BY <1>1, EvalInvariant, NextImplements, PTL
     DEF Spec, FullCoverageImplemented, Coverage!CoverageSpec
=============================================================================
