----------------------------- MODULE Evaluator -----------------------------
(***************************************************************************)
(* ProgressiveEvaluator.evaluate (src/contextmesh/runtime.py): one         *)
(* evaluation job of one corpus, from the request to the final score,      *)
(* through cancellation, inspection failures, capability, contract and     *)
(* ingest gates, server restarts, resumes and repairs of the corpus.       *)
(*                                                                         *)
(* Persistent: manifest.json, the checkpoint file and the cancel flag      *)
(* file, each replaced atomically.  Everything else is the memory of the   *)
(* process, lost when it dies.  One run at a time is modelled here, as the *)
(* embedded worker thread executes them.  The row a queued run was leased  *)
(* with outlives the process: once its lease has expired the queue hands   *)
(* out the same request again.                                             *)
(***************************************************************************)
EXTENDS Integers, Sequences, FiniteSets, Functions

CONSTANTS
  Blocks,     \* ids of coverage blocks
  Manifests,  \* the manifests ingest may write: [required: Seq(Blocks), ready: BOOLEAN]
  Routes,     \* model routes: [capable: SUBSET Blocks, fits: BOOLEAN]
  Serials,    \* orders in which a process serializes the sets of a contract
  BatchSize,  \* execution_batch_size
  Limits,     \* values of max_blocks
  Budget,     \* bound: how many failures, restarts, repairs, cancels happen
  Null        \* None

ASSUME EvaluatorAssumption ==
  /\ IsFiniteSet(Blocks)
  /\ \A m \in Manifests : m.required \in Seq(Blocks) /\ m.ready \in BOOLEAN
  /\ \A r \in Routes : r.capable \subseteq Blocks /\ r.fits \in BOOLEAN
  /\ BatchSize \in Nat \ {0}
  /\ Limits \subseteq Nat
  /\ Budget \in [{"failures", "restarts", "repairs", "cancels"} -> Nat]

VARIABLES
  manifest,  \* the corpus manifest on disk
  cp,        \* the checkpoint on disk, or Null
  flag,      \* the job's cancel flag file exists
  serial,    \* the serialization order of this process (hash seed)
  stale,     \* the requests of queue rows whose worker died, to be handed out again
  pc,        \* where the run is
  request,   \* what it was asked: resume?, route, max_blocks, as a queued job?
  contract,  \* the execution contract it was given
  expected,  \* the required blocks its reader read
  ordered,   \* the visiting order
  todo,      \* the required blocks still to inspect in this run
  state,     \* EvaluationState
  budget     \* what is left of Budget

disk == <<manifest, cp, flag, stale>>
run == <<pc, request, contract, expected, ordered, todo, state>>
vars == <<manifest, cp, flag, stale, serial, pc, request, contract, expected, ordered, todo,
          state, budget>>

\* ExecutionContract.full_coverage(ids), as its JSON dump: the ids and an order.
Contract == [ids: SUBSET Blocks, serial: Serials]

State ==
  [visited: SUBSET Blocks, failures: SUBSET Blocks, contract: Contract,
   preserved: [Blocks -> Nat], \* PRESERVE receipts in the ledger, per block
   blockers: SUBSET {"capability", "cancelled", "missing", "failed", "contract",
                     "ingest", "bundle"}]

Statuses ==
  {"queued", "running", "cancelled", "capability_blocked", "blocked", "paused",
   "contract_blocked", "ingest_blocked", "decision_bundle_blocked", "complete",
   "failed", "interrupted"}

\* EvaluationCheckpoint
CheckpointRecord ==
  [ordered: Seq(Blocks), state: State, complete: BOOLEAN, status: Statuses]

\* None is no route, and nothing that a run holds or stores.
ASSUME NullAssumption ==
  /\ Null \notin Routes
  /\ \A B \in SUBSET Blocks : B # Null
  /\ Null \notin Contract
  /\ Null \notin State
  /\ Null \notin CheckpointRecord

\* A run that works without bound on the number of blocks.
Unlimited == Cardinality(Blocks)

FreshState(c) ==
  [visited |-> {}, failures |-> {}, contract |-> c,
   preserved |-> [b \in Blocks |-> 0], blockers |-> {}]

\* _checkpoint (the cursor, which no code path reads back, is left out)
Checkpoint(order, st, status) ==
  [ordered |-> order, state |-> st, complete |-> status = "complete", status |-> status]

Spend(what) ==
  /\ budget[what] > 0
  /\ budget' = [budget EXCEPT ![what] = @ - 1]

-----------------------------------------------------------------------------
\* Requests.

\* leasable: the row may be handed out (again) for all the cancel requests say.
NoRequest ==
  [resume |-> FALSE, route |-> Null, limit |-> 0, queued |-> FALSE, leasable |-> FALSE]

\* The memory of evaluate() when it has returned or raised.
NoRun ==
  /\ contract' = Null
  /\ expected' = {}
  /\ ordered' = <<>>
  /\ todo' = {}
  /\ state' = Null

Begin(r) ==
  /\ pc = "idle"
  /\ pc' = "contract"
  /\ request' = r
  /\ UNCHANGED <<manifest, cp, serial, contract, expected, ordered, todo, state, budget>>

\* create_evaluation_job with a fresh job id, or POST /evaluate with max_blocks.
Create(route, limit, queued) ==
  /\ cp = Null
  /\ stale = {}
  /\ queued => limit = Unlimited
  /\ flag' = IF queued THEN FALSE ELSE flag
  /\ Begin([resume |-> FALSE, route |-> route, limit |-> limit, queued |-> queued,
            leasable |-> queued])
  /\ UNCHANGED stale

\* resume_evaluation_job: a complete job is not resumed.
Resume(route) ==
  /\ cp # Null
  /\ ~cp.complete
  /\ flag' = FALSE
  /\ Begin([resume |-> TRUE, route |-> route, limit |-> Unlimited, queued |-> TRUE,
            leasable |-> TRUE])
  /\ UNCHANGED stale

\* lease() finds the row of a run whose process died, its lease expired: the request
\* is executed as it was stored, an initial one without resume.
Redeliver(r) ==
  /\ r \in stale
  /\ stale' = stale \ {r}
  /\ Begin(r)
  /\ UNCHANGED flag

\* cancel_evaluation_job: a complete job is not cancelled.  request_cancel reaches
\* the rows that run or wait to be recovered, and no such row is leased again.
Cancel ==
  /\ cp # Null => ~cp.complete
  /\ Spend("cancels")
  /\ flag' = TRUE
  /\ stale' = {}
  /\ request' = [request EXCEPT !.leasable = FALSE]
  /\ UNCHANGED <<manifest, cp, serial, pc, contract, expected, ordered, todo, state>>

\* retry_ingest_job and the ingest it queues: the manifest is replaced.
Repair(m) ==
  /\ Spend("repairs")
  /\ manifest' = m
  /\ UNCHANGED <<cp, flag, stale, serial, run>>

-----------------------------------------------------------------------------
\* A run.

\* _contract_for_request reads the manifest, before the evaluator's reader does.
ReadContract ==
  /\ pc = "contract"
  /\ contract' = [ids |-> Range(manifest.required), serial |-> serial]
  /\ pc' = "open"
  /\ UNCHANGED <<disk, serial, request, expected, ordered, todo, state, budget>>

\* The orders _ordered_ids may return: ranking reorders the required blocks, and
\* a block that is named twice is taken once.
Orderings(required) ==
  Bijection(1 .. Cardinality(Range(required)), Range(required))

OpenFresh ==
  /\ pc = "open"
  /\ ~request.resume
  /\ expected' = Range(manifest.required)
  /\ ordered' \in Orderings(manifest.required)
  /\ state' = FreshState(contract)
  /\ cp' = Checkpoint(ordered', state', "queued")
  /\ pc' = "preflight"
  /\ UNCHANGED <<manifest, flag, stale, serial, request, contract, todo, budget>>

\* current != requested, on the JSON dumps.
ContractMatches == cp.state.contract = contract

OpenResumed ==
  /\ pc = "open"
  /\ request.resume
  /\ ContractMatches
  /\ expected' = Range(manifest.required)
  /\ ordered' = cp.ordered
  /\ state' = [cp.state EXCEPT !.blockers = {}]
  /\ pc' = "preflight"
  /\ UNCHANGED <<disk, serial, request, contract, todo, budget>>

\* An exception leaves evaluate(); the handler of a queued job marks the stored
\* checkpoint, a direct call only reports the error.
Fail ==
  /\ cp' = IF cp # Null /\ request.queued THEN [cp EXCEPT !.status = "failed"] ELSE cp
  /\ NoRun
  /\ pc' = "report"
  /\ UNCHANGED <<manifest, flag, stale, serial, request>>

ResumeRefused ==
  /\ pc = "open"
  /\ request.resume
  /\ ~ContractMatches
  /\ Fail
  /\ UNCHANGED budget

\* The run ends with a checkpoint.
Stop(status, st) ==
  /\ cp' = Checkpoint(ordered, st, status)
  /\ NoRun
  /\ pc' = "report"
  /\ UNCHANGED <<manifest, flag, stale, serial, request, budget>>

Blocked(reasons) == [state EXCEPT !.blockers = reasons]

Unsupported == expected \ request.route.capable

\* _preflight_unsupported names a required block the route cannot inspect.
CapabilityBlocked ==
  /\ pc = "preflight"
  /\ Unsupported # {}
  /\ Stop("capability_blocked",
          [Blocked({"capability"}) EXCEPT !.failures = @ \cup Unsupported])

\* The first n blocks of S in the visiting order.
First(n, S) ==
  LET Before(a, b) == \E i, j \in DOMAIN ordered : i < j /\ ordered[i] = a /\ ordered[j] = b
  IN {b \in S : Cardinality({a \in S : Before(a, b)}) < n}

Remaining_All == Range(ordered)

Remaining_SkipsFailed == (Range(ordered) \cap expected) \ (state.visited \cup state.failures)

Remaining == (Range(ordered) \cap expected) \ state.visited

StartLoop ==
  /\ pc = "preflight"
  /\ Unsupported = {}
  /\ todo' = First(request.limit, Remaining)
  /\ pc' = "loop"
  /\ UNCHANGED <<disk, serial, request, contract, expected, ordered, state, budget>>

\* The flag is looked at before every batch.
CancelSeen ==
  /\ pc = "loop"
  /\ todo # {}
  /\ flag
  /\ Stop("cancelled", Blocked({"cancelled"}))

Batch == First(BatchSize, todo)

Merge_LastBatchOnly(failed) ==
  LET ok == Batch \ failed IN
  [state EXCEPT !.visited = ok, !.failures = (@ \ ok) \cup failed,
                !.preserved = [b \in Blocks |-> @[b] + IF b \in ok THEN 1 ELSE 0]]

\* _merge_outcome over the batch: a failed block stays unvisited, an inspected one
\* is no longer failed and gets a PRESERVE receipt.
Merge(failed) ==
  LET ok == Batch \ failed IN
  [state EXCEPT !.visited = @ \cup ok,
                !.failures = (@ \ ok) \cup failed,
                !.preserved = [b \in Blocks |-> @[b] + IF b \in ok THEN 1 ELSE 0]]

\* _inspect_batch with its retries, then the merge and the checkpoint.
InspectBatch(failed) ==
  /\ pc = "loop"
  /\ todo # {}
  /\ ~flag
  /\ failed \subseteq Batch
  /\ Cardinality(failed) <= budget["failures"]
  /\ budget' = [budget EXCEPT !["failures"] = @ - Cardinality(failed)]
  /\ state' = Merge(failed)
  /\ cp' = Checkpoint(ordered, state', "running")
  /\ todo' = todo \ Batch
  /\ UNCHANGED <<manifest, flag, stale, serial, pc, request, contract, expected, ordered>>

LoopDone == pc = "loop" /\ todo = {}

Covered == expected \subseteq state.visited

\* not coverage.complete
Incomplete ==
  /\ LoopDone
  /\ ~Covered
  /\ Stop(IF state.failures # {} THEN "blocked" ELSE "paused",
          Blocked({"missing"} \cup IF state.failures \cap expected # {} THEN {"failed"} ELSE {}))

ContractBlockers_IgnoresFailed ==
  state.contract.ids \ (expected \cap state.visited)

\* CoverageSnapshot.finalization_blockers: contract sources that miss a stage
\* (ingested: in expected; inspected: visited too) or failed.
ContractBlockers ==
  LET ids == state.contract.ids IN
  (ids \ (expected \cap state.visited)) \cup (ids \cap state.failures \cap expected)

ContractBlocked ==
  /\ LoopDone
  /\ Covered
  /\ ContractBlockers # {}
  /\ Stop("contract_blocked", Blocked({"contract"}))

\* The manifest is read again for the ingest gate.
IngestBlocked ==
  /\ LoopDone
  /\ Covered
  /\ ContractBlockers = {}
  /\ ~manifest.ready
  /\ Stop("ingest_blocked", Blocked({"ingest"}))

EnterFinal ==
  /\ LoopDone
  /\ Covered
  /\ ContractBlockers = {}
  /\ manifest.ready
  /\ pc' = "final"
  /\ UNCHANGED <<disk, serial, request, contract, expected, ordered, todo, state, budget>>

\* preflight_finalize: the decision bundle does not fit the route.
BundleBlocked ==
  /\ pc = "final"
  /\ ~request.route.fits
  /\ Stop("decision_bundle_blocked", Blocked({"bundle"}))

\* judge.finalize returns.
Score ==
  /\ pc = "final"
  /\ request.route.fits
  /\ Stop("complete", Blocked({}))

\* A judge, a reduction or the store raises.
Raise ==
  /\ pc \in {"preflight", "loop", "final"}
  /\ Spend("failures")
  /\ Fail

\* The worker closes the queue row (complete, mark_cancelled, or fail, which is final
\* for an evaluation), or the HTTP response is sent.
Report ==
  /\ pc = "report"
  /\ pc' = "idle"
  /\ request' = NoRequest
  /\ UNCHANGED <<disk, serial, contract, expected, ordered, todo, state, budget>>

-----------------------------------------------------------------------------

Reconciled_UnknownStatus(c) ==
  IF c # Null /\ c.status \in {"queued", "running"}
  THEN [c EXCEPT !.status = "resumable"] ELSE c

\* reconcile_interrupted_jobs
Reconciled(c) ==
  IF c # Null /\ c.status \in {"queued", "running"}
  THEN [c EXCEPT !.status = "interrupted"] ELSE c

\* The server process dies and starts again: _lifespan reconciles the checkpoint.
\* The queue row of an unfinished run is left behind with its lease.
Restart(s) ==
  /\ Spend("restarts")
  /\ serial' = s
  /\ cp' = Reconciled(cp)
  /\ stale' = stale \cup IF request.leasable THEN {request} ELSE {}
  /\ NoRun
  /\ pc' = "idle"
  /\ request' = NoRequest
  /\ UNCHANGED <<manifest, flag>>

Init ==
  /\ manifest \in Manifests
  /\ serial \in Serials
  /\ cp = Null
  /\ flag = FALSE
  /\ stale = {}
  /\ pc = "idle"
  /\ request = NoRequest
  /\ contract = Null
  /\ expected = {}
  /\ ordered = <<>>
  /\ todo = {}
  /\ state = Null
  /\ budget = Budget

RunStep ==
  \/ ReadContract
  \/ OpenFresh
  \/ OpenResumed
  \/ ResumeRefused
  \/ CapabilityBlocked
  \/ StartLoop
  \/ CancelSeen
  \/ \E failed \in SUBSET todo : InspectBatch(failed)
  \/ Incomplete
  \/ ContractBlocked
  \/ IngestBlocked
  \/ EnterFinal
  \/ BundleBlocked
  \/ Score
  \/ Report

Next ==
  \/ \E r \in Routes, n \in Limits, q \in BOOLEAN : Create(r, n, q)
  \/ \E r \in Routes : Resume(r)
  \/ \E r \in stale : Redeliver(r)
  \/ Cancel
  \/ \E m \in Manifests : Repair(m)
  \/ RunStep
  \/ Raise
  \/ \E s \in Serials : Restart(s)

Spec == Init /\ [][Next]_vars

\* A run goes on while its process lives, and the user keeps resuming a job that
\* stopped, again and again with a route that can do it.
FairSpec ==
  /\ Spec
  /\ WF_vars(RunStep)
  /\ SF_vars(\E r \in Routes : r.capable = Blocks /\ r.fits /\ Resume(r))

-----------------------------------------------------------------------------
\* Properties.

Request ==
  [resume: BOOLEAN, route: Routes \cup {Null}, limit: Nat, queued: BOOLEAN,
   leasable: BOOLEAN]

TypeOK ==
  /\ manifest \in Manifests
  /\ cp \in {Null} \cup CheckpointRecord
  /\ flag \in BOOLEAN
  /\ serial \in Serials
  /\ stale \subseteq Request
  /\ pc \in {"idle", "contract", "open", "preflight", "loop", "final", "report"}
  /\ request \in Request
  /\ pc # "idle" => request.route # Null
  /\ contract \in Contract \cup {Null}
  /\ pc \notin {"idle", "contract", "report"} => contract # Null
  /\ expected \subseteq Blocks
  /\ ordered \in Seq(Blocks)
  /\ todo \subseteq Blocks
  /\ state \in State \cup {Null}
  /\ pc \in {"preflight", "loop", "final"} => state # Null
  /\ budget \in [DOMAIN Budget -> Nat]

\* A complete checkpoint has inspected every source of its contract, in this run or
\* an earlier one, none of them failed last, and no blocker is left on record.
FinalScoreIsEarned ==
  (cp # Null /\ cp.complete) =>
    /\ cp.state.contract.ids \subseteq cp.state.visited
    /\ cp.state.contract.ids \cap cp.state.failures = {}
    /\ cp.state.blockers = {}

\* No block is inspected twice and none is counted without its receipt, whatever
\* crashes, failures and resumes happen: the checkpoint holds one PRESERVE receipt
\* for every visited block and no other.
InspectedOnce ==
  cp # Null =>
    \A b \in Blocks : cp.state.preserved[b] = IF b \in cp.state.visited THEN 1 ELSE 0

\* The evaluator implements FullCoverage: progress grows until the job starts over
\* (a redelivered initial request), and a score is given only at full coverage.
Coverage ==
  INSTANCE FullCoverage WITH
    Sources <- Blocks,
    NotOpened <- Null,
    required <- IF cp = Null THEN Null ELSE cp.state.contract.ids,
    visited <- IF cp = Null THEN {} ELSE cp.state.visited,
    final <- cp # Null /\ cp.complete

FullCoverageImplemented == Coverage!CoverageSpec

\* What a resume does not get past: the stored contract names other blocks than the
\* manifest, or serializes them in another order than this process; a preflight with
\* an incapable route marked a block as failed that is already inspected, and is
\* therefore not inspected again; the corpus is not ready.
Stuck ==
  \/ cp.state.contract # [ids |-> Range(manifest.required), serial |-> serial]
  \/ cp.state.failures \cap cp.state.visited # {}
  \/ ~manifest.ready

\* A job that was started gets its final score, however often it was cancelled,
\* interrupted, blocked or failed and whatever routes it was tried with, if it is
\* resumed often enough with one that can do it.  Only a stuck job does not.
JobFinishes == cp # Null ~> (cp # Null /\ (cp.complete \/ Stuck))

\* What the documentation says of an interrupted job: it can be resumed (here: of a
\* corpus that still requires the same blocks).
InterruptedIsResumable ==
  [][(/\ pc = "open" /\ pc' = "report"
      /\ cp # Null /\ cp.status = "interrupted"
      /\ cp.state.contract.ids = contract.ids) => cp'.status # "failed"]_vars

\* What the documentation says of a job the server's restart interrupted: what its
\* checkpoint holds is there to be resumed.
ProgressSurvivesRestart ==
  [][(cp # Null /\ cp.status = "interrupted" /\ manifest' = manifest)
       => cp.state.visited \subseteq cp'.state.visited]_vars
=============================================================================
