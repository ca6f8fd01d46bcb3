# ContextMesh in TLA+

Specifications of the parts of ContextMesh that keep state across processes,
crashes and retries, what TLC finds about small instances of them, and what
TLAPS proves of them for every size. Source paths below are relative to the
package, `src/contextmesh/`, unless they start with `docs/`.

## Contents

| file | what it is |
| --- | --- |
| `JobQueue.tla` | the table `queue_jobs` and every statement of `SQLiteJobQueue` on it |
| `WorkerLoop.tla` | worker processes and HTTP handlers on that queue (extends `JobQueue`) |
| `SerialExecution.tla` | what queue and workers promise, abstractly; `WorkerLoop` refines it |
| `Evaluator.tla` | `ProgressiveEvaluator.evaluate`, checkpoints, restarts, resumes |
| `FullCoverage.tla` | what an evaluation promises, abstractly; `Evaluator` refines it |
| `TypedReduction.tla` | evidence units, their conservative merge, the decision bundle |
| `ExecutionPlane.tla` | one job under calls, two workers and server restarts at once (extends `TypedReduction`) |
| `UploadSession.tla` | resumable uploads of both backends, ingest from sessions |
| `FileParsing.tla` | what every parser makes of a file: pure operators |
| `Corpus.tla` | ingest jobs, block stores, catalog, readers, deletion (extends `FileParsing`) |
| `TokenBudget.tla` | counting, budgets and `split_text`: pure operators |
| `JudgeCalls.tla` | one request of `OpenAICompatibleJudge` as calls of a model (extends `TokenBudget`) |
| `ProofGates.tla`, `ScalePlan.tla` | scoring and gates, panel and projections: pure operators |
| `ProofHarness.tla` | a run of the big-context proof (extends `ScalePlan`) |
| `MC*.tla`, `*.cfg` | instances for TLC |
| `JobQueue_proofs.tla` | theorems about the queue under arbitrary clients |
| `WorkerLoop_proofs.tla` | theorems about any number of workers; the loop implements `SerialExecution` |
| `Evaluator_proofs.tla` | theorems about one evaluation job; it implements `FullCoverage` |
| `ExecutionPlane_proofs.tla` | theorems about calls, workers and restarts at once |
| `UploadSession_proofs.tla` | theorems about any sessions and calls |
| `Corpus_proofs.tla` | theorems about any files, ingests, readers and deletions |
| `JudgeCalls_proofs.tla` | theorems about any request, route, text and answer |
| `ProofHarness_proofs.tla` | theorems about any run of the big-context proof |
| `PROJECT.json` | components, runs, mutants, source lines of definitions, findings, hazards, theorems |

`tlc -config X.cfg MCx` checks a run, `tlapm X_proofs.tla` a proof module.

## The system

A user uploads files, which an **ingest** job turns into a corpus of addressable
blocks with a manifest. An **evaluation** job has a judge (a model route)
inspect every block the manifest requires, and only then gives a score for an
answer to a question. Jobs go through a durable **queue** in SQLite to
**workers**: a thread embedded in the HTTP server, or separate processes on the
same host. Everything durable is a JSON file, replaced atomically, or a row.

| component | state | operations | correct when |
| --- | --- | --- | --- |
| job queue, `jobqueue.py` | table of jobs: status, attempts, lease, cancel request | enqueue, lease, recover, heartbeat, complete, fail, cancel | a row has one holder at a time; nothing eligible is lost; retries are bounded; cancelled rows are not handed out |
| worker loop, `api.py:798` | the row a worker is busy with | poll, lease, execute, record | outcomes are recorded; every job is settled although workers die |
| job handlers, `api.py:447-767` | cancel flag files | create, cancel, resume, retry | a cancel or resume acts on the job whatever the workers do meanwhile |
| evaluator, `runtime.py` | evaluation state, checkpoint | inspect in batches, gates, finalize | no score before full coverage; no inspection lost or counted twice; resumable |
| contracts and ledger, `semantics.py` | contract, receipts, semantic units | blockers, append, verify, reduce | only duplicates are dropped; the chain of receipts is intact |
| store, `store.py`, `blockstore.py`, `catalog.py` | manifests, checkpoints, flags, routes, segments, index | put, get, reconcile, delete | readers see whole files; an index row points at its block; interrupted work is marked |
| uploads, `uploads.py` | session rows, part rows, part files | create, put part, complete, abort | a complete session names a file with the announced content and stays complete |
| ingest, `ingest.py`, `rich_ingest.py`, `docling_adapter.py`, `relations.py` | blocks, reports, manifest | parse, window, account | `coverage_ready` only if no unit is unresolved; one bad file does not lose the others |
| judges and budget, `judges.py`, `providers.py`, `token_budget.py` | usage counters | inspect, page, finalize | pages cover the text and fit the budget |
| event bus, `events.py` | bounded subscriber queues | subscribe, publish | publishers never block; a slow subscriber loses the oldest events |
| reader, explorer, RLM tools | visited ids of a session | next, read, search | session coverage is exact |
| proof harness and promotion, `big_context_proof.py`, `benchmarks/` | frozen plan, gates, lineage files | traverse, score, project, gate, promote | a claim rests on inspected blocks and on evidence that was kept; a plan replays |
| reports, diagnostics, CLI, web pages | none | | |

They interact through the store and the queue only: a handler writes a file or
a flag and then a row; a worker leases the row, reads the files and writes a
checkpoint after every batch; the server, when it starts, marks what an earlier
process left unfinished (`_lifespan`, `reconcile_interrupted_jobs`,
`recover_expired`).

What is hard: a lease may run out under a worker (nothing renews it); a worker
may die anywhere, and its row comes back later; `fail()` and
`cancel_evaluation_job` act in two steps; a resume meets a checkpoint that
another process wrote; the corpus may be replaced while it is evaluated; two
runs of one job may write one checkpoint; upload calls check first and write
later; catalog and payload store are written in separate transactions; a prompt
is sized by a probe of another text; one failed call of a thousand must not count
as an inspection. PROJECT.json lists these hazards at their lines, with the
properties that are about them, and where no property covers one, or only up to an
exception, why.

## Modules

### JobQueue

`jobs` is the table (every key has a row; status `"absent"` means none);
`failing[w]` is what `fail()` called by `w` has read and not yet written. Each
method is one action, `fail()` two (`FailRead`, `FailWrite`), because its SELECT
and UPDATE are auto-committed one by one. `lease()` runs recovery and claim in
one `BEGIN IMMEDIATE` transaction and is one action, `Lease` or `LeaseNothing`.

Left out of `Lease` are the filter by kind, which no caller uses, and the time between
`lease()` taking its `now` and the lock: a claim that waited for another's transaction
uses a slightly older instant.

The code compares timestamps only with the present instant. A timestamp is kept
as its distance from now, in ticks: `wait` for `available_at`, `ttl` for
`lease_expires_at`, and `Tick` moves the clock. This keeps the state space
finite without bounding the clock. `created` is the order of insertion (the code
uses the time of day; two rows inserted at the same instant or across a clock
step would be unordered in the code).

`QueueSpec` lets any client make any call at any time with any argument.

### WorkerLoop

Adds the processes: `workers[w]` is a worker's place in `run_worker_loop`, its
row and how long it has been busy (`age`); `flags` are the cancel flag files and
`cancels` the cancel requests that wrote the flag and have yet to tell the
queue. What a job does is left open: it returns, sees the flag, or raises, at any
time up to `MaxRun` ticks. A crash is final for a worker id, since
`run_worker_loop` makes up a fresh id. A crashed worker's row stays leased until
it expires. A run that sees the flag ends as cancelled here; in the code the checkpoint's
status says so (`api.py:815`), which `ExecutionPlane` has.

`MaxRun` against `LeaseTicks` is the question the code leaves open: no code
bounds the time a job takes and none renews the lease (`heartbeat` has no caller
outside the tests). All positive results below are under `MaxRun <= LeaseTicks`;
run `lease_overrun` shows what happens without it.

`SerialExecution` is the abstract specification: an entry is executed by one
executor at a time and never after it was closed. A row is open while it is
queued or running and closed in a final status.

### Evaluator

One evaluation job: the manifest, checkpoint and flag files, and the run that
works on them, action by action in the order of `evaluate()`: contract read by
the caller, reader and order, fresh or resumed state, capability preflight,
batches with the cancel check before each, the coverage, contract and ingest
gates, the bundle preflight, the score. Every exit writes its status. `Raise` is
any exception of a judge, a reduction or the store. After the run the worker
closes the queue row (`Report`). `Restart` kills process and run at any point;
the row's request is then `stale` and is executed again by `Redeliver`, unless a
cancel request reached the row.

Blocks are model values. Notes, evidence, reductions and usage have no influence
on the control flow except that they may raise. `preserved` counts the ledger's
PRESERVE receipts per block. `serial` is the order in which a process serializes
sets, which changes with the hash seed of the process; a contract on disk is a
set in such an order. Two equal requests that are stale at once are one (the
second execution would find what the first one left).

The run of one batch is one action: its threads share no state, and results are
merged in batch order after all have come back. What is left to inspect is kept as
a set with the order of the contract beside it; `Orderings` drops the repetitions
of a manifest that names a block twice.

`FullCoverage` is the abstract specification: coverage grows, a score needs full
coverage, and nothing is lost except by starting over from nothing, which a
redelivered initial request does. A score is withdrawn with the first block that
is inspected after it: a resume of a finished job, handed out again after the
corpus was repaired, has new blocks to inspect before it earns its score anew.

### TypedReduction and ExecutionPlane

`Evaluator` has one run at a time. `ExecutionPlane` is the same job with
everything that can happen beside a run: the create, cancel and resume calls in
their separate accesses to checkpoint, flag and queue; the embedded and an
external worker, each with a row; leases that expire under a live worker or a
dead one; a server that restarts beside the external worker and reads all
checkpoints before it writes any. Each access is an action, and what was read is
kept in `call`, `run` or `boot` until it is used. In exchange the run is simpler:
a capable route, a fixed corpus, one block per batch, contracts that serialize
alike, the same findings whenever a block is inspected.

`TypedReduction` is the evidence such runs carry: units with their source blocks,
the merge of canonical duplicates, the validation that raises, and the sections
of the decision bundle. The code keys a unit also by its text; here the text is a
function of the canonical key. `shared` and `cancelled` are history: who has worked at
the same time as another; that the job was cancelled by a call which no create or
resume overlapped.

### UploadSession

Rows of sessions and parts, the staged files, the s3 object store (external) and
the directory of completed files. Every call is broken where the code checks and
where it writes, in the order file, row; a call in progress holds what it has
read, so that a completion, an abort or a death of the server falls between the
steps of another. A part is the sequence of its bytes and its digest is the same
sequence. An s3 completion records the parts the object store lists (`ListParts`), or
those its client names, which nobody compares with the store (`BringParts`; the numbers
are any set of those of the session, sizes are left out, which the code takes for 0);
then the store accepts the list, if it has the parts, or refuses (`CloseRemote`).
`alleged` remembers what a client named and the store did not have, `purged` whose parts
were taken away by an abort or put together by the store. `clashed` remembers names that
two completions found free at once, and `announced` the digest a session was created
with: the column `sha256` is written again by a completion, so that it alone would say
nothing of the announcement.

### FileParsing and Corpus

`FileParsing` gives for every kind of file the leaf blocks, the structural blocks
and the unresolved units that the parser chosen by `ingest.py` yields, with the
outcome of every external tool (Docling, LibreOffice, the page renderer,
`ffmpeg`) as a field of the file. Its arithmetic is that of the code: windows with
overlap, row batches, table segments, heading stacks. `FileUnits` and `LeafUnits`
are the reference: the characters, rows, pictures, charts, page images and segments a
file has and a block holds. `Overlooked` names the units that a parser of the code drops
and does not count as unresolved: pages of a PDF that the renderer did not find when it
found others; of a file read by Docling the look of the pages, pictures that have a
caption, and the text of a heading, which becomes the title of a section that nobody
evaluates; the header of a CSV without rows.

`Corpus` stores them: an ingest writes payloads, then the catalog (which selects
the known ids before its transaction), then the manifest, then the job; readers
open a corpus, migrate old JSON blocks, repair the catalog, rank and order; a
deletion removes the files of the directory in any order, then rows, payloads and
uploads, and may fail on the way. `removed` is history: the JSON blocks of an old corpus
that deletions took away. Each SQL
transaction or file operation is an action of one of several threads. A manifest
names the files that were reported, from which the blocks it requires follow, and
the roots, which it also has of files that failed after their root was stored.
`ParsersAssumption` says what `Corpus` relies on: a parser returns finitely many
blocks, requires only leaves of its file and counts with natural numbers.

### TokenBudget and JudgeCalls

Texts are sequences of characters with a tokenizer that merges some of them, so
that counts are neither additive nor monotone, or an estimate per character.
`SplitText` has the binary search, the cut at a sentence mark and the overlap of
`split_text`. `JudgeCalls` is one request: an inspection in slices, a batch of
questions or tasks that is halved until it fits, the recursive `reduce_notes`
with its stack of frames, the preflight checks, the decision bundle and its
shards, the final prompt with what is left out of it. The model is external: it
answers with one of a few lengths, or the call fails. All prompt lengths and
limits of the code are constants with small values of the same proportions;
`JudgeAssumption` says how they compare where that matters. `MaxDepth` is Python's
recursion limit, and `DepthAssumption` puts the number of notes well below two to
the power of it.

### ProofGates, ScalePlan, ProofHarness

`ProofGates` scores the answers of a traversal against the truth of a needle
matrix and evaluates the five gates; shares are counted in sixtieths, so that
they are exact for up to six terms. `ScalePlan` chooses the panel greedily and
grows the projections, with a second order of the blocks for the code's hash
order. The blocks of a corpus, of a projection and of a traversal are sets and
the order is in their ids, which are numbers: no score reads the order in which
blocks are listed, and which distractors are taken is a matter of each one's
predecessors. Ratios are whole numbers, as the default ones are.

`ProofHarness` runs the gates: traversals with a pool of workers, retries and
failures, the planner as a process of its own, a second ingest that changes the
blocks behind the ids. `chosenFrom`, `replaced`, `missed` and `lost` are history:
the corpus the panel was chosen from, whether another was ingested after that, which
question had no answer from which block where Gate 3 counts on one, and for which of
them that was because the text of an exception was empty.

More permissive than the code: on the route of one question at a time the other blocks
are inspected, too, when one is unsupported (`runtime.py:578-596` stops before the first),
and a task is not blocked because a projection of a corpus that is no longer ready is
evaluated (`runtime.py:688-699`; Gate 1 excludes it for the corpus itself). Left out: the
frozen plan's corpus id and fingerprint of the matrix, which only reject more plans.

## Runs

| run | instance | shows |
| --- | --- | --- |
| `job_queue` | 2 rows, 2 workers, 2 priorities, lease of 1 tick, at most 2 leases of a row | lease columns, lease order, no stolen lease, no lease of a cancelled row |
| `worker_loop` | 2 rows, 2 workers, 1 crash, an ingest and an evaluation job, run and lease of 2 ticks | exclusive execution, recorded outcomes, bounded attempts, every job settles, refinement of `SerialExecution` |
| `evaluator` | 3 blocks, batches of 2, 3 routes, 2 manifests, 2 serializations, one failure, restart, repair, cancel each | the score is earned, one receipt for an inspected block, refinement of `FullCoverage`, a job that is resumed finishes unless it is stuck |
| `execution_plane` | 2 blocks sharing an exception, 2 rows, 2 workers, 1 cancel, 2 failures, 2 deaths, expiries or restarts | the checkpoint is one run's exact state, progress is undone only by overlap, a row tells its own run's outcome, a cancel lasts |
| `upload_session` | a local session of 2 parts with a digest beside one of the same name, or an s3 session of 2 parts with any lists a client brings; 2 calls at once, one abort, one ingest job, any refusals and deaths | announced bytes are what the path holds, recorded parts exist but for those a client only named, who may leave `complete` |
| `corpus` | every kind of file with every outcome of its tools, alone; up to 3 operations, 2 at a time, on a new or an old small corpus, one failed write, failed deletion or restart | what a ready corpus lost is `Overlooked`, the manifest is served, navigation leads somewhere, every required block visited once |
| `judge_calls` | 30 routes, 53 requests; texts up to 10 characters, up to 5 notes, questions and lines, reductions at most 8 deep | nothing is skipped, reductions end, what the preflight accepts is not refused later |
| `proof_harness` | 3 corpora of 3 to 5 blocks, 3 matrices, 3 routes, 6 calls of the planner, one failing, silently failing or lying call, one second ingest | a claim is earned, a faithful judge passes, panel evidence is kept, projections nest, plans replay |
| `lease_overrun` | run of 3 ticks, lease of 2, no crash | violated: two workers execute one row |
| `crash_cancelled` | as `worker_loop` | violated: a crashed worker's row with a cancel request is stuck |
| `resume_refused` | as `evaluator` | violated: an interrupted job cannot be resumed by another process |
| `progress_lost` | as `evaluator` | violated: redelivery overwrites an interrupted checkpoint |

Why the bounds are enough. The queue's statements relate at most two rows (the
one claimed and one passed over) and two workers (holder and thief); a lease of one
tick tells a good one from an expired one, which is all the queue looks at, and in
`worker_loop` one of two ticks a fresh, a used, an expiring and an expired one; two
leases of a row are a first attempt and a retry. With two workers one may die and one
survives, which liveness needs. Three blocks in batches of two make a full and a
partial batch, so that a crash, failure or cancel falls before, between or after
them; `Part` and `Whole` are a corpus before and after a repair. In
`execution_plane` two rows are an original and one resume or redelivery, which is
what an overlap needs; the two blocks share one piece of evidence and differ in
another, so that a merge, a lost source and a doubled unit are different states.
In uploads the hazards are pairs of calls; the s3 session is tried alone
(`RemoteIsAlone`), since it shares no table row, part or file with a local one. The parsers are functions of
one file, so that files of all kinds are tried alone; overlapping operations are
tried on a table of three rows and on a file read by Docling with a heading, a text and
a picture. The sizes in
`judge_calls` put every limit of the code above, at and below every text. The
corpora of `proof_harness` fill the context once (one of them not ready) and twice,
as the ratios of the plan ask; Gate 3 asks for half of the cases, so that it passes
without one of them, as with the usual thresholds it does when there are more.

A bound that stops a counter is named: `MaxLeases`, `MaxCrashes`, `Budget`,
`MaxRows`, `MaxOps`, `MaxFaults`, `MaxChanges`, `MaxAborts`, `MaxJobs`,
`MaxDepth`. Also bounds: the constraint `RemoteIsAlone` of
`upload_session`; an ingest of `ProofHarness` is one step (the blocks and the
manifest are two writes in the code), and none happens during a traversal of one
question at a time (`PerQuestion`). Symmetry is used in `job_queue` (rows and workers),
`upload_session` (calls) and `corpus` (threads), where all properties are symmetric
safety properties. Deadlock is not checked where the system may stop for good: a job
with its score, a request answered, a proof run concluded, a bound reached.

### Exceptions the properties state

Where the code does not keep a promise in a corner, the property names the corner
and holds outside it.

* `JobFinishes`, `Stuck`: the stored contract no longer equals the one of the
  manifest or the process; preflight with an incapable route marked an inspected
  block as failed, which nothing clears; the corpus is not ready.
* `UndoneOnlyByOverlap`: a redelivered initial request, workers on two rows or
  after an expired lease, a server that starts beside an external worker.
* `CancelIsKept`: a cancel that overlaps a create or resume, which clears the flag.
* `AnnouncedContentKept`: two completions that found one free name at once.
* `RecordedPartsAreStaged`: a part that a completing client named itself and that the
  object store does not have; sessions that were aborted or whose object is complete.
* `CompleteIsLeftByLateCalls`: a call that saw the session before it was complete; a
  second completion of an s3 session, which records its list before it is refused.
* `ReadyIsEarned`: the units of `Overlooked`.
* `ChildrenAreServed`: the root of a CSV or Docling file keeps the ids of tables
  that were split; and as `ManifestIsServed`.
* `OrderIsExact`: two threads that index one block at once leave it twice in the
  text index, which has no key.
* `ManifestIsServed`: a deletion beside an ingest; JSON blocks of an old corpus that a
  deletion had removed when it failed or the server died, before it came to the manifest.
* `ReductionEnds`: a note over the limit is split into pieces of exactly the
  limit, each counted with one token more, found over the limit again, and so on
  until Python's recursion limit; answers of more than half a limit are reduced
  again and again, a paid call each time. The length of answers is not limited in
  the request.
* `PreflightIsKept`: the final prompt is 317 characters longer than the one
  `_final_payload_budget_tokens` counts, so typed evidence that fills the rest
  makes the last call fail; with less than a character per token the newlines
  cost more than the token reserved for them; an exact tokenizer may count a
  joined text higher than its parts.
* `ClaimIsEarned`: a block whose exception has an empty text counts as inspected, and
  a case whose evaluation ends in one counts as one that found nothing, not as one that
  was not inspected (`big_context_proof.py:609`); tasks that raised or were blocked are
  not in the accuracy, and the property speaks of those that are; the points of a run
  without a plan are projected one by one, so that an ingest between them leaves the
  panel's blocks behind.
* `FaithfulJudgePasses`: a task file without tasks, or with a task whose range is
  empty, fails Gate 3 whatever the judge does; a case without blocks, of which
  anchors may be left out; a case that asks for more files than it names
  (`required_asset_hits`), which nothing refuses and no answer recovers.
* `PanelEvidenceKept`: a panel that mixes cases with blocks and cases with files
  only, of which `_anchor_blocks` drops the files; cases whose blocks the corpus
  lost between Gate 2 and the choice of the panel make such a panel, too. And an
  ingest after the choice.
* `ProjectionsNest`: a first distractor is taken even if the anchors fill the target.
* `FrozenPlanReplays`: the planner was called with the run's parameters of the
  panel; the check compares the context and the anchors only.

### Fairness

`FairLoopSpec`: weak fairness of each worker's loop (the thread or process runs
while it lives; a crashed worker has no step) and of the clock. Submitting,
cancelling and crashing are never obliged. `FairSpec` of the evaluator: weak
fairness of the run's own steps, and strong fairness of a resume with a route
that has all capabilities and room for the bundle: `JobFinishes` is about a user
who keeps resuming a job that stopped, as the statuses ask for, and between two
attempts the job may be running or have been tried with another route, so that
weak fairness would oblige nobody. Failures, restarts and cancels are finitely
many. The other specifications state safety only.

### Mutants

Every checked property has a mutant in PROJECT.json, an operator beside the
original named `Original_Fault`, which breaks it. They are plausible faults of
the code: a forgotten column, a comparison off by one, a dropped condition, a
recovery of leases that are still good, a block that failed once and is never
tried again, a merge that keeps one source, a slice that begins past its
predecessor's end, a reduction that forgets to start a new group, media items
left out of a probe, a name taken without a look, a check dropped from a gate.

## Proofs

All theorems hold for every value of the constants that satisfies the named
assumptions of the module they are about; TLC evaluates these on every run. An
invariant that a run checks is seldom inductive, and the strengthening that is
says why it holds. Layers are proved one after the other, each from those below it,
and what an action writes is a lemma of its own where several layers need it.

`JobQueue_proofs`, under arbitrary clients (NULL is not a value, bounds are natural
numbers, a lease has at least one tick):

* the inductive invariant `QueueInv`: all rows are good, that is typed, leased
  exactly while running, not counted while absent. It is proved statement by
  statement from lemmas on what a statement writes (`ReleasedGood`, `LeasedGood`,
  `RecoveredGood`, `AgedGood`). `QueueTypeCorrect`, `LeasesAreWellShaped` from it;
* `CancelledIsNeverLeased`, `LeaseIsNeverStolen`, `LeasesFollowTheOrder`: every
  statement but `Lease` keeps attempts and holders (`Kept`), and `LeaseClaims` says
  what `Lease` does.

`WorkerLoop_proofs`, for every number of workers, rows and crashes, under
`MaxRun <= LeaseTicks`:

* the inductive invariant `LoopInv`: a busy worker's row is running, leased to
  it, and its `ttl` is `LeaseTicks` less the worker's `age`. Exclusive execution
  is not inductive alone, because it does not exclude a lease of a row in
  progress; with `LoopInv` two busy workers with one row would both be its
  `leased_by`. The assumption is used where a busy worker's lease is shown not
  to have expired (`BusyNotExpired`);
* `ExecutionIsExclusive`, `LeaseCoversEveryRun`, `LoopTypeCorrect`, the action
  property `OutcomesAreRecorded`, and `AttemptsAreBounded`: what a row's attempts
  exceed its limit by is at most the workers that crashed on it;
* `LoopImplementsSerialExecution`, the refinement. An action of the loop changes the
  stage of one row and the executors of one row (`SameStage`, `SameExecuting` for the
  others), which is an abstract step or a stutter; `LoopInv` gives the abstract guards.


`Evaluator_proofs`, for any finite set of blocks and any routes, manifests, batches
and numbers of faults:

* the inductive invariant `EvalInv`. A score is earned only because the run's own
  state agrees with the checkpoint between its writes (`RunMatchesCheckpoint`) and
  nothing of the contract is missing past the gates (`GatePassed`); a block is
  inspected once because what is left to do has not been visited (`TodoUnvisited`),
  also in a run that resumes from disk (`RequestsOpen`);
* `EvaluatorTypeCorrect`, `FinalScoresAreEarned`, `BlocksAreInspectedOnce`;
* `EvaluatorImplementsFullCoverage`, the refinement, whose abstract variables are
  those of the checkpoint.

`ExecutionPlane_proofs`, for any blocks with any evidence, any numbers of cancels,
failures and faults, in three layers:

* `EvidenceInv`: the state of every run and every checkpoint in anybody's hands is
  exact, which the merge, the bundle and its validation keep (lemmas about
  `TypedReduction`). `CheckpointIsExact`;
* `AloneInv`: whoever works beside somebody else is known to (`SharedIsKnown`), and
  a worker that never did holds what the checkpoint holds (`AloneIsCurrent`), as does
  a server that starts alone. `NothingIsUndoneAlone`, `OutcomesAreOwn`;
* `CancelInv`: the flag of a cancelled job is set and nobody is about to clear it.
  `CancelledStaysCancelled`.

`UploadSession_proofs`, for any sessions, parts, contents and calls at once: the
inductive invariant `UploadInv` says what holds of a call between two of its steps
(`CallFits`): a part about to be recorded is staged, a completion that assembles has
a free name unless it clashed, one that records has the announced content in place;
no two completions hold one name (`NamesAreExclusive`), and paths in use are names of
their session (`ClaimsFit`). `UploadsTypeCorrect`, `AnnouncedContentIsKept`,
`RecordedPartsAreThere`, `CompleteIsSticky`. A completion that waits for the object
store names parts that are stored or alleged, so that what a refused one has recorded is
either.

`Corpus_proofs`, for any files, ingests, readers and deletions at once:

* `ShapeInv` types the stores, the job and every thread at every place. It and
  lemmas about what a parser's leaves and batches are give `CorpusTypesCorrect`,
  `ChildrenCanBeServed`;
* `ServedInv`: without a deletion beside it, an ingest has stored what it reported
  and has stored, or holds in the batches it has yet to write, what it is about to
  report; payloads go only after the manifest is gone, JSON blocks only into `removed`.
  `ManifestCanBeServed`;
* `TellsInv`: an ingest that is alone owns the job, and from its write on the
  manifest. `JobIsTold`;
* `ListsInv`, `IndexInv`: required and ordered lists are of blocks the corpus has;
  while no two threads index the same block, the text index has a block at most once,
  and a thread about to index has found in its probe all of its batch that the index
  has. With what the folds of the ranking and the flattening return (`RankedHits`,
  `WithinIs`, `FlatIs`, by least counterexample through `WFMin`): `OrdersAreExact`;
* `ReportsInv`: the reports are those of the files in order but for the one at hand,
  and a complete report without unresolved units is of a file of which the parser
  counted none. `ReadinessIsEarned`, under the hypothesis `UnitsAreHeld`: a parser
  that counts nothing as lost has required blocks that hold every unit of the file but
  those of `Overlooked`.
  This half is about data, and TLC checks it with `ReadyIsEarned`, since every file
  of the run is submitted alone.

`JudgeCalls_proofs`, for any routes, texts, questions, notes and answers, and any
vocabulary. The operators come first, since most of the argument is about them. A
recursive function has the value its definition gives if each value needs only
values of a smaller measure (`MeasureInduction` and what follows it); from that come
the binary search, whose result is an offset of the text whether or not counts grow
with the text, `SplitText`, whose slices are gapless (`SplitTextIs`), and folds from
the left, which pack items into groups of consecutive ones within a limit (`Packed`).
Then, in layers:

* `SentInv`: the slices sent and those to be sent are the whole text, or the questions
  asked and those of all parts still to be asked are the list in order
  (`BatchesContinue`). `SentIsComplete`, without a condition;
* `ReduceTyped` types the calls of `reduce_notes`; `BlockKept`: with a token or less
  for a character, a slice and the prompt around it fit, and so does every call that
  reduces what was found; `FinalKept`: the parts of the final prompt are at most what
  they were counted as. `PreflightKept`, under `TokenizersAddUp`: if a route has an
  exact tokenizer, it counts a text without marks no higher than its parts together.
  Estimates need no hypothesis, and the tokenizer of the run satisfies it. A
  vocabulary with tokens of three and of four characters need not: six characters are
  a token of four and two single ones, but twice a token of three;
* `LevelsFit`: the call at depth p works at the p-th level after the first, and the
  findings and slices together are no more than the characters of the text. `ShortEnds`:
  as long as first notes stay below every limit and any two answers fit into one
  prompt (`Short`), a call with p calls around it has at most `2^Room(p)` notes if it
  is over its limit (`CallFits`), and a call in progress has that many groups
  (`FrameFits`). Every group but the last takes two answers or more, which halves the
  number of notes, except in the first call, which works on first notes, and where the
  limit is smaller than that of the call around it, which happens twice at most, at
  levels 10 and 100: `Room` sets three calls aside. `ReductionIsBounded`.

`ProofHarness_proofs`, for any corpora whose blocks have distinct ids and hashes, any
finite matrices and tasks, routes, plans, ratios, workers, attempts and faults:

* tokens are a cardinality, so that more blocks have at least as many tokens, from
  which projections nest for targets in any order: `ProjectionsAreNested`, a fact
  about what `Plan` returns;
* `HarnessShape` types run, stores, pool and budget. `HarnessTypesCorrect`;
* `MissedIsCounted`, `GatesInOrder`: a question without an answer from a block is in the
  count Gate 3 requires to be zero, or its task is blocked, or the exception had no text
  (`MissedForGood` is the rest), and gates pass in order;
* `PanelFits`, `PointsFit`: the panel is that of `chosenFrom`, which is the corpus
  until another ingest, and every point is one of the plan's, whose anchors were
  compared, or was projected from it. With the above, `ClaimsAreEarned` and
  `PanelEvidenceIsKept`;
* `RejectedIsOther`: a run that rejects has no ready plan of its own corpus and
  matrix, since such a plan has the panel, the anchors and a last point for every
  ratio (`PlanRepeats`, `LargestExists`). `FrozenPlansReplay`;
* `Qualified`, `Untouched`, `FaithfulRun`: past Gate 2 every case has terms; without
  another ingest the store has the blocks of the corpus; and in a run without faults
  all results of a traversal so far are right, all rows so far are full scores, the
  report of the needles is full, Gate 3 has passed and no point failed. The invariant
  needs the first two, and the panel and its anchors from `PanelFits` and `PointsFit`:
  a projection has all blocks the cases of the panel name (`PanelIsCovered`), right
  answers of such blocks are the terms and the files of a truthful case
  (`HitsAreTargets`, `AssetsSuffice`), both ways of scoring give it the same full row
  (`RightRow`), and full rows add up to a report that reaches every share
  (`ScoresAreFull`, `AllReach`, `TasksAreAccurate`). A fold over a finite set, of the
  shares or of the panel, is shown to be defined before it is reasoned about
  (`FoldDefined`, `FoldInduction`). `FaithfulJudgesPass`, under `CasesAssumption` (an
  id names one case, as in the dicts by id; what is compared are numbers; the lists of
  a case are finite) and `SharesAssumption` (thresholds are from 0 to 100 percent).

What the attempts to prove showed about the models:

* `FullCoverage` had nothing inspected after a score, but a resume of a finished job
  after a repair does inspect: the abstract score is withdrawn then, as the code's is;
* `AnnouncedContentKept` spoke of the column `sha256`, which a completion writes, so
  that it held by construction; it now speaks of what was announced;
* `ClaimIsEarned`, `PanelEvidenceKept`, `ProjectionsNest` and `FrozenPlanReplays` were
  true of the instance only: their exceptions above were found as steps that could
  not be proved;
* `UNION S \cap T` is read in two ways by the two tools; it is parenthesized;
* nothing can be shown of `SelectSeq` of a sequence of any length, so the order of an
  execution is written with a fold (`Within`), and its ranking, too (`Ranked`);
* `FaithfulJudgePasses` was true of the instance only, as the exceptions above and two
  facts it needs show: the choice of the panel is by id, which has to name one case,
  and a threshold over 100 percent is never reached;
* `ReductionEnds` spoke of the limit of one level, but the prompt of a reduction names
  its level, and the limit shrinks with the digits of it: it speaks of all `Levels` now;
* guards of a `CASE` that overlap leave the value open, which TLC hides by taking the
  first: the digits of a level are told apart by disjoint guards;
* the binary search is a function of one record, since the prover has no functions of
  several arguments.

Only model-checked: `EveryJobSettles` and `JobFinishes` (liveness under fairness, and
`ENABLED`, are out of the prover's reach); `UnitsAreHeld`, the part of `ReadyIsEarned`
that is about what the folds and recursive functions of `FileParsing` compute.

## What does not hold

Four statements of the documentation are refuted by runs that follow the code:
a lease is not exclusive when a job outlasts it; a crashed job with a cancel
request is never taken up or closed; a job interrupted by a restart may be
refused when it is resumed; an interrupted checkpoint may be overwritten by the
redelivered initial request.

Besides the exceptions above, seen while modelling and not properties: a retry
limit does not bound leases after crashes (`AttemptsBounded` states what does
hold: one more for each worker that died on the row); a score covers the blocks
of its contract, not those of a corpus that was repaired meanwhile; a corpus
is ready without the captioned pictures of a file that Docling read
(`docling_adapter.py:111-120` keeps no path of them, so `ingest.py:553` stores the
caption only) and without the pages of a PDF that were not rendered
(`rich_ingest.py:118-131`), although docs/FULL_COVERAGE.md:19 makes all known media
channels addressable; a corpus
deleted under an ingest leaves orphan rows; unresolved Docling items are counted
twice, which only lowers the coverage; a plan older than the corpus is accepted
if its anchors are still there; a ratio the frozen plan lacks is rejected inside
the loop over the ratios, after model calls for the earlier ones; `ROLLBACK`
events, which docs/BIG_CONTEXT_PROOF.md describes as appended to the lineage, are
refused by the validation of the lineage; a bundle line longer than a shard makes
`preflight_finalize` raise where it would report a blocker; the completion of an s3
session looks neither for missing parts nor at the size; larger projections contain the
smaller ones, but need not be larger, where docs/BIG_CONTEXT_PROOF.md:148 says strict
superset.

## Not modelled

* In `Evaluator`, `ExecutionPlane`: a synchronous `POST /evaluate` with the id of
  an existing job; free-text notes and their reductions, except as one request in
  `JudgeCalls`; the hash chain of the transition ledger.
* In the queue: the `worker_heartbeats` table, which only a page reads; process
  clocks that step.
* In ingest: the Docling adapter's inside (external), reference hints of
  `relations.py`, native PDF, PPTX and XLSX fallbacks that nothing calls, the
  size limits of the direct upload.
* In the judge: `score_full`, the heuristic judge's scores, usage metrics, and how
  `providers.py` makes a judge of a route; the JSON in an answer.
* In the proof harness: the lexical and direct baselines and the slices, which no
  gate reads; cost and latency limits, which the run does not set; the promotion
  lineage of the benchmarks. Thresholds over two cases are all or nothing.
* The event bus, whose loss of old events nothing depends on; the model routes
  (two administrators may lose an update); explorer and RLM tools, which only
  read; diagnostics, reports, command line and web pages, which keep no state.

## Plan

1. `UnitsAreHeld` for the kinds of file whose parsers are arithmetic (windows, row
   batches, table segments), by least counterexample as the lemmas of `Corpus_proofs`
   about folds are (`UpTo`, `FoldInduction`).
2. Then, if worth it: `PromotionLineage` (promote, roll back, replay) and the hash
   chain of the ledger.
