----------------------------- MODULE WorkerLoop -----------------------------
(***************************************************************************)
(* The worker processes (run_worker_loop, src/contextmesh/api.py) and the  *)
(* HTTP handlers that feed them, working on one SQLiteJobQueue.  A worker  *)
(* polls, leases a row, runs the job and records the outcome; it never     *)
(* renews the lease while it runs.  What the job does is left open here:   *)
(* it returns, sees the job's cancel flag, or raises.                      *)
(*                                                                         *)
(* Worker ids are fresh for every run of the loop, so a crashed id never   *)
(* comes back: a restarted worker is another member of Workers.            *)
(***************************************************************************)
EXTENDS JobQueue

CONSTANTS
  IngestJobs,  \* the logical jobs of kind "ingest"; the others are evaluations
  MaxRun,      \* the longest a worker is busy with one row, in ticks
  MaxCrashes   \* bound: how many workers die

ASSUME LoopAssumption ==
  /\ IngestJobs \subseteq LogicalJobs
  /\ MaxRun \in Nat
  /\ MaxCrashes \in Nat

VARIABLES
  workers,  \* of every worker: where it is in the loop, with which row, since when
  flags,    \* the evaluation jobs whose cancel flag file exists
  cancels   \* the evaluation jobs whose cancel handler is between its two steps

loopVars == <<jobs, failing, workers, flags, cancels>>

Busy == {"working", "cancelled", "failing"}

Worker ==
  [pc: {"idle", "down"} \cup Busy, item: QueueIds \cup {Null}, age: Nat]

IdleWorker == [pc |-> "idle", item |-> Null, age |-> 0]

EvaluationJobs == LogicalJobs \ IngestJobs

LoopInit ==
  /\ QueueInit
  /\ workers = [w \in Workers |-> IdleWorker]
  /\ flags = {}
  /\ cancels = {}

-----------------------------------------------------------------------------
\* The HTTP handlers.

\* The last statement of create_ingest_job, retry_ingest_job,
\* create_ingest_job_from_upload_sessions, create_evaluation_job and
\* resume_evaluation_job; all use the default priority.
SubmitJob(q, l) ==
  /\ \E p \in Priorities : Enqueue(q, l, p, IF l \in IngestJobs THEN 2 ELSE 1, 0)
  /\ UNCHANGED <<workers, flags, cancels>>

\* create_evaluation_job and resume_evaluation_job clear the flag before that.
ClearFlag(l) ==
  /\ flags' = flags \ {l}
  /\ UNCHANGED <<jobs, failing, workers, cancels>>

\* cancel_evaluation_job: the flag file is written ...
SetFlag(l) ==
  /\ flags' = flags \cup {l}
  /\ cancels' = cancels \cup {l}
  /\ UNCHANGED <<jobs, failing, workers>>

\* ... and then the queue is told, whatever became of the flag meanwhile.
CancelInQueue(l) ==
  /\ l \in cancels
  /\ RequestCancel(RowsOf(l))
  /\ cancels' = cancels \ {l}
  /\ UNCHANGED <<workers, flags>>

ServerStart_RequeuesRunning ==
  /\ jobs' = [q \in QueueIds |-> IF jobs[q].status = "running"
                                THEN Released(jobs[q], "queued", 0) ELSE jobs[q]]
  /\ UNCHANGED <<failing, workers, flags, cancels>>

\* The start of the HTTP server.
ServerStart ==
  /\ RecoverExpired
  /\ UNCHANGED <<workers, flags, cancels>>

-----------------------------------------------------------------------------
\* The loop.

TakeItem_Unrecorded(w, q) ==
  /\ workers[w].pc = "idle"
  /\ Lease(w, q)
  /\ workers' = [workers EXCEPT ![w].pc = "working"]
  /\ UNCHANGED <<flags, cancels>>

TakeItem(w, q) ==
  /\ workers[w].pc = "idle"
  /\ Lease(w, q)
  /\ workers' = [workers EXCEPT ![w] = [pc |-> "working", item |-> q, age |-> 0]]
  /\ UNCHANGED <<flags, cancels>>

Poll(w) ==
  /\ workers[w].pc = "idle"
  /\ LeaseNothing
  /\ UNCHANGED <<workers, flags, cancels>>

\* _process_queue_job returns: queue.complete(item.id, worker_id), its result unread.
FinishItem(w) ==
  /\ workers[w].pc = "working"
  /\ Complete(workers[w].item, w)
  /\ workers' = [workers EXCEPT ![w] = IdleWorker]
  /\ UNCHANGED <<flags, cancels>>

\* The evaluation finds its cancel flag and ends as "cancelled" ...
SeeCancel(w) ==
  /\ workers[w].pc = "working"
  /\ jobs[workers[w].item].logical_job_id \in flags \ IngestJobs
  /\ workers' = [workers EXCEPT ![w].pc = "cancelled"]
  /\ UNCHANGED <<jobs, failing, flags, cancels>>

\* ... which the loop records.
FinishCancelled(w) ==
  /\ workers[w].pc = "cancelled"
  /\ MarkCancelled(workers[w].item)
  /\ workers' = [workers EXCEPT ![w] = IdleWorker]
  /\ UNCHANGED <<flags, cancels>>

\* _process_queue_job raises: queue.fail(item.id), in its two statements.
RaiseItem(w) ==
  /\ workers[w].pc = "working"
  /\ FailRead(w, workers[w].item)
  /\ workers' = [workers EXCEPT ![w].pc = "failing"]
  /\ UNCHANGED <<flags, cancels>>

FinishFailed(w, d) ==
  /\ workers[w].pc = "failing"
  /\ FailWrite(w, d)
  /\ workers' = [workers EXCEPT ![w] = IdleWorker]
  /\ UNCHANGED <<flags, cancels>>

Down == {w \in Workers : workers[w].pc = "down"}

\* The process dies; item remembers what it was busy with.
Crash(w) ==
  /\ workers[w].pc # "down"
  /\ Cardinality(Down) < MaxCrashes
  /\ workers' = [workers EXCEPT ![w].pc = "down", ![w].age = 0]
  /\ failing' = [failing EXCEPT ![w] = Null]
  /\ UNCHANGED <<jobs, flags, cancels>>

\* A busy worker is done within MaxRun ticks.
LoopTick ==
  /\ \A w \in Workers : workers[w].pc \in Busy => workers[w].age < MaxRun
  /\ Tick
  /\ workers' = [w \in Workers |->
       IF workers[w].pc \in Busy THEN [workers[w] EXCEPT !.age = @ + 1] ELSE workers[w]]
  /\ UNCHANGED <<flags, cancels>>

WorkerStep(w) ==
  \/ \E q \in QueueIds : TakeItem(w, q)
  \/ Poll(w)
  \/ FinishItem(w)
  \/ SeeCancel(w)
  \/ FinishCancelled(w)
  \/ RaiseItem(w)
  \/ \E d \in Delays : FinishFailed(w, d)

LoopNext ==
  \/ \E q \in QueueIds, l \in LogicalJobs : SubmitJob(q, l)
  \/ \E l \in EvaluationJobs : ClearFlag(l) \/ SetFlag(l) \/ CancelInQueue(l)
  \/ ServerStart
  \/ \E w \in Workers : WorkerStep(w)
  \/ \E w \in Workers : Crash(w)
  \/ LoopTick

LoopSpec == LoopInit /\ [][LoopNext]_loopVars

\* A live worker keeps taking steps of its loop and time passes; nothing obliges
\* anybody to submit, to cancel or to crash.
FairLoopSpec ==
  /\ LoopSpec
  /\ \A w \in Workers : WF_loopVars(WorkerStep(w))
  /\ WF_loopVars(LoopTick)

-----------------------------------------------------------------------------
\* Properties.

LoopTypeOK ==
  /\ QueueTypeOK
  /\ workers \in [Workers -> Worker]
  /\ \A w \in Workers : workers[w].pc \in Busy => workers[w].item # Null
  /\ flags \subseteq EvaluationJobs
  /\ cancels \subseteq EvaluationJobs

\* While a worker is busy with a row, the row is leased to it, and what is left of
\* the lease is LeaseTicks less the time the worker has been busy: nothing that the
\* handlers, the other workers or a restarted server do takes the lease away.
LeaseCoversRun ==
  \A w \in Workers : workers[w].pc \in Busy =>
    LET row == jobs[workers[w].item] IN
    /\ row.status = "running"
    /\ row.leased_by = w
    /\ row.ttl = LeaseTicks - workers[w].age

\* Two workers are never busy with the same row.
ExclusiveExecution ==
  \A v, w \in Workers :
    (v # w /\ workers[v].pc \in Busy /\ workers[w].pc \in Busy)
      => workers[v].item # workers[w].item

\* The outcome of a run is recorded, never refused or overwritten by another
\* worker's: a worker that returns leaves its row complete, and a row that reached
\* a final status keeps it.
OutcomeRecorded ==
  [][/\ \A w \in Workers :
          (workers[w].pc = "working" /\ workers'[w].pc = "idle")
            => jobs'[workers[w].item].status = "complete"
     /\ \A q \in QueueIds :
          jobs[q].status \in Terminal => jobs'[q].status = jobs[q].status]_loopVars

Lost(q) == {w \in Down : workers[w].item = q}

\* A row is leased at most max_attempts times, and once more for every worker that
\* died on it: expiry recovery, unlike fail(), does not look at the limit.
AttemptsBounded ==
  \A q \in QueueIds :
    jobs[q].attempts <= jobs[q].max_attempts + Cardinality(Lost(q))

\* What the documentation says of the limit.
AttemptsWithinLimit == \A q \in QueueIds : jobs[q].attempts <= jobs[q].max_attempts

\* Every row nobody cancels reaches a final status, although workers crash
\* (some worker surviving).
EveryJobSettles ==
  \A q \in QueueIds :
    jobs[q].status = "queued" ~> jobs[q].status \in Terminal \/ jobs[q].cancel_requested

HeldByDown(q) == jobs[q].status = "running" /\ workers[jobs[q].leased_by].pc = "down"

\* The row a crashed worker held is taken by another worker, or settled.
CrashedJobIsRetaken ==
  \A q \in QueueIds :
    HeldByDown(q) ~>
      \/ jobs[q].status \in Terminal
      \/ jobs[q].status = "running" /\ ~HeldByDown(q)

\* The loop and the queue implement SerialExecution.
Serial ==
  INSTANCE SerialExecution WITH
    Entries <- QueueIds,
    Executors <- Workers,
    stage <- [q \in QueueIds |->
                CASE jobs[q].status = "absent" -> "absent"
                  [] jobs[q].status \in Terminal -> "closed"
                  [] OTHER -> "open"],
    executing <- [q \in QueueIds |->
                    {w \in Workers : workers[w].pc \in Busy /\ workers[w].item = q}]

SerialExecutionImplemented == Serial!SerialSpec
=============================================================================
