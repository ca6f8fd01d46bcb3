-------------------------- MODULE WorkerLoop_proofs --------------------------
(***************************************************************************)
(* Exclusive execution and recorded outcomes, for any number of workers    *)
(* and rows, under the one condition the code needs and nowhere states: no *)
(* worker is busy with a row for longer than the lease.  And the worker    *)
(* loop implements SerialExecution: every step of a handler, a worker, a   *)
(* server or the clock is a step of the abstract queue or leaves it alone. *)
(***************************************************************************)
EXTENDS WorkerLoop, JobQueue_proofs

IsBusy(w) == workers[w].pc \in Busy

\* What holds of a busy worker: the row is leased to it, its lease has not run out,
\* and the second half of fail() is about that row.
Held(w) ==
  IsBusy(w) =>
    /\ workers[w].item \in QueueIds
    /\ workers[w].age <= MaxRun
    /\ jobs[workers[w].item].status = "running"
    /\ jobs[workers[w].item].leased_by = w
    /\ jobs[workers[w].item].ttl = LeaseTicks - workers[w].age
    /\ workers[w].pc = "failing" => failing[w].id = workers[w].item

\* The inductive invariant.  ExclusiveExecution alone is not inductive: it says
\* nothing of the rows, so that it does not exclude a lease of a row in progress.
LoopInv ==
  /\ QueueInv
  /\ workers \in [Workers -> Worker]
  /\ flags \subseteq EvaluationJobs
  /\ cancels \subseteq EvaluationJobs
  /\ \A w \in Workers : Held(w)

LEMMA LoopInitInv == LoopInit => LoopInv
<1>1. SUFFICES ASSUME LoopInit PROVE LoopInv
  OBVIOUS
<1>2. QueueInv
  BY <1>1, QueueInitInv DEF LoopInit
<1>3. IdleWorker \in Worker /\ IdleWorker.pc \notin Busy
  BY DEF IdleWorker, Worker, Busy
<1>4. QED BY <1>1, <1>2, <1>3 DEF LoopInit, LoopInv, Held, IsBusy

-----------------------------------------------------------------------------
\* What the invariant says of two workers, and of the lease of a busy one.

LEMMA BusyWorker ==
  ASSUME LoopInv, NEW w \in Workers, IsBusy(w)
  PROVE /\ workers[w].item \in QueueIds
        /\ workers[w].age \in Nat
        /\ workers[w].age <= MaxRun
        /\ jobs[workers[w].item].status = "running"
        /\ jobs[workers[w].item].leased_by = w
        /\ jobs[workers[w].item].ttl = LeaseTicks - workers[w].age
        /\ workers[w].pc = "failing" => failing[w].id = workers[w].item
BY DEF LoopInv, Held, Worker

LEMMA DifferentItems ==
  ASSUME LoopInv, NEW v \in Workers, NEW w \in Workers, v # w, IsBusy(v), IsBusy(w)
  PROVE workers[v].item # workers[w].item
<1>1. jobs[workers[v].item].leased_by = v /\ jobs[workers[w].item].leased_by = w
  BY BusyWorker
<1>2. QED BY <1>1

\* The lease of a busy worker has not run out: this is where MaxRun <= LeaseTicks
\* is needed.
LEMMA BusyNotExpired ==
  ASSUME LoopInv, MaxRun <= LeaseTicks, NEW w \in Workers, IsBusy(w)
  PROVE ~LeaseExpired(jobs[workers[w].item])
<1>1. workers[w].age \in Nat /\ workers[w].age <= MaxRun
  BY BusyWorker
<1>2. LeaseTicks - workers[w].age >= 0
  BY <1>1, ParameterAssumption, LoopAssumption
<1>3. jobs[workers[w].item].ttl = LeaseTicks - workers[w].age
  BY BusyWorker
<1>4. QED BY <1>1, <1>2, <1>3, ParameterAssumption DEF LeaseExpired

\* A worker stays as it was if a step leaves its row's lease alone.
LEMMA HeldStays ==
  ASSUME LoopInv, NEW w \in Workers,
         workers'[w] = workers[w], failing'[w] = failing[w],
         IsBusy(w) => /\ jobs'[workers[w].item].status = "running"
                      /\ jobs'[workers[w].item].leased_by = jobs[workers[w].item].leased_by
                      /\ jobs'[workers[w].item].ttl = jobs[workers[w].item].ttl
  PROVE Held(w)'
BY BusyWorker DEF Held, IsBusy

\* So does every worker whose row is not the one written.
LEMMA HeldElsewhere ==
  ASSUME LoopInv, NEW w \in Workers, NEW q \in QueueIds, NEW row,
         workers'[w] = workers[w], failing'[w] = failing[w],
         jobs' = [jobs EXCEPT ![q] = row],
         IsBusy(w) => workers[w].item # q
  PROVE Held(w)'
<1>1. CASE IsBusy(w)
  <2>1. jobs'[workers[w].item] = jobs[workers[w].item]
    BY <1>1, BusyWorker DEF LoopInv, QueueInv
  <2>2. QED BY <1>1, <2>1, BusyWorker, HeldStays
<1>2. CASE ~IsBusy(w)
  BY <1>2, HeldStays
<1>3. QED BY <1>1, <1>2

-----------------------------------------------------------------------------
\* The handlers.

LEMMA SubmitJobInv ==
  ASSUME LoopInv, NEW q \in QueueIds, NEW l \in LogicalJobs, SubmitJob(q, l)
  PROVE LoopInv'
<1>1. PICK p \in Priorities : Enqueue(q, l, p, IF l \in IngestJobs THEN 2 ELSE 1, 0)
  BY DEF SubmitJob
<1>2. QueueInv'
  <2>1. p \in Nat /\ (IF l \in IngestJobs THEN 2 ELSE 1) \in Nat /\ 0 \in Nat
    BY ParameterAssumption
  <2>2. QED BY <1>1, <2>1, EnqueueInv DEF LoopInv
<1>3. ASSUME NEW w \in Workers PROVE Held(w)'
  <2>1. workers'[w] = workers[w] /\ failing'[w] = failing[w]
    BY <1>1 DEF SubmitJob, Enqueue
  <2>2. IsBusy(w) => workers[w].item # q
    BY <1>1, BusyWorker DEF Enqueue
  <2>3. PICK row : jobs' = [jobs EXCEPT ![q] = row]
    BY <1>1 DEF Enqueue
  <2>4. QED BY <2>1, <2>2, <2>3, HeldElsewhere
<1>4. QED BY <1>2, <1>3 DEF LoopInv, SubmitJob

\* A cancel request on any rows leaves the leases of busy workers alone.
LEMMA CancelInQueueInv ==
  ASSUME LoopInv, NEW l \in EvaluationJobs, CancelInQueue(l)
  PROVE LoopInv'
<1>1. RowsOf(l) \in SUBSET QueueIds
  BY DEF RowsOf
<1>2. QueueInv'
  BY <1>1, RequestCancelInv DEF CancelInQueue, LoopInv
<1>3. ASSUME NEW w \in Workers PROVE Held(w)'
  <2>1. workers'[w] = workers[w] /\ failing'[w] = failing[w]
    BY DEF CancelInQueue, RequestCancel
  <2>2. ASSUME IsBusy(w)
        PROVE /\ jobs'[workers[w].item].status = "running"
              /\ jobs'[workers[w].item].leased_by = jobs[workers[w].item].leased_by
              /\ jobs'[workers[w].item].ttl = jobs[workers[w].item].ttl
    <3> DEFINE q == workers[w].item
    <3>1. q \in QueueIds /\ jobs[q].status = "running"
      BY <2>2, BusyWorker
    <3>2. jobs[q] \in Row
      BY <3>1 DEF LoopInv, QueueInv
    <3>3. QED BY <3>1, <3>2 DEF CancelInQueue, RequestCancel, Row
  <2>3. QED BY <2>1, <2>2, HeldStays
<1>4. QED BY <1>2, <1>3 DEF LoopInv, CancelInQueue

\* Recovery, by whomever, leaves the rows of busy workers alone.
LEMMA RecoverLoopInv ==
  ASSUME LoopInv, MaxRun <= LeaseTicks, jobs' = Recovered,
         UNCHANGED <<failing, workers, flags, cancels>>
  PROVE LoopInv'
<1>1. QueueInv'
  BY RecoverExpiredInv DEF LoopInv
<1>2. ASSUME NEW w \in Workers PROVE Held(w)'
  <2>1. ASSUME IsBusy(w) PROVE jobs'[workers[w].item] = jobs[workers[w].item]
    BY <2>1, BusyWorker, BusyNotExpired, RecoveredKept DEF LoopInv
  <2>2. QED BY <2>1, BusyWorker, HeldStays
<1>3. QED BY <1>1, <1>2 DEF LoopInv

-----------------------------------------------------------------------------
\* The loop.

LEMMA TakeItemInv ==
  ASSUME LoopInv, MaxRun <= LeaseTicks, NEW w \in Workers, NEW q \in QueueIds,
         TakeItem(w, q)
  PROVE LoopInv'
<1> DEFINE busy == [pc |-> "working", item |-> q, age |-> 0]
<1>1. QueueInv'
  BY LeaseInv DEF TakeItem, LoopInv
<1>2. workers' = [workers EXCEPT ![w] = busy] /\ failing' = failing
  BY DEF TakeItem, Lease
<1>3. busy \in Worker
  BY DEF Worker, Busy
<1> HIDE DEF busy
<1>4. workers' \in [Workers -> Worker]
  BY <1>2, <1>3 DEF LoopInv
<1>5. ASSUME NEW v \in Workers PROVE Held(v)'
  <2>1. CASE v = w
    <3>1. workers'[v] = busy
      BY <1>2, <2>1 DEF LoopInv
    <3>2. Recovered[q] \in Row
      BY RecoveredGood DEF LoopInv
    <3>3. jobs'[q] = [Recovered[q] EXCEPT !.status = "running", !.leased_by = w,
                        !.ttl = LeaseTicks, !.attempts = @ + 1]
      BY LeaseClaims DEF TakeItem, LoopInv
    <3>4. jobs'[q].status = "running" /\ jobs'[q].leased_by = w /\ jobs'[q].ttl = LeaseTicks
      BY <3>2, <3>3 DEF Row
    <3>5. LeaseTicks = LeaseTicks - 0 /\ 0 <= MaxRun
      BY ParameterAssumption, LoopAssumption
    <3>6. workers'[v].pc = "working" /\ workers'[v].item = q /\ workers'[v].age = 0
      BY <3>1 DEF busy
    <3>7. QED BY <2>1, <3>4, <3>5, <3>6 DEF Held
  <2>2. CASE v # w
    <3>1. workers'[v] = workers[v] /\ failing'[v] = failing[v]
      BY <1>2, <2>2 DEF LoopInv
    <3>2. ASSUME IsBusy(v) PROVE jobs'[workers[v].item] = jobs[workers[v].item]
      <4>1. ~LeaseExpired(jobs[workers[v].item]) /\ jobs[workers[v].item].status = "running"
        BY <3>2, BusyNotExpired, BusyWorker
      <4>2. workers[v].item # q /\ workers[v].item \in QueueIds
        BY <3>2, <4>1, LeaseClaims, BusyWorker DEF TakeItem, LoopInv
      <4>3. QueueInv /\ Lease(w, q)
        BY DEF TakeItem, LoopInv
      <4>4. \A r \in QueueIds : r # q => jobs'[r] = Recovered[r]
        BY <4>3, LeaseClaims
      <4>5. jobs'[workers[v].item] = Recovered[workers[v].item]
        BY <4>2, <4>4
      <4>6. QED BY <4>1, <4>2, <4>3, <4>5, RecoveredKept
    <3>3. QED BY <3>1, <3>2, BusyWorker, HeldStays
  <2>3. QED BY <2>1, <2>2
<1>6. QED BY <1>1, <1>4, <1>5 DEF LoopInv, TakeItem

\* The end of a run: the worker writes its own row and is idle again.
LEMMA RunEndsInv ==
  ASSUME LoopInv, NEW w \in Workers, IsBusy(w), QueueInv',
         NEW row, jobs' = [jobs EXCEPT ![workers[w].item] = row],
         workers' = [workers EXCEPT ![w] = IdleWorker],
         \A v \in Workers \ {w} : failing'[v] = failing[v],
         UNCHANGED <<flags, cancels>>
  PROVE LoopInv'
<1>1. IdleWorker \in Worker /\ IdleWorker.pc \notin Busy
  BY DEF IdleWorker, Worker, Busy
<1>2. workers' \in [Workers -> Worker]
  BY <1>1 DEF LoopInv
<1>3. ASSUME NEW v \in Workers PROVE Held(v)'
  <2>1. CASE v = w
    BY <1>1, <2>1 DEF LoopInv, Held, IsBusy
  <2>2. CASE v # w
    <3>1. workers'[v] = workers[v] /\ failing'[v] = failing[v]
      BY <2>2 DEF LoopInv
    <3>2. IsBusy(v) => workers[v].item # workers[w].item
      BY <2>2, DifferentItems
    <3>3. QED BY <3>1, <3>2, BusyWorker, HeldElsewhere
  <2>3. QED BY <2>1, <2>2
<1>4. QED BY <1>2, <1>3 DEF LoopInv

LEMMA FinishItemInv ==
  ASSUME LoopInv, NEW w \in Workers, FinishItem(w)
  PROVE LoopInv' /\ jobs'[workers[w].item].status = "complete"
<1> DEFINE q == workers[w].item
<1>1. IsBusy(w)
  BY DEF FinishItem, IsBusy, Busy
<1>2. q \in QueueIds /\ OwnedBy(q, w)
  BY <1>1, BusyWorker DEF OwnedBy
<1>3. /\ jobs' = [jobs EXCEPT ![q] = Released(@, "complete", @.wait)]
      /\ failing' = failing
  BY <1>2 DEF FinishItem, Complete
<1>4. QueueInv'
  BY <1>2, CompleteInv DEF FinishItem, LoopInv
<1>5. LoopInv'
  <2>1. PICK row : jobs' = [jobs EXCEPT ![q] = row]
    BY <1>3
  <2>2. QED BY <1>1, <1>3, <1>4, <2>1, RunEndsInv DEF FinishItem
<1>6. jobs'[q].status = "complete"
  <2>1. jobs[q] \in Row
    BY <1>2 DEF LoopInv, QueueInv
  <2>2. QED BY <1>2, <1>3, <2>1 DEF LoopInv, QueueInv, Released, Row
<1>7. QED BY <1>5, <1>6

LEMMA FinishCancelledInv ==
  ASSUME LoopInv, NEW w \in Workers, FinishCancelled(w)
  PROVE LoopInv'
<1> DEFINE q == workers[w].item
<1>1. IsBusy(w)
  BY DEF FinishCancelled, IsBusy, Busy
<1>2. q \in QueueIds
  BY <1>1, BusyWorker
<1>3. QueueInv'
  BY <1>2, MarkCancelledInv DEF FinishCancelled, LoopInv
<1>4. PICK row : jobs' = [jobs EXCEPT ![q] = row]
  BY DEF FinishCancelled, MarkCancelled
<1>5. QED BY <1>1, <1>3, <1>4, RunEndsInv DEF FinishCancelled, MarkCancelled

LEMMA FinishFailedInv ==
  ASSUME LoopInv, NEW w \in Workers, NEW d \in Delays, FinishFailed(w, d)
  PROVE LoopInv'
<1> DEFINE q == workers[w].item
<1>1. IsBusy(w)
  BY DEF FinishFailed, IsBusy, Busy
<1>2. q \in QueueIds /\ failing[w].id = q
  BY <1>1, BusyWorker DEF FinishFailed
<1>3. QueueInv'
  <2>1. d \in Nat
    BY ParameterAssumption
  <2>2. QED BY <2>1, FailWriteInv DEF FinishFailed, LoopInv
<1>4. PICK row : jobs' = [jobs EXCEPT ![q] = row]
  BY <1>2 DEF FinishFailed, FailWrite
<1>5. \A v \in Workers \ {w} : failing'[v] = failing[v]
  BY DEF FinishFailed, FailWrite, LoopInv, QueueInv
<1>6. QED BY <1>1, <1>3, <1>4, <1>5, RunEndsInv DEF FinishFailed

LEMMA SeeCancelInv ==
  ASSUME LoopInv, NEW w \in Workers, SeeCancel(w)
  PROVE LoopInv'
<1>1. QueueInv'
  BY DEF SeeCancel, LoopInv, QueueInv, GoodRow
<1>2. /\ workers' \in [Workers -> Worker]
      /\ workers'[w].pc = "cancelled"
      /\ workers'[w].item = workers[w].item /\ workers'[w].age = workers[w].age
  BY DEF SeeCancel, LoopInv, Worker, Busy
<1>3. ASSUME NEW v \in Workers PROVE Held(v)'
  <2>1. CASE v = w
    <3>1. IsBusy(w)
      BY DEF SeeCancel, IsBusy, Busy
    <3>2. QED BY <1>2, <2>1, <3>1, BusyWorker DEF SeeCancel, Held
  <2>2. CASE v # w
    <3>1. workers'[v] = workers[v] /\ failing'[v] = failing[v] /\ jobs' = jobs
      BY <2>2 DEF SeeCancel, LoopInv
    <3>2. QED BY <3>1, BusyWorker, HeldStays
  <2>3. QED BY <2>1, <2>2
<1>4. QED BY <1>1, <1>2, <1>3 DEF LoopInv, SeeCancel

LEMMA RaiseItemInv ==
  ASSUME LoopInv, NEW w \in Workers, RaiseItem(w)
  PROVE LoopInv'
<1>0. IsBusy(w)
  BY DEF RaiseItem, IsBusy, Busy
<1>1. QueueInv'
  BY <1>0, BusyWorker, FailReadInv DEF RaiseItem, LoopInv
<1>2. /\ workers' \in [Workers -> Worker]
      /\ workers'[w].item = workers[w].item /\ workers'[w].age = workers[w].age
  BY DEF RaiseItem, LoopInv, Worker, Busy
<1>3. failing'[w].id = workers[w].item /\ jobs' = jobs
  BY DEF RaiseItem, FailRead, LoopInv, QueueInv
<1>4. ASSUME NEW v \in Workers PROVE Held(v)'
  <2>1. CASE v = w
    BY <1>0, <1>2, <1>3, <2>1, BusyWorker DEF Held
  <2>2. CASE v # w
    <3>1. workers'[v] = workers[v] /\ failing'[v] = failing[v]
      BY <2>2 DEF RaiseItem, FailRead, LoopInv, QueueInv
    <3>2. QED BY <1>3, <3>1, BusyWorker, HeldStays
  <2>3. QED BY <2>1, <2>2
<1>5. QED BY <1>1, <1>2, <1>4 DEF LoopInv, RaiseItem

LEMMA CrashInv ==
  ASSUME LoopInv, NEW w \in Workers, Crash(w)
  PROVE LoopInv'
<1>1. failing' \in [Workers -> {Null} \cup [id: QueueIds, terminal: BOOLEAN]]
  BY DEF Crash, LoopInv, QueueInv
<1>2. QueueInv'
  BY <1>1 DEF Crash, LoopInv, QueueInv, GoodRow
<1>3. workers' \in [Workers -> Worker] /\ workers'[w].pc = "down"
  BY DEF Crash, LoopInv, Worker
<1>4. ASSUME NEW v \in Workers PROVE Held(v)'
  <2>1. CASE v = w
    BY <1>3, <2>1 DEF Held, IsBusy, Busy
  <2>2. CASE v # w
    <3>1. workers'[v] = workers[v] /\ failing'[v] = failing[v] /\ jobs' = jobs
      BY <2>2 DEF Crash, LoopInv, QueueInv
    <3>2. QED BY <3>1, BusyWorker, HeldStays
  <2>3. QED BY <2>1, <2>2
<1>5. QED BY <1>2, <1>3, <1>4 DEF LoopInv, Crash

\* Time passes for the lease and for the worker alike.
LEMMA LoopTickInv ==
  ASSUME LoopInv, MaxRun <= LeaseTicks, LoopTick
  PROVE LoopInv'
<1>1. QueueInv'
  BY TickInv DEF LoopTick, LoopInv
<1>2. ASSUME NEW w \in Workers
      PROVE /\ workers'[w] \in Worker
            /\ workers'[w].pc = workers[w].pc /\ workers'[w].item = workers[w].item
            /\ IsBusy(w) => workers'[w].age = workers[w].age + 1
  <2>1. workers[w] \in Worker
    BY DEF LoopInv
  <2>2. QED BY <2>1 DEF LoopTick, IsBusy, Worker
<1>3. workers' \in [Workers -> Worker]
  BY <1>2 DEF LoopTick
<1>4. ASSUME NEW w \in Workers PROVE Held(w)'
  <2>1. CASE IsBusy(w)
    <3> DEFINE q == workers[w].item
    <3>1. /\ q \in QueueIds /\ jobs[q].status = "running" /\ jobs[q].leased_by = w
          /\ jobs[q].ttl = LeaseTicks - workers[w].age
          /\ workers[w].pc = "failing" => failing[w].id = q
      BY <2>1, BusyWorker
    <3>2. workers[w].age \in Nat /\ workers[w].age < MaxRun
      BY <2>1, BusyWorker DEF LoopTick, IsBusy
    <3>3. jobs'[q] = Aged(jobs[q]) /\ failing' = failing
      BY <3>1 DEF LoopTick, Tick
    <3>4. jobs[q].ttl \in Nat /\ jobs[q].ttl > 0
      BY <3>1, <3>2, ParameterAssumption, LoopAssumption
    <3>5. jobs[q].ttl # Null
      BY <3>4, NullAssumption
    <3>6. jobs[q] \in Row
      BY <3>1 DEF LoopInv, QueueInv
    <3>7. jobs'[q].ttl = jobs[q].ttl - 1
      BY <3>3, <3>4, <3>5, <3>6 DEF Aged, Row
    <3>8. jobs'[q].status = "running" /\ jobs'[q].leased_by = w
      BY <3>1, <3>3, <3>6 DEF Aged, Row
    <3>9. workers'[w].age <= MaxRun /\ jobs'[q].ttl = LeaseTicks - workers'[w].age
      BY <1>2, <2>1, <3>1, <3>2, <3>7, ParameterAssumption, LoopAssumption
    <3>10. QED BY <1>2, <2>1, <3>1, <3>3, <3>8, <3>9 DEF Held
  <2>2. CASE ~IsBusy(w)
    BY <1>2, <2>2 DEF Held, IsBusy
  <2>3. QED BY <2>1, <2>2
<1>5. QED BY <1>1, <1>3, <1>4 DEF LoopInv, LoopTick

-----------------------------------------------------------------------------
\* The theorems.

LEMMA LoopNextInv ==
  ASSUME MaxRun <= LeaseTicks
  PROVE LoopInv /\ [LoopNext]_loopVars => LoopInv'
<1>1. SUFFICES ASSUME LoopInv, [LoopNext]_loopVars PROVE LoopInv'
  OBVIOUS
<1>2. ASSUME NEW q \in QueueIds, NEW l \in LogicalJobs, SubmitJob(q, l) PROVE LoopInv'
  BY <1>1, <1>2, SubmitJobInv
<1>3. ASSUME NEW l \in EvaluationJobs, ClearFlag(l) \/ SetFlag(l) PROVE LoopInv'
  <2>1. QueueInv' /\ flags' \subseteq EvaluationJobs /\ cancels' \subseteq EvaluationJobs
    BY <1>1, <1>3 DEF ClearFlag, SetFlag, LoopInv, QueueInv, GoodRow
  <2>2. UNCHANGED <<jobs, failing, workers>>
    BY <1>3 DEF ClearFlag, SetFlag
  <2>3. QED BY <1>1, <2>1, <2>2 DEF LoopInv, Held, IsBusy
<1>4. ASSUME NEW l \in EvaluationJobs, CancelInQueue(l) PROVE LoopInv'
  BY <1>1, <1>4, CancelInQueueInv
<1>5. CASE ServerStart
  BY <1>1, <1>5, RecoverLoopInv DEF ServerStart, RecoverExpired
<1>6. ASSUME NEW w \in Workers, WorkerStep(w) PROVE LoopInv'
  <2>1. ASSUME NEW q \in QueueIds, TakeItem(w, q) PROVE LoopInv'
    BY <1>1, <2>1, TakeItemInv
  <2>2. CASE Poll(w)
    BY <1>1, <2>2, RecoverLoopInv DEF Poll, LeaseNothing
  <2>3. CASE FinishItem(w)
    BY <1>1, <2>3, FinishItemInv
  <2>4. CASE SeeCancel(w)
    BY <1>1, <2>4, SeeCancelInv
  <2>5. CASE FinishCancelled(w)
    BY <1>1, <2>5, FinishCancelledInv
  <2>6. CASE RaiseItem(w)
    BY <1>1, <2>6, RaiseItemInv
  <2>7. ASSUME NEW d \in Delays, FinishFailed(w, d) PROVE LoopInv'
    BY <1>1, <2>7, FinishFailedInv
  <2>8. QED
    BY <1>6, <2>1, <2>2, <2>3, <2>4, <2>5, <2>6, <2>7 DEF WorkerStep
<1>7. ASSUME NEW w \in Workers, Crash(w) PROVE LoopInv'
  BY <1>1, <1>7, CrashInv
<1>8. CASE LoopTick
  BY <1>1, <1>8, LoopTickInv
<1>9. CASE UNCHANGED loopVars
  <2>1. QueueInv'
    BY <1>1, <1>9 DEF loopVars, LoopInv, QueueInv, GoodRow
  <2>2. QED BY <1>1, <1>9, <2>1 DEF loopVars, LoopInv, Held, IsBusy
<1>10. QED
  BY <1>1, <1>2, <1>3, <1>4, <1>5, <1>6, <1>7, <1>8, <1>9 DEF LoopNext

\* The invariant holds when no run outlasts its lease.
THEOREM LoopInvariant ==
  ASSUME MaxRun <= LeaseTicks
  PROVE LoopSpec => []LoopInv
<1>1. LoopInit => LoopInv
  BY LoopInitInv
<1>2. LoopInv /\ [LoopNext]_loopVars => LoopInv'
  BY LoopNextInv
<1>3. QED BY <1>1, <1>2, PTL DEF LoopSpec

\* Rows, workers and flags keep their types.
THEOREM LoopTypeCorrect ==
  ASSUME MaxRun <= LeaseTicks
  PROVE LoopSpec => []LoopTypeOK
<1>1. LoopInv => LoopTypeOK
  <2>1. SUFFICES ASSUME LoopInv PROVE LoopTypeOK
    OBVIOUS
  <2>2. QueueTypeOK
    BY <2>1 DEF LoopInv, QueueInv, QueueTypeOK, GoodRow
  <2>3. ASSUME NEW w \in Workers, workers[w].pc \in Busy PROVE workers[w].item # Null
    BY <2>1, <2>3, BusyWorker, NullAssumption DEF IsBusy
  <2>4. QED BY <2>1, <2>2, <2>3 DEF LoopInv, LoopTypeOK
<1>2. QED BY <1>1, LoopInvariant, PTL

\* The lease of a busy worker is its own and is as long as it should be, whatever
\* the handlers, the other workers and restarted servers do.
THEOREM LeaseCoversEveryRun ==
  ASSUME MaxRun <= LeaseTicks
  PROVE LoopSpec => []LeaseCoversRun
<1>1. LoopInv => LeaseCoversRun
  BY BusyWorker DEF LeaseCoversRun, IsBusy
<1>2. QED BY <1>1, LoopInvariant, PTL

\* No two workers execute the same row at the same time.
THEOREM ExecutionIsExclusive ==
  ASSUME MaxRun <= LeaseTicks
  PROVE LoopSpec => []ExclusiveExecution
<1>1. LoopInv => ExclusiveExecution
  BY DifferentItems DEF ExclusiveExecution, IsBusy
<1>2. QED BY <1>1, LoopInvariant, PTL

-----------------------------------------------------------------------------
\* Outcomes.

\* A statement that writes one row leaves the finished rows alone, if it finds the
\* row it writes unfinished.
LEMMA FinishedElsewhere ==
  ASSUME LoopInv, NEW q \in QueueIds, NEW row, jobs' = [jobs EXCEPT ![q] = row],
         jobs[q].status \notin Terminal, NEW r \in QueueIds, jobs[r].status \in Terminal
  PROVE jobs'[r].status = jobs[r].status
<1>1. jobs'[r] = jobs[r]
  BY DEF LoopInv, QueueInv
<1>2. QED BY <1>1

\* Recovery touches running rows only.
LEMMA FinishedNotRecovered ==
  ASSUME LoopInv, NEW r \in QueueIds, jobs[r].status \in Terminal
  PROVE Recovered[r] = jobs[r]
<1>1. ~LeaseExpired(jobs[r])
  BY DEF LeaseExpired, Terminal
<1>2. QED BY <1>1, RecoveredKept DEF LoopInv

LEMMA FinishedStays ==
  ASSUME LoopInv, [LoopNext]_loopVars, NEW r \in QueueIds, jobs[r].status \in Terminal
  PROVE jobs'[r].status = jobs[r].status
<1>1. ASSUME NEW q \in QueueIds, NEW l \in LogicalJobs, SubmitJob(q, l)
      PROVE jobs'[r].status = jobs[r].status
  <2>1. PICK row : jobs' = [jobs EXCEPT ![q] = row]
    BY <1>1 DEF SubmitJob, Enqueue
  <2>2. jobs[q].status \notin Terminal
    BY <1>1 DEF SubmitJob, Enqueue, Terminal
  <2>3. QED BY <2>1, <2>2, FinishedElsewhere
<1>2. ASSUME NEW l \in EvaluationJobs, CancelInQueue(l)
      PROVE jobs'[r].status = jobs[r].status
  BY <1>2 DEF CancelInQueue, RequestCancel, Terminal
<1>3. CASE ServerStart \/ \E w \in Workers : Poll(w)
  BY <1>3, FinishedNotRecovered DEF ServerStart, RecoverExpired, Poll, LeaseNothing
<1>4. ASSUME NEW w \in Workers, NEW q \in QueueIds, TakeItem(w, q)
      PROVE jobs'[r].status = jobs[r].status
  <2>1. QueueInv /\ Lease(w, q)
    BY <1>4 DEF TakeItem, LoopInv
  <2>2. jobs[q].status = "queued" \/ LeaseExpired(jobs[q])
    BY <2>1, LeaseClaims
  <2>3. r # q
    BY <2>2 DEF LeaseExpired, Terminal
  <2>4. jobs'[r] = Recovered[r]
    BY <2>1, <2>3, LeaseClaims
  <2>5. QED BY <2>4, FinishedNotRecovered
<1>5. ASSUME NEW w \in Workers,
             FinishItem(w) \/ FinishCancelled(w) \/ \E d \in Delays : FinishFailed(w, d)
      PROVE jobs'[r].status = jobs[r].status
  <2>1. IsBusy(w)
    BY <1>5 DEF FinishItem, FinishCancelled, FinishFailed, IsBusy, Busy
  <2>2. workers[w].item \in QueueIds /\ jobs[workers[w].item].status \notin Terminal
    BY <2>1, BusyWorker DEF Terminal
  <2>3. CASE FinishItem(w)
    <3>1. PICK row : jobs' = [jobs EXCEPT ![workers[w].item] = row] \/ jobs' = jobs
      BY <2>3 DEF FinishItem, Complete
    <3>2. QED BY <2>2, <3>1, FinishedElsewhere
  <2>4. CASE FinishCancelled(w)
    <3>1. PICK row : jobs' = [jobs EXCEPT ![workers[w].item] = row]
      BY <2>4 DEF FinishCancelled, MarkCancelled
    <3>2. QED BY <2>2, <3>1, FinishedElsewhere
  <2>5. CASE \E d \in Delays : FinishFailed(w, d)
    <3>1. failing[w].id = workers[w].item
      BY <2>1, <2>5, BusyWorker DEF FinishFailed
    <3>2. PICK row : jobs' = [jobs EXCEPT ![workers[w].item] = row]
      BY <2>5, <3>1 DEF FinishFailed, FailWrite
    <3>3. QED BY <2>2, <3>2, FinishedElsewhere
  <2>6. QED BY <1>5, <2>3, <2>4, <2>5
<1>6. CASE LoopTick
  <2>1. jobs[r] \in Row
    BY DEF LoopInv, QueueInv
  <2>2. QED BY <1>6, <2>1 DEF LoopTick, Tick, Aged, Row
<1>7. CASE \/ \E l \in EvaluationJobs : ClearFlag(l) \/ SetFlag(l)
           \/ \E w \in Workers : SeeCancel(w) \/ RaiseItem(w) \/ Crash(w)
           \/ UNCHANGED loopVars
  BY <1>7 DEF ClearFlag, SetFlag, SeeCancel, RaiseItem, FailRead, Crash, loopVars
<1>8. QED
  BY <1>1, <1>2, <1>3, <1>4, <1>5, <1>6, <1>7 DEF LoopNext, WorkerStep

\* A worker goes from working to idle only by recording that its row is complete.
LEMMA ReturnRecorded ==
  ASSUME LoopInv, [LoopNext]_loopVars, NEW w \in Workers,
         workers[w].pc = "working", workers'[w].pc = "idle"
  PROVE jobs'[workers[w].item].status = "complete"
<1>1. CASE FinishItem(w)
  BY <1>1, FinishItemInv
<1>2. workers[w] \in Worker /\ workers \in [Workers -> Worker]
  BY DEF LoopInv
<1>3. ASSUME NEW v \in Workers, WorkerStep(v), ~FinishItem(w) PROVE FALSE
  <2>1. CASE v = w
    <3>1. CASE SeeCancel(w) \/ RaiseItem(w)
      <4>1. \/ workers' = [workers EXCEPT ![w].pc = "cancelled"]
            \/ workers' = [workers EXCEPT ![w].pc = "failing"]
        BY <3>1 DEF SeeCancel, RaiseItem
      <4>2. workers'[w].pc \in {"cancelled", "failing"}
        BY <1>2, <4>1 DEF Worker
      <4>3. QED BY <4>2
    <3>2. CASE Poll(w) \/ \E q \in QueueIds : TakeItem(w, q)
      BY <1>2, <3>2 DEF Poll, TakeItem
    <3>3. CASE FinishCancelled(w) \/ \E d \in Delays : FinishFailed(w, d)
      BY <3>3 DEF FinishCancelled, FinishFailed
    <3>4. QED BY <1>3, <2>1, <3>1, <3>2, <3>3 DEF WorkerStep
  <2>2. CASE v # w
    <3>1. workers'[w] = workers[w]
      BY <1>2, <1>3, <2>2
      DEF WorkerStep, TakeItem, Poll, FinishItem, SeeCancel, FinishCancelled, RaiseItem,
          FinishFailed
    <3>2. QED BY <3>1
  <2>3. QED BY <2>1, <2>2
<1>4. ASSUME NEW v \in Workers, Crash(v) PROVE FALSE
  BY <1>2, <1>4 DEF Crash
<1>5. CASE LoopTick
  BY <1>2, <1>5 DEF LoopTick
<1>6. CASE \/ \E q \in QueueIds, l \in LogicalJobs : SubmitJob(q, l)
           \/ \E l \in EvaluationJobs : ClearFlag(l) \/ SetFlag(l) \/ CancelInQueue(l)
           \/ ServerStart \/ UNCHANGED loopVars
  BY <1>6 DEF SubmitJob, ClearFlag, SetFlag, CancelInQueue, ServerStart, loopVars
<1>7. QED
  BY <1>1, <1>3, <1>4, <1>5, <1>6 DEF LoopNext

\* The outcome a worker reports is recorded, and no finished row changes its status
\* again.
THEOREM OutcomesAreRecorded ==
  ASSUME MaxRun <= LeaseTicks
  PROVE LoopSpec => OutcomeRecorded
<1>1. LoopInv /\ [LoopNext]_loopVars =>
        [/\ \A w \in Workers :
              (workers[w].pc = "working" /\ workers'[w].pc = "idle")
                => jobs'[workers[w].item].status = "complete"
         /\ \A q \in QueueIds :
              jobs[q].status \in Terminal => jobs'[q].status = jobs[q].status]_loopVars
  BY FinishedStays, ReturnRecorded
<1>2. QED BY <1>1, LoopInvariant, PTL DEF LoopSpec, OutcomeRecorded

-----------------------------------------------------------------------------
\* The number of attempts.  The bound alone is not inductive: a row that may be
\* leased (again) must be below it, and a running row must be held by somebody who
\* is busy with it or who died on it.

Limit(q) == jobs[q].max_attempts + Cardinality(Lost(q))

Charged(q) ==
  /\ jobs[q].attempts <= Limit(q)
  /\ jobs[q].status = "queued" => jobs[q].attempts < Limit(q)
  /\ jobs[q].status = "running" =>
       /\ workers[jobs[q].leased_by].item = q
       /\ workers[jobs[q].leased_by].pc \in Busy \cup {"down"}
       /\ workers[jobs[q].leased_by].pc = "down" => jobs[q].attempts < Limit(q)

\* What fail() decided on is still what it would read.
FailsRight(w) ==
  workers[w].pc = "failing" =>
    failing[w].terminal <=>
      jobs[workers[w].item].attempts >= jobs[workers[w].item].max_attempts

AttemptsInv ==
  /\ IsFiniteSet(Down)
  /\ \A q \in QueueIds : Charged(q)
  /\ \A w \in Workers : FailsRight(w)

LEMMA LostIsFinite ==
  ASSUME IsFiniteSet(Down), NEW q
  PROVE IsFiniteSet(Lost(q)) /\ Cardinality(Lost(q)) \in Nat
<1>1. Lost(q) \subseteq Down
  BY DEF Lost
<1>2. IsFiniteSet(Lost(q))
  BY <1>1, FS_Subset
<1>3. QED BY <1>2, FS_CardinalityType

LEMMA RowNumbers ==
  ASSUME LoopInv, AttemptsInv, NEW q \in QueueIds
  PROVE /\ jobs[q] \in Row
        /\ jobs[q].attempts \in Nat /\ jobs[q].max_attempts \in Nat
        /\ jobs[q].max_attempts >= 1
        /\ Limit(q) \in Nat /\ Limit(q) >= jobs[q].max_attempts
        /\ jobs[q].status = "running" => jobs[q].leased_by \in Workers
<1>1. /\ jobs[q] \in Row /\ jobs[q].max_attempts >= 1
      /\ jobs[q].status = "running" => jobs[q].leased_by # Null
  BY DEF LoopInv, QueueInv, GoodRow
<1>2. jobs[q].attempts \in Nat /\ jobs[q].max_attempts \in Nat
  BY <1>1 DEF Row
<1>3. Cardinality(Lost(q)) \in Nat
  BY LostIsFinite DEF AttemptsInv
<1>4. QED BY <1>1, <1>2, <1>3 DEF Limit, Row

\* Only a crash changes who is down, and with what.
LEMMA LostElsewhere ==
  ASSUME \A w \in Workers : /\ workers'[w].pc = "down" <=> workers[w].pc = "down"
                            /\ workers[w].pc = "down" => workers'[w].item = workers[w].item
  PROVE Down' = Down /\ \A q : Lost(q)' = Lost(q)
<1>1. Down' = Down
  BY DEF Down
<1>2. \A w \in Down : workers'[w].item = workers[w].item
  BY DEF Down
<1>3. QED BY <1>1, <1>2 DEF Lost

\* A row stays charged if it is not leased anew, and returns to the queue only below
\* the limit.
LEMMA ChargedStays ==
  ASSUME NEW q \in QueueIds, Charged(q), Lost(q)' = Lost(q),
         jobs'[q].attempts = jobs[q].attempts,
         jobs'[q].max_attempts = jobs[q].max_attempts,
         jobs'[q].status = "queued" =>
           jobs[q].status = "queued" \/ jobs[q].attempts < Limit(q),
         jobs'[q].status = "running" =>
           /\ jobs[q].status = "running" /\ jobs'[q].leased_by = jobs[q].leased_by
           /\ LET w == jobs[q].leased_by IN
              /\ workers'[w].item = workers[w].item
              /\ workers'[w].pc \in Busy \cup {"down"}
              /\ workers'[w].pc = "down" => workers[w].pc = "down"
  PROVE Charged(q)'
<1>1. Limit(q)' = Limit(q)
  BY DEF Limit
<1>2. QED BY <1>1 DEF Charged

\* The holder of a row whose lease has expired is down, and the row is below its limit.
LEMMA ExpiredBelowLimit ==
  ASSUME LoopInv, MaxRun <= LeaseTicks, AttemptsInv, NEW q \in QueueIds,
         LeaseExpired(jobs[q])
  PROVE jobs[q].attempts < Limit(q)
<1> DEFINE w == jobs[q].leased_by
<1>1. jobs[q].status = "running" /\ w \in Workers /\ Charged(q)
  BY RowNumbers DEF LeaseExpired, AttemptsInv
<1>2. ~IsBusy(w)
  BY <1>1, BusyNotExpired DEF Charged
<1>3. workers[w].pc = "down"
  BY <1>1, <1>2 DEF Charged, IsBusy
<1>4. QED BY <1>1, <1>3 DEF Charged

\* Recovery, whoever asks for it, puts back only rows below their limit.
LEMMA RecoveredCharged ==
  ASSUME LoopInv, MaxRun <= LeaseTicks, AttemptsInv, NEW q \in QueueIds,
         jobs'[q] = Recovered[q], Lost(q)' = Lost(q),
         jobs[q].status = "running" => workers'[jobs[q].leased_by] = workers[jobs[q].leased_by]
  PROVE Charged(q)'
<1>1. Charged(q) /\ jobs[q] \in Row
  BY RowNumbers DEF AttemptsInv
<1>2. CASE LeaseExpired(jobs[q])
  <2>1. /\ jobs'[q].attempts = jobs[q].attempts /\ jobs'[q].status = "queued"
        /\ jobs'[q].max_attempts = jobs[q].max_attempts
    BY <1>1, <1>2 DEF Recovered, Released, Row
  <2>2. QED BY <1>1, <1>2, <2>1, ExpiredBelowLimit, ChargedStays
<1>3. CASE ~LeaseExpired(jobs[q])
  <2>1. jobs'[q] = jobs[q]
    BY <1>3 DEF Recovered
  <2>2. QED BY <1>1, <2>1, ChargedStays DEF Charged
<1>4. QED BY <1>2, <1>3

\* What fail() read stays true of a row that is not leased anew.
LEMMA FailsRightStays ==
  ASSUME LoopInv, AttemptsInv, NEW w \in Workers,
         workers'[w].pc = "failing" =>
           /\ workers[w].pc = "failing" /\ workers'[w].item = workers[w].item
           /\ failing'[w] = failing[w]
           /\ jobs'[workers[w].item].attempts = jobs[workers[w].item].attempts
           /\ jobs'[workers[w].item].max_attempts = jobs[workers[w].item].max_attempts
  PROVE FailsRight(w)'
BY DEF AttemptsInv, FailsRight

LEMMA AttemptsInit == LoopInit => AttemptsInv
<1> SUFFICES ASSUME LoopInit PROVE AttemptsInv
  OBVIOUS
<1>1. Down = {}
  BY DEF LoopInit, Down, IdleWorker
<1>2. IsFiniteSet(Down) /\ \A q : Cardinality(Lost(q)) = 0
  BY <1>1, FS_EmptySet DEF Lost
<1>3. \A q \in QueueIds : jobs[q] = AbsentRow
  BY DEF LoopInit, QueueInit
<1>4. \A q \in QueueIds : Charged(q)
  BY <1>2, <1>3 DEF Charged, Limit, AbsentRow
<1>5. \A w \in Workers : FailsRight(w)
  BY DEF LoopInit, FailsRight, IdleWorker
<1>6. QED BY <1>2, <1>4, <1>5 DEF AttemptsInv

\* A step that changes neither the workers nor, but for one row, the table.
LEMMA SubmitJobAttempts ==
  ASSUME LoopInv, AttemptsInv, NEW q \in QueueIds, NEW l \in LogicalJobs, SubmitJob(q, l)
  PROVE AttemptsInv'
<1>1. PICK p \in Priorities : Enqueue(q, l, p, IF l \in IngestJobs THEN 2 ELSE 1, 0)
  BY DEF SubmitJob
<1>2. workers' = workers /\ failing' = failing /\ jobs[q].status = "absent"
  BY <1>1 DEF SubmitJob, Enqueue
<1>3. Down' = Down /\ \A r : Lost(r)' = Lost(r)
  BY <1>2, LostElsewhere
<1>4. \A r \in QueueIds : r # q => jobs'[r] = jobs[r]
  BY <1>1 DEF Enqueue, LoopInv, QueueInv
<1>5. ASSUME NEW r \in QueueIds PROVE Charged(r)'
  <2>1. CASE r = q
    <3>1. /\ jobs'[q].attempts = 0 /\ jobs'[q].status = "queued"
          /\ jobs'[q].max_attempts \in Nat /\ jobs'[q].max_attempts >= 1
      BY <1>1 DEF Enqueue, AbsentRow, AtLeastOne, LoopInv, QueueInv
    <3>2. Cardinality(Lost(q)) \in Nat
      BY LostIsFinite DEF AttemptsInv
    <3>3. QED BY <1>3, <2>1, <3>1, <3>2 DEF Charged, Limit
  <2>2. CASE r # q
    BY <1>2, <1>3, <1>4, <2>2, ChargedStays DEF AttemptsInv, Charged
  <2>3. QED BY <2>1, <2>2
<1>6. ASSUME NEW w \in Workers PROVE FailsRight(w)'
  <2>1. workers[w].pc = "failing" => workers[w].item \in QueueIds /\ workers[w].item # q
    BY <1>2, BusyWorker DEF IsBusy, Busy
  <2>2. QED BY <1>2, <1>4, <2>1, FailsRightStays
<1>7. QED BY <1>3, <1>5, <1>6 DEF AttemptsInv

LEMMA CancelInQueueAttempts ==
  ASSUME LoopInv, AttemptsInv, NEW l \in EvaluationJobs, CancelInQueue(l)
  PROVE AttemptsInv'
<1>1. workers' = workers /\ failing' = failing
  BY DEF CancelInQueue, RequestCancel
<1>2. Down' = Down /\ \A r : Lost(r)' = Lost(r)
  BY <1>1, LostElsewhere
<1>3. ASSUME NEW r \in QueueIds
      PROVE /\ jobs'[r].attempts = jobs[r].attempts
            /\ jobs'[r].max_attempts = jobs[r].max_attempts
            /\ jobs'[r].leased_by = jobs[r].leased_by
            /\ jobs'[r].status = jobs[r].status \/ jobs'[r].status = "cancelled"
  <2>1. jobs[r] \in Row
    BY RowNumbers
  <2>2. QED BY <2>1 DEF CancelInQueue, RequestCancel, Row
<1>4. ASSUME NEW r \in QueueIds PROVE Charged(r)'
  BY <1>1, <1>2, <1>3, ChargedStays DEF AttemptsInv, Charged
<1>5. ASSUME NEW w \in Workers PROVE FailsRight(w)'
  <2>1. workers[w].pc = "failing" => workers[w].item \in QueueIds
    BY BusyWorker DEF IsBusy, Busy
  <2>2. QED BY <1>1, <1>3, <2>1, FailsRightStays
<1>6. QED BY <1>2, <1>4, <1>5 DEF AttemptsInv

LEMMA RecoverAttempts ==
  ASSUME LoopInv, MaxRun <= LeaseTicks, AttemptsInv, jobs' = Recovered,
         UNCHANGED <<failing, workers>>
  PROVE AttemptsInv'
<1>1. Down' = Down /\ \A r : Lost(r)' = Lost(r)
  BY LostElsewhere
<1>2. ASSUME NEW r \in QueueIds PROVE Charged(r)'
  BY <1>1, RecoveredCharged
<1>3. ASSUME NEW w \in Workers PROVE FailsRight(w)'
  <2>1. workers[w].pc = "failing" =>
          workers[w].item \in QueueIds /\ jobs'[workers[w].item] = jobs[workers[w].item]
    BY BusyWorker, BusyNotExpired DEF IsBusy, Busy, Recovered
  <2>2. QED BY <2>1, FailsRightStays
<1>4. QED BY <1>1, <1>2, <1>3 DEF AttemptsInv

\* The row that is leased was below its limit.
LEMMA TakeItemAttempts ==
  ASSUME LoopInv, MaxRun <= LeaseTicks, AttemptsInv, NEW w \in Workers, NEW q \in QueueIds,
         TakeItem(w, q)
  PROVE AttemptsInv'
<1>0. QueueInv /\ Lease(w, q) /\ workers[w].pc = "idle" /\ failing' = failing
  BY DEF TakeItem, Lease, LoopInv
<1>1. /\ workers'[w].pc = "working" /\ workers'[w].item = q
      /\ \A v \in Workers : v # w => workers'[v] = workers[v]
  BY DEF TakeItem, LoopInv
<1>2. Down' = Down /\ \A r : Lost(r)' = Lost(r)
  BY <1>0, <1>1, LostElsewhere
<1>3. jobs'[q] = [Recovered[q] EXCEPT !.status = "running", !.leased_by = w,
                    !.ttl = LeaseTicks, !.attempts = @ + 1]
  BY <1>0, LeaseClaims
<1>4. \A r \in QueueIds : r # q => jobs'[r] = Recovered[r]
  BY <1>0, LeaseClaims
<1>5. ASSUME NEW r \in QueueIds PROVE Charged(r)'
  <2>1. CASE r = q
    <3>1. /\ Recovered[q].attempts = jobs[q].attempts
          /\ Recovered[q].max_attempts = jobs[q].max_attempts
          /\ Recovered[q] \in Row
      <4>1. jobs[q] \in Row
        BY RowNumbers
      <4>2. Recovered[q] \in Row
        BY <1>0, RecoveredGood
      <4>3. QED BY <4>1, <4>2 DEF Recovered, Released, Row
    <3>2. jobs[q].attempts < Limit(q)
      <4>1. jobs[q].status = "queued" \/ LeaseExpired(jobs[q])
        BY <1>0, LeaseClaims
      <4>2. QED BY <4>1, ExpiredBelowLimit DEF AttemptsInv, Charged
    <3>3. /\ jobs'[q].status = "running" /\ jobs'[q].leased_by = w
          /\ jobs'[q].attempts = jobs[q].attempts + 1
          /\ jobs'[q].max_attempts = jobs[q].max_attempts
      BY <1>3, <3>1 DEF Row
    <3>4. Limit(q)' = Limit(q) /\ Limit(q) \in Nat /\ jobs[q].attempts \in Nat
      BY <1>2, <3>3, RowNumbers DEF Limit
    <3>5. QED BY <1>1, <2>1, <3>2, <3>3, <3>4 DEF Charged, Busy
  <2>2. CASE r # q
    <3>1. jobs[r].status = "running" => jobs[r].leased_by # w /\ jobs[r].leased_by \in Workers
      BY <1>0, RowNumbers DEF AttemptsInv, Charged, Busy
    <3>2. QED BY <1>1, <1>2, <1>4, <2>2, <3>1, RecoveredCharged
  <2>3. QED BY <2>1, <2>2
<1>6. ASSUME NEW v \in Workers PROVE FailsRight(v)'
  <2>1. CASE v = w
    BY <1>1, <2>1 DEF FailsRight
  <2>2. CASE v # w
    <3>1. workers'[v] = workers[v]
      BY <1>1, <2>2
    <3>2. ASSUME workers[v].pc = "failing"
          PROVE workers[v].item \in QueueIds /\ jobs'[workers[v].item] = jobs[workers[v].item]
      <4>1. IsBusy(v)
        BY <3>2 DEF IsBusy, Busy
      <4>2. /\ workers[v].item \in QueueIds /\ jobs[workers[v].item].status = "running"
            /\ ~LeaseExpired(jobs[workers[v].item])
        BY <4>1, BusyWorker, BusyNotExpired
      <4>3. workers[v].item # q
        BY <1>0, <4>2, LeaseClaims
      <4>4. QED BY <1>4, <4>2, <4>3 DEF Recovered
    <3>3. QED BY <1>0, <3>1, <3>2, FailsRightStays
  <2>3. QED BY <2>1, <2>2
<1>7. QED BY <1>2, <1>5, <1>6 DEF AttemptsInv

\* The end of a run: the row is released, to the queue only below its limit.
LEMMA RunEndsAttempts ==
  ASSUME LoopInv, AttemptsInv, NEW w \in Workers, IsBusy(w),
         NEW s \in Terminal \cup {"queued"}, NEW n,
         jobs' = [jobs EXCEPT ![workers[w].item] = Released(@, s, n)],
         s = "queued" => jobs[workers[w].item].attempts < Limit(workers[w].item),
         workers' = [workers EXCEPT ![w] = IdleWorker],
         \A v \in Workers \ {w} : failing'[v] = failing[v]
  PROVE AttemptsInv'
<1> DEFINE q == workers[w].item
<1>0. q \in QueueIds /\ jobs[q] \in Row /\ workers[w].pc # "down"
  BY BusyWorker, RowNumbers DEF IsBusy, Busy
<1>1. /\ workers'[w] = IdleWorker
      /\ \A v \in Workers : v # w => workers'[v] = workers[v]
  BY DEF LoopInv
<1>2. Down' = Down /\ \A r : Lost(r)' = Lost(r)
  BY <1>0, <1>1, LostElsewhere DEF IdleWorker
<1>3. /\ jobs'[q].status = s /\ s # "running"
      /\ jobs'[q].attempts = jobs[q].attempts
      /\ jobs'[q].max_attempts = jobs[q].max_attempts
  BY <1>0 DEF Released, Row, Terminal, LoopInv, QueueInv
<1>4. \A r \in QueueIds : r # q => jobs'[r] = jobs[r]
  BY DEF LoopInv, QueueInv
<1> HIDE DEF q
<1>5. ASSUME NEW r \in QueueIds PROVE Charged(r)'
  <2>1. CASE r = q
    BY <1>2, <1>3, <2>1, ChargedStays DEF AttemptsInv, q
  <2>2. CASE r # q
    <3>1. jobs[r].status = "running" => jobs[r].leased_by # w /\ jobs[r].leased_by \in Workers
      BY <2>2, RowNumbers DEF AttemptsInv, Charged, q
    <3>2. QED BY <1>1, <1>2, <1>4, <2>2, <3>1, ChargedStays DEF AttemptsInv, Charged
  <2>3. QED BY <2>1, <2>2
<1>6. ASSUME NEW v \in Workers PROVE FailsRight(v)'
  <2>1. CASE v = w
    BY <1>1, <2>1 DEF FailsRight, IdleWorker
  <2>2. CASE v # w
    <3>1. workers[v].pc = "failing" => workers[v].item \in QueueIds /\ workers[v].item # q
      BY <2>2, BusyWorker, DifferentItems DEF IsBusy, Busy, q
    <3>2. QED BY <1>1, <1>4, <2>2, <3>1, FailsRightStays
  <2>3. QED BY <2>1, <2>2
<1>7. QED BY <1>2, <1>5, <1>6 DEF AttemptsInv

LEMMA FinishAttempts ==
  ASSUME LoopInv, AttemptsInv, NEW w \in Workers,
         FinishItem(w) \/ FinishCancelled(w) \/ \E d \in Delays : FinishFailed(w, d)
  PROVE AttemptsInv'
<1> DEFINE q == workers[w].item
<1>1. IsBusy(w) /\ workers' = [workers EXCEPT ![w] = IdleWorker]
  BY DEF FinishItem, FinishCancelled, FinishFailed, IsBusy, Busy
<1>2. q \in QueueIds /\ OwnedBy(q, w)
  BY <1>1, BusyWorker DEF OwnedBy
<1>3. /\ "complete" \in Terminal /\ "cancelled" \in Terminal /\ "failed" \in Terminal
      /\ "complete" # "queued" /\ "cancelled" # "queued" /\ "failed" # "queued"
  BY DEF Terminal
<1>4. CASE FinishItem(w)
  <2>1. /\ jobs' = [jobs EXCEPT ![q] = Released(@, "complete", jobs[q].wait)]
        /\ failing' = failing
    BY <1>2, <1>4 DEF FinishItem, Complete
  <2>2. QED BY <1>1, <1>3, <2>1, RunEndsAttempts
<1>5. CASE FinishCancelled(w)
  <2>1. /\ jobs' = [jobs EXCEPT ![q] = Released(@, "cancelled", jobs[q].wait)]
        /\ failing' = failing
    BY <1>5 DEF FinishCancelled, MarkCancelled
  <2>2. QED BY <1>1, <1>3, <2>1, RunEndsAttempts
<1>6. ASSUME NEW d \in Delays, FinishFailed(w, d) PROVE AttemptsInv'
  <2>1. /\ failing[w].id = q
        /\ failing[w].terminal <=> jobs[q].attempts >= jobs[q].max_attempts
    BY <1>1, <1>6, BusyWorker DEF FinishFailed, AttemptsInv, FailsRight
  <2>2. \A v \in Workers \ {w} : failing'[v] = failing[v]
    BY <1>6 DEF FinishFailed, FailWrite, LoopInv, QueueInv
  <2>3. CASE failing[w].terminal
    <3>1. jobs' = [jobs EXCEPT ![q] = Released(@, "failed", 0)]
      BY <1>6, <2>1, <2>3 DEF FinishFailed, FailWrite
    <3>2. QED BY <1>1, <1>3, <2>2, <3>1, RunEndsAttempts
  <2>4. CASE ~failing[w].terminal
    <3>1. jobs' = [jobs EXCEPT ![q] = Released(@, "queued", d)]
      BY <1>6, <2>1, <2>4 DEF FinishFailed, FailWrite
    <3>2. jobs[q].attempts < Limit(q)
      BY <1>2, <2>1, <2>4, RowNumbers
    <3>3. QED BY <1>1, <2>2, <3>1, <3>2, RunEndsAttempts
  <2>5. QED BY <2>3, <2>4
<1>7. QED BY <1>4, <1>5, <1>6

\* A worker that goes on to end its run in another way still holds its row.
LEMMA TurnAttempts ==
  ASSUME LoopInv, AttemptsInv, NEW w \in Workers, SeeCancel(w) \/ RaiseItem(w)
  PROVE AttemptsInv'
<1>1. /\ workers[w].pc = "working" /\ jobs' = jobs
      /\ workers'[w].pc \in {"cancelled", "failing"} /\ workers'[w].item = workers[w].item
      /\ \A v \in Workers : v # w => workers'[v] = workers[v] /\ failing'[v] = failing[v]
  BY DEF SeeCancel, RaiseItem, FailRead, LoopInv, QueueInv, Worker
<1>2. Down' = Down /\ \A r : Lost(r)' = Lost(r)
  BY <1>1, LostElsewhere
<1>3. ASSUME NEW r \in QueueIds PROVE Charged(r)'
  <2>1. jobs[r].status = "running" => jobs[r].leased_by \in Workers
    BY RowNumbers
  <2>2. QED BY <1>1, <1>2, <2>1, ChargedStays DEF AttemptsInv, Charged, Busy
<1>4. ASSUME NEW v \in Workers PROVE FailsRight(v)'
  <2>1. CASE v # w
    BY <1>1, <2>1, FailsRightStays
  <2>2. CASE v = w /\ SeeCancel(w)
    <3>1. workers'[w].pc = "cancelled"
      BY <2>2 DEF SeeCancel, LoopInv, Worker
    <3>2. QED BY <2>2, <3>1 DEF FailsRight
  <2>3. CASE v = w /\ RaiseItem(w)
    <3>1. failing'[w].terminal =
            (jobs[workers[w].item].attempts >= jobs[workers[w].item].max_attempts)
      BY <2>3 DEF RaiseItem, FailRead, LoopInv, QueueInv
    <3>2. QED BY <1>1, <2>3, <3>1 DEF FailsRight
  <2>4. QED BY <2>1, <2>2, <2>3
<1>5. QED BY <1>2, <1>3, <1>4 DEF AttemptsInv

\* A worker that dies on a row raises the bound of that row by one.
LEMMA CrashAttempts ==
  ASSUME LoopInv, AttemptsInv, NEW w \in Workers, Crash(w)
  PROVE AttemptsInv'
<1>1. /\ workers[w].pc # "down" /\ jobs' = jobs
      /\ workers'[w].pc = "down" /\ workers'[w].item = workers[w].item
      /\ \A v \in Workers : v # w => workers'[v] = workers[v] /\ failing'[v] = failing[v]
  BY DEF Crash, LoopInv, QueueInv, Worker
<1>2. w \notin Down /\ Down' = Down \cup {w}
  BY <1>1 DEF Down
<1>3. IsFiniteSet(Down')
  BY <1>2, FS_AddElement DEF AttemptsInv
<1>4. ASSUME NEW r \in QueueIds PROVE Charged(r)'
  <2>1. /\ Charged(r)
        /\ jobs[r].status = "running" => jobs[r].leased_by \in Workers
        /\ jobs[r].attempts \in Nat /\ jobs[r].max_attempts \in Nat
    BY RowNumbers DEF AttemptsInv
  <2>2. CASE workers[w].item # r
    <3>1. Lost(r)' = Lost(r)
      BY <1>1, <1>2, <2>2 DEF Lost, Down
    <3>2. jobs[r].status = "running" => jobs[r].leased_by # w
      BY <2>1, <2>2 DEF Charged
    <3>3. QED BY <1>1, <2>1, <3>1, <3>2, ChargedStays DEF Charged
  <2>3. CASE workers[w].item = r
    <3>1. Lost(r)' = Lost(r) \cup {w} /\ w \notin Lost(r)
      BY <1>1, <1>2, <2>3 DEF Lost, Down
    <3>2. /\ IsFiniteSet(Lost(r)) /\ Cardinality(Lost(r)) \in Nat
          /\ Cardinality(Lost(r)') = Cardinality(Lost(r)) + 1
      BY <3>1, LostIsFinite, FS_AddElement DEF AttemptsInv
    <3>3. Limit(r)' = Limit(r) + 1 /\ Limit(r) \in Nat
      BY <1>1, <2>1, <3>2 DEF Limit
    <3>4. jobs[r].attempts < Limit(r)'
      BY <2>1, <3>3 DEF Charged
    <3>5. jobs[r].status = "running" =>
            /\ workers'[jobs[r].leased_by].item = r
            /\ workers'[jobs[r].leased_by].pc \in Busy \cup {"down"}
      BY <1>1, <2>1 DEF Charged
    <3>6. QED BY <1>1, <2>1, <3>3, <3>4, <3>5 DEF Charged
  <2>4. QED BY <2>2, <2>3
<1>5. ASSUME NEW v \in Workers PROVE FailsRight(v)'
  <2>1. CASE v = w
    BY <1>1, <2>1 DEF FailsRight
  <2>2. CASE v # w
    BY <1>1, <2>2, FailsRightStays
  <2>3. QED BY <2>1, <2>2
<1>6. QED BY <1>3, <1>4, <1>5 DEF AttemptsInv

LEMMA LoopTickAttempts ==
  ASSUME LoopInv, AttemptsInv, LoopTick
  PROVE AttemptsInv'
<1>1. ASSUME NEW w \in Workers
      PROVE workers'[w].pc = workers[w].pc /\ workers'[w].item = workers[w].item
  <2>1. workers[w] \in Worker
    BY DEF LoopInv
  <2>2. QED BY <2>1 DEF LoopTick, Worker
<1>2. Down' = Down /\ \A r : Lost(r)' = Lost(r)
  BY <1>1, LostElsewhere
<1>3. ASSUME NEW r \in QueueIds
      PROVE /\ jobs'[r].attempts = jobs[r].attempts
            /\ jobs'[r].max_attempts = jobs[r].max_attempts
            /\ jobs'[r].leased_by = jobs[r].leased_by
            /\ jobs'[r].status = jobs[r].status
  <2>1. jobs[r] \in Row
    BY RowNumbers
  <2>2. QED BY <2>1 DEF LoopTick, Tick, Aged, Row
<1>4. ASSUME NEW r \in QueueIds PROVE Charged(r)'
  <2>1. jobs[r].status = "running" => jobs[r].leased_by \in Workers
    BY RowNumbers
  <2>2. QED BY <1>1, <1>2, <1>3, <2>1, ChargedStays DEF AttemptsInv, Charged
<1>5. ASSUME NEW w \in Workers PROVE FailsRight(w)'
  <2>1. workers[w].pc = "failing" => workers[w].item \in QueueIds
    BY BusyWorker DEF IsBusy, Busy
  <2>2. failing' = failing
    BY DEF LoopTick, Tick
  <2>3. QED BY <1>1, <1>3, <2>1, <2>2, FailsRightStays
<1>6. QED BY <1>2, <1>4, <1>5 DEF AttemptsInv

LEMMA LoopNextAttempts ==
  ASSUME MaxRun <= LeaseTicks, LoopInv, AttemptsInv, [LoopNext]_loopVars
  PROVE AttemptsInv'
<1>1. CASE \E q \in QueueIds, l \in LogicalJobs : SubmitJob(q, l)
  BY <1>1, SubmitJobAttempts
<1>2. CASE (\E l \in EvaluationJobs : ClearFlag(l) \/ SetFlag(l)) \/ UNCHANGED loopVars
  <2>1. UNCHANGED <<jobs, failing, workers>>
    BY <1>2 DEF ClearFlag, SetFlag, loopVars
  <2>2. QED BY <2>1 DEF AttemptsInv, Charged, FailsRight, Limit, Lost, Down
<1>3. CASE \E l \in EvaluationJobs : CancelInQueue(l)
  BY <1>3, CancelInQueueAttempts
<1>4. CASE ServerStart \/ \E w \in Workers : Poll(w)
  BY <1>4, RecoverAttempts DEF ServerStart, RecoverExpired, Poll, LeaseNothing
<1>5. CASE \E w \in Workers, q \in QueueIds : TakeItem(w, q)
  BY <1>5, TakeItemAttempts
<1>6. CASE \E w \in Workers : \/ FinishItem(w) \/ FinishCancelled(w)
                              \/ \E d \in Delays : FinishFailed(w, d)
  BY <1>6, FinishAttempts
<1>7. CASE \E w \in Workers : SeeCancel(w) \/ RaiseItem(w)
  BY <1>7, TurnAttempts
<1>8. CASE \E w \in Workers : Crash(w)
  BY <1>8, CrashAttempts
<1>9. CASE LoopTick
  BY <1>9, LoopTickAttempts
<1>10. QED
  BY <1>1, <1>2, <1>3, <1>4, <1>5, <1>6, <1>7, <1>8, <1>9 DEF LoopNext, WorkerStep

\* A row is leased at most max_attempts times, and once more for every worker that
\* died on it: what recover_expired adds to the limit that fail() keeps.
THEOREM AttemptsAreBounded ==
  ASSUME MaxRun <= LeaseTicks
  PROVE LoopSpec => []AttemptsBounded
<1>1. LoopInit => AttemptsInv
  BY AttemptsInit
<1>2. LoopInv /\ AttemptsInv /\ [LoopNext]_loopVars => AttemptsInv'
  BY LoopNextAttempts
<1>3. AttemptsInv => AttemptsBounded
  BY DEF AttemptsInv, AttemptsBounded, Charged, Limit
<1>4. QED BY <1>1, <1>2, <1>3, LoopInvariant, PTL DEF LoopSpec

-----------------------------------------------------------------------------
\* The worker loop implements SerialExecution.

\* The two functions that stand for the abstract variables.
Stage(row) ==
  CASE row.status = "absent" -> "absent"
    [] row.status \in Terminal -> "closed"
    [] OTHER -> "open"

Executing(q) == {w \in Workers : IsBusy(w) /\ workers[w].item = q}

LEMMA StageValues ==
  ASSUME NEW row
  PROVE /\ row.status = "absent" => Stage(row) = "absent"
        /\ row.status \in Terminal => Stage(row) = "closed"
        /\ row.status \in {"queued", "running"} => Stage(row) = "open"
BY DEF Stage, Terminal

\* A step is made of what it does to the two functions.
SameStage(q) == Stage(jobs'[q]) = Stage(jobs[q])
SameExecuting(q) == Executing(q)' = Executing(q)

LEMMA SubmitStep ==
  ASSUME NEW q \in QueueIds, Stage(jobs[q]) = "absent", Stage(jobs'[q]) = "open",
         \A r \in QueueIds : r # q => SameStage(r),
         \A r \in QueueIds : SameExecuting(r)
  PROVE Serial!Submit(q)
BY DEF Serial!Submit, Stage, Executing, IsBusy, SameStage, SameExecuting

LEMMA BeginStep ==
  ASSUME NEW q \in QueueIds, NEW w \in Workers, Stage(jobs[q]) = "open", Executing(q) = {},
         Executing(q)' = {w},
         \A r \in QueueIds : SameStage(r),
         \A r \in QueueIds : r # q => SameExecuting(r)
  PROVE Serial!Begin(q, w)
<1>1. [r \in QueueIds |-> Executing(r)]' = [[r \in QueueIds |-> Executing(r)] EXCEPT ![q] = {w}]
  BY DEF SameExecuting
<1>2. [r \in QueueIds |-> Stage(jobs[r])]' = [r \in QueueIds |-> Stage(jobs[r])]
  BY DEF SameStage
<1>3. QED BY <1>1, <1>2 DEF Serial!Begin, Stage, Executing, IsBusy

LEMMA EndStep ==
  ASSUME NEW q \in QueueIds, NEW s, Executing(q) # {}, Executing(q)' = {},
         Stage(jobs'[q]) = s,
         \A r \in QueueIds : r # q => SameStage(r) /\ SameExecuting(r)
  PROVE Serial!End(q, s)
<1>1. [r \in QueueIds |-> Executing(r)]' = [[r \in QueueIds |-> Executing(r)] EXCEPT ![q] = {}]
  BY DEF SameExecuting
<1>2. [r \in QueueIds |-> Stage(jobs[r])]' = [[r \in QueueIds |-> Stage(jobs[r])] EXCEPT ![q] = s]
  BY DEF SameStage
<1>3. QED BY <1>1, <1>2 DEF Serial!End, Stage, Executing, IsBusy

LEMMA WithdrawStep ==
  ASSUME NEW S \in SUBSET QueueIds,
         \A q \in S : /\ Stage(jobs[q]) = "open" /\ Executing(q) = {}
                      /\ Stage(jobs'[q]) = "closed",
         \A q \in QueueIds \ S : SameStage(q),
         \A q \in QueueIds : SameExecuting(q)
  PROVE Serial!Withdraw(S)
BY DEF Serial!Withdraw, Stage, Executing, IsBusy, SameStage, SameExecuting

LEMMA StutterStep ==
  ASSUME \A q \in QueueIds : SameStage(q) /\ SameExecuting(q)
  PROVE UNCHANGED Serial!serialVars
BY DEF Serial!serialVars, Stage, Executing, IsBusy, SameStage, SameExecuting

-----------------------------------------------------------------------------
\* Who executes what.

LEMMA ExecutedByOne ==
  ASSUME LoopInv, NEW w \in Workers, IsBusy(w)
  PROVE Executing(workers[w].item) = {w}
BY DifferentItems DEF Executing

\* Only a leased row is executed, and only while the lease lasts.
LEMMA ExecutedIsLeased ==
  ASSUME LoopInv, MaxRun <= LeaseTicks, NEW q \in QueueIds, Executing(q) # {}
  PROVE jobs[q].status = "running" /\ ~LeaseExpired(jobs[q])
<1>1. PICK w \in Workers : IsBusy(w) /\ workers[w].item = q
  BY DEF Executing
<1>2. QED BY <1>1, BusyWorker, BusyNotExpired

LEMMA SameWorkersSameExecuting ==
  ASSUME workers' = workers, NEW q
  PROVE SameExecuting(q)
BY DEF SameExecuting, Executing, IsBusy

\* A worker that turns to q, or away from it, is of no concern to another row.
LEMMA ExecutingElsewhere ==
  ASSUME LoopInv, NEW w \in Workers, NEW q, NEW rec,
         workers' = [workers EXCEPT ![w] = rec],
         IsBusy(w) => workers[w].item = q,
         rec.pc \in Busy => rec.item = q,
         NEW r \in QueueIds, r # q
  PROVE SameExecuting(r)
<1>1. \A v \in Workers : workers'[v] = IF v = w THEN rec ELSE workers[v]
  BY DEF LoopInv
<1>2. QED BY <1>1 DEF SameExecuting, Executing, IsBusy

\* Recovery puts a row back in the queue, which keeps it open.
LEMMA RecoveredStage ==
  ASSUME QueueInv, NEW q \in QueueIds
  PROVE Stage(Recovered[q]) = Stage(jobs[q])
<1>1. CASE LeaseExpired(jobs[q])
  <2>1. GoodRow(jobs[q]) /\ jobs[q].status = "running"
    BY <1>1 DEF QueueInv, LeaseExpired
  <2>2. Recovered[q].status = "queued"
    BY <1>1, <2>1, ReleasedGood DEF Recovered
  <2>3. QED BY <2>1, <2>2, StageValues
<1>2. CASE ~LeaseExpired(jobs[q])
  BY <1>2 DEF Recovered
<1>3. QED BY <1>1, <1>2

LEMMA RecoverStutters ==
  ASSUME LoopInv, jobs' = Recovered, workers' = workers
  PROVE UNCHANGED Serial!serialVars
<1>1. \A q \in QueueIds : SameStage(q)
  BY RecoveredStage DEF SameStage, LoopInv
<1>2. QED BY <1>1, SameWorkersSameExecuting, StutterStep

\* The row of a busy worker is open, and the end of the run is the end of its
\* execution, whatever status the worker leaves the row in.
LEMMA RunEndsStep ==
  ASSUME LoopInv, NEW w \in Workers, IsBusy(w), NEW rec, rec.pc \notin Busy,
         workers' = [workers EXCEPT ![w] = rec],
         NEW row, jobs' = [jobs EXCEPT ![workers[w].item] = row],
         Stage(row) \in {"open", "closed"}
  PROVE Serial!SerialNext
<1>1. PICK q \in QueueIds : q = workers[w].item
  BY BusyWorker
<1>2. PICK s \in {"open", "closed"} : s = Stage(row)
  OBVIOUS
<1>3. Stage(jobs[q]) = "open"
  BY <1>1, BusyWorker, StageValues
<1>4. Executing(q) = {w}
  BY <1>1, ExecutedByOne
<1>5. \A v \in Workers : workers'[v] = IF v = w THEN rec ELSE workers[v]
  BY DEF LoopInv
<1>6. Executing(q)' = {}
  <2>1. ASSUME NEW v \in Workers, workers'[v].pc \in Busy, workers'[v].item = q PROVE FALSE
    <3>1. v # w /\ workers'[v] = workers[v]
      BY <1>5, <2>1
    <3>2. v \in Executing(q)
      BY <2>1, <3>1 DEF Executing, IsBusy
    <3>3. QED BY <1>4, <3>1, <3>2
  <2>2. QED BY <2>1 DEF Executing, IsBusy
<1>7. \A r \in QueueIds : r # q => SameExecuting(r)
  BY <1>1, ExecutingElsewhere
<1>8. jobs'[q] = row /\ \A r \in QueueIds : r # q => SameStage(r)
  BY <1>1 DEF SameStage, LoopInv, QueueInv
<1>9. Serial!End(q, s)
  BY <1>2, <1>4, <1>6, <1>7, <1>8, EndStep
<1>10. [r \in QueueIds |-> Stage(jobs[r])][q] = "open"
  BY <1>3
<1>11. QED BY <1>9, <1>10 DEF Serial!SerialNext, Stage

-----------------------------------------------------------------------------
\* The steps.

LEMMA SubmitJobStep ==
  ASSUME LoopInv, NEW q \in QueueIds, NEW l \in LogicalJobs, SubmitJob(q, l)
  PROVE Serial!SerialNext
<1>1. /\ jobs[q].status = "absent" /\ jobs'[q].status = "queued"
      /\ \A r \in QueueIds : r # q => jobs'[r] = jobs[r]
  BY DEF SubmitJob, Enqueue, AbsentRow, LoopInv, QueueInv
<1>2. Stage(jobs[q]) = "absent" /\ Stage(jobs'[q]) = "open"
  BY <1>1, StageValues
<1>3. workers' = workers
  BY DEF SubmitJob
<1>4. Serial!Submit(q)
  BY <1>1, <1>2, <1>3, SameWorkersSameExecuting, SubmitStep DEF SameStage
<1>5. QED BY <1>4 DEF Serial!SerialNext

\* The cancel handler withdraws the queued rows of a job; a running one stays open.
LEMMA CancelInQueueStep ==
  ASSUME LoopInv, MaxRun <= LeaseTicks, NEW l \in EvaluationJobs, CancelInQueue(l)
  PROVE Serial!SerialNext
<1>1. PICK S \in SUBSET QueueIds : S = {q \in RowsOf(l) : jobs[q].status = "queued"}
  BY DEF RowsOf
<1>2. ASSUME NEW q \in S
      PROVE Stage(jobs[q]) = "open" /\ Executing(q) = {} /\ Stage(jobs'[q]) = "closed"
  <2>1. q \in QueueIds /\ q \in RowsOf(l) /\ jobs[q].status = "queued" /\ jobs[q] \in Row
    BY <1>1, <1>2 DEF LoopInv, QueueInv
  <2>2. jobs'[q].status = "cancelled"
    BY <2>1 DEF CancelInQueue, RequestCancel, Row
  <2>3. Executing(q) = {}
    BY <2>1, ExecutedIsLeased
  <2>4. QED BY <2>1, <2>2, <2>3, StageValues DEF Terminal
<1>3. ASSUME NEW q \in QueueIds \ S PROVE SameStage(q)
  <2>1. jobs[q] \in Row
    BY DEF LoopInv, QueueInv
  <2>2. jobs'[q].status = jobs[q].status
    BY <1>1, <1>3, <2>1 DEF CancelInQueue, RequestCancel, Row
  <2>3. QED BY <2>2 DEF SameStage, Stage
<1>4. workers' = workers
  BY DEF CancelInQueue
<1>5. Serial!Withdraw(S)
  BY <1>2, <1>3, <1>4, SameWorkersSameExecuting, WithdrawStep
<1>6. QED BY <1>5 DEF Serial!SerialNext

\* A row that is leased is open and nobody is busy with it: it was queued, or its
\* lease had run out.
LEMMA TakeItemStep ==
  ASSUME LoopInv, MaxRun <= LeaseTicks, NEW w \in Workers, NEW q \in QueueIds,
         TakeItem(w, q)
  PROVE Serial!SerialNext
<1> DEFINE rec == [pc |-> "working", item |-> q, age |-> 0]
<1>1. QueueInv /\ Lease(w, q) /\ workers' = [workers EXCEPT ![w] = rec] /\ ~IsBusy(w)
  BY DEF TakeItem, LoopInv, IsBusy, Busy
<1>2. rec.pc \in Busy /\ rec.item = q
  BY DEF Busy
<1> HIDE DEF rec
<1>3. Recovered[q].status = "queued"
  BY <1>1 DEF Lease, Eligible
<1>4. jobs[q].status = "queued" \/ LeaseExpired(jobs[q])
  BY <1>3 DEF Recovered
<1>5. Executing(q) = {}
  BY <1>4, ExecutedIsLeased
<1>6. Stage(jobs[q]) = "open"
  BY <1>4, StageValues DEF LeaseExpired
<1>7. \A v \in Workers : workers'[v] = IF v = w THEN rec ELSE workers[v]
  BY <1>1 DEF LoopInv
<1>8. Executing(q)' = {w}
  <2>1. ASSUME NEW v \in Workers, v # w PROVE ~(workers'[v].pc \in Busy /\ workers'[v].item = q)
    BY <1>5, <1>7, <2>1 DEF Executing, IsBusy
  <2>2. workers'[w].pc \in Busy /\ workers'[w].item = q
    BY <1>2, <1>7
  <2>3. QED BY <2>1, <2>2 DEF Executing, IsBusy
<1>9. ASSUME NEW r \in QueueIds PROVE SameStage(r)
  <2>1. CASE r = q
    <3>1. Recovered[q] \in Row
      BY <1>1, RecoveredGood
    <3>2. jobs'[q] = [Recovered[q] EXCEPT !.status = "running", !.leased_by = w,
                        !.ttl = LeaseTicks, !.attempts = @ + 1]
      BY <1>1, LeaseClaims
    <3>3. jobs'[q].status = "running"
      BY <3>1, <3>2 DEF Row
    <3>4. QED BY <1>6, <2>1, <3>3, StageValues DEF SameStage
  <2>2. CASE r # q
    <3>1. jobs'[r] = Recovered[r]
      BY <1>1, <2>2, LeaseClaims
    <3>2. QED BY <1>1, <3>1, RecoveredStage DEF SameStage
  <2>3. QED BY <2>1, <2>2
<1>10. \A r \in QueueIds : r # q => SameExecuting(r)
  BY <1>1, <1>2, ExecutingElsewhere
<1>11. Serial!Begin(q, w)
  BY <1>5, <1>6, <1>8, <1>9, <1>10, BeginStep
<1>12. QED BY <1>11 DEF Serial!SerialNext

\* A worker that changes the part of the loop it is in, busy before and after,
\* executes what it executed.
LEMMA StillBusyStutters ==
  ASSUME LoopInv, NEW w \in Workers, IsBusy(w), NEW pc \in Busy,
         workers' = [workers EXCEPT ![w].pc = pc], jobs' = jobs
  PROVE UNCHANGED Serial!serialVars
<1>1. \A v \in Workers : /\ workers[v] \in Worker
                         /\ workers'[v] = IF v = w THEN [workers[w] EXCEPT !.pc = pc] ELSE workers[v]
  BY DEF LoopInv
<1>2. \A v \in Workers : /\ workers'[v].item = workers[v].item
                         /\ workers'[v].pc \in Busy <=> workers[v].pc \in Busy
  BY <1>1 DEF Worker, IsBusy
<1>3. \A q \in QueueIds : SameExecuting(q)
  BY <1>2 DEF SameExecuting, Executing, IsBusy
<1>4. QED BY <1>3, StutterStep DEF SameStage

LEMMA LoopTickStutters ==
  ASSUME LoopInv, LoopTick
  PROVE UNCHANGED Serial!serialVars
<1>1. ASSUME NEW w \in Workers
      PROVE workers'[w].pc = workers[w].pc /\ workers'[w].item = workers[w].item
  <2>1. workers[w] \in Worker
    BY DEF LoopInv
  <2>2. QED BY <2>1 DEF LoopTick, Worker
<1>2. \A q \in QueueIds : SameExecuting(q)
  BY <1>1 DEF SameExecuting, Executing, IsBusy
<1>3. ASSUME NEW q \in QueueIds PROVE SameStage(q)
  <2>1. jobs[q] \in Row
    BY DEF LoopInv, QueueInv
  <2>2. jobs'[q].status = jobs[q].status
    BY <2>1 DEF LoopTick, Tick, Aged, Row
  <2>3. QED BY <2>2 DEF SameStage, Stage
<1>4. QED BY <1>2, <1>3, StutterStep

LEMMA FinishStep ==
  ASSUME LoopInv, NEW w \in Workers, FinishItem(w) \/ FinishCancelled(w)
  PROVE Serial!SerialNext
<1> DEFINE q == workers[w].item
<1>1. IsBusy(w)
  BY DEF FinishItem, FinishCancelled, IsBusy, Busy
<1>2. q \in QueueIds /\ OwnedBy(q, w) /\ GoodRow(jobs[q]) /\ jobs[q].wait \in Nat
  BY <1>1, BusyWorker DEF OwnedBy, LoopInv, QueueInv, Row
<1>3. PICK s \in {"complete", "cancelled"} :
        jobs' = [jobs EXCEPT ![q] = Released(jobs[q], s, jobs[q].wait)]
  BY <1>2 DEF FinishItem, FinishCancelled, Complete, MarkCancelled
<1>4. Stage(Released(jobs[q], s, jobs[q].wait)) = "closed"
  <2>1. s \in Terminal
    BY DEF Terminal
  <2>2. Released(jobs[q], s, jobs[q].wait).status = s
    BY <1>2, <2>1, ReleasedGood
  <2>3. QED BY <2>1, <2>2, StageValues
<1>5. workers' = [workers EXCEPT ![w] = IdleWorker] /\ IdleWorker.pc \notin Busy
  BY DEF FinishItem, FinishCancelled, IdleWorker, Busy
<1>6. QED BY <1>1, <1>3, <1>4, <1>5, RunEndsStep

LEMMA FinishFailedStep ==
  ASSUME LoopInv, NEW w \in Workers, NEW d \in Delays, FinishFailed(w, d)
  PROVE Serial!SerialNext
<1> DEFINE q == workers[w].item
           row == IF failing[w].terminal THEN Released(jobs[q], "failed", 0)
                  ELSE Released(jobs[q], "queued", d)
<1>1. IsBusy(w)
  BY DEF FinishFailed, IsBusy, Busy
<1>2. q \in QueueIds /\ failing[w].id = q /\ GoodRow(jobs[q]) /\ d \in Nat /\ 0 \in Nat
  BY <1>1, BusyWorker, ParameterAssumption DEF FinishFailed, LoopInv, QueueInv
<1>3. jobs' = [jobs EXCEPT ![q] = row]
  BY <1>2 DEF FinishFailed, FailWrite
<1>4. Stage(row) \in {"open", "closed"}
  <2>1. "failed" \in Terminal /\ "queued" \in Terminal \cup {"queued"}
    BY DEF Terminal
  <2>2. Stage(Released(jobs[q], "failed", 0)) = "closed"
    BY <1>2, <2>1, ReleasedGood, StageValues
  <2>3. Stage(Released(jobs[q], "queued", d)) = "open"
    BY <1>2, <2>1, ReleasedGood, StageValues
  <2>4. QED BY <2>2, <2>3
<1>5. workers' = [workers EXCEPT ![w] = IdleWorker] /\ IdleWorker.pc \notin Busy
  BY DEF FinishFailed, IdleWorker, Busy
<1> HIDE DEF row
<1>6. QED BY <1>1, <1>3, <1>4, <1>5, RunEndsStep

\* A worker that dies leaves its row open, still leased to the dead.
LEMMA CrashStep ==
  ASSUME LoopInv, NEW w \in Workers, Crash(w)
  PROVE Serial!SerialNext \/ UNCHANGED Serial!serialVars
<1> DEFINE rec == [workers[w] EXCEPT !.pc = "down", !.age = 0]
<1>1. workers[w] \in Worker /\ workers' = [workers EXCEPT ![w] = rec] /\ jobs' = jobs
  BY DEF Crash, LoopInv
<1>2. rec.pc = "down" /\ "down" \notin Busy
  BY <1>1 DEF Worker, Busy
<1> HIDE DEF rec
<1>3. CASE IsBusy(w)
  <2>1. PICK row : row = jobs[workers[w].item]
    OBVIOUS
  <2>2. Stage(row) = "open" /\ rec.pc \notin Busy
    BY <1>2, <1>3, <2>1, BusyWorker, StageValues
  <2>3. jobs' = [jobs EXCEPT ![workers[w].item] = row]
    BY <1>1, <1>3, <2>1, BusyWorker DEF LoopInv, QueueInv
  <2>4. Serial!SerialNext
    BY <1>1, <1>3, <2>2, <2>3, RunEndsStep
  <2>5. QED BY <2>4
<1>4. CASE ~IsBusy(w)
  <2>1. \A v \in Workers : workers'[v] = IF v = w THEN rec ELSE workers[v]
    BY <1>1 DEF LoopInv
  <2>2. \A q \in QueueIds : SameExecuting(q)
    BY <1>2, <1>4, <2>1 DEF SameExecuting, Executing, IsBusy
  <2>3. QED BY <1>1, <2>2, StutterStep DEF SameStage
<1>5. QED BY <1>3, <1>4

-----------------------------------------------------------------------------
\* The theorem.

LEMMA SerialStep ==
  ASSUME MaxRun <= LeaseTicks
  PROVE LoopInv /\ [LoopNext]_loopVars => [Serial!SerialNext]_(Serial!serialVars)
<1>1. SUFFICES ASSUME LoopInv, [LoopNext]_loopVars
               PROVE Serial!SerialNext \/ UNCHANGED Serial!serialVars
  OBVIOUS
<1>2. ASSUME NEW q \in QueueIds, NEW l \in LogicalJobs, SubmitJob(q, l) PROVE Serial!SerialNext
  BY <1>1, <1>2, SubmitJobStep
<1>3. ASSUME NEW l \in EvaluationJobs, CancelInQueue(l) PROVE Serial!SerialNext
  BY <1>1, <1>3, CancelInQueueStep
<1>4. CASE ServerStart \/ (\E w \in Workers : Poll(w))
  BY <1>1, <1>4, RecoverStutters DEF ServerStart, RecoverExpired, Poll, LeaseNothing
<1>5. CASE \/ \E l \in EvaluationJobs : ClearFlag(l) \/ SetFlag(l)
           \/ UNCHANGED loopVars
  <2>1. jobs' = jobs /\ workers' = workers
    BY <1>5 DEF ClearFlag, SetFlag, loopVars
  <2>2. QED BY <2>1, SameWorkersSameExecuting, StutterStep DEF SameStage
<1>6. ASSUME NEW w \in Workers, NEW q \in QueueIds, TakeItem(w, q) PROVE Serial!SerialNext
  BY <1>1, <1>6, TakeItemStep
<1>7. ASSUME NEW w \in Workers, FinishItem(w) \/ FinishCancelled(w) PROVE Serial!SerialNext
  BY <1>1, <1>7, FinishStep
<1>8. ASSUME NEW w \in Workers, SeeCancel(w) \/ RaiseItem(w) PROVE UNCHANGED Serial!serialVars
  <2>1. IsBusy(w) /\ {"cancelled", "failing"} \subseteq Busy /\ jobs' = jobs
    BY <1>8 DEF SeeCancel, RaiseItem, FailRead, IsBusy, Busy
  <2>2. PICK pc \in {"cancelled", "failing"} : workers' = [workers EXCEPT ![w].pc = pc]
    BY <1>8 DEF SeeCancel, RaiseItem
  <2>3. QED BY <1>1, <2>1, <2>2, StillBusyStutters
<1>9. ASSUME NEW w \in Workers, NEW d \in Delays, FinishFailed(w, d) PROVE Serial!SerialNext
  BY <1>1, <1>9, FinishFailedStep
<1>10. ASSUME NEW w \in Workers, Crash(w)
       PROVE Serial!SerialNext \/ UNCHANGED Serial!serialVars
  BY <1>1, <1>10, CrashStep
<1>11. CASE LoopTick
  BY <1>1, <1>11, LoopTickStutters
<1>12. QED
  BY <1>1, <1>2, <1>3, <1>4, <1>5, <1>6, <1>7, <1>8, <1>9, <1>10, <1>11
     DEF LoopNext, WorkerStep

LEMMA SerialStart == LoopInit => Serial!SerialInit
<1>1. SUFFICES ASSUME LoopInit PROVE Serial!SerialInit
  OBVIOUS
<1>2. \A q \in QueueIds : jobs[q].status = "absent"
  BY <1>1 DEF LoopInit, QueueInit, AbsentRow
<1>3. \A w \in Workers : workers[w].pc \notin Busy
  BY <1>1 DEF LoopInit, IdleWorker, Busy
<1>4. /\ [q \in QueueIds |-> Stage(jobs[q])] = [q \in QueueIds |-> "absent"]
      /\ [q \in QueueIds |-> Executing(q)] = [q \in QueueIds |-> {}]
  BY <1>2, <1>3, StageValues DEF Executing, IsBusy
<1>5. QED BY <1>4 DEF Serial!SerialInit, Stage, Executing, IsBusy

\* The worker loop executes an entry of the queue on one worker at a time, and never
\* again once it is closed, whatever crashes, restarts of the server and cancel
\* requests happen, as long as no worker is busy for longer than the lease.
THEOREM LoopImplementsSerialExecution ==
  ASSUME MaxRun <= LeaseTicks
  PROVE LoopSpec => SerialExecutionImplemented
<1>1. LoopInv /\ [LoopNext]_loopVars => [Serial!SerialNext]_(Serial!serialVars)
  BY SerialStep
<1>2. LoopSpec => []LoopInv
  BY LoopInvariant
<1>3. QED
  BY <1>1, <1>2, SerialStart, PTL DEF LoopSpec, SerialExecutionImplemented, Serial!SerialSpec
=============================================================================
