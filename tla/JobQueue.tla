------------------------------ MODULE JobQueue ------------------------------
(***************************************************************************)
(* SQLiteJobQueue (src/contextmesh/jobqueue.py): the durable table through *)
(* which the HTTP server hands ingest and evaluation jobs to the worker    *)
(* processes of one host.  Every public method is one action, or two for   *)
(* fail(), whose SELECT and UPDATE are separate auto-committed statements. *)
(*                                                                         *)
(* The code compares its timestamps with the present instant only, so a    *)
(* timestamp is kept as its distance from now, in ticks: wait is the time  *)
(* until available_at (0 once it has passed) and ttl the time until        *)
(* lease_expires_at (-1 once it has passed).  Tick is the clock.           *)
(***************************************************************************)
EXTENDS Integers, FiniteSets

CONSTANTS
  QueueIds,      \* primary keys the table may ever hold (bounds the model)
  LogicalJobs,   \* logical job ids, the API's names for jobs
  Workers,       \* worker ids: one per run of run_worker_loop
  Priorities,    \* values of the priority column
  AttemptLimits, \* values of the max_attempts argument of enqueue
  Delays,        \* values of delay_seconds and retry_delay_seconds, in ticks
  LeaseTicks,    \* max(5, lease_seconds) in ticks
  Null           \* SQL NULL

ASSUME NullAssumption == Null \notin Workers \cup QueueIds \cup Int

ASSUME ParameterAssumption ==
  /\ IsFiniteSet(QueueIds)
  /\ Priorities \subseteq Nat
  /\ AttemptLimits \subseteq Nat
  /\ Delays \subseteq Nat
  /\ LeaseTicks \in Nat \ {0}

VARIABLES
  jobs,      \* the table queue_jobs, a row for every key
  failing    \* for every worker, the row it read in fail() and still has to update

queueVars == <<jobs, failing>>

Statuses == {"absent", "queued", "running", "complete", "failed", "cancelled"}
Terminal == {"complete", "failed", "cancelled"}

Row ==
  [status: Statuses, logical_job_id: LogicalJobs \cup {Null}, priority: Nat,
   attempts: Nat, max_attempts: Nat, wait: Nat,
   leased_by: Workers \cup {Null}, ttl: (-1 .. LeaseTicks) \cup {Null},
   cancel_requested: BOOLEAN, created: Nat]

AbsentRow ==
  [status |-> "absent", logical_job_id |-> Null, priority |-> 0, attempts |-> 0,
   max_attempts |-> 1, wait |-> 0, leased_by |-> Null, ttl |-> Null,
   cancel_requested |-> FALSE, created |-> 0]

QueueInit ==
  /\ jobs = [q \in QueueIds |-> AbsentRow]
  /\ failing = [w \in Workers |-> Null]

Present == {q \in QueueIds : jobs[q].status # "absent"}

-----------------------------------------------------------------------------
\* The statements.

AtLeastOne_Unclamped(n) == n
AtLeastOne(n) == IF n < 1 THEN 1 ELSE n

\* INSERT of a fresh key; created orders the rows by their insertion.
Enqueue(q, l, p, m, d) ==
  /\ jobs[q].status = "absent"
  /\ jobs' = [jobs EXCEPT ![q] =
       [AbsentRow EXCEPT !.status = "queued", !.logical_job_id = l, !.priority = p,
                         !.max_attempts = AtLeastOne(m), !.wait = d,
                         !.created = Cardinality(Present)]]
  /\ UNCHANGED failing

Released_KeepsHolder(row, status, wait) ==
  [row EXCEPT !.status = status, !.ttl = Null, !.wait = wait]

\* A row that leaves its lease: leased_by and lease_expires_at become NULL.
Released(row, status, wait) ==
  [row EXCEPT !.status = status, !.leased_by = Null, !.ttl = Null, !.wait = wait]

LeaseExpired_AtDeadline(row) ==
  row.status = "running" /\ row.ttl # Null /\ row.ttl <= 0
LeaseExpired_AnyRunning(row) == row.status = "running"

\* lease_expires_at IS NOT NULL AND lease_expires_at < now
LeaseExpired(row) == row.status = "running" /\ row.ttl # Null /\ row.ttl < 0

\* The UPDATE of recover_expired, which lease runs inside its transaction too.
Recovered ==
  [q \in QueueIds |-> IF LeaseExpired(jobs[q]) THEN Released(jobs[q], "queued", 0)
                      ELSE jobs[q]]

RecoverExpired ==
  /\ jobs' = Recovered
  /\ UNCHANGED failing

Eligible_IgnoresCancel(rows) ==
  {q \in QueueIds : rows[q].status = "queued" /\ rows[q].wait = 0}

Eligible_AnyStatus(rows) ==
  {q \in QueueIds : /\ rows[q].status \notin {"absent", "running"}
                    /\ rows[q].wait = 0 /\ ~rows[q].cancel_requested}

\* The WHERE clause of lease.
Eligible(rows) ==
  {q \in QueueIds : /\ rows[q].status = "queued"
                    /\ rows[q].wait = 0
                    /\ ~rows[q].cancel_requested}

Before_CreationOnly(r, s) == r.created <= s.created

\* ORDER BY priority ASC, created_at ASC
Before(r, s) ==
  \/ r.priority < s.priority
  \/ r.priority = s.priority /\ r.created <= s.created

Lease_NoExpiry(w, q) ==
  LET rows == Recovered IN
  /\ q \in Eligible(rows)
  /\ \A r \in Eligible(rows) : Before(rows[q], rows[r])
  /\ jobs' = [rows EXCEPT ![q].status = "running", ![q].leased_by = w,
                          ![q].attempts = @ + 1]
  /\ UNCHANGED failing

\* lease(w) claims q: expired leases are recovered, then the first eligible row
\* is taken, all in one BEGIN IMMEDIATE transaction.
Lease(w, q) ==
  LET rows == Recovered IN
  /\ q \in Eligible(rows)
  /\ \A r \in Eligible(rows) : Before(rows[q], rows[r])
  /\ jobs' = [rows EXCEPT ![q].status = "running", ![q].leased_by = w,
                          ![q].ttl = LeaseTicks, ![q].attempts = @ + 1]
  /\ UNCHANGED failing

\* lease() finds no row; the recovery is committed all the same.
LeaseNothing ==
  /\ Eligible(Recovered) = {}
  /\ jobs' = Recovered
  /\ UNCHANGED failing

OwnedBy(q, w) == jobs[q].status = "running" /\ jobs[q].leased_by = w

Heartbeat(q, w) ==
  /\ OwnedBy(q, w)
  /\ jobs' = [jobs EXCEPT ![q].ttl = LeaseTicks]
  /\ UNCHANGED failing

\* complete(q, w): refused, without an effect, unless w holds the lease.
Complete(q, w) ==
  /\ jobs' = IF OwnedBy(q, w)
             THEN [jobs EXCEPT ![q] = Released(@, "complete", @.wait)] ELSE jobs
  /\ UNCHANGED failing

\* mark_cancelled(q): no condition on the status or on the holder.
MarkCancelled(q) ==
  /\ jobs[q].status # "absent"
  /\ jobs' = [jobs EXCEPT ![q] = Released(@, "cancelled", @.wait)]
  /\ UNCHANGED failing

FailRead_OffByOne(w, q) ==
  /\ failing[w] = Null
  /\ jobs[q].status # "absent"
  /\ failing' = [failing EXCEPT ![w] =
       [id |-> q, terminal |-> jobs[q].attempts > jobs[q].max_attempts]]
  /\ UNCHANGED jobs

\* fail(q) called by w, first statement: the row is read ...
FailRead(w, q) ==
  /\ failing[w] = Null
  /\ jobs[q].status # "absent"
  /\ failing' = [failing EXCEPT ![w] =
       [id |-> q, terminal |-> jobs[q].attempts >= jobs[q].max_attempts]]
  /\ UNCHANGED jobs

\* ... second statement: the row is written, whatever it has become meanwhile.
FailWrite(w, d) ==
  /\ failing[w] # Null
  /\ jobs' = [jobs EXCEPT ![failing[w].id] =
       IF failing[w].terminal THEN Released(@, "failed", 0) ELSE Released(@, "queued", d)]
  /\ failing' = [failing EXCEPT ![w] = Null]

RequestCancel_AlsoRunning(rows) ==
  /\ jobs' = [q \in QueueIds |->
       IF q \in rows /\ jobs[q].status \in {"queued", "running"}
       THEN [jobs[q] EXCEPT !.cancel_requested = TRUE, !.status = "cancelled"]
       ELSE jobs[q]]
  /\ UNCHANGED failing

\* request_cancel on the rows a clause selects.
RequestCancel(rows) ==
  /\ jobs' = [q \in QueueIds |->
       IF q \in rows /\ jobs[q].status \in {"queued", "running"}
       THEN [jobs[q] EXCEPT !.cancel_requested = TRUE,
                            !.status = IF @ = "queued" THEN "cancelled" ELSE @]
       ELSE jobs[q]]
  /\ UNCHANGED failing

RowsOf(l) == {q \in QueueIds : jobs[q].logical_job_id = l}

\* One tick of the wall clock.
Aged(row) ==
  [row EXCEPT !.wait = IF @ > 0 THEN @ - 1 ELSE 0,
              !.ttl = IF @ = Null THEN Null ELSE IF @ > -1 THEN @ - 1 ELSE -1]

Tick ==
  /\ jobs' = [q \in QueueIds |-> Aged(jobs[q])]
  /\ UNCHANGED failing

-----------------------------------------------------------------------------
\* The queue under arbitrary clients: any caller may issue any call at any time.

QueueNext ==
  \/ \E q \in QueueIds, l \in LogicalJobs, p \in Priorities, m \in AttemptLimits,
        d \in Delays : Enqueue(q, l, p, m, d)
  \/ RecoverExpired
  \/ \E w \in Workers, q \in QueueIds : Lease(w, q)
  \/ LeaseNothing
  \/ \E q \in QueueIds, w \in Workers : Heartbeat(q, w)
  \/ \E q \in QueueIds, w \in Workers : Complete(q, w)
  \/ \E q \in QueueIds : MarkCancelled(q)
  \/ \E w \in Workers, q \in QueueIds : FailRead(w, q)
  \/ \E w \in Workers, d \in Delays : FailWrite(w, d)
  \/ \E l \in LogicalJobs : RequestCancel(RowsOf(l))
  \/ \E q \in QueueIds : RequestCancel({q})
  \/ Tick


QueueSpec == QueueInit /\ [][QueueNext]_queueVars

-----------------------------------------------------------------------------
\* Properties.

\* The columns keep their types; max(1, max_attempts) makes every limit positive.
QueueTypeOK ==
  /\ jobs \in [QueueIds -> Row]
  /\ \A q \in QueueIds : jobs[q].max_attempts >= 1
  /\ failing \in [Workers -> {Null} \cup [id: QueueIds, terminal: BOOLEAN]]

\* Whatever sequence of calls is made, exactly the running rows carry a lease:
\* recover_expired, complete, mark_cancelled and fail all clear both lease columns,
\* and lease sets both.  (A running row without an expiry could never be recovered;
\* a finished row with one would be handed out again.)
LeaseShape ==
  \A q \in QueueIds :
    /\ jobs[q].status = "running" <=> jobs[q].leased_by # Null
    /\ jobs[q].status = "running" <=> jobs[q].ttl # Null

\* lease() never moves a row from one worker to another before the first one's
\* lease has run out, recovery and claim being one transaction.
LeaseNeverStolen ==
  [][\A q \in QueueIds :
       (/\ jobs[q].status = "running"
        /\ jobs'[q].status = "running"
        /\ jobs'[q].leased_by # jobs[q].leased_by) => jobs[q].ttl = -1]_queueVars

\* A row whose cancellation was requested is never handed out (again), not even
\* after its lease expired and recovery made it 'queued'.
CancelledNeverLeased ==
  [][\A q \in QueueIds :
       jobs[q].cancel_requested => jobs'[q].attempts = jobs[q].attempts]_queueVars

\* When a row is handed out, no row that comes before it in (priority, creation)
\* order stays behind although it could have been handed out.
LeaseOrder ==
  [][\A q, r \in QueueIds :
       (/\ jobs'[q].attempts > jobs[q].attempts
        /\ r # q /\ r \in Eligible(jobs'))
          => \/ jobs'[q].priority < jobs'[r].priority
             \/ /\ jobs'[q].priority = jobs'[r].priority
                /\ jobs'[q].created < jobs'[r].created]_queueVars
=============================================================================
