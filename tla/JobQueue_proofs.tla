--------------------------- MODULE JobQueue_proofs ---------------------------
(***************************************************************************)
(* Type correctness and the shape of leases, for the queue under arbitrary *)
(* clients and for every value of the constants.  The lemmas say of each   *)
(* operation what it preserves; the worker loop's proofs use them too.     *)
(***************************************************************************)
EXTENDS JobQueue, FiniteSetTheorems, TLAPS

\* A row with a positive limit, never leased if it is absent, which carries a lease
\* exactly while it is running.
GoodRow(row) ==
  /\ row \in Row
  /\ row.max_attempts >= 1
  /\ row.status = "absent" => row.attempts = 0
  /\ row.status = "running" <=> row.leased_by # Null
  /\ row.status = "running" <=> row.ttl # Null

\* The inductive invariant: the table holds good rows only.
QueueInv ==
  /\ jobs \in [QueueIds -> Row]
  /\ \A q \in QueueIds : GoodRow(jobs[q])
  /\ failing \in [Workers -> {Null} \cup [id: QueueIds, terminal: BOOLEAN]]

LEMMA AbsentRowGood == GoodRow(AbsentRow)
  BY NullAssumption DEF GoodRow, AbsentRow, Row, Statuses

\* A row that leaves its lease in a status other than running is good.
LEMMA ReleasedGood ==
  ASSUME NEW row, GoodRow(row), NEW s \in Terminal \cup {"queued"}, NEW n \in Nat
  PROVE GoodRow(Released(row, s, n)) /\ Released(row, s, n).status = s
  BY NullAssumption DEF GoodRow, Released, Row, Statuses, Terminal

\* What lease() writes into a good row.
LEMMA LeasedGood ==
  ASSUME NEW row, GoodRow(row), NEW w \in Workers
  PROVE GoodRow([row EXCEPT !.status = "running", !.leased_by = w,
                            !.ttl = LeaseTicks, !.attempts = @ + 1])
<1> DEFINE new == [row EXCEPT !.status = "running", !.leased_by = w,
                              !.ttl = LeaseTicks, !.attempts = @ + 1]
<1>1. w # Null /\ LeaseTicks # Null /\ LeaseTicks \in -1 .. LeaseTicks
  BY NullAssumption, ParameterAssumption
<1>2. row \in Row /\ row.attempts + 1 \in Nat
  BY DEF GoodRow, Row
<1>3. new \in Row
  BY <1>1, <1>2 DEF Row, Statuses
<1>4. /\ new.status = "running" /\ new.leased_by = w /\ new.ttl = LeaseTicks
      /\ new.max_attempts = row.max_attempts
  BY <1>2 DEF Row
<1>5. QED BY <1>1, <1>3, <1>4 DEF GoodRow

\* The recovered table is a table of good rows in which no lease has expired.
LEMMA RecoveredGood ==
  ASSUME QueueInv
  PROVE /\ Recovered \in [QueueIds -> Row]
        /\ \A q \in QueueIds : GoodRow(Recovered[q])
<1>1. ASSUME NEW q \in QueueIds PROVE GoodRow(Recovered[q])
  <2>1. GoodRow(jobs[q]) BY DEF QueueInv
  <2>2. CASE LeaseExpired(jobs[q])
    BY <2>1, <2>2, ReleasedGood DEF Recovered, Statuses
  <2>3. CASE ~LeaseExpired(jobs[q])
    BY <2>1, <2>3 DEF Recovered
  <2>4. QED BY <2>2, <2>3
<1>2. QED BY <1>1 DEF Recovered, GoodRow

\* The clock changes neither the status nor the holder of a row, nor whether it
\* has an expiry.
LEMMA AgedGood ==
  ASSUME NEW row, GoodRow(row)
  PROVE /\ GoodRow(Aged(row))
        /\ Aged(row).status = row.status /\ Aged(row).leased_by = row.leased_by
<1>1. row \in Row /\ row.wait \in Nat /\ row.ttl \in (-1 .. LeaseTicks) \cup {Null}
  BY DEF GoodRow, Row
<1>2. Null \notin Int /\ LeaseTicks \in Nat
  BY NullAssumption, ParameterAssumption
<1> DEFINE wait == IF row.wait > 0 THEN row.wait - 1 ELSE 0
           ttl == IF row.ttl = Null THEN Null
                  ELSE IF row.ttl > -1 THEN row.ttl - 1 ELSE -1
<1>3. wait \in Nat
  BY <1>1
<1>4. CASE row.ttl = Null
  <2>1. Aged(row) = [row EXCEPT !.wait = wait, !.ttl = Null]
    BY <1>1, <1>4 DEF Aged, Row
  <2> HIDE DEF wait, ttl
  <2>2. Aged(row) = [row EXCEPT !.wait = wait]
    BY <1>1, <1>4, <2>1 DEF Row
  <2>3. QED BY <1>1, <1>3, <2>2 DEF GoodRow, Row
<1>5. CASE row.ttl # Null
  <2>1. ttl \in -1 .. LeaseTicks /\ ttl # Null
    BY <1>1, <1>2, <1>5
  <2>2. Aged(row) = [row EXCEPT !.wait = wait, !.ttl = ttl]
    BY <1>1 DEF Aged, Row
  <2> HIDE DEF wait, ttl
  <2>3. QED BY <1>1, <1>3, <1>5, <2>1, <2>2 DEF GoodRow, Row
<1>6. QED BY <1>4, <1>5

-----------------------------------------------------------------------------
\* What one statement does to the table.

\* An UPDATE or INSERT of one row keeps the invariant if the row it writes is good.
LEMMA RowWritten ==
  ASSUME QueueInv, NEW q \in QueueIds, NEW row, GoodRow(row),
         jobs' = [jobs EXCEPT ![q] = row],
         failing' \in [Workers -> {Null} \cup [id: QueueIds, terminal: BOOLEAN]]
  PROVE QueueInv'
<1>1. row \in Row BY DEF GoodRow
<1>2. jobs' \in [QueueIds -> Row] BY <1>1 DEF QueueInv
<1>3. \A r \in QueueIds : jobs'[r] = IF r = q THEN row ELSE jobs[r]
  BY DEF QueueInv
<1>4. ASSUME NEW r \in QueueIds PROVE GoodRow(jobs'[r])
  <2>1. GoodRow(jobs[r]) BY DEF QueueInv
  <2>2. CASE r = q BY <1>3, <2>2
  <2>3. CASE r # q BY <1>3, <2>1, <2>3
  <2>4. QED BY <2>2, <2>3
<1>5. QED BY <1>2, <1>4 DEF QueueInv, GoodRow

LEMMA QueueInitInv == QueueInit => QueueInv
<1>1. SUFFICES ASSUME QueueInit PROVE QueueInv
  OBVIOUS
<1>2. AbsentRow \in Row
  BY AbsentRowGood DEF GoodRow
<1>3. QED BY <1>1, <1>2, AbsentRowGood DEF QueueInit, QueueInv

LEMMA EnqueueInv ==
  ASSUME QueueInv, NEW q \in QueueIds, NEW l \in LogicalJobs, NEW p \in Nat, NEW m \in Nat,
         NEW d \in Nat, Enqueue(q, l, p, m, d)
  PROVE QueueInv'
<1> DEFINE n == Cardinality(Present)
           row == [AbsentRow EXCEPT !.status = "queued", !.logical_job_id = l,
                                    !.priority = p, !.max_attempts = AtLeastOne(m),
                                    !.wait = d, !.created = n]
<1>1. n \in Nat
  <2>1. Present \subseteq QueueIds
    BY DEF Present
  <2>2. IsFiniteSet(Present)
    BY <2>1, ParameterAssumption, FS_Subset
  <2>3. QED BY <2>2, FS_CardinalityType
<1>2. AtLeastOne(m) \in Nat /\ AtLeastOne(m) >= 1
  BY DEF AtLeastOne
<1>3. jobs' = [jobs EXCEPT ![q] = row] /\ failing' = failing
  BY DEF Enqueue
<1> HIDE DEF n
<1>4. GoodRow(row)
  BY <1>1, <1>2, NullAssumption DEF GoodRow, AbsentRow, Row, Statuses
<1> HIDE DEF row
<1>5. QED BY <1>3, <1>4, RowWritten DEF QueueInv

LEMMA RecoverExpiredInv ==
  ASSUME QueueInv, jobs' = Recovered, failing' = failing
  PROVE QueueInv'
<1>1. Recovered \in [QueueIds -> Row] /\ \A q \in QueueIds : GoodRow(Recovered[q])
  BY RecoveredGood
<1>2. jobs' \in [QueueIds -> Row] /\ \A q \in QueueIds : GoodRow(jobs'[q])
  BY <1>1
<1>3. QED BY <1>2 DEF QueueInv, GoodRow

LEMMA LeaseInv ==
  ASSUME QueueInv, NEW w \in Workers, NEW q \in QueueIds, Lease(w, q)
  PROVE QueueInv'
<1> DEFINE row == [Recovered[q] EXCEPT !.status = "running", !.leased_by = w,
                                       !.ttl = LeaseTicks, !.attempts = @ + 1]
<1>1. Recovered \in [QueueIds -> Row] /\ \A r \in QueueIds : GoodRow(Recovered[r])
  BY RecoveredGood
<1>2. GoodRow(row)
  BY <1>1, LeasedGood
<1>3. jobs' = [Recovered EXCEPT ![q] = row] /\ failing' = failing
  BY <1>1 DEF Lease, Row
<1> HIDE DEF row
<1>4. row \in Row
  BY <1>2 DEF GoodRow
<1>5. jobs' \in [QueueIds -> Row]
  BY <1>1, <1>3, <1>4
<1>6. ASSUME NEW r \in QueueIds PROVE GoodRow(jobs'[r])
  <2>1. CASE r = q
    BY <1>1, <1>2, <1>3, <2>1
  <2>2. CASE r # q
    <3>1. jobs'[r] = Recovered[r]
      BY <1>1, <1>3, <2>2
    <3>2. QED BY <1>1, <3>1
  <2>3. QED BY <2>1, <2>2
<1>7. QED BY <1>3, <1>5, <1>6 DEF QueueInv, GoodRow

LEMMA HeartbeatInv ==
  ASSUME QueueInv, NEW q \in QueueIds, NEW w \in Workers, Heartbeat(q, w)
  PROVE QueueInv'
<1> DEFINE row == [jobs[q] EXCEPT !.ttl = LeaseTicks]
<1>1. GoodRow(jobs[q]) /\ jobs[q] \in Row
  BY DEF QueueInv
<1>2. LeaseTicks # Null /\ LeaseTicks \in -1 .. LeaseTicks
  BY NullAssumption, ParameterAssumption
<1>3. GoodRow(row)
  BY <1>1, <1>2 DEF Heartbeat, OwnedBy, GoodRow, Row
<1>4. jobs' = [jobs EXCEPT ![q] = row] /\ failing' = failing
  BY DEF Heartbeat
<1> HIDE DEF row
<1>5. QED BY <1>3, <1>4, RowWritten DEF QueueInv

LEMMA ReleaseInv ==
  ASSUME QueueInv, NEW q \in QueueIds, NEW s \in Terminal \cup {"queued"}, NEW n \in Nat,
         jobs' = [jobs EXCEPT ![q] = Released(@, s, n)],
         failing' \in [Workers -> {Null} \cup [id: QueueIds, terminal: BOOLEAN]]
  PROVE QueueInv'
<1>1. GoodRow(jobs[q])
  BY DEF QueueInv
<1>2. GoodRow(Released(jobs[q], s, n))
  BY <1>1, ReleasedGood
<1>3. QED BY <1>2, RowWritten DEF QueueInv

LEMMA CompleteInv ==
  ASSUME QueueInv, NEW q \in QueueIds, NEW w \in Workers, Complete(q, w)
  PROVE QueueInv'
<1>1. failing' = failing /\ failing \in [Workers -> {Null} \cup [id: QueueIds, terminal: BOOLEAN]]
  BY DEF Complete, QueueInv
<1>2. CASE OwnedBy(q, w)
  <2>1. jobs[q].wait \in Nat
    BY DEF QueueInv, Row
  <2>2. "complete" \in Terminal \cup {"queued"}
    BY DEF Terminal
  <2>3. jobs' = [jobs EXCEPT ![q] = Released(@, "complete", jobs[q].wait)]
    BY <1>2 DEF Complete
  <2>4. QED BY <1>1, <2>1, <2>2, <2>3, ReleaseInv
<1>3. CASE ~OwnedBy(q, w)
  BY <1>1, <1>3 DEF Complete, QueueInv, GoodRow
<1>4. QED BY <1>2, <1>3

LEMMA MarkCancelledInv ==
  ASSUME QueueInv, NEW q \in QueueIds, MarkCancelled(q)
  PROVE QueueInv'
<1>1. failing' = failing /\ failing \in [Workers -> {Null} \cup [id: QueueIds, terminal: BOOLEAN]]
  BY DEF MarkCancelled, QueueInv
<1>2. jobs[q].wait \in Nat
  BY DEF QueueInv, Row
<1>3. "cancelled" \in Terminal \cup {"queued"}
  BY DEF Terminal
<1>4. jobs' = [jobs EXCEPT ![q] = Released(@, "cancelled", jobs[q].wait)]
  BY DEF MarkCancelled
<1>5. QED BY <1>1, <1>2, <1>3, <1>4, ReleaseInv

LEMMA FailReadInv ==
  ASSUME QueueInv, NEW w \in Workers, NEW q \in QueueIds, FailRead(w, q)
  PROVE QueueInv'
<1>1. (jobs[q].attempts >= jobs[q].max_attempts) \in BOOLEAN
  BY DEF QueueInv, Row
<1>2. failing' \in [Workers -> {Null} \cup [id: QueueIds, terminal: BOOLEAN]]
  BY <1>1 DEF FailRead, QueueInv
<1>3. jobs' = jobs
  BY DEF FailRead
<1>4. QED BY <1>2, <1>3 DEF QueueInv, GoodRow

LEMMA FailWriteInv ==
  ASSUME QueueInv, NEW w \in Workers, NEW d \in Nat, FailWrite(w, d)
  PROVE QueueInv'
<1>1. failing' \in [Workers -> {Null} \cup [id: QueueIds, terminal: BOOLEAN]]
  BY DEF FailWrite, QueueInv
<1>2. failing[w].id \in QueueIds
  BY DEF FailWrite, QueueInv
<1>3. /\ "failed" \in Terminal \cup {"queued"} /\ "queued" \in Terminal \cup {"queued"}
      /\ 0 \in Nat
  BY DEF Terminal
<1>4. CASE failing[w].terminal
  <2>1. jobs' = [jobs EXCEPT ![failing[w].id] = Released(@, "failed", 0)]
    BY <1>4 DEF FailWrite
  <2>2. QED BY <1>1, <1>2, <1>3, <2>1, ReleaseInv
<1>5. CASE ~failing[w].terminal
  <2>1. jobs' = [jobs EXCEPT ![failing[w].id] = Released(@, "queued", d)]
    BY <1>5 DEF FailWrite
  <2>2. QED BY <1>1, <1>2, <1>3, <2>1, ReleaseInv
<1>6. QED BY <1>4, <1>5

LEMMA RequestCancelInv ==
  ASSUME QueueInv, NEW rows \in SUBSET QueueIds, RequestCancel(rows)
  PROVE QueueInv'
<1>1. ASSUME NEW q \in QueueIds PROVE GoodRow(jobs'[q])
  <2>1. GoodRow(jobs[q])
    BY DEF QueueInv
  <2>2. CASE q \in rows /\ jobs[q].status = "queued"
    <3>1. jobs'[q] = [jobs[q] EXCEPT !.cancel_requested = TRUE, !.status = "cancelled"]
      BY <2>1, <2>2 DEF RequestCancel, GoodRow, Row
    <3>2. QED BY <2>1, <2>2, <3>1 DEF GoodRow, Row, Statuses
  <2>3. CASE q \in rows /\ jobs[q].status = "running"
    <3>1. jobs'[q] = [jobs[q] EXCEPT !.cancel_requested = TRUE]
      BY <2>1, <2>3 DEF RequestCancel, GoodRow, Row
    <3>2. QED BY <2>1, <2>3, <3>1 DEF GoodRow, Row, Statuses
  <2>4. CASE ~(q \in rows /\ jobs[q].status \in {"queued", "running"})
    BY <2>1, <2>4 DEF RequestCancel
  <2>5. QED BY <2>2, <2>3, <2>4
<1>2. jobs' \in [QueueIds -> Row]
  <2>1. \A q \in QueueIds : jobs'[q] \in Row
    BY <1>1 DEF GoodRow
  <2>2. jobs' = [q \in QueueIds |-> jobs'[q]]
    BY DEF RequestCancel
  <2>3. QED BY <2>1, <2>2
<1>3. failing' = failing
  BY DEF RequestCancel
<1>4. QED BY <1>1, <1>2, <1>3 DEF QueueInv, GoodRow

LEMMA TickInv ==
  ASSUME QueueInv, Tick
  PROVE QueueInv'
<1>1. ASSUME NEW q \in QueueIds PROVE GoodRow(jobs'[q])
  BY AgedGood DEF Tick, QueueInv
<1>2. jobs' \in [QueueIds -> Row]
  <2>1. \A q \in QueueIds : Aged(jobs[q]) \in Row
    BY AgedGood DEF QueueInv, GoodRow
  <2>2. QED BY <2>1 DEF Tick
<1>3. QED BY <1>1, <1>2 DEF Tick, QueueInv, GoodRow

-----------------------------------------------------------------------------
\* The theorems.

LEMMA QueueNextInv == QueueInv /\ [QueueNext]_queueVars => QueueInv'
<1>1. SUFFICES ASSUME QueueInv, [QueueNext]_queueVars PROVE QueueInv'
  OBVIOUS
<1>2. ASSUME NEW q \in QueueIds, NEW l \in LogicalJobs, NEW p \in Priorities,
             NEW m \in AttemptLimits, NEW d \in Delays, Enqueue(q, l, p, m, d)
      PROVE QueueInv'
  <2>1. p \in Nat /\ m \in Nat /\ d \in Nat
    BY ParameterAssumption
  <2>2. QED BY <1>1, <1>2, <2>1, EnqueueInv
<1>3. CASE RecoverExpired
  BY <1>1, <1>3, RecoverExpiredInv DEF RecoverExpired
<1>4. ASSUME NEW w \in Workers, NEW q \in QueueIds, Lease(w, q) PROVE QueueInv'
  BY <1>1, <1>4, LeaseInv
<1>5. CASE LeaseNothing
  BY <1>1, <1>5, RecoverExpiredInv DEF LeaseNothing
<1>6. ASSUME NEW q \in QueueIds, NEW w \in Workers, Heartbeat(q, w) PROVE QueueInv'
  BY <1>1, <1>6, HeartbeatInv
<1>7. ASSUME NEW q \in QueueIds, NEW w \in Workers, Complete(q, w) PROVE QueueInv'
  BY <1>1, <1>7, CompleteInv
<1>8. ASSUME NEW q \in QueueIds, MarkCancelled(q) PROVE QueueInv'
  BY <1>1, <1>8, MarkCancelledInv
<1>9. ASSUME NEW w \in Workers, NEW q \in QueueIds, FailRead(w, q) PROVE QueueInv'
  BY <1>1, <1>9, FailReadInv
<1>10. ASSUME NEW w \in Workers, NEW d \in Delays, FailWrite(w, d) PROVE QueueInv'
  <2>1. d \in Nat
    BY ParameterAssumption
  <2>2. QED BY <1>1, <1>10, <2>1, FailWriteInv
<1>11. ASSUME NEW l \in LogicalJobs, RequestCancel(RowsOf(l)) PROVE QueueInv'
  <2>1. RowsOf(l) \in SUBSET QueueIds
    BY DEF RowsOf
  <2>2. QED BY <1>1, <1>11, <2>1, RequestCancelInv
<1>12. ASSUME NEW q \in QueueIds, RequestCancel({q}) PROVE QueueInv'
  <2>1. {q} \in SUBSET QueueIds
    OBVIOUS
  <2>2. QED BY <1>1, <1>12, <2>1, RequestCancelInv
<1>13. CASE Tick
  BY <1>1, <1>13, TickInv
<1>14. CASE UNCHANGED queueVars
  BY <1>1, <1>14 DEF queueVars, QueueInv, GoodRow
<1>15. QED
  BY <1>1, <1>2, <1>3, <1>4, <1>5, <1>6, <1>7, <1>8, <1>9, <1>10, <1>11, <1>12,
     <1>13, <1>14 DEF QueueNext

\* The invariant holds whatever calls the clients make.
THEOREM QueueInvariant == QueueSpec => []QueueInv
<1>1. QED BY QueueInitInv, QueueNextInv, PTL DEF QueueSpec

\* Every column of the table keeps its type under every sequence of calls.
THEOREM QueueTypeCorrect == QueueSpec => []QueueTypeOK
<1>1. QueueInv => QueueTypeOK
  BY DEF QueueInv, QueueTypeOK, GoodRow
<1>2. QED BY <1>1, QueueInvariant, PTL

\* The running rows, and only they, carry a holder and an expiry: no call of
\* SQLiteJobQueue leaves a half-released lease behind.
THEOREM LeasesAreWellShaped == QueueSpec => []LeaseShape
<1>1. QueueInv => LeaseShape
  BY DEF QueueInv, LeaseShape, GoodRow
<1>2. QED BY <1>1, QueueInvariant, PTL

-----------------------------------------------------------------------------
\* Who holds a row after a step.

\* The step hands row q to nobody: it counts no attempt, and if q is leased
\* afterwards, it was leased before, to the same worker.
Kept(q) ==
  /\ jobs'[q].attempts = jobs[q].attempts
  /\ jobs'[q].status = "running" =>
       jobs[q].status = "running" /\ jobs'[q].leased_by = jobs[q].leased_by

\* Recovery returns expired rows to the queue and leaves the others as they are.
LEMMA RecoveredKept ==
  ASSUME QueueInv, NEW q \in QueueIds
  PROVE /\ Recovered[q].attempts = jobs[q].attempts
        /\ Recovered[q].cancel_requested = jobs[q].cancel_requested
        /\ LeaseExpired(jobs[q]) => Recovered[q].status = "queued"
        /\ ~LeaseExpired(jobs[q]) => Recovered[q] = jobs[q]
<1>1. jobs[q] \in Row
  BY DEF QueueInv
<1>2. QED BY <1>1 DEF Recovered, Released, Row

LEMMA RecoverKeeps ==
  ASSUME QueueInv, jobs' = Recovered, NEW q \in QueueIds
  PROVE Kept(q)
BY RecoveredKept DEF Kept

LEMMA EnqueueKeeps ==
  ASSUME QueueInv, NEW q \in QueueIds, NEW l, NEW p, NEW m, NEW d,
         Enqueue(q, l, p, m, d), NEW r \in QueueIds
  PROVE Kept(r)
<1>1. jobs[q].attempts = 0
  BY DEF QueueInv, GoodRow, Enqueue
<1>2. CASE r = q
  BY <1>1, <1>2 DEF Kept, Enqueue, AbsentRow, QueueInv
<1>3. CASE r # q
  BY <1>3 DEF Kept, Enqueue, QueueInv
<1>4. QED BY <1>2, <1>3

LEMMA ReleaseKeeps ==
  ASSUME QueueInv, NEW q \in QueueIds, NEW s \in Terminal \cup {"queued"}, NEW n,
         jobs' = [jobs EXCEPT ![q] = Released(@, s, n)], NEW r \in QueueIds
  PROVE Kept(r)
<1>1. jobs[q] \in Row /\ s # "running"
  BY DEF QueueInv, Terminal
<1>2. CASE r = q
  BY <1>1, <1>2 DEF Kept, Released, QueueInv, Row
<1>3. CASE r # q
  BY <1>3 DEF Kept, QueueInv
<1>4. QED BY <1>2, <1>3

LEMMA CompleteKeeps ==
  ASSUME QueueInv, NEW q \in QueueIds, NEW w, Complete(q, w), NEW r \in QueueIds
  PROVE Kept(r)
<1>1. "complete" \in Terminal \cup {"queued"}
  BY DEF Terminal
<1>2. CASE OwnedBy(q, w)
  <2>1. jobs' = [jobs EXCEPT ![q] = Released(@, "complete", jobs[q].wait)]
    BY <1>2 DEF Complete
  <2>2. QED BY <1>1, <2>1, ReleaseKeeps
<1>3. CASE ~OwnedBy(q, w)
  BY <1>3 DEF Complete, Kept
<1>4. QED BY <1>2, <1>3

LEMMA MarkCancelledKeeps ==
  ASSUME QueueInv, NEW q \in QueueIds, MarkCancelled(q), NEW r \in QueueIds
  PROVE Kept(r)
<1>1. "cancelled" \in Terminal \cup {"queued"}
  BY DEF Terminal
<1>2. jobs' = [jobs EXCEPT ![q] = Released(@, "cancelled", jobs[q].wait)]
  BY DEF MarkCancelled
<1>3. QED BY <1>1, <1>2, ReleaseKeeps

LEMMA FailWriteKeeps ==
  ASSUME QueueInv, NEW w \in Workers, NEW d, FailWrite(w, d), NEW r \in QueueIds
  PROVE Kept(r)
<1>1. failing[w].id \in QueueIds
  BY DEF FailWrite, QueueInv
<1>2. "failed" \in Terminal \cup {"queued"} /\ "queued" \in Terminal \cup {"queued"}
  BY DEF Terminal
<1>3. CASE failing[w].terminal
  <2>1. jobs' = [jobs EXCEPT ![failing[w].id] = Released(@, "failed", 0)]
    BY <1>3 DEF FailWrite
  <2>2. QED BY <1>1, <1>2, <2>1, ReleaseKeeps
<1>4. CASE ~failing[w].terminal
  <2>1. jobs' = [jobs EXCEPT ![failing[w].id] = Released(@, "queued", d)]
    BY <1>4 DEF FailWrite
  <2>2. QED BY <1>1, <1>2, <2>1, ReleaseKeeps
<1>5. QED BY <1>3, <1>4

LEMMA HeartbeatKeeps ==
  ASSUME QueueInv, NEW q \in QueueIds, NEW w, Heartbeat(q, w), NEW r \in QueueIds
  PROVE Kept(r)
<1>1. jobs[q] \in Row
  BY DEF QueueInv
<1>2. CASE r = q
  BY <1>1, <1>2 DEF Heartbeat, Kept, QueueInv, Row
<1>3. CASE r # q
  BY <1>3 DEF Heartbeat, Kept, QueueInv
<1>4. QED BY <1>2, <1>3

LEMMA RequestCancelKeeps ==
  ASSUME QueueInv, NEW rows, RequestCancel(rows), NEW q \in QueueIds
  PROVE Kept(q)
<1>1. jobs[q] \in Row
  BY DEF QueueInv
<1>2. QED BY <1>1 DEF RequestCancel, Kept, Row

LEMMA TickKeeps ==
  ASSUME QueueInv, Tick, NEW q \in QueueIds
  PROVE Kept(q)
<1>1. jobs[q] \in Row
  BY DEF QueueInv
<1>2. QED BY <1>1 DEF Tick, Aged, Kept, Row

\* lease() claims one row, which was queued or whose lease had run out, and whose
\* cancellation nobody had requested; it hands out no other.
LEMMA LeaseClaims ==
  ASSUME QueueInv, NEW w \in Workers, NEW q \in QueueIds, Lease(w, q), NEW r \in QueueIds
  PROVE IF r = q
        THEN /\ ~jobs[q].cancel_requested
             /\ jobs[q].status = "queued" \/ LeaseExpired(jobs[q])
             /\ jobs'[q] = [Recovered[q] EXCEPT !.status = "running", !.leased_by = w,
                              !.ttl = LeaseTicks, !.attempts = @ + 1]
        ELSE Kept(r) /\ jobs'[r] = Recovered[r]
<1>1. Recovered \in [QueueIds -> Row]
  BY RecoveredGood
<1>2. CASE r = q
  <2>1. ~Recovered[q].cancel_requested /\ Recovered[q].status = "queued"
    BY DEF Lease, Eligible
  <2>2. jobs'[q] = [Recovered[q] EXCEPT !.status = "running", !.leased_by = w,
                      !.ttl = LeaseTicks, !.attempts = @ + 1]
    BY <1>1 DEF Lease, Row
  <2>3. QED BY <1>2, <2>1, <2>2, RecoveredKept
<1>3. CASE r # q
  <2>1. jobs'[r] = Recovered[r]
    BY <1>1, <1>3 DEF Lease
  <2>2. QED BY <1>3, <2>1, RecoveredKept DEF Kept
<1>4. QED BY <1>2, <1>3

\* A step of the queue keeps every row, or is a lease.
LEMMA QueueNextKeeps ==
  ASSUME QueueInv, [QueueNext]_queueVars, NEW q \in QueueIds,
         ~ \E w \in Workers, r \in QueueIds : Lease(w, r)
  PROVE Kept(q)
<1>1. CASE RecoverExpired \/ LeaseNothing
  BY <1>1, RecoverKeeps DEF RecoverExpired, LeaseNothing
<1>2. CASE \E w \in Workers, r \in QueueIds : FailRead(w, r)
  BY <1>2 DEF FailRead, Kept
<1>3. CASE UNCHANGED queueVars
  BY <1>3 DEF queueVars, Kept
<1>4. CASE \E r \in QueueIds, l \in LogicalJobs, p \in Priorities, m \in AttemptLimits,
              d \in Delays : Enqueue(r, l, p, m, d)
  BY <1>4, EnqueueKeeps
<1>5. CASE \E r \in QueueIds, w \in Workers : Heartbeat(r, w) \/ Complete(r, w)
  BY <1>5, HeartbeatKeeps, CompleteKeeps
<1>6. CASE \E r \in QueueIds : MarkCancelled(r)
  BY <1>6, MarkCancelledKeeps
<1>7. CASE \E w \in Workers, d \in Delays : FailWrite(w, d)
  BY <1>7, FailWriteKeeps
<1>8. CASE \E rows \in SUBSET QueueIds : RequestCancel(rows)
  BY <1>8, RequestCancelKeeps
<1>9. CASE Tick
  BY <1>9, TickKeeps
<1>10. (\E l \in LogicalJobs : RequestCancel(RowsOf(l)))
         \/ (\E r \in QueueIds : RequestCancel({r}))
       => \E rows \in SUBSET QueueIds : RequestCancel(rows)
  BY DEF RowsOf
<1>11. QED
  BY <1>1, <1>2, <1>3, <1>4, <1>5, <1>6, <1>7, <1>8, <1>9, <1>10 DEF QueueNext

\* No call sequence hands out a row whose cancellation was requested, in
\* particular not after its holder crashed and recovery put it back in the queue.
THEOREM CancelledIsNeverLeased == QueueSpec => CancelledNeverLeased
<1>1. ASSUME QueueInv, [QueueNext]_queueVars, NEW q \in QueueIds, jobs[q].cancel_requested
      PROVE jobs'[q].attempts = jobs[q].attempts
  <2>1. CASE \E w \in Workers, r \in QueueIds : Lease(w, r)
    <3>1. PICK w \in Workers, r \in QueueIds : Lease(w, r)
      BY <2>1
    <3>2. QED BY <1>1, <3>1, LeaseClaims DEF Kept
  <2>2. CASE ~ \E w \in Workers, r \in QueueIds : Lease(w, r)
    BY <1>1, <2>2, QueueNextKeeps DEF Kept
  <2>3. QED BY <2>1, <2>2
<1>2. QueueInv /\ [QueueNext]_queueVars =>
        [\A q \in QueueIds : jobs[q].cancel_requested
                               => jobs'[q].attempts = jobs[q].attempts]_queueVars
  BY <1>1
<1>3. QED BY <1>2, QueueInvariant, PTL DEF QueueSpec, CancelledNeverLeased

\* A row changes hands only after its holder's lease has run out.
THEOREM LeaseIsNeverStolen == QueueSpec => LeaseNeverStolen
<1>1. ASSUME QueueInv, [QueueNext]_queueVars, NEW q \in QueueIds,
             jobs[q].status = "running", jobs'[q].status = "running",
             jobs'[q].leased_by # jobs[q].leased_by
      PROVE jobs[q].ttl = -1
  <2>1. PICK w \in Workers, r \in QueueIds : Lease(w, r)
    BY <1>1, QueueNextKeeps DEF Kept
  <2>2. r = q /\ LeaseExpired(jobs[q])
    BY <1>1, <2>1, LeaseClaims DEF Kept
  <2>3. jobs[q].ttl \in (-1 .. LeaseTicks) \cup {Null}
    BY <1>1 DEF QueueInv, Row
  <2>4. jobs[q].ttl # Null /\ jobs[q].ttl < 0
    BY <2>2 DEF LeaseExpired
  <2>5. jobs[q].ttl \in -1 .. LeaseTicks
    BY <2>3, <2>4
  <2>6. QED BY <2>4, <2>5, ParameterAssumption
<1>2. QueueInv /\ [QueueNext]_queueVars =>
        [\A q \in QueueIds :
           (/\ jobs[q].status = "running"
            /\ jobs'[q].status = "running"
            /\ jobs'[q].leased_by # jobs[q].leased_by) => jobs[q].ttl = -1]_queueVars
  BY <1>1
<1>3. QED BY <1>2, QueueInvariant, PTL DEF QueueSpec, LeaseNeverStolen

-----------------------------------------------------------------------------
\* The order of the rows.

\* The rows of the table were created one after the other.
CreatedInOrder ==
  /\ \A q \in Present : jobs[q].created < Cardinality(Present)
  /\ \A q, r \in Present : q # r => jobs[q].created # jobs[r].created

LEMMA PresentIsFinite ==
  /\ IsFiniteSet(Present)
  /\ Cardinality(Present) \in Nat
<1>1. Present \subseteq QueueIds
  BY DEF Present
<1>2. IsFiniteSet(Present)
  BY <1>1, ParameterAssumption, FS_Subset
<1>3. QED BY <1>2, FS_CardinalityType

\* The step neither inserts row q nor changes when it was created.
Dated(q) ==
  /\ jobs'[q].status = "absent" <=> jobs[q].status = "absent"
  /\ jobs'[q].created = jobs[q].created

\* A row that is written with the same creation date and stays present is dated.
LEMMA WrittenDated ==
  ASSUME QueueInv, NEW q \in QueueIds, NEW row, jobs' = [jobs EXCEPT ![q] = row],
         row.created = jobs[q].created,
         row.status = "absent" <=> jobs[q].status = "absent", NEW r \in QueueIds
  PROVE Dated(r)
<1>1. jobs'[r] = IF r = q THEN row ELSE jobs[r]
  BY DEF QueueInv
<1>2. QED BY <1>1 DEF Dated

LEMMA ReleasedDated ==
  ASSUME QueueInv, NEW q \in QueueIds, jobs[q].status # "absent",
         NEW s \in Terminal \cup {"queued"}, NEW n,
         jobs' = [jobs EXCEPT ![q] = Released(@, s, n)], NEW r \in QueueIds
  PROVE Dated(r)
<1> DEFINE row == Released(jobs[q], s, n)
<1>1. jobs[q] \in Row /\ s # "absent"
  BY DEF QueueInv, Terminal
<1>2. row.created = jobs[q].created /\ row.status = s
  BY <1>1 DEF Released, Row
<1>3. jobs' = [jobs EXCEPT ![q] = row]
  OBVIOUS
<1> HIDE DEF row
<1>4. QED BY <1>1, <1>2, <1>3, WrittenDated

LEMMA RecoveredDated ==
  ASSUME QueueInv, NEW q \in QueueIds
  PROVE /\ Recovered[q].status = "absent" <=> jobs[q].status = "absent"
        /\ Recovered[q].created = jobs[q].created
        /\ Recovered[q].priority = jobs[q].priority
<1>1. jobs[q] \in Row
  BY DEF QueueInv
<1>2. QED BY <1>1 DEF Recovered, LeaseExpired, Released, Row

\* No row that fail() has read is absent.
FailingPresent == \A w \in Workers : failing[w] # Null => failing[w].id \in Present

\* The table only grows, and each call inserts one row at most.
LEMMA QueueNextDates ==
  ASSUME QueueInv, FailingPresent, [QueueNext]_queueVars, NEW r \in QueueIds,
         ~ \E q \in QueueIds, l \in LogicalJobs, p \in Priorities, m \in AttemptLimits,
              d \in Delays : Enqueue(q, l, p, m, d)
  PROVE Dated(r)
<1>0. jobs[r] \in Row
  BY DEF QueueInv
<1>1. CASE RecoverExpired \/ LeaseNothing
  BY <1>1, RecoveredDated DEF RecoverExpired, LeaseNothing, Dated
<1>2. ASSUME NEW w \in Workers, NEW q \in QueueIds, Lease(w, q) PROVE Dated(r)
  <2>1. \/ jobs'[r] = Recovered[r]
        \/ /\ r = q
           /\ jobs'[r] = [Recovered[q] EXCEPT !.status = "running", !.leased_by = w,
                                              !.ttl = LeaseTicks, !.attempts = @ + 1]
    BY <1>2, LeaseClaims
  <2>2. Recovered[r] \in Row
    BY RecoveredGood
  <2>3. r = q => jobs[q].status # "absent"
    BY <1>2, LeaseClaims DEF LeaseExpired
  <2>4. jobs'[r].created = Recovered[r].created
    <3>1. CASE jobs'[r] = Recovered[r]
      BY <3>1
    <3>2. CASE jobs'[r] # Recovered[r]
      <4>1. [Recovered[r] EXCEPT !.status = "running", !.leased_by = w,
                                 !.ttl = LeaseTicks, !.attempts = @ + 1].created
              = Recovered[r].created
        BY <2>2 DEF Row
      <4> QED
        BY <2>1, <3>2, <4>1
    <3> QED
      BY <3>1, <3>2
  <2>5. r # q => jobs'[r].status = Recovered[r].status
    BY <2>1
  <2>6. r = q => jobs'[r].status # "absent"
    BY <2>1, <2>2, <2>3, RecoveredDated DEF Row
  <2>7. QED BY <2>3, <2>4, <2>5, <2>6, RecoveredDated DEF Dated
<1>3. ASSUME NEW w \in Workers, NEW q \in QueueIds, FailRead(w, q) \/ Heartbeat(q, w) \/ Complete(q, w)
      PROVE Dated(r)
  <2>1. jobs[q] \in Row
    BY DEF QueueInv
  <2>2. CASE FailRead(w, q) \/ (Complete(q, w) /\ ~OwnedBy(q, w))
    BY <2>2 DEF FailRead, Complete, Dated
  <2>3. CASE Heartbeat(q, w)
    <3> DEFINE row == [jobs[q] EXCEPT !.ttl = LeaseTicks]
    <3>1. jobs' = [jobs EXCEPT ![q] = row]
      BY <2>3 DEF Heartbeat
    <3>2. row.created = jobs[q].created /\ row.status = jobs[q].status
      BY <2>1 DEF Row
    <3> HIDE DEF row
    <3>3. QED BY <3>1, <3>2, WrittenDated
  <2>4. CASE Complete(q, w) /\ OwnedBy(q, w)
    <3>1. jobs' = [jobs EXCEPT ![q] = Released(@, "complete", jobs[q].wait)]
      BY <2>4 DEF Complete
    <3>2. jobs[q].status # "absent" /\ "complete" \in Terminal \cup {"queued"}
      BY <2>4 DEF OwnedBy, Terminal
    <3>3. QED BY <3>1, <3>2, ReleasedDated
  <2>5. QED BY <1>3, <2>2, <2>3, <2>4
<1>4. ASSUME NEW q \in QueueIds, MarkCancelled(q) PROVE Dated(r)
  <2>1. jobs' = [jobs EXCEPT ![q] = Released(@, "cancelled", jobs[q].wait)]
    BY <1>4 DEF MarkCancelled
  <2>2. jobs[q].status # "absent" /\ "cancelled" \in Terminal \cup {"queued"}
    BY <1>4 DEF MarkCancelled, Terminal
  <2>3. QED BY <2>1, <2>2, ReleasedDated
<1>5. ASSUME NEW w \in Workers, NEW d \in Delays, FailWrite(w, d) PROVE Dated(r)
  <2>1. failing[w].id \in QueueIds /\ jobs[failing[w].id].status # "absent"
    BY <1>5 DEF FailWrite, FailingPresent, Present
  <2>2. "failed" \in Terminal \cup {"queued"} /\ "queued" \in Terminal \cup {"queued"}
    BY DEF Terminal
  <2>3. CASE failing[w].terminal
    <3>1. jobs' = [jobs EXCEPT ![failing[w].id] = Released(@, "failed", 0)]
      BY <1>5, <2>3 DEF FailWrite
    <3>2. QED BY <2>1, <2>2, <3>1, ReleasedDated
  <2>4. CASE ~failing[w].terminal
    <3>1. jobs' = [jobs EXCEPT ![failing[w].id] = Released(@, "queued", d)]
      BY <1>5, <2>4 DEF FailWrite
    <3>2. QED BY <2>1, <2>2, <3>1, ReleasedDated
  <2>5. QED BY <2>3, <2>4
<1>6. CASE \/ \E l \in LogicalJobs : RequestCancel(RowsOf(l))
           \/ \E q \in QueueIds : RequestCancel({q})
  BY <1>0, <1>6 DEF RequestCancel, Dated, Row
<1>7. CASE Tick
  BY <1>0, <1>7 DEF Tick, Aged, Dated, Row
<1>8. CASE UNCHANGED queueVars
  BY <1>8 DEF queueVars, Dated
<1>9. QED
  BY <1>1, <1>2, <1>3, <1>4, <1>5, <1>6, <1>7, <1>8 DEF QueueNext

LEMMA FailingStaysPresent ==
  ASSUME QueueInv, FailingPresent, [QueueNext]_queueVars, Present \subseteq Present'
  PROVE FailingPresent'
<1> SUFFICES ASSUME NEW w \in Workers, failing'[w] # Null
             PROVE failing'[w].id \in Present'
  BY DEF FailingPresent
<1>1. CASE failing'[w] = failing[w]
  BY <1>1 DEF FailingPresent
<1>2. CASE \E v \in Workers, q \in QueueIds : FailRead(v, q)
  <2>1. PICK v \in Workers, q \in QueueIds : FailRead(v, q)
    BY <1>2
  <2>2. failing'[w] = failing[w] \/ failing'[w].id = q
    BY <2>1 DEF FailRead, QueueInv
  <2>3. q \in Present
    BY <2>1 DEF FailRead, Present
  <2>4. QED BY <1>1, <2>2, <2>3
<1>3. CASE \E v \in Workers, d \in Delays : FailWrite(v, d)
  <2>1. failing'[w] = failing[w] \/ failing'[w] = Null
    BY <1>3 DEF FailWrite, QueueInv
  <2>2. QED BY <1>1, <2>1
<1>4. QED
  BY <1>1, <1>2, <1>3
     DEF QueueNext, Enqueue, RecoverExpired, Lease, LeaseNothing, Heartbeat, Complete,
         MarkCancelled, RequestCancel, Tick, queueVars

\* Rows are dated one after the other.
LEMMA CreatedInOrderKept ==
  ASSUME QueueInv, FailingPresent, CreatedInOrder, [QueueNext]_queueVars
  PROVE CreatedInOrder' /\ FailingPresent'
<1>1. CASE \E q \in QueueIds, l \in LogicalJobs, p \in Priorities, m \in AttemptLimits,
              d \in Delays : Enqueue(q, l, p, m, d)
  <2>1. PICK q \in QueueIds, l \in LogicalJobs, p \in Priorities, m \in AttemptLimits,
             d \in Delays : Enqueue(q, l, p, m, d)
    BY <1>1
  <2> DEFINE n == Cardinality(Present)
  <2>2. jobs'[q].status = "queued" /\ jobs'[q].created = n
    BY <2>1 DEF Enqueue, AbsentRow, QueueInv
  <2>3. \A r \in QueueIds : r # q => jobs'[r] = jobs[r]
    BY <2>1 DEF Enqueue, QueueInv
  <2>4. q \notin Present /\ Present' = Present \cup {q}
    BY <2>1, <2>2, <2>3 DEF Enqueue, Present
  <2>5. n \in Nat /\ Cardinality(Present') = n + 1
    BY <2>4, PresentIsFinite, FS_AddElement
  <2>6. \A r \in Present : jobs'[r] = jobs[r] /\ jobs[r].created \in Nat /\ jobs[r].created < n
    BY <2>3, <2>4 DEF CreatedInOrder, Present, QueueInv, Row
  <2> HIDE DEF n
  <2>7. CreatedInOrder'
    <3>1. \A r \in Present' : jobs'[r].created < n + 1
      BY <2>2, <2>4, <2>5, <2>6
    <3>2. ASSUME NEW r \in Present', NEW t \in Present', r # t
          PROVE jobs'[r].created # jobs'[t].created
      <4>1. CASE r # q /\ t # q
        BY <2>4, <2>6, <3>2, <4>1 DEF CreatedInOrder
      <4>2. CASE r = q \/ t = q
        BY <2>2, <2>4, <2>5, <2>6, <3>2, <4>2
      <4>3. QED BY <4>1, <4>2
    <3>3. QED BY <2>5, <3>1, <3>2 DEF CreatedInOrder
  <2>8. QED BY <2>4, <2>7, FailingStaysPresent
<1>2. CASE ~ \E q \in QueueIds, l \in LogicalJobs, p \in Priorities, m \in AttemptLimits,
                d \in Delays : Enqueue(q, l, p, m, d)
  <2>1. \A r \in QueueIds : Dated(r)
    BY <1>2, QueueNextDates
  <2>2. Present' = Present /\ \A r \in Present : jobs'[r].created = jobs[r].created
    BY <2>1 DEF Present, Dated
  <2>3. QED BY <2>2, FailingStaysPresent DEF CreatedInOrder
<1>3. QED BY <1>1, <1>2

LEMMA OrderInvariant == QueueSpec => [](QueueInv /\ FailingPresent /\ CreatedInOrder)
<1>1. QueueInit => QueueInv /\ FailingPresent /\ CreatedInOrder
  BY QueueInitInv DEF QueueInit, FailingPresent, CreatedInOrder, Present, AbsentRow
<1>2. /\ QueueInv /\ FailingPresent /\ CreatedInOrder
      /\ [QueueNext]_queueVars
      => (QueueInv /\ FailingPresent /\ CreatedInOrder)'
  BY QueueNextInv, CreatedInOrderKept
<1>3. QED BY <1>1, <1>2, PTL DEF QueueSpec

\* A row that is handed out comes before every row that stays behind.
LEMMA LeaseTakesFirst ==
  ASSUME QueueInv, CreatedInOrder, [QueueNext]_queueVars,
         NEW q \in QueueIds, NEW r \in QueueIds,
         jobs'[q].attempts > jobs[q].attempts, r # q, r \in Eligible(jobs')
  PROVE \/ jobs'[q].priority < jobs'[r].priority
        \/ /\ jobs'[q].priority = jobs'[r].priority
           /\ jobs'[q].created < jobs'[r].created
<1>1. jobs[q].attempts \in Nat
  BY DEF QueueInv, Row
<1>2. ~Kept(q)
  BY <1>1 DEF Kept
<1>3. PICK w \in Workers, t \in QueueIds : Lease(w, t)
  BY <1>2, QueueNextKeeps
<1>4. t = q
  BY <1>2, <1>3, LeaseClaims
<1>5. Lease(w, q)
  BY <1>3, <1>4
<1>6. jobs'[r] = Recovered[r]
  BY <1>5, LeaseClaims
<1>7. Recovered[q] \in Row /\ Recovered[r] \in Row
  BY RecoveredGood
<1>8. jobs'[q].priority = Recovered[q].priority /\ jobs'[q].created = Recovered[q].created
  <2>1. jobs'[q] = [Recovered[q] EXCEPT !.status = "running", !.leased_by = w,
                      !.ttl = LeaseTicks, !.attempts = @ + 1]
    BY <1>5, LeaseClaims
  <2>2. QED BY <1>7, <2>1 DEF Row
<1>9. r \in Eligible(Recovered)
  BY <1>6 DEF Eligible
<1>10. Before(Recovered[q], Recovered[r]) /\ q \in Eligible(Recovered)
  BY <1>5, <1>9 DEF Lease
<1>11. q \in Present /\ r \in Present
  BY <1>9, <1>10, RecoveredDated DEF Eligible, Present
<1>12. Recovered[q].created # Recovered[r].created
  BY <1>11, RecoveredDated DEF CreatedInOrder, Present
<1>13. QED
  BY <1>6, <1>7, <1>8, <1>10, <1>12 DEF Before, Row

\* The queue hands rows out in (priority, creation) order among those that may be
\* handed out: the ORDER BY of lease() over a table whose rows differ in their date.
THEOREM LeasesFollowTheOrder == QueueSpec => LeaseOrder
<1>1. QueueInv /\ CreatedInOrder /\ [QueueNext]_queueVars =>
        [\A q, r \in QueueIds :
           (/\ jobs'[q].attempts > jobs[q].attempts
            /\ r # q /\ r \in Eligible(jobs'))
              => \/ jobs'[q].priority < jobs'[r].priority
                 \/ /\ jobs'[q].priority = jobs'[r].priority
                    /\ jobs'[q].created < jobs'[r].created]_queueVars
  BY LeaseTakesFirst
<1>2. QED BY <1>1, OrderInvariant, PTL DEF QueueSpec, LeaseOrder
=============================================================================
