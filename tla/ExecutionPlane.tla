--------------------------- MODULE ExecutionPlane ---------------------------
(***************************************************************************)
(* One evaluation job as the control plane executes it: the HTTP calls     *)
(* that create, cancel and resume it (src/contextmesh/api.py), its rows in *)
(* the job queue, the embedded and an external worker that lease them, and *)
(* the one checkpoint file and cancel flag all of them share.              *)
(*                                                                         *)
(* Where Evaluator has one run at a time, here calls, runs and the restart *)
(* of the server interleave at every read and write of what they share.    *)
(* The rest is simpler than there: a capable route, a corpus and findings  *)
(* that do not change, one block per batch, contracts that serialize alike.*)
(***************************************************************************)
EXTENDS TypedReduction, Integers, Sequences, Functions

CONSTANTS
  Order,     \* the required blocks in visiting order
  Threshold, \* units that make a run reduce them: reduction_batch_size * 4
  MaxRows,   \* bound: rows of the job in the queue
  Budget,    \* bound: how many cancels, failures and faults happen; a fault is a death of
             \* a worker, the expiry of a lease or a restart of the server
  Null       \* None

ASSUME PlaneAssumption ==
  /\ Order \in Seq(Blocks)
  /\ Range(Order) = Blocks
  /\ Budget \in [{"cancels", "failures", "faults"} -> Nat]

Units == [key: UNION {Atoms[b] : b \in Blocks}, sources: SUBSET Blocks]

State ==
  [visited: SUBSET Blocks, failed: SUBSET Blocks, units: SUBSET Units,
   bundle: {Null} \cup [Sections -> SUBSET Units]]

Statuses == {"queued", "running", "complete", "blocked", "cancelled", "failed", "interrupted"}

CheckpointRecord == [state: State, complete: BOOLEAN, status: Statuses]

ASSUME NullAssumption == Null \notin CheckpointRecord

Workers == {"embedded", "external"}
Calls == {"create", "cancel", "resume"}

VARIABLES
  cp,        \* the checkpoint file, or Null
  flag,      \* the cancel flag file exists
  rows,      \* queue rows of the job, oldest first: [resume, status, cancel, by]
  call,      \* the call of each kind in progress, and the step it is at
  boot,      \* the server: "up", or reconciling: [step, seen]
  run,       \* per worker: [pc, row, todo, state, end, status]
  shared,    \* history: who has worked at the same time as another
  cancelled, \* history: the job was cancelled, and neither created nor resumed since
  budget

vars == <<cp, flag, rows, call, boot, run, shared, cancelled, budget>>

Fresh == [visited |-> {}, failed |-> {}, units |-> {}, bundle |-> Null]

Checkpoint(st, status) == [state |-> st, complete |-> status = "complete", status |-> status]

IdleRun == [pc |-> "idle", row |-> 0, todo |-> {}, state |-> Null, end |-> "",
            status |-> ""]

Up == [step |-> "up", seen |-> Null]

Spend(what) ==
  /\ budget[what] > 0
  /\ budget' = [budget EXCEPT ![what] = @ - 1]

Busy(w) == run[w].pc # "idle"

-----------------------------------------------------------------------------
\* The calls.  Each step is one access to the flag, the checkpoint or the queue.

ServerUp == boot.step = "up"

Goto(c, step) == call' = [call EXCEPT ![c] = step]

Enqueue(resume) ==
  rows' = Append(rows, [resume |-> resume, status |-> "queued", cancel |-> FALSE, by |-> Null])

\* create_evaluation_job, with a job id nobody used before.
CreateClear ==
  /\ ServerUp
  /\ rows = <<>>
  /\ call["create"] = "none"
  /\ flag' = FALSE
  /\ cancelled' = FALSE
  /\ Goto("create", "enqueue")
  /\ UNCHANGED <<cp, rows, boot, run, shared, budget>>

CreateEnqueue ==
  /\ call["create"] = "enqueue"
  /\ Enqueue(FALSE)
  /\ Goto("create", "none")
  /\ UNCHANGED <<cp, flag, boot, run, shared, cancelled, budget>>

\* resume_evaluation_job: refused without a checkpoint or with a complete one.
ResumeRead ==
  /\ ServerUp
  /\ call["resume"] = "none"
  /\ Len(rows) < MaxRows
  /\ cp # Null
  /\ ~cp.complete
  /\ Goto("resume", "clear")
  /\ cancelled' = FALSE
  /\ UNCHANGED <<cp, flag, rows, boot, run, shared, budget>>

ResumeClear ==
  /\ call["resume"] = "clear"
  /\ flag' = FALSE
  /\ Goto("resume", "enqueue")
  /\ UNCHANGED <<cp, rows, boot, run, shared, cancelled, budget>>

ResumeEnqueue ==
  /\ call["resume"] = "enqueue"
  /\ Enqueue(TRUE)
  /\ Goto("resume", "none")
  /\ UNCHANGED <<cp, flag, boot, run, shared, cancelled, budget>>

\* cancel_evaluation_job: refused for a complete checkpoint.
CancelRead ==
  /\ ServerUp
  /\ call["cancel"] = "none"
  /\ Spend("cancels")
  /\ cp # Null => ~cp.complete
  /\ Goto("cancel", "flag")
  /\ UNCHANGED <<cp, flag, rows, boot, run, shared, cancelled>>

CancelFlag ==
  /\ call["cancel"] = "flag"
  /\ flag' = TRUE
  /\ cancelled' = (call["create"] = "none" /\ call["resume"] = "none")
  /\ Goto("cancel", "rows")
  /\ UNCHANGED <<cp, rows, boot, run, shared, budget>>

\* request_cancel
CancelRows ==
  /\ call["cancel"] = "rows"
  /\ rows' = [i \in DOMAIN rows |->
       IF rows[i].status \in {"queued", "running"}
       THEN [rows[i] EXCEPT !.cancel = TRUE,
                            !.status = IF @ = "queued" THEN "cancelled" ELSE @]
       ELSE rows[i]]
  /\ Goto("cancel", "none")
  /\ UNCHANGED <<cp, flag, boot, run, shared, cancelled, budget>>

-----------------------------------------------------------------------------
\* The workers.

\* Work that goes on at the same time as w's.
Others(w) == {v \in Workers \ {w} : Busy(v)} \cup (IF ServerUp THEN {} ELSE {"server"})

Eligible == {i \in DOMAIN rows : rows[i].status = "queued" /\ ~rows[i].cancel}

Lease(w) ==
  /\ ~Busy(w)
  /\ w = "embedded" => ServerUp
  /\ \E i \in Eligible :
       /\ \A k \in Eligible : i <= k
       /\ rows' = [rows EXCEPT ![i].status = "running", ![i].by = w]
       /\ run' = [run EXCEPT ![w] = [IdleRun EXCEPT !.pc = "open", !.row = i]]
  /\ shared' = IF Others(w) = {} THEN shared ELSE shared \cup Others(w) \cup {w}
  /\ UNCHANGED <<cp, flag, call, boot, cancelled, budget>>

\* A lease that is older than lease_seconds, of a worker that died or that only takes
\* longer: the next lease() or a starting server makes the row available again.
Expire(i) ==
  /\ rows[i].status = "running"
  /\ Spend("faults")
  /\ rows' = [rows EXCEPT ![i].status = "queued", ![i].by = Null]
  /\ UNCHANGED <<cp, flag, call, boot, run, shared, cancelled>>

\* The run goes on with this state: every block it does not count as visited is to be
\* inspected, failed ones again.
Open(w, st) ==
  run' = [run EXCEPT ![w].pc = "loop", ![w].state = st,
                     ![w].todo = Blocks \ st.visited]

Resumes(w) == rows[run[w].row].resume

\* An initial request writes a new checkpoint, whatever there was.
OpenFresh(w) ==
  /\ run[w].pc = "open"
  /\ ~Resumes(w)
  /\ cp' = Checkpoint(Fresh, "queued")
  /\ Open(w, Fresh)
  /\ UNCHANGED <<flag, rows, call, boot, shared, cancelled, budget>>

OpenResumed_ClearsFlag(w) ==
  /\ run[w].pc = "open"
  /\ Resumes(w)
  /\ flag' = FALSE
  /\ Open(w, cp.state)
  /\ UNCHANGED <<cp, rows, call, boot, shared, cancelled, budget>>

OpenResumed(w) ==
  /\ run[w].pc = "open"
  /\ Resumes(w)
  /\ Open(w, cp.state)
  /\ UNCHANGED <<cp, flag, rows, call, boot, shared, cancelled, budget>>

Closing(w, how) ==
  run' = [run EXCEPT ![w] = [IdleRun EXCEPT !.pc = "close", !.row = run[w].row, !.end = how]]

\* What a run writes last decides how it ended.
End(w, status) ==
  /\ cp' = Checkpoint(run[w].state, status)
  /\ Closing(w, status)
  /\ UNCHANGED <<flag, rows, call, boot, shared, cancelled, budget>>

\* The flag is read before every batch ...
CancelSeen(w) ==
  /\ run[w].pc = "loop"
  /\ run[w].todo # {}
  /\ flag
  /\ End(w, "cancelled")

StartBatch(w) ==
  /\ run[w].pc = "loop"
  /\ run[w].todo # {}
  /\ ~flag
  /\ run' = [run EXCEPT ![w].pc = "inspect"]
  /\ UNCHANGED <<cp, flag, rows, call, boot, shared, cancelled, budget>>

ReduceState(st) ==
  [st EXCEPT !.units = Reduced(st.units), !.bundle = Bundle(Reduced(st.units))]

\* _merge_outcome
Inspected(st, b) ==
  [st EXCEPT !.visited = @ \cup {b}, !.failed = @ \ {b}, !.units = @ \cup UnitsOf(b)]

Failed(st, b) == [st EXCEPT !.failed = @ \cup {b}]

\* b is the first of the blocks S in visiting order.
IsFirst(b, S) ==
  /\ b \in S
  /\ \E i \in DOMAIN Order : Order[i] = b /\ \A j \in 1 .. i - 1 : Order[j] \notin S

\* The state the checkpoint gets after a batch.
AfterBatch(st, b, ok) ==
  LET new == IF ok THEN Inspected(st, b) ELSE Failed(st, b)
  IN IF Cardinality(new.units) >= Threshold THEN ReduceState(new) ELSE new

\* ... and the checkpoint is written after it.
FinishBatch(w, ok) ==
  /\ run[w].pc = "inspect"
  /\ IF ok THEN UNCHANGED budget ELSE Spend("failures")
  /\ \E b \in Blocks :
       LET new == AfterBatch(run[w].state, b, ok) IN
       /\ IsFirst(b, run[w].todo)
       /\ cp' = Checkpoint(new, "running")
       /\ run' = [run EXCEPT ![w].pc = "loop", ![w].todo = @ \ {b}, ![w].state = new]
  /\ UNCHANGED <<flag, rows, call, boot, shared, cancelled>>

Block(w) ==
  /\ run[w].pc = "loop"
  /\ run[w].todo = {}
  /\ run[w].state.visited # Blocks
  /\ End(w, "blocked")

\* The last reduction, the final judgment and its checkpoint.
Finalize(w) ==
  LET st == ReduceState(run[w].state) IN
  /\ run[w].pc = "loop"
  /\ run[w].todo = {}
  /\ run[w].state.visited = Blocks
  /\ ValidReduction(run[w].state.units, st.units)
  /\ cp' = Checkpoint(st, "complete")
  /\ Closing(w, "complete")
  /\ UNCHANGED <<flag, rows, call, boot, shared, cancelled, budget>>

\* Something raises, an invalid reduction included.  The handler of the job reads the
\* checkpoint, if there is one ...
Raise(w) ==
  /\ run[w].pc \in {"open", "loop", "inspect"}
  /\ Spend("failures")
  /\ run' = [run EXCEPT ![w].pc = "failing", ![w].state = cp, ![w].todo = {}]
  /\ UNCHANGED <<cp, flag, rows, call, boot, shared, cancelled>>

MarkFailed_NewCheckpoint(w) ==
  /\ run[w].pc = "failing"
  /\ cp' = Checkpoint(Fresh, "failed")
  /\ Closing(w, "failed")
  /\ UNCHANGED <<flag, rows, call, boot, shared, cancelled, budget>>

\* ... and writes it with another status.
MarkFailed(w) ==
  /\ run[w].pc = "failing"
  /\ cp' = IF run[w].state = Null THEN cp ELSE [run[w].state EXCEPT !.status = "failed"]
  /\ Closing(w, "failed")
  /\ UNCHANGED <<flag, rows, call, boot, shared, cancelled, budget>>

RowStatus_CompleteFlag ==
  IF cp = Null THEN "failed" ELSE IF cp.complete THEN "complete"
  ELSE IF cp.status = "failed" THEN "failed" ELSE "cancelled"

\* _process_queue_job reads what the checkpoint says then: it decides about the row.
RowStatus ==
  IF cp = Null \/ cp.status = "failed" THEN "failed"
  ELSE IF cp.status = "cancelled" THEN "cancelled"
  ELSE "complete"

ReadStatus(w) ==
  /\ run[w].pc = "close"
  /\ run' = [run EXCEPT ![w].pc = "row", ![w].status = RowStatus]
  /\ UNCHANGED <<cp, flag, rows, call, boot, shared, cancelled, budget>>

\* complete() is for the holder of the lease only; mark_cancelled() and fail(), of a row
\* with one attempt, look at nothing.
Close(w) ==
  LET i == run[w].row
      status == run[w].status
  IN
  /\ run[w].pc = "row"
  /\ rows' = IF status = "complete" /\ ~(rows[i].status = "running" /\ rows[i].by = w)
             THEN rows
             ELSE [rows EXCEPT ![i].status = status, ![i].by = Null]
  /\ run' = [run EXCEPT ![w] = IdleRun]
  /\ shared' = shared \ {w}
  /\ UNCHANGED <<cp, flag, call, boot, cancelled, budget>>

-----------------------------------------------------------------------------
\* Deaths.

\* The external worker dies; its row keeps the lease.
Die ==
  /\ Busy("external")
  /\ Spend("faults")
  /\ run' = [run EXCEPT !["external"] = IdleRun]
  /\ shared' = shared \ {"external"}
  /\ UNCHANGED <<cp, flag, rows, call, boot, cancelled>>

\* The server dies with its embedded worker and its calls, and starts again.
Restart ==
  /\ Spend("faults")
  /\ run' = [run EXCEPT !["embedded"] = IdleRun]
  /\ call' = [c \in Calls |-> "none"]
  /\ boot' = [step |-> "read", seen |-> Null]
  /\ shared' = IF Busy("external") THEN {"external", "server"} ELSE {}
  /\ UNCHANGED <<cp, flag, rows, cancelled>>

\* reconcile_interrupted_jobs reads all checkpoints, then writes the ones to be marked.
ReconcileRead ==
  /\ boot.step = "read"
  /\ boot' = [step |-> "write", seen |-> cp]
  /\ UNCHANGED <<cp, flag, rows, call, run, shared, cancelled, budget>>

ReconcileWrite ==
  /\ boot.step = "write"
  /\ cp' = IF boot.seen # Null /\ boot.seen.status \in {"queued", "running"}
           THEN [boot.seen EXCEPT !.status = "interrupted"] ELSE cp
  /\ boot' = Up
  /\ shared' = shared \ {"server"}
  /\ UNCHANGED <<flag, rows, call, run, cancelled, budget>>

-----------------------------------------------------------------------------

Init ==
  /\ cp = Null
  /\ flag = FALSE
  /\ rows = <<>>
  /\ call = [c \in Calls |-> "none"]
  /\ boot = Up
  /\ run = [w \in Workers |-> IdleRun]
  /\ shared = {}
  /\ cancelled = FALSE
  /\ budget = Budget

WorkerStep(w) ==
  \/ Lease(w)
  \/ OpenFresh(w)
  \/ OpenResumed(w)
  \/ CancelSeen(w)
  \/ StartBatch(w)
  \/ \E ok \in BOOLEAN : FinishBatch(w, ok)
  \/ Block(w)
  \/ Finalize(w)
  \/ Raise(w)
  \/ MarkFailed(w)
  \/ ReadStatus(w)
  \/ Close(w)

Next ==
  \/ CreateClear
  \/ CreateEnqueue
  \/ ResumeRead
  \/ ResumeClear
  \/ ResumeEnqueue
  \/ CancelRead
  \/ CancelFlag
  \/ CancelRows
  \/ \E w \in Workers : WorkerStep(w)
  \/ \E i \in DOMAIN rows : Expire(i)
  \/ Die
  \/ Restart
  \/ ReconcileRead
  \/ ReconcileWrite

Spec == Init /\ [][Next]_vars

-----------------------------------------------------------------------------
\* Properties.

\* Every key found in a visited block is in the units, with exactly the visited blocks
\* it was found in as its sources.
UnitsAreExact(st) ==
  /\ Keys(st.units) = UNION {Atoms[b] : b \in st.visited}
  /\ \A k \in Keys(st.units) :
       UNION {u.sources : u \in Group(st.units, k)} = {b \in st.visited : k \in Atoms[b]}

\* Whoever wrote the checkpoint last, and however runs interleaved, it is the state of
\* one run: its typed evidence is that of the blocks it counts as visited, and a
\* complete one has every block, and each piece of evidence exactly once in its bundle.
BundleIsExact ==
  cp # Null =>
    /\ UnitsAreExact(cp.state)
    /\ cp.complete =>
         /\ cp.state.visited = Blocks
         /\ \A u, v \in cp.state.units : u.key = v.key => u = v
         /\ UNION {cp.state.bundle[s] : s \in Sections} = cp.state.units

\* Inspected blocks or the final judgment are gone from the checkpoint.
Undone ==
  cp # Null /\ \/ ~(cp.state.visited \subseteq cp'.state.visited)
               \/ cp.complete /\ ~cp'.complete

Writes(w) == run[w].pc \in {"loop", "inspect", "failing"} /\ run'[w] # run[w]

\* Runs of a job one after the other never undo what the checkpoint holds, however many
\* rows were queued, cancelled, recovered or failed.  What undoes it is an initial request
\* that is executed again, or somebody who worked at the same time as another: a
\* second row or an expired lease, or a server that starts beside an external worker.
UndoneOnlyByOverlap ==
  [][Undone =>
       \/ \E w \in Workers : run[w].pc = "open" /\ ~Resumes(w) /\ run'[w].pc = "loop"
       \/ \E w \in shared \cap Workers : Writes(w)
       \/ "server" \in shared /\ boot.step = "write"]_vars

\* The row of a run that was alone says how that run ended.
OutcomeIsOwn ==
  [][\A w \in Workers :
       (run[w].pc = "row" /\ run'[w].pc = "idle" /\ w \notin shared
          /\ rows[run[w].row].status = "running" /\ rows'[run[w].row] # rows[run[w].row]) =>
         rows'[run[w].row].status =
           (IF run[w].end = "blocked" THEN "complete" ELSE run[w].end)]_vars

\* Once a job is cancelled by a call that no create or resume overlaps, no inspection of
\* it begins, in no worker, after no restart or redelivery, until it is resumed.
CancelIsKept ==
  [][\A w \in Workers : (run[w].pc = "loop" /\ run'[w].pc = "inspect") => ~cancelled]_vars
=============================================================================
