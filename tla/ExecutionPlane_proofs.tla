------------------------ MODULE ExecutionPlane_proofs ------------------------
(***************************************************************************)
(* One evaluation job under interleaved calls, workers and restarts, for   *)
(* any blocks and findings: what is in its checkpoint, what may take       *)
(* something out of it, what a cancel stops and what a row says.           *)
(***************************************************************************)
EXTENDS ExecutionPlane, SequenceTheorems, TLAPS

-----------------------------------------------------------------------------
\* The invariant, in three layers.

GoodState(st) == st \in State /\ UnitsAreExact(st)

GoodCheckpoint(c) ==
  /\ c \in CheckpointRecord
  /\ UnitsAreExact(c.state)
  /\ c.complete =>
       /\ c.state.visited = Blocks
       /\ \A u, v \in c.state.units : u.key = v.key => u = v
       /\ UNION {c.state.bundle[s] : s \in Sections} = c.state.units

QueueRow ==
  [resume: BOOLEAN, status: {"queued", "running", "complete", "cancelled", "failed"},
   cancel: BOOLEAN, by: Workers \cup {Null}]

Run ==
  [pc: {"idle", "open", "loop", "inspect", "failing", "close", "row"}, row: Nat,
   todo: SUBSET Blocks, state: {Null} \cup State \cup CheckpointRecord,
   end: {"", "complete", "blocked", "cancelled", "failed"},
   status: {"", "complete", "cancelled", "failed"}]

PlaneTypes ==
  /\ cp \in {Null} \cup CheckpointRecord
  /\ rows \in Seq(QueueRow)
  /\ call \in [Calls -> {"none", "enqueue", "clear", "flag", "rows"}]
  /\ boot \in [step: {"up", "read", "write"}, seen: {Null} \cup CheckpointRecord]
  /\ run \in [Workers -> Run]

\* First layer: every state that is kept anywhere is that of one run.
StatesAreGood ==
  /\ cp # Null => GoodCheckpoint(cp)
  /\ boot.seen # Null => GoodCheckpoint(boot.seen)
  /\ \A w \in Workers :
       /\ run[w].pc \in {"loop", "inspect"} => GoodState(run[w].state)
       /\ run[w].pc = "failing" => run[w].state = Null \/ GoodCheckpoint(run[w].state)

\* A request to resume found a checkpoint, and no checkpoint is ever deleted.
ResumedHasCheckpoint ==
  \/ cp # Null
  \/ /\ \A i \in DOMAIN rows : ~rows[i].resume
     /\ call["resume"] = "none"

RunsHaveRows ==
  \A w \in Workers :
    /\ Busy(w) => run[w].row \in DOMAIN rows
    /\ run[w].pc = "row" => run[w].status # ""

EvidenceInv == PlaneTypes /\ StatesAreGood /\ ResumedHasCheckpoint /\ RunsHaveRows

\* Second layer: whoever is busy beside somebody else is known to be.
SharedIsKnown ==
  /\ \A v, w \in Workers : v # w /\ Busy(v) /\ Busy(w) => v \in shared
  /\ \A w \in Workers : ~ServerUp /\ Busy(w) => w \in shared /\ "server" \in shared

Outcome(w) == IF run[w].end = "blocked" THEN "complete" ELSE run[w].end

\* A run that was alone holds what the checkpoint holds; once it is finished, the
\* checkpoint says how.
Current(w) ==
  /\ run[w].pc \in {"loop", "inspect"} => cp # Null /\ cp.state = run[w].state
  /\ run[w].pc = "loop" /\ cp.complete => run[w].todo = {}
  /\ run[w].pc = "inspect" => ~cp.complete
  /\ run[w].pc = "failing" => run[w].state = cp
  /\ run[w].pc = "close" => RowStatus = Outcome(w)
  /\ run[w].pc = "row" => run[w].status = Outcome(w)

AloneIsCurrent == \A w \in Workers \ shared : Current(w)

\* So does a server that starts alone.
SeenIsCurrent == boot.step = "write" /\ "server" \notin shared => boot.seen = cp

AloneInv == SharedIsKnown /\ AloneIsCurrent /\ SeenIsCurrent

\* Third layer: the flag of a cancelled job is set and nobody is about to clear it.
CancelInv ==
  cancelled => flag /\ call["create"] = "none" /\ call["resume"] = "none"

-----------------------------------------------------------------------------
\* What the typed reduction keeps of a set of units.

LEMMA UnitsOfBlock ==
  ASSUME NEW b \in Blocks
  PROVE /\ UnitsOf(b) \in SUBSET Units
        /\ Keys(UnitsOf(b)) = Atoms[b]
        /\ \A u \in UnitsOf(b) : u.sources = {b}
<1>1. ASSUME NEW k \in Atoms[b]
      PROVE LET u == [key |-> k, sources |-> {b}] IN u \in Units /\ u.key = k /\ u.sources = {b}
  BY DEF Units
<1>2. \A u \in UnitsOf(b) : u \in Units /\ u.sources = {b} /\ u.key \in Atoms[b]
  BY <1>1 DEF UnitsOf
<1>3. \A k \in Atoms[b] : \E u \in UnitsOf(b) : u.key = k
  BY <1>1 DEF UnitsOf
<1>4. Keys(UnitsOf(b)) = Atoms[b]
  <2>1. \A k : k \in Keys(UnitsOf(b)) <=> \E u \in UnitsOf(b) : u.key = k
    BY DEF Keys
  <2>2. \A k : k \in Keys(UnitsOf(b)) <=> k \in Atoms[b]
    BY <1>2, <1>3, <2>1
  <2>3. QED BY <2>2
<1>5. QED BY <1>2, <1>4

\* Merging keeps the keys, and one unit of each.
LEMMA ReducedKeys ==
  ASSUME NEW units
  PROVE /\ Keys(Reduced(units)) = Keys(units)
        /\ \A u, v \in Reduced(units) : u.key = v.key => u = v
<1>1. \A k : Merged(Group(units, k), k).key = k
  BY DEF Merged
<1>2. \A u \in Reduced(units) : \E k \in Keys(units) : u = Merged(Group(units, k), k) /\ u.key = k
  BY <1>1 DEF Reduced
<1>3. \A k \in Keys(units) : Merged(Group(units, k), k) \in Reduced(units)
  BY DEF Reduced
<1>4. Keys(Reduced(units)) = Keys(units)
  <2>1. ASSUME NEW k \in Keys(Reduced(units)) PROVE k \in Keys(units)
    <3>1. PICK u \in Reduced(units) : k = u.key
      BY DEF Keys
    <3>2. QED BY <1>2, <3>1
  <2>2. ASSUME NEW k \in Keys(units) PROVE k \in Keys(Reduced(units))
    <3>1. Merged(Group(units, k), k) \in Reduced(units) /\ Merged(Group(units, k), k).key = k
      BY <1>1, <1>3
    <3>2. QED BY <3>1 DEF Keys
  <2>3. QED BY <2>1, <2>2
<1>5. QED BY <1>2, <1>4

\* The one unit of a key has all the sources its units had.
LEMMA ReducedSources ==
  ASSUME NEW units, NEW k \in Keys(units)
  PROVE UNION {u.sources : u \in Group(Reduced(units), k)}
          = UNION {u.sources : u \in Group(units, k)}
<1>1. Group(Reduced(units), k) = {Merged(Group(units, k), k)}
  BY DEF Group, Reduced, Merged
<1>2. Merged(Group(units, k), k).sources = UNION {u.sources : u \in Group(units, k)}
  BY DEF Merged
<1>3. QED BY <1>1, <1>2

LEMMA ReducedTyped ==
  ASSUME NEW units \in SUBSET Units
  PROVE Reduced(units) \in SUBSET Units
<1>1. ASSUME NEW k \in Keys(units) PROVE Merged(Group(units, k), k) \in Units
  <2>1. k \in UNION {Atoms[b] : b \in Blocks}
    BY DEF Keys, Units
  <2>2. UNION {u.sources : u \in Group(units, k)} \in SUBSET Blocks
    BY DEF Group, Units
  <2>3. QED BY <2>1, <2>2 DEF Merged, Units
<1>2. QED BY <1>1 DEF Reduced

\* Every unit is in one section of the bundle.
LEMMA BundleIsWhole ==
  ASSUME NEW units \in SUBSET Units
  PROVE /\ Bundle(units) \in [Sections -> SUBSET Units]
        /\ UNION {Bundle(units)[s] : s \in Sections} = units
<1>1. \A kind : Section(kind) \in Sections
  BY DEF Section, Sections
<1>2. \A s \in Sections : Bundle(units)[s] = {u \in units : Section(u.key.kind) = s}
  BY DEF Bundle
<1>3. QED BY <1>1, <1>2 DEF Bundle

-----------------------------------------------------------------------------
\* What the steps of a run make of its state.

LEMMA FreshGood == GoodState(Fresh)
<1>1. Fresh \in State
  BY DEF Fresh, State
<1>2. Fresh.visited = {} /\ Fresh.units = {}
  BY DEF Fresh
<1>3. QED BY <1>1, <1>2 DEF GoodState, UnitsAreExact, Keys

LEMMA InspectedGood ==
  ASSUME NEW st, GoodState(st), NEW b \in Blocks
  PROVE GoodState(Inspected(st, b)) /\ Inspected(st, b).visited = st.visited \cup {b}
<1> DEFINE new == Inspected(st, b)
<1>1. st \in State /\ UnitsAreExact(st)
  BY DEF GoodState
<1>2. UnitsOf(b) \in SUBSET Units
  BY UnitsOfBlock
<1>3. /\ new \in State
      /\ new.visited = st.visited \cup {b}
      /\ new.units = st.units \cup UnitsOf(b)
  BY <1>1, <1>2 DEF Inspected, State
<1> HIDE DEF new
<1>4. Keys(new.units) = UNION {Atoms[c] : c \in new.visited}
  <2>1. ASSUME NEW k
        PROVE k \in Keys(new.units) <=> k \in UNION {Atoms[c] : c \in new.visited}
    <3>1. k \in Keys(new.units) <=> k \in Keys(st.units) \/ k \in Keys(UnitsOf(b))
      BY <1>3 DEF Keys
    <3>2. k \in Keys(UnitsOf(b)) <=> k \in Atoms[b]
      BY UnitsOfBlock
    <3>3. k \in Keys(st.units) <=> \E c \in st.visited : k \in Atoms[c]
      <4>1. Keys(st.units) = UNION {Atoms[c] : c \in st.visited}
        BY <1>1 DEF UnitsAreExact
      <4>2. QED BY <4>1
    <3>4. k \in UNION {Atoms[c] : c \in new.visited} <=> \E c \in new.visited : k \in Atoms[c]
      OBVIOUS
    <3>5. QED BY <1>3, <3>1, <3>2, <3>3, <3>4
  <2>2. QED BY <2>1, Zenon
<1>5. ASSUME NEW k \in Keys(new.units)
      PROVE UNION {u.sources : u \in Group(new.units, k)} = {c \in new.visited : k \in Atoms[c]}
  <2>1. UNION {u.sources : u \in Group(st.units, k)} = {c \in st.visited : k \in Atoms[c]}
    <3>1. CASE k \in Keys(st.units)
      BY <1>1, <3>1 DEF UnitsAreExact
    <3>2. CASE k \notin Keys(st.units)
      <4>1. Group(st.units, k) = {}
        BY <3>2 DEF Group, Keys
      <4>2. {c \in st.visited : k \in Atoms[c]} = {}
        BY <1>1, <3>2 DEF UnitsAreExact
      <4>3. QED BY <4>1, <4>2
    <3>3. QED BY <3>1, <3>2
  <2>2. Group(new.units, k) = Group(st.units, k) \cup Group(UnitsOf(b), k)
    BY <1>3 DEF Group
  <2>3. UNION {u.sources : u \in Group(UnitsOf(b), k)} = {c \in {b} : k \in Atoms[c]}
    <3>1. CASE k \in Atoms[b]
      <4>1. Keys(UnitsOf(b)) = Atoms[b] /\ \A u \in UnitsOf(b) : u.sources = {b}
        BY UnitsOfBlock
      <4>2. \E u \in UnitsOf(b) : u.key = k
        BY <3>1, <4>1 DEF Keys
      <4>3. \A u \in Group(UnitsOf(b), k) : u.sources = {b}
        BY <4>1 DEF Group
      <4>4. Group(UnitsOf(b), k) # {}
        BY <4>2 DEF Group
      <4>5. QED BY <3>1, <4>3, <4>4
    <3>2. CASE k \notin Atoms[b]
      <4>1. \A u \in UnitsOf(b) : u.key # k
        BY <3>2, UnitsOfBlock DEF Keys
      <4>2. QED BY <3>2, <4>1 DEF Group
    <3>3. QED BY <3>1, <3>2
  <2>4. UNION {u.sources : u \in Group(new.units, k)}
          = {c \in st.visited : k \in Atoms[c]} \cup {c \in {b} : k \in Atoms[c]}
    BY <2>1, <2>2, <2>3
  <2>5. QED BY <1>3, <2>4
<1>6. UnitsAreExact(new)
  BY <1>4, <1>5 DEF UnitsAreExact
<1>7. QED BY <1>3, <1>6 DEF GoodState, new

LEMMA FailedGood ==
  ASSUME NEW st, GoodState(st), NEW b \in Blocks
  PROVE GoodState(Failed(st, b)) /\ Failed(st, b).visited = st.visited
<1>1. st \in State
  BY DEF GoodState
<1>2. /\ Failed(st, b) \in State
      /\ Failed(st, b).visited = st.visited /\ Failed(st, b).units = st.units
  BY <1>1 DEF Failed, State
<1>3. QED BY <1>2 DEF GoodState, UnitsAreExact

LEMMA ReduceStateGood ==
  ASSUME NEW st, GoodState(st)
  PROVE /\ GoodState(ReduceState(st))
        /\ ReduceState(st).visited = st.visited
        /\ \A u, v \in ReduceState(st).units : u.key = v.key => u = v
        /\ UNION {ReduceState(st).bundle[s] : s \in Sections} = ReduceState(st).units
<1> DEFINE new == ReduceState(st)
           units == Reduced(st.units)
<1>1. st \in State /\ st.units \in SUBSET Units /\ UnitsAreExact(st)
  BY DEF GoodState, State
<1>2. units \in SUBSET Units
  BY <1>1, ReducedTyped
<1>3. /\ Bundle(units) \in [Sections -> SUBSET Units]
      /\ UNION {Bundle(units)[s] : s \in Sections} = units
  BY <1>2, BundleIsWhole
<1>4. /\ new \in State
      /\ new.visited = st.visited /\ new.units = units /\ new.bundle = Bundle(units)
  BY <1>1, <1>2, <1>3 DEF ReduceState, State
<1>5. Keys(units) = Keys(st.units) /\ \A u, v \in units : u.key = v.key => u = v
  BY ReducedKeys
<1>6. \A k \in Keys(st.units) : UNION {u.sources : u \in Group(units, k)}
                                   = UNION {u.sources : u \in Group(st.units, k)}
  BY ReducedSources
<1> HIDE DEF new, units
<1>7. UnitsAreExact(new)
  BY <1>1, <1>4, <1>5, <1>6 DEF UnitsAreExact
<1>8. QED BY <1>3, <1>4, <1>5, <1>7 DEF GoodState, new

LEMMA AfterBatchGood ==
  ASSUME NEW st, GoodState(st), NEW b \in Blocks, NEW ok \in BOOLEAN
  PROVE /\ GoodState(AfterBatch(st, b, ok))
        /\ st.visited \subseteq AfterBatch(st, b, ok).visited
<1> DEFINE new == IF ok THEN Inspected(st, b) ELSE Failed(st, b)
<1>1. GoodState(new) /\ st.visited \subseteq new.visited
  BY InspectedGood, FailedGood
<1>2. AfterBatch(st, b, ok) \in {new, ReduceState(new)}
  BY DEF AfterBatch
<1> HIDE DEF new
<1>3. QED BY <1>1, <1>2, ReduceStateGood

\* The checkpoints a run writes while it is under way, and the one it writes last.
LEMMA CheckpointGood ==
  ASSUME NEW st, GoodState(st), NEW status \in Statuses \ {"complete"}
  PROVE /\ GoodCheckpoint(Checkpoint(st, status))
        /\ Checkpoint(st, status).state = st
        /\ Checkpoint(st, status).status = status
        /\ ~Checkpoint(st, status).complete
BY DEF Checkpoint, GoodState, GoodCheckpoint, CheckpointRecord

LEMMA CompleteGood ==
  ASSUME NEW st, GoodState(st), st.visited = Blocks
  PROVE /\ GoodCheckpoint(Checkpoint(ReduceState(st), "complete"))
        /\ Checkpoint(ReduceState(st), "complete").complete
        /\ Checkpoint(ReduceState(st), "complete").state = ReduceState(st)
        /\ Checkpoint(ReduceState(st), "complete").status = "complete"
<1> DEFINE new == ReduceState(st)
<1>1. /\ GoodState(new) /\ new.visited = Blocks
      /\ \A u, v \in new.units : u.key = v.key => u = v
      /\ UNION {new.bundle[s] : s \in Sections} = new.units
  BY ReduceStateGood
<1> HIDE DEF new
<1>2. "complete" \in Statuses
  BY DEF Statuses
<1>3. /\ Checkpoint(new, "complete") \in CheckpointRecord
      /\ Checkpoint(new, "complete").state = new
      /\ Checkpoint(new, "complete").complete
      /\ Checkpoint(new, "complete").status = "complete"
  BY <1>1, <1>2 DEF Checkpoint, CheckpointRecord, GoodState
<1>4. QED BY <1>1, <1>3 DEF GoodState, GoodCheckpoint, new

\* Another status of the same checkpoint.
LEMMA MarkedGood ==
  ASSUME NEW c, GoodCheckpoint(c), NEW status \in Statuses
  PROVE LET new == [c EXCEPT !.status = status] IN
        /\ GoodCheckpoint(new)
        /\ new.state = c.state /\ new.complete = c.complete /\ new.status = status
<1> DEFINE new == [c EXCEPT !.status = status]
<1>1. c \in CheckpointRecord
  BY DEF GoodCheckpoint
<1>2. /\ new \in CheckpointRecord
      /\ new.state = c.state /\ new.complete = c.complete /\ new.status = status
  BY <1>1 DEF CheckpointRecord
<1> HIDE DEF new
<1>3. GoodCheckpoint(new)
  BY <1>2 DEF GoodCheckpoint
<1>4. QED BY <1>2, <1>3 DEF new

-----------------------------------------------------------------------------
\* The first two layers are preserved together.  Steps that leave the runs, the
\* checkpoint and the server alone:

LEMMA CallStep ==
  ASSUME EvidenceInv, AloneInv, UNCHANGED <<cp, boot, run, shared>>,
         rows' \in Seq(QueueRow), DOMAIN rows \subseteq DOMAIN rows',
         call' \in [Calls -> {"none", "enqueue", "clear", "flag", "rows"}],
         ResumedHasCheckpoint'
  PROVE EvidenceInv' /\ AloneInv'
<1>1. PlaneTypes'
  BY DEF EvidenceInv, PlaneTypes
<1>2. StatesAreGood' /\ RunsHaveRows'
  BY DEF EvidenceInv, StatesAreGood, RunsHaveRows, Busy
<1>3. AloneInv'
  BY DEF AloneInv, SharedIsKnown, AloneIsCurrent, Current, RowStatus, Outcome, SeenIsCurrent,
         Busy, ServerUp
<1>4. QED BY <1>1, <1>2, <1>3 DEF EvidenceInv

\* One step of a run, from where it is busy to where it is still busy.
LEMMA RunStep ==
  ASSUME EvidenceInv, AloneInv, NEW w \in Workers, Busy(w), NEW rec \in Run,
         run' = [run EXCEPT ![w] = rec], rec.pc # "idle", rec.row = run[w].row,
         UNCHANGED <<rows, call, boot, shared>>,
         cp' = cp \/ GoodCheckpoint(cp'),
         rec.pc \in {"loop", "inspect"} => GoodState(rec.state),
         rec.pc = "failing" => rec.state = Null \/ GoodCheckpoint(rec.state),
         rec.pc = "row" => rec.status # "",
         w \notin shared => Current(w)'
  PROVE EvidenceInv' /\ AloneInv'
<1>1. run \in [Workers -> Run] /\ \A v \in Workers : run'[v] = IF v = w THEN rec ELSE run[v]
  BY DEF EvidenceInv, PlaneTypes
<1>2. cp' = cp \/ (cp' \in CheckpointRecord /\ cp' # Null)
  BY NullAssumption DEF GoodCheckpoint
<1>3. PlaneTypes'
  BY <1>1, <1>2 DEF EvidenceInv, PlaneTypes
<1>4. StatesAreGood'
  BY <1>1, <1>2 DEF EvidenceInv, StatesAreGood
<1>5. ResumedHasCheckpoint' /\ RunsHaveRows'
  BY <1>1, <1>2 DEF EvidenceInv, ResumedHasCheckpoint, RunsHaveRows, Busy
<1>6. \A v \in Workers : Busy(v)' <=> Busy(v)
  BY <1>1 DEF Busy
<1>7. SharedIsKnown'
  BY <1>6 DEF AloneInv, SharedIsKnown, ServerUp
<1>8. ASSUME NEW v \in Workers \ shared' PROVE Current(v)'
  <2>1. CASE v = w
    BY <1>8, <2>1
  <2>2. CASE v # w
    <3>1. run'[v].pc = "idle"
      BY <1>1, <1>8, <2>2 DEF AloneInv, SharedIsKnown, Busy
    <3>2. QED BY <3>1 DEF Current
  <2>3. QED BY <2>1, <2>2
<1>9. SeenIsCurrent'
  BY DEF AloneInv, SharedIsKnown, SeenIsCurrent, ServerUp
<1>10. QED BY <1>3, <1>4, <1>5, <1>7, <1>8, <1>9 DEF EvidenceInv, AloneInv, AloneIsCurrent

\* What the invariant says of a run.
LEMMA RunTyped ==
  ASSUME EvidenceInv, NEW w \in Workers
  PROVE /\ run[w] \in Run
        /\ run[w].pc \in {"loop", "inspect"} => GoodState(run[w].state)
        /\ run[w].pc = "failing" => run[w].state = Null \/ GoodCheckpoint(run[w].state)
        /\ cp # Null => GoodCheckpoint(cp)
BY DEF EvidenceInv, PlaneTypes, StatesAreGood

LEMMA CurrentAlone ==
  ASSUME AloneInv, NEW w \in Workers, w \notin shared
  PROVE Current(w)
BY DEF AloneInv, AloneIsCurrent

-----------------------------------------------------------------------------
\* The steps of a run.

LEMMA OpenFreshInv ==
  ASSUME EvidenceInv, AloneInv, NEW w \in Workers, OpenFresh(w)
  PROVE EvidenceInv' /\ AloneInv'
<1> DEFINE rec == [run[w] EXCEPT !.pc = "loop", !.state = Fresh,
                                 !.todo = Blocks \ Fresh.visited]
<1>1. run[w] \in Run /\ run[w].pc = "open"
  BY RunTyped DEF OpenFresh
<1>2. GoodState(Fresh) /\ Fresh \in State
  BY FreshGood DEF GoodState
<1>3. /\ GoodCheckpoint(Checkpoint(Fresh, "queued"))
      /\ Checkpoint(Fresh, "queued").state = Fresh
      /\ ~Checkpoint(Fresh, "queued").complete
  BY <1>2, CheckpointGood DEF Statuses
<1>4. /\ rec \in Run
      /\ rec.pc = "loop" /\ rec.row = run[w].row /\ rec.state = Fresh
  BY <1>1, <1>2 DEF Run
<1>5. run' = [run EXCEPT ![w] = rec] /\ cp' = Checkpoint(Fresh, "queued")
  BY DEF OpenFresh, Open
<1>6. run'[w] = rec
  BY <1>5 DEF EvidenceInv, PlaneTypes
<1> HIDE DEF rec
<1>7. cp' # Null
  BY <1>3, <1>5, NullAssumption DEF GoodCheckpoint
<1>8. Current(w)'
  BY <1>3, <1>4, <1>5, <1>6, <1>7 DEF Current
<1>9. Busy(w) /\ UNCHANGED <<rows, call, boot, shared>>
  BY <1>1 DEF Busy, OpenFresh
<1>10. QED BY <1>2, <1>3, <1>4, <1>5, <1>8, <1>9, RunStep

LEMMA OpenResumedInv ==
  ASSUME EvidenceInv, AloneInv, NEW w \in Workers, OpenResumed(w)
  PROVE EvidenceInv' /\ AloneInv'
<1> DEFINE rec == [run[w] EXCEPT !.pc = "loop", !.state = cp.state,
                                 !.todo = Blocks \ cp.state.visited]
<1>1. run[w] \in Run /\ run[w].pc = "open" /\ Busy(w)
  BY RunTyped DEF OpenResumed, Busy
<1>2. cp # Null
  BY <1>1 DEF EvidenceInv, RunsHaveRows, ResumedHasCheckpoint, OpenResumed, Resumes
<1>3. GoodCheckpoint(cp) /\ GoodState(cp.state) /\ cp.state \in State
  BY <1>2, RunTyped DEF GoodCheckpoint, GoodState, CheckpointRecord
<1>4. cp.complete => cp.state.visited = Blocks
  BY <1>3 DEF GoodCheckpoint
<1>5. /\ rec \in Run
      /\ rec.pc = "loop" /\ rec.row = run[w].row /\ rec.state = cp.state
      /\ rec.todo = Blocks \ cp.state.visited
  BY <1>1, <1>3 DEF Run
<1>6. run' = [run EXCEPT ![w] = rec] /\ cp' = cp /\ UNCHANGED <<rows, call, boot, shared>>
  BY DEF OpenResumed, Open
<1>7. run'[w] = rec
  BY <1>6 DEF EvidenceInv, PlaneTypes
<1> HIDE DEF rec
<1>8. cp.complete => rec.todo = {}
  BY <1>4, <1>5
<1>9. Current(w)'
  BY <1>2, <1>5, <1>6, <1>7, <1>8 DEF Current
<1>10. QED BY <1>1, <1>3, <1>5, <1>6, <1>9, RunStep

LEMMA StartBatchInv ==
  ASSUME EvidenceInv, AloneInv, NEW w \in Workers, StartBatch(w)
  PROVE EvidenceInv' /\ AloneInv'
<1> DEFINE rec == [run[w] EXCEPT !.pc = "inspect"]
<1>1. /\ run[w] \in Run /\ run[w].pc = "loop" /\ run[w].todo # {} /\ Busy(w)
      /\ GoodState(run[w].state)
  BY RunTyped DEF StartBatch, Busy
<1>2. /\ rec \in Run
      /\ rec.pc = "inspect" /\ rec.row = run[w].row /\ rec.state = run[w].state
  BY <1>1 DEF Run
<1>3. run' = [run EXCEPT ![w] = rec] /\ cp' = cp /\ UNCHANGED <<rows, call, boot, shared>>
  BY DEF StartBatch
<1>4. run'[w] = rec
  BY <1>3 DEF EvidenceInv, PlaneTypes
<1> HIDE DEF rec
<1>5. w \notin shared => Current(w)'
  BY <1>1, <1>2, <1>3, <1>4, CurrentAlone DEF Current
<1>6. QED BY <1>1, <1>2, <1>3, <1>5, RunStep

LEMMA FinishBatchInv ==
  ASSUME EvidenceInv, AloneInv, NEW w \in Workers, NEW ok \in BOOLEAN, FinishBatch(w, ok)
  PROVE EvidenceInv' /\ AloneInv'
<1>1. /\ run[w] \in Run /\ run[w].pc = "inspect" /\ Busy(w)
      /\ GoodState(run[w].state)
  BY RunTyped DEF FinishBatch, Busy
<1>2. PICK b \in Blocks :
        /\ cp' = Checkpoint(AfterBatch(run[w].state, b, ok), "running")
        /\ run' = [run EXCEPT ![w].pc = "loop", ![w].todo = @ \ {b},
                              ![w].state = AfterBatch(run[w].state, b, ok)]
  BY DEF FinishBatch
<1> DEFINE new == AfterBatch(run[w].state, b, ok)
           rec == [run[w] EXCEPT !.pc = "loop", !.todo = @ \ {b}, !.state = new]
<1>3. GoodState(new) /\ new \in State
  BY <1>1, AfterBatchGood DEF GoodState
<1>4. run' = [run EXCEPT ![w] = rec] /\ cp' = Checkpoint(new, "running")
  BY <1>2
<1> HIDE DEF new
<1>5. /\ rec \in Run
      /\ rec.pc = "loop" /\ rec.row = run[w].row /\ rec.state = new
  BY <1>1, <1>3 DEF Run
<1>6. run'[w] = rec
  BY <1>4 DEF EvidenceInv, PlaneTypes
<1> HIDE DEF rec
<1>7. GoodCheckpoint(cp') /\ cp'.state = new /\ ~cp'.complete
  BY <1>3, <1>4, CheckpointGood DEF Statuses
<1>8. cp' # Null
  BY <1>7, NullAssumption DEF GoodCheckpoint
<1>9. Current(w)'
  BY <1>5, <1>6, <1>7, <1>8 DEF Current
<1>10. UNCHANGED <<rows, call, boot, shared>>
  BY DEF FinishBatch
<1>11. QED BY <1>1, <1>3, <1>4, <1>5, <1>7, <1>9, <1>10, RunStep

\* A run writes its last checkpoint and closes.
LEMMA ClosingInv ==
  ASSUME EvidenceInv, AloneInv, NEW w \in Workers, Busy(w),
         NEW how \in {"complete", "blocked", "cancelled", "failed"}, Closing(w, how),
         cp' = cp \/ GoodCheckpoint(cp'),
         w \notin shared => \/ cp' = Null /\ how = "failed"
                            \/ cp' # Null /\ cp'.status = how,
         UNCHANGED <<rows, call, boot, shared>>
  PROVE EvidenceInv' /\ AloneInv'
<1> DEFINE rec == [IdleRun EXCEPT !.pc = "close", !.row = run[w].row, !.end = how]
<1>1. run[w].row \in Nat
  BY RunTyped DEF Run
<1>2. rec \in Run /\ rec.pc = "close" /\ rec.row = run[w].row /\ rec.end = how
  BY <1>1 DEF Run, IdleRun
<1>3. run' = [run EXCEPT ![w] = rec]
  BY DEF Closing
<1>4. run'[w] = rec
  BY <1>3 DEF EvidenceInv, PlaneTypes
<1> HIDE DEF rec
<1>5. w \notin shared => Current(w)'
  BY <1>2, <1>4 DEF Current, RowStatus, Outcome
<1>6. QED BY <1>2, <1>3, <1>5, RunStep

LEMMA EndInv ==
  ASSUME EvidenceInv, AloneInv, NEW w \in Workers, run[w].pc = "loop",
         NEW how \in {"blocked", "cancelled"}, End(w, how)
  PROVE EvidenceInv' /\ AloneInv'
<1>1. GoodState(run[w].state) /\ Busy(w)
  BY RunTyped DEF Busy
<1>2. GoodCheckpoint(cp') /\ cp'.status = how
  BY <1>1, CheckpointGood DEF End, Statuses
<1>3. cp' # Null
  BY <1>2, NullAssumption DEF GoodCheckpoint
<1>4. how \in {"complete", "blocked", "cancelled", "failed"}
  OBVIOUS
<1>5. QED BY <1>1, <1>2, <1>3, <1>4, ClosingInv DEF End

LEMMA FinalizeInv ==
  ASSUME EvidenceInv, AloneInv, NEW w \in Workers, Finalize(w)
  PROVE EvidenceInv' /\ AloneInv'
<1>1. GoodState(run[w].state) /\ run[w].state.visited = Blocks /\ Busy(w)
  BY RunTyped DEF Finalize, Busy
<1>2. GoodCheckpoint(cp') /\ cp'.status = "complete"
  BY <1>1, CompleteGood DEF Finalize
<1>3. cp' # Null
  BY <1>2, NullAssumption DEF GoodCheckpoint
<1>4. QED BY <1>1, <1>2, <1>3, ClosingInv DEF Finalize

LEMMA RaiseInv ==
  ASSUME EvidenceInv, AloneInv, NEW w \in Workers, Raise(w)
  PROVE EvidenceInv' /\ AloneInv'
<1> DEFINE rec == [run[w] EXCEPT !.pc = "failing", !.state = cp, !.todo = {}]
<1>1. run[w] \in Run /\ Busy(w)
  BY RunTyped DEF Raise, Busy
<1>2. cp \in {Null} \cup CheckpointRecord /\ (cp = Null \/ GoodCheckpoint(cp))
  BY DEF EvidenceInv, PlaneTypes, StatesAreGood
<1>3. /\ rec \in Run
      /\ rec.pc = "failing" /\ rec.row = run[w].row /\ rec.state = cp
  BY <1>1, <1>2 DEF Run
<1>4. run' = [run EXCEPT ![w] = rec] /\ cp' = cp /\ UNCHANGED <<rows, call, boot, shared>>
  BY DEF Raise
<1>5. run'[w] = rec
  BY <1>4 DEF EvidenceInv, PlaneTypes
<1> HIDE DEF rec
<1>6. Current(w)'
  BY <1>3, <1>4, <1>5 DEF Current
<1>7. QED BY <1>1, <1>2, <1>3, <1>4, <1>6, RunStep

LEMMA MarkFailedInv ==
  ASSUME EvidenceInv, AloneInv, NEW w \in Workers, MarkFailed(w)
  PROVE EvidenceInv' /\ AloneInv'
<1>1. Busy(w) /\ (run[w].state = Null \/ GoodCheckpoint(run[w].state))
  BY RunTyped DEF MarkFailed, Busy
<1>2. CASE run[w].state = Null
  <2>1. cp' = cp
    BY <1>2 DEF MarkFailed
  <2>2. w \notin shared => cp' = Null
    BY <1>2, <2>1, CurrentAlone DEF Current, MarkFailed
  <2>3. QED BY <1>1, <2>1, <2>2, ClosingInv DEF MarkFailed
<1>3. CASE run[w].state # Null
  <2>1. cp' = [run[w].state EXCEPT !.status = "failed"] /\ "failed" \in Statuses
    BY <1>3 DEF MarkFailed, Statuses
  <2>2. GoodCheckpoint(cp') /\ cp'.status = "failed"
    BY <1>1, <1>3, <2>1, MarkedGood
  <2>3. cp' # Null
    BY <2>2, NullAssumption DEF GoodCheckpoint
  <2>4. QED BY <1>1, <2>2, <2>3, ClosingInv DEF MarkFailed
<1>4. QED BY <1>2, <1>3

LEMMA ReadStatusInv ==
  ASSUME EvidenceInv, AloneInv, NEW w \in Workers, ReadStatus(w)
  PROVE EvidenceInv' /\ AloneInv'
<1> DEFINE rec == [run[w] EXCEPT !.pc = "row", !.status = RowStatus]
<1>1. run[w] \in Run /\ run[w].pc = "close" /\ Busy(w)
  BY RunTyped DEF ReadStatus, Busy
<1>2. RowStatus \in {"complete", "cancelled", "failed"}
  BY DEF RowStatus
<1>3. /\ rec \in Run
      /\ rec.pc = "row" /\ rec.row = run[w].row /\ rec.status = RowStatus
      /\ rec.end = run[w].end
  BY <1>1, <1>2 DEF Run
<1>4. run' = [run EXCEPT ![w] = rec] /\ cp' = cp /\ UNCHANGED <<rows, call, boot, shared>>
  BY DEF ReadStatus
<1>5. run'[w] = rec
  BY <1>4 DEF EvidenceInv, PlaneTypes
<1> HIDE DEF rec
<1>6. w \notin shared => Current(w)'
  BY <1>1, <1>3, <1>5, CurrentAlone DEF Current, Outcome
<1>7. QED BY <1>1, <1>2, <1>3, <1>4, <1>6, RunStep

-----------------------------------------------------------------------------
\* The beginning and the end of a run, deaths and the start of the server.

\* A worker takes a row: whoever works beside it is known to share.
LEMMA LeaseInv ==
  ASSUME EvidenceInv, AloneInv, NEW w \in Workers, Lease(w)
  PROVE EvidenceInv' /\ AloneInv'
<1>1. PICK i \in Eligible :
        /\ rows' = [rows EXCEPT ![i].status = "running", ![i].by = w]
        /\ run' = [run EXCEPT ![w] = [IdleRun EXCEPT !.pc = "open", !.row = i]]
  BY DEF Lease
<1> DEFINE rec == [IdleRun EXCEPT !.pc = "open", !.row = i]
           row == [rows[i] EXCEPT !.status = "running", !.by = w]
<1>2. /\ rows \in Seq(QueueRow) /\ i \in 1 .. Len(rows) /\ DOMAIN rows = 1 .. Len(rows)
      /\ i \in Nat
  BY LenProperties DEF EvidenceInv, PlaneTypes, Eligible
<1>3. rows[i] \in QueueRow
  BY <1>2, ElementOfSeq
<1>4. row \in QueueRow /\ row.resume = rows[i].resume
  BY <1>3 DEF QueueRow
<1>5. rec \in Run /\ rec.pc = "open" /\ rec.row = i
  BY <1>2 DEF Run, IdleRun
<1>6. rows' = [rows EXCEPT ![i] = row] /\ run' = [run EXCEPT ![w] = rec]
  BY <1>1
<1> HIDE DEF rec, row
<1>7. /\ rows' \in Seq(QueueRow) /\ DOMAIN rows' = DOMAIN rows
      /\ \A j \in DOMAIN rows : rows'[j].resume = rows[j].resume
  BY <1>2, <1>4, <1>6, ExceptSeq, LenProperties
<1>8. /\ run \in [Workers -> Run] /\ run' \in [Workers -> Run]
      /\ \A v \in Workers : run'[v] = IF v = w THEN rec ELSE run[v]
  BY <1>5, <1>6 DEF EvidenceInv, PlaneTypes
<1>9. UNCHANGED <<cp, call, boot>> /\ shared \subseteq shared' /\ ~Busy(w)
  BY DEF Lease
<1>10. PlaneTypes'
  BY <1>7, <1>8, <1>9 DEF EvidenceInv, PlaneTypes
<1>11. StatesAreGood' /\ RunsHaveRows'
  BY <1>2, <1>5, <1>7, <1>8, <1>9 DEF EvidenceInv, StatesAreGood, RunsHaveRows, Busy
<1>12. ResumedHasCheckpoint'
  BY <1>7, <1>9 DEF EvidenceInv, ResumedHasCheckpoint
<1>13. shared' = IF Others(w) = {} THEN shared ELSE shared \cup Others(w) \cup {w}
  BY DEF Lease
<1>14. \A v \in Workers : Busy(v)' <=> v = w \/ Busy(v)
  BY <1>5, <1>8 DEF Busy
<1>15. SharedIsKnown'
  <2>1. ASSUME NEW v \in Workers, v # w, Busy(v) PROVE v \in shared' /\ w \in shared'
    BY <1>13, <2>1 DEF Others
  <2>2. ASSUME ~ServerUp PROVE w \in shared' /\ "server" \in shared'
    BY <1>13, <2>2 DEF Others
  <2>3. ServerUp' <=> ServerUp
    BY <1>9 DEF ServerUp
  <2>4. QED BY <1>9, <1>14, <2>1, <2>2, <2>3 DEF AloneInv, SharedIsKnown
<1>16. AloneIsCurrent'
  <2>1. ASSUME NEW v \in Workers \ shared' PROVE Current(v)'
    <3>1. CASE v = w
      BY <1>5, <1>8, <3>1 DEF Current
    <3>2. CASE v # w
      BY <1>8, <1>9, <2>1, <3>2, CurrentAlone DEF Current, RowStatus, Outcome
    <3>3. QED BY <3>1, <3>2
  <2>2. QED BY <2>1 DEF AloneIsCurrent
<1>17. SeenIsCurrent'
  BY <1>9 DEF AloneInv, SeenIsCurrent
<1>18. QED BY <1>10, <1>11, <1>12, <1>15, <1>16, <1>17 DEF EvidenceInv, AloneInv

\* A worker that ends or dies leaves the others as they were.
LEMMA IdleStep ==
  ASSUME EvidenceInv, AloneInv, NEW w \in Workers,
         run' = [run EXCEPT ![w] = IdleRun], shared' = shared \ {w},
         UNCHANGED <<cp, call, boot>>,
         rows' \in Seq(QueueRow), DOMAIN rows' = DOMAIN rows,
         \A i \in DOMAIN rows : rows'[i].resume = rows[i].resume
  PROVE EvidenceInv' /\ AloneInv'
<1>1. IdleRun \in Run /\ IdleRun.pc = "idle"
  BY DEF IdleRun, Run
<1>2. /\ run' \in [Workers -> Run]
      /\ \A v \in Workers : run'[v] = IF v = w THEN IdleRun ELSE run[v]
  BY <1>1 DEF EvidenceInv, PlaneTypes
<1>3. PlaneTypes'
  BY <1>2 DEF EvidenceInv, PlaneTypes
<1>4. StatesAreGood' /\ RunsHaveRows' /\ ResumedHasCheckpoint'
  BY <1>1, <1>2 DEF EvidenceInv, StatesAreGood, RunsHaveRows, ResumedHasCheckpoint, Busy
<1>5. ~Busy(w)' /\ \A v \in Workers : v # w => (Busy(v)' <=> Busy(v))
  BY <1>1, <1>2 DEF Busy
<1>6. w # "server"
  BY DEF Workers
<1>7. SharedIsKnown'
  BY <1>5, <1>6 DEF AloneInv, SharedIsKnown, ServerUp
<1>8. AloneIsCurrent'
  <2>1. ASSUME NEW v \in Workers \ shared' PROVE Current(v)'
    <3>1. CASE v = w
      BY <1>1, <1>2, <3>1 DEF Current
    <3>2. CASE v # w
      BY <1>2, <2>1, <3>2, CurrentAlone DEF Current, RowStatus, Outcome
    <3>3. QED BY <3>1, <3>2
  <2>2. QED BY <2>1 DEF AloneIsCurrent
<1>9. SeenIsCurrent'
  BY <1>6 DEF AloneInv, SeenIsCurrent
<1>10. QED BY <1>3, <1>4, <1>7, <1>8, <1>9 DEF EvidenceInv, AloneInv

\* An UPDATE of one row.
LEMMA RowUpdated ==
  ASSUME rows \in Seq(QueueRow), NEW i \in DOMAIN rows, NEW row \in QueueRow,
         row.resume = rows[i].resume, rows' = [rows EXCEPT ![i] = row]
  PROVE /\ rows' \in Seq(QueueRow) /\ DOMAIN rows' = DOMAIN rows
        /\ \A j \in DOMAIN rows : rows'[j].resume = rows[j].resume
BY ExceptSeq, LenProperties

LEMMA CloseInv ==
  ASSUME EvidenceInv, AloneInv, NEW w \in Workers, Close(w)
  PROVE EvidenceInv' /\ AloneInv'
<1> DEFINE i == run[w].row
           row == [rows[i] EXCEPT !.status = run[w].status, !.by = Null]
<1>1. /\ rows \in Seq(QueueRow) /\ i \in DOMAIN rows /\ run[w] \in Run
  BY RunTyped DEF EvidenceInv, PlaneTypes, RunsHaveRows, Busy, Close
<1>2. run[w].status # "" => row \in QueueRow /\ row.resume = rows[i].resume
  <2>1. rows[i] \in QueueRow
    BY <1>1, ElementOfSeq, LenProperties
  <2>2. QED BY <1>1, <2>1 DEF QueueRow, Run
<1>3. rows' = rows \/ rows' = [rows EXCEPT ![i] = row]
  BY DEF Close
<1>4. run' = [run EXCEPT ![w] = IdleRun] /\ shared' = shared \ {w} /\ UNCHANGED <<cp, call, boot>>
  BY DEF Close
<1>5. run[w].status # ""
  BY DEF Close, EvidenceInv, RunsHaveRows
<1> HIDE DEF row
<1>6. /\ rows' \in Seq(QueueRow) /\ DOMAIN rows' = DOMAIN rows
      /\ \A j \in DOMAIN rows : rows'[j].resume = rows[j].resume
  BY <1>1, <1>2, <1>3, <1>5, RowUpdated
<1>7. QED BY <1>4, <1>6, IdleStep

LEMMA DieInv ==
  ASSUME EvidenceInv, AloneInv, Die
  PROVE EvidenceInv' /\ AloneInv'
<1>1. "external" \in Workers
  BY DEF Workers
<1>2. rows \in Seq(QueueRow)
  BY DEF EvidenceInv, PlaneTypes
<1>3. QED BY <1>1, <1>2, IdleStep DEF Die

LEMMA ExpireInv ==
  ASSUME EvidenceInv, AloneInv, NEW i \in DOMAIN rows, Expire(i)
  PROVE EvidenceInv' /\ AloneInv'
<1> DEFINE row == [rows[i] EXCEPT !.status = "queued", !.by = Null]
<1>1. rows \in Seq(QueueRow) /\ rows[i] \in QueueRow
  BY ElementOfSeq, LenProperties DEF EvidenceInv, PlaneTypes
<1>2. row \in QueueRow /\ row.resume = rows[i].resume
  BY <1>1 DEF QueueRow
<1>3. rows' = [rows EXCEPT ![i] = row] /\ UNCHANGED <<cp, call, boot, run, shared>>
  BY DEF Expire
<1> HIDE DEF row
<1>4. /\ rows' \in Seq(QueueRow) /\ DOMAIN rows' = DOMAIN rows
      /\ \A j \in DOMAIN rows : rows'[j].resume = rows[j].resume
  BY <1>1, <1>2, <1>3, RowUpdated
<1>5. ResumedHasCheckpoint'
  BY <1>3, <1>4 DEF EvidenceInv, ResumedHasCheckpoint
<1>6. call' \in [Calls -> {"none", "enqueue", "clear", "flag", "rows"}]
  BY <1>3 DEF EvidenceInv, PlaneTypes
<1>7. QED BY <1>3, <1>4, <1>5, <1>6, CallStep

\* The external worker goes on while the server is down: both are known to share.
LEMMA RestartInv ==
  ASSUME EvidenceInv, AloneInv, Restart
  PROVE EvidenceInv' /\ AloneInv'
<1>1. IdleRun \in Run /\ IdleRun.pc = "idle"
  BY DEF IdleRun, Run
<1>2. /\ run' \in [Workers -> Run]
      /\ \A v \in Workers : run'[v] = IF v = "embedded" THEN IdleRun ELSE run[v]
  BY <1>1 DEF EvidenceInv, PlaneTypes, Restart
<1>3. /\ boot'.step = "read" /\ boot'.seen = Null
      /\ call' = [c \in Calls |-> "none"] /\ UNCHANGED <<cp, rows>>
      /\ boot' \in [step: {"up", "read", "write"}, seen: {Null} \cup CheckpointRecord]
  BY DEF Restart
<1>4. PlaneTypes'
  BY <1>2, <1>3 DEF EvidenceInv, PlaneTypes
<1>5. "resume" \in Calls
  BY DEF Calls
<1>6. StatesAreGood' /\ RunsHaveRows' /\ ResumedHasCheckpoint'
  BY <1>1, <1>2, <1>3, <1>5 DEF EvidenceInv, StatesAreGood, RunsHaveRows, ResumedHasCheckpoint, Busy
<1>7. ASSUME NEW v \in Workers, Busy(v)' PROVE v = "external" /\ v \in shared' /\ "server" \in shared'
  <2>1. v = "external" /\ run'[v] = run[v]
    BY <1>1, <1>2, <1>7 DEF Busy, Workers
  <2>2. Busy("external")
    BY <1>7, <2>1 DEF Busy
  <2>3. QED BY <2>1, <2>2 DEF Restart
<1>8. SharedIsKnown'
  BY <1>7 DEF SharedIsKnown
<1>9. ASSUME NEW v \in Workers \ shared' PROVE Current(v)'
  BY <1>7, <1>9 DEF Current, Busy
<1>10. SeenIsCurrent'
  BY <1>3 DEF SeenIsCurrent
<1>11. QED BY <1>4, <1>6, <1>8, <1>9, <1>10 DEF EvidenceInv, AloneInv, AloneIsCurrent

LEMMA ReconcileReadInv ==
  ASSUME EvidenceInv, AloneInv, ReconcileRead
  PROVE EvidenceInv' /\ AloneInv'
<1>1. UNCHANGED <<cp, rows, call, run, shared>> /\ boot.step = "read"
  BY DEF ReconcileRead
<1>2. /\ boot'.step = "write" /\ boot'.seen = cp
      /\ boot' \in [step: {"up", "read", "write"}, seen: {Null} \cup CheckpointRecord]
  BY DEF ReconcileRead, EvidenceInv, PlaneTypes
<1>3. EvidenceInv'
  BY <1>1, <1>2 DEF EvidenceInv, PlaneTypes, StatesAreGood, ResumedHasCheckpoint, RunsHaveRows, Busy
<1>4. SharedIsKnown'
  BY <1>1, <1>2 DEF AloneInv, SharedIsKnown, ServerUp, Busy
<1>5. AloneIsCurrent'
  BY <1>1 DEF AloneInv, AloneIsCurrent, Current, RowStatus, Outcome
<1>6. SeenIsCurrent'
  BY <1>1, <1>2 DEF SeenIsCurrent
<1>7. QED BY <1>3, <1>4, <1>5, <1>6 DEF AloneInv

LEMMA ReconcileWriteInv ==
  ASSUME EvidenceInv, AloneInv, ReconcileWrite
  PROVE EvidenceInv' /\ AloneInv'
<1>1. UNCHANGED <<rows, call, run>> /\ boot.step = "write" /\ shared' = shared \ {"server"}
  BY DEF ReconcileWrite
<1>2. /\ boot'.step = "up" /\ boot'.seen = Null
      /\ boot' \in [step: {"up", "read", "write"}, seen: {Null} \cup CheckpointRecord]
  BY DEF ReconcileWrite, Up
<1>3. cp' = cp \/ GoodCheckpoint(cp')
  <2>1. CASE boot.seen # Null /\ boot.seen.status \in {"queued", "running"}
    <3>1. cp' = [boot.seen EXCEPT !.status = "interrupted"] /\ "interrupted" \in Statuses
      BY <2>1 DEF ReconcileWrite, Statuses
    <3>2. GoodCheckpoint(boot.seen)
      BY <2>1 DEF EvidenceInv, StatesAreGood
    <3>3. QED BY <3>1, <3>2, MarkedGood
  <2>2. CASE ~(boot.seen # Null /\ boot.seen.status \in {"queued", "running"})
    BY <2>2 DEF ReconcileWrite
  <2>3. QED BY <2>1, <2>2
<1>4. cp' = cp \/ (cp' \in CheckpointRecord /\ cp' # Null)
  BY <1>3, NullAssumption DEF GoodCheckpoint
<1>5. EvidenceInv'
  BY <1>1, <1>2, <1>3, <1>4
     DEF EvidenceInv, PlaneTypes, StatesAreGood, ResumedHasCheckpoint, RunsHaveRows, Busy
<1>6. ASSUME NEW w \in Workers, Busy(w) PROVE w \in shared'
  <2>1. w \in shared /\ w # "server"
    BY <1>1, <1>6 DEF AloneInv, SharedIsKnown, ServerUp, Workers
  <2>2. QED BY <1>1, <2>1
<1>7. SharedIsKnown'
  BY <1>1, <1>2, <1>6 DEF SharedIsKnown, ServerUp, Busy
<1>8. AloneIsCurrent'
  BY <1>1, <1>6 DEF AloneIsCurrent, Current, Busy
<1>9. SeenIsCurrent'
  BY <1>2 DEF SeenIsCurrent
<1>10. QED BY <1>5, <1>7, <1>8, <1>9 DEF AloneInv

-----------------------------------------------------------------------------
\* The calls.

\* A call inserts a row; a resumed one only when there is a checkpoint.
LEMMA EnqueueInv ==
  ASSUME EvidenceInv, AloneInv, NEW resume \in BOOLEAN, Enqueue(resume),
         resume => cp # Null, NEW c \in Calls, Goto(c, "none"),
         UNCHANGED <<cp, boot, run, shared>>
  PROVE EvidenceInv' /\ AloneInv'
<1> DEFINE row == [resume |-> resume, status |-> "queued", cancel |-> FALSE, by |-> Null]
<1>1. rows \in Seq(QueueRow) /\ call \in [Calls -> {"none", "enqueue", "clear", "flag", "rows"}]
  BY DEF EvidenceInv, PlaneTypes
<1>2. row \in QueueRow /\ row.resume = resume
  BY DEF QueueRow
<1>3. rows' = Append(rows, row)
  BY DEF Enqueue
<1> HIDE DEF row
<1>4. /\ rows' \in Seq(QueueRow) /\ Len(rows') = Len(rows) + 1 /\ Len(rows) \in Nat
      /\ \A i \in 1 .. Len(rows) : rows'[i] = rows[i]
      /\ rows'[Len(rows) + 1] = row
  BY <1>1, <1>2, <1>3, LenProperties
<1>5. DOMAIN rows = 1 .. Len(rows) /\ DOMAIN rows' = 1 .. Len(rows) + 1
  BY <1>1, <1>4, LenProperties
<1>6. call' \in [Calls -> {"none", "enqueue", "clear", "flag", "rows"}]
  BY <1>1 DEF Goto
<1>7. DOMAIN rows \subseteq DOMAIN rows'
  BY <1>4, <1>5
<1>8. ResumedHasCheckpoint'
  <2>1. CASE cp # Null
    BY <2>1 DEF ResumedHasCheckpoint
  <2>2. CASE cp = Null
    <3>1. ~resume /\ call["resume"] = "none" /\ \A i \in DOMAIN rows : ~rows[i].resume
      BY <2>2 DEF EvidenceInv, ResumedHasCheckpoint
    <3>2. \A i \in DOMAIN rows' : ~rows'[i].resume
      BY <1>2, <1>4, <1>5, <3>1
    <3>3. call'["resume"] = "none"
      BY <1>1, <3>1 DEF Goto, Calls
    <3>4. QED BY <3>2, <3>3 DEF ResumedHasCheckpoint
  <2>3. QED BY <2>1, <2>2
<1>9. QED BY <1>4, <1>6, <1>7, <1>8, CallStep

LEMMA CallsInv ==
  ASSUME EvidenceInv, AloneInv,
         \/ CreateClear \/ CreateEnqueue \/ ResumeRead \/ ResumeClear \/ ResumeEnqueue
         \/ CancelRead \/ CancelFlag \/ CancelRows
  PROVE EvidenceInv' /\ AloneInv'
<1>1. /\ rows \in Seq(QueueRow) /\ "resume" \in Calls
      /\ call \in [Calls -> {"none", "enqueue", "clear", "flag", "rows"}]
  BY DEF EvidenceInv, PlaneTypes, Calls
<1>2. CASE CreateEnqueue
  BY <1>2, EnqueueInv DEF CreateEnqueue, Calls
<1>3. CASE ResumeEnqueue
  <2>1. cp # Null
    BY <1>3 DEF EvidenceInv, ResumedHasCheckpoint, ResumeEnqueue
  <2>2. QED BY <1>1, <1>3, <2>1, EnqueueInv DEF ResumeEnqueue
<1>4. ASSUME NEW c \in Calls, NEW step \in {"none", "enqueue", "clear", "flag", "rows"},
             Goto(c, step), c = "resume" => cp # Null,
             UNCHANGED <<cp, rows, boot, run, shared>>
      PROVE EvidenceInv' /\ AloneInv'
  <2>1. call' \in [Calls -> {"none", "enqueue", "clear", "flag", "rows"}]
    BY <1>1, <1>4 DEF Goto
  <2>2. c # "resume" => call'["resume"] = call["resume"]
    BY <1>1, <1>4 DEF Goto
  <2>3. ResumedHasCheckpoint'
    BY <1>4, <2>2 DEF EvidenceInv, ResumedHasCheckpoint
  <2>4. QED BY <1>1, <1>4, <2>1, <2>3, CallStep
<1>5. CASE CreateClear \/ CancelRead \/ CancelFlag
  BY <1>4, <1>5 DEF CreateClear, CancelRead, CancelFlag, Calls
<1>6. CASE ResumeRead
  BY <1>1, <1>4, <1>6 DEF ResumeRead
<1>7. CASE ResumeClear
  <2>1. cp # Null
    BY <1>7 DEF EvidenceInv, ResumedHasCheckpoint, ResumeClear
  <2>2. QED BY <1>1, <1>4, <1>7, <2>1 DEF ResumeClear
<1>8. CASE CancelRows
  <2>1. ASSUME NEW i \in DOMAIN rows
        PROVE rows'[i] \in QueueRow /\ rows'[i].resume = rows[i].resume
    <3>1. rows[i] \in QueueRow
      BY <1>1, <2>1, ElementOfSeq, LenProperties
    <3>2. QED BY <1>8, <3>1 DEF CancelRows, QueueRow
  <2>2. DOMAIN rows = 1 .. Len(rows) /\ Len(rows) \in Nat
    BY <1>1, LenProperties
  <2>3. DOMAIN rows' = DOMAIN rows /\ rows' = [i \in DOMAIN rows |-> rows'[i]]
    BY <1>8 DEF CancelRows
  <2>4. rows' \in Seq(QueueRow)
    <3>1. rows' \in [1 .. Len(rows) -> QueueRow]
      BY <2>1, <2>2, <2>3
    <3>2. QED BY <2>2, <3>1, SeqDef
  <2>5. call' \in [Calls -> {"none", "enqueue", "clear", "flag", "rows"}]
    BY <1>1, <1>8 DEF CancelRows, Goto
  <2>6. call'["resume"] = call["resume"] /\ UNCHANGED <<cp, boot, run, shared>>
    BY <1>1, <1>8 DEF CancelRows, Goto
  <2>7. ResumedHasCheckpoint'
    BY <2>1, <2>3, <2>6 DEF EvidenceInv, ResumedHasCheckpoint
  <2>8. QED BY <2>3, <2>4, <2>5, <2>6, <2>7, CallStep
<1>9. QED BY <1>2, <1>3, <1>5, <1>6, <1>7, <1>8

-----------------------------------------------------------------------------
\* The invariant.

LEMMA PlaneInit == Init => EvidenceInv /\ AloneInv /\ CancelInv
<1>1. SUFFICES ASSUME Init PROVE EvidenceInv /\ AloneInv /\ CancelInv
  OBVIOUS
<1>2. /\ \A w \in Workers : run[w] = IdleRun
      /\ IdleRun \in Run /\ IdleRun.pc = "idle"
  BY <1>1 DEF Init, IdleRun, Run
<1>3. boot = [step |-> "up", seen |-> Null] /\ boot.step = "up" /\ boot.seen = Null
  BY <1>1 DEF Init, Up
<1>4. rows = <<>> /\ DOMAIN rows = {} /\ rows \in Seq(QueueRow)
  BY <1>1, EmptySeq, LenProperties DEF Init
<1>5. PlaneTypes
  BY <1>1, <1>2, <1>3, <1>4 DEF Init, PlaneTypes
<1>6. StatesAreGood /\ RunsHaveRows
  BY <1>1, <1>2, <1>3 DEF Init, StatesAreGood, RunsHaveRows, Busy
<1>7. ResumedHasCheckpoint
  BY <1>1, <1>4 DEF Init, ResumedHasCheckpoint, Calls
<1>8. AloneInv
  BY <1>2, <1>3 DEF AloneInv, SharedIsKnown, AloneIsCurrent, Current, SeenIsCurrent, Busy
<1>9. QED BY <1>1, <1>5, <1>6, <1>7, <1>8 DEF Init, EvidenceInv, CancelInv

LEMMA WorkerStepInv ==
  ASSUME EvidenceInv, AloneInv, NEW w \in Workers, WorkerStep(w)
  PROVE EvidenceInv' /\ AloneInv'
<1>1. CASE CancelSeen(w)
  BY <1>1, EndInv DEF CancelSeen
<1>2. CASE Block(w)
  BY <1>2, EndInv DEF Block
<1>3. QED
  BY <1>1, <1>2, LeaseInv, OpenFreshInv, OpenResumedInv, StartBatchInv, FinishBatchInv,
     FinalizeInv, RaiseInv, MarkFailedInv, ReadStatusInv, CloseInv DEF WorkerStep

LEMMA PlaneStep ==
  EvidenceInv /\ AloneInv /\ [Next]_vars => EvidenceInv' /\ AloneInv'
<1>1. SUFFICES ASSUME EvidenceInv, AloneInv, [Next]_vars PROVE EvidenceInv' /\ AloneInv'
  OBVIOUS
<1>2. CASE UNCHANGED vars
  <2>1. rows' \in Seq(QueueRow) /\ call' \in [Calls -> {"none", "enqueue", "clear", "flag", "rows"}]
    BY <1>1, <1>2 DEF vars, EvidenceInv, PlaneTypes
  <2>2. ResumedHasCheckpoint'
    BY <1>1, <1>2 DEF vars, EvidenceInv, ResumedHasCheckpoint
  <2>3. QED BY <1>1, <1>2, <2>1, <2>2, CallStep DEF vars
<1>3. CASE \/ CreateClear \/ CreateEnqueue \/ ResumeRead \/ ResumeClear \/ ResumeEnqueue
           \/ CancelRead \/ CancelFlag \/ CancelRows
  BY <1>1, <1>3, CallsInv
<1>4. QED
  BY <1>1, <1>2, <1>3, WorkerStepInv, ExpireInv, DieInv, RestartInv, ReconcileReadInv,
     ReconcileWriteInv DEF Next

\* Nobody clears the flag of a cancelled job but the calls that end the cancellation.
LEMMA CancelStep ==
  EvidenceInv /\ CancelInv /\ [Next]_vars => CancelInv'
<1>1. SUFFICES ASSUME EvidenceInv, CancelInv, [Next]_vars PROVE CancelInv'
  OBVIOUS
<1>2. call \in [Calls -> {"none", "enqueue", "clear", "flag", "rows"}]
      /\ Calls = {"create", "cancel", "resume"}
  BY <1>1 DEF EvidenceInv, PlaneTypes, Calls
<1>3. CASE CreateClear \/ ResumeRead
  BY <1>3 DEF CreateClear, ResumeRead, CancelInv
<1>4. CASE CancelFlag
  BY <1>2, <1>4 DEF CancelFlag, CancelInv, Goto
<1>5. CASE CreateEnqueue \/ ResumeClear \/ ResumeEnqueue \/ CancelRead \/ CancelRows
  BY <1>1, <1>2, <1>5
     DEF CreateEnqueue, ResumeClear, ResumeEnqueue, CancelRead, CancelRows, CancelInv, Goto
<1>6. CASE Restart
  BY <1>1, <1>2, <1>6 DEF Restart, CancelInv
<1>7. CASE \/ \E w \in Workers : WorkerStep(w)
           \/ \E i \in DOMAIN rows : Expire(i)
           \/ Die \/ ReconcileRead \/ ReconcileWrite \/ UNCHANGED vars
  <2>1. UNCHANGED <<flag, call, cancelled>>
    BY <1>7
       DEF WorkerStep, Lease, OpenFresh, OpenResumed, CancelSeen, End, StartBatch, FinishBatch,
           Block, Finalize, Raise, MarkFailed, ReadStatus, Close, Expire, Die, ReconcileRead,
           ReconcileWrite, vars
  <2>2. QED BY <1>1, <2>1 DEF CancelInv
<1>8. QED BY <1>1, <1>3, <1>4, <1>5, <1>6, <1>7 DEF Next

LEMMA PlaneInvariant == Spec => [](EvidenceInv /\ AloneInv /\ CancelInv)
<1>1. EvidenceInv /\ AloneInv /\ CancelInv /\ [Next]_vars => (EvidenceInv /\ AloneInv /\ CancelInv)'
  BY PlaneStep, CancelStep
<1>2. QED BY <1>1, PlaneInit, PTL DEF Spec

-----------------------------------------------------------------------------
\* The theorems.

\* Whatever calls, workers, deaths and restarts interleave, the checkpoint is the state
\* of one run of the evaluator, and a complete one holds all of the evidence, once.
THEOREM CheckpointIsExact == Spec => []BundleIsExact
<1>1. EvidenceInv => BundleIsExact
  BY DEF EvidenceInv, StatesAreGood, GoodCheckpoint, BundleIsExact
<1>2. QED BY <1>1, PlaneInvariant, PTL

-----------------------------------------------------------------------------
\* Whose step it is.

\* A worker changes its own run only.
LEMMA WorkersApart ==
  ASSUME EvidenceInv, NEW v \in Workers, NEW w \in Workers, v # w, WorkerStep(v)
  PROVE run'[w] = run[w]
<1>1. run \in [Workers -> Run]
  BY DEF EvidenceInv, PlaneTypes
<1>2. CASE Lease(v) \/ Close(v) \/ ReadStatus(v) \/ Raise(v) \/ StartBatch(v)
  BY <1>1, <1>2 DEF Lease, Close, ReadStatus, Raise, StartBatch
<1>3. CASE OpenFresh(v) \/ OpenResumed(v) \/ \E ok \in BOOLEAN : FinishBatch(v, ok)
  BY <1>1, <1>3 DEF OpenFresh, OpenResumed, Open, FinishBatch
<1>4. CASE CancelSeen(v) \/ Block(v) \/ Finalize(v) \/ MarkFailed(v)
  BY <1>1, <1>4 DEF CancelSeen, Block, Finalize, MarkFailed, End, Closing
<1>5. QED BY <1>2, <1>3, <1>4 DEF WorkerStep

\* If a run changes, its worker takes a step or dies.
LEMMA RunChanges ==
  ASSUME EvidenceInv, [Next]_vars, NEW w \in Workers, run'[w] # run[w]
  PROVE WorkerStep(w) \/ (run'[w] = IdleRun /\ (Die \/ Restart))
<1>1. run \in [Workers -> Run]
  BY DEF EvidenceInv, PlaneTypes
<1>2. CASE \E v \in Workers : WorkerStep(v)
  BY <1>2, WorkersApart
<1>3. CASE Die \/ Restart
  BY <1>1, <1>3 DEF Die, Restart
<1>4. CASE \/ CreateClear \/ CreateEnqueue \/ ResumeRead \/ ResumeClear \/ ResumeEnqueue
           \/ CancelRead \/ CancelFlag \/ CancelRows \/ (\E i \in DOMAIN rows : Expire(i))
           \/ ReconcileRead \/ ReconcileWrite \/ UNCHANGED vars
  BY <1>4
     DEF CreateClear, CreateEnqueue, ResumeRead, ResumeClear, ResumeEnqueue, CancelRead,
         CancelFlag, CancelRows, Expire, ReconcileRead, ReconcileWrite, vars
<1>5. QED BY <1>2, <1>3, <1>4 DEF Next

\* From the loop a run goes on to an inspection by StartBatch only.
LEMMA InspectionBegins ==
  ASSUME EvidenceInv, [Next]_vars, NEW w \in Workers,
         run[w].pc = "loop", run'[w].pc = "inspect"
  PROVE StartBatch(w)
<1>0. IdleRun.pc = "idle"
  BY DEF IdleRun
<1>1. run \in [Workers -> Run] /\ run'[w] # IdleRun
  BY <1>0 DEF EvidenceInv, PlaneTypes
<1>2. WorkerStep(w)
  BY <1>1, RunChanges
<1>3. ~Lease(w) /\ ~OpenFresh(w) /\ ~OpenResumed(w) /\ ~MarkFailed(w)
        /\ ~ReadStatus(w) /\ ~Close(w) /\ ~ \E ok \in BOOLEAN : FinishBatch(w, ok)
  BY DEF Lease, Busy, OpenFresh, OpenResumed, MarkFailed, ReadStatus, Close, FinishBatch
<1>4. ~CancelSeen(w) /\ ~Block(w) /\ ~Finalize(w)
  BY <1>1 DEF CancelSeen, Block, Finalize, End, Closing, IdleRun
<1>5. ~Raise(w)
  <2>1. run[w] \in Run
    BY <1>1
  <2>2. QED BY <1>1, <2>1 DEF Raise, Run
<1>6. QED BY <1>2, <1>3, <1>4, <1>5 DEF WorkerStep

\* A cancelled job stays cancelled: no worker begins an inspection of it before a call
\* creates or resumes it.
THEOREM CancelledStaysCancelled == Spec => CancelIsKept
<1>1. EvidenceInv /\ CancelInv /\ [Next]_vars =>
        [\A w \in Workers :
           (run[w].pc = "loop" /\ run'[w].pc = "inspect") => ~cancelled]_vars
  BY InspectionBegins DEF CancelInv, StartBatch
<1>2. QED BY <1>1, PlaneInvariant, PTL DEF Spec, CancelIsKept

\* The row of a run that was alone is closed with the outcome of that run.
LEMMA RowSaysOutcome ==
  ASSUME EvidenceInv, AloneInv, [Next]_vars, NEW w \in Workers,
         run[w].pc = "row", run'[w].pc = "idle", w \notin shared,
         rows'[run[w].row] # rows[run[w].row]
  PROVE rows'[run[w].row].status = Outcome(w)
<1> DEFINE i == run[w].row
<1>1. run'[w] # run[w]
  OBVIOUS
<1>2. ~Die /\ ~Restart
  BY DEF Die, Restart
<1>3. WorkerStep(w)
  BY <1>1, <1>2, RunChanges
<1>4. Close(w)
  BY <1>3 DEF WorkerStep, Lease, Busy, OpenFresh, OpenResumed, CancelSeen, StartBatch, FinishBatch,
              Block, Finalize, Raise, MarkFailed, ReadStatus
<1>5. rows \in Seq(QueueRow) /\ i \in DOMAIN rows
  BY DEF EvidenceInv, PlaneTypes, RunsHaveRows, Busy
<1>6. i \in 1 .. Len(rows) /\ rows[i] \in QueueRow
  BY <1>5, LenProperties, ElementOfSeq
<1>7. rows' = [rows EXCEPT ![i].status = run[w].status, ![i].by = Null]
  BY <1>4 DEF Close
<1> DEFINE row == [rows[i] EXCEPT !.status = run[w].status, !.by = Null]
<1>8. rows'[i] = row
  BY <1>5, <1>7
<1>9. row.status = run[w].status
  BY <1>6 DEF QueueRow
<1>10. run[w].status = Outcome(w)
  BY CurrentAlone DEF Current
<1>11. QED BY <1>8, <1>9, <1>10

THEOREM OutcomesAreOwn == Spec => OutcomeIsOwn
<1>1. EvidenceInv /\ AloneInv /\ [Next]_vars =>
        [\A w \in Workers :
           (run[w].pc = "row" /\ run'[w].pc = "idle" /\ w \notin shared
              /\ rows[run[w].row].status = "running" /\ rows'[run[w].row] # rows[run[w].row]) =>
             rows'[run[w].row].status =
               (IF run[w].end = "blocked" THEN "complete" ELSE run[w].end)]_vars
  BY RowSaysOutcome DEF Outcome
<1>2. QED BY <1>1, PlaneInvariant, PTL DEF Spec, OutcomeIsOwn

-----------------------------------------------------------------------------
\* What a step leaves in the checkpoint.

\* A checkpoint that replaces c keeps its inspected blocks and its final judgment.
Extends(c, d) ==
  /\ c.state.visited \subseteq d.state.visited
  /\ c.complete => d.complete

\* A run that is alone extends the checkpoint it wrote or read last.
LEMMA AloneExtends ==
  ASSUME EvidenceInv, AloneInv, NEW w \in Workers, WorkerStep(w), w \notin shared, cp # Null,
         ~OpenFresh(w)
  PROVE Extends(cp, cp')
<1>1. Current(w)
  BY CurrentAlone
<1>2. CASE Lease(w) \/ OpenResumed(w) \/ StartBatch(w) \/ Raise(w) \/ ReadStatus(w) \/ Close(w)
  BY <1>2 DEF Lease, OpenResumed, StartBatch, Raise, ReadStatus, Close, Extends
<1>3. CASE CancelSeen(w) \/ Block(w)
  <2>1. PICK status \in {"cancelled", "blocked"} : cp' = Checkpoint(run[w].state, status)
    BY <1>3 DEF CancelSeen, Block, End
  <2>2. cp'.state = run[w].state
    BY <2>1 DEF Checkpoint
  <2>3. run[w].pc = "loop" /\ cp.state = run[w].state
    BY <1>1, <1>3 DEF Current, CancelSeen, Block
  <2>4. ~cp.complete
    BY <1>1, <1>3, <2>3, RunTyped DEF Current, CancelSeen, Block, GoodCheckpoint
  <2>5. QED BY <2>2, <2>3, <2>4 DEF Extends
<1>4. CASE \E ok \in BOOLEAN : FinishBatch(w, ok)
  <2>1. PICK ok \in BOOLEAN : FinishBatch(w, ok)
    BY <1>4
  <2>2. PICK b \in Blocks : cp' = Checkpoint(AfterBatch(run[w].state, b, ok), "running")
    BY <2>1 DEF FinishBatch
  <2>3. run[w].pc = "inspect" /\ GoodState(run[w].state)
    BY <2>1, RunTyped DEF FinishBatch
  <2>4. run[w].state.visited \subseteq AfterBatch(run[w].state, b, ok).visited
    BY <2>3, AfterBatchGood
  <2>5. cp'.state = AfterBatch(run[w].state, b, ok)
    BY <2>2 DEF Checkpoint
  <2>6. cp.state = run[w].state /\ ~cp.complete
    BY <1>1, <2>3 DEF Current
  <2>7. QED BY <2>4, <2>5, <2>6 DEF Extends
<1>5. CASE Finalize(w)
  <2>1. run[w].pc = "loop" /\ GoodState(run[w].state) /\ run[w].state.visited = Blocks
    BY <1>5, RunTyped DEF Finalize
  <2>2. cp'.complete /\ cp'.state = ReduceState(run[w].state)
    BY <1>5, <2>1, CompleteGood DEF Finalize
  <2>3. ReduceState(run[w].state).visited = run[w].state.visited
    BY <2>1, ReduceStateGood
  <2>4. cp.state = run[w].state
    BY <1>1, <2>1 DEF Current
  <2>5. QED BY <2>2, <2>3, <2>4 DEF Extends
<1>6. CASE MarkFailed(w)
  <2>1. run[w].state = cp /\ GoodCheckpoint(cp) /\ "failed" \in Statuses
    BY <1>1, <1>6, RunTyped DEF Current, MarkFailed, Statuses
  <2>2. cp' = [cp EXCEPT !.status = "failed"]
    BY <1>6, <2>1 DEF MarkFailed
  <2>3. cp'.state = cp.state /\ cp'.complete = cp.complete
    BY <2>1, <2>2, MarkedGood
  <2>4. QED BY <2>3 DEF Extends
<1>7. QED BY <1>2, <1>3, <1>4, <1>5, <1>6 DEF WorkerStep

\* A run that is not alone changes its own state whenever it writes the checkpoint.
LEMMA WritingIsSeen ==
  ASSUME EvidenceInv, NEW w \in Workers, WorkerStep(w), cp' # cp, ~OpenFresh(w)
  PROVE Writes(w)
<1>1. run \in [Workers -> Run] /\ run[w] \in Run
  BY DEF EvidenceInv, PlaneTypes
<1>2. CASE CancelSeen(w) \/ Block(w) \/ Finalize(w) \/ MarkFailed(w)
  BY <1>1, <1>2 DEF CancelSeen, Block, Finalize, MarkFailed, End, Closing, Writes, IdleRun
<1>3. CASE \E ok \in BOOLEAN : FinishBatch(w, ok)
  <2>1. run[w].pc = "inspect"
    BY <1>3 DEF FinishBatch
  <2>2. run'[w].pc = "loop"
    <3>1. PICK todo, state :
            run' = [run EXCEPT ![w].pc = "loop", ![w].todo = todo, ![w].state = state]
      BY <1>3 DEF FinishBatch
    <3>2. run'[w] = [run[w] EXCEPT !.pc = "loop", !.todo = todo, !.state = state]
      BY <1>1, <3>1
    <3>3. QED BY <1>1, <3>2 DEF Run
  <2>3. QED BY <2>1, <2>2 DEF Writes
<1>4. QED
  BY <1>2, <1>3
     DEF WorkerStep, Lease, OpenResumed, StartBatch, Raise, ReadStatus, Close

\* A server that starts alone marks the checkpoint it has just read.
LEMMA ReconcileExtends ==
  ASSUME EvidenceInv, AloneInv, ReconcileWrite, "server" \notin shared, cp # Null
  PROVE Extends(cp, cp')
<1>1. boot.seen = cp /\ GoodCheckpoint(cp) /\ "interrupted" \in Statuses
  BY DEF AloneInv, SeenIsCurrent, EvidenceInv, StatesAreGood, ReconcileWrite, Statuses
<1>2. CASE cp' = cp
  BY <1>2 DEF Extends
<1>3. CASE cp' # cp
  <2>1. cp' = [cp EXCEPT !.status = "interrupted"]
    BY <1>1, <1>3 DEF ReconcileWrite
  <2>2. cp'.state = cp.state /\ cp'.complete = cp.complete
    BY <1>1, <2>1, MarkedGood
  <2>3. QED BY <2>2 DEF Extends
<1>4. QED BY <1>2, <1>3

\* Only an initial request that is executed, or somebody who did not work alone, takes
\* inspected blocks or the final judgment out of the checkpoint.
LEMMA UndoneStep ==
  ASSUME EvidenceInv, AloneInv, [Next]_vars, Undone
  PROVE \/ \E w \in Workers : run[w].pc = "open" /\ ~Resumes(w) /\ run'[w].pc = "loop"
        \/ \E w \in shared \cap Workers : Writes(w)
        \/ "server" \in shared /\ boot.step = "write"
<1>1. cp # Null /\ ~Extends(cp, cp')
  BY DEF Undone, Extends
<1>2. cp' # cp
  BY <1>1 DEF Extends
<1>3. CASE \E w \in Workers : WorkerStep(w)
  <2>1. PICK w \in Workers : WorkerStep(w)
    BY <1>3
  <2>2. CASE OpenFresh(w)
    <3>1. run[w] \in Run /\ run \in [Workers -> Run]
      BY DEF EvidenceInv, PlaneTypes
    <3>2. run'[w].pc = "loop"
      BY <2>2, <3>1 DEF OpenFresh, Open, Run
    <3>3. QED BY <2>2, <3>2 DEF OpenFresh
  <2>3. CASE ~OpenFresh(w)
    <3>1. w \in shared
      BY <1>1, <2>1, <2>3, AloneExtends
    <3>2. QED BY <1>2, <2>1, <2>3, <3>1, WritingIsSeen
  <2>4. QED BY <2>2, <2>3
<1>4. CASE ReconcileWrite
  BY <1>1, <1>4, ReconcileExtends DEF ReconcileWrite
<1>5. CASE \/ CreateClear \/ CreateEnqueue \/ ResumeRead \/ ResumeClear \/ ResumeEnqueue
           \/ CancelRead \/ CancelFlag \/ CancelRows \/ (\E i \in DOMAIN rows : Expire(i))
           \/ Die \/ Restart \/ ReconcileRead \/ UNCHANGED vars
  BY <1>2, <1>5
     DEF CreateClear, CreateEnqueue, ResumeRead, ResumeClear, ResumeEnqueue, CancelRead,
         CancelFlag, CancelRows, Expire, Die, Restart, ReconcileRead, vars
<1>6. QED BY <1>3, <1>4, <1>5 DEF Next

THEOREM NothingIsUndoneAlone == Spec => UndoneOnlyByOverlap
<1>1. EvidenceInv /\ AloneInv /\ [Next]_vars =>
        [Undone =>
           \/ \E w \in Workers : run[w].pc = "open" /\ ~Resumes(w) /\ run'[w].pc = "loop"
           \/ \E w \in shared \cap Workers : Writes(w)
           \/ "server" \in shared /\ boot.step = "write"]_vars
  BY UndoneStep
<1>2. QED BY <1>1, PlaneInvariant, PTL DEF Spec, UndoneOnlyByOverlap
=============================================================================
