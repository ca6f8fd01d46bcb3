----------------------------- MODULE ProofHarness -----------------------------
(***************************************************************************)
(* A run of the big-context proof (main of benchmarks/big_context_proof.py *)
(* over big_context_proof.py): Gates 1 and 2, a traversal of the corpus    *)
(* with all needle questions and one with all tasks for Gate 3, both again *)
(* at every ratio for Gate 4, Gate 5, and the claim.  A traversal hands    *)
(* the blocks to a thread pool whose calls of the model may fail and are   *)
(* retried; a judge that cannot take all questions at once is run through  *)
(* the evaluator, a traversal per question.                                *)
(*                                                                         *)
(* The plan of Gate 4 is made by a process of its own, earlier or not at   *)
(* all, and the corpus may be ingested again at any time: block ids are    *)
(* positions in files, so the block of an id changes, and a block that is  *)
(* required no more stays in the store.                                    *)
(***************************************************************************)
EXTENDS ScalePlan

CONSTANTS
  Corpora, Matrices,     \* what is ingested, and the needle matrices, sets of cases
  Tasks,                 \* the task cases
  Routes,                \* [reads: modalities, batch: takes all questions at once]
  References,            \* snapshots of earlier runs, or NoValue
  PlanRequests,          \* [spec, cases] the planner may be called with
  Gate1Spec, Gate2Spec, Gate3Spec, ScaleSpec, Gate5Spec,
  Workers, Attempts,     \* max_workers, retry_attempts
  MaxFaults, MaxChanges  \* bounds: blocks or tasks a call fails or lies about, ingests

\* A manifest names a block once, and two blocks have two hashes.
ASSUME CorporaAssumption ==
  /\ NoValue \notin Corpora
  /\ \A c \in Corpora :
       /\ IsFiniteSet(c.blocks)
       /\ \A b \in c.blocks : b.chars \in Nat /\ HashRank(b.id) \in Int
       /\ \A b, d \in c.blocks : b.id = d.id \/ HashRank(b.id) = HashRank(d.id) => b = d

ASSUME HarnessAssumption ==
  /\ {Workers, Attempts} \subseteq Nat \ {0}
  /\ {MaxFaults, MaxChanges} \subseteq Nat
  /\ IsFiniteSet(Tasks) /\ \A cases \in Matrices : IsFiniteSet(cases)
  /\ \A spec \in {ScaleSpec} \cup {r.spec : r \in PlanRequests} :
       spec.context \in Nat /\ spec.ratios \in Seq(Nat)

\* An id names one case of a matrix, whose lists are finite.
ASSUME CasesAssumption ==
  /\ \A cases \in Matrices : \A c \in cases :
       /\ c.id \in Int /\ \A d \in cases : c.id = d.id => c = d
       /\ IsFiniteSet(c.terms) /\ (c.hits # NoValue => c.hits \in Int)
  /\ \A t \in Tasks : {t.id, t.min, t.max} \subseteq Int

\* Thresholds are shares, in percent.
ASSUME SharesAssumption ==
  /\ {Gate3Spec.recall, Gate3Spec.fidelity, Gate3Spec.negative, Gate3Spec.accuracy,
      ScaleSpec.recall, ScaleSpec.accuracy} \subseteq 0 .. 100
  /\ {ScaleSpec.size, ScaleSpec.tasks} \subseteq Nat

VARIABLES
  corpus,   \* the corpus as its manifest says
  payload,  \* the blocks in the store, one for each id
  plan,     \* the frozen plan, or NoValue
  run,      \* the run
  pool,     \* the current traversal, or NoValue
  budget    \* such faults and ingests so far

harnessVars == <<corpus, payload, plan, run, pool, budget>>

\* The fields chosenFrom, replaced, missed and lost are history, kept for the properties:
\* the corpus the panel was chosen from, whether another was ingested since, which
\* questions had no answer from which block where Gate 3 counts on it, and which of them
\* because the text of an exception was empty.
NewRun ==
  [pc |-> "idle", cases |-> {}, route |-> NoValue,
   rows |-> {}, unsupported |-> 0, needle |-> NoValue,
   gate3 |-> FALSE, gate4 |-> FALSE, snapshot |-> NoValue, panel |-> {},
   chosenFrom |-> NoValue, replaced |-> FALSE, projected |-> NoValue,
   points |-> <<>>, claim |-> FALSE, missed |-> {}, lost |-> {}]

HarnessInit ==
  /\ corpus \in Corpora
  /\ payload = corpus.blocks
  /\ plan = NoValue
  /\ run = NewRun
  /\ pool = NoValue
  /\ budget = [faults |-> 0, changes |-> 0]

Traversals == {"needles", "pointNeedles", "tasks", "pointTasks"}
Goto(pc) == run' = [run EXCEPT !.pc = pc]
Spend(what, n) == budget' = [budget EXCEPT ![what] = @ + n]

\* A projection becomes a corpus of its own, of the blocks the store has now.
Materialized(point) ==
  [blocks |-> {b \in payload : b.id \in point.ids}, point |-> point]

-----------------------------------------------------------------------------
\* The planner, and another ingest.

MakePlan ==
  /\ plan = NoValue /\ run.pc = "idle"
  /\ \E r \in PlanRequests : plan' = Plan(corpus, r.cases, r.spec)
  /\ UNCHANGED <<corpus, payload, run, pool, budget>>

\* Bound: no ingest while the questions of a matrix are evaluated one after the other.
PerQuestion == run.pc \in Traversals /\ ~run.route.batch

Ingest ==
  /\ budget.changes < MaxChanges
  /\ run.pc \notin {"done", "rejected"} /\ ~PerQuestion
  /\ \E new \in Corpora \ {corpus} :
       /\ corpus' = new
       /\ payload' = {b \in payload : b.id \notin BlockIds(new)} \cup new.blocks
  /\ run' = [run EXCEPT !.replaced = run.chosenFrom # NoValue]
  /\ Spend("changes", 1)
  /\ UNCHANGED <<plan, pool>>

-----------------------------------------------------------------------------
\* Start of a run: Gates 1 and 2.

Start ==
  /\ run.pc = "idle"
  /\ \E cases \in Matrices, route \in Routes :
       LET qualified == /\ Gate1Blockers(corpus, Gate1Spec) = {}
                        /\ Gate2Blockers(cases, corpus, Gate2Spec) = {}
       IN run' = [run EXCEPT !.pc = IF qualified THEN "needles" ELSE "done", !.cases = cases,
                             !.route = route]
  /\ UNCHANGED <<corpus, payload, plan, pool, budget>>

-----------------------------------------------------------------------------
\* Traversals.

Questions ==
  CASE run.pc = "needles" -> run.cases
    [] run.pc = "pointNeedles" -> run.panel
    [] run.pc = "tasks" -> Tasks
    [] OTHER -> {t \in Tasks : Cardinality({s \in Tasks : s.id < t.id}) < ScaleSpec.tasks}

Unasked == {q \in Questions : \A row \in run.rows : q \notin {row.case}}
Traversed == IF run.pc \in {"needles", "tasks"} THEN corpus ELSE run.projected

\* The blocks are read when the traversal starts.  A judge without the batch call gets
\* one question, the next one in order.
Traverse ==
  /\ run.pc \in Traversals /\ pool = NoValue
  /\ Unasked # {}
  /\ LET first == CHOOSE q \in Unasked : \A r \in Unasked : q.id <= r.id IN
     pool' = [blocks |-> Traversed.blocks, questions |-> IF run.route.batch THEN Unasked ELSE {first},
              results |-> [id \in BlockIds(Traversed) |-> ""],
              attempts |-> [id \in BlockIds(Traversed) |-> 0]]
  /\ UNCHANGED <<corpus, payload, plan, run, budget>>

Finished(id) == pool.results[id] # ""
Pending == {b \in pool.blocks : ~Finished(b.id)}
InFlight ==
  IF pool = NoValue THEN {}
  ELSE {b \in Pending : Cardinality({c \in Pending : c.id < b.id}) < Workers}

Deliver(b, result) ==
  pool' = [pool EXCEPT !.results[b.id] = result, !.attempts[b.id] = 0]

\* A block that the route's model cannot read.
Unsupported(b) == b.modality \notin run.route.reads

SkipBlock ==
  /\ \E b \in InFlight : Unsupported(b) /\ Deliver(b, "unsupported")
  /\ UNCHANGED <<corpus, payload, plan, run, budget>>

\* The judge reports what is there, or nothing, or a note for every question.
Answer ==
  /\ \E b \in InFlight, answer \in {"right", "nothing", "everything"} :
       /\ ~Unsupported(b)
       /\ answer # "right" => budget.faults < MaxFaults
       /\ Deliver(b, answer)
       /\ Spend("faults", IF answer = "right" THEN 0 ELSE 1)
  /\ UNCHANGED <<corpus, payload, plan, run>>

\* A failed call is tried again, in the evaluator not.  What the last exception says is
\* the error of the block: one that says nothing, as some timeouts do, is no error, and
\* the block has been inspected without a match.
TriesLeft_OffByOne(b) == run.route.batch /\ pool.attempts[b.id] < Attempts
TriesLeft(b) == run.route.batch /\ pool.attempts[b.id] + 1 < Attempts

FailCall ==
  /\ \E b \in InFlight, message \in {"failed", "lost"} :
       LET again == pool.attempts[b.id] > 0 IN
       /\ ~Unsupported(b)
       /\ again \/ budget.faults < MaxFaults
       /\ message = "lost" => run.route.batch
       /\ IF TriesLeft(b)
          THEN pool' = [pool EXCEPT !.attempts[b.id] = @ + 1]
          ELSE Deliver(b, message)
       /\ Spend("faults", IF again THEN 0 ELSE 1)
  /\ UNCHANGED <<corpus, payload, plan, run>>

ResultsDone == pool # NoValue /\ Pending = {}

\* The matches of a question, in no order: the scores use sets.
Evidence(case, answers) ==
  LET about(b) ==
        CASE answers[b.id] = "right" -> case.terms \cap b.terms
          [] answers[b.id] = "everything" -> case.terms
          [] OTHER -> {}
  IN {[block |-> b, terms |-> about(b)] : b \in {x \in pool.blocks : about(x) # {}}}

Uninspected_OnlyUnsupported == {id \in DOMAIN pool.results : pool.results[id] = "unsupported"}
Uninspected == {id \in DOMAIN pool.results : pool.results[id] \in {"unsupported", "failed"}}

\* The questions that had no answer from a block in a traversal for Gate 3, and those of
\* them of which the exception of the block said nothing.
Missed ==
  IF run.pc \in {"needles", "tasks"}
  THEN pool.questions \X {id \in DOMAIN pool.results :
                            pool.results[id] \notin {"right", "nothing", "everything"}}
  ELSE {}

Lost == {m \in Missed : pool.results[m[2]] = "lost"}

\* One or all needle cases are scored.  An evaluation that ends in an exception, which
\* does not wait for the blocks, is a row without evidence.
ScoreNeedles ==
  /\ run.pc \in {"needles", "pointNeedles"} /\ ResultsDone
  /\ LET row(q) == IF run.route.batch THEN BatchRow(q, Evidence(q, pool.results))
                   ELSE CaseRow(q, Evidence(q, pool.results))
     IN run' = [run EXCEPT
          !.rows = @ \cup {row(q) : q \in pool.questions},
          !.unsupported = @ + IF Uninspected = {} THEN 0 ELSE Cardinality(pool.questions),
          !.missed = @ \cup Missed, !.lost = @ \cup Lost]
  /\ pool' = NoValue
  /\ UNCHANGED <<corpus, payload, plan, budget>>

\* The row is counted by the text of its error, as a failed block is.
EvaluationRaises ==
  /\ run.pc \in {"needles", "pointNeedles"} /\ pool # NoValue /\ ~run.route.batch
  /\ budget.faults < MaxFaults
  /\ \E message \in {"failed", "lost"} :
       run' = [run EXCEPT
         !.rows = @ \cup {Score(q, FALSE, 0) : q \in pool.questions},
         !.unsupported = @ + IF message = "lost" THEN 0 ELSE 1,
         !.missed = @ \cup Missed, !.lost = @ \cup IF message = "lost" THEN Missed ELSE {}]
  /\ pool' = NoValue
  /\ Spend("faults", 1)
  /\ UNCHANGED <<corpus, payload, plan>>

\* Tasks are blocked when a block was not inspected; otherwise every task is finalised,
\* which may raise.  Rows are kept as the scores of the needles are.
ScoreTasks ==
  /\ run.pc \in {"tasks", "pointTasks"} /\ ResultsDone
  /\ \E ends \in [pool.questions -> {"right", "wrong", "raises"}] :
       LET by(end) == Cardinality({q \in pool.questions : ends[q] = end})
           blocked(q) == Uninspected # {} \/ ends[q] = "raises"
           score(q) == IF ends[q] = "wrong" THEN q.max + 1 ELSE q.max
       IN /\ Uninspected # {} => by("right") = Cardinality(pool.questions)
          /\ budget.faults + by("wrong") + by("raises") <= MaxFaults
          /\ run' = [run EXCEPT
               !.rows = @ \cup {[case |-> q, row |-> TaskRow(q, blocked(q), score(q))] :
                                  q \in pool.questions},
               !.missed = @ \cup {m \in Missed : ~blocked(m[1])}, !.lost = @ \cup Lost]
          /\ Spend("faults", by("wrong") + by("raises"))
  /\ pool' = NoValue
  /\ UNCHANGED <<corpus, payload, plan>>

-----------------------------------------------------------------------------
\* Gate 3.

AllAsked == pool = NoValue /\ Unasked = {}
BaselineOfRun == Baseline({row.row : row \in run.rows})

NeedlesDone ==
  /\ run.pc = "needles" /\ AllAsked
  /\ run' = [run EXCEPT !.pc = "tasks", !.needle = NeedleReport(run.rows, run.unsupported),
                        !.rows = {}, !.unsupported = 0]
  /\ UNCHANGED <<corpus, payload, plan, pool, budget>>

Gate3 ==
  /\ run.pc = "tasks" /\ AllAsked
  /\ LET passes == Gate3Passes(run.needle, BaselineOfRun, Gate3Spec) IN
     run' = [run EXCEPT !.pc = IF passes THEN "scale" ELSE "drift", !.gate3 = passes,
                        !.snapshot = Snapshot(run.needle, BaselineOfRun), !.rows = {}]
  /\ UNCHANGED <<corpus, payload, plan, pool, budget>>

-----------------------------------------------------------------------------
\* Gate 4: the panel and the checks of the frozen plan, then the points.

LivePanel == Panel(corpus, run.cases, PanelSpec(ScaleSpec))

FrozenPlanFits_NoAnchors == plan # NoValue => plan.context = ScaleSpec.context
FrozenPlanFits_ByCase ==
  plan # NoValue =>
    plan.context = ScaleSpec.context /\ plan.anchors = PanelAnchors(corpus, LivePanel)
FrozenPlanFits ==
  plan # NoValue =>
    plan.context = ScaleSpec.context /\ plan.anchors = AnchorBlocks(corpus, LivePanel)

StartScale ==
  /\ run.pc = "scale"
  /\ LET accepted == /\ PanelBlockers(corpus, run.cases, LivePanel, PanelSpec(ScaleSpec)) = {}
                     /\ FrozenPlanFits
     IN run' = [run EXCEPT !.pc = IF accepted THEN "point" ELSE "rejected", !.panel = LivePanel,
                             !.chosenFrom = corpus]
  /\ UNCHANGED <<corpus, payload, plan, pool, budget>>

Ratio == ScaleSpec.ratios[Len(run.points) + 1]
AllPoints == Len(run.points) = Len(ScaleSpec.ratios)

\* The plan's last point for this ratio, if it keeps the plan's anchors, or one that is
\* projected now; none is a ValueError.
PointsFor(ratio) ==
  LET planned == {i \in DOMAIN plan.points : plan.points[i].ratio = ratio} IN
  IF plan = NoValue
  THEN {Projection(corpus, run.panel, ScaleSpec.context * ratio)}
  ELSE {plan.points[i] : i \in {j \in planned : /\ \A k \in planned : k <= j
                                                /\ plan.anchors \subseteq plan.points[j].ids}}

PointResult(status, point, needle) ==
  [status |-> status, ids |-> point.ids, tokens |-> point.tokens,
   recovered |-> needle.recovered, present |-> needle.present]
NoNeedles == [recovered |-> 0, present |-> 0]

RejectPoint ==
  /\ run.pc = "point" /\ ~AllPoints /\ PointsFor(Ratio) = {}
  /\ Goto("rejected")
  /\ UNCHANGED <<corpus, payload, plan, pool, budget>>

BlockPoint ==
  /\ run.pc = "point" /\ ~AllPoints
  /\ \E p \in PointsFor(Ratio) :
       /\ p.blockers # {}
       /\ run' = [run EXCEPT !.points = Append(@, PointResult("blocked", p, NoNeedles))]
  /\ UNCHANGED <<corpus, payload, plan, pool, budget>>

\* The blocks come from the store, whether or not the manifest still requires them.
StartPoint ==
  /\ run.pc = "point" /\ ~AllPoints
  /\ \E p \in PointsFor(Ratio) :
       /\ p.blockers = {}
       /\ run' = [run EXCEPT !.pc = "pointNeedles", !.projected = Materialized(p)]
  /\ UNCHANGED <<corpus, payload, plan, pool, budget>>

PointNeedlesDone ==
  /\ run.pc = "pointNeedles" /\ AllAsked
  /\ run' = [run EXCEPT !.pc = "pointTasks", !.needle = NeedleReport(run.rows, run.unsupported),
                        !.rows = {}, !.unsupported = 0]
  /\ UNCHANGED <<corpus, payload, plan, pool, budget>>

\* Blocks that could not be inspected and the negative cases are reported and not judged.
PointPasses(needle, baseline) ==
  /\ Reaches(needle.recovered, needle.present, ScaleSpec.recall)
  /\ ScaleSpec.tasks > 0 => AccuracyReaches(baseline, ScaleSpec.accuracy)

FinishPoint ==
  /\ run.pc = "pointTasks" /\ AllAsked
  /\ LET status == IF PointPasses(run.needle, BaselineOfRun) THEN "pass" ELSE "fail" IN
     run' = [run EXCEPT !.pc = "point", !.rows = {}, !.projected = NoValue,
               !.points = Append(@, PointResult(status, run.projected.point, run.needle))]
  /\ UNCHANGED <<corpus, payload, plan, pool, budget>>

Gate4Passes(points) ==
  /\ \A i \in DOMAIN points : points[i].status = "pass"
  /\ \E i \in DOMAIN points : points[i].tokens >= ScaleSpec.maxRatio * ScaleSpec.context
  /\ \A i \in DOMAIN points :
       100 * (points[1].recovered - points[i].recovered) <= ScaleSpec.recallDrop * points[1].present

Gate4 ==
  /\ run.pc = "point" /\ AllPoints
  /\ run' = [run EXCEPT !.pc = "drift", !.gate4 = Gate4Passes(run.points)]
  /\ UNCHANGED <<corpus, payload, plan, pool, budget>>

\* Gate 5 is run whenever there is a reference; the claim is that all five passed.
Conclude ==
  /\ run.pc = "drift"
  /\ \E reference \in References :
       run' = [run EXCEPT !.pc = "done",
         !.claim = /\ run.gate3 /\ run.gate4
                   /\ reference # NoValue /\ Gate5Passes(reference, run.snapshot, Gate5Spec)]
  /\ UNCHANGED <<corpus, payload, plan, pool, budget>>

HarnessNext ==
  \/ MakePlan \/ Ingest \/ Start
  \/ Traverse \/ SkipBlock \/ Answer \/ FailCall
  \/ ScoreNeedles \/ EvaluationRaises \/ ScoreTasks
  \/ NeedlesDone \/ Gate3 \/ StartScale
  \/ RejectPoint \/ BlockPoint \/ StartPoint \/ PointNeedlesDone \/ FinishPoint
  \/ Gate4 \/ Conclude

HarnessSpec == HarnessInit /\ [][HarnessNext]_harnessVars

-----------------------------------------------------------------------------
\* Properties.

Results == {"", "unsupported", "failed", "lost", "right", "nothing", "everything"}

\* Types of the variables; what is counted stays within its bounds.
ProofTypeOK ==
  /\ corpus \in Corpora /\ corpus.blocks \subseteq payload
  /\ \A b, c \in payload : b.id = c.id => b = c
  /\ run.pc \in Traversals \cup {"idle", "scale", "point", "drift", "done", "rejected"}
  /\ {run.gate3, run.gate4, run.claim, run.replaced} \subseteq BOOLEAN
  /\ Len(run.points) <= Len(ScaleSpec.ratios)
  /\ pool # NoValue => /\ Range(pool.results) \subseteq Results
                       /\ Range(pool.attempts) \subseteq 0 .. Attempts - 1
  /\ budget \in [faults : 0 .. MaxFaults, changes : 0 .. MaxChanges]

\* A claim of the proof rests on what was inspected: the traversals behind the shares of
\* Gate 3, of the needles and of the tasks that are counted, have an answer to every
\* question from every required block, whatever failed and was retried in between (but
\* where the text of the exception is empty, which neither way of running the questions
\* takes for an error, see FailCall and EvaluationRaises); every scale point ran and
\* found no less than its share, and kept the blocks of the cases it was measured with,
\* unless the points were projected during the run and another corpus was ingested
\* meanwhile.
ClaimIsEarned ==
  run.claim =>
    /\ run.missed \subseteq run.lost
    /\ Len(run.points) = Len(ScaleSpec.ratios)
    /\ \A i \in DOMAIN run.points :
         LET p == run.points[i] IN
         /\ p.status # "blocked"
         /\ 100 * p.recovered >= ScaleSpec.recall * p.present
         /\ plan # NoValue \/ ~run.replaced =>
              \A c \in run.panel : c.blocks \cap BlockIds(run.chosenFrom) \subseteq p.ids

\* Every present case of a matrix names blocks, as matrices do since they are frozen.
Modern(cases) == \A c \in cases : c.present => c.blocks # {}

\* The matrix says the truth about the corpus, and asks of a case no more files than it has.
Truthful(cases, c) ==
  \A case \in cases :
    LET holding == {b \in c.blocks : b.terms \cap case.terms # {}}
        targets == {b \in holding : b.id \in case.blocks}
    IN IF case.present
       THEN /\ case.terms = (UNION {b.terms : b \in targets}) \cap case.terms
            /\ case.assets = {b.asset : b \in targets}
            /\ case.hits # NoValue => case.hits <= Cardinality(case.assets)
       ELSE holding = {}

\* There are tasks, and every task has a score that is correct.
Answerable == Tasks # {} /\ \A t \in Tasks : t.min <= t.max

\* A judge that reports what is there, with no call failing, is never failed by the
\* harness: Gate 3 passes, and so does every scale point that could be projected.  The
\* scoring, the panel, the anchors and the projections work together for that.
FaithfulJudgePasses ==
  run.pc = "done" /\ run.snapshot # NoValue /\ budget = [faults |-> 0, changes |-> 0]
    /\ {b.modality : b \in corpus.blocks} \subseteq run.route.reads
    /\ Modern(run.cases) /\ Truthful(run.cases, corpus) /\ Answerable
  => /\ run.gate3
     /\ \A i \in DOMAIN run.points : run.points[i].status \in {"pass", "blocked"}

\* The panel mixes cases with a block of the corpus and cases with files of it only.
Mixed(panel, c) ==
  LET exact == {case \in panel : case.blocks \cap BlockIds(c) # {}} IN
  exact # {} /\ \E case \in panel \ exact : CaseAnchors(c, case) # {}

\* The evidence of every case of the panel, as it was when the panel was chosen, is in the
\* projection that is traversed, though the plan may be older than the corpus: unless the
\* corpus changes after that, or the panel is mixed, of which AnchorBlocks leaves out the
\* files.
PanelEvidenceKept ==
  run.pc \in {"pointNeedles", "pointTasks"} /\ ~run.replaced /\ ~Mixed(run.panel, run.chosenFrom) =>
    \A c \in run.panel, b \in run.chosenFrom.blocks :
      b.id \in CaseAnchors(run.chosenFrom, c) => b \in run.projected.blocks

\* Between any two ratios, in whatever order they are listed, the projection of the
\* smaller one is contained in that of the larger one; both hold the anchors, and without
\* the distractor that was taken last, unless it is the only one, they are short of the
\* target.
ProjectionsNest ==
  plan # NoValue =>
    LET fits == {p \in Range(plan.points) : "anchors-exceed-target" \notin p.blockers}
        others(p) == p.ids \ plan.anchors
        last(p) == {d \in others(p) : \A e \in others(p) : HashRank(e) <= HashRank(d)}
    IN \A p, q \in fits :
         /\ plan.anchors \subseteq p.ids
         /\ p.ratio <= q.ratio => p.ids \subseteq q.ids
         /\ \A d \in last(p) :
              others(p) # {d} => Tokens(plan.corpus, p.ids \ {d}) < p.ratio * plan.context
         /\ p.blockers = {} => p.tokens >= p.ratio * plan.context

PlanIsForRun ==
  /\ plan # NoValue /\ plan.ready
  /\ plan.corpus = run.chosenFrom /\ plan.cases = run.cases
  /\ PanelSpec(plan.spec) = PanelSpec(ScaleSpec)
  /\ Range(ScaleSpec.ratios) \subseteq {p.ratio : p \in Range(plan.points)}

Projected(ratio) == Projection(run.chosenFrom, run.panel, ScaleSpec.context * ratio)

\* A plan that is ready is one the live run accepts and repeats: with the same corpus and
\* matrix and the same parameters of the panel no check rejects it, no point is blocked,
\* and every point is the one that would be projected without the plan.
FrozenPlanReplays ==
  PlanIsForRun =>
    /\ run.pc # "rejected"
    /\ \A i \in DOMAIN run.points :
         /\ run.points[i].status # "blocked"
         /\ run.points[i].ids = Projected(ScaleSpec.ratios[i]).ids
=============================================================================
