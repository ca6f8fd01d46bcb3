-------------------------- MODULE ProofHarness_proofs --------------------------
(***************************************************************************)
(* Theorems about a run of the big-context proof, for any corpora,         *)
(* matrices, routes, plans and numbers of faults and ingests: what a claim *)
(* rests on, what a projection keeps and holds, when a frozen plan         *)
(* replays, and that a judge without fault is never failed.                *)
(***************************************************************************)
EXTENDS ProofHarness, FiniteSetTheorems, WellFoundedInduction, TLAPS

-----------------------------------------------------------------------------
\* Tokens and projections.

Numbered(c, ids) ==
  UNION {{b.id} \X (1 .. Max({1, b.chars})) : b \in {x \in c.blocks : x.id \in ids}}

LEMMA NumberedIsFinite ==
  ASSUME NEW c \in Corpora, NEW ids
  PROVE  IsFiniteSet(Numbered(c, ids))
<1> DEFINE S == {x \in c.blocks : x.id \in ids}
           tokens(b) == {b.id} \X (1 .. Max({1, b.chars}))
           f == [b \in S |-> tokens(b)]
           T == {tokens(b) : b \in S}
<1>1. IsFiniteSet(S)
  BY CorporaAssumption, FS_Subset
<1>2. ASSUME NEW b \in S
      PROVE  IsFiniteSet(tokens(b))
  <2> DEFINE m == Max({1, b.chars})
  <2>1. b.chars \in Nat
    BY CorporaAssumption
  <2>2. m \in Int
    BY <2>1 DEF Max
  <2> HIDE DEF m
  <2>3. IsFiniteSet({b.id})
    BY FS_Singleton
  <2>4. IsFiniteSet(1 .. m)
    BY <2>2, FS_Interval
  <2>5. IsFiniteSet({b.id} \X (1 .. m))
    BY <2>3, <2>4, FS_Product
  <2> QED
    BY <2>5 DEF m
<1>3. f \in Surjection(S, T)
  BY DEF Surjection
<1>4. IsFiniteSet(T)
  BY <1>1, <1>3, FS_Surjection
<1>5. \A t \in T : IsFiniteSet(t)
  BY <1>2
<1>6. IsFiniteSet(UNION T)
  BY <1>4, <1>5, FS_UNION
<1> QED
  BY <1>6 DEF Numbered

\* More blocks have at least as many tokens.
LEMMA TokensGrow ==
  ASSUME NEW c \in Corpora, NEW A, NEW B, A \subseteq B
  PROVE  Tokens(c, A) \in Nat /\ Tokens(c, B) \in Nat /\ Tokens(c, A) <= Tokens(c, B)
<1>1. IsFiniteSet(Numbered(c, A)) /\ IsFiniteSet(Numbered(c, B))
  BY NumberedIsFinite
<1>2. Numbered(c, A) \subseteq Numbered(c, B)
  BY DEF Numbered
<1>3. Tokens(c, A) = Cardinality(Numbered(c, A)) /\ Tokens(c, B) = Cardinality(Numbered(c, B))
  BY DEF Tokens, Numbered
<1> QED
  BY <1>1, <1>2, <1>3, FS_Subset, FS_CardinalityType

LEMMA TokensCount ==
  ASSUME NEW c \in Corpora, NEW A
  PROVE  Tokens(c, A) \in Nat
  BY TokensGrow

LEMMA HashesDiffer ==
  ASSUME NEW c \in Corpora, NEW d \in BlockIds(c), NEW e \in BlockIds(c)
  PROVE  /\ HashRank(d) \in Int /\ HashRank(e) \in Int
         /\ HashRank(d) = HashRank(e) => d = e
  BY CorporaAssumption DEF BlockIds

\* A larger target takes no fewer distractors.
LEMMA TakenGrows ==
  ASSUME NEW c \in Corpora, NEW anchors, NEW t \in Int, NEW u \in Int, t <= u
  PROVE  Taken(c, anchors, t) \subseteq Taken(c, anchors, u)
  BY TokensCount DEF Taken

\* Without the distractor that was taken last, and was not the only one, the projection
\* is short of its target.
LEMMA ShortWithoutLast ==
  ASSUME NEW c \in Corpora, NEW anchors, NEW t \in Int,
         NEW d \in Taken(c, anchors, t),
         \A e \in Taken(c, anchors, t) : HashRank(e) <= HashRank(d),
         Taken(c, anchors, t) # {d}
  PROVE  Tokens(c, (anchors \cup Taken(c, anchors, t)) \ {d}) < t
<1> DEFINE taken == Taken(c, anchors, t)
           earlier == Earlier(c, anchors, d)
<1>1. taken \subseteq BlockIds(c) \ anchors
  BY DEF Taken, Distractors
<1>2. ASSUME NEW e \in taken, e # d
      PROVE  e \in earlier
  BY <1>1, <1>2, HashesDiffer DEF Earlier, Distractors
<1>3. earlier # {}
  BY <1>2
<1>4. Tokens(c, anchors \cup earlier) < t
  BY <1>3 DEF Taken
<1>5. (anchors \cup taken) \ {d} \subseteq anchors \cup earlier
  BY <1>2
<1> HIDE DEF taken, earlier
<1>6. Tokens(c, (anchors \cup taken) \ {d}) <= Tokens(c, anchors \cup earlier)
  BY <1>5, TokensGrow
<1> QED
  BY <1>4, <1>6, TokensCount DEF taken

LEMMA ProjectionHolds ==
  ASSUME NEW c \in Corpora, NEW cases, NEW t \in Int
  PROVE  LET p == Projection(c, cases, t)
             anchors == AnchorBlocks(c, cases)
         IN /\ anchors \subseteq p.ids
            /\ p.tokens = Tokens(c, p.ids)
            /\ "anchors-exceed-target" \notin p.blockers => p.ids = anchors \cup Taken(c, anchors, t)
            /\ p.blockers = {} => p.tokens >= t
<1> DEFINE anchors == AnchorBlocks(c, cases)
           exceeds == Tokens(c, anchors) > t
           ids == IF exceeds THEN anchors ELSE anchors \cup Taken(c, anchors, t)
           tokens == Tokens(c, ids)
           blockers == IF exceeds THEN {"anchors-exceed-target"}
                       ELSE IF tokens < t THEN {"source-too-small"} ELSE {}
           p == Projection(c, cases, t)
<1>1. p = [ids |-> ids, tokens |-> tokens, blockers |-> blockers]
  BY DEF Projection
<1>2. p.ids = ids /\ p.tokens = tokens /\ p.blockers = blockers
  BY <1>1
<1>3. tokens \in Nat
  BY TokensCount
<1> HIDE DEF p, anchors, tokens
<1> QED
  BY <1>2, <1>3 DEF p, anchors, tokens

-----------------------------------------------------------------------------
\* Plans.

PanelOf(c, cases, spec) == Panel(c, cases, PanelSpec(spec))

LEMMA PlanIs ==
  ASSUME NEW c, NEW cases, NEW spec
  PROVE  LET p == Plan(c, cases, spec)
             panel == PanelOf(c, cases, spec)
         IN /\ p.corpus = c /\ p.cases = cases /\ p.spec = spec /\ p.context = spec.context
            /\ p.anchors = AnchorBlocks(c, panel)
            /\ p.points = PlanPoints(c, panel, spec)
            /\ p.ready => /\ PanelBlockers(c, cases, panel, PanelSpec(spec)) = {}
                          /\ \A i \in DOMAIN p.points : p.points[i].blockers = {}
<1> DEFINE panel == PanelOf(c, cases, spec)
           points == PlanPoints(c, panel, spec)
           ready == /\ PanelBlockers(c, cases, panel, PanelSpec(spec)) = {}
                    /\ \A i \in DOMAIN points : points[i].blockers = {}
                    /\ \E i \in DOMAIN points : points[i].tokens >= spec.maxRatio * spec.context
           p == Plan(c, cases, spec)
<1>1. p = [corpus |-> c, cases |-> cases, spec |-> spec, context |-> spec.context,
           anchors |-> AnchorBlocks(c, panel), points |-> points, ready |-> ready]
  BY DEF Plan, PanelOf
<1> HIDE DEF p, panel, points
<1> QED
  BY <1>1 DEF p, panel, points

LEMMA PlanPointsAre ==
  ASSUME NEW c, NEW panel, NEW spec
  PROVE  /\ DOMAIN PlanPoints(c, panel, spec) = DOMAIN spec.ratios
         /\ \A i \in DOMAIN spec.ratios :
              LET p == PlanPoints(c, panel, spec)[i]
                  q == Projection(c, panel, spec.context * spec.ratios[i])
              IN /\ p.ratio = spec.ratios[i] /\ p.ids = q.ids /\ p.tokens = q.tokens
                 /\ q.blockers \subseteq p.blockers
<1> DEFINE point(i) == Projection(c, panel, spec.context * spec.ratios[i])
           flaws(i) ==
             {why \in {"anchor-preservation", "nested-projection"} :
               ~(CASE why = "anchor-preservation" -> AnchorBlocks(c, panel) \subseteq point(i).ids
                  [] why = "nested-projection" -> i > 1 => point(i - 1).ids \subseteq point(i).ids)}
           points == [i \in DOMAIN spec.ratios |->
                        [ratio |-> spec.ratios[i], ids |-> point(i).ids, tokens |-> point(i).tokens,
                         blockers |-> point(i).blockers \cup flaws(i)]]
<1>1. PlanPoints(c, panel, spec) = points
  BY DEF PlanPoints
<1> HIDE DEF flaws
<1> QED
  BY <1>1

\* A plan is what the planner made of a corpus at some time.
PlanMade == plan # NoValue => \E c \in Corpora, r \in PlanRequests : plan = Plan(c, r.cases, r.spec)

LEMMA PlansNest == PlanMade => ProjectionsNest
<1> SUFFICES ASSUME PlanMade, plan # NoValue
             PROVE  ProjectionsNest
  BY DEF ProjectionsNest
<1>1. PICK c \in Corpora, r \in PlanRequests : plan = Plan(c, r.cases, r.spec)
  BY DEF PlanMade
<1> DEFINE spec == r.spec
           panel == PanelOf(c, r.cases, spec)
           anchors == AnchorBlocks(c, panel)
           target(ratio) == spec.context * ratio
<1>2. spec.context \in Nat /\ spec.ratios \in Seq(Nat)
  BY HarnessAssumption
<1>3. /\ plan.corpus = c /\ plan.context = spec.context /\ plan.anchors = anchors
      /\ plan.points = PlanPoints(c, panel, spec)
  BY <1>1, PlanIs
<1>4. ASSUME NEW p \in Range(plan.points)
      PROVE  /\ p.ratio \in Nat /\ target(p.ratio) \in Int
             /\ target(p.ratio) = p.ratio * plan.context
             /\ p.ids = Projection(c, panel, target(p.ratio)).ids
             /\ p.tokens = Projection(c, panel, target(p.ratio)).tokens
             /\ Projection(c, panel, target(p.ratio)).blockers \subseteq p.blockers
  <2>1. PICK i \in DOMAIN plan.points : p = plan.points[i]
    BY DEF Range
  <2>2. i \in DOMAIN spec.ratios /\ spec.ratios[i] \in Nat
    BY <1>2, <1>3, <2>1, PlanPointsAre
  <2>3. /\ p.ratio = spec.ratios[i]
        /\ p.ids = Projection(c, panel, target(spec.ratios[i])).ids
        /\ p.tokens = Projection(c, panel, target(spec.ratios[i])).tokens
        /\ Projection(c, panel, target(spec.ratios[i])).blockers \subseteq p.blockers
    BY <1>3, <2>1, <2>2, PlanPointsAre
  <2> QED
    BY <1>2, <1>3, <2>2, <2>3
<1> HIDE DEF spec, panel, anchors, target
<1>5. ASSUME NEW p \in Range(plan.points), "anchors-exceed-target" \notin p.blockers
      PROVE  /\ anchors \subseteq p.ids
             /\ p.ids = anchors \cup Taken(c, anchors, target(p.ratio))
             /\ p.blockers = {} => p.tokens >= target(p.ratio)
  BY <1>4, <1>5, ProjectionHolds DEF anchors
<1>6. ASSUME NEW p \in Range(plan.points), NEW q \in Range(plan.points),
             "anchors-exceed-target" \notin p.blockers, "anchors-exceed-target" \notin q.blockers,
             p.ratio <= q.ratio
      PROVE  p.ids \subseteq q.ids
  <2>1. target(p.ratio) <= target(q.ratio)
    BY <1>2, <1>4, <1>6 DEF target
  <2>2. Taken(c, anchors, target(p.ratio)) \subseteq Taken(c, anchors, target(q.ratio))
    BY <1>4, <2>1, TakenGrows
  <2> QED
    BY <1>5, <1>6, <2>2
<1>7. ASSUME NEW p \in Range(plan.points), "anchors-exceed-target" \notin p.blockers,
             NEW d \in p.ids \ plan.anchors,
             \A e \in p.ids \ plan.anchors : HashRank(e) <= HashRank(d),
             p.ids \ plan.anchors # {d}
      PROVE  Tokens(plan.corpus, p.ids \ {d}) < p.ratio * plan.context
  <2> DEFINE taken == Taken(c, anchors, target(p.ratio))
  <2>1. p.ids = anchors \cup taken
    BY <1>5, <1>7
  <2>2. taken \cap anchors = {}
    BY DEF Taken, Distractors
  <2>3. d \in taken /\ (\A e \in taken : HashRank(e) <= HashRank(d)) /\ taken # {d}
    BY <1>3, <1>7, <2>1, <2>2
  <2>4. Tokens(c, (anchors \cup taken) \ {d}) < target(p.ratio)
    BY <1>4, <2>3, ShortWithoutLast
  <2> QED
    BY <1>3, <1>4, <2>1, <2>4
<1> QED
  BY <1>3, <1>4, <1>5, <1>6, <1>7 DEF ProjectionsNest

-----------------------------------------------------------------------------
\* What each step reads and writes.

Fields == DOMAIN NewRun

LEMMA FieldsAre ==
  Fields = {"pc", "cases", "route", "rows", "unsupported", "needle", "gate3", "gate4",
            "snapshot", "panel", "chosenFrom", "replaced", "projected", "points", "claim",
            "missed", "lost"}
  BY DEF Fields, NewRun

\* Every field of the run but those in F is kept.
Keeps(F) == DOMAIN run' = Fields /\ \A f \in Fields \ F : run'[f] = run[f]

LEMMA MakePlanWrites ==
  ASSUME MakePlan
  PROVE  /\ plan = NoValue /\ run.pc = "idle"
         /\ \E r \in PlanRequests : plan' = Plan(corpus, r.cases, r.spec)
         /\ UNCHANGED <<corpus, payload, run, pool, budget>>
  BY DEF MakePlan

LEMMA IngestWrites ==
  ASSUME DOMAIN run = Fields, Ingest
  PROVE  /\ budget.changes < MaxChanges
         /\ budget' = [budget EXCEPT !.changes = @ + 1]
         /\ run.pc \notin {"done", "rejected"}
         /\ corpus' \in Corpora
         /\ payload' = {b \in payload : b.id \notin BlockIds(corpus')} \cup corpus'.blocks
         /\ Keeps({"replaced"}) /\ run'.replaced = (run.chosenFrom # NoValue)
         /\ UNCHANGED <<plan, pool>>
  BY FieldsAre DEF Ingest, Spend, Keeps

LEMMA StartWrites ==
  ASSUME DOMAIN run = Fields, Start
  PROVE  /\ run.pc = "idle" /\ run'.pc \in {"needles", "done"}
         /\ run'.cases \in Matrices /\ Keeps({"pc", "cases", "route"})
         /\ UNCHANGED <<corpus, payload, plan, pool, budget>>
<1>1. PICK cases \in Matrices, route \in Routes :
        LET qualified == /\ Gate1Blockers(corpus, Gate1Spec) = {}
                         /\ Gate2Blockers(cases, corpus, Gate2Spec) = {}
        IN run' = [run EXCEPT !.pc = IF qualified THEN "needles" ELSE "done", !.cases = cases,
                              !.route = route]
  BY DEF Start
<1>2. \E next \in {"needles", "done"} :
        run' = [run EXCEPT !.pc = next, !.cases = cases, !.route = route]
  BY <1>1, Zenon
<1> QED
  BY <1>2, FieldsAre DEF Start, Keeps

\* A traversal is scored: whatever the rows are.
LEMMA ScoreNeedlesWrites ==
  ASSUME DOMAIN run = Fields, ScoreNeedles
  PROVE  /\ run.pc \in {"needles", "pointNeedles"} /\ ResultsDone
         /\ Keeps({"rows", "unsupported", "missed", "lost"})
         /\ run'.unsupported =
              run.unsupported + IF Uninspected = {} THEN 0 ELSE Cardinality(pool.questions)
         /\ run'.missed = run.missed \cup Missed /\ run'.lost = run.lost \cup Lost
         /\ pool' = NoValue /\ UNCHANGED <<corpus, payload, plan, budget>>
<1>1. \E rows : run' = [run EXCEPT !.rows = rows,
        !.unsupported = run.unsupported + IF Uninspected = {} THEN 0 ELSE Cardinality(pool.questions),
        !.missed = run.missed \cup Missed, !.lost = run.lost \cup Lost]
  BY FieldsAre DEF ScoreNeedles
<1>2. PICK rows : run' = [run EXCEPT !.rows = rows,
        !.unsupported = run.unsupported + IF Uninspected = {} THEN 0 ELSE Cardinality(pool.questions),
        !.missed = run.missed \cup Missed, !.lost = run.lost \cup Lost]
  BY <1>1
<1>3. /\ run.pc \in {"needles", "pointNeedles"} /\ ResultsDone
      /\ pool' = NoValue /\ UNCHANGED <<corpus, payload, plan, budget>>
  BY DEF ScoreNeedles
<1> QED
  BY <1>2, <1>3, FieldsAre DEF Keeps

LEMMA EvaluationRaisesWrites ==
  ASSUME DOMAIN run = Fields, EvaluationRaises
  PROVE  /\ run.pc \in {"needles", "pointNeedles"} /\ pool # NoValue
         /\ Keeps({"rows", "unsupported", "missed", "lost"})
         /\ run'.missed = run.missed \cup Missed
         /\ \/ run'.unsupported = run.unsupported + 1 /\ run'.lost = run.lost
            \/ run'.unsupported = run.unsupported + 0 /\ run'.lost = run.lost \cup Missed
         /\ budget.faults < MaxFaults /\ budget' = [budget EXCEPT !.faults = @ + 1]
         /\ pool' = NoValue /\ UNCHANGED <<corpus, payload, plan>>
<1>1. PICK message \in {"failed", "lost"} :
        run' = [run EXCEPT
          !.rows = @ \cup {Score(q, FALSE, 0) : q \in pool.questions},
          !.unsupported = @ + IF message = "lost" THEN 0 ELSE 1,
          !.missed = @ \cup Missed, !.lost = @ \cup IF message = "lost" THEN Missed ELSE {}]
  BY DEF EvaluationRaises
<1>2. /\ Keeps({"rows", "unsupported", "missed", "lost"})
      /\ run'.missed = run.missed \cup Missed
      /\ run'.unsupported = run.unsupported + (IF message = "lost" THEN 0 ELSE 1)
      /\ run'.lost = run.lost \cup (IF message = "lost" THEN Missed ELSE {})
  BY <1>1, FieldsAre DEF Keeps
<1>3. /\ run.pc \in {"needles", "pointNeedles"} /\ pool # NoValue
      /\ budget.faults < MaxFaults /\ budget' = [budget EXCEPT !.faults = @ + 1]
      /\ pool' = NoValue /\ UNCHANGED <<corpus, payload, plan>>
  BY DEF EvaluationRaises, Spend
<1>4. \/ run'.unsupported = run.unsupported + 1 /\ run'.lost = run.lost
      \/ run'.unsupported = run.unsupported + 0 /\ run'.lost = run.lost \cup Missed
  BY <1>2
<1> QED
  BY <1>2, <1>3, <1>4

LEMMA ScoreTasksWrites ==
  ASSUME DOMAIN run = Fields, ScoreTasks
  PROVE  /\ run.pc \in {"tasks", "pointTasks"} /\ ResultsDone
         /\ Keeps({"rows", "missed", "lost"})
         /\ \E M \in SUBSET Missed :
              run'.missed = run.missed \cup M /\ (Uninspected # {} => M = {})
         /\ run'.lost = run.lost \cup Lost
         /\ \E W, R \in SUBSET pool.questions :
              /\ budget.faults + Cardinality(W) + Cardinality(R) <= MaxFaults
              /\ budget' = [budget EXCEPT !.faults = @ + (Cardinality(W) + Cardinality(R))]
         /\ pool' = NoValue /\ UNCHANGED <<corpus, payload, plan>>
<1> DEFINE By(ends, end) == {q \in pool.questions : ends[q] = end}
           blocked(ends, q) == Uninspected # {} \/ ends[q] = "raises"
           score(ends, q) == IF ends[q] = "wrong" THEN q.max + 1 ELSE q.max
           some(ends) == {m \in Missed : ~blocked(ends, m[1])}
           rows(ends) == {[case |-> q, row |-> TaskRow(q, blocked(ends, q), score(ends, q))] :
                            q \in pool.questions}
<1>1. PICK ends \in [pool.questions -> {"right", "wrong", "raises"}] :
        /\ budget.faults + Cardinality(By(ends, "wrong")) + Cardinality(By(ends, "raises")) <= MaxFaults
        /\ run' = [run EXCEPT !.rows = @ \cup rows(ends),
                    !.missed = @ \cup some(ends), !.lost = @ \cup Lost]
        /\ budget' = [budget EXCEPT
             !.faults = @ + (Cardinality(By(ends, "wrong")) + Cardinality(By(ends, "raises")))]
  BY DEF ScoreTasks, Spend
<1>2. run.pc \in {"tasks", "pointTasks"} /\ ResultsDone
      /\ pool' = NoValue /\ UNCHANGED <<corpus, payload, plan>>
  BY DEF ScoreTasks
<1>3. some(ends) \in SUBSET Missed /\ (Uninspected # {} => some(ends) = {})
  OBVIOUS
<1>4. By(ends, "wrong") \in SUBSET pool.questions /\ By(ends, "raises") \in SUBSET pool.questions
  OBVIOUS
<1> HIDE DEF By, blocked, score, rows, some
<1>5. /\ Keeps({"rows", "missed", "lost"})
      /\ run'.missed = run.missed \cup some(ends)
      /\ run'.lost = run.lost \cup Lost
  BY <1>1, FieldsAre DEF Keeps
<1>6. \E M \in SUBSET Missed :
        run'.missed = run.missed \cup M /\ (Uninspected # {} => M = {})
  BY <1>3, <1>5
<1> QED
  BY <1>1, <1>2, <1>4, <1>5, <1>6

\* Steps of the run between its traversals; stores and budget are left alone.
OnlyRun == UNCHANGED <<corpus, payload, plan, pool, budget>>

LEMMA NeedlesDoneWrites ==
  ASSUME DOMAIN run = Fields, NeedlesDone
  PROVE  /\ run.pc = "needles" /\ pool = NoValue /\ run'.pc = "tasks"
         /\ Keeps({"pc", "needle", "rows", "unsupported"})
         /\ run'.needle.unsupported = run.unsupported /\ run'.unsupported = 0 /\ OnlyRun
<1>1. /\ run.pc = "needles" /\ pool = NoValue /\ OnlyRun
      /\ run' = [run EXCEPT !.pc = "tasks", !.needle = NeedleReport(run.rows, run.unsupported),
                            !.rows = {}, !.unsupported = 0]
  BY DEF NeedlesDone, AllAsked, OnlyRun
<1>2. NeedleReport(run.rows, run.unsupported).unsupported = run.unsupported
  BY DEF NeedleReport
<1> QED
  BY <1>1, <1>2, FieldsAre DEF Keeps

LEMMA Gate3Writes ==
  ASSUME DOMAIN run = Fields, Gate3
  PROVE  /\ run.pc = "tasks" /\ pool = NoValue /\ run'.pc \in {"scale", "drift"}
         /\ Keeps({"pc", "gate3", "snapshot", "rows"})
         /\ run'.gate3 \in BOOLEAN /\ (run'.gate3 => run.needle.unsupported = 0) /\ OnlyRun
<1> DEFINE passes == Gate3Passes(run.needle, BaselineOfRun, Gate3Spec)
<1>1. /\ run.pc = "tasks" /\ pool = NoValue /\ OnlyRun
      /\ run' = [run EXCEPT !.pc = IF passes THEN "scale" ELSE "drift", !.gate3 = passes,
                            !.snapshot = Snapshot(run.needle, BaselineOfRun), !.rows = {}]
  BY DEF Gate3, AllAsked, OnlyRun
<1>2. passes \in BOOLEAN /\ (passes => run.needle.unsupported = 0)
  BY DEF Gate3Passes
<1> HIDE DEF passes
<1> QED
  BY <1>1, <1>2, FieldsAre DEF Keeps

LEMMA StartScaleWrites ==
  ASSUME DOMAIN run = Fields, StartScale
  PROVE  /\ run.pc = "scale" /\ Keeps({"pc", "panel", "chosenFrom"})
         /\ run'.panel = LivePanel /\ run'.chosenFrom = corpus
         /\ run'.pc = IF /\ PanelBlockers(corpus, run.cases, LivePanel, PanelSpec(ScaleSpec)) = {}
                         /\ FrozenPlanFits
                      THEN "point" ELSE "rejected"
         /\ OnlyRun
  BY FieldsAre DEF StartScale, Keeps, OnlyRun

LEMMA RejectPointWrites ==
  ASSUME DOMAIN run = Fields, RejectPoint
  PROVE  /\ run.pc = "point" /\ ~AllPoints /\ PointsFor(Ratio) = {}
         /\ run'.pc = "rejected" /\ Keeps({"pc"}) /\ OnlyRun
  BY FieldsAre DEF RejectPoint, Goto, Keeps, OnlyRun

LEMMA BlockPointWrites ==
  ASSUME DOMAIN run = Fields, BlockPoint
  PROVE  /\ run.pc = "point" /\ ~AllPoints /\ Keeps({"points"}) /\ OnlyRun
         /\ \E p \in PointsFor(Ratio) :
              p.blockers # {} /\ run'.points = Append(run.points, PointResult("blocked", p, NoNeedles))
  BY FieldsAre DEF BlockPoint, Keeps, OnlyRun

LEMMA StartPointWrites ==
  ASSUME DOMAIN run = Fields, StartPoint
  PROVE  /\ run.pc = "point" /\ ~AllPoints /\ Keeps({"pc", "projected"}) /\ OnlyRun
         /\ run'.pc = "pointNeedles"
         /\ \E p \in PointsFor(Ratio) : p.blockers = {} /\ run'.projected = Materialized(p)
  BY FieldsAre DEF StartPoint, Keeps, OnlyRun

LEMMA PointNeedlesDoneWrites ==
  ASSUME DOMAIN run = Fields, PointNeedlesDone
  PROVE  /\ run.pc = "pointNeedles" /\ pool = NoValue /\ run'.pc = "pointTasks"
         /\ Keeps({"pc", "needle", "rows", "unsupported"}) /\ OnlyRun
<1>1. \E needle : run' = [run EXCEPT !.pc = "pointTasks", !.needle = needle,
                                      !.rows = {}, !.unsupported = 0]
  BY DEF PointNeedlesDone
<1>2. PICK needle : run' = [run EXCEPT !.pc = "pointTasks", !.needle = needle,
                                      !.rows = {}, !.unsupported = 0]
  BY <1>1
<1> QED
  BY <1>2, FieldsAre DEF PointNeedlesDone, AllAsked, Keeps, OnlyRun

LEMMA FinishPointWrites ==
  ASSUME DOMAIN run = Fields, FinishPoint
  PROVE  /\ run.pc = "pointTasks" /\ pool = NoValue /\ run'.pc = "point"
         /\ Keeps({"pc", "rows", "projected", "points"}) /\ OnlyRun
         /\ \E status \in {"pass", "fail"} :
              /\ run'.points =
                   Append(run.points, PointResult(status, run.projected.point, run.needle))
              /\ status = "pass" =>
                   Reaches(run.needle.recovered, run.needle.present, ScaleSpec.recall)
<1> DEFINE passes == PointPasses(run.needle, BaselineOfRun)
           status == IF passes THEN "pass" ELSE "fail"
<1>1. /\ run.pc = "pointTasks" /\ pool = NoValue /\ OnlyRun
      /\ run' = [run EXCEPT !.pc = "point", !.rows = {}, !.projected = NoValue,
                   !.points = Append(@, PointResult(status, run.projected.point, run.needle))]
  BY DEF FinishPoint, AllAsked, OnlyRun
<1>2. /\ status \in {"pass", "fail"}
      /\ status = "pass" => Reaches(run.needle.recovered, run.needle.present, ScaleSpec.recall)
  BY DEF PointPasses
<1> HIDE DEF status
<1>3. Keeps({"pc", "rows", "projected", "points"}) /\ run'.pc = "point"
      /\ run'.points = Append(run.points, PointResult(status, run.projected.point, run.needle))
  BY <1>1, FieldsAre DEF Keeps
<1> QED
  BY <1>1, <1>2, <1>3

LEMMA Gate4Writes ==
  ASSUME DOMAIN run = Fields, Gate4
  PROVE  /\ run.pc = "point" /\ AllPoints /\ run'.pc = "drift" /\ Keeps({"pc", "gate4"})
         /\ run'.gate4 = Gate4Passes(run.points) /\ OnlyRun
  BY FieldsAre DEF Gate4, Keeps, OnlyRun

LEMMA ConcludeWrites ==
  ASSUME DOMAIN run = Fields, Conclude
  PROVE  /\ run.pc = "drift" /\ run'.pc = "done" /\ Keeps({"pc", "claim"}) /\ OnlyRun
         /\ run'.claim \in BOOLEAN /\ (run'.claim => run.gate3 /\ run.gate4)
<1>1. PICK reference \in References :
       run' = [run EXCEPT !.pc = "done",
         !.claim = /\ run.gate3 /\ run.gate4
                   /\ reference # NoValue /\ Gate5Passes(reference, run.snapshot, Gate5Spec)]
  BY DEF Conclude
<1>2. \E claim \in BOOLEAN :
        (claim => run.gate3 /\ run.gate4) /\ run' = [run EXCEPT !.pc = "done", !.claim = claim]
  BY <1>1
<1> QED
  BY <1>2, FieldsAre DEF Conclude, Keeps, OnlyRun

-----------------------------------------------------------------------------
\* First layer: the shapes of the run, the stores, the pool and the budget.

RunFits ==
  /\ DOMAIN run = Fields
  /\ run.pc \in Traversals \cup {"idle", "scale", "point", "drift", "done", "rejected"}
  /\ {run.gate3, run.gate4, run.claim, run.replaced} \subseteq BOOLEAN
  /\ run.points \in Seq(Range(run.points)) /\ Len(run.points) <= Len(ScaleSpec.ratios)
  /\ run.pc # "idle" => run.cases \in Matrices
  /\ run.pc \in {"pointNeedles", "pointTasks"} => ~AllPoints

StoreFits ==
  /\ corpus \in Corpora /\ corpus.blocks \subseteq payload
  /\ \A b, c \in payload : b.id = c.id => b = c

\* A panel is not known to be finite: how it is chosen is not looked at.
PoolFits ==
  pool # NoValue =>
    /\ run.pc \in Traversals
    /\ DOMAIN pool = {"blocks", "questions", "results", "attempts"}
    /\ pool.attempts \in [{b.id : b \in pool.blocks} -> 0 .. Attempts - 1]
    /\ pool.results \in [{b.id : b \in pool.blocks} -> Results]
    /\ run.pc # "pointNeedles" => IsFiniteSet(pool.questions) /\ pool.questions # {}

BudgetFits == budget \in [faults : 0 .. MaxFaults, changes : 0 .. MaxChanges]

HarnessShape == RunFits /\ StoreFits /\ PoolFits /\ BudgetFits

LEMMA ShapeGivesTypes == HarnessShape => ProofTypeOK
<1> SUFFICES ASSUME HarnessShape PROVE ProofTypeOK
  OBVIOUS
<1>1. pool # NoValue => /\ Range(pool.results) \subseteq Results
                        /\ Range(pool.attempts) \subseteq 0 .. Attempts - 1
  BY DEF HarnessShape, PoolFits, Range
<1> QED
  BY <1>1 DEF HarnessShape, RunFits, StoreFits, BudgetFits, ProofTypeOK

LEMMA ShapeInit == HarnessInit => HarnessShape
<1> SUFFICES ASSUME HarnessInit PROVE HarnessShape
  OBVIOUS
<1>1. /\ DOMAIN run = Fields /\ run.pc = "idle" /\ run.points = <<>>
      /\ ~run.gate3 /\ ~run.gate4 /\ ~run.claim /\ ~run.replaced
      /\ {run.gate3, run.gate4, run.claim, run.replaced} \subseteq BOOLEAN
  BY DEF HarnessInit, NewRun, Fields
<1>2. <<>> \in Seq(Range(<<>>)) /\ Len(<<>>) = 0 /\ Len(ScaleSpec.ratios) \in Nat
  BY HarnessAssumption
<1>3. RunFits
  BY <1>1, <1>2 DEF RunFits
<1>4. StoreFits
  BY CorporaAssumption DEF HarnessInit, StoreFits
<1> QED
  BY <1>3, <1>4, HarnessAssumption DEF HarnessInit, HarnessShape, PoolFits, BudgetFits

\* The list of points when one is added.
LEMMA PointAdded ==
  ASSUME NEW points, points \in Seq(Range(points)), NEW p
  PROVE  LET more == Append(points, p) IN
         /\ more \in Seq(Range(more)) /\ Len(more) = Len(points) + 1
         /\ DOMAIN more = 1 .. Len(points) + 1 /\ DOMAIN points = 1 .. Len(points)
         /\ more[Len(points) + 1] = p
         /\ \A i \in DOMAIN points : more[i] = points[i]
<1> DEFINE S == Range(points) \cup {p}
           more == Append(points, p)
<1>1. points \in Seq(S)
  OBVIOUS
<1> HIDE DEF S
<1>2. /\ more \in Seq(S) /\ Len(more) = Len(points) + 1 /\ more[Len(points) + 1] = p
      /\ DOMAIN more = 1 .. Len(points) + 1 /\ DOMAIN points = 1 .. Len(points)
      /\ \A i \in DOMAIN points : more[i] = points[i]
  BY <1>1 DEF S
<1> HIDE DEF more
<1>3. more \in Seq(Range(more))
  BY <1>2 DEF Range
<1> QED
  BY <1>2, <1>3 DEF more

\* A step that leaves alone all that RunFits looks at.
LEMMA RunKept ==
  ASSUME RunFits, NEW F, Keeps(F),
         F \cap {"pc", "gate3", "gate4", "claim", "replaced", "points", "cases"} = {}
  PROVE  RunFits'
<1>1. /\ run'.pc = run.pc /\ run'.gate3 = run.gate3 /\ run'.gate4 = run.gate4
      /\ run'.claim = run.claim /\ run'.replaced = run.replaced
      /\ run'.points = run.points /\ run'.cases = run.cases /\ DOMAIN run' = Fields
  BY FieldsAre DEF Keeps
<1> QED
  BY <1>1 DEF RunFits, AllPoints

LEMMA StoreKept == ASSUME StoreFits, UNCHANGED <<corpus, payload>> PROVE StoreFits'
  BY DEF StoreFits

LEMMA BudgetKept == ASSUME BudgetFits, UNCHANGED budget PROVE BudgetFits'
  BY DEF BudgetFits

\* Without a traversal the run may change as it likes.
LEMMA NoPool == pool' = NoValue => PoolFits'
  BY DEF PoolFits

\* A step of the run alone, between traversals.
LEMMA BetweenTraversals ==
  ASSUME HarnessShape, pool = NoValue, OnlyRun, RunFits'
  PROVE  HarnessShape'
  BY StoreKept, BudgetKept, NoPool DEF HarnessShape, OnlyRun

LEMMA IngestShape == ASSUME HarnessShape, Ingest PROVE HarnessShape'
<1>1. DOMAIN run = Fields /\ RunFits /\ StoreFits /\ PoolFits /\ BudgetFits
  BY DEF HarnessShape, RunFits
<1>2. /\ budget.changes < MaxChanges /\ budget' = [budget EXCEPT !.changes = @ + 1]
      /\ corpus' \in Corpora
      /\ payload' = {b \in payload : b.id \notin BlockIds(corpus')} \cup corpus'.blocks
      /\ Keeps({"replaced"}) /\ run'.replaced = (run.chosenFrom # NoValue)
      /\ UNCHANGED <<plan, pool>>
  BY <1>1, IngestWrites
<1>3. /\ run'.pc = run.pc /\ run'.gate3 = run.gate3 /\ run'.gate4 = run.gate4
      /\ run'.claim = run.claim
      /\ run'.points = run.points /\ run'.cases = run.cases /\ DOMAIN run' = Fields
  BY <1>2, FieldsAre DEF Keeps
<1>4. RunFits'
  BY <1>1, <1>2, <1>3 DEF RunFits, AllPoints
<1>5. StoreFits'
  BY <1>1, <1>2, CorporaAssumption DEF StoreFits, BlockIds
<1>6. PoolFits'
  BY <1>1, <1>2, <1>3 DEF PoolFits
<1>7. BudgetFits'
  BY <1>1, <1>2, HarnessAssumption DEF BudgetFits
<1> QED
  BY <1>4, <1>5, <1>6, <1>7 DEF HarnessShape

LEMMA StartShape == ASSUME HarnessShape, Start PROVE HarnessShape'
<1>1. DOMAIN run = Fields /\ RunFits /\ PoolFits
  BY DEF HarnessShape, RunFits
<1>2. /\ run.pc = "idle" /\ run'.pc \in {"needles", "done"} /\ run'.cases \in Matrices
      /\ Keeps({"pc", "cases", "route"}) /\ OnlyRun
  BY <1>1, StartWrites DEF OnlyRun
<1>3. /\ run'.gate3 = run.gate3 /\ run'.gate4 = run.gate4 /\ run'.claim = run.claim
      /\ run'.replaced = run.replaced
      /\ run'.points = run.points /\ DOMAIN run' = Fields
  BY <1>2, FieldsAre DEF Keeps
<1>4. RunFits'
  BY <1>1, <1>2, <1>3 DEF RunFits, Traversals
<1>5. pool = NoValue
  BY <1>1, <1>2 DEF PoolFits, Traversals
<1> QED
  BY <1>2, <1>4, <1>5, BetweenTraversals

LEMMA TraverseShape == ASSUME HarnessShape, Traverse PROVE HarnessShape'
<1> DEFINE first == CHOOSE q \in Unasked : \A r \in Unasked : q.id <= r.id
           asked == IF run.route.batch THEN Unasked ELSE {first}
           none == [id \in BlockIds(Traversed) |-> ""]
           fresh == [id \in BlockIds(Traversed) |-> 0]
<1>1. /\ run.pc \in Traversals /\ Unasked # {} /\ UNCHANGED <<corpus, payload, plan, run, budget>>
      /\ pool' = [blocks |-> Traversed.blocks, questions |-> asked, results |-> none,
                  attempts |-> fresh]
  BY DEF Traverse
<1>2. RunFits /\ StoreFits /\ BudgetFits
  BY DEF HarnessShape
<1>3. run.pc # "pointNeedles" => IsFiniteSet(asked) /\ asked # {}
  <2> SUFFICES ASSUME run.pc # "pointNeedles"
               PROVE  IsFiniteSet(asked) /\ asked # {}
    OBVIOUS
  <2>1. IsFiniteSet(Questions)
    <3>1. CASE run.pc = "needles"
      <4>1. Questions = run.cases /\ run.cases \in Matrices
        BY <1>2, <3>1 DEF Questions, RunFits
      <4> QED
        BY <4>1, HarnessAssumption
    <3>2. CASE run.pc \in {"tasks", "pointTasks"}
      <4>1. Questions \subseteq Tasks
        BY <3>2 DEF Questions
      <4> QED
        BY <4>1, HarnessAssumption, FS_Subset
    <3> QED
      BY <1>1, <3>1, <3>2 DEF Traversals
  <2>2. IsFiniteSet(Unasked)
    BY <2>1, FS_Subset DEF Unasked
  <2>3. IsFiniteSet({first})
    BY FS_Singleton
  <2> QED
    BY <1>1, <2>2, <2>3
<1>4. fresh \in [{b.id : b \in Traversed.blocks} -> 0 .. Attempts - 1]
  BY HarnessAssumption DEF BlockIds
<1>5. none \in [{b.id : b \in Traversed.blocks} -> Results]
  BY DEF BlockIds, Results
<1> HIDE DEF asked, none, fresh
<1>6. PoolFits'
  BY <1>1, <1>3, <1>4, <1>5 DEF PoolFits
<1> QED
  BY <1>1, <1>2, <1>6 DEF HarnessShape, RunFits, StoreFits, BudgetFits, AllPoints

\* A result comes in.
LEMMA DeliverShape ==
  ASSUME HarnessShape, pool # NoValue, NEW b \in pool.blocks, NEW result \in Results,
         Deliver(b, result), UNCHANGED run
  PROVE  PoolFits'
<1>1. PoolFits /\ pool' = [pool EXCEPT !.results[b.id] = result, !.attempts[b.id] = 0]
  BY DEF HarnessShape, Deliver
<1>2. /\ DOMAIN pool' = DOMAIN pool
      /\ pool'.results = [pool.results EXCEPT ![b.id] = result]
      /\ pool'.attempts = [pool.attempts EXCEPT ![b.id] = 0]
      /\ pool'.blocks = pool.blocks /\ pool'.questions = pool.questions
  BY <1>1 DEF PoolFits
<1>3. /\ pool'.results \in [{c.id : c \in pool.blocks} -> Results]
      /\ pool'.attempts \in [{c.id : c \in pool.blocks} -> 0 .. Attempts - 1]
  BY <1>1, <1>2, HarnessAssumption DEF PoolFits
<1> QED
  BY <1>1, <1>2, <1>3 DEF PoolFits

LEMMA InFlightIsThere == \A b \in InFlight : pool # NoValue /\ b \in pool.blocks
  BY DEF InFlight, Pending

LEMMA OneMoreFault ==
  ASSUME BudgetFits, budget.faults < MaxFaults
  PROVE  [budget EXCEPT !.faults = @ + 1] \in [faults : 0 .. MaxFaults, changes : 0 .. MaxChanges]
  BY HarnessAssumption DEF BudgetFits

LEMMA NoMoreFaults ==
  ASSUME BudgetFits
  PROVE  [budget EXCEPT !.faults = @ + 0] \in [faults : 0 .. MaxFaults, changes : 0 .. MaxChanges]
  BY DEF BudgetFits

LEMMA SkipBlockShape == ASSUME HarnessShape, SkipBlock PROVE HarnessShape'
<1>1. PICK b \in InFlight : Deliver(b, "unsupported")
  BY DEF SkipBlock
<1>2. UNCHANGED <<corpus, payload, plan, run, budget>>
  BY DEF SkipBlock
<1>3. PoolFits'
  BY <1>1, <1>2, InFlightIsThere, DeliverShape DEF Results
<1> QED
  BY <1>2, <1>3 DEF HarnessShape, RunFits, StoreFits, BudgetFits, AllPoints

LEMMA AnswerShape == ASSUME HarnessShape, Answer PROVE HarnessShape'
<1>1. PICK b \in InFlight, answer \in {"right", "nothing", "everything"} :
        /\ answer # "right" => budget.faults < MaxFaults
        /\ Deliver(b, answer)
        /\ Spend("faults", IF answer = "right" THEN 0 ELSE 1)
  BY DEF Answer
<1>2. UNCHANGED <<corpus, payload, plan, run>>
  BY DEF Answer
<1>3. PoolFits'
  BY <1>1, <1>2, InFlightIsThere, DeliverShape DEF Results
<1>4. BudgetFits
  BY DEF HarnessShape
<1>5. BudgetFits'
  <2>1. CASE answer = "right"
    BY <1>1, <1>4, <2>1, NoMoreFaults DEF Spend, BudgetFits
  <2>2. CASE answer # "right"
    BY <1>1, <1>4, <2>2, OneMoreFault DEF Spend, BudgetFits
  <2> QED
    BY <2>1, <2>2
<1> QED
  BY <1>2, <1>3, <1>5 DEF HarnessShape, RunFits, StoreFits, AllPoints

LEMMA FailCallShape == ASSUME HarnessShape, FailCall PROVE HarnessShape'
<1>1. PICK b \in InFlight, message \in {"failed", "lost"} :
        /\ pool.attempts[b.id] > 0 \/ budget.faults < MaxFaults
        /\ IF TriesLeft(b)
           THEN pool' = [pool EXCEPT !.attempts[b.id] = @ + 1]
           ELSE Deliver(b, message)
        /\ Spend("faults", IF pool.attempts[b.id] > 0 THEN 0 ELSE 1)
  BY DEF FailCall
<1>2. UNCHANGED <<corpus, payload, plan, run>>
  BY DEF FailCall
<1>3. pool # NoValue /\ b \in pool.blocks /\ PoolFits /\ BudgetFits
  BY <1>1, InFlightIsThere DEF HarnessShape
<1>4. PoolFits'
  <2>1. CASE TriesLeft(b)
    <3>1. pool' = [pool EXCEPT !.attempts[b.id] = @ + 1] /\ pool.attempts[b.id] + 1 < Attempts
      BY <1>1, <2>1 DEF TriesLeft
    <3>2. /\ DOMAIN pool' = DOMAIN pool
          /\ pool'.attempts = [pool.attempts EXCEPT ![b.id] = @ + 1]
          /\ pool'.blocks = pool.blocks /\ pool'.questions = pool.questions
          /\ pool'.results = pool.results
      BY <1>3, <3>1 DEF PoolFits
    <3>3. pool'.attempts \in [{c.id : c \in pool.blocks} -> 0 .. Attempts - 1]
      BY <1>3, <3>1, <3>2, HarnessAssumption DEF PoolFits
    <3> QED
      BY <1>2, <1>3, <3>2, <3>3 DEF PoolFits
  <2>2. CASE ~TriesLeft(b)
    BY <1>1, <1>2, <1>3, <2>2, DeliverShape DEF Results
  <2> QED
    BY <2>1, <2>2
<1>5. BudgetFits'
  <2>1. CASE pool.attempts[b.id] > 0
    BY <1>1, <1>3, <2>1, NoMoreFaults DEF Spend, BudgetFits
  <2>2. CASE ~(pool.attempts[b.id] > 0)
    BY <1>1, <1>3, <2>2, OneMoreFault DEF Spend, BudgetFits
  <2> QED
    BY <2>1, <2>2
<1> QED
  BY <1>2, <1>4, <1>5 DEF HarnessShape, RunFits, StoreFits, AllPoints

\* A traversal is scored, and the pool is gone.
LEMMA ScoredFits ==
  ASSUME RunFits, NEW F \in SUBSET {"rows", "unsupported", "missed", "lost"}, Keeps(F)
  PROVE  RunFits'
<1>1. F \cap {"pc", "gate3", "gate4", "claim", "replaced", "points", "cases"} = {}
  OBVIOUS
<1> QED
  BY <1>1, RunKept

LEMMA ScoreNeedlesShape == ASSUME HarnessShape, ScoreNeedles PROVE HarnessShape'
<1>1. DOMAIN run = Fields /\ RunFits /\ StoreFits /\ BudgetFits
  BY DEF HarnessShape, RunFits
<1>2. /\ Keeps({"rows", "unsupported", "missed", "lost"})
      /\ pool' = NoValue /\ UNCHANGED <<corpus, payload, plan, budget>>
  BY <1>1, ScoreNeedlesWrites
<1>3. RunFits'
  BY <1>1, <1>2, ScoredFits
<1> QED
  BY <1>1, <1>2, <1>3, NoPool, StoreKept, BudgetKept DEF HarnessShape

LEMMA EvaluationRaisesShape == ASSUME HarnessShape, EvaluationRaises PROVE HarnessShape'
<1>1. DOMAIN run = Fields /\ RunFits /\ StoreFits /\ BudgetFits
  BY DEF HarnessShape, RunFits
<1>2. /\ Keeps({"rows", "unsupported", "missed", "lost"})
      /\ budget.faults < MaxFaults /\ budget' = [budget EXCEPT !.faults = @ + 1]
      /\ pool' = NoValue /\ UNCHANGED <<corpus, payload, plan>>
  BY <1>1, EvaluationRaisesWrites
<1>3. RunFits'
  BY <1>1, <1>2, ScoredFits
<1>4. BudgetFits'
  BY <1>1, <1>2, OneMoreFault DEF BudgetFits
<1> QED
  BY <1>1, <1>2, <1>3, <1>4, NoPool, StoreKept DEF HarnessShape

LEMMA ScoreTasksShape == ASSUME HarnessShape, ScoreTasks PROVE HarnessShape'
<1>1. DOMAIN run = Fields /\ RunFits /\ StoreFits /\ BudgetFits /\ PoolFits
  BY DEF HarnessShape, RunFits
<1>2. /\ run.pc \in {"tasks", "pointTasks"} /\ pool # NoValue
      /\ Keeps({"rows", "missed", "lost"})
      /\ pool' = NoValue /\ UNCHANGED <<corpus, payload, plan>>
  BY <1>1, ScoreTasksWrites DEF ResultsDone
<1>3. PICK W \in SUBSET pool.questions, R \in SUBSET pool.questions :
        /\ budget.faults + Cardinality(W) + Cardinality(R) <= MaxFaults
        /\ budget' = [budget EXCEPT !.faults = @ + (Cardinality(W) + Cardinality(R))]
  BY <1>1, ScoreTasksWrites
<1>4. IsFiniteSet(pool.questions)
  BY <1>1, <1>2 DEF PoolFits
<1>5. Cardinality(W) \in Nat /\ Cardinality(R) \in Nat
  BY <1>4, FS_Subset, FS_CardinalityType
<1> DEFINE n == Cardinality(W) + Cardinality(R)
<1>6. BudgetFits'
  <2>1. /\ budget.faults \in Nat /\ DOMAIN budget = {"faults", "changes"}
        /\ budget.changes \in 0 .. MaxChanges
    BY <1>1 DEF BudgetFits
  <2>2. n \in Nat /\ budget.faults + n <= MaxFaults
    BY <1>3, <1>5, <2>1, HarnessAssumption
  <2>3. budget' = [budget EXCEPT !.faults = @ + n]
    BY <1>3
  <2> HIDE DEF n
  <2>4. budget.faults + n \in 0 .. MaxFaults
    BY <2>1, <2>2, HarnessAssumption
  <2> QED
    BY <1>1, <2>3, <2>4 DEF BudgetFits
<1>7. RunFits'
  BY <1>1, <1>2, ScoredFits
<1> QED
  BY <1>1, <1>2, <1>6, <1>7, NoPool, StoreKept DEF HarnessShape

LEMMA NeedlesDoneShape == ASSUME HarnessShape, NeedlesDone PROVE HarnessShape'
<1>1. DOMAIN run = Fields /\ RunFits
  BY DEF HarnessShape, RunFits
<1>2. /\ run.pc = "needles" /\ pool = NoValue /\ run'.pc = "tasks" /\ OnlyRun
      /\ Keeps({"pc", "needle", "rows", "unsupported"})
  BY <1>1, NeedlesDoneWrites
<1>3. RunFits'
  BY <1>1, <1>2, FieldsAre DEF RunFits, Keeps, Traversals, AllPoints
<1> QED
  BY <1>2, <1>3, BetweenTraversals

LEMMA Gate3Shape == ASSUME HarnessShape, Gate3 PROVE HarnessShape'
<1>1. DOMAIN run = Fields /\ RunFits
  BY DEF HarnessShape, RunFits
<1>2. /\ run.pc = "tasks" /\ pool = NoValue /\ run'.pc \in {"scale", "drift"} /\ OnlyRun
      /\ Keeps({"pc", "gate3", "snapshot", "rows"}) /\ run'.gate3 \in BOOLEAN
  BY <1>1, Gate3Writes
<1>3. RunFits'
  BY <1>1, <1>2, FieldsAre DEF RunFits, Keeps, Traversals, AllPoints
<1> QED
  BY <1>2, <1>3, BetweenTraversals

\* Past Gate 3 and outside the traversals of a point there is no pool.
LEMMA NoPoolBetween ==
  ASSUME HarnessShape, run.pc \in {"idle", "scale", "point", "drift"}
  PROVE  pool = NoValue
  BY DEF HarnessShape, PoolFits, Traversals

LEMMA StartScaleShape == ASSUME HarnessShape, StartScale PROVE HarnessShape'
<1>1. DOMAIN run = Fields /\ RunFits
  BY DEF HarnessShape, RunFits
<1>2. /\ run.pc = "scale" /\ run'.pc \in {"point", "rejected"} /\ OnlyRun
      /\ Keeps({"pc", "panel", "chosenFrom"})
  BY <1>1, StartScaleWrites
<1>3. RunFits'
  BY <1>1, <1>2, FieldsAre DEF RunFits, Keeps, AllPoints
<1> QED
  BY <1>2, <1>3, NoPoolBetween, BetweenTraversals

LEMMA RejectPointShape == ASSUME HarnessShape, RejectPoint PROVE HarnessShape'
<1>1. DOMAIN run = Fields /\ RunFits
  BY DEF HarnessShape, RunFits
<1>2. run.pc = "point" /\ run'.pc = "rejected" /\ OnlyRun /\ Keeps({"pc"})
  BY <1>1, RejectPointWrites
<1>3. RunFits'
  BY <1>1, <1>2, FieldsAre DEF RunFits, Keeps, AllPoints
<1> QED
  BY <1>2, <1>3, NoPoolBetween, BetweenTraversals

\* A point is added to the list.
LEMMA PointAddedFits ==
  ASSUME RunFits, run.pc # "idle", run'.pc = "point", ~AllPoints, NEW p,
         run'.points = Append(run.points, p),
         NEW F \in SUBSET {"pc", "rows", "projected", "points"}, Keeps(F)
  PROVE  RunFits'
<1>1. /\ run'.gate3 = run.gate3 /\ run'.gate4 = run.gate4
      /\ run'.claim = run.claim /\ run'.replaced = run.replaced
      /\ run'.cases = run.cases /\ DOMAIN run' = Fields
  BY FieldsAre DEF Keeps
<1>2. run'.points \in Seq(Range(run'.points)) /\ Len(run'.points) = Len(run.points) + 1
  BY PointAdded DEF RunFits
<1>3. Len(run.points) \in Nat /\ Len(ScaleSpec.ratios) \in Nat
      /\ Len(run.points) # Len(ScaleSpec.ratios)
  BY HarnessAssumption DEF RunFits, AllPoints
<1> QED
  BY <1>1, <1>2, <1>3 DEF RunFits, AllPoints

LEMMA BlockPointShape == ASSUME HarnessShape, BlockPoint PROVE HarnessShape'
<1>1. DOMAIN run = Fields /\ RunFits
  BY DEF HarnessShape, RunFits
<1>2. run.pc = "point" /\ ~AllPoints /\ Keeps({"points"}) /\ OnlyRun
      /\ \E p : run'.points = Append(run.points, p)
  BY <1>1, BlockPointWrites
<1>3. run'.pc = "point"
  BY <1>2, FieldsAre DEF Keeps
<1>4. RunFits'
  BY <1>1, <1>2, <1>3, PointAddedFits
<1> QED
  BY <1>2, <1>4, NoPoolBetween, BetweenTraversals

LEMMA StartPointShape == ASSUME HarnessShape, StartPoint PROVE HarnessShape'
<1>1. DOMAIN run = Fields /\ RunFits
  BY DEF HarnessShape, RunFits
<1>2. /\ run.pc = "point" /\ run'.pc = "pointNeedles" /\ ~AllPoints
      /\ Keeps({"pc", "projected"}) /\ OnlyRun
  BY <1>1, StartPointWrites
<1>3. RunFits'
  BY <1>1, <1>2, FieldsAre DEF RunFits, Keeps, Traversals, AllPoints
<1> QED
  BY <1>2, <1>3, NoPoolBetween, BetweenTraversals

LEMMA PointNeedlesDoneShape == ASSUME HarnessShape, PointNeedlesDone PROVE HarnessShape'
<1>1. DOMAIN run = Fields /\ RunFits
  BY DEF HarnessShape, RunFits
<1>2. /\ run.pc = "pointNeedles" /\ pool = NoValue /\ run'.pc = "pointTasks" /\ OnlyRun
      /\ Keeps({"pc", "needle", "rows", "unsupported"})
  BY <1>1, PointNeedlesDoneWrites
<1>3. RunFits'
  BY <1>1, <1>2, FieldsAre DEF RunFits, Keeps, Traversals, AllPoints
<1> QED
  BY <1>2, <1>3, BetweenTraversals

LEMMA FinishPointShape == ASSUME HarnessShape, FinishPoint PROVE HarnessShape'
<1>1. DOMAIN run = Fields /\ RunFits
  BY DEF HarnessShape, RunFits
<1>2. /\ run.pc = "pointTasks" /\ pool = NoValue /\ run'.pc = "point" /\ OnlyRun
      /\ Keeps({"pc", "rows", "projected", "points"})
      /\ \E p : run'.points = Append(run.points, p) /\ ~AllPoints
  BY <1>1, FinishPointWrites DEF RunFits
<1>3. RunFits'
  BY <1>1, <1>2, PointAddedFits
<1> QED
  BY <1>2, <1>3, BetweenTraversals

LEMMA Gate4Shape == ASSUME HarnessShape, Gate4 PROVE HarnessShape'
<1>1. DOMAIN run = Fields /\ RunFits
  BY DEF HarnessShape, RunFits
<1>2. /\ run.pc = "point" /\ run'.pc = "drift" /\ OnlyRun
      /\ Keeps({"pc", "gate4"}) /\ run'.gate4 \in BOOLEAN
  BY <1>1, Gate4Writes DEF Gate4Passes
<1>3. RunFits'
  BY <1>1, <1>2, FieldsAre DEF RunFits, Keeps, AllPoints
<1> QED
  BY <1>2, <1>3, NoPoolBetween, BetweenTraversals

LEMMA ConcludeShape == ASSUME HarnessShape, Conclude PROVE HarnessShape'
<1>1. DOMAIN run = Fields /\ RunFits
  BY DEF HarnessShape, RunFits
<1>2. /\ run.pc = "drift" /\ run'.pc = "done" /\ OnlyRun
      /\ Keeps({"pc", "claim"}) /\ run'.claim \in BOOLEAN
  BY <1>1, ConcludeWrites
<1>3. RunFits'
  BY <1>1, <1>2, FieldsAre DEF RunFits, Keeps, AllPoints
<1> QED
  BY <1>2, <1>3, NoPoolBetween, BetweenTraversals

LEMMA MakePlanShape == ASSUME HarnessShape, MakePlan PROVE HarnessShape'
  BY MakePlanWrites DEF HarnessShape, RunFits, StoreFits, PoolFits, BudgetFits, AllPoints

LEMMA ShapeNext == HarnessShape /\ [HarnessNext]_harnessVars => HarnessShape'
<1> SUFFICES ASSUME HarnessShape, [HarnessNext]_harnessVars
             PROVE  HarnessShape'
  OBVIOUS
<1>1. CASE UNCHANGED harnessVars
  BY <1>1 DEF harnessVars, HarnessShape, RunFits, StoreFits, PoolFits, BudgetFits, AllPoints
<1>2. CASE HarnessNext
  BY <1>2, MakePlanShape, IngestShape, StartShape, TraverseShape, SkipBlockShape, AnswerShape,
     FailCallShape, ScoreNeedlesShape, EvaluationRaisesShape, ScoreTasksShape,
     NeedlesDoneShape, Gate3Shape, StartScaleShape, RejectPointShape, BlockPointShape,
     StartPointShape, PointNeedlesDoneShape, FinishPointShape, Gate4Shape, ConcludeShape
     DEF HarnessNext
<1> QED
  BY <1>1, <1>2

LEMMA ShapeAlways == HarnessSpec => []HarnessShape
  BY ShapeInit, ShapeNext, PTL DEF HarnessSpec

\* A run, its traversals and the stores have their types, whatever is ingested and
\* whatever fails: no block is tried more often than allowed, and there are no more points
\* than ratios.
THEOREM HarnessTypesCorrect == HarnessSpec => []ProofTypeOK
  BY ShapeAlways, ShapeGivesTypes, PTL

-----------------------------------------------------------------------------
\* The plan.

LEMMA PlanMadeInit == HarnessInit => PlanMade
  BY DEF HarnessInit, PlanMade

\* Only the planner writes a plan.
LEMMA PlanKept == HarnessNext => MakePlan \/ UNCHANGED plan
  BY DEF HarnessNext, Ingest, Start, Traverse, SkipBlock, Answer, FailCall, ScoreNeedles,
     EvaluationRaises, ScoreTasks, NeedlesDone, Gate3, StartScale, RejectPoint, BlockPoint,
     StartPoint, PointNeedlesDone, FinishPoint, Gate4, Conclude

LEMMA PlanMadeNext == HarnessShape /\ PlanMade /\ [HarnessNext]_harnessVars => PlanMade'
<1> SUFFICES ASSUME HarnessShape, PlanMade, [HarnessNext]_harnessVars
             PROVE  PlanMade'
  OBVIOUS
<1>1. CASE UNCHANGED plan
  BY <1>1 DEF PlanMade
<1>2. CASE MakePlan
  BY <1>2 DEF MakePlan, PlanMade, HarnessShape, StoreFits
<1> QED
  BY <1>1, <1>2, PlanKept DEF harnessVars

LEMMA PlanMadeAlways == HarnessSpec => []PlanMade
  BY ShapeAlways, PlanMadeInit, PlanMadeNext, PTL DEF HarnessSpec

\* The projections of a plan nest, keep the anchors and stop where they should, for every
\* corpus, panel and list of ratios.
THEOREM ProjectionsAreNested == HarnessSpec => []ProjectionsNest
  BY PlanMadeAlways, PlansNest, PTL

-----------------------------------------------------------------------------
\* Second layer: what is missed for Gate 3 is counted, and the gates pass in their order.

\* What was missed and should have been counted.
MissedForGood == run.missed \ run.lost

MissedIsCounted ==
  /\ run.pc = "idle" => MissedForGood = {} /\ run.unsupported = 0
  /\ run.pc \in {"idle", "needles", "tasks"} => ~run.gate3
  /\ run.pc = "needles" => run.unsupported \in Nat /\ (MissedForGood # {} => run.unsupported > 0)
  /\ run.pc = "tasks" /\ MissedForGood # {} => run.needle.unsupported # 0
  /\ run.gate3 => MissedForGood = {}

GatesInOrder ==
  /\ run.claim => run.gate3 /\ run.gate4
  /\ run.pc # "done" => ~run.claim
  /\ run.pc \notin {"drift", "done"} => ~run.gate4
  /\ run.gate4 => /\ Len(run.points) = Len(ScaleSpec.ratios)
                  /\ \A i \in DOMAIN run.points : run.points[i].status = "pass"
  /\ \A i \in DOMAIN run.points :
       LET p == run.points[i] IN
       p.status = "pass" => 100 * p.recovered >= ScaleSpec.recall * p.present

-----------------------------------------------------------------------------
\* Third layer: the panel, and where the points come from.

PanelFits ==
  /\ run.pc \in {"idle", "needles", "tasks", "scale"} => run.chosenFrom = NoValue
  /\ run.chosenFrom = NoValue =>
       run.points = <<>> /\ run.pc \notin {"point", "pointNeedles", "pointTasks"}
  /\ run.chosenFrom # NoValue =>
       /\ run.chosenFrom \in Corpora
       /\ run.panel = PanelOf(run.chosenFrom, run.cases, ScaleSpec)
       /\ ~run.replaced => run.chosenFrom = corpus
       /\ run.pc # "rejected" /\ plan # NoValue =>
            /\ plan.context = ScaleSpec.context
            /\ plan.anchors = AnchorBlocks(run.chosenFrom, run.panel)

\* Point i, of these blocks, is one of the plan's, or was projected in the run.
ComesFrom(ids, blocked, i) ==
  IF plan = NoValue
  THEN ~run.replaced => ids = Projected(ScaleSpec.ratios[i]).ids
  ELSE \E j \in DOMAIN plan.points :
         /\ plan.points[j].ratio = ScaleSpec.ratios[i]
         /\ plan.points[j].ids = ids /\ plan.anchors \subseteq ids
         /\ blocked => plan.points[j].blockers # {}

PointsFit ==
  /\ \A i \in DOMAIN run.points :
       ComesFrom(run.points[i].ids, run.points[i].status = "blocked", i)
  /\ run.pc \in {"pointNeedles", "pointTasks"} =>
       /\ ComesFrom(run.projected.point.ids, FALSE, Len(run.points) + 1)
       /\ ~run.replaced =>
            \A b \in run.chosenFrom.blocks :
              b.id \in run.projected.point.ids => b \in run.projected.blocks

RejectedIsOther == run.pc = "rejected" => ~PlanIsForRun

\* The steps of the planner and of the pool do not write the run.
LEMMA PoolStepsKeepRun ==
  MakePlan \/ Traverse \/ SkipBlock \/ Answer \/ FailCall => UNCHANGED run
  BY DEF MakePlan, Traverse, SkipBlock, Answer, FailCall

LEMMA MissedInit == HarnessInit => MissedIsCounted
  BY DEF HarnessInit, NewRun, MissedIsCounted, MissedForGood

LEMMA MissedKept ==
  ASSUME MissedIsCounted, NEW F, Keeps(F),
         F \cap {"pc", "missed", "lost", "unsupported", "needle", "gate3"} = {}
  PROVE  MissedIsCounted'
<1>1. /\ run'.pc = run.pc /\ run'.missed = run.missed /\ run'.unsupported = run.unsupported
      /\ run'.lost = run.lost /\ run'.needle = run.needle /\ run'.gate3 = run.gate3
  BY FieldsAre DEF Keeps
<1> QED
  BY <1>1 DEF MissedIsCounted, MissedForGood

\* What had no answer when all results are there and nothing counts as not inspected is
\* what an exception without a text left out.
LEMMA MissedIsUninspected ==
  ASSUME HarnessShape, ResultsDone, Uninspected = {}
  PROVE  Missed \subseteq Lost
<1>1. PoolFits /\ pool # NoValue /\ Pending = {}
  BY DEF HarnessShape, ResultsDone
<1>2. pool.results \in [{b.id : b \in pool.blocks} -> Results]
  BY <1>1 DEF PoolFits
<1>3. ASSUME NEW b \in pool.blocks
      PROVE  pool.results[b.id] \in {"right", "nothing", "everything", "lost"}
  BY <1>1, <1>2, <1>3 DEF Pending, Finished, Results, Uninspected
<1>4. ASSUME NEW m \in Missed PROVE pool.results[m[2]] = "lost"
  <2>1. /\ m[2] \in DOMAIN pool.results
        /\ pool.results[m[2]] \notin {"right", "nothing", "everything"}
    BY DEF Missed
  <2> QED
    BY <1>2, <1>3, <2>1
<1> QED
  BY <1>4 DEF Lost

LEMMA ScoreNeedlesMissed ==
  ASSUME HarnessShape, MissedIsCounted, ScoreNeedles PROVE MissedIsCounted'
<1>1. DOMAIN run = Fields /\ PoolFits
  BY DEF HarnessShape, RunFits
<1> DEFINE n == IF Uninspected = {} THEN 0 ELSE Cardinality(pool.questions)
<1>2. /\ run.pc \in {"needles", "pointNeedles"} /\ ResultsDone
      /\ Keeps({"rows", "unsupported", "missed", "lost"})
      /\ run'.unsupported = run.unsupported + n
      /\ run'.missed = run.missed \cup Missed /\ run'.lost = run.lost \cup Lost
  BY <1>1, ScoreNeedlesWrites
<1>3. run'.pc = run.pc /\ run'.gate3 = run.gate3
  BY <1>2, FieldsAre DEF Keeps
<1>4. CASE run.pc = "needles"
  <2>1. IsFiniteSet(pool.questions) /\ pool.questions # {}
    BY <1>1, <1>2, <1>4 DEF PoolFits, ResultsDone
  <2>2. Cardinality(pool.questions) \in Nat /\ Cardinality(pool.questions) # 0
    BY <2>1, FS_CardinalityType, FS_EmptySet
  <2>3. n \in Nat /\ (~(Missed \subseteq Lost) => n > 0)
    BY <1>2, <2>2, MissedIsUninspected
  <2>4. MissedForGood' # {} => MissedForGood # {} \/ ~(Missed \subseteq Lost)
    BY <1>2 DEF MissedForGood
  <2> HIDE DEF n
  <2> QED
    BY <1>2, <1>3, <1>4, <2>3, <2>4 DEF MissedIsCounted
<1>5. CASE run.pc = "pointNeedles"
  <2>1. Missed = {}
    BY <1>5 DEF Missed
  <2>2. MissedForGood' # {} => MissedForGood # {}
    BY <1>2, <2>1 DEF MissedForGood
  <2> QED
    BY <1>3, <1>5, <2>2 DEF MissedIsCounted
<1> QED
  BY <1>2, <1>4, <1>5

LEMMA EvaluationRaisesMissed ==
  ASSUME HarnessShape, MissedIsCounted, EvaluationRaises PROVE MissedIsCounted'
<1>1. /\ run.pc \in {"needles", "pointNeedles"}
      /\ Keeps({"rows", "unsupported", "missed", "lost"})
      /\ run'.missed = run.missed \cup Missed
      /\ \/ run'.unsupported = run.unsupported + 1 /\ run'.lost = run.lost
         \/ run'.unsupported = run.unsupported + 0 /\ run'.lost = run.lost \cup Missed
  BY EvaluationRaisesWrites DEF HarnessShape, RunFits
<1>2. run'.pc = run.pc /\ run'.gate3 = run.gate3
  BY <1>1, FieldsAre DEF Keeps
<1>3. run.pc = "pointNeedles" => Missed = {}
  BY DEF Missed
<1>4. MissedForGood' # {} =>
        \/ MissedForGood # {}
        \/ run.pc = "needles" /\ run'.unsupported = run.unsupported + 1
  BY <1>1, <1>3 DEF MissedForGood
<1> QED
  BY <1>1, <1>2, <1>4 DEF MissedIsCounted

LEMMA ScoreTasksMissed ==
  ASSUME HarnessShape, MissedIsCounted, ScoreTasks PROVE MissedIsCounted'
<1>1. /\ ResultsDone /\ Keeps({"rows", "missed", "lost"}) /\ run'.lost = run.lost \cup Lost
      /\ \E M \in SUBSET Missed :
           run'.missed = run.missed \cup M /\ (Uninspected # {} => M = {})
  BY ScoreTasksWrites DEF HarnessShape, RunFits
<1>2. MissedForGood' \subseteq MissedForGood
  BY <1>1, MissedIsUninspected DEF MissedForGood
<1>3. /\ run'.pc = run.pc /\ run'.gate3 = run.gate3
      /\ run'.needle = run.needle /\ run'.unsupported = run.unsupported
  BY <1>1, FieldsAre DEF Keeps
<1> QED
  BY <1>2, <1>3 DEF MissedIsCounted

LEMMA NeedlesDoneMissed ==
  ASSUME HarnessShape, MissedIsCounted, NeedlesDone PROVE MissedIsCounted'
<1>1. /\ run.pc = "needles" /\ run'.pc = "tasks" /\ Keeps({"pc", "needle", "rows", "unsupported"})
      /\ run'.needle.unsupported = run.unsupported
  BY NeedlesDoneWrites DEF HarnessShape, RunFits
<1>2. MissedForGood' = MissedForGood /\ run'.gate3 = run.gate3
  BY <1>1, FieldsAre DEF Keeps, MissedForGood
<1> QED
  BY <1>1, <1>2 DEF MissedIsCounted

LEMMA Gate3Missed ==
  ASSUME HarnessShape, MissedIsCounted, Gate3 PROVE MissedIsCounted'
<1>1. /\ run.pc = "tasks" /\ run'.pc \in {"scale", "drift"}
      /\ Keeps({"pc", "gate3", "snapshot", "rows"})
      /\ (run'.gate3 => run.needle.unsupported = 0)
  BY Gate3Writes DEF HarnessShape, RunFits
<1>2. MissedForGood' = MissedForGood
  BY <1>1, FieldsAre DEF Keeps, MissedForGood
<1> QED
  BY <1>1, <1>2 DEF MissedIsCounted

\* A step after Gate 3, or the start.
LEMMA PcStepMissed ==
  ASSUME HarnessShape, MissedIsCounted,
         Start \/ StartScale \/ RejectPoint \/ StartPoint \/ PointNeedlesDone \/ FinishPoint
         \/ Gate4 \/ Conclude
  PROVE  MissedIsCounted'
<1>1. /\ MissedForGood' = MissedForGood /\ run'.gate3 = run.gate3
      /\ \/ run.pc = "idle" /\ run'.pc \in {"needles", "done"} /\ run'.unsupported = run.unsupported
         \/ run'.pc \notin {"idle", "needles", "tasks"}
  <2> USE DEF HarnessShape, RunFits, MissedForGood
  <2>1. CASE Start
    BY <2>1, StartWrites, FieldsAre DEF Keeps
  <2>2. CASE StartScale
    BY <2>2, StartScaleWrites, FieldsAre DEF Keeps
  <2>3. CASE RejectPoint
    BY <2>3, RejectPointWrites, FieldsAre DEF Keeps
  <2>4. CASE StartPoint
    BY <2>4, StartPointWrites, FieldsAre DEF Keeps
  <2>5. CASE PointNeedlesDone
    BY <2>5, PointNeedlesDoneWrites, FieldsAre DEF Keeps
  <2>6. CASE FinishPoint
    BY <2>6, FinishPointWrites, FieldsAre DEF Keeps
  <2>7. CASE Gate4
    BY <2>7, Gate4Writes, FieldsAre DEF Keeps
  <2>8. CASE Conclude
    BY <2>8, ConcludeWrites, FieldsAre DEF Keeps
  <2> QED
    BY <2>1, <2>2, <2>3, <2>4, <2>5, <2>6, <2>7, <2>8
<1> QED
  BY <1>1 DEF MissedIsCounted

LEMMA MissedNext ==
  HarnessShape /\ MissedIsCounted /\ [HarnessNext]_harnessVars => MissedIsCounted'
<1> SUFFICES ASSUME HarnessShape, MissedIsCounted, [HarnessNext]_harnessVars
             PROVE  MissedIsCounted'
  OBVIOUS
<1>1. CASE UNCHANGED run
  BY <1>1 DEF MissedIsCounted, MissedForGood
<1>2. CASE Ingest
  BY <1>2, IngestWrites, MissedKept DEF HarnessShape, RunFits
<1>3. CASE BlockPoint
  BY <1>3, BlockPointWrites, MissedKept DEF HarnessShape, RunFits
<1> QED
  BY <1>1, <1>2, <1>3, PoolStepsKeepRun, ScoreNeedlesMissed, EvaluationRaisesMissed,
     ScoreTasksMissed, NeedlesDoneMissed, Gate3Missed, PcStepMissed DEF HarnessNext, harnessVars

LEMMA MissedAlways == HarnessSpec => []MissedIsCounted
  BY ShapeAlways, MissedInit, MissedNext, PTL DEF HarnessSpec

LEMMA GatesInit == HarnessInit => GatesInOrder
  BY DEF HarnessInit, NewRun, GatesInOrder

LEMMA GatesKept ==
  ASSUME GatesInOrder, NEW F, Keeps(F),
         F \cap {"pc", "claim", "gate3", "gate4", "points"} = {}
  PROVE  GatesInOrder'
<1>1. /\ run'.pc = run.pc /\ run'.claim = run.claim /\ run'.gate3 = run.gate3
      /\ run'.gate4 = run.gate4 /\ run'.points = run.points
  BY FieldsAre DEF Keeps
<1> QED
  BY <1>1 DEF GatesInOrder

\* A step of a run that is not near its end moves it and passes no gate but the third.
LEMMA MoveKeepsGates ==
  ASSUME HarnessShape, GatesInOrder,
         Start \/ NeedlesDone \/ Gate3 \/ StartScale \/ RejectPoint \/ StartPoint
         \/ PointNeedlesDone
  PROVE  GatesInOrder'
<1>1. /\ run'.claim = run.claim /\ run'.gate4 = run.gate4 /\ run'.points = run.points
      /\ run.pc \notin {"drift", "done"}
  <2> USE DEF HarnessShape, RunFits
  <2>1. CASE Start
    BY <2>1, StartWrites, FieldsAre DEF Keeps
  <2>2. CASE NeedlesDone
    BY <2>2, NeedlesDoneWrites, FieldsAre DEF Keeps
  <2>3. CASE Gate3
    BY <2>3, Gate3Writes, FieldsAre DEF Keeps
  <2>4. CASE StartScale
    BY <2>4, StartScaleWrites, FieldsAre DEF Keeps
  <2>5. CASE RejectPoint
    BY <2>5, RejectPointWrites, FieldsAre DEF Keeps
  <2>6. CASE StartPoint
    BY <2>6, StartPointWrites, FieldsAre DEF Keeps
  <2>7. CASE PointNeedlesDone
    BY <2>7, PointNeedlesDoneWrites, FieldsAre DEF Keeps
  <2> QED
    BY <2>1, <2>2, <2>3, <2>4, <2>5, <2>6, <2>7
<1> QED
  BY <1>1 DEF GatesInOrder

LEMMA AddPointKeepsGates ==
  ASSUME HarnessShape, GatesInOrder, BlockPoint \/ FinishPoint
  PROVE  GatesInOrder'
<1>1. DOMAIN run = Fields /\ run.points \in Seq(Range(run.points))
  BY DEF HarnessShape, RunFits
<1>2. /\ run.pc \notin {"drift", "done"}
      /\ run'.claim = run.claim /\ run'.gate4 = run.gate4
      /\ \E p : /\ run'.points = Append(run.points, p)
                /\ p.status = "pass" => 100 * p.recovered >= ScaleSpec.recall * p.present
  <2>1. CASE BlockPoint
    <3>1. /\ run.pc = "point" /\ Keeps({"points"})
          /\ \E p : run'.points = Append(run.points, PointResult("blocked", p, NoNeedles))
      BY <1>1, <2>1, BlockPointWrites
    <3>2. \A p : PointResult("blocked", p, NoNeedles).status = "blocked"
      BY DEF PointResult
    <3> QED
      BY <3>1, <3>2, FieldsAre DEF Keeps
  <2>2. CASE FinishPoint
    <3>1. PICK status \in {"pass", "fail"} :
            /\ run'.points = Append(run.points, PointResult(status, run.projected.point, run.needle))
            /\ status = "pass" => Reaches(run.needle.recovered, run.needle.present, ScaleSpec.recall)
      BY <1>1, <2>2, FinishPointWrites
    <3> DEFINE p == PointResult(status, run.projected.point, run.needle)
    <3>2. /\ p.status = status /\ p.recovered = run.needle.recovered
          /\ p.present = run.needle.present
      BY DEF PointResult
    <3>3. p.status = "pass" => 100 * p.recovered >= ScaleSpec.recall * p.present
      BY <3>1, <3>2 DEF Reaches
    <3>4. run.pc = "pointTasks" /\ run'.claim = run.claim /\ run'.gate4 = run.gate4
      BY <1>1, <2>2, FinishPointWrites, FieldsAre DEF Keeps
    <3> QED
      BY <3>1, <3>3, <3>4
  <2> QED
    BY <2>1, <2>2
<1>3. PICK p : /\ run'.points = Append(run.points, p)
               /\ p.status = "pass" => 100 * p.recovered >= ScaleSpec.recall * p.present
  BY <1>2
<1>4. /\ DOMAIN run'.points = DOMAIN run.points \cup {Len(run.points) + 1}
      /\ run'.points[Len(run.points) + 1] = p
      /\ \A i \in DOMAIN run.points : run'.points[i] = run.points[i]
  BY <1>1, <1>3, PointAdded
<1> QED
  BY <1>2, <1>3, <1>4 DEF GatesInOrder

LEMMA Gate4Gates == ASSUME HarnessShape, GatesInOrder, Gate4 PROVE GatesInOrder'
<1>1. /\ run.pc = "point" /\ AllPoints /\ run'.pc = "drift" /\ Keeps({"pc", "gate4"})
      /\ run'.gate4 = Gate4Passes(run.points)
  BY Gate4Writes DEF HarnessShape, RunFits
<1>2. run'.claim = run.claim /\ run'.points = run.points
  BY <1>1, FieldsAre DEF Keeps
<1>3. run'.gate4 => \A i \in DOMAIN run.points : run.points[i].status = "pass"
  BY <1>1 DEF Gate4Passes
<1> QED
  BY <1>1, <1>2, <1>3 DEF GatesInOrder, AllPoints

LEMMA ConcludeGates == ASSUME HarnessShape, GatesInOrder, Conclude PROVE GatesInOrder'
<1>1. /\ run.pc = "drift" /\ run'.pc = "done" /\ Keeps({"pc", "claim"})
      /\ (run'.claim => run.gate3 /\ run.gate4)
  BY ConcludeWrites DEF HarnessShape, RunFits
<1>2. run'.gate3 = run.gate3 /\ run'.gate4 = run.gate4 /\ run'.points = run.points
  BY <1>1, FieldsAre DEF Keeps
<1> QED
  BY <1>1, <1>2 DEF GatesInOrder

LEMMA GatesNext == HarnessShape /\ GatesInOrder /\ [HarnessNext]_harnessVars => GatesInOrder'
<1> SUFFICES ASSUME HarnessShape, GatesInOrder, [HarnessNext]_harnessVars
             PROVE  GatesInOrder'
  OBVIOUS
<1>1. CASE UNCHANGED run
  BY <1>1 DEF GatesInOrder
<1>2. CASE Ingest \/ ScoreNeedles \/ EvaluationRaises \/ ScoreTasks
  BY <1>2, IngestWrites, ScoreNeedlesWrites, EvaluationRaisesWrites, ScoreTasksWrites, GatesKept
     DEF HarnessShape, RunFits
<1> QED
  BY <1>1, <1>2, PoolStepsKeepRun, MoveKeepsGates, AddPointKeepsGates, Gate4Gates, ConcludeGates
     DEF HarnessNext, harnessVars

LEMMA GatesAlways == HarnessSpec => []GatesInOrder
  BY ShapeAlways, GatesInit, GatesNext, PTL DEF HarnessSpec

-----------------------------------------------------------------------------
\* The panel is chosen once.

AtPoint == {"point", "pointNeedles", "pointTasks"}

\* How the pc moves, and when points are added.
Moves ==
  \/ run'.pc = run.pc /\ run'.points = run.points
  \/ /\ run.pc \in {"idle", "needles", "tasks"}
     /\ run'.pc \in {"needles", "tasks", "scale", "drift", "done"} /\ run'.points = run.points
  \/ run.pc \in AtPoint /\ run'.pc \in AtPoint \cup {"drift"}
  \/ RejectPoint /\ run.pc = "point" /\ run'.pc = "rejected"
  \/ run.pc = "drift" /\ run'.pc = "done" /\ run'.points = run.points

PanelStays ==
  /\ run'.chosenFrom = run.chosenFrom /\ run'.replaced = run.replaced /\ run'.panel = run.panel
  /\ run.pc # "idle" => run'.cases = run.cases
  /\ UNCHANGED <<corpus, payload, plan>>

\* Steps of the run other than an ingest and the choice of the panel.
LEMMA StepsMove ==
  ASSUME HarnessShape, HarnessNext, ~MakePlan, ~Ingest, ~StartScale
  PROVE  PanelStays /\ Moves
<1> USE DEF HarnessShape, RunFits, PanelStays, Moves, AtPoint
<1>1. CASE Start
  BY <1>1, StartWrites, FieldsAre DEF Keeps
<1>2. CASE Traverse \/ SkipBlock \/ Answer \/ FailCall
  BY <1>2 DEF Traverse, SkipBlock, Answer, FailCall
<1>3. CASE ScoreNeedles
  BY <1>3, ScoreNeedlesWrites, FieldsAre DEF Keeps
<1>4. CASE EvaluationRaises
  BY <1>4, EvaluationRaisesWrites, FieldsAre DEF Keeps
<1>5. CASE ScoreTasks
  BY <1>5, ScoreTasksWrites, FieldsAre DEF Keeps
<1>6. CASE NeedlesDone
  BY <1>6, NeedlesDoneWrites, FieldsAre DEF Keeps, OnlyRun
<1>7. CASE Gate3
  BY <1>7, Gate3Writes, FieldsAre DEF Keeps, OnlyRun
<1>8. CASE RejectPoint
  BY <1>8, RejectPointWrites, FieldsAre DEF Keeps, OnlyRun
<1>9. CASE BlockPoint
  BY <1>9, BlockPointWrites, FieldsAre DEF Keeps, OnlyRun
<1>10. CASE StartPoint
  BY <1>10, StartPointWrites, FieldsAre DEF Keeps, OnlyRun
<1>11. CASE PointNeedlesDone
  BY <1>11, PointNeedlesDoneWrites, FieldsAre DEF Keeps, OnlyRun
<1>12. CASE FinishPoint
  BY <1>12, FinishPointWrites, FieldsAre DEF Keeps, OnlyRun
<1>13. CASE Gate4
  BY <1>13, Gate4Writes, FieldsAre DEF Keeps, OnlyRun
<1>14. CASE Conclude
  BY <1>14, ConcludeWrites, FieldsAre DEF Keeps, OnlyRun
<1> QED
  BY <1>1, <1>2, <1>3, <1>4, <1>5, <1>6, <1>7, <1>8, <1>9, <1>10, <1>11, <1>12, <1>13, <1>14
     DEF HarnessNext

LEMMA PanelInit == HarnessInit => PanelFits
  BY DEF HarnessInit, NewRun, PanelFits

LEMMA PanelNext == HarnessShape /\ PanelFits /\ [HarnessNext]_harnessVars => PanelFits'
<1> SUFFICES ASSUME HarnessShape, PanelFits, [HarnessNext]_harnessVars
             PROVE  PanelFits'
  OBVIOUS
<1>1. CASE UNCHANGED harnessVars
  BY <1>1 DEF harnessVars, PanelFits
<1>2. CASE MakePlan
  BY <1>2, MakePlanWrites DEF PanelFits
<1>3. CASE Ingest
  <2>1. Keeps({"replaced"}) /\ run'.replaced = (run.chosenFrom # NoValue) /\ UNCHANGED plan
    BY <1>3, IngestWrites DEF HarnessShape, RunFits
  <2>2. /\ run'.pc = run.pc /\ run'.points = run.points /\ run'.chosenFrom = run.chosenFrom
        /\ run'.panel = run.panel /\ run'.cases = run.cases
    BY <2>1, FieldsAre DEF Keeps
  <2> QED
    BY <2>1, <2>2 DEF PanelFits
<1>4. CASE StartScale
  <2>1. /\ run.pc = "scale" /\ Keeps({"pc", "panel", "chosenFrom"}) /\ OnlyRun
        /\ run'.panel = LivePanel /\ run'.chosenFrom = corpus /\ run'.pc \in {"point", "rejected"}
        /\ run'.pc = "point" => FrozenPlanFits
    BY <1>4, StartScaleWrites DEF HarnessShape, RunFits
  <2>2. run'.cases = run.cases
    BY <2>1, FieldsAre DEF Keeps
  <2>3. corpus \in Corpora /\ corpus # NoValue
    BY CorporaAssumption DEF HarnessShape, StoreFits
  <2>4. LivePanel = PanelOf(corpus, run.cases, ScaleSpec)
    BY DEF LivePanel, PanelOf
  <2> QED
    BY <2>1, <2>2, <2>3, <2>4 DEF PanelFits, FrozenPlanFits, OnlyRun
<1>5. CASE HarnessNext /\ ~MakePlan /\ ~Ingest /\ ~StartScale
  BY <1>5, StepsMove DEF PanelFits, PanelStays, Moves, AtPoint
<1> QED
  BY <1>1, <1>2, <1>3, <1>4, <1>5

LEMMA PanelAlways == HarnessSpec => []PanelFits
  BY ShapeAlways, PanelInit, PanelNext, PTL DEF HarnessSpec

-----------------------------------------------------------------------------
\* Where the points come from.

LEMMA PointsForComes ==
  ASSUME HarnessShape, PanelFits, run.pc = "point", NEW p \in PointsFor(Ratio)
  PROVE  ComesFrom(p.ids, p.blockers # {}, Len(run.points) + 1)
<1>1. CASE plan = NoValue
  <2>1. p = Projection(corpus, run.panel, ScaleSpec.context * Ratio)
    BY <1>1 DEF PointsFor
  <2>2. ~run.replaced => run.chosenFrom = corpus
    BY DEF PanelFits
  <2> QED
    BY <1>1, <2>1, <2>2 DEF ComesFrom, Projected, Ratio
<1>2. CASE plan # NoValue
  BY <1>2 DEF PointsFor, ComesFrom, Ratio
<1> QED
  BY <1>1, <1>2

LEMMA PointsInit == HarnessInit => PointsFit
<1> SUFFICES ASSUME HarnessInit PROVE PointsFit
  OBVIOUS
<1>1. run.points = <<>> /\ run.pc = "idle"
  BY DEF HarnessInit, NewRun
<1> QED
  BY <1>1 DEF PointsFit

\* Without points, and not at one, nothing has to be shown.
LEMMA NoPoints ==
  ASSUME run'.points = <<>>, run'.pc \notin {"pointNeedles", "pointTasks"}
  PROVE  PointsFit'
<1>1. DOMAIN run'.points = {}
  OBVIOUS
<1> QED
  BY <1>1 DEF PointsFit, ComesFrom

\* The point under way stays, or there is none.
ProjectedStays ==
  run'.pc \in {"pointNeedles", "pointTasks"} =>
    run.pc \in {"pointNeedles", "pointTasks"} /\ run'.projected = run.projected

LEMMA PointsKept ==
  ASSUME PointsFit, run'.chosenFrom = run.chosenFrom, run'.panel = run.panel, UNCHANGED plan,
         run'.replaced = run.replaced \/ run'.replaced, run'.points = run.points, ProjectedStays
  PROVE  PointsFit'
<1>1. ASSUME NEW i \in DOMAIN run.points
      PROVE  ComesFrom(run.points[i].ids, run.points[i].status = "blocked", i)'
  <2> DEFINE ids == run.points[i].ids
             blocked == run.points[i].status = "blocked"
  <2>1. ComesFrom(ids, blocked, i)
    BY DEF PointsFit
  <2> QED
    BY <2>1 DEF ComesFrom, Projected
<1>2. ASSUME run'.pc \in {"pointNeedles", "pointTasks"}
      PROVE  /\ ComesFrom(run.projected.point.ids, FALSE, Len(run.points) + 1)'
             /\ ~run'.replaced =>
                  \A b \in run'.chosenFrom.blocks :
                    b.id \in run'.projected.point.ids => b \in run'.projected.blocks
  <2>1. /\ run'.projected = run.projected
        /\ ComesFrom(run.projected.point.ids, FALSE, Len(run.points) + 1)
        /\ ~run.replaced =>
             \A b \in run.chosenFrom.blocks :
               b.id \in run.projected.point.ids => b \in run.projected.blocks
    BY <1>2 DEF PointsFit, ProjectedStays
  <2> QED
    BY <2>1 DEF ComesFrom, Projected
<1> QED
  BY <1>1, <1>2 DEF PointsFit

\* Steps that begin and end no point.
LEMMA OthersKeepPoints ==
  ASSUME HarnessShape, HarnessNext, ~MakePlan, ~Ingest, ~StartScale, ~BlockPoint, ~StartPoint,
         ~FinishPoint
  PROVE  run'.points = run.points /\ ProjectedStays
<1> USE DEF HarnessShape, RunFits, ProjectedStays
<1>1. CASE Start
  BY <1>1, StartWrites, FieldsAre DEF Keeps
<1>2. CASE Traverse \/ SkipBlock \/ Answer \/ FailCall
  BY <1>2 DEF Traverse, SkipBlock, Answer, FailCall
<1>3. CASE ScoreNeedles
  BY <1>3, ScoreNeedlesWrites, FieldsAre DEF Keeps
<1>4. CASE EvaluationRaises
  BY <1>4, EvaluationRaisesWrites, FieldsAre DEF Keeps
<1>5. CASE ScoreTasks
  BY <1>5, ScoreTasksWrites, FieldsAre DEF Keeps
<1>6. CASE NeedlesDone
  BY <1>6, NeedlesDoneWrites, FieldsAre DEF Keeps
<1>7. CASE Gate3
  BY <1>7, Gate3Writes, FieldsAre DEF Keeps
<1>8. CASE RejectPoint
  BY <1>8, RejectPointWrites, FieldsAre DEF Keeps
<1>9. CASE PointNeedlesDone
  BY <1>9, PointNeedlesDoneWrites, FieldsAre DEF Keeps
<1>10. CASE Gate4
  BY <1>10, Gate4Writes, FieldsAre DEF Keeps
<1>11. CASE Conclude
  BY <1>11, ConcludeWrites, FieldsAre DEF Keeps
<1> QED
  BY <1>1, <1>2, <1>3, <1>4, <1>5, <1>6, <1>7, <1>8, <1>9, <1>10, <1>11 DEF HarnessNext

\* A point that comes from the plan or the corpus is added.
LEMMA AddedFits ==
  ASSUME HarnessShape, PointsFit, PanelStays, NEW p, run'.points = Append(run.points, p),
         run'.pc = "point", ComesFrom(p.ids, p.status = "blocked", Len(run.points) + 1)
  PROVE  PointsFit'
<1>1. run.points \in Seq(Range(run.points))
  BY DEF HarnessShape, RunFits
<1>2. /\ DOMAIN run'.points = DOMAIN run.points \cup {Len(run.points) + 1}
      /\ run'.points[Len(run.points) + 1] = p
      /\ \A i \in DOMAIN run.points : run'.points[i] = run.points[i]
  BY <1>1, PointAdded
<1>3. ASSUME NEW i \in DOMAIN run'.points
      PROVE  ComesFrom(run.points[i].ids, run.points[i].status = "blocked", i)'
  <2> DEFINE q == run'.points[i]
  <2>1. ComesFrom(q.ids, q.status = "blocked", i)
    <3>1. CASE i \in DOMAIN run.points
      BY <1>2, <3>1 DEF PointsFit
    <3>2. CASE i = Len(run.points) + 1
      BY <1>2, <3>2
    <3> QED
      BY <1>2, <3>1, <3>2
  <2> QED
    BY <2>1 DEF ComesFrom, Projected, PanelStays
<1> QED
  BY <1>3 DEF PointsFit

LEMMA BlockPointFits ==
  ASSUME HarnessShape, PanelFits, PointsFit, PanelStays, BlockPoint PROVE PointsFit'
<1>1. run.pc = "point" /\ Keeps({"points"})
      /\ \E p \in PointsFor(Ratio) :
           p.blockers # {} /\ run'.points = Append(run.points, PointResult("blocked", p, NoNeedles))
  BY BlockPointWrites DEF HarnessShape, RunFits
<1>2. PICK p \in PointsFor(Ratio) :
        p.blockers # {} /\ run'.points = Append(run.points, PointResult("blocked", p, NoNeedles))
  BY <1>1
<1> DEFINE new == PointResult("blocked", p, NoNeedles)
<1>3. new.ids = p.ids /\ new.status = "blocked"
  BY DEF PointResult
<1>4. ComesFrom(p.ids, p.blockers # {}, Len(run.points) + 1)
  BY <1>1, PointsForComes
<1>5. ComesFrom(new.ids, new.status = "blocked", Len(run.points) + 1)
  BY <1>2, <1>3, <1>4 DEF ComesFrom
<1>6. run'.pc = "point"
  BY <1>1, FieldsAre DEF Keeps
<1> QED
  BY <1>2, <1>5, <1>6, AddedFits

LEMMA FinishPointFits ==
  ASSUME HarnessShape, PointsFit, PanelStays, FinishPoint PROVE PointsFit'
<1>1. run.pc = "pointTasks" /\ run'.pc = "point"
      /\ \E status \in {"pass", "fail"} :
           run'.points = Append(run.points, PointResult(status, run.projected.point, run.needle))
  BY FinishPointWrites DEF HarnessShape, RunFits
<1>2. PICK status \in {"pass", "fail"} :
        run'.points = Append(run.points, PointResult(status, run.projected.point, run.needle))
  BY <1>1
<1> DEFINE new == PointResult(status, run.projected.point, run.needle)
<1>3. new.ids = run.projected.point.ids /\ new.status # "blocked"
  BY DEF PointResult
<1>4. ComesFrom(run.projected.point.ids, FALSE, Len(run.points) + 1)
  BY <1>1 DEF PointsFit
<1>5. ComesFrom(new.ids, new.status = "blocked", Len(run.points) + 1)
  BY <1>3, <1>4 DEF ComesFrom
<1> QED
  BY <1>1, <1>2, <1>5, AddedFits

LEMMA StartPointFits ==
  ASSUME HarnessShape, PanelFits, PointsFit, PanelStays, StartPoint PROVE PointsFit'
<1>1. run.pc = "point" /\ Keeps({"pc", "projected"})
      /\ \E p \in PointsFor(Ratio) : p.blockers = {} /\ run'.projected = Materialized(p)
  BY StartPointWrites DEF HarnessShape, RunFits
<1>2. PICK p \in PointsFor(Ratio) : p.blockers = {} /\ run'.projected = Materialized(p)
  BY <1>1
<1>3. run'.projected.point = p /\ run'.projected.blocks = {b \in payload : b.id \in p.ids}
  BY <1>2 DEF Materialized
<1>4. run'.points = run.points /\ run.chosenFrom # NoValue
  BY <1>1, FieldsAre DEF Keeps, PanelFits
<1>5. ASSUME NEW i \in DOMAIN run.points
      PROVE  ComesFrom(run.points[i].ids, run.points[i].status = "blocked", i)'
  <2>1. ComesFrom(run.points[i].ids, run.points[i].status = "blocked", i)
    BY DEF PointsFit
  <2> QED
    BY <1>4, <2>1 DEF ComesFrom, Projected, PanelStays
<1>6. ComesFrom(run.projected.point.ids, FALSE, Len(run.points) + 1)'
  <2>1. ComesFrom(p.ids, p.blockers # {}, Len(run.points) + 1)
    BY <1>1, PointsForComes
  <2>2. ComesFrom(run'.projected.point.ids, FALSE, Len(run'.points) + 1)
    BY <1>3, <1>4, <2>1 DEF ComesFrom
  <2> QED
    BY <2>2 DEF ComesFrom, Projected, PanelStays
<1>7. ~run'.replaced =>
        \A b \in run'.chosenFrom.blocks :
          b.id \in run'.projected.point.ids => b \in run'.projected.blocks
  BY <1>3, <1>4 DEF PanelFits, PanelStays, HarnessShape, StoreFits
<1> QED
  BY <1>4, <1>5, <1>6, <1>7 DEF PointsFit

LEMMA PointsNext ==
  HarnessShape /\ PanelFits /\ PointsFit /\ [HarnessNext]_harnessVars => PointsFit'
<1> SUFFICES ASSUME HarnessShape, PanelFits, PointsFit, [HarnessNext]_harnessVars
             PROVE  PointsFit'
  OBVIOUS
<1>1. CASE UNCHANGED harnessVars
  BY <1>1, PointsKept DEF harnessVars, ProjectedStays
<1>2. CASE MakePlan
  BY <1>2, MakePlanWrites, NoPoints DEF PanelFits
<1>3. CASE Ingest
  <2>1. Keeps({"replaced"}) /\ run'.replaced = (run.chosenFrom # NoValue) /\ UNCHANGED plan
    BY <1>3, IngestWrites DEF HarnessShape, RunFits
  <2>2. /\ run'.pc = run.pc /\ run'.points = run.points /\ run'.chosenFrom = run.chosenFrom
        /\ run'.panel = run.panel /\ run'.projected = run.projected
    BY <2>1, FieldsAre DEF Keeps
  <2>3. CASE run.chosenFrom = NoValue
    BY <2>2, <2>3, NoPoints DEF PanelFits
  <2>4. CASE run.chosenFrom # NoValue
    BY <2>1, <2>2, <2>4, PointsKept DEF ProjectedStays
  <2> QED
    BY <2>3, <2>4
<1>4. CASE StartScale
  <2>1. run.pc = "scale" /\ run'.pc \in {"point", "rejected"} /\ run'.points = run.points
    BY <1>4, StartScaleWrites, FieldsAre DEF HarnessShape, RunFits, Keeps
  <2> QED
    BY <2>1, NoPoints DEF PanelFits
<1>5. CASE HarnessNext /\ ~MakePlan /\ ~Ingest /\ ~StartScale
  <2>1. PanelStays
    BY <1>5, StepsMove
  <2>2. CASE ~BlockPoint /\ ~StartPoint /\ ~FinishPoint
    BY <1>5, <2>1, <2>2, OthersKeepPoints, PointsKept DEF PanelStays
  <2> QED
    BY <2>1, <2>2, BlockPointFits, StartPointFits, FinishPointFits
<1> QED
  BY <1>1, <1>2, <1>3, <1>4, <1>5

LEMMA PointsAlways == HarnessSpec => []PointsFit
  BY ShapeAlways, PanelAlways, PointsInit, PointsNext, PTL DEF HarnessSpec

-----------------------------------------------------------------------------
\* What a claim rests on, and what a point is measured with.

LEMMA ExactAreAnchors ==
  ASSUME NEW c, NEW panel, NEW case \in panel
  PROVE  case.blocks \cap BlockIds(c) \subseteq AnchorBlocks(c, panel)
  BY DEF AnchorBlocks

\* Unless the panel is mixed, the anchors of the panel are those of its cases.
LEMMA AnchorsOfAll ==
  ASSUME NEW c, NEW panel, NEW case \in panel, ~Mixed(panel, c)
  PROVE  CaseAnchors(c, case) \subseteq AnchorBlocks(c, panel)
<1>1. CASE case.blocks \cap BlockIds(c) # {}
  BY <1>1, ExactAreAnchors DEF CaseAnchors
<1>2. CASE case.blocks \cap BlockIds(c) = {}
  <2> DEFINE exact == (UNION {d.blocks : d \in panel}) \cap BlockIds(c)
  <2>1. CASE exact # {}
    <3>1. PICK d \in panel : d.blocks \cap BlockIds(c) # {}
      BY <2>1
    <3>2. CaseAnchors(c, case) = {}
      BY <1>2, <3>1 DEF Mixed
    <3> QED
      BY <3>2
  <2>2. CASE exact = {}
    <3>1. AnchorBlocks(c, panel) =
            {b.id : b \in {x \in c.blocks : x.asset \in UNION {d.assets : d \in panel}}}
      BY <2>2 DEF AnchorBlocks
    <3>2. CaseAnchors(c, case) = {b.id : b \in {x \in c.blocks : x.asset \in case.assets}}
      BY <1>2 DEF CaseAnchors
    <3> QED
      BY <3>1, <3>2
  <2> QED
    BY <2>1, <2>2
<1> QED
  BY <1>1, <1>2

\* The point of a ratio has the anchors.
LEMMA PointHasAnchors ==
  ASSUME PanelFits, run.chosenFrom # NoValue, run.pc # "rejected",
         NEW i \in DOMAIN ScaleSpec.ratios, NEW ids, NEW blocked, ComesFrom(ids, blocked, i),
         plan # NoValue \/ ~run.replaced
  PROVE  AnchorBlocks(run.chosenFrom, run.panel) \subseteq ids
<1>1. CASE plan # NoValue
  BY <1>1 DEF ComesFrom, PanelFits
<1>2. CASE plan = NoValue
  <2> DEFINE target == ScaleSpec.context * ScaleSpec.ratios[i]
  <2>1. ScaleSpec.context \in Nat /\ ScaleSpec.ratios[i] \in Nat
    BY HarnessAssumption
  <2>2. target \in Int
    BY <2>1
  <2>3. run.chosenFrom \in Corpora
    BY DEF PanelFits
  <2>4. ids = Projection(run.chosenFrom, run.panel, target).ids
    BY <1>2 DEF ComesFrom, Projected
  <2> HIDE DEF target
  <2> QED
    BY <2>2, <2>3, <2>4, ProjectionHolds
<1> QED
  BY <1>1, <1>2

LEMMA ClaimEarned ==
  HarnessShape /\ MissedIsCounted /\ GatesInOrder /\ PanelFits /\ PointsFit => ClaimIsEarned
<1> SUFFICES ASSUME HarnessShape, MissedIsCounted, GatesInOrder, PanelFits, PointsFit, run.claim
             PROVE  ClaimIsEarned
  BY DEF ClaimIsEarned
<1>1. run.gate3 /\ run.gate4 /\ run.missed \subseteq run.lost /\ run.pc = "done"
  BY DEF GatesInOrder, MissedIsCounted, MissedForGood
<1>2. /\ Len(run.points) = Len(ScaleSpec.ratios)
      /\ \A i \in DOMAIN run.points : run.points[i].status = "pass"
  BY <1>1 DEF GatesInOrder
<1>3. DOMAIN run.points = DOMAIN ScaleSpec.ratios
  BY <1>2, HarnessAssumption DEF HarnessShape, RunFits
<1>4. ASSUME NEW i \in DOMAIN run.points
      PROVE  LET p == run.points[i] IN
             /\ p.status # "blocked"
             /\ 100 * p.recovered >= ScaleSpec.recall * p.present
             /\ plan # NoValue \/ ~run.replaced =>
                  \A c \in run.panel : c.blocks \cap BlockIds(run.chosenFrom) \subseteq p.ids
  <2> DEFINE p == run.points[i]
  <2>1. p.status = "pass" /\ 100 * p.recovered >= ScaleSpec.recall * p.present
    BY <1>2 DEF GatesInOrder
  <2>2. ASSUME plan # NoValue \/ ~run.replaced, NEW c \in run.panel
        PROVE  c.blocks \cap BlockIds(run.chosenFrom) \subseteq p.ids
    <3>1. run.points # <<>>
      OBVIOUS
    <3>2. run.chosenFrom # NoValue
      BY <3>1 DEF PanelFits
    <3>3. ComesFrom(p.ids, p.status = "blocked", i)
      BY DEF PointsFit
    <3>4. AnchorBlocks(run.chosenFrom, run.panel) \subseteq p.ids
      BY <1>1, <1>3, <2>2, <3>2, <3>3, PointHasAnchors
    <3> QED
      BY <3>4, ExactAreAnchors
  <2> QED
    BY <2>1, <2>2
<1> QED
  BY <1>1, <1>2, <1>4 DEF ClaimIsEarned

\* The claim of a proof rests on a complete inspection, but for what an exception without
\* a text left out, and on complete points, for any corpora, routes, plans, failures and
\* ingests.
THEOREM ClaimsAreEarned == HarnessSpec => []ClaimIsEarned
  BY ShapeAlways, MissedAlways, GatesAlways, PanelAlways, PointsAlways, ClaimEarned, PTL

LEMMA EvidenceKept == HarnessShape /\ PanelFits /\ PointsFit => PanelEvidenceKept
<1> SUFFICES ASSUME HarnessShape, PanelFits, PointsFit,
                    run.pc \in {"pointNeedles", "pointTasks"}, ~run.replaced,
                    ~Mixed(run.panel, run.chosenFrom),
                    NEW c \in run.panel, NEW b \in run.chosenFrom.blocks,
                    b.id \in CaseAnchors(run.chosenFrom, c)
             PROVE  b \in run.projected.blocks
  BY DEF PanelEvidenceKept
<1> DEFINE i == Len(run.points) + 1
           ids == run.projected.point.ids
<1>1. run.chosenFrom # NoValue
  BY DEF PanelFits
<1>2. ComesFrom(ids, FALSE, i)
  BY DEF PointsFit
<1>3. i \in DOMAIN ScaleSpec.ratios
  BY HarnessAssumption DEF HarnessShape, RunFits, AllPoints
<1> HIDE DEF i, ids
<1>4. AnchorBlocks(run.chosenFrom, run.panel) \subseteq ids
  BY <1>1, <1>2, <1>3, PointHasAnchors
<1>5. b.id \in ids
  BY <1>4, AnchorsOfAll
<1> QED
  BY <1>5 DEF PointsFit, ids

\* What a point is measured with has the evidence of the panel, as it was when the panel
\* was chosen.
THEOREM PanelEvidenceIsKept == HarnessSpec => []PanelEvidenceKept
  BY ShapeAlways, PanelAlways, PointsAlways, EvidenceKept, PTL

-----------------------------------------------------------------------------
\* When a plan replays.

\* A set of positions has a largest.
LEMMA LargestExists ==
  ASSUME NEW n \in Nat, NEW S \in SUBSET (1 .. n), S # {}
  PROVE  \E m \in S : \A k \in S : k <= m
<1> DEFINE below == {n - k : k \in S}
<1>1. below \subseteq Nat /\ below # {}
  <2>1. \A k \in S : n - k \in Nat
    OBVIOUS
  <2> QED
    BY <2>1
<1>2. PICK d \in below : \A e \in below : ~(<<e, d>> \in OpToRel(<, Nat))
  BY <1>1, NatLessThanWellFounded, WFMin
<1>3. PICK m \in S : d = n - m
  OBVIOUS
<1>4. ASSUME NEW k \in S
      PROVE  k <= m
  <2>1. n - k \in below
    OBVIOUS
  <2>2. ~(n - k < n - m)
    BY <1>1, <1>2, <1>3, <2>1 DEF OpToRel
  <2> QED
    BY <2>2
<1> QED
  BY <1>4

\* A ready plan of this corpus and matrix with the run's parameters repeats what the run
\* projects from them.
LEMMA PlanRepeats ==
  ASSUME NEW made, \E k \in Corpora, r \in PlanRequests : made = Plan(k, r.cases, r.spec),
         made.ready, NEW c, NEW cases, made.corpus = c, made.cases = cases,
         PanelSpec(made.spec) = PanelSpec(ScaleSpec)
  PROVE  LET panel == PanelOf(c, cases, ScaleSpec) IN
         /\ c \in Corpora
         /\ PanelBlockers(c, cases, panel, PanelSpec(ScaleSpec)) = {}
         /\ made.context = ScaleSpec.context
         /\ made.anchors = AnchorBlocks(c, panel)
         /\ \E n \in Nat : DOMAIN made.points = 1 .. n
         /\ \A j \in DOMAIN made.points :
              LET p == made.points[j]
                  q == Projection(c, panel, ScaleSpec.context * p.ratio)
              IN p.blockers = {} /\ p.ids = q.ids /\ made.anchors \subseteq p.ids
<1>1. PICK k \in Corpora, r \in PlanRequests : made = Plan(k, r.cases, r.spec)
  OBVIOUS
<1> DEFINE spec == r.spec
           panel == PanelOf(c, cases, ScaleSpec)
<1>2. made.corpus = k /\ made.cases = r.cases /\ made.spec = spec
  BY <1>1, PlanIs
<1>3. k = c /\ r.cases = cases /\ PanelSpec(spec) = PanelSpec(ScaleSpec)
  BY <1>2
<1>4. PanelOf(c, r.cases, spec) = panel
  BY <1>3 DEF PanelOf
<1>5. spec.context = ScaleSpec.context
  <2>1. PanelSpec(spec).context = spec.context /\ PanelSpec(ScaleSpec).context = ScaleSpec.context
    BY DEF PanelSpec
  <2> QED
    BY <1>3, <2>1
<1>6. /\ made.context = spec.context
      /\ made.anchors = AnchorBlocks(c, panel)
      /\ made.points = PlanPoints(c, panel, spec)
      /\ PanelBlockers(c, cases, panel, PanelSpec(ScaleSpec)) = {}
      /\ \A i \in DOMAIN made.points : made.points[i].blockers = {}
  BY <1>1, <1>3, <1>4, PlanIs
<1>7. spec.context \in Nat /\ spec.ratios \in Seq(Nat)
  BY HarnessAssumption
<1> HIDE DEF spec, panel
<1>8. DOMAIN made.points = DOMAIN spec.ratios /\ DOMAIN spec.ratios = 1 .. Len(spec.ratios)
      /\ Len(spec.ratios) \in Nat
  BY <1>6, <1>7, PlanPointsAre
<1>9. ASSUME NEW j \in DOMAIN made.points
      PROVE  LET p == made.points[j]
                 q == Projection(c, panel, ScaleSpec.context * p.ratio)
             IN p.blockers = {} /\ p.ids = q.ids /\ made.anchors \subseteq p.ids
  <2> DEFINE p == made.points[j]
             target == ScaleSpec.context * p.ratio
  <2>1. /\ p.ratio = spec.ratios[j]
        /\ p.ids = Projection(c, panel, spec.context * spec.ratios[j]).ids
    BY <1>6, <1>8, PlanPointsAre
  <2>2. p.ids = Projection(c, panel, target).ids
    BY <1>5, <2>1
  <2>3. spec.ratios[j] \in Nat
    BY <1>7, <1>8
  <2>4. target \in Int
    BY <1>5, <1>7, <2>1, <2>3
  <2> HIDE DEF target
  <2>5. AnchorBlocks(c, panel) \subseteq Projection(c, panel, target).ids
    BY <1>3, <2>4, ProjectionHolds
  <2> QED
    BY <1>6, <2>2, <2>5 DEF target
<1> QED
  BY <1>3, <1>5, <1>6, <1>8, <1>9 DEF panel

LEMMA RejectedInit == HarnessInit => RejectedIsOther
  BY DEF HarnessInit, NewRun, RejectedIsOther

\* The checks of the panel and of the plan accept such a plan.
LEMMA StartScaleAccepts ==
  ASSUME HarnessShape, PlanMade, StartScale, PlanIsForRun'
  PROVE  run'.pc = "point"
<1>1. /\ Keeps({"pc", "panel", "chosenFrom"}) /\ run'.chosenFrom = corpus /\ UNCHANGED plan
      /\ run'.pc = IF /\ PanelBlockers(corpus, run.cases, LivePanel, PanelSpec(ScaleSpec)) = {}
                      /\ FrozenPlanFits
                   THEN "point" ELSE "rejected"
  BY StartScaleWrites DEF HarnessShape, RunFits, OnlyRun
<1>2. run'.cases = run.cases
  BY <1>1, FieldsAre DEF Keeps
<1>3. /\ plan # NoValue /\ plan.ready /\ plan.corpus = corpus /\ plan.cases = run.cases
      /\ PanelSpec(plan.spec) = PanelSpec(ScaleSpec)
  BY <1>1, <1>2 DEF PlanIsForRun
<1>4. \E k \in Corpora, r \in PlanRequests : plan = Plan(k, r.cases, r.spec)
  BY <1>3 DEF PlanMade
<1>5. LivePanel = PanelOf(corpus, run.cases, ScaleSpec)
  BY DEF LivePanel, PanelOf
<1>6. /\ PanelBlockers(corpus, run.cases, LivePanel, PanelSpec(ScaleSpec)) = {}
      /\ plan.context = ScaleSpec.context /\ plan.anchors = AnchorBlocks(corpus, LivePanel)
  BY <1>3, <1>4, <1>5, PlanRepeats
<1> QED
  BY <1>1, <1>6 DEF FrozenPlanFits

\* Nor is one of its points missing.
LEMMA PointIsThere ==
  ASSUME HarnessShape, PlanMade, PlanIsForRun, ~AllPoints
  PROVE  PointsFor(Ratio) # {}
<1> DEFINE n == Len(plan.points)
           planned == {i \in DOMAIN plan.points : plan.points[i].ratio = Ratio}
<1>1. /\ plan # NoValue /\ plan.ready /\ plan.corpus = run.chosenFrom /\ plan.cases = run.cases
      /\ PanelSpec(plan.spec) = PanelSpec(ScaleSpec)
      /\ Range(ScaleSpec.ratios) \subseteq {p.ratio : p \in Range(plan.points)}
  BY DEF PlanIsForRun
<1>2. \E k \in Corpora, r \in PlanRequests : plan = Plan(k, r.cases, r.spec)
  BY <1>1 DEF PlanMade
<1>3. /\ \E m \in Nat : DOMAIN plan.points = 1 .. m
      /\ \A j \in DOMAIN plan.points : plan.anchors \subseteq plan.points[j].ids
  BY <1>1, <1>2, PlanRepeats
<1>4. Len(run.points) + 1 \in DOMAIN ScaleSpec.ratios
  BY HarnessAssumption DEF HarnessShape, RunFits, AllPoints
<1>5. Ratio \in Range(ScaleSpec.ratios)
  BY <1>4 DEF Ratio, Range
<1>6. PICK j \in DOMAIN plan.points : plan.points[j].ratio = Ratio
  BY <1>1, <1>5 DEF Range
<1>7. planned # {}
  BY <1>6
<1>8. PICK m \in Nat : DOMAIN plan.points = 1 .. m
  BY <1>3
<1>9. planned \in SUBSET (1 .. m)
  BY <1>8
<1> HIDE DEF planned
<1>10. PICK l \in planned : \A k \in planned : k <= l
  BY <1>7, <1>8, <1>9, LargestExists
<1>11. l \in DOMAIN plan.points
  BY <1>8, <1>9, <1>10
<1>12. plan.points[l] \in PointsFor(Ratio)
  BY <1>1, <1>3, <1>10, <1>11 DEF PointsFor, planned
<1> QED
  BY <1>12

LEMMA RejectedNext ==
  HarnessShape /\ PlanMade /\ RejectedIsOther /\ [HarnessNext]_harnessVars => RejectedIsOther'
<1> SUFFICES ASSUME HarnessShape, PlanMade, RejectedIsOther, [HarnessNext]_harnessVars,
                    run'.pc = "rejected", PlanIsForRun'
             PROVE  FALSE
  BY DEF RejectedIsOther
<1>1. CASE UNCHANGED harnessVars
  BY <1>1 DEF harnessVars, RejectedIsOther, PlanIsForRun
<1>2. CASE MakePlan
  BY <1>2, MakePlanWrites
<1>3. CASE Ingest
  BY <1>3, IngestWrites, FieldsAre DEF HarnessShape, RunFits, Keeps
<1>4. CASE StartScale
  BY <1>4, StartScaleAccepts
<1>5. CASE HarnessNext /\ ~MakePlan /\ ~Ingest /\ ~StartScale
  <2>1. PanelStays /\ Moves
    BY <1>5, StepsMove
  <2>2. run.pc = "rejected" \/ (RejectPoint /\ run.pc = "point")
    BY <2>1 DEF Moves, AtPoint
  <2>3. PlanIsForRun
    BY <2>1, <2>2 DEF PanelStays, PlanIsForRun
  <2>4. RejectPoint
    BY <2>2, <2>3 DEF RejectedIsOther
  <2> QED
    BY <2>3, <2>4, RejectPointWrites, PointIsThere DEF HarnessShape, RunFits
<1> QED
  BY <1>1, <1>2, <1>3, <1>4, <1>5

LEMMA RejectedAlways == HarnessSpec => []RejectedIsOther
  BY ShapeAlways, PlanMadeAlways, RejectedInit, RejectedNext, PTL DEF HarnessSpec

LEMMA PlanReplays ==
  PlanMade /\ PanelFits /\ PointsFit /\ RejectedIsOther => FrozenPlanReplays
<1> SUFFICES ASSUME PlanMade, PanelFits, PointsFit, RejectedIsOther, PlanIsForRun
             PROVE  FrozenPlanReplays
  BY DEF FrozenPlanReplays
<1> DEFINE panel == PanelOf(run.chosenFrom, run.cases, ScaleSpec)
<1>1. plan # NoValue /\ \E k \in Corpora, r \in PlanRequests : plan = Plan(k, r.cases, r.spec)
  BY DEF PlanMade, PlanIsForRun
<1>2. \A j \in DOMAIN plan.points :
        LET p == plan.points[j] IN
        /\ p.blockers = {}
        /\ p.ids = Projection(run.chosenFrom, panel, ScaleSpec.context * p.ratio).ids
  BY <1>1, PlanRepeats DEF PlanIsForRun
<1>3. run.chosenFrom \in Corpora /\ run.chosenFrom # NoValue
  BY <1>1, PlanRepeats, CorporaAssumption DEF PlanIsForRun
<1>4. run.panel = panel
  BY <1>3 DEF PanelFits
<1>5. ASSUME NEW i \in DOMAIN run.points
      PROVE  /\ run.points[i].status # "blocked"
             /\ run.points[i].ids = Projected(ScaleSpec.ratios[i]).ids
  <2>1. PICK j \in DOMAIN plan.points :
          /\ plan.points[j].ratio = ScaleSpec.ratios[i]
          /\ plan.points[j].ids = run.points[i].ids
          /\ run.points[i].status = "blocked" => plan.points[j].blockers # {}
    BY <1>1 DEF PointsFit, ComesFrom
  <2> QED
    BY <1>2, <1>4, <2>1 DEF Projected
<1> QED
  BY <1>5 DEF FrozenPlanReplays, RejectedIsOther

\* A ready plan is accepted and repeated by every run with its corpus, its matrix and its
\* parameters of the panel, whatever else is ingested before, between and after.
THEOREM FrozenPlansReplay == HarnessSpec => []FrozenPlanReplays
  BY PlanMadeAlways, PanelAlways, PointsAlways, RejectedAlways, PlanReplays, PTL

-----------------------------------------------------------------------------
\* Folds over finite sets, and what is first in a finite set.

\* Induction over the numbers up to n, for a set of numbers.
LEMMA UpTo ==
  ASSUME NEW n \in Nat, NEW P, 0 \in P, \A i \in Nat : i < n /\ i \in P => i + 1 \in P
  PROVE  \A i \in 0 .. n : i \in P
<1> DEFINE others == {i \in 0 .. n : i \notin P}
<1> SUFFICES ASSUME others # {} PROVE FALSE
  OBVIOUS
<1>1. others \subseteq Nat
  OBVIOUS
<1>2. PICK k \in others : \A e \in others : ~(<<e, k>> \in OpToRel(<, Nat))
  BY <1>1, NatLessThanWellFounded, WFMin
<1>3. k \in Nat /\ k # 0 /\ k <= n
  OBVIOUS
<1>4. k - 1 \in Nat /\ k - 1 < n /\ k - 1 + 1 = k /\ k - 1 \in 0 .. n
  BY <1>3
<1>5. k - 1 \notin P
  BY <1>4
<1>6. k - 1 \in others
  BY <1>4, <1>5
<1>7. <<k - 1, k>> \in OpToRel(<, Nat)
  BY <1>3, <1>4 DEF OpToRel
<1> QED
  BY <1>2, <1>6, <1>7

\* A fold over a finite set is defined: c chooses what is folded last.
Chooses(c, S) == \A s \in SUBSET S : s # {} => c[s] \in s
FoldIs(h, S, base, g, c) ==
  \A s \in SUBSET S : h[s] = IF s = {} THEN base ELSE g[<<h[s \ {c[s]}], c[s]>>]

LEMMA FoldDefined ==
  ASSUME NEW S, IsFiniteSet(S), NEW X, NEW base \in X, NEW g \in [X \X S -> X],
         NEW c, Chooses(c, S)
  PROVE  \E h \in [SUBSET S -> X] : FoldIs(h, S, base, g, c)
<1> DEFINE Right(h, s) == h[s] = IF s = {} THEN base ELSE g[<<h[s \ {c[s]}], c[s]>>]
           P == {n \in Nat : \E h \in [SUBSET S -> X] :
                    \A s \in SUBSET S : Cardinality(s) <= n => Right(h, s)}
<1>c. \A s \in SUBSET S : s # {} => c[s] \in s
  BY DEF Chooses
<1>1. \A s \in SUBSET S : IsFiniteSet(s) /\ Cardinality(s) \in Nat /\ Cardinality(s) <= Cardinality(S)
  BY FS_Subset, FS_CardinalityType
<1>2. 0 \in P
  <2> DEFINE h == [s \in SUBSET S |-> base]
  <2>1. h \in [SUBSET S -> X]
    OBVIOUS
  <2>2. ASSUME NEW s \in SUBSET S, Cardinality(s) <= 0 PROVE Right(h, s)
    <3>1. s = {}
      BY <1>1, <2>2, FS_EmptySet
    <3> QED
      BY <3>1
  <2> QED
    BY <2>1, <2>2
<1>3. ASSUME NEW n \in Nat, n \in P PROVE n + 1 \in P
  <2>1. PICK h \in [SUBSET S -> X] : \A s \in SUBSET S : Cardinality(s) <= n => Right(h, s)
    BY <1>3
  <2> DEFINE next == [s \in SUBSET S |->
                        IF s = {} THEN base ELSE g[<<h[s \ {c[s]}], c[s]>>]]
  <2>2. next \in [SUBSET S -> X]
    <3>1. ASSUME NEW s \in SUBSET S, s # {} PROVE g[<<h[s \ {c[s]}], c[s]>>] \in X
      <4>1. c[s] \in S /\ s \ {c[s]} \in SUBSET S
        BY <1>c, <3>1
      <4>2. h[s \ {c[s]}] \in X
        BY <4>1
      <4> QED
        BY <4>1, <4>2
    <3> QED
      BY <3>1
  <2>3. ASSUME NEW s \in SUBSET S, Cardinality(s) <= n PROVE next[s] = h[s]
    BY <2>1, <2>3
  <2>4. ASSUME NEW s \in SUBSET S, Cardinality(s) <= n + 1 PROVE Right(next, s)
    <3>1. CASE s = {}
      BY <3>1
    <3>2. CASE s # {}
      <4>1. c[s] \in s /\ s \ {c[s]} \in SUBSET S
        BY <1>c, <3>2
      <4>2. Cardinality(s \ {c[s]}) = Cardinality(s) - 1
        BY <1>1, <4>1, FS_RemoveElement
      <4>3. Cardinality(s \ {c[s]}) <= n
        BY <1>1, <2>4, <4>2
      <4>4. next[s \ {c[s]}] = h[s \ {c[s]}]
        BY <2>3, <4>1, <4>3
      <4> QED
        BY <3>2, <4>4
    <3> QED
      BY <3>1, <3>2
  <2> HIDE DEF next, Right
  <2> QED
    BY <2>2, <2>4 DEF P
<1> HIDE DEF P
<1>4. Cardinality(S) \in P
  <2>1. Cardinality(S) \in Nat
    BY <1>1
  <2> QED
    BY <1>2, <1>3, <2>1, UpTo
<1>5. PICK h \in [SUBSET S -> X] : \A s \in SUBSET S : Cardinality(s) <= Cardinality(S) => Right(h, s)
  BY <1>4 DEF P
<1> QED
  BY <1>1, <1>5 DEF FoldIs

\* What holds of the empty set and of a set once it holds without its choice, holds of S.
LEMMA FoldInduction ==
  ASSUME NEW S, IsFiniteSet(S), NEW c, Chooses(c, S),
         NEW P, {} \in P, \A s \in SUBSET S : s # {} /\ s \ {c[s]} \in P => s \in P
  PROVE  S \in P
<1> DEFINE N == {n \in Nat : \A s \in SUBSET S : Cardinality(s) <= n => s \in P}
<1>1. \A s \in SUBSET S : IsFiniteSet(s) /\ Cardinality(s) \in Nat
  BY FS_Subset, FS_CardinalityType
<1>2. 0 \in N
  <2>1. ASSUME NEW s \in SUBSET S, Cardinality(s) <= 0 PROVE s \in P
    BY <1>1, <2>1, FS_EmptySet
  <2> QED
    BY <2>1
<1>3. ASSUME NEW n \in Nat, n \in N PROVE n + 1 \in N
  <2>1. ASSUME NEW s \in SUBSET S, Cardinality(s) <= n + 1, s # {} PROVE s \in P
    <3>1. c[s] \in s /\ s \ {c[s]} \in SUBSET S
      BY <2>1 DEF Chooses
    <3>2. Cardinality(s \ {c[s]}) = Cardinality(s) - 1
      BY <1>1, <3>1, FS_RemoveElement
    <3>3. Cardinality(s \ {c[s]}) <= n
      BY <1>1, <2>1, <3>2
    <3> QED
      BY <1>3, <2>1, <3>1, <3>3
  <2> QED
    BY <2>1
<1> HIDE DEF N
<1>4. Cardinality(S) \in N
  <2>1. Cardinality(S) \in Nat
    BY <1>1
  <2> QED
    BY <1>2, <1>3, <2>1, UpTo
<1> QED
  BY <1>1, <1>4 DEF N

\* A sum of equal numbers.
LEMMA SharesAdd ==
  ASSUME NEW S, IsFiniteSet(S), NEW k \in Nat, \A r \in S : r.share = k
  PROVE  FoldSet(LAMBDA r, sum : sum + r.share, 0, S) = k * Cardinality(S)
<1> DEFINE c == [s \in SUBSET S |-> CHOOSE x \in s : TRUE]
           more(iter, s) ==
             IF s = {} THEN 0
             ELSE iter[s \ {CHOOSE x \in s : TRUE}] + (CHOOSE x \in s : TRUE).share
           fold == CHOOSE iter : iter = [s \in SUBSET S |-> more(iter, s)]
           add(sum, r) == sum + r.share
           g == [p \in Nat \X S |-> add(p[1], p[2])]
           total == FoldSet(LAMBDA r, sum : sum + r.share, 0, S)
<1>1. total = fold[S]
  BY DEF FoldSet, MapThenFoldSet
<1> HIDE DEF total
<1>2. Chooses(c, S)
  BY DEF Chooses
<1>3. PICK h \in [SUBSET S -> Nat] :
        \A s \in SUBSET S : h[s] = IF s = {} THEN 0 ELSE add(h[s \ {c[s]}], c[s])
  <2>1. g \in [Nat \X S -> Nat] /\ \A sum \in Nat, r \in S : g[<<sum, r>>] = add(sum, r)
    OBVIOUS
  <2> HIDE DEF c, add, g
  <2>2. PICK h \in [SUBSET S -> Nat] : FoldIs(h, S, 0, g, c)
    BY <1>2, <2>1, FoldDefined
  <2>3. ASSUME NEW s \in SUBSET S, s # {} PROVE g[<<h[s \ {c[s]}], c[s]>>] = add(h[s \ {c[s]}], c[s])
    <3>1. c[s] \in S /\ s \ {c[s]} \in SUBSET S
      BY <1>2, <2>3 DEF Chooses
    <3> QED
      BY <2>1, <3>1
  <2> QED
    BY <2>2, <2>3 DEF FoldIs
<1>4. h = [s \in SUBSET S |-> more(h, s)]
  <2>1. \A s \in SUBSET S : h[s] = more(h, s)
    BY <1>3
  <2> HIDE DEF more
  <2> QED
    BY <2>1
<1>5. fold = [s \in SUBSET S |-> more(fold, s)]
  <2> HIDE DEF more
  <2> QED
    BY <1>4
<1>6. ASSUME NEW s \in SUBSET S
      PROVE  fold[s] = IF s = {} THEN 0 ELSE fold[s \ {c[s]}] + c[s].share
  BY <1>5
<1> HIDE DEF c, fold
<1> DEFINE P == {s \in SUBSET S : fold[s] = k * Cardinality(s)}
<1>7. {} \in P
  <2>1. fold[{}] = 0
    BY <1>6
  <2>2. Cardinality({}) = 0
    BY FS_EmptySet
  <2>3. k * 0 = 0
    OBVIOUS
  <2>4. fold[{}] = k * Cardinality({})
    BY <2>1, <2>2, <2>3
  <2> QED
    BY <2>4
<1>8. ASSUME NEW s \in SUBSET S, s # {}, s \ {c[s]} \in P PROVE s \in P
  <2> DEFINE rest == s \ {c[s]}
             n == Cardinality(rest)
  <2>1. c[s] \in s
    BY <1>2, <1>8 DEF Chooses
  <2>2. IsFiniteSet(s)
    BY FS_Subset
  <2>3. Cardinality(s) - 1 = n /\ Cardinality(s) \in Nat
    BY <2>1, <2>2, FS_RemoveElement, FS_CardinalityType
  <2>4. fold[s] = k * n + k
    BY <1>6, <1>8, <2>1
  <2> HIDE DEF n
  <2>5. n \in Int /\ Cardinality(s) = n + 1
    BY <2>3
  <2>6. k * (n + 1) = k * n + k
    BY <2>5
  <2> QED
    BY <2>4, <2>5, <2>6
<1> HIDE DEF P
<1>9. S \in P
  BY <1>2, <1>7, <1>8, FoldInduction
<1> QED
  BY <1>1, <1>9 DEF P, total

\* A relation that orders a finite set has a first element in it.
Orders(R, S) ==
  /\ \A a, b \in S : a # b => <<a, b>> \in R \/ <<b, a>> \in R
  /\ \A a, b, d \in S : <<a, b>> \in R /\ <<b, d>> \in R => <<a, d>> \in R

LEMMA FirstExists ==
  ASSUME NEW S, IsFiniteSet(S), S # {}, NEW R, Orders(R, S)
  PROVE  \E a \in S : \A b \in S \ {a} : <<a, b>> \in R
<1> DEFINE c == [s \in SUBSET S |-> CHOOSE x \in s : TRUE]
           P == {s \in SUBSET S : s # {} => \E a \in s : \A b \in s \ {a} : <<a, b>> \in R}
<1>1. Chooses(c, S)
  BY DEF Chooses
<1>2. {} \in P
  OBVIOUS
<1>3. ASSUME NEW s \in SUBSET S, s # {}, s \ {c[s]} \in P PROVE s \in P
  <2>1. c[s] \in s
    BY <1>1, <1>3 DEF Chooses
  <2> HIDE DEF c
  <2>2. CASE s \ {c[s]} = {}
    BY <2>1, <2>2
  <2>3. CASE s \ {c[s]} # {}
    <3>1. PICK a \in s \ {c[s]} : \A b \in (s \ {c[s]}) \ {a} : <<a, b>> \in R
      BY <1>3, <2>3
    <3>2. CASE <<a, c[s]>> \in R
      <4>1. \A b \in s \ {a} : <<a, b>> \in R
        BY <3>1, <3>2
      <4> QED
        BY <4>1
    <3>3. CASE <<c[s], a>> \in R
      <4>1. \A b \in s \ {c[s]} : <<c[s], b>> \in R
        BY <2>1, <3>1, <3>3 DEF Orders
      <4> QED
        BY <2>1, <4>1
    <3> QED
      BY <2>1, <3>1, <3>2, <3>3 DEF Orders
  <2> QED
    BY <2>2, <2>3
<1> HIDE DEF c, P
<1>4. S \in P
  BY <1>1, <1>2, <1>3, FoldInduction
<1> QED
  BY <1>4 DEF P

\* Questions are asked in the order of their ids.
LEMMA FirstById ==
  ASSUME NEW S, IsFiniteSet(S), S # {}, \A q \in S : q.id \in Int
  PROVE  (CHOOSE q \in S : \A r \in S : q.id <= r.id) \in S
<1> DEFINE R == {p \in S \X S : p[1].id <= p[2].id}
<1>1. Orders(R, S)
  BY DEF Orders
<1>2. \E a \in S : \A b \in S \ {a} : <<a, b>> \in R
  <2> HIDE DEF R
  <2> QED
    BY <1>1, FirstExists
<1>3. PICK a \in S : \A b \in S \ {a} : <<a, b>> \in R
  BY <1>2
<1>4. ASSUME NEW b \in S PROVE a.id <= b.id
  <2>1. CASE b = a
    BY <2>1
  <2>2. CASE b # a
    <3>1. <<a, b>> \in R
      BY <1>3, <2>2
    <3> QED
      BY <3>1
  <2> QED
    BY <2>1, <2>2
<1> QED
  BY <1>4

-----------------------------------------------------------------------------
\* A panel is chosen of the cases.

LEMMA BeforeOrders ==
  ASSUME NEW S, NEW rank \in [S -> [1 .. 6 -> Int]],
         \A a, b \in S : rank[a][6] = rank[b][6] => a = b
  PROVE  Orders({p \in S \X S : Before(rank[p[1]], rank[p[2]])}, S)
<1> DEFINE less(a, b) == \E i \in 1 .. 6 : rank[a][i] < rank[b][i] /\ \A j \in 1 .. i - 1 : rank[a][j] = rank[b][j]
<1>1. \A a, b \in S : Before(rank[a], rank[b]) <=> less(a, b)
  BY DEF Before
<1>2. ASSUME NEW a \in S, NEW b \in S, a # b PROVE less(a, b) \/ less(b, a)
  <2> DEFINE x(i) == rank[a][i]
             y(i) == rank[b][i]
  <2>1. \A i \in 1 .. 6 : rank[a][i] \in Int /\ rank[b][i] \in Int
    OBVIOUS
  <2>2. rank[a][6] # rank[b][6]
    BY <1>2
  <2>3. PICK i \in 1 .. 6 : rank[a][i] # rank[b][i] /\ \A j \in 1 .. i - 1 : rank[a][j] = rank[b][j]
    <3> DEFINE differ == {i \in 1 .. 6 : rank[a][i] # rank[b][i]}
    <3>1. PICK i \in differ : \A e \in differ : ~(<<e, i>> \in OpToRel(<, Nat))
      <4>1. differ \subseteq Nat /\ differ # {}
        BY <2>2
      <4> QED
        BY <4>1, NatLessThanWellFounded, WFMin
    <3>2. ASSUME NEW j \in 1 .. i - 1 PROVE rank[a][j] = rank[b][j]
      <4>1. j \in 1 .. 6 /\ j < i /\ j \in Nat /\ i \in Nat
        OBVIOUS
      <4>2. <<j, i>> \in OpToRel(<, Nat)
        BY <4>1 DEF OpToRel
      <4> QED
        BY <3>1, <4>1, <4>2
    <3> QED
      BY <3>2
  <2>4. rank[a][i] < rank[b][i] \/ rank[b][i] < rank[a][i]
    BY <2>1, <2>3
  <2> QED
    BY <2>3, <2>4
<1>3. ASSUME NEW a \in S, NEW b \in S, NEW d \in S, less(a, b), less(b, d) PROVE less(a, d)
  <2>1. PICK i \in 1 .. 6 : rank[a][i] < rank[b][i] /\ \A j \in 1 .. i - 1 : rank[a][j] = rank[b][j]
    BY <1>3
  <2>2. PICK k \in 1 .. 6 : rank[b][k] < rank[d][k] /\ \A j \in 1 .. k - 1 : rank[b][j] = rank[d][j]
    BY <1>3
  <2>3. \A n \in 1 .. 6 : rank[a][n] \in Int /\ rank[b][n] \in Int /\ rank[d][n] \in Int
    OBVIOUS
  <2> HIDE DEF less
  <2>4. CASE i < k
    <3>1. rank[a][i] < rank[d][i]
      BY <2>1, <2>2, <2>4
    <3>2. \A j \in 1 .. i - 1 : rank[a][j] = rank[d][j]
      BY <2>1, <2>2, <2>4
    <3> QED
      BY <3>1, <3>2 DEF less
  <2>5. CASE k < i
    <3>1. rank[a][k] < rank[d][k]
      BY <2>1, <2>2, <2>5
    <3>2. \A j \in 1 .. k - 1 : rank[a][j] = rank[d][j]
      BY <2>1, <2>2, <2>5
    <3> QED
      BY <3>1, <3>2 DEF less
  <2>6. CASE i = k
    <3>1. rank[a][i] < rank[d][i]
      BY <2>1, <2>2, <2>3, <2>6
    <3>2. \A j \in 1 .. i - 1 : rank[a][j] = rank[d][j]
      BY <2>1, <2>2, <2>6
    <3> QED
      BY <3>1, <3>2 DEF less
  <2> QED
    BY <2>4, <2>5, <2>6
<1> HIDE DEF less
<1> QED
  BY <1>1, <1>2, <1>3 DEF Orders

\* The ids of these cases are keys.
Keyed(cases) ==
  /\ IsFiniteSet(cases)
  /\ \A a, b \in cases : a.id \in Int /\ (a.id = b.id => a = b)

LEMMA MatrixIsKeyed == \A cases \in Matrices : Keyed(cases)
  BY HarnessAssumption, CasesAssumption DEF Keyed

LEMMA RankIsTyped ==
  ASSUME NEW c \in Corpora, NEW cases, Keyed(cases), NEW chosen \in SUBSET cases,
         NEW x \in cases, NEW spec
  PROVE  /\ Rank(c, x, chosen, spec) \in [1 .. 6 -> Int]
         /\ Rank(c, x, chosen, spec)[6] = x.id
<1> DEFINE a == FirstOf("negative", x, chosen, spec.requireNegative)
           b == FirstOf("cross-file", x, chosen, spec.requireCross)
           n == Novelty(x, chosen, spec)
           k == OfKind(chosen, x.kind)
           t == Tokens(c, PanelAnchors(c, chosen \cup {x}))
<1>1. a \in Int /\ b \in Int
  BY DEF FirstOf
<1>2. n \in Int
  <2> DEFINE one == Adds(x.kind, {y.kind : y \in chosen}, spec.kinds)
             two == Adds(x.modality, {y.modality : y \in chosen}, spec.modalities)
             three == Adds(x.at, {y.at : y \in chosen}, IF spec.positions THEN 3 ELSE 0)
             four == Adds(x.within, {y.within : y \in chosen}, IF spec.localPositions THEN 3 ELSE 0)
  <2>1. n = one + two + three + four
    BY DEF Novelty
  <2>2. one \in Int /\ two \in Int
    BY DEF Adds
  <2>3. three \in Int /\ four \in Int
    BY DEF Adds
  <2> HIDE DEF one, two, three, four, n
  <2> QED
    BY <2>1, <2>2, <2>3
<1>3. k \in Int
  <2>1. IsFiniteSet({y \in chosen : y.kind = x.kind})
    BY FS_Subset DEF Keyed
  <2> QED
    BY <2>1, FS_CardinalityType DEF OfKind
<1>4. t \in Int
  BY TokensCount
<1>5. x.id \in Int
  BY DEF Keyed
<1>6. Rank(c, x, chosen, spec) = <<-a, -b, -n, k, t, x.id>>
  BY DEF Rank
<1> HIDE DEF a, b, n, k, t
<1>7. -a \in Int /\ -b \in Int /\ -n \in Int
  BY <1>1, <1>2
<1> QED
  BY <1>3, <1>4, <1>5, <1>6, <1>7

LEMMA ExtendIsOfCases ==
  ASSUME NEW c \in Corpora, NEW cases, Keyed(cases), NEW chosen \in SUBSET cases, NEW spec
  PROVE  Extend(c, cases, chosen, spec) \in SUBSET cases
<1> DEFINE eligible == Eligible(c, cases, chosen, spec)
           rank == [x \in eligible |-> Rank(c, x, chosen, spec)]
           R == {p \in eligible \X eligible : Before(rank[p[1]], rank[p[2]])}
<1>1. eligible \subseteq cases
  BY DEF Eligible
<1>2. IsFiniteSet(eligible)
  BY <1>1, FS_Subset DEF Keyed
<1> HIDE DEF eligible
<1>3. /\ rank \in [eligible -> [1 .. 6 -> Int]]
      /\ \A a, b \in eligible : rank[a][6] = rank[b][6] => a = b
  BY <1>1, RankIsTyped DEF Keyed
<1>4. ASSUME eligible # {}
      PROVE  \E a \in eligible : \A b \in eligible \ {a} :
               Before(Rank(c, a, chosen, spec), Rank(c, b, chosen, spec))
  <2>1. Orders(R, eligible)
    <3> HIDE DEF rank
    <3> QED
      BY <1>3, BeforeOrders
  <2>2. PICK a \in eligible : \A b \in eligible \ {a} : <<a, b>> \in R
    <3> HIDE DEF R
    <3> QED
      BY <1>2, <1>4, <2>1, FirstExists
  <2>3. ASSUME NEW b \in eligible \ {a} PROVE Before(rank[a], rank[b])
    <3> HIDE DEF rank
    <3>1. <<a, b>> \in R
      BY <2>2
    <3> QED
      BY <3>1
  <2> QED
    BY <2>3
<1> DEFINE first == CHOOSE x \in eligible : \A d \in eligible \ {x} :
                      Before(Rank(c, x, chosen, spec), Rank(c, d, chosen, spec))
<1>5. eligible # {} => first \in eligible
  BY <1>4
<1>6. Extend(c, cases, chosen, spec) = IF eligible = {} THEN chosen ELSE chosen \cup {first}
  BY DEF Extend, eligible
<1> HIDE DEF first
<1> QED
  BY <1>1, <1>5, <1>6

LEMMA PanelIsOfCases ==
  ASSUME NEW c \in Corpora, NEW cases \in Matrices
  PROVE  PanelOf(c, cases, ScaleSpec) \in SUBSET cases
<1> DEFINE spec == PanelSpec(ScaleSpec)
           size == PanelSize(cases, spec)
           S == 1 .. size
           c0 == [s \in SUBSET S |-> CHOOSE x \in s : TRUE]
           add(chosen) == Extend(c, cases, chosen, spec)
           more(iter, s) ==
             IF s = {} THEN {} ELSE add(iter[s \ {CHOOSE x \in s : TRUE}])
           fold == CHOOSE iter : iter = [s \in SUBSET S |-> more(iter, s)]
           X == SUBSET cases
           g == [p \in X \X S |-> add(p[1])]
<1>1. IsFiniteSet(S)
  <2>1. spec.size \in Nat /\ Cardinality(cases) \in Nat
    BY SharesAssumption, HarnessAssumption, FS_CardinalityType DEF PanelSpec
  <2> HIDE DEF spec
  <2>2. size \in Int
    BY <2>1 DEF PanelSize, Min
  <2> HIDE DEF size
  <2> QED
    BY <2>2, FS_Interval
<1>2. PanelOf(c, cases, ScaleSpec) = fold[S]
  BY DEF PanelOf, Panel, FoldSet, MapThenFoldSet
<1>3. Chooses(c0, S)
  BY DEF Chooses
<1>4. \A chosen \in X : add(chosen) \in X
  <2> HIDE DEF spec
  <2> QED
    BY MatrixIsKeyed, ExtendIsOfCases
<1> HIDE DEF add
<1>5. PICK h \in [SUBSET S -> X] :
        \A s \in SUBSET S : h[s] = IF s = {} THEN {} ELSE add(h[s \ {c0[s]}])
  <2> HIDE DEF c0, S
  <2>1. {} \in X
    OBVIOUS
  <2> HIDE DEF X
  <2>2. g \in [X \X S -> X] /\ \A chosen \in X, n \in S : g[<<chosen, n>>] = add(chosen)
    BY <1>4
  <2> HIDE DEF g
  <2>3. PICK h \in [SUBSET S -> X] : FoldIs(h, S, {}, g, c0)
    BY <1>1, <1>3, <2>1, <2>2, FoldDefined
  <2>4. ASSUME NEW s \in SUBSET S, s # {} PROVE g[<<h[s \ {c0[s]}], c0[s]>>] = add(h[s \ {c0[s]}])
    <3>1. c0[s] \in S /\ s \ {c0[s]} \in SUBSET S
      BY <1>3, <2>4 DEF Chooses
    <3> QED
      BY <2>2, <3>1
  <2>5. \A s \in SUBSET S : h[s] = IF s = {} THEN {} ELSE g[<<h[s \ {c0[s]}], c0[s]>>]
    BY <2>3 DEF FoldIs
  <2>6. ASSUME NEW s \in SUBSET S PROVE h[s] = IF s = {} THEN {} ELSE add(h[s \ {c0[s]}])
    <3>1. CASE s = {}
      BY <2>5, <3>1
    <3>2. CASE s # {}
      BY <2>4, <2>5, <3>2
    <3> QED
      BY <3>1, <3>2
  <2> QED
    BY <2>6
<1> HIDE DEF S, X
<1>6. h = [s \in SUBSET S |-> more(h, s)]
  <2>1. \A s \in SUBSET S : h[s] = more(h, s)
    BY <1>5
  <2> HIDE DEF more
  <2> QED
    BY <2>1
<1>7. fold = [s \in SUBSET S |-> more(fold, s)]
  <2> HIDE DEF more
  <2> QED
    BY <1>6
<1>8. ASSUME NEW s \in SUBSET S
      PROVE  fold[s] = IF s = {} THEN {} ELSE add(fold[s \ {c0[s]}])
  BY <1>7
<1> DEFINE P == {s \in SUBSET S : fold[s] \in X}
<1> HIDE DEF fold, c0
<1>9. {} \in P
  BY <1>8 DEF X
<1>10. ASSUME NEW s \in SUBSET S, s # {}, s \ {c0[s]} \in P PROVE s \in P
  <2> DEFINE rest == fold[s \ {c0[s]}]
  <2>1. rest \in X
    BY <1>10
  <2>2. fold[s] = add(rest)
    BY <1>8, <1>10
  <2> HIDE DEF rest
  <2>3. add(rest) \in X
    BY <1>4, <2>1
  <2> QED
    BY <2>2, <2>3
<1> HIDE DEF P
<1>11. S \in P
  BY <1>1, <1>3, <1>9, <1>10, FoldInduction
<1> QED
  BY <1>2, <1>11 DEF P, X

-----------------------------------------------------------------------------
\* What a truthful case makes of right answers.

\* The matches of right answers.
Found(blocks, case) ==
  {[block |-> b, terms |-> case.terms \cap b.terms] : b \in {x \in blocks : case.terms \cap x.terms # {}}}

LEMMA RightIsFound ==
  ASSUME NEW case, NEW answers, \A b \in pool.blocks : answers[b.id] = "right"
  PROVE  Evidence(case, answers) = Found(pool.blocks, case)
<1> DEFINE about(b) ==
             CASE answers[b.id] = "right" -> case.terms \cap b.terms
               [] answers[b.id] = "everything" -> case.terms
               [] OTHER -> {}
<1>1. ASSUME NEW b \in pool.blocks PROVE about(b) = case.terms \cap b.terms
  <2>1. answers[b.id] = "right" /\ ~(answers[b.id] = "everything")
    OBVIOUS
  <2> QED
    BY <2>1
<1>2. Evidence(case, answers) =
        {[block |-> b, terms |-> about(b)] : b \in {x \in pool.blocks : about(x) # {}}}
  BY DEF Evidence
<1> HIDE DEF about
<1>3. {x \in pool.blocks : about(x) # {}} = {x \in pool.blocks : case.terms \cap x.terms # {}}
  BY <1>1
<1> QED
  BY <1>1, <1>2, <1>3 DEF Found

\* The blocks that hold a term of a case, and those of them that it names.
Holding(case, c) == {b \in c.blocks : b.terms \cap case.terms # {}}
Targets(case, c) == {b \in Holding(case, c) : b.id \in case.blocks}

LEMMA TruthIs ==
  ASSUME NEW cases, NEW c, Truthful(cases, c), Modern(cases), NEW case \in cases
  PROVE  /\ case.present =>
              /\ case.blocks # {}
              /\ case.terms = (UNION {b.terms : b \in Targets(case, c)}) \cap case.terms
              /\ case.assets = {b.asset : b \in Targets(case, c)}
              /\ case.hits # NoValue => case.hits <= Cardinality(case.assets)
         /\ ~case.present => Holding(case, c) = {}
  BY DEF Truthful, Modern, Holding, Targets

\* All targets of a case are among the blocks that are traversed.
Covers(blocks, case, c) ==
  blocks \subseteq c.blocks /\ \A b \in c.blocks : case.present /\ b.id \in case.blocks => b \in blocks

LEMMA HitsAreTargets ==
  ASSUME NEW cases, NEW c, Truthful(cases, c), Modern(cases), NEW case \in cases,
         case.present, NEW blocks, Covers(blocks, case, c)
  PROVE  /\ MatchedTerms(case, Found(blocks, case)) = case.terms
         /\ MatchedAssets(case, Found(blocks, case)) = case.assets
<1> DEFINE found == Found(blocks, case)
           match(b) == [block |-> b, terms |-> case.terms \cap b.terms]
           targets == Targets(case, c)
<1>1. /\ case.blocks # {} /\ case.assets = {b.asset : b \in targets}
      /\ case.terms = (UNION {b.terms : b \in targets}) \cap case.terms
  BY TruthIs
<1>2. ASSUME NEW m \in Hits(case, found)
      PROVE  m.block \in targets /\ TermHits(case, m) = case.terms \cap m.block.terms
  <2>1. m \in found /\ TruthMatches(m.block, case)
    BY DEF Hits
  <2>2. PICK b \in blocks : case.terms \cap b.terms # {} /\ m = match(b)
    BY <2>1 DEF Found
  <2>3. m.block = b /\ m.terms = case.terms \cap b.terms
    BY <2>2
  <2>4. b.id \in case.blocks
    BY <1>1, <2>1, <2>3 DEF TruthMatches
  <2> QED
    BY <2>2, <2>3, <2>4 DEF Targets, Holding, Covers, TermHits
<1>3. ASSUME NEW b \in targets
      PROVE  match(b) \in Hits(case, found) /\ match(b).block = b
  <2>1. b \in blocks /\ case.terms \cap b.terms # {} /\ b.id \in case.blocks /\ b.asset \in case.assets
    BY <1>1 DEF Targets, Holding, Covers
  <2>2. match(b) \in found
    BY <2>1 DEF Found
  <2>3. match(b).block = b /\ match(b).terms = case.terms \cap b.terms
    OBVIOUS
  <2> HIDE DEF match
  <2>4. TruthMatches(match(b).block, case)
    BY <2>1, <2>3 DEF TruthMatches
  <2>5. TermHits(case, match(b)) # {}
    BY <2>1, <2>3 DEF TermHits
  <2> QED
    BY <2>2, <2>3, <2>4, <2>5 DEF Hits
<1> HIDE DEF targets, match, found
<1>4. MatchedTerms(case, found) \subseteq case.terms
  BY DEF MatchedTerms, TermHits
<1>5. ASSUME NEW t \in case.terms PROVE t \in MatchedTerms(case, found)
  <2>1. PICK b \in targets : t \in b.terms
    BY <1>1
  <2>2. match(b) \in Hits(case, found) /\ match(b).block = b
    BY <1>3
  <2>3. t \in TermHits(case, match(b))
    BY <1>2, <2>1, <2>2
  <2> QED
    BY <2>2, <2>3 DEF MatchedTerms
<1>6. MatchedAssets(case, found) = {b.asset : b \in targets}
  <2>1. \A m \in Hits(case, found) : m.block.asset \in {b.asset : b \in targets}
    BY <1>2
  <2>2. \A b \in targets : b.asset \in MatchedAssets(case, found)
    BY <1>3 DEF MatchedAssets
  <2> QED
    BY <2>1, <2>2 DEF MatchedAssets
<1> QED
  BY <1>1, <1>4, <1>5, <1>6 DEF found

LEMMA AssetsSuffice ==
  ASSUME NEW cases \in Matrices, NEW c \in Corpora, Truthful(cases, c), Modern(cases),
         NEW case \in cases, case.present, case.terms # {}
  PROVE  Cardinality(case.assets) >= AssetsNeeded(case)
<1> DEFINE targets == Targets(case, c)
           n == Cardinality(case.assets)
<1>1. /\ case.assets = {b.asset : b \in targets}
      /\ case.terms = (UNION {b.terms : b \in targets}) \cap case.terms
      /\ case.hits # NoValue => case.hits <= n
  BY TruthIs
<1>2. IsFiniteSet(targets)
  BY CorporaAssumption, FS_Subset DEF Targets, Holding
<1> HIDE DEF targets
<1>3. targets # {}
  BY <1>1
<1>4. IsFiniteSet(case.assets)
  <2> DEFINE f == [b \in targets |-> b.asset]
  <2>1. f \in Surjection(targets, case.assets)
    BY <1>1 DEF Surjection
  <2> QED
    BY <1>2, <2>1, FS_Surjection
<1>5. case.assets # {}
  BY <1>1, <1>3
<1>6. n \in Nat /\ n # 0
  BY <1>4, <1>5, FS_CardinalityType, FS_EmptySet
<1>7. n >= 1
  BY <1>6
<1> HIDE DEF n
<1>8. case.hits # NoValue => case.hits \in Int
  BY CasesAssumption
<1>9. CASE case.hits # NoValue
  <2>1. AssetsNeeded(case) = case.hits
    BY <1>9 DEF AssetsNeeded
  <2> QED
    BY <1>1, <1>6, <1>8, <1>9, <2>1 DEF n
<1>10. CASE case.hits = NoValue
  <2>1. AssetsNeeded(case) = n \/ AssetsNeeded(case) = 1
    BY <1>10 DEF AssetsNeeded, n
  <2> QED
    BY <1>6, <1>7, <2>1 DEF n
<1> QED
  BY <1>9, <1>10

\* Right answers give a truthful case the row of a full score.
LEMMA RightRow ==
  ASSUME NEW cases \in Matrices, NEW c \in Corpora, Truthful(cases, c), Modern(cases),
         NEW case \in cases, case.terms # {}, NEW blocks, Covers(blocks, case, c)
  PROVE  /\ BatchRow(case, Found(blocks, case)) = Score(case, TRUE, Unit)
         /\ CaseRow(case, Found(blocks, case)) = Score(case, TRUE, Unit)
<1> DEFINE found == Found(blocks, case)
<1>1. CASE ~case.present
  <2>1. Holding(case, c) = {}
    BY <1>1, TruthIs
  <2>2. found = {}
    BY <2>1 DEF Found, Holding, Covers
  <2>3. AllOrNothing(case, found = {}) = Score(case, TRUE, Unit)
    BY <2>2 DEF AllOrNothing, Score
  <2> QED
    BY <1>1, <2>3 DEF BatchRow, CaseRow
<1>2. CASE case.present
  <2> DEFINE n == Cardinality(case.terms)
  <2>1. MatchedTerms(case, found) = case.terms /\ MatchedAssets(case, found) = case.assets
    BY <1>2, HitsAreTargets
  <2>2. n \in Nat /\ n # 0
    <3>1. IsFiniteSet(case.terms)
      BY CasesAssumption
    <3> QED
      BY <3>1, FS_CardinalityType, FS_EmptySet
  <2> HIDE DEF found
  <2>3. TermRecall(case, found) = Unit
    <3>1. TermRecall(case, found) = (Unit * n) \div n
      BY <2>1 DEF TermRecall
    <3> HIDE DEF n
    <3>2. (60 * n) \div n = 60
      BY <2>2
    <3> QED
      BY <3>1, <3>2 DEF Unit
  <2>4. RecoversTerms(case, found)
    <3>1. TermsFound(case, found)
      BY <2>1 DEF TermsFound
    <3>2. Cardinality(MatchedAssets(case, found)) >= AssetsNeeded(case)
      BY <1>2, <2>1, AssetsSuffice
    <3> QED
      BY <3>1, <3>2 DEF RecoversTerms
  <2>5. Score(case, RecoversTerms(case, found), TermRecall(case, found)) = Score(case, TRUE, Unit)
    <3>1. RecoversTerms(case, found) = TRUE
      BY <2>4 DEF RecoversTerms
    <3> QED
      BY <2>3, <3>1 DEF Score
  <2> QED
    BY <1>2, <2>5 DEF BatchRow, CaseRow, found
<1> QED
  BY <1>1, <1>2

-----------------------------------------------------------------------------
\* What the reports of full scores say.

FullScores(questions) == {Score(q, TRUE, Unit) : q \in questions}
FullTasks(questions) == {[case |-> q, row |-> TaskRow(q, FALSE, q.max)] : q \in questions}

FullReport(needle) ==
  /\ {needle.present, needle.negatives} \subseteq Nat
  /\ needle.recovered = needle.present /\ needle.rejected = needle.negatives
  /\ needle.share = Unit * needle.present /\ needle.unsupported = 0

LEMMA ScoresAreFull ==
  ASSUME NEW questions, IsFiniteSet(questions), NEW rows \in SUBSET FullScores(questions)
  PROVE  FullReport(NeedleReport(rows, 0))
<1> DEFINE present == {r \in rows : r.case.present}
           negatives == rows \ present
           share == FoldSet(LAMBDA r, sum : sum + r.share, 0, present)
           report == NeedleReport(rows, 0)
<1>1. IsFiniteSet(rows)
  <2> DEFINE f == [q \in questions |-> Score(q, TRUE, Unit)]
  <2>1. f \in Surjection(questions, FullScores(questions))
    BY DEF Surjection, FullScores
  <2>2. IsFiniteSet(FullScores(questions))
    BY <2>1, FS_Surjection
  <2> QED
    BY <2>2, FS_Subset
<1>2. \A r \in rows : r.recovered = TRUE /\ r.share = Unit
  BY DEF FullScores, Score
<1>3. IsFiniteSet(present) /\ IsFiniteSet(negatives)
  BY <1>1, FS_Subset
<1>4. {x \in present : x.recovered} = present /\ {x \in negatives : x.recovered} = negatives
  BY <1>2
<1>5. share = Unit * Cardinality(present)
  <2>1. Unit \in Nat /\ \A r \in present : r.share = Unit
    BY <1>2 DEF Unit
  <2> HIDE DEF present
  <2> QED
    BY <1>3, <2>1, SharesAdd
<1>6. report = [present |-> Cardinality(present), recovered |-> Cardinality({x \in present : x.recovered}),
                share |-> share, negatives |-> Cardinality(negatives),
                rejected |-> Cardinality({x \in negatives : x.recovered}), unsupported |-> 0]
  BY DEF NeedleReport, Count
<1>7. Cardinality(present) \in Nat /\ Cardinality(negatives) \in Nat
  BY <1>3, FS_CardinalityType
<1> DEFINE n == Cardinality(present)
           m == Cardinality(negatives)
<1>8. report = [present |-> n, recovered |-> n, share |-> Unit * n, negatives |-> m,
                rejected |-> m, unsupported |-> 0]
  BY <1>4, <1>5, <1>6
<1> HIDE DEF n, m, report
<1>9. /\ report.present = n /\ report.recovered = n /\ report.share = Unit * n
      /\ report.negatives = m /\ report.rejected = m /\ report.unsupported = 0
  BY <1>8
<1>10. n \in Nat /\ m \in Nat
  BY <1>7 DEF n, m
<1>11. FullReport(report)
  BY <1>9, <1>10 DEF FullReport
<1> QED
  BY <1>11 DEF report

LEMMA AllReach ==
  ASSUME NEW n \in Nat, NEW percent \in 0 .. 100
  PROVE  Reaches(n, n, percent)
<1> DEFINE rest == 100 - percent
<1>1. rest \in Nat
  OBVIOUS
<1>2. rest * n >= 0
  <2> HIDE DEF rest
  <2> QED
    BY <1>1
<1>3. percent \in Int /\ 100 * n = percent * n + rest * n
  OBVIOUS
<1>4. 100 * n \in Int /\ percent * n \in Int /\ rest * n \in Int
  OBVIOUS
<1> HIDE DEF rest
<1> QED
  BY <1>2, <1>3, <1>4 DEF Reaches

LEMMA FullReaches ==
  ASSUME NEW needle, FullReport(needle), NEW percent \in 0 .. 100
  PROVE  /\ Reaches(needle.recovered, needle.present, percent)
         /\ Reaches(needle.share, Unit * needle.present, percent)
         /\ Reaches(needle.rejected, needle.negatives, percent)
<1>1. needle.present \in Nat /\ needle.negatives \in Nat /\ Unit * needle.present \in Nat
  BY DEF FullReport, Unit
<1> QED
  BY <1>1, AllReach DEF FullReport

\* Right answers to tasks that can be answered are accurate.
LEMMA TasksAreAccurate ==
  ASSUME NEW questions \in SUBSET Tasks, Answerable, NEW rows \in SUBSET FullTasks(questions),
         rows # {}, NEW percent \in 0 .. 100
  PROVE  AccuracyReaches(Baseline({r.row : r \in rows}), percent)
<1> DEFINE S == {r.row : r \in rows}
           completed == {r \in S : ~r.blocked}
           correct == {r \in completed : r.correct}
           baseline == Baseline(S)
<1>1. IsFiniteSet(questions)
  BY HarnessAssumption, FS_Subset
<1>2. IsFiniteSet(rows)
  <2> DEFINE f == [q \in questions |-> [case |-> q, row |-> TaskRow(q, FALSE, q.max)]]
  <2>1. f \in Surjection(questions, FullTasks(questions))
    BY DEF Surjection, FullTasks
  <2>2. IsFiniteSet(FullTasks(questions))
    BY <1>1, <2>1, FS_Surjection
  <2> QED
    BY <2>2, FS_Subset
<1>3. IsFiniteSet(S)
  <2> DEFINE f == [r \in rows |-> r.row]
  <2>1. f \in Surjection(rows, S)
    BY DEF Surjection
  <2> QED
    BY <1>2, <2>1, FS_Surjection
<1>4. \A r \in S : r.blocked = FALSE /\ r.correct = TRUE
  <2>1. ASSUME NEW r \in rows PROVE r.row.blocked = FALSE /\ r.row.correct = TRUE
    <3>1. PICK q \in questions : r = [case |-> q, row |-> TaskRow(q, FALSE, q.max)]
      BY DEF FullTasks
    <3>2. r.row = TaskRow(q, FALSE, q.max)
      BY <3>1
    <3>3. q.max \in Int /\ q.min \in Int /\ q.min <= q.max
      BY CasesAssumption DEF Answerable
    <3>4. ScoreIsCorrect(q, q.max)
      BY <3>3 DEF ScoreIsCorrect
    <3>5. (~FALSE /\ ScoreIsCorrect(q, q.max)) = TRUE
      BY <3>4 DEF ScoreIsCorrect
    <3>6. TaskRow(q, FALSE, q.max) = [task |-> q, blocked |-> FALSE, correct |-> TRUE]
      BY <3>5 DEF TaskRow
    <3> DEFINE row == r.row
    <3>7. row = [task |-> q, blocked |-> FALSE, correct |-> TRUE]
      BY <3>2, <3>6, Zenon
    <3> HIDE DEF row
    <3>8. row.blocked = FALSE /\ row.correct = TRUE
      BY <3>7
    <3> QED
      BY <3>8 DEF row
  <2> QED
    BY <2>1
<1>5. completed = S /\ correct = S
  BY <1>4
<1>6. baseline.completed = Cardinality(completed) /\ baseline.correct = Cardinality(correct)
  BY DEF Baseline
<1>7. Cardinality(S) \in Nat /\ Cardinality(S) > 0
  <2>1. S # {}
    OBVIOUS
  <2> HIDE DEF S
  <2> QED
    BY <1>3, <2>1, FS_CardinalityType, FS_EmptySet
<1> HIDE DEF S, completed, correct, baseline
<1>8. Reaches(baseline.correct, baseline.completed, percent)
  BY <1>5, <1>6, <1>7, AllReach
<1> QED
  BY <1>5, <1>6, <1>7, <1>8 DEF AccuracyReaches, baseline, S

-----------------------------------------------------------------------------
\* A run that nothing disturbs.

Calm == budget.faults = 0 /\ budget.changes = 0

\* Gate 2 has passed wherever the run asks something.
Qualified ==
  /\ run.pc = "idle" => run.rows = {} /\ run.unsupported = 0 /\ run.points = <<>>
  /\ run.pc \in {"idle", "needles", "tasks"} => run.snapshot = NoValue
  /\ run.pc \notin {"idle", "done"} \/ run.snapshot # NoValue => \A c \in run.cases : c.terms # {}

\* Without another ingest the store has the blocks of the corpus, and so has a projection.
Untouched ==
  budget.changes = 0 =>
    /\ payload = corpus.blocks /\ ~run.replaced
    /\ run.pc \in {"pointNeedles", "pointTasks"} => run.projected.blocks \subseteq corpus.blocks

\* What a step other than an ingest or a start leaves alone.
Continues ==
  /\ UNCHANGED <<corpus, payload>>
  /\ run'.cases = run.cases /\ run'.route = run.route /\ run'.replaced = run.replaced
  /\ budget'.changes = budget.changes
  /\ Gate3 \/ (run'.snapshot = run.snapshot /\ run'.gate3 = run.gate3)
  /\ ProjectedStays \/ StartPoint
  /\ run'.pc = run.pc \/ (pool = NoValue /\ pool' = NoValue)

LEMMA StepsContinue ==
  ASSUME HarnessShape, HarnessNext, ~Ingest, ~Start
  PROVE  Continues
<1>1. DOMAIN run = Fields /\ DOMAIN budget = {"faults", "changes"}
  BY DEF HarnessShape, RunFits, BudgetFits
<1>. USE DEF Continues, ProjectedStays
<1>2. CASE MakePlan \/ Traverse \/ SkipBlock
  BY <1>2 DEF MakePlan, Traverse, SkipBlock
<1>3. CASE Answer \/ FailCall
  <2>1. UNCHANGED <<corpus, payload, run>> /\ \E n : budget' = [budget EXCEPT !.faults = n]
    BY <1>3 DEF Answer, FailCall, Spend
  <2> QED
    BY <1>1, <2>1
<1>4. CASE ScoreNeedles
  BY <1>1, <1>4, ScoreNeedlesWrites, FieldsAre DEF Keeps
<1>5. CASE EvaluationRaises
  <2>1. /\ Keeps({"rows", "unsupported", "missed", "lost"})
        /\ budget' = [budget EXCEPT !.faults = @ + 1] /\ UNCHANGED <<corpus, payload, plan>>
    BY <1>1, <1>5, EvaluationRaisesWrites
  <2>2. budget'.changes = budget.changes
    BY <1>1, <2>1
  <2> QED
    BY <2>1, <2>2, FieldsAre DEF Keeps
<1>6. CASE ScoreTasks
  <2>1. /\ Keeps({"rows", "missed", "lost"}) /\ UNCHANGED <<corpus, payload, plan>>
        /\ \E n : budget' = [budget EXCEPT !.faults = n]
    BY <1>1, <1>6, ScoreTasksWrites
  <2>2. budget'.changes = budget.changes
    BY <1>1, <2>1
  <2> QED
    BY <2>1, <2>2, FieldsAre DEF Keeps
<1>7. CASE NeedlesDone
  BY <1>1, <1>7, NeedlesDoneWrites, FieldsAre DEF Keeps, OnlyRun
<1>8. CASE Gate3
  BY <1>1, <1>8, Gate3Writes, FieldsAre DEF Keeps, OnlyRun
<1>9. CASE StartScale
  BY <1>1, <1>9, StartScaleWrites, NoPoolBetween, FieldsAre DEF Keeps, OnlyRun
<1>10. CASE RejectPoint
  BY <1>1, <1>10, RejectPointWrites, NoPoolBetween, FieldsAre DEF Keeps, OnlyRun
<1>11. CASE BlockPoint
  BY <1>1, <1>11, BlockPointWrites, FieldsAre DEF Keeps, OnlyRun
<1>12. CASE StartPoint
  BY <1>1, <1>12, StartPointWrites, NoPoolBetween, FieldsAre DEF Keeps, OnlyRun
<1>13. CASE PointNeedlesDone
  BY <1>1, <1>13, PointNeedlesDoneWrites, FieldsAre DEF Keeps, OnlyRun
<1>14. CASE FinishPoint
  BY <1>1, <1>14, FinishPointWrites, FieldsAre DEF Keeps, OnlyRun
<1>15. CASE Gate4
  BY <1>1, <1>15, Gate4Writes, NoPoolBetween, FieldsAre DEF Keeps, OnlyRun
<1>16. CASE Conclude
  BY <1>1, <1>16, ConcludeWrites, NoPoolBetween, FieldsAre DEF Keeps, OnlyRun
<1> QED
  BY <1>2, <1>3, <1>4, <1>5, <1>6, <1>7, <1>8, <1>9, <1>10, <1>11, <1>12, <1>13, <1>14, <1>15,
     <1>16 DEF HarnessNext

\* A step to a calm state comes from one.
LEMMA CalmBefore ==
  ASSUME HarnessShape, HarnessNext, Calm'
  PROVE  Calm /\ ~Ingest /\ UNCHANGED budget
<1>1. /\ budget.faults \in Nat /\ budget.changes \in Nat /\ DOMAIN run = Fields
      /\ budget \in [faults : 0 .. MaxFaults, changes : 0 .. MaxChanges]
  BY DEF HarnessShape, RunFits, BudgetFits
<1>2. ~Ingest
  <2> SUFFICES ASSUME Ingest PROVE FALSE
    OBVIOUS
  <2>1. budget' = [budget EXCEPT !.changes = @ + 1]
    BY <1>1, IngestWrites
  <2> QED
    BY <1>1, <2>1 DEF Calm
<1>3. ASSUME NEW n \in Nat, budget' = [budget EXCEPT !.faults = @ + n] PROVE Calm /\ UNCHANGED budget
  <2>1. budget'.faults = budget.faults + n /\ budget'.changes = budget.changes
    BY <1>1, <1>3
  <2>2. budget.faults = 0 /\ n = 0 /\ budget.changes = 0
    BY <1>1, <2>1 DEF Calm
  <2>3. [budget EXCEPT !.faults = @ + 0] = budget
    BY <1>1
  <2> QED
    BY <1>3, <2>2, <2>3 DEF Calm
<1>4. CASE UNCHANGED budget
  BY <1>2, <1>4 DEF Calm
<1>5. CASE Answer \/ FailCall
  <2>1. \E n \in {0, 1} : Spend("faults", n)
    BY <1>5 DEF Answer, FailCall
  <2>2. PICK n \in {0, 1} : budget' = [budget EXCEPT !.faults = @ + n]
    BY <2>1 DEF Spend
  <2> QED
    BY <1>2, <1>3, <2>2
<1>6. CASE EvaluationRaises
  BY <1>1, <1>2, <1>3, <1>6, EvaluationRaisesWrites
<1>7. CASE ScoreTasks
  <2>1. PICK W \in SUBSET pool.questions, R \in SUBSET pool.questions :
          budget' = [budget EXCEPT !.faults = @ + (Cardinality(W) + Cardinality(R))]
    BY <1>1, <1>7, ScoreTasksWrites
  <2>2. IsFiniteSet(pool.questions)
    BY <1>1, <1>7, ScoreTasksWrites DEF ResultsDone, HarnessShape, PoolFits
  <2>3. Cardinality(W) + Cardinality(R) \in Nat
    BY <2>2, FS_Subset, FS_CardinalityType
  <2> DEFINE n == Cardinality(W) + Cardinality(R)
  <2>4. n \in Nat /\ budget' = [budget EXCEPT !.faults = @ + n]
    BY <2>1, <2>3
  <2> HIDE DEF n
  <2> QED
    BY <1>2, <1>3, <2>4
<1>8. Ingest \/ UNCHANGED budget \/ Answer \/ FailCall \/ EvaluationRaises \/ ScoreTasks
  BY DEF HarnessNext, MakePlan, Start, Traverse, SkipBlock, ScoreNeedles, NeedlesDone, Gate3,
     StartScale, RejectPoint, BlockPoint, StartPoint, PointNeedlesDone, FinishPoint, Gate4, Conclude
<1> QED
  BY <1>2, <1>4, <1>5, <1>6, <1>7, <1>8

-----------------------------------------------------------------------------
\* Gate 2 has passed.

LEMMA Gate2Terms ==
  ASSUME NEW cases, NEW c, NEW spec, Gate2Blockers(cases, c, spec) = {}
  PROVE  \A case \in cases : case.terms # {}
  BY Zenon DEF Gate2Blockers

LEMMA QualifiedInit == HarnessInit => Qualified
  BY DEF HarnessInit, NewRun, Qualified

LEMMA StartQualifies == ASSUME HarnessShape, Qualified, Start PROVE Qualified'
<1>1. DOMAIN run = Fields
  BY DEF HarnessShape, RunFits
<1>2. PICK cases \in Matrices, route \in Routes :
        LET qualified == /\ Gate1Blockers(corpus, Gate1Spec) = {}
                         /\ Gate2Blockers(cases, corpus, Gate2Spec) = {}
        IN run' = [run EXCEPT !.pc = IF qualified THEN "needles" ELSE "done", !.cases = cases,
                              !.route = route]
  BY DEF Start
<1> DEFINE qualified == /\ Gate1Blockers(corpus, Gate1Spec) = {}
                        /\ Gate2Blockers(cases, corpus, Gate2Spec) = {}
<1>3. run' = [run EXCEPT !.pc = IF qualified THEN "needles" ELSE "done", !.cases = cases,
                         !.route = route]
  BY <1>2
<1>4. qualified => \A case \in cases : case.terms # {}
  BY Gate2Terms
<1>5. run.pc = "idle"
  BY DEF Start
<1> HIDE DEF qualified
<1>6. /\ run'.cases = cases /\ run'.snapshot = run.snapshot
      /\ run'.pc = IF qualified THEN "needles" ELSE "done"
  BY <1>1, <1>3, FieldsAre
<1> QED
  BY <1>4, <1>5, <1>6 DEF Qualified

LEMMA QualifiedNext == HarnessShape /\ Qualified /\ [HarnessNext]_harnessVars => Qualified'
<1> SUFFICES ASSUME HarnessShape, Qualified, [HarnessNext]_harnessVars
             PROVE  Qualified'
  OBVIOUS
<1>0. DOMAIN run = Fields
  BY DEF HarnessShape, RunFits
<1>1. CASE UNCHANGED harnessVars
  BY <1>1 DEF harnessVars, Qualified
<1>2. CASE MakePlan
  BY <1>2 DEF MakePlan, Qualified
<1>3. CASE Ingest
  <2>1. Keeps({"replaced"})
    BY <1>0, <1>3, IngestWrites
  <2> QED
    BY <2>1, FieldsAre DEF Keeps, Qualified
<1>4. CASE Start
  BY <1>4, StartQualifies
<1>5. CASE Gate3
  <2>1. run.pc = "tasks" /\ run'.pc \in {"scale", "drift"} /\ run'.cases = run.cases
    BY <1>0, <1>5, Gate3Writes, FieldsAre DEF Keeps
  <2> QED
    BY <2>1 DEF Qualified
<1>6. CASE StartScale
  <2>1. run.pc = "scale" /\ run'.pc \in {"point", "rejected"} /\ run'.cases = run.cases
    BY <1>0, <1>6, StartScaleWrites, FieldsAre DEF Keeps
  <2> QED
    BY <2>1 DEF Qualified
<1>7. CASE HarnessNext /\ ~MakePlan /\ ~Ingest /\ ~Start /\ ~Gate3 /\ ~StartScale
  <2>1. run'.snapshot = run.snapshot /\ run'.cases = run.cases
    BY <1>7, StepsContinue DEF Continues
  <2>2. CASE run.pc = "idle"
    <3>1. UNCHANGED run
      <4> USE <2>2, <1>0 DEF HarnessShape, PoolFits, Traversals
      <4>1. pool = NoValue
        OBVIOUS
      <4> QED
        BY <1>7, <4>1, PoolStepsKeepRun, ScoreNeedlesWrites, EvaluationRaisesWrites, ScoreTasksWrites,
           NeedlesDoneWrites, RejectPointWrites, BlockPointWrites, StartPointWrites,
           PointNeedlesDoneWrites, FinishPointWrites, Gate4Writes, ConcludeWrites
           DEF HarnessNext, ResultsDone
    <3> QED
      BY <3>1 DEF Qualified
  <2>3. CASE run.pc # "idle"
    <3>1. Moves
      BY <1>7, StepsMove
    <3>2. run'.pc # "idle" /\ (run'.pc \in {"needles", "tasks"} => run.pc \in {"needles", "tasks"})
      BY <2>3, <3>1 DEF Moves, AtPoint
    <3>3. run'.pc # "done" => run.pc # "done"
      BY <3>1 DEF Moves, AtPoint
    <3> QED
      BY <2>1, <2>3, <3>2, <3>3 DEF Qualified
  <2> QED
    BY <2>2, <2>3
<1> QED
  BY <1>1, <1>2, <1>3, <1>4, <1>5, <1>6, <1>7

LEMMA QualifiedAlways == HarnessSpec => []Qualified
  BY ShapeAlways, QualifiedInit, QualifiedNext, PTL DEF HarnessSpec

-----------------------------------------------------------------------------
\* Without another ingest.

LEMMA UntouchedInit == HarnessInit => Untouched
  BY DEF HarnessInit, NewRun, Untouched

LEMMA UntouchedNext == HarnessShape /\ Untouched /\ [HarnessNext]_harnessVars => Untouched'
<1> SUFFICES ASSUME HarnessShape, Untouched, [HarnessNext]_harnessVars
             PROVE  Untouched'
  OBVIOUS
<1>0. DOMAIN run = Fields
  BY DEF HarnessShape, RunFits
<1>1. CASE UNCHANGED harnessVars
  BY <1>1 DEF harnessVars, Untouched
<1>2. CASE Ingest
  <2>1. budget' = [budget EXCEPT !.changes = @ + 1] /\ budget.changes \in Nat
        /\ DOMAIN budget = {"faults", "changes"}
    BY <1>0, <1>2, IngestWrites DEF HarnessShape, BudgetFits
  <2>2. budget'.changes # 0
    BY <2>1
  <2> QED
    BY <2>2 DEF Untouched
<1>3. CASE Start
  <2>1. OnlyRun /\ run'.replaced = run.replaced /\ run'.pc \in {"needles", "done"}
    BY <1>0, <1>3, StartWrites, FieldsAre DEF Keeps, OnlyRun
  <2> QED
    BY <2>1 DEF Untouched, OnlyRun
<1>4. CASE HarnessNext /\ ~Ingest /\ ~Start
  <2>1. Continues
    BY <1>4, StepsContinue
  <2>2. CASE ProjectedStays
    BY <2>1, <2>2 DEF Continues, Untouched, ProjectedStays
  <2>3. CASE StartPoint
    <3>1. PICK p \in PointsFor(Ratio) : run'.projected = Materialized(p)
      BY <1>0, <2>3, StartPointWrites
    <3>2. run'.projected.blocks \subseteq payload
      BY <3>1 DEF Materialized
    <3> QED
      BY <2>1, <3>2 DEF Continues, Untouched
  <2> QED
    BY <2>1, <2>2, <2>3 DEF Continues
<1> QED
  BY <1>1, <1>2, <1>3, <1>4

LEMMA UntouchedAlways == HarnessSpec => []Untouched
  BY ShapeAlways, UntouchedInit, UntouchedNext, PTL DEF HarnessSpec

-----------------------------------------------------------------------------
\* A faithful run: no call fails, nothing is ingested, and the matrix and the tasks can be
\* answered.

Faithful ==
  /\ Calm /\ {b.modality : b \in corpus.blocks} \subseteq run.route.reads
  /\ Modern(run.cases) /\ Truthful(run.cases, corpus) /\ Answerable

PoolFaithful ==
  pool # NoValue =>
    /\ pool.blocks = Traversed.blocks /\ pool.questions \subseteq Questions
    /\ \A b \in pool.blocks : pool.results[b.id] \in {"", "right"} /\ pool.attempts[b.id] = 0

RowsFaithful ==
  /\ run.unsupported = 0
  /\ run.pc \in {"needles", "pointNeedles"} => run.rows \subseteq FullScores(Questions)
  /\ run.pc \in {"tasks", "pointTasks"} =>
       run.rows \subseteq FullTasks(Questions) /\ FullReport(run.needle)
  /\ run.pc \notin Traversals => run.rows = {}

GatesFaithful ==
  /\ run.snapshot # NoValue => run.gate3
  /\ \A i \in DOMAIN run.points : run.points[i].status \in {"pass", "blocked"}

FaithfulRun == Faithful => PoolFaithful /\ RowsFaithful /\ GatesFaithful

\* What is known of the run before.
Known == HarnessShape /\ PanelFits /\ PointsFit /\ Qualified /\ Untouched

LEMMA FaithfulBefore ==
  ASSUME HarnessShape, HarnessNext, ~Start, Faithful'
  PROVE  Faithful /\ Continues /\ UNCHANGED budget
<1>1. Calm' /\ Answerable
  BY DEF Faithful
<1>2. Calm /\ ~Ingest /\ UNCHANGED budget
  BY <1>1, CalmBefore
<1>3. Continues
  BY <1>2, StepsContinue
<1> QED
  BY <1>2, <1>3 DEF Faithful, Continues

\* The cases of the panel are in the matrix, and their blocks in the projection.
LEMMA PanelIsCovered ==
  ASSUME Known, Calm, run.pc \in {"pointNeedles", "pointTasks"}
  PROVE  /\ run.panel \subseteq run.cases
         /\ \A c \in run.panel : Covers(run.projected.blocks, c, corpus)
<1> DEFINE i == Len(run.points) + 1
           ids == run.projected.point.ids
<1>1. HarnessShape /\ PanelFits /\ PointsFit /\ Untouched
  BY DEF Known
<1>2. run.chosenFrom # NoValue
  BY <1>1 DEF PanelFits
<1>3. ~run.replaced /\ payload = corpus.blocks /\ run.projected.blocks \subseteq corpus.blocks
  BY <1>1 DEF Untouched, Calm
<1>4. run.chosenFrom = corpus /\ corpus \in Corpora
      /\ run.panel = PanelOf(corpus, run.cases, ScaleSpec)
  BY <1>1, <1>2, <1>3 DEF PanelFits
<1>5. run.cases \in Matrices
  BY <1>1 DEF HarnessShape, RunFits
<1>6. run.panel \subseteq run.cases
  BY <1>4, <1>5, PanelIsOfCases
<1>7. ComesFrom(ids, FALSE, i)
  BY <1>1 DEF PointsFit
<1>8. i \in DOMAIN ScaleSpec.ratios
  BY <1>1, HarnessAssumption DEF HarnessShape, RunFits, AllPoints
<1> HIDE DEF i, ids
<1>9. AnchorBlocks(corpus, run.panel) \subseteq ids
  BY <1>1, <1>2, <1>3, <1>4, <1>7, <1>8, PointHasAnchors
<1>10. ASSUME NEW c \in run.panel, NEW b \in corpus.blocks, b.id \in c.blocks
       PROVE  b \in run.projected.blocks
  <2>1. b.id \in BlockIds(corpus)
    BY DEF BlockIds
  <2>2. b.id \in ids
    BY <1>9, <1>10, <2>1, ExactAreAnchors
  <2> QED
    BY <1>1, <1>3, <1>4, <2>2 DEF PointsFit, ids
<1> QED
  BY <1>3, <1>6, <1>10 DEF Covers

\* Whatever is traversed are blocks of the corpus, with all that a case needs.
LEMMA TraversedIs ==
  ASSUME Known, Calm, run.pc \in Traversals
  PROVE  /\ Traversed.blocks \subseteq corpus.blocks
         /\ IsFiniteSet(Questions) /\ \A q \in Questions : q.id \in Int
         /\ run.pc \in {"needles", "pointNeedles"} =>
              \A q \in Questions :
                q \in run.cases /\ q.terms # {} /\ Covers(Traversed.blocks, q, corpus)
         /\ run.pc \in {"tasks", "pointTasks"} => Questions \subseteq Tasks
<1>1. HarnessShape /\ Qualified /\ Untouched
  BY DEF Known
<1>2. run.cases \in Matrices /\ corpus \in Corpora
  BY <1>1 DEF HarnessShape, RunFits, StoreFits, Traversals
<1>3. \A c \in run.cases : c.terms # {}
  BY <1>1 DEF Qualified, Traversals
<1>4. CASE run.pc = "needles"
  <2>1. Questions = run.cases
    BY <1>4, Zenon DEF Questions
  <2>2. Traversed = corpus
    BY <1>4 DEF Traversed
  <2> QED
    BY <1>2, <1>3, <1>4, <2>1, <2>2, HarnessAssumption, CasesAssumption DEF Covers
<1>5. CASE run.pc = "pointNeedles"
  <2>1. Questions = run.panel
    <3>1. run.pc # "needles"
      BY <1>5
    <3> QED
      BY <1>5, <3>1 DEF Questions
  <2>2. Traversed = run.projected
    BY <1>5 DEF Traversed
  <2>3. run.panel \subseteq run.cases /\ \A c \in run.panel : Covers(run.projected.blocks, c, corpus)
    BY <1>5, PanelIsCovered
  <2>4. IsFiniteSet(run.panel)
    BY <1>2, <2>3, HarnessAssumption, FS_Subset
  <2>5. run.projected.blocks \subseteq corpus.blocks
    BY <1>1, <1>5 DEF Untouched, Calm
  <2> QED
    BY <1>2, <1>3, <1>5, <2>1, <2>2, <2>3, <2>4, <2>5, CasesAssumption
<1>6. CASE run.pc \in {"tasks", "pointTasks"}
  <2>1. Questions \subseteq Tasks
    BY <1>6 DEF Questions
  <2>2. IsFiniteSet(Questions)
    BY <2>1, HarnessAssumption, FS_Subset
  <2>3. Traversed.blocks \subseteq corpus.blocks
    BY <1>1, <1>6 DEF Traversed, Untouched, Calm
  <2> QED
    BY <1>6, <2>1, <2>2, <2>3, CasesAssumption
<1> QED
  BY <1>4, <1>5, <1>6 DEF Traversals

\* A pool is of a traversal.
LEMMA PoolIs ==
  ASSUME HarnessShape, pool # NoValue
  PROVE  /\ run.pc \in Traversals
         /\ DOMAIN pool = {"blocks", "questions", "results", "attempts"}
         /\ pool.attempts \in [{b.id : b \in pool.blocks} -> 0 .. Attempts - 1]
         /\ pool.results \in [{b.id : b \in pool.blocks} -> Results]
  BY DEF HarnessShape, PoolFits

-----------------------------------------------------------------------------
\* The steps of a traversal of a faithful run.

\* A step of the pool: nothing else changes.
LEMMA PoolStepFaithful ==
  ASSUME FaithfulRun, Faithful, UNCHANGED <<corpus, run>>, PoolFaithful'
  PROVE  FaithfulRun'
  BY DEF FaithfulRun, RowsFaithful, GatesFaithful, Questions

LEMMA TraverseFaithful ==
  ASSUME Known, FaithfulRun, Faithful, Traverse PROVE FaithfulRun'
<1> DEFINE first == CHOOSE q \in Unasked : \A r \in Unasked : q.id <= r.id
           asked == IF run.route.batch THEN Unasked ELSE {first}
           none == [id \in BlockIds(Traversed) |-> ""]
           fresh == [id \in BlockIds(Traversed) |-> 0]
<1>1. /\ run.pc \in Traversals /\ Unasked # {} /\ UNCHANGED <<corpus, payload, plan, run, budget>>
      /\ pool' = [blocks |-> Traversed.blocks, questions |-> asked, results |-> none,
                  attempts |-> fresh]
  BY DEF Traverse
<1>2. IsFiniteSet(Questions) /\ \A q \in Questions : q.id \in Int
  BY <1>1, TraversedIs DEF Faithful
<1>3. Unasked \subseteq Questions /\ IsFiniteSet(Unasked)
  BY <1>2, FS_Subset DEF Unasked
<1>4. first \in Unasked
  BY <1>1, <1>2, <1>3, FirstById
<1>5. asked \subseteq Questions
  BY <1>3, <1>4
<1>6. \A b \in Traversed.blocks : none[b.id] = "" /\ fresh[b.id] = 0
  BY DEF BlockIds
<1> HIDE DEF asked, none, fresh
<1>7. pool'.blocks = Traversed.blocks /\ pool'.questions = asked
      /\ pool'.results = none /\ pool'.attempts = fresh
  BY <1>1
<1>8. Traversed' = Traversed /\ Questions' = Questions
  BY <1>1 DEF Traversed, Questions
<1>9. PoolFaithful'
  BY <1>5, <1>6, <1>7, <1>8 DEF PoolFaithful
<1> QED
  BY <1>1, <1>9, PoolStepFaithful

\* The blocks of a faithful traversal can be read.
LEMMA AllAreRead ==
  ASSUME Known, FaithfulRun, Faithful, NEW b \in InFlight
  PROVE  /\ pool # NoValue /\ b \in pool.blocks /\ ~Unsupported(b) /\ pool.attempts[b.id] = 0
         /\ PoolFaithful
<1>1. pool # NoValue /\ b \in pool.blocks /\ PoolFaithful /\ HarnessShape
  BY InFlightIsThere DEF FaithfulRun, Known
<1>2. run.pc \in Traversals
  BY <1>1, PoolIs
<1>3. b \in corpus.blocks
  BY <1>1, <1>2, TraversedIs DEF PoolFaithful, Faithful
<1> QED
  BY <1>1, <1>3 DEF PoolFaithful, Unsupported, Faithful

LEMMA SkipBlockFaithful == ASSUME Known, FaithfulRun, Faithful, SkipBlock PROVE FALSE
  BY AllAreRead DEF SkipBlock

LEMMA FaultIsCounted ==
  ASSUME HarnessShape, Spend("faults", 1) PROVE budget' # budget
<1>1. budget \in [faults : 0 .. MaxFaults, changes : 0 .. MaxChanges]
  BY DEF HarnessShape, BudgetFits
<1>2. budget.faults \in Int /\ budget'.faults = budget.faults + 1
  BY <1>1 DEF Spend
<1> QED
  BY <1>2

LEMMA FailCallFaithful == ASSUME Known, FaithfulRun, Faithful, FailCall, UNCHANGED budget PROVE FALSE
<1>1. PICK b \in InFlight : Spend("faults", IF pool.attempts[b.id] > 0 THEN 0 ELSE 1)
  BY DEF FailCall
<1>2. pool.attempts[b.id] = 0
  BY AllAreRead
<1>3. ~(pool.attempts[b.id] > 0)
  BY <1>2
<1>4. Spend("faults", 1)
  BY <1>1, <1>3
<1> QED
  BY <1>4, FaultIsCounted DEF Known

LEMMA AnswerFaithful ==
  ASSUME Known, FaithfulRun, Faithful, Answer, UNCHANGED budget PROVE FaithfulRun'
<1>1. PICK b \in InFlight, answer \in {"right", "nothing", "everything"} :
        Deliver(b, answer) /\ Spend("faults", IF answer = "right" THEN 0 ELSE 1)
  BY DEF Answer
<1>2. UNCHANGED <<corpus, payload, plan, run>>
  BY DEF Answer
<1>3. HarnessShape
  BY DEF Known
<1>4. answer = "right"
  <2> SUFFICES ASSUME answer # "right" PROVE FALSE
    OBVIOUS
  <2>1. Spend("faults", 1)
    BY <1>1
  <2> QED
    BY <1>3, <2>1, FaultIsCounted
<1>5. pool # NoValue /\ b \in pool.blocks /\ PoolFaithful
  BY AllAreRead
<1>6. /\ DOMAIN pool = {"blocks", "questions", "results", "attempts"}
      /\ pool.attempts \in [{d.id : d \in pool.blocks} -> 0 .. Attempts - 1]
      /\ pool.results \in [{d.id : d \in pool.blocks} -> Results]
  BY <1>3, <1>5, PoolIs
<1>7. pool' = [pool EXCEPT !.results[b.id] = "right", !.attempts[b.id] = 0]
  BY <1>1, <1>4 DEF Deliver
<1>8. /\ pool'.results = [pool.results EXCEPT ![b.id] = "right"]
      /\ pool'.attempts = [pool.attempts EXCEPT ![b.id] = 0]
      /\ pool'.blocks = pool.blocks /\ pool'.questions = pool.questions
  BY <1>6, <1>7
<1>9. ASSUME NEW d \in pool.blocks
      PROVE  pool'.results[d.id] \in {"", "right"} /\ pool'.attempts[d.id] = 0
  <2>1. pool.results[d.id] \in {"", "right"} /\ pool.attempts[d.id] = 0
    BY <1>5 DEF PoolFaithful
  <2>2. d.id \in DOMAIN pool.results /\ d.id \in DOMAIN pool.attempts
    BY <1>6
  <2>3. pool'.results[d.id] = IF d.id = b.id THEN "right" ELSE pool.results[d.id]
    BY <1>8, <2>2
  <2>4. pool'.attempts[d.id] = IF d.id = b.id THEN 0 ELSE pool.attempts[d.id]
    BY <1>8, <2>2
  <2> QED
    BY <2>1, <2>3, <2>4
<1>10. Traversed' = Traversed /\ Questions' = Questions
  BY <1>2 DEF Traversed, Questions
<1>11. PoolFaithful'
  BY <1>5, <1>8, <1>9, <1>10 DEF PoolFaithful
<1> QED
  BY <1>2, <1>11, PoolStepFaithful

\* When all results are there, they are right.
LEMMA ResultsAreRight ==
  ASSUME Known, FaithfulRun, Faithful, ResultsDone
  PROVE  /\ pool # NoValue /\ PoolFaithful /\ run.pc \in Traversals
         /\ (\A b \in pool.blocks : pool.results[b.id] = "right") /\ Uninspected = {}
<1>1. pool # NoValue /\ PoolFaithful /\ HarnessShape
  BY DEF ResultsDone, FaithfulRun, Known
<1>2. run.pc \in Traversals /\ pool.results \in [{b.id : b \in pool.blocks} -> Results]
  BY <1>1, PoolIs
<1>3. \A b \in pool.blocks : pool.results[b.id] = "right"
  BY <1>1 DEF ResultsDone, Pending, Finished, PoolFaithful
<1>4. Uninspected = {}
  BY <1>2, <1>3 DEF Uninspected
<1> QED
  BY <1>1, <1>2, <1>3, <1>4

-----------------------------------------------------------------------------
\* The scores of a faithful run.

NeedleRow(q) ==
  IF run.route.batch THEN BatchRow(q, Evidence(q, pool.results))
  ELSE CaseRow(q, Evidence(q, pool.results))

LEMMA NeedleRowsAdded ==
  ASSUME DOMAIN run = Fields, ScoreNeedles
  PROVE  run'.rows = run.rows \cup {NeedleRow(q) : q \in pool.questions}
<1> DEFINE unsupported == run.unsupported + IF Uninspected = {} THEN 0 ELSE Cardinality(pool.questions)
           added == {NeedleRow(q) : q \in pool.questions}
<1>1. run' = [run EXCEPT !.rows = run.rows \cup added, !.unsupported = unsupported,
                         !.missed = run.missed \cup Missed, !.lost = run.lost \cup Lost]
  BY FieldsAre DEF ScoreNeedles, NeedleRow
<1> HIDE DEF added, unsupported
<1>2. run'.rows = run.rows \cup added
  BY <1>1, FieldsAre
<1> QED
  BY <1>2 DEF added

LEMMA NeedleRowsAreFull ==
  ASSUME Known, FaithfulRun, Faithful, ScoreNeedles
  PROVE  {NeedleRow(q) : q \in pool.questions} \subseteq FullScores(Questions)
<1>1. run.pc \in {"needles", "pointNeedles"} /\ ResultsDone /\ DOMAIN run = Fields
  BY DEF ScoreNeedles, Known, HarnessShape, RunFits
<1>2. PoolFaithful /\ pool # NoValue /\ \A b \in pool.blocks : pool.results[b.id] = "right"
  BY <1>1, ResultsAreRight
<1>3. pool.blocks = Traversed.blocks /\ pool.questions \subseteq Questions
  BY <1>2 DEF PoolFaithful
<1>4. \A q \in Questions :
        q \in run.cases /\ q.terms # {} /\ Covers(pool.blocks, q, corpus)
  BY <1>1, <1>3, TraversedIs DEF Faithful, Traversals
<1>5. /\ Truthful(run.cases, corpus) /\ Modern(run.cases)
      /\ run.cases \in Matrices /\ corpus \in Corpora
  BY <1>1 DEF Faithful, Known, HarnessShape, RunFits, StoreFits
<1>6. ASSUME NEW q \in pool.questions PROVE NeedleRow(q) = Score(q, TRUE, Unit)
  <2>1. q \in run.cases /\ q.terms # {} /\ Covers(pool.blocks, q, corpus)
    BY <1>3, <1>4
  <2>2. Evidence(q, pool.results) = Found(pool.blocks, q)
    BY <1>2, RightIsFound
  <2>3. /\ BatchRow(q, Found(pool.blocks, q)) = Score(q, TRUE, Unit)
        /\ CaseRow(q, Found(pool.blocks, q)) = Score(q, TRUE, Unit)
    BY <1>5, <2>1, RightRow
  <2> QED
    BY <2>2, <2>3 DEF NeedleRow
<1> QED
  BY <1>3, <1>6 DEF FullScores

LEMMA ScoreNeedlesFaithful ==
  ASSUME Known, FaithfulRun, Faithful, ScoreNeedles
  PROVE  FaithfulRun'
<1>1. DOMAIN run = Fields
  BY DEF Known, HarnessShape, RunFits
<1>2. /\ run.pc \in {"needles", "pointNeedles"} /\ ResultsDone
      /\ Keeps({"rows", "unsupported", "missed", "lost"})
      /\ run'.unsupported =
           run.unsupported + IF Uninspected = {} THEN 0 ELSE Cardinality(pool.questions)
      /\ pool' = NoValue
  BY <1>1, ScoreNeedlesWrites
<1>3. Uninspected = {}
  BY <1>2, ResultsAreRight
<1>4. RowsFaithful /\ GatesFaithful
  BY DEF FaithfulRun
<1>5. run'.unsupported = 0
  BY <1>2, <1>3, <1>4 DEF RowsFaithful
<1>6. /\ run'.pc = run.pc /\ run'.cases = run.cases /\ run'.panel = run.panel
      /\ run'.snapshot = run.snapshot /\ run'.gate3 = run.gate3 /\ run'.points = run.points
  BY <1>2, FieldsAre DEF Keeps
<1>7. Questions' = Questions
  BY <1>6 DEF Questions
<1>8. run'.rows \subseteq FullScores(Questions')
  BY <1>1, <1>2, <1>4, <1>7, NeedleRowsAdded, NeedleRowsAreFull DEF RowsFaithful
<1>9. RowsFaithful'
  BY <1>2, <1>5, <1>6, <1>8 DEF RowsFaithful, Traversals
<1>10. PoolFaithful' /\ GatesFaithful'
  BY <1>2, <1>4, <1>6 DEF PoolFaithful, GatesFaithful
<1> QED
  BY <1>9, <1>10 DEF FaithfulRun

LEMMA EvaluationRaisesFaithful ==
  ASSUME HarnessShape, EvaluationRaises, UNCHANGED budget PROVE FALSE
  BY FaultIsCounted DEF EvaluationRaises

\* Tasks end right when no fault is counted.
LEMMA TaskRowsAreFull ==
  ASSUME Known, FaithfulRun, Faithful, ScoreTasks, UNCHANGED budget
  PROVE  run'.rows \subseteq run.rows \cup FullTasks(Questions)
<1> DEFINE By(ends, end) == {q \in pool.questions : ends[q] = end}
           blocked(ends, q) == Uninspected # {} \/ ends[q] = "raises"
           score(ends, q) == IF ends[q] = "wrong" THEN q.max + 1 ELSE q.max
           some(ends) == {m \in Missed : ~blocked(ends, m[1])}
           rows(ends) == {[case |-> q, row |-> TaskRow(q, blocked(ends, q), score(ends, q))] :
                            q \in pool.questions}
           faults(ends) == Cardinality(By(ends, "wrong")) + Cardinality(By(ends, "raises"))
<1>1. PICK ends \in [pool.questions -> {"right", "wrong", "raises"}] :
        /\ run' = [run EXCEPT !.rows = @ \cup rows(ends),
                    !.missed = @ \cup some(ends), !.lost = @ \cup Lost]
        /\ budget' = [budget EXCEPT !.faults = @ + faults(ends)]
  BY DEF ScoreTasks, Spend
<1>2. /\ run.pc \in {"tasks", "pointTasks"} /\ ResultsDone
      /\ DOMAIN run = Fields /\ HarnessShape
  BY DEF ScoreTasks, Known, HarnessShape, RunFits
<1>3. Uninspected = {} /\ pool # NoValue /\ pool.questions \subseteq Questions
  BY <1>2, ResultsAreRight DEF PoolFaithful
<1>4. IsFiniteSet(pool.questions)
  BY <1>2, <1>3 DEF HarnessShape, PoolFits
<1>5. By(ends, "wrong") \subseteq pool.questions /\ By(ends, "raises") \subseteq pool.questions
  OBVIOUS
<1> HIDE DEF By
<1>6. /\ IsFiniteSet(By(ends, "wrong")) /\ IsFiniteSet(By(ends, "raises"))
      /\ Cardinality(By(ends, "wrong")) \in Nat /\ Cardinality(By(ends, "raises")) \in Nat
  BY <1>4, <1>5, FS_Subset, FS_CardinalityType
<1>7. budget.faults \in Nat /\ DOMAIN budget = {"faults", "changes"}
  BY <1>2 DEF HarnessShape, BudgetFits
<1> HIDE DEF rows, some, faults
<1>8. budget.faults = budget.faults + faults(ends)
  BY <1>1, <1>7
<1>9. faults(ends) = 0
  <2>1. faults(ends) \in Nat
    BY <1>6 DEF faults
  <2> QED
    BY <1>7, <1>8, <2>1
<1>10. By(ends, "wrong") = {} /\ By(ends, "raises") = {}
  <2>1. Cardinality(By(ends, "wrong")) = 0 /\ Cardinality(By(ends, "raises")) = 0
    BY <1>6, <1>9 DEF faults
  <2> QED
    BY <1>6, <2>1, FS_EmptySet
<1>11. ASSUME NEW q \in pool.questions
       PROVE  blocked(ends, q) = FALSE /\ score(ends, q) = q.max
  <2>1. ends[q] # "wrong" /\ ends[q] # "raises"
    BY <1>10 DEF By
  <2> QED
    BY <1>3, <2>1
<1> HIDE DEF blocked, score
<1>12. rows(ends) \subseteq FullTasks(Questions)
  BY <1>3, <1>11 DEF rows, FullTasks
<1>13. run'.rows = run.rows \cup rows(ends)
  BY <1>1, <1>2, FieldsAre
<1> QED
  BY <1>12, <1>13

LEMMA ScoreTasksFaithful ==
  ASSUME Known, FaithfulRun, Faithful, ScoreTasks, UNCHANGED budget
  PROVE  FaithfulRun'
<1>1. DOMAIN run = Fields
  BY DEF Known, HarnessShape, RunFits
<1>2. run.pc \in {"tasks", "pointTasks"} /\ Keeps({"rows", "missed", "lost"}) /\ pool' = NoValue
  BY <1>1, ScoreTasksWrites
<1>3. RowsFaithful /\ GatesFaithful
  BY DEF FaithfulRun
<1>4. /\ run'.pc = run.pc /\ run'.cases = run.cases /\ run'.panel = run.panel
      /\ run'.needle = run.needle /\ run'.unsupported = run.unsupported
      /\ run'.snapshot = run.snapshot /\ run'.gate3 = run.gate3 /\ run'.points = run.points
  BY <1>2, FieldsAre DEF Keeps
<1>5. Questions' = Questions
  BY <1>4 DEF Questions
<1>6. run'.rows \subseteq FullTasks(Questions')
  BY <1>2, <1>3, <1>5, TaskRowsAreFull DEF RowsFaithful
<1>7. RowsFaithful'
  BY <1>2, <1>3, <1>4, <1>6 DEF RowsFaithful, Traversals
<1>8. PoolFaithful' /\ GatesFaithful'
  BY <1>2, <1>3, <1>4 DEF PoolFaithful, GatesFaithful
<1> QED
  BY <1>7, <1>8 DEF FaithfulRun

-----------------------------------------------------------------------------
\* The reports of a faithful run, and the gates.

\* What is kept of the run by a step without a traversal before it or after it.
LEMMA BetweenFaithful ==
  ASSUME FaithfulRun, Faithful, pool' = NoValue, run'.unsupported = 0, run'.rows = {},
         run'.pc \in {"tasks", "pointTasks"} => FullReport(run'.needle), GatesFaithful'
  PROVE  FaithfulRun'
<1>1. RowsFaithful'
  BY DEF RowsFaithful
<1>2. PoolFaithful'
  BY DEF PoolFaithful
<1> QED
  BY <1>1, <1>2 DEF FaithfulRun

LEMMA ReportIsFull ==
  ASSUME Known, FaithfulRun, Faithful, run.pc \in {"needles", "pointNeedles"}
  PROVE  FullReport(NeedleReport(run.rows, run.unsupported))
<1>1. run.rows \in SUBSET FullScores(Questions) /\ run.unsupported = 0
  BY DEF FaithfulRun, RowsFaithful
<1>2. IsFiniteSet(Questions)
  BY TraversedIs DEF Faithful, Traversals
<1> QED
  BY <1>1, <1>2, ScoresAreFull

LEMMA ReportFaithful ==
  ASSUME Known, FaithfulRun, Faithful, NeedlesDone \/ PointNeedlesDone
  PROVE  FaithfulRun'
<1> DEFINE report == NeedleReport(run.rows, run.unsupported)
<1>1. /\ DOMAIN run = Fields
      /\ run.pc \in {"needles", "pointNeedles"} /\ pool = NoValue /\ pool' = pool
      /\ \E pc : run' = [run EXCEPT !.pc = pc, !.needle = report, !.rows = {}, !.unsupported = 0]
  BY DEF NeedlesDone, PointNeedlesDone, AllAsked, Known, HarnessShape, RunFits
<1>2. FullReport(report)
  BY <1>1, ReportIsFull
<1> HIDE DEF report
<1>3. /\ run'.needle = report /\ run'.rows = {} /\ run'.unsupported = 0
      /\ run'.snapshot = run.snapshot /\ run'.gate3 = run.gate3 /\ run'.points = run.points
  BY <1>1, FieldsAre
<1>4. GatesFaithful'
  BY <1>3 DEF FaithfulRun, GatesFaithful
<1> QED
  BY <1>1, <1>2, <1>3, <1>4, BetweenFaithful

\* The rows of the tasks are accurate when one was asked.
LEMMA BaselineIsAccurate ==
  ASSUME Known, FaithfulRun, Faithful, run.pc \in {"tasks", "pointTasks"}, Unasked = {},
         Questions # {}, NEW percent \in 0 .. 100
  PROVE  AccuracyReaches(BaselineOfRun, percent)
<1>1. run.rows \in SUBSET FullTasks(Questions)
  BY DEF FaithfulRun, RowsFaithful
<1>2. Questions \in SUBSET Tasks
  BY TraversedIs DEF Faithful, Traversals
<1>3. run.rows # {}
  BY DEF Unasked
<1> QED
  BY <1>1, <1>2, <1>3, TasksAreAccurate DEF Faithful, BaselineOfRun

LEMMA Gate3Faithful ==
  ASSUME Known, FaithfulRun, Faithful, Gate3
  PROVE  FaithfulRun'
<1> DEFINE passes == Gate3Passes(run.needle, BaselineOfRun, Gate3Spec)
           snapshot == Snapshot(run.needle, BaselineOfRun)
<1>1. /\ run.pc = "tasks" /\ pool = NoValue /\ Unasked = {} /\ pool' = pool
      /\ run' = [run EXCEPT !.pc = IF passes THEN "scale" ELSE "drift", !.gate3 = passes,
                            !.snapshot = snapshot, !.rows = {}]
  BY DEF Gate3, AllAsked
<1>2. Questions # {}
  BY <1>1 DEF Questions, Faithful, Answerable
<1>3. AccuracyReaches(BaselineOfRun, Gate3Spec.accuracy)
  BY <1>1, <1>2, BaselineIsAccurate, SharesAssumption
<1>4. FullReport(run.needle) /\ run.unsupported = 0
  BY <1>1 DEF FaithfulRun, RowsFaithful
<1>5. passes = TRUE
  <2>1. /\ Reaches(run.needle.recovered, run.needle.present, Gate3Spec.recall)
        /\ Reaches(run.needle.share, Unit * run.needle.present, Gate3Spec.fidelity)
        /\ Reaches(run.needle.rejected, run.needle.negatives, Gate3Spec.negative)
    BY <1>4, FullReaches, SharesAssumption
  <2>2. run.needle.unsupported = 0
    BY <1>4 DEF FullReport
  <2> QED
    BY <1>3, <2>1, <2>2 DEF Gate3Passes
<1>6. DOMAIN run = Fields
  BY DEF Known, HarnessShape, RunFits
<1> HIDE DEF passes, snapshot
<1>7. /\ run'.pc = "scale" /\ run'.gate3 = TRUE /\ run'.rows = {} /\ run'.points = run.points
      /\ run'.unsupported = run.unsupported
  BY <1>1, <1>5, <1>6, FieldsAre
<1>8. GatesFaithful'
  BY <1>7 DEF FaithfulRun, GatesFaithful
<1> QED
  BY <1>1, <1>4, <1>7, <1>8, BetweenFaithful

\* Some task is asked at a scale point when tasks are wanted there.
LEMMA TasksAreAsked ==
  ASSUME run.pc = "pointTasks", Faithful, ScaleSpec.tasks > 0
  PROVE  Questions # {}
<1> DEFINE before(t) == {s \in Tasks : s.id < t.id}
           R == {p \in Tasks \X Tasks : p[1].id <= p[2].id}
<1>1. Tasks # {} /\ IsFiniteSet(Tasks) /\ \A t \in Tasks : t.id \in Int
  BY HarnessAssumption, CasesAssumption DEF Faithful, Answerable
<1>2. Questions = {t \in Tasks : Cardinality(before(t)) < ScaleSpec.tasks}
  BY DEF Questions
<1>3. Orders(R, Tasks)
  BY <1>1 DEF Orders
<1>4. PICK t \in Tasks : \A s \in Tasks \ {t} : <<t, s>> \in R
  <2> HIDE DEF R
  <2> QED
    BY <1>1, <1>3, FirstExists
<1>5. before(t) = {}
  <2> SUFFICES ASSUME NEW s \in Tasks, s.id < t.id PROVE FALSE
    OBVIOUS
  <2>1. s.id \in Int /\ t.id \in Int /\ s # t
    BY <1>1
  <2>2. t.id <= s.id
    BY <1>4, <2>1
  <2> QED
    BY <2>1, <2>2
<1>6. Cardinality(before(t)) = 0
  BY <1>5, FS_EmptySet
<1> QED
  BY <1>2, <1>6

LEMMA PointAddedFaithful ==
  ASSUME HarnessShape, GatesFaithful, NEW p, run'.points = Append(run.points, p),
         p.status \in {"pass", "blocked"}, run'.snapshot = run.snapshot, run'.gate3 = run.gate3
  PROVE  GatesFaithful'
<1>1. run.points \in Seq(Range(run.points))
  BY DEF HarnessShape, RunFits
<1>2. /\ DOMAIN run'.points = 1 .. Len(run.points) + 1 /\ DOMAIN run.points = 1 .. Len(run.points)
      /\ run'.points[Len(run.points) + 1] = p
      /\ \A i \in DOMAIN run.points : run'.points[i] = run.points[i]
  BY <1>1, PointAdded
<1>3. Len(run.points) \in Nat
  BY <1>1
<1>4. ASSUME NEW i \in DOMAIN run'.points PROVE i \in DOMAIN run.points \/ i = Len(run.points) + 1
  BY <1>2, <1>3
<1> QED
  BY <1>2, <1>4 DEF GatesFaithful

LEMMA FinishPointFaithful ==
  ASSUME Known, FaithfulRun, Faithful, FinishPoint
  PROVE  FaithfulRun'
<1> DEFINE passes == PointPasses(run.needle, BaselineOfRun)
           p == PointResult(IF passes THEN "pass" ELSE "fail", run.projected.point, run.needle)
<1>1. /\ run.pc = "pointTasks" /\ pool = NoValue /\ Unasked = {} /\ pool' = pool
      /\ run' = [run EXCEPT !.pc = "point", !.rows = {}, !.projected = NoValue,
                   !.points = Append(@, p)]
  BY DEF FinishPoint, AllAsked
<1>2. FullReport(run.needle) /\ run.unsupported = 0 /\ GatesFaithful
  BY <1>1 DEF FaithfulRun, RowsFaithful
<1>3. passes
  <2>1. Reaches(run.needle.recovered, run.needle.present, ScaleSpec.recall)
    BY <1>2, FullReaches, SharesAssumption
  <2>2. ASSUME ScaleSpec.tasks > 0 PROVE AccuracyReaches(BaselineOfRun, ScaleSpec.accuracy)
    BY <1>1, <2>2, TasksAreAsked, BaselineIsAccurate, SharesAssumption
  <2> QED
    BY <2>1, <2>2 DEF PointPasses
<1>4. p.status = "pass"
  BY <1>3 DEF PointResult
<1>5. DOMAIN run = Fields
  BY DEF Known, HarnessShape, RunFits
<1> HIDE DEF p
<1>6. /\ run'.pc = "point" /\ run'.rows = {} /\ run'.points = Append(run.points, p)
      /\ run'.snapshot = run.snapshot /\ run'.gate3 = run.gate3
      /\ run'.unsupported = run.unsupported
  BY <1>1, <1>5, FieldsAre
<1>7. GatesFaithful'
  BY <1>2, <1>4, <1>6, PointAddedFaithful DEF Known
<1> QED
  BY <1>1, <1>2, <1>6, <1>7, BetweenFaithful

LEMMA BlockPointFaithful ==
  ASSUME Known, FaithfulRun, Faithful, BlockPoint
  PROVE  FaithfulRun'
<1>1. DOMAIN run = Fields /\ HarnessShape
  BY DEF Known, HarnessShape, RunFits
<1>2. run.pc = "point" /\ Keeps({"points"}) /\ pool' = pool
  BY <1>1, BlockPointWrites DEF OnlyRun
<1>3. PICK p \in PointsFor(Ratio) :
        run'.points = Append(run.points, PointResult("blocked", p, NoNeedles))
  BY <1>1, BlockPointWrites
<1>4. PointResult("blocked", p, NoNeedles).status = "blocked"
  BY DEF PointResult
<1>5. /\ run'.pc = "point" /\ run'.rows = run.rows /\ run'.unsupported = run.unsupported
      /\ run'.snapshot = run.snapshot /\ run'.gate3 = run.gate3
  BY <1>2, FieldsAre DEF Keeps
<1>6. run.rows = {} /\ run.unsupported = 0 /\ GatesFaithful
  BY <1>2 DEF FaithfulRun, RowsFaithful, Traversals
<1>7. GatesFaithful'
  BY <1>1, <1>3, <1>4, <1>5, <1>6, PointAddedFaithful
<1>8. pool' = NoValue
  BY <1>1, <1>2, NoPoolBetween
<1> QED
  BY <1>5, <1>6, <1>7, <1>8, BetweenFaithful

\* Steps that neither score nor conclude anything.
LEMMA OthersFaithful ==
  ASSUME Known, FaithfulRun, Faithful,
         StartScale \/ RejectPoint \/ StartPoint \/ Gate4 \/ Conclude
  PROVE  FaithfulRun'
<1>1. DOMAIN run = Fields /\ HarnessShape
  BY DEF Known, HarnessShape, RunFits
<1>2. /\ run.pc \in {"scale", "point", "drift"} /\ pool' = pool
      /\ run'.pc \in {"point", "rejected", "pointNeedles", "drift", "done"}
      /\ Keeps({"pc", "panel", "chosenFrom", "projected", "gate4", "claim"})
  <2>1. CASE StartScale
    BY <1>1, <2>1, StartScaleWrites, FieldsAre DEF OnlyRun, Keeps
  <2>2. CASE RejectPoint
    BY <1>1, <2>2, RejectPointWrites, FieldsAre DEF OnlyRun, Keeps
  <2>3. CASE StartPoint
    BY <1>1, <2>3, StartPointWrites, FieldsAre DEF OnlyRun, Keeps
  <2>4. CASE Gate4
    BY <1>1, <2>4, Gate4Writes, FieldsAre DEF OnlyRun, Keeps
  <2>5. CASE Conclude
    BY <1>1, <2>5, ConcludeWrites, FieldsAre DEF OnlyRun, Keeps
  <2> QED
    BY <2>1, <2>2, <2>3, <2>4, <2>5
<1>3. /\ run'.rows = run.rows /\ run'.unsupported = run.unsupported /\ run'.points = run.points
      /\ run'.snapshot = run.snapshot /\ run'.gate3 = run.gate3
  BY <1>2, FieldsAre DEF Keeps
<1>4. run.rows = {} /\ run.unsupported = 0 /\ GatesFaithful
  BY <1>2 DEF FaithfulRun, RowsFaithful, Traversals
<1>5. GatesFaithful'
  BY <1>3, <1>4 DEF GatesFaithful
<1>6. pool' = NoValue
  BY <1>1, <1>2, NoPoolBetween
<1> QED
  BY <1>2, <1>3, <1>4, <1>5, <1>6, BetweenFaithful

LEMMA StartFaithful ==
  ASSUME Known, Start
  PROVE  FaithfulRun'
<1>1. DOMAIN run = Fields /\ HarnessShape /\ Qualified
  BY DEF Known, HarnessShape, RunFits
<1>2. run.pc = "idle" /\ run'.pc \in {"needles", "done"} /\ Keeps({"pc", "cases", "route"})
      /\ pool' = pool
  BY <1>1, StartWrites
<1>3. /\ run.rows = {} /\ run.unsupported = 0 /\ run.points = <<>> /\ run.snapshot = NoValue
  BY <1>1, <1>2 DEF Qualified
<1>4. /\ run'.rows = {} /\ run'.unsupported = 0 /\ run'.points = <<>> /\ run'.snapshot = NoValue
  BY <1>2, <1>3, FieldsAre DEF Keeps
<1>5. pool' = NoValue
  BY <1>1, <1>2, NoPoolBetween
<1>6. PoolFaithful' /\ RowsFaithful' /\ GatesFaithful'
  BY <1>2, <1>4, <1>5 DEF PoolFaithful, RowsFaithful, GatesFaithful
<1> QED
  BY <1>6 DEF FaithfulRun

-----------------------------------------------------------------------------
\* All together.

LEMMA FaithfulRunInit == HarnessInit => FaithfulRun
  BY DEF HarnessInit, NewRun, FaithfulRun, PoolFaithful, RowsFaithful, GatesFaithful, Traversals

LEMMA FaithfulRunNext == Known /\ FaithfulRun /\ [HarnessNext]_harnessVars => FaithfulRun'
<1> SUFFICES ASSUME Known, FaithfulRun, [HarnessNext]_harnessVars, Faithful'
             PROVE  FaithfulRun'
  BY DEF FaithfulRun
<1>1. CASE UNCHANGED harnessVars
  <2>1. PoolFaithful' = PoolFaithful /\ RowsFaithful' = RowsFaithful
        /\ GatesFaithful' = GatesFaithful /\ Faithful' = Faithful
    BY <1>1 DEF harnessVars, PoolFaithful, RowsFaithful, GatesFaithful, Faithful, Calm, Traversed,
       Questions
  <2> QED
    BY <2>1 DEF FaithfulRun
<1>2. CASE Start
  BY <1>2, StartFaithful
<1>3. CASE HarnessNext /\ ~Start
  <2>1. HarnessShape
    BY DEF Known
  <2>2. Faithful /\ Continues /\ UNCHANGED budget
    BY <1>3, <2>1, FaithfulBefore
  <2>3. ~Ingest
    BY <1>3, <2>1, CalmBefore DEF Faithful
  <2>4. CASE MakePlan
    <3>1. UNCHANGED <<corpus, run, pool>>
      BY <2>4 DEF MakePlan
    <3>2. PoolFaithful'
      BY <2>2, <3>1 DEF FaithfulRun, PoolFaithful, Traversed, Questions
    <3> QED
      BY <2>2, <3>1, <3>2, PoolStepFaithful
  <2>5. ~SkipBlock /\ ~FailCall /\ ~EvaluationRaises
    BY <2>1, <2>2, SkipBlockFaithful, FailCallFaithful, EvaluationRaisesFaithful
  <2> QED
    BY <1>3, <2>2, <2>3, <2>4, <2>5, TraverseFaithful, AnswerFaithful, ScoreNeedlesFaithful,
       ScoreTasksFaithful, ReportFaithful, Gate3Faithful, FinishPointFaithful, BlockPointFaithful,
       OthersFaithful DEF HarnessNext
<1> QED
  BY <1>1, <1>2, <1>3

LEMMA FaithfulRunAlways == HarnessSpec => []FaithfulRun
<1>1. HarnessShape /\ PanelFits /\ PointsFit /\ Qualified /\ Untouched => Known
  BY DEF Known
<1> QED
  BY <1>1, ShapeAlways, PanelAlways, PointsAlways, QualifiedAlways, UntouchedAlways,
     FaithfulRunInit, FaithfulRunNext, PTL DEF HarnessSpec

LEMMA FaithfulRunPasses == FaithfulRun => FaithfulJudgePasses
<1> SUFFICES ASSUME FaithfulRun, run.snapshot # NoValue, budget = [faults |-> 0, changes |-> 0],
                    {b.modality : b \in corpus.blocks} \subseteq run.route.reads,
                    Modern(run.cases), Truthful(run.cases, corpus), Answerable
             PROVE  /\ run.gate3
                    /\ \A i \in DOMAIN run.points : run.points[i].status \in {"pass", "blocked"}
  BY DEF FaithfulJudgePasses
<1>1. Calm
  BY DEF Calm
<1>2. Faithful
  BY <1>1 DEF Faithful
<1> QED
  BY <1>2 DEF FaithfulRun, GatesFaithful

\* A judge that reports what is there, with no call failing and the corpus left alone, is
\* never failed by the harness, whatever corpora, matrices, tasks, plans and ratios there
\* are: the scores of a batch and of an evaluation, the panel and its anchors, the
\* projections and both gates fit together.
THEOREM FaithfulJudgesPass == HarnessSpec => []FaithfulJudgePasses
  BY FaithfulRunAlways, FaithfulRunPasses, PTL

=============================================================================
