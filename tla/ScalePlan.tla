------------------------------- MODULE ScalePlan -------------------------------
(***************************************************************************)
(* Gate 4's experiment (big_context_proof.py): a small panel of cases is   *)
(* chosen whose evidence fits well into the model's context, and for every *)
(* ratio a projection of the corpus that keeps the panel's evidence and    *)
(* grows the distractors around it.  The plan of an experiment freezes the *)
(* projections before any model is called.                                 *)
(*                                                                         *)
(* Cases too are ordered by their ids, which are numbers; HashRank orders  *)
(* blocks as their SHA-256 does.  Of a projection we keep which blocks it  *)
(* has: their order in it matters to no score.                             *)
(***************************************************************************)
EXTENDS ProofGates

CONSTANT HashRank(_)

CaseAnchors(corpus, case) ==
  LET exact == case.blocks \cap BlockIds(corpus) IN
  IF exact # {} THEN exact ELSE {b.id : b \in {x \in corpus.blocks : x.asset \in case.assets}}

\* The anchors of several cases: exact blocks of any of them hide the assets of the others.
AnchorBlocks(corpus, cases) ==
  LET exact == (UNION {c.blocks : c \in cases}) \cap BlockIds(corpus)
      assets == UNION {c.assets : c \in cases}
  IN IF exact # {} THEN exact ELSE {b.id : b \in {x \in corpus.blocks : x.asset \in assets}}

\* The tokens of a block are numbered; one without text costs a token.
Tokens(corpus, ids) ==
  Cardinality(UNION {{b.id} \X (1 .. Max({1, b.chars})) : b \in {x \in corpus.blocks : x.id \in ids}})

PanelAnchors(corpus, cases) == UNION {CaseAnchors(corpus, c) : c \in cases}

\* What the choice of a panel reads of the parameters of Gate 4.
PanelSpec(spec) ==
  [context |-> spec.context, anchorPercent |-> spec.anchorPercent, size |-> spec.size,
   kinds |-> spec.kinds, modalities |-> spec.modalities, perKind |-> spec.perKind,
   negatives |-> spec.negatives, requireNegative |-> spec.requireNegative,
   requireCross |-> spec.requireCross, positions |-> spec.positions,
   localPositions |-> spec.localPositions]

AnchorBudget(spec) == Max({1, (spec.context * spec.anchorPercent) \div 100})

-----------------------------------------------------------------------------
\* The panel, one case after the other.

OfKind(cases, kind) == Cardinality({c \in cases : c.kind = kind})

Eligible(corpus, cases, chosen, spec) ==
  {c \in cases \ chosen :
     /\ OfKind(chosen, c.kind) < spec.perKind
     /\ c.kind = "negative" => OfKind(chosen, "negative") < spec.negatives
     /\ Tokens(corpus, PanelAnchors(corpus, chosen \cup {c})) <= AnchorBudget(spec)}

\* What a case adds that the panel still needs.
Adds(value, have, needed) == IF Cardinality(have) < needed /\ value \notin have THEN 1 ELSE 0

Novelty(case, chosen, spec) ==
  Adds(case.kind, {c.kind : c \in chosen}, spec.kinds)
    + Adds(case.modality, {c.modality : c \in chosen}, spec.modalities)
    + Adds(case.at, {c.at : c \in chosen}, IF spec.positions THEN 3 ELSE 0)
    + Adds(case.within, {c.within : c \in chosen}, IF spec.localPositions THEN 3 ELSE 0)

FirstOf(kind, case, chosen, required) ==
  IF required /\ case.kind = kind /\ OfKind(chosen, kind) = 0 THEN 1 ELSE 0

\* The rank: the tokens of the proposed panel order cases as the increment over the
\* chosen ones does.
Rank(corpus, case, chosen, spec) ==
  <<- FirstOf("negative", case, chosen, spec.requireNegative),
    - FirstOf("cross-file", case, chosen, spec.requireCross),
    - Novelty(case, chosen, spec),
    OfKind(chosen, case.kind),
    Tokens(corpus, PanelAnchors(corpus, chosen \cup {case})),
    case.id>>

Before(a, b) == \E i \in DOMAIN a : a[i] < b[i] /\ \A j \in 1 .. i - 1 : a[j] = b[j]

Extend(corpus, cases, chosen, spec) ==
  LET eligible == Eligible(corpus, cases, chosen, spec)
      rank(c) == Rank(corpus, c, chosen, spec)
  IN IF eligible = {} THEN chosen
     ELSE chosen \cup {CHOOSE c \in eligible : \A d \in eligible \ {c} : Before(rank(c), rank(d))}

PanelSize(cases, spec) == Min({spec.size, Cardinality(cases)})

Panel(corpus, cases, spec) ==
  FoldSet(LAMBDA n, chosen : Extend(corpus, cases, chosen, spec), {}, 1 .. PanelSize(cases, spec))

PanelBlockers(corpus, cases, panel, spec) ==
  LET kinds == {c.kind : c \in panel}
      Holds(why) ==
        CASE why = "size" -> Cardinality(panel) = PanelSize(cases, spec)
          [] why = "kinds" -> Cardinality(kinds) >= spec.kinds
          [] why = "modalities" -> Cardinality({c.modality : c \in panel}) >= spec.modalities
          [] why = "negative" -> spec.requireNegative => "negative" \in kinds
          [] why = "positions" -> spec.positions => {c.at : c \in panel} = CorpusPositions
          [] why = "local" -> spec.localPositions => {c.within : c \in panel} = LocalPositions
          [] why = "cross-file" -> spec.requireCross => "cross-file" \in kinds
          [] why = "budget" ->
               Tokens(corpus, PanelAnchors(corpus, panel)) <= AnchorBudget(spec)
  IN {why \in {"size", "kinds", "modalities", "negative", "positions", "local", "cross-file",
               "budget"} : ~Holds(why)}

-----------------------------------------------------------------------------
\* A projection: the anchors, then distractors in the order of their hashes up to and
\* including the one that reaches the target.

Distractors(corpus, anchors) == BlockIds(corpus) \ anchors
Earlier(corpus, anchors, id) ==
  {d \in Distractors(corpus, anchors) : HashRank(d) < HashRank(id)}

\* The distractors that are taken: the first, and while the target is not reached.
Taken_OneMore(corpus, anchors, target) ==
  {d \in Distractors(corpus, anchors) :
     LET earlier == Earlier(corpus, anchors, d) IN
     earlier = {} \/ Tokens(corpus, anchors \cup earlier) <= target}
Taken(corpus, anchors, target) ==
  {d \in Distractors(corpus, anchors) :
     LET earlier == Earlier(corpus, anchors, d) IN
     earlier = {} \/ Tokens(corpus, anchors \cup earlier) < target}

Projection(corpus, cases, target) ==
  LET anchors == AnchorBlocks(corpus, cases)
      exceeds == Tokens(corpus, anchors) > target
      ids == IF exceeds THEN anchors ELSE anchors \cup Taken(corpus, anchors, target)
      tokens == Tokens(corpus, ids)
  IN [ids |-> ids, tokens |-> tokens,
      blockers |-> IF exceeds THEN {"anchors-exceed-target"}
                   ELSE IF tokens < target THEN {"source-too-small"} ELSE {}]

\* The plan, with the corpus, the cases and the parameters it was made of: every point
\* also says whether it keeps the anchors and is nested.
PlanPoints(corpus, panel, spec) ==
  LET point(i) == Projection(corpus, panel, spec.context * spec.ratios[i])
      flaws(i) ==
        {why \in {"anchor-preservation", "nested-projection"} :
           ~(CASE why = "anchor-preservation" -> AnchorBlocks(corpus, panel) \subseteq point(i).ids
               [] why = "nested-projection" -> i > 1 => point(i - 1).ids \subseteq point(i).ids)}
  IN [i \in DOMAIN spec.ratios |->
        [ratio |-> spec.ratios[i], ids |-> point(i).ids, tokens |-> point(i).tokens,
         blockers |-> point(i).blockers \cup flaws(i)]]

Plan(corpus, cases, spec) ==
  LET panel == Panel(corpus, cases, PanelSpec(spec))
      points == PlanPoints(corpus, panel, spec)
  IN [corpus |-> corpus, cases |-> cases, spec |-> spec,
      context |-> spec.context, anchors |-> AnchorBlocks(corpus, panel), points |-> points,
      ready |-> /\ PanelBlockers(corpus, cases, panel, PanelSpec(spec)) = {}
                /\ \A i \in DOMAIN points : points[i].blockers = {}
                /\ \E i \in DOMAIN points : points[i].tokens >= spec.maxRatio * spec.context]
=============================================================================
