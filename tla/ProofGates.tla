------------------------------ MODULE ProofGates ------------------------------
(***************************************************************************)
(* The pure half of the big-context proof harness (big_context_proof.py):  *)
(* how the answers of a traversal are scored against the ground truth of a *)
(* needle matrix, and what the gates conclude from the scores.             *)
(*                                                                         *)
(* A corpus is [blocks, hashed, ready, semantic]: its required blocks,     *)
(* whose ids are numbers in the order of coverage, whether every asset     *)
(* report has a source hash, and the manifest's coverage_ready and         *)
(* semantic_coverage = 1.  A block is [id, asset, family, modality, chars, *)
(* terms].  A match is [block, case, terms]: a block the judge reported    *)
(* for a case, with the terms of its note.  A share is counted in          *)
(* Unit-ths, and thresholds in percent.                                    *)
(***************************************************************************)
EXTENDS Integers, Sequences, FiniteSets, FiniteSetsExt, SequencesExt, Functions

CONSTANT NoValue  \* None

CorpusPositions == {"early", "middle", "late"}
LocalPositions == {"head", "middle", "tail"}

\* Shares of one to six terms are whole numbers of this.
Unit == 60

BlockIds(corpus) == {b.id : b \in corpus.blocks}

Chars(blocks) == FoldSet(LAMBDA b, sum : sum + b.chars, 0, blocks)

-----------------------------------------------------------------------------
\* What one case makes of its matches.

TruthMatches_AllAssets(block, case) ==
  /\ case.blocks # {} => block.id \in case.blocks
  /\ case.assets # {} => case.assets = {block.asset}
TruthMatches(block, case) ==
  /\ case.blocks # {} => block.id \in case.blocks
  /\ case.assets # {} => block.asset \in case.assets

TermHits(case, match) == case.terms \cap (match.block.terms \cup match.terms)

Hits(case, matches) ==
  {m \in matches : TruthMatches(m.block, case) /\ TermHits(case, m) # {}}
MatchedTerms(case, matches) == UNION {TermHits(case, m) : m \in Hits(case, matches)}
MatchedAssets(case, matches) == {m.block.asset : m \in Hits(case, matches)}

AssetsNeeded(case) ==
  IF case.hits # NoValue THEN case.hits
  ELSE IF case.kind = "cross-file" /\ case.assets # {} THEN Cardinality(case.assets) ELSE 1

TermsFound(case, matches) ==
  IF case.all
  THEN MatchedTerms(case, matches) = case.terms
  ELSE MatchedTerms(case, matches) # {}

TermRecall(case, matches) ==
  (Unit * Cardinality(MatchedTerms(case, matches))) \div Cardinality(case.terms)

RecoversTerms(case, matches) ==
  /\ TermsFound(case, matches)
  /\ Cardinality(MatchedAssets(case, matches)) >= AssetsNeeded(case)

Score(case, recovered, share) == [case |-> case, recovered |-> recovered, share |-> share]
AllOrNothing(case, recovered) == Score(case, recovered, IF recovered THEN Unit ELSE 0)

\* The row of a case after one traversal with all the questions.  Without terms to look
\* for nothing is ever a hit.
BatchRow(case, matches) ==
  IF ~case.present THEN AllOrNothing(case, matches = {})
  ELSE IF case.terms = {} THEN Score(case, FALSE, 0)
  ELSE Score(case, RecoversTerms(case, matches), TermRecall(case, matches))

\* The row of a case that was evaluated alone, whose matches are its evidence.
CaseRow(case, matches) ==
  IF ~case.present THEN AllOrNothing(case, matches = {})
  ELSE IF case.terms = {}
  THEN AllOrNothing(case, \E m \in matches : TruthMatches(m.block, case))
  ELSE Score(case, RecoversTerms(case, matches), TermRecall(case, matches))

\* The report of a run: rows are the scores of all cases, unsupported the cases with a
\* block that was not inspected or with an error.
Count(S, Test(_)) == Cardinality({x \in S : Test(x)})

NeedleReport(rows, unsupported) ==
  LET present == {r \in rows : r.case.present}
      negatives == rows \ present
      recovered(r) == r.recovered
  IN [present |-> Cardinality(present), recovered |-> Count(present, recovered),
      share |-> FoldSet(LAMBDA r, sum : sum + r.share, 0, present),
      negatives |-> Cardinality(negatives), rejected |-> Count(negatives, recovered),
      unsupported |-> unsupported]

\* part / whole >= percent, where an empty whole counts as 1.
Reaches(part, whole, percent) == 100 * part >= percent * whole

-----------------------------------------------------------------------------
\* The summary of a baseline: of its rows, those that are blocked and those whose score
\* is in the range the case expects.  Blocked tasks are not in the accuracy.

ScoreIsCorrect(task, score) == score >= task.min /\ score <= task.max

TaskRow(task, blocked, score) ==
  [task |-> task, blocked |-> blocked, correct |-> ~blocked /\ ScoreIsCorrect(task, score)]

Baseline(rows) ==
  LET completed == {r \in rows : ~r.blocked}
      correct == {r \in completed : r.correct}
      tagged(S) == {r \in S : r.task.authority}
  IN [completed |-> Cardinality(completed), blocked |-> Cardinality(rows \ completed),
      correct |-> Cardinality(correct), authority |-> Cardinality(tagged(completed)),
      authorityCorrect |-> Cardinality(tagged(correct))]

\* Without a completed task the accuracy is 0.
AccuracyReaches(baseline, percent) ==
  baseline.completed > 0 /\ Reaches(baseline.correct, baseline.completed, percent)

-----------------------------------------------------------------------------
\* Gates 1 and 2 of a corpus and a matrix: the blockers, none for PASS.

Gate1Blockers(corpus, spec) ==
  LET blocks == corpus.blocks
      assets == {b.asset : b \in blocks}
      Holds(why) ==
        CASE why = "assets" -> Cardinality(assets) \in spec.assets
          [] why = "families" -> Cardinality({b.family : b \in blocks}) >= spec.families
          [] why = "ratio" -> Chars(blocks) >= spec.ratio * spec.context
          [] why = "hashes" -> corpus.hashed /\ blocks # {}
          [] why = "ready" -> corpus.ready /\ corpus.semantic
  IN {why \in {"assets", "families", "ratio", "hashes", "ready"} : ~Holds(why)}

Gate2Blockers(cases, corpus, spec) ==
  LET blocks == corpus.blocks
      Holds(why) ==
        CASE why = "size" -> Cardinality(cases) >= spec.cases
          [] why = "kinds" -> Cardinality({c.kind : c \in cases}) >= spec.kinds
          [] why = "modalities" -> Cardinality({c.modality : c \in cases}) >= spec.modalities
          [] why = "positions" -> /\ {c.at : c \in cases} = CorpusPositions
                                  /\ {c.within : c \in cases} = LocalPositions
          [] why = "required" -> {"negative", "cross-file"} \subseteq {c.kind : c \in cases}
          [] why = "targets" -> \A c \in cases : c.present => c.assets # {}
          [] why = "terms" -> \A c \in cases : c.terms # {}
          [] why = "unknown" -> /\ UNION {c.assets : c \in cases} \subseteq {b.asset : b \in blocks}
                                /\ UNION {c.blocks : c \in cases} \subseteq {b.id : b \in blocks}
  IN {why \in {"size", "kinds", "modalities", "positions", "required", "targets", "terms",
               "unknown"} : ~Holds(why)}

\* Gate 3 of a needle report and the full-coverage baseline.
Gate3Passes(needle, baseline, spec) ==
  /\ Reaches(needle.recovered, needle.present, spec.recall)
  /\ Reaches(needle.share, Unit * needle.present, spec.fidelity)
  /\ Reaches(needle.rejected, needle.negatives, spec.negative)
  /\ needle.unsupported = 0
  /\ AccuracyReaches(baseline, spec.accuracy)

-----------------------------------------------------------------------------
\* Gate 5: how far the shares of a candidate are below those of a reference, which are
\* in percent; a missing share of the authority tag is not compared.

Nothing == [part |-> 0, whole |-> 1]
All == [part |-> 1, whole |-> 1]
Share(part, whole, empty) == IF whole = 0 THEN empty ELSE [part |-> part, whole |-> whole]

Snapshot(needle, baseline) ==
  [recall |-> Share(needle.recovered, needle.present, All),
   accuracy |-> Share(baseline.correct, baseline.completed, Nothing),
   negative |-> Share(needle.rejected, needle.negatives, All),
   authority |-> Share(baseline.authorityCorrect, baseline.authority, NoValue)]

KeepsUp(share, percent, drop) == Reaches(share.part, share.whole, percent - drop)

Gate5Passes(reference, candidate, spec) ==
  /\ KeepsUp(candidate.recall, reference.recall, spec.recallDrop)
  /\ KeepsUp(candidate.accuracy, reference.accuracy, spec.accuracyDrop)
  /\ KeepsUp(candidate.negative, reference.negative, spec.negativeDrop)
  /\ NoValue \notin {reference.authority, candidate.authority} =>
       KeepsUp(candidate.authority, reference.authority, spec.authorityDrop)
=============================================================================
