---------------------------- MODULE MCProofHarness ----------------------------
EXTENDS ProofHarness

\* An order of the blocks that is neither that of the files nor its reverse.
Shuffled(id) == (4 * id) % 7

Block(id, asset, modality, size, terms) ==
  [id |-> id, asset |-> asset, family |-> modality, modality |-> modality, chars |-> size,
   terms |-> terms]

CorpusOf(blocks) == [blocks |-> blocks, hashed |-> TRUE, ready |-> TRUE, semantic |-> TRUE]

First == Block(1, "a", "text", 1, {"x"})
Third == Block(3, "b", "table", 1, {"y"})
Sixth == Block(6, "c", "text", 1, {"w"})

\* A corpus twice the size of the model's context, and one that a file was cut from.
Large == CorpusOf({First, Block(2, "a", "text", 2, {}), Third, Block(4, "b", "table", 3, {}), Sixth})
Cut == CorpusOf({First, Block(2, "a", "text", 2, {}), Third})
Unready == [Cut EXCEPT !.ready = FALSE]

Case(id, kind, at, within, modality, assets, blocks, terms) ==
  [id |-> id, kind |-> kind, at |-> at, within |-> within, modality |-> modality,
   assets |-> assets, blocks |-> blocks, terms |-> terms, present |-> kind # "negative",
   all |-> kind = "cross-file", hits |-> NoValue]

Exact == Case(1, "exact", "early", "head", "text", {"a"}, {1}, {"x"})
Cross == Case(2, "cross-file", "middle", "middle", "table", {"a", "b"}, {1, 3}, {"x", "y"})
Negative == Case(3, "negative", "late", "tail", "text", {}, {}, {"z"})
ByFile == Case(4, "number", "late", "head", "text", {"c"}, {}, {"w"})

ModernMatrix == {Exact, Cross, Negative}
MixedMatrix == ModernMatrix \cup {ByFile}
SmallMatrix == {Exact, Negative}
AllMatrices == {ModernMatrix, MixedMatrix, SmallMatrix}

TwoTasks == {[id |-> 1, min |-> 20, max |-> 50, authority |-> TRUE],
             [id |-> 2, min |-> 0, max |-> 50, authority |-> FALSE]}

AllRoutes == {[reads |-> {"text", "table"}, batch |-> TRUE], [reads |-> {"text"}, batch |-> TRUE],
              [reads |-> {"text", "table"}, batch |-> FALSE]}

Perfect == [recall |-> 100, accuracy |-> 100, negative |-> 100, authority |-> 100]
AllReferences == {NoValue, Perfect, [Perfect EXCEPT !.recall = 50]}

Corpus1 == [assets |-> 2 .. 4, families |-> 2, ratio |-> 1, context |-> 4]
Matrix2 == [cases |-> 3, kinds |-> 3, modalities |-> 2]
Live3 == [recall |-> 50, fidelity |-> 50, negative |-> 95, accuracy |-> 90]
Scale4 ==
  [context |-> 4, ratios |-> <<1, 2>>, size |-> 4, tasks |-> 1, recall |-> 90, accuracy |-> 90,
   recallDrop |-> 5, maxRatio |-> 2, anchorPercent |-> 75, kinds |-> 3, modalities |-> 2,
   requireNegative |-> TRUE, perKind |-> 2, negatives |-> 1, positions |-> TRUE,
   localPositions |-> FALSE, requireCross |-> FALSE]
Drift5 == [recallDrop |-> 5, accuracyDrop |-> 5, negativeDrop |-> 2, authorityDrop |-> 2]

\* The planner called as the live run is, with other ratios, for another context, or with
\* an older matrix.
AllPlanRequests ==
  {[cases |-> ModernMatrix, spec |-> spec] :
     spec \in {Scale4, [Scale4 EXCEPT !.ratios = <<1>>, !.maxRatio = 1],
               [Scale4 EXCEPT !.context = 3],
               [Scale4 EXCEPT !.ratios = <<2, 1, 1>>],
               [Scale4 EXCEPT !.requireCross = TRUE, !.localPositions = TRUE]}}
    \cup {[cases |-> cases, spec |-> Scale4] : cases \in {MixedMatrix, SmallMatrix}}

AllCorpora == {Large, Cut, Unready}
=============================================================================
