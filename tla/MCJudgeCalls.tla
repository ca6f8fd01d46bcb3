--------------------------- MODULE MCJudgeCalls ---------------------------
EXTENDS JudgeCalls, TLC

\* A tokenizer that merges "xy" and "yyy", and estimates of one, a half and three
\* tokens for a character.
Tokenizer == {<<"x", "y">>, <<"y", "y", "y">>}
Exact == [exact |-> TRUE, chars |-> 1, tokens |-> 1]
Estimate(c, t) == [exact |-> FALSE, chars |-> c, tokens |-> t]

AllCapabilities == {"text", "table", "vision", "audio"}

\* Contexts from one in which a prompt leaves two tokens to one in which all fits, and
\* one without a limit.
SomeRoutes ==
  {[context |-> n, reserve |-> 2, safety |-> 90, counter |-> c,
    capabilities |-> AllCapabilities, images |-> TRUE] :
     n \in {0, 9, 10, 12, 14, 20},
     c \in {Exact, Estimate(1, 1), Estimate(2, 1), Estimate(1, 3)}}
  \cup
  {[context |-> 12, reserve |-> 2, safety |-> 100, counter |-> Estimate(1, 1),
    capabilities |-> s, images |-> v] :
     s \in {{"text"}, {"vision"}, {"audio"}}, v \in BOOLEAN}

Texts ==
  {<<>>, <<"x">>, <<"x", "y", "y", "y">>, <<"y", "y", "y", "y", "y", "y">>,
   <<"x", "x", "x", ".", "x", "x", "x">>, <<"x", "x", "x", "x", "x", ".", ".", "y", "x", "x">>}

Plain3 == [text |-> Plain(3), modality |-> "text", media |-> FALSE, related |-> 0]

SomeBlocks ==
  {[Plain3 EXCEPT !.text = t] : t \in Texts}
  \cup {[text |-> t, modality |-> m, media |-> b, related |-> 0] :
          t \in {<<>>, <<"x", "x", "x", "x", "x">>},
          m \in {"table", "image", "audio", "video"}, b \in BOOLEAN}
  \cup {[Plain3 EXCEPT !.related = 5]}

Inspection == [kind |-> "inspect", block |-> Plain3, questions |-> <<>>, notes |-> <<>>,
               bundle |-> Null, evidence |-> <<>>]

SomeJobs ==
  {[Inspection EXCEPT !.block = b] : b \in SomeBlocks}
  \cup {[Inspection EXCEPT !.kind = k, !.questions = q] :
          k \in {"questions", "tasks"}, q \in {<<>>, <<1>>, <<1, 2, 1>>, <<1, 1, 3, 1, 1>>}}
  \cup {[Inspection EXCEPT !.kind = "finalize", !.notes = n, !.bundle = b] :
          n \in {<<>>, <<1, 1, 1>>, <<1, 1, 1, 1, 1>>, <<3, 3>>, <<8>>},
          b \in {Null, <<2>>}}
  \cup {[Inspection EXCEPT !.kind = "finalize", !.notes = <<2>>, !.bundle = b, !.evidence = e] :
          b \in {<<>>, <<2>>, <<2, 2, 1>>, <<3, 3, 3, 3>>},
          e \in {<<>>, <<1, 2>>, <<4, 4, 4>>}}
=============================================================================
