---------------------------- MODULE TokenBudget ----------------------------
(***************************************************************************)
(* TextTokenBudget (src/contextmesh/token_budget.py): how many tokens a    *)
(* request may have, how they are counted, and how a text that has more is *)
(* split.                                                                  *)
(*                                                                         *)
(* A text is a sequence of characters: "x" and "y", which a tokenizer may  *)
(* merge with their neighbours, and "." for any of the four marks after    *)
(* which split_text prefers to cut.  Offsets are those of the code: from   *)
(* 0, and a slice ends before its second one.                              *)
(***************************************************************************)
EXTENDS Integers, Sequences, FiniteSets, FiniteSetsExt

CONSTANTS
  Null,      \* None
  Vocabulary \* the tokens of more than one character a tokenizer knows

Text == Seq({"x", "y", "."})

\* How tokens are counted: by a tokenizer, or with an estimate.
Counter == [exact : BOOLEAN, chars : Nat \ {0}, tokens : Nat \ {0}]

ASSUME VocabularyAssumption ==
  /\ Vocabulary \subseteq Text /\ \A t \in Vocabulary : Len(t) > 1
  /\ Null \notin Nat /\ Null \notin Seq(Nat) /\ Null \notin Seq([from : Nat, to : Nat])

NonNegative(n) == IF n < 0 THEN 0 ELSE n
AtMost(a, b) == IF a < b THEN a ELSE b
AtLeast(a, b) == IF a > b THEN a ELSE b

Slice(text, from, to) == SubSeq(text, from + 1, to)
Plain(n) == [i \in 1 .. n |-> "x"]

\* A counter is an estimate of `tokens` tokens for `chars` characters, rounded up,
\* or exact: the tokenizer takes the longest token it knows, from the left.  The
\* number of an exact counter does not grow steadily with the text.
CeilDiv(a, b) == (a + b - 1) \div b

Encode(text) ==
  LET Known(i) == {t \in Vocabulary : i + Len(t) - 1 <= Len(text)
                                      /\ SubSeq(text, i, i + Len(t) - 1) = t}
      count[i \in 1 .. Len(text) + 1] ==
        IF i > Len(text) THEN 0
        ELSE 1 + count[i + Max({1} \cup {Len(t) : t \in Known(i)})]
  IN  count[1]

Count(counter, text) ==
  IF counter.exact THEN Encode(text) ELSE CeilDiv(Len(text) * counter.tokens, counter.chars)

\* input_budget_tokens: None of a route that declares no context size.
InputBudget(route) ==
  IF route.context = 0 THEN Null
  ELSE (NonNegative(route.context - route.reserve) * route.safety) \div 100

\* What a request leaves of it (_block_source_budget_tokens and its siblings).
Remaining(route, used) ==
  IF InputBudget(route) = Null THEN Null ELSE NonNegative(InputBudget(route) - used)

\* The binary search for the longest slice from `start` that fits, for a count that
\* is taken to grow with the slice.
LongestFit(counter, text, start, tokens) ==
  LET offsets == 0 .. Len(text)
      search[s \in [lo : 1 .. Len(text) + 1, hi : offsets, best : offsets]] ==
        LET mid == (s.lo + s.hi) \div 2 IN
        IF s.lo > s.hi THEN s.best
        ELSE IF Count(counter, Slice(text, start, mid)) <= tokens
        THEN search[[s EXCEPT !.lo = mid + 1, !.best = mid]]
        ELSE search[[s EXCEPT !.hi = mid - 1]]
  IN  search[[lo |-> start + 1, hi |-> Len(text), best |-> start]]

\* Where the slice ends: after the last mark in its second half, if there is one.
SliceEnd(counter, text, start, tokens) ==
  LET best == LongestFit(counter, text, start, tokens)
      floor == AtLeast(start + 1, start + (best - start) \div 2)
      cut == Max({-1} \cup {i \in floor .. best - 1 : text[i + 1] = "."})
  IN  IF /\ best < Len(text)
         /\ cut > floor
         /\ Count(counter, Slice(text, start, cut + 1)) <= tokens
      THEN cut + 1
      ELSE best

NextStart_PastTheMark(start, end, overlap) == end + 1

\* The next slice repeats the end of this one, a fifth of it at most.
NextStart(start, end, overlap) ==
  AtLeast(start + 1, end - AtMost(overlap, AtLeast(1, (end - start) \div 5)))

\* split_text: the slices, or Null where it raises TokenBudgetExceeded.
SplitText(counter, text, tokens, overlap) ==
  LET slices[start \in 0 .. Len(text)] ==
        LET end == SliceEnd(counter, text, start, tokens)
            here == <<[from |-> start, to |-> end]>>
        IN  IF end <= start THEN Null
            ELSE IF end >= Len(text) THEN here
            ELSE LET rest == slices[NextStart(start, end, overlap)]
                 IN  IF rest = Null THEN Null ELSE here \o rest
  IN  IF tokens < 1 THEN Null
      ELSE IF Count(counter, text) <= tokens THEN <<[from |-> 0, to |-> Len(text)]>>
      ELSE slices[0]
=============================================================================
