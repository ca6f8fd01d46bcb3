----------------------------- MODULE JudgeCalls -----------------------------
(***************************************************************************)
(* OpenAICompatibleJudge (src/contextmesh/judges.py): how one request of   *)
(* the evaluator or the proof harness becomes calls of a language model:   *)
(* the inspection of a block in slices, of a block against many questions  *)
(* or tasks, the recursive reduction of notes, and the final judgment.     *)
(* Every call is counted against the route's token budget first.           *)
(*                                                                         *)
(* One request of one judge, which keeps no state between requests but its *)
(* usage metrics.  A note is its length, a question its length; what the   *)
(* model answers is any of a set of lengths.  Python's recursion limit is  *)
(* MaxDepth.                                                               *)
(***************************************************************************)
EXTENDS TokenBudget, SequencesExt

CONSTANTS
  Routes,         \* [context, reserve, safety, counter, capabilities, images]
  Jobs,           \* what is asked: see Job
  AnswerLengths,  \* how long the notes a model returns are
  InspectPrompt, BatchPrompt, ReducePrompt, FinalPrompt, \* lengths of the fixed texts
  FinalPromptProbed, \* length of the final prompt _final_payload_budget_tokens counts
  Placeholder,    \* length of an "omitted" line, or of "(none)"
  SlicePrefix,    \* length of "<block> slice i/n: "
  Protocol, MediaReserve, \* tokens reserved for a message, for a media item
  MinSource, MinBundle, MinNotes, MinEvidence, \* 32, 128, 128 and 256 tokens
  MaxEvidence,    \* 16_000 characters of typed evidence
  MinShard, ShardReserve, \* 1024 and 320 characters
  OverlapChars,   \* 600
  MaxDepth        \* bound: nested calls of reduce_notes

Kinds == {"inspect", "questions", "tasks", "finalize"}
Block == [text : Text, modality : {"text", "table", "image", "audio", "video"},
          media : BOOLEAN, related : Nat]

\* The block of an inspection, the questions or tasks of a batch, and the notes, lines
\* of the decision bundle (or None) and evidence lines of a final judgment.
Job == [kind : Kinds, block : Block, questions : Seq(Nat), notes : Seq(Nat),
        bundle : Seq(Nat) \cup {Null}, evidence : Seq(Nat)]

\* capabilities as far as the judge asks for them; safety is in percent.
Route == [context : Nat, reserve : Nat, safety : 10 .. 100, counter : Counter,
          capabilities : SUBSET {"text", "table", "vision", "audio"}, images : BOOLEAN]

\* What a reduction is asked with is shorter than what a block is inspected with and
\* the least of its text.
ASSUME JudgeAssumption ==
  /\ Routes \subseteq Route /\ Jobs \subseteq Job /\ AnswerLengths \subseteq Nat
  /\ {InspectPrompt, BatchPrompt, ReducePrompt, FinalPrompt, FinalPromptProbed, SlicePrefix,
      Protocol, MediaReserve, MinBundle, MinNotes, MinEvidence, MaxEvidence, MinShard,
      ShardReserve, OverlapChars, MaxDepth} \subseteq Nat
  /\ {Placeholder, MinSource} \subseteq Nat \ {0}
  /\ FinalPromptProbed <= FinalPrompt
  /\ ReducePrompt + 3 < InspectPrompt + MinSource

PowerOfTwo[k \in Nat] == IF k = 0 THEN 1 ELSE 2 * PowerOfTwo[k - 1]

\* Python's recursion limit is far above the logarithm of any number of notes.
ASSUME DepthAssumption ==
  /\ MaxDepth >= 3
  /\ \A j \in Jobs : {Len(j.notes), Len(j.block.text)} \subseteq 0 .. PowerOfTwo[MaxDepth - 3]

VARIABLES
  route, job, \* chosen once
  pc,
  slices,   \* slices of the block still to be sent
  findings, \* lengths of what the model said of the earlier ones
  batches,  \* parts of the question list still to be asked, leftmost first
  frames,   \* calls of reduce_notes: [level, todo, reduced, tail]
  enter,    \* the call of reduce_notes about to start: [notes, level], or Null
  value,    \* what a call of reduce_notes returned, or Null
  sent,     \* history: the slices or the questions in requests, in order
  answers,  \* history: lengths of the notes the model returned
  outcome   \* how the request ended, or ""

vars == <<route, job, pc, slices, findings, batches, frames, enter, value, sent, answers,
          outcome>>
reduction == <<frames, enter, value>>

-----------------------------------------------------------------------------
\* Prompts and their budgets.

\* count_messages of one user message with one text.
Tokens(text, media) == Count(route.counter, text) + Protocol + media * MediaReserve

DirectImage(r, b) == r.images /\ b.modality = "image" /\ b.media
DirectAudio(r, b) == b.modality = "audio" /\ "audio" \in r.capabilities /\ b.media

\* The media items of build_block_content.
MediaOf(b) ==
  Cardinality({m \in {"image", "audio"} :
                 IF m = "image" THEN DirectImage(route, b) ELSE DirectAudio(route, b)})
  + (IF "vision" \in route.capabilities THEN AtMost(b.related, 4) ELSE 0)

CanInspect(r, b) ==
  CASE b.modality = "text" -> "text" \in r.capabilities
    [] b.modality = "table" -> {"text", "table"} \cap r.capabilities # {}
    [] b.modality = "image" -> \/ b.text # <<>> /\ "text" \in r.capabilities
                               \/ "vision" \in r.capabilities /\ DirectImage(r, b)
    [] b.modality = "audio" -> b.text # <<>> \/ DirectAudio(r, b)
    [] b.modality = "video" -> b.text # <<>>

SourceBudget_NoMedia == Remaining(route, Tokens(Plain(InspectPrompt), 0))

SourceBudget == Remaining(route, Tokens(Plain(InspectPrompt), MediaOf(job.block)))

\* The prompt of a reduction names its level.
ReduceText(level) ==
  ReducePrompt + (CASE level \in 0 .. 9 -> 1 [] level \in 10 .. 99 -> 2 [] OTHER -> 3)
NoteBudget(level) == Remaining(route, Tokens(Plain(ReduceText(level)), 0))

FinalBudget == Remaining(route, Tokens(Plain(FinalPromptProbed), 0))

Sum(s) == FoldLeft(LAMBDA a, b : a + b, 0, s)

\* "\n".join
Joined(lengths) == IF lengths = <<>> THEN 0 ELSE Sum(lengths) + Len(lengths) - 1

CountOf(n) == Count(route.counter, Plain(n))

-----------------------------------------------------------------------------
\* Requests end with an outcome; assert_messages and the network may end them.

End(how) ==
  /\ outcome' = how
  /\ pc' = "done"
  /\ slices' = <<>>
  /\ batches' = <<>>
  /\ findings' = <<>>
  /\ frames' = <<>>
  /\ enter' = Null
  /\ value' = Null

Fits(text, media) == InputBudget(route) = Null \/ Tokens(text, media) <= InputBudget(route)

\* preflight_block, or nothing to do.
Refuse ==
  /\ pc = "start"
  /\ job.kind # "finalize"
  /\ \/ ~CanInspect(route, job.block)
     \/ job.kind = "inspect" /\ SourceBudget # Null /\ SourceBudget < MinSource
  /\ End("refused")
  /\ UNCHANGED <<route, job, sent, answers>>

StartInspect ==
  LET whole == <<[from |-> 0, to |-> Len(job.block.text)]>>
      parts == IF SourceBudget = Null THEN whole
               ELSE SplitText(route.counter, job.block.text, SourceBudget, OverlapChars)
  IN
  /\ pc = "start"
  /\ job.kind = "inspect"
  /\ CanInspect(route, job.block)
  /\ SourceBudget # Null => SourceBudget >= MinSource
  /\ IF parts = Null THEN End("budget")
     ELSE /\ slices' = parts
          /\ pc' = "slices"
          /\ UNCHANGED <<findings, batches, reduction, outcome>>
  /\ UNCHANGED <<route, job, sent, answers>>

\* One slice of the block, with its media items each time.
SendSlice(n) ==
  LET s == Head(slices)
      text == Plain(InspectPrompt) \o Slice(job.block.text, s.from, s.to)
  IN
  /\ pc = "slices"
  /\ slices # <<>>
  /\ IF ~Fits(text, MediaOf(job.block)) THEN End("budget") /\ UNCHANGED <<sent, answers>>
     ELSE /\ sent' = Append(sent, s)
          /\ answers' = answers \cup {n}
          /\ findings' = Append(findings, n)
          /\ slices' = Tail(slices)
          /\ UNCHANGED <<pc, batches, reduction, outcome>>
  /\ UNCHANGED <<route, job>>

OneFinding ==
  /\ pc = "slices"
  /\ slices = <<>>
  /\ Len(findings) = 1
  /\ End("returned")
  /\ UNCHANGED <<route, job, sent, answers>>

CondenseFindings ==
  /\ pc = "slices"
  /\ slices = <<>>
  /\ Len(findings) > 1
  /\ enter' = [notes |-> [i \in DOMAIN findings |-> SlicePrefix + findings[i]], level |-> 0]
  /\ findings' = <<>>
  /\ pc' = "reduce"
  /\ UNCHANGED <<route, job, slices, batches, frames, value, sent, answers, outcome>>

-----------------------------------------------------------------------------
\* inspect_question_batch and inspect_task_batch: a list that does not fit with the
\* whole block is halved; the left half comes first, and a failure ends both.

StartBatch ==
  /\ pc = "start"
  /\ job.kind \in {"questions", "tasks"}
  /\ CanInspect(route, job.block)
  /\ IF job.questions = <<>> THEN End("returned")
     ELSE /\ batches' = <<[i \in DOMAIN job.questions |-> i]>>
          /\ pc' = job.kind
          /\ UNCHANGED <<slices, findings, reduction, outcome>>
  /\ UNCHANGED <<route, job, sent, answers>>

BatchText(ids) ==
  Plain(BatchPrompt + Sum([i \in DOMAIN ids |-> job.questions[ids[i]]])) \o job.block.text

Halves_DropTheMiddle(ids) ==
  <<SubSeq(ids, 1, Len(ids) \div 2), SubSeq(ids, Len(ids) \div 2 + 2, Len(ids))>>

Halves(ids) ==
  <<SubSeq(ids, 1, Len(ids) \div 2), SubSeq(ids, Len(ids) \div 2 + 1, Len(ids))>>

AskFirst ==
  LET ids == Head(batches) IN
  /\ batches # <<>>
  /\ IF Fits(BatchText(ids), MediaOf(job.block))
     THEN /\ sent' = sent \o ids
          /\ batches' = Tail(batches)
          /\ UNCHANGED <<pc, slices, findings, reduction, outcome>>
     ELSE IF Len(ids) <= 1 THEN End("budget") /\ UNCHANGED sent
     ELSE /\ batches' = Halves(ids) \o Tail(batches)
          /\ UNCHANGED <<pc, slices, findings, reduction, sent, outcome>>
  /\ UNCHANGED <<route, job, answers>>

AskQuestions == pc = "questions" /\ AskFirst
AskTasks == pc = "tasks" /\ AskFirst

BatchDone ==
  /\ pc \in {"questions", "tasks"}
  /\ batches = <<>>
  /\ End("returned")
  /\ UNCHANGED <<route, job, sent, answers>>

-----------------------------------------------------------------------------
\* reduce_notes

OverLimit(notes, level) ==
  NoteBudget(level) # Null /\ Sum([i \in DOMAIN notes |-> CountOf(notes[i]) + 1]) > NoteBudget(level)

\* A note over the limit is split; Null if it cannot be.
PiecesOf(note, limit) ==
  IF CountOf(note) + 1 <= limit THEN <<note>>
  ELSE LET parts == SplitText(route.counter, Plain(note), limit, 0)
       IN  IF parts = Null THEN Null
           ELSE [i \in DOMAIN parts |-> parts[i].to - parts[i].from]

Grouped_KeepSize(pieces, limit) ==
  LET Put(acc, piece) ==
        IF acc.current # <<>> /\ acc.size > limit
        THEN [groups |-> Append(acc.groups, acc.current), current |-> <<piece>>,
              size |-> CountOf(piece) + 1]
        ELSE [acc EXCEPT !.current = Append(@, piece), !.size = @ + CountOf(piece) + 1]
      last == FoldLeft(Put, [groups |-> <<>>, current |-> <<>>, size |-> 0], pieces)
  IN  IF last.current = <<>> THEN last.groups ELSE Append(last.groups, last.current)

\* Groups of consecutive pieces, each as large as the limit allows.
Grouped(pieces, limit) ==
  LET Put(acc, piece) ==
        IF acc.current # <<>> /\ acc.size + CountOf(piece) + 1 > limit
        THEN [groups |-> Append(acc.groups, acc.current), current |-> <<piece>>,
              size |-> CountOf(piece) + 1]
        ELSE [acc EXCEPT !.current = Append(@, piece), !.size = @ + CountOf(piece) + 1]
      last == FoldLeft(Put, [groups |-> <<>>, current |-> <<>>, size |-> 0], pieces)
  IN  IF last.current = <<>> THEN last.groups ELSE Append(last.groups, last.current)

\* Too much for one prompt: reduce group by group, one level deeper.
SplitNotes ==
  LET limit == NoteBudget(enter.level)
      pieces == [i \in DOMAIN enter.notes |-> PiecesOf(enter.notes[i], limit)]
      groups == Grouped(FlattenSeq(pieces), limit)
  IN
  /\ pc = "reduce"
  /\ OverLimit(enter.notes, enter.level)
  /\ IF \E i \in DOMAIN pieces : pieces[i] = Null THEN End("budget")
     ELSE IF Len(frames) = MaxDepth THEN End("recursion")
     ELSE /\ frames' = Append(frames, [level |-> enter.level, todo |-> Tail(groups),
                                       reduced |-> <<>>, tail |-> FALSE])
          /\ enter' = [notes |-> Head(groups), level |-> enter.level + 1]
          /\ UNCHANGED <<pc, slices, findings, batches, value, outcome>>
  /\ UNCHANGED <<route, job, sent, answers>>

\* One prompt for all the notes.
ReduceCall(n) ==
  /\ pc = "reduce"
  /\ ~OverLimit(enter.notes, enter.level)
  /\ IF ~Fits(Plain(ReduceText(enter.level) + Joined(enter.notes)), 0)
     THEN End("budget") /\ UNCHANGED answers
     ELSE /\ value' = n
          /\ enter' = Null
          /\ answers' = answers \cup {n}
          /\ pc' = "return"
          /\ UNCHANGED <<slices, findings, batches, frames, outcome>>
  /\ UNCHANGED <<route, job, sent>>

\* A nested call has returned: the next group, the value itself if there was one
\* group only, or a call with what the groups were reduced to.
NestedReturn ==
  LET f == Last(frames)
      reduced == Append(f.reduced, value)
  IN
  /\ pc = "return"
  /\ frames # <<>>
  /\ IF f.tail \/ (f.todo = <<>> /\ f.reduced = <<>>)
     THEN /\ frames' = Front(frames)
          /\ UNCHANGED <<pc, enter, value>>
     ELSE /\ frames' = Append(Front(frames),
                         [f EXCEPT !.reduced = IF f.todo = <<>> THEN <<>> ELSE reduced,
                                   !.todo = IF f.todo = <<>> THEN <<>> ELSE Tail(f.todo),
                                   !.tail = f.todo = <<>>])
          /\ enter' = [notes |-> IF f.todo = <<>> THEN reduced ELSE Head(f.todo),
                       level |-> f.level + 1]
          /\ value' = Null
          /\ pc' = "reduce"
  /\ UNCHANGED <<route, job, slices, findings, batches, sent, answers, outcome>>

InspectReturn ==
  /\ pc = "return"
  /\ frames = <<>>
  /\ job.kind = "inspect"
  /\ End("returned")
  /\ UNCHANGED <<route, job, sent, answers>>

-----------------------------------------------------------------------------
\* preflight_finalize, as the evaluator calls it before finalize.

\* render_decision_bundle_checked: a header and every line.
BundleText == IF job.bundle = Null THEN Placeholder ELSE Joined(<<1>> \o job.bundle)

BundleFits ==
  (job.bundle # Null /\ FinalBudget # Null) =>
    CountOf(BundleText) <= AtLeast(MinBundle, FinalBudget)

\* shard_decision_bundle: the lines of the bundle in groups, none clipped; Null if one
\* line alone is too long.
Shards(chars) ==
  LET budget == chars - ShardReserve
      Put(acc, line) ==
        IF acc.current # <<>> /\ acc.size + line + 1 > budget
        THEN [groups |-> Append(acc.groups, acc.current), current |-> <<line>>,
              size |-> line + 1]
        ELSE [acc EXCEPT !.current = Append(@, line), !.size = @ + line + 1]
      last == FoldLeft(Put, [groups |-> <<>>, current |-> <<>>, size |-> 0], job.bundle)
  IN  IF \E i \in DOMAIN job.bundle : job.bundle[i] + 1 > budget THEN Null
      ELSE IF last.current = <<>> THEN last.groups ELSE Append(last.groups, last.current)

\* The characters of a shard: at most one per token, whatever the estimate says.
ShardChars ==
  LET tokens == AtLeast(MinBundle, FinalBudget)
      c == route.counter
  IN  AtLeast(MinShard, IF c.exact \/ c.chars >= c.tokens THEN tokens
                        ELSE (tokens * c.chars) \div c.tokens)

\* decision_bundle_blocked, or an exception of the sharding.
BundleRefused ==
  /\ pc = "start"
  /\ job.kind = "finalize"
  /\ ~BundleFits
  /\ End(IF Shards(ShardChars) = Null THEN "raised" ELSE "refused")
  /\ UNCHANGED <<route, job, sent, answers>>

\* finalize: the notes as they are, reduced, or left out.
NotesBudget ==
  NonNegative(FinalBudget - CountOf(BundleText)) \div 2

StartFinalize ==
  LET joined == Joined(job.notes)
      tooLong == FinalBudget # Null /\ CountOf(joined) > NotesBudget
  IN
  /\ pc = "start"
  /\ job.kind = "finalize"
  /\ BundleFits
  /\ IF tooLong /\ NotesBudget >= MinNotes
     THEN /\ enter' = [notes |-> job.notes, level |-> 99]
          /\ pc' = "reduce"
          /\ UNCHANGED value
     ELSE /\ value' = IF tooLong THEN Placeholder ELSE joined
          /\ pc' = "final"
          /\ UNCHANGED enter
  /\ UNCHANGED <<route, job, slices, findings, batches, frames, sent, answers, outcome>>

NotesReduced ==
  /\ pc = "return"
  /\ frames = <<>>
  /\ job.kind = "finalize"
  /\ value' = IF CountOf(value) <= NotesBudget THEN value ELSE Placeholder
  /\ pc' = "final"
  /\ UNCHANGED <<route, job, slices, findings, batches, frames, enter, sent, answers, outcome>>

\* render_typed_evidence: whole lines, at least one, up to a number of characters.
Rendered(lines, chars) ==
  LET ends == {k \in 1 .. Len(lines) :
                 \A i \in 2 .. k : Sum(SubSeq(lines, 1, i)) + i <= chars}
  IN  IF lines = <<>> THEN 0 ELSE Joined(SubSeq(lines, 1, Max(ends)))

\* The typed evidence of the final prompt.
Typed ==
  LET left == NonNegative(NonNegative(FinalBudget - CountOf(BundleText)) - CountOf(value))
      text == Rendered(job.evidence, AtMost(MaxEvidence, left))
  IN  IF FinalBudget = Null THEN Rendered(job.evidence, 2 * MaxEvidence)
      ELSE IF left >= MinEvidence /\ CountOf(text) <= left THEN text
      ELSE Placeholder

FinalCall ==
  /\ pc = "final"
  /\ End(IF Fits(Plain(FinalPrompt + BundleText + value
                         + (IF Typed = 0 THEN Placeholder ELSE Typed)), 0)
         THEN "returned" ELSE "budget at the end")
  /\ UNCHANGED <<route, job, sent, answers>>

\* The network, or an answer that is not the JSON asked for.
CallFails ==
  /\ \/ pc = "slices" /\ slices # <<>>
     \/ pc \in {"questions", "tasks"} /\ batches # <<>>
     \/ pc = "reduce" /\ ~OverLimit(enter.notes, enter.level)
     \/ pc = "final"
  /\ End("raised")
  /\ UNCHANGED <<route, job, sent, answers>>

-----------------------------------------------------------------------------

Init ==
  /\ route \in Routes
  /\ job \in Jobs
  /\ pc = "start"
  /\ slices = <<>>
  /\ findings = <<>>
  /\ batches = <<>>
  /\ frames = <<>>
  /\ enter = Null
  /\ value = Null
  /\ sent = <<>>
  /\ answers = {}
  /\ outcome = ""

Next ==
  \/ Refuse
  \/ StartInspect
  \/ \E n \in AnswerLengths : SendSlice(n)
  \/ OneFinding
  \/ CondenseFindings
  \/ StartBatch
  \/ AskQuestions
  \/ AskTasks
  \/ BatchDone
  \/ SplitNotes
  \/ \E n \in AnswerLengths : ReduceCall(n)
  \/ NestedReturn
  \/ InspectReturn
  \/ BundleRefused
  \/ StartFinalize
  \/ NotesReduced
  \/ FinalCall
  \/ CallFails

Spec == Init /\ [][Next]_vars

-----------------------------------------------------------------------------
\* Properties.

\* The slices sent are the whole text of the block, without a gap.
WholeText ==
  /\ sent[1].from = 0
  /\ Last(sent).to = Len(job.block.text)
  /\ \A i \in 1 .. Len(sent) - 1 : sent[i + 1].from <= sent[i].to

\* A block that counts as inspected went to the model completely, in slices that leave
\* nothing out, or as native media if it has no text; and a batch that returns has
\* asked every question or task exactly once, in order.
NothingIsSkipped ==
  outcome = "returned" =>
    CASE job.kind = "inspect" ->
           /\ WholeText
           /\ job.block.text = <<>> =>
                job.block.modality \in {"text", "table"} \/ MediaOf(job.block) > 0
      [] job.kind \in {"questions", "tasks"} -> sent = [i \in DOMAIN job.questions |-> i]
      [] job.kind = "finalize" -> sent = <<>>

\* The notes a reduction of this request starts from.
FirstNotes ==
  IF job.kind = "inspect" THEN {SlicePrefix + n : n \in answers} ELSE Range(job.notes)

\* The levels at which it works: the limit depends on the digits of the level.
Levels ==
  LET first == IF job.kind = "inspect" THEN 0 ELSE 99 IN first .. first + MaxDepth

\* reduce_notes comes to an end, whatever the number of notes, if each of them stays
\* below the limit and two answers of the model fit into one prompt.  (A note that is
\* exactly as long as the limit, or is split into such pieces, is reduced for ever.)
ReductionEnds ==
  outcome = "recursion" =>
    \E level \in Levels :
      \/ \E n \in FirstNotes : CountOf(n) + 1 > NoteBudget(level)
      \/ \E n \in answers : 2 * (CountOf(n) + 1) > NoteBudget(level)

\* What the preflight checks promise.  A block they accept is not refused for its size
\* later, as long as a character costs at most a token and texts add up; a final
\* judgment whose bundle, notes and evidence fit, what the probe leaves out included,
\* is made; a bundle that is refused can be sent in shards that lose no line.
PreflightIsKept ==
  /\ (job.kind = "inspect" /\ outcome = "budget") =>
       route.counter.exact \/ route.counter.tokens > route.counter.chars
  /\ outcome = "budget at the end" =>
       CountOf(BundleText) + CountOf(FinalPrompt - FinalPromptProbed)
         + AtLeast(CountOf(Placeholder), CountOf(Joined(job.notes)))
         + AtLeast(CountOf(Placeholder), CountOf(Joined(job.evidence))) > FinalBudget
  /\ (job.kind = "finalize" /\ outcome = "refused") =>
       /\ FlattenSeq(Shards(ShardChars)) = job.bundle
       /\ \A i \in DOMAIN Shards(ShardChars) :
            Joined(<<ShardReserve>> \o Shards(ShardChars)[i]) <= ShardChars
=============================================================================
