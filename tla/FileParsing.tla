------------------------------ MODULE FileParsing ------------------------------
(***************************************************************************)
(* What the parsers of src/contextmesh/ingest.py and rich_ingest.py make   *)
(* of a file: its leaf blocks, its structural blocks and the number of     *)
(* units they could not resolve.                                           *)
(*                                                                         *)
(* A file is [path, kind, parts, docling, library, rendered, lost]: parts  *)
(* are its sections, pages, slides, sheets, rows, Docling items or media   *)
(* segments, by its kind; the other fields say what the external tools do  *)
(* with it: is Docling installed, is the parser's library installed, how   *)
(* many pages are rendered as images, which images or segments cannot be   *)
(* extracted.  A text is the number of its characters, so that a unit of   *)
(* text is a position in a part.  All text is in a part's chars but        *)
(* for a sheet, whose chars are those of each of its rows.                 *)
(***************************************************************************)
EXTENDS Integers, Sequences, SequencesExt, FiniteSets, FiniteSetsExt, Functions

CONSTANTS
  WindowChars,     \* window_chars
  OverlapChars,    \* overlap_chars
  RowsPerBlock,    \* rows_per_block
  MaxTableChars    \* max_table_block_chars; 0 for None

ASSUME ParsingAssumption ==
  /\ WindowChars \in Nat \ {0} /\ RowsPerBlock \in Nat \ {0}
  /\ OverlapChars \in Nat /\ MaxTableChars \in Nat

\* A leaf holds the characters (or rows, or a whole image) from .. to - 1 of a part;
\* text is the character range of a table's text, which may be a segment of it.
Leaf(f, part, channel, from, to) ==
  [path |-> f.path, part |-> part, channel |-> channel, from |-> from, to |-> to,
   text |-> <<0, 0>>, status |-> "ready", under |-> 0]

Root(f) == [Leaf(f, 0, "root", 0, 0) EXCEPT !.status = "structural"]
Section(f, i) == [Leaf(f, i, "section", 0, 0) EXCEPT !.status = "structural"]

NotParsed == [leafs |-> <<>>, structural |-> <<>>, unresolved |-> 0, failed |-> TRUE]
Parsed(leafs, structural, unresolved) ==
  [leafs |-> leafs, structural |-> structural, unresolved |-> unresolved, failed |-> FALSE]

EachPart(f, Op(_)) == FlattenSeq([i \in DOMAIN f.parts |-> Op(i)])
PartNumbers(f, Test(_)) == {i \in DOMAIN f.parts : Test(f.parts[i])}

-----------------------------------------------------------------------------
\* Windows of a text, and their use for a part.

Windows(length) ==
  LET next[start \in 0 .. length] ==
        LET end == Min({length, start + WindowChars}) IN
        <<<<start, end>>>> \o
          IF end = length THEN <<>> ELSE next[Max({start + 1, end - OverlapChars})]
  IN IF length = 0 THEN <<>> ELSE next[0]

TextLeafs(f, i) ==
  LET w == Windows(f.parts[i].chars) IN
  [k \in DOMAIN w |-> Leaf(f, i, "text", w[k][1], w[k][2])]

\* Rows in batches; the last batch may be short.  width is the text of a batch.
RowBatches(f, i, first, last, width(_, _)) ==
  LET n == IF last < first THEN 0 ELSE ((last - first) \div RowsPerBlock) + 1 IN
  [k \in 1 .. n |->
     LET from == first + (k - 1) * RowsPerBlock
         to == Min({last + 1, from + RowsPerBlock})
     IN [Leaf(f, i, "rows", from, to) EXCEPT !.text = <<0, width(from, to)>>]]

\* The parent of a section or an item: the last open heading of a smaller level, where
\* a heading closes those of its level and below.  0 is the root.
ParentHeading(f, i) ==
  LET open == FoldLeft(
        LAMBDA stack, j :
          IF f.parts[j].level = 0 THEN stack
          ELSE Append(SelectSeq(stack, LAMBDA h : f.parts[h].level < f.parts[j].level), j),
        <<>>, [j \in 1 .. i - 1 |-> j])
      fits == IF f.parts[i].level = 0 THEN open
              ELSE SelectSeq(open, LAMBDA h : f.parts[h].level < f.parts[i].level)
  IN IF fits = <<>> THEN 0 ELSE Last(fits)

Under(f, leafs, heading(_)) ==
  [k \in DOMAIN leafs |-> [leafs[k] EXCEPT !.under = heading(leafs[k].part)]]

-----------------------------------------------------------------------------
\* Text, Markdown and CSV.

\* A Markdown file with headings: every part is a section.  A preamble is a section of
\* level 1, so that a first heading of level 2 comes under it.
TextFile(f) ==
  IF \A i \in DOMAIN f.parts : f.parts[i].level = 0
  THEN Parsed(EachPart(f, LAMBDA i : TextLeafs(f, i)), <<>>, 0)
  ELSE Parsed(Under(f, EachPart(f, LAMBDA i : TextLeafs(f, i)), LAMBDA i : i),
              [i \in DOMAIN f.parts |-> [Section(f, i) EXCEPT !.under = ParentHeading(f, i)]],
              0)

\* The rows of a CSV are its parts, the first one is the header, which is repeated in
\* every block.
CsvText(f, from, to) ==
  (f.parts[1].chars + 1) + MapThenSumSet(LAMBDA i : f.parts[i].chars + 1, from .. to - 1) - 1

CsvFile(f) ==
  IF f.parts = <<>> THEN Parsed(<<>>, <<>>, 0)
  ELSE Parsed(RowBatches(f, 1, 2, Len(f.parts), LAMBDA a, b : CsvText(f, a, b)), <<>>, 0)

-----------------------------------------------------------------------------
\* Images, documents and media.

Visual(f, i) == Leaf(f, i, "visual", 0, 1)
PageVisual(f, i) == IF i <= f.rendered THEN <<Visual(f, i)>> ELSE <<>>
TextAndVisual(f) == EachPart(f, LAMBDA i : TextLeafs(f, i) \o PageVisual(f, i))

ImageFile(f) == Parsed(<<Visual(f, 1)>>, <<>>, 0)

\* The renderer may find fewer pages than the reader of the text, which is not counted;
\* only a PDF of which it finds no page at all is.
PdfFile(f) ==
  Parsed(TextAndVisual(f), <<>>, IF f.rendered = 0 THEN Len(f.parts) ELSE 0)

\* The office converter may render fewer pages than there are slides, which is counted.
PptxFile_RenderedIsEnough(f) ==
  Parsed(TextAndVisual(f), <<>>, IF f.rendered = 0 THEN Len(f.parts) ELSE 0)

PptxFile(f) ==
  Parsed(TextAndVisual(f), <<>>, Max({0, Len(f.parts) - f.rendered}))

Rendered(f) == [i \in 1 .. f.rendered |-> Leaf(f, 0, "page", i, i + 1)]

SheetText(f, i, from, to) == (to - from) * (f.parts[i].chars + 1) - 1

Sheet(f, i) ==
  RowBatches(f, i, 1, f.parts[i].rows, LAMBDA a, b : SheetText(f, i, a, b))
    \o [k \in 1 .. f.parts[i].charts |-> Leaf(f, i, "chart", k, k + 1)]
    \o (IF i \in f.lost THEN <<>>
        ELSE [k \in 1 .. f.parts[i].images |-> Leaf(f, i, "image", k, k + 1)])

XlsxFile(f) ==
  LET images(i) == f.parts[i].images
      drawn == MapThenSumSet(LAMBDA i : f.parts[i].charts + images(i), DOMAIN f.parts)
  IN Parsed(EachPart(f, LAMBDA i : Sheet(f, i)) \o (IF drawn > 0 THEN Rendered(f) ELSE <<>>),
            <<>>,
            MapThenSumSet(images, f.lost \cap DOMAIN f.parts)
              + IF f.rendered = 0 THEN drawn ELSE 0)

\* Paragraphs are one text, part 1; the other parts are tables.
DocxFile(f) ==
  Parsed(EachPart(f, LAMBDA i :
           IF i = 1 THEN TextLeafs(f, i)
           ELSE <<[Leaf(f, i, "text", 0, f.parts[i].chars) EXCEPT
                     !.text = <<0, f.parts[i].chars>>]>>) \o Rendered(f),
         <<>>, IF f.rendered = 0 THEN 1 ELSE 0)

\* Audio and video: the parts are the segments.  A short audio file, or one of unknown
\* duration (no library), is one block without extraction.
AudioFile(f) ==
  IF ~f.library \/ Len(f.parts) = 1
  THEN Parsed(<<Leaf(f, 1, "media", 1, Len(f.parts) + 1)>>, <<>>, 0)
  ELSE Parsed(EachPart(f, LAMBDA i : IF i \in f.lost THEN <<>> ELSE <<Leaf(f, 1, "media", i, i + 1)>>),
              <<>>, Cardinality(f.lost))

VideoFile(f) ==
  IF ~f.library THEN Parsed(<<>>, <<>>, 1)
  ELSE Parsed(EachPart(f, LAMBDA i : IF i \in f.lost THEN <<>> ELSE <<Leaf(f, 1, "media", i, i + 1)>>),
              <<>>, Cardinality(f.lost))

\* Docling: items are headings (level > 0), texts, tables (rows > 0) and images
\* (images > 0), of which only the caption is kept; an image without one is
\* unresolved.  Every item has at least one block.
DoclingItem(f, i) ==
  LET item == f.parts[i]
      unresolved == item.images > 0 /\ item.chars = 0
      leafs == IF item.chars > 0 THEN TextLeafs(f, i) ELSE <<Leaf(f, i, "text", 0, 0)>>
  IN [k \in DOMAIN leafs |->
        [leafs[k] EXCEPT !.status = IF unresolved THEN "unresolved" ELSE "ready",
                         !.text = IF item.rows > 0 THEN <<0, leafs[k].to - leafs[k].from>> ELSE @]]

DoclingFile(f) ==
  LET headings == SetToSortSeq(PartNumbers(f, LAMBDA p : p.level > 0), <)
      items == PartNumbers(f, LAMBDA p : p.level = 0)
      leafs == FlattenSeq([k \in 1 .. Cardinality(items) |->
                 DoclingItem(f, SetToSortSeq(items, <)[k])])
      parent(i) == ParentHeading(f, i)
  IN Parsed(Under(f, leafs, parent),
            [k \in DOMAIN headings |->
               [Section(f, headings[k]) EXCEPT !.under = parent(headings[k])]],
            Len(SelectSeq(leafs, LAMBDA b : b.status = "unresolved")))

-----------------------------------------------------------------------------
\* The parser of a file, and the bound on its tables.

ParseFile(f) ==
  CASE f.kind \in {"text", "markdown"} -> TextFile(f)
    [] f.kind = "csv" -> CsvFile(f)
    [] f.kind = "image" -> ImageFile(f)
    [] f.kind = "audio" -> AudioFile(f)
    [] f.kind = "video" -> VideoFile(f)
    [] f.docling -> DoclingFile(f)
    [] f.kind = "pdf" /\ f.library -> PdfFile(f)
    [] f.kind = "pptx" /\ f.library -> PptxFile(f)
    [] f.kind = "xlsx" /\ f.library -> XlsxFile(f)
    [] f.kind = "docx" /\ f.library -> DocxFile(f)
    [] OTHER -> NotParsed

\* Where the lines of a table's text end.
LineLengths(f, leaf) ==
  LET row(i) == IF f.kind = "csv" THEN f.parts[i].chars ELSE f.parts[leaf.part].chars
      rows == [k \in 1 .. leaf.to - leaf.from |-> row(leaf.from + k - 1) + 1]
      lines == IF leaf.channel # "rows" THEN <<leaf.text[2]>>
               ELSE IF f.kind = "csv" THEN <<f.parts[1].chars + 1>> \o rows ELSE rows
      cut == IF leaf.channel = "rows"
             THEN [lines EXCEPT ![Len(lines)] = @ - 1] ELSE lines
  IN SelectSeq(cut, LAMBDA n : n > 0)

\* _bounded_table_segments: whole lines while they fit, a line that is longer than the
\* bound in pieces.
TableSegments(lines, bound) ==
  LET flush(st) == IF st.size = 0 THEN st.done
                   ELSE Append(st.done, <<st.at - st.size, st.at>>)
      pieces(at, n) == [k \in 1 .. (n + bound - 1) \div bound |->
                          <<at + (k - 1) * bound, at + Min({n, k * bound})>>]
      step(st, n) ==
        IF n > bound
        THEN [done |-> flush(st) \o pieces(st.at, n), size |-> 0, at |-> st.at + n]
        ELSE IF st.size + n > bound
        THEN [done |-> flush(st), size |-> n, at |-> st.at + n]
        ELSE [st EXCEPT !.size = @ + n, !.at = @ + n]
  IN flush(FoldLeft(step, [done |-> <<>>, size |-> 0, at |-> 0], lines))

IsTable(leaf) == leaf.text[2] > 0

BoundTable(f, leaf) ==
  IF MaxTableChars = 0 \/ ~IsTable(leaf) \/ leaf.status = "unresolved"
       \/ leaf.text[2] <= MaxTableChars
  THEN <<leaf>>
  ELSE LET segs == TableSegments(LineLengths(f, leaf), MaxTableChars)
       IN [k \in DOMAIN segs |-> [leaf EXCEPT !.text = segs[k]]]

\* The leaf blocks of a file once its tables are bounded, as a set ...
Leafs(f, parsed) == UNION {ToSet(BoundTable(f, b)) : b \in ToSet(parsed.leafs)}

\* The structural blocks keep the ids of their children, which a split table changes.
RewriteChildren_Not(f, leafs) == leafs

RewriteChildren(f, leafs) == UNION {ToSet(BoundTable(f, b)) : b \in leafs}

\* The children of a structural block.  A CSV's root and a Docling root get their
\* children before tables are bounded and keep them.
Children(f, parsed, block) ==
  LET mine == {b \in ToSet(parsed.leafs) : b.under = block.part}
      sections == {s \in ToSet(parsed.structural) : s.under = block.part}
  IN IF block.channel = "section" THEN sections \cup RewriteChildren(f, mine)
     ELSE sections \cup Leafs(f, parsed) \cup IF f.kind = "csv" \/ f.docling THEN mine ELSE {}

\* ... and in order.
BoundedLeafs(f, parsed) ==
  FlattenSeq([k \in DOMAIN parsed.leafs |-> BoundTable(f, parsed.leafs[k])])

Splits(f, parsed) == \E b \in ToSet(parsed.leafs) : BoundTable(f, b) # <<b>>

-----------------------------------------------------------------------------
\* Reference definitions: the units a file has, and those its blocks hold.

ByDocling(f) ==
  f.docling /\ f.kind \notin {"text", "markdown", "csv", "image", "audio", "video"}

FileUnits(f) ==
  LET all(channel, count(_)) ==
        UNION {{<<channel, i, k>> : k \in 1 .. count(f.parts[i])} : i \in DOMAIN f.parts}
      chars == all("text", LAMBDA p : p.chars)
      pictures == all("image", LAMBDA p : p.images)
  IN CASE f.kind = "csv" -> chars
       [] f.kind = "image" -> {<<"visual", 1, 1>>}
       [] f.kind \in {"audio", "video"} -> {<<"media", 1, i>> : i \in DOMAIN f.parts}
       [] ByDocling(f) -> chars \cup pictures \cup {<<"layout", 0, 1>>}
       [] f.kind \in {"pdf", "pptx"} ->
            chars \cup {<<"visual", i, 1>> : i \in DOMAIN f.parts}
       [] f.kind = "docx" -> chars \cup {<<"layout", 0, 1>>}
       [] f.kind = "xlsx" ->
            all("row", LAMBDA p : p.rows * (p.chars + 1) - 1) \cup pictures
              \cup all("chart", LAMBDA p : p.charts)
              \cup IF \E p \in ToSet(f.parts) : p.charts + p.images > 0
                   THEN {<<"layout", 0, 1>>} ELSE {}
       [] OTHER -> chars

\* The units that a parser drops without counting them as unresolved: a CSV that is only
\* a header has no block; pages of a PDF that the renderer did not find; and with Docling
\* the look of the pages, the pictures that have a caption, and the text of a heading,
\* which is only the title of a section.
Overlooked(f) ==
  CASE f.kind = "csv" -> IF Len(f.parts) = 1 THEN FileUnits(f) ELSE {}
    [] ByDocling(f) ->
         {u \in FileUnits(f) :
            \/ u[1] = "layout"
            \/ u[1] = "image" /\ f.parts[u[2]].chars > 0
            \/ u[1] = "text" /\ f.parts[u[2]].level > 0}
    [] f.kind = "pdf" /\ f.rendered > 0 ->
         {u \in FileUnits(f) : u[1] = "visual" /\ u[2] > f.rendered}
    [] OTHER -> {}

\* The position in the rows of a table at which a character of a leaf's text is.
RowUnits(f, leaf) ==
  LET within(k) == k > leaf.text[1] /\ k <= leaf.text[2]
      start(i) == (f.parts[1].chars + 1)
        + MapThenSumSet(LAMBDA j : f.parts[j].chars + 1, leaf.from .. i - 1)
      csv(i, at) == {<<"text", i, c>> : c \in {d \in 1 .. f.parts[i].chars : within(at + d)}}
  IN IF f.kind = "csv"
     THEN csv(1, 0) \cup UNION {csv(i, start(i)) : i \in leaf.from .. leaf.to - 1}
     ELSE LET width == f.parts[leaf.part].chars + 1
              before == (leaf.from - 1) * width
          IN {<<"row", leaf.part, before + k>> :
                k \in {d \in 1 .. (leaf.to - leaf.from) * width : within(d)}}
               \cup {<<"row", leaf.part, before>>}

LeafUnits(f, leaf) ==
  LET span == (leaf.from + 1) .. leaf.to IN
  CASE leaf.channel = "rows" -> RowUnits(f, leaf)
    [] leaf.channel = "text" ->
         {<<"text", leaf.part, c>> :
            c \in IF IsTable(leaf) THEN (leaf.from + leaf.text[1] + 1) .. (leaf.from + leaf.text[2])
                  ELSE span}
    [] leaf.channel = "visual" -> {<<"visual", leaf.part, 1>>}
    [] leaf.channel = "page" -> {<<"layout", 0, 1>>}
    [] leaf.channel = "media" -> {<<"media", 1, k>> : k \in leaf.from .. leaf.to - 1}
    [] leaf.channel = "chart" -> {<<"chart", leaf.part, leaf.from>>}
    [] leaf.channel = "image" -> {<<"image", leaf.part, leaf.from>>}
=============================================================================
