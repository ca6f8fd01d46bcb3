------------------------------- MODULE MCCorpus -------------------------------
EXTENDS Corpus

CONSTANTS t1, t2 \* model values

Part(chars) == [level |-> 0, chars |-> chars, rows |-> 0, charts |-> 0, images |-> 0]
Heading(level, chars) == [Part(chars) EXCEPT !.level = level]
SheetOf(height, charts, images) ==
  [Part(1) EXCEPT !.rows = height, !.charts = charts, !.images = images]

File(kind, parts) ==
  [path |-> kind, kind |-> kind, parts |-> parts, docling |-> FALSE, library |-> TRUE,
   rendered |-> Len(parts), lost |-> {}]

Note == File("text", <<Part(2)>>)
Table == File("csv", <<Part(1), Part(1), Part(0), Part(1)>>)
Scan == [File("other", <<Heading(1, 1), Part(2), [Part(1) EXCEPT !.images = 1]>>) EXCEPT
           !.docling = TRUE]

\* Every kind of file, with every outcome of the tools it depends on.
TextFiles ==
  {File("text", <<Part(n)>>) : n \in 0 .. 7}
    \cup {File("markdown", <<Heading(1, 2), Heading(2, 5), Heading(a, 0), Heading(b, 3)>>) :
            a \in 1 .. 3, b \in 1 .. 3}
    \cup {File("csv", [i \in 1 .. n |-> Part(IF i = 3 THEN k ELSE 1)]) : n \in 0 .. 5, k \in {0, 8}}

OfficeParts(kind) ==
  IF kind = "xlsx"
  THEN {<<SheetOf(0, 0, 0)>>, <<SheetOf(5, 1, 0), SheetOf(3, 0, 2)>>}
  ELSE {<<>>, <<Part(4)>>, <<Part(1), Part(7)>>}

OfficeFiles ==
  UNION {{[File(kind, parts) EXCEPT !.rendered = r, !.library = lib, !.lost = lost] :
             parts \in OfficeParts(kind), r \in 0 .. 2, lib \in BOOLEAN, lost \in {{}, {2}}} :
           kind \in {"pdf", "pptx", "xlsx"}}
    \cup {[File("docx", <<Part(2), Part(k)>>) EXCEPT !.rendered = r] : k \in {1, 7}, r \in 0 .. 2}

MediaFiles ==
  {File("image", <<Part(0)>>), File("unknown", <<Part(0)>>), File("none", <<>>)}
    \cup {[File(kind, [i \in 1 .. n |-> Part(0)]) EXCEPT !.library = lib, !.lost = lost] :
            kind \in {"audio", "video"}, n \in 1 .. 2, lib \in BOOLEAN, lost \in {{}, {2}}}

DoclingFiles ==
  {[File("pdf", <<Heading(a, 1), [Part(n) EXCEPT !.images = 1], Heading(b, 1),
                  [Part(7) EXCEPT !.rows = 1], Part(0)>>) EXCEPT !.docling = TRUE] :
     a \in 1 .. 2, b \in 1 .. 2, n \in {0, 4}}

\* One operation for each of these, and several for a few small corpora.
Singles ==
  {<<f>> : f \in TextFiles \cup OfficeFiles \cup MediaFiles \cup DoclingFiles}
    \cup {<<Note, Table>>, <<Scan, File("none", <<>>)>>}

OldCorpora == {<<Scan>>}
AllSubmissions == Singles \cup OldCorpora \cup {<<Table>>}
OneOperation == Singles \ {<<Table>>}

ThreadSymmetry == Permutations(Threads)
=============================================================================
