---------------------------- MODULE Corpus_proofs ----------------------------
(***************************************************************************)
(* Theorems about Corpus, for any submissions, files, threads and bounds:  *)
(* the stores hold blocks of the submitted files and the text index only   *)
(* what the catalog has; the manifest and the navigation from it can be    *)
(* served; the orders of a manifest and of the text index are exact; the   *)
(* job tells what became of the manifest, and a manifest that says it is   *)
(* ready covers every unit of every file.  Only this last theorem looks at *)
(* what a block holds, through the hypothesis UnitsAreHeld; to all others  *)
(* a file is its set of leaf blocks and its set of structural blocks.      *)
(***************************************************************************)
EXTENDS Corpus, SequenceTheorems, FiniteSetTheorems, WellFoundedInduction, TLAPS

AllBlocks == UNION {BlocksOf(f) : f \in Files}

-----------------------------------------------------------------------------
\* The inductive invariants.

Fields == DOMAIN IdleThread

Ingesting == {"file", "put", "probe", "upsert", "report", "manifest", "close"}
Reading ==
  {"ensure", "fallback", "migrate", "migrated", "load", "probe", "upsert", "rank", "answered"}
Deleting == {"remove", "delete rows", "delete payloads", "delete uploads"}
Storing == {"put", "probe", "upsert"}

\* Where a thread may be in its operation.
PlaceFits(th) ==
  \/ th.op = "idle" /\ th.pc = "idle"
  \/ th.op = "ingest" /\ th.pc \in Ingesting
  \/ th.op = "read" /\ th.pc \in Reading
  \/ th.op = "delete" /\ th.pc \in Deleting

Current(th) == th.files[th.file]

\* What a thread carries while it stores, and what it may do next.
WorkFits(th) ==
  /\ th.pc \in Storing => th.batches # <<>>
  /\ th.op = "ingest" =>
       /\ th.after \in {"idle", "file", "report"}
       /\ th.pc \in Storing => th.after \in {"file", "report"}
       /\ th.pc \in Storing \cup {"report"} => Current(th) \in Files
  /\ th.op = "read" /\ th.pc \in Storing => th.after = "rank"

DataFits(th) ==
  /\ th.files \in Seq(SubmittedFiles) /\ th.file \in Nat
  /\ th.batches \in Seq(SUBSET AllBlocks)
  /\ th.existing \subseteq AllBlocks

Fits(th) == DOMAIN th = Fields /\ PlaceFits(th) /\ WorkFits(th) /\ DataFits(th)

ThreadsFit == DOMAIN threads = Threads /\ \A t \in Threads : Fits(threads[t])

StoresFit ==
  /\ rows \cup payload \cup legacy \cup removed \subseteq AllBlocks
  /\ IsABag(fts) /\ BagToSet(fts) \subseteq rows

JobFits ==
  /\ job \in {"none", "queued", "running", "complete", "partial", "failed", "interrupted"}
  /\ queue \subseteq Seq(SubmittedFiles)

ShapeInv == StoresFit /\ JobFits /\ ThreadsFit

\* The blocks that a thread has yet to write to the payload store.
Pending(th) ==
  IF th.pc = "put" THEN UNION ToSet(th.batches)
  ELSE IF th.pc \in Storing THEN UNION ToSet(Tail(th.batches))
  ELSE {}

\* The files that a manifest names are in the stores S.
FileIsIn(f, S) == f \in Files /\ BlocksOf(f) \subseteq S
ReportedAreIn(reported, S) == \A f \in ToSet(reported) : FileIsIn(f, S)
ManifestIsIn(man, S) == ReportedAreIn(man.reported, S) /\ man.roots \subseteq S

\* An ingest has stored what it has reported, and has stored or is about to store the
\* blocks of the file it is at, of which it may report the file or only name the root.
IngestIsIn(th, S) ==
  /\ th.reported \in Seq(Files) /\ ReportedAreIn(th.reported, S)
  /\ \A b \in th.roots : b \in S \/ (th.pc \in Storing /\ b = Root(Current(th)))
  /\ th.pc \in Storing => Root(Current(th)) \in S \cup Pending(th)
  /\ th.pc \in Storing /\ th.after = "report" => BlocksOf(Current(th)) \subseteq S \cup Pending(th)
  /\ th.pc = "report" => BlocksOf(Current(th)) \subseteq S
  /\ th.pc = "manifest" => ManifestIsIn(th.man, S)

\* What is stored, or was until a deletion removed its JSON file.
Stored == payload \cup legacy \cup removed
NoDeleteBeside == "delete" \notin UNION overlapped

ServedInv ==
  NoDeleteBeside =>
    /\ manifest # None => ManifestIsIn(manifest, Stored)
    /\ \A t \in Threads :
         /\ threads[t].op = "ingest" => IngestIsIn(threads[t], Stored)
         /\ threads[t].op = "delete" =>
              /\ threads[t].pc = "remove" \/ manifest = None
              /\ \A u \in Threads \ {t} : threads[u].op = "idle"

NoSecondIngest == {{"ingest"}, {"ingest", "delete"}} \cap overlapped = {}

\* An ingest that is alone owns the job, and the manifest from when it has written it.
TellsInv ==
  NoSecondIngest =>
    /\ manifest # None => (job = "complete" => manifest.ready) /\ (job = "partial" => ~manifest.ready)
    /\ \A t \in Threads :
         threads[t].op = "ingest" =>
           /\ job \in {"queued", "running"}
           /\ threads[t].pc = "close" => manifest = threads[t].man
           /\ \A u \in Threads \ {t} : threads[u].op \notin {"ingest", "delete"}

\* The lists that a thread has made of the reported files, and its batches, which are finite.
ListsFit(th) ==
  /\ \A batch \in ToSet(th.batches) : IsFiniteSet(batch)
  /\ th.op = "ingest" =>
       th.reported \in Seq(Files) /\ (th.pc = "manifest" => th.man.reported \in Seq(Files))
  /\ th.op = "read" =>
       /\ th.required \in Seq(AllBlocks)
       /\ th.pc \in {"migrate", "migrated", "load"} => th.man.reported \in Seq(Files)
       /\ th.pc = "answered" => ToSet(th.order) = ToSet(th.required)

ListsInv ==
  /\ manifest # None => manifest.reported \in Seq(Files)
  /\ IsFiniteSet(DOMAIN fts)
  /\ \A t \in Threads : ListsFit(threads[t])

\* While no two threads index the same block, the index has a block once, and a thread that
\* is about to index a batch has found what the index has of it.
IndexFits(th) ==
  /\ th.pc = "upsert" => DOMAIN fts \cap Head(th.batches) \subseteq th.existing
  /\ th.pc = "answered" /\ IsInjective(th.required) => IsInjective(th.order)

Apart(th, other) ==
  th.pc = "upsert" /\ other.pc = "upsert" => Head(th.batches) \cap Head(other.batches) = {}

IndexedOnce == {"index"} \notin overlapped

IndexInv ==
  IndexedOnce =>
    /\ \A b \in DOMAIN fts : fts[b] = 1
    /\ \A t \in Threads : IndexFits(threads[t])
    /\ \A t \in Threads : \A u \in Threads \ {t} : Apart(threads[t], threads[u])

\* A report that counts nothing as lost is of a file of which the parser lost nothing.
AnyReport == [status : {"complete", "partial", "failed"}, resolved : Nat, unresolved : Nat]
Full(report) == report.unresolved = 0 /\ report.status = "complete"

Resolved(f) == f \in Files /\ ~Parse[f].failed /\ Parse[f].unresolved = 0
Told(f, reported) == Resolved(f) /\ f \in ToSet(reported)

\* The reports are those of the files in order, but for the one that is stored.
AtHand(th) == th.pc \in Storing \cup {"report"} /\ th.after = "report"

ReportsTell(th) ==
  /\ th.reports \in Seq(AnyReport)
  /\ Len(th.reports) = IF AtHand(th) THEN th.file - 1 ELSE th.file
  /\ \A i \in DOMAIN th.reports : Full(th.reports[i]) => Told(th.files[i], th.reported)

ManifestTells(man) == man.ready => \A f \in ToSet(man.files) : Told(f, man.reported)

ReportsFit(th) ==
  th.op = "ingest" =>
    /\ th.pc \in {"file", "report"} \cup Storing => ReportsTell(th)
    /\ th.pc = "report" => th.after = "report"
    /\ AtHand(th) => ~Parse[Current(th)].failed
    /\ th.pc = "manifest" => ManifestTells(th.man)

ReportsInv ==
  /\ manifest # None => ManifestTells(manifest)
  /\ \A t \in Threads : ReportsFit(threads[t])

\* What the theorem needs of the parsers: no unit is left out that is not counted, but
\* for those that Overlooked names.
UnitsAreHeld ==
  \A f \in Files : Resolved(f) =>
    HoldsUnits(f, UnitsOf[f] \ OverlookedOf[f], ToSet(RequiredOf[f]))

-----------------------------------------------------------------------------
\* The data: files and their blocks.

LEMMA FileFacts ==
  ASSUME NEW f \in Files
  PROVE  /\ LeafsOf[f] \subseteq AllBlocks
         /\ ToSet(Parse[f].structural) \subseteq StructureOf[f]
         /\ StructureOf[f] = ToSet(Parse[f].structural) \cup {Root(f)}
         /\ StructureOf[f] \subseteq AllBlocks /\ Root(f) \in AllBlocks
         /\ BlocksOf(f) \subseteq AllBlocks
<1>1. StructureOf[f] = ToSet(Parse[f].structural) \cup {Root(f)}
  BY DEF StructureOf
<1>2. BlocksOf(f) \subseteq AllBlocks
  BY DEF AllBlocks
<1> QED
  BY <1>1, <1>2 DEF BlocksOf

LEMMA ListedFile ==
  ASSUME NEW files \in Seq(SubmittedFiles), NEW i \in 1 .. Len(files), files[i].kind # "none"
  PROVE  files[i] \in Files
  BY DEF Files

LEMMA OneMore ==
  ASSUME NEW S, NEW seq \in Seq(S), NEW last \in Seq(S), Len(last) = 1
  PROVE  /\ seq \o last \in Seq(S) /\ seq \o last # <<>>
         /\ Range(seq \o last) = Range(seq) \cup Range(last)
<1>1. seq \o last \in Seq(S) /\ Len(seq \o last) = Len(seq) + Len(last)
  BY ConcatProperties, Zenon
<1>2. Len(seq) \in Nat
  OBVIOUS
<1> QED
  BY <1>1, <1>2, RangeConcatenation

LEMMA FirstAndRest ==
  ASSUME NEW S, NEW seq \in Seq(S), seq # <<>>
  PROVE  /\ Head(seq) \in S /\ Tail(seq) \in Seq(S)
         /\ Len(seq) # 1 => Tail(seq) # <<>>
         /\ Len(seq) = 1 => Tail(seq) = <<>>
         /\ Range(seq) = {Head(seq)} \cup Range(Tail(seq))
<1>1. /\ Head(seq) \in S /\ Tail(seq) \in Seq(S) /\ Len(Tail(seq)) = Len(seq) - 1
      /\ Head(seq) = seq[1] /\ Len(seq) \in Nat /\ Len(seq) # 0
      /\ \A i \in 1 .. Len(Tail(seq)) : Tail(seq)[i] = seq[i + 1]
  BY HeadTailProperties
<1>2. Len(seq) # 1 => Tail(seq) # <<>>
  <2>1. Tail(seq) = <<>> => Len(Tail(seq)) = 0
    <3>1. Len(<<>>) = 0
      OBVIOUS
    <3> QED
      BY <3>1, Zenon
  <2>2. ASSUME NEW m, NEW n \in Nat, m = n - 1, m = 0 PROVE n = 1
    BY <2>2
  <2>3. Len(Tail(seq)) = 0 => Len(seq) = 1
    BY <1>1, <2>2, Zenon
  <2> QED
    BY <2>1, <2>3, Zenon
<1>3. Len(seq) = 1 => Tail(seq) = <<>>
  <2>1. Len(seq) = 1 => Len(Tail(seq)) = 0
    BY <1>1
  <2>2. ASSUME NEW rest \in Seq(S), Len(rest) = 0 PROVE rest = <<>>
    BY <2>2
  <2> QED
    BY <1>1, <2>1, <2>2
<1>4. Range(seq) = {seq[i] : i \in 1 .. Len(seq)}
  BY RangeEquality
<1>5. Range(Tail(seq)) = {Tail(seq)[i] : i \in 1 .. Len(Tail(seq))}
  BY <1>1, RangeEquality
<1>6. ASSUME NEW x \in Range(seq) PROVE x \in {Head(seq)} \cup Range(Tail(seq))
  <2>1. PICK i \in 1 .. Len(seq) : x = seq[i]
    BY <1>4
  <2>2. CASE i = 1
    BY <1>1, <2>1, <2>2
  <2>3. CASE i # 1
    <3>1. i - 1 \in 1 .. Len(Tail(seq)) /\ Tail(seq)[i - 1] = seq[i - 1 + 1] /\ i - 1 + 1 = i
      BY <1>1, <2>3
    <3> QED
      BY <1>5, <2>1, <3>1
  <2> QED
    BY <2>2, <2>3
<1>7. ASSUME NEW x \in {Head(seq)} \cup Range(Tail(seq)) PROVE x \in Range(seq)
  <2>1. CASE x = Head(seq)
    <3>1. 1 \in 1 .. Len(seq)
      BY <1>1
    <3> QED
      BY <1>1, <1>4, <2>1, <3>1
  <2>2. CASE x \in Range(Tail(seq))
    <3>1. PICK i \in 1 .. Len(Tail(seq)) : x = Tail(seq)[i]
      BY <1>5, <2>2
    <3>2. x = seq[i + 1] /\ i + 1 \in 1 .. Len(seq)
      BY <1>1, <3>1
    <3> QED
      BY <1>4, <3>2
  <2> QED
    BY <1>7, <2>1, <2>2
<1> QED
  BY <1>1, <1>2, <1>3, <1>6, <1>7

\* The batches of a file are sets of its blocks, at least its root, and all of them.
LEMMA FileBatches ==
  ASSUME NEW f \in Files
  PROVE  LET batches == Batch(LeafsOf[f]) \o Batch(ToSet(Parse[f].structural)) \o <<{Root(f)}>>
         IN /\ batches \in Seq(SUBSET AllBlocks) /\ batches # <<>>
            /\ BlocksOf(f) \subseteq UNION ToSet(batches)
<1> DEFINE L == LeafsOf[f]
           P == ToSet(Parse[f].structural)
           R == {Root(f)}
           both == Batch(L) \o Batch(P)
           last == <<R>>
<1>1. L \subseteq AllBlocks /\ P \subseteq AllBlocks /\ R \subseteq AllBlocks
  BY FileFacts
<1>2. BlocksOf(f) = L \cup P \cup R
  BY FileFacts DEF BlocksOf
<1> HIDE DEF L, P, R
<1>3. ASSUME NEW B \in SUBSET AllBlocks
      PROVE  Batch(B) \in Seq(SUBSET AllBlocks) /\ UNION Range(Batch(B)) = B
  <2>1. CASE B = {}
    <3>1. Batch(B) = <<>> /\ Range(<<>>) = {}
      BY <2>1 DEF Batch, Range
    <3>2. <<>> \in Seq(SUBSET AllBlocks)
      OBVIOUS
    <3> QED
      BY <2>1, <3>1, <3>2, Zenon
  <2>2. CASE B # {}
    <3>1. Batch(B) = <<B>> /\ Range(<<B>>) = {B}
      BY <2>2 DEF Batch, Range
    <3> QED
      BY <2>2, <3>1
  <2> QED
    BY <2>1, <2>2
<1>4. /\ Batch(L) \in Seq(SUBSET AllBlocks) /\ UNION Range(Batch(L)) = L
      /\ Batch(P) \in Seq(SUBSET AllBlocks) /\ UNION Range(Batch(P)) = P
  BY <1>1, <1>3
<1>5. last \in Seq(SUBSET AllBlocks) /\ UNION Range(last) = R
  BY <1>1 DEF Range
<1>6. /\ both \in Seq(SUBSET AllBlocks)
      /\ Range(both) = Range(Batch(L)) \cup Range(Batch(P))
  BY <1>4, RangeConcatenation
<1>last. Len(last) = 1
  OBVIOUS
<1> HIDE DEF both, last
<1>7. /\ both \o last \in Seq(SUBSET AllBlocks)
      /\ Range(both \o last) = Range(both) \cup Range(last)
      /\ both \o last # <<>>
  BY <1>5, <1>6, <1>last, OneMore
<1>8. BlocksOf(f) \subseteq UNION Range(both \o last)
  BY <1>2, <1>4, <1>5, <1>6, <1>7
<1> QED
  BY <1>7, <1>8 DEF both, last, L, P, R, ToSet, Range

-----------------------------------------------------------------------------
\* Shapes.

LEMMA FieldsAre ==
  Fields = {"op", "pc", "files", "file", "batches", "existing", "reported", "roots",
            "reports", "required", "order", "man", "after"}
  BY DEF Fields, IdleThread

\* A step of one thread.
LEMMA ShapeStep ==
  ASSUME ShapeInv, NEW t \in Threads, NEW new, Move(t, new), Fits(new), StoresFit', JobFits'
  PROVE  ShapeInv'
<1>1. ThreadsFit
  BY DEF ShapeInv
<1>2. DOMAIN threads' = Threads /\ \A u \in Threads : threads'[u] = IF u = t THEN new ELSE threads[u]
  BY <1>1 DEF Move, ThreadsFit
<1>3. ThreadsFit'
  BY <1>1, <1>2, Zenon DEF ThreadsFit
<1> QED
  BY <1>3 DEF ShapeInv

LEMMA IdleFits == Fits(IdleThread)
<1>1. /\ IdleThread.op = "idle" /\ IdleThread.pc = "idle" /\ IdleThread.after = "idle"
      /\ IdleThread.files = <<>> /\ IdleThread.batches = <<>> /\ IdleThread.file = 0
      /\ IdleThread.existing = {}
  BY DEF IdleThread
<1>2. <<>> \in Seq(SubmittedFiles) /\ <<>> \in Seq(SUBSET AllBlocks)
  OBVIOUS
<1> QED
  BY <1>1, <1>2 DEF Fits, Fields, PlaceFits, WorkFits, DataFits, Storing

LEMMA StoresKept ==
  ASSUME StoresFit, UNCHANGED <<rows, fts, legacy, removed>>, payload' \subseteq AllBlocks
  PROVE  StoresFit'
  BY DEF StoresFit

LEMMA JobKept == ASSUME JobFits, UNCHANGED <<job, queue>> PROVE JobFits'
  BY DEF JobFits

\* Storing a batch.
LEMMA PutShape ==
  ASSUME ShapeInv, NEW t \in Threads, PutPayloads(t)
  PROVE  ShapeInv'
<1> DEFINE th == threads[t]
           new == [th EXCEPT !.pc = "probe"]
<1>1. Fits(th) /\ StoresFit /\ JobFits
  BY DEF ShapeInv, ThreadsFit
<1>2. /\ th.pc = "put" /\ Move(t, new) /\ th.batches # <<>>
      /\ payload' = payload \cup Head(th.batches)
      /\ UNCHANGED <<rows, legacy, removed, fts>> /\ UNCHANGED <<job, queue>>
  BY DEF PutPayloads, T, inputs
<1>3. /\ DOMAIN new = Fields /\ new.pc = "probe" /\ new.existing = th.existing
      /\ new.op = th.op /\ new.files = th.files /\ new.file = th.file /\ new.after = th.after
      /\ new.batches = th.batches
  BY <1>1, FieldsAre DEF Fits
<1> HIDE DEF th, new
<1>4. Fits(new)
  BY <1>1, <1>2, <1>3
     DEF Fits, PlaceFits, WorkFits, DataFits, Storing, Current, Ingesting, Reading, Deleting
<1>5. Head(th.batches) \subseteq AllBlocks
  BY <1>1, <1>2 DEF Fits, DataFits
<1>6. StoresFit'
  BY <1>1, <1>2, <1>5 DEF StoresFit
<1> QED
  BY <1>1, <1>2, <1>4, <1>6, JobKept, ShapeStep

LEMMA ProbeShape ==
  ASSUME ShapeInv, NEW t \in Threads, ProbeCatalog(t)
  PROVE  ShapeInv'
<1> DEFINE th == threads[t]
           new == [th EXCEPT !.pc = "upsert", !.existing = rows \cap Head(th.batches)]
<1>1. Fits(th) /\ StoresFit /\ JobFits
  BY DEF ShapeInv, ThreadsFit
<1>2. /\ th.pc = "probe" /\ Move(t, new)
      /\ UNCHANGED <<rows, payload, legacy, removed, fts>> /\ UNCHANGED <<job, queue>>
  BY DEF ProbeCatalog, T, inputs, stores
<1>3. /\ DOMAIN new = Fields /\ new.pc = "upsert" /\ new.existing = rows \cap Head(th.batches)
      /\ new.op = th.op /\ new.files = th.files /\ new.file = th.file /\ new.after = th.after
      /\ new.batches = th.batches
  BY <1>1, FieldsAre DEF Fits
<1> HIDE DEF th, new
<1>4. Fits(new)
  BY <1>1, <1>2, <1>3
     DEF Fits, PlaceFits, WorkFits, DataFits, Storing, Current, Ingesting, Reading, Deleting, StoresFit
<1>5. StoresFit'
  BY <1>1, <1>2 DEF StoresFit
<1> QED
  BY <1>1, <1>2, <1>4, <1>5, JobKept, ShapeStep

\* The text index stays a bag, of what it had and the batch.
LEMMA IndexedRows ==
  ASSUME NEW bag, IsABag(bag), NEW batch, NEW existing
  PROVE  /\ IsABag(IndexRows(bag, batch, existing))
         /\ BagToSet(IndexRows(bag, batch, existing)) \subseteq BagToSet(bag) \cup batch
  BY DEF IndexRows, IsABag, BagToSet, SetToBag, WithoutRows, (+)

LEMMA UpsertShape ==
  ASSUME ShapeInv, NEW t \in Threads, UpsertCatalog(t)
  PROVE  ShapeInv'
<1> DEFINE th == threads[t]
           batch == Head(th.batches)
           pc == IF Len(th.batches) = 1 THEN th.after ELSE IF th.op = "read" THEN "probe" ELSE "put"
           new == [th EXCEPT !.batches = Tail(th.batches), !.existing = {}, !.pc = pc]
<1>1. Fits(th) /\ StoresFit /\ JobFits
  BY DEF ShapeInv, ThreadsFit
<1>2. /\ th.pc = "upsert" /\ Move(t, new)
      /\ rows' = rows \cup batch /\ fts' = IndexRows(fts, batch, th.existing)
      /\ UNCHANGED <<payload, legacy, removed>> /\ UNCHANGED <<job, queue>>
  BY DEF UpsertCatalog, T, inputs
<1>3. /\ DOMAIN new = Fields /\ new.pc = pc /\ new.existing = {} /\ new.batches = Tail(th.batches)
      /\ new.op = th.op /\ new.files = th.files /\ new.file = th.file /\ new.after = th.after
  BY <1>1, FieldsAre DEF Fits
<1>4. th.batches # <<>> /\ th.batches \in Seq(SUBSET AllBlocks)
  BY <1>1, <1>2 DEF Fits, WorkFits, DataFits, Storing
<1>5. /\ batch \subseteq AllBlocks /\ Tail(th.batches) \in Seq(SUBSET AllBlocks)
      /\ Len(th.batches) # 1 => Tail(th.batches) # <<>>
  <2>1. /\ Head(th.batches) \in SUBSET AllBlocks /\ Tail(th.batches) \in Seq(SUBSET AllBlocks)
        /\ Len(th.batches) # 1 => Tail(th.batches) # <<>>
    BY <1>4, FirstAndRest, Zenon
  <2> QED
    BY <2>1
<1> HIDE DEF th, new
<1>6. ASSUME th.op = "ingest" PROVE Fits(new)
  <2>1. th.after \in {"file", "report"} /\ Current(th) \in Files
    BY <1>1, <1>2, <1>6 DEF Fits, WorkFits, Storing
  <2>2. new.pc \in Ingesting /\ new.pc \notin {"probe", "upsert"}
    BY <1>3, <1>6, <2>1 DEF Ingesting
  <2> QED
    BY <1>1, <1>3, <1>5, <1>6, <2>1, <2>2 DEF Fits, PlaceFits, WorkFits, DataFits, Current, Storing
<1>7. ASSUME th.op = "read" PROVE Fits(new)
  <2>1. th.after = "rank"
    BY <1>1, <1>2, <1>7 DEF Fits, WorkFits, Storing
  <2> QED
    BY <1>1, <1>3, <1>5, <1>7, <2>1 DEF Fits, PlaceFits, WorkFits, DataFits, Current, Storing, Reading
<1>8. Fits(new)
  BY <1>1, <1>2, <1>6, <1>7 DEF Fits, PlaceFits, Deleting
<1>9. StoresFit'
  BY <1>1, <1>2, <1>5, IndexedRows DEF StoresFit
<1> QED
  BY <1>1, <1>2, <1>8, <1>9, JobKept, ShapeStep

\* Ingesting.

LEMMA StartIngestShape ==
  ASSUME ShapeInv, NEW t \in Threads, StartIngest(t)
  PROVE  ShapeInv'
<1>1. StoresFit /\ JobFits
  BY DEF ShapeInv
<1>2. /\ job' = "running" /\ queue' = queue /\ UNCHANGED <<rows, payload, legacy, removed, fts>>
      /\ \E files \in queue :
           Move(t, [IdleThread EXCEPT !.op = "ingest", !.pc = "file", !.files = files])
  BY DEF StartIngest, inputs, stores
<1>3. PICK files \in queue :
        Move(t, [IdleThread EXCEPT !.op = "ingest", !.pc = "file", !.files = files])
  BY <1>2
<1> DEFINE new == [IdleThread EXCEPT !.op = "ingest", !.pc = "file", !.files = files]
<1>4. files \in Seq(SubmittedFiles)
  BY <1>1 DEF JobFits
<1>5. /\ DOMAIN new = Fields /\ new.op = "ingest" /\ new.pc = "file" /\ new.files = files
      /\ new.file = IdleThread.file /\ new.batches = IdleThread.batches
      /\ new.existing = IdleThread.existing /\ new.after = IdleThread.after
  BY FieldsAre DEF Fields
<1>6. DataFits(IdleThread) /\ IdleThread.after = "idle"
  BY IdleFits DEF Fits, IdleThread
<1> HIDE DEF new
<1>7. Fits(new)
  BY <1>4, <1>5, <1>6 DEF Fits, PlaceFits, WorkFits, DataFits, Storing, Ingesting
<1>8. StoresFit' /\ JobFits'
  BY <1>1, <1>2 DEF StoresFit, JobFits
<1>9. Move(t, new)
  BY <1>3 DEF new
<1> QED
  BY <1>7, <1>8, <1>9, ShapeStep

\* A retry queues files of a row that is there.
LEMMA RetryShape ==
  ASSUME ShapeInv, RetryIngest
  PROVE  ShapeInv'
<1>1. /\ StoresFit /\ JobFits /\ ThreadsFit
      /\ UNCHANGED <<rows, payload, legacy, removed, fts>> /\ threads' = threads /\ job' = "queued"
  BY DEF ShapeInv, RetryIngest, stores
<1>2. PICK files \in queue :
        LET there == {i \in DOMAIN files : files[i].kind # "none"} IN
        \E left \in [1 .. Cardinality(there) -> there] :
          queue' = queue \cup {[i \in DOMAIN left |-> files[left[i]]]}
  BY DEF RetryIngest
<1> DEFINE there == {i \in DOMAIN files : files[i].kind # "none"}
<1>3. PICK left \in [1 .. Cardinality(there) -> there] :
        queue' = queue \cup {[i \in DOMAIN left |-> files[left[i]]]}
  BY <1>2
<1>4. files \in Seq(SubmittedFiles) /\ there \subseteq 1 .. Len(files)
  BY <1>1 DEF JobFits
<1>5. Cardinality(there) \in Nat
  <2>1. IsFiniteSet(1 .. Len(files))
    <3>1. 1 \in Int /\ Len(files) \in Int
      BY <1>4
    <3> QED
      BY <3>1, FS_Interval, Zenon
  <2> QED
    BY <1>4, <2>1, FS_Subset, FS_CardinalityType
<1> HIDE DEF there
<1>6. \A i \in 1 .. Cardinality(there) : files[left[i]] \in SubmittedFiles
  BY <1>3, <1>4
<1>7. [i \in DOMAIN left |-> files[left[i]]] \in Seq(SubmittedFiles)
  BY <1>3, <1>5, <1>6, IsASeq
<1>8. JobFits'
  BY <1>1, <1>3, <1>7 DEF JobFits
<1>9. StoresFit' /\ ThreadsFit'
  BY <1>1 DEF StoresFit, ThreadsFit
<1> QED
  BY <1>8, <1>9 DEF ShapeInv

LEMMA IngestFileShape ==
  ASSUME ShapeInv, NEW t \in Threads, IngestFile(t)
  PROVE  ShapeInv'
<1> DEFINE th == threads[t]
           f == th.files[th.file + 1]
           reports == Append(th.reports, FailedReport)
           skipped == [th EXCEPT !.file = th.file + 1, !.reports = reports]
           failed == [th EXCEPT !.file = th.file + 1, !.roots = th.roots \cup {Root(f)},
                                !.reports = reports, !.pc = "put",
                                !.batches = <<{Root(f)}>>, !.after = "file"]
           batches == Batch(LeafsOf[f]) \o Batch(ToSet(Parse[f].structural)) \o <<{Root(f)}>>
           parsed == [th EXCEPT !.file = th.file + 1, !.roots = th.roots \cup {Root(f)},
                                !.pc = "put", !.after = "report", !.batches = batches]
<1>1. Fits(th) /\ StoresFit /\ JobFits
  BY DEF ShapeInv, ThreadsFit
<1>2. /\ th.pc = "file" /\ th.file < Len(th.files)
      /\ UNCHANGED <<rows, payload, legacy, removed, fts>> /\ UNCHANGED <<job, queue>>
  BY DEF IngestFile, T, inputs, stores
<1>3. \/ Move(t, skipped)
      \/ f.kind # "none" /\ Move(t, failed)
      \/ f.kind # "none" /\ Move(t, parsed)
  BY <1>1, FieldsAre DEF IngestFile, Fits
<1>4. /\ th.files \in Seq(SubmittedFiles) /\ th.file \in Nat /\ th.file + 1 \in 1 .. Len(th.files)
      /\ th.op = "ingest" /\ th.after \in {"idle", "file", "report"}
      /\ th.batches \in Seq(SUBSET AllBlocks) /\ th.existing \subseteq AllBlocks
  <2>1. th.op = "ingest"
    BY <1>1, <1>2 DEF Fits, PlaceFits, Reading, Deleting
  <2>2. th.files \in Seq(SubmittedFiles) /\ th.file \in Nat
    BY <1>1 DEF Fits, DataFits
  <2>3. th.file + 1 \in 1 .. Len(th.files)
    <3>1. Len(th.files) \in Nat
      BY <2>2
    <3> QED
      BY <1>2, <2>2, <3>1
  <2> QED
    BY <1>1, <2>1, <2>2, <2>3 DEF Fits, DataFits, WorkFits
<1>5. f.kind # "none" => f \in Files
  BY <1>4, ListedFile
<1>6. ASSUME Move(t, skipped) PROVE ShapeInv'
  <2>1. /\ DOMAIN skipped = Fields /\ skipped.pc = th.pc /\ skipped.file = th.file + 1
        /\ skipped.op = th.op /\ skipped.files = th.files /\ skipped.after = th.after
        /\ skipped.batches = th.batches /\ skipped.existing = th.existing
    BY <1>1, FieldsAre DEF Fits
  <2> HIDE DEF skipped, th
  <2>2. Fits(skipped)
    BY <1>2, <1>4, <2>1 DEF Fits, PlaceFits, WorkFits, DataFits, Storing, Ingesting
  <2> QED
    BY <1>1, <1>2, <1>6, <2>2, StoresKept, JobKept, ShapeStep DEF StoresFit
<1>7. ASSUME f \in Files, Move(t, failed) PROVE ShapeInv'
  <2>1. /\ DOMAIN failed = Fields /\ failed.pc = "put" /\ failed.file = th.file + 1
        /\ failed.op = th.op /\ failed.files = th.files /\ failed.after = "file"
        /\ failed.batches = <<{Root(f)}>> /\ failed.existing = th.existing
    BY <1>1, FieldsAre DEF Fits
  <2>2. <<{Root(f)}>> \in Seq(SUBSET AllBlocks) /\ <<{Root(f)}>> # <<>>
    BY <1>7, FileFacts
  <2>3. Current(failed) = f
    BY <2>1 DEF Current
  <2> HIDE DEF failed, th, f
  <2>4. Fits(failed)
    BY <1>4, <1>7, <2>1, <2>2, <2>3 DEF Fits, PlaceFits, WorkFits, DataFits, Storing, Ingesting
  <2> QED
    BY <1>1, <1>2, <1>7, <2>4, StoresKept, JobKept, ShapeStep DEF StoresFit
<1>8. ASSUME f \in Files, Move(t, parsed) PROVE ShapeInv'
  <2>1. /\ DOMAIN parsed = Fields /\ parsed.pc = "put" /\ parsed.file = th.file + 1
        /\ parsed.op = th.op /\ parsed.files = th.files /\ parsed.after = "report"
        /\ parsed.batches = batches /\ parsed.existing = th.existing
    BY <1>1, FieldsAre DEF Fits
  <2>2. batches \in Seq(SUBSET AllBlocks) /\ batches # <<>>
    BY <1>8, FileBatches
  <2>3. Current(parsed) = f
    BY <2>1 DEF Current
  <2> HIDE DEF parsed, th, f, batches
  <2>4. Fits(parsed)
    BY <1>4, <1>8, <2>1, <2>2, <2>3 DEF Fits, PlaceFits, WorkFits, DataFits, Storing, Ingesting
  <2> QED
    BY <1>1, <1>2, <1>8, <2>4, StoresKept, JobKept, ShapeStep DEF StoresFit
<1> QED
  BY <1>3, <1>5, <1>6, <1>7, <1>8

LEMMA ReportFileShape ==
  ASSUME ShapeInv, NEW t \in Threads, ReportFile(t)
  PROVE  ShapeInv'
<1> DEFINE th == threads[t]
<1>1. Fits(th) /\ StoresFit /\ JobFits
  BY DEF ShapeInv, ThreadsFit
<1>2. /\ th.pc = "report"
      /\ UNCHANGED <<rows, payload, legacy, removed, fts>> /\ UNCHANGED <<job, queue>>
      /\ \E reported, reports :
           Move(t, [th EXCEPT !.pc = "file", !.reported = reported, !.reports = reports])
  BY DEF ReportFile, T, inputs, stores
<1>3. PICK reported, reports :
        Move(t, [th EXCEPT !.pc = "file", !.reported = reported, !.reports = reports])
  BY <1>2
<1> DEFINE new == [th EXCEPT !.pc = "file", !.reported = reported, !.reports = reports]
<1>4. /\ DOMAIN new = Fields /\ new.pc = "file" /\ new.existing = th.existing
      /\ new.op = th.op /\ new.files = th.files /\ new.file = th.file /\ new.after = th.after
      /\ new.batches = th.batches
  BY <1>1, FieldsAre DEF Fits
<1>5. Move(t, new)
  BY <1>3
<1> HIDE DEF th, new
<1>6. Fits(new)
  BY <1>1, <1>2, <1>4 DEF Fits, PlaceFits, WorkFits, DataFits, Storing, Ingesting, Reading, Deleting
<1> QED
  BY <1>1, <1>2, <1>5, <1>6, StoresKept, JobKept, ShapeStep DEF StoresFit

LEMMA FinishShape ==
  ASSUME ShapeInv, NEW t \in Threads, Finish(t), StoresFit', JobFits'
  PROVE  ShapeInv'
  BY IdleFits, ShapeStep DEF Finish

LEMMA WriteFailsShape ==
  ASSUME ShapeInv, NEW t \in Threads, WriteFails(t)
  PROVE  ShapeInv'
<1> DEFINE th == threads[t]
           reports == Append(th.reports, FailedReport)
           root == {Root(Current(th))}
           new == [th EXCEPT !.pc = "put", !.after = "file", !.existing = {},
                             !.reports = reports, !.batches = <<root>>]
<1>1. Fits(th) /\ StoresFit /\ JobFits
  BY DEF ShapeInv, ThreadsFit
<1>2. /\ th.op = "ingest" /\ th.pc \in Storing \cup {"manifest"}
      /\ UNCHANGED <<rows, payload, legacy, removed, fts>> /\ queue' = queue
      /\ \/ th.after = "report" /\ th.pc # "manifest" /\ Move(t, new) /\ job' = job
         \/ Finish(t) /\ job' = "failed"
  BY DEF WriteFails, T, inputs, stores, Storing, Current
<1>3. StoresFit' /\ JobFits'
  BY <1>1, <1>2 DEF StoresFit, JobFits
<1>4. ASSUME th.pc # "manifest", Move(t, new) PROVE ShapeInv'
  <2>1. Current(th) \in Files
    BY <1>1, <1>2, <1>4 DEF Fits, WorkFits
  <2>2. <<root>> \in Seq(SUBSET AllBlocks) /\ <<root>> # <<>>
    BY <2>1, FileFacts
  <2>3. /\ DOMAIN new = Fields /\ new.pc = "put" /\ new.existing = {} /\ new.batches = <<root>>
        /\ new.op = th.op /\ new.files = th.files /\ new.file = th.file /\ new.after = "file"
    BY <1>1, FieldsAre DEF Fits
  <2>4. Current(new) = Current(th)
    BY <2>3 DEF Current
  <2> HIDE DEF th, new, root
  <2>5. Fits(new)
    BY <1>1, <1>2, <2>1, <2>2, <2>3, <2>4
       DEF Fits, PlaceFits, WorkFits, DataFits, Storing, Ingesting
  <2> QED
    BY <1>3, <1>4, <2>5, ShapeStep
<1> QED
  BY <1>2, <1>3, <1>4, FinishShape

LEMMA EndOfIngestShape ==
  ASSUME ShapeInv, NEW t \in Threads, EndFiles(t) \/ PutManifest(t)
  PROVE  ShapeInv'
<1> DEFINE th == threads[t]
<1>1. Fits(th) /\ StoresFit /\ JobFits
  BY DEF ShapeInv, ThreadsFit
<1>2. /\ th.pc \in {"file", "manifest"}
      /\ UNCHANGED <<rows, payload, legacy, removed, fts>> /\ UNCHANGED <<job, queue>>
      /\ \E pc \in {"manifest", "close"} : \E man : Move(t, [th EXCEPT !.pc = pc, !.man = man])
  <2>1. CASE EndFiles(t)
    BY <2>1 DEF EndFiles, T, inputs, stores
  <2>2. CASE PutManifest(t)
    <3>1. [th EXCEPT !.pc = "close"] = [th EXCEPT !.pc = "close", !.man = th.man]
      BY <1>1, FieldsAre DEF Fits
    <3> QED
      BY <2>2, <3>1 DEF PutManifest, T, inputs
  <2> QED
    BY <2>1, <2>2
<1>3. PICK pc \in {"manifest", "close"} : \E man : Move(t, [th EXCEPT !.pc = pc, !.man = man])
  BY <1>2
<1>last. PICK man : Move(t, [th EXCEPT !.pc = pc, !.man = man])
  BY <1>3
<1> DEFINE new == [th EXCEPT !.pc = pc, !.man = man]
<1>4. /\ DOMAIN new = Fields /\ new.pc = pc /\ new.existing = th.existing
      /\ new.op = th.op /\ new.files = th.files /\ new.file = th.file /\ new.after = th.after
      /\ new.batches = th.batches
  BY <1>1, FieldsAre DEF Fits
<1>5. Move(t, new)
  BY <1>last
<1> HIDE DEF th, new
<1>6. Fits(new)
  BY <1>1, <1>2, <1>3, <1>4
     DEF Fits, PlaceFits, WorkFits, DataFits, Storing, Ingesting, Reading, Deleting
<1> QED
  BY <1>1, <1>2, <1>5, <1>6, StoresKept, JobKept, ShapeStep DEF StoresFit

LEMMA CloseJobShape ==
  ASSUME ShapeInv, NEW t \in Threads, CloseJob(t)
  PROVE  ShapeInv'
  BY FinishShape DEF CloseJob, ShapeInv, StoresFit, JobFits, inputs, stores

\* Reading and deleting.

LEMMA OpenReaderShape ==
  ASSUME ShapeInv, NEW t \in Threads, OpenReader(t)
  PROVE  ShapeInv'
<1> DEFINE new == [IdleThread EXCEPT !.op = "read", !.pc = "ensure", !.required = Required(manifest)]
<1>1. StoresFit /\ JobFits
  BY DEF ShapeInv
<1>2. /\ Move(t, new) /\ UNCHANGED <<rows, payload, legacy, removed, fts>> /\ UNCHANGED <<job, queue>>
  BY DEF OpenReader, inputs, stores
<1>3. /\ DOMAIN new = Fields /\ new.op = "read" /\ new.pc = "ensure" /\ new.files = IdleThread.files
      /\ new.file = IdleThread.file /\ new.batches = IdleThread.batches
      /\ new.existing = IdleThread.existing
  BY FieldsAre DEF Fields
<1>4. DataFits(IdleThread)
  BY IdleFits DEF Fits
<1> HIDE DEF new
<1>5. Fits(new)
  BY <1>3, <1>4 DEF Fits, PlaceFits, WorkFits, DataFits, Storing, Reading
<1> QED
  BY <1>1, <1>2, <1>5, StoresKept, JobKept, ShapeStep DEF StoresFit

\* A reader goes on, with other blocks in hand, and keeps what it has to write.
GoesOn(th, new) ==
  /\ DOMAIN new = Fields /\ new.pc \in Reading \ Storing /\ new.existing \subseteq AllBlocks
  /\ new.op = th.op /\ new.files = th.files /\ new.file = th.file /\ new.batches = th.batches

LEMMA ReaderStep ==
  ASSUME ShapeInv, NEW t \in Threads, threads[t].pc \in Reading \ Storing,
         NEW new, GoesOn(threads[t], new), Move(t, new), StoresFit', JobFits'
  PROVE  ShapeInv'
<1> DEFINE th == threads[t]
<1>1. Fits(th) /\ th.pc \in Reading \ Storing /\ GoesOn(th, new)
  BY DEF ShapeInv, ThreadsFit
<1> HIDE DEF th
<1>2. th.op = "read"
  BY <1>1 DEF Fits, PlaceFits, Reading, Storing, Ingesting, Deleting
<1>3. Fits(new)
  BY <1>1, <1>2 DEF Fits, PlaceFits, WorkFits, DataFits, GoesOn
<1> QED
  BY <1>3, ShapeStep

\* The records a reader goes on with.
LEMMA GoOn ==
  ASSUME NEW th, Fits(th), NEW pc \in Reading \ Storing
  PROVE  /\ GoesOn(th, [th EXCEPT !.pc = pc])
         /\ \A man : GoesOn(th, [th EXCEPT !.man = man, !.pc = pc])
         /\ \A order : GoesOn(th, [th EXCEPT !.pc = pc, !.order = order])
         /\ \A existing \in SUBSET AllBlocks : GoesOn(th, [th EXCEPT !.pc = pc, !.existing = existing])
<1>1. DOMAIN th = Fields /\ th.existing \subseteq AllBlocks
  BY DEF Fits, DataFits
<1> QED
  BY <1>1, FieldsAre DEF GoesOn

LEMMA ReadersShape ==
  ASSUME ShapeInv, NEW t \in Threads,
         \/ EnsureCatalog(t) \/ ReadLegacy(t) \/ MigratePayloads(t) \/ RankBlocks(t)
  PROVE  ShapeInv'
<1> DEFINE th == threads[t]
<1>1. Fits(th) /\ StoresFit /\ JobFits /\ th.existing \subseteq AllBlocks
  BY DEF ShapeInv, ThreadsFit, Fits, DataFits
<1>2. /\ UNCHANGED <<rows, legacy, removed, fts>> /\ UNCHANGED <<job, queue>>
      /\ payload' = payload \/ payload' = payload \cup th.existing
  BY DEF EnsureCatalog, ReadLegacy, MigratePayloads, RankBlocks, inputs, stores
<1>3. payload \subseteq AllBlocks /\ legacy \subseteq AllBlocks
  BY <1>1 DEF StoresFit
<1>4. StoresFit' /\ JobFits'
  BY <1>1, <1>2, <1>3, StoresKept, JobKept
<1>5. /\ "fallback" \in Reading \ Storing /\ "migrate" \in Reading \ Storing
      /\ "ensure" \in Reading \ Storing /\ "rank" \in Reading \ Storing
      /\ "migrated" \in Reading \ Storing /\ "load" \in Reading \ Storing
      /\ "answered" \in Reading \ Storing
  BY DEF Reading, Storing
<1>6. CASE EnsureCatalog(t)
  <2>1. /\ th.pc = "ensure"
        /\ \/ Move(t, [th EXCEPT !.pc = "fallback"])
           \/ Move(t, [th EXCEPT !.man = manifest, !.pc = "migrate"])
           \/ Move(t, [th EXCEPT !.man = manifest, !.pc = "rank"])
    BY <1>6 DEF EnsureCatalog, T
  <2> QED
    BY <1>1, <1>4, <1>5, <2>1, GoOn, ReaderStep
<1>7. CASE ReadLegacy(t)
  <2>1. th.pc = "migrate" /\ \E existing \in SUBSET legacy :
                               Move(t, [th EXCEPT !.pc = "migrated", !.existing = existing])
    BY <1>7 DEF ReadLegacy, T
  <2>2. PICK existing \in SUBSET AllBlocks :
          Move(t, [th EXCEPT !.pc = "migrated", !.existing = existing])
    BY <1>3, <2>1
  <2> QED
    BY <1>1, <1>4, <1>5, <2>1, <2>2, GoOn, ReaderStep
<1>8. CASE MigratePayloads(t)
  <2>1. th.pc = "migrated" /\ Move(t, [th EXCEPT !.pc = "load", !.existing = {}])
    BY <1>8 DEF MigratePayloads, T
  <2> QED
    BY <1>1, <1>4, <1>5, <2>1, GoOn, ReaderStep
<1>9. CASE RankBlocks(t)
  <2>1. th.pc = "rank" /\ \E order : Move(t, [th EXCEPT !.pc = "answered", !.order = order])
    BY <1>9 DEF RankBlocks, T
  <2>2. PICK order : Move(t, [th EXCEPT !.pc = "answered", !.order = order])
    BY <2>1
  <2> QED
    BY <1>1, <1>4, <1>5, <2>1, <2>2, GoOn, ReaderStep
<1> QED
  BY <1>6, <1>7, <1>8, <1>9

LEMMA LoadShape ==
  ASSUME ShapeInv, NEW t \in Threads, LoadBlocks(t)
  PROVE  ShapeInv'
<1> DEFINE th == threads[t]
           found == Addressable(th.man) \cap (payload \cup legacy)
           new == [th EXCEPT !.pc = "probe", !.batches = <<found>>, !.after = "rank"]
<1>1. Fits(th) /\ StoresFit /\ JobFits
  BY DEF ShapeInv, ThreadsFit
<1>2. /\ th.pc = "load" /\ UNCHANGED <<rows, legacy, removed, fts>> /\ UNCHANGED <<job, queue>>
      /\ payload' = payload \cup found
      /\ Move(t, new) \/ Move(t, [th EXCEPT !.pc = "rank"])
  BY DEF LoadBlocks, T, inputs
<1>3. found \subseteq AllBlocks
  BY <1>1 DEF StoresFit
<1>4. StoresFit' /\ JobFits'
  BY <1>1, <1>2, <1>3, StoresKept, JobKept DEF StoresFit
<1>5. ASSUME Move(t, new) PROVE ShapeInv'
  <2>1. /\ DOMAIN new = Fields /\ new.pc = "probe" /\ new.existing = th.existing
        /\ new.op = th.op /\ new.files = th.files /\ new.file = th.file /\ new.after = "rank"
        /\ new.batches = <<found>>
    BY <1>1, FieldsAre DEF Fits
  <2>2. <<found>> \in Seq(SUBSET AllBlocks) /\ <<found>> # <<>>
    BY <1>3
  <2> HIDE DEF th, new, found
  <2>3. th.op = "read"
    BY <1>1, <1>2 DEF Fits, PlaceFits, Reading, Ingesting, Deleting
  <2>4. Fits(new)
    BY <1>1, <2>1, <2>2, <2>3 DEF Fits, PlaceFits, WorkFits, DataFits, Reading
  <2> QED
    BY <1>4, <1>5, <2>4, ShapeStep
<1>6. ASSUME Move(t, [th EXCEPT !.pc = "rank"]) PROVE ShapeInv'
  <2>1. "rank" \in Reading \ Storing /\ th.pc \in Reading \ Storing
    BY <1>2 DEF Reading, Storing
  <2> QED
    BY <1>1, <1>4, <1>6, <2>1, GoOn, ReaderStep
<1> QED
  BY <1>2, <1>5, <1>6

LEMMA LastReadsShape ==
  ASSUME ShapeInv, NEW t \in Threads, RankByReading(t) \/ CloseReader(t)
  PROVE  ShapeInv'
<1> DEFINE th == threads[t]
<1>1. Fits(th) /\ StoresFit /\ JobFits
  BY DEF ShapeInv, ThreadsFit
<1>2. /\ UNCHANGED <<rows, legacy, removed, fts>> /\ UNCHANGED <<job, queue>>
      /\ payload' \subseteq payload \cup legacy
      /\ \/ Finish(t)
         \/ th.pc = "fallback" /\ \E order : Move(t, [th EXCEPT !.pc = "answered", !.order = order])
  <2>1. CASE RankByReading(t)
    BY <2>1 DEF RankByReading, T, inputs
  <2>2. CASE CloseReader(t)
    BY <2>2 DEF CloseReader, inputs, stores
  <2> QED
    BY <2>1, <2>2
<1>3. StoresFit' /\ JobFits'
  BY <1>1, <1>2 DEF StoresFit, JobFits
<1>4. ASSUME NEW order, th.pc = "fallback", Move(t, [th EXCEPT !.pc = "answered", !.order = order])
      PROVE  ShapeInv'
  <2>1. "answered" \in Reading \ Storing /\ th.pc \in Reading \ Storing
    BY <1>4 DEF Reading, Storing
  <2> QED
    BY <1>1, <1>3, <1>4, <2>1, GoOn, ReaderStep
<1> QED
  BY <1>2, <1>3, <1>4, FinishShape

\* The steps of a deletion.
Deletes(t) ==
  \/ StartDelete(t) \/ RemoveFile(t) \/ RemovalDone(t) \/ DeletionFails(t)
  \/ DeleteRows(t) \/ DeletePayloads(t) \/ DeleteUploads(t)

LEMMA DeleteShape ==
  ASSUME ShapeInv, NEW t \in Threads, Deletes(t)
  PROVE  ShapeInv'
<1> USE DEF Deletes
<1> DEFINE th == threads[t]
<1>1. Fits(th) /\ StoresFit /\ JobFits
  BY DEF ShapeInv, ThreadsFit
<1>2. JobFits'
  BY <1>1 DEF StartDelete, RemoveFile, RemovalDone, DeletionFails, DeleteRows, DeletePayloads,
     DeleteUploads, inputs, stores, JobFits
<1>3. StoresFit'
  <2>1. IsABag(EmptyBag) /\ BagToSet(EmptyBag) = {}
    BY DEF EmptyBag, SetToBag, IsABag, BagToSet
  <2>2. CASE RemoveFile(t)
    <3>1. legacy' \cup removed' \subseteq legacy \cup removed /\ UNCHANGED <<rows, payload, fts>>
      BY <2>2 DEF RemoveFile
    <3> QED
      BY <1>1, <3>1 DEF StoresFit
  <2>3. CASE DeleteRows(t) \/ DeletePayloads(t)
    BY <1>1, <2>1, <2>3 DEF DeleteRows, DeletePayloads, StoresFit
  <2> QED
    BY <1>1, <2>2, <2>3
       DEF StartDelete, RemovalDone, DeletionFails, DeleteUploads, stores, StoresFit
<1>4. CASE StartDelete(t)
  <2>1. PICK pc \in Deleting : Move(t, [IdleThread EXCEPT !.op = "delete", !.pc = pc])
    BY <1>4 DEF StartDelete, Deleting
  <2> DEFINE new == [IdleThread EXCEPT !.op = "delete", !.pc = pc]
  <2>2. /\ DOMAIN new = Fields /\ new.op = "delete" /\ new.pc = pc /\ new.files = IdleThread.files
        /\ new.file = IdleThread.file /\ new.batches = IdleThread.batches
        /\ new.existing = IdleThread.existing
    BY FieldsAre DEF Fields
  <2>3. DataFits(IdleThread) /\ Move(t, new)
    BY <2>1, IdleFits DEF Fits
  <2> HIDE DEF new
  <2>4. Fits(new)
    BY <2>2, <2>3 DEF Fits, PlaceFits, WorkFits, DataFits, Storing, Deleting
  <2> QED
    BY <1>2, <1>3, <2>3, <2>4, ShapeStep
<1>5. ASSUME th.pc \in Deleting, NEW pc \in Deleting, Move(t, [th EXCEPT !.pc = pc]) PROVE ShapeInv'
  <2> DEFINE new == [th EXCEPT !.pc = pc]
  <2>1. /\ DOMAIN new = Fields /\ new.pc = pc /\ new.existing = th.existing
        /\ new.op = th.op /\ new.files = th.files /\ new.file = th.file
        /\ new.batches = th.batches
    BY <1>1, FieldsAre DEF Fits
  <2>2. Move(t, new)
    BY <1>5
  <2> HIDE DEF th, new
  <2>3. th.op = "delete"
    BY <1>1, <1>5 DEF Fits, PlaceFits, Reading, Ingesting, Deleting
  <2>4. Fits(new)
    BY <1>1, <2>1, <2>3 DEF Fits, PlaceFits, WorkFits, DataFits, Storing, Deleting
  <2> QED
    BY <1>2, <1>3, <2>2, <2>4, ShapeStep
<1>6. CASE RemovalDone(t) \/ DeleteRows(t) \/ DeletePayloads(t)
  BY <1>5, <1>6 DEF RemovalDone, DeleteRows, DeletePayloads, T, Deleting
<1>7. CASE DeletionFails(t) \/ DeleteUploads(t)
  BY <1>2, <1>3, <1>7, FinishShape DEF DeletionFails, DeleteUploads
<1>8. CASE RemoveFile(t)
  <2>1. threads' = threads
    BY <1>8 DEF RemoveFile
  <2> QED
    BY <1>2, <1>3, <2>1 DEF ShapeInv, ThreadsFit
<1> QED
  BY <1>4, <1>6, <1>7, <1>8

LEMMA RestartShape ==
  ASSUME ShapeInv, Restart
  PROVE  ShapeInv'
<1>1. StoresFit' /\ JobFits'
  BY DEF ShapeInv, StoresFit, JobFits, Restart, inputs, stores
<1>2. threads' = [t \in Threads |-> IdleThread]
  BY DEF Restart
<1>3. ThreadsFit'
  BY <1>2, IdleFits DEF ThreadsFit
<1> QED
  BY <1>1, <1>3 DEF ShapeInv

LEMMA ShapeInitially == CorpusInit => ShapeInv
<1> SUFFICES ASSUME CorpusInit PROVE ShapeInv
  OBVIOUS
<1>1. /\ threads = [t \in Threads |-> IdleThread]
      /\ removed = {} /\ payload = {} /\ rows = {} /\ fts = EmptyBag
      /\ job \in {"queued", "none"}
  BY DEF CorpusInit
<1>2. queue \subseteq Submissions
  BY DEF CorpusInit
<1>3. legacy \subseteq AllBlocks
  <2>1. CASE legacy = {}
    BY <2>1
  <2>2. ASSUME NEW files \in Legacies, legacy = UNION {BlocksOf(f) : f \in ToSet(files)}
        PROVE  legacy \subseteq AllBlocks
    <3>1. \A f \in ToSet(files) : f \in Files
      BY CorpusAssumption DEF Files, SubmittedFiles
    <3> QED
      BY <2>2, <3>1, FileFacts
  <2> QED
    BY <2>1, <2>2 DEF CorpusInit
<1>4. StoresFit
  BY <1>1, <1>3 DEF StoresFit, EmptyBag, SetToBag, IsABag, BagToSet
<1>5. JobFits
  BY <1>1, <1>2, CorpusAssumption DEF JobFits
<1>6. ThreadsFit
  BY <1>1, IdleFits DEF ThreadsFit
<1> QED
  BY <1>4, <1>5, <1>6 DEF ShapeInv

LEMMA ShapePreserved == ShapeInv /\ [CorpusNext]_corpusVars => ShapeInv'
<1> SUFFICES ASSUME ShapeInv, [CorpusNext]_corpusVars PROVE ShapeInv'
  OBVIOUS
<1>1. ASSUME NEW t \in Threads, ThreadStep(t) PROVE ShapeInv'
  BY <1>1, PutShape, ProbeShape, UpsertShape, StartIngestShape, IngestFileShape, ReportFileShape,
     WriteFailsShape, EndOfIngestShape, CloseJobShape, OpenReaderShape, ReadersShape, LoadShape,
     LastReadsShape, DeleteShape
     DEF ThreadStep, Deletes
<1>2. CASE UNCHANGED corpusVars
  BY <1>2 DEF corpusVars, ShapeInv, StoresFit, JobFits, ThreadsFit
<1> QED
  BY <1>1, <1>2, RetryShape, RestartShape DEF CorpusNext

THEOREM ShapesHold == CorpusSpec => []ShapeInv
  BY ShapeInitially, ShapePreserved, PTL DEF CorpusSpec

\* The payload store, the catalog and the old files hold blocks of submitted files only,
\* the text index only what the catalog has, and a write in progress has something to
\* write, whatever is ingested, read and deleted at once.
THEOREM CorpusTypesCorrect == CorpusSpec => []CorpusTypeOK
<1>1. ShapeInv => CorpusTypeOK
  <2> SUFFICES ASSUME ShapeInv PROVE CorpusTypeOK
    OBVIOUS
  <2>1. \A t \in Threads : threads[t].pc \in {"probe", "upsert"} => threads[t].batches # <<>>
    BY DEF ShapeInv, ThreadsFit, Fits, WorkFits, Storing
  <2> QED
    BY <2>1 DEF CorpusTypeOK, ShapeInv, StoresFit, JobFits, AllBlocks
<1> QED
  BY <1>1, ShapesHold, PTL

-----------------------------------------------------------------------------
\* What the manifest names is stored.

LEMMA StoresGrow ==
  ASSUME NEW S, NEW S2, S \subseteq S2
  PROVE  /\ \A man : ManifestIsIn(man, S) => ManifestIsIn(man, S2)
         /\ \A th : IngestIsIn(th, S) => IngestIsIn(th, S2)
<1>1. \A reported : ReportedAreIn(reported, S) => ReportedAreIn(reported, S2)
  BY DEF ReportedAreIn, FileIsIn
<1>2. \A man : ManifestIsIn(man, S) => ManifestIsIn(man, S2)
  BY <1>1 DEF ManifestIsIn
<1>3. ASSUME NEW th, IngestIsIn(th, S) PROVE IngestIsIn(th, S2)
  BY <1>1, <1>2, <1>3 DEF IngestIsIn
<1> QED
  BY <1>2, <1>3

\* Thread t acts, and no other is deleting unless a deletion has run beside another
\* operation.
NoneDeletes(t) ==
  NoDeleteBeside' =>
    NoDeleteBeside /\ \A u \in Threads \ {t} : threads[u].op # "delete"

LEMMA ServedStep ==
  ASSUME ShapeInv, ServedInv, NEW t \in Threads, NEW new, Move(t, new), NoneDeletes(t),
         Stored \subseteq Stored', new.op # "delete",
         NoDeleteBeside' /\ manifest' # None =>
           manifest' = manifest \/ ManifestIsIn(manifest, Stored)',
         NoDeleteBeside' /\ new.op = "ingest" => IngestIsIn(new, Stored')
  PROVE  ServedInv'
<1>1. /\ threads'[t] = new
      /\ \A u \in Threads : u # t => threads'[u] = threads[u]
  BY DEF Move, ShapeInv, ThreadsFit
<1> SUFFICES ASSUME NoDeleteBeside'
             PROVE  /\ manifest' # None => ManifestIsIn(manifest, Stored)'
                    /\ \A u \in Threads :
                         /\ threads'[u].op = "ingest" => IngestIsIn(threads[u], Stored)'
                         /\ threads'[u].op # "delete"
  BY DEF ServedInv
<1>2. NoDeleteBeside /\ \A u \in Threads \ {t} : threads[u].op # "delete"
  BY DEF NoneDeletes
<1>3. /\ manifest # None => ManifestIsIn(manifest, Stored)
      /\ \A u \in Threads : threads[u].op = "ingest" => IngestIsIn(threads[u], Stored)
  BY <1>2 DEF ServedInv
<1>4. manifest' # None => ManifestIsIn(manifest, Stored)'
  BY <1>3, StoresGrow
<1>5. ASSUME NEW u \in Threads, threads'[u].op = "ingest" PROVE IngestIsIn(threads[u], Stored)'
  BY <1>1, <1>3, <1>5, StoresGrow
<1> QED
  BY <1>1, <1>2, <1>4, <1>5

LEMMA DeletingStep ==
  ASSUME ShapeInv, NEW t \in Threads, NEW new, Move(t, new), new.op \in {"delete", "idle"},
         NoDeleteBeside' =>
           /\ manifest' # None => ManifestIsIn(manifest', Stored')
           /\ new.op = "delete" => new.pc = "remove" \/ manifest' = None
           /\ \A u \in Threads \ {t} : threads[u].op = "idle"
  PROVE  ServedInv'
<1>1. threads'[t] = new /\ \A u \in Threads : u # t => threads'[u] = threads[u]
  BY DEF Move, ShapeInv, ThreadsFit
<1> QED
  BY <1>1 DEF ServedInv

\* What is busy has a name, so that an operation that starts beside another is noted.
LEMMA StartedBeside ==
  ASSUME ShapeInv, NEW t \in Threads, NEW op, Start(t, op)
  PROVE  /\ \A u \in Threads \ {t} : threads[u].op # "idle" => {op, threads[u].op} \in overlapped'
         /\ overlapped \subseteq overlapped' /\ threads[t].op = "idle"
<1>1. \A u \in Threads : threads[u].op = "idle" <=> threads[u].pc = "idle"
  BY DEF ShapeInv, ThreadsFit, Fits, PlaceFits, Ingesting, Reading, Deleting
<1> QED
  BY <1>1 DEF Start, Busy, T

LEMMA StartsAlone ==
  ASSUME ShapeInv, NEW t \in Threads, NEW op, Start(t, op)
  PROVE  /\ NoneDeletes(t)
         /\ NoDeleteBeside' /\ op = "delete" => \A u \in Threads \ {t} : threads[u].op = "idle"
<1>1. ASSUME NEW u \in Threads \ {t}, threads[u].op # "idle"
      PROVE  {op, threads[u].op} \subseteq (UNION overlapped)'
  <2>1. {op, threads[u].op} \in overlapped'
    BY <1>1, StartedBeside
  <2> QED
    BY <2>1
<1>2. (UNION overlapped) \subseteq (UNION overlapped)'
  BY StartedBeside
<1> QED
  BY <1>1, <1>2 DEF NoneDeletes, NoDeleteBeside

\* An operation in progress goes on.
LEMMA GoesOnAlone ==
  ASSUME ShapeInv, ServedInv, NEW t \in Threads, threads[t].op # "idle",
         overlapped \subseteq overlapped'
  PROVE  NoneDeletes(t)
  BY DEF NoneDeletes, NoDeleteBeside, ServedInv

LEMMA ToSetIsRange == \A seq : ToSet(seq) = Range(seq)
  BY DEF ToSet, Range

\* What is pending is what is in the first batch and what is pending after it.
LEMMA PendingBatches ==
  ASSUME NEW batches \in Seq(SUBSET AllBlocks), batches # <<>>
  PROVE  /\ UNION ToSet(batches) = Head(batches) \cup UNION ToSet(Tail(batches))
         /\ Len(batches) = 1 => UNION ToSet(Tail(batches)) = {}
<1>1. ToSet(batches) = {Head(batches)} \cup ToSet(Tail(batches))
  BY FirstAndRest, ToSetIsRange
<1>2. Len(batches) = 1 => ToSet(Tail(batches)) = {}
  <2>1. Len(batches) = 1 => Tail(batches) = <<>>
    BY FirstAndRest, Zenon
  <2>2. ToSet(<<>>) = {}
    BY DEF ToSet
  <2> QED
    BY <2>1, <2>2
<1> QED
  BY <1>1, <1>2

\* Storing: what was pending becomes stored.
LEMMA StoringServed ==
  ASSUME ShapeInv, ServedInv, NEW t \in Threads,
         PutPayloads(t) \/ ProbeCatalog(t) \/ UpsertCatalog(t)
  PROVE  ServedInv'
<1> DEFINE th == threads[t]
           put == [th EXCEPT !.pc = "probe"]
           probed == [th EXCEPT !.pc = "upsert", !.existing = rows \cap Head(th.batches)]
           pc == IF Len(th.batches) = 1 THEN th.after ELSE IF th.op = "read" THEN "probe" ELSE "put"
           upserted == [th EXCEPT !.batches = Tail(th.batches), !.existing = {}, !.pc = pc]
<1>1. Fits(th)
  BY DEF ShapeInv, ThreadsFit
<1>2. /\ th.pc \in Storing /\ manifest' = manifest /\ Stored \subseteq Stored'
      /\ overlapped \subseteq overlapped'
  BY DEF PutPayloads, ProbeCatalog, UpsertCatalog, T, Storing, stores, Stored
<1>3. /\ th.op \in {"ingest", "read"} /\ DOMAIN th = Fields
      /\ th.batches \in Seq(SUBSET AllBlocks) /\ th.batches # <<>>
      /\ th.op = "ingest" => th.after \in {"file", "report"}
  <2>1. th.op \in {"ingest", "read"}
    BY <1>1, <1>2 DEF Fits, PlaceFits, Storing, Deleting
  <2> QED
    BY <1>1, <1>2, <2>1 DEF Fits, WorkFits, DataFits
<1>4. NoneDeletes(t)
  BY <1>2, <1>3, GoesOnAlone
<1>5. NoDeleteBeside' /\ th.op = "ingest" => IngestIsIn(th, Stored)
  BY <1>4 DEF NoneDeletes, ServedInv
<1>6. /\ UNION ToSet(th.batches) = Head(th.batches) \cup UNION ToSet(Tail(th.batches))
      /\ Len(th.batches) = 1 => UNION ToSet(Tail(th.batches)) = {}
  BY <1>3, PendingBatches
<1>7. ASSUME NEW new, Move(t, new), new.op = th.op,
             th.op = "ingest" /\ IngestIsIn(th, Stored) => IngestIsIn(new, Stored')
      PROVE  ServedInv'
  BY <1>2, <1>3, <1>4, <1>5, <1>7, ServedStep
<1>8. ASSUME PutPayloads(t) PROVE ServedInv'
  <2>1. Move(t, put) /\ Stored' = Stored \cup Head(th.batches) /\ th.pc = "put"
    BY <1>8 DEF PutPayloads, T, Stored
  <2>2. /\ put.op = th.op /\ put.pc = "probe" /\ put.batches = th.batches
        /\ put.reported = th.reported /\ put.roots = th.roots /\ put.after = th.after
        /\ put.files = th.files /\ put.file = th.file /\ put.man = th.man
    BY <1>3, FieldsAre
  <2> HIDE DEF put, th
  <2>3. /\ Current(put) = Current(th)
        /\ Stored' \cup Pending(put) = Stored \cup Pending(th)
    BY <1>6, <2>1, <2>2 DEF Current, Pending, Storing
  <2>4. ASSUME IngestIsIn(th, Stored) PROVE IngestIsIn(put, Stored')
    <3>1. IngestIsIn(th, Stored')
      BY <1>2, <2>4, StoresGrow
    <3> QED
      BY <2>1, <2>2, <2>3, <2>4, <3>1 DEF IngestIsIn, Storing
  <2> QED
    BY <1>7, <2>1, <2>2, <2>4
<1>9. ASSUME ProbeCatalog(t) PROVE ServedInv'
  <2>1. Move(t, probed) /\ Stored' = Stored /\ th.pc = "probe"
    BY <1>9 DEF ProbeCatalog, T, Stored, stores
  <2>2. /\ probed.op = th.op /\ probed.pc = "upsert" /\ probed.batches = th.batches
        /\ probed.reported = th.reported /\ probed.roots = th.roots /\ probed.after = th.after
        /\ probed.files = th.files /\ probed.file = th.file /\ probed.man = th.man
    BY <1>3, FieldsAre
  <2> HIDE DEF probed, th
  <2>3. Current(probed) = Current(th) /\ Pending(probed) = Pending(th)
    BY <2>1, <2>2 DEF Current, Pending, Storing
  <2>4. ASSUME IngestIsIn(th, Stored) PROVE IngestIsIn(probed, Stored')
    BY <2>1, <2>2, <2>3, <2>4 DEF IngestIsIn, Storing
  <2> QED
    BY <1>7, <2>1, <2>2, <2>4
<1>10. ASSUME UpsertCatalog(t) PROVE ServedInv'
  <2>1. Move(t, upserted) /\ Stored' = Stored /\ th.pc = "upsert"
    BY <1>10 DEF UpsertCatalog, T, Stored
  <2>2. /\ upserted.op = th.op /\ upserted.pc = pc /\ upserted.batches = Tail(th.batches)
        /\ upserted.reported = th.reported /\ upserted.roots = th.roots /\ upserted.after = th.after
        /\ upserted.files = th.files /\ upserted.file = th.file /\ upserted.man = th.man
    BY <1>3, FieldsAre
  <2>3. th.op = "ingest" => IF Len(th.batches) = 1 THEN pc = th.after ELSE pc = "put"
    OBVIOUS
  <2> HIDE DEF upserted, th, pc
  <2>4. Current(upserted) = Current(th) /\ Pending(th) = UNION ToSet(Tail(th.batches))
    BY <2>1, <2>2 DEF Current, Pending, Storing
  <2>5. ASSUME th.op = "ingest", IngestIsIn(th, Stored) PROVE IngestIsIn(upserted, Stored')
    <3>1. CASE Len(th.batches) = 1
      <4>1. upserted.pc = th.after /\ th.after \in {"file", "report"} /\ Pending(th) = {}
        BY <1>3, <1>6, <2>2, <2>3, <2>4, <2>5, <3>1
      <4> QED
        BY <1>2, <2>1, <2>2, <2>4, <2>5, <4>1 DEF IngestIsIn, Storing
    <3>2. CASE Len(th.batches) # 1
      <4>1. upserted.pc = "put" /\ Pending(upserted) = Pending(th)
        BY <2>2, <2>3, <2>4, <2>5, <3>2 DEF Pending
      <4> QED
        BY <1>2, <2>1, <2>2, <2>4, <2>5, <4>1 DEF IngestIsIn, Storing
    <3> QED
      BY <3>1, <3>2
  <2> QED
    BY <1>7, <2>1, <2>2, <2>5
<1> QED
  BY <1>8, <1>9, <1>10

\* A step of an ingest that writes nothing into the stores.
LEMMA IngestServed ==
  ASSUME ShapeInv, ServedInv, NEW t \in Threads, threads[t].op = "ingest",
         UNCHANGED <<payload, legacy, removed, overlapped>>, NEW new, Move(t, new),
         new.op \in {"ingest", "idle"},
         IngestIsIn(threads[t], Stored) =>
           /\ manifest' = manifest \/ ManifestIsIn(manifest', Stored)
           /\ new.op = "ingest" => IngestIsIn(new, Stored)
  PROVE  ServedInv'
<1>1. NoneDeletes(t)
  BY GoesOnAlone
<1>2. NoDeleteBeside' => IngestIsIn(threads[t], Stored)
  BY <1>1 DEF NoneDeletes, ServedInv
<1>3. Stored' = Stored
  BY DEF Stored
<1> QED
  BY <1>1, <1>2, <1>3, ServedStep

LEMMA IngestFileServed ==
  ASSUME ShapeInv, ServedInv, NEW t \in Threads, IngestFile(t)
  PROVE  ServedInv'
<1> DEFINE th == threads[t]
           f == th.files[th.file + 1]
           reports == Append(th.reports, FailedReport)
           skipped == [th EXCEPT !.file = th.file + 1, !.reports = reports]
           failed == [th EXCEPT !.file = th.file + 1, !.roots = th.roots \cup {Root(f)},
                                !.reports = reports, !.pc = "put",
                                !.batches = <<{Root(f)}>>, !.after = "file"]
           batches == Batch(LeafsOf[f]) \o Batch(ToSet(Parse[f].structural)) \o <<{Root(f)}>>
           parsed == [th EXCEPT !.file = th.file + 1, !.roots = th.roots \cup {Root(f)},
                                !.pc = "put", !.after = "report", !.batches = batches]
<1>1. Fits(th) /\ DOMAIN th = Fields
  BY DEF ShapeInv, ThreadsFit, Fits
<1>2. /\ th.pc = "file" /\ th.file < Len(th.files) /\ manifest' = manifest
      /\ UNCHANGED <<payload, legacy, removed, overlapped>>
  BY DEF IngestFile, T, stores
<1>3. \/ Move(t, skipped)
      \/ f.kind # "none" /\ Move(t, failed)
      \/ f.kind # "none" /\ Move(t, parsed)
  BY <1>1, FieldsAre DEF IngestFile
<1>4. th.op = "ingest" /\ (f.kind # "none" => f \in Files)
  <2>1. th.op = "ingest"
    BY <1>1, <1>2 DEF Fits, PlaceFits, Reading, Deleting
  <2>2. th.files \in Seq(SubmittedFiles) /\ th.file \in Nat
    BY <1>1 DEF Fits, DataFits
  <2>3. th.file + 1 \in 1 .. Len(th.files)
    <3>1. Len(th.files) \in Nat
      BY <2>2
    <3> QED
      BY <1>2, <2>2, <3>1
  <2> QED
    BY <2>1, <2>2, <2>3, ListedFile
<1>5. ASSUME NEW new, Move(t, new), new.op = th.op, IngestIsIn(th, Stored) => IngestIsIn(new, Stored)
      PROVE  ServedInv'
  BY <1>2, <1>4, <1>5, IngestServed
<1>6. ASSUME Move(t, skipped) PROVE ServedInv'
  <2>1. /\ skipped.op = th.op /\ skipped.pc = th.pc /\ skipped.reported = th.reported
        /\ skipped.roots = th.roots
    BY <1>1, FieldsAre
  <2> HIDE DEF skipped, th
  <2> QED
    BY <1>2, <1>5, <1>6, <2>1 DEF IngestIsIn, Storing
<1>7. ASSUME f \in Files, Move(t, failed) PROVE ServedInv'
  <2>1. /\ failed.op = th.op /\ failed.pc = "put" /\ failed.reported = th.reported
        /\ failed.roots = th.roots \cup {Root(f)} /\ failed.after = "file"
        /\ failed.batches = <<{Root(f)}>> /\ failed.file = th.file + 1 /\ failed.files = th.files
    BY <1>1, FieldsAre
  <2>2. Current(failed) = f /\ Pending(failed) = {Root(f)}
    BY <2>1 DEF Current, Pending, ToSet
  <2> HIDE DEF failed, th, f
  <2> QED
    BY <1>2, <1>5, <1>7, <2>1, <2>2 DEF IngestIsIn, Storing
<1>8. ASSUME f \in Files, Move(t, parsed) PROVE ServedInv'
  <2>1. /\ parsed.op = th.op /\ parsed.pc = "put" /\ parsed.reported = th.reported
        /\ parsed.roots = th.roots \cup {Root(f)} /\ parsed.after = "report"
        /\ parsed.batches = batches /\ parsed.file = th.file + 1 /\ parsed.files = th.files
    BY <1>1, FieldsAre
  <2>2. BlocksOf(f) \subseteq UNION ToSet(batches) /\ Root(f) \in BlocksOf(f)
    <3>1. BlocksOf(f) \subseteq UNION ToSet(batches)
      BY <1>8, FileBatches, Zenon
    <3>2. StructureOf[f] = ToSet(Parse[f].structural) \cup {Root(f)}
      BY <1>8, FileFacts, Zenon
    <3> QED
      BY <3>1, <3>2 DEF BlocksOf
  <2> HIDE DEF batches
  <2>3. Current(parsed) = f /\ Pending(parsed) = UNION ToSet(batches)
    BY <2>1 DEF Current, Pending
  <2> HIDE DEF parsed, th, f
  <2> QED
    BY <1>2, <1>5, <1>8, <2>1, <2>2, <2>3 DEF IngestIsIn, Storing
<1> QED
  BY <1>3, <1>4, <1>6, <1>7, <1>8

LEMMA OneMoreReported ==
  ASSUME NEW seq \in Seq(Files), NEW f \in Files
  PROVE  Append(seq, f) \in Seq(Files) /\ ToSet(Append(seq, f)) = ToSet(seq) \cup {f}
<1> DEFINE last == <<f>>
<1>1. last \in Seq(Files) /\ Len(last) = 1 /\ Range(last) = {f}
  BY DEF Range
<1>2. Append(seq, f) = seq \o last
  OBVIOUS
<1> HIDE DEF last
<1>3. seq \o last \in Seq(Files) /\ Range(seq \o last) = Range(seq) \cup Range(last)
  BY <1>1, OneMore
<1> QED
  BY <1>1, <1>2, <1>3, ToSetIsRange

LEMMA ReportFileServed ==
  ASSUME ShapeInv, ServedInv, NEW t \in Threads, ReportFile(t)
  PROVE  ServedInv'
<1> DEFINE th == threads[t]
           f == Current(th)
           reported == Append(th.reported, f)
<1>1. Fits(th) /\ DOMAIN th = Fields
  BY DEF ShapeInv, ThreadsFit, Fits
<1>2. /\ th.pc = "report" /\ manifest' = manifest /\ UNCHANGED <<payload, legacy, removed, overlapped>>
      /\ \E reports :
           Move(t, [th EXCEPT !.pc = "file", !.reported = reported, !.reports = reports])
  BY DEF ReportFile, T, stores, Current
<1>3. PICK reports :
        Move(t, [th EXCEPT !.pc = "file", !.reported = reported, !.reports = reports])
  BY <1>2
<1> DEFINE new == [th EXCEPT !.pc = "file", !.reported = reported, !.reports = reports]
<1>4. th.op = "ingest"
  BY <1>1, <1>2 DEF Fits, PlaceFits, Reading, Deleting
<1>5. f \in Files
  BY <1>1, <1>2, <1>4 DEF Fits, WorkFits
<1>6. /\ new.op = th.op /\ new.pc = "file" /\ new.reported = reported /\ new.roots = th.roots
  BY <1>1, FieldsAre
<1>7. Move(t, new)
  BY <1>3
<1> HIDE DEF new
<1>8. ASSUME IngestIsIn(th, Stored) PROVE IngestIsIn(new, Stored)
  <2>1. th.reported \in Seq(Files) /\ ReportedAreIn(th.reported, Stored) /\ FileIsIn(f, Stored)
    BY <1>2, <1>5, <1>8 DEF IngestIsIn, FileIsIn
  <2>2. reported \in Seq(Files) /\ ToSet(reported) = ToSet(th.reported) \cup {f}
    BY <1>5, <2>1, OneMoreReported
  <2>3. ReportedAreIn(reported, Stored)
    BY <2>1, <2>2 DEF ReportedAreIn
  <2>4. \A b \in th.roots : b \in Stored
    BY <1>2, <1>8 DEF IngestIsIn, Storing
  <2> HIDE DEF th, f, reported
  <2> QED
    BY <1>6, <2>2, <2>3, <2>4 DEF IngestIsIn, Storing
<1> QED
  BY <1>2, <1>4, <1>6, <1>7, <1>8, IngestServed

LEMMA IdleOp == IdleThread.op = "idle"
  BY DEF IdleThread

LEMMA WriteFailsServed ==
  ASSUME ShapeInv, ServedInv, NEW t \in Threads, WriteFails(t)
  PROVE  ServedInv'
<1> DEFINE th == threads[t]
           reports == Append(th.reports, FailedReport)
           root == {Root(Current(th))}
           new == [th EXCEPT !.pc = "put", !.after = "file", !.existing = {},
                             !.reports = reports, !.batches = <<root>>]
<1>1. DOMAIN th = Fields
  BY DEF ShapeInv, ThreadsFit, Fits
<1>2. /\ th.op = "ingest" /\ manifest' = manifest /\ UNCHANGED <<payload, legacy, removed, overlapped>>
      /\ \/ th.pc \in Storing /\ Move(t, new)
         \/ Move(t, IdleThread)
  BY DEF WriteFails, T, stores, Storing, Current, Finish
<1>3. ASSUME th.pc \in Storing, Move(t, new) PROVE ServedInv'
  <2>1. /\ new.op = th.op /\ new.pc = "put" /\ new.batches = <<root>> /\ new.after = "file"
        /\ new.files = th.files /\ new.file = th.file
        /\ new.reported = th.reported /\ new.roots = th.roots
    BY <1>1, FieldsAre
  <2>2. Current(new) = Current(th) /\ Pending(new) = root
    BY <2>1 DEF Current, Pending, ToSet
  <2>3. Root(Current(th)) \in root
    OBVIOUS
  <2> HIDE DEF new, th, root
  <2>4. IngestIsIn(th, Stored) => IngestIsIn(new, Stored)
    BY <1>3, <2>1, <2>2, <2>3 DEF IngestIsIn, Storing
  <2> QED
    BY <1>2, <1>3, <2>1, <2>4, IngestServed DEF th
<1> QED
  BY <1>2, <1>3, IdleOp, IngestServed

\* The manifest is made of what the ingest has stored.
LEMMA EndOfIngestServed ==
  ASSUME ShapeInv, ServedInv, NEW t \in Threads, EndFiles(t) \/ PutManifest(t) \/ CloseJob(t)
  PROVE  ServedInv'
<1> DEFINE th == threads[t]
<1>1. Fits(th) /\ DOMAIN th = Fields
  BY DEF ShapeInv, ThreadsFit, Fits
<1>2. th.pc \in {"file", "manifest", "close"} /\ UNCHANGED <<payload, legacy, removed, overlapped>>
  BY DEF EndFiles, PutManifest, CloseJob, T, stores
<1>3. th.op = "ingest"
  BY <1>1, <1>2 DEF Fits, PlaceFits, Reading, Deleting
<1>4. ASSUME EndFiles(t) PROVE ServedInv'
  <2> DEFINE man == Manifest(th)
             new == [th EXCEPT !.pc = "manifest", !.man = man]
  <2>1. th.pc = "file" /\ Move(t, new) /\ manifest' = manifest
    BY <1>4 DEF EndFiles, T, stores
  <2>2. man.reported = th.reported /\ man.roots = th.roots
    BY DEF Manifest
  <2> HIDE DEF man
  <2>3. /\ new.op = th.op /\ new.pc = "manifest" /\ new.man = man
        /\ new.reported = th.reported /\ new.roots = th.roots
    BY <1>1, FieldsAre
  <2> HIDE DEF new
  <2>4. IngestIsIn(th, Stored) => IngestIsIn(new, Stored)
    BY <2>1, <2>2, <2>3 DEF IngestIsIn, ManifestIsIn, Storing
  <2> QED
    BY <1>2, <1>3, <2>1, <2>3, <2>4, IngestServed
<1>5. ASSUME PutManifest(t) PROVE ServedInv'
  <2> DEFINE new == [th EXCEPT !.pc = "close"]
  <2>1. th.pc = "manifest" /\ Move(t, new) /\ manifest' = th.man
    BY <1>5 DEF PutManifest, T
  <2>2. /\ new.op = th.op /\ new.pc = "close"
        /\ new.reported = th.reported /\ new.roots = th.roots
    BY <1>1, FieldsAre
  <2> HIDE DEF new
  <2>3. IngestIsIn(th, Stored) => ManifestIsIn(manifest', Stored) /\ IngestIsIn(new, Stored)
    BY <2>1, <2>2 DEF IngestIsIn, Storing
  <2> QED
    BY <1>2, <1>3, <2>1, <2>2, <2>3, IngestServed
<1>6. ASSUME CloseJob(t) PROVE ServedInv'
  <2>1. Move(t, IdleThread) /\ manifest' = manifest
    BY <1>6 DEF CloseJob, Finish, stores
  <2> QED
    BY <1>2, <1>3, <2>1, IdleOp, IngestServed
<1> QED
  BY <1>4, <1>5, <1>6

\* An ingest and a reading start with nothing in hand.
LEMMA StartsServed ==
  ASSUME ShapeInv, ServedInv, NEW t \in Threads, StartIngest(t) \/ OpenReader(t)
  PROVE  ServedInv'
<1>1. /\ manifest' = manifest /\ UNCHANGED <<payload, legacy, removed>>
      /\ Start(t, "ingest") \/ Start(t, "read")
  BY DEF StartIngest, OpenReader, stores
<1>2. NoneDeletes(t) /\ Stored' = Stored
  BY <1>1, StartsAlone DEF Stored
<1>3. CASE StartIngest(t)
  <2>1. PICK files : Move(t, [IdleThread EXCEPT !.op = "ingest", !.pc = "file", !.files = files])
    BY <1>3 DEF StartIngest
  <2> DEFINE new == [IdleThread EXCEPT !.op = "ingest", !.pc = "file", !.files = files]
  <2>2. new.op = "ingest" /\ new.pc = "file" /\ new.reported = <<>> /\ new.roots = {}
    BY DEF IdleThread
  <2>3. Move(t, new) /\ <<>> \in Seq(Files) /\ ToSet(<<>>) = {}
    BY <2>1 DEF ToSet
  <2> HIDE DEF new
  <2>4. IngestIsIn(new, Stored')
    BY <2>2, <2>3 DEF IngestIsIn, ReportedAreIn, Storing
  <2> QED
    BY <1>1, <1>2, <2>2, <2>3, <2>4, ServedStep
<1>4. CASE OpenReader(t)
  <2> DEFINE new == [IdleThread EXCEPT !.op = "read", !.pc = "ensure", !.required = Required(manifest)]
  <2>1. Move(t, new)
    BY <1>4 DEF OpenReader
  <2>2. new.op = "read"
    BY DEF IdleThread
  <2> HIDE DEF new
  <2> QED
    BY <1>1, <1>2, <2>1, <2>2, ServedStep
<1> QED
  BY <1>3, <1>4

\* A reader stays a reader until it is done.
LEMMA ReadersRead ==
  ASSUME ShapeInv, NEW t \in Threads,
         \/ EnsureCatalog(t) \/ ReadLegacy(t) \/ MigratePayloads(t) \/ LoadBlocks(t)
         \/ RankBlocks(t) \/ RankByReading(t) \/ CloseReader(t)
  PROVE  threads[t].op = "read" /\ \E new : Move(t, new) /\ new.op \in {"read", "idle"}
<1> DEFINE th == threads[t]
<1>1. Fits(th) /\ DOMAIN th = Fields
  BY DEF ShapeInv, ThreadsFit, Fits
<1>2. th.pc \in Reading \ Storing
  BY DEF EnsureCatalog, ReadLegacy, MigratePayloads, LoadBlocks, RankBlocks, RankByReading,
         CloseReader, T, Reading, Storing
<1>3. th.op = "read"
  BY <1>1, <1>2 DEF Fits, PlaceFits, Reading, Storing, Ingesting, Deleting
<1> DEFINE Kept(new) == Move(t, new) /\ new.op \in {"read", "idle"}
<1>4. /\ \A pc : [th EXCEPT !.pc = pc].op = "read"
      /\ \A pc, man : [th EXCEPT !.man = man, !.pc = pc].op = "read"
      /\ \A pc, order : [th EXCEPT !.pc = pc, !.order = order].op = "read"
      /\ \A pc, existing : [th EXCEPT !.pc = pc, !.existing = existing].op = "read"
      /\ \A pc, batches, after :
           [th EXCEPT !.pc = pc, !.batches = batches, !.after = after].op = "read"
  BY <1>1, <1>3, FieldsAre
<1>5. \/ \E pc : Move(t, [th EXCEPT !.pc = pc])
      \/ \E pc, man : Move(t, [th EXCEPT !.man = man, !.pc = pc])
      \/ \E pc, order : Move(t, [th EXCEPT !.pc = pc, !.order = order])
      \/ \E pc, existing : Move(t, [th EXCEPT !.pc = pc, !.existing = existing])
      \/ \E pc, batches, after :
           Move(t, [th EXCEPT !.pc = pc, !.batches = batches, !.after = after])
      \/ Move(t, IdleThread)
  <2>1. CASE EnsureCatalog(t)
    BY <2>1 DEF EnsureCatalog
  <2>2. CASE ReadLegacy(t) \/ MigratePayloads(t)
    BY <2>2 DEF ReadLegacy, MigratePayloads
  <2>3. CASE LoadBlocks(t)
    BY <2>3 DEF LoadBlocks
  <2>4. CASE RankBlocks(t) \/ RankByReading(t) \/ CloseReader(t)
    BY <2>4 DEF RankBlocks, RankByReading, CloseReader, Finish
  <2> QED
    BY <2>1, <2>2, <2>3, <2>4
<1>6. ASSUME NEW pc, Move(t, [th EXCEPT !.pc = pc]) PROVE \E new : Kept(new)
  <2> WITNESS [th EXCEPT !.pc = pc]
  <2> QED
    BY <1>4, <1>6
<1>7. ASSUME NEW pc, NEW man, Move(t, [th EXCEPT !.man = man, !.pc = pc]) PROVE \E new : Kept(new)
  <2> WITNESS [th EXCEPT !.man = man, !.pc = pc]
  <2> QED
    BY <1>4, <1>7
<1>8. ASSUME NEW pc, NEW order, Move(t, [th EXCEPT !.pc = pc, !.order = order])
      PROVE  \E new : Kept(new)
  <2> WITNESS [th EXCEPT !.pc = pc, !.order = order]
  <2> QED
    BY <1>4, <1>8
<1>9. ASSUME NEW pc, NEW existing, Move(t, [th EXCEPT !.pc = pc, !.existing = existing])
      PROVE  \E new : Kept(new)
  <2> WITNESS [th EXCEPT !.pc = pc, !.existing = existing]
  <2> QED
    BY <1>4, <1>9
<1>10. ASSUME NEW pc, NEW batches, NEW after,
             Move(t, [th EXCEPT !.pc = pc, !.batches = batches, !.after = after])
      PROVE  \E new : Kept(new)
  <2> WITNESS [th EXCEPT !.pc = pc, !.batches = batches, !.after = after]
  <2> QED
    BY <1>4, <1>10
<1>11. ASSUME Move(t, IdleThread) PROVE \E new : Kept(new)
  BY <1>11, IdleOp
<1> HIDE DEF Kept
<1>12. \E new : Kept(new)
  BY <1>5, <1>6, <1>7, <1>8, <1>9, <1>10, <1>11
<1> QED
  BY <1>3, <1>12 DEF Kept

\* Readers only move blocks into the payload store.
LEMMA ReadersServed ==
  ASSUME ShapeInv, ServedInv, NEW t \in Threads,
         \/ EnsureCatalog(t) \/ ReadLegacy(t) \/ MigratePayloads(t) \/ LoadBlocks(t)
         \/ RankBlocks(t) \/ RankByReading(t) \/ CloseReader(t)
  PROVE  ServedInv'
<1>1. manifest' = manifest /\ Stored \subseteq Stored' /\ overlapped' = overlapped
  BY DEF EnsureCatalog, ReadLegacy, MigratePayloads, LoadBlocks, RankBlocks, RankByReading,
         CloseReader, stores, Stored
<1>2. threads[t].op = "read" /\ \E new : Move(t, new) /\ new.op \in {"read", "idle"}
  BY ReadersRead
<1>3. NoneDeletes(t)
  BY <1>1, <1>2, GoesOnAlone
<1> QED
  BY <1>1, <1>2, <1>3, ServedStep

LEMMA DeletionsDelete ==
  ASSUME ShapeInv, NEW t \in Threads,
         \/ RemovalDone(t) \/ DeletionFails(t)
         \/ DeleteRows(t) \/ DeletePayloads(t) \/ DeleteUploads(t)
  PROVE  /\ threads[t].op = "delete" /\ UNCHANGED <<manifest, job, overlapped>>
         /\ \E new : Move(t, new) /\ new.op \in {"delete", "idle"}
<1> DEFINE th == threads[t]
<1>1. Fits(th) /\ DOMAIN th = Fields
  BY DEF ShapeInv, ThreadsFit, Fits
<1>2. /\ th.pc \in Deleting \/ th.op = "delete"
      /\ UNCHANGED <<manifest, job, overlapped>>
      /\ (\E pc : Move(t, [th EXCEPT !.pc = pc])) \/ Move(t, IdleThread)
  BY DEF RemovalDone, DeletionFails, DeleteRows, DeletePayloads, DeleteUploads, T, Deleting,
         Finish, stores
<1>3. th.op = "delete"
  BY <1>1, <1>2 DEF Fits, PlaceFits, Reading, Ingesting, Deleting
<1>4. \A pc : [th EXCEPT !.pc = pc].op = "delete"
  BY <1>1, <1>3, FieldsAre
<1> QED
  BY <1>2, <1>3, <1>4, IdleOp

\* A deletion has no other operation beside it, or has been noted; and what it removes
\* while there may be a manifest is noted.
LEMMA DeleteServed ==
  ASSUME ShapeInv, ServedInv, NEW t \in Threads, Deletes(t)
  PROVE  ServedInv'
<1> USE DEF Deletes
<1>1. CASE StartDelete(t)
  <2>1. PICK pc : /\ Move(t, [IdleThread EXCEPT !.op = "delete", !.pc = pc])
                  /\ pc = "remove" \/ manifest = None
    BY <1>1 DEF StartDelete
  <2> DEFINE new == [IdleThread EXCEPT !.op = "delete", !.pc = pc]
  <2>2. Move(t, new) /\ new.op = "delete" /\ new.pc = pc
    BY <2>1 DEF IdleThread
  <2> HIDE DEF new
  <2>3. manifest' = manifest /\ Stored' = Stored /\ Start(t, "delete")
    BY <1>1 DEF StartDelete, stores, Stored
  <2>4. NoDeleteBeside' => NoDeleteBeside
    BY <2>3, StartsAlone DEF NoneDeletes
  <2>5. NoDeleteBeside' /\ manifest' # None => ManifestIsIn(manifest', Stored')
    BY <2>3, <2>4 DEF ServedInv
  <2> QED
    BY <2>1, <2>2, <2>3, <2>5, StartsAlone, DeletingStep
<1>2. CASE RemoveFile(t)
  <2>1. /\ manifest' \in {manifest, None} /\ Stored' = Stored
        /\ UNCHANGED <<threads, overlapped>>
    BY <1>2 DEF RemoveFile, Stored
  <2> QED
    BY <2>1 DEF ServedInv, NoDeleteBeside
<1>3. CASE \/ RemovalDone(t) \/ DeletionFails(t)
           \/ DeleteRows(t) \/ DeletePayloads(t) \/ DeleteUploads(t)
  <2>1. PICK new : /\ Move(t, new) /\ new.op \in {"delete", "idle"}
                   /\ threads[t].op = "delete" /\ manifest' = manifest /\ overlapped' = overlapped
    BY <1>3, DeletionsDelete
  <2>2. NoDeleteBeside' =>
          /\ NoDeleteBeside /\ \A u \in Threads \ {t} : threads[u].op = "idle"
          /\ threads[t].pc = "remove" \/ manifest = None
          /\ manifest # None => ManifestIsIn(manifest, Stored)
    BY <2>1 DEF ServedInv, NoDeleteBeside
  <2>3. CASE DeletionFails(t)
    <3>1. Stored' = Stored /\ Move(t, IdleThread)
      BY <2>3 DEF DeletionFails, Finish, Stored, stores
    <3> QED
      BY <2>1, <2>2, <3>1, IdleOp, DeletingStep
  <2>4. CASE ~DeletionFails(t)
    <3>1. NoDeleteBeside' => manifest' = None
      BY <1>3, <2>1, <2>2, <2>4
         DEF RemovalDone, DeleteRows, DeletePayloads, DeleteUploads, T
    <3> QED
      BY <2>1, <2>2, <3>1, DeletingStep
  <2> QED
    BY <2>3, <2>4
<1> QED
  BY <1>1, <1>2, <1>3

\* What is left when the process dies can be served.
LEMMA UnattendedServed ==
  ASSUME ServedInv, UNCHANGED <<payload, legacy, removed, manifest, overlapped>>,
         threads' = threads \/ threads' = [t \in Threads |-> IdleThread]
  PROVE  ServedInv'
<1>1. Stored' = Stored /\ NoDeleteBeside' = NoDeleteBeside
  BY DEF Stored, NoDeleteBeside
<1>2. CASE threads' = threads
  BY <1>1, <1>2 DEF ServedInv
<1>3. CASE threads' = [t \in Threads |-> IdleThread]
  BY <1>1, <1>3, IdleOp DEF ServedInv
<1> QED
  BY <1>2, <1>3

LEMMA ServedInitially == CorpusInit => ServedInv
<1> SUFFICES ASSUME CorpusInit PROVE ServedInv
  OBVIOUS
<1>1. \A t \in Threads : threads[t].op = "idle"
  BY IdleOp DEF CorpusInit
<1>2. ASSUME manifest # None PROVE ManifestIsIn(manifest, Stored)
  <2>1. PICK files \in Legacies : /\ manifest = IngestedBefore(files)
                                  /\ legacy = UNION {BlocksOf(f) : f \in ToSet(files)}
    BY <1>2 DEF CorpusInit
  <2>2. manifest.reported = files /\ manifest.roots = {Root(f) : f \in ToSet(files)}
    BY <2>1 DEF IngestedBefore, Manifest, IdleThread
  <2>3. \A f \in ToSet(files) : f \in Files
    BY CorpusAssumption DEF Files, SubmittedFiles
  <2>4. \A f \in ToSet(files) : BlocksOf(f) \subseteq legacy /\ Root(f) \in BlocksOf(f)
    BY <2>1, <2>3, FileFacts DEF BlocksOf
  <2> QED
    BY <2>2, <2>3, <2>4 DEF ManifestIsIn, ReportedAreIn, FileIsIn, Stored
<1> QED
  BY <1>1, <1>2 DEF ServedInv

LEMMA ServedPreserved == ShapeInv /\ ServedInv /\ [CorpusNext]_corpusVars => ServedInv'
<1> SUFFICES ASSUME ShapeInv, ServedInv, [CorpusNext]_corpusVars PROVE ServedInv'
  OBVIOUS
<1>1. ASSUME NEW t \in Threads, ThreadStep(t) PROVE ServedInv'
  BY <1>1, StoringServed, StartsServed, IngestFileServed, ReportFileServed, WriteFailsServed,
     EndOfIngestServed, ReadersServed, DeleteServed
     DEF ThreadStep, Deletes
<1>2. CASE RetryIngest
  BY <1>2, UnattendedServed DEF RetryIngest, stores
<1>3. CASE Restart
  BY <1>3, UnattendedServed DEF Restart, stores
<1>4. CASE UNCHANGED corpusVars
  BY <1>4, UnattendedServed DEF corpusVars
<1> QED
  BY <1>1, <1>2, <1>3, <1>4 DEF CorpusNext

THEOREM StoredIsServed == CorpusSpec => []ServedInv
  BY ShapesHold, ServedInitially, ServedPreserved, PTL DEF CorpusSpec

LEMMA ServedManifest ==
  ASSUME ServedInv, NoDeleteBeside, manifest # None
  PROVE  ManifestIsIn(manifest, Stored)
  BY DEF ServedInv

\* Every block that the manifest names, and every root, also of a file that failed, can
\* be read after any writes that failed and any death of the server, unless a deletion
\* ran beside another operation; but for the JSON files that deletions had removed, which
\* are gone when one dies or fails before it comes to the manifest.
THEOREM ManifestCanBeServed == CorpusSpec => []ManifestIsServed
<1>1. ServedInv => ManifestIsServed
  <2> SUFFICES ASSUME ServedInv, NoDeleteBeside, manifest # None
               PROVE  Addressable(manifest) \cup manifest.roots \subseteq Stored
    BY DEF ManifestIsServed, Stored, NoDeleteBeside
  <2>1. ManifestIsIn(manifest, Stored)
    BY ServedManifest
  <2>2. ASSUME NEW f \in ToSet(manifest.reported)
        PROVE  {b \in LeafsOf[f] : Processable(b)} \cup StructureOf[f] \subseteq Stored
    BY <2>1 DEF ManifestIsIn, ReportedAreIn, FileIsIn, BlocksOf
  <2> QED
    BY <2>1, <2>2 DEF Addressable, ManifestIsIn
<1> QED
  BY <1>1, StoredIsServed, PTL

\* The structural blocks that a parser makes are sections.
LEMMA OnlySections ==
  ASSUME NEW f \in Files
  PROVE  \A b \in ToSet(Parse[f].structural) : b.channel = "section"
<1> DEFINE OfSections(parsed) == \A b \in ToSet(parsed.structural) : b.channel = "section"
<1>1. \A leafs, unresolved : OfSections(Parsed(leafs, <<>>, unresolved))
  BY DEF Parsed, ToSet
<1>2. OfSections(NotParsed)
  BY DEF NotParsed, ToSet
<1>3. OfSections(TextFile(f))
  BY <1>1 DEF TextFile, Parsed, ToSet, Section, Leaf
<1>4. OfSections(DoclingFile(f))
  BY DEF DoclingFile, Parsed, ToSet, Section, Leaf
<1>5. /\ OfSections(CsvFile(f)) /\ OfSections(ImageFile(f)) /\ OfSections(AudioFile(f))
      /\ OfSections(VideoFile(f)) /\ OfSections(PdfFile(f)) /\ OfSections(PptxFile(f))
      /\ OfSections(XlsxFile(f)) /\ OfSections(DocxFile(f))
  BY <1>1, <1>2
     DEF CsvFile, ImageFile, AudioFile, VideoFile, PdfFile, PptxFile, XlsxFile, DocxFile
<1>6. OfSections(ParseFile(f))
  BY <1>2, <1>3, <1>4, <1>5 DEF ParseFile
<1> QED
  BY <1>6 DEF Parse

\* The children of a section, and of the root of a file whose tables were not split,
\* are blocks of the file.
LEMMA ChildrenAreBlocks ==
  ASSUME NEW f \in Files, NEW b \in StructureOf[f], b.channel = "root" => f \notin SplitFiles
  PROVE  ChildrenOf[f][b] \subseteq BlocksOf(f)
<1> DEFINE all == ToSet(Parse[f].leafs)
           mine == {c \in all : c.under = b.part}
           sections == {s \in ToSet(Parse[f].structural) : s.under = b.part}
<1>1. ChildrenOf[f][b] = Children(f, Parse[f], b)
  BY DEF ChildrenOf
<1>2. sections \subseteq StructureOf[f] /\ mine \subseteq all
  BY FileFacts
<1>3. LeafsOf[f] = Leafs(f, Parse[f])
  BY DEF LeafsOf
<1>4. Leafs(f, Parse[f]) = UNION {ToSet(BoundTable(f, c)) : c \in all}
  BY DEF Leafs
<1>5. RewriteChildren(f, mine) \subseteq LeafsOf[f]
  BY <1>2, <1>3, <1>4 DEF RewriteChildren
<1>6. ASSUME b.channel # "section" PROVE mine \subseteq LeafsOf[f]
  <2>1. b = Root(f)
    BY <1>6, FileFacts, OnlySections
  <2>2. b.channel = "root"
    BY <2>1 DEF Root, Leaf
  <2>3. \A c \in all : BoundTable(f, c) = <<c>>
    BY <2>2 DEF SplitFiles, Splits
  <2>4. \A c \in all : c \in ToSet(BoundTable(f, c))
    BY <2>3 DEF ToSet
  <2> QED
    BY <1>2, <1>3, <1>4, <2>4
<1>7. \/ Children(f, Parse[f], b) = sections \cup RewriteChildren(f, mine)
      \/ /\ b.channel # "section"
         /\ Children(f, Parse[f], b) \subseteq sections \cup Leafs(f, Parse[f]) \cup mine
  BY DEF Children
<1> QED
  BY <1>1, <1>2, <1>3, <1>5, <1>6, <1>7 DEF BlocksOf

\* Navigation from a section, or from the root of a file whose tables were not split,
\* leads to blocks that can be read, unless a deletion ran beside another operation; but
\* for the JSON files that deletions had removed.
THEOREM ChildrenCanBeServed == CorpusSpec => []ChildrenAreServed
<1>1. ServedInv => ChildrenAreServed
  <2> SUFFICES ASSUME ServedInv, NoDeleteBeside, manifest # None,
                      NEW f \in ToSet(manifest.reported), NEW b \in StructureOf[f],
                      b.channel = "root" => f \notin SplitFiles
               PROVE  ChildrenOf[f][b] \subseteq Stored
    BY DEF ChildrenAreServed, Stored, NoDeleteBeside
  <2>1. f \in Files /\ BlocksOf(f) \subseteq Stored
    BY ServedManifest DEF ManifestIsIn, ReportedAreIn, FileIsIn
  <2> QED
    BY <2>1, ChildrenAreBlocks
<1> QED
  BY <1>1, StoredIsServed, PTL
-----------------------------------------------------------------------------
\* What the job tells about the manifest.

JobIsTrue ==
  manifest # None => (job = "complete" => manifest.ready) /\ (job = "partial" => ~manifest.ready)

\* A step of a thread: what it leaves alone, and what it is.
LEMMA TellsStep ==
  ASSUME ShapeInv, TellsInv, NEW t \in Threads, NEW new, Move(t, new),
         overlapped \subseteq overlapped', new.op \in {threads[t].op, "idle"},
         new.op = "ingest" => new.pc # "close", UNCHANGED <<manifest, job>>
  PROVE  TellsInv'
<1>1. threads'[t] = new /\ \A u \in Threads : u # t => threads'[u] = threads[u]
  BY DEF Move, ShapeInv, ThreadsFit
<1> SUFFICES ASSUME NoSecondIngest'
             PROVE  /\ JobIsTrue'
                    /\ \A u \in Threads :
                         threads'[u].op = "ingest" =>
                           /\ job' \in {"queued", "running"}
                           /\ threads'[u].pc = "close" => manifest' = threads'[u].man
                           /\ \A v \in Threads \ {u} : threads'[v].op \notin {"ingest", "delete"}
  BY DEF TellsInv, JobIsTrue
<1>2. NoSecondIngest
  BY DEF NoSecondIngest
<1>3. JobIsTrue'
  BY <1>2 DEF TellsInv, JobIsTrue
<1>4. ASSUME NEW u \in Threads, threads'[u].op = "ingest"
      PROVE  /\ threads[u].op = "ingest"
             /\ \A v \in Threads \ {u} : threads'[v].op \in {threads[v].op, "idle"}
             /\ threads'[u].pc = "close" => threads'[u] = threads[u]
  BY <1>1, <1>4
<1> QED
  BY <1>2, <1>3, <1>4 DEF TellsInv

\* An ingest on its way to the close.
LEMMA IngestGoesOn ==
  ASSUME ShapeInv, NEW t \in Threads,
         \/ PutPayloads(t) \/ ProbeCatalog(t) \/ UpsertCatalog(t)
         \/ IngestFile(t) \/ ReportFile(t) \/ EndFiles(t)
  PROVE  /\ \E new : /\ Move(t, new) /\ new.op = threads[t].op
                     /\ new.op = "ingest" => new.pc # "close"
         /\ UNCHANGED <<manifest, job>> /\ overlapped \subseteq overlapped'
<1> DEFINE th == threads[t]
           Goes(new) == Move(t, new) /\ new.op = th.op /\ (new.op = "ingest" => new.pc # "close")
<1>1. Fits(th) /\ DOMAIN th = Fields
  BY DEF ShapeInv, ThreadsFit, Fits
<1>2. UNCHANGED <<manifest, job>> /\ overlapped \subseteq overlapped'
  BY DEF PutPayloads, ProbeCatalog, UpsertCatalog, IngestFile, ReportFile, EndFiles, stores
<1>3. CASE PutPayloads(t)
  <2> DEFINE new == [th EXCEPT !.pc = "probe"]
  <2>1. Move(t, new)
    BY <1>3 DEF PutPayloads
  <2>2. new.op = th.op /\ new.pc = "probe"
    BY <1>1, FieldsAre
  <2> QED
    BY <1>2, <2>1, <2>2
<1>4. CASE ProbeCatalog(t)
  <2> DEFINE new == [th EXCEPT !.pc = "upsert", !.existing = rows \cap Head(th.batches)]
  <2>1. Move(t, new)
    BY <1>4 DEF ProbeCatalog
  <2>2. new.op = th.op /\ new.pc = "upsert"
    BY <1>1, FieldsAre
  <2> QED
    BY <1>2, <2>1, <2>2
<1>5. CASE UpsertCatalog(t)
  <2> DEFINE pc == IF Len(th.batches) = 1 THEN th.after ELSE IF th.op = "read" THEN "probe" ELSE "put"
             new == [th EXCEPT !.batches = Tail(th.batches), !.existing = {}, !.pc = pc]
  <2>1. Move(t, new) /\ th.pc = "upsert"
    BY <1>5 DEF UpsertCatalog, T
  <2>2. th.op = "ingest" => th.after \in {"file", "report"}
    BY <1>1, <2>1 DEF Fits, WorkFits, Storing
  <2>3. th.op = "ingest" => pc # "close"
    BY <2>2
  <2>4. new.op = th.op /\ new.pc = pc
    BY <1>1, FieldsAre
  <2> HIDE DEF pc, new
  <2> QED
    BY <1>2, <2>1, <2>3, <2>4
<1>6. CASE IngestFile(t)
  <2>1. th.pc = "file" /\ \/ \E file, reports : Move(t, [th EXCEPT !.file = file, !.reports = reports])
                          \/ \E file, roots, reports, batches :
                               Move(t, [th EXCEPT !.file = file, !.roots = roots,
                                          !.reports = reports, !.pc = "put",
                                          !.batches = batches, !.after = "file"])
                          \/ \E file, roots, batches :
                               Move(t, [th EXCEPT !.file = file, !.roots = roots,
                                          !.pc = "put", !.after = "report", !.batches = batches])
    BY <1>6, <1>1, FieldsAre DEF IngestFile, T
  <2>2. ASSUME NEW file, NEW reports, Move(t, [th EXCEPT !.file = file, !.reports = reports])
        PROVE  \E new : Goes(new)
    <3> WITNESS [th EXCEPT !.file = file, !.reports = reports]
    <3> QED
      BY <1>1, <2>1, <2>2, FieldsAre
  <2>3. ASSUME NEW file, NEW roots, NEW reports, NEW batches,
               Move(t, [th EXCEPT !.file = file, !.roots = roots, !.reports = reports,
                                  !.pc = "put", !.batches = batches, !.after = "file"])
        PROVE  \E new : Goes(new)
    <3> WITNESS [th EXCEPT !.file = file, !.roots = roots, !.reports = reports,
                           !.pc = "put", !.batches = batches, !.after = "file"]
    <3> QED
      BY <1>1, <2>3, FieldsAre
  <2>4. ASSUME NEW file, NEW roots, NEW batches,
               Move(t, [th EXCEPT !.file = file, !.roots = roots,
                                  !.pc = "put", !.after = "report", !.batches = batches])
        PROVE  \E new : Goes(new)
    <3> WITNESS [th EXCEPT !.file = file, !.roots = roots,
                           !.pc = "put", !.after = "report", !.batches = batches]
    <3> QED
      BY <1>1, <2>4, FieldsAre
  <2> HIDE DEF Goes
  <2>5. \E new : Goes(new)
    BY <2>1, <2>2, <2>3, <2>4
  <2> QED
    BY <1>2, <2>5 DEF Goes
<1>7. CASE ReportFile(t)
  <2>1. \E reported, reports :
          Move(t, [th EXCEPT !.pc = "file", !.reported = reported, !.reports = reports])
    BY <1>7 DEF ReportFile
  <2>2. PICK reported, reports :
          Move(t, [th EXCEPT !.pc = "file", !.reported = reported, !.reports = reports])
    BY <2>1
  <2> DEFINE new == [th EXCEPT !.pc = "file", !.reported = reported, !.reports = reports]
  <2>3. new.op = th.op /\ new.pc = "file"
    BY <1>1, FieldsAre
  <2> QED
    BY <1>2, <2>2, <2>3
<1>8. CASE EndFiles(t)
  <2> DEFINE man == Manifest(th)
             new == [th EXCEPT !.pc = "manifest", !.man = man]
  <2>1. Move(t, new)
    BY <1>8 DEF EndFiles
  <2> HIDE DEF man
  <2>2. new.op = th.op /\ new.pc = "manifest"
    BY <1>1, FieldsAre
  <2> HIDE DEF new
  <2> QED
    BY <1>2, <2>1, <2>2
<1> QED
  BY <1>3, <1>4, <1>5, <1>6, <1>7, <1>8

\* Starting: what is noted rules out a second ingest and a deletion.
LEMMA StartTells ==
  ASSUME ShapeInv, TellsInv, NEW t \in Threads, StartIngest(t) \/ OpenReader(t) \/ StartDelete(t)
  PROVE  TellsInv'
<1>1. \A new : Move(t, new) => threads'[t] = new /\ \A u \in Threads : u # t => threads'[u] = threads[u]
  BY DEF Move, ShapeInv, ThreadsFit
<1> SUFFICES ASSUME NoSecondIngest' PROVE TellsInv'
  BY DEF TellsInv
<1>2. CASE StartIngest(t)
  <2>1. PICK files : Move(t, [IdleThread EXCEPT !.op = "ingest", !.pc = "file", !.files = files])
    BY <1>2 DEF StartIngest
  <2> DEFINE new == [IdleThread EXCEPT !.op = "ingest", !.pc = "file", !.files = files]
  <2>first. Move(t, new) /\ new.op = "ingest" /\ new.pc = "file"
    BY <2>1 DEF IdleThread
  <2> HIDE DEF new
  <2>2. threads'[t].op = "ingest" /\ threads'[t].pc = "file"
    BY <1>1, <2>first
  <2>3. Start(t, "ingest") /\ job' = "running"
    BY <1>2 DEF StartIngest
  <2>4. ASSUME NEW u \in Threads \ {t} PROVE threads[u].op \notin {"ingest", "delete"}
    <3>1. threads[u].op # "idle" => {"ingest", threads[u].op} \in overlapped'
      BY <2>3, StartedBeside
    <3>2. {"ingest", "ingest"} = {"ingest"}
      OBVIOUS
    <3> QED
      BY <3>1, <3>2 DEF NoSecondIngest
  <2>5. \A u \in Threads : u # t => threads'[u] = threads[u]
    BY <1>1, <2>first
  <2> QED
    BY <2>2, <2>3, <2>4, <2>5 DEF TellsInv
<1>3. CASE OpenReader(t)
  <2> DEFINE new == [IdleThread EXCEPT !.op = "read", !.pc = "ensure", !.required = Required(manifest)]
  <2>1. Move(t, new) /\ Start(t, "read") /\ UNCHANGED <<manifest, job>>
    BY <1>3 DEF OpenReader, stores
  <2>2. new.op = "read"
    BY DEF IdleThread
  <2> HIDE DEF new
  <2>3. NoSecondIngest
    BY <2>1, StartedBeside DEF NoSecondIngest
  <2> QED
    BY <1>1, <2>1, <2>2, <2>3 DEF TellsInv
<1>4. CASE StartDelete(t)
  <2>1. PICK pc : Move(t, [IdleThread EXCEPT !.op = "delete", !.pc = pc])
    BY <1>4 DEF StartDelete
  <2> DEFINE new == [IdleThread EXCEPT !.op = "delete", !.pc = pc]
  <2>first. Move(t, new) /\ new.op = "delete"
    BY <2>1 DEF IdleThread
  <2> HIDE DEF new
  <2>2. threads'[t].op = "delete"
    BY <1>1, <2>first
  <2>3. Start(t, "delete") /\ UNCHANGED <<manifest, job>>
    BY <1>4 DEF StartDelete, stores
  <2>4. ASSUME NEW u \in Threads \ {t} PROVE threads[u].op # "ingest"
    <3>1. threads[u].op # "idle" => {"delete", threads[u].op} \in overlapped'
      BY <2>3, StartedBeside
    <3>2. {"delete", "ingest"} = {"ingest", "delete"}
      OBVIOUS
    <3> QED
      BY <3>1, <3>2 DEF NoSecondIngest
  <2>5. \A u \in Threads : u # t => threads'[u] = threads[u]
    BY <1>1, <2>first
  <2>6. NoSecondIngest
    BY <2>3, StartedBeside DEF NoSecondIngest
  <2> QED
    BY <2>2, <2>3, <2>4, <2>5, <2>6 DEF TellsInv
<1> QED
  BY <1>2, <1>3, <1>4

\* No ingest runs beside a deletion that has come to the manifest.
LEMMA RemovalTells ==
  ASSUME ShapeInv, TellsInv, NEW t \in Threads, RemoveFile(t)
  PROVE  TellsInv'
<1>1. Fits(threads[t]) /\ threads[t].pc = "remove"
  BY DEF ShapeInv, ThreadsFit, RemoveFile, T
<1>2. threads[t].op = "delete"
  BY <1>1 DEF Fits, PlaceFits, Reading, Ingesting
<1>3. manifest' \in {manifest, None} /\ UNCHANGED <<threads, job, overlapped>>
  BY DEF RemoveFile
<1>4. NoSecondIngest => \A u \in Threads : threads[u].op # "ingest"
  BY <1>2 DEF TellsInv
<1> QED
  BY <1>3, <1>4 DEF TellsInv, NoSecondIngest

\* The steps of an ingest that change the manifest or the job.
LEMMA IngestTells ==
  ASSUME ShapeInv, TellsInv, NEW t \in Threads, PutManifest(t) \/ CloseJob(t) \/ WriteFails(t)
  PROVE  TellsInv'
<1> DEFINE th == threads[t]
<1>1. Fits(th) /\ DOMAIN th = Fields
  BY DEF ShapeInv, ThreadsFit, Fits
<1>2. \A new : Move(t, new) => threads'[t] = new /\ \A u \in Threads : u # t => threads'[u] = threads[u]
  BY DEF Move, ShapeInv, ThreadsFit
<1>3. overlapped' = overlapped /\ NoSecondIngest' = NoSecondIngest
  BY DEF PutManifest, CloseJob, WriteFails, NoSecondIngest
<1> SUFFICES ASSUME NoSecondIngest, NoSecondIngest' PROVE TellsInv'
  BY <1>3 DEF TellsInv
<1>4. th.op = "ingest" /\ \A u \in Threads \ {t} : threads[u].op \notin {"ingest", "delete"}
  <2>1. th.op = "ingest"
    BY <1>1 DEF PutManifest, CloseJob, WriteFails, T, Fits, PlaceFits, Reading, Deleting
  <2> QED
    BY <2>1 DEF TellsInv
<1>5. JobIsTrue /\ job \in {"queued", "running"} /\ (th.pc = "close" => manifest = th.man)
  BY <1>4 DEF TellsInv, JobIsTrue
<1>6. ASSUME NEW new, Move(t, new), JobIsTrue',
             new.op = "ingest" =>
               /\ job' \in {"queued", "running"}
               /\ new.pc = "close" => manifest' = new.man,
             new.op \in {"ingest", "idle"}
      PROVE  TellsInv'
  <2>1. threads'[t] = new /\ \A u \in Threads : u # t => threads'[u] = threads[u]
    BY <1>2, <1>6
  <2>2. \A u \in Threads \ {t} : threads'[u].op \notin {"ingest", "delete"}
    BY <1>4, <2>1
  <2>3. \A u \in Threads : threads'[u].op = "ingest" => u = t
    BY <2>2
  <2>4. ASSUME NEW u \in Threads, threads'[u].op = "ingest"
        PROVE  /\ job' \in {"queued", "running"}
               /\ threads'[u].pc = "close" => manifest' = threads'[u].man
               /\ \A v \in Threads \ {u} : threads'[v].op \notin {"ingest", "delete"}
    <3>1. u = t /\ threads'[u] = new
      BY <2>1, <2>3, <2>4
    <3>2. new.op # "idle"
      BY <2>4, <3>1
    <3> QED
      BY <1>6, <2>2, <3>1, <3>2
  <2> QED
    BY <1>6, <2>4 DEF TellsInv, JobIsTrue
<1>7. CASE PutManifest(t)
  <2> DEFINE new == [th EXCEPT !.pc = "close"]
  <2>1. Move(t, new) /\ manifest' = th.man /\ job' = job
    BY <1>7 DEF PutManifest
  <2>2. new.op = th.op /\ new.man = th.man
    BY <1>1, FieldsAre
  <2>3. JobIsTrue'
    BY <1>5, <2>1 DEF JobIsTrue
  <2> HIDE DEF new
  <2> QED
    BY <1>4, <1>5, <1>6, <2>1, <2>2, <2>3
<1>8. CASE CloseJob(t)
  <2>1. Move(t, IdleThread) /\ manifest' = manifest /\ manifest = th.man
    BY <1>5, <1>8 DEF CloseJob, Finish, stores, T
  <2>2. job' = IF manifest.ready THEN "complete" ELSE "partial"
    BY <1>8, <2>1 DEF CloseJob
  <2>3. JobIsTrue'
    BY <2>1, <2>2 DEF JobIsTrue
  <2> QED
    BY <1>6, <2>1, <2>3, IdleOp
<1>9. CASE WriteFails(t)
  <2>1. CASE Move(t, IdleThread) /\ job' = "failed"
    <3>1. JobIsTrue'
      BY <2>1 DEF JobIsTrue
    <3> QED
      BY <1>6, <2>1, <3>1, IdleOp
  <2>2. ASSUME NEW reports, NEW batches,
               Move(t, [th EXCEPT !.pc = "put", !.after = "file", !.existing = {},
                                  !.reports = reports, !.batches = batches]),
               UNCHANGED <<manifest, job>>
        PROVE  TellsInv'
    <3> DEFINE new == [th EXCEPT !.pc = "put", !.after = "file", !.existing = {},
                                 !.reports = reports, !.batches = batches]
    <3>1. Move(t, new)
      BY <2>2
    <3>2. new.op = th.op /\ new.pc = "put"
      BY <1>1, FieldsAre
    <3>3. JobIsTrue'
      BY <1>5, <2>2 DEF JobIsTrue
    <3> HIDE DEF new
    <3> QED
      BY <1>4, <1>5, <1>6, <2>2, <3>1, <3>2, <3>3
  <2>3. \/ Move(t, IdleThread) /\ job' = "failed"
        \/ \E reports, batches :
             /\ Move(t, [th EXCEPT !.pc = "put", !.after = "file", !.existing = {},
                                   !.reports = reports, !.batches = batches])
             /\ UNCHANGED <<manifest, job>>
    BY <1>9 DEF WriteFails, Finish, stores
  <2> QED
    BY <2>1, <2>2, <2>3
<1> QED
  BY <1>7, <1>8, <1>9

LEMMA TellsInitially == CorpusInit => TellsInv
<1> SUFFICES ASSUME CorpusInit PROVE TellsInv
  OBVIOUS
<1>1. \A t \in Threads : threads[t].op = "idle"
  BY IdleOp DEF CorpusInit
<1> QED
  BY <1>1 DEF CorpusInit, TellsInv

\* A retry queues the job, and the death of the process interrupts it.
LEMMA UnattendedTells ==
  ASSUME TellsInv, UNCHANGED <<manifest, overlapped>>,
         \/ threads' = threads /\ job' \in {job, "queued"}
         \/ threads' = [t \in Threads |-> IdleThread] /\ job' \in {job, "interrupted"}
  PROVE  TellsInv'
<1>1. NoSecondIngest' = NoSecondIngest
  BY DEF NoSecondIngest
<1>2. CASE threads' = threads /\ job' \in {job, "queued"}
  BY <1>1, <1>2 DEF TellsInv
<1>3. CASE threads' = [t \in Threads |-> IdleThread] /\ job' \in {job, "interrupted"}
  BY <1>1, <1>3, IdleOp DEF TellsInv
<1> QED
  BY <1>2, <1>3

LEMMA TellsPreserved == ShapeInv /\ TellsInv /\ [CorpusNext]_corpusVars => TellsInv'
<1> SUFFICES ASSUME ShapeInv, TellsInv, [CorpusNext]_corpusVars PROVE TellsInv'
  OBVIOUS
<1>1. ASSUME NEW t \in Threads, ThreadStep(t) PROVE TellsInv'
  <2>1. CASE \/ PutPayloads(t) \/ ProbeCatalog(t) \/ UpsertCatalog(t)
             \/ IngestFile(t) \/ ReportFile(t) \/ EndFiles(t)
    BY <2>1, IngestGoesOn, TellsStep
  <2>2. CASE \/ EnsureCatalog(t) \/ ReadLegacy(t) \/ MigratePayloads(t) \/ LoadBlocks(t)
             \/ RankBlocks(t) \/ RankByReading(t) \/ CloseReader(t)
    <3>1. UNCHANGED <<manifest, job, overlapped>>
      BY <2>2 DEF EnsureCatalog, ReadLegacy, MigratePayloads, LoadBlocks, RankBlocks,
                  RankByReading, CloseReader, stores
    <3>2. threads[t].op = "read" /\ \E new : Move(t, new) /\ new.op \in {"read", "idle"}
      BY <2>2, ReadersRead
    <3> QED
      BY <3>1, <3>2, TellsStep
  <2>3. CASE \/ RemovalDone(t) \/ DeletionFails(t)
             \/ DeleteRows(t) \/ DeletePayloads(t) \/ DeleteUploads(t)
    BY <2>3, DeletionsDelete, TellsStep
  <2>4. CASE StartIngest(t) \/ OpenReader(t) \/ StartDelete(t)
    BY <2>4, StartTells
  <2>5. CASE PutManifest(t) \/ CloseJob(t) \/ WriteFails(t)
    BY <2>5, IngestTells
  <2>6. CASE RemoveFile(t)
    BY <2>6, RemovalTells
  <2> QED
    BY <1>1, <2>1, <2>2, <2>3, <2>4, <2>5, <2>6 DEF ThreadStep
<1>2. CASE RetryIngest
  BY <1>2, UnattendedTells DEF RetryIngest, stores
<1>3. CASE Restart
  BY <1>3, UnattendedTells DEF Restart, stores
<1>4. CASE UNCHANGED corpusVars
  BY <1>4, UnattendedTells DEF corpusVars
<1> QED
  BY <1>1, <1>2, <1>3, <1>4 DEF CorpusNext

\* A job that says complete left a ready manifest, and one that says partial one that is
\* not, when neither a second ingest nor a deletion ran beside an ingest.
THEOREM JobIsTold == CorpusSpec => []JobTellsManifest
<1>1. TellsInv => JobTellsManifest
  BY DEF TellsInv, NoSecondIngest, JobTellsManifest
<1> QED
  BY <1>1, ShapesHold, TellsInitially, TellsPreserved, PTL DEF CorpusSpec

-----------------------------------------------------------------------------
\* What the folds and lists of the model are.

\* Induction over the numbers up to n, for a set of numbers.
LEMMA UpTo ==
  ASSUME NEW n \in Nat, NEW P, 0 \in P, \A i \in Nat : i < n /\ i \in P => i + 1 \in P
  PROVE  \A i \in 0 .. n : i \in P
<1> DEFINE others == {i \in 0 .. n : i \notin P}
<1> SUFFICES ASSUME others # {} PROVE FALSE
  OBVIOUS
<1>1. others \subseteq Nat
  OBVIOUS
<1>2. PICK k \in others : \A e \in others : ~(<<e, k>> \in OpToRel(<, Nat))
  BY <1>1, NatLessThanWellFounded, WFMin
<1>3. k \in Nat /\ k # 0 /\ k <= n
  OBVIOUS
<1>4. k - 1 \in Nat /\ k - 1 < n /\ k - 1 + 1 = k /\ k - 1 \in 0 .. n
  BY <1>3
<1>5. k - 1 \notin P
  BY <1>4
<1>6. k - 1 \in others
  BY <1>4, <1>5
<1>7. <<k - 1, k>> \in OpToRel(<, Nat)
  BY <1>3, <1>4 DEF OpToRel
<1> QED
  BY <1>2, <1>6, <1>7

\* A fold over a finite set is defined: c chooses what is folded last.
Chooses(c, S) == \A s \in SUBSET S : s # {} => c[s] \in s
FoldIs(h, S, base, g, c) ==
  \A s \in SUBSET S : h[s] = IF s = {} THEN base ELSE g[<<h[s \ {c[s]}], c[s]>>]

LEMMA FoldDefined ==
  ASSUME NEW S, IsFiniteSet(S), NEW X, NEW base \in X, NEW g \in [X \X S -> X],
         NEW c, Chooses(c, S)
  PROVE  \E h \in [SUBSET S -> X] : FoldIs(h, S, base, g, c)
<1> DEFINE Right(h, s) == h[s] = IF s = {} THEN base ELSE g[<<h[s \ {c[s]}], c[s]>>]
           P == {n \in Nat : \E h \in [SUBSET S -> X] :
                    \A s \in SUBSET S : Cardinality(s) <= n => Right(h, s)}
<1>c. \A s \in SUBSET S : s # {} => c[s] \in s
  BY DEF Chooses
<1>1. \A s \in SUBSET S : IsFiniteSet(s) /\ Cardinality(s) \in Nat /\ Cardinality(s) <= Cardinality(S)
  BY FS_Subset, FS_CardinalityType
<1>2. 0 \in P
  <2> DEFINE h == [s \in SUBSET S |-> base]
  <2>1. h \in [SUBSET S -> X]
    OBVIOUS
  <2>2. ASSUME NEW s \in SUBSET S, Cardinality(s) <= 0 PROVE Right(h, s)
    <3>1. s = {}
      BY <1>1, <2>2, FS_EmptySet
    <3> QED
      BY <3>1
  <2> QED
    BY <2>1, <2>2
<1>3. ASSUME NEW n \in Nat, n \in P PROVE n + 1 \in P
  <2>1. PICK h \in [SUBSET S -> X] : \A s \in SUBSET S : Cardinality(s) <= n => Right(h, s)
    BY <1>3
  <2> DEFINE next == [s \in SUBSET S |->
                        IF s = {} THEN base ELSE g[<<h[s \ {c[s]}], c[s]>>]]
  <2>2. next \in [SUBSET S -> X]
    <3>1. ASSUME NEW s \in SUBSET S, s # {} PROVE g[<<h[s \ {c[s]}], c[s]>>] \in X
      <4>1. c[s] \in S /\ s \ {c[s]} \in SUBSET S
        BY <1>c, <3>1
      <4>2. h[s \ {c[s]}] \in X
        BY <4>1
      <4> QED
        BY <4>1, <4>2
    <3> QED
      BY <3>1
  <2>3. ASSUME NEW s \in SUBSET S, Cardinality(s) <= n PROVE next[s] = h[s]
    BY <2>1, <2>3
  <2>4. ASSUME NEW s \in SUBSET S, Cardinality(s) <= n + 1 PROVE Right(next, s)
    <3>1. CASE s = {}
      BY <3>1
    <3>2. CASE s # {}
      <4>1. c[s] \in s /\ s \ {c[s]} \in SUBSET S
        BY <1>c, <3>2
      <4>2. Cardinality(s \ {c[s]}) = Cardinality(s) - 1
        BY <1>1, <4>1, FS_RemoveElement
      <4>3. Cardinality(s \ {c[s]}) <= n
        BY <1>1, <2>4, <4>2
      <4>4. next[s \ {c[s]}] = h[s \ {c[s]}]
        BY <2>3, <4>1, <4>3
      <4> QED
        BY <3>2, <4>4
    <3> QED
      BY <3>1, <3>2
  <2> HIDE DEF next, Right
  <2> QED
    BY <2>2, <2>4 DEF P
<1> HIDE DEF P
<1>4. Cardinality(S) \in P
  <2>1. Cardinality(S) \in Nat
    BY <1>1
  <2> QED
    BY <1>2, <1>3, <2>1, UpTo
<1>5. PICK h \in [SUBSET S -> X] : \A s \in SUBSET S : Cardinality(s) <= Cardinality(S) => Right(h, s)
  BY <1>4 DEF P
<1> QED
  BY <1>1, <1>5 DEF FoldIs

\* What holds of the empty set and of a set once it holds without its choice, holds of S.
LEMMA FoldInduction ==
  ASSUME NEW S, IsFiniteSet(S), NEW c, Chooses(c, S),
         NEW P, {} \in P, \A s \in SUBSET S : s # {} /\ s \ {c[s]} \in P => s \in P
  PROVE  S \in P
<1> DEFINE N == {n \in Nat : \A s \in SUBSET S : Cardinality(s) <= n => s \in P}
<1>1. \A s \in SUBSET S : IsFiniteSet(s) /\ Cardinality(s) \in Nat
  BY FS_Subset, FS_CardinalityType
<1>2. 0 \in N
  <2>1. ASSUME NEW s \in SUBSET S, Cardinality(s) <= 0 PROVE s \in P
    BY <1>1, <2>1, FS_EmptySet
  <2> QED
    BY <2>1
<1>3. ASSUME NEW n \in Nat, n \in N PROVE n + 1 \in N
  <2>1. ASSUME NEW s \in SUBSET S, Cardinality(s) <= n + 1, s # {} PROVE s \in P
    <3>1. c[s] \in s /\ s \ {c[s]} \in SUBSET S
      BY <2>1 DEF Chooses
    <3>2. Cardinality(s \ {c[s]}) = Cardinality(s) - 1
      BY <1>1, <3>1, FS_RemoveElement
    <3>3. Cardinality(s \ {c[s]}) <= n
      BY <1>1, <2>1, <3>2
    <3> QED
      BY <1>3, <2>1, <3>1, <3>3
  <2> QED
    BY <2>1
<1> HIDE DEF N
<1>4. Cardinality(S) \in N
  <2>1. Cardinality(S) \in Nat
    BY <1>1
  <2> QED
    BY <1>2, <1>3, <2>1, UpTo
<1> QED
  BY <1>1, <1>4 DEF N

LEMMA LastOfSome ==
  ASSUME NEW n \in Nat, NEW s \in SUBSET (1 .. n), s # {}
  PROVE  Max(s) \in s
<1> DEFINE below == {n - k : k \in s}
<1>1. below \subseteq Nat /\ below # {}
  <2>1. \A k \in s : n - k \in Nat
    OBVIOUS
  <2> QED
    BY <2>1
<1>2. PICK d \in below : \A e \in below : ~(<<e, d>> \in OpToRel(<, Nat))
  BY <1>1, NatLessThanWellFounded, WFMin
<1>3. PICK m \in s : d = n - m
  OBVIOUS
<1>4. ASSUME NEW k \in s PROVE m >= k
  <2>1. n - k \in below
    OBVIOUS
  <2>2. ~(n - k < n - m)
    BY <1>1, <1>2, <1>3, <2>1 DEF OpToRel
  <2> QED
    BY <2>2
<1>5. \E x \in s : \A y \in s : x >= y
  BY <1>4
<1> QED
  BY <1>5 DEF Max

LEMMA BothOnce ==
  ASSUME NEW A, NEW B, NEW a \in Seq(A), NEW b \in Seq(B), A \cap B = {},
         IsInjective(a), IsInjective(b)
  PROVE  IsInjective(a \o b)
<1>1. /\ DOMAIN (a \o b) = 1 .. Len(a) + Len(b) /\ Len(a) \in Nat /\ Len(b) \in Nat
      /\ \A i \in 1 .. Len(a) + Len(b) :
           (a \o b)[i] = IF i <= Len(a) THEN a[i] ELSE b[i - Len(a)]
  OBVIOUS
<1> SUFFICES ASSUME NEW i \in 1 .. Len(a) + Len(b), NEW j \in 1 .. Len(a) + Len(b),
                    (a \o b)[i] = (a \o b)[j]
             PROVE  i = j
  BY <1>1 DEF IsInjective
<1>2. \A k \in 1 .. Len(a) : a[k] \in A
  OBVIOUS
<1>3. \A k \in 1 .. Len(b) : b[k] \in B
  OBVIOUS
<1>4. CASE i <= Len(a) /\ j <= Len(a)
  BY <1>1, <1>4 DEF IsInjective
<1>5. CASE i > Len(a) /\ j > Len(a)
  <2>1. i - Len(a) \in 1 .. Len(b) /\ j - Len(a) \in 1 .. Len(b)
    BY <1>1, <1>5
  <2>2. b[i - Len(a)] = b[j - Len(a)]
    BY <1>1, <1>5
  <2>3. i - Len(a) = j - Len(a)
    BY <2>1, <2>2 DEF IsInjective
  <2> QED
    BY <1>1, <2>3
<1>6. CASE i <= Len(a) /\ j > Len(a)
  <2>1. j - Len(a) \in 1 .. Len(b) /\ i \in 1 .. Len(a)
    BY <1>1, <1>6
  <2> QED
    BY <1>1, <1>2, <1>3, <1>6, <2>1
<1>7. CASE i > Len(a) /\ j <= Len(a)
  <2>1. i - Len(a) \in 1 .. Len(b) /\ j \in 1 .. Len(a)
    BY <1>1, <1>7
  <2> QED
    BY <1>1, <1>2, <1>3, <1>7, <2>1
<1> QED
  BY <1>1, <1>4, <1>5, <1>6, <1>7

LEMMA SeqOfMore ==
  ASSUME NEW A, NEW B, A \subseteq B, NEW seq \in Seq(A)
  PROVE  seq \in Seq(B)
  OBVIOUS

\* What a search returns are hits, each once if the text index has it once.
LEMMA RankedHits ==
  ASSUME NEW bag, NEW hits, IsFiniteSet(hits), \A b \in hits : bag[b] \in Nat
  PROVE  /\ Ranked(bag, hits) \in Seq(hits)
         /\ (\A b \in hits : bag[b] = 1) => IsInjective(Ranked(bag, hits))
<1> DEFINE c == [s \in SUBSET hits |-> CHOOSE x \in s : TRUE]
           more(iter, s) ==
             IF s = {} THEN <<>>
             ELSE iter[s \ {CHOOSE x \in s : TRUE}]
                    \o Repeat(CHOOSE x \in s : TRUE, bag[CHOOSE x \in s : TRUE])
           fold == CHOOSE iter : iter = [s \in SUBSET hits |-> more(iter, s)]
           X == Seq(hits)
           empty == <<>>
           add(seq, x) == seq \o Repeat(x, bag[x])
           g == [p \in X \X hits |-> add(p[1], p[2])]
<1>1. Ranked(bag, hits) = fold[hits]
  BY DEF Ranked, FoldSet, MapThenFoldSet
<1>2. Chooses(c, hits)
  BY DEF Chooses
<1>3. ASSUME NEW x \in hits PROVE Repeat(x, bag[x]) \in Seq({x})
  BY <1>3 DEF Repeat
<1>4. \A seq \in X, x \in hits : add(seq, x) \in X
  <2>1. ASSUME NEW seq \in Seq(hits), NEW x \in hits PROVE seq \o Repeat(x, bag[x]) \in Seq(hits)
    <3>1. Repeat(x, bag[x]) \in Seq(hits)
      BY <1>3, SeqOfMore
    <3> QED
      BY <3>1
  <2> QED
    BY <2>1
<1>empty. empty \in X
  OBVIOUS
<1>5. PICK h \in [SUBSET hits -> X] :
        \A s \in SUBSET hits : h[s] = IF s = {} THEN empty ELSE add(h[s \ {c[s]}], c[s])
  <2> HIDE DEF c, X, empty, add
  <2>1. g \in [X \X hits -> X] /\ \A seq \in X, x \in hits : g[<<seq, x>>] = add(seq, x)
    BY <1>4
  <2> HIDE DEF g
  <2>2. PICK h \in [SUBSET hits -> X] : FoldIs(h, hits, empty, g, c)
    BY <1>2, <1>empty, <2>1, FoldDefined
  <2>3. ASSUME NEW s \in SUBSET hits, s # {} PROVE g[<<h[s \ {c[s]}], c[s]>>] = add(h[s \ {c[s]}], c[s])
    <3>1. c[s] \in hits /\ s \ {c[s]} \in SUBSET hits
      BY <1>2, <2>3 DEF Chooses
    <3> QED
      BY <2>1, <3>1
  <2> QED
    BY <2>2, <2>3 DEF FoldIs
<1>6. h = [s \in SUBSET hits |-> more(h, s)]
  <2>1. \A s \in SUBSET hits : h[s] = more(h, s)
    BY <1>5
  <2> HIDE DEF more
  <2> QED
    BY <2>1
<1>7. fold = [s \in SUBSET hits |-> more(fold, s)]
  <2> HIDE DEF more
  <2> QED
    BY <1>6
<1> DEFINE P == {s \in SUBSET hits :
                   fold[s] \in Seq(s) /\ ((\A b \in hits : bag[b] = 1) => IsInjective(fold[s]))}
<1>8. {} \in P
  <2>1. fold[{}] = <<>>
    BY <1>7
  <2>2. <<>> \in Seq({}) /\ IsInjective(<<>>)
    BY DEF IsInjective
  <2> HIDE DEF fold
  <2> QED
    BY <2>1, <2>2
<1>9. ASSUME NEW s \in SUBSET hits, s # {}, s \ {c[s]} \in P PROVE s \in P
  <2> DEFINE x == c[s]
             rest == s \ {x}
  <2>1. x \in s /\ x \in hits /\ x = CHOOSE y \in s : TRUE
    BY <1>2, <1>9 DEF Chooses
  <2>2. fold[s] = fold[rest] \o Repeat(x, bag[x])
    BY <1>7, <1>9, <2>1
  <2> HIDE DEF fold, c
  <2>3. fold[rest] \in Seq(rest)
    BY <1>9
  <2> HIDE DEF rest
  <2>4. Repeat(x, bag[x]) \in Seq({x})
    BY <1>3, <2>1
  <2>5. rest \subseteq s /\ rest \cap {x} = {}
    BY DEF rest
  <2>6. fold[s] \in Seq(s)
    <3>1. fold[rest] \in Seq(s) /\ Repeat(x, bag[x]) \in Seq(s)
      BY <2>1, <2>3, <2>4, <2>5, SeqOfMore
    <3> QED
      BY <2>2, <3>1
  <2>7. ASSUME \A b \in hits : bag[b] = 1 PROVE IsInjective(fold[s])
    <3>1. IsInjective(fold[rest])
      BY <1>9, <2>7 DEF rest
    <3>2. IsInjective(Repeat(x, bag[x]))
      <4>1. bag[x] = 1
        BY <2>1, <2>7
      <4> QED
        BY <4>1 DEF Repeat, IsInjective
    <3> QED
      BY <2>2, <2>3, <2>4, <2>5, <3>1, <3>2, BothOnce
  <2> QED
    BY <2>6, <2>7
<1> HIDE DEF P, c, fold
<1>10. hits \in P
  BY <1>2, <1>8, <1>9, FoldInduction
<1> QED
  BY <1>1, <1>10 DEF P

\* A list without what is not in S.
LEMMA WithinIs ==
  ASSUME NEW U, NEW seq \in Seq(U), NEW S
  PROVE  /\ Within(seq, S) \in Seq(ToSet(seq) \cap S)
         /\ ToSet(Within(seq, S)) = ToSet(seq) \cap S
         /\ IsInjective(seq) => IsInjective(Within(seq, S))
<1> DEFINE D == DOMAIN seq
           more(iter, s) ==
             IF s = {} THEN <<>>
             ELSE IF seq[Max(s)] \in S THEN Append(iter[s \ {Max(s)}], seq[Max(s)])
             ELSE iter[s \ {Max(s)}]
           fold == CHOOSE iter : iter = [s \in SUBSET D |-> more(iter, s)]
           X == Seq(ToSet(seq))
           empty == <<>>
           add(done, i) == IF seq[i] \in S THEN Append(done, seq[i]) ELSE done
           c == [s \in SUBSET D |-> Max(s)]
           g == [p \in X \X D |-> add(p[1], p[2])]
<1>1. Within(seq, S) = fold[D]
  BY DEF Within, FoldLeft, MapThenFoldSet
<1>2. D = 1 .. Len(seq) /\ Len(seq) \in Nat /\ IsFiniteSet(D)
  BY FS_Interval
<1>3. Chooses(c, D)
  BY <1>2, LastOfSome DEF Chooses
<1>4. /\ empty \in X
      /\ \A done \in X, i \in D : add(done, i) \in X
  BY DEF ToSet
<1>5. PICK h \in [SUBSET D -> X] :
        \A s \in SUBSET D : h[s] = IF s = {} THEN empty ELSE add(h[s \ {c[s]}], c[s])
  <2> HIDE DEF c, X, D, empty, add
  <2>1. g \in [X \X D -> X] /\ \A done \in X, i \in D : g[<<done, i>>] = add(done, i)
    BY <1>4
  <2> HIDE DEF g
  <2>2. PICK h \in [SUBSET D -> X] : FoldIs(h, D, empty, g, c)
    BY <1>2, <1>3, <1>4, <2>1, FoldDefined
  <2>3. ASSUME NEW s \in SUBSET D, s # {} PROVE g[<<h[s \ {c[s]}], c[s]>>] = add(h[s \ {c[s]}], c[s])
    <3>1. c[s] \in D /\ s \ {c[s]} \in SUBSET D
      BY <1>3, <2>3 DEF Chooses
    <3> QED
      BY <2>1, <3>1
  <2> QED
    BY <2>2, <2>3 DEF FoldIs
<1>6. h = [s \in SUBSET D |-> more(h, s)]
  <2>1. \A s \in SUBSET D : h[s] = more(h, s)
    BY <1>5
  <2> HIDE DEF more, D
  <2> QED
    BY <2>1
<1>7. fold = [s \in SUBSET D |-> more(fold, s)]
  <2> HIDE DEF more, D
  <2> QED
    BY <1>6
<1> HIDE DEF fold
<1> DEFINE Of(s) == {seq[i] : i \in s} \cap S
           Fine(done, s) ==
             /\ done \in Seq(Of(s)) /\ ToSet(done) = Of(s)
             /\ IsInjective(seq) => IsInjective(done)
           P == {s \in SUBSET D : Fine(fold[s], s)}
<1>8. {} \in P
  <2>1. fold[{}] = <<>>
    BY <1>7
  <2>2. <<>> \in Seq({}) /\ ToSet(<<>>) = {} /\ IsInjective(<<>>)
    BY DEF IsInjective, ToSet
  <2>3. Of({}) = {}
    OBVIOUS
  <2> QED
    BY <2>1, <2>2, <2>3
<1>9. ASSUME NEW s \in SUBSET D, s # {}, s \ {c[s]} \in P PROVE s \in P
  <2> DEFINE x == c[s]
             rest == s \ {x}
             done == fold[rest]
  <2>1. x \in s /\ x \in D /\ x = Max(s)
    BY <1>3, <1>9 DEF Chooses
  <2>2. fold[s] = IF seq[x] \in S THEN Append(done, seq[x]) ELSE done
    <3>1. fold[s] = more(fold, s)
      BY <1>7
    <3>2. Max(s) = x
      BY <2>1
    <3> HIDE DEF x
    <3> QED
      BY <1>9, <3>1, <3>2
  <2>3. Fine(done, rest)
    BY <1>9
  <2>4. Of(s) = IF seq[x] \in S THEN Of(rest) \cup {seq[x]} ELSE Of(rest)
    BY <2>1
  <2>5. IsInjective(seq) => seq[x] \notin Of(rest)
    BY <2>1 DEF IsInjective
  <2> HIDE DEF done, c, x
  <2>6. CASE seq[x] \notin S
    <3> HIDE DEF rest, Of
    <3> QED
      BY <2>2, <2>3, <2>4, <2>6
  <2>7. CASE seq[x] \in S
    <3> DEFINE e == seq[x]
               all == Append(done, e)
    <3>1. fold[s] = all /\ Of(s) = Of(rest) \cup {e}
      BY <2>2, <2>4, <2>7
    <3>2. done \in Seq(Of(rest)) /\ ToSet(done) = Of(rest) /\ (IsInjective(seq) => IsInjective(done))
      BY <2>3
    <3>3. IsInjective(seq) => e \notin Of(rest)
      BY <2>5
    <3> HIDE DEF e, Of, rest
    <3>4. done \in Seq(Of(s))
      BY <3>1, <3>2, SeqOfMore
    <3>5. e \in Of(s)
      BY <3>1
    <3>6. /\ all \in Seq(Of(s)) /\ Len(all) = Len(done) + 1 /\ Len(done) \in Nat
          /\ \A i \in 1 .. Len(done) + 1 : all[i] = IF i <= Len(done) THEN done[i] ELSE e
      BY <3>4, <3>5
    <3>7. ToSet(all) = ToSet(done) \cup {e}
      <4>1. ToSet(all) = {all[i] : i \in 1 .. Len(done) + 1} /\ ToSet(done) = {done[i] : i \in 1 .. Len(done)}
        BY <3>4, <3>6 DEF ToSet
      <4>2. all[Len(done) + 1] = e /\ Len(done) + 1 \in 1 .. Len(done) + 1
        BY <3>6
      <4>3. \A i \in 1 .. Len(done) : i \in 1 .. Len(done) + 1 /\ all[i] = done[i]
        BY <3>6
      <4>4. \A i \in 1 .. Len(done) + 1 : i \in 1 .. Len(done) \/ all[i] = e
        BY <3>6
      <4> HIDE DEF all
      <4> QED
        BY <4>1, <4>2, <4>3, <4>4
    <3>8. ASSUME IsInjective(seq) PROVE IsInjective(all)
      <4>1. \A i \in 1 .. Len(done) : done[i] # e
        BY <3>2, <3>3, <3>8
      <4>2. IsInjective(done)
        BY <3>2, <3>8
      <4>3. \A i, j \in 1 .. Len(done) : done[i] = done[j] => i = j
        BY <3>2, <4>2 DEF IsInjective
      <4> HIDE DEF all
      <4>4. \A i, j \in 1 .. Len(done) + 1 : all[i] = all[j] => i = j
        BY <3>6, <4>1, <4>3
      <4>5. DOMAIN all = 1 .. Len(done) + 1
        BY <3>6
      <4> QED
        BY <4>4, <4>5 DEF IsInjective
    <3> HIDE DEF all
    <3>9. Fine(fold[s], s)
      BY <3>1, <3>2, <3>6, <3>7, <3>8
    <3> QED
      BY <3>9
  <2> QED
    BY <2>6, <2>7
<1> HIDE DEF P, c
<1>10. D \in P
  BY <1>2, <1>3, <1>8, <1>9, FoldInduction
<1>11. Of(D) = ToSet(seq) \cap S
  BY DEF ToSet
<1> HIDE DEF Of, D
<1>12. Fine(fold[D], D)
  BY <1>10 DEF P
<1> QED
  BY <1>1, <1>11, <1>12

\* The order has what is required, once if that and the ranking have it once.
LEMMA OrderIs ==
  ASSUME NEW U, NEW required \in Seq(U), NEW Hits, NEW ranked \in Seq(Hits)
  PROVE  LET order == ExecutionOrder(required, ranked) IN
         /\ ToSet(order) = ToSet(required)
         /\ IsInjective(required) /\ IsInjective(ranked) => IsInjective(order)
<1> DEFINE R == ToSet(required)
           known == Within(ranked, R)
           K == ToSet(known)
           others == Within(required, R \ K)
<1>1. known \in Seq(ToSet(ranked) \cap R) /\ K = ToSet(ranked) \cap R
      /\ (IsInjective(ranked) => IsInjective(known))
  BY WithinIs
<1> HIDE DEF known
<1>2. others \in Seq(R \cap (R \ K)) /\ ToSet(others) = R \cap (R \ K)
      /\ (IsInjective(required) => IsInjective(others))
  BY WithinIs
<1>3. ExecutionOrder(required, ranked) = known \o others
  BY DEF ExecutionOrder, known
<1> HIDE DEF others, R, K
<1>4. known \in Seq(R \cap K) /\ others \in Seq(R \ K) /\ ToSet(others) = R \ K /\ K \subseteq R
  <2>1. R \cap (R \ K) = R \ K /\ ToSet(ranked) \cap R = R \cap K
    BY <1>1
  <2> QED
    BY <1>1, <1>2, <2>1
<1>5. known \in Seq(R) /\ others \in Seq(R)
  BY <1>4, SeqOfMore
<1>6. Range(known \o others) = Range(known) \cup Range(others)
  BY <1>5, RangeConcatenation
<1>7. ToSet(known \o others) = R
  BY <1>4, <1>6 DEF ToSet, Range, K
<1>8. IsInjective(required) /\ IsInjective(ranked) => IsInjective(known \o others)
  BY <1>1, <1>2, <1>4, BothOnce
<1> QED
  BY <1>3, <1>7, <1>8 DEF R

\* Flattening is defined, by what has been flattened before.
Flat(seqs) ==
  LET flatten[i \in 1 .. Len(seqs)] == IF i = 1 THEN seqs[i] ELSE flatten[i - 1] \o seqs[i]
  IN flatten

LEMMA FlatIs ==
  ASSUME NEW X, NEW seqs \in Seq(Seq(X)), seqs # <<>>
  PROVE  Flat(seqs) = [i \in 1 .. Len(seqs) |->
                         IF i = 1 THEN seqs[i] ELSE Flat(seqs)[i - 1] \o seqs[i]]
<1> DEFINE n == Len(seqs)
           more(f, i) == IF i = 1 THEN seqs[i] ELSE f[i - 1] \o seqs[i]
           flat == CHOOSE f : f = [i \in 1 .. n |-> more(f, i)]
           Right(f, i) == f[i] = more(f, i)
           P == {m \in Nat : \E f \in [1 .. n -> Seq(X)] : \A i \in 1 .. n : i <= m => Right(f, i)}
<1>1. n \in Nat /\ n # 0 /\ \A i \in 1 .. n : seqs[i] \in Seq(X)
  OBVIOUS
<1>flat. flat = Flat(seqs)
  BY DEF Flat
<1> HIDE DEF n
<1>2. 0 \in P
  <2>1. [i \in 1 .. n |-> seqs[1]] \in [1 .. n -> Seq(X)]
    BY <1>1
  <2>2. \A i \in 1 .. n : ~(i <= 0)
    BY <1>1
  <2> QED
    BY <2>1, <2>2
<1>3. ASSUME NEW m \in Nat, m < n, m \in P PROVE m + 1 \in P
  <2>1. PICK f \in [1 .. n -> Seq(X)] : \A i \in 1 .. n : i <= m => Right(f, i)
    BY <1>3
  <2> DEFINE e == more(f, m + 1)
             next == [f EXCEPT ![m + 1] = e]
  <2>2. m + 1 \in 1 .. n
    BY <1>1, <1>3
  <2>3. e \in Seq(X)
    <3>1. CASE m = 0
      BY <1>1, <2>2, <3>1
    <3>2. CASE m # 0
      <4>1. m \in 1 .. n /\ m + 1 - 1 = m /\ m + 1 # 1
        BY <1>1, <1>3, <3>2
      <4>2. f[m] \in Seq(X) /\ seqs[m + 1] \in Seq(X)
        BY <1>1, <2>2, <4>1
      <4>3. e = f[m] \o seqs[m + 1]
        BY <4>1
      <4> QED
        BY <4>2, <4>3
    <3> QED
      BY <3>1, <3>2
  <2> HIDE DEF e
  <2>4. next \in [1 .. n -> Seq(X)]
    BY <2>2, <2>3
  <2>5. \A i \in 1 .. n : next[i] = IF i = m + 1 THEN e ELSE f[i]
    BY <2>2
  <2> HIDE DEF next
  <2>6. ASSUME NEW i \in 1 .. n, i <= m + 1 PROVE Right(next, i)
    <3>1. i # 1 => i - 1 \in 1 .. n /\ i - 1 # m + 1 /\ i - 1 <= m
      BY <1>1, <2>6
    <3>2. CASE i = m + 1
      <4>1. next[i] = more(f, i)
        BY <2>5, <3>2 DEF e
      <4> QED
        BY <2>5, <3>1, <4>1
    <3>3. CASE i # m + 1
      <4>1. i <= m
        BY <1>1, <2>6, <3>3
      <4>2. f[i] = more(f, i) /\ next[i] = f[i]
        BY <2>1, <2>5, <3>3, <4>1
      <4> QED
        BY <2>5, <3>1, <4>2
    <3> QED
      BY <3>2, <3>3
  <2> HIDE DEF Right
  <2> QED
    BY <2>4, <2>6
<1> HIDE DEF P
<1>4. n \in P
  <2>1. \A i \in Nat : i < n /\ i \in P => i + 1 \in P
    BY <1>3
  <2>2. \A i \in 0 .. n : i \in P
    BY <1>1, <1>2, <2>1, UpTo
  <2> QED
    BY <1>1, <2>2
<1>5. PICK f \in [1 .. n -> Seq(X)] : \A i \in 1 .. n : f[i] = more(f, i)
  <2>1. PICK f \in [1 .. n -> Seq(X)] : \A i \in 1 .. n : i <= n => Right(f, i)
    BY <1>4 DEF P
  <2>2. \A i \in 1 .. n : i <= n
    BY <1>1
  <2> HIDE DEF more
  <2> QED
    BY <2>1, <2>2
<1>6. f = [i \in 1 .. n |-> more(f, i)]
  <2> HIDE DEF more
  <2> QED
    BY <1>5
<1>7. flat = [i \in 1 .. n |-> more(flat, i)]
  <2> HIDE DEF more
  <2> QED
    BY <1>6
<1> HIDE DEF flat
<1> QED
  BY <1>7, <1>flat DEF n

\* Flattening a list of lists gives a list of their elements.
LEMMA FlattenedIs ==
  ASSUME NEW X, NEW seqs \in Seq(Seq(X))
  PROVE  /\ FlattenSeq(seqs) \in Seq(X)
         /\ \A k \in DOMAIN seqs : ToSet(seqs[k]) \subseteq ToSet(FlattenSeq(seqs))
<1> DEFINE n == Len(seqs)
           flat == Flat(seqs)
           Has(i) == /\ flat[i] \in Seq(X)
                     /\ \A k \in 1 .. n : k <= i => ToSet(seqs[k]) \subseteq ToSet(flat[i])
           R == {m \in Nat : \A i \in 1 .. n : i <= m => Has(i)}
<1>1. n \in Nat /\ DOMAIN seqs = 1 .. n /\ \A i \in 1 .. n : seqs[i] \in Seq(X)
  OBVIOUS
<1>2. FlattenSeq(seqs) = IF n = 0 THEN seqs ELSE flat[n]
  BY DEF FlattenSeq, Flat
<1>3. CASE n = 0
  <2>1. seqs = <<>> /\ DOMAIN seqs = {}
    BY <1>3
  <2>2. <<>> \in Seq(X)
    OBVIOUS
  <2> QED
    BY <1>2, <1>3, <2>1, <2>2
<1>4. CASE n # 0
  <2>1. flat = [i \in 1 .. n |-> IF i = 1 THEN seqs[i] ELSE flat[i - 1] \o seqs[i]]
    <3>1. seqs # <<>>
      BY <1>4
    <3> QED
      BY <3>1, FlatIs
  <2> HIDE DEF flat, n
  <2>2. 0 \in R
    BY <1>1
  <2>3. ASSUME NEW m \in Nat, m < n, m \in R PROVE m + 1 \in R
    <3>1. ASSUME NEW i \in 1 .. n, i <= m + 1 PROVE Has(i)
      <4>1. flat[i] = IF i = 1 THEN seqs[i] ELSE flat[i - 1] \o seqs[i]
        BY <2>1
      <4>2. CASE i = 1
        <5>1. flat[i] = seqs[i] /\ \A k \in 1 .. n : k <= i => k = i
          BY <1>1, <4>1, <4>2
        <5> QED
          BY <1>1, <5>1
      <4>3. CASE i # 1
        <5>1. i - 1 \in 1 .. n /\ i - 1 <= m
          BY <1>1, <3>1, <4>3
        <5>2. Has(i - 1)
          BY <2>3, <5>1
        <5> DEFINE a == flat[i - 1]
                   b == seqs[i]
        <5>3. a \in Seq(X) /\ b \in Seq(X) /\ flat[i] = a \o b
          BY <1>1, <4>1, <4>3, <5>2
        <5>4. \A k \in 1 .. n : k <= i => k = i \/ k <= i - 1
          BY <1>1
        <5>5. \A k \in 1 .. n : k <= i => ToSet(seqs[k]) \subseteq ToSet(a) \cup ToSet(b)
          BY <5>2, <5>4
        <5> HIDE DEF a, b
        <5>6. a \o b \in Seq(X) /\ Range(a \o b) = Range(a) \cup Range(b)
          BY <5>3, RangeConcatenation
        <5> QED
          BY <5>3, <5>5, <5>6, ToSetIsRange
      <4> QED
        BY <4>2, <4>3
    <3> HIDE DEF Has
    <3> QED
      BY <3>1
  <2> HIDE DEF R
  <2>4. n \in R
    <3>1. \A m \in Nat : m < n /\ m \in R => m + 1 \in R
      BY <2>3
    <3>2. \A i \in 0 .. n : i \in R
      BY <1>1, <2>2, <3>1, UpTo
    <3> QED
      BY <1>1, <3>2
  <2>5. n \in 1 .. n /\ \A k \in 1 .. n : k <= n
    BY <1>1, <1>4
  <2>6. Has(n)
    <3> HIDE DEF Has
    <3> QED
      BY <2>4, <2>5 DEF R
  <2> QED
    BY <1>1, <1>2, <1>4, <2>5, <2>6
<1> QED
  BY <1>3, <1>4

\* What a manifest requires are blocks, with those of every file it reports.
LEMMA RequiredIs ==
  ASSUME NEW man, man.reported \in Seq(Files)
  PROVE  /\ Required(man) \in Seq(AllBlocks)
         /\ \A f \in ToSet(man.reported) : ToSet(RequiredOf[f]) \subseteq ToSet(Required(man))
<1> DEFINE seqs == [i \in DOMAIN man.reported |-> RequiredOf[man.reported[i]]]
<1>1. ASSUME NEW f \in Files PROVE RequiredOf[f] \in Seq(AllBlocks)
  <2>1. LeafsOf[f] \subseteq AllBlocks /\ RequiredOf[f] \in Seq(LeafsOf[f])
    BY FileFacts, ParsersAssumption
  <2> QED
    BY <2>1, SeqOfMore
<1>2. DOMAIN man.reported = 1 .. Len(man.reported) /\ Len(man.reported) \in Nat
      /\ \A i \in 1 .. Len(man.reported) : man.reported[i] \in Files
  OBVIOUS
<1>3. seqs \in Seq(Seq(AllBlocks))
  BY <1>1, <1>2, IsASeq
<1>4. \A f \in ToSet(man.reported) : \E k \in DOMAIN seqs : RequiredOf[f] = seqs[k]
  BY DEF ToSet
<1> HIDE DEF seqs
<1>5. /\ FlattenSeq(seqs) \in Seq(AllBlocks)
      /\ \A k \in DOMAIN seqs : ToSet(seqs[k]) \subseteq ToSet(FlattenSeq(seqs))
  BY <1>3, FlattenedIs
<1>6. Required(man) = FlattenSeq(seqs)
  BY DEF Required, seqs
<1> QED
  BY <1>4, <1>5, <1>6

\* A manifest names finitely many blocks.
LEMMA FinitelyAddressable ==
  ASSUME NEW man, man.reported \in Seq(Files)
  PROVE  IsFiniteSet(Addressable(man))
<1> DEFINE Of(f) == {b \in LeafsOf[f] : Processable(b)} \cup StructureOf[f]
           F == ToSet(man.reported)
           all == {Of(f) : f \in F}
           D == DOMAIN man.reported
<1>1. D = 1 .. Len(man.reported) /\ Len(man.reported) \in Nat /\ F = {man.reported[i] : i \in D}
      /\ F \subseteq Files
  BY DEF ToSet
<1>2. IsFiniteSet(D)
  BY <1>1, FS_Interval
<1>3. IsFiniteSet(all)
  <2> DEFINE g == [i \in D |-> Of(man.reported[i])]
  <2>1. g \in Surjection(D, all)
    <3>1. g \in [D -> all]
      BY <1>1
    <3>2. ASSUME NEW s \in all PROVE \E i \in D : g[i] = s
      BY <1>1, <3>2
    <3> HIDE DEF g, all
    <3> QED
      BY <3>1, <3>2 DEF Surjection
  <2> HIDE DEF g, all, D
  <2> QED
    BY <1>2, <2>1, FS_Surjection
<1>4. ASSUME NEW s \in all PROVE IsFiniteSet(s)
  <2>1. PICK f \in F : s = Of(f)
    OBVIOUS
  <2>2. IsFiniteSet(BlocksOf(f)) /\ s \subseteq BlocksOf(f)
    BY <1>1, <2>1, ParsersAssumption DEF BlocksOf
  <2> QED
    BY <2>2, FS_Subset
<1> HIDE DEF all
<1>5. IsFiniteSet(UNION all)
  BY <1>3, <1>4, FS_UNION
<1> QED
  BY <1>5 DEF Addressable, all

-----------------------------------------------------------------------------
\* The order of a reader.

\* A step of one thread that leaves the text index alone.
LEMMA OrderStep ==
  ASSUME ShapeInv, ListsInv, IndexInv, NEW t \in Threads, NEW new, Move(t, new),
         ListsFit(new), new.pc # "upsert",
         new.pc = "answered" /\ IndexedOnce /\ IsInjective(new.required) => IsInjective(new.order),
         fts' = fts, overlapped \subseteq overlapped',
         manifest' \notin {manifest, None} => manifest'.reported \in Seq(Files)
  PROVE  ListsInv' /\ IndexInv'
<1>1. \A u \in Threads : threads'[u] = IF u = t THEN new ELSE threads[u]
  BY DEF Move, ShapeInv, ThreadsFit
<1>2. ListsInv'
  <2>1. \A u \in Threads : ListsFit(threads[u])
    BY DEF ListsInv
  <2>2. \A u \in Threads : ListsFit(threads'[u])
    BY <1>1, <2>1, Zenon
  <2>3. manifest' # None => manifest'.reported \in Seq(Files)
    BY DEF ListsInv
  <2> QED
    BY <2>2, <2>3 DEF ListsInv
<1>3. ASSUME IndexedOnce' PROVE IndexInv'
  <2>1. /\ IndexedOnce /\ \A b \in DOMAIN fts : fts[b] = 1
        /\ \A u \in Threads : IndexFits(threads[u])
        /\ \A u \in Threads : \A v \in Threads \ {u} : Apart(threads[u], threads[v])
    BY <1>3 DEF IndexInv, IndexedOnce
  <2>2. IndexFits(new) /\ \A other : Apart(new, other) /\ Apart(other, new)
    BY <2>1 DEF IndexFits, Apart
  <2>3. \A u \in Threads : IndexFits(threads'[u])
    BY <1>1, <2>1, <2>2, Zenon
  <2>4. \A u \in Threads : IndexFits(threads[u])'
    BY <2>3 DEF IndexFits
  <2>5. ASSUME NEW u \in Threads, NEW v \in Threads \ {u} PROVE Apart(threads'[u], threads'[v])
    BY <1>1, <2>1, <2>2, Zenon
  <2>6. \A u \in Threads : \A v \in Threads \ {u} : Apart(threads[u], threads[v])'
    BY <2>5 DEF Apart
  <2> QED
    BY <2>1, <2>4, <2>6 DEF IndexInv
<1> QED
  BY <1>2, <1>3 DEF IndexInv

LEMMA IdleLists == ListsFit(IdleThread) /\ IdleThread.pc = "idle"
<1>1. IdleThread.batches = <<>> /\ IdleThread.op = "idle" /\ IdleThread.pc = "idle"
  BY DEF IdleThread
<1>2. ToSet(<<>>) = {}
  BY DEF ToSet
<1> QED
  BY <1>1, <1>2 DEF ListsFit

LEMMA FinishOrders ==
  ASSUME ShapeInv, ListsInv, IndexInv, NEW t \in Threads, Finish(t),
         fts' = fts, overlapped \subseteq overlapped', manifest' \in {manifest, None}
  PROVE  ListsInv' /\ IndexInv'
  BY IdleLists, OrderStep DEF Finish

\* A thread goes on with the same lists.
Carries(th, new) ==
  /\ new.op = th.op /\ new.batches = th.batches
  /\ new.reported = th.reported /\ new.required = th.required

LEMMA CarriedOn ==
  ASSUME NEW th, ListsFit(th), NEW new, Carries(th, new), new.pc \notin {"answered", "manifest"},
         new.pc \in {"migrate", "migrated", "load"} => new.man.reported \in Seq(Files)
  PROVE  ListsFit(new)
  BY DEF Carries, ListsFit

LEMMA PutOrders ==
  ASSUME ShapeInv, ListsInv, IndexInv, NEW t \in Threads, PutPayloads(t)
  PROVE  ListsInv' /\ IndexInv'
<1> DEFINE th == threads[t]
           new == [th EXCEPT !.pc = "probe"]
<1>1. Fits(th) /\ ListsFit(th)
  BY DEF ShapeInv, ThreadsFit, ListsInv
<1>2. Move(t, new) /\ UNCHANGED <<fts, overlapped, manifest>>
  BY DEF PutPayloads
<1>3. new.pc = "probe" /\ Carries(th, new)
  BY <1>1, FieldsAre DEF Fits, Carries
<1> HIDE DEF th, new
<1>4. ListsFit(new)
  BY <1>1, <1>3, CarriedOn
<1> QED
  BY <1>2, <1>3, <1>4, OrderStep

LEMMA ProbeOrders ==
  ASSUME ShapeInv, ListsInv, IndexInv, NEW t \in Threads, ProbeCatalog(t)
  PROVE  ListsInv' /\ IndexInv'
<1> DEFINE th == threads[t]
           new == [th EXCEPT !.pc = "upsert", !.existing = rows \cap Head(th.batches)]
           racing == {u \in Threads \ {t} : T(u, "upsert")
                       /\ Head(threads[u].batches) \cap Head(th.batches) # {}}
<1>1. Fits(th) /\ ListsFit(th)
  BY DEF ShapeInv, ThreadsFit, ListsInv
<1>2. /\ Move(t, new) /\ UNCHANGED <<fts, manifest>>
      /\ overlapped' = IF racing = {} THEN overlapped ELSE overlapped \cup {{"index"}}
  BY DEF ProbeCatalog, stores
<1>3. /\ new.pc = "upsert" /\ new.existing = rows \cap Head(th.batches) /\ Carries(th, new)
      /\ new.batches = th.batches
  BY <1>1, FieldsAre DEF Fits, Carries
<1>4. DOMAIN fts \subseteq rows
  BY DEF ShapeInv, StoresFit, BagToSet
<1>5. \A u \in Threads : threads'[u] = IF u = t THEN new ELSE threads[u]
  BY <1>2 DEF Move, ShapeInv, ThreadsFit
<1>6. ASSUME racing = {}, NEW u \in Threads \ {t} PROVE Apart(new, threads[u]) /\ Apart(threads[u], new)
  <2>1. threads[u].pc = "upsert" => Head(threads[u].batches) \cap Head(th.batches) = {}
    BY <1>6 DEF T
  <2> QED
    BY <1>3, <2>1 DEF Apart
<1> HIDE DEF th, new, racing
<1>7. ListsFit(new)
  BY <1>1, <1>3, CarriedOn
<1>8. ListsInv'
  <2>1. \A u \in Threads : ListsFit(threads[u])
    BY DEF ListsInv
  <2>2. \A u \in Threads : ListsFit(threads'[u])
    BY <1>5, <1>7, <2>1, Zenon
  <2> QED
    BY <1>2, <2>2 DEF ListsInv
<1>9. ASSUME IndexedOnce' PROVE IndexInv'
  <2>1. racing = {} /\ IndexedOnce
    BY <1>2, <1>9 DEF IndexedOnce
  <2>2. /\ \A b \in DOMAIN fts : fts[b] = 1
        /\ \A u \in Threads : IndexFits(threads[u])
        /\ \A u \in Threads : \A v \in Threads \ {u} : Apart(threads[u], threads[v])
    BY <2>1 DEF IndexInv
  <2>3. IndexFits(new)
    BY <1>3, <1>4 DEF IndexFits
  <2>4. \A u \in Threads : IndexFits(threads'[u])
    BY <1>5, <2>2, <2>3, Zenon
  <2>5. \A u \in Threads : IndexFits(threads[u])'
    BY <1>2, <2>4 DEF IndexFits
  <2>6. ASSUME NEW u \in Threads, NEW v \in Threads \ {u} PROVE Apart(threads'[u], threads'[v])
    <3>1. CASE u = t
      BY <1>5, <1>6, <2>1, <3>1
    <3>2. CASE v = t
      BY <1>5, <1>6, <2>1, <3>2
    <3>3. CASE u # t /\ v # t
      BY <1>5, <2>2, <3>3
    <3> QED
      BY <3>1, <3>2, <3>3
  <2>7. \A u \in Threads : \A v \in Threads \ {u} : Apart(threads[u], threads[v])'
    BY <2>6 DEF Apart
  <2> QED
    BY <1>2, <2>2, <2>5, <2>7 DEF IndexInv
<1> QED
  BY <1>8, <1>9 DEF IndexInv

\* What indexing makes of an index that has a block once, when the probe found what it has.
LEMMA IndexedOnceMore ==
  ASSUME NEW bag, \A b \in DOMAIN bag : bag[b] = 1,
         NEW batch, NEW existing, DOMAIN bag \cap batch \subseteq existing
  PROVE  \A b \in DOMAIN IndexRows(bag, batch, existing) : IndexRows(bag, batch, existing)[b] = 1
  BY DEF IndexRows, SetToBag, WithoutRows, (+)

LEMMA IndexedAre ==
  ASSUME NEW bag, NEW batch, NEW existing
  PROVE  DOMAIN IndexRows(bag, batch, existing) \subseteq DOMAIN bag \cup batch
  BY DEF IndexRows, SetToBag, WithoutRows, (+)

LEMMA UpsertOrders ==
  ASSUME ShapeInv, ListsInv, IndexInv, NEW t \in Threads, UpsertCatalog(t)
  PROVE  ListsInv' /\ IndexInv'
<1> DEFINE th == threads[t]
           batch == Head(th.batches)
           pc == IF Len(th.batches) = 1 THEN th.after ELSE IF th.op = "read" THEN "probe" ELSE "put"
           new == [th EXCEPT !.batches = Tail(th.batches), !.existing = {}, !.pc = pc]
<1>1. Fits(th) /\ ListsFit(th)
  BY DEF ShapeInv, ThreadsFit, ListsInv
<1>2. /\ th.pc = "upsert" /\ Move(t, new) /\ fts' = IndexRows(fts, batch, th.existing)
      /\ UNCHANGED <<manifest, overlapped>>
  BY DEF UpsertCatalog, T
<1>3. /\ new.pc = pc /\ new.batches = Tail(th.batches) /\ new.op = th.op
      /\ new.reported = th.reported /\ new.required = th.required
  BY <1>1, FieldsAre DEF Fits
<1>4. th.batches # <<>> /\ th.batches \in Seq(SUBSET AllBlocks) /\ pc \in {"file", "report", "rank", "probe", "put"}
  <2>1. th.op \in {"ingest", "read"}
    BY <1>1, <1>2 DEF Fits, PlaceFits, Deleting
  <2>2. th.after \in {"file", "report", "rank"}
    BY <1>1, <1>2, <2>1 DEF Fits, WorkFits, Storing
  <2> QED
    BY <1>1, <1>2, <2>2 DEF Fits, WorkFits, DataFits, Storing
<1>5. \A u \in Threads : threads'[u] = IF u = t THEN new ELSE threads[u]
  BY <1>2 DEF Move, ShapeInv, ThreadsFit
<1> HIDE DEF th, new, pc
<1>6. batch \in ToSet(th.batches) /\ ToSet(Tail(th.batches)) \subseteq ToSet(th.batches)
  BY <1>4, FirstAndRest, ToSetIsRange
<1>7. ListsFit(new)
  BY <1>1, <1>3, <1>4, <1>6 DEF ListsFit
<1> HIDE DEF batch
<1>8. ListsInv'
  <2>1. \A u \in Threads : ListsFit(threads[u])
    BY DEF ListsInv
  <2>2. \A u \in Threads : ListsFit(threads'[u])
    BY <1>5, <1>7, <2>1, Zenon
  <2>3. IsFiniteSet(batch) /\ IsFiniteSet(DOMAIN fts)
    BY <1>1, <1>6 DEF ListsFit, ListsInv
  <2>4. IsFiniteSet(DOMAIN fts \cup batch)
    BY <2>3, FS_Union
  <2>5. IsFiniteSet(DOMAIN fts')
    BY <1>2, <2>4, IndexedAre, FS_Subset
  <2> QED
    BY <1>2, <2>2, <2>5 DEF ListsInv
<1>9. ASSUME IndexedOnce' PROVE IndexInv'
  <2>1. /\ \A b \in DOMAIN fts : fts[b] = 1
        /\ \A u \in Threads : IndexFits(threads[u])
        /\ \A u \in Threads : \A v \in Threads \ {u} : Apart(threads[u], threads[v])
    BY <1>2, <1>9 DEF IndexInv, IndexedOnce
  <2>2. DOMAIN fts \cap batch \subseteq th.existing
    BY <1>2, <2>1 DEF IndexFits, th, batch
  <2>3. \A b \in DOMAIN fts' : fts'[b] = 1
    BY <1>2, <2>1, <2>2, IndexedOnceMore
  <2>4. DOMAIN fts' \subseteq DOMAIN fts \cup batch
    BY <1>2, IndexedAre
  <2>5. ASSUME NEW u \in Threads PROVE IndexFits(threads[u])'
    <3>1. CASE u = t
      BY <1>3, <1>4, <1>5, <3>1 DEF IndexFits
    <3>2. CASE u # t
      <4>1. threads'[u] = threads[u]
        BY <1>5, <3>2
      <4>2. IndexFits(threads[u]) /\ Apart(th, threads[u])
        BY <2>1, <3>2 DEF th
      <4>3. threads[u].pc = "upsert" => Head(threads[u].batches) \cap batch = {}
        BY <1>2, <4>2 DEF Apart, batch
      <4> QED
        BY <2>4, <4>1, <4>2, <4>3 DEF IndexFits
    <3> QED
      BY <3>1, <3>2
  <2>6. \A other : Apart(new, other) /\ Apart(other, new)
    BY <1>3, <1>4 DEF Apart
  <2>7. ASSUME NEW u \in Threads, NEW v \in Threads \ {u} PROVE Apart(threads'[u], threads'[v])
    BY <1>5, <2>1, <2>6, Zenon
  <2>8. \A u \in Threads : \A v \in Threads \ {u} : Apart(threads[u], threads[v])'
    BY <2>7 DEF Apart
  <2> QED
    BY <2>3, <2>5, <2>8 DEF IndexInv
<1> QED
  BY <1>8, <1>9 DEF IndexInv

\* The batches of a file are sets of its blocks.
LEMMA BatchesOfFile ==
  ASSUME NEW f \in Files
  PROVE  LET batches == Batch(LeafsOf[f]) \o Batch(ToSet(Parse[f].structural)) \o <<{Root(f)}>>
         IN \A batch \in ToSet(batches) : IsFiniteSet(batch)
<1> DEFINE B == SUBSET BlocksOf(f)
           a == Batch(LeafsOf[f])
           b == Batch(ToSet(Parse[f].structural))
           c == <<{Root(f)}>>
<1>1. a \in Seq(B) /\ b \in Seq(B) /\ c \in Seq(B)
  <2>1. LeafsOf[f] \in B /\ ToSet(Parse[f].structural) \in B /\ {Root(f)} \in B
    BY FileFacts DEF BlocksOf
  <2> HIDE DEF B
  <2>2. ASSUME NEW s \in B PROVE Batch(s) \in Seq(B)
    <3>1. <<>> \in Seq(B) /\ <<s>> \in Seq(B)
      OBVIOUS
    <3> QED
      BY <3>1, Zenon DEF Batch
  <2> QED
    BY <2>1, <2>2
<1>2. \A s \in B : IsFiniteSet(s)
  BY ParsersAssumption, FS_Subset
<1> HIDE DEF a, b, c, B
<1>3. a \o b \o c \in Seq(B)
  BY <1>1
<1>4. ToSet(a \o b \o c) \subseteq B
  BY <1>3 DEF ToSet
<1> QED
  BY <1>2, <1>4 DEF a, b, c

LEMMA OneFinite == \A x : \A batch \in ToSet(<<{x}>>) : IsFiniteSet(batch)
<1> TAKE x
<1>1. IsFiniteSet({x})
  BY FS_Singleton
<1>2. ToSet(<<{x}>>) = {{x}}
  BY DEF ToSet
<1> QED
  BY <1>1, <1>2

LEMMA StartIngestOrders ==
  ASSUME ShapeInv, ListsInv, IndexInv, NEW t \in Threads, StartIngest(t)
  PROVE  ListsInv' /\ IndexInv'
<1>1. /\ UNCHANGED <<fts, manifest>> /\ overlapped \subseteq overlapped'
      /\ \E files \in queue :
           Move(t, [IdleThread EXCEPT !.op = "ingest", !.pc = "file", !.files = files])
  BY DEF StartIngest, Start, stores
<1>2. PICK files : Move(t, [IdleThread EXCEPT !.op = "ingest", !.pc = "file", !.files = files])
  BY <1>1
<1> DEFINE new == [IdleThread EXCEPT !.op = "ingest", !.pc = "file", !.files = files]
<1>3. new.op = "ingest" /\ new.pc = "file" /\ new.batches = <<>> /\ new.reported = <<>>
  BY DEF IdleThread
<1>4. Move(t, new)
  BY <1>2
<1> HIDE DEF new
<1>5. ToSet(<<>>) = {} /\ <<>> \in Seq(Files)
  BY DEF ToSet
<1>6. ListsFit(new)
  BY <1>3, <1>5 DEF ListsFit
<1> QED
  BY <1>1, <1>3, <1>4, <1>6, OrderStep

LEMMA IngestFileOrders ==
  ASSUME ShapeInv, ListsInv, IndexInv, NEW t \in Threads, IngestFile(t)
  PROVE  ListsInv' /\ IndexInv'
<1> DEFINE th == threads[t]
           f == th.files[th.file + 1]
           reports == Append(th.reports, FailedReport)
           skipped == [th EXCEPT !.file = th.file + 1, !.reports = reports]
           failed == [th EXCEPT !.file = th.file + 1, !.roots = th.roots \cup {Root(f)},
                                !.reports = reports, !.pc = "put",
                                !.batches = <<{Root(f)}>>, !.after = "file"]
           batches == Batch(LeafsOf[f]) \o Batch(ToSet(Parse[f].structural)) \o <<{Root(f)}>>
           parsed == [th EXCEPT !.file = th.file + 1, !.roots = th.roots \cup {Root(f)},
                                !.pc = "put", !.after = "report", !.batches = batches]
<1>1. Fits(th) /\ ListsFit(th)
  BY DEF ShapeInv, ThreadsFit, ListsInv
<1>2. th.pc = "file" /\ th.file < Len(th.files) /\ UNCHANGED <<fts, overlapped, manifest>>
  BY DEF IngestFile, T, stores
<1>3. \/ Move(t, skipped)
      \/ f.kind # "none" /\ Move(t, failed)
      \/ f.kind # "none" /\ Move(t, parsed)
  BY <1>1, FieldsAre DEF IngestFile, Fits
<1>4. th.op = "ingest"
  BY <1>1, <1>2 DEF Fits, PlaceFits, Reading, Deleting
<1>5. f.kind # "none" => f \in Files
  <2>1. th.files \in Seq(SubmittedFiles) /\ th.file \in Nat
    BY <1>1 DEF Fits, DataFits
  <2>2. Len(th.files) \in Nat
    BY <2>1
  <2>3. th.file + 1 \in 1 .. Len(th.files)
    BY <1>2, <2>1, <2>2
  <2> QED
    BY <2>1, <2>3, ListedFile
<1>6. ASSUME NEW new, Move(t, new), new.pc \in {"file", "put"}, new.op = th.op,
             new.reported = th.reported, \A batch \in ToSet(new.batches) : IsFiniteSet(batch)
      PROVE  ListsInv' /\ IndexInv'
  <2> HIDE DEF th
  <2>1. ListsFit(new)
    BY <1>1, <1>4, <1>6 DEF ListsFit
  <2> QED
    BY <1>2, <1>6, <2>1, OrderStep
<1>7. CASE Move(t, skipped)
  <2>1. /\ skipped.pc = th.pc /\ skipped.op = th.op /\ skipped.reported = th.reported
        /\ skipped.batches = th.batches
    BY <1>1, FieldsAre DEF Fits
  <2> HIDE DEF skipped, th
  <2>2. \A batch \in ToSet(skipped.batches) : IsFiniteSet(batch)
    BY <1>1, <2>1 DEF ListsFit
  <2> QED
    BY <1>2, <1>6, <1>7, <2>1, <2>2
<1>8. ASSUME f \in Files, Move(t, failed) PROVE ListsInv' /\ IndexInv'
  <2>1. /\ failed.pc = "put" /\ failed.op = th.op /\ failed.reported = th.reported
        /\ failed.batches = <<{Root(f)}>>
    BY <1>1, FieldsAre DEF Fits
  <2>2. \A batch \in ToSet(<<{Root(f)}>>) : IsFiniteSet(batch)
    BY OneFinite
  <2> HIDE DEF failed, th, f
  <2> QED
    BY <1>6, <1>8, <2>1, <2>2
<1>9. ASSUME f \in Files, Move(t, parsed) PROVE ListsInv' /\ IndexInv'
  <2>1. /\ parsed.pc = "put" /\ parsed.op = th.op /\ parsed.reported = th.reported
        /\ parsed.batches = batches
    BY <1>1, FieldsAre DEF Fits
  <2>2. \A batch \in ToSet(batches) : IsFiniteSet(batch)
    BY <1>9, BatchesOfFile
  <2> HIDE DEF parsed, th, f, batches
  <2> QED
    BY <1>6, <1>9, <2>1, <2>2
<1> QED
  BY <1>3, <1>5, <1>7, <1>8, <1>9

LEMMA ReportFileOrders ==
  ASSUME ShapeInv, ListsInv, IndexInv, NEW t \in Threads, ReportFile(t)
  PROVE  ListsInv' /\ IndexInv'
<1> DEFINE th == threads[t]
           f == th.files[th.file]
<1>1. Fits(th) /\ ListsFit(th)
  BY DEF ShapeInv, ThreadsFit, ListsInv
<1>2. /\ th.pc = "report" /\ UNCHANGED <<fts, overlapped, manifest>>
      /\ \E reports : Move(t, [th EXCEPT !.pc = "file", !.reported = Append(th.reported, f),
                                         !.reports = reports])
  BY DEF ReportFile, T, stores
<1>3. PICK reports : Move(t, [th EXCEPT !.pc = "file", !.reported = Append(th.reported, f),
                                        !.reports = reports])
  BY <1>2
<1> DEFINE new == [th EXCEPT !.pc = "file", !.reported = Append(th.reported, f),
                             !.reports = reports]
<1>4. /\ new.pc = "file" /\ new.op = th.op /\ new.batches = th.batches
      /\ new.reported = Append(th.reported, f)
  BY <1>1, FieldsAre DEF Fits
<1>5. Move(t, new)
  BY <1>3
<1>6. f \in Files /\ th.op = "ingest"
  <2>1. th.op = "ingest"
    BY <1>1, <1>2 DEF Fits, PlaceFits, Reading, Deleting
  <2> QED
    BY <1>1, <1>2, <2>1 DEF Fits, WorkFits, Current
<1> HIDE DEF th, new, f
<1>7. Append(th.reported, f) \in Seq(Files)
  BY <1>1, <1>6 DEF ListsFit
<1>8. ListsFit(new)
  BY <1>1, <1>4, <1>6, <1>7 DEF ListsFit
<1> QED
  BY <1>2, <1>4, <1>5, <1>8, OrderStep

LEMMA WriteFailsOrders ==
  ASSUME ShapeInv, ListsInv, IndexInv, NEW t \in Threads, WriteFails(t)
  PROVE  ListsInv' /\ IndexInv'
<1> DEFINE th == threads[t]
           reports == Append(th.reports, FailedReport)
           root == {Root(Current(th))}
           new == [th EXCEPT !.pc = "put", !.after = "file", !.existing = {},
                             !.reports = reports, !.batches = <<root>>]
<1>1. Fits(th) /\ ListsFit(th)
  BY DEF ShapeInv, ThreadsFit, ListsInv
<1>2. /\ th.op = "ingest" /\ UNCHANGED <<fts, overlapped, manifest>>
      /\ Move(t, new) \/ Finish(t)
  BY DEF WriteFails, stores, Current
<1>3. ASSUME Move(t, new) PROVE ListsInv' /\ IndexInv'
  <2>1. /\ new.pc = "put" /\ new.op = th.op /\ new.batches = <<root>>
        /\ new.reported = th.reported
    BY <1>1, FieldsAre DEF Fits
  <2>2. \A batch \in ToSet(<<root>>) : IsFiniteSet(batch)
    BY OneFinite
  <2> HIDE DEF th, new, root
  <2>3. ListsFit(new)
    BY <1>1, <1>2, <2>1, <2>2 DEF ListsFit
  <2> QED
    BY <1>2, <1>3, <2>1, <2>3, OrderStep
<1> QED
  BY <1>2, <1>3, FinishOrders

LEMMA EndOfIngestOrders ==
  ASSUME ShapeInv, ListsInv, IndexInv, NEW t \in Threads,
         EndFiles(t) \/ PutManifest(t) \/ CloseJob(t)
  PROVE  ListsInv' /\ IndexInv'
<1> DEFINE th == threads[t]
<1>1. Fits(th) /\ ListsFit(th)
  BY DEF ShapeInv, ThreadsFit, ListsInv
<1>2. CASE EndFiles(t)
  <2> DEFINE man == Manifest(th)
             new == [th EXCEPT !.pc = "manifest", !.man = man]
  <2>1. th.pc = "file" /\ Move(t, new) /\ UNCHANGED <<fts, overlapped, manifest>>
    BY <1>2 DEF EndFiles, T, stores
  <2>2. /\ new.pc = "manifest" /\ new.op = th.op /\ new.batches = th.batches
        /\ new.reported = th.reported /\ new.man = man
    BY <1>1, FieldsAre DEF Fits
  <2>3. man.reported = th.reported
    BY DEF Manifest
  <2> HIDE DEF th, new, man
  <2>4. th.op = "ingest"
    BY <1>1, <2>1 DEF Fits, PlaceFits, Reading, Deleting
  <2>5. ListsFit(new)
    BY <1>1, <2>2, <2>3, <2>4 DEF ListsFit
  <2> QED
    BY <2>1, <2>2, <2>5, OrderStep
<1>3. CASE PutManifest(t)
  <2> DEFINE new == [th EXCEPT !.pc = "close"]
  <2>1. th.pc = "manifest" /\ Move(t, new) /\ UNCHANGED <<fts, overlapped>> /\ manifest' = th.man
    BY <1>3 DEF PutManifest, T
  <2>2. new.pc = "close" /\ Carries(th, new)
    BY <1>1, FieldsAre DEF Fits, Carries
  <2> HIDE DEF th, new
  <2>3. th.op = "ingest"
    BY <1>1, <2>1 DEF Fits, PlaceFits, Reading, Deleting
  <2>4. ListsFit(new)
    BY <1>1, <2>2, CarriedOn
  <2>5. th.man.reported \in Seq(Files)
    BY <1>1, <2>1, <2>3 DEF ListsFit
  <2> QED
    BY <2>1, <2>2, <2>4, <2>5, OrderStep
<1>4. CASE CloseJob(t)
  BY <1>4, FinishOrders DEF CloseJob, stores
<1> QED
  BY <1>2, <1>3, <1>4

LEMMA OpenReaderOrders ==
  ASSUME ShapeInv, ListsInv, IndexInv, NEW t \in Threads, OpenReader(t)
  PROVE  ListsInv' /\ IndexInv'
<1> DEFINE required == Required(manifest)
           new == [IdleThread EXCEPT !.op = "read", !.pc = "ensure", !.required = required]
<1>1. /\ UNCHANGED <<fts, manifest>> /\ overlapped \subseteq overlapped' /\ Move(t, new)
      /\ manifest # None
  BY DEF OpenReader, Start, stores
<1>2. new.op = "read" /\ new.pc = "ensure" /\ new.batches = <<>> /\ new.required = required
  BY DEF IdleThread
<1>3. required \in Seq(AllBlocks)
  BY <1>1, RequiredIs DEF ListsInv
<1>4. ToSet(<<>>) = {}
  BY DEF ToSet
<1> HIDE DEF new, required
<1>5. ListsFit(new)
  BY <1>2, <1>3, <1>4 DEF ListsFit
<1> QED
  BY <1>1, <1>2, <1>5, OrderStep

LEMMA PreparingOrders ==
  ASSUME ShapeInv, ListsInv, IndexInv, NEW t \in Threads,
         EnsureCatalog(t) \/ ReadLegacy(t) \/ MigratePayloads(t)
  PROVE  ListsInv' /\ IndexInv'
<1> DEFINE th == threads[t]
<1>1. Fits(th) /\ ListsFit(th)
  BY DEF ShapeInv, ThreadsFit, ListsInv
<1>2. UNCHANGED <<fts, overlapped, manifest>>
  BY DEF EnsureCatalog, ReadLegacy, MigratePayloads, stores
<1>3. ASSUME NEW new, Move(t, new), Carries(th, new),
             new.pc \in {"fallback", "rank", "migrate", "migrated", "load"},
             new.pc \in {"migrate", "migrated", "load"} => new.man.reported \in Seq(Files)
      PROVE  ListsInv' /\ IndexInv'
  <2> HIDE DEF th
  <2>1. ListsFit(new)
    BY <1>1, <1>3, CarriedOn
  <2> QED
    BY <1>2, <1>3, <2>1, OrderStep
<1>4. CASE EnsureCatalog(t)
  <2>1. \/ Move(t, [th EXCEPT !.pc = "fallback"])
        \/ /\ manifest # None
           /\ \E pc \in {"migrate", "rank"} : Move(t, [th EXCEPT !.man = manifest, !.pc = pc])
    BY <1>4 DEF EnsureCatalog
  <2>2. ASSUME Move(t, [th EXCEPT !.pc = "fallback"]) PROVE ListsInv' /\ IndexInv'
    <3> DEFINE new == [th EXCEPT !.pc = "fallback"]
    <3>1. new.pc = "fallback" /\ Carries(th, new) /\ Move(t, new)
      BY <1>1, <2>2, FieldsAre DEF Fits, Carries
    <3> HIDE DEF new, th
    <3> QED
      BY <1>3, <3>1
  <2>3. ASSUME manifest # None, NEW pc \in {"migrate", "rank"},
               Move(t, [th EXCEPT !.man = manifest, !.pc = pc])
        PROVE  ListsInv' /\ IndexInv'
    <3> DEFINE new == [th EXCEPT !.man = manifest, !.pc = pc]
    <3>1. new.pc = pc /\ new.man = manifest /\ Carries(th, new) /\ Move(t, new)
      BY <1>1, <2>3, FieldsAre DEF Fits, Carries
    <3> HIDE DEF new, th
    <3> QED
      BY <1>3, <2>3, <3>1 DEF ListsInv
  <2> QED
    BY <2>1, <2>2, <2>3
<1>5. CASE ReadLegacy(t) \/ MigratePayloads(t)
  <2>1. /\ th.pc \in {"migrate", "migrated"}
        /\ \E pc \in {"migrated", "load"} : \E existing :
             Move(t, [th EXCEPT !.pc = pc, !.existing = existing])
    BY <1>5 DEF ReadLegacy, MigratePayloads, T
  <2>2. PICK pc \in {"migrated", "load"} : \E existing :
          Move(t, [th EXCEPT !.pc = pc, !.existing = existing])
    BY <2>1
  <2>3. PICK existing : Move(t, [th EXCEPT !.pc = pc, !.existing = existing])
    BY <2>2
  <2> DEFINE new == [th EXCEPT !.pc = pc, !.existing = existing]
  <2>4. new.pc = pc /\ new.man = th.man /\ Carries(th, new) /\ Move(t, new)
    BY <1>1, <2>3, FieldsAre DEF Fits, Carries
  <2> HIDE DEF new, th
  <2>5. th.op = "read"
    BY <1>1, <2>1 DEF Fits, PlaceFits, Ingesting, Deleting
  <2>6. th.man.reported \in Seq(Files)
    BY <1>1, <2>1, <2>5 DEF ListsFit
  <2> QED
    BY <1>3, <2>4, <2>6
<1> QED
  BY <1>4, <1>5

LEMMA LoadOrders ==
  ASSUME ShapeInv, ListsInv, IndexInv, NEW t \in Threads, LoadBlocks(t)
  PROVE  ListsInv' /\ IndexInv'
<1> DEFINE th == threads[t]
           found == Addressable(th.man) \cap (payload \cup legacy)
           rank == [th EXCEPT !.pc = "rank"]
           new == [th EXCEPT !.pc = "probe", !.batches = <<found>>, !.after = "rank"]
<1>1. Fits(th) /\ ListsFit(th)
  BY DEF ShapeInv, ThreadsFit, ListsInv
<1>2. /\ th.pc = "load" /\ UNCHANGED <<fts, overlapped, manifest>>
      /\ Move(t, new) \/ Move(t, rank)
  BY DEF LoadBlocks, T
<1>3. /\ new.pc = "probe" /\ new.op = th.op /\ new.required = th.required
      /\ new.batches = <<found>>
  BY <1>1, FieldsAre DEF Fits
<1>4. rank.pc = "rank" /\ Carries(th, rank)
  BY <1>1, FieldsAre DEF Fits, Carries
<1> HIDE DEF th, new, rank
<1>5. th.op = "read"
  BY <1>1, <1>2 DEF Fits, PlaceFits, Ingesting, Deleting
<1>6. IsFiniteSet(found)
  <2>1. IsFiniteSet(Addressable(th.man))
    BY <1>1, <1>2, <1>5, FinitelyAddressable DEF ListsFit
  <2> QED
    BY <2>1, FS_Subset
<1>7. \A batch \in ToSet(<<found>>) : IsFiniteSet(batch)
  BY <1>6 DEF ToSet
<1> HIDE DEF found
<1>8. ListsFit(new)
  BY <1>1, <1>3, <1>5, <1>7 DEF ListsFit
<1>9. ListsFit(rank)
  BY <1>1, <1>4, CarriedOn
<1> QED
  BY <1>2, <1>3, <1>4, <1>8, <1>9, OrderStep

LEMMA RankOrders ==
  ASSUME ShapeInv, ListsInv, IndexInv, NEW t \in Threads, RankBlocks(t)
  PROVE  ListsInv' /\ IndexInv'
<1> DEFINE th == threads[t]
<1>1. Fits(th) /\ ListsFit(th) /\ IsABag(fts) /\ IsFiniteSet(DOMAIN fts)
  BY DEF ShapeInv, ThreadsFit, ListsInv, StoresFit
<1>2. /\ th.pc = "rank" /\ UNCHANGED <<fts, overlapped, manifest>>
      /\ \E hits \in SUBSET DOMAIN fts :
           Move(t, [th EXCEPT !.pc = "answered",
                              !.order = ExecutionOrder(th.required, Ranked(fts, hits))])
  BY DEF RankBlocks, T, stores
<1>3. PICK hits \in SUBSET DOMAIN fts :
        Move(t, [th EXCEPT !.pc = "answered",
                           !.order = ExecutionOrder(th.required, Ranked(fts, hits))])
  BY <1>2
<1> DEFINE ranked == Ranked(fts, hits)
           order == ExecutionOrder(th.required, ranked)
           new == [th EXCEPT !.pc = "answered", !.order = order]
<1>4. /\ new.pc = "answered" /\ new.op = th.op /\ new.required = th.required
      /\ new.order = order /\ new.batches = th.batches
  BY <1>1, FieldsAre DEF Fits
<1>5. Move(t, new)
  BY <1>3
<1>6. /\ ranked \in Seq(hits)
      /\ (\A b \in hits : fts[b] = 1) => IsInjective(ranked)
  <2>1. IsFiniteSet(hits)
    BY <1>1, FS_Subset
  <2>2. \A b \in hits : fts[b] \in Nat
    BY <1>1 DEF IsABag
  <2> QED
    BY <2>1, <2>2, RankedHits
<1>7. th.op = "read"
  BY <1>1, <1>2 DEF Fits, PlaceFits, Ingesting, Deleting
<1> HIDE DEF th, new, ranked
<1>8. /\ ToSet(order) = ToSet(th.required)
      /\ IsInjective(th.required) /\ IsInjective(ranked) => IsInjective(order)
  <2>1. th.required \in Seq(AllBlocks)
    BY <1>1, <1>7 DEF ListsFit
  <2> QED
    BY <1>6, <2>1, OrderIs
<1> HIDE DEF order
<1>9. ListsFit(new)
  BY <1>1, <1>4, <1>7, <1>8 DEF ListsFit
<1>10. IndexedOnce => IsInjective(ranked)
  BY <1>6 DEF IndexInv
<1> QED
  BY <1>2, <1>4, <1>5, <1>8, <1>9, <1>10, OrderStep

LEMMA LastReadsOrders ==
  ASSUME ShapeInv, ListsInv, IndexInv, NEW t \in Threads, RankByReading(t) \/ CloseReader(t)
  PROVE  ListsInv' /\ IndexInv'
<1> DEFINE th == threads[t]
           new == [th EXCEPT !.pc = "answered", !.order = th.required]
<1>1. Fits(th) /\ ListsFit(th)
  BY DEF ShapeInv, ThreadsFit, ListsInv
<1>2. /\ UNCHANGED <<fts, overlapped, manifest>>
      /\ \/ Finish(t)
         \/ th.pc = "fallback" /\ Move(t, new)
  BY DEF RankByReading, CloseReader, T, stores
<1>3. /\ new.pc = "answered" /\ new.op = th.op /\ new.required = th.required
      /\ new.order = th.required /\ new.batches = th.batches
  BY <1>1, FieldsAre DEF Fits
<1> HIDE DEF th, new
<1>4. ASSUME th.pc = "fallback", Move(t, new) PROVE ListsInv' /\ IndexInv'
  <2>1. th.op = "read"
    BY <1>1, <1>4 DEF Fits, PlaceFits, Ingesting, Deleting
  <2>2. ListsFit(new)
    BY <1>1, <1>3, <2>1 DEF ListsFit
  <2> QED
    BY <1>2, <1>3, <1>4, <2>2, OrderStep
<1> QED
  BY <1>2, <1>4, FinishOrders

LEMMA DeleteOrders ==
  ASSUME ShapeInv, ListsInv, IndexInv, NEW t \in Threads, Deletes(t), ~DeleteRows(t)
  PROVE  ListsInv' /\ IndexInv'
<1> DEFINE th == threads[t]
<1>1. Fits(th) /\ ListsFit(th)
  BY DEF ShapeInv, ThreadsFit, ListsInv
<1>2. CASE StartDelete(t)
  <2>1. /\ fts' = fts /\ manifest' = manifest /\ overlapped \subseteq overlapped'
        /\ \E pc \in Deleting : Move(t, [IdleThread EXCEPT !.op = "delete", !.pc = pc])
    BY <1>2 DEF StartDelete, Start, Deleting, stores
  <2>2. PICK pc \in Deleting : Move(t, [IdleThread EXCEPT !.op = "delete", !.pc = pc])
    BY <2>1
  <2> DEFINE new == [IdleThread EXCEPT !.op = "delete", !.pc = pc]
  <2>3. Move(t, new) /\ new.op = "delete" /\ new.pc = pc /\ new.batches = <<>>
    BY <2>2 DEF IdleThread
  <2>4. ToSet(<<>>) = {}
    BY DEF ToSet
  <2> HIDE DEF new
  <2>5. ListsFit(new)
    BY <2>3, <2>4 DEF ListsFit
  <2> QED
    BY <2>1, <2>2, <2>3, <2>5, OrderStep DEF Deleting
<1>3. ASSUME NEW pc \in Deleting, Move(t, [th EXCEPT !.pc = pc]),
             UNCHANGED <<fts, overlapped, manifest>>
      PROVE  ListsInv' /\ IndexInv'
  <2> DEFINE new == [th EXCEPT !.pc = pc]
  <2>1. Move(t, new) /\ new.pc = pc /\ Carries(th, new)
    BY <1>1, <1>3, FieldsAre DEF Fits, Carries
  <2> HIDE DEF new, th
  <2>2. pc \notin {"manifest", "migrate", "migrated", "load", "upsert", "answered"}
    BY DEF Deleting
  <2>3. ListsFit(new)
    BY <1>1, <2>1, <2>2, CarriedOn
  <2> QED
    BY <1>3, <2>1, <2>2, <2>3, OrderStep
<1>4. CASE RemovalDone(t) \/ DeletePayloads(t)
  BY <1>3, <1>4 DEF RemovalDone, DeletePayloads, Deleting, stores
<1>5. CASE DeletionFails(t) \/ DeleteUploads(t)
  BY <1>5, FinishOrders DEF DeletionFails, DeleteUploads, stores
<1>6. CASE RemoveFile(t)
  <2>1. manifest' \in {manifest, None} /\ UNCHANGED <<threads, fts, overlapped>>
    BY <1>6 DEF RemoveFile
  <2>2. ListsInv'
    BY <2>1 DEF ListsInv
  <2>3. IndexInv'
    BY <2>1 DEF IndexInv, IndexedOnce, IndexFits
  <2> QED
    BY <2>2, <2>3
<1> QED
  BY <1>2, <1>4, <1>5, <1>6 DEF Deletes

LEMMA DeleteRowsOrders ==
  ASSUME ShapeInv, ListsInv, IndexInv, NEW t \in Threads, DeleteRows(t)
  PROVE  ListsInv' /\ IndexInv'
<1> DEFINE th == threads[t]
           new == [th EXCEPT !.pc = "delete payloads"]
<1>1. Fits(th) /\ ListsFit(th)
  BY DEF ShapeInv, ThreadsFit, ListsInv
<1>2. Move(t, new) /\ UNCHANGED <<overlapped, manifest>> /\ fts' = EmptyBag
  BY DEF DeleteRows
<1>3. new.pc = "delete payloads" /\ Carries(th, new)
  BY <1>1, FieldsAre DEF Fits, Carries
<1>4. DOMAIN fts' = {}
  BY <1>2 DEF EmptyBag, SetToBag
<1>5. \A u \in Threads : threads'[u] = IF u = t THEN new ELSE threads[u]
  BY <1>2 DEF Move, ShapeInv, ThreadsFit
<1> HIDE DEF th, new
<1>6. ListsFit(new)
  BY <1>1, <1>3, CarriedOn
<1>7. ListsInv'
  <2>1. \A u \in Threads : ListsFit(threads[u])
    BY DEF ListsInv
  <2>2. \A u \in Threads : ListsFit(threads'[u])
    BY <1>5, <1>6, <2>1, Zenon
  <2>3. IsFiniteSet(DOMAIN fts')
    BY <1>4, FS_EmptySet
  <2> QED
    BY <1>2, <2>2, <2>3 DEF ListsInv
<1>8. ASSUME IndexedOnce' PROVE IndexInv'
  <2>1. /\ \A u \in Threads : IndexFits(threads[u])
        /\ \A u \in Threads : \A v \in Threads \ {u} : Apart(threads[u], threads[v])
    BY <1>2, <1>8 DEF IndexInv, IndexedOnce
  <2>2. ASSUME NEW u \in Threads PROVE IndexFits(threads[u])'
    BY <1>3, <1>4, <1>5, <2>1 DEF IndexFits
  <2>3. \A other : Apart(new, other) /\ Apart(other, new)
    BY <1>3 DEF Apart
  <2>4. ASSUME NEW u \in Threads, NEW v \in Threads \ {u} PROVE Apart(threads'[u], threads'[v])
    BY <1>5, <2>1, <2>3, Zenon
  <2>5. \A u \in Threads : \A v \in Threads \ {u} : Apart(threads[u], threads[v])'
    BY <2>4 DEF Apart
  <2> QED
    BY <1>4, <2>2, <2>5 DEF IndexInv
<1> QED
  BY <1>7, <1>8 DEF IndexInv

LEMMA UnattendedOrders ==
  ASSUME ShapeInv, ListsInv, IndexInv, RetryIngest \/ Restart \/ UNCHANGED corpusVars
  PROVE  ListsInv' /\ IndexInv'
<1>1. UNCHANGED <<fts, overlapped, manifest>>
  BY DEF RetryIngest, Restart, corpusVars, stores
<1>2. CASE Restart
  <2>1. \A t \in Threads : threads'[t] = IdleThread
    BY <1>2 DEF Restart
  <2>2. ListsInv'
    BY <1>1, <2>1, IdleLists DEF ListsInv
  <2>3. \A t \in Threads : IndexFits(threads[t])'
    BY <2>1, IdleLists DEF IndexFits
  <2>4. \A t \in Threads : \A u \in Threads \ {t} : Apart(threads[t], threads[u])'
    BY <2>1, IdleLists DEF Apart
  <2> QED
    BY <1>1, <2>2, <2>3, <2>4 DEF IndexInv, IndexedOnce
<1>3. CASE threads' = threads
  BY <1>1, <1>3 DEF ListsInv, IndexInv, IndexedOnce, IndexFits
<1> QED
  BY <1>2, <1>3 DEF RetryIngest, corpusVars

LEMMA OrderInitially == CorpusInit => ListsInv /\ IndexInv
<1> SUFFICES ASSUME CorpusInit PROVE ListsInv /\ IndexInv
  OBVIOUS
<1>1. threads = [t \in Threads |-> IdleThread] /\ fts = EmptyBag
  BY DEF CorpusInit
<1>2. DOMAIN fts = {} /\ IsFiniteSet({})
  BY <1>1, FS_EmptySet DEF EmptyBag, SetToBag
<1>3. manifest # None => manifest.reported \in Seq(Files)
  <2>1. ASSUME NEW files \in Legacies, manifest = IngestedBefore(files)
        PROVE  manifest.reported \in Seq(Files)
    <3>1. files \in Seq(SubmittedFiles) /\ \A f \in ToSet(files) : f.kind # "none"
      BY CorpusAssumption
    <3>2. files \in Seq(Files)
      <4>1. Len(files) \in Nat /\ files = [i \in 1 .. Len(files) |-> files[i]]
        BY <3>1
      <4>2. \A i \in 1 .. Len(files) : files[i] \in Files
        BY <3>1 DEF Files, ToSet
      <4> QED
        BY <4>1, <4>2, IsASeq
    <3>3. IngestedBefore(files).reported = files
      BY DEF IngestedBefore, Manifest, IdleThread
    <3> QED
      BY <2>1, <3>2, <3>3
  <2> QED
    BY <2>1 DEF CorpusInit
<1>4. ListsInv
  BY <1>1, <1>2, <1>3, IdleLists DEF ListsInv
<1>5. IndexInv
  BY <1>1, <1>2, IdleLists DEF IndexInv, IndexFits, Apart
<1> QED
  BY <1>4, <1>5

LEMMA OrderPreserved ==
  ShapeInv /\ ListsInv /\ IndexInv /\ [CorpusNext]_corpusVars => ListsInv' /\ IndexInv'
<1> SUFFICES ASSUME ShapeInv, ListsInv, IndexInv, [CorpusNext]_corpusVars
             PROVE  ListsInv' /\ IndexInv'
  OBVIOUS
<1>1. ASSUME NEW t \in Threads, ThreadStep(t) PROVE ListsInv' /\ IndexInv'
  BY <1>1, PutOrders, ProbeOrders, UpsertOrders, StartIngestOrders, IngestFileOrders,
     ReportFileOrders, WriteFailsOrders, EndOfIngestOrders, OpenReaderOrders, PreparingOrders,
     LoadOrders, RankOrders, LastReadsOrders, DeleteOrders, DeleteRowsOrders
     DEF ThreadStep, Deletes
<1> QED
  BY <1>1, UnattendedOrders DEF CorpusNext

THEOREM OrdersHold == CorpusSpec => [](ListsInv /\ IndexInv)
  BY OrderInitially, OrderPreserved, ShapesHold, PTL DEF CorpusSpec

\* Every required block is in a reader's order, however stale or incomplete the catalog is,
\* and exactly once unless two threads indexed the same block at once or a file was submitted
\* twice.
THEOREM OrdersAreExact == CorpusSpec => []OrderIsExact
<1>1. ListsInv /\ IndexInv /\ ShapeInv => OrderIsExact
  <2> SUFFICES ASSUME ListsInv, IndexInv, ShapeInv, NEW t \in Threads, T(t, "answered")
               PROVE  /\ ToSet(threads[t].order) = ToSet(threads[t].required)
                      /\ {"index"} \notin overlapped /\ IsInjective(threads[t].required) =>
                           IsInjective(threads[t].order)
    BY DEF OrderIsExact
  <2>1. threads[t].op = "read"
    BY DEF T, ShapeInv, ThreadsFit, Fits, PlaceFits, Ingesting, Deleting
  <2> QED
    BY <2>1 DEF T, ListsInv, ListsFit, IndexInv, IndexFits, IndexedOnce
<1> QED
  BY <1>1, ShapesHold, OrdersHold, PTL

-----------------------------------------------------------------------------
\* What a ready manifest tells.

\* A step of one thread.
LEMMA ReportsStep ==
  ASSUME ShapeInv, ReportsInv, NEW t \in Threads, NEW new, Move(t, new), ReportsFit(new),
         manifest' \notin {manifest, None} => ManifestTells(manifest')
  PROVE  ReportsInv'
<1>1. \A u \in Threads : threads'[u] = IF u = t THEN new ELSE threads[u]
  BY DEF Move, ShapeInv, ThreadsFit
<1>2. \A u \in Threads : ReportsFit(threads[u])
  BY DEF ReportsInv
<1>3. \A u \in Threads : ReportsFit(threads'[u])
  BY <1>1, <1>2, Zenon
<1>4. manifest' # None => ManifestTells(manifest')
  BY DEF ReportsInv
<1> QED
  BY <1>3, <1>4 DEF ReportsInv

\* Readers and deletions report nothing.
LEMMA OthersReport ==
  ASSUME ShapeInv, ReportsInv, NEW t \in Threads, manifest' \in {manifest, None},
         \E new : Move(t, new) /\ new.op # "ingest"
  PROVE  ReportsInv'
<1>1. PICK new : Move(t, new) /\ new.op # "ingest"
  OBVIOUS
<1>2. ReportsFit(new)
  BY <1>1 DEF ReportsFit
<1> QED
  BY <1>1, <1>2, ReportsStep

LEMMA ReadersReport ==
  ASSUME ShapeInv, ReportsInv, NEW t \in Threads,
         \/ OpenReader(t)
         \/ EnsureCatalog(t) \/ ReadLegacy(t) \/ MigratePayloads(t) \/ LoadBlocks(t)
         \/ RankBlocks(t) \/ RankByReading(t) \/ CloseReader(t)
  PROVE  ReportsInv'
<1>1. manifest' = manifest
  BY DEF OpenReader, EnsureCatalog, ReadLegacy, MigratePayloads, LoadBlocks, RankBlocks,
         RankByReading, CloseReader, stores
<1>2. CASE OpenReader(t)
  <2> DEFINE new == [IdleThread EXCEPT !.op = "read", !.pc = "ensure", !.required = Required(manifest)]
  <2>1. Move(t, new) /\ new.op = "read"
    BY <1>2 DEF OpenReader, IdleThread
  <2> HIDE DEF new
  <2> QED
    BY <1>1, <2>1, OthersReport
<1> QED
  BY <1>1, <1>2, ReadersRead, OthersReport

LEMMA DeletionsReport ==
  ASSUME ShapeInv, ReportsInv, NEW t \in Threads, Deletes(t)
  PROVE  ReportsInv'
<1>1. CASE StartDelete(t)
  <2>1. manifest' = manifest /\ \E pc : Move(t, [IdleThread EXCEPT !.op = "delete", !.pc = pc])
    BY <1>1 DEF StartDelete, stores
  <2>2. \A pc : [IdleThread EXCEPT !.op = "delete", !.pc = pc].op = "delete"
    BY DEF IdleThread
  <2>3. \E new : Move(t, new) /\ new.op # "ingest"
    BY <2>1, <2>2
  <2> QED
    BY <2>1, <2>3, OthersReport
<1>2. CASE RemoveFile(t)
  <2>1. manifest' \in {manifest, None} /\ threads' = threads
    BY <1>2 DEF RemoveFile
  <2> QED
    BY <2>1 DEF ReportsInv
<1> QED
  BY <1>1, <1>2, DeletionsDelete, OthersReport DEF Deletes

\* Storing: a read is no ingest, and an ingest goes on with what it has reported.
GoesOnReporting(th, new) ==
  /\ new.op = th.op /\ new.after = th.after /\ new.files = th.files /\ new.file = th.file
  /\ new.reports = th.reports /\ new.reported = th.reported
  /\ new.pc \in Storing \/ new.pc = th.after

LEMMA StoringReports ==
  ASSUME ShapeInv, ReportsInv, NEW t \in Threads,
         PutPayloads(t) \/ ProbeCatalog(t) \/ UpsertCatalog(t)
  PROVE  ReportsInv'
<1> DEFINE th == threads[t]
<1>1. Fits(th) /\ ReportsFit(th)
  BY DEF ShapeInv, ThreadsFit, ReportsInv
<1>2. th.pc \in Storing /\ manifest' = manifest
  BY DEF PutPayloads, ProbeCatalog, UpsertCatalog, T, Storing, stores
<1>3. PICK pc \in Storing \cup {th.after} :
        \E batches, existing :
          Move(t, [th EXCEPT !.pc = pc, !.batches = batches, !.existing = existing])
  <2>1. CASE PutPayloads(t)
    <3>1. [th EXCEPT !.pc = "probe"] =
            [th EXCEPT !.pc = "probe", !.batches = th.batches, !.existing = th.existing]
      BY <1>1, FieldsAre DEF Fits
    <3>2. Move(t, [th EXCEPT !.pc = "probe"])
      BY <2>1 DEF PutPayloads
    <3> HIDE DEF th
    <3>3. Move(t, [th EXCEPT !.pc = "probe", !.batches = th.batches, !.existing = th.existing])
      BY <3>1, <3>2
    <3> QED
      BY <3>3 DEF Storing
  <2>2. CASE ProbeCatalog(t)
    <3>1. [th EXCEPT !.pc = "upsert", !.existing = rows \cap Head(th.batches)] =
            [th EXCEPT !.pc = "upsert", !.batches = th.batches,
                       !.existing = rows \cap Head(th.batches)]
      BY <1>1, FieldsAre DEF Fits
    <3> QED
      BY <2>2, <3>1 DEF ProbeCatalog, Storing
  <2>3. CASE UpsertCatalog(t)
    <3> DEFINE pc == IF Len(th.batches) = 1 THEN th.after
                     ELSE IF th.op = "read" THEN "probe" ELSE "put"
    <3>1. [th EXCEPT !.batches = Tail(th.batches), !.existing = {}, !.pc = pc] =
            [th EXCEPT !.pc = pc, !.batches = Tail(th.batches), !.existing = {}]
      BY <1>1, FieldsAre DEF Fits
    <3>2. pc \in Storing \cup {th.after}
      BY DEF Storing
    <3>3. Move(t, [th EXCEPT !.batches = Tail(th.batches), !.existing = {}, !.pc = pc])
      BY <2>3 DEF UpsertCatalog
    <3> HIDE DEF pc, th
    <3> QED
      BY <3>1, <3>2, <3>3
  <2> QED
    BY <2>1, <2>2, <2>3
<1>4. PICK batches, existing :
        Move(t, [th EXCEPT !.pc = pc, !.batches = batches, !.existing = existing])
  BY <1>3
<1> DEFINE new == [th EXCEPT !.pc = pc, !.batches = batches, !.existing = existing]
<1>5. Move(t, new) /\ GoesOnReporting(th, new) /\ new.pc = pc
  BY <1>1, <1>3, <1>4, FieldsAre DEF Fits, GoesOnReporting
<1> HIDE DEF th, new
<1>6. ASSUME new.op = "ingest" PROVE ReportsFit(new)
  <2>1. th.op = "ingest" /\ th.after \in {"file", "report"}
    BY <1>1, <1>2, <1>5, <1>6 DEF Fits, WorkFits, GoesOnReporting
  <2>2. ReportsTell(th)
    BY <1>1, <1>2, <2>1 DEF ReportsFit
  <2>3. AtHand(th) = AtHand(new) /\ Current(th) = Current(new)
    BY <1>2, <1>3, <1>5, <2>1 DEF AtHand, GoesOnReporting, Current, Storing
  <2>4. ReportsTell(new)
    BY <1>5, <2>2, <2>3 DEF ReportsTell, GoesOnReporting
  <2>5. new.pc # "manifest" /\ (new.pc = "report" => new.after = "report")
    BY <1>3, <1>5, <2>1 DEF GoesOnReporting, Storing
  <2>6. AtHand(new) => ~Parse[Current(new)].failed
    BY <1>1, <2>1, <2>3 DEF ReportsFit
  <2> QED
    BY <2>4, <2>5, <2>6 DEF ReportsFit
<1>7. ReportsFit(new)
  BY <1>6 DEF ReportsFit
<1> QED
  BY <1>2, <1>5, <1>7, ReportsStep

\* Reporting.

LEMMA OneMoreReport ==
  ASSUME NEW reports \in Seq(AnyReport), NEW report \in AnyReport, NEW files, NEW reported, NEW reported2,
         \A i \in DOMAIN reports : Full(reports[i]) => Told(files[i], reported),
         ToSet(reported) \subseteq ToSet(reported2),
         Full(report) => Told(files[Len(reports) + 1], reported2)
  PROVE  /\ Append(reports, report) \in Seq(AnyReport)
         /\ Len(Append(reports, report)) = Len(reports) + 1
         /\ \A i \in DOMAIN Append(reports, report) :
              Full(Append(reports, report)[i]) => Told(files[i], reported2)
<1> DEFINE all == Append(reports, report)
<1>1. /\ all \in Seq(AnyReport) /\ Len(all) = Len(reports) + 1 /\ Len(reports) \in Nat
      /\ DOMAIN all = 1 .. Len(reports) + 1 /\ DOMAIN reports = 1 .. Len(reports)
      /\ \A i \in 1 .. Len(reports) + 1 : all[i] = IF i <= Len(reports) THEN reports[i] ELSE report
  OBVIOUS
<1> HIDE DEF all
<1>2. ASSUME NEW i \in 1 .. Len(reports) + 1, Full(all[i]) PROVE Told(files[i], reported2)
  <2>1. CASE i <= Len(reports)
    <3>1. i \in DOMAIN reports /\ all[i] = reports[i]
      BY <1>1, <2>1
    <3>2. Told(files[i], reported)
      BY <1>2, <3>1
    <3> QED
      BY <3>2 DEF Told
  <2>2. CASE ~(i <= Len(reports))
    <3>1. i = Len(reports) + 1 /\ all[i] = report
      BY <1>1, <2>2
    <3> QED
      BY <1>2, <3>1
  <2> QED
    BY <2>1, <2>2
<1>3. \A i \in DOMAIN all : Full(all[i]) => Told(files[i], reported2)
  BY <1>1, <1>2
<1> QED
  BY <1>1, <1>3 DEF all

LEMMA NotFull == FailedReport \in AnyReport /\ ~Full(FailedReport)
  BY DEF FailedReport, Report, AnyReport, Full

LEMMA StartIngestReports ==
  ASSUME ShapeInv, ReportsInv, NEW t \in Threads, StartIngest(t)
  PROVE  ReportsInv'
<1>1. manifest' = manifest
  BY DEF StartIngest, stores
<1>2. PICK files \in queue :
        Move(t, [IdleThread EXCEPT !.op = "ingest", !.pc = "file", !.files = files])
  BY DEF StartIngest
<1> DEFINE new == [IdleThread EXCEPT !.op = "ingest", !.pc = "file", !.files = files]
<1>3. /\ Move(t, new) /\ new.pc = "file" /\ new.file = 0 /\ new.reports = <<>>
  BY <1>2 DEF IdleThread
<1>4. <<>> \in Seq(AnyReport) /\ Len(<<>>) = 0 /\ DOMAIN <<>> = {}
  OBVIOUS
<1> HIDE DEF new
<1>5. ~AtHand(new)
  BY <1>3 DEF AtHand, Storing
<1>6. ReportsTell(new)
  BY <1>3, <1>4, <1>5 DEF ReportsTell
<1>7. ReportsFit(new)
  BY <1>3, <1>5, <1>6 DEF ReportsFit
<1> QED
  BY <1>1, <1>3, <1>7, ReportsStep

LEMMA IngestFileReports ==
  ASSUME ShapeInv, ReportsInv, NEW t \in Threads, IngestFile(t)
  PROVE  ReportsInv'
<1> DEFINE th == threads[t]
           f == th.files[th.file + 1]
           reports == Append(th.reports, FailedReport)
           skipped == [th EXCEPT !.file = th.file + 1, !.reports = reports]
           failed == [th EXCEPT !.file = th.file + 1, !.roots = th.roots \cup {Root(f)},
                                !.reports = reports, !.pc = "put",
                                !.batches = <<{Root(f)}>>, !.after = "file"]
           batches == Batch(LeafsOf[f]) \o Batch(ToSet(Parse[f].structural)) \o <<{Root(f)}>>
           parsed == [th EXCEPT !.file = th.file + 1, !.roots = th.roots \cup {Root(f)},
                                !.pc = "put", !.after = "report", !.batches = batches]
<1>1. Fits(th) /\ ReportsFit(th)
  BY DEF ShapeInv, ThreadsFit, ReportsInv
<1>2. th.pc = "file" /\ manifest' = manifest
  BY DEF IngestFile, T, stores
<1>3. Move(t, skipped) \/ Move(t, failed) \/ (~Parse[f].failed /\ Move(t, parsed))
  BY <1>1, FieldsAre DEF IngestFile, Fits
<1>4. th.op = "ingest" /\ th.file \in Nat /\ ReportsTell(th) /\ ~AtHand(th)
  <2>1. th.op = "ingest"
    BY <1>1, <1>2 DEF Fits, PlaceFits, Reading, Deleting
  <2> QED
    BY <1>1, <1>2, <2>1 DEF ReportsFit, Fits, DataFits, AtHand, Storing
<1>5. /\ th.reports \in Seq(AnyReport) /\ Len(th.reports) = th.file
      /\ \A i \in DOMAIN th.reports : Full(th.reports[i]) => Told(th.files[i], th.reported)
  BY <1>4 DEF ReportsTell
<1>6. /\ reports \in Seq(AnyReport) /\ Len(reports) = th.file + 1
      /\ \A i \in DOMAIN reports : Full(reports[i]) => Told(th.files[i], th.reported)
  BY <1>5, NotFull, OneMoreReport
<1> HIDE DEF reports
<1>7. ASSUME NEW new, Move(t, new), new.pc \in {"file", "put"}, new.files = th.files,
             new.file = th.file + 1, new.reported = th.reported, new.reports = reports, ~AtHand(new)
      PROVE  ReportsInv'
  <2> HIDE DEF th
  <2>1. ReportsTell(new)
    BY <1>6, <1>7 DEF ReportsTell
  <2>2. ReportsFit(new)
    BY <1>7, <2>1 DEF ReportsFit
  <2> QED
    BY <1>2, <1>7, <2>2, ReportsStep
<1>8. CASE Move(t, skipped)
  <2>1. /\ skipped.pc = th.pc /\ skipped.files = th.files /\ skipped.file = th.file + 1
        /\ skipped.reported = th.reported /\ skipped.reports = reports
    BY <1>1, FieldsAre DEF Fits
  <2> HIDE DEF skipped, th
  <2>2. ~AtHand(skipped)
    BY <1>2, <2>1 DEF AtHand, Storing
  <2> QED
    BY <1>2, <1>7, <1>8, <2>1, <2>2
<1>9. CASE Move(t, failed)
  <2>1. /\ failed.pc = "put" /\ failed.files = th.files /\ failed.file = th.file + 1
        /\ failed.reported = th.reported /\ failed.reports = reports /\ failed.after = "file"
    BY <1>1, FieldsAre DEF Fits
  <2> HIDE DEF failed, th
  <2>2. ~AtHand(failed)
    BY <2>1 DEF AtHand
  <2> QED
    BY <1>7, <1>9, <2>1, <2>2
<1>10. ASSUME ~Parse[f].failed, Move(t, parsed) PROVE ReportsInv'
  <2>1. /\ parsed.pc = "put" /\ parsed.files = th.files /\ parsed.file = th.file + 1
        /\ parsed.reported = th.reported /\ parsed.reports = th.reports /\ parsed.after = "report"
    BY <1>1, FieldsAre DEF Fits
  <2>2. Current(parsed) = f
    BY <2>1 DEF Current
  <2> HIDE DEF parsed, th, f
  <2>3. AtHand(parsed) /\ parsed.file - 1 = th.file
    BY <1>4, <2>1 DEF AtHand, Storing
  <2>4. ReportsTell(parsed)
    BY <1>5, <2>1, <2>3 DEF ReportsTell
  <2>5. ReportsFit(parsed)
    BY <1>10, <2>1, <2>2, <2>4 DEF ReportsFit
  <2> QED
    BY <1>2, <1>10, <2>5, ReportsStep
<1> QED
  BY <1>3, <1>8, <1>9, <1>10

LEMMA ReportFileReports ==
  ASSUME ShapeInv, ReportsInv, NEW t \in Threads, ReportFile(t), threads[t].reported \in Seq(Files)
  PROVE  ReportsInv'
<1> DEFINE th == threads[t]
           f == Current(th)
           lost == Parse[f].unresolved + Cardinality({b \in LeafsOf[f] : ~Processable(b)})
           status == IF lost = 0 THEN "complete" ELSE "partial"
           report == Report(status, Len(RequiredOf[f]), lost)
           reports == Append(th.reports, report)
           reported == Append(th.reported, f)
           new == [th EXCEPT !.pc = "file", !.reported = reported, !.reports = reports]
<1>1. Fits(th) /\ ReportsFit(th)
  BY DEF ShapeInv, ThreadsFit, ReportsInv
<1>2. th.pc = "report" /\ manifest' = manifest /\ Move(t, new)
  BY DEF ReportFile, T, stores, Current
<1>3. th.op = "ingest" /\ f \in Files /\ th.file \in Nat
  <2>1. th.op = "ingest"
    BY <1>1, <1>2 DEF Fits, PlaceFits, Reading, Deleting
  <2> QED
    BY <1>1, <1>2, <2>1 DEF Fits, WorkFits, DataFits
<1>4. /\ AtHand(th) /\ ~Parse[f].failed
      /\ th.reports \in Seq(AnyReport) /\ Len(th.reports) = th.file - 1
      /\ \A i \in DOMAIN th.reports : Full(th.reports[i]) => Told(th.files[i], th.reported)
  <2>1. AtHand(th)
    BY <1>1, <1>2, <1>3 DEF ReportsFit, AtHand
  <2> QED
    BY <1>1, <1>2, <1>3, <2>1 DEF ReportsFit, ReportsTell
<1>5. /\ new.pc = "file" /\ new.op = th.op /\ new.files = th.files /\ new.file = th.file
      /\ new.reported = reported /\ new.reports = reports
  BY <1>1, FieldsAre DEF Fits
<1>6. Parse[f].unresolved \in Nat /\ Len(RequiredOf[f]) \in Nat
  BY <1>3, ParsersAssumption
<1>7. Cardinality({b \in LeafsOf[f] : ~Processable(b)}) \in Nat
  <2>1. {b \in LeafsOf[f] : ~Processable(b)} \subseteq BlocksOf(f) /\ IsFiniteSet(BlocksOf(f))
    BY <1>3, ParsersAssumption DEF BlocksOf
  <2> HIDE DEF f
  <2> QED
    BY <2>1, FS_Subset, FS_CardinalityType
<1>8. lost \in Nat /\ (lost = 0 => Parse[f].unresolved = 0)
  BY <1>6, <1>7
<1> HIDE DEF lost
<1>9. report \in AnyReport /\ (Full(report) => lost = 0)
  BY <1>6, <1>8 DEF Report, AnyReport, Full
<1>10. f = th.files[Len(th.reports) + 1]
  <2>1. th.file - 1 + 1 = th.file
    BY <1>3
  <2> QED
    BY <1>4, <2>1 DEF Current
<1> HIDE DEF report, new, th, f
<1>11. ToSet(th.reported) \subseteq ToSet(reported) /\ f \in ToSet(reported)
  <2>1. th.reported \in Seq(Files)
    BY DEF th
  <2> QED
    BY <1>3, <2>1, OneMoreReported, ToSetIsRange
<1>12. Full(report) => Told(th.files[Len(th.reports) + 1], reported)
  BY <1>3, <1>4, <1>8, <1>9, <1>10, <1>11 DEF Told, Resolved
<1> HIDE DEF reported
<1>13. /\ reports \in Seq(AnyReport) /\ Len(reports) = th.file
       /\ \A i \in DOMAIN reports : Full(reports[i]) => Told(th.files[i], reported)
  <2>1. th.file - 1 + 1 = th.file
    BY <1>3
  <2> QED
    BY <1>4, <1>9, <1>11, <1>12, <2>1, OneMoreReport
<1> HIDE DEF reports
<1>14. ~AtHand(new)
  BY <1>5 DEF AtHand, Storing
<1>15. ReportsTell(new)
  BY <1>5, <1>13, <1>14 DEF ReportsTell
<1>16. ReportsFit(new)
  BY <1>5, <1>14, <1>15 DEF ReportsFit
<1> QED
  BY <1>2, <1>16, ReportsStep

LEMMA FinishReports ==
  ASSUME ShapeInv, ReportsInv, NEW t \in Threads, Finish(t), manifest' = manifest
  PROVE  ReportsInv'
  BY IdleOp, OthersReport DEF Finish

LEMMA WriteFailsReports ==
  ASSUME ShapeInv, ReportsInv, NEW t \in Threads, WriteFails(t)
  PROVE  ReportsInv'
<1> DEFINE th == threads[t]
           reports == Append(th.reports, FailedReport)
           root == {Root(Current(th))}
           new == [th EXCEPT !.pc = "put", !.after = "file", !.existing = {},
                             !.reports = reports, !.batches = <<root>>]
<1>1. Fits(th) /\ ReportsFit(th)
  BY DEF ShapeInv, ThreadsFit, ReportsInv
<1>2. /\ th.op = "ingest" /\ th.pc \in Storing \cup {"manifest"} /\ manifest' = manifest
      /\ (th.after = "report" /\ th.pc # "manifest" /\ Move(t, new)) \/ Finish(t)
  BY DEF WriteFails, stores, Current, Storing
<1>3. ASSUME th.after = "report", th.pc # "manifest", Move(t, new) PROVE ReportsInv'
  <2>1. /\ new.pc = "put" /\ new.after = "file" /\ new.files = th.files /\ new.file = th.file
        /\ new.reported = th.reported /\ new.reports = reports
    BY <1>1, FieldsAre DEF Fits
  <2> HIDE DEF th, new, root
  <2>2. AtHand(th) /\ ReportsTell(th) /\ th.file \in Nat
    BY <1>1, <1>2, <1>3 DEF AtHand, ReportsFit, Fits, DataFits
  <2>3. /\ th.reports \in Seq(AnyReport) /\ Len(th.reports) = th.file - 1
        /\ \A i \in DOMAIN th.reports : Full(th.reports[i]) => Told(th.files[i], th.reported)
    BY <2>2 DEF ReportsTell
  <2>4. /\ reports \in Seq(AnyReport) /\ Len(reports) = th.file
        /\ \A i \in DOMAIN reports : Full(reports[i]) => Told(th.files[i], th.reported)
    <3>1. th.file - 1 + 1 = th.file
      BY <2>2
    <3> QED
      BY <2>3, <3>1, NotFull, OneMoreReport
  <2> HIDE DEF reports
  <2>5. ~AtHand(new)
    BY <2>1 DEF AtHand
  <2>6. ReportsTell(new)
    BY <2>1, <2>4, <2>5 DEF ReportsTell
  <2>7. ReportsFit(new)
    BY <2>1, <2>5, <2>6 DEF ReportsFit
  <2> QED
    BY <1>2, <1>3, <2>7, ReportsStep
<1> QED
  BY <1>2, <1>3, FinishReports

\* A ready manifest has only full reports, one for every file.
LEMMA ReadyTells ==
  ASSUME NEW th, ReportsTell(th), ~AtHand(th), th.files \in Seq(SubmittedFiles),
         th.file = Len(th.files)
  PROVE  ManifestTells(Manifest(th))
<1> DEFINE man == Manifest(th)
<1>1. /\ man.files = th.files /\ man.reported = th.reported
      /\ man.ready => \A r \in ToSet(th.reports) : Full(r)
  BY DEF Manifest, CoverageReady, Full
<1>2. /\ th.reports \in Seq(AnyReport) /\ Len(th.reports) = Len(th.files)
      /\ \A i \in DOMAIN th.reports : Full(th.reports[i]) => Told(th.files[i], th.reported)
  BY DEF ReportsTell
<1>3. DOMAIN th.reports = DOMAIN th.files
  BY <1>2
<1>4. ASSUME man.ready, NEW f \in ToSet(th.files) PROVE Told(f, th.reported)
  <2>1. PICK i \in DOMAIN th.files : f = th.files[i]
    BY DEF ToSet
  <2>2. th.reports[i] \in ToSet(th.reports)
    BY <1>3 DEF ToSet
  <2> QED
    BY <1>1, <1>2, <1>3, <1>4, <2>1, <2>2
<1> HIDE DEF man
<1> QED
  BY <1>1, <1>4 DEF ManifestTells, man

LEMMA EndOfIngestReports ==
  ASSUME ShapeInv, ReportsInv, NEW t \in Threads,
         EndFiles(t) \/ PutManifest(t) \/ CloseJob(t)
  PROVE  ReportsInv'
<1> DEFINE th == threads[t]
<1>1. Fits(th) /\ ReportsFit(th)
  BY DEF ShapeInv, ThreadsFit, ReportsInv
<1>2. CASE EndFiles(t)
  <2> DEFINE man == Manifest(th)
             new == [th EXCEPT !.pc = "manifest", !.man = man]
  <2>1. /\ th.pc = "file" /\ th.file = Len(th.files) /\ Move(t, new) /\ manifest' = manifest
    BY <1>2 DEF EndFiles, T, stores
  <2>2. new.pc = "manifest" /\ new.man = man
    BY <1>1, FieldsAre DEF Fits
  <2> HIDE DEF th, new
  <2>3. th.op = "ingest" /\ th.files \in Seq(SubmittedFiles)
    BY <1>1, <2>1 DEF Fits, PlaceFits, DataFits, Reading, Deleting
  <2>4. ReportsTell(th) /\ ~AtHand(th)
    BY <1>1, <2>1, <2>3 DEF ReportsFit, AtHand, Storing
  <2>5. ManifestTells(man)
    BY <2>1, <2>3, <2>4, ReadyTells
  <2> HIDE DEF man
  <2>6. ReportsFit(new)
    BY <2>2, <2>5 DEF ReportsFit, AtHand, Storing
  <2> QED
    BY <2>1, <2>6, ReportsStep
<1>3. CASE PutManifest(t)
  <2> DEFINE new == [th EXCEPT !.pc = "close"]
  <2>1. th.pc = "manifest" /\ Move(t, new) /\ manifest' = th.man
    BY <1>3 DEF PutManifest, T
  <2>2. new.pc = "close"
    BY <1>1, FieldsAre DEF Fits
  <2> HIDE DEF th, new
  <2>3. th.op = "ingest"
    BY <1>1, <2>1 DEF Fits, PlaceFits, Reading, Deleting
  <2>4. ReportsFit(new)
    BY <2>2 DEF ReportsFit, AtHand, Storing
  <2>5. ManifestTells(th.man)
    BY <1>1, <2>1, <2>3 DEF ReportsFit
  <2> QED
    BY <2>1, <2>4, <2>5, ReportsStep
<1>4. CASE CloseJob(t)
  BY <1>4, FinishReports DEF CloseJob, stores
<1> QED
  BY <1>2, <1>3, <1>4

LEMMA UnattendedReports ==
  ASSUME ShapeInv, ReportsInv, RetryIngest \/ Restart \/ UNCHANGED corpusVars
  PROVE  ReportsInv'
<1>1. manifest' = manifest
  BY DEF RetryIngest, Restart, corpusVars, stores
<1>2. CASE Restart
  <2>1. \A t \in Threads : threads'[t] = IdleThread
    BY <1>2 DEF Restart
  <2>2. ReportsFit(IdleThread)
    BY IdleOp DEF ReportsFit
  <2> QED
    BY <1>1, <2>1, <2>2 DEF ReportsInv
<1>3. CASE threads' = threads
  BY <1>1, <1>3 DEF ReportsInv
<1> QED
  BY <1>2, <1>3 DEF RetryIngest, corpusVars

LEMMA ReportsInitially == CorpusInit => ReportsInv
<1> SUFFICES ASSUME CorpusInit PROVE ReportsInv
  OBVIOUS
<1>1. \A t \in Threads : threads[t] = IdleThread
  BY DEF CorpusInit
<1>2. ReportsFit(IdleThread)
  BY IdleOp DEF ReportsFit
<1>3. ASSUME NEW files \in Legacies, manifest = IngestedBefore(files) PROVE ManifestTells(manifest)
  <2> DEFINE reports == [i \in DOMAIN files |-> Report("complete", 0, Parse[files[i]].unresolved)]
  <2>1. /\ manifest.files = files /\ manifest.reported = files
        /\ manifest.ready => \A r \in ToSet(reports) : Full(r)
    BY <1>3 DEF IngestedBefore, Manifest, IdleThread, CoverageReady, Full
  <2>2. ASSUME manifest.ready, NEW f \in ToSet(files) PROVE Told(f, files)
    <3>1. f \in Files /\ ~Parse[f].failed
      BY CorpusAssumption, ParsersAssumption DEF Files, SubmittedFiles
    <3>2. PICK i \in DOMAIN files : f = files[i]
      BY DEF ToSet
    <3>3. reports[i] \in ToSet(reports) /\ reports[i].unresolved = Parse[f].unresolved
      BY <3>2 DEF ToSet, Report
    <3>4. Parse[f].unresolved = 0
      BY <2>1, <2>2, <3>3 DEF Full
    <3> QED
      BY <3>1, <3>4 DEF Told, Resolved
  <2> HIDE DEF reports
  <2> QED
    BY <2>1, <2>2 DEF ManifestTells
<1>4. manifest # None => ManifestTells(manifest)
  BY <1>3 DEF CorpusInit
<1> QED
  BY <1>1, <1>2, <1>4 DEF ReportsInv

LEMMA ReportsPreserved ==
  ShapeInv /\ ListsInv /\ ReportsInv /\ [CorpusNext]_corpusVars => ReportsInv'
<1> SUFFICES ASSUME ShapeInv, ListsInv, ReportsInv, [CorpusNext]_corpusVars PROVE ReportsInv'
  OBVIOUS
<1>1. ASSUME NEW t \in Threads, ReportFile(t) PROVE ReportsInv'
  <2>1. Fits(threads[t]) /\ ListsFit(threads[t]) /\ threads[t].pc = "report"
    BY <1>1 DEF ShapeInv, ThreadsFit, ListsInv, ReportFile, T
  <2>2. threads[t].op = "ingest"
    BY <2>1 DEF Fits, PlaceFits, Reading, Deleting
  <2>3. threads[t].reported \in Seq(Files)
    BY <2>1, <2>2 DEF ListsFit
  <2> QED
    BY <1>1, <2>3, ReportFileReports
<1>2. ASSUME NEW t \in Threads, ThreadStep(t) PROVE ReportsInv'
  BY <1>1, <1>2, StoringReports, StartIngestReports, IngestFileReports, WriteFailsReports,
     EndOfIngestReports, ReadersReport, DeletionsReport
     DEF ThreadStep, Deletes
<1> QED
  BY <1>2, UnattendedReports DEF CorpusNext

\* The reports tell: of every file of a ready manifest, the parser has resolved everything,
\* and what it required the manifest requires, however many ingests, failed writes, deaths
\* and deletions there were.
THEOREM ReportsHold == CorpusSpec => []ReportsInv
  BY ReportsInitially, ReportsPreserved, ShapesHold, OrdersHold, PTL DEF CorpusSpec

\* A corpus is ready only when the blocks that an evaluation visits hold every unit of every
\* submitted file, but for the units of Overlooked, if the parsers count what else they
\* leave out.
THEOREM ReadinessIsEarned == ASSUME UnitsAreHeld PROVE CorpusSpec => []ReadyIsEarned
<1>1. ListsInv /\ ReportsInv => ReadyIsEarned
  <2> SUFFICES ASSUME ListsInv, ReportsInv, manifest # None, manifest.ready,
                      NEW f \in ToSet(manifest.files)
               PROVE  /\ f.kind # "none"
                      /\ HoldsUnits(f, UnitsOf[f] \ OverlookedOf[f], ToSet(Required(manifest)))
    BY DEF ReadyIsEarned
  <2>1. Resolved(f) /\ f \in ToSet(manifest.reported) /\ manifest.reported \in Seq(Files)
    BY DEF ListsInv, ReportsInv, ManifestTells, Told
  <2>2. f.kind # "none"
    BY <2>1 DEF Resolved, Files
  <2>3. HoldsUnits(f, UnitsOf[f] \ OverlookedOf[f], ToSet(Required(manifest)))
    <3>1. HoldsUnits(f, UnitsOf[f] \ OverlookedOf[f], ToSet(RequiredOf[f]))
      BY <2>1, UnitsAreHeld DEF UnitsAreHeld, Resolved
    <3>2. ToSet(RequiredOf[f]) \subseteq ToSet(Required(manifest))
      BY <2>1, RequiredIs
    <3> QED
      BY <3>1, <3>2 DEF HoldsUnits
  <2> QED
    BY <2>2, <2>3
<1> QED
  BY <1>1, OrdersHold, ReportsHold, PTL
=============================================================================
