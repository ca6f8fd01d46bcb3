-------------------------------- MODULE Corpus --------------------------------
(***************************************************************************)
(* One corpus: its files are ingested (ingest_paths of ingest.py, run by   *)
(* _run_ingest_job of api.py), its blocks are in the payload store         *)
(* (blockstore.py), the catalog (catalog.py) and, from older versions, one *)
(* JSON file each; the manifest says which are required (store.py).        *)
(* Readers order the required blocks with the catalog (reader.py), and the *)
(* corpus may be deleted.                                                  *)
(*                                                                         *)
(* Every SQL transaction and file operation is a step; operations of       *)
(* several threads and processes interleave between them.  The catalog's   *)
(* write first selects the ids it has, which is not in the transaction     *)
(* that SQLite opens at the first INSERT.                                  *)
(***************************************************************************)
EXTENDS FileParsing, Bags

CONSTANTS
  Submissions,  \* the sequences of files that may be submitted
  Legacies,     \* the submissions that an older version may have ingested already
  Threads,      \* operations that may run at once
  MaxOps,       \* bound: operations started
  Alone,        \* bound: the submissions for which only one operation is started
  MaxFaults,    \* bound: failed writes, failed deletions and deaths of the server
  None          \* no manifest, nothing read

SubmittedFiles == UNION {ToSet(files) : files \in Submissions}

ASSUME CorpusAssumption ==
  /\ Submissions \subseteq Seq(SubmittedFiles) /\ Legacies \subseteq Submissions
  /\ \A files \in Legacies : \A f \in ToSet(files) : f.kind # "none"

VARIABLES
  queue,     \* the files of every row that was queued for the corpus's ingest job
  uploaded,  \* are the uploaded files still there
  legacy,    \* block ids with a JSON file
  removed,   \* history: block ids whose JSON file a deletion removed
  payload,   \* rows of block_payloads
  rows,      \* rows of blocks, the catalog
  fts,       \* rows of blocks_fts, which has no key: a bag
  manifest,  \* manifest.json, or None
  job,       \* the ingest job: its status
  threads,   \* what every thread is doing
  started,   \* operations started so far, and faults
  overlapped \* history: pairs of operations that ran at the same time

corpusVars ==
  <<queue, uploaded, legacy, removed, payload, rows, fts, manifest, job, threads, started,
    overlapped>>

stores == <<legacy, removed, payload, rows, fts, manifest>>
inputs == <<queue, uploaded>>

IdleThread ==
  [op |-> "idle", pc |-> "idle", files |-> <<>>, file |-> 0, batches |-> <<>>, existing |-> {},
   reported |-> <<>>, roots |-> {}, reports |-> <<>>, required |-> <<>>, order |-> <<>>,
   man |-> None, after |-> "idle"]

T(t, pc) == threads[t].pc = pc
Move(t, new) == threads' = [threads EXCEPT ![t] = new]
Finish(t) == Move(t, IdleThread)
Busy == {t \in Threads : ~T(t, "idle")}

-----------------------------------------------------------------------------
\* The manifest of a completed ingest.

\* The report of one file: the blocks it requires and the units it could not resolve.
Report(status, resolved, unresolved) ==
  [status |-> status, resolved |-> resolved, unresolved |-> unresolved]

FailedReport == Report("failed", 0, 1)

\* ingested is len(paths) without the files that failed.
CoverageReady(reports, ingested, total) ==
  /\ ingested = total
  /\ \A r \in ToSet(reports) : r.unresolved = 0 /\ r.status = "complete"

\* reported are the files whose blocks the manifest names.
Manifest(thread) ==
  LET ingested == Cardinality({i \in DOMAIN thread.reports : thread.reports[i].status # "failed"})
  IN [files |-> thread.files, reported |-> thread.reported, roots |-> thread.roots,
      ready |-> CoverageReady(thread.reports, ingested, Len(thread.files))]

\* What the parsers make of the files, evaluated once.
Files == {f \in SubmittedFiles : f.kind # "none"}
Parse == [f \in Files |-> ParseFile(f)]
LeafsOf == [f \in Files |-> Leafs(f, Parse[f])]
StructureOf == [f \in Files |-> ToSet(Parse[f].structural) \cup {Root(f)}]
BlocksOf(f) == LeafsOf[f] \cup StructureOf[f]

Processable(b) == b.status # "unresolved"
RequiredOf == [f \in Files |-> SelectSeq(BoundedLeafs(f, Parse[f]), Processable)]

\* A parser returns lists and a number.  An older version has ingested what it could parse.
ASSUME ParsersAssumption ==
  /\ \A f \in Files :
       /\ IsFiniteSet(BlocksOf(f)) /\ RequiredOf[f] \in Seq(LeafsOf[f])
       /\ Parse[f].unresolved \in Nat
  /\ \A files \in Legacies : \A f \in ToSet(files) : ~Parse[f].failed

\* The lists of a manifest: the required blocks in order, and all it names.
Required(man) == FlattenSeq([i \in DOMAIN man.reported |-> RequiredOf[man.reported[i]]])
Addressable(man) ==
  UNION {{b \in LeafsOf[f] : Processable(b)} \cup StructureOf[f] : f \in ToSet(man.reported)}

\* What an older version left: a manifest and a JSON file for every block.
IngestedBefore(files) ==
  Manifest([IdleThread EXCEPT
    !.files = files, !.reported = files, !.roots = {Root(f) : f \in ToSet(files)},
    !.reports = [i \in DOMAIN files |-> Report("complete", 0, Parse[files[i]].unresolved)]])

CorpusInit ==
  /\ \/ /\ \E files \in Submissions : queue = {files}
        /\ manifest = None /\ job = "queued" /\ legacy = {}
     \/ /\ queue = {} /\ job = "none"
        /\ \E files \in Legacies :
             /\ manifest = IngestedBefore(files)
             /\ legacy = UNION {BlocksOf(f) : f \in ToSet(files)}
  /\ uploaded = TRUE
  /\ removed = {} /\ payload = {} /\ rows = {} /\ fts = EmptyBag
  /\ threads = [t \in Threads |-> IdleThread]
  /\ started = [ops |-> 0, faults |-> 0]
  /\ overlapped = {}

-----------------------------------------------------------------------------
\* put_blocks: the payloads, then the catalog.  A batch is a set of blocks; when all
\* are written, the thread goes on with "after".

PutPayloads(t) ==
  LET th == threads[t] IN
  /\ T(t, "put") /\ th.batches # <<>>
  /\ payload' = payload \cup Head(th.batches)
  /\ Move(t, [th EXCEPT !.pc = "probe"])
  /\ UNCHANGED <<inputs, legacy, removed, rows, fts, manifest, job, started, overlapped>>

ProbeCatalog(t) ==
  LET th == threads[t]
      racing == {u \in Threads \ {t} : T(u, "upsert")
                   /\ Head(threads[u].batches) \cap Head(th.batches) # {}}
  IN
  /\ T(t, "probe")
  /\ Move(t, [th EXCEPT !.pc = "upsert", !.existing = rows \cap Head(th.batches)])
  /\ overlapped' = IF racing = {} THEN overlapped ELSE overlapped \cup {{"index"}}
  /\ UNCHANGED <<inputs, stores, job, started>>

WithoutRows(bag, ids) == [b \in DOMAIN bag \ ids |-> bag[b]]

IndexRows_Append(bag, batch, existing) == bag (+) SetToBag(batch)

\* The text index forgets the ids that the probe found and takes the whole batch.
IndexRows(bag, batch, existing) == WithoutRows(bag, existing) (+) SetToBag(batch)

UpsertCatalog(t) ==
  LET th == threads[t]
      batch == Head(th.batches)
  IN
  /\ T(t, "upsert")
  /\ rows' = rows \cup batch
  /\ fts' = IndexRows(fts, batch, th.existing)
  /\ Move(t, [th EXCEPT
       !.batches = Tail(@), !.existing = {},
       !.pc = IF Len(th.batches) = 1 THEN th.after
              ELSE IF th.op = "read" THEN "probe" ELSE "put"])
  /\ UNCHANGED <<inputs, legacy, removed, payload, manifest, job, started, overlapped>>

\* Nothing is written for an empty list.
Batch(blocks) == IF blocks = {} THEN <<>> ELSE <<blocks>>

-----------------------------------------------------------------------------
\* Ingest.  The progress callbacks, which only tell the job how far it is, are left out.

MayStart == started.ops < IF queue \cap Alone = {} THEN MaxOps ELSE 1

Start(t, op) ==
  /\ T(t, "idle") /\ MayStart
  /\ started' = [started EXCEPT !.ops = @ + 1]
  /\ overlapped' = overlapped
       \cup {{op, threads[u].op} : u \in Busy}

\* A row may be delivered again after its lease, also to a second worker.
StartIngest(t) ==
  /\ Start(t, "ingest")
  /\ job' = "running"
  /\ \E files \in queue :
       Move(t, [IdleThread EXCEPT !.op = "ingest", !.pc = "file", !.files = files])
  /\ UNCHANGED <<inputs, stores>>

\* retry_ingest_job, which looks at no status: the job says queued and a run follows.
RetryIngest ==
  /\ uploaded /\ job # "queued" /\ MayStart
  /\ \E files \in queue :
       LET there == {i \in DOMAIN files : files[i].kind # "none"} IN
       /\ there # {}
       /\ \E left \in [1 .. Cardinality(there) -> there] :
            /\ \A i, j \in DOMAIN left : i < j => left[i] < left[j]
            /\ queue' = queue \cup {[i \in DOMAIN left |-> files[left[i]]]}
  /\ job' = "queued"
  /\ UNCHANGED <<uploaded, stores, threads, started, overlapped>>

\* One file: what is no file or cannot be parsed gets a failed report (and, when it is a
\* file, its root is stored); otherwise leafs, structural blocks and root are stored.
IngestFile(t) ==
  LET th == threads[t]
      f == th.files[th.file + 1]
      next == [th EXCEPT !.file = @ + 1, !.roots = @ \cup {Root(f)}]
  IN
  /\ T(t, "file") /\ th.file < Len(th.files)
  /\ IF f.kind = "none" \/ ~uploaded
     THEN Move(t, [th EXCEPT !.file = @ + 1, !.reports = Append(@, FailedReport)])
     ELSE IF Parse[f].failed
     THEN Move(t, [next EXCEPT !.reports = Append(@, FailedReport), !.pc = "put",
                               !.batches = <<{Root(f)}>>, !.after = "file"])
     ELSE Move(t, [next EXCEPT !.pc = "put", !.after = "report",
            !.batches = Batch(LeafsOf[f]) \o Batch(ToSet(Parse[f].structural)) \o <<{Root(f)}>>])
  /\ UNCHANGED <<inputs, stores, job, started, overlapped>>

\* What follows the stores in the same try block.
ReportFile(t) ==
  LET th == threads[t]
      f == th.files[th.file]
      lost == Parse[f].unresolved + Cardinality({b \in LeafsOf[f] : ~Processable(b)})
  IN
  /\ T(t, "report")
  /\ Move(t, [th EXCEPT
       !.pc = "file",
       !.reported = Append(@, f),
       !.reports = Append(@, Report(IF lost = 0 THEN "complete" ELSE "partial",
                                    Len(RequiredOf[f]), lost))])
  /\ UNCHANGED <<inputs, stores, job, started, overlapped>>

WriteFails_Swallowed(t) ==
  /\ threads[t].op = "ingest" /\ threads[t].pc \in {"put", "probe", "upsert"}
  /\ started.faults < MaxFaults
  /\ started' = [started EXCEPT !.faults = @ + 1]
  /\ Move(t, [threads[t] EXCEPT !.pc = threads[t].after, !.batches = <<>>])
  /\ UNCHANGED <<inputs, stores, job, overlapped>>

\* A write fails while a file is stored: the file has failed, its root is stored again.
\* When that fails too, or when the manifest cannot be written, the job fails.
WriteFails(t) ==
  LET th == threads[t] IN
  /\ th.op = "ingest" /\ th.pc \in {"put", "probe", "upsert", "manifest"}
  /\ started.faults < MaxFaults
  /\ started' = [started EXCEPT !.faults = @ + 1]
  /\ IF th.after = "report" /\ th.pc # "manifest"
     THEN /\ Move(t, [th EXCEPT !.pc = "put", !.after = "file", !.existing = {},
                                !.reports = Append(@, FailedReport),
                                !.batches = <<{Root(th.files[th.file])}>>])
          /\ UNCHANGED job
     ELSE Finish(t) /\ job' = "failed"
  /\ UNCHANGED <<inputs, stores, overlapped>>

EndFiles(t) ==
  /\ T(t, "file") /\ threads[t].file = Len(threads[t].files)
  /\ Move(t, [threads[t] EXCEPT !.pc = "manifest", !.man = Manifest(threads[t])])
  /\ UNCHANGED <<inputs, stores, job, started, overlapped>>

PutManifest(t) ==
  /\ T(t, "manifest")
  /\ manifest' = threads[t].man
  /\ Move(t, [threads[t] EXCEPT !.pc = "close"])
  /\ UNCHANGED <<inputs, legacy, removed, payload, rows, fts, job, started, overlapped>>

CloseJob_AnyManifest(t) ==
  /\ T(t, "close")
  /\ job' = IF manifest # None THEN "complete" ELSE "partial"
  /\ Finish(t)
  /\ UNCHANGED <<inputs, stores, started, overlapped>>

CloseJob(t) ==
  /\ T(t, "close")
  /\ job' = IF threads[t].man.ready THEN "complete" ELSE "partial"
  /\ Finish(t)
  /\ UNCHANGED <<inputs, stores, started, overlapped>>

-----------------------------------------------------------------------------
\* Reading: CorpusReader.lexical_order over search_blocks and ensure_catalog.

\* The reader is made from the manifest and keeps it.
OpenReader(t) ==
  /\ manifest # None /\ Start(t, "read")
  /\ Move(t, [IdleThread EXCEPT !.op = "read", !.pc = "ensure", !.required = Required(manifest)])
  /\ UNCHANGED <<inputs, stores, job>>

\* ensure_catalog reads the manifest again and compares numbers of rows.  Without a
\* manifest the search raises and the blocks are read instead.
EnsureCatalog(t) ==
  LET th == threads[t] IN
  /\ T(t, "ensure")
  /\ IF manifest = None THEN Move(t, [th EXCEPT !.pc = "fallback"])
     ELSE Move(t, [th EXCEPT
       !.man = manifest,
       !.pc = IF Cardinality(rows) < Cardinality(Addressable(manifest))
              THEN "migrate" ELSE "rank"])
  /\ UNCHANGED <<inputs, stores, job, started, overlapped>>

\* ensure_block_store: fewer payloads than blocks, so the missing ones are read from
\* their JSON files ...
ReadLegacy(t) ==
  LET th == threads[t]
      short == Cardinality(payload) < Cardinality(Addressable(th.man))
  IN
  /\ T(t, "migrate")
  /\ Move(t, [th EXCEPT !.pc = "migrated",
       !.existing = IF short THEN (Addressable(th.man) \ payload) \cap legacy ELSE {}])
  /\ UNCHANGED <<inputs, stores, job, started, overlapped>>

\* ... and written in one transaction.
MigratePayloads(t) ==
  LET th == threads[t] IN
  /\ T(t, "migrated")
  /\ payload' = payload \cup th.existing
  /\ Move(t, [th EXCEPT !.pc = "load", !.existing = {}])
  /\ UNCHANGED <<inputs, legacy, removed, rows, fts, manifest, job, started, overlapped>>

\* get_blocks returns what is found, and what it finds in JSON it migrates.
LoadBlocks(t) ==
  LET th == threads[t]
      found == Addressable(th.man) \cap (payload \cup legacy)
  IN
  /\ T(t, "load")
  /\ payload' = payload \cup found
  /\ Move(t, IF found = {} THEN [th EXCEPT !.pc = "rank"]
             ELSE [th EXCEPT !.pc = "probe", !.batches = <<found>>, !.after = "rank"])
  /\ UNCHANGED <<inputs, legacy, removed, rows, fts, manifest, job, started, overlapped>>

Repeat(b, n) == [k \in 1 .. n |-> b]

\* A list without what is not in S.
Within(seq, S) == FoldLeft(LAMBDA kept, b : IF b \in S THEN Append(kept, b) ELSE kept, <<>>, seq)

\* Every block that was not ranked is appended.
ExecutionOrder(required, ranked) ==
  LET known == Within(ranked, ToSet(required)) IN
  known \o Within(required, ToSet(required) \ ToSet(known))

\* The hits of a search, each as often as the text index has it.
Ranked(bag, hits) == FoldSet(LAMBDA b, seq : seq \o Repeat(b, bag[b]), <<>>, hits)

\* search joins the text index with the rows: any of the rows may match the query.
\* Roots and sections are not processable.
RankBlocks(t) ==
  LET th == threads[t]
      indexed == {b \in DOMAIN fts : b \in rows /\ b.status = "ready"}
  IN
  /\ T(t, "rank")
  /\ \E hits \in {{}, indexed} \cup {{b} : b \in indexed} :
       Move(t, [th EXCEPT !.pc = "answered",
                          !.order = ExecutionOrder(th.required, Ranked(fts, hits))])
  /\ UNCHANGED <<inputs, stores, job, started, overlapped>>

\* Without the catalog every required block is read; one that is missing raises.
RankByReading(t) ==
  LET th == threads[t] IN
  /\ T(t, "fallback")
  /\ IF ToSet(th.required) \subseteq payload \cup legacy
     THEN /\ payload' = payload \cup ToSet(th.required)
          /\ Move(t, [th EXCEPT !.pc = "answered", !.order = th.required])
     ELSE Finish(t) /\ UNCHANGED payload
  /\ UNCHANGED <<inputs, legacy, removed, rows, fts, manifest, job, started, overlapped>>

CloseReader(t) ==
  /\ T(t, "answered")
  /\ Finish(t)
  /\ UNCHANGED <<inputs, stores, job, started, overlapped>>

-----------------------------------------------------------------------------
\* Deleting: the directory, the catalog, the payloads, the uploads.

\* Without a directory only the uploads are deleted.  An empty one may be left by a
\* deletion or a write of the manifest that failed.
StartDelete(t) ==
  /\ Start(t, "delete")
  /\ \E pc \in {"remove", "delete uploads"} :
       /\ pc = "delete uploads" => manifest = None /\ legacy = {}
       /\ Move(t, [IdleThread EXCEPT !.op = "delete", !.pc = pc])
  /\ UNCHANGED <<inputs, stores, job>>

\* rmtree takes the files away one by one, in the order of the directory.
RemoveFile(t) ==
  /\ T(t, "remove")
  /\ \/ manifest # None /\ manifest' = None /\ UNCHANGED <<legacy, removed>>
     \/ /\ \E b \in legacy : legacy' = legacy \ {b} /\ removed' = removed \cup {b}
        /\ UNCHANGED manifest
  /\ UNCHANGED <<inputs, payload, rows, fts, job, threads, started, overlapped>>

RemovalDone(t) ==
  /\ T(t, "remove") /\ manifest = None /\ legacy = {}
  /\ Move(t, [threads[t] EXCEPT !.pc = "delete rows"])
  /\ UNCHANGED <<inputs, stores, job, started, overlapped>>

\* An error leaves the rest where it is, the uploads too.
DeletionFails(t) ==
  /\ threads[t].op = "delete" /\ ~T(t, "delete uploads")
  /\ started.faults < MaxFaults
  /\ started' = [started EXCEPT !.faults = @ + 1]
  /\ Finish(t)
  /\ UNCHANGED <<inputs, stores, job, overlapped>>

DeleteRows_KeepsIndex(t) ==
  /\ T(t, "delete rows")
  /\ rows' = {}
  /\ Move(t, [threads[t] EXCEPT !.pc = "delete payloads"])
  /\ UNCHANGED <<inputs, legacy, removed, payload, fts, manifest, job, started, overlapped>>

DeleteRows(t) ==
  /\ T(t, "delete rows")
  /\ rows' = {} /\ fts' = EmptyBag
  /\ Move(t, [threads[t] EXCEPT !.pc = "delete payloads"])
  /\ UNCHANGED <<inputs, legacy, removed, payload, manifest, job, started, overlapped>>

DeletePayloads(t) ==
  /\ T(t, "delete payloads")
  /\ payload' = {}
  /\ Move(t, [threads[t] EXCEPT !.pc = "delete uploads"])
  /\ UNCHANGED <<inputs, legacy, removed, rows, fts, manifest, job, started, overlapped>>

DeleteUploads(t) ==
  /\ T(t, "delete uploads")
  /\ uploaded' = FALSE
  /\ Finish(t)
  /\ UNCHANGED <<queue, stores, job, started, overlapped>>

-----------------------------------------------------------------------------

\* The process dies; the new one marks the job interrupted.
Restart ==
  /\ Busy # {} /\ started.faults < MaxFaults
  /\ started' = [started EXCEPT !.faults = @ + 1]
  /\ threads' = [t \in Threads |-> IdleThread]
  /\ job' = IF job \in {"queued", "running"} THEN "interrupted" ELSE job
  /\ UNCHANGED <<inputs, stores, overlapped>>

ThreadStep(t) ==
  \/ PutPayloads(t) \/ ProbeCatalog(t) \/ UpsertCatalog(t)
  \/ StartIngest(t)
  \/ IngestFile(t) \/ ReportFile(t) \/ WriteFails(t) \/ EndFiles(t)
  \/ PutManifest(t) \/ CloseJob(t)
  \/ OpenReader(t) \/ EnsureCatalog(t) \/ ReadLegacy(t) \/ MigratePayloads(t)
  \/ LoadBlocks(t) \/ RankBlocks(t) \/ RankByReading(t) \/ CloseReader(t)
  \/ StartDelete(t) \/ RemoveFile(t) \/ RemovalDone(t) \/ DeletionFails(t)
  \/ DeleteRows(t) \/ DeletePayloads(t) \/ DeleteUploads(t)

CorpusNext ==
  \/ \E t \in Threads : ThreadStep(t)
  \/ RetryIngest
  \/ Restart

CorpusSpec == CorpusInit /\ [][CorpusNext]_corpusVars

-----------------------------------------------------------------------------
\* Properties.

CorpusTypeOK ==
  /\ rows \cup payload \cup legacy \cup removed \subseteq UNION {BlocksOf(f) : f \in Files}
  /\ IsABag(fts) /\ BagToSet(fts) \subseteq rows
  /\ job \in {"none", "queued", "running", "complete", "partial", "failed", "interrupted"}
  /\ \A t \in Threads : threads[t].pc \in {"probe", "upsert"} => threads[t].batches # <<>>

\* A corpus is ready only when every character, row, page image, picture, chart and
\* segment of every submitted file is in a block that an evaluation has to visit; but
\* for the units that its parser drops without counting them.
UnitsOf == [f \in Files |-> FileUnits(f)]
OverlookedOf == [f \in Files |-> Overlooked(f)]
HeldBy == [f \in Files |-> [b \in LeafsOf[f] |-> LeafUnits(f, b)]]
ChildrenOf == [f \in Files |-> [b \in StructureOf[f] |-> Children(f, Parse[f], b)]]
SplitFiles == {f \in Files : Splits(f, Parse[f])}

HoldsUnits(f, units, blocks) ==
  units \subseteq UNION {HeldBy[f][b] : b \in {c \in blocks : c.path = f.path}}

ReadyIsEarned ==
  manifest # None /\ manifest.ready =>
    \A f \in ToSet(manifest.files) :
      /\ f.kind # "none"
      /\ HoldsUnits(f, UnitsOf[f] \ OverlookedOf[f], ToSet(Required(manifest)))

\* Every block that the manifest names can be read, whatever writes failed and whenever
\* the server died, unless a deletion ran beside another operation; but for the JSON
\* files that a deletion had removed when it died or failed before it came to the
\* manifest.
ManifestIsServed ==
  manifest # None /\ "delete" \notin UNION overlapped =>
    Addressable(manifest) \cup manifest.roots \subseteq payload \cup legacy \cup removed

\* Navigation from section to block does not lead to a block that is not there.  The
\* root is excepted when a table was split: it still names the whole table; and so are
\* the JSON files that a deletion had removed, as above.
ChildrenAreServed ==
  manifest # None /\ "delete" \notin UNION overlapped =>
    \A f \in ToSet(manifest.reported) : \A b \in StructureOf[f] :
      (b.channel = "root" => f \notin SplitFiles) =>
        ChildrenOf[f][b] \subseteq payload \cup legacy \cup removed

\* Every required block is in the order exactly once, however stale or incomplete the
\* catalog is; unless two threads indexed the same block at once, when the text index
\* has it twice, or a file was submitted twice.
OrderIsExact ==
  \A t \in Threads :
    T(t, "answered") =>
      LET th == threads[t] IN
      /\ ToSet(th.order) = ToSet(th.required)
      /\ {"index"} \notin overlapped /\ IsInjective(th.required) => IsInjective(th.order)

\* A job that says complete left a ready manifest, and one that says partial left one
\* that is not, when neither a second ingest nor a deletion ran.
JobTellsManifest ==
  {{"ingest"}, {"ingest", "delete"}} \cap overlapped = {} /\ manifest # None =>
    /\ job = "complete" => manifest.ready
    /\ job = "partial" => ~manifest.ready
=============================================================================
