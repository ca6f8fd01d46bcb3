---------------------------- MODULE UploadSession ----------------------------
(***************************************************************************)
(* Resumable uploads: UploadSessionStore (src/contextmesh/uploads.py), the *)
(* /api/upload-sessions handlers and the ingest from sessions              *)
(* (src/contextmesh/api.py).  A session is a row; its parts are rows and,  *)
(* for the local backend, staged files; a completion assembles the staged  *)
(* files under a free name.  For the s3 backend the parts are in an object *)
(* store, which clients write through presigned URLs.                      *)
(*                                                                         *)
(* Every call checks first and writes later, in the steps of the code, and *)
(* other calls come in between.  The content of a part or file is the      *)
(* sequence of its bytes, a digest is the content.  A refused call changes *)
(* nothing and is no step.                                                 *)
(***************************************************************************)
EXTENDS Integers, Sequences, FiniteSets, FiniteSetsExt, Functions

CONSTANTS
  Sessions,   \* session ids
  Requests,   \* of every session, the create requests that may make it:
              \* [filename, size_bytes, sha256, backend]
  Calls,      \* calls the server may be serving at once
  PartData,   \* of every session, the bodies of PUT .../parts/n
  PartSize,   \* part_size of every session
  MaxCopies,  \* bound: copies of one file name
  MaxAborts,  \* bound: no abort begins after so many aborts and s3 completions
  MaxJobs,    \* bound: ingest jobs created from sessions
  None        \* SQL NULL, an absent file

ASSUME UploadAssumption ==
  /\ PartSize \in Nat \ {0}
  /\ DOMAIN Requests = Sessions /\ DOMAIN PartData = Sessions
  /\ \A r \in UNION Range(Requests) :
       /\ DOMAIN r = {"filename", "size_bytes", "sha256", "backend"}
       /\ r.size_bytes \in Nat
       /\ r.sha256 = None \/ r.sha256 \in Seq(Nat)
       /\ r.backend \in {"local", "s3"}
  /\ \A d \in UNION Range(PartData) : d \in Seq(Nat)

VARIABLES
  sessions,  \* the table upload_sessions
  parts,     \* the table upload_parts: of every session, the size of each recorded part
  staged,    \* the staged part files (local), the parts in the object store (s3)
  remote,    \* of every s3 session: is its multipart upload open
  files,     \* the directory _completed: <<file name, copy>> -> content
  ingested,  \* <<session, path>> of the ingest jobs created from sessions
  calls,     \* the calls in progress
  purged,    \* history: the sessions whose parts were ever taken away, by an abort or
             \* when the object store put the object together
  clashed,   \* history: names for which two completions held a free name at once
  alleged    \* history: <<session, part>> of parts that a completing client named and
             \* the object store did not have

uploadVars ==
  <<sessions, parts, staged, remote, files, ingested, calls, purged, clashed, alleged>>

AllRequests == UNION Range(Requests)
Filenames == {r.filename : r \in AllRequests}
Paths == Filenames \X (1 .. MaxCopies)
CeilDiv(n, d) == (n + d - 1) \div d
Expected(row) == CeilDiv(row.size_bytes, PartSize)
PartNumbers == 1 .. Max({1} \cup {Expected(r) : r \in AllRequests})
NoParts == [n \in PartNumbers |-> None]
Present(f) == {n \in PartNumbers : f[n] # None}
RemotePath(s) == <<"s3", s>>

\* None is none of the numbers, bodies and paths of the program.
ASSUME NoneAssumption ==
  /\ None \notin Nat /\ None \notin Seq(Nat)
  /\ None \notin Paths /\ None \notin {"local", "s3"}
  /\ \A s \in Sessions : None # RemotePath(s)

\* announced is history: the digest of the create request; a completion fills in
\* the sha256 of a session that announced none.
AbsentSession ==
  [status |-> "absent", filename |-> None, size_bytes |-> 0, sha256 |-> None,
   announced |-> None, backend |-> None, completed_path |-> None]

\* What a call in progress holds: the status it saw first, its part and data, the
\* digest it has to match, the parts it names to the object store, the <<number, size>>
\* of the parts still to be read or recorded, what it has read, the name.
NoCall ==
  [pc |-> "idle", s |-> None, saw |-> "absent", part |-> 0, data |-> <<>>,
   sha |-> None, named |-> {}, todo |-> {}, path |-> None]

UploadInit ==
  /\ sessions = [s \in Sessions |-> AbsentSession]
  /\ parts = [s \in Sessions |-> NoParts]
  /\ staged = [s \in Sessions |-> NoParts]
  /\ remote = [s \in Sessions |-> "none"]
  /\ files = [p \in Paths |-> None]
  /\ ingested = {}
  /\ calls = [c \in Calls |-> NoCall]
  /\ purged = {}
  /\ clashed = {}
  /\ alleged = {}

First(row, rows) == \A other \in rows : row[1] <= other[1]
At(c, pc) == calls[c].pc = pc
Go(c, call) == calls' = [calls EXCEPT ![c] = call]
Return(c) == Go(c, NoCall)
Started(s, pc) == [NoCall EXCEPT !.pc = pc, !.s = s, !.saw = sessions[s].status]
Exists(s) == sessions[s].status # "absent"
Local(s) == sessions[s].backend = "local"

-----------------------------------------------------------------------------
\* Creating a session.

CreateSession(c, s, r) ==
  /\ At(c, "idle") /\ ~Exists(s)
  /\ sessions' = [sessions EXCEPT ![s] =
       [status |-> "created", filename |-> r.filename, size_bytes |-> r.size_bytes,
        sha256 |-> r.sha256, announced |-> r.sha256, backend |-> r.backend,
        completed_path |-> None]]
  /\ IF r.backend = "s3" THEN Go(c, [NoCall EXCEPT !.pc = "begin", !.s = s])
                         ELSE UNCHANGED calls
  /\ UNCHANGED <<parts, staged, remote, files, ingested, purged, clashed, alleged>>

\* S3MultipartAdapter.begin and set_remote.
SetRemote(c) ==
  LET s == calls[c].s IN
  /\ At(c, "begin")
  /\ remote' = [remote EXCEPT ![s] = "open"]
  /\ sessions' = [sessions EXCEPT ![s].status = "uploading"]
  /\ Return(c)
  /\ UNCHANGED <<parts, staged, files, ingested, purged, clashed, alleged>>

-----------------------------------------------------------------------------
\* put_local_part: check, write the file, write the row.  The handler runs on the
\* event loop, so that no second one is in progress.

ValidPart(row, n, d) ==
  /\ Expected(row) # 0 => n <= Expected(row)
  /\ Len(d) <= PartSize
  /\ n < Expected(row) => Len(d) = PartSize

Open_AlsoComplete(row) == row.status \notin {"absent", "aborted"}

Open(row) == row.status \notin {"absent", "complete", "aborted"}

PutCheck(c, s, n, d) ==
  /\ At(c, "idle") /\ ~\E b \in Calls : calls[b].pc \in {"put_file", "put_row"}
  /\ Local(s) /\ Open(sessions[s]) /\ ValidPart(sessions[s], n, d)
  /\ Go(c, [Started(s, "put_file") EXCEPT !.part = n, !.data = d])
  /\ UNCHANGED <<sessions, parts, staged, remote, files, ingested, purged, clashed, alleged>>

PutFile(c) ==
  /\ At(c, "put_file")
  /\ staged' = [staged EXCEPT ![calls[c].s][calls[c].part] = calls[c].data]
  /\ Go(c, [calls[c] EXCEPT !.pc = "put_row"])
  /\ UNCHANGED <<sessions, parts, remote, files, ingested, purged, clashed, alleged>>

\* The upsert of put_local_part and record_remote_part, one transaction each.
RecordPart(s, n, size) ==
  /\ parts' = [parts EXCEPT ![s][n] = size]
  /\ sessions' = [sessions EXCEPT ![s].status = "uploading"]

PutRow(c) ==
  /\ At(c, "put_row")
  /\ RecordPart(calls[c].s, calls[c].part, Len(calls[c].data))
  /\ Return(c)
  /\ UNCHANGED <<staged, remote, files, ingested, purged, clashed, alleged>>

-----------------------------------------------------------------------------
\* complete_local, which does not look at the status.

UploadedBytes(s) ==
  SumFunctionOnSet(parts[s], Present(parts[s]))

Assemblable(s) ==
  /\ 1 .. Expected(sessions[s]) \subseteq Present(parts[s])
  /\ UploadedBytes(s) = sessions[s].size_bytes

CompleteCheck(c, s) ==
  /\ At(c, "idle") /\ Exists(s) /\ Local(s) /\ Assemblable(s)
  /\ Go(c, [Started(s, "pick") EXCEPT !.sha = sessions[s].sha256])
  /\ UNCHANGED <<sessions, parts, staged, remote, files, ingested, purged, clashed, alleged>>

FreeName_FirstAlways(name, p) == p = <<name, 1>>

\* p is the first free name.
FreeName(name, p) ==
  /\ p[1] = name /\ files[p] = None
  /\ \A q \in Paths : q[1] = name /\ q[2] < p[2] => files[q] # None

Holding(p) == {b \in Calls : At(b, "assemble") /\ calls[b].path = p}

\* The first free name, and the rows of the parts to be read.
PickName(c) ==
  LET s == calls[c].s
      name == sessions[s].filename
  IN
  /\ At(c, "pick")
  /\ \E p \in Paths :
       /\ FreeName(name, p)
       /\ Go(c, [calls[c] EXCEPT !.pc = "assemble", !.path = p,
                                 !.todo = {<<n, parts[s][n]>> : n \in Present(parts[s])}])
       /\ clashed' = IF Holding(p) = {} THEN clashed ELSE clashed \cup {name}
  /\ UNCHANGED <<sessions, parts, staged, remote, files, ingested, purged, alleged>>

\* The staged files are read one by one; a missing one raises.
ReadPart(c) ==
  LET call == calls[c] IN
  /\ At(c, "assemble")
  /\ \E row \in call.todo :
       /\ First(row, call.todo)
       /\ IF staged[call.s][row[1]] = None
          THEN Return(c)
          ELSE Go(c, [call EXCEPT !.todo = @ \ {row},
                                  !.data = @ \o staged[call.s][row[1]]])
  /\ UNCHANGED <<sessions, parts, staged, remote, files, ingested, purged, clashed, alleged>>

Verified(call) == call.sha # None => call.data = call.sha

Publish_CleansStaging(c) ==
  LET call == calls[c] IN
  /\ At(c, "assemble") /\ call.todo = {} /\ Verified(call)
  /\ files' = [files EXCEPT ![call.path] = call.data]
  /\ staged' = [staged EXCEPT ![call.s] = NoParts]
  /\ Go(c, [call EXCEPT !.pc = "record"])
  /\ UNCHANGED <<sessions, parts, remote, ingested, purged, clashed, alleged>>

\* The digest is compared, and the assembled file is moved to the name.
Publish(c) ==
  LET call == calls[c] IN
  /\ At(c, "assemble") /\ call.todo = {}
  /\ IF Verified(call)
     THEN /\ files' = [files EXCEPT ![call.path] = call.data]
          /\ Go(c, [call EXCEPT !.pc = "record"])
     ELSE Return(c) /\ UNCHANGED files
  /\ UNCHANGED <<sessions, parts, staged, remote, ingested, purged, clashed, alleged>>

RecordComplete_Unnamed(c) ==
  /\ At(c, "record")
  /\ sessions' = [sessions EXCEPT ![calls[c].s].status = "complete"]
  /\ Return(c)
  /\ UNCHANGED <<parts, staged, remote, files, ingested, purged, clashed, alleged>>

RecordComplete(c) ==
  LET call == calls[c] IN
  /\ At(c, "record")
  /\ sessions' = [sessions EXCEPT
       ![call.s].status = "complete",
       ![call.s].completed_path = call.path,
       ![call.s].sha256 = IF @ = None THEN call.data ELSE @]
  /\ Return(c)
  /\ UNCHANGED <<parts, staged, remote, files, ingested, purged, clashed, alleged>>

-----------------------------------------------------------------------------
\* The s3 backend.

\* A client writes a part through a presigned URL.
ClientPutsObject(s, n, d) ==
  /\ remote[s] = "open" /\ ValidPart(sessions[s], n, d)
  /\ staged' = [staged EXCEPT ![s][n] = d]
  /\ UNCHANGED <<sessions, parts, remote, files, ingested, calls, purged, clashed, alleged>>

Listing(s) == {<<n, Len(staged[s][n])>> : n \in Present(staged[s])}

\* The status query of a session that is still open and a completion record the parts
\* that the object store lists, which it does for an open upload.
ListParts(c, s, pc) ==
  /\ At(c, "idle") /\ sessions[s].backend = "s3" /\ remote[s] = "open"
  /\ \/ pc = "refresh" /\ Open(sessions[s])
     \/ pc = "complete" /\ Present(staged[s]) # {}
  /\ Go(c, [Started(s, pc) EXCEPT !.named = Present(staged[s]), !.todo = Listing(s)])
  /\ UNCHANGED <<sessions, parts, staged, remote, files, ingested, purged, clashed, alleged>>

\* A completion whose client brings a list of its own, in any order, which is recorded
\* without a look at the object store.  A size that is left out is 0.
BringParts(c, s, named) ==
  /\ At(c, "idle") /\ sessions[s].backend = "s3" /\ named # {}
  /\ Go(c, [Started(s, "complete") EXCEPT !.named = named, !.todo = named \X {0}])
  /\ alleged' = alleged \cup ({s} \X (named \ Present(staged[s])))
  /\ UNCHANGED <<sessions, parts, staged, remote, files, ingested, purged, clashed>>

RecordRemotePart(c) ==
  LET call == calls[c] IN
  /\ call.pc \in {"refresh", "complete"}
  /\ \E row \in call.todo :
       /\ call.pc = "refresh" => First(row, call.todo)
       /\ RecordPart(call.s, row[1], row[2])
       /\ Go(c, [call EXCEPT !.todo = @ \ {row}])
  /\ UNCHANGED <<staged, remote, files, ingested, purged, clashed, alleged>>

RefreshDone(c) ==
  /\ At(c, "refresh") /\ calls[c].todo = {}
  /\ Return(c)
  /\ UNCHANGED <<sessions, parts, staged, remote, files, ingested, purged, clashed, alleged>>

\* complete_multipart_upload: the object store takes an open upload if it has the parts
\* named, whose etags may still differ, and drops the others.
Acceptable(call) ==
  remote[call.s] = "open" /\ call.named \subseteq Present(staged[call.s])

OnlyNamed(call) ==
  [n \in PartNumbers |-> IF n \in call.named THEN staged[call.s][n] ELSE None]

CloseRemote(c) ==
  LET call == calls[c] IN
  /\ At(c, "complete") /\ call.todo = {}
  /\ \/ /\ Acceptable(call)
        /\ remote' = [remote EXCEPT ![call.s] = "closed"]
        /\ staged' = [staged EXCEPT ![call.s] = OnlyNamed(call)]
        /\ purged' = purged \cup {call.s}
        /\ Go(c, [call EXCEPT !.pc = "mark"])
     \/ Return(c) /\ UNCHANGED <<remote, staged, purged>>
  /\ UNCHANGED <<sessions, parts, files, ingested, clashed, alleged>>

MarkRemoteComplete(c) ==
  LET s == calls[c].s IN
  /\ At(c, "mark")
  /\ sessions' = [sessions EXCEPT ![s].status = "complete",
                                  ![s].completed_path = RemotePath(s)]
  /\ Return(c)
  /\ UNCHANGED <<parts, staged, remote, files, ingested, purged, clashed, alleged>>

-----------------------------------------------------------------------------
\* Aborting, ingesting, and the end of the server process.

\* abort_upload_session looks at no status; the object store refuses to abort an
\* upload that is not open.
AbortFiles(c, s) ==
  /\ At(c, "idle") /\ Exists(s)
  /\ sessions[s].backend = "s3" /\ remote[s] # "none" => remote[s] = "open"
  /\ remote' = [remote EXCEPT ![s] = IF @ = "open" THEN "aborted" ELSE @]
  /\ staged' = [staged EXCEPT ![s] = NoParts]
  /\ Cardinality(purged) < MaxAborts
  /\ purged' = purged \cup {s}
  /\ Go(c, Started(s, "abort"))
  /\ UNCHANGED <<sessions, parts, files, ingested, clashed, alleged>>

AbortRow(c) ==
  /\ At(c, "abort")
  /\ sessions' = [sessions EXCEPT ![calls[c].s].status = "aborted"]
  /\ Return(c)
  /\ UNCHANGED <<parts, staged, remote, files, ingested, purged, clashed, alleged>>

\* create_ingest_job_from_upload_sessions: the job is given the path.
IngestSession(s) ==
  LET row == sessions[s] IN
  /\ row.status = "complete" /\ row.completed_path # None
  /\ IF Local(s) THEN files[row.completed_path] # None ELSE remote[s] = "closed"
  /\ Cardinality(ingested) < MaxJobs
  /\ ingested' = ingested \cup {<<s, row.completed_path>>}
  /\ UNCHANGED <<sessions, parts, staged, remote, files, calls, purged, clashed, alleged>>

\* Tables and files survive, calls do not.
ServerDies ==
  /\ \E c \in Calls : ~At(c, "idle")
  /\ calls' = [c \in Calls |-> NoCall]
  /\ UNCHANGED <<sessions, parts, staged, remote, files, ingested, purged, clashed, alleged>>

CallStep(c) ==
  \/ SetRemote(c)
  \/ PutFile(c)
  \/ PutRow(c)
  \/ PickName(c)
  \/ ReadPart(c)
  \/ Publish(c)
  \/ RecordComplete(c)
  \/ RecordRemotePart(c)
  \/ RefreshDone(c)
  \/ CloseRemote(c)
  \/ MarkRemoteComplete(c)
  \/ AbortRow(c)

NewCall(c, s) ==
  \/ \E r \in Requests[s] : CreateSession(c, s, r)
  \/ \E n \in PartNumbers, d \in PartData[s] : PutCheck(c, s, n, d)
  \/ CompleteCheck(c, s)
  \/ \E pc \in {"refresh", "complete"} : ListParts(c, s, pc)
  \/ \E named \in SUBSET PartNumbers : BringParts(c, s, named)
  \/ AbortFiles(c, s)

UploadNext ==
  \/ \E c \in Calls : CallStep(c)
  \/ \E c \in Calls, s \in Sessions : NewCall(c, s)
  \/ \E s \in Sessions : \E n \in PartNumbers, d \in PartData[s] : ClientPutsObject(s, n, d)
  \/ \E s \in Sessions : IngestSession(s)
  \/ ServerDies

UploadSpec == UploadInit /\ [][UploadNext]_uploadVars

-----------------------------------------------------------------------------
\* Properties.

UploadTypeOK ==
  /\ \A s \in Sessions :
       /\ sessions[s].status \in {"absent", "created", "uploading", "complete", "aborted"}
       /\ sessions[s].status = "complete" => sessions[s].completed_path # None
       /\ remote[s] # "none" => sessions[s].backend = "s3"
       /\ \A n \in PartNumbers :
            /\ parts[s][n] \in Nat \cup {None}
            /\ staged[s][n] # None => staged[s][n] \in Seq(Nat)
  /\ \A p \in Paths : files[p] # None => files[p] \in Seq(Nat)
  /\ \A c \in Calls : ~At(c, "idle") => Exists(calls[c].s)

\* The paths that stand for a session's content: the one in its row, and those that
\* ingest jobs were given.
Claimed(s) ==
  {j[2] : j \in {i \in ingested : i[1] = s}}
    \cup IF sessions[s].status = "complete" THEN {sessions[s].completed_path} ELSE {}

\* A local session whose create request announced a digest and that is complete, or
\* was when a job was created from it, names a file with exactly the announced bytes,
\* whatever parts were replaced, aborted or completed again meanwhile; unless two
\* completions held one free name at once, when the second file replaces the first.
AnnouncedContentKept ==
  \A s \in Sessions :
    ( /\ Local(s) /\ sessions[s].announced # None
      /\ sessions[s].filename \notin clashed )
      => \A p \in Claimed(s) : files[p] = sessions[s].announced

\* No abort has begun, and the object store has not put the object together.
Resumable == Sessions \ purged

\* The parts that are stored, and those that a completing client said were.
There == {part \in Sessions \X PartNumbers : staged[part[1]][part[2]] # None} \cup alleged

\* Every part that a resuming client is told it may skip is there, although the
\* server may have died between writing a part and recording it, and a completion may
\* have been refused after it recorded its list; but for the parts that a client named
\* itself when it asked to complete an s3 session, and that the store did not have.
RecordedPartsAreStaged ==
  \A s \in Resumable : \A n \in Present(parts[s]) : <<s, n>> \in There

\* A complete session stays complete, but for an abort, for a call that saw it
\* before it was complete and writes late, and for a second completion of an s3
\* session, which records the client's list before it is refused.
LeavesComplete(s) ==
  sessions[s].status = "complete" /\ sessions'[s].status # "complete"

CompleteIsLeftByLateCalls ==
  [][\A s \in Sessions : LeavesComplete(s) =>
       \E c \in Calls :
         /\ calls[c].s = s /\ calls'[c] # calls[c]
         /\ calls[c].pc \in {"abort", "complete"} \/ calls[c].saw # "complete"]_uploadVars
=============================================================================
