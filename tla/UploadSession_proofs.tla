------------------------ MODULE UploadSession_proofs -------------------------
(***************************************************************************)
(* Proofs about the upload sessions: their types; that a session which     *)
(* announced a digest names the announced bytes, unless two completions    *)
(* held one free name; that a recorded part is there; and which calls may  *)
(* take the status complete away from a session.                           *)
(***************************************************************************)
EXTENDS UploadSession, TLAPS

Statuses == {"absent", "created", "uploading", "complete", "aborted"}
LocalCalls == {"put_file", "put_row", "pick", "assemble", "record"}
RemoteCalls == {"begin", "refresh", "complete", "mark"}
Completions == {"pick", "assemble", "record"}
Content == Seq(Nat)
AnyPath == Paths \cup {RemotePath(s) : s \in Sessions}

SessionRow ==
  [status : Statuses, filename : Filenames \cup {None}, size_bytes : Nat,
   sha256 : Content \cup {None}, announced : Content \cup {None},
   backend : {"local", "s3", None}, completed_path : AnyPath \cup {None}]

Call ==
  [pc : {"idle", "abort"} \cup LocalCalls \cup RemoteCalls, s : Sessions \cup {None},
   saw : Statuses, part : PartNumbers \cup {0}, data : Content,
   sha : Content \cup {None}, named : SUBSET PartNumbers, todo : SUBSET (PartNumbers \X Nat),
   path : Paths \cup {None}]

\* The tables, the files, and the calls that are between two steps.
TablesTyped ==
  /\ sessions \in [Sessions -> SessionRow]
  /\ parts \in [Sessions -> [PartNumbers -> Nat \cup {None}]]
  /\ staged \in [Sessions -> [PartNumbers -> Content \cup {None}]]
  /\ remote \in [Sessions -> {"none", "open", "closed", "aborted"}]
  /\ files \in [Paths -> Content \cup {None}]
  /\ ingested \subseteq Sessions \X AnyPath

CallsTyped == calls \in [Calls -> Call]

RowsFit ==
  \A s \in Sessions :
    /\ Exists(s) => sessions[s].filename \in Filenames
    /\ Exists(s) <=> sessions[s].backend # None
    /\ sessions[s].status = "complete" => sessions[s].completed_path # None
    /\ sessions[s].announced # None => sessions[s].sha256 = sessions[s].announced
    /\ remote[s] # "none" => sessions[s].backend = "s3"

\* What holds of a call between two of its steps.  It works on a session that exists
\* and stays of the backend it was checked for; only an abort and a completion may have
\* seen it complete; a part that is about to be recorded is there; a completion holds a
\* name of its session, a free one while it assembles, and one that has its session's
\* content after it has published.
CallFits(call) ==
  call.pc # "idle" =>
    LET row == sessions[call.s] IN
    /\ call.s \in Sessions /\ row.status # "absent"
    /\ call.pc \in LocalCalls => row.backend = "local"
    /\ call.pc \in RemoteCalls => row.backend = "s3"
    /\ call.pc \in {"put_file", "put_row"} => call.part \in PartNumbers
    /\ call.pc \in {"begin", "put_file", "put_row", "refresh"} => call.saw # "complete"
    /\ call.pc \in Completions /\ row.announced # None => call.sha = row.announced
    /\ call.s \in Resumable =>
         /\ call.pc = "put_row" => <<call.s, call.part>> \in There
         /\ call.pc \in {"refresh", "complete"} =>
              \A part \in call.todo : <<call.s, part[1]>> \in There
    /\ call.pc \in {"assemble", "record"} =>
         call.path \in Paths /\ call.path[1] = row.filename
    /\ call.pc = "assemble" /\ row.filename \notin clashed => files[call.path] = None
    /\ call.pc = "record" /\ row.announced # None /\ row.filename \notin clashed =>
         files[call.path] = row.announced

CallsFit == \A c \in Calls : CallFits(calls[c])

\* No two completions hold one name at once, but for the names that clashed.
NamesAreExclusive ==
  \A b, c \in Calls :
    b # c /\ At(b, "assemble") /\ At(c, "assemble") /\ calls[b].path = calls[c].path
      => calls[c].path[1] \in clashed

\* The paths that stand for a local session are names of it.
ClaimsFit ==
  /\ \A i \in ingested : Exists(i[1])
  /\ \A s \in Sessions : Local(s) =>
       \A p \in Claimed(s) : p \in Paths /\ p[1] = sessions[s].filename

UploadInv ==
  /\ TablesTyped
  /\ CallsTyped
  /\ RowsFit
  /\ CallsFit
  /\ RecordedPartsAreStaged
  /\ NamesAreExclusive
  /\ ClaimsFit
  /\ AnnouncedContentKept

-----------------------------------------------------------------------------
\* What most steps leave alone.

\* Sessions stay what they were created as.
RowsKept ==
  \A s \in Sessions : Exists(s) =>
    /\ sessions'[s].status # "absent"
    /\ sessions'[s].filename = sessions[s].filename
    /\ sessions'[s].announced = sessions[s].announced
    /\ sessions'[s].backend = sessions[s].backend

\* Only an abort and the end of a multipart upload take parts away.
PartsKept ==
  /\ Resumable' \subseteq Resumable
  /\ \A s \in Resumable', n \in PartNumbers : <<s, n>> \in There => <<s, n>> \in There'

\* A file that the call counts on: the free name, or the announced content.
Holds(call) ==
  /\ call.path \in Paths
  /\ \/ call.pc = "assemble"
     \/ call.pc = "record" /\ sessions[call.s].announced # None

\* A call that takes no step stays fit, if its file is left alone.
LEMMA CallStaysFit ==
  ASSUME NEW call \in Call, CallFits(call), RowsKept, PartsKept, clashed \subseteq clashed',
         Holds(call) =>
           files'[call.path] = files[call.path] \/ call.path[1] \in clashed
  PROVE  CallFits(call)'
<1> USE DEF Exists
<1>1. CASE call.pc = "idle"
  BY <1>1 DEF CallFits
<1>2. CASE call.pc # "idle"
  <2> DEFINE s == call.s
  <2>1. /\ s \in Sessions /\ sessions[s].status # "absent"
    BY <1>2 DEF CallFits
  <2>2. /\ sessions'[s].status # "absent"
        /\ sessions'[s].filename = sessions[s].filename
        /\ sessions'[s].announced = sessions[s].announced
        /\ sessions'[s].backend = sessions[s].backend
    BY <2>1 DEF RowsKept
  <2>3. s \in Resumable' =>
          /\ s \in Resumable
          /\ \A n \in PartNumbers : <<s, n>> \in There => <<s, n>> \in There'
    BY <2>1 DEF PartsKept
  <2>4. \A part \in call.todo : part[1] \in PartNumbers
    BY DEF Call
  <2> QED
    BY <1>2, <2>1, <2>2, <2>3, <2>4 DEF CallFits, Holds
<1> QED
  BY <1>1, <1>2

\* The calls after a step of c that leaves it with the record rec.
LEMMA CallsStayFit ==
  ASSUME CallsTyped, CallsFit, NEW c \in Calls, NEW rec \in Call,
         calls' = [calls EXCEPT ![c] = rec], CallFits(rec)',
         RowsKept, PartsKept, clashed \subseteq clashed',
         \A b \in Calls : b # c /\ Holds(calls[b]) =>
           files'[calls[b].path] = files[calls[b].path] \/ calls[b].path[1] \in clashed
  PROVE  CallsTyped' /\ CallsFit'
<1>1. CallsTyped'
  BY DEF CallsTyped
<1>2. ASSUME NEW b \in Calls PROVE CallFits(calls[b])'
  <2>1. CASE b = c
    BY <2>1 DEF CallsTyped, CallFits
  <2>2. CASE b # c
    <3>1. PICK call \in Call : call = calls[b]
      BY DEF CallsTyped
    <3>2. CallFits(call) /\ calls'[b] = call
      BY <2>2, <3>1 DEF CallsFit, CallsTyped
    <3>3. Holds(call) => files'[call.path] = files[call.path] \/ call.path[1] \in clashed
      BY <2>2, <3>1
    <3>4. CallFits(call)'
      BY <3>2, <3>3, CallStaysFit
    <3> QED
      BY <3>2, <3>4 DEF CallFits
  <2> QED
    BY <2>1, <2>2
<1> QED
  BY <1>1, <1>2 DEF CallsFit

\* The calls after a step outside them.
LEMMA AllCallsStayFit ==
  ASSUME CallsTyped, CallsFit, NamesAreExclusive, calls' = calls,
         RowsKept, PartsKept, clashed \subseteq clashed', files' = files
  PROVE  CallsTyped' /\ CallsFit' /\ NamesAreExclusive'
<1>1. CallsTyped'
  BY DEF CallsTyped
<1>2. ASSUME NEW b \in Calls PROVE CallFits(calls[b])'
  <2>1. PICK call \in Call : call = calls[b] /\ calls'[b] = call /\ CallFits(call)
    BY DEF CallsTyped, CallsFit
  <2>2. CallFits(call)'
    BY <2>1, CallStaysFit
  <2> QED
    BY <2>1, <2>2 DEF CallFits
<1>3. NamesAreExclusive'
  BY DEF NamesAreExclusive, At
<1> QED
  BY <1>1, <1>2, <1>3 DEF CallsFit

\* The claims after a step that completes nothing and touches no file.
LEMMA ClaimsStayFit ==
  ASSUME TablesTyped, RowsFit, ClaimsFit, AnnouncedContentKept, RowsKept,
         clashed \subseteq clashed', files' = files, ingested' = ingested,
         \A s \in Sessions : sessions'[s].status = "complete" /\ sessions[s].backend # "s3" =>
           /\ sessions[s].status = "complete"
           /\ sessions'[s].completed_path = sessions[s].completed_path
  PROVE  ClaimsFit' /\ AnnouncedContentKept'
<1>1. ingested \subseteq Sessions \X AnyPath
  BY DEF TablesTyped
<1>2. \A i \in ingested : sessions[i[1]].status # "absent" /\ i[1] \in Sessions
  BY <1>1 DEF ClaimsFit, Exists
<1>3. \A i \in ingested' : Exists(i[1])'
  BY <1>2 DEF RowsKept, Exists
<1>4. ASSUME NEW s \in Sessions, sessions[s].backend # "s3" PROVE Claimed(s)' \subseteq Claimed(s)
  BY <1>4 DEF Claimed
<1>5. ASSUME NEW s \in Sessions, NEW p \in Claimed(s) PROVE Exists(s)
  BY <1>2 DEF Claimed, Exists
<1>6. ASSUME NEW s \in Sessions, NEW p \in Claimed(s)', Local(s)'
      PROVE  /\ p \in Claimed(s) /\ Local(s)
             /\ sessions'[s].filename = sessions[s].filename
             /\ sessions'[s].announced = sessions[s].announced
  <2>1. sessions[s].backend # "s3"
    BY <1>6, NoneAssumption DEF RowsKept, RowsFit, Local
  <2>2. p \in Claimed(s)
    BY <1>4, <2>1
  <2> QED
    BY <1>5, <1>6, <2>2 DEF RowsKept, Local
<1>7. ClaimsFit'
  BY <1>3, <1>6 DEF ClaimsFit
<1>8. AnnouncedContentKept'
  BY <1>6 DEF AnnouncedContentKept
<1> QED
  BY <1>7, <1>8

\* No step but the choice of a name makes two completions hold one.
LEMMA NamesStayExclusive ==
  ASSUME CallsTyped, NamesAreExclusive, NEW c \in Calls, NEW rec \in Call,
         calls' = [calls EXCEPT ![c] = rec], clashed \subseteq clashed',
         rec.pc = "assemble" => At(c, "assemble") /\ rec.path = calls[c].path
  PROVE  NamesAreExclusive'
<1>1. \A b \in Calls : At(b, "assemble")' =>
        At(b, "assemble") /\ calls'[b].path = calls[b].path
  BY DEF CallsTyped, At
<1> QED
  BY <1>1 DEF NamesAreExclusive

LEMMA NoCallFits == NoCall \in Call /\ CallFits(NoCall) /\ CallFits(NoCall)'
BY DEF NoCall, Call, CallFits, Statuses, Content, LocalCalls, RemoteCalls

-----------------------------------------------------------------------------
\* Two kinds of steps.

\* A step that changes its call alone.
LEMMA CallOnly ==
  ASSUME UploadInv, NEW c \in Calls, NEW rec \in Call,
         calls' = [calls EXCEPT ![c] = rec], CallFits(rec),
         rec.pc = "assemble" => At(c, "assemble") /\ rec.path = calls[c].path,
         UNCHANGED <<sessions, parts, staged, remote, files, ingested, purged, clashed, alleged>>
  PROVE  UploadInv'
<1> USE DEF UploadInv
<1>1. RowsKept /\ PartsKept
  BY DEF RowsKept, PartsKept, Resumable, There, Exists
<1>2. CallFits(rec)'
  BY DEF CallFits, Resumable, There
<1>3. CallsTyped' /\ CallsFit'
  BY <1>1, <1>2, CallsStayFit
<1>4. NamesAreExclusive'
  BY NamesStayExclusive
<1>5. ClaimsFit' /\ AnnouncedContentKept'
  BY <1>1, ClaimsStayFit
<1>6. TablesTyped'
  BY DEF TablesTyped
<1>7. RowsFit'
  BY DEF RowsFit, Exists
<1>8. RecordedPartsAreStaged'
  BY DEF RecordedPartsAreStaged, Present, Resumable, There
<1> QED
  BY <1>3, <1>4, <1>5, <1>6, <1>7, <1>8

\* A step that opens or aborts a session, and may record a part of it.
LEMMA StatusStep ==
  ASSUME UploadInv, NEW c \in Calls, NEW s \in Sessions, Exists(s),
         NEW status \in {"uploading", "aborted"}, NEW rec \in Call,
         sessions' = [sessions EXCEPT ![s].status = status],
         calls' = [calls EXCEPT ![c] = rec], CallFits(rec),
         rec.pc \in {"idle", "refresh", "complete"},
         parts' \in [Sessions -> [PartNumbers -> Nat \cup {None}]],
         RecordedPartsAreStaged',
         remote' \in [Sessions -> {"none", "open", "closed", "aborted"}],
         \A t \in Sessions : remote'[t] # "none" => sessions[t].backend = "s3",
         UNCHANGED <<staged, files, ingested, purged, clashed, alleged>>
  PROVE  UploadInv'
<1> USE DEF UploadInv
<1>1. /\ sessions' \in [Sessions -> SessionRow]
      /\ \A t \in Sessions : sessions'[t] = IF t = s THEN [sessions[t] EXCEPT !.status = status]
                                                      ELSE sessions[t]
  <2>1. sessions \in [Sessions -> SessionRow]
    BY DEF TablesTyped
  <2> HIDE DEF UploadInv
  <2>2. sessions[s] \in SessionRow
    BY <2>1
  <2>3. [sessions[s] EXCEPT !.status = status] \in SessionRow
    BY <2>2 DEF SessionRow, Statuses
  <2> QED
    BY <2>1, <2>3
<1>2. \A t \in Sessions :
        /\ sessions'[t].filename = sessions[t].filename
        /\ sessions'[t].sha256 = sessions[t].sha256
        /\ sessions'[t].announced = sessions[t].announced
        /\ sessions'[t].backend = sessions[t].backend
        /\ sessions'[t].completed_path = sessions[t].completed_path
        /\ sessions'[t].status = sessions[t].status \/ (t = s /\ sessions'[t].status = status)
  BY <1>1 DEF TablesTyped, SessionRow
<1>3. RowsKept /\ PartsKept
  BY <1>2 DEF RowsKept, PartsKept, Resumable, There, Exists
<1>4. CallFits(rec)'
  <2>1. rec.s \in Sessions \/ rec.pc = "idle"
    BY DEF CallFits
  <2>2. rec.pc # "idle" => rec.pc \in RemoteCalls /\ rec.pc \notin LocalCalls
    BY DEF RemoteCalls, LocalCalls
  <2> QED
    BY <1>2, <2>1, <2>2 DEF CallFits, Resumable, There, Completions
<1>5. CallsTyped' /\ CallsFit'
  BY <1>3, <1>4, CallsStayFit
<1>6. NamesAreExclusive'
  BY NamesStayExclusive
<1>7. ClaimsFit' /\ AnnouncedContentKept'
  BY <1>2, <1>3, ClaimsStayFit
<1>8. TablesTyped'
  BY <1>1 DEF TablesTyped
<1>9. RowsFit'
  <2>1. RowsFit
    OBVIOUS
  <2> HIDE DEF UploadInv
  <2> QED
    BY <1>2, <2>1 DEF RowsFit, Exists
<1> QED
  BY <1>5, <1>6, <1>7, <1>8, <1>9

-----------------------------------------------------------------------------
\* The constants.

LEMMA RequestFacts ==
  ASSUME NEW s \in Sessions, NEW r \in Requests[s]
  PROVE  /\ r.filename \in Filenames /\ r.size_bytes \in Nat
         /\ r.sha256 \in Content \cup {None} /\ r.backend \in {"local", "s3"}
<1>1. r \in UNION Range(Requests)
  BY UploadAssumption DEF Range
<1> QED
  BY <1>1, UploadAssumption DEF Filenames, AllRequests, Content

LEMMA BodyFacts ==
  ASSUME NEW s \in Sessions, NEW d \in PartData[s]
  PROVE  d \in Content /\ d # None /\ Len(d) \in Nat
<1>1. d \in UNION Range(PartData)
  BY UploadAssumption DEF Range
<1> QED
  BY <1>1, UploadAssumption, NoneAssumption DEF Content

LEMMA ContentFacts ==
  <<>> \in Content /\ \A d, e \in Content : d \o e \in Content
BY DEF Content

LEMMA UploadInitially == UploadInit => UploadInv
<1> SUFFICES ASSUME UploadInit PROVE UploadInv
  OBVIOUS
<1> USE DEF UploadInit
<1>1. AbsentSession \in SessionRow /\ NoParts \in [PartNumbers -> {None}]
  BY DEF AbsentSession, SessionRow, Statuses, NoParts
<1>2. TablesTyped
  BY <1>1 DEF TablesTyped
<1>3. CallsTyped /\ CallsFit
  BY NoCallFits DEF CallsTyped, CallsFit
<1>4. RowsFit
  BY DEF RowsFit, Exists, AbsentSession
<1>5. RecordedPartsAreStaged
  BY DEF RecordedPartsAreStaged, Present, Resumable, There, NoParts
<1>6. NamesAreExclusive
  BY DEF NamesAreExclusive, At, NoCall
<1>7. ClaimsFit /\ AnnouncedContentKept
  BY NoneAssumption DEF ClaimsFit, AnnouncedContentKept, Local, AbsentSession
<1> QED
  BY <1>2, <1>3, <1>4, <1>5, <1>6, <1>7 DEF UploadInv

-----------------------------------------------------------------------------
\* The steps that change their call alone.

LEMMA ReturnKeeps ==
  ASSUME UploadInv, NEW c \in Calls, Return(c),
         UNCHANGED <<sessions, parts, staged, remote, files, ingested, purged, clashed, alleged>>
  PROVE  UploadInv'
<1>1. NoCall.pc # "assemble"
  BY DEF NoCall
<1> QED
  BY <1>1, NoCallFits, CallOnly DEF Return, Go

LEMMA PutCheckKeeps ==
  ASSUME UploadInv, NEW c \in Calls, NEW s \in Sessions, NEW n \in PartNumbers,
         NEW d \in PartData[s], PutCheck(c, s, n, d)
  PROVE  UploadInv'
<1> DEFINE new == [Started(s, "put_file") EXCEPT !.part = n, !.data = d]
<1>1. PICK rec : rec = new
  OBVIOUS
<1>2. sessions[s].status \in Statuses /\ sessions[s].status \notin {"absent", "complete"}
  BY DEF PutCheck, Open, UploadInv, TablesTyped, SessionRow
<1>3. /\ rec \in Call /\ rec.pc = "put_file" /\ rec.s = s /\ rec.part = n
      /\ rec.saw = sessions[s].status
  BY <1>1, <1>2, BodyFacts DEF Started, NoCall, Call, LocalCalls, Content
<1>4. CallFits(rec)
  BY <1>2, <1>3 DEF CallFits, PutCheck, Local, LocalCalls, RemoteCalls, Completions
<1>5. calls' = [calls EXCEPT ![c] = rec]
  BY <1>1 DEF PutCheck, Go
<1> QED
  BY <1>3, <1>4, <1>5, CallOnly DEF PutCheck

LEMMA CompleteCheckKeeps ==
  ASSUME UploadInv, NEW c \in Calls, NEW s \in Sessions, CompleteCheck(c, s)
  PROVE  UploadInv'
<1> DEFINE new == [Started(s, "pick") EXCEPT !.sha = sessions[s].sha256]
<1>1. PICK rec : rec = new
  OBVIOUS
<1>2. /\ sessions[s].status \in Statuses /\ sessions[s].status # "absent"
      /\ sessions[s].sha256 \in Content \cup {None}
      /\ sessions[s].announced # None => sessions[s].sha256 = sessions[s].announced
  BY DEF CompleteCheck, Exists, UploadInv, TablesTyped, SessionRow, RowsFit
<1>3. rec \in Call /\ rec.pc = "pick" /\ rec.s = s /\ rec.sha = sessions[s].sha256
  BY <1>1, <1>2, ContentFacts DEF Started, NoCall, Call, LocalCalls
<1>4. CallFits(rec)
  BY <1>2, <1>3 DEF CallFits, CompleteCheck, Local, LocalCalls, RemoteCalls, Completions
<1>5. calls' = [calls EXCEPT ![c] = rec]
  BY <1>1 DEF CompleteCheck, Go
<1> QED
  BY <1>3, <1>4, <1>5, CallOnly DEF CompleteCheck

LEMMA ListPartsKeeps ==
  ASSUME UploadInv, NEW c \in Calls, NEW s \in Sessions,
         NEW pc \in {"refresh", "complete"}, ListParts(c, s, pc)
  PROVE  UploadInv'
<1> DEFINE new == [Started(s, pc) EXCEPT !.named = Present(staged[s]), !.todo = Listing(s)]
<1>1. PICK rec : rec = new
  OBVIOUS
<1>2. sessions[s].status \in Statuses /\ sessions[s].backend = "s3"
  BY DEF ListParts, UploadInv, TablesTyped, SessionRow
<1>3. sessions[s].status # "absent" /\ (pc = "refresh" => sessions[s].status # "complete")
  <2>1. CASE pc = "refresh"
    BY <2>1 DEF ListParts, Open
  <2>2. CASE pc = "complete"
    \* An absent session has no backend.
    BY <1>2, <2>2, NoneAssumption DEF UploadInv, RowsFit, Exists
  <2> QED
    BY <2>1, <2>2
<1>4. \A part \in Listing(s) :
        part \in PartNumbers \X Nat /\ staged[s][part[1]] # None
  <2>1. \A n \in PartNumbers : staged[s][n] \in Content \cup {None}
    BY DEF UploadInv, TablesTyped
  <2> QED
    BY <2>1 DEF Listing, Present, Content
<1>5. /\ rec \in Call /\ rec.pc = pc /\ rec.s = s /\ rec.todo = Listing(s)
      /\ rec.saw = sessions[s].status
  <2>1. Present(staged[s]) \subseteq PartNumbers
    BY DEF Present
  <2> QED
    BY <1>1, <1>2, <1>4, <2>1, ContentFacts DEF Started, NoCall, Call, RemoteCalls
<1>6. CallFits(rec)
  BY <1>2, <1>3, <1>4, <1>5 DEF CallFits, There, LocalCalls, RemoteCalls, Completions
<1>7. calls' = [calls EXCEPT ![c] = rec]
  BY <1>1 DEF ListParts, Go
<1> QED
  BY <1>5, <1>6, <1>7, CallOnly DEF ListParts

LEMMA ReadPartKeeps ==
  ASSUME UploadInv, NEW c \in Calls, ReadPart(c)
  PROVE  UploadInv'
<1>1. PICK call \in Call : call = calls[c] /\ CallFits(call) /\ call.pc = "assemble"
  BY DEF UploadInv, CallsTyped, CallsFit, ReadPart, At
<1>2. PICK row \in call.todo :
        IF staged[call.s][row[1]] = None
        THEN Return(c)
        ELSE Go(c, [call EXCEPT !.todo = @ \ {row}, !.data = @ \o staged[call.s][row[1]]])
  BY <1>1 DEF ReadPart
<1>3. CASE staged[call.s][row[1]] = None
  BY <1>2, <1>3, ReturnKeeps DEF ReadPart
<1>4. CASE staged[call.s][row[1]] # None
  <2> DEFINE new == [call EXCEPT !.todo = @ \ {row}, !.data = @ \o staged[call.s][row[1]]]
  <2>1. PICK rec : rec = new
    OBVIOUS
  <2>2. call.s \in Sessions /\ row[1] \in PartNumbers
    BY <1>1 DEF CallFits, Call
  <2>3. staged[call.s][row[1]] \in Content
    BY <1>4, <2>2 DEF UploadInv, TablesTyped
  <2>4. /\ rec \in Call /\ rec.pc = "assemble" /\ rec.s = call.s /\ rec.path = call.path
        /\ rec.sha = call.sha /\ rec.part = call.part /\ rec.saw = call.saw
    BY <1>1, <2>1, <2>3, ContentFacts DEF Call
  <2>5. CallFits(rec)
    BY <1>1, <2>4 DEF CallFits
  <2>6. calls' = [calls EXCEPT ![c] = rec]
    BY <1>2, <1>4, <2>1 DEF Go
  <2>7. At(c, "assemble")
    BY <1>1 DEF At
  <2> QED
    BY <1>1, <2>4, <2>5, <2>6, <2>7, CallOnly DEF ReadPart
<1> QED
  BY <1>3, <1>4

-----------------------------------------------------------------------------
\* The steps that open or abort a session.

LEMMA SetRemoteKeeps ==
  ASSUME UploadInv, NEW c \in Calls, SetRemote(c)
  PROVE  UploadInv'
<1>1. PICK s \in Sessions : s = calls[c].s /\ Exists(s) /\ sessions[s].backend = "s3"
  BY DEF SetRemote, At, UploadInv, CallsFit, CallFits, RemoteCalls, Exists
<1>2. remote' = [remote EXCEPT ![s] = "open"] /\ sessions' = [sessions EXCEPT ![s].status = "uploading"]
  BY <1>1 DEF SetRemote
<1>3. /\ remote' \in [Sessions -> {"none", "open", "closed", "aborted"}]
      /\ \A t \in Sessions : remote'[t] # "none" => sessions[t].backend = "s3"
  BY <1>1, <1>2 DEF UploadInv, TablesTyped, RowsFit
<1>4. parts' \in [Sessions -> [PartNumbers -> Nat \cup {None}]] /\ RecordedPartsAreStaged'
  BY DEF SetRemote, UploadInv, TablesTyped, RecordedPartsAreStaged, Present, Resumable, There
<1>5. calls' = [calls EXCEPT ![c] = NoCall] /\ NoCall.pc = "idle"
  BY DEF SetRemote, Return, Go, NoCall
<1> QED
  BY <1>1, <1>2, <1>3, <1>4, <1>5, NoCallFits, StatusStep DEF SetRemote

LEMMA AbortRowKeeps ==
  ASSUME UploadInv, NEW c \in Calls, AbortRow(c)
  PROVE  UploadInv'
<1>1. PICK s \in Sessions : s = calls[c].s /\ Exists(s)
  BY DEF AbortRow, At, UploadInv, CallsFit, CallFits, Exists
<1>2. sessions' = [sessions EXCEPT ![s].status = "aborted"]
  BY <1>1 DEF AbortRow
<1>3. /\ remote' \in [Sessions -> {"none", "open", "closed", "aborted"}]
      /\ \A t \in Sessions : remote'[t] # "none" => sessions[t].backend = "s3"
  BY DEF AbortRow, UploadInv, TablesTyped, RowsFit
<1>4. parts' \in [Sessions -> [PartNumbers -> Nat \cup {None}]] /\ RecordedPartsAreStaged'
  BY DEF AbortRow, UploadInv, TablesTyped, RecordedPartsAreStaged, Present, Resumable, There
<1>5. calls' = [calls EXCEPT ![c] = NoCall] /\ NoCall.pc = "idle"
  BY DEF AbortRow, Return, Go, NoCall
<1> QED
  BY <1>1, <1>2, <1>3, <1>4, <1>5, NoCallFits, StatusStep DEF AbortRow

\* A part that is there is recorded.
LEMMA RecordPartKeeps ==
  ASSUME UploadInv, NEW c \in Calls, NEW s \in Sessions, Exists(s), NEW n \in PartNumbers,
         NEW size \in Nat, s \in Resumable => <<s, n>> \in There,
         RecordPart(s, n, size), NEW rec \in Call, calls' = [calls EXCEPT ![c] = rec],
         CallFits(rec), rec.pc \in {"idle", "refresh", "complete"},
         UNCHANGED <<staged, remote, files, ingested, purged, clashed, alleged>>
  PROVE  UploadInv'
<1>1. parts' \in [Sessions -> [PartNumbers -> Nat \cup {None}]]
  BY DEF RecordPart, UploadInv, TablesTyped
<1>2. \A t \in Sessions, m \in PartNumbers :
        parts'[t][m] # None => parts[t][m] # None \/ (t = s /\ m = n)
  BY DEF RecordPart, UploadInv, TablesTyped
<1>3. RecordedPartsAreStaged'
  BY <1>2 DEF UploadInv, RecordedPartsAreStaged, Present, Resumable, There
<1>4. /\ remote' \in [Sessions -> {"none", "open", "closed", "aborted"}]
      /\ \A t \in Sessions : remote'[t] # "none" => sessions[t].backend = "s3"
  BY DEF UploadInv, TablesTyped, RowsFit
<1> QED
  BY <1>1, <1>3, <1>4, StatusStep DEF RecordPart

LEMMA PutRowKeeps ==
  ASSUME UploadInv, NEW c \in Calls, PutRow(c)
  PROVE  UploadInv'
<1>1. PICK call \in Call : call = calls[c] /\ CallFits(call) /\ call.pc = "put_row"
  BY DEF UploadInv, CallsTyped, CallsFit, PutRow, At
<1>2. /\ call.s \in Sessions /\ Exists(call.s) /\ call.part \in PartNumbers
      /\ call.s \in Resumable => <<call.s, call.part>> \in There
  BY <1>1 DEF CallFits, Exists
<1>3. PICK size \in Nat : size = Len(call.data)
  BY DEF Call, Content
<1>4. RecordPart(call.s, call.part, size)
  BY <1>1, <1>3 DEF PutRow
<1>5. calls' = [calls EXCEPT ![c] = NoCall] /\ NoCall.pc = "idle"
  BY DEF PutRow, Return, Go, NoCall
<1>6. PICK s \in Sessions, n \in PartNumbers : s = call.s /\ n = call.part
  BY <1>2
<1> QED
  BY <1>2, <1>4, <1>5, <1>6, NoCallFits, RecordPartKeeps DEF PutRow

LEMMA RecordRemotePartKeeps ==
  ASSUME UploadInv, NEW c \in Calls, RecordRemotePart(c)
  PROVE  UploadInv'
<1>1. PICK call \in Call :
        call = calls[c] /\ CallFits(call) /\ call.pc \in {"refresh", "complete"}
  BY DEF UploadInv, CallsTyped, CallsFit, RecordRemotePart
<1>2. PICK row \in call.todo :
        RecordPart(call.s, row[1], row[2]) /\ Go(c, [call EXCEPT !.todo = @ \ {row}])
  BY <1>1 DEF RecordRemotePart
<1>3. /\ call.s \in Sessions /\ Exists(call.s) /\ row[1] \in PartNumbers /\ row[2] \in Nat
      /\ call.s \in Resumable => <<call.s, row[1]>> \in There
  BY <1>1 DEF CallFits, Exists, Call
<1>4. PICK rec : rec = [call EXCEPT !.todo = @ \ {row}]
  OBVIOUS
<1>5. /\ rec \in Call /\ rec.pc = call.pc /\ rec.s = call.s /\ rec.todo \subseteq call.todo
      /\ rec.saw = call.saw
  BY <1>4 DEF Call
<1>6. CallFits(rec)
  BY <1>1, <1>5 DEF CallFits, LocalCalls, RemoteCalls, Completions
<1>7. calls' = [calls EXCEPT ![c] = rec]
  BY <1>2, <1>4 DEF Go
<1>8. PICK s \in Sessions, n \in PartNumbers, size \in Nat :
        s = call.s /\ n = row[1] /\ size = row[2]
  BY <1>3
<1> QED
  BY <1>1, <1>2, <1>3, <1>5, <1>6, <1>7, <1>8, RecordPartKeeps DEF RecordRemotePart

-----------------------------------------------------------------------------
\* The steps that touch the stored parts or the object store.

LEMMA StoreStep ==
  ASSUME UploadInv, NEW c \in Calls, NEW rec \in Call, calls' = [calls EXCEPT ![c] = rec],
         CallFits(rec)', rec.pc # "assemble", PartsKept,
         staged' \in [Sessions -> [PartNumbers -> Content \cup {None}]],
         remote' \in [Sessions -> {"none", "open", "closed", "aborted"}],
         \A t \in Sessions : remote'[t] # "none" => sessions[t].backend = "s3",
         UNCHANGED <<sessions, parts, files, ingested, clashed>>
  PROVE  UploadInv'
<1> USE DEF UploadInv
<1>1. RowsKept
  BY DEF RowsKept, Exists
<1>2. CallsTyped' /\ CallsFit'
  BY <1>1, CallsStayFit
<1>3. NamesAreExclusive'
  BY NamesStayExclusive
<1>4. ClaimsFit' /\ AnnouncedContentKept'
  BY <1>1, ClaimsStayFit
<1>5. TablesTyped'
  BY DEF TablesTyped
<1>6. RowsFit'
  BY DEF RowsFit, Exists
<1>7. RecordedPartsAreStaged'
  BY DEF RecordedPartsAreStaged, Present, PartsKept
<1> QED
  BY <1>2, <1>3, <1>4, <1>5, <1>6, <1>7

\* What the client names and the object store has not is alleged from then on.
LEMMA BringPartsKeeps ==
  ASSUME UploadInv, NEW c \in Calls, NEW s \in Sessions, NEW named \in SUBSET PartNumbers,
         BringParts(c, s, named)
  PROVE  UploadInv'
<1> DEFINE new == [Started(s, "complete") EXCEPT !.named = named, !.todo = named \X {0}]
<1>1. PICK rec : rec = new
  OBVIOUS
<1>2. sessions[s].status \in Statuses /\ sessions[s].backend = "s3"
  BY DEF BringParts, UploadInv, TablesTyped, SessionRow
<1>3. sessions[s].status # "absent"
  BY <1>2, NoneAssumption DEF UploadInv, RowsFit, Exists
<1>4. /\ rec \in Call /\ rec.pc = "complete" /\ rec.s = s /\ rec.todo = named \X {0}
      /\ rec.saw = sessions[s].status
  <2>1. named \X {0} \in SUBSET (PartNumbers \X Nat)
    OBVIOUS
  <2> QED
    BY <1>1, <1>2, <2>1, ContentFacts DEF Started, NoCall, Call, RemoteCalls
<1>5. \A n \in named : <<s, n>> \in There'
  BY DEF There, BringParts, Present
<1>6. CallFits(rec)'
  <2>1. \A part \in rec.todo : <<s, part[1]>> \in There'
    BY <1>4, <1>5
  <2>2. sessions' = sessions
    BY DEF BringParts
  <2> QED
    BY <1>2, <1>3, <1>4, <2>1, <2>2 DEF CallFits, LocalCalls, RemoteCalls, Completions
<1>7. calls' = [calls EXCEPT ![c] = rec]
  BY <1>1 DEF BringParts, Go
<1>8. PartsKept
  BY DEF PartsKept, Resumable, There, BringParts
<1>9. /\ staged' \in [Sessions -> [PartNumbers -> Content \cup {None}]]
      /\ remote' \in [Sessions -> {"none", "open", "closed", "aborted"}]
      /\ \A t \in Sessions : remote'[t] # "none" => sessions[t].backend = "s3"
  BY DEF BringParts, UploadInv, TablesTyped, RowsFit
<1> QED
  BY <1>4, <1>6, <1>7, <1>8, <1>9, StoreStep DEF BringParts

LEMMA PutFileKeeps ==
  ASSUME UploadInv, NEW c \in Calls, PutFile(c)
  PROVE  UploadInv'
<1>1. PICK call \in Call : call = calls[c] /\ CallFits(call) /\ call.pc = "put_file"
  BY DEF UploadInv, CallsTyped, CallsFit, PutFile, At
<1>2. PICK s \in Sessions, n \in PartNumbers, d \in Content :
        s = call.s /\ n = call.part /\ d = call.data
  BY <1>1 DEF CallFits, Call
<1>3. d # None
  BY NoneAssumption DEF Content
<1>4. staged' = [staged EXCEPT ![s][n] = d]
  BY <1>1, <1>2 DEF PutFile
<1>5. /\ staged' \in [Sessions -> [PartNumbers -> Content \cup {None}]]
      /\ staged'[s][n] = d
      /\ \A t \in Sessions, m \in PartNumbers : staged[t][m] # None => staged'[t][m] # None
  BY <1>3, <1>4 DEF UploadInv, TablesTyped
<1>6. PartsKept
  BY <1>5 DEF PartsKept, PutFile, Resumable, There
<1>7. PICK rec : rec = [call EXCEPT !.pc = "put_row"]
  OBVIOUS
<1>8. rec \in Call /\ rec.pc = "put_row" /\ rec.s = s /\ rec.part = n /\ rec.saw = call.saw
  BY <1>2, <1>7 DEF Call, LocalCalls
<1>9. CallFits(rec)'
  BY <1>1, <1>2, <1>3, <1>5, <1>8
     DEF CallFits, PutFile, Resumable, There, LocalCalls, RemoteCalls, Completions
<1>10. calls' = [calls EXCEPT ![c] = rec]
  BY <1>1, <1>7 DEF PutFile, Go
<1>11. /\ remote' \in [Sessions -> {"none", "open", "closed", "aborted"}]
       /\ \A t \in Sessions : remote'[t] # "none" => sessions[t].backend = "s3"
  BY DEF PutFile, UploadInv, TablesTyped, RowsFit
<1> QED
  BY <1>5, <1>6, <1>8, <1>9, <1>10, <1>11, StoreStep DEF PutFile

LEMMA CloseRemoteKeeps ==
  ASSUME UploadInv, NEW c \in Calls, CloseRemote(c)
  PROVE  UploadInv'
<1>1. PICK call \in Call : call = calls[c] /\ CallFits(call) /\ call.pc = "complete"
  BY DEF UploadInv, CallsTyped, CallsFit, CloseRemote, At
<1>2. PICK s \in Sessions : s = call.s /\ sessions[s].backend = "s3"
  BY <1>1 DEF CallFits, RemoteCalls
<1>3. CASE Acceptable(call) /\ remote' = [remote EXCEPT ![s] = "closed"]
             /\ staged' = [staged EXCEPT ![s] = OnlyNamed(call)]
             /\ purged' = purged \cup {s}
             /\ Go(c, [call EXCEPT !.pc = "mark"])
  <2>1. PICK rec : rec = [call EXCEPT !.pc = "mark"]
    OBVIOUS
  <2>2. rec \in Call /\ rec.pc = "mark" /\ rec.s = s
    BY <1>2, <2>1 DEF Call, RemoteCalls
  <2>3. CallFits(rec)'
    BY <1>1, <1>2, <2>2 DEF CallFits, CloseRemote, LocalCalls, RemoteCalls, Completions
  <2>4. calls' = [calls EXCEPT ![c] = rec]
    BY <1>3, <2>1 DEF Go
  <2>5. /\ remote' \in [Sessions -> {"none", "open", "closed", "aborted"}]
        /\ \A t \in Sessions : remote'[t] # "none" => sessions[t].backend = "s3"
    BY <1>2, <1>3 DEF UploadInv, TablesTyped, RowsFit
  <2>6. OnlyNamed(call) \in [PartNumbers -> Content \cup {None}]
    BY <1>2 DEF OnlyNamed, UploadInv, TablesTyped
  <2>7. staged' \in [Sessions -> [PartNumbers -> Content \cup {None}]]
    BY <1>3, <2>6 DEF UploadInv, TablesTyped
  <2>8. PartsKept
    \* The upload of s is closed, and those of the others are left alone.
    BY <1>3 DEF PartsKept, Resumable, There, CloseRemote, UploadInv, TablesTyped
  <2> QED
    BY <2>2, <2>3, <2>4, <2>5, <2>7, <2>8, StoreStep DEF CloseRemote
<1>4. CASE Return(c) /\ UNCHANGED <<remote, staged, purged>>
  BY <1>4, ReturnKeeps DEF CloseRemote
<1> QED
  BY <1>1, <1>2, <1>3, <1>4 DEF CloseRemote

LEMMA AbortFilesKeeps ==
  ASSUME UploadInv, NEW c \in Calls, NEW s \in Sessions, AbortFiles(c, s)
  PROVE  UploadInv'
<1>1. PICK rec : rec = Started(s, "abort")
  OBVIOUS
<1>2. sessions[s].status \in Statuses /\ sessions[s].status # "absent"
  BY DEF AbortFiles, Exists, UploadInv, TablesTyped, SessionRow
<1>3. rec \in Call /\ rec.pc = "abort" /\ rec.s = s
  BY <1>1, <1>2, ContentFacts DEF Started, NoCall, Call
<1>4. CallFits(rec)'
  BY <1>2, <1>3 DEF CallFits, AbortFiles, LocalCalls, RemoteCalls, Completions
<1>5. calls' = [calls EXCEPT ![c] = rec]
  BY <1>1 DEF AbortFiles, Go
<1>6. /\ remote' \in [Sessions -> {"none", "open", "closed", "aborted"}]
      /\ \A t \in Sessions : remote'[t] # "none" => sessions[t].backend = "s3"
  BY DEF AbortFiles, UploadInv, TablesTyped, RowsFit
<1>7. NoParts \in [PartNumbers -> Content \cup {None}]
  BY DEF NoParts
<1>8. staged' \in [Sessions -> [PartNumbers -> Content \cup {None}]]
  BY <1>7 DEF AbortFiles, UploadInv, TablesTyped
<1>9. PartsKept
  BY DEF PartsKept, Resumable, There, AbortFiles, UploadInv, TablesTyped
<1> QED
  BY <1>3, <1>4, <1>5, <1>6, <1>8, <1>9, StoreStep DEF AbortFiles

LEMMA ClientPutsObjectKeeps ==
  ASSUME UploadInv, NEW s \in Sessions, NEW n \in PartNumbers, NEW d \in PartData[s],
         ClientPutsObject(s, n, d)
  PROVE  UploadInv'
<1> USE DEF UploadInv
<1>1. d \in Content /\ d # None
  BY BodyFacts
<1>2. /\ staged' \in [Sessions -> [PartNumbers -> Content \cup {None}]]
      /\ \A t \in Sessions, m \in PartNumbers : staged[t][m] # None => staged'[t][m] # None
  BY <1>1 DEF ClientPutsObject, TablesTyped
<1>3. PartsKept /\ RowsKept
  BY <1>2 DEF PartsKept, RowsKept, ClientPutsObject, Exists, Resumable, There
<1>4. CallsTyped' /\ CallsFit' /\ NamesAreExclusive'
  BY <1>3, AllCallsStayFit DEF ClientPutsObject
<1>5. ClaimsFit' /\ AnnouncedContentKept'
  BY <1>3, ClaimsStayFit DEF ClientPutsObject
<1>6. TablesTyped'
  BY <1>2 DEF TablesTyped, ClientPutsObject
<1>7. RowsFit'
  BY DEF RowsFit, Exists, ClientPutsObject
<1>8. RecordedPartsAreStaged'
  BY <1>2 DEF RecordedPartsAreStaged, Present, Resumable, There, ClientPutsObject
<1> QED
  BY <1>4, <1>5, <1>6, <1>7, <1>8

-----------------------------------------------------------------------------
\* Creating a session.

LEMMA CreateSessionKeeps ==
  ASSUME UploadInv, NEW c \in Calls, NEW s \in Sessions, NEW r \in Requests[s],
         CreateSession(c, s, r)
  PROVE  UploadInv'
<1> USE DEF UploadInv
<1>1. PICK row : row =
        [status |-> "created", filename |-> r.filename, size_bytes |-> r.size_bytes,
         sha256 |-> r.sha256, announced |-> r.sha256, backend |-> r.backend,
         completed_path |-> None]
  OBVIOUS
<1>2. /\ row \in SessionRow /\ row.status = "created" /\ row.filename \in Filenames
      /\ row.backend \in {"local", "s3"} /\ row.backend = r.backend
      /\ row.sha256 = row.announced
  BY <1>1, RequestFacts DEF SessionRow, Statuses
<1>3. ~Exists(s) /\ sessions' = [sessions EXCEPT ![s] = row]
  BY <1>1 DEF CreateSession
<1>4. /\ sessions' \in [Sessions -> SessionRow]
      /\ sessions'[s] = row /\ \A t \in Sessions : t # s => sessions'[t] = sessions[t]
  BY <1>2, <1>3 DEF TablesTyped
<1>5. RowsKept /\ PartsKept
  BY <1>3, <1>4 DEF RowsKept, PartsKept, Resumable, There, CreateSession, Exists
<1>6. CallsTyped' /\ CallsFit' /\ NamesAreExclusive'
  <2>1. CASE r.backend = "s3"
    <3>1. PICK rec : rec = [NoCall EXCEPT !.pc = "begin", !.s = s]
      OBVIOUS
    <3>2. rec \in Call /\ rec.pc = "begin" /\ rec.s = s /\ rec.saw = "absent"
      BY <3>1, ContentFacts DEF NoCall, Call, RemoteCalls, Statuses
    <3>3. CallFits(rec)'
      BY <1>2, <1>4, <2>1, <3>2 DEF CallFits, LocalCalls, RemoteCalls, Completions
    <3>4. calls' = [calls EXCEPT ![c] = rec]
      BY <2>1, <3>1 DEF CreateSession, Go
    <3>5. CallsTyped' /\ CallsFit'
      BY <1>5, <3>2, <3>3, <3>4, CallsStayFit DEF CreateSession
    <3>6. NamesAreExclusive'
      BY <3>2, <3>4, NamesStayExclusive DEF CreateSession
    <3> QED
      BY <3>5, <3>6
  <2>2. CASE r.backend # "s3"
    BY <1>5, <2>2, AllCallsStayFit DEF CreateSession
  <2> QED
    BY <2>1, <2>2
<1>7. ClaimsFit' /\ AnnouncedContentKept'
  <2>1. \A t \in Sessions : sessions'[t].status = "complete" => sessions'[t] = sessions[t]
    BY <1>2, <1>4
  <2> QED
    BY <1>5, <2>1, ClaimsStayFit DEF CreateSession
<1>8. TablesTyped'
  BY <1>4 DEF TablesTyped, CreateSession
<1>9. RowsFit'
  <2>1. remote[s] = "none"
    BY <1>3, NoneAssumption DEF RowsFit, TablesTyped
  <2> QED
    BY <1>2, <1>4, <2>1, NoneAssumption DEF RowsFit, Exists, CreateSession
<1>10. RecordedPartsAreStaged'
  BY DEF RecordedPartsAreStaged, Present, Resumable, There, CreateSession
<1> QED
  BY <1>6, <1>7, <1>8, <1>9, <1>10

-----------------------------------------------------------------------------
\* The completion of a local session.

LEMMA PickNameKeeps ==
  ASSUME UploadInv, NEW c \in Calls, PickName(c)
  PROVE  UploadInv'
<1> USE DEF UploadInv
<1>1. PICK call \in Call : call = calls[c] /\ CallFits(call) /\ call.pc = "pick"
  BY DEF CallsTyped, CallsFit, PickName, At
<1>2. PICK s \in Sessions : s = call.s /\ Exists(s) /\ Local(s)
  BY <1>1 DEF CallFits, LocalCalls, Exists, Local
<1>3. PICK p \in Paths :
        /\ FreeName(sessions[s].filename, p)
        /\ Go(c, [call EXCEPT !.pc = "assemble", !.path = p,
                             !.todo = {<<n, parts[s][n]>> : n \in Present(parts[s])}])
        /\ clashed' = IF Holding(p) = {} THEN clashed ELSE clashed \cup {sessions[s].filename}
  BY <1>1, <1>2 DEF PickName
<1>4. PICK rec : rec = [call EXCEPT !.pc = "assemble", !.path = p,
                          !.todo = {<<n, parts[s][n]>> : n \in Present(parts[s])}]
  OBVIOUS
<1>5. \A part \in {<<n, parts[s][n]>> : n \in Present(parts[s])} : part \in PartNumbers \X Nat
  <2>1. \A n \in PartNumbers : parts[s][n] \in Nat \cup {None}
    BY DEF TablesTyped
  <2> QED
    BY <2>1 DEF Present
<1>6. /\ rec \in Call /\ rec.pc = "assemble" /\ rec.s = s /\ rec.path = p /\ rec.sha = call.sha
      /\ rec.saw = call.saw
  BY <1>1, <1>2, <1>4, <1>5 DEF Call, LocalCalls
<1>7. p[1] = sessions[s].filename /\ files[p] = None
  BY <1>3 DEF FreeName
<1>8. CallFits(rec)'
  BY <1>1, <1>2, <1>6, <1>7
     DEF CallFits, PickName, LocalCalls, RemoteCalls, Completions
<1>9. calls' = [calls EXCEPT ![c] = rec] /\ clashed \subseteq clashed'
  BY <1>3, <1>4 DEF Go
<1>10. RowsKept /\ PartsKept
  BY DEF RowsKept, PartsKept, Resumable, There, PickName, Exists
<1>11. CallsTyped' /\ CallsFit'
  BY <1>6, <1>8, <1>9, <1>10, CallsStayFit DEF PickName
<1>12. NamesAreExclusive'
  <2>1. \A b \in Calls : b # c => calls'[b] = calls[b]
    BY <1>9 DEF CallsTyped
  <2>2. calls'[c] = rec
    BY <1>9 DEF CallsTyped
  <2>3. ASSUME NEW b \in Calls, b # c, At(b, "assemble"), calls[b].path = p
        PROVE  sessions[s].filename \in clashed'
    BY <1>3, <2>3 DEF Holding
  <2> QED
    BY <1>6, <1>7, <1>9, <2>1, <2>2, <2>3 DEF NamesAreExclusive, At
<1>13. ClaimsFit' /\ AnnouncedContentKept'
  BY <1>9, <1>10, ClaimsStayFit DEF PickName
<1>14. TablesTyped'
  BY DEF TablesTyped, PickName
<1>15. RowsFit'
  BY DEF RowsFit, Exists, PickName
<1>16. RecordedPartsAreStaged'
  BY DEF RecordedPartsAreStaged, Present, Resumable, There, PickName
<1> QED
  BY <1>11, <1>12, <1>13, <1>14, <1>15, <1>16

\* Publishing replaces no file that anyone counts on, unless the name clashed.
LEMMA PublishKeeps ==
  ASSUME UploadInv, NEW c \in Calls, Publish(c)
  PROVE  UploadInv'
<1> USE DEF UploadInv
<1>1. PICK call \in Call : call = calls[c] /\ CallFits(call) /\ call.pc = "assemble"
  BY DEF CallsTyped, CallsFit, Publish, At
<1>2. CASE ~Verified(call)
  BY <1>1, <1>2, ReturnKeeps DEF Publish
<1>3. CASE Verified(call)
  <2>1. PICK s \in Sessions, p \in Paths, d \in Content :
          s = call.s /\ p = call.path /\ d = call.data
    BY <1>1 DEF CallFits, Call
  <2>2. /\ Exists(s) /\ Local(s) /\ p[1] = sessions[s].filename
        /\ p[1] \notin clashed => files[p] = None
        /\ sessions[s].announced # None => call.sha = sessions[s].announced
    BY <1>1, <2>1 DEF CallFits, LocalCalls, Completions, Exists, Local
  <2>3. sessions[s].announced # None => d = sessions[s].announced
    BY <1>3, <2>1, <2>2 DEF Verified
  <2>4. files' = [files EXCEPT ![p] = d] /\ calls' = [calls EXCEPT ![c] = [call EXCEPT !.pc = "record"]]
    BY <1>1, <1>3, <2>1 DEF Publish, Go
  <2>5. /\ files' \in [Paths -> Content \cup {None}]
        /\ files'[p] = d /\ \A q \in Paths : q # p => files'[q] = files[q]
    BY <2>4 DEF TablesTyped
  <2>6. PICK rec : rec = [call EXCEPT !.pc = "record"]
    OBVIOUS
  <2>7. /\ rec \in Call /\ rec.pc = "record" /\ rec.s = s /\ rec.path = p /\ rec.sha = call.sha
        /\ rec.saw = call.saw
    BY <2>1, <2>6 DEF Call, LocalCalls
  <2>8. CallFits(rec)'
    BY <2>2, <2>3, <2>5, <2>7
       DEF CallFits, Publish, LocalCalls, RemoteCalls, Completions, Exists, Local
  <2>9. RowsKept /\ PartsKept
    BY DEF RowsKept, PartsKept, Resumable, There, Publish, Exists
  <2>10. ASSUME NEW b \in Calls, b # c, Holds(calls[b])
         PROVE  files'[calls[b].path] = files[calls[b].path] \/ calls[b].path[1] \in clashed
    <3>1. PICK other \in Call : other = calls[b] /\ CallFits(other)
      BY DEF CallsTyped, CallsFit
    <3>2. CASE other.path # p
      BY <2>5, <2>10, <3>1, <3>2 DEF Holds
    <3>3. CASE other.path = p /\ other.pc = "assemble"
      BY <1>1, <2>1, <2>10, <3>1, <3>3 DEF NamesAreExclusive, At
    <3>4. CASE other.path = p /\ other.pc = "record" /\ p[1] \notin clashed
      \* The other call's file has its content, so that the name is not free.
      <4>1. other.s \in Sessions /\ sessions[other.s].announced # None
        BY <2>10, <3>1, <3>4 DEF Holds, CallFits
      <4>2. files[p] = sessions[other.s].announced
        BY <2>2, <3>1, <3>4, <4>1 DEF CallFits
      <4> QED
        BY <2>2, <3>4, <4>1, <4>2
    <3> QED
      BY <2>10, <3>1, <3>2, <3>3, <3>4 DEF Holds
  <2>11. CallsTyped' /\ CallsFit'
    <3>1. calls' = [calls EXCEPT ![c] = rec] /\ clashed \subseteq clashed'
      BY <2>4, <2>6, <1>1 DEF Publish
    <3> QED
      BY <2>7, <2>8, <2>9, <2>10, <3>1, CallsStayFit
  <2>12. NamesAreExclusive'
    BY <2>4, <2>6, <2>7, NamesStayExclusive DEF Publish
  <2>13. AnnouncedContentKept'
    <3>1. ASSUME NEW t \in Sessions, Local(t), sessions[t].announced # None,
                 sessions[t].filename \notin clashed, NEW q \in Claimed(t)
          PROVE  files'[q] = sessions[t].announced
      <4>1. q \in Paths /\ q[1] = sessions[t].filename /\ files[q] = sessions[t].announced
        BY <3>1 DEF ClaimsFit, AnnouncedContentKept
      <4>2. q # p
        BY <2>2, <3>1, <4>1
      <4> QED
        BY <2>5, <4>1, <4>2
    <3>2. UNCHANGED <<sessions, ingested, clashed>>
      BY DEF Publish
    <3> QED
      BY <3>1, <3>2 DEF AnnouncedContentKept, Local, Claimed
  <2>14. ClaimsFit'
    BY DEF ClaimsFit, Exists, Local, Claimed, Publish
  <2>15. TablesTyped'
    BY <2>5 DEF TablesTyped, Publish
  <2>16. RowsFit'
    BY DEF RowsFit, Exists, Publish
  <2>17. RecordedPartsAreStaged'
    BY DEF RecordedPartsAreStaged, Present, Resumable, There, Publish
  <2> QED
    BY <2>11, <2>12, <2>13, <2>14, <2>15, <2>16, <2>17
<1> QED
  BY <1>2, <1>3

LEMMA RecordCompleteKeeps ==
  ASSUME UploadInv, NEW c \in Calls, RecordComplete(c)
  PROVE  UploadInv'
<1> USE DEF UploadInv
<1>1. PICK call \in Call : call = calls[c] /\ CallFits(call) /\ call.pc = "record"
  BY DEF CallsTyped, CallsFit, RecordComplete, At
<1>2. PICK s \in Sessions, p \in Paths, d \in Content :
        s = call.s /\ p = call.path /\ d = call.data
  BY <1>1 DEF CallFits, Call
<1>3. /\ Exists(s) /\ Local(s) /\ p[1] = sessions[s].filename
      /\ sessions[s].announced # None /\ sessions[s].filename \notin clashed =>
           files[p] = sessions[s].announced
  BY <1>1, <1>2 DEF CallFits, LocalCalls, Exists, Local
<1>4. PICK row : row =
        [sessions[s] EXCEPT !.status = "complete", !.completed_path = p,
                            !.sha256 = IF @ = None THEN d ELSE @]
  OBVIOUS
<1>5. sessions[s] \in SessionRow
  BY DEF TablesTyped
<1>6. /\ row \in SessionRow /\ row.status = "complete" /\ row.completed_path = p
      /\ row.filename = sessions[s].filename /\ row.announced = sessions[s].announced
      /\ row.backend = sessions[s].backend
      /\ row.announced # None => row.sha256 = row.announced
  <2>1. p \in AnyPath /\ (sessions[s].announced # None => sessions[s].sha256 = sessions[s].announced)
    BY DEF AnyPath, RowsFit
  <2> QED
    BY <1>4, <1>5, <2>1 DEF SessionRow, Statuses
<1>7. sessions' = [sessions EXCEPT ![s] = row]
  BY <1>1, <1>2, <1>4 DEF RecordComplete, TablesTyped
<1>8. /\ sessions' \in [Sessions -> SessionRow]
      /\ sessions'[s] = row /\ \A t \in Sessions : t # s => sessions'[t] = sessions[t]
  BY <1>6, <1>7 DEF TablesTyped
<1>9. RowsKept /\ PartsKept
  BY <1>6, <1>8 DEF RowsKept, PartsKept, Resumable, There, RecordComplete, Exists
<1>10. calls' = [calls EXCEPT ![c] = NoCall] /\ NoCall.pc # "assemble"
  BY DEF RecordComplete, Return, Go, NoCall
<1>11. CallsTyped' /\ CallsFit'
  BY <1>9, <1>10, NoCallFits, CallsStayFit DEF RecordComplete
<1>12. NamesAreExclusive'
  BY <1>10, NoCallFits, NamesStayExclusive DEF RecordComplete
<1>13. ASSUME NEW t \in Sessions, Local(t)', NEW q \in Claimed(t)'
       PROVE  /\ Local(t) /\ (q \in Claimed(t) \/ (t = s /\ q = p))
              /\ sessions'[t].filename = sessions[t].filename
              /\ sessions'[t].announced = sessions[t].announced
  BY <1>6, <1>8, <1>13 DEF Claimed, Local, RecordComplete
<1>14. ClaimsFit'
  <2>1. \A i \in ingested' : Exists(i[1])'
    BY <1>9 DEF ClaimsFit, TablesTyped, RowsKept, Exists, RecordComplete
  <2> QED
    BY <1>3, <1>13, <2>1 DEF ClaimsFit
<1>15. AnnouncedContentKept'
  <2>1. files' = files /\ clashed' = clashed
    BY DEF RecordComplete
  <2> QED
    BY <1>3, <1>13, <2>1 DEF AnnouncedContentKept
<1>16. TablesTyped'
  BY <1>8 DEF TablesTyped, RecordComplete
<1>17. RowsFit'
  <2>1. RowsFit /\ remote' = remote /\ row.completed_path # None
    BY <1>6, NoneAssumption DEF RecordComplete
  <2>2. row.filename \in Filenames /\ row.backend # None
    BY <1>3, <1>6, <2>1 DEF RowsFit, Exists
  <2> HIDE DEF UploadInv
  <2> QED
    BY <1>6, <1>8, <2>1, <2>2 DEF RowsFit, Exists
<1>18. RecordedPartsAreStaged'
  BY DEF RecordedPartsAreStaged, Present, Resumable, There, RecordComplete
<1> QED
  BY <1>11, <1>12, <1>14, <1>15, <1>16, <1>17, <1>18

LEMMA MarkRemoteCompleteKeeps ==
  ASSUME UploadInv, NEW c \in Calls, MarkRemoteComplete(c)
  PROVE  UploadInv'
<1> USE DEF UploadInv
<1>1. PICK s \in Sessions : s = calls[c].s /\ Exists(s) /\ sessions[s].backend = "s3"
  BY DEF MarkRemoteComplete, At, CallsFit, CallFits, RemoteCalls, Exists
<1>2. PICK row : row = [sessions[s] EXCEPT !.status = "complete", !.completed_path = RemotePath(s)]
  OBVIOUS
<1>3. sessions[s] \in SessionRow
  BY DEF TablesTyped
<1>4. /\ row \in SessionRow /\ row.status = "complete" /\ row.completed_path = RemotePath(s)
      /\ row.filename = sessions[s].filename /\ row.announced = sessions[s].announced
      /\ row.sha256 = sessions[s].sha256 /\ row.backend = "s3"
  <2>1. RemotePath(s) \in AnyPath
    BY DEF AnyPath
  <2> QED
    BY <1>1, <1>2, <1>3, <2>1 DEF SessionRow, Statuses
<1>5. sessions' = [sessions EXCEPT ![s] = row]
  BY <1>1, <1>2 DEF MarkRemoteComplete, TablesTyped
<1>6. /\ sessions' \in [Sessions -> SessionRow]
      /\ sessions'[s] = row /\ \A t \in Sessions : t # s => sessions'[t] = sessions[t]
  BY <1>4, <1>5 DEF TablesTyped
<1>7. RowsKept /\ PartsKept
  BY <1>1, <1>4, <1>6 DEF RowsKept, PartsKept, Resumable, There, MarkRemoteComplete, Exists
<1>8. calls' = [calls EXCEPT ![c] = NoCall] /\ NoCall.pc # "assemble"
  BY DEF MarkRemoteComplete, Return, Go, NoCall
<1>9. CallsTyped' /\ CallsFit'
  BY <1>7, <1>8, NoCallFits, CallsStayFit DEF MarkRemoteComplete
<1>10. NamesAreExclusive'
  BY <1>8, NoCallFits, NamesStayExclusive DEF MarkRemoteComplete
<1>11. ClaimsFit' /\ AnnouncedContentKept'
  <2>1. \A t \in Sessions : sessions[t].backend # "s3" => sessions'[t] = sessions[t]
    BY <1>1, <1>6
  <2> QED
    BY <1>7, <2>1, ClaimsStayFit DEF MarkRemoteComplete
<1>12. TablesTyped'
  BY <1>6 DEF TablesTyped, MarkRemoteComplete
<1>13. RowsFit'
  BY <1>1, <1>4, <1>6, NoneAssumption DEF RowsFit, Exists, MarkRemoteComplete
<1>14. RecordedPartsAreStaged'
  BY DEF RecordedPartsAreStaged, Present, Resumable, There, MarkRemoteComplete
<1> QED
  BY <1>9, <1>10, <1>11, <1>12, <1>13, <1>14

-----------------------------------------------------------------------------
\* Ingesting, and the end of the process.

LEMMA IngestSessionKeeps ==
  ASSUME UploadInv, NEW s \in Sessions, IngestSession(s)
  PROVE  UploadInv'
<1> USE DEF UploadInv
<1>1. /\ sessions[s].status = "complete" /\ sessions[s].completed_path \in AnyPath
      /\ ingested' = ingested \cup {<<s, sessions[s].completed_path>>}
  BY DEF IngestSession, TablesTyped, SessionRow
<1>2. RowsKept /\ PartsKept
  BY DEF RowsKept, PartsKept, Resumable, There, IngestSession, Exists
<1>3. CallsTyped' /\ CallsFit' /\ NamesAreExclusive'
  BY <1>2, AllCallsStayFit DEF IngestSession
<1>4. \A t \in Sessions : Claimed(t)' = Claimed(t)
  <2>1. ASSUME NEW t \in Sessions, NEW p
        PROVE  p \in Claimed(t)' <=> p \in Claimed(t)
    BY <1>1 DEF Claimed, IngestSession
  <2> QED
    BY <2>1
<1>5. ClaimsFit'
  BY <1>1, <1>4 DEF ClaimsFit, Exists, Local, IngestSession
<1>6. AnnouncedContentKept'
  BY <1>4 DEF AnnouncedContentKept, Local, IngestSession
<1>7. TablesTyped'
  BY <1>1 DEF TablesTyped, IngestSession
<1>8. RowsFit'
  BY DEF RowsFit, Exists, IngestSession
<1>9. RecordedPartsAreStaged'
  BY DEF RecordedPartsAreStaged, Present, Resumable, There, IngestSession
<1> QED
  BY <1>3, <1>5, <1>6, <1>7, <1>8, <1>9

LEMMA ServerDiesKeeps ==
  ASSUME UploadInv, ServerDies
  PROVE  UploadInv'
<1> USE DEF UploadInv
<1>1. CallsTyped' /\ CallsFit'
  BY NoCallFits DEF CallsTyped, CallsFit, CallFits, ServerDies
<1>2. NamesAreExclusive'
  BY DEF NamesAreExclusive, At, ServerDies, NoCall
<1>3. RowsKept
  BY DEF RowsKept, ServerDies, Exists
<1>4. ClaimsFit' /\ AnnouncedContentKept'
  BY <1>3, ClaimsStayFit DEF ServerDies
<1>5. TablesTyped'
  BY DEF TablesTyped, ServerDies
<1>6. RowsFit'
  BY DEF RowsFit, Exists, ServerDies
<1>7. RecordedPartsAreStaged'
  BY DEF RecordedPartsAreStaged, Present, Resumable, There, ServerDies
<1> QED
  BY <1>1, <1>2, <1>4, <1>5, <1>6, <1>7

-----------------------------------------------------------------------------
\* The invariant.

LEMMA UploadStep == UploadInv /\ [UploadNext]_uploadVars => UploadInv'
<1> SUFFICES ASSUME UploadInv, [UploadNext]_uploadVars PROVE UploadInv'
  OBVIOUS
<1>1. ASSUME NEW c \in Calls, CallStep(c) PROVE UploadInv'
  <2>1. CASE SetRemote(c)
    BY <2>1, SetRemoteKeeps
  <2>2. CASE PutFile(c)
    BY <2>2, PutFileKeeps
  <2>3. CASE PutRow(c)
    BY <2>3, PutRowKeeps
  <2>4. CASE PickName(c)
    BY <2>4, PickNameKeeps
  <2>5. CASE ReadPart(c)
    BY <2>5, ReadPartKeeps
  <2>6. CASE Publish(c)
    BY <2>6, PublishKeeps
  <2>7. CASE RecordComplete(c)
    BY <2>7, RecordCompleteKeeps
  <2>8. CASE RecordRemotePart(c)
    BY <2>8, RecordRemotePartKeeps
  <2>9. CASE RefreshDone(c)
    BY <2>9, ReturnKeeps DEF RefreshDone
  <2>10. CASE CloseRemote(c)
    BY <2>10, CloseRemoteKeeps
  <2>11. CASE MarkRemoteComplete(c)
    BY <2>11, MarkRemoteCompleteKeeps
  <2>12. CASE AbortRow(c)
    BY <2>12, AbortRowKeeps
  <2> QED
    BY <1>1, <2>1, <2>2, <2>3, <2>4, <2>5, <2>6, <2>7, <2>8, <2>9, <2>10, <2>11, <2>12 DEF CallStep
<1>2. ASSUME NEW c \in Calls, NEW s \in Sessions, NewCall(c, s) PROVE UploadInv'
  BY <1>2, CreateSessionKeeps, PutCheckKeeps, CompleteCheckKeeps, ListPartsKeeps, BringPartsKeeps,
     AbortFilesKeeps
     DEF NewCall
<1>3. ASSUME NEW s \in Sessions, NEW n \in PartNumbers, NEW d \in PartData[s],
             ClientPutsObject(s, n, d)
      PROVE  UploadInv'
  BY <1>3, ClientPutsObjectKeeps
<1>4. ASSUME NEW s \in Sessions, IngestSession(s) PROVE UploadInv'
  BY <1>4, IngestSessionKeeps
<1>5. CASE ServerDies
  BY <1>5, ServerDiesKeeps
<1>6. CASE UNCHANGED uploadVars
  BY <1>6 DEF uploadVars, UploadInv, TablesTyped, CallsTyped, RowsFit, CallsFit, CallFits,
     RecordedPartsAreStaged, NamesAreExclusive, ClaimsFit, AnnouncedContentKept,
     Exists, Local, At, Claimed, Present, Resumable, There
<1> QED
  BY <1>1, <1>2, <1>3, <1>4, <1>5, <1>6 DEF UploadNext

\* The invariant holds in every reachable state of the upload sessions.
THEOREM UploadInvariant == UploadSpec => []UploadInv
BY UploadInitially, UploadStep, PTL DEF UploadSpec

\* The rows, parts and files of UploadSessionStore are of their types, a complete row
\* has a path, and only an s3 session has a multipart upload.
THEOREM UploadsTypeCorrect == UploadSpec => []UploadTypeOK
<1>1. UploadInv => UploadTypeOK
  <2> SUFFICES ASSUME UploadInv PROVE UploadTypeOK
    OBVIOUS
  <2>1. ASSUME NEW s \in Sessions
        PROVE  /\ sessions[s].status \in Statuses
               /\ sessions[s].status = "complete" => sessions[s].completed_path # None
               /\ remote[s] # "none" => sessions[s].backend = "s3"
               /\ \A n \in PartNumbers :
                    /\ parts[s][n] \in Nat \cup {None}
                    /\ staged[s][n] # None => staged[s][n] \in Content
    BY DEF UploadInv, TablesTyped, SessionRow, RowsFit
  <2>2. \A p \in Paths : files[p] # None => files[p] \in Content
    BY DEF UploadInv, TablesTyped
  <2>3. \A c \in Calls : ~At(c, "idle") => Exists(calls[c].s)
    BY DEF UploadInv, CallsFit, CallFits, At, Exists
  <2> QED
    BY <2>1, <2>2, <2>3 DEF UploadTypeOK, Statuses, Content
<1> QED
  BY <1>1, UploadInvariant, PTL

\* complete_local and create_ingest_job_from_upload_sessions: the path of a completed
\* session that announced a digest holds the announced bytes, whatever was replaced,
\* aborted or completed again meanwhile, unless two completions held its name at once.
THEOREM AnnouncedContentIsKept == UploadSpec => []AnnouncedContentKept
BY UploadInvariant, PTL DEF UploadInv

\* put_local_part writes the file before the row, and of an s3 session the listing of the
\* object store is recorded: a part that the status query tells a resuming client to skip
\* is there, across every death of the server and every refused completion, but for the
\* parts that a client named itself in a completion while the store did not have them.
THEOREM RecordedPartsAreThere == UploadSpec => []RecordedPartsAreStaged
BY UploadInvariant, PTL DEF UploadInv

\* A call that is late for session s: it saw it before it was complete, or is an abort
\* or a completion that records its list.
LateStep(s) ==
  \E c \in Calls :
    /\ calls[c].s = s /\ calls'[c] # calls[c]
    /\ calls[c].pc \in {"abort", "complete"} \/ calls[c].saw # "complete"

LEMMA LateStepsLeaveComplete ==
  ASSUME UploadInv, [UploadNext]_uploadVars, NEW s \in Sessions, LeavesComplete(s)
  PROVE  LateStep(s)
<1> USE DEF UploadInv
<1>1. sessions[s].status = "complete" /\ sessions'[s].status # "complete" /\ Exists(s)
  BY DEF LeavesComplete, Exists
<1>2. ASSUME NEW c \in Calls, calls[c].s = s, calls'[c] # calls[c],
             calls[c].pc \in {"abort", "complete"} \/ calls[c].saw # "complete"
      PROVE  LateStep(s)
  BY <1>2 DEF LateStep
<1>3. ASSUME NEW c \in Calls, SetRemote(c) \/ PutRow(c) \/ AbortRow(c) PROVE LateStep(s)
  <2>1. /\ calls[c].pc \in {"begin", "put_row", "abort"}
        /\ calls' = [calls EXCEPT ![c] = NoCall]
        /\ \A t \in Sessions : t # calls[c].s => sessions'[t] = sessions[t]
    BY <1>3 DEF SetRemote, PutRow, AbortRow, At, Return, Go, RecordPart, TablesTyped
  <2>2. calls[c].pc # "abort" => calls[c].saw # "complete"
    BY <2>1 DEF CallsFit, CallFits
  <2>3. calls'[c] # calls[c]
    BY <2>1 DEF CallsTyped, NoCall
  <2> QED
    BY <1>1, <1>2, <2>1, <2>2, <2>3
<1>4. ASSUME NEW c \in Calls, RecordRemotePart(c) PROVE LateStep(s)
  <2>1. calls[c].pc \in {"refresh", "complete"} /\ calls[c] \in Call
    BY <1>4 DEF RecordRemotePart, CallsTyped
  <2>2. PICK row \in calls[c].todo :
          /\ RecordPart(calls[c].s, row[1], row[2])
          /\ Go(c, [calls[c] EXCEPT !.todo = @ \ {row}])
    BY <1>4 DEF RecordRemotePart
  <2>3. calls'[c].todo = calls[c].todo \ {row}
    BY <2>1, <2>2 DEF Go, CallsTyped, Call
  <2>4. calls'[c] # calls[c]
    BY <2>2, <2>3
  <2>5. \A t \in Sessions : t # calls[c].s => sessions'[t] = sessions[t]
    BY <2>2 DEF RecordPart, TablesTyped
  <2>6. calls[c].pc = "refresh" => calls[c].saw # "complete"
    BY <2>1 DEF CallsFit, CallFits
  <2> QED
    BY <1>1, <1>2, <2>1, <2>4, <2>5, <2>6
<1>5. ASSUME NEW c \in Calls, RecordComplete(c) \/ MarkRemoteComplete(c) PROVE FALSE
  <2>1. \A t \in Sessions : sessions'[t].status = "complete" \/ sessions'[t] = sessions[t]
    BY <1>5 DEF RecordComplete, MarkRemoteComplete, TablesTyped, SessionRow
  <2> QED
    BY <1>1, <2>1
<1>6. ASSUME NEW c \in Calls, NEW t \in Sessions, NEW r \in Requests[t],
             CreateSession(c, t, r)
      PROVE  FALSE
  BY <1>1, <1>6 DEF CreateSession, TablesTyped, Exists
<1>7. CASE sessions' = sessions
  BY <1>1, <1>7
<1>8. \/ sessions' = sessions
      \/ \E c \in Calls :
           \/ SetRemote(c) \/ PutRow(c) \/ AbortRow(c) \/ RecordRemotePart(c)
           \/ RecordComplete(c) \/ MarkRemoteComplete(c)
           \/ \E t \in Sessions : \E r \in Requests[t] : CreateSession(c, t, r)
  <2> HIDE DEF UploadInv
  <2>1. ASSUME NEW c \in Calls, CallStep(c)
        PROVE  \/ sessions' = sessions
               \/ SetRemote(c) \/ PutRow(c) \/ AbortRow(c) \/ RecordRemotePart(c)
               \/ RecordComplete(c) \/ MarkRemoteComplete(c)
    BY <2>1 DEF CallStep, PutFile, PickName, ReadPart, Publish, RefreshDone, CloseRemote
  <2>2. ASSUME NEW c \in Calls, NEW t \in Sessions, NewCall(c, t)
        PROVE  sessions' = sessions \/ \E r \in Requests[t] : CreateSession(c, t, r)
    BY <2>2 DEF NewCall, PutCheck, CompleteCheck, ListParts, BringParts, AbortFiles
  <2>3. \A t \in Sessions :
          /\ IngestSession(t) => sessions' = sessions
          /\ \A n \in PartNumbers, d \in PartData[t] :
               ClientPutsObject(t, n, d) => sessions' = sessions
    BY DEF IngestSession, ClientPutsObject
  <2>4. ServerDies \/ UNCHANGED uploadVars => sessions' = sessions
    BY DEF ServerDies, uploadVars
  <2> QED
    BY <2>1, <2>2, <2>3, <2>4 DEF UploadNext
<1> QED
  BY <1>3, <1>4, <1>5, <1>6, <1>7, <1>8

\* Only an abort, a call that saw the session before it was complete, and a second
\* completion of an s3 session take the status complete away.
THEOREM CompleteIsSticky == UploadSpec => CompleteIsLeftByLateCalls
<1>1. UploadInv /\ [UploadNext]_uploadVars =>
        [\A s \in Sessions : LeavesComplete(s) =>
           \E c \in Calls :
             /\ calls[c].s = s /\ calls'[c] # calls[c]
             /\ calls[c].pc \in {"abort", "complete"} \/ calls[c].saw # "complete"]_uploadVars
  BY LateStepsLeaveComplete DEF LateStep
<1> QED
  BY <1>1, UploadInvariant, PTL DEF UploadSpec, CompleteIsLeftByLateCalls
=============================================================================
