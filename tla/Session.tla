------------------------------ MODULE Session ------------------------------
(***************************************************************************)
(* The scan session of scantool: internal/session/session.go together with *)
(* the rows internal/store/store.go keeps for it, the scratch directory,   *)
(* the merged documents, and what a crash and a restart make of them.      *)
(*                                                                         *)
(* Two kinds of process share the Manager.  Actions run one at a time      *)
(* under runMu (variable pc is the point the running one has reached), and *)
(* each scanned page is converted by a goroutine of its own (a member of   *)
(* jobs).  A step is one visible effect: a database transaction, a file    *)
(* operation, or one critical section of mu.                               *)
(*                                                                         *)
(* Every image acquired from the scanner has a number of its own, so that  *)
(* losing, repeating or reordering a page shows.                           *)
(***************************************************************************)
EXTENDS Integers, Sequences, FiniteSets

CONSTANTS
    MaxSessions,  \* bound: sessions ever created
    MaxScans,     \* bound: images ever acquired
    MaxCrashes,   \* bound: stops of the daemon
    MaxFaults,    \* bound: operations that fail
    Faults,       \* the kinds of operation that may fail
    Commands,     \* the actions users ask for
    HasUploader   \* whether an Uploader is configured

Actions == {"scan-new", "scan-page", "finish", "finish-no-upload", "discard"}

FaultKinds ==
    {"create", "mkdir", "scan", "add-page", "process", "merge", "finish",
     "upload", "record-upload", "remove", "append-action", "find-active",
     "load-pages"}

ASSUME BoundsAssumption ==
    /\ MaxSessions \in Nat \ {0}
    /\ MaxScans \in Nat \ {0}
    /\ MaxCrashes \in Nat
    /\ MaxFaults \in Nat

ASSUME ChoicesAssumption ==
    /\ Faults \subseteq FaultKinds
    /\ Commands \subseteq Actions
    /\ HasUploader \in BOOLEAN

Sessions == 1..MaxSessions
Images   == 1..MaxScans
PageNos  == 1..MaxScans

None   == 0                  \* no session, no document
Absent == 0                  \* no such file
Torn   == MaxScans + 1       \* a file whose writer has not finished it

Contents == Images \cup {Absent, Torn}

Terminal     == {"saved", "failed", "discarded"}
RowStatuses  == Terminal \cup {"none", "active"}
EndKinds     == {"session-saved", "save-failed", "session-discarded"}
UploadKinds  == {"upload-succeeded", "upload-failed"}
Kinds        == EndKinds \cup UploadKinds \cup
                {"session-started", "page-scanned", "scan-failed",
                 "page-processed", "process-failed"}

Event == [kind : Kinds, session : Sessions, page : Nat]

Converting == {"convert", "write"}   \* before and while img2pdf writes the page
Stages     == Converting \cup {"converted", "broken", "count", "release"}

Job == [session : Sessions, page : PageNos, image : Images, stage : Stages]

Points ==
    {"down", "ready", "scan", "create", "mkdir", "begin", "acquire",
     "scan-failed", "add-page", "append", "refresh", "finish", "merge", "record-failed",
     "record-saved", "upload", "remove-saved", "discard", "record-discarded",
     "remove-discarded"}

VARIABLES
    \* The database (store.go).
    rowStatus,  \* sessions.status by id
    rowOutput,  \* sessions.output_path, as an index of docs
    rowUpload,  \* sessions.upload_status
    rowPages,   \* the pages table: the page numbers recorded by session
    lastId,     \* the last id AUTOINCREMENT handed out
    log,        \* the actions table, in order of id
    \* The disk.
    dirs,       \* the sessions that have a scratch directory
    files,      \* its page files: what page-NNN.pdf of a session holds
    docs,       \* the documents in OutDir, in order of creation
    \* The Manager.
    cur,        \* m.cur.id, or None
    pages,      \* m.cur.pages, as page numbers
    abort,      \* m.cur.abortErr # nil
    jobs,       \* the goroutines m.cur.pending counts
    processing, \* m.state.Processing
    shown,      \* m.state.PageSizesKB[i] > 0
    status,     \* m.state.Status
    \* The action running under runMu.
    pc,         \* the point it has reached
    act,        \* which action it is
    \* History, and the counters the bounds are on.
    taken,      \* the images acknowledged into each session, in order
    dropped,    \* the sessions a user discarded
    converted,  \* the images whose PDF was completely written
    scans,      \* images acquired so far; the last is the one in memory
    crashes, faults

rowVars    == <<rowStatus, rowOutput, rowUpload, rowPages, lastId>>
diskVars   == <<dirs, files, docs>>
memoryVars == <<cur, pages, abort>>
jobVars    == <<jobs, processing, shown>>
history    == <<taken, dropped, converted>>
vars == <<rowVars, log, diskVars, memoryVars, jobVars, status, pc, act,
          history, scans, crashes, faults>>

Init ==
    /\ rowStatus = [s \in Sessions |-> "none"]
    /\ rowOutput = [s \in Sessions |-> None]
    /\ rowUpload = [s \in Sessions |-> ""]
    /\ rowPages = [s \in Sessions |-> {}]
    /\ lastId = 0
    /\ log = << >>
    /\ dirs = {} /\ docs = << >>
    /\ files = [s \in Sessions |-> [p \in PageNos |-> Absent]]
    /\ cur = None /\ pages = << >> /\ abort = FALSE
    /\ jobs = {} /\ processing = 0 /\ shown = << >>
    /\ status = "idle" /\ pc = "ready" /\ act = "none"
    /\ taken = [s \in Sessions |-> << >>] /\ dropped = {} /\ converted = {}
    /\ scans = 0 /\ crashes = 0 /\ faults = 0

-----------------------------------------------------------------------------
(* Faults, the action log and the control flow of an action.               *)

\* An operation of kind k fails.
Fault(k) == k \in Faults /\ faults < MaxFaults /\ faults' = faults + 1

\* It fails for certain when broken holds, and as a fault of kind k otherwise.
FailsIf(broken, k) == IF broken THEN UNCHANGED faults ELSE Fault(k)

Entry(k, s, p) == [kind |-> k, session |-> s, page |-> p]

\* record: a failure to append is only reported to the service log.
Record(e) ==
    \/ log' = Append(log, e) /\ UNCHANGED faults
    \/ Fault("append-action") /\ UNCHANGED log

\* FinishSessionWithAction: the row and its log entry in one transaction.
\* Every caller only warns when it fails.
FinishSession(s, st, doc, kind) ==
    /\ UNCHANGED <<rowUpload, rowPages, lastId>>
    /\ \/ /\ rowStatus' = [rowStatus EXCEPT ![s] = st]
          /\ rowOutput' = [rowOutput EXCEPT ![s] = doc]
          /\ log' = Append(log, Entry(kind, s, Len(pages)))
          /\ UNCHANGED faults
       \/ Fault("finish") /\ UNCHANGED <<rowStatus, rowOutput, log>>

Goto(point) == pc' = point /\ UNCHANGED act
Return      == pc' = "ready" /\ act' = "none"

\* m.cur = nil and the fields of State reset with it.
ClearSession ==
    /\ cur' = None /\ pages' = << >> /\ abort' = FALSE
    /\ processing' = 0 /\ shown' = << >>
    /\ UNCHANGED jobs

-----------------------------------------------------------------------------
(* Do: the loop hands over one action, and runMu admits no other.          *)

HasPages == cur # None /\ pages # << >>

\* A scan that could exceed a bound is not asked for.
WithinBounds(a) ==
    a \in {"scan-new", "scan-page"} =>
        /\ scans < MaxScans
        /\ a = "scan-new" \/ cur = None => lastId < MaxSessions

EntryPoint(a) ==
    CASE a = "scan-new"  -> IF HasPages THEN "finish" ELSE "scan"
      [] a = "scan-page" -> "scan"
      [] a = "discard"   -> "discard"
      [] OTHER           -> "finish"

Do(a) ==
    /\ pc = "ready" /\ WithinBounds(a)
    /\ act' = a /\ pc' = EntryPoint(a)
    /\ UNCHANGED <<rowVars, log, diskVars, memoryVars, jobVars, status,
                   history, scans, crashes, faults>>

-----------------------------------------------------------------------------
(* scan and start.                                                         *)

\* An aborted session takes no further page.
Scan ==
    /\ pc = "scan"
    /\ IF cur = None THEN Goto("create")
       ELSE IF abort THEN Return ELSE Goto("begin")
    /\ UNCHANGED <<rowVars, log, diskVars, memoryVars, jobVars, status,
                   history, scans, crashes, faults>>

CreateSession ==
    /\ pc = "create" /\ Goto("mkdir")
    /\ lastId' = lastId + 1
    /\ rowStatus' = [rowStatus EXCEPT ![lastId'] = "active"]
    /\ log' = Append(log, Entry("session-started", lastId', 0))
    /\ UNCHANGED <<rowOutput, rowUpload, rowPages, diskVars, memoryVars,
                   jobVars, status, history, scans, crashes, faults>>

CreateSessionFails ==
    /\ pc = "create" /\ Fault("create") /\ Return
    /\ status' = "error"
    /\ UNCHANGED <<rowVars, log, diskVars, memoryVars, jobVars, history,
                   scans, crashes>>

MakeWorkDir ==
    /\ pc = "mkdir" /\ Goto("begin")
    /\ dirs' = dirs \cup {lastId}
    /\ cur' = lastId /\ pages' = << >> /\ abort' = FALSE
    /\ processing' = 0 /\ shown' = << >>
    /\ UNCHANGED <<rowVars, log, files, docs, jobs, status, history,
                   scans, crashes, faults>>

\* The row CreateSession wrote stays behind, active.
MakeWorkDirFails ==
    /\ pc = "mkdir" /\ Fault("mkdir") /\ Return
    /\ status' = "error"
    /\ UNCHANGED <<rowVars, log, diskVars, memoryVars, jobVars, history,
                   scans, crashes>>

BeginScan ==
    /\ pc = "begin" /\ Goto("acquire")
    /\ status' = "scanning"
    /\ UNCHANGED <<rowVars, log, diskVars, memoryVars, jobVars, history,
                   scans, crashes, faults>>

\* Mutation of NextPage: pages are counted from zero.
NextPageFromZero == Len(pages)

NextPage == Len(pages) + 1

\* Mutation of AcquireImage: the goroutine starts before the page is recorded.
AcquireAndDispatch ==
    /\ pc = "acquire" /\ Goto("add-page")
    /\ scans' = scans + 1
    /\ jobs' = jobs \cup {[session |-> cur, page |-> NextPage,
                           image |-> scans', stage |-> "convert"]}
    /\ UNCHANGED <<rowVars, log, diskVars, memoryVars, processing, shown,
                   status, history, crashes, faults>>

AcquireImage ==
    /\ pc = "acquire" /\ Goto("add-page")
    /\ scans' = scans + 1
    /\ UNCHANGED <<rowVars, log, diskVars, memoryVars, jobVars, status,
                   history, crashes, faults>>

AcquireImageFails ==
    /\ pc = "acquire" /\ Fault("scan") /\ Goto("scan-failed")
    /\ UNCHANGED <<rowVars, log, diskVars, memoryVars, jobVars, status,
                   history, scans, crashes>>

\* The session stays open, so that "b" can retry the page.
ScanFailed ==
    /\ pc = "scan-failed" /\ Return
    /\ Record(Entry("scan-failed", cur, NextPage))
    /\ status' = "error"
    /\ UNCHANGED <<rowVars, diskVars, memoryVars, jobVars, history, scans,
                   crashes>>

\* The page and its log entry are one transaction.
AddPage ==
    /\ pc = "add-page" /\ Goto("append")
    /\ NextPage \notin rowPages[cur]
    /\ rowPages' = [rowPages EXCEPT ![cur] = @ \cup {NextPage}]
    /\ log' = Append(log, Entry("page-scanned", cur, NextPage))
    /\ UNCHANGED <<rowStatus, rowOutput, rowUpload, lastId, diskVars,
                   memoryVars, jobVars, status, history, scans, crashes,
                   faults>>

\* The primary key (session_id, page) refuses a number it has; either way the
\* scan only warns and goes on.
AddPageFails ==
    /\ pc = "add-page" /\ Goto("append")
    /\ FailsIf(NextPage \in rowPages[cur], "add-page")
    /\ UNCHANGED <<rowVars, log, diskVars, memoryVars, jobVars, status,
                   history, scans, crashes>>

\* The page joins the session and its goroutine starts.
AppendPage ==
    /\ pc = "append" /\ Goto("refresh")
    /\ pages' = Append(pages, NextPage)
    /\ shown' = Append(shown, FALSE)
    /\ processing' = processing + 1
    /\ jobs' = jobs \cup {[session |-> cur, page |-> NextPage,
                           image |-> scans, stage |-> "convert"]}
    /\ status' = "idle"
    /\ taken' = [taken EXCEPT ![cur] = Append(@, scans)]
    /\ UNCHANGED <<rowVars, log, diskVars, cur, abort, dropped, converted,
                   scans, crashes, faults>>

\* What pageSizeKB finds: an unfinished file may still be empty.
Sized(content) ==
    IF content = Torn THEN BOOLEAN ELSE {content # Absent}

\* Mutation of ShowPage: the slot is taken for the page number.
ShowPageAtNumber(s, p) ==
    IF cur = s /\ p + 1 \in 1..Len(shown)
    THEN \E sized \in Sized(files[s][p]) :
             shown' = [shown EXCEPT ![p + 1] = @ \/ sized]
    ELSE UNCHANGED shown

\* updatePageResult(s, p): the page's slot shows its file once it has a size,
\* finished or not, and is not taken back.
ShowPage(s, p) ==
    IF cur = s /\ p \in 1..Len(shown)
    THEN \E sized \in Sized(files[s][p]) :
             shown' = [shown EXCEPT ![p] = @ \/ sized]
    ELSE UNCHANGED shown

RefreshPage ==
    /\ pc = "refresh" /\ Return
    /\ ShowPage(cur, Len(pages))
    /\ UNCHANGED <<rowVars, log, diskVars, memoryVars, jobs, processing,
                   status, history, scans, crashes, faults>>

-----------------------------------------------------------------------------
(* processPage: the goroutine of one page.                                 *)

Advance(j, stage) == jobs' = (jobs \ {j}) \cup {[j EXCEPT !.stage = stage]}

PutFile(j, content) == files' = [files EXCEPT ![j.session][j.page] = content]

\* ProcessImage: img2pdf creates the page's PDF, or empties the one there is ...
BeginWriting(j) ==
    /\ j.stage = "convert" /\ Advance(j, "write")
    /\ PutFile(j, Torn)
    /\ UNCHANGED <<rowVars, log, dirs, docs, memoryVars, processing, shown,
                   status, pc, act, history, scans, crashes, faults>>

\* ... and completes it.
Convert(j) ==
    /\ j.stage = "write" /\ Advance(j, "converted")
    /\ PutFile(j, j.image)
    /\ converted' = converted \cup {j.image}
    /\ UNCHANGED <<rowVars, log, dirs, docs, memoryVars, processing, shown,
                   status, pc, act, taken, dropped, scans, crashes, faults>>

\* What a conversion that fails leaves at the page's name: what was there, if
\* img2pdf was not reached; or nothing, for ProcessImage removes its file, unless
\* somebody img2pdf left behind comes back to it (SaneScan).
Leaves(j) ==
    \/ PutFile(j, Absent)
    \/ j.stage = "convert" /\ UNCHANGED files
    \/ j.stage = "write" /\ PutFile(j, Torn)

\* Mutation of ConvertFails: the failure is logged and nothing else.
ConvertFailsQuietly(j) ==
    /\ j.stage \in Converting /\ Fault("process") /\ Advance(j, "broken")
    /\ Leaves(j)
    /\ UNCHANGED <<rowVars, log, dirs, docs, memoryVars, processing, shown,
                   status, pc, act, history, scans, crashes>>

\* A page that fails to convert aborts its session, not the page alone.  Nobody
\* can tell that its file is removed before.
ConvertFails(j) ==
    /\ j.stage \in Converting /\ Fault("process") /\ Advance(j, "broken")
    /\ Leaves(j)
    /\ abort' = (abort \/ cur = j.session)
    /\ UNCHANGED <<rowVars, log, dirs, docs, cur, pages, processing, shown,
                   status, pc, act, history, scans, crashes>>

ReportProcessed(j) ==
    /\ j.stage = "converted" /\ Advance(j, "count")
    /\ Record(Entry("page-processed", j.session, j.page))
    /\ ShowPage(j.session, j.page)
    /\ UNCHANGED <<rowVars, diskVars, memoryVars, processing, status, pc,
                   act, history, scans, crashes>>

ReportBroken(j) ==
    /\ j.stage = "broken" /\ Advance(j, "count")
    /\ Record(Entry("process-failed", j.session, j.page))
    /\ status' = "error"
    /\ UNCHANGED <<rowVars, diskVars, memoryVars, processing, shown, pc,
                   act, history, scans, crashes>>

\* The deferred calls run in this order: Processing--, then pending.Done().
CountDown(j) ==
    /\ j.stage = "count" /\ Advance(j, "release")
    /\ processing' = processing - 1
    /\ UNCHANGED <<rowVars, log, diskVars, memoryVars, shown, status, pc,
                   act, history, scans, crashes, faults>>

Release(j) ==
    /\ j.stage = "release"
    /\ jobs' = jobs \ {j}
    /\ UNCHANGED <<rowVars, log, diskVars, memoryVars, processing, shown,
                   status, pc, act, history, scans, crashes, faults>>

Process(j) ==
    \/ BeginWriting(j) \/ Convert(j) \/ ConvertFails(j)
    \/ ReportProcessed(j) \/ ReportBroken(j)
    \/ CountDown(j) \/ Release(j)

-----------------------------------------------------------------------------
(* finish and discard.                                                     *)

\* Mutation of Drained: pending.Wait() is not called.
DrainedAtOnce == TRUE

\* pending.Wait() returns once every goroutine of the session has called Done.
Drained == \A j \in jobs : j.session # cur

FinishNothing ==
    /\ pc \in {"finish", "discard"} /\ cur = None /\ Return
    /\ UNCHANGED <<rowVars, log, diskVars, memoryVars, jobVars, status,
                   history, scans, crashes, faults>>

FinishBegin ==
    /\ pc = "finish" /\ cur # None /\ Drained
    /\ IF abort THEN Goto("record-failed") /\ UNCHANGED status
       ELSE IF pages = << >> THEN Goto("record-discarded") /\ UNCHANGED status
       ELSE Goto("merge") /\ status' = "saving"
    /\ UNCHANGED <<rowVars, log, diskVars, memoryVars, jobVars, history,
                   scans, crashes, faults>>

\* Mutation of PageContents: the newest page comes first.
PageContentsBackwards ==
    [i \in 1..Len(pages) |-> files[cur][pages[Len(pages) + 1 - i]]]

\* What the page files hold, in the session's order.
PageContents == [i \in 1..Len(pages) |-> files[cur][pages[i]]]

\* A single page is copied as it is, several are parsed and must be whole.
Mergeable ==
    /\ \A i \in 1..Len(pages) : PageContents[i] # Absent
    /\ Len(pages) > 1 => \A i \in 1..Len(pages) : PageContents[i] # Torn

Document(s, c) == [session |-> s, content |-> c]

Merge ==
    /\ pc = "merge" /\ Mergeable /\ Goto("record-saved")
    /\ docs' = Append(docs, Document(cur, PageContents))
    /\ UNCHANGED <<rowVars, log, dirs, files, memoryVars, jobVars, status,
                   history, scans, crashes, faults>>

\* Mutation of MergeFails: what the merger had written stays.
MergeFailsHalfWay ==
    /\ pc = "merge" /\ FailsIf(~Mergeable, "merge") /\ Goto("record-failed")
    /\ docs' = Append(docs, Document(cur, <<Torn>>))
    /\ UNCHANGED <<rowVars, log, dirs, files, memoryVars, jobVars, status,
                   history, scans, crashes>>

\* Mutation of MergeFails: a session that cannot be merged is dropped.
MergeFailsAndDrops ==
    /\ pc = "merge" /\ FailsIf(~Mergeable, "merge") /\ Goto("record-discarded")
    /\ UNCHANGED <<rowVars, log, diskVars, memoryVars, jobVars, status,
                   history, scans, crashes>>

\* Mutation of MergeFails: the merge is tried again.
MergeFailsAndRetries ==
    /\ pc = "merge" /\ FailsIf(~Mergeable, "merge") /\ Goto("merge")
    /\ UNCHANGED <<rowVars, log, diskVars, memoryVars, jobVars, status,
                   history, scans, crashes>>

\* No free name, no space, a page file missing or broken: the merger removes
\* what it had written.
MergeFails ==
    /\ pc = "merge" /\ FailsIf(~Mergeable, "merge") /\ Goto("record-failed")
    /\ UNCHANGED <<rowVars, log, diskVars, memoryVars, jobVars, status,
                   history, scans, crashes>>

\* Mutation of FailSession: the session stays in memory, to be tried again.
FailSessionKeepsOpen ==
    /\ pc = "record-failed" /\ Return
    /\ FinishSession(cur, "failed", None, "save-failed")
    /\ status' = "error"
    /\ UNCHANGED <<diskVars, memoryVars, jobVars, history, scans, crashes>>

\* The session ends failed and its scratch directory stays.
FailSession ==
    /\ pc = "record-failed" /\ Return
    /\ FinishSession(cur, "failed", None, "save-failed")
    /\ ClearSession
    /\ status' = "error"
    /\ UNCHANGED <<diskVars, history, scans, crashes>>

WantsUpload == HasUploader /\ act # "finish-no-upload"

SaveSession ==
    /\ pc = "record-saved"
    /\ Goto(IF WantsUpload THEN "upload" ELSE "remove-saved")
    /\ FinishSession(cur, "saved", Len(docs), "session-saved")
    /\ UNCHANGED <<diskVars, memoryVars, jobVars, status,
                   history, scans, crashes>>

\* upload: the outcome is recorded on the session, whatever it is.
Upload(outcome, kind) ==
    /\ pc = "upload" /\ Goto("remove-saved")
    /\ rowUpload' = [rowUpload EXCEPT ![cur] = outcome]
    /\ log' = Append(log, Entry(kind, cur, 0))
    /\ UNCHANGED <<rowStatus, rowOutput, rowPages, lastId, diskVars,
                   memoryVars, jobVars, status, history, scans, crashes>>

UploadSucceeds == Upload("uploaded", "upload-succeeded") /\ UNCHANGED faults
UploadFails    == Upload("failed", "upload-failed") /\ Fault("upload")

\* Uploaded or not, RecordUploadWithAction failed.
UploadUnrecorded ==
    /\ pc = "upload" /\ Goto("remove-saved") /\ Fault("record-upload")
    /\ UNCHANGED <<rowVars, log, diskVars, memoryVars, jobVars, status,
                   history, scans, crashes>>

\* removeWork: RemoveAll, or a warning.
RemoveWork ==
    \/ /\ dirs' = dirs \ {cur}
       /\ files' = [files EXCEPT ![cur] = [p \in PageNos |-> Absent]]
       /\ UNCHANGED faults
    \/ Fault("remove") /\ UNCHANGED <<dirs, files>>

\* "a" goes on to scan the first page of the next session.
CloseSaved ==
    /\ pc = "remove-saved"
    /\ IF act = "scan-new" THEN Goto("scan") ELSE Return
    /\ RemoveWork /\ ClearSession
    /\ status' = "idle"
    /\ UNCHANGED <<rowVars, log, docs, history, scans, crashes>>

DiscardBegin ==
    /\ pc = "discard" /\ cur # None /\ Drained
    /\ Goto("record-discarded")
    /\ dropped' = dropped \cup {cur}
    /\ UNCHANGED <<rowVars, log, diskVars, memoryVars, jobVars, status,
                   taken, converted, scans, crashes, faults>>

DiscardSession ==
    /\ pc = "record-discarded" /\ Goto("remove-discarded")
    /\ FinishSession(cur, "discarded", None, "session-discarded")
    /\ UNCHANGED <<diskVars, memoryVars, jobVars, status,
                   history, scans, crashes>>

CloseDiscarded ==
    /\ pc = "remove-discarded" /\ Return
    /\ RemoveWork /\ ClearSession
    /\ status' = "idle"
    /\ UNCHANGED <<rowVars, log, docs, history, scans, crashes>>

-----------------------------------------------------------------------------
(* The process dies, by a signal or a crash, and is started again.         *)

\* Every file stays as it is: a page being written is torn for good.  (A tool
\* that outlives the daemon for long enough to finish it is one that finished
\* it before.)  A document being merged may be left half written.
Crash ==
    /\ pc # "down" /\ crashes < MaxCrashes
    /\ pc' = "down" /\ act' = "none" /\ crashes' = crashes + 1
    /\ cur' = None /\ pages' = << >> /\ abort' = FALSE
    /\ jobs' = {} /\ processing' = 0 /\ shown' = << >> /\ status' = "idle"
    /\ \/ pc = "merge" /\ docs' = Append(docs, Document(cur, <<Torn>>))
       \/ UNCHANGED docs
    /\ UNCHANGED <<rowVars, log, dirs, files, history, scans, faults>>

\* Mutation of IsActiveSession: the newest row, whatever its status.
IsNewestSession(s) == s = lastId

\* ActiveSession: the newest row still active.
IsActiveSession(s) ==
    /\ rowStatus[s] = "active"
    /\ \A t \in Sessions : rowStatus[t] = "active" => t <= s

\* Mutation of IsSessionPages: ORDER BY page is missing.
IsSessionPagesUnordered(q, s) ==
    \A i, k \in 1..Cardinality(rowPages[s]) : i < k => q[i] # q[k]

\* SessionPages: the recorded pages, ordered by number.
IsSessionPages(q, s) ==
    \A i \in DOMAIN q : Cardinality({p \in rowPages[s] : p <= q[i]}) = i

RestartIdle ==
    /\ pc = "down" /\ pc' = "ready"
    /\ FailsIf(\A s \in Sessions : ~IsActiveSession(s), "find-active")
    /\ UNCHANGED <<rowVars, log, diskVars, memoryVars, jobVars, status, act,
                   history, scans, crashes>>

\* recoverSession with the pages that were loaded.
Resume(s, recorded) ==
    /\ pc = "down" /\ pc' = "ready"
    /\ IsActiveSession(s) /\ s \in dirs
    /\ cur' = s /\ pages' = recorded
    /\ shown' \in [1..Len(recorded) -> BOOLEAN]
    /\ \A i \in 1..Len(recorded) : shown'[i] \in Sized(files[s][recorded[i]])
    /\ UNCHANGED <<rowVars, log, diskVars, abort, jobs, processing, status,
                   act, history, scans, crashes>>

RecoverSession(s) ==
    /\ UNCHANGED faults
    /\ \E q \in [1..Cardinality(rowPages[s]) -> rowPages[s]] :
           IsSessionPages(q, s) /\ Resume(s, q)

\* A failing SessionPages is only warned about.
RecoverWithoutPages(s) == Fault("load-pages") /\ Resume(s, << >>)

\* Mutation of MarkLost: the session is forgotten, not ended.
MarkLostUnrecorded(s) ==
    /\ pc = "down" /\ pc' = "ready"
    /\ IsActiveSession(s) /\ s \notin dirs
    /\ UNCHANGED <<rowVars, log, diskVars, memoryVars, jobVars, status, act,
                   history, scans, crashes, faults>>

\* findWorkDir found no directory.
MarkLost(s) ==
    /\ pc = "down" /\ pc' = "ready"
    /\ IsActiveSession(s) /\ s \notin dirs
    /\ FinishSession(s, "failed", None, "save-failed")
    /\ UNCHANGED <<diskVars, memoryVars, jobVars, status, act,
                   history, scans, crashes>>

Restart ==
    \/ RestartIdle
    \/ \E s \in Sessions :
           RecoverSession(s) \/ RecoverWithoutPages(s) \/ MarkLost(s)

-----------------------------------------------------------------------------

ScanStep ==
    \/ Scan \/ CreateSession \/ CreateSessionFails
    \/ MakeWorkDir \/ MakeWorkDirFails \/ BeginScan
    \/ AcquireImage \/ AcquireImageFails \/ ScanFailed
    \/ AddPage \/ AddPageFails \/ AppendPage \/ RefreshPage

FinishStep ==
    \/ FinishNothing \/ FinishBegin \/ Merge \/ MergeFails
    \/ FailSession \/ SaveSession
    \/ UploadSucceeds \/ UploadFails \/ UploadUnrecorded \/ CloseSaved
    \/ DiscardBegin \/ DiscardSession \/ CloseDiscarded

Next ==
    \/ \E a \in Commands : Do(a)
    \/ ScanStep \/ FinishStep
    \/ \E j \in jobs : Process(j)
    \/ Crash \/ Restart

Spec == Init /\ [][Next]_vars

\* The action under way and the conversions go on, because the tools they run
\* have a timeout; the service manager restarts the daemon.  Nobody has to ask
\* for anything, and an upload has no timeout.
DaemonStep == ScanStep \/ (FinishStep /\ pc # "upload") \/ Restart

Fairness ==
    /\ WF_vars(DaemonStep)
    /\ WF_vars(\E j \in jobs : Process(j))

FairSpec == Spec /\ Fairness

-----------------------------------------------------------------------------
(* Types.                                                                  *)

DatabaseTypes ==
    /\ rowStatus \in [Sessions -> RowStatuses]
    /\ rowOutput \in [Sessions -> Nat]
    /\ rowUpload \in [Sessions -> {"", "uploaded", "failed"}]
    /\ rowPages \in [Sessions -> SUBSET PageNos]
    /\ lastId \in 0..MaxSessions
    /\ log \in Seq(Event)

DiskTypes ==
    /\ dirs \subseteq Sessions
    /\ files \in [Sessions -> [PageNos -> Contents]]
    /\ docs \in Seq([session : Sessions, content : Seq(Contents)])

ManagerTypes ==
    /\ cur \in Sessions \cup {None}
    /\ pages \in Seq(PageNos)
    /\ abort \in BOOLEAN
    /\ jobs \subseteq Job
    /\ processing \in Int
    /\ shown \in Seq(BOOLEAN)
    /\ status \in {"idle", "scanning", "saving", "error"}

ControlTypes ==
    /\ pc \in Points
    /\ act \in Actions \cup {"none"}

HistoryTypes ==
    /\ taken \in [Sessions -> Seq(Images)]
    /\ dropped \subseteq Sessions
    /\ converted \subseteq Images
    /\ scans \in 0..MaxScans
    /\ crashes \in 0..MaxCrashes
    /\ faults \in 0..MaxFaults

\* Every variable has its type.
TypeOK ==
    DatabaseTypes /\ DiskTypes /\ ManagerTypes /\ ControlTypes /\ HistoryTypes
=============================================================================
