---------------------------- MODULE SessionProofs ----------------------------
(***************************************************************************)
(* IInv of SessionProperties is an inductive invariant of Session, for any *)
(* number of sessions, images, crashes and faults, any kinds of fault and  *)
(* any set of commands; from it the safety of the session manager follows. *)
(*                                                                         *)
(* One lemma per conjunct of IInv says that a step keeps it, with one step *)
(* of the proof per group of actions that touches it.  The lemmas lean on  *)
(* each other: no goroutine is left at an ending (JobInv) because all of   *)
(* them belong to the session in memory (PendingIsCurrent); what has ended *)
(* is not touched again (RowsKept) because what is open is active          *)
(* (OpenIsActive) and what is to come is fresh (FreshInv).                 *)
(*                                                                         *)
(* The types come first.  Their parts are cut so that a leaf is about      *)
(* Boolean-valued variables, sequences or numbers, and not about all of    *)
(* them: that is what the provers can do.                                  *)
(***************************************************************************)
EXTENDS SessionProperties, TLAPS, FiniteSetTheorems

(* Types: one lemma per part of TypeOK, one step per group of actions that *)
(* changes it.                                                             *)

\* The running action and its point keep their types.
LEMMA ControlStep ==
  ASSUME ControlTypes, Next
  PROVE  ControlTypes'
<1> USE ChoicesAssumption DEF ControlTypes, Goto, Return
<1>1. ASSUME NEW a \in Commands, Do(a) PROVE ControlTypes'
  BY <1>1 DEF Do, EntryPoint, Points
<1>2. ASSUME ScanStep PROVE ControlTypes'
  BY <1>2
     DEF ScanStep, Scan, CreateSession, CreateSessionFails, MakeWorkDir, MakeWorkDirFails,
         BeginScan, AcquireImage, AcquireImageFails, ScanFailed, AddPage, AddPageFails, AppendPage, RefreshPage,
         Points
<1>3. ASSUME FinishStep PROVE ControlTypes'
  BY <1>3
     DEF FinishStep, FinishNothing, FinishBegin, Merge, MergeFails, FailSession, SaveSession,
         UploadSucceeds, UploadFails, UploadUnrecorded, Upload, CloseSaved, DiscardBegin,
         DiscardSession, CloseDiscarded, Points
<1>4. ASSUME NEW j \in jobs, Process(j) PROVE ControlTypes'
  BY <1>4
     DEF Process, BeginWriting, Convert, ConvertFails, ReportProcessed, ReportBroken, CountDown, Release
<1>5. ASSUME Crash PROVE ControlTypes'
  BY <1>5 DEF Crash, Points
<1>6. ASSUME Restart PROVE ControlTypes'
  BY <1>6
     DEF Restart, RestartIdle, RecoverSession, RecoverWithoutPages, MarkLost, Resume, Points
<1> QED
  BY <1>1, <1>2, <1>3, <1>4, <1>5, <1>6 DEF Next

\* Directories, page files and documents keep their types: Merge and a cut
\* short merge append a document of the session in memory.
LEMMA DiskStep ==
  ASSUME DatabaseTypes, DiskTypes, ManagerTypes, ControlInv, FreshInv, Next
  PROVE  DiskTypes'
<1> USE DEF diskVars
<1>1. ASSUME NEW a \in Commands, Do(a) PROVE DiskTypes'
  BY <1>1 DEF Do, DiskTypes
<1>2. CASE MakeWorkDir
  BY <1>2 DEF MakeWorkDir, DiskTypes, FreshInv
<1>3. CASE ScanStep /\ ~MakeWorkDir
  BY <1>3
     DEF ScanStep, Scan, CreateSession, CreateSessionFails, MakeWorkDirFails, BeginScan,
         AcquireImage, AcquireImageFails, ScanFailed, AddPage, AddPageFails, AppendPage, RefreshPage, DiskTypes
<1>4. CASE Merge
  <2>1. PageContents \in Seq(Contents)
    BY <1>4
       DEF Merge, PageContents, DiskTypes, ManagerTypes, ControlInv, HeldPoints, EndPoints
  <2>2. Document(cur, PageContents) \in [session : Sessions, content : Seq(Contents)]
    BY <1>4, <2>1
       DEF Merge, Document, ManagerTypes, ControlInv, HeldPoints, EndPoints
  <2> QED
    BY <1>4, <2>2 DEF Merge, DiskTypes
<1>5. CASE CloseSaved \/ CloseDiscarded
  BY <1>5 DEF CloseSaved, CloseDiscarded, RemoveWork, DiskTypes, Contents
<1>6. CASE FinishStep /\ ~Merge /\ ~CloseSaved /\ ~CloseDiscarded
  BY <1>6
     DEF FinishStep, FinishNothing, FinishBegin, MergeFails, FailSession, SaveSession,
         UploadSucceeds, UploadFails, UploadUnrecorded, Upload, DiscardBegin, DiscardSession,
         DiskTypes
<1>7. ASSUME NEW j \in jobs, BeginWriting(j) \/ Convert(j) \/ ConvertFails(j)
      PROVE  DiskTypes'
  <2>1. j.session \in Sessions /\ j.page \in PageNos /\ j.image \in Contents
    BY DEF ManagerTypes, Job, Contents
  <2>2. files' = files \/ \E c \in Contents : PutFile(j, c)
    BY <1>7, <2>1 DEF BeginWriting, Convert, ConvertFails, Leaves, Contents
  <2>3. files' \in [Sessions -> [PageNos -> Contents]]
    <3>1. files \in [Sessions -> [PageNos -> Contents]]
      BY DEF DiskTypes
    <3>2. ASSUME NEW c \in Contents, PutFile(j, c) PROVE files' \in [Sessions -> [PageNos -> Contents]]
      BY <2>1, <3>1, <3>2 DEF PutFile
    <3> QED
      BY <2>2, <3>1, <3>2
  <2> QED
    BY <1>7, <2>3 DEF BeginWriting, Convert, ConvertFails, DiskTypes
<1>8. ASSUME NEW j \in jobs, ReportProcessed(j) \/ ReportBroken(j) \/ CountDown(j) \/ Release(j)
      PROVE  DiskTypes'
  BY <1>8 DEF ReportProcessed, ReportBroken, CountDown, Release, DiskTypes
<1>9. CASE Crash
  <2>1. CASE UNCHANGED docs
    BY <1>9, <2>1 DEF Crash, DiskTypes
  <2>2. CASE pc = "merge" /\ docs' = Append(docs, Document(cur, <<Torn>>))
    <3>1. Document(cur, <<Torn>>) \in [session : Sessions, content : Seq(Contents)]
      BY <2>2 DEF Document, ManagerTypes, ControlInv, HeldPoints, EndPoints, Contents
    <3> QED
      BY <1>9, <2>2, <3>1 DEF Crash, DiskTypes
  <2> QED
    BY <1>9, <2>1, <2>2 DEF Crash
<1>10. CASE Restart
  BY <1>10
     DEF Restart, RestartIdle, RecoverSession, RecoverWithoutPages, MarkLost, Resume, DiskTypes
<1> QED
  BY <1>1, <1>2, <1>3, <1>4, <1>5, <1>6, <1>7, <1>8, <1>9, <1>10
     DEF Next, Process, ScanStep, FinishStep

\* An entry of a known kind about a session is an event.
LEMMA EntryType ==
  ASSUME NEW k \in Kinds, NEW s \in Sessions, NEW p \in Nat
  PROVE  Entry(k, s, p) \in Event
  BY DEF Entry, Event

\* A scan was only admitted with a session id to spare (WithinBounds), so the
\* id CreateSession takes is within the bound.
LEMMA RoomForSession ==
  ASSUME ControlInv, RoomInv, CreateSession, lastId \in 0..MaxSessions
  PROVE  lastId' \in 1..MaxSessions
<1>1. pc = "create" /\ lastId' = lastId + 1
  BY DEF CreateSession
<1>2. cur = None /\ act \in {"scan-new", "scan-page"}
  BY <1>1 DEF ControlInv, ScanActions
<1>3. lastId < MaxSessions
  BY <1>1, <1>2 DEF RoomInv
<1> QED
  BY <1>1, <1>3, BoundsAssumption

\* The log only grows, an event at a time.
LEMMA LogGrows ==
  ASSUME ManagerTypes, HistoryTypes, DatabaseTypes, ControlInv, RoomInv, FreshInv, PageInv, Next
  PROVE  log' = log \/ \E e \in Event : log' = Append(log, e)
<1>1. ASSUME NEW a \in Commands, Do(a) PROVE log' = log
  BY <1>1 DEF Do
<1>2. CASE CreateSession
  <2>1. lastId' \in Sessions
    BY <1>2, RoomForSession DEF Sessions, DatabaseTypes
  <2> QED
    BY <1>2, <2>1, EntryType DEF CreateSession, Kinds
<1>3. CASE ScanFailed \/ AddPage
  <2>1. cur \in Sessions
    BY <1>3 DEF ScanFailed, AddPage, ControlInv, HeldPoints, ManagerTypes
  <2>2. NextPage \in Nat
    BY DEF ManagerTypes, NextPage
  <2> QED
    BY <1>3, <2>1, <2>2, EntryType DEF ScanFailed, Record, AddPage, Kinds
<1>4. CASE ScanStep /\ ~CreateSession /\ ~ScanFailed /\ ~AddPage
  BY <1>4
     DEF ScanStep, Scan, CreateSessionFails, MakeWorkDir, MakeWorkDirFails, BeginScan,
              AcquireImage, AcquireImageFails, AddPageFails, AppendPage, RefreshPage
<1>5. CASE FailSession \/ SaveSession \/ DiscardSession
  <2>1. cur \in Sessions /\ Len(pages) \in Nat
    BY <1>5
       DEF FailSession, SaveSession, DiscardSession, ControlInv, HeldPoints, EndPoints, ManagerTypes
  <2> QED
    BY <1>5, <2>1, EntryType
       DEF FailSession, SaveSession, DiscardSession, FinishSession, Kinds, EndKinds
<1>6. CASE UploadSucceeds \/ UploadFails
  <2>1. cur \in Sessions
    BY <1>6
       DEF UploadSucceeds, UploadFails, Upload, ControlInv, HeldPoints, EndPoints, ManagerTypes
  <2> QED
    BY <1>6, <2>1, EntryType
       DEF UploadSucceeds, UploadFails, Upload, Kinds, UploadKinds
<1>7. CASE FinishStep /\ ~FailSession /\ ~SaveSession /\ ~DiscardSession /\ ~UploadSucceeds /\ ~UploadFails
  BY <1>7
     DEF FinishStep, FinishNothing, FinishBegin, Merge, MergeFails, UploadUnrecorded, DiscardBegin,
              CloseSaved, CloseDiscarded
<1>8. ASSUME NEW j \in jobs, Process(j)
      PROVE  log' = log \/ \E e \in Event : log' = Append(log, e)
  <2>1. j.session \in Sessions /\ j.page \in Nat
    BY DEF ManagerTypes, Job, PageNos
  <2> QED
    BY <1>8, <2>1, EntryType
       DEF Process, BeginWriting, Convert, ConvertFails, ReportProcessed, ReportBroken, CountDown, Release,
           Record, Kinds
<1>9. ASSUME Crash PROVE log' = log
  BY <1>9 DEF Crash
<1>10. ASSUME NEW s \in Sessions, MarkLost(s)
       PROVE  log' = log \/ \E e \in Event : log' = Append(log, e)
  <2>1. Len(pages) \in Nat
    BY DEF ManagerTypes
  <2> QED
    BY <1>10, <2>1, EntryType DEF MarkLost, FinishSession, Kinds, EndKinds
<1>11. CASE Restart /\ ~\E s \in Sessions : MarkLost(s)
  BY <1>11 DEF Restart, RestartIdle, RecoverSession, RecoverWithoutPages, Resume
<1> QED
  BY <1>1, <1>2, <1>3, <1>4, <1>5, <1>6, <1>7, <1>8, <1>9, <1>10, <1>11
     DEF Next, ScanStep, FinishStep

RowTypes ==
    /\ rowStatus \in [Sessions -> RowStatuses]
    /\ rowOutput \in [Sessions -> Nat]
    /\ rowUpload \in [Sessions -> {"", "uploaded", "failed"}]
    /\ rowPages \in [Sessions -> SUBSET PageNos]
    /\ lastId \in 0..MaxSessions

\* FinishSession keeps the types of the rows.
LEMMA FinishSessionTypes ==
  ASSUME RowTypes, NEW s, NEW st \in RowStatuses, NEW d \in Nat, NEW k,
         FinishSession(s, st, d, k)
  PROVE  RowTypes'
<1>1. rowStatus' \in [Sessions -> RowStatuses] /\ rowOutput' \in [Sessions -> Nat]
  BY DEF FinishSession, RowTypes
<1> QED
  BY <1>1 DEF FinishSession, RowTypes

\* The rows of sessions and pages keep their types.
LEMMA RowStep ==
  ASSUME RowTypes, ManagerTypes, DiskTypes, HistoryTypes, ControlInv, RoomInv, PageInv, Next
  PROVE  RowTypes'
<1> USE DEF rowVars
<1>1. ASSUME NEW a \in Commands, Do(a) PROVE RowTypes'
  BY <1>1 DEF Do, RowTypes
<1>2. CASE CreateSession
  <2>1. lastId \in 0..MaxSessions
    BY DEF RowTypes
  <2>2. lastId' \in 0..MaxSessions
    BY <1>2, <2>1, RoomForSession
  <2> QED
    BY <1>2, <2>2 DEF CreateSession, RowTypes, RowStatuses
<1>3. CASE AddPage
  <2>1. NextPage \in PageNos
    BY <1>3, BoundsAssumption
       DEF AddPage, ManagerTypes, HistoryTypes, PageInv, NextPage, PageNos
  <2>2. rowPages' \in [Sessions -> SUBSET PageNos]
    BY <1>3, <2>1 DEF AddPage, RowTypes
  <2> QED
    BY <1>3, <2>2 DEF AddPage, RowTypes
<1>4. CASE ScanStep /\ ~CreateSession /\ ~AddPage
  BY <1>4
     DEF ScanStep, Scan, CreateSessionFails, MakeWorkDir, MakeWorkDirFails, BeginScan,
              AcquireImage, AcquireImageFails, ScanFailed, AddPageFails, AppendPage, RefreshPage, RowTypes
<1>5. CASE FailSession \/ SaveSession \/ DiscardSession
  <2>1. Len(docs) \in Nat
    BY DEF DiskTypes
  <2> QED
    BY <1>5, <2>1, FinishSessionTypes
       DEF FailSession, SaveSession, DiscardSession, RowStatuses, Terminal, None
<1>6. CASE UploadSucceeds \/ UploadFails
  BY <1>6 DEF UploadSucceeds, UploadFails, Upload, RowTypes
<1>7. CASE FinishStep /\ ~FailSession /\ ~SaveSession /\ ~DiscardSession /\ ~UploadSucceeds /\ ~UploadFails
  BY <1>7
     DEF FinishStep, FinishNothing, FinishBegin, Merge, MergeFails, UploadUnrecorded, DiscardBegin,
              CloseSaved, CloseDiscarded, RowTypes
<1>8. ASSUME NEW j \in jobs, Process(j) PROVE RowTypes'
  BY <1>8
     DEF Process, BeginWriting, Convert, ConvertFails, ReportProcessed, ReportBroken, CountDown, Release, RowTypes
<1>9. ASSUME Crash PROVE RowTypes'
  BY <1>9 DEF Crash, RowTypes
<1>10. ASSUME NEW s \in Sessions, MarkLost(s) PROVE RowTypes'
  BY <1>10, FinishSessionTypes DEF MarkLost, RowStatuses, Terminal, None
<1>11. CASE Restart /\ ~\E s \in Sessions : MarkLost(s)
  BY <1>11
     DEF Restart, RestartIdle, RecoverSession, RecoverWithoutPages, Resume, RowTypes
<1> QED
  BY <1>1, <1>2, <1>3, <1>4, <1>5, <1>6, <1>7, <1>8, <1>9, <1>10, <1>11
     DEF Next, ScanStep, FinishStep

\* The database keeps its type: the rows and the log.
LEMMA DatabaseStep ==
  ASSUME DatabaseTypes, ManagerTypes, DiskTypes, HistoryTypes,
         ControlInv, RoomInv, FreshInv, PageInv, Next
  PROVE  DatabaseTypes'
<1>1. log \in Seq(Event) /\ RowTypes
  BY DEF DatabaseTypes, RowTypes
<1>2. RowTypes'
  BY <1>1, RowStep
<1>3. log' \in Seq(Event)
  <2>1. log' = log \/ \E e \in Event : log' = Append(log, e)
    BY LogGrows
  <2> QED
    BY <1>1, <2>1
<1> QED
  BY <1>2, <1>3 DEF DatabaseTypes, RowTypes

\* A goroutine that moves to its next stage is still a goroutine.
LEMMA AdvanceType ==
  ASSUME jobs \subseteq Job, NEW j \in jobs, NEW st \in Stages, Advance(j, st)
  PROVE  jobs' \subseteq Job
<1>1. [j EXCEPT !.stage = st] \in Job
  BY DEF Job
<1> QED
  BY <1>1 DEF Advance

\* updatePageResult keeps the slots a sequence.
LEMMA ShowPageType ==
  ASSUME NEW s, NEW p, shown \in Seq(BOOLEAN), ShowPage(s, p)
  PROVE  shown' \in Seq(BOOLEAN)
<1>1. CASE cur = s /\ p \in 1..Len(shown)
  <2>1. PICK sized \in Sized(files[s][p]) : shown' = [shown EXCEPT ![p] = @ \/ sized]
    BY <1>1 DEF ShowPage
  <2>2. sized \in BOOLEAN
    BY <2>1 DEF Sized
  <2>3. (shown[p] \/ sized) \in BOOLEAN
    BY <2>2
  <2> QED
    BY <1>1, <2>1, <2>3
<1>2. CASE ~(cur = s /\ p \in 1..Len(shown))
  BY <1>2 DEF ShowPage
<1> QED
  BY <1>1, <1>2

\* The part of ManagerTypes that is about sequences.
SlotTypes == pages \in Seq(PageNos) /\ shown \in Seq(BOOLEAN)

MemoryTypes ==
    /\ cur \in Sessions \cup {None}
    /\ jobs \subseteq Job
    /\ processing \in Int
    /\ status \in {"idle", "scanning", "saving", "error"}

\* The pages recorded of a session are finitely many.
LEMMA RecordedPages ==
  ASSUME DatabaseTypes, NEW s \in Sessions
  PROVE  IsFiniteSet(rowPages[s]) /\ Cardinality(rowPages[s]) \in Nat
<1>1. rowPages[s] \in SUBSET (1..MaxScans)
  BY DEF DatabaseTypes, PageNos
<1>2. IsFiniteSet(1..MaxScans)
  BY BoundsAssumption, FS_Interval
<1>3. IsFiniteSet(rowPages[s])
  BY <1>1, <1>2, FS_Subset
<1> QED
  BY <1>3, FS_CardinalityType

\* The page numbers in memory and their slots stay sequences, restarts with
\* the recorded pages included.
LEMMA SlotStep ==
  ASSUME DatabaseTypes, DiskTypes, SlotTypes, cur \in Sessions \cup {None}, HistoryTypes, PageInv, Next
  PROVE  SlotTypes'
<1> USE DEF memoryVars, jobVars
<1>1. << >> \in Seq(PageNos) /\ << >> \in Seq(BOOLEAN)
  OBVIOUS
<1>2. ASSUME UNCHANGED <<pages, shown>> PROVE SlotTypes'
  BY <1>2 DEF SlotTypes
<1>3. ASSUME pages' = << >>, shown' = << >> PROVE SlotTypes'
  BY <1>1, <1>3 DEF SlotTypes
<1>4. ASSUME NEW s, NEW p, UNCHANGED pages, ShowPage(s, p)
      PROVE  SlotTypes'
  BY <1>4, ShowPageType DEF SlotTypes
<1>5. CASE AppendPage
  <2>1. NextPage \in PageNos
    BY <1>5, BoundsAssumption
       DEF AppendPage, SlotTypes, HistoryTypes, PageInv, NextPage, PageNos
  <2>2. pages' = Append(pages, NextPage) /\ shown' = Append(shown, FALSE)
    BY <1>5 DEF AppendPage
  <2> QED
    BY <2>1, <2>2 DEF SlotTypes
<1>6. CASE ScanStep /\ ~AppendPage
  BY <1>2, <1>3, <1>4, <1>6
     DEF ScanStep, Scan, CreateSession, CreateSessionFails, MakeWorkDir, MakeWorkDirFails, BeginScan,
         AcquireImage, AcquireImageFails, ScanFailed, AddPage, AddPageFails, RefreshPage
<1>7. CASE FinishStep
  BY <1>2, <1>3, <1>7
     DEF FinishStep, FinishNothing, FinishBegin, Merge, MergeFails, FailSession, SaveSession,
         UploadSucceeds, UploadFails, UploadUnrecorded, Upload, CloseSaved, DiscardBegin,
         DiscardSession, CloseDiscarded, ClearSession
<1>8. ASSUME NEW j \in jobs, Process(j) PROVE SlotTypes'
  BY <1>2, <1>4, <1>8
     DEF Process, BeginWriting, Convert, ConvertFails, ReportProcessed, ReportBroken, CountDown, Release
<1>9. ASSUME Crash PROVE SlotTypes'
  BY <1>3, <1>9 DEF Crash
<1>10. ASSUME NEW s \in Sessions, NEW q \in Seq(PageNos), Resume(s, q)
       PROVE  SlotTypes'
  <2>1. pages' = q /\ shown' \in [1..Len(q) -> BOOLEAN]
    BY <1>10 DEF Resume
  <2>2. shown' \in Seq(BOOLEAN)
    BY <2>1
  <2> QED
    BY <2>1, <2>2 DEF SlotTypes
<1>11. ASSUME NEW s \in Sessions, RecoverSession(s) PROVE SlotTypes'
  <2>1. PICK q \in [1..Cardinality(rowPages[s]) -> rowPages[s]] : Resume(s, q)
    BY <1>11 DEF RecoverSession
  <2>2. Cardinality(rowPages[s]) \in Nat /\ rowPages[s] \subseteq PageNos
    BY RecordedPages DEF DatabaseTypes
  <2>3. q \in Seq(PageNos)
    BY <2>2
  <2> QED
    BY <1>10, <2>1, <2>3
<1>12. CASE Restart /\ ~\E s \in Sessions : RecoverSession(s)
  BY <1>1, <1>2, <1>10, <1>12
     DEF Restart, RestartIdle, RecoverWithoutPages, MarkLost
<1>13. ASSUME NEW a \in Commands, Do(a) PROVE SlotTypes'
  BY <1>2, <1>13 DEF Do
<1> QED
  BY <1>5, <1>6, <1>7, <1>8, <1>9, <1>11, <1>12, <1>13 DEF Next

\* The session id, the goroutines, the counter and the status keep their
\* types.
LEMMA MemoryStep ==
  ASSUME MemoryTypes, SlotTypes, DatabaseTypes, HistoryTypes, ControlInv, FreshInv, PageInv, Next
  PROVE  MemoryTypes'
<1> USE DEF memoryVars, jobVars
<1>1. ASSUME NEW a \in Commands, Do(a) PROVE MemoryTypes'
  BY <1>1 DEF Do, MemoryTypes
<1>2. CASE AppendPage
  <2>1. cur \in Sessions /\ NextPage \in PageNos /\ scans \in Images
    BY <1>2, BoundsAssumption
       DEF AppendPage, ControlInv, HeldPoints, MemoryTypes, SlotTypes, HistoryTypes, PageInv, NextPage,
           PageNos, Images
  <2>2. [session |-> cur, page |-> NextPage, image |-> scans, stage |-> "convert"] \in Job
    BY <2>1 DEF Job, Stages, Converting
  <2>3. jobs' \subseteq Job
    BY <1>2, <2>2 DEF AppendPage, MemoryTypes
  <2>4. processing' \in Int /\ status' = "idle" /\ UNCHANGED cur
    BY <1>2 DEF AppendPage, MemoryTypes
  <2> QED
    BY <2>3, <2>4 DEF MemoryTypes
<1>3. CASE ScanStep /\ ~AppendPage
  BY <1>3
     DEF ScanStep, Scan, CreateSession, CreateSessionFails, MakeWorkDir, MakeWorkDirFails,
         BeginScan,
              AcquireImage, AcquireImageFails, ScanFailed, AddPage, AddPageFails, RefreshPage, MemoryTypes, FreshInv
<1>4. CASE FinishStep
  BY <1>4
     DEF FinishStep, FinishNothing, FinishBegin, Merge, MergeFails, FailSession, SaveSession,
              UploadSucceeds, UploadFails, UploadUnrecorded, Upload, CloseSaved, DiscardBegin,
              DiscardSession, CloseDiscarded, ClearSession, MemoryTypes
<1>5. ASSUME NEW j \in jobs, Process(j) PROVE MemoryTypes'
  <2>1. jobs' \subseteq Job
    BY <1>5, AdvanceType
       DEF Process, BeginWriting, Convert, ConvertFails, ReportProcessed, ReportBroken, CountDown, Release,
           MemoryTypes, Stages, Converting
  <2> QED
    BY <1>5, <2>1
       DEF Process, BeginWriting, Convert, ConvertFails, ReportProcessed, ReportBroken, CountDown, Release,
           MemoryTypes
<1>6. ASSUME Crash PROVE MemoryTypes'
  <2>1. cur' = None /\ jobs' = {} /\ processing' = 0 /\ status' = "idle"
    BY <1>6 DEF Crash
  <2> QED
    BY <2>1 DEF MemoryTypes
<1>7. CASE Restart
  BY <1>7
     DEF Restart, RestartIdle, RecoverSession, RecoverWithoutPages, MarkLost, Resume, MemoryTypes
<1> QED
  BY <1>1, <1>2, <1>3, <1>4, <1>5, <1>6, <1>7 DEF Next

\* abort stays a Boolean.
LEMMA AbortStep ==
  ASSUME abort \in BOOLEAN, Next
  PROVE  abort' \in BOOLEAN
<1> USE DEF memoryVars
<1>1. ASSUME ScanStep PROVE abort' \in BOOLEAN
  BY <1>1
     DEF ScanStep, Scan, CreateSession, CreateSessionFails, MakeWorkDir, MakeWorkDirFails,
         BeginScan,
              AcquireImage, AcquireImageFails, ScanFailed, AddPage, AddPageFails, AppendPage, RefreshPage
<1>2. ASSUME FinishStep PROVE abort' \in BOOLEAN
  BY <1>2
     DEF FinishStep, FinishNothing, FinishBegin, Merge, MergeFails, FailSession, SaveSession,
              UploadSucceeds, UploadFails, UploadUnrecorded, Upload, CloseSaved, DiscardBegin,
              DiscardSession, CloseDiscarded, ClearSession
<1>3. ASSUME NEW j \in jobs, Process(j) PROVE abort' \in BOOLEAN
  BY <1>3
     DEF Process, BeginWriting, Convert, ConvertFails, ReportProcessed, ReportBroken, CountDown, Release
<1>4. ASSUME Crash \/ Restart \/ \E a \in Commands : Do(a)
      PROVE  abort' \in BOOLEAN
  BY <1>4
     DEF Crash, Do, Restart, RestartIdle, RecoverSession, RecoverWithoutPages,
              MarkLost, Resume
<1> QED
  BY <1>1, <1>2, <1>3, <1>4 DEF Next

\* The state of the manager keeps its type.
LEMMA ManagerStep ==
  ASSUME DatabaseTypes, ManagerTypes, DiskTypes, HistoryTypes,
         ControlInv, FreshInv, PageInv, Next
  PROVE  ManagerTypes'
<1>1. SlotTypes /\ MemoryTypes
  BY DEF ManagerTypes, SlotTypes, MemoryTypes
<1>2. SlotTypes'
  BY <1>1, SlotStep DEF MemoryTypes
<1>3. MemoryTypes'
  BY <1>1, MemoryStep
<1>4. abort' \in BOOLEAN
  BY AbortStep DEF ManagerTypes
<1> QED
  BY <1>2, <1>3, <1>4 DEF ManagerTypes, SlotTypes, MemoryTypes

\* The history and the counters keep their types and bounds.
LEMMA HistoryStep ==
  ASSUME ManagerTypes, ControlTypes, HistoryTypes, ControlInv, RoomInv, PageInv, Next
  PROVE  HistoryTypes'
<1> USE DEF history
<1>1. ASSUME NEW a \in Commands, Do(a) PROVE HistoryTypes'
  BY <1>1 DEF Do, HistoryTypes
<1>2. CASE AppendPage
  BY <1>2, BoundsAssumption
     DEF AppendPage, HistoryTypes, ControlInv, HeldPoints, ManagerTypes, PageInv, Images
<1>3. CASE AcquireImage
  <2>1. pc = "acquire" /\ act \in ScanActions
    BY <1>3 DEF AcquireImage, ControlInv
  <2>2. scans' = scans + 1 /\ scans < MaxScans
    BY <1>3, <2>1 DEF AcquireImage, RoomInv
  <2>3. scans' \in 0..MaxScans
    BY <2>2, BoundsAssumption DEF HistoryTypes
  <2> QED
    BY <1>3, <2>3 DEF AcquireImage, HistoryTypes
<1>4. CASE ScanStep /\ ~AppendPage /\ ~AcquireImage
  BY <1>4, BoundsAssumption
     DEF ScanStep, Scan, CreateSession, CreateSessionFails, MakeWorkDir, MakeWorkDirFails,
         BeginScan, AcquireImageFails, ScanFailed, AddPage, AddPageFails, RefreshPage, Record,
         Fault, FailsIf, HistoryTypes
<1>5. CASE FinishStep
  BY <1>5, BoundsAssumption
     DEF FinishStep, FinishNothing, FinishBegin, Merge, MergeFails, FailSession, SaveSession,
         UploadSucceeds, UploadFails, UploadUnrecorded, Upload, CloseSaved, DiscardBegin,
         DiscardSession, CloseDiscarded, FinishSession, RemoveWork, Fault, FailsIf, HistoryTypes,
         ManagerTypes, ControlInv
<1>6. ASSUME NEW j \in jobs, Process(j) PROVE HistoryTypes'
  BY <1>6, BoundsAssumption
     DEF Process, BeginWriting, Convert, ConvertFails, ReportProcessed, ReportBroken, CountDown, Release, Record,
         Fault, FailsIf, HistoryTypes, ManagerTypes, Job
<1>7. CASE Crash
  BY <1>7, BoundsAssumption DEF Crash, HistoryTypes
<1>8. CASE Restart
  BY <1>8, BoundsAssumption
     DEF Restart, RestartIdle, RecoverSession, RecoverWithoutPages, MarkLost, Resume, FinishSession,
         Fault, FailsIf, HistoryTypes
<1> QED
  BY <1>1, <1>2, <1>3, <1>4, <1>5, <1>6, <1>7, <1>8 DEF Next

-----------------------------------------------------------------------------
(* The other parts of IInv.                                                *)

\* Where an action is says whether a session is open and which action it is.
LEMMA ControlInvStep ==
  ASSUME ControlInv, FreshInv, JobInv, Next
  PROVE  ControlInv'
<1> USE DEF memoryVars, Goto, Return, ControlInv, HeldPoints, EndPoints, ScanActions
<1>1. ASSUME NEW a \in Commands, Do(a) PROVE ControlInv'
  BY <1>1 DEF Do, EntryPoint, HasPages
<1>2. CASE MakeWorkDir
  BY <1>2 DEF MakeWorkDir, FreshInv, Sessions, None
<1>3. CASE ScanStep /\ ~MakeWorkDir
  BY <1>3
     DEF ScanStep, Scan, CreateSession, CreateSessionFails, MakeWorkDirFails, BeginScan,
              AcquireImage, AcquireImageFails, ScanFailed, AddPage, AddPageFails, AppendPage, RefreshPage
<1>4. CASE FinishStep
  BY <1>4
     DEF FinishStep, FinishNothing, FinishBegin, Merge, MergeFails, FailSession, SaveSession,
              UploadSucceeds, UploadFails, UploadUnrecorded, Upload, CloseSaved, DiscardBegin,
              DiscardSession, CloseDiscarded, ClearSession
<1>5. ASSUME NEW j \in jobs, Process(j) PROVE ControlInv'
  BY <1>5
     DEF JobInv, Process, BeginWriting, Convert, ConvertFails, ReportProcessed, ReportBroken, CountDown, Release
<1>6. ASSUME Crash PROVE ControlInv'
  BY <1>6 DEF Crash
<1>7. ASSUME Restart PROVE ControlInv'
  BY <1>7
     DEF Restart, RestartIdle, RecoverSession, RecoverWithoutPages, MarkLost, Resume
<1> QED
  BY <1>1, <1>2, <1>3, <1>4, <1>5, <1>6, <1>7 DEF Next

\* An action admitted with room for an image and a session keeps it until it
\* takes them.
LEMMA RoomInvStep ==
  ASSUME RoomInv, ControlInv, Next
  PROVE  RoomInv'
<1> USE DEF rowVars, memoryVars, Goto, Return, RoomInv, ScanActions
<1>1. ASSUME NEW a \in Commands, Do(a) PROVE RoomInv'
  BY <1>1 DEF Do, WithinBounds
<1>2. CASE AcquireImage
  BY <1>2 DEF AcquireImage
<1>3. CASE ScanStep /\ ~AcquireImage
  BY <1>3
     DEF ScanStep, Scan, CreateSession, CreateSessionFails, MakeWorkDir, MakeWorkDirFails,
         BeginScan,
              AcquireImageFails, ScanFailed, AddPage, AddPageFails, AppendPage, RefreshPage
<1>4. CASE FinishStep
  BY <1>4
     DEF FinishStep, FinishNothing, FinishBegin, Merge, MergeFails, FailSession, SaveSession,
              UploadSucceeds, UploadFails, UploadUnrecorded, Upload, CloseSaved, DiscardBegin,
              DiscardSession, CloseDiscarded, ClearSession, FinishSession
<1>5. ASSUME NEW j \in jobs, Process(j) PROVE RoomInv'
  BY <1>5
     DEF Process, BeginWriting, Convert, ConvertFails, ReportProcessed, ReportBroken, CountDown, Release
<1>6. ASSUME Crash PROVE RoomInv'
  BY <1>6 DEF Crash
<1>7. ASSUME Restart PROVE RoomInv'
  BY <1>7
     DEF Restart, RestartIdle, RecoverSession, RecoverWithoutPages, MarkLost, Resume, ControlInv
<1> QED
  BY <1>1, <1>2, <1>3, <1>4, <1>5, <1>6, <1>7 DEF Next

\* Ending an active session leaves the ids to come unused.
LEMMA FinishSessionFresh ==
  ASSUME FreshInv, RowTypes, NEW s \in Sessions, rowStatus[s] = "active",
         pc' # "mkdir", NEW st, NEW d, NEW k, FinishSession(s, st, d, k)
  PROVE  FreshInv'
  BY DEF FreshInv, FinishSession, RowTypes

\* The ids that CreateSession has not handed out have no row.
LEMMA FreshInvStep ==
  ASSUME FreshInv, ControlInv, OpenIsActive, RowTypes, MemoryTypes, RoomInv, Next
  PROVE  FreshInv'
<1> USE DEF rowVars, Goto, Return
<1>1. ASSUME NEW a \in Commands, Do(a) PROVE FreshInv'
  BY <1>1 DEF Do, EntryPoint, FreshInv
<1>2. CASE CreateSession
  <2>1. lastId \in 0..MaxSessions /\ lastId' \in 1..MaxSessions
    BY <1>2, RoomForSession DEF RowTypes
  <2>2. lastId' = lastId + 1 /\ rowStatus' = [rowStatus EXCEPT ![lastId'] = "active"]
    BY <1>2 DEF CreateSession
  <2>3. lastId' \in Sessions /\ rowStatus'[lastId'] = "active"
    BY <2>1, <2>2 DEF RowTypes, Sessions
  <2>4. ASSUME NEW s \in Sessions, lastId' < s PROVE rowStatus'[s] = "none"
    <3>1. s \in Int /\ s # lastId' /\ lastId < s
      BY <2>1, <2>2, <2>4, BoundsAssumption DEF Sessions
    <3> QED
      BY <2>2, <3>1 DEF FreshInv, RowTypes
  <2> QED
    BY <2>3, <2>4 DEF FreshInv
<1>3. CASE ScanStep /\ ~CreateSession
  BY <1>3
     DEF ScanStep, Scan, CreateSessionFails, MakeWorkDir, MakeWorkDirFails, BeginScan,
              AcquireImage, AcquireImageFails, ScanFailed, AddPage, AddPageFails, AppendPage, RefreshPage, FreshInv
<1>4. CASE FailSession \/ SaveSession \/ DiscardSession
  <2>1. cur \in Sessions /\ rowStatus[cur] = "active"
    BY <1>4
       DEF FailSession, SaveSession, DiscardSession, ControlInv, HeldPoints, EndPoints,
                MemoryTypes, OpenIsActive, Closing
  <2>2. pc' # "mkdir"
    BY <1>4 DEF FailSession, SaveSession, DiscardSession
  <2> QED
    BY <1>4, <2>1, <2>2, FinishSessionFresh
       DEF FailSession, SaveSession, DiscardSession
<1>5. CASE FinishStep /\ ~FailSession /\ ~SaveSession /\ ~DiscardSession
  BY <1>5 DEF FinishStep, FinishNothing, FinishBegin, Merge, MergeFails,
              UploadSucceeds, UploadFails, UploadUnrecorded, Upload, CloseSaved, DiscardBegin,
              CloseDiscarded, FreshInv
<1>6. ASSUME NEW j \in jobs, Process(j) PROVE FreshInv'
  BY <1>6
     DEF Process, BeginWriting, Convert, ConvertFails, ReportProcessed, ReportBroken, CountDown, Release, FreshInv
<1>7. ASSUME Crash PROVE FreshInv'
  BY <1>7 DEF Crash, FreshInv
<1>8. ASSUME NEW s \in Sessions, MarkLost(s) PROVE FreshInv'
  BY <1>8, FinishSessionFresh DEF MarkLost, IsActiveSession
<1>9. CASE Restart /\ ~\E s \in Sessions : MarkLost(s)
  BY <1>9
     DEF Restart, RestartIdle, RecoverSession, RecoverWithoutPages, Resume, FreshInv
<1> QED
  BY <1>1, <1>2, <1>3, <1>4, <1>5, <1>6, <1>7, <1>8, <1>9 DEF Next, FinishStep

\* The session in memory stays active in the database until its end is
\* recorded.
LEMMA OpenIsActiveStep ==
  ASSUME OpenIsActive, FreshInv, ControlInv, RowTypes, MemoryTypes, Next
  PROVE  OpenIsActive'
<1> USE DEF rowVars, memoryVars, Goto, Return, OpenIsActive, Closing
<1>1. ASSUME NEW a \in Commands, Do(a) PROVE OpenIsActive'
  BY <1>1 DEF Do, EntryPoint
<1>2. CASE CreateSession
  BY <1>2 DEF CreateSession, ControlInv
<1>3. CASE ScanStep /\ ~CreateSession
  BY <1>3
     DEF ScanStep, Scan, CreateSessionFails, MakeWorkDir, MakeWorkDirFails, BeginScan,
              AcquireImage, AcquireImageFails, ScanFailed, AddPage, AddPageFails, AppendPage, RefreshPage, FreshInv
<1>4. CASE FinishStep
  BY <1>4
     DEF FinishStep, FinishNothing, FinishBegin, Merge, MergeFails, FailSession, SaveSession,
              UploadSucceeds, UploadFails, UploadUnrecorded, Upload, CloseSaved, DiscardBegin,
              DiscardSession, CloseDiscarded, ClearSession
<1>5. ASSUME NEW j \in jobs, Process(j) PROVE OpenIsActive'
  BY <1>5
     DEF Process, BeginWriting, Convert, ConvertFails, ReportProcessed, ReportBroken, CountDown, Release
<1>6. ASSUME Crash PROVE OpenIsActive'
  BY <1>6 DEF Crash
<1>7. ASSUME Restart PROVE OpenIsActive'
  BY <1>7
     DEF Restart, RestartIdle, RecoverSession, RecoverWithoutPages, MarkLost, Resume, ControlInv,
              IsActiveSession
<1> QED
  BY <1>1, <1>2, <1>3, <1>4, <1>5, <1>6, <1>7 DEF Next

\* No more pages are recorded or held than images were acquired: a restart
\* resumes with as many as the pages table has.
LEMMA PageInvStep ==
  ASSUME PageInv, DatabaseTypes, SlotTypes, MemoryTypes, scans \in Nat, ControlInv, Next
  PROVE  PageInv'
<1> USE DEF rowVars, memoryVars, Goto, Return
<1>1. ASSUME NEW a \in Commands, Do(a) PROVE PageInv'
  BY <1>1 DEF Do, EntryPoint, PageInv
<1>2. CASE AcquireImage
  <2>1. scans' = scans + 1 /\ UNCHANGED <<rowPages, pages>>
    BY <1>2 DEF AcquireImage
  <2>2. Len(pages) \in Nat
    BY DEF SlotTypes
  <2> QED
    BY <2>1, <2>2 DEF PageInv
<1>3. CASE AddPage
  <2>1. /\ pc = "add-page" /\ pc' = "append" /\ UNCHANGED <<pages, scans>>
        /\ rowPages' = [rowPages EXCEPT ![cur] = @ \cup {NextPage}]
    BY <1>3 DEF AddPage
  <2>2. NextPage \in 1..scans
    BY <2>1 DEF PageInv, NextPage, SlotTypes
  <2>3. \A s \in Sessions : rowPages'[s] \subseteq 1..scans
    BY <2>1, <2>2 DEF PageInv, DatabaseTypes
  <2> QED
    BY <2>1, <2>3 DEF PageInv
<1>4. CASE AppendPage
  <2>1. pc = "append" /\ pc' = "refresh" /\ UNCHANGED <<rowPages, scans>> /\ pages' = Append(pages, NextPage)
    BY <1>4 DEF AppendPage
  <2>2. Len(pages') = Len(pages) + 1 /\ Len(pages) < scans /\ Len(pages) \in Nat
    BY <2>1 DEF PageInv, SlotTypes
  <2> QED
    BY <2>1, <2>2 DEF PageInv
<1>5. ASSUME pages' = << >>, UNCHANGED <<rowPages, scans>>, pc' \notin {"add-page", "append"}
      PROVE  PageInv'
  BY <1>5 DEF PageInv
<1>6. CASE ScanStep /\ ~AcquireImage /\ ~AddPage /\ ~AppendPage
  BY <1>5, <1>6
     DEF ScanStep, Scan, CreateSession, CreateSessionFails, MakeWorkDir, MakeWorkDirFails, BeginScan,
         AcquireImageFails, ScanFailed, AddPageFails, RefreshPage, PageInv
<1>7. CASE FinishStep
  BY <1>5, <1>7
     DEF FinishStep, FinishNothing, FinishBegin, Merge, MergeFails, FailSession, SaveSession,
         UploadSucceeds, UploadFails, UploadUnrecorded, Upload, CloseSaved, DiscardBegin,
         DiscardSession, CloseDiscarded, ClearSession, FinishSession, PageInv
<1>8. ASSUME NEW j \in jobs, Process(j) PROVE PageInv'
  BY <1>8
     DEF Process, BeginWriting, Convert, ConvertFails, ReportProcessed, ReportBroken, CountDown, Release, PageInv
<1>9. ASSUME Crash PROVE PageInv'
  BY <1>5, <1>9 DEF Crash
<1>10. ASSUME NEW s \in Sessions, RecoverSession(s) PROVE PageInv'
  <2>1. PICK q \in [1..Cardinality(rowPages[s]) -> rowPages[s]] : Resume(s, q)
    BY <1>10 DEF RecoverSession
  <2>2. Cardinality(rowPages[s]) <= scans /\ Cardinality(rowPages[s]) \in Nat
    <3>1. rowPages[s] \in SUBSET (1..scans)
      BY DEF PageInv
    <3>2. IsFiniteSet(1..scans) /\ Cardinality(1..scans) = scans
      BY FS_Interval
    <3> QED
      BY <3>1, <3>2, FS_Subset, RecordedPages
  <2>3. pages' = q /\ pc' = "ready" /\ UNCHANGED <<rowPages, scans>>
    BY <2>1 DEF Resume
  <2>4. Len(q) = Cardinality(rowPages[s])
    BY <2>2
  <2> QED
    BY <2>2, <2>3, <2>4 DEF PageInv
<1>11. CASE Restart /\ ~\E s \in Sessions : RecoverSession(s)
  BY <1>5, <1>11
     DEF Restart, RestartIdle, RecoverWithoutPages, MarkLost, Resume, FinishSession, PageInv
<1> QED
  BY <1>1, <1>2, <1>3, <1>4, <1>6, <1>7, <1>8, <1>9, <1>10, <1>11 DEF Next

-----------------------------------------------------------------------------
(* The goroutines: who they belong to and how many they are.               *)

\* A goroutine that moves on is the same one: its image tells.
LEMMA AdvanceJobs ==
  ASSUME JobInv, MemoryTypes, NEW j \in jobs, NEW st \in Stages, Advance(j, st),
         UNCHANGED <<pc, scans>>
  PROVE  JobInv'
<1> DEFINE n == [j EXCEPT !.stage = st]
<1>1. jobs' = (jobs \ {j}) \cup {n}
  BY DEF Advance
<1>2. n.image = j.image
  BY DEF MemoryTypes, Job
<1> HIDE DEF n
<1>3. IsFiniteSet(jobs')
  BY <1>1, FS_AddElement, FS_RemoveElement DEF JobInv
<1>4. \A k \in jobs' : k.image <= scans
  BY <1>1, <1>2 DEF JobInv
<1>5. pc \in {"add-page", "append"} => \A k \in jobs' : k.image < scans
  BY <1>1, <1>2 DEF JobInv
<1>6. \A k, m \in jobs' : k.image = m.image => k = m
  BY <1>1, <1>2 DEF JobInv
<1>7. pc \notin EndPoints
  BY DEF JobInv
<1> QED
  BY <1>3, <1>4, <1>5, <1>6, <1>7 DEF JobInv

\* Goroutines are finite, told apart by their images, and none is left at an
\* ending.
LEMMA JobInvStep ==
  ASSUME JobInv, PendingIsCurrent, MemoryTypes, SlotTypes, ControlInv, scans \in Nat, Next
  PROVE  JobInv'
<1> USE DEF memoryVars, jobVars, Goto, Return
<1>1. ASSUME UNCHANGED <<jobs, scans>>, pc' \notin {"add-page", "append"} \ {pc}, pc' \notin EndPoints \ {pc}
      PROVE  JobInv'
  BY <1>1 DEF JobInv
<1>2. ASSUME NEW a \in Commands, Do(a) PROVE JobInv'
  BY <1>1, <1>2 DEF Do, EntryPoint, EndPoints
<1>3. CASE AcquireImage
  <2>1. UNCHANGED jobs /\ scans' = scans + 1 /\ pc' = "add-page"
    BY <1>3 DEF AcquireImage
  <2>2. \A j \in jobs : j.image \in Int
    BY DEF MemoryTypes, Job, Images
  <2>3. \A j \in jobs : j.image < scans' /\ j.image <= scans'
    BY <2>1, <2>2 DEF JobInv
  <2> QED
    BY <2>1, <2>3 DEF JobInv, EndPoints
<1>4. CASE AddPage \/ AddPageFails
  <2>1. UNCHANGED <<jobs, scans>> /\ pc = "add-page" /\ pc' = "append"
    BY <1>4 DEF AddPage, AddPageFails
  <2> QED
    BY <2>1 DEF JobInv, EndPoints
<1>5. CASE AppendPage
  <2> DEFINE n == [session |-> cur, page |-> NextPage, image |-> scans, stage |-> "convert"]
  <2>1. jobs' = jobs \cup {n} /\ UNCHANGED scans /\ pc = "append" /\ pc' = "refresh"
    BY <1>5 DEF AppendPage
  <2>2. n.image = scans
    OBVIOUS
  <2> HIDE DEF n
  <2>3. \A j \in jobs : j.image \in Int /\ j.image < scans
    BY <2>1 DEF JobInv, MemoryTypes, Job, Images
  <2>4. IsFiniteSet(jobs')
    BY <2>1, FS_AddElement DEF JobInv
  <2>5. \A j, k \in jobs' : j.image = k.image => j = k
    BY <2>1, <2>2, <2>3 DEF JobInv
  <2>6. \A j \in jobs' : j.image <= scans
    BY <2>1, <2>2, <2>3
  <2> QED
    BY <2>1, <2>4, <2>5, <2>6 DEF JobInv, EndPoints
<1>6. CASE ScanStep /\ ~AcquireImage /\ ~AddPage /\ ~AddPageFails /\ ~AppendPage
  BY <1>1, <1>6
     DEF ScanStep, Scan, CreateSession, CreateSessionFails, MakeWorkDir, MakeWorkDirFails,
                    BeginScan, AcquireImageFails, ScanFailed, RefreshPage, EndPoints
<1>7. ASSUME jobs = {}, UNCHANGED <<jobs, scans>> PROVE JobInv'
  BY <1>7 DEF JobInv
<1>8. CASE FinishBegin \/ DiscardBegin
  <2>1. jobs = {}
    BY <1>8 DEF FinishBegin, DiscardBegin, Drained, PendingIsCurrent
  <2> QED
    BY <1>7, <1>8, <2>1 DEF FinishBegin, DiscardBegin
<1>9. CASE FinishNothing
  BY <1>1, <1>9 DEF FinishNothing, EndPoints
<1>10. CASE FinishStep /\ ~FinishBegin /\ ~DiscardBegin /\ ~FinishNothing
  <2>1. jobs = {}
    BY <1>10
       DEF FinishStep, Merge, MergeFails, FailSession, SaveSession, UploadSucceeds, UploadFails,
                 UploadUnrecorded, Upload, CloseSaved, DiscardSession, CloseDiscarded, JobInv, EndPoints
  <2> QED
    BY <1>7, <1>10, <2>1
       DEF FinishStep, Merge, MergeFails, FailSession, SaveSession, UploadSucceeds, UploadFails,
           UploadUnrecorded, Upload, CloseSaved, DiscardSession, CloseDiscarded, ClearSession
<1>11. ASSUME NEW j \in jobs, Process(j) PROVE JobInv'
  <2>1. CASE Release(j)
    <3>1. jobs' = jobs \ {j} /\ UNCHANGED <<pc, scans>>
      BY <2>1 DEF Release
    <3>2. IsFiniteSet(jobs')
      BY <3>1, FS_RemoveElement DEF JobInv
    <3> QED
      BY <3>1, <3>2 DEF JobInv
  <2>2. CASE ~Release(j)
    BY <1>11, <2>2, AdvanceJobs
       DEF Process, BeginWriting, Convert, ConvertFails, ReportProcessed, ReportBroken, CountDown, Stages, Converting
  <2> QED
    BY <2>1, <2>2
<1>12. ASSUME Crash PROVE JobInv'
  <2>1. jobs' = {} /\ pc' = "down"
    BY <1>12 DEF Crash
  <2> QED
    BY <2>1, FS_EmptySet DEF JobInv
<1>13. ASSUME Restart PROVE JobInv'
  BY <1>1, <1>13
     DEF Restart, RestartIdle, RecoverSession, RecoverWithoutPages, MarkLost, Resume, EndPoints
<1> QED
  BY <1>2, <1>3, <1>4, <1>5, <1>6, <1>8, <1>9, <1>10, <1>11, <1>12, <1>13
     DEF Next, ScanStep, FinishStep

Counted == {j \in jobs : j.stage # "release"}

\* The goroutines Processing counts are finitely many.
LEMMA CountedFinite ==
  ASSUME JobInv
  PROVE  IsFiniteSet(Counted) /\ Cardinality(Counted) \in Nat
<1>1. Counted \in SUBSET jobs
  BY DEF Counted
<1>2. IsFiniteSet(jobs)
  BY DEF JobInv
<1>3. IsFiniteSet(Counted)
  BY <1>1, <1>2, FS_Subset
<1> QED
  BY <1>3, FS_CardinalityType

\* A goroutine that moves on but does not count down is counted as before.
LEMMA AdvanceCounted ==
  ASSUME JobInv, MemoryTypes, NEW j \in jobs, j.stage # "release",
         NEW st \in Stages, st # "release", Advance(j, st)
  PROVE  Cardinality(Counted') = Cardinality(Counted)
<1> DEFINE n == [j EXCEPT !.stage = st]
<1>1. jobs' = (jobs \ {j}) \cup {n}
  BY DEF Advance
<1>2. n.image = j.image /\ n.stage = st
  BY DEF MemoryTypes, Job
<1> HIDE DEF n
<1>3. Counted' = (Counted \ {j}) \cup {n} /\ j \in Counted
  BY <1>1, <1>2 DEF Counted
<1>4. n \notin Counted \ {j}
  BY <1>2 DEF Counted, JobInv
<1>5. IsFiniteSet(Counted) /\ Cardinality(Counted) \in Nat
  BY CountedFinite
<1>6. IsFiniteSet(Counted \ {j}) /\ Cardinality(Counted \ {j}) = Cardinality(Counted) - 1
  BY <1>3, <1>5, FS_RemoveElement
<1>7. Cardinality((Counted \ {j}) \cup {n}) = Cardinality(Counted \ {j}) + 1
  BY <1>4, <1>6, FS_AddElement
<1> QED
  BY <1>3, <1>5, <1>6, <1>7

\* Goroutines belong to the session in memory and Processing counts them.
LEMMA PendingStep ==
  ASSUME PendingIsCurrent, JobInv, MemoryTypes, SlotTypes, scans \in Nat, ControlInv, Next
  PROVE  PendingIsCurrent'
<1> USE DEF memoryVars, jobVars, Goto, Return
<1>1. processing = Cardinality(Counted) /\ \A j \in jobs : j.session = cur
  BY DEF PendingIsCurrent, Counted
<1>2. SUFFICES /\ \A j \in jobs' : j.session = cur'
               /\ processing' = Cardinality(Counted')
  BY DEF PendingIsCurrent, Counted
<1> DEFINE Goal == /\ \A j \in jobs' : j.session = cur'
                   /\ processing' = Cardinality(Counted')
<1>3. ASSUME UNCHANGED <<jobs, cur, processing>> PROVE Goal
  BY <1>1, <1>3 DEF Counted
<1>4. ASSUME jobs' = {}, processing' = 0 PROVE Goal
  BY <1>4, FS_EmptySet DEF Counted
<1>5. ASSUME cur = None PROVE jobs = {}
  BY <1>1, <1>5 DEF MemoryTypes, Job, Sessions, None
<1>6. ASSUME cur = None, UNCHANGED <<jobs, processing>> PROVE Goal
  BY <1>1, <1>5, <1>6 DEF Counted
<1>7. ASSUME NEW a \in Commands, Do(a) PROVE Goal
  BY <1>3, <1>7 DEF Do
<1>8. CASE MakeWorkDir
  BY <1>4, <1>5, <1>8 DEF MakeWorkDir, ControlInv
<1>9. CASE AppendPage
  <2> DEFINE n == [session |-> cur, page |-> NextPage, image |-> scans, stage |-> "convert"]
  <2>1. jobs' = jobs \cup {n} /\ UNCHANGED <<cur, scans>> /\ pc = "append" /\ processing' = processing + 1
    BY <1>9 DEF AppendPage
  <2>2. n.image = scans /\ n.session = cur /\ n.stage = "convert"
    OBVIOUS
  <2> HIDE DEF n
  <2>3. n \notin Counted
    BY <2>1, <2>2 DEF JobInv, Counted
  <2>4. Counted' = Counted \cup {n}
    BY <2>1, <2>2 DEF Counted
  <2>5. Cardinality(Counted') = Cardinality(Counted) + 1
    BY <2>3, <2>4, CountedFinite, FS_AddElement
  <2> QED
    BY <1>1, <2>1, <2>2, <2>5
<1>10. CASE ScanStep /\ ~MakeWorkDir /\ ~AppendPage
  BY <1>3, <1>10
     DEF ScanStep, Scan, CreateSession, CreateSessionFails, MakeWorkDirFails, BeginScan,
              AcquireImage, AcquireImageFails, ScanFailed, AddPage, AddPageFails, RefreshPage
<1>11. CASE FailSession \/ CloseSaved \/ CloseDiscarded
  <2>1. jobs = {}
    BY <1>11 DEF FailSession, CloseSaved, CloseDiscarded, JobInv, EndPoints
  <2> QED
    BY <1>4, <1>11, <2>1 DEF FailSession, CloseSaved, CloseDiscarded, ClearSession
<1>12. CASE FinishStep /\ ~FailSession /\ ~CloseSaved /\ ~CloseDiscarded
  BY <1>3, <1>12
     DEF FinishStep, FinishNothing, FinishBegin, Merge, MergeFails, SaveSession, UploadSucceeds,
         UploadFails, UploadUnrecorded, Upload, DiscardBegin, DiscardSession
<1>13. ASSUME NEW j \in jobs, NEW st \in Stages, Advance(j, st), UNCHANGED cur
       PROVE  \A k \in jobs' : k.session = cur'
  BY <1>1, <1>13 DEF Advance, MemoryTypes, Job
<1>14. ASSUME NEW j \in jobs, Process(j) PROVE Goal
  <2>1. CASE Release(j)
    <3>1. jobs' = jobs \ {j} /\ j.stage = "release" /\ UNCHANGED <<cur, processing>>
      BY <2>1 DEF Release
    <3>2. Counted' = Counted
      BY <3>1 DEF Counted
    <3> QED
      BY <1>1, <3>1, <3>2
  <2>2. CASE CountDown(j)
    <3>1. Advance(j, "release") /\ j.stage = "count" /\ processing' = processing - 1 /\ UNCHANGED cur
      BY <2>2 DEF CountDown
    <3>2. Counted' = Counted \ {j} /\ j \in Counted
      BY <3>1 DEF Counted, Advance, MemoryTypes, Job
    <3>3. Cardinality(Counted') = Cardinality(Counted) - 1
      BY <3>2, CountedFinite, FS_RemoveElement
    <3> QED
      BY <1>1, <1>13, <3>1, <3>3 DEF Stages, Converting
  <2>3. CASE BeginWriting(j) \/ Convert(j) \/ ConvertFails(j) \/ ReportProcessed(j) \/ ReportBroken(j)
    <3>1. j.stage # "release" /\ UNCHANGED <<cur, processing>>
      BY <2>3 DEF Converting, BeginWriting, Convert, ConvertFails, ReportProcessed, ReportBroken
    <3>2. PICK st \in Stages : st # "release" /\ Advance(j, st)
      BY <2>3 DEF BeginWriting, Convert, ConvertFails, ReportProcessed, ReportBroken, Stages, Converting
    <3>3. Cardinality(Counted') = Cardinality(Counted)
      BY <3>1, <3>2, AdvanceCounted
    <3> QED
      BY <1>1, <1>13, <3>1, <3>2, <3>3
  <2> QED
    BY <1>14, <2>1, <2>2, <2>3 DEF Process
<1>15. ASSUME Crash PROVE Goal
  BY <1>4, <1>15 DEF Crash
<1>16. ASSUME Restart PROVE Goal
  BY <1>6, <1>16
     DEF Restart, RestartIdle, RecoverSession, RecoverWithoutPages, MarkLost, Resume, ControlInv
<1> QED
  BY <1>7, <1>8, <1>9, <1>10, <1>11, <1>12, <1>14, <1>15, <1>16 DEF Next

-----------------------------------------------------------------------------
(* The ends of sessions, in their rows and in the log.                     *)

\* What a step may do to the rows: an ended session keeps its row.
RowsKept == \A s \in Sessions :
    rowStatus[s] \in Terminal => rowStatus'[s] = rowStatus[s] /\ rowOutput'[s] = rowOutput[s]

\* Ending an active session keeps the rows of ended ones.
LEMMA FinishSessionKeeps ==
  ASSUME RowTypes, NEW s \in Sessions, rowStatus[s] = "active",
         NEW st, NEW d, NEW k, FinishSession(s, st, d, k)
  PROVE  RowsKept
  BY DEF RowsKept, FinishSession, RowTypes, Terminal

\* No step touches the row of an ended session.
LEMMA RowsKeptStep ==
  ASSUME RowTypes, MemoryTypes, ControlInv, RoomInv, FreshInv, OpenIsActive, Next
  PROVE  RowsKept
<1> USE DEF rowVars
<1>1. ASSUME UNCHANGED <<rowStatus, rowOutput>> PROVE RowsKept
  BY <1>1 DEF RowsKept
<1>2. ASSUME NEW a \in Commands, Do(a) PROVE RowsKept
  BY <1>1, <1>2 DEF Do
<1>3. CASE CreateSession
  <2>1. lastId \in 0..MaxSessions /\ lastId' \in 1..MaxSessions /\ lastId' = lastId + 1
    BY <1>3, RoomForSession DEF RowTypes, CreateSession
  <2>2. lastId' \in Sessions /\ lastId < lastId'
    BY <2>1 DEF Sessions
  <2>3. rowStatus[lastId'] = "none"
    BY <2>2 DEF FreshInv
  <2> QED
    BY <1>3, <2>2, <2>3 DEF RowsKept, CreateSession, RowTypes, Terminal
<1>4. CASE ScanStep /\ ~CreateSession
  BY <1>1, <1>4
     DEF ScanStep, Scan, CreateSessionFails, MakeWorkDir, MakeWorkDirFails, BeginScan,
         AcquireImage, AcquireImageFails, ScanFailed, AddPage, AddPageFails, AppendPage, RefreshPage
<1>5. CASE FailSession \/ SaveSession \/ DiscardSession
  <2>1. cur \in Sessions /\ rowStatus[cur] = "active"
    BY <1>5
       DEF FailSession, SaveSession, DiscardSession, ControlInv, HeldPoints, EndPoints,
                MemoryTypes, OpenIsActive, Closing
  <2> QED
    BY <1>5, <2>1, FinishSessionKeeps DEF FailSession, SaveSession, DiscardSession
<1>6. CASE FinishStep /\ ~FailSession /\ ~SaveSession /\ ~DiscardSession
  BY <1>1, <1>6
     DEF FinishStep, FinishNothing, FinishBegin, Merge, MergeFails, UploadSucceeds, UploadFails,
         UploadUnrecorded, Upload, CloseSaved, DiscardBegin, CloseDiscarded
<1>7. ASSUME NEW j \in jobs, Process(j) PROVE RowsKept
  BY <1>1, <1>7
     DEF Process, BeginWriting, Convert, ConvertFails, ReportProcessed, ReportBroken, CountDown, Release
<1>8. ASSUME Crash PROVE RowsKept
  BY <1>1, <1>8 DEF Crash
<1>9. ASSUME NEW s \in Sessions, MarkLost(s) PROVE RowsKept
  BY <1>9, FinishSessionKeeps DEF MarkLost, IsActiveSession
<1>10. CASE Restart /\ ~\E s \in Sessions : MarkLost(s)
  BY <1>1, <1>10
     DEF Restart, RestartIdle, RecoverSession, RecoverWithoutPages, Resume
<1> QED
  BY <1>2, <1>3, <1>4, <1>5, <1>6, <1>7, <1>8, <1>9, <1>10 DEF Next, FinishStep

\* Nothing is logged of an ended session but its upload, and an end is logged
\* with the row that shows it.
LogKept ==
    \/ log' = log
    \/ \E e \in Event :
          /\ log' = Append(log, e)
          /\ rowStatus[e.session] \notin Terminal \/ e.kind \in UploadKinds
          /\ e.kind \in EndKinds => rowStatus'[e.session] \in Terminal

\* Appending one entry keeps the log if the entry does.
LEMMA LogsEntry ==
  ASSUME NEW k \in Kinds, NEW s \in Sessions, NEW n \in Nat, log' = Append(log, Entry(k, s, n)),
         rowStatus[s] \notin Terminal \/ k \in UploadKinds,
         k \in EndKinds => rowStatus'[s] \in Terminal
  PROVE  LogKept
<1>1. Entry(k, s, n) \in Event /\ Entry(k, s, n).kind = k /\ Entry(k, s, n).session = s
  BY EntryType DEF Entry
<1> QED
  BY <1>1 DEF LogKept

\* Ending an active session is logged with the row that shows it, or not at
\* all.
LEMMA FinishSessionLogs ==
  ASSUME RowTypes, Len(pages) \in Nat, NEW s \in Sessions, rowStatus[s] = "active",
         NEW st \in Terminal, NEW d, NEW k \in EndKinds, FinishSession(s, st, d, k)
  PROVE  LogKept
<1>1. CASE log' = log
  BY <1>1 DEF LogKept
<1>2. CASE log' # log
  <2>1. log' = Append(log, Entry(k, s, Len(pages))) /\ rowStatus' = [rowStatus EXCEPT ![s] = st]
    BY <1>2 DEF FinishSession
  <2>2. rowStatus'[s] \in Terminal /\ rowStatus[s] \notin Terminal
    BY <2>1 DEF RowTypes, Terminal
  <2> QED
    BY <2>1, <2>2, LogsEntry DEF Kinds
<1> QED
  BY <1>1, <1>2

\* Every step logs like that: goroutines only log of the open session, because
\* none is left once an ending has begun.
LEMMA LogKeptStep ==
  ASSUME RowTypes, MemoryTypes, SlotTypes, ControlInv, RoomInv, FreshInv, OpenIsActive,
         PendingIsCurrent, JobInv, Next
  PROVE  LogKept
<1>1. ASSUME log' = log PROVE LogKept
  BY <1>1 DEF LogKept
<1>2. Len(pages) \in Nat /\ NextPage \in Nat
  BY DEF SlotTypes, NextPage
<1>3. cur # None => cur \in Sessions
  BY DEF MemoryTypes
<1>4. cur # None /\ pc \notin Closing => rowStatus[cur] \notin Terminal
  BY DEF OpenIsActive, Terminal
<1>5. ASSUME NEW a \in Commands, Do(a) PROVE LogKept
  BY <1>1, <1>5 DEF Do
<1>6. CASE CreateSession
  <2>1. lastId \in 0..MaxSessions /\ lastId' \in 1..MaxSessions /\ lastId' = lastId + 1
    BY <1>6, RoomForSession DEF RowTypes, CreateSession
  <2>2. lastId' \in Sessions /\ lastId < lastId'
    BY <2>1 DEF Sessions
  <2>3. rowStatus[lastId'] \notin Terminal
    BY <2>2 DEF FreshInv, Terminal
  <2>4. log' = Append(log, Entry("session-started", lastId', 0))
    BY <1>6 DEF CreateSession
  <2> QED
    BY <2>2, <2>3, <2>4, LogsEntry DEF Kinds, EndKinds
<1>7. CASE ScanFailed \/ AddPage
  <2>1. cur # None /\ pc \notin Closing
    BY <1>7 DEF ScanFailed, AddPage, ControlInv, HeldPoints, Closing
  <2>2. CASE log' = log
    BY <1>1, <2>2
  <2>3. CASE \E k \in {"scan-failed", "page-scanned"} : log' = Append(log, Entry(k, cur, NextPage))
    BY <1>2, <1>3, <1>4, <2>1, <2>3, LogsEntry DEF Kinds, EndKinds
  <2> QED
    BY <1>7, <2>2, <2>3 DEF ScanFailed, Record, AddPage
<1>8. CASE ScanStep /\ ~CreateSession /\ ~ScanFailed /\ ~AddPage
  BY <1>1, <1>8
     DEF ScanStep, Scan, CreateSessionFails, MakeWorkDir, MakeWorkDirFails, BeginScan,
                    AcquireImage, AcquireImageFails, AddPageFails, AppendPage, RefreshPage
<1>9. CASE FailSession \/ SaveSession \/ DiscardSession
  <2>1. cur \in Sessions /\ rowStatus[cur] = "active"
    BY <1>9
       DEF FailSession, SaveSession, DiscardSession, ControlInv, HeldPoints, EndPoints,
                MemoryTypes, OpenIsActive, Closing
  <2> QED
    BY <1>2, <1>9, <2>1, FinishSessionLogs
       DEF FailSession, SaveSession, DiscardSession, Terminal, EndKinds
<1>10. CASE UploadSucceeds \/ UploadFails
  <2>1. cur \in Sessions
    BY <1>3, <1>10
       DEF UploadSucceeds, UploadFails, Upload, ControlInv, HeldPoints, EndPoints
  <2>2. \E k \in UploadKinds : log' = Append(log, Entry(k, cur, 0))
    BY <1>10 DEF UploadSucceeds, UploadFails, Upload, UploadKinds
  <2> QED
    BY <2>1, <2>2, LogsEntry DEF Kinds, EndKinds, UploadKinds
<1>11. CASE FinishStep /\ ~FailSession /\ ~SaveSession /\ ~DiscardSession /\ ~UploadSucceeds /\ ~UploadFails
  BY <1>1, <1>11
     DEF FinishStep, FinishNothing, FinishBegin, Merge, MergeFails, UploadUnrecorded, DiscardBegin,
                     CloseSaved, CloseDiscarded
<1>12. ASSUME NEW j \in jobs, Process(j) PROVE LogKept
  <2>1. j.session = cur /\ j.session \in Sessions /\ j.page \in Nat
    BY DEF PendingIsCurrent, MemoryTypes, Job, PageNos
  <2>2. cur # None /\ pc \notin Closing
    BY <2>1 DEF Sessions, None, JobInv, EndPoints, Closing
  <2>3. log' = log \/ \E k \in {"page-processed", "process-failed"} : log' = Append(log, Entry(k, j.session, j.page))
    BY <1>12
       DEF Process, BeginWriting, Convert, ConvertFails, ReportProcessed, ReportBroken, CountDown, Release, Record
  <2> QED
    BY <1>1, <1>4, <2>1, <2>2, <2>3, LogsEntry DEF Kinds, EndKinds
<1>13. ASSUME Crash PROVE LogKept
  BY <1>1, <1>13 DEF Crash
<1>14. ASSUME NEW s \in Sessions, MarkLost(s) PROVE LogKept
  BY <1>2, <1>14, FinishSessionLogs
     DEF MarkLost, IsActiveSession, Terminal, EndKinds
<1>15. CASE Restart /\ ~\E s \in Sessions : MarkLost(s)
  BY <1>1, <1>15
     DEF Restart, RestartIdle, RecoverSession, RecoverWithoutPages, Resume
<1> QED
  BY <1>5, <1>6, <1>7, <1>8, <1>9, <1>10, <1>11, <1>12, <1>13, <1>14, <1>15
     DEF Next, ScanStep, FinishStep

\* Sessions whose end is logged are ended.
LEMMA EndLoggedStep ==
  ASSUME EndLogged, log \in Seq(Event), RowsKept, LogKept
  PROVE  EndLogged'
<1>1. \A i \in 1..Len(log) : log[i].session \in Sessions
  <2>1. \A e \in Event : e.session \in Sessions
    BY DEF Event
  <2>2. \A i \in 1..Len(log) : log[i] \in Event
    OBVIOUS
  <2> QED
    BY <2>1, <2>2
<1>2. \A i \in 1..Len(log) : log[i].kind \in EndKinds => rowStatus'[log[i].session] \in Terminal
  BY <1>1 DEF EndLogged, RowsKept
<1>3. CASE log' = log
  BY <1>2, <1>3 DEF EndLogged
<1>4. ASSUME NEW e \in Event, log' = Append(log, e), e.kind \in EndKinds => rowStatus'[e.session] \in Terminal
      PROVE  EndLogged'
  <2>1. ASSUME NEW i \in 1..Len(log'), log'[i].kind \in EndKinds
        PROVE  rowStatus'[log'[i].session] \in Terminal
    BY <1>2, <1>4, <2>1
  <2> QED
    BY <2>1 DEF EndLogged
<1> QED
  BY <1>3, <1>4 DEF LogKept

\* Nothing but an upload is logged of a session whose end is logged.
LEMMA NothingAfterEndStep ==
  ASSUME NothingAfterEnd, EndLogged, log \in Seq(Event), LogKept
  PROVE  NothingAfterEnd'
<1>1. CASE log' = log
  BY <1>1 DEF NothingAfterEnd
<1>2. ASSUME NEW e \in Event, log' = Append(log, e),
             rowStatus[e.session] \notin Terminal \/ e.kind \in UploadKinds
      PROVE  NothingAfterEnd'
  <2>1. ASSUME NEW i \in 1..Len(log'), NEW k \in 1..Len(log'),
               i < k, log'[i].session = log'[k].session, log'[i].kind \in EndKinds
        PROVE  log'[k].kind \in UploadKinds
    <3>1. i \in 1..Len(log) /\ log'[i] = log[i]
      BY <1>2, <2>1
    <3>2. CASE k \in 1..Len(log)
      BY <1>2, <2>1, <3>1, <3>2 DEF NothingAfterEnd
    <3>3. CASE k \notin 1..Len(log)
      <4>1. log'[k] = e
        BY <1>2, <3>3
      <4>2. rowStatus[e.session] \in Terminal
        BY <2>1, <3>1, <4>1 DEF EndLogged
      <4> QED
        BY <1>2, <4>1, <4>2
    <3> QED
      BY <3>2, <3>3
  <2> QED
    BY <2>1 DEF NothingAfterEnd
<1> QED
  BY <1>1, <1>2 DEF LogKept

-----------------------------------------------------------------------------
(* The inductive invariant and the theorems.                               *)

\* The invariant holds when a new database is opened.
LEMMA InitialInv == Init => IInv
<1> SUFFICES ASSUME Init PROVE IInv
  OBVIOUS
<1>1. DatabaseTypes
  <2>1. /\ rowStatus = [s \in Sessions |-> "none"]
        /\ rowOutput = [s \in Sessions |-> None]
        /\ rowUpload = [s \in Sessions |-> ""]
        /\ rowPages = [s \in Sessions |-> {}]
    BY DEF Init
  <2>2. lastId \in 0..MaxSessions
    <3>1. lastId = 0
      BY DEF Init
    <3> QED
      BY <3>1, BoundsAssumption
  <2>3. log \in Seq(Event)
    <3>1. log = << >>
      BY DEF Init
    <3> QED
      BY <3>1
  <2>4. rowStatus \in [Sessions -> RowStatuses] /\ rowOutput \in [Sessions -> Nat]
    BY <2>1 DEF RowStatuses, None
  <2>5. rowUpload \in [Sessions -> {"", "uploaded", "failed"}] /\ rowPages \in [Sessions -> SUBSET PageNos]
    BY <2>1
  <2> QED
    BY <2>2, <2>3, <2>4, <2>5 DEF DatabaseTypes
<1>2. DiskTypes
  <2>1. dirs = {} /\ docs = << >> /\ files = [s \in Sessions |-> [p \in PageNos |-> Absent]]
    BY DEF Init
  <2>2. files \in [Sessions -> [PageNos -> Contents]]
    BY <2>1 DEF Contents
  <2>3. docs \in Seq([session : Sessions, content : Seq(Contents)])
    BY <2>1
  <2> QED
    BY <2>1, <2>2, <2>3 DEF DiskTypes
<1>3. SlotTypes
  <2>1. pages = << >> /\ shown = << >>
    BY DEF Init
  <2> QED
    BY <2>1 DEF SlotTypes
<1>4. MemoryTypes
  <2>1. cur = None /\ jobs = {} /\ processing = 0 /\ status = "idle"
    BY DEF Init
  <2> QED
    BY <2>1 DEF MemoryTypes
<1>5. abort \in BOOLEAN
  BY DEF Init
<1>6. ManagerTypes
  BY <1>3, <1>4, <1>5 DEF ManagerTypes, SlotTypes, MemoryTypes
<1>7. ControlTypes
  BY DEF Init, ControlTypes, Points
<1>8. HistoryTypes
  <2>1. /\ taken = [s \in Sessions |-> << >>] /\ dropped = {} /\ converted = {}
        /\ scans = 0 /\ crashes = 0 /\ faults = 0
    BY DEF Init
  <2>2. taken \in [Sessions -> Seq(Images)]
    BY <2>1
  <2>3. scans \in 0..MaxScans /\ crashes \in 0..MaxCrashes /\ faults \in 0..MaxFaults
    BY <2>1, BoundsAssumption
  <2> QED
    BY <2>1, <2>2, <2>3 DEF HistoryTypes
<1>9. ControlInv /\ RoomInv /\ FreshInv /\ OpenIsActive
  BY DEF Init, ControlInv, RoomInv, FreshInv, OpenIsActive, HeldPoints, EndPoints, ScanActions
<1>10. PageInv
  <2>1. /\ rowPages = [s \in Sessions |-> {}] /\ pages = << >>
        /\ scans = 0 /\ pc = "ready"
    BY DEF Init
  <2> QED
    BY <2>1 DEF PageInv
<1>11. JobInv /\ PendingIsCurrent
  <2>1. jobs = {} /\ processing = 0 /\ pc = "ready"
    BY DEF Init
  <2> QED
    BY <2>1, FS_EmptySet DEF JobInv, PendingIsCurrent
<1>12. EndLogged /\ NothingAfterEnd
  <2>1. log = << >>
    BY DEF Init
  <2> QED
    BY <2>1 DEF EndLogged, NothingAfterEnd
<1> QED
  BY <1>1, <1>2, <1>6, <1>7, <1>8, <1>9, <1>10, <1>11, <1>12 DEF IInv, TypeOK

\* Every step keeps the invariant.
LEMMA InvStep == IInv /\ [Next]_vars => IInv'
<1> SUFFICES ASSUME IInv, [Next]_vars PROVE IInv'
  OBVIOUS
<1> USE DEF IInv
<1>1. CASE Next
  <2>1. /\ DatabaseTypes /\ DiskTypes /\ ManagerTypes /\ ControlTypes /\ HistoryTypes
        /\ ControlInv /\ RoomInv /\ FreshInv /\ PageInv /\ JobInv
        /\ OpenIsActive /\ PendingIsCurrent /\ EndLogged /\ NothingAfterEnd
    BY DEF TypeOK
  <2>2. RowTypes
    BY <2>1 DEF DatabaseTypes, RowTypes
  <2>3. SlotTypes /\ MemoryTypes
    BY <2>1 DEF ManagerTypes, SlotTypes, MemoryTypes
  <2>4. scans \in Nat
    BY <2>1, BoundsAssumption DEF HistoryTypes
  <2> HIDE DEF IInv
  <2>5. TypeOK'
    BY <1>1, <2>1, DatabaseStep, DiskStep, ManagerStep, ControlStep, HistoryStep
       DEF TypeOK
  <2>6. ControlInv'
    BY <1>1, <2>1, ControlInvStep
  <2>7. RoomInv'
    BY <1>1, <2>1, RoomInvStep
  <2>8. FreshInv'
    BY <1>1, <2>1, <2>2, <2>3, FreshInvStep
  <2>9. PageInv'
    BY <1>1, <2>1, <2>3, <2>4, PageInvStep
  <2>10. OpenIsActive'
    BY <1>1, <2>1, <2>2, <2>3, OpenIsActiveStep
  <2>11. JobInv' /\ PendingIsCurrent'
    BY <1>1, <2>1, <2>3, <2>4, JobInvStep, PendingStep
  <2>12. EndLogged' /\ NothingAfterEnd'
    <3>1. log \in Seq(Event)
      BY <2>1 DEF DatabaseTypes
    <3>2. RowsKept /\ LogKept
      BY <1>1, <2>1, <2>2, <2>3, RowsKeptStep, LogKeptStep
    <3> QED
      BY <2>1, <3>1, <3>2, EndLoggedStep, NothingAfterEndStep
  <2> QED
    BY <2>5, <2>6, <2>7, <2>8, <2>9, <2>10, <2>11, <2>12 DEF IInv
<1>2. CASE UNCHANGED vars
  <2> USE <1>2 DEF vars, rowVars, diskVars, memoryVars, jobVars, history
  <2>1. TypeOK'
    BY DEF TypeOK, DatabaseTypes, DiskTypes, ManagerTypes, ControlTypes, HistoryTypes
  <2>2. ControlInv' /\ RoomInv' /\ FreshInv' /\ PageInv' /\ OpenIsActive'
    BY DEF ControlInv, RoomInv, FreshInv, PageInv, OpenIsActive
  <2>3. JobInv' /\ PendingIsCurrent'
    BY DEF JobInv, PendingIsCurrent
  <2>4. EndLogged' /\ NothingAfterEnd'
    BY DEF EndLogged, NothingAfterEnd
  <2> QED
    BY <2>1, <2>2, <2>3, <2>4
<1> QED
  BY <1>1, <1>2

\* The invariant holds throughout.
LEMMA Invariance == Spec => []IInv
  BY InitialInv, InvStep, PTL DEF Spec

\* Every variable keeps its type: no page number, image or session id leaves
\* its bounds, in whatever order actions, goroutines and restarts come.
THEOREM TypeCorrectness == Spec => []TypeOK
<1>1. IInv => TypeOK
  BY DEF IInv
<1> QED
  BY <1>1, Invariance, PTL

\* The session the manager holds is active in the database until its end is
\* recorded, through restarts and failed transactions (session.go: recover,
\* finish, discard).
THEOREM OpenSessionIsActive == Spec => []OpenIsActive
<1>1. IInv => OpenIsActive
  BY DEF IInv
<1> QED
  BY <1>1, Invariance, PTL

\* The goroutines still converting belong to the session in memory and are the
\* ones Processing counts (session.go: processPage, finish, discard, clear).
THEOREM PendingBelongsToCurrent == Spec => []PendingIsCurrent
<1>1. IInv => PendingIsCurrent
  BY DEF IInv
<1> QED
  BY <1>1, Invariance, PTL

\* A session ends once in the action log, and nothing but its upload is logged
\* of it afterwards (session.go: finish, discard, recoverSession).
THEOREM LogEndsOnce == Spec => []NothingAfterEnd
<1>1. IInv => NothingAfterEnd
  BY DEF IInv
<1> QED
  BY <1>1, Invariance, PTL

\* A session that was saved, failed or discarded keeps its status and its
\* document for good, whatever actions, goroutines and restarts follow.
THEOREM EndedSessionsAreFinal == Spec => TerminalIsFinal
<1>1. IInv /\ [Next]_vars => [RowsKept]_vars
  <2>1. IInv /\ Next => RowsKept
    <3> SUFFICES ASSUME IInv, Next PROVE RowsKept
      OBVIOUS
    <3>1. /\ DatabaseTypes /\ ManagerTypes
          /\ ControlInv /\ RoomInv /\ FreshInv /\ OpenIsActive
      BY DEF IInv, TypeOK
    <3>2. RowTypes /\ MemoryTypes
      BY <3>1 DEF DatabaseTypes, RowTypes, ManagerTypes, MemoryTypes
    <3> QED
      BY <3>1, <3>2, RowsKeptStep
  <2> QED
    BY <2>1
<1>2. RowsKept <=> (\A s \in Sessions :
           rowStatus[s] \in Terminal =>
               rowStatus'[s] = rowStatus[s] /\ rowOutput'[s] = rowOutput[s])
  BY DEF RowsKept
<1> QED
  BY <1>1, <1>2, Invariance, PTL DEF Spec, TerminalIsFinal
=============================================================================
